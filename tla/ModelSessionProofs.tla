------------------------- MODULE ModelSessionProofs -------------------------
(***************************************************************************)
(* SessionInv is inductive and implies the safety properties of            *)
(* ModelSession.  Its heart is Held: below the runner's position, the rows *)
(* the next query will attend to are those of the text under way.  The     *)
(* window's ring keeps them because two positions less than its capacity   *)
(* apart never share a slot.                                               *)
(***************************************************************************)
EXTENDS ModelSession, SequenceTheorems, TLAPS

\* The rows a query at position n will find below it are the rows of s.
Held(s, n) == n > 0 => Resident(s, n - 1)

\* Texts that agree on what a runner at position n has taken.
Agree(s, t, n) ==
  n <= Len(s) /\ n <= Len(t) /\ \A i \in 1..n : s[i] = t[i]

\* Between requests and before the loop starts, the entry is what the cache
\* holds; it remembers the whole turn it was left by.
EntryInv ==
  /\ entry # NoEntry => shown = Append(entry.tokens, entry.boundary)
  /\ entry # NoEntry /\ pc \in {"idle", "start"} =>
       position = Len(entry.tokens) /\ Held(entry.tokens, position)
  /\ pc = "start" =>
       /\ cached > 0 => entry # NoEntry
       /\ entry # NoEntry => Agree(entry.tokens, prompt, cached) /\ cached = position

\* Only a chunk under way leaves the runner dirty, and only sampling counts.
RunnerInv ==
  /\ dirty => pc = "chunk"
  /\ pc \in {"idle", "start", "prefill", "chunk"} => generated = 0
  /\ pc # "idle" => maxNew > 0 /\ Len(prompt) + maxNew <= MaxContext
  /\ pc = "start" => cached < Len(prompt)
  /\ pc \notin {"idle", "start"} => position = cursor

\* The prompt's part: rows and history are those of the prompt, up to cursor.
PromptInv ==
  /\ pc \in {"prefill", "chunk"} => cursor < Len(prompt)
  /\ pc = "prefill" => history = Prefix(prompt, cursor) /\ Held(prompt, position)
  /\ pc = "chunk" =>
       /\ writing \in 1..ChunkTokens /\ cursor + writing <= Len(prompt)
       /\ \A p \in position..(position + writing - 1) : Resident(prompt, p)

\* What history is while a token is fed: a piece of the prompt, or the prompt
\* and every token sampled so far.
Feeding ==
  /\ Len(history) = position + 1 /\ generated < maxNew
  /\ \/ Agree(prompt, history, Len(history)) /\ generated = 0
     \/ Agree(prompt, history, Len(prompt)) /\ Len(history) = Len(prompt) + generated

HistoryInv ==
  /\ pc = "produce" => Feeding /\ Held(history, position)
  /\ pc = "token" => Feeding /\ Resident(history, position)
  /\ pc \in {"decode", "finish"} =>
       /\ Len(history) = position /\ Held(history, position)
       /\ Agree(prompt, history, Len(prompt))
  /\ pc = "decode" => generated < maxNew /\ Len(history) = Len(prompt) + generated
  /\ pc = "finish" => Len(boundary) = 1

SessionInv == SessionTypeOK /\ EntryInv /\ RunnerInv /\ PromptInv /\ HistoryInv

-----------------------------------------------------------------------------
(* Slots and rows.                                                         *)

LEMMA CapacityFacts ==
  ASSUME NEW k \in LayerKinds
  PROVE  /\ Capacity(k) \in Nat \ {0}
         /\ \/ Capacity(k) = MaxContext
            \/ k = "swa" /\ Capacity(k) = SlidingWindow + MaxChunkTokens
BY ContextAssumption DEF Capacity, Smaller, LayerKinds

\* Two positions less than a capacity apart have different slots.
LEMMA RemaindersDiffer ==
  ASSUME NEW p \in Nat, NEW q \in Nat, NEW c \in Nat \ {0}, p < q, q - p < c
  PROVE  p % c # q % c
<1>1. /\ p = c * (p \div c) + (p % c) /\ p \div c \in Int
      /\ q = c * (q \div c) + (q % c) /\ q \div c \in Int
      /\ p % c \in Int /\ q % c \in Int
  OBVIOUS
<1>2. SUFFICES ASSUME p % c = q % c PROVE FALSE
  OBVIOUS
<1>3. \A x, y \in Int : x < y => c * y - c * x >= c
  <2>1. ASSUME NEW x \in Int, NEW y \in Int, x < y PROVE c * y - c * x >= c
    <3>1. c * y - c * x = c * (y - x) /\ y - x >= 1
      BY <2>1
    <3>2. c * (y - x) >= c
      BY <3>1
    <3> QED BY <3>1, <3>2
  <2> QED BY <2>1
<1>4. c * (q \div c) - c * (p \div c) = q - p
  BY <1>1, <1>2
<1>5. CASE p \div c < q \div c
  BY <1>1, <1>3, <1>4, <1>5
<1>6. CASE q \div c < p \div c
  <2>1. c * (p \div c) - c * (q \div c) >= c
    BY <1>1, <1>3, <1>6
  <2>2. c * (p \div c) \in Int /\ c * (q \div c) \in Int
    BY <1>1
  <2> QED BY <1>4, <2>1, <2>2
<1>7. CASE q \div c = p \div c
  BY <1>1, <1>4, <1>7
<1> QED BY <1>1, <1>5, <1>6, <1>7

\* No two positions of the context share a slot, unless the ring has gone
\* past the window and a whole chunk between them.
LEMMA SlotsApart ==
  ASSUME NEW k \in LayerKinds, NEW p \in 0..(MaxContext - 1), NEW q \in 0..(MaxContext - 1),
         p < q, k = "swa" => q - p < SlidingWindow + MaxChunkTokens
  PROVE  PhysicalSlot(k, p) # PhysicalSlot(k, q)
<1>1. MaxContext \in Nat /\ q - p < Capacity(k)
  BY CapacityFacts, ContextAssumption DEF LayerKinds
<1> QED BY <1>1, CapacityFacts, RemaindersDiffer DEF PhysicalSlot

LEMMA SlotExists ==
  ASSUME NEW k \in LayerKinds, NEW p \in Nat
  PROVE  PhysicalSlot(k, p) \in 0..(Capacity(k) - 1)
<1> DEFINE c == Capacity(k)
<1>1. c \in Nat \ {0}
  BY CapacityFacts
<1> HIDE DEF c
<1>2. p % c \in 0..(c - 1)
  BY <1>1
<1> QED BY <1>2 DEF PhysicalSlot, c

LEMMA PrefixFacts ==
  ASSUME NEW s \in Seq(Tokens), NEW n \in 0..Len(s)
  PROVE  /\ Prefix(s, n) \in Seq(Tokens) /\ Len(Prefix(s, n)) = n
         /\ \A i \in 1..n : Prefix(s, n)[i] = s[i]
         /\ Prefix(s, Len(s)) = s
BY DEF Prefix

\* The rows of a text depend on no more of it than their own prefix.
LEMMA AgreeingPrefixes ==
  ASSUME NEW s \in Seq(Tokens), NEW t \in Seq(Tokens), NEW n \in Nat, Agree(s, t, n),
         NEW m \in 0..n
  PROVE  Prefix(s, m) = Prefix(t, m)
<1>1. m <= Len(s) /\ m <= Len(t) /\ \A i \in 1..m : s[i] = t[i]
  BY DEF Agree
<1>2. m \in 0..Len(s) /\ m \in 0..Len(t)
  BY <1>1
<1> DEFINE a == Prefix(s, m)
           b == Prefix(t, m)
<1>3. /\ a \in Seq(Tokens) /\ Len(a) = m /\ \A i \in 1..m : a[i] = s[i]
      /\ b \in Seq(Tokens) /\ Len(b) = m /\ \A i \in 1..m : b[i] = t[i]
  BY <1>2, PrefixFacts
<1> HIDE DEF a, b
<1>4. Len(a) = Len(b) /\ \A i \in 1..Len(a) : a[i] = b[i]
  BY <1>1, <1>3
<1>5. a = b
  BY <1>3, <1>4, SeqEqual
<1> QED BY <1>5 DEF a, b

LEMMA HeldByAgreeing ==
  ASSUME NEW s \in Seq(Tokens), NEW t \in Seq(Tokens), NEW n \in Nat, Agree(s, t, n),
         Held(s, n)
  PROVE  Held(t, n)
<1> SUFFICES ASSUME n > 0, NEW k \in LayerKinds, NEW q \in FirstAttended(k, n - 1)..(n - 1)
             PROVE  rows[k][PhysicalSlot(k, q)] = Prefix(t, q + 1)
  BY DEF Held, Resident
<1>1. q + 1 \in 0..n
  BY ContextAssumption DEF FirstAttended
<1>2. rows[k][PhysicalSlot(k, q)] = Prefix(s, q + 1)
  BY DEF Held, Resident
<1> QED BY <1>1, <1>2, AgreeingPrefixes

\* Writing the rows of s from the runner's position on leaves every row that
\* their queries attend to in its slot, the ones written before included.
LEMMA WriteKeepsTheWindow ==
  ASSUME SessionTypeOK, NEW s \in Seq(Tokens), NEW n \in 1..ChunkTokens,
         position + n <= MaxContext, position + n <= Len(s), Held(s, position),
         WriteRows(s, position, position + n - 1)
  PROVE  /\ \A k \in LayerKinds : rows'[k] \in [0..(Capacity(k) - 1) -> Seq(Tokens)]
         /\ \A p \in position..(position + n - 1) : \A k \in LayerKinds :
              \A q \in FirstAttended(k, p)..p : rows'[k][PhysicalSlot(k, q)] = Prefix(s, q + 1)
<1> DEFINE last == position + n - 1
           hit(k, i) == {p \in position..last : PhysicalSlot(k, p) = i}
           newest(k, i) == CHOOSE p \in hit(k, i) : \A q \in hit(k, i) : q <= p
<1>1. /\ position \in Nat /\ MaxContext \in Nat /\ SlidingWindow \in Nat /\ SlidingWindow > 0
      /\ n <= MaxChunkTokens /\ MaxChunkTokens \in Nat /\ n \in Nat /\ last \in Nat
      /\ last < MaxContext /\ position <= last
  <2>1. {MaxContext, SlidingWindow, MaxChunkTokens} \subseteq Nat \ {0} /\ position \in Nat
    BY ContextAssumption DEF SessionTypeOK
  <2>2. n \in Nat /\ n >= 1 /\ n <= MaxChunkTokens
    BY <2>1, ChunkAssumption
  <2> QED BY <2>1, <2>2
<1>2. \A k \in LayerKinds : rows[k] \in [0..(Capacity(k) - 1) -> Seq(Tokens)]
  BY DEF SessionTypeOK
<1>3. ASSUME NEW k \in LayerKinds, NEW i \in 0..(Capacity(k) - 1)
      PROVE  rows'[k][i] = IF hit(k, i) = {} THEN rows[k][i]
                           ELSE Prefix(s, newest(k, i) + 1)
  BY <1>2 DEF WriteRows
<1>4. ASSUME NEW k \in LayerKinds, NEW q \in position..last
      PROVE  hit(k, PhysicalSlot(k, q)) = {q}
  <2>1. ASSUME NEW r \in position..last, r # q
        PROVE  PhysicalSlot(k, r) # PhysicalSlot(k, q)
    <3>1. /\ r \in 0..(MaxContext - 1) /\ q \in 0..(MaxContext - 1)
          /\ r - q < SlidingWindow + MaxChunkTokens /\ q - r < SlidingWindow + MaxChunkTokens
      BY <1>1
    <3>2. CASE r < q
      BY <3>1, <3>2, SlotsApart
    <3>3. CASE q < r
      BY <3>1, <3>3, SlotsApart
    <3> QED BY <1>1, <2>1, <3>2, <3>3
  <2> QED BY <2>1
<1>5. ASSUME NEW k \in LayerKinds, NEW q \in position..last
      PROVE  rows'[k][PhysicalSlot(k, q)] = Prefix(s, q + 1)
  <2>0. q \in Nat
    BY <1>1
  <2>1. PhysicalSlot(k, q) \in 0..(Capacity(k) - 1)
    BY <2>0, SlotExists
  <2>2. newest(k, PhysicalSlot(k, q)) = q
    BY <1>1, <1>4
  <2> QED BY <1>3, <1>4, <2>1, <2>2
<1>6. ASSUME NEW k \in LayerKinds, NEW p \in position..last, NEW q \in FirstAttended(k, p)..p,
             q < position
      PROVE  rows'[k][PhysicalSlot(k, q)] = Prefix(s, q + 1)
  <2>1. /\ q \in Nat /\ q < MaxContext /\ PhysicalSlot(k, q) \in 0..(Capacity(k) - 1)
        /\ position > 0
    <3>1. q \in Nat /\ q < MaxContext
      BY <1>1, <1>6 DEF FirstAttended
    <3> QED BY <1>1, <1>6, <3>1, SlotExists
  <2>2. k = "swa" => last - q < SlidingWindow + MaxChunkTokens
    BY <1>1, <1>6 DEF FirstAttended
  <2>3. ASSUME NEW r \in position..last
        PROVE  PhysicalSlot(k, r) # PhysicalSlot(k, q)
    <3>1. /\ r \in 0..(MaxContext - 1) /\ q \in 0..(MaxContext - 1) /\ q < r
          /\ k = "swa" => r - q < SlidingWindow + MaxChunkTokens
      BY <1>1, <1>6, <2>1, <2>2
    <3> QED BY <3>1, SlotsApart
  <2>4. hit(k, PhysicalSlot(k, q)) = {}
    BY <2>3
  <2>5. q \in FirstAttended(k, position - 1)..(position - 1)
    BY <1>1, <1>6, <2>1 DEF FirstAttended
  <2>6. rows[k][PhysicalSlot(k, q)] = Prefix(s, q + 1)
    BY <2>1, <2>5 DEF Held, Resident
  <2> QED BY <1>3, <2>1, <2>4, <2>6
<1>7. ASSUME NEW k \in LayerKinds, NEW i \in 0..(Capacity(k) - 1)
      PROVE  rows'[k][i] \in Seq(Tokens)
  <2>1. CASE hit(k, i) = {}
    BY <1>2, <1>3, <2>1
  <2>2. CASE hit(k, i) # {}
    <3>1. PICK q \in position..last : PhysicalSlot(k, q) = i
      BY <2>2
    <3>2. rows'[k][i] = Prefix(s, q + 1) /\ q + 1 \in 0..Len(s)
      BY <1>1, <1>5, <3>1
    <3> QED BY <3>2, PrefixFacts
  <2> QED BY <2>1, <2>2
<1>8. ASSUME NEW k \in LayerKinds
      PROVE  rows'[k] \in [0..(Capacity(k) - 1) -> Seq(Tokens)]
  <2>1. rows'[k] = [i \in 0..(Capacity(k) - 1) |-> rows'[k][i]]
    BY <1>2 DEF WriteRows
  <2> QED BY <1>7, <2>1
<1>9. ASSUME NEW p \in position..last, NEW k \in LayerKinds, NEW q \in FirstAttended(k, p)..p
      PROVE  rows'[k][PhysicalSlot(k, q)] = Prefix(s, q + 1)
  <2>1. q \in Int /\ q <= last
    BY <1>1 DEF FirstAttended
  <2>2. CASE q >= position
    BY <1>1, <1>5, <2>1, <2>2
  <2>3. CASE q < position
    BY <1>6, <2>3
  <2> QED BY <1>1, <2>1, <2>2, <2>3
<1> QED BY <1>8, <1>9

-----------------------------------------------------------------------------
(* The inductive invariant: one lemma for each action.                     *)

LEMMA Numbers ==
  /\ MaxContext \in Nat /\ MaxContext > 0 /\ MaxNewTokens \in Nat /\ MaxNewTokens > 0
  /\ MaxPrompt \in Nat /\ MaxPrompt > 0
  /\ ChunkTokens \in Nat /\ ChunkTokens > 0 /\ ChunkTokens <= MaxChunkTokens
  /\ MaxChunkTokens \in Nat
BY ContextAssumption, ChunkAssumption

LEMMA NoRowsType ==
  \A k \in LayerKinds : NoRows[k] \in [0..(Capacity(k) - 1) -> Seq(Tokens)]
<1>1. NoRow \in Seq(Tokens)
  BY DEF NoRow
<1> QED BY <1>1 DEF NoRows

LEMMA EntriesAreNot == NoEntry \notin Entries
BY NoEntryAssumption DEF Entries

LEMMA SessionInitInv == SessionInit => SessionInv
<1> SUFFICES ASSUME SessionInit PROVE SessionInv
  OBVIOUS
<1> USE DEF SessionInit
<1>1. SessionTypeOK
  <2>1. \A k \in LayerKinds : rows[k] \in [0..(Capacity(k) - 1) -> Seq(Tokens)]
    BY NoRowsType
  <2>2. <<>> \in Seq(Tokens) /\ pc \in PCs
    BY DEF PCs
  <2>3. /\ policy \in [prefill : {"chunked", "off"}, cache : {"singlePrefix", "off"}]
        /\ entry = NoEntry /\ dirty \in BOOLEAN
        /\ prompt = <<>> /\ history = <<>> /\ shown = <<>> /\ boundary = <<>>
    OBVIOUS
  <2>4. /\ position \in 0..MaxContext
        /\ cached \in 0..MaxContext /\ cursor \in 0..MaxContext
        /\ writing \in 0..MaxChunkTokens
        /\ maxNew \in 0..MaxNewTokens /\ generated \in 0..MaxNewTokens
    BY Numbers
  <2> QED BY <2>1, <2>2, <2>3, <2>4 DEF SessionTypeOK
<1>2. EntryInv
  BY DEF EntryInv
<1>3. RunnerInv /\ PromptInv /\ HistoryInv
  BY DEF RunnerInv, PromptInv, HistoryInv
<1> QED BY <1>1, <1>2, <1>3 DEF SessionInv

LEMMA ThrowInv ==
  ASSUME SessionInv, Throw
  PROVE  SessionInv'
<1> USE DEF Throw, Reset
<1>1. SessionTypeOK'
  <2>1. \A k \in LayerKinds : rows'[k] \in [0..(Capacity(k) - 1) -> Seq(Tokens)]
    BY NoRowsType
  <2>2. <<>> \in Seq(Tokens) /\ pc' \in PCs
    BY DEF PCs
  <2>3. policy' \in [prefill : {"chunked", "off"}, cache : {"singlePrefix", "off"}]
    BY DEF SessionInv, SessionTypeOK
  <2>4. /\ entry' = NoEntry /\ dirty' \in BOOLEAN
        /\ prompt' = <<>> /\ history' = <<>> /\ shown' = <<>> /\ boundary' = <<>>
    OBVIOUS
  <2>5. /\ position' \in 0..MaxContext
        /\ cached' \in 0..MaxContext /\ cursor' \in 0..MaxContext
        /\ writing' \in 0..MaxChunkTokens
        /\ maxNew' \in 0..MaxNewTokens /\ generated' \in 0..MaxNewTokens
    BY Numbers
  <2> QED BY <2>1, <2>2, <2>3, <2>4, <2>5 DEF SessionTypeOK
<1>2. EntryInv'
  BY DEF EntryInv
<1>3. RunnerInv' /\ PromptInv' /\ HistoryInv'
  BY DEF RunnerInv, PromptInv, HistoryInv
<1> QED BY <1>1, <1>2, <1>3 DEF SessionInv

\* What generate accepts: a text longer than what it takes from the cache.
LEMMA AcceptInv ==
  ASSUME SessionInv, pc = "idle",
         NEW effective \in Seq(Tokens), NEW hit \in Nat, NEW wanted \in 1..MaxNewTokens,
         Accept(effective, hit, wanted), hit < Len(effective),
         hit > 0 => entry # NoEntry /\ hit = Len(entry.tokens)
                                    /\ Agree(entry.tokens, effective, hit)
  PROVE  SessionInv'
<1> USE DEF Accept, runner
<1>1. /\ Len(effective) \in Nat /\ Len(effective) < MaxContext
      /\ maxNew' \in 1..MaxNewTokens /\ Len(effective) + maxNew' <= MaxContext
  BY Numbers DEF Smaller
<1>2. SessionTypeOK'
  <2>1. /\ policy' = policy /\ rows' = rows /\ position' = position /\ dirty' = dirty
        /\ pc' = "start" /\ prompt' = effective /\ history' = history /\ shown' = shown
        /\ cached' = hit /\ cursor' = cursor /\ writing' = writing
        /\ generated' = generated /\ boundary' = boundary
    OBVIOUS
  <2>2. entry' = NoEntry \/ entry' \in Entries
    BY DEF SessionInv, SessionTypeOK
  <2>3. hit \in 0..MaxContext /\ maxNew' \in 0..MaxNewTokens
    BY <1>1, Numbers
  <2> QED BY <2>1, <2>2, <2>3 DEF SessionInv, SessionTypeOK, PCs
<1>3. EntryInv'
  <2>1. CASE hit = 0
    BY <2>1 DEF EntryInv
  <2>2. CASE hit > 0
    BY <2>2 DEF SessionInv, EntryInv, Held, Resident, Agree
  <2> QED BY <2>1, <2>2
<1>4. RunnerInv' /\ PromptInv' /\ HistoryInv'
  BY <1>1 DEF SessionInv, RunnerInv, PromptInv, HistoryInv
<1> QED BY <1>2, <1>3, <1>4 DEF SessionInv

LEMMA PromptsAreTexts ==
  ASSUME NEW s \in Prompts
  PROVE  s \in Seq(Tokens) /\ Len(s) > 0
<1>1. PICK n \in 1..MaxPrompt : s \in [1..n -> Tokens]
  BY DEF Prompts
<1>2. n \in Nat /\ n > 0
  BY <1>1, Numbers
<1> QED BY <1>1, <1>2, IsASeq, LenProperties

LEMMA EntryFacts ==
  ASSUME SessionTypeOK, entry # NoEntry
  PROVE  /\ entry.tokens \in Seq(Tokens) /\ entry.boundary \in Tokens
         /\ entry.reason \in {"endOfTurn", "toolCalls", "maxTokens"}
         /\ Len(entry.tokens) \in Nat
BY DEF SessionTypeOK, Entries

LEMMA PrefixAgrees ==
  ASSUME NEW s \in Seq(Tokens), NEW t \in Seq(Tokens)
  PROVE  IsPrefix(s, t) <=> Agree(s, t, Len(s))
<1>1. CASE Len(s) <= Len(t)
  <2>1. /\ Prefix(s, Len(s)) = s
        /\ Prefix(t, Len(s)) \in Seq(Tokens) /\ Len(Prefix(t, Len(s))) = Len(s)
        /\ \A i \in 1..Len(s) : Prefix(t, Len(s))[i] = t[i]
    BY <1>1, PrefixFacts
  <2>2. (\A i \in 1..Len(s) : s[i] = t[i]) <=> s = Prefix(t, Len(s))
    <3> DEFINE a == Prefix(t, Len(s))
    <3>1. /\ a \in Seq(Tokens) /\ Len(a) = Len(s)
          /\ \A i \in 1..Len(s) : a[i] = t[i]
      BY <2>1
    <3> HIDE DEF a
    <3>2. (\A i \in 1..Len(s) : s[i] = a[i]) => s = a
      BY <3>1, SeqEqual
    <3>3. (\A i \in 1..Len(s) : s[i] = t[i]) <=> s = a
      BY <3>1, <3>2
    <3> QED BY <3>3 DEF a
  <2> QED BY <1>1, <2>1, <2>2 DEF Agree, IsPrefix, Prefix
<1>2. CASE ~(Len(s) <= Len(t))
  BY <1>2 DEF Agree, IsPrefix
<1> QED BY <1>1, <1>2

LEMMA BridgesAreTexts ==
  ASSUME NEW bridge \in TextBridges \cup ToolBridges
  PROVE  bridge \in Seq(Tokens) /\ Len(bridge) > 0
BY TokensAssumption DEF TextBridges, ToolBridges

\* A continuation is the entry's tokens, then the sampled token without a row,
\* then more.
LEMMA ContinuationFacts ==
  ASSUME SessionTypeOK, entry # NoEntry, NEW bridge \in TextBridges \cup ToolBridges,
         BridgeHit(bridge)
  PROVE  LET whole == Continuation(bridge)
             n == Len(entry.tokens)
         IN  /\ whole \in Seq(Tokens) /\ n < Len(whole)
             /\ Agree(entry.tokens, whole, n)
             /\ whole[n + 1] = entry.boundary
<1> DEFINE rest == IF entry.reason = "maxTokens" THEN <<entry.boundary>> \o bridge ELSE bridge
           kept == entry.tokens
<1>1. bridge \in Seq(Tokens) /\ Len(bridge) > 0 /\ kept \in Seq(Tokens)
  BY EntryFacts, BridgesAreTexts
<1>2. rest \in Seq(Tokens) /\ Len(rest) > 0 /\ rest[1] = entry.boundary
  <2>1. CASE entry.reason = "maxTokens"
    <3>1. <<entry.boundary>> \in Seq(Tokens) /\ Len(<<entry.boundary>>) = 1
      BY EntryFacts
    <3> QED BY <1>1, <2>1, <3>1
  <2>2. CASE entry.reason # "maxTokens"
    BY <1>1, <2>2 DEF BridgeHit
  <2> QED BY <2>1, <2>2
<1>3. Continuation(bridge) = kept \o rest
  <2>1. CASE entry.reason = "maxTokens"
    <3> DEFINE last == <<entry.boundary>>
    <3>1. last \in Seq(Tokens)
      BY EntryFacts
    <3> HIDE DEF last, kept
    <3>2. (kept \o last) \o bridge = kept \o (last \o bridge)
      BY <1>1, <3>1, ConcatAssociative
    <3> QED BY <2>1, <3>2 DEF Continuation, last, kept
  <2>2. CASE entry.reason # "maxTokens"
    BY <2>2 DEF Continuation
  <2> QED BY <2>1, <2>2
<1> HIDE DEF rest, kept
<1>4. /\ kept \o rest \in Seq(Tokens) /\ Len(kept \o rest) = Len(kept) + Len(rest)
      /\ \A i \in 1..Len(kept) : (kept \o rest)[i] = kept[i]
      /\ (kept \o rest)[Len(kept) + 1] = rest[1]
  BY <1>1, <1>2
<1>5. Len(kept) \in Nat /\ Len(rest) \in Nat /\ Len(kept) < Len(kept \o rest)
  BY <1>1, <1>2, <1>4
<1>6. Agree(kept, kept \o rest, Len(kept))
  BY <1>4, <1>5 DEF Agree
<1>7. /\ Continuation(bridge) \in Seq(Tokens) /\ Len(kept) < Len(Continuation(bridge))
      /\ Agree(kept, Continuation(bridge), Len(kept))
      /\ Continuation(bridge)[Len(kept) + 1] = entry.boundary
  BY <1>2, <1>3, <1>4, <1>5, <1>6
<1> QED BY <1>7 DEF kept

LEMMA BeginWithPrefixInv ==
  ASSUME SessionInv, BeginWithPrefix
  PROVE  SessionInv'
<1>1. PICK rendered \in Prompts, wanted \in 1..MaxNewTokens :
        PrefixHit(rendered) /\ Accept(rendered, Len(entry.tokens), wanted)
  BY DEF BeginWithPrefix
<1>2. /\ rendered \in Seq(Tokens) /\ entry # NoEntry
      /\ entry.tokens \in Seq(Tokens) /\ Len(entry.tokens) \in Nat
      /\ Len(entry.tokens) < Len(rendered)
  BY <1>1, EntryFacts, PromptsAreTexts DEF PrefixHit, SessionInv
<1>3. Agree(entry.tokens, rendered, Len(entry.tokens))
  BY <1>1, <1>2, PrefixAgrees DEF PrefixHit
<1> QED BY <1>1, <1>2, <1>3, AcceptInv DEF BeginWithPrefix

LEMMA BeginWithMessagesInv ==
  ASSUME SessionInv, BeginWithMessages
  PROVE  SessionInv'
<1>1. PICK bridge \in TextBridges \cup ToolBridges, wanted \in 1..MaxNewTokens :
        BridgeHit(bridge) /\ Accept(Continuation(bridge), Len(entry.tokens), wanted)
  BY DEF BeginWithMessages
<1> DEFINE whole == Continuation(bridge)
<1>2. /\ entry # NoEntry /\ whole \in Seq(Tokens)
      /\ Len(entry.tokens) \in Nat /\ Len(entry.tokens) < Len(whole)
      /\ Agree(entry.tokens, whole, Len(entry.tokens))
  BY <1>1, EntryFacts, ContinuationFacts DEF BeginWithMessages, SessionInv
<1> HIDE DEF whole
<1>3. Accept(whole, Len(entry.tokens), wanted) /\ pc = "idle"
  BY <1>1 DEF whole, BeginWithMessages
<1> QED BY <1>2, <1>3, AcceptInv

LEMMA BeginAnewInv ==
  ASSUME SessionInv, BeginAnew
  PROVE  SessionInv'
<1>1. PICK rendered \in Prompts, wanted \in 1..MaxNewTokens : Accept(rendered, 0, wanted)
  BY DEF BeginAnew
<1>2. rendered \in Seq(Tokens) /\ Len(rendered) > 0
  BY PromptsAreTexts
<1> QED BY <1>1, <1>2, AcceptInv DEF BeginAnew

LEMMA StartInv ==
  ASSUME SessionInv, Start
  PROVE  SessionInv'
<1>1. /\ prompt \in Seq(Tokens) /\ cached \in Nat /\ cached < Len(prompt)
      /\ Len(prompt) \in Nat /\ Len(prompt) < MaxContext /\ MaxContext \in Nat
  BY Numbers DEF SessionInv, SessionTypeOK, RunnerInv, Start
<1>2. /\ cursor' = cached /\ history' = Prefix(prompt, cached) /\ pc' = "prefill"
      /\ position' = cached /\ ~dirty' /\ dirty' \in BOOLEAN
      /\ \A k \in LayerKinds : rows'[k] \in [0..(Capacity(k) - 1) -> Seq(Tokens)]
  <2>1. CASE cached = 0
    BY <2>1, NoRowsType DEF Start, Reset
  <2>2. CASE cached # 0
    BY <1>1, <2>2 DEF Start, PrepareForContinuation, SessionInv, SessionTypeOK
  <2> QED BY <2>1, <2>2
<1>3. history' \in Seq(Tokens)
  BY <1>1, <1>2, PrefixFacts
<1>4. Held(prompt, position)'
  <2>1. CASE cached = 0
    BY <1>2, <2>1 DEF Held
  <2>2. CASE cached # 0
    <3>1. /\ entry # NoEntry /\ cached = position /\ rows' = rows
          /\ Agree(entry.tokens, prompt, cached) /\ Held(entry.tokens, cached)
      BY <1>1, <2>2 DEF Start, PrepareForContinuation, SessionInv, EntryInv
    <3>2. Held(prompt, cached)
      BY <1>1, <3>1, EntryFacts, HeldByAgreeing DEF SessionInv
    <3> QED BY <1>2, <3>1, <3>2 DEF Held, Resident, Start
  <2> QED BY <2>1, <2>2
<1>5. SessionTypeOK'
  <2>1. position' \in 0..MaxContext /\ cursor' \in 0..MaxContext
    BY <1>1, <1>2
  <2> QED BY <1>2, <1>3, <2>1 DEF SessionInv, SessionTypeOK, Start, PCs
<1>6. EntryInv'
  BY <1>2 DEF SessionInv, EntryInv, Start
<1>7. RunnerInv'
  BY <1>2 DEF SessionInv, RunnerInv, Start
<1>8. PromptInv' /\ HistoryInv'
  BY <1>1, <1>2, <1>4 DEF PromptInv, HistoryInv, Start
<1> QED BY <1>5, <1>6, <1>7, <1>8 DEF SessionInv

LEMMA WriteChunkInv ==
  ASSUME SessionInv, WriteChunk
  PROVE  SessionInv'
<1> DEFINE n == Smaller(ChunkTokens, Len(prompt) - cursor)
<1>1. /\ prompt \in Seq(Tokens) /\ Len(prompt) \in Nat /\ cursor < Len(prompt)
      /\ cursor \in Nat /\ position = cursor /\ Held(prompt, position)
  BY DEF SessionInv, SessionTypeOK, RunnerInv, PromptInv, WriteChunk
<1>2. n \in 1..ChunkTokens /\ cursor + n <= Len(prompt)
  BY <1>1, Numbers DEF Smaller
<1>3. /\ position + n <= MaxContext /\ WriteRows(prompt, position, position + n - 1)
      /\ writing' = n
  BY DEF WriteChunk, RunnerAccepts
<1> HIDE DEF n
<1>4. /\ \A k \in LayerKinds : rows'[k] \in [0..(Capacity(k) - 1) -> Seq(Tokens)]
      /\ \A p \in position..(position + n - 1) : \A k \in LayerKinds :
           \A q \in FirstAttended(k, p)..p :
             rows'[k][PhysicalSlot(k, q)] = Prefix(prompt, q + 1)
  BY <1>1, <1>2, <1>3, WriteKeepsTheWindow DEF SessionInv
<1>5. n \in 0..MaxChunkTokens
  BY <1>2, Numbers
<1>6. SessionTypeOK'
  BY <1>3, <1>4, <1>5 DEF SessionInv, SessionTypeOK, WriteChunk, request, PCs
<1>7. EntryInv' /\ RunnerInv' /\ HistoryInv'
  BY DEF SessionInv, EntryInv, RunnerInv, HistoryInv, WriteChunk, request
<1>8. PromptInv'
  <2>1. (\A p \in position..(position + writing - 1) : Resident(prompt, p))'
    BY <1>3, <1>4 DEF Resident, WriteChunk, request
  <2> QED BY <1>1, <1>2, <1>3, <2>1 DEF PromptInv, WriteChunk, request
<1> QED BY <1>6, <1>7, <1>8 DEF SessionInv

LEMMA CommitChunkInv ==
  ASSUME SessionInv, CommitChunk
  PROVE  SessionInv'
<1>1. /\ prompt \in Seq(Tokens) /\ Len(prompt) \in Nat /\ cursor \in Nat
      /\ position = cursor /\ writing \in Nat /\ writing > 0
      /\ cursor + writing <= Len(prompt)
      /\ \A p \in position..(position + writing - 1) : Resident(prompt, p)
      /\ generated = 0 /\ maxNew \in Nat /\ maxNew > 0 /\ Len(prompt) + maxNew <= MaxContext
  BY Numbers DEF SessionInv, SessionTypeOK, RunnerInv, PromptInv, CommitChunk
<1>2. /\ cursor' = cursor + writing /\ position' = cursor' /\ cursor' \in 1..Len(prompt)
      /\ history' = Prefix(prompt, cursor') /\ ~dirty' /\ dirty' \in BOOLEAN /\ rows' = rows
      /\ pc' = IF cursor' = Len(prompt) THEN "decode" ELSE "prefill"
  <2>1. cursor' = cursor + writing /\ position' = position + writing
    BY DEF CommitChunk
  <2>2. position' = cursor' /\ cursor' \in 1..Len(prompt)
    BY <1>1, <2>1
  <2>3. /\ history' = Prefix(prompt, cursor') /\ rows' = rows
        /\ pc' = IF cursor' = Len(prompt) THEN "decode" ELSE "prefill"
    BY DEF CommitChunk
  <2>4. ~dirty' /\ dirty' \in BOOLEAN
    BY DEF CommitChunk
  <2> QED BY <2>1, <2>2, <2>3, <2>4
<1>3. history' \in Seq(Tokens)
  BY <1>1, <1>2, PrefixFacts
<1>4. Held(prompt, position)'
  <2>1. Resident(prompt, cursor' - 1)
    BY <1>1, <1>2
  <2> QED BY <1>2, <2>1 DEF Held, Resident, CommitChunk
<1>5. SessionTypeOK'
  <2>1. /\ position' \in 0..MaxContext /\ cursor' \in 0..MaxContext
        /\ 0 \in 0..MaxChunkTokens /\ pc' \in PCs
    BY <1>1, <1>2, Numbers DEF PCs
  <2> QED BY <1>2, <1>3, <2>1 DEF SessionInv, SessionTypeOK, CommitChunk
<1>6. EntryInv'
  BY <1>2 DEF SessionInv, EntryInv, CommitChunk
<1>7. RunnerInv'
  BY <1>2 DEF SessionInv, RunnerInv, CommitChunk
<1>8. CASE cursor' = Len(prompt)
  <2>1. history' = prompt /\ pc' = "decode"
    BY <1>1, <1>2, <1>8, PrefixFacts
  <2>2. /\ Len(history') = position' /\ Agree(prompt', history', Len(prompt'))
        /\ generated' < maxNew' /\ Len(history') = Len(prompt') + generated'
    BY <1>1, <1>2, <1>8, <2>1 DEF Agree, CommitChunk
  <2>3. Held(history, position)'
    BY <1>4, <2>1 DEF Held, Resident, CommitChunk
  <2>4. PromptInv' /\ HistoryInv'
    BY <2>1, <2>2, <2>3 DEF PromptInv, HistoryInv
  <2> QED BY <1>5, <1>6, <1>7, <2>4 DEF SessionInv
<1>9. CASE cursor' # Len(prompt)
  <2>1. pc' = "prefill" /\ cursor' < Len(prompt)
    BY <1>1, <1>2, <1>9
  <2>2. PromptInv' /\ HistoryInv'
    BY <1>2, <1>4, <2>1 DEF PromptInv, HistoryInv, CommitChunk
  <2> QED BY <1>5, <1>6, <1>7, <2>2 DEF SessionInv
<1> QED BY <1>8, <1>9

LEMMA FeedPromptInv ==
  ASSUME SessionInv, FeedPrompt
  PROVE  SessionInv'
<1>1. /\ prompt \in Seq(Tokens) /\ Len(prompt) \in Nat /\ cursor \in Nat
      /\ position = cursor /\ cursor < Len(prompt) /\ Held(prompt, position)
      /\ generated = 0 /\ maxNew \in Nat /\ maxNew > 0
  BY DEF SessionInv, SessionTypeOK, RunnerInv, PromptInv, FeedPrompt
<1> DEFINE fed == Prefix(prompt, cursor + 1)
<1>2. /\ fed \in Seq(Tokens) /\ Len(fed) = cursor + 1
      /\ \A i \in 1..(cursor + 1) : fed[i] = prompt[i]
  BY <1>1, PrefixFacts
<1>3. history' = fed /\ pc' = "produce"
  BY DEF FeedPrompt
<1> HIDE DEF fed
<1>4. Agree(prompt, fed, cursor + 1) /\ Agree(prompt, fed, cursor)
  BY <1>1, <1>2 DEF Agree
<1>5. Held(fed, cursor)
  BY <1>1, <1>2, <1>4, HeldByAgreeing
<1>6. SessionTypeOK'
  BY <1>2, <1>3 DEF SessionInv, SessionTypeOK, FeedPrompt, runner, PCs
<1>7. EntryInv' /\ RunnerInv' /\ PromptInv'
  BY <1>3 DEF SessionInv, EntryInv, RunnerInv, PromptInv, FeedPrompt, runner
<1>8. Feeding'
  BY <1>1, <1>2, <1>3, <1>4 DEF Feeding, Agree, FeedPrompt, runner
<1>9. Held(history, position)'
  BY <1>1, <1>3, <1>5 DEF Held, Resident, FeedPrompt, runner
<1>10. HistoryInv'
  BY <1>3, <1>8, <1>9 DEF HistoryInv
<1> QED BY <1>6, <1>7, <1>10 DEF SessionInv

LEMMA SampleInv ==
  ASSUME SessionInv, Sample
  PROVE  SessionInv'
<1>1. /\ prompt \in Seq(Tokens) /\ history \in Seq(Tokens) /\ Len(prompt) \in Nat
      /\ Len(history) = position /\ position \in Nat /\ position = cursor
      /\ Held(history, position) /\ Agree(prompt, history, Len(prompt))
      /\ generated \in Nat /\ generated < maxNew /\ maxNew \in 0..MaxNewTokens
      /\ Len(history) = Len(prompt) + generated /\ MaxNewTokens \in Nat
  <2>1. /\ prompt \in Seq(Tokens) /\ history \in Seq(Tokens)
        /\ position \in 0..MaxContext /\ maxNew \in 0..MaxNewTokens
        /\ generated \in 0..MaxNewTokens
    BY DEF SessionInv, SessionTypeOK
  <2>2. /\ Len(history) = position /\ Held(history, position)
        /\ Agree(prompt, history, Len(prompt)) /\ generated < maxNew
        /\ Len(history) = Len(prompt) + generated /\ position = cursor
    BY DEF SessionInv, RunnerInv, HistoryInv, Sample
  <2>3. Len(prompt) \in Nat /\ position \in Nat /\ generated \in Nat /\ MaxNewTokens \in Nat
    BY <2>1, Numbers
  <2> QED BY <2>1, <2>2, <2>3
<1>2. PICK t \in Tokens :
        /\ generated' = generated + 1 /\ boundary' = <<t>>
        /\ \/ Stops(t) /\ pc' = "finish" /\ UNCHANGED history
           \/ /\ t \notin StopTokens /\ ~AtLimit
              /\ history' = Append(history, t) /\ pc' = "produce"
  BY DEF Sample
<1>3. /\ rows' = rows /\ position' = position /\ dirty' = dirty /\ cursor' = cursor
      /\ prompt' = prompt /\ maxNew' = maxNew /\ entry' = entry /\ shown' = shown
      /\ policy' = policy /\ cached' = cached /\ writing' = writing
  BY DEF Sample, runner
<1>4. /\ boundary' \in Seq(Tokens) /\ Len(boundary') = 1
      /\ generated' \in 0..MaxNewTokens
  BY <1>1, <1>2
<1>5. pc' \in {"finish", "produce"} /\ pc' \in PCs
  BY <1>2 DEF PCs
<1>6. EntryInv' /\ RunnerInv' /\ PromptInv'
  BY <1>3, <1>5 DEF SessionInv, EntryInv, RunnerInv, PromptInv, Sample
<1>7. CASE pc' = "finish"
  <2>1. history' = history
    BY <1>2, <1>7
  <2>2. SessionTypeOK'
    BY <1>3, <1>4, <1>5, <2>1 DEF SessionInv, SessionTypeOK
  <2>3. HistoryInv'
    BY <1>1, <1>3, <1>4, <1>7, <2>1 DEF HistoryInv, Held, Resident, Agree
  <2> QED BY <1>6, <2>2, <2>3 DEF SessionInv
<1>8. CASE pc' = "produce"
  <2> DEFINE fed == Append(history, t)
  <2>1. history' = fed /\ generated' < maxNew
    BY <1>1, <1>2, <1>8 DEF AtLimit
  <2>2. /\ fed \in Seq(Tokens) /\ Len(fed) = Len(history) + 1
        /\ \A i \in 1..Len(history) : fed[i] = history[i]
    BY <1>1
  <2> HIDE DEF fed
  <2>3. SessionTypeOK'
    BY <1>3, <1>4, <1>5, <2>1, <2>2 DEF SessionInv, SessionTypeOK
  <2>4. Agree(history, fed, position) /\ Agree(prompt, fed, Len(prompt))
    BY <1>1, <2>2 DEF Agree
  <2>5. Held(fed, position)
    BY <1>1, <2>2, <2>4, HeldByAgreeing
  <2>6. Feeding'
    BY <1>1, <1>2, <1>3, <2>1, <2>2, <2>4 DEF Feeding, Agree
  <2>7. Held(history, position)'
    BY <1>3, <2>1, <2>5 DEF Held, Resident
  <2>8. HistoryInv'
    BY <1>8, <2>6, <2>7 DEF HistoryInv
  <2> QED BY <1>6, <2>3, <2>8 DEF SessionInv
<1> QED BY <1>5, <1>7, <1>8

LEMMA WriteTokenInv ==
  ASSUME SessionInv, WriteToken
  PROVE  SessionInv'
<1>1. /\ history \in Seq(Tokens) /\ position \in Nat /\ position = cursor
      /\ Feeding /\ Len(history) = position + 1 /\ Held(history, position)
  BY DEF SessionInv, SessionTypeOK, RunnerInv, HistoryInv, Feeding, WriteToken
<1>2. /\ position + 1 <= MaxContext /\ 1 \in 1..ChunkTokens
      /\ WriteRows(history, position, position + 1 - 1)
  <2>1. position + 1 - 1 = position
    BY <1>1
  <2> QED BY <2>1, Numbers DEF WriteToken, RunnerAccepts
<1>3. /\ \A k \in LayerKinds : rows'[k] \in [0..(Capacity(k) - 1) -> Seq(Tokens)]
      /\ \A p \in position..(position + 1 - 1) : \A k \in LayerKinds :
           \A q \in FirstAttended(k, p)..p :
             rows'[k][PhysicalSlot(k, q)] = Prefix(history, q + 1)
  BY <1>1, <1>2, WriteKeepsTheWindow DEF SessionInv
<1>4. /\ writing' = 1 /\ pc' = "token" /\ 1 \in 0..MaxChunkTokens
      /\ policy' = policy /\ position' = position /\ dirty' = dirty /\ entry' = entry
      /\ prompt' = prompt /\ cached' = cached /\ cursor' = cursor /\ history' = history
      /\ maxNew' = maxNew /\ generated' = generated /\ boundary' = boundary
      /\ shown' = shown
  BY Numbers DEF WriteToken, request
<1>5. SessionTypeOK'
  BY <1>3, <1>4 DEF SessionInv, SessionTypeOK, PCs
<1>6. EntryInv' /\ RunnerInv' /\ PromptInv'
  BY <1>4 DEF SessionInv, EntryInv, RunnerInv, PromptInv, WriteToken
<1>7. Resident(history, position)'
  <2>1. position \in position..(position + 1 - 1)
    BY <1>1
  <2> QED BY <1>3, <1>4, <2>1 DEF Resident
<1>8. HistoryInv'
  BY <1>1, <1>4, <1>7 DEF HistoryInv, Feeding, Agree
<1> QED BY <1>5, <1>6, <1>8 DEF SessionInv

LEMMA CommitTokenInv ==
  ASSUME SessionInv, CommitToken
  PROVE  SessionInv'
<1>1. /\ history \in Seq(Tokens) /\ prompt \in Seq(Tokens) /\ Len(prompt) \in Nat
      /\ position \in Nat /\ position = cursor /\ Resident(history, position) /\ Feeding
      /\ generated \in Nat /\ maxNew \in Nat /\ Len(prompt) + maxNew <= MaxContext
      /\ Len(history) = position + 1 /\ generated < maxNew
  BY Numbers DEF SessionInv, SessionTypeOK, RunnerInv, HistoryInv, Feeding, CommitToken
<1>2. position + 1 <= MaxContext
  BY <1>1, Numbers DEF Feeding, Agree
<1>3. /\ position' = position + 1 /\ cursor' = cursor + 1 /\ writing' = 0
      /\ boundary' = <<>> /\ rows' = rows /\ history' = history /\ prompt' = prompt
      /\ generated' = generated /\ maxNew' = maxNew /\ entry' = entry /\ shown' = shown
      /\ dirty' = dirty /\ policy' = policy /\ cached' = cached
      /\ pc' = IF cursor' < Len(prompt) THEN "prefill" ELSE "decode"
  BY DEF CommitToken
<1>4. SessionTypeOK'
  <2>1. /\ position' \in 0..MaxContext /\ cursor' \in 0..MaxContext
        /\ writing' \in 0..MaxChunkTokens /\ boundary' \in Seq(Tokens) /\ pc' \in PCs
    BY <1>1, <1>2, <1>3, Numbers DEF PCs
  <2> QED BY <1>3, <2>1 DEF SessionInv, SessionTypeOK
<1>5. Held(history, position)'
  BY <1>1, <1>3 DEF Held, Resident
<1>6. EntryInv'
  BY <1>3 DEF SessionInv, EntryInv
<1>7. CASE cursor + 1 < Len(prompt)
  <2>1. pc' = "prefill" /\ generated = 0 /\ Agree(prompt, history, Len(history))
    BY <1>1, <1>3, <1>7 DEF Feeding, Agree
  <2>2. history = Prefix(prompt, cursor + 1)
    <3>1. Len(history) \in Nat /\ Len(history) \in 0..Len(history)
      BY <1>1
    <3>2. Prefix(prompt, Len(history)) = Prefix(history, Len(history))
      BY <1>1, <2>1, <3>1, AgreeingPrefixes
    <3>3. Prefix(history, Len(history)) = history
      BY <1>1, <3>1, PrefixFacts
    <3> QED BY <1>1, <3>2, <3>3
  <2>3. Held(prompt, position)'
    <3>1. Agree(history, prompt, cursor + 1) /\ cursor + 1 \in Nat
      BY <1>1, <2>1 DEF Agree
    <3>2. Held(history, cursor + 1)
      BY <1>1 DEF Held
    <3>3. Held(prompt, cursor + 1)
      BY <1>1, <3>1, <3>2, HeldByAgreeing
    <3> QED BY <1>1, <1>3, <3>3 DEF Held, Resident
  <2>4. RunnerInv' /\ PromptInv' /\ HistoryInv'
    BY <1>1, <1>3, <1>7, <2>1, <2>2, <2>3
       DEF SessionInv, RunnerInv, PromptInv, HistoryInv, CommitToken
  <2> QED BY <1>4, <1>6, <2>4 DEF SessionInv
<1>8. CASE ~(cursor + 1 < Len(prompt))
  <2>1. /\ pc' = "decode" /\ Agree(prompt, history, Len(prompt))
        /\ Len(history) = Len(prompt) + generated
    BY <1>1, <1>3, <1>8 DEF Feeding, Agree
  <2>2. RunnerInv' /\ PromptInv'
    BY <1>1, <1>3, <2>1 DEF SessionInv, RunnerInv, PromptInv, CommitToken
  <2>3. HistoryInv'
    BY <1>1, <1>3, <1>5, <2>1 DEF HistoryInv, Agree
  <2> QED BY <1>4, <1>6, <2>2, <2>3 DEF SessionInv
<1> QED BY <1>7, <1>8

LEMMA FinishInv ==
  ASSUME SessionInv, Finish
  PROVE  SessionInv'
<1>1. /\ history \in Seq(Tokens) /\ boundary \in Seq(Tokens) /\ Len(boundary) = 1
      /\ Len(history) = position /\ Held(history, position) /\ ~dirty
  BY DEF SessionInv, SessionTypeOK, RunnerInv, HistoryInv, Finish
<1>2. boundary[1] \in Tokens /\ boundary = <<boundary[1]>>
  BY <1>1
<1>3. /\ pc' = "idle" /\ position' = position /\ rows' = rows /\ dirty' = dirty
      /\ policy' = policy /\ writing' = writing /\ maxNew' = 0 /\ generated' = 0
      /\ prompt' = <<>> /\ cached' = 0 /\ cursor' = 0 /\ history' = <<>> /\ boundary' = <<>>
  BY DEF Finish, runner
<1>4. /\ entry' = NoEntry \/ entry' \in Entries
      /\ shown' \in Seq(Tokens)
      /\ entry' # NoEntry => /\ shown' = Append(entry'.tokens, entry'.boundary)
                             /\ entry'.tokens = history
  <2>1. CASE entry' = NoEntry /\ shown' = <<>>
    BY <2>1
  <2>2. CASE /\ Publishable
             /\ entry' = [tokens |-> history, boundary |-> boundary[1], reason |-> reason]
             /\ shown' = history \o boundary
    <3>1. entry' \in Entries
      BY <1>1, <1>2, <2>2 DEF Entries, Publishable
    <3>2. entry'.tokens = history /\ entry'.boundary = boundary[1]
      BY <2>2
    <3>3. history \o <<boundary[1]>> = Append(history, boundary[1])
      BY <1>1, <1>2
    <3>4. shown' = Append(entry'.tokens, entry'.boundary)
      BY <1>2, <2>2, <3>2, <3>3
    <3>5. Append(history, boundary[1]) \in Seq(Tokens)
      BY <1>1, <1>2
    <3> QED BY <3>1, <3>2, <3>4, <3>5
  <2> QED BY <2>1, <2>2 DEF Finish
<1>5. SessionTypeOK'
  <2>1. <<>> \in Seq(Tokens) /\ 0 \in 0..MaxContext /\ 0 \in 0..MaxNewTokens /\ pc' \in PCs
    BY <1>3, Numbers DEF PCs
  <2> QED BY <1>3, <1>4, <2>1 DEF SessionInv, SessionTypeOK
<1>6. EntryInv'
  BY <1>1, <1>3, <1>4 DEF EntryInv, Held, Resident
<1>7. RunnerInv' /\ PromptInv' /\ HistoryInv'
  BY <1>1, <1>3 DEF RunnerInv, PromptInv, HistoryInv
<1> QED BY <1>5, <1>6, <1>7 DEF SessionInv

LEMMA SessionNextInv == SessionInv /\ [SessionNext]_vars => SessionInv'
<1> SUFFICES ASSUME SessionInv, [SessionNext]_vars PROVE SessionInv'
  OBVIOUS
<1>1. CASE UNCHANGED vars
  BY <1>1 DEF vars, SessionInv, SessionTypeOK, EntryInv, RunnerInv, PromptInv, HistoryInv,
              Feeding, Agree, Held, Resident
<1>2. CASE BeginWithPrefix \/ BeginWithMessages \/ BeginAnew
  BY <1>2, BeginWithPrefixInv, BeginWithMessagesInv, BeginAnewInv
<1>3. CASE RejectTooLong \/ Fail
  BY <1>3, ThrowInv DEF RejectTooLong, Fail
<1>4. CASE Start \/ WriteChunk \/ CommitChunk \/ FeedPrompt
  BY <1>4, StartInv, WriteChunkInv, CommitChunkInv, FeedPromptInv
<1>5. CASE Sample \/ WriteToken \/ CommitToken \/ Finish
  BY <1>5, SampleInv, WriteTokenInv, CommitTokenInv, FinishInv
<1> QED BY <1>1, <1>2, <1>3, <1>4, <1>5 DEF SessionNext

-----------------------------------------------------------------------------
(* The theorems.                                                           *)

\* SessionInv holds in every reachable state, for every vocabulary, context
\* length, window, chunk size and limit.
THEOREM SessionInvariant == SessionSpec => []SessionInv
BY SessionInitInv, SessionNextInv, PTL DEF SessionSpec

\* Each query attends to rows computed from its own text: the ring never
\* overwrites a row its chunk still needs, and a cached prefix brings no stale
\* row into a new turn.
THEOREM AttentionIsToItsText == SessionSpec => []AttentionReadsItsText
<1>1. SessionInv => AttentionReadsItsText
  BY DEF SessionInv, PromptInv, HistoryInv, AttentionReadsItsText
<1> QED BY <1>1, SessionInvariant, PTL

\* While a request may be answered from the entry, the KV cache holds exactly
\* the entry's tokens.
THEOREM EntriesAreBacked == SessionSpec => []EntryIsBacked
<1>1. ASSUME SessionInv PROVE EntryIsBacked
  <2> SUFFICES ASSUME entry # NoEntry, pc \in {"idle", "start"}
               PROVE  /\ position = Len(entry.tokens) /\ ~dirty
                      /\ position > 0 => Resident(entry.tokens, position - 1)
                      /\ pc = "start" => IsPrefix(entry.tokens, prompt) /\ cached = position
    BY DEF EntryIsBacked
  <2>1. /\ position = Len(entry.tokens) /\ ~dirty
        /\ position > 0 => Resident(entry.tokens, position - 1)
    BY <1>1 DEF SessionInv, EntryInv, RunnerInv, Held
  <2>2. ASSUME pc = "start" PROVE IsPrefix(entry.tokens, prompt) /\ cached = position
    <3>1. entry.tokens \in Seq(Tokens) /\ prompt \in Seq(Tokens)
      BY <1>1, EntryFacts DEF SessionInv, SessionTypeOK
    <3>2. Agree(entry.tokens, prompt, Len(entry.tokens)) /\ cached = position
      BY <1>1, <2>1, <2>2 DEF SessionInv, EntryInv
    <3> QED BY <3>1, <3>2, PrefixAgrees
  <2> QED BY <2>1, <2>2
<1> QED BY <1>1, SessionInvariant, PTL

\* The loop always finds the runner at its own position, clean and with room,
\* so that none of the runner's errors for misuse is ever thrown.
THEOREM RunnerIsAlwaysReady == SessionSpec => []RunnerIsReady
<1>1. ASSUME SessionInv PROVE RunnerIsReady
  <2>1. /\ position \in Nat /\ cursor \in Nat /\ Len(prompt) \in Nat /\ maxNew \in Nat
        /\ Len(history) \in Nat /\ generated \in Nat
    BY <1>1, Numbers DEF SessionInv, SessionTypeOK
  <2>2. pc = "start" /\ cached > 0 => position = cached
    BY <1>1 DEF SessionInv, EntryInv
  <2>3. ASSUME pc = "prefill"
        PROVE  RunnerAccepts(Smaller(ChunkTokens, Len(prompt) - cursor))
    <3>1. /\ position = cursor /\ ~dirty /\ cursor < Len(prompt)
          /\ Len(prompt) + maxNew <= MaxContext
      BY <1>1, <2>3 DEF SessionInv, RunnerInv, PromptInv
    <3> QED BY <2>1, <3>1, Numbers DEF RunnerAccepts, Smaller
  <2>4. ASSUME pc = "produce" PROVE RunnerAccepts(1)
    <3>1. position = cursor /\ ~dirty /\ Feeding /\ Len(prompt) + maxNew <= MaxContext
      BY <1>1, <2>4 DEF SessionInv, RunnerInv, HistoryInv
    <3>2. position + 1 <= MaxContext
      BY <2>1, <3>1, Numbers DEF Feeding, Agree
    <3> QED BY <3>1, <3>2 DEF RunnerAccepts
  <2> QED BY <1>1, <2>2, <2>3, <2>4 DEF SessionInv, RunnerIsReady
<1> QED BY <1>1, SessionInvariant, PTL

\* A finished generation is worth publishing: the cache holds its tokens, and
\* exactly one sampled token is not among them.
THEOREM FinishedTurnsPublish == SessionSpec => []FinishedTurnsArePublishable
<1>1. ASSUME SessionInv PROVE FinishedTurnsArePublishable
  <2>1. prompt \in Seq(Tokens) /\ history \in Seq(Tokens)
    BY <1>1 DEF SessionInv, SessionTypeOK
  <2>2. ASSUME pc = "finish"
        PROVE  /\ cursor = Len(history) /\ cursor = position /\ Len(boundary) = 1
               /\ Agree(prompt, history, Len(prompt))
    BY <1>1, <2>2 DEF SessionInv, RunnerInv, HistoryInv
  <2> QED BY <2>1, <2>2, PrefixAgrees DEF FinishedTurnsArePublishable
<1> QED BY <1>1, SessionInvariant, PTL

\* A prompt built from the entry begins with the whole turn before it: what the
\* model was fed and what it sampled, the last token included.
THEOREM ContinuationsRemember == SessionSpec => ContinuationRemembers
<1>1. ASSUME SessionInv, BeginWithMessages PROVE IsPrefix(shown, prompt')
  <2>1. PICK bridge \in TextBridges \cup ToolBridges :
          BridgeHit(bridge) /\ prompt' = Continuation(bridge)
    BY <1>1 DEF BeginWithMessages, Accept
  <2> DEFINE whole == Continuation(bridge)
             n == Len(entry.tokens)
  <2>2. /\ whole \in Seq(Tokens) /\ n < Len(whole)
        /\ Agree(entry.tokens, whole, n) /\ whole[n + 1] = entry.boundary
        /\ entry.tokens \in Seq(Tokens) /\ entry.boundary \in Tokens /\ n \in Nat
        /\ shown = Append(entry.tokens, entry.boundary)
    BY <1>1, <2>1, EntryFacts, ContinuationFacts DEF BeginWithMessages, SessionInv, EntryInv
  <2> HIDE DEF whole
  <2>3. /\ shown \in Seq(Tokens) /\ Len(shown) = n + 1 /\ shown[n + 1] = entry.boundary
        /\ \A i \in 1..n : shown[i] = entry.tokens[i]
    BY <2>2
  <2>4. Agree(shown, whole, Len(shown))
    BY <2>2, <2>3 DEF Agree
  <2>5. IsPrefix(shown, whole)
    BY <2>2, <2>3, <2>4, PrefixAgrees
  <2> QED BY <2>1, <2>5 DEF whole
<1>2. SessionInv /\ [SessionNext]_vars => [BeginWithMessages => IsPrefix(shown, prompt')]_vars
  BY <1>1
<1> QED BY <1>2, SessionInvariant, PTL DEF SessionSpec, ContinuationRemembers
=============================================================================
