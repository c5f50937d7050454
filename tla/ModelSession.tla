---------------------------- MODULE ModelSession ----------------------------
(***************************************************************************)
(* One warm model serving a sequence of requests (ServerModelSession):     *)
(* the single-prefix prompt cache, the completion loop (runRawCompletion), *)
(* the runner's cursor and dirty mark, and the FP16 KV cache with its      *)
(* linear rows and its sliding-window ring.                                *)
(*                                                                         *)
(* A KV row depends on every token up to its own, so a row is modelled by  *)
(* that token prefix: a stale row differs from a good one even where slot, *)
(* position and token agree.  Tokens, chat templates and sampling are      *)
(* arbitrary: prompts and sampled tokens are any token.                    *)
(***************************************************************************)
EXTENDS SequencesExt

CONSTANTS
  Tokens,          \* the vocabulary
  EndOfTurn,       \* the stop token of an assistant's turn
  ToolResponse,    \* the stop token that asks for tool results
  StopTokens,      \* these two and any other end of sequence
  MaxContext,      \* positions of the KV cache
  SlidingWindow,   \* positions a sliding-window layer attends to
  MaxChunkTokens,  \* rows the ring keeps beside the window
  ChunkTokens,     \* tokens of a prefill chunk
  MaxPrompt,       \* bound: tokens of a rendered prompt
  MaxNewTokens,    \* bound: tokens a request may ask for
  NoEntry

ASSUME TokensAssumption ==
  /\ {EndOfTurn, ToolResponse} \subseteq StopTokens /\ StopTokens \subseteq Tokens
  /\ EndOfTurn # ToolResponse
ASSUME ContextAssumption ==
  {MaxContext, SlidingWindow, MaxChunkTokens, MaxPrompt, MaxNewTokens}
    \subseteq Nat \ {0}
ASSUME ChunkAssumption == ChunkTokens \in 1..MaxChunkTokens
ASSUME NoEntryAssumption == NoEntry \notin [
  tokens : Seq(Tokens), boundary : Tokens,
  reason : {"endOfTurn", "toolCalls", "maxTokens"}]

VARIABLES
  policy,     \* prefill and prompt-cache modes, fixed at start
  rows,       \* per layer kind and slot: the row there, as a token prefix
  position,   \* KVCacheManager.position
  dirty,      \* PrefillChunkCommitState.isDirty
  entry,      \* the prompt cache's entry
  pc,         \* where generate is
  prompt,     \* the effective prompt
  cached,     \* how much of it is taken from the cache
  cursor,     \* runRawCompletion's position
  history,    \* tokens the KV cache is meant to hold
  writing,    \* rows written by the chunk or token under way
  maxNew,     \* the generation's token limit
  generated,  \* tokens sampled so far
  boundary,   \* the sampled token that has no KV row, if any
  reason,     \* why the generation stopped
  shown       \* what the turn that left the entry fed and sampled (history)

request == <<prompt, cached, cursor, history, maxNew, generated, boundary, reason>>
runner  == <<rows, position, dirty>>
vars == <<policy, rows, position, dirty, entry, pc, prompt, cached, cursor, history,
          writing, maxNew, generated, boundary, reason, shown>>

Smaller(m, n) == IF m <= n THEN m ELSE n

LayerKinds == {"full", "swa"}

\* Mutant: the ring has no room beside the window.
CapacityOfWindow(kind) ==
  IF kind = "full" THEN MaxContext ELSE Smaller(MaxContext, SlidingWindow)

Capacity(kind) ==
  IF kind = "full" THEN MaxContext
  ELSE Smaller(MaxContext, SlidingWindow + MaxChunkTokens)

PhysicalSlot(kind, p) == p % Capacity(kind)
FirstAttended(kind, p) ==
  IF kind = "full" \/ p < SlidingWindow THEN 0 ELSE p - SlidingWindow + 1

\* A slot whose contents are unknown: it must never be attended to.
NoRow == <<>>
NoRows == [k \in LayerKinds |-> [i \in 0..(Capacity(k) - 1) |-> NoRow]]

Prefix(s, n) == SubSeq(s, 1, n)

SessionInit ==
  /\ policy \in [prefill : {"chunked", "off"}, cache : {"singlePrefix", "off"}]
  /\ rows = NoRows
  /\ position = 0 /\ dirty = FALSE
  /\ entry = NoEntry /\ pc = "idle"
  /\ prompt = <<>> /\ cached = 0 /\ cursor = 0 /\ history = <<>>
  /\ writing = 0 /\ maxNew = 0 /\ generated = 0 /\ boundary = <<>>
  /\ reason = "none" /\ shown = <<>>

\* The rows of s at the positions from first up to last, where they belong.
WriteRows(s, first, last) ==
  rows' = [k \in LayerKinds |-> [i \in DOMAIN rows[k] |->
    LET hit == {p \in first..last : PhysicalSlot(k, p) = i}
    IN  IF hit = {} THEN rows[k][i]
        ELSE Prefix(s, (CHOOSE p \in hit : \A q \in hit : q <= p) + 1)]]

\* reset gives the pages back to the system: nothing is known of the rows.
Reset == position' = 0 /\ dirty' = FALSE /\ rows' = NoRows

PrepareForContinuation ==
  position = cached /\ dirty' = FALSE /\ UNCHANGED <<position, rows>>

-----------------------------------------------------------------------------
(* The prompt cache.                                                       *)

\* Mutant: a cached prefix is taken without comparing its tokens.
PrefixHitByLength(rendered) ==
  entry # NoEntry /\ Len(rendered) > Len(entry.tokens)

PrefixHit(rendered) ==
  /\ entry # NoEntry
  /\ Len(rendered) > Len(entry.tokens)
  /\ IsPrefix(entry.tokens, rendered)

\* Mutant: the token that has no row yet is forgotten.
ContinuationForgetting(bridge) == entry.tokens \o bridge

\* The prompt of a request whose messages continue the entry's: the tokens the
\* cache holds, the boundary token if the turn ended at its limit, the bridge.
Continuation(bridge) ==
  IF entry.reason = "maxTokens"
  THEN entry.tokens \o <<entry.boundary>> \o bridge
  ELSE entry.tokens \o bridge

\* What the template renders between the turns: after text, the end of the
\* assistant's turn and the user's; after tool calls, the tools' results.
TextBridges == {<<EndOfTurn>>} \cup {<<EndOfTurn, t>> : t \in Tokens}
ToolBridges == {<<s, t>> : s \in Tokens, t \in Tokens}

\* A bridge goes on where the model stopped: with its stop token, or anywhere
\* when it was cut off at its limit.
BridgeHit(bridge) ==
  \/ bridge \in TextBridges /\ entry.reason = "maxTokens"
  \/ bridge \in TextBridges /\ entry.reason = "endOfTurn" /\ bridge[1] = entry.boundary
  \/ bridge \in ToolBridges /\ entry.reason = "toolCalls" /\ bridge[1] = entry.boundary

Prompts == UNION {[1..n -> Tokens] : n \in 1..MaxPrompt}

\* generate, up to the completion loop; a miss has emptied the cache.
Accept(effective, hit, wanted) ==
  /\ Len(effective) < MaxContext
  /\ prompt' = effective
  /\ cached' = hit
  /\ maxNew' = Smaller(wanted, MaxContext - Len(effective))
  /\ entry' = IF hit = 0 THEN NoEntry ELSE entry
  /\ pc' = "start"
  /\ UNCHANGED <<policy, runner, cursor, history, writing, generated, boundary,
                 reason, shown>>

\* generate's defer when it did not complete: invalidate and reset.
\* Mutant: the defer is missing.
ThrowKeeping ==
  /\ pc' = "idle"
  /\ prompt' = <<>> /\ cached' = 0 /\ cursor' = 0 /\ history' = <<>>
  /\ writing' = 0 /\ maxNew' = 0 /\ generated' = 0 /\ boundary' = <<>>
  /\ reason' = "none"
  /\ UNCHANGED <<policy, runner, entry, shown>>

Throw ==
  /\ pc' = "idle"
  /\ entry' = NoEntry /\ Reset /\ shown' = <<>>
  /\ prompt' = <<>> /\ cached' = 0 /\ cursor' = 0 /\ history' = <<>>
  /\ writing' = 0 /\ maxNew' = 0 /\ generated' = 0 /\ boundary' = <<>>
  /\ reason' = "none"
  /\ UNCHANGED policy

\* A request whose rendered prompt continues the cached tokens.
BeginWithPrefix ==
  /\ pc = "idle" /\ policy.cache = "singlePrefix"
  /\ \E rendered \in Prompts, wanted \in 1..MaxNewTokens :
       PrefixHit(rendered) /\ Accept(rendered, Len(entry.tokens), wanted)

\* One whose messages continue the cached turn, but whose rendering differs.
BeginWithMessages ==
  /\ pc = "idle" /\ policy.cache = "singlePrefix" /\ entry # NoEntry
  /\ \E bridge \in TextBridges \cup ToolBridges, wanted \in 1..MaxNewTokens :
       BridgeHit(bridge) /\ Accept(Continuation(bridge), Len(entry.tokens), wanted)

\* A miss: the cache is off or empty, the tools are others, the text differs.
BeginAnew ==
  /\ pc = "idle"
  /\ \E rendered \in Prompts, wanted \in 1..MaxNewTokens, sameTools \in BOOLEAN :
       /\ policy.cache = "singlePrefix" => ~(sameTools /\ PrefixHit(rendered))
       /\ Accept(rendered, 0, wanted)

\* The prompt, rendered or continued, fills the context.
RejectTooLong ==
  /\ pc = "idle"
  /\ Throw

-----------------------------------------------------------------------------
(* The completion loop.                                                    *)

\* reset, or prepareForContinuation at the position the cache names.
Start ==
  /\ pc = "start"
  /\ IF cached = 0 THEN Reset ELSE PrepareForContinuation
  /\ cursor' = cached
  /\ history' = Prefix(prompt, cached)
  /\ pc' = "prefill"
  /\ UNCHANGED <<policy, entry, prompt, cached, writing, maxNew, generated,
                 boundary, reason, shown>>

\* The runner takes a token or chunk only at its own cursor, clean, with room.
RunnerAccepts(n) == position = cursor /\ ~dirty /\ position + n <= MaxContext

\* A chunk is marked dirty before its rows are written.
WriteChunk ==
  /\ pc = "prefill" /\ policy.prefill = "chunked" /\ cursor < Len(prompt)
  /\ LET n == Smaller(ChunkTokens, Len(prompt) - cursor)
     IN  /\ RunnerAccepts(n)
         /\ WriteRows(prompt, position, position + n - 1)
         /\ writing' = n
  /\ dirty' = TRUE
  /\ pc' = "chunk"
  /\ UNCHANGED <<policy, position, entry, request, shown>>

\* Mutant: the chunk is committed without moving the cursor.
CommitChunkInPlace ==
  /\ pc = "chunk"
  /\ dirty' = FALSE
  /\ cursor' = cursor + writing
  /\ history' = Prefix(prompt, cursor')
  /\ writing' = 0
  /\ pc' = IF cursor' = Len(prompt) THEN "decode" ELSE "prefill"
  /\ UNCHANGED <<policy, rows, position, entry, prompt, cached, maxNew, generated,
                 boundary, reason, shown>>

CommitChunk ==
  /\ pc = "chunk"
  /\ position' = position + writing
  /\ dirty' = FALSE
  /\ cursor' = cursor + writing
  /\ history' = Prefix(prompt, cursor')
  /\ writing' = 0
  /\ pc' = IF cursor' = Len(prompt) THEN "decode" ELSE "prefill"
  /\ UNCHANGED <<policy, rows, entry, prompt, cached, maxNew, generated,
                 boundary, reason, shown>>

\* Prefill off: the prompt goes through produce, token by token.
FeedPrompt ==
  /\ pc = "prefill" /\ policy.prefill = "off" /\ cursor < Len(prompt)
  /\ history' = Prefix(prompt, cursor + 1)
  /\ pc' = "produce"
  /\ UNCHANGED <<policy, runner, entry, prompt, cached, cursor, writing, maxNew,
                 generated, boundary, reason, shown>>

StopReason(t) ==
  IF t = EndOfTurn THEN "endOfTurn" ELSE IF t = ToolResponse THEN "toolCalls" ELSE "eos"

AtLimit == generated' >= maxNew

\* A token is sampled; it stops the generation or goes on to produce.
Stops(t) ==
  \/ t \in StopTokens /\ reason' = StopReason(t)
  \/ t \notin StopTokens /\ reason' = "stopString"
  \/ t \notin StopTokens /\ AtLimit /\ reason' = "maxTokens"

\* Mutant: the last token of the limit is counted as fed.
SampleAppending ==
  /\ pc = "decode"
  /\ \E t \in Tokens :
       /\ generated' = generated + 1
       /\ boundary' = <<t>>
       /\ \/ Stops(t) /\ pc' = "finish" /\ history' = Append(history, t)
          \/ /\ t \notin StopTokens /\ ~AtLimit
             /\ history' = Append(history, t)
             /\ pc' = "produce" /\ UNCHANGED reason
  /\ UNCHANGED <<policy, runner, entry, prompt, cached, cursor, writing, maxNew, shown>>

Sample ==
  /\ pc = "decode"
  /\ \E t \in Tokens :
       /\ generated' = generated + 1
       /\ boundary' = <<t>>
       /\ \/ Stops(t) /\ pc' = "finish" /\ UNCHANGED history
          \/ /\ t \notin StopTokens /\ ~AtLimit
             /\ history' = Append(history, t)
             /\ pc' = "produce" /\ UNCHANGED reason
  /\ UNCHANGED <<policy, runner, entry, prompt, cached, cursor, writing, maxNew, shown>>

\* produce writes the token's row; the cursor moves when it returns.
WriteToken ==
  /\ pc = "produce"
  /\ RunnerAccepts(1)
  /\ WriteRows(history, position, position)
  /\ writing' = 1
  /\ pc' = "token"
  /\ UNCHANGED <<policy, position, dirty, entry, request, shown>>

CommitToken ==
  /\ pc = "token"
  /\ position' = position + 1
  /\ cursor' = cursor + 1
  /\ writing' = 0
  /\ boundary' = <<>>
  /\ pc' = IF cursor' < Len(prompt) THEN "prefill" ELSE "decode"
  /\ UNCHANGED <<policy, rows, dirty, entry, prompt, cached, history, maxNew,
                 generated, reason, shown>>

\* A read or command error, a cancelled task, a tool call that does not parse.
Fail ==
  /\ pc # "idle"
  /\ Throw

\* publish, with or without a stop string seen in the visible text.
Publishable ==
  /\ cursor = Len(history) /\ history # <<>> /\ Len(boundary) = 1
  /\ reason \in {"endOfTurn", "toolCalls", "maxTokens"}

Finish ==
  /\ pc = "finish"
  /\ \/ /\ Publishable /\ policy.cache = "singlePrefix"
        /\ entry' = [tokens |-> history, boundary |-> boundary[1], reason |-> reason]
        /\ shown' = history \o boundary
     \/ /\ entry' = NoEntry /\ shown' = <<>>
  /\ pc' = "idle"
  /\ prompt' = <<>> /\ cached' = 0 /\ cursor' = 0 /\ history' = <<>>
  /\ maxNew' = 0 /\ generated' = 0 /\ boundary' = <<>> /\ reason' = "none"
  /\ UNCHANGED <<policy, runner, writing>>

SessionNext ==
  \/ BeginWithPrefix \/ BeginWithMessages \/ BeginAnew \/ RejectTooLong
  \/ Start \/ WriteChunk \/ CommitChunk \/ FeedPrompt
  \/ Sample \/ WriteToken \/ CommitToken \/ Fail \/ Finish

SessionSpec == SessionInit /\ [][SessionNext]_vars

-----------------------------------------------------------------------------
(* Properties.                                                             *)

PCs == {"idle", "start", "prefill", "chunk", "decode", "produce", "token", "finish"}
Entries == [tokens : Seq(Tokens), boundary : Tokens,
            reason : {"endOfTurn", "toolCalls", "maxTokens"}]

SessionTypeOK ==
  /\ policy \in [prefill : {"chunked", "off"}, cache : {"singlePrefix", "off"}]
  /\ \A k \in LayerKinds : rows[k] \in [0..(Capacity(k) - 1) -> Seq(Tokens)]
  /\ position \in 0..MaxContext /\ dirty \in BOOLEAN
  /\ entry = NoEntry \/ entry \in Entries
  /\ pc \in PCs
  /\ prompt \in Seq(Tokens) /\ history \in Seq(Tokens) /\ shown \in Seq(Tokens)
  /\ cached \in 0..MaxContext /\ cursor \in 0..MaxContext
  /\ writing \in 0..MaxChunkTokens
  /\ maxNew \in 0..MaxNewTokens /\ generated \in 0..MaxNewTokens
  /\ boundary \in Seq(Tokens)

\* A query at position p finds the rows of s it attends to where it looks.
Resident(s, p) ==
  \A k \in LayerKinds : \A q \in FirstAttended(k, p)..p :
    rows[k][PhysicalSlot(k, q)] = Prefix(s, q + 1)

\* Every row that a chunk's queries or a token's query attend to is in its slot
\* and was computed from this very text: no row is stale, none was overwritten
\* by a later row of the same chunk, also where the ring wraps.
AttentionReadsItsText ==
  /\ pc = "chunk" => \A p \in position..(position + writing - 1) : Resident(prompt, p)
  /\ pc = "token" => Resident(history, position)

\* "verified KV prefix": whenever a request may be answered from the entry, the
\* KV cache holds exactly the entry's tokens, ready for the next position.
EntryIsBacked ==
  entry # NoEntry /\ pc \in {"idle", "start"} =>
    /\ position = Len(entry.tokens) /\ ~dirty
    /\ position > 0 => Resident(entry.tokens, position - 1)
    /\ pc = "start" => IsPrefix(entry.tokens, prompt) /\ cached = position

\* Types, and: the loop's position and the runner's never part, the runner is
\* clean when it is fed, and the limit leaves room, so that none of its errors
\* for misuse is thrown.
RunnerIsReady ==
  /\ SessionTypeOK
  /\ pc = "start" /\ cached > 0 => position = cached
  /\ pc = "prefill" => RunnerAccepts(Smaller(ChunkTokens, Len(prompt) - cursor))
  /\ pc = "produce" => RunnerAccepts(1)

\* A finished generation that ended a turn is always worth publishing: its
\* tokens are those the KV cache holds and exactly one sampled token is not.
FinishedTurnsArePublishable ==
  pc = "finish" =>
    /\ cursor = Len(history) /\ cursor = position /\ Len(boundary) = 1
    /\ IsPrefix(prompt, history)

\* A conversation that goes on from the cache contains, in order, everything
\* fed to and sampled by the model in the turn before, the last token included.
ContinuationRemembers ==
  [][BeginWithMessages => IsPrefix(shown, prompt')]_vars
=============================================================================
