--------------------------- MODULE SlotServerProofs ---------------------------
(***************************************************************************)
(* ServerInv is an inductive invariant of the llama.cpp server's queues    *)
(* and slots, for any requests, families of tasks and slots: every task    *)
(* that somebody waits for is in one place.                                *)
(***************************************************************************)
EXTENDS SlotServer, SequenceLemmas, FiniteSetTheorems, WellFoundedInduction

-----------------------------------------------------------------------------
(* Where the tasks are.                                                    *)

AllIds == UNION {IdsOf[r] : r \in Requests}
AllRoots == UNION {Range(Roots[r]) : r \in Requests}

\* The tasks in a queue q, with their families, in hand, on a slot, and those
\* whose result is there.
Queues == [queue : Seq(Jobs), deferred : Seq(Tasks)]
Runs(q) == {t \in Tasks : RunJob(t) \in Range(q.queue)}
Listed(q) == Runs(q) \cup Range(q.deferred)
InHand   == {t \in Tasks : HandlesTask(t)}
Pending  == Listed(tasks) \cup InHand
Familiar(R) == UNION {Family(p) : p \in R}
OnSlot   == {t \in Tasks : \E s \in Slots : slot[s].task = t}
Answered == {t \in Tasks : \E i \in DOMAIN results : results[i].task = t}

Live == Familiar(Pending) \cup OnSlot \cup Answered

Failed(r) == \E i \in DOMAIN results : results[i].task \in IdsOf[r] /\ results[i].kind = "error"

-----------------------------------------------------------------------------
(* The invariant.                                                          *)

\* No queue has a task twice.
RunsOnce(s) == \A i, j \in DOMAIN s : s[i] = s[j] /\ s[i].type = "run" => i = j
Once(q) ==
  /\ RunsOnce(q.queue)
  /\ IsInjective(q.deferred)
  /\ Runs(q) \cap Range(q.deferred) = {}

SlotsOnce ==
  \A a, b \in Slots : slot[a].task = slot[b].task /\ slot[a].task # NoTask => a = b
ResultsOnce ==
  \A i, j \in DOMAIN results : results[i].task = results[j].task => i = j

\* A task is in one place; a root that is queued or in hand stands for its family.
InOnePlace ==
  /\ Once(tasks) /\ SlotsOnce /\ ResultsOnce
  /\ Listed(tasks) \cap InHand = {}
  /\ Pending \subseteq AllRoots
  /\ OnSlot \cup Answered \subseteq AllIds
  /\ Familiar(Pending) \cap (OnSlot \cup Answered) = {}
  /\ OnSlot \cap Answered = {}

\* What a reader's place says of its tasks.
ReaderAgrees(r) ==
  /\ reader[r].received \subseteq IdsOf[r] \ Live
  /\ reader[r].pc \in {"none", "waking", "ready", "posting"} =>
       IdsOf[r] \cap Live = {} /\ reader[r].received = {}
  /\ IF reader[r].pc \in {"posting", "reading", "stopping", "closing"}
     THEN IdsOf[r] \subseteq waiting ELSE IdsOf[r] \cap waiting = {}
  /\ IdsOf[r] \cap Answered # {} => reader[r].pc \in {"reading", "stopping", "cleaning"}
  /\ reader[r].pc = "closing" => reader[r].received = IdsOf[r]
  /\ reader[r].pc = "reading" /\ ~Failed(r) => IdsOf[r] \subseteq reader[r].received \cup Live
ReadersAgree == \A r \in Requests : ReaderAgrees(r)

\* Only a reader that is through cancels.
CancelsAreLate ==
  \A r \in Requests : \A t \in IdsOf[r] :
    CancelJob(t) \in Range(tasks.queue) \/ (At("handle") /\ main.job = CancelJob(t)) =>
      ReaderAt(r, "done")

PromptsAreLeft == \A s \in Slots : slot[s].state = "prompt" => slot[s].left > 0

\* An iteration over busy slots has asked the loop to come back.
LoopComesBack ==
  /\ main.pc \in {"prepare", "decode", "finish"} => NextResponse \in Range(tasks.queue)
  /\ main.pc = "wait" => NextResponse \in Range(tasks.queue) \/ Busy = {}
  /\ main.pc = "sleep" => Busy = {}

ServerInv ==
  /\ ServerTypeOK /\ InOnePlace /\ ReadersAgree /\ CancelsAreLate
  /\ PromptsAreLeft /\ LoopComesBack /\ waiting \subseteq AllIds

-----------------------------------------------------------------------------
(* Numbers and sets of numbers.                                            *)

\* Induction over the natural numbers, for sets.
LEMMA SetInduction ==
  ASSUME NEW S, 0 \in S, \A n \in Nat : n \in S => n + 1 \in S
  PROVE  Nat \subseteq S
<1> DEFINE T == Nat \ S
<1>1. SUFFICES ASSUME T # {} PROVE FALSE
  OBVIOUS
<1>2. PICK x \in T : \A y \in T : ~(<<y, x>> \in OpToRel(<, Nat))
  BY <1>1, WFMin, NatLessThanWellFounded
<1>3. \A y \in T : ~(y < x)
  BY <1>2 DEF OpToRel
<1>4. x # 0 /\ x - 1 \in Nat
  OBVIOUS
<1> QED BY <1>3, <1>4

\* A set of numbers that is not empty has a least one.
LEMMA LeastIsThere ==
  ASSUME NEW S \in SUBSET Nat, S # {}
  PROVE  Min(S) \in S
<1> DEFINE Free == {n \in Nat : \A k \in 0..n : k \notin S}
<1>1. PICK x \in S : \A y \in S : x <= y
  <2>1. SUFFICES ASSUME \A x \in S : \E y \in S : ~(x <= y)
                 PROVE  FALSE
    OBVIOUS
  <2>2. \A x \in S : \E y \in S : y < x
    BY <2>1
  <2>3. 0 \in Free
    BY <2>2
  <2>4. ASSUME NEW n \in Nat, n \in Free
        PROVE  n + 1 \in Free
    <3>1. n + 1 \notin S
      BY <2>2, <2>4
    <3> QED BY <2>4, <3>1
  <2>5. Nat \subseteq Free
    BY <2>3, <2>4, SetInduction
  <2>6. \A x \in S : x \in Nat /\ x \in 0..x
    OBVIOUS
  <2> QED BY <2>5, <2>6
<1> QED BY <1>1 DEF Min

\* InOrder lists the numbers of a finite set, each of them once.
LEMMA InOrderFacts ==
  ASSUME NEW I \in SUBSET Int, IsFiniteSet(I)
  PROVE  /\ Cardinality(I) \in Nat
         /\ InOrder(I) \in [1..Cardinality(I) -> I]
         /\ IsInjective(InOrder(I))
         /\ \A x \in I : \E k \in 1..Cardinality(I) : InOrder(I)[k] = x
<1> DEFINE n == Cardinality(I)
           Below(x) == {j \in I : j < x}
           rank == [x \in I |-> Cardinality(Below(x))]
<1>1. \A x \in I : x \in Int
  OBVIOUS
<1>2. n \in Nat
  BY FS_CardinalityType
<1>3. ASSUME NEW x \in I
      PROVE  /\ IsFiniteSet(Below(x)) /\ Below(x) \in SUBSET I /\ x \notin Below(x)
             /\ rank[x] = Cardinality(Below(x))
  BY <1>1, FS_Subset
<1>4. ASSUME NEW x \in I, NEW y \in I, x < y
      PROVE  Below(x) \in SUBSET Below(y) /\ x \in Below(y)
  <2>1. \A j \in I : j < x => j < y
    BY <1>1, <1>4
  <2> QED BY <1>4, <2>1
<1> HIDE DEF Below, rank
<1>5. ASSUME NEW x \in I
      PROVE  rank[x] \in 0..(n - 1)
  <2>1. Cardinality(Below(x)) <= n /\ Cardinality(Below(x)) # n /\ Cardinality(Below(x)) \in Nat
    BY <1>3, FS_Subset, FS_CardinalityType
  <2> QED BY <1>2, <1>3, <2>1
<1>6. ASSUME NEW x \in I, NEW y \in I, x < y
      PROVE  rank[x] < rank[y]
  <2>1. /\ Below(x) \in SUBSET Below(y) /\ Below(x) # Below(y) /\ IsFiniteSet(Below(y))
    BY <1>3, <1>6, <1>4
  <2>2. /\ Cardinality(Below(x)) <= Cardinality(Below(y))
        /\ Cardinality(Below(x)) # Cardinality(Below(y))
    BY <2>1, FS_Subset
  <2> QED BY <1>2, <1>3, <1>5, <2>2
<1>7. \A x, y \in I : rank[x] = rank[y] => x = y
  <2>1. \A x, y \in I : x # y => x < y \/ y < x
    BY <1>1
  <2> QED BY <1>2, <1>6, <1>5, <2>1
<1>8. rank \in [I -> 0..(n - 1)]
  BY <1>5 DEF rank
<1>9. rank \in Injection(I, 0..(n - 1))
  BY <1>7, <1>8 DEF Injection, IsInjective
<1>10. IsFiniteSet(0..(n - 1)) /\ Cardinality(0..(n - 1)) = n
  BY <1>2, FS_Interval
<1>11. rank \in Surjection(I, 0..(n - 1))
  BY <1>9, <1>10, FS_Injection
<1>12. ASSUME NEW k \in 1..n
      PROVE  /\ InOrder(I)[k] \in I /\ rank[InOrder(I)[k]] = k - 1
             /\ \A x \in I : rank[x] = k - 1 => x = InOrder(I)[k]
  <2>1. PICK x \in I : rank[x] = k - 1
    BY <1>2, <1>11 DEF Surjection
  <2>2. Cardinality(Below(x)) = k - 1
    BY <1>3, <2>1
  <2>3. InOrder(I)[k] = CHOOSE i \in I : Cardinality({j \in I : j < i}) = k - 1
    BY DEF InOrder
  <2>4. InOrder(I)[k] \in I /\ Cardinality(Below(InOrder(I)[k])) = k - 1
    BY <2>2, <2>3 DEF Below
  <2>5. rank[InOrder(I)[k]] = k - 1
    BY <1>3, <2>4
  <2> QED BY <1>7, <2>4, <2>5
<1>13. InOrder(I) \in [1..n -> I]
  BY <1>12 DEF InOrder
<1>14. IsInjective(InOrder(I))
  <2>1. \A a, b \in 1..n : InOrder(I)[a] = InOrder(I)[b] => a = b
    BY <1>2, <1>12
  <2> QED BY <1>13, <2>1 DEF IsInjective
<1>15. ASSUME NEW x \in I
       PROVE  \E k \in 1..n : InOrder(I)[k] = x
  <2>1. rank[x] + 1 \in 1..n
    BY <1>2, <1>8
  <2>2. InOrder(I)[rank[x] + 1] = x
    BY <1>2, <1>8, <1>12, <2>1
  <2> QED BY <2>1, <2>2
<1> QED BY <1>2, <1>13, <1>14, <1>15

\* Keep takes over the elements at the given positions, each from one of them.
LEMMA KeepFacts ==
  ASSUME NEW S, NEW q \in Seq(S), NEW I \in SUBSET DOMAIN q
  PROVE  /\ Keep(q, I) \in Seq(S)
         /\ \A a \in DOMAIN Keep(q, I) : InOrder(I)[a] \in I /\ Keep(q, I)[a] = q[InOrder(I)[a]]
         /\ \A a, b \in DOMAIN Keep(q, I) : InOrder(I)[a] = InOrder(I)[b] => a = b
         /\ Range(Keep(q, I)) = {q[i] : i \in I}
<1> DEFINE n == Cardinality(I)
<1>1. /\ Len(q) \in Nat /\ DOMAIN q = 1..Len(q) /\ I \in SUBSET (1..Len(q)) /\ I \in SUBSET Int
      /\ \A i \in 1..Len(q) : q[i] \in S
  <2>1. Len(q) \in Nat /\ DOMAIN q = 1..Len(q) /\ \A i \in 1..Len(q) : q[i] \in S
    OBVIOUS
  <2>2. \A i \in 1..Len(q) : i \in Int
    OBVIOUS
  <2> QED BY <2>1, <2>2
<1>2. IsFiniteSet(I)
  <2>1. IsFiniteSet(1..Len(q))
    BY <1>1, FS_Interval
  <2> QED BY <1>1, <2>1, FS_Subset
<1>3. /\ n \in Nat /\ InOrder(I) \in [1..n -> I] /\ IsInjective(InOrder(I))
      /\ \A x \in I : \E k \in 1..n : InOrder(I)[k] = x
  BY <1>1, <1>2, InOrderFacts
<1>4. /\ DOMAIN Keep(q, I) = 1..n
      /\ \A k \in 1..n : Keep(q, I)[k] = q[InOrder(I)[k]]
      /\ Keep(q, I) \in [1..n -> S]
  BY <1>1, <1>3 DEF Keep
<1>5. Keep(q, I) \in Seq(S)
  <2>1. \A f \in [1..n -> S] : f \in Seq(S)
    <3> HIDE DEF n
    <3> QED BY <1>3
  <2> QED BY <1>4, <2>1
<1>6. Range(Keep(q, I)) = {q[i] : i \in I}
  <2> DEFINE f == Keep(q, I)
             place == InOrder(I)
  <2>1. /\ place \in [1..n -> I] /\ \A x \in I : \E k \in 1..n : place[k] = x
        /\ DOMAIN f = 1..n /\ \A k \in 1..n : f[k] = q[place[k]]
    BY <1>3, <1>4
  <2> HIDE DEF f, place, n
  <2>2. \A x \in Range(f) : \E i \in I : x = q[i]
    BY <2>1 DEF Range
  <2>3. \A i \in I : q[i] \in Range(f)
    BY <2>1 DEF Range
  <2>4. Range(f) = {q[i] : i \in I}
    BY <2>2, <2>3
  <2> QED BY <2>4 DEF f
<1> QED BY <1>3, <1>4, <1>5, <1>6 DEF IsInjective

-----------------------------------------------------------------------------
(* The operations of server_queue.                                         *)

LEMMA JobFacts ==
  /\ \A t \in Tasks : RunJob(t) \in Jobs /\ CancelJob(t) \in Jobs
  /\ NextResponse \in Jobs
  /\ \A t : RunJob(t).type = "run" /\ RunJob(t).task = t
  /\ \A t : CancelJob(t).type = "cancel" /\ CancelJob(t).task = t
  /\ NextResponse.type = "next"
  /\ \A x \in Jobs : x.type = "run" => \E t \in Tasks : x = RunJob(t)
  /\ \A x \in Jobs : x.type = "cancel" => \E t \in Tasks : x = CancelJob(t)
  /\ \A x \in Jobs : x.type \in {"run", "cancel", "next"}
  /\ \A x \in Jobs : x.type = "next" => x = NextResponse
<1>1. /\ \A t : RunJob(t).type = "run" /\ RunJob(t).task = t
      /\ \A t : CancelJob(t).type = "cancel" /\ CancelJob(t).task = t
      /\ NextResponse.type = "next"
  BY DEF RunJob, CancelJob, NextResponse
<1>2. ASSUME NEW x \in Jobs
      PROVE  \/ \E t \in Tasks : x = RunJob(t)
             \/ \E t \in Tasks : x = CancelJob(t)
             \/ x = NextResponse
  BY Zenon DEF Jobs
<1>3. /\ \A t \in Tasks : RunJob(t) \in Jobs /\ CancelJob(t) \in Jobs
      /\ NextResponse \in Jobs
  BY DEF Jobs
<1> QED BY <1>1, <1>2, <1>3, Zenon

\* Jobs of two queues that share no task can be put together.
LEMMA ConcatOnce ==
  ASSUME NEW p \in Seq(Jobs), NEW s \in Seq(Jobs), RunsOnce(p), RunsOnce(s),
         \A x \in Range(p) : x \in Range(s) => x.type # "run"
  PROVE  /\ p \o s \in Seq(Jobs) /\ RunsOnce(p \o s)
         /\ Range(p \o s) = Range(p) \cup Range(s)
<1> DEFINE c == p \o s
<1>1. /\ c \in Seq(Jobs) /\ Len(c) = Len(p) + Len(s)
      /\ \A i \in 1..Len(p) : c[i] = p[i]
      /\ \A j \in 1..Len(s) : c[Len(p) + j] = s[j]
  BY ConcatFacts
<1>2. /\ Len(p) \in Nat /\ Len(s) \in Nat /\ DOMAIN p = 1..Len(p) /\ DOMAIN s = 1..Len(s)
      /\ DOMAIN c = 1..(Len(p) + Len(s))
  BY <1>1
<1> HIDE DEF c
<1>3. ASSUME NEW i \in DOMAIN c
      PROVE  \/ i \in DOMAIN p /\ c[i] = p[i] /\ c[i] \in Range(p)
             \/ i - Len(p) \in DOMAIN s /\ c[i] = s[i - Len(p)] /\ c[i] \in Range(s)
  <2>1. i \in 1..Len(p) \/ (i - Len(p) \in 1..Len(s) /\ Len(p) + (i - Len(p)) = i)
    BY <1>2
  <2> QED BY <1>1, <1>2, <2>1 DEF Range
<1>4. Range(c) = Range(p) \cup Range(s)
  <2>1. \A i \in DOMAIN p : i \in DOMAIN c /\ c[i] = p[i]
    BY <1>1, <1>2
  <2>2. \A j \in DOMAIN s : Len(p) + j \in DOMAIN c /\ c[Len(p) + j] = s[j]
    BY <1>1, <1>2
  <2> QED BY <1>3, <2>1, <2>2 DEF Range
<1>5. ASSUME NEW i \in DOMAIN c, NEW j \in DOMAIN c, c[i] = c[j], c[i].type = "run"
      PROVE  i = j
  <2>1. CASE i \in DOMAIN p /\ j \in DOMAIN p /\ c[i] = p[i] /\ c[j] = p[j]
    BY <1>5, <2>1 DEF RunsOnce
  <2>2. CASE /\ i - Len(p) \in DOMAIN s /\ c[i] = s[i - Len(p)]
             /\ j - Len(p) \in DOMAIN s /\ c[j] = s[j - Len(p)]
    <3>1. i - Len(p) = j - Len(p)
      BY <1>5, <2>2 DEF RunsOnce
    <3>2. i \in Nat /\ j \in Nat
      BY <1>2
    <3> QED BY <1>2, <3>1, <3>2
  <2> QED BY <1>3, <1>5, <2>1, <2>2
<1>6. RunsOnce(c)
  BY <1>5 DEF RunsOnce
<1> QED BY <1>1, <1>4, <1>6 DEF c

\* One job in front.
LEMMA FrontFacts ==
  ASSUME NEW x \in Jobs
  PROVE  <<x>> \in Seq(Jobs) /\ Range(<<x>>) = {x} /\ RunsOnce(<<x>>)
<1>1. <<x>> \in Seq(Jobs) /\ DOMAIN <<x>> = {1} /\ <<x>>[1] = x
  OBVIOUS
<1> QED BY <1>1 DEF Range, RunsOnce

\* Taking jobs out of a queue leaves the others as they are.
LEMMA KeepJobs ==
  ASSUME NEW s \in Seq(Jobs), RunsOnce(s), NEW I \in SUBSET DOMAIN s
  PROVE  Keep(s, I) \in Seq(Jobs) /\ RunsOnce(Keep(s, I)) /\ Range(Keep(s, I)) = {s[i] : i \in I}
BY KeepFacts DEF RunsOnce

LEMMA CleanupFacts ==
  ASSUME NEW q \in Queues, Once(q), NEW targets
  PROVE  LET p == CleanupPending(q, targets)
         IN  /\ p \in Queues /\ Once(p)
             /\ Runs(p) = Runs(q) \ targets
             /\ Range(p.deferred) = Range(q.deferred) \ targets
             /\ Range(p.queue) \subseteq Range(q.queue)
             /\ \A x \in Range(q.queue) : x.type # "run" => x \in Range(p.queue)
<1> DEFINE p == CleanupPending(q, targets)
           I == {i \in DOMAIN q.queue : \A t \in targets : q.queue[i] # RunJob(t)}
           J == {i \in DOMAIN q.deferred : q.deferred[i] \notin targets}
<1>1. /\ q.queue \in Seq(Jobs) /\ q.deferred \in Seq(Tasks)
      /\ RunsOnce(q.queue) /\ IsInjective(q.deferred)
      /\ Runs(q) \cap Range(q.deferred) = {}
  BY DEF Queues, Once
<1>2. p = [queue |-> Keep(q.queue, I), deferred |-> Keep(q.deferred, J)]
  BY DEF CleanupPending
<1>3. /\ p.queue \in Seq(Jobs) /\ RunsOnce(p.queue)
      /\ Range(p.queue) = {q.queue[i] : i \in I}
  BY <1>1, <1>2, KeepJobs
<1>4. /\ p.deferred \in Seq(Tasks) /\ IsInjective(p.deferred)
      /\ Range(p.deferred) = {q.deferred[i] : i \in J}
  <2>1. J \in SUBSET DOMAIN q.deferred /\ p.deferred = Keep(q.deferred, J)
    BY <1>2
  <2> HIDE DEF J, p
  <2>2. /\ p.deferred \in Seq(Tasks)
        /\ \A a \in DOMAIN p.deferred :
             InOrder(J)[a] \in J /\ p.deferred[a] = q.deferred[InOrder(J)[a]]
        /\ \A a, b \in DOMAIN p.deferred : InOrder(J)[a] = InOrder(J)[b] => a = b
        /\ Range(p.deferred) = {q.deferred[i] : i \in J}
    BY <1>1, <2>1, KeepFacts
  <2>3. IsInjective(p.deferred)
    BY <1>1, <2>1, <2>2 DEF IsInjective
  <2> QED BY <2>2, <2>3
<1>5. p \in Queues
  BY <1>2, <1>3, <1>4 DEF Queues
<1>6. Range(p.deferred) = Range(q.deferred) \ targets
  BY <1>4 DEF Range
<1>7. /\ Range(p.queue) \subseteq Range(q.queue)
      /\ \A x \in Range(q.queue) :
           x \in Range(p.queue) <=> \A t \in targets : x # RunJob(t)
  BY <1>3 DEF Range
<1> HIDE DEF p, I, J
<1>8. Runs(p) = Runs(q) \ targets
  BY <1>7, JobFacts DEF Runs
<1>9. \A x \in Range(q.queue) : x.type # "run" => x \in Range(p.queue)
  BY <1>7, JobFacts
<1>10. Once(p)
  BY <1>1, <1>3, <1>4, <1>6, <1>8 DEF Once
<1> QED BY <1>5, <1>6, <1>7, <1>8, <1>9, <1>10 DEF p

\* The pending targets of cancels go, and nothing else.
LEMMA PostFrontFacts ==
  ASSUME NEW q \in Queues, Once(q), NEW targets \in Seq(Tasks)
  PROVE  LET p == PostFront(q, targets)
         IN  /\ p \in Queues /\ Once(p)
             /\ Runs(p) = Runs(q) \ Range(targets)
             /\ Range(p.deferred) = Range(q.deferred) \ Range(targets)
             /\ \A t \in Tasks : CancelJob(t) \in Range(p.queue) =>
                  CancelJob(t) \in Range(q.queue) \/ t \in Range(targets)
             /\ NextResponse \in Range(q.queue) => NextResponse \in Range(p.queue)
<1> DEFINE p == PostFront(q, targets)
           clean == CleanupPending(q, Range(targets))
           front == [k \in DOMAIN targets |-> CancelJob(Reverse(targets)[k])]
<1>1. /\ clean \in Queues /\ Once(clean)
      /\ Runs(clean) = Runs(q) \ Range(targets)
      /\ Range(clean.deferred) = Range(q.deferred) \ Range(targets)
      /\ Range(clean.queue) \subseteq Range(q.queue)
      /\ \A x \in Range(q.queue) : x.type # "run" => x \in Range(clean.queue)
  BY CleanupFacts
<1>2. clean.queue \in Seq(Jobs) /\ clean.deferred \in Seq(Tasks) /\ RunsOnce(clean.queue)
  BY <1>1 DEF Queues, Once
<1> HIDE DEF clean
<1>3. p = [clean EXCEPT !.queue = front \o clean.queue]
  BY DEF PostFront, clean
<1>4. /\ Len(targets) \in Nat /\ DOMAIN targets = 1..Len(targets)
      /\ \A k \in 1..Len(targets) : targets[k] \in Tasks
  OBVIOUS
<1>5. \A k \in DOMAIN targets : Reverse(targets)[k] \in Range(targets)
  <2>1. \A k \in 1..Len(targets) :
          /\ Len(targets) - k + 1 \in 1..Len(targets)
          /\ Reverse(targets)[k] = targets[Len(targets) - k + 1]
    BY <1>4 DEF Reverse
  <2> QED BY <1>4, <2>1 DEF Range
<1>6. Range(targets) \subseteq Tasks
  BY <1>4 DEF Range
<1>7. /\ front \in [1..Len(targets) -> Jobs]
      /\ \A k \in DOMAIN front : \E t \in Range(targets) : front[k] = CancelJob(t)
  BY <1>4, <1>5, <1>6, JobFacts
<1>8. front \in Seq(Jobs)
  BY <1>4, <1>7
<1> HIDE DEF front
<1>9. \A x \in Range(front) : \E t \in Range(targets) : x = CancelJob(t)
  BY <1>7 DEF Range
<1>10. RunsOnce(front)
  BY <1>7, JobFacts DEF RunsOnce
<1>11. \A x \in Range(front) : x \in Range(clean.queue) => x.type # "run"
  BY <1>9, JobFacts
<1>12. /\ front \o clean.queue \in Seq(Jobs) /\ RunsOnce(front \o clean.queue)
       /\ Range(front \o clean.queue) = Range(front) \cup Range(clean.queue)
  BY <1>2, <1>8, <1>10, <1>11, ConcatOnce
<1>13. p \in Queues /\ p.queue = front \o clean.queue /\ p.deferred = clean.deferred
  BY <1>1, <1>2, <1>3, <1>12 DEF Queues
<1> HIDE DEF p
<1>14. Runs(p) = Runs(clean)
  BY <1>9, <1>12, <1>13, JobFacts DEF Runs
<1>15. Once(p)
  BY <1>1, <1>12, <1>13, <1>14 DEF Once
<1>16. \A t \in Tasks : CancelJob(t) \in Range(p.queue) =>
         CancelJob(t) \in Range(q.queue) \/ t \in Range(targets)
  BY <1>1, <1>9, <1>12, <1>13, JobFacts
<1>17. NextResponse \in Range(q.queue) => NextResponse \in Range(p.queue)
  BY <1>1, <1>12, <1>13, JobFacts
<1> QED BY <1>1, <1>13, <1>14, <1>15, <1>16, <1>17 DEF p

\* A released slot moves one deferred task to the front of the queue, or none.
LEMMA PopFacts ==
  ASSUME NEW q \in Queues, Once(q), NEW s
  PROVE  LET p == PopDeferred(q, s)
         IN  /\ p \in Queues /\ Once(p) /\ Listed(p) = Listed(q)
             /\ Range(q.queue) \subseteq Range(p.queue)
             /\ \A x \in Range(p.queue) : x.type = "run" \/ x \in Range(q.queue)
<1> DEFINE p == PopDeferred(q, s)
<1>1. /\ q.queue \in Seq(Jobs) /\ q.deferred \in Seq(Tasks)
      /\ RunsOnce(q.queue) /\ IsInjective(q.deferred)
      /\ Runs(q) \cap Range(q.deferred) = {}
  BY DEF Queues, Once
<1>2. CASE q.deferred = <<>>
  <2>1. p = q
    BY <1>2 DEF PopDeferred
  <2> QED BY <2>1
<1>3. CASE q.deferred # <<>>
  <2> DEFINE asked == {i \in DOMAIN q.deferred : Pin[q.deferred[i]] = s}
             i == IF asked = {} THEN 1 ELSE Min(asked)
             t == q.deferred[i]
  <2>1. DOMAIN q.deferred = 1..Len(q.deferred) /\ Len(q.deferred) \in Nat /\ Len(q.deferred) > 0
    BY <1>1, <1>3
  <2>2. i \in DOMAIN q.deferred
    <3>1. CASE asked # {}
      <4>1. asked \in SUBSET Nat
        BY <2>1
      <4> QED BY <3>1, <4>1, LeastIsThere
    <3> QED BY <2>1, <3>1
  <2>3. p = [queue |-> <<RunJob(t)>> \o q.queue, deferred |-> RemoveAt(q.deferred, i)]
    BY <1>3 DEF PopDeferred
  <2> HIDE DEF asked, i, p
  <2>4. t \in Tasks /\ t \in Range(q.deferred)
    BY <1>1, <2>1, <2>2 DEF Range
  <2> HIDE DEF t
  <2>5. /\ p.deferred \in Seq(Tasks) /\ IsInjective(p.deferred)
        /\ Range(p.deferred) = Range(q.deferred) \ {t}
    BY <1>1, <2>2, <2>3, RemoveAtInjective DEF t
  <2>6. RunJob(t) \notin Range(q.queue)
    BY <1>1, <2>4 DEF Runs
  <2>7. /\ p.queue \in Seq(Jobs) /\ RunsOnce(p.queue)
        /\ Range(p.queue) = {RunJob(t)} \cup Range(q.queue)
    <3>1. /\ <<RunJob(t)>> \in Seq(Jobs) /\ Range(<<RunJob(t)>>) = {RunJob(t)}
          /\ RunsOnce(<<RunJob(t)>>)
      BY <2>4, JobFacts, FrontFacts
    <3>2. /\ <<RunJob(t)>> \o q.queue \in Seq(Jobs) /\ RunsOnce(<<RunJob(t)>> \o q.queue)
          /\ Range(<<RunJob(t)>> \o q.queue) = Range(<<RunJob(t)>>) \cup Range(q.queue)
      BY <1>1, <2>6, <3>1, ConcatOnce
    <3> QED BY <2>3, <3>1, <3>2
  <2>8. p \in Queues
    BY <2>3, <2>5, <2>7 DEF Queues
  <2>9. Runs(p) = Runs(q) \cup {t}
    BY <2>4, <2>7, JobFacts DEF Runs
  <2>10. Once(p) /\ Listed(p) = Listed(q)
    BY <1>1, <2>4, <2>5, <2>7, <2>9 DEF Once, Listed
  <2>11. \A x \in Range(p.queue) : x.type = "run" \/ x \in Range(q.queue)
    BY <2>7, JobFacts
  <2> QED BY <2>7, <2>8, <2>10, <2>11 DEF p
<1> QED BY <1>2, <1>3

\* A slot after the other.
LEMMA PopsFacts ==
  ASSUME NEW q \in Queues, Once(q), NEW released, Len(released) \in Nat
  PROVE  LET p == Pops(q, released)
         IN  /\ p \in Queues /\ Once(p) /\ Listed(p) = Listed(q)
             /\ Range(q.queue) \subseteq Range(p.queue)
             /\ \A x \in Range(p.queue) : x.type = "run" \/ x \in Range(q.queue)
<1> DEFINE L == Len(released)
           Good == {p \in Queues : /\ Once(p) /\ Listed(p) = Listed(q)
                                   /\ Range(q.queue) \subseteq Range(p.queue)
                                   /\ \A x \in Range(p.queue) :
                                        x.type = "run" \/ x \in Range(q.queue)}
           step(g) == [n \in 0..L |-> IF n = 0 THEN q ELSE PopDeferred(g[n - 1], released[n])]
           popped == CHOOSE g : g = step(g)
           Built == {n \in Nat : \E g \in [0..n -> Good] :
                       /\ g[0] = q
                       /\ \A k \in 1..n : g[k] = PopDeferred(g[k - 1], released[k])}
<1>1. q \in Good
  OBVIOUS
<1>2. ASSUME NEW p \in Good, NEW s
      PROVE  PopDeferred(p, s) \in Good
  <2>1. /\ PopDeferred(p, s) \in Queues /\ Once(PopDeferred(p, s))
        /\ Listed(PopDeferred(p, s)) = Listed(p)
        /\ Range(p.queue) \subseteq Range(PopDeferred(p, s).queue)
        /\ \A x \in Range(PopDeferred(p, s).queue) : x.type = "run" \/ x \in Range(p.queue)
    BY PopFacts
  <2> QED BY <2>1
<1> HIDE DEF Good
<1>3. Nat \subseteq Built
  <2>1. 0 \in Built
    <3>1. /\ [n \in 0..0 |-> q] \in [0..0 -> Good] /\ [n \in 0..0 |-> q][0] = q
          /\ 1..0 = {}
      BY <1>1
    <3> QED BY <3>1
  <2>2. ASSUME NEW n \in Nat, n \in Built
        PROVE  n + 1 \in Built
    <3>1. PICK g \in [0..n -> Good] :
            /\ g[0] = q
            /\ \A k \in 1..n : g[k] = PopDeferred(g[k - 1], released[k])
      BY <2>2
    <3> DEFINE h == [k \in 0..(n + 1) |->
                       IF k = n + 1 THEN PopDeferred(g[n], released[k]) ELSE g[k]]
    <3>2. PopDeferred(g[n], released[n + 1]) \in Good
      BY <1>2, <3>1
    <3>3. /\ h \in [0..(n + 1) -> Good] /\ h[0] = g[0]
          /\ h[n + 1] = PopDeferred(g[n], released[n + 1])
          /\ \A k \in 0..n : h[k] = g[k]
      BY <3>2
    <3> HIDE DEF h
    <3>4. ASSUME NEW k \in 1..(n + 1)
          PROVE  h[k] = PopDeferred(h[k - 1], released[k])
      <4>1. CASE k = n + 1
        BY <3>3, <4>1
      <4>2. CASE k \in 1..n
        BY <3>1, <3>3, <4>2
      <4> QED BY <4>1, <4>2
    <3> QED BY <3>1, <3>3, <3>4
  <2> HIDE DEF Built
  <2> QED BY <2>1, <2>2, SetInduction
<1>4. PICK g \in [0..L -> Good] :
        /\ g[0] = q
        /\ \A k \in 1..L : g[k] = PopDeferred(g[k - 1], released[k])
  BY <1>3
<1>5. g = step(g)
  <2>1. \A n \in 0..L : g[n] = IF n = 0 THEN q ELSE PopDeferred(g[n - 1], released[n])
    BY <1>4
  <2> QED BY <1>4, <2>1
<1>6. popped = step(popped)
  BY <1>5
<1> HIDE DEF popped, Built
<1>7. /\ popped[0] = q
      /\ \A n \in Nat : n + 1 <= L => popped[n + 1] = PopDeferred(popped[n], released[n + 1])
  BY <1>6
<1>8. Nat \subseteq {n \in Nat : n <= L => popped[n] \in Good}
  <2> DEFINE P == {n \in Nat : n <= L => popped[n] \in Good}
  <2>1. 0 \in P
    BY <1>1, <1>7
  <2>2. ASSUME NEW n \in Nat, n \in P
        PROVE  n + 1 \in P
    BY <1>2, <1>7, <2>2
  <2> HIDE DEF P
  <2>3. Nat \subseteq P
    BY <2>1, <2>2, SetInduction
  <2> QED BY <2>3 DEF P
<1>9. popped[L] \in Good
  BY <1>8
<1>10. Pops(q, released) = popped[L]
  BY DEF Pops, popped
<1> QED BY <1>9, <1>10 DEF Good

-----------------------------------------------------------------------------
(* Requests, roots and families.                                           *)

LEMMA IdsFacts ==
  /\ \A r \in Requests : /\ Roots[r] \in Seq(Tasks) /\ Range(Roots[r]) \subseteq Tasks
                         /\ IdsOf[r] = Familiar(Range(Roots[r])) /\ IdsOf[r] \subseteq Tasks
                         /\ Range(Roots[r]) \subseteq IdsOf[r]
  /\ \A t \in Tasks : Children[t] \in Seq(Tasks) /\ Family(t) \subseteq Tasks /\ t \in Family(t)
<1>1. \A r \in Requests : Roots[r] \in Seq(Tasks)
  BY QueueAssumption
<1>2. \A t \in Tasks : Children[t] \in Seq(Tasks)
  BY QueueAssumption
<1>3. ASSUME NEW s \in Seq(Tasks)
      PROVE  Range(s) \subseteq Tasks
  BY DEF Range
<1>4. \A t \in Tasks : Family(t) \subseteq Tasks /\ t \in Family(t)
  BY <1>2, <1>3 DEF Family
<1>5. \A r \in Requests : IdsOf[r] = Familiar(Range(Roots[r]))
  BY DEF IdsOf, Familiar
<1>6. ASSUME NEW R \in SUBSET Tasks
      PROVE  Familiar(R) \subseteq Tasks /\ R \subseteq Familiar(R)
  BY <1>4 DEF Familiar
<1> QED BY <1>1, <1>2, <1>3, <1>4, <1>5, <1>6

\* A root's family has no other root, and is of one request.
LEMMA FamilyFacts ==
  ASSUME NEW p \in AllRoots
  PROVE  /\ p \in Tasks /\ Family(p) \subseteq AllIds /\ Family(p) \subseteq Tasks
         /\ \E r \in Requests : p \in Range(Roots[r]) /\ Family(p) \subseteq IdsOf[r]
         /\ \A u \in AllRoots : Family(p) \cap Family(u) # {} => p = u
         /\ \A u \in AllRoots : u \in Family(p) => u = p
         /\ \A r \in Requests : Family(p) \cap IdsOf[r] # {} =>
              p \in Range(Roots[r]) /\ Family(p) \subseteq IdsOf[r]
         /\ IsInjective(Children[p]) /\ p \notin Range(Children[p])
<1>1. PICK r \in Requests : p \in Range(Roots[r])
  BY DEF AllRoots
<1>2. Family(p) \subseteq IdsOf[r] /\ p \in Tasks /\ p \in Family(p)
  BY <1>1, IdsFacts DEF Familiar
<1>3. ASSUME NEW u \in AllRoots, Family(p) \cap Family(u) # {}
      PROVE  p = u
  <2>1. PICK q \in Requests : u \in Range(Roots[q])
    BY DEF AllRoots
  <2> QED BY <1>1, <1>3, <2>1, IdsAssumption
<1>4. ASSUME NEW u \in AllRoots, u \in Family(p)
      PROVE  u = p
  <2>1. u \in Family(u)
    BY DEF Family
  <2> QED BY <1>3, <1>4, <2>1
<1>5. ASSUME NEW q \in Requests, Family(p) \cap IdsOf[q] # {}
      PROVE  p \in Range(Roots[q]) /\ Family(p) \subseteq IdsOf[q]
  <2>1. PICK u \in Range(Roots[q]) : Family(p) \cap Family(u) # {}
    BY <1>5, IdsFacts DEF Familiar
  <2>2. p = u
    BY <1>1, <2>1, IdsAssumption
  <2> QED BY <2>1, <2>2, IdsFacts DEF Familiar
<1>6. IsInjective(Children[p]) /\ p \notin Range(Children[p])
  BY <1>1, IdsAssumption
<1>7. Family(p) \subseteq AllIds /\ Family(p) \subseteq Tasks
  BY <1>1, <1>2, IdsFacts DEF AllIds
<1> QED BY <1>1, <1>2, <1>3, <1>4, <1>5, <1>6, <1>7

\* Requests share no task.
LEMMA IdsDisjoint ==
  ASSUME NEW r \in Requests, NEW q \in Requests, r # q
  PROVE  IdsOf[r] \cap IdsOf[q] = {}
<1>1. SUFFICES ASSUME NEW t \in IdsOf[r] \cap IdsOf[q]
               PROVE  FALSE
  OBVIOUS
<1>2. PICK p \in Range(Roots[r]) : t \in Family(p)
  BY <1>1, IdsFacts DEF Familiar
<1>3. PICK u \in Range(Roots[q]) : t \in Family(u)
  BY <1>1, IdsFacts DEF Familiar
<1> QED BY <1>2, <1>3, IdsAssumption

-----------------------------------------------------------------------------
(* Readers that do not move.                                               *)

\* A step of the main loop, seen from a reader: tasks disappear only with an
\* answer or an error.
LEMMA MainKeepsReaders ==
  ASSUME ServerTypeOK, ReadersAgree, reader' = reader, waiting' = waiting,
         Live' \subseteq Live, Answered' \subseteq Answered \cup waiting,
         \A r \in Requests : Failed(r) => Failed(r)',
         \A r \in Requests : reader[r].pc = "reading" => IdsOf[r] \cap Live \subseteq Live' \/ Failed(r)'
  PROVE  ReadersAgree'
<1>1. ASSUME NEW r \in Requests
      PROVE  ReaderAgrees(r)'
  <2>1. ReaderAgrees(r)
    BY DEF ReadersAgree
  <2>2. IdsOf[r] \cap Answered' # {} => reader[r].pc \in {"reading", "stopping", "cleaning"}
    <3>1. SUFFICES ASSUME NEW t \in IdsOf[r] \cap Answered', t \in waiting
                   PROVE  reader[r].pc \in {"reading", "stopping", "cleaning"}
      BY <2>1 DEF ReaderAgrees
    <3>2. t \in Live
      BY <3>1 DEF Live
    <3> QED BY <2>1, <3>1, <3>2 DEF ReaderAgrees
  <2> QED BY <1>1, <2>1, <2>2 DEF ReaderAgrees
<1> QED BY <1>1 DEF ReadersAgree

\* What happens to one request's tasks does not touch the others.
LEMMA OthersAgree ==
  ASSUME ReadersAgree, NEW r \in Requests,
         \A q \in Requests : q # r => reader'[q] = reader[q],
         waiting' \ IdsOf[r] = waiting \ IdsOf[r],
         Live' \ IdsOf[r] = Live \ IdsOf[r],
         Answered' \ IdsOf[r] = Answered \ IdsOf[r],
         \A q \in Requests : q # r => Failed(q)' = Failed(q),
         ReaderAgrees(r)'
  PROVE  ReadersAgree'
<1>1. ASSUME NEW q \in Requests, q # r
      PROVE  ReaderAgrees(q)'
  <2>1. ReaderAgrees(q) /\ IdsOf[q] \cap IdsOf[r] = {} /\ reader'[q] = reader[q]
    BY <1>1, IdsDisjoint DEF ReadersAgree
  <2>2. /\ IdsOf[q] \cap waiting' = IdsOf[q] \cap waiting
        /\ IdsOf[q] \cap Live' = IdsOf[q] \cap Live
        /\ IdsOf[q] \cap Answered' = IdsOf[q] \cap Answered
    BY <2>1
  <2>3. Failed(q)' = Failed(q)
    BY <1>1
  <2> QED BY <2>1, <2>2, <2>3 DEF ReaderAgrees
<1> QED BY <1>1 DEF ReadersAgree

-----------------------------------------------------------------------------
(* The main loop.                                                          *)

LEMMA LiveIsKnown ==
  ASSUME InOnePlace
  PROVE  Live \subseteq AllIds
<1>1. Familiar(Pending) \subseteq AllIds
  BY FamilyFacts DEF InOnePlace, Familiar
<1> QED BY <1>1 DEF InOnePlace, Live

\* What a step of the main loop has to keep.
LEMMA MainMove ==
  ASSUME ServerInv, reader' = reader, waiting' = waiting,
         ServerTypeOK', PromptsAreLeft', LoopComesBack',
         Once(tasks'), SlotsOnce', ResultsOnce',
         Listed(tasks') \cap InHand' = {}, Pending' \subseteq Pending,
         Familiar(Pending)' \cap (OnSlot' \cup Answered') = {}, OnSlot' \cap Answered' = {},
         Live' \subseteq Live, Answered' \subseteq Answered \cup waiting,
         \A i \in DOMAIN results : i \in DOMAIN results' /\ results'[i] = results[i],
         \A r \in Requests :
           reader[r].pc = "reading" => IdsOf[r] \cap Live \subseteq Live' \/ Failed(r)',
         \A x \in Range(tasks'.queue) : x.type = "cancel" => x \in Range(tasks.queue),
         main'.pc = "handle" => main'.job \in Range(tasks.queue)
  PROVE  ServerInv'
<1>1. /\ ServerTypeOK /\ InOnePlace /\ ReadersAgree /\ CancelsAreLate /\ waiting \subseteq AllIds
  BY DEF ServerInv
<1>2. \A r \in Requests : Failed(r) => Failed(r)'
  BY DEF Failed
<1>3. ReadersAgree'
  BY <1>1, <1>2, MainKeepsReaders
<1>4. OnSlot' \cup Answered' \subseteq AllIds
  BY <1>1, LiveIsKnown DEF Live
<1>5. InOnePlace'
  <2>1. Pending' \subseteq AllRoots
    BY <1>1 DEF InOnePlace
  <2> QED BY <1>4, <2>1 DEF InOnePlace
<1>6. CancelsAreLate'
  <2>1. SUFFICES ASSUME NEW r \in Requests, NEW t \in IdsOf[r],
                        \/ CancelJob(t) \in Range(tasks'.queue)
                        \/ main'.pc = "handle" /\ main'.job = CancelJob(t)
                 PROVE  reader'[r].pc = "done"
    BY DEF CancelsAreLate, ReaderAt, At
  <2>2. CancelJob(t) \in Range(tasks.queue)
    BY <2>1, JobFacts
  <2> QED BY <1>1, <2>2 DEF CancelsAreLate, ReaderAt
<1>7. waiting' \subseteq AllIds
  BY <1>1
<1> QED BY <1>3, <1>5, <1>6, <1>7 DEF ServerInv

\* A step that moves no task between queues, slots and results.
LEMMA MainStays ==
  ASSUME ServerInv, reader' = reader, waiting' = waiting, results' = results,
         \A s \in Slots : slot'[s].task = slot[s].task,
         ServerTypeOK', PromptsAreLeft', LoopComesBack',
         Once(tasks'), Listed(tasks') \cap InHand' = {}, Pending' = Pending,
         \A x \in Range(tasks'.queue) : x.type = "cancel" => x \in Range(tasks.queue),
         main'.pc = "handle" => main'.job \in Range(tasks.queue)
  PROVE  ServerInv'
<1>1. InOnePlace /\ SlotsOnce /\ ResultsOnce
  BY DEF ServerInv, InOnePlace
<1>2. OnSlot' = OnSlot /\ Answered' = Answered
  BY DEF OnSlot, Answered
<1>3. Familiar(Pending)' = Familiar(Pending)
  BY DEF Familiar
<1>4. Live' = Live
  BY <1>2, <1>3 DEF Live
<1>5. SlotsOnce' /\ ResultsOnce'
  BY <1>1 DEF SlotsOnce, ResultsOnce
<1>6. Familiar(Pending)' \cap (OnSlot' \cup Answered') = {} /\ OnSlot' \cap Answered' = {}
  BY <1>1, <1>2, <1>3 DEF InOnePlace
<1> QED BY <1>2, <1>4, <1>5, <1>6, MainMove

LEMMA GotoFacts ==
  ASSUME ServerTypeOK, NEW pc \in {"drain", "update", "prepare", "decode", "finish", "wait", "sleep"},
         Goto(pc)
  PROVE  /\ main' \in [pc : {"drain", "handle", "update", "prepare", "decode", "finish",
                             "wait", "sleep"}, at : Slots, job : Jobs]
         /\ main'.pc = pc /\ InHand' = {}
<1>1. 1 \in Slots
  BY QueueAssumption DEF Slots
<1>2. /\ main' \in [pc : {"drain", "handle", "update", "prepare", "decode", "finish",
                          "wait", "sleep"}, at : Slots, job : Jobs]
      /\ main'.pc = pc
  BY <1>1, JobFacts DEF Goto, ServerTypeOK
<1> QED BY <1>2 DEF InHand, HandlesTask, At

LEMMA AdvanceFacts ==
  ASSUME ServerTypeOK, NEW next \in {"decode", "wait"}, Advance(next), main.pc \in {"prepare", "finish"}
  PROVE  /\ main' \in [pc : {"drain", "handle", "update", "prepare", "decode", "finish",
                             "wait", "sleep"}, at : Slots, job : Jobs]
         /\ main'.pc \in {main.pc, next} /\ InHand' = {}
<1>1. 1 \in Slots
  BY QueueAssumption DEF Slots
<1>2. /\ main' \in [pc : {"drain", "handle", "update", "prepare", "decode", "finish",
                          "wait", "sleep"}, at : Slots, job : Jobs]
      /\ main'.pc \in {main.pc, next}
  BY <1>1 DEF Advance, ServerTypeOK
<1> QED BY <1>2 DEF InHand, HandlesTask, At

\* Steps that only change the place of the main loop, or a slot's progress.
LEMMA SlotWork ==
  ASSUME ServerInv, UNCHANGED <<tasks, waiting, results, reader>>,
         \A s \in Slots : slot'[s].task = slot[s].task,
         ServerTypeOK', PromptsAreLeft', LoopComesBack', InHand = {}, InHand' = {},
         main'.pc # "handle"
  PROVE  ServerInv'
<1>1. Once(tasks) /\ Listed(tasks) \cap InHand = {}
  BY DEF ServerInv, InOnePlace
<1>2. Pending' = Pending
  BY DEF Pending
<1> QED BY <1>1, <1>2, MainStays

\* A slot whose progress changes.
LEMMA SlotRecord ==
  ASSUME NEW T, NEW S, NEW L, NEW K, NEW h \in [task : T, state : S, left : L, tokens : K]
  PROVE  /\ \A state \in S, left \in L :
              LET x == [h EXCEPT !.left = left, !.state = state]
              IN  /\ x \in [task : T, state : S, left : L, tokens : K]
                  /\ x.task = h.task /\ x.state = state /\ x.left = left
         /\ \A state \in S, tokens \in K :
              LET x == [h EXCEPT !.state = state, !.tokens = tokens]
              IN  /\ x \in [task : T, state : S, left : L, tokens : K]
                  /\ x.task = h.task /\ x.state = state
OBVIOUS

LEMMA QuietSteps ==
  ASSUME ServerInv,
         \/ Drained \/ HandleNext \/ AllIdle \/ PrepareNothing \/ PutOff \/ NothingToDecode
         \/ FinishNothing \/ StopWait \/ FallAsleep \/ WakeUp
  PROVE  ServerInv'
<1>1. /\ ServerTypeOK /\ PromptsAreLeft /\ LoopComesBack
      /\ (At("wait") /\ tasks.queue = <<>> => Busy = {})
  <2>1. tasks.queue = <<>> => NextResponse \notin Range(tasks.queue)
    BY EmptyRange
  <2> QED BY <2>1 DEF ServerInv, LoopComesBack, At
<1>2. /\ UNCHANGED <<tasks, waiting, results, reader, slot>>
      /\ sleep' \in [sleeping : BOOLEAN, wake : BOOLEAN]
      /\ \/ \E pc \in {"drain", "update", "wait", "sleep"} : Goto(pc) /\ main.pc # "handle"
         \/ HandleNext
         \/ \E next \in {"decode", "wait"} : Advance(next) /\ main.pc \in {"prepare", "finish"}
  <2>1. sleep \in [sleeping : BOOLEAN, wake : BOOLEAN]
    BY <1>1 DEF ServerTypeOK, QueueTypeOK
  <2>2. CASE FallAsleep \/ WakeUp
    <3>1. /\ UNCHANGED <<tasks, waiting, results, reader, slot>>
          /\ Goto("sleep") \/ Goto("drain")
          /\ main.pc # "handle"
      BY <2>2 DEF FallAsleep, WakeUp, At
    <3>2. sleep' \in [sleeping : BOOLEAN, wake : BOOLEAN]
      <4>1. [sleeping |-> TRUE, wake |-> FALSE] \in [sleeping : BOOLEAN, wake : BOOLEAN]
        OBVIOUS
      <4>2. [sleeping |-> FALSE, wake |-> FALSE] \in [sleeping : BOOLEAN, wake : BOOLEAN]
        OBVIOUS
      <4> QED BY <2>2, <4>1, <4>2, Zenon DEF FallAsleep, WakeUp
    <3> QED BY <3>1, <3>2
  <2>3. CASE HandleNext \/ Drained \/ AllIdle \/ NothingToDecode \/ StopWait
    BY <2>1, <2>3 DEF HandleNext, Drained, AllIdle, NothingToDecode, StopWait, queueVars, At
  <2>4. CASE PrepareNothing \/ PutOff \/ FinishNothing
    BY <2>1, <2>4 DEF PrepareNothing, PutOff, FinishNothing, queueVars, At
  <2> QED BY <2>2, <2>3, <2>4
<1>3. /\ main' \in [pc : {"drain", "handle", "update", "prepare", "decode", "finish",
                          "wait", "sleep"}, at : Slots, job : Jobs]
      /\ InHand' = {} /\ main'.pc # "handle"
  BY <1>1, <1>2, GotoFacts, AdvanceFacts DEF HandleNext
<1>4. InHand = {}
  <2>1. \A t : RunJob(t).type # "next"
    BY JobFacts
  <2> QED BY <1>2, <2>1 DEF HandleNext, InHand, HandlesTask, At
<1>5. ServerTypeOK'
  BY <1>1, <1>2, <1>3 DEF ServerTypeOK, QueueTypeOK
<1>6. PromptsAreLeft'
  BY <1>1, <1>2 DEF PromptsAreLeft
<1>7. LoopComesBack'
  <2>1. Busy' = Busy
    BY <1>2 DEF Busy, Idle
  <2>2. CASE Drained \/ HandleNext \/ StopWait \/ WakeUp
    <3>1. main'.pc \in {"drain", "update"}
      BY <1>1, <2>2, GotoFacts DEF Drained, HandleNext, StopWait, WakeUp
    <3> QED BY <3>1 DEF LoopComesBack
  <2>3. CASE AllIdle \/ FallAsleep
    <3>1. main'.pc \in {"wait", "sleep"} /\ Busy = {}
      BY <1>1, <2>3, GotoFacts DEF AllIdle, FallAsleep
    <3> QED BY <2>1, <3>1 DEF LoopComesBack
  <2>4. CASE PrepareNothing \/ PutOff \/ FinishNothing \/ NothingToDecode
    <3>1. main.pc \in {"prepare", "decode", "finish"} /\ main'.pc \in {"prepare", "decode", "finish", "wait"}
      BY <1>1, <2>4, GotoFacts, AdvanceFacts DEF PrepareNothing, PutOff, FinishNothing, NothingToDecode, At
    <3>2. NextResponse \in Range(tasks'.queue)
      BY <1>1, <1>2, <3>1 DEF LoopComesBack
    <3> QED BY <3>1, <3>2 DEF LoopComesBack
  <2> QED BY <2>2, <2>3, <2>4
<1> QED BY <1>2, <1>3, <1>4, <1>5, <1>6, <1>7, SlotWork

LEMMA ProgressSteps ==
  ASSUME ServerInv, LeaveOut \/ PreparePrompt \/ Decode \/ Sample \/ Skip
  PROVE  ServerInv'
<1>1. ServerTypeOK /\ PromptsAreLeft /\ LoopComesBack
  BY DEF ServerInv
<1>2. UNCHANGED <<tasks, waiting, results, sleep, reader>>
  BY DEF LeaveOut, PreparePrompt, Decode, Sample, Skip, queueVars
<1>3. /\ main.pc \in {"prepare", "decode", "finish"}
      /\ main' \in [pc : {"drain", "handle", "update", "prepare", "decode", "finish",
                          "wait", "sleep"}, at : Slots, job : Jobs]
      /\ main'.pc \in {"prepare", "decode", "finish", "wait"} /\ InHand' = {}
  BY <1>1, GotoFacts, AdvanceFacts DEF LeaveOut, PreparePrompt, Decode, Sample, Skip, At
<1>4. InHand = {}
  BY <1>3 DEF InHand, HandlesTask, At
<1>5. NextResponse \in Range(tasks'.queue)
  BY <1>1, <1>2, <1>3 DEF LoopComesBack
<1>6. LoopComesBack'
  BY <1>3, <1>5 DEF LoopComesBack
<1> DEFINE States == {"idle", "wait", "prompt", "done", "generating", "skipped"}
<1>7. \A s \in Slots : /\ slot[s] \in [task : Tasks \cup {NoTask}, state : States,
                                       left : 0..MaxChunks, tokens : 0..MaxTokens]
                       /\ slot[s].state = "idle" <=> slot[s].task = NoTask
                       /\ slot[s].state = "prompt" => slot[s].left > 0
  BY <1>1 DEF ServerTypeOK, PromptsAreLeft
<1>8. MaxChunks \in Nat /\ MaxTokens \in Nat
  BY ServerAssumption
<1>9. /\ slot' \in [Slots -> [task : Tasks \cup {NoTask}, state : States,
                              left : 0..MaxChunks, tokens : 0..MaxTokens]]
      /\ \A s \in Slots : /\ slot'[s].task = slot[s].task
                          /\ slot'[s].state = "idle" <=> slot[s].state = "idle"
                          /\ slot'[s].state = "prompt" => slot'[s].left > 0
  <2>0. main.at \in Slots /\ DOMAIN slot = Slots
    BY <1>1 DEF ServerTypeOK
  <2>1. CASE PreparePrompt
    <3> DEFINE x == [Here EXCEPT !.left = @ - 1, !.state = IF Here.left = 1 THEN "done" ELSE @]
    <3>1. slot' = [slot EXCEPT ![main.at] = x] /\ Here.state = "prompt"
      BY <2>1 DEF PreparePrompt, SlotBecomes
    <3>2. /\ Here \in [task : Tasks \cup {NoTask}, state : States,
                       left : 0..MaxChunks, tokens : 0..MaxTokens]
          /\ Here.left > 0
      BY <1>7, <2>0, <3>1 DEF Here
    <3>3. /\ x \in [task : Tasks \cup {NoTask}, state : States,
                    left : 0..MaxChunks, tokens : 0..MaxTokens]
          /\ x.task = Here.task /\ x.state # "idle" /\ (x.state = "prompt" => x.left > 0)
      <4>1. /\ Here.left - 1 \in 0..MaxChunks /\ (Here.left # 1 => Here.left - 1 > 0)
            /\ (IF Here.left = 1 THEN "done" ELSE Here.state) \in States
        BY <1>8, <3>1, <3>2
      <4>2. x = [Here EXCEPT !.left = Here.left - 1,
                             !.state = IF Here.left = 1 THEN "done" ELSE Here.state]
        OBVIOUS
      <4> HIDE DEF x, States
      <4>3. /\ x \in [task : Tasks \cup {NoTask}, state : States,
                       left : 0..MaxChunks, tokens : 0..MaxTokens]
            /\ x.task = Here.task /\ x.left = Here.left - 1
            /\ x.state = IF Here.left = 1 THEN "done" ELSE Here.state
        BY <3>2, <4>1, <4>2, SlotRecord
      <4> QED BY <3>1, <4>1, <4>3
    <3> HIDE DEF x, States
    <3> QED BY <1>7, <2>0, <3>1, <3>3 DEF Here
  <2>2. CASE Decode
    <3>1. ASSUME NEW s \in Slots
          PROVE  slot'[s] = slot[s] \/ (slot[s].state = "wait" /\ slot'[s] = [slot[s] EXCEPT !.state = "done"])
      BY <2>2 DEF Decode
    <3>2. slot' = [s \in Slots |-> slot'[s]]
      BY <2>2 DEF Decode
    <3> QED BY <1>7, <3>1, <3>2
  <2>3. CASE Sample
    <3> DEFINE x == [Here EXCEPT !.state = "generating", !.tokens = @ + 1]
    <3>1. /\ slot' = [slot EXCEPT ![main.at] = x] /\ Here.state \in {"done", "generating"}
          /\ Here.tokens + 1 < MaxTokens
      BY <2>3 DEF Sample, SlotBecomes
    <3>2. Here \in [task : Tasks \cup {NoTask}, state : States,
                    left : 0..MaxChunks, tokens : 0..MaxTokens]
      BY <1>7, <2>0 DEF Here
    <3>3. /\ x \in [task : Tasks \cup {NoTask}, state : States,
                    left : 0..MaxChunks, tokens : 0..MaxTokens]
          /\ x.task = Here.task /\ x.state = "generating"
      <4>1. Here.tokens + 1 \in 0..MaxTokens /\ "generating" \in States
        BY <1>8, <3>1, <3>2
      <4>2. x = [Here EXCEPT !.state = "generating", !.tokens = Here.tokens + 1]
        OBVIOUS
      <4> HIDE DEF x, States
      <4> QED BY <3>2, <4>1, <4>2, SlotRecord
    <3> HIDE DEF x, States
    <3> QED BY <1>7, <2>0, <3>1, <3>3 DEF Here
  <2>4. ASSUME NEW state \in {"generating", "skipped"}, Here.state \in {"generating", "skipped"},
               SlotBecomes([Here EXCEPT !.state = state])
        PROVE  /\ slot' \in [Slots -> [task : Tasks \cup {NoTask}, state : States,
                                       left : 0..MaxChunks, tokens : 0..MaxTokens]]
               /\ \A s \in Slots : /\ slot'[s].task = slot[s].task
                                   /\ slot'[s].state = "idle" <=> slot[s].state = "idle"
                                   /\ slot'[s].state = "prompt" => slot'[s].left > 0
    <3> DEFINE x == [Here EXCEPT !.state = state]
    <3>1. Here \in [task : Tasks \cup {NoTask}, state : States,
                    left : 0..MaxChunks, tokens : 0..MaxTokens]
      BY <1>7, <2>0 DEF Here
    <3>2. /\ x \in [task : Tasks \cup {NoTask}, state : States,
                    left : 0..MaxChunks, tokens : 0..MaxTokens]
          /\ x.task = Here.task /\ x.state = state
      BY <3>1
    <3>3. slot' = [slot EXCEPT ![main.at] = x]
      BY <2>4 DEF SlotBecomes
    <3> HIDE DEF x, States
    <3> QED BY <1>7, <2>0, <2>4, <3>2, <3>3 DEF Here
  <2>5. CASE LeaveOut \/ Skip
    BY <2>4, <2>5 DEF LeaveOut, Skip
  <2> QED BY <2>1, <2>2, <2>3, <2>5
<1>10. ServerTypeOK'
  BY <1>1, <1>2, <1>3, <1>7, <1>9 DEF ServerTypeOK, QueueTypeOK
<1>11. PromptsAreLeft'
  BY <1>9 DEF PromptsAreLeft
<1> QED BY <1>2, <1>3, <1>4, <1>6, <1>9, <1>10, <1>11, SlotWork

\* The head job leaves the queue.
LEMMA TailJobs ==
  ASSUME NEW s \in Seq(Jobs), RunsOnce(s), s # <<>>
  PROVE  /\ Head(s) \in Jobs /\ Tail(s) \in Seq(Jobs) /\ RunsOnce(Tail(s))
         /\ Range(s) = {Head(s)} \cup Range(Tail(s))
         /\ Head(s).type = "run" => Head(s) \notin Range(Tail(s))
<1>1. /\ Head(s) \in Jobs /\ Tail(s) \in Seq(Jobs)
      /\ Range(s) = {Head(s)} \cup Range(Tail(s))
  BY TailRange
<1>2. /\ Len(s) \in Nat /\ Len(s) > 0 /\ Head(s) = s[1] /\ DOMAIN s = 1..Len(s)
      /\ DOMAIN Tail(s) = 1..(Len(s) - 1)
      /\ \A i \in 1..(Len(s) - 1) : Tail(s)[i] = s[i + 1] /\ i + 1 \in 1..Len(s) /\ i + 1 # 1
  <2>1. Len(s) \in Nat /\ Len(s) > 0 /\ Head(s) = s[1] /\ DOMAIN s = 1..Len(s)
        /\ DOMAIN Tail(s) = 1..(Len(s) - 1)
    OBVIOUS
  <2>2. \A i \in 1..(Len(s) - 1) : Tail(s)[i] = s[i + 1] /\ i + 1 \in 1..Len(s) /\ i + 1 # 1
    BY <2>1
  <2> QED BY <2>1, <2>2
<1>3. RunsOnce(Tail(s))
  <2>1. SUFFICES ASSUME NEW i \in DOMAIN Tail(s), NEW j \in DOMAIN Tail(s),
                        Tail(s)[i] = Tail(s)[j], Tail(s)[i].type = "run"
                 PROVE  i = j
    BY DEF RunsOnce
  <2>2. i + 1 = j + 1
    BY <1>2, <2>1 DEF RunsOnce
  <2> QED BY <1>2, <2>2
<1>4. ASSUME Head(s).type = "run"
      PROVE  Head(s) \notin Range(Tail(s))
  <2>1. 1 \in DOMAIN s /\ s[1].type = "run"
    BY <1>2, <1>4
  <2>2. \A i \in DOMAIN Tail(s) : Tail(s)[i] # s[1]
    BY <1>2, <2>1 DEF RunsOnce
  <2> QED BY <1>2, <2>2 DEF Range
<1> QED BY <1>1, <1>3, <1>4

LEMMA QueueUpdates ==
  ASSUME NEW q \in Queues
  PROVE  /\ q.queue \in Seq(Jobs) /\ q.deferred \in Seq(Tasks)
         /\ \A s \in Seq(Jobs) : LET p == [q EXCEPT !.queue = s]
                                 IN  p \in Queues /\ p.queue = s /\ p.deferred = q.deferred
         /\ \A s \in Seq(Tasks) : LET p == [q EXCEPT !.deferred = s]
                                  IN  p \in Queues /\ p.queue = q.queue /\ p.deferred = s
BY DEF Queues

\* The job in hand has left the queue.
LEMMA TakeTaskStep ==
  ASSUME ServerInv, TakeTask
  PROVE  ServerInv'
<1>1. /\ ServerTypeOK /\ PromptsAreLeft /\ InOnePlace /\ Once(tasks)
  BY DEF ServerInv, InOnePlace
<1>2. /\ main' = [main EXCEPT !.pc = "handle", !.job = Head(tasks.queue)]
      /\ main.pc = "drain" /\ tasks.queue # <<>>
      /\ tasks' = [tasks EXCEPT !.queue = Tail(tasks.queue)]
      /\ UNCHANGED <<waiting, results, sleep, reader, slot>>
  BY DEF TakeTask, At
<1>3. tasks \in Queues /\ tasks.queue \in Seq(Jobs)
  BY <1>1 DEF ServerTypeOK, QueueTypeOK, Queues
<1> DEFINE job == Head(tasks.queue)
<1>4. /\ job \in Jobs /\ Tail(tasks.queue) \in Seq(Jobs)
      /\ RunsOnce(Tail(tasks.queue))
      /\ Range(tasks.queue) = {job} \cup Range(Tail(tasks.queue))
      /\ job.type = "run" => job \notin Range(Tail(tasks.queue))
  BY <1>1, <1>2, <1>3, TailJobs DEF Once
<1> HIDE DEF job
<1>5. tasks' \in Queues /\ tasks'.queue = Tail(tasks.queue) /\ tasks'.deferred = tasks.deferred
  BY <1>2, <1>3, <1>4, QueueUpdates
<1>6. /\ main' \in [pc : {"drain", "handle", "update", "prepare", "decode", "finish",
                          "wait", "sleep"}, at : Slots, job : Jobs]
      /\ main'.pc = "handle" /\ main'.job = job
  BY <1>1, <1>2, <1>4 DEF ServerTypeOK, job
<1>7. InHand = {} /\ InHand' = {t \in Tasks : job = RunJob(t)}
  BY <1>2, <1>6 DEF InHand, HandlesTask, At
<1>8. \A t \in Tasks : job = RunJob(t) => job.type = "run"
  BY JobFacts
<1>9. Runs(tasks) = Runs(tasks') \cup InHand' /\ Runs(tasks') \cap InHand' = {}
  BY <1>4, <1>5, <1>7, <1>8 DEF Runs
<1>10. /\ Listed(tasks') \cap InHand' = {} /\ Listed(tasks') \cup InHand' = Listed(tasks)
       /\ Once(tasks')
  BY <1>1, <1>4, <1>5, <1>9 DEF Once, Listed
<1>11. Pending' = Pending
  BY <1>7, <1>10 DEF Pending
<1>12. ServerTypeOK' /\ PromptsAreLeft' /\ LoopComesBack'
  <2>1. QueueTypeOK'
    BY <1>1, <1>2, <1>5 DEF ServerTypeOK, QueueTypeOK, Queues
  <2> QED BY <1>1, <1>2, <1>6, <2>1 DEF ServerTypeOK, PromptsAreLeft, LoopComesBack
<1>13. Range(tasks'.queue) \subseteq Range(tasks.queue) /\ main'.job \in Range(tasks.queue)
  BY <1>4, <1>5, <1>6
<1> QED BY <1>2, <1>10, <1>11, <1>12, <1>13, MainStays

\* The job that asks the loop to come back is no task.
LEMMA StartUpdateStep ==
  ASSUME ServerInv, StartUpdate
  PROVE  ServerInv'
<1>1. /\ ServerTypeOK /\ PromptsAreLeft /\ InOnePlace /\ Once(tasks)
  BY DEF ServerInv, InOnePlace
<1>2. /\ Goto("prepare") /\ main.pc = "update"
      /\ tasks' = [tasks EXCEPT !.queue = tasks.queue \o <<NextResponse>>]
      /\ UNCHANGED <<waiting, results, sleep, reader, slot>>
  BY DEF StartUpdate, At, PostBack
<1>3. tasks \in Queues /\ tasks.queue \in Seq(Jobs) /\ RunsOnce(tasks.queue)
  BY <1>1 DEF ServerTypeOK, QueueTypeOK, Queues, Once
<1>4. /\ <<NextResponse>> \in Seq(Jobs) /\ Range(<<NextResponse>>) = {NextResponse}
      /\ RunsOnce(<<NextResponse>>) /\ NextResponse.type = "next"
  BY JobFacts, FrontFacts
<1> DEFINE s == tasks.queue \o <<NextResponse>>
<1>5. s \in Seq(Jobs) /\ RunsOnce(s) /\ Range(s) = Range(tasks.queue) \cup {NextResponse}
  BY <1>3, <1>4, ConcatOnce
<1> HIDE DEF s
<1>6. tasks' \in Queues /\ tasks'.queue = s /\ tasks'.deferred = tasks.deferred
  BY <1>2, <1>3, <1>5, QueueUpdates DEF s
<1>7. /\ main' \in [pc : {"drain", "handle", "update", "prepare", "decode", "finish",
                          "wait", "sleep"}, at : Slots, job : Jobs]
      /\ main'.pc = "prepare" /\ InHand' = {}
  BY <1>1, <1>2, GotoFacts
<1>8. InHand = {}
  BY <1>2 DEF InHand, HandlesTask, At
<1>9. Runs(tasks') = Runs(tasks)
  BY <1>5, <1>6, JobFacts DEF Runs
<1>10. Pending' = Pending /\ Once(tasks')
  BY <1>1, <1>5, <1>6, <1>7, <1>8, <1>9 DEF Pending, Listed, Once
<1>11. ServerTypeOK' /\ PromptsAreLeft' /\ LoopComesBack'
  <2>1. QueueTypeOK'
    BY <1>1, <1>2, <1>6 DEF ServerTypeOK, QueueTypeOK, Queues
  <2>2. NextResponse \in Range(tasks'.queue)
    BY <1>5, <1>6
  <2> QED BY <1>1, <1>2, <1>7, <2>1, <2>2 DEF ServerTypeOK, PromptsAreLeft, LoopComesBack
<1>12. \A x \in Range(tasks'.queue) : x.type = "cancel" => x \in Range(tasks.queue)
  BY <1>4, <1>5, <1>6
<1> QED BY <1>2, <1>7, <1>10, <1>11, <1>12, MainStays

\* A task that does not fit goes from the hand to the deferred ones.
LEMMA DeferStep ==
  ASSUME ServerInv, NEW t \in Tasks, DeferTask(t)
  PROVE  ServerInv'
<1>1. /\ ServerTypeOK /\ PromptsAreLeft /\ InOnePlace /\ Once(tasks)
      /\ Listed(tasks) \cap InHand = {}
  BY DEF ServerInv, InOnePlace
<1>2. /\ Goto("drain") /\ main.pc = "handle" /\ main.job = RunJob(t)
      /\ tasks' = [tasks EXCEPT !.deferred = Append(tasks.deferred, t)]
      /\ UNCHANGED <<waiting, results, sleep, reader, slot>>
  BY DEF DeferTask, HandlesTask, At, Defer
<1>3. InHand = {t}
  BY <1>2, JobFacts DEF InHand, HandlesTask, At
<1>4. tasks \in Queues /\ tasks.queue \in Seq(Jobs) /\ tasks.deferred \in Seq(Tasks)
  BY <1>1 DEF ServerTypeOK, QueueTypeOK, Queues
<1> DEFINE s == Append(tasks.deferred, t)
<1>5. /\ s \in Seq(Tasks) /\ Range(s) = Range(tasks.deferred) \cup {t} /\ IsInjective(s)
      /\ t \notin Range(tasks.deferred) /\ t \notin Runs(tasks)
  <2>1. t \notin Range(tasks.deferred) /\ t \notin Runs(tasks) /\ IsInjective(tasks.deferred)
    BY <1>1, <1>3 DEF Listed, Once
  <2> QED BY <1>4, <2>1, AppendRange, AppendNew
<1> HIDE DEF s
<1>6. tasks' \in Queues /\ tasks'.queue = tasks.queue /\ tasks'.deferred = s
  BY <1>2, <1>4, <1>5, QueueUpdates DEF s
<1>7. /\ main' \in [pc : {"drain", "handle", "update", "prepare", "decode", "finish",
                          "wait", "sleep"}, at : Slots, job : Jobs]
      /\ main'.pc = "drain" /\ InHand' = {}
  BY <1>1, <1>2, GotoFacts
<1>8. Runs(tasks') = Runs(tasks)
  BY <1>6 DEF Runs
<1>9. Pending' = Pending /\ Once(tasks')
  BY <1>1, <1>3, <1>5, <1>6, <1>7, <1>8 DEF Pending, Listed, Once
<1>10. ServerTypeOK' /\ PromptsAreLeft' /\ LoopComesBack'
  <2>1. QueueTypeOK'
    BY <1>1, <1>2, <1>6 DEF ServerTypeOK, QueueTypeOK, Queues
  <2> QED BY <1>1, <1>2, <1>7, <2>1 DEF ServerTypeOK, PromptsAreLeft, LoopComesBack
<1> QED BY <1>2, <1>6, <1>7, <1>9, <1>10, MainStays

\* A result is appended if somebody waits for it.
LEMMA SendFacts ==
  ASSUME ServerTypeOK, ResultsOnce, NEW t \in Tasks, t \notin Answered,
         NEW kind \in {"final", "error"}, results' = Send(results, t, kind)
  PROVE  /\ results' \in Seq([task : Tasks, kind : {"final", "error"}])
         /\ ResultsOnce' /\ Answered' = Answered \cup ({t} \cap waiting)
         /\ \A i \in DOMAIN results : i \in DOMAIN results' /\ results'[i] = results[i]
         /\ t \in waiting => \E i \in DOMAIN results' : results'[i] = Result(t, kind)
<1>1. results \in Seq([task : Tasks, kind : {"final", "error"}])
  BY DEF ServerTypeOK, QueueTypeOK
<1>2. CASE t \notin waiting
  <2>1. results' = results
    BY <1>2 DEF Send
  <2> QED BY <1>1, <1>2, <2>1 DEF ResultsOnce, Answered
<1>3. CASE t \in waiting
  <2>1. results' = Append(results, Result(t, kind))
    BY <1>3 DEF Send
  <2>2. /\ Result(t, kind) \in [task : Tasks, kind : {"final", "error"}]
        /\ Result(t, kind).task = t
    BY DEF Result
  <2>3. /\ Len(results) \in Nat /\ DOMAIN results = 1..Len(results)
        /\ DOMAIN results' = 1..(Len(results) + 1)
        /\ \A i \in 1..Len(results) : results'[i] = results[i]
        /\ results'[Len(results) + 1] = Result(t, kind)
        /\ results' \in Seq([task : Tasks, kind : {"final", "error"}])
    BY <1>1, <2>1, <2>2
  <2>4. ASSUME NEW i \in DOMAIN results'
        PROVE  \/ i \in DOMAIN results /\ results'[i] = results[i] /\ results'[i].task # t
               \/ i = Len(results) + 1 /\ results'[i].task = t
    <3>1. \A k \in DOMAIN results : results[k].task # t
      BY <2>3 DEF Answered
    <3> QED BY <2>2, <2>3, <3>1
  <2>5. ResultsOnce'
    BY <2>4 DEF ResultsOnce
  <2>6. Answered' = Answered \cup {t}
    <3>1. \A i \in DOMAIN results : i \in DOMAIN results' /\ results'[i] = results[i]
      BY <2>3
    <3>2. Len(results) + 1 \in DOMAIN results' /\ results'[Len(results) + 1].task = t
      BY <2>2, <2>3
    <3> QED BY <2>4, <3>1, <3>2 DEF Answered
  <2>7. /\ \A i \in DOMAIN results : i \in DOMAIN results' /\ results'[i] = results[i]
        /\ \E i \in DOMAIN results' : results'[i] = Result(t, kind)
    BY <2>3
  <2> QED BY <1>3, <2>3, <2>5, <2>6, <2>7
<1> QED BY <1>2, <1>3

\* A slot is released.
LEMMA ReleaseFacts ==
  ASSUME ServerTypeOK, SlotsOnce, PromptsAreLeft, NEW s \in Slots, NEW t \in Tasks,
         slot[s].task = t, slot' = [slot EXCEPT ![s] = IdleSlot]
  PROVE  /\ slot' \in [Slots -> [task : Tasks \cup {NoTask},
                                 state : {"idle", "wait", "prompt", "done", "generating", "skipped"},
                                 left : 0..MaxChunks, tokens : 0..MaxTokens]]
         /\ \A x \in Slots : slot'[x].state = "idle" <=> slot'[x].task = NoTask
         /\ SlotsOnce' /\ PromptsAreLeft' /\ OnSlot' = OnSlot \ {t} /\ t \in OnSlot
         /\ Busy' \subseteq Busy
<1>1. MaxChunks \in Nat /\ MaxTokens \in Nat /\ NoTask \notin Tasks
  BY ServerAssumption
<1>2. /\ IdleSlot \in [task : Tasks \cup {NoTask},
                       state : {"idle", "wait", "prompt", "done", "generating", "skipped"},
                       left : 0..MaxChunks, tokens : 0..MaxTokens]
      /\ IdleSlot.task = NoTask /\ IdleSlot.state = "idle"
  BY <1>1 DEF IdleSlot
<1>3. /\ slot' \in [Slots -> [task : Tasks \cup {NoTask},
                              state : {"idle", "wait", "prompt", "done", "generating", "skipped"},
                              left : 0..MaxChunks, tokens : 0..MaxTokens]]
      /\ slot'[s] = IdleSlot /\ \A x \in Slots : x # s => slot'[x] = slot[x]
  BY <1>2 DEF ServerTypeOK
<1>4. \A x \in Slots : slot'[x].state = "idle" <=> slot'[x].task = NoTask
  BY <1>2, <1>3 DEF ServerTypeOK
<1>5. \A x \in Slots : slot[x].task = t => x = s
  BY <1>1 DEF SlotsOnce
<1>6. SlotsOnce'
  BY <1>2, <1>3 DEF SlotsOnce
<1>7. OnSlot' = OnSlot \ {t} /\ t \in OnSlot
  BY <1>1, <1>2, <1>3, <1>5 DEF OnSlot
<1>8. PromptsAreLeft'
  BY <1>2, <1>3 DEF PromptsAreLeft
<1>9. Busy' \subseteq Busy
  BY <1>2, <1>3 DEF Busy, Idle
<1> QED BY <1>3, <1>4, <1>6, <1>7, <1>8, <1>9

\* The task of a released slot is answered, or nobody reads its answer.
LEMMA Released ==
  ASSUME ServerInv, NEW s \in Slots, NEW t \in Tasks, slot[s].task = t,
         slot' = [slot EXCEPT ![s] = IdleSlot], tasks' = PopDeferred(tasks, s),
         UNCHANGED <<waiting, sleep, reader>>, InHand = {}, InHand' = {},
         main' \in [pc : {"drain", "handle", "update", "prepare", "decode", "finish",
                          "wait", "sleep"}, at : Slots, job : Jobs],
         main'.pc \in {"drain", "prepare", "decode", "finish", "wait"},
         main'.pc # "drain" => NextResponse \in Range(tasks.queue),
         \/ \E kind \in {"final", "error"} : results' = Send(results, t, kind)
         \/ results' = results /\ \A r \in Requests : reader[r].pc = "reading" => t \notin IdsOf[r]
  PROVE  ServerInv'
<1>1. /\ ServerTypeOK /\ PromptsAreLeft /\ InOnePlace /\ Once(tasks) /\ SlotsOnce
      /\ ResultsOnce /\ ReadersAgree
  BY DEF ServerInv, InOnePlace
<1>2. /\ slot' \in [Slots -> [task : Tasks \cup {NoTask},
                              state : {"idle", "wait", "prompt", "done", "generating", "skipped"},
                              left : 0..MaxChunks, tokens : 0..MaxTokens]]
      /\ \A x \in Slots : slot'[x].state = "idle" <=> slot'[x].task = NoTask
      /\ SlotsOnce' /\ PromptsAreLeft' /\ OnSlot' = OnSlot \ {t} /\ t \in OnSlot
  BY <1>1, ReleaseFacts
<1>3. tasks \in Queues
  BY <1>1 DEF ServerTypeOK, QueueTypeOK, Queues
<1>4. /\ tasks' \in Queues /\ Once(tasks') /\ Listed(tasks') = Listed(tasks)
      /\ Range(tasks.queue) \subseteq Range(tasks'.queue)
      /\ \A x \in Range(tasks'.queue) : x.type = "run" \/ x \in Range(tasks.queue)
  BY <1>1, <1>3, PopFacts
<1>5. Pending' = Pending /\ Familiar(Pending)' = Familiar(Pending)
  <2>1. Pending' = Pending
    BY <1>4 DEF Pending
  <2> QED BY <2>1 DEF Familiar
<1>6. /\ Familiar(Pending) \cap (OnSlot \cup Answered) = {} /\ OnSlot \cap Answered = {}
      /\ t \notin Answered
  BY <1>1, <1>2 DEF InOnePlace
<1>7. /\ results' \in Seq([task : Tasks, kind : {"final", "error"}]) /\ ResultsOnce'
      /\ \A i \in DOMAIN results : i \in DOMAIN results' /\ results'[i] = results[i]
      /\ \/ Answered' = Answered \cup ({t} \cap waiting)
         \/ /\ Answered' = Answered
            /\ \A r \in Requests : reader[r].pc = "reading" => t \notin IdsOf[r]
  <2>1. CASE \E kind \in {"final", "error"} : results' = Send(results, t, kind)
    BY <1>1, <1>6, <2>1, SendFacts
  <2>2. CASE results' = results /\ \A r \in Requests : reader[r].pc = "reading" => t \notin IdsOf[r]
    BY <1>1, <2>2 DEF ServerTypeOK, QueueTypeOK, ResultsOnce, Answered
  <2> QED BY <2>1, <2>2
<1>8. ServerTypeOK' /\ LoopComesBack'
  <2>1. QueueTypeOK'
    BY <1>1, <1>4, <1>7 DEF ServerTypeOK, QueueTypeOK, Queues
  <2>2. main'.pc # "drain" => NextResponse \in Range(tasks'.queue)
    BY <1>4
  <2> QED BY <1>2, <2>1, <2>2 DEF ServerTypeOK, LoopComesBack
<1>9. ASSUME NEW r \in Requests, reader[r].pc = "reading"
      PROVE  IdsOf[r] \cap Live \subseteq Live'
  <2>1. IdsOf[r] \subseteq waiting
    BY <1>1, <1>9 DEF ReadersAgree, ReaderAgrees
  <2> QED BY <1>2, <1>5, <1>7, <1>9, <2>1 DEF Live
<1>10. Live' \subseteq Live
  BY <1>2, <1>5, <1>7 DEF Live
<1>11. /\ Familiar(Pending)' \cap (OnSlot' \cup Answered') = {} /\ OnSlot' \cap Answered' = {}
  BY <1>2, <1>5, <1>6, <1>7
<1>12. \A x \in Range(tasks'.queue) : x.type = "cancel" => x \in Range(tasks.queue)
  BY <1>4
<1>13. Listed(tasks') \cap InHand' = {} /\ Answered' \subseteq Answered \cup waiting
  BY <1>7
<1> QED BY <1>2, <1>4, <1>5, <1>7, <1>8, <1>9, <1>10, <1>11, <1>12, <1>13, MainMove

\* A cancelled task that runs has a reader that is through.
LEMMA HandleCancelStep ==
  ASSUME ServerInv, HandleCancel
  PROVE  ServerInv'
<1> DEFINE held == {s \in Slots : slot[s].task = main.job.task}
<1>1. /\ ServerTypeOK /\ PromptsAreLeft /\ InOnePlace /\ Once(tasks) /\ SlotsOnce
      /\ CancelsAreLate
  BY DEF ServerInv, InOnePlace
<1>2. /\ main.pc = "handle" /\ main.job.type = "cancel" /\ Goto("drain")
      /\ UNCHANGED <<waiting, results, sleep, reader>>
      /\ IF held = {} THEN UNCHANGED <<tasks, slot>>
         ELSE /\ slot' = [slot EXCEPT ![Min(held)] = IdleSlot]
              /\ tasks' = PopDeferred(tasks, Min(held))
  BY DEF HandleCancel, At
<1>3. /\ main' \in [pc : {"drain", "handle", "update", "prepare", "decode", "finish",
                          "wait", "sleep"}, at : Slots, job : Jobs]
      /\ main'.pc = "drain" /\ InHand' = {}
  BY <1>1, <1>2, GotoFacts
<1>4. InHand = {}
  BY <1>2, JobFacts DEF InHand, HandlesTask, At
<1>5. PICK t \in Tasks : main.job = CancelJob(t) /\ main.job.task = t
  <2>1. main.job \in Jobs
    BY <1>1 DEF ServerTypeOK
  <2> QED BY <1>2, <2>1, JobFacts
<1>6. CASE held = {}
  <2>1. ServerTypeOK' /\ PromptsAreLeft' /\ LoopComesBack'
    BY <1>1, <1>2, <1>3, <1>6 DEF ServerTypeOK, QueueTypeOK, PromptsAreLeft, LoopComesBack
  <2> QED BY <1>2, <1>3, <1>4, <1>6, <2>1, SlotWork
<1>7. CASE held # {}
  <2>1. Min(held) \in held
    <3>1. held \in SUBSET Nat
      BY DEF Slots
    <3> QED BY <1>7, <3>1, LeastIsThere
  <2>2. PICK s \in Slots : s = Min(held) /\ slot[s].task = t
    BY <1>5, <2>1
  <2> HIDE DEF held
  <2>3. \A r \in Requests : reader[r].pc = "reading" => t \notin IdsOf[r]
    <3>1. \A r \in Requests : t \in IdsOf[r] => reader[r].pc = "done"
      BY <1>1, <1>2, <1>5 DEF CancelsAreLate, At, ReaderAt
    <3> QED BY <3>1
  <2> QED BY <1>2, <1>3, <1>4, <1>7, <2>2, <2>3, Released
<1> QED BY <1>6, <1>7

LEMMA AnswerStep ==
  ASSUME ServerInv, NEW kind \in {"final", "error"}, PrepareEnds(kind) \/ FinishEnds(kind)
  PROVE  ServerInv'
<1> DEFINE t == slot[main.at].task
<1>1. ServerTypeOK /\ LoopComesBack /\ main.at \in Slots
  BY DEF ServerInv, ServerTypeOK
<1>2. /\ main.pc \in {"prepare", "finish"} /\ slot[main.at].state # "idle"
      /\ AnswerHere(kind) /\ \E next \in {"decode", "wait"} : Advance(next)
  BY DEF PrepareEnds, FinishEnds, At, Here
<1>3. /\ results' = Send(results, t, kind)
      /\ slot' = [slot EXCEPT ![main.at] = IdleSlot] /\ tasks' = PopDeferred(tasks, main.at)
      /\ UNCHANGED <<waiting, sleep, reader>>
  BY <1>2 DEF AnswerHere, Here, SlotBecomes
<1>4. t \in Tasks
  BY <1>1, <1>2 DEF ServerTypeOK
<1>5. /\ main' \in [pc : {"drain", "handle", "update", "prepare", "decode", "finish",
                          "wait", "sleep"}, at : Slots, job : Jobs]
      /\ main'.pc \in {"prepare", "decode", "finish", "wait"} /\ InHand' = {}
  BY <1>1, <1>2, AdvanceFacts
<1>6. InHand = {} /\ NextResponse \in Range(tasks.queue)
  BY <1>1, <1>2 DEF InHand, HandlesTask, At, LoopComesBack
<1> QED BY <1>1, <1>3, <1>4, <1>5, <1>6, Released

LEMMA SlotsAreFinite ==
  /\ IsFiniteSet(Slots) /\ Slots \subseteq Int
  /\ \A I \in SUBSET Slots : IsFiniteSet(I) /\ I \in SUBSET Int
<1>1. Slots = 1..SlotCount /\ SlotCount \in Nat
  BY QueueAssumption DEF Slots
<1>2. IsFiniteSet(Slots) /\ Slots \subseteq Int
  BY <1>1, FS_Interval
<1> QED BY <1>2, FS_Subset

\* All slots are answered and released.
LEMMA AbortStep ==
  ASSUME ServerInv, Abort
  PROVE  ServerInv'
<1> DEFINE I == {s \in Busy : slot[s].task \in waiting}
           asked == InOrder(I)
           more == [k \in DOMAIN asked |-> Result(slot[asked[k]].task, "error")]
           Answer == [task : Tasks, kind : {"final", "error"}]
<1>1. /\ ServerTypeOK /\ PromptsAreLeft /\ InOnePlace /\ Once(tasks) /\ SlotsOnce
      /\ ResultsOnce /\ ReadersAgree /\ LoopComesBack
  BY DEF ServerInv, InOnePlace
<1>2. /\ main.pc \in {"prepare", "decode", "finish"} /\ Goto("wait")
      /\ results' = results \o more /\ tasks' = Pops(tasks, InOrder(Busy))
      /\ slot' = [s \in Slots |-> IdleSlot]
      /\ UNCHANGED <<waiting, sleep, reader>>
  BY DEF Abort
<1>3. Busy \in SUBSET Slots /\ I \in SUBSET Slots
  BY DEF Busy
<1>4. \A s \in Busy : slot[s].task \in Tasks
  BY <1>1 DEF Busy, Idle, ServerTypeOK
<1>5. OnSlot = {slot[s].task : s \in Busy}
  <2>1. \A s \in Slots \ Busy : slot[s].task = NoTask
    BY <1>1 DEF Busy, Idle, ServerTypeOK
  <2>2. NoTask \notin Tasks
    BY ServerAssumption
  <2> QED BY <1>3, <1>4, <2>1, <2>2 DEF OnSlot
<1>6. /\ Cardinality(I) \in Nat /\ asked \in [1..Cardinality(I) -> I]
      /\ \A a, b \in 1..Cardinality(I) : asked[a] = asked[b] => a = b
      /\ \A x \in I : \E k \in 1..Cardinality(I) : asked[k] = x
  <2>1. I \in SUBSET Int /\ IsFiniteSet(I)
    BY <1>3, SlotsAreFinite
  <2> HIDE DEF I
  <2> QED BY <2>1, InOrderFacts DEF IsInjective
<1> DEFINE n == Cardinality(I)
<1> HIDE DEF asked, n
<1>7. /\ n \in Nat /\ asked \in [1..n -> I] /\ DOMAIN asked = 1..n
      /\ \A a, b \in 1..n : asked[a] = asked[b] => a = b
      /\ \A x \in I : \E k \in 1..n : asked[k] = x
  BY <1>6 DEF n
<1>8. /\ DOMAIN more = 1..n
      /\ \A k \in 1..n : /\ asked[k] \in I /\ more[k].task = slot[asked[k]].task
                         /\ more[k] \in Answer
  <2>1. \A u \in Tasks : Result(u, "error") \in Answer /\ Result(u, "error").task = u
    BY DEF Result
  <2> QED BY <1>4, <1>7, <2>1
<1> HIDE DEF more, Answer
<1>9. more \in Seq(Answer) /\ Len(more) = n
  <2>1. more = [k \in 1..n |-> more[k]]
    BY <1>7 DEF more
  <2> QED BY <1>7, <1>8, <2>1
<1>10. results \in Seq(Answer)
  BY <1>1 DEF ServerTypeOK, QueueTypeOK, Answer
<1>11. /\ results' \in Seq(Answer) /\ DOMAIN results' = 1..(Len(results) + n)
       /\ Len(results) \in Nat /\ DOMAIN results = 1..Len(results)
       /\ \A i \in 1..Len(results) : results'[i] = results[i]
       /\ \A j \in 1..n : results'[Len(results) + j] = more[j]
  BY <1>2, <1>9, <1>10, ConcatFacts
<1>12. \A s \in I : slot[s].task \in OnSlot \cap waiting
  BY <1>5
<1>13. ASSUME NEW i \in DOMAIN results'
       PROVE  \/ /\ i \in DOMAIN results /\ results'[i] = results[i]
                 /\ results'[i].task \in Answered
              \/ /\ i - Len(results) \in 1..n /\ results'[i] = more[i - Len(results)]
                 /\ results'[i].task \in OnSlot \cap waiting
  <2>1. CASE i \in 1..Len(results)
    <3>1. results[i] \in Answer
      BY <1>10, <1>11, <2>1
    <3>2. results[i].task \in Tasks
      BY <3>1 DEF Answer
    <3> QED BY <1>11, <2>1, <3>2 DEF Answered
  <2>2. CASE i \notin 1..Len(results)
    <3>1. i - Len(results) \in 1..n /\ i = Len(results) + (i - Len(results))
      BY <1>7, <1>11, <2>2
    <3>2. results'[i] = more[i - Len(results)]
      BY <1>11, <3>1
    <3> QED BY <1>8, <1>12, <3>1, <3>2
  <2> QED BY <2>1, <2>2
<1>14. OnSlot \cap Answered = {}
  BY <1>1 DEF InOnePlace
<1>15. ResultsOnce'
  <2>1. SUFFICES ASSUME NEW i \in DOMAIN results', NEW j \in DOMAIN results',
                        results'[i].task = results'[j].task
                 PROVE  i = j
    BY DEF ResultsOnce
  <2>2. CASE /\ i \in DOMAIN results /\ results'[i] = results[i]
             /\ j \in DOMAIN results /\ results'[j] = results[j]
    BY <1>1, <2>1, <2>2 DEF ResultsOnce
  <2>3. CASE /\ i - Len(results) \in 1..n /\ results'[i] = more[i - Len(results)]
             /\ j - Len(results) \in 1..n /\ results'[j] = more[j - Len(results)]
    <3>1. /\ asked[i - Len(results)] \in I /\ asked[j - Len(results)] \in I
          /\ slot[asked[i - Len(results)]].task = slot[asked[j - Len(results)]].task
      BY <1>8, <2>1, <2>3
    <3>2. asked[i - Len(results)] = asked[j - Len(results)]
      BY <1>1, <1>3, <1>4, <3>1, ServerAssumption DEF SlotsOnce
    <3>3. i - Len(results) = j - Len(results)
      BY <1>7, <2>3, <3>2
    <3> QED BY <1>11, <3>3
  <2> QED BY <1>13, <1>14, <2>1, <2>2, <2>3
<1>16. Answered' = Answered \cup (OnSlot \cap waiting)
  <2>1. ASSUME NEW t \in OnSlot \cap waiting
        PROVE  \E i \in DOMAIN results' : results'[i].task = t
    <3>1. PICK s \in I : slot[s].task = t
      BY <1>5
    <3>2. PICK k \in 1..n : asked[k] = s
      BY <1>7
    <3>3. Len(results) + k \in DOMAIN results' /\ results'[Len(results) + k].task = t
      BY <1>7, <1>8, <1>11, <3>1, <3>2
    <3> QED BY <3>3
  <2>2. \A i \in DOMAIN results : i \in DOMAIN results' /\ results'[i] = results[i]
    BY <1>7, <1>11
  <2>3. OnSlot \subseteq Tasks
    BY DEF OnSlot
  <2> QED BY <1>13, <2>1, <2>2, <2>3 DEF Answered
<1>17. /\ tasks' \in Queues /\ Once(tasks') /\ Listed(tasks') = Listed(tasks)
       /\ Range(tasks.queue) \subseteq Range(tasks'.queue)
       /\ \A x \in Range(tasks'.queue) : x.type = "run" \/ x \in Range(tasks.queue)
  <2>1. Len(InOrder(Busy)) \in Nat
    <3>1. Busy \in SUBSET Int /\ IsFiniteSet(Busy)
      BY <1>3, SlotsAreFinite
    <3>2. Cardinality(Busy) \in Nat /\ InOrder(Busy) \in [1..Cardinality(Busy) -> Busy]
      BY <3>1, InOrderFacts
    <3>3. InOrder(Busy) \in Seq(Busy)
      BY <3>2
    <3> QED BY <3>3
  <2>2. tasks \in Queues
    BY <1>1 DEF ServerTypeOK, QueueTypeOK, Queues
  <2> QED BY <1>1, <1>2, <2>1, <2>2, PopsFacts
<1>18. /\ main' \in [pc : {"drain", "handle", "update", "prepare", "decode", "finish",
                           "wait", "sleep"}, at : Slots, job : Jobs]
       /\ main'.pc = "wait" /\ InHand' = {}
  BY <1>1, <1>2, GotoFacts
<1>19. Pending' = Pending /\ Familiar(Pending)' = Familiar(Pending)
  <2>1. InHand = {}
    BY <1>2 DEF InHand, HandlesTask, At
  <2>2. Pending' = Pending
    BY <1>17, <1>18, <2>1 DEF Pending
  <2> QED BY <2>2 DEF Familiar
<1>20. /\ IdleSlot \in [task : Tasks \cup {NoTask},
                        state : {"idle", "wait", "prompt", "done", "generating", "skipped"},
                        left : 0..MaxChunks, tokens : 0..MaxTokens]
       /\ IdleSlot.task = NoTask /\ IdleSlot.state = "idle" /\ NoTask \notin Tasks
  BY ServerAssumption DEF IdleSlot
<1>21. OnSlot' = {} /\ SlotsOnce' /\ PromptsAreLeft'
  BY <1>2, <1>20 DEF OnSlot, SlotsOnce, PromptsAreLeft
<1>22. ServerTypeOK' /\ LoopComesBack'
  <2>1. QueueTypeOK'
    BY <1>1, <1>2, <1>11, <1>17 DEF ServerTypeOK, QueueTypeOK, Queues, Answer
  <2>2. NextResponse \in Range(tasks'.queue)
    BY <1>1, <1>2, <1>17 DEF LoopComesBack
  <2> QED BY <1>2, <1>18, <1>20, <2>1, <2>2 DEF ServerTypeOK, LoopComesBack
<1>23. ASSUME NEW r \in Requests, reader[r].pc = "reading"
       PROVE  IdsOf[r] \cap Live \subseteq Live'
  <2>1. IdsOf[r] \subseteq waiting
    BY <1>1, <1>23 DEF ReadersAgree, ReaderAgrees
  <2> QED BY <1>16, <1>19, <2>1 DEF Live
<1>24. Live' \subseteq Live
  BY <1>16, <1>19, <1>21 DEF Live
<1>25. Familiar(Pending)' \cap (OnSlot' \cup Answered') = {}
  BY <1>1, <1>16, <1>19, <1>21 DEF InOnePlace
<1>26. /\ \A x \in Range(tasks'.queue) : x.type = "cancel" => x \in Range(tasks.queue)
       /\ \A i \in DOMAIN results : i \in DOMAIN results' /\ results'[i] = results[i]
  BY <1>7, <1>11, <1>17
<1>27. /\ Listed(tasks') \cap InHand' = {} /\ Answered' \subseteq Answered \cup waiting
       /\ OnSlot' \cap Answered' = {} /\ main'.pc # "handle"
  BY <1>16, <1>18, <1>21
<1> QED BY <1>2, <1>15, <1>17, <1>19, <1>21, <1>22, <1>23, <1>24, <1>25, <1>26, <1>27, MainMove

\* The job in hand is a root that is in no queue and whose family is nowhere.
LEMMA HandedFacts ==
  ASSUME ServerInv, NEW t \in Tasks, HandlesTask(t), main'.pc # "handle",
         Listed(tasks') = Listed(tasks)
  PROVE  /\ t \in AllRoots /\ Pending = Listed(tasks) \cup {t} /\ t \notin Listed(tasks)
         /\ Pending' = Listed(tasks) /\ InHand' = {}
         /\ Familiar(Pending) = Familiar(Pending)' \cup Family(t)
         /\ Familiar(Pending)' \cap Family(t) = {}
         /\ Family(t) \cap (OnSlot \cup Answered) = {}
         /\ Family(t) \subseteq AllIds /\ Family(t) \subseteq Tasks
<1>1. InOnePlace
  BY DEF ServerInv
<1>2. InHand = {t} /\ InHand' = {}
  BY JobFacts DEF InHand, HandlesTask, At
<1>3. /\ Pending = Listed(tasks) \cup {t} /\ t \notin Listed(tasks) /\ t \in AllRoots
      /\ Pending' = Listed(tasks)
  BY <1>1, <1>2 DEF Pending, InOnePlace
<1>4. Familiar(Pending) = Familiar(Pending)' \cup Family(t)
  BY <1>3 DEF Familiar
<1>5. \A p \in Listed(tasks) : p \in AllRoots /\ p # t
  BY <1>1, <1>3 DEF InOnePlace
<1>6. Familiar(Pending)' \cap Family(t) = {}
  BY <1>3, <1>5, FamilyFacts DEF Familiar
<1>7. Family(t) \cap (OnSlot \cup Answered) = {}
  BY <1>1, <1>4 DEF InOnePlace
<1> QED BY <1>2, <1>3, <1>4, <1>6, <1>7, FamilyFacts

\* The slots chosen for the children are idle and different.
LEMMA ChildSlotsFacts ==
  ASSUME NEW t \in Tasks, NEW s \in Fits(t)
  PROVE  /\ s \in Slots /\ s \in Idle /\ Len(Children[t]) \in Nat
         /\ ChildSlots(t, s) \in [1..Len(Children[t]) -> Idle \ {s}]
         /\ \A a, b \in 1..Len(Children[t]) : ChildSlots(t, s)[a] = ChildSlots(t, s)[b] => a = b
         /\ \A k \in 0..Len(Children[t]) : Len(SubSeq(ChildSlots(t, s), 1, k)) \in Nat
<1> DEFINE I == Idle \ {s}
           n == Cardinality(I)
           L == Len(Children[t])
           all == InOrder(I)
<1>1. s \in Slots /\ s \in Idle /\ n >= L
  BY DEF Fits, Idle
<1>2. L \in Nat
  BY IdsFacts
<1>3. I \in SUBSET Int /\ IsFiniteSet(I)
  BY SlotsAreFinite DEF Idle
<1> HIDE DEF I
<1>4. /\ n \in Nat /\ all \in [1..n -> I] /\ \A a, b \in 1..n : all[a] = all[b] => a = b
  BY <1>3, InOrderFacts DEF IsInjective
<1> HIDE DEF n, L, all
<1>5. all \in Seq(I) /\ Len(all) = n
  BY <1>4
<1>6. /\ ChildSlots(t, s) \in Seq(I) /\ DOMAIN ChildSlots(t, s) = 1..L
      /\ \A k \in 1..L : ChildSlots(t, s)[k] = all[k] /\ k \in 1..n
  <2>1. ChildSlots(t, s) = SubSeq(all, 1, L)
    BY DEF ChildSlots, all, I, L
  <2>2. /\ SubSeq(all, 1, L) \in Seq(I) /\ Len(SubSeq(all, 1, L)) = L
        /\ \A k \in 1..L : SubSeq(all, 1, L)[k] = all[k]
    BY <1>1, <1>2, <1>4, <1>5
  <2>3. \A k \in 1..L : k \in 1..n
    BY <1>1, <1>2, <1>4
  <2> QED BY <1>2, <2>1, <2>2, <2>3
<1>7. ASSUME NEW k \in 0..L
      PROVE  Len(SubSeq(ChildSlots(t, s), 1, k)) \in Nat
  <2>1. Len(ChildSlots(t, s)) = L /\ k <= L
    BY <1>2, <1>6
  <2>2. SubSeq(ChildSlots(t, s), 1, k) \in Seq(I)
    BY <1>2, <1>6, <2>1
  <2> QED BY <2>2
<1>8. ChildSlots(t, s) \in [1..L -> I]
  BY <1>4, <1>6
<1> QED BY <1>1, <1>2, <1>4, <1>6, <1>7, <1>8 DEF I, L

\* The family of the task in hand goes to idle slots.
LEMMA LaunchStep ==
  ASSUME ServerInv, NEW t \in Tasks, NEW s \in Slots, Launch(t, s)
  PROVE  ServerInv'
<1> DEFINE L == Len(Children[t])
           free == ChildSlots(t, s)
           kids == Children[t]
<1>1. /\ ServerTypeOK /\ PromptsAreLeft /\ InOnePlace /\ Once(tasks) /\ SlotsOnce
      /\ ResultsOnce
  BY DEF ServerInv, InOnePlace
<1>2. /\ HandlesTask(t) /\ s \in Fits(t) /\ Goto("drain")
      /\ slot' = [x \in Slots |->
           IF x = s THEN Launched(t, "prompt")
           ELSE IF \E k \in DOMAIN free : free[k] = x
                THEN Launched(kids[CHOOSE k \in DOMAIN free : free[k] = x], "wait")
                ELSE slot[x]]
      /\ UNCHANGED <<tasks, waiting, results, sleep, reader>>
  BY DEF Launch, queueVars
<1>3. /\ s \in Idle /\ L \in Nat /\ free \in [1..L -> Idle \ {s}]
      /\ \A a, b \in 1..L : free[a] = free[b] => a = b
  BY <1>2, ChildSlotsFacts
<1>4. /\ main' \in [pc : {"drain", "handle", "update", "prepare", "decode", "finish",
                          "wait", "sleep"}, at : Slots, job : Jobs]
      /\ main'.pc = "drain"
  BY <1>1, <1>2, GotoFacts
<1>5. /\ t \in AllRoots /\ Pending = Listed(tasks) \cup {t}
      /\ Pending' = Listed(tasks) /\ InHand' = {}
      /\ Familiar(Pending) = Familiar(Pending)' \cup Family(t)
      /\ Familiar(Pending)' \cap Family(t) = {}
      /\ Family(t) \cap (OnSlot \cup Answered) = {} /\ Family(t) \subseteq Tasks
  BY <1>2, <1>4, HandedFacts
<1>6. /\ kids \in Seq(Tasks) /\ DOMAIN kids = 1..L /\ Range(kids) = {kids[k] : k \in 1..L}
      /\ \A a, b \in 1..L : kids[a] = kids[b] => a = b
      /\ \A k \in 1..L : kids[k] \in Tasks /\ kids[k] # t
      /\ Family(t) = {t} \cup {kids[k] : k \in 1..L}
  <2>1. IsInjective(kids) /\ t \notin Range(kids)
    BY <1>5, FamilyFacts
  <2>2. kids \in Seq(Tasks) /\ DOMAIN kids = 1..L
    BY IdsFacts
  <2>3. Range(kids) = {kids[k] : k \in 1..L}
    BY <2>2 DEF Range
  <2>4. \A k \in 1..L : kids[k] \in Range(kids) /\ kids[k] \in Tasks
    BY <2>2, <2>3
  <2> QED BY <2>1, <2>2, <2>3, <2>4 DEF IsInjective, Family
<1> HIDE DEF L, free, kids
<1> DEFINE States == {"idle", "wait", "prompt", "done", "generating", "skipped"}
<1>7. ASSUME NEW u \in Tasks, NEW state \in {"prompt", "wait"}
      PROVE  /\ Launched(u, state) \in [task : Tasks \cup {NoTask}, state : States,
                                        left : 0..MaxChunks, tokens : 0..MaxTokens]
             /\ Launched(u, state).task = u /\ Launched(u, state).state = state
             /\ Launched(u, state).left > 0
  BY ServerAssumption DEF Launched
<1>8. slot'[s] = Launched(t, "prompt")
  BY <1>2
<1>9. ASSUME NEW k \in 1..L
      PROVE  free[k] \in Slots /\ free[k] \in Idle \ {s} /\ slot'[free[k]] = Launched(kids[k], "wait")
  <2>1. free[k] \in Slots /\ free[k] \in Idle \ {s} /\ DOMAIN free = 1..L
    BY <1>3 DEF Idle
  <2>2. (CHOOSE a \in DOMAIN free : free[a] = free[k]) = k
    BY <1>3, <2>1
  <2> QED BY <1>2, <2>1, <2>2
<1>10. ASSUME NEW x \in Slots, x # s, \A k \in 1..L : free[k] # x
       PROVE  slot'[x] = slot[x]
  BY <1>2, <1>3, <1>10
<1>11. ASSUME NEW x \in Slots
       PROVE  \/ x = s /\ slot'[x].task = t
              \/ \E k \in 1..L : x = free[k] /\ slot'[x].task = kids[k]
              \/ slot'[x] = slot[x] /\ slot'[x].task \notin Family(t)
  <2>1. slot[x].task \in OnSlot \/ slot[x].task = NoTask
    BY <1>1 DEF OnSlot, ServerTypeOK
  <2>2. slot[x].task \notin Family(t)
    BY <1>5, <2>1, ServerAssumption
  <2> QED BY <1>6, <1>7, <1>8, <1>9, <1>10, <2>2
<1>12. SlotsOnce'
  <2>1. SUFFICES ASSUME NEW a \in Slots, NEW b \in Slots,
                        slot'[a].task = slot'[b].task, slot'[a].task # NoTask
                 PROVE  a = b
    BY DEF SlotsOnce
  <2>2. t \in Family(t) /\ \A k \in 1..L : kids[k] \in Family(t) /\ kids[k] # t
    BY <1>6
  <2>3. CASE a = s /\ slot'[a].task = t
    BY <1>11, <2>1, <2>2, <2>3
  <2>4. CASE \E k \in 1..L : a = free[k] /\ slot'[a].task = kids[k]
    BY <1>6, <1>11, <2>1, <2>2, <2>4
  <2>5. CASE slot'[a] = slot[a] /\ slot'[a].task \notin Family(t)
    <3>1. slot'[b] = slot[b]
      BY <1>11, <2>1, <2>2, <2>5
    <3> QED BY <1>1, <2>1, <2>5, <3>1 DEF SlotsOnce
  <2> QED BY <1>11, <2>3, <2>4, <2>5
<1>13. OnSlot' = OnSlot \cup Family(t)
  <2>1. ASSUME NEW u \in OnSlot
        PROVE  \E x \in Slots : slot'[x].task = u
    <3>1. PICK x \in Slots : slot[x].task = u
      BY DEF OnSlot
    <3>2. x \notin Idle
      BY <1>1, <3>1, ServerAssumption DEF OnSlot, Idle, ServerTypeOK
    <3>3. x # s /\ \A k \in 1..L : free[k] # x
      BY <1>3, <1>9, <3>2
    <3> QED BY <1>10, <3>1, <3>3
  <2>2. \E x \in Slots : slot'[x].task = t
    BY <1>7, <1>8
  <2>3. \A k \in 1..L : \E x \in Slots : slot'[x].task = kids[k]
    BY <1>6, <1>7, <1>9
  <2>4. OnSlot \subseteq Tasks /\ \A x \in Slots : slot[x].task \in Tasks => slot[x].task \in OnSlot
    BY DEF OnSlot
  <2>5. \A x \in Slots : slot'[x].task \in Tasks => slot'[x].task \in OnSlot \cup Family(t)
    BY <1>6, <1>11, <2>4
  <2>6. \A u \in OnSlot \cup Family(t) : \E x \in Slots : slot'[x].task = u
    BY <1>6, <2>1, <2>2, <2>3
  <2> QED BY <1>5, <2>4, <2>5, <2>6 DEF OnSlot
<1>14. \A x \in Slots :
         /\ slot'[x] \in [task : Tasks \cup {NoTask}, state : States,
                          left : 0..MaxChunks, tokens : 0..MaxTokens]
         /\ slot'[x].state = "idle" <=> slot'[x].task = NoTask
         /\ slot'[x].state = "prompt" => slot'[x].left > 0
  <2>1. \A x \in Slots :
         /\ slot[x] \in [task : Tasks \cup {NoTask}, state : States,
                         left : 0..MaxChunks, tokens : 0..MaxTokens]
         /\ slot[x].state = "idle" <=> slot[x].task = NoTask
         /\ slot[x].state = "prompt" => slot[x].left > 0
    BY <1>1 DEF ServerTypeOK, PromptsAreLeft
  <2>2. \A u \in Tasks : u # NoTask
    BY ServerAssumption
  <2> HIDE DEF States
  <2> QED BY <1>6, <1>7, <1>8, <1>9, <1>10, <2>1, <2>2
<1>15. slot' \in [Slots -> [task : Tasks \cup {NoTask}, state : States,
                            left : 0..MaxChunks, tokens : 0..MaxTokens]]
  <2>1. slot' = [x \in Slots |-> slot'[x]]
    BY <1>2
  <2> QED BY <1>14, <2>1
<1>16. ServerTypeOK' /\ PromptsAreLeft' /\ LoopComesBack'
  <2>1. QueueTypeOK'
    BY <1>1, <1>2 DEF ServerTypeOK, QueueTypeOK
  <2> QED BY <1>4, <1>14, <1>15, <2>1 DEF ServerTypeOK, PromptsAreLeft, LoopComesBack
<1>17. Answered' = Answered /\ ResultsOnce'
  BY <1>1, <1>2 DEF Answered, ResultsOnce
<1>18. Live' = Live
  BY <1>5, <1>13, <1>17 DEF Live
<1>19. /\ Familiar(Pending)' \cap (OnSlot' \cup Answered') = {} /\ OnSlot' \cap Answered' = {}
  BY <1>1, <1>5, <1>13, <1>17 DEF InOnePlace
<1>20. Pending' \subseteq Pending /\ Listed(tasks') \cap InHand' = {}
  BY <1>5
<1> QED BY <1>1, <1>2, <1>4, <1>12, <1>16, <1>17, <1>18, <1>19, <1>20, MainMove

\* A family that cannot be launched is dropped, and its reader is told.
LEMMA LaunchFailsStep ==
  ASSUME ServerInv, NEW t \in Tasks, NEW s \in Slots, NEW k \in 0..Len(Children[t]),
         LaunchFails(t, s, k)
  PROVE  ServerInv'
<1> DEFINE x == IF k < Len(Children[t]) THEN Children[t][k + 1] ELSE t
<1>1. /\ ServerTypeOK /\ PromptsAreLeft /\ InOnePlace /\ Once(tasks) /\ SlotsOnce
      /\ ResultsOnce /\ ReadersAgree
  BY DEF ServerInv, InOnePlace
<1>2. /\ HandlesTask(t) /\ s \in Fits(t) /\ Goto("drain")
      /\ results' = Send(results, x, "error")
      /\ tasks' = Pops(tasks, SubSeq(ChildSlots(t, s), 1, k))
      /\ UNCHANGED <<waiting, sleep, reader, slot>>
  BY DEF LaunchFails
<1>3. /\ tasks' \in Queues /\ Once(tasks') /\ Listed(tasks') = Listed(tasks)
      /\ \A j \in Range(tasks'.queue) : j.type = "run" \/ j \in Range(tasks.queue)
  <2>1. tasks \in Queues
    BY <1>1 DEF ServerTypeOK, QueueTypeOK, Queues
  <2>2. Len(SubSeq(ChildSlots(t, s), 1, k)) \in Nat
    BY <1>2, ChildSlotsFacts
  <2> QED BY <1>1, <1>2, <2>1, <2>2, PopsFacts
<1>4. /\ main' \in [pc : {"drain", "handle", "update", "prepare", "decode", "finish",
                          "wait", "sleep"}, at : Slots, job : Jobs]
      /\ main'.pc = "drain"
  BY <1>1, <1>2, GotoFacts
<1>5. /\ t \in AllRoots /\ Pending = Listed(tasks) \cup {t}
      /\ Pending' = Listed(tasks) /\ InHand' = {}
      /\ Familiar(Pending) = Familiar(Pending)' \cup Family(t)
      /\ Familiar(Pending)' \cap Family(t) = {}
      /\ Family(t) \cap (OnSlot \cup Answered) = {} /\ Family(t) \subseteq Tasks
  BY <1>2, <1>3, <1>4, HandedFacts
<1>6. x \in Family(t) /\ x \in Tasks /\ x \notin Answered
  <2>1. Children[t] \in Seq(Tasks) /\ Len(Children[t]) \in Nat /\ DOMAIN Children[t] = 1..Len(Children[t])
    BY IdsFacts
  <2>2. k < Len(Children[t]) => k + 1 \in DOMAIN Children[t]
    BY <2>1
  <2>3. x \in Family(t)
    BY <2>2 DEF Family, Range
  <2> QED BY <1>5, <2>3
<1> HIDE DEF x
<1>7. /\ results' \in Seq([task : Tasks, kind : {"final", "error"}])
      /\ ResultsOnce' /\ Answered' = Answered \cup ({x} \cap waiting)
      /\ \A i \in DOMAIN results : i \in DOMAIN results' /\ results'[i] = results[i]
      /\ x \in waiting => \E i \in DOMAIN results' : results'[i] = Result(x, "error")
  BY <1>1, <1>2, <1>6, SendFacts
<1>8. OnSlot' = OnSlot /\ SlotsOnce'
  BY <1>1, <1>2 DEF OnSlot, SlotsOnce
<1>9. ServerTypeOK' /\ PromptsAreLeft' /\ LoopComesBack'
  <2>1. QueueTypeOK'
    BY <1>1, <1>2, <1>3, <1>7 DEF ServerTypeOK, QueueTypeOK, Queues
  <2> QED BY <1>1, <1>2, <1>4, <2>1 DEF ServerTypeOK, PromptsAreLeft, LoopComesBack
<1>10. ASSUME NEW r \in Requests, reader[r].pc = "reading"
       PROVE  IdsOf[r] \cap Live \subseteq Live' \/ Failed(r)'
  <2>1. IdsOf[r] \subseteq waiting
    BY <1>1, <1>10 DEF ReadersAgree, ReaderAgrees
  <2>2. CASE Family(t) \cap IdsOf[r] = {}
    BY <1>5, <1>7, <1>8, <2>2 DEF Live
  <2>3. CASE Family(t) \cap IdsOf[r] # {}
    <3>1. x \in IdsOf[r]
      BY <1>5, <1>6, <2>3, FamilyFacts
    <3>2. PICK i \in DOMAIN results' : results'[i] = Result(x, "error")
      BY <1>7, <2>1, <3>1
    <3> QED BY <3>1, <3>2 DEF Failed, Result
  <2> QED BY <2>2, <2>3
<1>11. Live' \subseteq Live
  BY <1>5, <1>6, <1>7, <1>8 DEF Live
<1>12. /\ Familiar(Pending)' \cap (OnSlot' \cup Answered') = {} /\ OnSlot' \cap Answered' = {}
  BY <1>1, <1>5, <1>6, <1>7, <1>8 DEF InOnePlace
<1>13. /\ Pending' \subseteq Pending /\ Listed(tasks') \cap InHand' = {}
       /\ Answered' \subseteq Answered \cup waiting
       /\ \A j \in Range(tasks'.queue) : j.type = "cancel" => j \in Range(tasks.queue)
  BY <1>3, <1>5, <1>7
<1> QED BY <1>2, <1>3, <1>4, <1>7, <1>8, <1>9, <1>10, <1>11, <1>12, <1>13, MainMove

LEMMA MainSteps ==
  ASSUME ServerInv, MainStep \/ FallAsleep
  PROVE  ServerInv'
<1>1. CASE HandleStep
  BY <1>1, QuietSteps, HandleCancelStep, DeferStep, LaunchStep, LaunchFailsStep DEF HandleStep
<1>2. CASE UpdateStep
  BY <1>2, QuietSteps, ProgressSteps, StartUpdateStep, AnswerStep, AbortStep DEF UpdateStep
<1> QED BY <1>1, <1>2, QuietSteps, TakeTaskStep DEF MainStep

-----------------------------------------------------------------------------
(* The readers.                                                            *)

\* What a step of one reader has to keep.
LEMMA ReaderMove ==
  ASSUME ServerInv, NEW r \in Requests, reader[r].pc # "done", UNCHANGED mainVars, QueueTypeOK',
         \A q \in Requests : q # r => reader'[q] = reader[q],
         waiting' \ IdsOf[r] = waiting \ IdsOf[r],
         Once(tasks'), Listed(tasks') \cap InHand = {}, Pending' \subseteq AllRoots,
         ResultsOnce', Answered' \subseteq Answered,
         Answered' \ IdsOf[r] = Answered \ IdsOf[r],
         Familiar(Pending)' \cap (OnSlot \cup Answered') = {},
         Live' \ IdsOf[r] = Live \ IdsOf[r],
         \A q \in Requests : q # r => Failed(q)' = Failed(q),
         ReaderAgrees(r)',
         NextResponse \in Range(tasks.queue) => NextResponse \in Range(tasks'.queue),
         \A t \in Tasks : CancelJob(t) \in Range(tasks'.queue) =>
           CancelJob(t) \in Range(tasks.queue) \/ (t \in IdsOf[r] /\ reader'[r].pc = "done")
  PROVE  ServerInv'
<1>1. /\ ServerTypeOK /\ PromptsAreLeft /\ InOnePlace /\ SlotsOnce /\ ReadersAgree
      /\ CancelsAreLate /\ LoopComesBack /\ waiting \subseteq AllIds
      /\ OnSlot \cup Answered \subseteq AllIds /\ OnSlot \cap Answered = {}
  BY DEF ServerInv, InOnePlace
<1>2. main' = main /\ slot' = slot
  BY DEF mainVars
<1>3. InHand' = InHand /\ OnSlot' = OnSlot /\ Busy' = Busy /\ SlotsOnce'
  BY <1>1, <1>2 DEF InHand, HandlesTask, At, OnSlot, Busy, Idle, SlotsOnce
<1>4. ReadersAgree'
  BY <1>1, OthersAgree
<1>5. InOnePlace'
  <2>1. OnSlot' \cup Answered' \subseteq AllIds /\ OnSlot' \cap Answered' = {}
    BY <1>1, <1>3
  <2>2. Familiar(Pending)' \cap (OnSlot' \cup Answered') = {} /\ Listed(tasks') \cap InHand' = {}
    BY <1>3
  <2> QED BY <1>3, <2>1, <2>2 DEF InOnePlace
<1>6. CancelsAreLate'
  <2>1. SUFFICES ASSUME NEW q \in Requests, NEW t \in IdsOf[q],
                        \/ CancelJob(t) \in Range(tasks'.queue)
                        \/ main.pc = "handle" /\ main.job = CancelJob(t)
                 PROVE  reader'[q].pc = "done"
    BY <1>2 DEF CancelsAreLate, ReaderAt, At
  <2>2. CASE \/ CancelJob(t) \in Range(tasks.queue)
             \/ main.pc = "handle" /\ main.job = CancelJob(t)
    <3>1. reader[q].pc = "done"
      BY <1>1, <2>2 DEF CancelsAreLate, ReaderAt, At
    <3> QED BY <3>1
  <2>3. CASE t \in IdsOf[r] /\ reader'[r].pc = "done"
    BY <2>3, IdsDisjoint
  <2>4. t \in Tasks
    BY IdsFacts
  <2> QED BY <2>1, <2>2, <2>3, <2>4
<1>7. PromptsAreLeft' /\ LoopComesBack'
  <2>1. PromptsAreLeft'
    BY <1>1, <1>2 DEF PromptsAreLeft
  <2> QED BY <1>1, <1>2, <1>3, <2>1 DEF LoopComesBack
<1>8. ServerTypeOK'
  BY <1>1, <1>2 DEF ServerTypeOK
<1>9. waiting' \subseteq AllIds
  BY <1>1 DEF AllIds
<1> QED BY <1>4, <1>5, <1>6, <1>7, <1>8, <1>9 DEF ServerInv

\* A reader that only changes its place, or what it waits for.
LEMMA ReaderTurns ==
  ASSUME ServerInv, NEW r \in Requests, reader[r].pc # "done", UNCHANGED mainVars,
         UNCHANGED <<tasks, results>>, QueueTypeOK',
         \A q \in Requests : q # r => reader'[q] = reader[q],
         waiting' \ IdsOf[r] = waiting \ IdsOf[r],
         ReaderAgrees(r)'
  PROVE  ServerInv'
<1>1. /\ InOnePlace /\ ResultsOnce /\ Once(tasks) /\ Listed(tasks) \cap InHand = {}
      /\ Pending \subseteq AllRoots /\ Familiar(Pending) \cap (OnSlot \cup Answered) = {}
  BY DEF ServerInv, InOnePlace
<1>2. /\ InHand' = InHand /\ OnSlot' = OnSlot
  BY DEF mainVars, InHand, HandlesTask, At, OnSlot
<1>3. Answered' = Answered /\ ResultsOnce' /\ \A q \in Requests : Failed(q)' = Failed(q)
  BY <1>1 DEF Answered, ResultsOnce, Failed
<1>4. Pending' = Pending /\ Familiar(Pending)' = Familiar(Pending) /\ Live' = Live
  BY <1>2, <1>3 DEF Pending, Familiar, Live
<1> QED BY <1>1, <1>3, <1>4, ReaderMove

LEMMA TurningSteps ==
  ASSUME ServerInv, NEW r \in Requests, UNCHANGED mainVars,
         Arrive(r) \/ WokenUp(r) \/ Register(r) \/ GiveUp(r) \/ StopWaiting(r)
  PROVE  ServerInv'
<1>1. /\ ServerTypeOK /\ QueueTypeOK /\ ReaderAgrees(r) /\ reader[r].received \subseteq Tasks
      /\ sleep \in [sleeping : BOOLEAN, wake : BOOLEAN]
  BY DEF ServerInv, ServerTypeOK, QueueTypeOK, ReadersAgree
<1>2. UNCHANGED <<tasks, results>>
  BY DEF Arrive, WokenUp, Register, GiveUp, StopWaiting
<1>3. /\ InHand' = InHand /\ OnSlot' = OnSlot
  BY DEF mainVars, InHand, HandlesTask, At, OnSlot
<1>4. Answered' = Answered /\ Failed(r)' = Failed(r)
  BY <1>2 DEF Answered, Failed
<1>5. Live' = Live
  BY <1>2, <1>3, <1>4 DEF Pending, Familiar, Live
<1>6. /\ \E pc \in {"waking", "ready", "posting", "stopping", "done", "cleaning"} :
           /\ ReaderGoto(r, pc)
           /\ \/ /\ waiting' = waiting /\ reader[r].pc \in {"none", "waking"} /\ pc \in {"waking", "ready"}
              \/ /\ waiting' = waiting \cup IdsOf[r] /\ reader[r].pc = "ready" /\ pc = "posting"
              \/ /\ waiting' = waiting /\ reader[r].pc = "reading" /\ pc = "stopping"
              \/ /\ waiting' = waiting \ IdsOf[r] /\ reader[r].pc = "closing" /\ pc = "done"
              \/ /\ waiting' = waiting \ IdsOf[r] /\ reader[r].pc = "stopping" /\ pc = "cleaning"
      /\ sleep' \in [sleeping : BOOLEAN, wake : BOOLEAN]
  <2>1. CASE Arrive(r)
    <3>1. sleep' \in [sleeping : BOOLEAN, wake : BOOLEAN]
      BY <1>1, <2>1 DEF Arrive
    <3>2. waiting' = waiting /\ reader[r].pc = "none" /\ (ReaderGoto(r, "waking") \/ ReaderGoto(r, "ready"))
      BY <2>1 DEF Arrive, ReaderAt
    <3> QED BY <3>1, <3>2
  <2>2. CASE WokenUp(r)
    BY <1>1, <2>2 DEF WokenUp, ReaderAt
  <2>3. CASE Register(r)
    BY <1>1, <2>3 DEF Register, ReaderAt
  <2>4. CASE GiveUp(r)
    BY <1>1, <2>4 DEF GiveUp, ReaderAt
  <2>5. CASE StopWaiting(r)
    BY <1>1, <2>5 DEF StopWaiting, ReaderAt
  <2> QED BY <2>1, <2>2, <2>3, <2>4, <2>5
<1>7. /\ reader' \in [Requests -> [pc : {"none", "waking", "ready", "posting", "reading",
                                         "stopping", "closing", "cleaning", "cancelling",
                                         "done"}, received : SUBSET Tasks]]
      /\ \A q \in Requests : q # r => reader'[q] = reader[q]
      /\ reader'[r].received = reader[r].received
      /\ ReaderGoto(r, reader'[r].pc)
  BY <1>1, <1>6 DEF QueueTypeOK, ReaderGoto
<1>8. /\ \/ /\ waiting' = waiting /\ reader[r].pc \in {"none", "waking"}
            /\ reader'[r].pc \in {"waking", "ready"}
         \/ /\ waiting' = waiting \cup IdsOf[r] /\ reader[r].pc = "ready"
            /\ reader'[r].pc = "posting"
         \/ /\ waiting' = waiting /\ reader[r].pc = "reading" /\ reader'[r].pc = "stopping"
         \/ /\ waiting' = waiting \ IdsOf[r] /\ reader[r].pc = "closing" /\ reader'[r].pc = "done"
         \/ /\ waiting' = waiting \ IdsOf[r] /\ reader[r].pc = "stopping"
            /\ reader'[r].pc = "cleaning"
  BY <1>1, <1>6 DEF QueueTypeOK, ReaderGoto
<1>9. QueueTypeOK' /\ waiting' \ IdsOf[r] = waiting \ IdsOf[r]
  BY <1>1, <1>2, <1>6, <1>7, <1>8, IdsFacts DEF QueueTypeOK
<1>10. ReaderAgrees(r)'
  <2>1. reader[r].pc = "closing" => IdsOf[r] \cap Live = {}
    BY <1>1 DEF ReaderAgrees
  <2>2. Answered \subseteq Live
    BY DEF Live
  <2> QED BY <1>1, <1>4, <1>5, <1>7, <1>8, <2>1, <2>2 DEF ReaderAgrees
<1>11. reader[r].pc # "done"
  BY <1>8
<1> QED BY <1>2, <1>7, <1>9, <1>10, <1>11, ReaderTurns

\* The root tasks of a request enter the queue.
LEMMA PostTasksStep ==
  ASSUME ServerInv, NEW r \in Requests, UNCHANGED mainVars, PostTasks(r)
  PROVE  ServerInv'
<1> DEFINE new == [k \in DOMAIN Roots[r] |-> RunJob(Roots[r][k])]
           R == Range(Roots[r])
<1>1. /\ ServerTypeOK /\ QueueTypeOK /\ InOnePlace /\ Once(tasks) /\ ResultsOnce /\ ReaderAgrees(r)
      /\ tasks \in Queues /\ tasks.queue \in Seq(Jobs) /\ RunsOnce(tasks.queue)
      /\ Listed(tasks) \cap InHand = {} /\ Pending \subseteq AllRoots
      /\ Familiar(Pending) \cap (OnSlot \cup Answered) = {}
  BY DEF ServerInv, InOnePlace, ServerTypeOK, QueueTypeOK, ReadersAgree, Queues, Once
<1>2. /\ reader[r].pc = "posting" /\ ReaderGoto(r, "reading")
      /\ tasks' = [tasks EXCEPT !.queue = tasks.queue \o new]
      /\ UNCHANGED <<waiting, results, sleep>>
  BY DEF PostTasks, ReaderAt, PostBack
<1>3. /\ Roots[r] \in Seq(Tasks) /\ R \subseteq Tasks /\ IdsOf[r] = Familiar(R) /\ R \subseteq IdsOf[r]
      /\ IsInjective(Roots[r]) /\ R \subseteq AllRoots
  BY IdsFacts, IdsAssumption DEF AllRoots
<1>4. IdsOf[r] \cap Live = {} /\ reader[r].received = {} /\ IdsOf[r] \subseteq waiting
  BY <1>1, <1>2 DEF ReaderAgrees
<1>5. Pending \cap R = {} /\ Listed(tasks) \cap R = {} /\ InHand \cap R = {}
  <2>1. Pending \subseteq Live
    BY DEF Live, Familiar, Family
  <2> QED BY <1>3, <1>4, <2>1 DEF Pending
<1>6. /\ new \in Seq(Jobs) /\ RunsOnce(new) /\ Range(new) = {RunJob(t) : t \in R}
  <2>1. DOMAIN Roots[r] = 1..Len(Roots[r]) /\ Len(Roots[r]) \in Nat
        /\ \A k \in 1..Len(Roots[r]) : Roots[r][k] \in Tasks
    BY <1>3
  <2>2. new \in [1..Len(Roots[r]) -> Jobs]
    BY <2>1, JobFacts
  <2>3. new \in Seq(Jobs)
    BY <2>1, <2>2
  <2>4. RunsOnce(new)
    BY <1>3, <2>1, JobFacts DEF RunsOnce, IsInjective
  <2>5. Range(new) = {RunJob(t) : t \in R}
    BY <2>1 DEF Range
  <2> QED BY <2>3, <2>4, <2>5
<1> HIDE DEF new
<1>7. \A x \in Range(tasks.queue) : x \in Range(new) => x.type # "run"
  BY <1>3, <1>5, <1>6 DEF Listed, Runs
<1> DEFINE s == tasks.queue \o new
<1>8. s \in Seq(Jobs) /\ RunsOnce(s) /\ Range(s) = Range(tasks.queue) \cup Range(new)
  BY <1>1, <1>6, <1>7, ConcatOnce
<1> HIDE DEF s
<1>9. tasks' \in Queues /\ tasks'.queue = s /\ tasks'.deferred = tasks.deferred
  BY <1>1, <1>2, <1>8, QueueUpdates DEF s
<1>10. Runs(tasks') = Runs(tasks) \cup R
  BY <1>3, <1>6, <1>8, <1>9, JobFacts DEF Runs
<1> HIDE DEF R
<1>11. Listed(tasks') = Listed(tasks) \cup R /\ Once(tasks')
  BY <1>1, <1>5, <1>8, <1>9, <1>10 DEF Listed, Once
<1>12. InHand' = InHand /\ OnSlot' = OnSlot
  BY DEF mainVars, InHand, HandlesTask, At, OnSlot
<1>13. Answered' = Answered /\ ResultsOnce' /\ \A q \in Requests : Failed(q)' = Failed(q)
  BY <1>1, <1>2 DEF Answered, ResultsOnce, Failed
<1>14. Pending' = Pending \cup R
  BY <1>11, <1>12 DEF Pending
<1>15. Familiar(Pending)' = Familiar(Pending) \cup IdsOf[r]
  BY <1>3, <1>14 DEF Familiar
<1>16. Live' = Live \cup IdsOf[r]
  BY <1>12, <1>13, <1>15 DEF Live
<1>17. /\ reader' \in [Requests -> [pc : {"none", "waking", "ready", "posting", "reading",
                                          "stopping", "closing", "cleaning", "cancelling",
                                          "done"}, received : SUBSET Tasks]]
       /\ \A q \in Requests : q # r => reader'[q] = reader[q]
       /\ reader'[r].received = {} /\ reader'[r].pc = "reading"
  BY <1>1, <1>2, <1>4 DEF QueueTypeOK, ReaderGoto
<1>18. ReaderAgrees(r)'
  BY <1>2, <1>4, <1>16, <1>17 DEF ReaderAgrees
<1>19. QueueTypeOK'
  BY <1>1, <1>2, <1>9, <1>17 DEF QueueTypeOK, Queues
<1>20. /\ Listed(tasks') \cap InHand = {} /\ Pending' \subseteq AllRoots
  BY <1>1, <1>3, <1>5, <1>11, <1>14
<1>21. Familiar(Pending)' \cap (OnSlot \cup Answered') = {}
  BY <1>1, <1>4, <1>13, <1>15 DEF Live
<1>22. /\ NextResponse \in Range(tasks.queue) => NextResponse \in Range(tasks'.queue)
       /\ \A t \in Tasks : CancelJob(t) \in Range(tasks'.queue) => CancelJob(t) \in Range(tasks.queue)
  BY <1>6, <1>8, <1>9, JobFacts
<1> QED BY <1>2, <1>11, <1>13, <1>16, <1>17, <1>18, <1>19, <1>20, <1>21, <1>22, ReaderMove

\* Results leave the queue: those that stay are where they were, in order.
LEMMA FewerResults ==
  ASSUME ServerInv, NEW r \in Requests, reader[r].pc # "done", UNCHANGED mainVars,
         UNCHANGED <<tasks, waiting>>, QueueTypeOK', ResultsOnce',
         NEW gone \in SUBSET IdsOf[r], Answered' = Answered \ gone,
         \A i \in DOMAIN results' : \E j \in DOMAIN results : results'[i] = results[j],
         \A j \in DOMAIN results : results[j].task \notin gone =>
           \E i \in DOMAIN results' : results'[i] = results[j],
         \A q \in Requests : q # r => reader'[q] = reader[q],
         ReaderAgrees(r)'
  PROVE  ServerInv'
<1>1. /\ InOnePlace /\ Once(tasks) /\ Listed(tasks) \cap InHand = {}
      /\ Pending \subseteq AllRoots /\ Familiar(Pending) \cap (OnSlot \cup Answered) = {}
  BY DEF ServerInv, InOnePlace
<1>2. /\ InHand' = InHand /\ OnSlot' = OnSlot
  BY DEF mainVars, InHand, HandlesTask, At, OnSlot
<1>3. Pending' = Pending /\ Familiar(Pending)' = Familiar(Pending)
  BY <1>2 DEF Pending, Familiar
<1>4. Live' \ IdsOf[r] = Live \ IdsOf[r]
  BY <1>2, <1>3 DEF Live
<1>5. ASSUME NEW q \in Requests, q # r
      PROVE  Failed(q)' = Failed(q)
  <2>1. IdsOf[q] \cap gone = {}
    BY <1>5, IdsDisjoint
  <2> QED BY <2>1 DEF Failed
<1> QED BY <1>1, <1>3, <1>4, <1>5, ReaderMove

LEMMA CleanResultsStep ==
  ASSUME ServerInv, NEW r \in Requests, UNCHANGED mainVars, CleanResults(r)
  PROVE  ServerInv'
<1> DEFINE I == {i \in DOMAIN results : results[i].task \notin IdsOf[r]}
           Answer == [task : Tasks, kind : {"final", "error"}]
<1>1. /\ QueueTypeOK /\ ResultsOnce /\ ReaderAgrees(r) /\ results \in Seq(Answer)
  BY DEF ServerInv, InOnePlace, ServerTypeOK, QueueTypeOK, ReadersAgree
<1>2. /\ reader[r].pc = "cleaning" /\ ReaderGoto(r, "cancelling")
      /\ results' = Keep(results, I)
      /\ UNCHANGED <<tasks, waiting, sleep>>
  BY DEF CleanResults, ReaderAt
<1> HIDE DEF Answer
<1>3. I \in SUBSET DOMAIN results
  OBVIOUS
<1>4. /\ results' \in Seq(Answer)
      /\ \A a \in DOMAIN results' : InOrder(I)[a] \in I /\ results'[a] = results[InOrder(I)[a]]
      /\ \A a, b \in DOMAIN results' : InOrder(I)[a] = InOrder(I)[b] => a = b
      /\ Range(results') = {results[i] : i \in I}
  <2> DEFINE kept == Keep(results, I)
  <2> HIDE DEF I
  <2>1. /\ kept \in Seq(Answer)
        /\ \A a \in DOMAIN kept : InOrder(I)[a] \in I /\ kept[a] = results[InOrder(I)[a]]
        /\ \A a, b \in DOMAIN kept : InOrder(I)[a] = InOrder(I)[b] => a = b
        /\ Range(kept) = {results[i] : i \in I}
    BY <1>1, <1>3, KeepFacts
  <2>2. results' = kept
    BY <1>2
  <2> HIDE DEF kept
  <2> QED BY <2>1, <2>2
<1>5. ResultsOnce'
  <2> HIDE DEF I
  <2>1. SUFFICES ASSUME NEW a \in DOMAIN results', NEW b \in DOMAIN results',
                        results'[a].task = results'[b].task
                 PROVE  a = b
    BY DEF ResultsOnce
  <2>2. /\ InOrder(I)[a] \in DOMAIN results /\ results'[a] = results[InOrder(I)[a]]
        /\ InOrder(I)[b] \in DOMAIN results /\ results'[b] = results[InOrder(I)[b]]
    BY <1>3, <1>4
  <2>3. InOrder(I)[a] = InOrder(I)[b]
    BY <1>1, <2>1, <2>2 DEF ResultsOnce
  <2> QED BY <1>4, <2>3
<1>6. \A i \in DOMAIN results' : \E j \in I : results'[i] = results[j]
  <2> HIDE DEF I
  <2> QED BY <1>4
<1>7. \A j \in I : \E i \in DOMAIN results' : results'[i] = results[j]
  <2> HIDE DEF I
  <2>1. \A j \in I : results[j] \in Range(results')
    BY <1>4
  <2> QED BY <2>1 DEF Range
<1>8. Answered' = Answered \ IdsOf[r]
  BY <1>6, <1>7 DEF Answered
<1>9. /\ InHand' = InHand /\ OnSlot' = OnSlot
  BY DEF mainVars, InHand, HandlesTask, At, OnSlot
<1>10. Live' \subseteq Live
  BY <1>2, <1>8, <1>9 DEF Live, Pending, Familiar
<1>11. /\ reader' \in [Requests -> [pc : {"none", "waking", "ready", "posting", "reading",
                                          "stopping", "closing", "cleaning", "cancelling",
                                          "done"}, received : SUBSET Tasks]]
       /\ \A q \in Requests : q # r => reader'[q] = reader[q]
       /\ reader'[r].received = reader[r].received /\ reader'[r].pc = "cancelling"
  BY <1>1, <1>2 DEF QueueTypeOK, ReaderGoto
<1>12. ReaderAgrees(r)'
  BY <1>1, <1>2, <1>8, <1>10, <1>11 DEF ReaderAgrees
<1>13. QueueTypeOK'
  BY <1>1, <1>2, <1>4, <1>11 DEF QueueTypeOK, Answer
<1>14. /\ \A i \in DOMAIN results' : \E j \in DOMAIN results : results'[i] = results[j]
       /\ \A j \in DOMAIN results : results[j].task \notin IdsOf[r] =>
            \E i \in DOMAIN results' : results'[i] = results[j]
  BY <1>6, <1>7
<1>15. reader[r].pc # "done" /\ UNCHANGED <<tasks, waiting>> /\ IdsOf[r] \in SUBSET IdsOf[r]
  BY <1>2
<1> QED BY <1>5, <1>8, <1>11, <1>12, <1>13, <1>14, <1>15, FewerResults

LEMMA ReceiveStep ==
  ASSUME ServerInv, NEW r \in Requests, UNCHANGED mainVars, Receive(r)
  PROVE  ServerInv'
<1> DEFINE own == {i \in DOMAIN results : results[i].task \in IdsOf[r]}
           m == Min(own)
           first == results[m]
           got == reader[r].received \cup {first.task}
           Answer == [task : Tasks, kind : {"final", "error"}]
<1>1. /\ QueueTypeOK /\ InOnePlace /\ ResultsOnce /\ ReaderAgrees(r) /\ results \in Seq(Answer)
      /\ OnSlot \cap Answered = {} /\ Familiar(Pending) \cap Answered = {}
  BY DEF ServerInv, InOnePlace, ServerTypeOK, QueueTypeOK, ReadersAgree
<1>2. /\ reader[r].pc = "reading" /\ own # {} /\ results' = RemoveAt(results, m)
      /\ IF first.kind = "error" THEN ReaderGoto(r, "stopping")
         ELSE reader' = [reader EXCEPT ![r] =
                [pc |-> IF got = IdsOf[r] THEN "closing" ELSE "reading", received |-> got]]
      /\ UNCHANGED <<tasks, waiting, sleep>>
  BY DEF Receive, ReaderAt
<1> HIDE DEF Answer
<1>3. DOMAIN results = 1..Len(results) /\ Len(results) \in Nat
  BY <1>1
<1>4. m \in own
  <2>1. own \in SUBSET Nat
    BY <1>3
  <2> HIDE DEF own
  <2> QED BY <1>2, <2>1, LeastIsThere
<1> HIDE DEF m
<1>5. m \in DOMAIN results /\ first.task \in IdsOf[r] /\ first \in Answer /\ first.task \in Tasks
  <2>1. m \in DOMAIN results /\ first.task \in IdsOf[r] /\ first \in Answer
    BY <1>1, <1>3, <1>4
  <2> QED BY <2>1 DEF Answer
<1>6. IsInjective(results)
  BY <1>1 DEF IsInjective, ResultsOnce
<1>7. /\ results' \in Seq(Answer) /\ IsInjective(results')
      /\ Range(results') = Range(results) \ {first}
  BY <1>1, <1>2, <1>5, <1>6, RemoveAtInjective
<1> HIDE DEF first
<1>8. \A i \in DOMAIN results' : \E j \in DOMAIN results : results'[i] = results[j] /\ results[j] # first
  BY <1>7 DEF Range
<1>9. \A j \in DOMAIN results : results[j] # first => \E i \in DOMAIN results' : results'[i] = results[j]
  BY <1>7 DEF Range
<1>10. \A j \in DOMAIN results : results[j].task = first.task <=> results[j] = first
  BY <1>1, <1>5 DEF ResultsOnce, first
<1>11. ResultsOnce'
  <2>1. SUFFICES ASSUME NEW i \in DOMAIN results', NEW k \in DOMAIN results',
                        results'[i].task = results'[k].task
                 PROVE  i = k
    BY DEF ResultsOnce
  <2>2. results'[i] = results'[k]
    BY <1>1, <1>8, <2>1 DEF ResultsOnce
  <2> QED BY <1>7, <2>2 DEF IsInjective
<1>12. Answered' = Answered \ {first.task} /\ first.task \in Answered
  <2>1. Answered' = Answered \ {first.task}
    BY <1>8, <1>9, <1>10 DEF Answered
  <2>2. first.task \in Answered
    BY <1>5 DEF Answered, first
  <2> QED BY <2>1, <2>2
<1>13. /\ InHand' = InHand /\ OnSlot' = OnSlot
  BY DEF mainVars, InHand, HandlesTask, At, OnSlot
<1>14. Live' = Live \ {first.task}
  <2>1. Familiar(Pending)' = Familiar(Pending)
    BY <1>2, <1>13 DEF Pending, Familiar
  <2> QED BY <1>1, <1>12, <1>13, <2>1 DEF Live
<1>15. reader[r].received \subseteq IdsOf[r] /\ got \subseteq IdsOf[r] /\ got \subseteq Tasks
  BY <1>1, <1>5, IdsFacts DEF ReaderAgrees
<1>16. /\ reader' \in [Requests -> [pc : {"none", "waking", "ready", "posting", "reading",
                                          "stopping", "closing", "cleaning", "cancelling",
                                          "done"}, received : SUBSET Tasks]]
       /\ \A q \in Requests : q # r => reader'[q] = reader[q]
       /\ \/ /\ first.kind = "error" /\ reader'[r].received = reader[r].received
             /\ reader'[r].pc = "stopping"
          \/ /\ first.kind # "error" /\ reader'[r].received = got
             /\ reader'[r].pc = IF got = IdsOf[r] THEN "closing" ELSE "reading"
  <2> HIDE DEF got
  <2>1. CASE first.kind = "error"
    BY <1>1, <1>2, <2>1 DEF QueueTypeOK, ReaderGoto
  <2>2. CASE first.kind # "error"
    <3> DEFINE x == [pc |-> IF got = IdsOf[r] THEN "closing" ELSE "reading", received |-> got]
    <3>1. /\ x \in [pc : {"none", "waking", "ready", "posting", "reading", "stopping",
                        "closing", "cleaning", "cancelling", "done"}, received : SUBSET Tasks]
          /\ x.received = got /\ x.pc = IF got = IdsOf[r] THEN "closing" ELSE "reading"
      BY <1>15
    <3>2. reader' = [reader EXCEPT ![r] = x]
      BY <1>2, <2>2
    <3> HIDE DEF x
    <3> QED BY <1>1, <2>2, <3>1, <3>2 DEF QueueTypeOK
  <2> QED BY <2>1, <2>2
<1>17. first.kind # "error" => (Failed(r)' <=> Failed(r))
  BY <1>8, <1>9 DEF Failed
<1>18. ReaderAgrees(r)'
  <2>1. /\ reader[r].received \subseteq IdsOf[r] \ Live /\ IdsOf[r] \subseteq waiting
        /\ ~Failed(r) => IdsOf[r] \subseteq reader[r].received \cup Live
    BY <1>1, <1>2 DEF ReaderAgrees
  <2>2. CASE reader'[r].received = reader[r].received /\ reader'[r].pc = "stopping"
    BY <1>2, <1>14, <2>1, <2>2 DEF ReaderAgrees
  <2>3. CASE /\ first.kind # "error" /\ reader'[r].received = got
             /\ reader'[r].pc = IF got = IdsOf[r] THEN "closing" ELSE "reading"
    <3>1. got \subseteq IdsOf[r] \ Live'
      BY <1>14, <1>15, <2>1
    <3>2. ~Failed(r) => IdsOf[r] \subseteq got \cup Live'
      BY <1>14, <2>1
    <3>3. CASE got # IdsOf[r]
      BY <1>2, <1>17, <2>1, <2>3, <3>1, <3>2, <3>3 DEF ReaderAgrees
    <3>4. CASE got = IdsOf[r]
      <4>1. IdsOf[r] \cap Answered' = {}
        BY <3>1, <3>4 DEF Live
      <4> QED BY <1>2, <2>1, <2>3, <3>1, <3>4, <4>1 DEF ReaderAgrees
    <3> QED BY <3>3, <3>4
  <2> QED BY <1>16, <2>2, <2>3
<1>19. QueueTypeOK'
  BY <1>1, <1>2, <1>7, <1>16 DEF QueueTypeOK, Answer
<1>20. reader[r].pc # "done" /\ UNCHANGED <<tasks, waiting>> /\ {first.task} \in SUBSET IdsOf[r]
  BY <1>2, <1>5
<1>21. \A j \in DOMAIN results : results[j].task \notin {first.task} =>
         \E i \in DOMAIN results' : results'[i] = results[j]
  BY <1>9, <1>10
<1> QED BY <1>8, <1>11, <1>12, <1>16, <1>18, <1>19, <1>20, <1>21, FewerResults

\* The ids of a request are finitely many: an order of them is a sequence.
LEMMA OrderFacts ==
  ASSUME NEW r \in Requests, NEW order \in SetToSeqs(IdsOf[r])
  PROVE  order \in Seq(Tasks) /\ Range(order) = IdsOf[r]
<1> DEFINE ids == IdsOf[r]
           n == Cardinality(ids)
           R == Range(Roots[r])
           F == {Family(p) : p \in R}
<1>1. ASSUME NEW s \in Seq(Tasks)
      PROVE  IsFiniteSet(Range(s))
  <2>1. IsFiniteSet(DOMAIN s)
    <3>1. DOMAIN s = 1..Len(s) /\ Len(s) \in Nat
      OBVIOUS
    <3> QED BY <3>1, FS_Interval
  <2>2. s \in Surjection(DOMAIN s, Range(s))
    BY DEF Surjection, Range
  <2> QED BY <2>1, <2>2, FS_Surjection
<1>2. \A p \in Tasks : IsFiniteSet(Family(p))
  <2>1. SUFFICES ASSUME NEW p \in Tasks
                 PROVE  IsFiniteSet({p} \cup Range(Children[p]))
    BY DEF Family
  <2>2. IsFiniteSet({p}) /\ IsFiniteSet(Range(Children[p]))
    BY <1>1, IdsFacts, FS_Singleton
  <2> QED BY <2>2, FS_Union
<1>3. R \subseteq Tasks /\ IsFiniteSet(R) /\ ids = UNION F
  BY <1>1, IdsFacts DEF IdsOf
<1>4. IsFiniteSet(F)
  <2> DEFINE f == [p \in R |-> Family(p)]
  <2>1. f \in Surjection(R, F)
    BY DEF Surjection
  <2> QED BY <1>3, <2>1, FS_Surjection
<1>5. IsFiniteSet(ids)
  <2>1. \A T \in F : IsFiniteSet(T)
    BY <1>2, <1>3
  <2> HIDE DEF F, ids
  <2> QED BY <1>3, <1>4, <2>1, FS_UNION
<1>6. n \in Nat /\ IsFiniteSet(1..n) /\ Cardinality(1..n) = n
  <2>1. n \in Nat
    BY <1>5, FS_CardinalityType
  <2> QED BY <2>1, FS_Interval
<1>7. order \in [1..n -> ids] /\ \A i, j \in 1..n : i # j => order[i] # order[j]
  BY DEF SetToSeqs
<1> HIDE DEF n, ids
<1>8. order \in Injection(1..n, ids)
  BY <1>7 DEF Injection, IsInjective
<1>9. order \in Surjection(1..n, ids)
  BY <1>5, <1>6, <1>8, FS_Injection DEF n
<1>10. Range(order) = ids
  BY <1>7, <1>9 DEF Surjection, Range
<1>11. ids \subseteq Tasks
  BY IdsFacts DEF ids
<1>12. order \in Seq(Tasks)
  BY <1>6, <1>7, <1>11
<1> QED BY <1>10, <1>12 DEF ids

\* A request that is cancelled leaves the queues, with its whole family.
LEMMA PostCancelsStep ==
  ASSUME ServerInv, NEW r \in Requests, UNCHANGED mainVars, PostCancels(r)
  PROVE  ServerInv'
<1>1. /\ ServerTypeOK /\ QueueTypeOK /\ InOnePlace /\ Once(tasks) /\ ResultsOnce /\ ReaderAgrees(r)
      /\ tasks \in Queues
      /\ Listed(tasks) \cap InHand = {} /\ Pending \subseteq AllRoots
      /\ Familiar(Pending) \cap (OnSlot \cup Answered) = {}
  BY DEF ServerInv, InOnePlace, ServerTypeOK, QueueTypeOK, ReadersAgree, Queues
<1>2. /\ reader[r].pc = "cancelling" /\ ReaderGoto(r, "done")
      /\ UNCHANGED <<waiting, results, sleep>>
  BY DEF PostCancels, ReaderAt
<1>3. PICK order \in SetToSeqs(IdsOf[r]) : tasks' = PostFront(tasks, order)
  BY DEF PostCancels
<1>4. order \in Seq(Tasks) /\ Range(order) = IdsOf[r]
  BY OrderFacts
<1>5. /\ tasks' \in Queues /\ Once(tasks')
      /\ Runs(tasks') = Runs(tasks) \ IdsOf[r]
      /\ Range(tasks'.deferred) = Range(tasks.deferred) \ IdsOf[r]
      /\ \A t \in Tasks : CancelJob(t) \in Range(tasks'.queue) =>
           CancelJob(t) \in Range(tasks.queue) \/ t \in IdsOf[r]
      /\ NextResponse \in Range(tasks.queue) => NextResponse \in Range(tasks'.queue)
  <2> DEFINE p == PostFront(tasks, order)
  <2>1. /\ p \in Queues /\ Once(p)
        /\ Runs(p) = Runs(tasks) \ Range(order)
        /\ Range(p.deferred) = Range(tasks.deferred) \ Range(order)
        /\ \A t \in Tasks : CancelJob(t) \in Range(p.queue) =>
             CancelJob(t) \in Range(tasks.queue) \/ t \in Range(order)
        /\ NextResponse \in Range(tasks.queue) => NextResponse \in Range(p.queue)
    BY <1>1, <1>4, PostFrontFacts
  <2>2. tasks' = p
    BY <1>3
  <2> HIDE DEF p
  <2> QED BY <1>4, <2>1, <2>2
<1>6. Listed(tasks') = Listed(tasks) \ IdsOf[r]
  BY <1>5 DEF Listed
<1>7. InHand' = InHand /\ OnSlot' = OnSlot
  BY DEF mainVars, InHand, HandlesTask, At, OnSlot
<1>8. Answered' = Answered /\ ResultsOnce' /\ \A q \in Requests : Failed(q)' = Failed(q)
  BY <1>1, <1>2 DEF Answered, ResultsOnce, Failed
<1>9. Pending' \subseteq Pending /\ Pending \ IdsOf[r] \subseteq Pending'
  BY <1>6, <1>7 DEF Pending
<1>10. \A p \in Pending \cap IdsOf[r] : Family(p) \subseteq IdsOf[r]
  <2>1. \A p \in Pending : p \in AllRoots /\ p \in Family(p)
    BY <1>1 DEF Family
  <2> QED BY <2>1, FamilyFacts
<1>11. /\ Familiar(Pending)' \subseteq Familiar(Pending)
       /\ Familiar(Pending) \ IdsOf[r] \subseteq Familiar(Pending)'
  BY <1>9, <1>10 DEF Familiar
<1>12. Live' \subseteq Live /\ Live' \ IdsOf[r] = Live \ IdsOf[r]
  BY <1>7, <1>8, <1>11 DEF Live
<1>13. /\ reader' \in [Requests -> [pc : {"none", "waking", "ready", "posting", "reading",
                                          "stopping", "closing", "cleaning", "cancelling",
                                          "done"}, received : SUBSET Tasks]]
       /\ \A q \in Requests : q # r => reader'[q] = reader[q]
       /\ reader'[r].received = reader[r].received /\ reader'[r].pc = "done"
  BY <1>1, <1>2 DEF QueueTypeOK, ReaderGoto
<1>14. ReaderAgrees(r)'
  BY <1>1, <1>2, <1>8, <1>12, <1>13 DEF ReaderAgrees
<1>15. QueueTypeOK'
  BY <1>1, <1>2, <1>5, <1>13 DEF QueueTypeOK, Queues
<1>16. /\ Listed(tasks') \cap InHand = {} /\ Pending' \subseteq AllRoots
       /\ Familiar(Pending)' \cap (OnSlot \cup Answered') = {}
  BY <1>1, <1>6, <1>8, <1>9, <1>11
<1>17. \A t \in Tasks : CancelJob(t) \in Range(tasks'.queue) =>
         CancelJob(t) \in Range(tasks.queue) \/ (t \in IdsOf[r] /\ reader'[r].pc = "done")
  BY <1>5, <1>13
<1> QED BY <1>2, <1>5, <1>8, <1>12, <1>13, <1>14, <1>15, <1>16, <1>17, ReaderMove

-----------------------------------------------------------------------------
(* The theorems.                                                           *)

LEMMA ServerInit == Init => ServerInv
<1> SUFFICES ASSUME Init PROVE ServerInv
  OBVIOUS
<1>1. /\ tasks = [queue |-> <<>>, deferred |-> <<>>] /\ waiting = {} /\ results = <<>>
      /\ sleep = [sleeping |-> FALSE, wake |-> FALSE]
      /\ reader = [r \in Requests |-> [pc |-> "none", received |-> {}]]
      /\ main = [pc |-> "drain", at |-> 1, job |-> NextResponse]
      /\ slot = [s \in Slots |-> IdleSlot]
  BY DEF Init, QueueInit
<1>2. /\ IdleSlot \in [task : Tasks \cup {NoTask},
                       state : {"idle", "wait", "prompt", "done", "generating", "skipped"},
                       left : 0..MaxChunks, tokens : 0..MaxTokens]
      /\ IdleSlot.task = NoTask /\ IdleSlot.state = "idle" /\ NoTask \notin Tasks
  BY ServerAssumption DEF IdleSlot
<1>3. ServerTypeOK
  <2>1. QueueTypeOK
    BY <1>1 DEF QueueTypeOK
  <2>2. 1 \in Slots /\ NextResponse \in Jobs
    BY QueueAssumption, JobFacts DEF Slots
  <2> QED BY <1>1, <1>2, <2>1, <2>2 DEF ServerTypeOK
<1>4. /\ tasks.queue = <<>> /\ tasks.deferred = <<>> /\ Range(tasks.queue) = {}
      /\ Range(tasks.deferred) = {}
  BY <1>1, EmptyRange
<1>5. InHand = {} /\ OnSlot = {} /\ Answered = {} /\ Listed(tasks) = {}
  <2>1. InHand = {}
    BY <1>1 DEF InHand, HandlesTask, At
  <2>2. OnSlot = {}
    BY <1>1, <1>2 DEF OnSlot
  <2>3. Answered = {}
    BY <1>1 DEF Answered
  <2>4. Listed(tasks) = {}
    BY <1>4 DEF Listed, Runs
  <2> QED BY <2>1, <2>2, <2>3, <2>4
<1>6. Pending = {} /\ Familiar(Pending) = {} /\ Live = {}
  BY <1>5 DEF Pending, Familiar, Live
<1>7. InOnePlace
  <2>1. Once(tasks)
    BY <1>4 DEF Once, RunsOnce, IsInjective
  <2>2. SlotsOnce /\ ResultsOnce
    BY <1>1, <1>2 DEF SlotsOnce, ResultsOnce
  <2> QED BY <1>5, <1>6, <2>1, <2>2 DEF InOnePlace
<1>8. ReadersAgree
  BY <1>1, <1>5, <1>6 DEF ReadersAgree, ReaderAgrees
<1>9. CancelsAreLate /\ PromptsAreLeft /\ LoopComesBack
  BY <1>1, <1>2, <1>4 DEF CancelsAreLate, PromptsAreLeft, LoopComesBack, At
<1> QED BY <1>1, <1>3, <1>7, <1>8, <1>9 DEF ServerInv

LEMMA ServerStutters ==
  ASSUME ServerInv, UNCHANGED vars
  PROVE  ServerInv'
<1>1. UNCHANGED <<tasks, waiting, results, sleep, reader, main, slot>>
  BY DEF vars, queueVars, mainVars
<1>2. InHand' = InHand /\ OnSlot' = OnSlot /\ Answered' = Answered
      /\ \A r \in Requests : Failed(r)' = Failed(r)
  BY <1>1 DEF InHand, HandlesTask, At, OnSlot, Answered, Failed
<1>3. Pending' = Pending /\ Familiar(Pending)' = Familiar(Pending) /\ Live' = Live
  BY <1>1, <1>2 DEF Pending, Familiar, Live
<1>4. ServerTypeOK'
  BY <1>1 DEF ServerInv, ServerTypeOK, QueueTypeOK
<1>5. InOnePlace'
  BY <1>1, <1>2, <1>3 DEF ServerInv, InOnePlace, SlotsOnce, ResultsOnce
<1>6. ReadersAgree'
  BY <1>1, <1>2, <1>3 DEF ServerInv, ReadersAgree, ReaderAgrees
<1>7. CancelsAreLate' /\ PromptsAreLeft'
  BY <1>1 DEF ServerInv, CancelsAreLate, PromptsAreLeft, At, ReaderAt
<1>8. LoopComesBack'
  BY <1>1 DEF ServerInv, LoopComesBack, Busy, Idle
<1> QED BY <1>1, <1>4, <1>5, <1>6, <1>7, <1>8 DEF ServerInv

LEMMA ServerStep == ServerInv /\ [Next]_vars => ServerInv'
<1> SUFFICES ASSUME ServerInv, [Next]_vars PROVE ServerInv'
  OBVIOUS
<1>1. CASE UNCHANGED vars
  BY <1>1, ServerStutters
<1>2. CASE MainStep \/ FallAsleep
  BY <1>2, MainSteps
<1>3. ASSUME NEW r \in Requests, Arrive(r) \/ GiveUp(r) \/ ReaderStep(r), UNCHANGED mainVars
      PROVE  ServerInv'
  <2>1. CASE Arrive(r) \/ WokenUp(r) \/ Register(r) \/ GiveUp(r) \/ StopWaiting(r)
    BY <1>3, <2>1, TurningSteps
  <2>2. CASE PostTasks(r) \/ Receive(r) \/ CleanResults(r) \/ PostCancels(r)
    BY <1>3, <2>2, PostTasksStep, ReceiveStep, CleanResultsStep, PostCancelsStep
  <2> QED BY <1>3, <2>1, <2>2 DEF ReaderStep
<1> QED BY <1>1, <1>2, <1>3 DEF Next

\* ServerInv is an inductive invariant of the server: the steps of the HTTP
\* threads (server_response_reader) and of the main loop (start_loop,
\* process_single_task, update_slots), in any order, move each task between
\* the queues, the loop's hand, the slots and the results without losing or
\* doubling it.
THEOREM ServerInvariant == Spec => []ServerInv
<1> QED BY ServerInit, ServerStep, PTL DEF Spec

\* What a set with at most one element counts.
LEMMA AtMostOne ==
  ASSUME NEW S, \A a, b \in S : a = b
  PROVE  IF S = {} THEN Cardinality(S) = 0 ELSE Cardinality(S) = 1
<1>1. CASE S = {}
  BY <1>1, FS_EmptySet
<1>2. CASE S # {}
  <2>1. PICK x \in S : S = {x}
    BY <1>2
  <2> QED BY <1>2, <2>1, FS_Singleton
<1> QED BY <1>1, <1>2

LEMMA RootFacts ==
  ASSUME NEW r \in Requests, NEW t \in IdsOf[r]
  PROVE  /\ t \in Tasks /\ RootOf[t] \in AllRoots /\ t \in Family(RootOf[t])
         /\ \A u \in AllRoots : t \in Family(u) => u = RootOf[t]
<1>1. t \in Tasks
  BY IdsFacts
<1>2. PICK p \in Range(Roots[r]) : t \in Family(p)
  BY IdsFacts DEF Familiar
<1>3. p \in Tasks /\ \E q \in Requests : p \in Range(Roots[q])
  BY <1>2, IdsFacts
<1>4. RootOf[t] = CHOOSE u \in Tasks : t \in Family(u) /\ \E q \in Requests : u \in Range(Roots[q])
  BY <1>1 DEF RootOf
<1>5. t \in Family(RootOf[t]) /\ \E q \in Requests : RootOf[t] \in Range(Roots[q])
  BY <1>2, <1>3, <1>4
<1>6. RootOf[t] \in AllRoots
  BY <1>5 DEF AllRoots
<1> QED BY <1>1, <1>5, <1>6, FamilyFacts

\* A task's places are one at most, and there is one as long as it is pending
\* or runs.
LEMMA PlacesFacts ==
  ASSUME ServerInv, NEW r \in Requests, NEW t \in IdsOf[r]
  PROVE  /\ \A a, b \in Places(t) : a = b
         /\ Places(t) # {} <=> t \in Familiar(Pending) \cup OnSlot
<1> DEFINE p == RootOf[t]
           inQueue == {<<"queue", i>> : i \in {j \in DOMAIN tasks.queue : tasks.queue[j] = RunJob(p)}}
           deferred == {<<"deferred", i>> : i \in {j \in DOMAIN tasks.deferred : tasks.deferred[j] = p}}
           hand == IF HandlesTask(p) THEN {<<"hand", 1>>} ELSE {}
           slots == {<<"slot", s>> : s \in {x \in Slots : slot[x].task = t}}
<1>1. /\ InOnePlace /\ SlotsOnce /\ RunsOnce(tasks.queue) /\ IsInjective(tasks.deferred)
      /\ Runs(tasks) \cap Range(tasks.deferred) = {} /\ Listed(tasks) \cap InHand = {}
      /\ Pending \subseteq AllRoots /\ Familiar(Pending) \cap OnSlot = {}
  BY DEF ServerInv, InOnePlace, Once
<1>2. /\ t \in Tasks /\ p \in AllRoots /\ p \in Tasks /\ t \in Family(p)
      /\ \A u \in AllRoots : t \in Family(u) => u = p
  BY RootFacts, FamilyFacts
<1> HIDE DEF p
<1>3. Places(t) = inQueue \cup deferred \cup hand \cup slots
  BY Zenon DEF Places, p
<1>4. /\ \A a, b \in inQueue : a = b
      /\ inQueue # {} <=> p \in Runs(tasks)
  <2>1. \A i, j \in DOMAIN tasks.queue :
          tasks.queue[i] = RunJob(p) /\ tasks.queue[j] = RunJob(p) => i = j
    BY <1>1, JobFacts DEF RunsOnce
  <2>2. p \in Runs(tasks) <=> \E i \in DOMAIN tasks.queue : tasks.queue[i] = RunJob(p)
    BY <1>2 DEF Runs, Range
  <2> QED BY <2>1, <2>2
<1>5. /\ \A a, b \in deferred : a = b
      /\ deferred # {} <=> p \in Range(tasks.deferred)
  <2>1. \A i, j \in DOMAIN tasks.deferred :
          tasks.deferred[i] = p /\ tasks.deferred[j] = p => i = j
    BY <1>1 DEF IsInjective
  <2>2. p \in Range(tasks.deferred) <=> \E i \in DOMAIN tasks.deferred : tasks.deferred[i] = p
    BY DEF Range
  <2> QED BY <2>1, <2>2
<1>6. /\ \A a, b \in hand : a = b
      /\ hand # {} <=> p \in InHand
  BY <1>2 DEF InHand
<1>7. /\ \A a, b \in slots : a = b
      /\ slots # {} <=> t \in OnSlot
  <2>1. \A x, y \in Slots : slot[x].task = t /\ slot[y].task = t => x = y
    BY <1>1, <1>2, ServerAssumption DEF SlotsOnce
  <2> QED BY <1>2, <2>1 DEF OnSlot
<1> HIDE DEF inQueue, deferred, hand, slots
<1>8. t \in Familiar(Pending) <=> p \in Pending
  BY <1>1, <1>2 DEF Familiar
<1>9. p \in Pending <=> p \in Runs(tasks) \/ p \in Range(tasks.deferred) \/ p \in InHand
  BY DEF Pending, Listed
<1>10. /\ ~(p \in Runs(tasks) /\ p \in Range(tasks.deferred))
       /\ ~(p \in Runs(tasks) /\ p \in InHand) /\ ~(p \in Range(tasks.deferred) /\ p \in InHand)
       /\ ~(p \in Pending /\ t \in OnSlot)
  BY <1>1, <1>8 DEF Listed
<1> QED BY <1>3, <1>4, <1>5, <1>6, <1>7, <1>8, <1>9, <1>10

\* No task is lost or run twice: a task somebody waits for is queued, deferred,
\* in hand, on one slot or answered, just once, unless its request has failed.
THEOREM TasksHaveOnePlace == Spec => []EveryTaskHasOnePlace
<1>1. ASSUME ServerInv, NEW r \in Requests, NEW t \in IdsOf[r]
      PROVE  /\ Cardinality(Places(t)) <= 1
             /\ Cardinality(Answers(t)) <= 1
             /\ t \in reader[r].received => Answers(t) = {} /\ Places(t) = {}
             /\ ReaderAt(r, "reading") /\ t \notin reader[r].received =>
                  \/ Cardinality(Places(t)) + Cardinality(Answers(t)) = 1
                  \/ \E i \in DOMAIN results : /\ results[i].task \in IdsOf[r]
                                               /\ results[i].kind = "error"
  <2>1. InOnePlace /\ ResultsOnce /\ ReaderAgrees(r) /\ t \in Tasks
    BY <1>1, IdsFacts DEF ServerInv, InOnePlace, ReadersAgree
  <2>2. /\ IF Places(t) = {} THEN Cardinality(Places(t)) = 0 ELSE Cardinality(Places(t)) = 1
        /\ Places(t) # {} <=> t \in Familiar(Pending) \cup OnSlot
    BY <1>1, PlacesFacts, AtMostOne
  <2>3. \A a, b \in Answers(t) : a = b
    BY <2>1 DEF Answers, ResultsOnce
  <2>4. /\ IF Answers(t) = {} THEN Cardinality(Answers(t)) = 0 ELSE Cardinality(Answers(t)) = 1
        /\ Answers(t) # {} <=> t \in Answered
    <3>1. Answers(t) # {} <=> t \in Answered
      BY <2>1 DEF Answers, Answered
    <3> QED BY <2>3, <3>1, AtMostOne
  <2>5. (Familiar(Pending) \cup OnSlot) \cap Answered = {}
    BY <2>1 DEF InOnePlace
  <2>6. t \in reader[r].received => Answers(t) = {} /\ Places(t) = {}
    BY <2>1, <2>2, <2>4 DEF ReaderAgrees, Live
  <2>7. ASSUME ReaderAt(r, "reading"), t \notin reader[r].received, ~Failed(r)
        PROVE  Cardinality(Places(t)) + Cardinality(Answers(t)) = 1
    <3>1. t \in Live
      BY <2>1, <2>7 DEF ReaderAgrees, ReaderAt
    <3> QED BY <2>2, <2>4, <2>5, <3>1 DEF Live
  <2> QED BY <2>2, <2>4, <2>6, <2>7 DEF Failed
<1>2. ServerInv => EveryTaskHasOnePlace
  BY <1>1 DEF EveryTaskHasOnePlace, ServerInv
<1> QED BY <1>2, ServerInvariant, PTL

\* Results do not pile up in server_response: each one is there for a reader
\* that still takes or cleans it.
THEOREM ResultsHaveReaders == Spec => []ResultsAreAwaited
<1>1. ASSUME ServerInv, NEW i \in DOMAIN results
      PROVE  \E r \in Requests : /\ results[i].task \in IdsOf[r]
                                 /\ reader[r].pc \in {"reading", "stopping", "cleaning"}
  <2>1. results[i].task \in Tasks
    <3> DEFINE Answer == [task : Tasks, kind : {"final", "error"}]
    <3>1. results \in Seq(Answer)
      BY <1>1 DEF ServerInv, ServerTypeOK, QueueTypeOK
    <3>2. \A x \in Answer : x.task \in Tasks
      OBVIOUS
    <3> HIDE DEF Answer
    <3>3. results[i] \in Answer
      BY <1>1, <3>1
    <3> QED BY <3>2, <3>3
  <2>2. results[i].task \in Answered
    BY <1>1, <2>1 DEF Answered
  <2>3. PICK r \in Requests : results[i].task \in IdsOf[r]
    BY <1>1, <2>2 DEF ServerInv, InOnePlace, AllIds
  <2> QED BY <1>1, <2>2, <2>3 DEF ServerInv, ReadersAgree, ReaderAgrees
<1>2. ServerInv => ResultsAreAwaited
  BY <1>1 DEF ResultsAreAwaited
<1> QED BY <1>2, ServerInvariant, PTL

\* The main loop waits, and the idle server unloads the model, only when no slot
\* has work: an iteration over busy slots has posted the job that brings the
\* loop back.
THEOREM LoopWaitsWhenIdle == Spec => []WaitsWhenIdle
<1>1. ServerInv => WaitsWhenIdle
  BY EmptyRange DEF ServerInv, LoopComesBack, WaitsWhenIdle, At
<1> QED BY <1>1, ServerInvariant, PTL
=============================================================================
