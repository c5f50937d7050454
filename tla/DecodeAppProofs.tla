--------------------------- MODULE DecodeAppProofs ---------------------------
(***************************************************************************)
(* AppInv is an inductive invariant of the application over the decode     *)
(* service: commands and frames carry the numbers of the calls in order, a *)
(* model that was reported as loaded stays so until a later call, and the  *)
(* pieces of a generation's text are consecutive on their whole way.       *)
(***************************************************************************)
EXTENDS DecodeApp, SequenceLemmas, FiniteSetTheorems

-----------------------------------------------------------------------------
(* The calls, and what AppModel's state says of them.                      *)

\* A call that may still write a command, and one that will write none any more.
Unsent(j) ==
  calls[j].pc \in {"none", "send"} \/ (calls[j].pc = "wait" /\ ~calls[j].cancelled)
Sent(j) == calls[j].op # "none" /\ ~Unsent(j)

LastCall(j) == \A k \in Ids : k > j => calls[k].pc = "none"

Places(op) ==
  CASE op = "load" -> {"wait", "read", "ready", "failed", "done"}
    [] op \in {"unload", "forget"} -> {"send", "read", "unloaded", "done"}
    [] op = "generate" -> {"send", "read", "ended", "done"}
    [] OTHER -> {"none"}

\* One call at a time has a command to write, and it is the last one.
CallsInTurn ==
  \A j \in Ids :
    /\ calls[j].pc \in Places(calls[j].op)
    /\ calls[j].op = "load" => calls[j].key \in Keys
    /\ Unsent(j) => LastCall(j)
    /\ calls[j].pc = "wait" /\ ~calls[j].cancelled => app.load = j /\ app.loadState = "loading"
    /\ calls[j].op = "load" /\ calls[j].pc # "done" /\ app.load = j => app.loadState = "loading"
    /\ calls[j].op = "generate" /\ calls[j].pc # "done" => Running /\ app.run = j
    /\ calls[j].op = "unload" /\ calls[j].pc # "done" /\ app.unload = j
         => app.loadState \in {"unloading", "cancelling"}

\* AppModel's load is the last call while it loads; once it is ready, only
\* generations are called.
StatesAgree ==
  /\ app.loadState = "loading" =>
       /\ app.load \in Ids /\ LastCall(app.load)
       /\ calls[app.load].op = "load" /\ calls[app.load].pc # "done"
       /\ ~calls[app.load].cancelled
       /\ calls[app.load].key = app.key
  /\ app.loadState = "ready" =>
       /\ app.load \in Ids
       /\ calls[app.load].op = "load" /\ calls[app.load].pc = "done"
       /\ \A k \in Ids : k > app.load => calls[k].op \in {"none", "generate"}
  /\ Running =>
       /\ app.loadState = "ready" /\ app.run \in Ids /\ LastCall(app.run)
       /\ calls[app.run].op = "generate" /\ calls[app.run].pc # "done"
       /\ calls[app.run].pc = "ended" <=> reading.outcome # NoTerminal

-----------------------------------------------------------------------------
(* The commands and the frames on their way.                               *)

CommandOf(j) ==
  CASE calls[j].op = "load" -> LoadCommand(j, calls[j].key)
    [] calls[j].op = "generate" -> GenerateCommand(j)
    [] OTHER -> UnloadCommand(j)

Frames == [kind : Terminals \cup {"ready", "unloaded", "snapshot"}, id : Ids,
           sequence : 0..(MaxText + 1), text : Seq(1..MaxText)]

Asks(q) == {c \in Range(q) : c.op # "cancel"}
Waiting == Asks(queue) \cup Asks(commands)
Made(c) == c.id \in Ids /\ c = CommandOf(c.id) /\ Sent(c.id)

InOrder(q) ==
  \A a, b \in DOMAIN q :
    a < b /\ q[a].op # "cancel" /\ q[b].op # "cancel" => q[a].id < q[b].id

GeneratePCs == {"reserve", "attach", "publishing", "finish", "joining"}

\* The commands come in the order of the calls, and behind the one in hand.
CommandsInOrder ==
  /\ InOrder(queue) /\ InOrder(commands)
  /\ \A c \in Asks(queue), d \in Asks(commands) : c.id < d.id
  /\ \A c \in Waiting : Made(c) /\ service.cmd.id < c.id
  /\ service.cmd.op # "cancel" => Made(service.cmd)
  /\ service.cmd.op = "cancel" => service.pc = "next"
  /\ service.pc = "loading" => service.cmd.op = "load"
  /\ service.pc \in GeneratePCs => service.cmd.op = "generate"

Generations == {j \in Ids : calls[j].op = "generate"}

\* A generation has several frames, any other call one.
Ordered(q, several) ==
  \A a, b \in DOMAIN q : a < b =>
    q[a].id < q[b].id \/ (q[a].id = q[b].id /\ q[a].id \in several)

FramesInOrder ==
  /\ Ordered(frames, Generations)
  /\ \A f \in Range(frames) :
       /\ Sent(f.id)
       /\ \A c \in Waiting : f.id < c.id
       /\ service.pc = "loading" => f.id < service.cmd.id
       /\ service.pc \in GeneratePCs => f.id <= service.cmd.id

-----------------------------------------------------------------------------
(* What is loaded, and who is answered.                                    *)

Answered ==
  \/ app.loadState = "ready"
  \/ app.loadState = "loading" /\ calls[app.load].pc = "ready"

LoadIsCurrent ==
  /\ session = app.key /\ directory = app.key
  /\ service.pc # "loading" /\ service.cmd.id >= app.load
  /\ \A c \in Waiting : c.id > app.load

\* From the answer to AppModel's load on, what it loaded stays loaded.
ModelIsLoaded ==
  /\ Answered => LoadIsCurrent /\ \A f \in Range(frames) : f.id > app.load
  /\ app.loadState = "loading" /\ Event("ready", app.load) \in Range(frames) => LoadIsCurrent

\* Loads and unloads that wait for an answer, and those whose answer is to come:
\* a reader may get the answer of another call, but there is one for each.
Readers == {j \in Ids : calls[j].pc = "read" /\ calls[j].op # "generate"}
Owed == {j \in Ids :
          /\ calls[j].op # "generate"
          /\ \/ \E c \in Waiting : c.id = j
             \/ service.pc = "loading" /\ service.cmd.id = j
             \/ \E f \in Range(frames) : f.id = j}
ReadersAreOwed == Cardinality(Readers) <= Cardinality(Owed)

-----------------------------------------------------------------------------
(* The generation's task and its text.                                     *)

\* The generation's events are behind it.
Over == service.pc \notin {"reserve", "attach", "publishing"}

TaskAgrees ==
  /\ task.state = "running" =>
       /\ service.pc \in {"attach", "publishing"} /\ stream.outcome = NoTerminal
       /\ task.id = service.cmd.id
  /\ service.pc \notin {"attach", "publishing"} => stream = EmptyStream
  /\ registry.id # NoId /\ ~registry.attached =>
       service.pc = "attach" /\ service.cmd.id = registry.id

WriterAgrees ==
  /\ writer.state \in {"waiting", "writing"} => service.pc \in GeneratePCs
  /\ writer.state # "writing" => writer.text = <<>> /\ writer.terminal = NoTerminal
  /\ outbox.terminal # NoTerminal => Over
  /\ writer.terminal # NoTerminal => Over /\ outbox.text = <<>>
  /\ outbox.finished \/ writer.state = "done" \/ writer.done =>
       service.pc \notin GeneratePCs \ {"joining"}

\* How many tokens the outbox was given, the writer took, the wire was given.
Published == Len(made) - Len(stream.tokens)
Taken     == Published - Len(outbox.text)
Written   == Taken - Len(writer.text)

Piece(s, n) == \A k \in DOMAIN s : s[k] = n + k

TextInPieces ==
  /\ Piece(made, 0) /\ Piece(stream.tokens, Published)
  /\ Piece(outbox.text, Taken) /\ Piece(writer.text, Written)
  /\ 0 <= Written /\ Len(made) <= MaxText
  /\ outbox.sequence <= Taken
  /\ service.pc = "reserve" => made = <<>>

\* The number of the next snapshot that will be written.
Following == IF writer.text = <<>> THEN outbox.sequence + 1 ELSE outbox.sequence

\* Reading a frame of the generation run takes the screen from s to t tokens and
\* the number that is expected from n to m; total tokens are made, and at one of
\* ends the generation may be reported as over.
Moves(f, run, total, ends, s, t, n, m) ==
  /\ IF f.id = run /\ f.kind = "snapshot"
     THEN /\ f.text # <<>> /\ Piece(f.text, s) /\ t = s + Len(f.text)
          /\ f.sequence = n /\ m = n + 1
     ELSE t = s /\ m = n
  /\ f.id = run /\ f.kind \in {"finished", "cancelled"} => t \in ends
  /\ t <= total

\* The frames q, read one after the other, lead from s and n to t and m.
Leads(q, run, total, ends, s, t, n, m) ==
  \E shown \in [0..Len(q) -> 0..MaxText], number \in [0..Len(q) -> 1..(MaxText + 1)] :
    /\ shown[0] = s /\ shown[Len(q)] = t
    /\ number[0] = n /\ number[Len(q)] = m
    /\ \A p \in 1..Len(q) :
         Moves(q[p], run, total, ends, shown[p - 1], shown[p], number[p - 1], number[p])

Ends == IF Over THEN {Len(made)} ELSE {}

TextArrives ==
  /\ Piece(transcript, 0)
  /\ Running /\ service.cmd.id # app.run =>
       /\ transcript = <<>> /\ reading.outcome \in {NoTerminal, "failed"}
       /\ reading.expected = 1
       /\ \A f \in Range(frames) : f.id = app.run => f.kind = "failed"
  /\ Running /\ service.cmd.id = app.run =>
       /\ Len(transcript) <= Len(made)
       /\ reading.outcome = NoTerminal =>
            Leads(frames, app.run, Len(made), Ends, Len(transcript), Written,
                  reading.expected, Following)
       /\ reading.outcome \in {"finished", "cancelled"} => Len(transcript) = Len(made) /\ Over

AppInv ==
  /\ AppTypeOK /\ CallsInTurn /\ StatesAgree /\ CommandsInOrder /\ FramesInOrder
  /\ ModelIsLoaded /\ ReadersAreOwed /\ TaskAgrees /\ CancelReachesTask
  /\ WriterAgrees /\ TextInPieces /\ TextArrives

-----------------------------------------------------------------------------
(* Queues of commands and frames.                                          *)

\* A command but a cancel has the number of its call.
LEMMA CommandFacts ==
  \A c \in Commands :
    /\ c.op \in {"load", "generate", "unload", "cancel"}
    /\ c.op # "cancel" => c.id \in Ids
    /\ c.op = "cancel" => c.id = 0
    /\ c.op = "load" => c.key \in Keys
BY DEF Commands, LoadCommand, GenerateCommand, UnloadCommand, CancelCommand, NoId

\* A command that was written later keeps the order, and so does any cancel.
LEMMA InOrderAppend ==
  ASSUME NEW q \in Seq(Commands), NEW x \in Commands, InOrder(q),
         x.op # "cancel" => \A c \in Asks(q) : c.id < x.id
  PROVE  /\ InOrder(Append(q, x))
         /\ Asks(Append(q, x)) = Asks(q) \cup (IF x.op = "cancel" THEN {} ELSE {x})
<1> DEFINE p == Append(q, x)
<1>1. /\ Len(q) \in Nat /\ DOMAIN q = 1..Len(q) /\ DOMAIN p = 1..(Len(q) + 1)
      /\ \A i \in 1..Len(q) : p[i] = q[i]
      /\ p[Len(q) + 1] = x
  OBVIOUS
<1>2. Range(p) = Range(q) \cup {x}
  BY AppendRange
<1> HIDE DEF p
<1>3. \A i \in 1..Len(q) : q[i].op # "cancel" => q[i] \in Asks(q)
  BY <1>1 DEF Asks, Range
<1>4. ASSUME NEW a \in DOMAIN p, NEW b \in DOMAIN p,
             a < b, p[a].op # "cancel", p[b].op # "cancel"
      PROVE  p[a].id < p[b].id
  <2>1. a \in 1..Len(q) /\ p[a] = q[a]
    BY <1>1, <1>4
  <2>2. CASE b \in 1..Len(q)
    BY <1>1, <1>4, <2>1, <2>2 DEF InOrder
  <2>3. CASE b = Len(q) + 1
    BY <1>1, <1>3, <1>4, <2>1, <2>3
  <2> QED BY <1>1, <2>2, <2>3
<1>5. InOrder(p)
  BY <1>4 DEF InOrder
<1>6. Asks(p) = Asks(q) \cup (IF x.op = "cancel" THEN {} ELSE {x})
  BY <1>2 DEF Asks
<1> QED BY <1>5, <1>6 DEF p

\* The command at the head is the earliest.
LEMMA InOrderTail ==
  ASSUME NEW q \in Seq(Commands), q # <<>>, InOrder(q)
  PROVE  /\ InOrder(Tail(q)) /\ Head(q) \in Commands /\ Tail(q) \in Seq(Commands)
         /\ Asks(q) = Asks(Tail(q)) \cup (IF Head(q).op = "cancel" THEN {} ELSE {Head(q)})
         /\ Head(q).op # "cancel" => \A c \in Asks(Tail(q)) : Head(q).id < c.id
<1> DEFINE p == Tail(q)
           h == Head(q)
<1>1. /\ Len(q) \in Nat /\ Len(q) > 0 /\ DOMAIN q = 1..Len(q)
      /\ DOMAIN p = 1..(Len(q) - 1) /\ h = q[1]
      /\ \A i \in 1..(Len(q) - 1) : p[i] = q[i + 1] /\ i + 1 \in 1..Len(q) /\ 1 < i + 1
  OBVIOUS
<1>2. p \in Seq(Commands) /\ h \in Commands /\ Range(q) = {h} \cup Range(p)
  BY TailRange
<1> HIDE DEF p, h
<1>3. ASSUME NEW a \in DOMAIN p, NEW b \in DOMAIN p,
             a < b, p[a].op # "cancel", p[b].op # "cancel"
      PROVE  p[a].id < p[b].id
  <2>1. a + 1 < b + 1
    BY <1>1, <1>3
  <2> QED BY <1>1, <1>3, <2>1 DEF InOrder
<1>4. ASSUME h.op # "cancel", NEW c \in Asks(p)
      PROVE  h.id < c.id
  <2>1. PICK i \in 1..(Len(q) - 1) : c = p[i]
    BY <1>1 DEF Asks, Range
  <2>2. c.op # "cancel"
    BY DEF Asks
  <2> QED BY <1>1, <1>4, <2>1, <2>2 DEF InOrder
<1>5. Asks(q) = Asks(p) \cup (IF h.op = "cancel" THEN {} ELSE {h})
  BY <1>2 DEF Asks
<1> QED BY <1>2, <1>3, <1>4, <1>5 DEF InOrder, p, h

\* Two queues in order, one behind the other, when the head of the second is
\* put at the end of the first.
LEMMA InOrderMove ==
  ASSUME NEW p \in Seq(Commands), NEW q \in Seq(Commands), q # <<>>,
         InOrder(p), InOrder(q), \A c \in Asks(p), d \in Asks(q) : c.id < d.id
  PROVE  /\ InOrder(Append(p, Head(q))) /\ InOrder(Tail(q))
         /\ \A c \in Asks(Append(p, Head(q))), d \in Asks(Tail(q)) : c.id < d.id
         /\ Asks(Append(p, Head(q))) \cup Asks(Tail(q)) = Asks(p) \cup Asks(q)
<1>1. /\ InOrder(Tail(q)) /\ Head(q) \in Commands
      /\ Asks(q) = Asks(Tail(q)) \cup (IF Head(q).op = "cancel" THEN {} ELSE {Head(q)})
      /\ Head(q).op # "cancel" => \A c \in Asks(Tail(q)) : Head(q).id < c.id
  BY InOrderTail
<1>2. Head(q).op # "cancel" => \A c \in Asks(p) : c.id < Head(q).id
  BY <1>1
<1>3. /\ InOrder(Append(p, Head(q)))
      /\ Asks(Append(p, Head(q))) =
           Asks(p) \cup (IF Head(q).op = "cancel" THEN {} ELSE {Head(q)})
  BY <1>1, <1>2, InOrderAppend
<1> QED BY <1>1, <1>3

\* A frame of the last call, or of a later one, goes behind all others.
LEMMA OrderedAppend ==
  ASSUME NEW q \in Seq(Frames), NEW x \in Frames, NEW G, Ordered(q, G),
         \A f \in Range(q) : f.id < x.id \/ (f.id = x.id /\ x.id \in G)
  PROVE  Ordered(Append(q, x), G)
<1> DEFINE p == Append(q, x)
<1>1. /\ Len(q) \in Nat /\ DOMAIN q = 1..Len(q) /\ DOMAIN p = 1..(Len(q) + 1)
      /\ \A i \in 1..Len(q) : p[i] = q[i]
      /\ p[Len(q) + 1] = x
  OBVIOUS
<1> HIDE DEF p
<1>2. \A i \in 1..Len(q) : q[i] \in Range(q)
  BY <1>1 DEF Range
<1>3. ASSUME NEW a \in DOMAIN p, NEW b \in DOMAIN p, a < b
      PROVE  p[a].id < p[b].id \/ (p[a].id = p[b].id /\ p[a].id \in G)
  <2>1. a \in 1..Len(q) /\ p[a] = q[a]
    BY <1>1, <1>3
  <2>2. CASE b \in 1..Len(q)
    BY <1>1, <1>3, <2>1, <2>2 DEF Ordered
  <2>3. CASE b = Len(q) + 1
    BY <1>1, <1>2, <2>1, <2>3
  <2> QED BY <1>1, <2>2, <2>3
<1>4. Ordered(p, G)
  BY <1>3 DEF Ordered
<1> QED BY <1>4 DEF p

\* The frame at the head is the earliest.
LEMMA OrderedTail ==
  ASSUME NEW q \in Seq(Frames), q # <<>>, NEW G, Ordered(q, G)
  PROVE  /\ Ordered(Tail(q), G)
         /\ Head(q) \in Frames /\ Range(q) = {Head(q)} \cup Range(Tail(q))
         /\ \A f \in Range(Tail(q)) :
              Head(q).id < f.id \/ (Head(q).id = f.id /\ Head(q).id \in G)
<1> DEFINE p == Tail(q)
           h == Head(q)
<1>1. /\ Len(q) \in Nat /\ Len(q) > 0 /\ DOMAIN q = 1..Len(q)
      /\ DOMAIN p = 1..(Len(q) - 1) /\ h = q[1]
      /\ \A i \in 1..(Len(q) - 1) : p[i] = q[i + 1] /\ i + 1 \in 1..Len(q) /\ 1 < i + 1
  OBVIOUS
<1>2. p \in Seq(Frames) /\ h \in Frames /\ Range(q) = {h} \cup Range(p)
  BY TailRange
<1> HIDE DEF p, h
<1>3. ASSUME NEW a \in DOMAIN p, NEW b \in DOMAIN p, a < b
      PROVE  p[a].id < p[b].id \/ (p[a].id = p[b].id /\ p[a].id \in G)
  <2>1. a + 1 < b + 1
    BY <1>1, <1>3
  <2> QED BY <1>1, <1>3, <2>1 DEF Ordered
<1>4. ASSUME NEW f \in Range(p)
      PROVE  h.id < f.id \/ (h.id = f.id /\ h.id \in G)
  <2>1. PICK i \in 1..(Len(q) - 1) : f = p[i]
    BY <1>1 DEF Range
  <2> QED BY <1>1, <2>1 DEF Ordered
<1> QED BY <1>2, <1>3, <1>4 DEF Ordered, p, h

LEMMA OrderedMore ==
  ASSUME NEW q, NEW G, NEW H, G \subseteq H, Ordered(q, G)
  PROVE  Ordered(q, H)
BY DEF Ordered

-----------------------------------------------------------------------------
(* The calls.                                                              *)

\* A call has a place if it has an operation; the call that is made next is
\* behind all others, and all of these have sent what they had to.
LEMMA FreshCall ==
  ASSUME AppTypeOK, CallsInTurn, NEW i \in Ids, Fresh(i)
  PROVE  /\ calls[i].op = "none" /\ calls[i].pc = "none" /\ LastCall(i)
         /\ \A j \in Ids : calls[j].op # "none" => j < i
         /\ \A j \in Ids : calls[j].op = "none" <=> calls[j].pc = "none"
<1>1. \A j \in Ids : calls[j].op = "none" <=> calls[j].pc = "none"
  BY DEF AppTypeOK, CallsInTurn, Places
<1>2. calls[i].pc = "none" /\ LastCall(i)
  BY DEF Fresh, CallsInTurn, Unsent
<1> QED BY <1>1, <1>2, ServiceAssumption DEF LastCall, Ids

\* A user's call: nothing that was called before is still to be sent.
LEMMA FreshOnly ==
  ASSUME AppTypeOK, CallsInTurn, Settled, NEW i \in Ids, Fresh(i),
         NEW j \in Ids, j # i, Unsent(j)
  PROVE  j > i \/ (calls[j].pc = "wait" /\ app.load = j /\ app.loadState = "loading")
<1>1. calls[j].pc # "send"
  BY DEF Settled, Blocked
<1>2. CASE calls[j].pc = "none"
  BY <1>2, ServiceAssumption DEF Fresh, Ids
<1>3. CASE calls[j].pc = "wait"
  BY <1>3 DEF CallsInTurn, Unsent
<1> QED BY <1>1, <1>2, <1>3 DEF Unsent

\* A call that is made leaves the others as they are.
LEMMA NewCall ==
  ASSUME AppTypeOK, NEW i \in Ids, NEW call, calls' = [calls EXCEPT ![i] = call]
  PROVE  calls'[i] = call /\ \A j \in Ids : j # i => calls'[j] = calls[j]
<1>1. DOMAIN calls = Ids
  BY DEF AppTypeOK
<1> QED BY <1>1

\* A call that gives up the load marks the load's call, and no other.
GivesUp(i, call) == calls' = [WithoutLoad(calls) EXCEPT ![i] = call]

LEMMA WithoutLoadCall ==
  ASSUME AppTypeOK, NEW i \in Ids, NEW call,
         GivesUp(i, call)
  PROVE  /\ calls'[i] = call
         /\ \A j \in Ids : j # i =>
              /\ calls'[j].op = calls[j].op /\ calls'[j].pc = calls[j].pc
              /\ calls'[j].key = calls[j].key
              /\ calls[j].cancelled => calls'[j].cancelled
              /\ j = app.load => calls'[j].cancelled
              /\ j # app.load => calls'[j] = calls[j]
<1>1. calls'[i] = call
  BY DEF GivesUp, WithoutLoad
<1>2. ASSUME NEW j \in Ids, j # i
      PROVE  calls'[j] = IF j = app.load THEN [calls[j] EXCEPT !.cancelled = TRUE] ELSE calls[j]
  BY <1>2 DEF GivesUp, WithoutLoad
<1>3. ASSUME NEW j \in Ids, j # i, j = app.load
      PROVE  /\ calls'[j].op = calls[j].op /\ calls'[j].pc = calls[j].pc
             /\ calls'[j].key = calls[j].key /\ calls'[j].cancelled
  <2>1. calls'[j] = [calls[j] EXCEPT !.cancelled = TRUE]
    BY <1>2, <1>3
  <2> QED BY <2>1 DEF AppTypeOK
<1> QED BY <1>1, <1>2, <1>3

LEMMA CallsInTurnUser ==
  ASSUME AppTypeOK, CallsInTurn, StatesAgree, UserStep
  PROVE  CallsInTurn'
<1> USE ServiceAssumption
<1>1. ASSUME NEW i \in Ids, NEW key \in Keys, BeginLoad(i, key), Settled, ~Running,
             app.loadState \in {"notLoaded", "failed", "ready"}
      PROVE  CallsInTurn'
  <2>1. /\ calls' = [calls EXCEPT ![i] = Call("load", "wait", key, app.unload)]
        /\ app' = [app EXCEPT !.key = key, !.load = i, !.loadState = "loading"]
        /\ Fresh(i)
    BY <1>1 DEF BeginLoad
  <2> QED BY <1>1, <2>1, FreshCall, FreshOnly
           DEF AppTypeOK, CallsInTurn, Places, Unsent, LastCall, Call, Running, Ids
<1>2. CASE Load
  <2>1. \E i \in Ids : BeginLoad(i, app.key)
    BY <1>2 DEF Load
  <2> QED BY <1>1, <1>2, <2>1 DEF Load, AppTypeOK
<1>3. CASE Reload
  BY <1>1, <1>3 DEF Reload
<1>4. CASE CancelLoad
  <2>1. PICK i \in Ids :
          /\ Fresh(i)
          /\ GivesUp(i, Call("unload", "send", NoKey, NoId))
          /\ app' = [app EXCEPT !.loadState = "cancelling", !.load = NoId, !.unload = i]
    BY <1>4 DEF CancelLoad, GivesUp
  <2>2. /\ calls'[i] = Call("unload", "send", NoKey, NoId)
        /\ \A j \in Ids : j # i =>
             /\ calls'[j].op = calls[j].op /\ calls'[j].pc = calls[j].pc
             /\ calls'[j].key = calls[j].key
             /\ j = app.load => calls'[j].cancelled
             /\ j # app.load => calls'[j] = calls[j]
    BY <2>1, WithoutLoadCall
  <2>3. /\ app'.loadState = "cancelling" /\ app'.unload = i /\ app'.load = NoId
        /\ app'.run = app.run /\ app'.runState = app.runState
    BY <2>1 DEF AppTypeOK
  <2>4. Settled
    BY <1>4 DEF CancelLoad
  <2>5. calls[i].pc = "none" /\ LastCall(i) /\ calls[i].op = "none"
    BY <2>1, FreshCall
  <2>6. \A j \in Ids : j < i => ~Unsent(j)'
    <3>1. ASSUME NEW j \in Ids, j < i, Unsent(j)'
          PROVE  FALSE
      <4>1. j # i /\ ~(j > i)
        BY <3>1 DEF Ids
      <4>2. Unsent(j)
        BY <2>2, <3>1, <4>1 DEF Unsent
      <4>3. calls[j].pc = "wait" /\ app.load = j
        BY <2>1, <2>4, <4>1, <4>2, FreshOnly
      <4> QED BY <2>2, <3>1, <4>1, <4>3 DEF Unsent
    <3> QED BY <3>1
  <2>7. \A j \in Ids : j > i => calls'[j].pc = "none"
    BY <2>2, <2>5 DEF LastCall, Ids
  <2>8. \A j \in Ids : Unsent(j)' => LastCall(j)'
    BY <2>6, <2>7 DEF LastCall, Ids
  <2>9. ASSUME NEW j \in Ids
        PROVE  /\ calls'[j].pc \in Places(calls'[j].op)
               /\ calls'[j].op = "load" => calls'[j].key \in Keys
               /\ calls'[j].pc = "wait" => calls'[j].cancelled
               /\ app'.load # j
               /\ calls'[j].op = "generate" /\ calls'[j].pc # "done" => Running' /\ app'.run = j
               /\ calls'[j].op = "unload" /\ calls'[j].pc # "done" /\ app'.unload = j
                    => app'.loadState \in {"unloading", "cancelling"}
    <3>1. CASE j = i
      BY <2>2, <2>3, <3>1 DEF Call, Places, NoId, Ids
    <3>2. CASE j # i
      <4>1. calls[j].pc = "wait" /\ j # app.load => calls[j].cancelled
        BY DEF CallsInTurn
      <4> QED BY <2>2, <2>3, <3>2, <4>1 DEF CallsInTurn, Places, Running, NoId, Ids
    <3> QED BY <3>1, <3>2
  <2> QED BY <2>8, <2>9 DEF CallsInTurn
<1>5. CASE Unload
  <2>1. PICK i \in Ids :
          /\ Fresh(i)
          /\ calls' = [calls EXCEPT ![i] = Call("unload", "send", NoKey, NoId)]
          /\ app' = [app EXCEPT !.loadState = "unloading", !.unload = i]
    BY <1>5 DEF Unload
  <2> QED BY <1>5, <2>1, FreshCall, FreshOnly
           DEF AppTypeOK, CallsInTurn, Places, Unsent, LastCall, Call, Running, Ids, Unload
<1>6. CASE SetModelURL
  <2>1. PICK i \in Ids, key \in Keys \ {app.key} :
          /\ Fresh(i)
          /\ GivesUp(i, Call("forget", "send", NoKey, NoId))
          /\ app' = [app EXCEPT !.key = key, !.load = NoId, !.unload = i,
                                !.loadState = "notLoaded"]
    BY <1>6 DEF SetModelURL, GivesUp
  <2>2. /\ calls'[i] = Call("forget", "send", NoKey, NoId)
        /\ \A j \in Ids : j # i =>
             /\ calls'[j].op = calls[j].op /\ calls'[j].pc = calls[j].pc
             /\ calls'[j].key = calls[j].key
             /\ j = app.load => calls'[j].cancelled
             /\ j # app.load => calls'[j] = calls[j]
    BY <2>1, WithoutLoadCall
  <2>3. /\ app'.loadState = "notLoaded" /\ app'.unload = i /\ app'.load = NoId
        /\ app'.run = app.run /\ app'.runState = app.runState
    BY <2>1 DEF AppTypeOK
  <2>4. Settled
    BY <1>6 DEF SetModelURL
  <2>5. calls[i].pc = "none" /\ LastCall(i) /\ calls[i].op = "none"
    BY <2>1, FreshCall
  <2>6. \A j \in Ids : j < i => ~Unsent(j)'
    <3>1. ASSUME NEW j \in Ids, j < i, Unsent(j)'
          PROVE  FALSE
      <4>1. j # i /\ ~(j > i)
        BY <3>1 DEF Ids
      <4>2. Unsent(j)
        BY <2>2, <3>1, <4>1 DEF Unsent
      <4>3. calls[j].pc = "wait" /\ app.load = j
        BY <2>1, <2>4, <4>1, <4>2, FreshOnly
      <4> QED BY <2>2, <3>1, <4>1, <4>3 DEF Unsent
    <3> QED BY <3>1
  <2>7. \A j \in Ids : j > i => calls'[j].pc = "none"
    BY <2>2, <2>5 DEF LastCall, Ids
  <2>8. \A j \in Ids : Unsent(j)' => LastCall(j)'
    BY <2>6, <2>7 DEF LastCall, Ids
  <2>9. ASSUME NEW j \in Ids
        PROVE  /\ calls'[j].pc \in Places(calls'[j].op)
               /\ calls'[j].op = "load" => calls'[j].key \in Keys
               /\ calls'[j].pc = "wait" => calls'[j].cancelled
               /\ app'.load # j
               /\ calls'[j].op = "generate" /\ calls'[j].pc # "done" => Running' /\ app'.run = j
               /\ calls'[j].op = "unload" /\ calls'[j].pc # "done" /\ app'.unload = j
                    => app'.loadState \in {"unloading", "cancelling"}
    <3>1. CASE j = i
      BY <2>2, <2>3, <3>1 DEF Call, Places, NoId, Ids
    <3>2. CASE j # i
      <4>1. calls[j].pc = "wait" /\ j # app.load => calls[j].cancelled
        BY DEF CallsInTurn
      <4> QED BY <2>2, <2>3, <3>2, <4>1 DEF CallsInTurn, Places, Running, NoId, Ids
    <3> QED BY <3>1, <3>2
  <2> QED BY <2>8, <2>9 DEF CallsInTurn
<1>7. CASE Run
  <2>1. PICK i \in Ids :
          /\ Fresh(i)
          /\ calls' = [calls EXCEPT ![i] = Call("generate", "send", NoKey, NoId)]
          /\ app' = [app EXCEPT !.run = i, !.runState = "running", !.cancelPending = FALSE]
    BY <1>7 DEF Run
  <2> QED BY <1>7, <2>1, FreshCall, FreshOnly
           DEF AppTypeOK, CallsInTurn, Places, Unsent, LastCall, Call, Running, Ids, Run
<1>8. CASE Cancel
  BY <1>8 DEF Cancel, AppTypeOK, CallsInTurn, Unsent, LastCall, Running
<1> QED BY <1>2, <1>3, <1>4, <1>5, <1>6, <1>7, <1>8 DEF UserStep

LEMMA StatesAgreeUser ==
  ASSUME AppTypeOK, CallsInTurn, StatesAgree, UserStep
  PROVE  StatesAgree'
<1> USE ServiceAssumption
<1>1. ASSUME NEW i \in Ids, NEW key \in Keys, BeginLoad(i, key), ~Running
      PROVE  StatesAgree'
  <2>1. /\ calls' = [calls EXCEPT ![i] = Call("load", "wait", key, app.unload)]
        /\ app' = [app EXCEPT !.key = key, !.load = i, !.loadState = "loading"]
        /\ Fresh(i)
    BY <1>1 DEF BeginLoad
  <2> QED BY <1>1, <2>1, FreshCall DEF AppTypeOK, StatesAgree, LastCall, Call, Running, Ids
<1>2. CASE Load
  <2>1. \E i \in Ids : BeginLoad(i, app.key)
    BY <1>2 DEF Load
  <2> QED BY <1>1, <1>2, <2>1 DEF Load, AppTypeOK
<1>3. CASE Reload
  BY <1>1, <1>3 DEF Reload
<1>4. CASE CancelLoad \/ SetModelURL
  <2>1. app'.loadState \in {"cancelling", "notLoaded"} /\ app'.runState = app.runState
    BY <1>4 DEF CancelLoad, SetModelURL, AppTypeOK
  <2>2. ~Running
    BY <1>4 DEF CancelLoad, SetModelURL, StatesAgree
  <2> QED BY <2>1, <2>2 DEF StatesAgree, Running
<1>5. CASE Unload
  BY <1>5 DEF Unload, AppTypeOK, StatesAgree, Running
<1>6. CASE Run
  <2>1. PICK i \in Ids :
          /\ Fresh(i)
          /\ calls' = [calls EXCEPT ![i] = Call("generate", "send", NoKey, NoId)]
          /\ app' = [app EXCEPT !.run = i, !.runState = "running", !.cancelPending = FALSE]
    BY <1>6 DEF Run
  <2> QED BY <1>6, <2>1, FreshCall DEF AppTypeOK, StatesAgree, LastCall, Call, Running, Ids, Run,
                                       NoTerminal
<1>7. CASE Cancel
  BY <1>7 DEF Cancel, AppTypeOK, StatesAgree, LastCall, Running
<1> QED BY <1>2, <1>3, <1>4, <1>5, <1>6, <1>7 DEF UserStep

\* A call moves to a place, and no other call does.
LEMMA MoveFacts ==
  ASSUME AppTypeOK, NEW i \in Ids, NEW pc, Move(i, pc)
  PROVE  /\ calls'[i].pc = pc
         /\ calls'[i].op = calls[i].op /\ calls'[i].key = calls[i].key
         /\ calls'[i].cancelled = calls[i].cancelled
         /\ \A j \in Ids : j # i => calls'[j] = calls[j]
BY DEF Move, AppTypeOK

LEMMA CallsInTurnCall ==
  ASSUME AppTypeOK, CallsInTurn, StatesAgree, NEW i \in Ids, CallStep(i)
  PROVE  CallsInTurn'
<1>1. CASE SendLoad(i)
  BY <1>1 DEF SendLoad, Move, Reader, AppTypeOK, CallsInTurn, Places, Unsent,
          LastCall, Running, StatesAgree
<1>2. CASE Send(i)
  BY <1>2 DEF Send, Move, Reader, AppTypeOK, CallsInTurn, Places, Unsent,
          LastCall, Running, StatesAgree
<1>3. CASE ReadLoadAnswer(i)
  BY <1>3 DEF ReadLoadAnswer, Move, Reader, AppTypeOK, CallsInTurn, Places, Unsent,
          LastCall, Running, StatesAgree
<1>4. CASE ReadUnloadAnswer(i)
  BY <1>4 DEF ReadUnloadAnswer, Move, Reader, AppTypeOK, CallsInTurn, Places, Unsent,
          LastCall, Running, StatesAgree
<1>5. CASE SkipForeignEvent(i)
  BY <1>5 DEF SkipForeignEvent, appVars, Move, Reader, AppTypeOK, CallsInTurn, Places, Unsent,
          LastCall, Running, StatesAgree
<1>6. CASE ReadSnapshot(i)
  BY <1>6 DEF ReadSnapshot, Move, Reader, AppTypeOK, CallsInTurn, Places, Unsent,
          LastCall, Running, StatesAgree
<1>7. CASE ReadTerminal(i)
  BY <1>7 DEF ReadTerminal, Move, Reader, AppTypeOK, CallsInTurn, Places, Unsent,
          LastCall, Running, StatesAgree
<1>8. CASE ReadTorn(i)
  <2>1. \E pc \in {"failed", "ended", "unloaded"} :
          /\ Move(i, pc) /\ (pc = "failed" <=> calls[i].op = "load")
          /\ (pc = "ended" <=> calls[i].op = "generate")
    BY <1>8 DEF ReadTorn
  <2>2. calls[i].pc = "read" /\ app' = app
    BY <1>8 DEF ReadTorn, Reader
  <2> QED BY <2>1, <2>2, MoveFacts DEF AppTypeOK, CallsInTurn, Places, Unsent, LastCall, Running
<1>9. CASE ApplyLoad(i)
  <2>1. /\ Move(i, "done") /\ calls[i].op = "load" /\ calls[i].pc \in {"ready", "failed"}
        /\ \/ app' = app
           \/ app.load = i /\ app' = [app EXCEPT !.loadState = calls[i].pc]
    BY <1>9 DEF ApplyLoad
  <2>2. CASE app' = app
    BY <2>1, <2>2, MoveFacts DEF AppTypeOK, CallsInTurn, Places, Unsent, LastCall, Running
  <2>3. CASE app.load = i /\ app' = [app EXCEPT !.loadState = calls[i].pc]
    <3>1. /\ app'.load = i /\ app'.run = app.run /\ app'.runState = app.runState
          /\ app'.unload = app.unload
      BY <2>3 DEF AppTypeOK
    <3>2. \A j \in Ids : calls'[j].pc = "wait" => calls'[j].cancelled
      BY <2>1, <2>3, MoveFacts DEF CallsInTurn
    <3>3. \A j \in Ids : calls'[j].op = "unload" /\ calls'[j].pc # "done" => app.unload # j
      <4>1. app.loadState \notin {"unloading", "cancelling"}
        BY <2>1, <2>3 DEF CallsInTurn
      <4> QED BY <4>1, <2>1, MoveFacts DEF CallsInTurn
    <3>4. \A j \in Ids : Unsent(j)' => LastCall(j)'
      BY <2>1, MoveFacts DEF CallsInTurn, Unsent, LastCall
    <3> QED BY <2>1, <3>1, <3>2, <3>3, <3>4, MoveFacts DEF CallsInTurn, Places, Running
  <2> QED BY <2>1, <2>2, <2>3
<1>10. CASE ApplyUnload(i)
  BY <1>10 DEF ApplyUnload, Move, Reader, AppTypeOK, CallsInTurn, Places, Unsent,
          LastCall, Running, StatesAgree
<1>11. CASE EndStream(i)
  BY <1>11 DEF EndStream, Move, Reader, AppTypeOK, CallsInTurn, Places, Unsent,
          LastCall, Running, StatesAgree
<1> QED BY <1>1, <1>2, <1>3, <1>4, <1>5, <1>6, <1>7, <1>8, <1>9, <1>10, <1>11 DEF CallStep, ReadEvent

LEMMA StatesAgreeCall ==
  ASSUME AppTypeOK, CallsInTurn, StatesAgree, NEW i \in Ids, CallStep(i)
  PROVE  StatesAgree'
<1>1. CASE SendLoad(i)
  <2>1. \E pc \in {"read", "done"} : Move(i, pc) /\ (pc = "done" => calls[i].cancelled)
    BY <1>1 DEF SendLoad
  <2>2. calls[i].pc = "wait" /\ app' = app /\ reading' = reading
    BY <1>1 DEF SendLoad
  <2> QED BY <2>1, <2>2, MoveFacts DEF CallsInTurn, Places, StatesAgree, LastCall, Running
<1>2. CASE Send(i)
  BY <1>2 DEF Send, Move, Reader, AppTypeOK, CallsInTurn, Places,
          LastCall, Running, StatesAgree, NoTerminal, Terminals
<1>3. CASE ReadLoadAnswer(i)
  BY <1>3 DEF ReadLoadAnswer, Move, Reader, AppTypeOK, CallsInTurn, Places,
          LastCall, Running, StatesAgree, NoTerminal, Terminals
<1>4. CASE ReadUnloadAnswer(i)
  BY <1>4 DEF ReadUnloadAnswer, Move, Reader, AppTypeOK, CallsInTurn, Places,
          LastCall, Running, StatesAgree, NoTerminal, Terminals
<1>5. CASE SkipForeignEvent(i)
  BY <1>5 DEF SkipForeignEvent, appVars, Move, Reader, AppTypeOK, CallsInTurn, Places,
          LastCall, Running, StatesAgree, NoTerminal, Terminals
<1>6. CASE ReadSnapshot(i)
  BY <1>6 DEF ReadSnapshot, Move, Reader, AppTypeOK, CallsInTurn, Places,
          LastCall, Running, StatesAgree, NoTerminal, Terminals
<1>7. CASE ReadTerminal(i)
  BY <1>7 DEF ReadTerminal, Move, Reader, AppTypeOK, CallsInTurn, Places,
          LastCall, Running, StatesAgree, NoTerminal, Terminals
<1>8. CASE ReadTorn(i)
  <2>1. \E pc \in {"failed", "ended", "unloaded"} :
          /\ Move(i, pc) /\ (pc = "ended" <=> calls[i].op = "generate")
          /\ IF pc = "ended" THEN reading'.outcome = "failed" ELSE reading' = reading
    BY <1>8 DEF ReadTorn, AppTypeOK
  <2>2. calls[i].pc = "read" /\ app' = app
    BY <1>8 DEF ReadTorn, Reader
  <2> QED BY <2>1, <2>2, MoveFacts
          DEF AppTypeOK, CallsInTurn, Places, StatesAgree, LastCall, Running, NoTerminal
<1>9. CASE ApplyLoad(i)
  <2>1. /\ Move(i, "done") /\ calls[i].op = "load" /\ calls[i].pc \in {"ready", "failed"}
        /\ reading' = reading
        /\ app' = IF app.load = i THEN [app EXCEPT !.loadState = calls[i].pc] ELSE app
    BY <1>9 DEF ApplyLoad
  <2>2. CASE app.load # i
    BY <2>1, <2>2, MoveFacts DEF AppTypeOK, CallsInTurn, StatesAgree, LastCall, Running
  <2>3. CASE app.load = i
    <3>1. /\ app'.load = i /\ app'.runState = app.runState /\ app'.loadState \in {"ready", "failed"}
      BY <2>1, <2>3 DEF AppTypeOK
    <3>2. app.loadState = "loading"
      BY <2>1, <2>3 DEF CallsInTurn
    <3>3. ~Running /\ LastCall(i)
      BY <2>3, <3>2 DEF StatesAgree
    <3>4. \A k \in Ids : k > i => calls'[k].op = "none"
      <4>1. \A k \in Ids : calls[k].pc = "none" => calls[k].op = "none"
        BY DEF CallsInTurn, Places, AppTypeOK
      <4>2. \A k \in Ids : k > i => k # i /\ calls[k].pc = "none"
        BY <3>3, ServiceAssumption DEF LastCall, Ids
      <4> QED BY <2>1, <4>1, <4>2, MoveFacts
    <3> QED BY <2>1, <3>1, <3>3, <3>4, MoveFacts DEF StatesAgree, Running
  <2> QED BY <2>2, <2>3
<1>10. CASE ApplyUnload(i)
  <2>1. /\ Move(i, "done") /\ calls[i].pc = "unloaded" /\ reading' = reading
        /\ \/ app' = app
           \/ /\ calls[i].op = "unload" /\ app.unload = i
              /\ app' = [app EXCEPT !.loadState = "notLoaded"]
    BY <1>10 DEF ApplyUnload
  <2>2. CASE app' = app
    <3>1. calls[i].op \in {"unload", "forget"}
      BY <2>1 DEF CallsInTurn, Places, AppTypeOK
    <3>2. /\ \A j \in Ids : calls'[j].op = calls[j].op
          /\ \A j \in Ids : j # i => calls'[j] = calls[j]
          /\ \A j \in Ids : LastCall(j) => LastCall(j)'
      BY <2>1, MoveFacts DEF LastCall
    <3>3. (app.loadState = "loading" => app.load # i) /\ (app.loadState = "ready" => app.load # i)
          /\ (Running => app.run # i)
      BY <3>1 DEF StatesAgree
    <3> QED BY <2>1, <2>2, <3>2, <3>3 DEF StatesAgree, Running
  <2>3. CASE calls[i].op = "unload" /\ app.unload = i /\ app' = [app EXCEPT !.loadState = "notLoaded"]
    <3>1. app'.loadState = "notLoaded" /\ app'.runState = app.runState
      BY <2>3 DEF AppTypeOK
    <3>2. ~Running
      BY <2>1, <2>3 DEF CallsInTurn, StatesAgree
    <3> QED BY <3>1, <3>2 DEF StatesAgree, Running
  <2> QED BY <2>1, <2>2, <2>3
<1>11. CASE EndStream(i)
  BY <1>11 DEF EndStream, Move, Reader, AppTypeOK, CallsInTurn, Places,
          LastCall, Running, StatesAgree, NoTerminal, Terminals
<1> QED BY <1>1, <1>2, <1>3, <1>4, <1>5, <1>6, <1>7, <1>8, <1>9, <1>10, <1>11 DEF CallStep, ReadEvent

LEMMA CallsUnchanged ==
  ASSUME CallsInTurn, StatesAgree, calls' = calls, app' = app, reading' = reading
  PROVE  CallsInTurn' /\ StatesAgree'
BY DEF CallsInTurn, StatesAgree, Unsent, LastCall, Running

\* The calls and AppModel's state agree after every step.
LEMMA CallsStep ==
  ASSUME AppTypeOK, CallsInTurn, StatesAgree, Next
  PROVE  CallsInTurn' /\ StatesAgree'
<1>1. ASSUME NEW i \in Ids, NEW j \in Ids, Tear(i, j)
      PROVE  CallsInTurn' /\ StatesAgree'
  BY <1>1, CallsUnchanged DEF Tear
<1>2. CASE ServiceStep /\ UNCHANGED appVars
  BY <1>2, CallsUnchanged DEF appVars
<1> QED BY <1>1, <1>2, CallsInTurnUser, StatesAgreeUser, CallsInTurnCall, StatesAgreeCall DEF Next

\* What a call that has sent its command asks for does not change any more.
CallsGoOn ==
  /\ \A j \in Ids : Sent(j) =>
       Sent(j)' /\ calls'[j].op = calls[j].op /\ calls'[j].key = calls[j].key
  /\ Generations \subseteq Generations'

LEMMA CallsGoOnStep ==
  ASSUME AppTypeOK, CallsInTurn, Next
  PROVE  CallsGoOn
<1>1. CASE UNCHANGED calls
  BY <1>1 DEF CallsGoOn, Sent, Unsent, Generations
<1>2. ASSUME NEW i \in Ids, Fresh(i), NEW call,
             calls' = [calls EXCEPT ![i] = call] \/ GivesUp(i, call)
      PROVE  CallsGoOn
  <2>1. \A j \in Ids : j # i =>
          /\ calls'[j].op = calls[j].op /\ calls'[j].pc = calls[j].pc
          /\ calls'[j].key = calls[j].key
          /\ calls[j].cancelled => calls'[j].cancelled
    <3>1. CASE calls' = [calls EXCEPT ![i] = call]
      BY <3>1, NewCall
    <3>2. CASE GivesUp(i, call)
      BY <3>2, WithoutLoadCall
    <3> QED BY <1>2, <3>1, <3>2
  <2>2. ~Sent(i) /\ calls[i].op = "none"
    BY <1>2, FreshCall DEF Sent
  <2> QED BY <2>1, <2>2 DEF CallsGoOn, Sent, Unsent, Generations
<1>3. ASSUME NEW i \in Ids, NEW pc \in {"read", "ready", "failed", "unloaded", "ended", "done"}, Move(i, pc)
      PROVE  CallsGoOn
  BY <1>3, MoveFacts DEF CallsGoOn, Sent, Unsent, Generations
<1>4. CASE UserStep
  BY <1>1, <1>2, <1>4
     DEF UserStep, Load, Reload, BeginLoad, CancelLoad, Unload, SetModelURL, Run, Cancel, GivesUp
<1>5. ASSUME NEW i \in Ids, CallStep(i)
      PROVE  CallsGoOn
  <2>1. UNCHANGED calls \/ \E pc \in {"read", "ready", "failed", "unloaded", "ended", "done"} : Move(i, pc)
    BY <1>5 DEF CallStep, ReadEvent, SendLoad, Send, ReadLoadAnswer, ReadUnloadAnswer,
                SkipForeignEvent, ReadSnapshot, ReadTerminal, ReadTorn, ApplyLoad, ApplyUnload,
                EndStream, appVars
  <2> QED BY <1>1, <1>3, <2>1
<1> QED BY <1>1, <1>4, <1>5 DEF Next, Tear, appVars

\* A command that was made stays the command of its call.
LEMMA MadeStays ==
  ASSUME CallsGoOn, NEW c, Made(c)
  PROVE  Made(c)' /\ calls'[c.id].op = calls[c.id].op
<1>1. /\ c.id \in Ids /\ Sent(c.id)' /\ calls'[c.id].op = calls[c.id].op
      /\ calls'[c.id].key = calls[c.id].key
  BY DEF CallsGoOn, Made
<1> QED BY <1>1 DEF Made, CommandOf

\* A command that is written belongs to the last call, later than all that sent theirs.
LEMMA UnsentIsLater ==
  ASSUME AppTypeOK, CallsInTurn, NEW i \in Ids, Unsent(i), NEW j \in Ids, Sent(j)
  PROVE  j < i
<1>1. calls[j].pc # "none"
  BY DEF Sent, Unsent
<1>2. j # i /\ ~(j > i)
  BY <1>1 DEF Sent, CallsInTurn, LastCall
<1> QED BY <1>2, ServiceAssumption DEF Ids

-----------------------------------------------------------------------------
(* The order of the commands.                                              *)

\* SendLoad and Send write the command of their call.
LEMMA SendWrites ==
  ASSUME AppTypeOK, CallsInTurn, NEW i \in Ids,
         Send(i) \/ (SendLoad(i) /\ ~calls[i].cancelled)
  PROVE  \E x \in Commands :
           /\ commands' = Append(commands, x)
           /\ x.op # "cancel" /\ x.id = i /\ Made(x)'
           /\ Unsent(i) /\ calls[i].op # "none"
           /\ calls'[i].op = calls[i].op /\ calls'[i].pc = "read"
           /\ \A j \in Ids : j # i => calls'[j] = calls[j]
<1>1. CASE Send(i)
  <2>0. PICK x : x = IF calls[i].op = "generate" THEN GenerateCommand(i) ELSE UnloadCommand(i)
    OBVIOUS
  <2>1. /\ commands' = Append(commands, x) /\ Move(i, "read") /\ calls[i].pc = "send"
    BY <1>1, <2>0 DEF Send, Write
  <2>2. x \in Commands /\ x.op # "cancel" /\ x.id = i
    BY <2>0 DEF Commands, GenerateCommand, UnloadCommand
  <2>3. calls[i].op \in {"unload", "forget", "generate"}
    BY <2>1 DEF CallsInTurn, Places, AppTypeOK
  <2>4. calls'[i].op = calls[i].op /\ calls'[i].pc = "read"
    BY <2>1, MoveFacts
  <2>5. x = CommandOf(i)'
    BY <2>0, <2>3, <2>4 DEF CommandOf
  <2>6. Made(x)'
    BY <2>2, <2>3, <2>4, <2>5 DEF Made, Sent, Unsent
  <2> QED BY <2>1, <2>2, <2>3, <2>4, <2>6, MoveFacts DEF Unsent
<1>2. CASE SendLoad(i) /\ ~calls[i].cancelled
  <2>0. PICK x : x = LoadCommand(i, calls[i].key)
    OBVIOUS
  <2>1. /\ commands' = Append(commands, x) /\ Move(i, "read") /\ calls[i].pc = "wait"
    BY <1>2, <2>0 DEF SendLoad, Write
  <2>2. calls[i].op = "load" /\ calls[i].key \in Keys
    BY <2>1 DEF CallsInTurn, Places, AppTypeOK
  <2>3. x \in Commands /\ x.op # "cancel" /\ x.id = i
    BY <2>0, <2>2 DEF Commands, LoadCommand
  <2>4. calls'[i].op = calls[i].op /\ calls'[i].pc = "read" /\ calls'[i].key = calls[i].key
    BY <2>1, MoveFacts
  <2>5. x = CommandOf(i)'
    BY <2>0, <2>2, <2>4 DEF CommandOf
  <2>6. Made(x)'
    BY <2>2, <2>3, <2>4, <2>5 DEF Made, Sent, Unsent
  <2> QED BY <1>2, <2>1, <2>2, <2>3, <2>4, <2>6, MoveFacts DEF Unsent
<1> QED BY <1>1, <1>2

\* A command that is taken is the earliest of those that wait.
LEMMA TakeFacts ==
  ASSUME AppTypeOK, CommandsInOrder, NEW op, TakeCommand(op), commands' = commands
  PROVE  /\ Head(queue) \in Commands /\ Head(queue).op = op
         /\ InOrder(queue') /\ queue' \in Seq(Commands)
         /\ \A c \in Asks(queue'), d \in Asks(commands) : c.id < d.id
         /\ Waiting = Waiting' \cup (IF op = "cancel" THEN {} ELSE {Head(queue)})
         /\ op # "cancel" => /\ Made(Head(queue)) /\ service.cmd.id < Head(queue).id
                             /\ \A c \in Waiting' : Head(queue).id < c.id
<1>1. /\ queue # <<>> /\ queue \in Seq(Commands) /\ Head(queue).op = op
      /\ queue' = Tail(queue) /\ InOrder(queue)
  BY DEF TakeCommand, AppTypeOK, ServiceTypeOK, CommandsInOrder
<1>2. /\ InOrder(Tail(queue)) /\ Head(queue) \in Commands /\ Tail(queue) \in Seq(Commands)
      /\ Asks(queue) = Asks(Tail(queue)) \cup (IF Head(queue).op = "cancel" THEN {} ELSE {Head(queue)})
      /\ Head(queue).op # "cancel" => \A c \in Asks(Tail(queue)) : Head(queue).id < c.id
  BY <1>1, InOrderTail
<1>3. \A c \in Asks(queue), d \in Asks(commands) : c.id < d.id
  BY DEF CommandsInOrder
<1>4. Waiting' = Asks(Tail(queue)) \cup Asks(commands)
  BY <1>1 DEF Waiting
<1>5. op # "cancel" => Made(Head(queue)) /\ service.cmd.id < Head(queue).id
  BY <1>1, <1>2 DEF CommandsInOrder, Waiting
<1> QED BY <1>1, <1>2, <1>3, <1>4, <1>5 DEF Waiting

LEMMA MadeInHand ==
  ASSUME CallsGoOn, NEW c, Made(c), service'.cmd = c
  PROVE  Made(service.cmd)'
<1>1. c.id \in Ids /\ c = CommandOf(c.id)' /\ Sent(c.id)'
  BY MadeStays DEF Made
<1> QED BY <1>1 DEF Made, CommandOf, Sent, Unsent

\* The main loop's steps, as far as the command in hand is concerned.
LEMMA CommandWritten ==
  ASSUME AppTypeOK, CommandsInOrder, CallsGoOn, NEW x \in Commands,
         commands' = Append(commands, x), queue' = queue, service' = service,
         x.op # "cancel" => /\ Made(x)' /\ service.cmd.id < x.id
                            /\ \A c \in Waiting : c.id < x.id
  PROVE  /\ CommandsInOrder'
         /\ Waiting' = Waiting \cup (IF x.op = "cancel" THEN {} ELSE {x})
<1>1. /\ InOrder(commands')
      /\ Asks(commands') = Asks(commands) \cup (IF x.op = "cancel" THEN {} ELSE {x})
  BY InOrderAppend DEF CommandsInOrder, Waiting, AppTypeOK, ServiceTypeOK
<1>2. Waiting' = Waiting \cup (IF x.op = "cancel" THEN {} ELSE {x})
  BY <1>1 DEF Waiting
<1>3. \A c \in Waiting' : Made(c)' /\ service.cmd.id < c.id
  BY <1>2, MadeStays DEF CommandsInOrder
<1>4. \A c \in Asks(queue'), d \in Asks(commands') : c.id < d.id
  BY <1>1 DEF CommandsInOrder, Waiting
<1>5. (service.cmd.op # "cancel" => Made(service.cmd))'
  BY MadeInHand DEF CommandsInOrder
<1> QED BY <1>1, <1>2, <1>3, <1>4, <1>5 DEF CommandsInOrder

LEMMA CommandTaken ==
  ASSUME AppTypeOK, CommandsInOrder, CallsGoOn, NEW op, TakeCommand(op), commands' = commands,
         \/ service' = service
         \/ /\ op = "load" /\ service'.pc = "loading" /\ service'.cmd = Head(queue)
         \/ /\ op = "generate" /\ service'.pc = "reserve" /\ service'.cmd = Head(queue)
  PROVE  CommandsInOrder'
<1>1. /\ InOrder(queue')
      /\ \A c \in Asks(queue'), d \in Asks(commands) : c.id < d.id
      /\ Waiting' \subseteq Waiting /\ Head(queue).op = op
      /\ op # "cancel" => /\ Made(Head(queue)) /\ service.cmd.id < Head(queue).id
                          /\ \A c \in Waiting' : Head(queue).id < c.id
  BY TakeFacts
<1>2. \A c \in Waiting' : Made(c)' /\ service.cmd.id < c.id
  BY <1>1, MadeStays DEF CommandsInOrder
<1>3. (service.cmd.op # "cancel" => Made(service.cmd))'
  BY <1>1, MadeInHand DEF CommandsInOrder
<1>5. CASE service' = service
  BY <1>1, <1>2, <1>3, <1>5 DEF CommandsInOrder
<1>6. CASE service'.cmd = Head(queue) /\ op \in {"load", "generate"}
           /\ service'.pc = IF op = "load" THEN "loading" ELSE "reserve"
  BY <1>1, <1>2, <1>3, <1>6 DEF CommandsInOrder, GeneratePCs
<1> QED BY <1>5, <1>6

LEMMA CommandKept ==
  ASSUME CommandsInOrder, CallsGoOn, commands' = commands, queue' = queue,
         service'.cmd = service.cmd,
         \/ service'.pc \in {service.pc, "next"}
         \/ service.pc \in GeneratePCs /\ service'.pc \in GeneratePCs
  PROVE  CommandsInOrder'
<1>1. Waiting' = Waiting
  BY DEF Waiting
<1>2. \A c \in Waiting' : Made(c)' /\ service.cmd.id < c.id
  BY <1>1, MadeStays DEF CommandsInOrder
<1>3. (service.cmd.op # "cancel" => Made(service.cmd))'
  BY MadeInHand DEF CommandsInOrder
<1> QED BY <1>2, <1>3 DEF CommandsInOrder, GeneratePCs

LEMMA CommandRead ==
  ASSUME AppTypeOK, CommandsInOrder, CallsGoOn, ReadCommand
  PROVE  CommandsInOrder' /\ Waiting' = Waiting
<1>1. /\ commands # <<>> /\ commands' = Tail(commands) /\ queue' = Append(queue, Head(commands))
      /\ service' = service /\ commands \in Seq(Commands) /\ queue \in Seq(Commands)
      /\ InOrder(queue) /\ InOrder(commands)
      /\ \A c \in Asks(queue), d \in Asks(commands) : c.id < d.id
  BY DEF ReadCommand, AppTypeOK, ServiceTypeOK, CommandsInOrder
<1>2. /\ InOrder(queue') /\ InOrder(commands')
      /\ \A c \in Asks(queue'), d \in Asks(commands') : c.id < d.id
      /\ Asks(queue') \cup Asks(commands') = Asks(queue) \cup Asks(commands)
  BY <1>1, InOrderMove
<1>3. Waiting' = Waiting
  BY <1>2 DEF Waiting
<1>4. \A c \in Waiting' : Made(c)' /\ service.cmd.id < c.id
  BY <1>3, MadeStays DEF CommandsInOrder
<1>5. (service.cmd.op # "cancel" => Made(service.cmd))'
  BY <1>1, MadeInHand DEF CommandsInOrder
<1> QED BY <1>1, <1>2, <1>3, <1>4, <1>5 DEF CommandsInOrder

-----------------------------------------------------------------------------
(* What a step does to the connection.                                     *)

LEMMA FramesTyped ==
  ASSUME AppTypeOK
  PROVE  /\ frames \in Seq(Frames) /\ Len(frames) \in Nat
         /\ \A f \in Range(frames) : f \in Frames /\ f.id \in Ids
<1>1. frames \in Seq(Frames)
  BY DEF AppTypeOK, ServiceTypeOK, Frames
<1>2. \A f \in Range(frames) : f \in Frames
  BY <1>1 DEF Range
<1> QED BY <1>1, <1>2 DEF Frames

LEMMA CommandsTyped ==
  ASSUME AppTypeOK
  PROVE  /\ service.cmd \in Commands /\ service.cmd.id \in Nat
         /\ \A c \in Waiting : c \in Commands /\ c.op # "cancel" /\ c.id \in Ids
<1>1. commands \in Seq(Commands) /\ queue \in Seq(Commands) /\ service.cmd \in Commands
  BY DEF AppTypeOK, ServiceTypeOK
<1>2. \A c \in Waiting : c \in Commands /\ c.op # "cancel"
  BY <1>1 DEF Waiting, Asks, Range
<1> QED BY <1>1, <1>2, CommandFacts, ServiceAssumption DEF Ids

\* A generation goes on: the connection and the model are left alone.
GenerationStep ==
  \/ Reserve \/ Attach \/ PublishToken \/ PublishTerminal \/ FinishOutbox \/ JoinWriter
  \/ TaskStep \/ WriterTake

LEMMA GenerationStepKeeps ==
  ASSUME AppTypeOK, GenerationStep
  PROVE  /\ commands' = commands /\ queue' = queue /\ frames' = frames
         /\ session' = session /\ directory' = directory
         /\ service'.cmd = service.cmd
         /\ \/ service'.pc = service.pc
            \/ service.pc \in GeneratePCs /\ service'.pc \in GeneratePCs \cup {"next"}
<1>1. CASE Reserve \/ Attach \/ FinishOutbox \/ JoinWriter
  <2>1. /\ commands' = commands /\ queue' = queue /\ frames' = frames
        /\ session' = session /\ directory' = directory /\ service.pc \in GeneratePCs
        /\ \E pc \in GeneratePCs \cup {"next"} : Goto(pc)
    BY <1>1 DEF Reserve, Attach, FinishOutbox, JoinWriter, At, GeneratePCs
  <2> QED BY <2>1 DEF Goto, AppTypeOK, ServiceTypeOK
<1>2. CASE PublishTerminal
  BY <1>2 DEF PublishTerminal, At, GeneratePCs, AppTypeOK, ServiceTypeOK
<1>3. CASE PublishToken \/ TaskStep \/ WriterTake
  BY <1>3 DEF PublishToken, TaskStep, Yield, EndRun, ClearTask, WriterTake
<1> QED BY <1>1, <1>2, <1>3 DEF GenerationStep

\* The service's steps that a caller could notice, and those of a generation.
LEMMA ServiceSteps ==
  ASSUME ServiceStep
  PROVE  \/ ReadCommand \/ SkipCancel \/ StartLoad \/ FinishLoad \/ HandleUnload
         \/ RefuseGenerate \/ StartGenerate \/ WriterWrite \/ GenerationStep
BY DEF ServiceStep, MainLoop, WriterStep, GenerationStep

\* The application leaves the service alone, cancels, sends the command of a
\* call or takes a frame.
AppCancels == commands' = Append(commands, CancelCommand) /\ UNCHANGED quietService
AppSends(i) == Send(i) \/ (SendLoad(i) /\ ~calls[i].cancelled)
AppReads(i) ==
  \/ ReadLoadAnswer(i) \/ ReadUnloadAnswer(i) \/ ReadEvent(i)

LEMMA AppSteps ==
  ASSUME Next
  PROVE  \/ ServiceStep /\ UNCHANGED appVars
         \/ UNCHANGED serviceVars
         \/ AppCancels
         \/ \E i \in Ids : AppSends(i)
         \/ \E i \in Ids : AppReads(i)
<1>1. ASSUME UserStep
      PROVE  UNCHANGED serviceVars \/ AppCancels
  BY <1>1 DEF UserStep, Load, Reload, BeginLoad, CancelLoad, Unload, SetModelURL, Run, Cancel,
              Write, AppCancels
<1>2. ASSUME NEW i \in Ids, CallStep(i)
      PROVE  UNCHANGED serviceVars \/ AppCancels \/ AppSends(i) \/ AppReads(i)
  BY <1>2 DEF CallStep, AppSends, AppReads, SendLoad, ReadTorn, ApplyLoad, ApplyUnload, EndStream,
              Write, AppCancels, serviceVars, quietService
<1>3. ASSUME NEW i \in Ids, NEW j \in Ids, Tear(i, j)
      PROVE  UNCHANGED serviceVars
  BY <1>3 DEF Tear
<1> QED BY <1>1, <1>2, <1>3 DEF Next

LEMMA ReadsTakeFrame ==
  ASSUME NEW i \in Ids, AppReads(i)
  PROVE  Reader(i) /\ ~torn /\ TakeFrame /\ frames # <<>> /\ app' = app
BY DEF AppReads, ReadEvent, ReadLoadAnswer, ReadUnloadAnswer, SkipForeignEvent, ReadSnapshot,
       ReadTerminal, Reader, appVars

LEMMA SendsKeepService ==
  ASSUME NEW i \in Ids, AppSends(i)
  PROVE  UNCHANGED quietService /\ app' = app /\ reading' = reading /\ transcript' = transcript
BY DEF AppSends, Send, SendLoad

\* The number of a call whose command is to be written is behind all in use.
LEMMA SendIsLater ==
  ASSUME AppTypeOK, CallsInTurn, CommandsInOrder, FramesInOrder, NEW i \in Ids, Unsent(i)
  PROVE  /\ service.cmd.id < i
         /\ \A c \in Waiting : c.id < i
         /\ \A f \in Range(frames) : f.id < i
<1>1. ASSUME service.cmd.op = "cancel" PROVE service.cmd.id < i
  <2>1. service.cmd \in Commands
    BY DEF AppTypeOK, ServiceTypeOK
  <2>2. service.cmd.id = 0
    BY <1>1, <2>1, CommandFacts
  <2> QED BY <2>2, ServiceAssumption DEF Ids
<1>2. ASSUME service.cmd.op # "cancel" PROVE service.cmd.id < i
  BY <1>2, UnsentIsLater DEF CommandsInOrder, Made
<1>3. \A c \in Waiting : c.id < i
  BY UnsentIsLater, CommandsTyped DEF CommandsInOrder, Made
<1>4. \A f \in Range(frames) : f.id \in Ids
  BY FramesTyped
<1>5. \A f \in Range(frames) : f.id < i
  BY <1>4, UnsentIsLater DEF FramesInOrder
<1> QED BY <1>1, <1>2, <1>3, <1>5

LEMMA CommandsInOrderStep ==
  ASSUME AppTypeOK, CallsInTurn, CommandsInOrder, FramesInOrder, CallsGoOn, Next
  PROVE  CommandsInOrder'
<1>1. ASSUME commands' = commands, queue' = queue, service' = service
      PROVE  CommandsInOrder'
  BY <1>1, CommandKept
<1>2. CASE UNCHANGED serviceVars
  BY <1>1, <1>2 DEF serviceVars
<1>3. CASE AppCancels
  <2>1. CancelCommand \in Commands /\ CancelCommand.op = "cancel"
    BY DEF Commands, CancelCommand
  <2> QED BY <1>3, <2>1, CommandWritten DEF AppCancels, quietService
<1>4. ASSUME NEW i \in Ids, AppSends(i)
      PROVE  CommandsInOrder'
  <2>1. PICK x \in Commands :
          commands' = Append(commands, x) /\ x.op # "cancel" /\ x.id = i /\ Made(x)' /\ Unsent(i)
    BY <1>4, SendWrites DEF AppSends
  <2>2. queue' = queue /\ service' = service
    BY <1>4, SendsKeepService DEF quietService
  <2>3. service.cmd.id < i /\ \A c \in Waiting : c.id < i
    BY <2>1, SendIsLater
  <2> QED BY <2>1, <2>2, <2>3, CommandWritten
<1>5. ASSUME NEW i \in Ids, AppReads(i)
      PROVE  CommandsInOrder'
  BY <1>1, <1>5, ReadsTakeFrame DEF TakeFrame
<1>6. CASE ReadCommand
  BY <1>6, CommandRead
<1>7. CASE SkipCancel \/ StartLoad \/ HandleUnload \/ RefuseGenerate \/ StartGenerate
  <2>1. \E op \in {"cancel", "load", "unload", "generate"} :
          /\ TakeCommand(op) /\ commands' = commands
          /\ \/ service' = service
             \/ /\ op = "load" /\ service'.pc = "loading" /\ service'.cmd = Head(queue)
             \/ /\ op = "generate" /\ service'.pc = "reserve" /\ service'.cmd = Head(queue)
    BY <1>7 DEF SkipCancel, StartLoad, HandleUnload, RefuseGenerate, StartGenerate, generationVars
  <2> QED BY <2>1, CommandTaken
<1>8. CASE FinishLoad
  <2>1. /\ commands' = commands /\ queue' = queue
        /\ service'.cmd = service.cmd /\ service'.pc = "next"
    BY <1>8 DEF FinishLoad, Goto, AppTypeOK, ServiceTypeOK
  <2> QED BY <2>1, CommandKept
<1>9. CASE WriterWrite
  BY <1>1, <1>9 DEF WriterWrite
<1>10. CASE GenerationStep
  BY <1>10, GenerationStepKeeps, CommandKept
<1> QED BY <1>2, <1>3, <1>4, <1>5, <1>6, <1>7, <1>8, <1>9, <1>10, AppSteps, ServiceSteps

-----------------------------------------------------------------------------
(* The order of the frames.                                                *)

\* Frames that were there, fewer of them or all.
LEMMA FramesKept ==
  ASSUME AppTypeOK, FramesInOrder, CallsGoOn,
         frames' = frames \/ (frames # <<>> /\ frames' = Tail(frames)),
         \A c \in Waiting' : c \in Waiting \/ \A f \in Range(frames) : f.id < c.id,
         service'.pc = "loading" => \A f \in Range(frames) : f.id < service'.cmd.id,
         service'.pc \in GeneratePCs => \A f \in Range(frames) : f.id <= service'.cmd.id
  PROVE  FramesInOrder'
<1>1. Ordered(frames', Generations) /\ Range(frames') \subseteq Range(frames)
  BY OrderedTail, FramesTyped DEF FramesInOrder
<1>2. Ordered(frames', Generations')
  BY <1>1, OrderedMore DEF CallsGoOn
<1>3. \A f \in Range(frames) : f.id \in Ids /\ Sent(f.id)
  BY FramesTyped DEF FramesInOrder
<1>4. \A f \in Range(frames') : Sent(f.id)'
  BY <1>1, <1>3 DEF CallsGoOn
<1>5. \A f \in Range(frames'), c \in Waiting' : f.id < c.id
  BY <1>1 DEF FramesInOrder
<1> QED BY <1>1, <1>2, <1>4, <1>5 DEF FramesInOrder

\* Frames of the last call that was answered, or of a later one, are added.
LEMMA FramesAdded ==
  ASSUME AppTypeOK, FramesInOrder, CallsGoOn, NEW id \in Ids, Sent(id),
         Ordered(frames', Generations),
         \A f \in Range(frames') : f \in Range(frames) \/ f.id = id,
         \A c \in Waiting' : c \in Waiting /\ id < c.id,
         service'.pc # "loading",
         service'.pc \in GeneratePCs =>
           /\ id = service'.cmd.id
           /\ \A f \in Range(frames) : f.id <= service'.cmd.id
  PROVE  FramesInOrder'
<1>1. Ordered(frames', Generations')
  BY OrderedMore DEF CallsGoOn
<1>2. \A f \in Range(frames') : f.id \in Ids /\ Sent(f.id)
  BY FramesTyped DEF FramesInOrder
<1>3. \A f \in Range(frames') : Sent(f.id)'
  BY <1>2 DEF CallsGoOn
<1>4. \A f \in Range(frames'), c \in Waiting' : f.id < c.id
  BY DEF FramesInOrder
<1>5. service'.pc \in GeneratePCs => \A f \in Range(frames') : f.id <= service'.cmd.id
  BY <1>2, ServiceAssumption DEF Ids
<1> QED BY <1>1, <1>3, <1>4, <1>5 DEF FramesInOrder

\* One frame goes behind those that were there.
LEMMA FrameBehind ==
  ASSUME AppTypeOK, Ordered(frames, Generations), NEW x \in Frames,
         \A f \in Range(frames) : f.id < x.id, frames' = Append(frames, x)
  PROVE  /\ Ordered(frames', Generations)
         /\ Range(frames') = Range(frames) \cup {x}
BY OrderedAppend, AppendRange, FramesTyped

\* A writer writes at most a snapshot and an ending, of the generation in hand.
LEMMA WriterFrames ==
  ASSUME AppTypeOK, CommandsInOrder, WriterAgrees, WriterWrite
  PROVE  \E s \in Frames, e \in Frames :
           /\ s.id = service.cmd.id /\ s.kind = "snapshot"
           /\ s.sequence = outbox.sequence /\ s.text = writer.text
           /\ e.id = service.cmd.id /\ e.kind \in Terminals
           /\ writer.terminal # NoTerminal => e.kind = writer.terminal
           /\ writer.text = <<>> /\ writer.terminal = NoTerminal => frames' = frames
           /\ writer.text # <<>> /\ writer.terminal = NoTerminal => frames' = Append(frames, s)
           /\ writer.text = <<>> /\ writer.terminal # NoTerminal => frames' = Append(frames, e)
           /\ writer.text # <<>> /\ writer.terminal # NoTerminal =>
                frames' = Append(Append(frames, s), e)
<1>1. service.pc \in GeneratePCs
  BY DEF WriterAgrees, WriterWrite
<1>2. service.cmd.id \in Ids
  BY <1>1 DEF CommandsInOrder, Made
<1>3. PICK s : s = Frame("snapshot", service.cmd.id, outbox.sequence, writer.text)
  OBVIOUS
<1>4. PICK e : e = Event(IF writer.terminal = NoTerminal THEN "failed" ELSE writer.terminal,
                         service.cmd.id)
  OBVIOUS
<1>5. /\ s \in Frames /\ s.id = service.cmd.id /\ s.kind = "snapshot"
      /\ s.sequence = outbox.sequence /\ s.text = writer.text
  BY <1>2, <1>3 DEF Frame, Frames, AppTypeOK, ServiceTypeOK
<1>6. /\ e \in Frames /\ e.id = service.cmd.id /\ e.kind \in Terminals
      /\ writer.terminal # NoTerminal => e.kind = writer.terminal
  <2>1. <<>> \in Seq(1..MaxText) /\ 0 \in 0..(MaxText + 1)
    BY ServiceAssumption
  <2> QED BY <1>2, <1>4, <2>1 DEF Event, Frame, Frames, Terminals, NoTerminal, AppTypeOK, ServiceTypeOK
<1>7. /\ Snapshot = IF writer.text = <<>> THEN <<>> ELSE <<s>>
      /\ Ending = IF writer.terminal = NoTerminal THEN <<>> ELSE <<e>>
  BY <1>3, <1>4 DEF Snapshot, Ending
<1>8. /\ frames' = frames \o Snapshot \o Ending
      /\ frames \in Seq(Frames)
  BY FramesTyped DEF WriterWrite
<1>9. /\ frames \o <<>> = frames
      /\ frames \o <<s>> = Append(frames, s)
      /\ frames \o <<e>> = Append(frames, e)
      /\ frames \o <<s>> \o <<e>> = Append(Append(frames, s), e)
  BY <1>5, <1>6, <1>8
<1>10. ASSUME writer.text = <<>>, writer.terminal = NoTerminal
       PROVE  frames' = frames
  <2>1. frames' = (frames \o <<>>) \o <<>>
    BY <1>7, <1>8, <1>10
  <2> QED BY <1>9, <2>1
<1>11. ASSUME writer.text # <<>>, writer.terminal = NoTerminal
       PROVE  frames' = Append(frames, s)
  <2>1. frames' = (frames \o <<s>>) \o <<>>
    BY <1>7, <1>8, <1>11
  <2>2. Append(frames, s) \o <<>> = Append(frames, s)
    BY <1>5, <1>8
  <2> QED BY <1>9, <2>1, <2>2
<1>12. ASSUME writer.text = <<>>, writer.terminal # NoTerminal
       PROVE  frames' = Append(frames, e)
  <2>1. frames' = (frames \o <<>>) \o <<e>>
    BY <1>7, <1>8, <1>12
  <2> QED BY <1>9, <2>1
<1>13. ASSUME writer.text # <<>>, writer.terminal # NoTerminal
       PROVE  frames' = Append(Append(frames, s), e)
  <2>1. frames' = (frames \o <<s>>) \o <<e>>
    BY <1>7, <1>8, <1>13
  <2> QED BY <1>9, <2>1
<1> QED BY <1>5, <1>6, <1>10, <1>11, <1>12, <1>13

LEMMA WriterOrder ==
  ASSUME AppTypeOK, CommandsInOrder, FramesInOrder, WriterAgrees, WriterWrite
  PROVE  /\ Ordered(frames', Generations)
         /\ \A f \in Range(frames') : f \in Range(frames) \/ f.id = service.cmd.id
         /\ Range(frames) \subseteq Range(frames')
         /\ service.pc \in GeneratePCs /\ service.cmd.id \in Generations
<1>1. service.pc \in GeneratePCs
  BY DEF WriterAgrees, WriterWrite
<1>2. service.cmd.id \in Generations
  BY <1>1 DEF CommandsInOrder, Made, CommandOf, Generations, LoadCommand, GenerateCommand, UnloadCommand
<1>3. \A f \in Range(frames) : f.id < service.cmd.id \/ f.id = service.cmd.id
  BY <1>1, FramesTyped, CommandsTyped DEF FramesInOrder, Ids
<1>4. PICK s \in Frames, e \in Frames :
        /\ s.id = service.cmd.id /\ e.id = service.cmd.id
        /\ \/ frames' = frames \/ frames' = Append(frames, s) \/ frames' = Append(frames, e)
           \/ frames' = Append(Append(frames, s), e)
  BY WriterFrames
<1>5. Ordered(frames, Generations) /\ frames \in Seq(Frames)
  BY FramesTyped DEF FramesInOrder
<1>6. ASSUME NEW x \in Frames, x.id = service.cmd.id
      PROVE  /\ Ordered(Append(frames, x), Generations)
             /\ Append(frames, x) \in Seq(Frames)
             /\ Range(Append(frames, x)) = Range(frames) \cup {x}
  BY <1>2, <1>3, <1>5, <1>6, OrderedAppend, AppendRange
<1>7. /\ Ordered(Append(Append(frames, s), e), Generations)
      /\ Range(Append(Append(frames, s), e)) = Range(frames) \cup {s, e}
  <2> DEFINE p == Append(frames, s)
  <2>1. Ordered(p, Generations) /\ p \in Seq(Frames) /\ Range(p) = Range(frames) \cup {s}
    BY <1>4, <1>6
  <2> HIDE DEF p
  <2>2. \A f \in Range(p) : f.id < e.id \/ (f.id = e.id /\ e.id \in Generations)
    BY <1>2, <1>3, <1>4, <2>1
  <2>3. Ordered(Append(p, e), Generations) /\ Range(Append(p, e)) = Range(p) \cup {e}
    BY <2>1, <2>2, OrderedAppend, AppendRange
  <2> QED BY <2>1, <2>3 DEF p
<1>8. /\ Ordered(frames', Generations)
      /\ Range(frames') \subseteq Range(frames) \cup {s, e}
      /\ Range(frames) \subseteq Range(frames')
  <2>1. CASE frames' = frames
    BY <1>5, <2>1
  <2>2. CASE frames' = Append(frames, s)
    BY <1>4, <1>6, <2>2
  <2>3. CASE frames' = Append(frames, e)
    BY <1>4, <1>6, <2>3
  <2>4. CASE frames' = Append(Append(frames, s), e)
    BY <1>7, <2>4
  <2> QED BY <1>4, <2>1, <2>2, <2>3, <2>4
<1> QED BY <1>1, <1>2, <1>4, <1>8

LEMMA FramesInOrderStep ==
  ASSUME AppTypeOK, CallsInTurn, CommandsInOrder, FramesInOrder, WriterAgrees, CallsGoOn, Next
  PROVE  FramesInOrder'
<1> USE DEF At, quietService, generationVars
<1>1. ASSUME frames' = frames \/ (frames # <<>> /\ frames' = Tail(frames)),
             service' = service, Waiting' \subseteq Waiting
      PROVE  FramesInOrder'
  <2>1. /\ service.pc = "loading" => \A f \in Range(frames) : f.id < service.cmd.id
        /\ service.pc \in GeneratePCs => \A f \in Range(frames) : f.id <= service.cmd.id
    BY DEF FramesInOrder
  <2> QED BY <1>1, <2>1, FramesKept
<1>2. CASE UNCHANGED serviceVars
  BY <1>1, <1>2 DEF serviceVars, Waiting
<1>3. CASE AppCancels
  <2>1. CancelCommand \in Commands /\ CancelCommand.op = "cancel"
    BY DEF Commands, CancelCommand
  <2>2. Waiting' = Waiting
    BY <1>3, <2>1, CommandWritten DEF AppCancels
  <2> QED BY <1>1, <1>3, <2>2 DEF AppCancels
<1>4. ASSUME NEW i \in Ids, AppSends(i)
      PROVE  FramesInOrder'
  <2>1. PICK x \in Commands :
          commands' = Append(commands, x) /\ x.op # "cancel" /\ x.id = i /\ Made(x)' /\ Unsent(i)
    BY <1>4, SendWrites DEF AppSends
  <2>2. queue' = queue /\ service' = service /\ frames' = frames
    BY <1>4, SendsKeepService
  <2>3. /\ service.cmd.id < i /\ \A c \in Waiting : c.id < i
        /\ \A f \in Range(frames) : f.id < i
    BY <2>1, SendIsLater
  <2>4. Waiting' = Waiting \cup {x}
    BY <2>1, <2>2, <2>3, CommandWritten
  <2>5. \A c \in Waiting' : c \in Waiting \/ \A f \in Range(frames) : f.id < c.id
    BY <2>1, <2>3, <2>4
  <2>6. /\ service.pc = "loading" => \A f \in Range(frames) : f.id < service.cmd.id
        /\ service.pc \in GeneratePCs => \A f \in Range(frames) : f.id <= service.cmd.id
    BY DEF FramesInOrder
  <2> QED BY <2>2, <2>5, <2>6, FramesKept
<1>5. ASSUME NEW i \in Ids, AppReads(i)
      PROVE  FramesInOrder'
  BY <1>1, <1>5, ReadsTakeFrame DEF TakeFrame, Waiting
<1>6. CASE ReadCommand
  BY <1>1, <1>6, CommandRead DEF ReadCommand
<1>7. CASE SkipCancel
  BY <1>1, <1>7, TakeFacts DEF SkipCancel
<1>8. CASE StartLoad \/ StartGenerate
  <2>1. \E op \in {"load", "generate"} :
          /\ TakeCommand(op) /\ commands' = commands /\ frames' = frames
          /\ service'.cmd = Head(queue)
    BY <1>8 DEF StartLoad, StartGenerate
  <2>2. /\ Waiting' \subseteq Waiting /\ Head(queue) \in Waiting /\ frames' = frames
        /\ service'.cmd = Head(queue)
    BY <2>1, TakeFacts
  <2>3. \A f \in Range(frames) : f.id < Head(queue).id /\ f.id \in Int /\ Head(queue).id \in Int
    BY <2>2, FramesTyped, CommandsTyped DEF FramesInOrder, Ids
  <2> QED BY <2>2, <2>3, FramesKept
<1>9. CASE HandleUnload \/ RefuseGenerate
  <2>1. \E op \in {"unload", "generate"}, kind \in {"unloaded", "failed"} :
          /\ TakeCommand(op) /\ commands' = commands /\ service' = service
          /\ frames' = Append(frames, Event(kind, Head(queue).id))
    BY <1>9 DEF HandleUnload, RefuseGenerate, Reply
  <2>2. PICK kind \in {"unloaded", "failed"} :
          frames' = Append(frames, Event(kind, Head(queue).id))
    BY <2>1
  <2>3. /\ Waiting' \subseteq Waiting /\ Head(queue) \in Waiting /\ Made(Head(queue))
        /\ \A c \in Waiting' : Head(queue).id < c.id
    BY <2>1, TakeFacts
  <2>4. PICK x : x = Event(kind, Head(queue).id)
    OBVIOUS
  <2>5. x \in Frames /\ x.id = Head(queue).id /\ x.id \in Ids /\ Sent(x.id)
    BY <2>3, <2>4, ServiceAssumption DEF Event, Frame, Frames, Made, Terminals
  <2>6. \A f \in Range(frames) : f.id < x.id
    BY <2>3, <2>5 DEF FramesInOrder
  <2>7. /\ Ordered(frames', Generations) /\ Range(frames') = Range(frames) \cup {x}
    BY <2>2, <2>4, <2>5, <2>6, FrameBehind DEF FramesInOrder
  <2>8. service'.pc = "next"
    BY <2>1 DEF TakeCommand
  <2> QED BY <2>3, <2>5, <2>7, <2>8, FramesAdded DEF GeneratePCs
<1>10. CASE FinishLoad
  <2>1. PICK kind \in {"ready", "failed"} :
          /\ frames' = Append(frames, Event(kind, service.cmd.id))
          /\ service.pc = "loading" /\ service'.pc = "next" /\ UNCHANGED <<commands, queue>>
    BY <1>10 DEF FinishLoad, Reply, Goto, AppTypeOK, ServiceTypeOK
  <2>2. service.cmd.id \in Ids /\ Sent(service.cmd.id)
    BY <2>1 DEF CommandsInOrder, Made
  <2>3. PICK x : x = Event(kind, service.cmd.id)
    OBVIOUS
  <2>4. x \in Frames /\ x.id = service.cmd.id
    BY <2>2, <2>3, ServiceAssumption DEF Event, Frame, Frames, Terminals
  <2>5. \A f \in Range(frames) : f.id < x.id
    BY <2>1, <2>4 DEF FramesInOrder
  <2>6. /\ Ordered(frames', Generations) /\ Range(frames') = Range(frames) \cup {x}
    BY <2>1, <2>3, <2>4, <2>5, FrameBehind DEF FramesInOrder
  <2>7. \A c \in Waiting' : c \in Waiting /\ service.cmd.id < c.id
    BY <2>1 DEF CommandsInOrder, Waiting
  <2> QED BY <2>1, <2>2, <2>4, <2>6, <2>7, FramesAdded DEF GeneratePCs
<1>11. CASE WriterWrite
  <2>1. /\ Ordered(frames', Generations)
        /\ \A f \in Range(frames') : f \in Range(frames) \/ f.id = service.cmd.id
        /\ service.pc \in GeneratePCs
    BY <1>11, WriterOrder
  <2>2. service.cmd.id \in Ids /\ Sent(service.cmd.id)
    BY <2>1 DEF CommandsInOrder, Made
  <2>3. service' = service /\ Waiting' = Waiting
    BY <1>11 DEF WriterWrite, Waiting
  <2>4. \A c \in Waiting : service.cmd.id < c.id
    BY DEF CommandsInOrder
  <2>5. \A f \in Range(frames) : f.id <= service.cmd.id
    BY <2>1 DEF FramesInOrder
  <2> QED BY <2>1, <2>2, <2>3, <2>4, <2>5, FramesAdded DEF GeneratePCs
<1>12. CASE GenerationStep
  <2>1. /\ Waiting' = Waiting /\ frames' = frames /\ service'.cmd = service.cmd
        /\ \/ service'.pc = service.pc
           \/ service.pc \in GeneratePCs /\ service'.pc \in GeneratePCs \cup {"next"}
    BY <1>12, GenerationStepKeeps DEF Waiting
  <2>2. /\ service.pc = "loading" => \A f \in Range(frames) : f.id < service.cmd.id
        /\ service.pc \in GeneratePCs => \A f \in Range(frames) : f.id <= service.cmd.id
    BY DEF FramesInOrder
  <2> QED BY <2>1, <2>2, FramesKept DEF GeneratePCs
<1> QED BY <1>2, <1>3, <1>4, <1>5, <1>6, <1>7, <1>8, <1>9, <1>10, <1>11, <1>12, AppSteps, ServiceSteps

-----------------------------------------------------------------------------
(* What was loaded stays loaded.                                           *)

Ordering == CommandsInOrder /\ FramesInOrder /\ WriterAgrees

\* AppModel's load goes on, is given up, or a new one begins; it is answered when
\* its call reads the answer.
LEMMA LoadGoesOn ==
  ASSUME AppTypeOK, CallsInTurn, StatesAgree, Next
  PROVE  \/ app'.loadState \notin {"ready", "loading"}
         \/ \E i \in Ids :
              /\ Unsent(i) /\ app'.load = i /\ app'.loadState = "loading"
              /\ calls'[i].pc = "wait" /\ UNCHANGED serviceVars
         \/ /\ app'.load = app.load /\ app'.key = app.key
            /\ app.loadState \in {"ready", "loading"}
            /\ app'.loadState = "loading" => app.loadState = "loading"
            /\ \/ Answered' => Answered
               \/ /\ app.loadState = "loading" /\ app.load \in Ids /\ ReadLoadAnswer(app.load)
                  /\ Head(frames) = Event("ready", app.load)
<1> DEFINE Lost == app'.loadState \notin {"ready", "loading"}
           Begun(i) == /\ Unsent(i) /\ app'.load = i /\ app'.loadState = "loading"
                       /\ calls'[i].pc = "wait" /\ UNCHANGED serviceVars
           Same == /\ app'.load = app.load /\ app'.key = app.key
                   /\ app.loadState \in {"ready", "loading"}
                   /\ app'.loadState = "loading" => app.loadState = "loading"
                   /\ \/ Answered' => Answered
                      \/ /\ app.loadState = "loading" /\ app.load \in Ids
                         /\ ReadLoadAnswer(app.load)
                         /\ Head(frames) = Event("ready", app.load)
           Goal == Lost \/ (\E i \in Ids : Begun(i)) \/ Same
<1>1. ASSUME NEW i \in Ids, NEW key \in Keys, BeginLoad(i, key)
      PROVE  Begun(i)
  <2>1. /\ calls' = [calls EXCEPT ![i] = Call("load", "wait", key, app.unload)]
        /\ app' = [app EXCEPT !.key = key, !.load = i, !.loadState = "loading"]
        /\ calls[i].pc = "none" /\ UNCHANGED serviceVars
    BY <1>1 DEF BeginLoad, Fresh
  <2> QED BY <2>1 DEF AppTypeOK, Call, Unsent
<1>2. ASSUME Load \/ Reload
      PROVE  Goal
  <2>1. \E i \in Ids, key \in Keys : BeginLoad(i, key)
    BY <1>2 DEF Load, Reload, AppTypeOK
  <2> QED BY <1>1, <2>1
<1>3. ASSUME CancelLoad \/ Unload \/ SetModelURL
      PROVE  Goal
  BY <1>3 DEF CancelLoad, Unload, SetModelURL, AppTypeOK
<1>4. ASSUME app'.loadState = app.loadState, app'.load = app.load, app'.key = app.key,
             app.load \in Ids /\ calls'[app.load].pc = "ready" => calls[app.load].pc = "ready"
      PROVE  Lost \/ Same
  BY <1>4 DEF Answered, StatesAgree
<1>5. ASSUME Run
      PROVE  Goal
  <2>1. PICK i \in Ids :
          /\ calls' = [calls EXCEPT ![i] = Call("generate", "send", NoKey, NoId)]
          /\ app' = [app EXCEPT !.run = i, !.runState = "running", !.cancelPending = FALSE]
    BY <1>5 DEF Run
  <2>2. app'.loadState = app.loadState /\ app'.load = app.load /\ app'.key = app.key
    BY <2>1 DEF AppTypeOK
  <2>3. calls'[app.load].pc = "ready" /\ app.load \in Ids => calls[app.load].pc = "ready"
    BY <2>1 DEF AppTypeOK, Call
  <2> QED BY <1>4, <2>2, <2>3
<1>6. ASSUME Cancel
      PROVE  Goal
  BY <1>4, <1>6 DEF Cancel, AppTypeOK
<1>7. ASSUME app' = app, UNCHANGED calls
      PROVE  Lost \/ Same
  BY <1>4, <1>7
<1>8. ASSUME NEW i \in Ids, NEW pc \in {"read", "failed", "unloaded", "ended", "done"}, Move(i, pc),
             app' = app
      PROVE  Lost \/ Same
  BY <1>4, <1>8, MoveFacts
<1>9. ASSUME NEW i \in Ids, ReadLoadAnswer(i), Move(i, "ready")
      PROVE  Lost \/ Same
  <2>1. app' = app /\ Head(frames) = Event("ready", i)
    BY <1>9, MoveFacts DEF ReadLoadAnswer
  <2>2. CASE app.load = i
    <3>1. app.loadState = "loading"
      BY <1>9, <2>2 DEF ReadLoadAnswer, Reader, CallsInTurn
    <3> QED BY <1>9, <2>1, <2>2, <3>1
  <2>3. CASE app.load # i
    <3>1. app.load \in Ids /\ calls'[app.load].pc = "ready" => calls[app.load].pc = "ready"
      BY <1>9, <2>3, MoveFacts
    <3> QED BY <1>4, <2>1, <3>1
  <2> QED BY <2>2, <2>3
<1>10. ASSUME NEW i \in Ids, ApplyLoad(i)
       PROVE  Lost \/ Same
  <2>1. /\ Move(i, "done") /\ calls[i].op = "load" /\ calls[i].pc \in {"ready", "failed"}
        /\ app' = IF app.load = i THEN [app EXCEPT !.loadState = calls[i].pc] ELSE app
    BY <1>10 DEF ApplyLoad
  <2>2. CASE app.load # i
    BY <1>8, <2>1, <2>2
  <2>3. CASE app.load = i
    <3>1. app.loadState = "loading"
      BY <2>1, <2>3 DEF CallsInTurn
    <3>2. app'.load = app.load /\ app'.key = app.key /\ app'.loadState = calls[i].pc
      BY <2>1, <2>3 DEF AppTypeOK
    <3> QED BY <2>1, <2>3, <3>1, <3>2 DEF Answered
  <2> QED BY <2>2, <2>3
<1>11. ASSUME NEW i \in Ids, ApplyUnload(i)
       PROVE  Lost \/ Same
  <2>1. CASE app' = app
    BY <1>8, <1>11, <2>1 DEF ApplyUnload
  <2>2. CASE app' = [app EXCEPT !.loadState = "notLoaded"]
    BY <2>2 DEF AppTypeOK
  <2> QED BY <1>11, <2>1, <2>2 DEF ApplyUnload
<1>12. ASSUME NEW i \in Ids, EndStream(i)
       PROVE  Lost \/ Same
  <2>1. app'.load = app.load /\ app'.key = app.key /\ app'.loadState = app.loadState
    BY <1>12 DEF EndStream, AppTypeOK
  <2>2. calls'[app.load].pc = "ready" /\ app.load \in Ids => calls[app.load].pc = "ready"
    BY <1>12, MoveFacts DEF EndStream
  <2> QED BY <1>4, <2>1, <2>2
<1>13. ASSUME NEW i \in Ids, CallStep(i)
       PROVE  Lost \/ Same
  <2>1. \/ app' = app /\ UNCHANGED calls
        \/ /\ app' = app
           /\ \E pc \in {"read", "failed", "unloaded", "ended", "done"} : Move(i, pc)
        \/ ReadLoadAnswer(i) /\ Move(i, "ready")
        \/ ApplyLoad(i) \/ ApplyUnload(i) \/ EndStream(i)
    BY <1>13 DEF CallStep, ReadEvent, SendLoad, Send, ReadLoadAnswer, ReadUnloadAnswer,
                 SkipForeignEvent, ReadSnapshot, ReadTerminal, ReadTorn, appVars
  <2> HIDE DEF Lost, Same
  <2> QED BY <1>7, <1>8, <1>9, <1>10, <1>11, <1>12, <2>1
<1> HIDE DEF Lost, Same, Begun
<1>14. ASSUME UserStep
      PROVE  Goal
  <2>1. Goal \/ Cancel \/ Run \/ CancelLoad \/ Unload \/ SetModelURL
    BY <1>2, <1>14 DEF UserStep
  <2> QED BY <1>3, <1>5, <1>6, <2>1
<1>15. ASSUME ServiceStep /\ UNCHANGED appVars
      PROVE  Goal
  BY <1>7, <1>15 DEF appVars
<1>16. ASSUME NEW i \in Ids, NEW j \in Ids, Tear(i, j)
       PROVE  Goal
  BY <1>7, <1>16 DEF Tear
<1>17. Goal
  BY <1>13, <1>14, <1>15, <1>16 DEF Next
<1> QED BY <1>17 DEF Lost, Same, Begun

\* Nothing but generations waits when the load that counts has been done.
LEMMA OnlyGenerationsWait ==
  ASSUME AppTypeOK, CallsInTurn, StatesAgree, CommandsInOrder,
         app.loadState \in {"ready", "loading"}, NEW c \in Waiting, c.id > app.load
  PROVE  c.op = "generate"
<1>1. c.id \in Ids /\ Sent(c.id) /\ c = CommandOf(c.id)
  BY DEF CommandsInOrder, Made
<1>2. calls[c.id].op # "none" /\ calls[c.id].pc # "none"
  BY <1>1 DEF Sent, Unsent
<1>3. calls[c.id].op = "generate"
  BY <1>1, <1>2 DEF StatesAgree, LastCall
<1> QED BY <1>1, <1>3 DEF CommandOf, GenerateCommand

LEMMA LoadStaysCurrent ==
  ASSUME AppTypeOK, CallsInTurn, StatesAgree, Ordering, CallsGoOn, Next,
         app.loadState \in {"ready", "loading"}, LoadIsCurrent,
         app'.load = app.load, app'.key = app.key
  PROVE  LoadIsCurrent'
<1> USE DEF At, quietService, generationVars
<1> USE DEF Ordering
<1>0. app.load \in Int /\ service.cmd.id \in Int /\ \A c \in Waiting : c.id \in Int
  BY CommandsTyped, ServiceAssumption DEF AppTypeOK, Ids, NoId
<1>1. ASSUME session' = session, directory' = directory, service'.pc # "loading",
             service'.cmd.id = service.cmd.id, Waiting' \subseteq Waiting
      PROVE  LoadIsCurrent'
  BY <1>1 DEF LoadIsCurrent
<1>2. CASE UNCHANGED serviceVars
  BY <1>1, <1>2 DEF serviceVars, Waiting, LoadIsCurrent
<1>3. CASE AppCancels
  <2>1. CancelCommand \in Commands /\ CancelCommand.op = "cancel"
    BY DEF Commands, CancelCommand
  <2>2. Waiting' = Waiting
    BY <1>3, <2>1, CommandWritten DEF AppCancels
  <2> QED BY <1>1, <1>3, <2>2 DEF AppCancels, LoadIsCurrent
<1>4. ASSUME NEW i \in Ids, AppSends(i)
      PROVE  LoadIsCurrent'
  <2>1. PICK x \in Commands :
          commands' = Append(commands, x) /\ x.op # "cancel" /\ x.id = i /\ Made(x)' /\ Unsent(i)
    BY <1>4, SendWrites DEF AppSends
  <2>2. UNCHANGED <<queue, service, session, directory>>
    BY <1>4, SendsKeepService
  <2>3. service.cmd.id < i /\ \A c \in Waiting : c.id < i
    BY <2>1, SendIsLater
  <2>4. Waiting' = Waiting \cup {x}
    BY <2>1, <2>2, <2>3, CommandWritten
  <2>5. i > app.load
    BY <1>0, <2>3 DEF LoadIsCurrent, Ids
  <2> QED BY <2>1, <2>2, <2>4, <2>5 DEF LoadIsCurrent
<1>5. ASSUME NEW i \in Ids, AppReads(i)
      PROVE  LoadIsCurrent'
  BY <1>1, <1>5, ReadsTakeFrame DEF TakeFrame, Waiting, LoadIsCurrent
<1>6. CASE ReadCommand
  BY <1>1, <1>6, CommandRead DEF ReadCommand, LoadIsCurrent
<1>7. CASE SkipCancel
  BY <1>1, <1>7, TakeFacts DEF SkipCancel, LoadIsCurrent
<1>8. CASE StartLoad \/ HandleUnload
  <2>1. \E op \in {"load", "unload"} : TakeCommand(op) /\ commands' = commands
    BY <1>8 DEF StartLoad, HandleUnload
  <2>2. Head(queue) \in Waiting /\ Head(queue).op # "generate"
    BY <2>1, TakeFacts
  <2> QED BY <2>2, OnlyGenerationsWait DEF LoadIsCurrent
<1>9. CASE StartGenerate \/ RefuseGenerate
  <2>1. /\ TakeCommand("generate") /\ commands' = commands
        /\ session' = session /\ directory' = directory
        /\ service' = service \/ (service'.cmd = Head(queue) /\ service'.pc = "reserve")
    BY <1>9 DEF StartGenerate, RefuseGenerate
  <2>2. Waiting' \subseteq Waiting /\ Head(queue) \in Waiting
    BY <2>1, TakeFacts
  <2> QED BY <1>0, <2>1, <2>2 DEF LoadIsCurrent
<1>10. CASE FinishLoad
  BY <1>10 DEF FinishLoad, LoadIsCurrent
<1>11. CASE WriterWrite
  BY <1>1, <1>11 DEF WriterWrite, Waiting, LoadIsCurrent
<1>12. CASE GenerationStep
  BY <1>1, <1>12, GenerationStepKeeps DEF Waiting, LoadIsCurrent, GeneratePCs
<1> QED BY <1>2, <1>3, <1>4, <1>5, <1>6, <1>7, <1>8, <1>9, <1>10, <1>11, <1>12, AppSteps, ServiceSteps

\* Where frames come from.
LEMMA NewFrames ==
  ASSUME AppTypeOK, Ordering, Next
  PROVE  \/ Range(frames') \subseteq Range(frames)
         \/ /\ FinishLoad
            /\ \E kind \in {"ready", "failed"} :
                 /\ Range(frames') = Range(frames) \cup {Event(kind, service.cmd.id)}
                 /\ kind = "ready" => session' = service.cmd.key /\ directory' = service.cmd.key
         \/ /\ HandleUnload
            /\ Range(frames') = Range(frames) \cup {Event("unloaded", Head(queue).id)}
         \/ /\ RefuseGenerate
            /\ Range(frames') = Range(frames) \cup {Event("failed", Head(queue).id)}
         \/ /\ WriterWrite
            /\ \A f \in Range(frames') : f \in Range(frames) \/ f.id = service.cmd.id
<1> USE DEF Ordering
<1>1. ASSUME NEW kind \in {"ready", "failed", "unloaded"}, NEW id \in Ids,
             frames' = Append(frames, Event(kind, id))
      PROVE  Range(frames') = Range(frames) \cup {Event(kind, id)}
  <2>1. Event(kind, id) \in Frames
    BY ServiceAssumption DEF Event, Frame, Frames, Terminals
  <2> QED BY <1>1, <2>1, AppendRange, FramesTyped
<1>2. CASE UNCHANGED serviceVars \/ AppCancels \/ \E i \in Ids : AppSends(i)
  <2>1. frames' = frames
    BY <1>2, SendsKeepService DEF serviceVars, AppCancels, quietService
  <2> QED BY <2>1
<1>3. CASE \E i \in Ids : AppReads(i)
  <2>1. frames' = Tail(frames) /\ frames # <<>>
    BY <1>3, ReadsTakeFrame DEF TakeFrame
  <2> QED BY <2>1, TailRange, FramesTyped
<1>4. CASE ReadCommand \/ SkipCancel \/ StartLoad \/ StartGenerate \/ GenerationStep
  <2>1. frames' = frames
    BY <1>4, GenerationStepKeeps DEF ReadCommand, SkipCancel, StartLoad, StartGenerate
  <2> QED BY <2>1
<1>5. CASE FinishLoad
  <2>1. PICK kind \in {"ready", "failed"} :
          /\ frames' = Append(frames, Event(kind, service.cmd.id))
          /\ kind = "ready" => session' = service.cmd.key /\ directory' = service.cmd.key
    BY <1>5 DEF FinishLoad, Reply
  <2>2. service.cmd.id \in Ids
    BY <1>5 DEF FinishLoad, At, CommandsInOrder, Made
  <2> QED BY <1>1, <1>5, <2>1, <2>2
<1>6. CASE HandleUnload
  <2>1. frames' = Append(frames, Event("unloaded", Head(queue).id)) /\ Made(Head(queue))
    BY <1>6, TakeFacts DEF HandleUnload, Reply
  <2> QED BY <1>1, <1>6, <2>1 DEF Made
<1>7. CASE RefuseGenerate
  <2>1. frames' = Append(frames, Event("failed", Head(queue).id)) /\ Made(Head(queue))
    BY <1>7, TakeFacts DEF RefuseGenerate, Reply
  <2> QED BY <1>1, <1>7, <2>1 DEF Made
<1>8. CASE WriterWrite
  BY <1>8, WriterOrder
<1> QED BY <1>2, <1>3, <1>4, <1>5, <1>6, <1>7, <1>8, AppSteps, ServiceSteps

LEMMA ModelIsLoadedStep ==
  ASSUME AppTypeOK, CallsInTurn, StatesAgree, Ordering, ModelIsLoaded, CallsGoOn, Next
  PROVE  ModelIsLoaded'
<1> USE DEF Ordering
<1>0. /\ app.load \in Int /\ service.cmd.id \in Int /\ \A c \in Waiting : c.id \in Int
      /\ \A f \in Range(frames) : f.id \in Int
  BY CommandsTyped, FramesTyped, ServiceAssumption DEF AppTypeOK, Ids, NoId
<1>1. CASE app'.loadState \notin {"ready", "loading"}
  BY <1>1 DEF ModelIsLoaded, Answered
<1>2. ASSUME NEW i \in Ids, Unsent(i), app'.load = i, app'.loadState = "loading",
             calls'[i].pc = "wait", UNCHANGED serviceVars
      PROVE  ModelIsLoaded'
  <2>1. \A f \in Range(frames') : f.id # i
    BY <1>2 DEF FramesInOrder, Sent, serviceVars
  <2>2. Event("ready", i).id = i
    BY DEF Event, Frame
  <2>3. Event("ready", app'.load) \notin Range(frames')
    BY <1>2, <2>1, <2>2
  <2>4. ~Answered'
    BY <1>2 DEF Answered
  <2> QED BY <2>3, <2>4 DEF ModelIsLoaded, Event, Frame
<1>3. ASSUME app'.load = app.load, app'.key = app.key, app.loadState \in {"ready", "loading"},
             app'.loadState = "loading" => app.loadState = "loading",
             \/ Answered' => Answered
             \/ /\ app.loadState = "loading" /\ app.load \in Ids /\ ReadLoadAnswer(app.load)
                /\ Head(frames) = Event("ready", app.load)
      PROVE  ModelIsLoaded'
  <2>1. app.load \in Ids /\ calls[app.load].op = "load" /\ app.load \notin Generations
    BY <1>3 DEF StatesAgree, Generations
  <2>2. LoadIsCurrent => LoadIsCurrent'
    BY <1>3, LoadStaysCurrent
  <2>3. ASSUME Answered, NEW f \in Range(frames')
        PROVE  f.id > app.load
    <3>0. LoadIsCurrent /\ \A g \in Range(frames) : g.id > app.load
      BY <2>3 DEF ModelIsLoaded
    <3>1. CASE f \in Range(frames)
      BY <3>0, <3>1
    <3>2. CASE FinishLoad
      BY <3>0, <3>2 DEF FinishLoad, At, LoadIsCurrent
    <3>3. CASE HandleUnload
      <4>1. Head(queue) \in Waiting /\ Head(queue).op = "unload"
        BY <3>3, TakeFacts DEF HandleUnload
      <4> QED BY <1>3, <3>0, <4>1, OnlyGenerationsWait DEF LoadIsCurrent
    <3>4. CASE RefuseGenerate /\ f = Event("failed", Head(queue).id)
      <4>1. Head(queue) \in Waiting
        BY <3>4, TakeFacts DEF RefuseGenerate
      <4> QED BY <3>0, <3>4, <4>1 DEF LoadIsCurrent, Event, Frame
    <3>5. CASE WriterWrite /\ f.id = service.cmd.id
      <4>1. service.cmd.id \in Generations
        BY <3>5, WriterOrder
      <4> QED BY <1>0, <2>1, <3>0, <3>5, <4>1 DEF LoadIsCurrent
    <3> QED BY <3>1, <3>2, <3>3, <3>4, <3>5, NewFrames
  <2>4. ASSUME Answered'
        PROVE  LoadIsCurrent' /\ \A f \in Range(frames') : f.id > app.load
    <3>1. CASE Answered
      BY <2>2, <2>3, <3>1 DEF ModelIsLoaded
    <3>2. CASE /\ app.loadState = "loading" /\ ReadLoadAnswer(app.load)
               /\ Head(frames) = Event("ready", app.load)
      <4>1. frames # <<>> /\ frames' = Tail(frames) /\ frames \in Seq(Frames)
        BY <3>2, FramesTyped DEF ReadLoadAnswer, Reader, TakeFrame
      <4>2. /\ Head(frames) \in Range(frames)
            /\ \A f \in Range(Tail(frames)) :
                 Head(frames).id < f.id \/ (Head(frames).id = f.id /\ Head(frames).id \in Generations)
        BY <4>1, OrderedTail DEF FramesInOrder
      <4>3. Head(frames).id = app.load
        BY <3>2 DEF Event, Frame
      <4>4. LoadIsCurrent
        BY <3>2, <4>2 DEF ModelIsLoaded
      <4> QED BY <2>1, <2>2, <4>1, <4>2, <4>3, <4>4
    <3> QED BY <1>3, <2>4, <3>1, <3>2
  <2>5. ASSUME app'.loadState = "loading", Event("ready", app.load) \in Range(frames')
        PROVE  LoadIsCurrent'
    <3>1. app.loadState = "loading"
      BY <1>3, <2>5
    <3>2. CASE Event("ready", app.load) \in Range(frames)
      BY <2>2, <3>1, <3>2 DEF ModelIsLoaded
    <3>3. ASSUME FinishLoad, NEW kind \in {"ready", "failed"},
                 Range(frames') = Range(frames) \cup {Event(kind, service.cmd.id)},
                 kind = "ready" => session' = service.cmd.key /\ directory' = service.cmd.key,
                 Event("ready", app.load) \notin Range(frames)
          PROVE  LoadIsCurrent'
      <4>1. service.pc = "loading" /\ service.cmd.op = "load" /\ Made(service.cmd)
        BY <3>3 DEF FinishLoad, At, CommandsInOrder
      <4>2. Event("ready", app.load) = Event(kind, service.cmd.id)
        BY <2>5, <3>3
      <4>3. kind = "ready" /\ service.cmd.id = app.load
        BY <4>2 DEF Event, Frame
      <4>4. service.cmd.key = app.key
        BY <2>1, <3>1, <4>1, <4>3 DEF Made, CommandOf, LoadCommand, StatesAgree
      <4>5. session' = app.key /\ directory' = app.key
        BY <3>3, <4>3, <4>4
      <4>6. /\ service'.pc = "next" /\ service'.cmd = service.cmd /\ Waiting' = Waiting
        BY <3>3 DEF FinishLoad, Goto, AppTypeOK, ServiceTypeOK, Waiting
      <4>7. \A c \in Waiting : c.id > app.load
        BY <1>0, <4>3 DEF CommandsInOrder
      <4> QED BY <1>0, <1>3, <4>3, <4>5, <4>6, <4>7 DEF LoadIsCurrent
    <3>4. ASSUME NEW kind \in {"unloaded", "failed"}, NEW id,
                 Range(frames') = Range(frames) \cup {Event(kind, id)}
          PROVE  Event("ready", app.load) \in Range(frames)
      <4>1. Event("ready", app.load) # Event(kind, id)
        BY DEF Event, Frame
      <4> QED BY <2>5, <3>4, <4>1
    <3>5. CASE WriterWrite
      <4>1. service.cmd.id \in Generations
        BY <3>5, WriterOrder
      <4>2. Event("ready", app.load).id = app.load
        BY DEF Event, Frame
      <4>3. Event("ready", app.load) \in Range(frames)
        BY <2>1, <2>5, <3>5, <4>1, <4>2, WriterOrder
      <4> QED BY <2>2, <3>1, <4>3 DEF ModelIsLoaded
    <3> QED BY <2>5, <3>2, <3>3, <3>4, <3>5, NewFrames
  <2> QED BY <1>3, <2>4, <2>5 DEF ModelIsLoaded, Event, Frame
<1> QED BY <1>1, <1>2, <1>3, LoadGoesOn

-----------------------------------------------------------------------------
(* Whoever waits for an answer, an answer is to come.                      *)

\* A reader and an answer come together; a reader goes with at most one answer.
LEMMA CountSteps ==
  ASSUME NEW R \in SUBSET Ids, NEW R2 \in SUBSET Ids, NEW O \in SUBSET Ids, NEW O2 \in SUBSET Ids,
         Cardinality(R) <= Cardinality(O),
         \/ R2 \subseteq R /\ O \subseteq O2
         \/ \E j : j \notin O /\ R2 \subseteq R \cup {j} /\ O \cup {j} \subseteq O2
         \/ \E i \in R : \E x : R2 \subseteq R \ {i} /\ O \ {x} \subseteq O2
  PROVE  Cardinality(R2) <= Cardinality(O2)
<1>1. IsFiniteSet(Ids)
  BY FS_Interval, ServiceAssumption DEF Ids
<1>2. /\ IsFiniteSet(R) /\ IsFiniteSet(R2) /\ IsFiniteSet(O) /\ IsFiniteSet(O2)
  BY <1>1, FS_Subset
<1>3. /\ Cardinality(R) \in Nat /\ Cardinality(R2) \in Nat
      /\ Cardinality(O) \in Nat /\ Cardinality(O2) \in Nat
  BY <1>2, FS_CardinalityType
<1>4. CASE R2 \subseteq R /\ O \subseteq O2
  <2>1. Cardinality(R2) <= Cardinality(R) /\ Cardinality(O) <= Cardinality(O2)
    BY <1>2, <1>4, FS_Subset
  <2> QED BY <1>3, <2>1
<1>5. ASSUME NEW j, j \notin O, R2 \subseteq R \cup {j}, O \cup {j} \subseteq O2
      PROVE  Cardinality(R2) <= Cardinality(O2)
  <2>1. /\ IsFiniteSet(R \cup {j}) /\ IsFiniteSet(O \cup {j})
        /\ Cardinality(R \cup {j}) <= Cardinality(R) + 1
        /\ Cardinality(O \cup {j}) = Cardinality(O) + 1
    <3>1. Cardinality(R \cup {j}) = IF j \in R THEN Cardinality(R) ELSE Cardinality(R) + 1
      BY <1>2, FS_AddElement
    <3>2. Cardinality(O \cup {j}) = IF j \in O THEN Cardinality(O) ELSE Cardinality(O) + 1
      BY <1>2, FS_AddElement
    <3>3. IsFiniteSet(R \cup {j}) /\ IsFiniteSet(O \cup {j})
      BY <1>2, FS_AddElement
    <3> QED BY <1>3, <1>5, <3>1, <3>2, <3>3
  <2>2. /\ Cardinality(R2) <= Cardinality(R \cup {j})
        /\ Cardinality(O \cup {j}) <= Cardinality(O2)
    BY <1>2, <1>5, <2>1, FS_Subset
  <2>3. Cardinality(R \cup {j}) \in Nat
    BY <2>1, FS_CardinalityType
  <2> QED BY <1>3, <2>1, <2>2, <2>3
<1>6. ASSUME NEW i \in R, NEW x, R2 \subseteq R \ {i}, O \ {x} \subseteq O2
      PROVE  Cardinality(R2) <= Cardinality(O2)
  <2>1. /\ IsFiniteSet(R \ {i}) /\ IsFiniteSet(O \ {x})
        /\ Cardinality(R \ {i}) = Cardinality(R) - 1
        /\ Cardinality(O \ {x}) >= Cardinality(O) - 1
    <3>1. Cardinality(R \ {i}) = IF i \in R THEN Cardinality(R) - 1 ELSE Cardinality(R)
      BY <1>2, FS_RemoveElement
    <3>2. Cardinality(O \ {x}) = IF x \in O THEN Cardinality(O) - 1 ELSE Cardinality(O)
      BY <1>2, FS_RemoveElement
    <3>3. IsFiniteSet(R \ {i}) /\ IsFiniteSet(O \ {x})
      BY <1>2, FS_RemoveElement
    <3> QED BY <1>3, <1>6, <3>1, <3>2, <3>3
  <2>2. /\ Cardinality(R2) <= Cardinality(R \ {i})
        /\ Cardinality(O \ {x}) <= Cardinality(O2)
    BY <1>2, <1>6, <2>1, FS_Subset
  <2>3. Cardinality(O \ {x}) \in Nat
    BY <2>1, FS_CardinalityType
  <2> QED BY <1>3, <2>1, <2>2, <2>3
<1> QED BY <1>4, <1>5, <1>6

\* An application that is ready has all answers to loads and unloads.
LEMMA ReadyOwesNothing ==
  ASSUME AppTypeOK, CallsInTurn, StatesAgree, CommandsInOrder, FramesInOrder, ModelIsLoaded,
         ReadersAreOwed, app.loadState = "ready"
  PROVE  Owed = {} /\ Readers = {}
<1>1. LoadIsCurrent /\ \A f \in Range(frames) : f.id > app.load
  BY DEF ModelIsLoaded, Answered
<1>2. ASSUME NEW j \in Owed
      PROVE  FALSE
  <2>1. j \in Ids /\ calls[j].op # "generate"
    BY DEF Owed
  <2>2. CASE \E c \in Waiting : c.id = j
    <3>1. PICK c \in Waiting : c.id = j
      BY <2>2
    <3>2. c.id > app.load /\ Made(c)
      BY <1>1 DEF LoadIsCurrent, CommandsInOrder
    <3>3. calls[j].op \in {"none", "generate"} /\ calls[j].op # "none"
      BY <2>1, <3>1, <3>2 DEF StatesAgree, Made, Sent
    <3> QED BY <2>1, <3>3
  <2>3. CASE \E f \in Range(frames) : f.id = j
    <3>1. j > app.load
      BY <1>1, <2>3
    <3>2. calls[j].op = "none"
      BY <2>1, <3>1 DEF StatesAgree
    <3>3. Sent(j)
      BY <2>3 DEF FramesInOrder
    <3> QED BY <3>2, <3>3 DEF Sent
  <2> QED BY <1>1, <2>2, <2>3 DEF Owed, LoadIsCurrent
<1>3. Owed = {}
  BY <1>2
<1>4. Cardinality(Readers) <= 0
  <2>1. Cardinality(Owed) = 0
    BY <1>3, FS_EmptySet
  <2> QED BY <2>1 DEF ReadersAreOwed
<1>5. IsFiniteSet(Readers)
  <2>1. IsFiniteSet(Ids)
    BY FS_Interval, ServiceAssumption DEF Ids
  <2>2. Readers \in SUBSET Ids
    BY DEF Readers
  <2> QED BY <2>1, <2>2, FS_Subset
<1>6. Cardinality(Readers) \in Nat
  BY <1>5, FS_CardinalityType
<1> QED BY <1>3, <1>4, <1>5, <1>6, FS_EmptySet

LEMMA ReadersStep ==
  ASSUME AppTypeOK, CallsInTurn, Next
  PROVE  \/ \E i \in Ids : AppSends(i)
         \/ Readers' \subseteq Readers
<1>1. ASSUME UNCHANGED calls
      PROVE  Readers' \subseteq Readers
  BY <1>1 DEF Readers
<1>2. ASSUME NEW i \in Ids, NEW call, call.pc # "read",
             calls' = [calls EXCEPT ![i] = call] \/ GivesUp(i, call)
      PROVE  Readers' \subseteq Readers
  <2>1. CASE calls' = [calls EXCEPT ![i] = call]
    <3>1. calls'[i] = call /\ \A j \in Ids : j # i => calls'[j] = calls[j]
      BY <2>1, NewCall
    <3> QED BY <1>2, <3>1 DEF Readers
  <2>2. CASE GivesUp(i, call)
    <3>1. /\ calls'[i] = call
          /\ \A j \in Ids : j # i => calls'[j].op = calls[j].op /\ calls'[j].pc = calls[j].pc
      BY <2>2, WithoutLoadCall
    <3> QED BY <1>2, <3>1 DEF Readers
  <2> QED BY <1>2, <2>1, <2>2
<1>3. ASSUME NEW i \in Ids, NEW pc \in {"ready", "failed", "unloaded", "ended", "done"}, Move(i, pc)
      PROVE  Readers' \subseteq Readers
  BY <1>3, MoveFacts DEF Readers
<1>4. ASSUME UserStep
      PROVE  Readers' \subseteq Readers
  <2>1. CASE Load \/ Reload
    <3>1. PICK i \in Ids :
            \E key : calls' = [calls EXCEPT ![i] = Call("load", "wait", key, app.unload)]
      BY <2>1 DEF Load, Reload, BeginLoad
    <3>2. PICK key : calls' = [calls EXCEPT ![i] = Call("load", "wait", key, app.unload)]
      BY <3>1
    <3>3. Call("load", "wait", key, app.unload).pc # "read"
      BY DEF Call
    <3> QED BY <1>2, <3>2, <3>3
  <2>2. CASE CancelLoad \/ Unload \/ SetModelURL \/ Run
    <3>1. PICK i \in Ids : \E op \in {"unload", "forget", "generate"} :
            \/ calls' = [calls EXCEPT ![i] = Call(op, "send", NoKey, NoId)]
            \/ GivesUp(i, Call(op, "send", NoKey, NoId))
      BY <2>2 DEF CancelLoad, Unload, SetModelURL, Run, GivesUp
    <3>2. \A op : Call(op, "send", NoKey, NoId).pc # "read"
      BY DEF Call
    <3> QED BY <1>2, <3>1, <3>2
  <2>3. CASE Cancel
    BY <1>1, <2>3 DEF Cancel
  <2> QED BY <1>4, <2>1, <2>2, <2>3 DEF UserStep
<1>5. ASSUME NEW i \in Ids, CallStep(i)
      PROVE  AppSends(i) \/ Readers' \subseteq Readers
  <2>1. \/ AppSends(i) \/ UNCHANGED calls
        \/ \E pc \in {"ready", "failed", "unloaded", "ended", "done"} : Move(i, pc)
    BY <1>5 DEF CallStep, ReadEvent, AppSends, SendLoad, ReadLoadAnswer, ReadUnloadAnswer,
                SkipForeignEvent, ReadSnapshot, ReadTerminal, ReadTorn, ApplyLoad, ApplyUnload,
                EndStream, appVars
  <2> QED BY <1>1, <1>3, <2>1
<1> QED BY <1>1, <1>4, <1>5 DEF Next, Tear, appVars

\* An answer that is still to come stays to come while its command, its place in
\* the main loop or its frame stays.
LEMMA OwedStays ==
  ASSUME AppTypeOK, CommandsInOrder, FramesInOrder, CallsGoOn, NEW j \in Owed,
         \/ \E c \in Waiting' : c.id = j
         \/ service'.pc = "loading" /\ service'.cmd.id = j
         \/ \E f \in Range(frames') : f.id = j
  PROVE  j \in Owed'
<1>1. j \in Ids /\ calls[j].op # "generate"
  BY DEF Owed
<1>2. Sent(j)
  BY DEF Owed, CommandsInOrder, FramesInOrder, Made
<1>3. calls'[j].op # "generate"
  BY <1>1, <1>2 DEF CallsGoOn
<1> QED BY <1>1, <1>3 DEF Owed

LEMMA ReadersAreOwedStep ==
  ASSUME AppTypeOK, CallsInTurn, StatesAgree, Ordering, ModelIsLoaded, ReadersAreOwed,
         CallsGoOn, Next
  PROVE  ReadersAreOwed'
<1> USE DEF Ordering
<1>0. /\ Readers \in SUBSET Ids /\ Readers' \in SUBSET Ids
      /\ Owed \in SUBSET Ids /\ Owed' \in SUBSET Ids
  BY DEF Readers, Owed
<1>1. ASSUME Readers' \subseteq Readers, Owed \subseteq Owed'
      PROVE  ReadersAreOwed'
  BY <1>0, <1>1, CountSteps DEF ReadersAreOwed
<1>2. ASSUME Waiting \subseteq Waiting', frames' = frames,
             service.pc = "loading" => service'.pc = "loading" /\ service'.cmd = service.cmd
      PROVE  Owed \subseteq Owed'
  <2>1. ASSUME NEW j \in Owed PROVE j \in Owed'
    BY <1>2, OwedStays DEF Owed
  <2> QED BY <2>1
<1>3. ASSUME NEW i \in Ids, AppSends(i)
      PROVE  ReadersAreOwed'
  <2>1. PICK x \in Commands :
          /\ commands' = Append(commands, x) /\ x.op # "cancel" /\ x.id = i /\ Made(x)'
          /\ Unsent(i) /\ calls'[i].op = calls[i].op
          /\ \A j \in Ids : j # i => calls'[j] = calls[j]
    BY <1>3, SendWrites DEF AppSends
  <2>2. UNCHANGED <<queue, service, frames>>
    BY <1>3, SendsKeepService DEF quietService
  <2>3. service.cmd.id < i /\ \A c \in Waiting : c.id < i
    BY <2>1, SendIsLater
  <2>4. Waiting' = Waiting \cup {x}
    BY <2>1, <2>2, <2>3, CommandWritten
  <2>5. Owed \subseteq Owed'
    BY <1>2, <2>2, <2>4
  <2>6. CASE calls[i].op = "generate"
    <3>1. Readers' \subseteq Readers
      BY <2>1, <2>6 DEF Readers
    <3> QED BY <1>1, <2>5, <3>1
  <2>7. CASE calls[i].op # "generate"
    <3>1. i \in Owed'
      BY <2>1, <2>4, <2>7 DEF Owed
    <3>2. Readers' \subseteq Readers \cup {i}
      BY <2>1 DEF Readers
    <3>3. i \notin Owed
      BY <2>1 DEF Owed, CommandsInOrder, FramesInOrder, Made, Sent
    <3> QED BY <1>0, <2>5, <3>1, <3>2, <3>3, CountSteps DEF ReadersAreOwed
  <2> QED BY <2>6, <2>7
<1>4. ASSUME NEW i \in Ids, AppReads(i)
      PROVE  ReadersAreOwed'
  <2>1. /\ frames # <<>> /\ frames' = Tail(frames) /\ calls[i].pc = "read"
        /\ UNCHANGED <<commands, queue, service>>
    BY <1>4, ReadsTakeFrame DEF TakeFrame, Reader
  <2>2. Range(frames) = {Head(frames)} \cup Range(frames')
    BY <2>1, TailRange, FramesTyped
  <2>3. Waiting' = Waiting
    BY <2>1 DEF Waiting
  <2>4. \A j \in Owed : j # Head(frames).id => j \in Owed'
    BY <2>1, <2>2, <2>3, OwedStays DEF Owed
  <2>5. Owed \ {Head(frames).id} \subseteq Owed'
    BY <2>4
  <2>6. CASE calls[i].op = "generate"
    <3>1. app.loadState = "ready"
      BY <2>1, <2>6 DEF CallsInTurn, StatesAgree
    <3>2. Owed = {} /\ Readers = {}
      BY <3>1, ReadyOwesNothing
    <3>3. Readers' \subseteq Readers \/ \E j \in Ids : AppSends(j)
      BY ReadersStep
    <3> QED BY <1>1, <1>3, <3>2, <3>3
  <2>7. CASE calls[i].op # "generate"
    <3>1. \E pc \in {"ready", "failed", "unloaded"} : Move(i, pc)
      BY <1>4, <2>7 DEF AppReads, ReadEvent, ReadLoadAnswer, ReadUnloadAnswer, SkipForeignEvent,
                        ReadSnapshot, ReadTerminal
    <3>2. Readers' \subseteq Readers \ {i} /\ i \in Readers
      BY <2>1, <2>7, <3>1, MoveFacts DEF Readers
    <3>3. \E k \in Readers : \E x : Readers' \subseteq Readers \ {k} /\ Owed \ {x} \subseteq Owed'
      BY <2>5, <3>2
    <3> QED BY <1>0, <3>3, CountSteps DEF ReadersAreOwed
  <2> QED BY <2>6, <2>7
<1>5. CASE UNCHANGED serviceVars \/ AppCancels
  <2>1. Waiting' = Waiting
    <3>1. CancelCommand \in Commands /\ CancelCommand.op = "cancel"
      BY DEF Commands, CancelCommand
    <3> QED BY <1>5, <3>1, CommandWritten DEF AppCancels, quietService, serviceVars, Waiting
  <2>2. Owed \subseteq Owed'
    BY <1>2, <1>5, <2>1 DEF AppCancels, quietService, serviceVars
  <2> QED BY <1>1, <1>3, <2>2, ReadersStep
<1>6. ASSUME ServiceStep, UNCHANGED appVars
      PROVE  Owed \subseteq Owed'
  <2> USE DEF At
  <2>1. CASE ReadCommand
    BY <1>2, <2>1, CommandRead DEF ReadCommand
  <2>2. CASE SkipCancel
    <3>1. Waiting' = Waiting
      BY <2>2, TakeFacts DEF SkipCancel
    <3> QED BY <1>2, <2>2, <3>1 DEF SkipCancel
  <2>3. CASE StartLoad
    <3>1. Waiting = Waiting' \cup {Head(queue)} /\ service.pc = "next"
      BY <2>3, TakeFacts DEF StartLoad, TakeCommand
    <3>2. service'.pc = "loading" /\ service'.cmd = Head(queue) /\ frames' = frames
      BY <2>3 DEF StartLoad
    <3>3. ASSUME NEW j \in Owed PROVE j \in Owed'
      BY <3>1, <3>2, OwedStays DEF Owed
    <3> QED BY <3>3
  <2>4. CASE FinishLoad
    <3>1. PICK kind \in {"ready", "failed"} : frames' = Append(frames, Event(kind, service.cmd.id))
      BY <2>4 DEF FinishLoad, Reply
    <3>2. Event(kind, service.cmd.id) \in Frames
      BY <2>4, ServiceAssumption
         DEF Event, Frame, Frames, Terminals, CommandsInOrder, Made, FinishLoad
    <3>3. Range(frames') = Range(frames) \cup {Event(kind, service.cmd.id)}
      BY <3>1, <3>2, AppendRange, FramesTyped
    <3>4. Event(kind, service.cmd.id).id = service.cmd.id /\ Waiting' = Waiting
      BY <2>4 DEF Event, Frame, FinishLoad, Waiting
    <3>5. ASSUME NEW j \in Owed PROVE j \in Owed'
      BY <3>3, <3>4, OwedStays DEF Owed
    <3> QED BY <3>5
  <2>5. CASE HandleUnload
    <3>1. /\ Waiting = Waiting' \cup {Head(queue)} /\ service.pc = "next" /\ Made(Head(queue))
          /\ frames' = Append(frames, Event("unloaded", Head(queue).id))
      BY <2>5, TakeFacts DEF HandleUnload, TakeCommand, Reply
    <3>2. Event("unloaded", Head(queue).id) \in Frames
      BY <3>1, ServiceAssumption DEF Event, Frame, Frames, Terminals, Made
    <3>3. Range(frames') = Range(frames) \cup {Event("unloaded", Head(queue).id)}
      BY <3>1, <3>2, AppendRange, FramesTyped
    <3>4. Event("unloaded", Head(queue).id).id = Head(queue).id
      BY DEF Event, Frame
    <3>5. ASSUME NEW j \in Owed PROVE j \in Owed'
      BY <3>1, <3>3, <3>4, OwedStays DEF Owed
    <3> QED BY <3>5
  <2>6. CASE RefuseGenerate \/ StartGenerate
    <3>1. TakeCommand("generate") /\ commands' = commands
      BY <2>6 DEF RefuseGenerate, StartGenerate
    <3>2. /\ Waiting = Waiting' \cup {Head(queue)} /\ Made(Head(queue))
          /\ Head(queue).op = "generate" /\ service.pc = "next"
      BY <3>1, TakeFacts DEF TakeCommand
    <3>3. calls[Head(queue).id].op = "generate"
      BY <3>2 DEF Made, CommandOf, LoadCommand, UnloadCommand
    <3>4. Range(frames) \subseteq Range(frames')
      <4>1. Event("failed", Head(queue).id) \in Frames
        BY <3>2, ServiceAssumption DEF Event, Frame, Frames, Terminals, Made
      <4>2. frames' = frames \/ frames' = Append(frames, Event("failed", Head(queue).id))
        BY <2>6 DEF RefuseGenerate, StartGenerate, Reply
      <4>3. Range(Append(frames, Event("failed", Head(queue).id))) =
              Range(frames) \cup {Event("failed", Head(queue).id)}
        BY <4>1, AppendRange, FramesTyped
      <4> QED BY <4>2, <4>3
    <3>5. ASSUME NEW j \in Owed PROVE j \in Owed'
      BY <3>2, <3>3, <3>4, OwedStays DEF Owed
    <3> QED BY <3>5
  <2>7. CASE WriterWrite
    <3>1. Range(frames) \subseteq Range(frames') /\ Waiting' = Waiting /\ service' = service
      BY <2>7, WriterOrder DEF WriterWrite, Waiting
    <3>2. ASSUME NEW j \in Owed PROVE j \in Owed'
      BY <3>1, OwedStays DEF Owed
    <3> QED BY <3>2
  <2>8. CASE GenerationStep
    <3>1. /\ Waiting' = Waiting /\ frames' = frames /\ service'.cmd = service.cmd
          /\ service.pc = "loading" => service'.pc = "loading"
      BY <2>8, GenerationStepKeeps DEF Waiting, GeneratePCs
    <3> QED BY <1>2, <3>1
  <2> QED BY <1>6, <2>1, <2>2, <2>3, <2>4, <2>5, <2>6, <2>7, <2>8, ServiceSteps
<1>7. CASE ServiceStep /\ UNCHANGED appVars
  <2>1. Readers' = Readers
    BY <1>7 DEF appVars, Readers
  <2> QED BY <1>1, <1>6, <1>7, <2>1
<1> QED BY <1>3, <1>4, <1>5, <1>7, AppSteps

-----------------------------------------------------------------------------
(* The generation's task.                                                  *)

\* The steps that a generation does not notice.
LEMMA GenerationAlone ==
  ASSUME Next
  PROVE  \/ ServiceStep
         \/ UNCHANGED <<service, registry, task, stream, made, outbox, writer>>
BY AppSteps, SendsKeepService, ReadsTakeFrame
   DEF serviceVars, AppCancels, quietService, TakeFrame

\* Pc moves on and the command in hand stays.
LEMMA GotoFacts ==
  ASSUME AppTypeOK, NEW pc, Goto(pc)
  PROVE  /\ service'.pc = pc /\ service'.cmd = service.cmd /\ service'.failed = service.failed
BY DEF Goto, AppTypeOK, ServiceTypeOK

LEMMA TaskTyped ==
  ASSUME AppTypeOK
  PROVE  /\ task = [id |-> task.id, state |-> task.state, cancelled |-> task.cancelled]
         /\ registry = [id |-> registry.id, attached |-> registry.attached]
         /\ task.cancelled \in BOOLEAN /\ registry.attached \in BOOLEAN
BY DEF AppTypeOK, ServiceTypeOK

LEMMA TaskStepAgrees ==
  ASSUME AppTypeOK, CommandsInOrder, TaskAgrees, CancelReachesTask, ServiceStep
  PROVE  TaskAgrees' /\ CancelReachesTask'
<1> USE DEF At, TaskAgrees, CancelReachesTask, generationVars
<1>1. CASE SkipCancel \/ FinishLoad \/ HandleUnload \/ RefuseGenerate
  <2>1. /\ UNCHANGED <<registry, task, stream>> /\ service.pc \in {"next", "loading"}
        /\ service' = service \/ Goto("next")
    BY <1>1 DEF SkipCancel, FinishLoad, HandleUnload, RefuseGenerate, TakeCommand
  <2> QED BY <2>1, GotoFacts
<1>2. CASE ReadCommand
  <2>1. UNCHANGED <<service, stream>>
    BY <1>2 DEF ReadCommand
  <2>2. CASE UNCHANGED <<registry, task>>
    BY <2>1, <2>2
  <2>3. CASE CancelCurrent
    <3>1. /\ registry' = EmptyEntry /\ task'.id = task.id /\ task'.state = task.state
          /\ task.cancelled \/ registry.attached => task'.cancelled
      BY <2>3, TaskTyped DEF CancelCurrent
    <3>2. registry'.id = NoId
      BY <3>1 DEF EmptyEntry
    <3>3. task.state = "running" => task.id # NoId
      BY ServiceAssumption DEF CommandsInOrder, Made, Ids, NoId
    <3> QED BY <2>1, <3>1, <3>2, <3>3
  <2> QED BY <1>2, <2>2, <2>3 DEF ReadCommand
<1>3. CASE StartLoad \/ StartGenerate
  <2>1. UNCHANGED <<registry, task, stream>> /\ service.pc = "next" /\ service'.pc \in {"loading", "reserve"}
    BY <1>3 DEF StartLoad, StartGenerate, TakeCommand
  <2> QED BY <2>1
<1>4. CASE Reserve
  <2>1. CASE registry = EmptyEntry
    <3>1. /\ registry' = [id |-> service.cmd.id, attached |-> FALSE]
          /\ task' = [id |-> service.cmd.id, state |-> "running", cancelled |-> FALSE]
          /\ stream' = EmptyStream /\ Goto("attach")
      BY <1>4, <2>1 DEF Reserve
    <3> QED BY <3>1, GotoFacts DEF EmptyStream
  <2>2. CASE registry # EmptyEntry
    <3>1. UNCHANGED <<registry, task>> /\ Goto("publishing") /\ service.pc = "reserve"
      BY <1>4, <2>2 DEF Reserve
    <3> QED BY <3>1, GotoFacts
  <2> QED BY <2>1, <2>2
<1>5. CASE Attach
  <2>1. Goto("publishing") /\ service.pc = "attach" /\ stream' = stream
    BY <1>5 DEF Attach
  <2>2. CASE registry.id = service.cmd.id
    <3>1. registry' = [registry EXCEPT !.attached = TRUE] /\ task' = task
      BY <1>5, <2>2 DEF Attach
    <3>2. registry'.id = registry.id /\ registry'.attached
      BY <3>1, TaskTyped
    <3> QED BY <2>1, <2>2, <3>1, <3>2, GotoFacts
  <2>3. CASE registry.id # service.cmd.id
    <3>1. task' = [task EXCEPT !.cancelled = TRUE] /\ registry' = registry
      BY <1>5, <2>3 DEF Attach
    <3>2. task'.cancelled /\ task'.id = task.id /\ task'.state = task.state
      BY <3>1, TaskTyped
    <3> QED BY <2>1, <2>3, <3>1, <3>2, GotoFacts
  <2> QED BY <2>2, <2>3
<1>6. CASE PublishToken
  BY <1>6 DEF PublishToken, AppTypeOK, ServiceTypeOK
<1>7. CASE PublishTerminal
  BY <1>7 DEF PublishTerminal, AppTypeOK, ServiceTypeOK
<1>8. CASE FinishOutbox \/ JoinWriter
  <2>1. /\ UNCHANGED <<registry, task, stream>> /\ service.pc \in {"finish", "joining"}
        /\ \E pc \in {"joining", "next"} : Goto(pc)
    BY <1>8 DEF FinishOutbox, JoinWriter
  <2> QED BY <2>1, GotoFacts
<1>9. CASE Yield
  BY <1>9 DEF Yield, AppTypeOK, ServiceTypeOK
<1>10. ASSUME NEW o \in Terminals, EndRun(o)
       PROVE  TaskAgrees' /\ CancelReachesTask'
  <2>1. /\ task'.state = "clearing" /\ service' = service /\ service.pc \in {"attach", "publishing"}
        /\ registry' = registry \/ registry' = EmptyEntry
    BY <1>10 DEF EndRun, AppTypeOK, ServiceTypeOK
  <2> QED BY <2>1 DEF EmptyEntry
<1>11. CASE ClearTask
  <2>1. /\ task' = NoTask /\ UNCHANGED <<service, stream>>
        /\ registry' = registry \/ registry' = EmptyEntry
    BY <1>11 DEF ClearTask
  <2> QED BY <2>1 DEF NoTask, EmptyEntry
<1>12. CASE WriterTake \/ WriterWrite
  BY <1>12 DEF WriterTake, WriterWrite
<1> QED BY <1>1, <1>2, <1>3, <1>4, <1>5, <1>6, <1>7, <1>8, <1>9, <1>10, <1>11, <1>12
        DEF ServiceStep, MainLoop, TaskStep, WriterStep

-----------------------------------------------------------------------------
(* The writer.                                                             *)

LEMMA WriterStepAgrees ==
  ASSUME AppTypeOK, WriterAgrees, ServiceStep
  PROVE  WriterAgrees'
<1> USE DEF At, WriterAgrees, Over, GeneratePCs, generationVars
<1>1. CASE SkipCancel \/ FinishLoad \/ HandleUnload \/ RefuseGenerate \/ StartLoad
  <2>1. /\ UNCHANGED <<outbox, writer>> /\ service.pc \in {"next", "loading"}
        /\ service' = service \/ Goto("next") \/ service'.pc = "loading"
    BY <1>1 DEF SkipCancel, FinishLoad, HandleUnload, RefuseGenerate, StartLoad, TakeCommand
  <2> QED BY <2>1, GotoFacts
<1>2. CASE ReadCommand \/ Yield \/ (\E o \in Terminals : EndRun(o)) \/ ClearTask
  BY <1>2 DEF ReadCommand, Yield, EndRun, ClearTask
<1>3. CASE StartGenerate
  BY <1>3 DEF StartGenerate, EmptyOutbox, Writer, NoTerminal
<1>4. CASE Reserve \/ Attach
  <2>1. /\ UNCHANGED <<outbox, writer>> /\ service.pc \in {"reserve", "attach"}
        /\ \E pc \in {"attach", "publishing"} : Goto(pc)
    BY <1>4 DEF Reserve, Attach
  <2> QED BY <2>1, GotoFacts
<1>5. CASE PublishToken
  BY <1>5 DEF PublishToken, AppTypeOK, ServiceTypeOK
<1>6. CASE PublishTerminal
  BY <1>6 DEF PublishTerminal, AppTypeOK, ServiceTypeOK
<1>7. CASE FinishOutbox
  BY <1>7, GotoFacts DEF FinishOutbox, AppTypeOK, ServiceTypeOK
<1>8. CASE JoinWriter
  BY <1>8, GotoFacts DEF JoinWriter
<1>9. CASE WriterTake
  BY <1>9 DEF WriterTake, AppTypeOK, ServiceTypeOK
<1>10. CASE WriterWrite
  BY <1>10 DEF WriterWrite, Writer
<1> QED BY <1>1, <1>2, <1>3, <1>4, <1>5, <1>6, <1>7, <1>8, <1>9, <1>10
        DEF ServiceStep, MainLoop, TaskStep, WriterStep

-----------------------------------------------------------------------------
(* The pieces of the text.                                                 *)

LEMMA PieceEmpty == \A n : Piece(<<>>, n)
BY DEF Piece

LEMMA AppendLength ==
  ASSUME NEW q \in Seq(1..MaxText), NEW x \in 1..MaxText
  PROVE  Append(q, x) \in Seq(1..MaxText) /\ Len(Append(q, x)) = Len(q) + 1
OBVIOUS

LEMMA PieceAppend ==
  ASSUME NEW q \in Seq(1..MaxText), NEW n \in Int, NEW x \in 1..MaxText,
         Piece(q, n), x = n + Len(q) + 1
  PROVE  Piece(Append(q, x), n)
<1> DEFINE p == Append(q, x)
<1>1. /\ Len(q) \in Nat /\ DOMAIN q = 1..Len(q) /\ DOMAIN p = 1..(Len(q) + 1)
      /\ \A i \in 1..Len(q) : p[i] = q[i]
      /\ p[Len(q) + 1] = x
  OBVIOUS
<1> HIDE DEF p
<1>2. ASSUME NEW k \in DOMAIN p
      PROVE  p[k] = n + k
  <2>1. CASE k \in 1..Len(q)
    BY <1>1, <2>1 DEF Piece
  <2>2. CASE k = Len(q) + 1
    BY <1>1, <2>2
  <2> QED BY <1>1, <2>1, <2>2
<1>3. Piece(p, n)
  BY <1>2 DEF Piece
<1> QED BY <1>3 DEF p

LEMMA PieceTail ==
  ASSUME NEW q \in Seq(1..MaxText), q # <<>>, NEW n \in Int, Piece(q, n)
  PROVE  /\ Head(q) = n + 1 /\ Head(q) \in 1..MaxText
         /\ Tail(q) \in Seq(1..MaxText) /\ Len(Tail(q)) = Len(q) - 1
         /\ Piece(Tail(q), n + 1)
<1> DEFINE p == Tail(q)
<1>1. /\ Len(q) \in Nat /\ Len(q) > 0 /\ DOMAIN q = 1..Len(q)
      /\ DOMAIN p = 1..(Len(q) - 1) /\ Head(q) = q[1] /\ Len(p) = Len(q) - 1
      /\ \A i \in 1..(Len(q) - 1) : p[i] = q[i + 1] /\ i + 1 \in 1..Len(q)
  OBVIOUS
<1>0. Tail(q) \in Seq(1..MaxText) /\ Head(q) \in 1..MaxText
  BY TailRange
<1> HIDE DEF p
<1>2. ASSUME NEW k \in DOMAIN p
      PROVE  p[k] = (n + 1) + k
  <2>1. p[k] = n + (k + 1)
    BY <1>1 DEF Piece
  <2> QED BY <1>1, <2>1
<1>3. Piece(p, n + 1)
  BY <1>2 DEF Piece
<1>4. Head(q) = n + 1
  BY <1>1 DEF Piece
<1> QED BY <1>0, <1>1, <1>3, <1>4 DEF p

LEMMA PieceConcat ==
  ASSUME NEW p \in Seq(1..MaxText), NEW q \in Seq(1..MaxText), NEW n \in Int,
         Piece(p, n), Piece(q, n + Len(p))
  PROVE  /\ Piece(p \o q, n)
         /\ p \o q \in Seq(1..MaxText) /\ Len(p \o q) = Len(p) + Len(q)
<1> DEFINE r == p \o q
<1>1. /\ r \in Seq(1..MaxText) /\ Len(r) = Len(p) + Len(q)
      /\ \A i \in 1..Len(p) : r[i] = p[i]
      /\ \A j \in 1..Len(q) : r[Len(p) + j] = q[j]
  BY ConcatFacts
<1>2. /\ Len(p) \in Nat /\ Len(q) \in Nat /\ DOMAIN p = 1..Len(p) /\ DOMAIN q = 1..Len(q)
  OBVIOUS
<1>3. DOMAIN r = 1..(Len(p) + Len(q))
  BY <1>1
<1> HIDE DEF r
<1>4. ASSUME NEW k \in 1..(Len(p) + Len(q))
      PROVE  r[k] = n + k
  <2>1. CASE k \in 1..Len(p)
    BY <1>1, <1>2, <2>1 DEF Piece
  <2>2. CASE ~(k \in 1..Len(p))
    <3>1. PICK j \in 1..Len(q) : k = Len(p) + j
      <4>1. k - Len(p) \in 1..Len(q) /\ k = Len(p) + (k - Len(p))
        BY <1>2, <2>2
      <4> QED BY <4>1
    <3>2. r[k] = (n + Len(p)) + j
      BY <1>1, <1>2, <3>1 DEF Piece
    <3> QED BY <1>2, <3>1, <3>2
  <2> QED BY <2>1, <2>2
<1>5. Piece(r, n)
  BY <1>3, <1>4 DEF Piece
<1> QED BY <1>1, <1>5 DEF r

LEMMA TextTyped ==
  ASSUME AppTypeOK
  PROVE  /\ made \in Seq(1..MaxText) /\ stream.tokens \in Seq(1..MaxText)
         /\ outbox.text \in Seq(1..MaxText) /\ writer.text \in Seq(1..MaxText)
         /\ transcript \in Seq(1..MaxText)
         /\ Len(made) \in Nat /\ Len(stream.tokens) \in Nat /\ Len(outbox.text) \in Nat
         /\ Len(writer.text) \in Nat /\ Len(transcript) \in Nat
         /\ Published \in Int /\ Taken \in Int /\ Written \in Int
         /\ outbox.sequence \in Nat /\ MaxText \in Nat
         /\ stream.outcome \in Terminals \cup {NoTerminal}
<1>1. /\ made \in Seq(1..MaxText) /\ stream.tokens \in Seq(1..MaxText)
      /\ outbox.text \in Seq(1..MaxText) /\ writer.text \in Seq(1..MaxText)
      /\ transcript \in Seq(1..MaxText)
      /\ outbox.sequence \in Nat /\ stream.outcome \in Terminals \cup {NoTerminal}
  BY ServiceAssumption DEF AppTypeOK, ServiceTypeOK
<1>2. /\ Len(made) \in Nat /\ Len(stream.tokens) \in Nat /\ Len(outbox.text) \in Nat
      /\ Len(writer.text) \in Nat /\ Len(transcript) \in Nat
  BY <1>1
<1> QED BY <1>1, <1>2, ServiceAssumption DEF Published, Taken, Written

\* What a step of a generation does to its text.
LEMMA TextStep ==
  ASSUME AppTypeOK, TaskAgrees, WriterAgrees, TextInPieces, ServiceStep
  PROVE  \/ UNCHANGED <<made, stream.tokens, outbox.text, outbox.sequence, writer.text>>
         \/ /\ StartGenerate
            /\ made' = <<>> /\ stream'.tokens = <<>> /\ outbox'.text = <<>>
            /\ outbox'.sequence = 0 /\ writer'.text = <<>>
         \/ /\ Yield /\ Len(made) < MaxText
            /\ made' = Append(made, Len(made) + 1)
            /\ stream'.tokens = Append(stream.tokens, Len(made) + 1)
            /\ UNCHANGED <<outbox, writer>>
         \/ /\ PublishToken /\ stream.tokens # <<>>
            /\ outbox'.text = Append(outbox.text, Head(stream.tokens))
            /\ stream'.tokens = Tail(stream.tokens)
            /\ outbox'.sequence = outbox.sequence /\ UNCHANGED <<made, writer>>
         \/ /\ WriterTake /\ writer.text = <<>>
            /\ writer'.text = outbox.text /\ outbox'.text = <<>>
            /\ outbox'.sequence = Numbered(outbox.text) /\ UNCHANGED <<made, stream>>
         \/ /\ WriterWrite /\ writer'.text = <<>> /\ UNCHANGED <<made, stream, outbox>>
<1> USE DEF At, generationVars
<1> DEFINE Quiet == UNCHANGED <<made, stream.tokens, outbox.text, outbox.sequence, writer.text>>
<1>1. ASSUME ReadCommand \/ SkipCancel \/ StartLoad \/ FinishLoad \/ HandleUnload \/ RefuseGenerate
             \/ Attach \/ JoinWriter \/ ClearTask
      PROVE  Quiet
  BY <1>1 DEF ReadCommand, SkipCancel, StartLoad, FinishLoad, HandleUnload, RefuseGenerate,
              Attach, JoinWriter, ClearTask
<1>2. ASSUME StartGenerate
      PROVE  /\ made' = <<>> /\ stream'.tokens = <<>> /\ outbox'.text = <<>>
             /\ outbox'.sequence = 0 /\ writer'.text = <<>>
  BY <1>2 DEF StartGenerate, TakeCommand, TaskAgrees, EmptyStream, EmptyOutbox, Writer
<1>3. ASSUME Reserve
      PROVE  Quiet
  BY <1>3 DEF Reserve, TaskAgrees, EmptyStream
<1>4. ASSUME Yield
      PROVE  /\ Len(made) < MaxText
             /\ made' = Append(made, Len(made) + 1)
             /\ stream'.tokens = Append(stream.tokens, Len(made) + 1)
             /\ UNCHANGED <<outbox, writer>>
  BY <1>4 DEF Yield, AppTypeOK, ServiceTypeOK
<1>5. ASSUME NEW o \in Terminals, EndRun(o)
      PROVE  Quiet
  BY <1>5 DEF EndRun, AppTypeOK, ServiceTypeOK
<1>6. ASSUME PublishToken
      PROVE  /\ stream.tokens # <<>>
             /\ outbox'.text = Append(outbox.text, Head(stream.tokens))
             /\ stream'.tokens = Tail(stream.tokens)
             /\ outbox'.sequence = outbox.sequence /\ UNCHANGED <<made, writer>>
  BY <1>6 DEF PublishToken, AppTypeOK, ServiceTypeOK
<1>7. ASSUME PublishTerminal
      PROVE  Quiet
  BY <1>7 DEF PublishTerminal, EmptyStream, AppTypeOK, ServiceTypeOK
<1>8. ASSUME FinishOutbox
      PROVE  Quiet
  BY <1>8 DEF FinishOutbox, AppTypeOK, ServiceTypeOK
<1>9. ASSUME WriterTake
      PROVE  /\ writer.text = <<>>
             /\ writer'.text = outbox.text /\ outbox'.text = <<>>
             /\ outbox'.sequence = Numbered(outbox.text) /\ UNCHANGED <<made, stream>>
  BY <1>9 DEF WriterTake, WriterAgrees, AppTypeOK, ServiceTypeOK
<1>10. ASSUME WriterWrite
       PROVE  writer'.text = <<>> /\ UNCHANGED <<made, stream, outbox>>
  BY <1>10 DEF WriterWrite, Writer
<1> HIDE DEF Quiet
<1>11. \/ Quiet \/ StartGenerate \/ Yield \/ PublishToken \/ WriterTake \/ WriterWrite
  BY <1>1, <1>3, <1>5, <1>7, <1>8 DEF ServiceStep, MainLoop, TaskStep, WriterStep
<1> QED BY <1>2, <1>4, <1>6, <1>9, <1>10, <1>11 DEF Quiet

LEMMA TextInPiecesStep ==
  ASSUME AppTypeOK, TaskAgrees, WriterAgrees, TextInPieces, ServiceStep
  PROVE  TextInPieces'
<1>1. service'.pc = "reserve" => made' = <<>>
  <2>1. CASE StartGenerate
    BY <2>1 DEF StartGenerate
  <2>2. CASE ~StartGenerate
    <3>1. service'.pc = "reserve" => service.pc = "reserve"
      <4>1. service' = service \/ StartLoad \/ PublishTerminal
            \/ \E pc \in {"next", "attach", "publishing", "joining"} : Goto(pc)
        <5>1. FinishLoad \/ JoinWriter => Goto("next")
          BY DEF FinishLoad, JoinWriter
        <5>2. Reserve => Goto("attach") \/ Goto("publishing")
          BY DEF Reserve
        <5>3. Attach => Goto("publishing")
          BY DEF Attach
        <5>4. FinishOutbox => Goto("joining")
          BY DEF FinishOutbox
        <5>5. ReadCommand \/ SkipCancel \/ HandleUnload \/ RefuseGenerate \/ PublishToken
                \/ TaskStep \/ WriterStep => service' = service
          BY DEF ReadCommand, SkipCancel, HandleUnload, RefuseGenerate, PublishToken, TaskStep,
                 Yield, EndRun, ClearTask, WriterStep, WriterTake, WriterWrite
        <5> QED BY <2>2, <5>1, <5>2, <5>3, <5>4, <5>5 DEF ServiceStep, MainLoop
      <4>2. StartLoad \/ PublishTerminal => service'.pc \in {"loading", "finish"}
        <5>1. StartLoad => service'.pc = "loading"
          BY DEF StartLoad
        <5>2. PublishTerminal => service'.pc = "finish"
          BY DEF PublishTerminal, AppTypeOK, ServiceTypeOK
        <5> QED BY <5>1, <5>2
      <4>3. ASSUME NEW pc \in {"next", "attach", "publishing", "joining"}, Goto(pc)
            PROVE  service'.pc # "reserve"
        BY <4>3, GotoFacts
      <4> QED BY <4>1, <4>2, <4>3
    <3>2. service.pc = "reserve" => made' = made
      BY <2>2, TextStep DEF Yield, TaskAgrees
    <3> QED BY <3>1, <3>2 DEF TextInPieces
  <2> QED BY <2>1, <2>2
<1>2. CASE UNCHANGED <<made, stream.tokens, outbox.text, outbox.sequence, writer.text>>
  BY <1>1, <1>2 DEF TextInPieces, Published, Taken, Written
<1>3. CASE /\ made' = <<>> /\ stream'.tokens = <<>> /\ outbox'.text = <<>>
           /\ outbox'.sequence = 0 /\ writer'.text = <<>>
  <2>1. Published' = 0 /\ Taken' = 0 /\ Written' = 0 /\ Len(made') = 0
    <3>1. Len(<<>>) = 0
      OBVIOUS
    <3>2. /\ Len(made') = 0 /\ Len(stream'.tokens) = 0 /\ Len(outbox'.text) = 0
          /\ Len(writer'.text) = 0
      BY <1>3, <3>1
    <3> QED BY <3>2 DEF Published, Taken, Written
  <2> QED BY <1>1, <1>3, <2>1, PieceEmpty, TextTyped DEF TextInPieces
<1>4. CASE /\ Len(made) < MaxText
           /\ made' = Append(made, Len(made) + 1)
           /\ stream'.tokens = Append(stream.tokens, Len(made) + 1)
           /\ UNCHANGED <<outbox, writer>>
  <2>1. Len(made) + 1 \in 1..MaxText
    BY <1>4, TextTyped
  <2>2. Len(made') = Len(made) + 1 /\ Len(stream'.tokens) = Len(stream.tokens) + 1
    <3>1. /\ Len(Append(made, Len(made) + 1)) = Len(made) + 1
          /\ Len(Append(stream.tokens, Len(made) + 1)) = Len(stream.tokens) + 1
      BY <2>1, AppendLength, TextTyped
    <3> QED BY <1>4, <3>1
  <2>3. Published' = Published /\ Taken' = Taken /\ Written' = Written
    <3>1. Len(outbox'.text) = Len(outbox.text) /\ Len(writer'.text) = Len(writer.text)
      BY <1>4
    <3> QED BY <2>2, <3>1, TextTyped DEF Published, Taken, Written
  <2>4. Piece(made', 0)
    BY <1>4, <2>1, PieceAppend, TextTyped DEF TextInPieces
  <2>5. Len(made) + 1 = Published + Len(stream.tokens) + 1
    BY TextTyped DEF Published
  <2>6. Piece(stream'.tokens, Published)
    BY <1>4, <2>1, <2>5, PieceAppend, TextTyped DEF TextInPieces
  <2> QED BY <1>1, <1>4, <2>1, <2>2, <2>3, <2>4, <2>6 DEF TextInPieces
<1>5. CASE /\ stream.tokens # <<>>
           /\ outbox'.text = Append(outbox.text, Head(stream.tokens))
           /\ stream'.tokens = Tail(stream.tokens)
           /\ outbox'.sequence = outbox.sequence /\ UNCHANGED <<made, writer>>
  <2>1. /\ Head(stream.tokens) = Published + 1 /\ Head(stream.tokens) \in 1..MaxText
        /\ Len(stream'.tokens) = Len(stream.tokens) - 1
        /\ Piece(stream'.tokens, Published + 1)
    BY <1>5, PieceTail, TextTyped DEF TextInPieces
  <2>2. Len(outbox'.text) = Len(outbox.text) + 1
    <3>1. Len(Append(outbox.text, Head(stream.tokens))) = Len(outbox.text) + 1
      BY <2>1, AppendLength, TextTyped
    <3> QED BY <1>5, <3>1
  <2>3. Published' = Published + 1 /\ Taken' = Taken /\ Written' = Written
    <3>1. Len(made') = Len(made) /\ Len(writer'.text) = Len(writer.text)
      BY <1>5
    <3> QED BY <2>1, <2>2, <3>1, TextTyped DEF Published, Taken, Written
  <2>4. Published + 1 = Taken + Len(outbox.text) + 1
    BY TextTyped DEF Taken
  <2>5. Piece(outbox'.text, Taken)
    BY <1>5, <2>1, <2>4, PieceAppend, TextTyped DEF TextInPieces
  <2> QED BY <1>1, <1>5, <2>1, <2>3, <2>5 DEF TextInPieces
<1>6. CASE /\ writer.text = <<>>
           /\ writer'.text = outbox.text /\ outbox'.text = <<>>
           /\ outbox'.sequence = Numbered(outbox.text) /\ UNCHANGED <<made, stream>>
  <2>1. Published' = Published /\ Taken' = Published
    BY <1>6, TextTyped DEF Published, Taken
  <2>2. Written' = Taken /\ Written = Taken
    BY <1>6, <2>1, TextTyped DEF Taken, Written
  <2>3. outbox'.sequence <= Taken'
    <3>1. CASE outbox.text = <<>>
      BY <1>6, <2>1, <3>1, TextTyped DEF Numbered, TextInPieces, Taken
    <3>2. CASE outbox.text # <<>>
      <4>1. Len(outbox.text) >= 1
        BY <3>2, TextTyped
      <4> QED BY <1>6, <2>1, <3>2, <4>1, TextTyped DEF Numbered, TextInPieces, Taken
    <3> QED BY <3>1, <3>2
  <2> QED BY <1>1, <1>6, <2>1, <2>2, <2>3, PieceEmpty DEF TextInPieces
<1>7. CASE writer'.text = <<>> /\ UNCHANGED <<made, stream, outbox>>
  <2>1. Published' = Published /\ Taken' = Taken /\ Written' = Taken
    BY <1>7, TextTyped DEF Published, Taken, Written
  <2>2. 0 <= Taken
    BY TextTyped DEF Written, TextInPieces
  <2> QED BY <1>1, <1>7, <2>1, <2>2, PieceEmpty DEF TextInPieces
<1> QED BY <1>2, <1>3, <1>4, <1>5, <1>6, <1>7, TextStep

-----------------------------------------------------------------------------
(* The frames between what is written and what is shown.                   *)

LEMMA LeadsNowhere ==
  ASSUME NEW q \in Seq(Frames), NEW run, NEW total \in Nat, NEW ends,
         NEW s \in 0..MaxText, NEW n \in 1..(MaxText + 1), s <= total,
         \A f \in Range(q) : f.id # run
  PROVE  Leads(q, run, total, ends, s, s, n, n)
<1> DEFINE shown == [p \in 0..Len(q) |-> s]
           number == [p \in 0..Len(q) |-> n]
<1>1. Len(q) \in Nat /\ \A p \in 1..Len(q) : q[p] \in Range(q)
  BY DEF Range
<1>2. /\ shown \in [0..Len(q) -> 0..MaxText] /\ number \in [0..Len(q) -> 1..(MaxText + 1)]
      /\ \A p \in 0..Len(q) : shown[p] = s /\ number[p] = n
  OBVIOUS
<1> HIDE DEF shown, number
<1>3. ASSUME NEW p \in 1..Len(q)
      PROVE  Moves(q[p], run, total, ends, shown[p - 1], shown[p], number[p - 1], number[p])
  <2>1. q[p].id # run /\ p \in 0..Len(q) /\ p - 1 \in 0..Len(q)
    BY <1>1
  <2>2. shown[p - 1] = s /\ shown[p] = s /\ number[p - 1] = n /\ number[p] = n
    BY <1>2, <2>1
  <2> QED BY <2>1, <2>2 DEF Moves
<1>4. 0 \in 0..Len(q) /\ Len(q) \in 0..Len(q)
  BY <1>1
<1> QED BY <1>2, <1>3, <1>4 DEF Leads

\* The first frame, and the rest.
LEMMA LeadsTail ==
  ASSUME NEW q \in Seq(Frames), q # <<>>, NEW run, NEW total, NEW ends,
         NEW s, NEW t, NEW n, NEW m, Leads(q, run, total, ends, s, t, n, m)
  PROVE  \E s2 \in 0..MaxText, n2 \in 1..(MaxText + 1) :
           /\ Moves(Head(q), run, total, ends, s, s2, n, n2)
           /\ Leads(Tail(q), run, total, ends, s2, t, n2, m)
<1>1. PICK shown \in [0..Len(q) -> 0..MaxText], number \in [0..Len(q) -> 1..(MaxText + 1)] :
        /\ shown[0] = s /\ shown[Len(q)] = t
        /\ number[0] = n /\ number[Len(q)] = m
        /\ \A p \in 1..Len(q) :
             Moves(q[p], run, total, ends, shown[p - 1], shown[p], number[p - 1], number[p])
  BY DEF Leads
<1> DEFINE r == Tail(q)
           shown2 == [p \in 0..Len(r) |-> shown[p + 1]]
           number2 == [p \in 0..Len(r) |-> number[p + 1]]
<1>2. /\ Len(q) \in Nat /\ Len(q) > 0 /\ Len(r) = Len(q) - 1 /\ Head(q) = q[1]
      /\ \A p \in 1..Len(r) : r[p] = q[p + 1]
  OBVIOUS
<1> HIDE DEF r
<1>3. \A p \in 0..Len(r) : shown[p + 1] \in 0..MaxText /\ number[p + 1] \in 1..(MaxText + 1)
  BY <1>2
<1>4. /\ shown2 \in [0..Len(r) -> 0..MaxText] /\ number2 \in [0..Len(r) -> 1..(MaxText + 1)]
      /\ \A p \in 0..Len(r) : shown2[p] = shown[p + 1] /\ number2[p] = number[p + 1]
  BY <1>3
<1> HIDE DEF shown2, number2
<1>5. ASSUME NEW p \in 1..Len(r)
      PROVE  Moves(r[p], run, total, ends, shown2[p - 1], shown2[p], number2[p - 1], number2[p])
  <2>1. p \in 0..Len(r) /\ p - 1 \in 0..Len(r) /\ (p - 1) + 1 = p /\ p + 1 \in 1..Len(q)
    BY <1>2
  <2>2. /\ shown2[p - 1] = shown[p] /\ shown2[p] = shown[p + 1]
        /\ number2[p - 1] = number[p] /\ number2[p] = number[p + 1] /\ r[p] = q[p + 1]
    BY <1>2, <1>4, <2>1
  <2>3. Moves(q[p + 1], run, total, ends, shown[(p + 1) - 1], shown[p + 1],
              number[(p + 1) - 1], number[p + 1])
    BY <1>1, <2>1
  <2>4. (p + 1) - 1 = p
    BY <1>2
  <2> QED BY <2>2, <2>3, <2>4
<1>6. /\ 0 \in 0..Len(r) /\ Len(r) \in 0..Len(r) /\ Len(r) + 1 = Len(q) /\ 1 \in 1..Len(q)
      /\ 0 + 1 = 1 /\ 1 - 1 = 0
  BY <1>2
<1>7. shown2[0] = shown[1] /\ shown2[Len(r)] = t /\ number2[0] = number[1] /\ number2[Len(r)] = m
  BY <1>1, <1>4, <1>6
<1>8. Leads(r, run, total, ends, shown[1], t, number[1], m)
  BY <1>4, <1>5, <1>7 DEF Leads
<1>9. Moves(Head(q), run, total, ends, s, shown[1], n, number[1])
  BY <1>1, <1>2, <1>6
<1>10. shown[1] \in 0..MaxText /\ number[1] \in 1..(MaxText + 1)
  BY <1>3, <1>6
<1> QED BY <1>8, <1>9, <1>10 DEF r

\* One frame more.
LEMMA LeadsAppend ==
  ASSUME NEW q \in Seq(Frames), NEW x \in Frames, NEW run, NEW total, NEW ends,
         NEW s, NEW t, NEW n, NEW m, Leads(q, run, total, ends, s, t, n, m),
         NEW t2 \in 0..MaxText, NEW m2 \in 1..(MaxText + 1),
         Moves(x, run, total, ends, t, t2, m, m2)
  PROVE  Leads(Append(q, x), run, total, ends, s, t2, n, m2)
<1>1. PICK shown \in [0..Len(q) -> 0..MaxText], number \in [0..Len(q) -> 1..(MaxText + 1)] :
        /\ shown[0] = s /\ shown[Len(q)] = t
        /\ number[0] = n /\ number[Len(q)] = m
        /\ \A p \in 1..Len(q) :
             Moves(q[p], run, total, ends, shown[p - 1], shown[p], number[p - 1], number[p])
  BY DEF Leads
<1> DEFINE r == Append(q, x)
           shown2 == [p \in 0..Len(r) |-> IF p = Len(r) THEN t2 ELSE shown[p]]
           number2 == [p \in 0..Len(r) |-> IF p = Len(r) THEN m2 ELSE number[p]]
<1>2. /\ Len(q) \in Nat /\ Len(r) = Len(q) + 1 /\ r[Len(r)] = x
      /\ \A p \in 1..Len(q) : r[p] = q[p]
  OBVIOUS
<1> HIDE DEF r
<1>3. \A p \in 0..Len(r) : p # Len(r) => p \in 0..Len(q)
  BY <1>2
<1>4. /\ shown2 \in [0..Len(r) -> 0..MaxText] /\ number2 \in [0..Len(r) -> 1..(MaxText + 1)]
      /\ \A p \in 0..Len(q) : shown2[p] = shown[p] /\ number2[p] = number[p]
      /\ shown2[Len(r)] = t2 /\ number2[Len(r)] = m2
  BY <1>2, <1>3
<1> HIDE DEF shown2, number2
<1>5. ASSUME NEW p \in 1..Len(r)
      PROVE  Moves(r[p], run, total, ends, shown2[p - 1], shown2[p], number2[p - 1], number2[p])
  <2>1. CASE p = Len(r)
    <3>1. p - 1 = Len(q) /\ Len(q) \in 0..Len(q)
      BY <1>2, <2>1
    <3>2. shown2[p - 1] = t /\ number2[p - 1] = m
      BY <1>1, <1>4, <3>1
    <3> QED BY <1>2, <1>4, <2>1, <3>2
  <2>2. CASE p # Len(r)
    <3>1. p \in 1..Len(q) /\ p \in 0..Len(q) /\ p - 1 \in 0..Len(q)
      BY <1>2, <2>2
    <3> QED BY <1>1, <1>2, <1>4, <3>1
  <2> QED BY <2>1, <2>2
<1>6. 0 \in 0..Len(q)
  BY <1>2
<1>7. Leads(r, run, total, ends, s, t2, n, m2)
  BY <1>1, <1>4, <1>5, <1>6 DEF Leads
<1> QED BY <1>7 DEF r

LEMMA LeadsMore ==
  ASSUME NEW q \in Seq(Frames), NEW run, NEW total \in Nat, NEW total2 \in Nat, total <= total2,
         NEW ends, NEW ends2, ends \subseteq ends2,
         NEW s, NEW t, NEW n, NEW m, Leads(q, run, total, ends, s, t, n, m)
  PROVE  Leads(q, run, total2, ends2, s, t, n, m)
<1>1. PICK shown \in [0..Len(q) -> 0..MaxText], number \in [0..Len(q) -> 1..(MaxText + 1)] :
        /\ shown[0] = s /\ shown[Len(q)] = t
        /\ number[0] = n /\ number[Len(q)] = m
        /\ \A p \in 1..Len(q) :
             Moves(q[p], run, total, ends, shown[p - 1], shown[p], number[p - 1], number[p])
  BY DEF Leads
<1>2. ASSUME NEW p \in 1..Len(q)
      PROVE  Moves(q[p], run, total2, ends2, shown[p - 1], shown[p], number[p - 1], number[p])
  <2>1. Moves(q[p], run, total, ends, shown[p - 1], shown[p], number[p - 1], number[p])
    BY <1>1
  <2>2. shown[p] \in Int
    BY ServiceAssumption
  <2> QED BY <2>1, <2>2 DEF Moves
<1> QED BY <1>1, <1>2 DEF Leads

-----------------------------------------------------------------------------
(* What a generation's call reads.                                         *)

LEMMA GenerationReads ==
  ASSUME AppTypeOK, CallsInTurn, StatesAgree, NEW i \in Ids,
         calls[i].op = "generate", calls[i].pc = "read"
  PROVE  /\ Running /\ i = app.run /\ app.loadState = "ready"
         /\ reading.outcome = NoTerminal
BY DEF CallsInTurn, StatesAgree

LEMMA EndsTyped ==
  ASSUME AppTypeOK
  PROVE  Len(made) \in Nat /\ (Over => Ends = {Len(made)}) /\ (~Over => Ends = {})
BY TextTyped DEF Ends

\* The next frame, when the service has the generation in hand.
LEMMA HeadLeads ==
  ASSUME AppTypeOK, CallsInTurn, StatesAgree, TextArrives, NEW i \in Ids,
         calls[i].op = "generate", Reader(i), service.cmd.id = i
  PROVE  \E s \in 0..MaxText, n \in 1..(MaxText + 1) :
           /\ Moves(Head(frames), i, Len(made), Ends, Len(transcript), s, reading.expected, n)
           /\ Leads(Tail(frames), i, Len(made), Ends, s, Written, n, Following)
<1>1. /\ Running /\ i = app.run /\ reading.outcome = NoTerminal
      /\ frames # <<>> /\ frames \in Seq(Frames)
  BY GenerationReads, FramesTyped DEF Reader
<1>2. Leads(frames, i, Len(made), Ends, Len(transcript), Written, reading.expected, Following)
  BY <1>1 DEF TextArrives
<1> QED BY <1>1, <1>2, LeadsTail

\* A snapshot is never out of turn, and it goes on where the screen ends.
LEMMA SnapshotRead ==
  ASSUME AppTypeOK, CallsInTurn, StatesAgree, TextArrives, NEW i \in Ids, ReadSnapshot(i)
  PROVE  /\ Running /\ app.run = i /\ service.cmd.id = i
         /\ reading.outcome = NoTerminal /\ reading'.outcome = NoTerminal
         /\ reading'.expected = reading.expected + 1 /\ reading'.expected \in 1..(MaxText + 1)
         /\ calls' = calls /\ frames' = Tail(frames)
         /\ transcript' = transcript \o Head(frames).text /\ transcript' \in Seq(1..MaxText)
         /\ Piece(transcript', 0)
         /\ Len(transcript) < Len(transcript') /\ Len(transcript') <= Len(made)
         /\ Leads(Tail(frames), i, Len(made), Ends, Len(transcript'), Written,
                  reading'.expected, Following)
<1>1. /\ calls[i].op = "generate" /\ Reader(i) /\ calls[i].pc = "read" /\ frames # <<>>
      /\ Head(frames).id = i /\ Head(frames).kind = "snapshot" /\ frames' = Tail(frames)
  BY DEF ReadSnapshot, Reader, TakeFrame
<1>2. Running /\ app.run = i /\ reading.outcome = NoTerminal
  BY <1>1, GenerationReads
<1>3. Head(frames) \in Range(frames) /\ Head(frames) \in Frames
  BY <1>1, FramesTyped, TailRange
<1>4. service.cmd.id = i
  BY <1>1, <1>2, <1>3 DEF TextArrives
<1>5. PICK s \in 0..MaxText, n \in 1..(MaxText + 1) :
        /\ Moves(Head(frames), i, Len(made), Ends, Len(transcript), s, reading.expected, n)
        /\ Leads(Tail(frames), i, Len(made), Ends, s, Written, n, Following)
  BY <1>1, <1>4, HeadLeads
<1>6. /\ Head(frames).text # <<>> /\ Piece(Head(frames).text, Len(transcript))
      /\ s = Len(transcript) + Len(Head(frames).text)
      /\ Head(frames).sequence = reading.expected /\ n = reading.expected + 1
      /\ s <= Len(made)
  BY <1>1, <1>5 DEF Moves
<1>7. /\ reading' = [reading EXCEPT !.expected = @ + 1] /\ calls' = calls
      /\ transcript' = transcript \o Head(frames).text
  BY <1>6 DEF ReadSnapshot
<1>8. reading'.expected = n /\ reading'.outcome = NoTerminal
  BY <1>2, <1>6, <1>7 DEF AppTypeOK
<1>9. Head(frames).text \in Seq(1..MaxText)
  BY <1>3 DEF Frames
<1>10. Len(Head(frames).text) \in Nat /\ Len(Head(frames).text) > 0
  BY <1>6, <1>9
<1>11. /\ Piece(transcript \o Head(frames).text, 0)
       /\ transcript \o Head(frames).text \in Seq(1..MaxText)
       /\ Len(transcript \o Head(frames).text) = Len(transcript) + Len(Head(frames).text)
  <2>1. Piece(transcript, 0) /\ Piece(Head(frames).text, 0 + Len(transcript))
    BY <1>6, TextTyped DEF TextArrives
  <2> QED BY <1>9, <2>1, PieceConcat, TextTyped
<1>12. Len(transcript') = s
  BY <1>6, <1>7, <1>11
<1>13. /\ Piece(transcript', 0) /\ transcript' \in Seq(1..MaxText)
       /\ Len(transcript) < Len(transcript')
  BY <1>6, <1>7, <1>10, <1>11, <1>12, TextTyped
<1> QED BY <1>1, <1>2, <1>4, <1>5, <1>6, <1>7, <1>8, <1>12, <1>13

\* The end of a generation is read when all of its text is on the screen.
LEMMA TerminalRead ==
  ASSUME AppTypeOK, CallsInTurn, StatesAgree, TextArrives, NEW i \in Ids, ReadTerminal(i)
  PROVE  /\ Running /\ app.run = i /\ reading.outcome = NoTerminal
         /\ reading'.outcome \in Terminals /\ reading'.expected = reading.expected
         /\ frames' = Tail(frames) /\ transcript' = transcript
         /\ reading'.outcome # "failed" =>
              service.cmd.id = i /\ Len(transcript) = Len(made) /\ Over
<1>1. /\ calls[i].op = "generate" /\ Reader(i) /\ calls[i].pc = "read" /\ frames # <<>>
      /\ Head(frames).id = i /\ Head(frames).kind \in Terminals /\ frames' = Tail(frames)
      /\ reading' = [reading EXCEPT !.outcome = Head(frames).kind] /\ transcript' = transcript
  BY DEF ReadTerminal, Reader, TakeFrame
<1>2. Running /\ app.run = i /\ reading.outcome = NoTerminal
  BY <1>1, GenerationReads
<1>3. Head(frames) \in Range(frames)
  BY <1>1, FramesTyped, TailRange
<1>4. reading'.outcome = Head(frames).kind /\ reading'.expected = reading.expected
  BY <1>1 DEF AppTypeOK
<1>5. ASSUME Head(frames).kind # "failed"
      PROVE  service.cmd.id = i /\ Len(transcript) = Len(made) /\ Over
  <2>1. service.cmd.id = i
    BY <1>1, <1>2, <1>3, <1>5 DEF TextArrives
  <2>2. PICK s \in 0..MaxText, n \in 1..(MaxText + 1) :
          Moves(Head(frames), i, Len(made), Ends, Len(transcript), s, reading.expected, n)
    BY <1>1, <2>1, HeadLeads
  <2>3. s = Len(transcript) /\ s \in Ends
    BY <1>1, <1>5, <2>2 DEF Moves, Terminals
  <2> QED BY <2>1, <2>3, EndsTyped
<1> QED BY <1>1, <1>2, <1>4, <1>5

LEMMA TextKept ==
  ASSUME TextArrives, transcript' = transcript, reading' = reading,
         app'.run = app.run, app'.runState = app.runState,
         UNCHANGED <<frames, service, made, stream, outbox, writer>>
  PROVE  TextArrives'
<1>1. /\ Over' = Over /\ Ends' = Ends /\ Written' = Written /\ Following' = Following
      /\ Running' = Running
  BY DEF Over, Ends, Written, Taken, Published, Following, Running
<1> QED BY <1>1 DEF TextArrives

\* Without a generation only the text that is there matters.
LEMMA TextIdle ==
  ASSUME TextArrives, transcript' = transcript, ~Running'
  PROVE  TextArrives'
BY DEF TextArrives

LEMMA TextArrivesUser ==
  ASSUME AppTypeOK, CallsInTurn, StatesAgree, CommandsInOrder, FramesInOrder, TextArrives,
         UserStep
  PROVE  TextArrives'
<1>1. CASE Run
  <2>1. PICK i \in Ids :
          /\ Fresh(i)
          /\ app' = [app EXCEPT !.run = i, !.runState = "running", !.cancelPending = FALSE]
    BY <1>1 DEF Run
  <2>2. /\ reading'.expected = 1 /\ reading'.outcome = NoTerminal /\ transcript' = <<>>
        /\ service' = service /\ frames' = frames
    BY <1>1 DEF Run, serviceVars
  <2>3. app'.run = i
    BY <2>1 DEF AppTypeOK
  <2>4. Unsent(i)
    BY <2>1 DEF Fresh, Unsent
  <2>5. service.cmd.id < i /\ \A f \in Range(frames) : f.id < i
    BY <2>4, SendIsLater
  <2>6. service'.cmd.id # app'.run /\ \A f \in Range(frames') : f.id # app'.run
    BY <2>2, <2>3, <2>5, CommandsTyped, FramesTyped DEF Ids
  <2>7. Piece(transcript', 0)
    BY <2>2, PieceEmpty
  <2> QED BY <2>2, <2>6, <2>7 DEF TextArrives
<1>2. CASE Cancel
  <2>1. app'.run = app.run /\ app'.runState = app.runState
    BY <1>2 DEF Cancel, AppTypeOK
  <2> QED BY <1>2, <2>1, TextKept DEF Cancel, quietService
<1>3. ASSUME NEW i \in Ids, NEW key, BeginLoad(i, key)
      PROVE  TextArrives'
  <2>1. app'.run = app.run /\ app'.runState = app.runState
    BY <1>3 DEF BeginLoad, AppTypeOK
  <2> QED BY <1>3, <2>1, TextKept DEF BeginLoad, serviceVars
<1>4. CASE Load \/ Reload
  BY <1>3, <1>4 DEF Load, Reload
<1>5. CASE CancelLoad \/ Unload \/ SetModelURL
  <2>1. app'.run = app.run /\ app'.runState = app.runState
    BY <1>5 DEF CancelLoad, Unload, SetModelURL, AppTypeOK
  <2>2. UNCHANGED <<serviceVars, torn, reading, transcript>>
    BY <1>5 DEF CancelLoad, Unload, SetModelURL
  <2> QED BY <2>1, <2>2, TextKept DEF serviceVars
<1> QED BY <1>1, <1>2, <1>4, <1>5 DEF UserStep

LEMMA TextArrivesCall ==
  ASSUME AppTypeOK, CallsInTurn, StatesAgree, CommandsInOrder, FramesInOrder, ModelIsLoaded,
         ReadersAreOwed, TextArrives, NEW i \in Ids, CallStep(i)
  PROVE  TextArrives'
<1>1. CASE SendLoad(i) \/ Send(i)
  BY <1>1, TextKept DEF SendLoad, Send, quietService
<1>2. CASE ReadLoadAnswer(i) \/ ReadUnloadAnswer(i)
  <2>1. i \in Readers /\ app' = app /\ transcript' = transcript
    BY <1>2 DEF ReadLoadAnswer, ReadUnloadAnswer, Reader, Readers
  <2>2. ~Running
    BY <2>1, ReadyOwesNothing DEF StatesAgree
  <2> QED BY <2>1, <2>2, TextIdle DEF Running
<1>3. CASE SkipForeignEvent(i)
  <2>1. /\ calls[i].op = "generate" /\ Reader(i) /\ calls[i].pc = "read" /\ frames # <<>>
        /\ Head(frames).id # i /\ frames' = Tail(frames) /\ UNCHANGED appVars
        /\ UNCHANGED <<service, made, stream, outbox, writer>>
    BY <1>3 DEF SkipForeignEvent, Reader, TakeFrame
  <2>2. Running /\ i = app.run /\ reading.outcome = NoTerminal
    BY <2>1, GenerationReads
  <2>3. \A f \in Range(frames') : f \in Range(frames)
    BY <2>1, FramesTyped, TailRange
  <2>4. /\ Over' = Over /\ Ends' = Ends /\ Written' = Written /\ Following' = Following
        /\ Running' /\ app' = app /\ reading' = reading /\ transcript' = transcript
    BY <2>1, <2>2 DEF Over, Ends, Written, Taken, Published, Following, Running, appVars
  <2>5. CASE service.cmd.id # app.run
    BY <2>1, <2>2, <2>3, <2>4, <2>5 DEF TextArrives
  <2>6. CASE service.cmd.id = app.run
    <3>1. PICK s \in 0..MaxText, n \in 1..(MaxText + 1) :
            /\ Moves(Head(frames), i, Len(made), Ends, Len(transcript), s, reading.expected, n)
            /\ Leads(Tail(frames), i, Len(made), Ends, s, Written, n, Following)
      BY <2>1, <2>2, <2>6, HeadLeads
    <3>2. s = Len(transcript) /\ n = reading.expected
      BY <2>1, <3>1 DEF Moves
    <3>3. Leads(frames, app.run, Len(made), Ends, Len(transcript), Written,
                reading.expected, Following)'
      BY <2>1, <2>2, <2>4, <3>1, <3>2
    <3> QED BY <2>1, <2>2, <2>4, <2>6, <3>3 DEF TextArrives, NoTerminal
  <2> QED BY <2>5, <2>6
<1>4. CASE ReadSnapshot(i)
  <2>1. /\ Running /\ app.run = i /\ service.cmd.id = i
        /\ reading'.outcome = NoTerminal /\ frames' = Tail(frames)
        /\ Piece(transcript', 0) /\ Len(transcript') <= Len(made)
        /\ Leads(Tail(frames), i, Len(made), Ends, Len(transcript'), Written,
                 reading'.expected, Following)
    BY <1>4, SnapshotRead
  <2>2. app' = app /\ UNCHANGED <<service, made, stream, outbox, writer>>
    BY <1>4 DEF ReadSnapshot, TakeFrame
  <2>3. Over' = Over /\ Ends' = Ends /\ Written' = Written /\ Following' = Following
    BY <2>2 DEF Over, Ends, Written, Taken, Published, Following
  <2>4. Leads(frames, app.run, Len(made), Ends, Len(transcript), Written,
              reading.expected, Following)'
    BY <2>1, <2>2, <2>3
  <2> QED BY <2>1, <2>2, <2>4 DEF TextArrives, NoTerminal
<1>5. CASE ReadTerminal(i)
  <2>1. /\ Running /\ app.run = i
        /\ reading'.outcome \in Terminals /\ reading'.expected = reading.expected
        /\ frames' = Tail(frames) /\ transcript' = transcript
        /\ reading'.outcome # "failed" =>
             service.cmd.id = i /\ Len(transcript) = Len(made) /\ Over
    BY <1>5, TerminalRead
  <2>2. app' = app /\ UNCHANGED <<service, made>> /\ Over' = Over
    BY <1>5 DEF ReadTerminal, TakeFrame, Over
  <2>3. \A f \in Range(frames') : f \in Range(frames)
    BY <1>5, <2>1, FramesTyped, TailRange DEF ReadTerminal, Reader
  <2> QED BY <2>1, <2>2, <2>3 DEF TextArrives, Terminals, NoTerminal
<1>6. CASE ReadTorn(i)
  <2>1. UNCHANGED <<frames, service, made, stream, outbox, writer, app, transcript>>
    BY <1>6 DEF ReadTorn, serviceVars
  <2>2. CASE reading' = reading
    BY <2>1, <2>2, TextKept
  <2>3. CASE reading' = [reading EXCEPT !.outcome = "failed"]
    <3>1. reading'.outcome = "failed" /\ reading'.expected = reading.expected
      BY <2>3 DEF AppTypeOK
    <3>2. Running' = Running
      BY <2>1 DEF Running
    <3>3. CASE service.cmd.id # app.run
      BY <2>1, <3>1, <3>2, <3>3 DEF TextArrives
    <3>4. CASE service.cmd.id = app.run
      <4>1. Running => Len(transcript) <= Len(made)
        BY <3>4 DEF TextArrives
      <4> QED BY <2>1, <3>1, <3>2, <3>4, <4>1 DEF TextArrives, NoTerminal
    <3> QED BY <3>3, <3>4
  <2> QED BY <1>6, <2>2, <2>3 DEF ReadTorn
<1>7. CASE ApplyLoad(i) \/ ApplyUnload(i)
  <2>1. app'.run = app.run /\ app'.runState = app.runState
    BY <1>7 DEF ApplyLoad, ApplyUnload, AppTypeOK
  <2> QED BY <1>7, <2>1, TextKept DEF ApplyLoad, ApplyUnload, serviceVars
<1>8. CASE EndStream(i)
  <2>1. ~Running' /\ transcript' = transcript
    BY <1>8 DEF EndStream, Running, AppTypeOK
  <2> QED BY <2>1, TextIdle
<1> QED BY <1>1, <1>2, <1>3, <1>4, <1>5, <1>6, <1>7, <1>8 DEF CallStep, ReadEvent

\* While a generation goes on, what is written stays, and what has ended stays so.
LEMMA WrittenStays ==
  ASSUME AppTypeOK, TaskAgrees, WriterAgrees, TextInPieces, GenerationStep
  PROVE  /\ Written' = Written /\ Following' = Following
         /\ Len(made) <= Len(made') /\ Len(made') \in Nat
         /\ Over => Over' /\ Len(made') = Len(made)
<1> USE DEF At, generationVars
<1>1. CASE Reserve \/ Attach \/ FinishOutbox \/ JoinWriter \/ ClearTask \/ \E o \in Terminals : EndRun(o)
  <2>1. /\ made' = made /\ writer' = writer
        /\ outbox'.text = outbox.text /\ outbox'.sequence = outbox.sequence
    BY <1>1 DEF Reserve, Attach, FinishOutbox, JoinWriter, ClearTask, EndRun, AppTypeOK, ServiceTypeOK
  <2>2. stream'.tokens = stream.tokens
    <3>1. CASE Reserve
      BY <3>1 DEF Reserve, TaskAgrees, EmptyStream
    <3>2. CASE Attach \/ FinishOutbox \/ JoinWriter \/ ClearTask
      BY <3>2 DEF Attach, FinishOutbox, JoinWriter, ClearTask
    <3>3. ASSUME NEW o \in Terminals, EndRun(o)
          PROVE  stream'.tokens = stream.tokens
      BY <3>3 DEF EndRun, AppTypeOK, ServiceTypeOK
    <3> QED BY <1>1, <3>1, <3>2, <3>3
  <2>3. Over => Over'
    <3>1. CASE Reserve \/ Attach
      BY <3>1 DEF Reserve, Attach, Over
    <3>2. CASE FinishOutbox \/ JoinWriter
      <4>1. Goto("joining") \/ Goto("next")
        BY <3>2 DEF FinishOutbox, JoinWriter
      <4> QED BY <4>1, GotoFacts DEF Over
    <3>3. CASE service' = service
      BY <3>3 DEF Over
    <3> QED BY <1>1, <3>1, <3>2, <3>3 DEF ClearTask, EndRun
  <2> QED BY <2>1, <2>2, <2>3, TextTyped DEF Written, Taken, Published, Following
<1>2. CASE PublishTerminal
  <2>1. /\ made' = made /\ writer' = writer /\ stream'.tokens = stream.tokens
        /\ outbox'.text = outbox.text /\ outbox'.sequence = outbox.sequence
    BY <1>2 DEF PublishTerminal, EmptyStream, AppTypeOK, ServiceTypeOK
  <2>2. ~Over
    BY <1>2 DEF PublishTerminal, Over
  <2> QED BY <2>1, <2>2, TextTyped DEF Written, Taken, Published, Following
<1>3. CASE PublishToken
  <2>1. /\ stream.tokens # <<>> /\ made' = made /\ writer' = writer
        /\ outbox'.text = Append(outbox.text, Head(stream.tokens))
        /\ outbox'.sequence = outbox.sequence
        /\ stream'.tokens = Tail(stream.tokens)
    BY <1>3 DEF PublishToken, AppTypeOK, ServiceTypeOK
  <2>2. Head(stream.tokens) \in 1..MaxText /\ Len(Tail(stream.tokens)) = Len(stream.tokens) - 1
    BY <2>1, PieceTail, TextTyped DEF TextInPieces
  <2>3. Len(Append(outbox.text, Head(stream.tokens))) = Len(outbox.text) + 1
    BY <2>2, AppendLength, TextTyped
  <2>4. Len(outbox'.text) = Len(outbox.text) + 1 /\ Len(stream'.tokens) = Len(stream.tokens) - 1
    BY <2>1, <2>2, <2>3
  <2>5. Taken' = Taken /\ Written' = Written
    <3>1. Len(made') = Len(made) /\ Len(writer'.text) = Len(writer.text)
      BY <2>1
    <3> QED BY <2>4, <3>1, TextTyped DEF Written, Taken, Published
  <2>6. ~Over
    BY <1>3 DEF PublishToken, Over
  <2> QED BY <2>1, <2>5, <2>6, TextTyped DEF Following
<1>4. CASE Yield
  <2>1. /\ Len(made) < MaxText /\ made' = Append(made, Len(made) + 1)
        /\ stream'.tokens = Append(stream.tokens, Len(made) + 1)
        /\ UNCHANGED <<outbox, writer>>
    BY <1>4 DEF Yield, AppTypeOK, ServiceTypeOK
  <2>2. Len(made) + 1 \in 1..MaxText
    BY <2>1, TextTyped
  <2>3. /\ Len(Append(made, Len(made) + 1)) = Len(made) + 1
        /\ Len(Append(stream.tokens, Len(made) + 1)) = Len(stream.tokens) + 1
    BY <2>2, AppendLength, TextTyped
  <2>4. Len(made') = Len(made) + 1 /\ Len(stream'.tokens) = Len(stream.tokens) + 1
    BY <2>1, <2>3
  <2>5. Written' = Written
    <3>1. Len(outbox'.text) = Len(outbox.text) /\ Len(writer'.text) = Len(writer.text)
      BY <2>1
    <3> QED BY <2>4, <3>1, TextTyped DEF Written, Taken, Published
  <2>6. ~Over
    BY <1>4 DEF Yield, TaskAgrees, Over
  <2> QED BY <2>1, <2>4, <2>5, <2>6, TextTyped DEF Following
<1>5. CASE WriterTake
  <2>1. /\ writer.text = <<>> /\ writer'.text = outbox.text /\ outbox'.text = <<>>
        /\ outbox'.sequence = Numbered(outbox.text) /\ UNCHANGED <<made, stream, service>>
    BY <1>5 DEF WriterTake, WriterAgrees, AppTypeOK, ServiceTypeOK
  <2>2. /\ Len(outbox'.text) = 0 /\ Len(writer.text) = 0 /\ Len(writer'.text) = Len(outbox.text)
        /\ Len(made') = Len(made) /\ Len(stream'.tokens) = Len(stream.tokens)
    BY <2>1
  <2>3. Written' = Written
    BY <2>2, TextTyped DEF Written, Taken, Published
  <2>4. Following' = Following
    <3>1. CASE outbox.text = <<>>
      BY <2>1, <3>1 DEF Following, Numbered
    <3>2. CASE outbox.text # <<>>
      BY <2>1, <3>2 DEF Following, Numbered
    <3> QED BY <3>1, <3>2
  <2> QED BY <2>1, <2>2, <2>3, <2>4, TextTyped DEF Over
<1> QED BY <1>1, <1>2, <1>3, <1>4, <1>5 DEF GenerationStep, TaskStep

\* The numbers of the text and of its snapshots stay within the bound.
LEMMA TakenBounds ==
  ASSUME AppTypeOK, TextInPieces
  PROVE  Taken \in 0..MaxText /\ Taken <= Len(made) /\ outbox.sequence + 1 \in 1..(MaxText + 1)
<1>1. 0 <= Written /\ Len(made) <= MaxText /\ outbox.sequence <= Taken
  BY DEF TextInPieces
<1>2. Written = Taken - Len(writer.text)
  BY DEF Written
<1>3. Taken = Len(made) - Len(stream.tokens) - Len(outbox.text)
  BY DEF Taken, Published
<1>4. /\ Taken \in Int /\ Written \in Int /\ Len(made) \in Nat /\ Len(stream.tokens) \in Nat
      /\ Len(outbox.text) \in Nat /\ Len(writer.text) \in Nat
      /\ outbox.sequence \in Nat /\ MaxText \in Nat
  BY TextTyped
<1>5. Taken <= Len(made) /\ 0 <= Taken
  <2>1. PICK m \in Nat, k \in Nat, o \in Nat, w \in Nat :
          m = Len(made) /\ k = Len(stream.tokens) /\ o = Len(outbox.text) /\ w = Len(writer.text)
    BY <1>4
  <2>2. Taken = m - k - o /\ 0 <= Taken - w
    BY <1>1, <1>2, <1>3, <2>1
  <2>3. PICK t \in Int : t = Taken
    BY <1>4
  <2>4. t = m - k - o /\ 0 <= t - w
    BY <2>2, <2>3
  <2>5. t <= m /\ 0 <= t
    BY <2>4
  <2> QED BY <2>1, <2>3, <2>5
<1>6. outbox.sequence + 1 <= MaxText + 1 /\ Taken <= MaxText
  BY <1>1, <1>4, <1>5
<1> QED BY <1>4, <1>5, <1>6

\* The writer's frames lead on to what it has taken.
LEMMA WriterLeads ==
  ASSUME AppTypeOK, CommandsInOrder, TaskAgrees, WriterAgrees, TextInPieces, WriterWrite,
         NEW s, NEW n,
         Leads(frames, service.cmd.id, Len(made), Ends, s, Written, n, Following)
  PROVE  Leads(frames', service.cmd.id, Len(made), Ends, s, Written', n, Following')
<1> DEFINE id == service.cmd.id
<1>1. PICK x \in Frames, e \in Frames :
        /\ x.id = id /\ x.kind = "snapshot"
        /\ x.sequence = outbox.sequence /\ x.text = writer.text
        /\ e.id = id /\ e.kind \in Terminals
        /\ writer.text = <<>> /\ writer.terminal = NoTerminal => frames' = frames
        /\ writer.text # <<>> /\ writer.terminal = NoTerminal => frames' = Append(frames, x)
        /\ writer.text = <<>> /\ writer.terminal # NoTerminal => frames' = Append(frames, e)
        /\ writer.text # <<>> /\ writer.terminal # NoTerminal =>
             frames' = Append(Append(frames, x), e)
  BY WriterFrames
<1>2. frames \in Seq(Frames)
  BY FramesTyped
<1>3. writer'.text = <<>> /\ UNCHANGED <<made, stream, outbox>>
  BY DEF WriterWrite, Writer
<1>4. Written' = Taken /\ Following' = outbox.sequence + 1
  <2>1. Len(writer'.text) = 0
    BY <1>3
  <2> QED BY <1>3, <2>1, TextTyped DEF Written, Taken, Published, Following
<1>5. /\ Taken \in 0..MaxText /\ Taken <= Len(made) /\ outbox.sequence + 1 \in 1..(MaxText + 1)
  BY TakenBounds
<1>6. ASSUME writer.text # <<>>
      PROVE  Leads(Append(frames, x), id, Len(made), Ends, s, Taken, n, outbox.sequence + 1)
  <2>1. Following = outbox.sequence /\ Taken = Written + Len(writer.text)
    BY <1>6, TextTyped DEF Following, Written
  <2>2. Moves(x, id, Len(made), Ends, Written, Taken, Following, outbox.sequence + 1)
    BY <1>1, <1>5, <1>6, <2>1 DEF Moves, TextInPieces
  <2> QED BY <1>2, <1>5, <2>2, LeadsAppend
<1>7. ASSUME writer.text = <<>>
      PROVE  Leads(frames, id, Len(made), Ends, s, Taken, n, outbox.sequence + 1)
  <2>1. Following = outbox.sequence + 1 /\ Taken = Written
    <3>1. Len(writer.text) = 0
      BY <1>7
    <3> QED BY <1>7, <3>1, TextTyped DEF Following, Written
  <2> QED BY <2>1
<1>8. ASSUME writer.terminal # NoTerminal
      PROVE  Moves(e, id, Len(made), Ends, Taken, Taken, outbox.sequence + 1, outbox.sequence + 1)
  <2>1. Over /\ outbox.text = <<>>
    BY <1>8 DEF WriterAgrees
  <2>2. Len(outbox.text) = 0 /\ Len(stream.tokens) = 0
    BY <2>1 DEF TaskAgrees, Over, EmptyStream
  <2>3. Taken = Len(made)
    BY <2>2, TextTyped DEF Taken, Published
  <2>4. Taken \in Ends
    BY <2>1, <2>3, EndsTyped
  <2> QED BY <1>1, <1>5, <2>4 DEF Moves, Terminals
<1>9. ASSUME NEW q \in Seq(Frames), writer.terminal # NoTerminal,
             Leads(q, id, Len(made), Ends, s, Taken, n, outbox.sequence + 1)
      PROVE  Leads(Append(q, e), id, Len(made), Ends, s, Taken, n, outbox.sequence + 1)
  BY <1>5, <1>8, <1>9, LeadsAppend
<1>10. Append(frames, x) \in Seq(Frames)
  BY <1>2, AppendRange
<1>11. Leads(frames', id, Len(made), Ends, s, Taken, n, outbox.sequence + 1)
  <2> HIDE DEF id
  <2>1. CASE writer.text = <<>> /\ writer.terminal = NoTerminal
    BY <1>1, <1>7, <2>1
  <2>2. CASE writer.text # <<>> /\ writer.terminal = NoTerminal
    BY <1>1, <1>6, <2>2
  <2>3. CASE writer.text = <<>> /\ writer.terminal # NoTerminal
    BY <1>1, <1>2, <1>7, <1>9, <2>3
  <2>4. CASE writer.text # <<>> /\ writer.terminal # NoTerminal
    BY <1>1, <1>6, <1>9, <1>10, <2>4
  <2> QED BY <2>1, <2>2, <2>3, <2>4
<1> QED BY <1>4, <1>11

LEMMA TextArrivesService ==
  ASSUME AppTypeOK, CallsInTurn, StatesAgree, Ordering, ModelIsLoaded, TaskAgrees,
         TextInPieces, TextArrives, ServiceStep, UNCHANGED appVars
  PROVE  TextArrives'
<1> USE DEF Ordering
<1>0. /\ app' = app /\ reading' = reading /\ transcript' = transcript
      /\ Running' = Running
  BY DEF appVars, Running
<1>1. CASE ~Running
  BY <1>0, <1>1, TextIdle
<1>2. SUFFICES ASSUME Running
               PROVE  TextArrives'
  BY <1>1
<1>3. /\ app.loadState = "ready" /\ app.run \in Ids /\ LastCall(app.run)
      /\ LoadIsCurrent /\ app.key \in Keys
  BY <1>2 DEF StatesAgree, ModelIsLoaded, Answered, AppTypeOK
<1>4. ASSUME NEW op, TakeCommand(op), op # "cancel", commands' = commands
      PROVE  /\ op = "generate" /\ Head(queue).id \in Ids /\ Head(queue).id <= app.run
             /\ service.cmd.id < Head(queue).id /\ \A f \in Range(frames) : f.id < Head(queue).id
  <2>1. Head(queue) \in Waiting /\ Head(queue).op = op /\ Made(Head(queue))
    BY <1>4, TakeFacts
  <2>2. op = "generate"
    BY <1>3, <2>1, OnlyGenerationsWait DEF LoadIsCurrent
  <2>3. Head(queue).id \in Ids /\ Head(queue).id <= app.run
    BY <1>3, <2>1 DEF Made, Sent, Unsent, LastCall, Ids
  <2> QED BY <2>1, <2>2, <2>3 DEF CommandsInOrder, FramesInOrder
<1>5. CASE ReadCommand \/ SkipCancel
  BY <1>0, <1>5, TextKept DEF ReadCommand, SkipCancel, generationVars
<1>6. CASE StartLoad \/ HandleUnload
  BY <1>4, <1>6 DEF StartLoad, HandleUnload
<1>7. CASE FinishLoad
  BY <1>3, <1>7 DEF FinishLoad, At, LoadIsCurrent
<1>8. CASE RefuseGenerate
  BY <1>3, <1>8, ServiceAssumption DEF RefuseGenerate, LoadIsCurrent
<1>9. CASE StartGenerate
  <2>1. /\ frames' = frames /\ made' = <<>> /\ service'.cmd = Head(queue)
        /\ stream' = stream /\ service.pc = "next"
        /\ outbox'.text = <<>> /\ outbox'.sequence = 0 /\ writer'.text = <<>>
        /\ service.cmd.id < Head(queue).id /\ Head(queue).id <= app.run /\ Head(queue).id \in Ids
        /\ \A f \in Range(frames) : f.id < Head(queue).id
    BY <1>4, <1>9 DEF StartGenerate, TakeCommand, At, EmptyOutbox, Writer
  <2>2. /\ service.cmd.id # app.run
    BY <1>3, <2>1, CommandsTyped DEF Ids
  <2>3. CASE Head(queue).id # app.run
    BY <1>0, <2>1, <2>2, <2>3 DEF TextArrives
  <2>4. CASE Head(queue).id = app.run
    <3>1. /\ transcript = <<>> /\ reading.outcome \in {NoTerminal, "failed"}
          /\ reading.expected = 1
      BY <1>2, <2>2 DEF TextArrives
    <3>2. stream.tokens = <<>>
      BY <2>1 DEF TaskAgrees, EmptyStream
    <3>3. Written' = 0 /\ Following' = 1 /\ Len(made') = 0 /\ Len(transcript) = 0
      <4>1. /\ Len(made') = 0 /\ Len(stream'.tokens) = 0 /\ Len(outbox'.text) = 0
            /\ Len(writer'.text) = 0 /\ Len(transcript) = 0
        BY <2>1, <3>1, <3>2
      <4>2. Written' = 0
        BY <4>1 DEF Written, Taken, Published
      <4>3. Following' = 1
        BY <2>1 DEF Following
      <4> QED BY <4>1, <4>2, <4>3
    <3>4. \A f \in Range(frames) : f.id # app.run
      BY <1>3, <2>1, <2>4, FramesTyped DEF Ids
    <3>5. PICK ends : ends = Ends'
      OBVIOUS
    <3>6. Leads(frames, app.run, 0, ends, 0, 0, 1, 1)
      BY <3>4, LeadsNowhere, FramesTyped, ServiceAssumption
    <3>7. Leads(frames, app.run, Len(made), Ends, Len(transcript), Written,
                reading.expected, Following)'
      BY <1>0, <2>1, <3>1, <3>3, <3>5, <3>6
    <3> QED BY <1>0, <2>1, <2>4, <3>1, <3>3, <3>7, PieceEmpty DEF TextArrives, NoTerminal
  <2> QED BY <2>3, <2>4
<1>10. CASE WriterWrite
  <2>1. /\ service' = service /\ made' = made /\ Over' = Over /\ Ends' = Ends
    BY <1>10 DEF WriterWrite, Over, Ends
  <2>2. CASE service.cmd.id # app.run
    <3>1. \A f \in Range(frames') : f \in Range(frames) \/ f.id # app.run
      BY <1>10, <2>2, WriterOrder
    <3> QED BY <1>0, <2>1, <2>2, <3>1 DEF TextArrives
  <2>3. CASE service.cmd.id = app.run
    <3>1. reading.outcome = NoTerminal =>
            Leads(frames', service.cmd.id, Len(made), Ends, Len(transcript), Written',
                  reading.expected, Following')
      BY <1>2, <1>10, <2>3, WriterLeads DEF TextArrives
    <3>2. reading.outcome = NoTerminal =>
            Leads(frames, app.run, Len(made), Ends, Len(transcript), Written,
                  reading.expected, Following)'
      BY <1>0, <2>1, <2>3, <3>1
    <3>3. /\ Len(transcript) <= Len(made) /\ Piece(transcript, 0)
          /\ reading.outcome \in {"finished", "cancelled"} => Len(transcript) = Len(made) /\ Over
      BY <1>2, <2>3 DEF TextArrives
    <3> QED BY <1>0, <2>1, <2>3, <3>2, <3>3 DEF TextArrives
  <2> QED BY <2>2, <2>3
<1>11. CASE GenerationStep
  <2>1. /\ Written' = Written /\ Following' = Following
        /\ Len(made) <= Len(made') /\ Len(made') \in Nat
        /\ Over => Over' /\ Len(made') = Len(made)
    BY <1>11, WrittenStays
  <2>2. frames' = frames /\ service'.cmd = service.cmd
    BY <1>11, GenerationStepKeeps
  <2>3. CASE service.cmd.id # app.run
    BY <1>0, <2>2, <2>3 DEF TextArrives
  <2>4. CASE service.cmd.id = app.run
    <3>1. PICK total \in Nat : total = Len(made')
      BY <2>1
    <3>7. PICK ends : ends = Ends'
      OBVIOUS
    <3>2. Ends \subseteq ends
      BY <2>1, <3>7 DEF Ends
    <3>3. reading.outcome = NoTerminal =>
            Leads(frames, app.run, total, ends, Len(transcript), Written, reading.expected, Following)
      <4>1. reading.outcome = NoTerminal =>
              Leads(frames, app.run, Len(made), Ends, Len(transcript), Written,
                    reading.expected, Following)
        BY <1>2, <2>4 DEF TextArrives
      <4>2. Len(made) \in Nat /\ Len(made) <= total
        BY <2>1, <3>1, TextTyped
      <4>3. ASSUME NEW s, NEW t, NEW n, NEW m,
                   Leads(frames, app.run, Len(made), Ends, s, t, n, m)
            PROVE  Leads(frames, app.run, total, ends, s, t, n, m)
        BY <3>2, <4>2, <4>3, LeadsMore, FramesTyped
      <4> QED BY <4>1, <4>3
    <3>4. reading.outcome = NoTerminal =>
            Leads(frames, app.run, Len(made), Ends, Len(transcript), Written,
                  reading.expected, Following)'
      BY <1>0, <2>1, <2>2, <3>1, <3>3, <3>7
    <3>5. /\ Len(transcript) <= Len(made) /\ Piece(transcript, 0)
          /\ reading.outcome \in {"finished", "cancelled"} => Len(transcript) = Len(made) /\ Over
      BY <1>2, <2>4 DEF TextArrives
    <3>6. Len(transcript) <= Len(made')
      BY <2>1, <3>5, TextTyped
    <3> QED BY <1>0, <2>1, <2>2, <2>4, <3>4, <3>5, <3>6 DEF TextArrives
  <2> QED BY <2>3, <2>4
<1> QED BY <1>5, <1>6, <1>7, <1>8, <1>9, <1>10, <1>11, ServiceSteps

-----------------------------------------------------------------------------
(* Types.                                                                  *)

LEMMA CommandsMade ==
  /\ CancelCommand \in Commands
  /\ \A i \in Ids : GenerateCommand(i) \in Commands /\ UnloadCommand(i) \in Commands
  /\ \A i \in Ids, key \in Keys : LoadCommand(i, key) \in Commands
BY DEF Commands

LEMMA EventTyped ==
  ASSUME NEW kind \in Terminals \cup {"ready", "unloaded"}, NEW id \in Ids
  PROVE  Event(kind, id) \in Frames
BY ServiceAssumption DEF Event, Frame, Frames, Terminals

\* The socket and the queue.
LEMMA WireTyped ==
  ASSUME AppTypeOK, Ordering, ServiceStep
  PROVE  commands' \in Seq(Commands) /\ queue' \in Seq(Commands) /\ frames' \in Seq(Frames)
<1> USE DEF Ordering
<1>0. commands \in Seq(Commands) /\ queue \in Seq(Commands) /\ frames \in Seq(Frames)
  BY FramesTyped DEF AppTypeOK, ServiceTypeOK
<1>1. CASE ReadCommand
  <2>1. /\ commands # <<>> /\ commands' = Tail(commands) /\ queue' = Append(queue, Head(commands))
        /\ frames' = frames
    BY <1>1 DEF ReadCommand
  <2> QED BY <1>0, <2>1, TailRange, AppendRange
<1>2. ASSUME NEW op, TakeCommand(op), commands' = commands
      PROVE  queue' \in Seq(Commands) /\ (op # "cancel" => Head(queue).id \in Ids)
  BY <1>2, TakeFacts DEF Made
<1>3. CASE SkipCancel \/ StartLoad \/ StartGenerate
  BY <1>0, <1>2, <1>3 DEF SkipCancel, StartLoad, StartGenerate
<1>4. CASE HandleUnload
  BY <1>0, <1>2, <1>4, EventTyped, AppendRange DEF HandleUnload, Reply
<1>5. CASE RefuseGenerate
  BY <1>0, <1>2, <1>5, EventTyped, AppendRange DEF RefuseGenerate, Reply, Terminals
<1>6. CASE FinishLoad
  <2>1. PICK kind \in {"ready", "failed"} : frames' = Append(frames, Event(kind, service.cmd.id))
    BY <1>6 DEF FinishLoad, Reply
  <2>2. service.cmd.id \in Ids
    BY <1>6 DEF FinishLoad, At, CommandsInOrder, Made
  <2>3. Event(kind, service.cmd.id) \in Frames
    BY <2>2, EventTyped DEF Terminals
  <2> QED BY <1>0, <1>6, <2>1, <2>3, AppendRange DEF FinishLoad
<1>7. CASE WriterWrite
  <2>1. PICK s \in Frames, e \in Frames :
           \/ frames' = frames \/ frames' = Append(frames, s)
           \/ frames' = Append(frames, e) \/ frames' = Append(Append(frames, s), e)
    BY <1>7, WriterFrames
  <2>2. Append(frames, s) \in Seq(Frames) /\ Append(frames, e) \in Seq(Frames)
    BY <1>0, AppendRange
  <2>3. Append(Append(frames, s), e) \in Seq(Frames)
    BY <2>2, AppendRange
  <2> QED BY <1>0, <1>7, <2>1, <2>2, <2>3 DEF WriterWrite
<1>8. CASE GenerationStep
  BY <1>0, <1>8, GenerationStepKeeps
<1> QED BY <1>1, <1>3, <1>4, <1>5, <1>6, <1>7, <1>8, ServiceSteps

Services == [pc : {"next", "loading", "reserve", "attach", "publishing", "finish", "joining"},
             cmd : Commands, failed : BOOLEAN]
Entries  == [id : Ids \cup {NoId}, attached : BOOLEAN]
Tasks    == [id : Ids \cup {NoId}, state : {"none", "running", "clearing"}, cancelled : BOOLEAN]
Streams  == [tokens : Seq(1..MaxText), outcome : Terminals \cup {NoTerminal}, throws : BOOLEAN]
Outboxes == [text : Seq(1..MaxText), terminal : Terminals \cup {NoTerminal},
             finished : BOOLEAN, sequence : 0..(MaxText + 1)]
Writers  == [state : {"none", "waiting", "writing", "done"}, text : Seq(1..MaxText),
             terminal : Terminals \cup {NoTerminal}, done : BOOLEAN]

WireTypeOK ==
  commands \in Seq(Commands) /\ queue \in Seq(Commands) /\ frames \in Seq(Frames)
MainTypeOK ==
  service \in Services /\ directory \in Keys \cup {NoKey} /\ session \in Keys \cup {NoKey}
GenerationTypeOK ==
  /\ registry \in Entries /\ task \in Tasks /\ stream \in Streams
  /\ made \in Seq(1..MaxText) /\ outbox \in Outboxes /\ writer \in Writers

LEMMA ServiceTypes == ServiceTypeOK <=> WireTypeOK /\ MainTypeOK /\ GenerationTypeOK
BY DEF ServiceTypeOK, WireTypeOK, MainTypeOK, GenerationTypeOK, Frames, Services, Entries, Tasks,
       Streams, Outboxes, Writers

LEMMA RecordsTyped ==
  /\ EmptyEntry \in Entries /\ NoTask \in Tasks /\ EmptyStream \in Streams
  /\ EmptyOutbox \in Outboxes
  /\ \A state \in {"none", "waiting", "done"} : Writer(state) \in Writers
<1>1. EmptyEntry \in Entries /\ NoTask \in Tasks
  BY DEF EmptyEntry, Entries, NoTask, Tasks
<1>2. <<>> \in Seq(1..MaxText)
  OBVIOUS
<1>3. EmptyStream \in Streams
  BY <1>2 DEF EmptyStream, Streams
<1>4. 0 \in 0..(MaxText + 1)
  BY ServiceAssumption
<1>5. EmptyOutbox \in Outboxes
  BY <1>2, <1>4 DEF EmptyOutbox, Outboxes
<1>6. ASSUME NEW state \in {"none", "waiting", "done"}
      PROVE  Writer(state) \in Writers
  BY <1>2 DEF Writer, Writers
<1> QED BY <1>1, <1>3, <1>5, <1>6

LEMMA MainTypedStep ==
  ASSUME AppTypeOK, Ordering, ServiceStep
  PROVE  MainTypeOK'
<1> USE DEF Ordering, At, generationVars
<1>1. service \in Services /\ directory \in Keys \cup {NoKey} /\ session \in Keys \cup {NoKey}
  BY ServiceTypes DEF AppTypeOK, MainTypeOK
<1>2. ASSUME NEW pc \in {"next", "attach", "publishing", "joining"}, Goto(pc)
      PROVE  service' \in Services
  BY <1>1, <1>2 DEF Goto, Services
<1>3. ASSUME NEW op, NEW pc \in {"loading", "reserve"}, TakeCommand(op), commands' = commands,
             service' = [pc |-> pc, cmd |-> Head(queue), failed |-> FALSE]
      PROVE  service' \in Services
  <2>1. Head(queue) \in Commands
    BY <1>3, TakeFacts
  <2> QED BY <1>3, <2>1 DEF Services
<1>4. CASE StartLoad
  BY <1>1, <1>3, <1>4 DEF StartLoad, MainTypeOK
<1>5. CASE StartGenerate
  BY <1>1, <1>3, <1>5 DEF StartGenerate, MainTypeOK
<1>6. CASE FinishLoad
  <2>1. service.cmd.key \in Keys
    BY <1>6, CommandsTyped, CommandFacts DEF FinishLoad, CommandsInOrder
  <2>2. session' \in Keys \cup {NoKey} /\ directory' \in Keys \cup {NoKey} /\ Goto("next")
    BY <1>1, <1>6, <2>1 DEF FinishLoad
  <2> QED BY <1>2, <2>2 DEF MainTypeOK
<1>7. CASE HandleUnload
  BY <1>1, <1>7 DEF HandleUnload, MainTypeOK
<1>8. CASE Reserve
  <2>1. Goto("attach") \/ Goto("publishing")
    BY <1>8 DEF Reserve
  <2> QED BY <1>1, <1>2, <1>8, <2>1 DEF Reserve, MainTypeOK
<1>9. CASE Attach
  BY <1>1, <1>2, <1>9 DEF Attach, MainTypeOK
<1>10. CASE FinishOutbox
  BY <1>1, <1>2, <1>10 DEF FinishOutbox, MainTypeOK
<1>11. CASE JoinWriter
  BY <1>1, <1>2, <1>11 DEF JoinWriter, MainTypeOK
<1>12. CASE PublishTerminal
  <2>1. stream.throws \in BOOLEAN
    BY ServiceTypes DEF AppTypeOK, GenerationTypeOK, Streams
  <2>2. service' \in Services
    BY <1>1, <1>12, <2>1 DEF PublishTerminal, Services
  <2> QED BY <1>1, <1>12, <2>2 DEF PublishTerminal, MainTypeOK
<1>13. CASE ReadCommand \/ SkipCancel \/ RefuseGenerate \/ PublishToken
  BY <1>1, <1>13 DEF ReadCommand, SkipCancel, RefuseGenerate, PublishToken, MainTypeOK
<1>14. CASE TaskStep \/ WriterStep
  BY <1>1, <1>14 DEF TaskStep, WriterStep, Yield, EndRun, ClearTask, WriterTake, WriterWrite,
                     MainTypeOK
<1> QED BY <1>4, <1>5, <1>6, <1>7, <1>8, <1>9, <1>10, <1>11, <1>12, <1>13, <1>14
        DEF ServiceStep, MainLoop

LEMMA GenerationTypedStep ==
  ASSUME AppTypeOK, Ordering, TextInPieces, ServiceStep
  PROVE  GenerationTypeOK'
<1> USE DEF Ordering, At, generationVars
<1>1. /\ registry \in Entries /\ task \in Tasks /\ stream \in Streams
      /\ made \in Seq(1..MaxText) /\ outbox \in Outboxes /\ writer \in Writers
  BY ServiceTypes DEF AppTypeOK, GenerationTypeOK
<1>2. CASE SkipCancel \/ StartLoad \/ FinishLoad \/ HandleUnload \/ RefuseGenerate \/ JoinWriter
  BY <1>1, <1>2 DEF SkipCancel, StartLoad, FinishLoad, HandleUnload, RefuseGenerate, JoinWriter,
                    GenerationTypeOK
<1>3. CASE ReadCommand
  <2>1. [task EXCEPT !.cancelled = task.cancelled \/ registry.attached] \in Tasks
    <3>1. \A cancelled \in BOOLEAN : [task EXCEPT !.cancelled = cancelled] \in Tasks
      BY <1>1 DEF Tasks
    <3>2. (task.cancelled \/ registry.attached) \in BOOLEAN
      OBVIOUS
    <3> QED BY <3>1, <3>2
  <2>2. registry' \in Entries /\ task' \in Tasks
    BY <1>1, <1>3, <2>1, RecordsTyped DEF ReadCommand, CancelCurrent
  <2> QED BY <1>1, <1>3, <2>2 DEF ReadCommand, GenerationTypeOK
<1>4. CASE StartGenerate
  BY <1>1, <1>4, RecordsTyped DEF StartGenerate, GenerationTypeOK
<1>5. CASE Reserve
  <2>1. service.cmd.id \in Ids
    BY <1>5 DEF Reserve, CommandsInOrder, GeneratePCs, Made
  <2>2. /\ [id |-> service.cmd.id, attached |-> FALSE] \in Entries
        /\ [id |-> service.cmd.id, state |-> "running", cancelled |-> FALSE] \in Tasks
        /\ [tokens |-> <<>>, outcome |-> "failed", throws |-> TRUE] \in Streams
    BY <2>1 DEF Entries, Tasks, Streams, Terminals
  <2>3. registry' \in Entries /\ task' \in Tasks /\ stream' \in Streams
    BY <1>1, <1>5, <2>2, RecordsTyped DEF Reserve
  <2> QED BY <1>1, <1>5, <2>3 DEF Reserve, GenerationTypeOK
<1>6. CASE Attach
  <2>1. /\ [registry EXCEPT !.attached = TRUE] \in Entries
        /\ [task EXCEPT !.cancelled = TRUE] \in Tasks
    BY <1>1 DEF Entries, Tasks
  <2>2. registry' \in Entries /\ task' \in Tasks
    BY <1>1, <1>6, <2>1 DEF Attach
  <2> QED BY <1>1, <1>6, <2>2 DEF Attach, GenerationTypeOK
<1>7. CASE PublishToken
  <2>1. /\ stream.tokens \in Seq(1..MaxText) /\ stream.tokens # <<>>
        /\ outbox.text \in Seq(1..MaxText)
    BY <1>7, TextTyped DEF PublishToken
  <2>2. Head(stream.tokens) \in 1..MaxText /\ Tail(stream.tokens) \in Seq(1..MaxText)
    BY <2>1, TailRange
  <2>3. Append(outbox.text, Head(stream.tokens)) \in Seq(1..MaxText)
    BY <2>1, <2>2, AppendRange
  <2>4. \A q \in Seq(1..MaxText) :
          [outbox EXCEPT !.text = q] \in Outboxes /\ [stream EXCEPT !.tokens = q] \in Streams
    BY <1>1 DEF Outboxes, Streams
  <2>5. outbox' \in Outboxes /\ stream' \in Streams
    BY <1>7, <2>2, <2>3, <2>4 DEF PublishToken
  <2> QED BY <1>1, <1>7, <2>5 DEF PublishToken, GenerationTypeOK
<1>8. CASE PublishTerminal
  <2>1. stream.outcome \in Terminals \cup {NoTerminal}
    BY TextTyped
  <2>2. outbox' \in Outboxes
    BY <1>1, <1>8, <2>1 DEF PublishTerminal, Outboxes
  <2> QED BY <1>1, <1>8, <2>2, RecordsTyped DEF PublishTerminal, GenerationTypeOK
<1>9. CASE FinishOutbox
  <2>1. \A terminal \in Terminals \cup {NoTerminal} :
          [outbox EXCEPT !.terminal = terminal, !.finished = TRUE] \in Outboxes
    BY <1>1 DEF Outboxes
  <2>2. (IF service.failed /\ outbox.terminal = NoTerminal THEN "failed" ELSE outbox.terminal)
          \in Terminals \cup {NoTerminal}
    BY <1>1 DEF Outboxes, Terminals
  <2>3. outbox' \in Outboxes
    BY <1>9, <2>1, <2>2 DEF FinishOutbox
  <2> QED BY <1>1, <1>9, <2>3 DEF FinishOutbox, GenerationTypeOK
<1>10. CASE Yield
  <2>1. /\ Len(made) + 1 \in 1..MaxText /\ made \in Seq(1..MaxText)
        /\ stream.tokens \in Seq(1..MaxText)
    BY <1>10, TextTyped DEF Yield
  <2>2. /\ Append(made, Len(made) + 1) \in Seq(1..MaxText)
        /\ Append(stream.tokens, Len(made) + 1) \in Seq(1..MaxText)
    BY <2>1, AppendRange
  <2>3. \A q \in Seq(1..MaxText) : [stream EXCEPT !.tokens = q] \in Streams
    BY <1>1 DEF Streams
  <2>4. made' \in Seq(1..MaxText) /\ stream' \in Streams
    BY <1>10, <2>2, <2>3 DEF Yield
  <2> QED BY <1>1, <1>10, <2>4 DEF Yield, GenerationTypeOK
<1>11. ASSUME NEW o \in Terminals, EndRun(o)
       PROVE  GenerationTypeOK'
  <2>1. \A throws \in BOOLEAN : [stream EXCEPT !.outcome = o, !.throws = throws] \in Streams
    BY <1>1 DEF Streams
  <2>2. (o # "finished") \in BOOLEAN
    OBVIOUS
  <2>3. stream' \in Streams
    BY <1>11, <2>1, <2>2 DEF EndRun
  <2>4. task' \in Tasks
    BY <1>1, <1>11 DEF EndRun, Tasks
  <2>5. registry' \in Entries
    BY <1>1, <1>11, RecordsTyped DEF EndRun
  <2> QED BY <1>1, <1>11, <2>3, <2>4, <2>5 DEF EndRun, GenerationTypeOK
<1>12. CASE ClearTask
  <2>1. registry' \in Entries /\ task' \in Tasks
    BY <1>1, <1>12, RecordsTyped DEF ClearTask
  <2> QED BY <1>1, <1>12, <2>1 DEF ClearTask, GenerationTypeOK
<1>13. CASE WriterTake
  <2>1. Numbered(outbox.text) \in 0..(MaxText + 1)
    <3>1. outbox.sequence \in 0..(MaxText + 1) /\ outbox.sequence + 1 \in 1..(MaxText + 1)
      BY <1>1, TakenBounds DEF Outboxes
    <3> QED BY <3>1, ServiceAssumption DEF Numbered
  <2>2. <<>> \in Seq(1..MaxText)
    OBVIOUS
  <2>3. \A q \in Seq(1..MaxText), k \in 0..(MaxText + 1) :
          [outbox EXCEPT !.text = q, !.terminal = NoTerminal, !.sequence = k] \in Outboxes
    BY <1>1 DEF Outboxes
  <2>4. outbox' \in Outboxes
    BY <1>13, <2>1, <2>2, <2>3 DEF WriterTake
  <2>5. writer' \in Writers
    BY <1>1, <1>13 DEF WriterTake, Outboxes, Writers
  <2> QED BY <1>1, <1>13, <2>4, <2>5 DEF WriterTake, GenerationTypeOK
<1>14. CASE WriterWrite
  <2>1. writer' \in Writers
    BY <1>14, RecordsTyped DEF WriterWrite
  <2> QED BY <1>1, <1>14, <2>1 DEF WriterWrite, GenerationTypeOK
<1> QED BY <1>2, <1>3, <1>4, <1>5, <1>6, <1>7, <1>8, <1>9, <1>10, <1>11, <1>12, <1>13, <1>14
        DEF ServiceStep, MainLoop, TaskStep, WriterStep

LEMMA ServiceTypedStep ==
  ASSUME AppTypeOK, Ordering, TextInPieces, ServiceStep
  PROVE  ServiceTypeOK'
<1>1. WireTypeOK'
  BY WireTyped DEF WireTypeOK
<1>2. MainTypeOK' /\ GenerationTypeOK'
  BY MainTypedStep, GenerationTypedStep
<1>3. ServiceTypeOK' <=> WireTypeOK' /\ MainTypeOK' /\ GenerationTypeOK'
  BY DEF ServiceTypeOK, WireTypeOK, MainTypeOK, GenerationTypeOK, Frames, Services, Entries,
         Tasks, Streams, Outboxes, Writers
<1> QED BY <1>1, <1>2, <1>3

Apps == [loadState : {"notLoaded", "loading", "cancelling", "unloading", "ready", "failed"},
         key : Keys, load : Ids \cup {NoId}, unload : Ids \cup {NoId}, run : Ids \cup {NoId},
         runState : {"idle", "running"}, cancelPending : BOOLEAN]
CallRecords == [op : {"none", "load", "unload", "forget", "generate"},
                pc : {"none", "wait", "send", "read", "ready", "failed", "unloaded", "ended", "done"},
                key : Keys \cup {NoKey}, after : Ids \cup {NoId}, cancelled : BOOLEAN]
Readings == [expected : 1..(MaxText + 1), outcome : Terminals \cup {NoTerminal}]

ClientTypeOK ==
  /\ app \in Apps /\ calls \in [Ids -> CallRecords] /\ torn \in BOOLEAN
  /\ reading \in Readings /\ transcript \in Seq(1..MaxText)

LEMMA AppTypes ==
  /\ AppTypeOK <=> ServiceTypeOK /\ ClientTypeOK
  /\ AppTypeOK' <=> ServiceTypeOK' /\ ClientTypeOK'
BY DEF AppTypeOK, ClientTypeOK, Apps, CallRecords, Readings

LEMMA ClientTypedUser ==
  ASSUME AppTypeOK, UserStep
  PROVE  ClientTypeOK'
<1>1. /\ app \in Apps /\ calls \in [Ids -> CallRecords] /\ torn \in BOOLEAN
      /\ reading \in Readings /\ transcript \in Seq(1..MaxText)
  BY AppTypes DEF ClientTypeOK
<1>2. ASSUME NEW op \in {"load", "unload", "forget", "generate"}, NEW pc \in {"wait", "send"},
             NEW key \in Keys \cup {NoKey}, NEW after \in Ids \cup {NoId}
      PROVE  Call(op, pc, key, after) \in CallRecords
  BY <1>2 DEF Call, CallRecords
<1>3. WithoutLoad(calls) \in [Ids -> CallRecords]
  <2>1. ASSUME NEW j \in Ids
        PROVE  [calls[j] EXCEPT !.cancelled = TRUE] \in CallRecords
    BY <1>1 DEF CallRecords
  <2> QED BY <1>1, <2>1 DEF WithoutLoad
<1>4. ASSUME NEW f \in [Ids -> CallRecords], NEW i \in Ids, NEW c \in CallRecords
      PROVE  [f EXCEPT ![i] = c] \in [Ids -> CallRecords]
  OBVIOUS
<1>5. ASSUME NEW i \in Ids, NEW key \in Keys, BeginLoad(i, key)
      PROVE  ClientTypeOK'
  <2>1. app.unload \in Ids \cup {NoId}
    BY <1>1 DEF Apps
  <2>2. calls' \in [Ids -> CallRecords]
    BY <1>1, <1>2, <1>4, <1>5, <2>1 DEF BeginLoad
  <2>3. app' \in Apps
    BY <1>1, <1>5 DEF BeginLoad, Apps
  <2> QED BY <1>1, <1>5, <2>2, <2>3 DEF BeginLoad, ClientTypeOK
<1>6. CASE Load \/ Reload
  <2>1. app.key \in Keys
    BY <1>1 DEF Apps
  <2> QED BY <1>5, <1>6, <2>1 DEF Load, Reload
<1>7. CASE CancelLoad
  <2>1. PICK i \in Ids :
          /\ calls' = [WithoutLoad(calls) EXCEPT ![i] = Call("unload", "send", NoKey, NoId)]
          /\ app' = [app EXCEPT !.loadState = "cancelling", !.load = NoId, !.unload = i]
    BY <1>7 DEF CancelLoad
  <2>2. calls' \in [Ids -> CallRecords]
    BY <1>2, <1>3, <1>4, <2>1
  <2>3. app' \in Apps
    BY <1>1, <2>1 DEF Apps
  <2> QED BY <1>1, <1>7, <2>2, <2>3 DEF CancelLoad, ClientTypeOK
<1>8. CASE Unload
  <2>1. PICK i \in Ids :
          /\ calls' = [calls EXCEPT ![i] = Call("unload", "send", NoKey, NoId)]
          /\ app' = [app EXCEPT !.loadState = "unloading", !.unload = i]
    BY <1>8 DEF Unload
  <2>2. calls' \in [Ids -> CallRecords]
    BY <1>1, <1>2, <1>4, <2>1
  <2>3. app' \in Apps
    BY <1>1, <2>1 DEF Apps
  <2> QED BY <1>1, <1>8, <2>2, <2>3 DEF Unload, ClientTypeOK
<1>9. CASE SetModelURL
  <2>1. PICK i \in Ids, key \in Keys :
          /\ calls' = [WithoutLoad(calls) EXCEPT ![i] = Call("forget", "send", NoKey, NoId)]
          /\ app' = [app EXCEPT !.key = key, !.load = NoId, !.unload = i,
                                !.loadState = "notLoaded"]
    BY <1>9 DEF SetModelURL
  <2>2. calls' \in [Ids -> CallRecords]
    BY <1>2, <1>3, <1>4, <2>1
  <2>3. app' \in Apps
    BY <1>1, <2>1 DEF Apps
  <2> QED BY <1>1, <1>9, <2>2, <2>3 DEF SetModelURL, ClientTypeOK
<1>10. CASE Run
  <2>1. PICK i \in Ids :
          /\ calls' = [calls EXCEPT ![i] = Call("generate", "send", NoKey, NoId)]
          /\ app' = [app EXCEPT !.run = i, !.runState = "running", !.cancelPending = FALSE]
    BY <1>10 DEF Run
  <2>2. calls' \in [Ids -> CallRecords]
    BY <1>1, <1>2, <1>4, <2>1
  <2>3. app' \in Apps
    BY <1>1, <2>1 DEF Apps
  <2>4. reading' \in Readings /\ transcript' \in Seq(1..MaxText)
    BY <1>10, ServiceAssumption DEF Run, Readings
  <2> QED BY <1>1, <1>10, <2>2, <2>3, <2>4 DEF Run, ClientTypeOK
<1>11. CASE Cancel
  <2>1. app' \in Apps
    BY <1>1, <1>11 DEF Cancel, Apps
  <2> QED BY <1>1, <1>11, <2>1 DEF Cancel, ClientTypeOK
<1> QED BY <1>6, <1>7, <1>8, <1>9, <1>10, <1>11 DEF UserStep

LEMMA ClientTypedCall ==
  ASSUME AppTypeOK, CallsInTurn, StatesAgree, TextArrives, NEW i \in Ids, CallStep(i)
  PROVE  ClientTypeOK'
<1>1. /\ app \in Apps /\ calls \in [Ids -> CallRecords] /\ torn \in BOOLEAN
      /\ reading \in Readings /\ transcript \in Seq(1..MaxText)
  BY AppTypes DEF ClientTypeOK
<1>2. ASSUME NEW pc \in {"read", "ready", "failed", "unloaded", "ended", "done"}, Move(i, pc)
      PROVE  calls' \in [Ids -> CallRecords]
  <2>1. [calls[i] EXCEPT !.pc = pc] \in CallRecords
    BY <1>1 DEF CallRecords
  <2> QED BY <1>1, <1>2, <2>1 DEF Move
<1>3. CASE SendLoad(i) \/ Send(i) \/ ReadLoadAnswer(i) \/ ReadUnloadAnswer(i)
  <2>1. \E pc \in {"read", "ready", "failed", "unloaded", "ended", "done"} : Move(i, pc)
    BY <1>3 DEF SendLoad, Send, ReadLoadAnswer, ReadUnloadAnswer
  <2>2. UNCHANGED <<app, torn, reading, transcript>>
    BY <1>3 DEF SendLoad, Send, ReadLoadAnswer, ReadUnloadAnswer
  <2> QED BY <1>1, <1>2, <2>1, <2>2 DEF ClientTypeOK
<1>4. CASE SkipForeignEvent(i)
  BY <1>1, <1>4 DEF SkipForeignEvent, appVars, ClientTypeOK
<1>5. CASE ReadSnapshot(i)
  <2>1. /\ reading'.expected \in 1..(MaxText + 1) /\ reading'.outcome = NoTerminal
        /\ transcript' \in Seq(1..MaxText) /\ calls' = calls
    BY <1>5, SnapshotRead
  <2>2. reading' = [expected |-> reading'.expected, outcome |-> reading'.outcome]
    BY <1>1, <1>5 DEF ReadSnapshot, Readings
  <2>3. reading' \in Readings
    BY <2>1, <2>2 DEF Readings
  <2> QED BY <1>1, <1>5, <2>1, <2>3 DEF ReadSnapshot, ClientTypeOK
<1>6. CASE ReadTerminal(i)
  <2>1. reading' \in Readings
    BY <1>1, <1>6 DEF ReadTerminal, Readings
  <2>2. Move(i, "ended") /\ UNCHANGED <<app, torn, transcript>>
    BY <1>6 DEF ReadTerminal
  <2> QED BY <1>1, <1>2, <2>1, <2>2 DEF ClientTypeOK
<1>7. CASE ReadTorn(i)
  <2>1. \E pc \in {"read", "ready", "failed", "unloaded", "ended", "done"} : Move(i, pc)
    BY <1>7 DEF ReadTorn
  <2>2. reading' = reading \/ reading' = [reading EXCEPT !.outcome = "failed"]
    BY <1>7 DEF ReadTorn
  <2>3. reading' \in Readings
    BY <1>1, <2>2 DEF Readings, Terminals
  <2> QED BY <1>1, <1>2, <1>7, <2>1, <2>3 DEF ReadTorn, ClientTypeOK
<1>8. CASE ApplyLoad(i) \/ ApplyUnload(i) \/ EndStream(i)
  <2>1. Move(i, "done") /\ UNCHANGED <<torn, reading, transcript>>
    BY <1>8 DEF ApplyLoad, ApplyUnload, EndStream
  <2>2. app' \in Apps
    <3>1. CASE ApplyLoad(i)
      <4>1. \A state \in {"ready", "failed"} : [app EXCEPT !.loadState = state] \in Apps
        BY <1>1 DEF Apps
      <4> QED BY <1>1, <3>1, <4>1 DEF ApplyLoad
    <3>2. CASE ApplyUnload(i)
      <4>1. [app EXCEPT !.loadState = "notLoaded"] \in Apps
        BY <1>1 DEF Apps
      <4> QED BY <1>1, <3>2, <4>1 DEF ApplyUnload
    <3>3. CASE EndStream(i)
      BY <1>1, <3>3 DEF EndStream, Apps
    <3> QED BY <1>8, <3>1, <3>2, <3>3
  <2> QED BY <1>1, <1>2, <2>1, <2>2 DEF ClientTypeOK
<1> QED BY <1>3, <1>4, <1>5, <1>6, <1>7, <1>8 DEF CallStep, ReadEvent

\* The application writes commands and takes frames.
LEMMA WireTypedApp ==
  ASSUME AppTypeOK, CallsInTurn, Next, ~ServiceStep
  PROVE  ServiceTypeOK'
<1>0. /\ commands \in Seq(Commands) /\ frames \in Seq(Frames)
      /\ WireTypeOK /\ MainTypeOK /\ GenerationTypeOK
  BY FramesTyped, ServiceTypes DEF AppTypeOK, WireTypeOK
<1>1. CASE UNCHANGED serviceVars
  BY <1>1, <1>0, ServiceTypes DEF serviceVars, ServiceTypeOK
<1>2. ASSUME commands' \in Seq(Commands), UNCHANGED quietService
      PROVE  ServiceTypeOK'
  BY <1>0, <1>2, ServiceTypes DEF quietService, ServiceTypeOK
<1>3. CASE AppCancels
  BY <1>0, <1>2, <1>3, CommandsMade, AppendRange DEF AppCancels
<1>4. ASSUME NEW i \in Ids, AppSends(i)
      PROVE  ServiceTypeOK'
  <2>1. PICK x \in Commands : commands' = Append(commands, x)
    BY <1>4, SendWrites DEF AppSends
  <2> QED BY <1>0, <1>2, <1>4, <2>1, AppendRange, SendsKeepService
<1>5. ASSUME NEW i \in Ids, AppReads(i)
      PROVE  ServiceTypeOK'
  <2>1. frames # <<>> /\ frames' = Tail(frames)
        /\ UNCHANGED <<commands, queue, service, directory, session, registry, task,
                       stream, made, outbox, writer>>
    BY <1>5, ReadsTakeFrame DEF TakeFrame
  <2>2. frames' \in Seq(Frames)
    BY <1>0, <2>1, TailRange
  <2>3. WireTypeOK' /\ MainTypeOK' /\ GenerationTypeOK'
    BY <1>0, <2>1, <2>2 DEF WireTypeOK, MainTypeOK, GenerationTypeOK
  <2>4. ServiceTypeOK' <=> WireTypeOK' /\ MainTypeOK' /\ GenerationTypeOK'
    BY DEF ServiceTypeOK, WireTypeOK, MainTypeOK, GenerationTypeOK, Frames, Services, Entries,
           Tasks, Streams, Outboxes, Writers
  <2> QED BY <2>3, <2>4
<1> QED BY <1>1, <1>3, <1>4, <1>5, AppSteps

LEMMA AppTypedStep ==
  ASSUME AppTypeOK, CallsInTurn, StatesAgree, Ordering, TextInPieces, TextArrives, Next
  PROVE  AppTypeOK'
<1>1. ServiceTypeOK'
  BY ServiceTypedStep, WireTypedApp
<1>2. ClientTypeOK'
  <2>1. CASE UserStep
    BY <2>1, ClientTypedUser
  <2>2. ASSUME NEW i \in Ids, CallStep(i)
        PROVE  ClientTypeOK'
    BY <2>2, ClientTypedCall
  <2>3. ASSUME NEW i \in Ids, NEW j \in Ids, Tear(i, j)
        PROVE  ClientTypeOK'
    BY <2>3, AppTypes DEF Tear, ClientTypeOK
  <2>4. CASE ServiceStep /\ UNCHANGED appVars
    BY <2>4, AppTypes DEF appVars, ClientTypeOK
  <2> QED BY <2>1, <2>2, <2>3, <2>4 DEF Next
<1> QED BY <1>1, <1>2, AppTypes

-----------------------------------------------------------------------------
(* The invariant.                                                          *)

LEMMA AppInvInit == Init => AppInv
<1> SUFFICES ASSUME Init
             PROVE  AppInv
  OBVIOUS
<1> USE DEF Init, ServiceInit
<1>1. /\ \A j \in Ids : calls[j].op = "none" /\ calls[j].pc = "none"
      /\ app.loadState = "notLoaded" /\ ~Running /\ app.load = NoId
  BY DEF NoCall, Running
<1>2. /\ commands = <<>> /\ queue = <<>> /\ frames = <<>> /\ service.pc = "next"
      /\ service.cmd = CancelCommand
  OBVIOUS
<1>3. /\ Asks(queue) = {} /\ Asks(commands) = {} /\ Range(frames) = {} /\ Waiting = {}
  BY <1>2, EmptyRange DEF Asks, Waiting
<1>4. DOMAIN queue = {} /\ DOMAIN commands = {} /\ DOMAIN frames = {}
  BY <1>2
<1>5. AppTypeOK
  <2>1. WireTypeOK
    BY DEF WireTypeOK
  <2>2. MainTypeOK
    BY CommandsMade DEF MainTypeOK, Services
  <2>3. Writer("none") \in Writers
    BY DEF Writer, Writers
  <2>4. GenerationTypeOK
    BY <2>3, RecordsTyped DEF GenerationTypeOK
  <2>5. ClientTypeOK
    <3>1. app \in Apps
      BY DEF Apps
    <3>2. calls \in [Ids -> CallRecords]
      BY DEF NoCall, CallRecords
    <3>3. reading \in Readings
      BY ServiceAssumption DEF Readings
    <3>4. torn = FALSE /\ transcript = <<>>
      OBVIOUS
    <3>5. <<>> \in Seq(1..MaxText)
      OBVIOUS
    <3> QED BY <3>1, <3>2, <3>3, <3>4, <3>5 DEF ClientTypeOK
  <2> QED BY <2>1, <2>2, <2>4, <2>5, AppTypes, ServiceTypes
<1>6. CallsInTurn
  BY <1>1 DEF CallsInTurn, Places, LastCall
<1>7. StatesAgree
  BY <1>1 DEF StatesAgree
<1>8. CommandsInOrder
  BY <1>2, <1>3, <1>4 DEF CommandsInOrder, InOrder, CancelCommand, GeneratePCs
<1>9. FramesInOrder
  BY <1>3, <1>4 DEF FramesInOrder, Ordered
<1>10. ModelIsLoaded
  BY <1>1 DEF ModelIsLoaded, Answered
<1>11. ReadersAreOwed
  <2>1. Readers = {} /\ Owed = {}
    BY <1>1, <1>2, <1>3 DEF Readers, Owed
  <2> QED BY <2>1, FS_EmptySet DEF ReadersAreOwed
<1>12. TaskAgrees /\ CancelReachesTask
  BY <1>2 DEF TaskAgrees, CancelReachesTask, NoTask, EmptyEntry
<1>13. WriterAgrees
  BY <1>2 DEF WriterAgrees, Writer, EmptyOutbox, Over, GeneratePCs
<1>14. TextInPieces
  <2>1. /\ made = <<>> /\ stream.tokens = <<>> /\ outbox.text = <<>> /\ writer.text = <<>>
        /\ outbox.sequence = 0
    BY DEF EmptyStream, EmptyOutbox, Writer
  <2>2. Len(made) = 0 /\ Len(stream.tokens) = 0 /\ Len(outbox.text) = 0 /\ Len(writer.text) = 0
    BY <2>1
  <2>3. Taken = 0 /\ Written = 0
    BY <2>2 DEF Taken, Written, Published
  <2> QED BY <2>1, <2>2, <2>3, PieceEmpty, ServiceAssumption DEF TextInPieces
<1>15. TextArrives
  BY <1>1, PieceEmpty DEF TextArrives
<1> QED BY <1>5, <1>6, <1>7, <1>8, <1>9, <1>10, <1>11, <1>12, <1>13, <1>14, <1>15 DEF AppInv

LEMMA GenerationInvStep ==
  ASSUME AppInv, Next
  PROVE  TaskAgrees' /\ CancelReachesTask' /\ WriterAgrees' /\ TextInPieces'
<1> USE DEF AppInv
<1>1. CASE ServiceStep
  BY <1>1, TaskStepAgrees, WriterStepAgrees, TextInPiecesStep
<1>2. CASE UNCHANGED <<service, registry, task, stream, made, outbox, writer>>
  <2>1. TaskAgrees' /\ CancelReachesTask' /\ WriterAgrees'
    BY <1>2 DEF TaskAgrees, CancelReachesTask, WriterAgrees, Over
  <2>2. Published' = Published /\ Taken' = Taken /\ Written' = Written
    BY <1>2 DEF Published, Taken, Written
  <2> QED BY <1>2, <2>1, <2>2 DEF TextInPieces
<1> QED BY <1>1, <1>2, GenerationAlone

LEMMA TextArrivesStep ==
  ASSUME AppInv, Next
  PROVE  TextArrives'
<1> USE DEF AppInv, Ordering
<1>1. CASE UserStep
  BY <1>1, TextArrivesUser
<1>2. ASSUME NEW i \in Ids, CallStep(i)
      PROVE  TextArrives'
  BY <1>2, TextArrivesCall
<1>3. ASSUME NEW i \in Ids, NEW j \in Ids, Tear(i, j)
      PROVE  TextArrives'
  BY <1>3, TextKept DEF Tear, serviceVars
<1>4. CASE ServiceStep /\ UNCHANGED appVars
  BY <1>4, TextArrivesService
<1> QED BY <1>1, <1>2, <1>3, <1>4 DEF Next

LEMMA AppInvStep == AppInv /\ [Next]_vars => AppInv'
<1> SUFFICES ASSUME AppInv, [Next]_vars
             PROVE  AppInv'
  OBVIOUS
<1>1. CASE Next
  <2>1. /\ AppTypeOK /\ CallsInTurn /\ StatesAgree /\ Ordering /\ CommandsInOrder
        /\ FramesInOrder /\ WriterAgrees /\ ModelIsLoaded /\ ReadersAreOwed
        /\ TextInPieces /\ TextArrives
    BY DEF AppInv, Ordering
  <2>2. CallsGoOn /\ CallsInTurn' /\ StatesAgree'
    BY <1>1, <2>1, CallsGoOnStep, CallsStep
  <2>3. CommandsInOrder' /\ FramesInOrder'
    BY <1>1, <2>1, <2>2, CommandsInOrderStep, FramesInOrderStep
  <2>4. ModelIsLoaded' /\ ReadersAreOwed'
    BY <1>1, <2>1, <2>2, ModelIsLoadedStep, ReadersAreOwedStep
  <2>5. TaskAgrees' /\ CancelReachesTask' /\ WriterAgrees' /\ TextInPieces' /\ TextArrives'
    BY <1>1, GenerationInvStep, TextArrivesStep
  <2>6. AppTypeOK'
    BY <1>1, <2>1, AppTypedStep
  <2> QED BY <2>2, <2>3, <2>4, <2>5, <2>6 DEF AppInv
<1>2. CASE UNCHANGED vars
  <2>1. UNCHANGED <<service, registry, task, stream, made, outbox, writer, commands, queue, frames,
                    directory, session, app, calls, torn, reading, transcript>>
    BY <1>2 DEF vars, serviceVars, appVars
  <2>2. AppTypeOK' /\ CallsInTurn' /\ StatesAgree'
    BY <2>1, CallsUnchanged DEF AppInv, AppTypeOK, ServiceTypeOK
  <2>3. CommandsInOrder' /\ FramesInOrder'
    <3>1. /\ Waiting' = Waiting /\ Asks(queue)' = Asks(queue) /\ Asks(commands)' = Asks(commands)
          /\ Generations' = Generations /\ \A c : Made(c)' <=> Made(c)
          /\ \A j : Sent(j)' <=> Sent(j)
      BY <2>1 DEF Waiting, Asks, Generations, Made, CommandOf, Sent, Unsent
    <3> QED BY <2>1, <3>1 DEF AppInv, CommandsInOrder, FramesInOrder
  <2>4. ModelIsLoaded'
    BY <2>1 DEF AppInv, ModelIsLoaded, Answered, LoadIsCurrent, Waiting
  <2>5. ReadersAreOwed'
    BY <2>1 DEF AppInv, ReadersAreOwed, Readers, Owed, Waiting
  <2>6. TaskAgrees' /\ CancelReachesTask' /\ WriterAgrees'
    BY <2>1 DEF AppInv, TaskAgrees, CancelReachesTask, WriterAgrees, Over
  <2>7. TextInPieces'
    BY <2>1 DEF AppInv, TextInPieces, Published, Taken, Written
  <2>8. TextArrives'
    BY <2>1, TextKept DEF AppInv
  <2> QED BY <2>2, <2>3, <2>4, <2>5, <2>6, <2>7, <2>8 DEF AppInv
<1> QED BY <1>1, <1>2

\* Every state of the application over the service satisfies the invariant.
THEOREM AppInvariant == Spec => []AppInv
<1> QED BY AppInvInit, AppInvStep, PTL DEF Spec

-----------------------------------------------------------------------------
(* What the runs check.                                                    *)

\* The frames on the wire answer the commands in the order in which the
\* service's main loop took them.
THEOREM AnswersComeInOrder == Spec => []AnswersInOrder
<1>1. AppInv => AnswersInOrder
  <2> SUFFICES ASSUME AppInv
               PROVE  AnswersInOrder
    OBVIOUS
  <2>1. Ordered(frames, Generations)
    BY DEF AppInv, FramesInOrder
  <2>2. \A i \in DOMAIN frames : frames[i].id \in Int
    <3>1. \A i \in DOMAIN frames : frames[i] \in Range(frames)
      BY DEF Range
    <3>2. \A f \in Range(frames) : f.id \in Ids
      BY FramesTyped DEF AppInv
    <3> QED BY <3>1, <3>2 DEF Ids
  <2> QED BY <2>1, <2>2 DEF Ordered, AnswersInOrder
<1> QED BY <1>1, AppInvariant, PTL

\* Types, and: while AppModel says ready, the service has AppModel's model loaded,
\* and no load or unload is on its way to it, whatever was given up before.
THEOREM ReadyModelsAreLoaded == Spec => []ReadyIsLoaded
<1>1. AppInv => ReadyIsLoaded
  <2> SUFFICES ASSUME AppInv, app.loadState = "ready"
               PROVE  /\ session = app.key /\ directory = app.key
                      /\ \A i \in DOMAIN commands : commands[i].op \notin {"load", "unload"}
                      /\ \A i \in DOMAIN queue : queue[i].op \notin {"load", "unload"}
                      /\ service.pc # "loading"
    BY DEF ReadyIsLoaded, AppInv
  <2>1. LoadIsCurrent
    BY DEF AppInv, ModelIsLoaded, Answered
  <2>2. \A c \in Waiting : c.op = "generate"
    BY <2>1, OnlyGenerationsWait DEF AppInv, LoadIsCurrent
  <2>3. /\ \A i \in DOMAIN commands : commands[i].op = "cancel" \/ commands[i] \in Waiting
        /\ \A i \in DOMAIN queue : queue[i].op = "cancel" \/ queue[i] \in Waiting
    BY DEF Waiting, Asks, Range
  <2> QED BY <2>1, <2>2, <2>3 DEF LoadIsCurrent
<1> QED BY <1>1, AppInvariant, PTL

\* A cancel is never lost between the registry and the task: the task that runs
\* is in the registry, is about to be attached to it, or is cancelled.
THEOREM CancellationsReachTasks == Spec => []CancelReachesTask
<1>1. AppInv => CancelReachesTask
  BY DEF AppInv
<1> QED BY <1>1, AppInvariant, PTL

-----------------------------------------------------------------------------
(* The event stream.                                                       *)

LEMMA PiecesAreEqual ==
  ASSUME NEW p \in Seq(1..MaxText), NEW q \in Seq(1..MaxText), Piece(p, 0), Piece(q, 0),
         Len(p) = Len(q)
  PROVE  p = q
<1>1. /\ DOMAIN p = 1..Len(p) /\ DOMAIN q = 1..Len(q) /\ Len(p) \in Nat
      /\ \A k \in 1..Len(p) : p[k] = q[k]
  BY DEF Piece
<1> QED BY <1>1

LEMMA PiecesArePrefixes ==
  ASSUME NEW p \in Seq(1..MaxText), NEW q \in Seq(1..MaxText), Piece(p, 0), Piece(q, 0),
         Len(p) <= Len(q)
  PROVE  IsPrefix(p, q) /\ (Len(p) < Len(q) => IsStrictPrefix(p, q))
<1>1. /\ Len(p) \in Nat /\ Len(q) \in Nat /\ DOMAIN p = 1..Len(p) /\ DOMAIN q = 1..Len(q)
      /\ \A k \in 1..Len(p) : k \in 1..Len(q) /\ p[k] = k /\ q[k] = k
  BY DEF Piece
<1>2. SubSeq(p, 1, Len(p)) = SubSeq(q, 1, Len(p))
  BY <1>1
<1>3. IsPrefix(p, q)
  BY <1>1, <1>2 DEF IsPrefix
<1>4. Len(p) < Len(q) => p # q
  BY <1>1
<1> QED BY <1>3, <1>4 DEF IsStrictPrefix

Shown == IF ~Running THEN transcript
         ELSE IF service.cmd.id = app.run THEN made ELSE <<>>
Status == IF Running THEN "running" ELSE reading.outcome

LEMMA SamePrefixes ==
  \A s, t : (ES!IsPrefix(s, t) <=> IsPrefix(s, t))
             /\ (ES!IsStrictPrefix(s, t) <=> IsStrictPrefix(s, t))
BY DEF ES!IsPrefix, ES!IsStrictPrefix, IsPrefix, IsStrictPrefix

\* The stream stutters when none of its parts changes.
LEMMA StreamKept ==
  ASSUME transcript' = transcript, reading' = reading,
         app'.run = app.run, app'.runState = app.runState,
         UNCHANGED <<service, made>>
  PROVE  UNCHANGED <<transcript, Shown, Status>>
BY DEF Shown, Status, Running

LEMMA StreamUser ==
  ASSUME AppInv, UserStep
  PROVE  ES!Begin \/ UNCHANGED <<transcript, Shown, Status>>
<1>1. CASE Run
  <2>1. PICK i \in Ids :
          /\ Fresh(i) /\ ~Running
          /\ app' = [app EXCEPT !.run = i, !.runState = "running", !.cancelPending = FALSE]
    BY <1>1 DEF Run
  <2>2. app'.run = i /\ Running'
    BY <2>1 DEF Running, AppInv, AppTypeOK
  <2>3. Unsent(i)
    BY <2>1 DEF Fresh, Unsent
  <2>4. service.cmd.id # i
    BY <2>3, SendIsLater, CommandsTyped DEF AppInv, Ids
  <2>5. transcript' = <<>> /\ service' = service
    BY <1>1 DEF Run, serviceVars
  <2>6. Shown' = <<>> /\ Status' = "running"
    BY <2>2, <2>4, <2>5 DEF Shown, Status
  <2>7. Status # "running"
    BY <2>1 DEF Status, AppInv, AppTypeOK, Terminals, NoTerminal
  <2> QED BY <2>5, <2>6, <2>7 DEF ES!Begin, Shown, Status
<1>2. CASE ~Run
  <2>1. app'.run = app.run /\ app'.runState = app.runState
    BY <1>2 DEF UserStep, Load, Reload, BeginLoad, CancelLoad, Unload, SetModelURL, Cancel,
                AppInv, AppTypeOK
  <2>2. UNCHANGED <<service, made, transcript, reading>>
    BY <1>2 DEF UserStep, Load, Reload, BeginLoad, CancelLoad, Unload, SetModelURL, Cancel,
                serviceVars, quietService
  <2> QED BY <2>1, <2>2, StreamKept
<1> QED BY <1>1, <1>2

LEMMA StreamCall ==
  ASSUME AppInv, NEW i \in Ids, CallStep(i)
  PROVE  ES!Show \/ ES!End \/ UNCHANGED <<transcript, Shown, Status>>
<1> USE DEF AppInv
<1>1. CASE SendLoad(i) \/ Send(i) \/ ReadLoadAnswer(i) \/ ReadUnloadAnswer(i) \/ SkipForeignEvent(i)
  <2>1. UNCHANGED <<service, made, transcript, reading, app>>
    BY <1>1 DEF SendLoad, Send, ReadLoadAnswer, ReadUnloadAnswer, SkipForeignEvent, TakeFrame,
                quietService, appVars
  <2> QED BY <2>1, StreamKept
<1>2. CASE ReadSnapshot(i)
  <2>1. /\ Running /\ app.run = i /\ service.cmd.id = i
        /\ transcript' \in Seq(1..MaxText) /\ Piece(transcript', 0)
        /\ Len(transcript) < Len(transcript') /\ Len(transcript') <= Len(made)
    BY <1>2, SnapshotRead
  <2>2. UNCHANGED <<app, service, made>>
    BY <1>2 DEF ReadSnapshot, TakeFrame
  <2>3. Piece(transcript, 0) /\ Piece(made, 0)
    BY DEF TextArrives, TextInPieces
  <2>4. IsStrictPrefix(transcript, transcript') /\ IsPrefix(transcript', made)
    <3>1. PICK t \in Seq(1..MaxText) : t = transcript'
      BY <2>1
    <3>2. Piece(t, 0) /\ Len(transcript) < Len(t) /\ Len(t) <= Len(made)
      BY <2>1, <3>1
    <3>3. Len(t) \in Nat
      BY <3>1
    <3>4. IsStrictPrefix(transcript, t) /\ IsPrefix(t, made)
      BY <2>3, <3>2, <3>3, PiecesArePrefixes, TextTyped
    <3> QED BY <3>1, <3>4
  <2>5. Shown = made /\ Shown' = Shown /\ Status = "running" /\ Status' = Status
    BY <2>1, <2>2 DEF Shown, Status, Running
  <2>6. /\ Status = "running" /\ IsStrictPrefix(transcript, transcript')
        /\ IsPrefix(transcript', Shown) /\ UNCHANGED <<Shown, Status>>
    BY <2>4, <2>5
  <2>7. ES!Show
    BY <2>6, SamePrefixes DEF ES!Show, Shown, Status
  <2> QED BY <2>7
<1>3. CASE ReadTerminal(i) \/ ReadTorn(i)
  <2>1. UNCHANGED <<service, made, transcript, app>>
    BY <1>3 DEF ReadTerminal, ReadTorn, TakeFrame, serviceVars
  <2>2. Running \/ reading' = reading
    <3>1. (calls[i].op = "generate" /\ calls[i].pc = "read") \/ reading' = reading
      BY <1>3 DEF ReadTerminal, ReadTorn, Reader
    <3> QED BY <3>1, GenerationReads
  <2> QED BY <2>1, <2>2 DEF Shown, Status, Running
<1>4. CASE ApplyLoad(i) \/ ApplyUnload(i)
  <2>1. app'.run = app.run /\ app'.runState = app.runState
    BY <1>4 DEF ApplyLoad, ApplyUnload, AppTypeOK
  <2> QED BY <1>4, <2>1, StreamKept DEF ApplyLoad, ApplyUnload, serviceVars
<1>5. CASE EndStream(i)
  <2>1. calls[i].pc = "ended" /\ calls[i].op = "generate"
    BY <1>5 DEF EndStream, CallsInTurn, Places, AppTypeOK
  <2>2. Running /\ app.run = i /\ reading.outcome # NoTerminal
    BY <2>1 DEF CallsInTurn, StatesAgree
  <2>3. ~Running' /\ UNCHANGED <<reading, transcript>>
    BY <1>5 DEF EndStream, Running, AppTypeOK
  <2>4. Status = "running" /\ Status' = reading.outcome /\ Shown' = transcript
    BY <2>2, <2>3 DEF Status, Shown
  <2>5. reading.outcome \in {"finished", "cancelled", "failed"}
    BY <2>2 DEF AppTypeOK, Terminals
  <2>6. reading.outcome # "failed" => transcript = Shown
    <3>1. CASE service.cmd.id = app.run
      <4>1. reading.outcome # "failed" => Len(transcript) = Len(made)
        BY <2>2, <2>5, <3>1 DEF TextArrives
      <4>2. Piece(transcript, 0) /\ Piece(made, 0)
        BY DEF TextArrives, TextInPieces
      <4> QED BY <2>2, <3>1, <4>1, <4>2, PiecesAreEqual, TextTyped DEF Shown
    <3>2. CASE service.cmd.id # app.run
      BY <2>2, <2>5, <3>2 DEF TextArrives, NoTerminal
    <3> QED BY <3>1, <3>2
  <2> QED BY <2>3, <2>4, <2>5, <2>6 DEF ES!End, Shown, Status
<1> QED BY <1>1, <1>2, <1>3, <1>4, <1>5 DEF CallStep, ReadEvent

LEMMA StreamService ==
  ASSUME AppInv, ServiceStep, UNCHANGED appVars
  PROVE  ES!Produce \/ UNCHANGED <<transcript, Shown, Status>>
<1> USE DEF AppInv
<1>0. transcript' = transcript /\ Running' = Running /\ reading' = reading /\ app' = app
  BY DEF appVars, Running
<1>1. Status' = Status
  BY <1>0 DEF Status
<1>2. CASE ~Running
  BY <1>0, <1>1, <1>2 DEF Shown
<1>3. CASE Running /\ StartGenerate
  <2>1. /\ Head(queue).id \in Ids /\ service.cmd.id < Head(queue).id
        /\ Made(Head(queue)) /\ service'.cmd = Head(queue) /\ made' = <<>>
    BY <1>3, TakeFacts DEF StartGenerate, Made
  <2>2. Head(queue).id <= app.run
    BY <1>3, <2>1 DEF StatesAgree, Made, Sent, Unsent, LastCall, Ids
  <2>3. service.cmd.id # app.run
    BY <1>3, <2>1, <2>2, CommandsTyped DEF StatesAgree, Ids
  <2>4. Shown = <<>> /\ Shown' = <<>>
    BY <1>0, <1>3, <2>1, <2>3 DEF Shown
  <2> QED BY <1>0, <1>1, <2>4
<1>4. CASE Running /\ Yield /\ service.cmd.id = app.run
  <2>1. /\ Len(made) < MaxText /\ made' = Append(made, Len(made) + 1) /\ service' = service
        /\ Piece(made, 0)
    BY <1>4 DEF Yield, TextInPieces
  <2>2. Len(made) + 1 \in 1..MaxText
    BY <2>1, TextTyped
  <2>3. PICK m : m = Append(made, Len(made) + 1)
    OBVIOUS
  <2>4. m \in Seq(1..MaxText) /\ Len(m) = Len(made) + 1 /\ Piece(m, 0)
    BY <2>1, <2>2, <2>3, AppendLength, PieceAppend, TextTyped
  <2>5. IsStrictPrefix(made, m)
    BY <2>1, <2>4, PiecesArePrefixes, TextTyped
  <2>6. Shown = made /\ Shown' = m /\ Status = "running"
    BY <1>0, <1>4, <2>1, <2>3 DEF Shown, Status
  <2>7. /\ Status = "running" /\ IsStrictPrefix(Shown, Shown')
        /\ UNCHANGED <<transcript, Status>>
    BY <1>0, <1>1, <2>5, <2>6
  <2>8. ES!Produce
    BY <2>7, SamePrefixes DEF ES!Produce, Shown, Status
  <2> QED BY <2>8
<1>5. CASE Running /\ ~StartGenerate /\ ~(Yield /\ service.cmd.id = app.run)
  <2>1. CASE StartLoad
    <3>1. /\ Head(queue) \in Waiting /\ Head(queue).op = "load"
      BY <2>1, TakeFacts DEF StartLoad
    <3>2. LoadIsCurrent /\ app.loadState = "ready"
      BY <1>5 DEF StatesAgree, ModelIsLoaded, Answered
    <3> QED BY <3>1, <3>2, OnlyGenerationsWait DEF LoadIsCurrent
  <2>2. CASE ~StartLoad
    <3>1. service'.cmd = service.cmd
      <4>1. \/ service' = service \/ GenerationStep \/ FinishLoad
        BY <1>5, <2>2, ServiceSteps DEF ReadCommand, SkipCancel, HandleUnload, RefuseGenerate, WriterWrite
      <4> QED BY <4>1, GenerationStepKeeps, GotoFacts DEF FinishLoad
    <3>2. made' = made \/ Yield
      BY <1>5, <2>2, TextStep DEF WriterWrite
    <3> QED BY <1>0, <1>1, <1>5, <3>1, <3>2 DEF Shown
  <2> QED BY <2>1, <2>2
<1> QED BY <1>2, <1>3, <1>4, <1>5

\* The application's text and status behave as an event stream: what is shown is
\* a beginning of what the model made, and all of it when the end is reported.
THEOREM ScreenIsAnEventStream == Spec => ImplementsEventStream
<1>1. Init => ES!Init
  BY DEF Init, ServiceInit, ES!Init, Running, NoTerminal
<1>2. AppInv /\ [Next]_vars => [ES!Next]_(ES!vars)
  <2> SUFFICES ASSUME AppInv, [Next]_vars
               PROVE  ES!Next \/ UNCHANGED <<transcript, Shown, Status>>
    BY DEF ES!vars, Shown, Status
  <2>1. CASE UserStep
    BY <2>1, StreamUser DEF ES!Next
  <2>2. ASSUME NEW i \in Ids, CallStep(i)
        PROVE  ES!Next \/ UNCHANGED <<transcript, Shown, Status>>
    BY <2>2, StreamCall DEF ES!Next
  <2>3. ASSUME NEW i \in Ids, NEW j \in Ids, Tear(i, j)
        PROVE  UNCHANGED <<transcript, Shown, Status>>
    BY <2>3, StreamKept DEF Tear, serviceVars
  <2>4. CASE ServiceStep /\ UNCHANGED appVars
    BY <2>4, StreamService DEF ES!Next
  <2>5. CASE UNCHANGED vars
    BY <2>5, StreamKept DEF vars, serviceVars, appVars
  <2> QED BY <2>1, <2>2, <2>3, <2>4, <2>5 DEF Next
<1> QED BY <1>1, <1>2, AppInvariant, PTL DEF Spec, ImplementsEventStream, ES!Spec
=============================================================================
