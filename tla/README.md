# Verification of the turbo-fieldfare runtime

TLA+ models of the parts of turbo-fieldfare whose correctness depends on order,
failure and interleaving, the TLC configurations that check them on small
instances, and TLAPS proofs that hold for instances of any size.

turbo-fieldfare runs a mixture-of-experts language model that does not fit in
memory: the experts of a layer are read from disk into a few slot buffers while
the GPU works on what is already there. Around that runtime there is a local HTTP
server with one warm model, a Mac application with a helper process, and an
installer that streams a model from a remote source. The repository also carries
a copy of llama.cpp, whose server and CPU backend run the model on other systems.

## The system

| Part | Source | State it keeps | Operations | What is hard |
|---|---|---|---|---|
| Routed-expert pipeline | `PreadExpertStreamer`, `ModelExpertIO`, `RealForwardRunner`, `PrefillRoutedTileScheduler`, `PrefillGroupedRoutedMoE` | slot buffers and their records per layer, the Metal command queue, the plan in hand, pending tiles and slot lifetimes | plan, execute (concurrent `pread`s), commit and wait for command buffers, drain tiles, throw | the CPU overwrites buffers that queued GPU work may read; reads fail half-way; steps are thrown away with work still queued |
| Generation coordinator | `ServerInference.swift` 32-104 | `active`, `waiters`, `shuttingDown`, continuations | `run` (acquire, operate, release), `cancelWaiter`, `shutdown` | actor re-entrancy: cancellation jobs run between a release and the waiter it resumes |
| HTTP front end | `HTTPServer.swift` | connections, one task per completion, stream state, registry of connections and tasks | read, write on the event loop, heartbeat, close, shutdown | tasks and the event loop run beside each other; clients go away; shutdown races with accepts |
| Server session and prompt cache | `ServerInference.swift` 106-353, `ServerPromptCache.swift` | one cache entry | match, continue, publish, invalidate | the entry must describe what the KV cache holds |
| Completion loop and KV cache | `RawCompletion`, `KVCacheManager`, `PrefillRuntimeConfig`, the runner's cursor | rows per layer, position, dirty mark | reset, continue, prefill a chunk, feed a token, sample | ring buffers wrap; failures leave rows that nobody describes |
| Install transaction | `RemoteStreamingRepacker`, `SourceByteProvider`, `RemoteInstallCheckpoint`, `InstallLock`, `Posix`, `RemoteSnapshotLoader` | lock, final and partial directory, checkpoint | install, resume, dry run, discard, promote | cancellation, kills, power losses and damage at every step; two installers |
| Remote transport | `RemoteRangeTransfer`, `RemoteRetry`, `RemoteDownloadSession` | one download and its retries | download a range | delegate callbacks, retries |
| Model files, lazy layers | `Model.swift`, `ModelIO` | streamers opened so far | open a layer on first use | background open beside a synchronous one |
| Decode service | `TurboFieldfareDecodeService`, `TurboFieldfareDecodeProtocol`, `RealInferenceClient` | command queue, outbox, loaded key, task registry | load, generate, cancel, unload | an input thread, a main loop, a generation's task and a writer thread share them |
| App clients and state | `DecodeServiceInferenceClient`, `AppModel`, `RepackModelInstallerClient` | calls in progress, generation counters, transcript | the same, from the other side | several calls read one connection; answers come after the question was withdrawn |
| llama.cpp server | `server-queue.cpp`, `server-context.cpp` | task and result queues, waiting ids, slots | post, defer, launch, decode, cancel, sleep | HTTP threads and the main loop under separate locks; parents and children; failures in the middle |
| ggml CPU thread pool | `ggml-cpu.c` | graph counter, barrier, chunk counter, flags | compute, kickoff, pause, resume, free | hybrid polling and sleeping, a barrier reused by changing numbers of threads |
| Kernels, tokenization, validation, planners, tools, UI, scripts, the rest of llama.cpp | the rest | none that is shared | sequential computation | numbers and text |

How they interact: the HTTP front end runs every completion inside
`coordinator.run`, so the session below it serves one request at a time; the
session drives the completion loop, which feeds the runner token by token or in
chunks; the runner is the only user of the expert streamers and the command
queue. The decode service is another driver of the same runner, for the
application: `AppModel` calls the client, which writes commands to the service's
input and reads its frames. The installer shares only files with the rest. The
llama.cpp server has a process of its own; its main loop decodes batches whose
graphs the thread pool computes.

What makes each part correct is stated as properties in its module; the list of
what can go wrong, line by line, is under `hazards` in `PROJECT.json`.

## Modules

| Module | Models | Runs |
|---|---|---|
| `RoutedPipeline` | the routed-expert pipeline | `pipeline` |
| `OwnedSlots` | abstract: who may touch a slot and when | refined by `RoutedPipeline` |
| `RoutedPipelineProofs`, `SequenceLemmas` | proofs about both | |
| `ServerCoordinator` | the coordinator actor | `coordinator_line` |
| `SerialQueue` | abstract: a bounded first-come first-served queue with one owner | refined by `ServerCoordinator` |
| `HTTPServer` | the front end composed with the coordinator (it EXTENDS `ServerCoordinator` and takes its actions) | `http_pipelined`, `http_heartbeat` |
| `HTTPServerProofs` | proofs about the coordinator, and about the front end around it | |
| `ModelSession` | session, prompt cache, completion loop, KV cache | `session` |
| `ModelSessionProofs` | proofs about it | |
| `InstallTransaction` | installers and their files | `install_interrupted`, and `install` through `RangeDownload` |
| `RangeDownload` | the download of a range inside the installation (it EXTENDS `InstallTransaction`): retries, transfer, cancellation | `install` |
| `RangeDownloadProofs` | proofs about the installation, and about the downloads in it | |
| `DecodeService` | the helper process: input thread, main loop, generation task, writer | through `DecodeApp` |
| `DecodeApp` | the application over the service (it EXTENDS `DecodeService`) | `decode_app` |
| `EventStream` | abstract: what the screen shows of a generation | refined by `DecodeApp` |
| `DecodeAppProofs` | proofs about all three | |
| `TaskQueue` | the llama.cpp server's queues and the HTTP threads' readers | through `SlotServer` |
| `SlotServer` | its main loop and slots (it EXTENDS `TaskQueue`) | `slot_server`, `slot_stranded`, `slot_kept` |
| `SlotServerProofs` | proofs about both | |
| `ThreadPool` | ggml's CPU thread pool | `thread_pool` |
| `ThreadPoolProofs` | proofs about it | |
| `MC*` | values and symmetry for TLC | |

Operators whose comment begins with "Mutant" are plausible faults of the code
(a dropped guard, a missing reset, an off-by-one). No specification uses them;
each shows that a property would notice the fault.

### RoutedPipeline

State: `slotExpert` and `bytes` per layer and slot are what the cache records and
what the buffer really holds (a torn buffer holds `NoExpert`); `reading` are the
`pread`s under way; `queue` is the one Metal command queue, a command buffer being
the bindings its kernels read; `assigned`, `missing` are the plan in hand;
`pending`, `lifetime` are the prefill's pending tiles and the slot-lifetime guard.
`pc` is the place in `produceToken` or `executePrefillChunk`. A binding is a slot
and an expert.

Actions follow the code between two points where something else can happen: a
commit, a wait, a read. `PlanToken` and `PlanTile` call `makeExpertCachePlan`,
whose victims' records go at once; `StartReads`, `FinishRead`, `FailRead` and
`PublishReads` are `executeExpertCachePlan`; the `Throw...` actions are its error
and those of the two paths. `GpuComplete` is the GPU, in commit order. Which
evictable slot becomes a victim is any choice, so what holds here holds for LRU
and LFU alike.

`OwnedSlots` is the promise behind it: a slot is overwritten only while no queued
work holds it, and work holds only slots that have their experts' bytes already.

### ServerCoordinator and HTTPServer

A call of `run` is none, acquiring, waiting (suspended in `waiters`), resumed,
operating, releasing or returned: one state per stretch the actor runs without
interruption. `cancelJobs` are the `Task { await self.cancelWaiter(id) }` that Swift
has been asked to run, so a cancellation can be handled before, between or after
the hand-over by `release`. The refinement to `SerialQueue` maps the calls that own
the model, a resumed one included, to `holders` and `waiters` to `queue`.

`HTTPServer` adds connections with two pipelined requests, the completion task, the
writes handed to the event loop (`outbox`), the heartbeat, the registry and the
stages of `shutdown`. NIO's event loop (writes run in order, those to a closed
channel are dropped) and its pipelining handler (one request of a connection at a
time) are modelled from how the code uses them. A connection accepted before the
listener closed may be initialized at any time before the shutdown returns. The
first heartbeat comes after the stream's head.

### ModelSession

A KV row depends on every token up to its own, so a row is modelled by that prefix
of the text: a stale row differs from a good one even where position and token
agree. Tokens are sampled, rendered and bridged arbitrarily. The two policies
(chunked prefill or none, prompt cache or none) are chosen at the start.

### InstallTransaction

A directory is, per range, whose bytes it holds and whether a power loss would keep
them, whose output files it has, and its small files: the downloaded metadata
(`.remote-metadata`), `tokenizer/config.json`, which is copied from them, and the
rest (layout, tokenizer, manifest, receipt), which goes by the manifest's name.
`RemoveOutputs` removes all of it, the metadata that `LoadMetadata` has just
downloaded too, and `CopySidecars` copies `config.json` only if the metadata are
there, so a resumed installation that had to remove its directory promotes a model
without it. An installer's steps are the system calls that change what a crash would
find. Steps that create or remove several files are one step where every state in
between is, for whoever comes next, the state before or after; a failing `try?`
removal equals a kill just before it. Between two installations a range may be
damaged (`Damage`) and the output files cut short or lost (`LoseOutputs`). A refused
call changes nothing and is no step. The application's inspection only reads.
Assumed of the file system: a rename is atomic, renames stay in order, and syncing a
file makes its name durable. The small files are not synced before the promotion, so
a power loss may take them from a model just installed; no property here says
otherwise.

### RangeDownload

`InstallTransaction` takes the download of a range in one step; `RangeDownload` is
the installation with its threads during that step. `call` is where `copyBatch`'s
call is in `withRemoteRetries` and `RemoteRangeTransfer.run`, and whether its task
is cancelled; `transfer` is the delegate with its URLSession task; `cancelling` is the
thread that runs `onCancel`, which takes the delegate's lock first and cancels the
task after it; `temp` is what the temporary file holds. One action is one critical
section of the delegate's lock, one callback or one step of the caller. Swift's
runtime does not let a call leave its cancellation handler while that runs, so
`ResumeCaller` waits for it. A cancellation between two downloads is
`InstallTransaction`'s `Cancel`. URLSession may answer, refuse, cut short, fail or
lose a connection at any point, and completes a task once, after its callbacks.

### DecodeService and DecodeApp

The socket is two sequences, `commands` and `frames`. Text is the sequence of the
generation's token numbers, so a lost, doubled or foreign token shows. `service` is
the main loop's place and the command in hand; `registry` is
`GenerationTaskRegistry`, whose entry exists from `reserve` on while the task is
attached later; `outbox` is `DecodeServiceOutbox` under its lock, and `writer` what
its thread took and has not written. A cancel that the input thread reads before
the main loop has reserved the generation finds no entry and is lost, as in the
code. Prefill progress, diagnostics and the frames' encoding are left out.

In `DecodeApp` every call of the client is a task: it may wait for the unload before
it, writes its command, and reads frames until it has its answer. Two tasks may read
at once, and may then tear a frame between them (`Tear`). `app` is `AppModel`'s state, whose
generation counters are the number of the call that last raised them. The user acts
when the application has done what it can do without an answer. The connection is
there: launching the service, its end, and the shutdown are left out.

`EventStream` is what a reader of the screen relies on: a prefix of what the model
produced, which only grows, and all of it when the generation is reported as
finished or cancelled.

### TaskQueue and SlotServer

`tasks` are the two deques under `mutex_tasks`, `results` and `waiting` what
`server_response` keeps under its own mutex. A reader registers its ids, posts,
receives, and stops: cancels what it has no answer of, and cleans; each of these
steps is one critical section. `SlotServer` is `start_loop` with
`process_single_task` and `update_slots` split where another thread can come
between: the preparation of each slot, the decode of the batch, the sampling of each
slot. Where the loop answers a task and releases its slot (`AnswerHere`,
`LaunchFails`, `Abort`), the result is sent under one mutex and a deferred task
popped under the other, in one action: slots are the loop's own, so an HTTP thread
that comes between the two sees no more than one that comes after both. A slot that
generates is in the batch with its token, or is left out when it does not go
together with the first one (`LeaveOut`) and is then not sampled (`Skip`). A prompt
is a number of chunks, a text a number of tokens; whether a launch is refused, a
decode fails, or a text stops early is any choice. Task ids come from one counter
(`get_new_id`): no two tasks share one (`IdsAssumption`).

In two cases the code keeps a slot for good. The cancels of a client that leaves
while its task is in the loop's hand find the task in no queue and on no slot; the
task is then deferred and later launched for nobody, and if it is a parent that
fails before its decode, its children wait with nobody to cancel them. This is the
run `slot_kept`, with `EverySlotComesFree`. And a parent with an empty prompt is
answered before any decode, and its children wait for it (`Empty` says which tasks
have no prompt, `Impatient` whose client may leave). `SlotsComeFree` is stated
beside them, over the same instance: it is about the behaviours in which no cancel
is lost (`[]CancelsAreNotLost`), and about every slot but those of such children
(`WaitsForEmpty`). Not modelled: partial results, embeddings, metrics, slot and
adapter tasks, context shifts, speculation, the router.

### ThreadPool

The pool of the build without OpenMP (`build-optimized.ps1` turns OpenMP on, where
the compiler's runtime replaces all of this). One action is one access to a shared
atomic or one section under the mutex; `pc` is each thread's place, thread 0 being
the caller. `gate` is the barrier's two counters, `bar` what a thread in it has
read. A result is the set of its chunks that are there. The memory is sequentially
consistent here: the code's relaxed accesses are ordered by its barrier and mutex,
which the model does not question. A fused pair is one node; affinity, priorities,
NUMA and the wrap of the 16-bit graph count are left out.

## Runs

`MC*.tla` and the `.cfg` files give the instances. Bounds are small where a second
instance of the same thing adds nothing and never so small that the case of
interest disappears.

| Run | Instance | Distinct states | Shows |
|---|---|---|---|
| `pipeline` | 2 layers, 3 experts, 2 slots, top 2, tiles of 1, depth 1, a queue of 2 | 480,094 | queued work always reads the experts it was encoded for, also across layers and after failed reads and abandoned steps; records are never ahead of the bytes; with the budget (1 + 1) * 1 = 2 met exactly every plan can be placed and no tile waits; the inductive invariant of the proofs; every step ends; refinement of `OwnedSlots` |
| `coordinator_line` | 4 calls, a line of 2 | 118,713 | no continuation lost or resumed twice; refinement of `SerialQueue`; cancelled waiters return, and all calls if operations end |
| `http_pipelined` | 3 requests on 2 connections, one of them a stream, a line of 1 | 316,508 | responses are framed, no task works for a client that is gone, every request is answered or closed, a shutdown ends and leaves nothing |
| `http_heartbeat` | the same with two streams | (violation) | see the findings |
| `session` | 3 tokens, context 6, window 2, chunks of 2, prompts to 3, 2 new tokens | 2,262,199 | attention finds the rows of its own text, the cache entry is backed, the runner is never misused, a continued conversation forgets nothing |
| `install` | 2 installers, 2 sources, 2 ranges of 2 parts, 2 attempts | 1,642,967 | the installed model is of one source and never missing, records are durable, only whole ranges are copied, a cancellation reaches the transfer, resumes reuse what is intact, cancellation keeps it |
| `install_interrupted` | the same with 3 ranges, a download in one step | (violation) | see the findings |
| `decode_app` | 2 models, 2 tokens, 4 calls | 666,082 | every command has its own answer in order, "ready" means that this model is loaded, a cancel reaches its task, the screen keeps the promise of `EventStream`, a run ends |
| `slot_server` | 2 slots, a single task with an empty prompt, a parent with a child whose client may leave, a task that asks for slot 1 | 643,707 | no task is lost or run twice, results have a reader, the loop waits only without work, slots come free unless a cancel is lost |
| `slot_stranded` | the same | (violation) | see the findings |
| `slot_kept` | the same | (violation) | see the findings |
| `thread_pool` | 3 threads, 3 graphs of 3 nodes (a product of 8 chunks, an empty one, one split by thread) | 391,847 | the barrier counts right, nodes are computed in order and chunks once, nobody looks at the pool's parameters between calls, calls return |

Why these are enough: three experts over two slots with top 2 is the smallest cache
with hits, misses and evictions in one plan, and two layers are needed for work of
one layer to be queued while another is planned. A line of two has a middle that can
be cancelled. Two requests on one connection and one on another give pipelining and
a competitor for the model. A ring of 2 + 2 slots with five rows wraps; a prompt of
three is a full and a partial chunk. Two ranges are one recorded and one in
progress or missing; two sources let a swap or a resume confuse them. Two parts let a body end in the middle, and two attempts are
one that is retried and a last. Four calls are two loads of different models, a
generation and an unload, or a load given up for another between two generations.
Two slots hold the parent with its child and nothing else, so that every other task
is deferred, and one slot with another task makes the parent wait. Three threads let
one leave a barrier while another enters the next and a third is left out of a
graph; three graphs let a sleeper miss one; eight chunks are exactly four for each
of two threads, the last number that is still shared, and too few for three threads,
which then take one piece each.

Deadlock is checked except where the system stops: the HTTP server after its
shutdown, the application when its calls are used up, the llama.cpp server when
its requests are answered, the pool when it is freed. Installers and sources
are symmetric in `install`, which has no liveness property.

### Fairness

Only scheduling the platform gives is assumed: the runner's task goes on, a `pread`
returns (with or without an error) and committed command buffers complete
(`pipeline`); the actor runs the jobs enqueued on it (`coordinator_line`); the
event loop runs its writes, tasks run, and a shutdown that began goes on
(`http_pipelined`); the service's four threads and the application's tasks run
(`decode_app`); the main loop and the HTTP threads run (`slot_server`), and every
thread of the pool (`thread_pool`). That operations end is an antecedent of
`EveryCallReturns` and is not needed by `CancelledWaiterReturns`; in
`http_pipelined` and `decode_app` it is assumed, as the completion loop has a token
limit and checks for cancellation. Nothing is asked of the user, of clients, of the
sleep timer, or of the caller of the pool.

### Findings

* `http_heartbeat`: the task's `defer` stops the heartbeat (`HTTPServer.swift:229`)
  after the end of the stream was handed to the event loop, so a `: ping` may follow
  `data: [DONE]`, while the server's test asserts that a stream ends with it.
* `install_interrupted`: an installer that is killed after it created the partial
  directory and before its first checkpoint, or between promotion and the removal of
  the checkpoint, leaves a state that a resume and a new installation both refuse
  until the user discards it, while the README says that an interrupted download can
  be continued.
* `slot_stranded`: a release pops one deferred task (`server-queue.cpp:77`); when that
  one is refused at its launch nobody pops the next, and it stays deferred beside
  idle slots until some later request is released.
* `slot_kept`: the cancels of a client that leaves while the main loop has its parent
  task in hand find it in no queue and on no slot (`server-queue.cpp:444`); the family
  is then deferred and launched later for nobody, and when the parent fails before its
  decode, nobody cancels its child, which keeps a slot for good.

Seen while modelling and shown by no run of its own:

* A resumed installation whose output files do not match removes the partial directory
  with the metadata it has just downloaded (`RemoteStreamingRepacker.swift:220`);
  nothing downloads them again, `config.json` is skipped in silence (509), and the
  promoted model, its manifest and its receipt lack `tokenizer/config.json`, which
  `SYSTEM_DESIGN.md:96` and `RemotePayloadCopyTests.swift:272` list as a file of every
  model. It takes output files that were lost or cut short, or an installer killed
  between a swap over another source's model and the removal of its checkpoint.
  `FinalIsOfOneSource` allows it in so many words; `InstallInv` says that a first
  installation does not end so.
* A parent with an empty prompt is answered and released before any decode
  (`server-context.cpp:3145`): its children wait for good.
* The client's `unload` returns with whatever frame comes next
  (`DecodeServiceInferenceClient.swift:58`), which may be the answer of the load that was
  given up: the application leaves `cancelling` before the service has seen the unload.

## Proofs

All of the following hold for every value of the constants that satisfies the
modules' assumptions (finite sets of experts and slots, a top-k within the slots, no
reserved value among the ordinary ones, positive counts, distinct task ids), hence
for any number of calls, connections, installers or threads. They are theorems of
`Spec`, so of `FairSpec` too. None of the properties is inductive by itself; each
part below says what has to be known in addition, and why.

**Pipeline** (`RoutedPipelineProofs`). That a read avoids queued work depends on the
plan having avoided it, which depends on what was queued when the plan was made.
`PipelineInv` says that the runner is on its mode's path, the plan in hand is sound
(its misses are recorded nowhere, its hits are recorded), reads are of the plan's
misses and tear their slots, queued work of the layer avoids the misses, queued work
and lifetimes belong to pending tiles, and the next tile avoids theirs. From it:
`QueuedWorkIsSafe`, `ReadsAreSafe`, `ReadsAreExclusive`, `CacheIsTrue`,
`CacheIsInjective`, `ArgumentsAreStable`, `LifetimeGuardIsRedundant` (the runtime's
own check can never fail), and `PipelineOwnsItsSlots`, the refinement of
`OwnedSlots`. `BudgetIsEnough` is a count on top: a record in one slot only makes the
hits of a plan as many slots as experts, so a plan fits when its experts and the
avoided slots do; n pending tiles hold n * `TileExperts` slots at most. That sum is
kept for every suffix of the pending tiles (`WithinTiles`), which a drained head leaves
alone and an issued tile extends, so it needs no induction over the sequence.
`SequenceLemmas` has the facts about appending to, taking from and removing inside
sequences that these and the next proofs use.

**Coordinator** (`HTTPServerProofs`). `CoordinatorInv` (types, one owner, the line
is exactly the suspended calls, its bound, none after shutdown) is inductive. From
it: `ModelHasOneOwner`, `NoContinuationIsLost`, and `CoordinatorIsSerialQueue`, the
refinement of `SerialQueue`.

**Front end** (`HTTPServerProofs`). What one connection writes is decided in several places
(the task, the heartbeat, the event loop, the close of the channel), and each trusts
the others' flags. `HTTPInv` adds to the coordinator's invariant that one request of a
connection at most is unanswered and is the one being served (`ExchangesInTurn`), how
far a stream is according to its task, its queued writes and the wire
(`StreamsAgree`), that a call of `run` belongs to a task that has not answered and that
the connection can cancel or has (`TasksAgree`), and what each stage of the shutdown
has accounted for (`RegistryAgrees`). With `ResponsesAreFramed` it is inductive
(`ServerInv`): that a part may be written depends on what is still queued. From it:
`QueuedPartsAreOneResponse` (the framing of what the tasks write; the heartbeat's ping
after the end is the finding above), `NoGenerationIsOrphaned`, `ServerIsAtRest`, and with
`ServerRunsCoordinator` (every step is a step of the coordinator or leaves it alone)
the coordinator's theorems for the composition, `ServerIsSerialQueue` among them.

**Session** (`ModelSessionProofs`). That a query attends to its own text depends on every
row written since the last reset, in a ring where later rows replace earlier ones.
`SessionInv` says of the place in the completion loop which text the runner's rows
belong to: the cache entry's between requests, the prompt's up to the cursor while it
is prefilled, the history's while tokens are fed. `Held` states this only for the rows
that the next query will look at, which is what the ring keeps: positions less than
its capacity apart never share a slot, and a chunk is never longer than the ring has
room for beside the window. Only a chunk under way leaves the runner dirty, and a failure
goes through a reset. From it: `AttentionIsToItsText`, `EntriesAreBacked`,
`RunnerIsAlwaysReady`, `FinishedTurnsPublish`, and the action property
`ContinuationsRemember`.

**Installation** (`RangeDownloadProofs`). Whether the model in the final directory
is one source's depends on what an installer remembers when it promotes, and that on
what it found, recorded and synced before. `InstallInv` carries this: the lock is
held by whoever works, every range an installer will not download has its source's
bytes durably, its memory of the checkpoint is the file's content while it copies,
and a range is written before it is synced and synced before it is recorded; the
metadata and the `config.json` beside them are the installer's source's where they
are there at all (`HasItsMetadata`, `ConfigMatches`), and they are there in a first
installation. A power loss or damage between two installations keeps it because
nobody is at work then and recorded ranges are durable. From it:
`InstalledModelIsOfOneSource` (the bytes of all ranges, and the small files that the
model has; which it has is left open), `RecordsSurvivePowerLoss`,
`ModelIsNeverMissing`. Two action properties need more (`SavedInv`: until it
promotes, a resumed installation still has its checkpoint, and the record it is
about to write keeps every reusable range): `CancelledInstallsPause` and
`IntactRangesAreReused`.

**Downloads** (`RangeDownloadProofs`). `DownloadsAreInstallations`: the installation with
its downloads implements the one without, so the theorems above hold of it.
`RangesArriveWhole` and `CancelReachesTransfer` are not inductive: what the file holds
when it is copied depends on the transfer's result when it closed the file, and
whether a cancelled transfer ends on which of the two threads took the lock first.
`DownloadInv` adds where the task and the cancelling thread are at each place of
the call, what the file holds there, that a cancellation that is through has left
its rejection, and that a download runs only while its installer is at the copy.
From it: `OnlyWholeRangesAreCopied`, `CancellationIsNotLost`.

**Decode service and application** (`DecodeAppProofs`). Several tasks of the application
read one connection and may take each other's answers, so what an answer means cannot
be said of its reader; it follows from the numbers of the calls. `AppInv` says of the
calls that the last one alone may still write a command (`CallsInTurn`) and how
`AppModel`'s state names them (`StatesAgree`); of the wire, that commands and frames
keep the order of the calls, waiting commands being later than the one in hand and
frames not later (`CommandsInOrder`, `FramesInOrder`). "Ready" is true because the load
that `AppModel` means is the last one: from its answer on, nothing later is on its way
that could change what is loaded (`ModelIsLoaded`). Whoever reads an answer, there are at
least as many to come as readers that wait for one (`ReadersAreOwed`); an application
that is ready has none to come, so nobody is left who could take a frame of the next
generation. For the text every stage is a piece of what the model produced:
stream, outbox, writer, and each snapshot on the wire continues the one before
(`TextInPieces`, `TextArrives`). The frames are not counted one by one: `Leads` says that
reading them in turn takes the screen from what it shows to what was written, which
an appended frame extends, a read one shortens and no induction has to unroll;
`TaskAgrees` and `WriterAgrees` say where the task and the writer are meanwhile. From
it: `AnswersComeInOrder`, `ReadyModelsAreLoaded`, `CancellationsReachTasks`, and
`ScreenIsAnEventStream`, the refinement of `EventStream`.

**Thread pool** (`ThreadPoolProofs`). The last thread to arrive resets the barrier's
counter and opens it while the others still spin on what they have read, so a count
alone says nothing. `ThreadsInv` cuts the work on a graph into the segments between two
barriers and gives every thread its `Place`: for a thread that still spins in a
barrier that was opened it is where that thread will go on. All threads of a graph
are then in one segment, the counter has exactly those that arrived at its end, and
opening the barrier takes all of them over to the next segment at once, the slow ones
included. Within a product, the chunk counter and the chunks that threads hold or have
computed agree, and no chunk has two owners. A worker has seen no graph that was not
started and goes straight to one it has part in; between graphs the pool is quiet.
From it: `BarrierCounts`, `ChunksOnceInOrder`, `ParametersAreFree`.

**llama.cpp server** (`SlotServerProofs`). A task passes through two queues, the main
loop's hand, a slot and the results, under two locks, while its request registers,
gives up and cleans in steps of its own. `ServerInv` says where all tasks are at once:
no queue, slot or result has one twice, a root that is queued or in hand stands for its
whole family, and nobody of that family is on a slot or answered yet (`InOnePlace`).
Of each reader it says what its place means for its tasks (`ReadersAgree`): before
it posts they are nowhere; while it reads, each one is received or still somewhere,
unless an error has come for the request; its ids wait for results exactly as long as
it may take them. A launch that fails may drop a family because the error is for one of
it, and the reader waits for all of its ids. A release may drop a result because
nobody waits for it then, and only a reader that is through has cancels on their way
(`CancelsAreLate`). `LoopComesBack` has the job that an iteration over busy slots posts,
still in the queue when the loop waits. From it: `TasksHaveOnePlace`,
`ResultsHaveReaders`, `LoopWaitsWhenIdle`, for any requests, families and slots.
Slots are released one after the other and queues are cleaned of whole sets, which
asks for induction over the number of steps. The induction theorems of the library
have an operator as their parameter, so `SetInduction` derives the principle for sets
of numbers from the well-foundedness of `<`; with it `PopsFacts` and
`LeastIsThere` are proved. `TaskQueue` and `SlotServer` use no recursive operator for
that reason (`InOrder`, `Keep`, the function in `Pops`).

Only model-checked: liveness (`StepsEnd`, `EveryCallReturns`, `CancelledWaiterReturns`,
`AnsweredOrClosed`, `ShutdownEnds`, `RunEnds`, `SlotsComeFree`, `CallsReturn`), which
is out of the prover's reach. All other properties of the passing runs are theorems.

## Not modelled

* The numbers: kernels, quantization, sampling, logits. A GPU error is printed and
  ignored by the decode path, so nothing can be stated of what follows.
* Text: tokenizer, templates, tool-call parser, stop matcher, JSON validation. The
  models take any outcome of them.
* The uncached `loadExpert` (used by tests only) and the choice among evictable slots.
* Of the remote transport: the lengths of delays, redirects, the check of the headers
  and the small metadata requests.
* Lazy opening of layers, repack planning, the
  verify-install tool (it takes no lock and could write its receipt into a model
  promoted meanwhile): see the plan.
* The start, loss and shutdown of the decode service's process, the application's
  installation screens, transcript files and settings.
* The user interface, command lines, benchmark scripts and the rest of llama.cpp:
  tensor kernels for a dozen backends, model graphs, the batching and memory
  modules, conversion scripts. They are numerical and mostly sequential.

## Plan

Done, in this order: the expert pipeline and its promise; the coordinator and the
front end around it; the session; the installer; the proofs above; the decode
service and the application over it; the llama.cpp server's queues and slots; the
CPU thread pool; the installer's downloads and their proofs; the proofs about the
decode service and the application, and about the llama.cpp server.

Next:

1. `ExpertCache`: LRU and LFU order, and the lazily opened layer.
2. Algorithms against reference definitions: range coalescing, chunk spans, the
   streaming stop matcher.
