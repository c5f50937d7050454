------------------------- MODULE InstallTransaction -------------------------
(***************************************************************************)
(* The installation of a model (RemoteStreamingRepacker): an installer     *)
(* streams byte ranges of a pinned source into a partial directory beside  *)
(* the final one, records each finished range in a checkpoint file, and at *)
(* the end renames or swaps the partial directory into place.  Installers  *)
(* may be cancelled, may fail, may be killed and may lose power at any     *)
(* step; a later one resumes what the checkpoint records.                  *)
(*                                                                         *)
(* A directory is the bytes of each range, whether its output files all    *)
(* exist with their sizes and index, and its small files: the downloaded   *)
(* metadata, tokenizer/config.json copied from them, and everything else   *)
(* that is written when the ranges are there (layout, tokenizer, manifest, *)
(* receipt), which goes by the manifest's name.  Bytes are those of a      *)
(* source, or Blank: zeros, torn or damaged.  A range's digest matches     *)
(* exactly when its bytes are those of the checkpoint's source, so the     *)
(* checkpoint is a source and the ranges it records.                       *)
(***************************************************************************)
EXTENDS Integers

CONSTANTS
  Installers,   \* processes that may install or discard (app, command line)
  Sources,      \* what an installer may be asked for: a source and its plan
  Ranges,       \* the coalesced ranges of the plan, in order
  Blank,        \* bytes that are no source's
  None          \* no process, no directory, no checkpoint, no manifest

ASSUME RangesAssumption == Ranges \subseteq Nat
ASSUME BlankAssumption == Blank \notin Sources
ASSUME NoneAssumption == None \notin Installers \cup Sources
ASSUME NoRecordAssumption ==
  /\ None \notin [bytes : [Ranges -> Sources \cup {Blank}], outputs : Sources \cup {None},
                  metadata : Sources \cup {None}, config : Sources \cup {None},
                  manifest : Sources \cup {None}, durable : SUBSET Ranges, sealed : BOOLEAN]
  /\ None \notin [source : Sources, completed : SUBSET Ranges]

VARIABLES
  lock,        \* who holds the advisory lock (InstallLock)
  final,       \* the installed directory
  partial,     \* <final>.partial
  checkpoint,  \* <final>.resume.json
  run          \* per installer: where it is and what it has in memory

vars == <<lock, final, partial, checkpoint, run>>
files == <<final, partial, checkpoint>>

Directory == [
  outputs  : Sources \cup {None},            \* whose output files and index it has
  bytes    : [Ranges -> Sources \cup {Blank}],
  metadata : Sources \cup {None},            \* .remote-metadata
  config   : Sources \cup {None},            \* tokenizer/config.json
  manifest : Sources \cup {None},            \* and the other small files
  durable  : SUBSET Ranges,                  \* ranges that a power loss leaves alone
  sealed   : BOOLEAN]                        \* whether it leaves the small files alone

Checkpoint == [source : Sources, completed : SUBSET Ranges]

EmptyDirectory ==
  [outputs |-> None, bytes |-> [r \in Ranges |-> Blank],
   metadata |-> None, config |-> None, manifest |-> None,
   durable |-> Ranges, sealed |-> TRUE]

InstalledDirectory(s) ==
  [outputs |-> s, bytes |-> [r \in Ranges |-> s],
   metadata |-> None, config |-> s, manifest |-> s,
   durable |-> Ranges, sealed |-> TRUE]

Idle == [pc |-> "idle", source |-> None, resume |-> FALSE, completed |-> {}]

Init ==
  /\ lock = None
  /\ final \in {None} \cup {InstalledDirectory(s) : s \in Sources}
  /\ partial = None
  /\ checkpoint = None
  /\ run = [p \in Installers |-> Idle]

\* The partial directory and the checkpoint both exist or neither does.
Together == (partial = None) <=> (checkpoint = None)

Go(p, pc) == run' = [run EXCEPT ![p].pc = pc]
GoWith(p, pc, done) == run' = [run EXCEPT ![p].pc = pc, ![p].completed = done]

Return(p) ==
  /\ run' = [run EXCEPT ![p] = Idle]
  /\ lock' = None

-----------------------------------------------------------------------------
(* An installation, step by step.                                          *)

\* Mutant: the lock is not respected.
BeginUnlocked(p, source, overwrite) ==
  /\ run[p].pc = "idle"
  /\ final = None \/ overwrite
  /\ Together
  /\ lock' = p
  /\ run' = [run EXCEPT ![p] =
       [pc |-> "metadata", source |-> source, resume |-> checkpoint # None, completed |-> {}]]
  /\ UNCHANGED files

\* run: takes the lock and checks what is there.  A call that finds the lock
\* taken, a model it may not replace, half of a saved download, or a saved
\* download when it was not asked to resume one, returns an error and changes
\* nothing; so an installation that goes on resumes exactly when there is one.
Begin(p, source, overwrite) ==
  /\ run[p].pc = "idle"
  /\ lock = None
  /\ final = None \/ overwrite
  /\ Together
  /\ lock' = p
  /\ run' = [run EXCEPT ![p] =
       [pc |-> "metadata", source |-> source, resume |-> checkpoint # None, completed |-> {}]]
  /\ UNCHANGED files

\* runPrepared up to the plan: loads the checkpoint, refuses another source's,
\* and downloads the metadata into the partial directory, creating it.
LoadMetadata(p) ==
  /\ run[p].pc = "metadata"
  /\ run[p].resume => checkpoint.source = run[p].source
  /\ partial' = [(IF partial = None THEN EmptyDirectory ELSE partial)
                   EXCEPT !.metadata = run[p].source]
  /\ IF run[p].resume THEN GoWith(p, "verify", checkpoint.completed) ELSE GoWith(p, "space", {})
  /\ UNCHANGED <<lock, final, checkpoint>>

\* Mutants: the record is trusted; every range is downloaded again.
IntactAsRecorded(p) == run[p].completed
IntactNone(p) == run[p].completed \cap {}

\* validatedCompletedRanges: the recorded ranges whose digest still matches.
Intact(p) == {r \in run[p].completed : partial.bytes[r] = run[p].source}

\* A resumed installation keeps the ranges that are intact...
VerifyRanges(p) ==
  /\ run[p].pc = "verify"
  /\ partial.outputs = run[p].source
  /\ GoWith(p, "save", Intact(p))
  /\ UNCHANGED <<lock, files>>

\* ...or, when the output files are not the plan's, removes the whole directory,
\* the metadata it has just downloaded too, and forgets every range.
RemoveOutputs(p) ==
  /\ run[p].pc = "verify"
  /\ partial.outputs # run[p].source
  /\ partial' = None
  /\ GoWith(p, "remake", {})
  /\ UNCHANGED <<lock, final, checkpoint>>

RemakeDirectory(p) ==
  /\ run[p].pc = "remake"
  /\ partial' = EmptyDirectory
  /\ Go(p, "create")
  /\ UNCHANGED <<lock, final, checkpoint>>

\* createOutputFiles: the index and the files' sizes, made durable.
CreateOutputFiles(p) ==
  /\ run[p].pc = "create"
  /\ partial' = [partial EXCEPT !.outputs = run[p].source,
                                !.bytes = [r \in Ranges |-> Blank], !.durable = Ranges]
  /\ Go(p, "save")
  /\ UNCHANGED <<lock, final, checkpoint>>

\* RemoteInstallCheckpoint.write replaces the file atomically and durably.
SaveCheckpoint(p) ==
  /\ run[p].pc = "save"
  /\ checkpoint' = [source |-> run[p].source, completed |-> run[p].completed]
  /\ Go(p, IF run[p].resume THEN "space" ELSE "copy")
  /\ UNCHANGED <<lock, final, partial>>

\* The disk has room for the rest.
CheckSpace(p) ==
  /\ run[p].pc = "space"
  /\ Go(p, IF run[p].resume THEN "copy" ELSE "create")
  /\ UNCHANGED <<lock, files>>

\* A space check that installs nothing ends here.
DryRun(p) ==
  /\ run[p].pc = "space"
  /\ partial' = IF run[p].resume THEN partial ELSE None
  /\ Return(p)
  /\ UNCHANGED <<final, checkpoint>>

\* copyBatch: the next range has been downloaded to a temporary file and its
\* copy into the output files has begun.
Missing(p) == Ranges \ run[p].completed
IsNext(p, r) == r \in Missing(p) /\ \A q \in Missing(p) : r <= q

CopyRange(p, r) ==
  /\ run[p].pc = "copy"
  /\ IsNext(p, r)
  /\ partial' = [partial EXCEPT !.bytes[r] = Blank, !.durable = @ \ {r}]
  /\ Go(p, "write")
  /\ UNCHANGED <<lock, final, checkpoint>>

WriteRange(p, r) ==
  /\ run[p].pc = "write"
  /\ IsNext(p, r)
  /\ partial' = [partial EXCEPT !.bytes[r] = run[p].source]
  /\ Go(p, "sync")
  /\ UNCHANGED <<lock, final, checkpoint>>

SyncRange(p, r) ==
  /\ run[p].pc = "sync"
  /\ IsNext(p, r)
  /\ partial' = [partial EXCEPT !.durable = @ \cup {r}]
  /\ Go(p, "commit")
  /\ UNCHANGED <<lock, final, checkpoint>>

\* The range's digest goes into the checkpoint.
CommitRange(p, r) ==
  /\ run[p].pc = "commit"
  /\ IsNext(p, r)
  /\ GoWith(p, "copy", run[p].completed \cup {r})
  /\ checkpoint' = [source |-> run[p].source, completed |-> run[p].completed \cup {r}]
  /\ UNCHANGED <<lock, final, partial>>

CopyEnds(p) ==
  /\ run[p].pc = "copy"
  /\ Missing(p) = {}
  /\ Go(p, "finish")
  /\ UNCHANGED <<lock, files>>

\* Hashes the outputs, writes the layout, copies config.json if it is among the
\* metadata, fetches the tokenizer and removes the metadata (if that fails they
\* stay, and nothing looks at them).  None of the small files is synced.
CopySidecars(p) ==
  /\ run[p].pc = "finish"
  /\ partial' = [partial EXCEPT
       !.config = IF partial.metadata = None THEN @ ELSE partial.metadata,
       !.metadata = None, !.sealed = FALSE]
  /\ Go(p, "manifest")
  /\ UNCHANGED <<lock, final, checkpoint>>

\* The manifest and the receipt.
WriteManifest(p) ==
  /\ run[p].pc = "manifest"
  /\ partial' = [partial EXCEPT !.manifest = run[p].source, !.sealed = FALSE]
  /\ Go(p, "promote")
  /\ UNCHANGED <<lock, final, checkpoint>>

\* Mutant: an installed model is removed first, then the new one renamed.
PromoteInTwoSteps(p) ==
  /\ run[p].pc = "promote"
  /\ \/ final # None /\ final' = None /\ UNCHANGED <<partial, run>>
     \/ final = None /\ final' = partial /\ partial' = None /\ Go(p, "clean")
  /\ UNCHANGED <<lock, checkpoint>>

\* rename, or renameSwap when a model is installed.
Promote(p) ==
  /\ run[p].pc = "promote"
  /\ final' = partial
  /\ partial' = final
  /\ Go(p, "clean")
  /\ UNCHANGED <<lock, checkpoint>>

RemoveReplaced(p) ==
  /\ run[p].pc = "clean"
  /\ partial' = None
  /\ Go(p, "unlink")
  /\ UNCHANGED <<lock, final, checkpoint>>

RemoveCheckpoint(p) ==
  /\ run[p].pc = "unlink"
  /\ checkpoint' = None
  /\ Return(p)
  /\ UNCHANGED <<final, partial>>

-----------------------------------------------------------------------------
(* Discarding, and everything that ends an installation early.             *)

\* discardPartial: the directory, then the checkpoint.
DiscardPartial(p) ==
  /\ run[p].pc = "idle"
  /\ lock = None
  /\ partial # None \/ checkpoint # None
  /\ lock' = p
  /\ partial' = None
  /\ Go(p, "discard")
  /\ UNCHANGED <<final, checkpoint>>

DiscardCheckpoint(p) ==
  /\ run[p].pc = "discard"
  /\ checkpoint' = None
  /\ Return(p)
  /\ UNCHANGED <<final, partial>>

\* Mutant: an error removes the partial directory, whatever is recorded.
AbandonAlways(p) ==
  /\ partial' = None
  /\ Return(p)
  /\ UNCHANGED <<final, checkpoint>>

\* run's catch: a first installation that has no checkpoint yet removes its
\* partial directory; anything else stays for a later resume.
Abandon(p) ==
  /\ partial' = IF ~run[p].resume /\ checkpoint = None THEN None ELSE partial
  /\ Return(p)
  /\ UNCHANGED <<final, checkpoint>>

\* Task.checkCancellation, and the network calls that end when cancelled.
CancelPoints == {"metadata", "verify", "space", "create", "copy", "write", "sync",
                 "finish", "manifest", "promote"}

Cancel(p) == run[p].pc \in CancelPoints /\ Abandon(p)

\* A download that failed for good, an incompatible checkpoint, or a file
\* operation that failed.  (try? hides the failures of the last steps.)
Fail(p) == run[p].pc \in CancelPoints \cup {"remake", "save", "commit", "clean"} /\ Abandon(p)

\* The process dies: the kernel drops its lock, the files stay.
Crash(p) ==
  /\ run[p].pc # "idle"
  /\ run' = [run EXCEPT ![p] = Idle]
  /\ lock' = IF lock = p THEN None ELSE lock
  /\ UNCHANGED files

\* A directory after a power loss: what is not yet durable may be lost.
Lose(directory, lost, manifestLost, configLost) ==
  [directory EXCEPT !.bytes = [r \in Ranges |-> IF r \in lost THEN Blank ELSE @[r]],
                    !.manifest = IF manifestLost /\ ~directory.sealed THEN None ELSE @,
                    !.config = IF configLost /\ ~directory.sealed THEN None ELSE @,
                    !.durable = Ranges,
                    !.sealed = TRUE]

AfterPowerLoss(directory) ==
  IF directory = None THEN {None}
  ELSE {Lose(directory, lost, manifestLost, configLost) :
          lost \in SUBSET (Ranges \ directory.durable),
          manifestLost \in BOOLEAN, configLost \in BOOLEAN}

PowerLoss ==
  /\ final' \in AfterPowerLoss(final)
  /\ partial' \in AfterPowerLoss(partial)
  /\ run' = [p \in Installers |-> Idle]
  /\ lock' = None
  /\ UNCHANGED checkpoint

\* A saved range is damaged while nobody is installing.
Damage(r) ==
  /\ lock = None
  /\ partial # None
  /\ partial' = [partial EXCEPT !.bytes[r] = Blank]
  /\ UNCHANGED <<lock, final, checkpoint, run>>

\* So is the index, or an output file cut short or removed.
LoseOutputs ==
  /\ lock = None
  /\ partial # None
  /\ partial' = [partial EXCEPT !.outputs = None]
  /\ UNCHANGED <<lock, final, checkpoint, run>>

InstallStep(p) ==
  \/ \E s \in Sources, overwrite \in BOOLEAN : Begin(p, s, overwrite)
  \/ LoadMetadata(p)
  \/ VerifyRanges(p) \/ RemoveOutputs(p) \/ RemakeDirectory(p)
  \/ CheckSpace(p) \/ DryRun(p)
  \/ CreateOutputFiles(p) \/ SaveCheckpoint(p)
  \/ \E r \in Ranges : CopyRange(p, r) \/ WriteRange(p, r) \/ SyncRange(p, r) \/ CommitRange(p, r)
  \/ CopyEnds(p) \/ CopySidecars(p) \/ WriteManifest(p)
  \/ Promote(p) \/ RemoveReplaced(p) \/ RemoveCheckpoint(p)
  \/ Cancel(p) \/ Fail(p) \/ Crash(p)
  \/ DiscardPartial(p) \/ DiscardCheckpoint(p)

Next ==
  \/ \E p \in Installers : InstallStep(p)
  \/ PowerLoss
  \/ \E r \in Ranges : Damage(r)
  \/ LoseOutputs

Spec == Init /\ [][Next]_vars

-----------------------------------------------------------------------------
(* Properties.                                                             *)

Step == {"idle", "metadata", "verify", "remake", "create", "save", "space", "copy", "write",
         "sync", "commit", "finish", "manifest", "promote", "clean", "unlink", "discard"}

RunState == [
  pc : Step, source : Sources \cup {None}, resume : BOOLEAN, completed : SUBSET Ranges]

TypeOK ==
  /\ lock \in {None} \cup Installers
  /\ final \in {None} \cup Directory
  /\ partial \in {None} \cup Directory
  /\ checkpoint \in {None} \cup Checkpoint
  /\ run \in [Installers -> RunState]

\* Whoever is at work holds the lock, so nobody works beside it.
LockIsHeld == \A p \in Installers : run[p].pc # "idle" <=> lock = p

\* Where an installer has settled which ranges it need not download, and where
\* it copies the others.
Copying == {"copy", "write", "sync", "commit"}
Settled == {"create", "save", "space", "finish", "manifest", "promote"} \cup Copying

\* A range that an installer will not download has its source's bytes, durably,
\* and the output files are its source's before ranges are copied into them.
SkipsWholeRanges(p) ==
  /\ run[p].pc \in Settled =>
       /\ partial # None
       /\ \A r \in run[p].completed :
            partial.bytes[r] = run[p].source /\ r \in partial.durable
  /\ run[p].pc \in {"save", "finish", "manifest", "promote"} \cup Copying =>
       partial.outputs = run[p].source
  /\ run[p].pc \in {"finish", "manifest", "promote"} => Missing(p) = {}
  /\ run[p].pc = "promote" => partial.manifest = run[p].source

\* What an installer remembers of the checkpoint is what the file says.
KnowsTheCheckpoint(p) ==
  /\ run[p].pc = "metadata" /\ run[p].resume => checkpoint # None
  /\ (run[p].pc \in {"verify"} \cup Copying \/ (run[p].pc = "space" /\ run[p].resume)) =>
       /\ partial # None /\ checkpoint # None
       /\ checkpoint.source = run[p].source
       /\ checkpoint.completed = run[p].completed

\* The range being copied is whole before it is synced, and durable before it
\* is recorded.
CopiesInOrder(p) == \A r \in Ranges : IsNext(p, r) =>
  /\ run[p].pc \in {"sync", "commit"} => partial.bytes[r] = run[p].source
  /\ run[p].pc = "commit" => r \in partial.durable

\* Where an installer that has downloaded the metadata has not yet used them.
WithMetadata == {"verify", "space", "create", "save", "finish"} \cup Copying

\* An installer has its source's metadata until it copies config.json, unless it
\* had to remove the directory, which a first installation never does; so a first
\* installation has its config.json.
HasItsMetadata(p) ==
  /\ run[p].pc = "metadata" /\ ~run[p].resume => partial = None
  /\ run[p].pc \in {"verify", "remake"} => run[p].resume
  /\ run[p].pc \in WithMetadata =>
       /\ partial.metadata \in {run[p].source, None}
       /\ ~run[p].resume => partial.metadata = run[p].source
  /\ run[p].pc = "create" \/ (run[p].pc = "space" /\ ~run[p].resume) => partial.config = None
  /\ run[p].pc \in {"manifest", "promote"} /\ ~run[p].resume => partial.config = run[p].source

Agrees(p) ==
  /\ run[p].pc \notin {"idle", "discard"} => run[p].source \in Sources
  /\ run[p].pc \in {"remake", "create"} => run[p].completed = {}
  /\ run[p].pc = "space" /\ ~run[p].resume => run[p].completed = {}
  /\ run[p].pc = "space" /\ run[p].resume => partial.outputs = run[p].source
  /\ SkipsWholeRanges(p)
  /\ KnowsTheCheckpoint(p)
  /\ CopiesInOrder(p)
  /\ HasItsMetadata(p)

\* A model in the final directory is one source's, every byte of its ranges and
\* every small file that it has, whatever was cancelled, killed, damaged, resumed
\* or lost on the way, and for another source too.  It may lack small files: a
\* power loss takes what nothing has synced, and a resumed installation that had to
\* remove its directory skips config.json; a first one has it (HasItsMetadata).
FinalIsOfOneSource ==
  final = None \/ \E s \in Sources :
    /\ final.outputs = s
    /\ \A r \in Ranges : final.bytes[r] = s
    /\ final.config \in {s, None}
    /\ final.manifest \in {s, None}

\* An installed model is only ever replaced by another in one step (renameSwap):
\* no failure, cancellation or crash in the middle leaves none.  A power loss
\* may take the manifest of one just promoted, as nothing syncs it.
InstalledModelSurvives == [][
  final # None /\ final.manifest # None =>
    /\ final' # None
    /\ final'.manifest = None => ~final.sealed]_vars

\* A range in the checkpoint whose bytes are in the output files survives a
\* power loss: copyBatch syncs them before it records the range.
RecordedAreDurable ==
  checkpoint # None /\ partial # None =>
    \A r \in checkpoint.completed :
      partial.bytes[r] = checkpoint.source => r \in partial.durable

FinalIsDurable == final # None => final.durable = Ranges

\* A saved download has no config.json but its own.
ConfigMatches ==
  partial # None /\ partial.outputs # None => partial.config \in {partial.outputs, None}

\* Installers' memory and the files agree at every step, for installers that
\* hold the lock one at a time: what run checked, loaded or recorded is still
\* so when it acts on it.
InstallInv ==
  /\ TypeOK
  /\ LockIsHeld
  /\ FinalIsOfOneSource
  /\ FinalIsDurable
  /\ RecordedAreDurable
  /\ ConfigMatches
  /\ \A p \in Installers : Agrees(p)

\* "Resume ... downloads only missing or damaged ranges" (SYSTEM_DESIGN.md:76):
\* a recorded range with its bytes in place stays recorded while the partial
\* directory and the checkpoint last, and is never downloaded again.
Reusable(r) ==
  /\ partial # None /\ checkpoint # None
  /\ partial.outputs = checkpoint.source
  /\ r \in checkpoint.completed
  /\ partial.bytes[r] = checkpoint.source

ResumeReusesWork == [][\A r \in Ranges : Reusable(r) =>
  /\ checkpoint' = None \/ r \in checkpoint'.completed
  /\ \A p \in Installers : ~CopyRange(p, r)]_vars

\* "Cancellation pauses the transaction instead of deleting it"
\* (SYSTEM_DESIGN.md:76): a cancelled installation leaves either nothing or
\* both halves of a saved download, with everything recorded in it.
CancellationPauses == [][\A p \in Installers : Cancel(p) =>
  /\ Together'
  /\ checkpoint' = checkpoint
  /\ checkpoint # None => partial' = partial]_vars

\* "A cancelled or interrupted download can be continued with --resume"
\* (Command/main.swift:13): when nobody is at work, there is either nothing to
\* continue or both halves of what run needs to continue it.
InterruptedInstallsResume == lock = None => Together
=============================================================================
