-------------------------- MODULE RangeDownloadProofs --------------------------
(***************************************************************************)
(* The installation and its downloads.  InstallInv is inductive for any    *)
(* installers, sources and ranges, and what it says of the installed model *)
(* follows.  For any number of attempts and parts, an installation with    *)
(* its downloads is still one of InstallTransaction, it copies whole       *)
(* ranges only, and its cancellation reaches the transfer.                 *)
(***************************************************************************)
EXTENDS RangeDownload, TLAPS

-----------------------------------------------------------------------------
(* InstallTransaction.                                                     *)

FilesTypeOK ==
  /\ final \in {None} \cup Directory
  /\ partial \in {None} \cup Directory
  /\ checkpoint \in {None} \cup Checkpoint

FilesInv ==
  FilesTypeOK /\ FinalIsOfOneSource /\ FinalIsDurable /\ RecordedAreDurable /\ ConfigMatches

LEMMA NothingIsNoRecord == None \notin Directory /\ None \notin Checkpoint
BY NoRecordAssumption DEF Directory, Checkpoint

LEMMA EmptyIsADirectory ==
  /\ EmptyDirectory \in Directory
  /\ EmptyDirectory.durable = Ranges
  /\ EmptyDirectory.outputs = None
  /\ EmptyDirectory.metadata = None /\ EmptyDirectory.config = None
  /\ \A r \in Ranges : EmptyDirectory.bytes[r] = Blank
<1>1. [r \in Ranges |-> Blank] \in [Ranges -> Sources \cup {Blank}]
  OBVIOUS
<1> QED BY <1>1 DEF EmptyDirectory, Directory

LEMMA NextIsUnique ==
  ASSUME NEW p, NEW r \in Ranges, NEW q \in Ranges, IsNext(p, r), IsNext(p, q)
  PROVE  q = r
BY RangesAssumption DEF IsNext

\* A directory after a range's bytes are written or damaged.
LEMMA ChangedBytes ==
  ASSUME NEW d \in Directory, NEW r \in Ranges, NEW b \in Sources \cup {Blank}
  PROVE  LET new == [d EXCEPT !.bytes[r] = b] IN
         /\ new \in Directory
         /\ new.bytes[r] = b
         /\ \A q \in Ranges : q # r => new.bytes[q] = d.bytes[q]
         /\ new.durable = d.durable
         /\ new.outputs = d.outputs
         /\ new.manifest = d.manifest
         /\ new.metadata = d.metadata /\ new.config = d.config
BY DEF Directory

\* Only the installer that holds the lock moves, so only its own agreement with
\* the files has to be shown again.
LEMMA StepOf ==
  ASSUME InstallInv, NEW p \in Installers, lock \in {None, p},
         run' \in [Installers -> RunState],
         \A q \in Installers : q # p => run'[q] = run[q],
         lock' = IF run'[p].pc = "idle" THEN None ELSE p,
         Agrees(p)', FilesInv'
  PROVE  InstallInv'
<1>1. \A q \in Installers : q # p => run[q].pc = "idle"
  BY NoneAssumption DEF InstallInv, LockIsHeld
<1>2. LockIsHeld'
  BY <1>1, NoneAssumption DEF LockIsHeld
<1>3. ASSUME NEW q \in Installers, q # p PROVE Agrees(q)'
  <2>1. run'[q].pc = "idle"
    BY <1>1, <1>3
  <2> QED BY <2>1 DEF Agrees, SkipsWholeRanges, KnowsTheCheckpoint, CopiesInOrder,
                      HasItsMetadata, WithMetadata, Settled, Copying
<1>4. TypeOK'
  BY DEF TypeOK, FilesInv, FilesTypeOK
<1> QED BY <1>2, <1>3, <1>4 DEF InstallInv, FilesInv

LEMMA Has ==
  ASSUME InstallInv, NEW p \in Installers
  PROVE  /\ run \in [Installers -> RunState] /\ run[p] \in RunState
         /\ FilesInv /\ Agrees(p)
         /\ run[p].pc # "idle" => lock = p
BY DEF InstallInv, TypeOK, LockIsHeld, FilesInv, FilesTypeOK

\* Go changes the place and nothing else.
LEMMA GoesOn ==
  ASSUME InstallInv, NEW p \in Installers, NEW pc \in Step, Go(p, pc)
  PROVE  /\ run' \in [Installers -> RunState]
         /\ \A q \in Installers : q # p => run'[q] = run[q]
         /\ run'[p] = [run[p] EXCEPT !.pc = pc]
         /\ run'[p].pc = pc
         /\ run'[p].source = run[p].source
         /\ run'[p].resume = run[p].resume
         /\ run'[p].completed = run[p].completed
<1>1. run \in [Installers -> RunState] /\ run[p] \in RunState
  BY Has
<1>2. [run[p] EXCEPT !.pc = pc] \in RunState
  BY <1>1 DEF RunState
<1> QED BY <1>1, <1>2 DEF Go, RunState

LEMMA GoesOnWith ==
  ASSUME InstallInv, NEW p \in Installers, NEW pc \in Step, NEW done \in SUBSET Ranges,
         GoWith(p, pc, done)
  PROVE  /\ run' \in [Installers -> RunState]
         /\ \A q \in Installers : q # p => run'[q] = run[q]
         /\ run'[p].pc = pc
         /\ run'[p].source = run[p].source
         /\ run'[p].resume = run[p].resume
         /\ run'[p].completed = done
<1>1. /\ run' \in [Installers -> RunState]
      /\ run'[p] = [run[p] EXCEPT !.pc = pc, !.completed = done]
      /\ \A q \in Installers : q # p => run'[q] = run[q]
  BY Has DEF GoWith, RunState
<1> QED BY <1>1, Has DEF RunState

LEMMA ReturnOf ==
  ASSUME InstallInv, NEW p \in Installers, run[p].pc # "idle", Return(p), FilesInv'
  PROVE  InstallInv'
<1>1. Idle \in RunState /\ Idle.pc = "idle"
  BY DEF Idle, RunState, Step
<1>2. /\ run' \in [Installers -> RunState] /\ run'[p] = Idle
      /\ \A q \in Installers : q # p => run'[q] = run[q]
  BY <1>1, Has DEF Return
<1>3. Agrees(p)'
  BY <1>1, <1>2 DEF Agrees, SkipsWholeRanges, KnowsTheCheckpoint, CopiesInOrder,
                    HasItsMetadata, WithMetadata, Settled, Copying
<1> QED BY <1>1, <1>2, <1>3, Has, StepOf DEF Return

LEMMA InitInv == Init => InstallInv
<1> SUFFICES ASSUME Init PROVE InstallInv
  OBVIOUS
<1>1. \A s \in Sources : [r \in Ranges |-> s] \in [Ranges -> Sources \cup {Blank}]
  OBVIOUS
<1>2. \A s \in Sources : InstalledDirectory(s) \in Directory
  BY <1>1 DEF InstalledDirectory, Directory
<1>3. Idle \in RunState /\ Idle.pc = "idle"
  BY DEF Idle, RunState, Step
<1>4. TypeOK
  BY <1>2, <1>3 DEF Init, TypeOK
<1>5. LockIsHeld
  BY <1>3, NoneAssumption DEF Init, LockIsHeld
<1>6. FinalIsOfOneSource /\ FinalIsDurable
  BY DEF Init, FinalIsOfOneSource, FinalIsDurable, InstalledDirectory
<1>7. RecordedAreDurable
  BY DEF Init, RecordedAreDurable
<1>9. ConfigMatches
  BY DEF Init, ConfigMatches
<1>8. ASSUME NEW p \in Installers PROVE Agrees(p)
  <2>1. run[p].pc = "idle"
    BY <1>3 DEF Init
  <2> QED BY <2>1 DEF Agrees, SkipsWholeRanges, KnowsTheCheckpoint, CopiesInOrder,
                      HasItsMetadata, WithMetadata, Settled, Copying
<1> QED BY <1>4, <1>5, <1>6, <1>7, <1>8, <1>9 DEF InstallInv

-----------------------------------------------------------------------------
(* One lemma per step of an installation.                                  *)

LEMMA BeginInv ==
  ASSUME InstallInv, NEW p \in Installers, NEW s \in Sources, NEW overwrite \in BOOLEAN,
         Begin(p, s, overwrite)
  PROVE  InstallInv'
<1> DEFINE new == [pc |-> "metadata", source |-> s, resume |-> checkpoint # None,
                   completed |-> {}]
<1>1. new \in RunState
  BY DEF RunState, Step
<1>2. /\ run' \in [Installers -> RunState] /\ run'[p] = new
      /\ \A q \in Installers : q # p => run'[q] = run[q]
  BY <1>1, Has DEF Begin
<1>3. Agrees(p)'
  BY <1>2 DEF Begin, files, Together, Agrees, SkipsWholeRanges, KnowsTheCheckpoint, CopiesInOrder,
              HasItsMetadata, WithMetadata, Settled, Copying
<1>4. FilesInv'
  BY Has DEF Begin, files, FilesInv, FilesTypeOK, FinalIsOfOneSource, FinalIsDurable,
             RecordedAreDurable, ConfigMatches
<1> QED BY <1>2, <1>3, <1>4, StepOf DEF Begin

LEMMA LoadMetadataInv ==
  ASSUME InstallInv, NEW p \in Installers, LoadMetadata(p)
  PROVE  InstallInv'
<1>1. run[p].pc = "metadata" /\ run[p].source \in Sources /\ lock = p
      /\ (run[p].resume => checkpoint \in Checkpoint /\ checkpoint.source = run[p].source)
  BY Has DEF LoadMetadata, Agrees, KnowsTheCheckpoint, FilesInv, FilesTypeOK
<1> DEFINE pc == IF run[p].resume THEN "verify" ELSE "space"
           done == IF run[p].resume THEN checkpoint.completed ELSE {}
<1>2. pc \in Step /\ done \in SUBSET Ranges /\ pc # "idle"
  BY <1>1 DEF Step, Checkpoint
<1>3. GoWith(p, pc, done)
  BY DEF LoadMetadata
<1> HIDE DEF pc, done
<1>5. /\ run' \in [Installers -> RunState]
      /\ \A q \in Installers : q # p => run'[q] = run[q]
      /\ run'[p].pc = pc /\ run'[p].completed = done
      /\ run'[p].source = run[p].source /\ run'[p].resume = run[p].resume
  BY <1>2, <1>3, GoesOnWith
<1> DEFINE old == IF partial = None THEN EmptyDirectory ELSE partial
<1>4. /\ old \in Directory
      /\ partial = None => old = EmptyDirectory
      /\ partial # None => old = partial
      /\ ~run[p].resume => old = EmptyDirectory
  BY <1>1, Has, EmptyIsADirectory DEF FilesInv, FilesTypeOK, Agrees, HasItsMetadata
<1>10. partial' = [old EXCEPT !.metadata = run[p].source]
  BY DEF LoadMetadata
<1> HIDE DEF old
<1>11. /\ partial' \in Directory /\ partial'.metadata = run[p].source
       /\ partial'.outputs = old.outputs /\ partial'.config = old.config
       /\ partial'.bytes = old.bytes /\ partial'.durable = old.durable
  <2>1. ASSUME NEW d \in Directory, NEW s \in Sources
        PROVE  LET e == [d EXCEPT !.metadata = s]
               IN  /\ e \in Directory /\ e.metadata = s
                   /\ e.outputs = d.outputs /\ e.config = d.config
                   /\ e.bytes = d.bytes /\ e.durable = d.durable
    BY DEF Directory
  <2>2. old \in Directory /\ run[p].source \in Sources
    BY <1>1, <1>4
  <2> QED BY ONLY <1>10, <2>1, <2>2
<1>6. FilesTypeOK' /\ partial' # None
  BY <1>11, Has, NothingIsNoRecord DEF LoadMetadata, FilesInv, FilesTypeOK
<1>7. FinalIsOfOneSource' /\ FinalIsDurable'
  BY Has DEF LoadMetadata, FilesInv, FinalIsOfOneSource, FinalIsDurable
<1>8. RecordedAreDurable'
  <2>1. CASE partial = None
    BY <2>1, <1>4, <1>11, Has, EmptyIsADirectory DEF LoadMetadata, RecordedAreDurable,
       FilesInv, FilesTypeOK, Checkpoint
  <2>2. CASE partial # None
    BY <2>2, <1>4, <1>11, Has DEF LoadMetadata, RecordedAreDurable, FilesInv
  <2> QED BY <2>1, <2>2
<1>12. ConfigMatches'
  <2>1. partial' # None => (partial'.outputs # None => partial'.config \in {partial'.outputs, None})
    <3>1. CASE partial = None
      <4>1. old = EmptyDirectory
        BY <3>1, <1>4
      <4>2. partial'.outputs = None
        BY <4>1, <1>11, EmptyIsADirectory
      <4> QED BY <4>2
    <3>2. CASE partial # None
      BY <3>2, <1>4, <1>11, Has DEF ConfigMatches, FilesInv
    <3> QED BY <3>1, <3>2
  <2> QED BY <2>1 DEF ConfigMatches
<1>9. Agrees(p)'
  <2>1. CASE run[p].resume
    <3>1. pc = "verify" /\ done = checkpoint.completed /\ checkpoint' = checkpoint
      BY <2>1 DEF pc, done, LoadMetadata
    <3> QED BY <2>1, <3>1, <1>1, <1>5, <1>6, <1>11, NothingIsNoRecord
            DEF Agrees, SkipsWholeRanges, KnowsTheCheckpoint, CopiesInOrder,
                HasItsMetadata, WithMetadata, Settled, Copying
  <2>2. CASE ~run[p].resume
    <3>1. pc = "space" /\ done = {}
      BY <2>2 DEF pc, done
    <3> QED BY <2>2, <3>1, <1>1, <1>4, <1>5, <1>6, <1>11, EmptyIsADirectory
            DEF Agrees, SkipsWholeRanges, KnowsTheCheckpoint, CopiesInOrder,
                HasItsMetadata, WithMetadata, Settled, Copying
  <2> QED BY <2>1, <2>2
<1> QED BY <1>1, <1>2, <1>5, <1>6, <1>7, <1>8, <1>9, <1>12, StepOf DEF FilesInv, LoadMetadata

LEMMA VerifyRangesInv ==
  ASSUME InstallInv, NEW p \in Installers, VerifyRanges(p)
  PROVE  InstallInv'
<1>1. /\ run[p].pc = "verify" /\ run[p].source \in Sources /\ lock = p
      /\ partial # None /\ partial.outputs = run[p].source
      /\ checkpoint # None /\ checkpoint.source = run[p].source
      /\ checkpoint.completed = run[p].completed
      /\ HasItsMetadata(p)
  BY Has DEF VerifyRanges, Agrees, KnowsTheCheckpoint
<1>2. Intact(p) \in SUBSET Ranges
  BY Has DEF Intact, RunState
<1>3. \A r \in Intact(p) : partial.bytes[r] = run[p].source /\ r \in partial.durable
  BY <1>1, Has DEF Intact, FilesInv, RecordedAreDurable
<1>4. "save" \in Step /\ GoWith(p, "save", Intact(p))
  BY DEF VerifyRanges, Step
<1>5. /\ run' \in [Installers -> RunState]
      /\ \A q \in Installers : q # p => run'[q] = run[q]
      /\ run'[p].pc = "save" /\ run'[p].completed = Intact(p)
      /\ run'[p].source = run[p].source /\ run'[p].resume = run[p].resume
  BY <1>2, <1>4, GoesOnWith
<1>6. UNCHANGED <<lock, files>>
  BY DEF VerifyRanges
<1>7. FilesInv'
  BY <1>6, Has DEF files, FilesInv, FilesTypeOK, FinalIsOfOneSource, FinalIsDurable,
     RecordedAreDurable, ConfigMatches
<1>8. Agrees(p)'
  BY <1>1, <1>3, <1>5, <1>6
  DEF files, Agrees, SkipsWholeRanges, KnowsTheCheckpoint, CopiesInOrder,
      HasItsMetadata, WithMetadata, Settled, Copying
<1> QED BY <1>1, <1>5, <1>6, <1>7, <1>8, StepOf

LEMMA RemoveOutputsInv ==
  ASSUME InstallInv, NEW p \in Installers, RemoveOutputs(p)
  PROVE  InstallInv'
<1>1. run[p].pc = "verify" /\ run[p].source \in Sources /\ lock = p /\ run[p].resume
  BY Has DEF RemoveOutputs, Agrees, HasItsMetadata
<1>2. "remake" \in Step /\ {} \in SUBSET Ranges /\ GoWith(p, "remake", {})
  BY DEF RemoveOutputs, Step
<1>3. /\ run' \in [Installers -> RunState]
      /\ \A q \in Installers : q # p => run'[q] = run[q]
      /\ run'[p].pc = "remake" /\ run'[p].completed = {}
      /\ run'[p].source = run[p].source /\ run'[p].resume = run[p].resume
  BY <1>2, GoesOnWith
<1>4. FilesInv'
  BY Has DEF RemoveOutputs, FilesInv, FilesTypeOK, FinalIsOfOneSource, FinalIsDurable,
             RecordedAreDurable, ConfigMatches
<1>5. Agrees(p)'
  BY <1>1, <1>3
  DEF Agrees, SkipsWholeRanges, KnowsTheCheckpoint, CopiesInOrder,
      HasItsMetadata, WithMetadata, Settled, Copying
<1> QED BY <1>1, <1>3, <1>4, <1>5, StepOf DEF RemoveOutputs

LEMMA RemakeDirectoryInv ==
  ASSUME InstallInv, NEW p \in Installers, RemakeDirectory(p)
  PROVE  InstallInv'
<1>1. /\ run[p].pc = "remake" /\ run[p].source \in Sources /\ lock = p
      /\ run[p].completed = {} /\ run[p].resume
  BY Has DEF RemakeDirectory, Agrees, HasItsMetadata
<1>2. "create" \in Step /\ Go(p, "create")
  BY DEF Step, RemakeDirectory
<1>3. FilesTypeOK' /\ partial' # None
  BY Has, EmptyIsADirectory, NothingIsNoRecord DEF RemakeDirectory, FilesInv, FilesTypeOK
<1>4. FinalIsOfOneSource' /\ FinalIsDurable'
  BY Has DEF RemakeDirectory, FilesInv, FinalIsOfOneSource, FinalIsDurable
<1>5. RecordedAreDurable'
  BY Has, EmptyIsADirectory DEF RemakeDirectory, RecordedAreDurable, FilesInv, FilesTypeOK,
     Checkpoint
<1>7. ConfigMatches' /\ partial'.metadata = None /\ partial'.config = None
  BY EmptyIsADirectory DEF RemakeDirectory, ConfigMatches
<1>6. Agrees(p)'
  BY <1>1, <1>2, <1>3, <1>7, GoesOn
  DEF Agrees, SkipsWholeRanges, KnowsTheCheckpoint, CopiesInOrder,
      HasItsMetadata, WithMetadata, Settled, Copying
<1> QED BY <1>1, <1>2, <1>3, <1>4, <1>5, <1>6, <1>7, GoesOn, StepOf DEF FilesInv, RemakeDirectory

LEMMA CreateOutputFilesInv ==
  ASSUME InstallInv, NEW p \in Installers, CreateOutputFiles(p)
  PROVE  InstallInv'
<1>1. /\ run[p].pc = "create" /\ run[p].source \in Sources /\ lock = p
      /\ run[p].completed = {} /\ partial \in Directory
      /\ partial.metadata \in {run[p].source, None} /\ partial.config = None
      /\ ~run[p].resume => partial.metadata = run[p].source
  BY Has DEF CreateOutputFiles, Agrees, SkipsWholeRanges, Settled, HasItsMetadata,
     WithMetadata, FilesInv, FilesTypeOK
<1>2. "save" \in Step /\ Go(p, "save")
  BY DEF Step, CreateOutputFiles
<1>3. /\ partial' \in Directory /\ partial'.outputs = run[p].source
      /\ partial'.durable = Ranges
      /\ partial'.metadata = partial.metadata /\ partial'.config = None
  <2>1. [r \in Ranges |-> Blank] \in [Ranges -> Sources \cup {Blank}]
    OBVIOUS
  <2> QED BY <1>1, <2>1 DEF CreateOutputFiles, Directory
<1>4. FilesTypeOK' /\ partial' # None
  BY <1>3, Has, NothingIsNoRecord DEF CreateOutputFiles, FilesInv, FilesTypeOK
<1>5. FinalIsOfOneSource' /\ FinalIsDurable'
  BY Has DEF CreateOutputFiles, FilesInv, FinalIsOfOneSource, FinalIsDurable
<1>6. RecordedAreDurable'
  BY <1>3, Has DEF CreateOutputFiles, RecordedAreDurable, FilesInv, FilesTypeOK, Checkpoint
<1>7. Agrees(p)'
  BY <1>1, <1>2, <1>3, <1>4, GoesOn
  DEF Agrees, SkipsWholeRanges, KnowsTheCheckpoint, CopiesInOrder,
      HasItsMetadata, WithMetadata, Settled, Copying
<1>8. ConfigMatches'
  BY <1>3 DEF ConfigMatches
<1> QED BY <1>1, <1>2, <1>4, <1>5, <1>6, <1>7, <1>8, GoesOn, StepOf
        DEF FilesInv, CreateOutputFiles

LEMMA SaveCheckpointInv ==
  ASSUME InstallInv, NEW p \in Installers, SaveCheckpoint(p)
  PROVE  InstallInv'
<1>1. /\ run[p].pc = "save" /\ run[p].source \in Sources /\ lock = p
      /\ partial # None /\ partial.outputs = run[p].source
      /\ \A r \in run[p].completed :
           partial.bytes[r] = run[p].source /\ r \in partial.durable
      /\ partial.metadata \in {run[p].source, None}
      /\ ~run[p].resume => partial.metadata = run[p].source
  BY Has DEF SaveCheckpoint, Agrees, SkipsWholeRanges, Settled, HasItsMetadata, WithMetadata
<1> DEFINE pc == IF run[p].resume THEN "space" ELSE "copy"
<1>2. pc \in Step /\ Go(p, pc)
  BY DEF Step, SaveCheckpoint
<1>3. /\ run[p].resume => pc = "space"
      /\ ~run[p].resume => pc = "copy"
      /\ pc \in {"space", "copy"}
  OBVIOUS
<1> HIDE DEF pc
<1>4. /\ checkpoint' \in Checkpoint /\ checkpoint'.source = run[p].source
      /\ checkpoint'.completed = run[p].completed
  BY <1>1, Has DEF SaveCheckpoint, Checkpoint, RunState
<1>5. FilesTypeOK' /\ checkpoint' # None
  BY <1>4, Has, NothingIsNoRecord DEF SaveCheckpoint, FilesInv, FilesTypeOK
<1>6. FinalIsOfOneSource' /\ FinalIsDurable'
  BY Has DEF SaveCheckpoint, FilesInv, FinalIsOfOneSource, FinalIsDurable
<1>7. RecordedAreDurable'
  BY <1>1, <1>4 DEF SaveCheckpoint, RecordedAreDurable
<1>8. Agrees(p)'
  BY <1>1, <1>2, <1>3, <1>4, <1>5, GoesOn
  DEF SaveCheckpoint, Agrees, SkipsWholeRanges, KnowsTheCheckpoint, CopiesInOrder,
      HasItsMetadata, WithMetadata, Settled, Copying
<1>9. run'[p].pc # "idle"
  BY <1>2, <1>3, GoesOn
<1>10. ConfigMatches'
  BY Has DEF SaveCheckpoint, ConfigMatches, FilesInv
<1> QED BY <1>1, <1>2, <1>5, <1>6, <1>7, <1>8, <1>9, <1>10, GoesOn, StepOf
        DEF FilesInv, SaveCheckpoint

LEMMA CheckSpaceInv ==
  ASSUME InstallInv, NEW p \in Installers, CheckSpace(p)
  PROVE  InstallInv'
<1>1. /\ run[p].pc = "space" /\ run[p].source \in Sources /\ lock = p
      /\ ~run[p].resume => run[p].completed = {}
      /\ run[p].resume => partial.outputs = run[p].source
      /\ SkipsWholeRanges(p) /\ KnowsTheCheckpoint(p) /\ HasItsMetadata(p)
  BY Has DEF CheckSpace, Agrees
<1> DEFINE pc == IF run[p].resume THEN "copy" ELSE "create"
<1>2. pc \in Step /\ Go(p, pc)
  BY DEF Step, CheckSpace
<1>3. /\ run[p].resume => pc = "copy"
      /\ ~run[p].resume => pc = "create"
      /\ pc \in {"copy", "create"}
  OBVIOUS
<1> HIDE DEF pc
<1>4. UNCHANGED <<lock, files>>
  BY DEF CheckSpace
<1>5. FilesInv'
  BY <1>4, Has DEF files, FilesInv, FilesTypeOK, FinalIsOfOneSource, FinalIsDurable,
     RecordedAreDurable, ConfigMatches
<1>6. /\ run'[p].source = run[p].source /\ run'[p].completed = run[p].completed
      /\ run'[p].resume = run[p].resume /\ run'[p].pc = pc
      /\ partial' = partial /\ checkpoint' = checkpoint
  BY <1>2, <1>4, GoesOn DEF files
<1>7. partial # None /\ \A r \in run[p].completed :
        partial.bytes[r] = run[p].source /\ r \in partial.durable
  BY <1>1 DEF SkipsWholeRanges, Settled
<1>8. Agrees(p)'
  <2>1. CASE run[p].resume
    <3>1. /\ pc = "copy" /\ checkpoint # None /\ checkpoint.source = run[p].source
          /\ checkpoint.completed = run[p].completed /\ partial.outputs = run[p].source
      BY <1>1, <1>3, <2>1 DEF KnowsTheCheckpoint
    <3> QED BY <1>1, <1>6, <1>7, <2>1, <3>1
            DEF Agrees, SkipsWholeRanges, KnowsTheCheckpoint, CopiesInOrder,
                HasItsMetadata, WithMetadata, Settled, Copying
  <2>2. CASE ~run[p].resume
    <3>1. pc = "create" /\ run[p].completed = {}
      BY <1>1, <1>3, <2>2
    <3> QED BY <1>1, <1>6, <1>7, <2>2, <3>1
            DEF Agrees, SkipsWholeRanges, KnowsTheCheckpoint, CopiesInOrder,
                HasItsMetadata, WithMetadata, Settled, Copying
  <2> QED BY <2>1, <2>2
<1>9. run'[p].pc # "idle"
  BY <1>2, <1>3, GoesOn
<1> QED BY <1>1, <1>2, <1>4, <1>5, <1>8, <1>9, GoesOn, StepOf

LEMMA DryRunInv ==
  ASSUME InstallInv, NEW p \in Installers, DryRun(p)
  PROVE  InstallInv'
<1>1. FilesInv'
  BY Has DEF DryRun, FilesInv, FilesTypeOK, FinalIsOfOneSource, FinalIsDurable,
     RecordedAreDurable, ConfigMatches
<1> QED BY <1>1, ReturnOf DEF DryRun

\* What holds while an installer copies its ranges.
LEMMA WhileCopying ==
  ASSUME InstallInv, NEW p \in Installers, run[p].pc \in Copying
  PROVE  /\ lock = p /\ run[p].source \in Sources /\ run[p].source # Blank
         /\ partial \in Directory /\ partial.outputs = run[p].source
         /\ checkpoint \in Checkpoint /\ checkpoint.source = run[p].source
         /\ checkpoint.completed = run[p].completed
         /\ \A r \in run[p].completed :
              partial.bytes[r] = run[p].source /\ r \in partial.durable
<1>1. run[p].pc \notin {"idle", "discard"} /\ run[p].pc \in Settled
  BY DEF Copying, Settled
<1>2. lock = p /\ run[p].source \in Sources
  BY <1>1, Has DEF Agrees
<1>3. /\ partial # None /\ partial.outputs = run[p].source
      /\ \A r \in run[p].completed :
           partial.bytes[r] = run[p].source /\ r \in partial.durable
  BY <1>1, Has DEF Agrees, SkipsWholeRanges
<1>4. /\ checkpoint # None /\ checkpoint.source = run[p].source
      /\ checkpoint.completed = run[p].completed
  BY Has DEF Agrees, KnowsTheCheckpoint
<1> QED BY <1>2, <1>3, <1>4, Has, BlankAssumption DEF FilesInv, FilesTypeOK

\* A step that touches only a range that is not recorded disturbs nothing that is.
LEMMA CopyStep ==
  ASSUME InstallInv, NEW p \in Installers, run[p].pc \in Copying,
         NEW r \in Ranges, IsNext(p, r),
         NEW pc \in Copying, Go(p, pc),
         UNCHANGED <<lock, final, checkpoint>>,
         partial' \in Directory, partial'.outputs = partial.outputs,
         partial'.metadata = partial.metadata, partial'.config = partial.config,
         \A q \in Ranges : q # r =>
           partial'.bytes[q] = partial.bytes[q]
           /\ (q \in partial'.durable <=> q \in partial.durable),
         pc \in {"sync", "commit"} => partial'.bytes[r] = run[p].source,
         pc = "commit" => r \in partial'.durable
  PROVE  InstallInv'
<1>1. r \notin run[p].completed /\ run[p].completed \subseteq Ranges
  BY Has DEF IsNext, Missing, RunState
<1>2. pc \in Step /\ pc \notin {"idle", "discard", "remake", "create", "space", "metadata"}
  BY DEF Step, Copying
<1>3. /\ run' \in [Installers -> RunState]
      /\ \A q \in Installers : q # p => run'[q] = run[q]
      /\ run'[p].pc = pc /\ run'[p].source = run[p].source
      /\ run'[p].resume = run[p].resume /\ run'[p].completed = run[p].completed
  BY <1>2, GoesOn
<1>4. partial' # None
  BY NothingIsNoRecord
<1>5. \A q \in run[p].completed :
        partial'.bytes[q] = run[p].source /\ q \in partial'.durable
  BY <1>1, WhileCopying
<1>6. FilesInv'
  <2>1. FilesTypeOK'
    BY Has DEF FilesInv, FilesTypeOK
  <2>2. FinalIsOfOneSource' /\ FinalIsDurable'
    BY Has DEF FilesInv, FinalIsOfOneSource, FinalIsDurable
  <2>3. RecordedAreDurable'
    BY <1>5, WhileCopying DEF RecordedAreDurable
  <2>4. ConfigMatches'
    BY WhileCopying, Has, NothingIsNoRecord DEF ConfigMatches, FilesInv
  <2> QED BY <2>1, <2>2, <2>3, <2>4 DEF FilesInv
<1>7. Agrees(p)'
  <2>1. SkipsWholeRanges(p)'
    BY <1>2, <1>3, <1>4, <1>5, WhileCopying DEF SkipsWholeRanges, Copying
  <2>2. KnowsTheCheckpoint(p)'
    BY <1>2, <1>3, <1>4, WhileCopying, NothingIsNoRecord DEF KnowsTheCheckpoint
  <2>3. CopiesInOrder(p)'
    <3>1. ASSUME NEW q \in Ranges, IsNext(p, q)' PROVE q = r
      <4>1. IsNext(p, q)
        BY <1>3, <3>1 DEF IsNext, Missing
      <4> QED BY <4>1, NextIsUnique
    <3> QED BY <1>3, <3>1 DEF CopiesInOrder
  <2>4. HasItsMetadata(p)'
    <3>1. pc \in WithMetadata /\ run[p].pc \in WithMetadata
          /\ pc \notin {"verify", "remake", "manifest", "promote"}
      BY DEF WithMetadata, Copying
    <3> QED BY <1>2, <1>3, <3>1, Has DEF Agrees, HasItsMetadata
  <2> QED BY <1>2, <1>3, <2>1, <2>2, <2>3, <2>4, WhileCopying DEF Agrees
<1> QED BY <1>2, <1>3, <1>6, <1>7, WhileCopying, StepOf

LEMMA CopyRangeInv ==
  ASSUME InstallInv, NEW p \in Installers, NEW r \in Ranges, CopyRange(p, r)
  PROVE  InstallInv'
<1>1. /\ run[p].pc \in Copying /\ "write" \in Copying /\ Go(p, "write")
      /\ IsNext(p, r) /\ UNCHANGED <<lock, final, checkpoint>>
  BY DEF CopyRange, Copying
<1>2. partial \in Directory
  BY <1>1, WhileCopying
<1>3. /\ Blank \in Sources \cup {Blank} /\ partial.durable \ {r} \in SUBSET Ranges
      /\ partial' = [partial EXCEPT !.bytes[r] = Blank, !.durable = partial.durable \ {r}]
  BY <1>2 DEF CopyRange, Directory
<1>4. /\ partial' \in Directory /\ partial'.outputs = partial.outputs
      /\ partial'.metadata = partial.metadata /\ partial'.config = partial.config
      /\ \A q \in Ranges : q # r => partial'.bytes[q] = partial.bytes[q]
      /\ partial'.durable = partial.durable \ {r}
  BY <1>2, <1>3 DEF Directory
<1> QED BY <1>1, <1>4, CopyStep

LEMMA WriteRangeInv ==
  ASSUME InstallInv, NEW p \in Installers, NEW r \in Ranges, WriteRange(p, r)
  PROVE  InstallInv'
<1>1. /\ run[p].pc \in Copying /\ "sync" \in Copying /\ Go(p, "sync")
      /\ IsNext(p, r) /\ UNCHANGED <<lock, final, checkpoint>>
  BY DEF WriteRange, Copying
<1>2. partial \in Directory /\ run[p].source \in Sources
  BY <1>1, WhileCopying
<1>3. /\ partial' \in Directory /\ partial'.outputs = partial.outputs
      /\ partial'.metadata = partial.metadata /\ partial'.config = partial.config
      /\ \A q \in Ranges : q # r => partial'.bytes[q] = partial.bytes[q]
      /\ partial'.bytes[r] = run[p].source
      /\ partial'.durable = partial.durable
  BY <1>2, ChangedBytes DEF WriteRange
<1> QED BY <1>1, <1>3, CopyStep

LEMMA SyncRangeInv ==
  ASSUME InstallInv, NEW p \in Installers, NEW r \in Ranges, SyncRange(p, r)
  PROVE  InstallInv'
<1>1. /\ run[p].pc \in Copying /\ "commit" \in Copying /\ Go(p, "commit")
      /\ IsNext(p, r) /\ UNCHANGED <<lock, final, checkpoint>>
      /\ run[p].pc = "sync"
  BY DEF SyncRange, Copying
<1>2. partial \in Directory /\ partial.bytes[r] = run[p].source
  BY <1>1, WhileCopying, Has DEF Agrees, CopiesInOrder
<1>3. /\ partial' \in Directory /\ partial'.outputs = partial.outputs
      /\ partial'.metadata = partial.metadata /\ partial'.config = partial.config
      /\ partial'.bytes = partial.bytes
      /\ partial'.durable = partial.durable \cup {r}
  BY <1>2 DEF SyncRange, Directory
<1> QED BY <1>1, <1>2, <1>3, CopyStep

LEMMA CommitRangeInv ==
  ASSUME InstallInv, NEW p \in Installers, NEW r \in Ranges, CommitRange(p, r)
  PROVE  InstallInv'
<1>1. /\ run[p].pc = "commit" /\ run[p].pc \in Copying /\ "copy" \in Step
      /\ IsNext(p, r) /\ UNCHANGED <<lock, final, partial>>
  BY DEF CommitRange, Copying, Step
<1>2. partial.bytes[r] = run[p].source /\ r \in partial.durable
  BY <1>1, Has DEF Agrees, CopiesInOrder
<1> DEFINE done == run[p].completed \cup {r}
<1>3. done \in SUBSET Ranges /\ GoWith(p, "copy", done)
  BY Has DEF RunState, CommitRange
<1>4. /\ checkpoint' \in Checkpoint /\ checkpoint'.source = run[p].source
      /\ checkpoint'.completed = done
  BY <1>1, <1>3, WhileCopying DEF CommitRange, Checkpoint
<1>5. \A q \in done : partial'.bytes[q] = run[p].source /\ q \in partial'.durable
  BY <1>1, <1>2, WhileCopying
<1> HIDE DEF done
<1>6. /\ run' \in [Installers -> RunState]
      /\ \A q \in Installers : q # p => run'[q] = run[q]
      /\ run'[p].pc = "copy" /\ run'[p].source = run[p].source
      /\ run'[p].resume = run[p].resume /\ run'[p].completed = done
  BY <1>1, <1>3, GoesOnWith
<1>7. partial' # None /\ checkpoint' # None
  BY <1>1, <1>4, WhileCopying, NothingIsNoRecord
<1>8. FilesInv'
  <2>1. FilesTypeOK'
    BY <1>1, <1>4, Has DEF FilesInv, FilesTypeOK
  <2>2. FinalIsOfOneSource' /\ FinalIsDurable'
    BY <1>1, Has DEF FilesInv, FinalIsOfOneSource, FinalIsDurable
  <2>3. RecordedAreDurable'
    BY <1>4, <1>5 DEF RecordedAreDurable
  <2>4. ConfigMatches'
    BY <1>1, Has DEF ConfigMatches, FilesInv
  <2> QED BY <2>1, <2>2, <2>3, <2>4 DEF FilesInv
<1>10. /\ partial.metadata \in {run[p].source, None}
       /\ ~run[p].resume => partial.metadata = run[p].source
  BY <1>1, Has DEF Agrees, HasItsMetadata, WithMetadata
<1>9. Agrees(p)'
  BY <1>1, <1>4, <1>5, <1>6, <1>7, <1>10, WhileCopying
  DEF Agrees, SkipsWholeRanges, KnowsTheCheckpoint, CopiesInOrder,
      HasItsMetadata, WithMetadata, Settled, Copying
<1> QED BY <1>1, <1>6, <1>8, <1>9, WhileCopying, StepOf

LEMMA CopyEndsInv ==
  ASSUME InstallInv, NEW p \in Installers, CopyEnds(p)
  PROVE  InstallInv'
<1>1. /\ run[p].pc \in Copying /\ "finish" \in Step /\ Go(p, "finish")
      /\ Missing(p) = {} /\ UNCHANGED <<lock, files>>
  BY DEF CopyEnds, Copying, Step
<1>2. /\ run' \in [Installers -> RunState]
      /\ \A q \in Installers : q # p => run'[q] = run[q]
      /\ run'[p].pc = "finish" /\ run'[p].source = run[p].source
      /\ run'[p].resume = run[p].resume /\ run'[p].completed = run[p].completed
  BY <1>1, GoesOn
<1>3. FilesInv'
  BY <1>1, Has DEF files, FilesInv, FilesTypeOK, FinalIsOfOneSource, FinalIsDurable,
     RecordedAreDurable, ConfigMatches
<1>4. Missing(p)' = {} /\ partial' = partial /\ partial # None
  BY <1>1, <1>2, WhileCopying, NothingIsNoRecord DEF Missing, files
<1>6. /\ partial.metadata \in {run[p].source, None}
      /\ ~run[p].resume => partial.metadata = run[p].source
  BY <1>1, Has DEF Agrees, HasItsMetadata, WithMetadata
<1>5. Agrees(p)'
  BY <1>2, <1>4, <1>1, <1>6, WhileCopying
  DEF Agrees, SkipsWholeRanges, KnowsTheCheckpoint, CopiesInOrder,
      HasItsMetadata, WithMetadata, Settled, Copying
<1> QED BY <1>1, <1>2, <1>3, <1>5, WhileCopying, StepOf

\* What holds when an installer has copied every range.
LEMMA WhenCopied ==
  ASSUME InstallInv, NEW p \in Installers, run[p].pc \in {"finish", "manifest", "promote"}
  PROVE  /\ lock = p /\ run[p].source \in Sources
         /\ partial \in Directory /\ partial.outputs = run[p].source
         /\ Missing(p) = {} /\ run[p].completed = Ranges
         /\ \A r \in Ranges : partial.bytes[r] = run[p].source
         /\ partial.durable = Ranges
         /\ run[p].pc = "promote" => partial.manifest = run[p].source
         /\ partial.config \in {run[p].source, None}
<1>1. /\ lock = p /\ run[p].source \in Sources /\ SkipsWholeRanges(p)
      /\ ConfigMatches
      /\ partial \in {None} \cup Directory /\ run[p].completed \subseteq Ranges
  BY Has DEF Agrees, FilesInv, FilesTypeOK, RunState
<1>2. /\ partial # None /\ partial.outputs = run[p].source /\ Missing(p) = {}
      /\ run[p].pc = "promote" => partial.manifest = run[p].source
      /\ \A r \in run[p].completed :
           partial.bytes[r] = run[p].source /\ r \in partial.durable
  BY <1>1 DEF SkipsWholeRanges, Settled
<1>3. run[p].completed = Ranges
  BY <1>1, <1>2 DEF Missing
<1>4. partial.config \in {run[p].source, None}
  <2>1. partial.outputs # None
    BY <1>1, <1>2, NoneAssumption
  <2> QED BY <1>1, <1>2, <2>1 DEF ConfigMatches
<1> QED BY <1>1, <1>2, <1>3, <1>4 DEF Directory

\* A step that writes small files of the installer's source.
LEMMA SmallFilesInv ==
  ASSUME InstallInv, NEW p \in Installers, CopySidecars(p) \/ WriteManifest(p)
  PROVE  InstallInv'
<1> DEFINE pc == IF CopySidecars(p) THEN "manifest" ELSE "promote"
<1>1. /\ run[p].pc = IF pc = "manifest" THEN "finish" ELSE "manifest"
      /\ pc \in {"manifest", "promote"} /\ pc \in Step /\ Go(p, pc)
      /\ UNCHANGED <<lock, final, checkpoint>>
      /\ pc = "manifest" => CopySidecars(p)
      /\ pc = "promote" => WriteManifest(p)
  BY DEF CopySidecars, WriteManifest, Step
<1> HIDE DEF pc
<1>7. /\ partial \in Directory /\ partial.config \in {run[p].source, None}
      /\ run[p].pc = "finish" => partial.metadata \in {run[p].source, None}
      /\ run[p].pc = "finish" /\ ~run[p].resume => partial.metadata = run[p].source
      /\ run[p].pc = "manifest" /\ ~run[p].resume => partial.config = run[p].source
  BY <1>1, WhenCopied, Has DEF Agrees, HasItsMetadata, WithMetadata
<1>2. /\ partial' \in Directory /\ partial'.outputs = partial.outputs
      /\ partial'.bytes = partial.bytes /\ partial'.durable = partial.durable
      /\ pc = "promote" => partial'.manifest = run[p].source
      /\ partial'.config \in {run[p].source, None}
      /\ ~run[p].resume => partial'.config = run[p].source
  <2>1. CASE pc = "manifest"
    <3> DEFINE config == IF partial.metadata = None THEN partial.config ELSE partial.metadata
    <3>1. /\ partial' = [partial EXCEPT !.config = config, !.metadata = None, !.sealed = FALSE]
          /\ run[p].pc = "finish" /\ run[p].source \in Sources
      BY <1>1, <2>1, WhenCopied DEF CopySidecars
    <3>2. config \in {run[p].source, None} /\ (~run[p].resume => config = run[p].source)
      BY <1>7, <3>1, NoneAssumption
    <3> HIDE DEF config
    <3> QED BY <1>7, <2>1, <3>1, <3>2 DEF Directory
  <2>2. CASE pc = "promote"
    BY <1>1, <1>7, <2>2, WhenCopied DEF WriteManifest, Directory
  <2> QED BY <1>1, <2>1, <2>2
<1>3. /\ run' \in [Installers -> RunState]
      /\ \A q \in Installers : q # p => run'[q] = run[q]
      /\ run'[p].pc = pc /\ run'[p].source = run[p].source
      /\ run'[p].resume = run[p].resume /\ run'[p].completed = run[p].completed
  BY <1>1, GoesOn
<1>4. FilesInv'
  <2>1. FilesTypeOK'
    BY <1>1, <1>2, Has DEF FilesInv, FilesTypeOK
  <2>2. FinalIsOfOneSource' /\ FinalIsDurable'
    BY <1>1, Has DEF FilesInv, FinalIsOfOneSource, FinalIsDurable
  <2>3. RecordedAreDurable'
    BY <1>1, <1>2, WhenCopied, Has DEF RecordedAreDurable, FilesInv, FilesTypeOK, Checkpoint
  <2>4. ConfigMatches'
    BY <1>1, <1>2, WhenCopied DEF ConfigMatches
  <2> QED BY <2>1, <2>2, <2>3, <2>4 DEF FilesInv
<1>5. Missing(p)' = {} /\ partial' # None
  BY <1>1, <1>2, <1>3, WhenCopied, NothingIsNoRecord DEF Missing
<1>6. Agrees(p)'
  BY <1>1, <1>2, <1>3, <1>5, WhenCopied
  DEF Agrees, SkipsWholeRanges, KnowsTheCheckpoint, CopiesInOrder,
      HasItsMetadata, WithMetadata, Settled, Copying
<1> QED BY <1>1, <1>3, <1>4, <1>6, WhenCopied, StepOf

LEMMA PromoteInv ==
  ASSUME InstallInv, NEW p \in Installers, Promote(p)
  PROVE  InstallInv'
<1>1. /\ run[p].pc = "promote" /\ "clean" \in Step /\ Go(p, "clean")
      /\ final' = partial /\ partial' = final /\ UNCHANGED <<lock, checkpoint>>
  BY DEF Promote, Step
<1>2. /\ run' \in [Installers -> RunState]
      /\ \A q \in Installers : q # p => run'[q] = run[q]
      /\ run'[p].pc = "clean" /\ run'[p].source = run[p].source
  BY <1>1, GoesOn
<1>3. FilesTypeOK'
  BY <1>1, Has DEF FilesInv, FilesTypeOK
<1>4. FinalIsOfOneSource' /\ FinalIsDurable'
  BY <1>1, WhenCopied DEF FinalIsOfOneSource, FinalIsDurable
<1>5. RecordedAreDurable'
  BY <1>1, Has DEF RecordedAreDurable, FinalIsDurable, FilesInv, FilesTypeOK, Checkpoint
<1>7. ConfigMatches'
  BY <1>1, Has DEF ConfigMatches, FinalIsOfOneSource, FilesInv
<1>6. Agrees(p)'
  BY <1>1, <1>2, WhenCopied
  DEF Agrees, SkipsWholeRanges, KnowsTheCheckpoint, CopiesInOrder,
      HasItsMetadata, WithMetadata, Settled, Copying
<1> QED BY <1>1, <1>2, <1>3, <1>4, <1>5, <1>6, <1>7, WhenCopied, StepOf DEF FilesInv

LEMMA RemoveReplacedInv ==
  ASSUME InstallInv, NEW p \in Installers, RemoveReplaced(p)
  PROVE  InstallInv'
<1>1. /\ run[p].pc = "clean" /\ "unlink" \in Step /\ Go(p, "unlink")
      /\ partial' = None /\ UNCHANGED <<lock, final, checkpoint>>
  BY DEF RemoveReplaced, Step
<1>2. lock = p /\ run[p].source \in Sources
  BY <1>1, Has DEF Agrees
<1>3. /\ run' \in [Installers -> RunState]
      /\ \A q \in Installers : q # p => run'[q] = run[q]
      /\ run'[p].pc = "unlink" /\ run'[p].source = run[p].source
  BY <1>1, GoesOn
<1>4. FilesInv'
  BY <1>1, Has DEF FilesInv, FilesTypeOK, FinalIsOfOneSource, FinalIsDurable,
     RecordedAreDurable, ConfigMatches
<1>5. Agrees(p)'
  BY <1>2, <1>3
  DEF Agrees, SkipsWholeRanges, KnowsTheCheckpoint, CopiesInOrder,
      HasItsMetadata, WithMetadata, Settled, Copying
<1> QED BY <1>1, <1>2, <1>3, <1>4, <1>5, StepOf

LEMMA RemoveCheckpointInv ==
  ASSUME InstallInv, NEW p \in Installers, RemoveCheckpoint(p) \/ DiscardCheckpoint(p)
  PROVE  InstallInv'
<1>1. /\ run[p].pc # "idle" /\ Return(p)
      /\ checkpoint' = None /\ UNCHANGED <<final, partial>>
  BY DEF RemoveCheckpoint, DiscardCheckpoint
<1>2. FilesInv'
  BY <1>1, Has DEF FilesInv, FilesTypeOK, FinalIsOfOneSource, FinalIsDurable,
     RecordedAreDurable, ConfigMatches
<1> QED BY <1>1, <1>2, ReturnOf

LEMMA DiscardPartialInv ==
  ASSUME InstallInv, NEW p \in Installers, DiscardPartial(p)
  PROVE  InstallInv'
<1>1. /\ run[p].pc = "idle" /\ "discard" \in Step /\ Go(p, "discard")
      /\ lock = None /\ lock' = p
      /\ partial' = None /\ UNCHANGED <<final, checkpoint>>
  BY DEF DiscardPartial, Step
<1>2. /\ run' \in [Installers -> RunState]
      /\ \A q \in Installers : q # p => run'[q] = run[q]
      /\ run'[p].pc = "discard"
  BY <1>1, GoesOn
<1>3. FilesInv'
  BY <1>1, Has DEF FilesInv, FilesTypeOK, FinalIsOfOneSource, FinalIsDurable,
     RecordedAreDurable, ConfigMatches
<1>4. Agrees(p)'
  BY <1>2
  DEF Agrees, SkipsWholeRanges, KnowsTheCheckpoint, CopiesInOrder,
      HasItsMetadata, WithMetadata, Settled, Copying
<1> QED BY <1>1, <1>2, <1>3, <1>4, StepOf

LEMMA AbandonInv ==
  ASSUME InstallInv, NEW p \in Installers, Cancel(p) \/ Fail(p)
  PROVE  InstallInv'
<1>1. run[p].pc # "idle" /\ Return(p) /\ UNCHANGED <<final, checkpoint>>
      /\ partial' \in {None, partial}
  BY DEF Cancel, Fail, Abandon, CancelPoints
<1>2. FilesInv'
  BY <1>1, Has DEF FilesInv, FilesTypeOK, FinalIsOfOneSource, FinalIsDurable,
     RecordedAreDurable, ConfigMatches
<1> QED BY <1>1, <1>2, ReturnOf

LEMMA CrashInv ==
  ASSUME InstallInv, NEW p \in Installers, Crash(p)
  PROVE  InstallInv'
<1>1. run[p].pc # "idle" /\ lock = p /\ UNCHANGED files
  BY Has DEF Crash
<1>2. Return(p)
  BY <1>1 DEF Crash, Return
<1>3. FilesInv'
  BY <1>1, Has DEF files, FilesInv, FilesTypeOK, FinalIsOfOneSource, FinalIsDurable,
     RecordedAreDurable, ConfigMatches
<1> QED BY <1>1, <1>2, <1>3, ReturnOf

\* A power loss changes nothing of a directory that is durable but its small
\* files, and leaves every directory durable.
LEMMA AfterLoss ==
  ASSUME NEW d \in {None} \cup Directory, NEW new \in AfterPowerLoss(d)
  PROVE  /\ new \in {None} \cup Directory
         /\ new = None <=> d = None
         /\ d # None =>
              /\ new.durable = Ranges
              /\ new.outputs = d.outputs
              /\ new.manifest \in {d.manifest, None}
              /\ new.config \in {d.config, None}
              /\ d.sealed => new.manifest = d.manifest
              /\ d.durable = Ranges => \A r \in Ranges : new.bytes[r] = d.bytes[r]
<1>1. CASE d = None
  BY <1>1 DEF AfterPowerLoss
<1>2. CASE d # None
  <2>1. d \in Directory
    BY <1>2
  <2>2. PICK lost \in SUBSET (Ranges \ d.durable), manifestLost \in BOOLEAN,
            configLost \in BOOLEAN : new = Lose(d, lost, manifestLost, configLost)
    BY <1>2 DEF AfterPowerLoss
  <2> DEFINE bytes == [r \in Ranges |-> IF r \in lost THEN Blank ELSE d.bytes[r]]
             manifest == IF manifestLost /\ ~d.sealed THEN None ELSE d.manifest
             config == IF configLost /\ ~d.sealed THEN None ELSE d.config
  <2>3. bytes \in [Ranges -> Sources \cup {Blank}]
    BY <2>1 DEF Directory
  <2>4. /\ manifest \in Sources \cup {None} /\ manifest \in {d.manifest, None}
        /\ d.sealed => manifest = d.manifest
        /\ config \in Sources \cup {None} /\ config \in {d.config, None}
    BY <2>1, <2>2 DEF Directory
  <2>5. d.durable = Ranges => \A r \in Ranges : bytes[r] = d.bytes[r]
    BY <2>2
  <2>6. new = [d EXCEPT !.bytes = bytes, !.manifest = manifest, !.config = config,
                        !.durable = Ranges, !.sealed = TRUE]
    BY <2>2 DEF Lose
  <2> HIDE DEF bytes, manifest, config
  <2>7. /\ new \in Directory /\ new.bytes = bytes /\ new.manifest = manifest
        /\ new.config = config
        /\ new.durable = Ranges /\ new.outputs = d.outputs
    BY <2>1, <2>3, <2>4, <2>6 DEF Directory
  <2> QED BY <1>2, <2>4, <2>5, <2>7, NothingIsNoRecord
<1> QED BY <1>1, <1>2

\* A step after which nobody is at work: only the files have to be looked at.
LEMMA NobodyAtWork ==
  ASSUME lock' = None, \A p \in Installers : run'[p].pc = "idle",
         run' \in [Installers -> RunState], FilesInv'
  PROVE  InstallInv'
<1>1. \A p \in Installers : Agrees(p)'
  BY DEF Agrees, SkipsWholeRanges, KnowsTheCheckpoint, CopiesInOrder,
         HasItsMetadata, WithMetadata, Settled, Copying
<1>2. LockIsHeld'
  BY NoneAssumption DEF LockIsHeld
<1> QED BY <1>1, <1>2 DEF InstallInv, TypeOK, FilesInv, FilesTypeOK

LEMMA PowerLossInv ==
  ASSUME InstallInv, PowerLoss
  PROVE  InstallInv'
<1>1. /\ final \in {None} \cup Directory /\ partial \in {None} \cup Directory
      /\ checkpoint \in {None} \cup Checkpoint /\ FinalIsOfOneSource /\ FinalIsDurable
      /\ ConfigMatches
  BY DEF InstallInv, TypeOK
<1>2. /\ final' \in AfterPowerLoss(final) /\ partial' \in AfterPowerLoss(partial)
      /\ checkpoint' = checkpoint /\ lock' = None
  BY DEF PowerLoss
<1>3. Idle \in RunState /\ Idle.pc = "idle"
  BY DEF Idle, RunState, Step
<1>4. run' \in [Installers -> RunState] /\ \A p \in Installers : run'[p].pc = "idle"
  BY <1>3 DEF PowerLoss
<1>5. FilesTypeOK'
  BY <1>1, <1>2, AfterLoss DEF FilesTypeOK
<1>6. FinalIsOfOneSource'
  BY <1>1, <1>2, AfterLoss DEF FinalIsOfOneSource, FinalIsDurable
<1>7. FinalIsDurable'
  BY <1>1, <1>2, AfterLoss DEF FinalIsDurable
<1>8. RecordedAreDurable'
  BY <1>1, <1>2, AfterLoss DEF RecordedAreDurable, Checkpoint
<1>9. ConfigMatches'
  BY <1>1, <1>2, AfterLoss DEF ConfigMatches
<1> QED BY <1>2, <1>4, <1>5, <1>6, <1>7, <1>8, <1>9, NobodyAtWork DEF FilesInv

LEMMA DamageInv ==
  ASSUME InstallInv, NEW r \in Ranges, Damage(r)
  PROVE  InstallInv'
<1>1. /\ lock = None /\ partial \in Directory
      /\ \A p \in Installers : run[p].pc = "idle"
  BY NoneAssumption DEF InstallInv, TypeOK, LockIsHeld, Damage
<1>2. /\ final \in {None} \cup Directory /\ checkpoint \in {None} \cup Checkpoint
      /\ FinalIsOfOneSource /\ FinalIsDurable /\ RecordedAreDurable /\ ConfigMatches
      /\ run \in [Installers -> RunState]
  BY DEF InstallInv, TypeOK
<1>3. UNCHANGED <<lock, final, checkpoint, run>>
      /\ partial' = [partial EXCEPT !.bytes[r] = Blank] /\ partial # None
  BY DEF Damage
<1>4. /\ partial' \in Directory /\ partial'.bytes[r] = Blank
      /\ \A q \in Ranges : q # r => partial'.bytes[q] = partial.bytes[q]
      /\ partial'.durable = partial.durable
      /\ partial'.outputs = partial.outputs /\ partial'.config = partial.config
  BY <1>1, <1>3, ChangedBytes
<1>5. RecordedAreDurable'
  BY <1>2, <1>3, <1>4, BlankAssumption DEF RecordedAreDurable, Checkpoint
<1>7. ConfigMatches'
  BY <1>2, <1>3, <1>4 DEF ConfigMatches
<1>6. FilesInv'
  BY <1>2, <1>3, <1>4, <1>5, <1>7
  DEF FilesInv, FilesTypeOK, FinalIsOfOneSource, FinalIsDurable
<1> QED BY <1>1, <1>2, <1>3, <1>6, NobodyAtWork

LEMMA LoseOutputsInv ==
  ASSUME InstallInv, LoseOutputs
  PROVE  InstallInv'
<1>1. /\ lock = None /\ partial \in Directory
      /\ \A p \in Installers : run[p].pc = "idle"
  BY NoneAssumption DEF InstallInv, TypeOK, LockIsHeld, LoseOutputs
<1>2. /\ final \in {None} \cup Directory /\ checkpoint \in {None} \cup Checkpoint
      /\ FinalIsOfOneSource /\ FinalIsDurable /\ RecordedAreDurable
      /\ run \in [Installers -> RunState]
  BY DEF InstallInv, TypeOK
<1>3. UNCHANGED <<lock, final, checkpoint, run>>
      /\ partial' = [partial EXCEPT !.outputs = None] /\ partial # None
  BY DEF LoseOutputs
<1>4. /\ partial' \in Directory /\ partial'.outputs = None
      /\ partial'.bytes = partial.bytes /\ partial'.durable = partial.durable
  BY <1>1, <1>3 DEF Directory
<1>5. RecordedAreDurable' /\ ConfigMatches'
  BY <1>2, <1>3, <1>4 DEF RecordedAreDurable, ConfigMatches
<1>6. FilesInv'
  BY <1>2, <1>3, <1>4, <1>5 DEF FilesInv, FilesTypeOK, FinalIsOfOneSource, FinalIsDurable
<1> QED BY <1>1, <1>2, <1>3, <1>6, NobodyAtWork

LEMMA NextInv == InstallInv /\ [Next]_vars => InstallInv'
<1> SUFFICES ASSUME InstallInv, [Next]_vars PROVE InstallInv'
  OBVIOUS
<1>1. ASSUME NEW p \in Installers, InstallStep(p) PROVE InstallInv'
  <2>1. CASE \E s \in Sources, overwrite \in BOOLEAN : Begin(p, s, overwrite)
    BY <2>1, BeginInv
  <2>2. CASE LoadMetadata(p)
    BY <2>2, LoadMetadataInv
  <2>3. CASE VerifyRanges(p) \/ RemoveOutputs(p) \/ RemakeDirectory(p)
    BY <2>3, VerifyRangesInv, RemoveOutputsInv, RemakeDirectoryInv
  <2>4. CASE CheckSpace(p) \/ DryRun(p)
    BY <2>4, CheckSpaceInv, DryRunInv
  <2>5. CASE CreateOutputFiles(p) \/ SaveCheckpoint(p)
    BY <2>5, CreateOutputFilesInv, SaveCheckpointInv
  <2>6. CASE \E r \in Ranges :
               CopyRange(p, r) \/ WriteRange(p, r) \/ SyncRange(p, r) \/ CommitRange(p, r)
    BY <2>6, CopyRangeInv, WriteRangeInv, SyncRangeInv, CommitRangeInv
  <2>7. CASE CopyEnds(p) \/ CopySidecars(p) \/ WriteManifest(p)
    BY <2>7, CopyEndsInv, SmallFilesInv
  <2>8. CASE Promote(p) \/ RemoveReplaced(p)
    BY <2>8, PromoteInv, RemoveReplacedInv
  <2>9. CASE RemoveCheckpoint(p) \/ DiscardCheckpoint(p)
    BY <2>9, RemoveCheckpointInv
  <2>10. CASE Cancel(p) \/ Fail(p)
    BY <2>10, AbandonInv
  <2>11. CASE Crash(p)
    BY <2>11, CrashInv
  <2>12. CASE DiscardPartial(p)
    BY <2>12, DiscardPartialInv
  <2> QED BY <1>1, <2>1, <2>2, <2>3, <2>4, <2>5, <2>6, <2>7, <2>8, <2>9, <2>10, <2>11, <2>12
          DEF InstallStep
<1>2. CASE PowerLoss
  BY <1>2, PowerLossInv
<1>3. ASSUME NEW r \in Ranges, Damage(r) PROVE InstallInv'
  BY <1>3, DamageInv
<1>5. CASE LoseOutputs
  BY <1>5, LoseOutputsInv
<1>4. CASE UNCHANGED vars
  BY <1>4 DEF vars, InstallInv, TypeOK, LockIsHeld, FinalIsOfOneSource, FinalIsDurable,
     RecordedAreDurable, ConfigMatches, Agrees, SkipsWholeRanges, KnowsTheCheckpoint,
     CopiesInOrder, HasItsMetadata, IsNext, Missing
<1> QED BY <1>1, <1>2, <1>3, <1>4, <1>5 DEF Next

-----------------------------------------------------------------------------
(* The theorems.                                                           *)

\* Whatever installers are cancelled, fail, are killed or lose power, and
\* whatever is damaged between them, what an installer remembers agrees with the
\* files at each of its steps, for any installers, sources and ranges.
THEOREM InstallInvariant == Spec => []InstallInv
BY InitInv, NextInv, PTL DEF Spec

\* Any model in the final directory is one source's, in every byte of its ranges
\* and in every small file it has: promotion (RemoteStreamingRepacker.runPrepared)
\* never installs an incomplete set of ranges, nor a mixture of two sources.
THEOREM InstalledModelIsOfOneSource == Spec => []FinalIsOfOneSource
<1>1. InstallInv => FinalIsOfOneSource
  BY DEF InstallInv
<1> QED BY <1>1, InstallInvariant, PTL

\* A range the checkpoint records, with its bytes in place, is beyond the reach
\* of a power loss: copyBatch syncs before it records.
THEOREM RecordsSurvivePowerLoss == Spec => []RecordedAreDurable
<1>1. InstallInv => RecordedAreDurable
  BY DEF InstallInv
<1> QED BY <1>1, InstallInvariant, PTL

LEMMA StepKeepsTheModel ==
  ASSUME InstallInv, Next, final # None, final.manifest # None
  PROVE  final' # None /\ (final'.manifest = None => ~final.sealed)
<1>1. CASE final' = final
  BY <1>1
<1>2. ASSUME NEW p \in Installers, Promote(p)
      PROVE  final' # None /\ final'.manifest # None
  BY <1>2, WhenCopied, NothingIsNoRecord, NoneAssumption DEF Promote
<1>3. CASE PowerLoss
  BY <1>3, AfterLoss DEF InstallInv, TypeOK, PowerLoss
<1>4. ASSUME NEW p \in Installers, InstallStep(p), ~Promote(p) PROVE final' = final
  BY <1>4 DEF InstallStep, Begin, LoadMetadata, VerifyRanges, RemoveOutputs, RemakeDirectory,
     CheckSpace, DryRun, CreateOutputFiles, SaveCheckpoint, CopyRange, WriteRange, SyncRange,
     CommitRange, CopyEnds, CopySidecars, WriteManifest, RemoveReplaced, RemoveCheckpoint, Cancel,
     Fail, Abandon, Crash, DiscardPartial, DiscardCheckpoint, files
<1>5. CASE LoseOutputs \/ \E r \in Ranges : Damage(r)
  <2>1. final' = final
    BY <1>5 DEF Damage, LoseOutputs
  <2> QED BY <2>1
<1> QED BY <1>1, <1>2, <1>3, <1>4, <1>5 DEF Next

\* An installed model is replaced in one step and by a whole one with its
\* manifest (renameSwap); only a power loss right after a promotion can take
\* the manifest.
THEOREM ModelIsNeverMissing == Spec => InstalledModelSurvives
<1>1. InstallInv /\ [Next]_vars =>
        [final # None /\ final.manifest # None =>
           /\ final' # None
           /\ final'.manifest = None => ~final.sealed]_vars
  BY StepKeepsTheModel
<1> QED BY <1>1, InstallInvariant, PTL DEF Spec, InstalledModelSurvives
-----------------------------------------------------------------------------
(* What a cancelled or resumed installation keeps.                         *)

\* Until an installation promotes, the saved download it resumes is still there,
\* an installation that has only begun found both halves of one or neither, and
\* the record it is about to write keeps every range that is reusable.
KeepsTheSaved(p) ==
  /\ run[p].pc \in CancelPoints \cup {"remake", "save", "commit"} /\ run[p].resume =>
       checkpoint # None
  /\ run[p].pc = "metadata" => Together
  /\ run[p].pc = "save" => \A r \in Ranges : Reusable(r) => r \in run[p].completed

SavedInv == \A p \in Installers : KeepsTheSaved(p)

\* The step of p leaves every other installer idle, so only p's part is disturbed.
LEMMA SavedOf ==
  ASSUME InstallInv, NEW p \in Installers, lock \in {None, p},
         \A q \in Installers : q # p => run'[q] = run[q],
         KeepsTheSaved(p)'
  PROVE  SavedInv'
<1>1. \A q \in Installers : q # p => run'[q].pc = "idle"
  BY NoneAssumption DEF InstallInv, LockIsHeld
<1> QED BY <1>1 DEF SavedInv, KeepsTheSaved, CancelPoints

\* Who moves while p is at work: p alone.
LEMMA OnlyTheHolderMoves ==
  ASSUME InstallInv, NEW p \in Installers, InstallStep(p)
  PROVE  /\ lock \in {None, p}
         /\ run \in [Installers -> RunState]
         /\ \A q \in Installers : q # p => run'[q] = run[q]
<1>1. run \in [Installers -> RunState] /\ (run[p].pc # "idle" => lock = p)
  BY DEF InstallInv, TypeOK, LockIsHeld
<1>2. lock \in {None, p}
  BY <1>1 DEF InstallStep, Begin, LoadMetadata, VerifyRanges, RemoveOutputs, RemakeDirectory,
     CheckSpace, DryRun, CreateOutputFiles, SaveCheckpoint, CopyRange, WriteRange, SyncRange,
     CommitRange, CopyEnds, CopySidecars, WriteManifest, Promote, RemoveReplaced, RemoveCheckpoint,
     Cancel, Fail, CancelPoints, Crash, DiscardPartial, DiscardCheckpoint
<1>3. \E new : run' = [run EXCEPT ![p] = new]
  BY <1>1 DEF InstallStep, Begin, LoadMetadata, VerifyRanges, RemoveOutputs, RemakeDirectory,
     CheckSpace, DryRun, CreateOutputFiles, SaveCheckpoint, CopyRange, WriteRange, SyncRange,
     CommitRange, CopyEnds, CopySidecars, WriteManifest, Promote, RemoveReplaced, RemoveCheckpoint,
     Cancel, Fail, Abandon, Crash, DiscardPartial, DiscardCheckpoint, Go, GoWith, Return
<1> QED BY <1>1, <1>2, <1>3

\* Steps that end an installation leave it nothing to remember.
LEMMA EndsRemembering ==
  ASSUME NEW p, run'[p].pc \in {"idle", "clean", "unlink", "discard"}
  PROVE  KeepsTheSaved(p)'
BY DEF KeepsTheSaved, CancelPoints
\* The checkpoint record that an installer writes is a record.
LEMMA WritesARecord ==
  ASSUME InstallInv, NEW p \in Installers, run[p].pc \in {"save", "commit"}
  PROVE  \A done \in SUBSET Ranges : [source |-> run[p].source, completed |-> done] # None
<1>1. run[p].source \in Sources
  BY Has DEF Agrees
<1> QED BY <1>1, NothingIsNoRecord DEF Checkpoint

\* While p's place in the installation and the files' existence go forward
\* together, what it resumes stays.
LEMMA StepKeepsTheSaved ==
  ASSUME InstallInv, SavedInv, NEW p \in Installers, InstallStep(p)
  PROVE  SavedInv'
<1>1. /\ lock \in {None, p} /\ run \in [Installers -> RunState]
      /\ \A q \in Installers : q # p => run'[q] = run[q]
  BY OnlyTheHolderMoves
<1>2. KeepsTheSaved(p)
  BY DEF SavedInv
<1>3. SUFFICES KeepsTheSaved(p)'
  BY <1>1, SavedOf
<1>4. ASSUME NEW s \in Sources, NEW overwrite \in BOOLEAN, Begin(p, s, overwrite)
      PROVE  KeepsTheSaved(p)'
  <2> DEFINE new == [pc |-> "metadata", source |-> s, resume |-> checkpoint # None,
                     completed |-> {}]
  <2>1. run'[p] = new
    BY <1>1, <1>4 DEF Begin
  <2>2. Together /\ partial' = partial /\ checkpoint' = checkpoint
    BY <1>4 DEF Begin, files
  <2>3. /\ new.pc = "metadata"
        /\ new.resume => checkpoint # None
    OBVIOUS
  <2> HIDE DEF new
  <2> QED BY <2>1, <2>2, <2>3 DEF KeepsTheSaved, Together
<1>5. ASSUME NEW pc \in {"verify", "space", "remake", "create", "copy", "write", "sync",
                       "commit", "finish", "manifest", "promote"},
             NEW done, GoWith(p, pc, done), checkpoint' = checkpoint,
             run[p].pc \in CancelPoints \cup {"remake", "save", "commit"}
      PROVE  KeepsTheSaved(p)'
  <2>1. run'[p].pc = pc /\ run'[p].resume = run[p].resume
    BY <1>1, <1>5 DEF GoWith, RunState
  <2> QED BY <1>2, <1>5, <2>1 DEF KeepsTheSaved
<1>6. ASSUME NEW pc \in {"create", "space", "copy", "write", "sync", "commit", "finish",
                       "manifest", "promote"},
             Go(p, pc), checkpoint' = checkpoint \/ checkpoint' # None,
             run[p].pc \in CancelPoints \cup {"remake", "save", "commit"}
      PROVE  KeepsTheSaved(p)'
  <2>1. run'[p].pc = pc /\ run'[p].resume = run[p].resume
    BY <1>1, <1>6 DEF Go, RunState
  <2> QED BY <1>2, <1>6, <2>1 DEF KeepsTheSaved
<1>7. CASE LoadMetadata(p) \/ RemoveOutputs(p)
  <2>1. run[p].pc \in CancelPoints /\ checkpoint' = checkpoint
    BY <1>7 DEF LoadMetadata, RemoveOutputs, CancelPoints
  <2>2. \E pc \in {"verify", "space", "remake"} : \E done : GoWith(p, pc, done)
    BY <1>7 DEF LoadMetadata, RemoveOutputs
  <2> QED BY <1>5, <2>1, <2>2
<1>8. CASE VerifyRanges(p)
  <2>1. /\ run[p].pc = "verify" /\ partial' = partial /\ checkpoint' = checkpoint
        /\ GoWith(p, "save", Intact(p))
    BY <1>8 DEF VerifyRanges, files
  <2>2. checkpoint.source = run[p].source /\ checkpoint.completed = run[p].completed
    BY <2>1, Has DEF Agrees, KnowsTheCheckpoint
  <2>3. /\ run'[p].pc = "save" /\ run'[p].completed = Intact(p)
        /\ run'[p].resume = run[p].resume
    BY <1>1, <2>1 DEF GoWith, RunState
  <2>4. \A r \in Ranges : Reusable(r)' => r \in Intact(p)
    BY <2>1, <2>2 DEF Reusable, Intact
  <2> QED BY <1>2, <2>1, <2>3, <2>4 DEF KeepsTheSaved, CancelPoints
<1>9. CASE CreateOutputFiles(p)
  <2>1. /\ run[p].pc = "create" /\ checkpoint' = checkpoint /\ Go(p, "save")
        /\ \A r \in Ranges : partial'.bytes[r] = Blank
    BY <1>9, Has DEF CreateOutputFiles, Directory, Agrees, SkipsWholeRanges, Settled,
       FilesInv, FilesTypeOK
  <2>2. /\ run'[p].pc = "save" /\ run'[p].resume = run[p].resume
    BY <1>1, <2>1 DEF Go, RunState
  <2>3. \A r \in Ranges : ~Reusable(r)'
    BY <2>1, BlankAssumption DEF Reusable, InstallInv, TypeOK, Checkpoint
  <2> QED BY <1>2, <2>1, <2>2, <2>3 DEF KeepsTheSaved, CancelPoints
<1>10. CASE SaveCheckpoint(p)
  <2>1. checkpoint' # None
    BY <1>1, <1>10, WritesARecord DEF SaveCheckpoint, RunState
  <2> QED BY <1>6, <1>10, <2>1 DEF SaveCheckpoint
<1>11. CASE \E r \in Ranges : CommitRange(p, r)
  <2>1. checkpoint' # None
    BY <1>1, <1>11, WritesARecord DEF CommitRange, RunState
  <2>2. PICK done : run' = [run EXCEPT ![p].pc = "copy", ![p].completed = done]
    BY <1>11 DEF CommitRange, GoWith
  <2>3. run'[p].pc = "copy"
    BY <1>1, <2>2 DEF RunState
  <2> QED BY <2>1, <2>3 DEF KeepsTheSaved
<1>12. CASE \/ RemakeDirectory(p) \/ CheckSpace(p) \/ CopyEnds(p)
            \/ CopySidecars(p) \/ WriteManifest(p)
            \/ \E r \in Ranges : CopyRange(p, r) \/ WriteRange(p, r) \/ SyncRange(p, r)
  <2>1. /\ run[p].pc \in CancelPoints \cup {"remake", "save", "commit"}
        /\ checkpoint' = checkpoint
    BY <1>12 DEF RemakeDirectory, CheckSpace, CopyEnds, CopySidecars, WriteManifest,
       CopyRange, WriteRange, SyncRange, CancelPoints, files
  <2>2. \E pc \in {"create", "copy", "write", "sync", "commit", "finish", "manifest", "promote"} :
          Go(p, pc)
    BY <1>12 DEF RemakeDirectory, CheckSpace, CopyEnds, CopySidecars, WriteManifest,
       CopyRange, WriteRange, SyncRange
  <2> QED BY <1>6, <2>1, <2>2
<1>13. CASE \/ Promote(p) \/ RemoveReplaced(p) \/ RemoveCheckpoint(p) \/ DryRun(p)
            \/ Cancel(p) \/ Fail(p) \/ Crash(p) \/ DiscardPartial(p) \/ DiscardCheckpoint(p)
  <2>1. run'[p].pc \in {"idle", "clean", "unlink", "discard"}
    BY <1>1, <1>13 DEF Promote, RemoveReplaced, RemoveCheckpoint, DryRun, Cancel, Fail, Abandon,
       Crash, DiscardPartial, DiscardCheckpoint, Go, Return, Idle, RunState
  <2> QED BY <2>1, EndsRemembering
<1> QED BY <1>4, <1>7, <1>8, <1>9, <1>10, <1>11, <1>12, <1>13 DEF InstallStep

\* SavedInv is inductive beside InstallInv.
LEMMA SavedNext == InstallInv /\ SavedInv /\ [Next]_vars => SavedInv'
<1> SUFFICES ASSUME InstallInv, SavedInv, [Next]_vars PROVE SavedInv'
  OBVIOUS
<1>1. CASE UNCHANGED vars
  BY <1>1 DEF vars, SavedInv, KeepsTheSaved, Together, Reusable
<1>2. ASSUME NEW p \in Installers, InstallStep(p) PROVE SavedInv'
  BY <1>2, StepKeepsTheSaved
<1>3. CASE PowerLoss
  <2>1. \A p \in Installers : run'[p].pc = "idle"
    BY <1>3 DEF PowerLoss, Idle
  <2> QED BY <2>1, EndsRemembering DEF SavedInv
<1>4. CASE LoseOutputs \/ \E r \in Ranges : Damage(r)
  <2>1. \A p \in Installers : run'[p].pc = "idle"
    BY <1>4, NoneAssumption DEF Damage, LoseOutputs, InstallInv, LockIsHeld
  <2> QED BY <2>1, EndsRemembering DEF SavedInv
<1> QED BY <1>1, <1>2, <1>3, <1>4 DEF Next

\* Together with InstallInv, what the proofs below start from.
LEMMA SavedInvariant == Spec => [](InstallInv /\ SavedInv)
<1>1. Init => SavedInv
  <2>1. Idle.pc = "idle"
    BY DEF Idle
  <2>2. Init => \A p \in Installers : run[p].pc = "idle"
    BY <2>1 DEF Init
  <2> QED BY <2>2 DEF SavedInv, KeepsTheSaved, CancelPoints
<1> QED BY <1>1, SavedNext, InstallInvariant, PTL DEF Spec

-----------------------------------------------------------------------------

LEMMA CancelKeepsTheSaved ==
  ASSUME InstallInv, SavedInv, NEW p \in Installers, Cancel(p)
  PROVE  /\ Together' /\ checkpoint' = checkpoint
         /\ checkpoint # None => partial' = partial
<1>1. /\ run[p].pc \in CancelPoints /\ checkpoint' = checkpoint
      /\ partial' = IF ~run[p].resume /\ checkpoint = None THEN None ELSE partial
  BY DEF Cancel, Abandon
<1>2. run[p].resume => checkpoint # None
  BY <1>1 DEF SavedInv, KeepsTheSaved
<1>3. checkpoint # None => partial # None
  BY <1>1, Has DEF Agrees, SkipsWholeRanges, KnowsTheCheckpoint, Settled, Copying, CancelPoints,
     SavedInv, KeepsTheSaved, Together
<1> QED BY <1>1, <1>2, <1>3 DEF Together

\* A cancelled installation leaves nothing, or both halves of a saved download
\* with everything recorded in it: run's catch removes only what no checkpoint
\* speaks of.
THEOREM CancelledInstallsPause == Spec => CancellationPauses
<1>1. InstallInv /\ SavedInv /\ [Next]_vars =>
        [\A p \in Installers : Cancel(p) =>
           /\ Together'
           /\ checkpoint' = checkpoint
           /\ checkpoint # None => partial' = partial]_vars
  BY CancelKeepsTheSaved
<1> QED BY <1>1, SavedInvariant, PTL DEF Spec, CancellationPauses

\* A range that a saved download records and holds stays recorded.
LEMMA ReusableStays ==
  ASSUME InstallInv, SavedInv, NEW r \in Ranges, Reusable(r), Next
  PROVE  checkpoint' = None \/ r \in checkpoint'.completed
<1>1. CASE checkpoint' = checkpoint \/ checkpoint' = None
  BY <1>1 DEF Reusable
<1>2. ASSUME NEW p \in Installers, SaveCheckpoint(p)
      PROVE  r \in checkpoint'.completed
  BY <1>2 DEF SaveCheckpoint, SavedInv, KeepsTheSaved
<1>3. ASSUME NEW p \in Installers, NEW q \in Ranges, CommitRange(p, q)
      PROVE  r \in checkpoint'.completed
  <2>1. checkpoint.completed = run[p].completed
    BY <1>3, WhileCopying DEF CommitRange, Copying
  <2> QED BY <1>3, <2>1 DEF CommitRange, Reusable
<1>4. ASSUME NEW p \in Installers, InstallStep(p), ~SaveCheckpoint(p),
             ~\E q \in Ranges : CommitRange(p, q)
      PROVE  checkpoint' = checkpoint \/ checkpoint' = None
  BY <1>4 DEF InstallStep, Begin, LoadMetadata, VerifyRanges, RemoveOutputs, RemakeDirectory,
     CheckSpace, DryRun, CreateOutputFiles, CopyRange, WriteRange, SyncRange, CopyEnds,
     CopySidecars, WriteManifest, Promote, RemoveReplaced, RemoveCheckpoint, Cancel, Fail, Abandon,
     Crash, DiscardPartial, DiscardCheckpoint, files
<1>5. CASE PowerLoss \/ LoseOutputs \/ \E q \in Ranges : Damage(q)
  BY <1>1, <1>5 DEF PowerLoss, LoseOutputs, Damage
<1> QED BY <1>1, <1>2, <1>3, <1>4, <1>5 DEF Next

\* A range that is recorded and intact is never downloaded again while the saved
\* download lasts: validatedCompletedRanges keeps it, every later record has it.
THEOREM IntactRangesAreReused == Spec => ResumeReusesWork
<1>1. ASSUME InstallInv, NEW r \in Ranges, Reusable(r), NEW p \in Installers
      PROVE  ~CopyRange(p, r)
  BY <1>1, WhileCopying DEF CopyRange, Copying, IsNext, Missing, Reusable
<1>2. InstallInv /\ SavedInv /\ [Next]_vars =>
        [\A r \in Ranges : Reusable(r) =>
           /\ checkpoint' = None \/ r \in checkpoint'.completed
           /\ \A p \in Installers : ~CopyRange(p, r)]_vars
  BY <1>1, ReusableStays
<1> QED BY <1>2, SavedInvariant, PTL DEF Spec, ResumeReusesWork

-----------------------------------------------------------------------------
(* RangeDownload.                                                          *)

\* A download runs only while its installer, who holds the lock, copies.
DownloadIsOwned ==
  /\ call.pc # "none" => \E p \in Installers : run[p].pc = "copy"
  /\ \A p \in Installers : run[p].pc = "write" => temp = Parts

\* Where the transfer's task is while the call is at a place, and where the
\* thread that cancels may be.
TaskFollowsCall ==
  /\ call.pc \in {"none", "attempt", "open", "returned", "backoff", "got", "threw"} =>
       transfer.task = "none" /\ cancelling = "none"
  /\ call.pc \in {"handler", "start"} =>
       /\ transfer.task = "none"
       /\ transfer.received = 0
  /\ call.pc \in {"resume", "drop", "waiting"} => transfer.task # "none"
  /\ call.pc = "handler" => cancelling = "none"
  /\ cancelling = "task" => transfer.task # "none"
  /\ call.pc = "backoff" => call.attempt < Attempts

\* What the temporary file holds.
FileFollowsCall ==
  /\ call.pc \in {"attempt", "open", "backoff"} => temp = Absent
  /\ call.pc \in {"handler", "start", "resume", "drop", "waiting"} /\ transfer.task # "over" =>
       temp = transfer.received
  /\ transfer.task = "closing" /\ transfer.result = "success" => transfer.received = Parts
  /\ transfer.task = "over" \/ call.pc = "returned" =>
       temp = IF transfer.result = "success" THEN Parts ELSE Absent
  /\ call.pc = "got" => temp = Parts

\* A cancellation that is through has rejected the transfer, and ended its task
\* when there was one to end.
CancelIsSeen ==
  /\ call.cancelled /\ HandlerIsInstalled /\ cancelling # "lock" => transfer.rejection # "none"
  /\ call.cancelled /\ call.pc \in {"resume", "waiting"} /\ cancelling = "none" =>
       transfer.task \in {"ending", "closing", "over"}

DownloadInv ==
  /\ InstallInv
  /\ DownloadTypeOK
  /\ DownloadIsOwned
  /\ TaskFollowsCall
  /\ FileFollowsCall
  /\ CancelIsSeen

-----------------------------------------------------------------------------
(* The installation's part.                                                *)

LEMMA DownloadInitInv == DownloadInit => DownloadInv
<1> SUFFICES ASSUME DownloadInit PROVE DownloadInv
  OBVIOUS
<1>1. InstallInv
  BY InitInv DEF DownloadInit
<1>2. \A p \in Installers : run[p].pc = "idle"
  BY DEF DownloadInit, Init, Idle
<1>3. DownloadTypeOK
  BY DownloadAssumption DEF DownloadInit, DownloadTypeOK, NoCall, NoTransfer
<1>4. DownloadIsOwned /\ TaskFollowsCall /\ FileFollowsCall /\ CancelIsSeen
  BY <1>2 DEF DownloadInit, NoCall, NoTransfer, DownloadIsOwned, TaskFollowsCall,
     FileFollowsCall, CancelIsSeen, HandlerIsInstalled
<1> QED BY <1>1, <1>3, <1>4 DEF DownloadInv

\* A step of the download is none of the installation's, which sees only the
\* range that is there.
LEMMA DownloadStutters == ASSUME DownloadStep PROVE UNCHANGED vars
BY DEF DownloadStep, BeginDownload, BeginAttempt, OpenFile, InstallHandler, Start,
   ResumeTask, EndAttempt, Backoff, EndDownload, CancelInstall, OnCancel, CancelTask,
   ReceiveResponse, ReceiveData, RefuseData, ConnectionEnds, Complete, CloseFile,
   ResumeCaller, DelegateStep

LEMMA StepIsInstall == ASSUME [DownloadNext]_allVars PROVE [Next]_vars
<1>1. CASE DownloadStep
  BY <1>1, DownloadStutters
<1>2. ASSUME NEW p \in Installers, InstallerMoves(p) PROVE Next
  BY <1>2 DEF InstallerMoves, Next
<1>3. CASE PowerIsLost
  BY <1>3 DEF PowerIsLost, Next
<1>4. CASE LoseOutputs \/ \E r \in Ranges : Damage(r)
  BY <1>4 DEF Next
<1>5. CASE UNCHANGED allVars
  BY <1>5 DEF allVars
<1> QED BY <1>1, <1>2, <1>3, <1>4, <1>5 DEF DownloadNext

\* Everyone at work holds the one lock.
LEMMA OnlyOneWorks ==
  ASSUME InstallInv, NEW p \in Installers, NEW q \in Installers,
         run[p].pc # "idle", run[q].pc # "idle"
  PROVE  p = q
BY DEF InstallInv, LockIsHeld

LEMMA OnlyCopyRangeWrites ==
  ASSUME InstallInv, NEW p \in Installers, InstallStep(p), NEW q \in Installers,
         run'[q].pc = "write"
  PROVE  \E r \in Ranges : CopyRange(p, r)
<1>1. run \in [Installers -> RunState] /\ LockIsHeld
  BY DEF InstallInv, TypeOK
<1>2. lock = None \/ lock = p
  BY <1>1 DEF LockIsHeld, InstallStep, Begin, LoadMetadata, VerifyRanges, RemoveOutputs,
     RemakeDirectory, CheckSpace, DryRun, CreateOutputFiles, SaveCheckpoint, CopyRange,
     WriteRange, SyncRange, CommitRange, CopyEnds, CopySidecars, WriteManifest, Promote,
     RemoveReplaced, RemoveCheckpoint, Cancel, Fail, CancelPoints, Crash, DiscardPartial, DiscardCheckpoint
<1>3. run' = [run EXCEPT ![p] = run'[p]]
  BY <1>1 DEF InstallStep, Begin, LoadMetadata, VerifyRanges, RemoveOutputs,
     RemakeDirectory, CheckSpace, DryRun, CreateOutputFiles, SaveCheckpoint, CopyRange,
     WriteRange, SyncRange, CommitRange, CopyEnds, CopySidecars, WriteManifest, Promote,
     RemoveReplaced, RemoveCheckpoint, Cancel, Fail, Crash, DiscardPartial, DiscardCheckpoint, Abandon,
     Return, Go, GoWith
<1>4. q = p
  BY <1>1, <1>2, <1>3, NoneAssumption DEF LockIsHeld
<1>5. SUFFICES ASSUME \A r \in Ranges : ~CopyRange(p, r) PROVE run'[p].pc # "write"
  BY <1>4
<1> QED
  BY <1>1, <1>5 DEF InstallStep, Begin, LoadMetadata, VerifyRanges, RemoveOutputs,
     RemakeDirectory, CheckSpace, DryRun, CreateOutputFiles, SaveCheckpoint,
     WriteRange, SyncRange, CommitRange, CopyEnds, CopySidecars, WriteManifest, Promote,
     RemoveReplaced, RemoveCheckpoint, Cancel, Fail, Crash, DiscardPartial, DiscardCheckpoint, Abandon,
     Return, Go, GoWith, Idle, RunState

LEMMA InstallerMovesInv ==
  ASSUME DownloadInv, InstallInv', NEW p \in Installers, InstallerMoves(p)
  PROVE  DownloadInv'
<1>1. call' = NoCall /\ transfer' = NoTransfer /\ cancelling' = "none"
  BY DEF InstallerMoves, EndsTheDownload
<1>2. temp' \in {Absent, temp}
  BY DEF InstallerMoves, FileAfter
<1>3. DownloadTypeOK'
  BY <1>1, <1>2, DownloadAssumption
  DEF DownloadInv, DownloadTypeOK, NoCall, NoTransfer
<1>4. TaskFollowsCall' /\ FileFollowsCall' /\ CancelIsSeen'
  BY <1>1 DEF NoCall, NoTransfer, TaskFollowsCall, FileFollowsCall, CancelIsSeen,
     HandlerIsInstalled
<1>5. ASSUME NEW q \in Installers, run'[q].pc = "write" PROVE temp' = Parts
  <2>1. PICK r \in Ranges : CopyRange(p, r)
    BY <1>5, OnlyCopyRangeWrites DEF DownloadInv, InstallerMoves
  <2>2. run \in [Installers -> RunState] /\ Downloads(p) /\ run'[p].pc = "write"
    BY <2>1 DEF DownloadInv, InstallInv, TypeOK, CopyRange, Go, IsNext, Downloads, RunState
  <2>3. At("got")
    BY <2>2 DEF InstallerMoves, Crash, Abandon, Return, Idle
  <2>4. partial' # None /\ ~Promote(p)
    BY <2>1, <2>2 DEF InstallInv, Agrees, SkipsWholeRanges, Settled, Copying, CopyRange, Promote
  <2>5. temp' = temp
    BY <2>2, <2>4 DEF InstallerMoves, FileAfter, Downloads
  <2> QED BY <2>3, <2>5 DEF DownloadInv, FileFollowsCall, At
<1>6. DownloadIsOwned'
  BY <1>1, <1>5 DEF DownloadIsOwned, NoCall
<1> QED BY <1>3, <1>4, <1>6 DEF DownloadInv

-----------------------------------------------------------------------------
(* The download's part: the call, the thread that cancels, the callbacks.   *)

\* The download's own invariant, which says nothing of the installation.
OwnInv == DownloadTypeOK /\ TaskFollowsCall /\ FileFollowsCall /\ CancelIsSeen

Transfer == [
  task : {"none", "suspended", "running", "ending", "closing", "over"},
  rejection : {"none"} \cup Errors, error : {"none"} \cup Errors,
  accepted : BOOLEAN, received : 0..Parts, result : {"none", "success"} \cup Errors]

\* A task that was cancelled is ending, or was already; nothing else changes.
LEMMA CancelledTask ==
  ASSUME NEW t \in Transfer
  PROVE  /\ Cancelled(t) \in Transfer
         /\ Cancelled(t).task = IF t.task \in {"suspended", "running"}
                                THEN "ending" ELSE t.task
         /\ Cancelled(t).rejection = t.rejection
         /\ Cancelled(t).received = t.received
         /\ Cancelled(t).result = t.result
<1>1. CASE t.task \in {"suspended", "running"}
  BY <1>1 DEF Transfer, Cancelled, Errors
<1>2. CASE t.task \notin {"suspended", "running"}
  BY <1>2 DEF Cancelled
<1> QED BY <1>1, <1>2

\* The first rejection stands.
LEMMA RejectedTask ==
  ASSUME NEW t \in Transfer, NEW error \in Errors
  PROVE  /\ RejectAs(t, error) \in Transfer
         /\ RejectAs(t, error).rejection \in Errors
         /\ RejectAs(t, error).task = t.task
         /\ RejectAs(t, error).received = t.received
         /\ RejectAs(t, error).result = t.result
<1>1. CASE t.rejection = "none"
  BY <1>1 DEF Transfer, RejectAs
<1>2. CASE t.rejection # "none"
  BY <1>2 DEF Transfer, RejectAs
<1> QED BY <1>1, <1>2

LEMMA TransferType == DownloadTypeOK => transfer \in Transfer
BY DEF DownloadTypeOK, Transfer

\* A delegate that refuses what comes rejects it and cancels its task.
LEMMA RefusedInv ==
  ASSUME OwnInv, NEW error \in Errors, transfer.task = "running",
         transfer' = Cancelled(RejectAs(transfer, error)), UNCHANGED <<call, cancelling, temp>>
  PROVE  OwnInv'
<1>1. /\ transfer' \in Transfer
      /\ transfer'.task = "ending" /\ transfer'.rejection \in Errors
      /\ transfer'.received = transfer.received /\ transfer'.result = transfer.result
  BY TransferType, RejectedTask, CancelledTask DEF OwnInv
<1>2. DownloadTypeOK'
  BY <1>1 DEF OwnInv, DownloadTypeOK, Transfer
<1>3. TaskFollowsCall' /\ CancelIsSeen'
  BY <1>1 DEF Errors, OwnInv, TaskFollowsCall, CancelIsSeen, HandlerIsInstalled
<1>4. FileFollowsCall'
  BY <1>1 DEF OwnInv, TaskFollowsCall, FileFollowsCall
<1> QED BY <1>2, <1>3, <1>4 DEF OwnInv

\* In a step of the download its installer is copying, so nobody is writing.
LEMMA NobodyWrites ==
  ASSUME DownloadInv, DownloadStep
  PROVE  (\E p \in Installers : run[p].pc = "copy")
         /\ \A p \in Installers : run[p].pc # "write"
<1>1. \E p \in Installers : run[p].pc = "copy"
  <2>1. ASSUME NEW p \in Installers, BeginDownload(p) PROVE run[p].pc = "copy"
    BY <2>1 DEF BeginDownload, Downloads
  <2>2. ASSUME \A p \in Installers : ~BeginDownload(p) PROVE call.pc # "none"
    BY <2>2 DEF DownloadStep, BeginAttempt, OpenFile, InstallHandler, Start,
       ResumeTask, EndAttempt, Backoff, EndDownload, CancelInstall, OnCancel, CancelTask,
       ReceiveResponse, ReceiveData, RefuseData, ConnectionEnds, Complete, CloseFile,
       ResumeCaller, At, DownloadInv, TaskFollowsCall
  <2> QED BY <2>1, <2>2 DEF DownloadInv, DownloadIsOwned
<1> QED BY <1>1, OnlyOneWorks DEF DownloadInv

LEMMA BeginDownloadInv ==
  ASSUME OwnInv, NEW p \in Installers, BeginDownload(p)
  PROVE  OwnInv'
<1>1. call' = [pc |-> "attempt", attempt |-> 1, cancelled |-> FALSE]
  BY DEF BeginDownload, NoCall
<1>2. UNCHANGED <<transfer, cancelling>> /\ temp' = Absent
      /\ transfer.task = "none" /\ cancelling = "none"
  BY DEF BeginDownload, At, OwnInv, TaskFollowsCall
<1>3. DownloadTypeOK'
  BY <1>1, <1>2, DownloadAssumption DEF OwnInv, DownloadTypeOK
<1>4. TaskFollowsCall' /\ FileFollowsCall' /\ CancelIsSeen'
  BY <1>1, <1>2 DEF TaskFollowsCall, FileFollowsCall,
     CancelIsSeen, HandlerIsInstalled
<1> QED BY <1>3, <1>4 DEF OwnInv

LEMMA BeginAttemptInv == ASSUME OwnInv, BeginAttempt PROVE OwnInv'
<1>1. DownloadTypeOK'
  BY DownloadAssumption DEF BeginAttempt, At, Goto, OwnInv, DownloadTypeOK
<1>2. TaskFollowsCall' /\ CancelIsSeen'
  BY DEF BeginAttempt, At, Goto, OwnInv, DownloadTypeOK, TaskFollowsCall, CancelIsSeen,
     HandlerIsInstalled
<1>3. FileFollowsCall'
  BY DEF BeginAttempt, At, Goto, OwnInv, DownloadTypeOK, TaskFollowsCall, FileFollowsCall
<1> QED BY <1>1, <1>2, <1>3 DEF OwnInv

LEMMA OpenFileInv == ASSUME OwnInv, OpenFile PROVE OwnInv'
<1>1. DownloadTypeOK'
  BY DownloadAssumption DEF OpenFile, At, Goto, NoTransfer, Absent, OwnInv, DownloadTypeOK
<1>2. TaskFollowsCall' /\ CancelIsSeen'
  BY DEF OpenFile, At, Goto, NoTransfer, Absent, OwnInv, DownloadTypeOK, TaskFollowsCall,
     CancelIsSeen, HandlerIsInstalled
<1>3. FileFollowsCall'
  BY DEF OpenFile, At, Goto, NoTransfer, Absent, OwnInv, DownloadTypeOK, TaskFollowsCall,
     FileFollowsCall
<1> QED BY <1>1, <1>2, <1>3 DEF OwnInv

LEMMA InstallHandlerInv == ASSUME OwnInv, InstallHandler PROVE OwnInv'
<1>1. DownloadTypeOK'
  BY DownloadAssumption DEF InstallHandler, At, Goto, OwnInv, DownloadTypeOK
<1>2. TaskFollowsCall' /\ CancelIsSeen'
  BY DEF InstallHandler, At, Goto, OwnInv, DownloadTypeOK, TaskFollowsCall, CancelIsSeen,
     HandlerIsInstalled
<1>3. FileFollowsCall'
  BY DEF InstallHandler, At, Goto, OwnInv, DownloadTypeOK, TaskFollowsCall,
     FileFollowsCall
<1> QED BY <1>1, <1>2, <1>3 DEF OwnInv

LEMMA StartInv == ASSUME OwnInv, Start PROVE OwnInv'
<1>1. DownloadTypeOK'
  BY DownloadAssumption DEF Start, At, Goto, OwnInv, DownloadTypeOK
<1>2. TaskFollowsCall' /\ CancelIsSeen'
  BY DEF Start, At, Goto, OwnInv, DownloadTypeOK, TaskFollowsCall, CancelIsSeen,
     HandlerIsInstalled
<1>3. FileFollowsCall'
  BY DEF Start, At, Goto, OwnInv, DownloadTypeOK, TaskFollowsCall, FileFollowsCall
<1> QED BY <1>1, <1>2, <1>3 DEF OwnInv

LEMMA ResumeTaskInv == ASSUME OwnInv, ResumeTask PROVE OwnInv'
<1>1. CASE At("resume")
  BY <1>1 DEF ResumeTask, At, Goto, Resumed, OwnInv, DownloadTypeOK, TaskFollowsCall,
     FileFollowsCall, CancelIsSeen, HandlerIsInstalled
<1>2. CASE At("drop")
  <2>1. /\ call' = [call EXCEPT !.pc = "waiting"] /\ transfer' = Cancelled(transfer)
        /\ UNCHANGED <<cancelling, temp>> /\ call.pc = "drop"
    BY <1>2 DEF ResumeTask, At, Goto
  <2>2. /\ transfer'.task = IF transfer.task \in {"suspended", "running"}
                            THEN "ending" ELSE transfer.task
        /\ transfer'.rejection = transfer.rejection
        /\ transfer'.received = transfer.received
        /\ transfer'.result = transfer.result
    BY <2>1 DEF Cancelled, OwnInv, DownloadTypeOK
  <2>3. DownloadTypeOK'
    BY <2>1 DEF Cancelled, Errors, OwnInv, DownloadTypeOK
  <2>4. TaskFollowsCall' /\ FileFollowsCall' /\ CancelIsSeen'
    BY <2>1, <2>2 DEF OwnInv, DownloadTypeOK, TaskFollowsCall, FileFollowsCall,
       CancelIsSeen, HandlerIsInstalled
  <2> QED BY <2>3, <2>4 DEF OwnInv
<1> QED BY <1>1, <1>2 DEF ResumeTask, At

LEMMA EndAttemptInv == ASSUME OwnInv, EndAttempt PROVE OwnInv'
<1>1. DownloadTypeOK'
  BY DownloadAssumption DEF EndAttempt, At, Goto, OwnInv, DownloadTypeOK
<1>2. TaskFollowsCall' /\ CancelIsSeen'
  BY DEF EndAttempt, At, Goto, OwnInv, DownloadTypeOK, TaskFollowsCall, CancelIsSeen,
     HandlerIsInstalled
<1>3. FileFollowsCall'
  BY DEF EndAttempt, At, Goto, OwnInv, DownloadTypeOK, TaskFollowsCall, FileFollowsCall
<1> QED BY <1>1, <1>2, <1>3 DEF OwnInv

LEMMA BackoffInv == ASSUME OwnInv, Backoff PROVE OwnInv'
<1>1. /\ call.pc = "backoff" /\ call.attempt < Attempts /\ call.attempt + 1 \in 0..Attempts
      /\ transfer.task = "none" /\ cancelling = "none" /\ temp = Absent
      /\ UNCHANGED <<transfer, cancelling, temp>>
  BY DownloadAssumption
  DEF Backoff, At, OwnInv, DownloadTypeOK, TaskFollowsCall, FileFollowsCall
<1>2. call' = [call EXCEPT !.pc = "threw"]
      \/ call' = [call EXCEPT !.pc = "attempt", !.attempt = call.attempt + 1]
  BY DEF Backoff, Goto
<1>3. /\ DownloadTypeOK'
      /\ call'.pc \in {"threw", "attempt"}
  <2>1. CASE call' = [call EXCEPT !.pc = "threw"]
    BY <1>1, <2>1 DEF OwnInv, DownloadTypeOK
  <2>2. CASE call' = [call EXCEPT !.pc = "attempt", !.attempt = call.attempt + 1]
    <3>1. call' = [pc |-> "attempt", attempt |-> call.attempt + 1, cancelled |-> call.cancelled]
      BY <2>2 DEF OwnInv, DownloadTypeOK
    <3> QED BY <1>1, <3>1 DEF OwnInv, DownloadTypeOK
  <2> QED BY <1>2, <2>1, <2>2
<1>4. TaskFollowsCall' /\ FileFollowsCall' /\ CancelIsSeen'
  BY <1>1, <1>3 DEF TaskFollowsCall, FileFollowsCall,
     CancelIsSeen, HandlerIsInstalled
<1> QED BY <1>3, <1>4 DEF OwnInv

LEMMA EndDownloadInv == ASSUME OwnInv, EndDownload PROVE OwnInv'
<1>1. DownloadTypeOK'
  BY DownloadAssumption DEF EndDownload, At, Goto, OwnInv, DownloadTypeOK
<1>2. TaskFollowsCall' /\ CancelIsSeen'
  BY DEF EndDownload, At, Goto, OwnInv, DownloadTypeOK, TaskFollowsCall, CancelIsSeen,
     HandlerIsInstalled
<1>3. FileFollowsCall'
  BY DEF EndDownload, At, Goto, OwnInv, DownloadTypeOK, TaskFollowsCall, FileFollowsCall
<1> QED BY <1>1, <1>2, <1>3 DEF OwnInv

LEMMA CancelInstallInv == ASSUME OwnInv, CancelInstall PROVE OwnInv'
<1>1. /\ call' = [pc |-> call.pc, attempt |-> call.attempt, cancelled |-> TRUE]
      /\ call \in [pc : {"attempt", "open", "handler", "start", "resume", "drop", "waiting",
                         "returned", "backoff"}, attempt : 0..Attempts, cancelled : BOOLEAN]
  BY DEF CancelInstall, OwnInv, DownloadTypeOK
<1>2. cancelling' = IF call.pc \in {"start", "resume", "drop", "waiting"} THEN "lock" ELSE "none"
  BY DEF CancelInstall, HandlerIsInstalled
<1>3. UNCHANGED <<transfer, temp>>
  BY DEF CancelInstall
<1> QED BY <1>1, <1>2, <1>3 DEF OwnInv, DownloadTypeOK, TaskFollowsCall,
     FileFollowsCall, CancelIsSeen, HandlerIsInstalled

LEMMA OnCancelInv == ASSUME OwnInv, OnCancel PROVE OwnInv'
<1>1. /\ cancelling = "lock" /\ UNCHANGED <<call, temp>>
      /\ transfer' = RejectAs(transfer, "cancelled") /\ "cancelled" \in Errors
      /\ cancelling' = IF transfer.task \in {"none", "over"} THEN "none" ELSE "task"
  BY DEF OnCancel, Errors
<1>2. /\ transfer' \in Transfer /\ transfer'.rejection \in Errors
      /\ transfer'.task = transfer.task
      /\ transfer'.received = transfer.received /\ transfer'.result = transfer.result
  BY <1>1, TransferType, RejectedTask DEF OwnInv
<1>3. DownloadTypeOK'
  BY <1>1, <1>2 DEF OwnInv, DownloadTypeOK, Transfer
<1>4. TaskFollowsCall' /\ CancelIsSeen'
  BY <1>1, <1>2 DEF Errors, Transfer, OwnInv, TaskFollowsCall, CancelIsSeen, HandlerIsInstalled
<1>5. FileFollowsCall'
  BY <1>1, <1>2 DEF OwnInv, TaskFollowsCall, FileFollowsCall
<1> QED BY <1>3, <1>4, <1>5 DEF OwnInv

LEMMA CancelTaskInv == ASSUME OwnInv, CancelTask PROVE OwnInv'
<1>1. /\ cancelling = "task" /\ cancelling' = "none" /\ UNCHANGED <<call, temp>>
      /\ transfer' = Cancelled(transfer) /\ transfer \in Transfer
  BY TransferType DEF CancelTask, OwnInv
<1>2. /\ transfer' \in Transfer
      /\ transfer'.task = IF transfer.task \in {"suspended", "running"}
                          THEN "ending" ELSE transfer.task
      /\ transfer'.rejection = transfer.rejection
      /\ transfer'.received = transfer.received /\ transfer'.result = transfer.result
  BY <1>1, CancelledTask
<1>3. DownloadTypeOK'
  BY <1>1, <1>2 DEF OwnInv, DownloadTypeOK, Transfer
<1>4. TaskFollowsCall' /\ CancelIsSeen'
  BY <1>1, <1>2 DEF Transfer, OwnInv, TaskFollowsCall, CancelIsSeen, HandlerIsInstalled
<1>5. FileFollowsCall'
  BY <1>1, <1>2 DEF OwnInv, TaskFollowsCall, FileFollowsCall
<1> QED BY <1>3, <1>4, <1>5 DEF OwnInv

LEMMA ReceiveResponseInv == ASSUME OwnInv, ReceiveResponse PROVE OwnInv'
<1>1. CASE transfer' = [transfer EXCEPT !.accepted = TRUE]
  <2>1. DownloadTypeOK'
    BY <1>1 DEF ReceiveResponse, DelegateStep, OwnInv, DownloadTypeOK
  <2>2. TaskFollowsCall' /\ FileFollowsCall' /\ CancelIsSeen'
    BY <1>1 DEF ReceiveResponse, DelegateStep, OwnInv, DownloadTypeOK, TaskFollowsCall,
       FileFollowsCall, CancelIsSeen, HandlerIsInstalled
  <2> QED BY <2>1, <2>2 DEF OwnInv
<1>2. ASSUME NEW error \in {"retryable", "fatal"},
             transfer' = Cancelled(RejectAs(transfer, error))
      PROVE  OwnInv'
  BY <1>2, RefusedInv DEF ReceiveResponse, DelegateStep, Errors
<1> QED BY <1>1, <1>2 DEF ReceiveResponse

LEMMA ReceiveDataInv == ASSUME OwnInv, ReceiveData PROVE OwnInv'
<1>1. DownloadTypeOK'
  BY DownloadAssumption DEF ReceiveData, At, Goto, DelegateStep, Absent, OwnInv,
     DownloadTypeOK
<1>2. TaskFollowsCall' /\ CancelIsSeen'
  BY DEF ReceiveData, At, Goto, DelegateStep, Absent, OwnInv, DownloadTypeOK,
     TaskFollowsCall, CancelIsSeen, HandlerIsInstalled
<1>3. FileFollowsCall'
  BY DEF ReceiveData, At, Goto, DelegateStep, Absent, OwnInv, DownloadTypeOK,
     TaskFollowsCall, FileFollowsCall
<1> QED BY <1>1, <1>2, <1>3 DEF OwnInv

LEMMA RefuseDataInv == ASSUME OwnInv, RefuseData PROVE OwnInv'
BY RefusedInv DEF RefuseData, DelegateStep, Errors

LEMMA ConnectionEndsInv == ASSUME OwnInv, ConnectionEnds PROVE OwnInv'
<1>1. PICK error \in {"none", "retryable", "fatal"} :
        transfer' = [transfer EXCEPT !.task = "ending", !.error = error]
  BY DEF ConnectionEnds
<1>2. transfer.task = "running" /\ UNCHANGED <<call, cancelling, temp>>
  BY DEF ConnectionEnds, DelegateStep
<1>3. /\ transfer' \in Transfer /\ transfer'.task = "ending"
      /\ transfer'.rejection = transfer.rejection
      /\ transfer'.received = transfer.received /\ transfer'.result = transfer.result
  BY <1>1, TransferType DEF OwnInv, Transfer, Errors
<1>4. DownloadTypeOK'
  BY <1>2, <1>3 DEF OwnInv, DownloadTypeOK, Transfer
<1>5. TaskFollowsCall' /\ FileFollowsCall' /\ CancelIsSeen'
  BY <1>2, <1>3 DEF OwnInv, TaskFollowsCall, FileFollowsCall, CancelIsSeen, HandlerIsInstalled
<1> QED BY <1>4, <1>5 DEF OwnInv

LEMMA CompleteInv == ASSUME OwnInv, Complete PROVE OwnInv'
<1>1. /\ transfer.task = "ending"
      /\ transfer' = [transfer EXCEPT !.task = "closing", !.result = Outcome(transfer)]
      /\ UNCHANGED <<call, cancelling, temp>>
  BY DEF Complete, DelegateStep
<1>2. /\ Outcome(transfer) \in {"success"} \cup Errors
      /\ Outcome(transfer) = "success" => transfer.received = Parts
  BY DEF Outcome, Errors, OwnInv, DownloadTypeOK
<1>3. /\ transfer' \in [
           task : {"closing"}, rejection : {transfer.rejection}, error : {transfer.error},
           accepted : {transfer.accepted}, received : {transfer.received},
           result : {Outcome(transfer)}]
  BY <1>1 DEF OwnInv, DownloadTypeOK
<1>4. DownloadTypeOK'
  BY <1>1, <1>2, <1>3 DEF OwnInv, DownloadTypeOK
<1>5. TaskFollowsCall' /\ CancelIsSeen'
  BY <1>1, <1>3 DEF OwnInv, TaskFollowsCall, CancelIsSeen, HandlerIsInstalled
<1>6. FileFollowsCall'
  BY <1>1, <1>2, <1>3 DEF OwnInv, TaskFollowsCall, FileFollowsCall
<1> QED BY <1>4, <1>5, <1>6 DEF OwnInv

LEMMA CloseFileInv == ASSUME OwnInv, CloseFile PROVE OwnInv'
<1>1. DownloadTypeOK'
  BY DownloadAssumption DEF CloseFile, At, Goto, DelegateStep, Absent, OwnInv,
     DownloadTypeOK
<1>2. TaskFollowsCall' /\ CancelIsSeen'
  BY DEF CloseFile, At, Goto, DelegateStep, Absent, OwnInv, DownloadTypeOK,
     TaskFollowsCall, CancelIsSeen, HandlerIsInstalled
<1>3. FileFollowsCall'
  BY DEF CloseFile, At, Goto, DelegateStep, Absent, OwnInv, DownloadTypeOK,
     TaskFollowsCall, FileFollowsCall
<1> QED BY <1>1, <1>2, <1>3 DEF OwnInv

LEMMA ResumeCallerInv == ASSUME OwnInv, ResumeCaller PROVE OwnInv'
<1>1. transfer' = [task |-> "none", rejection |-> "none", error |-> "none",
                   accepted |-> FALSE, received |-> 0, result |-> transfer.result]
  BY DEF ResumeCaller, NoTransfer
<1>2. /\ call' = [call EXCEPT !.pc = "returned"] /\ cancelling' = "none" /\ temp' = temp
      /\ temp = IF transfer.result = "success" THEN Parts ELSE Absent
  BY DEF ResumeCaller, At, Goto, OwnInv, FileFollowsCall
<1>3. DownloadTypeOK'
  BY <1>1, <1>2, DownloadAssumption DEF OwnInv, DownloadTypeOK
<1>4. TaskFollowsCall' /\ FileFollowsCall' /\ CancelIsSeen'
  BY <1>1, <1>2 DEF OwnInv, DownloadTypeOK, TaskFollowsCall, FileFollowsCall,
     CancelIsSeen, HandlerIsInstalled
<1> QED BY <1>3, <1>4 DEF OwnInv

LEMMA DownloadStepInv ==
  ASSUME DownloadInv, InstallInv', DownloadStep
  PROVE  DownloadInv'
<1>1. OwnInv
  BY DEF DownloadInv, OwnInv
<1>2. OwnInv'
  BY <1>1, BeginDownloadInv, BeginAttemptInv, OpenFileInv, InstallHandlerInv, StartInv,
     ResumeTaskInv, EndAttemptInv, BackoffInv, EndDownloadInv, CancelInstallInv,
     OnCancelInv, CancelTaskInv, ReceiveResponseInv, ReceiveDataInv, RefuseDataInv,
     ConnectionEndsInv, CompleteInv, CloseFileInv, ResumeCallerInv
  DEF DownloadStep
<1>3. DownloadIsOwned'
  BY DownloadStutters, NobodyWrites DEF vars, DownloadIsOwned
<1> QED BY <1>2, <1>3 DEF DownloadInv, OwnInv

LEMMA DownloadNextInv == DownloadInv /\ [DownloadNext]_allVars => DownloadInv'
<1> SUFFICES ASSUME DownloadInv, [DownloadNext]_allVars PROVE DownloadInv'
  OBVIOUS
<1>1. InstallInv'
  BY StepIsInstall, NextInv DEF DownloadInv
<1>2. CASE DownloadStep
  BY <1>1, <1>2, DownloadStepInv
<1>3. ASSUME NEW p \in Installers, InstallerMoves(p) PROVE DownloadInv'
  BY <1>1, <1>3, InstallerMovesInv
<1>4. CASE PowerIsLost
  <2>1. /\ call' = NoCall /\ transfer' = NoTransfer /\ cancelling' = "none"
        /\ temp' \in {Absent, temp}
        /\ \A p \in Installers : run'[p].pc = "idle"
    BY <1>4 DEF PowerIsLost, EndsTheDownload, PowerLoss, Idle
  <2>2. DownloadTypeOK'
    BY <2>1, DownloadAssumption DEF DownloadInv, DownloadTypeOK, NoCall, NoTransfer
  <2>3. DownloadIsOwned' /\ TaskFollowsCall' /\ FileFollowsCall' /\ CancelIsSeen'
    BY <2>1 DEF NoCall, NoTransfer, DownloadIsOwned, TaskFollowsCall, FileFollowsCall,
       CancelIsSeen, HandlerIsInstalled
  <2> QED BY <1>1, <2>2, <2>3 DEF DownloadInv
<1>5. ASSUME LoseOutputs \/ \E r \in Ranges : Damage(r), UNCHANGED downloadVars
      PROVE  DownloadInv'
  BY <1>1, <1>5 DEF LoseOutputs, Damage, downloadVars, DownloadInv, DownloadTypeOK, DownloadIsOwned,
     TaskFollowsCall, FileFollowsCall, CancelIsSeen, HandlerIsInstalled
<1>6. CASE UNCHANGED allVars
  BY <1>1, <1>6 DEF allVars, vars, downloadVars, DownloadInv, DownloadTypeOK,
     DownloadIsOwned, TaskFollowsCall, FileFollowsCall, CancelIsSeen, HandlerIsInstalled
<1> QED BY <1>2, <1>3, <1>4, <1>5, <1>6 DEF DownloadNext

-----------------------------------------------------------------------------
(* The theorems.                                                           *)

\* An installation with its retries, its transfer and its cancelling threads is
\* an installation as InstallTransaction describes it, which sees a range that
\* is there or a download that failed (copyBatch): what is proved of that holds
\* of this.
THEOREM DownloadsAreInstallations == DownloadSpec => Spec
<1>1. DownloadInit => Init
  BY DEF DownloadInit
<1>2. [DownloadNext]_allVars => [Next]_vars
  BY StepIsInstall
<1> QED BY <1>1, <1>2, PTL DEF DownloadSpec, Spec

\* The call, the transfer, the cancelling thread and the temporary file agree
\* at every step, for any number of attempts and of parts.
THEOREM DownloadInvariant == DownloadSpec => []DownloadInv
BY DownloadInitInv, DownloadNextInv, PTL DEF DownloadSpec

\* A range is copied into a model only when all of it was received, and every
\* attempt finds the place of its file free (RemoteRangeTransferDelegate.finish
\* removes the file before it resumes the caller).
THEOREM OnlyWholeRangesAreCopied == DownloadSpec => []RangesArriveWhole
<1>1. DownloadInv => RangesArriveWhole
  BY DEF DownloadInv, DownloadIsOwned, FileFollowsCall, RangesArriveWhole, At,
     HandlerIsInstalled
<1> QED BY <1>1, DownloadInvariant, PTL

\* A cancellation that meets the start of a transfer ends it, in whatever order
\* the two take the lock (start looks at the rejection, cancel at the task).
THEOREM CancellationIsNotLost == DownloadSpec => []CancelReachesTransfer
<1>1. DownloadInv => CancelReachesTransfer
  BY DEF DownloadInv, CancelIsSeen, CancelReachesTransfer, At
<1> QED BY <1>1, DownloadInvariant, PTL
=============================================================================
