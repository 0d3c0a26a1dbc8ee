-------------------------- MODULE HostWorkerProofs --------------------------
(***************************************************************************)
(* Proofs about the SRAM writer and about the emulation thread that drives *)
(* it, for every set of ROMs, names and contents, every failure and every  *)
(* bound on the sequence numbers.                                          *)
(***************************************************************************)
EXTENDS HostWorker, TLAPS

-----------------------------------------------------------------------------
(* The writer alone.  None of its safety properties is inductive: each     *)
(* depends on where the one snapshot in flight is.  The inductive          *)
(* invariant SramInv says so, part by part.                                *)

\* The slot holds the newest snapshot, the writer an older one that is newer
\* than everything completed; what is in neither has been completed.
SeqOrder ==
    /\ completed <= latest.seq
    /\ pending # NoJob => pending = latest /\ completed < latest.seq
    /\ job # NoJob => completed < job.seq /\ job.seq <= latest.seq
    /\ job # NoJob /\ pending # NoJob => job.seq < latest.seq
    /\ job # NoJob /\ pending = NoJob => job = latest
    /\ job = NoJob /\ pending = NoJob => completed = latest.seq

\* The control state of the writer says whether it holds a snapshot.
WriterHolds ==
    /\ job = NoJob <=> writer \in {"wait", "exited"}
    /\ writer = "exited" => pending = NoJob /\ stopping

\* What the writer has achieved so far for the snapshot it holds.
WriterProgress ==
    /\ writer = "written" => temp = File(job.data, FALSE)
    /\ writer = "synced" => temp = File(job.data, TRUE)
    /\ writer \in {"renamed", "saved"} => disk[job.name] = File(job.data, TRUE)
    /\ writer = "saved" /\ DirFsync => stable = disk

\* Nothing unsynced is ever given a name.
FilesComplete ==
    \A n \in Names :
        /\ disk[n].synced /\ disk[n].data # Torn
        /\ stable[n].synced /\ stable[n].data # Torn

SramInv ==
    /\ TypeOK
    /\ SeqOrder
    /\ WriterHolds
    /\ WriterProgress
    /\ FilesComplete
    /\ AcknowledgedIsDurable
    /\ NeverSuperseded

-----------------------------------------------------------------------------
(* Facts about values *)

LEMMA JobFacts ==
    /\ NoJob.seq = 0
    /\ NoJob \notin Snapshots
    /\ \A s \in Snapshots :
         s.seq \in Nat \ {0} /\ s.seq <= MaxSeq /\ s.name \in Names
         /\ s.data \in Data /\ s # NoJob
<1>1. NoJob.seq = 0
  BY DEF NoJob
<1>2. \A s \in Snapshots : s.seq \in 1..MaxSeq /\ s.name \in Names /\ s.data \in Data
  BY DEF Snapshots
<1>3. \A s \in Snapshots : s.seq \in Nat \ {0} /\ s.seq <= MaxSeq
  BY <1>2, SramAssumption
<1>4. NoJob \notin Snapshots
  BY <1>1, <1>3
<1> QED
  BY <1>1, <1>2, <1>3, <1>4

\* The fields of a snapshot.
LEMMA SnapshotFacts ==
    ASSUME NEW n \in Names, NEW d \in Data, NEW s \in 1..MaxSeq
    PROVE  /\ Snapshot(n, d, s) \in Snapshots
           /\ Snapshot(n, d, s).seq = s
           /\ Snapshot(n, d, s).name = n
           /\ Snapshot(n, d, s).data = d
BY DEF Snapshot, Snapshots

\* The fields of a file.
LEMMA FileFacts ==
    ASSUME NEW d \in Data \cup {NoData, Torn}, NEW b \in BOOLEAN
    PROVE  /\ File(d, b) \in Files
           /\ File(d, b).data = d /\ File(d, b).synced = b
BY DEF File, Files

\* A missing file is a file.
LEMMA MissingFacts ==
    /\ Missing \in Files
    /\ Missing.synced /\ Missing.data # Torn
BY SramAssumption DEF Missing, File, Files

-----------------------------------------------------------------------------
(* The initial states *)

LEMMA InitInv == Init => SramInv
<1> SUFFICES ASSUME Init PROVE SramInv
  OBVIOUS
<1> USE DEF Init
<1>1. \A f \in {Missing} \cup {File(d, TRUE) : d \in Data} :
          f \in Files /\ f.synced /\ f.data # Torn
  <2> SUFFICES ASSUME NEW f \in {Missing} \cup {File(d, TRUE) : d \in Data}
               PROVE  f \in Files /\ f.synced /\ f.data # Torn
    OBVIOUS
  <2>1. CASE f = Missing
    BY <2>1, MissingFacts
  <2>2. CASE f \in {File(d, TRUE) : d \in Data}
    <3>1. PICK d \in Data : f = File(d, TRUE)
      BY <2>2
    <3>2. d \in Data \cup {NoData, Torn} /\ d # Torn
      BY SramAssumption
    <3> QED
      BY <3>1, <3>2, FileFacts
  <2> QED
    BY <2>1, <2>2
<1>2. disk \in [Names -> Files]
  BY <1>1
<1>3. FilesComplete
  BY <1>1 DEF FilesComplete
<1>4. TypeOK
  <2>1. completed \in 0..MaxSeq /\ waitSeq \in 0..MaxSeq
    BY SramAssumption
  <2>2. completedErr \in BOOLEAN /\ stopping \in BOOLEAN /\ writer \in WriterStates
    BY DEF WriterStates
  <2> QED
    BY <1>2, <2>1, <2>2, MissingFacts DEF TypeOK
<1>5. SeqOrder /\ NeverSuperseded /\ AcknowledgedIsDurable
  BY JobFacts DEF SeqOrder, NeverSuperseded, AcknowledgedIsDurable, Acknowledged
<1>6. WriterHolds /\ WriterProgress
  BY DEF WriterHolds, WriterProgress
<1> QED
  BY <1>3, <1>4, <1>5, <1>6 DEF SramInv

-----------------------------------------------------------------------------
(* The producer *)

\* Queueing a snapshot: the slot becomes the newest, nothing awaited is lost.
LEMMA QueueStep ==
    ASSUME SramInv, QueueSnapshot PROVE SramInv'
<1> USE DEF SramInv
<1>1. PICK n \in Names, d \in Data, wait \in BOOLEAN : Queue(n, d, wait)
  BY DEF QueueSnapshot
<1>2. UNCHANGED <<stopping, completed, completedErr, writer, job, temp, disk,
                  stable>>
  BY DEF QueueSnapshot, writerVars, fileVars
<1>3. latest.seq \in Nat /\ latest.seq + 1 \in 1..MaxSeq
  BY <1>1, JobFacts, SramAssumption DEF Queue, TypeOK
<1>4. /\ latest' \in Snapshots /\ latest'.seq = latest.seq + 1
      /\ pending' = latest'
      /\ waitSeq' \in {0, latest'.seq}
  BY <1>1, <1>3, SnapshotFacts DEF Queue
<1>5. TypeOK'
  <2>1. waitSeq' \in 0..MaxSeq
    BY <1>3, <1>4, SramAssumption
  <2> QED
    BY <1>2, <1>4, <2>1 DEF TypeOK
<1>6. SeqOrder'
  BY <1>2, <1>3, <1>4, JobFacts DEF SeqOrder, TypeOK
<1>7. WriterHolds'
  BY <1>1, <1>2, <1>4 DEF WriterHolds, Queue
<1>8. WriterProgress' /\ FilesComplete'
  BY <1>2 DEF WriterProgress, FilesComplete
<1>9. completed \in Nat /\ completed < latest'.seq
  BY <1>3, <1>4, SramAssumption DEF SeqOrder, TypeOK
<1>10. AcknowledgedIsDurable'
  BY <1>2, <1>9 DEF AcknowledgedIsDurable, Acknowledged
<1>11. NeverSuperseded'
  BY <1>2, <1>4, <1>9 DEF NeverSuperseded
<1> QED
  BY <1>5, <1>6, <1>7, <1>8, <1>10, <1>11

\* Waiting, being released and asking the writer to stop move no data.
LEMMA WaitStep ==
    ASSUME SramInv, WaitForLatest \/ WaitReturns \/ StopWriter
    PROVE  SramInv'
<1> USE DEF SramInv, writerVars, fileVars
<1>1. UNCHANGED <<latest, pending, completed, completedErr, writer, job, temp,
                  disk, stable>>
  BY DEF WaitForLatest, AwaitLatest, WaitReturns, StopWriter
<1>2. waitSeq' \in {0, latest.seq} /\ stopping' \in {stopping, TRUE}
  BY DEF WaitForLatest, AwaitLatest, WaitReturns, StopWriter
<1>3. latest.seq \in 0..MaxSeq /\ latest.seq \in Nat /\ completed \in Nat
  BY JobFacts, SramAssumption DEF TypeOK
<1>4. TypeOK'
  <2>1. waitSeq' \in 0..MaxSeq
    BY <1>2, <1>3, SramAssumption
  <2>2. stopping' \in BOOLEAN
    BY <1>2 DEF TypeOK
  <2> QED
    BY <1>1, <2>1, <2>2 DEF TypeOK
<1>5. SeqOrder' /\ WriterProgress' /\ FilesComplete' /\ AcknowledgedIsDurable'
  BY <1>1 DEF SeqOrder, WriterProgress, FilesComplete, AcknowledgedIsDurable,
              Acknowledged
<1>6. WriterHolds'
  <2>1. stopping => stopping'
    BY DEF WaitForLatest, AwaitLatest, WaitReturns, StopWriter
  <2> QED
    BY <1>1, <2>1 DEF WriterHolds
<1>7. NeverSuperseded'
  <2>1. completed <= latest.seq
    BY DEF SeqOrder
  <2> QED
    BY <1>1, <1>2, <1>3, <2>1 DEF NeverSuperseded
<1> QED
  BY <1>4, <1>5, <1>6, <1>7

-----------------------------------------------------------------------------
(* The writer thread *)

LEMMA TakeStep ==
    ASSUME SramInv, TakeSnapshot PROVE SramInv'
<1> USE DEF SramInv, TakeSnapshot, fileVars
<1>1. job = NoJob /\ pending = latest /\ latest \in Snapshots
  BY DEF WriterHolds, SeqOrder, TypeOK
<1>2. TypeOK'
  BY <1>1 DEF TypeOK, WriterStates
<1>3. SeqOrder'
  BY <1>1, JobFacts, SramAssumption DEF SeqOrder, TypeOK
<1>4. WriterHolds' /\ WriterProgress' /\ FilesComplete'
  BY <1>1, JobFacts DEF WriterHolds, WriterProgress, FilesComplete
<1>5. AcknowledgedIsDurable' /\ NeverSuperseded'
  BY DEF AcknowledgedIsDurable, Acknowledged, NeverSuperseded
<1> QED
  BY <1>2, <1>3, <1>4, <1>5

\* Steps that change at most the temporary file and the control state.
LEMMA TempStep ==
    ASSUME SramInv, WriteTemp \/ SyncTemp \/ WriteFails \/ WriterExits
    PROVE  SramInv'
<1> USE DEF SramInv, producerVars, fileVars
<1>1. UNCHANGED <<latest, pending, stopping, waitSeq, completed, completedErr,
                  job, disk, stable>>
  BY DEF WriteTemp, SyncTemp, WriteFails, GiveUp, WriterExits
<1>2. SeqOrder' /\ FilesComplete' /\ AcknowledgedIsDurable' /\ NeverSuperseded'
  BY <1>1 DEF SeqOrder, FilesComplete, AcknowledgedIsDurable, Acknowledged,
              NeverSuperseded
<1>3. ASSUME WriteTemp PROVE TypeOK' /\ WriterHolds' /\ WriterProgress'
  <2>1. job \in Snapshots /\ job.data \in Data \cup {NoData, Torn}
    BY <1>3, JobFacts DEF WriteTemp, WriterHolds, TypeOK
  <2>2. temp' \in Files
    BY <1>3, <2>1, FileFacts DEF WriteTemp
  <2> QED
    BY <1>1, <1>3, <2>2
       DEF WriteTemp, TypeOK, WriterHolds, WriterProgress, WriterStates
<1>4. ASSUME SyncTemp PROVE TypeOK' /\ WriterHolds' /\ WriterProgress'
  <2>1. job \in Snapshots /\ job.data \in Data \cup {NoData, Torn}
    BY <1>4, JobFacts DEF SyncTemp, WriterHolds, TypeOK
  <2>2. temp.data = job.data
    BY <1>4, <2>1, FileFacts DEF SyncTemp, WriterProgress
  <2>3. temp' = File(job.data, TRUE) /\ temp' \in Files
    BY <1>4, <2>1, <2>2, FileFacts DEF SyncTemp
  <2> QED
    BY <1>1, <1>4, <2>3
       DEF SyncTemp, TypeOK, WriterHolds, WriterProgress, WriterStates
<1>5. ASSUME WriteFails PROVE TypeOK' /\ WriterHolds' /\ WriterProgress'
  BY <1>1, <1>5, MissingFacts
     DEF WriteFails, GiveUp, TypeOK, WriterHolds, WriterProgress, WriterStates
<1>6. ASSUME WriterExits PROVE TypeOK' /\ WriterHolds' /\ WriterProgress'
  BY <1>1, <1>6
     DEF WriterExits, TypeOK, WriterHolds, WriterProgress, WriterStates
<1> QED
  BY <1>2, <1>3, <1>4, <1>5, <1>6

\* The name now means the new contents; they were synced before.
LEMMA RenameStep ==
    ASSUME SramInv, RenameTemp PROVE SramInv'
<1> USE DEF SramInv, RenameTemp, producerVars
<1>1. job \in Snapshots /\ job.name \in Names /\ job.data \in Data
  BY JobFacts DEF WriterHolds, TypeOK
<1>2. /\ temp = File(job.data, TRUE) /\ temp \in Files
      /\ temp.synced /\ temp.data # Torn
  <2>1. job.data \in Data \cup {NoData, Torn} /\ job.data # Torn
    BY <1>1, SramAssumption
  <2> QED
    BY <2>1, FileFacts DEF WriterProgress
<1>3. disk'[job.name] = temp
  BY <1>1 DEF TypeOK
<1>4. \A n \in Names : disk'[n] \in {temp, disk[n]}
  BY <1>1 DEF TypeOK
<1>5. TypeOK'
  BY <1>1, <1>2, MissingFacts DEF TypeOK, WriterStates
<1>6. SeqOrder' /\ WriterHolds' /\ NeverSuperseded'
  BY DEF SeqOrder, WriterHolds, NeverSuperseded
<1>7. WriterProgress' /\ FilesComplete'
  BY <1>2, <1>3, <1>4 DEF WriterProgress, FilesComplete
<1>8. ~Acknowledged'
  BY <1>1, JobFacts, SramAssumption DEF Acknowledged, SeqOrder, TypeOK
<1> QED
  BY <1>5, <1>6, <1>7, <1>8 DEF AcknowledgedIsDurable

\* The directory entry reaches the medium.
LEMMA DirectoryStep ==
    ASSUME SramInv, SyncDirectory PROVE SramInv'
<1> USE DEF SramInv, SyncDirectory, producerVars
<1>1. TypeOK'
  BY DEF TypeOK, WriterStates
<1>2. SeqOrder' /\ WriterHolds' /\ NeverSuperseded' /\ WriterProgress'
  BY DEF SeqOrder, WriterHolds, NeverSuperseded, WriterProgress
<1>3. FilesComplete'
  BY DEF FilesComplete
<1>4. job \in Snapshots
  BY DEF WriterHolds, TypeOK
<1>5. ~Acknowledged'
  BY <1>4, JobFacts, SramAssumption DEF Acknowledged, SeqOrder, TypeOK
<1> QED
  BY <1>1, <1>2, <1>3, <1>5 DEF AcknowledgedIsDurable

\* The acknowledgement: only here can AcknowledgedIsDurable become relevant,
\* and then the writer's own snapshot is the newest.
LEMMA PublishStep ==
    ASSUME SramInv, Publish PROVE SramInv'
<1> USE DEF SramInv, Publish, producerVars, fileVars
<1>1. job \in Snapshots /\ job # NoJob
  BY JobFacts DEF WriterHolds, TypeOK
<1>2. /\ job.seq \in 1..MaxSeq /\ job.seq \in Nat /\ completed < job.seq
      /\ job.seq <= latest.seq /\ latest.seq \in Nat
  BY <1>1, JobFacts, SramAssumption DEF SeqOrder, TypeOK
<1>3. pending = NoJob => job = latest
  BY <1>1 DEF SeqOrder
<1>4. pending # NoJob => pending = latest /\ job.seq < latest.seq
  BY <1>1 DEF SeqOrder
<1>5. TypeOK'
  BY <1>2 DEF TypeOK, WriterStates
<1>6. SeqOrder'
  BY <1>2, <1>3, <1>4, JobFacts DEF SeqOrder
<1>7. WriterHolds' /\ WriterProgress' /\ FilesComplete'
  BY DEF WriterHolds, WriterProgress, FilesComplete
<1>8. AcknowledgedIsDurable'
  <2> SUFFICES ASSUME Acknowledged'
               PROVE  /\ disk[latest.name] = File(latest.data, TRUE)
                      /\ DirFsync => stable[latest.name] = disk[latest.name]
    BY DEF AcknowledgedIsDurable
  <2>1. writer = "saved" /\ job.seq = latest.seq
    BY DEF Acknowledged
  <2>2. job = latest
    BY <1>2, <1>3, <1>4, <2>1
  <2> QED
    BY <2>1, <2>2 DEF WriterProgress
<1>9. NeverSuperseded'
  BY <1>2 DEF NeverSuperseded
<1> QED
  BY <1>5, <1>6, <1>7, <1>8, <1>9

-----------------------------------------------------------------------------
(* Restarts *)

LEMMA RestartStep ==
    ASSUME SramInv, Kill \/ PowerLoss PROVE SramInv'
<1> USE DEF SramInv
<1>1. FreshProcess
  BY DEF Kill, PowerLoss
<1>2. /\ disk' \in [Names -> Files] /\ stable' \in [Names -> Files]
      /\ FilesComplete'
  <2>1. CASE Kill
    BY <2>1 DEF Kill, fileVars, TypeOK, FilesComplete
  <2>2. CASE PowerLoss
    <3>1. PICK reached \in SUBSET Names :
             disk' = [n \in Names |-> IF n \in reached
                                  THEN AfterPowerLoss(disk[n]) ELSE stable[n]]
      BY <2>2 DEF PowerLoss
    <3>2. \A n \in Names : AfterPowerLoss(disk[n]) = disk[n]
      BY DEF FilesComplete, AfterPowerLoss
    <3>3. disk' = [n \in Names |-> IF n \in reached THEN disk[n] ELSE stable[n]]
      BY <3>1, <3>2
    <3>4. stable' = disk'
      BY <2>2 DEF PowerLoss
    <3> QED
      BY <3>3, <3>4 DEF TypeOK, FilesComplete
  <2> QED
    BY <2>1, <2>2
<1>3. TypeOK'
  <2>1. completed' \in 0..MaxSeq /\ waitSeq' \in 0..MaxSeq
    BY <1>1, SramAssumption DEF FreshProcess
  <2>2. /\ completedErr' \in BOOLEAN /\ stopping' \in BOOLEAN
        /\ writer' \in WriterStates
    BY <1>1 DEF FreshProcess, WriterStates
  <2> QED
    BY <1>1, <1>2, <2>1, <2>2, MissingFacts DEF FreshProcess, TypeOK
<1>4. SeqOrder' /\ NeverSuperseded' /\ AcknowledgedIsDurable'
  BY <1>1, JobFacts DEF FreshProcess, SeqOrder, NeverSuperseded,
                        AcknowledgedIsDurable, Acknowledged
<1>5. WriterHolds' /\ WriterProgress'
  BY <1>1 DEF FreshProcess, WriterHolds, WriterProgress
<1> QED
  BY <1>2, <1>3, <1>4, <1>5

-----------------------------------------------------------------------------
(* The invariant and what follows from it *)

LEMMA NextInv == SramInv /\ [Next]_sramVars => SramInv'
<1>1. ASSUME SramInv, UNCHANGED sramVars PROVE SramInv'
  <2> USE <1>1 DEF sramVars, SramInv
  <2>1. TypeOK'
    BY DEF TypeOK
  <2>2. SeqOrder' /\ NeverSuperseded'
    BY DEF SeqOrder, NeverSuperseded
  <2>3. WriterHolds' /\ WriterProgress' /\ FilesComplete'
    BY DEF WriterHolds, WriterProgress, FilesComplete
  <2>4. AcknowledgedIsDurable'
    BY DEF AcknowledgedIsDurable, Acknowledged
  <2> QED
    BY <2>1, <2>2, <2>3, <2>4
<1>2. ASSUME SramInv, WriterStep PROVE SramInv'
  BY <1>2, TakeStep, TempStep, RenameStep, DirectoryStep, PublishStep
     DEF WriterStep
<1> QED
  BY <1>1, <1>2, QueueStep, WaitStep, RestartStep DEF Next

\* In every reachable state, for any number of ROMs, contents and snapshots.
THEOREM SramInvariant == Spec => []SramInv
BY InitInv, NextInv, PTL DEF Spec

\* Every variable stays within its type.
THEOREM SramTyped == Spec => []TypeOK
BY SramInvariant, PTL DEF SramInv

\* A save the producer was told about is durable: the file under its name
\* and the copy on the medium hold exactly the last snapshot.
THEOREM Durability == Spec => []AcknowledgedIsDurable
BY SramInvariant, PTL DEF SramInv

\* Whenever the process is killed or the power fails, no save file is torn.
THEOREM Atomicity == Spec => []NoTornFile
<1>1. SramInv => NoTornFile
  BY DEF SramInv, FilesComplete, NoTornFile
<1> QED
  BY <1>1, SramInvariant, PTL

\* A waiting producer is never told EIO because of its own newer snapshot.
THEOREM NoSupersededWait == Spec => []NeverSuperseded
BY SramInvariant, PTL DEF SramInv

\* A writer thread that exited has written everything that was submitted.
THEOREM DrainBeforeExit == Spec => []ExitDrained
<1>1. SramInv => ExitDrained
  BY DEF SramInv, WriterHolds, SeqOrder, ExitDrained
<1> QED
  BY <1>1, SramInvariant, PTL

-----------------------------------------------------------------------------
(* What CommandsAnswered rests on: a producer that waits for its snapshot   *)
(* is never kept by a writer that has stopped or has nothing to do.         *)

\* The producer waits for a snapshot that has not been published.
Unserved == waitSeq > 0 /\ completed < waitSeq

\* The writer is at a system call, or its wait on sram_cv is over.
WriterUnblocked ==
    /\ writer # "exited"
    /\ writer = "wait" => pending # NoJob

\* How many steps the snapshot the writer holds is from its result.
StepsLeft ==
    CASE writer = "open"                -> 5
      [] writer = "written"             -> 4
      [] writer = "synced"              -> 3
      [] writer = "renamed"             -> 2
      [] writer \in {"saved", "failed"} -> 1
      [] OTHER                          -> 0

\* The same for all that was submitted: the slot is a job to take and do.
WorkLeft == StepsLeft + (IF pending # NoJob THEN 6 ELSE 0)

\* Whoever waits, waits for a writer that can go on.
NobodyStranded == Unserved => WriterUnblocked

\* While the producer waits, every step is a new process or one of the
\* writer, successful or not, that leaves it less to do.
WaitsApproach ==
    [][Unserved =>
          \/ WriterStep /\ WorkLeft' < WorkLeft
          \/ Kill \/ PowerLoss]_sramVars

\* The invariant says so: what is not completed is in the slot or at work.
LEMMA NoProducerHeld == SramInv => NobodyStranded
BY JobFacts DEF SramInv, TypeOK, SeqOrder, WriterHolds, NeverSuperseded,
   NobodyStranded, Unserved, WriterUnblocked

\* A wait never meets a writer that exited or sleeps on an empty slot.
THEOREM NoProducerStranded == Spec => []NobodyStranded
BY NoProducerHeld, SramInvariant, PTL

\* At most eleven steps of the writer end a wait for a snapshot.
THEOREM WaitsEnd == Spec => WaitsApproach
<1>1. SramInv /\ [Next]_sramVars =>
        [Unserved => \/ WriterStep /\ WorkLeft' < WorkLeft
                     \/ Kill \/ PowerLoss]_sramVars
  <2> SUFFICES ASSUME SramInv, Next, Unserved, ~Kill, ~PowerLoss
               PROVE  WriterStep /\ WorkLeft' < WorkLeft
    OBVIOUS
  <2>1. waitSeq > 0 /\ completed < waitSeq /\ waitSeq \in Nat /\ completed \in Nat
    BY SramAssumption DEF Unserved, SramInv, TypeOK
  <2>2. ~QueueSnapshot /\ ~WaitForLatest /\ ~WaitReturns /\ ~StopWriter
    BY <2>1 DEF QueueSnapshot, Queue, WaitForLatest, AwaitLatest, WaitReturns,
                WaitOver, StopWriter
  <2>3. WriterStep /\ ~WriterExits
    BY <2>2, NoProducerHeld DEF Next, WriterExits, NobodyStranded, WriterUnblocked
  <2>4. ASSUME TakeSnapshot PROVE WorkLeft' < WorkLeft
    <3>1. pending # NoJob /\ pending' = NoJob
      BY <2>4 DEF TakeSnapshot
    <3>2. StepsLeft = 0 /\ StepsLeft' = 5
      BY <2>4 DEF TakeSnapshot, StepsLeft
    <3>3. WorkLeft = 6 /\ WorkLeft' = 5
      BY <3>1, <3>2 DEF WorkLeft
    <3>. QED BY <3>3
  <2>5. ASSUME \/ WriteTemp \/ SyncTemp \/ RenameTemp \/ SyncDirectory
               \/ WriteFails \/ Publish
        PROVE  WorkLeft' < WorkLeft
    <3>1. pending' = pending
      BY <2>5 DEF WriteTemp, SyncTemp, RenameTemp, SyncDirectory, WriteFails, GiveUp,
                  Publish, producerVars
    <3>2. \/ writer = "open" /\ writer' \in {"written", "failed"}
          \/ writer = "written" /\ writer' \in {"synced", "failed"}
          \/ writer = "synced" /\ writer' \in {"renamed", "failed"}
          \/ writer = "renamed" /\ writer' \in {"saved", "failed"}
          \/ writer \in {"saved", "failed"} /\ writer' = "wait"
      BY <2>5 DEF WriteTemp, SyncTemp, RenameTemp, SyncDirectory, WriteFails, GiveUp,
                  Publish
    <3>. QED BY <3>1, <3>2 DEF WorkLeft, StepsLeft
  <2>. QED BY <2>3, <2>4, <2>5 DEF WriterStep
<1>. QED BY <1>1, SramInvariant, PTL DEF Spec, WaitsApproach

-----------------------------------------------------------------------------
(* The abstract store *)

\* What Candidates collects, without its set comprehensions
Found(n, x) ==
    \/ x = disk[n].data
    \/ x = stable[n].data
    \/ pending # NoJob /\ pending.name = n /\ x = pending.data
    \/ job # NoJob /\ job.name = n /\ writer # "failed" /\ x = job.data

LEMMA CandidateFacts ==
    /\ \A n, x : x \in Candidates(n) <=> Found(n, x)
    /\ \A n, x : x \in Candidates(n)' <=> Found(n, x)'
  BY DEF Candidates, Found

Cands == [n \in Names |-> Candidates(n)]
Current == IF latest = NoJob THEN <<>> ELSE <<latest.name, latest.data>>

\* A step that adds no contents and keeps the last save is one of the store.
LEMMA Narrowing ==
    ASSUME \A n \in Names : \A x : Found(n, x)' => Found(n, x)
    PROVE  Store!Narrows(Store!Nothing)
<1>1. ASSUME NEW n \in Names PROVE Candidates(n)' # {} /\ Candidates(n)' \subseteq Candidates(n)
  <2>1. disk'[n].data \in Candidates(n)'
    BY CandidateFacts DEF Found
  <2>. QED BY <2>1, CandidateFacts
<1>. QED BY <1>1 DEF Store!Narrows, Store!Nothing

LEMMA InitStore == Init => Store!Init
<1>. SUFFICES ASSUME Init PROVE Store!Init
  OBVIOUS
<1>. DEFINE content == [n \in Names |-> disk[n].data]
<1>1. \A n \in Names : disk[n].data \in Data \cup {NoData}
  BY DEF Init, Missing, File
<1>2. \A n \in Names : Candidates(n) = {disk[n].data}
  BY CandidateFacts DEF Init, Found
<1>3. content \in [Names -> Data \cup {NoData}] /\ Cands = [n \in Names |-> {content[n]}]
  BY <1>1, <1>2 DEF Cands
<1>4. Current = <<>> /\ Acknowledged = FALSE
  BY JobFacts DEF Init, Current, Acknowledged
<1>. HIDE DEF content
<1>. QED BY <1>3, <1>4 DEF Store!Init, Cands, Current

\* Before a snapshot's result is published, no save is acknowledged.
LEMMA Unsettled ==
    ASSUME SramInv, job # NoJob \/ pending # NoJob PROVE ~Acknowledged
<1>1. completed \in Nat /\ latest.seq \in Nat /\ (job # NoJob => job.seq \in Nat)
  BY JobFacts, SramAssumption DEF SramInv, TypeOK
<1>. QED BY <1>1 DEF SramInv, SeqOrder, Acknowledged

LEMMA QueueStores ==
    ASSUME SramInv, QueueSnapshot PROVE Store!Next
<1>1. PICK n \in Names, d \in Data, wait \in BOOLEAN : Queue(n, d, wait)
  BY DEF QueueSnapshot
<1>2. /\ latest' = Snapshot(n, d, latest.seq + 1) /\ pending' = latest'
      /\ UNCHANGED <<job, writer, disk, stable, completed>>
  BY <1>1 DEF QueueSnapshot, Queue, Snapshot, writerVars, fileVars
<1>3. latest.seq \in Nat /\ completed \in Nat /\ completed <= latest.seq
  BY JobFacts, SramAssumption DEF SramInv, TypeOK, SeqOrder
<1>4. /\ latest'.seq = latest.seq + 1 /\ latest'.name = n /\ latest'.data = d
      /\ latest' # NoJob
  BY <1>2, <1>3 DEF Snapshot, NoJob
<1>5. Current' = <<n, d>> /\ Acknowledged' = FALSE
  BY <1>2, <1>3, <1>4 DEF Current, Acknowledged
<1>6. ASSUME NEW m \in Names
      PROVE  /\ Candidates(m)' # {}
             /\ Candidates(m)' \subseteq Candidates(m) \cup [Store!Nothing EXCEPT ![n] = {d}][m]
             /\ m = n => d \in Candidates(m)'
  <2>1. [Store!Nothing EXCEPT ![n] = {d}][m] = IF m = n THEN {d} ELSE {}
    BY DEF Store!Nothing
  <2>2. disk'[m].data \in Candidates(m)' /\ (m = n => d \in Candidates(m)')
    BY <1>2, <1>4, CandidateFacts DEF Found
  <2>3. ASSUME NEW x \in Candidates(m)' PROVE x \in Candidates(m) \/ (m = n /\ x = d)
    BY <1>2, <1>4, <2>3, CandidateFacts DEF Found
  <2>. QED BY <2>1, <2>2, <2>3
<1>7. Store!Save(n, d)
  BY <1>5, <1>6 DEF Store!Save, Store!Narrows, Current
<1>. QED BY <1>7 DEF Store!Next

\* A step of the writer before the result is published
LEMMA WritingStores ==
    ASSUME SramInv,
           \/ TakeSnapshot \/ WriteTemp \/ SyncTemp \/ RenameTemp \/ SyncDirectory
           \/ WriteFails \/ WriterExits
    PROVE  Store!Settle
<1>. USE DEF SramInv, producerVars, fileVars
<1>1. UNCHANGED <<latest, completed, completedErr>>
  BY DEF TakeSnapshot, WriteTemp, SyncTemp, RenameTemp, SyncDirectory, WriteFails, GiveUp,
     WriterExits
<1>2. Current' = Current /\ Acknowledged' = Acknowledged
  BY <1>1 DEF Current, Acknowledged
<1>3. ASSUME NEW n \in Names, NEW x, Found(n, x)' PROVE Found(n, x)
  <2>1. CASE TakeSnapshot
    BY <1>3, <2>1 DEF Found, TakeSnapshot
  <2>2. CASE WriteTemp \/ SyncTemp \/ WriteFails \/ WriterExits
    BY <1>3, <2>2 DEF Found, WriteTemp, SyncTemp, WriteFails, GiveUp, WriterExits
  <2>3. CASE RenameTemp
    <3>1. job # NoJob /\ temp.data = job.data /\ writer # "failed"
      BY <2>3 DEF RenameTemp, WriterHolds, WriterProgress, File
    <3>2. disk'[n] = IF n = job.name THEN temp ELSE disk[n]
      BY <2>3 DEF RenameTemp, TypeOK
    <3>. QED BY <1>3, <2>3, <3>1, <3>2 DEF Found, RenameTemp
  <2>4. CASE SyncDirectory
    BY <1>3, <2>4 DEF Found, SyncDirectory
  <2>. QED BY <2>1, <2>2, <2>3, <2>4
<1>4. Store!Narrows(Store!Nothing)
  BY <1>3, Narrowing
<1>. QED BY <1>2, <1>4 DEF Store!Settle, Current

\* The result is published: it settles the last save, or an older one.
LEMMA PublishStores ==
    ASSUME SramInv, Publish, DirFsync PROVE Store!Next
<1>. USE DEF SramInv, producerVars, fileVars
<1>1. /\ UNCHANGED <<latest, pending, disk, stable>> /\ job' = NoJob
      /\ completed' = job.seq
  BY DEF Publish
<1>2. job # NoJob /\ ~Acknowledged
  BY Unsettled DEF Publish, WriterHolds
<1>3. Current' = Current
  BY <1>1 DEF Current
<1>4. \A n \in Names : \A x : Found(n, x)' => Found(n, x)
  BY <1>1 DEF Found
<1>5. Store!Narrows(Store!Nothing)
  BY <1>4, Narrowing
<1>6. CASE ~Acknowledged'
  <2>1. Acknowledged' = Acknowledged
    BY <1>2, <1>6 DEF Acknowledged
  <2>. QED BY <1>3, <1>5, <2>1 DEF Store!Next, Store!Settle, Current
<1>7. CASE Acknowledged'
  <2>1. SramInv'
    BY PublishStep
  <2>2. pending = NoJob
    BY <1>1, <1>7, <2>1, Unsettled, JobFacts, SramAssumption DEF SeqOrder, TypeOK, Acknowledged
  <2>3. latest = job /\ latest # NoJob /\ latest.name \in Names
    BY <1>2, <2>2, JobFacts DEF SeqOrder, TypeOK
  <2>4. disk[latest.name].data = latest.data /\ stable[latest.name].data = latest.data
    BY <1>1, <1>7, <2>1 DEF AcknowledgedIsDurable, File
  <2>5. \A x : x \in Candidates(latest.name)' <=> x = latest.data
    BY <1>1, <2>2, <2>4, CandidateFacts DEF Found
  <2>6. Candidates(latest.name)' = {latest.data}
    BY <2>5
  <2>7. Current = <<latest.name, latest.data>> /\ Current # <<>>
    BY <2>3 DEF Current
  <2>8. Cands'[latest.name] = {latest.data}
    BY <2>3, <2>6, <1>1 DEF Cands
  <2>9. Acknowledged' = TRUE /\ Acknowledged = FALSE
    BY <1>2, <1>7 DEF Acknowledged
  <2>10. Store!Acknowledge
    BY <1>3, <1>5, <2>7, <2>8, <2>9 DEF Store!Acknowledge, Current, Cands
  <2>. QED BY <2>10 DEF Store!Next
<1>. QED BY <1>6, <1>7

LEMMA RestartStores ==
    ASSUME SramInv, Kill \/ PowerLoss PROVE Store!Restart
<1>. USE DEF SramInv
<1>1. latest' = NoJob /\ pending' = NoJob /\ job' = NoJob
  BY DEF Kill, PowerLoss, FreshProcess
<1>2. Current' = <<>> /\ Acknowledged' = FALSE
  BY <1>1, JobFacts DEF Current, Acknowledged
<1>3. ASSUME NEW n \in Names, NEW x, Found(n, x)' PROVE Found(n, x)
  <2>1. disk'[n] \in {disk[n], stable[n]} /\ stable'[n] \in {disk[n], stable[n]}
    <3>1. CASE Kill
      BY <3>1 DEF Kill, fileVars
    <3>2. CASE PowerLoss
      BY <3>2 DEF PowerLoss, AfterPowerLoss, FilesComplete
    <3>. QED BY <3>1, <3>2
  <2>. QED BY <1>1, <1>3, <2>1 DEF Found
<1>4. Store!Narrows(Store!Nothing)
  BY <1>3, Narrowing
<1>. QED BY <1>2, <1>4 DEF Store!Restart, Current

LEMMA NextStores ==
    ASSUME SramInv, [Next]_sramVars, DirFsync PROVE [Store!Next]_(Store!vars)
<1>1. CASE QueueSnapshot
  BY <1>1, QueueStores
<1>2. CASE WaitForLatest \/ WaitReturns \/ StopWriter \/ UNCHANGED sramVars
  <2>1. UNCHANGED <<latest, pending, completed, completedErr, writer, job, disk, stable>>
    BY <1>2 DEF WaitForLatest, AwaitLatest, WaitReturns, StopWriter, writerVars, fileVars,
       sramVars
  <2>2. Current' = Current /\ Acknowledged' = Acknowledged
    BY <2>1 DEF Current, Acknowledged
  <2>3. ASSUME NEW n \in Names PROVE Candidates(n)' = Candidates(n)
    <3>1. \A x : Found(n, x)' <=> Found(n, x)
      BY <2>1 DEF Found
    <3>2. \A x : x \in Candidates(n)' <=> x \in Candidates(n)
      BY <3>1, CandidateFacts
    <3>. QED BY <3>2
  <2>4. Cands' = Cands
    BY <2>3 DEF Cands
  <2>. QED BY <2>2, <2>4 DEF Store!vars, Cands, Current
<1>3. CASE WriterStep
  BY <1>3, WritingStores, PublishStores DEF WriterStep, Store!Next
<1>4. CASE Kill \/ PowerLoss
  BY <1>4, RestartStores DEF Store!Next
<1>. QED BY <1>1, <1>2, <1>3, <1>4 DEF Next

\* On a file system that honours the fsync of a directory the slot, the
\* writer thread and its system calls are a durable store: nothing but old or
\* newly submitted contents can ever be found, also after a kill or a power
\* loss, and an acknowledged save leaves one candidate.
THEOREM WriterIsDurableStore ==
    ASSUME DirFsync PROVE Spec => ImplementsDurableStore
BY InitStore, NextStores, SramInvariant, PTL DEF Spec, ImplementsDurableStore, Store!Spec

-----------------------------------------------------------------------------
(* The emulation thread drives the writer as its specification allows and  *)
(* does not lose battery RAM.  The argument: snapshots in flight belong to *)
(* the loaded game; until its first one, its file is the shadow; and what  *)
(* a flush handed over is the RAM.  The shadow itself may be out of date.  *)

\* How far a command can be, and what it needs
CommandOK ==
    /\ cmd = NoCmd <=> phase = "idle"
    /\ cmd # NoCmd => alive
    /\ game # NoRom => core /\ alive
    /\ phase = "flush" => cmd.op = "load_game" \/ MidLoad
    /\ MidLoad => cmd.backup \in RamContents /\ phase # "start"
    /\ cmd.op = "load_game" /\ phase \notin {"idle", "start"} => core
    /\ waitSeq # 0 => phase = "flushing"
    /\ phase = "flushing" => waitSeq = latest.seq /\ game # NoRom

RamOK == IF game \in Battery THEN mem \in Data /\ shadow \in Data
                             ELSE mem = NoData /\ shadow = NoData

\* Snapshots in flight are those of the loaded game.
OwnerOK ==
    alive => /\ InFlight => game \in Battery /\ latest.name = game
             /\ job # NoJob => job.name = game

SavedAs(d) == disk[game].data = d \/ (disk[game] = Missing /\ d = Blank)

\* The newest snapshot is one of the loaded game.
Ours == latest.seq > 0 /\ latest.name = game

\* Before the first one, the shadow is what the file holds.
ShadowOK == game \in Battery /\ ~Ours => ~InFlight /\ SavedAs(shadow)

\* During and after a flush the RAM has been handed over, or nothing had to be;
\* after it nothing is in flight.
HandedOver ==
    \/ Ours /\ latest.data = mem
    \/ ~Forced /\ shadow = mem
FlushedOK ==
    /\ phase \in {"flushing", "flushed"} /\ game \in Battery => HandedOver
    /\ phase = "flushed" => ~InFlight /\ (game \in Battery => ~LatestWriteFailed)

\* A paused game is on disk, and only rewritten with the same contents.
PausedOK ==
    paused /\ game \in Battery /\ ~unsure /\ ~MidLoad =>
        /\ SavedAs(mem)
        /\ job # NoJob => job.data = mem
        /\ pending # NoJob => pending.data = mem

\* The inductive invariant
HostInv ==
    /\ SramInv /\ HostTypeOK
    /\ CommandOK /\ RamOK /\ OwnerOK /\ ShadowOK /\ FlushedOK /\ PausedOK

-----------------------------------------------------------------------------
(* Facts about values *)

LEMMA CommandFacts ==
    ASSUME NEW c \in Commands \cup Replacements \cup {NoCmd}
    PROVE  /\ c.op \in {"load_core", "unload_core", "unload_game", "start", "stop",
                        "reset", "flush", "shutdown", "set_paused", "load_game",
                        "save_state", "load_state", "unserialized", "restored",
                        "none"}
           /\ c = NoCmd <=> c.op = "none"
           /\ c.op = "load_game" => c.rom \in Names
           /\ c.op = "set_paused" => c.value \in BOOLEAN
           /\ c.op \in {"unserialized", "restored"} => c.backup \in Data \cup {NoData}
  BY DEF Commands, NoCmd, Op, Replacements, Replacing

LEMMA RomFacts ==
    /\ NoRom \notin Battery /\ Battery \subseteq Names /\ Blank \in Data
    /\ NoData \notin Data /\ NoCmd.op = "none"
  BY HostAssumption, SramAssumption DEF NoCmd, Op

\* A file that is there holds contents.
LEMMA DiskFacts ==
    ASSUME FilesComplete, disk \in [Names -> Files], NEW n \in Names, disk[n] # Missing
    PROVE  disk[n].data \in Data
<1>1. /\ disk[n] \in Files /\ disk[n].synced /\ disk[n].data # Torn
  BY DEF FilesComplete
<1>2. disk[n].data = NoData => disk[n] = Missing
  BY <1>1 DEF Files, Missing, File
<1>. QED BY <1>1, <1>2 DEF Files

LEMMA SavedRamFacts ==
    ASSUME HostInv, NEW r \in Names
    PROVE  /\ r \in Battery => SavedRam(r) \in Data
           /\ r \notin Battery => SavedRam(r) = NoData
           /\ r \in Battery => \/ disk[r].data = SavedRam(r)
                               \/ disk[r] = Missing /\ SavedRam(r) = Blank
  BY DiskFacts, RomFacts DEF SavedRam, HostInv, SramInv, TypeOK

\* A snapshot that was written without an error is on disk.
LEMMA WrittenFacts ==
    ASSUME SramInv, ~InFlight, latest.seq > 0, ~LatestWriteFailed
    PROVE  Acknowledged /\ disk[latest.name].data = latest.data
<1>1. latest.seq \in Nat /\ completed \in Nat /\ completed <= latest.seq
  BY JobFacts, SramAssumption DEF SramInv, TypeOK, SeqOrder
<1>2. Acknowledged
  BY <1>1 DEF Acknowledged, InFlight, LatestWriteFailed
<1>. QED BY <1>2 DEF SramInv, AcknowledgedIsDurable, File

\* What completed numbers say about the snapshots in flight
LEMMA FlightFacts ==
    ASSUME SramInv
    PROVE  /\ latest.seq \in Nat /\ completed \in Nat /\ waitSeq \in Nat
           /\ ~InFlight <=> completed = latest.seq
           /\ ~InFlight => pending = NoJob /\ job = NoJob
           /\ pending # NoJob => pending = latest
           /\ latest.seq = 0 => latest = NoJob
<1>1. /\ latest \in Snapshots \cup {NoJob} /\ job \in Snapshots \cup {NoJob}
      /\ completed \in Nat /\ waitSeq \in Nat
  BY SramAssumption DEF SramInv, TypeOK
<1>2. latest.seq \in Nat /\ (latest.seq = 0 => latest = NoJob)
  BY <1>1, JobFacts
<1>3. job # NoJob => job.seq \in Nat
  BY <1>1, JobFacts
<1>. QED BY <1>1, <1>2, <1>3 DEF SramInv, SeqOrder, InFlight

-----------------------------------------------------------------------------
(* The writer sees a producer it was made for *)

LEMMA HostIsSram ==
    ASSUME HostInv, [HostNext]_vars PROVE [Next]_sramVars
<1>. USE DEF Next
<1>1. ASSUME Queue(game, mem, TRUE) \/ Queue(game, mem, FALSE), Loaded, game \in Battery,
             UNCHANGED <<stopping, writerVars, fileVars>>
      PROVE  QueueSnapshot
  <2>1. game \in Names /\ mem \in Data
    BY <1>1, RomFacts DEF HostInv, RamOK
  <2>. QED BY <1>1, <2>1 DEF QueueSnapshot
<1>2. CASE BeginFlush
  <2>1. CASE UNCHANGED producerVars
    BY <1>2, <2>1 DEF BeginFlush, producerVars, writerVars, fileVars, sramVars
  <2>2. CASE AwaitLatest /\ UNCHANGED stopping
    <3>1. CASE latest.seq = 0
      BY <1>2, <2>2, <3>1 DEF BeginFlush, AwaitLatest, writerVars, fileVars, sramVars
    <3>2. CASE latest.seq > 0
      BY <1>2, <2>2, <3>2 DEF BeginFlush, WaitForLatest
    <3>. QED BY <3>1, <3>2, FlightFacts DEF HostInv
  <2>3. CASE Queue(game, mem, TRUE) /\ UNCHANGED stopping /\ Loaded /\ ~Skippable(Forced)
    <3>1. game \in Battery
      BY <2>3 DEF Skippable
    <3>. QED BY <1>1, <1>2, <2>3, <3>1 DEF BeginFlush
  <2>. QED BY <1>2, <2>1, <2>2, <2>3 DEF BeginFlush
<1>3. CASE EndFlush
  BY <1>3 DEF EndFlush, WaitReturns, producerVars, writerVars, fileVars, sramVars
<1>4. CASE PeriodicFlush
  BY <1>1, <1>4 DEF PeriodicFlush, Skippable
<1>5. CASE \/ Accept \/ AbortUnsaved \/ UnloadGame \/ UnloadCore \/ LoadCore \/ Shutdown
           \/ ReadRom \/ RomRejected \/ SramRejected \/ RomLoaded
           \/ RefuseState \/ SaveState \/ Unserialize \/ StateLoaded
           \/ RestoreBackup \/ BackupSaved \/ BackupUnsaved
           \/ Start \/ Stop \/ SetPaused \/ ResetOrFlush \/ RunFrame \/ SetViewers
  BY <1>5 DEF Accept, AbortUnsaved, UnloadGame, UnloadCore, LoadCore, Shutdown, ReadRom,
     RomRejected, SramRejected, RomLoaded, RefuseState, SaveState, Unserialize,
     StateLoaded, RestoreBackup, BackupSaved, BackupUnsaved, Start, Stop, SetPaused,
     ResetOrFlush, RunFrame, SetViewers
<1>6. CASE WriterStep \/ StopWriterThread \/ Restart
  BY <1>6 DEF StopWriterThread, Restart
<1>7. CASE UNCHANGED vars
  BY <1>7 DEF vars
<1>. QED BY <1>2, <1>3, <1>4, <1>5, <1>6, <1>7 DEF HostNext, CommandStep

-----------------------------------------------------------------------------
(* Types *)

LEMMA HostTypeSteps ==
    ASSUME HostInv, [HostNext]_vars PROVE HostTypeOK'
<1>1. TypeOK'
  BY HostIsSram, NextInv DEF HostInv, SramInv
<1>2. /\ cmd \in Commands \cup Replacements \cup {NoCmd}
      /\ NoCmd \in Commands \cup Replacements \cup {NoCmd}
  BY DEF HostInv, HostTypeOK
<1>. USE <1>1, <1>2 DEF HostInv, HostTypeOK, Phases, flagVars, hostVars, Done
<1>3. CASE Accept
  BY <1>3 DEF Accept
<1>4. CASE BeginFlush
  <2>1. running' \in BOOLEAN
    BY <1>4, Zenon DEF BeginFlush
  <2>2. phase' \in Phases
    BY <1>4 DEF BeginFlush
  <2>. QED BY <1>4, <2>1, <2>2 DEF BeginFlush
<1>14. CASE EndFlush \/ PeriodicFlush
  <2>1. unsure' \in BOOLEAN
    BY <1>14, Zenon DEF EndFlush, PeriodicFlush
  <2>2. shadow' \in Data \cup {NoData} /\ phase' \in Phases
    BY <1>14 DEF EndFlush, PeriodicFlush, UpdateShadow
  <2>3. UNCHANGED <<alive, core, game, running, paused, demo, watched, mem, cmd, reply>>
    BY <1>14 DEF EndFlush, PeriodicFlush
  <2>. QED BY <2>1, <2>2, <2>3
<1>5. CASE UnloadGame \/ UnloadCore \/ LoadCore
  BY <1>5 DEF UnloadGame, UnloadCore, LoadCore, NoGame
<1>9. CASE Shutdown \/ RomRejected \/ SramRejected
  BY <1>9 DEF Shutdown, RomRejected, SramRejected, NoGame
<1>6. CASE AbortUnsaved \/ Start \/ Stop \/ ResetOrFlush
  BY <1>6 DEF AbortUnsaved, Start, Stop, ResetOrFlush
<1>19. CASE ReadRom
  <2>1. demo' \in BOOLEAN
    BY <1>19, Zenon DEF ReadRom
  <2>. QED BY <1>19, <2>1 DEF ReadRom
<1>10. CASE SetPaused
  BY <1>10, CommandFacts, Zenon DEF SetPaused
<1>15. CASE RefuseState \/ SaveState \/ StateLoaded \/ BackupSaved
  BY <1>15 DEF RefuseState, SaveState, StateLoaded, BackupSaved
<1>16. CASE Unserialize
  BY <1>16 DEF Unserialize, RamContents, Replacements
<1>17. CASE RestoreBackup
  <2>1. cmd.backup \in Data \cup {NoData}
    BY <1>17, CommandFacts DEF RestoreBackup
  <2>2. Replacing("restored", cmd.backup) \in Replacements
    BY <2>1 DEF Replacements
  <2>3. mem' \in Data \cup {NoData}
    BY <1>17, <2>1 DEF RestoreBackup, RamContents
  <2>4. /\ cmd' \in Commands \cup Replacements \cup {NoCmd} /\ phase' \in Phases
        /\ reply' \in {"none", "ok", "error", "fatal"}
    BY <1>17, <2>2 DEF RestoreBackup, GiveUpMachine
  <2>5. /\ UNCHANGED <<alive, core, game, demo, watched, shadow>>
        /\ running' \in BOOLEAN /\ paused' \in BOOLEAN /\ unsure' \in BOOLEAN
    BY <1>17 DEF RestoreBackup, GiveUpMachine
  <2>. QED BY <2>3, <2>4, <2>5
<1>18. CASE BackupUnsaved
  BY <1>18 DEF BackupUnsaved, GiveUpMachine
<1>7. CASE RomLoaded
  <2>1. cmd.rom \in Names
    BY <1>7, CommandFacts DEF RomLoaded
  <2>2. SavedRam(cmd.rom) \in Data \cup {NoData}
    BY <2>1, SavedRamFacts
  <2>. QED BY <1>7, <2>1, <2>2 DEF RomLoaded
<1>8. CASE RunFrame \/ SetViewers
  <2>1. mem' \in Data \cup {NoData}
    BY <1>8 DEF RunFrame, SetViewers, RamContents
  <2>2. /\ UNCHANGED <<alive, core, game, paused, demo, unsure, shadow, cmd, phase, reply>>
        /\ running' \in BOOLEAN /\ watched' \in BOOLEAN
    BY <1>8, Zenon DEF RunFrame, SetViewers
  <2>. QED BY <2>1, <2>2
<1>11. CASE (WriterStep /\ UNCHANGED hostVars) \/ StopWriterThread
  BY <1>11 DEF StopWriterThread
<1>12. CASE Restart
  BY <1>12 DEF Restart, FreshHost
<1>13. CASE UNCHANGED vars
  BY <1>13 DEF vars
<1>. QED BY <1>3, <1>4, <1>5, <1>6, <1>7, <1>8, <1>9, <1>10, <1>11, <1>12, <1>13,
            <1>14, <1>15, <1>16, <1>17, <1>18, <1>19 DEF HostNext, CommandStep

-----------------------------------------------------------------------------
(* What the host believes of the files and of the writer *)

Believes == CommandOK /\ RamOK /\ OwnerOK /\ ShadowOK /\ FlushedOK /\ PausedOK

\* A step of the thread that is no business of the writer's, and that leaves
\* game and RAM alone
LEMMA Elsewhere ==
    ASSUME HostInv, UNCHANGED <<sramVars, game, mem, shadow, alive>>,
           game # NoRom => core', phase' # "flushing", phase # "flushing",
           phase' = "flushed" => ~InFlight /\ game = NoRom,
           cmd' = NoCmd <=> phase' = "idle", cmd' # NoCmd => alive,
           paused' /\ ~unsure' /\ ~MidLoad' => paused /\ ~unsure /\ ~MidLoad,
           MidLoad' => MidLoad /\ cmd' = cmd /\ phase' # "start",
           phase' = "flush" => cmd'.op = "load_game",
           cmd'.op = "load_game" /\ phase' \notin {"idle", "start"} => core'
    PROVE  Believes'
<1>. USE DEF HostInv, sramVars, InFlight
<1>1. CommandOK' /\ RamOK'
  BY DEF CommandOK, RamOK, RamContents
<1>2. OwnerOK' /\ PausedOK'
  BY DEF OwnerOK, PausedOK, SavedAs
<1>3. ShadowOK'
  BY DEF ShadowOK, Ours, SavedAs
<1>4. FlushedOK'
  BY RomFacts DEF FlushedOK
<1>. QED BY <1>1, <1>2, <1>3, <1>4 DEF Believes

\* A step that changes nothing this is about
LEMMA Steady ==
    ASSUME HostInv,
           UNCHANGED <<latest, pending, waitSeq, job, completed, completedErr, disk, alive,
                       core, game, paused, unsure, mem, shadow, cmd, phase>>
    PROVE  Believes'
<1>. USE DEF HostInv, InFlight
<1>1. CommandOK' /\ RamOK'
  BY DEF CommandOK, RamOK, RamContents, MidLoad
<1>2. OwnerOK' /\ PausedOK' /\ ShadowOK'
  BY DEF OwnerOK, PausedOK, ShadowOK, Ours, SavedAs, MidLoad
<1>3. FlushedOK'
  BY DEF FlushedOK, HandedOver, Ours, LatestWriteFailed, Forced
<1>. QED BY <1>1, <1>2, <1>3 DEF Believes

\* The game leaves the core: nothing is in flight, or no other comes after it.
LEMMA Leaves ==
    ASSUME HostInv, UNCHANGED sramVars, NoGame, ~InFlight \/ ~alive',
           core' \in BOOLEAN, phase' = "idle", cmd' = NoCmd, phase # "flushing"
    PROVE  Believes'
<1>. USE RomFacts DEF HostInv, sramVars, InFlight, NoGame
<1>1. CommandOK' /\ RamOK'
  BY DEF CommandOK, RamOK, MidLoad
<1>2. OwnerOK' /\ PausedOK'
  BY FlightFacts DEF OwnerOK, PausedOK
<1>3. ShadowOK' /\ FlushedOK'
  BY DEF ShadowOK, FlushedOK
<1>. QED BY <1>1, <1>2, <1>3 DEF Believes

\* When a command goes on, nothing is in flight.
LEMMA Proceeding ==
    ASSUME HostInv, cmd # NoCmd,
           phase = "flushed" \/ game = NoRom
    PROVE  ~InFlight
  BY RomFacts DEF HostInv, FlushedOK, OwnerOK, CommandOK

LEMMA CommandSteps ==
    ASSUME HostInv,
           \/ UnloadGame \/ UnloadCore \/ LoadCore \/ Shutdown
           \/ RomRejected \/ SramRejected
    PROVE  Believes'
<1>1. /\ cmd # NoCmd /\ UNCHANGED sramVars /\ phase' = "idle" /\ cmd' = NoCmd
      /\ phase # "flushing"
  BY CommandFacts DEF UnloadGame, UnloadCore, LoadCore, Shutdown, RomRejected,
     SramRejected, Done, Proceeds, HostInv, HostTypeOK
<1>2. core' \in BOOLEAN
  BY DEF UnloadGame, UnloadCore, LoadCore, Shutdown, RomRejected, SramRejected,
     HostInv, HostTypeOK
<1>3. ~InFlight \/ ~alive'
  <2>1. CASE Shutdown
    BY <2>1 DEF Shutdown
  <2>2. CASE ~Shutdown
    <3>1. phase = "flushed" \/ game = NoRom
      BY <2>2 DEF UnloadGame, UnloadCore, LoadCore, RomRejected, SramRejected,
         Proceeds, FlushesFirst
    <3>. QED BY <1>1, <3>1, Proceeding
  <2>. QED BY <2>1, <2>2
<1>4. CASE NoGame
  BY <1>1, <1>2, <1>3, <1>4, Leaves
<1>5. CASE ~NoGame
  <2>1. UNCHANGED <<game, mem, shadow, alive, core, paused, unsure>>
        /\ cmd.op = "unload_game"
    BY <1>5 DEF UnloadGame, UnloadCore, LoadCore, Shutdown, RomRejected, SramRejected
  <2>2. game # NoRom => core'
    BY <2>1 DEF HostInv, CommandOK
  <2>3. ~MidLoad /\ ~MidLoad' /\ cmd'.op # "load_game"
    BY <1>1, <2>1, RomFacts DEF MidLoad
  <2>. QED BY <1>1, <2>1, <2>2, <2>3, Elsewhere
<1>. QED BY <1>4, <1>5

LEMMA OtherSteps ==
    ASSUME HostInv,
           \/ Accept \/ AbortUnsaved \/ Start \/ Stop \/ ResetOrFlush \/ ReadRom
           \/ RefuseState \/ SaveState \/ SetViewers \/ (SetPaused /\ ~cmd.value)
    PROVE  Believes'
<1>1. /\ UNCHANGED <<sramVars, game, mem, shadow, alive>>
      /\ paused' /\ ~unsure' => paused /\ ~unsure
  BY DEF Accept, AbortUnsaved, Start, Stop, ResetOrFlush, ReadRom, RefuseState, SaveState,
     SetViewers, SetPaused, flagVars
<1>2. game # NoRom => core'
  <2>1. game # NoRom => core
    BY DEF HostInv, CommandOK
  <2>2. CASE ReadRom
    BY <2>1, <2>2 DEF ReadRom
  <2>3. CASE ~ReadRom
    <3>1. core' = core
      <4>1. CASE Accept \/ AbortUnsaved \/ ResetOrFlush \/ RefuseState \/ SaveState
        BY <4>1 DEF Accept, AbortUnsaved, ResetOrFlush, RefuseState, SaveState, flagVars
      <4>2. CASE Start \/ Stop \/ SetViewers \/ SetPaused
        BY <4>2 DEF Start, Stop, SetViewers, SetPaused
      <4>. QED BY <2>3, <4>1, <4>2
    <3>. QED BY <1>1, <2>1, <3>1
  <2>. QED BY <2>2, <2>3
<1>3. CASE SetViewers
  <2>1. UNCHANGED <<latest, pending, waitSeq, job, completed, completedErr, disk,
                    alive, core, game, paused, unsure, mem, shadow, cmd, phase>>
    BY <1>3 DEF SetViewers, sramVars
  <2>. QED BY <2>1, Steady
<1>4. CASE Accept
  <2>1. cmd' # NoCmd /\ ~MidLoad /\ ~MidLoad' /\ phase = "idle" /\ alive
    BY <1>4, RomFacts DEF Accept, Commands, NoCmd, Op, MidLoad, HostInv, CommandOK
  <2>2. phase' = "start"
    BY <1>4 DEF Accept
  <2>. QED BY <1>1, <1>2, <2>1, <2>2, Elsewhere
<1>5. CASE AbortUnsaved \/ Start \/ Stop \/ ResetOrFlush \/ SetPaused
           \/ RefuseState \/ SaveState
  <2>1. cmd' = NoCmd /\ phase' = "idle" /\ phase # "flushing" /\ ~MidLoad
    BY <1>5 DEF AbortUnsaved, Start, Stop, ResetOrFlush, SetPaused, RefuseState, SaveState,
       Proceeds, Done, flagVars, MidLoad
  <2>2. ~MidLoad' /\ cmd'.op # "load_game"
    BY <2>1, RomFacts DEF MidLoad
  <2>. QED BY <1>1, <1>2, <2>1, <2>2, Elsewhere
<1>6. CASE ReadRom
  <2>1. /\ phase = "start" /\ cmd # NoCmd /\ cmd.op = "load_game"
        /\ \/ cmd' = NoCmd /\ phase' = "idle"
           \/ cmd' = cmd /\ phase' = "flush" /\ core'
           \/ cmd' = cmd /\ phase' = "flushed" /\ core' /\ game = NoRom
    BY <1>6, CommandFacts DEF ReadRom, Done, HostInv, HostTypeOK
  <2>2. game = NoRom => ~InFlight
    BY <2>1, Proceeding
  <2>3. alive /\ ~MidLoad /\ ~MidLoad' /\ NoCmd.op # "load_game"
    BY <2>1, RomFacts DEF HostInv, CommandOK, MidLoad
  <2>. QED BY <1>1, <1>2, <2>1, <2>2, <2>3, Elsewhere
<1>. QED BY <1>3, <1>4, <1>5, <1>6

\* What a successful flush is worth, in a skipped one at least if the shadow
\* can be trusted
LEMMA FlushFacts ==
    ASSUME HostInv, phase = "flushed", game \in Battery, Forced \/ ~(ShadowStale /\ shadow = mem)
    PROVE  SavedAs(mem)
<1>. USE DEF HostInv
<1>1. HandedOver /\ ~InFlight /\ ~LatestWriteFailed
  BY DEF FlushedOK
<1>2. CASE Ours /\ latest.data = mem
  BY <1>1, <1>2, WrittenFacts DEF Ours, SavedAs
<1>3. CASE shadow = mem /\ ~Ours
  BY <1>3 DEF ShadowOK
<1>. QED BY <1>1, <1>2, <1>3 DEF HandedOver, ShadowStale, Ours

\* Pausing comes after a flush.
LEMMA Pauses ==
    ASSUME HostInv, SetPaused, cmd.value PROVE Believes'
<1>. USE RomFacts DEF HostInv
<1>1. /\ phase = "flushed" /\ UNCHANGED <<sramVars, game, mem, shadow, alive, core>>
      /\ cmd' = NoCmd /\ phase' = "idle" /\ ~MidLoad'
      /\ unsure' = (ShadowStale /\ shadow = mem)
  BY DEF SetPaused, Proceeds, FlushesFirst, Done, MidLoad
<1>2. /\ ~InFlight /\ pending = NoJob /\ job = NoJob
      /\ game \in Battery /\ ~unsure' => SavedAs(mem)
  BY <1>1, FlightFacts, FlushFacts DEF FlushedOK
<1>3. CommandOK' /\ RamOK' /\ FlushedOK'
  BY <1>1 DEF CommandOK, RamOK, FlushedOK, sramVars
<1>4. OwnerOK' /\ ShadowOK' /\ PausedOK'
  BY <1>1, <1>2 DEF OwnerOK, ShadowOK, PausedOK, Ours, SavedAs, InFlight, sramVars
<1>. QED BY <1>3, <1>4 DEF Believes

\* A load_state ends well, or with the machine it found: both are saved.
LEMMA LoadEnds ==
    ASSUME HostInv, StateLoaded \/ BackupSaved PROVE Believes'
<1>. USE RomFacts DEF HostInv
<1>1. /\ phase = "flushed" /\ UNCHANGED <<sramVars, flagVars, mem, shadow>>
      /\ cmd' = NoCmd /\ phase' = "idle" /\ ~MidLoad' /\ Forced
  BY DEF StateLoaded, BackupSaved, Done, MidLoad, Forced
<1>2. ~InFlight /\ pending = NoJob /\ job = NoJob /\ (game \in Battery => SavedAs(mem))
  BY <1>1, FlightFacts, FlushFacts DEF FlushedOK
<1>3. CommandOK' /\ RamOK' /\ FlushedOK'
  BY <1>1 DEF CommandOK, RamOK, FlushedOK, sramVars, flagVars
<1>4. OwnerOK' /\ ShadowOK' /\ PausedOK'
  BY <1>1, <1>2 DEF OwnerOK, ShadowOK, PausedOK, Ours, SavedAs, InFlight, sramVars, flagVars
<1>. QED BY <1>3, <1>4 DEF Believes

\* The machine is replaced, or given up: nothing is promised until its RAM is
\* saved.
LEMMA Replaces ==
    ASSUME HostInv, Unserialize \/ RestoreBackup \/ BackupUnsaved PROVE Believes'
<1>. USE RomFacts DEF HostInv
<1>1. /\ UNCHANGED <<sramVars, alive, core, game, shadow>> /\ cmd # NoCmd
      /\ phase # "flushing"
      /\ mem \in RamContents
  <2>1. cmd.op \in {"load_state", "unserialized", "restored"}
    BY DEF Unserialize, RestoreBackup, BackupUnsaved
  <2>2. UNCHANGED <<sramVars, alive, core, game, shadow>>
    BY DEF Unserialize, RestoreBackup, BackupUnsaved, flagVars
  <2>3. mem \in RamContents
    BY DEF RamOK, RamContents
  <2>4. phase # "flushing"
    BY DEF Unserialize, RestoreBackup, BackupUnsaved
  <2>. QED BY <2>1, <2>2, <2>3, <2>4
<1>2. /\ mem' \in RamContents
      /\ \/ /\ cmd' = NoCmd /\ phase' = "idle" /\ ~MidLoad' /\ unsure'
         \/ /\ cmd' # NoCmd /\ phase' \in {"flush", "unsaved"}
            /\ MidLoad' /\ cmd'.backup \in RamContents /\ cmd'.op # "load_game"
  <2>1. CASE Unserialize
    BY <1>1, <2>1 DEF Unserialize, Replacing, MidLoad
  <2>2. CASE RestoreBackup
    BY <1>1, <2>2 DEF RestoreBackup, GiveUpMachine, Done, Replacing, MidLoad, CommandOK
  <2>3. CASE BackupUnsaved
    BY <1>1, <2>3 DEF BackupUnsaved, GiveUpMachine, Done, MidLoad
  <2>. QED BY <2>1, <2>2, <2>3
<1>3. RamContents' = RamContents
  BY <1>1 DEF RamContents
<1>4. CommandOK'
  BY <1>1, <1>2, <1>3, RomFacts DEF CommandOK, MidLoad, sramVars
<1>5. RamOK' /\ PausedOK' /\ FlushedOK'
  BY <1>1, <1>2 DEF RamOK, RamContents, PausedOK, FlushedOK
<1>6. OwnerOK' /\ ShadowOK'
  BY <1>1 DEF OwnerOK, ShadowOK, Ours, SavedAs, InFlight, sramVars
<1>. QED BY <1>4, <1>5, <1>6 DEF Believes

LEMMA Frames ==
    ASSUME HostInv, RunFrame PROVE Believes'
<1>. USE RomFacts DEF HostInv
<1>1. /\ UNCHANGED <<sramVars, game, shadow, alive, core, cmd, phase, paused>>
      /\ phase = "idle" /\ ~paused /\ cmd = NoCmd /\ ~MidLoad'
      /\ mem' \in RamContents
  BY DEF RunFrame, CommandOK, MidLoad
<1>2. CommandOK' /\ RamOK' /\ FlushedOK' /\ PausedOK'
  BY <1>1 DEF CommandOK, RamOK, RamContents, FlushedOK, PausedOK, sramVars
<1>3. OwnerOK' /\ ShadowOK'
  BY <1>1 DEF OwnerOK, ShadowOK, Ours, SavedAs, InFlight, sramVars
<1>. QED BY <1>2, <1>3 DEF Believes

LEMMA Loads ==
    ASSUME HostInv, RomLoaded PROVE Believes'
<1>. USE RomFacts DEF HostInv
<1>1. /\ UNCHANGED <<sramVars, alive, core, paused>> /\ phase = "flushed"
      /\ cmd' = NoCmd /\ phase' = "idle" /\ game' = cmd.rom /\ cmd.rom \in Names
      /\ mem' = SavedRam(game') /\ shadow' = mem' /\ cmd # NoCmd /\ cmd.op = "load_game"
      /\ ~MidLoad'
  BY CommandFacts DEF RomLoaded, Done, HostTypeOK, MidLoad
<1>2. ~InFlight /\ pending = NoJob /\ job = NoJob /\ alive
  BY <1>1, FlightFacts DEF FlushedOK, CommandOK
<1>3. core
  BY <1>1 DEF CommandOK
<1>4. /\ game' \in Battery => mem' \in Data /\ SavedAs(mem)'
      /\ game' \notin Battery => mem' = NoData
  BY <1>1, SavedRamFacts DEF SavedAs, sramVars
<1>5. CommandOK' /\ RamOK' /\ FlushedOK'
  BY <1>1, <1>2, <1>3, <1>4 DEF CommandOK, RamOK, FlushedOK, sramVars
<1>6. OwnerOK' /\ ShadowOK' /\ PausedOK'
  BY <1>1, <1>2, <1>4 DEF OwnerOK, ShadowOK, PausedOK, SavedAs, InFlight, sramVars
<1>. QED BY <1>5, <1>6 DEF Believes

-----------------------------------------------------------------------------
(* Flushes *)

\* A snapshot of the loaded game's RAM is handed over.
LEMMA Handing ==
    ASSUME HostInv, NEW wait \in BOOLEAN, Queue(game, mem, wait), game \in Battery,
           UNCHANGED <<stopping, writerVars, fileVars, game, core, alive, paused, unsure, mem,
                       cmd>>,
           \/ /\ wait /\ phase' = "flushing" /\ UNCHANGED shadow
              /\ cmd # NoCmd
           \/ ~wait /\ cmd = NoCmd /\ UpdateShadow /\ UNCHANGED phase
    PROVE  Believes'
<1>. USE RomFacts DEF HostInv
<1>1. /\ latest' = Snapshot(game, mem, latest.seq + 1) /\ pending' = latest'
      /\ waitSeq' = IF wait THEN latest'.seq ELSE 0
  BY DEF Queue, Snapshot
<1>2. /\ latest'.seq = latest.seq + 1 /\ latest'.name = game /\ latest'.data = mem
  BY <1>1 DEF Snapshot
<1>3. InFlight' /\ latest'.seq > 0
  BY <1>2, FlightFacts, SramAssumption DEF InFlight, writerVars, SramInv, SeqOrder, TypeOK
<1>4. UNCHANGED <<job, disk, completed, game, core, alive, paused, unsure, mem, cmd>>
  BY DEF writerVars, fileVars
<1>5. phase' \in {"flushing", "idle"}
  BY DEF CommandOK
<1>6. MidLoad' = MidLoad /\ RamContents' = RamContents
  BY <1>4 DEF MidLoad, RamContents
<1>7. CommandOK'
  BY <1>1, <1>4, <1>5, <1>6 DEF CommandOK
<1>8. RamOK' /\ OwnerOK'
  BY <1>2, <1>4 DEF OwnerOK, RamOK, UpdateShadow
<1>9. ShadowOK' /\ FlushedOK'
  BY <1>2, <1>3, <1>4, <1>5 DEF ShadowOK, FlushedOK, HandedOver, Ours
<1>10. PausedOK'
  BY <1>1, <1>2, <1>4, <1>6 DEF PausedOK, SavedAs
<1>. QED BY <1>7, <1>8, <1>9, <1>10 DEF Believes

LEMMA Flushes ==
    ASSUME HostInv, BeginFlush PROVE Believes'
<1>. USE RomFacts DEF HostInv
<1>1. /\ UNCHANGED <<writerVars, fileVars, alive, core, game, paused, unsure, mem, shadow, cmd>>
      /\ phase \in {"start", "flush"} /\ cmd # NoCmd /\ alive
  BY DEF BeginFlush, CommandOK
<1>2. MidLoad' = MidLoad /\ RamContents' = RamContents
  BY <1>1 DEF MidLoad, RamContents
<1>3. CASE UNCHANGED producerVars /\ ((~Loaded /\ phase' = "flushed") \/ phase' = "unsaved")
  <2>1. game # NoRom => core
    BY DEF CommandOK
  <2>2. UNCHANGED sramVars
    BY <1>1, <1>3 DEF producerVars, writerVars, fileVars, sramVars
  <2>3. phase' = "flushed" => game = NoRom /\ ~InFlight
    BY <1>1, <1>3, <2>1, Proceeding DEF Loaded
  <2>4. UNCHANGED <<sramVars, game, mem, shadow, alive>>
    BY <1>1, <2>2
  <2>5. game # NoRom => core'
    BY <1>1, <2>1
  <2>6. phase' \in {"flushed", "unsaved"} /\ cmd' # NoCmd
    BY <1>1, <1>3
  <2>7. cmd'.op = "load_game" /\ phase' \notin {"idle", "start"} => core'
    BY <1>1, <1>3, <2>1 DEF CommandOK, BeginFlush, Loaded, FlushesFirst, MidLoad
  <2>. QED BY <1>1, <1>2, <2>3, <2>4, <2>5, <2>6, <2>7, Elsewhere
<1>4. CASE Loaded /\ Skippable(Forced) /\ phase' = "flushing" /\ AwaitLatest /\ UNCHANGED stopping
  <2>1. UNCHANGED <<latest, pending, job, completed, completedErr, disk>> /\ waitSeq' = latest.seq
    BY <1>1, <1>4 DEF AwaitLatest, writerVars, fileVars
  <2>2. game \in Battery => shadow = mem /\ ~Forced
    BY <1>4 DEF Skippable
  <2>3. CommandOK' /\ RamOK'
    BY <1>1, <1>2, <1>4, <2>1 DEF CommandOK, RamOK, Loaded
  <2>4. OwnerOK' /\ PausedOK' /\ ShadowOK'
    BY <1>1, <1>2, <2>1 DEF OwnerOK, PausedOK, ShadowOK, Ours, SavedAs, InFlight
  <2>5. FlushedOK'
    BY <1>1, <1>4, <2>1, <2>2 DEF FlushedOK, HandedOver, Forced
  <2>. QED BY <2>3, <2>4, <2>5 DEF Believes
<1>5. CASE Loaded /\ ~Skippable(Forced) /\ phase' = "flushing" /\ Queue(game, mem, TRUE)
           /\ UNCHANGED stopping
  <2>1. game \in Battery
    BY <1>5 DEF Skippable
  <2>. QED BY <1>1, <1>5, <2>1, Handing
<1>. QED BY <1>3, <1>4, <1>5 DEF BeginFlush

LEMMA FlushEnds ==
    ASSUME HostInv, EndFlush PROVE Believes'
<1>. USE RomFacts DEF HostInv
<1>1. /\ UNCHANGED <<latest, pending, job, completed, completedErr, disk,
                     alive, core, game, paused, mem, cmd>>
      /\ phase = "flushing" /\ waitSeq = latest.seq /\ waitSeq' = 0
      /\ phase' \in {"flushed", "unsaved"} /\ shadow' \in {mem, shadow}
      /\ (unsure' = unsure) \/ (phase' = "flushed" /\ Forced)
  BY DEF EndFlush, UpdateShadow, CommandOK, writerVars, fileVars, HostTypeOK
<1>2. completed = latest.seq /\ ~InFlight /\ pending = NoJob /\ job = NoJob
  BY <1>1, FlightFacts, SramAssumption DEF EndFlush, WaitOver, SramInv, SeqOrder, TypeOK,
     InFlight
<1>3. phase' = "flushed" => ~LatestWriteFailed
  BY <1>1, <1>2 DEF EndFlush, WaitOk, LatestWriteFailed
<1>4. MidLoad' = MidLoad /\ RamContents' = RamContents /\ Forced' = Forced /\ Ours' = Ours
      /\ InFlight' = InFlight /\ LatestWriteFailed' = LatestWriteFailed
  BY <1>1 DEF MidLoad, RamContents, Forced, Ours, InFlight, LatestWriteFailed
<1>5. CommandOK' /\ RamOK'
  BY <1>1, <1>4 DEF CommandOK, RamOK
<1>6. game \in Battery => HandedOver
  BY <1>1 DEF FlushedOK
<1>7. FlushedOK'
  BY <1>1, <1>2, <1>3, <1>4, <1>6 DEF FlushedOK, HandedOver
<1>8. OwnerOK'
  BY <1>1, <1>2, <1>4 DEF OwnerOK
<1>9. game \in Battery /\ phase' = "flushed" /\ Forced => SavedAs(mem)
  BY <1>2, <1>3, <1>6, WrittenFacts DEF HandedOver, Ours, SavedAs
<1>10. PausedOK'
  <2>1. CASE unsure' = unsure
    BY <1>1, <1>2, <1>4, <2>1 DEF PausedOK, SavedAs
  <2>2. CASE phase' = "flushed" /\ Forced
    BY <1>1, <1>2, <1>9, <2>2 DEF PausedOK, SavedAs
  <2>. QED BY <1>1, <2>1, <2>2
<1>11. ShadowOK'
  BY <1>1, <1>2, <1>4, <1>6 DEF ShadowOK, HandedOver, SavedAs
<1>. QED BY <1>5, <1>7, <1>8, <1>10, <1>11 DEF Believes

LEMMA TimerFlushes ==
    ASSUME HostInv, PeriodicFlush PROVE Believes'
  BY Handing DEF PeriodicFlush, Skippable, flagVars, fileVars

-----------------------------------------------------------------------------
(* The writer thread *)

LEMMA WriterMoves ==
    ASSUME HostInv, WriterStep, UNCHANGED hostVars PROVE Believes'
<1>. USE RomFacts DEF HostInv
<1>1. /\ UNCHANGED <<alive, core, game, paused, unsure, mem, shadow, cmd, phase>>
      /\ game \in Battery => alive
  BY DEF hostVars, flagVars, CommandOK
<1>2. UNCHANGED <<latest, waitSeq>>
  BY DEF WriterStep, TakeSnapshot, WriteTemp, SyncTemp, RenameTemp, SyncDirectory,
     WriteFails, GiveUp, Publish, WriterExits, producerVars
<1>3. UNCHANGED <<MidLoad, RamContents, HandedOver, Ours>>
  BY <1>1, <1>2 DEF MidLoad, RamContents, HandedOver, Forced, Ours
<1>4. CommandOK' /\ RamOK'
  BY <1>1, <1>2, <1>3 DEF CommandOK, RamOK
<1>5. CASE TakeSnapshot
  <2>1. /\ UNCHANGED <<completed, completedErr, disk>> /\ pending # NoJob
        /\ job' = pending /\ pending' = NoJob
    BY <1>5 DEF TakeSnapshot, fileVars
  <2>2. InFlight /\ pending = latest
    BY <2>1, FlightFacts
  <2>3. OwnerOK' /\ PausedOK'
    BY <1>1, <1>2, <1>3, <2>1, <2>2 DEF OwnerOK, PausedOK, SavedAs, InFlight
  <2>4. ShadowOK' /\ FlushedOK'
    BY <1>1, <1>2, <1>3, <2>1 DEF ShadowOK, FlushedOK, SavedAs, InFlight, LatestWriteFailed
  <2>. QED BY <1>4, <2>3, <2>4 DEF Believes
<1>6. CASE WriteTemp \/ SyncTemp \/ SyncDirectory \/ WriteFails \/ WriterExits
  <2>1. UNCHANGED <<completed, completedErr, disk, job, pending>>
    BY <1>6 DEF WriteTemp, SyncTemp, SyncDirectory, WriteFails, GiveUp, WriterExits,
       fileVars, producerVars
  <2>. QED BY <1>1, <1>2, <2>1, Steady
<1>7. CASE RenameTemp
  <2>1. /\ UNCHANGED <<completed, completedErr, job, pending>>
        /\ disk' = [disk EXCEPT ![job.name] = temp] /\ writer = "synced"
    BY <1>7 DEF RenameTemp, producerVars
  <2>2. job # NoJob /\ temp.data = job.data
    BY <2>1, JobFacts DEF SramInv, WriterHolds, WriterProgress, File
  <2>3. InFlight
    BY <2>2, FlightFacts
  <2>4. game \in Battery => disk'[game] = temp
    BY <1>1, <2>1, <2>2 DEF OwnerOK, SramInv, TypeOK
  <2>5. OwnerOK'
    BY <1>1, <1>2, <2>1 DEF OwnerOK, InFlight
  <2>6. PausedOK'
    BY <1>1, <1>3, <2>1, <2>2, <2>4 DEF PausedOK, SavedAs
  <2>7. ShadowOK' /\ FlushedOK'
    BY <1>1, <1>2, <1>3, <2>1, <2>3 DEF ShadowOK, FlushedOK, InFlight
  <2>. QED BY <1>4, <2>5, <2>6, <2>7 DEF Believes
<1>8. CASE Publish
  <2>1. /\ UNCHANGED <<disk, pending>> /\ job' = NoJob /\ completed' = job.seq
        /\ writer \in {"saved", "failed"}
    BY <1>8 DEF Publish, producerVars, fileVars
  <2>2. InFlight
    BY <2>1, FlightFacts DEF SramInv, WriterHolds
  <2>3. OwnerOK' /\ PausedOK'
    BY <1>1, <1>2, <1>3, <2>1, <2>2 DEF OwnerOK, PausedOK, SavedAs
  <2>4. ShadowOK' /\ FlushedOK'
    BY <1>1, <1>2, <1>3, <2>2 DEF ShadowOK, FlushedOK
  <2>. QED BY <1>4, <2>3, <2>4 DEF Believes
<1>. QED BY <1>5, <1>6, <1>7, <1>8 DEF WriterStep

\* The end of the process, the start of the next
LEMMA Ends ==
    ASSUME HostInv, StopWriterThread \/ Restart \/ UNCHANGED vars PROVE Believes'
<1>. USE RomFacts DEF HostInv
<1>1. CASE StopWriterThread \/ UNCHANGED vars
  <2>1. UNCHANGED <<latest, pending, waitSeq, job, completed, completedErr, disk, alive,
                    core, game, paused, unsure, mem, shadow, cmd, phase>>
    BY <1>1 DEF StopWriterThread, StopWriter, vars, sramVars, hostVars, flagVars,
       writerVars, fileVars
  <2>. QED BY <2>1, Steady
<1>2. CASE Restart
  <2>1. /\ alive' /\ game' = NoRom /\ ~paused' /\ mem' = NoData /\ shadow' = NoData
        /\ cmd' = NoCmd /\ phase' = "idle" /\ waitSeq' = 0
        /\ latest' = NoJob /\ job' = NoJob /\ completed' = 0 /\ ~MidLoad'
    BY <1>2 DEF Restart, FreshHost, Kill, PowerLoss, FreshProcess, MidLoad
  <2>2. ~InFlight'
    BY <2>1 DEF InFlight, NoJob
  <2>. QED BY <2>1, <2>2 DEF Believes, CommandOK, RamOK, OwnerOK, ShadowOK, FlushedOK, PausedOK
<1>. QED BY <1>1, <1>2

-----------------------------------------------------------------------------
(* The invariant *)

LEMMA HostInitInv == HostInit => HostInv
<1>. SUFFICES ASSUME HostInit PROVE HostInv
  OBVIOUS
<1>. USE RomFacts DEF HostInit
<1>1. SramInv
  BY InitInv
<1>2. HostTypeOK
  BY <1>1 DEF HostTypeOK, SramInv, Phases
<1>3. ~InFlight /\ job = NoJob
  BY DEF Init, InFlight, NoJob
<1>4. CommandOK
  BY DEF CommandOK, Init, MidLoad
<1>. QED BY <1>1, <1>2, <1>3, <1>4 DEF HostInv, RamOK, OwnerOK, ShadowOK, FlushedOK, PausedOK

LEMMA HostNextInv == HostInv /\ [HostNext]_vars => HostInv'
<1>. SUFFICES ASSUME HostInv, [HostNext]_vars PROVE HostInv'
  OBVIOUS
<1>1. SramInv'
  BY HostIsSram, NextInv DEF HostInv
<1>2. HostTypeOK'
  BY HostTypeSteps
<1>3. Believes'
  <2>1. SetPaused => cmd.value \in BOOLEAN
    BY CommandFacts DEF SetPaused, HostInv, HostTypeOK
  <2>2. CASE SetPaused
    BY <2>1, <2>2, Pauses, OtherSteps
  <2>3. CASE CommandStep /\ ~SetPaused
    BY <2>3, CommandSteps, OtherSteps, Loads, Replaces, LoadEnds, Flushes, FlushEnds
       DEF CommandStep
  <2>. QED BY <2>2, <2>3, OtherSteps, Frames, TimerFlushes, WriterMoves, Ends DEF HostNext
<1>. QED BY <1>1, <1>2, <1>3 DEF HostInv, Believes

\* The emulation thread is a producer as SramWriter describes one: whatever
\* commands, frames and failures do, it submits and waits as specified there,
\* so that everything proved of the writer holds of the daemon.
THEOREM HostRefinesWriter == HostSpec => Spec
<1>1. HostInit => Init
  BY DEF HostInit
<1>. QED BY <1>1, HostIsSram, HostInitInv, HostNextInv, PTL DEF HostSpec, Spec

\* The emulation thread, when it waits for its writer, waits for a bounded
\* number of the writer's steps, whichever command or flush made it wait.
THEOREM CommandsWaitBriefly == HostSpec => []NobodyStranded /\ WaitsApproach
BY HostRefinesWriter, NoProducerStranded, WaitsEnd, PTL

\* To its callers the emulation thread with its writer is a durable store.
THEOREM HostIsDurableStore ==
    ASSUME DirFsync PROVE HostSpec => ImplementsDurableStore
BY HostRefinesWriter, WriterIsDurableStore, PTL

\* The beliefs of the host are true in every reachable state.
THEOREM HostInvariant == HostSpec => []HostInv
BY HostInitInv, HostNextInv, PTL DEF HostSpec

\* Every variable of the emulation thread stays within its type.
THEOREM HostTyped == HostSpec => []HostTypeOK
BY HostInvariant, PTL DEF HostInv

\* A flush that writes nothing leaves nothing unsaved, unless a failed realloc
\* left it an old shadow to compare with.
THEOREM SkipsAreSafe == HostSpec => []SkipIsSafe
<1>1. HostInv => SkipIsSafe
  <2>. SUFFICES ASSUME HostInv, Loaded, Skippable(FALSE), ~ShadowStale, game \in Battery
                PROVE  Saved(disk) \/ (InFlight /\ latest.name = game /\ latest.data = mem)
    BY DEF SkipIsSafe, Saved
  <2>1. shadow = mem /\ ~LatestWriteFailed
    BY DEF Skippable
  <2>2. CASE ~Ours
    BY <2>1, <2>2 DEF HostInv, ShadowOK, SavedAs, Saved
  <2>3. CASE Ours
    <3>1. latest.name = game /\ latest.data = mem /\ latest.seq > 0
      BY <2>1, <2>3 DEF Ours, ShadowStale
    <3>2. ~InFlight => disk[game].data = mem
      BY <2>1, <3>1, WrittenFacts DEF HostInv
    <3>. QED BY <3>1, <3>2 DEF Saved
  <2>. QED BY <2>2, <2>3
<1>. QED BY <1>1, HostInvariant, PTL

\* A paused game is on disk, and on the medium once it was written, but for
\* the two pauses the history records.
THEOREM PausesSave == HostSpec => []PausedMeansSaved
<1>1. HostInv => PausedMeansSaved
  <2>. SUFFICES ASSUME HostInv, paused, game # NoRom, ~unsure, ~MidLoad PROVE
         Saved(disk) /\ (DirFsync /\ Acknowledged /\ latest.name = game => Saved(stable))
    BY DEF PausedMeansSaved
  <2>1. Saved(disk)
    BY DEF HostInv, PausedOK, SavedAs, Saved
  <2>2. ASSUME DirFsync, Acknowledged, latest.name = game PROVE stable[game] = disk[game]
    BY <2>2 DEF HostInv, SramInv, AcknowledgedIsDurable
  <2>. QED BY <2>1, <2>2 DEF Saved
<1>. QED BY <1>1, HostInvariant, PTL

\* A game gives up the core only after its battery RAM was saved, or with
\* a shutdown that reports the error.
THEOREM GamesLeaveSaved == HostSpec => GameLeavesSaved
<1>. DEFINE A == game # NoRom /\ game' # game /\ ~Restart =>
                     \/ Saved(disk) /\ (DirFsync => Saved(stable))
                     \/ ~alive' /\ reply' = "error"
<1>1. ASSUME HostInv, [HostNext]_vars PROVE [A]_vars
  <2>. SUFFICES ASSUME HostNext, game # NoRom, game' # game, ~Restart,
                       ~(~alive' /\ reply' = "error")
                PROVE  Saved(disk) /\ (DirFsync => Saved(stable))
    BY <1>1
  <2>1. \/ UnloadGame \/ UnloadCore \/ LoadCore \/ Shutdown
        \/ RomRejected \/ SramRejected \/ RomLoaded
    BY DEF HostNext, CommandStep, Accept, BeginFlush, EndFlush, AbortUnsaved, ReadRom,
       RefuseState, SaveState, Unserialize, StateLoaded, RestoreBackup, BackupSaved,
       BackupUnsaved, Start, Stop, SetPaused, ResetOrFlush, PeriodicFlush, RunFrame,
       SetViewers, StopWriterThread, hostVars, flagVars, vars
  <2>2. phase = "flushed" /\ Forced
    BY <2>1 DEF UnloadGame, UnloadCore, LoadCore, Shutdown, RomRejected, SramRejected,
       RomLoaded, Proceeds, FlushesFirst, Forced, Done
  <2>3. SUFFICES ASSUME game \in Battery PROVE Saved(disk) /\ (DirFsync => Saved(stable))
    BY DEF Saved
  <2>4. ~InFlight /\ ~LatestWriteFailed /\ HandedOver
    BY <1>1, <2>2, <2>3 DEF HostInv, FlushedOK
  <2>5. latest.seq > 0 /\ latest.name = game /\ latest.data = mem
    BY <2>2, <2>4 DEF HandedOver, Ours
  <2>6. Acknowledged /\ disk[game].data = mem
    BY <1>1, <2>4, <2>5, WrittenFacts DEF HostInv
  <2>7. DirFsync => stable[game] = disk[game]
    BY <1>1, <2>5, <2>6 DEF HostInv, SramInv, AcknowledgedIsDurable
  <2>. QED BY <2>6, <2>7 DEF Saved
<1>. QED BY <1>1, HostInvariant, PTL DEF HostSpec, GameLeavesSaved

=============================================================================
