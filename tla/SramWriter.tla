----------------------------- MODULE SramWriter -----------------------------
(***************************************************************************)
(* Battery-backed SRAM persistence of nesd (package/nes-emulator/src/      *)
(* host.c).  The emulation thread is the only producer: it copies the      *)
(* console's SRAM into a one-element, latest-only slot.  The writer thread *)
(* (sram_thread_fn) takes the slot and performs the atomic sequence        *)
(* temporary file, fsync, rename, directory fsync (atomic_write_at).  A    *)
(* producer that needs durability blocks until its sequence number has     *)
(* been completed (wait_for_sram_sequence).                                *)
(*                                                                         *)
(* One action is one critical section of sram_mu or one system call.  The  *)
(* process may be killed and the router may lose power between any two.    *)
(***************************************************************************)
EXTENDS Naturals

CONSTANTS
    Names,          \* names of SRAM files, one per ROM path (make_sram_name)
    Data,           \* contents of battery RAM
    NoData,         \* "the file does not exist"
    Torn,           \* contents of a file whose data never reached the medium
    DirFsync,       \* does the file system honour fsync() on a directory?
    MaxSeq          \* bound: snapshots submitted in one life of the process

ASSUME SramAssumption ==
    /\ NoData \notin Data /\ Torn \notin Data /\ NoData # Torn
    /\ DirFsync \in BOOLEAN
    /\ MaxSeq \in Nat \ {0}

VARIABLES
    latest,         \* last snapshot submitted; latest.seq is sram_submitted_seq
    pending,        \* the latest-only slot sram_pending_*
    completed,      \* sram_completed_seq
    completedErr,   \* sram_completed_errno # 0
    stopping,       \* sram_shutdown
    waitSeq,        \* sequence the producer is blocked on, 0 when it runs
    writer,         \* control state of the writer thread
    job,            \* the snapshot the writer thread took
    temp,           \* the writer's temporary file
    disk,           \* files as processes see them
    stable          \* files as the medium holds them

producerVars == <<latest, pending, stopping, waitSeq>>
writerVars   == <<completed, completedErr, writer, job, temp>>
fileVars     == <<disk, stable>>
sramVars     == <<latest, pending, completed, completedErr, stopping,
                  waitSeq, writer, job, temp, disk, stable>>

-----------------------------------------------------------------------------
(* Values *)

Snapshot(n, d, s) == [seq |-> s, name |-> n, data |-> d]
Snapshots == [seq : 1..MaxSeq, name : Names, data : Data]
NoJob     == [seq |-> 0]

File(d, s) == [data |-> d, synced |-> s]
Missing    == File(NoData, TRUE)
Files      == [data : Data \cup {NoData, Torn}, synced : BOOLEAN]

\* What a power loss leaves of a file whose name had reached the medium.
AfterPowerLoss(f) == IF f.synced THEN f ELSE File(Torn, TRUE)

WriterStates == {"wait", "open", "written", "synced", "renamed",
                 "saved", "failed", "exited"}

-----------------------------------------------------------------------------
(* The producer: the emulation thread *)

\* Fault: the slot is filled although somebody waits for its contents.
QueueOverWaiter(n, d, wait) ==
    LET s == Snapshot(n, d, latest.seq + 1) IN
    /\ latest.seq < MaxSeq
    /\ ~stopping
    /\ pending' = s
    /\ latest' = s
    /\ waitSeq' = IF wait THEN s.seq ELSE waitSeq

\* queue_sram_snapshot: replace whatever the slot holds.  A producer that
\* asks to wait is blocked from here on.
Queue(n, d, wait) ==
    LET s == Snapshot(n, d, latest.seq + 1) IN
    /\ latest.seq < MaxSeq
    /\ waitSeq = 0
    /\ ~stopping
    /\ pending' = s
    /\ latest' = s
    /\ waitSeq' = IF wait THEN s.seq ELSE 0

\* wait_for_latest_sram: block on the last submitted sequence.
\* Sequence 0 means nothing was ever submitted and returns at once.
AwaitLatest ==
    /\ waitSeq = 0
    /\ waitSeq' = latest.seq
    /\ UNCHANGED <<latest, pending>>

\* wait_for_sram_sequence: when it may return, and with which result.
WaitOver == waitSeq > 0 /\ completed >= waitSeq
WaitOk   == completed = waitSeq /\ ~completedErr

\* latest_sram_write_failed
LatestWriteFailed ==
    completed # 0 /\ completed = latest.seq /\ completedErr

QueueSnapshot ==
    /\ \E n \in Names, d \in Data, wait \in BOOLEAN : Queue(n, d, wait)
    /\ UNCHANGED <<stopping, writerVars, fileVars>>

WaitForLatest ==
    /\ latest.seq > 0
    /\ AwaitLatest
    /\ UNCHANGED <<stopping, writerVars, fileVars>>

WaitReturns ==
    /\ WaitOver
    /\ waitSeq' = 0
    /\ UNCHANGED <<latest, pending, stopping, writerVars, fileVars>>

\* stop_sram_thread: only after the emulation thread is gone.
StopWriter ==
    /\ waitSeq = 0
    /\ ~stopping
    /\ stopping' = TRUE
    /\ UNCHANGED <<latest, pending, waitSeq, writerVars, fileVars>>

-----------------------------------------------------------------------------
(* The writer thread *)

TakeSnapshot ==
    /\ writer = "wait"
    /\ pending # NoJob
    /\ job' = pending
    /\ pending' = NoJob
    /\ writer' = "open"
    /\ UNCHANGED <<latest, completed, completedErr, stopping, waitSeq, temp,
                   fileVars>>

\* Fault: shutdown is looked at before the slot.
WriterExitsAtOnce ==
    /\ writer = "wait"
    /\ stopping
    /\ writer' = "exited"
    /\ UNCHANGED <<producerVars, completed, completedErr, job, temp, fileVars>>

\* A pending snapshot is still written after shutdown was requested.
WriterExits ==
    /\ writer = "wait"
    /\ pending = NoJob
    /\ stopping
    /\ writer' = "exited"
    /\ UNCHANGED <<producerVars, completed, completedErr, job, temp, fileVars>>

\* Any call of atomic_write_at may fail; the temporary is then unlinked.
GiveUp(pc) ==
    /\ writer = pc
    /\ writer' = "failed"
    /\ temp' = Missing
    /\ UNCHANGED <<producerVars, completed, completedErr, job, fileVars>>

WriteTemp ==
    /\ writer = "open"
    /\ temp' = File(job.data, FALSE)
    /\ writer' = "written"
    /\ UNCHANGED <<producerVars, completed, completedErr, job, fileVars>>

SyncTemp ==
    /\ writer = "written"
    /\ temp' = File(temp.data, TRUE)
    /\ writer' = "synced"
    /\ UNCHANGED <<producerVars, completed, completedErr, job, fileVars>>

\* Fault: the file is renamed without its fsync.
RenameTempUnsynced ==
    /\ writer \in {"written", "synced"}
    /\ disk' = [disk EXCEPT ![job.name] = temp]
    /\ temp' = Missing
    /\ writer' = "renamed"
    /\ UNCHANGED <<producerVars, completed, completedErr, job, stable>>

RenameTemp ==
    /\ writer = "synced"
    /\ disk' = [disk EXCEPT ![job.name] = temp]
    /\ temp' = Missing
    /\ writer' = "renamed"
    /\ UNCHANGED <<producerVars, completed, completedErr, job, stable>>

\* Fault: the directory is not synced.
SyncDirectorySkipped ==
    /\ writer = "renamed"
    /\ writer' = "saved"
    /\ UNCHANGED <<producerVars, completed, completedErr, job, temp, fileVars>>

\* The directory fsync makes every earlier rename durable.  EINVAL and
\* EOPNOTSUPP (a file system without directory fsync) count as success.
SyncDirectory ==
    /\ writer = "renamed"
    /\ stable' = IF DirFsync THEN disk ELSE stable
    /\ writer' = "saved"
    /\ UNCHANGED <<producerVars, completed, completedErr, job, temp, disk>>

\* Fault: the error of the write is lost.
PublishSuccess ==
    /\ writer \in {"saved", "failed"}
    /\ completed' = job.seq
    /\ completedErr' = FALSE
    /\ job' = NoJob
    /\ writer' = "wait"
    /\ UNCHANGED <<producerVars, temp, fileVars>>

\* Fault: nobody is told about a failed write.
PublishOnlySuccess ==
    /\ writer = "saved"
    /\ completed' = job.seq
    /\ completedErr' = FALSE
    /\ job' = NoJob
    /\ writer' = "wait"
    /\ UNCHANGED <<producerVars, temp, fileVars>>

\* The writer publishes the outcome under sram_mu and loops.
Publish ==
    /\ writer \in {"saved", "failed"}
    /\ completed' = job.seq
    /\ completedErr' = (writer = "failed")
    /\ job' = NoJob
    /\ writer' = "wait"
    /\ UNCHANGED <<producerVars, temp, fileVars>>

WriteFails == \E pc \in {"open", "written", "synced", "renamed"} : GiveUp(pc)

WriterStep ==
    \/ TakeSnapshot
    \/ WriteTemp
    \/ SyncTemp
    \/ RenameTemp
    \/ SyncDirectory
    \/ WriteFails
    \/ Publish
    \/ WriterExits

-----------------------------------------------------------------------------
(* The process and the router *)

\* A new process: everything in memory is gone (host_init zeroes it).  A
\* temporary file left behind is never opened again; it is forgotten here.
FreshProcess ==
    /\ latest' = NoJob
    /\ pending' = NoJob
    /\ completed' = 0
    /\ completedErr' = FALSE
    /\ stopping' = FALSE
    /\ waitSeq' = 0
    /\ writer' = "wait"
    /\ job' = NoJob
    /\ temp' = Missing

\* Killed (nesd volunteers for the OOM killer) or exited, then started again.
Kill == FreshProcess /\ UNCHANGED fileVars

\* Each name is found as it was last seen or as the medium held it.
PowerLoss ==
    /\ FreshProcess
    /\ \E reached \in SUBSET Names :
         disk' = [n \in Names |-> IF n \in reached
                                  THEN AfterPowerLoss(disk[n]) ELSE stable[n]]
    /\ stable' = disk'

Init ==
    /\ latest = NoJob
    /\ pending = NoJob
    /\ completed = 0
    /\ completedErr = FALSE
    /\ stopping = FALSE
    /\ waitSeq = 0
    /\ writer = "wait"
    /\ job = NoJob
    /\ temp = Missing
    /\ disk \in [Names -> {Missing} \cup {File(d, TRUE) : d \in Data}]
    /\ stable = disk

Next ==
    \/ QueueSnapshot
    \/ WaitForLatest
    \/ WaitReturns
    \/ StopWriter
    \/ WriterStep
    \/ Kill
    \/ PowerLoss

Spec == Init /\ [][Next]_sramVars

-----------------------------------------------------------------------------
(* Properties *)

\* The slot, the writer thread and the files hold values of their kind: in
\* particular sequence numbers stay within those submitted.
TypeOK ==
    /\ latest \in Snapshots \cup {NoJob}
    /\ pending \in Snapshots \cup {NoJob}
    /\ completed \in 0..MaxSeq
    /\ completedErr \in BOOLEAN
    /\ stopping \in BOOLEAN
    /\ waitSeq \in 0..MaxSeq
    /\ writer \in WriterStates
    /\ job \in Snapshots \cup {NoJob}
    /\ temp \in Files
    /\ disk \in [Names -> Files]
    /\ stable \in [Names -> Files]

\* The last snapshot was written and the producer may be told so.
Acknowledged == latest.seq > 0 /\ completed = latest.seq /\ ~completedErr

\* A save reported as durable is durable: the file holds exactly the last
\* snapshot, with its data synced, and the medium holds the same file, so
\* neither a kill nor a power loss can bring older contents back
\* (atomic_write_at, wait_for_sram_sequence).
AcknowledgedIsDurable ==
    Acknowledged =>
        /\ disk[latest.name] = File(latest.data, TRUE)
        /\ DirFsync => stable[latest.name] = disk[latest.name]

\* No interleaving with a kill or a power loss ever leaves a file whose
\* contents were not completely written: rename comes after fsync.
NoTornFile == \A n \in Names : disk[n].data # Torn /\ stable[n].data # Torn

\* The branch of wait_for_sram_sequence that answers EIO because a newer
\* snapshot overtook the awaited one is never taken: the latest-only slot
\* cannot swallow a snapshot somebody waits for.
NeverSuperseded == waitSeq > 0 => completed <= waitSeq /\ waitSeq = latest.seq

\* When the writer thread has exited, host_shutdown loses nothing: every
\* submitted snapshot was written or was replaced by a newer one that was.
ExitDrained == writer = "exited" => pending = NoJob /\ completed = latest.seq

-----------------------------------------------------------------------------
(* The contents a reader may find under a name, now or after any failure;  *)
(* this is what DurableStore promises about.                               *)

Candidates(n) ==
    {disk[n].data, stable[n].data}
    \cup {s.data : s \in {t \in {pending} : t # NoJob /\ t.name = n}}
    \cup {s.data : s \in {t \in {job} : /\ t # NoJob /\ t.name = n
                                        /\ writer # "failed"}}

Store == INSTANCE DurableStore WITH
    candidates <- [n \in Names |-> Candidates(n)],
    current    <- IF latest = NoJob THEN <<>> ELSE <<latest.name, latest.data>>,
    settled    <- Acknowledged

\* The slot, the writer thread and the system calls together implement a
\* durable store: at any point only old or newly submitted contents can be
\* found, and an acknowledged save leaves exactly one candidate.
ImplementsDurableStore == Store!Spec
=============================================================================
