----------------------------- MODULE SaveStates -----------------------------
(***************************************************************************)
(* Full-machine save states of nesd (worker_save_state, worker_load_state, *)
(* worker_delete_state, worker_list_states and their helpers in host.c).   *)
(* All of it runs on the emulation thread, one command at a time, so       *)
(* frames run only between commands; the process may be killed and the     *)
(* router may lose power between any two system calls.                     *)
(*                                                                         *)
(* One game is loaded.  The SRAM writer appears as what DurableStore       *)
(* promises: the set of contents a later reader may find, which a          *)
(* successful flush turns into exactly the current battery RAM.            *)
(***************************************************************************)
EXTENDS Naturals, FiniteSets

CONSTANTS
    Slots,
    Machines,       \* serialised states of the console
    Fresh,          \* the machine after the game was loaded, per battery RAM
    Ram,            \* the battery RAM inside a machine state
    NoFile,
    Unknown,        \* no promise was given
    Quota,          \* NES_STATE_TOTAL_QUOTA, in units of a payload
    MaxOps,         \* bound: commands in a behaviour
    MaxRestarts     \* bound: kills and power losses in a behaviour

Rams == {Ram[m] : m \in Machines}

\* A container: header, payload, and a screenshot when there is one.
Container(m, p, s) == [mach |-> m, pic |-> p, synced |-> s]
Containers == [mach : Machines, pic : BOOLEAN, synced : BOOLEAN]
Torn       == Container(NoFile, FALSE, TRUE)

ASSUME SaveStatesAssumption ==
    /\ IsFiniteSet(Slots)
    /\ Ram \in [Machines -> Rams]
    /\ Fresh \in [Rams -> Machines]
    /\ \A r \in Rams : Ram[Fresh[r]] = r
    /\ NoFile \notin Machines \cup Containers \cup {Torn}
    /\ Quota \in Nat /\ MaxOps \in Nat /\ MaxRestarts \in Nat

VARIABLES
    mach,           \* the state of the console
    picture,        \* does the frame buffer hold a picture (frame_id > 0)?
    running, paused,
    leftover,       \* can there be queued sound or pressed buttons?
    sram,           \* candidates for the contents of the SRAM file
    seen,           \* state files as processes see them
    stable,         \* state files as the medium holds them
    temp,           \* the temporary file of the save in progress
    litter,         \* size of the temporaries earlier processes left
    orphans,        \* size of the temporaries this one could not unlink
    cleaned,        \* state_temps_cleaned
    op, pc,         \* the command and how far it got
    held,           \* file being written, or read by a load
    backup,         \* machine serialised before a load
    before,         \* history: what the load found
    reply,          \* outcome of the last command
    promised,       \* history: what was reported durable, per slot
    ops, restarts,
    dirFsync        \* does the file system honour fsync() on a directory?

consoleVars == <<mach, picture, running, paused, leftover>>
fileVars    == <<seen, stable, temp, litter, orphans, cleaned, promised>>
cmdVars     == <<op, held, backup, before, ops>>
routerVars  == <<restarts, dirFsync>>
vars == <<consoleVars, sram, fileVars, cmdVars, pc, reply, routerVars>>

Size(f) == IF f = NoFile THEN 0 ELSE IF f.pic THEN 2 ELSE 1

NoOp == [name |-> "none"]
Operations == [name : {"save", "load", "delete"}, slot : Slots]
                  \cup {[name |-> "list"]}
Fatal   == "fatal"

\* The sizes of the files of slots S: a unit each, and another one for each
\* screenshot.
Usage(files, S) ==
    Cardinality({s \in S : files[s] # NoFile})
      + Cardinality({s \in S : files[s] # NoFile /\ files[s].pic})

Stored == Usage(seen, Slots)

-----------------------------------------------------------------------------
(* Common steps *)

\* A command of the host API reaches the emulation thread.
Begin ==
    /\ pc = "idle" /\ ops < MaxOps
    /\ op' \in Operations
    /\ pc' = IF op'.name = "save" THEN "flush" ELSE "open"
    /\ before' = [mach |-> mach, running |-> running, paused |-> paused,
                  sram |-> sram, seen |-> seen]
    /\ ops' = ops + 1
    /\ UNCHANGED <<consoleVars, sram, fileVars, held, backup, reply, routerVars>>

\* The end of a command.
End(outcome) ==
    /\ pc' = "idle"
    /\ reply' = [op |-> op, outcome |-> outcome]
    /\ UNCHANGED <<op, held, backup, before, ops>>

Goto(next) == pc' = next /\ UNCHANGED <<op, held, backup, before, ops, reply>>

\* worker_flush_sram(h, true, true) as seen from here: it succeeds and only
\* the current RAM can be found, or it fails and may or may not have
\* replaced the file.
FlushOk     == sram' = {Ram[mach]}
FlushFailed == sram' \in {c \in SUBSET (sram \cup {Ram[mach]}) : c # {}}

\* Nothing but the answer: an early return of a command.
Fail(at) ==
    /\ pc = at
    /\ End("error")
    /\ UNCHANGED <<consoleVars, sram, fileVars, routerVars>>

\* open_state_directory: load, delete and list do not create it.
OpenDirectory ==
    /\ pc = "open"
    /\ Goto("cleanup")
    /\ UNCHANGED <<consoleVars, sram, fileVars, routerVars>>

\* state_cleanup_temps runs once per process; an error in the middle leaves
\* it to the next command.
CleanTemps ==
    /\ pc = "cleanup"
    /\ \/ /\ litter' = IF cleaned THEN litter ELSE 0
          /\ orphans' = IF cleaned THEN orphans ELSE 0
          /\ cleaned' = TRUE
          /\ Goto(CASE op.name = "save"   -> "capacity"
                    [] op.name = "load"   -> "read"
                    [] op.name = "delete" -> "unlink"
                    [] op.name = "list"   -> "scan")
       \/ /\ ~cleaned
          /\ litter' \in 0..litter /\ orphans' \in 0..orphans
          /\ UNCHANGED cleaned
          /\ End("error")
    /\ UNCHANGED <<consoleVars, sram, seen, stable, temp, promised, routerVars>>

\* worker_list_states reads every slot and changes nothing; without a
\* directory there is nothing to read.
Scan ==
    /\ pc = "scan" \/ (pc = "open" /\ op.name = "list")
    /\ End("ok")
    /\ UNCHANGED <<consoleVars, sram, fileVars, routerVars>>

-----------------------------------------------------------------------------
(* worker_save_state *)

\* Fault: the result of the SRAM flush is not looked at.
SaveFlushUnchecked ==
    /\ op.name = "save" /\ pc = "flush"
    /\ FlushOk \/ FlushFailed
    /\ Goto("serialize")
    /\ UNCHANGED <<consoleVars, fileVars, routerVars>>

SaveFlush ==
    /\ op.name = "save" /\ pc = "flush"
    /\ \/ FlushOk /\ Goto("serialize")
       \/ FlushFailed /\ End("error")
    /\ UNCHANGED <<consoleVars, fileVars, routerVars>>

Serialize ==
    /\ op.name = "save" /\ pc = "serialize"
    /\ held' = Container(mach, picture, FALSE)
    /\ pc' = "open"
    /\ UNCHANGED <<consoleVars, sram, fileVars, op, backup, before, ops, reply,
                   routerVars>>

\* Fault: left-over temporaries do not count.
FitsSlots == Stored - Size(seen[op.slot]) + Size(held) <= Quota

\* state_check_capacity: the old file of the slot does not count; the
\* temporaries do, because they are regular files of the directory.
Fits == Stored + litter + orphans - Size(seen[op.slot]) + Size(held) <= Quota

CheckCapacity ==
    /\ pc = "capacity"
    /\ Fits
    /\ Goto("create")
    /\ UNCHANGED <<consoleVars, sram, fileVars, routerVars>>

OverQuota == pc = "capacity" /\ ~Fits /\ Fail("capacity")

WriteTemp ==
    /\ pc = "create"
    /\ temp' = held
    /\ Goto("written")
    /\ UNCHANGED <<consoleVars, sram, seen, stable, litter, orphans, cleaned,
                   promised, routerVars>>

SyncTemp ==
    /\ pc = "written"
    /\ temp' = Container(temp.mach, temp.pic, TRUE)
    /\ Goto("synced")
    /\ UNCHANGED <<consoleVars, sram, seen, stable, litter, orphans, cleaned,
                   promised, routerVars>>

\* Fault: the container is renamed without its fsync.
RenameTempUnsynced ==
    /\ pc \in {"written", "synced"}
    /\ seen' = [seen EXCEPT ![op.slot] = temp]
    /\ temp' = NoFile
    /\ promised' = [promised EXCEPT ![op.slot] = Unknown]
    /\ Goto("changed")
    /\ UNCHANGED <<consoleVars, sram, stable, litter, orphans, cleaned, routerVars>>

RenameTemp ==
    /\ pc = "synced"
    /\ seen' = [seen EXCEPT ![op.slot] = temp]
    /\ temp' = NoFile
    /\ promised' = [promised EXCEPT ![op.slot] = Unknown]
    /\ Goto("changed")
    /\ UNCHANGED <<consoleVars, sram, stable, litter, orphans, cleaned, routerVars>>

\* write, fsync, close or rename fails: unlink the temporary, whose own
\* result nobody checks.
AbandonTemp ==
    /\ pc \in {"written", "synced"}
    /\ \/ orphans' = orphans
       \/ orphans' = orphans + Size(temp)
    /\ temp' = NoFile
    /\ End("error")
    /\ UNCHANGED <<consoleVars, sram, seen, stable, litter, cleaned, promised,
                   routerVars>>

\* Fault: the directory fsync fails and durability is reported all the same.
SyncDirectoryUnchecked ==
    /\ pc = "changed"
    /\ stable' \in {stable, seen}
    /\ promised' = [promised EXCEPT ![op.slot] = seen[op.slot]]
    /\ End("durable")
    /\ UNCHANGED <<consoleVars, sram, seen, temp, litter, orphans, cleaned,
                   routerVars>>

\* The final directory fsync of save and delete: its failure is reported as
\* success without durability, except EINVAL and EOPNOTSUPP of a file system
\* that does not know it, which pass for durable with nothing synced.
SyncDirectory ==
    /\ pc = "changed"
    /\ \/ /\ stable' = IF dirFsync THEN seen ELSE stable
          /\ promised' = [promised EXCEPT ![op.slot] = seen[op.slot]]
          /\ End("durable")
       \/ /\ UNCHANGED <<stable, promised>>
          /\ End("ok")
    /\ UNCHANGED <<consoleVars, sram, seen, temp, litter, orphans, cleaned,
                   routerVars>>

-----------------------------------------------------------------------------
(* worker_delete_state *)

Unlink ==
    /\ pc = "unlink" /\ seen[op.slot] # NoFile
    /\ seen' = [seen EXCEPT ![op.slot] = NoFile]
    /\ promised' = [promised EXCEPT ![op.slot] = Unknown]
    /\ Goto("changed")
    /\ UNCHANGED <<consoleVars, sram, stable, temp, litter, orphans, cleaned,
                   routerVars>>

-----------------------------------------------------------------------------
(* worker_load_state *)

\* state_read_file validates the whole container: a file that is not
\* complete is refused.
ReadFile ==
    /\ pc = "read" /\ seen[op.slot] \in Containers
    /\ held' = seen[op.slot]
    /\ pc' = "backup"
    /\ UNCHANGED <<consoleVars, sram, fileVars, op, backup, before, ops, reply,
                   routerVars>>

\* The machine is serialised before its SRAM is flushed.
TakeBackup ==
    /\ pc = "backup"
    /\ backup' = mach
    /\ pc' = "save-ram"
    /\ UNCHANGED <<consoleVars, sram, fileVars, op, held, before, ops, reply,
                   routerVars>>

FlushBeforeLoad ==
    /\ pc = "save-ram"
    /\ \/ FlushOk /\ Goto("unserialize")
       \/ FlushFailed /\ End("error")
    /\ UNCHANGED <<consoleVars, fileVars, routerVars>>

\* retro_unserialize returns false after it may have changed anything.
Unserialize ==
    /\ pc = "unserialize"
    /\ \/ mach' = held.mach /\ Goto("load-ram")
       \/ mach' \in Machines /\ Goto("restore")
    /\ UNCHANGED <<picture, running, paused, leftover, sram, fileVars, routerVars>>

\* Fault: sound and buttons of the old console survive the load.
FlushLoadedNoisy ==
    /\ pc = "load-ram"
    /\ \/ FlushOk /\ picture' = held.pic /\ End("ok")
       \/ FlushFailed /\ UNCHANGED picture /\ Goto("restore")
    /\ UNCHANGED <<mach, running, paused, leftover, fileVars, routerVars>>

\* The loaded battery RAM must reach the SRAM file too; then the stored
\* picture is shown (state_apply_frame).  Queued sound and pressed buttons
\* belong to the console that is gone: clear_audio, state_clear_inputs.
FlushLoaded ==
    /\ pc = "load-ram"
    /\ \/ /\ FlushOk
          /\ picture' = held.pic
          /\ End("ok")
       \/ /\ FlushFailed
          /\ UNCHANGED picture
          /\ Goto("restore")
    /\ leftover' = FALSE
    /\ UNCHANGED <<mach, running, paused, fileVars, routerVars>>

\* state_restore_backup
RestoreBackup ==
    /\ pc = "restore"
    /\ \/ /\ mach' = backup /\ Goto("restore-ram")
          /\ UNCHANGED <<running, paused, leftover>>
       \/ \* not even the backup is accepted: ENOTRECOVERABLE
          /\ mach' \in Machines
          /\ running' = FALSE /\ paused' = TRUE
          /\ leftover' = FALSE
          /\ End(Fatal)
    /\ UNCHANGED <<picture, sram, fileVars, routerVars>>

FlushRestored ==
    /\ pc = "restore-ram"
    /\ \/ /\ FlushOk
          /\ UNCHANGED <<running, paused>>
          /\ End("error")
       \/ /\ FlushFailed
          /\ running' = FALSE /\ paused' = TRUE
          /\ End(Fatal)
    /\ leftover' = FALSE
    /\ UNCHANGED <<mach, picture, fileVars, routerVars>>

-----------------------------------------------------------------------------
(* What happens between commands, and restarts *)

RunFrame ==
    /\ pc = "idle" /\ running /\ ~paused /\ ops < MaxOps
    /\ mach' \in Machines
    /\ picture' = TRUE
    /\ leftover' = TRUE
    /\ UNCHANGED <<running, paused, sram, fileVars, cmdVars, pc, reply, routerVars>>

\* HOST_CMD_SET_PAUSED: pausing saves first.
Pause ==
    /\ pc = "idle" /\ running /\ ~paused
    /\ FlushOk
    /\ paused' = TRUE
    /\ UNCHANGED <<mach, picture, running, leftover, fileVars, cmdVars, pc, reply,
                   routerVars>>

\* host_set_joy_mask, by the thread that would otherwise be in a command.
SetJoy ==
    /\ pc = "idle" /\ ops < MaxOps
    /\ leftover' = TRUE
    /\ UNCHANGED <<mach, picture, running, paused, sram, fileVars, cmdVars, pc,
                   reply, routerVars>>

\* Only an operation with an early return before its first effect.
EarlyError ==
    \/ Fail("open")
    \/ Fail("serialize")
    \/ Fail("capacity")
    \/ Fail("create")
    \/ Fail("unlink")
    \/ Fail("read")
    \/ Fail("backup")

\* The next process loads the game again and finds one of the candidates.
Reload(ram) ==
    /\ mach' = Fresh[ram]
    /\ picture' = FALSE
    /\ running' = TRUE /\ paused' = FALSE
    /\ leftover' = FALSE
    /\ temp' = NoFile /\ orphans' = 0 /\ cleaned' = FALSE
    /\ op' = NoOp /\ pc' = "idle"
    /\ held' = NoFile /\ backup' = NoFile
    /\ reply' = [op |-> NoOp, outcome |-> "none"]
    /\ before' = NoOp
    /\ UNCHANGED ops

Kill ==
    /\ restarts < MaxRestarts
    /\ restarts' = restarts + 1
    /\ \E r \in sram : Reload(r)
    /\ litter' = litter + orphans + Size(temp)
    /\ UNCHANGED <<sram, seen, stable, promised, dirFsync>>

AfterPowerLoss(f) == IF f = NoFile \/ f.synced THEN f ELSE Torn

\* Without an fsync of the directory no promise outlives the power, and the
\* SRAM file may be found as it was long ago.
PowerLoss ==
    /\ restarts < MaxRestarts
    /\ restarts' = restarts + 1
    /\ \E r \in (IF dirFsync THEN sram ELSE Rams) : Reload(r) /\ sram' = {r}
    /\ \E reached \in SUBSET Slots :
         seen' = [s \in Slots |-> IF s \in reached
                                  THEN AfterPowerLoss(seen[s]) ELSE stable[s]]
    /\ stable' = seen'
    /\ litter' \in {0, litter + orphans + Size(temp)}
    /\ promised' = IF dirFsync THEN promised ELSE [s \in Slots |-> Unknown]
    /\ UNCHANGED dirFsync

Init ==
    /\ \E r \in Rams : sram = {r} /\ mach = Fresh[r]
    /\ picture = FALSE /\ running = TRUE /\ paused = FALSE
    /\ leftover = FALSE
    /\ seen = [s \in Slots |-> NoFile] /\ stable = seen
    /\ temp = NoFile /\ litter = 0 /\ orphans = 0 /\ cleaned = FALSE
    /\ op = NoOp /\ pc = "idle"
    /\ held = NoFile /\ backup = NoFile
    /\ before = NoOp
    /\ reply = [op |-> NoOp, outcome |-> "none"]
    /\ promised = [s \in Slots |-> NoFile]
    /\ ops = 0 /\ restarts = 0 /\ dirFsync \in BOOLEAN

CommandStep ==
    \/ OpenDirectory \/ CleanTemps \/ Scan \/ EarlyError
    \/ SaveFlush \/ Serialize \/ CheckCapacity \/ OverQuota
    \/ WriteTemp \/ SyncTemp \/ RenameTemp \/ AbandonTemp \/ SyncDirectory
    \/ Unlink
    \/ ReadFile \/ TakeBackup \/ FlushBeforeLoad \/ Unserialize \/ FlushLoaded
    \/ RestoreBackup \/ FlushRestored

Next == Begin \/ CommandStep \/ RunFrame \/ Pause \/ SetJoy \/ Kill \/ PowerLoss

Spec == Init /\ [][Next]_vars

-----------------------------------------------------------------------------
(* Properties *)

\* Machine, files and the command in progress hold values of their kind: a
\* torn container is never restored, and a rollback has a backup to install.
TypeOK ==
    /\ mach \in Machines /\ picture \in BOOLEAN
    /\ running \in BOOLEAN /\ paused \in BOOLEAN
    /\ leftover \in BOOLEAN
    /\ sram \in SUBSET Rams /\ sram # {}
    /\ seen \in [Slots -> Containers \cup {NoFile, Torn}]
    /\ stable \in [Slots -> Containers \cup {NoFile, Torn}]
    /\ temp \in Containers \cup {NoFile}
    /\ litter \in Nat /\ orphans \in Nat /\ cleaned \in BOOLEAN
    /\ op \in Operations \cup {NoOp}
    /\ held \in Containers \cup {NoFile}
    /\ backup \in Machines \cup {NoFile}
    /\ ops \in 0..MaxOps /\ restarts \in 0..MaxRestarts
    /\ dirFsync \in BOOLEAN

\* A slot never holds an incomplete container, whenever the router dies.
NoTornState == \A s \in Slots : seen[s] # Torn /\ stable[s] # Torn

\* What save or delete reported as durable is found after any kill until a
\* later command replaces it, and it is on the medium, so that a power loss
\* finds it too, wherever the file system honours the fsync of a directory:
\* no other file's history undoes it.
DurableIsStable ==
    \A s \in Slots : promised[s] # Unknown =>
        /\ seen[s] = promised[s]
        /\ dirFsync => stable[s] = promised[s]

\* The slots never exceed the quota, and with the temporaries of failed or
\* killed saves the directory exceeds it by one container at most.  (A file
\* whose deletion was not durable may come back and exceed it.)
WithinQuota ==
    (\A s \in Slots : promised[s] # Unknown) =>
        /\ Stored <= Quota
        /\ Stored + litter + orphans + Size(temp) <= Quota + 2

\* A command ends with this answer.
Ends(name, outcome) ==
    /\ pc # "idle" /\ pc' = "idle"
    /\ op.name = name /\ reply'.outcome = outcome

\* A load is all or nothing.  After success console, picture and SRAM file
\* all come from the slot, and no sound or pressed button of the console it
\* replaced is left.  After an error console, flags and files are as before
\* and the SRAM file holds nothing of the slot; or the answer says that it is
\* fatal, and emulation is stopped and paused.  No load changes a slot.
LoadAllOrNothing ==
    [][/\ Ends("load", "ok") =>
            /\ seen[op.slot].mach = mach'
            /\ picture' = seen[op.slot].pic
            /\ sram' = {Ram[mach']}
            /\ ~leftover'
       /\ Ends("load", "error") =>
            /\ mach' = before.mach
            /\ running' = before.running /\ paused' = before.paused
            /\ sram' \subseteq before.sram \cup {Ram[before.mach]}
       /\ Ends("load", Fatal) => ~running' /\ paused'
       /\ Ends("load", "ok") \/ Ends("load", "error") \/ Ends("load", Fatal) =>
            seen' = before.seen]_vars

\* A save that answers an error left every slot as it was, so the old state
\* is still there; one that answers success stored the present console and
\* the battery RAM on disk is the one inside it.
SaveAllOrNothing ==
    [][/\ Ends("save", "error") => seen' = before.seen
       /\ Ends("save", "ok") \/ Ends("save", "durable") =>
            /\ seen' = [before.seen EXCEPT ![op.slot] =
                            Container(mach', picture', TRUE)]
            /\ sram' = {Ram[mach']}]_vars
=============================================================================
