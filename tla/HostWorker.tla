----------------------------- MODULE HostWorker -----------------------------
(***************************************************************************)
(* The emulation thread of nesd (emu_thread_fn and process_command in      *)
(* host.c) together with the SRAM writer it feeds.  The thread owns the    *)
(* libretro core: it runs frames, takes a periodic SRAM snapshot and       *)
(* executes one lifecycle command at a time.  A command that must not lose *)
(* battery RAM blocks in the middle, on the writer thread.                 *)
(*                                                                         *)
(* Of the save-state commands this module has what they do to the battery  *)
(* RAM and to the flags; their files are modelled in SaveStates (listing   *)
(* and deleting a state touch nothing but files).  The hand-over of a      *)
(* command from its submitter is modelled in HostCommand.                  *)
(***************************************************************************)
EXTENDS SramWriter

CONSTANTS
    NoRom,          \* "no game is loaded"
    Battery,        \* the ROMs whose cartridge has battery RAM
    Blank           \* battery RAM of a cartridge that was never saved

ASSUME HostAssumption ==
    /\ NoRom \notin Names
    /\ Battery \subseteq Names
    /\ Blank \in Data

VARIABLES
    alive,          \* thread_alive
    core,           \* core_loaded
    game,           \* the loaded ROM; game_loaded is game # NoRom
    running, paused, demo,
    watched,        \* viewers > 0
    mem,            \* battery RAM inside the core, NoData if there is none
    shadow,         \* sram_shadow: the last contents handed to the writer
    cmd,            \* the command being executed
    phase,          \* how far it got
    reply,          \* outcome of the last command
    unsure          \* history: the game may be paused without being saved

flagVars == <<alive, core, game, running, paused, demo, watched, unsure>>
hostVars == <<flagVars, mem, shadow, cmd, phase, reply>>
vars     == <<sramVars, hostVars>>

-----------------------------------------------------------------------------
(* Commands *)

Op(o) == [op |-> o]
NoCmd == Op("none")

Commands ==
    {Op(o) : o \in {"load_core", "unload_core", "unload_game", "start",
                    "stop", "reset", "flush", "shutdown", "save_state",
                    "load_state"}}
    \cup {[op |-> "set_paused", value |-> v] : v \in BOOLEAN}
    \cup {[op |-> "load_game", rom |-> r] : r \in Names}

\* A load_state that has begun to replace the machine, with the battery RAM
\* of the machine it serialised before.
Replacing(op, backup) == [op |-> op, backup |-> backup]
Replacements == {Replacing(o, b) : o \in {"unserialized", "restored"},
                                   b \in Data \cup {NoData}}
MidLoad == cmd.op \in {"unserialized", "restored"}

Phases == {"idle", "start", "flush", "flushing", "flushed", "unsaved"}

Loaded == core /\ game # NoRom

\* What the core's battery RAM may become: a cartridge has it or not.
RamContents == IF game \in Battery THEN Data ELSE {NoData}

\* Fault: pausing does not save.
FlushesUnlessPausing ==
    \/ cmd.op \in {"stop", "flush"}
    \/ cmd.op = "reset" /\ Loaded
    \/ /\ cmd.op \in {"unload_game", "unload_core", "load_core", "shutdown",
                     "save_state", "load_state"}
       /\ game # NoRom

\* The commands that call worker_flush_sram, by way of worker_unload_game
\* for those that give up the current game.
FlushesFirst ==
    \/ cmd.op \in {"stop", "flush"}
    \/ cmd.op = "set_paused" /\ cmd.value
    \/ cmd.op = "reset" /\ Loaded
    \/ /\ cmd.op \in {"unload_game", "unload_core", "load_core", "shutdown",
                     "save_state", "load_state"}
       /\ game # NoRom

\* Saving on the way out, for a state and on demand ignores the shadow.
Forced == cmd.op \notin {"stop", "reset", "set_paused"}

\* submit_command: one command at a time, none once the thread is gone.
\* (Bound: the snapshots a command submits, three for a load_state and at
\* most one for any other, must fit MaxSeq.)
Accept ==
    /\ alive
    /\ cmd = NoCmd
    /\ cmd' \in Commands
    /\ latest.seq + (IF cmd'.op = "load_state" THEN 3 ELSE 1) <= MaxSeq
    /\ phase' = "start"
    /\ reply' = "none"
    /\ UNCHANGED <<sramVars, flagVars, mem, shadow>>

\* The end of a command: emu_thread_fn publishes the result.
Done(outcome) ==
    /\ cmd' = NoCmd
    /\ phase' = "idle"
    /\ reply' = outcome

-----------------------------------------------------------------------------
(* worker_flush_sram *)

\* Fault: a background write that failed is not tried again.
SkippableAfterFailure(force) ==
    \/ game \notin Battery
    \/ ~force /\ shadow = mem

\* memcmp(sram_shadow, memory) found no difference and the last write of
\* the current contents did not fail.
Skippable(force) ==
    \/ game \notin Battery
    \/ ~force /\ shadow = mem /\ ~LatestWriteFailed

\* The shadow is not what was handed over last: realloc failed for it.
ShadowStale ==
    /\ latest.seq > 0 /\ latest.name = game
    /\ ~LatestWriteFailed
    /\ shadow # latest.data

BeginFlush ==
    /\ \/ phase = "start" /\ FlushesFirst
       \/ phase = "flush"
    /\ running' = (running /\ cmd.op # "shutdown")
    /\ \/ /\ ~Loaded
          /\ phase' = "flushed"
          /\ UNCHANGED producerVars
       \/ /\ Loaded /\ Skippable(Forced)
          /\ phase' = "flushing"
          /\ AwaitLatest
          /\ UNCHANGED stopping
       \/ /\ Loaded /\ ~Skippable(Forced)
          /\ phase' = "flushing"
          /\ Queue(game, mem, TRUE)
          /\ UNCHANGED stopping
       \/ \* malloc of the snapshot fails
          /\ Loaded /\ ~Skippable(Forced)
          /\ phase' = "unsaved"
          /\ UNCHANGED producerVars
    /\ UNCHANGED <<writerVars, fileVars, alive, core, game, paused, demo,
                   watched, unsure, mem, shadow, cmd, reply>>

\* The shadow becomes the contents handed over; when realloc fails the old
\* one stays.
UpdateShadow == shadow' \in {mem, shadow}

\* The writer answered, or there was nothing to wait for.
EndFlush ==
    /\ phase = "flushing"
    /\ waitSeq = 0 \/ WaitOver
    /\ waitSeq' = 0
    /\ IF waitSeq = 0 \/ WaitOk
       THEN phase' = "flushed" /\ UpdateShadow /\ unsure' = (unsure /\ ~Forced)
       ELSE phase' = "unsaved" /\ UNCHANGED <<shadow, unsure>>
    /\ UNCHANGED <<latest, pending, stopping, writerVars, fileVars, alive, core,
                   game, running, paused, demo, watched, mem, cmd, reply>>

\* The 30 s timer of emu_thread_fn: hand over changed RAM, do not wait.
PeriodicFlush ==
    /\ alive /\ cmd = NoCmd
    /\ Loaded /\ ~Skippable(FALSE)
    /\ Queue(game, mem, FALSE)
    /\ UpdateShadow
    /\ UNCHANGED <<stopping, writerVars, fileVars, flagVars, mem, cmd, phase,
                   reply>>

-----------------------------------------------------------------------------
(* Giving up the game and the core *)

\* worker_discard_game and reset_sram_tracking
NoGame ==
    /\ game' = NoRom
    /\ mem' = NoData /\ shadow' = NoData
    /\ unsure' = FALSE

\* Fault: the game is given up although it could not be saved.
ProceedsUnsaved ==
    \/ phase \in {"flushed", "unsaved"}
    \/ phase = "start" /\ ~FlushesFirst

\* May the rest of the command run?
Proceeds == phase = "flushed" \/ (phase = "start" /\ ~FlushesFirst)

\* A failed save aborts the command and changes nothing else, except that
\* shutdown goes on without it and a load_state past its first flush has the
\* machine to restore.
AbortUnsaved ==
    /\ phase = "unsaved"
    /\ cmd.op # "shutdown" /\ ~MidLoad
    /\ Done("error")
    /\ UNCHANGED <<sramVars, flagVars, mem, shadow>>

UnloadGame ==
    /\ cmd.op = "unload_game" /\ Proceeds
    /\ IF game # NoRom
       THEN NoGame /\ demo' = FALSE
       ELSE UNCHANGED <<game, mem, shadow, unsure, demo>>
    /\ Done("ok")
    /\ UNCHANGED <<sramVars, alive, core, running, paused, watched>>

UnloadCore ==
    /\ cmd.op = "unload_core" /\ Proceeds
    /\ NoGame
    /\ core' = FALSE
    /\ demo' = FALSE
    /\ Done("ok")
    /\ UNCHANGED <<sramVars, alive, running, paused, watched>>

\* worker_load_core: the old core goes first; binding the new one may fail.
LoadCore ==
    /\ cmd.op = "load_core" /\ Proceeds
    /\ NoGame
    /\ demo' = FALSE
    /\ core' \in BOOLEAN
    /\ Done(IF core' THEN "ok" ELSE "error")
    /\ UNCHANGED <<sramVars, alive, running, paused, watched>>

\* HOST_CMD_SHUTDOWN: the thread ends; an unsaved game is discarded and the
\* failure is reported.
Shutdown ==
    /\ cmd.op = "shutdown"
    /\ Proceeds \/ phase = "unsaved"
    /\ NoGame
    /\ core' = FALSE
    /\ demo' = FALSE
    /\ running' = FALSE
    /\ alive' = FALSE
    /\ Done(IF phase = "unsaved" THEN "error" ELSE "ok")
    /\ UNCHANGED <<sramVars, paused, watched>>

-----------------------------------------------------------------------------
(* worker_load_game *)

\* Before the current game is touched: a missing core is initialised and the
\* ROM file is read.
ReadRom ==
    /\ cmd.op = "load_game" /\ phase = "start"
    /\ \/ \* core initialisation fails
          /\ ~core
          /\ core' = FALSE
          /\ Done("error")
       \/ \* the ROM cannot be read
          /\ core' = TRUE
          /\ Done("error")
       \/ /\ core' = TRUE
          /\ phase' = IF game = NoRom THEN "flushed" ELSE "flush"
          /\ UNCHANGED <<cmd, reply>>
    /\ demo' = (demo /\ core)
    /\ UNCHANGED <<sramVars, alive, game, running, paused, watched, unsure, mem,
                   shadow>>

\* The old game is saved and discarded, then the core takes the new one.
\* It may refuse the image, its region or its geometry.
RomRejected ==
    /\ cmd.op = "load_game" /\ phase = "flushed"
    /\ NoGame
    /\ demo' = (demo /\ game = NoRom)
    /\ Done("error")
    /\ UNCHANGED <<sramVars, alive, core, running, paused, watched>>

\* worker_load_sram failed: the host refuses to run the new game.
SramRejected ==
    /\ cmd.op = "load_game" /\ phase = "flushed"
    /\ cmd.rom \in Battery
    /\ NoGame
    /\ demo' = FALSE
    /\ Done("error")
    /\ UNCHANGED <<sramVars, alive, core, running, paused, watched>>

\* worker_load_sram: the battery RAM comes from the file, if there is one.
SavedRam(r) ==
    IF r \notin Battery THEN NoData
    ELSE IF disk[r] = Missing THEN Blank ELSE disk[r].data

RomLoaded ==
    /\ cmd.op = "load_game" /\ phase = "flushed"
    /\ game' = cmd.rom
    /\ mem' = SavedRam(cmd.rom)
    /\ shadow' = SavedRam(cmd.rom)
    /\ unsure' = FALSE
    /\ demo' = FALSE
    /\ Done("ok")
    /\ UNCHANGED <<sramVars, alive, core, running, paused, watched>>

-----------------------------------------------------------------------------
(* worker_save_state, worker_load_state *)

\* No game, no memory, a file that is missing or refused: nothing happened.
RefuseState ==
    /\ cmd.op \in {"save_state", "load_state"} /\ phase = "start"
    /\ Done("error")
    /\ UNCHANGED <<sramVars, flagVars, mem, shadow>>

\* The SRAM file was brought up to date; writing the state may fail.
SaveState ==
    /\ cmd.op = "save_state" /\ phase = "flushed"
    /\ \/ Done("ok")
       \/ Done("error")
    /\ UNCHANGED <<sramVars, flagVars, mem, shadow>>

\* retro_unserialize takes the machine with its battery RAM, which has to be
\* saved in turn; or it fails after it may have changed anything.
Unserialize ==
    /\ cmd.op = "load_state" /\ phase = "flushed"
    /\ mem' \in RamContents
    /\ cmd' = Replacing("unserialized", mem)
    /\ phase' \in {"flush", "unsaved"}
    /\ UNCHANGED <<sramVars, flagVars, shadow, reply>>

StateLoaded ==
    /\ cmd.op = "unserialized" /\ phase = "flushed"
    /\ Done("ok")
    /\ UNCHANGED <<sramVars, flagVars, mem, shadow>>

\* ENOTRECOVERABLE: the machine is stopped and paused as it is, saved or not.
GiveUpMachine ==
    /\ running' = FALSE
    /\ paused' = TRUE
    /\ unsure' = TRUE
    /\ Done("fatal")

\* state_restore_backup: the core may refuse the backup, and its battery RAM
\* has to be saved once more.
RestoreBackup ==
    /\ cmd.op = "unserialized" /\ phase = "unsaved"
    /\ \/ /\ mem' = cmd.backup
          /\ cmd' = Replacing("restored", cmd.backup)
          /\ phase' = "flush"
          /\ UNCHANGED <<running, paused, unsure, reply>>
       \/ /\ mem' \in RamContents
          /\ GiveUpMachine
    /\ UNCHANGED <<sramVars, alive, core, game, demo, watched, shadow>>

BackupSaved ==
    /\ cmd.op = "restored" /\ phase = "flushed"
    /\ Done("error")
    /\ UNCHANGED <<sramVars, flagVars, mem, shadow>>

BackupUnsaved ==
    /\ cmd.op = "restored" /\ phase = "unsaved"
    /\ GiveUpMachine
    /\ UNCHANGED <<sramVars, alive, core, game, demo, watched, mem, shadow>>

-----------------------------------------------------------------------------
(* Commands on the running state *)

Start ==
    /\ cmd.op = "start" /\ phase = "start"
    /\ running' = TRUE
    /\ demo' = (game = NoRom)
    /\ Done("ok")
    /\ UNCHANGED <<sramVars, alive, core, game, paused, watched, unsure, mem,
                   shadow>>

Stop ==
    /\ cmd.op = "stop" /\ Proceeds
    /\ running' = FALSE
    /\ Done("ok")
    /\ UNCHANGED <<sramVars, alive, core, game, paused, demo, watched, unsure,
                   mem, shadow>>

\* The history notes a pause that saved nothing because of a stale shadow.
SetPaused ==
    /\ cmd.op = "set_paused" /\ Proceeds
    /\ paused' = cmd.value
    /\ unsure' = (cmd.value /\ ShadowStale /\ shadow = mem)
    /\ Done("ok")
    /\ UNCHANGED <<sramVars, alive, core, game, running, demo, watched, mem,
                   shadow>>

\* retro_reset keeps battery RAM; the manual flush is its save alone.
ResetOrFlush ==
    /\ cmd.op \in {"reset", "flush"} /\ Proceeds
    /\ Done("ok")
    /\ UNCHANGED <<sramVars, flagVars, mem, shadow>>

-----------------------------------------------------------------------------
(* Frames, viewers, the end of the process *)

\* retro_run: the game may write battery RAM, and the core may ask the
\* front end to stop (RETRO_ENVIRONMENT_SHUTDOWN).
RunFrame ==
    /\ alive /\ cmd = NoCmd
    /\ running /\ ~paused /\ watched /\ ~demo /\ game # NoRom
    /\ mem' \in RamContents
    /\ running' \in BOOLEAN
    /\ UNCHANGED <<sramVars, alive, core, game, paused, demo, watched, unsure,
                   shadow, cmd, phase, reply>>

\* host_set_viewers, from the network thread at any time
SetViewers ==
    /\ watched' = ~watched
    /\ UNCHANGED <<sramVars, alive, core, game, running, paused, demo, unsure,
                   mem, shadow, cmd, phase, reply>>

\* host_shutdown joins the emulation thread before it stops the writer.
StopWriterThread ==
    /\ ~alive
    /\ StopWriter
    /\ UNCHANGED hostVars

FreshHost ==
    /\ alive' = TRUE
    /\ core' = FALSE /\ game' = NoRom
    /\ running' = FALSE /\ paused' = FALSE /\ demo' = FALSE
    /\ watched' = FALSE /\ unsure' = FALSE
    /\ mem' = NoData /\ shadow' = NoData
    /\ cmd' = NoCmd /\ phase' = "idle" /\ reply' = "none"

Restart == (Kill \/ PowerLoss) /\ FreshHost

HostInit ==
    /\ Init
    /\ alive = TRUE
    /\ core = FALSE /\ game = NoRom
    /\ running = FALSE /\ paused = FALSE /\ demo = FALSE
    /\ watched = FALSE /\ unsure = FALSE
    /\ mem = NoData /\ shadow = NoData
    /\ cmd = NoCmd /\ phase = "idle" /\ reply = "none"

CommandStep ==
    \/ BeginFlush \/ EndFlush \/ AbortUnsaved
    \/ UnloadGame \/ UnloadCore \/ LoadCore \/ Shutdown
    \/ ReadRom \/ RomRejected \/ SramRejected \/ RomLoaded
    \/ RefuseState \/ SaveState
    \/ Unserialize \/ StateLoaded
    \/ RestoreBackup \/ BackupSaved \/ BackupUnsaved
    \/ Start \/ Stop \/ SetPaused \/ ResetOrFlush

HostNext ==
    \/ Accept
    \/ CommandStep
    \/ PeriodicFlush
    \/ RunFrame
    \/ SetViewers
    \/ WriterStep /\ UNCHANGED hostVars
    \/ StopWriterThread
    \/ Restart

HostSpec == HostInit /\ [][HostNext]_vars

\* Both threads are scheduled and file operations return.  Frames, viewers,
\* new commands and restarts are the environment's business.
HostFairness ==
    /\ WF_vars(WriterStep /\ UNCHANGED hostVars)
    /\ WF_vars(CommandStep)

HostFairSpec == HostSpec /\ HostFairness

-----------------------------------------------------------------------------
(* Properties *)

\* Flags, game, battery RAM and command hold values of their kind; a torn
\* file is never read into the core.
HostTypeOK ==
    /\ TypeOK
    /\ alive \in BOOLEAN /\ core \in BOOLEAN
    /\ game \in Names \cup {NoRom}
    /\ running \in BOOLEAN /\ paused \in BOOLEAN /\ demo \in BOOLEAN
    /\ watched \in BOOLEAN
    /\ mem \in Data \cup {NoData} /\ shadow \in Data \cup {NoData}
    /\ cmd \in Commands \cup Replacements \cup {NoCmd}
    /\ phase \in Phases
    /\ reply \in {"none", "ok", "error", "fatal"}
    /\ unsure \in BOOLEAN

\* The file under the game's name holds its battery RAM (or was never
\* needed: the cartridge is still as blank as without a file).
Saved(files) ==
    \/ game \notin Battery
    \/ files[game].data = mem
    \/ files[game] = Missing /\ mem = Blank

InFlight == completed < latest.seq

\* A paused game can be switched off: its file holds everything it wrote,
\* and once this process has completed a write of that file, so does the
\* medium (HOST_CMD_SET_PAUSED answers 0 only after a durable save, and a
\* load_state saves what it loads or restores).  A file that an earlier
\* process renamed just before it was killed is not rewritten while it stays
\* unchanged: only the file system can vouch for that one.  The code has two
\* exceptions, which unsure records until the next save that is not skipped:
\* a load_state that ends in ENOTRECOVERABLE pauses the machine as it is, and
\* a pause may trust a shadow that a failed realloc left behind.
PausedMeansSaved ==
    paused /\ game # NoRom /\ ~unsure /\ ~MidLoad =>
        /\ Saved(disk)
        /\ DirFsync /\ Acknowledged /\ latest.name = game => Saved(stable)

\* Whenever worker_flush_sram decides to write nothing because the RAM is
\* unchanged, the RAM is on disk or its snapshot is still on its way.  In
\* particular a failed background write is never forgotten.  This needs the
\* shadow to be what was handed over last: after a failed realloc the code
\* compares with older contents, and the promise is off until the next
\* successful one.
SkipIsSafe ==
    Loaded /\ Skippable(FALSE) /\ ~ShadowStale =>
        \/ Saved(disk)
        \/ InFlight /\ latest.name = game /\ latest.data = mem

\* The only way to lose battery RAM short of a crash is a shutdown that
\* reports the error: a game leaves the core only after it was saved, or
\* with an answer that says it was not.
GameLeavesSaved ==
    [][game # NoRom /\ game' # game /\ ~Restart =>
         \/ Saved(disk) /\ (DirFsync => Saved(stable))
         \/ ~alive' /\ reply' = "error"]_vars

\* Every command is answered, whatever the file system does.
CommandsAnswered == cmd # NoCmd ~> cmd = NoCmd
=============================================================================
