# A verification of nesd

nesd is the daemon of `openwrt-nes-emulator`: it runs an NES core on a router
and streams picture and sound to one browser over a WebSocket. This directory
holds TLA+ modules of the parts of nesd where threads, system calls, failures
and messages interleave, the TLC configurations that check them on small
instances, and TLAPS proofs of their central properties. Paths below are
relative to `package/nes-emulator/src/` unless they begin with `package/`.

    tlc -config SramWriter.cfg MCSramWriter.tla     # check one run
    tlapm HostWorkerProofs.tla                      # check the proofs of one module

`PROJECT.json` lists the runs, which lines each definition models, the hazards
with the properties that cover them, the theorems, and for each property a
faulty variant of one definition under which TLC finds the property violated.
These variants stand next to what they vary and are marked `Fault:`; no
specification uses them.

## 1. The system

| Component | State | Operations | Talks to |
|---|---|---|---|
| SRAM writer (`host.c`) | latest-only slot, sequence numbers, shadow, files | queue a snapshot, wait for it, write atomically, drain and exit | emulation thread (slot, condition variable), file system |
| Emulation thread (`host.c`) | core, game, running/paused/demo, battery RAM, frame | run a frame, periodic flush, commands | SRAM writer, libretro core, command slot |
| Command hand-over (`host.c`) | `submit_mu`, `control_mu`, command slot, wake generation | submit, execute, publish the result, wake, status | every caller of the host API |
| Save states (`host.c`) | state directory, quota, temporaries | save, load, delete, list | SRAM writer, core, file system |
| Audio ring (`host.c`) | PCM ring, indices, counters | push, clear, copy | emulation and network thread |
| Video stream (`http.c`) | JPEG worker, mailbox, packet, pipe, pacer | submit, encode, collect, reset, discard | emulation, encoder and network thread |
| WebSocket connection (`http.c`) | output queues, leases, ping and close state | queue, flush, receive, expire | browser, `recompute_inputs` |
| HTTP requests, uploads (`http.c`) | request phases, temporaries, limits of space | parse, authorise, upload, respond | host API, file system |
| Server loop (`http.c`) | client table, listeners, idle clock | accept, poll, deadlines, idle exit | everything above |
| Call-backs and demo (`host.c`) | frame buffer, pressed buttons | convert pixels, tone, input | core |
| Core binding, JPEG, SHA-256 | - | pure computation | - |
| Entry point (`main.c`) | options, signal flags | start-up and shutdown order | host, server |
| Browser client (`play.html`) | epochs, timers, audio and picture state | reconnect, heartbeats, input | WebSocket, HTTP |
| RPC client, rpcd script, init script, LuCI | UCI, files | start, stop, import a ROM, settings | daemon, procd |

Three threads run in the daemon, plus the SRAM writer: the *network* thread (one
`poll` loop, `http_serve`) calls the host API and blocks in it; the *emulation*
thread owns the core, executes commands between frames, and blocks on the *SRAM
writer* when a command must be durable; the *encoder* takes pictures from the
network thread and answers through a pipe. Shared state is protected by
`submit_mu`, `control_mu`, `sram_mu`, `frame_mu`, `audio_mu` and the worker's
`mu`; a few flags are atomics.

What is hard, and what must hold in each part:

* **SRAM writer.** A slot holding only the latest snapshot, a writer that fails at any system
  call, a router that loses power. A save reported as durable is durable; no
  file is torn; nobody waits for a snapshot the slot has swallowed; nothing is
  lost at exit.
* **Emulation thread.** Commands that block half-way and fail half-way. Battery
  RAM leaves the core only when it is on disk or the answer says it is not; a
  flush is skipped only when it is unnecessary; a snapshot never lands after
  the next game was loaded.
* **Command hand-over.** One condition variable for two directions, buffers on
  the submitter's stack, a viewer counter read without the lock. Every call
  returns, with its own result, and never before the emulation thread is done
  with its buffers.
* **Save states.** Many steps that fail separately, some after they changed the
  machine. All or nothing, rolled back or declared fatal, within the quota.
* **Audio ring.** Index arithmetic at wrap-around and overflow.
* **Video stream.** Encodes in flight across a load, a reset or a change of viewer; a
  packet written without the lock; a paused console that draws no second
  picture. Pictures are whole, current, in order, and arrive.
* **WebSocket connection.** Several kinds of frame for one socket, displaced,
  dropped and replaced; buttons held by a client that disappears. No frame is
  cut, the Close is last, acknowledgements are ordered and not starved, no
  button outlives its lease.
* **Uploads.** A temporary is written over many passes of the loop, while other clients
  send requests, other daemons write into the same directory, process ids are
  used again and the router fails. What carries a ROM's name is a whole ROM;
  nobody's temporary is lost, taken or left behind; a commit keeps the reserve of free
  space and, unless two daemons commit at the same time, the quota; the answer is true.
* **Server loop.** A small table of slots, and peers that stop sending or stop reading at
  any point. Nobody keeps a slot for ever, the table always frees up, and the
  daemon exits for idleness only when it is unused.
* **Browser client.** Timers and events of an old socket run after the page
  has moved on, the tab is hidden and restored, a peer vanishes without a word.
  The page holds one connection, the server knows its buttons, and the stream
  comes back.

The `hazards` of `PROJECT.json` list these by line. Those without a property
carry a note that says why.

## 2. Modules

| Module | Models | Abstract specification |
|---|---|---|
| `SramWriter` | the SRAM slot and `sram_thread_fn` with `atomic_write_at` | `DurableStore` |
| `HostWorker` | `process_command`, `worker_flush_sram` and frames; EXTENDS `SramWriter` | `SramWriter`, and so `DurableStore` |
| `HostCommand` | `submit_command_full`, `emu_thread_fn`'s loop, `worker_wait_ns`, `host_set_viewers`, `host_get_status` | - |
| `SaveStates` | `worker_save_state`, `_load_state`, `_delete_state`, `_list_states` and helpers | - |
| `AudioRing` | `audio_push_frames`, `clear_audio`, `host_copy_audio` | `LatestFifo` |
| `VideoStream` | the `jpeg_worker_` functions, `broadcast_av`, pacer, discards, one pass of `http_serve` | - |
| `WsClient` | the `websocket_` functions, leases and deadlines of one connection | - |
| `Upload` | `begin_upload`, `read_upload`, `finish_upload`, `abort_upload`, `cleanup_abandoned_uploads`, the storage checks | - |
| `ServerLoop` | the client table of `http_serve`: accept, request phases, deadlines, destruction, idle exit, stop | - |
| `Browser` | the connection of `play.html`: sockets, timers, tab life cycle, buttons; the viewer's slot and the network | - |

`MC<Module>` gives a module small constants. `<Module>Proofs` holds its proofs,
with two exceptions: `HostWorkerProofs` begins with those about `SramWriter`, which
`HostWorker` extends, and `MediaProofs` has those about `AudioRing` and `VideoStream`.

How state and actions correspond to the code:

**SramWriter.** `latest` is what was last submitted (`latest.seq` is
`sram_submitted_seq`), `pending` the slot, `completed` and `completedErr` the
result published. `disk` is what processes see, `stable` what the medium holds.
`WriteTemp`, `SyncTemp`, `RenameTemp`, `SyncDirectory` are the system calls of
`atomic_write_at`; each may fail (`GiveUp`). A file that was not synced is torn
after a power loss; a rename that was not synced may or may not survive.
`DirFsync` says whether the file system honours fsync on a directory, because
the code accepts one that does not (`EINVAL`, `EOPNOTSUPP`); the medium is
promised to hold the file only if it does. `Kill` and `PowerLoss` are possible
in every state and start a fresh process.

**HostWorker.** One action is one stretch of `process_command` between two
points where the thread can block or fail; `phase` says how far the command got. Successful
start, load and reset of the core are environment choices. `mem` is the battery
RAM in the core, changed by `RunFrame`; `shadow` is `sram_shadow`. A cartridge
without battery RAM (`Battery`) has no file. In the runs, every file operation
may fail and the process may be killed at any time. `worker_flush_sram` compares
the RAM with the shadow; when `realloc` fails after a hand-over, the old shadow
stays (`UpdateShadow`, `ShadowStale`). Of `worker_save_state` and `worker_load_state`
the module keeps what they do to battery RAM and flags: the first flush, the
unserialized RAM and its flush, the backup's RAM and its flush, and the exits with
`ENOTRECOVERABLE`, which stop and pause the machine as it is (`GiveUpMachine`). `unsure` is a
history variable, set by the two pauses after which the game may be unsaved, that one and
a pause that trusts a stale shadow, and cleared by the next save that ignores the shadow.

**HostCommand.** One action is one critical section or one access to an atomic.
`WakeUp` and `TimeOut` are the two ends of `pthread_cond_timedwait`; spurious
wake-ups are covered, because the predicate is evaluated again either way.
`executed` is a history variable. The thread is in its running,
unpaused part: in the others it reads the viewer counter not at all.

**SaveStates.** `pc` walks through the steps of the command in progress. A
container is its machine state and whether it carries a picture; its format and
digests are abstracted to "complete or not", and a torn file fails validation.
The SRAM writer is what `DurableStore` promises: a set of contents a reader may
find. `dirFsync` says whether the file system honours fsync on a directory; if not,
`durable` is reported with nothing synced (`EINVAL`, `EOPNOTSUPP`), as the code does, and after a power
loss any older file may be found. It is a variable that no step changes, so that one run
covers both.

**AudioRing.** The cells and indices of the code, with the two `memcpy` calls of
`Store`. `LatestFifo` is a queue that loses its oldest frames.

**VideoStream.** `net` is where the network thread is in its pass; every
critical section of `worker->mu` is an action. `generation` is the worker's. A
picture carries the number of its drawing (`stamp`), the number of loads before it was
drawn (`shows`) and of loads and resets before it was copied from the frame (`epoch`),
only so that properties can speak of age. A reset keeps the frame, so a copy made
after it can show a picture drawn before it; a load clears or replaces the frame.
`fps` may change whenever `effective_stream_fps` is evaluated. Rates other than
two, the back-off and the deadlines of the pacer are left out: a picture may be
due at any pass. `HasWorker` false is the mode without an encoder thread.

**WsClient.** `c` is `struct client`; queue functions are operators on it, with
a set of results where the age of queued media decides. A timer is a mark that
it has run out. `wire` is the history of what left the socket. Several message
kinds with one effect are one action (`ReceiveRefused`, `ReceiveMalformed`).

**Upload.** A client's handlers run in its daemon's loop, one at a time; `at` and
`job` say which system call of `begin_upload` or `finish_upload` comes next and
for whom. Between two of them another daemon may act, the daemon may be killed
and the power may fail. A file is its contents, how much of it is there and
whether it is synced; a name of a temporary is a process id and a number. `Start`
gives a daemon any process id that no running daemon has, also one whose
temporaries are still there, and removes what `cleanup_abandoned_uploads` removes;
unrelated processes may make a dead owner look alive. Sizes are in chunks; free
space is what `Capacity` leaves. Deadlines may pass at any time.
`storage_available` and `storage_commit_allowed` are one action per system call:
`CheckSpace` (statvfs), `OpenDirectory`, one `CountFile` per entry in any order, and
`CheckQuota` (lstat of the target). The traversal finds what existed when it began; what
appears later is not counted, what is gone counts nothing. `raced` is a history
variable: another daemon's rename overtook the traversal of a commit. The names a
daemon tries are counted from one, the lowest that is free is taken; a failed open
unlinks the name it tried last (`CreateFails`). As in `SaveStates`, `dirFsync` says
whether the fsync of the directory does anything. The quota is not 0, which would mean none
and no traversal.

**ServerLoop.** `conn` is the client table: a phase, `dead`, whether an answer is
still unsent, and marks for the deadlines that have passed. One action per
handler; all that a pass does after its handlers (destroy, idle clock) and what the next
one does before them (deadlines) is `EndPass`. What a request asks for is the
peer's choice. `Stop` is a signal or an error of `poll`; `Restart` is the service
starting the daemon again, with or without a startup ROM.

**Browser.** `page` is the state of `play.html`, and every handler is one step,
because a page's handlers do not interleave. Its functions (`connect`,
`abandonTransport`, `suspendStream`, `sendInput`, ...) are operators from page to
page. `link` has the server's end of each connection: unasked, viewer,
refused or ended; `lost` says that nothing arrives any more. A `rival` is another
page that holds the viewer's slot. A `WebSocket` that both ends have forgotten is
used again. Events that were queued before `close()` may still be fired. `calm`
marks the moment after which network, server and browser stay sound; only the
liveness property speaks of it.

How the modules meet: `HostWorker` contains `SramWriter`; `SaveStates` uses the store
that `SramWriter` is shown to be. `HostCommand` is how `http.c` reaches the commands of
`HostWorker` and `SaveStates`. `ServerLoop` reduces an upload and a WebSocket to their
phases, `Upload` and `WsClient` are what happens inside them; `Browser` sees of
the server only the viewer's slot, and its `ServerEnds` covers every reason for which
`WsClient` and `ServerLoop` end a connection.

## 3. Runs

| Run | Distinct states | Question |
|---|---|---|
| `SramWriter` | 91,795 | Is an acknowledged save durable, and does the whole implement `DurableStore`? |
| `HostWorker` | 323,422 | Can battery RAM get lost without an answer that says so; is every command answered? |
| `HostCommand` | 167,090 | Does every call return its own result; can a wake-up be lost? |
| `SaveStates` | 3,765,157 | Are save, load and delete all or nothing, and within the quota? |
| `AudioRing` | 1,121 | Is the ring a drop-oldest queue? |
| `VideoStream` | 531,308 | Are pictures whole, current, ordered, and never forgotten? |
| `VideoStream_newviewer` | - | Does a new viewer get the current picture at once? (violated) |
| `WsClient_safety` | 3,921,144 | Is the Close last, does a button end with its lease, do frames leave in order? |
| `WsClient_live` | 148,173 | Does a closing connection end, is the last heartbeat acknowledged? |
| `Upload` | 849,591 (symmetry) | Are ROMs whole, temporaries kept apart, limits kept and answers true? |
| `ServerLoop` | 7,182 | Is every slot freed, and the daemon unused when it exits for idleness? |
| `Browser` | 21,152 | Has the page one connection, and does the stream come back? |

### Bounds, and why they are enough

* `SramWriter`: `MaxSeq = 3` snapshots in one life of a process, so that one is
  being written while a second one waits and a third one replaces it; two names,
  because the hazards are between two games; two contents. Restarts are not
  bounded.
* `HostWorker`: two games, one with battery RAM and one without, two contents, three
  snapshots per life (the one that fails and those after it). A switch between
  the games flushes one, loads the other and comes back. `MCSpec` fixes that the game
  without battery RAM has no file. A load of a state submits up to
  three snapshots and is accepted only when they fit, that is, as the first
  command that saves; what it does later in a life, and what a second battery game
  could add, is covered by the proofs, which have no bound.
* `HostCommand`: two callers with two calls each and two changes of the viewer
  counter: a second command can be posted while the first one's caller has not
  returned, with a change of the counter between any two steps.
* `SaveStates`: two slots, three machine states over two battery RAMs (so that
  two states share their RAM and two do not), a quota of three payloads (two
  containers with pictures do not fit, one of each kind does), three commands
  and one restart. After its last command the model stops, so this run does not
  check for deadlock; the same goes for the bounded calls of `HostCommand`.
* `AudioRing`: three cells, batches of up to four frames, so that a batch is
  smaller than, as large as and larger than the ring. One frame value is not
  enough to see reordering; two are.
* `VideoStream`: two viewers one after the other, two pictures, one
  load or reset: a job of each viewer, from before and from after the command, can be
  pending, in work, in the packet and on the link.
* `WsClient_safety`: a queue of two audio packets and three packets of unequal
  duration, so that dropping by count and by duration both happen; two heartbeat
  sequence numbers (one replaces the other), one ping, two other events.
  `WsClient_live` has one audio packet and no ping of the server.
* `Upload`: two daemons, the first with two clients and the second with one,
  two process ids and two numbers for temporaries, two names; bodies of
  two chunks, all of them valid ROMs (a refused one ends as an upload that fails for
  another reason, which any may; the proofs have both kinds); a quota of three and room for five
  chunks of which one must stay free: two uploads fit into the directory and
  one ROM more than fits into the quota can be on its way. Kills, starts with a
  dead daemon's process id and power losses are not bounded. The clients of the
  first daemon are alike, and so are the names; the run has no liveness
  property.
* `ServerLoop`: two slots, the viewer's and one for which all others compete; a
  larger table frees up no later. Nothing else is bounded.
* `Browser`: two connections of which an end is still alive: the current one and
  one that is ending. Nothing else is bounded; a third attempt waits until
  one of the two is forgotten at both ends.

### Fairness

* `HostWorker`: the two threads are scheduled (weak fairness of `CommandStep` and
  of the writer's steps). System calls return. Nothing is assumed of their
  success.
* `HostCommand`: weak fairness of each caller, of the emulation thread and of
  the wake-up after a change of the counter. That the 100 ms wait expires is
  *not* assumed for `CallsReturn`; it is the premise of `ViewersNoticed`,
  whose point is that only the limit of the wait repairs a wake-up that falls
  between reading the counter and waiting.
* `VideoStream`: the encoder and the network thread are scheduled, and the
  viewer reads (strong fairness of `Transfer`: its turn comes and goes with
  the passes of the loop).
* `WsClient`: the loop runs, and time passes: input, output and close timers
  expire (strong fairness, because frames are queued and flushed meanwhile).
  Nothing is assumed of the peer, except in `HeartbeatAcked`, whose premise
  is that its socket is found writable again and again.
* `ServerLoop`: the loop runs, because `poll` has a limit of 250 ms, and time
  passes (weak fairness of the deadlines `Late` and `Old`, which no progress of the peer
  moves). Nothing is assumed of peers: that is the point of `SlotFreed`.
* `Browser`: timers fire, the loop of the server runs and the events of a socket are
  delivered, except that nobody reports a lost peer: the page has to notice by
  itself. `Reconnects` says what happens once `calm` holds and the tab stays
  visible; without that premise a rival or the network could keep the page away.
* `Upload`, `SaveStates`, `SramWriter`, `AudioRing` have no liveness property.

### What the runs show

Everything listed holds, with one exception.

**A new viewer may wait for its picture** (`VideoStream_newviewer`). The comments
at `http.c:4055` and `http.c:4138` say that a new viewer gets the current frame
immediately. `broadcast_av` resets its pacer only in a pass that counts no
viewer (`http.c:4038-4045`). When the old connection ends and the new one is
upgraded in one pass of the loop, as after a reload of the page, no pass does,
and `last_video_id` of the old viewer suppresses the current picture. A running
console draws another one; a paused one does not, and the new viewer sees
nothing until it is resumed.

Observations made while modelling, none of which breaks a property:

* Between rename and directory fsync a kill leaves a file that is visible but
  may not survive a later power loss, and an unchanged game does not write it
  again; `PausedMeansSaved` states exactly how far the promise goes.
* If the directory fsync fails after the rename, the save is reported as failed
  although the new file is visible: the error is on the safe side.
* The branch of `wait_for_sram_sequence` that answers EIO for an overtaken
  snapshot cannot be reached (`NeverSuperseded`); neither can the answer of
  `submit_command_full` for a thread that ended without executing (`OwnResult`).
* Temporaries of SRAM files are not collected after a crash; those of save
  states are (`CleanTemps` in `SaveStates`). The state directory exceeds the quota by at
  most the one temporary being written.
* After a failed ROM load `running` stays true with no game in the core, and the
  encoder's queued picture of the old game is discarded only by the next
  successful change; `NothingStale` speaks of changes that succeeded.
* A client found dead or closing at the top of a pass keeps its button for the
  one `poll` of that pass (at most 250 ms). `InputJustified` excepts nothing
  else.
* **Two daemons and the quota.** `directory_usage` is no snapshot. While daemon A
  traverses the directory, daemon B, whose own traversal is over, may rename its
  temporary to a name that A will not find, and A does not count it under the old name
  either. If A's file was not counted by B (it was complete only later, or had been
  smaller), both commit, and the ROMs exceed the quota by the file of one of them.
  `CommitWithinLimits` says exactly that: the reserve of free space holds always, the quota unless a
  rename overtook the traversal of a commit under way (`raced`). One daemon alone,
  as the service runs it, cannot meet this case.
* **A shadow that stays behind.** When `realloc` fails after a hand-over
  (`host.c:1306`), `worker_flush_sram` goes on comparing with the older contents. If the RAM returns to
  them, a flush that is not forced is skipped although the file holds the newer
  contents, and a pause can answer success with the game unsaved.
  `SkipIsSafe` and `PausedMeansSaved` except this case, and no other. The next forced
  save (manual flush, state, unload, shutdown) ends it.
* **A fatal load pauses unsaved.** A load of a state that can neither be saved nor be taken
  back (`ENOTRECOVERABLE`, `host.c:2301` and `host.c:2322`) stops and pauses the
  machine with whatever battery RAM it has; the error says so, and a later
  flush, unload or shutdown tries to save it.
* **A file system without directory fsync.** `EINVAL` and `EOPNOTSUPP` count as
  success: the code answers "durable" for a save state and a ROM without a warning,
  and a power loss may undo the rename. Every promise about the medium has
  the premise that the file system honours the call.
* **A reset keeps the frame.** The picture of the frame before a reset may be sent again
  after it, until the core draws the next one; what the discard removes are copies
  taken before the reset.
* **Space after a power loss.** After a power loss each name of a ROM is found as it was last seen
  or as the medium held it, so the directory can hold a mixture of names that
  was never there and exceeds the quota. `CommitWithinLimits` therefore speaks of
  what a running daemon does.
* **Idle exit with a short limit.** A client that is finished but whose answer is still being sent does
  not count as connected (`http.c:5920`). With a limit longer than the 30 s an
  answer may take, it cannot matter, and the shipped service uses 120 s
  (`package/nes-emulator/files/nes-emulator.init:623`). `main.c:515` accepts limits
  from one second on; with these the daemon can exit in the middle of an
  answer. `ServerLoop` has the constant `LongIdle` for this.
* A browser that reconnects is refused until the server has noticed the end of its
  old connection, by its Close or by the missing heartbeats. `Reconnects` shows
  that the page keeps trying for long enough, and `SlotFreed` that the slot
  comes free.
* A daemon that starts may be given the process id of a dead one; the
  temporaries of that id are its own to remove, and `TempsMatchUploads` shows that
  no path leaves one behind for a later process to be confused by.

## 4. Proofs

TLAPS proves the following for all values of the constants, under the `ASSUME`s
of the modules only (model values are distinct, bounds are numbers). The runs
check the same formulas on the instances above, and extend the modules that state the
assumptions.

**`HostWorkerProofs`, the writer.** `SramTyped`, `Durability` (`AcknowledgedIsDurable`),
`Atomicity` (`NoTornFile`), `NoSupersededWait` (`NeverSuperseded`),
`DrainBeforeExit` (`ExitDrained`). None of them is inductive. `SramInv` adds the
order of sequence numbers (`SeqOrder`: completed, taken, pending, submitted),
what the writer holds in each state (`WriterHolds`), what its temporary and the
two views of the file contain at each system call (`WriterProgress`), and that
every file in place was synced before it was renamed (`FilesComplete`).
`WriterIsDurableStore` is the refinement: every step maps to one of `DurableStore`
or to a stutter. It needs `DirFsync`; without it an acknowledged save still has an old
candidate on the medium. `NoProducerStranded` and `WaitsEnd` are what
`CommandsAnswered` rests on: while a producer waits, the writer is at a system
call or its wait is over, and every step that is not a restart is the writer's
and lowers `WorkLeft`, which is at most eleven.

**`HostWorkerProofs`, the emulation thread.** `HostRefinesWriter`: whatever the
emulation thread does, it submits, waits and stops as `SramWriter` specifies a producer, so all that is
proved of the writer holds of both threads together (`HostIsDurableStore`,
`CommandsWaitBriefly`). On top
of `SramInv`, `HostInv` says how far a command can be (`CommandOK`), that what is in
flight belongs to the loaded game (`OwnerOK`), that before the game's first snapshot in
this process the shadow is what its file holds (`ShadowOK`), what a flush has handed over
and a finished one has achieved (`FlushedOK`), and that a paused game is only written with
what is already there (`PausedOK`). From it follow `HostTyped`, `SkipsAreSafe` (`SkipIsSafe`),
`PausesSave` (`PausedMeansSaved`) and `GamesLeaveSaved` (`GameLeavesSaved`), with
loads of states, failing `realloc`s and any number of snapshots. The first two have as
premises the exceptions of the code (`ShadowStale`, `unsure`); TLC finds the properties
violated without them. `GameLeavesSaved` needs none: what gives up a game saves it
whatever the shadow says.

**`SaveStatesProofs`.** `StatesTyped`, `StatesWhole` (`NoTornState`), `StatesDurable`
(`DurableIsStable`), `SavesAllOrNothing` (`SaveAllOrNothing`), `LoadsAllOrNothing`
(`LoadAllOrNothing`), `StatesWithinQuota` (`WithinQuota`). `Inv` follows each
command through its steps: where it can be
(`PathOK`), what a save has changed so far (`SaveOK`: nothing but the temporary
until the rename), what a load has (`LoadOK`: a backup before it touches the
console), and what the files are (`FilesOK`). The quota needs a second
invariant: `WithinQuota` speaks only of states in which it is known what every slot
holds (after a power loss it is not), so nothing follows from it about the next one.
`QuotaOK` says that the known slots are within the quota at all times, and all
slots from `state_check_capacity` to the end of the save, which is where the check
counts on it.

**`UploadProofs`.** `UploadTyped`, `RomsStayWhole` (`NoPartialRom`), `TempsAreUploads`
(`TempsMatchUploads`), `AnswersTrue` (`AnswerHonest`), `CommitsFit`
(`CommitWithinLimits`), for any number of daemons,
clients and process ids. The invariant: process ids of running daemons differ,
temporaries carry their owner's and differ among its clients, each holds what its
client sent (`TempOK`), and the network thread is in `finish_upload` for a client whose
temporary is complete, then synced, then valid (`JobOK`). The reserve of free space
is `SpaceOK`: any set of uploads past the statvfs of their commit (their files no longer grow)
fits beside the ROMs with the reserve to spare, because the last of the set to be
checked saw the files of all. The quota is `QuotaOK`: as long as no rename overtook a
traversal, any set of uploads past opendir has one, the last to have opened the
directory, whose count and what it has yet to find cover the files of all of them.
Both must speak of every set because a rename leaves one of its subsets.
The size of a directory is the number of its chunks, a cardinality, so that
`FiniteSetTheorems` can compare sizes without induction; `Names`, `Pids` and, in
`SaveStates`, `Slots` are assumed finite.

**`BrowserProofs`.** `BrowserTyped`, `OneConnectionHeld` (`OneConnection`),
`TimersCancellable`, `PageNeverStuck`, `ButtonsAreKnown` (`ButtonsKnown`), for any number of
overlapping connections. The invariant is about the page alone: `Base` is what the functions
called in the middle of a handler may rely on, `Timed` and `Pending` tie timers and
the retry to the state of the current socket, `Known` its buttons. One lemma per
function of the page, one per event.

**`HostCommandProofs`.** `BuffersStayLive`, `CallersGetOwnResult`,
`StatusIsStable`, `NothingAfterShutdown`. `CommandInv` says who is inside:
at most one caller is between getting and releasing `submit_mu` (`OneInside`), the slot is
that caller's (`SlotOwned`), and so is the result from execution to return
(`ResultOwned`); the thread ends only for a shutdown that is the last command
(`EndOrdered`, `ShutdownIsLast`). What `CallsReturn` rests on is proved too:
`NobodyStuck` (a caller inside can go on, or whoever holds `submit_mu` can, or the
emulation thread can and has the holder's command; so there is no deadlock between two mutexes and two
condition variables) and `ResultsApproach` (nobody takes a posted command away, and
each step of the thread brings it nearer to its result, whose distance is at most five).

**`WsClientProofs`.** `TypeCorrect`, `CloseEndsTheStream` (`CloseIsLast`),
`ButtonsJustified` (`InputJustified`), `InOrder` (`SentInOrder`), for every depth of the
audio queue and any number of messages. What may leave next depends on
what waits behind the active frame, so the invariant `ConnInv` (theorem `Inductive`)
relates all the places a frame can be in: a closing connection has only its
Close left (`Closes`), a waiting acknowledgement is newer than the last
sent one and alone (`Acks`), waiting audio is in order behind what has left
(`Sound`), at most one Ping waits and `ping_queued` is the truth about it (`Pings`), and
`Button` says at which points of a pass a held button is known to be the
client's. One lemma per queue function, one per handler. Three results are not
among the runs: `AudioFits` (the array of audio packets is never overrun), `PingMarkKept`
(`ping_queued` is set exactly while a Ping waits) and `NothingStranded` (a frame waits
only behind one that is being sent; POLLOUT is asked for only then).

**`ServerLoopProofs`.** `ServerTyped`, `SingleViewer`, `SingleUpload`, and
`ExitsUnused` (`UnusedWhenIdle`), for a table of any size. The last one has the
hypothesis `LongIdle`, under which the run checks it too: the limit of the idle clock exceeds the time
an answer may take, as in the shipped service (with a shorter one it is false,
see above). `QuietMeansUnused` is the strengthening: when the clock has run out, nobody has used
the daemon since, also in the middle of a pass. What `SlotFreed` and `TableNeverStuck` rest on is
proved: every client is in a stage (headers, body or upload, viewer, answering or
closing, dead with an answer, dead), no step takes it back to an earlier stage or to before a fixed
deadline of the present one (`PeersCannotStall`), and a pass takes every client on whose
fixed deadline is past (`PassesFreeSlots`).

**`MediaProofs`, the audio ring.** `RingTyped`, `RingShaped`, and `RingIsFifo`: the ring
implements the queue for every capacity, batch size and alphabet. `RingInv`
says that the indices agree and that every cell between them was written; the
core is a handful of lemmas about stepping around the ring (`StepSum`,
`StoreCells`, `PushCells`, `CopyCells`), from which each operation is shown to be one of
the queue (`PushRefines`, `CopyRefines`, `ClearRefines`).

**`MediaProofs`, the video stream.** `StreamTyped`, `PacketsStable`, `PicturesCurrent`,
`WakeNotLost`, `PicturesOrdered`, for any number of pictures, viewers and
changes, with and without an encoder. `StreamInv` says for every place a picture can
be (pending, active, packet, link) that if it is of the present generation it
shows what the present viewer may see, a picture drawn since the last load and copied
since the last load or reset (`JobsValid`), that nothing behind it is
older (`InOrder`), who owns the packet (`PacketOwned`), and that somebody still owes the
pipe a byte (`WakeOwed`). One lemma per action keeps it.

Every safety invariant and action property that a run checks is stated by a
theorem. Only model-checked are the liveness properties, because the prover handles neither
ENABLED nor fairness:

* `CommandsAnswered`, `CallsReturn`, `SlotFreed` and `TableNeverStuck`, of which the theorems
  above prove the safety core: nobody is blocked without somebody who can go on, and every step of that one
  counts. That the steps are taken is fairness, and that a rank cannot fall for ever is induction;
* `ViewersNoticed`, `PendingTaken`, `ClosingEnds`, `HeartbeatAcked` and `Reconnects`, of which
  `WakeNotLost`, `NothingStranded` and `PageNeverStuck` prove that nothing is
  forgotten on the way.

## 5. Not modelled, and why

* Pixel conversion, tone, JPEG, SHA-256: pure computation on large arrays.
* The header, multipart and JSON parsers, authorisation, the listing of ROMs and the
  scan of the ROM directory: functions of bytes and of directory entries. `ServerLoop`,
  `Upload` and `WsClient` start from what they may yield. Streaming of large listings
  and files is `Flush` of `ServerLoop`.
* Of `play.html` the decoder's queue, audio scheduling, the lists of ROMs and
  states, and the settings.
* The libretro core: third-party; the environment.
* Real time. Timers are marks that may run out at any moment, so a safety
  property holds for every speed, but the models cannot say that a healthy peer
  is never mistaken for a silent one. The network thread blocks inside host
  commands and evaluates leases before it reads the heartbeats that queued up
  meanwhile (`http.c:5696`); this hazard is listed without a property.
* The pacer's deadlines and its back-off.
* Destruction of the mutexes in `host_shutdown` while another thread calls the
  API: the daemon has one API thread, which is the one that shuts the host down.
* The opening of the listening sockets and the parsing of options: start-up, once,
  before any thread runs.
* The RPC client, the rpcd script and the init script: sequential programs that run to
  their end once per call; what they do to the daemon are requests of `ServerLoop`,
  its `Stop` and its `Restart`.
* LuCI views, packaging and install scripts: no state of the daemon.

## 6. Plan

In this order:

1. `RomImport`: the transaction of the rpcd script, which copies a ROM into the
   library while the daemon scans it, and the token migration of the init
   script.
2. `Daemon`: start-up of `main.c` with partial failures, listeners and the
   order in which what was opened is closed again.
3. The pacer's arithmetic, as functions over bounded times.
4. Proofs about the steps that bring a closing connection and a page that
   reconnects nearer to their goal (`ClosingEnds`, `Reconnects`).
