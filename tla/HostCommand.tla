---------------------------- MODULE HostCommand ----------------------------
(***************************************************************************)
(* How a call of the host API reaches the emulation thread of nesd         *)
(* (submit_command_full, emu_thread_fn, worker_wait_ns, wake_worker and    *)
(* host_set_viewers in host.c).  There is one command slot; submit_mu      *)
(* admits one submitter, control_mu protects the slot, and control_cv is   *)
(* used in both directions.  What a command does is modelled in HostWorker *)
(* and SaveStates: here it has some outcome.                               *)
(*                                                                         *)
(* One action is one critical section of control_mu, one access of an      *)
(* atomic, or one uninterrupted stretch of a thread between two of them.   *)
(***************************************************************************)
EXTENDS Naturals, FiniteSets

CONSTANTS
    Callers,        \* threads that use the host API
    NoCaller,
    Outcomes,       \* what executing a command can return
    MaxCalls,       \* bound: calls per caller
    MaxWakes        \* bound: changes of the viewer count

ASSUME CommandAssumption ==
    /\ NoCaller \notin Callers
    /\ MaxCalls \in Nat \ {0} /\ MaxWakes \in Nat
    /\ Outcomes \cap {"refused", "lost", "none"} = {}

VARIABLES
    caller,         \* where each caller is
    kind,           \* what it submits: "op" or "shutdown"
    answer,         \* what its last call returned
    calls,          \* number of calls each caller made
    submitMu,       \* who holds submit_mu
    command,        \* the slot: "none", "op" or "shutdown"
    done, result,   \* command_done, command_result
    shutdownRequested,
    alive,          \* thread_alive
    generation,     \* wake_generation
    viewers,        \* viewers > 0
    waking,         \* host_set_viewers still has to wake the thread
    worker,         \* where the emulation thread is
    taken,          \* the command it copied out of the slot
    seenGen,        \* the generation worker_wait_ns started from
    sawViewers,     \* the value of viewers it acts upon
    executed        \* history: outcome produced for each caller's call

callerVars == <<caller, kind, answer, calls, submitMu>>
slotVars   == <<command, done, result, shutdownRequested, alive>>
wakeVars   == <<generation, viewers, waking>>
workerVars == <<worker, taken, seenGen, sawViewers>>
vars == <<callerVars, slotVars, wakeVars, workerVars, executed>>

Kinds        == {"op", "shutdown", "status"}
CallerStates == {"idle", "entering", "admitted", "waiting", "reading"}
WorkerStates == {"check", "exec", "publish", "decide", "enter", "wait",
                 "ending", "exited"}

-----------------------------------------------------------------------------
(* submit_command_full *)

Call(c) ==
    /\ caller[c] = "idle" /\ calls[c] < MaxCalls
    /\ \E k \in Kinds : kind' = [kind EXCEPT ![c] = k]
    /\ caller' = [caller EXCEPT ![c] = "entering"]
    /\ calls' = [calls EXCEPT ![c] = @ + 1]
    /\ executed' = [executed EXCEPT ![c] = "none"]
    /\ UNCHANGED <<answer, submitMu, slotVars, wakeVars, workerVars>>

\* The submitter owns submit_mu and finds the host still in service.
Admit(c) ==
    /\ caller[c] = "entering" /\ kind[c] # "status" /\ submitMu = NoCaller
    /\ ~shutdownRequested /\ alive
    /\ submitMu' = c
    /\ caller' = [caller EXCEPT ![c] = "admitted"]
    /\ UNCHANGED <<kind, answer, calls, slotVars, wakeVars, workerVars,
                   executed>>

\* ESHUTDOWN
Refuse(c) ==
    /\ caller[c] = "entering" /\ kind[c] # "status" /\ submitMu = NoCaller
    /\ shutdownRequested \/ ~alive
    /\ caller' = [caller EXCEPT ![c] = "idle"]
    /\ answer' = [answer EXCEPT ![c] = "refused"]
    /\ UNCHANGED <<kind, calls, submitMu, slotVars, wakeVars, workerVars,
                   executed>>

\* Fault: the outcome of the previous command is left in the slot.
PostOverOld(c) ==
    /\ caller[c] = "admitted"
    /\ command' = kind[c]
    /\ shutdownRequested' = (shutdownRequested \/ kind[c] = "shutdown")
    /\ caller' = [caller EXCEPT ![c] = "waiting"]
    /\ UNCHANGED <<kind, answer, calls, submitMu, done, result, alive,
                   wakeVars, workerVars, executed>>

\* Fill the slot, wake the emulation thread and wait on control_cv.
Post(c) ==
    /\ caller[c] = "admitted"
    /\ command' = kind[c]
    /\ done' = FALSE
    /\ result' = "lost"
    /\ shutdownRequested' = (shutdownRequested \/ kind[c] = "shutdown")
    /\ caller' = [caller EXCEPT ![c] = "waiting"]
    /\ UNCHANGED <<kind, answer, calls, submitMu, alive, wakeVars, workerVars,
                   executed>>

\* Fault: the submitter does not wait for its command (a spurious wake-up).
ReturnEarly(c) ==
    /\ caller[c] = "waiting"
    /\ answer' = [answer EXCEPT ![c] = IF done THEN result ELSE "lost"]
    /\ caller' = [caller EXCEPT ![c] = "idle"]
    /\ submitMu' = NoCaller
    /\ UNCHANGED <<kind, calls, slotVars, wakeVars, workerVars, executed>>

\* The wait ends with the result or with the end of the thread.
Return(c) ==
    /\ caller[c] = "waiting"
    /\ done \/ ~alive
    /\ answer' = [answer EXCEPT ![c] = IF done THEN result ELSE "lost"]
    /\ caller' = [caller EXCEPT ![c] = "idle"]
    /\ submitMu' = NoCaller
    /\ UNCHANGED <<kind, calls, slotVars, wakeVars, workerVars, executed>>

\* Fault: the status is read without submit_mu.
ReadStatusUnlocked(c) ==
    /\ caller[c] = "entering" /\ kind[c] = "status"
    /\ caller' = [caller EXCEPT ![c] = "reading"]
    /\ UNCHANGED <<kind, answer, calls, submitMu, slotVars, wakeVars,
                   workerVars, executed>>

\* host_get_status reads the flags one after the other under submit_mu.
ReadStatus(c) ==
    /\ caller[c] = "entering" /\ kind[c] = "status" /\ submitMu = NoCaller
    /\ submitMu' = c
    /\ caller' = [caller EXCEPT ![c] = "reading"]
    /\ UNCHANGED <<kind, answer, calls, slotVars, wakeVars, workerVars,
                   executed>>

StatusRead(c) ==
    /\ caller[c] = "reading"
    /\ submitMu' = NoCaller
    /\ caller' = [caller EXCEPT ![c] = "idle"]
    /\ answer' = [answer EXCEPT ![c] = "none"]
    /\ UNCHANGED <<kind, calls, slotVars, wakeVars, workerVars, executed>>

CallerStep(c) ==
    Admit(c) \/ Refuse(c) \/ Post(c) \/ Return(c)
        \/ ReadStatus(c) \/ StatusRead(c)

-----------------------------------------------------------------------------
(* emu_thread_fn *)

\* Under control_mu: is there a command?
CheckSlot ==
    /\ worker = "check"
    /\ taken' = command
    /\ worker' = IF command # "none" THEN "exec" ELSE "decide"
    /\ UNCHANGED <<callerVars, slotVars, wakeVars, seenGen, sawViewers,
                   executed>>

\* process_command: runs without any of these locks and writes into the
\* buffers of the submitter.
Execute ==
    /\ worker = "exec"
    /\ \E o \in Outcomes : executed' = [executed EXCEPT ![submitMu] = o]
    /\ worker' = "publish"
    /\ UNCHANGED <<callerVars, slotVars, wakeVars, taken, seenGen, sawViewers>>

Publish ==
    /\ worker = "publish"
    /\ result' = executed[submitMu]
    /\ command' = "none"
    /\ done' = TRUE
    /\ worker' = IF taken = "shutdown" THEN "ending" ELSE "check"
    /\ taken' = "none"
    /\ UNCHANGED <<callerVars, shutdownRequested, alive, wakeVars, seenGen,
                   sawViewers, executed>>

\* No command: look at the viewers, then run a frame, which worker_pace may
\* follow with a wait, or go to sleep.  (The machine is running, not paused.)
RunFrame ==
    /\ worker = "decide"
    /\ sawViewers' = viewers
    /\ worker' \in IF viewers THEN {"check", "enter"} ELSE {"enter"}
    /\ UNCHANGED <<callerVars, slotVars, wakeVars, taken, seenGen, executed>>

\* worker_wait_ns takes control_mu; a posted command is noticed here.
EnterWait ==
    /\ worker = "enter"
    /\ seenGen' = generation
    /\ worker' = IF command = "none" THEN "wait" ELSE "check"
    /\ UNCHANGED <<callerVars, slotVars, wakeVars, taken, sawViewers, executed>>

\* Fault: the predicate of the wait forgets the command slot.
WakeUpForViewers ==
    /\ worker = "wait"
    /\ generation # seenGen
    /\ worker' = "check"
    /\ UNCHANGED <<callerVars, slotVars, wakeVars, taken, seenGen, sawViewers,
                   executed>>

WakeUp ==
    /\ worker = "wait"
    /\ command # "none" \/ generation # seenGen
    /\ worker' = "check"
    /\ UNCHANGED <<callerVars, slotVars, wakeVars, taken, seenGen, sawViewers,
                   executed>>

\* Fault: after its time limit the wait starts again.
TimeOutIgnored ==
    /\ worker = "wait"
    /\ worker' = "enter"
    /\ UNCHANGED <<callerVars, slotVars, wakeVars, taken, seenGen, sawViewers,
                   executed>>

\* The 100 ms limit of the wait.
TimeOut ==
    /\ worker = "wait"
    /\ worker' = "check"
    /\ UNCHANGED <<callerVars, slotVars, wakeVars, taken, seenGen, sawViewers,
                   executed>>

EndThread ==
    /\ worker = "ending"
    /\ alive' = FALSE
    /\ worker' = "exited"
    /\ UNCHANGED <<callerVars, command, done, result, shutdownRequested,
                   wakeVars, taken, seenGen, sawViewers, executed>>

WorkerStep ==
    \/ CheckSlot \/ Execute \/ Publish \/ RunFrame
    \/ EnterWait \/ WakeUp \/ EndThread

-----------------------------------------------------------------------------
(* host_set_viewers, from the network thread: the exchange of the atomic    *)
(* and wake_worker are two steps.                                           *)

SetViewers ==
    /\ ~waking /\ generation < MaxWakes
    /\ viewers' = ~viewers
    /\ waking' = TRUE
    /\ UNCHANGED <<callerVars, slotVars, generation, workerVars, executed>>

WakeWorker ==
    /\ waking
    /\ generation' = generation + 1
    /\ waking' = FALSE
    /\ UNCHANGED <<callerVars, slotVars, viewers, workerVars, executed>>

-----------------------------------------------------------------------------
Init ==
    /\ caller = [c \in Callers |-> "idle"]
    /\ kind = [c \in Callers |-> "op"]
    /\ answer = [c \in Callers |-> "none"]
    /\ calls = [c \in Callers |-> 0]
    /\ submitMu = NoCaller
    /\ command = "none" /\ done = FALSE /\ result = "lost"
    /\ shutdownRequested = FALSE /\ alive = TRUE
    /\ generation = 0 /\ viewers = FALSE /\ waking = FALSE
    /\ worker = "check" /\ taken = "none" /\ seenGen = 0
    /\ sawViewers = FALSE
    /\ executed = [c \in Callers |-> "none"]

Next ==
    \/ \E c \in Callers : Call(c) \/ CallerStep(c)
    \/ WorkerStep
    \/ TimeOut
    \/ SetViewers
    \/ WakeWorker

Spec == Init /\ [][Next]_vars

\* The kernel schedules every runnable thread.  A caller waiting for
\* submit_mu needs no more than that because calls are bounded.  That the
\* timed wait expires is not assumed here.
FairSpec ==
    /\ Spec
    /\ \A c \in Callers : WF_vars(CallerStep(c))
    /\ WF_vars(WorkerStep)
    /\ WF_vars(WakeWorker)

-----------------------------------------------------------------------------
(* Properties *)

\* Callers, slot and emulation thread hold values of their kind.
TypeOK ==
    /\ caller \in [Callers -> CallerStates]
    /\ kind \in [Callers -> Kinds]
    /\ answer \in [Callers -> Outcomes \cup {"none", "refused", "lost"}]
    /\ calls \in [Callers -> 0..MaxCalls]
    /\ submitMu \in Callers \cup {NoCaller}
    /\ command \in {"none", "op", "shutdown"}
    /\ done \in BOOLEAN /\ result \in Outcomes \cup {"none", "lost"}
    /\ shutdownRequested \in BOOLEAN /\ alive \in BOOLEAN
    /\ generation \in 0..MaxWakes /\ viewers \in BOOLEAN /\ waking \in BOOLEAN
    /\ worker \in WorkerStates
    /\ taken \in {"none", "op", "shutdown"}
    /\ seenGen \in 0..MaxWakes
    /\ sawViewers \in BOOLEAN
    /\ executed \in [Callers -> Outcomes \cup {"none"}]

\* While the emulation thread executes a command, the thread that submitted
\* exactly this command is still blocked in submit_command_full: the buffers
\* on its stack that command_states points to are alive.
BuffersLive ==
    worker \in {"exec", "publish"} =>
        /\ submitMu \in Callers
        /\ caller[submitMu] = "waiting"
        /\ kind[submitMu] = taken

\* Once a shutdown is in the slot, no other command is on its way: nothing
\* can reach the emulation thread after it decided to end.
ShutdownIsLast ==
    shutdownRequested =>
        \A c \in Callers : caller[c] \in {"admitted", "waiting"} =>
            caller[c] = "waiting" /\ kind[c] = "shutdown"

\* host_get_status never sees the middle of a command: while it holds
\* submit_mu none is in the slot and none is being executed.
StatusBetweenCommands ==
    (\E c \in Callers : caller[c] = "reading") =>
        command = "none" /\ worker \notin {"exec", "publish"}

\* A submitter is told the outcome of the execution of its own command,
\* which took place exactly during the call; the EIO answer for a thread
\* that ended without executing it is never given.
OwnResult ==
    [][\A c \in Callers : caller[c] = "waiting" /\ caller'[c] = "idle" =>
          answer'[c] \in Outcomes /\ answer'[c] = executed[c]]_vars

\* Every call returns, even if no timed wait of the emulation thread ever
\* expired: a posted command always wakes it.
CallsReturn == \A c \in Callers : caller[c] # "idle" ~> caller[c] = "idle"

\* A viewer who stays is noticed by the emulation thread, provided its wait
\* is limited: the wake-up can fall between its look at the counter and its
\* wait, and only the limit of the wait repairs that.
ViewersNoticed ==
    WF_vars(TimeOut) =>
        (viewers ~> (~viewers \/ sawViewers \/ worker = "exited"))
=============================================================================
