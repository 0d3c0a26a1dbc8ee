-------------------------- MODULE HostCommandProofs --------------------------
(***************************************************************************)
(* Proofs about HostCommand for every set of callers and outcomes: the     *)
(* hand-over of commands never mixes up two submitters, and a submitter    *)
(* never leaves while its command is in progress.                          *)
(***************************************************************************)
EXTENDS HostCommand, TLAPS

\* submit_mu is held by exactly the caller that is inside.
OneInside ==
    \A c \in Callers :
        /\ caller[c] \in {"admitted", "waiting", "reading"} <=> submitMu = c
        /\ caller[c] \in {"admitted", "waiting"} => kind[c] # "status"

\* A command in the slot, and the one being executed, is that of the holder.
SlotOwned ==
    /\ command # "none" =>
          /\ submitMu \in Callers /\ caller[submitMu] = "waiting"
          /\ kind[submitMu] = command
          /\ ~done
          /\ command = "shutdown" => shutdownRequested
    /\ worker \in {"exec", "publish"} => command # "none" /\ taken = command
    /\ worker \notin {"exec", "publish"} => taken = "none"

\* A waiting caller has its command in the slot or its own result.
ResultOwned ==
    /\ worker = "publish" => executed[submitMu] \in Outcomes
    /\ \A c \in Callers : caller[c] = "waiting" =>
          \/ command # "none"
          \/ done /\ result \in Outcomes /\ result = executed[c]

\* The thread ends only after a shutdown was requested and executed.
EndOrdered ==
    /\ alive <=> worker # "exited"
    /\ worker \in {"ending", "exited"} => shutdownRequested /\ command = "none"
    /\ \A c \in Callers : caller[c] = "admitted" => ~shutdownRequested

\* Bound of the model: a pending wake-up has room.
WakeBounded == waking => generation < MaxWakes

CommandInv ==
    /\ TypeOK
    /\ WakeBounded
    /\ OneInside
    /\ SlotOwned
    /\ ResultOwned
    /\ EndOrdered
    /\ ShutdownIsLast

-----------------------------------------------------------------------------
\* The invariant holds before the first call.
LEMMA InitInv == Init => CommandInv
<1> SUFFICES ASSUME Init PROVE CommandInv
  OBVIOUS
<1> USE CommandAssumption DEF Init
<1>1. TypeOK /\ WakeBounded
  <2>1. /\ calls \in [Callers -> 0..MaxCalls]
        /\ generation \in 0..MaxWakes /\ seenGen \in 0..MaxWakes
    OBVIOUS
  <2>2. /\ caller \in [Callers -> CallerStates] /\ kind \in [Callers -> Kinds]
        /\ worker \in WorkerStates
    BY DEF Kinds, CallerStates, WorkerStates
  <2> QED
    BY <2>1, <2>2 DEF TypeOK, WakeBounded
<1>2. OneInside /\ SlotOwned /\ ResultOwned /\ EndOrdered /\ ShutdownIsLast
  BY DEF OneInside, SlotOwned, ResultOwned, EndOrdered, ShutdownIsLast
<1> QED
  BY <1>1, <1>2 DEF CommandInv

-----------------------------------------------------------------------------
(* The callers *)

\* Calling, being refused and reading the status do not touch the slot.
LEMMA OutsideStep ==
    ASSUME CommandInv, NEW c \in Callers,
           Call(c) \/ Refuse(c) \/ ReadStatus(c) \/ StatusRead(c)
    PROVE  CommandInv'
<1> USE DEF CommandInv, slotVars, wakeVars, workerVars
<1>1. UNCHANGED <<slotVars, wakeVars, workerVars>>
  BY DEF Call, Refuse, ReadStatus, StatusRead
<1>2. /\ caller[c] \notin {"admitted", "waiting"}
      /\ submitMu = c => caller[c] = "reading"
  BY DEF Call, Refuse, ReadStatus, StatusRead, OneInside
<1>3. \A x \in Callers : x # c =>
         /\ caller'[x] = caller[x] /\ kind'[x] = kind[x]
         /\ executed'[x] = executed[x]
  BY DEF Call, Refuse, ReadStatus, StatusRead, TypeOK
<1>4. caller'[c] \notin {"admitted", "waiting"}
  BY DEF Call, Refuse, ReadStatus, StatusRead, TypeOK
<1>5. TypeOK'
  <2>1. ASSUME Call(c) PROVE TypeOK'
    <3>1. calls' \in [Callers -> 0..MaxCalls]
      <4>1. calls[c] \in 0..MaxCalls /\ calls[c] + 1 \in 0..MaxCalls
        BY <2>1, CommandAssumption DEF Call, TypeOK
      <4> QED
        BY <2>1, <4>1 DEF Call, TypeOK
    <3>2. /\ caller' \in [Callers -> CallerStates]
          /\ kind' \in [Callers -> Kinds]
          /\ executed' \in [Callers -> Outcomes \cup {"none"}]
      BY <2>1 DEF Call, TypeOK, CallerStates
    <3> QED
      BY <2>1, <3>1, <3>2 DEF Call, TypeOK
  <2>2. ASSUME Refuse(c) \/ ReadStatus(c) \/ StatusRead(c) PROVE TypeOK'
    <3>1. /\ caller' \in [Callers -> CallerStates]
          /\ answer' \in [Callers -> Outcomes \cup {"none", "refused", "lost"}]
          /\ submitMu' \in Callers \cup {NoCaller}
      BY <2>2 DEF Refuse, ReadStatus, StatusRead, TypeOK, CallerStates
    <3> QED
      BY <2>2, <3>1 DEF Refuse, ReadStatus, StatusRead, TypeOK
  <2> QED
    BY <2>1, <2>2
<1>6. OneInside'
  <2>1. submitMu' = IF caller'[c] = "reading" THEN c
                    ELSE IF caller[c] = "reading" THEN NoCaller ELSE submitMu
    BY CommandAssumption
       DEF Call, Refuse, ReadStatus, StatusRead, TypeOK, OneInside
  <2>2. ReadStatus(c) => submitMu = NoCaller
    BY DEF ReadStatus
  <2>3. caller'[c] = "reading" => ReadStatus(c)
    BY DEF Call, Refuse, ReadStatus, StatusRead, TypeOK
  <2>4. NoCaller # c /\ NoCaller \notin Callers
    BY CommandAssumption
  <2>5. CASE ReadStatus(c)
    BY <1>3, <2>2, <2>4, <2>5 DEF OneInside, ReadStatus, TypeOK
  <2>6. CASE ~ReadStatus(c)
    <3>1. caller'[c] \notin {"admitted", "waiting", "reading"}
      BY <1>4, <2>3, <2>6
    <3>2. submitMu' = IF caller[c] = "reading" THEN NoCaller ELSE submitMu
      BY <2>1, <3>1
    <3>3. submitMu' # c
      BY <1>2, <2>4, <3>2
    <3>4. \A x \in Callers : x # c => (submitMu' = x <=> submitMu = x)
      BY <2>4, <3>2 DEF OneInside
    <3> QED
      BY <1>3, <3>1, <3>3, <3>4 DEF OneInside
  <2> QED
    BY <2>5, <2>6
<1>7. SlotOwned'
  <2>1. command # "none" => submitMu' = submitMu /\ submitMu # c
    BY <1>2, CommandAssumption
       DEF Call, Refuse, ReadStatus, StatusRead, SlotOwned, OneInside
  <2> QED
    BY <1>1, <1>3, <2>1 DEF SlotOwned
<1>8. ResultOwned'
  <2>1. worker = "publish" => submitMu' = submitMu /\ submitMu # c /\ submitMu \in Callers
    BY <1>2, CommandAssumption
       DEF Call, Refuse, ReadStatus, StatusRead, SlotOwned, OneInside
  <2> QED
    BY <1>1, <1>3, <1>4, <2>1 DEF ResultOwned
<1>9. EndOrdered' /\ ShutdownIsLast'
  BY <1>1, <1>3, <1>4 DEF EndOrdered, ShutdownIsLast
<1>10. WakeBounded'
  BY <1>1 DEF WakeBounded
<1> QED
  BY <1>5, <1>6, <1>7, <1>8, <1>9, <1>10

\* A caller gets submit_mu.
LEMMA AdmitStep ==
    ASSUME CommandInv, NEW c \in Callers, Admit(c) PROVE CommandInv'
<1> USE DEF CommandInv, Admit, slotVars, wakeVars, workerVars
<1>1. /\ caller'[c] = "admitted" /\ submitMu' = c
      /\ \A x \in Callers : x # c => caller'[x] = caller[x]
  BY DEF TypeOK
<1>2. command = "none" /\ worker \notin {"exec", "publish", "ending", "exited"}
  BY CommandAssumption DEF SlotOwned, EndOrdered
<1>3. TypeOK'
  BY DEF TypeOK, CallerStates
<1>4. OneInside'
  BY <1>1, CommandAssumption DEF OneInside
<1>5. SlotOwned' /\ ResultOwned'
  BY <1>1, <1>2 DEF SlotOwned, ResultOwned
<1>6. EndOrdered' /\ ShutdownIsLast'
  BY <1>1 DEF EndOrdered, ShutdownIsLast
<1>10. WakeBounded'
  BY DEF WakeBounded
<1> QED
  BY <1>3, <1>4, <1>5, <1>6, <1>10

\* A caller fills the slot.
LEMMA PostStep ==
    ASSUME CommandInv, NEW c \in Callers, Post(c) PROVE CommandInv'
<1> USE DEF CommandInv, Post, wakeVars, workerVars
<1>1. /\ submitMu = c /\ caller[c] = "admitted" /\ caller'[c] = "waiting"
      /\ \A x \in Callers : x # c =>
            caller'[x] = caller[x] /\ caller[x] \notin {"admitted", "waiting"}
  BY DEF TypeOK, OneInside
<1>2. command' = kind[c] /\ command' \in {"op", "shutdown"} /\ ~done'
  BY <1>1 DEF OneInside, TypeOK, Kinds
<1>3. command = "none" /\ worker \notin {"exec", "publish", "ending", "exited"}
  BY <1>1 DEF SlotOwned, EndOrdered
<1>4. TypeOK'
  BY <1>2 DEF TypeOK, CallerStates
<1>5. OneInside'
  BY <1>1 DEF OneInside
<1>6. SlotOwned'
  BY <1>1, <1>2, <1>3 DEF SlotOwned
<1>7. ResultOwned' /\ EndOrdered'
  BY <1>1, <1>2, <1>3 DEF ResultOwned, EndOrdered
<1>8. ShutdownIsLast'
  BY <1>1 DEF ShutdownIsLast, EndOrdered
<1>10. WakeBounded'
  BY DEF WakeBounded
<1> QED
  BY <1>4, <1>5, <1>6, <1>7, <1>8, <1>10

\* A waiting caller can only leave with its own result.
LEMMA WaitingHasResult ==
    ASSUME CommandInv, NEW c \in Callers, caller[c] = "waiting", done \/ ~alive
    PROVE  done /\ command = "none" /\ result \in Outcomes /\ result = executed[c]
BY DEF CommandInv, SlotOwned, ResultOwned, EndOrdered

\* A caller finds its command done, or the thread ended, and returns.
LEMMA ReturnStep ==
    ASSUME CommandInv, NEW c \in Callers, Return(c) PROVE CommandInv'
<1> USE DEF CommandInv, Return, slotVars, wakeVars, workerVars
<1>1. done /\ command = "none" /\ result \in Outcomes
  BY WaitingHasResult
<1>2. /\ submitMu = c /\ caller'[c] = "idle" /\ submitMu' = NoCaller
      /\ \A x \in Callers : x # c =>
            /\ caller'[x] = caller[x]
            /\ caller[x] \notin {"admitted", "waiting", "reading"}
  BY DEF TypeOK, OneInside
<1>3. worker \notin {"exec", "publish"}
  BY <1>1 DEF SlotOwned
<1>4. TypeOK'
  BY <1>1 DEF TypeOK, CallerStates
<1>5. OneInside'
  BY <1>2, CommandAssumption DEF OneInside
<1>6. SlotOwned' /\ ResultOwned' /\ EndOrdered' /\ ShutdownIsLast'
  BY <1>1, <1>2, <1>3
     DEF SlotOwned, ResultOwned, EndOrdered, ShutdownIsLast
<1>10. WakeBounded'
  BY DEF WakeBounded
<1> QED
  BY <1>4, <1>5, <1>6, <1>10

-----------------------------------------------------------------------------
(* The emulation thread *)

\* Steps outside process_command.
LEMMA LoopStep ==
    ASSUME CommandInv,
           CheckSlot \/ RunFrame \/ EnterWait \/ WakeUp
              \/ TimeOut \/ EndThread
    PROVE  CommandInv'
<1> USE DEF CommandInv, callerVars, slotVars, wakeVars
<1>1. UNCHANGED <<callerVars, command, done, result, shutdownRequested,
                  wakeVars, executed>>
  BY DEF CheckSlot, RunFrame, EnterWait, WakeUp, TimeOut, EndThread
<1>2. worker \notin {"exec", "publish"} /\ worker' # "publish"
  BY DEF CheckSlot, RunFrame, EnterWait, WakeUp, TimeOut, EndThread
<1>3. TypeOK'
  <2>1. /\ worker' \in WorkerStates /\ alive' \in BOOLEAN
        /\ taken' \in {"none", "op", "shutdown"}
        /\ sawViewers' \in BOOLEAN
    BY DEF CheckSlot, RunFrame, EnterWait, WakeUp, TimeOut, EndThread, TypeOK,
           WorkerStates
  <2>2. seenGen' \in 0..MaxWakes
    BY DEF CheckSlot, RunFrame, EnterWait, WakeUp, TimeOut, EndThread, TypeOK
  <2> QED
    BY <1>1, <2>1, <2>2 DEF TypeOK
<1>4. OneInside' /\ ShutdownIsLast'
  BY <1>1 DEF OneInside, ShutdownIsLast
<1>5. SlotOwned'
  BY <1>1, <1>2
     DEF CheckSlot, RunFrame, EnterWait, WakeUp, TimeOut, EndThread, SlotOwned
<1>6. ResultOwned'
  BY <1>1, <1>2 DEF ResultOwned
<1>7. EndOrdered'
  BY <1>1 DEF CheckSlot, RunFrame, EnterWait, WakeUp, TimeOut, EndThread, EndOrdered
<1>10. WakeBounded'
  BY <1>1 DEF WakeBounded
<1> QED
  BY <1>3, <1>4, <1>5, <1>6, <1>7, <1>10

\* The emulation thread executes the command.
LEMMA ExecuteStep ==
    ASSUME CommandInv, Execute PROVE CommandInv'
<1> USE DEF CommandInv, Execute, callerVars, slotVars, wakeVars
<1>1. submitMu \in Callers /\ command # "none" /\ alive
  BY DEF SlotOwned, EndOrdered
<1>2. PICK o \in Outcomes : executed' = [executed EXCEPT ![submitMu] = o]
  OBVIOUS
<1>3. executed'[submitMu] \in Outcomes
  BY <1>1, <1>2 DEF TypeOK
<1>4. TypeOK'
  <2>1. executed' \in [Callers -> Outcomes \cup {"none"}]
    BY <1>2 DEF TypeOK
  <2>2. worker' \in WorkerStates
    BY DEF WorkerStates
  <2> QED
    BY <2>1, <2>2 DEF TypeOK
<1>5. OneInside' /\ SlotOwned' /\ ResultOwned' /\ EndOrdered' /\ ShutdownIsLast'
  BY <1>1, <1>3
     DEF OneInside, SlotOwned, ResultOwned, EndOrdered, ShutdownIsLast
<1>6. WakeBounded'
  BY DEF WakeBounded
<1> QED
  BY <1>4, <1>5, <1>6

\* The emulation thread publishes the result.
LEMMA PublishStep ==
    ASSUME CommandInv, Publish PROVE CommandInv'
<1> USE DEF CommandInv, Publish, callerVars, wakeVars
<1>1. /\ submitMu \in Callers /\ caller[submitMu] = "waiting"
      /\ kind[submitMu] = command /\ taken = command /\ command # "none"
      /\ executed[submitMu] \in Outcomes
  BY DEF SlotOwned, ResultOwned
<1>2. \A c \in Callers : caller[c] \in {"waiting", "admitted"} => c = submitMu
  BY DEF OneInside
<1>3. TypeOK'
  BY <1>1 DEF TypeOK, WorkerStates
<1>4. OneInside' /\ SlotOwned' /\ ShutdownIsLast'
  BY DEF OneInside, SlotOwned, ShutdownIsLast
<1>5. ResultOwned'
  BY <1>1, <1>2 DEF ResultOwned
<1>6. taken = "shutdown" => shutdownRequested
  BY <1>1 DEF SlotOwned
<1>7. EndOrdered'
  BY <1>1, <1>6 DEF EndOrdered
<1>10. WakeBounded'
  BY DEF WakeBounded
<1> QED
  BY <1>3, <1>4, <1>5, <1>7, <1>10

-----------------------------------------------------------------------------
(* host_set_viewers *)

LEMMA ViewersStep ==
    ASSUME CommandInv, SetViewers \/ WakeWorker PROVE CommandInv'
<1> USE DEF CommandInv, callerVars, slotVars, workerVars
<1>1. UNCHANGED <<callerVars, slotVars, workerVars, executed>>
  BY DEF SetViewers, WakeWorker
<1>2. generation' \in 0..MaxWakes /\ viewers' \in BOOLEAN /\ waking' \in BOOLEAN
  <2>1. ASSUME SetViewers
        PROVE generation' \in 0..MaxWakes /\ viewers' \in BOOLEAN /\ waking' \in BOOLEAN
    BY <2>1 DEF SetViewers, TypeOK
  <2>2. ASSUME WakeWorker
        PROVE generation' \in 0..MaxWakes /\ viewers' \in BOOLEAN /\ waking' \in BOOLEAN
    <3>1. MaxWakes \in Nat /\ generation \in Nat /\ generation < MaxWakes
      BY <2>2, CommandAssumption DEF WakeWorker, TypeOK, WakeBounded
    <3>2. generation' = generation + 1 /\ waking' = FALSE /\ viewers' = viewers
      BY <2>2 DEF WakeWorker
    <3>3. generation' \in 0..MaxWakes
      BY <3>1, <3>2
    <3> QED
      BY <3>2, <3>3 DEF TypeOK
  <2> QED
    BY <2>1, <2>2
<1>3. TypeOK'
  BY <1>1, <1>2 DEF TypeOK
<1>4. OneInside' /\ SlotOwned' /\ ResultOwned' /\ EndOrdered' /\ ShutdownIsLast'
  BY <1>1 DEF OneInside, SlotOwned, ResultOwned, EndOrdered, ShutdownIsLast
<1>5. WakeBounded'
  BY CommandAssumption DEF SetViewers, WakeWorker, WakeBounded, TypeOK
<1> QED
  BY <1>3, <1>4, <1>5

-----------------------------------------------------------------------------
(* The invariant and what follows from it *)

LEMMA NextInv == CommandInv /\ [Next]_vars => CommandInv'
<1>1. ASSUME CommandInv, UNCHANGED vars PROVE CommandInv'
  <2> USE <1>1 DEF vars, callerVars, slotVars, wakeVars, workerVars, CommandInv
  <2>1. TypeOK' /\ WakeBounded'
    BY DEF TypeOK, WakeBounded
  <2>2. OneInside' /\ SlotOwned' /\ ResultOwned' /\ EndOrdered' /\ ShutdownIsLast'
    BY DEF OneInside, SlotOwned, ResultOwned, EndOrdered, ShutdownIsLast
  <2> QED
    BY <2>1, <2>2
<1>2. ASSUME CommandInv, NEW c \in Callers, Call(c) \/ CallerStep(c)
      PROVE  CommandInv'
  BY <1>2, OutsideStep, AdmitStep, PostStep, ReturnStep DEF CallerStep
<1>3. ASSUME CommandInv, WorkerStep PROVE CommandInv'
  BY <1>3, LoopStep, ExecuteStep, PublishStep DEF WorkerStep
<1> QED
  BY <1>1, <1>2, <1>3, LoopStep, ViewersStep DEF Next

\* In every reachable state, for any set of callers.
THEOREM CommandInvariant == Spec => []CommandInv
BY InitInv, NextInv, PTL DEF Spec

\* The emulation thread never writes into the buffers of a caller that left.
THEOREM BuffersStayLive == Spec => []BuffersLive
<1>1. CommandInv => BuffersLive
  BY DEF CommandInv, SlotOwned, BuffersLive
<1> QED
  BY <1>1, CommandInvariant, PTL

\* No command is on its way when the emulation thread decides to end.
THEOREM NothingAfterShutdown == Spec => []ShutdownIsLast
BY CommandInvariant, PTL DEF CommandInv

\* A status is never read in the middle of a command.
THEOREM StatusIsStable == Spec => []StatusBetweenCommands
<1>1. CommandInv => StatusBetweenCommands
  BY DEF CommandInv, OneInside, SlotOwned, StatusBetweenCommands
<1> QED
  BY <1>1, CommandInvariant, PTL

\* Every call returns what the execution of its own command produced.
THEOREM CallersGetOwnResult == Spec => OwnResult
<1> DEFINE Own == \A c \in Callers :
             caller[c] = "waiting" /\ caller'[c] = "idle" =>
                answer'[c] \in Outcomes /\ answer'[c] = executed[c]
<1>1. CommandInv /\ [Next]_vars => [Own]_vars
  <2> SUFFICES ASSUME CommandInv, Next, NEW c \in Callers,
                      caller[c] = "waiting", caller'[c] = "idle"
               PROVE  answer'[c] \in Outcomes /\ answer'[c] = executed[c]
    OBVIOUS
  <2>1. Return(c)
    <3>1. ASSUME NEW x \in Callers, x # c, Call(x) \/ CallerStep(x) PROVE FALSE
      BY <3>1 DEF Call, CallerStep, Admit, Refuse, Post, Return, ReadStatus,
                  StatusRead, CommandInv, TypeOK
    <3>2. ASSUME WorkerStep \/ TimeOut \/ SetViewers \/ WakeWorker PROVE FALSE
      BY <3>2 DEF WorkerStep, CheckSlot, RunFrame, EnterWait, WakeUp, TimeOut, EndThread,
                  Execute, Publish, SetViewers, WakeWorker, callerVars
    <3>3. ASSUME Call(c) \/ CallerStep(c) PROVE Return(c)
      BY <3>3 DEF Call, CallerStep, Admit, Refuse, Post, Return, ReadStatus,
                  StatusRead
    <3> QED
      BY <3>1, <3>2, <3>3 DEF Next
  <2>2. done /\ result \in Outcomes /\ result = executed[c]
    BY <2>1, WaitingHasResult DEF Return
  <2> QED
    BY <2>1, <2>2 DEF Return, CommandInv, TypeOK
<1> QED
  BY <1>1, CommandInvariant, PTL DEF Spec, OwnResult
-----------------------------------------------------------------------------
(* What CallsReturn rests on: with the fairness of the threads, these two   *)
(* facts say that every call comes to its end.                              *)

\* Neither submit_mu nor control_cv keeps the caller.
Unblocked(c) ==
    \/ caller[c] = "entering" /\ submitMu = NoCaller
    \/ caller[c] \in {"admitted", "reading"}
    \/ caller[c] = "waiting" /\ (done \/ ~alive)

\* The predicate of worker_wait_ns is true, or the thread does not wait.
ThreadUnblocked ==
    /\ worker \notin {"ending", "exited"}
    /\ worker = "wait" => command # "none" \/ generation # seenGen

\* A caller inside can go on, or the one that holds submit_mu can, or the
\* emulation thread can and has the holder's command.
NobodyBlocked ==
    \A c \in Callers : caller[c] # "idle" =>
        \/ Unblocked(c)
        \/ submitMu \in Callers /\ Unblocked(submitMu)
        \/ submitMu \in Callers /\ command = kind[submitMu] /\ ThreadUnblocked

\* How many steps of the thread a posted command is from its result.
Distance ==
    CASE worker = "publish"           -> 1
      [] worker = "exec"              -> 2
      [] worker = "check"             -> 3
      [] worker \in {"enter", "wait"} -> 4
      [] OTHER                        -> 5

\* No step of anybody takes a posted command away from its execution; the
\* steps of the thread, whose wait a command always ends, bring it nearer.
ResultApproaches ==
    [][command # "none" =>
          \/ done' /\ command' = "none"
          \/ command' = command /\ Distance' < Distance
          \/ command' = command /\ worker' = worker
                 /\ ~(WorkerStep \/ TimeOut)]_vars

\* No caller waits for anything but a thread that can go on.
THEOREM NobodyStuck == Spec => []NobodyBlocked
<1>1. CommandInv => NobodyBlocked
  <2> SUFFICES ASSUME CommandInv, NEW c \in Callers, caller[c] # "idle",
                      ~Unblocked(c)
               PROVE  /\ submitMu \in Callers
                      /\ Unblocked(submitMu)
                           \/ (command = kind[submitMu] /\ ThreadUnblocked)
    BY DEF NobodyBlocked
  <2>1. submitMu \in Callers
    BY DEF CommandInv, TypeOK, CallerStates, OneInside, Unblocked
  <2>2. caller[submitMu] \in {"admitted", "waiting", "reading"}
    BY <2>1 DEF CommandInv, OneInside
  <2>3. CASE caller[submitMu] = "waiting" /\ ~done
    <3>1. command # "none"
      BY <2>1, <2>3 DEF CommandInv, ResultOwned
    <3>2. command = kind[submitMu] /\ ThreadUnblocked
      BY <3>1 DEF CommandInv, SlotOwned, EndOrdered, ThreadUnblocked
    <3>. QED BY <2>1, <3>2
  <2>. QED BY <2>1, <2>2, <2>3 DEF Unblocked
<1>. QED BY <1>1, CommandInvariant, PTL

\* A posted command is executed within five steps of the emulation thread.
THEOREM ResultsApproach == Spec => ResultApproaches
<1>1. CommandInv /\ [Next]_vars =>
        [command # "none" =>
          \/ done' /\ command' = "none"
          \/ command' = command /\ Distance' < Distance
          \/ command' = command /\ worker' = worker
                 /\ ~(WorkerStep \/ TimeOut)]_vars
  <2> SUFFICES ASSUME CommandInv, Next, command # "none"
               PROVE  \/ done' /\ command' = "none"
                      \/ command' = command /\ Distance' < Distance
                      \/ command' = command /\ worker' = worker
                             /\ ~(WorkerStep \/ TimeOut)
    OBVIOUS
  <2>1. worker \notin {"ending", "exited"}
    BY DEF CommandInv, EndOrdered
  <2>2. CASE Publish
    BY <2>2 DEF Publish
  <2>3. CASE \/ CheckSlot \/ Execute \/ RunFrame \/ EnterWait \/ WakeUp \/ TimeOut
             \/ EndThread
    <3>1. command' = command
      BY <2>3, <2>1 DEF CheckSlot, Execute, RunFrame, EnterWait, WakeUp, TimeOut,
                        EndThread, slotVars
    <3>2. \/ worker = "exec" /\ worker' = "publish"
          \/ worker = "check" /\ worker' = "exec"
          \/ worker \in {"enter", "wait"} /\ worker' = "check"
          \/ worker = "decide" /\ worker' \in {"check", "enter"}
      BY <2>3, <2>1 DEF CheckSlot, Execute, RunFrame, EnterWait, WakeUp, TimeOut,
                        EndThread
    <3>. QED BY <3>1, <3>2 DEF Distance
  <2>4. ASSUME NEW c \in Callers, Call(c) \/ CallerStep(c)
        PROVE  command' = command /\ UNCHANGED workerVars
    <3>1. submitMu \in Callers /\ caller[submitMu] = "waiting"
      BY DEF CommandInv, SlotOwned
    <3>2. ~Post(c)
      BY <3>1 DEF Post, CommandInv, OneInside
    <3>. QED BY <2>4, <3>2 DEF Call, CallerStep, Admit, Refuse, Return, ReadStatus,
                               StatusRead, slotVars
  <2>5. ASSUME SetViewers \/ WakeWorker
        PROVE  command' = command /\ UNCHANGED workerVars
    BY <2>5 DEF SetViewers, WakeWorker, slotVars
  <2>6. ASSUME UNCHANGED workerVars PROVE ~(WorkerStep \/ TimeOut)
    BY <2>1, <2>6 DEF workerVars, WorkerStep, CheckSlot, Execute, Publish, RunFrame,
         EnterWait, WakeUp, EndThread, TimeOut
  <2>. QED BY <2>2, <2>3, <2>4, <2>5, <2>6
           DEF Next, WorkerStep, workerVars
<1>. QED BY <1>1, CommandInvariant, PTL DEF Spec, ResultApproaches
=============================================================================
