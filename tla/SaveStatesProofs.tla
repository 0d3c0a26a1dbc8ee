-------------------------- MODULE SaveStatesProofs --------------------------
(***************************************************************************)
(* Save states are whole, durable when reported so, and every command is   *)
(* all or nothing, for any slots, machines, quota and number of failures.  *)
(* The argument follows a command through its steps: what it has done so   *)
(* far, compared with what it found, is a function of how far it got.      *)
(***************************************************************************)
EXTENDS SaveStates, FiniteSetTheorems, TLAPS

\* What a state file can be: nothing, or a container that is on the medium
Whole == {f \in Containers : f.synced} \cup {NoFile}

Pcs == {"idle", "flush", "serialize", "open", "cleanup", "capacity", "create",
        "written", "synced", "changed", "unlink", "scan", "read", "backup",
        "save-ram", "unserialize", "load-ram", "restore", "restore-ram"}

\* Where each command can be
PathOK ==
    /\ pc \in Pcs
    /\ pc # "idle" => op.name \in {"save", "load", "delete", "list"}
    /\ pc \in {"flush", "serialize", "capacity", "create", "written", "synced"} =>
         op.name = "save"
    /\ pc \in {"read", "backup", "save-ram", "unserialize", "load-ram",
               "restore", "restore-ram"} => op.name = "load"
    /\ pc = "unlink" => op.name = "delete"
    /\ pc = "scan" => op.name = "list"
    /\ pc = "changed" => op.name \in {"save", "delete"}

\* A save keeps the console and touches its slot last.
SaveOK ==
    op.name = "save" /\ pc # "idle" =>
        /\ IF pc = "changed"
           THEN seen = [before.seen EXCEPT ![op.slot] = Container(mach, picture, TRUE)]
           ELSE seen = before.seen
        /\ pc # "flush" => sram = {Ram[mach]}
        /\ pc \in {"open", "cleanup", "capacity", "create", "written", "synced"} =>
             held = Container(mach, picture, FALSE)
        /\ pc \in {"written", "synced"} =>
             temp = Container(mach, picture, pc = "synced")

\* A load has its backup before it touches the console, and never its slot.
LoadOK ==
    op.name = "load" /\ pc # "idle" =>
        /\ seen = before.seen /\ running = before.running /\ paused = before.paused
        /\ pc \in {"open", "cleanup", "read", "backup", "save-ram", "unserialize"} =>
             mach = before.mach /\ sram \subseteq before.sram \cup {Ram[mach]}
        /\ pc \notin {"open", "cleanup", "read"} =>
             held \in Containers /\ held = seen[op.slot]
        /\ pc \notin {"open", "cleanup", "read", "backup"} =>
             backup = before.mach /\ backup \in Machines
        /\ pc = "load-ram" => mach = held.mach
        /\ pc = "restore-ram" => mach = before.mach

FilesOK ==
    /\ seen \in [Slots -> Whole] /\ stable \in [Slots -> Whole]
    /\ DOMAIN promised = Slots
    /\ DurableIsStable
    /\ pc = "changed" => promised[op.slot] = Unknown

\* The inductive invariant
Inv == TypeOK /\ PathOK /\ SaveOK /\ LoadOK /\ FilesOK

-----------------------------------------------------------------------------
(* Facts of the constants and of typing *)

LEMMA Constants ==
    /\ \A m \in Machines : Ram[m] \in Rams
    /\ \A r \in Rams : Fresh[r] \in Machines
    /\ NoFile \notin Machines /\ NoFile # Torn
    /\ MaxOps \in Nat /\ MaxRestarts \in Nat
  BY SaveStatesAssumption

LEMMA OpTyped ==
    ASSUME NEW o \in Operations \cup {NoOp}
    PROVE  /\ o.name \in {"save", "load", "delete", "list", "none"}
           /\ o.name \in {"save", "load", "delete"} => o.slot \in Slots
           /\ o.name = "none" => o = NoOp
  BY DEF Operations, NoOp

LEMMA ContainerTyped ==
    ASSUME NEW m \in Machines, NEW p \in BOOLEAN, NEW s \in BOOLEAN
    PROVE  /\ Container(m, p, s) \in Containers
           /\ Container(m, p, s).mach = m /\ Container(m, p, s).pic = p
           /\ Container(m, p, s).synced = s
           /\ Container(m, p, TRUE) \in Whole
  BY DEF Container, Containers, Whole

LEMMA Sizes == \A f : Size(f) \in Nat
  BY DEF Size

\* A power loss does nothing to a whole file.
LEMMA WholeStays ==
    ASSUME NEW f \in Whole
    PROVE  AfterPowerLoss(f) = f /\ f # Torn /\ f \in Containers \cup {NoFile, Torn}
  BY Constants DEF Whole, Containers, AfterPowerLoss, Torn, Container

LEMMA Flushed ==
    ASSUME TypeOK, FlushOk \/ FlushFailed
    PROVE  /\ sram' \in SUBSET Rams /\ sram' # {}
           /\ sram' \subseteq sram \cup {Ram[mach]}
  BY Constants DEF TypeOK, FlushOk, FlushFailed

-----------------------------------------------------------------------------
(* Types *)

LEMMA TypeInit == Init => TypeOK
<1> SUFFICES ASSUME Init PROVE TypeOK
  OBVIOUS
<1>1. mach \in Machines /\ sram \in SUBSET Rams /\ sram # {}
  BY Constants DEF Init
<1>2. /\ seen \in [Slots -> Containers \cup {NoFile, Torn}] /\ stable = seen
      /\ ops \in 0..MaxOps /\ restarts \in 0..MaxRestarts
  BY Constants DEF Init
<1>. QED BY <1>1, <1>2 DEF Init, TypeOK

\* A new process loads the game.
LEMMA Reloads ==
    ASSUME TypeOK, NEW r \in Rams, Reload(r),
           sram' \in SUBSET Rams, sram' # {}, litter' \in Nat,
           restarts' \in 0..MaxRestarts, dirFsync' \in BOOLEAN,
           seen' \in [Slots -> Containers \cup {NoFile, Torn}],
           stable' \in [Slots -> Containers \cup {NoFile, Torn}]
    PROVE  TypeOK'
<1>1. /\ mach' \in Machines /\ picture' = FALSE /\ running' = TRUE
      /\ paused' = FALSE /\ leftover' = FALSE
      /\ temp' = NoFile /\ orphans' = 0 /\ cleaned' = FALSE /\ op' = NoOp
      /\ held' = NoFile /\ backup' = NoFile /\ ops' = ops /\ ops \in 0..MaxOps
  BY Constants DEF TypeOK, Reload
<1>. QED BY <1>1 DEF TypeOK

LEMMA TypeSteps ==
    ASSUME Inv, [Next]_vars PROVE TypeOK'
<1>. USE Constants, Sizes DEF Inv, TypeOK
<1>. USE DEF consoleVars, fileVars, cmdVars, routerVars, Goto, End
<1>1. CASE Begin
  BY <1>1 DEF Begin
<1>2. CASE OpenDirectory \/ Scan \/ EarlyError \/ CheckCapacity \/ OverQuota
  BY <1>2 DEF OpenDirectory, Scan, EarlyError, Fail, CheckCapacity, OverQuota
<1>3. CASE CleanTemps
  <2>0. /\ litter' \in {litter, 0} \/ litter' \in 0..litter
        /\ orphans' \in {orphans, 0} \/ orphans' \in 0..orphans
        /\ cleaned' = TRUE \/ cleaned' = cleaned
    BY <1>3, Zenon DEF CleanTemps
  <2>1. litter' \in Nat
    BY <2>0
  <2>3. orphans' \in Nat
    BY <2>0
  <2>4. cleaned' \in BOOLEAN
    BY <2>0
  <2>2. UNCHANGED <<consoleVars, sram, seen, stable, temp, op, held, backup, ops,
                    routerVars>>
    BY <1>3, Zenon DEF CleanTemps
  <2>. QED BY <2>1, <2>2, <2>3, <2>4
<1>4. CASE SaveFlush \/ FlushBeforeLoad
  BY <1>4, Flushed DEF SaveFlush, FlushBeforeLoad
<1>5. CASE Serialize
  BY <1>5, ContainerTyped DEF Serialize
<1>6. CASE WriteTemp \/ SyncTemp
  <2>1. CASE WriteTemp
    BY <2>1 DEF WriteTemp
  <2>2. CASE SyncTemp
    <3>0. temp = Container(mach, picture, FALSE)
      BY <2>2 DEF SyncTemp, SaveOK, PathOK
    <3>1. temp' = Container(mach, picture, TRUE)
      BY <2>2, <3>0, ContainerTyped DEF SyncTemp
    <3>2. temp' \in Containers
      BY <3>1, ContainerTyped
    <3>. QED BY <2>2, <3>2 DEF SyncTemp
  <2>. QED BY <1>6, <2>1, <2>2
<1>7. CASE RenameTemp
  <2>0. temp = Container(mach, picture, TRUE)
    BY <1>7 DEF RenameTemp, SaveOK, PathOK
  <2>1. temp \in Containers
    BY <2>0, ContainerTyped
  <2>2. seen' \in [Slots -> Containers \cup {NoFile, Torn}] /\ temp' = NoFile
    BY <1>7, <2>1 DEF RenameTemp
  <2>. QED BY <1>7, <2>2 DEF RenameTemp
<1>8. CASE AbandonTemp
  BY <1>8 DEF AbandonTemp
<1>9. CASE SyncDirectory \/ Unlink
  BY <1>9 DEF SyncDirectory, Unlink
<1>10. CASE ReadFile \/ TakeBackup
  BY <1>10 DEF ReadFile, TakeBackup
<1>11. CASE Unserialize
  BY <1>11 DEF Unserialize, LoadOK, PathOK, Containers
<1>12. CASE FlushLoaded \/ FlushRestored
  BY <1>12, Flushed DEF FlushLoaded, FlushRestored, LoadOK, PathOK, Containers
<1>13. CASE RestoreBackup
  BY <1>13 DEF RestoreBackup, LoadOK, PathOK
<1>14. CASE RunFrame \/ SetJoy
  BY <1>14 DEF RunFrame, SetJoy
<1>15. CASE Pause
  BY <1>15, Flushed DEF Pause
<1>16. CASE Kill
  <2>1. PICK r \in sram : Reload(r)
    BY <1>16 DEF Kill
  <2>2. /\ litter' \in Nat /\ restarts' \in 0..MaxRestarts /\ dirFsync' \in BOOLEAN
        /\ UNCHANGED <<sram, seen, stable>>
    BY <1>16 DEF Kill
  <2>3. /\ sram' \in SUBSET Rams /\ sram' # {}
        /\ seen' \in [Slots -> Containers \cup {NoFile, Torn}]
        /\ stable' \in [Slots -> Containers \cup {NoFile, Torn}]
    BY <2>2
  <2>. HIDE DEF Inv, TypeOK
  <2>. QED BY <2>1, <2>2, <2>3, Reloads DEF Inv
<1>17. CASE PowerLoss
  <2>1. seen' \in [Slots -> Containers \cup {NoFile, Torn}]
    BY <1>17, WholeStays DEF PowerLoss, FilesOK
  <2>2. PICK r \in Rams : Reload(r) /\ sram' = {r}
    BY <1>17 DEF PowerLoss
  <2>3. /\ litter' \in Nat /\ restarts' \in 0..MaxRestarts /\ dirFsync' \in BOOLEAN
        /\ stable' = seen'
    BY <1>17 DEF PowerLoss
  <2>4. sram' \in SUBSET Rams /\ sram' # {}
    BY <2>2
  <2>. HIDE DEF Inv, TypeOK
  <2>. QED BY <2>1, <2>2, <2>3, <2>4, Reloads DEF Inv
<1>18. CASE UNCHANGED vars
  BY <1>18 DEF vars
<1>. QED BY <1>1, <1>2, <1>3, <1>4, <1>5, <1>6, <1>7, <1>8, <1>9, <1>10, <1>11,
            <1>12, <1>13, <1>14, <1>15, <1>16, <1>17, <1>18 DEF Next, CommandStep

-----------------------------------------------------------------------------
(* Where a command is *)

LEMMA PathSteps ==
    ASSUME Inv, [Next]_vars PROVE PathOK'
<1>. USE DEF Inv, PathOK, Pcs, Goto, End
<1>1. CASE Begin
  <2>1. op'.name \in {"save", "load", "delete", "list"}
    BY <1>1 DEF Begin, Operations
  <2>. QED BY <1>1, <2>1 DEF Begin
<1>2. CASE OpenDirectory \/ Scan \/ EarlyError \/ CheckCapacity \/ OverQuota
  BY <1>2 DEF OpenDirectory, Scan, EarlyError, Fail, CheckCapacity, OverQuota
<1>3. CASE CleanTemps
  BY <1>3 DEF CleanTemps
<1>4. CASE SaveFlush \/ Serialize \/ WriteTemp \/ SyncTemp \/ RenameTemp \/ AbandonTemp
  BY <1>4 DEF SaveFlush, Serialize, WriteTemp, SyncTemp, RenameTemp, AbandonTemp
<1>5. CASE SyncDirectory \/ Unlink
  BY <1>5 DEF SyncDirectory, Unlink
<1>6. CASE ReadFile \/ TakeBackup \/ FlushBeforeLoad \/ Unserialize \/ FlushLoaded
  BY <1>6 DEF ReadFile, TakeBackup, FlushBeforeLoad, Unserialize, FlushLoaded
<1>7. CASE RestoreBackup \/ FlushRestored
  BY <1>7 DEF RestoreBackup, FlushRestored
<1>8. CASE RunFrame \/ SetJoy \/ Pause
  BY <1>8 DEF RunFrame, SetJoy, Pause, cmdVars
<1>9. CASE Kill \/ PowerLoss
  BY <1>9 DEF Kill, PowerLoss, Reload
<1>10. CASE UNCHANGED vars
  BY <1>10 DEF vars, cmdVars
<1>. QED BY <1>1, <1>2, <1>3, <1>4, <1>5, <1>6, <1>7, <1>8, <1>9, <1>10
         DEF Next, CommandStep

-----------------------------------------------------------------------------
(* What a save has done *)

LEMMA SaveSteps ==
    ASSUME Inv, [Next]_vars PROVE SaveOK'
<1>. USE DEF Inv, PathOK, SaveOK, Goto, End, consoleVars, fileVars, cmdVars
<1>1. CASE Begin
  BY <1>1 DEF Begin
<1>2. CASE OpenDirectory \/ Scan \/ EarlyError \/ CheckCapacity \/ OverQuota
  BY <1>2 DEF OpenDirectory, Scan, EarlyError, Fail, CheckCapacity, OverQuota
<1>3. CASE CleanTemps
  BY <1>3 DEF CleanTemps
<1>4. CASE SaveFlush
  BY <1>4 DEF SaveFlush, FlushOk
<1>5. CASE Serialize \/ WriteTemp
  BY <1>5 DEF Serialize, WriteTemp
<1>6. CASE SyncTemp
  <2>1. temp = Container(mach, picture, FALSE)
    BY <1>6 DEF SyncTemp
  <2>2. temp.mach = mach /\ temp.pic = picture
    BY <2>1, ContainerTyped DEF TypeOK
  <2>. QED BY <1>6, <2>2 DEF SyncTemp
<1>7. CASE RenameTemp \/ AbandonTemp
  BY <1>7 DEF RenameTemp, AbandonTemp
<1>8. CASE SyncDirectory
  BY <1>8 DEF SyncDirectory
<1>9. CASE Unlink
  BY <1>9 DEF Unlink
<1>10. CASE ReadFile \/ TakeBackup \/ FlushBeforeLoad \/ Unserialize \/ FlushLoaded
  BY <1>10 DEF ReadFile, TakeBackup, FlushBeforeLoad, Unserialize, FlushLoaded
<1>11. CASE RestoreBackup \/ FlushRestored
  BY <1>11 DEF RestoreBackup, FlushRestored
<1>12. CASE RunFrame \/ SetJoy \/ Pause
  BY <1>12 DEF RunFrame, SetJoy, Pause
<1>13. CASE Kill \/ PowerLoss
  BY <1>13 DEF Kill, PowerLoss, Reload
<1>14. CASE UNCHANGED vars
  BY <1>14 DEF vars
<1>. QED BY <1>1, <1>2, <1>3, <1>4, <1>5, <1>6, <1>7, <1>8, <1>9, <1>10, <1>11,
            <1>12, <1>13, <1>14 DEF Next, CommandStep

-----------------------------------------------------------------------------
(* What a load has done *)

LEMMA LoadSteps ==
    ASSUME Inv, [Next]_vars PROVE LoadOK'
<1>. USE DEF Inv, PathOK, LoadOK, Goto, End, consoleVars, fileVars, cmdVars
<1>1. CASE Begin
  BY <1>1 DEF Begin
<1>2. CASE OpenDirectory \/ Scan \/ EarlyError \/ CheckCapacity \/ OverQuota
  BY <1>2 DEF OpenDirectory, Scan, EarlyError, Fail, CheckCapacity, OverQuota
<1>3. CASE CleanTemps
  BY <1>3 DEF CleanTemps
<1>4. CASE SaveFlush \/ Serialize \/ WriteTemp \/ SyncTemp \/ RenameTemp \/ AbandonTemp
  BY <1>4 DEF SaveFlush, Serialize, WriteTemp, SyncTemp, RenameTemp, AbandonTemp
<1>5. CASE SyncDirectory \/ Unlink
  BY <1>5 DEF SyncDirectory, Unlink
<1>6. CASE ReadFile \/ TakeBackup
  BY <1>6 DEF ReadFile, TakeBackup, TypeOK
<1>7. CASE FlushBeforeLoad
  BY <1>7, Flushed DEF FlushBeforeLoad
<1>8. CASE Unserialize \/ FlushLoaded
  BY <1>8 DEF Unserialize, FlushLoaded
<1>9. CASE RestoreBackup \/ FlushRestored
  BY <1>9 DEF RestoreBackup, FlushRestored
<1>10. CASE RunFrame \/ SetJoy \/ Pause
  BY <1>10 DEF RunFrame, SetJoy, Pause
<1>11. CASE Kill \/ PowerLoss
  BY <1>11 DEF Kill, PowerLoss, Reload
<1>12. CASE UNCHANGED vars
  BY <1>12 DEF vars
<1>. QED BY <1>1, <1>2, <1>3, <1>4, <1>5, <1>6, <1>7, <1>8, <1>9, <1>10, <1>11,
            <1>12 DEF Next, CommandStep

-----------------------------------------------------------------------------
(* Files, and what was promised of them *)

LEMMA FilesKept ==
    ASSUME FilesOK, UNCHANGED <<seen, stable, promised, dirFsync>>, pc' # "changed"
    PROVE  FilesOK'
  BY DEF FilesOK, DurableIsStable

LEMMA RenameKeeps ==
    ASSUME Inv, RenameTemp PROVE FilesOK'
<1>1. op.slot \in Slots /\ temp \in Whole
  <2>1. op.name = "save" /\ temp = Container(mach, picture, TRUE)
    BY DEF Inv, RenameTemp, PathOK, SaveOK
  <2>2. op.slot \in Slots
    BY <2>1, OpTyped DEF Inv, TypeOK
  <2>3. temp \in Whole
    BY <2>1, ContainerTyped DEF Inv, TypeOK
  <2>. QED BY <2>2, <2>3
<1>. QED BY <1>1 DEF Inv, FilesOK, DurableIsStable, RenameTemp, Goto,
            routerVars

LEMMA UnlinkKeeps ==
    ASSUME Inv, Unlink PROVE FilesOK'
<1>1. op.slot \in Slots
  BY OpTyped DEF Inv, Unlink, PathOK, TypeOK
<1>2. NoFile \in Whole
  BY DEF Whole
<1>. QED BY <1>1, <1>2 DEF Inv, FilesOK, DurableIsStable, Unlink, Goto,
            routerVars

LEMMA SyncKeeps ==
    ASSUME Inv, SyncDirectory PROVE FilesOK'
<1>1. op.slot \in Slots
  BY OpTyped DEF Inv, SyncDirectory, PathOK, TypeOK
<1>. QED BY <1>1 DEF Inv, FilesOK, DurableIsStable, SyncDirectory, End,
            routerVars

\* What was promised is in sight and on the medium: a power loss finds it, or
\* there is no promise any more.
LEMMA PowerLossKeeps ==
    ASSUME Inv, PowerLoss PROVE FilesOK'
<1>1. PICK reached \in SUBSET Slots :
        seen' = [s \in Slots |-> IF s \in reached
                                 THEN AfterPowerLoss(seen[s]) ELSE stable[s]]
  BY DEF PowerLoss
<1>2. /\ stable' = seen' /\ dirFsync' = dirFsync /\ pc' = "idle"
      /\ promised' = IF dirFsync THEN promised ELSE [s \in Slots |-> Unknown]
  BY DEF PowerLoss, Reload
<1>3. \A s \in Slots : seen'[s] = IF s \in reached THEN seen[s] ELSE stable[s]
  BY <1>1, WholeStays DEF Inv, FilesOK
<1>4. seen' \in [Slots -> Whole]
  BY <1>1, <1>3 DEF Inv, FilesOK
<1>. QED BY <1>2, <1>3, <1>4 DEF Inv, FilesOK, DurableIsStable

LEMMA FilesSteps ==
    ASSUME Inv, [Next]_vars PROVE FilesOK'
<1>1. FilesOK
  BY DEF Inv
<1>2. CASE RenameTemp \/ Unlink \/ SyncDirectory \/ PowerLoss
  BY <1>2, RenameKeeps, UnlinkKeeps, SyncKeeps, PowerLossKeeps
<1>3. CASE Begin \/ RunFrame \/ SetJoy \/ Pause \/ Kill
  BY <1>1, <1>3, FilesKept DEF Begin, RunFrame, SetJoy, Pause, Kill, Reload, fileVars,
     routerVars
<1>4. CASE OpenDirectory \/ Scan \/ EarlyError \/ CheckCapacity \/ OverQuota
  BY <1>1, <1>4, FilesKept DEF OpenDirectory, Scan, EarlyError, Fail,
     CheckCapacity, OverQuota, Goto, End, fileVars, routerVars
<1>9. CASE CleanTemps
  <2>1. pc' # "changed"
    BY <1>9 DEF CleanTemps, Goto, End, Inv, PathOK
  <2>2. UNCHANGED <<seen, stable, promised, dirFsync>>
    BY <1>9, Zenon DEF CleanTemps, routerVars
  <2>. QED BY <1>1, <2>1, <2>2, FilesKept
<1>5. CASE SaveFlush \/ Serialize \/ WriteTemp \/ SyncTemp \/ AbandonTemp
  BY <1>1, <1>5, FilesKept DEF SaveFlush, Serialize, WriteTemp, SyncTemp, AbandonTemp,
     Goto, End, fileVars, routerVars
<1>6. CASE ReadFile \/ TakeBackup \/ FlushBeforeLoad \/ Unserialize \/ FlushLoaded
  BY <1>1, <1>6, FilesKept DEF ReadFile, TakeBackup, FlushBeforeLoad, Unserialize,
     FlushLoaded, Goto, End, fileVars, routerVars
<1>7. CASE RestoreBackup \/ FlushRestored
  BY <1>1, <1>7, FilesKept DEF RestoreBackup, FlushRestored, Goto, End, fileVars,
     routerVars
<1>8. CASE UNCHANGED vars
  BY <1>8 DEF Inv, FilesOK, DurableIsStable, vars, fileVars, cmdVars,
            routerVars
<1>. QED BY <1>2, <1>3, <1>4, <1>5, <1>6, <1>7, <1>8, <1>9
         DEF Next, CommandStep

LEMMA InvInit == Init => Inv
<1> SUFFICES ASSUME Init PROVE Inv
  OBVIOUS
<1>1. NoFile \in Whole
  BY DEF Whole
<1>2. FilesOK
  BY <1>1 DEF Init, FilesOK, DurableIsStable
<1>. QED BY <1>2, TypeInit DEF Init, Inv, PathOK, SaveOK, LoadOK, Pcs

LEMMA InvHolds == Spec => []Inv
<1>1. Inv /\ [Next]_vars => Inv'
  BY TypeSteps, PathSteps, SaveSteps, LoadSteps, FilesSteps DEF Inv
<1>. QED BY <1>1, InvInit, PTL DEF Spec

-----------------------------------------------------------------------------
(* Sizes *)

\* A file leaves the total of the others.
LEMMA UsageSplit ==
    ASSUME NEW f, NEW S, IsFiniteSet(S), NEW x \in S
    PROVE  /\ Usage(f, S) \in Nat /\ Usage(f, S \ {x}) \in Nat
           /\ Usage(f, S) = Usage(f, S \ {x}) + Size(f[x])
<1> DEFINE A(T) == {s \in T : f[s] # NoFile}
           B(T) == {s \in T : f[s] # NoFile /\ f[s].pic}
           y == x
<1>1. /\ IsFiniteSet(A(S)) /\ IsFiniteSet(B(S))
      /\ Cardinality(A(S)) \in Nat /\ Cardinality(B(S)) \in Nat
  BY FS_Subset, FS_CardinalityType
<1>2. A(S \ {x}) = A(S) \ {x} /\ B(S \ {x}) = B(S) \ {x}
  OBVIOUS
<1>3. /\ x \in A(S) <=> f[x] # NoFile
      /\ x \in B(S) <=> f[x] # NoFile /\ f[x].pic
  OBVIOUS
<1>4. /\ Usage(f, S) = Cardinality(A(S)) + Cardinality(B(S))
      /\ Usage(f, S \ {x}) = Cardinality(A(S \ {x})) + Cardinality(B(S \ {x}))
  BY DEF Usage
<1> HIDE DEF A, B
<1>5. /\ Cardinality(A(S) \ {x}) = IF x \in A(S) THEN Cardinality(A(S)) - 1
                                   ELSE Cardinality(A(S))
      /\ IsFiniteSet(A(S) \ {x}) /\ Cardinality(A(S) \ {x}) \in Nat
  BY <1>1, FS_RemoveElement, FS_CardinalityType
<1>6. /\ Cardinality(B(S) \ {x}) = IF x \in B(S) THEN Cardinality(B(S)) - 1
                                   ELSE Cardinality(B(S))
      /\ IsFiniteSet(B(S) \ {x}) /\ Cardinality(B(S) \ {x}) \in Nat
  BY <1>1, FS_RemoveElement, FS_CardinalityType
<1>7. CASE f[x] = NoFile
  BY <1>1, <1>2, <1>3, <1>4, <1>5, <1>6, <1>7 DEF Size
<1>8. CASE f[x] # NoFile /\ f[x].pic
  <2>1. Size(f[x]) = 2
    BY <1>8 DEF Size
  <2>2. x \in A(S) /\ x \in B(S)
    BY <1>3, <1>8
  <2>3. /\ Cardinality(A(S \ {x})) = Cardinality(A(S)) - 1
        /\ Cardinality(A(S \ {x})) \in Nat
    BY <1>2, <1>5, <2>2
  <2>4. /\ Cardinality(B(S \ {x})) = Cardinality(B(S)) - 1
        /\ Cardinality(B(S \ {x})) \in Nat
    BY <1>2, <1>6, <2>2
  <2>5. QED
    BY <1>1, <1>4, <2>1, <2>3, <2>4
<1>9. CASE f[x] # NoFile /\ ~f[x].pic
  <2>1. Size(f[x]) = 1
    BY <1>9 DEF Size
  <2>2. x \in A(S) /\ ~(x \in B(S))
    BY <1>3, <1>9
  <2>3. /\ Cardinality(A(S \ {x})) = Cardinality(A(S)) - 1
        /\ Cardinality(A(S \ {x})) \in Nat
    BY <1>2, <1>5, <2>2
  <2>4. /\ Cardinality(B(S \ {x})) = Cardinality(B(S))
        /\ Cardinality(B(S \ {x})) \in Nat
    BY <1>2, <1>6, <2>2
  <2>5. QED
    BY <1>1, <1>4, <2>1, <2>3, <2>4
<1>10. QED
  BY <1>7, <1>8, <1>9

\* Fewer files are not larger.
LEMMA UsageSubset ==
    ASSUME NEW f, NEW S, IsFiniteSet(S), NEW T \in SUBSET S
    PROVE  /\ Usage(f, T) \in Nat /\ Usage(f, S) \in Nat
           /\ Usage(f, T) <= Usage(f, S)
<1> DEFINE A(U) == {s \in U : f[s] # NoFile}
           B(U) == {s \in U : f[s] # NoFile /\ f[s].pic}
<1>1. /\ IsFiniteSet(A(S)) /\ IsFiniteSet(B(S))
      /\ A(T) \in SUBSET A(S) /\ B(T) \in SUBSET B(S)
  BY FS_Subset
<1>2. /\ Usage(f, S) = Cardinality(A(S)) + Cardinality(B(S))
      /\ Usage(f, T) = Cardinality(A(T)) + Cardinality(B(T))
  BY DEF Usage
<1> HIDE DEF A, B
<1>3. /\ IsFiniteSet(A(T)) /\ Cardinality(A(T)) <= Cardinality(A(S))
      /\ IsFiniteSet(B(T)) /\ Cardinality(B(T)) <= Cardinality(B(S))
  BY <1>1, FS_Subset
<1>4. /\ Cardinality(A(S)) \in Nat /\ Cardinality(B(S)) \in Nat
      /\ Cardinality(A(T)) \in Nat /\ Cardinality(B(T)) \in Nat
  BY <1>1, <1>3, FS_CardinalityType
<1>5. QED
  BY <1>2, <1>3, <1>4

\* Only the files themselves count.
LEMMA UsageSame ==
    ASSUME NEW f, NEW g, NEW S, \A s \in S : f[s] = g[s]
    PROVE  Usage(f, S) = Usage(g, S)
<1>1. /\ {s \in S : f[s] # NoFile} = {s \in S : g[s] # NoFile}
      /\ {s \in S : f[s] # NoFile /\ f[s].pic}
           = {s \in S : g[s] # NoFile /\ g[s].pic}
  OBVIOUS
<1>2. QED
  BY <1>1 DEF Usage

LEMMA SizeBound ==
    \A f : Size(f) \in Nat /\ Size(f) <= 2 /\ Size(NoFile) = 0
BY DEF Size

\* Syncing a container does not change its size.
LEMMA ContainerSize ==
    ASSUME NEW m \in Machines, NEW p \in BOOLEAN, NEW b \in BOOLEAN
    PROVE  Size(Container(m, p, b)) = Size(Container(m, p, FALSE))
<1>1. /\ Container(m, p, b) \in Containers /\ Container(m, p, b).pic = p
      /\ Container(m, p, FALSE) \in Containers /\ Container(m, p, FALSE).pic = p
  BY ContainerTyped
<1>2. NoFile \notin Containers
  BY SaveStatesAssumption
<1>3. Container(m, p, b) # NoFile /\ Container(m, p, FALSE) # NoFile
  BY <1>1, <1>2
<1>4. QED
  BY <1>1, <1>3 DEF Size

-----------------------------------------------------------------------------
(* The quota *)

\* Slots of which it is known what a reader will find
Known == {s \in Slots : promised[s] # Unknown}

\* The quota holds for the known slots; for all of them only from the check
\* to the end of a save, which is where the check counts on it.
QuotaOK ==
    /\ temp # NoFile => pc \in {"written", "synced"}
    /\ Usage(seen, Known) <= Quota
    /\ Usage(seen, Known) + litter + orphans + Size(temp) <= Quota + 2
    /\ pc \in {"create", "written", "synced"} => Fits
    /\ pc = "changed" /\ op.name = "save" => Stored + litter + orphans <= Quota
    /\ pc = "changed" /\ op.name = "delete" => seen[op.slot] = NoFile

LEMMA QuotaFacts ==
    ASSUME Inv, QuotaOK
    PROVE  /\ litter \in Nat /\ orphans \in Nat /\ Quota \in Nat
           /\ IsFiniteSet(Slots) /\ Known \in SUBSET Slots /\ IsFiniteSet(Known)
           /\ Stored \in Nat /\ Usage(seen, Known) \in Nat
           /\ Usage(seen, Known) <= Stored
<1>1. IsFiniteSet(Slots) /\ Known \in SUBSET Slots
  BY SaveStatesAssumption DEF Known
<1>2. IsFiniteSet(Known)
  BY <1>1, FS_Subset
<1>3. QED
  BY <1>1, <1>2, UsageSubset, SaveStatesAssumption DEF Inv, TypeOK, Stored

\* Steps that change no slot: the temporaries may move, be removed, or wait
\* for the next start.
LEMMA QuotaKept ==
    ASSUME Inv, QuotaOK, UNCHANGED <<seen, promised>>,
           litter' \in Nat, orphans' \in Nat,
           litter' + orphans' + Size(temp') <= litter + orphans + Size(temp),
           temp' # NoFile => pc' \in {"written", "synced"},
           pc' \in {"create", "written", "synced"} => Fits',
           pc' # "changed"
    PROVE  QuotaOK'
<1>1. Known' = Known
  BY DEF Known
<1>2. Size(temp) \in Nat /\ Size(temp)' \in Nat
  BY SizeBound
<1>3. Usage(seen, Known)' = Usage(seen, Known)
  BY <1>1
<1>4. QED
  BY <1>2, <1>3, QuotaFacts DEF QuotaOK

\* The check of a save counts all but the file it will replace.
LEMMA QuotaChecked == ASSUME Inv, QuotaOK, CheckCapacity PROVE QuotaOK'
<1>1. /\ Fits /\ pc' = "create" /\ pc = "capacity"
      /\ UNCHANGED <<seen, promised, litter, orphans, temp, op, held>>
  BY DEF CheckCapacity, Goto, fileVars
<1>2. Fits'
  BY <1>1 DEF Fits, Stored, Usage
<1>3. temp = NoFile
  BY <1>1 DEF QuotaOK
<1>4. QED
  BY <1>1, <1>2, <1>3, QuotaKept, QuotaFacts, SizeBound

\* The temporary takes what the check allowed, and no more.
LEMMA QuotaTemp ==
    ASSUME Inv, QuotaOK, WriteTemp \/ SyncTemp PROVE QuotaOK'
<1>1. /\ pc \in {"create", "written"} /\ pc' \in {"written", "synced"}
      /\ UNCHANGED <<seen, promised, litter, orphans, op, held>>
      /\ op.name = "save" /\ op.slot \in Slots
  <2>1. /\ pc \in {"create", "written"} /\ pc' \in {"written", "synced"}
        /\ UNCHANGED <<seen, promised, litter, orphans, op, held>>
    BY DEF WriteTemp, SyncTemp, Goto
  <2>2. op.name = "save"
    BY <2>1 DEF Inv, PathOK
  <2>3. QED
    BY <2>1, <2>2, OpTyped DEF Inv, TypeOK
<1>2. Fits'
  BY <1>1 DEF QuotaOK, Fits, Stored, Usage
<1>3. Size(temp') = Size(held) /\ Size(held) \in Nat
  <2>1. held = Container(mach, picture, FALSE) /\ mach \in Machines
    BY <1>1 DEF Inv, TypeOK, SaveOK
  <2>2. pc = "written" => temp = Container(mach, picture, FALSE)
    BY <1>1 DEF Inv, SaveOK
  <2>3. temp' = held \/ temp' = Container(mach, picture, TRUE)
    BY <2>1, <2>2 DEF WriteTemp, SyncTemp, Container
  <2>4. \A b \in BOOLEAN :
          Size(Container(mach, picture, b)) = Size(Container(mach, picture, FALSE))
    BY <2>1, ContainerSize DEF Inv, TypeOK
  <2>5. QED
    BY <2>1, <2>3, <2>4, SizeBound
<1>4. Usage(seen, Known)' = Usage(seen, Known)
  BY <1>1 DEF Known, Usage
<1>5. Stored - Size(seen[op.slot]) + litter + orphans + Size(held) <= Quota
  <2>1. Fits /\ Size(seen[op.slot]) \in Nat
    BY <1>1, SizeBound DEF QuotaOK
  <2>2. QED
    BY <1>3, <2>1, QuotaFacts DEF Fits
<1>6. Usage(seen, Known) + litter + orphans + Size(temp') <= Quota + 2
  BY <1>3, <1>5, QuotaFacts, SizeBound
<1>7. QED
  BY <1>1, <1>2, <1>4, <1>6 DEF QuotaOK

\* The rename makes room for itself.
LEMMA QuotaRenamed == ASSUME Inv, QuotaOK, RenameTemp PROVE QuotaOK'
<1>1. /\ pc = "synced" /\ pc' = "changed" /\ temp' = NoFile
      /\ seen' = [seen EXCEPT ![op.slot] = temp]
      /\ promised' = [promised EXCEPT ![op.slot] = Unknown]
      /\ UNCHANGED <<litter, orphans, op>>
      /\ op.name = "save" /\ op.slot \in Slots
      /\ DOMAIN promised = Slots /\ DOMAIN seen = Slots
  <2>1. /\ pc = "synced" /\ pc' = "changed" /\ temp' = NoFile
        /\ seen' = [seen EXCEPT ![op.slot] = temp]
        /\ promised' = [promised EXCEPT ![op.slot] = Unknown]
        /\ UNCHANGED <<litter, orphans, op>>
    BY DEF RenameTemp, Goto
  <2>2. op.name = "save"
    BY <2>1 DEF Inv, PathOK
  <2>3. DOMAIN promised = Slots /\ DOMAIN seen = Slots
    BY DEF Inv, TypeOK, FilesOK
  <2>4. QED
    BY <2>1, <2>2, <2>3, OpTyped DEF Inv, TypeOK
<1> DEFINE x == op.slot
<1>2. Size(temp) = Size(held)
  <2>1. /\ held = Container(mach, picture, FALSE) /\ mach \in Machines
        /\ temp = Container(mach, picture, TRUE)
    BY <1>1 DEF Inv, TypeOK, SaveOK
  <2>2. \A b \in BOOLEAN :
          Size(Container(mach, picture, b)) = Size(Container(mach, picture, FALSE))
    BY <2>1, ContainerSize DEF Inv, TypeOK
  <2>3. QED
    BY <2>1, <2>2
<1>3. /\ Stored = Usage(seen, Slots \ {x}) + Size(seen[x])
      /\ Usage(seen, Slots \ {x}) \in Nat
  BY <1>1, QuotaFacts, UsageSplit DEF Stored
<1>4. /\ Stored' = Usage(seen', Slots \ {x}) + Size(seen'[x])
  BY <1>1, QuotaFacts, UsageSplit DEF Stored
<1>5. Usage(seen', Slots \ {x}) = Usage(seen, Slots \ {x}) /\ seen'[x] = temp
  BY <1>1, UsageSame
<1>6. /\ Stored' + litter + orphans <= Quota /\ Stored' \in Nat
  <2>1. Fits /\ Size(seen[x]) \in Nat /\ Size(held) \in Nat
    BY <1>1, SizeBound DEF QuotaOK
  <2>2. QED
    BY <1>2, <1>3, <1>4, <1>5, <2>1, QuotaFacts DEF Fits
<1>7. Known' \in SUBSET Slots
  BY DEF Known
<1>8. Usage(seen', Known') <= Stored' /\ Usage(seen', Known') \in Nat
  BY <1>7, QuotaFacts, UsageSubset DEF Stored
<1>9. QED
  BY <1>1, <1>6, <1>8, QuotaFacts, SizeBound DEF QuotaOK

\* A deletion frees what it removes.
LEMMA QuotaUnlinked == ASSUME Inv, QuotaOK, Unlink PROVE QuotaOK'
<1>1. /\ pc = "unlink" /\ pc' = "changed"
      /\ seen' = [seen EXCEPT ![op.slot] = NoFile]
      /\ promised' = [promised EXCEPT ![op.slot] = Unknown]
      /\ UNCHANGED <<temp, litter, orphans, op>>
      /\ op.name = "delete" /\ op.slot \in Slots
      /\ DOMAIN promised = Slots /\ DOMAIN seen = Slots
  <2>1. /\ pc = "unlink" /\ pc' = "changed"
        /\ seen' = [seen EXCEPT ![op.slot] = NoFile]
        /\ promised' = [promised EXCEPT ![op.slot] = Unknown]
        /\ UNCHANGED <<temp, litter, orphans, op>>
    BY DEF Unlink, Goto
  <2>2. op.name = "delete"
    BY <2>1 DEF Inv, PathOK
  <2>3. DOMAIN promised = Slots /\ DOMAIN seen = Slots
    BY DEF Inv, TypeOK, FilesOK
  <2>4. QED
    BY <2>1, <2>2, <2>3, OpTyped DEF Inv, TypeOK
<1> DEFINE K == Known'
<1>2. K \in SUBSET Known /\ \A s \in K : seen'[s] = seen[s]
  BY <1>1 DEF Known
<1>3. Usage(seen', K) = Usage(seen, K)
  BY <1>2, UsageSame
<1>4. Usage(seen, K) \in Nat /\ Usage(seen, K) <= Usage(seen, Known)
  BY <1>2, QuotaFacts, UsageSubset
<1>5. temp = NoFile /\ Size(temp) \in Nat
  BY <1>1, SizeBound DEF QuotaOK
<1>6. seen'[op.slot] = NoFile
  BY <1>1
<1>7. /\ Usage(seen', K) <= Quota
      /\ Usage(seen', K) + litter + orphans + Size(temp) <= Quota + 2
  BY <1>3, <1>4, <1>5, QuotaFacts DEF QuotaOK
<1>8. QED
  BY <1>1, <1>5, <1>6, <1>7 DEF QuotaOK

\* What becomes known at the end of a save was checked, and what becomes
\* known at the end of a deletion is nothing.
LEMMA QuotaSynced == ASSUME Inv, QuotaOK, SyncDirectory PROVE QuotaOK'
<1>1. /\ pc = "changed" /\ pc' = "idle"
      /\ UNCHANGED <<seen, temp, litter, orphans>>
      /\ promised' \in {promised,
                        [promised EXCEPT ![op.slot] = seen[op.slot]]}
      /\ op.name \in {"save", "delete"} /\ op.slot \in Slots
      /\ DOMAIN promised = Slots
  <2>1. /\ pc = "changed" /\ pc' = "idle"
        /\ UNCHANGED <<seen, temp, litter, orphans>>
        /\ promised' \in {promised,
                          [promised EXCEPT ![op.slot] = seen[op.slot]]}
    BY DEF SyncDirectory, End
  <2>2. op.name \in {"save", "delete"}
    BY <2>1 DEF Inv, PathOK
  <2>3. DOMAIN promised = Slots
    BY DEF Inv, FilesOK
  <2>4. QED
    BY <2>1, <2>2, <2>3, OpTyped DEF Inv, TypeOK
<1> DEFINE K == Known'
           x == op.slot
<1>2. K \in SUBSET Slots /\ K \ {x} \in SUBSET Known
  BY <1>1 DEF Known
<1>3. temp = NoFile /\ Size(temp) = 0
  BY <1>1, SizeBound DEF QuotaOK
<1>4. IsFiniteSet(K) /\ Usage(seen, K) \in Nat /\ Usage(seen, K) <= Stored
  BY <1>2, QuotaFacts, UsageSubset, FS_Subset DEF Stored
<1>5. /\ Usage(seen, K) <= Quota
      /\ Usage(seen, K) + litter + orphans <= Quota + 2
  <2>1. CASE op.name = "save"
    BY <1>1, <1>4, <2>1, QuotaFacts DEF QuotaOK
  <2>2. CASE op.name = "delete"
    <3>1. Size(seen[x]) = 0
      BY <1>1, <2>2, SizeBound DEF QuotaOK
    <3>2. /\ Usage(seen, K \ {x}) \in Nat
          /\ Usage(seen, K \ {x}) <= Usage(seen, Known)
      BY <1>2, QuotaFacts, UsageSubset
    <3>3. Usage(seen, K) = Usage(seen, K \ {x})
      <4>1. CASE x \in K
        BY <1>4, <3>1, <3>2, <4>1, UsageSplit
      <4>2. CASE x \notin K
        <5>1. K \ {x} = K
          BY <4>2
        <5>2. QED
          BY <5>1
      <4>3. QED
        BY <4>1, <4>2
    <3>4. QED
      BY <1>3, <3>2, <3>3, QuotaFacts DEF QuotaOK
  <2>3. QED
    BY <1>1, <2>1, <2>2
<1>6. QED
  BY <1>1, <1>3, <1>4, <1>5, QuotaFacts DEF QuotaOK

\* A power loss cannot bring back a file that is known to be gone; where it
\* could, no file is known any more.
LEMMA QuotaPowerLoss == ASSUME Inv, QuotaOK, PowerLoss PROVE QuotaOK'
<1>1. PICK reached \in SUBSET Slots :
        seen' = [s \in Slots |-> IF s \in reached
                                 THEN AfterPowerLoss(seen[s]) ELSE stable[s]]
  BY DEF PowerLoss
<1>2. /\ promised' = IF dirFsync THEN promised ELSE [s \in Slots |-> Unknown]
      /\ pc' = "idle" /\ temp' = NoFile
      /\ orphans' = 0 /\ litter' \in {0, litter + orphans + Size(temp)}
  BY DEF PowerLoss, Reload
<1>3. Usage(seen', Known') \in Nat /\ Usage(seen', Known') <= Usage(seen, Known)
  <2>1. CASE dirFsync
    <3>1. \A s \in Slots : seen'[s] = IF s \in reached THEN seen[s] ELSE stable[s]
      BY <1>1, WholeStays DEF Inv, FilesOK
    <3>2. \A s \in Known : seen'[s] = seen[s]
      BY <2>1, <3>1 DEF Known, Inv, FilesOK, DurableIsStable
    <3>3. Known' = Known
      BY <1>2, <2>1 DEF Known
    <3>4. Usage(seen', Known') = Usage(seen, Known)
      BY <3>2, <3>3, UsageSame
    <3>. QED BY <3>4, QuotaFacts
  <2>2. CASE ~dirFsync
    <3>1. Known' = {}
      BY <1>2, <2>2 DEF Known
    <3>2. /\ {s \in Known' : seen'[s] # NoFile} = {}
          /\ {s \in Known' : seen'[s] # NoFile /\ seen'[s].pic} = {}
      BY <3>1
    <3>3. Usage(seen', Known') = 0
      BY <3>2, FS_EmptySet DEF Usage
    <3>. QED BY <3>3, QuotaFacts
  <2>. QED BY <2>1, <2>2
<1>6. Size(temp) \in Nat /\ Size(temp') = 0
  BY <1>2, SizeBound
<1>7. QED
  BY <1>2, <1>3, <1>6, QuotaFacts DEF QuotaOK

\* Failed, killed and cleaned-up saves move sizes between temp, orphans and
\* litter, or give them up.
LEMMA QuotaLitter ==
    ASSUME Inv, QuotaOK, AbandonTemp \/ Kill \/ CleanTemps PROVE QuotaOK'
<1>1. UNCHANGED <<seen, promised>>
  BY DEF AbandonTemp, Kill, CleanTemps
<1>2. /\ Size(temp) \in Nat /\ Size(NoFile) = 0 /\ litter \in Nat
      /\ orphans \in Nat
  BY SizeBound, QuotaFacts
<1>3. /\ litter' \in Nat /\ orphans' \in Nat
      /\ litter' + orphans' + Size(temp') <= litter + orphans + Size(temp)
      /\ temp' # NoFile => temp' = temp /\ pc = "cleanup"
  <2>1. CASE AbandonTemp
    <3>1. /\ temp' = NoFile /\ litter' = litter
          /\ orphans' = orphans \/ orphans' = orphans + Size(temp)
      BY <2>1 DEF AbandonTemp
    <3>2. QED
      BY <1>2, <3>1
  <2>2. CASE Kill
    <3>1. temp' = NoFile /\ litter' = litter + orphans + Size(temp) /\ orphans' = 0
      BY <2>2 DEF Kill, Reload
    <3>2. QED
      BY <1>2, <3>1
  <2>3. CASE CleanTemps
    <3>1. temp' = temp /\ pc = "cleanup"
      BY <2>3 DEF CleanTemps
    <3>2. litter' \in 0..litter /\ orphans' \in 0..orphans
      BY <1>2, <2>3 DEF CleanTemps
    <3>3. QED
      BY <1>2, <3>1, <3>2
  <2>4. QED
    BY <2>1, <2>2, <2>3
<1>4. pc' \in {"idle", "capacity", "read", "unlink", "scan"}
  <2>1. CASE AbandonTemp \/ Kill
    BY <2>1 DEF AbandonTemp, End, Kill, Reload
  <2>2. CASE CleanTemps
    <3>1. pc = "cleanup" /\ op.name \in {"save", "load", "delete", "list"}
      BY <2>2 DEF CleanTemps, Inv, PathOK
    <3>2. QED
      BY <2>2, <3>1 DEF CleanTemps, Goto, End
  <2>3. QED
    BY <2>1, <2>2
<1>5. temp' = NoFile
  BY <1>3 DEF QuotaOK
<1>6. QED
  BY <1>1, <1>3, <1>4, <1>5, QuotaKept

LEMMA QuotaSteps ==
    ASSUME Inv, QuotaOK, [Next]_vars PROVE QuotaOK'
<1> DEFINE Files == /\ UNCHANGED <<seen, promised, litter, orphans, temp>>
                    /\ pc' \notin {"create", "written", "synced", "changed"}
                    /\ pc \notin {"written", "synced"}
<1>1. ASSUME Files PROVE QuotaOK'
  <2>1. temp = NoFile
    BY <1>1 DEF QuotaOK
  <2>2. QED
    BY <1>1, <2>1, QuotaKept, QuotaFacts, SizeBound
<1> HIDE DEF Files
<1>2. CASE CheckCapacity \/ RenameTemp \/ Unlink \/ SyncDirectory \/ PowerLoss
             \/ WriteTemp \/ SyncTemp \/ AbandonTemp \/ Kill \/ CleanTemps
  BY <1>2, QuotaChecked, QuotaTemp, QuotaRenamed, QuotaUnlinked, QuotaSynced,
     QuotaPowerLoss, QuotaLitter
<1>3. CASE Begin
  <2>1. Files
    BY <1>3 DEF Begin, fileVars, Files
  <2>2. QED
    BY <1>1, <2>1
<1>4. CASE RunFrame \/ SetJoy \/ Pause
  <2>1. Files
    BY <1>4 DEF RunFrame, SetJoy, Pause, fileVars, Files
  <2>2. QED
    BY <1>1, <2>1
<1>5. CASE OpenDirectory \/ Scan \/ EarlyError \/ OverQuota
  <2>1. Files
    BY <1>5 DEF OpenDirectory, Scan, EarlyError, OverQuota, Fail, Goto, End,
                fileVars, Files
  <2>2. QED
    BY <1>1, <2>1
<1>6. CASE SaveFlush \/ Serialize
  <2>1. Files
    BY <1>6 DEF SaveFlush, Serialize, Goto, End, fileVars, Files
  <2>2. QED
    BY <1>1, <2>1
<1>7. CASE ReadFile \/ TakeBackup \/ FlushBeforeLoad \/ Unserialize
  <2>1. Files
    BY <1>7 DEF ReadFile, TakeBackup, FlushBeforeLoad, Unserialize, Goto, End,
                fileVars, Files
  <2>2. QED
    BY <1>1, <2>1
<1>8. CASE FlushLoaded \/ RestoreBackup \/ FlushRestored
  <2>1. Files
    BY <1>8 DEF FlushLoaded, RestoreBackup, FlushRestored, Goto, End, fileVars,
                Files
  <2>2. QED
    BY <1>1, <2>1
<1>9. CASE UNCHANGED vars
  <2>1. UNCHANGED <<seen, promised, litter, orphans, temp, pc, op, held>>
    BY <1>9 DEF vars, fileVars, cmdVars
  <2>2. QED
    BY <2>1 DEF QuotaOK, Known, Fits, Stored, Usage
<1>10. QED
  BY <1>2, <1>3, <1>4, <1>5, <1>6, <1>7, <1>8, <1>9 DEF Next, CommandStep

LEMMA QuotaHolds == Spec => []QuotaOK
<1>1. Init => QuotaOK
  <2> SUFFICES ASSUME Init PROVE QuotaOK
    OBVIOUS
  <2>1. \A s \in Slots : seen[s] = NoFile
    BY DEF Init
  <2>2. /\ {s \in Known : seen[s] # NoFile} = {}
        /\ {s \in Known : seen[s] # NoFile /\ seen[s].pic} = {}
    BY <2>1 DEF Known
  <2>3. Usage(seen, Known) = 0
    BY <2>2, FS_EmptySet DEF Usage
  <2>4. Quota \in Nat
    BY SaveStatesAssumption
  <2>5. QED
    BY <2>3, <2>4, SizeBound DEF Init, QuotaOK
<1>2. Inv /\ QuotaOK /\ [Next]_vars => QuotaOK'
  BY QuotaSteps
<1>3. QED
  BY <1>1, <1>2, InvHolds, PTL DEF Spec

-----------------------------------------------------------------------------
(* How commands end *)

SavedOrNot ==
    /\ Ends("save", "error") => seen' = before.seen
    /\ Ends("save", "ok") \/ Ends("save", "durable") =>
         /\ seen' = [before.seen EXCEPT ![op.slot] = Container(mach', picture', TRUE)]
         /\ sram' = {Ram[mach']}

LoadedOrNot ==
    /\ Ends("load", "ok") =>
         /\ seen[op.slot].mach = mach'
         /\ picture' = seen[op.slot].pic
         /\ sram' = {Ram[mach']}
         /\ ~leftover'
    /\ Ends("load", "error") =>
         /\ mach' = before.mach
         /\ running' = before.running /\ paused' = before.paused
         /\ sram' \subseteq before.sram \cup {Ram[before.mach]}
    /\ Ends("load", Fatal) => ~running' /\ paused'
    /\ Ends("load", "ok") \/ Ends("load", "error") \/ Ends("load", Fatal) =>
         seen' = before.seen

LEMMA SaveEnds ==
    ASSUME Inv, [Next]_vars, op.name = "save", pc # "idle", pc' = "idle"
    PROVE  SavedOrNot
<1>. USE DEF Inv, PathOK, SaveOK, Goto, End, consoleVars, fileVars
<1>1. reply'.outcome = "none" \/ (reply'.outcome = "error" /\ seen' = before.seen)
        => SavedOrNot
  BY DEF SavedOrNot, Ends
<1>2. CASE Scan \/ EarlyError \/ OverQuota
  <2>1. reply'.outcome = "error" /\ seen' = seen /\ pc # "changed"
    BY <1>2 DEF Scan, EarlyError, Fail, OverQuota
  <2>. QED BY <2>1, <1>1
<1>3. CASE CleanTemps
  <2>1. reply'.outcome = "error" /\ seen' = seen /\ pc # "changed"
    BY <1>3 DEF CleanTemps
  <2>. QED BY <2>1, <1>1
<1>4. CASE SaveFlush \/ AbandonTemp
  <2>1. reply'.outcome = "error" /\ seen' = seen /\ pc # "changed"
    BY <1>4 DEF SaveFlush, AbandonTemp
  <2>. QED BY <2>1, <1>1
<1>5. CASE SyncDirectory
  <2>1. UNCHANGED <<seen, mach, picture, sram>> /\ pc = "changed"
    BY <1>5 DEF SyncDirectory
  <2>2. reply'.outcome # "error"
    BY <1>5 DEF SyncDirectory
  <2>3. /\ seen = [before.seen EXCEPT ![op.slot] = Container(mach, picture, TRUE)]
        /\ sram = {Ram[mach]}
    BY <2>1
  <2>. HIDE DEF Inv
  <2>. QED BY <2>1, <2>2, <2>3 DEF SavedOrNot, Ends
<1>6. CASE Kill \/ PowerLoss
  <2>1. reply'.outcome = "none"
    BY <1>6 DEF Kill, PowerLoss, Reload
  <2>. QED BY <2>1, <1>1
<1>7. CASE \/ Begin \/ OpenDirectory \/ Serialize \/ CheckCapacity \/ WriteTemp
           \/ SyncTemp \/ RenameTemp \/ Unlink \/ ReadFile \/ TakeBackup
           \/ Unserialize \/ RunFrame \/ Pause \/ SetJoy
  BY <1>7 DEF Begin, OpenDirectory, Serialize, CheckCapacity, WriteTemp, SyncTemp,
     RenameTemp, Unlink, ReadFile, TakeBackup, Unserialize, RunFrame, Pause, SetJoy
<1>8. CASE FlushBeforeLoad \/ FlushLoaded \/ RestoreBackup \/ FlushRestored
  BY <1>8 DEF FlushBeforeLoad, FlushLoaded, RestoreBackup, FlushRestored
<1>9. CASE UNCHANGED vars
  BY <1>9 DEF vars
<1>. QED BY <1>2, <1>3, <1>4, <1>5, <1>6, <1>7, <1>8, <1>9 DEF Next, CommandStep

LEMMA LoadEnds ==
    ASSUME Inv, [Next]_vars, op.name = "load", pc # "idle", pc' = "idle"
    PROVE  LoadedOrNot
<1>. USE DEF Inv, PathOK, LoadOK, Goto, End, LoadedOrNot, Ends, consoleVars, fileVars,
             Fatal
<1>1. CASE Scan \/ EarlyError \/ OverQuota
  BY <1>1 DEF Scan, EarlyError, Fail, OverQuota
<1>2. CASE CleanTemps
  BY <1>2 DEF CleanTemps
<1>3. CASE FlushBeforeLoad
  BY <1>3, Flushed DEF FlushBeforeLoad
<1>4. CASE FlushLoaded
  BY <1>4 DEF FlushLoaded, FlushOk
<1>5. CASE RestoreBackup
  <2>1. reply'.outcome = Fatal /\ ~running' /\ paused' /\ seen' = before.seen
    BY <1>5 DEF RestoreBackup
  <2>. HIDE DEF Inv
  <2>. QED BY <2>1
<1>6. CASE FlushRestored
  BY <1>6 DEF FlushRestored, FlushOk
<1>7. CASE Kill \/ PowerLoss
  BY <1>7 DEF Kill, PowerLoss, Reload
<1>8. CASE \/ Begin \/ OpenDirectory \/ SaveFlush \/ Serialize \/ CheckCapacity
           \/ WriteTemp \/ SyncTemp \/ RenameTemp \/ AbandonTemp \/ SyncDirectory
           \/ Unlink \/ ReadFile \/ TakeBackup \/ Unserialize \/ RunFrame \/ Pause
           \/ SetJoy
  BY <1>8 DEF Begin, OpenDirectory, SaveFlush, Serialize, CheckCapacity, WriteTemp,
     SyncTemp, RenameTemp, AbandonTemp, SyncDirectory, Unlink, ReadFile, TakeBackup,
     Unserialize, RunFrame, Pause, SetJoy
<1>9. CASE UNCHANGED vars
  BY <1>9 DEF vars
<1>. QED BY <1>1, <1>2, <1>3, <1>4, <1>5, <1>6, <1>7, <1>8, <1>9
         DEF Next, CommandStep

-----------------------------------------------------------------------------
(* Results *)

\* Console, files and the command in progress hold values of their kind; a
\* load restores complete containers only (worker_load_state).
THEOREM StatesTyped == Spec => []TypeOK
  BY InvHolds, PTL DEF Inv

\* No slot ever holds an incomplete container (worker_save_state).
THEOREM StatesWhole == Spec => []NoTornState
<1>1. Inv => NoTornState
  BY WholeStays DEF Inv, FilesOK, NoTornState
<1>. QED BY <1>1, InvHolds, PTL

\* What save or delete reported as durable survives every kill, and on a file
\* system that honours the fsync of a directory every power loss.
THEOREM StatesDurable == Spec => []DurableIsStable
  BY InvHolds, PTL DEF Inv, FilesOK

\* A save stores the present console, or leaves every slot as it was.
THEOREM SavesAllOrNothing == Spec => SaveAllOrNothing
<1>1. Inv /\ [Next]_vars => SavedOrNot
  BY SaveEnds DEF SavedOrNot, Ends
<1>. QED BY <1>1, InvHolds, PTL DEF Spec, SaveAllOrNothing, SavedOrNot

\* A load replaces the whole console, leaves it as it was, or stops the
\* emulation and says so.
THEOREM LoadsAllOrNothing == Spec => LoadAllOrNothing
<1>1. Inv /\ [Next]_vars => LoadedOrNot
  BY LoadEnds DEF LoadedOrNot, Ends
<1>. QED BY <1>1, InvHolds, PTL DEF Spec, LoadAllOrNothing, LoadedOrNot

\* The slots stay within the quota, whatever fails and is killed, and the
\* temporaries left behind add one container at most (state_check_capacity).
THEOREM StatesWithinQuota == Spec => []WithinQuota
<1>1. Inv /\ QuotaOK => WithinQuota
  <2> SUFFICES ASSUME Inv, QuotaOK, \A s \in Slots : promised[s] # Unknown
               PROVE  /\ Stored <= Quota
                      /\ Stored + litter + orphans + Size(temp) <= Quota + 2
    BY DEF WithinQuota
  <2>1. Known = Slots
    BY DEF Known
  <2>2. QED
    BY <2>1 DEF QuotaOK, Stored
<1>2. QED
  BY <1>1, InvHolds, QuotaHolds, PTL

=============================================================================
