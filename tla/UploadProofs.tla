---------------------------- MODULE UploadProofs ----------------------------
(***************************************************************************)
(* Uploads never damage a ROM, lose or steal a temporary, give a wrong      *)
(* answer or exceed the limits, for any number of daemons, clients, process *)
(* ids and failures.                                                        *)
(* The argument: a daemon's temporaries carry its process id, those of its  *)
(* clients are different files, and each of them holds what its client      *)
(* sent; so what finish_upload has synced and checked is what it renames.   *)
(* The limits need a second invariant, of the sets of uploads between a     *)
(* check and the rename (CommitOK).                                         *)
(***************************************************************************)
EXTENDS Upload, FiniteSetTheorems, TLAPS

Records ==
    [phase : Phases, dead : BOOLEAN, body : Bodies \cup {None},
     name : Names \cup {None}, temp : TempNames \cup {None}, got : Nat,
     reply : Replies, renamed : BOOLEAN]

WholeFiles == {Absent} \cup {File(b, Length[b], TRUE) : b \in Valid}

PidsDiffer == \A d, e \in Daemons : Running(d) /\ pid[d] = pid[e] => d = e

Counts == [Daemons -> [unread : SUBSET (Names \cup TempNames), used : Nat]]

\* What the network thread of d is in the middle of.  The checks are made
\* twice: for a request, of a daemon whose other uploads are dead, and for a
\* complete body.
JobOK(d) ==
    LET k == conn[job[d]] IN
    at[d] # "loop" =>
        /\ Running(d) /\ job[d] \in Clients /\ Server[job[d]] = d
        /\ ~k.dead /\ k.body \in Bodies /\ k.name \in Names
        /\ k.phase \in {"headers", "upload"}
        /\ at[d] = "create" => k.phase = "headers"
        /\ at[d] \in {"fsync", "rename", "dirsync"} => k.phase = "upload"
        /\ k.phase = "headers" =>
             /\ k.temp = None
             /\ \A c \in Clients :
                  Server[c] = d /\ conn[c].temp # None => conn[c].dead
        /\ k.phase = "upload" /\ at[d] # "dirsync" =>
             /\ k.temp # None /\ k.got = Length[k.body]
             /\ at[d] # "fsync" => temps[k.temp].synced
             /\ at[d] \in {"opendir", "scan", "rename"} => k.body \in Valid
        /\ k.renamed <=> at[d] = "dirsync"

\* A client's temporary is its daemon's, and holds what the client sent; that
\* of a dead client may be gone.
TempOK(c) ==
    LET k == conn[c] IN
    k.temp # None =>
        /\ k.phase = "upload" /\ k.body \in Bodies /\ k.name \in Names
        /\ Running(Server[c]) /\ k.temp[1] = pid[Server[c]]
        /\ \/ temps[k.temp].body = k.body /\ temps[k.temp].len = k.got
           \/ k.dead /\ temps[k.temp] = Absent

ConnOK(c) ==
    LET k == conn[c] IN
    /\ TempOK(c)
    /\ k.phase = "upload" /\ ~k.dead => k.temp # None \/ k.renamed
    /\ k.renamed => /\ k.temp = None
                    /\ ~k.dead => at[Server[c]] = "dirsync" /\ job[Server[c]] = c

TempsDiffer ==
    \A c, e \in Clients :
        c # e /\ conn[c].temp # None => conn[c].temp # conn[e].temp

TempsOwned ==
    \A d \in Daemons, t \in TempNames :
        Running(d) /\ t[1] = pid[d] /\ temps[t] # Absent =>
            \E c \in Clients : Server[c] = d /\ conn[c].temp = t

\* The inductive invariant
Inv ==
    /\ TypeOK
    /\ PidsDiffer
    /\ \A d \in Daemons : JobOK(d)
    /\ \A c \in Clients : ConnOK(c)
    /\ TempsDiffer
    /\ TempsOwned
    /\ roms \in [Names -> WholeFiles] /\ stable \in [Names -> WholeFiles]

-----------------------------------------------------------------------------
(* Facts of the constants and of typing *)

LEMMA NoneApart ==
    /\ None \notin TempNames /\ None \notin Bodies /\ None \notin Names
    /\ None \notin Clients /\ Unreadable \notin Bodies
    /\ Server \in [Clients -> Daemons] /\ Length \in [Bodies -> Nat \ {0}]
    /\ Valid \subseteq Bodies
  BY UploadAssumption DEF TempNames

LEMMA RecordsFree == Free \in Records /\ Free.temp = None
  BY DEF Free, Records, Phases, Replies

LEMMA FilesTyped ==
    /\ Absent \in Files
    /\ \A b \in Bodies, n \in Nat, y \in BOOLEAN : File(b, n, y) \in Files
    /\ \A n \in Nat : File(Unreadable, n, TRUE) \in Files
    /\ \A f \in Files : f.body \in Bodies => f # Absent
    /\ WholeFiles \subseteq Files
<1>1. \A b \in Bodies, n \in Nat, y \in BOOLEAN : File(b, n, y) \in Files
  BY DEF File, Files
<1>2. Absent \in Files /\ \A n \in Nat : File(Unreadable, n, TRUE) \in Files
  BY DEF Absent, File, Files
<1>3. \A f \in Files : f.body \in Bodies => f # Absent
  BY NoneApart DEF Absent, File, Files
<1>4. ASSUME NEW b \in Valid PROVE File(b, Length[b], TRUE) \in Files
  <2>1. b \in Bodies /\ Length[b] \in Nat
    BY NoneApart
  <2>. QED BY <2>1, <1>1
<1>5. WholeFiles \subseteq Files
  BY <1>2, <1>4 DEF WholeFiles
<1>. QED BY <1>1, <1>2, <1>3, <1>5

\* A client and a daemon that a step does not touch
LEMMA ConnFrame ==
    ASSUME NEW e \in Clients, ConnOK(e), conn'[e] = conn[e],
           conn[e].temp # None =>
                /\ pid'[Server[e]] = pid[Server[e]]
                /\ \/ temps'[conn[e].temp] = temps[conn[e].temp]
                   \/ conn[e].dead /\ temps'[conn[e].temp] = Absent,
           conn[e].renamed /\ ~conn[e].dead =>
                at'[Server[e]] = at[Server[e]] /\ job'[Server[e]] = job[Server[e]]
    PROVE  ConnOK(e)'
  BY DEF ConnOK, TempOK, Running

LEMMA JobFrame ==
    ASSUME NEW d \in Daemons, JobOK(d), at'[d] = at[d], job'[d] = job[d],
           pid'[d] = pid[d],
           at[d] # "loop" =>
                /\ \A c \in Clients : Server[c] = d => conn'[c] = conn[c]
                /\ conn[job[d]].temp # None =>
                     temps'[conn[job[d]].temp] = temps[conn[job[d]].temp]
    PROVE  JobOK(d)'
  BY DEF JobOK, Running

-----------------------------------------------------------------------------
(* A step of one client c, and of its daemon as far as it is at c           *)

\* The temporaries of the clients but c, whose own is t
OthersKeep(c, t) ==
    \A e \in Clients \ {c} : conn[e].temp # None =>
        /\ \/ temps'[conn[e].temp] = temps[conn[e].temp]
           \/ conn[e].dead /\ temps'[conn[e].temp] = Absent
        /\ conn[e].temp # t

LEMMA OneClient ==
    ASSUME Inv, NEW c \in Clients, NEW d \in Daemons, d = Server[c],
           at[d] # "loop" => job[d] = c,
           count' \in Counts, raced' \in BOOLEAN, dirFsync' = dirFsync,
           NEW k \in Records, conn' = [conn EXCEPT ![c] = k], pid' = pid,
           at' \in [Daemons -> Steps], job' \in [Daemons -> Clients \cup {None}],
           \A e \in Daemons \ {d} : at'[e] = at[e] /\ job'[e] = job[e],
           temps' \in [TempNames -> Files],
           OthersKeep(c, k.temp),
           \A t \in TempNames : temps'[t] # Absent =>
                t = k.temp \/ (temps[t] # Absent /\ t # conn[c].temp),
           roms' \in [Names -> WholeFiles], stable' \in [Names -> WholeFiles],
           JobOK(d)', ConnOK(c)'
    PROVE  Inv'
<1>. USE NoneApart DEF Inv
<1>1. /\ conn \in [Clients -> Records] /\ conn'[c] = k
      /\ \A e \in Clients \ {c} : conn'[e] = conn[e]
      /\ conn' \in [Clients -> Records]
  BY DEF TypeOK, Records
<1>2. TypeOK'
  <2>1. roms' \in [Names -> Files] /\ stable' \in [Names -> Files]
    BY FilesTyped
  <2>. QED BY <1>1, <2>1 DEF TypeOK, Records, Counts
<1>3. PidsDiffer'
  BY DEF PidsDiffer, Running
<1>4. ASSUME NEW e \in Daemons PROVE JobOK(e)'
  <2>1. CASE e # d
    <3>1. at[e] # "loop" => /\ job[e] \in Clients \ {c} /\ ~conn[job[e]].dead
                            /\ \A b \in Clients : Server[b] = e => conn'[b] = conn[b]
      BY <2>1, <1>1 DEF JobOK
    <3>2. at[e] # "loop" /\ conn[job[e]].temp # None =>
            temps'[conn[job[e]].temp] = temps[conn[job[e]].temp]
      BY <3>1 DEF OthersKeep
    <3>3. JobOK(e) /\ at'[e] = at[e] /\ job'[e] = job[e] /\ pid'[e] = pid[e]
      BY <2>1
    <3>. QED BY <3>1, <3>2, <3>3, JobFrame
  <2>. QED BY <2>1
<1>5. ASSUME NEW e \in Clients PROVE ConnOK(e)'
  <2>1. CASE e # c
    <3>1. conn[e].renamed /\ ~conn[e].dead => Server[e] # d
      BY <2>1 DEF ConnOK
    <3>. QED BY <2>1, <3>1, <1>1, ConnFrame DEF OthersKeep
  <2>. QED BY <2>1
<1>6. TempsDiffer'
  BY <1>1 DEF TempsDiffer, OthersKeep
<1>7. TempsOwned'
  <2> SUFFICES ASSUME NEW e \in Daemons, NEW t \in TempNames, Running(e),
                      t[1] = pid[e], temps'[t] # Absent
               PROVE  \E b \in Clients : Server[b] = e /\ conn'[b].temp = t
    BY DEF TempsOwned, Running
  <2>1. CASE t = k.temp
    <3>1. pid[e] = pid[d]
      BY <2>1, <1>1 DEF ConnOK, TempOK
    <3>2. PidsDiffer
      OBVIOUS
    <3>3. e = d
      BY <3>1, <3>2 DEF PidsDiffer
    <3>. QED BY <2>1, <3>3, <1>1
  <2>2. CASE temps[t] # Absent /\ t # conn[c].temp
    BY <2>2, <1>1 DEF TempsOwned
  <2>. QED BY <2>1, <2>2
<1>. QED BY <1>2, <1>3, <1>4, <1>5, <1>6, <1>7

\* The client loses its upload or its client structure, in the loop or at the
\* end of the handler that was at it.
LEMMA Leaves ==
    ASSUME Inv, NEW c \in Clients, NEW k \in Records, k.temp = None,
           k.phase = "upload" => k.dead, k.renamed => k.dead,
           conn' = [conn EXCEPT ![c] = k], pid' = pid,
           temps' \in [TempNames -> Files],
           conn[c].temp # None => temps'[conn[c].temp] = Absent,
           \A t \in TempNames : temps'[t] \in {temps[t], Absent},
           \A e \in Clients \ {c} : conn[e].temp # None =>
                temps'[conn[e].temp] = temps[conn[e].temp] \/ conn[e].dead,
           roms' \in [Names -> WholeFiles], stable' \in [Names -> WholeFiles],
           raced' \in BOOLEAN, dirFsync' = dirFsync,
           \/ at[Server[c]] = "loop" /\ UNCHANGED threadVars
           \/ at[Server[c]] # "loop" /\ job[Server[c]] = c /\ Loop(Server[c])
    PROVE  Inv'
<1>. USE DEF Inv
<1>1. /\ conn \in [Clients -> Records] /\ conn'[c] = k
  BY DEF TypeOK, Records
<1>2. /\ at' \in [Daemons -> Steps] /\ job' \in [Daemons -> Clients \cup {None}]
      /\ count' \in Counts /\ at'[Server[c]] = "loop"
      /\ \A e \in Daemons \ {Server[c]} : at'[e] = at[e] /\ job'[e] = job[e]
  <2>0. at \in [Daemons -> Steps] /\ job \in [Daemons -> Clients \cup {None}]
        /\ count \in Counts /\ Server[c] \in Daemons /\ "loop" \in Steps
    BY NoneApart DEF TypeOK, Steps, Counts
  <2>1. CASE at[Server[c]] = "loop" /\ UNCHANGED threadVars
    BY <2>0, <2>1 DEF threadVars
  <2>2. CASE Loop(Server[c])
    BY <2>0, <2>2 DEF Loop, Counts, NoCount
  <2>. QED BY <2>1, <2>2
<1>3. \A e \in Clients \ {c} : conn[e].temp # None =>
        conn[e].temp \in TempNames /\ conn[e].temp # conn[c].temp
  BY <1>1 DEF TempsDiffer, Records
<1>4. \A t \in TempNames : temps'[t] # Absent =>
        t = k.temp \/ (temps[t] # Absent /\ t # conn[c].temp)
  OBVIOUS
<1>5. JobOK(Server[c])' /\ ConnOK(c)'
  BY <1>1, <1>2, NoneApart DEF JobOK, ConnOK, TempOK
<1>6. (at[Server[c]] # "loop" => job[Server[c]] = c) /\ OthersKeep(c, k.temp)
  BY <1>3 DEF OthersKeep
<1>7. PICK d \in Daemons : d = Server[c]
  BY NoneApart
<1>8. /\ at' \in [Daemons -> Steps] /\ job' \in [Daemons -> Clients \cup {None}]
      /\ count' \in Counts
      /\ \A e \in Daemons \ {d} : at'[e] = at[e] /\ job'[e] = job[e]
      /\ at[d] # "loop" => job[d] = c
      /\ JobOK(d)' /\ ConnOK(c)'
  BY <1>2, <1>5, <1>6, <1>7
<1>. HIDE DEF Inv
<1>. QED BY <1>4, <1>6, <1>7, <1>8, OneClient

\* It removes its own temporary, if it has one, and no other.
LEMMA Dropped ==
    ASSUME Inv, NEW c \in Clients, NEW k \in Records, k.temp = None,
           k.phase = "upload" => k.dead, k.renamed => k.dead,
           conn' = [conn EXCEPT ![c] = k], temps' = Unlinked(c), pid' = pid,
           roms' \in [Names -> WholeFiles], stable' \in [Names -> WholeFiles],
           raced' \in BOOLEAN, dirFsync' = dirFsync,
           \/ at[Server[c]] = "loop" /\ UNCHANGED threadVars
           \/ at[Server[c]] # "loop" /\ job[Server[c]] = c /\ Loop(Server[c])
    PROVE  Inv'
<1>1. conn \in [Clients -> Records] /\ temps \in [TempNames -> Files]
  BY DEF Inv, TypeOK, Records
<1>2. /\ temps' \in [TempNames -> Files]
      /\ \A t \in TempNames : temps'[t] \in {temps[t], Absent}
      /\ \A t \in TempNames : t # conn[c].temp => temps'[t] = temps[t]
      /\ conn[c].temp # None => temps'[conn[c].temp] = Absent
  BY <1>1, FilesTyped DEF Unlinked, Records
<1>3. \A e \in Clients \ {c} : conn[e].temp # None =>
        conn[e].temp \in TempNames /\ conn[e].temp # conn[c].temp
  BY <1>1 DEF Inv, TempsDiffer, Records
<1>4. \A e \in Clients \ {c} : conn[e].temp # None =>
        temps'[conn[e].temp] = temps[conn[e].temp] \/ conn[e].dead
  BY <1>2, <1>3
<1>. QED BY <1>2, <1>4, Leaves

LEMMA NothingToUnlink ==
    ASSUME Inv, NEW c \in Clients, conn[c].temp = None PROVE Unlinked(c) = temps
  BY NoneApart DEF Inv, TypeOK, Unlinked

LEMMA ClientDrops ==
    ASSUME Inv, NEW c \in Clients,
           \/ RefuseUpload(c) \/ WriteFails(c) \/ Deadline(c)
           \/ DrainEnds(c) \/ ClientDestroy(c)
    PROVE  Inv'
<1> DEFINE refused == [Free EXCEPT !.phase = "discard", !.reply = "error"]
<1>1. /\ refused \in Records /\ refused.temp = None /\ refused.phase # "upload"
      /\ ~refused.renamed
  BY DEF Free, Records, Phases, Replies
<1>2. Free \in Records /\ Free.temp = None /\ Free.phase # "upload" /\ ~Free.renamed
  BY DEF Free, Records, Phases, Replies
<1>3. /\ Server[c] \in Daemons
      /\ roms \in [Names -> WholeFiles] /\ stable \in [Names -> WholeFiles]
      /\ raced' \in BOOLEAN /\ dirFsync' = dirFsync
  BY NoneApart DEF Inv, TypeOK, otherVars, RefuseUpload, WriteFails, Deadline,
                   DrainEnds, ClientDestroy
<1>4. conn[c].phase # "upload" => Unlinked(c) = temps
  BY NothingToUnlink DEF Inv, ConnOK, TempOK
<1>. HIDE DEF refused
<1>5. CASE RefuseUpload(c)
  <2>1. /\ conn' = [conn EXCEPT ![c] = refused] /\ temps' = temps
        /\ conn[c].phase = "headers" /\ at[Server[c]] = "loop"
        /\ UNCHANGED <<pid, threadVars, roms, stable>>
    BY <1>5 DEF RefuseUpload, Refuse, Live, InLoop, fileVars, refused
  <2>. QED BY <2>1, <1>1, <1>3, <1>4, Dropped
<1>6. CASE WriteFails(c) \/ Deadline(c)
  <2>1. /\ conn' = [conn EXCEPT ![c] = refused] /\ temps' = Unlinked(c)
        /\ at[Server[c]] = "loop" /\ UNCHANGED <<pid, threadVars, roms, stable>>
    BY <1>6 DEF WriteFails, Deadline, AbortUpload, Refuse, Live, InLoop, refused
  <2>. QED BY <2>1, <1>1, <1>3, Dropped
<1>7. CASE DrainEnds(c)
  <2>1. /\ conn' = [conn EXCEPT ![c] = Free] /\ temps' = temps
        /\ conn[c].phase = "discard" /\ at[Server[c]] = "loop"
        /\ UNCHANGED <<pid, threadVars, roms, stable>>
    BY <1>7 DEF DrainEnds, Live, InLoop, fileVars
  <2>. QED BY <2>1, <1>2, <1>3, <1>4, Dropped
<1>8. CASE ClientDestroy(c)
  <2>1. /\ conn' = [conn EXCEPT ![c] = Free] /\ temps' = Unlinked(c)
        /\ at[Server[c]] = "loop" /\ UNCHANGED <<pid, threadVars, roms, stable>>
    BY <1>8 DEF ClientDestroy, AbortUpload, InLoop
  <2>. QED BY <2>1, <1>2, <1>3, Dropped
<1>. QED BY <1>5, <1>6, <1>7, <1>8

\* begin_upload removes the name it tried last: nobody's, or a dead client's.
LEMMA CreationFails ==
    ASSUME Inv, NEW d \in Daemons, CreateFails(d) PROVE Inv'
<1>. USE NoneApart
<1> DEFINE k == [Free EXCEPT !.phase = "discard", !.reply = "error"]
<1>1. PICK c \in Clients : /\ c = job[d] /\ Server[c] = d /\ at[d] # "loop"
                           /\ conn[c].temp = None
                           /\ \A e \in Clients : Server[e] = d /\ conn[e].temp # None =>
                                conn[e].dead
  BY DEF CreateFails, Admitting, Inv, JobOK
<1>2. /\ k \in Records /\ k.temp = None /\ k.phase # "upload" /\ ~k.renamed
  BY DEF Free, Records, Phases, Replies
<1>3. conn' = [conn EXCEPT ![c] = k] /\ Loop(d)
  BY <1>1 DEF CreateFails, Refuse
<1>. HIDE DEF k
<1>4. /\ UNCHANGED <<pid, roms, stable, raced, dirFsync>>
      /\ roms \in [Names -> WholeFiles] /\ stable \in [Names -> WholeFiles]
      /\ raced \in BOOLEAN /\ conn \in [Clients -> Records]
      /\ temps \in [TempNames -> Files] /\ Absent \in Files
  BY FilesTyped DEF CreateFails, otherVars, Inv, TypeOK, Records
<1>5. \/ temps' = temps
      \/ \E u \in TempNames : u[1] = pid[d] /\ temps' = [temps EXCEPT ![u] = Absent]
  <2>1. CASE UNCHANGED temps
    BY <2>1
  <2>2. CASE \E n \in 1..Attempts : temps' = [temps EXCEPT ![<<pid[d], n>>] = Absent]
    <3>1. PICK n \in 1..Attempts : temps' = [temps EXCEPT ![<<pid[d], n>>] = Absent]
      BY <2>2
    <3>2. pid[d] \in Pids
      BY <1>1 DEF Inv, TypeOK, JobOK, Running
    <3>3. <<pid[d], n>> \in TempNames /\ <<pid[d], n>>[1] = pid[d]
      BY <3>2 DEF TempNames
    <3>. QED BY <3>1, <3>3
  <2>. QED BY <2>1, <2>2 DEF CreateFails
<1>6. /\ temps' \in [TempNames -> Files]
      /\ \A t \in TempNames : temps'[t] \in {temps[t], Absent}
      /\ \A t \in TempNames : t[1] # pid[d] => temps'[t] = temps[t]
  BY <1>4, <1>5
<1>7. ASSUME NEW e \in Clients \ {c}, conn[e].temp # None
      PROVE  temps'[conn[e].temp] = temps[conn[e].temp] \/ conn[e].dead
  <2>1. /\ conn[e].temp \in TempNames /\ Running(Server[e])
        /\ conn[e].temp[1] = pid[Server[e]] /\ Server[e] \in Daemons
    BY <1>4, <1>7 DEF Inv, ConnOK, TempOK, Records
  <2>2. CASE pid[Server[e]] = pid[d]
    <3>1. Server[e] = d
      BY <2>1, <2>2 DEF Inv, PidsDiffer
    <3>. QED BY <3>1, <1>1, <1>7
  <2>3. CASE pid[Server[e]] # pid[d]
    BY <2>1, <2>3, <1>6
  <2>. QED BY <2>2, <2>3
<1>. HIDE NoneApart
<1>8. /\ k \in Records /\ k.temp = None
      /\ k.phase = "upload" => k.dead
      /\ k.renamed => k.dead
  BY <1>2
<1>9. /\ conn' = [conn EXCEPT ![c] = k] /\ pid' = pid
      /\ temps' \in [TempNames -> Files]
      /\ conn[c].temp # None => temps'[conn[c].temp] = Absent
      /\ \A t \in TempNames : temps'[t] \in {temps[t], Absent}
  BY <1>1, <1>3, <1>4, <1>6
<1>10. /\ roms' \in [Names -> WholeFiles] /\ stable' \in [Names -> WholeFiles]
       /\ raced' \in BOOLEAN /\ dirFsync' = dirFsync
  BY <1>4
<1>11. /\ at[Server[c]] # "loop" /\ job[Server[c]] = c /\ Loop(Server[c])
  BY <1>1, <1>3
<1>12. \A e \in Clients \ {c} : conn[e].temp # None =>
         temps'[conn[e].temp] = temps[conn[e].temp] \/ conn[e].dead
  BY <1>7
<1>. QED BY <1>8, <1>9, <1>10, <1>11, <1>12, Leaves

LEMMA HandlerEnds ==
    ASSUME Inv, NEW d \in Daemons,
           FinishFails(d) \/ SyncDirectory(d) \/ SyncDirectoryFails(d)
    PROVE  Inv'
<1> DEFINE c == job[d]
           failed == [Free EXCEPT !.phase = "upload", !.dead = TRUE,
                                  !.reply = "error", !.renamed = conn[c].renamed]
           Done(r) == [Free EXCEPT !.phase = "upload", !.dead = TRUE, !.reply = r,
                                   !.renamed = TRUE]
<1>1. /\ at[d] # "loop" /\ c \in Clients /\ Server[c] = d
      /\ at[d] = "dirsync" => conn[c].temp = None
  BY DEF Inv, JobOK, ConnOK, FinishFails, SyncDirectory, SyncDirectoryFails
<1>2. conn[c].temp = None => Unlinked(c) = temps
  BY <1>1, NothingToUnlink
<1>3. /\ roms \in [Names -> WholeFiles] /\ stable \in [Names -> WholeFiles]
      /\ raced' \in BOOLEAN /\ dirFsync' = dirFsync
  BY DEF Inv, TypeOK, FinishFails, SyncDirectory, SyncDirectoryFails, otherVars
<1>4. conn[c].renamed \in BOOLEAN
  BY <1>1 DEF Inv, TypeOK
<1>6. CASE FinishFails(d)
  <2>1. failed \in Records /\ failed.temp = None /\ failed.dead
    BY <1>4 DEF Free, Records, Phases, Replies
  <2>2. /\ conn' = [conn EXCEPT ![c] = failed] /\ temps' = Unlinked(c)
        /\ Loop(d) /\ UNCHANGED <<pid, roms, stable>>
    BY <1>6 DEF FinishFails, FinishError, AbortUpload
  <2>. HIDE DEF failed, c
  <2>. QED BY <2>1, <2>2, <1>1, <1>3, Dropped DEF c
<1>7. ASSUME NEW r \in {"ok", "warned"}, Answered(d, r), at[d] = "dirsync",
             stable' \in [Names -> WholeFiles], UNCHANGED <<pid, temps, roms>>
      PROVE  Inv'
  <2>1. Done(r) \in Records /\ Done(r).temp = None /\ Done(r).dead
    BY DEF Free, Records, Phases, Replies
  <2>2. /\ conn' = [conn EXCEPT ![c] = Done(r)] /\ temps' = Unlinked(c) /\ Loop(d)
    BY <1>1, <1>2, <1>7 DEF Answered
  <2>. HIDE DEF Done, c
  <2>. QED BY <2>1, <2>2, <1>1, <1>3, <1>7, Dropped DEF c
<1>8. CASE SyncDirectory(d)
  BY <1>3, <1>7, <1>8 DEF SyncDirectory
<1>9. CASE SyncDirectoryFails(d)
  BY <1>3, <1>7, <1>9 DEF SyncDirectoryFails, fileVars
<1>. QED BY <1>6, <1>8, <1>9

-----------------------------------------------------------------------------
(* The upload of one client goes on *)

LEMMA Hangs ==
    ASSUME Inv, NEW c \in Clients, Hangup(c) PROVE Inv'
<1>. USE NoneApart DEF Inv
<1> DEFINE k == [conn[c] EXCEPT !.dead = TRUE]
<1>1. /\ conn[c] \in Records /\ conn' = [conn EXCEPT ![c] = k] /\ conn'[c] = k
      /\ UNCHANGED <<pid, at, job, count, temps, roms, stable, raced, dirFsync>>
      /\ at[Server[c]] = "loop"
  BY DEF Hangup, Live, InLoop, TypeOK, Records, threadVars, fileVars, otherVars
<1>2. /\ k \in Records /\ k.dead /\ k.temp = conn[c].temp /\ k.phase = conn[c].phase
      /\ k.body = conn[c].body /\ k.name = conn[c].name /\ k.got = conn[c].got
      /\ k.renamed = conn[c].renamed
  BY <1>1 DEF Records
<1>. HIDE DEF k
<1>3. ConnOK(c)' /\ JobOK(Server[c])'
  BY <1>1, <1>2 DEF ConnOK, TempOK, JobOK, Running
<1>4. OthersKeep(c, k.temp)
  BY <1>1, <1>2 DEF TempsDiffer, OthersKeep
<1>5. \A t \in TempNames : temps[t] # Absent =>
        t = k.temp \/ (temps[t] # Absent /\ t # conn[c].temp)
  BY <1>2
<1>6. /\ Server[c] \in Daemons
      /\ at' \in [Daemons -> Steps] /\ job' \in [Daemons -> Clients \cup {None}]
      /\ temps' \in [TempNames -> Files] /\ count' \in Counts /\ raced' \in BOOLEAN
      /\ dirFsync' = dirFsync /\ roms' \in [Names -> WholeFiles] /\ stable' \in [Names -> WholeFiles]
  BY <1>1 DEF TypeOK, Counts
<1>. HIDE DEF Inv
<1>. QED BY <1>1, <1>2, <1>3, <1>4, <1>5, <1>6, OneClient

LEMMA Admits ==
    ASSUME Inv, NEW c \in Clients, AdmitUpload(c) PROVE Inv'
<1>. USE NoneApart
<1> DEFINE d == Server[c]
<1>1. PICK n \in Names, b \in Bodies :
        conn' = [conn EXCEPT ![c].name = n, ![c].body = b]
  BY DEF AdmitUpload
<1> DEFINE k == [conn[c] EXCEPT !.name = n, !.body = b]
<1>2. /\ conn[c] \in Records /\ conn \in [Clients -> Records]
      /\ conn[c].phase = "headers" /\ ~conn[c].dead /\ ~conn[c].renamed
      /\ conn[c].temp = None /\ d \in Daemons /\ Running(d) /\ at[d] = "loop"
  <2>1. /\ conn[c] \in Records /\ conn \in [Clients -> Records] /\ d \in Daemons
    BY DEF Inv, TypeOK, Records
  <2>2. /\ conn[c].phase = "headers" /\ ~conn[c].dead /\ Running(d) /\ at[d] = "loop"
    BY DEF AdmitUpload, Live, InLoop
  <2>3. ConnOK(c)
    BY DEF Inv
  <2>4. conn[c].temp = None /\ ~conn[c].renamed
    BY <2>2, <2>3 DEF ConnOK, TempOK
  <2>. QED BY <2>1, <2>2, <2>4
<1>3. /\ at' = [at EXCEPT ![d] = "statvfs"] /\ job' = [job EXCEPT ![d] = c]
      /\ UNCHANGED <<pid, count, temps, roms, stable, raced, dirFsync>>
  BY DEF AdmitUpload, fileVars, otherVars
<1>4. /\ conn' = [conn EXCEPT ![c] = k] /\ conn'[c] = k
      /\ k \in Records /\ k.phase = "headers" /\ k.temp = None /\ ~k.dead
      /\ ~k.renamed /\ k.body = b /\ k.name = n
  BY <1>1, <1>2 DEF Records
<1>. HIDE DEF k
<1>5. /\ at' \in [Daemons -> Steps] /\ job' \in [Daemons -> Clients \cup {None}]
      /\ at'[d] = "statvfs" /\ job'[d] = c
      /\ \A e \in Daemons \ {d} : at'[e] = at[e] /\ job'[e] = job[e]
      /\ at[d] # "loop" => job[d] = c
  BY <1>2, <1>3 DEF Inv, TypeOK, Steps
<1>9. ASSUME NEW e \in Clients, Server[e] = d, conn'[e].temp # None PROVE conn'[e].dead
  <2>1. e # c /\ conn'[e] = conn[e]
    BY <1>2, <1>4, <1>9
  <2>2. conn[e].phase = "upload"
    BY <2>1, <1>9 DEF Inv, ConnOK, TempOK
  <2> DEFINE U == {x \in Clients : /\ Server[x] = d /\ ~conn[x].dead
                                   /\ conn[x].phase = "upload"}
  <2>3. IsFiniteSet(Clients) /\ U \in SUBSET Clients
    BY UploadAssumption
  <2>4. IsFiniteSet(U) /\ Cardinality(U) = 0
    BY <2>3, FS_Subset DEF AdmitUpload, ActiveUploadCount
  <2>5. U = {}
    BY <2>4, FS_EmptySet
  <2>. QED BY <2>1, <2>2, <2>5, <1>9
<1>6. JobOK(d)' /\ ConnOK(c)'
  BY <1>2, <1>3, <1>4, <1>5, <1>9 DEF JobOK, ConnOK, TempOK, Running
<1>7. /\ \A e \in Clients \ {c} : conn[e].temp # None =>
           /\ temps'[conn[e].temp] = temps[conn[e].temp]
           /\ conn[e].temp # k.temp
      /\ \A t \in TempNames : temps'[t] # Absent =>
           t = k.temp \/ (temps[t] # Absent /\ t # conn[c].temp)
  BY <1>2, <1>3, <1>4
<1>8. /\ temps' \in [TempNames -> Files] /\ pid' = pid /\ count' \in Counts
      /\ raced' \in BOOLEAN /\ dirFsync' = dirFsync
      /\ roms' \in [Names -> WholeFiles] /\ stable' \in [Names -> WholeFiles]
  BY <1>3 DEF Inv, TypeOK, Counts
<1>10. OthersKeep(c, k.temp)
  BY <1>7 DEF OthersKeep
<1>. HIDE DEF d
<1>. QED BY <1>2, <1>4, <1>5, <1>6, <1>7, <1>8, <1>10, OneClient DEF d

\* The checks change nothing but where the thread is and what it has counted.
LEMMA Checks ==
    ASSUME Inv, NEW d \in Daemons,
           CheckSpace(d) \/ OpenDirectory(d) \/ CountFile(d) \/ CheckQuota(d)
    PROVE  Inv'
<1>. USE NoneApart
<1>1. PICK c \in Clients : c = job[d]
  BY DEF CheckSpace, OpenDirectory, CountFile, CheckQuota, Inv, JobOK
<1> DEFINE k == conn[c]
<1>2. /\ d = Server[c] /\ k \in Records /\ conn \in [Clients -> Records]
      /\ at[d] \in {"statvfs", "opendir", "scan"} /\ at[d] # "loop"
      /\ k.phase \in {"headers", "upload"}
  BY <1>1 DEF CheckSpace, OpenDirectory, CountFile, CheckQuota, Inv, TypeOK, Records,
              JobOK
<1>3. UNCHANGED <<pid, job, conn, temps, roms, stable, raced, dirFsync>>
  BY DEF CheckSpace, OpenDirectory, CountFile, CheckQuota, Goto, fileVars, otherVars
<1>4. /\ at \in [Daemons -> Steps] /\ job \in [Daemons -> Clients \cup {None}]
      /\ count \in Counts /\ temps \in [TempNames -> Files]
      /\ roms \in [Names -> Files] /\ raced \in BOOLEAN
      /\ roms \in [Names -> WholeFiles] /\ stable \in [Names -> WholeFiles]
  BY DEF Inv, TypeOK, Counts
<1>5. /\ at' \in [Daemons -> Steps]
      /\ \A e \in Daemons \ {d} : at'[e] = at[e]
      /\ at'[d] \in {"opendir", "scan", "create", "rename"}
      /\ at'[d] = "create" => k.phase = "headers"
      /\ at'[d] = "rename" => k.phase = "upload"
      /\ k.phase = "upload" => k.body \in Valid
  <2>1. CASE CheckSpace(d)
    BY <2>1, <1>1, <1>2, <1>4 DEF CheckSpace, Goto, Admitting, Steps
  <2>2. CASE OpenDirectory(d)
    BY <2>2, <1>1, <1>2, <1>4 DEF OpenDirectory, Steps, Inv, JobOK
  <2>3. CASE CountFile(d)
    BY <2>3, <1>1, <1>2, <1>4 DEF CountFile, Steps, Inv, JobOK
  <2>4. CASE CheckQuota(d)
    <3>1. /\ at[d] = "scan" /\ (k.phase = "upload" => k.body \in Valid)
      BY <2>4, <1>1 DEF CheckQuota, Inv, JobOK
    <3>2. at' = [at EXCEPT ![d] = IF k.phase = "headers" THEN "create" ELSE "rename"]
      BY <2>4, <1>1 DEF CheckQuota, Admitting
    <3>. QED BY <3>1, <3>2, <1>2, <1>4 DEF Steps
  <2>. QED BY <2>1, <2>2, <2>3, <2>4
<1>6. count' \in Counts
  <2>1. CASE CheckSpace(d)
    BY <2>1, <1>4 DEF CheckSpace, Goto
  <2>2. CASE OpenDirectory(d)
    BY <2>2, <1>4 DEF OpenDirectory, Existing, Counts
  <2>3. CASE CountFile(d)
    <3>1. PICK e \in count[d].unread :
            count' = [count EXCEPT ![d] =
              [unread |-> count[d].unread \ {e},
               used   |-> count[d].used
                            + (IF e \in Names THEN roms[e].len ELSE temps[e].len)]]
      BY <2>3 DEF CountFile
    <3>2. /\ count[d].unread \in SUBSET (Names \cup TempNames) /\ count[d].used \in Nat
          /\ (IF e \in Names THEN roms[e].len ELSE temps[e].len) \in Nat
      BY <1>4 DEF Counts, Files
    <3>3. [unread |-> count[d].unread \ {e},
           used   |-> count[d].used
                        + (IF e \in Names THEN roms[e].len ELSE temps[e].len)]
            \in [unread : SUBSET (Names \cup TempNames), used : Nat]
      BY <3>2
    <3>. QED BY <3>1, <3>3, <1>4 DEF Counts
  <2>4. CASE CheckQuota(d)
    BY <2>4, <1>4 DEF CheckQuota, NoCount, Counts
  <2>. QED BY <2>1, <2>2, <2>3, <2>4
<1>7. JobOK(d)' /\ ConnOK(c)'
  <2>1. JobOK(d) /\ ConnOK(c)
    BY DEF Inv
  <2>2. conn'[c] = k /\ job'[d] = c /\ temps' = temps /\ pid' = pid
    BY <1>1, <1>3
  <2>. QED BY <1>1, <1>2, <1>3, <1>5, <2>1, <2>2 DEF JobOK, ConnOK, TempOK, Running
<1>8. /\ \A e \in Clients \ {c} : conn[e].temp # None =>
           /\ temps'[conn[e].temp] = temps[conn[e].temp]
           /\ conn[e].temp # k.temp
      /\ \A x \in TempNames : temps'[x] # Absent =>
           x = k.temp \/ (temps[x] # Absent /\ x # conn[c].temp)
  BY <1>3 DEF Inv, TempsDiffer
<1>9. conn' = [conn EXCEPT ![c] = k] /\ job' = job
  BY <1>2, <1>3
<1>10. OthersKeep(c, k.temp)
  BY <1>8 DEF OthersKeep
<1>11. /\ roms' \in [Names -> WholeFiles] /\ stable' \in [Names -> WholeFiles]
       /\ temps' \in [TempNames -> Files] /\ raced' \in BOOLEAN
       /\ job' \in [Daemons -> Clients \cup {None}]
       /\ \A e \in Daemons \ {d} : at'[e] = at[e] /\ job'[e] = job[e]
       /\ pid' = pid /\ dirFsync' = dirFsync
  BY <1>3, <1>4, <1>5
<1>. HIDE DEF k
<1>12. c \in Clients /\ d = Server[c] /\ (at[d] # "loop" => job[d] = c)
  BY <1>1, <1>2
<1>13. k \in Records /\ at' \in [Daemons -> Steps]
  BY <1>2, <1>5
<1>14. \A t \in TempNames : temps'[t] # Absent =>
         t = k.temp \/ (temps[t] # Absent /\ t # conn[c].temp)
  BY <1>8
<1>. QED BY <1>6, <1>7, <1>9, <1>10, <1>11, <1>12, <1>13, <1>14, OneClient

\* fsync of the temporary
LEMMA Syncs ==
    ASSUME Inv, NEW d \in Daemons, SyncTemp(d) PROVE Inv'
<1>. USE NoneApart
<1> DEFINE c == job[d]
           k == conn[c]
           t == k.temp
<1>1. /\ c \in Clients /\ d = Server[c] /\ k \in Records /\ Running(d)
      /\ conn \in [Clients -> Records]
      /\ t \in TempNames /\ temps[t].body = k.body /\ temps[t].len = k.got
      /\ k.phase = "upload" /\ ~k.dead /\ ~k.renamed
      /\ k.got = Length[k.body] /\ at[d] = "fsync"
      /\ k.body \in Bodies /\ k.name \in Names /\ t[1] = pid[d]
  BY DEF SyncTemp, Inv, TypeOK, Records, JobOK, ConnOK, TempOK
<1>2. /\ conn' = [conn EXCEPT ![c] = k] /\ conn' = conn
      /\ UNCHANGED <<pid, job, count, roms, stable, raced, dirFsync>>
  BY <1>1 DEF SyncTemp, Goto, otherVars
<1>3. /\ at' \in [Daemons -> Steps] /\ job' \in [Daemons -> Clients \cup {None}]
      /\ \A e \in Daemons \ {d} : at'[e] = at[e] /\ job'[e] = job[e]
      /\ at'[d] = "statvfs"
  BY <1>2 DEF SyncTemp, Goto, Inv, TypeOK, Steps
<1>4. /\ temps' \in [TempNames -> Files] /\ temps'[t].synced
      /\ temps'[t].body = k.body /\ temps'[t].len = k.got
      /\ \A x \in TempNames : x # t => temps'[x] = temps[x]
  <2>1. /\ temps' = [temps EXCEPT ![t] = [temps[t] EXCEPT !.synced = TRUE]]
        /\ temps \in [TempNames -> Files] /\ temps[t] \in Files
    BY <1>1 DEF SyncTemp, Inv, TypeOK
  <2>2. /\ [temps[t] EXCEPT !.synced = TRUE] \in Files
        /\ [temps[t] EXCEPT !.synced = TRUE].synced
        /\ [temps[t] EXCEPT !.synced = TRUE].body = k.body
        /\ [temps[t] EXCEPT !.synced = TRUE].len = k.got
    BY <2>1, <1>1 DEF Files
  <2>. HIDE DEF t
  <2>. QED BY <2>1, <2>2, <1>1
<1>5. JobOK(d)' /\ ConnOK(c)'
  BY <1>1, <1>2, <1>3, <1>4 DEF JobOK, ConnOK, TempOK, Running
<1>6. /\ \A e \in Clients \ {c} : conn[e].temp # None =>
           /\ temps'[conn[e].temp] = temps[conn[e].temp]
           /\ conn[e].temp # k.temp
      /\ \A x \in TempNames : temps'[x] # Absent =>
           x = k.temp \/ (temps[x] # Absent /\ x # conn[c].temp)
  BY <1>1, <1>4 DEF Inv, TypeOK, TempsDiffer
<1>7. /\ pid' = pid /\ count' \in Counts /\ raced' \in BOOLEAN /\ dirFsync' = dirFsync
      /\ roms' \in [Names -> WholeFiles] /\ stable' \in [Names -> WholeFiles]
  BY <1>2 DEF Inv, TypeOK, Counts
<1>8. OthersKeep(c, k.temp)
  BY <1>6 DEF OthersKeep
<1>. HIDE DEF c, k, t
<1>. QED BY <1>1, <1>2, <1>3, <1>4, <1>5, <1>6, <1>7, <1>8, OneClient DEF c

\* finish_upload renames what it has synced and checked.
LEMMA Renames ==
    ASSUME Inv, NEW d \in Daemons, RenameTemp(d) PROVE Inv'
<1>. USE NoneApart
<1>0. PICK c \in Clients, t \in TempNames : c = job[d] /\ t = conn[c].temp
  BY DEF RenameTemp, Inv, TypeOK, JobOK, Records
<1> DEFINE k == [conn[c] EXCEPT !.temp = None, !.renamed = TRUE]
<1>1. /\ c \in Clients /\ d = Server[c] /\ conn[c] \in Records /\ Running(d)
      /\ conn \in [Clients -> Records] /\ at[d] = "rename"
      /\ t \in TempNames /\ temps[t] \in Files /\ t # None
      /\ temps[t].body = conn[c].body /\ temps[t].len = conn[c].got
      /\ temps[t].synced /\ conn[c].got = Length[conn[c].body]
      /\ conn[c].body \in Valid /\ conn[c].name \in Names
      /\ conn[c].phase = "upload" /\ ~conn[c].dead
  <2>1. /\ d = Server[c] /\ conn[c] \in Records /\ Running(d)
        /\ conn \in [Clients -> Records] /\ at[d] = "rename"
        /\ temps[t] \in Files /\ t # None
    BY <1>0 DEF RenameTemp, Inv, TypeOK, Records, JobOK
  <2>2. /\ temps[t].synced /\ conn[c].got = Length[conn[c].body]
        /\ conn[c].body \in Valid /\ conn[c].name \in Names
        /\ conn[c].phase = "upload" /\ ~conn[c].dead
    BY <1>0, <2>1 DEF Inv, JobOK
  <2>3. temps[t].body = conn[c].body /\ temps[t].len = conn[c].got
    BY <1>0, <2>1, <2>2 DEF Inv, ConnOK, TempOK
  <2>. QED BY <2>1, <2>2, <2>3
<1>2. /\ conn' = [conn EXCEPT ![c] = k] /\ conn'[c] = k
      /\ roms' = [roms EXCEPT ![conn[c].name] = temps[t]]
      /\ temps' = [temps EXCEPT ![t] = Absent]
      /\ UNCHANGED <<pid, job, count, stable, dirFsync>>
      /\ at' = [at EXCEPT ![d] = "dirsync"]
  BY <1>0, <1>1 DEF RenameTemp, Goto
<1>3. /\ k \in Records /\ k.temp = None /\ k.renamed /\ ~k.dead
      /\ k.phase = "upload" /\ k.body = conn[c].body /\ k.name = conn[c].name
  BY <1>1 DEF Records
<1>. HIDE DEF k
<1>4. /\ at' \in [Daemons -> Steps] /\ job' \in [Daemons -> Clients \cup {None}]
      /\ \A e \in Daemons \ {d} : at'[e] = at[e] /\ job'[e] = job[e]
      /\ at'[d] = "dirsync"
  BY <1>2 DEF Inv, TypeOK, Steps
<1>5. temps[t] \in WholeFiles
  <2>1. temps[t] = File(conn[c].body, Length[conn[c].body], TRUE)
    BY <1>1 DEF File, Files
  <2>. QED BY <2>1, <1>1 DEF WholeFiles
<1>6. /\ temps' \in [TempNames -> Files] /\ temps'[t] = Absent
      /\ \A x \in TempNames : x # t => temps'[x] = temps[x]
  BY <1>1, <1>2, FilesTyped DEF Inv, TypeOK
<1>7. /\ roms' \in [Names -> WholeFiles] /\ stable' \in [Names -> WholeFiles]
  BY <1>1, <1>2, <1>5 DEF Inv
<1>8. JobOK(d)' /\ ConnOK(c)'
  BY <1>0, <1>1, <1>2, <1>3, <1>4 DEF JobOK, ConnOK, TempOK, Running
<1>9. /\ \A e \in Clients \ {c} : conn[e].temp # None =>
           /\ temps'[conn[e].temp] = temps[conn[e].temp]
           /\ conn[e].temp # k.temp
      /\ \A x \in TempNames : temps'[x] # Absent =>
           x = k.temp \/ (temps[x] # Absent /\ x # conn[c].temp)
  <2>2. \A e \in Clients \ {c} : conn[e].temp # None =>
          conn[e].temp \in TempNames /\ conn[e].temp # t
    BY <1>0, <1>1 DEF Records, Inv, TempsDiffer
  <2>3. \A e \in Clients \ {c} : conn[e].temp # None =>
           /\ temps'[conn[e].temp] = temps[conn[e].temp]
           /\ conn[e].temp # k.temp
    BY <2>2, <1>3, <1>6
  <2>4. \A x \in TempNames : temps'[x] # Absent =>
           x = k.temp \/ (temps[x] # Absent /\ x # conn[c].temp)
    BY <1>0, <1>6
  <2>. QED BY <2>3, <2>4
<1>10. pid' = pid /\ count' \in Counts /\ raced' \in BOOLEAN /\ dirFsync' = dirFsync
  BY <1>2 DEF RenameTemp, Inv, TypeOK, Counts
<1>11. /\ d = Server[c] /\ job[d] = c /\ conn' = [conn EXCEPT ![c] = k] /\ k \in Records
  BY <1>0, <1>1, <1>2, <1>3
<1>12. temps' \in [TempNames -> Files]
  BY <1>6
<1>13. OthersKeep(c, k.temp)
  BY <1>9 DEF OthersKeep
<1>. QED BY <1>11, <1>12, <1>13, <1>4, <1>7, <1>8, <1>9, <1>10, OneClient

\* More of the body is written to the client's own file, which may be new.
LEMMA Writes ==
    ASSUME Inv, NEW c \in Clients, NEW d \in Daemons, d = Server[c], Running(d),
           at[d] # "loop" => job[d] = c,
           conn[c] \in Records, conn[c].body \in Bodies, conn[c].name \in Names,
           ~conn[c].dead, ~conn[c].renamed,
           NEW t \in TempNames, t[1] = pid[d],
           \A e \in Clients \ {c} : conn[e].temp # t,
           conn[c].temp \in {None, t}, NEW n \in Nat,
           temps' = [temps EXCEPT ![t] = File(conn[c].body, n, FALSE)],
           conn' = [conn EXCEPT ![c] = [conn[c] EXCEPT !.phase = "upload",
                                                       !.temp = t, !.got = n]],
           at' \in [Daemons -> Steps], job' \in [Daemons -> Clients \cup {None}],
           \A e \in Daemons \ {d} : at'[e] = at[e] /\ job'[e] = job[e],
           \/ at'[d] = "loop"
           \/ at'[d] = "fsync" /\ job'[d] = c /\ n = Length[conn[c].body],
           count' \in Counts, UNCHANGED <<pid, roms, stable, raced, dirFsync>>
    PROVE  Inv'
<1>. USE NoneApart
<1> DEFINE k == [conn[c] EXCEPT !.phase = "upload", !.temp = t, !.got = n]
<1>1. /\ k \in Records /\ k.temp = t /\ ~k.renamed /\ ~k.dead /\ k.got = n
      /\ k.phase = "upload" /\ k.body = conn[c].body /\ k.name = conn[c].name
      /\ conn' = [conn EXCEPT ![c] = k]
  BY DEF Records, Phases
<1>. HIDE DEF k
<1>2. conn'[c] = k
  BY <1>1 DEF Inv, TypeOK
<1>3. /\ temps' \in [TempNames -> Files]
      /\ temps'[t] = File(k.body, n, FALSE)
      /\ \A x \in TempNames : x # t => temps'[x] = temps[x]
  BY <1>1, FilesTyped DEF Inv, TypeOK
<1>4. temps'[t].body = k.body /\ temps'[t].len = n
  BY <1>3 DEF File
<1>5. JobOK(d)' /\ ConnOK(c)'
  BY <1>1, <1>2, <1>4 DEF JobOK, ConnOK, TempOK, Running
<1>6. \A e \in Clients \ {c} : conn[e].temp # None =>
        /\ temps'[conn[e].temp] = temps[conn[e].temp]
        /\ conn[e].temp # k.temp
  <2>1. conn \in [Clients -> Records]
    BY DEF Inv, TypeOK, Records
  <2>2. \A e \in Clients \ {c} : conn[e].temp # None =>
          conn[e].temp \in TempNames /\ conn[e].temp # t
    BY <2>1 DEF Records
  <2>. QED BY <2>2, <1>1, <1>3
<1>8. \A x \in TempNames : temps'[x] # Absent =>
        x = k.temp \/ (temps[x] # Absent /\ x # conn[c].temp)
  <2> SUFFICES ASSUME NEW x \in TempNames, temps'[x] # Absent, x # t
               PROVE  temps[x] # Absent /\ x # conn[c].temp
    BY <1>1
  <2>. QED BY <1>3
<1>7. /\ pid' = pid /\ raced' \in BOOLEAN
      /\ roms' \in [Names -> WholeFiles] /\ stable' \in [Names -> WholeFiles]
  BY DEF Inv, TypeOK
<1>9. OthersKeep(c, k.temp)
  BY <1>6 DEF OthersKeep
<1>. QED BY <1>1, <1>3, <1>5, <1>7, <1>8, <1>9, OneClient

LEMMA Reads ==
    ASSUME Inv, NEW c \in Clients, ReadUpload(c) PROVE Inv'
<1>. USE NoneApart
<1>1. /\ Server[c] \in Daemons /\ Running(Server[c]) /\ at[Server[c]] = "loop"
      /\ conn[c] \in Records /\ conn[c].phase = "upload" /\ ~conn[c].dead
      /\ ~conn[c].renamed /\ conn[c].temp # None /\ conn[c].got \in Nat
  BY DEF ReadUpload, Live, InLoop, Inv, TypeOK, Records, ConnOK
<1>2. PICK d \in Daemons, t \in TempNames : d = Server[c] /\ t = conn[c].temp
  BY <1>1 DEF Records
<1>3. /\ t[1] = pid[d] /\ conn[c].body \in Bodies /\ conn[c].name \in Names
      /\ \A e \in Clients \ {c} : conn[e].temp # t
  BY <1>1, <1>2 DEF Inv, ConnOK, TempOK, TempsDiffer
<1>4. PICK m \in {0, 1} :
        /\ temps' = [temps EXCEPT ![t] = File(conn[c].body, conn[c].got + m, FALSE)]
        /\ conn' = [conn EXCEPT ![c].got = conn[c].got + m]
        /\ IF conn[c].got + m = Length[conn[c].body]
           THEN /\ at' = [at EXCEPT ![d] = "fsync"]
                /\ job' = [job EXCEPT ![d] = c]
                /\ UNCHANGED count
           ELSE UNCHANGED threadVars
  BY <1>2 DEF ReadUpload
<1>5. PICK n \in Nat : n = conn[c].got + m
  BY <1>1
<1>6. conn' = [conn EXCEPT ![c] = [conn[c] EXCEPT !.phase = "upload", !.temp = t,
                                                  !.got = n]]
  BY <1>1, <1>2, <1>4, <1>5 DEF Records
<1>7. /\ at' \in [Daemons -> Steps] /\ job' \in [Daemons -> Clients \cup {None}]
      /\ \A e \in Daemons \ {d} : at'[e] = at[e] /\ job'[e] = job[e]
      /\ \/ at'[d] = "loop"
         \/ at'[d] = "fsync" /\ job'[d] = c /\ n = Length[conn[c].body]
  <2>1. at \in [Daemons -> Steps] /\ job \in [Daemons -> Clients \cup {None}]
    BY DEF Inv, TypeOK
  <2>. QED BY <2>1, <1>1, <1>2, <1>4, <1>5 DEF Steps, threadVars
<1>8. temps' = [temps EXCEPT ![t] = File(conn[c].body, n, FALSE)]
  BY <1>4, <1>5
<1>9. UNCHANGED <<pid, roms, stable, raced, dirFsync>> /\ count' \in Counts
  BY <1>4 DEF ReadUpload, otherVars, threadVars, Inv, TypeOK, Counts
<1>. QED BY <1>1, <1>2, <1>3, <1>6, <1>7, <1>8, <1>9, Writes

LEMMA Creates ==
    ASSUME Inv, NEW d \in Daemons, CreateTemp(d) PROVE Inv'
<1>. USE NoneApart
<1>1. PICK c \in Clients : c = job[d]
  BY DEF CreateTemp, Inv, JobOK
<1>2. /\ d = Server[c] /\ conn[c] \in Records /\ Running(d)
      /\ at[d] = "create" /\ conn[c].temp = None /\ ~conn[c].dead
      /\ ~conn[c].renamed /\ conn[c].body \in Bodies /\ conn[c].name \in Names
  BY <1>1 DEF CreateTemp, Inv, TypeOK, Records, JobOK
<1>3. PICK t \in TempNames, n \in Nat :
        /\ t \in FirstUntaken(d) /\ n \in 0..Length[conn[c].body]
        /\ temps' = [temps EXCEPT ![t] = File(conn[c].body, n, FALSE)]
        /\ conn' = [conn EXCEPT ![c].phase = "upload", ![c].temp = t, ![c].got = n]
        /\ IF n = Length[conn[c].body] THEN Goto(d, "fsync") ELSE Loop(d)
  <2>1. PICK t \in FirstUntaken(d), n \in 0..Length[conn[c].body] :
        /\ temps' = [temps EXCEPT ![t] = File(conn[c].body, n, FALSE)]
        /\ conn' = [conn EXCEPT ![c].phase = "upload", ![c].temp = t, ![c].got = n]
        /\ IF n = Length[conn[c].body] THEN Goto(d, "fsync") ELSE Loop(d)
    BY <1>1 DEF CreateTemp
  <2>2. t \in TempNames /\ n \in Nat
    BY <1>2 DEF FirstUntaken, Untaken
  <2>. QED BY <2>1, <2>2
<1>4. t[1] = pid[d] /\ \A e \in Clients \ {c} : conn[e].temp # t
  BY <1>3 DEF FirstUntaken, Untaken
<1>6. conn' = [conn EXCEPT ![c] = [conn[c] EXCEPT !.phase = "upload", !.temp = t,
                                                  !.got = n]]
  BY <1>2, <1>3 DEF Records, Inv, TypeOK
<1>7. /\ at' \in [Daemons -> Steps] /\ job' \in [Daemons -> Clients \cup {None}]
      /\ \A e \in Daemons \ {d} : at'[e] = at[e] /\ job'[e] = job[e]
      /\ \/ at'[d] = "loop"
         \/ at'[d] = "fsync" /\ job'[d] = c /\ n = Length[conn[c].body]
  <2>1. at \in [Daemons -> Steps] /\ job \in [Daemons -> Clients \cup {None}]
    BY DEF Inv, TypeOK
  <2>. QED BY <2>1, <1>1, <1>3 DEF Steps, Goto, Loop
<1>8. UNCHANGED <<pid, roms, stable, raced, dirFsync>> /\ count' \in Counts
  BY <1>3 DEF CreateTemp, otherVars, Goto, Loop, NoCount, Inv, TypeOK, Counts
<1>. QED BY <1>1, <1>2, <1>3, <1>4, <1>6, <1>7, <1>8, Writes

-----------------------------------------------------------------------------
(* Processes *)

\* A new daemon takes an id that no daemon has, and what is left of the id's
\* earlier owners is removed; the others keep their temporaries.
LEMMA Starts ==
    ASSUME Inv, NEW d \in Daemons, Start(d) PROVE Inv'
<1>. USE NoneApart
<1> DEFINE taken == {pid[e] : e \in Daemons}
<1>1. PICK p \in Pids \ taken, others \in SUBSET Pids :
        /\ pid' = [pid EXCEPT ![d] = p]
        /\ temps' = CleanupAbandonedUploads(p, taken \cup others)
  BY DEF Start
<1>2. /\ ~Running(d) /\ UNCHANGED <<at, job, count, conn, roms, stable, raced, dirFsync>>
      /\ pid \in [Daemons -> Pids \cup {None}] /\ temps \in [TempNames -> Files]
      /\ conn \in [Clients -> Records]
  BY DEF Start, threadVars, otherVars, Inv, TypeOK, Records
<1>3. /\ pid' \in [Daemons -> Pids \cup {None}] /\ pid'[d] = p /\ p # None
      /\ \A e \in Daemons \ {d} : pid'[e] = pid[e]
      /\ \A e \in Daemons : pid[e] # p /\ pid[e] \in taken
  BY <1>1, <1>2, UploadAssumption
<1>4. /\ temps' \in [TempNames -> Files]
      /\ \A t \in TempNames : temps'[t] = temps[t] \/ temps'[t] = Absent
      /\ \A t \in TempNames : t[1] = p => temps'[t] = Absent
      /\ \A t \in TempNames : t[1] \in taken /\ t[1] # p => temps'[t] = temps[t]
  BY <1>1, <1>2, FilesTyped DEF CleanupAbandonedUploads
<1>. HIDE DEF taken
<1>5. TypeOK'
  BY <1>2, <1>3, <1>4 DEF Inv, TypeOK
<1>6. PidsDiffer'
  BY <1>3 DEF Inv, PidsDiffer, Running
<1>7. ASSUME NEW c \in Clients, conn[c].temp # None
      PROVE  /\ Server[c] # d /\ Server[c] \in Daemons
             /\ temps'[conn[c].temp] = temps[conn[c].temp]
  <2>1. /\ Running(Server[c]) /\ conn[c].temp[1] = pid[Server[c]]
        /\ conn[c].temp \in TempNames /\ Server[c] \in Daemons
    BY <1>2, <1>7 DEF Inv, ConnOK, TempOK, Records
  <2>2. conn[c].temp[1] \in taken /\ conn[c].temp[1] # p
    BY <2>1, <1>3
  <2>3. Server[c] # d
    BY <2>1, <1>2
  <2>4. temps'[conn[c].temp] = temps[conn[c].temp]
    BY <2>1, <2>2, <1>4
  <2>. QED BY <2>1, <2>3, <2>4
<1>8. ASSUME NEW c \in Clients PROVE ConnOK(c)'
  <2>1. /\ conn'[c] = conn[c] /\ at' = at /\ job' = job /\ ConnOK(c)
    BY <1>2 DEF Inv
  <2>2. conn[c].temp # None => /\ pid'[Server[c]] = pid[Server[c]]
                               /\ temps'[conn[c].temp] = temps[conn[c].temp]
    BY <1>3, <1>7
  <2>. QED BY <2>1, <2>2, ConnFrame
<1>9. ASSUME NEW e \in Daemons PROVE JobOK(e)'
  <2>1. CASE at[e] = "loop"
    BY <2>1, <1>2 DEF JobOK
  <2>2. CASE at[e] # "loop"
    <3>1. JobOK(e) /\ Running(e) /\ job[e] \in Clients
      BY <2>2 DEF Inv, JobOK
    <3>2. pid'[e] = pid[e]
      BY <3>1, <1>2, <1>3
    <3>3. conn[job[e]].temp # None =>
            temps'[conn[job[e]].temp] = temps[conn[job[e]].temp]
      BY <3>1, <1>7
    <3>4. at' = at /\ job' = job /\ conn' = conn
      BY <1>2
    <3>. QED BY <3>1, <3>2, <3>3, <3>4, JobFrame
  <2>. QED BY <2>1, <2>2
<1>10. TempsDiffer'
  BY <1>2 DEF Inv, TempsDiffer
<1>11. TempsOwned'
  <2> SUFFICES ASSUME NEW e \in Daemons, NEW t \in TempNames, pid'[e] # None,
                      t[1] = pid'[e], temps'[t] # Absent
               PROVE  \E c \in Clients : Server[c] = e /\ conn[c].temp = t
    BY <1>2 DEF TempsOwned, Running
  <2>1. t[1] # p /\ temps[t] # Absent
    BY <1>4
  <2>0. e # d
    BY <2>1, <1>3
  <2>2. Running(e) /\ t[1] = pid[e]
    BY <2>0, <1>3 DEF Running
  <2>. QED BY <2>1, <2>2 DEF Inv, TempsOwned
<1>12. roms' \in [Names -> WholeFiles] /\ stable' \in [Names -> WholeFiles]
  BY <1>2 DEF Inv
<1>. QED BY <1>5, <1>6, <1>8, <1>9, <1>10, <1>11, <1>12 DEF Inv

\* Daemons disappear; the temporaries of the others are as they were.
LEMMA Forgets ==
    ASSUME Inv, NEW D \in SUBSET Daemons, Forgotten(D),
           temps' \in [TempNames -> Files],
           \A e \in Daemons \ D : Running(e) =>
                \A t \in TempNames : t[1] = pid[e] => temps'[t] = temps[t],
           roms' \in [Names -> WholeFiles], stable' \in [Names -> WholeFiles],
           raced' \in BOOLEAN, dirFsync' = dirFsync
    PROVE  Inv'
<1>. USE NoneApart
<1>1. /\ conn \in [Clients -> Records] /\ pid \in [Daemons -> Pids \cup {None}]
      /\ at \in [Daemons -> Steps] /\ job \in [Daemons -> Clients \cup {None}]
  BY DEF Inv, TypeOK, Records
<1>2. /\ conn' \in [Clients -> Records]
      /\ \A c \in Clients : conn'[c] = IF Server[c] \in D THEN Free ELSE conn[c]
  BY <1>1, RecordsFree DEF Forgotten
<1>3. /\ pid' \in [Daemons -> Pids \cup {None}] /\ at' \in [Daemons -> Steps]
      /\ job' \in [Daemons -> Clients \cup {None}]
      /\ \A d \in D : pid'[d] = None /\ at'[d] = "loop"
      /\ \A e \in Daemons \ D : pid'[e] = pid[e] /\ at'[e] = at[e] /\ job'[e] = job[e]
  BY <1>1 DEF Forgotten, Steps
<1>4. TypeOK'
  <2>1. roms' \in [Names -> Files] /\ stable' \in [Names -> Files]
    BY FilesTyped
  <2>2. count' \in [Daemons -> [unread : SUBSET (Names \cup TempNames), used : Nat]]
    BY DEF Forgotten, NoCount, Inv, TypeOK
  <2>3. dirFsync \in BOOLEAN
    BY DEF Inv, TypeOK
  <2>. QED BY <1>2, <1>3, <2>1, <2>2, <2>3 DEF TypeOK, Records
<1>5. PidsDiffer'
  BY <1>3 DEF Inv, PidsDiffer, Running
<1>6. ASSUME NEW c \in Clients, Server[c] \notin D, conn[c].temp # None
      PROVE  temps'[conn[c].temp] = temps[conn[c].temp]
  BY <1>1, <1>6 DEF Inv, ConnOK, TempOK, Records
<1>7. ASSUME NEW c \in Clients PROVE ConnOK(c)'
  <2>1. CASE Server[c] \in D
    <3>1. conn'[c].phase # "upload" /\ conn'[c].temp = None /\ ~conn'[c].renamed
      BY <2>1, <1>2 DEF Free
    <3>. QED BY <3>1 DEF ConnOK, TempOK
  <2>2. CASE Server[c] \notin D
    <3>1. Server[c] \in Daemons \ D /\ conn'[c] = conn[c] /\ ConnOK(c)
      BY <2>2, <1>2 DEF Inv
    <3>. QED BY <3>1, <2>2, <1>3, <1>6, ConnFrame
  <2>. QED BY <2>1, <2>2
<1>8. ASSUME NEW e \in Daemons PROVE JobOK(e)'
  <2>1. CASE at'[e] = "loop"
    BY <2>1 DEF JobOK
  <2>2. CASE at'[e] # "loop"
    <3>1. e \in Daemons \ D /\ at[e] # "loop"
      BY <2>2, <1>3
    <3>2. JobOK(e) /\ job[e] \in Clients /\ Server[job[e]] = e
      BY <3>1 DEF Inv, JobOK
    <3>3. /\ \A c \in Clients : Server[c] = e => conn'[c] = conn[c]
          /\ conn[job[e]].temp # None =>
               temps'[conn[job[e]].temp] = temps[conn[job[e]].temp]
      BY <3>1, <3>2, <1>2, <1>6
    <3>. QED BY <3>1, <3>2, <3>3, <1>3, JobFrame
  <2>. QED BY <2>1, <2>2
<1>9. TempsDiffer'
  BY <1>2, RecordsFree DEF Inv, TempsDiffer
<1>10. TempsOwned'
  <2> SUFFICES ASSUME NEW e \in Daemons, NEW t \in TempNames, pid'[e] # None,
                      t[1] = pid'[e], temps'[t] # Absent
               PROVE  \E c \in Clients : Server[c] = e /\ conn'[c].temp = t
    BY DEF TempsOwned, Running
  <2>1. e \in Daemons \ D /\ Running(e) /\ t[1] = pid[e]
    BY <1>3 DEF Running
  <2>2. PICK c \in Clients : Server[c] = e /\ conn[c].temp = t
    BY <2>1 DEF Inv, TempsOwned
  <2>. QED BY <2>1, <2>2, <1>2
<1>. QED BY <1>4, <1>5, <1>7, <1>8, <1>9, <1>10 DEF Inv

LEMMA Litters ==
    ASSUME NEW f \in Files PROVE Litter(f) \in Files /\ Absent \in Files
  BY FilesTyped DEF Litter, Files

LEMMA Kills ==
    ASSUME Inv, NEW d \in Daemons, Kill(d) PROVE Inv'
<1>1. /\ {d} \in SUBSET Daemons /\ Forgotten({d}) /\ Running(d)
      /\ UNCHANGED <<roms, stable>> /\ temps \in [TempNames -> Files]
      /\ temps' = [t \in TempNames |-> IF t[1] = pid[d] THEN Litter(temps[t])
                                                       ELSE temps[t]]
  BY DEF Kill, Inv, TypeOK
<1>2. temps' \in [TempNames -> Files]
  BY <1>1, Litters
<1>3. \A e \in Daemons \ {d} : Running(e) =>
        \A t \in TempNames : t[1] = pid[e] => temps'[t] = temps[t]
  BY <1>1 DEF Inv, PidsDiffer
<1>4. /\ roms' \in [Names -> WholeFiles] /\ stable' \in [Names -> WholeFiles]
      /\ raced' \in BOOLEAN /\ dirFsync' = dirFsync
  BY <1>1 DEF Kill, Inv, TypeOK
<1>. QED BY <1>1, <1>2, <1>3, <1>4, Forgets

LEMMA LosesPower ==
    ASSUME Inv, PowerLoss PROVE Inv'
<1>1. /\ Forgotten(Daemons) /\ stable' = roms' /\ temps \in [TempNames -> Files]
      /\ roms \in [Names -> WholeFiles] /\ stable \in [Names -> WholeFiles]
  BY DEF PowerLoss, Inv, TypeOK
<1>2. temps' \in [TempNames -> Files]
  BY <1>1, Litters, FilesTyped DEF PowerLoss
<1>3. \A f \in WholeFiles : AfterPowerLoss(f) = f
  BY DEF WholeFiles, AfterPowerLoss, Absent, File
<1>4. roms' \in [Names -> WholeFiles]
  BY <1>1, <1>3 DEF PowerLoss
<1>5. /\ Daemons \in SUBSET Daemons /\ Daemons \ Daemons = {}
      /\ raced' \in BOOLEAN /\ dirFsync' = dirFsync
  BY DEF PowerLoss
<1>. QED BY <1>1, <1>2, <1>4, <1>5, Forgets

-----------------------------------------------------------------------------
(* The invariant *)

LEMMA InvInit == Init => Inv
<1> SUFFICES ASSUME Init PROVE Inv
  OBVIOUS
<1>. USE NoneApart
<1>1. /\ conn = [c \in Clients |-> Free] /\ conn \in [Clients -> Records]
      /\ \A c \in Clients : conn[c].temp = None
      /\ \A d \in Daemons : at[d] = "loop" /\ ~Running(d)
  BY RecordsFree DEF Init, Running
<1>2. roms \in [Names -> WholeFiles] /\ stable = roms
  BY DEF Init, WholeFiles
<1>3. temps \in [TempNames -> Files]
  BY FilesTyped DEF Init
<1>4. roms \in [Names -> Files] /\ stable \in [Names -> Files]
  BY <1>2, FilesTyped
<1>5. TypeOK
  BY <1>1, <1>3, <1>4 DEF Init, TypeOK, Records, Steps, NoCount
<1>6. \A c \in Clients : ConnOK(c)
  BY <1>1 DEF ConnOK, TempOK, Free
<1>7. (\A d \in Daemons : JobOK(d)) /\ PidsDiffer /\ TempsDiffer /\ TempsOwned
  BY <1>1 DEF JobOK, PidsDiffer, TempsDiffer, TempsOwned
<1>. QED BY <1>2, <1>5, <1>6, <1>7 DEF Inv

LEMMA InvStutters ==
    ASSUME Inv, UNCHANGED vars PROVE Inv'
<1>1. UNCHANGED <<pid, at, job, count, conn, temps, roms, stable, raced, dirFsync>>
  BY DEF vars, threadVars, fileVars, otherVars
<1>2. TypeOK' /\ PidsDiffer' /\ TempsDiffer' /\ TempsOwned'
  BY <1>1 DEF Inv, TypeOK, PidsDiffer, TempsDiffer, TempsOwned, Running
<1>3. (\A d \in Daemons : JobOK(d)') /\ (\A c \in Clients : ConnOK(c)')
  BY <1>1 DEF Inv, JobOK, ConnOK, TempOK, Running
<1>. QED BY <1>1, <1>2, <1>3 DEF Inv

LEMMA InvSteps ==
    ASSUME Inv, [Next]_vars PROVE Inv'
<1>1. ASSUME NEW c \in Clients, ClientStep(c) PROVE Inv'
  BY <1>1, ClientDrops, Hangs, Admits, Reads DEF ClientStep
<1>2. ASSUME NEW d \in Daemons, DaemonStep(d) PROVE Inv'
  BY <1>2, Creates, CreationFails, HandlerEnds, Checks, Syncs, Renames, Starts, Kills
  DEF DaemonStep, FinishUpload
<1>. QED BY <1>1, <1>2, LosesPower, InvStutters DEF Next

LEMMA InvHolds == Spec => []Inv
  BY InvInit, InvSteps, PTL DEF Spec

-----------------------------------------------------------------------------
(* Answers *)

Honest(c) ==
    conn'[c].reply # conn[c].reply /\ conn'[c].reply # "none" =>
        /\ conn'[c].reply \in {"ok", "warned"} <=> conn[c].renamed
        /\ conn'[c].reply = "ok" /\ dirFsync =>
             stable'[conn[c].name] = roms'[conn[c].name]

\* A client in the loop has not renamed anything.
LEMMA LoopAnswers ==
    ASSUME Inv, NEW e \in Clients, ClientStep(e), NEW c \in Clients PROVE Honest(c)
<1>1. /\ conn \in [Clients -> Records] /\ conn[e] \in Records
      /\ at[Server[e]] = "loop" /\ ~conn[e].dead => ~conn[e].renamed
  BY DEF Inv, TypeOK, Records, ConnOK
<1>2. conn' = [conn EXCEPT ![e] = conn'[e]]
  BY <1>1 DEF ClientStep, RefuseUpload, Refuse, AdmitUpload, ReadUpload, WriteFails,
              Hangup, Deadline, DrainEnds, ClientDestroy
<1>3. CASE RefuseUpload(e) \/ WriteFails(e) \/ Deadline(e)
  <2>1. conn'[e].reply = "error" /\ ~conn[e].renamed
    BY <1>1, <1>3 DEF RefuseUpload, WriteFails, Deadline, Refuse, Live, InLoop, Free
  <2>. QED BY <1>1, <1>2, <2>1 DEF Honest
<1>4. CASE AdmitUpload(e) \/ ReadUpload(e) \/ Hangup(e)
  <2>1. conn'[e].reply = conn[e].reply
    <3>1. CASE AdmitUpload(e)
      BY <3>1, <1>1 DEF AdmitUpload, Records
    <3>2. CASE ReadUpload(e)
      <4>1. \E n \in {0, 1} : conn' = [conn EXCEPT ![e].got = conn[e].got + n]
        BY <3>2 DEF ReadUpload
      <4>. QED BY <4>1, <1>1 DEF Records
    <3>3. CASE Hangup(e)
      BY <3>3, <1>1 DEF Hangup, Records
    <3>. QED BY <1>4, <3>1, <3>2, <3>3
  <2>. QED BY <1>1, <1>2, <2>1 DEF Honest
<1>5. CASE DrainEnds(e) \/ ClientDestroy(e)
  <2>1. conn'[e].reply = "none"
    BY <1>1, <1>5 DEF DrainEnds, ClientDestroy, Free
  <2>. QED BY <1>1, <1>2, <2>1 DEF Honest
<1>. QED BY <1>3, <1>4, <1>5 DEF ClientStep

\* A handler answers for its own client.
LEMMA HandlerAnswers ==
    ASSUME Inv, NEW d \in Daemons, DaemonStep(d), NEW c \in Clients PROVE Honest(c)
<1>1. conn \in [Clients -> Records]
  BY DEF Inv, TypeOK, Records
<1>2. CASE Start(d)
  BY <1>2 DEF Start, Honest
<1>3. CASE Kill(d)
  <2>1. conn'[c] = conn[c] \/ conn'[c].reply = "none"
    BY <1>3 DEF Kill, Forgotten, Free
  <2>. QED BY <2>1 DEF Honest
<1>4. CASE \/ SyncTemp(d) \/ CheckSpace(d) \/ OpenDirectory(d) \/ CountFile(d)
           \/ CheckQuota(d)
  BY <1>4 DEF SyncTemp, CheckSpace, OpenDirectory, CountFile, CheckQuota, Honest
<1>5. CASE CreateTemp(d) \/ RenameTemp(d)
  <2>1. PICK e \in Clients : e = job[d]
    BY <1>5 DEF CreateTemp, RenameTemp, Inv, JobOK
  <2>2. conn'[e].reply = conn[e].reply /\ (c # e => conn'[c] = conn[c])
    <3>1. CASE CreateTemp(d)
      <4>1. PICK t \in FirstUntaken(d), n \in 0..Length[conn[e].body] :
              conn' = [conn EXCEPT ![e].phase = "upload", ![e].temp = t, ![e].got = n]
        BY <3>1, <2>1 DEF CreateTemp
      <4>. QED BY <4>1, <1>1 DEF Records
    <3>2. CASE RenameTemp(d)
      <4>1. conn' = [conn EXCEPT ![e].temp = None, ![e].renamed = TRUE]
        BY <3>2, <2>1 DEF RenameTemp
      <4>. QED BY <4>1, <1>1 DEF Records
    <3>. QED BY <1>5, <3>1, <3>2
  <2>. QED BY <2>2 DEF Honest
<1>6. CASE CreateFails(d) \/ FinishFails(d) \/ SyncDirectory(d) \/ SyncDirectoryFails(d)
  <2>1. PICK e \in Clients : e = job[d]
    BY <1>6 DEF CreateFails, FinishFails, SyncDirectory, SyncDirectoryFails, Inv, JobOK
  <2>2. conn[e].renamed <=> at[d] = "dirsync"
    BY <1>6, <2>1 DEF CreateFails, FinishFails, SyncDirectory, SyncDirectoryFails,
                      Admitting, Inv, JobOK
  <2>3. /\ c # e => conn'[c] = conn[c]
        /\ \/ conn'[e].reply = "error" /\ at[d] # "dirsync"
           \/ conn'[e].reply = "ok" /\ at[d] = "dirsync" /\ (dirFsync => stable' = roms')
           \/ conn'[e].reply = "warned" /\ at[d] = "dirsync"
    BY <1>1, <1>6, <2>1 DEF CreateFails, FinishFails, SyncDirectory,
         SyncDirectoryFails, Refuse, FinishError, Answered, Free
  <2>. QED BY <2>2, <2>3 DEF Honest
<1>. QED BY <1>2, <1>3, <1>4, <1>5, <1>6 DEF DaemonStep, FinishUpload

LEMMA Answers ==
    ASSUME Inv, Next, NEW c \in Clients PROVE Honest(c)
<1>1. ASSUME PowerLoss PROVE Honest(c)
  <2>1. conn'[c] = Free
    BY <1>1, NoneApart DEF PowerLoss, Forgotten
  <2>. QED BY <2>1 DEF Free, Honest
<1>. QED BY <1>1, LoopAnswers, HandlerAnswers DEF Next

-----------------------------------------------------------------------------
(* Space                                                                    *)

Sized(f, S) == IsFiniteSet(S) /\ \A x \in S : f[x].len \in Nat

LEMMA ChunksFinite ==
    ASSUME NEW f, NEW S, Sized(f, S)
    PROVE  IsFiniteSet(Chunks(f, S)) /\ Occupied(f, S) \in Nat
<1> DEFINE g == [x \in S |-> {x} \X (1..f[x].len)]
           F == {{x} \X (1..f[x].len) : x \in S}
<1>1. g \in Surjection(S, F)
  BY DEF Surjection
<1>2. IsFiniteSet(S)
  BY DEF Sized
<1>. HIDE DEF g
<1>3. IsFiniteSet(F)
  <2>. HIDE DEF F
  <2>. QED BY <1>1, <1>2, FS_Surjection
<1>4. ASSUME NEW x \in S PROVE IsFiniteSet({x} \X (1..f[x].len))
  <2>1. f[x].len \in Nat
    BY DEF Sized
  <2>2. IsFiniteSet(1..f[x].len)
    BY <2>1, FS_Interval
  <2>3. IsFiniteSet({x})
    BY FS_Singleton
  <2>. QED BY <2>2, <2>3, FS_Product
<1>5. \A T \in F : IsFiniteSet(T)
  BY <1>4
<1>6. IsFiniteSet(UNION F)
  <2>. HIDE DEF F
  <2>. QED BY <1>3, <1>5, FS_UNION
<1>7. IsFiniteSet(Chunks(f, S))
  BY <1>6 DEF Chunks
<1>. QED BY <1>7, FS_CardinalityType DEF Occupied

\* A file counts for its length.
LEMMA OneMore ==
    ASSUME NEW f, NEW S, Sized(f, S), NEW x \in S
    PROVE  /\ Occupied(f, S) = Occupied(f, S \ {x}) + f[x].len
           /\ Occupied(f, S \ {x}) \in Nat /\ Occupied(f, S) \in Nat
           /\ f[x].len \in Nat
<1> DEFINE R == S \ {x}
           own == {x} \X (1..f[x].len)
<1>1. f[x].len \in Nat /\ Sized(f, R)
  BY FS_RemoveElement DEF Sized
<1>2. IsFiniteSet(Chunks(f, R)) /\ Occupied(f, R) \in Nat /\ Occupied(f, S) \in Nat
  BY <1>1, ChunksFinite
<1>3. Chunks(f, S) = Chunks(f, R) \cup own
  BY DEF Chunks
<1>4. Chunks(f, R) \cap own = {}
  BY DEF Chunks
<1>5. IsFiniteSet(own) /\ Cardinality(own) = f[x].len
  <2>1. IsFiniteSet(1..f[x].len) /\ Cardinality(1..f[x].len) = f[x].len
    <3>1. /\ IsFiniteSet(1..f[x].len)
          /\ Cardinality(1..f[x].len) = IF 1 > f[x].len THEN 0 ELSE f[x].len - 1 + 1
      BY <1>1, FS_Interval
    <3>. QED BY <1>1, <3>1
  <2>2. IsFiniteSet({x}) /\ Cardinality({x}) = 1
    BY FS_Singleton
  <2>3. IsFiniteSet(own) /\ Cardinality(own) = Cardinality({x}) * Cardinality(1..f[x].len)
    BY <2>1, <2>2, FS_Product
  <2>. QED BY <1>1, <2>1, <2>2, <2>3
<1>. HIDE DEF own, R
<1>6. Cardinality(Chunks(f, R) \cup own) =
        Cardinality(Chunks(f, R)) + Cardinality(own) - Cardinality(Chunks(f, R) \cap own)
  BY <1>2, <1>5, FS_Union
<1>7. Cardinality(Chunks(f, R) \cap own) = 0
  BY <1>4, FS_EmptySet
<1>8. Occupied(f, S) = Occupied(f, R) + f[x].len
  BY <1>1, <1>2, <1>3, <1>5, <1>6, <1>7 DEF Occupied
<1>. QED BY <1>1, <1>2, <1>8 DEF R

LEMMA Fewer ==
    ASSUME NEW f, NEW S, Sized(f, S), NEW T \in SUBSET S
    PROVE  /\ Occupied(f, T) <= Occupied(f, S)
           /\ Occupied(f, T) \in Nat /\ Occupied(f, S) \in Nat
<1>1. Sized(f, T)
  BY FS_Subset DEF Sized
<1>2. Chunks(f, T) \in SUBSET Chunks(f, S)
  BY DEF Chunks
<1>3. IsFiniteSet(Chunks(f, S))
  BY ChunksFinite
<1>4. Cardinality(Chunks(f, T)) <= Cardinality(Chunks(f, S))
  BY <1>2, <1>3, FS_Subset
<1>. QED BY <1>1, <1>4, ChunksFinite DEF Occupied

\* Only the lengths matter.
LEMMA SameLengths ==
    ASSUME NEW f, NEW g, NEW S, \A x \in S : f[x].len = g[x].len
    PROVE  Occupied(f, S) = Occupied(g, S)
<1>1. Chunks(f, S) = Chunks(g, S)
  BY DEF Chunks
<1>. QED BY <1>1 DEF Occupied

-----------------------------------------------------------------------------
(* Commits within the limits.  The files of uploads past statvfs no longer  *)
(* grow.  Any set of them leaves the reserve, because the last of the set   *)
(* to be checked saw all their files; a rename only moves a file from one   *)
(* side to the other.  Of any set past opendir, as long as no rename        *)
(* overtook a traversal, the last to open the directory finds all files of  *)
(* the set: what it has not found yet, it will.                             *)

PastSpace ==
    {c \in Clients : /\ job[Server[c]] = c /\ conn[c].phase = "upload"
                     /\ at[Server[c]] \in {"opendir", "scan", "rename"}}
InCommit   == {c \in PastSpace : at[Server[c]] # "opendir"}
TempsOf(A) == {conn[c].temp : c \in A}

Held(A)       == Occupied(roms, Names) + Occupied(temps, TempsOf(A))
Counted(u, A) == Occupied(roms, Names \ u) + Occupied(temps, TempsOf(A) \ u)
Covers(c, A) ==
    LET d == Server[c] IN
    IF at[d] = "scan"
    THEN Counted(count[d].unread, A) <= count[d].used
    ELSE Held(A) <= Quota + roms[conn[c].name].len

SpaceOK == \A A \in SUBSET PastSpace : A # {} => Held(A) + MinFree <= Capacity
QuotaOK ==
    ~raced => \A A \in SUBSET InCommit : A # {} => \E c \in A : Covers(c, A)
CommitOK == SpaceOK /\ QuotaOK

LEMMA DirectorySized ==
    ASSUME Inv
    PROVE  /\ Sized(roms, Names) /\ Sized(temps, TempNames)
           /\ \A n \in Names : roms[n].len \in Nat
           /\ Quota \in Nat /\ Capacity \in Nat /\ MinFree \in Nat
<1>1. IsFiniteSet(TempNames)
  <2>1. IsFiniteSet(1..Attempts) /\ IsFiniteSet(Pids)
    BY UploadAssumption, FS_Interval
  <2>. QED BY <2>1, FS_Product DEF TempNames
<1>2. roms \in [Names -> Files] /\ temps \in [TempNames -> Files]
  BY DEF Inv, TypeOK
<1>3. \A f \in Files : f.len \in Nat
  BY DEF Files
<1>4. IsFiniteSet(Names) /\ {Attempts, Quota, Capacity, MinFree} \subseteq Nat
  BY UploadAssumption
<1>. QED BY <1>1, <1>2, <1>3, <1>4 DEF Sized

\* Files without data
LEMMA Nothing ==
    ASSUME NEW f, NEW S, \A x \in S : f[x].len = 0 PROVE Occupied(f, S) = 0
<1>1. Chunks(f, S) = {}
  BY DEF Chunks
<1>. QED BY <1>1, FS_EmptySet DEF Occupied

LEMMA PastClients ==
    ASSUME Inv, NEW c \in PastSpace
    PROVE  /\ c \in Clients /\ Server[c] \in Daemons /\ conn[c].name \in Names
           /\ conn[c].temp \in TempNames /\ conn[c].temp # None
           /\ temps[conn[c].temp].len = conn[c].got /\ ~conn[c].dead
           /\ temps[conn[c].temp] # Absent
<1>1. /\ c \in Clients /\ Server[c] \in Daemons
      /\ at[Server[c]] \in {"opendir", "scan", "rename"}
      /\ job[Server[c]] = c /\ conn[c] \in Records /\ conn[c].phase = "upload"
      /\ temps \in [TempNames -> Files]
  BY NoneApart DEF PastSpace, Inv, TypeOK, Records
<1>2. JobOK(Server[c]) /\ ConnOK(c)
  BY <1>1 DEF Inv
<1>3. /\ conn[c].name \in Names /\ conn[c].body \in Bodies /\ ~conn[c].dead
      /\ conn[c].temp \in TempNames /\ conn[c].temp # None
  BY <1>1, <1>2 DEF JobOK, Records
<1>4. temps[conn[c].temp].body = conn[c].body /\ temps[conn[c].temp].len = conn[c].got
  BY <1>2, <1>3 DEF ConnOK, TempOK
<1>. QED BY <1>1, <1>3, <1>4, FilesTyped

LEMMA PastSized ==
    ASSUME Inv, NEW A \in SUBSET PastSpace
    PROVE  /\ TempsOf(A) \in SUBSET TempNames /\ Sized(temps, TempsOf(A))
           /\ Occupied(roms, Names) \in Nat /\ Occupied(temps, TempsOf(A)) \in Nat
           /\ Occupied(temps, TempNames) \in Nat
           /\ Occupied(temps, TempsOf(A)) <= Occupied(temps, TempNames)
<1>1. TempsOf(A) \in SUBSET TempNames
  BY PastClients DEF TempsOf
<1>2. Sized(temps, TempsOf(A))
  BY <1>1, DirectorySized, FS_Subset DEF Sized
<1>. QED BY <1>1, <1>2, DirectorySized, ChunksFinite, Fewer

\* A step that takes no upload further and renames nothing
LEMMA NothingPassed ==
    ASSUME Inv, Inv', CommitOK, roms' = roms,
           \A c \in PastSpace' : /\ c \in PastSpace /\ conn'[c] = conn[c]
                                 /\ at'[Server[c]] = at[Server[c]]
                                 /\ count'[Server[c]] = count[Server[c]],
           raced /\ ~raced' => InCommit' = {}
    PROVE  CommitOK'
<1>1. ASSUME NEW A \in SUBSET PastSpace'
      PROVE  /\ A \in SUBSET PastSpace /\ Held(A)' = Held(A)
             /\ \A u : Counted(u, A)' = Counted(u, A)
  <2>1. \A c \in A : conn'[c] = conn[c] /\ c \in PastSpace /\ c \in PastSpace'
    OBVIOUS
  <2>2. TempsOf(A)' = TempsOf(A)
    BY <2>1 DEF TempsOf
  <2>3. \A c \in A : /\ temps[conn[c].temp].len = conn[c].got
                     /\ temps'[conn'[c].temp].len = conn'[c].got
    <3> SUFFICES ASSUME NEW c \in A
                 PROVE  /\ temps[conn[c].temp].len = conn[c].got
                        /\ temps'[conn'[c].temp].len = conn'[c].got
      OBVIOUS
    <3>1. /\ temps[conn[c].temp].len = conn[c].got /\ conn[c].temp # None
          /\ ~conn[c].dead
      BY <2>1, PastClients
    <3>2. TempOK(c)'
      BY <2>1, PastClients DEF Inv, ConnOK
    <3>. QED BY <2>1, <3>1, <3>2 DEF TempOK
  <2>4. \A t \in TempsOf(A) : temps'[t].len = temps[t].len
    BY <2>1, <2>3 DEF TempsOf
  <2>5. \A S \in SUBSET TempsOf(A) : Occupied(temps', S) = Occupied(temps, S)
    BY <2>4, SameLengths
  <2>6. Held(A)' = Held(A)
    BY <2>2, <2>5 DEF Held
  <2>7. ASSUME NEW u PROVE Counted(u, A)' = Counted(u, A)
    BY <2>2, <2>5 DEF Counted
  <2>. QED BY <2>1, <2>6, <2>7
<1>2. SpaceOK'
  BY <1>1 DEF CommitOK, SpaceOK
<1>3. QuotaOK'
  <2> SUFFICES ASSUME ~raced', NEW A \in SUBSET InCommit', A # {}
               PROVE  \E c \in A : Covers(c, A)'
    BY DEF QuotaOK
  <2>1. A \in SUBSET PastSpace' /\ ~raced
    BY DEF InCommit
  <2>2. A \in SUBSET InCommit
    BY <2>1 DEF InCommit
  <2>3. PICK c \in A : Covers(c, A)
    BY <2>1, <2>2 DEF CommitOK, QuotaOK
  <2>4. /\ c \in PastSpace' /\ conn'[c] = conn[c] /\ at'[Server[c]] = at[Server[c]]
        /\ count'[Server[c]] = count[Server[c]]
    BY <2>1
  <2>5. Covers(c, A)'
    BY <1>1, <2>1, <2>3, <2>4 DEF Covers
  <2>. QED BY <2>5
<1>. QED BY <1>2, <1>3 DEF CommitOK

\* A step of one daemon that leaves its thread elsewhere
LEMMA Elsewhere ==
    ASSUME Inv, Inv', CommitOK, NEW d \in Daemons,
           at'[d] \notin {"opendir", "scan", "rename"},
           \A e \in Daemons \ {d} :
                at'[e] = at[e] /\ job'[e] = job[e] /\ count'[e] = count[e],
           \A c \in Clients : Server[c] # d => conn'[c] = conn[c],
           raced /\ ~raced' => \A e \in Daemons \ {d} : ~Committing(e),
           roms' = roms
    PROVE  CommitOK'
<1>1. ASSUME NEW c \in PastSpace'
      PROVE  /\ c \in PastSpace /\ conn'[c] = conn[c] /\ Server[c] \in Daemons \ {d}
             /\ at'[Server[c]] = at[Server[c]]
             /\ count'[Server[c]] = count[Server[c]]
             /\ job[Server[c]] = c /\ conn[c].phase = "upload"
  BY NoneApart DEF PastSpace
<1>2. ASSUME raced, ~raced', NEW c \in InCommit' PROVE FALSE
  <2>1. c \in PastSpace' /\ at'[Server[c]] \in {"scan", "rename"}
    BY <1>2 DEF InCommit, PastSpace
  <2>2. Committing(Server[c])
    BY <1>1, <2>1 DEF Committing, Admitting
  <2>. QED BY <1>1, <1>2, <2>1, <2>2
<1>3. raced /\ ~raced' => InCommit' = {}
  BY <1>2
<1>4. \A c \in PastSpace' : /\ c \in PastSpace /\ conn'[c] = conn[c]
                            /\ at'[Server[c]] = at[Server[c]]
                            /\ count'[Server[c]] = count[Server[c]]
  BY <1>1
<1>. QED BY <1>3, <1>4, NothingPassed

LEMMA ClientsAside ==
    ASSUME Inv, Inv', CommitOK, NEW c \in Clients, ClientStep(c)
    PROVE  CommitOK' /\ roms' = roms
<1>1. /\ conn \in [Clients -> Records] /\ at \in [Daemons -> Steps]
      /\ job \in [Daemons -> Clients \cup {None}] /\ Server[c] \in Daemons
  BY NoneApart DEF Inv, TypeOK, Records
<1>2. roms' = roms /\ at[Server[c]] = "loop" /\ raced' = raced /\ count' = count
  BY DEF ClientStep, RefuseUpload, AdmitUpload, ReadUpload, WriteFails, Hangup,
         Deadline, DrainEnds, ClientDestroy, AbortUpload, Live, InLoop, fileVars,
         otherVars, threadVars
<1>3. \A e \in Clients \ {c} : conn'[e] = conn[e]
  BY <1>1 DEF ClientStep, RefuseUpload, AdmitUpload, ReadUpload, WriteFails, Hangup,
              Deadline, DrainEnds, ClientDestroy, Refuse
<1>4. /\ at'[Server[c]] \notin {"opendir", "scan", "rename"}
      /\ \A e \in Daemons \ {Server[c]} : at'[e] = at[e] /\ job'[e] = job[e]
  BY <1>1, <1>2 DEF ClientStep, RefuseUpload, AdmitUpload, ReadUpload, WriteFails,
         Hangup, Deadline, DrainEnds, ClientDestroy, threadVars
<1>5. \A e \in Clients : Server[e] # Server[c] => conn'[e] = conn[e]
  BY <1>3
<1>. QED BY <1>1, <1>2, <1>4, <1>5, Elsewhere

LEMMA DaemonsAside ==
    ASSUME Inv, Inv', CommitOK, NEW d \in Daemons,
           \/ CreateTemp(d) \/ CreateFails(d) \/ SyncTemp(d) \/ FinishFails(d)
           \/ SyncDirectory(d) \/ SyncDirectoryFails(d) \/ Start(d) \/ Kill(d)
    PROVE  CommitOK' /\ roms' = roms
<1>1. /\ conn \in [Clients -> Records] /\ at \in [Daemons -> Steps]
      /\ job \in [Daemons -> Clients \cup {None}] /\ count \in Counts
      /\ at[d] # "loop" => Server[job[d]] = d
  BY DEF Inv, TypeOK, Records, JobOK, Counts
<1>2. roms' = roms
  BY DEF CreateTemp, CreateFails, SyncTemp, FinishFails, SyncDirectory,
         SyncDirectoryFails, Start, Kill, AbortUpload, fileVars
<1>3. raced /\ ~raced' => \A e \in Daemons \ {d} : ~Committing(e)
  BY DEF CreateTemp, CreateFails, SyncTemp, FinishFails, SyncDirectory,
         SyncDirectoryFails, Start, Kill, otherVars
<1>4. CASE Start(d) \/ Kill(d)
  <2>1. /\ at'[d] = "loop"
        /\ \A e \in Daemons \ {d} :
             at'[e] = at[e] /\ job'[e] = job[e] /\ count'[e] = count[e]
        /\ \A c \in Clients : Server[c] # d => conn'[c] = conn[c]
    BY <1>1, <1>4 DEF Start, Kill, Forgotten, threadVars, Inv, JobOK
  <2>. QED BY <1>2, <1>3, <2>1, Elsewhere
<1>5. CASE \/ CreateTemp(d) \/ CreateFails(d) \/ SyncTemp(d) \/ FinishFails(d)
           \/ SyncDirectory(d) \/ SyncDirectoryFails(d)
  <2>1. at[d] # "loop"
    BY <1>5 DEF CreateTemp, CreateFails, SyncTemp, FinishFails, SyncDirectory,
         SyncDirectoryFails
  <2>2. \A c \in Clients \ {job[d]} : conn'[c] = conn[c]
    BY <1>1, <1>5 DEF CreateTemp, CreateFails, SyncTemp, FinishFails, SyncDirectory,
         SyncDirectoryFails, Refuse, FinishError, Answered
  <2>3. /\ at'[d] \notin {"opendir", "scan", "rename"}
        /\ \A e \in Daemons \ {d} :
             at'[e] = at[e] /\ job'[e] = job[e] /\ count'[e] = count[e]
    BY <1>1, <1>5 DEF CreateTemp, CreateFails, SyncTemp, FinishFails, SyncDirectory,
         SyncDirectoryFails, Goto, Loop, Answered, Counts
  <2>4. \A c \in Clients : Server[c] # d => conn'[c] = conn[c]
    BY <1>1, <2>1, <2>2
  <2>. QED BY <1>2, <1>3, <2>3, <2>4, Elsewhere
<1>. QED BY <1>4, <1>5

\* A step of the checks: only the sets with its own upload need an argument.
LEMMA OneCheck ==
    ASSUME Inv, CommitOK, NEW d \in Daemons, NEW c \in Clients, c = job[d],
           UNCHANGED <<job, conn, temps, roms, raced>>,
           \A e \in Daemons \ {d} : at'[e] = at[e] /\ count'[e] = count[e],
           \A A \in SUBSET PastSpace' : c \in A => Held(A) + MinFree <= Capacity,
           ~raced => \A A \in SUBSET InCommit' : c \in A => \E x \in A : Covers(x, A)'
    PROVE  CommitOK'
<1>1. \A A : Held(A)' = Held(A) /\ \A u : Counted(u, A)' = Counted(u, A)
  BY DEF Held, Counted, TempsOf
<1>2. ASSUME NEW x \in PastSpace', x # c
      PROVE  /\ x \in PastSpace /\ Server[x] \in Daemons \ {d}
             /\ at'[Server[x]] = at[Server[x]] /\ count'[Server[x]] = count[Server[x]]
  BY <1>2, NoneApart DEF PastSpace
<1>3. SpaceOK'
  <2> SUFFICES ASSUME NEW A \in SUBSET PastSpace', A # {}
               PROVE  Held(A)' + MinFree <= Capacity
    BY DEF SpaceOK
  <2>1. CASE c \in A
    BY <2>1, <1>1
  <2>2. CASE c \notin A
    <3>1. A \in SUBSET PastSpace
      BY <1>2, <2>2
    <3>. QED BY <1>1, <3>1 DEF CommitOK, SpaceOK
  <2>. QED BY <2>1, <2>2
<1>4. QuotaOK'
  <2> SUFFICES ASSUME ~raced, NEW A \in SUBSET InCommit', A # {}, c \notin A
               PROVE  \E x \in A : Covers(x, A)'
    BY DEF QuotaOK
  <2>1. A \in SUBSET InCommit
    BY <1>2 DEF InCommit
  <2>2. PICK x \in A : Covers(x, A)
    BY <2>1 DEF CommitOK, QuotaOK
  <2>3. /\ at'[Server[x]] = at[Server[x]] /\ count'[Server[x]] = count[Server[x]]
    BY <1>2, <2>2 DEF InCommit
  <2>4. Covers(x, A)'
    BY <1>1, <2>2, <2>3 DEF Covers
  <2>. QED BY <2>4
<1>. QED BY <1>3, <1>4 DEF CommitOK

LEMMA CheckFrame ==
    ASSUME Inv, NEW d \in Daemons,
           CheckSpace(d) \/ OpenDirectory(d) \/ CountFile(d) \/ CheckQuota(d)
    PROVE  /\ UNCHANGED <<job, conn, temps, roms, raced>>
           /\ \A e \in Daemons \ {d} : at'[e] = at[e] /\ count'[e] = count[e]
           /\ job[d] \in Clients /\ Server[job[d]] = d
<1>1. UNCHANGED <<job, conn, temps, roms, raced>>
  BY DEF CheckSpace, OpenDirectory, CountFile, CheckQuota, Goto, fileVars, otherVars
<1>2. /\ at \in [Daemons -> Steps] /\ count \in Counts
  BY DEF Inv, TypeOK, Counts
<1>3. \A e \in Daemons \ {d} : at'[e] = at[e] /\ count'[e] = count[e]
  BY <1>2 DEF CheckSpace, OpenDirectory, CountFile, CheckQuota, Goto, Counts
<1>4. job[d] \in Clients /\ Server[job[d]] = d
  BY DEF CheckSpace, OpenDirectory, CountFile, CheckQuota, Inv, JobOK
<1>. QED BY <1>1, <1>3, <1>4

\* statvfs sees every file of the medium.
LEMMA Spacing ==
    ASSUME Inv, CommitOK, NEW d \in Daemons, CheckSpace(d) PROVE CommitOK'
<1>1. PICK c \in Clients : c = job[d] /\ Server[c] = d
  BY CheckFrame
<1>2. at' = [at EXCEPT ![d] = "opendir"] /\ at \in [Daemons -> Steps]
  BY DEF CheckSpace, Goto, Inv, TypeOK
<1>3. ASSUME NEW A \in SUBSET PastSpace', c \in A PROVE Held(A) + MinFree <= Capacity
  <2>1. conn[c].phase = "upload"
    BY <1>3, CheckFrame DEF PastSpace
  <2>2. Capacity - (Occupied(roms, Names) + Occupied(temps, TempNames)) >= MinFree
    BY <1>1, <2>1 DEF CheckSpace, Admitting, FreeSpace
  <2>3. \A x \in A : conn[x].temp \in TempNames
    <3> SUFFICES ASSUME NEW x \in A PROVE conn[x].temp \in TempNames
      OBVIOUS
    <3>1. CASE x = c
      BY <1>1, <2>1, <3>1 DEF CheckSpace, Inv, TypeOK, JobOK
    <3>2. CASE x # c
      <4>1. x \in PastSpace
        BY <1>1, <1>3, <3>2, CheckFrame, NoneApart DEF PastSpace
      <4>. QED BY <4>1, PastClients
    <3>. QED BY <3>1, <3>2
  <2>4. TempsOf(A) \in SUBSET TempNames
    BY <2>3 DEF TempsOf
  <2>5. /\ Occupied(temps, TempsOf(A)) <= Occupied(temps, TempNames)
        /\ Occupied(temps, TempsOf(A)) \in Nat /\ Occupied(temps, TempNames) \in Nat
        /\ Occupied(roms, Names) \in Nat
    BY <2>4, DirectorySized, Fewer, ChunksFinite
  <2>6. Capacity \in Nat /\ MinFree \in Nat
    BY DirectorySized
  <2>. QED BY <2>2, <2>5, <2>6 DEF Held
<1>4. c \notin InCommit'
  BY <1>1, <1>2 DEF InCommit
<1>. QED BY <1>1, <1>3, <1>4, CheckFrame, OneCheck

\* The traversal begins with every file that exists.
LEMMA Opening ==
    ASSUME Inv, CommitOK, NEW d \in Daemons, OpenDirectory(d) PROVE CommitOK'
<1>0. UNCHANGED <<job, conn, temps, roms, raced>>
  BY CheckFrame
<1>1. PICK c \in Clients : c = job[d] /\ Server[c] = d
  BY CheckFrame
<1>2. /\ at' = [at EXCEPT ![d] = "scan"] /\ at \in [Daemons -> Steps] /\ at[d] = "opendir"
      /\ count' = [count EXCEPT ![d] = [unread |-> Existing, used |-> 0]]
      /\ count \in Counts
  BY DEF OpenDirectory, Inv, TypeOK, Counts
<1>3. PastSpace' \in SUBSET PastSpace
  BY <1>1, <1>2, CheckFrame, NoneApart DEF PastSpace
<1>4. ASSUME NEW A \in SUBSET PastSpace', c \in A PROVE Held(A) + MinFree <= Capacity
  BY <1>3, <1>4 DEF CommitOK, SpaceOK
<1>5. ASSUME NEW A \in SUBSET InCommit', c \in A PROVE Covers(c, A)'
  <2>1. \A x \in A : conn[x].temp \in TempNames /\ temps[conn[x].temp] # Absent
    BY <1>3, <1>5, PastClients DEF InCommit
  <2>2. TempsOf(A)' \ Existing = {}
    BY <2>1, CheckFrame DEF TempsOf, Existing
  <2>3. \A n \in Names \ Existing : roms'[n].len = 0
    BY CheckFrame DEF Existing, Absent, File
  <2>4. Occupied(roms', Names \ Existing) = 0
    BY <2>3, Nothing
  <2>5. Occupied(temps', {}) = 0
    BY Nothing
  <2>6. count'[d].unread = Existing /\ count'[d].used = 0 /\ at'[d] = "scan"
    BY <1>2 DEF Counts
  <2>7. Counted(count[d].unread, A)' <= 0
    BY <2>2, <2>4, <2>5, <2>6 DEF Counted
  <2>. QED BY <1>1, <2>6, <2>7 DEF Covers
<1>. QED BY <1>1, <1>4, <1>5, CheckFrame, OneCheck

\* A file that is found adds its length to both sides, or to one.
LEMMA Counting ==
    ASSUME Inv, CommitOK, NEW d \in Daemons, CountFile(d) PROVE CommitOK'
<1>0. UNCHANGED <<job, conn, temps, roms, raced>>
  BY CheckFrame
<1>1. PICK c \in Clients : c = job[d] /\ Server[c] = d
  BY CheckFrame
<1> DEFINE u == count[d].unread
           m == count[d].used
           Size(e) == IF e \in Names THEN roms[e].len ELSE temps[e].len
<1>2. PICK e \in u :
        count' = [count EXCEPT ![d] = [unread |-> u \ {e}, used |-> m + Size(e)]]
  BY DEF CountFile
<1>3. /\ at' = at /\ at[d] = "scan" /\ count \in Counts
      /\ count'[d].unread = u \ {e} /\ count'[d].used = m + Size(e)
      /\ e \in Names \cup TempNames /\ m \in Nat
  BY <1>2 DEF CountFile, Inv, TypeOK, Counts
<1>4. PastSpace' = PastSpace /\ InCommit' = InCommit
  BY <1>3, CheckFrame DEF PastSpace, InCommit
<1>5. ASSUME NEW A \in SUBSET PastSpace', c \in A PROVE Held(A) + MinFree <= Capacity
  BY <1>4, <1>5 DEF CommitOK, SpaceOK
<1>6. ASSUME ~raced, NEW A \in SUBSET InCommit', c \in A
      PROVE  \E x \in A : Covers(x, A)'
  <2>1. /\ A \in SUBSET InCommit /\ A \in SUBSET PastSpace
    BY <1>4 DEF InCommit
  <2>2. PICK x \in A : Covers(x, A)
    BY <1>6, <2>1 DEF CommitOK, QuotaOK
  <2>3. CASE Server[x] # d
    <3>1. Server[x] \in Daemons \ {d}
      BY <2>1, <2>2, <2>3, PastClients
    <3>2. /\ at'[Server[x]] = at[Server[x]] /\ count'[Server[x]] = count[Server[x]]
      BY <3>1, CheckFrame
    <3>3. Covers(x, A)' <=> Covers(x, A)
      BY <1>0, <3>2 DEF Covers, Counted, Held, TempsOf
    <3>. QED BY <2>2, <3>3
  <2>4. CASE Server[x] = d
    <3> DEFINE T == TempsOf(A)
               r == Occupied(roms, Names \ u)
               t == Occupied(temps, T \ u)
               r2 == Occupied(roms, Names \ (u \ {e}))
               t2 == Occupied(temps, T \ (u \ {e}))
    <3>1. r + t <= m
      BY <2>2, <2>4, <1>3 DEF Covers, Counted
    <3>2. /\ Sized(roms, Names) /\ Sized(temps, T) /\ T \in SUBSET TempNames
      BY <2>1, PastSized, DirectorySized
    <3>3. \A S \in SUBSET Names : Sized(roms, S) /\ Occupied(roms, S) \in Nat
      BY <3>2, FS_Subset, ChunksFinite DEF Sized
    <3>4. \A S \in SUBSET T : Sized(temps, S) /\ Occupied(temps, S) \in Nat
      <4>. HIDE DEF T
      <4>. QED BY <3>2, FS_Subset, ChunksFinite DEF Sized
    <3>5. r \in Nat /\ r2 \in Nat /\ t \in Nat /\ t2 \in Nat
      BY <3>3, <3>4
    <3>6. Size(e) \in Nat
      BY <1>3, DirectorySized DEF Sized
    <3>7. r2 + t2 <= r + t + Size(e)
      <4>1. CASE e \in Names
        <5>1. T \ (u \ {e}) = T \ u
          BY <3>2, <4>1, UploadAssumption DEF TempNames
        <5>2. e \in Names \ (u \ {e}) /\ (Names \ (u \ {e})) \ {e} = Names \ u
          BY <1>2, <4>1
        <5>3. Occupied(roms, Names \ (u \ {e})) =
                Occupied(roms, (Names \ (u \ {e})) \ {e}) + roms[e].len
          <6>1. Sized(roms, Names \ (u \ {e}))
            BY <3>3
          <6>. HIDE DEF u
          <6>. QED BY <5>2, <6>1, OneMore
        <5>4. r2 = r + Size(e)
          BY <5>2, <5>3, <4>1
        <5>5. t2 = t
          BY <5>1
        <5>. HIDE DEF r, r2, t, t2, Size
        <5>. QED BY <5>4, <5>5, <3>5, <3>6
      <4>2. CASE e \notin Names /\ e \in T
        <5>1. Names \ (u \ {e}) = Names \ u
          BY <4>2
        <5>2. e \in T \ (u \ {e}) /\ (T \ (u \ {e})) \ {e} = T \ u
          BY <1>2, <4>2
        <5>3. Occupied(temps, T \ (u \ {e})) =
                Occupied(temps, (T \ (u \ {e})) \ {e}) + temps[e].len
          <6>1. Sized(temps, T \ (u \ {e}))
            BY <3>4
          <6>. HIDE DEF u, T
          <6>. QED BY <5>2, <6>1, OneMore
        <5>4. t2 = t + Size(e)
          BY <5>2, <5>3, <4>2
        <5>5. r2 = r
          BY <5>1
        <5>. HIDE DEF r, r2, t, t2, Size
        <5>. QED BY <5>4, <5>5, <3>5, <3>6
      <4>3. CASE e \notin Names /\ e \notin T
        <5>1. Names \ (u \ {e}) = Names \ u /\ T \ (u \ {e}) = T \ u
          BY <4>3
        <5>2. r2 = r /\ t2 = t
          BY <5>1
        <5>. HIDE DEF r, r2, t, t2, Size
        <5>. QED BY <5>2, <3>5, <3>6
      <4>. QED BY <4>1, <4>2, <4>3
    <3>8. r2 + t2 <= m + Size(e)
      <4>. HIDE DEF r, r2, t, t2, Size, m
      <4>. QED BY <3>1, <3>5, <3>6, <3>7, <1>3
    <3>9. TempsOf(A)' = T
      BY <1>0 DEF TempsOf
    <3>10. Covers(x, A)'
      <4>. HIDE DEF T, u, m, Size
      <4>. QED BY <1>0, <1>3, <2>4, <3>8, <3>9 DEF Covers, Counted
    <3>. QED BY <3>10
  <2>. QED BY <2>3, <2>4
<1>. QED BY <1>1, <1>5, <1>6, CheckFrame, OneCheck

\* The traversal is complete: what it counted covers the whole set.
LEMMA Deciding ==
    ASSUME Inv, CommitOK, NEW d \in Daemons, CheckQuota(d) PROVE CommitOK'
<1>0. UNCHANGED <<job, conn, temps, roms, raced>>
  BY CheckFrame
<1>1. PICK c \in Clients : c = job[d] /\ Server[c] = d
  BY CheckFrame
<1>2. /\ at[d] = "scan" /\ at \in [Daemons -> Steps] /\ count \in Counts
      /\ at'[d] \in {"create", "rename"} /\ count[d].unread = {} /\ count[d].used \in Nat
  BY DEF CheckQuota, Inv, TypeOK, Counts
<1>3. PastSpace' \in SUBSET PastSpace /\ InCommit' \in SUBSET InCommit
  BY <1>1, <1>2, CheckFrame, NoneApart DEF PastSpace, InCommit
<1>4. ASSUME NEW A \in SUBSET PastSpace', c \in A PROVE Held(A) + MinFree <= Capacity
  BY <1>3, <1>4 DEF CommitOK, SpaceOK
<1>5. ASSUME ~raced, NEW A \in SUBSET InCommit', c \in A
      PROVE  \E x \in A : Covers(x, A)'
  <2>1. A \in SUBSET InCommit /\ A \in SUBSET PastSpace
    BY <1>3 DEF InCommit
  <2>2. PICK x \in A : Covers(x, A)
    BY <1>5, <2>1 DEF CommitOK, QuotaOK
  <2>3. CASE Server[x] # d
    <3>1. Server[x] \in Daemons \ {d}
      BY <2>1, <2>2, <2>3, PastClients
    <3>2. /\ at'[Server[x]] = at[Server[x]] /\ count'[Server[x]] = count[Server[x]]
      BY <3>1, CheckFrame
    <3>3. Covers(x, A)' <=> Covers(x, A)
      BY <1>0, <3>2 DEF Covers, Counted, Held, TempsOf
    <3>. QED BY <2>2, <3>3
  <2>4. CASE Server[x] = d
    <3>1. x = c /\ conn[c].phase = "upload" /\ conn[c].name \in Names
      BY <1>1, <2>1, <2>2, <2>4, PastClients DEF PastSpace
    <3>2. /\ at'[d] = "rename"
          /\ count[d].used <= Quota + roms[conn[c].name].len
      BY <1>1, <1>2, <3>1 DEF CheckQuota, Admitting
    <3>3. Held(A) <= count[d].used
      <4>1. Counted({}, A) <= count[d].used
        BY <1>2, <2>2, <2>4 DEF Covers
      <4>. QED BY <4>1 DEF Counted, Held
    <3>4. Held(A) \in Nat /\ Quota \in Nat /\ roms[conn[c].name].len \in Nat
      BY <2>1, <3>1, PastSized, DirectorySized DEF Held
    <3>5. Held(A) <= Quota + roms[conn[c].name].len
      BY <1>2, <3>2, <3>3, <3>4
    <3>6. Held(A)' = Held(A)
      BY <1>0 DEF Held, TempsOf
    <3>7. Covers(x, A)'
      BY <1>0, <1>1, <3>1, <3>2, <3>5, <3>6 DEF Covers
    <3>. QED BY <3>7
  <2>. QED BY <2>3, <2>4
<1>. QED BY <1>1, <1>4, <1>5, CheckFrame, OneCheck

\* What a rename does to the two sides
LEMMA Moved ==
    ASSUME Inv, NEW d \in Daemons, RenameTemp(d), NEW c \in Clients, c = job[d],
           NEW n \in Names, n = conn[c].name, NEW L, L = temps[conn[c].temp].len
    PROVE  /\ c \in InCommit /\ c \in PastSpace /\ L \in Nat /\ roms[n].len \in Nat /\ roms'[n].len = L
           /\ Occupied(roms, Names) \in Nat /\ Occupied(roms', Names) \in Nat
           /\ Occupied(roms', Names) + roms[n].len = Occupied(roms, Names) + L
           /\ \A x \in Names \ {n} : roms'[x] = roms[x]
<1>1. /\ at[d] = "rename" /\ Server[c] = d /\ roms \in [Names -> Files]
      /\ temps \in [TempNames -> Files] /\ conn[c].temp \in TempNames
  BY DEF RenameTemp, Inv, TypeOK, Records, JobOK
<1>2. roms' = [roms EXCEPT ![n] = temps[conn[c].temp]]
  BY DEF RenameTemp
<1>3. /\ L \in Nat /\ roms'[n].len = L /\ \A x \in Names \ {n} : roms'[x] = roms[x]
  BY <1>1, <1>2 DEF Files
<1>4. Sized(roms, Names) /\ Sized(roms', Names)
  BY <1>3, DirectorySized DEF Sized
<1>5. /\ Occupied(roms, Names) = Occupied(roms, Names \ {n}) + roms[n].len
      /\ Occupied(roms, Names \ {n}) \in Nat /\ roms[n].len \in Nat
      /\ Occupied(roms, Names) \in Nat
  BY <1>4, OneMore
<1>6. /\ Occupied(roms', Names) = Occupied(roms', Names \ {n}) + roms'[n].len
      /\ Occupied(roms', Names) \in Nat
  BY <1>4, OneMore
<1>7. Occupied(roms', Names \ {n}) = Occupied(roms, Names \ {n})
  BY <1>3, SameLengths
<1>8. c \in InCommit /\ c \in PastSpace
  BY <1>1 DEF PastSpace, InCommit, RenameTemp, Inv, JobOK
<1>9. Occupied(roms', Names) + roms[n].len = Occupied(roms, Names) + L
  BY <1>3, <1>5, <1>6, <1>7
<1>. QED BY <1>3, <1>5, <1>6, <1>8, <1>9

LEMMA CommitFits ==
    ASSUME Inv, CommitOK, NEW d \in Daemons, RenameTemp(d)
    PROVE  WithinMedium' /\ (~raced => WithinQuota')
<1>1. PICK c \in Clients, n \in Names : c = job[d] /\ n = conn[c].name /\ Server[c] = d
  BY DEF RenameTemp, Inv, JobOK
<1>2. PICK L : L = temps[conn[c].temp].len
  OBVIOUS
<1>3. /\ c \in InCommit /\ c \in PastSpace /\ L \in Nat /\ roms[n].len \in Nat
      /\ Occupied(roms, Names) \in Nat /\ Occupied(roms', Names) \in Nat
      /\ Occupied(roms', Names) + roms[n].len = Occupied(roms, Names) + L
  BY <1>1, <1>2, Moved
<1>4. Held({c}) + MinFree <= Capacity /\ {c} \in SUBSET PastSpace
  BY <1>3 DEF CommitOK, SpaceOK
<1>5. ~raced => Held({c}) <= Quota + roms[n].len
  <2> SUFFICES ASSUME ~raced PROVE Held({c}) <= Quota + roms[n].len
    OBVIOUS
  <2>1. Covers(c, {c})
    BY <1>3 DEF CommitOK, QuotaOK
  <2>. QED BY <1>1, <2>1 DEF Covers, RenameTemp
<1>6. Held({c}) = Occupied(roms, Names) + L
  <2>1. TempsOf({c}) = {conn[c].temp}
    BY DEF TempsOf
  <2>2. /\ Sized(temps, TempsOf({c})) /\ Sized(temps, TempsOf({c}) \ {conn[c].temp})
    BY <1>4, PastSized, FS_RemoveElement DEF Sized
  <2>3. /\ Occupied(temps, {conn[c].temp}) = Occupied(temps, {}) + L
        /\ Occupied(temps, {}) \in Nat
    <3>1. {conn[c].temp} \ {conn[c].temp} = {}
      OBVIOUS
    <3>. QED BY <1>2, <2>1, <2>2, <3>1, OneMore
  <2>4. Occupied(temps, {}) = 0
    <3>1. Chunks(temps, {}) = {}
      BY DEF Chunks
    <3>. QED BY <3>1, FS_EmptySet DEF Occupied
  <2>5. Held({c}) = Occupied(roms, Names) + Occupied(temps, {conn[c].temp})
    BY <2>1 DEF Held
  <2>6. Occupied(temps, {conn[c].temp}) = L
    BY <1>3, <2>3, <2>4
  <2>. QED BY <2>5, <2>6
<1>7. Quota \in Nat /\ Capacity \in Nat /\ MinFree \in Nat
  BY DirectorySized
<1>8. Occupied(roms', Names) + MinFree <= Capacity
  BY <1>3, <1>4, <1>6, <1>7
<1>9. ~raced => Occupied(roms', Names) <= Quota
  BY <1>3, <1>5, <1>6, <1>7
<1>. QED BY <1>8, <1>9 DEF WithinMedium, WithinQuota

\* The other uploads still fit after a rename.
LEMMA Renaming ==
    ASSUME Inv, CommitOK, NEW d \in Daemons, RenameTemp(d)
    PROVE  CommitOK'
<1>1. PICK c \in Clients, n \in Names : c = job[d] /\ n = conn[c].name /\ Server[c] = d
  BY DEF RenameTemp, Inv, JobOK
<1>2. PICK L, t \in TempNames : L = temps[t].len /\ t = conn[c].temp
  BY <1>1 DEF RenameTemp, Inv, TypeOK, Records, JobOK
<1>3. /\ c \in InCommit /\ c \in PastSpace /\ L \in Nat
      /\ roms[n].len \in Nat /\ roms'[n].len = L
      /\ Occupied(roms, Names) \in Nat /\ Occupied(roms', Names) \in Nat
      /\ Occupied(roms', Names) + roms[n].len = Occupied(roms, Names) + L
      /\ \A x \in Names \ {n} : roms'[x] = roms[x]
  BY <1>1, <1>2, Moved
<1>4. /\ temps' = [temps EXCEPT ![t] = Absent] /\ job' = job /\ count' = count
      /\ at' = [at EXCEPT ![d] = "dirsync"] /\ at[d] = "rename"
      /\ conn' = [conn EXCEPT ![c] = [conn[c] EXCEPT !.temp = None, !.renamed = TRUE]]
      /\ conn \in [Clients -> Records] /\ at \in [Daemons -> Steps]
      /\ temps \in [TempNames -> Files]
  BY <1>1, <1>2 DEF RenameTemp, Goto, Inv, TypeOK, Records
<1>5. ASSUME NEW e \in PastSpace'
      PROVE  /\ e \in PastSpace /\ e # c /\ conn'[e] = conn[e]
             /\ Server[e] \in Daemons \ {d} /\ at'[Server[e]] = at[Server[e]]
  BY <1>1, <1>4, NoneApart DEF PastSpace
<1>6. ASSUME NEW A \in SUBSET PastSpace'
      PROVE  \E T \in Nat : /\ Held(A)' = Occupied(roms', Names) + T
                            /\ Held(A \cup {c}) = Occupied(roms, Names) + (T + L)
  <2> DEFINE B == A \cup {c}
  <2>1. A \in SUBSET PastSpace /\ B \in SUBSET PastSpace
    BY <1>3, <1>5
  <2>2. TempsOf(A)' = TempsOf(A) /\ TempsOf(B) = TempsOf(A) \cup {t}
    BY <1>2, <1>5 DEF TempsOf
  <2>3. t \notin TempsOf(A)
    BY <1>2, <1>5, <2>1, PastClients DEF TempsOf, Inv, TempsDiffer
  <2>4. \A x \in TempsOf(A) : temps'[x].len = temps[x].len
    BY <1>4, <2>1, <2>3, PastSized
  <2>5. Occupied(temps', TempsOf(A)) = Occupied(temps, TempsOf(A))
    BY <2>4, SameLengths
  <2>6. /\ Occupied(temps, TempsOf(B)) = Occupied(temps, TempsOf(A)) + L
        /\ Occupied(temps, TempsOf(A)) \in Nat
    <3>1. t \in TempsOf(B) /\ TempsOf(B) \ {t} = TempsOf(A)
      BY <2>2, <2>3
    <3>2. Sized(temps, TempsOf(B))
      BY <2>1, PastSized
    <3>. HIDE DEF B
    <3>. QED BY <1>2, <3>1, <3>2, OneMore
  <2>7. /\ Held(A)' = Occupied(roms', Names) + Occupied(temps, TempsOf(A))
        /\ Held(B) = Occupied(roms, Names) + (Occupied(temps, TempsOf(A)) + L)
    BY <2>2, <2>5, <2>6 DEF Held
  <2>. QED BY <2>6, <2>7
<1> DEFINE R == Occupied(roms, Names)
           R2 == Occupied(roms', Names)
<1>7. /\ R \in Nat /\ R2 \in Nat /\ L \in Nat /\ roms[n].len \in Nat
      /\ R2 + roms[n].len = R + L
      /\ Quota \in Nat /\ MinFree \in Nat /\ Capacity \in Nat
  BY <1>3, DirectorySized
<1>8. SpaceOK'
  <2> SUFFICES ASSUME NEW A \in SUBSET PastSpace', A # {}
               PROVE  Held(A)' + MinFree <= Capacity
    BY DEF SpaceOK
  <2>1. PICK T \in Nat : Held(A)' = R2 + T /\ Held(A \cup {c}) = R + (T + L)
    BY <1>6
  <2>2. A \cup {c} \in SUBSET PastSpace
    BY <1>3, <1>5
  <2>3. Held(A \cup {c}) + MinFree <= Capacity
    BY <2>2 DEF CommitOK, SpaceOK
  <2>. HIDE DEF R, R2
  <2>. QED BY <1>7, <2>1, <2>3
<1>9. QuotaOK'
  <2> SUFFICES ASSUME ~raced', NEW A \in SUBSET InCommit', A # {}
               PROVE  \E x \in A : Covers(x, A)'
    BY DEF QuotaOK
  <2>1. ASSUME NEW x \in A
        PROVE  /\ x \in PastSpace' /\ x \in InCommit /\ conn'[x] = conn[x]
               /\ Committing(Server[x]) /\ Server[x] \in Daemons \ {d}
               /\ at'[Server[x]] = at[Server[x]] /\ conn[x].name \in Names
    <3>1. x \in PastSpace' /\ at'[Server[x]] # "opendir"
      BY DEF InCommit
    <3>2. /\ x \in PastSpace /\ x # c /\ conn'[x] = conn[x]
          /\ Server[x] \in Daemons \ {d} /\ at'[Server[x]] = at[Server[x]]
      BY <1>5, <3>1
    <3>3. conn[x].name \in Names
      BY <3>2, PastClients
    <3>4. x \in InCommit /\ Committing(Server[x])
      BY <3>1, <3>2 DEF PastSpace, InCommit, Committing, Admitting
    <3>. QED BY <3>1, <3>2, <3>3, <3>4
  <2>2. PICK a \in A : TRUE
    OBVIOUS
  <2>3. /\ ~raced /\ \A e \in Daemons \ {d} : Committing(e) => at[e] # "scan"
    BY <2>1, <2>2 DEF RenameTemp
  <2>4. \A x \in A : at[Server[x]] # "scan" /\ at'[Server[x]] # "scan"
    BY <2>1, <2>3
  <2>5. A \cup {c} \in SUBSET InCommit /\ A \in SUBSET PastSpace'
    BY <1>3, <2>1
  <2>6. PICK e \in A \cup {c} : Covers(e, A \cup {c})
    BY <2>3, <2>5 DEF CommitOK, QuotaOK
  <2>7. Held(A \cup {c}) <= Quota + roms[conn[e].name].len
    BY <1>1, <1>4, <2>4, <2>6 DEF Covers
  <2>8. PICK T \in Nat : Held(A)' = R2 + T /\ Held(A \cup {c}) = R + (T + L)
    BY <1>6, <2>5
  <2>9. \A x \in Names : roms[x].len \in Nat /\ roms'[x].len \in Nat
    BY <1>3, DirectorySized
  <2>. HIDE DEF R, R2
  <2>10. \E x \in A : Held(A)' <= Quota + roms'[conn'[x].name].len
    <3>1. CASE conn[e].name = n
      <4>1. Held(A)' <= Quota
        BY <3>1, <1>7, <2>7, <2>8
      <4>2. roms'[conn'[a].name].len \in Nat
        BY <2>1, <2>9
      <4>3. Held(A)' \in Nat
        BY <1>7, <2>8
      <4>4. Held(A)' <= Quota + roms'[conn'[a].name].len
        BY <4>1, <4>2, <4>3, <1>7
      <4>. QED BY <4>4
    <3>2. CASE conn[e].name # n
      <4>1. e \in A /\ conn[e].name \in Names
        BY <3>2, <1>1, <2>1, <2>6
      <4>2. roms'[conn'[e].name] = roms[conn[e].name]
        BY <3>2, <4>1, <1>3, <2>1
      <4>3. roms[conn[e].name].len \in Nat
        BY <4>1, <2>9
      <4>4. Held(A)' <= Quota + roms[conn[e].name].len
        BY <4>3, <1>7, <2>7, <2>8
      <4>. QED BY <4>1, <4>2, <4>4
    <3>. QED BY <3>1, <3>2
  <2>. QED BY <2>4, <2>10 DEF Covers
<1>. QED BY <1>8, <1>9 DEF CommitOK

LEMMA CommitSteps ==
    ASSUME Inv, Inv', CommitOK, [Next]_vars PROVE CommitOK'
<1>1. CASE PowerLoss
  <2>1. \A d \in Daemons : at'[d] = "loop"
    BY <1>1 DEF PowerLoss, Forgotten
  <2>2. PastSpace' = {} /\ InCommit' = {}
    BY <2>1, NoneApart DEF PastSpace, InCommit
  <2>. QED BY <2>2 DEF CommitOK, SpaceOK, QuotaOK
<1>2. CASE UNCHANGED vars
  <2>1. UNCHANGED <<at, job, count, conn, roms, raced>>
    BY <1>2 DEF vars, threadVars, fileVars, otherVars
  <2>2. PastSpace' = PastSpace
    BY <2>1 DEF PastSpace
  <2>. QED BY <2>1, <2>2, NothingPassed
<1>3. ASSUME NEW d \in Daemons, DaemonStep(d) PROVE CommitOK'
  BY <1>3, DaemonsAside, Spacing, Opening, Counting, Deciding, Renaming
  DEF DaemonStep, FinishUpload
<1>. QED BY <1>1, <1>2, <1>3, ClientsAside DEF Next

LEMMA CommitHolds == Spec => [](Inv /\ CommitOK)
<1>1. Init => CommitOK
  <2> SUFFICES ASSUME Init PROVE PastSpace = {} /\ InCommit = {}
    BY DEF CommitOK, SpaceOK, QuotaOK
  <2>. QED BY NoneApart DEF Init, PastSpace, InCommit
<1>2. Inv /\ CommitOK /\ [Next]_vars => CommitOK'
  BY InvSteps, CommitSteps
<1>3. Inv /\ [Next]_vars => Inv'
  BY InvSteps
<1>. QED BY <1>1, <1>2, <1>3, InvInit, PTL DEF Spec

-----------------------------------------------------------------------------
(* Results *)

\* Every variable keeps its type (http.c: struct client and the files).
THEOREM UploadTyped == Spec => []TypeOK
  BY InvHolds, PTL DEF Inv

\* No reader and no medium ever has a part of a ROM under its name, whatever
\* the number of daemons that upload, are killed or lose power.
THEOREM RomsStayWhole == Spec => []NoPartialRom
<1>1. Inv => NoPartialRom
  <2> SUFFICES ASSUME Inv, NEW n \in Names PROVE Complete(roms[n]) /\ Complete(stable[n])
    BY DEF NoPartialRom
  <2>1. roms[n] \in WholeFiles /\ stable[n] \in WholeFiles
    BY DEF Inv
  <2>. QED BY <2>1 DEF WholeFiles, Complete, File
<1>. QED BY <1>1, InvHolds, PTL

\* The temporaries of a running daemon are those its clients write, one each.
THEOREM TempsAreUploads == Spec => []TempsMatchUploads
<1>1. Inv => TempsMatchUploads
  BY DEF Inv, TempsMatchUploads, ConnOK, TempOK, TempsDiffer, TempsOwned
<1>. QED BY <1>1, InvHolds, PTL

\* A success is reported exactly if the ROM was renamed, and without a warning
\* only if the medium holds it, on a file system that syncs directories.
THEOREM AnswersTrue == Spec => AnswerHonest
<1>1. ASSUME Inv, [Next]_vars
      PROVE  [\A c \in Clients : Honest(c)]_vars
  BY <1>1, Answers
<1>2. Inv /\ [Next]_vars =>
        [\A c \in Clients :
           conn'[c].reply # conn[c].reply /\ conn'[c].reply # "none" =>
              /\ conn'[c].reply \in {"ok", "warned"} <=> conn[c].renamed
              /\ conn'[c].reply = "ok" /\ dirFsync =>
                   stable'[conn[c].name] = roms'[conn[c].name]]_vars
  BY <1>1 DEF Honest
<1>. QED BY <1>2, InvHolds, PTL DEF Spec, AnswerHonest

\* A rename leaves the reserve of free space and, unless a rename overtook the
\* traversal of another commit, the ROMs within the quota, whichever other
\* daemons check and rename in between (storage_commit_allowed, finish_upload).
THEOREM CommitsFit == Spec => CommitWithinLimits
<1>1. ASSUME Inv, CommitOK, Inv', [Next]_vars, roms' # roms,
             NEW d \in Daemons, Running(d)'
      PROVE  WithinMedium' /\ (~raced => WithinQuota')
  <2>1. ~PowerLoss
    BY <1>1 DEF PowerLoss, Forgotten, Running
  <2>2. Next
    BY <1>1 DEF vars, fileVars
  <2>3. \A c \in Clients : ~ClientStep(c)
    BY <1>1, ClientsAside
  <2>4. PICK e \in Daemons : DaemonStep(e)
    BY <2>1, <2>2, <2>3 DEF Next
  <2>5. RenameTemp(e)
    BY <1>1, <2>4, DaemonsAside, CheckFrame DEF DaemonStep, FinishUpload
  <2>. QED BY <1>1, <2>5, CommitFits
<1>2. Inv /\ CommitOK /\ [Next]_vars =>
        [roms' # roms /\ (\E d \in Daemons : Running(d)') =>
           WithinMedium' /\ (~raced => WithinQuota')]_vars
  BY <1>1, InvSteps
<1>. QED BY <1>2, CommitHolds, PTL DEF Spec, CommitWithinLimits
=============================================================================
