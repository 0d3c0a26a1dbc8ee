------------------------------- MODULE Upload -------------------------------
(***************************************************************************)
(* ROM uploads of nesd (http.c: begin_upload, read_upload, finish_upload,  *)
(* abort_upload, the upload branch of start_http_request, the deadlines of *)
(* http_serve and cleanup_abandoned_uploads).  A body is received into a   *)
(* hidden temporary file of the ROM directory, checked and renamed.        *)
(*                                                                         *)
(* Several daemons may share the directory: the temporary's name carries   *)
(* the process id of its owner, and a daemon that starts removes those     *)
(* whose owner is gone.  Inside a daemon the network thread runs one       *)
(* handler at a time; between the system calls of a handler another daemon *)
(* may run, the daemon may be killed and the router may lose power.        *)
(***************************************************************************)
EXTENDS Naturals, FiniteSets

CONSTANTS
    Daemons,
    Clients,        \* slots of the client tables, free or at a request
    Server,         \* the daemon a slot belongs to
    Names,          \* names of ROMs
    Bodies,         \* contents a client may send
    Length,         \* their declared length, in chunks
    Valid,          \* those that rom_fd_valid accepts
    None,
    Unreadable,     \* contents that are lost, or that nobody will read
    Pids,
    Attempts,       \* names that begin_upload tries (128)
    Quota, Capacity, MinFree        \* in chunks

ASSUME UploadAssumption ==
    /\ IsFiniteSet(Names) /\ IsFiniteSet(Pids) /\ IsFiniteSet(Clients)
    /\ Server \in [Clients -> Daemons]
    /\ Length \in [Bodies -> Nat \ {0}]
    /\ Valid \subseteq Bodies
    /\ Unreadable \notin Bodies \cup {None}
    /\ None \notin Bodies \cup Names \cup Pids \cup Clients \cup (Pids \X (1..Attempts))
    /\ Names \cap (Pids \X (1..Attempts)) = {}
    /\ {Attempts, Capacity, MinFree} \subseteq Nat
    /\ Quota \in Nat \ {0}      \* 0 means no quota, and no traversal

VARIABLES
    pid,            \* process id of a running daemon
    at, job,        \* how far its network thread got, and for which client
    count,          \* directory_usage: files it has yet to find, and the sum
    conn,           \* struct client
    temps,          \* temporaries of the directory, by name
    roms,           \* ROMs of the directory as processes see them
    stable,         \* ROMs as the medium holds them
    dirFsync,       \* does the file system honour fsync() on a directory?
    raced           \* history: a rename overtook the traversal of a commit

threadVars == <<at, job, count>>
fileVars   == <<temps, roms, stable>>
otherVars  == <<dirFsync, raced>>
vars == <<pid, threadVars, conn, fileVars, otherVars>>

TempNames == Pids \X (1..Attempts)

\* The name of a body tells its contents; len is how much of it is there.
File(b, l, s) == [body |-> b, len |-> l, synced |-> s]
Absent == File(None, 0, TRUE)
Files  == [body : Bodies \cup {None, Unreadable}, len : Nat, synced : BOOLEAN]

\* What a power loss leaves of a file: without fsync, a length without data.
AfterPowerLoss(f) == IF f.synced THEN f ELSE File(Unreadable, f.len, TRUE)

Steps   == {"loop", "statvfs", "opendir", "scan", "create", "fsync", "rename",
            "dirsync"}
Phases  == {"headers", "upload", "discard"}
Replies == {"none", "ok", "warned", "error"}
Free == [phase |-> "headers", dead |-> FALSE, body |-> None, name |-> None,
         temp |-> None, got |-> 0, reply |-> "none",
         renamed |-> FALSE]

\* The start of a traversal finds the files that exist.
NoCount == [unread |-> {}, used |-> 0]
Existing == {n \in Names : roms[n] # Absent} \cup {t \in TempNames : temps[t] # Absent}

Running(d) == pid[d] # None
\* The handlers of d's clients run in the loop, one at a time.
InLoop(c) == Running(Server[c]) /\ at[Server[c]] = "loop"
Live(c)   == InLoop(c) /\ ~conn[c].dead

-----------------------------------------------------------------------------
(* Space *)

\* The chunks of the files S, and how many they are.
Chunks(f, S)   == UNION {{x} \X (1..f[x].len) : x \in S}
Occupied(f, S) == Cardinality(Chunks(f, S))

FreeSpace == Capacity - (Occupied(roms, Names) + Occupied(temps, TempNames))

-----------------------------------------------------------------------------
(* Ends of an upload *)

\* abort_upload closes and unlinks the temporary.
Unlinked(c) == [t \in TempNames |-> IF t = conn[c].temp THEN Absent
                                                        ELSE temps[t]]
AbortUpload(c) == temps' = Unlinked(c) /\ UNCHANGED <<roms, stable>>

\* An error is queued and the rest of the body is drained (or there is none).
Refuse(c) == conn' = [conn EXCEPT ![c] =
                        [Free EXCEPT !.phase = "discard", !.reply = "error"]]

\* upload_finish_error: an error is queued and the client is done.
FinishError(c) == conn' = [conn EXCEPT ![c] =
    [Free EXCEPT !.phase = "upload", !.dead = TRUE, !.reply = "error",
                 !.renamed = conn[c].renamed]]

Goto(d, step) == at' = [at EXCEPT ![d] = step] /\ UNCHANGED <<job, count>>
Loop(d) == /\ at' = [at EXCEPT ![d] = "loop"]
           /\ job' = [job EXCEPT ![d] = None]
           /\ count' = [count EXCEPT ![d] = NoCount]

-----------------------------------------------------------------------------
(* Clients *)

ActiveUploadCount(d) ==
    Cardinality({c \in Clients : /\ Server[c] = d /\ ~conn[c].dead
                                 /\ conn[c].phase = "upload"})

\* start_http_request: another upload in progress, no space, or a bad name
\* or length (which needs no state).
RefuseUpload(c) ==
    /\ Live(c) /\ conn[c].phase = "headers"
    /\ Refuse(c)
    /\ UNCHANGED <<pid, threadVars, fileVars, otherVars>>

\* Its checks before begin_upload looks at the directory.
AdmitUpload(c) ==
    /\ Live(c) /\ conn[c].phase = "headers"
    /\ ActiveUploadCount(Server[c]) = 0
    /\ \E n \in Names, b \in Bodies :
         conn' = [conn EXCEPT ![c].name = n, ![c].body = b]
    /\ at' = [at EXCEPT ![Server[c]] = "statvfs"]
    /\ job' = [job EXCEPT ![Server[c]] = c]
    /\ UNCHANGED <<pid, count, fileVars, otherVars>>

-----------------------------------------------------------------------------
(* storage_available, before the temporary exists, and                     *)
(* storage_commit_allowed, when it is complete: one action per system call *)

Admitting(d)  == conn[job[d]].phase = "headers"
Committing(d) == at[d] \in {"scan", "rename"} /\ ~Admitting(d)

\* statvfs; before a commit also rom_fd_valid, which reads only the temporary.
CheckSpace(d) ==
    LET k == conn[job[d]] IN
    /\ at[d] = "statvfs"
    /\ IF Admitting(d)
       THEN FreeSpace >= Length[k.body] + MinFree
       ELSE k.body \in Valid /\ FreeSpace >= MinFree
    /\ Goto(d, "opendir")
    /\ UNCHANGED <<pid, conn, fileVars, otherVars>>

\* Fault: hidden files are not counted.
OpenDirectoryVisible(d) ==
    /\ at[d] = "opendir"
    /\ count' = [count EXCEPT ![d] = [unread |-> Existing \cap Names, used |-> 0]]
    /\ at' = [at EXCEPT ![d] = "scan"]
    /\ UNCHANGED <<pid, job, conn, fileVars, otherVars>>

\* directory_usage opens the directory.  A file that appears later may or may
\* not be found, which can only make the check stricter: it is not counted.
OpenDirectory(d) ==
    /\ at[d] = "opendir"
    /\ count' = [count EXCEPT ![d] = [unread |-> Existing, used |-> 0]]
    /\ at' = [at EXCEPT ![d] = "scan"]
    /\ UNCHANGED <<pid, job, conn, fileVars, otherVars>>

\* One readdir and lstat, in the order of the file system.  A file that is
\* gone counts nothing (or lstat fails, and with it the check).
CountFile(d) ==
    /\ at[d] = "scan"
    /\ \E e \in count[d].unread :
         count' = [count EXCEPT ![d] =
           [unread |-> count[d].unread \ {e},
            used   |-> count[d].used
                         + (IF e \in Names THEN roms[e].len ELSE temps[e].len)]]
    /\ UNCHANGED <<pid, at, job, conn, fileVars, otherVars>>

\* lstat of the file that the ROM will replace, and the decision.
CheckQuota(d) ==
    LET k         == conn[job[d]]
        replacing == roms[k.name].len
        required  == IF Length[k.body] > replacing
                     THEN Length[k.body] - replacing ELSE 0
    IN  /\ at[d] = "scan" /\ count[d].unread = {}
        /\ IF Admitting(d)
           THEN /\ count[d].used + required <= Quota
                /\ at' = [at EXCEPT ![d] = "create"]
           ELSE /\ count[d].used <= Quota + replacing
                /\ at' = [at EXCEPT ![d] = "rename"]
        /\ count' = [count EXCEPT ![d] = NoCount]
        /\ UNCHANGED <<pid, job, conn, fileVars, otherVars>>

-----------------------------------------------------------------------------
(* Receiving a body *)

\* begin_upload tries one name after the other until openat finds one that is
\* not taken.  (A name that CreateFails removed under a dead client is not used
\* again before that client is destroyed.)
Untaken(d) == {t \in TempNames : /\ t[1] = pid[d] /\ temps[t] = Absent
                                 /\ \A c \in Clients : conn[c].temp # t}
FirstUntaken(d) == {t \in Untaken(d) : \A u \in Untaken(d) : t[2] <= u[2]}

\* Fault: the temporary is opened without O_EXCL.
CreateTempShared(d) ==
    LET c == job[d]
        t == <<pid[d], 1>>
    IN  /\ at[d] = "create"
        /\ \E n \in 0..Length[conn[c].body] :
             /\ n <= FreeSpace
             /\ temps' = [temps EXCEPT ![t] = File(conn[c].body, n, FALSE)]
             /\ conn' = [conn EXCEPT ![c].phase = "upload", ![c].temp = t,
                                     ![c].got = n]
             /\ IF n = Length[conn[c].body] THEN Goto(d, "fsync") ELSE Loop(d)
        /\ UNCHANGED <<pid, roms, stable, otherVars>>

\* begin_upload creates a temporary under a name that is not taken (the clock
\* in the name may stand still) and writes what came with the header.
CreateTemp(d) ==
    LET c == job[d] IN
    /\ at[d] = "create"
    /\ \E t \in FirstUntaken(d), n \in 0..Length[conn[c].body] :
         /\ n <= FreeSpace
         /\ temps' = [temps EXCEPT ![t] = File(conn[c].body, n, FALSE)]
         /\ conn' = [conn EXCEPT ![c].phase = "upload", ![c].temp = t,
                                 ![c].got = n]
         /\ IF n = Length[conn[c].body] THEN Goto(d, "fsync") ELSE Loop(d)
    /\ UNCHANGED <<pid, roms, stable, otherVars>>

\* A check fails, and nothing was created; or the open or the first write
\* fails, and abort_upload unlinks the name that was tried last, whoever made
\* it: if it exists, a client of this daemon that is already dead.
CreateFails(d) ==
    /\ \/ at[d] \in {"statvfs", "opendir", "scan"} /\ Admitting(d) /\ UNCHANGED temps
       \/ /\ at[d] = "create"
          /\ \E n \in 1..Attempts :
               temps' = [temps EXCEPT ![<<pid[d], n>>] = Absent]
    /\ Refuse(job[d])
    /\ Loop(d)
    /\ UNCHANGED <<pid, roms, stable, otherVars>>

\* read_upload: some bytes, which may or may not complete a chunk.
ReadUpload(c) ==
    LET k == conn[c]
        d == Server[c]
    IN  /\ Live(c) /\ k.phase = "upload"
        /\ \E n \in {0, 1} :
             /\ n <= FreeSpace
             /\ temps' = [temps EXCEPT ![k.temp] = File(k.body, k.got + n, FALSE)]
             /\ conn' = [conn EXCEPT ![c].got = k.got + n]
             /\ IF k.got + n = Length[k.body]
                THEN /\ at' = [at EXCEPT ![d] = "fsync"]
                     /\ job' = [job EXCEPT ![d] = c]
                     /\ UNCHANGED count
                ELSE UNCHANGED threadVars
        /\ UNCHANGED <<pid, roms, stable, otherVars>>

\* write_all_fd fails: no space, or an error of the medium.
WriteFails(c) ==
    /\ Live(c) /\ conn[c].phase = "upload"
    /\ AbortUpload(c)
    /\ Refuse(c)
    /\ UNCHANGED <<pid, threadVars, otherVars>>

\* recv returns 0 or an error.
Hangup(c) ==
    /\ Live(c) /\ conn[c].phase = "upload"
    /\ conn' = [conn EXCEPT ![c].dead = TRUE]
    /\ UNCHANGED <<pid, threadVars, fileVars, otherVars>>

\* http_serve finds the deadline in the past (it may pass at any time here):
\* 408, and the rest of the body is drained.
Deadline(c) ==
    /\ Live(c) /\ conn[c].phase = "upload"
    /\ AbortUpload(c)
    /\ Refuse(c)
    /\ UNCHANGED <<pid, threadVars, otherVars>>

\* The body is drained, its sender is gone, or two seconds have passed.
DrainEnds(c) ==
    /\ Live(c) /\ conn[c].phase = "discard"
    /\ conn' = [conn EXCEPT ![c] = Free]
    /\ UNCHANGED <<pid, threadVars, fileVars, otherVars>>

\* client_destroy, at the end of the pass: requests of other clients may be
\* handled between the death of a client and this.
ClientDestroy(c) ==
    /\ InLoop(c) /\ conn[c].dead
    /\ AbortUpload(c)
    /\ conn' = [conn EXCEPT ![c] = Free]
    /\ UNCHANGED <<pid, threadVars, otherVars>>

-----------------------------------------------------------------------------
(* finish_upload, one action per system call: SyncTemp, the check above,   *)
(* RenameTemp and SyncDirectory                                            *)

\* Fault: the data are not synced.
SyncTempSkipped(d) ==
    /\ at[d] = "fsync"
    /\ Goto(d, "statvfs")
    /\ UNCHANGED <<pid, conn, fileVars, otherVars>>

SyncTemp(d) ==
    /\ at[d] = "fsync"
    /\ temps' = [temps EXCEPT ![conn[job[d]].temp].synced = TRUE]
    /\ Goto(d, "statvfs")
    /\ UNCHANGED <<pid, conn, roms, stable, otherVars>>

\* renameat, which fails if somebody removed the temporary
RenameTemp(d) ==
    LET k == conn[job[d]] IN
    /\ at[d] = "rename"
    /\ temps[k.temp] # Absent
    /\ roms' = [roms EXCEPT ![k.name] = temps[k.temp]]
    /\ temps' = [temps EXCEPT ![k.temp] = Absent]
    /\ conn' = [conn EXCEPT ![job[d]].temp = None, ![job[d]].renamed = TRUE]
    /\ Goto(d, "dirsync")
    /\ raced' = /\ \E e \in Daemons \ {d} : Committing(e)
                /\ raced \/ \E e \in Daemons \ {d} : Committing(e) /\ at[e] = "scan"
    /\ UNCHANGED <<pid, stable, dirFsync>>

\* fsync, the checks, close or renameat fail.
FinishFails(d) ==
    /\ at[d] \in {"fsync", "statvfs", "opendir", "scan", "rename"}
    /\ ~Admitting(d)
    /\ AbortUpload(job[d])
    /\ FinishError(job[d])
    /\ Loop(d)
    /\ raced' = (raced /\ \E e \in Daemons \ {d} : Committing(e))
    /\ UNCHANGED <<pid, dirFsync>>

Answered(d, reply) ==
    /\ conn' = [conn EXCEPT ![job[d]] =
         [Free EXCEPT !.phase = "upload", !.dead = TRUE, !.reply = reply,
                      !.renamed = TRUE]]
    /\ Loop(d)

\* The directory fsync makes every earlier rename durable.  EINVAL and
\* EOPNOTSUPP of a file system that does not know it are no reason to warn.
SyncDirectory(d) ==
    /\ at[d] = "dirsync"
    /\ stable' = IF dirFsync THEN roms ELSE stable
    /\ Answered(d, "ok")
    /\ UNCHANGED <<pid, temps, roms, otherVars>>

\* Fault: a failed directory fsync is answered as a failed upload.
SyncDirectoryErrors(d) ==
    /\ at[d] = "dirsync"
    /\ Answered(d, "error")
    /\ UNCHANGED <<pid, fileVars, otherVars>>

\* The rename cannot be taken back: the answer is a success with a warning.
SyncDirectoryFails(d) ==
    /\ at[d] = "dirsync"
    /\ Answered(d, "warned")
    /\ UNCHANGED <<pid, fileVars, otherVars>>

FinishUpload(d) ==
    \/ SyncTemp(d)
    \/ RenameTemp(d)
    \/ FinishFails(d)
    \/ SyncDirectory(d)
    \/ SyncDirectoryFails(d)

-----------------------------------------------------------------------------
(* Processes *)

\* Fault: a temporary with the process id of the new daemon is spared too.
CleanedSparingOwn(own, alive) ==
    [t \in TempNames |-> IF t[1] \in alive \cup {own} THEN temps[t] ELSE Absent]

\* cleanup_abandoned_uploads in a process with id own
CleanupAbandonedUploads(own, alive) ==
    [t \in TempNames |-> IF t[1] \in alive \ {own} THEN temps[t] ELSE Absent]

\* A daemon starts.  Unrelated processes may have taken the ids of dead ones.
Start(d) ==
    LET taken == {pid[e] : e \in Daemons} IN
    /\ ~Running(d)
    /\ \E p \in Pids \ taken, others \in SUBSET Pids :
         /\ pid' = [pid EXCEPT ![d] = p]
         /\ temps' = CleanupAbandonedUploads(p, taken \cup others)
    /\ UNCHANGED <<threadVars, conn, roms, stable, otherVars>>

Forgotten(D) ==
    /\ pid' = [d \in Daemons |-> IF d \in D THEN None ELSE pid[d]]
    /\ at' = [d \in Daemons |-> IF d \in D THEN "loop" ELSE at[d]]
    /\ job' = [d \in Daemons |-> IF d \in D THEN None ELSE job[d]]
    /\ count' = [d \in Daemons |-> IF d \in D THEN NoCount ELSE count[d]]
    /\ conn' = [c \in Clients |-> IF Server[c] \in D THEN Free ELSE conn[c]]

\* Of a temporary whose owner is gone only its size matters.
Litter(f) == IF f = Absent THEN Absent ELSE File(Unreadable, f.len, TRUE)

Kill(d) ==
    /\ Running(d)
    /\ Forgotten({d})
    /\ temps' = [t \in TempNames |-> IF t[1] = pid[d] THEN Litter(temps[t])
                                                      ELSE temps[t]]
    /\ raced' = (raced /\ \E e \in Daemons \ {d} : Committing(e))
    /\ UNCHANGED <<roms, stable, dirFsync>>

\* A name is found as it was last seen or as the medium held it; whether a
\* temporary is found depends on when its entry reached the medium.
PowerLoss ==
    /\ Forgotten(Daemons)
    /\ \E found \in SUBSET {t \in TempNames : temps[t] # Absent},
          reached \in SUBSET {n \in Names : roms[n] # stable[n]} :
         /\ temps' = [t \in TempNames |-> IF t \in found
                        THEN Litter(temps[t]) ELSE Absent]
         /\ roms' = [n \in Names |-> IF n \in reached
                        THEN AfterPowerLoss(roms[n]) ELSE stable[n]]
    /\ stable' = roms'
    /\ raced' = FALSE
    /\ UNCHANGED dirFsync

Complete(f) == f = Absent \/ (f.body \in Valid /\ f.len = Length[f.body])
WithinQuota  == Occupied(roms, Names) <= Quota
WithinMedium == Occupied(roms, Names) + MinFree <= Capacity

Init ==
    /\ pid = [d \in Daemons |-> None]
    /\ at = [d \in Daemons |-> "loop"]
    /\ job = [d \in Daemons |-> None]
    /\ count = [d \in Daemons |-> NoCount]
    /\ conn = [c \in Clients |-> Free]
    /\ temps = [t \in TempNames |-> Absent]
    /\ roms \in [Names -> {Absent} \cup {File(b, Length[b], TRUE) : b \in Valid}]
    /\ WithinQuota /\ WithinMedium
    /\ stable = roms
    /\ dirFsync \in BOOLEAN /\ raced = FALSE

ClientStep(c) ==
    \/ RefuseUpload(c)
    \/ AdmitUpload(c)
    \/ ReadUpload(c)
    \/ WriteFails(c)
    \/ Hangup(c)
    \/ Deadline(c)
    \/ DrainEnds(c)
    \/ ClientDestroy(c)

DaemonStep(d) ==
    \/ CheckSpace(d)
    \/ OpenDirectory(d)
    \/ CountFile(d)
    \/ CheckQuota(d)
    \/ CreateTemp(d)
    \/ CreateFails(d)
    \/ FinishUpload(d)
    \/ Start(d)
    \/ Kill(d)

Next ==
    \/ \E c \in Clients : ClientStep(c)
    \/ \E d \in Daemons : DaemonStep(d)
    \/ PowerLoss

Spec == Init /\ [][Next]_vars

-----------------------------------------------------------------------------
(* Properties *)

\* Daemons, clients and files hold values of their kind.
TypeOK ==
    /\ pid \in [Daemons -> Pids \cup {None}]
    /\ at \in [Daemons -> Steps]
    /\ job \in [Daemons -> Clients \cup {None}]
    /\ count \in [Daemons -> [unread : SUBSET (Names \cup TempNames), used : Nat]]
    /\ conn \in [Clients ->
         [phase : Phases, dead : BOOLEAN, body : Bodies \cup {None},
          name : Names \cup {None}, temp : TempNames \cup {None}, got : Nat,
          reply : Replies, renamed : BOOLEAN]]
    /\ temps \in [TempNames -> Files]
    /\ roms \in [Names -> Files]
    /\ stable \in [Names -> Files]
    /\ dirFsync \in BOOLEAN /\ raced \in BOOLEAN

\* Whatever fails, is killed or loses power, and whoever else uploads: under
\* the name of a ROM there is nothing or one complete, valid ROM, for every
\* reader and on the medium (finish_upload renames last).
NoPartialRom == \A n \in Names : Complete(roms[n]) /\ Complete(stable[n])

\* The temporaries that carry the id of a running daemon are exactly those
\* its clients write: no other client and no other daemon's start removes or
\* overwrites the file of an upload, and none is left behind on any path out
\* of an upload or by an earlier process with the same id.  (The file of a
\* client that is dead may be gone before the client is.)
TempsMatchUploads ==
    /\ \A c \in Clients : conn[c].temp # None =>
         LET f == temps[conn[c].temp] IN
         \/ f.body = conn[c].body /\ f.len = conn[c].got
         \/ conn[c].dead /\ f = Absent
    /\ \A c, e \in Clients :
         c # e /\ conn[c].temp # None => conn[c].temp # conn[e].temp
    /\ \A d \in Daemons, t \in TempNames :
         Running(d) /\ t[1] = pid[d] /\ temps[t] # Absent =>
            \E c \in Clients : Server[c] = d /\ conn[c].temp = t

\* A rename leaves the reserve of free space, whoever else commits between the
\* check and the rename; and it leaves the ROMs within the quota, unless a
\* rename of one daemon overtook the traversal of another whose commit was
\* under way: directory_usage is no snapshot, and neither of the two may have
\* counted the file of the other.
CommitWithinLimits ==
    [][roms' # roms /\ (\E d \in Daemons : Running(d)') =>
         WithinMedium' /\ (~raced => WithinQuota')]_vars

\* The answer tells what happened: a success exactly if the ROM was renamed,
\* and one without a warning only if the ROM will survive a power loss, where
\* the file system honours the fsync of a directory.
AnswerHonest ==
    [][\A c \in Clients :
         conn'[c].reply # conn[c].reply /\ conn'[c].reply # "none" =>
            /\ conn'[c].reply \in {"ok", "warned"} <=> conn[c].renamed
            /\ conn'[c].reply = "ok" /\ dirFsync =>
                 stable'[conn[c].name] = roms'[conn[c].name]]_vars
=============================================================================
