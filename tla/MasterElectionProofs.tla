------------------------- MODULE MasterElectionProofs -------------------------
(***************************************************************************)
(* Proofs about MasterElection, for any clients, daemons and endings: its  *)
(* types, that there is one master, and that its socket file is not        *)
(* removed, until a daemon shuts down in order.                            *)
(***************************************************************************)
EXTENDS MasterElection, TLAPS

\* flock() excludes: of the processes that have a file open one has its lock.
Exclusive == \A p, q \in locked : fd[p] = fd[q] => p = q

\* Who has a lock is where the code says that it has it.
LockedWhere ==
  /\ \A c \in Clients :
       c \in locked <=> client[c] \in {"holding", "sweeping", "spawning"}
  /\ \A d \in Daemons : d \in locked <=> Holding(d) \/ daemon[d] = "ending"

\* Who is about to lock has a file open.
OpenedFile ==
  /\ \A c \in Clients : client[c] = "opened" => fd[c] # None
  /\ \A d \in Daemons : daemon[d] = "opened" => fd[d] # None

\* All who have the lock file open have the same file open.
SameFile == NoShutdown => \A p \in Procs : fd[p] # None => fd[p] = lockFile

\* The socket file of a daemon that has bound it stays.
SocketKept ==
  NoShutdown => \A d \in Daemons : daemon[d] \in {"bound", "serving"} => socketFile = d

LockInv ==
  /\ TypeOK
  /\ Exclusive
  /\ LockedWhere
  /\ OpenedFile
  /\ SameFile
  /\ SocketKept
-----------------------------------------------------------------------------
\* What an open() leaves: everybody has the file at the path open, unless a
\* daemon has shut down; no lock is touched.
LEMMA OpenKeeps ==
  ASSUME TypeOK, Exclusive, SameFile, NEW p \in Procs, OpenLock(p), p \notin locked,
         NoShutdown' => NoShutdown
  PROVE  /\ lockFile' \in Procs \cup {Old} /\ fd' \in [Procs -> Procs \cup {Old, None}]
         /\ locked' = locked /\ socketFile' = socketFile
         /\ locked \subseteq {q \in Procs : fd'[q] # None}
         /\ fd'[p] # None /\ \A q \in Procs : fd[q] # None => fd'[q] # None
         /\ Exclusive' /\ SameFile'
<1>1. /\ lockFile' = IF lockFile = None THEN p ELSE lockFile
      /\ fd' = [fd EXCEPT ![p] = lockFile'] /\ locked' = locked
      /\ socketFile' = socketFile
  BY DEF OpenLock
<1>2. lockFile' \in Procs \cup {Old} /\ lockFile' # None
  BY <1>1, ConstantsAssumption DEF TypeOK
<1>3. /\ fd'[p] = lockFile' /\ \A q \in Procs \ {p} : fd'[q] = fd[q]
      /\ fd' \in [Procs -> Procs \cup {Old, None}]
  BY <1>1, <1>2 DEF TypeOK
<1>4. locked \subseteq {q \in Procs : fd'[q] # None}
  BY <1>3 DEF TypeOK
<1>5. Exclusive'
  BY <1>1, <1>3 DEF Exclusive, TypeOK
<1>6. SameFile'
  BY <1>1, <1>2, <1>3 DEF SameFile
<1> QED
  BY <1>1, <1>2, <1>3, <1>4, <1>5, <1>6

\* What a flock() that succeeds leaves.
LEMMA TakeKeeps ==
  ASSUME TypeOK, Exclusive, SameFile, NEW p \in Procs, TakeLock(p), fd[p] # None,
         NoShutdown' => NoShutdown
  PROVE  /\ UNCHANGED <<lockFile, fd, socketFile>> /\ locked' = locked \cup {p}
         /\ locked' \subseteq {q \in Procs : fd'[q] # None}
         /\ Exclusive' /\ SameFile'
  BY DEF TypeOK, Exclusive, SameFile, TakeLock, LockFree

\* What a close() leaves.
LEMMA CloseKeeps ==
  ASSUME TypeOK, Exclusive, SameFile, NEW p \in Procs, CloseLock(p),
         NoShutdown' => NoShutdown
  PROVE  /\ UNCHANGED <<lockFile, socketFile>> /\ locked' = locked \ {p}
         /\ fd' \in [Procs -> Procs \cup {Old, None}]
         /\ \A q \in Procs \ {p} : fd'[q] = fd[q]
         /\ locked' \subseteq {q \in Procs : fd'[q] # None}
         /\ Exclusive' /\ SameFile'
<1>1. /\ UNCHANGED <<lockFile, socketFile>> /\ locked' = locked \ {p}
      /\ fd' = [fd EXCEPT ![p] = None]
  BY DEF CloseLock
<1>2. /\ fd'[p] = None /\ \A q \in Procs \ {p} : fd'[q] = fd[q]
      /\ fd' \in [Procs -> Procs \cup {Old, None}]
  BY <1>1 DEF TypeOK
<1>3. locked' \subseteq {q \in Procs : fd'[q] # None}
  BY <1>1, <1>2 DEF TypeOK
<1>4. Exclusive'
  BY <1>1, <1>2 DEF Exclusive, TypeOK
<1>5. SameFile'
  BY <1>1, <1>2 DEF SameFile
<1> QED
  BY <1>1, <1>2, <1>3, <1>4, <1>5

\* Who has the lock under NoShutdown is alone: all have the same file open.
LEMMA OneHolder ==
  ASSUME LockInv, NoShutdown, NEW p \in locked, NEW q \in locked
  PROVE  p = q
  BY DEF LockInv, TypeOK, Exclusive, SameFile
-----------------------------------------------------------------------------
\* Every step of a client keeps the invariant.
LEMMA ClientKeeps ==
  ASSUME LockInv, NEW c \in Clients, ClientStep(c) \/ Quit(c)
  PROVE  LockInv'
<1> USE DEF LockInv, Procs
<1>p. c \in Procs /\ c \notin Daemons
  BY ConstantsAssumption
<1>n. daemon' = daemon => (NoShutdown' <=> NoShutdown)
  BY DEF NoShutdown, Ending
<1>1. ASSUME UNCHANGED <<daemon, server, fileVars>>,
             NEW s \in {"connecting", "seeking", "unavailable", "connected", "failed"},
             client[c] \in {"start", "waiting", "connecting"},
             client' = [client EXCEPT ![c] = s]
      PROVE  LockInv'
  BY <1>1, <1>n DEF TypeOK, Exclusive, LockedWhere, OpenedFile, SameFile,
     SocketKept, fileVars, Holding
<1>2. CASE Find(c) \/ Available(c) \/ GiveUp(c) \/ Connect(c)
  BY <1>1, <1>2 DEF Find, Available, GiveUp, Connect, Goes
<1>3. CASE Open(c)
  <2>1. /\ client[c] = "seeking" /\ client' = [client EXCEPT ![c] = "opened"]
        /\ OpenLock(c) /\ UNCHANGED <<daemon, server>>
    BY <1>3 DEF Open, Goes
  <2>2. c \notin locked
    BY <2>1 DEF LockedWhere
  <2> QED
    BY <1>p, <1>n, <2>1, <2>2, OpenKeeps DEF TypeOK, LockedWhere, OpenedFile,
       SocketKept, Holding
<1>4. CASE Lock(c)
  <2>1. CASE Goes(c, "opened", "holding") /\ TakeLock(c)
    <3>1. fd[c] # None /\ UNCHANGED <<daemon, server>>
      BY <1>4, <2>1 DEF OpenedFile, Goes, Lock
    <3> QED
      BY <1>p, <1>n, <2>1, <3>1, TakeKeeps DEF TypeOK, LockedWhere, OpenedFile,
         SocketKept, Goes, Holding
  <2>2. CASE Goes(c, "opened", "waiting") /\ CloseLock(c)
    <3>1. UNCHANGED <<daemon, server>>
      BY <1>4 DEF Lock
    <3> QED
      BY <1>p, <1>n, <2>2, <3>1, CloseKeeps DEF TypeOK, LockedWhere, OpenedFile,
         SocketKept, Goes, Holding
  <2> QED
    BY <1>4, <2>1, <2>2 DEF Lock
<1>5. CASE Recheck(c)
  BY <1>5, <1>n DEF Recheck, Goes, TypeOK, Exclusive, LockedWhere, OpenedFile,
     SameFile, SocketKept, fileVars, Holding
<1>6. CASE Sweep(c)
  <2>1. /\ client[c] = "sweeping" /\ client' = [client EXCEPT ![c] = "spawning"]
        /\ socketFile' = None /\ UNCHANGED <<daemon, server, lockFile, fd, locked>>
    BY <1>6 DEF Sweep, Goes
  <2>2. c \in locked
    BY <2>1 DEF LockedWhere
  <2>3. NoShutdown => \A d \in Daemons : daemon[d] \notin {"bound", "serving"}
    BY <1>p, <2>2, OneHolder DEF LockedWhere, Holding
  <2> QED
    BY <1>n, <2>1, <2>2, <2>3 DEF TypeOK, Exclusive, LockedWhere, OpenedFile,
       SameFile, SocketKept, Holding
<1>7. CASE Spawn(c)
  <2>1. /\ \E s \in {"waiting", "failed"} : Goes(c, "spawning", s)
        /\ CloseLock(c) /\ UNCHANGED server
        /\ \/ UNCHANGED daemon
           \/ \E d \in Daemons :
                daemon[d] = "none" /\ daemon' = [daemon EXCEPT ![d] = "spawned"]
    BY <1>7 DEF Spawn
  <2>2. /\ \A d \in Daemons : \/ daemon'[d] = daemon[d]
                              \/ daemon[d] = "none" /\ daemon'[d] = "spawned"
        /\ daemon' \in [Daemons -> {"none", "spawned", "opened", "refused", "locked",
                   "swept", "bound", "serving", "ending", "unlocked", "released",
                   "gone", "killed"}]
    <3>1. CASE UNCHANGED daemon
      BY <3>1 DEF TypeOK
    <3>2. CASE ~UNCHANGED daemon
      <4>1. PICK d \in Daemons :
              daemon[d] = "none" /\ daemon' = [daemon EXCEPT ![d] = "spawned"]
        BY <2>1, <3>2
      <4> QED
        BY <4>1 DEF TypeOK
    <3> QED
      BY <3>1, <3>2
  <2>3. NoShutdown' <=> NoShutdown
    BY <2>2 DEF NoShutdown, Ending
  <2> QED
    BY <1>p, <2>1, <2>2, <2>3, CloseKeeps DEF TypeOK, LockedWhere, OpenedFile,
       SocketKept, Goes, Holding
<1>8. CASE Quit(c)
  <2>1. /\ client' = [client EXCEPT ![c] = "quit"]
        /\ CloseLock(c) /\ UNCHANGED <<daemon, server>>
    BY <1>8 DEF Quit
  <2> QED
    BY <1>p, <1>n, <2>1, CloseKeeps DEF TypeOK, LockedWhere, OpenedFile,
       SocketKept, Holding
<1> QED
  BY <1>2, <1>3, <1>4, <1>5, <1>6, <1>7, <1>8 DEF ClientStep

\* Every step of a daemon keeps the invariant.
LEMMA DaemonKeeps ==
  ASSUME LockInv, NEW d \in Daemons,
         DaemonStart(d) \/ Shutdown(d) \/ DaemonEnd(d) \/ Kill(d)
  PROVE  LockInv'
<1> USE DEF LockInv, Procs
<1>p. d \in Procs /\ d \notin Clients
  BY ConstantsAssumption
<1>1. CASE OpenIt(d)
  <2>1. /\ daemon[d] = "spawned" /\ daemon' = [daemon EXCEPT ![d] = "opened"]
        /\ OpenLock(d) /\ UNCHANGED <<client, server>>
    BY <1>1 DEF OpenIt, Comes
  <2>2. d \notin locked
    BY <2>1 DEF LockedWhere, Holding
  <2>3. NoShutdown' => NoShutdown
    BY <2>1 DEF NoShutdown, Ending, TypeOK
  <2> QED
    BY <1>p, <2>1, <2>2, <2>3, OpenKeeps DEF TypeOK, LockedWhere, OpenedFile,
       SocketKept, Holding
<1>2. CASE LockIt(d)
  <2>1. CASE Comes(d, "opened", "locked") /\ TakeLock(d)
    <3>1. fd[d] # None /\ UNCHANGED <<client, server>>
      BY <1>2, <2>1 DEF OpenedFile, Comes, LockIt
    <3>2. NoShutdown' => NoShutdown
      BY <2>1 DEF NoShutdown, Ending, TypeOK, Comes
    <3> QED
      BY <1>p, <2>1, <3>1, <3>2, TakeKeeps DEF TypeOK, LockedWhere, OpenedFile,
         SocketKept, Comes, Holding
  <2>2. CASE Comes(d, "opened", "refused") /\ CloseLock(d)
    <3>1. UNCHANGED <<client, server>>
      BY <1>2 DEF LockIt
    <3>2. NoShutdown' => NoShutdown
      BY <2>2 DEF NoShutdown, Ending, TypeOK, Comes
    <3> QED
      BY <1>p, <2>2, <3>1, <3>2, CloseKeeps DEF TypeOK, LockedWhere, OpenedFile,
         SocketKept, Comes, Holding
  <2> QED
    BY <1>2, <2>1, <2>2 DEF LockIt
<1>3. CASE SweepIt(d) \/ Bind(d)
  <2>1. /\ UNCHANGED <<client, server, lockFile, fd, locked>>
        /\ \/ /\ daemon[d] = "locked" /\ daemon' = [daemon EXCEPT ![d] = "swept"]
              /\ socketFile' = None
           \/ /\ daemon[d] = "swept" /\ daemon' = [daemon EXCEPT ![d] = "bound"]
              /\ socketFile' = d
    BY <1>3 DEF SweepIt, Bind, Comes
  <2>2. d \in locked
    BY <2>1 DEF LockedWhere, Holding
  <2>3. NoShutdown' => NoShutdown
    BY <2>1 DEF NoShutdown, Ending, TypeOK
  <2>4. NoShutdown => \A e \in Daemons \ {d} : ~Holding(e)
    BY <2>2, OneHolder DEF LockedWhere
  <2>5. SocketKept'
    BY <2>1, <2>3, <2>4 DEF SocketKept, Holding, TypeOK
  <2> QED
    BY <2>1, <2>2, <2>3, <2>5 DEF TypeOK, Exclusive, LockedWhere, OpenedFile,
       SameFile, Holding
<1>4. CASE Listen(d)
  <2>1. /\ daemon[d] = "bound" /\ daemon' = [daemon EXCEPT ![d] = "serving"]
        /\ server' = [server EXCEPT ![d] = "listening"]
        /\ UNCHANGED <<client, lockFile, fd, locked, socketFile>>
    BY <1>4 DEF Listen, Comes, fileVars
  <2>2. NoShutdown' => NoShutdown
    BY <2>1 DEF NoShutdown, Ending, TypeOK
  <2> QED
    BY <2>1, <2>2 DEF TypeOK, Exclusive, LockedWhere, OpenedFile, SameFile,
       SocketKept, Holding
<1>5. CASE Shutdown(d)
  <2>1. /\ daemon[d] = "serving" /\ daemon' = [daemon EXCEPT ![d] = "ending"]
        /\ UNCHANGED <<client, server, lockFile, fd, locked, socketFile>>
    BY <1>5 DEF Shutdown, Comes, fileVars
  <2>2. ~NoShutdown'
    BY <2>1 DEF NoShutdown, Ending, TypeOK
  <2> QED
    BY <2>1, <2>2 DEF TypeOK, Exclusive, LockedWhere, OpenedFile, SameFile,
       SocketKept, Holding
<1>6. CASE Unlock(d)
  <2>1. /\ daemon[d] = "ending" /\ daemon' = [daemon EXCEPT ![d] = "unlocked"]
        /\ CloseLock(d) /\ UNCHANGED <<client, server>>
    BY <1>6 DEF Unlock, Comes
  <2>2. ~NoShutdown'
    BY <2>1 DEF NoShutdown, Ending, TypeOK
  <2> QED
    BY <1>p, <2>1, <2>2, CloseKeeps DEF TypeOK, LockedWhere, OpenedFile,
       SocketKept, Holding
<1>7. CASE UnlinkLock(d) \/ CloseServer(d) \/ RemoveSocket(d) \/ Exit(d)
  <2>1. /\ daemon[d] \in {"ending", "unlocked", "released"}
        /\ \/ UNCHANGED daemon
           \/ \E s \in {"released", "gone"} :
                daemon[d] # "ending" /\ daemon' = [daemon EXCEPT ![d] = s]
        /\ UNCHANGED <<client, fd, locked>>
        /\ lockFile' \in {lockFile, None} /\ socketFile' \in {socketFile, None}
        /\ \/ UNCHANGED server
           \/ \E s \in {"closed", "removed", "none"} :
                server' = [server EXCEPT ![d] = s]
    BY <1>7 DEF UnlinkLock, CloseServer, RemoveSocket, Exit, Comes, Ending, fileVars
  <2>2. ~NoShutdown'
    BY <2>1 DEF NoShutdown, Ending, TypeOK
  <2> QED
    BY <2>1, <2>2 DEF TypeOK, Exclusive, LockedWhere, OpenedFile, SameFile,
       SocketKept, Holding
<1>8. CASE Kill(d)
  <2>1. /\ daemon' = [daemon EXCEPT ![d] = IF Ending(d) THEN "gone" ELSE "killed"]
        /\ server' = [server EXCEPT ![d] = "none"]
        /\ CloseLock(d) /\ UNCHANGED client /\ daemon[d] # "gone"
    BY <1>8 DEF Kill
  <2>2. NoShutdown' => NoShutdown
    BY <2>1 DEF NoShutdown, Ending, TypeOK
  <2> QED
    BY <1>p, <2>1, <2>2, CloseKeeps DEF TypeOK, LockedWhere, OpenedFile,
       SocketKept, Holding
<1> QED
  BY <1>1, <1>2, <1>3, <1>4, <1>5, <1>6, <1>7, <1>8 DEF DaemonStart, DaemonEnd

\* The invariant of the lock holds in every behaviour.
THEOREM LockInvariance == Spec => []LockInv
<1>1. Init => LockInv
  BY ConstantsAssumption DEF Init, LockInv, TypeOK, Exclusive, LockedWhere,
     OpenedFile, SameFile, SocketKept, Holding, Procs
<1>2. LockInv /\ [Next]_vars => LockInv'
  <2>1. ASSUME LockInv, UNCHANGED vars PROVE LockInv'
    BY <2>1 DEF vars, LockInv, TypeOK, Exclusive, LockedWhere, OpenedFile,
       SameFile, SocketKept, Holding, NoShutdown, Ending
  <2> QED
    BY <2>1, ClientKeeps, DaemonKeeps DEF Next
<1> QED
  BY <1>1, <1>2, PTL DEF Spec

\* Every variable keeps to its set, and who has a lock has its file open.
THEOREM ElectionTypes == Spec => []TypeOK
  BY LockInvariance, PTL DEF LockInv

\* Until a daemon shuts down in order there are never two that have the lock,
\* whoever is killed or quits.
THEOREM OneMasterAtATime == Spec => []OneMaster
<1>1. LockInv => OneMaster
  BY OneHolder DEF OneMaster, LockInv, LockedWhere
<1> QED
  BY <1>1, LockInvariance, PTL

\* Until a daemon shuts down in order nobody removes the socket file of the one
\* that serves.
THEOREM MasterStaysReachable == Spec => []MasterReachable
<1>1. LockInv => MasterReachable
  BY DEF MasterReachable, LockInv, SocketKept
<1> QED
  BY <1>1, LockInvariance, PTL
-----------------------------------------------------------------------------
(* Clients do not leave each other without a daemon.                       *)

\* Nothing has ended that could be the cause of a client without a daemon.
Calm ==
  /\ NoShutdown
  /\ \A d \in Daemons : daemon[d] # "killed"
  /\ \A c \in Clients : client[c] \notin {"failed", "quit"}

\* A client waits for somebody: one that serves, or is on its way to.
WaitInv ==
  /\ \A d \in Daemons : daemon[d] = "serving" => server[d] = "listening"
  /\ Calm =>
       /\ \A c \in Clients : client[c] # "unavailable"
       /\ (\E c \in Clients : client[c] = "waiting") =>
            Starting \/ \E d \in Daemons : daemon[d] = "serving"

\* A cause stays one.
LEMMA CalmBefore ==
  ASSUME LockInv, Next, Calm'
  PROVE  Calm
<1> USE DEF LockInv, TypeOK, Calm, NoShutdown, Ending
<1>1. ASSUME NEW c \in Clients, ClientStep(c) \/ Quit(c)
      PROVE  Calm
  <2>1. \A d \in Daemons : daemon'[d] = daemon[d] \/ daemon[d] = "none"
    BY <1>1 DEF ClientStep, Find, Open, Lock, Recheck, Sweep, Spawn, Available, GiveUp,
       Connect, Quit
  <2>2. \A b \in Clients : client[b] \in {"failed", "quit"} => client'[b] = client[b]
    BY <1>1 DEF ClientStep, Find, Open, Lock, Recheck, Sweep, Spawn, Available, GiveUp,
       Connect, Quit, Goes
  <2>3. \A d \in Daemons : ~Ending(d) /\ daemon[d] \notin {"gone", "killed"}
    BY <2>1
  <2> QED BY <2>2, <2>3
<1>2. ASSUME NEW d \in Daemons, DaemonStart(d) \/ Shutdown(d) \/ DaemonEnd(d) \/ Kill(d)
      PROVE  Calm
  <2>1. client' = client /\ \A e \in Daemons : e # d => daemon'[e] = daemon[e]
    BY <1>2 DEF DaemonStart, OpenIt, LockIt, SweepIt, Bind, Listen, Shutdown, DaemonEnd,
       Unlock, UnlinkLock, CloseServer, RemoveSocket, Exit, Kill, Comes
  <2>2. ~Ending(d) /\ daemon[d] \notin {"gone", "killed"}
    BY <1>2 DEF DaemonStart, OpenIt, LockIt, SweepIt, Bind, Listen, Shutdown, DaemonEnd,
       Unlock, UnlinkLock, CloseServer, RemoveSocket, Exit, Kill, Comes
  <2> QED BY <2>1, <2>2
<1> QED BY <1>1, <1>2 DEF Next

\* A daemon that serves listens until it ends.
LEMMA ListeningKept ==
  ASSUME LockInv, WaitInv, Next
  PROVE  \A d \in Daemons : daemon'[d] = "serving" => server'[d] = "listening"
<1> USE DEF LockInv, TypeOK, WaitInv
<1>1. ASSUME NEW c \in Clients, ClientStep(c) \/ Quit(c)
      PROVE  \A d \in Daemons : daemon'[d] = "serving" => server'[d] = "listening"
  BY <1>1 DEF ClientStep, Find, Open, Lock, Recheck, Sweep, Spawn, Available, GiveUp,
     Connect, Quit
<1>2. ASSUME NEW d \in Daemons, DaemonStart(d) \/ Shutdown(d) \/ DaemonEnd(d) \/ Kill(d)
      PROVE  \A e \in Daemons : daemon'[e] = "serving" => server'[e] = "listening"
  <2>1. \A e \in Daemons : e # d => daemon'[e] = daemon[e] /\ server'[e] = server[e]
    BY <1>2 DEF DaemonStart, OpenIt, LockIt, SweepIt, Bind, Listen, Shutdown, DaemonEnd,
       Unlock, UnlinkLock, CloseServer, RemoveSocket, Exit, Kill, Comes
  <2>2. daemon'[d] = "serving" => server'[d] = "listening"
    BY <1>2 DEF DaemonStart, OpenIt, LockIt, SweepIt, Bind, Listen, Shutdown, DaemonEnd,
       Unlock, UnlinkLock, CloseServer, RemoveSocket, Exit, Kill, Comes, Ending
  <2> QED BY <2>1, <2>2
<1> QED BY <1>1, <1>2 DEF Next

\* Who is refused a lock is refused it because of another.
LEMMA RefusedByOther ==
  ASSUME NEW p \in Procs, p \notin locked, ~LockFree(fd[p]), CloseLock(p)
  PROVE  \E q \in locked' : q # p
BY DEF LockFree, CloseLock

\* Every step keeps WaitInv.
LEMMA WaitKept ==
  ASSUME LockInv, LockInv', WaitInv, Next
  PROVE  WaitInv'
<1> DEFINE Somebody == Starting \/ \E d \in Daemons : daemon[d] = "serving"
<1>1. SUFFICES ASSUME Calm'
               PROVE  /\ \A c \in Clients : client'[c] # "unavailable"
                      /\ (\E c \in Clients : client'[c] = "waiting") => Somebody'
  BY ListeningKept DEF WaitInv
<1>2. /\ Calm /\ \A c \in Clients : client[c] # "unavailable"
      /\ (\E c \in Clients : client[c] = "waiting") => Somebody
  BY <1>1, CalmBefore DEF WaitInv
\* Whoever has a lock serves or is on its way to.
<1>3. ASSUME NEW p \in locked' PROVE Somebody'
  <2>1. p \in Clients \/ p \in Daemons
    BY DEF LockInv, TypeOK, Procs
  <2> QED BY <1>1, <2>1 DEF LockInv, LockedWhere, Holding, Starting, Calm, NoShutdown, Ending
<1> USE DEF TypeOK, LockInv
<1>4. ASSUME NEW c \in Clients, ClientStep(c) \/ Quit(c)
      PROVE  /\ \A b \in Clients : client'[b] # "unavailable"
             /\ (\E b \in Clients : client'[b] = "waiting") => Somebody'
  <2>1. ASSUME UNCHANGED daemon, NEW s, client' = [client EXCEPT ![c] = s],
               s \notin {"unavailable", "waiting"},
               client[c] \notin {"opened", "holding", "sweeping", "spawning"}
                 \/ s \in {"opened", "holding", "sweeping", "spawning"}
        PROVE  /\ \A b \in Clients : client'[b] # "unavailable"
               /\ (\E b \in Clients : client'[b] = "waiting") => Somebody'
    BY <1>2, <2>1 DEF Starting
  <2>2. CASE Find(c) \/ Available(c) \/ Connect(c) \/ Open(c) \/ Recheck(c) \/ Sweep(c)
    BY <2>1, <2>2 DEF Find, Available, Connect, Open, Recheck, Sweep, Goes
  <2>3. CASE Lock(c)
    <3>1. CASE Goes(c, "opened", "holding") /\ TakeLock(c)
      BY <2>1, <2>3, <3>1 DEF Lock, Goes
    <3>2. CASE Goes(c, "opened", "waiting") /\ ~LockFree(fd[c]) /\ CloseLock(c)
      <4>1. c \in Procs /\ c \notin locked
        BY <3>2 DEF Goes, LockedWhere, Procs
      <4>2. Somebody'
        BY <1>3, <3>2, <4>1, RefusedByOther
      <4> QED BY <1>2, <3>2, <4>2 DEF Goes
    <3> QED BY <2>3, <3>1, <3>2 DEF Lock
  <2>4. CASE Spawn(c)
    <3>1. ~Goes(c, "spawning", "failed")
      BY <1>1 DEF Goes, Calm
    <3>2. PICK d \in Daemons : daemon' = [daemon EXCEPT ![d] = "spawned"]
      BY <2>4, <3>1 DEF Spawn
    <3>3. Starting'
      BY <3>2 DEF Starting
    <3>4. client' = [client EXCEPT ![c] = "waiting"]
      BY <2>4, <3>1 DEF Spawn, Goes
    <3> QED BY <1>2, <3>3, <3>4
  <2>5. CASE GiveUp(c)
    <3>1. client[c] = "waiting" /\ ~Reachable /\ ~Starting
      BY <2>5 DEF GiveUp, Goes
    <3>2. PICK d \in Daemons : daemon[d] = "serving"
      BY <1>2, <3>1
    <3>3. socketFile = d /\ server[d] = "listening"
      BY <1>2, <3>2 DEF SocketKept, Calm, WaitInv
    <3> QED BY <3>1, <3>3 DEF Reachable
  <2>6. CASE Quit(c)
    BY <1>1, <2>6 DEF Quit, Calm
  <2> QED BY <1>4, <2>2, <2>3, <2>4, <2>5, <2>6 DEF ClientStep
<1>5. ASSUME NEW d \in Daemons, DaemonStart(d) \/ Shutdown(d) \/ DaemonEnd(d) \/ Kill(d)
      PROVE  /\ \A b \in Clients : client'[b] # "unavailable"
             /\ (\E b \in Clients : client'[b] = "waiting") => Somebody'
  <2>0. client' = client
    BY <1>5 DEF DaemonStart, OpenIt, LockIt, SweepIt, Bind, Listen, Shutdown, DaemonEnd,
       Unlock, UnlinkLock, CloseServer, RemoveSocket, Exit, Kill
  <2>1. ASSUME NEW s \in {"opened", "locked", "swept", "bound", "serving"},
               daemon' = [daemon EXCEPT ![d] = s]
        PROVE  Somebody'
    BY <2>1 DEF Starting
  <2>2. CASE OpenIt(d) \/ SweepIt(d) \/ Bind(d) \/ Listen(d)
    BY <1>2, <2>0, <2>1, <2>2 DEF OpenIt, SweepIt, Bind, Listen, Comes
  <2>3. CASE LockIt(d)
    <3>1. CASE Comes(d, "opened", "locked") /\ TakeLock(d)
      BY <1>2, <2>0, <2>1, <3>1 DEF Comes
    <3>2. CASE Comes(d, "opened", "refused") /\ ~LockFree(fd[d]) /\ CloseLock(d)
      <4>1. d \in Procs /\ d \notin locked
        BY <3>2 DEF Comes, LockedWhere, Holding, Procs
      <4>2. Somebody'
        BY <1>3, <3>2, <4>1, RefusedByOther
      <4> QED BY <1>2, <2>0, <4>2
    <3> QED BY <2>3, <3>1, <3>2 DEF LockIt
  <2>4. CASE Shutdown(d) \/ DaemonEnd(d) \/ Kill(d)
    <3>1. Ending(d) \/ daemon'[d] \in {"ending", "killed", "gone"}
      BY <2>4 DEF Shutdown, DaemonEnd, Kill, Unlock, UnlinkLock, CloseServer,
         RemoveSocket, Exit, Comes, Ending
    <3> QED BY <1>1, <1>2, <3>1 DEF Calm, NoShutdown, Ending
  <2> QED BY <1>5, <2>2, <2>3, <2>4 DEF DaemonStart
<1> QED BY <1>4, <1>5 DEF Next

\* A client is left without a daemon only if something ended that should not
\* have: taking the lock from each other's daemons is no cause.
THEOREM NoneWaitsInVain == Spec => []UnavailableHasCause
<1>1. Init => WaitInv
  BY DEF Init, WaitInv
<1>2. LockInv /\ LockInv' /\ WaitInv /\ [Next]_vars => WaitInv'
  <2>1. ASSUME WaitInv, UNCHANGED vars PROVE WaitInv'
    BY <2>1 DEF vars, WaitInv, Calm, NoShutdown, Ending, Starting
  <2> QED BY <2>1, WaitKept
<1>3. WaitInv => UnavailableHasCause
  BY DEF WaitInv, Calm, UnavailableHasCause
<1> QED BY <1>1, <1>2, <1>3, LockInvariance, PTL DEF Spec
=============================================================================
