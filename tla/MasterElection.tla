---------------------------- MODULE MasterElection ----------------------------
(***************************************************************************)
(* How several Neovim instances come to one daemon: bootstrap.lua in each  *)
(* of them, DaemonLock and the server's socket in each daemon they spawn,  *)
(* and the two files they meet at.                                         *)
(*                                                                         *)
(* A step is a system call with what follows it up to the next one.  A     *)
(* client is one bootstrap, so it opens the lock file at most once, as a   *)
(* daemon does; a lock file is named by the process that created it.  The  *)
(* lock is of a file, not of its path.                                     *)
(***************************************************************************)
EXTENDS Naturals, FiniteSets

CONSTANTS Clients,  \* Neovim instances
          Daemons,  \* processes they may spawn; bounds how many there are
          Old,      \* a file that an earlier daemon has left
          None,     \* no file
          Endings   \* what may end: "exit"  a daemon that has started, in order
                    \*               "kill"  a daemon
                    \*               "quit"  a client in its bootstrap

Procs == Clients \cup Daemons

ASSUME ConstantsAssumption ==
  /\ Clients \cap Daemons = {}
  /\ Old \notin Procs /\ None \notin Procs /\ Old # None
  /\ Endings \subseteq {"exit", "kill", "quit"}

VARIABLES
  client,     \* where each bootstrap is, see TypeOK
  daemon,     \* where each daemon is
  server,     \* each daemon's server: "none", "listening", "closed", "removed"
              \*   (it has removed the socket file)
  lockFile,   \* the file at the lock's path
  fd,         \* the lock file each process has open
  locked,     \* the processes that have locked the file they have open
  socketFile  \* the file at the socket's path: the daemon that has bound it

vars == <<client, daemon, server, lockFile, fd, locked, socketFile>>
fileVars == <<lockFile, fd, locked, socketFile>>

Init ==
  /\ client = [c \in Clients |-> "start"]
  /\ daemon = [d \in Daemons |-> "none"]
  /\ server = [d \in Daemons |-> "none"]
  /\ lockFile \in {None, Old}
  /\ fd = [p \in Procs |-> None]
  /\ locked = {}
  /\ socketFile \in {None, Old}

\* connect() to the socket's path succeeds.
Reachable == socketFile \in Daemons /\ server[socketFile] = "listening"

\* flock() of the file f succeeds.
LockFree(f) == \A p \in locked : fd[p] # f
-----------------------------------------------------------------------------
(* The lock file.                                                          *)

\* open() with O_CREAT
OpenLock(p) ==
  /\ lockFile' = IF lockFile = None THEN p ELSE lockFile
  /\ fd' = [fd EXCEPT ![p] = lockFile']
  /\ UNCHANGED <<locked, socketFile>>

\* Mutant: flock() is not asked for an exclusive lock.
TakeAnyway(p) ==
  /\ locked' = locked \cup {p}
  /\ UNCHANGED <<lockFile, fd, socketFile>>

TakeLock(p) ==
  /\ LockFree(fd[p])
  /\ locked' = locked \cup {p}
  /\ UNCHANGED <<lockFile, fd, socketFile>>

\* Mutant: the file is closed without the lock being given up.
CloseKeepsLock(p) ==
  /\ fd' = [fd EXCEPT ![p] = None]
  /\ UNCHANGED <<lockFile, locked, socketFile>>

\* close(), which gives up a lock
CloseLock(p) ==
  /\ fd' = [fd EXCEPT ![p] = None]
  /\ locked' = locked \ {p}
  /\ UNCHANGED <<lockFile, socketFile>>
-----------------------------------------------------------------------------
(* A client's bootstrap.                                                   *)

Goes(c, from, to) == client[c] = from /\ client' = [client EXCEPT ![c] = to]

\* check_socket at the start
Find(c) ==
  /\ Goes(c, "start", IF Reachable THEN "connecting" ELSE "seeking")
  /\ UNCHANGED <<daemon, server, fileVars>>

\* acquire_lock
Open(c) ==
  /\ Goes(c, "seeking", "opened")
  /\ OpenLock(c)
  /\ UNCHANGED <<daemon, server>>

Lock(c) ==
  /\ \/ Goes(c, "opened", "holding") /\ TakeLock(c)
     \/ Goes(c, "opened", "waiting") /\ ~LockFree(fd[c]) /\ CloseLock(c)
  /\ UNCHANGED <<daemon, server>>

\* Mutant: the lock is given up before the stale socket is removed.
RecheckUnlocked(c) ==
  /\ Goes(c, "holding", IF Reachable THEN "spawning" ELSE "sweeping")
  /\ CloseLock(c)
  /\ UNCHANGED <<daemon, server>>

\* check_socket with the lock
Recheck(c) ==
  /\ Goes(c, "holding", IF Reachable THEN "spawning" ELSE "sweeping")
  /\ UNCHANGED <<daemon, server, fileVars>>

\* cleanup_stale_socket
Sweep(c) ==
  /\ Goes(c, "sweeping", "spawning")
  /\ socketFile' = None
  /\ UNCHANGED <<daemon, server, lockFile, fd, locked>>

\* Mutant: the lock is kept for the daemon that is spawned.
SpawnLocked(c) ==
  /\ \/ /\ Goes(c, "spawning", "waiting")
        /\ \E d \in Daemons :
             daemon[d] = "none" /\ daemon' = [daemon EXCEPT ![d] = "spawned"]
     \/ Goes(c, "spawning", "failed") /\ UNCHANGED daemon
  /\ UNCHANGED <<server, fileVars>>

\* spawn_daemon, or jobstart fails; and release_lock, which comes in the same call
\* and so long before the interpreter of the new process has started.
Spawn(c) ==
  /\ \/ /\ Goes(c, "spawning", "waiting")
        /\ \E d \in Daemons :
             daemon[d] = "none" /\ daemon' = [daemon EXCEPT ![d] = "spawned"]
     \/ Goes(c, "spawning", "failed") /\ UNCHANGED daemon
  /\ CloseLock(c)
  /\ UNCHANGED server

\* wait_for_socket finds the daemon ...
Available(c) ==
  /\ Reachable
  /\ Goes(c, "waiting", "connecting")
  /\ UNCHANGED <<daemon, server, fileVars>>

\* Some process is on its way to serve.
Starting ==
  \/ \E d \in Daemons : daemon[d] \in {"spawned", "opened", "locked", "swept", "bound"}
  \/ \E c \in Clients : client[c] \in {"opened", "holding", "sweeping", "spawning"}

\* ... or has tried often enough: 20 or 30 times.  That this is longer than a
\* daemon takes to start is an assumption.
GiveUp(c) ==
  /\ ~Reachable /\ ~Starting
  /\ Goes(c, "waiting", "unavailable")
  /\ UNCHANGED <<daemon, server, fileVars>>

\* _connect_and_initialize
Connect(c) ==
  /\ Goes(c, "connecting", IF Reachable THEN "connected" ELSE "failed")
  /\ UNCHANGED <<daemon, server, fileVars>>

\* Neovim is left.
Quit(c) ==
  /\ "quit" \in Endings
  /\ client[c] \notin {"connected", "unavailable", "failed", "quit"}
  /\ client' = [client EXCEPT ![c] = "quit"]
  /\ CloseLock(c)
  /\ UNCHANGED <<daemon, server>>
-----------------------------------------------------------------------------
(* A daemon.                                                               *)

Comes(d, from, to) == daemon[d] = from /\ daemon' = [daemon EXCEPT ![d] = to]

\* DaemonLock.acquire
OpenIt(d) ==
  /\ Comes(d, "spawned", "opened")
  /\ OpenLock(d)
  /\ UNCHANGED <<client, server>>

LockIt(d) ==
  /\ \/ Comes(d, "opened", "locked") /\ TakeLock(d)
     \/ Comes(d, "opened", "refused") /\ ~LockFree(fd[d]) /\ CloseLock(d)
  /\ UNCHANGED <<client, server>>

\* server.start: "any existing socket is stale"
SweepIt(d) ==
  /\ Comes(d, "locked", "swept")
  /\ socketFile' = None
  /\ UNCHANGED <<client, server, lockFile, fd, locked>>

\* start_unix_server, which removes a socket file itself
Bind(d) ==
  /\ Comes(d, "swept", "bound")
  /\ socketFile' = d
  /\ UNCHANGED <<client, server, lockFile, fd, locked>>

Listen(d) ==
  /\ Comes(d, "bound", "serving")
  /\ server' = [server EXCEPT ![d] = "listening"]
  /\ UNCHANGED <<client, fileVars>>

Ending(d) == daemon[d] \in {"ending", "unlocked", "released"}

\* The shutdown event is set.
Shutdown(d) ==
  /\ "exit" \in Endings
  /\ Comes(d, "serving", "ending")
  /\ UNCHANGED <<client, server, fileVars>>

\* DaemonLock.release: it unlocks and closes, ...
Unlock(d) ==
  /\ Comes(d, "ending", "unlocked")
  /\ CloseLock(d)
  /\ UNCHANGED <<client, server>>

\* ... and removes the file at the path.
UnlinkLock(d) ==
  /\ Comes(d, "unlocked", "released")
  /\ lockFile' = None
  /\ UNCHANGED <<client, server, fd, locked, socketFile>>

\* IpcServer.stop, before or after the lock is released, if it comes to it
CloseServer(d) ==
  /\ Ending(d)
  /\ server[d] = "listening"
  /\ server' = [server EXCEPT ![d] = "closed"]
  /\ UNCHANGED <<client, daemon, fileVars>>

RemoveSocket(d) ==
  /\ Ending(d)
  /\ server[d] = "closed"
  /\ server' = [server EXCEPT ![d] = "removed"]
  /\ socketFile' = None
  /\ UNCHANGED <<client, daemon, lockFile, fd, locked>>

Exit(d) ==
  /\ Comes(d, "released", "gone")
  /\ server' = [server EXCEPT ![d] = "none"]
  /\ UNCHANGED <<client, fileVars>>

\* One that had begun to shut down has "gone" early.
Kill(d) ==
  /\ "kill" \in Endings
  /\ daemon[d] \notin {"none", "refused", "gone", "killed"}
  /\ daemon' = [daemon EXCEPT ![d] = IF Ending(d) THEN "gone" ELSE "killed"]
  /\ server' = [server EXCEPT ![d] = "none"]
  /\ CloseLock(d)
  /\ UNCHANGED client
-----------------------------------------------------------------------------
ClientStep(c) ==
  \/ Find(c) \/ Open(c) \/ Lock(c) \/ Recheck(c) \/ Sweep(c) \/ Spawn(c)
  \/ Available(c) \/ GiveUp(c) \/ Connect(c)

DaemonStart(d) == OpenIt(d) \/ LockIt(d) \/ SweepIt(d) \/ Bind(d) \/ Listen(d)

DaemonEnd(d) ==
  Unlock(d) \/ UnlinkLock(d) \/ CloseServer(d) \/ RemoveSocket(d) \/ Exit(d)

Next ==
  \/ \E c \in Clients : ClientStep(c) \/ Quit(c)
  \/ \E d \in Daemons : DaemonStart(d) \/ Shutdown(d) \/ DaemonEnd(d) \/ Kill(d)

Spec == Init /\ [][Next]_vars
-----------------------------------------------------------------------------
(* Properties.                                                             *)

\* Every variable keeps to its set, and who has a lock has its file open.
TypeOK ==
  /\ client \in [Clients -> {"start", "seeking", "opened", "holding", "sweeping",
                   "spawning", "waiting", "connecting", "connected",
                   "unavailable", "failed", "quit"}]
  /\ daemon \in [Daemons -> {"none", "spawned", "opened", "refused", "locked",
                   "swept", "bound", "serving", "ending", "unlocked", "released",
                   "gone", "killed"}]
  /\ server \in [Daemons -> {"none", "listening", "closed", "removed"}]
  /\ lockFile \in Procs \cup {Old, None}
  /\ fd \in [Procs -> Procs \cup {Old, None}]
  /\ locked \subseteq {p \in Procs : fd[p] # None}
  /\ socketFile \in Daemons \cup {Old, None}

\* No daemon has begun to shut down in order (killed ones do not matter).
NoShutdown == \A d \in Daemons : ~Ending(d) /\ daemon[d] # "gone"

Holding(d) == daemon[d] \in {"locked", "swept", "bound", "serving"}

\* The daemons are one: until one shuts down in order there are never two that
\* have the lock, whoever is killed or quits.
OneMaster ==
  NoShutdown => \A d, e \in Daemons : Holding(d) /\ Holding(e) => d = e

\* The daemon that serves can be reached: nobody, client or daemon, removes its
\* socket file as stale, until one shuts down in order.
MasterReachable ==
  NoShutdown => \A d \in Daemons : daemon[d] = "serving" => socketFile = d

\* A client is told that there is no daemon only if one was killed or shut down,
\* could not be spawned, or a client quit: that clients take the lock from each
\* other's daemons never leaves all of them without one.
UnavailableHasCause ==
  (\E c \in Clients : client[c] = "unavailable") =>
    \/ ~NoShutdown
    \/ \E d \in Daemons : daemon[d] = "killed"
    \/ \E c \in Clients : client[c] \in {"failed", "quit"}

\* There is one daemon, also when one shuts down and another starts.
SingleInstance == \A d, e \in Daemons : Holding(d) /\ Holding(e) => d = e
=============================================================================
