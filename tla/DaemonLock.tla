----------------------------- MODULE DaemonLock -----------------------------
(***************************************************************************)
(* The daemon's lock: several processes start at any time, race for        *)
(* daemon.lock, recover it from an owner that died, publish their          *)
(* discovery files (endpoint, token), and clean up when they stop.  Each   *)
(* process lives once; any process may die between any two steps.          *)
(*                                                                         *)
(* Every file operation is a step.  daemon.lock is created by link, which  *)
(* fails if it exists.  To replace a stale lock a process first takes a    *)
(* recovery guard, a file named by a hash of the lock it saw; if a dead    *)
(* process holds that guard, the next guard is named by the hash of the    *)
(* guard and its holder.  A guard is named here by what is hashed: the     *)
(* lock and the chain of dead holders.                                     *)
(*                                                                         *)
(* A record names its process by pid and start identity, so whether a      *)
(* process lives is known exactly.  Records of older versions without that *)
(* identity are left out, as are the socket file (it is handled like the   *)
(* token) and a host process that starts two daemons.                      *)
(***************************************************************************)
EXTENDS Naturals, Sequences, FiniteSets

CONSTANTS
  Procs,         \* processes that run `serve`, each once
  Ghost,         \* a daemon that died before they start
  Malformed,     \* the owner read from a lock file that does not parse
  None,
  InitialLocks,  \* what daemon.lock may hold at the beginning
  MaxAttempts    \* guards one recovery tries: 10 in acquireRecovery

Lock(p, published) == [owner |-> p, published |-> published]
Locks == [owner : Procs \cup {Ghost, Malformed}, published : BOOLEAN]

ASSUME DaemonLockAssumption ==
  /\ Ghost \notin Procs /\ Malformed \notin Procs \cup {Ghost}
  /\ None \notin Procs \cup Locks
  /\ InitialLocks \subseteq Locks \cup {None}
  /\ \A l \in InitialLocks \ {None} : l.owner \notin Procs
  /\ MaxAttempts \in Nat \ {0}

VARIABLES
  lock,      \* daemon.lock: None or a lock record
  guards,    \* recovery-* files: records of their path and holder
  endpoint,  \* endpoint file: None or the process it leads to
  token,     \* token file
  pc,        \* the step a process is at
  path,      \* the guard it is trying to take or has taken
  holder,    \* the holder it read from a guard file
  closing,   \* it is in close: it takes the guard to protect its cleanup
  owns       \* ownsDiscovery: its cleanup may remove the discovery files

files == <<lock, guards, endpoint, token>>
locals == <<path, holder, closing, owns>>
vars == <<files, pc, locals>>

Init ==
  /\ lock \in InitialLocks
  /\ guards = {}
  /\ endpoint = None /\ token = None
  /\ pc = [p \in Procs |-> "idle"]
  /\ path = [p \in Procs |-> <<>>]
  /\ holder = [p \in Procs |-> None]
  /\ closing = [p \in Procs |-> FALSE]
  /\ owns = [p \in Procs |-> FALSE]

\* processAlive and readProcessIdentity
Alive(p) == p \in Procs /\ pc[p] \notin {"exited", "dead"}

Mine(p) == lock # None /\ lock.owner = p
Guard(g, p) == [path |-> g, holder |-> p]
Taken(g) == {x \in guards : x.path = g}

At(p, step) == pc[p] = step
Goto(p, step) == pc' = [pc EXCEPT ![p] = step]

-----------------------------------------------------------------------------
(* acquireLock *)

Start(p) ==
  /\ At(p, "idle")
  /\ Goto(p, "link")
  /\ UNCHANGED <<files, locals>>

\* link(candidate, daemon.lock)
Link(p) ==
  /\ At(p, "link")
  /\ IF lock = None
     THEN lock' = Lock(p, FALSE) /\ Goto(p, "clearEndpoint")
     ELSE UNCHANGED lock /\ Goto(p, "snapshot")
  /\ UNCHANGED <<guards, endpoint, token, locals>>

\* The lock just seen may be gone: then the startup fails.
Snapshot(p) ==
  /\ At(p, "snapshot")
  /\ IF lock = None
     THEN Goto(p, "leave") /\ UNCHANGED path
     ELSE Goto(p, "guard") /\ path' = [path EXCEPT ![p] = <<lock>>]
  /\ UNCHANGED <<files, holder, closing, owns>>

\* Faulty variant: a lock that was published is taken for a live one.
VerifyByEndpoint(p) ==
  /\ At(p, "verify")
  /\ Goto(p, IF path[p][1].published THEN "abandon" ELSE "reread")
  /\ UNCHANGED <<files, locals>>

\* The liveness of the owner named in the snapshot; a lock that does not
\* parse is respected for ten seconds.
Verify(p) ==
  /\ At(p, "verify")
  /\ LET owner == path[p][1].owner IN
     \/ (Alive(owner) \/ owner = Malformed) /\ Goto(p, "abandon")
     \/ ~Alive(owner) /\ Goto(p, "reread")
  /\ UNCHANGED <<files, locals>>

\* Faulty variant: the lock is not read again under the guard.
RereadNothing(p) ==
  /\ At(p, "reread")
  /\ Goto(p, "unlink")
  /\ UNCHANGED <<files, locals>>

Reread(p) ==
  /\ At(p, "reread")
  /\ Goto(p, IF lock = path[p][1] THEN "unlink" ELSE "abandon")
  /\ UNCHANGED <<files, locals>>

Unlink(p) ==
  /\ At(p, "unlink")
  /\ lock' = None
  /\ Goto(p, IF lock = None THEN "abandon" ELSE "relink")
  /\ UNCHANGED <<guards, endpoint, token, locals>>

Relink(p) ==
  /\ At(p, "relink")
  /\ IF lock = None
     THEN lock' = Lock(p, FALSE) /\ Goto(p, "enter")
     ELSE UNCHANGED lock /\ Goto(p, "abandon")
  /\ UNCHANGED <<guards, endpoint, token, locals>>

\* Faulty variant: a process that lost does not give its guard back.
UnguardWinner(p) ==
  /\ pc[p] \in {"enter", "abandon"}
  /\ guards' = IF At(p, "enter") THEN guards \ {Guard(path[p], p)} ELSE guards
  /\ path' = [path EXCEPT ![p] = <<>>]
  /\ Goto(p, IF At(p, "enter") THEN "clearEndpoint" ELSE "leave")
  /\ UNCHANGED <<lock, endpoint, token, holder, closing, owns>>

\* finally: the guard is given back, whether the lock was won or not.
Unguard(p) ==
  /\ pc[p] \in {"enter", "abandon"}
  /\ guards' = guards \ {Guard(path[p], p)}
  /\ path' = [path EXCEPT ![p] = <<>>]
  /\ Goto(p, IF At(p, "enter") THEN "clearEndpoint" ELSE "leave")
  /\ UNCHANGED <<lock, endpoint, token, holder, closing, owns>>

-----------------------------------------------------------------------------
(* acquireRecovery, for a recovery and for the cleanup *)

TakeGuard(p) ==
  /\ At(p, "guard")
  /\ IF Taken(path[p]) = {}
     THEN /\ guards' = guards \cup {Guard(path[p], p)}
          /\ Goto(p, IF closing[p] THEN "protectCheck" ELSE "verify")
     ELSE UNCHANGED guards /\ Goto(p, "holder")
  /\ UNCHANGED <<lock, endpoint, token, locals>>

\* A recovery that meets another one gives up; a cleanup tries again until
\* its deadline, and then goes on without the guard.
Recovering(p) ==
  /\ path' = [path EXCEPT ![p] = <<>>]
  /\ holder' = [holder EXCEPT ![p] = None]
  /\ IF closing[p]
     THEN Goto(p, "protect") \/ Goto(p, "release")
     ELSE Goto(p, "leave")
  /\ UNCHANGED <<files, closing, owns>>

ReadHolder(p) ==
  /\ At(p, "holder")
  /\ \/ /\ Taken(path[p]) = {}
        /\ Recovering(p)
     \/ \E g \in Taken(path[p]) :
        /\ holder' = [holder EXCEPT ![p] = g.holder]
        /\ Goto(p, "judge")
        /\ UNCHANGED <<files, path, closing, owns>>

\* Faulty variant: the same guard is tried again after a dead holder.
JudgeHolderAgain(p) ==
  /\ At(p, "judge")
  /\ \/ /\ Alive(holder[p])
        /\ Recovering(p)
     \/ /\ ~Alive(holder[p])
        /\ holder' = [holder EXCEPT ![p] = None]
        /\ Goto(p, "guard")
        /\ UNCHANGED <<files, path, closing, owns>>

\* Only a dead holder has a successor, and only so many of them.
JudgeHolder(p) ==
  /\ At(p, "judge")
  /\ \/ /\ Alive(holder[p]) \/ Len(path[p]) = MaxAttempts
        /\ Recovering(p)
     \/ /\ ~Alive(holder[p]) /\ Len(path[p]) < MaxAttempts
        /\ path' = [path EXCEPT ![p] = Append(path[p], holder[p])]
        /\ holder' = [holder EXCEPT ![p] = None]
        /\ Goto(p, "guard")
        /\ UNCHANGED <<files, closing, owns>>

-----------------------------------------------------------------------------
(* startDaemon and publish *)

ClearEndpoint(p) ==
  /\ At(p, "clearEndpoint")
  /\ endpoint' = None
  /\ Goto(p, "clearToken")
  /\ UNCHANGED <<lock, guards, token, locals>>

ClearToken(p) ==
  /\ At(p, "clearToken")
  /\ token' = None
  /\ Goto(p, "writeToken")
  /\ UNCHANGED <<lock, guards, endpoint, locals>>

\* The file is created exclusively: another daemon's token stops the startup.
WriteToken(p) ==
  /\ At(p, "writeToken")
  /\ IF token = None
     THEN token' = p /\ Goto(p, "writeEndpoint") /\ UNCHANGED locals
     ELSE /\ Goto(p, "protect")
          /\ closing' = [closing EXCEPT ![p] = TRUE]
          /\ UNCHANGED <<token, path, holder, owns>>
  /\ UNCHANGED <<lock, guards, endpoint>>

WriteEndpoint(p) ==
  /\ At(p, "writeEndpoint")
  /\ endpoint' = p
  /\ Goto(p, "publishCheck")
  /\ UNCHANGED <<lock, guards, token, locals>>

PublishCheck(p) ==
  /\ At(p, "publishCheck")
  /\ IF Mine(p)
     THEN Goto(p, "publish") /\ UNCHANGED closing
     ELSE Goto(p, "protect") /\ closing' = [closing EXCEPT ![p] = TRUE]
  /\ UNCHANGED <<files, path, holder, owns>>

\* The rename replaces whatever is there.
Publish(p) ==
  /\ At(p, "publish")
  /\ lock' = Lock(p, TRUE)
  /\ Goto(p, "running")
  /\ UNCHANGED <<guards, endpoint, token, locals>>

Startup == {"clearEndpoint", "clearToken", "writeToken", "writeEndpoint",
            "publishCheck", "publish"}

-----------------------------------------------------------------------------
(* close, protectCleanup, cleanup and release *)

\* A signal, a stop request, a listener error, or a failure of the startup.
Close(p) ==
  /\ pc[p] \in Startup \cup {"running"}
  /\ closing' = [closing EXCEPT ![p] = TRUE]
  /\ Goto(p, "protect")
  /\ UNCHANGED <<files, path, holder, owns>>

\* An instance that has lost its lock does not touch the discovery files.
Protect(p) ==
  /\ At(p, "protect")
  /\ Goto(p, IF Mine(p) THEN "protectSnapshot" ELSE "release")
  /\ UNCHANGED <<files, locals>>

ProtectSnapshot(p) ==
  /\ At(p, "protectSnapshot")
  /\ IF lock = None
     THEN Goto(p, "release") /\ UNCHANGED path
     ELSE Goto(p, "guard") /\ path' = [path EXCEPT ![p] = <<lock>>]
  /\ UNCHANGED <<files, holder, closing, owns>>

\* Faulty variant: the lock is given back before the discovery files go.
ProtectCheckRelease(p) ==
  /\ At(p, "protectCheck")
  /\ owns' = [owns EXCEPT ![p] = TRUE]
  /\ lock' = None
  /\ Goto(p, "removeEndpoint")
  /\ UNCHANGED <<guards, endpoint, token, path, holder, closing>>

ProtectCheck(p) ==
  /\ At(p, "protectCheck")
  /\ IF Mine(p)
     THEN /\ owns' = [owns EXCEPT ![p] = TRUE]
          /\ Goto(p, "removeEndpoint")
          /\ UNCHANGED <<guards, path>>
     ELSE /\ guards' = guards \ {Guard(path[p], p)}
          /\ path' = [path EXCEPT ![p] = <<>>]
          /\ Goto(p, "release")
          /\ UNCHANGED owns
  /\ UNCHANGED <<lock, endpoint, token, holder, closing>>

\* The listener is closed and the requests are drained before this.
RemoveEndpoint(p) ==
  /\ At(p, "removeEndpoint")
  /\ endpoint' = None
  /\ Goto(p, "removeToken")
  /\ UNCHANGED <<lock, guards, token, locals>>

RemoveToken(p) ==
  /\ At(p, "removeToken")
  /\ token' = None
  /\ Goto(p, "release")
  /\ UNCHANGED <<lock, guards, endpoint, locals>>

Release(p) ==
  /\ At(p, "release")
  /\ Goto(p, IF Mine(p) THEN "releaseUnlink" ELSE "releaseGuard")
  /\ UNCHANGED <<files, locals>>

ReleaseUnlink(p) ==
  /\ At(p, "releaseUnlink")
  /\ lock' = None
  /\ Goto(p, "releaseGuard")
  /\ UNCHANGED <<guards, endpoint, token, locals>>

ReleaseGuard(p) ==
  /\ At(p, "releaseGuard")
  /\ guards' = IF owns[p] THEN guards \ {Guard(path[p], p)} ELSE guards
  /\ Goto(p, "leave")
  /\ path' = [path EXCEPT ![p] = <<>>]
  /\ owns' = [owns EXCEPT ![p] = FALSE]
  /\ UNCHANGED <<lock, endpoint, token, holder, closing>>

-----------------------------------------------------------------------------
\* The process ends; until then it counts as alive.
End(p, how) ==
  /\ Goto(p, how)
  /\ path' = [path EXCEPT ![p] = <<>>]
  /\ holder' = [holder EXCEPT ![p] = None]
  /\ closing' = [closing EXCEPT ![p] = FALSE]
  /\ owns' = [owns EXCEPT ![p] = FALSE]
  /\ UNCHANGED files

Exit(p) == At(p, "leave") /\ End(p, "exited")
Crash(p) == Alive(p) /\ ~At(p, "idle") /\ End(p, "dead")

\* What a process does of its own accord once it has started.
Step(p) ==
  \/ Link(p) \/ Snapshot(p)
  \/ TakeGuard(p) \/ ReadHolder(p) \/ JudgeHolder(p)
  \/ Verify(p) \/ Reread(p) \/ Unlink(p) \/ Relink(p) \/ Unguard(p)
  \/ ClearEndpoint(p) \/ ClearToken(p) \/ WriteToken(p) \/ WriteEndpoint(p)
  \/ PublishCheck(p) \/ Publish(p)
  \/ Protect(p) \/ ProtectSnapshot(p) \/ ProtectCheck(p)
  \/ RemoveEndpoint(p) \/ RemoveToken(p)
  \/ Release(p) \/ ReleaseUnlink(p) \/ ReleaseGuard(p)
  \/ Exit(p)

Next == \E p \in Procs : Start(p) \/ Step(p) \/ Close(p) \/ Crash(p)

Spec == Init /\ [][Next]_vars

\* A cleanup that meets another holder at its deadline.
GiveUp(p) == closing[p] /\ (ReadHolder(p) \/ JudgeHolder(p)) /\ pc'[p] = "release"

\* The operating system runs every process, and time passes: a cleanup that
\* meets other holders again and again does so at its deadline in the end.
FairSpec == Spec /\ \A p \in Procs : WF_vars(Step(p)) /\ SF_vars(GiveUp(p))
-----------------------------------------------------------------------------
(* Properties *)

\* From winning the lock to giving it back.
Holding(p) ==
  \/ pc[p] \in Startup \cup {"enter", "running"}
  \/ closing[p] /\ pc[p] \notin {"releaseGuard", "leave"}

TypeOK ==
  /\ lock \in Locks \cup {None}
  /\ guards \subseteq [path : Seq(Locks \cup Procs), holder : Procs]
  /\ endpoint \in Procs \cup {None} /\ token \in Procs \cup {None}
  /\ pc \in [Procs -> Startup \cup
       {"idle", "link", "snapshot", "guard", "holder", "judge", "verify", "reread",
        "unlink", "relink", "enter", "abandon", "running", "protect",
        "protectSnapshot", "protectCheck", "removeEndpoint", "removeToken",
        "release", "releaseUnlink", "releaseGuard", "leave", "exited", "dead"}]
  /\ path \in [Procs -> Seq(Locks \cup Procs)]
  /\ holder \in [Procs -> Procs \cup {None}]
  /\ closing \in [Procs -> BOOLEAN]
  /\ owns \in [Procs -> BOOLEAN]

\* At most one live process at a time believes that it is the daemon, from
\* the link that wins daemon.lock to the unlink that gives it back.
OneDaemon == \A p, q \in Procs : Holding(p) /\ Holding(q) => p = q

\* Nobody takes the lock from a live daemon: while a process holds it,
\* daemon.lock names that process (and with it OneDaemon holds).
LockKept == \A p \in Procs : Holding(p) => Mine(p)

\* Clients find the running daemon: no other process's startup or cleanup
\* removes or replaces its lock, endpoint or token.
DiscoveryIntact ==
  \A p \in Procs :
    At(p, "running") => lock = Lock(p, TRUE) /\ endpoint = p /\ token = p

\* Only a process that died leaves its guard behind: one that ended by itself
\* has given it back, whether it won, lost or stopped.
NoGuardLeaked == \A g \in guards : pc[g.holder] # "exited"

\* Between taking a guard and giving it back.
Guarding ==
  {"verify", "reread", "unlink", "relink", "enter", "abandon", "protectCheck"}
Releasing == {"removeEndpoint", "removeToken", "release", "releaseUnlink", "releaseGuard"}

\* Why: the holder of a guard is dead, or at a step that still leads to its
\* return and remembers where it is.
GuardHeld(g) ==
  LET p == g.holder IN
  \/ At(p, "dead")
  \/ /\ path[p] = g.path
     /\ pc[p] \in Guarding \/ (pc[p] \in Releasing /\ owns[p])

IInv ==
  /\ TypeOK
  /\ \A p \in Procs : At(p, "judge") => holder[p] \in Procs
  /\ \A g \in guards : GuardHeld(g)

\* Every startup and every shutdown comes to an end, also when recoveries and
\* cleanups keep each other from their guards.
Settles ==
  \A p \in Procs :
    pc[p] \notin {"idle", "running"} ~> pc[p] \in {"running", "exited", "dead"}

\* A start, also over the lock of a daemon that died, leads to a running
\* daemon, its own or another's, unless one is being closed or crashes.
StartServes ==
  (\E p \in Procs : At(p, "link")) ~>
    (\E p \in Procs : pc[p] \in {"running", "dead"} \/ closing[p])
=============================================================================
