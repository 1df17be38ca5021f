---------------------------- MODULE DaemonProofs ----------------------------
(***************************************************************************)
(* The two state machines of the daemon.                                   *)
(*                                                                         *)
(* The recovery guards of DaemonLock, for any number of processes and any  *)
(* bound on interrupted recoveries: IInv is inductive, and a guard is left *)
(* behind only by a process that died.  The lock itself can be lost in one *)
(* window of acquireRecovery (Judged); without it LockInv is inductive,    *)
(* and a live daemon keeps its lock and what it has published.             *)
(*                                                                         *)
(* The turns of StoreQueue, for any number of requests and stores: LineInv *)
(* is inductive, it gives each store one request at a time, and with it    *)
(* the chains of promises implement StoreTurns.                            *)
(***************************************************************************)
EXTENDS DaemonLock, StoreQueue, SequenceTheorems, TLAPS

-----------------------------------------------------------------------------
(* The lock *)

\* The steps that neither take nor give back a guard nor change a holder.
Quiet(p) ==
  \/ Start(p) \/ Link(p) \/ Snapshot(p)
  \/ Verify(p) \/ Reread(p) \/ Unlink(p) \/ Relink(p)
  \/ ClearEndpoint(p) \/ ClearToken(p) \/ WriteToken(p) \/ WriteEndpoint(p)
  \/ PublishCheck(p) \/ Publish(p)
  \/ Close(p) \/ Protect(p) \/ ProtectSnapshot(p)
  \/ RemoveEndpoint(p) \/ RemoveToken(p)
  \/ Release(p) \/ ReleaseUnlink(p)

\* The lock record of a process.
LEMMA LockType ==
  ASSUME NEW p \in Procs, NEW b \in BOOLEAN
  PROVE  Lock(p, b) \in Locks
  BY DEF Lock, Locks

\* What a guard's name is made of.
LEMMA PathType ==
  /\ <<>> \in Seq(Locks \cup Procs)
  /\ \A l \in Locks : <<l>> \in Seq(Locks \cup Procs)
  /\ \A s \in Seq(Locks \cup Procs), q \in Procs : Append(s, q) \in Seq(Locks \cup Procs)
  OBVIOUS

\* Types after a quiet step.
LEMMA QuietType ==
  ASSUME TypeOK, NEW p \in Procs, Quiet(p)
  PROVE  TypeOK'
<1>1. CASE Start(p) \/ Verify(p) \/ Reread(p) \/ Protect(p) \/ Release(p)
  BY <1>1 DEF Start, Verify, Reread, Protect, Release, Goto, files, locals, TypeOK, Startup
<1>2. CASE Link(p) \/ Unlink(p) \/ Relink(p) \/ Publish(p) \/ ReleaseUnlink(p)
  BY <1>2, LockType DEF Link, Unlink, Relink, Publish, ReleaseUnlink, Goto, locals, TypeOK, Startup
<1>3. CASE Snapshot(p) \/ ProtectSnapshot(p)
  BY <1>3, PathType DEF Snapshot, ProtectSnapshot, Goto, files, TypeOK, Startup
<1>4. CASE ClearEndpoint(p) \/ ClearToken(p) \/ WriteEndpoint(p) \/ RemoveEndpoint(p) \/ RemoveToken(p)
  BY <1>4 DEF ClearEndpoint, ClearToken, WriteEndpoint, RemoveEndpoint, RemoveToken,
              Goto, locals, TypeOK, Startup
<1>5. CASE WriteToken(p) \/ PublishCheck(p) \/ Close(p)
  BY <1>5 DEF WriteToken, PublishCheck, Close, Goto, files, locals, TypeOK, Startup
<1>. QED
  BY <1>1, <1>2, <1>3, <1>4, <1>5 DEF Quiet

\* What a quiet step leaves alone, and where it leads.
LEMMA QuietFrame ==
  ASSUME TypeOK, NEW p \in Procs, Quiet(p)
  PROVE  /\ guards' = guards /\ holder' = holder /\ owns' = owns
         /\ pc[p] # "dead" /\ pc'[p] # "judge"
         /\ pc[p] \in Guarding => pc'[p] \in Guarding /\ path'[p] = path[p]
         /\ pc[p] \in Releasing => pc'[p] \in Releasing /\ path'[p] = path[p]
         /\ \A q \in Procs \ {p} : pc'[q] = pc[q] /\ path'[q] = path[q]
<1>1. CASE Start(p) \/ Link(p) \/ Snapshot(p) \/ Verify(p) \/ Reread(p) \/ Unlink(p) \/ Relink(p)
  BY <1>1 DEF Start, Link, Snapshot, Verify, Reread, Unlink, Relink, At, Goto, files, locals,
              TypeOK, Guarding, Releasing
<1>2. CASE \/ ClearEndpoint(p) \/ ClearToken(p) \/ WriteToken(p) \/ WriteEndpoint(p)
           \/ PublishCheck(p) \/ Publish(p)
  BY <1>2 DEF ClearEndpoint, ClearToken, WriteToken, WriteEndpoint, PublishCheck, Publish,
              At, Goto, files, locals, TypeOK, Guarding, Releasing
<1>3. CASE \/ Close(p) \/ Protect(p) \/ ProtectSnapshot(p) \/ RemoveEndpoint(p)
           \/ RemoveToken(p) \/ Release(p) \/ ReleaseUnlink(p)
  BY <1>3 DEF Close, Protect, ProtectSnapshot, RemoveEndpoint, RemoveToken, Release,
              ReleaseUnlink, At, Goto, files, locals, TypeOK, Guarding, Releasing, Startup
<1>. QED
  BY <1>1, <1>2, <1>3 DEF Quiet

\* A process that keeps its guard, or has none, through a step of its own.
LEMMA OthersKeep ==
  ASSUME IInv, NEW p \in Procs,
         \A q \in Procs \ {p} :
           pc'[q] = pc[q] /\ path'[q] = path[q] /\ owns'[q] = owns[q] /\ holder'[q] = holder[q]
  PROVE  /\ \A g \in guards : g.holder # p => GuardHeld(g)'
         /\ \A q \in Procs \ {p} : At(q, "judge")' => holder'[q] \in Procs
  BY DEF IInv, TypeOK, GuardHeld, At

\* A quiet step.
LEMMA QuietStep ==
  ASSUME IInv, NEW p \in Procs, Quiet(p)
  PROVE  IInv'
<1>1. TypeOK'
  BY QuietType DEF IInv
<1>2. /\ \A g \in guards : g.holder # p => GuardHeld(g)'
      /\ \A q \in Procs \ {p} : At(q, "judge")' => holder'[q] \in Procs
  BY QuietFrame, OthersKeep DEF IInv
<1>3. \A g \in guards : g.holder = p => GuardHeld(g)'
  BY QuietFrame DEF IInv, GuardHeld, At
<1>. QED
  BY <1>1, <1>2, <1>3, QuietFrame DEF IInv, At

\* A process at a step without a guard holds none.
LEMMA NoGuardElsewhere ==
  ASSUME IInv, NEW p \in Procs, pc[p] \notin Guarding \cup Releasing \cup {"dead"}
  PROVE  \A g \in guards : g.holder # p
  BY DEF IInv, GuardHeld, At

\* A process that takes a guard knows where it is; its next steps give it back.
LEMMA TakeStep ==
  ASSUME IInv, NEW p \in Procs, TakeGuard(p)
  PROVE  IInv'
<1>1. Guard(path[p], p) \in [path : Seq(Locks \cup Procs), holder : Procs]
  BY DEF IInv, TypeOK, Guard
<1>2. TypeOK'
  BY <1>1 DEF IInv, TypeOK, TakeGuard, Goto, locals
<1>3. /\ \A g \in guards : g.holder # p => GuardHeld(g)'
      /\ \A q \in Procs \ {p} : At(q, "judge")' => holder'[q] \in Procs
  BY OthersKeep DEF IInv, TypeOK, TakeGuard, Goto, locals
<1>4. \A g \in guards : g.holder # p
  BY NoGuardElsewhere DEF TakeGuard, At, Guarding, Releasing
<1>5. pc'[p] # "judge"
  BY DEF IInv, TypeOK, TakeGuard, Goto
<1>6. ASSUME NEW g \in guards' \ guards PROVE GuardHeld(g)'
  <2>1. g.holder = p /\ g.path = path[p] /\ path' = path
    BY <1>6 DEF TakeGuard, locals, Guard
  <2>2. pc'[p] \in Guarding
    BY <1>6 DEF IInv, TypeOK, TakeGuard, Goto, Guarding
  <2>. QED
    BY <2>1, <2>2 DEF GuardHeld
<1>. QED
  BY <1>2, <1>3, <1>4, <1>5, <1>6 DEF IInv, At

\* Reading and judging a holder: the process has no guard, and none is touched.
LEMMA JudgeStep ==
  ASSUME IInv, NEW p \in Procs, ReadHolder(p) \/ JudgeHolder(p)
  PROVE  IInv'
<1>1. TypeOK'
  <2>1. ASSUME Recovering(p) PROVE TypeOK'
    BY <2>1, PathType DEF IInv, TypeOK, Recovering, Goto, files
  <2>2. CASE ReadHolder(p)
    BY <2>1, <2>2 DEF IInv, TypeOK, ReadHolder, Taken, Goto, files
  <2>3. CASE JudgeHolder(p)
    <3>1. Append(path[p], holder[p]) \in Seq(Locks \cup Procs)
      BY <2>3, PathType DEF IInv, TypeOK, JudgeHolder
    <3>2. CASE pc' = [pc EXCEPT ![p] = "guard"]
               /\ path' = [path EXCEPT ![p] = Append(path[p], holder[p])]
               /\ holder' = [holder EXCEPT ![p] = None] /\ UNCHANGED <<files, closing, owns>>
      BY <3>1, <3>2 DEF IInv, TypeOK, files
    <3>. QED
      BY <2>1, <2>3, <3>2 DEF JudgeHolder, Goto
  <2>. QED
    BY <2>2, <2>3
<1>2. /\ guards' = guards
      /\ \A q \in Procs \ {p} :
           pc'[q] = pc[q] /\ path'[q] = path[q] /\ owns'[q] = owns[q] /\ holder'[q] = holder[q]
  BY DEF IInv, TypeOK, ReadHolder, JudgeHolder, Recovering, Goto, files
<1>3. \A g \in guards : g.holder # p
  BY NoGuardElsewhere DEF ReadHolder, JudgeHolder, At, Guarding, Releasing
<1>4. pc'[p] = "judge" => holder'[p] \in Procs
  BY DEF IInv, TypeOK, ReadHolder, JudgeHolder, Recovering, Goto, Taken, files
<1>. QED
  BY <1>1, <1>2, <1>3, <1>4, OthersKeep DEF IInv, At

\* What gives a guard back removes every guard of the process.
LEMMA ReturnStep ==
  ASSUME IInv, NEW p \in Procs, Unguard(p) \/ ProtectCheck(p) \/ ReleaseGuard(p)
  PROVE  IInv'
<1>1. TypeOK'
  <2>1. CASE Unguard(p)
    BY <2>1, PathType DEF IInv, TypeOK, Unguard, Goto, Startup
  <2>2. CASE ProtectCheck(p)
    BY <2>2, PathType DEF IInv, TypeOK, ProtectCheck, Goto
  <2>3. CASE ReleaseGuard(p)
    BY <2>3, PathType DEF IInv, TypeOK, ReleaseGuard, Goto
  <2>. QED
    BY <2>1, <2>2, <2>3
<1>2. /\ guards' \subseteq guards
      /\ \A q \in Procs \ {p} :
           pc'[q] = pc[q] /\ path'[q] = path[q] /\ owns'[q] = owns[q] /\ holder'[q] = holder[q]
  BY DEF IInv, TypeOK, Unguard, ProtectCheck, ReleaseGuard, Goto
<1>3. pc'[p] # "judge"
  BY DEF IInv, TypeOK, Unguard, ProtectCheck, ReleaseGuard, Goto
<1>4. ASSUME NEW g \in guards', g.holder = p PROVE GuardHeld(g)'
  <2>1. g \in guards /\ GuardHeld(g)
    BY <1>2 DEF IInv
  <2>2. g = Guard(g.path, g.holder)
    BY <2>1 DEF IInv, TypeOK, Guard
  <2>3. pc[p] # "dead" /\ g = Guard(path[p], p)
    BY <1>4, <2>1, <2>2 DEF GuardHeld, At, Unguard, ProtectCheck, ReleaseGuard
  <2>4. ~Unguard(p) /\ ~ReleaseGuard(p)
    BY <1>4, <2>1, <2>3 DEF GuardHeld, At, Unguard, ReleaseGuard, Guarding
  <2>5. ProtectCheck(p) /\ Mine(p)
    BY <2>3, <2>4, <1>4 DEF ProtectCheck
  <2>. QED
    BY <1>4, <2>1, <2>5 DEF ProtectCheck, GuardHeld, At, Goto, IInv, TypeOK, Releasing, Guarding
<1>. QED
  BY <1>1, <1>2, <1>3, <1>4, OthersKeep DEF IInv, At

\* A process that ends by itself has no guard left; one that dies keeps its own.
LEMMA EndStep ==
  ASSUME IInv, NEW p \in Procs, Exit(p) \/ Crash(p)
  PROVE  IInv'
<1>1. TypeOK'
  <2>1. ASSUME NEW how \in {"exited", "dead"}, End(p, how) PROVE TypeOK'
    BY <2>1, PathType DEF IInv, TypeOK, End, Goto, files
  <2>. QED
    BY <2>1 DEF Exit, Crash
<1>2. /\ guards' = guards
      /\ \A q \in Procs \ {p} :
           pc'[q] = pc[q] /\ path'[q] = path[q] /\ owns'[q] = owns[q] /\ holder'[q] = holder[q]
  BY DEF IInv, TypeOK, Exit, Crash, End, Goto, files
<1>3. pc'[p] # "judge"
  BY DEF IInv, TypeOK, Exit, Crash, End, Goto
<1>4. Exit(p) => \A g \in guards : g.holder # p
  BY NoGuardElsewhere DEF Exit, At, Guarding, Releasing
<1>5. Crash(p) => pc'[p] = "dead"
  BY DEF IInv, TypeOK, Crash, End, Goto
<1>6. \A g \in guards' : g.holder = p => GuardHeld(g)'
  BY <1>2, <1>4, <1>5 DEF GuardHeld, At
<1>. QED
  BY <1>1, <1>2, <1>3, <1>6, OthersKeep DEF IInv, At

LEMMA IInvInit == Init => IInv
<1> SUFFICES ASSUME Init PROVE IInv
  OBVIOUS
<1>1. TypeOK
  BY PathType, DaemonLockAssumption DEF Init, TypeOK, Startup
<1>. QED
  BY <1>1 DEF Init, IInv, At

LEMMA IInvStep == IInv /\ [Next]_vars => IInv'
<1> SUFFICES ASSUME IInv, [Next]_vars PROVE IInv'
  OBVIOUS
<1>1. ASSUME NEW p \in Procs, Start(p) \/ Step(p) \/ Close(p) \/ Crash(p) PROVE IInv'
  <2>1. \/ Quiet(p) \/ TakeGuard(p) \/ ReadHolder(p) \/ JudgeHolder(p)
        \/ Unguard(p) \/ ProtectCheck(p) \/ ReleaseGuard(p) \/ Exit(p) \/ Crash(p)
    BY <1>1 DEF Step, Quiet
  <2>. QED
    BY <2>1, QuietStep, TakeStep, JudgeStep, ReturnStep, EndStep
<1>2. CASE UNCHANGED vars
  BY <1>2 DEF vars, files, locals, IInv, TypeOK, GuardHeld, At
<1>. QED
  BY <1>1, <1>2 DEF Next

\* The holder of every guard is dead or on its way to give it back.
THEOREM GuardInvariant == Spec => []IInv
<1>. QED
  BY IInvInit, IInvStep, PTL DEF Spec

\* A process that ended by itself, whether it won, lost, failed or stopped, has
\* left no guard behind.
THEOREM NoGuardEverLeaked == Spec => []NoGuardLeaked
<1>1. IInv => NoGuardLeaked
  BY DEF IInv, NoGuardLeaked, GuardHeld, At, Guarding, Releasing
<1>. QED
  BY <1>1, GuardInvariant, PTL

-----------------------------------------------------------------------------
(* The lock is kept *)

\* Whoever judges the holder it read from a guard does so while that guard is
\* there, or while the holder lives.  Between the two steps the holder can give
\* the guard back and end; then the reader takes the next guard while another
\* process takes the one that was given back. (lock.ts, acquireRecovery)
Judged ==
  \A p \in Procs :
    At(p, "judge") /\ ~Alive(holder[p]) => Guard(path[p], holder[p]) \in guards

\* A guard's name leads back to the lock: every holder in it died with the
\* guard before.
Rooted(s) ==
  /\ s # <<>> /\ s[1] \in Locks
  /\ \A i \in 1..(Len(s) - 1) : \E g \in guards :
       /\ Len(g.path) = i /\ g.path[1] = s[1]
       /\ g.holder = s[i + 1] /\ At(s[i + 1], "dead")

HasGuard(p) == pc[p] \in Guarding \/ (pc[p] \in Releasing /\ owns[p])
Walking(p) == pc[p] \in {"guard", "holder", "judge"}

\* The guards of a lock form one chain.
Chain ==
  /\ \A g \in guards : Rooted(g.path)
  /\ \A p \in Procs : Walking(p) => Rooted(path[p])
  /\ \A p \in Procs : HasGuard(p) => Guard(path[p], p) \in guards
  /\ \A g, h \in guards : g.path[1] = h.path[1] /\ Len(g.path) = Len(h.path) => g = h

\* What is taken away belongs to somebody who is gone, and is still there.
Condemned ==
  \A p \in Procs :
    /\ pc[p] \in {"reread", "unlink"} => ~Alive(path[p][1].owner)
    /\ At(p, "unlink") => lock = path[p][1]

Stopping == {"protect", "protectSnapshot", "protectCheck", "removeEndpoint", "removeToken",
             "release", "releaseUnlink"}

Closes ==
  \A p \in Procs :
    /\ pc[p] \in Stopping => closing[p]
    /\ closing[p] => Alive(p)
    /\ owns[p] => pc[p] \in Releasing

\* The discovery files are those of the process that publishes them.
Discovered ==
  \A p \in Procs :
    /\ pc[p] \in {"writeEndpoint", "publishCheck", "publish", "running"} => token = p
    /\ pc[p] \in {"publishCheck", "publish", "running"} => endpoint = p
    /\ At(p, "running") => lock = Lock(p, TRUE)

LockInv == IInv /\ Chain /\ Condemned /\ Closes /\ LockKept /\ Discovered

Moves(p) == Start(p) \/ Step(p) \/ Close(p) \/ Crash(p)

\* A recovery gives up, a cleanup tries again or goes on without a guard.
LEMMA Recovers ==
  ASSUME TypeOK, NEW p \in Procs, Recovering(p)
  PROVE  /\ UNCHANGED <<files, closing, owns>>
         /\ path'[p] = <<>> /\ pc'[p] \in {"protect", "release", "leave"}
         /\ pc'[p] = "leave" <=> ~closing[p]
         /\ \A q \in Procs \ {p} : pc'[q] = pc[q] /\ path'[q] = path[q] /\ holder'[q] = holder[q]
<1>1. CASE closing[p]
  BY <1>1 DEF Recovering, Goto, TypeOK
<1>2. CASE ~closing[p]
  BY <1>2 DEF Recovering, Goto, TypeOK
<1>. QED
  BY <1>1, <1>2

\* The other outcome of each.
LEMMA Proceeds ==
  ASSUME TypeOK, NEW p \in Procs, ReadHolder(p) \/ JudgeHolder(p), ~Recovering(p)
  PROVE  /\ UNCHANGED <<files, closing, owns>>
         /\ \A q \in Procs \ {p} : pc'[q] = pc[q] /\ path'[q] = path[q] /\ holder'[q] = holder[q]
         /\ \/ pc[p] = "holder" /\ pc'[p] = "judge" /\ path' = path
            \/ /\ pc[p] = "judge" /\ pc'[p] = "guard" /\ ~Alive(holder[p])
               /\ path'[p] = Append(path[p], holder[p])
<1>1. CASE ReadHolder(p)
  BY <1>1 DEF ReadHolder, Goto, TypeOK, At
<1>2. CASE JudgeHolder(p)
  BY <1>2 DEF JudgeHolder, Goto, TypeOK, At
<1>. QED
  BY <1>1, <1>2

\* Only a live process moves, and it moves nobody else.
LEMMA MovesAlone ==
  ASSUME TypeOK, NEW p \in Procs, Moves(p)
  PROVE  /\ Alive(p)
         /\ \A q \in Procs \ {p} :
              /\ pc'[q] = pc[q] /\ path'[q] = path[q] /\ holder'[q] = holder[q]
              /\ closing'[q] = closing[q] /\ owns'[q] = owns[q]
<1>1. CASE Start(p) \/ Link(p) \/ Snapshot(p) \/ Verify(p) \/ Reread(p) \/ Unlink(p) \/ Relink(p)
  BY <1>1 DEF Start, Link, Snapshot, Verify, Reread, Unlink, Relink, At, Alive, Goto, files, locals,
              TypeOK
<1>2. CASE \/ ClearEndpoint(p) \/ ClearToken(p) \/ WriteToken(p) \/ WriteEndpoint(p)
           \/ PublishCheck(p) \/ Publish(p)
  BY <1>2 DEF ClearEndpoint, ClearToken, WriteToken, WriteEndpoint, PublishCheck, Publish,
              At, Alive, Goto, files, locals, TypeOK
<1>3. CASE \/ Close(p) \/ Protect(p) \/ ProtectSnapshot(p) \/ RemoveEndpoint(p)
           \/ RemoveToken(p) \/ Release(p) \/ ReleaseUnlink(p)
  BY <1>3 DEF Close, Protect, ProtectSnapshot, RemoveEndpoint, RemoveToken, Release,
              ReleaseUnlink, At, Alive, Goto, files, locals, TypeOK, Startup
<1>4. CASE TakeGuard(p) \/ Unguard(p) \/ ProtectCheck(p) \/ ReleaseGuard(p)
  BY <1>4 DEF TakeGuard, Unguard, ProtectCheck, ReleaseGuard, At, Alive, Goto, locals, TypeOK
<1>5. CASE ReadHolder(p) \/ JudgeHolder(p)
  <2>1. Alive(p)
    BY <1>5 DEF ReadHolder, JudgeHolder, At, Alive
  <2>. QED
    BY <1>5, <2>1, Recovers, Proceeds
<1>7. CASE Exit(p) \/ Crash(p)
  BY <1>7 DEF Exit, Crash, End, At, Alive, Goto, TypeOK
<1>. QED
  BY <1>1, <1>2, <1>3, <1>4, <1>5, <1>7 DEF Moves, Step

\* What a step does to daemon.lock.
LEMMA LockMoves ==
  ASSUME TypeOK, NEW p \in Procs, Moves(p)
  PROVE  \/ lock' = lock /\ pc[p] \notin {"unlink", "publish", "releaseUnlink"}
         \/ lock' = lock /\ Crash(p)
         \/ lock' = lock /\ Close(p)
         \/ /\ lock = None /\ lock' = Lock(p, FALSE)
            /\ pc[p] \in {"link", "relink"} /\ pc'[p] \in {"clearEndpoint", "enter"}
         \/ /\ pc[p] = "unlink" /\ lock' = None /\ pc'[p] \in {"abandon", "relink"}
            /\ closing' = closing
         \/ pc[p] = "publish" /\ lock' = Lock(p, TRUE) /\ pc'[p] = "running"
         \/ pc[p] = "releaseUnlink" /\ lock' = None /\ pc'[p] = "releaseGuard"
<1>1. CASE Start(p) \/ Link(p) \/ Snapshot(p) \/ Verify(p) \/ Reread(p) \/ Unlink(p) \/ Relink(p)
  BY <1>1 DEF Start, Link, Snapshot, Verify, Reread, Unlink, Relink, At, Goto, files, locals, TypeOK
<1>2. CASE \/ ClearEndpoint(p) \/ ClearToken(p) \/ WriteToken(p) \/ WriteEndpoint(p)
           \/ PublishCheck(p) \/ Publish(p)
  BY <1>2 DEF ClearEndpoint, ClearToken, WriteToken, WriteEndpoint, PublishCheck, Publish,
              At, Goto, files, locals, TypeOK
<1>3. CASE \/ Protect(p) \/ ProtectSnapshot(p) \/ RemoveEndpoint(p)
           \/ RemoveToken(p) \/ Release(p) \/ ReleaseUnlink(p)
  BY <1>3 DEF Protect, ProtectSnapshot, RemoveEndpoint, RemoveToken, Release,
              ReleaseUnlink, At, Goto, files, locals, TypeOK
<1>4. CASE TakeGuard(p) \/ Unguard(p) \/ ProtectCheck(p) \/ ReleaseGuard(p)
  BY <1>4 DEF TakeGuard, Unguard, ProtectCheck, ReleaseGuard, At
<1>5. CASE ReadHolder(p) \/ JudgeHolder(p) \/ Exit(p)
  <2>1. pc[p] \in {"holder", "judge", "leave"}
    BY <1>5 DEF ReadHolder, JudgeHolder, Exit, At
  <2>2. lock' = lock
    BY <1>5, Recovers, Proceeds DEF Exit, End, files
  <2>. QED
    BY <2>1, <2>2
<1>6. CASE Close(p) \/ Crash(p)
  BY <1>6 DEF Close, Crash, End, files
<1>. QED
  BY <1>1, <1>2, <1>3, <1>4, <1>5, <1>6 DEF Moves, Step

\* Nobody comes to hold the lock except by linking it, and a process that stops
\* says so.
LEMMA HoldsOn ==
  ASSUME TypeOK, Closes, NEW p \in Procs, Moves(p)
  PROVE  /\ Holding(p)' => Holding(p) \/ (lock = None /\ lock' = Lock(p, FALSE))
         /\ pc'[p] \in Stopping => closing'[p]
         /\ closing'[p] => pc'[p] \notin {"exited", "dead"}
         /\ owns'[p] => pc'[p] \in Releasing
<1>0. /\ pc[p] \in Stopping => closing[p]
      /\ closing[p] => pc[p] \notin {"exited", "dead"}
      /\ owns[p] => pc[p] \in Releasing
  BY DEF Closes, Alive
<1>1. CASE Start(p) \/ Link(p) \/ Snapshot(p) \/ Verify(p) \/ Reread(p) \/ Unlink(p) \/ Relink(p)
  <2>1. closing' = closing /\ owns' = owns
    BY <1>1 DEF Start, Link, Snapshot, Verify, Reread, Unlink, Relink, locals
  <2>2. ~owns[p] /\ pc[p] \notin {"releaseGuard", "leave"}
    BY <1>0, <1>1 DEF Start, Link, Snapshot, Verify, Reread, Unlink, Relink, At, Releasing
  <2>3. \/ pc'[p] \in {"link", "snapshot", "guard", "leave", "reread", "unlink", "abandon", "relink"}
        \/ pc'[p] \in {"clearEndpoint", "enter"} /\ lock = None /\ lock' = Lock(p, FALSE)
    <3>1. CASE Start(p) \/ Snapshot(p) \/ Verify(p) \/ Reread(p) \/ Unlink(p)
      BY <3>1 DEF Start, Snapshot, Verify, Reread, Unlink, Goto, TypeOK
    <3>2. CASE Link(p) \/ Relink(p)
      BY <3>2 DEF Link, Relink, Goto, TypeOK
    <3>. QED
      BY <1>1, <3>1, <3>2
  <2>. QED
    BY <2>1, <2>2, <2>3 DEF Holding, Startup, Stopping
<1>2. CASE \/ ClearEndpoint(p) \/ ClearToken(p) \/ WriteToken(p) \/ WriteEndpoint(p)
           \/ PublishCheck(p) \/ Publish(p)
  BY <1>0, <1>2 DEF ClearEndpoint, ClearToken, WriteToken, WriteEndpoint, PublishCheck, Publish,
              At, Goto, files, locals, TypeOK, Holding, Startup, Stopping, Releasing
<1>3. CASE \/ Close(p) \/ Protect(p) \/ ProtectSnapshot(p) \/ RemoveEndpoint(p)
           \/ RemoveToken(p) \/ Release(p) \/ ReleaseUnlink(p)
  BY <1>0, <1>3 DEF Close, Protect, ProtectSnapshot, RemoveEndpoint, RemoveToken, Release,
              ReleaseUnlink, At, Goto, files, locals, TypeOK, Holding, Startup, Stopping, Releasing
<1>4. CASE TakeGuard(p) \/ Unguard(p) \/ ProtectCheck(p) \/ ReleaseGuard(p)
  BY <1>0, <1>4 DEF TakeGuard, Unguard, ProtectCheck, ReleaseGuard, At, Goto, locals, TypeOK,
              Holding, Startup, Stopping, Releasing
<1>5. CASE ReadHolder(p) \/ JudgeHolder(p)
  <2>1. pc[p] \in {"holder", "judge"} /\ ~owns[p]
    BY <1>0, <1>5 DEF ReadHolder, JudgeHolder, At, Releasing
  <2>2. /\ closing' = closing /\ owns' = owns
        /\ pc'[p] \in {"protect", "release", "leave", "judge", "guard"}
        /\ pc'[p] \in {"protect", "release"} => closing[p]
    BY <1>5, Recovers, Proceeds
  <2>. QED
    BY <2>1, <2>2 DEF Holding, Startup, Stopping
<1>7. CASE Exit(p) \/ Crash(p)
  BY <1>0, <1>7 DEF Exit, Crash, End, At, Alive, Goto, TypeOK, Holding, Startup, Stopping, Releasing
<1>. QED
  BY <1>1, <1>2, <1>3, <1>4, <1>5, <1>7 DEF Moves, Step

LEMMA ClosesKept ==
  ASSUME TypeOK, Closes, NEW p \in Procs, Moves(p)
  PROVE  Closes'
<1>1. ASSUME NEW q \in Procs, q # p
      PROVE  /\ pc'[q] \in Stopping => closing'[q]
             /\ closing'[q] => Alive(q)'
             /\ owns'[q] => pc'[q] \in Releasing
  BY <1>1, MovesAlone DEF Closes, Alive
<1>2. /\ pc'[p] \in Stopping => closing'[p]
      /\ closing'[p] => Alive(p)'
      /\ owns'[p] => pc'[p] \in Releasing
  BY HoldsOn DEF Alive
<1>. QED
  BY <1>1, <1>2 DEF Closes

\* Only the living hold the lock, and one of them.
LEMMA HoldersLive ==
  ASSUME Closes, NEW p \in Procs, Holding(p)
  PROVE  Alive(p)
BY DEF Closes, Holding, Alive, Startup

LEMMA HoldersAlone ==
  ASSUME LockKept, NEW p \in Procs, NEW q \in Procs, Holding(p), Holding(q)
  PROVE  p = q
BY DEF LockKept, Mine

\* What a step that changes daemon.lock says of the process that takes it.
LEMMA LockKeptOn ==
  ASSUME TypeOK, Condemned, Closes, LockKept, NEW p \in Procs, Moves(p)
  PROVE  LockKept'
<1>. SUFFICES ASSUME NEW q \in Procs, Holding(q)' PROVE Mine(q)'
  BY DEF LockKept
<1>0. None \notin Locks /\ Lock(q, FALSE) # None /\ Lock(q, TRUE) # None
  BY DaemonLockAssumption, LockType
<1>1. q # p => Holding(q)
  BY MovesAlone DEF Holding
<1>2. Holding(q) => lock # None /\ lock.owner = q /\ Alive(q)
  BY HoldersLive DEF LockKept, Mine
<1>3. Holding(q) \/ (q = p /\ lock = None /\ lock' = Lock(p, FALSE))
  BY <1>1, HoldsOn
<1>4. CASE lock' = lock
  BY <1>0, <1>2, <1>3, <1>4 DEF Mine
<1>5. CASE lock = None /\ lock' = Lock(p, FALSE)
  BY <1>0, <1>2, <1>3, <1>5 DEF Mine, Lock
<1>6. CASE pc[p] = "unlink" /\ lock' = None
  <2>1. lock' # Lock(p, FALSE)
    BY <1>6, DaemonLockAssumption, LockType
  <2>. QED
    BY <1>2, <1>3, <1>6, <2>1 DEF Condemned, At
<1>7. CASE pc[p] = "publish" /\ lock' = Lock(p, TRUE)
  <2>1. Holding(p)
    BY <1>7 DEF Holding, Startup
  <2>2. q = p
    BY <1>1, <2>1, HoldersAlone
  <2>. QED
    BY <1>0, <1>7, <2>2 DEF Mine, Lock
<1>8. CASE pc[p] = "releaseUnlink" /\ lock' = None /\ pc'[p] = "releaseGuard"
  <2>1. Holding(p)
    BY <1>8 DEF Holding, Closes, Stopping
  <2>2. q = p
    BY <1>1, <2>1, HoldersAlone
  <2>. QED
    BY <1>8, <2>2 DEF Holding, Startup
<1>. QED
  BY <1>4, <1>5, <1>6, <1>7, <1>8, LockMoves

\* Who is gone stays away.
StillAlive(o) == o \in Procs /\ pc'[o] \notin {"exited", "dead"}

LEMMA GoneStays ==
  ASSUME TypeOK, NEW p \in Procs, Moves(p), NEW o, ~Alive(o)
  PROVE  ~StillAlive(o)
BY MovesAlone DEF Alive, StillAlive

\* The named parts of what is known of a guard that is held.
LEMMA HeldRooted ==
  ASSUME Chain, NEW p \in Procs, HasGuard(p)
  PROVE  Guard(path[p], p) \in guards /\ Rooted(path[p])
BY DEF Chain, Guard

\* Two live processes do not have guards of one lock.
LEMMA OneGuard ==
  ASSUME TypeOK, Chain, NEW g \in guards, NEW h \in guards, g.path[1] = h.path[1],
         ~At(g.holder, "dead"), ~At(h.holder, "dead")
  PROVE  g = h
<1>0. /\ g.path \in Seq(Locks \cup Procs) /\ h.path \in Seq(Locks \cup Procs)
      /\ Rooted(g.path) /\ Rooted(h.path)
  BY DEF TypeOK, Chain
<1>1. /\ Len(g.path) \in Nat /\ Len(h.path) \in Nat /\ Len(g.path) >= 1 /\ Len(h.path) >= 1
  BY <1>0 DEF Rooted
<1>2. ASSUME NEW a \in guards, NEW b \in guards, a.path[1] = b.path[1], Rooted(b.path),
             Len(a.path) \in Nat, Len(b.path) \in Nat, Len(a.path) >= 1, Len(a.path) < Len(b.path)
      PROVE  At(a.holder, "dead")
  <2>1. Len(a.path) \in 1..(Len(b.path) - 1)
    BY <1>2
  <2>2. PICK k \in guards : /\ Len(k.path) = Len(a.path) /\ k.path[1] = b.path[1]
                            /\ At(k.holder, "dead")
    BY <1>2, <2>1 DEF Rooted
  <2>3. k = a
    BY <1>2, <2>2 DEF Chain
  <2>. QED
    BY <2>2, <2>3
<1>3. CASE Len(g.path) = Len(h.path)
  BY <1>3 DEF Chain
<1>4. CASE Len(g.path) < Len(h.path)
  BY <1>0, <1>1, <1>2, <1>4
<1>5. CASE Len(h.path) < Len(g.path)
  BY <1>0, <1>1, <1>2, <1>5
<1>. QED
  BY <1>1, <1>3, <1>4, <1>5

LEMMA OneRecoverer ==
  ASSUME TypeOK, Chain, NEW p \in Procs, NEW q \in Procs, HasGuard(p), HasGuard(q),
         path[p][1] = path[q][1], Alive(p), Alive(q)
  PROVE  p = q
<1>1. Guard(path[p], p) \in guards /\ Guard(path[q], q) \in guards
  BY HeldRooted
<1>2. ~At(p, "dead") /\ ~At(q, "dead")
  BY DEF Alive, At
<1>3. Guard(path[p], p) = Guard(path[q], q)
  BY <1>1, <1>2, OneGuard DEF Guard
<1>. QED
  BY <1>3 DEF Guard

\* How a process comes to take a lock away.
LEMMA Condemns ==
  ASSUME TypeOK, NEW p \in Procs, Moves(p), pc'[p] \in {"reread", "unlink"}
  PROVE  \/ pc'[p] = "reread" /\ path' = path /\ ~Alive(path[p][1].owner)
         \/ /\ pc[p] = "reread" /\ pc'[p] = "unlink" /\ path' = path
            /\ lock' = lock /\ lock = path[p][1]
<1>1. CASE Start(p) \/ Snapshot(p) \/ Verify(p) \/ Reread(p)
  BY <1>1 DEF Start, Snapshot, Verify, Reread, At, Goto, files, locals, TypeOK
<1>2. CASE \/ Unlink(p) \/ Relink(p) \/ Link(p) \/ ClearEndpoint(p) \/ ClearToken(p) \/ WriteToken(p)
           \/ WriteEndpoint(p) \/ PublishCheck(p) \/ Publish(p)
  BY <1>2 DEF Unlink, Relink, Link, ClearEndpoint, ClearToken, WriteToken, WriteEndpoint,
              PublishCheck, Publish, Goto, TypeOK
<1>3. CASE \/ Close(p) \/ Protect(p) \/ ProtectSnapshot(p) \/ RemoveEndpoint(p)
           \/ RemoveToken(p) \/ Release(p) \/ ReleaseUnlink(p)
  BY <1>3 DEF Close, Protect, ProtectSnapshot, RemoveEndpoint, RemoveToken, Release,
              ReleaseUnlink, Goto, TypeOK
<1>4. CASE TakeGuard(p) \/ Unguard(p) \/ ProtectCheck(p) \/ ReleaseGuard(p)
  BY <1>4 DEF TakeGuard, Unguard, ProtectCheck, ReleaseGuard, Goto, TypeOK
<1>5. CASE ReadHolder(p) \/ JudgeHolder(p)
  BY <1>5, Recovers, Proceeds
<1>6. CASE Exit(p) \/ Crash(p)
  BY <1>6 DEF Exit, Crash, End, Goto, TypeOK
<1>. QED
  BY <1>1, <1>2, <1>3, <1>4, <1>5, <1>6 DEF Moves, Step

LEMMA CondemnedKept ==
  ASSUME TypeOK, Chain, Condemned, Closes, LockKept, NEW p \in Procs, Moves(p)
  PROVE  Condemned'
<1>0. Alive(p)
  BY MovesAlone
<1>1. ASSUME NEW q \in Procs, q # p
      PROVE  /\ pc'[q] \in {"reread", "unlink"} => ~StillAlive(path'[q][1].owner)
             /\ At(q, "unlink")' => lock' = path'[q][1]
  <2>1. pc'[q] = pc[q] /\ path'[q] = path[q]
    BY <1>1, MovesAlone
  <2>2. pc[q] \in {"reread", "unlink"} => ~StillAlive(path[q][1].owner)
    BY GoneStays DEF Condemned
  <2>3. ASSUME At(q, "unlink") PROVE lock' = lock
    <3>1. lock = path[q][1] /\ ~Alive(lock.owner)
      BY <2>3 DEF Condemned, At
    <3>2. HasGuard(q) /\ Alive(q)
      BY <2>3 DEF At, HasGuard, Guarding, Alive
    <3>3. lock # None
      BY <3>1, <3>2, HeldRooted, DaemonLockAssumption DEF Rooted
    <3>4. ~Holding(p)
      BY <1>0, <3>1 DEF LockKept, Mine
    <3>5. pc[p] # "publish" /\ pc[p] # "releaseUnlink"
      BY <3>4 DEF Holding, Startup, Closes, Stopping
    <3>6. pc[p] # "unlink"
      <4>. SUFFICES ASSUME pc[p] = "unlink" PROVE FALSE
        OBVIOUS
      <4>1. lock = path[p][1] /\ HasGuard(p)
        BY DEF Condemned, At, HasGuard, Guarding
      <4>. QED
        BY <1>0, <1>1, <3>1, <3>2, <4>1, OneRecoverer
    <3>. QED
      BY <3>3, <3>5, <3>6, LockMoves
  <2>. QED
    BY <2>1, <2>2, <2>3 DEF Condemned, At
<1>2. /\ pc'[p] \in {"reread", "unlink"} => ~StillAlive(path'[p][1].owner)
      /\ At(p, "unlink")' => lock' = path'[p][1]
  <2>1. CASE pc'[p] = "reread" /\ path' = path /\ ~Alive(path[p][1].owner)
    BY <2>1, GoneStays DEF At
  <2>2. CASE /\ pc[p] = "reread" /\ pc'[p] = "unlink" /\ path' = path
             /\ lock' = lock /\ lock = path[p][1]
    <3>1. ~Alive(path[p][1].owner)
      BY <2>2 DEF Condemned
    <3>. QED
      BY <2>2, <3>1, GoneStays DEF At
  <2>. QED
    BY <2>1, <2>2, Condemns DEF At
<1>. QED
  BY <1>1, <1>2 DEF Condemned, StillAlive, Alive

\* Only who holds the lock touches the discovery files.
LEMMA DiscoveryMoves ==
  ASSUME TypeOK, Closes, NEW p \in Procs, Moves(p)
  PROVE  /\ Holding(p) \/ (endpoint' = endpoint /\ token' = token)
         /\ pc'[p] \in {"writeEndpoint", "publishCheck", "publish", "running"} =>
              \/ pc[p] = "writeToken" /\ pc'[p] = "writeEndpoint" /\ token' = p
              \/ /\ pc[p] = "writeEndpoint" /\ pc'[p] = "publishCheck"
                 /\ token' = token /\ endpoint' = p
              \/ /\ pc[p] = "publishCheck" /\ pc'[p] = "publish"
                 /\ token' = token /\ endpoint' = endpoint
              \/ /\ pc[p] = "publish" /\ pc'[p] = "running"
                 /\ token' = token /\ endpoint' = endpoint /\ lock' = Lock(p, TRUE)
<1>1. CASE Start(p) \/ Link(p) \/ Snapshot(p) \/ Verify(p) \/ Reread(p) \/ Unlink(p) \/ Relink(p)
  BY <1>1 DEF Start, Link, Snapshot, Verify, Reread, Unlink, Relink, Goto, files, TypeOK
<1>2. CASE \/ ClearEndpoint(p) \/ ClearToken(p) \/ WriteToken(p) \/ WriteEndpoint(p)
           \/ PublishCheck(p) \/ Publish(p)
  BY <1>2 DEF ClearEndpoint, ClearToken, WriteToken, WriteEndpoint, PublishCheck, Publish,
              At, Goto, files, TypeOK, Holding, Startup
<1>3. CASE Close(p) \/ Protect(p) \/ ProtectSnapshot(p) \/ Release(p) \/ ReleaseUnlink(p)
  BY <1>3 DEF Close, Protect, ProtectSnapshot, Release, ReleaseUnlink, Goto, files, TypeOK
<1>4. CASE RemoveEndpoint(p) \/ RemoveToken(p)
  BY <1>4 DEF RemoveEndpoint, RemoveToken, At, Goto, TypeOK, Closes, Stopping, Holding
<1>5. CASE TakeGuard(p) \/ Unguard(p) \/ ProtectCheck(p) \/ ReleaseGuard(p)
  BY <1>5 DEF TakeGuard, Unguard, ProtectCheck, ReleaseGuard, Goto, TypeOK
<1>6. CASE ReadHolder(p) \/ JudgeHolder(p)
  BY <1>6, Recovers, Proceeds DEF files
<1>7. CASE Exit(p) \/ Crash(p)
  BY <1>7 DEF Exit, Crash, End, Goto, files, TypeOK
<1>. QED
  BY <1>1, <1>2, <1>3, <1>4, <1>5, <1>6, <1>7 DEF Moves, Step

LEMMA DiscoveredKept ==
  ASSUME TypeOK, Condemned, Closes, LockKept, Discovered, NEW p \in Procs, Moves(p)
  PROVE  Discovered'
<1>1. ASSUME NEW q \in Procs, q # p
      PROVE  /\ pc'[q] \in {"writeEndpoint", "publishCheck", "publish", "running"} => token' = q
             /\ pc'[q] \in {"publishCheck", "publish", "running"} => endpoint' = q
             /\ At(q, "running")' => lock' = Lock(q, TRUE)
  <2>. SUFFICES ASSUME pc[q] \in {"writeEndpoint", "publishCheck", "publish", "running"}
                PROVE  /\ endpoint' = endpoint /\ token' = token
                       /\ At(q, "running") => lock' = lock
    BY <1>1, MovesAlone DEF Discovered, At
  <2>1. Holding(q)
    BY DEF Holding, Startup
  <2>2. ~Holding(p)
    BY <1>1, <2>1, HoldersAlone
  <2>3. endpoint' = endpoint /\ token' = token
    BY <2>2, DiscoveryMoves
  <2>4. lock # None /\ lock.owner = q /\ Alive(q)
    BY <2>1, HoldersLive DEF LockKept, Mine
  <2>5. pc[p] # "publish" /\ pc[p] # "releaseUnlink"
    BY <2>2 DEF Holding, Startup, Closes, Stopping
  <2>6. pc[p] # "unlink"
    BY <2>4 DEF Condemned, At
  <2>7. lock' = lock
    BY <2>4, <2>5, <2>6, LockMoves
  <2>. QED
    BY <2>3, <2>7
<1>2. /\ pc'[p] \in {"writeEndpoint", "publishCheck", "publish", "running"} => token' = p
      /\ pc'[p] \in {"publishCheck", "publish", "running"} => endpoint' = p
      /\ At(p, "running")' => lock' = Lock(p, TRUE)
  BY DiscoveryMoves DEF Discovered, At
<1>. QED
  BY <1>1, <1>2 DEF Discovered

\* What was rooted stays rooted, as only the living give guards back.
StillRooted(s) ==
  /\ s # <<>> /\ s[1] \in Locks
  /\ \A i \in 1..(Len(s) - 1) : \E g \in guards' :
       /\ Len(g.path) = i /\ g.path[1] = s[1]
       /\ g.holder = s[i + 1] /\ pc'[s[i + 1]] = "dead"

LEMMA RootedStays ==
  ASSUME TypeOK, NEW p \in Procs, Moves(p), guards \ {Guard(path[p], p)} \subseteq guards',
         NEW s, Rooted(s)
  PROVE  StillRooted(s)
<1>1. ASSUME NEW i \in 1..(Len(s) - 1)
      PROVE  \E g \in guards' : /\ Len(g.path) = i /\ g.path[1] = s[1]
                                /\ g.holder = s[i + 1] /\ pc'[s[i + 1]] = "dead"
  <2>1. PICK g \in guards : /\ Len(g.path) = i /\ g.path[1] = s[1]
                            /\ g.holder = s[i + 1] /\ At(s[i + 1], "dead")
    BY DEF Rooted
  <2>2. g.holder \in Procs \ {p}
    BY <2>1, MovesAlone DEF Alive, At, TypeOK
  <2>3. g \in guards'
    BY <2>2 DEF Guard
  <2>4. pc'[g.holder] = "dead"
    BY <2>1, <2>2, MovesAlone DEF At
  <2>. QED
    BY <2>1, <2>3, <2>4
<1>. QED
  BY <1>1 DEF Rooted, StillRooted

\* Two names of one length that begin with one lock are one.
LEMMA SameName ==
  ASSUME TypeOK, Chain, NEW s \in Seq(Locks \cup Procs), Rooted(s), NEW g \in guards,
         g.path[1] = s[1], Len(g.path) = Len(s)
  PROVE  g.path = s
<1>1. g.path \in Seq(Locks \cup Procs) /\ Rooted(g.path) /\ Len(s) \in Nat
  BY DEF TypeOK, Chain
<1>2. ASSUME NEW j \in 1..Len(s), j # 1
      PROVE  g.path[j] = s[j]
  <2>1. (j - 1) \in 1..(Len(s) - 1) /\ (j - 1) + 1 = j
    BY <1>1, <1>2
  <2>2. PICK k \in guards : Len(k.path) = j - 1 /\ k.path[1] = s[1] /\ k.holder = s[j]
    BY <2>1 DEF Rooted
  <2>3. PICK l \in guards : Len(l.path) = j - 1 /\ l.path[1] = g.path[1] /\ l.holder = g.path[j]
    BY <1>1, <2>1 DEF Rooted
  <2>4. k = l
    BY <2>2, <2>3 DEF Chain
  <2>. QED
    BY <2>2, <2>3, <2>4
<1>3. \A j \in 1..Len(s) : g.path[j] = s[j]
  BY <1>2
<1>. QED
  BY <1>1, <1>3, SeqEqual

\* Where quiet steps lead: never to a guard, and to the first name of a lock.
LEMMA QuietLeads ==
  ASSUME TypeOK, NEW p \in Procs, Quiet(p)
  PROVE  /\ pc'[p] \in Guarding => pc[p] \in Guarding
         /\ Walking(p)' => path'[p] = <<lock>> /\ lock \in Locks
<1>1. CASE Start(p) \/ Link(p) \/ Snapshot(p) \/ Verify(p) \/ Reread(p) \/ Unlink(p) \/ Relink(p)
  BY <1>1 DEF Start, Link, Snapshot, Verify, Reread, Unlink, Relink, At, Goto, files, locals,
              TypeOK, Guarding, Walking
<1>2. CASE \/ ClearEndpoint(p) \/ ClearToken(p) \/ WriteToken(p) \/ WriteEndpoint(p)
           \/ PublishCheck(p) \/ Publish(p)
  BY <1>2 DEF ClearEndpoint, ClearToken, WriteToken, WriteEndpoint, PublishCheck, Publish,
              At, Goto, files, locals, TypeOK, Guarding, Walking
<1>3. CASE \/ Close(p) \/ Protect(p) \/ ProtectSnapshot(p) \/ RemoveEndpoint(p)
           \/ RemoveToken(p) \/ Release(p) \/ ReleaseUnlink(p)
  BY <1>3 DEF Close, Protect, ProtectSnapshot, RemoveEndpoint, RemoveToken, Release,
              ReleaseUnlink, At, Goto, files, locals, TypeOK, Guarding, Walking
<1>. QED
  BY <1>1, <1>2, <1>3 DEF Quiet

\* A judged holder is the next link of the chain.
LEMMA JudgedRooted ==
  ASSUME IInv, Chain, Judged, NEW p \in Procs, At(p, "judge"), ~Alive(holder[p])
  PROVE  Rooted(Append(path[p], holder[p]))
<1> DEFINE s == path[p]
           h == holder[p]
           t == Append(s, h)
<1>1. s \in Seq(Locks \cup Procs) /\ h \in Procs /\ Rooted(s) /\ s # <<>>
  BY DEF IInv, TypeOK, Chain, Walking, At, Rooted
<1>2. Guard(s, h) \in guards
  BY DEF Judged
<1>3. At(h, "dead")
  BY <1>1, <1>2 DEF IInv, GuardHeld, Guard, Alive, At, Guarding, Releasing
<1>4. /\ Len(s) \in Nat /\ Len(s) >= 1 /\ Len(t) = Len(s) + 1
      /\ t[Len(s) + 1] = h /\ \A i \in 1..Len(s) : t[i] = s[i]
  BY <1>1
<1>5. t # <<>> /\ t[1] = s[1] /\ s[1] \in Locks
  BY <1>1, <1>4 DEF Rooted
<1>. HIDE DEF t, s, h
<1>6. ASSUME NEW i \in 1..(Len(t) - 1)
      PROVE  \E g \in guards : /\ Len(g.path) = i /\ g.path[1] = t[1]
                               /\ g.holder = t[i + 1] /\ At(t[i + 1], "dead")
  <2>1. CASE i = Len(s)
    <3>1. Guard(s, h).path = s /\ Guard(s, h).holder = h
      BY DEF Guard
    <3>. QED
      BY <1>2, <1>3, <1>4, <1>5, <2>1, <3>1
  <2>2. CASE i # Len(s)
    <3>1. i \in 1..(Len(s) - 1) /\ i + 1 \in 1..Len(s)
      BY <1>4, <2>2
    <3>2. PICK g \in guards : /\ Len(g.path) = i /\ g.path[1] = s[1]
                              /\ g.holder = s[i + 1] /\ At(s[i + 1], "dead")
      BY <1>1, <3>1 DEF Rooted
    <3>. QED
      BY <1>4, <1>5, <3>1, <3>2
  <2>. QED
    BY <2>1, <2>2
<1>7. Rooted(t)
  BY <1>5, <1>6 DEF Rooted
<1>. QED
  BY <1>7 DEF t, s, h

\* What a step does to the guards, and what it leads its process to.
LEMMA GuardMoves ==
  ASSUME IInv, Chain, Closes, Judged, NEW p \in Procs, Moves(p)
  PROVE  /\ \/ guards' = guards
            \/ guards' = guards \ {Guard(path[p], p)}
            \/ TakeGuard(p) /\ Taken(path[p]) = {} /\ guards' = guards \cup {Guard(path[p], p)}
         /\ Walking(p)' => StillRooted(path'[p])
         /\ HasGuard(p)' => Guard(path'[p], p) \in guards'
<1>0. /\ TypeOK /\ (owns[p] => pc[p] \in Releasing) /\ owns[p] \in BOOLEAN
      /\ HasGuard(p) => Guard(path[p], p) \in guards
      /\ Walking(p) => Rooted(path[p])
  BY DEF IInv, TypeOK, Closes, Chain
<1>1. CASE Quiet(p)
  <2>1. guards' = guards /\ owns' = owns
    BY <1>0, <1>1, QuietFrame
  <2>2. ASSUME Walking(p)' PROVE StillRooted(path'[p])
    <3>1. path'[p] = <<lock>> /\ lock \in Locks
      BY <1>0, <1>1, <2>2, QuietLeads
    <3>2. <<lock>> # <<>> /\ Len(<<lock>>) = 1 /\ <<lock>>[1] = lock /\ 1..(1 - 1) = {}
      OBVIOUS
    <3>. QED
      BY <3>1, <3>2 DEF StillRooted
  <2>3. ASSUME HasGuard(p)' PROVE HasGuard(p) /\ path'[p] = path[p]
    <3>1. pc[p] \in Guarding \/ (pc[p] \in Releasing /\ owns[p])
      BY <1>0, <1>1, <2>1, <2>3, QuietLeads DEF HasGuard
    <3>2. path'[p] = path[p]
      BY <1>0, <1>1, <3>1, QuietFrame
    <3>. QED
      BY <3>1, <3>2 DEF HasGuard
  <2>. QED
    BY <1>0, <2>1, <2>2, <2>3
<1>2. CASE TakeGuard(p)
  <2>1. /\ path' = path /\ Walking(p)
        /\ \/ guards' = guards /\ pc'[p] = "holder"
           \/ /\ Taken(path[p]) = {} /\ guards' = guards \cup {Guard(path[p], p)}
              /\ pc'[p] \in {"protectCheck", "verify"}
    BY <1>0, <1>2 DEF TakeGuard, At, Goto, locals, TypeOK, Walking
  <2>2. StillRooted(path[p])
    BY <1>0, <2>1, RootedStays
  <2>3. pc'[p] = "holder" => ~HasGuard(p)'
    BY DEF HasGuard, Guarding, Releasing
  <2>. QED
    BY <1>2, <2>1, <2>2, <2>3
<1>3. CASE ReadHolder(p) \/ JudgeHolder(p)
  <2>1. guards' = guards
    BY <1>0, <1>3, Recovers, Proceeds DEF files
  <2>2. Walking(p) /\ ~owns[p]
    BY <1>0, <1>3 DEF ReadHolder, JudgeHolder, At, Walking, Releasing
  <2>3. CASE Recovering(p)
    <3>1. pc'[p] \in {"protect", "release", "leave"} /\ ~owns'[p]
      BY <1>0, <2>2, <2>3, Recovers
    <3>2. ~Walking(p)' /\ ~HasGuard(p)'
      BY <3>1 DEF Walking, HasGuard, Guarding
    <3>. QED
      BY <2>1, <3>2
  <2>4. CASE ~Recovering(p)
    <3>1. \/ pc[p] = "holder" /\ pc'[p] = "judge" /\ path' = path
          \/ /\ pc[p] = "judge" /\ pc'[p] = "guard" /\ ~Alive(holder[p])
             /\ path'[p] = Append(path[p], holder[p])
      BY <1>0, <1>3, <2>4, Proceeds
    <3>2. Rooted(path'[p])
      BY <1>0, <2>2, <3>1, JudgedRooted DEF At
    <3>3. StillRooted(path'[p])
      BY <1>0, <2>1, <3>2, RootedStays
    <3>4. ~HasGuard(p)'
      BY <3>1 DEF HasGuard, Guarding, Releasing
    <3>. QED
      BY <2>1, <3>3, <3>4
  <2>. QED
    BY <2>3, <2>4
<1>4. CASE Unguard(p) \/ ReleaseGuard(p)
  <2>1. /\ guards' = guards \/ guards' = guards \ {Guard(path[p], p)}
        /\ pc'[p] \in {"clearEndpoint", "leave"}
    BY <1>0, <1>4 DEF Unguard, ReleaseGuard, Goto, TypeOK
  <2>2. ~Walking(p)' /\ ~HasGuard(p)'
    BY <2>1 DEF Walking, HasGuard, Guarding, Releasing
  <2>. QED
    BY <2>1, <2>2
<1>5. CASE ProtectCheck(p)
  <2>1. /\ pc[p] = "protectCheck"
        /\ \/ guards' = guards /\ path' = path /\ pc'[p] = "removeEndpoint"
           \/ guards' = guards \ {Guard(path[p], p)} /\ pc'[p] = "release" /\ owns' = owns
    BY <1>0, <1>5 DEF ProtectCheck, At, Goto, TypeOK
  <2>2. HasGuard(p) /\ ~owns[p]
    BY <1>0, <2>1 DEF HasGuard, Guarding, Releasing
  <2>3. ~Walking(p)'
    BY <2>1 DEF Walking
  <2>4. pc'[p] = "release" /\ owns' = owns => ~HasGuard(p)'
    BY <2>2 DEF HasGuard, Guarding
  <2>. QED
    BY <1>0, <2>1, <2>2, <2>3, <2>4
<1>6. CASE Exit(p) \/ Crash(p)
  <2>1. guards' = guards /\ pc'[p] \in {"exited", "dead"}
    BY <1>0, <1>6 DEF Exit, Crash, End, Goto, TypeOK, files
  <2>2. ~Walking(p)' /\ ~HasGuard(p)'
    BY <2>1 DEF Walking, HasGuard, Guarding, Releasing
  <2>. QED
    BY <2>1, <2>2
<1>. QED
  BY <1>1, <1>2, <1>3, <1>4, <1>5, <1>6 DEF Moves, Step, Quiet

LEMMA ChainKept ==
  ASSUME IInv, Chain, Closes, Judged, NEW p \in Procs, Moves(p)
  PROVE  Chain'
<1> DEFINE mine == Guard(path[p], p)
<1>0. TypeOK /\ mine.path = path[p] /\ mine.holder = p
  BY DEF IInv, Guard
<1>1. /\ \/ guards' = guards
         \/ guards' = guards \ {mine}
         \/ TakeGuard(p) /\ Taken(path[p]) = {} /\ guards' = guards \cup {mine}
      /\ Walking(p)' => StillRooted(path'[p])
      /\ HasGuard(p)' => Guard(path'[p], p) \in guards'
  BY GuardMoves
<1>. HIDE DEF mine
<1>2. guards \ {mine} \subseteq guards'
  BY <1>1
<1>3. ASSUME NEW s, Rooted(s) PROVE StillRooted(s)
  BY <1>0, <1>2, <1>3, RootedStays DEF mine
<1>4. guards' # guards /\ ~(guards' = guards \ {mine}) => Rooted(path[p]) /\ path[p] \in Seq(Locks \cup Procs)
  BY <1>0, <1>1 DEF TakeGuard, At, Chain, Walking, TypeOK
<1>5. ASSUME NEW g \in guards' PROVE StillRooted(g.path)
  <2>1. CASE g \in guards
    BY <1>3, <2>1 DEF Chain
  <2>2. CASE g \notin guards
    BY <1>0, <1>1, <1>3, <1>4, <2>2
  <2>. QED
    BY <2>1, <2>2
<1>6. ASSUME NEW q \in Procs, Walking(q)' PROVE StillRooted(path'[q])
  <2>1. CASE q = p
    BY <1>1, <1>6, <2>1
  <2>2. CASE q # p
    <3>1. path'[q] = path[q] /\ Walking(q)
      BY <1>0, <1>6, <2>2, MovesAlone DEF Walking
    <3>. QED
      BY <1>3, <3>1 DEF Chain
  <2>. QED
    BY <2>1, <2>2
<1>7. ASSUME NEW q \in Procs, HasGuard(q)' PROVE Guard(path'[q], q) \in guards'
  <2>1. CASE q = p
    BY <1>1, <1>7, <2>1
  <2>2. CASE q # p
    <3>1. path'[q] = path[q] /\ HasGuard(q)
      BY <1>0, <1>7, <2>2, MovesAlone DEF HasGuard
    <3>2. Guard(path[q], q) \in guards /\ Guard(path[q], q) # mine
      BY <1>0, <2>2, <3>1 DEF Chain, Guard
    <3>. QED
      BY <1>2, <3>1, <3>2
  <2>. QED
    BY <2>1, <2>2
<1>8. ASSUME NEW g \in guards', NEW h \in guards', g.path[1] = h.path[1], Len(g.path) = Len(h.path)
      PROVE  g = h
  <2>1. CASE g \in guards /\ h \in guards
    BY <1>8, <2>1 DEF Chain
  <2>2. ASSUME NEW k \in guards, k.path[1] = mine.path[1], Len(k.path) = Len(mine.path), mine \notin guards,
               mine \in guards'
        PROVE  FALSE
    <3>1. Taken(path[p]) = {} /\ Rooted(path[p]) /\ path[p] \in Seq(Locks \cup Procs)
      BY <1>1, <1>4, <2>2
    <3>2. k.path = path[p]
      BY <1>0, <2>2, <3>1, SameName
    <3>. QED
      BY <3>1, <3>2 DEF Taken
  <2>3. (g \in guards \/ g = mine) /\ (h \in guards \/ h = mine)
    BY <1>1
  <2>. QED
    BY <1>8, <2>1, <2>2, <2>3
<1>9. (\A g \in guards : Rooted(g.path))' /\ (\A q \in Procs : Walking(q) => Rooted(path[q]))'
  BY <1>5, <1>6 DEF StillRooted, Rooted, At
<1>. QED
  BY <1>7, <1>8, <1>9 DEF Chain

LEMMA InitLockInv == Init => LockInv
<1> SUFFICES ASSUME Init PROVE LockInv
  OBVIOUS
<1>1. guards = {} /\ \A p \in Procs : pc[p] = "idle" /\ ~closing[p] /\ ~owns[p]
  BY DEF Init
<1>2. Chain /\ Condemned /\ Closes
  BY <1>1 DEF Chain, Walking, HasGuard, Guarding, Releasing, Condemned, Closes, Stopping, Alive, At
<1>3. LockKept /\ Discovered
  BY <1>1 DEF LockKept, Holding, Startup, Discovered, At
<1>. QED
  BY <1>2, <1>3, IInvInit DEF LockInv

LEMMA NextLockInv ==
  ASSUME LockInv, Judged, [Next]_vars
  PROVE  LockInv'
<1>1. CASE UNCHANGED vars
  <2>1. UNCHANGED <<lock, guards, endpoint, token, pc, path, holder, closing, owns>>
    BY <1>1 DEF vars, files, locals
  <2>2. IInv'
    BY <1>1, IInvStep DEF LockInv
  <2>3. Chain'
    BY <2>1 DEF LockInv, Chain, Rooted, Walking, HasGuard, At
  <2>4. \A o : Alive(o) <=> StillAlive(o)
    BY <2>1 DEF Alive, StillAlive
  <2>5. Condemned'
    BY <2>1, <2>4 DEF LockInv, Condemned, Alive, StillAlive, At
  <2>6. Closes' /\ LockKept' /\ Discovered'
    BY <2>1 DEF LockInv, Closes, LockKept, Holding, Mine, Discovered, Alive, At
  <2>. QED
    BY <2>2, <2>3, <2>5, <2>6 DEF LockInv
<1>2. ASSUME NEW p \in Procs, Moves(p)
      PROVE  LockInv'
  <2>1. IInv /\ TypeOK /\ Chain /\ Condemned /\ Closes /\ LockKept /\ Discovered
    BY DEF LockInv, IInv
  <2>2. IInv'
    BY <1>2, <2>1, IInvStep DEF Moves, Next
  <2>. QED
    BY <1>2, <2>1, <2>2, ChainKept, CondemnedKept, ClosesKept, LockKeptOn, DiscoveredKept DEF LockInv
<1>. QED
  BY <1>1, <1>2 DEF Next, Moves

\* While every dead holder is judged with its guard still there, a process that
\* holds the lock keeps it, for any number of processes, recoveries and
\* crashes. (lock.ts)
THEOREM LockKeptWhileJudged == Spec /\ []Judged => []LockKept
<1>1. LockInv /\ Judged /\ [Next]_vars => LockInv'
  BY NextLockInv
<1>2. LockInv => LockKept
  BY DEF LockInv
<1>. QED
  BY <1>1, <1>2, InitLockInv, PTL DEF Spec

\* And nobody else touches what the running daemon has published.
THEOREM DiscoveryIntactWhileJudged == Spec /\ []Judged => []DiscoveryIntact
<1>1. LockInv /\ Judged /\ [Next]_vars => LockInv'
  BY NextLockInv
<1>2. LockInv => DiscoveryIntact
  BY DEF LockInv, Discovered, DiscoveryIntact, At
<1>. QED
  BY <1>1, <1>2, InitLockInv, PTL DEF Spec

\* So at most one process believes that it is the daemon. (lock.ts, acquireLock)
THEOREM OneDaemonWhileJudged == Spec /\ []Judged => []OneDaemon
<1>1. LockKept => OneDaemon
  BY DEF LockKept, OneDaemon, Mine
<1>. QED
  BY <1>1, LockKeptWhileJudged, PTL

-----------------------------------------------------------------------------
(* The queue of a store *)

\* What the steps do to the line.

\* The turn of a request, and what it means that it is in the line.
LEMMA TurnInLine ==
  ASSUME QueueTypeOK, NEW r \in Requests
  PROVE  /\ Turn(r) \in Turns /\ Turn(r)[1] = r /\ Turn(r)[2] = turn[r]
         /\ Store(Turn(r)) = StoreOf[r] /\ StoreOf[r] \in Stores
         /\ Turn(r) \in Line <=> stage[r] \in Queued
         /\ Turn(r) \in Inside <=> stage[r] = "running"
  BY StoreQueueAssumption DEF QueueTypeOK, Turn, Turns, Store, Line, Inside

\* A turn in the line is that of its request.
LEMMA LineIsTurns ==
  ASSUME QueueTypeOK, NEW t \in Line
  PROVE  /\ t \in Turns /\ t[1] \in Requests /\ t = Turn(t[1])
         /\ stage[t[1]] \in Queued /\ Store(t) \in Stores
  BY StoreQueueAssumption DEF QueueTypeOK, Turn, Turns, Line, Store

\* A request that joins adds its turn.
LEMMA LineAfterJoin ==
  ASSUME QueueTypeOK, NEW r \in Requests, Join(r)
  PROVE  Line' = Line \cup {Turn(r)} /\ Inside' = Inside
  BY DEF Join, MoveTo, QueueTypeOK, Turn, Turns, Line, Inside, Queued

\* A request that enters goes inside.
LEMMA LineAfterEnter ==
  ASSUME QueueTypeOK, NEW r \in Requests, Enter(r)
  PROVE  Line' = Line /\ Inside' = Inside \cup {Turn(r)}
  BY DEF Enter, MoveTo, promises, QueueTypeOK, Turn, Turns, Line, Inside, Queued

\* A request that leaves takes its turn out, whether it retries or not.
LEMMA LineAfterLeave ==
  ASSUME QueueTypeOK, NEW r \in Requests, Leave(r)
  PROVE  Line' = Line \ {Turn(r)} /\ Inside' = Inside \ {Turn(r)}
  BY DEF Leave, MoveTo, QueueTypeOK, Turn, Turns, Line, Inside, Queued

\* Arrivals and refusals do not touch it.
LEMMA LineAfterOther ==
  ASSUME QueueTypeOK, NEW r \in Requests, Arrive(r) \/ Refuse(r)
  PROVE  Line' = Line /\ Inside' = Inside
  BY DEF Arrive, Refuse, MoveTo, promises, QueueTypeOK, Turn, Turns, Line, Inside, Queued
-----------------------------------------------------------------------------
\* Types are preserved.
LEMMA QueueTypeStep == QueueTypeOK /\ [QueueNext]_queueVars => QueueTypeOK'
<1> SUFFICES ASSUME QueueTypeOK, [QueueNext]_queueVars PROVE QueueTypeOK'
  OBVIOUS
<1>1. ASSUME NEW r \in Requests, Arrive(r) \/ Refuse(r) PROVE QueueTypeOK'
  BY <1>1 DEF Arrive, Refuse, MoveTo, promises, QueueTypeOK
<1>2. ASSUME NEW r \in Requests, Join(r) PROVE QueueTypeOK'
  <2>1. Line \subseteq Turns
    BY DEF Line
  <2>. QED
    BY <1>2, <2>1, TurnInLine DEF Join, MoveTo, QueueTypeOK
<1>3. ASSUME NEW r \in Requests, Enter(r) PROVE QueueTypeOK'
  BY <1>3 DEF Enter, MoveTo, promises, QueueTypeOK
<1>4. ASSUME NEW r \in Requests, Leave(r) PROVE QueueTypeOK'
  BY <1>4, TurnInLine DEF Leave, ReleaseTurn, Forget, MoveTo, QueueTypeOK
<1>5. ASSUME NEW t \in Turns, Settle(t) PROVE QueueTypeOK'
  BY <1>5 DEF Settle, QueueTypeOK
<1>6. CASE Stop \/ CloseListener \/ CloseStores
  BY <1>6 DEF Stop, CloseListener, CloseStores, promises, QueueTypeOK
<1>7. CASE UNCHANGED queueVars
  BY <1>7 DEF queueVars, promises, QueueTypeOK
<1>. QED
  BY <1>1, <1>2, <1>3, <1>4, <1>5, <1>6, <1>7 DEF QueueNext, Work

\* A request that joins keeps the order of its line.
LEMMA JoinStep ==
  ASSUME LineInv, QueueTypeOK', NEW r \in Requests, Join(r)
  PROVE  LineInv'
<1> DEFINE s == StoreOf[r]
<1>0. PICK t \in Turns : t = Turn(r)
  BY TurnInLine DEF LineInv
<1>1. /\ t \notin Line /\ t \notin released /\ Store(t) = s /\ s \in Stores
      /\ Line' = Line \cup {t} /\ Inside' = Inside /\ released' = released
  BY <1>0, TurnInLine, LineAfterJoin DEF LineInv, Fresh, Join, Queued
<1>2. /\ previous' = [previous EXCEPT ![t] = queues[s]]
      /\ queues' = [queues EXCEPT ![s] = t]
      /\ ahead' = [ahead EXCEPT ![t] = {u \in Line : Store(u) = s}]
  BY <1>0 DEF Join
<1>3. /\ \A u \in Line : u \in Turns /\ u # t /\ ahead'[u] = ahead[u] /\ previous'[u] = previous[u]
      /\ \A u \in released : u # t /\ ahead'[u] = ahead[u]
      /\ ahead'[t] = {u \in Line : Store(u) = s} /\ previous'[t] = queues[s]
  BY <1>1, <1>2, LineIsTurns DEF LineInv, QueueTypeOK
<1> HIDE DEF s
<1>4. Fresh'
  <2>1. stage' = [stage EXCEPT ![r] = "waiting"] /\ turn' = turn
    BY DEF Join, MoveTo
  <2>. QED
    BY <1>0, <1>1, <2>1 DEF LineInv, Fresh, QueueTypeOK, Turn
<1>5. TailIsLast'
  <2>1. ASSUME NEW x \in Stores PROVE EndsLine(queues[x], x)'
    <3>1. CASE x = s
      <4>1. queues'[x] = t /\ t # NoTurn
        BY <1>2, <3>1, StoreQueueAssumption DEF LineInv, QueueTypeOK
      <4>. QED
        BY <1>1, <1>3, <3>1, <4>1 DEF EndsLine
    <3>2. CASE x # s
      <4>1. queues'[x] = queues[x] /\ EndsLine(queues[x], x)
        BY <1>2, <3>2 DEF LineInv, QueueTypeOK, TailIsLast
      <4>. QED
        BY <1>1, <1>3, <3>2, <4>1 DEF EndsLine
    <3>. QED
      BY <3>1, <3>2
  <2>. QED
    BY <2>1 DEF TailIsLast
<1>6. Chained'
  <2>1. ASSUME NEW u \in Line PROVE Follows(u, previous[u])'
    BY <1>1, <1>3, <2>1 DEF LineInv, Chained, Follows
  <2>2. Follows(t, previous[t])'
    <3>1. EndsLine(queues[s], s)
      BY <1>1 DEF LineInv, TailIsLast
    <3>. QED
      BY <1>1, <1>3, <3>1 DEF EndsLine, Follows
  <2>. QED
    BY <1>1, <2>1, <2>2 DEF Chained
<1>7. RunsFirst'
  <2>1. Inside \subseteq Line
    BY DEF Inside, Line, Queued
  <2>. QED
    BY <1>1, <1>3, <2>1 DEF LineInv, RunsFirst
<1>8. Ordered'
  BY <1>1, <1>3 DEF LineInv, Ordered
<1>. QED
  BY <1>4, <1>5, <1>6, <1>7, <1>8 DEF LineInv

\* So does one that leaves: nobody was ahead of it.
LEMMA LeaveStep ==
  ASSUME LineInv, QueueTypeOK', NEW r \in Requests, Leave(r)
  PROVE  LineInv'
<1>0. PICK t \in Turns : t = Turn(r)
  BY TurnInLine DEF LineInv
<1>1. /\ t \in Line /\ t \in Inside /\ Line' = Line \ {t} /\ Inside' = Inside \ {t}
      /\ released' = released \cup {t} /\ previous' = previous
  BY <1>0, TurnInLine, LineAfterLeave DEF LineInv, Leave, ReleaseTurn, Queued
<1>2. \A u \in Turns : ahead'[u] = ahead[u] \ {t}
  BY <1>0 DEF Leave, ReleaseTurn
<1>3. \A u \in Line \cup released : u \in Turns
  BY DEF LineInv, QueueTypeOK, Line
<1>4. ahead[t] = {}
  BY <1>1 DEF LineInv, RunsFirst
<1>5. Inside \subseteq Line
  BY DEF Inside, Line, Queued
<1>6. Fresh'
  <2>1. \A x \in released' : x \notin Line'
    BY <1>1 DEF LineInv, Fresh
  <2>2. CASE turn' = turn /\ stage' = [stage EXCEPT ![r] = "done"]
    BY <1>0, <1>1, <2>1, <2>2 DEF LineInv, Fresh, QueueTypeOK, Turn
  <2>3. CASE /\ turn[r] = "call" /\ turn' = [turn EXCEPT ![r] = "retry"]
             /\ stage' = [stage EXCEPT ![r] = "resolving"]
    BY <1>0, <1>1, <2>1, <2>3 DEF LineInv, Fresh, QueueTypeOK, Turn
  <2>. QED
    BY <2>2, <2>3 DEF Leave, MoveTo
<1>7. TailIsLast'
  <2>1. ASSUME NEW x \in Stores PROVE EndsLine(queues[x], x)'
    <3>1. EndsLine(queues[x], x)
      BY DEF LineInv, TailIsLast
    <3>2. Store(t) \in Stores
      BY <1>1, LineIsTurns DEF LineInv
    <3>3. queues' = [queues EXCEPT ![Store(t)] =
                       IF queues[Store(t)] = t THEN NoTurn ELSE queues[Store(t)]]
      BY <1>0 DEF Leave, ReleaseTurn, Forget
    <3>4. CASE queues[x] = t
      <4>1. x = Store(t) /\ queues'[x] = NoTurn
        BY <1>1, <3>1, <3>2, <3>3, <3>4, StoreQueueAssumption DEF EndsLine, LineInv, QueueTypeOK
      <4>. QED
        BY <1>1, <1>4, <3>1, <3>4, <4>1, StoreQueueAssumption DEF EndsLine
    <3>5. CASE queues[x] # t
      <4>1. queues'[x] = queues[x]
        BY <3>2, <3>3, <3>5 DEF LineInv, QueueTypeOK
      <4>. QED
        BY <1>1, <1>2, <1>3, <3>1, <3>5, <4>1 DEF EndsLine
    <3>. QED
      BY <3>4, <3>5
  <2>. QED
    BY <2>1 DEF TailIsLast
<1>8. Chained'
  <2>1. ASSUME NEW u \in Line' PROVE Follows(u, previous[u])'
    <3>1. Follows(u, previous[u]) /\ u \in Turns
      BY <1>1, <1>3, <2>1 DEF LineInv, Chained
    <3>. QED
      BY <1>1, <1>2, <1>3, <3>1 DEF Follows
  <2>. QED
    BY <2>1 DEF Chained
<1>9. RunsFirst'
  BY <1>1, <1>2, <1>3, <1>4, <1>5 DEF LineInv, RunsFirst
<1>10. Ordered'
  BY <1>1, <1>2, <1>3 DEF LineInv, Ordered
<1>. QED
  BY <1>6, <1>7, <1>8, <1>9, <1>10 DEF LineInv

\* A request enters only when nobody is ahead of it.
LEMMA NobodyAhead ==
  ASSUME LineInv, NEW r \in Requests, Enter(r)
  PROVE  Turn(r) \in Line /\ Turn(r) \notin Inside /\ ahead[Turn(r)] = {}
<1>1. Turn(r) \in Line /\ Turn(r) \notin Inside /\ Resolved(previous[Turn(r)])
  BY TurnInLine DEF LineInv, Enter, Queued
<1>2. previous[Turn(r)] = NoTurn \/ (previous[Turn(r)] \in released /\ ahead[previous[Turn(r)]] = {})
  BY <1>1 DEF LineInv, QueueTypeOK, Resolved, RunsFirst
<1>3. Follows(Turn(r), previous[Turn(r)])
  BY <1>1 DEF LineInv, Chained
<1>. QED
  BY <1>1, <1>2, <1>3 DEF Follows, LineInv, Fresh

LEMMA EnterStep ==
  ASSUME LineInv, QueueTypeOK', NEW r \in Requests, Enter(r)
  PROVE  LineInv'
<1>0. PICK t \in Turns : t = Turn(r)
  BY TurnInLine DEF LineInv
<1>1. /\ Line' = Line /\ Inside' = Inside \cup {t} /\ ahead[t] = {}
      /\ UNCHANGED <<turn, queues, previous, released, ahead>>
      /\ stage' = [stage EXCEPT ![r] = "running"]
  BY <1>0, LineAfterEnter, NobodyAhead DEF LineInv, Enter, MoveTo, promises
<1>2. Fresh'
  BY <1>1 DEF LineInv, Fresh, QueueTypeOK, Turn
<1>3. TailIsLast' /\ Chained' /\ RunsFirst' /\ Ordered'
  BY <1>1 DEF LineInv, TailIsLast, EndsLine, Chained, Follows, RunsFirst, Ordered
<1>. QED
  BY <1>2, <1>3 DEF LineInv

\* Steps that touch neither the line nor the promises but for one that settles.
LEMMA OtherStep ==
  ASSUME LineInv, QueueTypeOK', [QueueNext]_queueVars,
         UNCHANGED <<turn, queues, previous, released, ahead>>,
         Line' = Line, Inside' = Inside,
         \A r \in Requests : stage'[r] \in {"idle", "resolving"} => stage[r] \in {"idle", "resolving"}
  PROVE  LineInv'
<1>1. Fresh'
  BY DEF LineInv, Fresh, Turn
<1>2. TailIsLast' /\ Chained' /\ RunsFirst' /\ Ordered'
  BY DEF LineInv, TailIsLast, EndsLine, Chained, Follows, RunsFirst, Ordered
<1>. QED
  BY <1>1, <1>2 DEF LineInv

LEMMA LineInvInit == QueueInit => LineInv
<1> SUFFICES ASSUME QueueInit PROVE LineInv
  OBVIOUS
<1>1. Line = {} /\ Inside = {}
  BY DEF QueueInit, Line, Inside, Turns, Queued
<1>2. QueueTypeOK
  BY DEF QueueInit, QueueTypeOK
<1>. QED
  BY <1>1, <1>2 DEF QueueInit, LineInv, Fresh, TailIsLast, EndsLine, Chained, RunsFirst, Ordered

LEMMA LineInvStep == LineInv /\ [QueueNext]_queueVars => LineInv'
<1> SUFFICES ASSUME LineInv, [QueueNext]_queueVars PROVE LineInv'
  OBVIOUS
<1>0. QueueTypeOK /\ QueueTypeOK'
  BY QueueTypeStep DEF LineInv
<1>1. ASSUME NEW r \in Requests, Arrive(r) \/ Refuse(r) PROVE LineInv'
  <2>1. Line' = Line /\ Inside' = Inside
    BY <1>0, <1>1, LineAfterOther
  <2>. QED
    BY <1>0, <1>1, <2>1, OtherStep DEF Arrive, Refuse, MoveTo, promises, QueueTypeOK
<1>2. ASSUME NEW r \in Requests, Join(r) PROVE LineInv'
  BY <1>0, <1>2, JoinStep
<1>3. ASSUME NEW r \in Requests, Enter(r) PROVE LineInv'
  BY <1>0, <1>3, EnterStep
<1>4. ASSUME NEW r \in Requests, Leave(r) PROVE LineInv'
  BY <1>0, <1>4, LeaveStep
<1>5. CASE UNCHANGED <<stage, turn, queues, previous, released, ahead>>
  <2>1. Line' = Line /\ Inside' = Inside
    BY <1>5 DEF Line, Inside
  <2>. QED
    BY <1>0, <1>5, <2>1, OtherStep
<1>. QED
  BY <1>1, <1>2, <1>3, <1>4, <1>5
     DEF QueueNext, Work, Settle, Stop, CloseListener, CloseStores, queueVars, promises

\* The turns of every store are ordered, chained and taken in order.
THEOREM LineInvariant == QueueSpec => []LineInv
<1>. QED
  BY LineInvInit, LineInvStep, PTL DEF QueueSpec

\* One request at a time works on a store.
THEOREM OneTurnAlways == QueueSpec => []OneTurn
<1>1. LineInv => OneTurn
  <2> SUFFICES ASSUME LineInv, NEW q \in Requests, NEW r \in Requests,
                      stage[q] = "running", stage[r] = "running", StoreOf[q] = StoreOf[r], q # r
               PROVE  FALSE
    BY DEF OneTurn
  <2>1. Turn(q) \in Line /\ Turn(r) \in Line /\ Turn(q) \in Inside /\ Turn(r) \in Inside
    BY TurnInLine DEF LineInv, Queued
  <2>2. Turn(q) # Turn(r) /\ Store(Turn(q)) = Store(Turn(r))
    BY TurnInLine DEF LineInv
  <2>. QED
    BY <2>1, <2>2 DEF LineInv, Ordered, RunsFirst
<1>. QED
  BY <1>1, LineInvariant, PTL

\* The map holds an entry exactly for the stores with a turn in line.
THEOREM QueueAlwaysForgotten == QueueSpec => []QueueForgotten
<1>1. LineInv => QueueForgotten
  BY DEF LineInv, TailIsLast, EndsLine, QueueForgotten
<1>. QED
  BY <1>1, LineInvariant, PTL

\* The stores are closed only when all requests, and their retries, have ended.
THEOREM StoresAlwaysOutliveWork == QueueSpec => []StoresOutliveWork
<1>1. QueueInit => StoresOutliveWork
  BY DEF QueueInit, StoresOutliveWork
<1>2. QueueTypeOK /\ StoresOutliveWork /\ [QueueNext]_queueVars => StoresOutliveWork'
  <2> SUFFICES ASSUME QueueTypeOK, StoresOutliveWork, [QueueNext]_queueVars PROVE StoresOutliveWork'
    OBVIOUS
  <2>1. ASSUME NEW r \in Requests, Arrive(r) \/ Refuse(r) \/ Join(r) \/ Enter(r) \/ Leave(r)
        PROVE  StoresOutliveWork'
    BY <2>1 DEF Arrive, Refuse, Join, Enter, Leave, StoresOutliveWork
  <2>2. CASE CloseStores
    BY <2>2 DEF CloseStores, InFlight, StoresOutliveWork
  <2>3. CASE UNCHANGED stage /\ (server' = server \/ server' # "closed")
    BY <2>3 DEF StoresOutliveWork
  <2>4. \/ \E r \in Requests : Arrive(r) \/ Refuse(r) \/ Join(r) \/ Enter(r) \/ Leave(r)
        \/ CloseStores
        \/ UNCHANGED stage /\ (server' = server \/ server' # "closed")
    BY DEF QueueNext, Work, Settle, Stop, CloseListener, queueVars
  <2>. QED
    BY <2>1, <2>2, <2>3, <2>4
<1>3. LineInv => QueueTypeOK
  BY DEF LineInv
<1>. QED
  BY <1>1, <1>2, <1>3, LineInvariant, PTL DEF QueueSpec

\* One request at a time uses a store, and none once it is closed.
THEOREM StoresUsedInTurn == QueueSpec => []StoreUse
<1>1. OneTurn /\ StoresOutliveWork => StoreUse
  BY DEF StoreUse
<1>. QED
  BY <1>1, OneTurnAlways, StoresAlwaysOutliveWork, PTL

\* The chains of promises serve each store in the order of joining.
THEOREM QueueImplements == QueueSpec => Implements
<1>1. QueueInit => Promise!Init
  BY DEF QueueInit, Promise!Init, Line, Inside, Turns, Queued
<1>2. LineInv /\ [QueueNext]_queueVars => [Promise!Next]_Promise!vars
  <2> SUFFICES ASSUME LineInv, [QueueNext]_queueVars PROVE [Promise!Next]_Promise!vars
    OBVIOUS
  <2>0. QueueTypeOK
    BY DEF LineInv
  <2>1. ASSUME NEW r \in Requests, Arrive(r) \/ Refuse(r) PROVE UNCHANGED Promise!vars
    BY <2>0, <2>1, LineAfterOther DEF Arrive, Refuse, promises, Promise!vars
  <2>2. ASSUME NEW r \in Requests, Join(r) PROVE Promise!Next
    <3>1. Promise!Join(Turn(r))
      <4>1. Turn(r) \notin Line /\ Line' = Line \cup {Turn(r)} /\ Inside' = Inside
        BY <2>0, <2>2, LineAfterJoin, TurnInLine DEF Join, Queued
      <4>2. Store(Turn(r)) = StoreOf[r]
        BY <2>0, TurnInLine
      <4>3. ahead' = [ahead EXCEPT ![Turn(r)] = {u \in Line : Store(u) = Store(Turn(r))}]
        BY <2>2, <4>2 DEF Join
      <4>. QED
        BY <4>1, <4>3 DEF Promise!Join
    <3>. QED
      BY <2>0, <3>1, TurnInLine DEF Promise!Next
  <2>3. ASSUME NEW r \in Requests, Enter(r) PROVE Promise!Next
    <3>1. Promise!Enter(Turn(r))
      BY <2>0, <2>3, LineAfterEnter, NobodyAhead DEF Enter, promises, Promise!Enter
    <3>. QED
      BY <2>0, <3>1, TurnInLine DEF Promise!Next
  <2>4. ASSUME NEW r \in Requests, Leave(r) PROVE Promise!Next
    <3>1. Promise!Leave(Turn(r))
      BY <2>0, <2>4, LineAfterLeave, TurnInLine DEF Leave, ReleaseTurn, Promise!Leave
    <3>. QED
      BY <2>0, <3>1, TurnInLine DEF Promise!Next
  <2>5. CASE UNCHANGED <<stage, turn, ahead>>
    BY <2>5 DEF Promise!vars, Line, Inside
  <2>. QED
    BY <2>1, <2>2, <2>3, <2>4, <2>5
       DEF QueueNext, Work, Settle, Stop, CloseListener, CloseStores, queueVars, promises
<1>. QED
  BY <1>1, <1>2, LineInvariant, PTL DEF QueueSpec, Implements, Promise!Spec
=============================================================================
