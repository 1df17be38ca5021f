----------------------------- MODULE StoreQueue -----------------------------
(***************************************************************************)
(* How the daemon serves requests.  Requests on one store run one after    *)
(* the other: withStore keeps for each store the tail of a chain of        *)
(* promises, each waits for the one before it.  After a retrieval has been *)
(* answered the request takes a second turn, to retry publications.  A     *)
(* shutdown refuses new requests, drains the accepted ones, and closes the *)
(* stores.                                                                 *)
(*                                                                         *)
(* JavaScript runs one callback at a time: a step is what runs between two *)
(* awaits.  The promise of a turn resolves in a step of its own.  What an  *)
(* operation does with the store is left out, as are requests that name no *)
(* store (health, identity); the stop request is the action Stop.          *)
(***************************************************************************)
EXTENDS FiniteSets

CONSTANTS
  Requests,
  Stores,
  StoreOf,    \* the canonical path of the store each request names
  Retrieval,  \* requests that retry publications after their response
  NoTurn

Turns == Requests \X {"call", "retry"}
Store(t) == StoreOf[t[1]]

ASSUME StoreQueueAssumption ==
  /\ StoreOf \in [Requests -> Stores]
  /\ Retrieval \subseteq Requests
  /\ NoTurn \notin Turns

VARIABLES
  stage,     \* where each request is
  turn,      \* which of its turns a request is at
  queues,    \* the tail promise of each store, or NoTurn
  previous,  \* the promise each turn waits for, or NoTurn
  released,  \* turns whose completion is resolved
  settled,   \* turns whose tail promise is resolved
  ahead,     \* history: turns of the store that joined before and have not left
  server     \* open, closing, draining or closed

promises == <<queues, previous, released, settled, ahead>>
queueVars == <<stage, turn, promises, server>>

QueueInit ==
  /\ stage = [r \in Requests |-> "idle"]
  /\ turn = [r \in Requests |-> "call"]
  /\ queues = [s \in Stores |-> NoTurn]
  /\ previous = [t \in Turns |-> NoTurn]
  /\ released = {} /\ settled = {}
  /\ ahead = [t \in Turns |-> {}]
  /\ server = "open"

Turn(r) == <<r, turn[r]>>
Queued == {"waiting", "running"}
Line == {t \in Turns : turn[t[1]] = t[2] /\ stage[t[1]] \in Queued}
Inside == {t \in Turns : turn[t[1]] = t[2] /\ stage[t[1]] = "running"}
Resolved(p) == p = NoTurn \/ p \in settled

MoveTo(r, s) == stage' = [stage EXCEPT ![r] = s]

-----------------------------------------------------------------------------
(* requestListener and handle *)

\* A request is accepted or, once the shutdown has begun, answered with 503.
Arrive(r) ==
  /\ stage[r] = "idle" /\ server \in {"open", "closing"}
  /\ MoveTo(r, IF server = "open" THEN "resolving" ELSE "done")
  /\ UNCHANGED <<turn, promises, server>>

\* The request is invalid, its directory is missing, or the path of its store
\* cannot be resolved; a retry only logs that.
Refuse(r) ==
  /\ stage[r] = "resolving"
  /\ MoveTo(r, "done")
  /\ UNCHANGED <<turn, promises, server>>

-----------------------------------------------------------------------------
(* withStore *)

\* The path is resolved: from the read of the map to the wait is one step.
Join(r) ==
  LET t == Turn(r) s == StoreOf[r] IN
  /\ stage[r] = "resolving"
  /\ previous' = [previous EXCEPT ![t] = queues[s]]
  /\ queues' = [queues EXCEPT ![s] = t]
  /\ ahead' = [ahead EXCEPT ![t] = {u \in Line : Store(u) = s}]
  /\ MoveTo(r, "waiting")
  /\ UNCHANGED <<turn, released, settled, server>>

\* Faulty variant: whoever finds the store free goes first.
EnterWhenFree(r) ==
  /\ stage[r] = "waiting" /\ ~\E t \in Inside : Store(t) = StoreOf[r]
  /\ MoveTo(r, "running")
  /\ UNCHANGED <<turn, promises, server>>

\* await previous
Enter(r) ==
  /\ stage[r] = "waiting" /\ Resolved(previous[Turn(r)])
  /\ MoveTo(r, "running")
  /\ UNCHANGED <<turn, promises, server>>

\* previous.then(() => completion)
Settle(t) ==
  /\ t \in released \ settled /\ Resolved(previous[t])
  /\ settled' = settled \cup {t}
  /\ UNCHANGED <<stage, turn, queues, previous, released, ahead, server>>

\* Faulty variant: the entry of the store goes whoever has joined since.
ForgetAlways(t) == [queues EXCEPT ![Store(t)] = NoTurn]

\* Only the last turn of a store takes its entry out of the map.
Forget(t) ==
  [queues EXCEPT ![Store(t)] = IF queues[Store(t)] = t THEN NoTurn ELSE queues[Store(t)]]

\* finally, after the operation or its error
ReleaseTurn(t) ==
  /\ released' = released \cup {t}
  /\ queues' = Forget(t)
  /\ ahead' = [u \in Turns |-> ahead[u] \ {t}]

\* Faulty variant: the retry runs before the request has left the store.
LeaveRetrying(r) ==
  /\ stage[r] = "running"
  /\ IF r \in Retrieval /\ turn[r] = "call"
     THEN /\ turn' = [turn EXCEPT ![r] = "retry"]
          /\ MoveTo(r, "resolving")
          /\ UNCHANGED promises
     ELSE /\ ReleaseTurn(Turn(r))
          /\ MoveTo(r, "done")
          /\ UNCHANGED <<turn, previous, settled>>
  /\ UNCHANGED server

\* Faulty variant: an operation that fails does not release its turn.
LeaveOnSuccess(r) ==
  /\ stage[r] = "running"
  /\ \/ /\ MoveTo(r, "done")
        /\ UNCHANGED <<turn, promises>>
     \/ /\ MoveTo(r, "done")
        /\ ReleaseTurn(Turn(r))
        /\ UNCHANGED <<turn, previous, settled>>
     \/ /\ r \in Retrieval /\ turn[r] = "call"
        /\ ReleaseTurn(Turn(r))
        /\ turn' = [turn EXCEPT ![r] = "retry"]
        /\ MoveTo(r, "resolving")
        /\ UNCHANGED <<previous, settled>>
  /\ UNCHANGED server

\* The operation ends; a retrieval that succeeded goes on with its retry.
Leave(r) ==
  /\ stage[r] = "running"
  /\ ReleaseTurn(Turn(r))
  /\ \/ /\ MoveTo(r, "done")
        /\ UNCHANGED turn
     \/ /\ r \in Retrieval /\ turn[r] = "call"
        /\ turn' = [turn EXCEPT ![r] = "retry"]
        /\ MoveTo(r, "resolving")
  /\ UNCHANGED <<previous, settled, server>>

-----------------------------------------------------------------------------
(* close *)

InFlight == {r \in Requests : stage[r] \notin {"idle", "done"}}

\* A signal, a stop request or an error of the listener.
Stop ==
  /\ server = "open"
  /\ server' = "closing"
  /\ UNCHANGED <<stage, turn, promises>>

\* listener.close: no connection is left, although requests may be.
CloseListener ==
  /\ server = "closing"
  /\ server' = "draining"
  /\ UNCHANGED <<stage, turn, promises>>

\* service.close
CloseStores ==
  /\ server = "draining" /\ InFlight = {}
  /\ server' = "closed"
  /\ UNCHANGED <<stage, turn, promises>>

Work ==
  \/ \E r \in Requests : Join(r) \/ Enter(r) \/ Leave(r) \/ Refuse(r)
  \/ \E t \in Turns : Settle(t)
  \/ CloseListener \/ CloseStores

QueueNext == Work \/ Stop \/ \E r \in Requests : Arrive(r)

QueueSpec == QueueInit /\ [][QueueNext]_queueVars

\* Promises are resolved, operations end, and the steps of close are taken.
Fairness ==
  /\ \A r \in Requests : WF_queueVars(Join(r) \/ Refuse(r)) /\ WF_queueVars(Enter(r)) /\ WF_queueVars(Leave(r))
  /\ \A t \in Turns : WF_queueVars(Settle(t))
  /\ WF_queueVars(CloseListener) /\ WF_queueVars(CloseStores)

FairQueueSpec == QueueSpec /\ Fairness

-----------------------------------------------------------------------------
(* Properties *)

QueueTypeOK ==
  /\ stage \in [Requests -> {"idle", "resolving", "waiting", "running", "done"}]
  /\ turn \in [Requests -> {"call", "retry"}]
  /\ queues \in [Stores -> Turns \cup {NoTurn}]
  /\ previous \in [Turns -> Turns \cup {NoTurn}]
  /\ released \subseteq Turns /\ settled \subseteq released
  /\ ahead \in [Turns -> SUBSET Turns]
  /\ server \in {"open", "closing", "draining", "closed"}

\* Two requests never work on one store at the same time, whenever they join
\* and leave and however late the promises of their turns resolve.
OneTurn ==
  \A q, r \in Requests :
    stage[q] = "running" /\ stage[r] = "running" /\ StoreOf[q] = StoreOf[r] => q = r

\* The map keeps an entry for a store exactly while a turn is in its line: it
\* does not grow with the stores once used.
QueueForgotten ==
  \A s \in Stores : queues[s] = NoTurn <=> ~\E t \in Line : Store(t) = s

\* No request works on a store, or is about to, when the stores are closed:
\* the shutdown also drains the retries after a response.
StoresOutliveWork ==
  server = "closed" => \A r \in Requests : stage[r] \in {"idle", "done"}

\* A store is used by one request at a time, and by none once it is closed.
StoreUse == OneTurn /\ StoresOutliveWork

\* Every accepted request ends, its retry included.
Answered == \A r \in Requests : stage[r] = "resolving" ~> stage[r] = "done"

\* A shutdown closes the stores in the end.
Shuts == server = "closing" ~> server = "closed"

(* Why: an inductive invariant *)

\* A turn that has not joined has not been released.
Fresh ==
  /\ \A t \in released : t \notin Line
  /\ \A r \in Requests : stage[r] \in {"idle", "resolving"} => Turn(r) \notin released
  /\ \A r \in Requests : turn[r] = "call" => <<r, "retry">> \notin released

\* The tail of a store is the last turn in its line; without one it is empty.
EndsLine(q, s) ==
  IF q = NoTurn
  THEN \A u \in Line : Store(u) # s
  ELSE /\ q \in Line /\ Store(q) = s
       /\ \A u \in Line : Store(u) = s => u = q \/ u \in ahead[q]

TailIsLast == \A s \in Stores : EndsLine(queues[s], s)

\* Who is ahead of a turn is the one it waits for or ahead of that one.
Follows(t, p) ==
  /\ p # NoTurn => p \in Line \cup released
  /\ \A u \in ahead[t] : u \in Line /\ p # NoTurn /\ (u = p \/ u \in ahead[p])

Chained == \A t \in Line : Follows(t, previous[t])

\* Nobody is ahead of a turn that runs or has run.
RunsFirst == \A t \in Inside \cup released : ahead[t] = {}

\* Of two turns of a store one is ahead of the other.
Ordered ==
  \A t, u \in Line : Store(t) = Store(u) /\ t # u => t \in ahead[u] \/ u \in ahead[t]

LineInv == QueueTypeOK /\ Fresh /\ TailIsLast /\ Chained /\ RunsFirst /\ Ordered
-----------------------------------------------------------------------------
\* The chain of promises serves each store in the order of joining.
Promise == INSTANCE StoreTurns WITH
  StoreOfTurn <- Store, line <- Line, inside <- Inside

Implements == Promise!Spec
=============================================================================
