--------------------------- MODULE OpenCodePlugin ---------------------------
(***************************************************************************)
(* The OpenCode plugin (adapter-opencode/src) over its two clients.  Each  *)
(* idle event of a session takes a snapshot of the session at once and is  *)
(* ingested after the events of that session before it; dispose waits for  *)
(* these.  Each transformation of a prompt asks for the rules and the      *)
(* context of the project; nobody waits for it, and it has a client, hence *)
(* a launch, of its own.                                                   *)
(*                                                                         *)
(* Events are numbered as they arrive, and the call of an event has its    *)
(* number; the two calls of each transformation come after those.  The     *)
(* host answers with a text, or with none or an error, which end an event  *)
(* alike.  Which memories are put into a prompt is left out, and so are    *)
(* transformations that end at once (no session, no consent).              *)
(***************************************************************************)
EXTENDS OpenMembraneClient, Sequences, FiniteSets

CONSTANTS
  Sessions,
  MaxEvents,       \* bound: idle events
  MaxTransforms,   \* bound: transformations
  MaxLoad          \* bound: calls of events and transformations together

\* The calls that ask for the rules and for the context.
Retrieval(t) == {MaxEvents + 2 * t - 1, MaxEvents + 2 * t}

ASSUME PluginAssumption ==
  /\ MaxEvents \in Nat /\ MaxTransforms \in Nat /\ MaxLoad \in Nat
  /\ Calls = 1..(MaxEvents + 2 * MaxTransforms)
  /\ Clients = {"ingestion", "context"}
  /\ \A c \in Calls : ClientOf[c] = IF c <= MaxEvents THEN "ingestion" ELSE "context"

VARIABLES
  events,       \* the session of each idle event
  snapshot,     \* of each event: taking, text, or none (no text, or an error)
  task,         \* of each event: waiting, ingesting, settled
  previous,     \* the event whose task an event waits for, 0 for none
  sessions,     \* the last task of each session, 0 for none
  disposal,     \* no, waiting, done
  transforms    \* each transformation: idle, history (asked for), retrieving, over

ingestVars == <<events, snapshot, task, previous, sessions>>
pluginVars == <<ingestVars, disposal, transforms>>
vars == <<allClientVars, pluginVars>>

Arrived == 1..Len(events)
Transforms == 1..MaxTransforms

TypeOK ==
  /\ ClientTypeOK
  /\ events \in Seq(Sessions) /\ Len(events) <= MaxEvents
  /\ snapshot \in [Arrived -> {"taking", "text", "none"}]
  /\ task \in [Arrived -> {"waiting", "ingesting", "settled"}]
  /\ previous \in [Arrived -> {0} \cup Arrived]
  /\ sessions \in [Sessions -> {0} \cup Arrived]
  /\ disposal \in {"no", "waiting", "done"}
  /\ transforms \in [Transforms -> {"idle", "history", "retrieving", "over"}]

Init ==
  /\ ClientInit
  /\ events = <<>> /\ snapshot = <<>> /\ task = <<>> /\ previous = <<>>
  /\ sessions = [s \in Sessions |-> 0]
  /\ disposal = "no"
  /\ transforms = [t \in Transforms |-> "idle"]

Load == Len(events) + 2 * Cardinality({t \in Transforms : transforms[t] # "idle"})

-----------------------------------------------------------------------------
(* Ingestion *)

\* Faulty variant: events are taken after the disposal as well.
IdleEventAlways(s) ==
  /\ Len(events) < MaxEvents /\ Load + 1 <= MaxLoad
  /\ events' = Append(events, s)
  /\ snapshot' = Append(snapshot, "taking")
  /\ task' = Append(task, "waiting")
  /\ previous' = Append(previous, sessions[s])
  /\ sessions' = [sessions EXCEPT ![s] = Len(events) + 1]
  /\ UNCHANGED <<disposal, transforms, allClientVars>>

IdleEvent(s) ==
  /\ disposal = "no" /\ Len(events) < MaxEvents /\ Load + 1 <= MaxLoad
  /\ events' = Append(events, s)
  /\ snapshot' = Append(snapshot, "taking")
  /\ task' = Append(task, "waiting")
  /\ previous' = Append(previous, sessions[s])
  /\ sessions' = [sessions EXCEPT ![s] = Len(events) + 1]
  /\ UNCHANGED <<disposal, transforms, allClientVars>>

SnapshotTaken(e) ==
  /\ snapshot[e] = "taking"
  /\ \E answer \in {"text", "none"} : snapshot' = [snapshot EXCEPT ![e] = answer]
  /\ UNCHANGED <<events, task, previous, sessions, disposal, transforms, allClientVars>>

\* Faulty variant: the session is forgotten whatever waits for it.
SettleAndForget(e) ==
  /\ task' = [task EXCEPT ![e] = "settled"]
  /\ sessions' = [sessions EXCEPT ![events[e]] = 0]

\* The end of the handler; a failure is logged and otherwise ignored.
Settle(e) ==
  /\ task' = [task EXCEPT ![e] = "settled"]
  /\ sessions' = IF sessions[events[e]] = e THEN [sessions EXCEPT ![events[e]] = 0] ELSE sessions

\* The task before this one has settled and the snapshot is there.
Turn(e) ==
  /\ task[e] = "waiting" /\ snapshot[e] # "taking"
  /\ previous[e] # 0 => task[previous[e]] = "settled"
  /\ IF snapshot[e] = "text"
     THEN /\ Begin({e})
          /\ task' = [task EXCEPT ![e] = "ingesting"]
          /\ UNCHANGED sessions
     ELSE Settle(e) /\ UNCHANGED <<clientVars, missed>>
  /\ UNCHANGED <<events, snapshot, previous, disposal, transforms, daemonVars>>

Ingested(e) ==
  /\ task[e] = "ingesting" /\ calls[e].at \in Over
  /\ Settle(e)
  /\ UNCHANGED <<events, snapshot, previous, disposal, transforms, allClientVars>>

EventStep(e) == SnapshotTaken(e) \/ Turn(e) \/ Ingested(e)

-----------------------------------------------------------------------------
(* Retrieval *)

Transform(t) ==
  /\ transforms[t] = "idle" /\ disposal = "no" /\ Load + 2 <= MaxLoad
  /\ transforms' = [transforms EXCEPT ![t] = "history"]
  /\ UNCHANGED <<ingestVars, disposal, allClientVars>>

\* The host gives the recent messages, or an error.  Whether the plugin has been
\* disposed of meanwhile is not asked.
Retrieve(t) ==
  /\ transforms[t] = "history"
  /\ \/ /\ transforms' = [transforms EXCEPT ![t] = "retrieving"]
        /\ Begin(Retrieval(t))
     \/ /\ transforms' = [transforms EXCEPT ![t] = "over"]
        /\ UNCHANGED <<clientVars, missed>>
  /\ UNCHANGED <<ingestVars, disposal, daemonVars>>

\* Promise.all: both answers, or the first failure, whatever becomes of the other.
Retrieved(t) ==
  /\ transforms[t] = "retrieving"
  /\ \/ \A c \in Retrieval(t) : calls[c].at = "done"
     \/ \E c \in Retrieval(t) : calls[c].at \in {"failed", "timedOut"}
  /\ transforms' = [transforms EXCEPT ![t] = "over"]
  /\ UNCHANGED <<ingestVars, disposal, allClientVars>>

-----------------------------------------------------------------------------
Dispose ==
  /\ disposal = "no"
  /\ disposal' = "waiting"
  /\ UNCHANGED <<ingestVars, transforms, allClientVars>>

Disposed ==
  /\ disposal = "waiting" /\ \A e \in Arrived : task[e] = "settled"
  /\ disposal' = "done"
  /\ sessions' = [s \in Sessions |-> 0]
  /\ UNCHANGED <<events, snapshot, task, previous, transforms, allClientVars>>

Next ==
  \/ \E s \in Sessions : IdleEvent(s)
  \/ \E e \in Arrived : EventStep(e)
  \/ \E t \in Transforms : Transform(t) \/ Retrieve(t) \/ Retrieved(t)
  \/ Dispose \/ Disposed
  \/ (\E c \in Calls : CallStep(c)) /\ UNCHANGED pluginVars
  \/ (\E k \in Clients : LaunchStep(k)) /\ UNCHANGED pluginVars
  \/ DaemonStep /\ UNCHANGED pluginVars

\* The plugin runs, the host answers for a snapshot, and timers fire; the daemon
\* may hang.
Spec ==
  /\ Init /\ [][Next]_vars
  /\ \A e \in 1..MaxEvents :
       /\ WF_vars(e \in Arrived /\ EventStep(e))
       /\ WF_vars(CallStep(e) /\ UNCHANGED pluginVars)
  /\ WF_vars(LaunchStep("ingestion") /\ UNCHANGED pluginVars)
  /\ WF_vars(Disposed)

-----------------------------------------------------------------------------
(* Properties *)

\* The submissions of a session are serialized (README.md:112 of the adapter): an
\* event is submitted after everyone of its session before it has settled, and
\* its text is then with the daemon no more, unless the call gave up waiting.
IngestInOrder ==
  \A d, e \in Arrived :
    d < e /\ events[d] = events[e] /\ calls[e].at # "idle" =>
      /\ task[d] = "settled"
      /\ request[d] = "none" \/ calls[d].at = "timedOut"

\* An event with a text is not over before its text was submitted and its call
\* has an outcome, an error included, whatever became of the events before it
\* (plugin.ts:130-139).
TextSubmitted ==
  \A e \in Arrived :
    task[e] = "settled" /\ snapshot[e] = "text" => calls[e].at \in Over

\* A call of the plugin is carried out once, or not at all and then it is not
\* reported as done; with the types of the state.
AnsweredOnce == TypeOK /\ AtMostOnce /\ DoneWasExecuted

\* Every text of a session is submitted, one at a time and in order.  A later text
\* is carried out before or beside an earlier one only after a timeout.
SubmitsSession == IngestInOrder /\ TextSubmitted

\* Once dispose has returned, nothing of the ingestion is under way: no task, no
\* call and no launch of its client.
IngestionQuiet ==
  disposal = "done" =>
    /\ \A e \in Arrived : task[e] = "settled"
    /\ \A c \in 1..MaxEvents : ~UnderWay(c)
    /\ launch["ingestion"] = "none"

\* The same of the whole plugin, which the code does not see to: a transformation
\* is not waited for, and goes on to call and to launch (plugin.ts:87-93, 153).
PluginQuiet ==
  disposal = "done" =>
    /\ \A c \in Calls : ~UnderWay(c)
    /\ \A k \in Clients : launch[k] = "none"

\* dispose returns, also when the daemon hangs.
DisposeReturns == disposal = "waiting" ~> disposal = "done"
=============================================================================
