---------------------------- MODULE JsonAuditLog ----------------------------
(***************************************************************************)
(* JsonAuditLogStore: the audit log of the JSON backend and its index of   *)
(* session dispositions.                                                   *)
(*                                                                         *)
(* Three kinds of file have to agree: audit-log.json (replaced by a        *)
(* rename), one marker file per handled fingerprint, and the checkpoint    *)
(* ready.json, whose presence says the markers may be trusted.  A lookup   *)
(* reads only markers.  Every await is a step: the process may die, or the *)
(* file system may refuse a write, between any two of them, and a marker   *)
(* write that is cut short leaves a torn file, which a lookup cannot       *)
(* parse.                                                                  *)
(*                                                                         *)
(* The store has no memory of its own, so a crash and restart and a failed *)
(* operation are the same thing to it: the operation stops and the files   *)
(* stay.  Operations do not overlap: the daemon runs a store's requests    *)
(* one after the other (routes.ts, withStore).  The temporary file that is *)
(* renamed over the log is never read and is left out.                     *)
(***************************************************************************)
EXTENDS AuditEvents

CONSTANTS
  Events,    \* the audit events that may be appended, each at most once
  NoAnswer,  \* no lookup has been answered yet
  Corrupt    \* a lookup that stopped with STORAGE_INVALID_JSON

ASSUME EventsAssumption == Events \subseteq Disposition

VARIABLES
  log,       \* events in audit-log.json
  marker,    \* session-dispositions/<key>.json: absent, torn or whole
  ready,     \* session-dispositions/ready.json exists
  pc,        \* the step the running operation is at
  request,   \* the running operation and its argument
  todo,      \* ensureSessionIndex: the markers it has still to write
  answer     \* what the last lookup returned

vars == <<log, marker, ready, pc, request, todo, answer>>
files == <<log, marker, ready>>

NoRequest == [kind |-> "none"]
Appends == [kind : {"append"}, event : Events]
Lookups == [kind : {"lookup"}, asked : SUBSET Keys]

TypeOK ==
  /\ log \subseteq Events
  /\ marker \in [Keys -> {"absent", "torn", "whole"}]
  /\ ready \in BOOLEAN
  /\ pc \in {"idle", "ensure", "rebuild", "uncheck", "commit", "mark", "check", "read"}
  /\ request \in {NoRequest} \cup Appends \cup Lookups
  /\ todo \subseteq Keys

\* An installation that has an audit log from before the index existed.
Init ==
  /\ log \in SUBSET Events
  /\ marker = [k \in Keys |-> "absent"]
  /\ ready = FALSE
  /\ pc = "idle"
  /\ request = NoRequest
  /\ todo = {}
  /\ answer = NoAnswer

-----------------------------------------------------------------------------
(* append *)

\* The key that the running append marks as handled.
RequestKey == ProcessedKey(request.event)

\* An event without a handled fingerprint goes straight to the log.
BeginAppend(event) ==
  /\ pc = "idle"
  /\ request' = [kind |-> "append", event |-> event]
  /\ pc' = IF ProcessedKey(event) = NoKey THEN "commit" ELSE "ensure"
  /\ UNCHANGED <<files, todo, answer>>

\* Faulty variant: the old checkpoint is left in place.
UncheckForgotten ==
  /\ pc = "uncheck"
  /\ pc' = "commit"
  /\ UNCHANGED <<log, marker, ready, request, todo, answer>>

\* rm(ready.json): from here to the end a crash forces a rebuild.
Uncheck ==
  /\ pc = "uncheck"
  /\ ready' = FALSE
  /\ pc' = "commit"
  /\ UNCHANGED <<log, marker, request, todo, answer>>

\* Read the rows, write them with the event to a temporary file, rename it.
Commit ==
  /\ pc = "commit"
  /\ log' = log \cup {request.event}
  /\ pc' = IF RequestKey = NoKey THEN "idle" ELSE "mark"
  /\ request' = IF RequestKey = NoKey THEN NoRequest ELSE request
  /\ UNCHANGED <<marker, ready, todo, answer>>

Mark ==
  /\ pc = "mark"
  /\ marker' = [marker EXCEPT ![RequestKey] = "whole"]
  /\ pc' = "check"
  /\ UNCHANGED <<log, ready, request, todo, answer>>

Check ==
  /\ pc = "check"
  /\ ready' = TRUE
  /\ pc' = "idle"
  /\ request' = NoRequest
  /\ UNCHANGED <<log, marker, todo, answer>>

-----------------------------------------------------------------------------
(* findProcessedSessionFingerprints *)

BeginLookup(asked) ==
  /\ pc = "idle"
  /\ asked # {}
  /\ request' = [kind |-> "lookup", asked |-> asked]
  /\ pc' = "ensure"
  /\ UNCHANGED <<files, todo, answer>>

\* The markers are read one by one; a torn one does not parse.
Read ==
  /\ pc = "read"
  /\ answer' = IF \E k \in request.asked : marker[k] = "torn"
               THEN Corrupt
               ELSE [asked |-> request.asked,
                     found |-> {k \in request.asked : marker[k] = "whole"}]
  /\ pc' = "idle"
  /\ request' = NoRequest
  /\ UNCHANGED <<files, todo>>

-----------------------------------------------------------------------------
(* ensureSessionIndex *)

\* Where the operation goes on once the index can be trusted.
Ensured == IF request.kind = "append" THEN "uncheck" ELSE "read"

\* Faulty variant: a checkpoint is never asked for.
EnsureNothing ==
  /\ pc = "ensure"
  /\ pc' = Ensured
  /\ UNCHANGED <<files, request, todo, answer>>

EnsureReady ==
  /\ pc = "ensure"
  /\ ready
  /\ pc' = Ensured
  /\ UNCHANGED <<files, request, todo, answer>>

EnsureRebuild ==
  /\ pc = "ensure"
  /\ ~ready
  /\ todo' = Handled(log)
  /\ pc' = "rebuild"
  /\ UNCHANGED <<files, request, answer>>

RebuildMarker(k) ==
  /\ pc = "rebuild"
  /\ k \in todo
  /\ marker' = [marker EXCEPT ![k] = "whole"]
  /\ todo' = todo \ {k}
  /\ UNCHANGED <<log, ready, pc, request, answer>>

FinishRebuild ==
  /\ pc = "rebuild"
  /\ todo = {}
  /\ ready' = TRUE
  /\ pc' = Ensured
  /\ UNCHANGED <<log, marker, request, todo, answer>>

-----------------------------------------------------------------------------
(* Failures *)

\* The markers the operation may be in the middle of writing.
BeingWritten ==
  {k \in Keys : \/ pc = "mark" /\ k = RequestKey
                \/ pc = "rebuild" /\ k \in todo}

\* A crash, or an I/O error: the operation stops between two steps ...
Interrupt ==
  /\ pc # "idle"
  /\ pc' = "idle"
  /\ request' = NoRequest
  /\ todo' = {}
  /\ UNCHANGED <<files, answer>>

\* ... or inside a marker write, which truncates the file first.
InterruptWrite(k) ==
  /\ k \in BeingWritten
  /\ marker' = [marker EXCEPT ![k] = "torn"]
  /\ pc' = "idle"
  /\ request' = NoRequest
  /\ todo' = {}
  /\ UNCHANGED <<log, ready, answer>>

-----------------------------------------------------------------------------
Next ==
  \/ \E event \in Events \ log : BeginAppend(event)
  \/ \E asked \in SUBSET Keys : BeginLookup(asked)
  \/ EnsureReady \/ EnsureRebuild \/ FinishRebuild
  \/ \E k \in Keys : RebuildMarker(k)
  \/ Uncheck \/ Commit \/ Mark \/ Check \/ Read
  \/ Interrupt
  \/ \E k \in Keys : InterruptWrite(k)

Spec == Init /\ [][Next]_vars

-----------------------------------------------------------------------------
(* Properties *)

Whole == {k \in Keys : marker[k] = "whole"}
Torn  == {k \in Keys : marker[k] = "torn"}

\* While ready.json exists the index can be trusted: every fingerprint the
\* log marks as handled has a readable marker, and no marker is torn,
\* whatever operation was interrupted where (append, ensureSessionIndex).
CheckpointSound == ready => Handled(log) = Whole /\ Torn = {}

\* A marker, even a torn one, exists only for a fingerprint that a committed
\* event marks as handled: content nobody decided on is never suppressed.
NoPhantomMarker == Whole \cup Torn \subseteq Handled(log)

\* The store keeps the promise of SessionDispositions: no committed event is
\* lost, and a lookup reports exactly what the committed events say.
Promise == INSTANCE SessionDispositions
Implements == Promise!Spec

\* What holds at each step of an operation: how far the markers are behind
\* the log.
IndexInv ==
  /\ pc \in {"uncheck", "commit", "mark", "check"} => request.kind = "append"
  /\ pc \in {"uncheck", "mark", "check"} => RequestKey # NoKey
  /\ pc = "read" => request.kind = "lookup" /\ ready
  /\ pc \in {"ensure", "rebuild"} => request.kind # "none"
  /\ pc \in {"ensure", "rebuild"} /\ request.kind = "append" => RequestKey # NoKey
  /\ pc = "uncheck" => ready
  /\ pc = "commit" /\ RequestKey # NoKey =>
       ~ready /\ Handled(log) = Whole /\ Torn = {}
  /\ pc = "mark" =>
       /\ ~ready
       /\ request.event \in log
       /\ Handled(log) = Whole \cup {RequestKey}
       /\ Torn = {}
  /\ pc = "check" => ~ready /\ Handled(log) = Whole /\ Torn = {}
  /\ pc = "rebuild" =>
       /\ ~ready
       /\ todo \subseteq Handled(log)
       /\ Handled(log) \subseteq Whole \cup todo
       /\ Torn \subseteq todo

IInv == TypeOK /\ CheckpointSound /\ NoPhantomMarker /\ IndexInv
=============================================================================
