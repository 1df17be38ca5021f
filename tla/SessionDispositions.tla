------------------------ MODULE SessionDispositions ------------------------
(***************************************************************************)
(* What an AuditLogStore promises about session dispositions, whatever the *)
(* backend: an event is appended in one step and never lost, and a lookup  *)
(* answers with exactly the fingerprints that the events committed so far  *)
(* mark as handled.  SqliteAuditLogStore keeps this by construction (the   *)
(* event row and the disposition row are written in one transaction);      *)
(* JsonAuditLog, which has to keep several files in step, is shown to      *)
(* implement it.                                                           *)
(***************************************************************************)
EXTENDS AuditEvents

CONSTANTS
  Events,    \* the audit events that may be appended
  NoAnswer   \* no lookup has been answered yet

VARIABLES
  log,       \* the committed events
  answer     \* the last lookup: the keys asked for and those reported handled

vars == <<log, answer>>

Init ==
  /\ log \in SUBSET Events      \* a log may predate the disposition index
  /\ answer = NoAnswer

\* SqliteAuditLogStore.append: event row and disposition row, one transaction.
Append(event) ==
  /\ log' = log \cup {event}
  /\ UNCHANGED answer

\* findProcessedSessionFingerprints.
Answer(asked) ==
  /\ answer' = [asked |-> asked, found |-> asked \cap Handled(log)]
  /\ UNCHANGED log

Next ==
  \/ \E event \in Events : Append(event)
  \/ \E asked \in SUBSET Keys : Answer(asked)

Spec == Init /\ [][Next]_vars
=============================================================================
