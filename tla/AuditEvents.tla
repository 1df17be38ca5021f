---------------------------- MODULE AuditEvents ----------------------------
(***************************************************************************)
(* What an audit event says about a session's content.                     *)
(*                                                                         *)
(* A candidate that comes from a coding session has a fingerprint: a hash  *)
(* of the tool, the session (or transcript) and the normalised content.    *)
(* The core writes it into the details of some audit events, and an event  *)
(* that carries one may mark that content as handled, so that a later      *)
(* replay of the same session does not bring it back.  A fingerprint,      *)
(* taken together with its project, is a value of Keys here.               *)
(***************************************************************************)

CONSTANTS
  Keys,   \* project/fingerprint pairs
  NoKey   \* an event without details.sessionFingerprint, or undefined

ASSUME NoKeyAssumption == NoKey \notin Keys

\* The fields of an event that decide what it says about its fingerprint.
Disposition ==
  [ type      : {"memory_saved", "candidate_rejected", "candidate_queued",
                 "memory_superseded", "memory_updated"},
    key       : Keys \cup {NoKey},   \* details.sessionFingerprint
    byUser    : BOOLEAN,             \* details.rejectedByUser
    processed : BOOLEAN ]            \* details.processedSession

\* processedSessionFingerprint: the fingerprint an event marks as handled.
ProcessedKey(event) ==
  IF \/ event.type = "memory_saved"
     \/ event.type = "candidate_rejected" /\ (event.byUser \/ event.processed)
  THEN event.key
  ELSE NoKey

\* The fingerprints an audit log marks as handled.
Handled(log) == {ProcessedKey(event) : event \in log} \ {NoKey}
=============================================================================
