--------------------------- MODULE MCJsonAuditLog ---------------------------
(* JsonAuditLog on a small instance: three fingerprints, and five events of *)
(* every kind that matters to the index.                                    *)
EXTENDS JsonAuditLog

CONSTANTS k1, k2, k3

MCKeys == {k1, k2, k3}

Ev(type, key, byUser, processed) ==
  [type |-> type, key |-> key, byUser |-> byUser, processed |-> processed]

MCEvents ==
  { Ev("memory_saved", k1, FALSE, FALSE),        \* accepted content
    Ev("candidate_rejected", k2, TRUE, FALSE),   \* rejected by the user
    Ev("candidate_rejected", k1, FALSE, TRUE),   \* duplicate of an active memory
    Ev("candidate_rejected", k3, FALSE, FALSE),  \* a policy rejection handles nothing
    Ev("memory_saved", NoKey, FALSE, FALSE) }    \* a manual memory
=============================================================================
