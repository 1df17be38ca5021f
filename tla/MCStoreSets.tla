----------------------------- MODULE MCStoreSets -----------------------------
(***************************************************************************)
(* JSON: two ids over two types and two scopes, so that an entry can move  *)
(* within its type and between types while another one must stay where it  *)
(* is.  SQLite: a database without tables, and one of a release that had   *)
(* no session_dispositions, with what that release had stored.             *)
(***************************************************************************)
EXTENDS StoreSets

CONSTANTS m1, m2, rule, decision, project, personal, x, k1, k2

MCIds == {m1, m2}
MCTypes == {rule, decision}
MCScopes == {project, personal}

Entry(i, t, s) == [id |-> i, type |-> t, scope |-> s, status |-> "active", text |-> x]

\* A flat file with both entries, under one type or two.
MCLegacy == {Entry(m1, rule, project), Entry(m2, decision, project)}

Memory(i) == [id |-> i, projectId |-> "p", content |-> x, status |-> "active"]
MCMemoryRows == {Memory(m1), Memory(m2)}
MCReplacements == {<<>>, [supersededBy |-> m2]}
MCCandidateRows ==
  {[id |-> "c", projectId |-> "p", content |-> x],
   [id |-> "c", projectId |-> "p", content |-> x, duplicateOf |-> m1]}

\* The same relationship id in two projects, active and removed.
MCRelationshipRows ==
  {[id |-> "r", projectId |-> p, status |-> "active"] : p \in {"p", "q"}}
    \cup {[id |-> "r", projectId |-> "p", status |-> "removed", removedAt |-> "then"]}
MCDiagnosticRows == {[id |-> "d", projectId |-> "p"]}

Event(t, k, u) == [type |-> t, key |-> k, byUser |-> u, processed |-> FALSE]
MCKeys == {k1, k2}
MCEvents ==
  {Event("memory_saved", k1, FALSE), Event("candidate_rejected", k2, TRUE),
   Event("candidate_rejected", k1, FALSE)}

MCOlderDatabases ==
  {<<>>,
   [memories |-> {Row("memories", Memory(m1))}, pending_candidates |-> {},
    audit_log |-> MCEvents, diagnostics_log |-> {}]}
=============================================================================
