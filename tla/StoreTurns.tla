----------------------------- MODULE StoreTurns -----------------------------
(***************************************************************************)
(* What the daemon promises about requests on one store: they take their   *)
(* turns one at a time, in the order in which they joined the line, and a  *)
(* turn delays no turn of another store.                                   *)
(***************************************************************************)
EXTENDS FiniteSets

CONSTANTS Turns, StoreOfTurn(_)

VARIABLES
  line,    \* turns that have joined and not yet left
  inside,  \* those whose turn it is
  ahead    \* for each turn in line, those of its store that have to leave first

vars == <<line, inside, ahead>>

Init ==
  /\ line = {} /\ inside = {}
  /\ ahead = [t \in Turns |-> {}]

Join(t) ==
  /\ t \notin line
  /\ line' = line \cup {t}
  /\ ahead' = [ahead EXCEPT ![t] = {u \in line : StoreOfTurn(u) = StoreOfTurn(t)}]
  /\ UNCHANGED inside

Enter(t) ==
  /\ t \in line \ inside
  /\ ahead[t] = {}
  /\ inside' = inside \cup {t}
  /\ UNCHANGED <<line, ahead>>

Leave(t) ==
  /\ t \in inside
  /\ line' = line \ {t}
  /\ inside' = inside \ {t}
  /\ ahead' = [u \in Turns |-> ahead[u] \ {t}]

Next == \E t \in Turns : Join(t) \/ Enter(t) \/ Leave(t)

Spec == Init /\ [][Next]_vars
=============================================================================
