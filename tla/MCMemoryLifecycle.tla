-------------------------- MODULE MCMemoryLifecycle --------------------------
(* MemoryLifecycle on a small instance.  Texts, after the tests of the       *)
(* pipeline: use React and use Angular are clear-cut alternatives, react2 is *)
(* React in other words, never forbids React (a negation), key holds a       *)
(* secret.                                                                   *)
EXTENDS MemoryLifecycle

CONSTANTS react, react2, angular, never, key, s1

MCTexts == {react, react2, angular, never, key}
MCNormal == [t \in MCTexts |-> t]
MCUnfit == {key}
Alike == {react, react2}
MCSimilar == {<<t, t>> : t \in MCTexts} \cup (Alike \X Alike)
MCClash ==
  [p \in MCTexts \X MCTexts |->
     CASE p[1] \in Alike /\ p[2] = angular -> "clear"
       [] p[1] = angular /\ p[2] \in Alike -> "clear"
       [] p[1] \in Alike /\ p[2] = never   -> "negation"
       [] p[1] = never /\ p[2] \in Alike   -> "negation"
       [] OTHER -> "none"]

P(text, session, confidence, lowRisk, secret) ==
  [text |-> text, session |-> session, confidence |-> confidence,
   lowRisk |-> lowRisk, secret |-> secret]

\* Everything that tells the branches of the pipeline apart.
Mixed ==
  { P(react, s1, "high", TRUE, FALSE),         \* auto-saved
    P(react2, s1, "medium", TRUE, FALSE),      \* queued, or a duplicate
    P(angular, Manual, "high", TRUE, FALSE),   \* replaces react, auto-saved
    P(never, s1, "high", TRUE, FALSE) }        \* queued when react is active

\* With rejections of every kind.
Everything ==
  Mixed \cup
  { P(key, s1, "high", TRUE, FALSE),           \* policy
    P(angular, s1, "low", TRUE, FALSE),        \* recommendation
    P(angular, s1, "high", FALSE, TRUE) }      \* labelled secret

\* Candidates that are all fit to be saved at once.
Plain ==
  { P(react, s1, "high", TRUE, FALSE),
    P(angular, s1, "high", TRUE, FALSE) }

\* An architecture decision against a stored memory.
Decisions ==
  { P(react, s1, "high", TRUE, FALSE),
    P(angular, s1, "high", FALSE, FALSE) }
=============================================================================
