----------------------- MODULE MCRelationshipService -----------------------
(* The relationship graph over four ids that all resemble each other. *)
EXTENDS RelationshipService, TLC

CONSTANTS a, b

MCCallers == {a, b}
Symmetry == Permutations(MCCallers)

MCTags == <<{"x", "y"}, {"x", "y"}, {"x"}, {"x"}>>
MCTokens == <<{"p", "q"}, {"p", "q"}, {"p", "r"}, {}>>
MCSession == <<"s", "none", "s", "none">>
MCClass == <<"fact", "fact", "rule", "rule">>
MCInitial == {1, 2}
MCLinks == {Link(Memory(1), "related_to", Memory(2))}
=============================================================================
