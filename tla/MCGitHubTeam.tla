---------------------------- MODULE MCGitHubTeam ----------------------------
(* GitHubTeam on two memories. *)
EXTENDS GitHubTeam, TLC

CONSTANTS m1, m2

MCMemories == {m1, m2}
Symmetry == Permutations(MCMemories)
=============================================================================
