--------------------------- MODULE MCHookInstaller ---------------------------
(* HookInstaller for Codex: two instructions files, two variants of hooks, a  *)
(* text, a blank one and one that does not parse.                             *)
EXTENDS HookInstaller
MCTexts == {"text", "blank", "bad"}
=============================================================================
