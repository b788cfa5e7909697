----------------------------- MODULE MCCodexTurn -----------------------------
(* Two items that both ask for an approval, two answers on their way.      *)
EXTENDS CodexTurn
=============================================================================
