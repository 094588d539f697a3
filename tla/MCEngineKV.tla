----------------------------- MODULE MCEngineKV -----------------------------
(* Conversations for TLC: nothing, a first turn, and a longer one. *)
EXTENDS EngineKV

MCPrompts == {<<>>, <<1, 2>>, <<1, 2, 2>>}
=============================================================================
