--------------------------- MODULE MCKasonWriter ---------------------------
(***************************************************************************)
(* Tokens of none to three bytes, all different, so that bytes that are    *)
(* lost, doubled or out of order show; a size_t that four tokens exceed.   *)
(***************************************************************************)
EXTENDS KasonWriter

MCData == {<< >>, <<97>>, <<98, 99>>, <<100, 101, 102>>}
MCCapacities == 0..6
=============================================================================
