---------------------------- MODULE KasonConfig ----------------------------
(***************************************************************************)
(* What is set when the library is built, for the parsers and the schemas  *)
(* alike.                                                                  *)
(***************************************************************************)
EXTENDS Naturals

CONSTANT MAX_NESTING   \* KaSON_MAX_NESTING

ASSUME NestingAssumption == MAX_NESTING \in Nat \ {0}
=============================================================================
