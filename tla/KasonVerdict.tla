---------------------------- MODULE KasonVerdict ----------------------------
(***************************************************************************)
(* What KasonRun should accept: the documents of the reference grammar     *)
(* whose values are not nested too deep.                                   *)
(***************************************************************************)
EXTENDS KasonRun

Grammar == INSTANCE KasonDocument

DocumentOf(text) == Grammar!DocumentWithin(text, MAX_NESTING + 1)
\* An array may be one level too deep when it is empty: no run is started.
FitsNesting(values) ==
  \A value \in values :
    (value.level = MAX_NESTING + 1 /\ IsContainer(value)) =>
      value.type = "ARRAY" /\ value.children = 0
Accepted(values) == values # {} /\ FitsNesting(values)
=============================================================================
