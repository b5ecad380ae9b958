---------------------------- MODULE KasonOutput ----------------------------
(***************************************************************************)
(* What a kason_writer promises, with no word about buffers: an output to  *)
(* which whole tokens are appended until one of them does not fit or the   *)
(* application refuses the bytes it is handed.  The first failure stays,   *)
(* and nothing is appended after it.                                       *)
(***************************************************************************)
EXTENDS Integers, Sequences

CONSTANTS Data

VARIABLES
  out,        \* all that was appended
  status,     \* the first failure, or SUCCESS
  answer,     \* of the last call
  limit,      \* the output stays shorter
  refusable   \* the application takes the bytes, and may refuse them

outputVars == <<out, status, answer, limit, refusable>>

Fits(d) == Len(out) + Len(d) < limit

Fail(code) == status' = code /\ answer' = code /\ UNCHANGED out

Init ==
  /\ out = << >> /\ status = "SUCCESS" /\ answer = "SUCCESS"
  /\ limit \in Nat /\ limit > 0 /\ refusable \in BOOLEAN

Start ==
  /\ out' = << >> /\ status' = "SUCCESS" /\ answer' = "SUCCESS"
  /\ limit' \in Nat /\ limit' > 0 /\ refusable' \in BOOLEAN

Restart ==
  /\ out' = << >> /\ status' = "SUCCESS" /\ answer' = "SUCCESS"
  /\ UNCHANGED <<limit, refusable>>

Take(d) ==
  /\ status = "SUCCESS" /\ Fits(d)
  /\ out' = out \o d /\ answer' = "SUCCESS"
  /\ UNCHANGED <<status, limit, refusable>>

Overflow(d) ==
  /\ status = "SUCCESS" /\ ~Fits(d)
  /\ Fail("WRITER_CAPACITY") /\ UNCHANGED <<limit, refusable>>

\* The bytes so far are no part of a document that can be completed.
Condemn(code) ==
  /\ status = "SUCCESS" /\ code \in {"TYPE", "RANGE"}
  /\ Fail(code) /\ UNCHANGED <<limit, refusable>>

Refuse ==
  /\ status = "SUCCESS" /\ refusable
  /\ Fail("WRITER_CALLBACK") /\ UNCHANGED <<limit, refusable>>

Flush ==
  /\ status = "SUCCESS" /\ answer' = "SUCCESS"
  /\ UNCHANGED <<out, status, limit, refusable>>

\* A failed output takes nothing, and says again why.
Reject ==
  /\ status # "SUCCESS" /\ answer' = status
  /\ UNCHANGED <<out, status, limit, refusable>>

Next ==
  \/ Start \/ Restart \/ Refuse \/ Flush \/ Reject
  \/ \E d \in Data : Take(d) \/ Overflow(d)
  \/ \E code \in {"TYPE", "RANGE"} : Condemn(code)

Spec == Init /\ [][Next]_outputVars
=============================================================================
