-------------------------- MODULE KasonPackProofs --------------------------
(***************************************************************************)
(* Proofs about the writer and about packing.                              *)
(*                                                                         *)
(* The writer comes first, for all tokens, sizes and sequences of calls.   *)
(* IInv adds to its properties that a writer keeps what it was initialised *)
(* with, and that a refusal shows in the status.                           *)
(*                                                                         *)
(* What kason_pack does is a function of its frames and of the calls that  *)
(* are due, Advance, and does not depend on the writer unless that fails.  *)
(* PackInv says that every packing is at a state that Advance leads to     *)
(* from the beginning of its job: so two packings of one job, with         *)
(* whatever sinks, are at two points of one path.                          *)
(*                                                                         *)
(* Outlook says of such a state that no call that is due will fail and     *)
(* that what is left of the structs on the stack is valid.  Advance does   *)
(* not change it, it is the validity of the struct at the beginning, and   *)
(* it is what success shows at the end.                                    *)
(***************************************************************************)
EXTENDS KasonPack, KasonTextProofs

-----------------------------------------------------------------------------
(* The writer. *)

\* A buffer has room for its terminator, and a refusal shows in the status.
ModeInv ==
  /\ writer.mode = "BUFFER" => writer.capacity > 0
  /\ sink.refused => writer.status = "WRITER_CALLBACK"

IInv ==
  /\ TypeOK /\ LengthIsExact /\ BufferHoldsOutput /\ CallbackGetsOutput
  /\ ModeInv

(* A token is a string of bytes.                                           *)
LEMMA DataType == \A d \in Data : d \in Seq(Bytes)
BY DataAssumption
LEMMA LenType == \A d \in Seq(Bytes) : Len(d) \in Nat
OBVIOUS

(* A writer that was just initialised, or reset, satisfies the invariant.  *)
LEMMA WritersAreSound ==
  ASSUME NEW w \in Writers
  PROVE  /\ w \in [mode : Modes, capacity : 0..SIZE_MAX,
                   scratch_capacity : 0..SIZE_MAX, length : 0..SIZE_MAX,
                   status : Failures \cup {"SUCCESS"}]
         /\ w.length = 0 /\ w.status = "SUCCESS"
         /\ w.mode = "BUFFER" => w.capacity > 0
BY SizeAssumption DEF Writers, Writer, Modes

(* An empty sink has its type.                                             *)
LEMMA EmptySinkIsSound ==
  /\ EmptySink \in [buffer : Seq(Bytes), staged : Seq(Bytes),
                    delivered : Seq(Bytes), refused : BOOLEAN]
  /\ << >> \in Seq(Bytes)
BY DEF EmptySink

(* The invariant holds at first.                                           *)
LEMMA InitIInv == Init => IInv
<1> SUFFICES ASSUME Init PROVE IInv
  OBVIOUS
<1>1. TypeOK
  BY WritersAreSound, EmptySinkIsSound DEF Init, TypeOK
<1>2. LengthIsExact /\ BufferHoldsOutput /\ ModeInv
  BY WritersAreSound
     DEF Init, LengthIsExact, BufferHoldsOutput, ModeInv, EmptySink
<1>3. CallbackGetsOutput
  <2>1. writer.scratch_capacity \in 0..SIZE_MAX
    BY <1>1 DEF TypeOK
  <2> QED BY <2>1, SizeAssumption DEF Init, CallbackGetsOutput, EmptySink
<1> QED BY <1>1, <1>2, <1>3 DEF IInv

-----------------------------------------------------------------------------
SinkType == [buffer : Seq(Bytes), staged : Seq(Bytes),
             delivered : Seq(Bytes), refused : BOOLEAN]

(* What each operation on the sink does to its parts.                      *)
LEMMA SinkOperations ==
  ASSUME NEW s \in SinkType, NEW d \in Seq(Bytes)
  PROVE  /\ Delivered(s, d) \in SinkType
         /\ Delivered(s, d).buffer = s.buffer
         /\ Delivered(s, d).staged = s.staged
         /\ Delivered(s, d).delivered = s.delivered \o d
         /\ Delivered(s, d).refused = s.refused
         /\ Staged(s, d) \in SinkType
         /\ Staged(s, d).buffer = s.buffer
         /\ Staged(s, d).staged = s.staged \o d
         /\ Staged(s, d).delivered = s.delivered
         /\ Staged(s, d).refused = s.refused
BY ConcatProperties DEF SinkType, Delivered, Staged

(* And what the two ways to call the callback do to them.                  *)
LEMMA SinkCalls ==
  ASSUME NEW s \in SinkType
  PROVE  /\ Flushed(s) \in SinkType
         /\ Flushed(s).buffer = s.buffer
         /\ Flushed(s).staged = << >>
         /\ Flushed(s).delivered = s.delivered \o s.staged
         /\ Flushed(s).refused = s.refused
         /\ Refuse(s) \in SinkType
         /\ Refuse(s).buffer = s.buffer
         /\ Refuse(s).staged = s.staged
         /\ Refuse(s).delivered = s.delivered
         /\ Refuse(s).refused
<1> DEFINE x == s.delivered \o s.staged
           y == << >>
<1>1. x \in Seq(Bytes) /\ y \in Seq(Bytes)
  BY ConcatProperties DEF SinkType
<1>2. Flushed(s) = [s EXCEPT !.delivered = x, !.staged = y]
  BY DEF Flushed
<1> HIDE DEF x, y
<1>3. /\ Flushed(s) \in SinkType /\ Flushed(s).buffer = s.buffer
      /\ Flushed(s).refused = s.refused
      /\ Flushed(s).staged = y /\ Flushed(s).delivered = x
  BY <1>1, <1>2 DEF SinkType
<1>4. /\ Refuse(s) \in SinkType /\ Refuse(s).buffer = s.buffer
      /\ Refuse(s).staged = s.staged /\ Refuse(s).refused
      /\ Refuse(s).delivered = s.delivered
  BY DEF SinkType, Refuse
<1> QED BY <1>3, <1>4 DEF x, y

\* The sink holds what was written, as the mode says.
Holds(s, mode, capacity, scratch_capacity, text) ==
  /\ mode = "BUFFER" => s.buffer = text /\ Len(s.buffer) < capacity
  /\ mode = "CALLBACK" =>
       s.delivered \o s.staged = text /\ Len(s.staged) <= scratch_capacity

(* Flushing loses nothing.                                                 *)
LEMMA FlushHolds ==
  ASSUME NEW s \in SinkType, NEW mode, NEW capacity,
         NEW scratch_capacity \in Nat, NEW text \in Seq(Bytes),
         Holds(s, mode, capacity, scratch_capacity, text)
  PROVE  Holds(Flushed(s), mode, capacity, scratch_capacity, text)
<1>1. s.delivered \o s.staged \in Seq(Bytes) /\ Len(<< >>) = 0
  BY ConcatProperties DEF SinkType
<1>2. (s.delivered \o s.staged) \o << >> = s.delivered \o s.staged
  BY <1>1, ConcatEmptySeq
<1>3. /\ Flushed(s).staged = << >> /\ Flushed(s).buffer = s.buffer
      /\ Flushed(s).delivered = s.delivered \o s.staged
  BY SinkCalls
<1>4. CASE mode = "BUFFER"
  BY <1>3, <1>4 DEF Holds
<1>5. CASE mode = "CALLBACK"
  <2>1. Flushed(s).delivered \o Flushed(s).staged = text
    BY <1>2, <1>3, <1>5 DEF Holds
  <2>2. Len(Flushed(s).staged) <= scratch_capacity
    BY <1>1, <1>3
  <2> QED BY <1>5, <2>1, <2>2 DEF Holds
<1> QED BY <1>4, <1>5 DEF Holds

(* A failure keeps the invariant if the sink keeps what it holds and a     *)
(* refusal is reported as such.                                            *)
LEMMA AfterFailure ==
  ASSUME IInv, NEW code \in Failures, Fail(code), sink' \in SinkType,
         Holds(sink', writer.mode, writer.capacity,
               writer.scratch_capacity, written),
         sink'.refused => code = "WRITER_CALLBACK"
  PROVE  IInv'
<1>1. /\ writer' = [writer EXCEPT !.status = code]
      /\ answer' = code /\ written' = written
  BY DEF Fail
<1>2. writer \in [mode : Modes, capacity : 0..SIZE_MAX,
                 scratch_capacity : 0..SIZE_MAX, length : 0..SIZE_MAX,
                 status : Failures \cup {"SUCCESS"}]
  BY DEF IInv, TypeOK
<1>3. /\ writer'.mode = writer.mode /\ writer'.capacity = writer.capacity
      /\ writer'.scratch_capacity = writer.scratch_capacity
      /\ writer'.length = writer.length /\ writer'.status = code
  BY <1>1, <1>2
<1>4. TypeOK'
  BY <1>1, <1>2 DEF IInv, TypeOK, SinkType
<1>5. BufferHoldsOutput' /\ CallbackGetsOutput'
  BY <1>1, <1>3 DEF Holds, BufferHoldsOutput, CallbackGetsOutput
<1>6. LengthIsExact' /\ ModeInv'
  BY <1>1, <1>3 DEF IInv, LengthIsExact, ModeInv
<1> QED BY <1>4, <1>5, <1>6 DEF IInv

(* So does a success after which the sink holds the token too.             *)
LEMMA AfterSuccess ==
  ASSUME IInv, NEW d \in Seq(Bytes), Fits(d), writer.status = "SUCCESS",
         Succeed(d), sink' \in SinkType, sink'.refused = sink.refused,
         Holds(sink', writer.mode, writer.capacity,
               writer.scratch_capacity, written \o d)
  PROVE  IInv'
<1>1. /\ writer' = [writer EXCEPT !.length = writer.length + Len(d)]
      /\ answer' = "SUCCESS" /\ written' = written \o d
  BY DEF Succeed
<1>2. writer \in [mode : Modes, capacity : 0..SIZE_MAX,
                 scratch_capacity : 0..SIZE_MAX, length : 0..SIZE_MAX,
                 status : Failures \cup {"SUCCESS"}]
  BY DEF IInv, TypeOK
<1>3. /\ writer'.mode = writer.mode /\ writer'.capacity = writer.capacity
      /\ writer'.scratch_capacity = writer.scratch_capacity
      /\ writer'.length = writer.length + Len(d)
      /\ writer'.status = "SUCCESS"
  BY <1>1, <1>2
<1>4. /\ written \in Seq(Bytes) /\ d \in Seq(Bytes) /\ Len(d) \in Nat
      /\ writer.length \in Nat /\ writer.length = Len(written)
  BY <1>2, SizeAssumption, LenType DEF IInv, TypeOK, LengthIsExact
<1>5. written' \in Seq(Bytes) /\ Len(written') = writer'.length
  BY <1>1, <1>3, <1>4, ConcatProperties
<1>6. writer.length + Len(d) \in 0..SIZE_MAX
  BY <1>4, SizeAssumption DEF Fits
<1>7. TypeOK'
  BY <1>1, <1>2, <1>5, <1>6 DEF TypeOK, SinkType
<1>8. BufferHoldsOutput' /\ CallbackGetsOutput'
  BY <1>1, <1>3 DEF Holds, BufferHoldsOutput, CallbackGetsOutput
<1>9. LengthIsExact' /\ ModeInv'
  BY <1>3, <1>5 DEF IInv, LengthIsExact, ModeInv
<1> QED BY <1>7, <1>8, <1>9 DEF IInv

(* The invariant, as the two lemmas above need it.                         *)
LEMMA SinkIsSound ==
  ASSUME IInv
  PROVE  /\ sink \in SinkType /\ written \in Seq(Bytes)
         /\ writer.scratch_capacity \in Nat
         /\ writer.capacity \in Nat /\ writer.length \in Nat
         /\ Holds(sink, writer.mode, writer.capacity,
                  writer.scratch_capacity, written)
         /\ writer.status = "SUCCESS" => ~sink.refused
BY SizeAssumption DEF IInv, TypeOK, SinkType, Holds, BufferHoldsOutput,
                      CallbackGetsOutput, ModeInv

(* Writing a token to a buffer.                                            *)
LEMMA StoreStep ==
  ASSUME IInv, NEW d \in Seq(Bytes), Store(d)
  PROVE  IInv'
<1>1. /\ writer.status = "SUCCESS" /\ Fits(d) /\ writer.mode = "BUFFER"
      /\ Len(d) < writer.capacity - writer.length
      /\ Succeed(d) /\ sink' = Stored(sink, d)
  BY DEF Store, Ready, InBuffer
<1>2. /\ sink.buffer = written /\ writer.length = Len(written)
      /\ written \in Seq(Bytes) /\ d \in Seq(Bytes) /\ Len(d) \in Nat
  BY <1>1, SinkIsSound, LenType DEF IInv, LengthIsExact, BufferHoldsOutput
<1>3. SubSeq(sink.buffer, 1, writer.length) = written
  BY <1>2, SubSeqFull
<1>4. sink' = [sink EXCEPT !.buffer = written \o d]
  BY <1>1, <1>3 DEF Stored
<1>5. written \o d \in Seq(Bytes) /\ Len(written \o d) < writer.capacity
  BY <1>1, <1>2, SinkIsSound, ConcatProperties
<1>6. /\ sink' \in SinkType /\ sink'.buffer = written \o d
      /\ sink'.refused = sink.refused
  BY <1>4, <1>5, SinkIsSound DEF SinkType
<1>7. Holds(sink', writer.mode, writer.capacity,
            writer.scratch_capacity, written \o d)
  BY <1>1, <1>5, <1>6 DEF Holds
<1> QED BY <1>1, <1>6, <1>7, AfterSuccess

(* Writing a token to a callback, with or without a scratch.               *)
LEMMA CallbackTakes ==
  ASSUME IInv, NEW d \in Seq(Bytes), Pass(d) \/ PassLong(d)
  PROVE  IInv'
<1>1. /\ writer.status = "SUCCESS" /\ Fits(d) /\ writer.mode = "CALLBACK"
      /\ Succeed(d)
  BY DEF Pass, PassLong, Unstaged, Long, Ready
<1>2. PICK s \in SinkType :
        /\ sink' = Delivered(s, d) /\ s.staged = << >>
        /\ s.refused = sink.refused /\ s.delivered = written
  <2>1. CASE Pass(d)
    <3>1. /\ sink.delivered \o sink.staged = written
          /\ Len(sink.staged) <= 0
          /\ sink.staged \in Seq(Bytes) /\ sink.delivered \in Seq(Bytes)
      BY <1>1, <2>1, SinkIsSound
         DEF Pass, Unstaged, IInv, CallbackGetsOutput, SinkType
    <3>2. sink.staged = << >>
      BY <3>1
    <3>3. sink.delivered = written
      BY <3>1, <3>2, ConcatEmptySeq
    <3> QED BY <2>1, <3>2, <3>3, SinkIsSound DEF Pass
  <2>2. CASE PassLong(d)
    <3>1. sink.delivered \o sink.staged = written
      BY <1>1 DEF IInv, CallbackGetsOutput
    <3> QED BY <2>2, <3>1, SinkIsSound, SinkCalls DEF PassLong
  <2> QED BY <2>1, <2>2
<1>3. d \in Seq(Bytes)
  BY LenType
<1>4. /\ sink' \in SinkType /\ sink'.delivered = written \o d
      /\ sink'.staged = << >> /\ sink'.refused = sink.refused
  BY <1>2, <1>3, SinkOperations
<1>5. written \o d \in Seq(Bytes) /\ (written \o d) \o << >> = written \o d
  BY <1>3, SinkIsSound, ConcatProperties, ConcatEmptySeq
<1>6. Holds(sink', writer.mode, writer.capacity,
            writer.scratch_capacity, written \o d)
  BY <1>1, <1>4, <1>5, SinkIsSound DEF Holds
<1> QED BY <1>1, <1>4, <1>6, AfterSuccess

(* Concatenation of strings of bytes is associative.                       *)
LEMMA Associative ==
  ASSUME NEW a \in Seq(Bytes), NEW b \in Seq(Bytes), NEW c \in Seq(Bytes)
  PROVE  (a \o b) \o c = a \o (b \o c)
BY ConcatAssociative

(* Staging a token, after a flush if it needs one.                         *)
LEMMA ScratchTakes ==
  ASSUME IInv, NEW d \in Seq(Bytes), Stage(d) \/ FlushAndStage(d)
  PROVE  IInv'
<1>1. /\ writer.status = "SUCCESS" /\ Fits(d) /\ writer.mode = "CALLBACK"
      /\ Len(d) <= writer.scratch_capacity /\ Succeed(d)
  BY DEF Stage, FlushAndStage, Short, Ready
<1>2. d \in Seq(Bytes) /\ Len(d) \in Nat
  BY LenType
<1>3. PICK s \in SinkType :
        /\ sink' = Staged(s, d) /\ s.refused = sink.refused
        /\ s.delivered \o s.staged = written
        /\ Len(s.staged) + Len(d) <= writer.scratch_capacity
  <2>1. sink.delivered \o sink.staged = written
    BY <1>1 DEF IInv, CallbackGetsOutput
  <2>2. CASE Stage(d)
    <3>1. Len(sink.staged) \in Nat
      BY SinkIsSound DEF SinkType
    <3>2. Len(sink.staged) + Len(d) <= writer.scratch_capacity
      BY <1>2, <2>2, <3>1, SinkIsSound DEF Stage, ScratchRoom
    <3> QED BY <2>1, <2>2, <3>2, SinkIsSound DEF Stage
  <2>3. CASE FlushAndStage(d)
    <3>1. /\ Flushed(sink) \in SinkType /\ Flushed(sink).staged = << >>
          /\ Flushed(sink).delivered = written
          /\ Flushed(sink).refused = sink.refused
      BY <2>1, SinkIsSound, SinkCalls
    <3>2. written \o << >> = written /\ Len(<< >>) + Len(d) = Len(d)
      BY <1>2, SinkIsSound, ConcatEmptySeq
    <3>3. sink' = Staged(Flushed(sink), d)
      BY <2>3 DEF FlushAndStage
    <3> QED BY <1>1, <3>1, <3>2, <3>3
  <2> QED BY <2>2, <2>3
<1>4. /\ sink' \in SinkType /\ sink'.delivered = s.delivered
      /\ sink'.staged = s.staged \o d /\ sink'.refused = sink.refused
  BY <1>2, <1>3, SinkOperations
<1>5. /\ s.delivered \o (s.staged \o d) = written \o d
      /\ Len(s.staged \o d) <= writer.scratch_capacity
  <2>1. s.delivered \in Seq(Bytes) /\ s.staged \in Seq(Bytes)
    BY DEF SinkType
  <2>2. (s.delivered \o s.staged) \o d = s.delivered \o (s.staged \o d)
    BY <1>2, <2>1, Associative
  <2>3. Len(s.staged \o d) = Len(s.staged) + Len(d)
    BY <1>2, <2>1, ConcatProperties
  <2> QED BY <1>3, <2>2, <2>3
<1>6. Holds(sink', writer.mode, writer.capacity,
            writer.scratch_capacity, written \o d)
  BY <1>1, <1>4, <1>5 DEF Holds
<1> QED BY <1>1, <1>4, <1>6, AfterSuccess

(* The callback refuses, with or without a flush before.                   *)
LEMMA CallbackRefuses ==
  ASSUME IInv, Fail("WRITER_CALLBACK"),
         sink' = Refuse(sink) \/ sink' = Refuse(Flushed(sink))
  PROVE  IInv'
<1>1. PICK s \in SinkType :
        /\ sink' = Refuse(s)
        /\ Holds(s, writer.mode, writer.capacity,
                 writer.scratch_capacity, written)
  BY SinkIsSound, SinkCalls, FlushHolds
<1>2. sink' \in SinkType
  BY <1>1, SinkCalls
<1>3. Holds(sink', writer.mode, writer.capacity,
            writer.scratch_capacity, written)
  BY <1>1, SinkCalls DEF Holds
<1> QED BY <1>2, <1>3, AfterFailure DEF Failures

(* A failure that does not involve the callback.                           *)
LEMMA QuietFailure ==
  ASSUME IInv, writer.status = "SUCCESS", NEW code \in Failures,
         Fail(code), UNCHANGED sink
  PROVE  IInv'
BY SinkIsSound, AfterFailure

-----------------------------------------------------------------------------
(* A writer is initialised once more.                                      *)
LEMMA InitialiseStep ==
  ASSUME IInv, Initialise
  PROVE  IInv'
<1> USE DEF IInv
<1>1. TypeOK'
  BY WritersAreSound, EmptySinkIsSound DEF Initialise, TypeOK
<1>2. LengthIsExact' /\ BufferHoldsOutput' /\ ModeInv'
  BY WritersAreSound
     DEF Initialise, LengthIsExact, BufferHoldsOutput, ModeInv, EmptySink
<1>3. CallbackGetsOutput'
  <2>1. writer'.scratch_capacity \in 0..SIZE_MAX
    BY <1>1 DEF TypeOK
  <2> QED BY <2>1, SizeAssumption
          DEF Initialise, CallbackGetsOutput, EmptySink
<1> QED BY <1>1, <1>2, <1>3

(* A writer is reset.                                                      *)
LEMMA ResetStep ==
  ASSUME IInv, Reset
  PROVE  IInv'
<1> USE DEF IInv
<1>1. TypeOK'
  <2>1. writer' = [writer EXCEPT !.length = 0, !.status = "SUCCESS"]
    BY DEF Reset
  <2>2. 0 \in 0..SIZE_MAX
    BY SizeAssumption
  <2>3. writer' \in [mode : Modes, capacity : 0..SIZE_MAX,
                    scratch_capacity : 0..SIZE_MAX, length : 0..SIZE_MAX,
                    status : Failures \cup {"SUCCESS"}]
    BY <2>1, <2>2 DEF TypeOK
  <2> QED BY <2>3, EmptySinkIsSound DEF Reset, TypeOK, SinkType
<1>2. LengthIsExact' /\ BufferHoldsOutput' /\ ModeInv'
  BY DEF Reset, TypeOK, LengthIsExact, BufferHoldsOutput, ModeInv, EmptySink
<1>3. CallbackGetsOutput'
  <2>1. writer'.scratch_capacity \in 0..SIZE_MAX
    BY <1>1 DEF TypeOK
  <2> QED BY <2>1, SizeAssumption
          DEF Reset, CallbackGetsOutput, EmptySink
<1> QED BY <1>1, <1>2, <1>3

(* A writer is flushed.                                                    *)
LEMMA FlushStep ==
  ASSUME IInv, Flush
  PROVE  IInv'
<1> USE DEF IInv
<1>1. CASE answer' = "SUCCESS" /\ sink' = Flushed(sink) /\ UNCHANGED writer
  <2>1. /\ sink' \in SinkType /\ sink'.refused = sink.refused
        /\ Holds(sink', writer.mode, writer.capacity,
                 writer.scratch_capacity, written)
    BY <1>1, SinkIsSound, SinkCalls, FlushHolds
  <2>2. writer' = writer /\ written' = written /\ answer' = "SUCCESS"
    BY <1>1 DEF Flush
  <2>3. TypeOK'
    BY <2>1, <2>2 DEF TypeOK, SinkType
  <2>4. BufferHoldsOutput' /\ CallbackGetsOutput'
    BY <2>1, <2>2 DEF Holds, BufferHoldsOutput, CallbackGetsOutput
  <2>5. LengthIsExact' /\ ModeInv'
    BY <2>1, <2>2 DEF LengthIsExact, ModeInv
  <2> QED BY <2>3, <2>4, <2>5
<1>2. CASE Fail("WRITER_CALLBACK") /\ sink' = Refuse(sink)
  BY <1>2, CallbackRefuses
<1> QED BY <1>1, <1>2 DEF Flush

(* A token is written, or is not.                                          *)
LEMMA WriteStep ==
  ASSUME IInv, NEW d \in Seq(Bytes), Write(d)
  PROVE  IInv'
<1> USE DEF IInv
<1>1. CASE Sticks
  <2>1. /\ writer' = writer /\ sink' = sink /\ written' = written
        /\ answer' = writer.status
    BY <1>1 DEF Sticks
  <2> QED BY <2>1 DEF TypeOK, LengthIsExact, BufferHoldsOutput,
                      CallbackGetsOutput, ModeInv
<1>2. CASE TooLong(d) \/ NoRoom(d)
  BY <1>2, QuietFailure DEF TooLong, NoRoom, Ready, Failures
<1>3. CASE Count(d)
  <2>1. Holds(sink', writer.mode, writer.capacity,
              writer.scratch_capacity, written \o d)
    BY <1>3 DEF Count, Ready, Holds
  <2> QED BY <1>3, <2>1, SinkIsSound, AfterSuccess DEF Count, Ready
<1>4. CASE Store(d)
  BY <1>4, StoreStep
<1>5. CASE Pass(d) \/ PassLong(d)
  BY <1>5, CallbackTakes
<1>6. CASE Stage(d) \/ FlushAndStage(d)
  BY <1>6, ScratchTakes
<1>7. CASE PassRefused(d) \/ LongRefused(d) \/ FlushRefused(d)
  BY <1>7, CallbackRefuses DEF PassRefused, LongRefused, FlushRefused
<1> QED BY <1>1, <1>2, <1>3, <1>4, <1>5, <1>6, <1>7 DEF Write

(* A value that is no JSON is met.                                         *)
LEMMA CondemnStep ==
  ASSUME IInv, NEW code, Condemn(code)
  PROVE  IInv'
BY QuietFailure DEF Condemn, Failures

(* Every call of the writer keeps the invariant.                           *)
LEMMA StepIInv ==
  ASSUME IInv, [Next]_writerVars
  PROVE  IInv'
<1>1. ASSUME NEW d \in Data, Write(d) PROVE IInv'
  BY <1>1, DataType, WriteStep
<1>2. CASE UNCHANGED writerVars
  BY <1>2 DEF writerVars, IInv, TypeOK, LengthIsExact, BufferHoldsOutput,
              CallbackGetsOutput, ModeInv
<1> QED BY <1>1, <1>2, InitialiseStep, ResetStep, FlushStep, CondemnStep DEF Next

-----------------------------------------------------------------------------
(* The invariant holds in every state.                                     *)
THEOREM Inductive == Spec => []IInv
<1>1. Init => IInv
  BY InitIInv
<1>2. IInv /\ [Next]_writerVars => IInv'
  BY StepIInv
<1> QED BY <1>1, <1>2, PTL DEF Spec

(* Every variable has its type, and the length never exceeds a size_t.     *)
THEOREM TypeCorrect == Spec => []TypeOK
<1>1. IInv => TypeOK
  BY DEF IInv
<1> QED BY <1>1, Inductive, PTL

(* kason_writer_length is the number of bytes written since the last       *)
(* reset, in all three modes.                                              *)
THEOREM LengthsAreExact == Spec => []LengthIsExact
<1>1. IInv => LengthIsExact
  BY DEF IInv
<1> QED BY <1>1, Inductive, PTL

(* The buffer of a writer holds all that was written and has room for the  *)
(* NUL behind it, whatever was written and whatever failed.                *)
THEOREM BuffersHoldOutput == Spec => []BufferHoldsOutput
<1>1. IInv => BufferHoldsOutput
  BY DEF IInv
<1> QED BY <1>1, Inductive, PTL

(* No byte is lost, doubled or out of order on its way to the callback,    *)
(* and the scratch is never overrun.                                       *)
THEOREM CallbacksGetOutput == Spec => []CallbackGetsOutput
<1>1. IInv => CallbackGetsOutput
  BY DEF IInv
<1> QED BY <1>1, Inductive, PTL

(* In every mode the sink holds all that was written, and no more.         *)
THEOREM OutputsAreExact == Spec => []OutputIsExact
<1>1. LengthIsExact /\ BufferHoldsOutput /\ CallbackGetsOutput => OutputIsExact
  BY DEF OutputIsExact
<1> QED BY <1>1, LengthsAreExact, BuffersHoldOutput, CallbacksGetOutput, PTL

(* After a refusal the callback is left alone until a reset.               *)
THEOREM RefusalsAreFinal == Spec => RefusalIsFinal
<1>1. ASSUME IInv, [Next]_writerVars, sink.refused, sink'.refused
      PROVE  sink' = sink
  <2>1. writer.status = "WRITER_CALLBACK"
    BY <1>1 DEF IInv, ModeInv
  <2>2. CASE Initialise \/ Reset
    BY <1>1, <2>2 DEF Initialise, Reset, EmptySink
  <2>3. ASSUME NEW d \in Data, Write(d) PROVE sink' = sink
    BY <2>1, <2>3 DEF Write, Sticks, TooLong, Count, Store, NoRoom, Pass,
       PassRefused, PassLong, LongRefused, Stage, FlushAndStage, FlushRefused,
       Unstaged, Long, Short, Ready
  <2>4. CASE Flush \/ \E code \in Failures : Condemn(code)
    BY <2>1, <2>4 DEF Flush, Condemn
  <2>5. CASE UNCHANGED writerVars
    BY <2>5 DEF writerVars
  <2> QED BY <1>1, <2>2, <2>3, <2>4, <2>5 DEF Next
<1>2. IInv /\ [Next]_writerVars
        => [sink.refused /\ sink'.refused => sink' = sink]_writerVars
  BY <1>1
<1> QED BY <1>2, Inductive, PTL DEF Spec, RefusalIsFinal

(* A reset keeps what the writer was initialised with.                     *)
LEMMA ResetKeepsMode ==
  ASSUME IInv, Reset
  PROVE  /\ writer'.mode = writer.mode /\ writer'.capacity = writer.capacity
         /\ writer'.status = "SUCCESS"
BY DEF IInv, TypeOK, Reset

(* A failure changes nothing of a writer but its status.                   *)
LEMMA FailKeepsMode ==
  ASSUME IInv, NEW code \in Failures, Fail(code)
  PROVE  /\ writer'.mode = writer.mode /\ writer'.capacity = writer.capacity
         /\ writer'.status = code
BY DEF IInv, TypeOK, Fail

(* A success changes nothing but the length.                               *)
LEMMA SucceedKeepsMode ==
  ASSUME IInv, NEW d \in Seq(Bytes), Succeed(d)
  PROVE  /\ writer'.mode = writer.mode /\ writer'.capacity = writer.capacity
         /\ writer'.status = writer.status
BY DEF IInv, TypeOK, Succeed

(* Each way a write can end is a way an output takes or refuses a token.   *)
LEMMA WriteIsOutputStep ==
  ASSUME IInv, NEW d \in Data, Write(d)
  PROVE  Output!Next
<1> DEFINE limit == IF writer.mode = "BUFFER" THEN writer.capacity
                    ELSE SIZE_MAX + 1
<1>1. /\ Len(d) \in Nat /\ Len(written) = writer.length
      /\ writer.length \in Nat /\ writer.capacity \in 0..SIZE_MAX
      /\ SIZE_MAX \in Nat
  BY SinkIsSound, DataType, LenType, SizeAssumption DEF IInv, LengthIsExact, TypeOK
<1>2. CASE Sticks
  BY <1>2 DEF Sticks, Output!Reject, Output!Next
<1>3. CASE TooLong(d) \/ NoRoom(d)
  <2>1. writer.status = "SUCCESS" /\ Fail("WRITER_CAPACITY")
    BY <1>3 DEF TooLong, NoRoom, Ready
  <2>2. ~(Len(written) + Len(d) < limit)
    BY <1>1, <1>3 DEF TooLong, NoRoom, Ready, Fits, InBuffer
  <2>3. Output!Overflow(d)
    BY <2>1, <2>2, FailKeepsMode
       DEF Failures, Fail, Output!Overflow, Output!Fits, Output!Fail
  <2> QED BY <2>3 DEF Output!Next
<1>4. CASE \/ Count(d) \/ Store(d) \/ Pass(d) \/ PassLong(d)
           \/ Stage(d) \/ FlushAndStage(d)
  <2>1. /\ writer.status = "SUCCESS" /\ Fits(d) /\ Succeed(d)
        /\ writer.mode = "BUFFER" => InBuffer(d)
    BY <1>4 DEF Count, Store, Pass, PassLong, Stage, FlushAndStage,
                Unstaged, Long, Short, Ready
  <2>2. Len(written) + Len(d) < limit
    BY <1>1, <2>1 DEF Fits, InBuffer
  <2>3. Output!Take(d)
    BY <2>1, <2>2, DataType, SucceedKeepsMode
       DEF Succeed, Output!Take, Output!Fits
  <2> QED BY <2>3 DEF Output!Next
<1>5. CASE PassRefused(d) \/ LongRefused(d) \/ FlushRefused(d)
  <2>1. /\ writer.status = "SUCCESS" /\ writer.mode = "CALLBACK"
        /\ Fail("WRITER_CALLBACK")
    BY <1>5 DEF PassRefused, LongRefused, FlushRefused,
                Unstaged, Long, Short, Ready
  <2>2. Output!Refuse
    BY <2>1, FailKeepsMode DEF Failures, Fail, Output!Refuse, Output!Fail
  <2> QED BY <2>2 DEF Output!Next
<1> QED BY <1>2, <1>3, <1>4, <1>5 DEF Write

(* In every mode, with every scratch, the writer implements the output of  *)
(* whole tokens that KasonOutput describes.                                *)
THEOREM WriterIsOutput == Spec => IsOutput
<1>1. Init => Output!Init
  BY WritersAreSound, SizeAssumption DEF Init, Output!Init
<1>2. ASSUME IInv, [Next]_writerVars
      PROVE  [Output!Next]_(Output!outputVars)
  <2>1. CASE Initialise
    BY <2>1, WritersAreSound, SizeAssumption
       DEF Initialise, Output!Start, Output!Next
  <2>2. CASE Reset
    BY <1>2, <2>2, ResetKeepsMode DEF Reset, Output!Restart, Output!Next
  <2>3. CASE Flush
    <3>1. CASE answer' = "SUCCESS" /\ UNCHANGED writer
      BY <2>3, <3>1 DEF Flush, Output!Flush, Output!Next
    <3>2. CASE writer.mode = "CALLBACK" /\ Fail("WRITER_CALLBACK")
      BY <1>2, <2>3, <3>2, FailKeepsMode
         DEF Flush, Failures, Fail, Output!Refuse, Output!Fail, Output!Next
    <3> QED BY <2>3, <3>1, <3>2 DEF Flush
  <2>4. ASSUME NEW code \in Failures, Condemn(code) PROVE Output!Next
    BY <1>2, <2>4, FailKeepsMode
       DEF Condemn, Fail, Output!Condemn, Output!Fail, Output!Next
  <2>5. ASSUME NEW d \in Data, Write(d) PROVE Output!Next
    BY <1>2, <2>5, WriteIsOutputStep
  <2>6. CASE UNCHANGED writerVars
    BY <2>6 DEF writerVars, Output!outputVars
  <2> QED BY <1>2, <2>1, <2>2, <2>3, <2>4, <2>5, <2>6 DEF Next
<1> QED BY <1>1, <1>2, Inductive, PTL DEF Spec, IsOutput, Output!Spec

-----------------------------------------------------------------------------
(* What the calls of a scalar write. *)

Codes == {"TYPE", "STRING_CAPACITY", "ARRAY_CAPACITY", "NESTING"}
Token ==
  {t \in [does : {"write", "condemn", "stop"}, text : Seq(Byte), code : Codes \cup {"SUCCESS"}] :
     t.does # "write" => t.code \in Codes}

LEMMA TokenTypes ==
  /\ \A d \in Seq(Byte) : Put(d) \in Token
  /\ Spoil("TYPE") \in Token
  /\ \A code \in Codes : Stop(code) \in Token
BY DEF Put, Spoil, Stop, Token, Codes

LEMMA BytesOfOne == \A c \in Byte : <<c>> \in Seq(Byte)
OBVIOUS

\* The digits of a number.
LEMMA UnsignedText == \A n \in Nat : kason_schema_unsigned_text[n] \in Seq(Byte)
<1> DEFINE T == Seq(Byte)
           m == [n \in Nat |-> n]
           body(f, n) == IF n < 10 THEN <<ZERO + n>>
                         ELSE Append(f[n \div 10], ZERO + (n % 10))
           F == [f \in [Nat -> T] |-> [n \in Nat |-> body(f, n)]]
           text == CHOOSE f : f = [n \in Nat |-> body(f, n)]
<1>1. kason_schema_unsigned_text = text
  BY DEF kason_schema_unsigned_text
<1>2. \A n \in Nat : ~(n < 10) => n \div 10 \in Nat /\ n \div 10 < n /\ ZERO + (n % 10) \in Byte
  BY DEF ZERO, Byte
<1>3. \A n \in Nat : n < 10 => ZERO + n \in Byte
  BY DEF ZERO, Byte
<1>4. ASSUME NEW n \in Nat, NEW f, \A r \in Nat : r < n => f[r] \in T PROVE body(f, n) \in T
  <2>1. CASE n < 10
    BY <1>3, <2>1
  <2>2. CASE ~(n < 10)
    <3>1. f[n \div 10] \in Seq(Byte) /\ ZERO + (n % 10) \in Byte
      BY <1>2, <1>4, <2>2
    <3>2. body(f, n) = Append(f[n \div 10], ZERO + (n % 10))
      BY <2>2
    <3> HIDE DEF body
    <3> QED BY <3>1, <3>2
  <2> QED BY <2>1, <2>2
<1>5. Recursive(Nat, T, m, F)
  <2>1. F \in [[Nat -> T] -> [Nat -> T]]
    <3>1. \A f \in [Nat -> T] : \A n \in Nat : body(f, n) \in T
      BY <1>4
    <3> HIDE DEF body, T
    <3> QED BY <3>1
  <2>2. T # {} /\ m \in [Nat -> Nat]
    <3>1. << >> \in T
      OBVIOUS
    <3> HIDE DEF T
    <3> QED BY <3>1
  <2>3. ASSUME NEW g \in [Nat -> T], NEW h \in [Nat -> T], NEW n \in Nat,
               \A r \in Nat : m[r] < m[n] => g[r] = h[r]
        PROVE  F[g][n] = F[h][n]
    <3>1. ~(n < 10) => g[n \div 10] = h[n \div 10]
      BY <1>2, <2>3
    <3>2. body(g, n) = body(h, n)
      BY <3>1
    <3> HIDE DEF body
    <3> QED BY <3>2
  <2> HIDE DEF F, T, m
  <2> QED BY <2>1, <2>2, <2>3 DEF Recursive, Descends
<1>6. PICK f : Solution(Nat, T, F, f)
  <2> HIDE DEF F, T, m
  <2> QED BY <1>5, Recursion
<1>7. f = [n \in Nat |-> body(f, n)]
  <2>1. f \in [Nat -> T] /\ \A n \in Nat : f[n] = F[f][n]
    <3> HIDE DEF F, T
    <3> QED BY <1>6 DEF Solution
  <2>2. \A n \in Nat : F[f][n] = body(f, n)
    <3> HIDE DEF body, T
    <3> QED BY <2>1
  <2> HIDE DEF body, F, T
  <2> QED BY <2>1, <2>2
<1>8. text = [n \in Nat |-> body(text, n)]
  BY <1>7
<1> HIDE DEF text
<1> DEFINE P == {n \in Nat : text[n] \in T}
<1>9. ASSUME NEW n \in Nat, \A r \in Nat : m[r] < m[n] => r \in P PROVE n \in P
  <2>1. \A r \in Nat : r < n => text[r] \in T
    BY <1>9
  <2>2. body(text, n) \in T
    BY <1>4, <2>1
  <2>3. text[n] = body(text, n)
    BY <1>8
  <2> HIDE DEF body, T
  <2> QED BY <2>2, <2>3
<1>10. Progressive(Nat, m, P)
  BY <1>9 DEF Progressive
<1>11. P = Nat
  <2> HIDE DEF P, m
  <2> QED BY <1>10, MeasureInduction
<1> QED BY <1>1, <1>11

LEMMA SignedText == \A v \in Int : kason_writer_signed(v) \in Seq(Byte)
<1> TAKE v \in Int
<1>1. CASE v < 0
  <2>1. -(v + 1) + 1 \in Nat
    BY <1>1
  <2>2. <<MINUS>> \in Seq(Byte)
    BY DEF MINUS, Byte
  <2>3. kason_schema_unsigned_text[-(v + 1) + 1] \in Seq(Byte)
    BY <2>1, UnsignedText
  <2>4. kason_writer_signed(v) = <<MINUS>> \o kason_schema_unsigned_text[-(v + 1) + 1]
    BY <1>1 DEF kason_writer_signed
  <2> QED BY <2>2, <2>3, <2>4
<1>2. CASE ~(v < 0)
  <2>1. v \in Nat
    BY <1>2
  <2> QED BY <1>2, <2>1, UnsignedText DEF kason_writer_signed
<1> QED BY <1>1, <1>2

\* How a character is escaped.
LEMMA EscapeType == \A c \in Nat : MustEscape(c) => EscapeText(c) \in Seq(Byte)
<1> TAKE c \in Nat
<1> HAVE MustEscape(c)
<1> DEFINE P == c \in {QUOTE, BACKSLASH}
           Q == \E k \in 1..5 : ShortEscapes[k] = c
           k == CHOOSE j \in 1..5 : ShortEscapes[j] = c
<1>1. EscapeText(c) = CASE P -> <<BACKSLASH, c>>
                        [] Q -> <<BACKSLASH, ShortLetters[k]>>
                        [] OTHER -> <<BACKSLASH, LETTER_U, ZERO, ZERO, HexDigit(c \div 16), HexDigit(c % 16)>>
  BY DEF EscapeText
<1>2. BACKSLASH \in Byte /\ LETTER_U \in Byte /\ ZERO \in Byte
  BY DEF BACKSLASH, LETTER_U, ZERO, Byte
<1>3. P => c \in Byte /\ ~Q
  BY DEF QUOTE, BACKSLASH, Byte, ShortEscapes
<1>4. Q => ShortLetters[k] \in Byte
  <2>1. Q => k \in 1..5
    OBVIOUS
  <2>2. \A j \in 1..5 : ShortLetters[j] \in Byte
    BY DEF ShortLetters, Byte
  <2> HIDE DEF Q, k
  <2> QED BY <2>1, <2>2
<1>5. ~P => HexDigit(c \div 16) \in Byte /\ HexDigit(c % 16) \in Byte
  <2> SUFFICES ASSUME ~P PROVE HexDigit(c \div 16) \in Byte /\ HexDigit(c % 16) \in Byte
    OBVIOUS
  <2>1. c < 32
    BY DEF MustEscape
  <2>2. c \div 16 \in 0..15 /\ c % 16 \in 0..15
    BY <2>1
  <2>3. \A n \in 0..15 : HexDigit(n) \in Byte
    BY DEF HexDigit, ZERO, Byte
  <2> QED BY <2>2, <2>3
<1> DEFINE x == ShortLetters[k]
           y == HexDigit(c \div 16)
           z == HexDigit(c % 16)
<1>6. EscapeText(c) = CASE P -> <<BACKSLASH, c>>
                        [] Q -> <<BACKSLASH, x>>
                        [] OTHER -> <<BACKSLASH, LETTER_U, ZERO, ZERO, y, z>>
  BY <1>1
<1>7. /\ P => ~Q /\ c \in Byte
      /\ Q => x \in Byte
      /\ ~P => y \in Byte /\ z \in Byte
  BY <1>3, <1>4, <1>5
<1> HIDE DEF P, Q, x, y, z
<1>8. CASE P
  <2>1. EscapeText(c) = <<BACKSLASH, c>>
    BY <1>6, <1>7, <1>8, Zenon
  <2> QED BY <1>2, <1>7, <1>8, <2>1
<1>9. CASE Q
  <2>1. EscapeText(c) = <<BACKSLASH, x>>
    BY <1>6, <1>7, <1>9, Zenon
  <2> QED BY <1>2, <1>7, <1>9, <2>1
<1>10. CASE ~P /\ ~Q
  <2>1. EscapeText(c) = <<BACKSLASH, LETTER_U, ZERO, ZERO, y, z>>
    BY <1>6, <1>10, Zenon
  <2> QED BY <1>2, <1>7, <1>10, <2>1
<1> QED BY <1>8, <1>9, <1>10

\* The characters of a string of bytes.
LEMMA SequenceStep ==
  ASSUME NEW s \in Seq(Byte), NEW p \in 1..Len(s)
  PROVE  /\ kason_schema_utf8_sequence(s, p) \in Nat
         /\ kason_schema_utf8_sequence(s, p) # 0 =>
              /\ p + kason_schema_utf8_sequence(s, p) \in 1..(Len(s) + 1)
              /\ p + kason_schema_utf8_sequence(s, p) > p
              /\ SubSeq(s, p, p + kason_schema_utf8_sequence(s, p) - 1) \in Seq(Byte)
<1> DEFINE n == kason_schema_utf8_sequence(s, p)
<1>1. Len(s) \in Nat /\ p \in Nat /\ p <= Len(s) /\ p >= 1
  OBVIOUS
<1>2. n \in Nat /\ (n > 0 => p + n <= Len(s) + 1)
  <2>1. CASE s[p] < 128
    <3>1. n = 1
      BY <2>1 DEF kason_schema_utf8_sequence
    <3> HIDE DEF n
    <3> QED BY <1>1, <3>1
  <2>2. CASE ~(s[p] < 128)
    <3>1. n = MultiByteChar(s, p).length
      BY <2>2 DEF kason_schema_utf8_sequence
    <3> HIDE DEF n
    <3> QED BY <3>1, MultiByteReadable DEF Readable
  <2> QED BY <2>1, <2>2
<1> HIDE DEF n
<1>3. n # 0 => p + n \in 1..(Len(s) + 1) /\ p + n > p
  BY <1>1, <1>2
<1>4. n # 0 => SubSeq(s, p, p + n - 1) \in Seq(Byte)
  <2> SUFFICES ASSUME n # 0 PROVE SubSeq(s, p, p + n - 1) \in Seq(Byte)
    OBVIOUS
  <2>1. p + n - 1 \in 1..Len(s)
    BY <1>1, <1>2
  <2> QED BY <1>1, <2>1, SubSeqProperties
<1> QED BY <1>2, <1>3, <1>4 DEF n

\* The calls for the rest of a string, from each of its positions on.
Spells(s, calls) ==
  /\ calls \in [1..(Len(s) + 1) -> Seq(Token)] /\ calls[Len(s) + 1] = <<Put(<<QUOTE>>)>>
  /\ \A p \in 1..Len(s) :
       calls[p] =
         IF MustEscape(s[p]) THEN <<Put(EscapeText(s[p]))>> \o calls[p + 1]
         ELSE IF kason_schema_utf8_sequence(s, p) = 0 THEN <<Spoil("TYPE")>>
         ELSE <<Put(SubSeq(s, p, p + kason_schema_utf8_sequence(s, p) - 1))>>
                \o calls[p + kason_schema_utf8_sequence(s, p)]

LEMMA JsonCalls ==
  ASSUME NEW s \in Seq(Byte)
  PROVE  \E calls : /\ Spells(s, calls)
                    /\ kason_writer_json_string(s) = <<Put(<<QUOTE>>)>> \o calls[1]
<1> DEFINE n == Len(s)
           S == 1..(n + 1)
           T == Seq(Token)
           next(p) == p + kason_schema_utf8_sequence(s, p)
           body(f, p) ==
             IF p > Len(s) THEN <<Put(<<QUOTE>>)>>
             ELSE IF MustEscape(s[p]) THEN <<Put(EscapeText(s[p]))>> \o f[p + 1]
             ELSE IF kason_schema_utf8_sequence(s, p) = 0 THEN <<Spoil("TYPE")>>
             ELSE <<Put(SubSeq(s, p, p + kason_schema_utf8_sequence(s, p) - 1))>>
                    \o f[p + kason_schema_utf8_sequence(s, p)]
           F == [f \in [S -> T] |-> [p \in S |-> body(f, p)]]
           calls == CHOOSE f : f = [p \in 1..(Len(s) + 1) |-> body(f, p)]
<1>1. n \in Nat
  OBVIOUS
<1>2. kason_writer_json_string(s) = <<Put(<<QUOTE>>)>> \o calls[1]
  BY DEF kason_writer_json_string
<1>3. Put(<<QUOTE>>) \in Token
  <2>1. QUOTE \in Byte
    BY DEF QUOTE, Byte
  <2> QED BY <2>1, BytesOfOne, TokenTypes
<1>4. \A p \in 1..n : p + 1 \in S /\ p + 1 > p /\ s[p] \in Byte
  OBVIOUS
<1>5. ASSUME NEW p \in S, NEW f, \A r \in S : r > p => f[r] \in T PROVE body(f, p) \in T
  <2>1. CASE p > Len(s)
    <3>1. body(f, p) = <<Put(<<QUOTE>>)>>
      BY <2>1
    <3> HIDE DEF body
    <3> QED BY <1>3, <3>1
  <2>2. CASE ~(p > Len(s)) /\ MustEscape(s[p])
    <3>1. p \in 1..n
      BY <1>1, <2>2
    <3>2. f[p + 1] \in T /\ s[p] \in Byte
      BY <1>4, <1>5, <3>1
    <3>3. s[p] \in Nat
      <4>1. \A c \in Byte : c \in Nat
        BY DEF Byte
      <4> QED BY <3>2, <4>1
    <3>4. Put(EscapeText(s[p])) \in Token
      BY <2>2, <3>3, EscapeType, TokenTypes
    <3>5. body(f, p) = <<Put(EscapeText(s[p]))>> \o f[p + 1]
      BY <2>2
    <3> HIDE DEF body
    <3> QED BY <3>2, <3>4, <3>5
  <2>3. CASE ~(p > Len(s)) /\ ~MustEscape(s[p]) /\ kason_schema_utf8_sequence(s, p) = 0
    <3>1. body(f, p) = <<Spoil("TYPE")>>
      BY <2>3
    <3> HIDE DEF body
    <3> QED BY <3>1, TokenTypes
  <2>4. CASE ~(p > Len(s)) /\ ~MustEscape(s[p]) /\ kason_schema_utf8_sequence(s, p) # 0
    <3>1. p \in 1..n
      BY <1>1, <2>4
    <3>2. next(p) \in S /\ next(p) > p
      BY <2>4, <3>1, SequenceStep
    <3>3. f[next(p)] \in T
      BY <1>5, <3>2
    <3>4. Put(SubSeq(s, p, p + kason_schema_utf8_sequence(s, p) - 1)) \in Token
      BY <2>4, <3>1, SequenceStep, TokenTypes
    <3>5. body(f, p) = <<Put(SubSeq(s, p, p + kason_schema_utf8_sequence(s, p) - 1))>> \o f[next(p)]
      BY <2>4
    <3> HIDE DEF body, next
    <3> QED BY <3>3, <3>4, <3>5
  <2> QED BY <2>1, <2>2, <2>3, <2>4
<1>6. Forward(n, T, F)
  <2>1. F \in [[S -> T] -> [S -> T]]
    <3>1. \A f \in [S -> T] : \A p \in S : body(f, p) \in T
      BY <1>5
    <3> HIDE DEF body, S, T
    <3> QED BY <3>1
  <2>2. T # {}
    <3>1. << >> \in T
      OBVIOUS
    <3> HIDE DEF T
    <3> QED BY <3>1
  <2>3. ASSUME NEW g \in [S -> T], NEW h \in [S -> T], NEW p \in S,
               \A r \in S : r > p => g[r] = h[r]
        PROVE  F[g][p] = F[h][p]
    <3>1. CASE p > Len(s)
      BY <3>1
    <3>2. CASE ~(p > Len(s))
      <4>1. p \in 1..n
        BY <1>1, <3>2
      <4>2. g[p + 1] = h[p + 1]
        BY <1>4, <2>3, <4>1
      <4>3. kason_schema_utf8_sequence(s, p) # 0 => g[next(p)] = h[next(p)]
        BY <2>3, <4>1, SequenceStep
      <4>4. body(g, p) = body(h, p)
        BY <4>2, <4>3
      <4> HIDE DEF body
      <4> QED BY <2>3, <4>4
    <3> QED BY <3>1, <3>2
  <2> HIDE DEF F, T, n
  <2> QED BY <2>1, <2>2, <2>3 DEF Forward
<1>7. PICK f : Solution(S, T, F, f)
  <2> HIDE DEF F, n, T
  <2> QED BY <1>1, <1>6, ForwardRecursion
<1>8. f = [p \in 1..(Len(s) + 1) |-> body(f, p)]
  <2>1. f \in [S -> T] /\ \A p \in S : f[p] = F[f][p]
    <3> HIDE DEF F, T, S
    <3> QED BY <1>7 DEF Solution
  <2>2. \A p \in S : F[f][p] = body(f, p)
    <3> HIDE DEF body, T, S
    <3> QED BY <2>1
  <2> HIDE DEF body, F, T
  <2> QED BY <2>1, <2>2
<1>9. calls = [p \in 1..(Len(s) + 1) |-> body(calls, p)]
  BY <1>8
<1> HIDE DEF calls, T, F
<1>10. \A p \in S : calls[p] \in T
  <2> DEFINE P == {p \in S : calls[p] \in T}
  <2>1. ASSUME NEW p \in S, \A r \in S : r > p => r \in P PROVE p \in P
    <3>1. calls[p] = body(calls, p)
      BY <1>9
    <3>2. body(calls, p) \in T
      BY <1>5, <2>1
    <3> HIDE DEF body
    <3> QED BY <3>1, <3>2
  <2>2. Backward(n, P)
    BY <2>1 DEF Backward
  <2> HIDE DEF P, n
  <2>3. P = 1..(n + 1)
    BY <1>1, <2>2, BackwardInduction
  <2> QED BY <2>3 DEF P
<1>11. \A p \in 1..Len(s) :
         calls[p] =
           IF MustEscape(s[p]) THEN <<Put(EscapeText(s[p]))>> \o calls[p + 1]
           ELSE IF kason_schema_utf8_sequence(s, p) = 0 THEN <<Spoil("TYPE")>>
           ELSE <<Put(SubSeq(s, p, p + kason_schema_utf8_sequence(s, p) - 1))>>
                  \o calls[p + kason_schema_utf8_sequence(s, p)]
  <2> TAKE p \in 1..Len(s)
  <2>1. p \in 1..(Len(s) + 1) /\ ~(p > Len(s))
    BY <1>1
  <2>2. calls[p] = body(calls, p)
    <3> HIDE DEF body
    <3> QED BY <1>9, <2>1
  <2> QED BY <2>1, <2>2
<1>12. calls[Len(s) + 1] = <<Put(<<QUOTE>>)>>
  <2>1. Len(s) + 1 \in 1..(Len(s) + 1) /\ Len(s) + 1 > Len(s)
    BY <1>1
  <2>2. calls[Len(s) + 1] = body(calls, Len(s) + 1)
    <3> HIDE DEF body
    <3> QED BY <1>9, <2>1
  <2> QED BY <2>1, <2>2
<1>13. calls \in [1..(Len(s) + 1) -> T]
  <2> HIDE DEF body
  <2> QED BY <1>9, <1>10
<1> QED BY <1>2, <1>11, <1>12, <1>13 DEF Spells, T

LEMMA JsonString ==
  ASSUME NEW s \in Seq(Byte)
  PROVE  kason_writer_json_string(s) \in Seq(Token)
<1>1. PICK calls : Spells(s, calls) /\ kason_writer_json_string(s) = <<Put(<<QUOTE>>)>> \o calls[1]
  BY JsonCalls
<1>2. calls[1] \in Seq(Token)
  <2>1. 1 \in 1..(Len(s) + 1)
    OBVIOUS
  <2> QED BY <1>1, <2>1 DEF Spells
<1>3. <<Put(<<QUOTE>>)>> \in Seq(Token)
  <2>1. QUOTE \in Byte
    BY DEF QUOTE, Byte
  <2>2. Put(<<QUOTE>>) \in Token
    BY <2>1, BytesOfOne, TokenTypes
  <2> QED BY <2>2
<1> QED BY <1>1, <1>2, <1>3

\* The scalars of a string in UTF-16.
PairOf(s, p) == 65536 + ((s[p] - 55296) * 1024) + (s[p + 1] - 56320)
ScalarsAt(s, scalars, p) ==
  IF s[p] \in HighSurrogate THEN <<PairOf(s, p)>> \o scalars[p + 2]
  ELSE <<s[p]>> \o scalars[p + 1]
Spells16(s, scalars) ==
  /\ scalars \in [1..(Len(s) + 1) -> Seq(Nat)] /\ scalars[Len(s) + 1] = << >>
  /\ \A p \in 1..Len(s) : scalars[p] = ScalarsAt(s, scalars, p)

LEMMA SurrogatesPair ==
  ASSUME NEW s \in Seq(Nat), kason_schema_utf16_valid(s), NEW p \in 1..Len(s)
  PROVE  /\ s[p] \in Nat
         /\ s[p] \in HighSurrogate => p < Len(s) /\ s[p + 1] \in LowSurrogate
         /\ s[p] \in LowSurrogate => p > 1 /\ s[p - 1] \in HighSurrogate
<1>1. p \in DOMAIN s /\ s[p] \in Nat
  OBVIOUS
<1> QED BY <1>1, Zenon DEF kason_schema_utf16_valid

LEMMA ScalarsFrom ==
  ASSUME NEW s \in Seq(Nat), kason_schema_utf16_valid(s)
  PROVE  \E scalars : Spells16(s, scalars) /\ Scalars16(s) = scalars[1]
<1> DEFINE n == Len(s)
           S == 1..(n + 1)
           T == Seq(Nat)
           pair(p) == 65536 + ((s[p] - 55296) * 1024) + (s[p + 1] - 56320)
           body(f, p) == IF p > Len(s) THEN << >>
                         ELSE IF s[p] \in HighSurrogate
                         THEN <<65536 + ((s[p] - 55296) * 1024) + (s[p + 1] - 56320)>> \o f[p + 2]
                         ELSE <<s[p]>> \o f[p + 1]
           F == [f \in [S -> T] |-> [p \in S |-> body(f, p)]]
           scalars == CHOOSE f : f = [p \in 1..(Len(s) + 1) |-> body(f, p)]
<1>1. n \in Nat
  OBVIOUS
<1>2. Scalars16(s) = scalars[1]
  BY DEF Scalars16
<1>3. \A p \in 1..n : p + 1 \in S /\ p + 1 > p /\ s[p] \in Nat
  OBVIOUS
<1>4. ASSUME NEW p \in 1..n, s[p] \in HighSurrogate
      PROVE  p + 2 \in S /\ p + 2 > p /\ pair(p) \in Nat
  <2>1. p < n /\ s[p + 1] \in LowSurrogate
    BY <1>4 DEF kason_schema_utf16_valid
  <2>2. p + 2 \in S /\ p + 2 > p
    BY <1>1, <2>1
  <2>3. \A x \in HighSurrogate : \A y \in LowSurrogate : 65536 + ((x - 55296) * 1024) + (y - 56320) \in Nat
    BY SMT DEF HighSurrogate, LowSurrogate
  <2>4. pair(p) \in Nat
    BY SMTT(40), <1>4, <2>1, <2>3
  <2> HIDE DEF pair
  <2> QED BY <2>2, <2>4
<1>5. ASSUME NEW p \in S, NEW f, \A r \in S : r > p => f[r] \in T PROVE body(f, p) \in T
  <2>1. CASE p > Len(s)
    <3>1. body(f, p) = << >>
      BY <2>1
    <3> HIDE DEF body
    <3> QED BY <3>1
  <2>2. CASE ~(p > Len(s)) /\ s[p] \in HighSurrogate
    <3>1. p \in 1..n
      BY <1>1, <2>2
    <3>2. f[p + 2] \in T /\ pair(p) \in Nat
      BY <1>4, <1>5, <2>2, <3>1
    <3>3. body(f, p) = <<pair(p)>> \o f[p + 2]
      <4> DEFINE P == p > Len(s)
                 Q == s[p] \in HighSurrogate
                 x == <<pair(p)>> \o f[p + 2]
                 y == <<s[p]>> \o f[p + 1]
      <4>1. body(f, p) = IF P THEN << >> ELSE IF Q THEN x ELSE y
        OBVIOUS
      <4>2. ~P /\ Q
        BY <2>2
      <4> HIDE DEF body, P, Q, x, y
      <4>3. body(f, p) = x
        BY <4>1, <4>2, Zenon
      <4> QED BY <4>3 DEF x
    <3> HIDE DEF body, pair
    <3> QED BY <3>2, <3>3
  <2>3. CASE ~(p > Len(s)) /\ s[p] \notin HighSurrogate
    <3>1. p \in 1..n
      BY <1>1, <2>3
    <3>2. f[p + 1] \in T /\ s[p] \in Nat
      BY <1>3, <1>5, <3>1
    <3>3. body(f, p) = <<s[p]>> \o f[p + 1]
      BY <2>3
    <3> HIDE DEF body
    <3> QED BY <3>2, <3>3
  <2> QED BY <2>1, <2>2, <2>3
<1>6. Forward(n, T, F)
  <2>1. F \in [[S -> T] -> [S -> T]]
    <3> HIDE DEF body, S, T
    <3>1. \A f \in [S -> T] : \A p \in S : body(f, p) \in T
      BY <1>5
    <3> QED BY <3>1
  <2>2. T # {}
    <3>1. << >> \in T
      OBVIOUS
    <3> HIDE DEF T
    <3> QED BY <3>1
  <2>3. ASSUME NEW g \in [S -> T], NEW h \in [S -> T], NEW p \in S,
               \A r \in S : r > p => g[r] = h[r]
        PROVE  F[g][p] = F[h][p]
    <3>1. CASE p > Len(s)
      BY <3>1
    <3>2. CASE ~(p > Len(s))
      <4>1. p \in 1..n
        BY <1>1, <3>2
      <4>2. g[p + 1] = h[p + 1]
        BY <1>3, <2>3, <4>1
      <4>3. s[p] \in HighSurrogate => g[p + 2] = h[p + 2]
        BY <1>4, <2>3, <4>1
      <4>4. body(g, p) = body(h, p)
        BY <4>2, <4>3
      <4> HIDE DEF body
      <4> QED BY <2>3, <4>4
    <3> QED BY <3>1, <3>2
  <2> HIDE DEF F, T, n
  <2> QED BY <2>1, <2>2, <2>3 DEF Forward
<1>7. PICK f : Solution(S, T, F, f)
  <2> HIDE DEF F, n, T
  <2> QED BY <1>1, <1>6, ForwardRecursion
<1>8. f = [p \in 1..(Len(s) + 1) |-> body(f, p)]
  <2>1. f \in [S -> T] /\ \A p \in S : f[p] = F[f][p]
    <3> HIDE DEF F, T, S
    <3> QED BY <1>7 DEF Solution
  <2>2. \A p \in S : F[f][p] = body(f, p)
    <3> HIDE DEF body, T, S
    <3> QED BY <2>1
  <2> HIDE DEF body, F, T
  <2> QED BY <2>1, <2>2
<1>9. scalars = [p \in 1..(Len(s) + 1) |-> body(scalars, p)]
  <2> HIDE DEF body
  <2> QED BY <1>8
<1> HIDE DEF scalars, T, F
<1> DEFINE P == {p \in S : scalars[p] \in T}
<1>10. ASSUME NEW p \in S, \A r \in S : r > p => r \in P PROVE p \in P
  <2>1. scalars[p] = body(scalars, p)
    <3> HIDE DEF body
    <3> QED BY <1>9
  <2> HIDE DEF body
  <2>2. body(scalars, p) \in T
    BY <1>5, <1>10
  <2> QED BY <2>1, <2>2
<1>11. Backward(n, P)
  BY <1>10 DEF Backward
<1> HIDE DEF P
<1>12. P = 1..(n + 1)
  <2> HIDE DEF n
  <2> QED BY <1>1, <1>11, BackwardInduction
<1>13. scalars \in [1..(Len(s) + 1) -> T]
  <2> HIDE DEF body
  <2> QED BY <1>9, <1>12 DEF P
<1>14. \A p \in 1..Len(s) : scalars[p] = ScalarsAt(s, scalars, p)
  <2> TAKE p \in 1..Len(s)
  <2>1. p \in 1..(Len(s) + 1) /\ ~(p > Len(s))
    BY <1>1
  <2>2. scalars[p] = body(scalars, p)
    <3> HIDE DEF body
    <3> QED BY <1>9, <2>1
  <2> DEFINE A == s[p] \in HighSurrogate
             x == <<PairOf(s, p)>> \o scalars[p + 2]
             y == <<s[p]>> \o scalars[p + 1]
             B == p > Len(s)
  <2>3. body(scalars, p) = IF B THEN << >> ELSE IF A THEN x ELSE y
    BY DEF PairOf
  <2>4. ScalarsAt(s, scalars, p) = IF A THEN x ELSE y
    BY Zenon DEF ScalarsAt
  <2> HIDE DEF body, A, x, y
  <2> QED BY <2>1, <2>2, <2>3, <2>4
<1>15. scalars[Len(s) + 1] = << >>
  <2>1. Len(s) + 1 \in 1..(Len(s) + 1) /\ Len(s) + 1 > Len(s)
    BY <1>1
  <2>2. scalars[Len(s) + 1] = body(scalars, Len(s) + 1)
    <3> HIDE DEF body
    <3> QED BY <1>9, <2>1
  <2> QED BY <2>1, <2>2
<1>16. Spells16(s, scalars)
  <2> HIDE DEF body, n
  <2> QED BY <1>13, <1>14, <1>15 DEF Spells16, T
<1> QED BY <1>2, <1>16

LEMMA SpellsStep ==
  ASSUME NEW s \in Seq(Nat), NEW scalars, Spells16(s, scalars), NEW p \in 1..Len(s)
  PROVE  /\ s[p] \in HighSurrogate => scalars[p] = <<PairOf(s, p)>> \o scalars[p + 2]
         /\ s[p] \notin HighSurrogate => scalars[p] = <<s[p]>> \o scalars[p + 1]
<1>1. scalars[p] = ScalarsAt(s, scalars, p)
  BY DEF Spells16
<1> QED BY <1>1, Zenon DEF ScalarsAt

LEMMA ScalarsPair ==
  ASSUME NEW s \in Seq(Nat), kason_schema_utf16_valid(s), NEW scalars, Spells16(s, scalars),
         NEW p \in 1..Len(s), s[p] \in HighSurrogate, scalars[p + 2] \in Seq(UnicodeScalar)
  PROVE  scalars[p] \in Seq(UnicodeScalar)
<1>1. s[p + 1] \in LowSurrogate
  BY SurrogatesPair
<1>2. \A x \in HighSurrogate : \A y \in LowSurrogate :
        65536 + ((x - 55296) * 1024) + (y - 56320) \in UnicodeScalar
  BY SMT DEF HighSurrogate, LowSurrogate, UnicodeScalar
<1>3. PairOf(s, p) \in UnicodeScalar
  BY SMTT(40), <1>1, <1>2 DEF PairOf
<1>4. scalars[p] = <<PairOf(s, p)>> \o scalars[p + 2]
  BY SpellsStep
<1> QED BY <1>3, <1>4

LEMMA ScalarsPlain ==
  ASSUME NEW s \in Seq(Nat), NEW scalars, Spells16(s, scalars), NEW p \in 1..Len(s),
         s[p] \notin HighSurrogate, s[p] \in UnicodeScalar, scalars[p + 1] \in Seq(UnicodeScalar)
  PROVE  scalars[p] \in Seq(UnicodeScalar)
<1>1. scalars[p] = <<s[p]>> \o scalars[p + 1]
  BY SpellsStep
<1> QED BY <1>1

\* Pairs of surrogates are one scalar, and no other is left.
LEMMA ScalarsType ==
  ASSUME NEW s \in Seq(Nat), kason_schema_utf16_valid(s), \A p \in DOMAIN s : s[p] <= 65535
  PROVE  Scalars16(s) \in Seq(UnicodeScalar)
<1> DEFINE n == Len(s)
           S == 1..(n + 1)
           T == Seq(UnicodeScalar)
           U(q) == q = n + 1 \/ s[q] \notin LowSurrogate
<1>1. PICK scalars : Spells16(s, scalars) /\ Scalars16(s) = scalars[1]
  BY ScalarsFrom
<1> DEFINE P == {q \in S : U(q) => scalars[q] \in T}
<1>2. n \in Nat
  OBVIOUS
<1>3. ASSUME NEW p \in S, \A r \in S : r > p => r \in P, U(p) PROVE scalars[p] \in T
  <2>1. CASE p = n + 1
    <3>1. scalars[p] = << >>
      BY <1>1, <2>1 DEF Spells16
    <3> QED BY <3>1
  <2>2. CASE p # n + 1 /\ s[p] \in HighSurrogate
    <3> DEFINE v == PairOf(s, p)
    <3>1. p \in 1..Len(s)
      BY <1>2, <2>2
    <3>2. p < Len(s) /\ s[p + 1] \in LowSurrogate
      BY <2>2, <3>1, SurrogatesPair
    <3>3. p + 2 \in S /\ p + 2 > p /\ (p + 2 # n + 1 => p + 2 \in 1..Len(s))
      BY <1>2, <3>1, <3>2
    <3>4. s[p + 1] \notin HighSurrogate
      BY <3>2, HighIsNotLow
    <3>5. U(p + 2)
      <4> SUFFICES ASSUME p + 2 # n + 1, s[p + 2] \in LowSurrogate PROVE FALSE
        OBVIOUS
      <4>1. p + 2 \in 1..Len(s) /\ (p + 2) - 1 = p + 1
        BY <3>1, <3>3
      <4>2. s[(p + 2) - 1] \in HighSurrogate
        BY <4>1, SurrogatesPair
      <4> QED BY <3>4, <4>1, <4>2
    <3>6. scalars[p + 2] \in T
      BY <1>3, <3>3, <3>5
    <3> QED BY <1>1, <2>2, <3>1, <3>6, ScalarsPair
  <2>3. CASE p # n + 1 /\ s[p] \notin HighSurrogate
    <3>1. p \in 1..Len(s) /\ p \in DOMAIN s
      BY <1>2, <2>3
    <3>2. p + 1 \in S /\ p + 1 > p
      BY <1>2, <3>1
    <3>3. U(p + 1)
      <4> SUFFICES ASSUME p + 1 # n + 1, s[p + 1] \in LowSurrogate PROVE FALSE
        OBVIOUS
      <4>1. p + 1 \in 1..Len(s) /\ (p + 1) - 1 = p
        BY <1>2, <3>1, <3>2
      <4>2. s[(p + 1) - 1] \in HighSurrogate
        BY <4>1, SurrogatesPair
      <4> QED BY <2>3, <4>1, <4>2
    <3>4. scalars[p + 1] \in T
      BY <1>3, <3>2, <3>3
    <3>5. s[p] \in Nat /\ s[p] \notin LowSurrogate
      BY <1>3, <2>3, <3>1
    <3>6. s[p] <= 65535
      BY <3>1
    <3>7. s[p] \in UnicodeScalar
      <4>1. \A x \in Nat : x <= 65535 /\ x \notin HighSurrogate /\ x \notin LowSurrogate =>
                            x \in UnicodeScalar
        BY SMT DEF HighSurrogate, LowSurrogate, UnicodeScalar
      <4> HIDE DEF UnicodeScalar
      <4> QED BY <2>3, <3>5, <3>6, <4>1
    <3> QED BY <1>1, <2>3, <3>1, <3>4, <3>7, ScalarsPlain
  <2> QED BY <2>1, <2>2, <2>3
<1>4. P \in SUBSET S
  OBVIOUS
<1>5. Backward(n, P)
  BY <1>3, <1>4 DEF Backward
<1>6. U(1)
  <2> SUFFICES ASSUME n # 0, s[1] \in LowSurrogate PROVE FALSE
    BY <1>2
  <2>1. 1 \in 1..Len(s) /\ ~(1 > 1)
    BY <1>2
  <2> QED BY <2>1, SurrogatesPair
<1>7. 1 \in 1..(n + 1)
  BY <1>2
<1> HIDE DEF n, P
<1>8. P = 1..(n + 1)
  BY <1>2, <1>5, BackwardInduction
<1>9. scalars[1] \in T
  BY <1>6, <1>7, <1>8 DEF P
<1> QED BY <1>1, <1>9

\* A scalar, and a string of them.
LEMMA ScalarToken == \A v \in Nat : kason_writer_json_scalar(v) \in Token
<1> TAKE v \in Nat
<1> DEFINE P == MustEscape(v)
           Q == v \in Surrogate \/ v > 1114111
<1>1. kason_writer_json_scalar(v) = CASE P -> Put(EscapeText(v)) [] Q -> Spoil("TYPE")
                                      [] OTHER -> Put(kason_utf8_encode(v))
  BY DEF kason_writer_json_scalar
<1>2. P => ~Q
  BY SMTT(40) DEF MustEscape, QUOTE, BACKSLASH, Surrogate
<1>3. P => Put(EscapeText(v)) \in Token
  BY EscapeType, TokenTypes
<1>4. ~Q => Put(kason_utf8_encode(v)) \in Token
  <2>1. ~Q => v \in UnicodeScalar
    BY SMT DEF UnicodeScalar, Surrogate
  <2> QED BY <2>1, EncodeType, TokenTypes
<1> HIDE DEF P, Q
<1>5. CASE P
  <2>1. kason_writer_json_scalar(v) = Put(EscapeText(v))
    BY <1>1, <1>2, <1>5, Zenon
  <2> QED BY <1>3, <1>5, <2>1
<1>6. CASE ~P /\ Q
  <2>1. kason_writer_json_scalar(v) = Spoil("TYPE")
    BY <1>1, <1>6, Zenon
  <2> QED BY <2>1, TokenTypes
<1>7. CASE ~P /\ ~Q
  <2>1. kason_writer_json_scalar(v) = Put(kason_utf8_encode(v))
    BY <1>1, <1>7, Zenon
  <2> QED BY <1>4, <1>7, <2>1
<1> QED BY <1>5, <1>6, <1>7

LEMMA QuotedType == ASSUME NEW s \in Seq(Nat) PROVE Quoted(s) \in Seq(Token)
<1>1. QUOTE \in Byte
  BY DEF QUOTE, Byte
<1>2. <<Put(<<QUOTE>>)>> \in Seq(Token)
  <2>1. Put(<<QUOTE>>) \in Token
    BY <1>1, BytesOfOne, TokenTypes
  <2> QED BY <2>1
<1> DEFINE calls == [p \in DOMAIN s |-> kason_writer_json_scalar(s[p])]
<1>3. calls \in Seq(Token)
  <2>1. DOMAIN s = 1..Len(s) /\ Len(s) \in Nat /\ \A p \in 1..Len(s) : s[p] \in Nat
    OBVIOUS
  <2>2. \A p \in 1..Len(s) : kason_writer_json_scalar(s[p]) \in Token
    BY <2>1, ScalarToken
  <2>3. calls = [p \in 1..Len(s) |-> kason_writer_json_scalar(s[p])]
    BY <2>1
  <2> HIDE DEF calls
  <2>4. calls \in [1..Len(s) -> Token]
    BY <2>2, <2>3
  <2> QED BY <2>1, <2>4
<1>4. Quoted(s) = <<Put(<<QUOTE>>)>> \o calls \o <<Put(<<QUOTE>>)>>
  BY DEF Quoted
<1> HIDE DEF calls
<1> QED BY <1>2, <1>3, <1>4

\* The text in a buffer that has a NUL.
LEMMA TextType ==
  ASSUME NEW N \in SUBSET Nat, NEW s \in Seq(N), Terminated(s)
  PROVE  Text(s) \in Seq(N) /\ FirstNul(s) \in 1..Len(s)
<1> DEFINE Nuls == {p \in 1..Len(s) : s[p] = 0}
<1>1. DOMAIN s = 1..Len(s) /\ Len(s) \in Nat
  OBVIOUS
<1>2. Nuls # {} /\ Nuls \in SUBSET Nat
  BY <1>1 DEF Terminated
<1>3. PICK p \in Nuls : \A q \in Nuls : p <= q
  BY <1>2, LeastNat
<1>4. p \in DOMAIN s /\ s[p] = 0 /\ \A q \in 1..(p - 1) : s[q] # 0
  <2>1. p \in 1..Len(s) /\ s[p] = 0
    OBVIOUS
  <2>2. ASSUME NEW q \in 1..(p - 1), s[q] = 0 PROVE FALSE
    <3>1. q \in Nuls /\ ~(p <= q)
      BY <1>1, <2>1, <2>2
    <3> QED BY <1>3, <3>1
  <2> QED BY <1>1, <2>1, <2>2
<1>5. FirstNul(s) \in DOMAIN s
  BY <1>4 DEF FirstNul
<1>6. FirstNul(s) \in 1..Len(s)
  BY <1>1, <1>5
<1>7. Text(s) = SubSeq(s, 1, FirstNul(s) - 1)
  BY DEF Text
<1>8. SubSeq(s, 1, FirstNul(s) - 1) \in Seq(N)
  <2>1. CASE FirstNul(s) = 1
    BY <1>1, <2>1, SubSeqProperties
  <2>2. CASE FirstNul(s) # 1
    <3>1. FirstNul(s) - 1 \in 1..Len(s) /\ 1 \in 1..Len(s)
      BY <1>1, <1>6, <2>2
    <3> QED BY <1>1, <3>1, SubSeqProperties
  <2> QED BY <2>1, <2>2
<1> QED BY <1>6, <1>7, <1>8

\* The calls for a scalar.
LEMMA BoolType == \A v : kason_schema_pack_scalar("BOOL", v) \in Seq(Token)
<1> TAKE v
<1> DEFINE token == IF v = 1 THEN Put(TEXT_TRUE) ELSE IF v = 0 THEN Put(TEXT_FALSE) ELSE Stop("TYPE")
<1>1. kason_schema_pack_scalar("BOOL", v) = <<token>>
  BY DEF kason_schema_pack_scalar
<1>2. TEXT_TRUE \in Seq(Byte) /\ TEXT_FALSE \in Seq(Byte)
  BY DEF TEXT_TRUE, TEXT_FALSE, Byte
<1>3. token \in Token
  BY <1>2, TokenTypes DEF Codes
<1> HIDE DEF token
<1>4. <<token>> \in Seq(Token)
  BY <1>3
<1> QED BY <1>1, <1>4

LEMMA BufferType ==
  ASSUME NEW field, field.type \in StringTypes, NEW v, ElementTyped(field, v)
  PROVE  v \in Seq(Unit(field.type))
<1>1. CASE field.type = "STRING"
  BY <1>1, Zenon DEF ElementTyped, StringTypes, IntegerTypes
<1>2. CASE field.type = "STRING_U16"
  BY <1>2, Zenon DEF ElementTyped, StringTypes, IntegerTypes
<1>3. CASE field.type = "STRING_U32"
  BY <1>3, Zenon DEF ElementTyped, StringTypes, IntegerTypes
<1> QED BY <1>1, <1>2, <1>3 DEF StringTypes

LEMMA WiderSeq ==
  ASSUME NEW A, NEW B, A \subseteq B, NEW t \in Seq(A)
  PROVE  t \in Seq(B)
<1>1. t \in [1..Len(t) -> A] /\ Len(t) \in Nat
  OBVIOUS
<1>2. t \in [1..Len(t) -> B]
  BY <1>1
<1> QED BY <1>1, <1>2

LEMMA Units8 == Unit("STRING") \subseteq Byte
BY DEF Unit
Narrow(N) == \A x \in N : x <= 65535
LEMMA Units16 == Unit("STRING_U16") \subseteq Nat /\ Narrow(Unit("STRING_U16"))
BY DEF Unit, Narrow
LEMMA Units32 == Unit("STRING_U32") \subseteq Nat
BY DEF Unit

LEMMA Buffer16 ==
  ASSUME NEW field, field.type = "STRING_U16", NEW v, ElementTyped(field, v)
  PROVE  \E N \in SUBSET Nat : v \in Seq(N) /\ Narrow(N)
<1>1. v \in Seq(Unit("STRING_U16"))
  BY BufferType DEF StringTypes
<1> DEFINE U == Unit("STRING_U16")
<1>2. U \subseteq Nat /\ Narrow(U)
  BY Units16
<1> HIDE DEF U
<1> QED BY <1>1, <1>2 DEF U

LEMMA PackScalarType ==
  ASSUME NEW field, FieldTyped(field), field.type # "STRUCT",
         NEW v, ElementTyped(field, v)
  PROVE  kason_schema_pack_scalar(field.type, v) \in Seq(Token)
<1>1. CASE field.type = "BOOL"
  BY <1>1, BoolType
<1>2. CASE field.type \in {"INT", "INT64"}
  <2>1. v \in Int
    BY <1>2 DEF ElementTyped, StringTypes, IntegerTypes
  <2>2. kason_schema_pack_scalar(field.type, v) = <<Put(kason_writer_signed(v))>>
    BY <1>2 DEF kason_schema_pack_scalar
  <2>3. Put(kason_writer_signed(v)) \in Token
    BY <2>1, SignedText, TokenTypes
  <2> QED BY <2>2, <2>3
<1>3. CASE field.type \in {"U32", "U64"}
  <2>1. v \in Int /\ InRange(field.type, v)
    BY <1>3 DEF ElementTyped, StringTypes, IntegerTypes
  <2>2. v \in Nat
    BY <1>3, <2>1 DEF InRange
  <2>3. kason_schema_pack_scalar(field.type, v) = <<Put(kason_schema_unsigned_text[v])>>
    BY <1>3 DEF kason_schema_pack_scalar
  <2>4. Put(kason_schema_unsigned_text[v]) \in Token
    BY <2>2, UnsignedText, TokenTypes
  <2> QED BY <2>3, <2>4
<1>4. CASE field.type = "DOUBLE"
  <2>1. v \in Seq(Byte)
    BY <1>4 DEF ElementTyped, StringTypes, IntegerTypes
  <2> DEFINE token == IF v = << >> THEN Spoil("TYPE") ELSE Put(v)
  <2>2. kason_schema_pack_scalar(field.type, v) = <<token>>
    BY <1>4 DEF kason_schema_pack_scalar
  <2>3. token \in Token
    BY <2>1, TokenTypes
  <2> HIDE DEF token
  <2> QED BY <2>2, <2>3
<1>5. CASE field.type = "STRING"
  <2>1. v \in Seq(Byte)
    <3>1. v \in Seq(Unit("STRING"))
      BY <1>5, BufferType DEF StringTypes
    <3> DEFINE U == Unit("STRING")
    <3>2. U \subseteq Byte
      BY Units8
    <3> HIDE DEF U
    <3>3. v \in Seq(U)
      BY <3>1 DEF U
    <3> QED BY <3>2, <3>3, WiderSeq
  <2>2. kason_schema_pack_scalar(field.type, v) =
          IF Terminated(v) THEN kason_writer_json_string(Text(v)) ELSE <<Stop("STRING_CAPACITY")>>
    BY <1>5 DEF kason_schema_pack_scalar
  <2>3. Byte \in SUBSET Nat
    BY DEF Byte
  <2>4. Terminated(v) => kason_writer_json_string(Text(v)) \in Seq(Token)
    BY <2>1, <2>3, TextType, JsonString
  <2>5. Stop("STRING_CAPACITY") \in Token
    BY TokenTypes DEF Codes
  <2>6. <<Stop("STRING_CAPACITY")>> \in Seq(Token)
    BY <2>5
  <2> QED BY <2>2, <2>4, <2>6
<1>6. Spoil("TYPE") \in Token /\ <<Spoil("TYPE")>> \in Seq(Token)
  BY TokenTypes
<1>7. CASE field.type = "STRING_U16"
  <2>1. PICK N \in SUBSET Nat : v \in Seq(N) /\ Narrow(N)
    BY <1>7, Buffer16
  <2>2. kason_schema_pack_scalar(field.type, v) = kason_writer_json_string_u16(v)
    BY <1>7 DEF kason_schema_pack_scalar
  <2>3. N \in SUBSET Nat
    OBVIOUS
  <2>4. Terminated(v) => Text(v) \in Seq(N)
    BY <2>1, <2>3, TextType
  <2>5. Terminated(v) => Text(v) \in Seq(Nat) /\ \A p \in DOMAIN Text(v) : Text(v)[p] <= 65535
    <3> SUFFICES ASSUME Terminated(v)
                 PROVE  Text(v) \in Seq(Nat) /\ \A p \in DOMAIN Text(v) : Text(v)[p] <= 65535
      OBVIOUS
    <3>1. N \subseteq Nat /\ Text(v) \in Seq(N)
      BY <2>4
    <3>2. \A p \in DOMAIN Text(v) : Text(v)[p] \in N
      BY <3>1
    <3>3. Text(v) \in Seq(Nat)
      BY <3>1, WiderSeq
    <3> QED BY <2>1, <3>2, <3>3 DEF Narrow
  <2>6. Terminated(v) /\ kason_schema_utf16_valid(Text(v)) => Quoted(Scalars16(Text(v))) \in Seq(Token)
    <3> SUFFICES ASSUME Terminated(v), kason_schema_utf16_valid(Text(v))
                 PROVE  Quoted(Scalars16(Text(v))) \in Seq(Token)
      OBVIOUS
    <3>1. UnicodeScalar \subseteq Nat
      BY DEF UnicodeScalar
    <3>2. Scalars16(Text(v)) \in Seq(UnicodeScalar)
      BY <2>5, ScalarsType
    <3>3. Scalars16(Text(v)) \in Seq(Nat)
      BY <3>1, <3>2, WiderSeq
    <3> QED BY <3>3, QuotedType
  <2> QED BY <1>6, <2>2, <2>6 DEF kason_writer_json_string_u16
<1>8. CASE field.type = "STRING_U32"
  <2>1. v \in Seq(Nat)
    <3>1. v \in Seq(Unit("STRING_U32"))
      BY <1>8, BufferType DEF StringTypes
    <3> DEFINE U == Unit("STRING_U32")
    <3>2. U \subseteq Nat
      BY Units32
    <3> HIDE DEF U
    <3>3. v \in Seq(U)
      BY <3>1 DEF U
    <3> QED BY <3>2, <3>3, WiderSeq
  <2>2. kason_schema_pack_scalar(field.type, v) = kason_writer_json_string_u32(v)
    BY <1>8 DEF kason_schema_pack_scalar
  <2>3. Terminated(v) => Quoted(Text(v)) \in Seq(Token)
    BY <2>1, TextType, QuotedType
  <2> QED BY <1>6, <2>2, <2>3 DEF kason_writer_json_string_u32
<1> QED BY <1>1, <1>2, <1>3, <1>4, <1>5, <1>7, <1>8
        DEF FieldTyped, Types, StringTypes, IntegerTypes

-----------------------------------------------------------------------------
(***************************************************************************)
(* Packing as a function.  What kason_pack does next depends on the frames *)
(* and on the calls to be made, never on the writer, unless that fails.    *)
(***************************************************************************)
FieldOf(f) == Fields[f.schema][f.field]
ValueOf(f) == Objects[f.object][f.field]
Inner(stack) == Len(stack) - 1
ForField(stack, calls, index) ==
  Placed(calls, Place(<<stack[1].schema, stack[1].field>>, index, Inner(stack)))
NameFor(f) ==
  Comma(f.emitted) \o kason_writer_json_string(FieldOf(f).key) \o <<Put(<<COLON>>)>>
Over(stack, f) == <<f>> \o Tail(stack)
NextField(f) == [f EXCEPT !.field = @ + 1, !.item = NotInArray, !.emitted = TRUE]
NextItem(f)  == [f EXCEPT !.item = @ + 1]

Moved(calls, stack) == [todo |-> calls, frames |-> stack]
Skipped(s) == Moved(<< >>, Over(s, [s[1] EXCEPT !.field = @ + 1]))
ScalarDone(s) ==
  Moved(ForField(s, NameFor(s[1])
                      \o kason_schema_pack_scalar(FieldOf(s[1]).type, ValueOf(s[1])), -1),
        Over(s, NextField(s[1])))
StructBegun(s) ==
  Moved(ForField(s, NameFor(s[1]), -1) \o AtObject(<<OBJECT_START>>, Inner(s) + 1),
        <<Frame(FieldOf(s[1]).child, ValueOf(s[1]))>> \o Over(s, NextField(s[1])))
ArrayBegun(s) ==
  Moved(ForField(s, NameFor(s[1]), -1) \o
          IF ValueOf(s[1]).count > FieldOf(s[1]).capacity
          THEN ForField(s, <<Stop("ARRAY_CAPACITY")>>, ValueOf(s[1]).count)
          ELSE ForField(s, <<Put(<<ARRAY_START>>)>>, -1),
        Over(s, [s[1] EXCEPT !.item = 0]))
ItemDone(s) ==
  Moved(ForField(s, Comma(s[1].item > 0)
                      \o kason_schema_pack_scalar(FieldOf(s[1]).type,
                                                  ValueOf(s[1]).items[s[1].item + 1]),
                 s[1].item),
        Over(s, NextItem(s[1])))
ItemBegun(s) ==
  Moved(ForField(s, Comma(s[1].item > 0), s[1].item)
          \o AtObject(<<OBJECT_START>>, Inner(s) + 1),
        <<Frame(FieldOf(s[1]).child, ValueOf(s[1]).items[s[1].item + 1])>>
          \o Over(s, NextItem(s[1])))
ArrayLeft(s) ==
  Moved(ForField(s, <<Put(<<ARRAY_END>>)>>, -1), Over(s, NextField(s[1])))
ObjectLeft(s) == Moved(AtObject(<<OBJECT_END>>, Inner(s)), Tail(s))

IsLeftOut(omit, s) ==
  omit /\ kason_schema_field_is_default(FieldOf(s[1]), ValueOf(s[1]), Inner(s))
WalkItem(s) ==
  IF s[1].item < ValueOf(s[1]).count
  THEN IF FieldOf(s[1]).type = "STRUCT" THEN ItemBegun(s) ELSE ItemDone(s)
  ELSE ArrayLeft(s)
WalkField(omit, s) ==
  IF IsLeftOut(omit, s) THEN Skipped(s)
  ELSE IF FieldOf(s[1]).array THEN ArrayBegun(s)
  ELSE IF FieldOf(s[1]).type = "STRUCT" THEN StructBegun(s) ELSE ScalarDone(s)
Walk(omit, s) ==
  IF s[1].item # NotInArray THEN WalkItem(s)
  ELSE IF s[1].field > Len(Fields[s[1].schema]) THEN ObjectLeft(s)
  ELSE WalkField(omit, s)

\* What was written so far, and what comes after.
State(stack, calls, text) == [frames |-> stack, todo |-> calls, text |-> text]
Advance(omit, c) ==
  IF c.todo # << >>
  THEN IF Head(c.todo).call.does = "write"
       THEN State(c.frames, Tail(c.todo), c.text \o Head(c.todo).call.text)
       ELSE c
  ELSE IF c.frames = << >> THEN c
  ELSE State(Walk(omit, c.frames).frames, Walk(omit, c.frames).todo, c.text)

-----------------------------------------------------------------------------
(* The types of these states. *)

Frames == [schema : Schemas, object : Structs, field : Nat, item : Int, emitted : BOOLEAN]
\* A frame stands at a field, in its array, or behind the last one.
Stands(f) ==
  /\ f.object \in Instances[f.schema]
  /\ f.field \in 1..(Len(Fields[f.schema]) + 1)
  /\ f.item # NotInArray =>
       /\ f.field <= Len(Fields[f.schema]) /\ FieldOf(f).array
       /\ f.item \in 0..ValueOf(f).count
Standing == {f \in Frames : Stands(f)}
\* Its array has room for what the count says.
InRoom == {f \in Standing :
             f.item # NotInArray => ValueOf(f).count <= FieldOf(f).capacity}

PlaceType == [field : Seq(Schemas \cup Nat), index : Int, depth : Int]
Entry == [call : Token, at : PlaceType]
\* A call is waiting that will fail.
Doomed(calls) == \E p \in DOMAIN calls : calls[p].call.does # "write"

States ==
  {c \in [frames : Seq(Standing), todo : Seq(Entry), text : Seq(Byte)] :
     c.frames \in Seq(InRoom) \/ Doomed(c.todo)}

LEMMA FieldType ==
  ASSUME NEW f \in Standing, f.field <= Len(Fields[f.schema])
  PROVE  /\ FieldTyped(FieldOf(f)) /\ ValueTyped(FieldOf(f), ValueOf(f))
         /\ f.field + 1 \in 1..(Len(Fields[f.schema]) + 1)
<1>1. f.schema \in Schemas /\ f.object \in Instances[f.schema] /\ f.field \in Nat
  BY DEF Standing, Frames, Stands
<1>2. Len(Fields[f.schema]) \in Nat /\ DOMAIN Fields[f.schema] = 1..Len(Fields[f.schema])
  BY <1>1, FieldsAssumption
<1>3. f.field \in DOMAIN Fields[f.schema]
  BY <1>1, <1>2 DEF Standing, Stands
<1>4. FieldTyped(FieldOf(f))
  BY <1>1, <1>3, FieldsAssumption DEF FieldOf
<1>5. ValueTyped(FieldOf(f), ValueOf(f))
  BY <1>1, <1>3, ObjectsAssumption DEF FieldOf, ValueOf
<1> QED BY <1>1, <1>2, <1>3, <1>4, <1>5

LEMMA ItemType ==
  ASSUME NEW f \in InRoom, f.item # NotInArray, f.item < ValueOf(f).count
  PROVE  /\ FieldTyped(FieldOf(f))
         /\ ElementTyped(FieldOf(f), ValueOf(f).items[f.item + 1])
<1>1. /\ f \in Standing /\ f.field <= Len(Fields[f.schema]) /\ FieldOf(f).array
      /\ f.item \in 0..ValueOf(f).count /\ ValueOf(f).count <= FieldOf(f).capacity
  BY DEF InRoom, Standing, Stands
<1>2. FieldTyped(FieldOf(f)) /\ ValueTyped(FieldOf(f), ValueOf(f))
  BY <1>1, FieldType
<1>3. ValueOf(f).count \in Nat /\ FieldOf(f).capacity \in Nat
  BY <1>1, <1>2 DEF FieldTyped, ValueTyped
<1>4. f.item + 1 \in 1..FieldOf(f).capacity
  BY <1>1, <1>3
<1> QED BY <1>1, <1>2, <1>4 DEF ValueTyped

\* Calls, with the place an error would be at.
LEMMA PlacedType ==
  ASSUME NEW calls \in Seq(Token), NEW at \in PlaceType
  PROVE  /\ Placed(calls, at) \in Seq(Entry) /\ Len(Placed(calls, at)) = Len(calls)
         /\ \A p \in 1..Len(calls) : Placed(calls, at)[p].call = calls[p]
<1>1. DOMAIN calls = 1..Len(calls) /\ Len(calls) \in Nat
  OBVIOUS
<1>2. Placed(calls, at) = [p \in 1..Len(calls) |-> [call |-> calls[p], at |-> at]]
  BY <1>1 DEF Placed
<1>3. \A p \in 1..Len(calls) : [call |-> calls[p], at |-> at] \in Entry
  BY <1>1 DEF Entry
<1>4. Placed(calls, at) \in [1..Len(calls) -> Entry]
  BY <1>2, <1>3
<1> QED BY <1>1, <1>2, <1>4

LEMMA ObjectCallType ==
  ASSUME NEW d \in Seq(Byte), NEW n \in Int
  PROVE  AtObject(d, n) \in Seq(Entry)
<1> DEFINE token == IF n >= MAX_NESTING THEN Stop("NESTING") ELSE Put(d)
           at == Place(NoField, -1, n)
<1>1. token \in Token
  BY TokenTypes DEF Codes
<1>2. at \in PlaceType
  BY DEF Place, NoField, PlaceType
<1>3. AtObject(d, n) = Placed(<<token>>, at)
  BY DEF AtObject
<1> HIDE DEF token, at
<1>4. <<token>> \in Seq(Token)
  BY <1>1
<1> QED BY <1>2, <1>3, <1>4, PlacedType

Walker(s) == s \in Seq(InRoom) /\ s # << >>

LEMMA WalkerType ==
  ASSUME NEW s, Walker(s)
  PROVE  /\ s[1] \in InRoom /\ s[1] \in Standing /\ s[1] \in Frames /\ Stands(s[1])
         /\ Tail(s) \in Seq(InRoom) /\ Inner(s) \in Nat /\ s = Over(s, s[1])
<1>1. s \in Seq(InRoom) /\ s # << >>
  BY DEF Walker
<1>2. s[1] \in InRoom /\ Tail(s) \in Seq(InRoom) /\ Len(s) \in Nat \ {0}
  BY <1>1
<1>3. s[1] \in Standing /\ s[1] \in Frames /\ Stands(s[1])
  BY <1>2 DEF InRoom, Standing
<1>4. s = <<s[1]>> \o Tail(s)
  BY <1>1
<1> QED BY <1>2, <1>3, <1>4 DEF Inner, Over

LEMMA FieldCallType ==
  ASSUME NEW s, Walker(s), NEW calls \in Seq(Token), NEW index \in Int
  PROVE  /\ ForField(s, calls, index) \in Seq(Entry)
         /\ Len(ForField(s, calls, index)) = Len(calls)
         /\ \A p \in 1..Len(calls) : ForField(s, calls, index)[p].call = calls[p]
<1> DEFINE at == Place(<<s[1].schema, s[1].field>>, index, Inner(s))
<1>1. s[1].schema \in Schemas /\ s[1].field \in Nat /\ Inner(s) \in Nat
  BY WalkerType DEF Frames
<1>2. <<s[1].schema, s[1].field>> \in Seq(Schemas \cup Nat)
  <2>1. s[1].schema \in Schemas \cup Nat /\ s[1].field \in Schemas \cup Nat
    BY <1>1
  <2> QED BY <2>1
<1>3. at \in PlaceType
  BY <1>1, <1>2 DEF Place, PlaceType
<1>4. ForField(s, calls, index) = Placed(calls, at)
  BY DEF ForField
<1> HIDE DEF at
<1> QED BY <1>3, <1>4, PlacedType

LEMMA PunctuationType ==
  /\ <<OBJECT_START>> \in Seq(Byte) /\ <<OBJECT_END>> \in Seq(Byte)
  /\ <<Put(<<COMMA>>)>> \in Seq(Token) /\ <<Put(<<COLON>>)>> \in Seq(Token)
  /\ <<Put(<<ARRAY_START>>)>> \in Seq(Token) /\ <<Put(<<ARRAY_END>>)>> \in Seq(Token)
  /\ <<Stop("ARRAY_CAPACITY")>> \in Seq(Token)
<1>1. /\ OBJECT_START \in Byte /\ OBJECT_END \in Byte /\ COMMA \in Byte /\ COLON \in Byte
      /\ ARRAY_START \in Byte /\ ARRAY_END \in Byte
  BY DEF OBJECT_START, OBJECT_END, COMMA, COLON, ARRAY_START, ARRAY_END, Byte
<1>2. /\ <<COMMA>> \in Seq(Byte) /\ <<COLON>> \in Seq(Byte)
      /\ <<ARRAY_START>> \in Seq(Byte) /\ <<ARRAY_END>> \in Seq(Byte)
      /\ <<OBJECT_START>> \in Seq(Byte) /\ <<OBJECT_END>> \in Seq(Byte)
  BY <1>1
<1>3. /\ Put(<<COMMA>>) \in Token /\ Put(<<COLON>>) \in Token
      /\ Put(<<ARRAY_START>>) \in Token /\ Put(<<ARRAY_END>>) \in Token
      /\ Stop("ARRAY_CAPACITY") \in Token
  BY <1>2, TokenTypes DEF Codes
<1>4. \A t \in Token : <<t>> \in Seq(Token)
  OBVIOUS
<1> QED BY <1>2, <1>3, <1>4

LEMMA CommaType == ASSUME NEW b PROVE Comma(b) \in Seq(Token)
BY PunctuationType DEF Comma

LEMMA NameType ==
  ASSUME NEW f \in Standing, f.field <= Len(Fields[f.schema])
  PROVE  NameFor(f) \in Seq(Token)
<1>1. FieldOf(f).key \in Seq(Byte)
  BY FieldType DEF FieldTyped
<1>2. f.emitted \in BOOLEAN
  BY DEF Standing, Frames
<1>3. /\ Comma(f.emitted) \in Seq(Token) /\ kason_writer_json_string(FieldOf(f).key) \in Seq(Token)
      /\ <<Put(<<COLON>>)>> \in Seq(Token)
  BY <1>1, <1>2, CommaType, JsonString, PunctuationType
<1> HIDE DEF FieldOf
<1> QED BY <1>3 DEF NameFor

\* A walk goes from good states to good ones.
Fine(m) ==
  /\ m.todo \in Seq(Entry) /\ m.frames \in Seq(Standing)
  /\ m.frames \in Seq(InRoom) \/ Doomed(m.todo)

LEMMA InRoomIsStanding == ASSUME NEW s \in Seq(InRoom) PROVE s \in Seq(Standing)
<1>1. InRoom \subseteq Standing
  BY DEF InRoom
<1> QED BY <1>1, WiderSeq

LEMMA MovedIsFine ==
  ASSUME NEW calls \in Seq(Entry), NEW stack \in Seq(InRoom)
  PROVE  Fine(Moved(calls, stack))
BY InRoomIsStanding DEF Fine, Moved

LEMMA OverType ==
  ASSUME NEW s, Walker(s), NEW f \in InRoom
  PROVE  Over(s, f) \in Seq(InRoom)
<1>1. <<f>> \in Seq(InRoom) /\ Tail(s) \in Seq(InRoom)
  BY WalkerType
<1> QED BY <1>1 DEF Over

LEMMA FieldCallHere ==
  ASSUME NEW s, Walker(s), NEW calls \in Seq(Token)
  PROVE  ForField(s, calls, -1) \in Seq(Entry)
<1> DEFINE i == -1
<1>1. i \in Int
  OBVIOUS
<1> HIDE DEF i
<1>2. ForField(s, calls, i) \in Seq(Entry)
  BY <1>1, FieldCallType
<1> QED BY <1>2 DEF i

\* Behind a field, and behind an item.
LEMMA NextFieldType ==
  ASSUME NEW s, Walker(s), s[1].field <= Len(Fields[s[1].schema])
  PROVE  /\ NextField(s[1]) \in InRoom
         /\ s[1].item = NotInArray => [s[1] EXCEPT !.field = @ + 1] \in InRoom
<1> DEFINE f == s[1]
           n == f.field + 1
<1>1. f \in Standing /\ f \in Frames /\ Stands(f)
  BY WalkerType
<1>2. n \in 1..(Len(Fields[f.schema]) + 1)
  BY <1>1, FieldType
<1>3. f.object \in Instances[f.schema] /\ n \in Nat /\ f.field \in Nat
  BY <1>1, <1>2 DEF Stands, Frames
<1> DEFINE g == NextField(f)
           h == [f EXCEPT !.field = @ + 1]
<1>4. /\ g \in Frames /\ g.schema = f.schema /\ g.object = f.object /\ g.field = n
      /\ g.item = NotInArray
  <2> DEFINE x == TRUE
             y == NotInArray
  <2>1. x \in BOOLEAN /\ y \in Int
    BY DEF NotInArray
  <2>2. g = [f EXCEPT !.field = n, !.item = y, !.emitted = x]
    BY DEF NextField
  <2> HIDE DEF x, y, g, n, f
  <2>3. /\ g \in Frames /\ g.schema = f.schema /\ g.object = f.object /\ g.field = n
        /\ g.item = y
    BY <1>1, <1>3, <2>1, <2>2 DEF Frames
  <2> QED BY <2>3 DEF y
<1>5. /\ h \in Frames /\ h.schema = f.schema /\ h.object = f.object /\ h.field = n
      /\ h.item = f.item
  BY <1>1, <1>3 DEF Frames
<1> HIDE DEF f, n, g, h
<1>6. g \in InRoom
  BY <1>2, <1>3, <1>4 DEF InRoom, Standing, Stands
<1>7. f.item = NotInArray => h \in InRoom
  BY <1>2, <1>3, <1>5 DEF InRoom, Standing, Stands
<1> QED BY <1>6, <1>7 DEF f, g, h

LEMMA NextItemType ==
  ASSUME NEW s, Walker(s), s[1].item # NotInArray, s[1].item < ValueOf(s[1]).count
  PROVE  NextItem(s[1]) \in InRoom
<1> DEFINE f == s[1]
           g == NextItem(f)
<1>1. f \in Standing /\ f \in Frames /\ Stands(f) /\ f \in InRoom
  BY WalkerType
<1>2. /\ f.field <= Len(Fields[f.schema]) /\ FieldOf(f).array
      /\ f.item \in 0..ValueOf(f).count /\ ValueOf(f).count <= FieldOf(f).capacity
  BY <1>1 DEF Stands, InRoom
<1>3. ValueOf(f).count \in Nat
  BY <1>1, <1>2, FieldType DEF ValueTyped
<1>4. f.item + 1 \in 0..ValueOf(f).count /\ f.item + 1 \in Int
  BY <1>2, <1>3
<1>5. /\ g \in Frames /\ g.schema = f.schema /\ g.object = f.object /\ g.field = f.field
      /\ g.item = f.item + 1
  BY <1>1, <1>4 DEF NextItem, Frames
<1> HIDE DEF f, g
<1>6. FieldOf(g) = FieldOf(f) /\ ValueOf(g) = ValueOf(f)
  BY <1>5 DEF FieldOf, ValueOf
<1>7. Stands(g)
  BY <1>1, <1>2, <1>4, <1>5, <1>6 DEF Stands
<1>8. g \in InRoom
  BY <1>2, <1>5, <1>6, <1>7 DEF InRoom, Standing
<1> QED BY <1>8 DEF f, g

\* A struct within the struct.
LEMMA FrameType ==
  ASSUME NEW schema \in Schemas, NEW object \in Instances[schema]
  PROVE  Frame(schema, object) \in InRoom
<1> DEFINE g == Frame(schema, object)
<1>1. Len(Fields[schema]) \in Nat /\ object \in Structs
  BY FieldsAssumption, ObjectsAssumption
<1>2. /\ g \in Frames /\ g.schema = schema /\ g.object = object /\ g.field = 1
      /\ g.item = NotInArray
  BY <1>1 DEF Frame, Frames, NotInArray
<1>3. 1 \in 1..(Len(Fields[schema]) + 1)
  BY <1>1
<1> HIDE DEF g
<1>4. g \in InRoom
  BY <1>2, <1>3 DEF InRoom, Standing, Stands
<1> QED BY <1>4 DEF g

LEMMA ChildType ==
  ASSUME NEW field, FieldTyped(field), field.type = "STRUCT", NEW v, ElementTyped(field, v)
  PROVE  Frame(field.child, v) \in InRoom
<1>1. field.child \in Schemas /\ v \in Instances[field.child]
  BY Zenon DEF FieldTyped, ElementTyped, StringTypes, IntegerTypes
<1> QED BY <1>1, FrameType

LEMMA WithinType ==
  ASSUME NEW s, Walker(s), NEW f \in InRoom, NEW g \in InRoom
  PROVE  <<g>> \o Over(s, f) \in Seq(InRoom)
<1>1. Over(s, f) \in Seq(InRoom) /\ <<g>> \in Seq(InRoom)
  BY OverType
<1> QED BY <1>1

LEMMA OneCall == ASSUME NEW a \in Seq(Entry), NEW b \in Seq(Entry) PROVE a \o b \in Seq(Entry)
OBVIOUS

\* Calls to come are not made better by those before them.
LEMMA DoomedBehind ==
  ASSUME NEW a \in Seq(Entry), NEW b \in Seq(Entry), Doomed(b)
  PROVE  Doomed(a \o b)
<1>1. PICK p \in DOMAIN b : b[p].call.does # "write"
  BY DEF Doomed
<1>2. Len(a) + p \in DOMAIN (a \o b) /\ (a \o b)[Len(a) + p] = b[p]
  OBVIOUS
<1> QED BY <1>1, <1>2 DEF Doomed

LEMMA FieldCalls ==
  ASSUME NEW s, Walker(s), s[1].field <= Len(Fields[s[1].schema])
  PROVE  /\ NameFor(s[1]) \in Seq(Token)
         /\ FieldOf(s[1]).type # "STRUCT" /\ ~FieldOf(s[1]).array =>
              kason_schema_pack_scalar(FieldOf(s[1]).type, ValueOf(s[1])) \in Seq(Token)
<1> DEFINE f == s[1]
           type == FieldOf(f)
           v == ValueOf(f)
<1>1. f \in Standing
  BY WalkerType
<1>2. NameFor(f) \in Seq(Token)
  BY <1>1, NameType
<1>3. FieldTyped(type) /\ ValueTyped(type, v)
  BY <1>1, FieldType
<1> HIDE DEF f, type, v
<1>4. ~type.array => ElementTyped(type, v)
  BY <1>3 DEF ValueTyped
<1>5. type.type # "STRUCT" /\ ~type.array => kason_schema_pack_scalar(type.type, v) \in Seq(Token)
  BY <1>3, <1>4, PackScalarType
<1> QED BY <1>2, <1>5 DEF f, type, v

\* Every case of the walk.
LEMMA SkippedIsFine ==
  ASSUME NEW s, Walker(s), s[1].item = NotInArray, s[1].field <= Len(Fields[s[1].schema])
  PROVE  Fine(Skipped(s))
<1> DEFINE g == [s[1] EXCEPT !.field = @ + 1]
<1>1. g \in InRoom
  BY NextFieldType
<1> HIDE DEF g
<1>2. Over(s, g) \in Seq(InRoom) /\ << >> \in Seq(Entry)
  BY <1>1, OverType
<1>3. Fine(Moved(<< >>, Over(s, g)))
  BY <1>2, MovedIsFine
<1> QED BY <1>3 DEF Skipped, g

LEMMA ScalarIsFine ==
  ASSUME NEW s, Walker(s), s[1].field <= Len(Fields[s[1].schema]),
         ~FieldOf(s[1]).array, FieldOf(s[1]).type # "STRUCT"
  PROVE  Fine(ScalarDone(s))
<1> DEFINE a == NameFor(s[1])
           b == kason_schema_pack_scalar(FieldOf(s[1]).type, ValueOf(s[1]))
<1>1. a \in Seq(Token) /\ b \in Seq(Token)
  BY FieldCalls
<1>2. ScalarDone(s) = Moved(ForField(s, a \o b, -1), Over(s, NextField(s[1])))
  BY DEF ScalarDone
<1> HIDE DEF a, b
<1>3. a \o b \in Seq(Token)
  BY <1>1
<1>4. ForField(s, a \o b, -1) \in Seq(Entry)
  BY <1>3, FieldCallHere
<1>5. Over(s, NextField(s[1])) \in Seq(InRoom)
  BY NextFieldType, OverType
<1> QED BY <1>2, <1>4, <1>5, MovedIsFine

LEMMA StructIsFine ==
  ASSUME NEW s, Walker(s), s[1].field <= Len(Fields[s[1].schema]),
         ~FieldOf(s[1]).array, FieldOf(s[1]).type = "STRUCT"
  PROVE  Fine(StructBegun(s))
<1> DEFINE a == ForField(s, NameFor(s[1]), -1)
           b == AtObject(<<OBJECT_START>>, Inner(s) + 1)
           child == Frame(FieldOf(s[1]).child, ValueOf(s[1]))
           stack == <<child>> \o Over(s, NextField(s[1]))
<1>1. a \in Seq(Entry)
  BY FieldCalls, FieldCallHere
<1>2. b \in Seq(Entry)
  <2>1. Inner(s) + 1 \in Int
    BY WalkerType
  <2> QED BY <2>1, PunctuationType, ObjectCallType
<1>3. child \in InRoom
  <2>1. s[1] \in Standing
    BY WalkerType
  <2>2. FieldTyped(FieldOf(s[1])) /\ ValueTyped(FieldOf(s[1]), ValueOf(s[1]))
    BY <2>1, FieldType
  <2> DEFINE type == FieldOf(s[1])
             v == ValueOf(s[1])
  <2> HIDE DEF type, v
  <2>3. ElementTyped(type, v) /\ FieldTyped(type) /\ type.type = "STRUCT"
    BY <2>2 DEF ValueTyped, type, v
  <2>4. Frame(type.child, v) \in InRoom
    BY <2>3, ChildType
  <2> QED BY <2>4 DEF type, v
<1>4. stack \in Seq(InRoom)
  BY <1>3, NextFieldType, WithinType
<1>5. StructBegun(s) = Moved(a \o b, stack)
  BY DEF StructBegun
<1> HIDE DEF a, b, stack
<1>6. a \o b \in Seq(Entry)
  BY <1>1, <1>2, OneCall
<1> QED BY <1>4, <1>5, <1>6, MovedIsFine

LEMMA ArrayIsFine ==
  ASSUME NEW s, Walker(s), s[1].item = NotInArray,
         s[1].field <= Len(Fields[s[1].schema]), FieldOf(s[1]).array
  PROVE  Fine(ArrayBegun(s))
<1> DEFINE f == s[1]
           g == [f EXCEPT !.item = 0]
           n == ValueOf(f).count
           room == FieldOf(f).capacity
           a == ForField(s, NameFor(f), -1)
           full == ForField(s, <<Stop("ARRAY_CAPACITY")>>, n)
           open == ForField(s, <<Put(<<ARRAY_START>>)>>, -1)
           stack == Over(s, g)
<1>1. f \in Standing /\ f \in Frames /\ Stands(f) /\ Tail(s) \in Seq(InRoom)
  BY WalkerType
<1>2. n \in Nat /\ room \in Nat
  BY <1>1, FieldType DEF ValueTyped, FieldTyped
<1>3. a \in Seq(Entry)
  BY FieldCalls, FieldCallHere
<1>4. open \in Seq(Entry)
  BY PunctuationType, FieldCallHere
<1>5. full \in Seq(Entry) /\ Doomed(full)
  <2> DEFINE calls == <<Stop("ARRAY_CAPACITY")>>
  <2>1. calls \in Seq(Token) /\ Len(calls) = 1 /\ calls[1].does = "stop"
    BY PunctuationType DEF Stop
  <2> HIDE DEF calls
  <2>2. /\ ForField(s, calls, n) \in Seq(Entry) /\ Len(ForField(s, calls, n)) = 1
        /\ ForField(s, calls, n)[1].call = calls[1]
    BY <1>2, <2>1, FieldCallType
  <2> DEFINE q == ForField(s, calls, n)
  <2> HIDE DEF q
  <2>3. 1 \in DOMAIN q /\ q[1].call.does # "write"
    BY <2>1, <2>2 DEF q
  <2>4. Doomed(q)
    BY <2>3 DEF Doomed
  <2> QED BY <2>2, <2>4 DEF q, calls
<1>6. g \in Frames /\ g.schema = f.schema /\ g.object = f.object /\ g.field = f.field /\ g.item = 0
  BY <1>1 DEF Frames
<1>7. g \in Standing /\ (n <= room => g \in InRoom)
  <2> HIDE DEF f, g
  <2>1. FieldOf(g) = FieldOf(f) /\ ValueOf(g) = ValueOf(f)
    BY <1>6 DEF FieldOf, ValueOf
  <2>2. Stands(g)
    BY <1>1, <1>2, <1>6, <2>1 DEF Stands, f
  <2> QED BY <1>6, <2>1, <2>2 DEF InRoom, Standing
<1>8. stack \in Seq(Standing) /\ (n <= room => stack \in Seq(InRoom))
  <2> HIDE DEF g
  <2>1. Tail(s) \in Seq(Standing)
    BY <1>1, InRoomIsStanding
  <2>2. <<g>> \in Seq(Standing) /\ (n <= room => <<g>> \in Seq(InRoom))
    BY <1>7
  <2> QED BY <1>1, <2>1, <2>2 DEF Over
<1>9. ArrayBegun(s) = Moved(a \o (IF n > room THEN full ELSE open), stack)
  BY DEF ArrayBegun
<1> HIDE DEF a, n, room, full, open, stack
<1>10. CASE n > room
  <2>1. a \o full \in Seq(Entry) /\ Doomed(a \o full)
    BY <1>3, <1>5, OneCall, DoomedBehind
  <2>2. ArrayBegun(s) = Moved(a \o full, stack)
    BY <1>9, <1>10
  <2> DEFINE q == a \o full
  <2> HIDE DEF q
  <2>3. Fine(Moved(q, stack))
    BY <1>8, <2>1 DEF Fine, Moved, q
  <2> QED BY <2>2, <2>3 DEF q
<1>11. CASE ~(n > room)
  <2>1. a \o open \in Seq(Entry) /\ stack \in Seq(InRoom)
    BY <1>2, <1>3, <1>4, <1>8, <1>11, OneCall
  <2>2. ArrayBegun(s) = Moved(a \o open, stack)
    BY <1>9, <1>11
  <2> QED BY <2>1, <2>2, MovedIsFine
<1> QED BY <1>10, <1>11

LEMMA ItemIsFine ==
  ASSUME NEW s, Walker(s), s[1].item # NotInArray, s[1].item < ValueOf(s[1]).count
  PROVE  IF FieldOf(s[1]).type = "STRUCT" THEN Fine(ItemBegun(s)) ELSE Fine(ItemDone(s))
<1> DEFINE f == s[1]
           type == FieldOf(f)
           v == ValueOf(f).items[f.item + 1]
           comma == Comma(f.item > 0)
           g == NextItem(f)
<1>1. f \in InRoom /\ f.item \in Int /\ Inner(s) + 1 \in Int
  BY WalkerType DEF Frames
<1>2. FieldTyped(type) /\ ElementTyped(type, v)
  BY <1>1, ItemType
<1>3. comma \in Seq(Token)
  BY CommaType
<1>4. g \in InRoom
  BY NextItemType
<1>5. ItemDone(s) = Moved(ForField(s, comma \o kason_schema_pack_scalar(type.type, v), f.item),
                          Over(s, g))
  BY DEF ItemDone
<1>6. ItemBegun(s) = Moved(ForField(s, comma, f.item) \o AtObject(<<OBJECT_START>>, Inner(s) + 1),
                           <<Frame(type.child, v)>> \o Over(s, g))
  BY DEF ItemBegun
<1>7. FieldOf(s[1]) = type
  OBVIOUS
<1> HIDE DEF f, type, v, comma, g
<1>8. CASE type.type = "STRUCT"
  <2> DEFINE a == ForField(s, comma, f.item)
             b == AtObject(<<OBJECT_START>>, Inner(s) + 1)
             stack == <<Frame(type.child, v)>> \o Over(s, g)
  <2>1. a \in Seq(Entry) /\ b \in Seq(Entry)
    BY <1>1, <1>3, FieldCallType, ObjectCallType, PunctuationType
  <2>2. Frame(type.child, v) \in InRoom
    BY <1>2, <1>8, ChildType
  <2>3. stack \in Seq(InRoom)
    BY <1>4, <2>2, WithinType
  <2> HIDE DEF a, b, stack
  <2>4. Fine(Moved(a \o b, stack))
    BY <2>1, <2>3, OneCall, MovedIsFine
  <2> QED BY <1>6, <1>7, <1>8, <2>4 DEF a, b, stack
<1>9. CASE type.type # "STRUCT"
  <2> DEFINE b == kason_schema_pack_scalar(type.type, v)
  <2>1. b \in Seq(Token)
    BY <1>2, <1>9, PackScalarType
  <2> HIDE DEF b
  <2>2. comma \o b \in Seq(Token)
    BY <1>3, <2>1
  <2>3. ForField(s, comma \o b, f.item) \in Seq(Entry) /\ Over(s, g) \in Seq(InRoom)
    BY <1>1, <1>4, <2>2, FieldCallType, OverType
  <2>4. Fine(Moved(ForField(s, comma \o b, f.item), Over(s, g)))
    BY <2>3, MovedIsFine
  <2> QED BY <1>5, <1>7, <1>9, <2>4 DEF b
<1> QED BY <1>8, <1>9

LEMMA WalkIsFine ==
  ASSUME NEW omit, NEW s, Walker(s)
  PROVE  Fine(Walk(omit, s))
<1>1. s[1] \in InRoom /\ Stands(s[1]) /\ s[1] \in Frames /\ Inner(s) \in Int
  BY WalkerType
<1>2. CASE s[1].item # NotInArray
  <2>1. s[1].field <= Len(Fields[s[1].schema])
    BY <1>1, <1>2 DEF Stands
  <2>2. Fine(ArrayLeft(s))
    <3>1. ForField(s, <<Put(<<ARRAY_END>>)>>, -1) \in Seq(Entry)
      BY PunctuationType, FieldCallHere
    <3>2. Over(s, NextField(s[1])) \in Seq(InRoom)
      BY <2>1, NextFieldType, OverType
    <3> QED BY <3>1, <3>2, MovedIsFine DEF ArrayLeft
  <2> QED BY <1>2, <2>2, ItemIsFine DEF Walk, WalkItem
<1>3. CASE s[1].item = NotInArray /\ s[1].field > Len(Fields[s[1].schema])
  <2>1. AtObject(<<OBJECT_END>>, Inner(s)) \in Seq(Entry) /\ Tail(s) \in Seq(InRoom)
    BY <1>1, WalkerType, PunctuationType, ObjectCallType
  <2>2. Fine(ObjectLeft(s))
    BY <2>1, MovedIsFine DEF ObjectLeft
  <2> QED BY <1>3, <2>2 DEF Walk
<1>4. CASE s[1].item = NotInArray /\ ~(s[1].field > Len(Fields[s[1].schema]))
  <2>1. s[1].field <= Len(Fields[s[1].schema])
    BY <1>1, <1>4, FieldsAssumption DEF Frames
  <2>2. Walk(omit, s) = WalkField(omit, s)
    BY <1>4 DEF Walk
  <2> QED BY <1>4, <2>1, <2>2, SkippedIsFine, ArrayIsFine, StructIsFine, ScalarIsFine DEF WalkField
<1> QED BY <1>2, <1>3, <1>4

LEMMA EntryType ==
  ASSUME NEW e \in Entry
  PROVE  e.call \in Token /\ e.call.text \in Seq(Byte) /\ (e.call.does # "write" => e.call.code \in Codes)
BY DEF Entry, Token

LEMMA StateType ==
  ASSUME NEW stack \in Seq(Standing), NEW calls \in Seq(Entry), NEW text \in Seq(Byte),
         stack \in Seq(InRoom) \/ Doomed(calls)
  PROVE  State(stack, calls, text) \in States
BY DEF State, States

LEMMA AdvanceKeeps ==
  ASSUME NEW omit, NEW c \in States
  PROVE  Advance(omit, c) \in States
<1> DEFINE head == Head(c.todo)
           rest == Tail(c.todo)
<1>1. /\ c.frames \in Seq(Standing) /\ c.todo \in Seq(Entry) /\ c.text \in Seq(Byte)
      /\ c.frames \in Seq(InRoom) \/ Doomed(c.todo)
  BY DEF States
<1>2. CASE c.todo # << >> /\ head.call.does = "write"
  <2>1. head \in Entry /\ rest \in Seq(Entry) /\ c.todo = <<head>> \o rest
    BY <1>1, <1>2
  <2>2. head.call.text \in Seq(Byte)
    BY <2>1, EntryType
  <2>3. c.text \o head.call.text \in Seq(Byte)
    BY <1>1, <2>2
  <2>4. Doomed(c.todo) => Doomed(rest)
    <3> SUFFICES ASSUME Doomed(c.todo) PROVE Doomed(rest)
      OBVIOUS
    <3>1. PICK p \in DOMAIN c.todo : c.todo[p].call.does # "write"
      BY DEF Doomed
    <3>2. p # 1 /\ p \in 1..Len(c.todo)
      BY <1>1, <1>2, <3>1
    <3>3. p - 1 \in DOMAIN rest /\ rest[p - 1] = c.todo[p]
      BY <1>1, <1>2, <3>2
    <3> QED BY <3>1, <3>3 DEF Doomed
  <2>5. Advance(omit, c) = State(c.frames, rest, c.text \o head.call.text)
    BY <1>2 DEF Advance
  <2> DEFINE text == c.text \o head.call.text
  <2> HIDE DEF rest, head, text
  <2> QED BY <1>1, <2>1, <2>3, <2>4, <2>5, StateType DEF text
<1>3. CASE c.todo = << >> /\ c.frames # << >>
  <2> DEFINE m == Walk(omit, c.frames)
  <2>1. ~Doomed(c.todo)
    BY <1>3 DEF Doomed
  <2>2. Walker(c.frames)
    BY <1>1, <1>3, <2>1 DEF Walker
  <2>3. Fine(m)
    BY <2>2, WalkIsFine
  <2>4. Advance(omit, c) = State(m.frames, m.todo, c.text)
    BY <1>3 DEF Advance
  <2> HIDE DEF m
  <2> QED BY <1>1, <2>3, <2>4 DEF Fine, State, States
<1>4. CASE ~(c.todo # << >> /\ head.call.does = "write") /\ ~(c.todo = << >> /\ c.frames # << >>)
  BY <1>4 DEF Advance
<1> QED BY <1>2, <1>3, <1>4

-----------------------------------------------------------------------------
(***************************************************************************)
(* d is reached from c.  There is one way to go on from a state, so of two *)
(* that are reached from the same one the later is reached from the other. *)
(***************************************************************************)
Leads(omit, c, d) ==
  \A S \in SUBSET States : c \in S /\ (\A x \in S : Advance(omit, x) \in S) => d \in S

LEMMA LeadsSelf == ASSUME NEW omit, NEW c PROVE Leads(omit, c, c)
BY DEF Leads

LEMMA LeadsType ==
  ASSUME NEW omit, NEW c \in States, NEW d, Leads(omit, c, d) PROVE d \in States
<1>1. \A x \in States : Advance(omit, x) \in States
  BY AdvanceKeeps
<1> QED BY <1>1 DEF Leads

LEMMA LeadsStep ==
  ASSUME NEW omit, NEW c, NEW d, Leads(omit, c, d) PROVE Leads(omit, c, Advance(omit, d))
BY DEF Leads

\* A state that cannot go on leads nowhere else.
LEMMA LeadsNowhere ==
  ASSUME NEW omit, NEW c \in States, NEW d, Leads(omit, c, d), Advance(omit, c) = c
  PROVE  d = c
<1>1. {c} \in SUBSET States /\ c \in {c} /\ \A x \in {c} : Advance(omit, x) \in {c}
  OBVIOUS
<1>2. d \in {c}
  BY <1>1 DEF Leads
<1> QED BY <1>2

\* From the state after c as well, unless c is where it leads.
LEMMA LeadsFromNext ==
  ASSUME NEW omit, NEW c \in States, NEW d, Leads(omit, c, d), Advance(omit, d) = d
  PROVE  Leads(omit, Advance(omit, c), d)
<1> SUFFICES ASSUME NEW S \in SUBSET States, Advance(omit, c) \in S,
                    \A x \in S : Advance(omit, x) \in S
             PROVE  d \in S
  BY DEF Leads
<1> DEFINE T == S \cup {c}
<1>1. T \in SUBSET States /\ c \in T /\ \A x \in T : Advance(omit, x) \in T
  OBVIOUS
<1>2. d \in T
  BY <1>1 DEF Leads
<1> QED BY <1>2

LEMMA LeadsOn ==
  ASSUME NEW omit, NEW s \in States, NEW c, NEW d, Leads(omit, s, c), Leads(omit, s, d),
         Advance(omit, d) = d
  PROVE  Leads(omit, c, d)
<1> DEFINE S == {x \in States : Leads(omit, x, d)}
<1>1. S \in SUBSET States /\ s \in S
  OBVIOUS
<1>2. \A x \in S : Advance(omit, x) \in S
  BY AdvanceKeeps, LeadsFromNext
<1>3. c \in S
  BY <1>1, <1>2 DEF Leads
<1> QED BY <1>3

\* The text only grows.
Starts(a, b) == \E rest \in Seq(Byte) : b = a \o rest

LEMMA StartsSelf == \A a \in Seq(Byte) : Starts(a, a)
<1>1. << >> \in Seq(Byte) /\ \A a \in Seq(Byte) : a \o << >> = a
  OBVIOUS
<1> QED BY <1>1 DEF Starts

LEMMA StartsLonger ==
  ASSUME NEW a \in Seq(Byte), NEW b, Starts(a, b), NEW d \in Seq(Byte)
  PROVE  Starts(a, b \o d)
<1>1. PICK rest \in Seq(Byte) : b = a \o rest
  BY DEF Starts
<1>2. rest \o d \in Seq(Byte) /\ b \o d = a \o (rest \o d)
  BY <1>1, ConcatAssociative
<1> QED BY <1>2 DEF Starts

LEMMA ConcatPrefix ==
  ASSUME NEW T, NEW a \in Seq(T), NEW rest \in Seq(T)
  PROVE  IsPrefix(a, a \o rest) /\ Len(a) <= Len(a \o rest)
<1> DEFINE b == a \o rest
<1>1. Len(a) <= Len(b) /\ Len(b) \in Nat /\ Len(a) \in Nat
  OBVIOUS
<1>2. SubSeq(a, 1, Len(a)) = a /\ SubSeq(b, 1, Len(a)) = a
  BY <1>1
<1> QED BY <1>1, <1>2 DEF IsPrefix

LEMMA StartsIsPrefix ==
  ASSUME NEW a \in Seq(Byte), NEW b, Starts(a, b)
  PROVE  IsPrefix(a, b) /\ Len(a) <= Len(b)
BY ConcatPrefix DEF Starts

LEMMA LeadsText ==
  ASSUME NEW omit, NEW c \in States, NEW d, Leads(omit, c, d)
  PROVE  Starts(c.text, d.text)
<1> DEFINE S == {x \in States : Starts(c.text, x.text)}
<1>1. c.text \in Seq(Byte)
  BY DEF States
<1>2. S \in SUBSET States /\ c \in S
  BY <1>1, StartsSelf
<1>3. ASSUME NEW x \in S PROVE Advance(omit, x) \in S
  <2>1. x \in States /\ Starts(c.text, x.text) /\ x.todo \in Seq(Entry)
    BY DEF States
  <2>2. Advance(omit, x) \in States
    BY <2>1, AdvanceKeeps
  <2>3. \/ Advance(omit, x).text = x.text
        \/ x.todo # << >> /\ Advance(omit, x).text = x.text \o Head(x.todo).call.text
    BY DEF Advance, State
  <2>4. x.todo # << >> => Head(x.todo).call.text \in Seq(Byte)
    <3>1. x.todo # << >> => Head(x.todo) \in Entry
      BY <2>1
    <3> QED BY <3>1, EntryType
  <2> HIDE DEF S
  <2>5. Starts(c.text, Advance(omit, x).text)
    BY <1>1, <2>1, <2>3, <2>4, StartsLonger
  <2> QED BY <2>2, <2>5 DEF S
<1>4. d \in S
  BY <1>2, <1>3 DEF Leads
<1> QED BY <1>4

-----------------------------------------------------------------------------
(***************************************************************************)
(* The steps of kason_pack are the steps of the function.                  *)
(***************************************************************************)
Here == State(frames, todo, written)
Beginning(root) == State(<<Frame(root[1], root[2])>>, AtObject(<<OBJECT_START>>, 0), << >>)
End(text) == State(<< >>, << >>, text)

LEMMA EndStays == \A text, omit : Advance(omit, End(text)) = End(text)
BY DEF Advance, End, State

LEMMA BeginningType ==
  ASSUME NEW root \in Roots
  PROVE  Beginning(root) \in States /\ Beginning(root).text = << >> /\ root # << >>
<1>a. PICK schema \in Schemas : \E object \in Instances[schema] : root = <<schema, object>>
  BY RootsAssumption
<1>1. PICK object \in Instances[schema] : root = <<schema, object>>
  BY <1>a
<1> DEFINE f == Frame(root[1], root[2])
           calls == AtObject(<<OBJECT_START>>, 0)
<1>2. f \in InRoom
  BY <1>1, FrameType
<1>3. calls \in Seq(Entry)
  <2> DEFINE d == <<OBJECT_START>>
             n == 0
  <2>1. d \in Seq(Byte) /\ n \in Int
    BY PunctuationType
  <2> HIDE DEF d, n
  <2>2. AtObject(d, n) \in Seq(Entry)
    BY <2>1, ObjectCallType
  <2> QED BY <2>2 DEF d, n
<1>4. Beginning(root) = State(<<f>>, calls, << >>)
  BY DEF Beginning
<1> HIDE DEF f, calls
<1>5. <<f>> \in Seq(InRoom) /\ << >> \in Seq(Byte)
  BY <1>2
<1>6. <<f>> \in Seq(Standing)
  BY <1>5, InRoomIsStanding
<1>7. State(<<f>>, calls, << >>) \in States /\ State(<<f>>, calls, << >>).text = << >>
  BY <1>3, <1>5, <1>6, StateType DEF State
<1> QED BY <1>1, <1>4, <1>7

\* The names of the model are those of the function.
LEMMA SameNames ==
  /\ top = frames[1] /\ Field = FieldOf(frames[1]) /\ Value = ValueOf(frames[1])
  /\ Name = NameFor(frames[1]) /\ depth = Inner(frames)
  /\ PastField = Over(frames, NextField(frames[1]))
  /\ PastItem = Over(frames, NextItem(frames[1]))
<1>1. top = frames[1] /\ depth = Inner(frames)
  BY DEF top, depth, Inner
<1>2. Field = FieldOf(frames[1]) /\ Value = ValueOf(frames[1])
  BY DEF top, Field, Value, FieldOf, ValueOf
<1>3. Name = NameFor(frames[1])
  BY <1>1, <1>2 DEF Name, NameFor
<1>4. PastField = Over(frames, NextField(frames[1]))
  BY <1>1 DEF PastField, Below, Over, NextField
<1>5. PastItem = Over(frames, NextItem(frames[1]))
  BY <1>1 DEF PastItem, Below, Over, NextItem
<1> QED BY <1>1, <1>2, <1>3, <1>4, <1>5

LEMMA SameCalls ==
  ASSUME NEW calls, NEW index
  PROVE  AtField(calls, index) = ForField(frames, calls, index)
BY SameNames DEF AtField, ForField

Walks == UNCHANGED <<writerVars, call, job, error, result, counted>>
         /\ todo' = Walk(job.omit, frames).todo /\ frames' = Walk(job.omit, frames).frames

LEMMA WalkSteps ==
  ASSUME Walker(frames),
         \/ SkipField \/ PackScalar \/ PackStruct \/ PackArray \/ PackItem
         \/ PackItemStruct \/ LeaveArray \/ LeaveObject
  PROVE  Walks
<1> DEFINE s == frames
           w == Walk(job.omit, s)
<1>1. frames[1].field \in Int /\ Len(Fields[frames[1].schema]) \in Int
  BY WalkerType, FieldsAssumption DEF Frames
<1>2. LeftOut <=> IsLeftOut(job.omit, frames)
  BY SameNames DEF LeftOut, IsLeftOut
<1>3. InFields => Walk(job.omit, frames) = WalkField(job.omit, frames)
  BY <1>1, SameNames DEF InFields, Walk
<1>4. InItems => Walk(job.omit, frames) = WalkItem(frames)
  BY SameNames DEF InItems, Walk
<1>5. ASSUME NEW calls, NEW stack, Step(calls, stack), w = Moved(calls, stack)
      PROVE  Walks
  BY <1>5 DEF Step, Walks, Moved
<1> HIDE DEF w
<1>6. CASE SkipField
  <2> DEFINE calls == << >>
             stack == Below([top EXCEPT !.field = @ + 1])
  <2>1. Step(calls, stack) /\ w = Skipped(frames)
    BY <1>2, <1>3, <1>6 DEF SkipField, WalkField, w
  <2>2. Skipped(frames) = Moved(calls, stack)
    BY SameNames DEF Skipped, Below, Over
  <2> QED BY <1>5, <2>1, <2>2
<1>7. CASE PackScalar
  <2> DEFINE calls == AtField(Name \o kason_schema_pack_scalar(Field.type, Value), -1)
  <2>1. Step(calls, PastField) /\ w = ScalarDone(frames)
    BY <1>2, <1>3, <1>7, SameNames DEF PackScalar, WalkField, w
  <2>2. ScalarDone(frames) = Moved(calls, PastField)
    BY SameNames, SameCalls DEF ScalarDone
  <2> QED BY <1>5, <2>1, <2>2
<1>8. CASE PackStruct
  <2> DEFINE calls == AtField(Name, -1) \o AtObject(<<OBJECT_START>>, depth + 1)
             stack == <<Frame(Field.child, Value)>> \o PastField
  <2>1. Step(calls, stack) /\ w = StructBegun(frames)
    BY <1>2, <1>3, <1>8, SameNames DEF PackStruct, WalkField, w
  <2>2. StructBegun(frames) = Moved(calls, stack)
    BY SameNames, SameCalls DEF StructBegun
  <2> QED BY <1>5, <2>1, <2>2
<1>9. CASE PackArray
  <2> DEFINE calls == AtField(Name, -1) \o
                        IF Value.count > Field.capacity
                        THEN AtField(<<Stop("ARRAY_CAPACITY")>>, Value.count)
                        ELSE AtField(<<Put(<<ARRAY_START>>)>>, -1)
             stack == Below([top EXCEPT !.item = 0])
  <2>1. Step(calls, stack) /\ w = ArrayBegun(frames)
    BY <1>2, <1>3, <1>9, SameNames DEF PackArray, WalkField, w
  <2>2. ArrayBegun(frames) = Moved(calls, stack)
    BY SameNames, SameCalls DEF ArrayBegun, Below, Over
  <2> QED BY <1>5, <2>1, <2>2
<1>10. CASE PackItem
  <2> DEFINE calls == AtField(Comma(top.item > 0)
                                \o kason_schema_pack_scalar(Field.type,
                                                            Value.items[top.item + 1]),
                              top.item)
  <2>1. Step(calls, PastItem) /\ w = ItemDone(frames)
    BY <1>4, <1>10, SameNames DEF PackItem, WalkItem, w
  <2>2. ItemDone(frames) = Moved(calls, PastItem)
    BY SameNames, SameCalls DEF ItemDone
  <2> QED BY <1>5, <2>1, <2>2
<1>11. CASE PackItemStruct
  <2> DEFINE calls == AtField(Comma(top.item > 0), top.item)
                        \o AtObject(<<OBJECT_START>>, depth + 1)
             stack == <<Frame(Field.child, Value.items[top.item + 1])>> \o PastItem
  <2>1. Step(calls, stack) /\ w = ItemBegun(frames)
    BY <1>4, <1>11, SameNames DEF PackItemStruct, WalkItem, w
  <2>2. ItemBegun(frames) = Moved(calls, stack)
    BY SameNames, SameCalls DEF ItemBegun
  <2> QED BY <1>5, <2>1, <2>2
<1>12. CASE LeaveArray
  <2> DEFINE calls == AtField(<<Put(<<ARRAY_END>>)>>, -1)
  <2>1. Step(calls, PastField) /\ InItems /\ frames[1].item = ValueOf(frames[1]).count
    BY <1>12, SameNames DEF LeaveArray
  <2>2. frames[1].item \in Int
    BY WalkerType DEF Frames
  <2>3. w = ArrayLeft(frames)
    BY <1>4, <2>1, <2>2 DEF WalkItem, w
  <2>4. ArrayLeft(frames) = Moved(calls, PastField)
    BY SameNames, SameCalls DEF ArrayLeft
  <2> QED BY <1>5, <2>1, <2>3, <2>4
<1>13. CASE LeaveObject
  <2> DEFINE calls == AtObject(<<OBJECT_END>>, depth)
             stack == Tail(frames)
  <2>1. Step(calls, stack) /\ w = ObjectLeft(frames)
    BY <1>13, SameNames DEF LeaveObject, Walk, w
  <2>2. ObjectLeft(frames) = Moved(calls, stack)
    BY SameNames DEF ObjectLeft
  <2> QED BY <1>5, <2>1, <2>2
<1> QED BY <1>6, <1>7, <1>8, <1>9, <1>10, <1>11, <1>12, <1>13

\* What a call of the writer leaves behind.
LEMMA ByteIsWritten == \A d \in Seq(Byte) : d \in Seq(Bytes)
BY BytesAssumption, WiderSeq

SinkFailures == {"WRITER_CAPACITY", "WRITER_CALLBACK"}

LEMMA WriteOutcome ==
  ASSUME IInv, writer.status = "SUCCESS", NEW d \in Seq(Bytes), Write(d)
  PROVE  /\ writer'.mode = writer.mode /\ writer'.capacity = writer.capacity
         /\ answer' = "SUCCESS" => written' = written \o d /\ writer'.status = "SUCCESS"
         /\ answer' # "SUCCESS" =>
              /\ written' = written
              /\ answer' \in SinkFailures
              /\ writer.mode = "BUFFER" =>
                   answer' = "WRITER_CAPACITY" /\ writer.capacity <= Len(written) + Len(d)
<1>1. /\ Len(d) \in Nat /\ Len(written) = writer.length
      /\ writer.length \in Nat /\ writer.capacity \in 0..SIZE_MAX /\ SIZE_MAX \in Nat
  BY SinkIsSound, LenType, SizeAssumption DEF IInv, LengthIsExact, TypeOK
<1>2. CASE TooLong(d) \/ NoRoom(d)
  <2>1. Fail("WRITER_CAPACITY")
    BY <1>2 DEF TooLong, NoRoom
  <2>2. writer.mode = "BUFFER" => writer.capacity <= Len(written) + Len(d)
    BY <1>1, <1>2 DEF TooLong, NoRoom, Fits, InBuffer
  <2> QED BY <2>1, <2>2, FailKeepsMode DEF Fail, Failures, SinkFailures
<1>3. CASE \/ Count(d) \/ Store(d) \/ Pass(d) \/ PassLong(d)
           \/ Stage(d) \/ FlushAndStage(d)
  <2>1. Succeed(d)
    BY <1>3 DEF Count, Store, Pass, PassLong, Stage, FlushAndStage
  <2> QED BY <2>1, SucceedKeepsMode DEF Succeed
<1>4. CASE PassRefused(d) \/ LongRefused(d) \/ FlushRefused(d)
  <2>1. Fail("WRITER_CALLBACK") /\ writer.mode = "CALLBACK"
    BY <1>4 DEF PassRefused, LongRefused, FlushRefused, Unstaged, Long, Short, Ready
  <2> QED BY <2>1, FailKeepsMode DEF Fail, Failures, SinkFailures
<1>5. ~Sticks
  BY DEF Sticks
<1> QED BY <1>2, <1>3, <1>4, <1>5 DEF Write

LEMMA FlushOutcome ==
  ASSUME IInv, Flush
  PROVE  /\ writer'.mode = writer.mode /\ writer'.capacity = writer.capacity
         /\ written' = written
         /\ answer' = "SUCCESS" => sink'.staged = << >>
         /\ answer' # "SUCCESS" => writer.mode = "CALLBACK" /\ answer' \in SinkFailures
<1>1. written' = written
  BY DEF Flush
<1>2. CASE answer' = "SUCCESS" /\ sink' = Flushed(sink) /\ UNCHANGED writer
  BY <1>1, <1>2, SinkIsSound, SinkCalls
<1>3. CASE writer.mode = "CALLBACK" /\ Fail("WRITER_CALLBACK")
  BY <1>1, <1>3, FailKeepsMode DEF Fail, Failures, SinkFailures
<1> QED BY <1>2, <1>3 DEF Flush

-----------------------------------------------------------------------------
(***************************************************************************)
(* The invariant: a packing that goes on, one that has ended and the one   *)
(* that was counted are each at a state that the same function reaches     *)
(* from the beginning of its job.                                          *)
(***************************************************************************)
Jobs == [root : Roots, omit : BOOLEAN]
Reached(j, c) == Leads(j.omit, Beginning(j.root), c)

CountInv ==
  counted = NoCount \/ (counted.job \in Jobs /\ Reached(counted.job, End(counted.text)))
WalkInv ==
  call = "packing" => writer.status = "SUCCESS" /\ job \in Jobs /\ Reached(job, Here)
\* All was written, or a call that was due has failed.
EndedAt(c) ==
  /\ c.text = written
  /\ result = "SUCCESS" => c = End(written) /\ sink.staged = << >>
  /\ result \notin {"SUCCESS"} \cup SinkFailures =>
       c.todo # << >> /\ Head(c.todo).call.does # "write"
  /\ result # "SUCCESS" /\ writer.mode = "BUFFER" =>
       /\ c.todo # << >>
       /\ Head(c.todo).call.does = "write" =>
            /\ result = "WRITER_CAPACITY"
            /\ writer.capacity <= Len(written) + Len(Head(c.todo).call.text)
DoneInv ==
  call = "done" => job \in Jobs /\ \E c \in States : Reached(job, c) /\ EndedAt(c)
PackInv == IInv /\ CountInv /\ WalkInv /\ DoneInv

LEMMA ReachedType ==
  ASSUME NEW j \in Jobs, NEW c, Reached(j, c)
  PROVE  c \in States /\ j.root \in Roots /\ Beginning(j.root) \in States
<1>1. j.root \in Roots
  BY DEF Jobs
<1> QED BY <1>1, BeginningType, LeadsType DEF Reached

\* Two ways a packing can end.
LEMMA Succeeds ==
  ASSUME NEW j \in Jobs, NEW text, NEW counts,
         Reached(j, End(text)), Reached(j, End(counts))
  PROVE  counts = text
<1>1. End(text) \in States /\ Beginning(j.root) \in States
  BY ReachedType
<1>2. Leads(j.omit, End(text), End(counts))
  BY <1>1, EndStays, LeadsOn DEF Reached
<1>3. End(counts) = End(text)
  BY <1>1, <1>2, EndStays, LeadsNowhere
<1> QED BY <1>3 DEF End, State

LEMMA Fails ==
  ASSUME NEW j \in Jobs, NEW c, NEW counts, Reached(j, c), Reached(j, End(counts)),
         c.todo # << >>
  PROVE  /\ Head(c.todo).call.does = "write"
         /\ Len(c.text) + Len(Head(c.todo).call.text) <= Len(counts)
<1> DEFINE head == Head(c.todo)
           next == Advance(j.omit, c)
<1>1. c \in States /\ Beginning(j.root) \in States
  BY ReachedType
<1>2. Leads(j.omit, c, End(counts))
  BY <1>1, EndStays, LeadsOn DEF Reached
<1>3. End(counts).todo = << >> /\ End(counts).text = counts
  BY DEF End, State
<1>4. head.call.does = "write"
  <2> SUFFICES ASSUME head.call.does # "write" PROVE FALSE
    OBVIOUS
  <2>1. next = c
    BY DEF Advance
  <2>2. End(counts) = c
    BY <1>1, <1>2, <2>1, LeadsNowhere
  <2> QED BY <1>3, <2>2
<1>5. next.text = c.text \o head.call.text
  BY <1>4 DEF Advance, State
<1>6. next \in States /\ Leads(j.omit, next, End(counts))
  BY <1>1, <1>2, AdvanceKeeps, EndStays, LeadsFromNext
<1>7. c.text \in Seq(Byte) /\ head.call.text \in Seq(Byte) /\ next.text \in Seq(Byte)
  <2>1. c.text \in Seq(Byte) /\ c.todo \in Seq(Entry) /\ next.text \in Seq(Byte)
    BY <1>1, <1>6 DEF States
  <2>2. head \in Entry
    BY <2>1
  <2> HIDE DEF head, next
  <2> QED BY <2>1, <2>2, EntryType
<1> HIDE DEF next, head
<1>8. Starts(next.text, counts)
  BY <1>3, <1>6, LeadsText
<1>9. Len(next.text) <= Len(counts)
  BY <1>7, <1>8, StartsIsPrefix
<1>10. Len(next.text) = Len(c.text) + Len(head.call.text)
  BY <1>5, <1>7
<1> QED BY <1>4, <1>9, <1>10 DEF head

LEMMA Grows ==
  ASSUME NEW j \in Jobs, NEW c, NEW counts, Reached(j, c), Reached(j, End(counts))
  PROVE  c.text \in Seq(Byte) /\ counts \in Seq(Byte) /\ Starts(c.text, counts)
<1>1. c \in States /\ End(counts) \in States /\ Beginning(j.root) \in States
  BY ReachedType
<1>2. Leads(j.omit, c, End(counts))
  BY <1>1, EndStays, LeadsOn DEF Reached
<1>3. End(counts).text = counts
  BY DEF End, State
<1> QED BY <1>1, <1>2, <1>3, LeadsText DEF States

(* What the invariant says of a packing that has ended.                    *)
LEMMA InvCounter == PackInv => CounterPredicts
<1> SUFFICES ASSUME PackInv, call = "done", counted.job = job
             PROVE  /\ writer.mode = "BUFFER" =>
                         result = IF writer.capacity > Len(counted.text) THEN "SUCCESS"
                                  ELSE "WRITER_CAPACITY"
                    /\ IsPrefix(Produced, counted.text)
                    /\ result = "SUCCESS" => Produced = counted.text
  BY DEF CounterPredicts, RoomDecides, SinksAgree
<1> DEFINE ct == counted.text
<1>1. job \in Jobs /\ IInv
  BY DEF PackInv, DoneInv
<1>2. PICK c \in States : Reached(job, c) /\ EndedAt(c)
  BY DEF PackInv, DoneInv
<1>3. Reached(job, End(ct))
  <2>1. job.root # << >> /\ NoCount.job.root = << >>
    BY <1>1, BeginningType DEF Jobs, NoCount, NoJob
  <2>2. counted # NoCount
    BY <2>1
  <2> QED BY <2>2 DEF PackInv, CountInv
<1> HIDE DEF ct
<1>4. c.text = written /\ written \in Seq(Byte) /\ ct \in Seq(Byte) /\ Starts(written, ct)
  BY <1>1, <1>2, <1>3, Grows DEF EndedAt
<1>5. result = "SUCCESS" => ct = written /\ sink.staged = << >>
  BY <1>1, <1>2, <1>3, Succeeds DEF EndedAt
<1>6. /\ Len(written) \in Nat /\ Len(ct) \in Nat /\ writer.capacity \in Nat
      /\ writer.mode \in Modes /\ sink \in SinkType /\ written \in Seq(Bytes)
  BY <1>1, <1>4, SinkIsSound DEF IInv, TypeOK
<1>7. ASSUME writer.mode = "BUFFER"
      PROVE  result = IF writer.capacity > Len(ct) THEN "SUCCESS" ELSE "WRITER_CAPACITY"
  <2>1. CASE result = "SUCCESS"
    <3>1. Len(written) < writer.capacity
      BY <1>1, <1>7 DEF IInv, BufferHoldsOutput
    <3> QED BY <1>5, <1>6, <2>1, <3>1
  <2>2. CASE result # "SUCCESS"
    <3> DEFINE text == Head(c.todo).call.text
    <3>1. c.todo # << >>
      BY <1>2, <1>7, <2>2 DEF EndedAt
    <3>2. /\ Head(c.todo).call.does = "write"
          /\ Len(written) + Len(text) <= Len(ct)
      BY <1>1, <1>2, <1>3, <1>4, <3>1, Fails
    <3>3. result = "WRITER_CAPACITY" /\ writer.capacity <= Len(written) + Len(text)
      BY <1>2, <1>7, <2>2, <3>2 DEF EndedAt
    <3>4. Len(text) \in Nat
      <4>1. Head(c.todo) \in Entry
        BY <1>2, <3>1 DEF States
      <4> QED BY SMTT(40), <4>1, EntryType
    <3> HIDE DEF text
    <3>5. ~(writer.capacity > Len(ct))
      BY <1>6, <3>2, <3>3, <3>4
    <3> QED BY <3>3, <3>5
  <2> QED BY <2>1, <2>2
<1>8. IsPrefix(Produced, ct) /\ (result = "SUCCESS" => Produced = ct)
  <2>1. CASE writer.mode = "CALLBACK"
    <3>1. Produced = sink.delivered
      BY <2>1 DEF Produced
    <3>2. sink.delivered \o sink.staged = written
      BY <1>1, <2>1 DEF IInv, CallbackGetsOutput
    <3>3. sink.delivered \in Seq(Bytes) /\ sink.staged \in Seq(Bytes)
      BY <1>6 DEF SinkType
    <3>4. sink.staged = << >> => sink.delivered = written
      BY <3>2, <3>3
    <3>5. IsPrefix(sink.delivered, ct)
      <4>1. PICK rest \in Seq(Byte) : ct = written \o rest
        BY <1>4 DEF Starts
      <4>2. rest \in Seq(Bytes) /\ sink.staged \o rest \in Seq(Bytes)
        BY <3>3, <4>1, ByteIsWritten
      <4>3. ct = sink.delivered \o (sink.staged \o rest)
        <5>1. (sink.delivered \o sink.staged) \o rest = sink.delivered \o (sink.staged \o rest)
          BY <3>3, <4>2, Associative
        <5> QED BY <3>2, <4>1, <5>1
      <4> QED BY <3>3, <4>2, <4>3, ConcatPrefix
    <3> QED BY <1>5, <3>1, <3>4, <3>5
  <2>2. CASE writer.mode # "CALLBACK"
    <3>1. Produced = written
      BY <1>1, <1>6, <2>2 DEF Produced, Modes, IInv, BufferHoldsOutput
    <3>2. IsPrefix(written, ct)
      BY <1>4, StartsIsPrefix
    <3> QED BY <1>5, <3>1, <3>2
  <2> QED BY <2>1, <2>2
<1> QED BY <1>7, <1>8 DEF ct

-----------------------------------------------------------------------------
(* It holds at first, and every step keeps it.                             *)
LEMMA InitPackInv == PackInit => PackInv
BY InitIInv DEF PackInit, PackInv, CountInv, WalkInv, DoneInv

LEMMA HereType ==
  ASSUME PackInv, call = "packing"
  PROVE  /\ job \in Jobs /\ Here \in States /\ Reached(job, Here) /\ IInv
         /\ writer.status = "SUCCESS" /\ todo \in Seq(Entry)
         /\ todo = << >> /\ frames # << >> => Walker(frames)
<1>1. job \in Jobs /\ Reached(job, Here) /\ IInv /\ writer.status = "SUCCESS"
  BY DEF PackInv, WalkInv
<1>2. Here \in States
  BY <1>1, ReachedType
<1>3. todo \in Seq(Entry) /\ (frames \in Seq(InRoom) \/ Doomed(todo))
  BY <1>2 DEF Here, State, States
<1>4. todo = << >> => ~Doomed(todo)
  BY DEF Doomed
<1> QED BY <1>1, <1>2, <1>3, <1>4 DEF Walker

\* The writer keeps its invariant while nothing is done to it.
LEMMA QuietWriter == ASSUME IInv, UNCHANGED writerVars PROVE IInv'
BY StepIInv

LEMMA WalkKeeps == ASSUME PackInv, call = "packing", todo = << >>, frames # << >>, Walks PROVE PackInv'
<1>1. /\ job \in Jobs /\ Reached(job, Here) /\ IInv /\ writer.status = "SUCCESS"
  BY HereType
<1>2. UNCHANGED <<writerVars, call, job, error, result, counted>>
  BY DEF Walks
<1>3. Here' = Advance(job.omit, Here)
  BY <1>2 DEF Walks, Here, Advance, State, writerVars
<1>4. Reached(job, Advance(job.omit, Here))
  BY <1>1, LeadsStep DEF Reached
<1>5. WalkInv'
  BY <1>1, <1>2, <1>3, <1>4 DEF WalkInv, writerVars
<1>6. IInv' /\ CountInv' /\ DoneInv'
  BY <1>1, <1>2, QuietWriter DEF PackInv, CountInv, DoneInv
<1> QED BY <1>5, <1>6 DEF PackInv

LEMMA EmitKeeps == ASSUME PackInv, Emit PROVE PackInv'
<1> DEFINE text == Next1.text
           head == Head(todo)
<1>1. call = "packing" /\ todo # << >> /\ head.call.does = "write" /\ Write(text)
  BY DEF Emit, Making, Next1
<1>2. /\ job \in Jobs /\ Here \in States /\ Reached(job, Here) /\ IInv
      /\ writer.status = "SUCCESS" /\ todo \in Seq(Entry)
  BY <1>1, HereType
<1>3. head \in Entry /\ text = head.call.text
  BY <1>1, <1>2 DEF Next1
<1>4. text \in Seq(Bytes)
  BY <1>3, EntryType, ByteIsWritten
<1>5. IInv'
  BY <1>1, <1>2, <1>4, WriteStep
<1>6. /\ writer'.mode = writer.mode /\ writer'.capacity = writer.capacity
      /\ answer' = "SUCCESS" => written' = written \o text /\ writer'.status = "SUCCESS"
      /\ answer' # "SUCCESS" =>
           /\ written' = written /\ answer' \in SinkFailures
           /\ writer.mode = "BUFFER" =>
                answer' = "WRITER_CAPACITY" /\ writer.capacity <= Len(written) + Len(text)
  BY <1>1, <1>2, <1>4, WriteOutcome
<1>7. CASE answer' = "SUCCESS"
  <2>1. todo' = Tail(todo) /\ UNCHANGED <<call, job, frames, error, result, counted>>
    BY <1>7 DEF Emit
  <2>2. Here' = Advance(job.omit, Here)
    BY <1>1, <1>3, <1>6, <1>7, <2>1 DEF Here, Advance, State
  <2>3. Reached(job, Advance(job.omit, Here))
    BY <1>2, LeadsStep DEF Reached
  <2>4. WalkInv'
    BY <1>2, <1>6, <1>7, <2>1, <2>2, <2>3 DEF WalkInv
  <2>5. CountInv' /\ DoneInv'
    BY <1>1, <2>1 DEF PackInv, CountInv, DoneInv
  <2> QED BY <1>5, <2>4, <2>5 DEF PackInv
<1>8. CASE answer' # "SUCCESS"
  <2>1. Return(answer', head.at)
    BY <1>8 DEF Emit
  <2>2. call' = "done" /\ result' = answer' /\ job' = job /\ counted' = counted
    BY <1>8, <2>1 DEF Return
  <2>3. PICK c \in States : c = Here
    BY <1>2
  <2>4. Reached(job', c)
    BY <1>2, <2>2, <2>3
  <2>5. EndedAt(c)'
    <3>1. c.text = written' /\ c.todo = todo
      BY <1>6, <1>8, <2>3 DEF Here, State
    <3> HIDE DEF text, head
    <3> QED BY <1>1, <1>3, <1>6, <1>8, <2>2, <3>1 DEF EndedAt, head
  <2>6. DoneInv'
    BY <1>2, <2>2, <2>4, <2>5 DEF DoneInv
  <2>7. WalkInv' /\ CountInv'
    BY <2>2 DEF PackInv, WalkInv, CountInv
  <2> QED BY <1>5, <2>6, <2>7 DEF PackInv
<1> QED BY <1>7, <1>8

\* Calls that fail without a word to the callback, or without one at all.
LEMMA StopKeeps ==
  ASSUME PackInv, call = "packing", todo # << >>, Head(todo).call.does # "write",
         Return(Head(todo).call.code, Head(todo).at), IInv', written' = written
  PROVE  PackInv'
<1>1. /\ job \in Jobs /\ Here \in States /\ Reached(job, Here) /\ todo \in Seq(Entry)
  BY HereType
<1>2. Head(todo).call.code # "SUCCESS"
  <2>1. Head(todo) \in Entry
    BY <1>1
  <2>2. Head(todo).call.code \in Codes
    BY <2>1, EntryType
  <2> QED BY <2>2 DEF Codes
<1>3. /\ call' = "done" /\ result' # "SUCCESS" /\ job' = job /\ counted' = counted
  BY <1>2 DEF Return
<1>4. PICK c \in States : c = Here
  BY <1>1
<1>5. Reached(job', c)
  BY <1>1, <1>3, <1>4
<1>6. c.text = written' /\ c.todo = todo
  BY <1>4 DEF Here, State
<1>7. EndedAt(c)'
  BY <1>3, <1>6 DEF EndedAt
<1>8. DoneInv' /\ WalkInv' /\ CountInv'
  BY <1>1, <1>3, <1>5, <1>7 DEF PackInv, DoneInv, WalkInv, CountInv
<1> QED BY <1>8 DEF PackInv

LEMMA FinishKeeps == ASSUME PackInv, Finish PROVE PackInv'
<1> DEFINE at == Place(NoField, -1, 0)
<1>1. /\ call = "packing" /\ todo = << >> /\ frames = << >> /\ Flush /\ Return(answer', at)
  BY DEF Finish
<1> HIDE DEF at
<1>2. job \in Jobs /\ Here \in States /\ Reached(job, Here) /\ IInv
  BY <1>1, HereType
<1>3. Here = End(written)
  BY <1>1 DEF Here, End
<1>4. /\ writer'.mode = writer.mode /\ written' = written
      /\ answer' = "SUCCESS" => sink'.staged = << >>
      /\ answer' # "SUCCESS" => writer.mode = "CALLBACK" /\ answer' \in SinkFailures
  BY <1>1, <1>2, FlushOutcome
<1>5. /\ call' = "done" /\ result' = answer' /\ job' = job
      /\ counted' = counted \/ counted' = [job |-> job, text |-> written]
  BY <1>1 DEF Return
<1>6. IInv'
  BY <1>1, <1>2, FlushStep
<1>7. PICK c \in States : c = Here
  BY <1>2
<1>8. c.text = written' /\ c = End(written')
  BY <1>3, <1>4, <1>7 DEF End, State
<1>9. EndedAt(c)'
  BY <1>4, <1>5, <1>8 DEF EndedAt
<1>10. DoneInv'
  BY <1>2, <1>5, <1>7, <1>9 DEF DoneInv
<1>11. CountInv'
  <2>1. CASE counted' = counted
    BY <2>1 DEF PackInv, CountInv
  <2>2. CASE counted' = [job |-> job, text |-> written]
    BY <1>2, <1>3, <2>2 DEF CountInv
  <2> QED BY <1>5, <2>1, <2>2
<1>12. WalkInv'
  BY <1>5 DEF WalkInv
<1> QED BY <1>6, <1>10, <1>11, <1>12 DEF PackInv

LEMMA BeginKeeps ==
  ASSUME PackInv, NEW root \in Roots, NEW omit \in BOOLEAN, kason_pack(root, omit)
  PROVE  PackInv'
<1>1. /\ call' = "packing" /\ Reset /\ job' = [root |-> root, omit |-> omit]
      /\ frames' = <<Frame(root[1], root[2])>> /\ todo' = AtObject(<<OBJECT_START>>, 0)
      /\ counted' = counted \/ counted' = NoCount
  BY DEF kason_pack
<1>2. IInv /\ IInv' /\ writer'.status = "SUCCESS" /\ written' = << >>
  BY <1>1, ResetStep, ResetKeepsMode DEF PackInv, Reset
<1>3. job' \in Jobs /\ job'.root = root
  BY <1>1 DEF Jobs
<1>4. Here' = Beginning(root)
  BY <1>1, <1>2 DEF Here, Beginning
<1>5. Reached(job', Beginning(root))
  BY <1>3, LeadsSelf DEF Reached
<1>6. WalkInv'
  BY <1>2, <1>3, <1>4, <1>5 DEF WalkInv
<1>7. CountInv' /\ DoneInv'
  BY <1>1 DEF PackInv, CountInv, DoneInv
<1> QED BY <1>2, <1>6, <1>7 DEF PackInv

LEMMA IdleKeeps ==
  ASSUME PackInv, call' = "idle", IInv', counted' = counted
  PROVE  PackInv'
BY DEF PackInv, CountInv, WalkInv, DoneInv

LEMMA StepPackInv == PackInv /\ [PackNext]_allVars => PackInv'
<1> SUFFICES ASSUME PackInv, [PackNext]_allVars PROVE PackInv'
  OBVIOUS
<1>1. CASE \/ SkipField \/ PackScalar \/ PackStruct \/ PackArray \/ PackItem
           \/ PackItemStruct \/ LeaveArray \/ LeaveObject
  <2>1. GoOn
    BY <1>1 DEF SkipField, PackScalar, PackStruct, PackArray, PackItem, PackItemStruct,
                LeaveArray, LeaveObject, InFields, InItems
  <2>2. call = "packing" /\ todo = << >> /\ frames # << >>
    BY <2>1 DEF GoOn
  <2>3. Walks
    BY <1>1, <2>2, HereType, WalkSteps
  <2> QED BY <2>2, <2>3, WalkKeeps
<1>2. CASE Emit
  BY <1>2, EmitKeeps
<1>3. CASE MeetBadText
  <2>1. /\ call = "packing" /\ todo # << >> /\ Head(todo).call.does = "condemn"
        /\ Condemn(Head(todo).call.code) /\ Return(Head(todo).call.code, Head(todo).at)
    BY <1>3 DEF MeetBadText, Making, Next1
  <2>2. IInv' /\ written' = written
    BY <2>1, CondemnStep DEF PackInv, Condemn, Fail
  <2> QED BY <2>1, <2>2, StopKeeps
<1>4. CASE MeetBadValue
  <2>1. /\ call = "packing" /\ todo # << >> /\ Head(todo).call.does = "stop"
        /\ Return(Head(todo).call.code, Head(todo).at) /\ UNCHANGED writerVars
    BY <1>4 DEF MeetBadValue, Making, Next1
  <2>2. IInv' /\ written' = written
    BY <2>1, QuietWriter DEF PackInv, writerVars
  <2> QED BY <2>1, <2>2, StopKeeps
<1>5. CASE Finish
  BY <1>5, FinishKeeps
<1>6. CASE Renew
  BY <1>6, IdleKeeps, InitialiseStep DEF Renew, PackInv
<1>7. CASE RejectSchema
  <2>1. call' = "idle" /\ UNCHANGED writerVars /\ counted' = counted
    BY <1>7 DEF RejectSchema
  <2> QED BY <2>1, QuietWriter, IdleKeeps DEF PackInv
<1>8. ASSUME NEW root \in Roots, NEW omit \in BOOLEAN, kason_pack(root, omit) PROVE PackInv'
  BY <1>8, BeginKeeps
<1>9. CASE UNCHANGED allVars
  <2>1. UNCHANGED writerVars /\ UNCHANGED packVars
    BY <1>9 DEF allVars
  <2>2. IInv'
    BY <2>1, QuietWriter DEF PackInv
  <2>3. CountInv' /\ WalkInv' /\ DoneInv'
    BY <2>1 DEF writerVars, packVars, PackInv, CountInv, WalkInv, DoneInv, Here, EndedAt
  <2> QED BY <2>2, <2>3 DEF PackInv
<1> QED BY <1>1, <1>2, <1>3, <1>4, <1>5, <1>6, <1>7, <1>8, <1>9 DEF PackNext, PackStep

THEOREM PackInductive == PackSpec => []PackInv
<1>1. PackInit => PackInv
  BY InitPackInv
<1>2. PackInv /\ [PackNext]_allVars => PackInv'
  BY StepPackInv
<1> QED BY <1>1, <1>2, PTL DEF PackSpec

(* A counter predicts what kason_pack will do with any other sink: the     *)
(* room a buffer needs, to the byte, and the bytes it is given, for every  *)
(* schema, every struct and every way a callback can refuse.               *)
THEOREM CountersPredict == PackSpec => []CounterPredicts
<1>1. PackInv => CounterPredicts
  BY InvCounter
<1> QED BY <1>1, PackInductive, PTL

(* While kason_pack drives the writer, what was written is counted, and    *)
(* all of it is in the buffer, or with the callback and in its scratch.    *)
THEOREM PackedOutputIsExact == PackSpec => []OutputIsExact
<1>1. PackInv => OutputIsExact
  BY DEF PackInv, IInv, OutputIsExact
<1> QED BY <1>1, PackInductive, PTL
-----------------------------------------------------------------------------
(***************************************************************************)
(* kason_schema_object_valid, and the structs that are equal to one that   *)
(* is valid.                                                               *)
(***************************************************************************)
\* The parts of the check, with f for its calls of itself.
ElementBy(f, field, element, level) ==
  IF field.type = "STRUCT" THEN f[<<field.child, element, level + 1>>]
  ELSE ScalarValid(field.type, element)
FieldBy(f, field, value, level) ==
  /\ field.array => value.count <= field.capacity
  /\ \A p \in DOMAIN Elements(field, value) :
       ElementBy(f, field, Elements(field, value)[p], level)
StructBy(f, at) ==
  /\ at[3] < MAX_NESTING
  /\ \A i \in DOMAIN Fields[at[1]] :
       FieldBy(f, Fields[at[1]][i], Objects[at[2]][i], at[3])

ElementFits(field, element, level) ==
  ElementBy(kason_schema_object_valid, field, element, level)
FieldFits(field, value, level) == FieldBy(kason_schema_object_valid, field, value, level)
StructFits(schema, object, level) == kason_schema_object_valid[<<schema, object, level>>]

LEMMA ElementsIs ==
  ASSUME NEW field, FieldTyped(field), NEW value, ValueTyped(field, value),
         field.array => value.count <= field.capacity
  PROVE  /\ DOMAIN Elements(field, value) = IF field.array THEN 1..value.count ELSE {1}
         /\ \A p \in DOMAIN Elements(field, value) :
              /\ Elements(field, value)[p] = IF field.array THEN value.items[p] ELSE value
              /\ ElementTyped(field, Elements(field, value)[p])
<1>1. CASE field.array
  <2>1. Elements(field, value) = [p \in 1..value.count |-> value.items[p]]
    BY <1>1 DEF Elements
  <2>2. value.count \in Nat /\ field.capacity \in Nat /\ value.count <= field.capacity
    BY <1>1 DEF ValueTyped, FieldTyped
  <2>3. \A p \in 1..value.count : p \in 1..field.capacity
    BY <2>2
  <2> QED BY <1>1, <2>1, <2>3 DEF ValueTyped
<1>2. CASE ~field.array
  <2>1. Elements(field, value) = <<value>>
    BY <1>2 DEF Elements
  <2>2. DOMAIN <<value>> = {1} /\ <<value>>[1] = value
    OBVIOUS
  <2> QED BY <1>2, <2>1, <2>2 DEF ValueTyped
<1> QED BY <1>1, <1>2

\* Where a struct within another is.
LEMMA ChildAt ==
  ASSUME NEW at \in StructsAt, NEW i \in DOMAIN Fields[at[1]],
         Fields[at[1]][i].array => Objects[at[2]][i].count <= Fields[at[1]][i].capacity,
         NEW p \in DOMAIN Elements(Fields[at[1]][i], Objects[at[2]][i]),
         Fields[at[1]][i].type = "STRUCT"
  PROVE  <<Fields[at[1]][i].child, Elements(Fields[at[1]][i], Objects[at[2]][i])[p], at[3] + 1>>
           \in StructsAt
<1> DEFINE field == Fields[at[1]][i]
           value == Objects[at[2]][i]
           e == Elements(field, value)[p]
<1>1. at[1] \in Schemas /\ at[2] \in Instances[at[1]] /\ at[3] \in Nat
  BY DEF StructsAt
<1>2. FieldTyped(field) /\ ValueTyped(field, value)
  BY <1>1, FieldsAssumption, ObjectsAssumption
<1>3. ElementTyped(field, e)
  <2> HIDE DEF field, value
  <2>1. field.array => value.count <= field.capacity
    BY DEF field, value
  <2>2. p \in DOMAIN Elements(field, value)
    BY DEF field, value
  <2> QED BY <1>2, <2>1, <2>2, ElementsIs
<1>4. field.type = "STRUCT" /\ field.child \in Schemas
  BY <1>2 DEF FieldTyped
<1> HIDE DEF field, value, e
<1>5. e \in Instances[field.child]
  BY <1>3, <1>4, Zenon DEF ElementTyped, StringTypes, IntegerTypes
<1>6. e \in Structs
  BY <1>4, <1>5, ObjectsAssumption
<1>7. <<field.child, e, at[3] + 1>> \in StructsAt
  BY <1>1, <1>4, <1>5, <1>6 DEF StructsAt
<1> QED BY <1>7 DEF field, value, e

LEMMA StructByCalls ==
  ASSUME NEW at \in StructsAt, NEW f, NEW g,
         \A r \in StructsAt : r[3] = at[3] + 1 => (f[r] <=> g[r])
  PROVE  StructBy(f, at) => StructBy(g, at)
<1> SUFFICES ASSUME StructBy(f, at), NEW i \in DOMAIN Fields[at[1]]
             PROVE  FieldBy(g, Fields[at[1]][i], Objects[at[2]][i], at[3])
  BY DEF StructBy
<1> DEFINE field == Fields[at[1]][i]
           value == Objects[at[2]][i]
<1>1. FieldBy(f, field, value, at[3])
  BY DEF StructBy
<1>2. field.array => value.count <= field.capacity
  BY <1>1 DEF FieldBy
<1>3. ASSUME NEW p \in DOMAIN Elements(field, value)
      PROVE  ElementBy(g, field, Elements(field, value)[p], at[3])
  <2> DEFINE e == Elements(field, value)[p]
             r == <<field.child, e, at[3] + 1>>
  <2>1. ElementBy(f, field, e, at[3])
    BY <1>1 DEF FieldBy
  <2>2. CASE field.type = "STRUCT"
    <3>1. r \in StructsAt /\ r[3] = at[3] + 1
      BY <1>2, <2>2, ChildAt
    <3>2. f[r]
      BY <2>1, <2>2 DEF ElementBy
    <3>3. g[r]
      BY <3>1, <3>2
    <3> HIDE DEF field, value, e
    <3> QED BY <2>2, <3>3 DEF ElementBy, e
  <2>3. CASE field.type # "STRUCT"
    BY <2>1, <2>3 DEF ElementBy
  <2> QED BY <2>2, <2>3
<1> HIDE DEF field, value
<1>4. FieldBy(g, field, value, at[3])
  BY <1>2, <1>3 DEF FieldBy
<1> QED BY <1>4 DEF field, value

LEMMA ValidIs ==
  ASSUME NEW at \in StructsAt
  PROVE  kason_schema_object_valid[at] <=> StructBy(kason_schema_object_valid, at)
<1> DEFINE S == StructsAt
           T == BOOLEAN
           m == [r \in S |-> IF r[3] < MAX_NESTING THEN MAX_NESTING - r[3] ELSE 0]
           F == [f \in [S -> T] |-> [r \in S |-> StructBy(f, r)]]
<1>1. kason_schema_object_valid = CHOOSE f : f = [r \in S |-> StructBy(f, r)]
  BY DEF kason_schema_object_valid, StructBy, FieldBy, ElementBy
<1>2. \A r \in S : r[3] \in Nat
  BY DEF StructsAt
<1>3. MAX_NESTING \in Nat
  BY NestingAssumption
<1>4. m \in [S -> Nat]
  BY <1>2, <1>3
<1>5. \A f, r : StructBy(f, r) \in BOOLEAN
  BY DEF StructBy
<1>6. F \in [[S -> T] -> [S -> T]] /\ T # {}
  BY <1>5
<1>7. ASSUME NEW f \in [S -> T], NEW g \in [S -> T], NEW r \in S,
             \A q \in S : m[q] < m[r] => f[q] = g[q]
      PROVE  F[f][r] = F[g][r]
  <2>1. CASE r[3] < MAX_NESTING
    <3>1. \A q \in S : q[3] = r[3] + 1 => m[q] < m[r]
      BY <1>2, <1>3, <2>1
    <3>2. \A q \in StructsAt : q[3] = r[3] + 1 => (f[q] <=> g[q]) /\ (g[q] <=> f[q])
      BY <1>7, <3>1
    <3>3. StructBy(f, r) <=> StructBy(g, r)
      BY <3>2, StructByCalls
    <3>4. F[f][r] = StructBy(f, r) /\ F[g][r] = StructBy(g, r)
      OBVIOUS
    <3> QED BY <1>5, <3>3, <3>4
  <2>2. CASE ~(r[3] < MAX_NESTING)
    <3>1. ~StructBy(f, r) /\ ~StructBy(g, r)
      BY <2>2 DEF StructBy
    <3>2. F[f][r] = StructBy(f, r) /\ F[g][r] = StructBy(g, r)
      OBVIOUS
    <3> QED BY <1>5, <3>1, <3>2
  <2> QED BY <2>1, <2>2
<1>8. Recursive(S, T, m, F)
  <2> HIDE DEF S, T, m, F
  <2> QED BY <1>4, <1>6, <1>7 DEF Recursive, Descends
<1>9. PICK f : Solution(S, T, F, f)
  <2> HIDE DEF S, T, m, F
  <2> QED BY <1>8, Recursion
<1>10. f = [r \in S |-> StructBy(f, r)]
  <2>1. f \in [S -> T] /\ \A r \in S : f[r] = F[f][r]
    <3> HIDE DEF S, T, F
    <3> QED BY <1>9 DEF Solution
  <2>2. \A r \in S : F[f][r] = StructBy(f, r)
    BY <2>1
  <2> HIDE DEF F, T, S
  <2> QED BY <2>1, <2>2
<1> DEFINE v == kason_schema_object_valid
<1>11. v = [r \in S |-> StructBy(v, r)]
  <2> HIDE DEF S, v
  <2> QED BY <1>1, <1>10 DEF v
<1>12. v[at] = StructBy(v, at)
  <2> HIDE DEF v
  <2> QED BY <1>11
<1> QED BY <1>12

\* The same for kason_schema_objects_equal.
EqualElementsBy(f, field, left, right, level) ==
  IF field.type = "STRUCT" THEN f[<<field.child, left, right, level + 1>>]
  ELSE ScalarsEqual(field.type, left, right)
EqualFieldsBy(f, field, left, right, level) ==
  /\ field.array => left.count = right.count /\ left.count <= field.capacity
  /\ \A p \in DOMAIN Elements(field, left) :
       EqualElementsBy(f, field, Elements(field, left)[p], Elements(field, right)[p], level)
EqualBy(f, at) ==
  /\ at[4] < MAX_NESTING
  /\ \A i \in DOMAIN Fields[at[1]] :
       EqualFieldsBy(f, Fields[at[1]][i], Objects[at[2]][i], Objects[at[3]][i], at[4])

LEMMA ChildTyped ==
  ASSUME NEW field, FieldTyped(field), NEW value, ValueTyped(field, value),
         field.array => value.count <= field.capacity,
         NEW p \in DOMAIN Elements(field, value), field.type = "STRUCT"
  PROVE  /\ field.child \in Schemas /\ Elements(field, value)[p] \in Instances[field.child]
         /\ Elements(field, value)[p] \in Structs
<1> DEFINE e == Elements(field, value)[p]
<1>1. ElementTyped(field, e) /\ field.child \in Schemas
  BY ElementsIs DEF FieldTyped
<1> HIDE DEF e
<1>2. e \in Instances[field.child]
  BY <1>1, Zenon DEF ElementTyped, StringTypes, IntegerTypes
<1>3. e \in Structs
  BY <1>1, <1>2, ObjectsAssumption
<1> QED BY <1>1, <1>2, <1>3 DEF e

LEMMA PairType ==
  ASSUME NEW at \in PairsAt
  PROVE  /\ at[1] \in Schemas /\ at[2] \in Instances[at[1]] /\ at[3] \in Instances[at[1]]
         /\ at[4] \in Nat
         /\ \A i \in DOMAIN Fields[at[1]] :
              /\ FieldTyped(Fields[at[1]][i])
              /\ ValueTyped(Fields[at[1]][i], Objects[at[2]][i])
              /\ ValueTyped(Fields[at[1]][i], Objects[at[3]][i])
<1>1. /\ at[1] \in Schemas /\ at[2] \in Instances[at[1]] /\ at[3] \in Instances[at[1]]
      /\ at[4] \in Nat
  BY DEF PairsAt
<1> QED BY <1>1, FieldsAssumption, ObjectsAssumption

\* Two structs within two that may be equal.
LEMMA ChildrenAt ==
  ASSUME NEW field, FieldTyped(field), NEW left, ValueTyped(field, left),
         NEW right, ValueTyped(field, right), NEW level \in Nat,
         field.array => left.count = right.count /\ left.count <= field.capacity,
         NEW p \in DOMAIN Elements(field, left), field.type = "STRUCT"
  PROVE  <<field.child, Elements(field, left)[p], Elements(field, right)[p], level + 1>> \in PairsAt
<1>1. DOMAIN Elements(field, right) = DOMAIN Elements(field, left)
  BY ElementsIs
<1> DEFINE l == Elements(field, left)[p]
           r == Elements(field, right)[p]
<1>2. /\ field.child \in Schemas /\ l \in Instances[field.child] /\ r \in Instances[field.child]
      /\ l \in Structs /\ r \in Structs
  BY <1>1, ChildTyped
<1> HIDE DEF l, r
<1>3. <<field.child, l, r, level + 1>> \in PairsAt
  BY <1>2 DEF PairsAt
<1> QED BY <1>3 DEF l, r

LEMMA EqualByCalls ==
  ASSUME NEW at \in PairsAt, NEW f, NEW g,
         \A r \in PairsAt : r[4] = at[4] + 1 => (f[r] <=> g[r])
  PROVE  EqualBy(f, at) => EqualBy(g, at)
<1> SUFFICES ASSUME EqualBy(f, at), NEW i \in DOMAIN Fields[at[1]]
             PROVE  EqualFieldsBy(g, Fields[at[1]][i], Objects[at[2]][i], Objects[at[3]][i], at[4])
  BY DEF EqualBy
<1> DEFINE field == Fields[at[1]][i]
           left == Objects[at[2]][i]
           right == Objects[at[3]][i]
<1>1. EqualFieldsBy(f, field, left, right, at[4])
  BY DEF EqualBy
<1>2. FieldTyped(field) /\ ValueTyped(field, left) /\ ValueTyped(field, right) /\ at[4] \in Nat
  BY PairType
<1> HIDE DEF field, left, right
<1>3. field.array => left.count = right.count /\ left.count <= field.capacity
  BY <1>1 DEF EqualFieldsBy
<1>4. ASSUME NEW p \in DOMAIN Elements(field, left)
      PROVE  EqualElementsBy(g, field, Elements(field, left)[p], Elements(field, right)[p], at[4])
  <2> DEFINE l == Elements(field, left)[p]
             r == Elements(field, right)[p]
             pair == <<field.child, l, r, at[4] + 1>>
  <2>1. EqualElementsBy(f, field, l, r, at[4])
    BY <1>1 DEF EqualFieldsBy
  <2>2. CASE field.type = "STRUCT"
    <3>1. pair \in PairsAt /\ pair[4] = at[4] + 1
      BY <1>2, <1>3, <2>2, ChildrenAt
    <3>2. f[pair]
      BY <2>1, <2>2 DEF EqualElementsBy
    <3>3. g[pair]
      BY <3>1, <3>2
    <3> HIDE DEF l, r
    <3> QED BY <2>2, <3>3 DEF EqualElementsBy, l, r
  <2>3. CASE field.type # "STRUCT"
    BY <2>1, <2>3 DEF EqualElementsBy
  <2> QED BY <2>2, <2>3
<1>5. EqualFieldsBy(g, field, left, right, at[4])
  BY <1>3, <1>4 DEF EqualFieldsBy
<1> QED BY <1>5 DEF field, left, right

LEMMA EqualIs ==
  ASSUME NEW at \in PairsAt
  PROVE  kason_schema_objects_equal[at] <=> EqualBy(kason_schema_objects_equal, at)
<1> DEFINE S == PairsAt
           T == BOOLEAN
           m == [r \in S |-> IF r[4] < MAX_NESTING THEN MAX_NESTING - r[4] ELSE 0]
           F == [f \in [S -> T] |-> [r \in S |-> EqualBy(f, r)]]
<1>1. kason_schema_objects_equal = CHOOSE f : f = [r \in S |-> EqualBy(f, r)]
  BY DEF kason_schema_objects_equal, EqualBy, EqualFieldsBy, EqualElementsBy
<1>2. \A r \in S : r[4] \in Nat
  BY DEF PairsAt
<1>3. MAX_NESTING \in Nat
  BY NestingAssumption
<1>4. m \in [S -> Nat]
  BY <1>2, <1>3
<1>5. \A f, r : EqualBy(f, r) \in BOOLEAN
  BY DEF EqualBy
<1>6. F \in [[S -> T] -> [S -> T]] /\ T # {}
  BY <1>5
<1>7. ASSUME NEW f \in [S -> T], NEW g \in [S -> T], NEW r \in S,
             \A q \in S : m[q] < m[r] => f[q] = g[q]
      PROVE  F[f][r] = F[g][r]
  <2>1. CASE r[4] < MAX_NESTING
    <3>1. \A q \in S : q[4] = r[4] + 1 => m[q] < m[r]
      BY <1>2, <1>3, <2>1
    <3>2. \A q \in PairsAt : q[4] = r[4] + 1 => (f[q] <=> g[q]) /\ (g[q] <=> f[q])
      BY <1>7, <3>1
    <3>3. EqualBy(f, r) <=> EqualBy(g, r)
      BY <3>2, EqualByCalls
    <3>4. F[f][r] = EqualBy(f, r) /\ F[g][r] = EqualBy(g, r)
      OBVIOUS
    <3> QED BY <1>5, <3>3, <3>4
  <2>2. CASE ~(r[4] < MAX_NESTING)
    <3>1. ~EqualBy(f, r) /\ ~EqualBy(g, r)
      BY <2>2 DEF EqualBy
    <3>2. F[f][r] = EqualBy(f, r) /\ F[g][r] = EqualBy(g, r)
      OBVIOUS
    <3> QED BY <1>5, <3>1, <3>2
  <2> QED BY <2>1, <2>2
<1>8. Recursive(S, T, m, F)
  <2> HIDE DEF S, T, m, F
  <2> QED BY <1>4, <1>6, <1>7 DEF Recursive, Descends
<1>9. PICK f : Solution(S, T, F, f)
  <2> HIDE DEF S, T, m, F
  <2> QED BY <1>8, Recursion
<1>10. f = [r \in S |-> EqualBy(f, r)]
  <2>1. f \in [S -> T] /\ \A r \in S : f[r] = F[f][r]
    <3> HIDE DEF S, T, F
    <3> QED BY <1>9 DEF Solution
  <2>2. \A r \in S : F[f][r] = EqualBy(f, r)
    BY <2>1
  <2> HIDE DEF F, T, S
  <2> QED BY <2>1, <2>2
<1> DEFINE v == kason_schema_objects_equal
<1>11. v = [r \in S |-> EqualBy(v, r)]
  <2> HIDE DEF S, v
  <2> QED BY <1>1, <1>10 DEF v
<1>12. v[at] = EqualBy(v, at)
  <2> HIDE DEF v
  <2> QED BY <1>11
<1> QED BY <1>12

\* A scalar that is equal to a valid one is valid.
LEMMA ScalarEqualFits ==
  ASSUME NEW type, NEW left, NEW right, ScalarsEqual(type, left, right), ScalarValid(type, right)
  PROVE  ScalarValid(type, left)
<1>1. CASE type \in StringTypes
  <2>1. Terminated(left) /\ Text(left) = Text(right)
    BY <1>1 DEF ScalarsEqual
  <2>2. TextValid(type, Text(right))
    BY <1>1, Zenon DEF ScalarValid, StringTypes
  <2>3. TextValid(type, Text(left))
    BY <2>1, <2>2
  <2> QED BY <1>1, <2>1, <2>3, Zenon DEF ScalarValid, StringTypes
<1>2. CASE type \notin StringTypes
  BY <1>2 DEF ScalarsEqual
<1> QED BY <1>1, <1>2

\* A struct that is equal to a valid one, which may lie elsewhere, is valid.
LEMMA EqualFits ==
  ASSUME NEW at \in PairsAt, kason_schema_objects_equal[at],
         NEW level \in Nat, kason_schema_object_valid[<<at[1], at[3], level>>]
  PROVE  kason_schema_object_valid[<<at[1], at[2], at[4]>>]
<1> DEFINE S == PairsAt
           m == [r \in S |-> IF r[4] < MAX_NESTING THEN MAX_NESTING - r[4] ELSE 0]
           EqualAt(r) == kason_schema_objects_equal[r]
           P == {r \in S : EqualAt(r) =>
                   \A n \in Nat : kason_schema_object_valid[<<r[1], r[3], n>>] =>
                                  kason_schema_object_valid[<<r[1], r[2], r[4]>>]}
<1>1. \A r \in S : r[4] \in Nat
  BY DEF PairsAt
<1>2. MAX_NESTING \in Nat
  BY NestingAssumption
<1>3. m \in [S -> Nat]
  BY <1>1, <1>2
<1>4. ASSUME NEW r \in S, \A q \in S : m[q] < m[r] => q \in P PROVE r \in P
  <2> SUFFICES ASSUME EqualAt(r), NEW n \in Nat, kason_schema_object_valid[<<r[1], r[3], n>>]
               PROVE  kason_schema_object_valid[<<r[1], r[2], r[4]>>]
    OBVIOUS
  <2> DEFINE mine == <<r[1], r[2], r[4]>>
             other == <<r[1], r[3], n>>
  <2>1. EqualBy(kason_schema_objects_equal, r)
    BY EqualIs
  <2>2. mine \in StructsAt /\ other \in StructsAt
    BY PairType, ObjectsAssumption DEF StructsAt
  <2>3. StructBy(kason_schema_object_valid, other)
    BY <2>2, ValidIs
  <2>4. r[4] < MAX_NESTING
    BY <2>1 DEF EqualBy
  <2>5. \A q \in S : q[4] = r[4] + 1 => m[q] < m[r]
    BY <1>1, <1>2, <2>4
  <2>6. \A q \in S : q[4] = r[4] + 1 => q \in P
    BY <1>4, <2>5
  <2>7. ASSUME NEW i \in DOMAIN Fields[r[1]]
        PROVE  FieldFits(Fields[r[1]][i], Objects[r[2]][i], r[4])
    <3> DEFINE field == Fields[r[1]][i]
               left == Objects[r[2]][i]
               right == Objects[r[3]][i]
    <3>1. EqualFieldsBy(kason_schema_objects_equal, field, left, right, r[4])
      BY <2>1 DEF EqualBy
    <3>2. FieldBy(kason_schema_object_valid, field, right, n)
      BY <2>3 DEF StructBy
    <3>3. FieldTyped(field) /\ ValueTyped(field, left) /\ ValueTyped(field, right) /\ r[4] \in Nat
      BY PairType
    <3> HIDE DEF field, left, right
    <3>4. field.array => left.count = right.count /\ left.count <= field.capacity
      BY <3>1 DEF EqualFieldsBy
    <3>5. DOMAIN Elements(field, left) = DOMAIN Elements(field, right)
      BY <3>3, <3>4, ElementsIs
    <3>6. ASSUME NEW p \in DOMAIN Elements(field, left)
          PROVE  ElementFits(field, Elements(field, left)[p], r[4])
      <4> DEFINE l == Elements(field, left)[p]
                 e == Elements(field, right)[p]
                 pair == <<field.child, l, e, r[4] + 1>>
      <4>1. EqualElementsBy(kason_schema_objects_equal, field, l, e, r[4])
        BY <3>1 DEF EqualFieldsBy
      <4>2. ElementBy(kason_schema_object_valid, field, e, n)
        BY <3>2, <3>5 DEF FieldBy
      <4>3. CASE field.type = "STRUCT"
        <5>1. pair \in S
          BY <3>3, <3>4, <4>3, ChildrenAt
        <5>2. kason_schema_objects_equal[pair]
          BY <4>1, <4>3 DEF EqualElementsBy
        <5>3. kason_schema_object_valid[<<field.child, e, n + 1>>]
          BY <4>2, <4>3 DEF ElementBy
        <5> HIDE DEF l, e, S
        <5>4. pair[1] = field.child /\ pair[2] = l /\ pair[3] = e /\ pair[4] = r[4] + 1
          OBVIOUS
        <5>5. pair \in P
          BY <2>6, <5>1, <5>4
        <5> HIDE DEF pair
        <5>6. kason_schema_object_valid[<<pair[1], pair[2], pair[4]>>]
          BY <5>2, <5>3, <5>4, <5>5
        <5>7. kason_schema_object_valid[<<field.child, l, r[4] + 1>>]
          BY <5>4, <5>6
        <5> QED BY <4>3, <5>7 DEF ElementFits, ElementBy, l
      <4>4. CASE field.type # "STRUCT"
        <5>1. ScalarsEqual(field.type, l, e) /\ ScalarValid(field.type, e)
          BY <4>1, <4>2, <4>4 DEF EqualElementsBy, ElementBy
        <5> HIDE DEF l, e
        <5>2. ScalarValid(field.type, l)
          BY <5>1, ScalarEqualFits
        <5> QED BY <4>4, <5>2 DEF ElementFits, ElementBy, l
      <4> QED BY <4>3, <4>4
    <3>7. FieldFits(field, left, r[4])
      BY <3>4, <3>6 DEF FieldFits, FieldBy, ElementFits
    <3> QED BY <3>7 DEF field, left
  <2>8. StructBy(kason_schema_object_valid, mine)
    BY <2>4, <2>7 DEF StructBy, FieldFits
  <2> QED BY <2>2, <2>8, ValidIs
<1>5. P \in SUBSET S
  OBVIOUS
<1>6. at \in P
  <2> HIDE DEF S, m, P
  <2>1. Progressive(S, m, P)
    BY <1>3, <1>4, <1>5 DEF Progressive
  <2>2. P = S
    BY <2>1, MeasureInduction
  <2> QED BY <2>2 DEF S
<1> QED BY <1>6

-----------------------------------------------------------------------------
(***************************************************************************)
(* Which values are written without a failure.                             *)
(***************************************************************************)
AllPut(calls) == \A p \in DOMAIN calls : calls[p].does = "write"

LEMMA AllPutJoined ==
  ASSUME NEW a \in Seq(Token), NEW b \in Seq(Token)
  PROVE  AllPut(a \o b) <=> AllPut(a) /\ AllPut(b)
<1> DEFINE c == a \o b
<1>1. /\ Len(a) \in Nat /\ Len(b) \in Nat /\ DOMAIN a = 1..Len(a) /\ DOMAIN b = 1..Len(b)
      /\ DOMAIN c = 1..(Len(a) + Len(b))
  OBVIOUS
<1>2. \A p \in DOMAIN a : p \in DOMAIN c /\ c[p] = a[p]
  OBVIOUS
<1>3. \A p \in DOMAIN b : Len(a) + p \in DOMAIN c /\ c[Len(a) + p] = b[p]
  OBVIOUS
<1>4. \A p \in DOMAIN c : p \in DOMAIN a \/ \E q \in DOMAIN b : p = Len(a) + q
  <2> TAKE p \in DOMAIN c
  <2>1. p \notin DOMAIN a => p - Len(a) \in DOMAIN b /\ p = Len(a) + (p - Len(a))
    BY <1>1
  <2> QED BY <2>1
<1> HIDE DEF c
<1>5. AllPut(c) => AllPut(a) /\ AllPut(b)
  BY <1>2, <1>3 DEF AllPut
<1>6. AllPut(a) /\ AllPut(b) => AllPut(c)
  BY <1>2, <1>3, <1>4 DEF AllPut
<1> QED BY <1>5, <1>6 DEF c

LEMMA AllPutOne ==
  /\ \A d : AllPut(<<Put(d)>>)
  /\ \A code : ~AllPut(<<Spoil(code)>>) /\ ~AllPut(<<Stop(code)>>)
<1>1. \A t : DOMAIN <<t>> = {1} /\ <<t>>[1] = t
  OBVIOUS
<1>2. \A t : AllPut(<<t>>) <=> t.does = "write"
  BY <1>1 DEF AllPut
<1> QED BY <1>2 DEF Put, Spoil, Stop

\* From which positions on the rest of a string is well formed.
Forms(s, valid) ==
  /\ valid \in [1..(Len(s) + 1) -> BOOLEAN] /\ valid[Len(s) + 1]
  /\ \A p \in 1..Len(s) :
       valid[p] <=> /\ kason_schema_utf8_sequence(s, p) > 0
                    /\ valid[p + kason_schema_utf8_sequence(s, p)]

LEMMA ValidCalls ==
  ASSUME NEW s \in Seq(Byte)
  PROVE  \E valid : Forms(s, valid) /\ (kason_schema_utf8_valid(s) <=> valid[1])
<1> DEFINE n == Len(s)
           S == 1..(n + 1)
           T == BOOLEAN
           next(p) == p + kason_schema_utf8_sequence(s, p)
           body(f, p) ==
             \/ p = Len(s) + 1
             \/ /\ kason_schema_utf8_sequence(s, p) > 0
                /\ f[p + kason_schema_utf8_sequence(s, p)]
           F == [f \in [S -> T] |-> [p \in S |-> body(f, p)]]
           valid == CHOOSE f : f = [p \in 1..(Len(s) + 1) |-> body(f, p)]
<1>1. n \in Nat
  OBVIOUS
<1>2. kason_schema_utf8_valid(s) = valid[1]
  BY DEF kason_schema_utf8_valid
<1>3. \A f, p : body(f, p) \in T
  OBVIOUS
<1>4. \A p \in S : p # Len(s) + 1 => p \in 1..n
  BY <1>1
<1>5. \A p \in 1..n : kason_schema_utf8_sequence(s, p) > 0 => next(p) \in S /\ next(p) > p
  <2> TAKE p \in 1..n
  <2>1. kason_schema_utf8_sequence(s, p) > 0 => kason_schema_utf8_sequence(s, p) # 0
    OBVIOUS
  <2> QED BY <2>1, SequenceStep
<1>6. Forward(n, T, F)
  <2>1. F \in [[S -> T] -> [S -> T]]
    <3> HIDE DEF body, S, T
    <3> QED BY <1>3
  <2>2. T # {}
    OBVIOUS
  <2>3. ASSUME NEW g \in [S -> T], NEW h \in [S -> T], NEW p \in S,
               \A r \in S : r > p => g[r] = h[r]
        PROVE  F[g][p] = F[h][p]
    <3>1. CASE p = Len(s) + 1
      BY <3>1
    <3>2. CASE p # Len(s) + 1
      <4>1. p \in 1..n
        BY <1>4, <3>2
      <4>2. kason_schema_utf8_sequence(s, p) > 0 => g[next(p)] = h[next(p)]
        BY <1>5, <2>3, <4>1
      <4>3. body(g, p) = body(h, p)
        BY <4>2
      <4> HIDE DEF body
      <4> QED BY <2>3, <4>3
    <3> QED BY <3>1, <3>2
  <2> HIDE DEF F, T, n
  <2> QED BY <2>1, <2>2, <2>3 DEF Forward
<1>7. PICK f : Solution(S, T, F, f)
  <2> HIDE DEF F, n, T
  <2> QED BY <1>1, <1>6, ForwardRecursion
<1>8. f = [p \in 1..(Len(s) + 1) |-> body(f, p)]
  <2>1. f \in [S -> T] /\ \A p \in S : f[p] = F[f][p]
    <3> HIDE DEF F, T, S
    <3> QED BY <1>7 DEF Solution
  <2>2. \A p \in S : F[f][p] = body(f, p)
    <3> HIDE DEF body, T, S
    <3> QED BY <2>1
  <2> HIDE DEF body, F, T
  <2> QED BY <2>1, <2>2
<1>9. valid = [p \in 1..(Len(s) + 1) |-> body(valid, p)]
  BY <1>8
<1> HIDE DEF valid, F
<1>10. valid \in [1..(Len(s) + 1) -> BOOLEAN]
  <2> HIDE DEF body
  <2> QED BY <1>3, <1>9
<1>11. \A p \in S : valid[p] = body(valid, p)
  <2> HIDE DEF body
  <2> QED BY <1>9
<1>12. \A p \in 1..Len(s) : p \in S /\ p # Len(s) + 1
  BY <1>1
<1>13. Len(s) + 1 \in S
  BY <1>1
<1>14. valid[Len(s) + 1]
  BY <1>11, <1>13
<1>15. \A p \in 1..Len(s) :
         valid[p] <=> /\ kason_schema_utf8_sequence(s, p) > 0
                      /\ valid[p + kason_schema_utf8_sequence(s, p)]
  BY <1>11, <1>12
<1> QED BY <1>2, <1>10, <1>14, <1>15 DEF Forms

LEMMA EscapedIsOne ==
  ASSUME NEW s, NEW p, s[p] \in Nat, MustEscape(s[p])
  PROVE  kason_schema_utf8_sequence(s, p) = 1
<1>1. s[p] < 128
  BY DEF MustEscape, QUOTE, BACKSLASH
<1> QED BY <1>1 DEF kason_schema_utf8_sequence

\* The string is well formed when the writer finds no fault with it.
LEMMA JsonStringFits ==
  ASSUME NEW s \in Seq(Byte)
  PROVE  AllPut(kason_writer_json_string(s)) <=> kason_schema_utf8_valid(s)
<1> DEFINE n == Len(s)
           S == 1..(n + 1)
<1>1. PICK calls : Spells(s, calls) /\ kason_writer_json_string(s) = <<Put(<<QUOTE>>)>> \o calls[1]
  BY JsonCalls
<1>2. PICK valid : Forms(s, valid) /\ (kason_schema_utf8_valid(s) <=> valid[1])
  BY ValidCalls
<1> DEFINE P == {p \in S : AllPut(calls[p]) <=> valid[p]}
<1>3. n \in Nat /\ 1 \in S
  OBVIOUS
<1>4. /\ calls \in [S -> Seq(Token)] /\ calls[Len(s) + 1] = <<Put(<<QUOTE>>)>>
      /\ valid[Len(s) + 1] /\ valid \in [S -> BOOLEAN]
  BY <1>1, <1>2 DEF Spells, Forms
<1>5. \A d \in Seq(Byte) : <<Put(d)>> \in Seq(Token)
  <2> TAKE d \in Seq(Byte)
  <2>1. Put(d) \in Token
    BY TokenTypes
  <2> QED BY <2>1
<1>6. ASSUME NEW p \in S, \A r \in S : r > p => r \in P PROVE AllPut(calls[p]) <=> valid[p]
  <2> DEFINE k == kason_schema_utf8_sequence(s, p)
  <2>1. CASE p = Len(s) + 1
    BY <1>4, <2>1, AllPutOne
  <2>2. CASE p # Len(s) + 1
    <3>1. p \in 1..Len(s) /\ p + 1 \in S /\ p + 1 > p
      BY <1>3, <2>2
    <3>2. valid[p] <=> k > 0 /\ valid[p + k]
      BY <1>2, <3>1 DEF Forms
    <3>3. k \in Nat /\ (k # 0 => p + k \in S /\ p + k > p)
      BY <3>1, SequenceStep
    <3>4. k # 0 => (AllPut(calls[p + k]) <=> valid[p + k]) /\ calls[p + k] \in Seq(Token)
      BY <1>4, <1>6, <3>3
    <3>5. s[p] \in Nat
      <4>1. s[p] \in Byte
        BY <3>1
      <4>2. \A c \in Byte : c \in Nat
        BY DEF Byte
      <4> QED BY <4>1, <4>2
    <3>6. CASE MustEscape(s[p])
      <4>1. k = 1
        BY <3>5, <3>6, EscapedIsOne
      <4>2. EscapeText(s[p]) \in Seq(Byte)
        BY <3>5, <3>6, EscapeType
      <4>3. calls[p] = <<Put(EscapeText(s[p]))>> \o calls[p + 1]
        BY <1>1, <3>1, <3>6 DEF Spells
      <4> DEFINE t == EscapeText(s[p])
      <4> HIDE DEF t, k
      <4>4. <<Put(t)>> \in Seq(Token) /\ calls[p + 1] \in Seq(Token)
        BY <1>5, <3>4, <4>1, <4>2 DEF t
      <4>5. AllPut(calls[p]) <=> AllPut(<<Put(t)>>) /\ AllPut(calls[p + 1])
        BY ZenonT(60), <4>3, <4>4, AllPutJoined DEF t
      <4> QED BY <3>2, <3>4, <4>1, <4>5, AllPutOne
    <3>7. CASE ~MustEscape(s[p]) /\ k = 0
      <4>1. calls[p] = <<Spoil("TYPE")>>
        BY <1>1, <3>1, <3>7 DEF Spells
      <4>2. ~AllPut(calls[p])
        BY <4>1, AllPutOne
      <4> HIDE DEF k
      <4> QED BY <3>2, <3>7, <4>2
    <3>8. CASE ~MustEscape(s[p]) /\ k # 0
      <4> DEFINE t == SubSeq(s, p, p + k - 1)
      <4>1. t \in Seq(Byte)
        BY <3>1, <3>8, SequenceStep
      <4>2. calls[p] = <<Put(t)>> \o calls[p + k]
        BY <1>1, <3>1, <3>8 DEF Spells
      <4> HIDE DEF t, k
      <4>3. <<Put(t)>> \in Seq(Token) /\ calls[p + k] \in Seq(Token)
        BY <1>5, <3>4, <3>8, <4>1
      <4>4. AllPut(calls[p]) <=> AllPut(<<Put(t)>>) /\ AllPut(calls[p + k])
        BY <4>2, <4>3, AllPutJoined
      <4> QED BY <3>2, <3>3, <3>4, <3>8, <4>4, AllPutOne
    <3> QED BY <3>6, <3>7, <3>8
  <2> QED BY <2>1, <2>2
<1>7. Backward(n, P)
  BY <1>6 DEF Backward
<1>8. P = 1..(n + 1)
  <2> HIDE DEF P, n
  <2> QED BY <1>3, <1>7, BackwardInduction
<1>9. AllPut(calls[1]) <=> valid[1]
  BY <1>3, <1>8
<1>10. <<QUOTE>> \in Seq(Byte)
  BY DEF QUOTE, Byte
<1> DEFINE q == <<QUOTE>>
<1> HIDE DEF q, P
<1>11. <<Put(q)>> \in Seq(Token) /\ calls[1] \in Seq(Token)
  BY <1>3, <1>4, <1>5, <1>10 DEF q
<1>12. AllPut(<<Put(q)>> \o calls[1]) <=> AllPut(calls[1])
  BY <1>11, AllPutJoined, AllPutOne
<1> QED BY <1>1, <1>2, <1>9, <1>12 DEF q

\* No scalar value is refused when it is encoded: half a pair is not one.

LEMMA NoScalarIsHalf == \A v \in UnicodeScalar : v \notin Surrogate /\ ~(v > 1114111)
<1> SUFFICES ASSUME NEW v \in UnicodeScalar PROVE v \notin Surrogate /\ ~(v > 1114111)
  OBVIOUS
<1> QED BY SMTT(30) DEF UnicodeScalar, Surrogate

\* Scalars are always written.

LEMMA ScalarPut == \A v \in UnicodeScalar : kason_writer_json_scalar(v).does = "write"
<1> TAKE v \in UnicodeScalar
<1> DEFINE P == MustEscape(v)
           Q == v \in Surrogate \/ v > 1114111
           x == Put(EscapeText(v))
           y == Put(kason_utf8_encode(v))
<1>1. kason_writer_json_scalar(v) = CASE P -> x [] Q -> Spoil("TYPE") [] OTHER -> y
  BY DEF kason_writer_json_scalar
<1>2. ~Q
  BY NoScalarIsHalf
<1>3. x.does = "write" /\ y.does = "write"
  BY DEF Put
<1> HIDE DEF P, Q, x, y
<1>4. CASE P
  <2>1. kason_writer_json_scalar(v) = x
    BY <1>1, <1>2, <1>4, Zenon
  <2> QED BY <1>3, <2>1
<1>5. CASE ~P
  <2>1. kason_writer_json_scalar(v) = y
    BY <1>1, <1>2, <1>5, Zenon
  <2> QED BY <1>3, <2>1
<1> QED BY <1>4, <1>5

LEMMA QuotedFits == ASSUME NEW s \in Seq(UnicodeScalar) PROVE AllPut(Quoted(s))
<1> DEFINE q == <<Put(<<QUOTE>>)>>
           calls == [p \in DOMAIN s |-> kason_writer_json_scalar(s[p])]
<1>1. UnicodeScalar \subseteq Nat
  BY DEF UnicodeScalar
<1>2. \A p \in DOMAIN s : s[p] \in UnicodeScalar /\ s[p] \in Nat
  <2> TAKE p \in DOMAIN s
  <2>1. s[p] \in UnicodeScalar
    OBVIOUS
  <2> QED BY <1>1, <2>1
<1>3. calls \in Seq(Token) /\ DOMAIN calls = DOMAIN s
  <2>1. DOMAIN s = 1..Len(s) /\ Len(s) \in Nat
    OBVIOUS
  <2>2. \A p \in 1..Len(s) : kason_writer_json_scalar(s[p]) \in Token
    BY <1>2, <2>1, ScalarToken
  <2> QED BY <2>1, <2>2
<1>4. \A p \in DOMAIN calls : calls[p].does = "write"
  <2> TAKE p \in DOMAIN calls
  <2>1. calls[p] = kason_writer_json_scalar(s[p])
    BY <1>3
  <2> QED BY <1>2, <1>3, <2>1, ScalarPut
<1>5. AllPut(calls)
  <2> HIDE DEF calls
  <2> QED BY <1>4 DEF AllPut
<1>6. q \in Seq(Token) /\ AllPut(q)
  <2>1. <<QUOTE>> \in Seq(Byte)
    BY DEF QUOTE, Byte
  <2>2. Put(<<QUOTE>>) \in Token
    BY <2>1, TokenTypes
  <2> DEFINE t == Put(<<QUOTE>>)
  <2> HIDE DEF t
  <2>3. <<t>> \in Seq(Token)
    BY <2>2 DEF t
  <2> QED BY <2>3, AllPutOne DEF t
<1>7. Quoted(s) = q \o calls \o q
  BY DEF Quoted
<1> HIDE DEF q, calls
<1>8. q \o calls \in Seq(Token)
  BY <1>3, <1>6
<1>9. AllPut(q \o calls)
  BY <1>3, <1>5, <1>6, AllPutJoined
<1> DEFINE qc == q \o calls
<1> HIDE DEF qc
<1>10. AllPut(qc \o q)
  BY <1>6, <1>8, <1>9, AllPutJoined DEF qc
<1> QED BY <1>7, <1>10 DEF qc

LEMMA Scalars32 ==
  ASSUME NEW s \in Seq(Nat), kason_schema_utf32_valid(s)
  PROVE  s \in Seq(UnicodeScalar)
<1>1. \A x \in Nat : x <= 1114111 /\ x \notin Surrogate => x \in UnicodeScalar
  BY SMT DEF Surrogate, UnicodeScalar
<1>2. \A p \in DOMAIN s : s[p] \in Nat /\ s[p] <= 1114111 /\ s[p] \notin Surrogate
  BY DEF kason_schema_utf32_valid
<1>3. \A p \in DOMAIN s : s[p] \in UnicodeScalar
  BY <1>1, <1>2
<1>4. DOMAIN s = 1..Len(s) /\ Len(s) \in Nat /\ s = [p \in 1..Len(s) |-> s[p]]
  OBVIOUS
<1> DEFINE U == UnicodeScalar
<1> HIDE DEF U
<1>5. \A p \in 1..Len(s) : s[p] \in U
  BY <1>3, <1>4 DEF U
<1>6. s \in [1..Len(s) -> U]
  BY <1>4, <1>5
<1>7. s \in Seq(U)
  BY <1>4, <1>6
<1> QED BY <1>7 DEF U

\* A value is written when kason_schema_object_valid would accept it.
LEMMA BoolFits ==
  ASSUME NEW v
  PROVE  AllPut(kason_schema_pack_scalar("BOOL", v)) <=> ScalarValid("BOOL", v)
<1> DEFINE token == IF v = 1 THEN Put(TEXT_TRUE) ELSE IF v = 0 THEN Put(TEXT_FALSE) ELSE Stop("TYPE")
<1>1. kason_schema_pack_scalar("BOOL", v) = <<token>>
  BY DEF kason_schema_pack_scalar
<1>2. token.does = "write" <=> v \in {0, 1}
  BY DEF Put, Stop
<1>3. ScalarValid("BOOL", v) <=> v \in {0, 1}
  BY Zenon DEF ScalarValid, StringTypes
<1> HIDE DEF token
<1>4. AllPut(<<token>>) <=> token.does = "write"
  <2>1. DOMAIN <<token>> = {1} /\ <<token>>[1] = token
    OBVIOUS
  <2> QED BY <2>1 DEF AllPut
<1> QED BY <1>1, <1>2, <1>3, <1>4

LEMMA Fits8 ==
  ASSUME NEW v \in Seq(Byte)
  PROVE  AllPut(kason_schema_pack_scalar("STRING", v)) <=> ScalarValid("STRING", v)
<1>1. kason_schema_pack_scalar("STRING", v) =
        IF Terminated(v) THEN kason_writer_json_string(Text(v)) ELSE <<Stop("STRING_CAPACITY")>>
  BY DEF kason_schema_pack_scalar
<1>2. ScalarValid("STRING", v) <=> Terminated(v) /\ kason_schema_utf8_valid(Text(v))
  BY DEF ScalarValid, StringTypes, TextValid
<1>3. Byte \in SUBSET Nat
  BY DEF Byte
<1>4. Terminated(v) => (AllPut(kason_writer_json_string(Text(v))) <=> kason_schema_utf8_valid(Text(v)))
  BY <1>3, TextType, JsonStringFits
<1> QED BY <1>1, <1>2, <1>4, AllPutOne

LEMMA Fits16 ==
  ASSUME NEW N \in SUBSET Nat, NEW v \in Seq(N), Narrow(N)
  PROVE  AllPut(kason_schema_pack_scalar("STRING_U16", v)) <=> ScalarValid("STRING_U16", v)
<1> DEFINE A == Terminated(v)
           B == kason_schema_utf16_valid(Text(v))
           x == Quoted(Scalars16(Text(v)))
           y == <<Spoil("TYPE")>>
<1>1. kason_schema_pack_scalar("STRING_U16", v) = IF A /\ B THEN x ELSE y
  BY DEF kason_schema_pack_scalar, kason_writer_json_string_u16
<1>2. ScalarValid("STRING_U16", v) <=> A /\ B
  BY DEF ScalarValid, StringTypes, TextValid
<1>3. ~AllPut(y)
  BY AllPutOne
<1>4. A /\ B => AllPut(x)
  <2> SUFFICES ASSUME A, B PROVE AllPut(x)
    OBVIOUS
  <2>1. Text(v) \in Seq(N) /\ N \subseteq Nat
    BY TextType
  <2>2. \A p \in DOMAIN Text(v) : Text(v)[p] \in N
    BY <2>1
  <2>3. Text(v) \in Seq(Nat) /\ \A p \in DOMAIN Text(v) : Text(v)[p] <= 65535
    <3>1. Text(v) \in Seq(Nat)
      BY <2>1, WiderSeq
    <3> QED BY <2>2, <3>1 DEF Narrow
  <2>4. Scalars16(Text(v)) \in Seq(UnicodeScalar)
    BY <2>3, ScalarsType
  <2> QED BY <2>4, QuotedFits
<1> HIDE DEF A, B, x, y
<1> QED BY <1>1, <1>2, <1>3, <1>4

LEMMA Fits32 ==
  ASSUME NEW v \in Seq(Nat)
  PROVE  AllPut(kason_schema_pack_scalar("STRING_U32", v)) <=> ScalarValid("STRING_U32", v)
<1> DEFINE A == Terminated(v)
           B == kason_schema_utf32_valid(Text(v))
           x == Quoted(Text(v))
           y == <<Spoil("TYPE")>>
<1>1. kason_schema_pack_scalar("STRING_U32", v) = IF A /\ B THEN x ELSE y
  BY DEF kason_schema_pack_scalar, kason_writer_json_string_u32
<1>2. ScalarValid("STRING_U32", v) <=> A /\ B
  BY DEF ScalarValid, StringTypes, TextValid
<1>3. ~AllPut(y)
  BY AllPutOne
<1>4. A /\ B => AllPut(x)
  <2> SUFFICES ASSUME A, B PROVE AllPut(x)
    OBVIOUS
  <2>1. Nat \in SUBSET Nat
    OBVIOUS
  <2>2. Text(v) \in Seq(Nat)
    BY <2>1, TextType
  <2>3. Text(v) \in Seq(UnicodeScalar)
    BY <2>2, Scalars32
  <2> QED BY <2>3, QuotedFits
<1> HIDE DEF A, B, x, y
<1> QED BY <1>1, <1>2, <1>3, <1>4

LEMMA DoubleFits ==
  ASSUME NEW v
  PROVE  AllPut(kason_schema_pack_scalar("DOUBLE", v)) <=> ScalarValid("DOUBLE", v)
<1> DEFINE token == IF v = << >> THEN Spoil("TYPE") ELSE Put(v)
<1>1. kason_schema_pack_scalar("DOUBLE", v) = <<token>>
  BY DEF kason_schema_pack_scalar
<1>2. token.does = "write" <=> v # << >>
  BY DEF Put, Spoil
<1>3. ScalarValid("DOUBLE", v) <=> v # << >>
  BY Zenon DEF ScalarValid, StringTypes
<1> HIDE DEF token
<1>4. AllPut(<<token>>) <=> token.does = "write"
  <2>1. DOMAIN <<token>> = {1} /\ <<token>>[1] = token
    OBVIOUS
  <2> QED BY <2>1 DEF AllPut
<1> QED BY <1>1, <1>2, <1>3, <1>4

LEMMA PackScalarFits ==
  ASSUME NEW field, FieldTyped(field), field.type # "STRUCT",
         NEW v, ElementTyped(field, v)
  PROVE  AllPut(kason_schema_pack_scalar(field.type, v)) <=> ScalarValid(field.type, v)
<1>1. CASE field.type = "BOOL"
  BY <1>1, BoolFits
<1>2. CASE field.type \in {"INT", "INT64"}
  <2>1. kason_schema_pack_scalar(field.type, v) = <<Put(kason_writer_signed(v))>>
    BY <1>2 DEF kason_schema_pack_scalar
  <2>2. ScalarValid(field.type, v)
    BY <1>2 DEF ScalarValid, StringTypes
  <2> QED BY <2>1, <2>2, AllPutOne
<1>3. CASE field.type \in {"U32", "U64"}
  <2>1. kason_schema_pack_scalar(field.type, v) = <<Put(kason_schema_unsigned_text[v])>>
    BY <1>3 DEF kason_schema_pack_scalar
  <2>2. ScalarValid(field.type, v)
    BY <1>3 DEF ScalarValid, StringTypes
  <2> QED BY <2>1, <2>2, AllPutOne
<1>4. CASE field.type = "DOUBLE"
  BY <1>4, DoubleFits
<1>5. CASE field.type = "STRING"
  <2>1. v \in Seq(Byte)
    <3>1. v \in Seq(Unit("STRING"))
      BY <1>5, BufferType DEF StringTypes
    <3> DEFINE U == Unit("STRING")
    <3>2. U \subseteq Byte
      BY Units8
    <3> HIDE DEF U
    <3>3. v \in Seq(U)
      BY <3>1 DEF U
    <3> QED BY <3>2, <3>3, WiderSeq
  <2> QED BY <1>5, <2>1, Fits8
<1>6. CASE field.type = "STRING_U16"
  <2>1. PICK N \in SUBSET Nat : v \in Seq(N) /\ Narrow(N)
    BY <1>6, Buffer16
  <2> QED BY <1>6, <2>1, Fits16
<1>7. CASE field.type = "STRING_U32"
  <2>1. v \in Seq(Nat)
    <3>1. v \in Seq(Unit("STRING_U32"))
      BY <1>7, BufferType DEF StringTypes
    <3> DEFINE U == Unit("STRING_U32")
    <3>2. U \subseteq Nat
      BY Units32
    <3> HIDE DEF U
    <3>3. v \in Seq(U)
      BY <3>1 DEF U
    <3> QED BY <3>2, <3>3, WiderSeq
  <2> QED BY <1>7, <2>1, Fits32
<1> QED BY <1>1, <1>2, <1>3, <1>4, <1>5, <1>6, <1>7
        DEF FieldTyped, Types, StringTypes, IntegerTypes

-----------------------------------------------------------------------------
(***************************************************************************)
(* What is left of a struct, from the frame that packs it on.              *)
(***************************************************************************)
LaterFits(f, d) ==
  \A i \in DOMAIN Fields[f.schema] :
    i > f.field => FieldFits(Fields[f.schema][i], Objects[f.object][i], d)
ItemsFit(f, d) ==
  \A p \in Nat :
    f.item < p /\ p <= ValueOf(f).count => ElementFits(FieldOf(f), ValueOf(f).items[p], d)
HereFits(f, d) ==
  IF f.item # NotInArray THEN ItemsFit(f, d)
  ELSE f.field <= Len(Fields[f.schema]) => FieldFits(FieldOf(f), ValueOf(f), d)
FrameFits(f, d) == d < MAX_NESTING /\ HereFits(f, d) /\ LaterFits(f, d)
StackFits(stack) == \A k \in DOMAIN stack : FrameFits(stack[k], Len(stack) - k)

LEMMA StackJoined ==
  ASSUME NEW f \in Standing, NEW rest \in Seq(Standing)
  PROVE  StackFits(<<f>> \o rest) <=> FrameFits(f, Len(rest)) /\ StackFits(rest)
<1> DEFINE s == <<f>> \o rest
<1>1. /\ Len(rest) \in Nat /\ DOMAIN rest = 1..Len(rest) /\ DOMAIN s = 1..(Len(rest) + 1)
      /\ Len(s) = Len(rest) + 1 /\ s[1] = f
  OBVIOUS
<1>2. \A k \in DOMAIN rest : s[k + 1] = rest[k]
  OBVIOUS
<1> HIDE DEF s
<1>3. 1 \in DOMAIN s /\ Len(s) - 1 = Len(rest)
  BY <1>1
<1>4. \A k \in DOMAIN rest : k + 1 \in DOMAIN s /\ Len(s) - (k + 1) = Len(rest) - k
  BY <1>1
<1>5. \A k \in DOMAIN s : k = 1 \/ (k - 1 \in DOMAIN rest /\ (k - 1) + 1 = k)
  BY <1>1
<1>6. StackFits(s) => FrameFits(f, Len(rest)) /\ StackFits(rest)
  <2> SUFFICES ASSUME StackFits(s) PROVE FrameFits(f, Len(rest)) /\ StackFits(rest)
    OBVIOUS
  <2>1. FrameFits(f, Len(rest))
    BY <1>1, <1>3 DEF StackFits
  <2>2. ASSUME NEW k \in DOMAIN rest PROVE FrameFits(rest[k], Len(rest) - k)
    <3>1. FrameFits(s[k + 1], Len(s) - (k + 1))
      BY <1>4 DEF StackFits
    <3> QED BY <1>2, <1>4, <3>1
  <2> QED BY <2>1, <2>2 DEF StackFits
<1>7. FrameFits(f, Len(rest)) /\ StackFits(rest) => StackFits(s)
  <2> SUFFICES ASSUME FrameFits(f, Len(rest)), StackFits(rest), NEW k \in DOMAIN s
               PROVE  FrameFits(s[k], Len(s) - k)
    BY DEF StackFits
  <2>1. CASE k = 1
    BY <1>1, <1>3, <2>1
  <2>2. CASE k # 1
    <3> DEFINE j == k - 1
    <3>1. j \in DOMAIN rest /\ j + 1 = k
      BY <1>5, <2>2
    <3> HIDE DEF j
    <3>2. FrameFits(rest[j], Len(rest) - j)
      BY <3>1 DEF StackFits
    <3> QED BY <1>2, <1>4, <3>1, <3>2
  <2> QED BY <2>1, <2>2
<1> QED BY <1>6, <1>7 DEF s

\* Whether one of the calls to come will fail.
LEMMA DoomedJoined ==
  ASSUME NEW a \in Seq(Entry), NEW b \in Seq(Entry)
  PROVE  Doomed(a \o b) <=> Doomed(a) \/ Doomed(b)
<1> DEFINE c == a \o b
<1>1. /\ Len(a) \in Nat /\ Len(b) \in Nat /\ DOMAIN a = 1..Len(a) /\ DOMAIN b = 1..Len(b)
      /\ DOMAIN c = 1..(Len(a) + Len(b))
  OBVIOUS
<1>2. \A p \in DOMAIN a : p \in DOMAIN c /\ c[p] = a[p]
  OBVIOUS
<1>3. \A p \in DOMAIN b : Len(a) + p \in DOMAIN c /\ c[Len(a) + p] = b[p]
  OBVIOUS
<1>4. \A p \in DOMAIN c : p \in DOMAIN a \/ \E q \in DOMAIN b : p = Len(a) + q
  <2> TAKE p \in DOMAIN c
  <2>1. p \notin DOMAIN a => p - Len(a) \in DOMAIN b /\ p = Len(a) + (p - Len(a))
    BY <1>1
  <2> QED BY <2>1
<1> HIDE DEF c
<1>5. Doomed(a) \/ Doomed(b) => Doomed(c)
  BY <1>2, <1>3 DEF Doomed
<1>6. Doomed(c) => Doomed(a) \/ Doomed(b)
  BY <1>2, <1>3, <1>4 DEF Doomed
<1> QED BY <1>5, <1>6 DEF c

LEMMA DoomedField ==
  ASSUME NEW s, Walker(s), NEW calls \in Seq(Token), NEW index \in Int
  PROVE  Doomed(ForField(s, calls, index)) <=> ~AllPut(calls)
<1> DEFINE q == ForField(s, calls, index)
<1>1. q \in Seq(Entry) /\ Len(q) = Len(calls) /\ \A p \in 1..Len(calls) : q[p].call = calls[p]
  BY FieldCallType
<1>2. DOMAIN calls = 1..Len(calls)
  OBVIOUS
<1> HIDE DEF q
<1>3. DOMAIN q = 1..Len(calls)
  BY <1>1
<1> QED BY <1>1, <1>2, <1>3 DEF Doomed, AllPut, q

LEMMA DoomedHere ==
  ASSUME NEW s, Walker(s), NEW calls \in Seq(Token)
  PROVE  Doomed(ForField(s, calls, -1)) <=> ~AllPut(calls)
<1> DEFINE i == -1
<1>1. i \in Int
  OBVIOUS
<1> HIDE DEF i
<1>2. Doomed(ForField(s, calls, i)) <=> ~AllPut(calls)
  BY <1>1, DoomedField
<1> QED BY <1>2 DEF i

LEMMA DoomedObject ==
  ASSUME NEW text \in Seq(Byte), NEW n \in Int
  PROVE  Doomed(AtObject(text, n)) <=> n >= MAX_NESTING
<1> DEFINE token == IF n >= MAX_NESTING THEN Stop("NESTING") ELSE Put(text)
           calls == <<token>>
           i == -1
           at == Place(NoField, i, n)
<1>1. token.does # "write" <=> n >= MAX_NESTING
  BY DEF Stop, Put
<1>2. AtObject(text, n) = Placed(calls, at)
  BY DEF AtObject
<1>3. calls = <<token>>
  OBVIOUS
<1> HIDE DEF token, at, calls
<1>4. DOMAIN Placed(calls, at) = {1} /\ Placed(calls, at)[1].call = token
  BY <1>3 DEF Placed
<1> DEFINE q == Placed(calls, at)
<1> HIDE DEF q
<1>5. Doomed(q) <=> token.does # "write"
  BY <1>4 DEF Doomed, q
<1> QED BY <1>1, <1>2, <1>5 DEF q

\* A schema that is initialised has keys and defaults that can be written.
LEMMA FieldReady ==
  ASSUME NEW schema \in Schemas, NEW i \in DOMAIN Fields[schema]
  PROVE  /\ kason_schema_utf8_valid(Fields[schema][i].key)
         /\ kason_schema_validate_default(Fields[schema][i])
BY SchemasAssumption DEF kason_schema_init, kason_schema_validate_field

LEMMA FieldHere ==
  ASSUME NEW f \in Standing, f.field <= Len(Fields[f.schema])
  PROVE  /\ f.schema \in Schemas /\ f.field \in DOMAIN Fields[f.schema]
         /\ f.object \in Instances[f.schema] /\ f.object \in Structs
         /\ kason_schema_utf8_valid(FieldOf(f).key) /\ kason_schema_validate_default(FieldOf(f))
<1>1. /\ f.schema \in Schemas /\ f.object \in Instances[f.schema] /\ f.object \in Structs
      /\ f.field \in 1..(Len(Fields[f.schema]) + 1)
  BY DEF Standing, Frames, Stands
<1>2. f.field \in DOMAIN Fields[f.schema]
  BY <1>1, FieldsAssumption
<1> QED BY <1>1, <1>2, FieldReady DEF FieldOf

LEMMA NameFits ==
  ASSUME NEW f \in Standing, f.field <= Len(Fields[f.schema])
  PROVE  AllPut(NameFor(f))
<1> DEFINE key == FieldOf(f).key
           a == Comma(f.emitted)
           b == kason_writer_json_string(key)
           c == <<Put(<<COLON>>)>>
<1>1. key \in Seq(Byte) /\ kason_schema_utf8_valid(key)
  BY FieldType, FieldHere DEF FieldTyped
<1> HIDE DEF key
<1>2. a \in Seq(Token) /\ b \in Seq(Token) /\ c \in Seq(Token)
  BY <1>1, CommaType, JsonString, PunctuationType
<1>3. AllPut(a)
  <2>1. AllPut(<< >>)
    BY DEF AllPut
  <2> QED BY <2>1, AllPutOne DEF Comma
<1>4. AllPut(b) /\ AllPut(c)
  BY <1>1, JsonStringFits, AllPutOne
<1>5. NameFor(f) = a \o b \o c
  BY DEF NameFor, key
<1> HIDE DEF a, b, c
<1>6. a \o b \in Seq(Token) /\ AllPut(a \o b)
  BY <1>2, <1>3, <1>4, AllPutJoined
<1> DEFINE ab == a \o b
<1> HIDE DEF ab
<1>7. AllPut(ab \o c)
  BY <1>2, <1>4, <1>6, AllPutJoined DEF ab
<1> QED BY <1>5, <1>7 DEF ab

\* A field that is no array is its only element.
LEMMA OneFits ==
  ASSUME NEW field, ~field.array, NEW value, NEW d
  PROVE  FieldFits(field, value, d) <=> ElementFits(field, value, d)
<1>1. Elements(field, value) = <<value>>
  BY DEF Elements
<1>2. DOMAIN <<value>> = {1} /\ <<value>>[1] = value
  OBVIOUS
<1> QED BY <1>1, <1>2 DEF FieldFits, FieldBy, ElementFits

LEMMA ArrayFits ==
  ASSUME NEW field, FieldTyped(field), field.array, NEW value, ValueTyped(field, value), NEW d
  PROVE  FieldFits(field, value, d) <=>
           /\ value.count <= field.capacity
           /\ \A p \in Nat : 0 < p /\ p <= value.count => ElementFits(field, value.items[p], d)
<1>1. value.count \in Nat
  BY DEF ValueTyped
<1>2. Elements(field, value) = [p \in 1..value.count |-> value.items[p]]
  BY DEF Elements
<1>3. \A p : p \in 1..value.count <=> p \in Nat /\ 0 < p /\ p <= value.count
  BY <1>1
<1>4. /\ DOMAIN Elements(field, value) = 1..value.count
      /\ \A p \in 1..value.count : Elements(field, value)[p] = value.items[p]
  BY <1>2
<1> QED BY <1>3, <1>4 DEF FieldFits, FieldBy, ElementFits

\* What is left out because it is the default would be accepted.
LEMMA DefaultIsFit ==
  ASSUME NEW field, FieldTyped(field), kason_schema_validate_default(field),
         NEW value, ValueTyped(field, value), NEW d \in Nat,
         kason_schema_field_is_default(field, value, d)
  PROVE  FieldFits(field, value, d)
<1>1. field.policy = "DEFAULT" /\ field.array \in BOOLEAN /\ field.type \in Types
  BY DEF kason_schema_field_is_default, FieldTyped
<1>2. CASE field.array
  <2>1. value.count = 0
    BY <1>2, Zenon DEF kason_schema_field_is_default
  <2>2. value.count <= field.capacity
    BY <2>1 DEF FieldTyped
  <2>3. \A p \in Nat : ~(0 < p /\ p <= value.count)
    BY <2>1
  <2> QED BY <1>2, <2>2, <2>3, ArrayFits
<1>3. CASE ~field.array /\ field.type = "STRUCT"
  <2> DEFINE v == value
             w == field.default
             at == <<field.child, v, w, d + 1>>
  <2>1. kason_schema_objects_equal[at]
    BY <1>3, Zenon DEF kason_schema_field_is_default, StringTypes
  <2>2. field.child \in Schemas /\ w \in Instances[field.child] /\ v \in Instances[field.child]
    <3>1. ElementTyped(field, v)
      BY <1>3 DEF ValueTyped
    <3>2. v \in Instances[field.child]
      BY <1>3, <3>1, Zenon DEF ElementTyped, StringTypes, IntegerTypes
    <3> QED BY <1>1, <1>3, <3>2 DEF FieldTyped
  <2>3. v \in Structs /\ w \in Structs
    BY <2>2, ObjectsAssumption
  <2>4. kason_schema_object_valid[<<field.child, w, 0>>]
    BY <1>1, <1>3, Zenon DEF kason_schema_validate_default, StringTypes
  <2> HIDE DEF v, w
  <2>5. at \in PairsAt
    BY <2>2, <2>3 DEF PairsAt
  <2>6. at[1] = field.child /\ at[2] = v /\ at[3] = w /\ at[4] = d + 1
    OBVIOUS
  <2> HIDE DEF at
  <2>7. kason_schema_object_valid[<<at[1], at[2], at[4]>>]
    BY <2>1, <2>4, <2>5, <2>6, EqualFits
  <2>8. ElementFits(field, v, d)
    BY <1>3, <2>6, <2>7 DEF ElementFits, ElementBy
  <2> QED BY <1>3, <2>8, OneFits DEF v
<1>4. CASE ~field.array /\ field.type \in StringTypes
  <2>1. Terminated(value) /\ Text(value) = field.default
    BY <1>4, Zenon DEF kason_schema_field_is_default, StringTypes
  <2>2. TextValid(field.type, field.default)
    BY <1>1, <1>4, Zenon DEF kason_schema_validate_default, StringTypes
  <2>3. ScalarValid(field.type, value)
    BY <1>4, <2>1, <2>2, Zenon DEF ScalarValid, StringTypes
  <2>4. field.type # "STRUCT"
    BY <1>4 DEF StringTypes
  <2>5. ElementFits(field, value, d)
    BY <2>3, <2>4 DEF ElementFits, ElementBy
  <2> QED BY <1>4, <2>5, OneFits
<1>5. CASE ~field.array /\ field.type = "DOUBLE"
  <2>1. SameDouble(value, field.default)
    BY <1>5, Zenon DEF kason_schema_field_is_default, StringTypes
  <2>2. ScalarValid(field.type, field.default)
    BY <1>1, <1>5, Zenon DEF kason_schema_validate_default, StringTypes
  <2>3. field.default # << >>
    BY <1>5, <2>2, Zenon DEF ScalarValid, StringTypes
  <2>4. value # << >>
    <3> SUFFICES ASSUME value = << >>, value # field.default PROVE FALSE
      BY <2>3
    <3>1. value \in Zeros
      BY <2>1 DEF SameDouble
    <3> QED BY <3>1 DEF Zeros
  <2>5. ScalarValid(field.type, value)
    BY <1>5, <2>4, Zenon DEF ScalarValid, StringTypes
  <2>6. ElementFits(field, value, d)
    BY <1>5, <2>5 DEF ElementFits, ElementBy
  <2> QED BY <1>5, <2>6, OneFits
<1>6. CASE ~field.array /\ field.type \in IntegerTypes
  <2>1. field.type # "STRUCT" /\ field.type # "DOUBLE" /\ field.type \notin StringTypes
    BY <1>6 DEF IntegerTypes, StringTypes
  <2>2. value = field.default
    BY <1>6, <2>1, Zenon DEF kason_schema_field_is_default
  <2>3. ScalarValid(field.type, field.default)
    BY <1>1, <1>6, <2>1, Zenon DEF kason_schema_validate_default
  <2>4. ElementFits(field, value, d)
    BY <2>1, <2>2, <2>3 DEF ElementFits, ElementBy
  <2> QED BY <1>6, <2>4, OneFits
<1>7. \/ field.type \in StringTypes \/ field.type \in IntegerTypes
      \/ field.type = "DOUBLE" \/ field.type = "STRUCT"
  BY <1>1 DEF Types
<1> QED BY <1>2, <1>3, <1>4, <1>5, <1>6, <1>7, Zenon

\* A frame behind the field of another.
LEMMA FrameOnward ==
  ASSUME NEW f \in Standing, f.field <= Len(Fields[f.schema]), NEW g, NEW d,
         g.schema = f.schema, g.object = f.object, g.field = f.field + 1, g.item = NotInArray
  PROVE  FrameFits(g, d) <=> d < MAX_NESTING /\ LaterFits(f, d)
<1> DEFINE fields == Fields[f.schema]
           Fit(i) == FieldFits(fields[i], Objects[f.object][i], d)
           n == Len(fields)
<1>1. f.schema \in Schemas /\ f.field \in Nat
  BY DEF Standing, Frames
<1>2. n \in Nat /\ DOMAIN fields = 1..n
  BY <1>1, FieldsAssumption
<1>3. HereFits(g, d) <=> (f.field + 1 <= n => Fit(f.field + 1))
  BY DEF HereFits, FieldOf, ValueOf
<1>4. LaterFits(g, d) <=> \A i \in DOMAIN fields : i > f.field + 1 => Fit(i)
  BY DEF LaterFits
<1>5. LaterFits(f, d) <=> \A i \in DOMAIN fields : i > f.field => Fit(i)
  BY DEF LaterFits
<1>6. f.field + 1 <= n <=> f.field + 1 \in DOMAIN fields
  BY <1>1, <1>2
<1>7. \A i \in DOMAIN fields : i > f.field <=> i = f.field + 1 \/ i > f.field + 1
  BY <1>1, <1>2
<1>8. f.field + 1 > f.field
  BY <1>1
<1> HIDE DEF fields, Fit, n
<1>9. HereFits(g, d) /\ LaterFits(g, d) <=> LaterFits(f, d)
  BY <1>3, <1>4, <1>5, <1>6, <1>7, <1>8
<1> QED BY <1>9 DEF FrameFits

LEMMA FrameHere ==
  ASSUME NEW f, f.item = NotInArray, f.field <= Len(Fields[f.schema]), NEW d
  PROVE  FrameFits(f, d) <=>
           d < MAX_NESTING /\ FieldFits(FieldOf(f), ValueOf(f), d) /\ LaterFits(f, d)
BY DEF FrameFits, HereFits

LEMMA FrameAtEnd ==
  ASSUME NEW f \in Standing, f.item = NotInArray, f.field > Len(Fields[f.schema]), NEW d
  PROVE  FrameFits(f, d) <=> d < MAX_NESTING
<1>1. f.schema \in Schemas /\ f.field \in Nat
  BY DEF Standing, Frames
<1>2. Len(Fields[f.schema]) \in Nat /\ DOMAIN Fields[f.schema] = 1..Len(Fields[f.schema])
  BY <1>1, FieldsAssumption
<1>3. ~(f.field <= Len(Fields[f.schema])) /\ \A i \in DOMAIN Fields[f.schema] : ~(i > f.field)
  BY <1>1, <1>2
<1> QED BY <1>3 DEF FrameFits, HereFits, LaterFits

\* A struct and the frame that begins with it.
LEMMA FrameStruct ==
  ASSUME NEW at \in StructsAt
  PROVE  kason_schema_object_valid[at] <=> FrameFits(Frame(at[1], at[2]), at[3])
<1> DEFINE g == Frame(at[1], at[2])
           fields == Fields[at[1]]
           Fit(i) == FieldFits(fields[i], Objects[at[2]][i], at[3])
           n == Len(fields)
<1>1. g.schema = at[1] /\ g.object = at[2] /\ g.field = 1 /\ g.item = NotInArray
  BY DEF Frame
<1>2. at[1] \in Schemas
  BY DEF StructsAt
<1>3. n \in Nat /\ DOMAIN fields = 1..n
  BY <1>2, FieldsAssumption
<1> HIDE DEF g
<1>4. HereFits(g, at[3]) <=> (1 <= n => Fit(1))
  BY <1>1 DEF HereFits, FieldOf, ValueOf
<1>5. LaterFits(g, at[3]) <=> \A i \in DOMAIN fields : i > 1 => Fit(i)
  BY <1>1 DEF LaterFits
<1>6. StructBy(kason_schema_object_valid, at) <=>
        at[3] < MAX_NESTING /\ \A i \in DOMAIN fields : Fit(i)
  BY DEF StructBy, FieldFits
<1>7. (1 <= n <=> 1 \in DOMAIN fields) /\ \A i \in DOMAIN fields : i = 1 \/ i > 1
  BY <1>3
<1> HIDE DEF fields, Fit, n
<1>8. HereFits(g, at[3]) /\ LaterFits(g, at[3]) <=> \A i \in DOMAIN fields : Fit(i)
  BY <1>4, <1>5, <1>7
<1>9. FrameFits(g, at[3]) <=> StructBy(kason_schema_object_valid, at)
  BY <1>6, <1>8 DEF FrameFits
<1> QED BY <1>9, ValidIs DEF g

LEMMA ChildFits ==
  ASSUME NEW field, FieldTyped(field), field.type = "STRUCT", NEW v, ElementTyped(field, v),
         NEW d \in Nat
  PROVE  ElementFits(field, v, d) <=> FrameFits(Frame(field.child, v), d + 1)
<1> DEFINE at == <<field.child, v, d + 1>>
<1>1. field.child \in Schemas /\ v \in Instances[field.child]
  BY Zenon DEF FieldTyped, ElementTyped, StringTypes, IntegerTypes
<1>2. v \in Structs
  BY <1>1, ObjectsAssumption
<1>3. at \in StructsAt
  BY <1>1, <1>2 DEF StructsAt
<1>4. at[1] = field.child /\ at[2] = v /\ at[3] = d + 1
  OBVIOUS
<1>5. ElementFits(field, v, d) <=> kason_schema_object_valid[at]
  BY DEF ElementFits, ElementBy
<1> HIDE DEF at
<1>6. kason_schema_object_valid[at] <=> FrameFits(Frame(at[1], at[2]), at[3])
  BY <1>3, FrameStruct
<1> QED BY <1>4, <1>5, <1>6

\* In an array.
LEMMA FrameInArray ==
  ASSUME NEW f \in Standing, f.item # NotInArray, f.item < ValueOf(f).count, NEW d,
         NEW g, g.schema = f.schema, g.object = f.object, g.field = f.field,
         g.item = f.item + 1
  PROVE  FrameFits(f, d) <=>
           ElementFits(FieldOf(f), ValueOf(f).items[f.item + 1], d) /\ FrameFits(g, d)
<1> DEFINE Fit(p) == ElementFits(FieldOf(f), ValueOf(f).items[p], d)
           n == ValueOf(f).count
<1>1. f.field <= Len(Fields[f.schema]) /\ FieldOf(f).array /\ f.item \in 0..n
  BY DEF Standing, Stands
<1>2. n \in Nat
  BY <1>1, FieldType DEF ValueTyped
<1>3. FieldOf(g) = FieldOf(f) /\ ValueOf(g) = ValueOf(f)
  BY DEF FieldOf, ValueOf
<1>4. f.item \in Nat /\ f.item + 1 \in Nat /\ f.item < n
  BY <1>1, <1>2
<1>5. g.item # NotInArray
  BY <1>4 DEF NotInArray
<1>6. HereFits(f, d) <=> \A p \in Nat : f.item < p /\ p <= n => Fit(p)
  BY DEF HereFits, ItemsFit
<1>7. HereFits(g, d) <=> \A p \in Nat : f.item + 1 < p /\ p <= n => Fit(p)
  BY <1>3, <1>5 DEF HereFits, ItemsFit
<1>8. LaterFits(g, d) <=> LaterFits(f, d)
  BY DEF LaterFits
<1>9. \A p \in Nat : f.item < p <=> p = f.item + 1 \/ f.item + 1 < p
  BY <1>4
<1>10. f.item + 1 <= n
  BY <1>2, <1>4
<1> HIDE DEF Fit, n
<1>11. HereFits(f, d) <=> Fit(f.item + 1) /\ HereFits(g, d)
  BY <1>4, <1>6, <1>7, <1>9, <1>10
<1> QED BY <1>8, <1>11 DEF FrameFits, Fit

LEMMA FrameAtArray ==
  ASSUME NEW f \in Standing, f.item = NotInArray, f.field <= Len(Fields[f.schema]),
         FieldOf(f).array, NEW d,
         NEW g, g.schema = f.schema, g.object = f.object, g.field = f.field, g.item = 0
  PROVE  FrameFits(f, d) <=>
           ValueOf(f).count <= FieldOf(f).capacity /\ FrameFits(g, d)
<1>1. FieldTyped(FieldOf(f)) /\ ValueTyped(FieldOf(f), ValueOf(f))
  BY FieldType
<1>2. FieldOf(g) = FieldOf(f) /\ ValueOf(g) = ValueOf(f)
  BY DEF FieldOf, ValueOf
<1>3. g.item # NotInArray
  BY DEF NotInArray
<1> DEFINE field == FieldOf(f)
           value == ValueOf(f)
<1> HIDE DEF field, value
<1>4. HereFits(g, d) <=>
        \A p \in Nat : 0 < p /\ p <= value.count => ElementFits(field, value.items[p], d)
  BY <1>2, <1>3 DEF HereFits, ItemsFit, field, value
<1>5. FieldFits(field, value, d) <=> value.count <= field.capacity /\ HereFits(g, d)
  BY <1>1, <1>4, ArrayFits DEF field, value
<1>6. LaterFits(g, d) <=> LaterFits(f, d)
  BY DEF LaterFits
<1>7. FrameFits(f, d) <=> d < MAX_NESTING /\ FieldFits(field, value, d) /\ LaterFits(f, d)
  BY FrameHere DEF field, value
<1> QED BY <1>5, <1>6, <1>7 DEF FrameFits, field, value

LEMMA FrameAtArrayEnd ==
  ASSUME NEW f \in Standing, f.item # NotInArray, ~(f.item < ValueOf(f).count), NEW d
  PROVE  FrameFits(f, d) <=> d < MAX_NESTING /\ LaterFits(f, d)
<1>1. f.field <= Len(Fields[f.schema]) /\ FieldOf(f).array /\ f.item \in 0..ValueOf(f).count
  BY DEF Standing, Stands
<1>2. ValueOf(f).count \in Nat
  BY <1>1, FieldType DEF ValueTyped
<1>3. \A p \in Nat : ~(f.item < p /\ p <= ValueOf(f).count)
  BY <1>1, <1>2
<1>4. HereFits(f, d)
  BY <1>3 DEF HereFits, ItemsFit
<1> QED BY <1>4 DEF FrameFits

-----------------------------------------------------------------------------
(***************************************************************************)
(* A step of the walk leaves what is to come as good, or as bad, as it was.*)
(***************************************************************************)
Alike(s, m) == StackFits(s) <=> ~Doomed(m.todo) /\ StackFits(m.frames)

LEMMA StackOver ==
  ASSUME NEW s, Walker(s), NEW f \in Standing
  PROVE  /\ StackFits(Over(s, f)) <=> FrameFits(f, Inner(s)) /\ StackFits(Tail(s))
         /\ Over(s, f) \in Seq(Standing) /\ Len(Over(s, f)) = Inner(s) + 1
<1>1. Tail(s) \in Seq(Standing)
  BY WalkerType, InRoomIsStanding
<1>2. Len(Tail(s)) = Inner(s) /\ Inner(s) \in Nat
  BY WalkerType DEF Walker, Inner
<1> DEFINE rest == Tail(s)
<1> HIDE DEF rest
<1>3. StackFits(<<f>> \o rest) <=> FrameFits(f, Len(rest)) /\ StackFits(rest)
  BY <1>1, StackJoined DEF rest
<1>4. <<f>> \o rest \in Seq(Standing) /\ Len(<<f>> \o rest) = Len(rest) + 1
  BY <1>1 DEF rest
<1> QED BY <1>2, <1>3, <1>4 DEF Over, rest

LEMMA StackNow ==
  ASSUME NEW s, Walker(s)
  PROVE  StackFits(s) <=> FrameFits(s[1], Inner(s)) /\ StackFits(Tail(s))
<1>1. s[1] \in Standing /\ s = Over(s, s[1])
  BY WalkerType
<1>2. StackFits(Over(s, s[1])) <=> FrameFits(s[1], Inner(s)) /\ StackFits(Tail(s))
  BY <1>1, StackOver
<1> QED BY <1>1, <1>2

LEMMA StackWithin ==
  ASSUME NEW s, Walker(s), NEW f \in Standing, NEW g \in Standing
  PROVE  StackFits(<<g>> \o Over(s, f)) <=>
           FrameFits(g, Inner(s) + 1) /\ FrameFits(f, Inner(s)) /\ StackFits(Tail(s))
<1> DEFINE rest == Over(s, f)
<1>1. rest \in Seq(Standing) /\ Len(rest) = Inner(s) + 1
  BY StackOver
<1> HIDE DEF rest
<1>2. StackFits(<<g>> \o rest) <=> FrameFits(g, Inner(s) + 1) /\ StackFits(rest)
  BY <1>1, StackJoined
<1>3. StackFits(rest) <=> FrameFits(f, Inner(s)) /\ StackFits(Tail(s))
  BY StackOver DEF rest
<1> QED BY <1>2, <1>3 DEF rest

\* The frame at the next field.
LEMMA NextFieldFits ==
  ASSUME NEW s, Walker(s), s[1].field <= Len(Fields[s[1].schema])
  PROVE  /\ NextField(s[1]) \in Standing
         /\ FrameFits(NextField(s[1]), Inner(s)) <=>
              Inner(s) < MAX_NESTING /\ LaterFits(s[1], Inner(s))
<1> DEFINE f == s[1]
           d == Inner(s)
           g == NextField(f)
<1>1. f \in Standing /\ f \in Frames
  BY WalkerType
<1>2. g \in Standing
  BY NextFieldType DEF InRoom
<1>3. g.schema = f.schema /\ g.object = f.object /\ g.field = f.field + 1 /\ g.item = NotInArray
  <2> HIDE DEF f
  <2> QED BY <1>1 DEF NextField, Frames
<1>4. f.field <= Len(Fields[f.schema])
  OBVIOUS
<1> HIDE DEF f, d, g
<1>5. FrameFits(g, d) <=> d < MAX_NESTING /\ LaterFits(f, d)
  BY <1>1, <1>3, <1>4, FrameOnward
<1> QED BY <1>2, <1>5 DEF f, d, g

LEMMA SkippedAlike ==
  ASSUME NEW s, Walker(s), s[1].item = NotInArray, s[1].field <= Len(Fields[s[1].schema]),
         kason_schema_field_is_default(FieldOf(s[1]), ValueOf(s[1]), Inner(s))
  PROVE  Alike(s, Skipped(s))
<1> DEFINE f == s[1]
           d == Inner(s)
           g == [f EXCEPT !.field = @ + 1]
           field == FieldOf(f)
           value == ValueOf(f)
<1>1. f \in Standing /\ f \in Frames /\ d \in Nat
  BY WalkerType
<1>2. g \in Standing
  BY NextFieldType DEF InRoom
<1>3. g.schema = f.schema /\ g.object = f.object /\ g.field = f.field + 1 /\ g.item = NotInArray
  BY <1>1 DEF Frames
<1>4. /\ FieldTyped(field) /\ ValueTyped(field, value) /\ kason_schema_validate_default(field)
      /\ kason_schema_field_is_default(field, value, d)
  BY <1>1, FieldType, FieldHere
<1>5. Skipped(s) = Moved(<< >>, Over(s, g))
  BY DEF Skipped
<1>6. f.field <= Len(Fields[f.schema]) /\ f.item = NotInArray
  OBVIOUS
<1> HIDE DEF f, d, g, field, value
<1>7. FieldFits(field, value, d)
  BY <1>1, <1>4, DefaultIsFit
<1>8. FrameFits(f, d) <=> d < MAX_NESTING /\ LaterFits(f, d)
  BY <1>6, <1>7, FrameHere DEF field, value
<1>9. FrameFits(g, d) <=> d < MAX_NESTING /\ LaterFits(f, d)
  BY <1>1, <1>3, <1>6, FrameOnward
<1>10. StackFits(s) <=> FrameFits(f, d) /\ StackFits(Tail(s))
  BY StackNow DEF f, d
<1>11. StackFits(Over(s, g)) <=> FrameFits(g, d) /\ StackFits(Tail(s))
  BY <1>2, StackOver DEF d
<1>12. ~Doomed(<< >>)
  BY DEF Doomed
<1> QED BY <1>5, <1>8, <1>9, <1>10, <1>11, <1>12 DEF Alike, Moved

LEMMA ScalarAlike ==
  ASSUME NEW s, Walker(s), s[1].item = NotInArray, s[1].field <= Len(Fields[s[1].schema]),
         ~FieldOf(s[1]).array, FieldOf(s[1]).type # "STRUCT"
  PROVE  Alike(s, ScalarDone(s))
<1> DEFINE f == s[1]
           d == Inner(s)
           g == NextField(f)
           field == FieldOf(f)
           value == ValueOf(f)
           a == NameFor(f)
           b == kason_schema_pack_scalar(field.type, value)
           calls == ForField(s, a \o b, -1)
<1>1. f \in Standing /\ f.field <= Len(Fields[f.schema]) /\ f.item = NotInArray
  BY WalkerType
<1>2. FieldTyped(field) /\ ValueTyped(field, value) /\ ~field.array /\ field.type # "STRUCT"
  BY <1>1, FieldType
<1>3. a \in Seq(Token) /\ b \in Seq(Token)
  BY FieldCalls
<1>4. ScalarDone(s) = Moved(calls, Over(s, g))
  BY DEF ScalarDone
<1>5. g \in Standing /\ (FrameFits(g, d) <=> d < MAX_NESTING /\ LaterFits(f, d))
  BY NextFieldFits
<1>6. AllPut(a)
  BY <1>1, NameFits
<1> HIDE DEF a
<1>7. AllPut(b) <=> ScalarValid(field.type, value)
  <2> HIDE DEF field, value
  <2>1. ElementTyped(field, value)
    BY <1>2 DEF ValueTyped
  <2> QED BY <1>2, <2>1, PackScalarFits
<1> HIDE DEF b
<1>8. Doomed(calls) <=> ~AllPut(b)
  <2>1. a \o b \in Seq(Token)
    BY <1>3
  <2> DEFINE ab == a \o b
  <2>2. AllPut(ab) <=> AllPut(a) /\ AllPut(b)
    BY <1>3, AllPutJoined
  <2> HIDE DEF ab
  <2>3. Doomed(ForField(s, ab, -1)) <=> ~AllPut(ab)
    BY <2>1, DoomedHere DEF ab
  <2> QED BY <1>6, <2>2, <2>3 DEF ab
<1> HIDE DEF f, d, g, field, value, calls
<1>9. FieldFits(field, value, d) <=> ScalarValid(field.type, value)
  BY <1>2, OneFits DEF ElementFits, ElementBy
<1>10. FrameFits(f, d) <=> d < MAX_NESTING /\ FieldFits(field, value, d) /\ LaterFits(f, d)
  BY <1>1, FrameHere DEF field, value
<1>11. StackFits(s) <=> FrameFits(f, d) /\ StackFits(Tail(s))
  BY StackNow DEF f, d
<1>12. StackFits(Over(s, g)) <=> FrameFits(g, d) /\ StackFits(Tail(s))
  BY <1>5, StackOver DEF d
<1> QED BY <1>4, <1>5, <1>7, <1>8, <1>9, <1>10, <1>11, <1>12 DEF Alike, Moved

LEMMA StructAlike ==
  ASSUME NEW s, Walker(s), s[1].item = NotInArray, s[1].field <= Len(Fields[s[1].schema]),
         ~FieldOf(s[1]).array, FieldOf(s[1]).type = "STRUCT"
  PROVE  Alike(s, StructBegun(s))
<1> DEFINE f == s[1]
           d == Inner(s)
           g == NextField(f)
           field == FieldOf(f)
           value == ValueOf(f)
           child == Frame(field.child, value)
           name == NameFor(f)
           a == ForField(s, name, -1)
           b == AtObject(<<OBJECT_START>>, d + 1)
<1>1. f \in Standing /\ f.field <= Len(Fields[f.schema]) /\ f.item = NotInArray /\ d \in Nat
  BY WalkerType
<1>2. FieldTyped(field) /\ ValueTyped(field, value) /\ ~field.array /\ field.type = "STRUCT"
  BY <1>1, FieldType
<1>3. StructBegun(s) = Moved(a \o b, <<child>> \o Over(s, g))
  BY DEF StructBegun
<1>4. g \in Standing /\ (FrameFits(g, d) <=> d < MAX_NESTING /\ LaterFits(f, d))
  BY NextFieldFits
<1>5. name \in Seq(Token) /\ AllPut(name)
  BY <1>1, FieldCalls, NameFits
<1> HIDE DEF name
<1>6. a \in Seq(Entry) /\ ~Doomed(a)
  BY <1>5, FieldCallHere, DoomedHere
<1> HIDE DEF f, d, g, field, value, a
<1>7. b \in Seq(Entry) /\ (Doomed(b) <=> d + 1 >= MAX_NESTING)
  <2>1. d + 1 \in Int
    BY <1>1
  <2> QED BY <2>1, PunctuationType, ObjectCallType, DoomedObject
<1> HIDE DEF b
<1>8. Doomed(a \o b) <=> d + 1 >= MAX_NESTING
  BY <1>6, <1>7, DoomedJoined
<1>9. ElementTyped(field, value)
  BY <1>2 DEF ValueTyped
<1>10. child \in Standing
  BY <1>2, <1>9, ChildType DEF InRoom
<1>11. FieldFits(field, value, d) <=> FrameFits(child, d + 1)
  BY <1>1, <1>2, <1>9, OneFits, ChildFits
<1> HIDE DEF child
<1>12. FrameFits(child, d + 1) => ~(d + 1 >= MAX_NESTING)
  BY <1>1, NestingAssumption DEF FrameFits
<1>13. FrameFits(f, d) <=> d < MAX_NESTING /\ FieldFits(field, value, d) /\ LaterFits(f, d)
  BY <1>1, FrameHere DEF field, value
<1>14. StackFits(s) <=> FrameFits(f, d) /\ StackFits(Tail(s))
  BY StackNow DEF f, d
<1>15. StackFits(<<child>> \o Over(s, g)) <=>
         FrameFits(child, d + 1) /\ FrameFits(g, d) /\ StackFits(Tail(s))
  BY <1>4, <1>10, StackWithin DEF d
<1> QED BY <1>3, <1>4, <1>8, <1>11, <1>12, <1>13, <1>14, <1>15 DEF Alike, Moved

LEMMA ArrayAlike ==
  ASSUME NEW s, Walker(s), s[1].item = NotInArray,
         s[1].field <= Len(Fields[s[1].schema]), FieldOf(s[1]).array
  PROVE  Alike(s, ArrayBegun(s))
<1> DEFINE f == s[1]
           d == Inner(s)
           g == [f EXCEPT !.item = 0]
           n == ValueOf(f).count
           room == FieldOf(f).capacity
           name == NameFor(f)
           a == ForField(s, name, -1)
           no == <<Stop("ARRAY_CAPACITY")>>
           yes == <<Put(<<ARRAY_START>>)>>
           full == ForField(s, no, n)
           open == ForField(s, yes, -1)
<1>1. /\ f \in Standing /\ f \in Frames /\ Stands(f) /\ FieldOf(f).array
      /\ f.field <= Len(Fields[f.schema]) /\ f.item = NotInArray
  BY WalkerType
<1>2. n \in Nat /\ room \in Nat
  BY <1>1, FieldType DEF ValueTyped, FieldTyped
<1>3. name \in Seq(Token) /\ AllPut(name)
  BY <1>1, FieldCalls, NameFits
<1>4. no \in Seq(Token) /\ ~AllPut(no) /\ yes \in Seq(Token) /\ AllPut(yes)
  BY PunctuationType, AllPutOne
<1>5. g \in Frames /\ g.schema = f.schema /\ g.object = f.object /\ g.field = f.field /\ g.item = 0
  BY <1>1 DEF Frames
<1>6. ArrayBegun(s) = Moved(a \o (IF n > room THEN full ELSE open), Over(s, g))
  BY DEF ArrayBegun
<1> HIDE DEF name, no, yes
<1>7. a \in Seq(Entry) /\ ~Doomed(a)
  BY <1>3, FieldCallHere, DoomedHere
<1>8. open \in Seq(Entry) /\ ~Doomed(open)
  BY <1>4, FieldCallHere, DoomedHere
<1>9. full \in Seq(Entry) /\ Doomed(full)
  <2>1. n \in Int
    BY <1>2
  <2> HIDE DEF n
  <2> QED BY <1>4, <2>1, FieldCallType, DoomedField
<1> HIDE DEF g
<1>10. g \in Standing
  <2> HIDE DEF f
  <2>1. FieldOf(g) = FieldOf(f) /\ ValueOf(g) = ValueOf(f)
    BY <1>5 DEF FieldOf, ValueOf
  <2>2. Stands(g)
    BY <1>1, <1>2, <1>5, <2>1 DEF Stands
  <2> QED BY <1>5, <2>2 DEF Standing
<1> HIDE DEF f, d
<1>11. FrameFits(f, d) <=> n <= room /\ FrameFits(g, d)
  BY <1>1, <1>5, FrameAtArray
<1> HIDE DEF a, n, room, full, open
<1>12. Doomed(a \o (IF n > room THEN full ELSE open)) <=> n > room
  <2>1. Doomed(a \o full)
    BY <1>7, <1>9, DoomedJoined
  <2>2. ~Doomed(a \o open)
    BY <1>7, <1>8, DoomedJoined
  <2> QED BY <2>1, <2>2
<1>13. n > room <=> ~(n <= room)
  BY <1>2
<1>14. StackFits(s) <=> FrameFits(f, d) /\ StackFits(Tail(s))
  BY StackNow DEF f, d
<1>15. StackFits(Over(s, g)) <=> FrameFits(g, d) /\ StackFits(Tail(s))
  BY <1>10, StackOver DEF d
<1> DEFINE calls == a \o (IF n > room THEN full ELSE open)
<1> HIDE DEF calls
<1>16. Doomed(calls) <=> n > room
  BY <1>12 DEF calls
<1>17. ArrayBegun(s) = Moved(calls, Over(s, g))
  BY <1>6 DEF calls
<1> QED BY <1>11, <1>13, <1>14, <1>15, <1>16, <1>17 DEF Alike, Moved

LEMMA ItemAlike ==
  ASSUME NEW s, Walker(s), s[1].item # NotInArray, s[1].item < ValueOf(s[1]).count
  PROVE  IF FieldOf(s[1]).type = "STRUCT" THEN Alike(s, ItemBegun(s)) ELSE Alike(s, ItemDone(s))
<1> DEFINE f == s[1]
           d == Inner(s)
           field == FieldOf(f)
           v == ValueOf(f).items[f.item + 1]
           comma == Comma(f.item > 0)
           g == NextItem(f)
<1>1. /\ f \in InRoom /\ f \in Standing /\ f \in Frames /\ f.item \in Int /\ d \in Nat
      /\ f.item # NotInArray /\ f.item < ValueOf(f).count
  BY WalkerType DEF Frames
<1>2. FieldTyped(field) /\ ElementTyped(field, v)
  BY <1>1, ItemType
<1>3. comma \in Seq(Token) /\ AllPut(comma)
  <2>1. AllPut(<< >>)
    BY DEF AllPut
  <2>2. AllPut(comma)
    BY <2>1, AllPutOne DEF Comma
  <2> QED BY <2>2, CommaType
<1>4. g \in Standing
  BY NextItemType DEF InRoom
<1>5. g.schema = f.schema /\ g.object = f.object /\ g.field = f.field /\ g.item = f.item + 1
  <2> HIDE DEF f
  <2> QED BY <1>1 DEF NextItem, Frames
<1>6. ItemDone(s) = Moved(ForField(s, comma \o kason_schema_pack_scalar(field.type, v), f.item),
                          Over(s, g))
  BY DEF ItemDone
<1>7. ItemBegun(s) = Moved(ForField(s, comma, f.item) \o AtObject(<<OBJECT_START>>, d + 1),
                           <<Frame(field.child, v)>> \o Over(s, g))
  BY DEF ItemBegun
<1>8. FieldOf(s[1]) = field
  OBVIOUS
<1> HIDE DEF f, d, g, comma
<1>9. FrameFits(f, d) <=> ElementFits(field, v, d) /\ FrameFits(g, d)
  BY <1>1, <1>5, FrameInArray
<1>10. StackFits(s) <=> FrameFits(f, d) /\ StackFits(Tail(s))
  BY StackNow DEF f, d
<1> HIDE DEF field, v
<1>11. CASE field.type = "STRUCT"
  <2> DEFINE a == ForField(s, comma, f.item)
             b == AtObject(<<OBJECT_START>>, d + 1)
             child == Frame(field.child, v)
  <2>1. a \in Seq(Entry) /\ ~Doomed(a)
    BY <1>1, <1>3, FieldCallType, DoomedField
  <2>2. b \in Seq(Entry) /\ (Doomed(b) <=> d + 1 >= MAX_NESTING)
    <3>1. d + 1 \in Int
      BY <1>1
    <3> QED BY <3>1, PunctuationType, ObjectCallType, DoomedObject
  <2>3. child \in Standing
    BY <1>2, <1>11, ChildType DEF InRoom
  <2>4. ElementFits(field, v, d) <=> FrameFits(child, d + 1)
    BY <1>1, <1>2, <1>11, ChildFits
  <2>5. ItemBegun(s) = Moved(a \o b, <<child>> \o Over(s, g))
    BY <1>7
  <2> HIDE DEF a, b, child
  <2>6. Doomed(a \o b) <=> d + 1 >= MAX_NESTING
    BY <2>1, <2>2, DoomedJoined
  <2>7. FrameFits(child, d + 1) => ~(d + 1 >= MAX_NESTING)
    BY <1>1, NestingAssumption DEF FrameFits
  <2>8. StackFits(<<child>> \o Over(s, g)) <=>
          FrameFits(child, d + 1) /\ FrameFits(g, d) /\ StackFits(Tail(s))
    BY <1>4, <2>3, StackWithin DEF d
  <2>9. Alike(s, ItemBegun(s))
    BY <1>9, <1>10, <2>4, <2>5, <2>6, <2>7, <2>8 DEF Alike, Moved
  <2> QED BY <1>8, <1>11, <2>9
<1>12. CASE field.type # "STRUCT"
  <2> DEFINE b == kason_schema_pack_scalar(field.type, v)
             calls == ForField(s, comma \o b, f.item)
  <2>1. b \in Seq(Token) /\ (AllPut(b) <=> ScalarValid(field.type, v))
    BY <1>2, <1>12, PackScalarType, PackScalarFits
  <2>2. ElementFits(field, v, d) <=> ScalarValid(field.type, v)
    BY <1>12 DEF ElementFits, ElementBy
  <2>3. ItemDone(s) = Moved(calls, Over(s, g))
    BY <1>6
  <2> HIDE DEF b
  <2>4. Doomed(calls) <=> ~AllPut(b)
    <3> DEFINE cb == comma \o b
    <3>1. cb \in Seq(Token)
      BY <1>3, <2>1
    <3>2. AllPut(cb) <=> AllPut(comma) /\ AllPut(b)
      BY <1>3, <2>1, AllPutJoined
    <3> HIDE DEF cb
    <3>3. Doomed(ForField(s, cb, f.item)) <=> ~AllPut(cb)
      BY <1>1, <3>1, DoomedField
    <3> QED BY <1>3, <3>2, <3>3 DEF cb
  <2> HIDE DEF calls
  <2>5. StackFits(Over(s, g)) <=> FrameFits(g, d) /\ StackFits(Tail(s))
    BY <1>4, StackOver DEF d
  <2>6. Alike(s, ItemDone(s))
    BY <1>9, <1>10, <2>1, <2>2, <2>3, <2>4, <2>5 DEF Alike, Moved
  <2> QED BY <1>8, <1>12, <2>6
<1> QED BY <1>11, <1>12

LEMMA ArrayLeftAlike ==
  ASSUME NEW s, Walker(s), s[1].item # NotInArray, ~(s[1].item < ValueOf(s[1]).count)
  PROVE  Alike(s, ArrayLeft(s))
<1> DEFINE f == s[1]
           d == Inner(s)
           g == NextField(f)
           token == <<Put(<<ARRAY_END>>)>>
           calls == ForField(s, token, -1)
<1>1. f \in Standing /\ f.item # NotInArray /\ ~(f.item < ValueOf(f).count)
  BY WalkerType
<1>2. f.field <= Len(Fields[f.schema])
  BY <1>1 DEF Standing, Stands
<1>3. g \in Standing /\ (FrameFits(g, d) <=> d < MAX_NESTING /\ LaterFits(f, d))
  BY <1>2, NextFieldFits
<1>4. token \in Seq(Token) /\ AllPut(token)
  BY PunctuationType, AllPutOne
<1>5. ArrayLeft(s) = Moved(calls, Over(s, g))
  BY DEF ArrayLeft
<1> HIDE DEF token
<1>6. ~Doomed(calls)
  BY <1>4, DoomedHere
<1> HIDE DEF f, d, g, calls
<1>7. FrameFits(f, d) <=> d < MAX_NESTING /\ LaterFits(f, d)
  BY <1>1, FrameAtArrayEnd
<1>8. StackFits(s) <=> FrameFits(f, d) /\ StackFits(Tail(s))
  BY StackNow DEF f, d
<1>9. StackFits(Over(s, g)) <=> FrameFits(g, d) /\ StackFits(Tail(s))
  BY <1>3, StackOver DEF d
<1> QED BY <1>3, <1>5, <1>6, <1>7, <1>8, <1>9 DEF Alike, Moved

LEMMA ObjectLeftAlike ==
  ASSUME NEW s, Walker(s), s[1].item = NotInArray, s[1].field > Len(Fields[s[1].schema])
  PROVE  Alike(s, ObjectLeft(s))
<1> DEFINE f == s[1]
           d == Inner(s)
           calls == AtObject(<<OBJECT_END>>, d)
<1>1. f \in Standing /\ d \in Nat
  BY WalkerType
<1>2. ObjectLeft(s) = Moved(calls, Tail(s))
  BY DEF ObjectLeft
<1>3. Doomed(calls) <=> d >= MAX_NESTING
  <2>1. d \in Int
    BY <1>1
  <2> HIDE DEF d
  <2> QED BY <2>1, PunctuationType, DoomedObject
<1>4. FrameFits(f, d) <=> d < MAX_NESTING
  BY <1>1, FrameAtEnd
<1>5. StackFits(s) <=> FrameFits(f, d) /\ StackFits(Tail(s))
  BY StackNow
<1> HIDE DEF f, d, calls
<1>6. d >= MAX_NESTING <=> ~(d < MAX_NESTING)
  BY <1>1, NestingAssumption
<1> QED BY <1>2, <1>3, <1>4, <1>5, <1>6 DEF Alike, Moved

LEMMA WalkAlike ==
  ASSUME NEW omit, NEW s, Walker(s)
  PROVE  Alike(s, Walk(omit, s))
<1>1. s[1] \in Standing /\ s[1] \in Frames
  BY WalkerType
<1>2. CASE s[1].item # NotInArray
  BY <1>2, ItemAlike, ArrayLeftAlike DEF Walk, WalkItem
<1>3. CASE s[1].item = NotInArray /\ s[1].field > Len(Fields[s[1].schema])
  BY <1>3, ObjectLeftAlike DEF Walk
<1>4. CASE s[1].item = NotInArray /\ ~(s[1].field > Len(Fields[s[1].schema]))
  <2>1. s[1].field <= Len(Fields[s[1].schema])
    BY <1>1, <1>4, FieldsAssumption DEF Frames
  <2>2. Walk(omit, s) = WalkField(omit, s)
    BY <1>4 DEF Walk
  <2> QED BY <1>4, <2>1, <2>2, SkippedAlike, ArrayAlike, StructAlike, ScalarAlike
          DEF WalkField, IsLeftOut
<1> QED BY <1>2, <1>3, <1>4

-----------------------------------------------------------------------------
(***************************************************************************)
(* So the struct that was begun with is valid when no call that fails is   *)
(* ever reached.                                                           *)
(***************************************************************************)
Outlook(c) == ~Doomed(c.todo) /\ StackFits(c.frames)

LEMMA AdvanceAlike ==
  ASSUME NEW omit, NEW c \in States
  PROVE  Outlook(Advance(omit, c)) <=> Outlook(c)
<1> DEFINE head == Head(c.todo)
           rest == Tail(c.todo)
<1>1. c.todo \in Seq(Entry) /\ (c.frames \in Seq(InRoom) \/ Doomed(c.todo))
  BY DEF States
<1>2. CASE c.todo # << >> /\ head.call.does = "write"
  <2>1. Advance(omit, c) = State(c.frames, rest, c.text \o head.call.text)
    BY <1>2 DEF Advance
  <2>2. <<head>> \in Seq(Entry) /\ rest \in Seq(Entry) /\ c.todo = <<head>> \o rest
    BY <1>1, <1>2
  <2>3. ~Doomed(<<head>>)
    <3>1. DOMAIN <<head>> = {1} /\ <<head>>[1] = head
      OBVIOUS
    <3> QED BY <1>2, <3>1 DEF Doomed
  <2> HIDE DEF head, rest
  <2>4. Doomed(c.todo) <=> Doomed(rest)
    BY ZenonT(60), <2>2, <2>3, DoomedJoined
  <2> QED BY <2>1, <2>4 DEF Outlook, State
<1>3. CASE c.todo = << >> /\ c.frames # << >>
  <2> DEFINE m == Walk(omit, c.frames)
  <2>1. ~Doomed(c.todo)
    BY <1>3 DEF Doomed
  <2>2. Walker(c.frames)
    BY <1>1, <1>3, <2>1 DEF Walker
  <2>3. StackFits(c.frames) <=> ~Doomed(m.todo) /\ StackFits(m.frames)
    BY <2>2, WalkAlike DEF Alike
  <2>4. Advance(omit, c) = State(m.frames, m.todo, c.text)
    BY <1>3 DEF Advance
  <2> HIDE DEF m
  <2> QED BY <2>1, <2>3, <2>4 DEF Outlook, State
<1>4. CASE ~(c.todo # << >> /\ head.call.does = "write") /\ ~(c.todo = << >> /\ c.frames # << >>)
  BY <1>4 DEF Advance
<1> QED BY <1>2, <1>3, <1>4

LEMMA LeadsAlike ==
  ASSUME NEW omit, NEW c \in States, NEW d, Leads(omit, c, d)
  PROVE  Outlook(d) <=> Outlook(c)
<1> DEFINE S == {x \in States : Outlook(x) <=> Outlook(c)}
<1>1. S \in SUBSET States /\ c \in S
  OBVIOUS
<1>2. \A x \in S : Advance(omit, x) \in S
  BY AdvanceKeeps, AdvanceAlike
<1>3. d \in S
  BY <1>1, <1>2 DEF Leads
<1> QED BY <1>3

LEMMA BeginningFits ==
  ASSUME NEW root \in Roots
  PROVE  Outlook(Beginning(root)) <=> kason_schema_object_valid[<<root[1], root[2], 0>>]
<1>1. PICK schema \in Schemas : \E object \in Instances[schema] : root = <<schema, object>>
  BY RootsAssumption
<1>2. PICK object \in Instances[schema] : root = <<schema, object>>
  BY <1>1
<1> DEFINE at == <<root[1], root[2], 0>>
           f == Frame(root[1], root[2])
           calls == AtObject(<<OBJECT_START>>, 0)
<1>3. root[1] = schema /\ root[2] = object
  BY <1>2
<1>4. object \in Structs
  BY ObjectsAssumption
<1>5. at \in StructsAt /\ at[1] = schema /\ at[2] = object /\ at[3] = 0
  BY <1>3, <1>4 DEF StructsAt
<1>6. kason_schema_object_valid[at] <=> FrameFits(Frame(at[1], at[2]), at[3])
  BY <1>5, FrameStruct
<1>7. f \in Standing
  BY <1>3, FrameType DEF InRoom
<1>8. ~Doomed(calls)
  <2> DEFINE n == 0
  <2>1. n \in Int /\ ~(n >= MAX_NESTING)
    BY NestingAssumption
  <2> HIDE DEF n
  <2>2. ~Doomed(AtObject(<<OBJECT_START>>, n))
    BY <2>1, PunctuationType, DoomedObject
  <2> QED BY <2>2 DEF n
<1>9. Beginning(root) = State(<<f>>, calls, << >>)
  BY DEF Beginning
<1> HIDE DEF f, calls, at
<1>10. StackFits(<<f>>) <=> FrameFits(f, 0)
  <2>1. DOMAIN <<f>> = {1} /\ <<f>>[1] = f /\ Len(<<f>>) - 1 = 0
    OBVIOUS
  <2> QED BY <2>1 DEF StackFits
<1>11. FrameFits(Frame(at[1], at[2]), at[3]) <=> FrameFits(f, 0)
  BY <1>3, <1>5 DEF f
<1> QED BY <1>6, <1>8, <1>9, <1>10, <1>11 DEF Outlook, State, at

LEMMA InvValid == PackInv => ValidStructsPack
<1> SUFFICES ASSUME PackInv, call = "done", result \notin {"WRITER_CAPACITY", "WRITER_CALLBACK"}
             PROVE  result = "SUCCESS" <=>
                      kason_schema_object_valid[<<job.root[1], job.root[2], 0>>]
  BY DEF ValidStructsPack
<1>1. job \in Jobs
  BY DEF PackInv, DoneInv
<1>2. PICK c \in States : Reached(job, c) /\ EndedAt(c)
  BY DEF PackInv, DoneInv
<1>3. job.root \in Roots /\ Beginning(job.root) \in States
  BY <1>1, <1>2, ReachedType
<1>4. Outlook(c) <=> Outlook(Beginning(job.root))
  BY <1>2, <1>3, LeadsAlike DEF Reached
<1>5. Outlook(c) <=> kason_schema_object_valid[<<job.root[1], job.root[2], 0>>]
  BY <1>3, <1>4, BeginningFits
<1>6. result = "SUCCESS" => Outlook(c)
  <2>1. Outlook(End(written))
    BY DEF Outlook, End, State, Doomed, StackFits
  <2> QED BY <1>2, <2>1 DEF EndedAt
<1>7. result # "SUCCESS" => ~Outlook(c)
  <2> SUFFICES ASSUME result # "SUCCESS" PROVE Doomed(c.todo)
    BY DEF Outlook
  <2>1. c.todo # << >> /\ Head(c.todo).call.does # "write" /\ c.todo \in Seq(Entry)
    BY <1>2 DEF EndedAt, SinkFailures, States
  <2>2. 1 \in DOMAIN c.todo /\ c.todo[1] = Head(c.todo)
    BY <2>1
  <2> QED BY <2>1, <2>2 DEF Doomed
<1> QED BY <1>5, <1>6, <1>7

(* Unless its sink fails, kason_pack succeeds with exactly the structs     *)
(* that kason_schema_object_valid accepts, for every schema, every struct  *)
(* and every default that may be left out.                                 *)
THEOREM ValidStructsArePacked == PackSpec => []ValidStructsPack
<1>1. PackInv => ValidStructsPack
  BY InvValid
<1> QED BY <1>1, PackInductive, PTL
=============================================================================
