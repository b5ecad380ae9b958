---------------------------- MODULE KasonWriter ----------------------------
(***************************************************************************)
(* kason_writer: the bytes of a document go to a buffer of fixed size, to  *)
(* a callback that may refuse them, by way of a staging buffer unless it   *)
(* has no room, or nowhere, when they are only counted.                    *)
(*                                                                         *)
(* The buffer is the C string it holds, up to the NUL that every write and *)
(* reset puts behind it.  A pointer to the callback is never NULL, as      *)
(* kason_writer_init_callback makes sure.                                  *)
(***************************************************************************)
EXTENDS Integers, Sequences

CONSTANTS
  Data,         \* what may be written: strings of bytes
  Capacities,   \* sizes the application may give to a buffer
  SIZE_MAX      \* largest size_t

Bytes == UNION {{d[p] : p \in DOMAIN d} : d \in Data}

ASSUME DataAssumption == Data \subseteq Seq(Bytes)
ASSUME SizeAssumption ==
  SIZE_MAX \in Nat /\ Capacities \subseteq 0..SIZE_MAX

VARIABLES
  writer,       \* mode, capacity, scratch_capacity, length, status
  sink,         \* buffer, staged in the scratch, delivered to the callback,
                \* and whether the callback has refused
  written,      \* history: all that was written with success since a reset
  answer        \* of the last call

writerVars == <<writer, sink, written, answer>>

Modes == {"BUFFER", "CALLBACK", "COUNTER"}
Failures == {"WRITER_CAPACITY", "WRITER_CALLBACK", "TYPE", "RANGE"}

Writer(mode, capacity, scratch_capacity) ==
  [mode |-> mode, capacity |-> capacity, scratch_capacity |-> scratch_capacity,
   length |-> 0, status |-> "SUCCESS"]
EmptySink ==
  [buffer |-> << >>, staged |-> << >>, delivered |-> << >>, refused |-> FALSE]

\* kason_writer_init_buffer, kason_writer_init_callback, kason_writer_init_counter
Writers ==
  {Writer("BUFFER", n, 0) : n \in Capacities \ {0}}
    \cup {Writer("CALLBACK", 0, n) : n \in Capacities}
    \cup {Writer("COUNTER", 0, 0)}

-----------------------------------------------------------------------------
Succeed(d) ==
  /\ writer' = [writer EXCEPT !.length = @ + Len(d)]
  /\ written' = written \o d /\ answer' = "SUCCESS"
Fail(code) ==
  /\ writer' = [writer EXCEPT !.status = code]
  /\ answer' = code /\ UNCHANGED written

Delivered(s, d) == [s EXCEPT !.delivered = @ \o d]
\* Mutant: the bytes stay staged once they are delivered.
FlushedTwice(s) == [s EXCEPT !.delivered = @ \o s.staged]
Flushed(s) == [s EXCEPT !.delivered = @ \o s.staged, !.staged = << >>]
Staged(s, d) == [s EXCEPT !.staged = @ \o d]
Refuse(s) == [s EXCEPT !.refused = TRUE]

\* memcpy to buffer + length, and the terminator.
Stored(s, d) == [s EXCEPT !.buffer = SubSeq(@, 1, writer.length) \o d]

-----------------------------------------------------------------------------
Fits(d) == Len(d) <= SIZE_MAX - writer.length
\* Mutant: no byte is kept for the terminator.
InBufferWithoutNul(d) == Len(d) <= writer.capacity - writer.length
InBuffer(d) == Len(d) < writer.capacity - writer.length
ScratchRoom == writer.scratch_capacity - Len(sink.staged)

\* Mutant: the status of an earlier write is not looked at.
ReadyAgain(d, mode) == Fits(d) /\ writer.mode = mode
Ready(d, mode) == writer.status = "SUCCESS" /\ Fits(d) /\ writer.mode = mode

Sticks == writer.status # "SUCCESS" /\ answer' = writer.status
          /\ UNCHANGED <<writer, sink, written>>

TooLong(d) ==
  /\ writer.status = "SUCCESS" /\ ~Fits(d)
  /\ Fail("WRITER_CAPACITY") /\ UNCHANGED sink

Count(d) == Ready(d, "COUNTER") /\ Succeed(d) /\ UNCHANGED sink

Store(d) ==
  /\ Ready(d, "BUFFER") /\ InBuffer(d)
  /\ Succeed(d) /\ sink' = Stored(sink, d)
NoRoom(d) ==
  /\ Ready(d, "BUFFER") /\ ~InBuffer(d)
  /\ Fail("WRITER_CAPACITY") /\ UNCHANGED sink

\* No scratch: the bytes go to the callback as they come.
Unstaged(d) == Ready(d, "CALLBACK") /\ writer.scratch_capacity = 0
Pass(d) ==
  /\ Unstaged(d)
  /\ Succeed(d) /\ sink' = Delivered(sink, d)
PassRefused(d) ==
  /\ Unstaged(d) /\ d # << >>
  /\ Fail("WRITER_CALLBACK") /\ sink' = Refuse(sink)

\* More than the scratch can hold: what is staged goes first.
Long(d) == /\ Ready(d, "CALLBACK")
           /\ writer.scratch_capacity \in 1..(Len(d) - 1)
PassLong(d) ==
  /\ Long(d)
  /\ Succeed(d) /\ sink' = Delivered(Flushed(sink), d)
LongRefused(d) ==
  /\ Long(d)
  /\ Fail("WRITER_CALLBACK")
  /\ \/ sink' = Refuse(Flushed(sink))
     \/ sink.staged # << >> /\ sink' = Refuse(sink)

Short(d) == /\ Ready(d, "CALLBACK") /\ writer.scratch_capacity > 0
            /\ Len(d) <= writer.scratch_capacity
Stage(d) ==
  /\ Short(d) /\ Len(d) <= ScratchRoom
  /\ Succeed(d) /\ sink' = Staged(sink, d)
FlushAndStage(d) ==
  /\ Short(d) /\ Len(d) > ScratchRoom
  /\ Succeed(d) /\ sink' = Staged(Flushed(sink), d)
FlushRefused(d) ==
  /\ Short(d) /\ Len(d) > ScratchRoom /\ sink.staged # << >>
  /\ Fail("WRITER_CALLBACK") /\ sink' = Refuse(sink)

\* kason_writer_write
Write(d) ==
  \/ Sticks \/ TooLong(d) \/ Count(d) \/ Store(d) \/ NoRoom(d)
  \/ Pass(d) \/ PassRefused(d) \/ PassLong(d) \/ LongRefused(d)
  \/ Stage(d) \/ FlushAndStage(d) \/ FlushRefused(d)

\* The text functions find a value that is no JSON (kason_writer_json_string,
\* kason_writer_double).
Condemn(code) ==
  /\ writer.status = "SUCCESS" /\ code \in {"TYPE", "RANGE"}
  /\ Fail(code) /\ UNCHANGED sink

\* kason_writer_flush, which kason_pack calls when all was written.
Flush ==
  /\ writer.status = "SUCCESS" /\ UNCHANGED written
  /\ \/ answer' = "SUCCESS" /\ sink' = Flushed(sink) /\ UNCHANGED writer
     \/ /\ writer.mode = "CALLBACK" /\ sink.staged # << >>
        /\ Fail("WRITER_CALLBACK") /\ sink' = Refuse(sink)

\* Mutant: the length stays.
ResetKeepsLength ==
  /\ writer' = [writer EXCEPT !.status = "SUCCESS"]
  /\ sink' = EmptySink /\ written' = << >> /\ answer' = "SUCCESS"
\* kason_writer_reset: the bytes of a callback's last document stay with the
\* application, and it begins a new one.
Reset ==
  /\ writer' = [writer EXCEPT !.length = 0, !.status = "SUCCESS"]
  /\ sink' = EmptySink /\ written' = << >> /\ answer' = "SUCCESS"

Initialise ==
  /\ writer' \in Writers
  /\ sink' = EmptySink /\ written' = << >> /\ answer' = "SUCCESS"

Init ==
  /\ writer \in Writers
  /\ sink = EmptySink /\ written = << >> /\ answer = "SUCCESS"

Next ==
  \/ Initialise \/ Reset \/ Flush
  \/ \E d \in Data : Write(d)
  \/ \E code \in Failures : Condemn(code)

Spec == Init /\ [][Next]_writerVars

-----------------------------------------------------------------------------
(* Every variable has its type; the length never exceeds a size_t.         *)
TypeOK ==
  /\ writer \in [mode : Modes, capacity : 0..SIZE_MAX,
                 scratch_capacity : 0..SIZE_MAX, length : 0..SIZE_MAX,
                 status : Failures \cup {"SUCCESS"}]
  /\ sink \in [buffer : Seq(Bytes), staged : Seq(Bytes),
               delivered : Seq(Bytes), refused : BOOLEAN]
  /\ written \in Seq(Bytes)
  /\ answer \in Failures \cup {"SUCCESS"}

(* The length is that of everything written, whichever the mode:   *)
(* what a counter says is what a buffer of the same document would hold.   *)
LengthIsExact == writer.length = Len(written)

(* The buffer holds all that was written, and room for its terminator.     *)
BufferHoldsOutput ==
  writer.mode = "BUFFER" =>
    sink.buffer = written /\ Len(sink.buffer) < writer.capacity

(* What the callback has taken and what is staged make up what was         *)
(* written, in order, also after a refusal; the scratch is not overrun.    *)
CallbackGetsOutput ==
  writer.mode = "CALLBACK" =>
    /\ sink.delivered \o sink.staged = written
    /\ Len(sink.staged) <= writer.scratch_capacity

(* In every mode: what was written is counted, and all of it is there.     *)
OutputIsExact == LengthIsExact /\ BufferHoldsOutput /\ CallbackGetsOutput

(* A callback that has refused is not called again before a reset.         *)
RefusalIsFinal == [][sink.refused /\ sink'.refused => sink' = sink]_writerVars

Output == INSTANCE KasonOutput WITH
  out <- written, status <- writer.status,
  limit <- IF writer.mode = "BUFFER" THEN writer.capacity ELSE SIZE_MAX + 1,
  refusable <- writer.mode = "CALLBACK"
(* In all its modes the writer is an output of whole tokens: it fails for  *)
(* want of room exactly when the output and its terminator do not fit, and *)
(* the first failure stays.                                                *)
IsOutput == Output!Spec
=============================================================================
