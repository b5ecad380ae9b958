---------------------------- MODULE KasonStream ----------------------------
(***************************************************************************)
(* The chunked parser of kason.c: kason_stream_init, kason_stream_feed,    *)
(* kason_stream_finish and kason_stream_reset, one action for each branch  *)
(* of the switch of kason_stream_feed.                                     *)
(*                                                                         *)
(* The application owns the chunks.  fed is the document it has handed     *)
(* over so far, and a char* into a chunk is a position in fed: it may be   *)
(* followed only while that chunk is the one being parsed, which is what   *)
(* chunk_begin tells.  The scratch buffer keeps slot 0 free, so scratch is *)
(* the sequence of the bytes in slots 1 .. scratch_length - 1.             *)
(***************************************************************************)
EXTENDS KasonText

CONSTANTS
  ScratchSize,       \* scratch_size
  Chunks(_),         \* the chunks the application may feed after fed
  FinishAfterError,  \* does it ask for the final status of a failed stream?
  MayBreak           \* may the callback return KaSON_CALLBACK_BREAK?

ASSUME ScratchSizeAssumption == ScratchSize \in Nat /\ ScratchSize > 1
ASSUME PolicyAssumption == FinishAfterError \in BOOLEAN /\ MayBreak \in BOOLEAN

VARIABLES
  \* the calls of the application
  fed,            \* bytes handed over since the last reset
  chunk_begin,    \* position in fed of the first byte of the current chunk
  i,              \* position in fed of the byte kason_stream_feed looks at
  part_start,     \* local of kason_stream_process_container, 0 outside it
  phase,          \* "idle", or "feed" while kason_stream_feed runs
  result,         \* what the last call returned
  ended,          \* kason_stream_finish has been called since the last reset
  rejected,       \* a call has returned an error since the last reset
  stale_read,     \* a call has followed a pointer into a chunk it had given back
  \* struct s_kason_stream
  mode, state, has_entries, callback_break,
  token,          \* scratch, key_*, value_*, direct_*, has_key, escape_hex_left
  container,      \* container_*
  \* the callback
  out             \* what it has received, the parts of a container joined

input  == <<fed, chunk_begin>>
caller == <<fed, chunk_begin, phase, result, ended, rejected, stale_read>>
control == <<mode, state, has_entries, callback_break>>
stream == <<control, token, container>>
vars   == <<caller, i, part_start, stream, out>>

States ==
  {"FIND_ROOT", "FIND_KEY_BEGIN", "FIND_KEY_END", "FIND_VALUE_SEP",
   "FIND_VALUE_BEGIN", "FIND_STRING_END", "FIND_GENERIC_END",
   "FIND_PARAM_SEP", "STREAM_CONTAINER", "KEY_ESCAPE", "STRING_ESCAPE",
   "COMPLETE"}
Modes == {"M_AUTO", "M_OBJECT", "M_ARRAY", "M_STRING", "M_GENERIC"}
Errors  == {"ERROR", "BUFFER_FULL", "UNDEFINED"}
Results == {"NONE", "SUCCESS", "INCOMPLETE"} \cup Errors
Fields  == {"key", "value"}
Verdicts == IF MayBreak THEN {"CONTINUE", "BREAK"} ELSE {"CONTINUE"}

\* end_token is assigned together with mode and is a function of it.
end_token == CASE mode = "M_OBJECT" -> OBJECT_END
               [] mode = "M_ARRAY"  -> ARRAY_END
               [] OTHER             -> 0
InEntries == mode \in {"M_OBJECT", "M_ARRAY"}
AfterSeparator ==
  IF mode = "M_OBJECT" THEN "FIND_KEY_BEGIN" ELSE "FIND_VALUE_BEGIN"

-----------------------------------------------------------------------------
(***************************************************************************)
(* Token memory.  A key or a value is a slice of the scratch, or, while    *)
(* its direct pointers are not NULL, a slice of the current chunk.         *)
(***************************************************************************)
Null == [begin |-> 0, end |-> 0]
Cleared == [scratch |-> << >>,
            slice   |-> [f \in Fields |-> [begin |-> 0, end |-> 0]],
            direct  |-> [f \in Fields |-> Null],
            has_key |-> FALSE,
            escape_hex_left |-> 0]

\* Mutant: slot 0 counted as free.
RoomOffByOne(t) == ScratchSize - Len(t.scratch)
Room(t) == ScratchSize - 1 - Len(t.scratch)
append_scratch(t, c) == [t EXCEPT !.scratch = Append(@, c)]

ChunkSlice(d) == SubSeq(fed, d.begin, d.end)
Text(t, f) == IF t.direct[f] # Null THEN ChunkSlice(t.direct[f])
              ELSE SubSeq(t.scratch, t.slice[f].begin, t.slice[f].end)

\* Copies until the scratch is full; only a complete copy drops the pointers.
copy_direct(t, f) ==
  LET text  == ChunkSlice(t.direct[f])
      kept  == IF Len(text) <= Room(t) THEN Len(text) ELSE Room(t)
      start == Len(t.scratch) + 1
  IN  IF t.direct[f] = Null THEN t
      ELSE [t EXCEPT !.scratch   = @ \o SubSeq(text, 1, kept),
                     !.slice[f]  = [begin |-> start, end |-> start + kept - 1],
                     !.direct[f] = IF kept = Len(text) THEN Null ELSE @]

preserve_direct(t) ==
  LET keyed == copy_direct(t, "key")
  IN  IF keyed.direct["key"] = Null THEN copy_direct(keyed, "value") ELSE keyed
Preserved(t) == \A f \in Fields : t.direct[f] = Null

PointAt(t, f, begin, end) ==
  [t EXCEPT !.direct[f] = [begin |-> begin, end |-> end]]

(***************************************************************************)
(* What the callback keeps of an event.  key is << >> for a NULL key.      *)
(***************************************************************************)
KeyOf(t) == IF t.has_key THEN <<Text(t, "key")>> ELSE << >>
Entry(key, type, data, open) ==
  [key |-> key, type |-> type, data |-> data, open |-> open]
AddPart(seen, bytes, open) ==
  LET last == seen[Len(seen)]
  IN  [seen EXCEPT ![Len(seen)] =
         Entry(last.key, last.type, last.data \o bytes, open)]

-----------------------------------------------------------------------------
(***************************************************************************)
(* Control of a call.                                                      *)
(***************************************************************************)
Advance == i' = i + 1 /\ UNCHANGED <<caller, part_start>>

\* The chunk belongs to the application again.
Return(r) ==
  /\ phase' = "idle" /\ result' = r
  /\ rejected' = (rejected \/ r \in Errors)
  /\ chunk_begin' = Len(fed) + 1
  /\ part_start' = 0
  /\ UNCHANGED <<fed, i, ended, stale_read>>

Reject(r) == Return(r) /\ UNCHANGED <<stream, out>>

\* kason_stream_emit, the callback answering KaSON_CALLBACK_BREAK.
Break ==
  /\ callback_break' = TRUE /\ state' = "COMPLETE"
  /\ UNCHANGED <<mode, has_entries>>

AtByte(s) == phase = "feed" /\ part_start = 0 /\ i <= Len(fed) /\ state = s
InByte(s, c) == AtByte(s) /\ fed[i] = c
Goto(s) == state' = s /\ UNCHANGED <<mode, has_entries, callback_break>>

\* kason_stream_commit_primitive, then the state its caller moves to.
\* Mutant: the scratch is not cleared when a value is done.
CommitWithoutClear(type, next, verdict) ==
  /\ out' = Append(out, Entry(KeyOf(token), type, Text(token, "value"), FALSE))
  /\ UNCHANGED container
  /\ IF verdict = "BREAK"
     THEN Break /\ UNCHANGED token
     ELSE /\ token' = [token EXCEPT !.direct = Cleared.direct, !.has_key = FALSE]
          /\ state' = next
          /\ has_entries' = (has_entries \/ InEntries)
          /\ UNCHANGED <<mode, callback_break>>

Commit(type, next, verdict) ==
  /\ out' = Append(out, Entry(KeyOf(token), type, Text(token, "value"), FALSE))
  /\ UNCHANGED container
  /\ IF verdict = "BREAK"
     THEN Break /\ UNCHANGED token
     ELSE /\ token' = Cleared
          /\ state' = next
          /\ has_entries' = (has_entries \/ InEntries)
          /\ UNCHANGED <<mode, callback_break>>

CommitInFeed(type, next) ==
  \E verdict \in Verdicts :
    /\ Commit(type, next, verdict)
    /\ IF verdict = "BREAK" THEN Return("SUCCESS") ELSE Advance

-----------------------------------------------------------------------------
(***************************************************************************)
(* kason_stream_feed: the branches common to several states.               *)
(***************************************************************************)
Skipping == {"COMPLETE", "FIND_ROOT", "FIND_KEY_BEGIN", "FIND_VALUE_SEP",
             "FIND_VALUE_BEGIN", "FIND_PARAM_SEP"}
\* Mutant: the loop does not step over whitespace.
SkipWithoutAdvance ==
  /\ \E s \in Skipping : AtByte(s)
  /\ is_whitespace(fed[i])
  /\ UNCHANGED vars

SkipWhitespace ==
  /\ \E s \in Skipping : AtByte(s)
  /\ is_whitespace(fed[i])
  /\ Advance /\ UNCHANGED <<stream, out>>

OpensValue(c) == ~is_whitespace(c) /\ c # end_token /\ c # COMMA
\* The bytes a state leaves by; any other byte but whitespace is an error.
\* Mutant: an object must have a member.
ExpectedMember(s, c) ==
  CASE s = "COMPLETE"         -> FALSE
    [] s = "FIND_KEY_BEGIN"   -> c = QUOTE
    [] s = "FIND_VALUE_SEP"   -> c = COLON
    [] s = "FIND_VALUE_BEGIN" -> OpensValue(c) \/ c = end_token
    [] s = "FIND_PARAM_SEP"   -> c = COMMA \/ c = end_token
    [] OTHER                  -> TRUE

Expected(s, c) ==
  CASE s = "COMPLETE"         -> FALSE
    [] s = "FIND_KEY_BEGIN"   -> c = QUOTE \/ (c = OBJECT_END /\ ~has_entries)
    [] s = "FIND_VALUE_SEP"   -> c = COLON
    [] s = "FIND_VALUE_BEGIN" ->
         OpensValue(c) \/ (c = end_token /\ mode = "M_ARRAY" /\ ~has_entries)
    [] s = "FIND_PARAM_SEP"   -> c = COMMA \/ c = end_token
    [] OTHER                  -> TRUE
RejectByte ==
  /\ \E s \in Skipping : AtByte(s) /\ ~Expected(s, fed[i])
  /\ ~is_whitespace(fed[i])
  /\ Reject("ERROR")

(***************************************************************************)
(* The root, separators and delimiters.                                    *)
(***************************************************************************)
RootEntries ==
  /\ AtByte("FIND_ROOT") /\ fed[i] \in {OBJECT_START, ARRAY_START}
  /\ mode' = IF fed[i] = OBJECT_START THEN "M_OBJECT" ELSE "M_ARRAY"
  /\ state' = IF fed[i] = OBJECT_START THEN "FIND_KEY_BEGIN"
                                       ELSE "FIND_VALUE_BEGIN"
  /\ Advance /\ UNCHANGED <<has_entries, callback_break, token, container, out>>

RootScalar ==
  /\ AtByte("FIND_ROOT")
  /\ ~is_whitespace(fed[i]) /\ fed[i] \notin {OBJECT_START, ARRAY_START}
  /\ IF fed[i] = QUOTE
     THEN /\ mode' = "M_STRING" /\ state' = "FIND_STRING_END"
          /\ token' = PointAt(token, "value", i + 1, i)
     ELSE /\ mode' = "M_GENERIC" /\ state' = "FIND_GENERIC_END"
          /\ token' = PointAt(token, "value", i, i)
  /\ Advance /\ UNCHANGED <<has_entries, callback_break, container, out>>

\* Mutant: has_entries is not asked, a separator may end the entries.
CloseAfterSeparator ==
  /\ \/ InByte("FIND_KEY_BEGIN", OBJECT_END)
     \/ InByte("FIND_VALUE_BEGIN", ARRAY_END) /\ mode = "M_ARRAY"
  /\ Goto("COMPLETE") /\ Advance /\ UNCHANGED <<token, container, out>>

CloseEmpty ==
  /\ \/ InByte("FIND_KEY_BEGIN", OBJECT_END)
     \/ InByte("FIND_VALUE_BEGIN", ARRAY_END) /\ mode = "M_ARRAY"
  /\ ~has_entries
  /\ Goto("COMPLETE") /\ Advance /\ UNCHANGED <<token, container, out>>

OpenKey ==
  /\ InByte("FIND_KEY_BEGIN", QUOTE)
  /\ token' = PointAt(Cleared, "key", i + 1, i)
  /\ Goto("FIND_KEY_END") /\ Advance /\ UNCHANGED <<container, out>>

FindValueSep ==
  /\ InByte("FIND_VALUE_SEP", COLON)
  /\ Goto("FIND_VALUE_BEGIN") /\ Advance /\ UNCHANGED <<token, container, out>>

FindParamSep ==
  /\ \/ InByte("FIND_PARAM_SEP", COMMA) /\ Goto(AfterSeparator)
     \/ InByte("FIND_PARAM_SEP", end_token) /\ Goto("COMPLETE")
  /\ Advance /\ UNCHANGED <<token, container, out>>

OpenString ==
  /\ InByte("FIND_VALUE_BEGIN", QUOTE)
  /\ token' = PointAt(token, "value", i + 1, i)
  /\ Goto("FIND_STRING_END") /\ Advance /\ UNCHANGED <<container, out>>

OpenGeneric ==
  /\ AtByte("FIND_VALUE_BEGIN") /\ OpensValue(fed[i])
  /\ fed[i] \notin {QUOTE, OBJECT_START, ARRAY_START}
  /\ token' = PointAt(token, "value", i, i)
  /\ Goto("FIND_GENERIC_END") /\ Advance /\ UNCHANGED <<container, out>>

-----------------------------------------------------------------------------
(***************************************************************************)
(* The bytes of a key or of a string value: the same branches twice, once  *)
(* for FIND_KEY_END and once for FIND_STRING_END.                          *)
(***************************************************************************)
TextState(f)   == IF f = "key" THEN "FIND_KEY_END" ELSE "FIND_STRING_END"
EscapeState(f) == IF f = "key" THEN "KEY_ESCAPE" ELSE "STRING_ESCAPE"
IsPlain(c) == ~is_control_char(c) /\ c # QUOTE /\ c # BACKSLASH

\* The fast loops of the switch: last is where the run starting at i ends.
RunEndsAt(last, Continues(_)) ==
  /\ \A k \in (i + 1)..last : Continues(fed[k])
  /\ last < Len(fed) => ~Continues(fed[last + 1])
ConsumeTo(last) == i' = last + 1 /\ UNCHANGED <<caller, part_start>>

TextBytes(f) ==
  /\ AtByte(TextState(f)) /\ IsPlain(fed[i])
  /\ UNCHANGED <<control, container, out>>
  /\ \/ /\ token.direct[f] # Null
        /\ \E last \in i..Len(fed) :
             /\ RunEndsAt(last, IsPlain)
             /\ token' = [token EXCEPT !.direct[f].end = last]
             /\ ConsumeTo(last)
     \/ /\ token.direct[f] = Null /\ Room(token) > 0
        /\ token' = [append_scratch(token, fed[i]) EXCEPT
                       !.slice[f].end = Len(token.scratch) + 1]
        /\ Advance

TextByteFull(f) ==
  /\ AtByte(TextState(f)) /\ IsPlain(fed[i])
  /\ token.direct[f] = Null /\ Room(token) <= 0
  /\ token' = [token EXCEPT !.slice[f].end = Len(token.scratch)]
  /\ Return("BUFFER_FULL")
  /\ UNCHANGED <<control, container, out>>

TextControlChar(f) ==
  AtByte(TextState(f)) /\ is_control_char(fed[i]) /\ Reject("ERROR")

\* The backslash: the token moves to the scratch, and the state moves on
\* even when it did not fit.
BeginEscape(f) ==
  LET kept == preserve_direct(token)
      fits == Preserved(kept) /\ Room(kept) > 0
  IN  /\ InByte(TextState(f), BACKSLASH)
      /\ Goto(EscapeState(f)) /\ UNCHANGED <<container, out>>
      /\ token' = [(IF fits THEN append_scratch(kept, BACKSLASH) ELSE kept)
                     EXCEPT !.escape_hex_left = 0]
      /\ IF fits THEN Advance ELSE Return("BUFFER_FULL")

\* kason_stream_process_escape
EscapeAccepts(t, c) ==
  IF t.escape_hex_left > 0 THEN is_hex_digit(c)
                           ELSE c = LETTER_U \/ is_simple_escape(c)
\* Mutant: every escape counts down.
HexLeftAlwaysCounts(t, c) ==
  IF t.escape_hex_left = 0 /\ c = LETTER_U THEN 4 ELSE t.escape_hex_left - 1

HexLeftAfter(t, c) ==
  CASE t.escape_hex_left > 0 -> t.escape_hex_left - 1
    [] t.escape_hex_left = 0 /\ c = LETTER_U -> 4
    [] OTHER -> 0

EscapeByte(f) ==
  /\ AtByte(EscapeState(f))
  /\ EscapeAccepts(token, fed[i]) /\ Room(token) > 0
  /\ token' = [append_scratch(token, fed[i]) EXCEPT
                 !.slice[f].end = Len(token.scratch) + 1,
                 !.escape_hex_left = HexLeftAfter(token, fed[i])]
  /\ Goto(IF HexLeftAfter(token, fed[i]) = 0 THEN TextState(f) ELSE state)
  /\ Advance /\ UNCHANGED <<container, out>>

EscapeRejected(f) ==
  /\ AtByte(EscapeState(f))
  /\ \/ ~EscapeAccepts(token, fed[i]) /\ Reject("ERROR")
     \/ /\ EscapeAccepts(token, fed[i]) /\ Room(token) <= 0
        /\ Reject("BUFFER_FULL")

CloseKey ==
  /\ InByte("FIND_KEY_END", QUOTE)
  /\ \/ /\ kason_string_is_valid(Text(token, "key"))
        /\ token' = [token EXCEPT !.has_key = TRUE]
        /\ Goto("FIND_VALUE_SEP") /\ Advance /\ UNCHANGED <<container, out>>
     \/ ~kason_string_is_valid(Text(token, "key")) /\ Reject("ERROR")

CloseString ==
  /\ InByte("FIND_STRING_END", QUOTE)
  /\ \/ /\ kason_string_is_valid(Text(token, "value"))
        /\ CommitInFeed("STRING",
             IF InEntries THEN "FIND_PARAM_SEP" ELSE "COMPLETE")
     \/ ~kason_string_is_valid(Text(token, "value")) /\ Reject("ERROR")

(***************************************************************************)
(* The bytes of a number or literal, ended by a delimiter.                 *)
(***************************************************************************)
kason_stream_generic_delimiter(c) ==
  \/ is_whitespace(c)
  \/ InEntries /\ (c = COMMA \/ c = end_token)
IsGeneric(c) == ~kason_stream_generic_delimiter(c)

GenericBytes ==
  /\ AtByte("FIND_GENERIC_END") /\ IsGeneric(fed[i])
  /\ UNCHANGED <<control, container, out>>
  /\ \/ /\ token.direct["value"] # Null
        /\ \E last \in i..Len(fed) :
             /\ RunEndsAt(last, IsGeneric)
             /\ token' = [token EXCEPT !.direct["value"].end = last]
             /\ ConsumeTo(last)
     \/ /\ token.direct["value"] = Null /\ Room(token) > 0
        /\ token' = [append_scratch(token, fed[i]) EXCEPT
                       !.slice["value"].end = Len(token.scratch) + 1]
        /\ Advance

GenericByteFull ==
  /\ AtByte("FIND_GENERIC_END") /\ IsGeneric(fed[i])
  /\ token.direct["value"] = Null /\ Room(token) <= 0
  /\ token' = [token EXCEPT !.slice["value"].end = Len(token.scratch)]
  /\ Return("BUFFER_FULL")
  /\ UNCHANGED <<control, container, out>>

\* kason_stream_commit_generic; finish calls it with delimiter 0.
AfterGeneric(delimiter) ==
  IF mode = "M_GENERIC" THEN "COMPLETE"
  ELSE IF delimiter = COMMA THEN AfterSeparator
  ELSE IF delimiter = end_token THEN "COMPLETE" ELSE "FIND_PARAM_SEP"

CommitGeneric ==
  /\ AtByte("FIND_GENERIC_END") /\ kason_stream_generic_delimiter(fed[i])
  /\ LET type == ScalarType(Text(token, "value"))
     IN  \/ type # "INVALID" /\ CommitInFeed(type, AfterGeneric(fed[i]))
         \/ type = "INVALID" /\ Reject("ERROR")

-----------------------------------------------------------------------------
(***************************************************************************)
(* Containers below the root.  Their bytes are passed on in parts; only    *)
(* brackets, strings and escapes are looked at.  The scratch holds the     *)
(* brackets that are open.  (container_high_surrogate is written and never *)
(* read, so it is left out.)                                               *)
(***************************************************************************)
Surrogates == {"NONE", "EXPECT_BACKSLASH", "EXPECT_U", "LOW_HEX"}

ContainerFields(type, string) ==
  [type |-> type, string |-> string, escape |-> FALSE, hex_left |-> 0,
   unicode_value |-> 0, utf8_value |-> 0, utf8_minimum |-> 0,
   surrogate_state |-> "NONE", utf8_left |-> 0]

StartContainer ==
  /\ AtByte("FIND_VALUE_BEGIN") /\ fed[i] \in {OBJECT_START, ARRAY_START}
  /\ LET type == IF fed[i] = OBJECT_START THEN "OBJECT" ELSE "ARRAY"
     IN  /\ out' = Append(out, Entry(KeyOf(token), type, <<fed[i]>>, TRUE))
         /\ \/ /\ "BREAK" \in Verdicts /\ Break /\ Return("SUCCESS")
               /\ container' = [container EXCEPT !.type = type]
               /\ UNCHANGED token
            \/ /\ token' = append_scratch(Cleared, fed[i])
               /\ container' = ContainerFields(type, FALSE)
               /\ Goto("STREAM_CONTAINER") /\ Advance

\* kason_stream_process_utf8 and kason_stream_process_container_escape: the
\* fields after one more byte, no element when the byte is an error.
Utf8Step(k, c) ==
  LET n     == continuation_count(c)
      value == k.utf8_value * 64 + (c % 64)
  IN  CASE k.utf8_left = 0 /\ c < 128 -> {k}
        [] k.utf8_left = 0 /\ n > 0 ->
             {[k EXCEPT !.utf8_left = n, !.utf8_value = lead_bits(c, n),
                        !.utf8_minimum = utf8_minimum(n)]}
        [] k.utf8_left > 0 /\ is_continuation(c)
             /\ (k.utf8_left > 1 \/ ~IllFormedScalar(value, k.utf8_minimum)) ->
             {[k EXCEPT !.utf8_left = @ - 1, !.utf8_value = value]}
        [] OTHER -> {}

HexStep(k, c) ==
  LET value == k.unicode_value * 16 + kason_hex_value(c)
      next  == [k EXCEPT !.unicode_value = value, !.hex_left = @ - 1]
      low   == k.surrogate_state = "LOW_HEX"
  IN  CASE ~is_hex_digit(c) -> {}
        [] is_hex_digit(c) /\ k.hex_left > 1 -> {next}
        [] is_hex_digit(c) /\ k.hex_left = 1 /\ low = (value \in LowSurrogate) ->
             {[next EXCEPT !.escape = FALSE,
                 !.surrogate_state = IF value \in HighSurrogate
                                     THEN "EXPECT_BACKSLASH" ELSE "NONE"]}
        [] OTHER -> {}

EscapeStep(k, c) ==
  CASE k.hex_left > 0 -> HexStep(k, c)
    [] k.hex_left = 0 /\ c = LETTER_U ->
         {[k EXCEPT !.hex_left = 4, !.unicode_value = 0]}
    [] k.hex_left = 0 /\ is_simple_escape(c) -> {[k EXCEPT !.escape = FALSE]}
    [] OTHER -> {}

StringStep(k, c) ==
  CASE k.surrogate_state = "EXPECT_BACKSLASH" ->
         IF c = BACKSLASH THEN {[k EXCEPT !.surrogate_state = "EXPECT_U"]} ELSE {}
    [] k.surrogate_state = "EXPECT_U" ->
         IF c = LETTER_U
         THEN {[k EXCEPT !.surrogate_state = "LOW_HEX", !.hex_left = 4,
                         !.unicode_value = 0]}
         ELSE {}
    [] k.surrogate_state = "LOW_HEX" \/ (k.surrogate_state = "NONE" /\ k.escape) ->
         EscapeStep(k, c)
    [] OTHER ->
         CASE k.utf8_left > 0 -> Utf8Step(k, c)
           [] k.utf8_left = 0 /\ c = BACKSLASH ->
                {[k EXCEPT !.escape = TRUE, !.hex_left = 0]}
           [] k.utf8_left = 0 /\ c = QUOTE -> {[k EXCEPT !.string = FALSE]}
           [] k.utf8_left = 0 /\ is_control_char(c) -> {}
           [] OTHER -> Utf8Step(k, c)

\* The call of kason_stream_process_container.
EnterContainer ==
  /\ AtByte("STREAM_CONTAINER")
  /\ part_start' = i
  /\ UNCHANGED <<caller, i, stream, out>>

AtContainerByte == phase = "feed" /\ part_start > 0 /\ i <= Len(fed)

ContainerStringByte ==
  /\ AtContainerByte /\ container.string
  /\ \/ /\ container' \in StringStep(container, fed[i])
        /\ Advance
        /\ UNCHANGED <<control, token, out>>
     \/ StringStep(container, fed[i]) = {} /\ Reject("ERROR")

ContainerByte ==
  /\ AtContainerByte /\ ~container.string
  /\ ~Opens(fed[i]) /\ ~Closes(fed[i])
  /\ container' = IF fed[i] = QUOTE THEN ContainerFields(container.type, TRUE)
                                    ELSE container
  /\ Advance
  /\ UNCHANGED <<control, token, out>>

ContainerOpen ==
  /\ AtContainerByte /\ ~container.string /\ Opens(fed[i])
  /\ \/ /\ Room(token) > 0 /\ token' = append_scratch(token, fed[i]) /\ Advance
        /\ UNCHANGED <<control, container, out>>
     \/ Room(token) <= 0 /\ Reject("BUFFER_FULL")

\* Mutant: any closing bracket closes any container.
TopIsOpen(c) == token.scratch # << >>

TopMatches(c) ==
  /\ token.scratch # << >>
  /\ kason_stream_container_match(token.scratch[Len(token.scratch)], c)

ContainerMismatch ==
  /\ AtContainerByte /\ ~container.string
  /\ Closes(fed[i]) /\ ~TopMatches(fed[i])
  /\ Reject("ERROR")

Popped == [token EXCEPT !.scratch = SubSeq(@, 1, Len(@) - 1)]

ContainerClose ==
  /\ AtContainerByte /\ ~container.string
  /\ Closes(fed[i]) /\ TopMatches(fed[i]) /\ Len(token.scratch) > 1
  /\ token' = Popped /\ Advance
  /\ UNCHANGED <<control, container, out>>

\* The bracket that closes the whole container: the last part, when there
\* is one, and the end, each with a callback that may break.
Part(last) == SubSeq(fed, part_start, last)
Leave(next) ==
  /\ i' = next /\ part_start' = 0
  /\ UNCHANGED caller
LeaveBroken(next) ==
  /\ i' = next /\ part_start' = 0
  /\ phase' = "idle" /\ result' = "SUCCESS" /\ chunk_begin' = Len(fed) + 1
  /\ UNCHANGED <<fed, ended, rejected, stale_read>>

ContainerEnd ==
  /\ AtContainerByte /\ ~container.string
  /\ Closes(fed[i]) /\ TopMatches(fed[i]) /\ Len(token.scratch) = 1
  /\ UNCHANGED container
  /\ \/ /\ "BREAK" \in Verdicts /\ i > part_start
        /\ out' = AddPart(out, Part(i - 1), TRUE)
        /\ Break /\ token' = Popped /\ LeaveBroken(i + 1)
     \/ /\ "BREAK" \in Verdicts
        /\ out' = AddPart(out, Part(i), FALSE)
        /\ Break /\ token' = Popped /\ LeaveBroken(i + 1)
     \/ /\ out' = AddPart(out, Part(i), FALSE)
        /\ token' = Cleared /\ state' = "FIND_PARAM_SEP" /\ has_entries' = TRUE
        /\ UNCHANGED <<mode, callback_break>>
        /\ Leave(i + 1)

\* The chunk ends inside the container.
\* Mutant: no part is emitted at the end of a chunk.
ContainerChunkEndSilent ==
  /\ phase = "feed" /\ part_start > 0 /\ i > Len(fed)
  /\ UNCHANGED <<out, stream>> /\ Leave(i)

ContainerChunkEnd ==
  /\ phase = "feed" /\ part_start > 0 /\ i > Len(fed)
  /\ out' = AddPart(out, Part(Len(fed)), TRUE)
  /\ UNCHANGED <<token, container>>
  /\ \/ "BREAK" \in Verdicts /\ Break /\ LeaveBroken(i)
     \/ /\ UNCHANGED control
        /\ Leave(i)

-----------------------------------------------------------------------------
(***************************************************************************)
(* The calls of the application.  It feeds no more after an error (the     *)
(* tutorial: stop early when the major error class is nonzero).            *)
(***************************************************************************)
Feed ==
  /\ phase = "idle" /\ ~ended /\ ~rejected /\ ~callback_break
  /\ \E chunk \in {s \in Chunks(fed) : s \in Seq(Byte)} : fed' = fed \o chunk
  /\ chunk_begin' = Len(fed) + 1 /\ i' = Len(fed) + 1
  /\ phase' = "feed" /\ result' = "NONE"
  /\ UNCHANGED <<part_start, ended, rejected, stale_read, stream, out>>

\* After a BREAK feed and finish return at once.
CallAfterBreak ==
  /\ phase = "idle" /\ callback_break
  /\ result' = "SUCCESS"
  /\ UNCHANGED <<input, i, part_start, phase, ended, rejected, stale_read, stream, out>>

\* The end of kason_stream_feed: what the chunk still holds is copied.
\* Mutant: the tokens are left in the chunk.
FeedEndKeepsPointers ==
  /\ phase = "feed" /\ part_start = 0 /\ i > Len(fed)
  /\ UNCHANGED <<stream, out>>
  /\ Return(IF state = "COMPLETE" THEN "SUCCESS" ELSE "INCOMPLETE")

FeedEnd ==
  LET kept == preserve_direct(token)
  IN  /\ phase = "feed" /\ part_start = 0 /\ i > Len(fed)
      /\ token' = kept
      /\ Return(CASE ~Preserved(kept)    -> "BUFFER_FULL"
                  [] Preserved(kept) /\ state = "COMPLETE" -> "SUCCESS"
                  [] OTHER               -> "INCOMPLETE")
      /\ UNCHANGED <<control, container, out>>

EndsWith(r) ==
  /\ phase = "idle" /\ phase' = "idle"
  /\ ended' = TRUE /\ result' = r /\ rejected' = (rejected \/ r \in Errors)
  /\ UNCHANGED <<input, i, part_start>>
MayFinish == ~callback_break /\ (rejected => FinishAfterError)

FinishComplete ==
  /\ MayFinish /\ state = "COMPLETE"
  /\ EndsWith("SUCCESS") /\ UNCHANGED <<stale_read, stream, out>>

\* The end of the input ends a root number or literal.
AtRootScalar == state = "FIND_GENERIC_END" /\ mode = "M_GENERIC"
FinishScalar ==
  /\ MayFinish /\ AtRootScalar /\ token.direct["value"] = Null
  /\ UNCHANGED stale_read
  /\ LET type == ScalarType(Text(token, "value"))
     IN  \/ /\ type # "INVALID" /\ EndsWith("SUCCESS")
            /\ \E verdict \in Verdicts : Commit(type, "COMPLETE", verdict)
         \/ /\ type = "INVALID" /\ EndsWith("ERROR")
            /\ UNCHANGED <<stream, out>>

\* Its direct pointers are still set: finish reads a chunk it no longer has.
FinishStale ==
  /\ MayFinish /\ AtRootScalar /\ token.direct["value"] # Null
  /\ EndsWith("UNDEFINED") /\ stale_read' = TRUE
  /\ UNCHANGED <<stream, out>>

FinishIncomplete ==
  /\ MayFinish /\ state # "COMPLETE" /\ ~AtRootScalar
  /\ EndsWith("ERROR") /\ UNCHANGED <<stale_read, stream, out>>

Reset ==
  /\ phase = "idle"
  /\ fed' = << >> /\ chunk_begin' = 1 /\ i' = 1 /\ part_start' = 0
  /\ phase' = "idle" /\ result' = "SUCCESS"
  /\ ended' = FALSE /\ rejected' = FALSE /\ stale_read' = FALSE /\ out' = << >>
  /\ mode' = "M_AUTO" /\ state' = "FIND_ROOT" /\ has_entries' = FALSE
  /\ callback_break' = FALSE /\ token' = Cleared
  /\ container' = ContainerFields("UNKNOWN", FALSE)

-----------------------------------------------------------------------------
Init ==
  /\ fed = << >> /\ chunk_begin = 1 /\ i = 1 /\ part_start = 0
  /\ phase = "idle" /\ result = "SUCCESS"
  /\ ended = FALSE /\ rejected = FALSE /\ stale_read = FALSE /\ out = << >>
  /\ mode = "M_AUTO" /\ state = "FIND_ROOT" /\ has_entries = FALSE
  /\ callback_break = FALSE /\ token = Cleared
  /\ container = ContainerFields("UNKNOWN", FALSE)

\* One step inside a running kason_stream_feed.
Step ==
  \/ SkipWhitespace \/ RejectByte
  \/ RootEntries \/ RootScalar \/ CloseEmpty \/ OpenKey \/ FindValueSep
  \/ FindParamSep \/ OpenString \/ OpenGeneric
  \/ \E f \in Fields : \/ TextBytes(f) \/ TextByteFull(f) \/ TextControlChar(f)
                       \/ BeginEscape(f) \/ EscapeByte(f) \/ EscapeRejected(f)
  \/ CloseKey \/ CloseString
  \/ GenericBytes \/ GenericByteFull \/ CommitGeneric
  \/ StartContainer \/ EnterContainer \/ ContainerStringByte \/ ContainerByte
  \/ ContainerOpen \/ ContainerMismatch \/ ContainerClose \/ ContainerEnd
  \/ ContainerChunkEnd
  \/ FeedEnd

Call ==
  \/ Feed \/ CallAfterBreak
  \/ FinishComplete \/ FinishScalar \/ FinishStale \/ FinishIncomplete
  \/ Reset

Next == Step \/ Call

Spec == Init /\ [][Next]_vars
\* A call that has begun goes on: nothing in it waits.
FairSpec == Spec /\ WF_vars(Step)

-----------------------------------------------------------------------------
(***************************************************************************)
(* Types.                                                                  *)
(***************************************************************************)
Slice == [begin : Nat, end : Int]
Tokens == [scratch : Seq(Byte), slice : [Fields -> Slice],
           direct : [Fields -> Slice], has_key : BOOLEAN,
           escape_hex_left : 0..4]
Containers ==
  [type : {"UNKNOWN", "OBJECT", "ARRAY"}, string : BOOLEAN, escape : BOOLEAN,
   hex_left : 0..4, unicode_value : Nat, utf8_value : Nat, utf8_minimum : Nat,
   surrogate_state : Surrogates, utf8_left : 0..3]
OutTypes == {"STRING", "OBJECT", "ARRAY"} \cup ScalarTypes
Entries == [key : Seq(Seq(Byte)), type : OutTypes,
            data : Seq(Byte), open : BOOLEAN]

(* Every variable of the parser and of its application has its type. *)
TypeOK ==
  /\ fed \in Seq(Byte) /\ chunk_begin \in 1..(Len(fed) + 1)
  /\ i \in 1..(Len(fed) + 1) /\ part_start \in 0..Len(fed)
  /\ phase \in {"idle", "feed"} /\ result \in Results
  /\ ended \in BOOLEAN /\ rejected \in BOOLEAN /\ stale_read \in BOOLEAN
  /\ mode \in Modes /\ state \in States
  /\ has_entries \in BOOLEAN /\ callback_break \in BOOLEAN
  /\ token \in Tokens /\ container \in Containers
  /\ out \in Seq(Entries)

(***************************************************************************)
(* Safety.                                                                 *)
(***************************************************************************)
KeyStates   == {"FIND_KEY_END", "KEY_ESCAPE"}
ValueStates == {"FIND_STRING_END", "STRING_ESCAPE", "FIND_GENERIC_END"}
InUse(f) == IF f = "key" THEN token.has_key \/ state \in KeyStates
                         ELSE state \in ValueStates
Active == ~rejected /\ ~callback_break

(* The scratch never holds more than scratch_size bytes, slot 0 included:  *)
(* append_scratch is its only writer, shared by tokens and brackets.       *)
ScratchBounded == Len(token.scratch) < ScratchSize

(* The pointers a parser keeps into a chunk are followed only while that   *)
(* chunk is being parsed: between two calls none is left, because          *)
(* kason_stream_feed moves both tokens to the scratch before it returns.   *)
PointersLive ==
  Active => \A f \in Fields : token.direct[f] # Null =>
    /\ phase = "feed"
    /\ chunk_begin <= token.direct[f].begin
    /\ token.direct[f].begin <= token.direct[f].end + 1
    /\ token.direct[f].end < i

(* A token that was moved to the scratch is a slice of what the scratch    *)
(* holds now, clear of the unused slot 0, and the key, moved first, lies   *)
(* before the value: kason_stream_slice_begin never reads anything else.   *)
SlicesInScratch ==
  Active =>
    /\ \A f \in Fields : InUse(f) /\ token.direct[f] = Null =>
         /\ 1 <= token.slice[f].begin
         /\ token.slice[f].begin <= token.slice[f].end + 1
         /\ token.slice[f].end <= Len(token.scratch)
    /\ (/\ \A f \in Fields : InUse(f) /\ token.direct[f] = Null)
       => token.slice["key"].end < token.slice["value"].begin

\* What is kept of a token: inside an escape the bytes too that no slice
\* counts yet.
Kept(f) == IF state = EscapeState(f)
           THEN SubSeq(token.scratch, token.slice[f].begin, Len(token.scratch))
           ELSE Text(token, f)
\* It is a piece of the input: the last bytes fed, or, for the key of a value
\* that is being read, the bytes before some quote; and, unless it is a number
\* or literal, the bytes after a quote.
BeingRead(f) == state \in (IF f = "key" THEN KeyStates ELSE ValueStates)
KeptAsFed(f) ==
  \E last \in 0..(i - 1) :
    LET first == last - Len(Kept(f)) + 1
    IN  /\ IF BeingRead(f) THEN last = i - 1
                           ELSE last + 1 < i /\ fed[last + 1] = QUOTE
        /\ first >= 1 /\ Kept(f) = SubSeq(fed, first, last)
        /\ (f = "key" \/ state # "FIND_GENERIC_END") =>
             first > 1 /\ fed[first - 1] = QUOTE

(* The scratch is exact.  Nothing else stays in it: outside an escape it    *)
(* is as long as the key and the value moved to it, so it is full only     *)
(* when the member being read needs that much, however many members came   *)
(* before.  And every token in use, moved or not, is kept byte for byte as *)
(* it was fed, however the chunks and the escapes cut it.                  *)
Moved(f) == IF InUse(f) /\ token.direct[f] = Null
            THEN token.slice[f].end - token.slice[f].begin + 1 ELSE 0
ScratchIsExact ==
  /\ (Active /\ state \notin {"KEY_ESCAPE", "STRING_ESCAPE", "STREAM_CONTAINER"})
       => Len(token.scratch) = Moved("key") + Moved("value")
  /\ Active => \A f \in Fields : InUse(f) => KeptAsFed(f)

(* The events follow the protocol of KasonEvents.                          *)
Events == INSTANCE KasonEvents WITH silent <- callback_break
FollowsProtocol == Events!Spec

(* The status of a document that was rejected stays an error: finish is    *)
(* the call an application asks for the final status.                      *)
FinalStatusHonest == (phase = "idle" /\ rejected) => result \in Errors

(* No call reads a chunk after the feed it was passed to has returned.     *)
NoStaleRead == ~stale_read

(* Every kason_stream_feed returns.                                        *)
FeedReturns == phase = "feed" ~> phase = "idle"
=============================================================================
