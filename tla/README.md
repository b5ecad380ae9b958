# KaSON, specified

KaSON is an allocation-free JSON library in C99. This directory holds TLA+
modules of its stateful parts, the TLC configurations that check them, and
theorems about them that TLAPS checks.

## The system

One thread, no allocation, no persistence. Every component is a function over
memory its caller owns, and talks to the application through callbacks that may
answer `KaSON_CALLBACK_BREAK`. What makes it hard is not concurrency but input
that arrives in pieces, buffers of a size the caller chose, pointers into memory
that is given back, and the same grammar read by four different parsers.

| Component | Code | State | Operations |
|---|---|---|---|
| Chunked parser | kason.c 899-1673 | state, mode, scratch buffer, pointers into the chunk, container fields | init, feed, finish, reset; callback per event |
| Text layer | kason.c 88-349, 495-535, 2922-3041 | none | character decoding, validity, number grammar, conversions |
| Action parser | kason.c 2144-2512 | cursor, stack of counts (recursion) | kason_parse, kason_parse_range; callback chooses ENTER, CAPTURE, SKIP, BREAK |
| Batch parser | kason.c 773-856, 1675-2142, 2572-2760 | state, key and value slices, nesting | kason_parse_internal and its callers (selected, deferred, container, array, get_value) |
| Lookup table | kason.c 351-478, 868-889, 2514-2570 | slots of an open-addressing table | key_init, table_init, add, find |
| Numbers | kason.c 537-768, 2762-2920 | accumulator | classification and conversion |
| Schema | kason_schema.c 52-447 | immutable schema | validation of a definition |
| Unpacking | kason_schema.c 449-1012 | destination, found mask, first error | kason_unpack and its callbacks |
| Writer | kason_schema.c 1014-1144 | buffer or staging buffer, length, status | init (three modes), write, flush, reset |
| Packing | kason_schema.c 1146-1727 | writer, position in the schema | kason_pack |

Interactions: unpacking runs the batch parser on lookup keys and converts the
slices it captures; packing writes through a writer; the action parser and the
batch parser share nothing but the text layer. The chunked parser stands alone
above the text layer.

What would make each component correct:

* chunked parser: events and verdict do not depend on where chunks end; no
  pointer outlives its chunk; the scratch is never overrun, and full only when
  one member does not fit; nothing after a BREAK; a verdict, once an error,
  stays one;
* action parser: ENTER, CAPTURE and SKIP of a value agree on where it ends and
  on whether it is valid; events are paired and counts exact; nesting is bounded;
* batch parser: accepts the same documents as the others, the parts nobody asked
  for included; a callback gets each selected entry once, in order;
* lookup: a key is found exactly when it was added, escaped or not;
* numbers: a value converts exactly or is reported out of range, at every width;
* unpacking: a required field is present, a field is stored at most once, the
  first error is the one reported;
* writer: the output is the concatenation of what was written, or a prefix and
  an error that stays; the counter counts what a buffer would hold;
* packing: the document is valid and unpacks to the same values.

## Modules

| Module | What it is |
|---|---|
| `KasonText` | the text layer: byte classes, one character of a string, string validity, decoding, number grammar, spelling of scalars |
| `KasonStrings` | the copies of a string to UTF-8, UTF-16 and UTF-32, and the comparison of strings |
| `KasonStream` | the chunked parser, one action per branch of `kason_stream_feed`, and the calls of the application |
| `KasonEvents` | abstract: what a stream callback may count on |
| `KasonGrammar` | a reference grammar over whole documents |
| `KasonDocument` | the same grammar below the root: where each value stands, its children and its level |
| `KasonStreamRef` | the properties that compare the chunked parser with the grammar |
| `KasonScan` | the action parser, with its C stack |
| `KasonTraversal` | abstract: what a callback of the action parser may count on |
| `KasonScanRef` | the properties that compare the action parser with the grammar |
| `KasonConfig` | `MAX_NESTING`, for parsers and schemas alike |
| `KasonRun` | `kason_parse_internal`: one run of the batch parser as a record and its steps |
| `KasonVerdict` | the documents that a run should accept |
| `KasonBatch` | the calls of the batch parser and the slices an application keeps from one call for the next |
| `KasonBatchRef` | the properties that compare them with the grammar |
| `KasonLookup` | the lookup table: adding keys, and looking up the text of a name |
| `KasonKeySet` | abstract: a bounded set of keys |
| `KasonNumber` | the states and the accumulator of a number, and the conversions of a slice |
| `KasonNumberRef` | the properties that compare them with arithmetic |
| `KasonSchema` | fields, schemas and structs, and what C types let them hold; validation, comparison, defaults |
| `KasonUnpack` | `kason_schema_init` and `kason_unpack` over `KasonRun` |
| `KasonUnpackRef` | what a document says of a struct, and what can be wrong with it |
| `KasonWriter` | the writer in its three modes |
| `KasonOutput` | abstract: an output of whole tokens with a failure that stays |
| `KasonPack` | `kason_pack` over `KasonWriter`, with the schema's checks of structs and defaults; what a counter predicts |
| `KasonPackRef` | the properties that read what was packed back with the grammar |
| `MCKason...` | the documents, keys, schemas, structs and tokens for TLC, one module for each component |
| `KasonTextProofs` | recursion and induction over data, and lemmas about the text layer |
| `Kason...Proofs` | theorems and lemmas, one module for each component |

`KasonText` is under everything that reads or writes text. `KasonPack` extends
`KasonWriter`, so that each call of the writer is one of its actions and the two run
as one system. `KasonBatch` and `KasonUnpack` both extend `KasonRun`: the parser is
the same, with another application behind its callback. `KasonUnpack` and
`KasonPack` share `KasonSchema`, so that both speak of the same structs. The four
grammars of the code (chunked, action and batch parser, and the bracket counting of
the last) are all compared with the one reference in `KasonGrammar` and
`KasonDocument`, and so with each other.

### The chunked parser

The application hands over chunks; `fed` is the document so far and a `char*`
into a chunk is a position in it. `i` is the byte being looked at; `phase` is
`"feed"` while `kason_stream_feed` runs, so that each iteration of its loop is
one step and everything an invariant says holds in the middle of a call too.
The record `token` is the scratch buffer (without the unused slot 0), the slices
`key_*` and `value_*`, the pointers `direct_*`, `has_key` and
`escape_hex_left`; `container` is the `container_*` fields. `complete` and
`end_token` are functions of `state` and `mode` and are operators.
`container_high_surrogate` is written and never read, and is left out.

The fast loops (`kason.c:1501`, `1571`, `1596`) are one step that consumes the
longest run, as the code does. `kason_stream_process_container` is entered by
`EnterContainer`, which sets its local `part_start`, and left by `ContainerEnd`
or `ContainerChunkEnd`. A pointer that is followed after its chunk was given
back is undefined behaviour in C; the model gives such a call the result
`"UNDEFINED"` and sets `stale_read`.

The application feeds no more after an error, and none after finish. Whether it
asks for the final status of a failed stream is the constant
`FinishAfterError`.

`KasonEvents` says what a callback sees with no word about parsing. `KasonStream`
is checked and proved to implement it, with `silent <- callback_break`; the parts
of a container are joined in its entry, so `out` is one entry per value.

### The action parser

`kason_scan_value`, `kason_scan_container` and `kason_scan_primitive` recurse; a
frame of `stack` is a call of `kason_scan_container` with the locals that live
across its children: type, opening bracket, key, `emit`, the answer of the callback
and the count. `pc` says what the code expects at `cursor`: a value, the first child
or another one, what follows a child, or what trails the root. A step goes from one
token to the next and has the call of the callback in it; the answer is chosen
when the callback is called. Children of a captured or skipped container are
scanned by the same actions, without an event (`BeginSilently`, `EndSilently`,
`ValueSilently`).

`KasonTraversal` knows nothing of documents: a stack of containers that were
entered or captured, and which reports may come next. What the callback knows of
the C stack (`Known`) leaves out the frames whose end it will not be told, and
counts a child when it is reported, where the code counts it when its scan has
returned.

### The batch parser

`KasonRun` has the machine of `kason_parse_internal`: a run is a record with the
mode (object, array, string or generic), the position and the last byte, the depth,
the key at hand, whether there were entries, and the state of the code's switch; its
steps take a key, a value, a separator or the end. The end of a child that is a
container is found by counting brackets, and the child is validated by a run of its
own before it is reported. The nested runs call no callback of the application, so
`Accepts` evaluates them in one step. `KasonBatch` makes one call after another on one document: a selected parse
with a set of keys, a deferred parse (which leaves the end of containers to a later
call), a parse of a container slice, an array stored in an array of the caller, and
`kason_get_value`. Slices outlive the call that reported them and are handed to the
next ones.

### The lookup table

`slots` is a function from the indices in use to descriptors. `Add` and `Refuse` are
`kason_lookup_table_add`, `Select` is what `kason_parse_internal` does at the
closing quote of a name: it hashes the text as it stands when it holds nothing to
decode (`Plain`), and otherwise one decoded byte after the other, keeping the last
four in a ring (`Latest`, `Ring`). The hash of first bytes, last bytes and length,
`Mix`, is a constant: the modules hold for every function, so for every way the
keys may collide. `Decode` is a constant too, so that the table's theorems hold
whatever escapes mean; `DecodeAssumption` says what is needed of it, that a name
without escapes decodes to itself and what it decodes to is bytes, and TLC evaluates the assumption for the decoder of `KasonText`. `Known` are the
keys and what the names decode to.

`KasonKeySet` is a set of at most `Capacity` keys. The refinement says more than
that lookups find: it says an `Add` is refused exactly for a duplicate or a full
table, and that a name with a malformed escape fails and selects nothing. The
batch parser and unpacking use the table by this specification.

### Numbers

A step reads one byte: the next state of `kason_number_next` and the accumulator
that is fed while a selected field is parsed. The widths are constants, so that TLC
reaches the ends of eight-bit ranges, and so are the digits of a significand and the
caps on counts and exponents (1000000 in the code). `exact` is a history variable:
the value, on paper, of the digits fed so far. `strtod` is external: what the code
hands to it is a sign, a significand and a power of ten, and the property is about
those. `kason_value_to_int64`, `_uint64` and `_int`, which read a slice again, are
functions.

### Strings

A step of `KasonStrings` reads one character of the slice and stores it whole or
not at all; `full` says that a character did not fit, after which the scan goes on to
the end and stores nothing more. `kason_strlen` is the copy without a buffer.

### Schemas and unpacking

A schema is a sequence of fields, and a struct is named by a constant instead of a
pointer; `Instances` says which structs are of a schema. `FieldsAssumption` and
`ObjectsAssumption` say what the types of C let a schema and a struct hold, and no
more: a buffer may have no NUL, a `bool` is an int, a count may pass the capacity.
`KasonUnpack` first initialises schemas in some order (a schema of a nested
struct must come before), then receives documents. The innermost of `frames` is the
parse of the object or array at hand: the run, the schema, the found mask, the path of
the struct in memory, its depth and the count of items. A member that is an array or a
struct is unpacked by a frame pushed within the callback, before the run around it goes on, as the code
recurses. `output` is a function from the places that were written to what was
written there, so that a place that was never written, and one that an earlier
document left, are told apart. Field masks have `MASK_BITS` bits.

A double that is stored is its text. Whether it is stored is what
`kason_value_to_double` of `KasonNumber` says: a decimal that `strtod` finds out of
range is refused with RANGE, in a field and in an item (`DoubleStored`), and what
`strtod` converts without that error is finite. The number that was cached while it was
parsed has the same result as the slice (`ConversionsAgree`), so one operator stands for
both. `DoubleFaults` of `KasonUnpackRef` says the same on paper, from the number as it is
written.

A place is a path: the number of a field, for an item of an array its number too (0 is
the array's count), and so on within a struct. `CellPaths` are the places of a schema's
struct, `CellOf` is what a struct has at one, `FieldAt` the field it belongs to. A
default struct is copied whole, as `memcpy` does, with what lies behind the counts of its
arrays; that may be anything, since `kason_schema_object_valid` looks no further than a
count. So `MemoryIsSafe` asks of every place that was written that it is one of the
struct and that the value has room there, and only of a place that is in use (`InUse`)
that a string ends and that a count is that of items which were written.

### The writer

The buffer is the C string in it. `written` is a history variable: what was
written with success since the last reset. `delivered` are the bytes the callback
has taken. `kason_writer_write` is twelve actions, one for each way through it;
a callback may refuse wherever it is called. `length` is the counter that may
overflow, `SIZE_MAX` a constant. `Condemn` stands for the assignments that the
text functions make to `status`.

`KasonOutput` has no modes: a limit, whether the application may refuse, and the
tokens taken. The mapping gives a buffer the limit `capacity` and the other modes
`SIZE_MAX + 1`.

### Packing

The recursion of `kason_schema_pack_object` is the stack `frames`, whose element has
the loop counters `field` and `item` and the flag `emitted`. One step of the walk
lists in `todo` the calls of the writer that come next, each with the place that
`kason_schema_set_error` would be told of; `Emit` makes one of them, by `Write` of
`KasonWriter`, and a failure leaves all frames at once, as every caller in the
code returns what it was returned. `MeetBadText` is a failure that is recorded in
the writer too, `MeetBadValue` one that is not. `kason_schema_object_valid`,
`kason_schema_objects_equal` and `kason_schema_field_is_default` are functions of
the structs, of the schema they are of and of the level of nesting (`StructsAt`,
`PairsAt`). A double is its text. The history variable `counted` is the text a
counter was last given; `CounterPredicts` compares every later packing of the same
struct with it, and `KasonPackRef` reads what was packed back.

## Runs

| Run | Bounds | What it shows |
|---|---|---|
| `stream` | 25 documents, every chunking, scratch 40, callback may break, finish also after an error | tokens are sound, the event protocol, agreement with the grammar, and that every feed returns |
| `stream_small` | the same and all strings of at most 5 bytes over 9 bytes in chunks of at most 2, scratch 4 | the scratch at its limit: nothing past it, no document refused for lack of room that has it |
| `scan` | every sequence of up to 4 of 8 tokens, alone, in an array and in an object; spellings; nesting up to 2 beyond `MAX_NESTING` = 2; 5 answers, one of them illegal | the verdict does not depend on the answers; events are a traversal and true; the stack is bounded; every call returns |
| `batch` | 2 calls on one document, every sequence of up to 3 tokens, spellings, nesting, arrays of 0, 1 and 3 elements | the verdict of a selected parse, what it reports, containers, arrays and lookups by name |
| `lookup` | 3 slots, 6 keys of which two have one hash input, a hash with 3 values, 16 names | the table is a bounded set of keys, and a stored key stays in reach of its probe sequence |
| `numbers` | every text of up to 5 of 7 bytes, the numbers around the ends of each range, widths of 8 bits, 2 digits | conversion while parsing and from a slice is exact or refused, and both agree, on doubles too; doubles are rounded once |
| `strings` | slices of up to 2 of 13 pieces, buffers of none and of up to 5 units | copies are whole characters, counted as they should be; comparison is an order |
| `unpack` | 13 schemas in 2 orders, 176 documents, doubles of 2 digits up to 10^12, a second document into the same struct, masks of 3 bits, a default struct with an unterminated string behind a count | verdict, struct, memory and error of strict and relaxed unpacking |
| `writer` | `SIZE_MAX` 7, tokens of 0 to 3 bytes, capacities 0 to 6 | no byte lost, doubled or reordered, in any mode; the refinement |
| `pack` | `MAX_NESTING` 2, 4 schemas, 16 structs, buffers and scratches of 0 to 60 bytes | what was packed reads back; the counter predicts the buffer; validation and packing agree; every call returns |
| `stream_status` | violation | finding 1 |
| `stream_stale` | violation | finding 2 |

The documents of `stream` were chosen so that every branch of the parser is taken:
keys and strings with escapes, unicode escapes, surrogate pairs, two-byte and
malformed UTF-8, numbers, literals, nested and empty containers, brackets in
strings, blanks everywhere, and for each error branch a document that takes it. The
longest has under 30 bytes; longer tokens only repeat the same states, and the
scratch of four bytes brings every token to its limit. Five bytes are enough for
a root with a member, a separator too many, or a nested container.

In `scan` and `batch` the tokens are put together in every order, so that every pair
of what is expected and what is there occurs, at the root and inside both kinds of
container; four tokens hold a container with two children and a mistake. A nesting
limit of 2 has levels below, at and above it. In `numbers` eight bits give INT64_MIN
and UINT64_MAX the values -128 and 255, which three digits reach and pass, and the
small number of significant digits makes every way to drop and round one occur.
In `unpack` the schemas have as many fields as the masks have bits, so the mask of
all fields is the largest one; documents are cut after each byte and continued;
a double is just inside and just outside each end of its range, by its exponent, by the
digits behind its point and by the rounding of its last digit, as a field and as an item;
and the second document is received by a struct that the first, accepted or not, has
been written to.

In `lookup` the table is smaller than the set of keys, so it fills up, and the hash
sends keys to one slot and past the end of the table. In `writer` the tokens are of
different bytes, so that order shows; the capacities lie on both sides of every
sum of two tokens, and a counter reaches `SIZE_MAX`. In `pack` the structs have each
type with a value that is fine, one that must be escaped and one that is refused;
two levels of nesting suffice for a struct that is one too deep; 9 and 18 bytes are
the lengths of one document, without and with its default, so a buffer of 18 is one
byte too small.

Fairness is assumed of the code's own steps and of nothing else: `WF` of a step of
the loop of `kason_stream_feed`, of `Scan` for `kason_parse` and of `PackStep` for
`kason_pack`. Each is one call in one thread that waits for nothing, and callbacks
return; so a call that has begun goes on. Nothing is assumed of the application,
which may never make another call. `FeedReturns`, `CallReturns` and `PackReturns`
follow only because every branch consumes something or returns. `batch`, `numbers`,
`strings` and `unpack` state no liveness: a step of theirs consumes a byte or a
token by its form. Deadlock is not checked where a call that has returned is the
end of the behaviour.

What the properties leave out, and why:

* `SelectedVerdict` is about a root that is an object, an array or a string
  (`RootGoverns`). A root scalar followed by a separator is taken as complete
  (`kason.c:2111`), where `docs/api-guide.md:82` has one document;
* the nesting limit is tested before the children of a container and not for an
  empty one, so an empty container may be one level deeper (`kason.c:2351`); the
  grammar of `KasonVerdict` has this level, which `kason.h:77` does not mention;
* `kason_parse` gives an object's END the count 1 (`kason.c:2376`), so only the
  counts of arrays are compared, though `kason.h:183` speaks of both;
* a slice that begins with a bracket may be a whole array or contents whose first
  element is an array. `ContainerReportsChildren` is about slices that do not look
  like both (`Plain`): the code strips the brackets of a reported array whose only
  element is an array (`kason.c:2655`), and finds an error in a captured array of
  blanks (`kason.c:2660`);
* `kason_get_value` answers 0 for malformed text (`kason.c:2759`) as for a missing key;
* `ArrayIsStored` says of a slice with its brackets what `kason_parse_array` does with
  it, which is not what `kason.h` says (finding 3);
* `DoublesAreRounded`, and what unpacking says of doubles, are about numbers with
  fewer digits and a smaller exponent than
  the caps (`kason.c:639`, `683`, `692`);
* `VerdictIsExact`, `StructIsDocument` and `ErrorIsTrue` are about documents without
  an array directly in an array (`NoMatrix`): the slice of an array field is parsed
  as a container once more (`kason_schema.c:751`), so `[[1,2]]` is unpacked into an
  array of integers as `[1,2]`.

## Proofs

`KasonStreamProofs` proves, for every scratch size greater than one, every
choice of chunks and every answer of the callback, that `Spec` implies
`[]TypeOK`, `[]ScratchBounded`, `[]PointersLive`, `[]SlicesInScratch`,
`[]ScratchIsExact` and `FollowsProtocol`. The assumptions are
`ScratchSizeAssumption` (what `kason_stream_init` checks) and `PolicyAssumption`.

None of these is inductive. The invariant `IInv` has seven parts:

* `CallInv`: types of the control variables, and how the call, the container
  parser and the callback are nested (a running feed has not failed and has not
  been broken; `part_start` is set only inside a container);
* `TokenInv`: the token memory is `Sound` for the tokens in use: the scratch
  fits, pointers cover bytes handed over, slices lie in the scratch, and if the
  value has been moved then so has the key, before it;
* `PointersLive`;
* `ExactInv`: the scratch holds the tokens that were moved, one behind the other,
  and nothing else. `ScratchIsExact` is silent inside an escape, whose bytes are
  decoded in place; `ExactInv` says there that both tokens are moved and where they
  begin, which the byte that ends the escape needs;
* `IdleInv`: between two calls all that was fed has been read, so that the first byte
  of the next chunk continues a token where the last one left it;
* `ContentInv`: every token in use is a piece of the input (`AsFed`): its bytes,
  in the scratch or under its pointer, are those fed up to the byte read last, or, for
  the key of a value that is being read, up to the quote that closed it; the byte before
  a key or a string is a quote. Its proof needs `PointersLive` and `TokenInv`, without
  which a copy from the chunk would not be of the bytes that were fed;
* `EventInv`: the last entry is open exactly while a container is read, with its
  type, and the bracket it began with is at the bottom of the scratch. The last
  part is what makes the closing bracket of an END event the right one.

`PointersLive` needs `TokenInv` for a run that moves the end of a pointer;
`TokenInv` needs `PointersLive` for the same step, since the memory is sound only
if the pointer being extended lies behind `i`; and both need `HeldInv` (part of
`EventInv`), which says that inside a container no token is held. `ScratchIsExact`
follows from `ExactInv` and `ContentInv`: nothing but the tokens is in the scratch, and they
are the bytes of the input, escapes as they are spelled, wherever the chunks were cut. That
the quote before a token is the one that opened it is not said here; it follows
from the grammar, and `ReportsDocument` checks it. The lemmas
before say what each operator on the token memory keeps: copying, appending,
clearing and preserving tokens keep it sound, exact and as it was fed, a part grows the last
entry and nothing else, and a byte of a string keeps the types of the container
fields.

`KasonScanProofs` proves, for every set of documents and answers and every nesting
limit, `[]StackIsBounded` and `IsTraversal`: the recursive descent implements the
protocol of its callback. Nothing is assumed of what positions are, so the theorem
does not depend on how tokens are recognised. The frames whose end is not reported
lie on top of the stack (`Shows`), which is the heart of the invariant: the refinement
mapping cuts them off, and the lemmas `PushShown`, `PushSkipped`, `PushHidden`,
`ValueShown`, `CountHidden`, `PopShown` and `PopHidden` say what each change of the
stack is in the view of the callback. Two more parts are needed: `KeyInv`, that a
key is at hand exactly for the child of an object, and `PcInv`, that only the first
value of a document can have no container around it and that nothing was reported
before it.

`KasonLookupProofs` proves, for every capacity, hash function, set of keys and
names, `[]TypeOK`, `[]KeysInReach` and `IsKeySet`. `IInv` adds three parts to the first
two: each descriptor carries the hash of its key (`Hashed`), no key is stored twice
(`Distinct`), and the count is that of the slots in use (`Counted`), without which a
full table could not be told from one in which the probe missed a free slot. Two
lemmas carry the argument: `SampleAgrees`, that the ring yields the same words as
the key's first and last bytes, whatever its length; and `FindStopsWhereAddWould`,
that searching a name and adding its key stop at the same slot.

`KasonTextProofs` is what the proofs about text rest on. The induction theorems
of the standard library take an operator as a parameter, which the provers cannot
instantiate; `MeasureInduction`, `SetInduction` and `BackwardInduction` state
induction for a set instead, and follow from `LeastNat`, that a set of naturals has
a least element. `Recursion` says that a recursive function whose body calls itself
only on arguments of a smaller measure is what its body says, and `ForwardRecursion`
the same for functions that walk along a sequence. With them it proves that the next
character of a string is where the code goes on (`NextStep`), that a slice splits
into characters and, behind them, at most one that is malformed (`CharactersFrom`),
and the types of the UTF-8 and UTF-16 encoders.

`KasonStringsProofs` proves, for every set of slices (`SlicesAssumption`) and sizes
(`SizesAssumption`), `[]CopyIsExact` and `[]ComparisonIsOrder`. The invariant of a copy
is that the characters of the slice are those already read and those from `ptr` on
(`Reads`), that the answer counts the units of the first (`Counted`), and that the
buffer holds the longest beginning of them that fits in whole characters (`Stored`).
`ComparisonIsOrder` is about the result of a recursive comparison: `FirstDecides`
says that two different decodings differ at a first place, which decides, and the
laws of an order follow by comparing such places.

`KasonNumberProofs` proves, for every width and every text, `[]WidthIsKept`,
`[]ReadExactly`, `[]IntegersAreExact`, `[]ConversionsAgree` and `[]DoublesAreRounded`.
The invariant has three parts.
`IInv` is about the accumulator: the test before each digit lets the
magnitude be the value of the digits or sets the overflow flag, and the flag stays
true to the digits that follow although the magnitude goes on (`Holds`); the
significand has fewer digits than it has counted (`Fitting`), so rounding it up stays
within ten to the power of `SIGNIFICANT`, which `SignificandAssumption` says fits.
`ReadInv` is about the text: which beginning of a number was read when the state is
what it is (`Reading`), that the digits fed are those of the integer part
(`Counting`), and that a text that was refused is none the grammar has (`Refused`).
`StatesSpellNumbers` needs the second part, `ConvertedAlike` both; for doubles it rests
on `Retold`, that reading the slice again goes through the states and the accumulator
that were gone through while it was parsed.
`DoubleInv` is about doubles: where the point and the exponent of the text are, as far
as it was read (`Located`), and that the counts of digits are those of the digits read
(`Amounted`). Its core is `Leads`: the significand is the first digits of the number, the
rest that was dropped is less than the power of ten it was dropped from, and `round_up`
says whether it is at least half of it. With that, rounding at the last digit is rounding
the whole number once (`HalfUp`, `QuotientOnce`). The lemmas before say where the digits,
the fraction and the exponent of a text end, and what its digits are worth, for texts of
any length. The provers know nothing of powers: those of the reference are the recursive
function `Power`, whose laws are proved (`PowerIs`), and `PowersAssumption` states the
arithmetic that is needed of the width's own, which TLC evaluates.

`KasonPackProofs` proves first of the writer, for every `SIZE_MAX`, set of tokens and
capacities,
`[]OutputIsExact` (the length, the buffer's content and what the callback got, which are
theorems of their own), `RefusalIsFinal` and `IsOutput`. `IInv` is their conjunction
and `ModeInv`: a buffer has room for its terminator, and a callback that has refused
has left its failure in the status. `CallbackGetsOutput` needs the associativity of
concatenation when staged bytes go first; `IsOutput` needs `LengthIsExact` and
`BufferHoldsOutput`, since the code compares counters and the abstract output compares
sequences.

It proves of packing, for every schema, struct, sink and answer of a callback,
`[]CounterPredicts`, `[]ValidStructsPack`, and `[]OutputIsExact` for a writer that
`kason_pack` drives. What is assumed is `FieldsAssumption`, `ObjectsAssumption`,
`RootsAssumption`, `BytesAssumption` and `SchemasAssumption`: that structs are of their
schema's types, a default that is a struct being one of its child's, that text is of
bytes, and that the schemas have passed `kason_schema_init`. The argument for
`CounterPredicts` compares two packings of one struct, which no state holds together. What
`kason_pack` does next is a function, `Advance`, of its frames, the calls that are due
and the text so far, and never of the writer; so every packing of a struct goes along
one sequence of such states (`Leads`), and can leave it only by failing. The
invariant, `PackInv`, is `IInv` of the writer and

* `CountInv`: the text that was counted is what that sequence ends with;
* `WalkInv`: a packing that goes on is in that sequence, and has written its text;
* `DoneInv`: one that has returned was at its end, or at a call that failed, in a
  buffer because the text with this call does not fit.

`Succeeds` is the lemma that a sequence has one end. It takes types to show that the
sequence never gets stuck on a struct that is legal (`WalkIsFine`): a call that is due
writes bytes, or is one that fails, behind which nothing is packed any more
(`Doomed`). `PackInv` quantifies over infinite sets of states, so TLC checks only
what follows from it.

`ValidStructsPack` says that packing, unless its sink fails, succeeds with exactly the
structs that `kason_schema_object_valid` accepts. The two are written twice over in the
code: one looks at a whole struct before anything, the other at a value when its turn
comes, with conversions of its own, and leaves out what equals a default. `Outlook` says
of a state of the sequence that no call that is due fails and that the rest of every
struct on the stack is valid (`StackFits`, `FrameFits`). `AdvanceAlike` shows, one lemma
for each step of the walk, that `Advance` changes nothing of it, so it is the same along
the whole sequence (`LeadsAlike`); at the beginning it is the validity of the struct
(`BeginningFits`), at the end what was returned (`InvValid`). `PackScalarFits` compares
the two treatments of a value of every type; `DefaultIsFit` shows that a field that is
left out was valid, since it equals a default that `kason_schema_init` has validated, for
a struct through `EqualFits`: what is equal to a valid struct is valid at the same level
of nesting. The recursion over nested structs ends at `MAX_NESTING`, and so do the
inductions over it, whose measure is the number of levels left.

`KasonUnpackProofs` proves `[]MemoryIsSafe` for every schema, every sequence of documents
and every way an unpack ends, half done or complete. The assumptions are
`FieldsAssumption` and `ObjectsAssumption`, as for packing, `NestingAssumption`,
`MaskAssumption` (the masks have as many bits as a schema may have fields),
`WidthsAssumption`, `DocumentsAssumption` and `SetupsAssumption` (documents are bytes, and
setups and roots are schemas), and `PowersAssumption`, the arithmetic of 2^n that the
provers lack. Nothing is assumed of which schemas are initialised, or that they pass.
The invariant, `UnpackInv`, is about the memory together with the stack of calls:

* every place that was written lies in the struct of the root, has room, and is safe if
  it is in use (`MemoryIsSound`): what `MemoryIsSafe` says;
* each frame's schema has passed `kason_schema_init`, the struct of the root holds a
  struct of it at the frame's path (`Holds`), and an array has not passed its capacity
  (`FrameIs`); a run and the value at which it stands lie in the document (`RunWithin`,
  `ValueWithin`), without which what is copied would not be bytes;
* each frame is for the place at which the one around it stands (`Within`), and that
  place is not finished (`Stands`): the bit of its field is not set, its item is the one
  behind the count. Paths get longer towards the innermost frame (`Around`);
* what a frame has finished is safe by itself (`FrameSound`): fields with a default or
  a bit in `found`, and the items up to its count.

The last part is what makes the proof go through. The count of an array is written when
its last item has been parsed (`kason_schema.c:759`). Until then the items that were
stored may be behind an older count, which an earlier document or a default has left, and
so may be anything as far as `MemoryIsSafe` goes; then the count moves past them. So a frame
must know that they are safe whatever the counts above them are. `Sound` says this of a
place from a level of its path on: it looks only at the counts below that level. A frame
that ends hands what it has finished to the one around it as one item, or as one field
(`PlaceFinished`, `ArrayLeft`, `ObjectLeft`); `NoneMissing`, with the lemmas about masks
as sets of fields (`Has`, `Bit`), shows that no field is left over when
`missing` is empty. `CountWritten` is the step of the count. What is stored has its
width or its NUL by `StoredScalarSafe`, over decoding and number conversion for texts of
any length, and a default by `DefaultsWritten`, which needs the recursion of
`kason_schema_object_valid` and that of `CellOf` to go along one path.
`UnpackInv` was checked by TLC on the run's instance before it was proved, with
its quantifiers over all paths restricted to those in memory.

Only model-checked:

* `FullOnlyWhenNeeded`, `ReportsDocument` and the two `VerdictIsGrammars`,
  `ReportsAreExact`, the six properties of `batch`, and `PackedReadsBack`: comparisons of a
  parser, or of a document that was packed, with `KasonGrammar` and `KasonDocument`. They
  need an invariant that relates each state of a parser to recursive functions of the
  whole document, which has not been written; `PackedReadsBack` is stated with
  `RECURSIVE` operators of `KasonPackRef` and is out of the prover's reach as it stands;
* `VerdictIsExact`, `StructIsDocument` and `ErrorIsTrue` of unpacking, which compare it
  with the document as the grammar reads it: as for `batch`, the runs of `KasonRun`
  would have to be related to `KasonVerdict` first;
* `FeedReturns`, `CallReturns` and `PackReturns`, since liveness under fairness is
  beyond the prover.

## Findings

1. `FinalStatusHonest`: docs/tutorial.md says to "use `kason_stream_finish()` for
   the final status", but after `{}a` feed returns ERROR and finish SUCCESS.
2. `NoStaleRead`: kason.h says a chunk must be valid "throughout this call", but
   after a feed that failed with a root scalar in progress finish reads it.
3. kason.h:379 says that `kason_parse_array` takes the "Opening `[` byte" and the
   "Closing `]` byte, inclusive", but it takes its first byte for that of the first
   element (`kason.c:1718`, `2720`): `[1]` gives one element, the array `[1]`, and `[1,2]`
   too. No run of its own shows it: `ArrayIsStored` of `batch` states what the code
   does with both slices, and holds (`StoresItself`, where kason.h would have
   `StoresElements`). The tests pass what is between the brackets, as a callback is given
   it, and that works.

## Plan

The components that keep state are modelled. What could still be proved is that a run of
`KasonRun` reports the children of `KasonDocument` in order, the step from `UnpackInv` to
`StructIsDocument` and to the properties of `batch`.

## Not modelled

* NULL pointers, negative lengths and other checks of arguments at the head of the
  public functions, and the checks that `kason_schema_init` makes of offsets and sizes
  of a C struct: a model without addresses has nothing to violate them.
* Locale and floating point: `strtod`, `snprintf` and `localeconv` are the C
  library's. What is handed to them, and what is made of their answer, is modelled.
* The hash function of the lookup table, on purpose: it is a constant.
* Tests, examples, benchmarks and the build hold none of the library's state.
