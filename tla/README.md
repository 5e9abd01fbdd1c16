# Contract: a TLA+ verification development

`Contract` is a header-only C++ library. A type declares its fields once, with
the `CONTRACT` macros; *adapters* then write objects of that type to a medium and
read them back. The library has no threads, no locks and no event loop: what is
hard in it is that an adapter is a recursive program over bytes (or text) it does
not control, on an object it updates in place, through an I/O backend that may
run out, with diagnostics assembled by every layer of the failing call stack.

This directory holds TLA+ modules translated from the code under
`src/include/contract`, TLC configurations that check them on small instances,
and TLAPS proofs. `PROJECT.json` maps every definition to the source lines it
stands for.

## 1. Inventory

| component | source (`src/include/contract/`) | state it keeps | operations | hard behaviour |
|---|---|---|---|---|
| contract core | `macros.hpp`, `field.hpp`, `definition.hpp`, `visit.hpp`, `detail/validation.hpp` | none at run time; a compile-time list of field descriptors per type | flatten BASE imports, `for_each_field`, `dispatch_field_by_id`, `get`/`ref`/`set` | effective ids after BASE offsets must be positive and unique; `ref` exists for some fields only |
| attributes | `attributes/*` | none; compile-time | resolve visibility and rule per adapter, vocabularies `check`, `security`, `schema`, `unit` | conflicting rules for one attribute |
| diagnostics | `detail/error.hpp` | code, stage, type, field, index, sizes, offset | `emplace`, first-wins setters, `transfer_from`, `position_correction` | parts come from different layers of the call stack |
| I/O | `io/byte_window.hpp`, `io/byte.hpp`, `io/file.hpp`, `io/text.hpp`, `io/beast_window.hpp` | a cursor over a buffer, or a stream | `peek`/`consume`, `prepare`/`commit`, `read`/`write` | short results at the end of the buffer |
| compact adapter | `adapters/compact.hpp`, `adapters/compact/*` | window, diagnostic | `writer <<`, `reader >>`, one codec per value type, `skip_reader` | counts and sizes from the wire, recursion, partial updates, unknown fields |
| binary adapter | `adapters/binary.hpp`, `adapters/binary/*` | bytes, offset, diagnostic, encryption scratch | `writer <<`, `reader >>`, encrypted fields | offsets through the encrypting wrapper, views into the decryption scratch |
| protobuf adapter | `adapters/protobuf.hpp`, `adapters/protobuf/*` | window, diagnostic; a reader or writer of its own for each nested payload | sizing pass, `writer <<`, `reader >>`, packed and repeated fields | the size pass must agree with the write pass; fields in any order, repeated, unknown |
| yaml adapter | `adapters/yaml.hpp`, `adapters/yaml/*` | scanner with one line of look-ahead, the value of the current entry, diagnostic | `reader >>` | one look-ahead and one current value shared by nested codecs; state left behind by a failed read |
| json, console, debug | `adapters/json.hpp`, `console.hpp`, `debug/*` | output, nesting stack, limits | `writer <<` | commas and newlines across nesting; depth and item limits |
| schema | `adapters/schema.hpp` | none | visits a type | none |
| logging | `logging/*` | output, options, error handler | `logger::log` and its levels | a record that fails half way; values that must not be shown |

How they interact: everything is a synchronous call. `operator<<`/`operator>>`
clears the adapter's diagnostic, calls `codec<T>` for the object, which visits the
descriptors of the core, which hand back references into the user's object; codecs
call each other recursively and the window of the I/O layer at the leaves. A
failed status returns through the same calls; each of them adds to the diagnostic
what it knows, and the operator throws `std::runtime_error` with its text.

## 2. Modules and their correspondence to the code

| module | models | state / operators and what they stand for |
|---|---|---|
| `ByteWindow` | `io/byte_window.hpp` | `Peek`, `Prepared`: the two questions asked of a window; the cursor is the caller's variable |
| `Diagnostic` | `detail/error.hpp` | a record of code, stage, type, field, index, offset with the first-wins rule of every part but the code |
| `ContractSchema` | `field.hpp`, `visit.hpp`, `detail/validation.hpp`, `check.hpp`, `security.hpp` | field tables, dispatch by id, `value_type{}` (`Default`), limits, `encrypt` |
| `ObjectValues` | checking only | when an object of a contract type is well formed: the parts of a value (`PartNodes`), when a value is one of its C++ type and within its `check::max_items` (`OneOfItsType`), at how many levels that is asked (`LevelsBelow`, `WellFormed`) |
| `WireFormat` | the byte formats | the result of a primitive read; little-endian integers |
| `CompactFormat` | primitives of `compact.hpp` | encoders give the bytes of one prepare/commit; decoders give one call's result: ok, value, bytes consumed, code, stage |
| `CompactReader` | `reader`, every codec's `read`, `skip_reader` | see below |
| `CompactWriter` | `writer`, every codec's `write` | see below |
| `CompactStream` | a writing and a reading program | composes the two with a medium that cuts the stream |
| `BinaryFormat` | primitives of `binary.hpp`, `bitset.hpp` | the key stream (`Ciphered`, `Advance`), all-or-nothing reads, sizes and their wrap-around, packed bits |
| `BinaryReader` | `reader`, every codec's `read`, `decrypting_input` | see below |
| `BinaryWriter` | `writer`, every codec's `write`, `encrypting_output` | see below |
| `BinaryStream` | a writing and a reading program | as `CompactStream`, one contract and one key on both ends |
| `BinarySchema` | checking only | a contract with a field of every kind, and a second, independent encoder |
| `FieldTransfer` | abstract | what the compact and the binary adapter promise, without bytes, codecs or calls |
| `ProtobufFormat` | primitives of `protobuf.hpp` | varints, tags, lengths, zigzag, packed blocks, views of a window that ends at `end` |
| `ProtobufReader` | `reader`, every codec's `read` | see below |
| `ProtobufWriter` | `writer`, every codec's `write`, `counting_output` | see below |
| `ProtobufStream` | a writing and a reading program | messages back to back, cut at any byte |
| `RecordMerge` | abstract | what the protobuf adapter promises: records take effect one by one |
| `ProtobufSchema` | checking only | a contract with a field of every kind, and the records an object may be written as, with their effect, built without the writer |
| `JsonWriter` | `json.hpp`, `json/*` | see below |
| `Logger` | `logging/logger.hpp`, `logging/event.hpp` | see below |
| `YamlText` | `namespace detail` and the scalar codecs of `yaml.hpp` | trimming, comments, quotes, escapes; what each scalar codec makes of a token |
| `YamlReader` | `reader`, `scanner`, `value_scope`, the other codecs of `yaml.hpp` | see below |
| `OrderSchema` | checking only | two contract types and a second, field by field encoder to compare with |
| `MC*` | checking only | constants and the properties that need a concrete schema |
| `*_proofs`, `ReaderLemmas` | proofs | see section 4 |

**Calls.** The codecs are mutually recursive functions. `stack` is their C++ call
stack, innermost call first; the last frame is `operator>>` (`operator<<`). One
action is one codec's work between two calls: `ReadScalar`, `ReadString`,
`ReadOptional`, `OpenVector`/`OpenMap`/`OpenObject` (read the header, check the
limit, become a frame), `ReadFieldId`, `ReturnValue`. `SkipHeader`, `SkipFieldId`,
`SkipRaw` and `ReturnSkip` are the same for `skip_reader`. A loop is a frame's
`left`, counting down from the `count` on the wire.

**Storage.** A frame's `val` is the storage its codec reads into. `Storage` says what
a codec is given: the live value if the field can be referenced (`direct`), a
default-constructed one if it is an item, the content of an optional, or goes
through `set()`. `Delivered` moves a finished value to its caller; `Spilled` is
what a *failed* codec leaves behind: nothing if its storage was a local,
everything it had stored if it was the user's.

**Failure.** A failing primitive sets `status = "failing"`. `Unwind` returns from one
call at a time, with `Annotated` adding what that codec adds to the diagnostic;
`Throw` is the exception leaving the operator. `BeginRead`/`BeginWrite` may follow
an error: the reader is usable again, at the cursor where it stopped.

**Writer.** `Commit` is prepare-all-or-fail. `Committed` and `EmitSized` chain the
two or three commits of a sized value, so that the first may succeed and the next
fail. `WriteFieldId` is a step of its own because a container's limit is checked
after the id of its field is out.

**Binary.** The same calls, storage and failure, in a format without headers and field
ids. A value of a composite type is a frame whose parts are read in order; the
codecs of arrays, vectors and spans of scalars copy all elements at once
(`ReadRawVector`, `ReadFixed`). `offset` is the key stream of the one
`decrypting_input` (`encrypting_output`) in use, or `Clear`; `Seal` makes it when
`reader::field` (`writer::field`) meets a field with `security::encrypt` and
`encrypt_active` is false, and it ends with that field, on success (`Store`,
`Advanced`) and on failure (`Unwind`). A `std::string_view` is modelled by where it
points: into the input, or into a scratch buffer that is gone. `resize()` and
`reserve()` of more than `Memory` throw: `status = "throwing"` unwinds the same calls
without a diagnostic.

**Stream.** `Send`/`Write` drive the writer until a write fails; `Receive` gives the
reader any prefix of what was committed, a failed write's fragment included; `Read`
drives the reader until a read fails. Under the mapping in `CompactStream`, a codec
call below the root object's is invisible, `Taken` counts the fields the root
object's loop has completed, and a failure happens when it reaches the root object.
The writers state their parameters' conditions as `ValidParameters`, which the
stream modules assume.

**Protobuf.** A nested payload is read by a `reader` of its own over a view of the same
bytes. Its frame has `base` and `end`: where the view begins and ends in the input;
`pos` counts from the start of the input throughout, the offset of a diagnostic from
the start of the view it was made in. When a nested reader is left, `HandedOver` is
`error(child)`: `transfer_from` with a position correction by `base`. The loop over
records ends when the view is used up, so a message at the root has neither a length
nor an end. The writer's `agenda` is what the codecs have still to do. A length goes in
front of what it measures: a *sizing* writer with default options first writes the
value into a `counting_output` (`counters`, one for each sizing writer at work), then
the length is written, then the value. A `window` output takes what fits of a run and the
writer fails; a `write`-style output takes all or nothing, and how much it took is not
looked at. In `ProtobufStream` the abstract state counts whole records: `Taken` is the
number of records the root's loop is through with.

**JSON and logging.** `todo` is what the codecs in progress have still to do and `stack`
the writer's own stack of open objects and arrays with their *first* marks. Each
insertion is a step and may fail: an output of the program's own throws
(`InsertThrows`), an `std::ostream` goes bad and swallows what follows (`InsertBad`).
A call of the logger is `Log`, then the writer's steps (`WriteEvent`), the newline last, and
`Return`, or `ReportError` when something was thrown; `TimestampThrows`, which is possible only
before the event is begun, is the one exception that is not the output's. `Clear` is the program clearing its stream between
calls. `made` and `reports` are history.

**YAML.** A document is a sequence of lines, each the number of its leading spaces and
the rest as a sequence of atoms: characters the reader looks at, and words. `scanner`
holds the line looked at and not consumed (`cached`), `current` is `current_value_`,
moved by `read_mapping_entry` and `read_sequence_item` and put back by `value_scope`
(`Scope`, `Restored`) whether the codec succeeded or not. `ReadInline...` are the codecs
of an entry's or item's value, `Read...Line` those of a whole document, `OpenBlock` is
`begin_block`, `ReadEntry`/`ReadItem` one turn of a loop. `Peek` and `Raised` are mutually
dependent in the code: a tab met while looking at the next line makes a diagnostic, which
asks for the current location, which looks at the next line. `start` is history: the
scanner and the current value when the read began.

## 3. Runs

| run | question | size |
|---|---|---|
| `reader_any_bytes` | what can arbitrary bytes do to the compact reader and to the user's object? does every `operator>>` return or throw? | 13 openings, each with every tail of up to 2 bytes over 14 and up to 3 over 8; two reads, fairness; 125 thousand states |
| `compact_stream` | what is committed, when does a write fail, is what was written what is read, across contract versions? does the pair implement `FieldTransfer`? | 5 objects, up to two writes, 12 window sizes, cut at every byte, three reads; 870 thousand |
| `integer_edges` | do the integer encoders and decoders agree, and refuse what they must? | 40 integers on each side of each edge, both signs |
| `binary_reader_any_bytes` | what can arbitrary bytes do to the binary reader, its key stream and the user's object? | one parcel's encoding cut at every byte and continued by up to 2 bytes over 6, two reads |
| `binary_stream` | as `compact_stream`, with encrypted fields | parcels, some to be refused, up to two writes, 10 output sizes, cut at every byte, three reads; 440 thousand |
| `protobuf_reader_any_bytes` | what can damaged bytes do to the protobuf readers and their windows, and is a diagnostic kept through them? | one report's encoding cut anywhere and continued by a byte, or any byte replaced, over 7; two reads |
| `protobuf_records` | do records of any origin merge, and are bad ones refused? does every `operator>>` end? | pairs from pools of good, tolerated and bad records, triples of one field, every record cut short at every byte; fairness; 21 thousand |
| `protobuf_writer_any_capacity` | what is put out, do measured lengths agree with what follows, when does a write fail? | 4 objects, packed and not, both kinds of output, every size 0..145, two writes |
| `protobuf_stream` | is what was written what is read? does the pair implement `RecordMerge`? | 2 reports, packed and not, two sizes, cut at every byte, two writes, two reads; 714 thousand |
| `logger` | is each record whole or visibly not, is what must be hidden hidden, whatever fails? | two calls, a failure at any insertion, both kinds of output, handler or none, two settings of the modes; 2.4 million |
| `yaml_documents` | does a read deliver what a document denotes, name the fault, and spare the rest? | one configuration of 20 lines with any line changed, dropped, doubled, moved or indented, and all documents of up to two lines over 18 for six small types; every setting of the options; two reads; 380 thousand |
| `finding_borrowed_view` | see section 6 | |

Why the bounds are enough.

*Compact.* `MaxNesting = 5` is how deep `ObjectWellFormed` looks into the object: the contract
types of the run nest no deeper, and a value that did would be refused by
`InitialObjectAssumption` and `DefaultAssumption`, which TLC evaluates. The alphabet of `reader_any_bytes` has a byte of every class the reader
distinguishes: zero, small ids declared and undeclared, a small negative, both integer
payloads, a sized header of every kind, null; the openings put the tail inside an object,
a string, a nested object, a map, a vector, a tuple, a variant, a span, an unordered map
and a skipped field, so three bytes reach container items, a second nesting level, a
duplicate key and every truncation. The second read starts where any first read stopped.
The window sizes of `compact_stream` lie within each part of each object's encoding, so
that a commit of every kind fails in some behaviour, between the two commits of an
extended header included; 400 is more than two objects take. `Large` has a string of 15
characters (extended size header) and integers at -17, -16, 63, 64 and 255; `ManyItems`,
`ManyKeys` and `WideStamp` exceed a limit. `Int64Max` is 2^23 - 1 in the runs: the code
compares magnitudes with the int64 limit and nothing else depends on the limit's value;
a scaled one keeps the edge inside TLC's 32-bit integers. The proofs leave it a parameter.

*Binary.* A `std::size_t` has one byte (`SizeBytes = 1`), so sizes wrap around at 256 as
they do in the code at 2^64, and `Memory` is 100: as in the code, a size is either small
enough to be had or far beyond, and two-byte elements times 128 wrap to zero. The
alphabet has small sizes, the wrapping one and the largest; the key there is 1 3 0 2, so
that decrypting a byte of 0..3 gives another of them and encrypted sizes stay
interesting. `ParcelFields` has one field of every codec, an encrypted field inside an
encrypted field and inside the elements of an encrypted vector, a field behind `set()`,
and every `check::` limit. An `unordered_map` is written in every order.

*Protobuf.* A varint has `WordBits = 16` bits (three bytes at most) for the code's 64 and
a field number `NumberBits = 8` for 32, so that `key >> 3` still has more bits than a
number, and a truncated number may be that of a declared field. `Sampled` says which
fields of the report are in the input of `protobuf_reader_any_bytes`: each codec once.
The bytes put in are the small ones that are tags, counts and lengths at once, one
unfinished varint and one beyond every window. In `protobuf_records`, a pair shows how
the second record finds what the first left, and three of one field that the middle one
makes no difference; a contract of the pools has a packed, an unpacked, a merging, an
appending, a putting and a set()-only field. No report of `ProtobufSchema` has an empty
vector of scalars, which the writer does not encode (section 6): `protobuf_stream` is
about what can be read back, and `protobuf_writer_any_capacity` has such objects
(`Misencoded` tells exactly which objects the writer gets wrong). A vector behind `set()`
loses every item but the last (`MCKept`, and the effect of its records in
`ProtobufSchema`).

*Logger.* The calls hold a value for every codec, a member under each security attribute at
the front, alone and under two at once; one fault is enough because a second one
could only be in the next call, which starts anew. `MaxNesting = 8` bounds how far into a
call's values `Exposed` looks for what the call may show; `CallsAssumption`, which TLC
evaluates, says that nothing in a call nests deeper.

*YAML.* The configuration has a field of every codec, keys in another order than the
fields', optionals present and absent, a comment inside quotes, blocks in blocks, and
vectors of mappings; the texts put into it are those the reader distinguishes. Two reads
are enough to see what a failed or finished read leaves behind. What a document denotes
is defined in `MCYamlReader` by the structure of blocks, without scanner, look-ahead or
current value.

Fairness. `FairSpec` has `WF_vars(Step)` only: an operator runs synchronously on its
caller's thread, so a step it can make is made. Nothing forces a caller to read again
(`BeginRead` is not fair). It is used by `reader_any_bytes`, and with a history of the
records an input was made of (`MCSpec`) by `protobuf_records`, for `ReadTerminates`. The YAML and binary readers are checked for safety only.

Deadlock is not checked: a program that has made its last call, or whose reader failed,
has stopped.

What the properties say:

* `WithinWindow`, `DepthBounded`, `WorkPaidFor` (compact reader): the cursor stays in the
  window; calls are no deeper than bytes were consumed; a declared count buys nothing the
  bytes do not pay for. `TypeOK` of the compact, binary and protobuf readers has the
  cursor's range in it.
* `DiagnosticComplete`: a failed read or write has a diagnostic whose parts were set, and
  no other read or write has. `DiagnosticNamesHolder` (compact): where type and field of a
  diagnostic belong to different objects. `DiagnosticKept` (protobuf): the byte a
  diagnostic names stays the same through every nested reader that hands it on.
* `WindowsNest` (protobuf): each nested reader's window lies within the one around it, and
  the cursor within the innermost.
* `KeyInStep` (binary): at most one key stream is in use, however encrypted fields nest,
  and it has advanced by exactly the bytes read since its field began.
* `ObjectWellFormed`: limits, ranges and the shape of the user's object survive a failed
  read.
* `CommittedIsPrefix`, `FailsForAReason` (writers): what is out is a prefix of an
  independently defined encoding, and a write fails only when it must.
* `RoundTrip`: what arrived whole is read back; a read fails only at a torn object or
  record, and says so.
* `ImplementsTransfer`, `ImplementsMerge`: refinement; among other things, a torn object
  damages at most the one field under way.
* `RecordsMerge`, `BadRecordRefused` (protobuf): records take effect one after the other;
  one that must be refused is, damaging only its own field.
* `HiddenStaysHidden` (logger): all that is ever in the output is JSON's own syntax and what
  the calls made so far may show (`Words`): the text of values reached without passing a
  member whose attributes the options omit or redact, and the names of members they do not
  omit. `RecordsDelimited`: what a call that ended well has written is its event as JSON and a
  newline; there are as many newlines as such calls (`LinesDelimited`), and each call that
  threw is reported once.
* `DocumentRead`, `DiagnosticLocated`, `DamageConfined` (YAML): a read succeeds exactly if
  what is left of the document denotes a value, and delivers that; the line and the field
  of a diagnostic belong together; fields a failed read did not come to are as they were,
  and fields behind `set()` are never half read. `DocumentRead` is about every read, so it
  also says what a reader does that is used again: it takes what is left as a value of the
  entry at which it stopped.

## 4. Proofs

Eight modules hold theorems or lemmas; TLAPS checks every one of them from nothing but the
assumptions the modules state. Each theorem about an adapter holds for every field
table, every input or object and every number of reads or writes, without a bound on
lengths, counts or nesting.

| module | theorem | property | said of |
|---|---|---|---|
| `CompactReader_proofs` | `TypeCorrect`, `StaysWithinWindow`, `DepthIsBounded`, `WorkIsPaidFor` | `TypeOK`, `WithinWindow`, `DepthBounded`, `WorkPaidFor` | `reader_any_bytes` |
| `CompactOutcome_proofs` | `FailureExplained`, `FieldNamesHolder`, `ObjectStaysWellFormed` | `DiagnosticComplete`, `DiagnosticNamesHolder`, `ObjectWellFormed` | `reader_any_bytes` |
| `CompactIntegers_proofs` | `IntegersDecoded`, `ForeignIntegersRefused` | `IntegersRoundTrip`, `OutOfRangeRefused` | `integer_edges` |
| `BinaryReader_proofs` | `TypeCorrect`, `KeyStreamInStep`, `FailureExplained` | `TypeOK`, `KeyInStep`, `DiagnosticComplete` | `binary_reader_any_bytes` |
| `ProtobufReader_proofs` | `TypeCorrect`, `WindowsLieInOneAnother`, `DiagnosticPreserved`, `FailureExplained` | `TypeOK`, `WindowsNest`, `DiagnosticKept`, `FailureTold` | `protobuf_reader_any_bytes` |
| `ProtobufWriter_proofs` | `FailureExplained`, `StaysWithinOutput` | `DiagnosticComplete` | `protobuf_writer_any_capacity` |
| `Logger_proofs` | `HiddenNeverWritten`, `LinesEndRecords` | `HiddenStaysHidden`, `LinesDelimited` | `logger` |
| `ReaderLemmas` | lemmas only | what a window gives, integers of bytes, pushing and popping a call, the parts of a value type, induction for a set, sums of weights | |

Each run checks the property on its small instance; the theorem is about every instance.

### The arguments

*Compact reader.* None of its first three is inductive: that the cursor stays in the window
needs to know that counts and sizes are natural numbers; that the depth is paid for
needs to know which frame may call which, or a return could leave a frame that never
consumed anything. `IInv` joins them: the calls nest (`Nested`: frames typed,
`operator>>` outermost and nowhere else, each caller owed the part it called for),
there are calls exactly while a read is in progress, `pos \in 0 .. Len(input)`, and
`Len(stack) <= pos + 1`. One lemma per primitive bounds what it consumes (`Bounded`),
and one lemma per action puts it together with what a push, replacement or pop does to
`Nested`. An unknown field needs care: its skip frame is pushed by the id's bytes and
the header's frame by the header's.

*Its work.* `WorkPaidFor` adds up, over the whole stack, the items each call has
completed. A step changes one or two calls, so the lemmas say what a push, a replacement
and a pop do to the sum (`TotalWork`), and each action pays for what it adds with the
bytes it consumes (`ReplacePaid`, `PushPaid`, `PopPaid`). Inductive it is only together
with two facts about counts (`Paid`): `operator>>` reads exactly one value, and
`skip_reader` called by an object for an unknown field skips at least one, or its return
would complete an item for nothing. The sum itself is a fold over a set by `CHOOSE`; that
it is the running total is an induction over the set of its indices, which is stated for
a set and not for an operator (`IntervalInduction`, `SubsetInduction` of `ReaderLemmas`).

*Its diagnostic.* A type is attached only by the codecs of objects, so that a failure
ends with one depends on what is on the stack. `DInv` says of each call which type it
serves (`Serves`) and that its caller awaits just that (`Summons`), `skip_reader` being
called by itself or for an object's unknown field; and of the diagnostic that it names a
code, a stage and the cursor, and either a type or there is still a codec above
`operator>>` (`Typed`): the one right above it is the root object's, which names its own.

*Whose field it names.* `DiagnosticNamesHolder` speaks of the end of a failure, which has
by then passed any number of calls. `HolderKnown` says what is known on the way: nothing
is named yet; or type and field are, and fit; or the type is named alone, and lies
within the value that the innermost call awaits (`AwaitsType`). The last passes from a
container to its caller because what is in a part is in the whole (`TypesInPart`), and
becomes the second at the first object, whose field it then is. `TypesIn` is a
recursive function; that it has its parts' types needs a function that satisfies its
equation, and that there is one does not need the types to be well-founded: the
least of those functions that have all parts' types is one (`WithinExists`), so the theorem
holds for schemas that refer to themselves as well.

*The object it leaves.* A codec reads into storage that is its caller's when the call ends,
well or not, so `ObjectWellFormed` depends on what every call in progress holds at every
moment. `HoldsSound` says it codec by codec: an object, array, span, tuple or variant is a
value of its type all the time, a vector has as many items as its count was lowered by, a map
no more keys, and a pending key that is of its type; `Granted` that the count of a container
was held against the limit of its field. The lemmas then follow a value: what a codec is given
to read into (`StorageSound`), what it has made of it (`CalleeSound`), what is left of it in the
caller when it fails (`SpilledSound`: a string with zeros for bytes that never came, a bitset
that was reset) or when it succeeds (`DeliveredSound`). That a value is of its type at *any*
depth is not said by recursion: a value is `Sound` if it is in some set of values that are of
their types and have their parts in the set. A sound value is well formed to any depth
(`SoundIsWellFormed`), and a value of which a search of bounded depth finds everything is sound
(`WellFormedIsSound`), so that TLC can check what is assumed of the initial object.

*Integers.* `IntegersRoundTrip` is about one value at a time, so the theorem is: every
integer in the range of the state is decoded. The encoder picks the fewest bytes; the
proof shows that they hold the value (division by 256 up to eight times, `Shifted`) and
that `load_little_uint` puts them together again.

*Binary reader.* `KeyInStep` speaks of the whole stack; its inductive form `KeyAt` says
that only frames of objects are sealed, at most one of them, and that the one remembers
where its field began. Sizes are as many bytes as a `std::size_t` has and wrap; `TypeOK`
follows because a read takes all it was asked for or nothing, whatever was declared.

*Protobuf reader.* `Under` relates each call to the one below it: the same window, or one
inside it; `Explained` is what is known of a diagnostic by the call that failed, and
`Quiet` which calls hand none on (those inside a variant). `FailureTold` is all of
`DiagnosticComplete` that does not name the report of the run; its last two clauses say
which field of *that* schema a departure is at, and stay with TLC.

*Protobuf writer.* The agenda holds two sorts of tasks: `Plain` ones, which put bytes out
or call a codec, and ones with a length, whose head and body are plain. Each codec
replaces its call by tasks of these sorts, for values it has codecs for; each task names
a field, and each that puts bytes out a stage. So a failure, whatever the bytes it is at,
has all its parts. `Room` never exceeds what is left of the output.

*Logger.* What is in the output says nothing of what comes next, so the invariant (`LInv`) is
about `todo`: while a call is in progress it has the rest of its record to do (`Rest`), any
number of steps it may make and then the newline. The steps a call may make (`Steps`) are
text without a newline from what it may show (`Atoms`), commas, and values and members
among those it may show (`Exposed`). That each codec replaces a value by such steps
(`CodecType`, one lemma per codec) and `writer::field` a member (`WriteMemberType`) is where
the security attributes come in: a member that is omitted leaves nothing, one that is
redacted its name, and only one that nothing hides has its value among the parts of its
object that may be shown. Escaping is why text has no newline (`EscapedType`). The newlines
then count the calls that ended well, and one more between the newline's insertion and the
return (`LinesCounted`), whether the output throws, goes bad, or is cleared between calls.

### What is assumed

Every assumption is stated in a module that a passing run extends, so TLC evaluates it.

* Of the program: `FieldsAssumption` (the root type is declared, fields of a type are a
  sequence, their ids positive and unique, which the library asserts when it is compiled),
  `LimitsAssumption` (a limit is an integer), `RawAssumption` (the scalars that compact copies
  are of one byte), `InitialObjectAssumption` and `DefaultAssumption` (the object the user begins
  with, and `value{}` of each type, are values of their types),
  `ShapesAssumption` (the value types in use include the parts of each: an array, span or
  bitset has a size, a tuple or variant a sequence of types), `CodecsAssumption` (each has a
  codec; protobuf) and, for the protobuf writer, `ValuesAssumption` and `ObjectsAssumption`: objects
  are of their types, all the way down. `InputsAssumption`, `CapacitiesAssumption`: bytes
  and sizes. Of the logger: `ModesAssumption` (the options give each security attribute one
  of three modes), `CallsAssumption` (the values of a call are what their shapes say, nest no
  deeper than `MaxNesting`, and no integer is spelled with a newline).
* Of the machine: `Int64MaxAssumption` (an int64 is wider than one byte and an unsigned
  has at most eight: `Shifted(2 * Int64Max + 1, 8) = 0`), `SizeBytesAssumption`,
  `WordBitsAssumption`, `NumberBitsAssumption`, `KeyAssumption`, `MemoryAssumption`
  (`max_size()` is half the address space). `SizeRangeAssumption` and
  `WordRangeAssumption` say that a power of two is a positive number, which the provers
  do not know of a power with a variable exponent.
* Of the model's own values: `Absent` is no integer, no contract type and none of the
  stages (`AbsentAssumption`, `TypesAssumption`, `StageAssumption`), and `Null` no integer (`NullAssumption`).
* `EdgesAssumption`: the integers of `integer_edges` lie in the program's range.

### What the proofs found out about the model

The first attempts failed for reasons that were the model's: arms of a `CASE` that
overlapped for byte arrays and blobs, which leaves the choice open (they are disjoint
now), and definitions by `CHOOSE` of a least number or by recursion of operators, which
are now counts and sums that say the same (`VarintSize`, `Trimmed`, `Groups`). One was a step
too many: `TimestampThrows` was possible a second time, before the last bracket of an event,
when the event had long been made up; it is not any more. No theorem had to be weakened, and
no code turned out to be wrong.

### Model-checked only

* Liveness (`ReadTerminates`, in two runs): needs fairness and `ENABLED`.
* `RoundTrip`, `CommittedIsPrefix`, `FailsForAReason`, `RecordsMerge`, `BadRecordRefused`,
  `DocumentRead`: each compares with a recursive definition over objects or documents.
* `ObjectWellFormed` of the binary and protobuf readers, where it is stated for the schema of
  the run.
* `ImplementsTransfer`, `ImplementsMerge`: their steps are those of the readers, but that
  what is taken is what was sent is the round trip again.
* The text of a record (the first part of the logger's `RecordsDelimited`), which compares
  with a recursive definition of JSON, and the YAML reader's properties.

## 5. Not modelled

* *Binary:* the unchecked `io::input` and `io::output` (they cannot fail), `const char*`
  (write-only), operators on values that are not contract objects, spans of static extent.
* *Compact:* `std::string_view` (borrows the input instead of copying), `std::optional`
  directly inside `std::optional` (both nulls share a header), enums (their underlying
  integer), doubles other than skipping them (a float with eight bytes), exceptions of
  `resize`/`reserve` for huge sizes.
* *Protobuf:* `std::bad_alloc`, outputs that throw.
* *JSON:* codecs of the program's own that take the descriptor, floats that are no numbers,
  the spelling of numbers. *Logging:* `logging::format`, the text of the time stamp.
* *YAML:* splitting bytes into lines (a window of 4096 bytes, CR and LF), the characters of
  numbers (a token is a number or it is not), the snippet of a diagnostic. Three error
  codes cannot occur: `missing_current_value`, `internal_scanner_state_mismatch` and
  `sequence_index_out_of_range` are guarded by every caller.
* *Diagnostics:* wording, source location, expected and actual sizes.
* *Contract core, attributes:* what the compiler does with them (BASE flattening, attribute
  resolution). A field table is what comes out of it.
* *Console and debug writers:* one-way text; what could be wrong is layout. *Schema:*
  compile-time only. *Files, text streams, beast buffers:* thin wrappers.

## 6. Findings

Each is a disagreement between the code and what the repository says of it;
`PROJECT.json` quotes both. One run ends in a counterexample; the others pass because
their property spells the departure out.

* `finding_borrowed_view`: a `std::string_view` "points into input storage". In an
  encrypted field it points into the scratch buffer of the `decrypting_input`, a local of
  `reader::field`.
* Compact, `DiagnosticNamesHolder`: type and field of a message are "attached together".
  They are two independent first-wins parts: a nested object whose own header or field id
  fails adds its type without a field, the enclosing codec then adds its field, and the
  message reads "in Customer field ... (#5)" where 5 is a field of Order.
* Compact, `RoundTrip`: `check::max_length()` "guards strings". The string codec has no
  overload that takes the field descriptor, so the limit is never looked at.
* Protobuf writer, `CommittedIsPrefix`: an empty packed vector is given a tag and no
  length; and a submessage is measured packed although it is written unpacked, because the
  sizing writer has default options.
* Protobuf writer, `FailsForAReason`: the count of bytes a write-style output took is not
  looked at.
* Protobuf, `BadRecordRefused`: a tuple with an empty optional is written without that
  position and refused when read; a variant's nested reader does not hand its diagnostic
  on.
* Protobuf, `RecordsMerge`: bytes behind the payload of a variant are accepted; enum values
  are not validated; a field number is truncated to 32 bits before it is compared.
* Protobuf, `RoundTrip`: a vector behind `set()` loses every item but the last.
* Protobuf reader, `DiagnosticComplete`: in a tuple, name and number of a diagnostic are of
  two different fields.
* Logger, `RecordsDelimited`: a call that fails half way leaves a piece of a record without
  a newline in front of the next record; a stream that goes bad is never reported.
* YAML, `DocumentRead`: with `fail_on_unknown_keys` off, an unknown key is ignored only if
  its value is on its line; a block below it fails the read.

Met while modelling, and in the model, though nothing in the repository says otherwise:
the diagnostic of a tab names another line than the tab's (a test pins it), the line
behind a tab is lost, so that a second read may find an empty document; a scalar that is
the document is consumed before it is parsed, so that its diagnostic names the next line;
a negative number cannot be the document; an empty value of a floating-point field is 0.

## 7. Plan

What remains is to prove more:

1. The YAML reader: the typing of its frames and that `current` is that of the innermost
   entry (the part of `DiagnosticLocated` that is an invariant of the steps).
2. The compact and binary writers: what is out never exceeds the capacity, and their
   diagnostics, along the lines of the protobuf writer.
3. Of the refinements, the steps that do not depend on a round trip: a read that goes on
   takes one field at a time, and a failed one none.

To model, if anything: attribute resolution and BASE flattening as pure operators
against a declarative definition; the nesting and limits of the console writer.
