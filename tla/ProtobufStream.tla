--------------------------- MODULE ProtobufStream ---------------------------
(***************************************************************************)
(* A protobuf writer and a protobuf reader at the two ends of a byte       *)
(* stream.                                                                 *)
(*                                                                         *)
(* Objects are written back to back until a write fails; the reader gets   *)
(* the first bytes of what was written, the fragment of a failed write     *)
(* included, and reads until a read fails.  A message at the root has      *)
(* neither a length nor an end mark: one read takes all the bytes there    *)
(* are.                                                                    *)
(***************************************************************************)
EXTENDS ProtobufFormat, SequencesExt

CONSTANTS
    Fields, Shapes, RootType, Objects, Values, Capacities, MaxWrites, InitialObject,
    MaxReads, Null, Absent, Packings, Sinks,
    Messages(_, _),        \* the sequences of records an object is written as
    AfterRecord(_, _),     \* an object after a record was read into it
    Seen(_, _),            \* the reader's object as its program sees it when
                           \* its views show parts of the given bytes
    Kept(_)                \* what is left of an object that was sent

VARIABLES
    pack, sink, capacity, out, agenda, counters, wstatus, werror, wobject, start, writes,
    input, pos, stack, status, error, object, reads,
    received,   \* whether the reader has its bytes
    sent,       \* history: the objects whose operator<< was called
    records,    \* history: the records they were written as
    ends        \* history: where each of these ends

writerVars ==
    <<pack, sink, capacity, out, agenda, counters, wstatus, werror, wobject, start, writes>>
readerVars == <<input, pos, stack, status, error, object, reads>>
vars == <<writerVars, readerVars, received, sent, records, ends>>

W == INSTANCE ProtobufWriter WITH status <- wstatus, error <- werror, object <- wobject

R == INSTANCE ProtobufReader WITH Inputs <- {<<>>}

-----------------------------------------------------------------------------
Init ==
    /\ W!Init
    /\ R!Init
    /\ received = FALSE
    /\ sent = <<>>
    /\ records = <<>>
    /\ ends = <<>>

Send ==
    /\ ~received
    /\ wstatus # "error"
    /\ W!BeginWrite
    /\ sent' = Append(sent, wobject')
    /\ UNCHANGED <<readerVars, received, records, ends>>

Write ==
    /\ ~received
    /\ W!Step
    /\ UNCHANGED <<readerVars, received, sent, records, ends>>

Ends(rs) == [i \in DOMAIN rs |-> FoldLeft(LAMBDA n, r : n + Len(r.bytes), 0, SubSeq(rs, 1, i))]

BytesOf(rs) == FoldLeft(LAMBDA bytes, r : bytes \o r.bytes, <<>>, rs)

(* The record sequences all the objects sent may have been written as.     *)
Written ==
    FoldLeft(LAMBDA prefixes, o : {a \o b : a \in prefixes, b \in Messages(o, pack)}, {<<>>}, sent)

(* The one of them the output begins; none if it begins no message.        *)
Recorded ==
    LET matching == {rs \in Written : IsPrefix(out, BytesOf(rs))}
    IN  IF matching = {} THEN <<>> ELSE CHOOSE rs \in matching : TRUE

(* The reader gets the first bytes of what was written.                    *)
Receive ==
    /\ ~received
    /\ wstatus \in {"ok", "error"}
    /\ \E size \in 0 .. Len(out) : input' = SubSeq(out, 1, size)
    /\ records' = Recorded
    /\ ends' = Ends(records')
    /\ received' = TRUE
    /\ UNCHANGED <<writerVars, pos, stack, status, error, object, reads, sent>>

Read ==
    /\ received
    /\ \/ status # "error" /\ R!BeginRead
       \/ R!Step
    /\ UNCHANGED <<writerVars, received, sent, records, ends>>

Next == Send \/ Write \/ Receive \/ Read

Spec == Init /\ [][Next]_vars

-----------------------------------------------------------------------------
(* How many records arrived entirely, and whether part of the next did.    *)
Arrived == Cardinality({i \in DOMAIN ends : ends[i] <= Len(input)})

Torn == Len(input) > (IF Arrived = 0 THEN 0 ELSE ends[Arrived])

(* What was written is what is read: the bytes of one message, whose       *)
(* operator<< returned and which arrived whole, are read into a fresh      *)
(* object without failure and make the object that was written, its views  *)
(* included, whatever was packed, but for what `Kept' says is lost.  A read*)
(* fails when a record is torn and only then, and says so unless a variant *)
(* is in the way.  (It may well succeed when records are missing: nothing  *)
(* in the bytes says how many there should be.)                            *)
RoundTrip ==
    LET whole == wstatus = "ok" /\ Len(sent) = 1 /\ received /\ Len(input) = Len(out)
        last  == R!DispatchFieldById(Fields, RootType, records[Arrived + 1].id)
    IN  /\ whole /\ status \in {"failing", "error", "ok"} =>
              /\ status = "ok"
              /\ Seen(object, input) = Kept(sent[1])
              /\ pos = Len(input)
        /\ status = "ok" => ~Torn
        /\ status = "error" =>
              /\ Torn
              /\ error.code = "truncated" \/ (error.code = "unknown" /\ last.shape.kind = "variant")

-----------------------------------------------------------------------------
(* The abstract merge: codec calls above that of the root object have not  *)
(* happened yet, and a failure has happened once it has come to that.      *)
Root == stack[Len(stack)]

Outcome ==
    IF status = "failing" THEN IF Len(stack) = 1 THEN "error" ELSE "reading"
    ELSE status

Taken ==
    LET underway == stack # <<>> /\ Root.todo
    IN  Cardinality({i \in DOMAIN ends : IF underway THEN ends[i] < pos ELSE ends[i] <= pos})

Held == IF stack = <<>> THEN object ELSE Root.val

IdOf(r) == r.id

Merge == INSTANCE RecordMerge WITH
    arrived <- IF received THEN Arrived ELSE 0, torn <- received /\ Torn,
    taken <- Taken, outcome <- Outcome, object <- Seen(Held, input),
    InitialObject <- Seen(InitialObject, <<>>), Effect <- AfterRecord, FieldOf <- IdOf

(* The adapter implements the merge: records take effect one by one and    *)
(* entirely, success means all that arrived, and a torn record damages at  *)
(* most its own field.                                                     *)
ImplementsMerge == Merge!Spec

=============================================================================
