---------------------------- MODULE BinaryStream ----------------------------
(***************************************************************************)
(* A binary writer and a binary reader at the two ends of a byte stream.   *)
(*                                                                         *)
(* The format has no field ids, so both programs have the same contract    *)
(* and the same key.  Objects are written back to back until a write       *)
(* fails; the reader gets the first bytes of what was written, the         *)
(* fragment of a failed write included, and reads until a read fails.      *)
(***************************************************************************)
EXTENDS BinaryFormat, ContractSchema, SequencesExt

CONSTANTS
    Fields, Shapes, RootType, Objects, Capacities, MaxWrites, InitialObject,
    MaxReads, Null, Absent, Memory,
    Seen(_, _)             \* the reader's object as its program sees it when
                           \* its views show parts of the given bytes

VARIABLES
    wcapacity, out, woffset, wstack, wstatus, werror, wobject, start, writes,
    input, pos, offset, stack, status, error, object, reads,
    received,   \* whether the reader has its bytes
    sent,       \* history: the objects whose operator<< was called
    ends        \* history: where each of them ended

writerVars == <<wcapacity, out, woffset, wstack, wstatus, werror, wobject, start, writes>>
readerVars == <<input, pos, offset, stack, status, error, object, reads>>
vars == <<writerVars, readerVars, received, sent, ends>>

W == INSTANCE BinaryWriter WITH
        capacity <- wcapacity, offset <- woffset, stack <- wstack,
        status <- wstatus, error <- werror, object <- wobject

R == INSTANCE BinaryReader WITH Inputs <- {<<>>}

ASSUME WriterAssumption == W!ValidParameters

-----------------------------------------------------------------------------
Init ==
    /\ W!Init
    /\ R!Init
    /\ received = FALSE
    /\ sent = <<>>
    /\ ends = <<>>

Send ==
    /\ ~received
    /\ wstatus # "error"
    /\ W!BeginWrite
    /\ sent' = Append(sent, wobject')
    /\ UNCHANGED <<readerVars, received, ends>>

Write ==
    /\ ~received
    /\ W!Step
    /\ ends' = IF wstatus' = "ok" THEN Append(ends, Len(out)) ELSE ends
    /\ UNCHANGED <<readerVars, received, sent>>

(* The reader gets the first bytes of what was written.                    *)
Receive ==
    /\ ~received
    /\ wstatus \in {"ok", "error"}
    /\ \E size \in 0 .. Len(out) : input' = SubSeq(out, 1, size)
    /\ received' = TRUE
    /\ UNCHANGED <<writerVars, pos, offset, stack, status, error, object, reads,
                   sent, ends>>

Read ==
    /\ received
    /\ \/ status # "error" /\ R!BeginRead
       \/ R!Step
    /\ UNCHANGED <<writerVars, received, sent, ends>>

Next == Send \/ Write \/ Receive \/ Read

Spec == Init /\ [][Next]_vars

-----------------------------------------------------------------------------
(* How many objects arrived entirely.                                      *)
Whole == Cardinality({i \in DOMAIN ends : received /\ ends[i] <= Len(input)})

SentIds == [i \in DOMAIN Fields[RootType] |-> Fields[RootType][i].id]

(* What was written is what is read: a read that returns has taken exactly *)
(* the bytes of the next object sent, all of which arrived, and the        *)
(* program holds that object, whatever it held before; its views, encrypted*)
(* fields and the fields behind set() included.  A read fails only when    *)
(* bytes are missing, and says so; it never ends in an exception of        *)
(* resize() or reserve(), since a size in the stream is a size some object *)
(* of the writer had.                                                      *)
RoundTrip ==
    /\ status = "ok" =>
        /\ reads <= Whole
        /\ pos = ends[reads]
        /\ Seen(object, input) = sent[reads]
    /\ status = "error" => reads > Whole /\ error.code = "truncated"
    /\ status # "thrown"

-----------------------------------------------------------------------------
(* The abstract transfer: codec calls above that of the root object have   *)
(* not happened yet, and a failure has happened once nothing above the     *)
(* root object's call is left to unwind.                                   *)
Outermost == stack[Len(stack) - 1]

Outcome ==
    IF status = "failing" THEN IF Len(stack) <= 2 THEN "error" ELSE "reading"
    ELSE status

Taken ==
    IF Outcome # "reading" THEN 0
    ELSE IF Len(stack) >= 2 THEN Outermost.count - Outermost.left
    ELSE IF Head(stack).left = 0 THEN Len(SentIds) ELSE 0

Held ==
    IF stack = <<>> THEN object
    ELSE IF Len(stack) = 1 THEN Head(stack).val ELSE Outermost.val

Replaced(o, sentObject, id) == [o EXCEPT ![id] = sentObject[id]]

Transfer == INSTANCE FieldTransfer WITH
    FieldIdOf <- SentIds, whole <- Whole, read <- reads, taken <- Taken,
    outcome <- Outcome, object <- Seen(Held, input), Stored <- Replaced,
    InitialObject <- Seen(InitialObject, <<>>)

(* The binary adapter implements the transfer: fields arrive in order and  *)
(* entirely, success means all of them, and a torn object damages at most  *)
(* the one field that was being read.                                      *)
ImplementsTransfer == Transfer!Spec

=============================================================================
