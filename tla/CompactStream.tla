---------------------------- MODULE CompactStream ----------------------------
(***************************************************************************)
(* A compact writer and a compact reader at the two ends of a byte stream. *)
(*                                                                         *)
(* The writing program sends objects back to back, until a write fails.    *)
(* The reading program, built from another version of the contract, gets   *)
(* the first bytes of what was committed (a file cut short, a datagram     *)
(* truncated), the fragment of a failed write included, and reads until a  *)
(* read fails.                                                             *)
(***************************************************************************)
EXTENDS CompactFormat, ContractSchema, SequencesExt

CONSTANTS
    WFields, RFields,      \* the field tables of the two programs
    RShapes,               \* the value types of the reading program
    RootType, Objects, Capacities, MaxWrites, InitialObject, MaxReads,
    Null, Absent,
    Stored(_, _, _)        \* what taking a field makes of the reader's object

VARIABLES
    wcapacity, out, wstack, wstatus, werror, wobject, start, writes,
    input, pos, stack, status, error, object, reads,
    received,   \* whether the reader has its bytes
    sent,       \* history: the objects whose operator<< was called
    ends        \* history: where each of them ended

writerVars == <<wcapacity, out, wstack, wstatus, werror, wobject, start, writes>>
readerVars == <<input, pos, stack, status, error, object, reads>>
vars == <<writerVars, readerVars, received, sent, ends>>

W == INSTANCE CompactWriter WITH
        Fields <- WFields, capacity <- wcapacity, stack <- wstack,
        status <- wstatus, error <- werror, object <- wobject

R == INSTANCE CompactReader WITH
        Fields <- RFields, Shapes <- RShapes, Inputs <- {<<>>}, MaxNesting <- 5

ASSUME WriterAssumption == W!ValidParameters

-----------------------------------------------------------------------------
Init ==
    /\ W!Init
    /\ R!Init
    /\ received = FALSE
    /\ sent = <<>>
    /\ ends = <<>>

Send ==
    /\ ~received
    /\ wstatus # "error"
    /\ W!BeginWrite
    /\ sent' = Append(sent, wobject')
    /\ UNCHANGED <<readerVars, received, ends>>

Write ==
    /\ ~received
    /\ W!Step
    /\ ends' = IF wstatus' = "ok" THEN Append(ends, Len(out)) ELSE ends
    /\ UNCHANGED <<readerVars, received, sent>>

(* The reader gets the first bytes of what was committed.                  *)
Receive ==
    /\ ~received
    /\ wstatus \in {"ok", "error"}
    /\ \E size \in 0 .. Len(out) : input' = SubSeq(out, 1, size)
    /\ received' = TRUE
    /\ UNCHANGED <<writerVars, pos, stack, status, error, object, reads, sent, ends>>

Read ==
    /\ received
    /\ \/ status # "error" /\ R!BeginRead
       \/ R!Step
    /\ UNCHANGED <<writerVars, received, sent, ends>>

Next == Send \/ Write \/ Receive \/ Read

Spec == Init /\ [][Next]_vars

-----------------------------------------------------------------------------
(* How many objects arrived entirely.                                      *)
Whole == Cardinality({i \in DOMAIN ends : received /\ ends[i] <= Len(input)})

SentIds == [i \in DOMAIN WFields[RootType] |-> WFields[RootType][i].id]

Overlaid(old, sentObject) ==
    FoldLeft(LAMBDA o, id : Stored(o, sentObject, id), old, SentIds)

(* What was written is what is read: a read that returns has taken exactly *)
(* the bytes of the next object sent, all of which arrived, and has put    *)
(* its fields over those the reader's object held; fields only one of the  *)
(* two versions declares are skipped or keep their value.  A read fails    *)
(* only when bytes are missing, and says so.                               *)
RoundTrip ==
    /\ status = "ok" =>
        /\ reads <= Whole
        /\ pos = ends[reads]
        /\ object = FoldLeft(Overlaid, InitialObject, SubSeq(sent, 1, reads))
    /\ status = "error" => reads > Whole /\ error.code = "truncated"

-----------------------------------------------------------------------------
(* The abstract transfer: codec calls above that of the root object have   *)
(* not happened yet, and a failure has happened once nothing above the     *)
(* root object's call is left to unwind.                                   *)
Outermost == stack[Len(stack) - 1]

Outcome ==
    IF status = "failing" THEN IF Len(stack) <= 2 THEN "error" ELSE "reading"
    ELSE status

Taken ==
    IF Outcome # "reading" THEN 0
    ELSE IF Len(stack) >= 2 THEN Outermost.count - Outermost.left
    ELSE IF Head(stack).left = 0 THEN Len(SentIds) ELSE 0

Held ==
    IF stack = <<>> THEN object
    ELSE IF Len(stack) = 1 THEN Head(stack).val ELSE Outermost.val

Transfer == INSTANCE FieldTransfer WITH
    FieldIdOf <- SentIds, whole <- Whole, read <- reads, taken <- Taken,
    outcome <- Outcome, object <- Held

(* The compact adapter implements the transfer: fields arrive in order and *)
(* entirely, success means all of them, and a torn object damages at most  *)
(* the one field that was being read.                                      *)
ImplementsTransfer == Transfer!Spec

=============================================================================
