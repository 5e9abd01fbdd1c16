----------------------------- MODULE RecordMerge -----------------------------
(***************************************************************************)
(* What the protobuf adapter promises to the two programs it connects,     *)
(* without bytes, codecs or calls.                                         *)
(*                                                                         *)
(* What was written is a sequence of records, each of them for one field;  *)
(* where one message ends and the next begins is not in it.  The first     *)
(* `arrived' records arrive entirely, and part of the next one may.  The   *)
(* receiver lets one record after the other take effect on the object it   *)
(* holds.  It reports success when it has taken all that arrived, also if  *)
(* more was sent, and failure only if a record was torn; that record       *)
(* damages at most its own field.                                          *)
(***************************************************************************)
EXTENDS Integers, Sequences

CONSTANTS
    InitialObject,     \* what the receiver holds before
    Effect(_, _),      \* Effect(object, record): the object after the record
    FieldOf(_)         \* the id of the field a record is for

VARIABLES
    records,    \* the records sent
    arrived,    \* how many of them arrived entirely
    torn,       \* whether the next one arrived in part
    taken,      \* how many have taken effect
    outcome,    \* idle, reading, ok, error
    object      \* what the receiver holds

vars == <<records, arrived, torn, taken, outcome, object>>

Init ==
    /\ records = <<>>
    /\ arrived = 0
    /\ torn = FALSE
    /\ taken = 0
    /\ outcome = "idle"
    /\ object = InitialObject

Arrive ==
    /\ outcome = "idle" /\ records = <<>>
    /\ arrived' \in 0 .. Len(records')
    /\ torn' \in BOOLEAN /\ (torn' => arrived' < Len(records'))
    /\ UNCHANGED <<taken, outcome, object>>

Begin ==
    /\ outcome \in {"idle", "ok"}
    /\ outcome' = "reading"
    /\ UNCHANGED <<records, arrived, torn, taken, object>>

Take ==
    /\ outcome = "reading"
    /\ taken < arrived
    /\ taken' = taken + 1
    /\ object' = Effect(object, records[taken'])
    /\ UNCHANGED <<records, arrived, torn, outcome>>

Finish ==
    /\ outcome = "reading"
    /\ taken = arrived /\ ~torn
    /\ outcome' = "ok"
    /\ UNCHANGED <<records, arrived, torn, taken, object>>

Tear ==
    /\ outcome = "reading"
    /\ taken = arrived /\ torn
    /\ outcome' = "error"
    /\ DOMAIN object' = DOMAIN object
    /\ \A id \in DOMAIN object \ {FieldOf(records[taken + 1])} : object'[id] = object[id]
    /\ UNCHANGED <<records, arrived, torn, taken>>

Next == Arrive \/ Begin \/ Take \/ Finish \/ Tear

Spec == Init /\ [][Next]_vars

=============================================================================
