---------------------------- MODULE FieldTransfer ----------------------------
(***************************************************************************)
(* What a CONTRACT wire adapter promises to the two programs it connects,  *)
(* without bytes, codecs or calls.                                         *)
(*                                                                         *)
(* Objects are sent one after the other.  Of what was sent only the first  *)
(* `whole' objects arrive entirely; the next one may arrive in part.  The  *)
(* receiver takes the fields of an object in the order they were declared, *)
(* each of them entirely, into the object it already holds.  It reports    *)
(* success only when it has all of them, and failure only for an object    *)
(* that did not arrive; then at most the one field that was under way when *)
(* the bytes ended is neither the old nor the new value.                   *)
(***************************************************************************)
EXTENDS Integers, Sequences

CONSTANTS
    FieldIdOf,         \* the ids of the fields that are sent, in order
    InitialObject,     \* what the receiver holds before
    Stored(_, _, _)    \* Stored(object, sent, id): after taking that field

VARIABLES
    sent,      \* the objects sent
    whole,     \* how many of them arrived entirely
    read,      \* the number of the object being received
    taken,     \* how many of its fields have been taken
    outcome,   \* idle, reading, ok, error
    object     \* what the receiver holds

vars == <<sent, whole, read, taken, outcome, object>>

Init ==
    /\ sent = <<>>
    /\ whole = 0
    /\ read = 0
    /\ taken = 0
    /\ outcome = "idle"
    /\ object = InitialObject

(* Nothing has been received yet.                                          *)
Send ==
    /\ outcome = "idle" /\ whole = 0
    /\ Len(sent') = Len(sent) + 1
    /\ SubSeq(sent', 1, Len(sent)) = sent
    /\ UNCHANGED <<whole, read, taken, outcome, object>>

Arrive ==
    /\ outcome = "idle" /\ whole = 0
    /\ whole' \in 0 .. Len(sent)
    /\ UNCHANGED <<sent, read, taken, outcome, object>>

Begin ==
    /\ outcome \in {"idle", "ok"}
    /\ read' = read + 1
    /\ taken' = 0
    /\ outcome' = "reading"
    /\ UNCHANGED <<sent, whole, object>>

Take ==
    /\ outcome = "reading"
    /\ read \in DOMAIN sent
    /\ taken < Len(FieldIdOf)
    /\ taken' = taken + 1
    /\ object' = Stored(object, sent[read], FieldIdOf[taken + 1])
    /\ UNCHANGED <<sent, whole, read, outcome>>

Finish ==
    /\ outcome = "reading"
    /\ read <= whole
    /\ taken = Len(FieldIdOf)
    /\ taken' = 0
    /\ outcome' = "ok"
    /\ UNCHANGED <<sent, whole, read, object>>

UnderWay == {FieldIdOf[i] : i \in {taken + 1} \cap DOMAIN FieldIdOf}

Tear ==
    /\ outcome = "reading"
    /\ read > whole
    /\ taken' = 0
    /\ outcome' = "error"
    /\ DOMAIN object' = DOMAIN object
    /\ \A id \in DOMAIN object \ UnderWay : object'[id] = object[id]
    /\ UNCHANGED <<sent, whole, read>>

Next == Send \/ Arrive \/ Begin \/ Take \/ Finish \/ Tear

Spec == Init /\ [][Next]_vars

=============================================================================
