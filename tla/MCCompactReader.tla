--------------------------- MODULE MCCompactReader --------------------------
(***************************************************************************)
(* CompactReader on every short byte sequence over an alphabet that holds  *)
(* a header of each class, valid or not, behind prefixes that lead into    *)
(* each kind of value: whatever the bytes, the reader stays inside its     *)
(* window, stays typed, and answers.                                       *)
(***************************************************************************)
EXTENDS CompactReader, OrderSchema

CONSTANTS Alphabet, MaxLength, Core, MaxCoreLength

(* An object of two fields; its string; its customer, and its integer; its *)
(* map; its vector; its tuple, at the first item and the last; its         *)
(* variant; its spans, at the second item and behind the size; its         *)
(* unordered map; a field it must skip.                                    *)
Openings ==
    { <<162>>, <<161, 3>>, <<162, 2, 162>>, <<161, 2, 161, 1>>, <<161, 5, 146>>,
      <<162, 4, 130>>, <<161, 7, 131>>, <<162, 7, 131, 97, 6, 98, 7, 2>>, <<162, 8, 130>>,
      <<161, 9, 130, 161, 2, 130, 177, 176, 161>>, <<161, 11, 98>>,
      <<161, 10, 146, 4, 97>>, <<162, 12>> }

Words(letters, max) == UNION {[1 .. n -> letters] : n \in 0 .. max}

MCInputs ==
    {prefix \o tail : prefix \in Openings,
                      tail \in Words(Alphabet, MaxLength) \cup Words(Core, MaxCoreLength)}

MCFields == OrderFields
MCShapes == OrderShapes(OrderFields)

(* An object that already holds values, to see what a read leaves of them. *)
MCInitialObject ==
    [Default(OrderFields, MCShapes, Object("Order"), Null) EXCEPT
        ![1] = 7, ![2][1] = -3, ![3] = <<9>>, ![4] = <<5>>,
        ![7] = << << <<7>>, <<8>>, <<9>> >>, [i \in 1 .. 10 |-> 1], 3>>,
        ![8] = <<2, <<65>> >>, ![9][2][1] = 6]

=============================================================================
