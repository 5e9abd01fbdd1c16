--------------------------- MODULE MCCompactStream --------------------------
(***************************************************************************)
(* CompactStream on pairs of orders, cut off by the output at a few sizes  *)
(* and by the transport at every byte.  The reading program was built from *)
(* another version of the contract, whose types have lost and gained       *)
(* fields.                                                                 *)
(***************************************************************************)
EXTENDS CompactStream, OrderSchema

SentFields ==
    [OrderFields EXCEPT !.Order = Append(@,
        Descriptor(12, Tuple(<<Object("Customer"), Array(Raw(1), 2), Map(Octet, String),
                               Optional(Octet), Float>>), TRUE, NoLimit))]

(* Dropped: a tuple that holds a value of nearly every kind; of a customer *)
(* a bool and a float, of a point an array, of a stamp a limit.        *)
(* Gained: a field each.                                                   *)
EvolvedFields ==
    LET order == OrderFields.Order
    IN  [OrderFields EXCEPT
            !.Order = << Descriptor(21, Octet, TRUE, NoLimit),
                         Descriptor(1, Octet, FALSE, NoLimit) >>
                      \o SubSeq(order, 7, 11) \o SubSeq(order, 2, 6),
            !.Customer = << Descriptor(5, Octet, TRUE, NoLimit),
                            Descriptor(1, Sint(-128, 127), FALSE, NoLimit),
                            Descriptor(4, Vector(String), FALSE, 1) >>,
            !.Point = << Descriptor(1, Octet, TRUE, NoLimit),
                         Descriptor(3, Octet, TRUE, NoLimit) >>,
            !.Stamp = << Descriptor(2, Array(Raw(1), 2), TRUE, NoLimit) >>]

EvolvedShapes == OrderShapes(EvolvedFields)

-----------------------------------------------------------------------------
(* Orders: integers and sizes on both sides of where their encoding grows, *)
(* containers at their limit, a string longer than its field may be, and   *)
(* one longer than the scratch buffer it is skipped through.               *)

Plain == <<-16, TRUE, <<0, 0, 128, 63>>, <<>>>>
Named == <<-17, FALSE, <<1, 2, 3, 4>>, << <<65>> >> >>

Zeros(n) == [i \in 1 .. n |-> 0]
NoKeys   == [k \in {} |-> Plain]
PointOf(n, b) == <<n, <<b, ~b>> >>

Small ==
    << 63, Plain, <<>>, <<>>, NoKeys, Null,
       << << <<0>>, <<0>>, <<0>> >>, Zeros(10), Null>>, <<1, 64>>,
       <<PointOf(0, TRUE), PointOf(5, FALSE)>>, NoKeys, << <<0>>, <<0>> >>,
       <<Plain, << <<0>>, <<3>> >>, NoKeys, Null, Zeros(4)>> >>

Large ==
    << 64, Named, [i \in 1 .. 15 |-> i], <<7, 255>>, [k \in {2, 90} |-> Plain], Named,
       << << <<0>>, <<6>>, <<0>> >>, [Zeros(10) EXCEPT ![1] = 1, ![10] = 1], 200>>,
       <<2, <<66>> >>, <<PointOf(255, FALSE), PointOf(1, TRUE)>>,
       [k \in {1, 2} |-> [Zeros(4) EXCEPT ![k] = 1]], << <<9>>, <<0>> >>,
       <<Named, << <<4>>, <<0>> >>, [k \in {70} |-> Zeros(65)], 7, <<9, 9, 9, 9>> >> >>

ManyItems  == [Small EXCEPT ![4] = <<1, 2, 3>>]
ManyKeys   == [Small EXCEPT ![5] = [k \in {1, 2, 3} |-> Plain]]
WideStamp  == [Small EXCEPT ![8] = <<3, [id \in {2} |-> << <<1>>, <<1>> >>]>>]

MCWFields == SentFields
MCRFields == EvolvedFields

MCObjects == {Small, Large, ManyItems, ManyKeys, WideStamp}

(* The reader's object holds values that no object sent has.               *)
MCInitialObject ==
    [Default(RFields, RShapes, Object("Order"), Null) EXCEPT
        ![1] = 9, ![21] = 8, ![4] = <<3>>, ![3] = <<88>>, ![2][5] = 4,
        ![7] = << << <<8>>, <<8>>, <<8>> >>, [i \in 1 .. 10 |-> 1], 8>>,
        ![9][2][3] = 6, ![10] = [k \in {8} |-> Zeros(4)]]

-----------------------------------------------------------------------------
(* The reader's object of a type with the fields of the one sent over it,  *)
(* and the reader's order after taking one field of the order sent.        *)
Over(old, new) ==
    [id \in DOMAIN old |-> IF id \in DOMAIN new THEN new[id] ELSE old[id]]

FreshCustomer(c) == Over(Default(RFields, RShapes, Object("Customer"), Null), c)

MCStored(o, sentObject, id) ==
    LET v == sentObject[id]
    IN  IF id \notin DOMAIN o THEN o
        ELSE [o EXCEPT ![id] =
               CASE id = 2 -> Over(@, v)
                 [] id = 5 -> [k \in DOMAIN v |-> FreshCustomer(v[k])]
                 [] id = 6 -> IF v = Null THEN Null ELSE FreshCustomer(v)
                 [] id = 9 -> [i \in DOMAIN v |-> Over(@[i], v[i])]
                 [] OTHER  -> v]

-----------------------------------------------------------------------------
(* The encodings the format allows for an order: the unordered map in any  *)
(* order.                                                                  *)
ExtraBytes(t) ==
    <<12, 133>> \o CustomerBytes(t[1]) \o BlobBytes(Trimmed(t[2]))
    \o MapBytes(Numbers(DOMAIN t[3]), [k \in DOMAIN t[3] |-> StringBytes(t[3][k])])
    \o OptionalBytes(t[4], WriteUint(t[4]), Null) \o <<196>> \o t[5]

Encodings(o) ==
    {OrderBytes(o, keys, Null) \o ExtraBytes(o[12]) : keys \in SetToSeqs(DOMAIN o[10])}

(* At every moment what the current write has committed is a prefix of an  *)
(* encoding the format prescribes for its object, also when it failed half *)
(* way, and all of it once operator<< has returned.                        *)
CommittedIsPrefix ==
    LET part == SubSeq(out, start + 1, Len(out))
    IN  ~received =>
          /\ writes > 0 /\ wobject # WideStamp =>
                \E whole \in Encodings(wobject) : IsPrefix(part, whole)
          /\ wstatus = "ok" => part \in Encodings(wobject)

(* A write fails only for a reason and says which: an array or container   *)
(* over a max_items, nested in whatever, or an encoding that does not fit  *)
(* into what was left of the window; and it never succeeds when it should  *)
(* have failed.  The diagnostic has a stage and a type, and the offset is  *)
(* where the output ends.                                                  *)
TooMany == wobject \in {ManyItems, ManyKeys, WideStamp}

Size(o) == Len(CHOOSE whole \in Encodings(o) : TRUE)

FailsForAReason ==
    LET fits == start + Size(wobject) <= wcapacity
    IN  ~received =>
          /\ wstatus = "ok" => ~TooMany /\ fits
          /\ wstatus = "error" =>
                /\ \/ werror.code = "max_items_exceeded" /\ TooMany
                   \/ werror.code = "output_error" /\ (TooMany \/ ~fits)
                /\ werror.stage # Absent
                /\ werror.type \in DOMAIN WFields
                /\ werror.offset = Len(out)

=============================================================================
