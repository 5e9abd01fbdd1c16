----------------------------- MODULE Diagnostic -----------------------------
(***************************************************************************)
(* The shared adapter diagnostic, adapter_error_base in                    *)
(* src/include/contract/detail/error.hpp.                                  *)
(*                                                                         *)
(* A diagnostic is created at the first failure and then annotated by each *)
(* enclosing layer while the failed status unwinds.  Every part but the    *)
(* code is first-wins: an outer layer only adds what no inner layer knew.  *)
(* The code is last-wins.  `field' is the number of the field and `name'   *)
(* stands for its name and kind, by that number: a descriptor may have the *)
(* one and not the other.  Text, source location and the expected/actual   *)
(* sizes are left out; no property is about them.                          *)
(***************************************************************************)
EXTENDS Integers

CONSTANT Absent   \* a part the diagnostic was never told

ASSUME AbsentAssumption == Absent \notin Int

NoError == [code |-> "none", stage |-> Absent, type |-> Absent,
            field |-> Absent, name |-> Absent, index |-> Absent,
            offset |-> Absent]

(* reader::error() / writer::error(): emplace with the current position,   *)
(* unless a diagnostic is already there.                                   *)
Emplaced(e, position) ==
    IF e = NoError THEN [e EXCEPT !.code = "unknown", !.offset = position]
                   ELSE e

WithCode(e, code) == [e EXCEPT !.code = code]

FirstWins(e, part, value) ==
    IF e[part] = Absent THEN [e EXCEPT ![part] = value] ELSE e

WithStage(e, stage)  == FirstWins(e, "stage", stage)
WithType(e, type)    == FirstWins(e, "type", type)
WithField(e, id)     == FirstWins(e, "field", id)
WithName(e, id)      == FirstWins(e, "name", id)
WithIndex(e, index)  == FirstWins(e, "index", index)

(* transfer_from a nested reader, and position_correction: its offset      *)
(* counts from the start of its window, `base' bytes into the outer one.   *)
Transferred(e, base) == [e EXCEPT !.offset = @ + base]

=============================================================================
