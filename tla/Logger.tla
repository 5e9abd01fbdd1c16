-------------------------------- MODULE Logger ------------------------------
(***************************************************************************)
(* contract::logging::logger, src/include/contract/logging: one JSON       *)
(* record per call, followed by a newline, into an output that may fail.   *)
(*                                                                         *)
(* A call to log is the record                                             *)
(*   [level, name, body, context, attributes |-> ...]                      *)
(* where body is Null when no message was given, context is Null without   *)
(* with(context), and context and attribute values come with their shapes. *)
(* Calls on one logger follow each other; nothing in it is synchronised.   *)
(***************************************************************************)
EXTENDS JsonWriter

CONSTANTS
    Calls,       \* the calls the program may make
    MaxCalls,    \* bound: how many it makes
    MaxNesting   \* bound: how deep the values of a call nest

VARIABLES
    handler,     \* whether options::on_error is set
    status,      \* idle, logging
    made,        \* history: the calls, where their text begins, how they ended
    reports      \* history: the calls whose failure the handler was told of

vars == <<writerVars, handler, status, made, reports>>

ASSUME MaxCallsAssumption == MaxCalls \in Nat
ASSUME MaxNestingAssumption == MaxNesting \in Nat

-----------------------------------------------------------------------------
(* event_view and payload_field as the JSON writer sees them.              *)

Severity == <<"trace", "debug", "info", "warning", "error", "critical">>

ToNumber(level) == 1 + 4 * ((CHOOSE i \in DOMAIN Severity : Severity[i] = level) - 1)

EmptyContext == [shape |-> ObjectOf(<<>>), val |-> <<>>]

AttributeShape(shape) == ObjectOf(<<Member("name", String, {}), Member("value", shape, {})>>)

EventShape(context, attributes) ==
    ObjectOf(<< Member("timestamp", String, {}), Member("severity", String, {}),
                Member("severity_number", Uint(65535), {}), Member("name", String, {}),
                Member("body", String, {}), Member("context", context, {}),
                Member("attributes", Tuple(attributes), {}) >>)

Event(call) ==
    LET context == IF call.context = Null THEN EmptyContext ELSE call.context
        args    == call.attributes
    IN  Value(EventShape(context.shape, [i \in DOMAIN args |-> AttributeShape(args[i].shape)]),
              << <<"now">>, <<call.level>>, ToNumber(call.level), call.name,
                 IF call.body = Null THEN <<>> ELSE call.body, context.val,
                 [i \in DOMAIN args |-> <<args[i].name, args[i].val>>] >>)

-----------------------------------------------------------------------------
Ended(outcome) ==
    made' = [made EXCEPT ![Len(made)].outcome = outcome]

(* logger::write_with_context: a new json::writer writes the event.        *)
Log ==
    /\ status = "idle"
    /\ Len(made) < MaxCalls
    /\ \E call \in Calls :
          /\ todo' = <<Event(call), Put(<<"\n">>)>>
          /\ made' = Append(made, [call |-> call, from |-> Len(out), outcome |-> "none"])
    /\ stack' = <<>>
    /\ status' = "logging"
    /\ UNCHANGED <<out, output, bad, opt, thrown, faults, handler, reports>>

(* options::timestamp is called while the event is made up.                *)
TimestampThrows ==
    /\ status = "logging"
    /\ Doing("value") /\ Len(todo) = 2 /\ faults < MaxFaults
    /\ faults' = faults + 1
    /\ thrown' = TRUE
    /\ todo' = <<>>
    /\ UNCHANGED <<out, output, bad, opt, stack, handler, status, made, reports>>

WriteEvent ==
    /\ status = "logging"
    /\ WriterStep
    /\ UNCHANGED <<handler, status, made, reports>>

(* Mutant: the record is ended whether or not its event was written.       *)
ReportErrorEnded ==
    /\ status = "logging" /\ thrown
    /\ thrown' = FALSE
    /\ out' = Append(out, "\n")
    /\ reports' = IF handler THEN Append(reports, Len(made)) ELSE reports
    /\ status' = "idle"
    /\ Ended("thrown")
    /\ UNCHANGED <<output, bad, opt, stack, todo, faults, handler>>

(* logger::report_error                                                    *)
ReportError ==
    /\ status = "logging" /\ thrown
    /\ thrown' = FALSE
    /\ reports' = IF handler THEN Append(reports, Len(made)) ELSE reports
    /\ status' = "idle"
    /\ Ended("thrown")
    /\ UNCHANGED <<out, output, bad, opt, stack, todo, faults, handler>>

Return ==
    /\ status = "logging" /\ ~thrown /\ todo = <<>>
    /\ status' = "idle"
    /\ Ended(IF bad THEN "lost" ELSE "ok")
    /\ UNCHANGED <<writerVars, handler, reports>>

(* The program clears the stream's badbit between two calls.               *)
Clear ==
    /\ status = "idle" /\ bad
    /\ bad' = FALSE
    /\ UNCHANGED <<out, output, opt, stack, todo, thrown, faults, handler, status,
                   made, reports>>

Init ==
    /\ WriterInit
    /\ handler \in BOOLEAN
    /\ status = "idle"
    /\ made = <<>>
    /\ reports = <<>>

Next ==
    Log \/ TimestampThrows \/ WriteEvent \/ ReportError \/ Return \/ Clear

Spec == Init /\ [][Next]_vars

-----------------------------------------------------------------------------
(* What a call may show, as pairs of a shape and a value: of an object the *)
(* members that no attribute of theirs hides, of every other value all of  *)
(* its parts.                                                              *)

Visible(member, modes) == \A m \in member.marks : modes[m] = "ignore"

Inner(node, modes) ==
    LET s == node[1]
        v == node[2]
    IN  CASE s.kind = "object" ->
               {<<s.members[i].shape, v[i]>>
                  : i \in {j \in DOMAIN v : Visible(s.members[j], modes)}}
          [] s.kind \in {"vector", "array"} -> {<<s.elem, v[i]>> : i \in DOMAIN v}
          [] s.kind = "tuple"   -> {<<s.elems[i], v[i]>> : i \in DOMAIN v}
          [] s.kind = "variant" -> {<<s.elems[v[1]], v[2]>>}
          [] s.kind \in MapKind -> {<<s.key, k>> : k \in DOMAIN v}
                                   \cup {<<s.elem, v[k]>> : k \in DOMAIN v}
          [] s.kind = "optional" -> IF v = Null THEN {} ELSE {<<s.elem, v>>}
          [] OTHER -> {}

Root(call) == <<Event(call).shape, Event(call).val>>

(* The values in a call that it may show.                                  *)
Exposed == [call \in Calls |-> [modes \in Modes |->
    LET level[k \in 1 .. MaxNesting] ==
            UNION {Inner(node, modes) : node \in IF k = 1 THEN {Root(call)} ELSE level[k - 1]}
    IN  {Root(call)} \cup UNION {level[k] : k \in 1 .. MaxNesting}]]

(* The integers that a value is spelled with.                              *)
Spelled(node) ==
    LET s == node[1]
        v == node[2]
    IN  CASE s.kind \in {"uint", "int"} -> {v}
          [] s.kind = "bitset"  -> Range(v)
          [] s.kind = "variant" -> {v[1] - 1}
          [] OTHER -> {}

(* The characters and words a value itself puts into the output: an object *)
(* the names of the members that no attribute omits.                       *)
Said(node, modes) ==
    LET s == node[1]
        v == node[2]
    IN  CASE s.kind = "object" ->
               {s.members[i].name
                  : i \in {j \in DOMAIN v : \A m \in s.members[j].marks : modes[m] # "omit"}}
          [] s.kind = "char" -> {v}
          [] s.kind = "string" -> Range(v)
          [] s.kind = "cstring" -> IF v = Null THEN {} ELSE Range(v)
          [] OTHER -> {ToString(n) : n \in Spelled(node)}

(* What JSON itself is written with.                                       *)
Syntax ==
    {"{", "}", "[", "]", ":", ",", "\"", "null", "true", "false", "<redacted>", "\n",
     "\\", "n", "r", "t", "u0000", "u007f"}

(* A value is what its shape says.                                         *)
Listed(v) == Len(v) \in Nat /\ v = [i \in 1 .. Len(v) |-> v[i]]

Typed(node) ==
    LET s == node[1]
        v == node[2]
    IN  CASE s.kind = "object" -> /\ Listed(v) /\ DOMAIN v = DOMAIN s.members
                                  /\ \A i \in DOMAIN v : s.members[i].marks \subseteq Marks
          [] s.kind \in {"string", "bitset", "vector", "array", "tuple"} -> Listed(v)
          [] s.kind = "cstring" -> v = Null \/ Listed(v)
          [] s.kind \in MapKind -> IsFiniteSet(DOMAIN v)
          [] OTHER -> s.kind \in {"uint", "int", "bool", "char", "optional", "variant"}

(* The values of a call are what their shapes say, nest no deeper than the *)
(* bound, and no integer is spelled with a newline.                        *)
ASSUME CallsAssumption ==
    \A call \in Calls, modes \in Modes : \A node \in Exposed[call][modes] :
        /\ Typed(node)
        /\ Inner(node, modes) \subseteq Exposed[call][modes]
        /\ \A n \in Spelled(node) : ToString(n) # "\n"

-----------------------------------------------------------------------------
(* All that a call may put into the output.                                *)
Words == [call \in Calls |-> [modes \in Modes |->
    UNION {Said(node, modes) : node \in Exposed[call][modes]}]]

(* A value under an attribute that the options omit or redact is never in  *)
(* the output, nor the name of a member that they omit: not deep in        *)
(* attributes and contexts, and not in what a failed call left behind.     *)
HiddenStaysHidden ==
    Range(out) \subseteq Syntax \cup UNION {Words[made[i].call][opt] : i \in DOMAIN made}

(* The output has as many newlines as calls have ended well, whatever text *)
(* they wrote, and a failure that was thrown is reported once.             *)
LinesDelimited ==
    status = "idle" =>
        /\ Cardinality({i \in DOMAIN out : out[i] = "\n"})
             = Cardinality({i \in DOMAIN made : made[i].outcome = "ok"})
        /\ Range(reports) = {i \in DOMAIN made : handler /\ made[i].outcome = "thrown"}
        /\ IsInjective(reports)

=============================================================================
