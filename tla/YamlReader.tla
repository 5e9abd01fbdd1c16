----------------------------- MODULE YamlReader -----------------------------
(***************************************************************************)
(* The YAML reader and its codecs: src/include/contract/adapters/yaml.hpp. *)
(*                                                                         *)
(* A document is a sequence of lines, each the number of its leading       *)
(* spaces and the text behind them.  What the reader shares between the    *)
(* codec calls in progress is its scanner, which may hold a line that was  *)
(* looked at and not consumed, and `current', the value of the mapping     *)
(* entry or sequence item it is at: codecs that are called for an entry    *)
(* find its text there, and the indentation of its block.                  *)
(*                                                                         *)
(* `stack' is the call stack of the codecs, innermost first; `scope' is    *)
(* what value_scope restores when the call is over.  The `offset' of a     *)
(* diagnostic is the number of a line.                                     *)
(***************************************************************************)
EXTENDS YamlText, Diagnostic

CONSTANTS
    Fields,          \* the field tables
    Names,           \* for each type, the name of each of its fields
    Shapes,          \* the value types of the program
    Inputs,          \* for each root type, the documents
    InitialObject,   \* for each root type, what is read into
    Options,         \* the settings of yaml::options
    MaxReads         \* bound: how often one reader is used

VARIABLES
    opt,       \* its options
    root,      \* the type of what is read
    input,     \* the lines
    scanner,   \* next: lines read; cached: the line looked at; last: consumed
    current,   \* current_value_
    stack,     \* the codec calls in progress, innermost first
    status,    \* idle, reading, failing (unwinding), ok, error
    error,     \* the reader's diagnostic
    object,    \* the user's object
    reads,     \* how often operator>> was called
    start      \* where the last read began (history)

setup == <<opt, root, input>>
vars == <<setup, scanner, current, stack, status, error, object, reads, start>>

Roots == DOMAIN Inputs

ASSUME MaxReadsAssumption == MaxReads \in Nat
ASSUME FieldsAssumption == ValidFieldIds(Fields)
ASSUME ShapesAssumption == Roots \subseteq Shapes /\ ValidShapes(Shapes, Fields)

Unread == -1    \* no line was looked at
None == 0     \* a line was looked for and there was none

Nowhere == [active |-> FALSE, indent |-> 0, line |-> 1, text |-> <<>>]
ValueAt(indent, line, text) ==
    [active |-> TRUE, indent |-> indent, line |-> line, text |-> text]

Frame(op, shape, indent, val, scope) ==
    [op |-> op, shape |-> shape, indent |-> indent, val |-> val, scope |-> scope,
     at |-> 0, todo |-> op \in {"root", "optional"}, seen |-> {}, closed |-> FALSE]

(* value_type{}, T{}: a value a codec was not given.                       *)
Fresh == [shape \in Shapes |-> Default(Fields, Shapes, shape, Null)]

-----------------------------------------------------------------------------
(* The scanner.                                                            *)

Tabbed(n) == input[n].text # <<>> /\ Head(input[n].text) = "\t"
Text(n) == Normalized(input[n].text)

(* The first line behind the first n that has something on it.             *)
NextOf(n, lines) == Min({k \in lines : k > n} \cup {Len(input) + 1})
Inked == {n \in DOMAIN input : Tabbed(n) \/ Text(n) # <<>>}
Contents == {n \in Inked : ~Tabbed(n)}

LineNo(sc) == IF sc.last # None THEN sc.last ELSE Max({1, sc.next})

Diagnosed(code, stage, line) == WithStage(WithCode(Emplaced(NoError, line), code), stage)

(* peek_line.  A tab is a failure, and its diagnostic asks error() for the *)
(* line: that of the current value, else of the next line, for which the   *)
(* scanner is asked while it is still at the tab.  The line it then finds  *)
(* is lost, and every later look finds nothing.                            *)
Peek(sc, value) ==
    LET n     == NextOf(sc.next, Inked)
        m     == NextOf(n, Contents)
        found == [sc EXCEPT !.next = n, !.cached = n]
        lost  == [sc EXCEPT !.cached = None,
                            !.next = IF value.active THEN n ELSE Min({m, Len(input)})]
        line  == CASE value.active -> value.line
                   [] ~value.active /\ m \in DOMAIN input /\ m = NextOf(n, Inked) -> m
                   [] OTHER -> LineNo(lost)
    IN  IF sc.cached # Unread THEN [scanner |-> sc, error |-> NoError]
        ELSE IF n \notin DOMAIN input
        THEN [scanner |-> [sc EXCEPT !.next = Len(input), !.cached = None], error |-> NoError]
        ELSE IF Tabbed(n)
        THEN [scanner |-> lost, error |-> Diagnosed("tabs_not_supported", "scanner", line)]
        ELSE [scanner |-> found, error |-> NoError]

(* consume_line                                                            *)
Consumed(sc) == [sc EXCEPT !.last = sc.cached, !.cached = Unread]

(* error(): a diagnostic of the line of the current value, else of the next*)
(* line, else of the last.                                                 *)
Raised(code, stage, sc, value) ==
    LET line(s) == IF value.active THEN value.line
                   ELSE IF s.cached # None THEN s.cached ELSE LineNo(s)
        raised(s) == [scanner |-> s, error |-> Diagnosed(code, stage, line(s))]
    IN  IF value.active THEN raised(sc) ELSE raised(Peek(sc, value).scanner)

-----------------------------------------------------------------------------
FieldOf(f) == DispatchFieldById(Fields, f.shape.type, f.at)

(* The value a frame is waiting for.                                       *)
Awaited(f) ==
    CASE f.op = "root"   -> f.shape
      [] f.op = "object" -> FieldOf(f).shape
      [] f.op = "tuple"  -> f.shape.elems[f.at]
      [] OTHER           -> f.shape.elem

Waiting == status = "reading" /\ Head(stack).todo

IsBlock(shape) == shape.kind \in {"object", "vector", "array", "tuple"}

(* Mutant: a field behind set() is read in place.                          *)
LiveAlways(f) == f.op # "vector"

(* Whether the awaited value is read into live storage.                    *)
Live(f) == f.op # "vector" /\ (f.op = "object" => FieldOf(f).direct)

Storage(f) ==
    IF ~Live(f) THEN Fresh[Awaited(f)]
    ELSE IF f.op \in {"root", "optional"} THEN f.val ELSE f.val[f.at]

With(f, v) ==
    CASE f.op \in {"root", "optional"} -> [f EXCEPT !.val = v]
      [] f.op = "vector"               -> [f EXCEPT !.val = Append(@, v)]
      [] OTHER                         -> [f EXCEPT !.val[f.at] = v]

(* A successful codec's value goes where the frame wants it; a failed one  *)
(* leaves `v' where it was reading into.                                   *)
Delivered(f, v) == [With(f, v) EXCEPT !.todo = FALSE]
Spilled(f, v) == IF Live(f) THEN With(f, v) ELSE f

(* What read_current_value saves for a codec it calls.                     *)
Scope(f) == IF f.op \in {"root", "optional"} THEN Null ELSE current

(* Mutant: nothing is restored.                                            *)
RestoredNever(f) == current

Restored(f) == IF f.scope = Null THEN current ELSE f.scope

-----------------------------------------------------------------------------
(* Outcomes shared by the codecs.                                          *)

Replaced(f) == stack' = <<f>> \o Tail(stack)

Failing(result) ==
    /\ status' = "failing"
    /\ scanner' = result.scanner
    /\ error' = result.error

Fail(code, stage, sc, value) ==
    \E result \in {Raised(code, stage, sc, value)} : Failing(result)

Store(v, sc) ==
    /\ Replaced(Delivered(Head(stack), v))
    /\ scanner' = sc
    /\ UNCHANGED <<status, error>>

Call(frame, sc) ==
    /\ stack' = <<frame>> \o stack
    /\ scanner' = sc
    /\ UNCHANGED <<status, error>>

-----------------------------------------------------------------------------
(* operator>>: the value an earlier read was at is still the current one.  *)
BeginRead ==
    /\ status \in {"idle", "ok", "error"}
    /\ reads < MaxReads
    /\ reads' = reads + 1
    /\ start' = [scanner |-> scanner, current |-> current]
    /\ stack' = <<Frame("root", root, 0, object, Null)>>
    /\ status' = "reading"
    /\ error' = NoError
    /\ UNCHANGED <<setup, scanner, current, object>>

(* The codec of a scalar, once it has its token.                           *)
Parse(token, sc) ==
    LET f == Head(stack)
        r == ParseScalar(Awaited(f), token, Storage(f))
    IN  IF r.ok THEN Store(r.value, sc)
        ELSE /\ Fail(ScalarCode[Awaited(f).kind], "scalar", sc, current)
             /\ Replaced(Spilled(f, r.value))

IsScalar(shape) == shape.kind \in DOMAIN ScalarCode

(* read_scalar_token: a value of an entry or an item.                      *)
ReadInlineScalar ==
    /\ Waiting
    /\ IsScalar(Awaited(Head(stack)))
    /\ current.active
    /\ Parse(current.text, scanner)
    /\ UNCHANGED <<setup, current, object, reads, start>>

(* Why the line looked at is not a document that is one scalar.            *)
LineRefusal(sc) ==
    IF sc.cached = None THEN "expected_scalar_value"
    ELSE LET text == Text(sc.cached)
         IN  IF input[sc.cached].indent # 0 THEN "unexpected_indentation"
             ELSE IF Head(text) = "-" \/ (~IsQuoted(text) /\ Contains(text, ":"))
             THEN "expected_scalar_value" ELSE "none"

(* A document that is one scalar.                                          *)
ReadScalarLine ==
    /\ Waiting
    /\ IsScalar(Awaited(Head(stack)))
    /\ ~current.active
    /\ \E p \in {Peek(scanner, current)} :
           IF p.error # NoError THEN Failing(p) /\ UNCHANGED stack
           ELSE LET refusal == LineRefusal(p.scanner)
                IN  IF refusal # "none"
                    THEN Fail(refusal, "root", p.scanner, current) /\ UNCHANGED stack
                    ELSE Parse(Text(p.scanner.cached), Consumed(p.scanner))
    /\ UNCHANGED <<setup, current, object, reads, start>>

(* The indentation of the block of the current value, and whether the next *)
(* line belongs to it.                                                     *)
ChildIndent == IF current.active THEN current.indent + 2 ELSE 0
HasChild(sc) == sc.cached # None /\ input[sc.cached].indent >= ChildIndent

(* A look at the next line, if there is need of one.                       *)
PeekIf(needed) ==
    IF needed THEN Peek(scanner, current) ELSE [scanner |-> scanner, error |-> NoError]

(* begin_block.  A vector is cleared when its block begins.                *)
OpenBlock ==
    /\ Waiting
    /\ IsBlock(Awaited(Head(stack)))
    /\ \E f \in {Head(stack)}, p \in {PeekIf(current.active)} :
       LET shape  == Awaited(f)
           stage  == IF shape.kind = "object" THEN "mapping" ELSE "sequence"
       IN  IF current.active /\ current.text # <<>>
           THEN Fail("expected_nested_" \o stage, stage, scanner, current) /\ UNCHANGED stack
           ELSE IF p.error # NoError THEN Failing(p) /\ UNCHANGED stack
           ELSE IF current.active /\ ~HasChild(p.scanner)
           THEN Fail("missing_nested_" \o stage, stage, p.scanner, current) /\ UNCHANGED stack
           ELSE Call(Frame(shape.kind, shape, ChildIndent,
                           IF shape.kind = "vector" THEN <<>> ELSE Storage(f), Scope(f)),
                     p.scanner)
    /\ UNCHANGED <<setup, current, object, reads, start>>

IsNull(text) == text \in {<<"null">>, <<"~">>}

(* peek_optional_state, for the value of an entry or an item.              *)
ReadInlineOptional ==
    /\ Waiting
    /\ Awaited(Head(stack)).kind = "optional"
    /\ current.active
    /\ \E f \in {Head(stack)}, p \in {PeekIf(current.text = <<>>)} :
       LET elem  == Awaited(f).elem
           block == current.text = <<>> /\ HasChild(p.scanner)
       IN  IF IsNull(current.text) THEN Store(Null, scanner)
           ELSE IF p.error # NoError THEN Failing(p) /\ UNCHANGED stack
           ELSE IF current.text = <<>> /\ ~block THEN Store(Null, p.scanner)
           ELSE IF block /\ ~IsBlock(elem)
           THEN Fail("unexpected_nested_block", "optional", p.scanner, current) /\ UNCHANGED stack
           ELSE Call(Frame("optional", Awaited(f), 0, Fresh[elem], Scope(f)), p.scanner)
    /\ UNCHANGED <<setup, current, object, reads, start>>

(* peek_optional_state, for a document.                                    *)
ReadOptionalLine ==
    /\ Waiting
    /\ Awaited(Head(stack)).kind = "optional"
    /\ ~current.active
    /\ \E f \in {Head(stack)}, p \in {Peek(scanner, current)} :
       LET n == p.scanner.cached
       IN  IF p.error # NoError THEN Failing(p) /\ UNCHANGED stack
           ELSE IF n = None THEN Store(Null, p.scanner)
           ELSE IF input[n].indent = 0 /\ IsNull(Text(n)) THEN Store(Null, Consumed(p.scanner))
           ELSE Call(Frame("optional", Awaited(f), 0, Fresh[Awaited(f).elem], Null), p.scanner)
    /\ UNCHANGED <<setup, current, object, reads, start>>

-----------------------------------------------------------------------------
(* The loops over the entries of a mapping and the items of a sequence.    *)

(* The line that is next, as it stands to the block of f.                  *)
Standing(f, sc, mark) ==
    LET n == sc.cached
    IN  IF n = None \/ input[n].indent < f.indent THEN "outside"
        ELSE IF input[n].indent > f.indent THEN "deeper"
        ELSE IF (Head(Text(n)) = "-") = mark THEN "inside" ELSE "outside"

Looping(ops) ==
    status = "reading" /\ Head(stack).op \in ops /\ ~Head(stack).todo /\ ~Head(stack).closed

KeyOf(text) == Trim(SubSeq(text, 1, SelectInSeq(text, LAMBDA ch : ch = ":") - 1))
ValueOf(text) == Trim(SubSeq(text, SelectInSeq(text, LAMBDA ch : ch = ":") + 1, Len(text)))

(* dispatch_field_by_name                                                  *)
Matching(type, key) == {id \in FieldIds(Fields, type) : Names[type][id] = key}

Close(sc) ==
    /\ Replaced([Head(stack) EXCEPT !.closed = TRUE])
    /\ scanner' = sc
    /\ UNCHANGED <<status, error, current>>

(* What both loops do about the next line unless it is theirs.             *)
LeaveLoop(p, mark, stage) ==
    LET standing == Standing(Head(stack), p.scanner, mark)
    IN  \/ p.error # NoError /\ Failing(p) /\ UNCHANGED <<stack, current>>
        \/ p.error = NoError /\ standing = "outside" /\ Close(p.scanner)
        \/ /\ p.error = NoError /\ standing = "deeper"
           /\ Fail("unexpected_indentation", stage, p.scanner, current)
           /\ UNCHANGED <<stack, current>>

(* read_matched_field, or what an unknown key is: a failure, or nothing.   *)
TakeEntry(f, key, sc, value) ==
    LET ids == Matching(f.shape.type, key)
        id  == CHOOSE i \in ids : TRUE
    IN  IF ids = {} /\ opt.fail_on_unknown_keys
        THEN Fail("unknown_key", "field", sc, value) /\ UNCHANGED stack
        ELSE IF ids # {} /\ id \in f.seen /\ opt.fail_on_duplicate_keys
        THEN Fail("duplicate_key", "field", sc, value) /\ UNCHANGED stack
        ELSE /\ Replaced(IF ids = {} THEN f
                         ELSE [f EXCEPT !.at = id, !.todo = TRUE, !.seen = @ \cup {id}])
             /\ scanner' = sc
             /\ UNCHANGED <<status, error>>

(* read_mapping_entry                                                      *)
ReadEntry ==
    /\ Looping({"object"})
    /\ \E f \in {Head(stack)}, p \in {Peek(scanner, current)} :
       LET n    == p.scanner.cached
           mine == p.error = NoError /\ Standing(f, p.scanner, FALSE) = "inside"
       IN  \/ LeaveLoop(p, FALSE, "mapping")
           \/ /\ mine /\ ~Contains(Text(n), ":")
              /\ Fail("expected_colon", "mapping", p.scanner, current)
              /\ UNCHANGED <<stack, current>>
           \/ /\ mine /\ Contains(Text(n), ":")
              /\ current' = ValueAt(f.indent, n, ValueOf(Text(n)))
              /\ TakeEntry(f, KeyOf(Text(n)), Consumed(p.scanner), current')
    /\ UNCHANGED <<setup, object, reads, start>>

Size(shape) == IF shape.kind = "tuple" THEN Len(shape.elems) ELSE shape.size

(* read_sequence_item                                                      *)
ReadItem ==
    /\ Looping({"vector", "array", "tuple"})
    /\ \E f \in {Head(stack)}, p \in {Peek(scanner, current)} :
       LET n    == p.scanner.cached
           mine == p.error = NoError /\ Standing(f, p.scanner, TRUE) = "inside"
       IN  \/ LeaveLoop(p, TRUE, "sequence")
           \/ /\ mine
              /\ current' = ValueAt(f.indent, n, Trim(Tail(Text(n))))
              /\ IF f.op # "vector" /\ f.at = Size(f.shape)
                 THEN /\ Fail("too_many_sequence_items", "sequence", Consumed(p.scanner), current')
                      /\ UNCHANGED stack
                 ELSE /\ Replaced([f EXCEPT !.at = @ + 1, !.todo = TRUE])
                      /\ scanner' = Consumed(p.scanner)
                      /\ UNCHANGED <<status, error>>
    /\ UNCHANGED <<setup, object, reads, start>>

-----------------------------------------------------------------------------
(* The innermost call returns.                                             *)

Caller == Head(Tail(stack))

(* check_missing_fields: in order of declaration, an optional that did not *)
(* come up is reset, anything else is a failure.                           *)
Missing(f) ==
    {i \in DOMAIN Fields[f.shape.type] : Fields[f.shape.type][i].id \notin f.seen}
Required(f) ==
    {i \in Missing(f) : Fields[f.shape.type][i].shape.kind # "optional"}
Reset(f) ==
    LET stop == Min(Required(f) \cup {Len(Fields[f.shape.type]) + 1})
        ids  == {Fields[f.shape.type][i].id : i \in {k \in Missing(f) : k < stop}}
    IN  [f EXCEPT !.val = [id \in DOMAIN @ |-> IF id \in ids THEN Null ELSE @[id]]]

(* What a codec that has come to its end does to its value, and what is    *)
(* wrong with it.                                                          *)
Ended(f) == IF f.op = "object" THEN Reset(f) ELSE f

EndCode(f) ==
    CASE f.op = "object" /\ Required(f) # {} -> "missing_required_key"
      [] f.op \in {"array", "tuple"} /\ f.at # Size(f.shape) -> "sequence_length_mismatch"
      [] OTHER -> "none"

ReturnValue ==
    /\ status = "reading"
    /\ Head(stack).op # "root"
    /\ IF Head(stack).op = "optional" THEN ~Head(stack).todo ELSE Head(stack).closed
    /\ LET f == Head(stack)
       IN  IF EndCode(f) # "none"
           THEN /\ Fail(EndCode(f), IF f.op = "object" THEN "field" ELSE "sequence", scanner, current)
                /\ Replaced(Ended(f))
                /\ UNCHANGED current
           ELSE /\ stack' = <<Delivered(Caller, Ended(f).val)>> \o Tail(Tail(stack))
                /\ current' = Restored(f)
                /\ UNCHANGED <<scanner, status, error>>
    /\ UNCHANGED <<setup, object, reads, start>>

(* reader::read: nothing may follow.                                       *)
Finish ==
    /\ status = "reading"
    /\ Head(stack).op = "root" /\ ~Head(stack).todo
    /\ \E p \in {Peek(scanner, current)} :
           IF p.error # NoError THEN Failing(p) /\ UNCHANGED <<stack, object>>
           ELSE IF p.scanner.cached # None
           THEN /\ Fail("unexpected_trailing_content", "root", p.scanner, current)
                /\ UNCHANGED <<stack, object>>
           ELSE /\ status' = "ok"
                /\ object' = Head(stack).val
                /\ stack' = <<>>
                /\ scanner' = p.scanner
                /\ UNCHANGED error
    /\ UNCHANGED <<setup, current, reads, start>>

-----------------------------------------------------------------------------
(* A failed status returns from one call at a time; read_matched_field adds*)
(* the type and the field.                                                 *)
Annotated(f) ==
    IF f.op = "object" /\ f.todo
    THEN WithName(WithField(WithType(error, f.shape.type), f.at), f.at) ELSE error

Unwind ==
    /\ status = "failing"
    /\ Head(stack).op # "root"
    /\ LET f == Head(stack)
       IN  /\ stack' = <<Spilled(Caller, f.val)>> \o Tail(Tail(stack))
           /\ error' = Annotated(f)
           /\ current' = Restored(f)
    /\ UNCHANGED <<setup, scanner, status, object, reads, start>>

(* operator>> throws the diagnostic.                                       *)
Throw ==
    /\ status = "failing"
    /\ Head(stack).op = "root"
    /\ object' = Head(stack).val
    /\ stack' = <<>>
    /\ status' = "error"
    /\ UNCHANGED <<setup, scanner, current, error, reads, start>>

-----------------------------------------------------------------------------
Init ==
    /\ opt \in Options
    /\ root \in Roots
    /\ input \in Inputs[root]
    /\ scanner = [next |-> 0, cached |-> Unread, last |-> None]
    /\ current = Nowhere
    /\ stack = <<>>
    /\ status = "idle"
    /\ error = NoError
    /\ object = InitialObject[root]
    /\ reads = 0
    /\ start = [scanner |-> scanner, current |-> current]

Step ==
    \/ ReadInlineScalar \/ ReadScalarLine
    \/ OpenBlock \/ ReadInlineOptional \/ ReadOptionalLine
    \/ ReadEntry \/ ReadItem
    \/ ReturnValue \/ Finish
    \/ Unwind \/ Throw

Next == BeginRead \/ Step

Spec == Init /\ [][Next]_vars

=============================================================================
