------------------------------- MODULE JsCode -------------------------------
(* The compiler of scripts: one pass over the syntax tree emits byte code,    *)
(* with no other memory of an expression than the last opcode it emitted,     *)
(* and functions are compiled after the function they are in.                 *)
EXTENDS Integers, Sequences, FiniteSets, SequencesExt, FiniteSetsExt

CONSTANT SmallArray              \* elements of a literal built on the stack

None == 0                        \* no label, no last opcode
NoName == ""

-----------------------------------------------------------------------------
(* Byte code: a cell for each byte, the first of an instruction with its      *)
(* opcode, its operand and its size.                                        *)

Labelled == {"if_false", "if_true", "goto", "catch", "gosub"}
Wide == Labelled \cup {"push_value"}
Short16 == {"fclosure", "push_const", "object", "call", "call_constructor", "call_method", "array_from",
            "get_field", "get_field2", "put_field", "define_field", "define_getter", "define_setter",
            "get_loc", "put_loc", "get_arg", "put_arg",
            "get_var_ref", "put_var_ref", "get_var_ref_nocheck", "put_var_ref_nocheck"}
SizeOf(op) == CASE op \in Wide -> 5 [] op \in Short16 -> 3 [] OTHER -> 1

\* What an opcode takes from the stack and leaves on it.
Nullary == {"push_value", "push_const", "push_int", "fclosure", "undefined", "null", "push_this",
            "push_false", "push_true", "object", "this_func", "arguments", "new_target",
            "get_loc", "get_arg", "get_var_ref", "get_var_ref_nocheck", "catch"}
Unary == {"get_field", "neg", "plus", "dec", "inc", "lnot", "typeof", "for_in_start", "for_of_start"}
Binary == {"mul", "add", "sub", "lt", "lte", "gt", "gte", "strict_eq", "strict_neq"}
StackEffect(op) ==
    CASE op \in Nullary -> <<0, 1>>
      [] op \in Unary -> <<1, 1>>
      [] op \in Binary -> <<2, 1>>
      [] op \in {"drop", "throw", "return", "ret", "if_false", "if_true", "put_loc", "put_arg",
                 "put_var_ref", "put_var_ref_nocheck"} -> <<1, 0>>
      [] op \in {"dup", "get_field2", "post_inc", "post_dec"} -> <<1, 2>>
      [] op \in {"nip", "get_array_el", "delete", "define_field", "define_getter", "define_setter"} -> <<2, 1>>
      [] op \in {"swap", "get_array_el2"} -> <<2, 2>>
      [] op \in {"dup2"} -> <<2, 4>>
      [] op = "insert2" -> <<2, 3>>
      [] op = "insert3" -> <<3, 4>>
      [] op \in {"perm3", "rot3l"} -> <<3, 3>>
      [] op = "perm4" -> <<4, 4>>
      [] op = "put_field" -> <<2, 0>>
      [] op = "put_array_el" -> <<3, 0>>
      [] op = "for_of_next" -> <<1, 3>>
      [] op \in {"call", "call_constructor"} -> <<1, 1>>
      [] op = "call_method" -> <<2, 1>>
      [] op = "array_from" -> <<0, 1>>
      [] OTHER -> <<0, 0>>
TakesArguments == {"call", "call_constructor", "call_method", "array_from"}
Pops(ins) == StackEffect(ins.op)[1] + (IF ins.op \in TakesArguments THEN ins.n ELSE 0)
Pushes(ins) == StackEffect(ins.op)[2]

-----------------------------------------------------------------------------
(* The state of the parser for the function it is in.                        *)

reset_parse_state(is_eval) ==
    [code |-> <<>>, last |-> None, cpool |-> <<>>, vars |-> <<>>, arg_count |-> 0, ext_vars |-> <<>>,
     labels |-> <<>>, top_break |-> <<>>, is_eval |-> is_eval, dropped |-> FALSE, error |-> FALSE]

js_parse_error(s) == [s EXCEPT !.error = TRUE]
Here(s) == Len(s.code) + 1

Operands(size) == [i \in 1 .. size - 1 |-> [op |-> "operand", n |-> 0, size |-> 0]]
EmitSized(s, op, n, size) ==
    [s EXCEPT !.last = Here(s),
              !.code = @ \o <<[op |-> op, n |-> n, size |-> size]>> \o Operands(size)]
emit_op_param(s, op, n) == EmitSized(s, op, n, SizeOf(op))
emit_op(s, op) == emit_op_param(s, op, 0)
EmitTimes(s, op, n) == FoldLeft(LAMBDA t, i : emit_op(t, op), s, [i \in 1 .. n |-> i])

get_prev_opcode(s) == IF s.last = None THEN "invalid" ELSE s.code[s.last].op
LastOperand(s) == s.code[s.last].n
js_is_live_code(s) == get_prev_opcode(s) \notin {"return", "return_undef", "throw", "goto", "ret"}
remove_last_op(s) == [s EXCEPT !.code = SubSeq(@, 1, s.last - 1), !.last = None]
PatchLast(s, op) == [s EXCEPT !.code[s.last].op = op]
ForgetLast(s) == [s EXCEPT !.last = None]

emit_push_short_int(s, val) == EmitSized(s, "push_int", val, IF val \in -1 .. 7 THEN 1 ELSE 2)
emit_var(s, op, idx) ==
    EmitSized(s, op, idx,
              CASE op \in {"get_loc", "put_loc", "get_arg", "put_arg"} /\ idx < 4 -> 1
                [] op \in {"get_loc", "put_loc"} /\ idx \in 4 .. 255 -> 2
                [] OTHER -> SizeOf(op))

\* A label: where it is, once it is, and the operands that wait for it.
NewLabels(s, n) == [s EXCEPT !.labels = @ \o [i \in 1 .. n |-> [at |-> None, uses |-> {}]]]
emit_label_pos(s, l, pos) ==
    [s EXCEPT !.code = [p \in DOMAIN @ |-> IF p \in s.labels[l].uses THEN [@[p] EXCEPT !.n = pos - (p + 1)] ELSE @[p]],
              !.labels[l].at = pos]
emit_label(s, l) == ForgetLast(emit_label_pos(s, l, Here(s)))
emit_goto(s, op, l) ==
    IF s.labels[l].at # None THEN emit_op_param(s, op, s.labels[l].at - (Here(s) + 1))
    ELSE [emit_op(s, op) EXCEPT !.labels[l].uses = @ \cup {Here(s)}]

\* Where a name is in a list of names, 0 when it is not.
Find(names, name) == SelectInSeq(names, LAMBDA other : other = name)
ExtNames(f) == [i \in DOMAIN f.ext_vars |-> f.ext_vars[i].name]
ExtVar(name, kind, idx) == [name |-> name, kind |-> kind, idx |-> idx]
add_func_ext_var(f, name, kind, idx) == [f EXCEPT !.ext_vars = Append(@, ExtVar(name, kind, idx))]
add_var(s, name) == [s EXCEPT !.vars = Append(@, name)]
AddConst(s, val) == IF Contains(s.cpool, val) THEN s ELSE [s EXCEPT !.cpool = Append(@, val)]
cpool_add(s, op, name) ==
    LET val == [k |-> "name", name |-> name, hoisted |-> None]
        t == AddConst(s, val)
    IN  emit_op_param(t, op, SelectInSeq(t.cpool, LAMBDA other : other = val))

-----------------------------------------------------------------------------
(* What can be assigned to is read off the last opcode, and taken back.       *)

Places == {"get_loc", "get_arg", "get_var_ref"}
Setter(op) == CASE op = "get_loc" -> "put_loc" [] op = "get_arg" -> "put_arg" [] op = "get_var_ref" -> "put_var_ref"

get_lvalue(s, keep) ==
    IF get_prev_opcode(s) \notin Places \cup {"get_field", "get_array_el"}
    THEN [s |-> js_parse_error(s), op |-> "get_loc", n |-> 0]
    ELSE LET op == get_prev_opcode(s)
             n == LastOperand(s)
             t == remove_last_op(s)
         IN [op |-> op, n |-> n,
             s |-> CASE ~keep -> t
                     [] keep /\ op \in Places -> emit_var(t, op, n)
                     [] keep /\ op = "get_field" -> emit_op_param(t, "get_field2", n)
                     [] keep /\ op = "get_array_el" -> emit_op(emit_op(t, "dup2"), "get_array_el")]

put_lvalue(s, lv, special) ==
    CASE lv.op \in Places ->
           emit_var(IF special = "keep_top" THEN emit_op(s, "dup") ELSE s, Setter(lv.op), lv.n)
      [] lv.op = "get_field" ->
           emit_op_param(CASE special = "keep_top" -> emit_op(s, "insert2")
                           [] special = "nokeep_top" -> s
                           [] special = "nokeep_bottom" -> emit_op(s, "swap")
                           [] special = "keep_second" -> emit_op(s, "perm3"), "put_field", lv.n)
      [] lv.op = "get_array_el" ->
           emit_op(CASE special = "keep_top" -> emit_op(s, "insert3")
                     [] special = "nokeep_top" -> s
                     [] special = "nokeep_bottom" -> emit_op(s, "rot3l")
                     [] special = "keep_second" -> emit_op(s, "perm4"), "put_array_el")

\* A name as a variable of the function, or one from outside it.
ParseIdent(s, name) ==
    LET var_idx == Find(s.vars, name)
        ext_idx == Find(ExtNames(s), name)
    IN CASE var_idx \in 1 .. s.arg_count -> emit_var(s, "get_arg", var_idx - 1)
         [] var_idx > s.arg_count -> emit_var(s, "get_loc", var_idx - s.arg_count - 1)
         [] var_idx = 0 /\ ext_idx > 0 -> emit_var(s, "get_var_ref", ext_idx - 1)
         [] OTHER -> emit_var(add_func_ext_var(s, name, "global", 0), "get_var_ref", Len(s.ext_vars))

\* The variable a declaration makes or finds: its kind and its index.
define_var(s, name) ==
    LET idx == Find(IF s.is_eval THEN ExtNames(s) ELSE s.vars, name)
    IN CASE s.is_eval /\ idx = 0 ->
              [s |-> add_func_ext_var(s, name, "global", 1), kind |-> "var_ref", idx |-> Len(s.ext_vars)]
         [] s.is_eval /\ idx > 0 ->
              [s |-> [s EXCEPT !.ext_vars[idx] = ExtVar(name, "global", 1)], kind |-> "var_ref", idx |-> idx - 1]
         [] ~s.is_eval /\ idx \in 1 .. s.arg_count -> [s |-> s, kind |-> "arg", idx |-> idx - 1]
         [] ~s.is_eval /\ idx > s.arg_count -> [s |-> s, kind |-> "var", idx |-> idx - s.arg_count - 1]
         [] OTHER -> [s |-> add_var(s, name), kind |-> "var", idx |-> Len(s.vars) - s.arg_count]
put_var(s, kind, idx) ==
    emit_var(s, CASE kind = "arg" -> "put_arg" [] kind = "var" -> "put_loc" [] OTHER -> "put_var_ref_nocheck", idx)

-----------------------------------------------------------------------------
(* Expressions. "drop" says that nobody wants the value of the whole.         *)

\* An expression or a statement; the last is drop, or the name of its label.
RECURSIVE Parse(_, _, _)
Value(s, e) == Parse(s, e, FALSE)
Values(s, es) == FoldLeft(Value, s, es)

\* The constant pool gets the function, to compile it later. A declaration is
\* numbered, to be hoisted; an expression makes its closure here.
js_parse_function_decl(s, def, is_expr) ==
    LET d == IF is_expr THEN [s |-> s, kind |-> "none", idx |-> 0] ELSE define_var(s, def.name)
        hoisted == CASE is_expr -> None
                     [] d.kind = "var" -> d.idx + d.s.arg_count + 1
                     [] OTHER -> d.idx + 1
        t == [d.s EXCEPT !.cpool = Append(@, [k |-> "func", def |-> def, hoisted |-> hoisted])]
    IN IF is_expr THEN emit_op_param(t, "fclosure", Len(t.cpool)) ELSE t

ParseField(s, field) ==
    LET t == IF field.k = "field" THEN Value(s, field.e) ELSE js_parse_function_decl(s, field.e.def, TRUE)
    IN cpool_add(t, CASE field.k = "get" -> "define_getter" [] field.k = "set" -> "define_setter"
                      [] OTHER -> "define_field", field.name)
ParseObject(s, e) == FoldLeft(ParseField, emit_op_param(s, "object", Len(e.fields)), e.fields)
ParseArray(s, e) ==
    LET n == IF Len(e.es) < SmallArray THEN Len(e.es) ELSE SmallArray
        t == emit_op_param(Values(s, SubSeq(e.es, 1, n)), "array_from", n)
    IN FoldLeft(LAMBDA u, i :
                    emit_op(Value(emit_push_short_int(emit_op(u, "dup"), i - 1), e.es[i]), "put_array_el"),
                t, [i \in 1 .. Len(e.es) - n |-> n + i])

\* A call of a property just read keeps the object it was read from.
ParseCall(s, e) ==
    LET callee == Value(s, e.f)
        op == get_prev_opcode(callee)
        method == e.k = "call" /\ op \in {"get_field", "get_array_el"}
        t == Values(IF method THEN PatchLast(callee, op \o "2") ELSE callee, e.es)
    IN emit_op_param(t, CASE method -> "call_method" [] e.k = "new" -> "call_constructor"
                          [] OTHER -> "call", Len(e.es))

ParsePostInc(s, e, drop) ==
    LET lv == get_lvalue(Value(s, e.e), TRUE)
    IN IF drop THEN [put_lvalue(emit_op(lv.s, e.op), lv, "nokeep_top") EXCEPT !.dropped = TRUE]
       ELSE put_lvalue(emit_op(lv.s, "post_" \o e.op), lv, "keep_second")
ParsePreInc(s, e, drop) ==
    LET lv == get_lvalue(Value(s, e.e), TRUE)
        t == emit_op(lv.s, e.op)
    IN IF drop THEN [put_lvalue(t, lv, "nokeep_top") EXCEPT !.dropped = TRUE]
       ELSE put_lvalue(t, lv, "keep_top")

js_emit_delete(s) ==
    CASE get_prev_opcode(s) = "get_field" ->
           emit_op(emit_op_param(remove_last_op(s), "push_const", LastOperand(s)), "delete")
      [] get_prev_opcode(s) = "get_array_el" -> emit_op(remove_last_op(s), "delete")
      [] OTHER -> js_parse_error(s)
\* typeof of a variable nobody defined is no error.
ParseTypeof(s) ==
    emit_op(IF get_prev_opcode(s) = "get_var_ref" THEN PatchLast(s, "get_var_ref_nocheck") ELSE s, "typeof")
js_parse_unary(s, e) ==
    LET t == Value(s, e.e)
    IN CASE e.op = "delete" -> js_emit_delete(t)
         [] e.op = "typeof" -> ParseTypeof(t)
         [] e.op = "void" -> emit_op(emit_op(t, "drop"), "undefined")
         [] OTHER -> emit_op(t, e.op)

js_parse_expr_binary(s, e) == emit_op(Value(Value(s, e.a), e.b), e.op)
\* a && b && c and a || b || c: all of it to one label.
js_parse_logical_and_or(s, e) ==
    LET l == Len(s.labels) + 1
        branch == IF e.k = "and" THEN "if_false" ELSE "if_true"
        operand(t, x) == Value(emit_op(emit_goto(emit_op(t, "dup"), branch, l), "drop"), x)
    IN emit_label(FoldLeft(operand, Value(NewLabels(s, 1), e.es[1]), Tail(e.es)), l)
js_parse_cond_expr(s, e) ==
    LET t == NewLabels(Value(s, e.test), 2)
        otherwise == Len(t.labels) - 1
        end == Len(t.labels)
        u == emit_goto(Value(emit_goto(t, "if_false", otherwise), e.a), "goto", end)
    IN emit_label(Value(emit_label(u, otherwise), e.b), end)

ParseAssign(s, e, drop) ==
    LET lv == get_lvalue(Value(s, e.to), e.op # "=")
        t == Value(lv.s, e.e)
        u == IF e.op = "=" THEN t ELSE emit_op(t, e.op)
    IN IF drop THEN [put_lvalue(u, lv, "nokeep_top") EXCEPT !.dropped = TRUE]
       ELSE put_lvalue(u, lv, "keep_top")

js_parse_expr_comma(s, es, drop) ==
    LET item(t, i) ==
            LET u == Parse([t EXCEPT !.dropped = FALSE], es[i], drop)
                v == IF i > 1 THEN ForgetLast(u) ELSE u
            IN IF (i < Len(es) \/ drop) /\ ~v.dropped THEN emit_op(v, "drop") ELSE v
    IN FoldLeft(item, s, [i \in DOMAIN es |-> i])

js_parse_assign_expr(s, e, drop) ==
    CASE e.k = "num" -> emit_push_short_int(s, e.n)
      [] e.k = "const" -> emit_op(s, e.op)
      [] e.k = "name" -> ParseIdent(s, e.name)
      [] e.k = "func" -> js_parse_function_decl(s, e.def, TRUE)
      [] e.k = "object" -> ParseObject(s, e)
      [] e.k = "array" -> ParseArray(s, e)
      [] e.k = "field" -> cpool_add(Value(s, e.e), "get_field", e.name)
      [] e.k = "elem" -> emit_op(Value(Value(s, e.e), e.at), "get_array_el")
      [] e.k \in {"call", "new"} -> ParseCall(s, e)
      [] e.k = "postinc" -> ParsePostInc(s, e, drop)
      [] e.k = "preinc" -> ParsePreInc(s, e, drop)
      [] e.k = "unary" -> js_parse_unary(s, e)
      [] e.k = "binary" -> js_parse_expr_binary(s, e)
      [] e.k \in {"and", "or"} -> js_parse_logical_and_or(s, e)
      [] e.k = "cond" -> js_parse_cond_expr(s, e)
      [] e.k = "assign" -> ParseAssign(s, e, drop)
      [] e.k = "comma" -> js_parse_expr_comma(s, e.es, FALSE)

-----------------------------------------------------------------------------
(* Statements, and what break, continue and return have to leave on the way.  *)

push_break_entry(s, name, label_break, label_cont, drops) ==
    [s EXCEPT !.top_break = <<[name |-> name, label_break |-> label_break, label_cont |-> label_cont,
                              label_finally |-> None, drops |-> drops]>> \o @]
pop_break_entry(s) == [s EXCEPT !.top_break = Tail(@)]

emit_return(s, hasval) ==
    LET leave(r, be) ==
            LET drops == r.drops + be.drops
                t == IF r.hasval THEN r.s ELSE emit_op(r.s, "undefined")
            IN IF be.label_finally = None THEN [r EXCEPT !.drops = drops]
               ELSE [s |-> emit_goto(EmitTimes(t, "nip", drops), "gosub", be.label_finally),
                     hasval |-> TRUE, drops |-> 0]
        out == FoldLeft(leave, [s |-> s, hasval |-> hasval, drops |-> 0], s.top_break)
    IN emit_op(out.s, IF out.hasval THEN "return" ELSE "return_undef")

emit_break(s, name, is_cont) ==
    LET target(be) == IF is_cont THEN be.label_cont ELSE be.label_break
        labelled(be) == be.label_cont = None /\ be.drops = 0
        found == SelectInSeq(s.top_break, LAMBDA be :
                    /\ (name = NoName /\ ~labelled(be)) \/ be.name = name
                    /\ target(be) # None)
        leave(t, be) ==
            LET u == EmitTimes(t, "drop", be.drops)
            IN IF be.label_finally = None THEN u
               ELSE emit_op(emit_goto(emit_op(u, "undefined"), "gosub", be.label_finally), "drop")
    IN IF found = 0 THEN js_parse_error(s)
       ELSE emit_goto(FoldLeft(leave, s, SubSeq(s.top_break, 1, found - 1)), "goto", target(s.top_break[found]))

Statement(s, st) == Parse(s, st, NoName)
js_parse_block(s, sts) == FoldLeft(Statement, s, sts)
OptionalDrop(s, es) == IF es = <<>> THEN s ELSE js_parse_expr_comma(s, es, TRUE)

js_parse_var(s, st) ==
    LET d == define_var(s, st.name)
    IN IF st.init = <<>> THEN d.s ELSE put_var(Value(d.s, st.init[1]), d.kind, d.idx)

Loops == {"while", "do", "for", "forin"}
ParseLabelled(s, st) ==
    LET l == Len(s.labels) + 1
        taken == \E i \in DOMAIN s.top_break : s.top_break[i].name = st.name
        t == IF taken THEN js_parse_error(s) ELSE s
    IN IF st.body.k \in Loops THEN Parse(t, st.body, st.name)
       ELSE pop_break_entry(emit_label(Statement(push_break_entry(NewLabels(t, 1), st.name, l, None, 0), st.body), l))

ParseIf(s, st) ==
    LET l1 == Len(s.labels) + 1
        l2 == l1 + 1
        then == Statement(emit_goto(Value(NewLabels(s, 2), st.test), "if_false", l1), st.then)
    IN IF st.else = <<>> THEN emit_label(then, l1)
       ELSE emit_label(Statement(emit_label(emit_goto(then, "goto", l2), l1), st.else[1]), l2)

\* The labels of a loop are the next two: where break goes, and continue.
PushLoop(s, name, drops) == push_break_entry(NewLabels(s, 2), name, Len(s.labels) + 1, Len(s.labels) + 2, drops)
EndLoop(s) == pop_break_entry(emit_label(s, s.top_break[1].label_break))

ParseWhile(s, st, name) ==
    LET be == PushLoop(s, name, 0).top_break[1]
        test == Value(emit_label(PushLoop(s, name, 0), be.label_cont), st.test)
    IN EndLoop(emit_goto(Statement(emit_goto(test, "if_false", be.label_break), st.body), "goto", be.label_cont))
ParseDo(s, st, name) ==
    LET t == NewLabels(PushLoop(s, name, 0), 1)
        again == Len(t.labels)
        body == Statement(emit_label(t, again), st.body)
    IN EndLoop(emit_goto(Value(emit_label(body, t.top_break[1].label_cont), st.test), "if_true", again))
\* The third expression is compiled after the body that it follows.
ParseFor(s, st, name) ==
    LET t == NewLabels(PushLoop(s, name, 0), 1)
        be == t.top_break[1]
        label_test == Len(t.labels)
        init == IF st.var THEN js_parse_block(t, st.init) ELSE OptionalDrop(t, st.init)
        at_test == emit_label(init, label_test)
        test == IF st.test = <<>> THEN at_test ELSE emit_goto(Value(at_test, st.test[1]), "if_false", be.label_break)
        next == OptionalDrop(emit_label(Statement(test, st.body), be.label_cont), st.next)
    IN EndLoop(emit_goto(next, "goto", label_test))
\* The target of the values comes first in the code, before what they come from.
ParseForIn(s, st, name) ==
    LET t == NewLabels(PushLoop(s, name, 1), 3)
        be == t.top_break[1]
        label_expr == Len(t.labels) - 2
        label_body == Len(t.labels) - 1
        label_next == Len(t.labels)
        u == emit_label(emit_goto(t, "goto", label_expr), label_next)
        d == define_var(u, st.to.name)
        lv == get_lvalue(Value(u, st.to), FALSE)
        target == IF st.var THEN put_var(d.s, d.kind, d.idx) ELSE put_lvalue(lv.s, lv, "nokeep_bottom")
        expr == Value(emit_label(emit_goto(target, "goto", label_body), label_expr), st.e)
        start == emit_goto(emit_op(expr, IF st.of THEN "for_of_start" ELSE "for_in_start"), "goto", be.label_cont)
        body == Statement(emit_label(start, label_body), st.body)
        next == emit_goto(emit_op(emit_label(body, be.label_cont), "for_of_next"), "if_false", label_next)
    IN pop_break_entry(emit_op(emit_label(emit_op(next, "drop"), be.label_break), "drop"))

\* A run of "case" labels, and the body of the last of them: the label of the next
\* case is pending until there is one, and "default" is patched in at the end.
ParseCase(r, clause) ==
    LET fell == r.label_case # None
        t == NewLabels(r.s, 2)
        into == Len(t.labels) - 1
        missed == Len(t.labels)
        skip == IF fell THEN emit_label(emit_goto(t, "goto", into), r.label_case) ELSE t
        test(u, i) ==
            LET v == emit_op(Value(emit_op(u, "dup"), clause.tests[i]), "strict_eq")
            IN IF i < Len(clause.tests) THEN emit_goto(v, "if_true", into) ELSE emit_goto(v, "if_false", missed)
        tests == FoldLeft(test, skip, [i \in DOMAIN clause.tests |-> i])
    IN [r EXCEPT !.s = js_parse_block(emit_label(tests, into), clause.body), !.label_case = missed]
ParseDefault(r, clause) ==
    LET t == IF r.label_case # None THEN r.s ELSE emit_goto(NewLabels(r.s, 1), "goto", Len(r.s.labels) + 1)
        u == IF r.default = None THEN t ELSE js_parse_error(t)
    IN [s |-> js_parse_block(u, clause.body), default |-> Here(u),
        label_case |-> IF r.label_case # None THEN r.label_case ELSE Len(t.labels)]
ParseSwitch(s, st, name) ==
    LET t == push_break_entry(NewLabels(s, 1), name, Len(s.labels) + 1, None, 1)
        r == FoldLeft(LAMBDA q, clause : IF clause.tests = <<>> THEN ParseDefault(q, clause) ELSE ParseCase(q, clause),
                      [s |-> Value(t, st.e), label_case |-> None, default |-> None], st.clauses)
        patched == CASE r.default # None -> emit_label_pos(r.s, r.label_case, r.default)
                     [] r.default = None /\ r.label_case # None -> emit_label(r.s, r.label_case)
                     [] OTHER -> r.s
    IN pop_break_entry(emit_op(emit_label(patched, t.top_break[1].label_break), "drop"))

\* A block that whatever leaves it has to go through "finally" of.
Guarded(s, sts, label_finally) ==
    LET t == push_break_entry(s, NoName, None, None, 1)
    IN pop_break_entry(js_parse_block([t EXCEPT !.top_break[1].label_finally = label_finally], sts))
\* On its way out of such a block: the catch offset goes, and finally runs.
LeaveGuarded(s, label_finally, label_end) ==
    LET t == emit_op(emit_op(s, "drop"), "undefined")
    IN emit_goto(emit_op(emit_goto(t, "gosub", label_finally), "drop"), "goto", label_end)
Rethrow(s, label_finally) == emit_op(emit_goto(s, "gosub", label_finally), "throw")
ParseTry(s, st) ==
    LET t == NewLabels(s, 4)
        label_catch == Len(s.labels) + 1
        label_finally == label_catch + 1
        label_end == label_catch + 2
        label_catch2 == label_catch + 3
        body == LeaveGuarded(Guarded(emit_goto(t, "catch", label_catch), st.body, label_finally), label_finally, label_end)
        \* The variable of catch is one of the whole function.
        known == Find(body.vars, st.name) > 0 \/ Find(ExtNames(body), st.name) > 0
        named == emit_label(add_var(IF known THEN js_parse_error(body) ELSE body, st.name), label_catch)
        caught == emit_goto(emit_var(named, "put_loc", Len(body.vars) - s.arg_count), "catch", label_catch2)
        handler == LeaveGuarded(Guarded(caught, st.handler, label_finally), label_finally, label_end)
        thrown == Rethrow(emit_label(IF st.name = NoName THEN body ELSE handler,
                                     IF st.name = NoName THEN label_catch ELSE label_catch2), label_finally)
        finally == push_break_entry(emit_label(thrown, label_finally), NoName, None, None, 2)
    IN emit_label(emit_op(pop_break_entry(js_parse_block(finally, st.finally)), "ret"), label_end)

js_parse_statement(s, st, name) ==
    CASE st.k = "label" -> ParseLabelled(s, st)
      [] st.k = "block" -> js_parse_block(s, st.body)
      [] st.k = "return" -> IF s.is_eval THEN js_parse_error(s)
                            ELSE emit_return(IF st.e = <<>> THEN s ELSE Value(s, st.e[1]), st.e # <<>>)
      [] st.k = "throw" -> emit_op(Value(s, st.e), "throw")
      [] st.k = "var" -> js_parse_var(s, st)
      [] st.k = "if" -> ParseIf(s, st)
      [] st.k = "while" -> ParseWhile(s, st, name)
      [] st.k = "do" -> ParseDo(s, st, name)
      [] st.k = "for" -> ParseFor(s, st, name)
      [] st.k = "forin" -> ParseForIn(s, st, name)
      [] st.k \in {"break", "continue"} -> emit_break(s, st.name, st.k = "continue")
      [] st.k = "switch" -> ParseSwitch(s, st, name)
      [] st.k = "try" -> ParseTry(s, st)
      [] st.k = "expr" -> js_parse_expr_comma(s, st.es, TRUE)

Statements == Loops \cup {"label", "block", "return", "throw", "var", "if", "break", "continue", "switch", "try", "expr"}
Parse(s, node, how) ==
    CASE s.error -> s
      [] ~s.error /\ node.k \in Statements -> js_parse_statement(s, node, how)
      [] OTHER -> js_parse_assign_expr(s, node, how)

-----------------------------------------------------------------------------
(* Functions, and what is made of their code once it is all there.            *)

js_parse_source_element(s, st) ==
    IF st.k = "function" THEN js_parse_function_decl(s, st.def, FALSE) ELSE Statement(s, st)

\* Closures of the declarations go to their variables before anything else.
define_hoisted_functions(s) ==
    LET put(c) == CASE s.is_eval -> <<"put_var_ref_nocheck", c.hoisted - 1>>
                    [] ~s.is_eval /\ c.hoisted <= s.arg_count -> <<"put_arg", c.hoisted - 1>>
                    [] OTHER -> <<"put_loc", c.hoisted - 1 - s.arg_count>>
        define(t, i) == IF s.cpool[i].hoisted = None THEN t
                        ELSE emit_op_param(emit_op_param(t, "fclosure", i), put(s.cpool[i])[1], put(s.cpool[i])[2])
        first == FoldLeft(define, [s EXCEPT !.code = <<>>], [i \in DOMAIN s.cpool |-> i])
    IN [s EXCEPT !.code = first.code \o @]

\* The end of a program, and of a function, which may not be reached.
EndSource(s) == define_hoisted_functions(IF s.is_eval \/ js_is_live_code(s) THEN emit_op(s, "return_undef") ELSE s)
js_parse_source(s, sts) == EndSource(FoldLeft(js_parse_source_element, s, sts))
\* A function before its body, with the variables it has for itself.
StartFunction(def) ==
    LET distinct == Cardinality(ToSet(def.params)) = Len(def.params)
        s == [reset_parse_state(FALSE) EXCEPT !.vars = def.params, !.arg_count = Len(def.params), !.error = ~distinct]
        local(t, op, name) == put_var(emit_op(add_var(t, name), op), "var", Len(t.vars) - t.arg_count)
        t == IF def.has_arguments THEN local(s, "arguments", "arguments") ELSE s
    IN IF def.has_local_func_name THEN local(t, "this_func", def.name) ELSE t

\* Names used before they were declared were taken for names from outside.
convert_ext_vars_to_local_vars(s) ==
    LET local(i) == Find(s.vars, s.ext_vars[i].name) > s.arg_count
        new(i) == IF local(i) THEN Find(s.vars, s.ext_vars[i].name) - s.arg_count - 1
                  ELSE Cardinality({j \in 1 .. i - 1 : ~local(j)})
        convert(ins) ==
            IF ins.op \notin {"get_var_ref", "get_var_ref_nocheck", "put_var_ref", "put_var_ref_nocheck"} THEN ins
            ELSE [ins EXCEPT !.n = new(ins.n + 1),
                             !.op = CASE ~local(ins.n + 1) -> ins.op
                                      [] ins.op \in {"get_var_ref", "get_var_ref_nocheck"} -> "get_loc"
                                      [] OTHER -> "put_loc"]
    IN [s EXCEPT !.code = [p \in DOMAIN @ |-> convert(@[p])],
                 !.ext_vars = SelectSeq(@, LAMBDA v : Find(s.vars, v.name) <= s.arg_count)]

\* The heights of the stack at what the code goes through, from the places to
\* explore. What only an exception reaches is not explored.
Unexplored == -1
compute_stack_size_push(r, pos, height) ==
    CASE pos > Len(r.heights) \/ r.heights[pos] \notin {Unexplored, height} -> [r EXCEPT !.error = TRUE]
      [] r.heights[pos] = height -> r
      [] OTHER -> [r EXCEPT !.heights[pos] = height, !.todo = Append(@, pos)]
RECURSIVE Explore(_, _)
Explore(code, r) ==
    IF r.todo = <<>> \/ r.error THEN r
    ELSE LET pos == Last(r.todo)
             ins == code[pos]
             height == r.heights[pos] - Pops(ins) + Pushes(ins)
             t == [r EXCEPT !.todo = Front(@), !.error = r.heights[pos] < Pops(ins),
                            !.stack_size = IF height > @ THEN height ELSE @]
             target == pos + 1 + ins.n
             jumped == CASE ins.op \in {"if_true", "if_false"} -> compute_stack_size_push(t, target, height)
                         [] ins.op = "gosub" -> compute_stack_size_push(t, target, height + 1)
                         [] OTHER -> t
         IN Explore(code, CASE ins.op \in {"return", "return_undef", "throw", "ret"} -> t
                            [] ins.op = "goto" -> compute_stack_size_push(t, target, height)
                            [] OTHER -> compute_stack_size_push(jumped, pos + ins.size, height))
compute_stack_size(code) ==
    Explore(code, [heights |-> [p \in DOMAIN code |-> IF p = 1 THEN 0 ELSE Unexplored],
                   todo |-> <<1>>, stack_size |-> 0, error |-> FALSE])

\* Where the closure of a function finds the variables from outside it.
resolve_var_refs(child, parent) ==
    LET resolve(r, i) ==
            LET name == child.ext_vars[i].name
                var_idx == Find(parent.vars, name)
                ext_idx == Find(ExtNames(r.parent), name)
                found(kind, idx) == [r EXCEPT !.child.ext_vars[i] = ExtVar(name, kind, idx)]
            IN CASE var_idx \in 1 .. parent.arg_count -> found("arg", var_idx - 1)
                 [] var_idx > parent.arg_count -> found("var", var_idx - parent.arg_count - 1)
                 [] var_idx = 0 /\ ext_idx > 0 -> found("var_ref", ext_idx - 1)
                 [] OTHER -> [found("var_ref", Len(r.parent.ext_vars)) EXCEPT
                                !.parent = add_func_ext_var(@, name, "global", 0)]
    IN FoldLeft(resolve, [child |-> child, parent |-> parent], [i \in DOMAIN child.ext_vars |-> i])

\* A function with the heights its code gives the stack, and one with the i-th of its
\* constants compiled.
Sized(s) ==
    LET sized == compute_stack_size(s.code)
    IN [code |-> s.code, cpool |-> s.cpool, vars |-> s.vars, arg_count |-> s.arg_count, ext_vars |-> s.ext_vars,
        stack_size |-> sized.stack_size, heights |-> sized.heights, error |-> s.error \/ sized.error]
WithLocal(f, i, child) ==
    LET r == resolve_var_refs(child, f)
    IN [r.parent EXCEPT !.cpool[i] = [k |-> "code", f |-> r.child], !.error = @ \/ r.child.error]
\* A program or a function, and then the functions in it, each in the same way.
RECURSIVE js_parse_function(_, _)
ParseLocal(f, i) ==
    IF f.cpool[i].k # "func" THEN f
    ELSE WithLocal(f, i, js_parse_function(StartFunction(f.cpool[i].def), f.cpool[i].def.body))
js_parse_local_functions(f) == FoldLeft(ParseLocal, f, [i \in DOMAIN f.cpool |-> i])
js_parse_function(s, sts) == js_parse_local_functions(Sized(convert_ext_vars_to_local_vars(js_parse_source(s, sts))))

JS_Parse(body) == js_parse_function(reset_parse_state(TRUE), body)
=============================================================================
