----------------------------- MODULE JsMachine ------------------------------
(* The interpreter, an opcode at a time: frames, the operand stack of each,   *)
(* variables that closures share with a frame until it returns, exceptions   *)
(* that unwind to a catch offset on the stack, and calls that a getter, a    *)
(* setter or a constructor makes of the middle of an instruction.            *)
EXTENDS JsCode, JsValues

CONSTANT MaxStepBits             \* steps from a call of the host to the next: 2^MaxStepBits

-----------------------------------------------------------------------------
(* The machine.                                                            *)

\* The byte code of a function, by the way to it through constant pools.
CodeOf(image, path) == FoldLeft(LAMBDA f, i : f.cpool[i].f, image, path)

Frame(func, path, args, argc, this, vars, flags) ==
    [func |-> func, path |-> path, pc |-> 1, args |-> args, argc |-> argc, vars |-> vars, stack |-> <<>>,
     this |-> this, flags |-> flags, var_refs |-> <<>>]
Detached(v) == [open |-> FALSE, frame |-> 0, kind |-> "", idx |-> 0, v |-> v]

Top(m) == Last(m.frames)
Height(m) == Len(m.frames)
\* The top frame with a stack and at a place of its code.
At(m, stack, pc) == [m EXCEPT !.frames[Height(m)].stack = stack, !.frames[Height(m)].pc = pc]
Alloc(m, o) == [m EXCEPT !.heap = Append(@, o)]
NewRef(m) == Ref(Len(m.heap) + 1)

VarRefValue(m, c) ==
    LET r == m.cells[c]
        f == m.frames[r.frame]
    IN CASE ~r.open -> r.v
         [] r.open /\ r.kind = "arg" -> f.args[r.idx + 1]
         [] r.open /\ r.kind = "var" -> f.vars[r.idx + 1]
PutVarRef(m, c, v) ==
    LET r == m.cells[c]
    IN CASE ~r.open -> [m EXCEPT !.cells[c].v = v]
         [] r.open /\ r.kind = "arg" -> [m EXCEPT !.frames[r.frame].args[r.idx + 1] = v]
         [] r.open /\ r.kind = "var" -> [m EXCEPT !.frames[r.frame].vars[r.idx + 1] = v]

\* Faulty variant of get_var_ref: each closure gets a reference of its own.
UnsharedVarRef(m, kind, idx) ==
    LET made == [open |-> TRUE, frame |-> Height(m), kind |-> kind, idx |-> idx, v |-> Undefined]
    IN [m |-> [m EXCEPT !.cells = Append(@, made), !.frames[Height(m)].var_refs = <<Len(m.cells) + 1>> \o @],
        c |-> Len(m.cells) + 1]
\* The reference to a variable of the top frame, which its closures share.
get_var_ref(m, kind, idx) ==
    LET refs == Top(m).var_refs
        known == SelectInSeq(refs, LAMBDA c : m.cells[c].kind = kind /\ m.cells[c].idx = idx)
        made == [open |-> TRUE, frame |-> Height(m), kind |-> kind, idx |-> idx, v |-> Undefined]
    IN IF known > 0 THEN [m |-> m, c |-> refs[known]]
       ELSE [m |-> [m EXCEPT !.cells = Append(@, made), !.frames[Height(m)].var_refs = <<Len(m.cells) + 1>> \o @],
             c |-> Len(m.cells) + 1]
\* A global variable, made or defined by the code that names it.
add_global_var(m, name, define) ==
    LET value == IF define THEN Undefined ELSE Uninitialized
    IN IF name \in DOMAIN m.globals
       THEN LET c == m.globals[name]
            IN [c |-> c, m |-> IF define /\ m.cells[c].v = Uninitialized THEN [m EXCEPT !.cells[c].v = Undefined] ELSE m]
       ELSE [c |-> Len(m.cells) + 1,
             m |-> [m EXCEPT !.cells = Append(@, Detached(value)),
                             !.globals = [g \in DOMAIN @ \cup {name} |-> IF g = name THEN Len(m.cells) + 1 ELSE @[g]]]]
js_closure(m, path) ==
    LET code == CodeOf(m.image, path)
        bind(r, v) ==
            LET own == CASE v.kind = "global" -> add_global_var(r.m, v.name, v.idx # 0)
                         [] v.kind = "var_ref" -> [m |-> r.m, c |-> r.m.heap[Top(r.m).func[2]].var_refs[v.idx + 1]]
                         [] OTHER -> get_var_ref(r.m, v.kind, v.idx)
            IN [m |-> own.m, refs |-> Append(r.refs, own.c)]
        r == FoldLeft(bind, [m |-> m, refs |-> <<>>], code.ext_vars)
        object == [NewObject("function") EXCEPT !.code = path, !.var_refs = r.refs]
    IN [m |-> Alloc(r.m, object), v |-> NewRef(r.m)]

\* The variables that closures took from the top frame go on without it.
DetachVarRefs(m) ==
    LET gone == ToSet(Top(m).var_refs)
    IN [m EXCEPT !.cells = [c \in DOMAIN @ |-> IF c \in gone THEN Detached(VarRefValue(m, c)) ELSE @[c]]]
PopFrame(m) == [DetachVarRefs(m) EXCEPT !.frames = Front(@)]

\* An exception: the nearest catch offset of the top frame takes it, or the caller.
RECURSIVE Unwind(_, _)
Unwind(m, v) ==
    IF m.frames = <<>> THEN [m EXCEPT !.status = "thrown", !.result = v]
    ELSE LET f == Top(m)
             offset == SelectLastInSeq(f.stack, LAMBDA x : x[1] = "catch")
         IN IF offset = 0 THEN Unwind(PopFrame(m), v)
            ELSE At(m, Append(SubSeq(f.stack, 1, offset - 1), v), f.stack[offset][2])

\* Faulty variant of ReturnToCaller: what a setter returns stays on the stack.
ReturnKeeping(m, flags, v) ==
    IF m.frames = <<>> THEN [m EXCEPT !.status = "returned", !.result = v]
    ELSE At(m, Append(Top(m).stack, v), Top(m).pc + (IF "pc_add1" \in flags THEN 0 ELSE 2))
\* A value for the instruction that called: on the stack, unless it was a setter,
\* and past the operand, when the instruction has one.
ReturnToCaller(m, flags, v) ==
    IF m.frames = <<>> THEN [m EXCEPT !.status = "returned", !.result = v]
    ELSE LET f == Top(m)
         IN At(m, IF "pop_ret" \in flags THEN f.stack ELSE Append(f.stack, v),
               f.pc + (IF "pc_add1" \in flags THEN 0 ELSE 2))
GenericReturn(m, v) ==
    LET f == Top(m)
    IN ReturnToCaller(PopFrame(m), f.flags, IF "ctor" \in f.flags /\ ~IsObject(v) THEN f.this ELSE v)

\* The callee, this and the arguments are off the stack; the place to go on from is
\* that of the operand.
FunctionCall(m, func, this, args, flags) ==
    LET class == IF IsObject(func) THEN m.heap[func[2]].class ELSE ""
    IN CASE func[1] = "host" /\ "ctor" \notin flags ->
              [m EXCEPT !.status = "calls", !.result = <<func[2], args>>, !.flags = flags]
         [] class = "function" ->
              LET path == m.heap[func[2]].code
                  code == CodeOf(m.image, path)
                  missing == [i \in 1 .. code.arg_count - Len(args) |-> Undefined]
                  ctor == "ctor" \in flags
                  n == IF ctor THEN Alloc(m, NewObject("object")) ELSE m
              IN [n EXCEPT !.frames = Append(@,
                    Frame(func, path, args \o missing, Len(args), IF ctor THEN NewRef(m) ELSE this,
                          [i \in 1 .. Len(code.vars) - code.arg_count |-> Undefined], flags))]
         [] OTHER -> Unwind(m, Error("TypeError"))

-----------------------------------------------------------------------------
(* Opcodes.                                                                *)

\* What is taken from the stack, and which of it is put back.
Shuffles == [drop |-> <<1, <<>>>>, nip |-> <<2, <<2>>>>, dup |-> <<1, <<1, 1>>>>, dup2 |-> <<2, <<1, 2, 1, 2>>>>,
             insert2 |-> <<2, <<2, 1, 2>>>>, insert3 |-> <<3, <<3, 1, 2, 3>>>>, perm3 |-> <<3, <<2, 1, 3>>>>,
             rot3l |-> <<3, <<2, 3, 1>>>>, perm4 |-> <<4, <<3, 1, 2, 4>>>>, swap |-> <<2, <<2, 1>>>>,
             get_field2 |-> <<1, <<1, 1>>>>, get_array_el2 |-> <<2, <<1, 1, 2>>>>]
Under(s, n) == SubSeq(s, 1, Len(s) - n)
Args(s, n) == SubSeq(s, Len(s) - n + 1, Len(s))
FromTop(s, n) == s[Len(s) - n]                 \* FromTop(s, 0) is the top
Shuffled(s, op) == Under(s, Shuffles[op][1]) \o
                   [i \in DOMAIN Shuffles[op][2] |-> FromTop(s, Shuffles[op][1] - Shuffles[op][2][i])]

CodeAt(m) == CodeOf(m.image, Top(m).path)
Fetched(m) == CodeAt(m).code[Top(m).pc]
ConstName(m, ins) == Str(CodeAt(m).cpool[ins.n].name)
Class(m, v) == IF IsObject(v) THEN m.heap[v[2]].class ELSE ""
Continue(m, stack) == At(m, stack, Top(m).pc + Fetched(m).size)
\* Calls and throws save the place after the opcode.
Saved(m, stack) == At(m, stack, Top(m).pc + 1)
Throws(m, stack, v) == Unwind(Saved(m, stack), v)
Fails(m, stack) == Throws(m, stack, Error("TypeError"))
TailFlags(ins) == IF ins.size = 1 THEN {"pc_add1"} ELSE {}

Pushed(m, ins) ==
    LET f == Top(m)
    IN CASE ins.op = "push_int" -> Num(ins.n)
         [] ins.op = "push_const" -> ConstName(m, ins)
         [] ins.op = "undefined" -> Undefined
         [] ins.op = "null" -> Null
         [] ins.op = "push_false" -> Bool(FALSE)
         [] ins.op = "push_true" -> Bool(TRUE)
         [] ins.op = "push_this" -> f.this
         [] ins.op = "this_func" -> f.func
         [] ins.op = "new_target" -> IF "ctor" \in f.flags THEN f.func ELSE Undefined
         [] ins.op = "get_loc" -> f.vars[ins.n + 1]
         [] ins.op = "get_arg" -> f.args[ins.n + 1]
         [] ins.op = "catch" -> <<"catch", f.pc + 1 + ins.n>>
Pushers == {"push_int", "push_const", "undefined", "null", "push_false", "push_true", "push_this", "this_func",
            "new_target", "get_loc", "get_arg", "catch"}

\* The object on top of the stack gives way to a property of it, or its getter runs.
GetProperty(m, stack, key, ins) ==
    LET v == Last(stack)
        o == m.heap[v[2]]
        found == IsObject(v) /\ HasProp(o, key)
        getter == o.props[key].get
        calls == found /\ key \in DOMAIN o.props /\ o.props[key].accessor
    IN CASE v \in {Undefined, Null} -> Fails(m, stack)
         [] calls /\ getter # Undefined ->
              FunctionCall(Saved(m, Front(stack)), getter, v, <<>>, TailFlags(ins))
         [] calls /\ getter = Undefined -> Continue(m, Append(Front(stack), Undefined))
         [] found /\ ~calls -> Continue(m, Append(Front(stack), Prop(o, key).v))
         [] OTHER -> Continue(m, Append(Front(stack), Undefined))
PutProperty(m, stack, key, val, ins) ==
    LET v == Last(stack)
        r == Assigned(m.heap[v[2]], key, val)
    IN CASE ~IsObject(v) -> Fails(m, stack)
         [] IsObject(v) /\ r.t = "fails" -> Fails(m, stack)
         [] IsObject(v) /\ r.t = "calls" ->
              FunctionCall(Saved(m, Front(stack)), m.heap[v[2]].props[key].set, v, <<val>>, TailFlags(ins) \cup {"pop_ret"})
         [] OTHER -> Continue([m EXCEPT !.heap[v[2]] = r.o], Front(stack))

\* Made objects take the place of what was on the stack for them.
Make(m, stack, o) == Continue(Alloc(m, o), Append(stack, NewRef(m)))
NewArray(elems) == [NewObject("array") EXCEPT !.elems = elems]
js_for_of_start(m, stack, is_for_in) ==
    LET v == Last(stack)
        o == m.heap[v[2]]
        keys == NewArray(o.keys)
        iterator(list) == [NewObject("iterator") EXCEPT !.elems = <<list, Num(0)>>]
    IN CASE is_for_in /\ IsObject(v) ->
              Make(Alloc(m, keys), Front(stack), iterator(NewRef(m)))
         [] ~is_for_in /\ Class(m, v) = "array" -> Make(m, Front(stack), iterator(v))
         [] OTHER -> Fails(m, stack)
js_for_of_next(m, stack) ==
    LET it == Last(stack)[2]
        list == m.heap[m.heap[it].elems[1][2]].elems
        pos == m.heap[it].elems[2][2]
    IN IF pos >= Len(list) THEN Continue(m, stack \o <<Undefined, Bool(TRUE)>>)
       ELSE Continue([m EXCEPT !.heap[it].elems[2] = Num(pos + 1)], stack \o <<list[pos + 1], Bool(FALSE)>>)

\* Variables: of the frame by place, of others by reference.
VariableOps == {"put_loc", "put_arg", "get_var_ref", "put_var_ref", "get_var_ref_nocheck", "put_var_ref_nocheck"}
ExecuteVariable(m, ins) ==
    LET s == Top(m).stack
        ref == m.heap[Top(m).func[2]].var_refs[ins.n + 1]
        undeclared == VarRefValue(m, ref) = Uninitialized
    IN CASE ins.op = "put_loc" -> Continue([m EXCEPT !.frames[Height(m)].vars[ins.n + 1] = Last(s)], Front(s))
         [] ins.op = "put_arg" -> Continue([m EXCEPT !.frames[Height(m)].args[ins.n + 1] = Last(s)], Front(s))
         [] ins.op \in {"get_var_ref", "put_var_ref"} /\ undeclared -> Throws(m, s, Error("ReferenceError"))
         [] ins.op \in {"get_var_ref", "get_var_ref_nocheck"} -> Continue(m, Append(s, VarRefValue(m, ref)))
         [] ins.op \in {"put_var_ref", "put_var_ref_nocheck"} -> Continue(PutVarRef(m, ref, Last(s)), Front(s))

MakeOps == {"fclosure", "object", "array_from", "arguments"}
ExecuteMake(m, ins) ==
    LET f == Top(m)
        s == f.stack
    IN CASE ins.op = "fclosure" -> LET r == js_closure(m, Append(f.path, ins.n)) IN Continue(r.m, Append(s, r.v))
         [] ins.op = "object" -> Make(m, s, NewObject("object"))
         [] ins.op = "array_from" -> Make(m, Under(s, ins.n), NewArray(Args(s, ins.n)))
         [] ins.op = "arguments" -> Make(m, s, NewArray(SubSeq(f.args, 1, f.argc)))

CallOps == {"call", "call_constructor", "call_method"}
ExecuteCall(m, ins) ==
    LET s == Top(m).stack
    IN IF ins.op = "call_method"
       THEN FunctionCall(Saved(m, Under(s, ins.n + 2)), FromTop(s, ins.n), FromTop(s, ins.n + 1), Args(s, ins.n), {})
       ELSE FunctionCall(Saved(m, Under(s, ins.n + 1)), FromTop(s, ins.n), Undefined, Args(s, ins.n),
                         IF ins.op = "call" THEN {} ELSE {"ctor"})

\* Where to go on: "gosub" leaves its place on the stack, for "ret".
JumpOps == {"return", "return_undef", "throw", "gosub", "ret", "goto", "if_true", "if_false"}
ExecuteJump(m, ins) ==
    LET f == Top(m)
        s == f.stack
        jump == f.pc + 1 + ins.n
    IN CASE ins.op = "return" -> GenericReturn(m, Last(s))
         [] ins.op = "return_undef" -> GenericReturn(m, Undefined)
         [] ins.op = "throw" -> Throws(m, Front(s), Last(s))
         [] ins.op = "gosub" -> At(m, Append(s, Num(f.pc + ins.size)), jump)
         [] ins.op = "ret" -> At(m, Front(s), Last(s)[2])
         [] ins.op = "goto" -> At(m, s, jump)
         [] ins.op \in {"if_true", "if_false"} ->
              IF JS_ToBool(Last(s)) = (ins.op = "if_true") THEN At(m, Front(s), jump) ELSE Continue(m, Front(s))

PropertyOps == {"get_field", "get_field2", "get_array_el", "get_array_el2", "put_field", "put_array_el",
                "define_field", "define_getter", "define_setter", "delete"}
ExecuteProperty(m, ins) ==
    LET s == Top(m).stack
        v == FromTop(s, 1)
    IN CASE ins.op = "get_field" -> GetProperty(m, s, ConstName(m, ins), ins)
         [] ins.op = "get_field2" -> GetProperty(m, Shuffled(s, ins.op), ConstName(m, ins), ins)
         [] ins.op = "get_array_el" -> GetProperty(m, Front(s), Last(s), ins)
         [] ins.op = "get_array_el2" -> GetProperty(m, Front(Shuffled(s, ins.op)), Last(s), ins)
         [] ins.op = "put_field" -> PutProperty(m, Front(s), ConstName(m, ins), Last(s), ins)
         [] ins.op = "put_array_el" -> PutProperty(m, Under(s, 2), v, Last(s), ins)
         [] ins.op \in {"define_field", "define_getter", "define_setter"} ->
              Continue([m EXCEPT !.heap[v[2]] = Defined(@, ins.op, ConstName(m, ins), Last(s))], Front(s))
         [] ins.op = "delete" ->
              Continue(IF IsObject(v) THEN [m EXCEPT !.heap[v[2]] = DropProp(@, Last(s))] ELSE m,
                       Append(Under(s, 2), Bool(TRUE)))

Execute(m, ins) ==
    LET s == Top(m).stack
    IN CASE ins.op \in Pushers -> Continue(m, Append(s, Pushed(m, ins)))
         [] ins.op \in VariableOps -> ExecuteVariable(m, ins)
         [] ins.op \in MakeOps -> ExecuteMake(m, ins)
         [] ins.op \in CallOps -> ExecuteCall(m, ins)
         [] ins.op \in JumpOps -> ExecuteJump(m, ins)
         [] ins.op \in PropertyOps -> ExecuteProperty(m, ins)
         [] ins.op \in {"for_in_start", "for_of_start"} -> js_for_of_start(m, s, ins.op = "for_in_start")
         [] ins.op = "for_of_next" -> js_for_of_next(m, s)
         [] ins.op \in {"post_inc", "post_dec"} ->
              LET v == OperateAlone("plus", Last(s), "")
              IN Continue(m, Front(s) \o <<v, OperateAlone(IF ins.op = "post_inc" THEN "inc" ELSE "dec", v, "")>>)
         [] ins.op \in DOMAIN Shuffles -> Continue(m, Shuffled(s, ins.op))
         [] ins.op \in Unary -> Continue(m, Append(Front(s), OperateAlone(ins.op, Last(s), Class(m, Last(s)))))
         [] ins.op \in Binary -> Continue(m, Append(Under(s, 2), Operate(ins.op, FromTop(s, 1), Last(s))))

-----------------------------------------------------------------------------
(* Runs, from one call of a host function to the next.                      *)

\* At every place the compiler went through the stack is as high as it found, and
\* "agrees" while that is so.
Heights(m) == LET h == CodeAt(m).heights[Top(m).pc]
              IN Top(m).pc > 0 /\ h \in {Unexplored, Len(Top(m).stack)}
Step(m) == [Execute(m, Fetched(m)) EXCEPT !.agrees = @ /\ Heights(m)]
\* So many steps, 2^n, or fewer when it stops.
RECURSIVE Steps(_, _)
Steps(m, n) ==
    CASE m.status # "runs" -> m
      [] m.status = "runs" /\ n = 0 -> Step(m)
      [] OTHER -> Steps(Steps(m, n - 1), n - 1)
RunToHost(m) == Steps(m, MaxStepBits)
HostReturns(m, v) == RunToHost(ReturnToCaller([m EXCEPT !.status = "runs"], m.flags, v))
HostThrows(m, v) == RunToHost(Unwind([m EXCEPT !.status = "runs"], v))

\* The global variables there are before the script: functions of the host.
Booted(image, hosts) ==
    [image |-> image, frames |-> <<>>, heap |-> <<>>, status |-> "runs", result |-> Undefined, flags |-> {},
     cells |-> [i \in DOMAIN hosts |-> Detached(Host(hosts[i]))],
     globals |-> [name \in ToSet(hosts) |-> SelectInSeq(hosts, LAMBDA h : h = name)],
     agrees |-> TRUE]
JS_Run(image, hosts) ==
    LET main == js_closure(Booted(image, hosts), <<>>)
    IN RunToHost(FunctionCall(main.m, main.v, Null, <<>>, {}))
=============================================================================
