------------------------------ MODULE JsScripts ------------------------------
(* Scripts on small instances: trees grown from the inside out are compiled  *)
(* and run, a call of the host at a time, beside what ECMAScript makes of    *)
(* the tree. "c" asks the host yes or no, "e" shows it a value, and throws   *)
(* when the host says so.                                                   *)
EXTENDS JsMachine, EcmaCode

CONSTANTS Families,              \* kinds of scripts to grow
          MaxDepth,              \* forms around the innermost, for each kind
          MaxOutcomes            \* answers of the host a run goes through

VARIABLES family, tree, depth, at, outcomes, calls, machine

Hosts == <<"c", "e">>
Idle == [status |-> "idle"]
Refused == [status |-> "refused"]

-----------------------------------------------------------------------------
(* Pieces of scripts.                                                       *)

N(n) == [k |-> "num", n |-> n]
V(name) == [k |-> "name", name |-> name]
K(op) == [k |-> "const", op |-> op]
Field(e, name) == [k |-> "field", e |-> e, name |-> name]
Elem(e, i) == [k |-> "elem", e |-> e, at |-> i]
Apply(f, es) == [k |-> "call", f |-> f, es |-> es]
Assign(to, e) == [k |-> "assign", op |-> "=", to |-> to, e |-> e]
Op(op, e) == [k |-> "unary", op |-> op, e |-> e]
Array(es) == [k |-> "array", es |-> es]
Member(k, name, e) == [k |-> k, name |-> name, e |-> e]
Def(name, params, body) ==
    [name |-> name, params |-> params, body |-> body, has_arguments |-> FALSE, has_local_func_name |-> FALSE]
Func(params, body) == [k |-> "func", def |-> Def("", params, body)]
NamedFunc(name, params, body) == [k |-> "func", def |-> [Def(name, params, body) EXCEPT !.has_local_func_name = TRUE]]
ArgumentsFunc(body) == [k |-> "func", def |-> [Def("", <<"x">>, body) EXCEPT !.has_arguments = TRUE]]
Show(e) == Apply(V("e"), <<e>>)
Ask(n) == Apply(V("c"), <<N(n)>>)

Do(e) == [k |-> "expr", es |-> <<e>>]
Say(n) == Do(Show(N(n)))
Var(name, e) == [k |-> "var", name |-> name, init |-> <<e>>]
Return(e) == [k |-> "return", e |-> <<e>>]
Block(sts) == [k |-> "block", body |-> sts]
While(test, body) == [k |-> "while", test |-> test, body |-> body]
Labelled_(name, st) == [k |-> "label", name |-> name, body |-> st]
Try(body, name, handler, finally) == [k |-> "try", body |-> body, name |-> name, handler |-> handler, finally |-> finally]
Clause(tests, body) == [tests |-> tests, body |-> body]
Function(name, params, body) == [k |-> "function", def |-> Def(name, params, body)]

-----------------------------------------------------------------------------
(* Jumps out of statements in statements.                                   *)

FlowBases == {"say", "break", "continue", "break a", "continue a", "return", "throw"}
FlowBase(b) ==
    CASE b = "say" -> Say(1)
      [] b \in {"break", "continue"} -> [k |-> b, name |-> ""]
      [] b = "break a" -> [k |-> "break", name |-> "a"]
      [] b = "continue a" -> [k |-> "continue", name |-> "a"]
      [] b = "return" -> Return(Show(N(2)))
      [] b = "throw" -> [k |-> "throw", e |-> Show(N(3))]
FlowForms == {"while", "do", "for", "of", "in", "finally", "in finally", "catch", "in catch", "label", "label loop",
              "switch", "case", "if", "function"}
\* A variable for each depth: the one of "catch" has to be new to its function.
Fresh == <<"x", "y", "z">>
FlowForm(form, st, d) ==
    LET x == Fresh[d + 1]
        each(to, of, e) == [k |-> "forin", var |-> to.k = "name", to |-> to, of |-> of, e |-> e,
                            body |-> Block(<<st, Do(Show(to))>>)]
    IN CASE form = "while" -> While(Ask(1), Block(<<st, Say(4)>>))
         [] form = "do" -> [k |-> "do", body |-> Block(<<st, Say(4)>>), test |-> Ask(1)]
         [] form = "for" -> [k |-> "for", var |-> FALSE, init |-> <<>>, test |-> <<Ask(1)>>, next |-> <<Show(N(5))>>, body |-> st]
         [] form = "of" -> each(Elem(V("l"), Show(N(0))), TRUE, Array(<<N(7), N(8)>>))
         [] form = "in" -> each(V(x), FALSE, [k |-> "object", fields |-> <<Member("field", "p", N(1)), Member("field", "q", N(1))>>])
         [] form = "finally" -> Try(<<st>>, "", <<>>, <<Say(5)>>)
         [] form = "in finally" -> Try(<<Say(6)>>, "", <<>>, <<st>>)
         [] form = "catch" -> Try(<<st>>, x, <<Do(Show(V(x)))>>, <<Say(6)>>)
         [] form = "in catch" -> Try(<<Say(6)>>, x, <<st>>, <<>>)
         [] form = "label" -> Labelled_("a", Block(<<st, Say(7)>>))
         [] form = "label loop" -> Labelled_("a", While(Ask(2), Block(<<st, Say(7)>>)))
         [] form = "switch" -> [k |-> "switch", e |-> Show(N(1)),
                                clauses |-> <<Clause(<<N(2)>>, <<Say(8)>>), Clause(<<>>, <<st>>), Clause(<<N(1)>>, <<Say(9)>>)>>]
         [] form = "case" -> [k |-> "switch", e |-> Ask(3),
                              clauses |-> <<Clause(<<K("push_true"), N(0)>>, <<st>>), Clause(<<K("push_false")>>, <<Say(8)>>)>>]
         [] form = "if" -> [k |-> "if", test |-> Ask(1), then |-> st, else |-> <<Say(7)>>]
         [] form = "function" -> Do(Show(Apply(Func(<<>>, <<st, Say(4)>>), <<>>)))
FlowScript(st, where) ==
    LET list == Var("l", Array(<<N(1)>>))
    IN IF where = "function" THEN <<Function("f", <<>>, <<list, st, Say(9)>>), Do(Show(Apply(V("f"), <<>>)))>>
       ELSE <<list, st, Say(9)>>

-----------------------------------------------------------------------------
(* Names of variables in functions in functions.                            *)

Declarations == {"none", "var", "late var", "param", "function", "catch"}
Uses == {"read", "typeof", "write", "inc"}
Use(u) == Do(CASE u = "read" -> Show(V("v"))
               [] u = "typeof" -> Show(Op("typeof", V("v")))
               [] u = "write" -> Assign(V("v"), Show(N(5)))
               [] u = "inc" -> Show([k |-> "postinc", op |-> "inc", e |-> V("v")]))
Params(d) == IF d = "param" THEN <<"v">> ELSE <<>>
\* Statements in the reach of a declaration of v.
Declaring(d, n, sts) ==
    CASE d = "var" -> <<Var("v", N(n))>> \o sts
      [] d = "late var" -> sts \o <<Var("v", N(n))>>
      [] d = "function" -> sts \o <<Function("v", <<>>, <<Return(N(n))>>)>>
      [] d = "catch" -> <<Try(<<[k |-> "throw", e |-> N(n)]>>, "v", sts, <<>>)>>
      [] OTHER -> sts
ScopeChoices ==
    {s \in [global : {"none", "var", "function"}, outer : Declarations, inner : Declarations \ {"catch"},
            outer_use : Uses, inner_use : Uses] : s.outer_use \in {"read", s.inner_use}}
ScopeScript(s) ==
    LET get == Func(Params(s.inner), Declaring(s.inner, 3, <<Use(s.inner_use), Do(Show(Op("typeof", V("v"))))>>))
        set == Func(<<>>, <<Do(Assign(V("v"), Show(N(6))))>>)
        both == [k |-> "object", fields |-> <<Member("field", "get", get), Member("field", "set", set)>>]
        call(name) == Do(Apply(Field(V("a"), name), <<Show(N(7))>>))
    IN Declaring(s.global, 1,
           <<Function("make", Params(s.outer), Declaring(s.outer, 2, <<Var("r", both), Use(s.outer_use)>>) \o <<Return(V("r"))>>),
             Var("a", Apply(V("make"), <<Show(N(4))>>)), Var("b", Apply(V("make"), <<Show(N(8))>>)),
             call("get"), call("set"), call("get"), Do(Apply(Field(V("b"), "get"), <<>>))>>)

-----------------------------------------------------------------------------
(* Values of expressions in expressions.                                    *)

ValueBases == {"v", "undeclared", "field", "accessor", "element", "object", "number", "function", "method", "this",
               "arguments", "named"}
ValueBase(b) ==
    CASE b = "v" -> V("v")
      [] b = "undeclared" -> V("u")
      [] b = "field" -> Field(V("o"), "f")
      [] b = "accessor" -> Field(V("o"), "g")
      [] b = "element" -> Elem(V("l"), Show(N(1)))
      [] b = "object" -> V("o")
      [] b = "number" -> N(7)
      [] b = "function" -> V("F")
      [] b = "method" -> Field(V("o"), "m")
      [] b = "this" -> Func(<<"x">>, <<Return(Array(<<K("push_this"), K("new_target")>>))>>)
      [] b = "arguments" -> Elem(Apply(ArgumentsFunc(<<Return(V("arguments"))>>), <<Show(N(1)), Show(N(2))>>), N(1))
      [] b = "named" -> Apply(NamedFunc("w", <<"x">>, <<Return([k |-> "cond", test |-> V("x"), a |-> Apply(V("w"), <<>>),
                                                               b |-> V("w")])>>), <<N(1)>>)
ValueForms == {"field", "element", "assign", "add", "postinc", "predec", "call", "new", "member", "items", "and", "or",
               "then", "else", "comma", "typeof", "delete", "void", "not", "equal", "argument", "to field",
               "to accessor", "to element", "to variable", "closure"}
\* Compiled like another form, and so not tried around every form.
Siblings == {"void", "predec", "else", "or", "items", "to element", "not"}
ValueForm(form, e) ==
    CASE form = "field" -> Field(e, "f")
      [] form = "element" -> Elem(e, Show(N(0)))
      [] form = "assign" -> Assign(e, Show(N(6)))
      [] form = "add" -> [k |-> "assign", op |-> "add", to |-> e, e |-> Show(N(6))]
      [] form = "postinc" -> [k |-> "postinc", op |-> "inc", e |-> e]
      [] form = "predec" -> [k |-> "preinc", op |-> "dec", e |-> e]
      [] form = "call" -> Apply(e, <<Show(N(3))>>)
      [] form = "new" -> [k |-> "new", f |-> e, es |-> <<Show(N(3))>>]
      [] form = "member" -> Field([k |-> "object", fields |-> <<Member("field", "f", e), Member("field", "x", Ask(0))>>], "f")
      [] form = "items" -> Elem(Array(<<Ask(0), e, Ask(1)>>), N(1))
      [] form \in {"and", "or"} -> [k |-> form, es |-> <<Show(N(IF form = "and" THEN 2 ELSE 0)), e, Ask(0)>>]
      [] form = "then" -> [k |-> "cond", test |-> Ask(1), a |-> e, b |-> Show(N(2))]
      [] form = "else" -> [k |-> "cond", test |-> Ask(0), a |-> Show(N(2)), b |-> e]
      [] form = "comma" -> [k |-> "comma", es |-> <<Show(N(1)), e>>]
      [] form \in {"typeof", "delete", "void"} -> Op(form, e)
      [] form = "not" -> Op("lnot", e)
      [] form = "equal" -> [k |-> "binary", op |-> "strict_eq", a |-> e, b |-> Show(N(7))]
      [] form = "argument" -> Apply(Field(V("o"), "m"), <<e>>)
      [] form = "to field" -> Assign(Field(V("o"), "f"), e)
      [] form = "to accessor" -> Assign(Field(V("o"), "g"), e)
      [] form = "to element" -> Assign(Elem(V("l"), Show(N(2))), e)
      [] form = "to variable" -> Assign(V("v"), e)
      [] form = "closure" -> Apply(Func(<<>>, <<Return(e)>>), <<>>)
This == K("push_this")
ValueScript(e, where) ==
    LET x == V("x")
        this_f == Field(This, "f")
        accessors == <<Member("get", "g", Func(<<>>, <<Say(9), Return(this_f)>>)),
                       Member("set", "g", Func(<<"x">>, <<Do(Show(x)), Do(Assign(this_f, x)), Return(N(5))>>))>>
        method == Member("field", "m", Func(<<"x">>, <<Do(Show(x)), Return(This)>>))
    IN <<Var("o", [k |-> "object", fields |-> <<Member("field", "f", N(1))>> \o accessors \o <<method>>]),
         Var("l", Array(<<N(4), N(5)>>)), Var("v", N(2)),
         Function("F", <<"x">>, <<Do(Show(Op("typeof", This))), Return(x)>>),
         IF where = "function" THEN Do(Show(e)) ELSE Do(e),
         Do(Show(V("v"))), Do(Show(Field(V("o"), "f"))), Do(Show(Elem(V("l"), N(1)))), Do(Show(Elem(V("l"), N(2))))>>

-----------------------------------------------------------------------------
(* Growing, compiling, running.                                             *)

ScriptIn(where) == CASE family = "flow" -> FlowScript(tree, where)
                     [] family = "scope" -> ScopeScript(tree)
                     [] family = "value" -> ValueScript(tree, where)
Script == ScriptIn(at)
Init ==
    /\ family \in Families /\ depth = 0 /\ outcomes = <<>> /\ calls = <<>> /\ machine = Idle
    /\ CASE family = "flow" -> \E b \in FlowBases : tree = FlowBase(b)
         [] family = "scope" -> \E s \in ScopeChoices : tree = s
         [] family = "value" -> \E b \in ValueBases : tree = ValueBase(b)
    /\ at = "growing"
Grows ==
    /\ machine = Idle /\ family # "scope" /\ depth < MaxDepth /\ depth' = depth + 1
    /\ \/ family = "flow" /\ \E form \in FlowForms : tree' = FlowForm(form, tree, depth)
       \/ family = "value" /\ \E form \in ValueForms \ (IF depth = 0 THEN {} ELSE Siblings) : tree' = ValueForm(form, tree)
    /\ UNCHANGED <<family, at, outcomes, calls, machine>>

Called(m) == IF m.status = "calls" THEN <<m.result>> ELSE <<>>
\* What "c" and "e" give back when they do not throw.
Echo(call, yes) == IF call[1] = "c" THEN Bool(yes) ELSE call[2][1]
Returns(v) == [throws |-> FALSE, v |-> v]
Throwing(v) == [throws |-> TRUE, v |-> v]
\* A host that answers "yes" to 1, and whatever the outcome of that is.
After(r, m, v) == [machine |-> m, calls |-> r.calls \o Called(m), outcomes |-> Append(r.outcomes, Returns(v))]
Answered(r) ==
    LET v == Echo(r.machine.result, r.machine.result[2] = <<Num(1)>>)
    IN After(r, HostReturns(r.machine, v), v)
RECURSIVE Obliged(_, _)
Obliged(r, n) ==
    CASE r.machine.status # "calls" -> r
      [] r.machine.status = "calls" /\ n = 0 -> Answered(r)
      [] OTHER -> Obliged(Obliged(r, n - 1), n - 1)
\* Code that a script compiled to, run to its first call of the host or, when the host
\* obliges, to its end.
Started(m, obliged) ==
    LET r == [machine |-> m, calls |-> Called(m), outcomes |-> <<>>]
    IN IF obliged THEN Obliged(r, MaxStepBits) ELSE r
Launched(image, obliged) ==
    IF image.error THEN [machine |-> Refused, calls |-> <<>>, outcomes |-> <<>>]
    ELSE Started(JS_Run(image, Hosts), obliged)
Compiles ==
    /\ machine = Idle
    /\ \E where \in {"function", "program"} :
        /\ where = "program" => family # "scope" /\ depth < MaxDepth
        /\ \E r \in {Launched(JS_Parse(ScriptIn(where)), family # "flow")} :
            at' = where /\ machine' = r.machine /\ calls' = r.calls /\ outcomes' = r.outcomes
    /\ UNCHANGED <<family, tree, depth>>

\* The host says yes, or else "no": "e" throws it.
Answers(yes) ==
    LET throws == ~yes /\ machine.result[1] = "e"
        v == IF throws THEN Str("no") ELSE Echo(machine.result, yes)
    IN \E m \in {IF throws THEN HostThrows(machine, v) ELSE HostReturns(machine, v)} :
        /\ machine' = m /\ calls' = calls \o Called(m)
        /\ outcomes' = Append(outcomes, IF throws THEN Throwing(v) ELSE Returns(v))
HostAnswers ==
    /\ machine.status = "calls" /\ Len(outcomes) < MaxOutcomes
    /\ \E yes \in BOOLEAN : Answers(yes)
    /\ UNCHANGED <<family, tree, depth, at>>
Next == Grows \/ Compiles \/ HostAnswers

-----------------------------------------------------------------------------

Seen(heap, v) == IF IsObject(v) THEN <<"object", heap[v[2]].class>> ELSE v
SeenCalls(heap, cs) == [i \in DOMAIN cs |-> <<cs[i][1], [j \in DOMAIN cs[i][2] |-> Seen(heap, cs[i][2][j])]>>]

\* The machine has come as far as the account r of the script has, in the same way.
SameAs(r) ==
    /\ SeenCalls(machine.heap, calls) = SeenCalls(r.w.heap, r.w.trace)
    /\ machine.status = CASE r.t = "stop" -> "calls" [] r.t = "throw" -> "thrown" [] OTHER -> "returned"
    /\ r.t = "throw" => Seen(machine.heap, machine.result) = Seen(r.w.heap, r.v)

\* A script is refused when it is no legal one, and otherwise calls the host with
\* the same values in the same order, and ends in the same way, as ECMAScript has
\* it for the tree (the compiler's one pass and the interpreter).
ProgramsRunAsSpecified ==
    machine # Idle =>
        /\ machine = Refused <=> ~Legal(Script)
        /\ machine # Refused => SameAs(Program(Script, Hosts, outcomes))

\* Wherever the compiler computed the height of the stack, it has that height
\* (compute_stack_size, whose result a call reserves and never checks again).
StackAsComputed == machine.status \notin {"idle", "refused"} => machine.agrees
=============================================================================
