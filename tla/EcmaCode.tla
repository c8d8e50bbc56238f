------------------------------ MODULE EcmaCode -------------------------------
(* What ECMAScript makes of a syntax tree, read straight off the tree: values *)
(* of expressions, completions of statements, variables by name. Strict mode, *)
(* with the subset's own rules: variables belong to functions, "for in" goes  *)
(* over the object's own keys, arrays have no holes.                         *)
EXTENDS JsValues, FiniteSets

\* A completion, and the world it leaves: objects, variables, the calls of host
\* functions so far and the outcomes that those of them have that are known.
Completion(w, t, v, label) == [w |-> w, t |-> t, v |-> v, label |-> label]
Normal(w, v) == Completion(w, "normal", v, "")
Thrown(w, v) == Completion(w, "throw", v, "")
TypeError(w) == Thrown(w, Error("TypeError"))
Then(r, F(_)) == IF r.t = "normal" THEN F(r) ELSE r

\* A call of the host that has no outcome yet ends the account.
HostCall(w, name, args) ==
    LET n == Len(w.trace) + 1
        called == [w EXCEPT !.trace = Append(@, <<name, args>>)]
    IN CASE n > Len(w.oracle) -> Completion(called, "stop", Undefined, "")
         [] n <= Len(w.oracle) /\ w.oracle[n].throws -> Thrown(called, w.oracle[n].v)
         [] OTHER -> Normal(called, w.oracle[n].v)
New(w, o) == Normal([w EXCEPT !.heap = Append(@, o)], Ref(Len(w.heap) + 1))
Object(w, v) == w.heap[v[2]]
Elements(es) == [NewObject("array") EXCEPT !.elems = es]
Closure(def, env) == [NewObject("function") EXCEPT !.code = def, !.var_refs = env]

\* Names a function body declares with "var", "catch" and "function".
RECURSIVE Declared(_)
DeclaredIn(sts) == UNION {Declared(sts[i]) : i \in DOMAIN sts}
Declared(st) ==
    CASE st.k = "var" -> {st.name}
      [] st.k = "function" -> {st.def.name}
      [] st.k = "label" -> Declared(st.body)
      [] st.k = "block" -> DeclaredIn(st.body)
      [] st.k = "if" -> Declared(st.then) \cup DeclaredIn(st.else)
      [] st.k \in {"while", "do"} -> Declared(st.body)
      [] st.k = "for" -> (IF st.var THEN DeclaredIn(st.init) ELSE {}) \cup Declared(st.body)
      [] st.k = "forin" -> (IF st.var THEN {st.to.name} ELSE {}) \cup Declared(st.body)
      [] st.k = "switch" -> UNION {DeclaredIn(st.clauses[i].body) : i \in DOMAIN st.clauses}
      [] st.k = "try" -> ({st.name} \ {""}) \cup DeclaredIn(st.body \o st.handler \o st.finally)
      [] OTHER -> {}

-----------------------------------------------------------------------------
(* Expressions. c is the function at work: its environment, this, itself.     *)

\* What an expression or a statement does; labels are the names that "continue" may
\* have for the statement.
RECURSIVE Does(_, _, _, _)
Eval(w, c, e) == Does(w, c, e, {})
Exec(w, c, st, labels) == Does(w, c, st, labels)
Run(w, c, sts) == FoldLeft(LAMBDA r, st : Then(r, LAMBDA q : Exec(q.w, c, st, {})), Normal(w, Undefined), sts)

\* Values of a list of expressions, from left to right.
EvalAll(w, c, es) ==
    FoldLeft(LAMBDA r, e : Then(r, LAMBDA q : Then(Eval(q.w, c, e), LAMBDA x : Normal(x.w, Append(q.v, x.v)))),
             Normal(w, <<>>), es)

Name(name) == <<"name", name>>
Place(v, key) == <<"place", v, key>>
Reference(w, c, e) ==
    CASE e.k = "name" -> Normal(w, Name(e.name))
      [] e.k = "field" -> Then(Eval(w, c, e.e), LAMBDA o : Normal(o.w, Place(o.v, Str(e.name))))
      [] e.k = "elem" -> Then(EvalAll(w, c, <<e.e, e.at>>), LAMBDA r : Normal(r.w, Place(r.v[1], r.v[2])))

\* A function's own names: parameters, then what it declares, functions first of all.
Bind(w, f, fv, args) ==
    LET def == f.code
        given == [i \in DOMAIN def.params |-> IF i <= Len(args) THEN args[i] ELSE Undefined]
        declared == SetToSeq(DeclaredIn(def.body) \ ToSet(def.params))
        special == (IF def.has_arguments THEN <<"arguments">> ELSE <<>>) \o
                   (IF def.has_local_func_name THEN <<def.name>> ELSE <<>>)
        names == special \o def.params \o declared
        n == Len(w.cells)
        env == [x \in DOMAIN f.var_refs \cup ToSet(names) |->
                   IF Contains(names, x) THEN n + SelectLastInSeq(names, LAMBDA y : y = x) ELSE f.var_refs[x]]
        passed == New(w, Elements(args))
        u == IF def.has_arguments THEN passed.w ELSE w
        specials == (IF def.has_arguments THEN <<passed.v>> ELSE <<>>) \o (IF def.has_local_func_name THEN <<fv>> ELSE <<>>)
        bound == [u EXCEPT !.cells = @ \o specials \o given \o [i \in DOMAIN declared |-> Undefined]]
    IN [w |-> bound, env |-> env]
Hoist(w, env, body) ==
    FoldLeft(LAMBDA u, st : LET made == New(u, Closure(st.def, env))
                            IN [made.w EXCEPT !.cells[env[st.def.name]] = made.v],
             w, SelectSeq(body, LAMBDA st : st.k = "function"))

\* A call ends with what "return" gave, and "new" with an object.
Ended(r, new, self) ==
    LET result == IF r.t = "return" THEN r.v ELSE Undefined
    IN IF r.t \in {"throw", "stop"} THEN r ELSE Normal(r.w, IF new /\ ~IsObject(result) THEN self ELSE result)
\* b: a world with the function's own names bound, and its environment.
RunBound(b, body, self, fv, new) ==
    Ended(Run(Hoist(b.w, b.env, body), [env |-> b.env, this |-> self, func |-> fv, new |-> new], body), new, self)
Call(w, fv, this, args, new) ==
    LET f == Object(w, fv)
        made == New(w, NewObject("object"))
    IN CASE fv[1] = "host" /\ ~new -> HostCall(w, fv[2], args)
         [] ~(IsObject(fv) /\ f.class = "function") /\ (fv[1] = "host" => new) -> TypeError(w)
         [] OTHER -> RunBound(Bind(IF new THEN made.w ELSE w, f, fv, args), f.code.body,
                              IF new THEN made.v ELSE this, fv, new)

Get(w, v, key) ==
    LET found == IsObject(v) /\ HasProp(Object(w, v), key)
        p == Prop(Object(w, v), key)
    IN CASE v \in {Undefined, Null} -> TypeError(w)
         [] found /\ p.accessor /\ p.get # Undefined -> Call(w, p.get, v, <<>>, FALSE)
         [] found /\ ~p.accessor -> Normal(w, p.v)
         [] OTHER -> Normal(w, Undefined)
Put(w, v, key, val) ==
    LET r == Assigned(Object(w, v), key, val)
    IN CASE ~IsObject(v) \/ r.t = "fails" -> TypeError(w)
         [] IsObject(v) /\ r.t = "done" -> Normal([w EXCEPT !.heap[v[2]] = r.o], val)
         [] IsObject(v) /\ r.t = "calls" ->
              Then(Call(w, Prop(Object(w, v), key).set, v, <<val>>, FALSE), LAMBDA q : Normal(q.w, val))
Read(w, c, ref) ==
    CASE ref[1] = "place" -> Get(w, ref[2], ref[3])
      [] ref[1] = "name" /\ ref[2] \in DOMAIN c.env -> Normal(w, w.cells[c.env[ref[2]]])
      [] OTHER -> Thrown(w, Error("ReferenceError"))
Write(w, c, ref, v) ==
    CASE ref[1] = "place" -> Put(w, ref[2], ref[3], v)
      [] ref[1] = "name" /\ ref[2] \in DOMAIN c.env -> Normal([w EXCEPT !.cells[c.env[ref[2]]] = v], v)
      [] OTHER -> Thrown(w, Error("ReferenceError"))

\* A property that is called is called on the object it is a property of.
EvalCall(w, c, e) ==
    LET callee == IF e.f.k \notin {"field", "elem"} THEN Then(Eval(w, c, e.f), LAMBDA r : Normal(r.w, <<Undefined, r.v>>))
                  ELSE Then(Reference(w, c, e.f), LAMBDA r :
                            Then(Read(r.w, c, r.v), LAMBDA q : Normal(q.w, <<r.v[2], q.v>>)))
    IN Then(callee, LAMBDA f : Then(EvalAll(f.w, c, e.es), LAMBDA args :
            Call(args.w, f.v[2], IF e.k = "new" THEN Undefined ELSE f.v[1], args.v, e.k = "new")))

\* A new value for a reference, computed from the old one: F(old) is a completion
\* with the value; the result is the old value or the new one.
Update(w, c, e, F(_), keep_old) ==
    Then(Reference(w, c, e), LAMBDA ref :
    Then(Read(ref.w, c, ref.v), LAMBDA old :
    Then(F(old), LAMBDA new :
    Then(Write(new.w, c, ref.v, new.v), LAMBDA done :
         Normal(done.w, IF keep_old THEN OperateAlone("plus", old.v, "") ELSE new.v)))))

EvalUnary(w, c, e) ==
    CASE e.op = "typeof" /\ e.e.k = "name" /\ e.e.name \notin DOMAIN c.env -> Normal(w, Str("undefined"))
      [] e.op = "delete" ->
           Then(Reference(w, c, e.e), LAMBDA ref :
                LET v == ref.v[2]
                IN CASE v \in {Undefined, Null} -> TypeError(ref.w)
                     [] IsObject(v) -> Normal([ref.w EXCEPT !.heap[v[2]] = DropProp(@, ref.v[3])], Bool(TRUE))
                     [] OTHER -> Normal(ref.w, Bool(TRUE)))
      [] OTHER ->
           Then(Eval(w, c, e.e), LAMBDA r :
                Normal(r.w, IF e.op = "void" THEN Undefined
                            ELSE OperateAlone(e.op, r.v, IF IsObject(r.v) THEN Object(r.w, r.v).class ELSE "")))

EvalObject(w, c, e) ==
    LET op(field) == CASE field.k = "get" -> "define_getter" [] field.k = "set" -> "define_setter" [] OTHER -> "define_field"
        define(r, field) ==
            Then(r, LAMBDA o : Then(Eval(o.w, c, field.e), LAMBDA x :
                 Normal([x.w EXCEPT !.heap[o.v[2]] = Defined(@, op(field), Str(field.name), x.v)], o.v)))
    IN FoldLeft(define, New(w, NewObject("object")), e.fields)
\* a && b && c and a || b || c: up to the first that decides.
EvalLogical(w, c, e) ==
    FoldLeft(LAMBDA r, x : Then(r, LAMBDA q : IF JS_ToBool(q.v) = (e.k = "or") THEN q ELSE Eval(q.w, c, x)),
             Eval(w, c, e.es[1]), Tail(e.es))

EvalExpr(w, c, e) ==
    CASE e.k = "num" -> Normal(w, Num(e.n))
      [] e.k = "const" -> Normal(w, CASE e.op = "undefined" -> Undefined [] e.op = "null" -> Null
                                      [] e.op = "push_this" -> c.this [] e.op = "push_true" -> Bool(TRUE)
                                      [] e.op = "push_false" -> Bool(FALSE)
                                      [] e.op = "new_target" -> IF c.new THEN c.func ELSE Undefined)
      [] e.k \in {"name", "field", "elem"} -> Then(Reference(w, c, e), LAMBDA ref : Read(ref.w, c, ref.v))
      [] e.k = "func" -> New(w, Closure(e.def, c.env))
      [] e.k = "object" -> EvalObject(w, c, e)
      [] e.k = "array" -> Then(EvalAll(w, c, e.es), LAMBDA r : New(r.w, Elements(r.v)))
      [] e.k \in {"call", "new"} -> EvalCall(w, c, e)
      [] e.k \in {"postinc", "preinc"} ->
           Update(w, c, e.e, LAMBDA old : Normal(old.w, OperateAlone(e.op, old.v, "")), e.k = "postinc")
      [] e.k = "assign" /\ e.op = "=" ->
           Then(Reference(w, c, e.to), LAMBDA ref : Then(Eval(ref.w, c, e.e), LAMBDA x : Write(x.w, c, ref.v, x.v)))
      [] e.k = "assign" /\ e.op # "=" ->
           Update(w, c, e.to, LAMBDA old : Then(Eval(old.w, c, e.e), LAMBDA x : Normal(x.w, Operate(e.op, old.v, x.v))), FALSE)
      [] e.k = "unary" -> EvalUnary(w, c, e)
      [] e.k = "binary" -> Then(EvalAll(w, c, <<e.a, e.b>>), LAMBDA r : Normal(r.w, Operate(e.op, r.v[1], r.v[2])))
      [] e.k \in {"and", "or"} -> EvalLogical(w, c, e)
      [] e.k = "cond" -> Then(Eval(w, c, e.test), LAMBDA r : Eval(r.w, c, IF JS_ToBool(r.v) THEN e.a ELSE e.b))
      [] e.k = "comma" -> Then(EvalAll(w, c, e.es), LAMBDA r : Normal(r.w, r.v[Len(r.v)]))

-----------------------------------------------------------------------------
(* StatementKinds.                                                               *)

GoesOn(r, labels) == r.t = "normal" \/ (r.t = "continue" /\ r.label \in labels \cup {""})
Left(r) == IF r.t = "break" /\ r.label = "" THEN Normal(r.w, Undefined) ELSE r
\* Rounds of a loop: a test, the body, and an expression to go on with.
RECURSIVE Loop(_, _, _, _, _, _)
Loop(w, c, test, body, next, labels) ==
    Then(EvalAll(w, c, test), LAMBDA r :
         IF test # <<>> /\ ~JS_ToBool(r.v[1]) THEN Normal(r.w, Undefined)
         ELSE LET b == Exec(r.w, c, body, {})
              IN IF ~GoesOn(b, labels) THEN Left(b)
                 ELSE Then(EvalAll(b.w, c, next), LAMBDA q : Loop(q.w, c, test, body, next, labels)))
RECURSIVE ForEach(_, _, _, _, _, _)
ForEach(w, c, st, list, pos, labels) ==
    IF pos > Len(Object(w, list).elems) THEN Normal(w, Undefined)
    ELSE Then(Reference(w, c, st.to), LAMBDA ref :
         Then(Write(ref.w, c, ref.v, Object(w, list).elems[pos]), LAMBDA x :
              LET b == Exec(x.w, c, st.body, {})
              IN IF GoesOn(b, labels) THEN ForEach(b.w, c, st, list, pos + 1, labels) ELSE Left(b)))
ExecForIn(w, c, st, labels) ==
    Then(Eval(w, c, st.e), LAMBDA r :
         CASE ~IsObject(r.v) \/ (st.of /\ Object(r.w, r.v).class # "array") -> TypeError(r.w)
           [] IsObject(r.v) /\ ~st.of ->
                Then(New(r.w, Elements(Object(r.w, r.v).keys)), LAMBDA keys : ForEach(keys.w, c, st, keys.v, 1, labels))
           [] OTHER -> ForEach(r.w, c, st, r.v, 1, labels))

\* The first clause with a test that is equal, or the default; the rest follow.
ExecSwitch(w, c, st) ==
    LET clauses == [i \in DOMAIN st.clauses |-> [j \in DOMAIN st.clauses[i].tests |-> <<i, st.clauses[i].tests[j]>>]]
        match(r, test) ==
            Then(r, LAMBDA q : IF q.v[2] > 0 THEN q
                               ELSE Then(Eval(q.w, c, test[2]), LAMBDA x :
                                         Normal(x.w, <<q.v[1], IF Operate("strict_eq", q.v[1], x.v)[2] THEN test[1] ELSE 0>>)))
        default == SelectInSeq(st.clauses, LAMBDA clause : clause.tests = <<>>)
        from(i) == IF i = 0 THEN <<>> ELSE FlattenSeq([j \in 1 .. Len(st.clauses) - i + 1 |-> st.clauses[i + j - 1].body])
    IN Then(FoldLeft(match, Then(Eval(w, c, st.e), LAMBDA r : Normal(r.w, <<r.v, 0>>)), FlattenSeq(clauses)),
            LAMBDA r : Left(Run(r.w, c, from(IF r.v[2] > 0 THEN r.v[2] ELSE default))))

\* Whatever way the block and its handler end, "finally" runs and may overrule it.
ExecTry(w, c, st) ==
    LET b == Run(w, c, st.body)
        handled == IF b.t = "throw" /\ st.name # ""
                   THEN Run([b.w EXCEPT !.cells[c.env[st.name]] = b.v], c, st.handler) ELSE b
        f == Run(handled.w, c, st.finally)
    IN IF handled.t = "stop" THEN handled
       ELSE IF f.t = "normal" THEN [handled EXCEPT !.w = f.w] ELSE f

ExecStatement(w, c, st, labels) ==
    CASE st.k = "expr" -> EvalAll(w, c, st.es)
      [] st.k = "var" -> Then(EvalAll(w, c, st.init), LAMBDA r :
                              IF st.init = <<>> THEN Normal(r.w, Undefined) ELSE Write(r.w, c, Name(st.name), r.v[1]))
      [] st.k = "function" -> Normal(w, Undefined)
      [] st.k = "block" -> Run(w, c, st.body)
      [] st.k = "label" -> LET r == Exec(w, c, st.body, labels \cup {st.name})
                           IN IF r.t = "break" /\ r.label = st.name THEN Normal(r.w, Undefined) ELSE r
      [] st.k = "if" -> Then(Eval(w, c, st.test), LAMBDA r :
                             IF JS_ToBool(r.v) THEN Exec(r.w, c, st.then, {}) ELSE Run(r.w, c, st.else))
      [] st.k = "while" -> Loop(w, c, <<st.test>>, st.body, <<>>, labels)
      [] st.k = "do" -> LET b == Exec(w, c, st.body, {})
                        IN IF GoesOn(b, labels) THEN Loop(b.w, c, <<st.test>>, st.body, <<>>, labels) ELSE Left(b)
      [] st.k = "for" -> Then(IF st.var THEN Run(w, c, st.init) ELSE EvalAll(w, c, st.init), LAMBDA r :
                              Loop(r.w, c, st.test, st.body, st.next, labels))
      [] st.k = "forin" -> ExecForIn(w, c, st, labels)
      [] st.k = "switch" -> ExecSwitch(w, c, st)
      [] st.k = "try" -> ExecTry(w, c, st)
      [] st.k \in {"break", "continue"} -> Completion(w, st.k, Undefined, st.name)
      [] st.k = "return" -> Then(EvalAll(w, c, st.e), LAMBDA r :
                                 Completion(r.w, "return", IF st.e = <<>> THEN Undefined ELSE r.v[1], ""))
      [] st.k = "throw" -> Then(Eval(w, c, st.e), LAMBDA r : Thrown(r.w, r.v))

StatementKinds == {"expr", "var", "function", "block", "label", "if", "while", "do", "for", "forin", "switch", "try",
                   "break", "continue", "return", "throw"}
Does(w, c, node, labels) ==
    IF node.k \in StatementKinds THEN ExecStatement(w, c, node, labels) ELSE EvalExpr(w, c, node)

-----------------------------------------------------------------------------
(* What is refused before anything runs.                                     *)

\* Expressions right under an expression, and functions in it.
SubExprs(e) ==
    CASE e.k \in {"field", "postinc", "preinc", "unary"} -> <<e.e>>
      [] e.k = "elem" -> <<e.e, e.at>>
      [] e.k \in {"call", "new"} -> <<e.f>> \o e.es
      [] e.k = "assign" -> <<e.to, e.e>>
      [] e.k = "binary" -> <<e.a, e.b>>
      [] e.k = "cond" -> <<e.test, e.a, e.b>>
      [] e.k \in {"array", "and", "or", "comma"} -> e.es
      [] e.k = "object" -> [i \in DOMAIN e.fields |-> e.fields[i].e]
      [] OTHER -> <<>>
Assignable(e) == e.k \in {"name", "field", "elem"}
RECURSIVE LegalExpr(_), LegalIn(_, _)
LegalExprs(es) == \A i \in DOMAIN es : LegalExpr(es[i])
LegalBody(sts, k) == \A i \in DOMAIN sts : LegalIn(sts[i], k)
LegalFunction(def) ==
    /\ Cardinality(ToSet(def.params)) = Len(def.params)
    /\ LegalBody(def.body, [labels |-> {}, loops |-> {}, breaks |-> FALSE, continues |-> FALSE, returns |-> TRUE])
LegalExpr(e) ==
    /\ e.k \in {"postinc", "preinc"} => Assignable(e.e)
    /\ e.k = "assign" => Assignable(e.to)
    /\ e.k = "unary" /\ e.op = "delete" => e.e.k \in {"field", "elem"}
    /\ e.k = "func" => LegalFunction(e.def)
    /\ LegalExprs(SubExprs(e))

\* k: names of labels around, those of loops, and what a jump with no name may be.
InLoop(k, name) == [k EXCEPT !.breaks = TRUE, !.continues = TRUE, !.labels = @ \cup name, !.loops = @ \cup name]
LegalLoop(st, k, name) ==
    LET inside == InLoop(k, name)
    IN CASE st.k \in {"while", "do"} -> LegalExpr(st.test) /\ LegalIn(st.body, inside)
         [] st.k = "for" -> /\ IF st.var THEN LegalBody(st.init, k) ELSE LegalExprs(st.init)
                            /\ LegalExprs(st.test \o st.next) /\ LegalIn(st.body, inside)
         [] st.k = "forin" -> Assignable(st.to) /\ LegalExprs(<<st.to, st.e>>) /\ LegalIn(st.body, inside)
LegalIn(st, k) ==
    CASE st.k = "expr" -> LegalExprs(st.es)
      [] st.k = "var" -> LegalExprs(st.init)
      [] st.k = "function" -> LegalFunction(st.def)
      [] st.k = "block" -> LegalBody(st.body, k)
      [] st.k = "if" -> LegalExpr(st.test) /\ LegalIn(st.then, k) /\ LegalBody(st.else, k)
      [] st.k = "label" ->
           /\ st.name \notin k.labels
           /\ IF st.body.k \in {"while", "do", "for", "forin"} THEN LegalLoop(st.body, k, {st.name})
              ELSE LegalIn(st.body, [k EXCEPT !.labels = @ \cup {st.name}])
      [] st.k = "switch" ->
           /\ LegalExpr(st.e)
           /\ Cardinality({i \in DOMAIN st.clauses : st.clauses[i].tests = <<>>}) < 2
           /\ \A i \in DOMAIN st.clauses : /\ LegalExprs(st.clauses[i].tests)
                                           /\ LegalBody(st.clauses[i].body, [k EXCEPT !.breaks = TRUE])
      [] st.k = "try" -> LegalBody(st.body \o st.handler \o st.finally, k)
      [] st.k = "break" -> IF st.name = "" THEN k.breaks ELSE st.name \in k.labels
      [] st.k = "continue" -> IF st.name = "" THEN k.continues ELSE st.name \in k.loops
      [] st.k = "return" -> k.returns /\ LegalExprs(st.e)
      [] st.k = "throw" -> LegalExpr(st.e)
      [] OTHER -> LegalLoop(st, k, {})
Legal(body) == LegalBody(body, [labels |-> {}, loops |-> {}, breaks |-> FALSE, continues |-> FALSE, returns |-> FALSE])

-----------------------------------------------------------------------------
(* A script, and what it has come to when so many outcomes are known.        *)

Program(body, hosts, oracle) ==
    LET names == hosts \o SetToSeq(DeclaredIn(body) \ ToSet(hosts))
        env == [x \in ToSet(names) |-> SelectInSeq(names, LAMBDA y : y = x)]
        w == [heap |-> <<>>, trace |-> <<>>, oracle |-> oracle,
              cells |-> [i \in DOMAIN names |-> IF i <= Len(hosts) THEN Host(hosts[i]) ELSE Undefined]]
    IN Run(Hoist(w, env, body), [env |-> env, this |-> Null, func |-> Undefined, new |-> FALSE], body)
=============================================================================
