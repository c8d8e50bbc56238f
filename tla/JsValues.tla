------------------------------ MODULE JsValues -------------------------------
(* Values of scripts, operators on them, and what an object is to a script.  *)
(* Numbers are small integers, and of what is no number an operator makes    *)
(* "not a number": the number library has modules of its own.                *)
EXTENDS Integers, Sequences, SequencesExt

Undefined == <<"undefined">>
Null == <<"null">>
Uninitialized == <<"uninitialized">>
NotANumber == <<"nan">>
Bool(b) == <<"bool", b>>
Num(n) == <<"int", n>>
Str(s) == <<"string", s>>
Ref(id) == <<"object", id>>
Host(name) == <<"host", name>>
Error(name) == <<"error", name>>

IsObject(v) == v[1] = "object"
JS_ToBool(v) ==
    CASE v[1] = "bool" -> v[2]
      [] v[1] = "int" -> v[2] # 0
      [] v[1] = "string" -> v[2] # ""
      [] v[1] \in {"undefined", "null", "nan"} -> FALSE
      [] OTHER -> TRUE

\* Operators on values, numbers being small: the same for every reader of scripts.
Numeric(v) == v[1] \in {"int", "bool", "null"}
Number(v) == CASE v[1] = "int" -> v[2] [] v[1] = "bool" /\ v[2] -> 1 [] OTHER -> 0
js_strict_eq(a, b) == a = b /\ a # NotANumber
Relation(op, a, b) ==
    /\ Numeric(a) /\ Numeric(b)
    /\ CASE op = "lt" -> Number(a) < Number(b) [] op = "gt" -> Number(a) > Number(b)
Arithmetic(op, a, b) ==
    CASE ~(Numeric(a) /\ Numeric(b)) -> NotANumber
      [] op = "add" -> Num(Number(a) + Number(b))
      [] op = "sub" -> Num(Number(a) - Number(b))
      [] op = "mul" -> Num(Number(a) * Number(b))
Operate(op, a, b) ==
    CASE op = "strict_eq" -> Bool(js_strict_eq(a, b))
      [] op = "strict_neq" -> Bool(~js_strict_eq(a, b))
      [] op \in {"lt", "gt"} -> Bool(Relation(op, a, b))
      [] OTHER -> Arithmetic(op, a, b)
TypeOf(v, class) ==
    CASE v[1] = "object" -> Str(IF class = "function" THEN "function" ELSE "object")
      [] v[1] = "host" -> Str("function")
      [] v[1] \in {"null", "error"} -> Str("object")
      [] v[1] \in {"undefined", "uninitialized"} -> Str("undefined")
      [] v[1] = "bool" -> Str("boolean")
      [] v[1] = "string" -> Str("string")
      [] OTHER -> Str("number")
OperateAlone(op, a, class) ==
    CASE op = "lnot" -> Bool(~JS_ToBool(a))
      [] op = "typeof" -> TypeOf(a, class)
      [] ~Numeric(a) -> NotANumber
      [] op = "neg" -> Num(-Number(a))
      [] op = "plus" -> Num(Number(a))
      [] op = "inc" -> Num(Number(a) + 1)
      [] op = "dec" -> Num(Number(a) - 1)

-----------------------------------------------------------------------------
(* Objects: named properties in the order they were made, or elements.       *)

EmptyMap == [x \in {} |-> 0]
NewObject(class) == [class |-> class, keys |-> <<>>, props |-> EmptyMap, elems |-> <<>>,
                     code |-> <<>>, var_refs |-> <<>>]
Data(v) == [get |-> Undefined, set |-> Undefined, v |-> v, accessor |-> FALSE]
Accessor(get, set) == [get |-> get, set |-> set, v |-> Undefined, accessor |-> TRUE]

HasProp(o, key) ==
    CASE o.class = "array" /\ key[1] = "int" -> key[2] \in 0 .. Len(o.elems) - 1
      [] OTHER -> key \in DOMAIN o.props
Prop(o, key) == IF o.class = "array" /\ key[1] = "int" THEN Data(o.elems[key[2] + 1]) ELSE o.props[key]
PutProp(o, name, p) ==
    [o EXCEPT !.keys = IF name \in DOMAIN o.props THEN @ ELSE Append(@, name),
              !.props = [k \in DOMAIN @ \cup {name} |-> IF k = name THEN p ELSE @[k]]]
DropProp(o, name) ==
    [o EXCEPT !.keys = SelectSeq(@, LAMBDA k : k # name),
              !.props = [k \in DOMAIN @ \ {name} |-> @[k]]]

\* Giving a property a value: what becomes of the object, or "fails" when an
\* array would have a hole, or "calls" when there is a setter.
Assigned(o, key, v) ==
    LET element == o.class = "array" /\ key[1] = "int"
        done(p) == [t |-> "done", o |-> p]
    IN CASE element /\ key[2] \in 0 .. Len(o.elems) - 1 -> done([o EXCEPT !.elems[key[2] + 1] = v])
         [] element /\ key[2] = Len(o.elems) -> done([o EXCEPT !.elems = Append(@, v)])
         [] element /\ key[2] \notin 0 .. Len(o.elems) -> [t |-> "fails", o |-> o]
         [] ~element /\ HasProp(o, key) /\ o.props[key].accessor -> [t |-> "calls", o |-> o]
         [] OTHER -> done(PutProp(o, key, Data(v)))
\* A definition in a literal: a value, or one half of an accessor.
Defined(o, op, name, v) ==
    LET old == IF name \in DOMAIN o.props /\ o.props[name].accessor THEN o.props[name] ELSE Accessor(Undefined, Undefined)
    IN PutProp(o, name, CASE op = "define_field" -> Data(v)
                          [] op = "define_getter" -> [old EXCEPT !.get = v]
                          [] op = "define_setter" -> [old EXCEPT !.set = v])
=============================================================================
