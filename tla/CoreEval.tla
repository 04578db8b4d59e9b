---- MODULE CoreEval ----
(***************************************************************************)
(* The interpreter of marv-interp over Core, the oracle the back ends are  *)
(* compared with: pure values, a stack of bindings, Tier-1 checks.  An     *)
(* outcome is <<"ok", v>>, <<"return", v>> on the way out of a function, or*)
(* <<"error", why>>.  A loop that runs MaxRounds times ends in "fuel".     *)
(***************************************************************************)
EXTENDS LowerBody

CONSTANT MaxRounds

Ok(v) == <<"ok", v>>
Error(why) == <<"error", why>>
IsOk(r) == r[1] = "ok"

\* A function is a value with the arguments it has got so far.
Partial(f, got) == <<"partial", f, got>>

\* A character is its code point.
LitValue(v) == IF v[1] = "char" THEN Num(v[2]) ELSE v

EvalAtom(a, env) ==
    CASE a[1] = "lit" -> LitValue(a[2])
      [] a[1] = "var" -> env[Len(env) - a[2]]
      [] a[1] = "fn" -> Partial(a[2], <<>>)

EvalAtoms(as, env) == [i \in DOMAIN as |-> EvalAtom(as[i], env)]

\* Element i of a collection, counted from 0.
At(v, i) ==
    IF i + 1 \in DOMAIN Items(v) THEN Ok(Items(v)[i + 1]) ELSE Error("bounds")

\* Total operations; what remains is division by zero and subscripts.
EvalPrim(op, args) ==
    LET x == args[1]
        y == args[2]
    IN  CASE op = "add" /\ x[1] = "str" -> Ok(Str(x[2] \o y[2]))
          [] op \in Arithmetic /\ ~ (op = "add" /\ x[1] = "str") ->
                LET r == Calculated(op, x[2], y[2])
                IN  IF r = None THEN Error("division by zero") ELSE Ok(r[2])
          [] op \in Comparisons ->
                LET r == Compared(op, x, y)
                IN  IF r = None THEN Error("unsupported") ELSE Ok(Truth(r[2]))
          [] op = "and" -> Ok(Truth(x[2] /\ y[2]))
          [] op = "or" -> Ok(Truth(x[2] \/ y[2]))
          [] op = "not" -> Ok(Truth(~ x[2]))
          [] op = "neg" -> Ok(Num(Wrap(-x[2])))
          [] op = "len" -> Ok(Num(Len(Items(x))))
          [] op = "index" -> At(x, y[2])
          [] op = "slice" ->
                LET hi == args[3][2]
                IN  IF y[2] < 0 \/ hi < y[2] \/ hi > Len(x[2]) THEN Error("bounds")
                    ELSE Ok(Str(SubSeq(x[2], y[2] + 1, hi)))
          [] op = "from_chars" ->
                Ok(Str([i \in DOMAIN y[2] |-> y[2][i][2]]))

\* A conversion truncates or wraps to the target's width; a char and a bool
\* count as integers.
EvalCast(v, to) ==
    LET n == IF v[1] = "bool" THEN (IF v[2] THEN 1 ELSE 0) ELSE v[2]
    IN  CASE to[1] = "i8" -> Ok(Num(Signed(n, Narrow)))
          [] to[1] = "u8" -> Ok(Num(n % 2 ^ Narrow))
          [] to[1] = "bool" -> Ok(Truth(n # 0))
          [] OTHER -> Ok(Num(Wrap(n)))

\* A new list value; push doubles a full list's capacity, from 4.
ListPush(list, v) ==
    LET items == list[2]
        cap == list[3]
    IN  List(Append(items, v),
             IF Len(items) < cap THEN cap ELSE IF cap = 0 THEN 4 ELSE 2 * cap)

\* An element of an array, a slice or a list replaced.
Stored(v, i, new) ==
    IF i + 1 \notin DOMAIN Items(v) THEN Error("bounds")
    ELSE IF v[1] = "agg" THEN Ok(Agg(v[2], [v[3] EXCEPT ![i + 1] = new]))
    ELSE Ok(List([v[2] EXCEPT ![i + 1] = new], v[3]))

\* A return ends the call it is in.
Returned(r) == IF r[1] = "return" THEN Ok(r[2]) ELSE r
Then(r, K(_)) == IF IsOk(r) THEN K(r[2]) ELSE r

RECURSIVE Eval(_, _, _), Rounds(_, _, _, _)

\* A call fires when the last parameter arrives.
Apply(defs, func, arg) ==
    LET got == Append(func[3], arg)
    IN  IF func[1] # "partial" \/ func[2] \notin DOMAIN defs THEN Error("unsupported")
        ELSE IF Len(got) < Len(defs[func[2]].types) THEN Ok(Partial(func[2], got))
        ELSE Returned(Eval(defs, defs[func[2]].body, got))

\* The variant's fields are bound, () for one it has not got.
EvalMatch(defs, c, s, env) ==
    LET tag == IF s[1] = "bool" THEN (IF s[2] THEN 1 ELSE 0) ELSE s[2]
        fields == IF s[1] = "bool" THEN <<>> ELSE s[3]
        bound(branch) == [i \in 1 .. branch.binds |->
                            IF i \in DOMAIN fields THEN fields[i] ELSE Unit]
        into(branch) == Eval(defs, branch.body, env \o bound(branch))
    IN  IF s[1] \notin {"bool", "agg"} \/ tag >= Len(c.branches)
        THEN Error("unsupported")
        ELSE into(c.branches[tag + 1])

Eval(defs, c, env) ==
    LET atom(a) == EvalAtom(a, env)
    IN  CASE c.k = "atom" -> Ok(atom(c.a))
          [] c.k = "let" ->
                Then(Eval(defs, c.value, env), LAMBDA v :
                    Eval(defs, c.body, Append(env, v)))
          [] c.k = "app" -> Apply(defs, atom(c.func), atom(c.arg))
          [] c.k = "ctor" -> Ok(Agg(c.tag, EvalAtoms(c.fields, env)))
          [] c.k = "array" -> Ok(Agg(0, EvalAtoms(c.fields, env)))
          [] c.k = "index_set" -> Stored(atom(c.base), atom(c.index)[2], atom(c.value))
          [] c.k = "list_new" ->
                LET cap == atom(c.capacity)[2] IN Ok(List(<<>>, IF cap < 0 THEN 0 ELSE cap))
          [] c.k = "list_push" -> Ok(ListPush(atom(c.list), atom(c.value)))
          [] c.k = "list_pop" ->
                LET v == atom(c.list)
                IN  IF v[2] = <<>> THEN Error("bounds") ELSE Ok(List(Front(v[2]), v[3]))
          [] c.k = "list_set" -> Stored(atom(c.list), atom(c.index)[2], atom(c.value))
          [] c.k = "proj" ->
                LET v == atom(c.base)
                IN  IF v[1] # "agg" /\ c.idx = 0 THEN Ok(v)
                    ELSE IF v[1] = "agg" /\ c.idx + 1 \in DOMAIN v[3]
                    THEN Ok(v[3][c.idx + 1])
                    ELSE Error("unsupported")
          [] c.k = "match" -> EvalMatch(defs, c, atom(c.scrutinee), env)
          [] c.k = "prim" -> EvalPrim(c.op, EvalAtoms(c.args, env))
          [] c.k = "cast" -> EvalCast(atom(c.value), c.to)
          [] c.k = "ref" -> Ok(atom(c.of))
          [] c.k = "return" -> <<"return", atom(c.value)>>
          [] c.k = "loop" ->
                Rounds(defs, c, env \o EvalAtoms(c.state, env), MaxRounds)

\* The carried values are the last slots of env.
Rounds(defs, c, env, fuel) ==
    LET k == Len(c.state)
        below == SubSeq(env, 1, Len(env) - k)
        go == Eval(defs, c.cond, env)
        next == Eval(defs, c.body, env)
    IN  IF ~ InvariantHolds(c.invariant, env) THEN Error("invariant")
        ELSE IF ~ IsOk(go) THEN go
        ELSE IF go = Ok(Truth(FALSE))
        THEN Ok(Agg(0, SubSeq(env, Len(env) - k + 1, Len(env))))
        ELSE IF fuel = 0 THEN Error("fuel")
        ELSE IF ~ IsOk(next) THEN next
        ELSE Rounds(defs, c, below \o next[2][3], fuel - 1)

\* marv run: the clauses of the entry are checked, those of a callee are not.
Checked(f, args, r) ==
    IF ~ Holds(f.requires, args, None) THEN Error("requires")
    ELSE IF IsOk(r) /\ ~ Holds(f.ensures, args, Known(r[2])) THEN Error("ensures")
    ELSE r
Run(defs, entry, args) ==
    Checked(defs[entry], args, Returned(Eval(defs, defs[entry].body, args)))
====
