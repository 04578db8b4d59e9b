---- MODULE SourceMeaning ----
(***************************************************************************)
(* What a source program means, told apart from how it is lowered: the     *)
(* variables in scope are cells, an assignment changes the innermost cell  *)
(* of its name, a block forgets the cells it declared, values are copied.  *)
(* It is the specification that lowering, and each back end after it, has  *)
(* to implement; only the total operations on values are the interpreter's.*)
(***************************************************************************)
EXTENDS CoreEval

Cell(name, v) == [name |-> name, v |-> v]
CellAt(name, env) == SelectLastInSeq(env, LAMBDA c : c.name = name)

RECURSIVE Means(_, _, _), RunsBlock(_, _, _)

\* The values of several expressions, or the first error.
And(acc, r) == IF IsOk(acc) /\ IsOk(r) THEN Ok(Append(acc[2], r[2]))
               ELSE IF IsOk(acc) THEN r ELSE acc
MeansAll(fns, xs, env) ==
    FoldLeft(LAMBDA acc, x : And(acc, Means(fns, x, env)), Ok(<<>>), xs)

\* A call; too few arguments wait for the others.
Called(fns, func, f, got) ==
    IF Len(got) < Len(f.params) THEN Ok(Partial(func, got))
    ELSE Returned(RunsBlock(fns, f.body,
                            [i \in DOMAIN got |-> Cell(f.params[i], got[i])]).out)
Calls(fns, func, args) == Called(fns, func[2], fns[func[2]], func[3] \o args)

\* The place of a field in the struct that has one of its name.
FieldPlace(field) ==
    LET ty == CHOOSE s \in DOMAIN Structs :
                \E i \in DOMAIN Structs[s] : Structs[s][i][1] = field
    IN  SelectInSeq(Structs[ty], LAMBDA f : f[1] = field)

BuiltinMeans(f, vs) ==
    CASE f = "push" -> Ok(ListPush(vs[2], vs[3]))
      [] f = "pop" -> IF vs[1][2] = <<>> THEN Error("bounds")
                      ELSE Ok(List(Front(vs[1][2]), vs[1][3]))
      [] f = "get" -> At(vs[1], vs[2][2])
      [] f = "set" -> Stored(vs[1], vs[2][2], vs[3])
      [] f = "len" -> Ok(Num(Len(Items(vs[1]))))
      [] f = "new" -> Ok(List(<<>>, 0))
      [] f = "from_chars" -> EvalPrim("from_chars", vs)
      [] f = "old" -> Ok(vs[1])

IsCall(x, env) ==
    \/ x.e = "method"
    \/ /\ x.e = "call"
       /\ CellAt(x.f, env) # 0 \/ (~ IsVariant(x.f) /\ x.f \notin Builtins \cup {"new", "old"})

\* What an expression does with the values of its parts.
ValueOf(fns, x, vs, env) ==
    CASE x.e = "un" /\ x.op = "ref" -> Ok(vs[1])
      [] x.e = "bin" \/ (x.e = "un" /\ x.op # "ref") -> EvalPrim(x.op, vs)
      [] x.e = "field" -> Ok(vs[1][3][FieldPlace(x.f)])
      [] x.e = "index" -> At(vs[1], vs[2][2])
      [] x.e = "slice" -> EvalPrim("slice", vs)
      [] x.e \in {"array", "struct"} -> Ok(Agg(0, vs))
      [] x.e = "list" -> Ok(List(vs, Len(vs)))
      [] x.e = "cast" -> EvalCast(vs[1], x.ty)
      [] IsCall(x, env) ->
            Calls(fns, IF x.e = "call" /\ CellAt(x.f, env) # 0 THEN env[CellAt(x.f, env)].v
                       ELSE Partial(x.f, <<>>), vs)
      [] x.e = "call" /\ ~ IsCall(x, env) ->
            IF IsVariant(x.f) THEN Ok(Agg(Variant(x.f)[2], vs)) ELSE BuiltinMeans(x.f, vs)

\* Expressions have no effects.
Means(fns, x, env) ==
    CASE x.e = "lit" -> Ok(LitValue(x.v))
      [] x.e = "var" ->
            IF CellAt(x.x, env) # 0 THEN Ok(env[CellAt(x.x, env)].v)
            ELSE IF IsVariant(x.x) THEN Ok(Agg(Variant(x.x)[2], <<>>))
            ELSE Ok(Partial(x.x, <<>>))
      [] x.e = "try" -> Means(fns, x.of, env)
      [] OTHER -> Then(MeansAll(fns, IF x.e = "list" THEN x.items ELSE Subexprs(x), env),
                       LAMBDA vs : ValueOf(fns, x, vs, env))
-----------------------------------------------------------------------------
\* A clause of a contract in a scope: true, false, or None when one of its
\* operands has no value there.
TruthOf(r) == IF IsOk(r) THEN Known(r[2][2]) ELSE None
Negated(t) == IF t = None THEN None ELSE Known(~ t[2])
Quantified(exists, seen) ==
    IF Known(exists) \in seen THEN Known(exists)
    ELSE IF None \in seen THEN None ELSE Known(~ exists)

RECURSIVE ClauseMeans(_, _, _)
ClauseMeans(fns, x, env) ==
    LET means(y) == ClauseMeans(fns, y, env)
        range == MeansAll(fns, <<x.lo, x.hi>>, env)[2]
    IN  CASE x.e = "bin" /\ x.op \in {"and", "or"} ->
                IF means(x.l) = Known(x.op = "and") THEN means(x.r) ELSE means(x.l)
          [] x.e = "un" -> Negated(means(x.of))
          [] x.e = "quant" ->
                Quantified(x.exists,
                           {ClauseMeans(fns, x.body, Append(env, Cell(x.x, Num(i)))) :
                                i \in range[1][2] .. range[2][2] - 1})
          [] OTHER -> TruthOf(Means(fns, x, env))

Broken(fns, clauses, env) ==
    \E i \in DOMAIN clauses : ClauseMeans(fns, clauses[i], env) = Known(FALSE)
-----------------------------------------------------------------------------
\* A store through a target replaces part of a value; one outside an array is
\* documented to change nothing (docs/run-and-codegen.md).
WithPart(lv, vs, new) ==
    IF lv.e = "field" THEN Agg(0, [vs[1][3] EXCEPT ![FieldPlace(lv.f)] = new])
    ELSE LET r == Stored(vs[1], vs[2][2], new) IN IF IsOk(r) THEN r[2] ELSE vs[1]

RECURSIVE Replaced(_, _, _, _)
Replaced(fns, lv, new, env) ==
    IF lv.e = "var" THEN Ok([env EXCEPT ![CellAt(lv.x, env)].v = new])
    ELSE Then(MeansAll(fns, Subexprs(lv), env), LAMBDA vs :
            Replaced(fns, lv.of, WithPart(lv, vs, new), env))

\* Running: a state is the cells and how it goes, "on", a return or an error.
On(env) == [env |-> env, out |-> <<"on">>]
Out(env, r) == [env |-> env, out |-> r]
Outer(s, n) == [s EXCEPT !.env = SubSeq(@, 1, n)]

GoesOn(s) == s.out = <<"on">>

RECURSIVE Runs(_, _, _), RunsTail(_, _, _), Repeats(_, _, _, _, _)

\* A block: its statements, its tail, and out of scope what it declared.
RunsBlock(fns, block, env) == Outer(RunsTail(fns, block.tail, Runs(fns, block.stmts, env)),
                                    Len(env))

\* A statement whose expression has the value v.
Stores(fns, s, env, v) ==
    IF s.s = "assign"
    THEN LET r == Replaced(fns, s.lv, v, env) IN IF IsOk(r) THEN On(r[2]) ELSE Out(env, r)
    ELSE On(Append(env, Cell(s.x, v)))

RunsStmt(fns, s, env) ==
    IF s.s \in {"while", "for"} THEN Repeats(fns, s, env, 0, MaxRounds)
    ELSE LET r == Means(fns, s.value, env)
         IN  IF IsOk(r) THEN Stores(fns, s, env, r[2]) ELSE Out(env, r)

Runs(fns, stmts, env) ==
    FoldLeft(LAMBDA acc, s : IF GoesOn(acc) THEN RunsStmt(fns, s, acc.env) ELSE acc,
             On(env), stmts)

\* Round after round, the invariants before each and after the last; a for
\* names the element of the round.  
Round(fns, loop, env, i) ==
    Outer(RunsBlock(fns, loop.body,
                    IF loop.s = "while" THEN env
                    ELSE Append(env, Cell(loop.x,
                                          Items(Means(fns, loop.iter, env)[2])[i + 1]))),
          Len(env))
Goes(fns, loop, env, i) ==
    IF loop.s = "while" THEN Means(fns, loop.cond, env)
    ELSE Then(Means(fns, loop.iter, env), LAMBDA v : Ok(Truth(i < Len(Items(v)))))
Repeats(fns, loop, env, i, fuel) ==
    LET over == Goes(fns, loop, env, i)
        s == Round(fns, loop, env, i)
    IN  IF loop.s = "while" /\ Broken(fns, loop.invariants, env)
        THEN Out(env, Error("invariant"))
        ELSE IF ~ IsOk(over) THEN Out(env, over)
        ELSE IF over = Ok(Truth(FALSE)) THEN On(env)
        ELSE IF fuel = 0 THEN Out(env, Error("fuel"))
        ELSE IF s.out[1] \in {"return", "error"} THEN s
        ELSE Repeats(fns, loop, s.env, i + 1, fuel - 1)

\* The part of a tail that v, the value of its expression, selects.
Selects(tail, v) ==
    LET fits == SelectInSeq(tail.arms, LAMBDA a :
                    a.pat # "_" /\ Variant(a.pat)[2] = v[2])
        wild == SelectInSeq(tail.arms, LAMBDA a : a.pat = "_")
        arm == tail.arms[IF fits # 0 THEN fits ELSE wild]
    IN  IF tail.t = "if"
        THEN [block |-> IF v[2] THEN tail.then ELSE AsBlock(tail.els), cells |-> <<>>]
        ELSE [block |-> AsBlock(arm.body),
              cells |-> [i \in DOMAIN arm.binds |-> Cell(arm.binds[i], v[3][i])]]

Entered(fns, part, env) == RunsBlock(fns, part.block, env \o part.cells)

\* A tail ends with the value of the block.
Ends(fns, tail, env, r) ==
    CASE ~ IsOk(r) \/ tail.t = "expr" -> Out(env, r)
      [] IsOk(r) /\ tail.t = "return" -> Out(env, <<"return", r[2]>>)
      [] OTHER -> Entered(fns, Selects(tail, r[2]), env)

RunsTail(fns, tail, s) ==
    IF ~ GoesOn(s) THEN s
    ELSE IF tail.t = "none" THEN Out(s.env, Ok(Unit))
    ELSE Ends(fns, tail, s.env, Means(fns, HeadOf(tail), s.env))

Scoped(f, args) == [i \in DOMAIN f.params |-> Cell(f.params[i], args[i])]
WithResult(f, args, v) == Append(Scoped(f, args), Cell("result", v))

\* The meaning of a program: of its entry called with these arguments, between
\* its requires and its ensures.
Between(fns, f, args, r) ==
    IF Broken(fns, f.requires, Scoped(f, args)) THEN Error("requires")
    ELSE IF IsOk(r) /\ Broken(fns, f.ensures, WithResult(f, args, r[2]))
    THEN Error("ensures")
    ELSE r
CallOf(entry, args) ==
    [e |-> "call", f |-> entry, args |-> [i \in DOMAIN args |-> [e |-> "lit", v |-> args[i]]]]
Meaning(fns, entry, args) ==
    Between(fns, fns[entry], args,
            Means(fns, CallOf(entry, SubSeq(args, 1, Len(fns[entry].params))), <<>>))
====
