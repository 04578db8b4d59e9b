---- MODULE Contracts ----
(***************************************************************************)
(* Contract clauses and loop invariants: their lowering to predicates      *)
(* (lower.rs) and the checks the interpreter makes of them at run time     *)
(* (marv-interp).  The clauses of a function refer to parameter k as       *)
(* variable k, to the result as variable n and to the j-th quantifier as   *)
(* n + 1 + j; those of a loop use the indices of the loop's header.        *)
(*                                                                         *)
(* A predicate or operand that lowering rejects carries the error in err.  *)
(***************************************************************************)
EXTENDS Lowering

Comparisons == {"eq", "ne", "lt", "le", "gt", "ge"}
Arithmetic == {"add", "sub", "mul", "div", "rem"}

Fine(n) == [n |-> n, err |-> ""]
Bad(error) == [n |-> [k |-> "const", p |-> TRUE], err |-> error]
FirstErr(l, r) == IF l.err # "" THEN l.err ELSE r.err

\* How a clause finds its variables: by position, or in the environment of a
\* loop whose slots end below base.
FlatScope(params, post, env) ==
    [flat |-> TRUE, params |-> params, post |-> post, env |-> env]
LoopScope(env, base) == [flat |-> FALSE, post |-> FALSE, env |-> env, base |-> base]

OperandAtom(a) == Fine([k |-> "atom", a |-> a])

\* Mutant: a parameter shadows the quantifier's binder of its name.
FlatVarParamsFirst(name, sc, binders) ==
    LET place == SelectInSeq(sc.params \o <<"result">> \o binders, LAMBDA x : x = name)
    IN  IF place = 0 THEN Bad("unknown contract variable")
        ELSE OperandAtom(<<"var", place - 1>>)

\* A quantifier's binder shadows the rest, result shadows the parameters.
FlatVar(name, sc, binders) ==
    LET is(x) == x = name
        binder == SelectLastInSeq(binders, is)
        param == SelectInSeq(sc.params, is)
        n == Len(sc.params)
    IN  CASE binder # 0 -> OperandAtom(<<"var", n + binder>>)
          [] binder = 0 /\ name = "result" ->
                IF sc.post THEN OperandAtom(<<"var", n>>)
                ELSE Bad("result in requires")
          [] binder = 0 /\ name # "result" /\ param # 0 ->
                OperandAtom(<<"var", param - 1>>)
          [] OTHER -> Bad("unknown contract variable")

LoopVar(name, sc, binders) ==
    LET binder == SelectLastInSeq(binders, LAMBDA x : x = name)
    IN  CASE binder # 0 -> OperandAtom(<<"var", sc.base + binder - 1>>)
          [] binder = 0 /\ IsLocal(name, sc.env) ->
                OperandAtom(Local(name, sc.env))
          [] OTHER -> Bad("unknown contract variable")

RECURSIVE RootName(_)
RootName(x) ==
    CASE x.e = "var" -> x.x
      [] x.e \in {"field", "index"} -> RootName(x.of)
      [] OTHER -> ""

\* What a part yields wrapped in a node, with the parts' first error.
Over(l, node) == [n |-> node, err |-> l.err]
OverBoth(l, r, node) == [n |-> node, err |-> FirstErr(l, r)]
BinOf(op, l, r) == OverBoth(l, r, [k |-> "bin", op |-> op, l |-> l.n, r |-> r.n])
CmpOf(op, l, r) == OverBoth(l, r, [k |-> "cmp", op |-> op, l |-> l.n, r |-> r.n])
IndexOf(l, r) == OverBoth(l, r, [k |-> "index", x |-> l.n, i |-> r.n])
LogicOf(op, l, r) == OverBoth(l, r, [k |-> op, l |-> l.n, r |-> r.n])
QuantOf(exists, lo, hi, r) ==
    OverBoth(OverBoth(lo, hi, lo.n), r,
             [k |-> "quant", exists |-> exists, lo |-> lo.n, hi |-> hi.n, p |-> r.n])
NegOf(r) == Over(r, [k |-> "neg", x |-> r.n])
LenOf(r) == Over(r, [k |-> "len", x |-> r.n])
NotOf(r) == Over(r, [k |-> "not", p |-> r.n])
ProjOf(r, i) == IF i = 0 THEN Bad("unresolved projection")
                ELSE Over(r, [k |-> "proj", x |-> r.n, idx |-> i - 1])

\* Operands: literals, variables, arithmetic, len, indexing, fields; old(e) is
\* e, and belongs to ensures.
RECURSIVE LowerOperand(_, _, _)
LowerOperand(x, sc, binders) ==
    LET low(y) == LowerOperand(y, sc, binders)
    IN  CASE x.e = "lit" -> OperandAtom(Lit(x.v))
          [] x.e = "var" -> IF sc.flat THEN FlatVar(x.x, sc, binders)
                            ELSE LoopVar(x.x, sc, binders)
          [] x.e = "un" /\ x.op = "neg" -> NegOf(low(x.of))
          [] x.e = "bin" /\ x.op \in Arithmetic -> BinOf(x.op, low(x.l), low(x.r))
          [] x.e = "index" -> IndexOf(low(x.of), low(x.i))
          [] x.e = "field" ->
                IF Contains(binders, RootName(x.of)) THEN Bad("operand unsupported")
                ELSE ProjOf(low(x.of), FieldIndex(PeelRef(TypeOfExpr(x.of, sc.env)), x.f))
          [] x.e = "call" /\ x.f = "len" -> LenOf(low(x.args[1]))
          [] x.e = "call" /\ x.f = "old" ->
                IF sc.post THEN low(x.args[1]) ELSE Bad("old outside ensures")
          [] OTHER -> Bad("operand unsupported")

RECURSIVE LowerPred(_, _, _)
LowerPred(x, sc, binders) ==
    LET pred(y) == LowerPred(y, sc, binders)
        operand(y) == LowerOperand(y, sc, binders)
    IN  CASE x.e = "lit" /\ x.v[1] = "bool" -> Fine([k |-> "const", p |-> x.v[2]])
          [] x.e = "bin" /\ x.op \in {"and", "or"} -> LogicOf(x.op, pred(x.l), pred(x.r))
          [] x.e = "bin" /\ x.op \in Comparisons ->
                CmpOf(x.op, operand(x.l), operand(x.r))
          [] x.e = "un" /\ x.op = "not" -> NotOf(pred(x.of))
          [] x.e = "quant" ->
                QuantOf(x.exists, operand(x.lo), operand(x.hi),
                        LowerPred(x.body, sc, Append(binders, x.x)))
          [] OTHER -> Bad("not a predicate")

\* The clauses of a function; result is typed when the function has a type.
LowerClauses(clauses, params, types, ret, post) ==
    LET typed == [i \in DOMAIN params |->
                    Binding(params[i], <<"var", 0>>, types[i], FALSE, FALSE)]
        env == IF post THEN Append(typed, Binding("result", <<"var", 0>>, ret,
                                                  FALSE, FALSE))
               ELSE typed
    IN  [i \in DOMAIN clauses |->
            LowerPred(clauses[i], FlatScope(params, post, env), <<>>)]

\* The invariants of a loop, conjoined over its header.
Conjoin(acc, r) ==
    OverBoth(acc, r, IF acc.n.k = "const" THEN r.n ELSE [k |-> "and", l |-> acc.n, r |-> r.n])
LowerInvariants(clauses, env, base) ==
    FoldLeft(LAMBDA acc, x : Conjoin(acc, LowerPred(x, LoopScope(env, base), <<>>)),
             Fine([k |-> "const", p |-> TRUE]), clauses)
-----------------------------------------------------------------------------
\* Evaluation.  None: the clause cannot be evaluated and is skipped.  Strings
\* are compared for equality only.
Known(v) == <<"known", v>>
IsKnown(r) == r[1] = "known"

Compared(op, x, y) ==
    LET rank(v) == IF v[1] = "bool" THEN (IF v[2] THEN 1 ELSE 0) ELSE v[2]
    IN  IF x[1] # y[1] \/ x[1] \notin {"int", "bool", "str", "unit"} THEN None
        ELSE IF op = "eq" THEN Known(x = y)
        ELSE IF op = "ne" THEN Known(x # y)
        ELSE IF x[1] = "unit" THEN Known(op \in {"le", "ge"})
        ELSE IF x[1] = "str" THEN None
        ELSE CASE op = "lt" -> Known(rank(x) < rank(y))
               [] op = "le" -> Known(rank(x) <= rank(y))
               [] op = "gt" -> Known(rank(x) > rank(y))
               [] op = "ge" -> Known(rank(x) >= rank(y))

\* Arithmetic on words; None when dividing by zero.
Calculated(op, x, y) ==
    CASE op = "add" -> Known(Num(Wrap(x + y)))
      [] op = "sub" -> Known(Num(Wrap(x - y)))
      [] op = "mul" -> Known(Num(Wrap(x * y)))
      [] op = "div" -> IF y = 0 THEN None ELSE Known(Num(Wrap(Truncated(x, y))))
      [] op = "rem" -> IF y = 0 THEN None
                       ELSE Known(Num(Wrap(x - y * Truncated(x, y))))

\* The elements of an array, a list or a string.
Items(v) ==
    CASE v[1] = "agg" -> v[3]
      [] v[1] = "list" -> v[2]
      [] v[1] = "str" -> [i \in DOMAIN v[2] |-> Num(v[2][i])]
IsCollection(v) == v[1] \in {"agg", "list", "str"}

\* A variable of a contract: a parameter, the result, a quantifier.
FlatLookup(params, result, binders, i) ==
    CASE i < Len(params) -> Known(params[i + 1])
      [] i = Len(params) -> result
      [] i - Len(params) \in DOMAIN binders -> Known(Num(binders[i - Len(params)]))
      [] OTHER -> None

\* Contracts know a function's values, its result (None before it returns)
\* and quantified numbers; an invariant knows the environment.
FlatValues(params, result) == [flat |-> TRUE, params |-> params, result |-> result]
LoopValues(env) == [flat |-> FALSE, env |-> env]

Lookup(vs, binders, a) ==
    CASE a[1] = "lit" -> Known(IF a[2][1] = "char" THEN Num(a[2][2]) ELSE a[2])
      [] a[1] = "fn" -> None
      [] vs.flat -> FlatLookup(vs.params, vs.result, binders, a[2])
      [] OTHER ->
            LET env == vs.env \o [i \in DOMAIN binders |-> Num(binders[i])]
            IN  IF a[2] < Len(env) THEN Known(env[Len(env) - a[2]]) ELSE None

RECURSIVE EvalOperand(_, _, _)
EvalOperand(x, vs, binders) ==
    LET ev(y) == EvalOperand(y, vs, binders)
        isInt(r) == IsKnown(r) /\ r[2][1] = "int"
    IN  CASE x.k = "atom" -> Lookup(vs, binders, x.a)
          [] x.k = "bin" ->
                IF isInt(ev(x.l)) /\ isInt(ev(x.r))
                THEN Calculated(x.op, ev(x.l)[2][2], ev(x.r)[2][2]) ELSE None
          [] x.k = "neg" -> IF isInt(ev(x.x)) THEN Known(Num(Wrap(-ev(x.x)[2][2])))
                            ELSE None
          [] x.k = "len" ->
                IF IsKnown(ev(x.x)) /\ IsCollection(ev(x.x)[2])
                THEN Known(Num(Len(Items(ev(x.x)[2])))) ELSE None
          [] x.k = "index" ->
                IF /\ isInt(ev(x.i)) /\ IsKnown(ev(x.x)) /\ IsCollection(ev(x.x)[2])
                   /\ ev(x.i)[2][2] + 1 \in DOMAIN Items(ev(x.x)[2])
                THEN Known(Items(ev(x.x)[2])[ev(x.i)[2][2] + 1]) ELSE None
          [] x.k = "proj" ->
                IF IsKnown(ev(x.x)) /\ ev(x.x)[2][1] = "agg"
                   /\ x.idx < Len(ev(x.x)[2][3])
                THEN Known(ev(x.x)[2][3][x.idx + 1]) ELSE None

\* And and or look at the right side only when the left one leaves it open; a
\* quantifier with a witness ignores what it cannot evaluate.
RECURSIVE EvalPred(_, _, _)
EvalPred(p, vs, binders) ==
    LET ev(q) == EvalPred(q, vs, binders)
    IN  CASE p.k = "const" -> Known(p.p)
          [] p.k = "cmp" ->
                LET x == EvalOperand(p.l, vs, binders)
                    y == EvalOperand(p.r, vs, binders)
                IN  IF IsKnown(x) /\ IsKnown(y) THEN Compared(p.op, x[2], y[2])
                    ELSE None
          [] p.k = "and" -> IF ev(p.l) = Known(TRUE) THEN ev(p.r) ELSE ev(p.l)
          [] p.k = "or" -> IF ev(p.l) = Known(FALSE) THEN ev(p.r) ELSE ev(p.l)
          [] p.k = "not" -> IF IsKnown(ev(p.p)) THEN Known(~ ev(p.p)[2]) ELSE None
          [] p.k = "quant" ->
                LET lo == EvalOperand(p.lo, vs, binders)
                    hi == EvalOperand(p.hi, vs, binders)
                    isInt(r) == IsKnown(r) /\ r[2][1] = "int"
                    seen == {EvalPred(p.p, vs, Append(binders, v)) :
                                v \in lo[2][2] .. hi[2][2] - 1}
                IN  IF ~ isInt(lo) \/ ~ isInt(hi) THEN None
                    ELSE IF Known(p.exists) \in seen THEN Known(p.exists)
                    ELSE IF None \in seen THEN None
                    ELSE Known(~ p.exists)

\* check_contracts: only a clause known to be false fails.
Holds(preds, params, result) ==
    \A i \in DOMAIN preds :
        EvalPred(preds[i], FlatValues(params, result), <<>>) # Known(FALSE)

\* eval_loop_invariant, each time the condition is about to be tested.
InvariantHolds(invariant, env) ==
    EvalPred(invariant, LoopValues(env), <<>>) # Known(FALSE)
====
