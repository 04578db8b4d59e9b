---- MODULE Lowering ----
(***************************************************************************)
(* Lowering of function bodies to Core (marv-core/src/lower.rs).  A surface*)
(* expression is a record with a field e, a statement one with a field s, a*)
(* tail one with a field t.  Mutable variables become rebindings, loops    *)
(* thread the variables they assign as a tuple.                            *)
(*                                                                         *)
(* A builder is the depth it starts at, its lets and the first error met   *)
(* ("" for none); Core variables are levels until ToIndices.               *)
(***************************************************************************)
EXTENDS CoreIr

CONSTANT
    Rets        \* function of the module -> its return type

Binding(name, atom, ty, mutable, carried) ==
    [name |-> name, atom |-> atom, ty |-> ty, mutable |-> mutable,
     carried |-> carried]

Builder(depth) == [base |-> depth, lets |-> <<>>, err |-> ""]
Depth(b) == b.base + Len(b.lets)
Failed(b, error) == [b EXCEPT !.err = IF @ = "" THEN error ELSE @]
Errs(b, err) == IF err = "" THEN b ELSE Failed(b, err)

\* What an emit yields: the builder after it, and an atom or a node.
Atomic(b, a) == [b |-> b, a |-> a]
Computed(b, n) == [b |-> b, n |-> n]
Push(b, rhs) ==
    Atomic([b EXCEPT !.lets = Append(@, rhs)], <<"var", Depth(b)>>)

Lit(v) == <<"lit", v>>
AtomCore(a) == [k |-> "atom", a |-> a]
Prim(op, args) == [k |-> "prim", op |-> op, args |-> args]
Ctor(ty, tag, fields) == [k |-> "ctor", ty |-> ty, tag |-> tag, fields |-> fields]
Branch(binds, body) == [binds |-> binds, body |-> body]
Match(scrutinee, branches) ==
    [k |-> "match", scrutinee |-> scrutinee, branches |-> branches]

Position(name, env) == SelectLastInSeq(env, LAMBDA x : x.name = name)
IsLocal(name, env) == Position(name, env) # 0
Local(name, env) == env[Position(name, env)].atom

\* <<enum, tag, arity>> of a variant; variants have different names here.
Variants == UNION {{<<en, i - 1, Len(Enums[en][i][2]), Enums[en][i][1]>> :
                        i \in DOMAIN Enums[en]} : en \in DOMAIN Enums}
IsVariant(name) == \E c \in Variants : c[4] = name
Variant(name) == CHOOSE c \in Variants : c[4] = name
-----------------------------------------------------------------------------
\* The surface type of an expression as far as lowering can tell.
PeelRef(ty) == IF ty[1] = "ref" THEN ty[2] ELSE ty

FieldIndex(ty, field) ==
    IF ty[1] = "nominal" /\ ty[2] \in DOMAIN Structs
    THEN SelectInSeq(Structs[ty[2]], LAMBDA f : f[1] = field)
    ELSE 0

FieldType(ty, field) ==
    LET i == FieldIndex(ty, field) IN IF i = 0 THEN None ELSE Structs[ty[2]][i][2]

ItemType(ty) ==
    CASE ty[1] \in {"array", "slice"} -> ty[2]
      [] ty[1] = "str" -> <<"char">>
      [] IsList(ty) -> ty[3][1]
      [] OTHER -> None

RefTo(ty) == IF ty = None THEN None ELSE <<"ref", ty>>

RECURSIVE TypeOfExpr(_, _)
ElemType(items, env) ==
    IF items = <<>> THEN <<"unit">>
    ELSE LET ty == TypeOfExpr(items[1], env)
         IN  IF ty # None THEN ty
             ELSE IF items[1].e = "lit" THEN LitType(items[1].v) ELSE <<"unit">>

TypeOfExpr(x, env) ==
    LET of(y) == PeelRef(TypeOfExpr(y, env))
    IN  CASE x.e = "var" ->
                IF IsLocal(x.x, env) THEN env[Position(x.x, env)].ty ELSE None
          [] x.e = "field" -> FieldType(of(x.of), x.f)
          [] x.e = "call" /\ x.f = "push" -> TypeOfExpr(x.args[2], env)
          [] x.e = "call" /\ x.f \in {"pop", "set"} -> TypeOfExpr(x.args[1], env)
          [] x.e = "call" /\ x.f = "get" ->
                LET ty == of(x.args[1]) IN IF IsList(ty) THEN ty[3][1] ELSE None
          [] x.e = "call" /\ x.f = "len" -> <<"usize">>
          [] x.e = "call" /\ x.f = "from_chars" -> <<"str">>
          [] x.e = "call" /\ x.f \in DOMAIN Rets -> Rets[x.f]
          [] x.e = "struct" -> <<"nominal", x.ty, <<>>>>
          [] x.e = "list" -> ListOf(ElemType(x.items, env))
          [] x.e = "index" -> ItemType(of(x.of))
          [] x.e = "slice" -> IF of(x.of)[1] = "str" THEN <<"str">> ELSE None
          [] x.e = "cast" -> x.ty
          [] x.e = "bin" /\ x.op = "add" ->
                IF TypeOfExpr(x.r, env) = None THEN None ELSE TypeOfExpr(x.l, env)
          [] x.e = "array" -> <<"array", ElemType(x.items, env), Len(x.items)>>
          [] x.e = "un" /\ x.op = "neg" -> TypeOfExpr(x.of, env)
          [] x.e = "un" /\ x.op = "not" -> <<"bool">>
          [] x.e = "un" /\ x.op = "ref" -> RefTo(TypeOfExpr(x.of, env))
          [] OTHER -> None
-----------------------------------------------------------------------------
\* Expressions.
ListOps == {"push", "pop", "get", "set", "len"}
Builtins == ListOps \cup {"from_chars"}

\* An expression with the type it is meant to have: new() and a list literal
\* learn their elements from it.
Typed(x, ty) == IF ty = None THEN x ELSE [e |-> "typed", of |-> x, ty |-> ty]
Bare(x) == IF x.e = "typed" THEN x.of ELSE x
Expected(x) == IF x.e = "typed" THEN x.ty ELSE None
IsNewList(x, env) ==
    /\ x.e = "typed" /\ IsList(x.ty)
    /\ x.of.e = "call" /\ x.of.f \in {"new", "with_capacity"} /\ ~ IsLocal(x.of.f, env)

\* A struct's initializers in declaration order, and what can be wrong with them.
InitOf(x, field) == SelectInSeq(x.inits, LAMBDA i : i[1] = field)
StructError(x) ==
    LET decl == Structs[x.ty]
    IN  IF \E i \in DOMAIN x.inits : \A j \in DOMAIN decl : decl[j][1] # x.inits[i][1]
        THEN "unknown field"
        ELSE IF \E j \in DOMAIN decl : InitOf(x, decl[j][1]) = 0 THEN "missing field"
        ELSE ""

\* The operands of an expression in the order they are evaluated.
Subexprs(x) ==
    CASE x.e \in {"cast", "un", "field", "typed"} -> <<x.of>>
      [] x.e = "bin" -> <<x.l, x.r>>
      [] x.e = "index" -> <<x.of, x.i>>
      [] x.e = "slice" -> <<x.of, x.lo, x.hi>>
      [] x.e = "array" -> x.items
      [] x.e = "struct" ->
            [j \in DOMAIN Structs[x.ty] |-> x.inits[InitOf(x, Structs[x.ty][j][1])][2]]
      [] x.e = "call" -> x.args
      [] x.e = "method" -> <<x.of>> \o x.args

\* The node of a built-in operation on lists, strings or collections.
BuiltinNode(f, as) ==
    CASE f = "push" ->
            [k |-> "list_push", alloc |-> as[1], list |-> as[2], value |-> as[3]]
      [] f = "pop" -> [k |-> "list_pop", list |-> as[1]]
      [] f = "get" -> Prim("index", as)
      [] f = "set" ->
            [k |-> "list_set", list |-> as[1], index |-> as[2], value |-> as[3]]
      [] f \in {"len", "from_chars"} -> Prim(f, as)

\* The node of an expression over the atoms of its operands.
NodeOf(x, as, env) ==
    CASE x.e = "cast" -> [k |-> "cast", value |-> as[1], to |-> x.ty]
      [] x.e = "un" /\ x.op = "ref" -> [k |-> "ref", of |-> as[1]]
      [] x.e = "bin" \/ (x.e = "un" /\ x.op # "ref") -> Prim(x.op, as)
      [] x.e \in {"index", "slice"} -> Prim(x.e, as)
      [] x.e = "field" ->
            [k |-> "proj", base |-> as[1],
             idx |-> FieldIndex(PeelRef(TypeOfExpr(x.of, env)), x.f) - 1]
      [] x.e = "array" ->
            [k |-> "array", elem |-> ElemType(x.items, env), fields |-> as]
      [] x.e = "struct" -> Ctor(x.ty, 0, as)
      [] x.e = "call" /\ x.f \in Builtins -> BuiltinNode(x.f, as)
      [] x.e = "call" /\ x.f \notin Builtins -> Ctor(Variant(x.f)[1], Variant(x.f)[2], as)

\* A node that projects a field no declaration has is an error.
WithNode(b, n) ==
    Computed(IF n.k = "proj" /\ n.idx < 0 THEN Failed(b, "unresolved projection") ELSE b, n)

\* A compound node becomes a let, a node that is an atom does not.
Bound(r) == IF r.n.k = "atom" THEN Atomic(r.b, r.n.a) ELSE Push(r.b, r.n)

RECURSIVE EmitTail(_, _, _)
EmitAtom(x, env, b) == Bound(EmitTail(x, env, b))

\* The atoms of several expressions, left to right.
AddAtom(acc, r) == [b |-> r.b, as |-> Append(acc.as, r.a)]
EmitAtoms(xs, env, b) ==
    FoldLeft(LAMBDA acc, x : AddAtom(acc, EmitAtom(x, env, acc.b)),
             [b |-> b, as |-> <<>>], xs)

\* A new list of exactly the capacity, then one push per item.
NewList(elem, capacity, alloc) ==
    Push(alloc.b, [k |-> "list_new", elem |-> elem, alloc |-> alloc.a,
                   capacity |-> capacity])
PushItem(list, alloc, v) ==
    Push(v.b, [k |-> "list_push", alloc |-> alloc, list |-> list.a, value |-> v.a])
EmitItems(items, env, list, alloc) ==
    FoldLeft(LAMBDA acc, item : PushItem(acc, alloc, EmitAtom(item, env, acc.b)),
             list, items)
FilledList(x, elem, env, alloc) ==
    EmitItems(x.items, env, NewList(elem, Lit(Num(Len(x.items))), alloc), alloc.a)
EmitListLiteral(x, expected, env, b) ==
    FilledList(x, IF IsList(expected) THEN expected[3][1] ELSE ElemType(x.items, env),
               env, EmitAtom(x.alloc, env, b))

\* List.new and List.with_capacity where a list type is expected.
EmitNewList(x, ty, r) ==
    NewList(ty[3][1], IF x.f = "new" THEN Lit(Num(0)) ELSE r.as[2],
            Atomic(r.b, r.as[1]))

\* A call is curried: a let per argument but the last; no argument is ().  A
\* method call passes its receiver first, to a definition.
Applied(func, v) == Computed(v.b, [k |-> "app", func |-> func.a, arg |-> v.a])
CallArgs(x) ==
    IF Subexprs(x) = <<>> THEN <<[e |-> "lit", v |-> Unit]>> ELSE Subexprs(x)
Callee(x, env, b) ==
    IF x.e = "call" /\ IsLocal(x.f, env) THEN Atomic(b, Local(x.f, env))
    ELSE Atomic(b, <<"fn", x.f>>)
EmitCall(x, env, b) ==
    LET app(acc, arg) == Applied(acc, EmitAtom(arg, env, acc.b))
        args == CallArgs(x)
    IN  app(FoldLeft(LAMBDA acc, arg : Bound(app(acc, arg)), Callee(x, env, b),
                     Front(args)),
            Last(args))

IsCurried(x, env) ==
    \/ x.e = "method"
    \/ x.e = "call" /\ (IsLocal(x.f, env) \/ (x.f \notin Builtins /\ ~ IsVariant(x.f)))

AsNode(r) == Computed(r.b, AtomCore(r.a))

\* The node of an expression, its operands emitted: not bound, as the last
\* computation of a block is.  A variable is a local first, then a nullary
\* variant, then a definition.  e? is its operand.
EmitTail(x, env, b) ==
    CASE x.e = "lit" -> AsNode(Atomic(b, Lit(x.v)))
      [] x.e = "var" ->
            AsNode(IF IsLocal(x.x, env) THEN Atomic(b, Local(x.x, env))
                   ELSE IF IsVariant(x.x) /\ Variant(x.x)[3] = 0
                   THEN Push(b, Ctor(Variant(x.x)[1], Variant(x.x)[2], <<>>))
                   ELSE Atomic(b, <<"fn", x.x>>))
      [] x.e = "try" -> EmitTail(x.of, env, b)
      [] Bare(x).e = "list" ->
            AsNode(EmitListLiteral(Bare(x), Expected(x), env, b))
      [] x.e = "quant" -> AsNode(Atomic(Failed(b, "quantifier"), Lit(Unit)))
      [] IsNewList(x, env) ->
            AsNode(EmitNewList(x.of, x.ty, EmitAtoms(x.of.args, env, b)))
      [] x.e = "typed" /\ Bare(x).e # "list" /\ ~ IsNewList(x, env) ->
            EmitTail(x.of, env, b)
      [] x.e = "struct" /\ StructError(x) # "" ->
            AsNode(Atomic(Failed(b, StructError(x)), Lit(Unit)))
      [] IsCurried(x, env) -> EmitCall(x, env, b)
      [] OTHER ->
            LET r == EmitAtoms(Subexprs(x), env, b)
            IN  WithNode(r.b, NodeOf(x, r.as, env))
====
