---- MODULE CoreIr ----
(***************************************************************************)
(* The Core IR of marv-core as data: terms in A-normal form whose operands *)
(* are atoms, the types and the values they denote, the rewriting of       *)
(* levels to indices that ends lowering, and the type oracle the code      *)
(* generators share (marv-types/src/layout.rs).                            *)
(*                                                                         *)
(* A term is a record with a field k (its node); an atom is <<"var", i>>,  *)
(* <<"lit", v>> or <<"fn", name>>; a type is a tuple that starts with its  *)
(* constructor; a value is a tuple that starts with its kind.  Integers    *)
(* have Width bits; a char is its code point.                              *)
(***************************************************************************)
EXTENDS Integers, Sequences, SequencesExt

CONSTANTS
    Width,     \* bits of the machine word (64 in the code)
    Narrow,    \* bits of the narrow integer types (8 in the code)
    Structs,   \* struct name -> its fields <<name, type>> in order
    Enums      \* enum name -> its variants <<name, field types>> in order

ASSUME WidthAssumption ==
    Width \in Nat \ {0} /\ Narrow \in Nat \ {0} /\ Narrow <= Width

None == <<"none">>
Unit == <<"unit">>
Num(n) == <<"int", n>>
Truth(p) == <<"bool", p>>
Str(chars) == <<"str", chars>>
Agg(tag, fields) == <<"agg", tag, fields>>
List(items, cap) == <<"list", items, cap>>

IntType == <<"i64">>
ListOf(elem) == <<"nominal", "List", <<elem>>>>
IsList(ty) == ty[1] = "nominal" /\ ty[2] = "List" /\ Len(ty[3]) = 1

\* The residue of n that a two's complement integer of that many bits holds.
Signed(n, bits) ==
    LET r == n % 2 ^ bits IN IF r >= 2 ^ (bits - 1) THEN r - 2 ^ bits ELSE r
Wrap(n) == Signed(n, Width)

\* Division that truncates toward zero.
Truncated(x, y) ==
    LET abs(n) == IF n < 0 THEN -n ELSE n
        q == abs(x) \div abs(y)
    IN  IF (x < 0) = (y < 0) THEN q ELSE -q
-----------------------------------------------------------------------------
\* Lets around a tail, in evaluation order.
FoldLets(lets, tail) ==
    FoldRight(LAMBDA value, body : [k |-> "let", value |-> value, body |-> body],
              lets, tail)

AtomToIndex(a, depth) ==
    IF a[1] = "var" THEN <<"var", depth - 1 - a[2]>> ELSE a

AtomsToIndex(as, depth) == [i \in DOMAIN as |-> AtomToIndex(as[i], depth)]

\* The operands of the nodes that bind nothing.
Operands == {"a", "func", "arg", "base", "index", "value", "alloc", "list",
             "capacity", "scrutinee", "of"}

RECURSIVE CExprToIndex(_, _, _)
CExprToIndex(e, depth, q) ==
    LET to(x) == CExprToIndex(x, depth, q)
    IN  CASE e.k = "atom" -> [e EXCEPT !.a = AtomToIndex(@, depth + q)]
          [] e.k = "bin" -> [e EXCEPT !.l = to(@), !.r = to(@)]
          [] e.k \in {"neg", "len", "proj"} -> [e EXCEPT !.x = to(@)]
          [] e.k = "index" -> [e EXCEPT !.x = to(@), !.i = to(@)]

\* Inside q quantifiers of an invariant a level converts at depth + q.
RECURSIVE PredToIndex(_, _, _)
PredToIndex(p, depth, q) ==
    CASE p.k = "const" -> p
      [] p.k = "cmp" -> [p EXCEPT !.l = CExprToIndex(@, depth, q),
                                  !.r = CExprToIndex(@, depth, q)]
      [] p.k \in {"and", "or"} -> [p EXCEPT !.l = PredToIndex(@, depth, q),
                                            !.r = PredToIndex(@, depth, q)]
      [] p.k = "not" -> [p EXCEPT !.p = PredToIndex(@, depth, q)]
      [] p.k = "quant" -> [p EXCEPT !.lo = CExprToIndex(@, depth, q),
                                    !.hi = CExprToIndex(@, depth, q),
                                    !.p = PredToIndex(@, depth, q + 1)]

\* A term whose variables are levels, as one whose variables are indices;
\* depth is the number of binders around it.
RECURSIVE ToIndices(_, _)
ToIndices(c, depth) ==
    CASE c.k = "let" ->
            [c EXCEPT !.value = ToIndices(@, depth),
                      !.body = ToIndices(@, depth + 1)]
      [] c.k = "match" ->
            [c EXCEPT !.scrutinee = AtomToIndex(@, depth),
                      !.branches = [i \in DOMAIN @ |->
                          [@[i] EXCEPT !.body = ToIndices(@, depth + c.branches[i].binds)]]]
      [] c.k = "loop" ->
            LET inside == depth + Len(c.state)
            IN  [c EXCEPT !.state = AtomsToIndex(@, depth),
                          !.invariant = PredToIndex(@, inside, 0),
                          !.cond = ToIndices(@, inside),
                          !.body = ToIndices(@, inside)]
      [] OTHER ->
            [f \in DOMAIN c |->
                IF f \in Operands THEN AtomToIndex(c[f], depth)
                ELSE IF f \in {"fields", "args"} THEN AtomsToIndex(c[f], depth)
                ELSE c[f]]
-----------------------------------------------------------------------------
(* layout.rs.  A type environment lists the types of the binders in scope, *)
(* the innermost last; Globals maps a function to its arrow type.          *)

Aggregates == DOMAIN Structs \cup DOMAIN Enums

IsBoxed(ty) ==
    \/ ty[1] \in {"tuple", "array"}
    \/ IsList(ty)
    \/ ty[1] = "nominal" /\ ty[2] \in Aggregates

\* A field type with the type arguments in place of the type variables.
RECURSIVE Subst(_, _)
Subst(ty, args) ==
    CASE ty[1] = "var" -> IF ty[2] \in DOMAIN args THEN args[ty[2]] ELSE ty
      [] ty[1] = "nominal" ->
            <<ty[1], ty[2], [i \in DOMAIN ty[3] |-> Subst(ty[3][i], args)]>>
      [] OTHER -> ty

\* None when the type has no such variant.
VariantFields(ty, tag) ==
    CASE ty[1] = "tuple" /\ tag = 0 -> <<"some", ty[2]>>
      [] ty[1] = "nominal" /\ ty[2] \in DOMAIN Structs /\ tag = 0 ->
            LET fields == Structs[ty[2]]
            IN  <<"some", [i \in DOMAIN fields |-> Subst(fields[i][2], ty[3])]>>
      [] ty[1] = "nominal" /\ ty[2] \in DOMAIN Enums /\ tag < Len(Enums[ty[2]]) ->
            LET fields == Enums[ty[2]][tag + 1][2]
            IN  <<"some", [i \in DOMAIN fields |-> Subst(fields[i], ty[3])]>>
      [] OTHER -> None

LitType(v) ==
    CASE v[1] = "int" -> IntType
      [] v[1] = "char" -> <<"char">>
      [] OTHER -> <<v[1]>>

AtomType(globals, a, tys) ==
    CASE a[1] = "lit" -> LitType(a[2])
      [] a[1] = "fn" -> IF a[2] \in DOMAIN globals THEN globals[a[2]] ELSE None
      [] OTHER -> IF a[2] < Len(tys) THEN tys[Len(tys) - a[2]] ELSE None

PrimType(globals, op, args, tys) ==
    LET first == AtomType(globals, args[1], tys)
    IN  CASE op \in {"eq", "ne", "lt", "le", "gt", "ge", "and", "or", "not"} ->
                <<"bool">>
          [] op \in {"add", "sub", "mul", "div", "rem", "neg"} -> first
          [] op = "len" -> <<"usize">>
          [] op = "index" ->
                (CASE first[1] \in {"array", "slice"} -> first[2]
                   [] first[1] = "str" -> <<"char">>
                   [] IsList(first) -> first[3][1]
                   [] OTHER -> None)
          [] OTHER -> <<"str">>

RECURSIVE TypeOf(_, _, _)
TypeOf(globals, c, tys) ==
    LET atom(a) == AtomType(globals, a, tys)
    IN  CASE c.k = "atom" -> atom(c.a)
          [] c.k = "let" ->
                TypeOf(globals, c.body, Append(tys, TypeOf(globals, c.value, tys)))
          [] c.k = "app" ->
                IF atom(c.func)[1] = "arrow" THEN atom(c.func)[3] ELSE None
          [] c.k = "ctor" -> <<"nominal", c.ty, <<>>>>
          [] c.k = "array" -> <<"array", c.elem, Len(c.fields)>>
          [] c.k = "index_set" -> atom(c.base)
          [] c.k = "list_new" -> ListOf(c.elem)
          [] c.k \in {"list_push", "list_pop", "list_set"} -> atom(c.list)
          [] c.k = "proj" ->
                LET fields == VariantFields(atom(c.base), 0)
                IN  IF fields # None /\ c.idx < Len(fields[2])
                    THEN fields[2][c.idx + 1] ELSE None
          [] c.k = "match" ->
                IF c.branches = <<>> THEN None
                ELSE TypeOf(globals, c.branches[1].body,
                            tys \o [i \in 1 .. c.branches[1].binds |-> None])
          [] c.k = "prim" -> PrimType(globals, c.op, c.args, tys)
          [] c.k = "cast" -> c.to
          [] c.k = "ref" -> <<"ref", atom(c.of)>>
          [] c.k = "loop" ->
                <<"tuple", [i \in DOMAIN c.state |->
                               IF atom(c.state[i]) = None THEN <<"unit">>
                               ELSE atom(c.state[i])]>>
          [] OTHER -> None
====
