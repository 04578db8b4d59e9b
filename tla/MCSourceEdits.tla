---- MODULE MCSourceEdits ----
(***************************************************************************)
(* Modules of three functions with every reference graph over them, one    *)
(* reference out of the module, bound or not, and one capability interface *)
(* that a function of the module takes as a parameter; and modules of one  *)
(* function whose tree is larger: every construct in every place of every  *)
(* other one, chains of three, and expressions in every place of           *)
(* statements, heads and contracts.                                        *)
(***************************************************************************)
EXTENDS SourceEdits, Parser

var(x) == [e |-> "name", x |-> x]
num == [e |-> "num", x |-> "1"]
bin(l, op, r) == [e |-> "bin", op |-> op, l |-> l, r |-> r]
un(op, x) == [e |-> "un", op |-> op, of |-> x]
index(x, at) == [e |-> "index", of |-> x, at |-> at]
call(x, args) == [e |-> "call", of |-> x, args |-> args]
slice(x, lo, hi) == [e |-> "slice", of |-> x, lo |-> lo, hi |-> hi]
array(xs) == [e |-> "array", args |-> xs]
init(x, value) == [x |-> x, value |-> value]
struct(x, inits) == [e |-> "struct", x |-> x, inits |-> inits]
coll(x, inits) == [e |-> "coll", x |-> x, inits |-> inits]
cast(x, ty) == [e |-> "cast", of |-> x, type |-> ty]
quant(lo, hi, body) ==
    [e |-> "quant", op |-> "forall", x |-> "y", lo |-> lo, hi |-> hi, body |-> body]

named(x) == [ty |-> "named", path |-> <<x>>]
Types ==
    LET list == [ty |-> "generic", path |-> <<"m", "List">>, args |-> <<named("T"), named("T")>>]
        result == [ty |-> "union", payload |-> <<list>>]
    IN  {[ty |-> "unit"], list, result, [ty |-> "union", payload |-> <<>>],
         [ty |-> "ref", mut |-> TRUE, of |-> [ty |-> "slice", of |-> named("T")]],
         [ty |-> "array", len |-> "1", of |-> [ty |-> "ref", mut |-> FALSE, of |-> list]],
         [ty |-> "optional", of |-> result]}

\* What applies or is applied to an expression like a postfix.
Postfixed(x) ==
    {[e |-> "field", of |-> x, x |-> "f"], call(x, <<>>), index(x, num),
     slice(x, num, num), [e |-> "try", of |-> x], cast(x, named("T"))}
Prefixed(x) == {un(<<"-">>, x), un(<<"not">>, x), un(<<"&">>, x), un(<<"&", "mut">>, x)}
Operated(x) ==
    UNION {{bin(x, op, var("x")), bin(var("x"), op, x)} : op \in {"or", "and", "<", "+", "-", "*"}}
Enclosed(x) ==
    {call(var("x"), <<x, num>>), index(var("x"), x), slice(var("x"), x, num),
     slice(var("x"), num, x), array(<<x>>), struct("P", <<init("f", x), init("g", num)>>),
     coll("List", <<init("alloc", x), init("items", array(<<x>>))>>),
     coll("Map", <<init("keys", array(<<x>>)), init("values", array(<<>>))>>),
     struct("Map", <<init("keys", x)>>), quant(x, num, num), quant(num, x, num),
     quant(num, num, x)}

Around(x) == Postfixed(x) \cup Prefixed(x) \cup Operated(x) \cup Enclosed(x)

Atoms == {var("x"), [e |-> "unit"], struct("P", <<>>)}
Small == Atoms \cup Around(var("x"))
Pairs == UNION {Around(x) : x \in Small}
Chains ==
    LET link(x) == Postfixed(x) \cup {un(<<"-">>, x), bin(x, "-", num), bin(num, "*", x),
                                      quant(num, num, x)}
    IN  UNION {link(y) : y \in UNION {link(x) : x \in Prefixed(var("x")) \cup Atoms}}

Fun(requires, ensures, body) == [requires |-> requires, ensures |-> ensures, body |-> body]
Only(tail) == Block(<<>>, tail)
Let(x, type, value) == [e |-> "let", x |-> x, type |-> type, value |-> value]
Assign(lv, value) == [e |-> "assign", lv |-> lv, value |-> value]
While(cond, invariants, body) ==
    [e |-> "while", cond |-> cond, invariants |-> invariants, body |-> body]
For(iter, body) == [e |-> "for", x |-> "_", iter |-> iter, body |-> body]
If(cond, then, els) == [e |-> "if", cond |-> cond, then |-> then, els |-> els]
Match(x, arms) == [e |-> "match", of |-> x, arms |-> arms]
Arm(path, fields, body) == [pat |-> [path |-> path, fields |-> fields], body |-> body]

Computes(x) == Fun(<<>>, <<>>, Only(x))

\* The expression in every other place of a function.
Placed(x) ==
    LET done == Block(<<Assign(var("x"), num)>>, None)
        empty == Only(None)
        stmt(st) == {Fun(<<>>, <<>>, Block(<<st>>, None)),
                     Fun(<<>>, <<>>, Block(<<st, st>>, num))}
        tail(t) == {Fun(<<>>, <<>>, Only(t)),
                    Fun(<<>>, <<>>, Block(<<Let("y", <<>>, num)>>, t))}
    IN  UNION {stmt(st) : st \in
                {Let("y", <<named("T")>>, x), Assign(var("x"), x),
                 Assign(index([e |-> "field", of |-> var("x"), x |-> "f"], x), num),
                 While(x, <<>>, done), While(var("x"), <<x, num>>, done),
                 While(x, <<x>>, empty), For(x, done), For(x, Only(x))}}
        \cup UNION {tail(t) : t \in
                {[e |-> "return", xs |-> <<x>>], If(x, empty, None),
                 If(x, Only(x), done),
                 If(var("x"), empty, If(x, Only([e |-> "return", xs |-> <<>>]), None)),
                 Match(x, <<Arm(<<"_">>, <<>>, num)>>), Match(x, <<>>),
                 Match(var("x"), <<Arm(<<"E", "A">>, <<"_", "y">>, x),
                                    Arm(<<"A">>, <<>>, Only(x))>>)}}
        \cup {Fun(<<x>>, <<>>, empty), Fun(<<x>>, <<num, x>>, done)}

InHeads == Atoms \cup Postfixed(struct("P", <<>>)) \cup Operated(struct("P", <<>>))
            \cup Enclosed(struct("P", <<>>)) \cup {un(<<"&">>, x) : x \in Atoms}

Trees ==
    {Computes(x) : x \in Pairs \cup Chains} \cup UNION {Placed(x) : x \in InHeads}
        \cup {Fun(<<>>, <<>>, Block(<<Let("x", <<ty>>, cast(num, ty))>>, None)) : ty \in Types}

Simple == Computes(num)
MCNewTags == {Simple, Computes(var("x"))}
MCNames == {"x", "y", "f", "g", "P", "T", "E", "A", "m", "_", "List", "Map", "alloc", "items",
            "keys", "values", "requires", "ensures", "invariant"}

Fn(name, refs, row) ==
    [name |-> name, kind |-> "fn", tag |-> Simple, refs |-> refs, row |-> row,
     ops |-> {}, unsafe |-> {}]

Capability(name) == [Fn(name, <<>>, {}) EXCEPT !.kind = "interface"]

MCLocked == [locked |-> MemberHash(ComponentHash(<<"other">>), 1)]

RefLists == {<<>>, <<"f">>, <<"g">>, <<"h">>, <<"f", "g">>, <<"h", "f">>}

ThreeFunctions ==
    {<<Fn("f", rf, {}), Fn("g", rg, {}), Fn("h", rh \o <<"locked", "unknown">>, {})>> :
        rf \in RefLists, rg \in RefLists, rh \in RefLists}

WithCapability ==
    {<<Capability("f"), Fn("g", <<>>, {"f"}), Fn("h", rh, {})>> : rh \in RefLists}

OneFunction(tree) == <<[Fn("f", <<"f">>, {}) EXCEPT !.tag = tree]>>

MCSources == ThreeFunctions \cup WithCapability \cup {OneFunction(tree) : tree \in Trees}

\* A prefix operator below everything that is written after its operand.
MCPrefixSources ==
    {OneFunction(Computes(x)) : x \in UNION {Postfixed(y) : y \in Prefixed(var("x"))}}
====
