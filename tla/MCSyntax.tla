---- MODULE MCSyntax ----
(***************************************************************************)
(* Notation for the surface programs of MCCompile and MCVerify: the parsed *)
(* trees LowerBody takes, each built by an operator with a short name.     *)
(***************************************************************************)
EXTENDS CoreIr

I64 == <<"i64">>
Nominal(name) == <<"nominal", name, <<>>>>
ListI == ListOf(I64)

v(x) == [e |-> "var", x |-> x]
n(i) == [e |-> "lit", v |-> Num(i)]
s(cs) == [e |-> "lit", v |-> Str(cs)]
bin(op, l, r) == [e |-> "bin", op |-> op, l |-> l, r |-> r]
plus(l, r) == bin("add", l, r)
un(op, x) == [e |-> "un", op |-> op, of |-> x]
fld(x, f) == [e |-> "field", of |-> x, f |-> f]
at(x, i) == [e |-> "index", of |-> x, i |-> i]
arr(xs) == [e |-> "array", items |-> xs]
pair(x, y) == [e |-> "struct", ty |-> "Pair", inits |-> <<<<"b", y>>, <<"a", x>>>>]
wrap(p, k) == [e |-> "struct", ty |-> "Wrap", inits |-> <<<<"pair", p>>, <<"k", k>>>>]
call(f, xs) == [e |-> "call", f |-> f, args |-> xs]
let(x, y) == [s |-> "let", x |-> x, ty |-> None, value |-> y]
var(x, y) == [s |-> "var", x |-> x, ty |-> None, value |-> y]
varT(x, t, y) == [s |-> "var", x |-> x, ty |-> t, value |-> y]
set(x, y) == [s |-> "assign", lv |-> x, value |-> y]
while(c, b) == [s |-> "while", cond |-> c, invariants |-> <<>>, body |-> b]
for(x, xs, b) == [s |-> "for", x |-> x, iter |-> xs, body |-> b]
block(ss, t) == [stmts |-> ss, tail |-> t]
none == [t |-> "none"]
ex(x) == [t |-> "expr", x |-> x]
ret(x) == [t |-> "return", x |-> x]
ifelse(c, a, b) == [t |-> "if", cond |-> c, then |-> a, els |-> b]
match(x, arms) == [t |-> "match", of |-> x, arms |-> arms]
arm(p, bs, body) == [pat |-> p, binds |-> bs, body |-> body]
blk(b) == [t |-> "block", block |-> b]
fn(ps, ts, r, b) == [params |-> ps, types |-> ts, ret |-> r, body |-> b,
                     requires |-> <<>>, ensures |-> <<>>]
main1(b) == [main |-> fn(<<"n">>, <<I64>>, I64, b)]
less(x, i) == bin("lt", v(x), n(i))
inc(x) == set(v(x), plus(v(x), n(1)))
main2(b) == [main |-> fn(<<"al", "n">>, <<Nominal("Alloc"), I64>>, I64, b)]
cmp(op, x, y) == bin(op, x, y)
times(x, i) == bin("mul", x, n(i))
f(x, g) == fld(v(x), g)
lits(xs) == [e |-> "list", items |-> xs, alloc |-> v("al")]
push(x, y) == set(v(x), call("push", <<v("al"), v(x), y>>))
cast(x, ty) == [e |-> "cast", of |-> x, ty |-> ty]
slice(x, lo, hi) == [e |-> "slice", of |-> x, lo |-> lo, hi |-> hi]
calls(g, x) == call(g, <<x>>)
truth(p) == [e |-> "lit", v |-> Truth(p)]
all(x, lo, hi, p) == [e |-> "quant", exists |-> FALSE, x |-> x, lo |-> lo, hi |-> hi, body |-> p]
some(x, lo, hi, p) == [all(x, lo, hi, p) EXCEPT !.exists = TRUE]
res == v("result")
====
