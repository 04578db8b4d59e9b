---- MODULE MCVerify ----
EXTENDS Verify, MCSyntax

Bool == <<"bool">>
MCStructs == [Pair |-> <<<<"a", I64>>, <<"b", I64>>>>]
MCEnums == [Shape |-> <<<<"Dot", <<>>>>, <<"Line", <<I64>>>>, <<"Rect", <<I64, Bool>>>>>>]
MCRets == [main |-> I64]

\* A function with its contracts.
fun(ps, ts, r, requires, ensures, b) ==
    [main |-> [fn(ps, ts, r, b) EXCEPT !.requires = requires, !.ensures = ensures]]
of(requires, ensures, b) == fun(<<"n">>, <<I64>>, I64, requires, ensures, b)
val(x) == block(<<>>, ex(x))
cond(c, x, y) == block(<<>>, ifelse(c, val(x), blk(val(y))))
loop(c, invs, b) == [while(c, b) EXCEPT !.invariants = invs]
ge(x, y) == cmp("ge", x, y)
gt(x, y) == cmp("gt", x, y)
lt(x, y) == cmp("lt", x, y)
eq(x, y) == cmp("eq", x, y)
both(p, q) == bin("and", p, q)
either(p, q) == bin("or", p, q)
N0 == n(0)
vn == v("n")

\* Expressions over one number.
Bodies ==
    <<val(plus(vn, n(1))), val(times(vn, 2)), val(un("neg", vn)), val(bin("div", vn, n(2))),
      val(bin("rem", vn, n(3))), val(bin("div", n(3), vn)), val(bin("rem", n(3), vn)),
      cond(lt(vn, N0), un("neg", vn), vn),
      cond(both(gt(vn, N0), cmp("ne", vn, n(2))), bin("sub", vn, n(2)), bin("mul", vn, vn))>>
Requires ==
    <<truth(TRUE), ge(vn, N0), both(gt(vn, n(-3)), cmp("le", vn, n(2))),
      all("i", N0, vn, cmp("ne", times(v("i"), 2), vn))>>
Ensures ==
    <<gt(res, vn), ge(res, N0), eq(times(res, 2), vn), un("not", eq(bin("div", res, vn), n(1))),
      either(lt(vn, N0), cmp("le", res, vn)), some("i", n(-1), n(3), eq(v("i"), res))>>
LineProgram(i, j, k) == of(<<Requires[j]>>, <<Ensures[k]>>, Bodies[i])

\* Structs and enums: parameters, fields, arms, values of two branches.
p(g) == fld(v("p"), g)
DataBodies ==
    <<fun(<<"p">>, <<Nominal("Pair")>>, Nominal("Pair"), <<lt(p("a"), p("b"))>>,
          <<gt(fld(res, "a"), fld(res, "b"))>>, val(pair(p("b"), p("a")))),
      fun(<<"p">>, <<Nominal("Pair")>>, Nominal("Pair"), <<>>,
          <<cmp("le", fld(res, "a"), fld(res, "b"))>>,
          cond(lt(p("a"), p("b")), v("p"), pair(p("b"), p("a")))),
      fun(<<"p">>, <<Nominal("Pair")>>, I64, <<>>, <<ge(res, p("a"))>>,
          block(<<var("q", v("p")), set(fld(v("q"), "a"), p("b"))>>,
                ifelse(gt(p("a"), fld(v("q"), "a")), val(p("a")), blk(val(fld(v("q"), "a")))))),
      fun(<<"s", "n">>, <<Nominal("Shape"), I64>>, I64, <<ge(vn, N0)>>, <<ge(res, N0)>>,
          block(<<>>, match(v("s"),
            <<arm("Dot", <<>>, ex(vn)), arm("Line", <<"x">>, ex(un("neg", v("x")))),
              arm("Rect", <<"x", "b">>, ex(bin("mul", v("x"), v("x"))))>>))),
      fun(<<"s", "n">>, <<Nominal("Shape"), I64>>, I64, <<>>, <<cmp("le", res, vn)>>,
          block(<<>>, match(v("s"),
            <<arm("Rect", <<"_", "b">>, blk(cond(v("b"), vn, n(-4)))), arm("_", <<>>, ex(vn))>>))),
      fun(<<"b", "n">>, <<Bool, I64>>, Nominal("Shape"), <<eq(v("b"), truth(TRUE))>>, <<ge(vn, N0)>>,
          block(<<>>, ifelse(v("b"), val(calls("Line", n(1))), blk(val(v("Dot"))))))>>

\* Arrays and lists: a subscript, a store, growing and shrinking.
a(i) == at(v("a"), i)
ArrayT == <<"array", I64, 2>>
Aligned(requires, ensures, r, b) ==
    fun(<<"al", "xs", "n">>, <<Nominal("Alloc"), ListI, I64>>, r, requires, ensures, b)
xs == v("xs")
size == calls("len", xs)
get(x, i) == call("get", <<x, i>>)
ItemBodies ==
    <<fun(<<"a", "n">>, <<ArrayT, I64>>, I64,
          <<all("i", N0, calls("len", v("a")), gt(a(v("i")), N0))>>, <<gt(res, N0)>>, val(a(vn))),
      fun(<<"a", "n">>, <<ArrayT, I64>>, I64, <<>>, <<eq(res, a(n(1)))>>,
          block(<<var("b", v("a")), set(at(v("b"), vn), n(1))>>, ex(at(v("b"), n(1))))),
      fun(<<"a", "n">>, <<ArrayT, I64>>, I64, <<ge(vn, N0)>>,
          <<some("i", N0, n(2), eq(res, a(v("i"))))>>,
          block(<<var("b", v("a")), set(at(v("b"), N0), a(n(1)))>>, ex(at(v("b"), vn)))),
      Aligned(<<lt(size, n(3))>>, <<eq(calls("len", res), plus(size, n(1)))>>, ListI,
              block(<<>>, ex(call("push", <<v("al"), xs, vn>>)))),
      Aligned(<<both(gt(size, N0), lt(size, n(3)))>>, <<eq(at(res, size), at(xs, N0))>>, ListI,
              block(<<>>, ex(call("push", <<v("al"), xs, get(xs, N0)>>)))),
      Aligned(<<>>, <<ge(calls("len", res), N0)>>, ListI, block(<<>>, ex(calls("pop", xs)))),
      Aligned(<<>>, <<all("i", N0, calls("len", res), eq(at(res, v("i")), at(xs, v("i"))))>>, ListI,
              block(<<>>, ex(call("set", <<xs, vn, n(1)>>)))),
      Aligned(<<both(gt(at(xs, N0), N0), gt(vn, n(1)))>>, <<ge(res, N0)>>, I64,
              val(bin("div", vn, get(xs, N0)))),
      Aligned(<<>>, <<gt(res, vn)>>, I64,
              block(<<let("ys", lits(<<n(2), vn>>))>>, ex(get(v("ys"), N0)))),
      Aligned(<<>>, <<eq(res, n(2))>>, I64,
              block(<<let("s", s(<<1, 2>>))>>, ex(cast(calls("len", v("s")), I64)))),
      Aligned(<<>>, <<eq(res, n(2))>>, <<"usize">>,
              block(<<let("s", s(<<1, 2>>))>>, ex(calls("len", v("s"))))),
      fun(<<"a">>, <<ArrayT>>, I64, <<>>, <<eq(res, a(N0))>>, val(plus(a(N0), n(0))))>>

\* Loops: what the invariant says, how the body changes the variables, what is
\* claimed after.
i == v("i")
Invs ==
    <<<<>>, <<cmp("le", i, vn)>>, <<ge(i, N0), eq(v("t"), times(i, 2))>>,
      <<cmp("le", i, vn), eq(v("t"), times(i, 2))>>, <<lt(i, vn)>>, <<ge(v("t"), i)>>,
      <<all("k", N0, i, cmp("le", v("k"), v("t")))>>>>
LoopBodies ==
    <<block(<<set(v("t"), plus(v("t"), n(2))), inc("i")>>, none),
      block(<<inc("i")>>, ifelse(gt(i, n(1)), block(<<inc("t")>>, none), none)),
      block(<<var("j", N0),
              loop(lt(v("j"), n(2)), <<cmp("le", v("j"), n(2)), eq(v("t"), plus(times(i, 2), v("j")))>>,
                   block(<<inc("t"), inc("j")>>, none)),
              inc("i")>>, none)>>
Claims == <<eq(res, times(vn, 2)), either(gt(vn, n(1)), ge(res, vn))>>
Starts == <<truth(TRUE), ge(vn, N0)>>
LoopFunction(inv, b, claim, start) ==
    of(<<Starts[start]>>, <<Claims[claim]>>,
       block(<<var("i", N0), var("t", N0), loop(lt(i, vn), Invs[inv], LoopBodies[b])>>, ex(v("t"))))

\* Loops that carry a struct, an array, a list; loops under a condition.
CarryBodies ==
    <<of(<<>>, <<either(ge(vn, n(2)), eq(res, n(2)))>>,
         block(<<var("p", pair(vn, n(1)))>>,
               ifelse(lt(vn, n(2)),
                      block(<<loop(lt(p("a"), n(2)), <<cmp("le", p("a"), n(2))>>,
                                   block(<<set(p("a"), plus(p("a"), n(1)))>>, none))>>, ex(p("a"))),
                      blk(val(N0))))),
      fun(<<"a">>, <<ArrayT>>, I64, <<>>, <<eq(res, n(1))>>,
          block(<<var("b", v("a")), var("i", N0),
                  loop(lt(i, n(2)), <<ge(i, N0), cmp("le", i, n(2)),
                                      all("k", N0, i, eq(at(v("b"), v("k")), n(1)))>>,
                       block(<<set(at(v("b"), i), n(1)), inc("i")>>, none))>>,
                ex(at(v("b"), n(1))))),
      Aligned(<<ge(vn, N0)>>, <<eq(calls("len", res), vn)>>, ListI,
          block(<<varT("ys", ListI, calls("new", v("al"))), var("i", N0),
                  loop(lt(i, vn), <<eq(calls("len", v("ys")), i), cmp("le", i, vn)>>,
                       block(<<push("ys", i), inc("i")>>, none))>>, ex(v("ys")))),
      of(<<>>, <<cmp("le", res, n(2))>>,
         block(<<var("i", vn)>>,
               ifelse(lt(vn, N0),
                      block(<<loop(lt(i, N0), <<lt(vn, N0), cmp("le", i, N0)>>, block(<<inc("i")>>, none))>>,
                            ex(i)),
                      blk(block(<<loop(gt(i, n(2)), <<ge(vn, N0)>>,
                                       block(<<set(v("i"), plus(i, n(-1)))>>, none))>>, ex(i)))))),
      of(<<>>, <<ge(res, n(2))>>,
         block(<<var("i", N0)>>,
               ifelse(lt(vn, N0),
                      block(<<loop(lt(i, n(1)), <<lt(i, n(1))>>, block(<<set(v("i"), N0)>>, none))>>, ex(i)),
                      blk(val(vn)))))>>

Families ==
    [line |-> (1 .. 9) \X (1 .. 4) \X (1 .. 6), data |-> (1 .. 6) \X {0},
     items |-> (1 .. 12) \X {0}, loops |-> (1 .. 7) \X (1 .. 3) \X (1 .. 2) \X (1 .. 2),
     carry |-> (1 .. 5) \X {0}]
MCPrograms == UNION {{<<name, x>> : x \in Families[name]} : name \in DOMAIN Families}
MCSource(k) ==
    LET x == k[2] IN
    CASE k[1] = "line" -> LineProgram(x[1], x[2], x[3])
      [] k[1] = "data" -> DataBodies[x[1]]
      [] k[1] = "items" -> ItemBodies[x[1]]
      [] k[1] = "loops" -> LoopFunction(x[1], x[2], x[3], x[4])
      [] k[1] = "carry" -> CarryBodies[x[1]]

\* Elements of the arguments of a call.  The solver has one outside the word
\* too, also for what nobody stored.
MCElements == {-1, 1, 2}
MCSolverElements == MCElements \cup {5}
MCUnspecified == {-1, 2, 5}

\* Every value of a scalar type, some of the others.
RECURSIVE Values(_)
Fields(tys) ==
    {fs \in [DOMAIN tys -> UNION {Values(tys[i1]) : i1 \in DOMAIN tys}] :
        \A i1 \in DOMAIN tys : fs[i1] \in Values(tys[i1])}
Values(ty) ==
    CASE ty = I64 -> {Num(x) : x \in Word}
      [] ty = Bool -> {Truth(x) : x \in BOOLEAN}
      [] ty = Nominal("Alloc") -> {Unit}
      [] ty = ArrayT -> {Agg(0, <<Num(x), Num(y)>>) : x \in MCElements, y \in MCElements}
      [] ty = ListI ->
            {List(items, 2) : items \in {<<>>} \cup {<<Num(x)>> : x \in MCElements}
                                        \cup {<<Num(x), Num(1)>> : x \in MCElements}}
      [] ty = Nominal("Pair") -> {Agg(0, fs) : fs \in Fields(<<I64, I64>>)}
      [] ty = Nominal("Shape") ->
            UNION {{Agg(k - 1, fs) : fs \in Fields(MCEnums.Shape[k][2])} : k \in 1 .. 3}
MCArguments(k) == Fields(MCSource(k).main.types)
====
