---- MODULE MCCompile ----
EXTENDS Compile, MCSyntax

\* Types and the constants of the machine.
MCStructs ==
    [Pair |-> <<<<"a", I64>>, <<"b", I64>>>>,
     Wrap |-> <<<<"pair", Nominal("Pair")>>, <<"k", I64>>>>]
MCEnums ==
    [Shape |-> <<<<"Dot", <<>>>>, <<"Line", <<I64>>>>, <<"Rect", <<I64, I64>>>>>>,
     Chain |-> <<<<"End", <<>>>>, <<"Link", <<I64, Nominal("Chain")>>>>>>]
MCRets == [main |-> I64, add |-> I64, sum |-> I64, fact |-> I64, one |-> I64,
           over |-> I64, swap |-> Nominal("Pair"), classify |-> Nominal("Shape")]

\* Loops over two variables: three statements and a tail.
Stmts ==
    <<inc("x"),
      set(v("y"), plus(v("y"), v("x"))),
      var("y", n(2)),
      while(less("y", 3), block(<<inc("y")>>, none)),
      let("x", n(1))>>
Tails ==
    <<none,
      ifelse(bin("eq", v("x"), v("y")), block(<<inc("y")>>, none), none),
      ifelse(less("y", 2), block(<<>>, ret(v("y"))), blk(block(<<inc("x")>>, none)))>>
LoopProgram(i, j, t) ==
    main1(block(<<var("x", v("n")), var("y", n(0)),
                  while(less("x", 3), block(<<inc("x"), Stmts[i], Stmts[j]>>, Tails[t]))>>,
                ex(plus(bin("mul", v("x"), n(2)), v("y")))))

\* Arrays: stores, loops over them, copies.
ArrayStmts ==
    <<set(at(v("a"), v("n")), plus(v("t"), n(3))),
      for("x", v("a"), block(<<set(v("t"), plus(v("t"), v("x")))>>, none)),
      while(less("t", 3), block(<<set(at(v("a"), v("t")), v("t")), inc("t")>>, none)),
      for("x", v("a"), block(<<set(at(v("a"), n(1)), plus(v("x"), n(1))), inc("t")>>, none)),
      let("b", v("a")),
      set(v("t"), plus(at(v("a"), v("n")), call("len", <<v("a")>>)))>>
ArrayProgram(i, j) ==
    main1(block(<<var("a", arr(<<n(4), v("n"), n(1)>>)), var("t", n(0)), let("b", v("a")),
                  ArrayStmts[i], ArrayStmts[j]>>,
                ex(plus(plus(v("t"), times(at(v("a"), n(1)), 2)),
                        plus(times(at(v("b"), n(0)), 4), at(v("b"), n(1)))))))

\* Structs: stores into nested fields, a call, a loop that carries one.
StructStmts ==
    <<set(fld(f("w", "pair"), "a"), plus(v("n"), n(1))),
      set(f("p", "b"), f("p", "a")),
      set(v("p"), call("swap", <<v("p")>>)),
      while(cmp("lt", f("p", "a"), n(3)),
            block(<<set(f("p", "a"), plus(f("p", "a"), n(1))), set(f("w", "k"), f("p", "b"))>>, none)),
      set(v("w"), wrap(v("p"), f("w", "k"))),
      set(f("q", "k"), n(5))>>
StructProgram(i, j) ==
    main1(block(<<var("p", pair(v("n"), n(1))), var("w", wrap(v("p"), n(2))), var("q", v("w")),
                  StructStmts[i], StructStmts[j]>>,
                ex(plus(plus(f("p", "a"), times(f("p", "b"), 2)),
                        plus(times(fld(f("w", "pair"), "a"), 4),
                             plus(times(f("w", "k"), 3), f("q", "k")))))))
    @@ [swap |-> fn(<<"p">>, <<Nominal("Pair")>>, Nominal("Pair"),
                    block(<<>>, ex(pair(f("p", "b"), f("p", "a")))))]

\* Lists, each used once: growing, shrinking, replacing, reading.
ListStmts ==
    <<push("xs", plus(v("n"), v("t"))),
      while(less("t", 3), block(<<push("xs", v("t")), inc("t")>>, none)),
      set(v("xs"), calls("pop", v("xs"))),
      set(v("xs"), call("set", <<v("xs"), n(1), v("n")>>)),
      set(v("t"), plus(v("t"), call("get", <<v("xs"), v("n")>>))),
      for("x", v("xs"), block(<<set(v("t"), plus(v("t"), v("x")))>>, none))>>
ListProgram(i, j, k) ==
    main2(block(<<varT("xs", ListI, IF i = 1 THEN calls("new", v("al"))
                                    ELSE lits(<<n(1), v("n")>>)),
                  var("t", n(0)), ListStmts[i], ListStmts[j], ListStmts[k]>>,
                ex(plus(plus(v("t"), times(calls("len", v("xs")), 2)),
                        times(call("get", <<v("xs"), n(0)>>), 4)))))

\* Strings; the loops carry none.
ab == s(<<1, 2>>)
TextStmts ==
    <<set(v("s"), plus(v("s"), s(<<3>>))),
      set(v("t"), cast(cmp("eq", v("s"), ab), I64)),
      set(v("s"), slice(v("s"), n(1), v("n"))),
      for("c", v("s"), block(<<set(v("t"), plus(v("t"), cast(v("c"), I64)))>>, none)),
      set(v("s"), call("from_chars", <<v("al"), v("cs")>>)),
      while(less("t", 2), block(<<let("u", plus(v("s"), ab)),
                                  set(v("t"), plus(v("t"), calls("len", v("u"))))>>, none)),
      set(v("t"), plus(v("t"), cast(cmp("ne", slice(ab, n(0), n(1)), v("s")), I64)))>>
TextProgram(i, j) ==
    main2(block(<<var("s", ab), var("t", n(0)),
                  let("cs", lits(<<at(v("s"), n(0)), at(v("s"), n(1)), at(ab, n(0))>>)),
                  TextStmts[i], TextStmts[j]>>,
                ex(plus(plus(times(v("t"), 2), calls("len", v("s"))),
                        times(cast(at(v("s"), n(0)), I64), 8)))))

\* Enums: matches as values and at the end of a loop's body.
shape(x) == IF x = 1 THEN v("Dot") ELSE IF x = 2 THEN calls("Line", v("n"))
            ELSE call("Rect", <<n(3), v("n")>>)
ShapeArms ==
    <<<<arm("Dot", <<>>, ex(n(1))), arm("Line", <<"x">>, ex(v("x"))),
        arm("Rect", <<"x", "y">>, ex(plus(v("x"), times(v("y"), 2))))>>,
      <<arm("Rect", <<"_", "y">>, ex(plus(v("y"), v("t")))), arm("_", <<>>, ex(n(7)))>>,
      <<arm("Line", <<"t">>, blk(block(<<let("x", v("t"))>>, ex(plus(v("x"), v("t")))))),
        arm("Line", <<"x">>, ex(n(9))), arm("_", <<>>, ret(v("n")))>>>>
ShapeProgram(x, i) ==
    main1(block(<<let("t", n(2)), let("s", shape(x))>>, match(v("s"), ShapeArms[i])))
steps(x) == blk(block(<<set(v("t"), plus(v("t"), x))>>, none))
ShapeLoops ==
    <<<<arm("Dot", <<>>, steps(n(1))), arm("Line", <<"x">>, steps(n(2))),
        arm("Rect", <<"x", "y">>, ret(plus(v("x"), v("t"))))>>,
      <<arm("Line", <<"t">>, blk(block(<<inc("y"), set(v("x"), v("t"))>>, none))),
        arm("_", <<>>, blk(block(<<inc("x")>>, ifelse(less("x", 1), block(<<>>, ret(v("y"))), none))))>>,
      <<arm("Dot", <<>>, blk(block(<<set(v("s"), shape(2))>>, none))),
        arm("Line", <<"x">>, blk(block(<<set(v("s"), shape(3))>>, none))),
        arm("Rect", <<"_", "_">>, steps(n(2)))>>>>
ShapeLoop(x, i) ==
    main1(block(<<var("s", shape(x)), var("t", n(0)), var("x", n(0)), var("y", v("n")),
                  while(bin("and", less("t", 3), less("y", 3)),
                        block(<<inc("t")>>, match(v("s"), ShapeLoops[i])))>>,
                ex(plus(plus(v("t"), times(v("x"), 2)), times(v("y"), 4)))))

\* Calls: recursion over numbers and over data, functions as values, methods,
\* early returns, aggregates across calls.
Fns ==
    [sum |-> fn(<<"c">>, <<Nominal("Chain")>>, I64,
        block(<<>>, match(v("c"), <<arm("End", <<>>, ex(n(0))),
            arm("Link", <<"x", "rest">>, ex(plus(v("x"), calls("sum", v("rest")))))>>))),
     fact |-> fn(<<"n">>, <<I64>>, I64,
        block(<<>>, ifelse(less("n", 1), block(<<>>, ex(n(1))),
            blk(block(<<>>, ex(bin("mul", v("n"), calls("fact", plus(v("n"), n(-1)))))))))),
     add |-> fn(<<"x", "y">>, <<I64, I64>>, I64,
        block(<<>>, ex(plus(times(v("x"), 2), v("y"))))),
     one |-> fn(<<>>, <<>>, I64, block(<<>>, ex(n(1)))),
     over |-> fn(<<"xs", "n">>, <<<<"array", I64, 2>>, I64>>, I64,
        block(<<var("i", n(0)),
                while(cmp("lt", v("i"), n(2)),
                      block(<<let("x", at(v("xs"), v("i"))), inc("i")>>,
                            ifelse(cmp("gt", v("x"), v("n")), block(<<>>, ret(v("x"))), none)))>>,
              ex(n(-1)))),
     classify |-> fn(<<"n">>, <<I64>>, Nominal("Shape"),
        block(<<>>, ifelse(less("n", 0), block(<<>>, ex(v("Dot"))),
            blk(block(<<>>, ifelse(less("n", 2), block(<<>>, ex(calls("Line", v("n")))),
                blk(block(<<let("p", pair(v("n"), n(1)))>>,
                          ret(call("Rect", <<f("p", "a"), f("p", "b")>>)))))))))),
     swap |-> fn(<<"p">>, <<Nominal("Pair")>>, Nominal("Pair"),
        block(<<>>, ex(pair(f("p", "b"), f("p", "a")))))]
CallTails ==
    <<ex(calls("sum", call("Link", <<v("n"), call("Link", <<n(2), v("End")>>)>>))),
      ex(calls("fact", v("n"))),
      ex(plus(calls("g", v("n")), calls("g", n(3)))),
      ex([e |-> "method", of |-> v("n"), f |-> "add", args |-> <<call("one", <<>>)>>]),
      ex(plus(call("over", <<arr(<<n(1), n(3)>>), v("n")>>), v("n"))),
      match(calls("classify", v("n")), ShapeArms[1]),
      ex(fld(calls("swap", calls("swap", pair(v("n"), n(3)))), "a")),
      ex([e |-> "try", of |-> call("add", <<call("one", <<>>), un("ref", v("n"))>>)])>>
CallProgram(i) ==
    main1(block(<<let("t", n(2)), let("g", calls("add", n(1)))>>, CallTails[i])) @@ Fns

\* Arithmetic at the edges of the word, conversions, logic.
Exprs ==
    <<plus(v("n"), n(15)), bin("sub", v("n"), n(16)), times(v("n"), 7),
      bin("div", n(-7), v("n")), bin("rem", v("n"), n(3)),
      un("neg", plus(v("n"), n(-15))),
      cast(times(v("n"), 3), <<"i8">>), cast(plus(v("n"), n(6)), <<"u8">>),
      cast(un("not", cast(v("n"), <<"bool">>)), I64),
      cast(bin("or", less("n", 0), bin("and", cmp("ne", v("n"), n(2)), cmp("ge", v("n"), n(1)))), I64)>>
ArithProgram(i, j) ==
    main1(block(<<let("x", Exprs[i]), let("n", v("x"))>>, ex(plus(Exprs[j], v("x")))))

\* Contracts: clauses over parameters, the result and quantifiers; invariants.
Clauses ==
    <<cmp("ge", res, v("n")), cmp("eq", res, plus(calls("old", v("n")), n(2))),
      all("i", n(0), v("n"), cmp("lt", v("i"), res)),
      some("i", v("n"), res, cmp("eq", times(v("i"), 2), plus(res, n(1)))),
      bin("or", cmp("lt", v("n"), n(0)), cmp("gt", bin("div", res, v("n")), n(1))),
      un("not", bin("and", cmp("lt", v("n"), n(1)), some("n", n(0), res, cmp("eq", v("n"), n(1)))))>>
Requires ==
    <<truth(TRUE), cmp("ge", v("n"), n(0)), all("n", n(0), n(2), cmp("lt", v("n"), n(2)))>>
ContractProgram(i, j) ==
    [main1(block(<<>>, ifelse(less("n", 0), block(<<>>, ret(n(1))),
                              blk(block(<<>>, ex(plus(v("n"), n(2))))))))
     EXCEPT !.main.requires = <<Requires[j]>>, !.main.ensures = <<Clauses[i]>>]
Invariants ==
    <<cmp("le", v("x"), n(3)), cmp("eq", v("y"), times(v("x"), 2)),
      all("i", n(0), v("x"), cmp("lt", at(v("a"), v("i")), n(3))),
      bin("or", cmp("lt", v("x"), n(2)), cmp("gt", v("y"), at(v("a"), v("x"))))>>
InvariantProgram(i, j) ==
    main1(block(<<let("a", arr(<<n(1), v("n"), n(2)>>)), var("x", n(0)), var("y", v("n")),
                  [while(less("x", 3),
                         block(<<set(v("y"), plus(v("y"), n(2))), inc("x")>>, none))
                   EXCEPT !.invariants = <<Invariants[i], Invariants[j]>>]>>,
                ex(plus(v("x"), v("y")))))

\* What a loop that carries scalars allocates: strings, structs that cross
\* calls, arrays, lists of an inner loop.
Scratches ==
    <<block(<<let("u", plus(ab, ab)), set(v("t"), plus(v("t"), at(plus(v("u"), ab), n(0))))>>, none),
      block(<<let("p", calls("swap", pair(v("t"), v("n"))))>>,
            ifelse(cmp("gt", f("p", "b"), n(1)), block(<<inc("t")>>, none),
                   blk(block(<<set(v("t"), plus(f("p", "b"), n(1)))>>, none)))),
      block(<<varT("xs", ListI, calls("new", v("al"))), var("i", n(0)),
              while(less("i", 2), block(<<push("xs", v("t")), inc("i")>>, none)),
              set(v("t"), plus(call("get", <<v("xs"), n(1)>>), n(1)))>>, none),
      block(<<let("a", arr(<<v("t"), n(2)>>)), var("i", n(0)),
              while(less("i", 2), block(<<set(v("t"), plus(v("t"), at(v("a"), v("i")))), inc("i")>>, none))>>, none)>>
ScratchProgram(i) ==
    main2(block(<<var("t", v("n")), while(less("t", 3), Scratches[i])>>, ex(v("t")))) @@ Fns

\* Programs on which a claim of the documentation fails.
StringLoop(i) ==
    main1(block(<<var("s", ab), var("t", n(0)),
                  while(cmp("lt", v("t"), v("n")), block(<<set(v("s"), plus(v("s"), s(<<3>>))), inc("t")>>, none))>>,
                ex(calls("len", v("s")))))
StringLoops == {<<"strings", <<0>>>>}

Families ==
    [loop |-> (1 .. 5) \X (1 .. 5) \X (1 .. 3), array |-> (1 .. 6) \X (1 .. 6),
     struct |-> (1 .. 6) \X (1 .. 6), list |-> (1 .. 6) \X (1 .. 6) \X (1 .. 6),
     text |-> (1 .. 7) \X (1 .. 7), shape |-> (1 .. 3) \X (1 .. 3),
     shapes |-> (1 .. 3) \X (1 .. 3), call |-> (1 .. 8) \X {0},
     contract |-> (1 .. 6) \X (1 .. 3), invariant |-> (1 .. 4) \X (1 .. 4),
     scratch |-> (1 .. 4) \X {0},
     arith |-> (1 .. 10) \X (1 .. 10)]
MCPrograms == UNION {{<<name, x>> : x \in Families[name]} : name \in DOMAIN Families}
MCSource(k) ==
    LET x == k[2] IN
    CASE k[1] = "loop" -> LoopProgram(x[1], x[2], x[3])
      [] k[1] = "array" -> ArrayProgram(x[1], x[2])
      [] k[1] = "struct" -> StructProgram(x[1], x[2])
      [] k[1] = "list" -> ListProgram(x[1], x[2], x[3])
      [] k[1] = "text" -> TextProgram(x[1], x[2])
      [] k[1] = "shape" -> ShapeProgram(x[1], x[2])
      [] k[1] = "shapes" -> ShapeLoop(x[1], x[2])
      [] k[1] = "call" -> CallProgram(x[1])
      [] k[1] = "contract" -> ContractProgram(x[1], x[2])
      [] k[1] = "invariant" -> InvariantProgram(x[1], x[2])
      [] k[1] = "scratch" -> ScratchProgram(x[1])
      [] k[1] = "strings" -> StringLoop(x[1])
      [] k[1] = "arith" -> ArithProgram(x[1], x[2])
MCScratch == {p \in MCPrograms : p[1] = "scratch"}
MCArguments(k) == {<<Num(i)>> : i \in {-1, 0, 2}}
====
