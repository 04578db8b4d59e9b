---- MODULE Llvm ----
(***************************************************************************)
(* The LLVM back end (marv-codegen-llvm).  It emits text, expands the same *)
(* operations on boxed values as Cranelift but the equality of strings,    *)
(* allocates with calloc and never frees; a loop keeps its carried words   *)
(* in stack slots.  Division is left to sdiv and srem, which have no       *)
(* defined result where Cranelift traps.  A program is [defs, globals,     *)
(* mapped]: whether there is memory to read behind a block.                *)
(***************************************************************************)
EXTENDS WordHeap

CONSTANT MaxRounds

\* The functions compiled: those the entry reaches through its calls.
RECURSIVE Mentioned(_)
Mentioned(c) ==
    LET fns(as) == {as[i][2] : i \in {j \in DOMAIN as : as[j][1] = "fn"}}
        operands == SetToSeq(DOMAIN c \cap Operands)
    IN  CASE c.k = "let" -> Mentioned(c.value) \cup Mentioned(c.body)
          [] c.k = "match" ->
                UNION {Mentioned(c.branches[i].body) : i \in DOMAIN c.branches}
          [] c.k = "loop" ->
                fns(c.state) \cup Mentioned(c.cond) \cup Mentioned(c.body)
          [] c.k \in {"ctor", "array"} -> fns(c.fields)
          [] c.k = "prim" -> fns(c.args)
          [] c.k = "atom" -> fns(<<c.a>>)
          [] OTHER -> fns([i \in DOMAIN operands |-> c[operands[i]]])

RECURSIVE Reachable(_, _)
Reachable(defs, from) ==
    LET next == from \cup (UNION {Mentioned(defs[f].body) : f \in from}
                             \cap DOMAIN defs)
    IN  IF next = from THEN from ELSE Reachable(defs, next)

\* Equality of strings: memcmp compares as many characters of both as the left
\* one has, before the lengths are looked at.  Behind a shorter right string it
\* reads what is no part of the block, which is undefined: either there is
\* memory, and whatever it holds the lengths differ, or the run dies.
EqualText(prog, p, q, m) ==
    WithLength(p, m, LAMBDA llen, m1 :
        WithLength(q, m1, LAMBDA rlen, m2 :
            IF rlen < llen
            THEN IF prog.mapped THEN Done(Word(0), m2) ELSE Halt("overread", m2)
            ELSE Then(LoadRange(p, 1, llen, m2), LAMBDA ps, m3 :
                    Then(LoadRange(q, 1, llen, m3), LAMBDA qs, m4 :
                        Done(Word(IF llen = rlen /\ ps = qs THEN 1 ELSE 0), m4)))))

EvalPrim(prog, c, sc, m) ==
    LET first == AtomType(prog.globals, c.args[1], sc.tys)
        text == first = <<"str">>
        header == IF UsesListLayout(first) THEN 2 ELSE 1
        code(ws, m1) ==
            CASE c.op = "add" /\ text -> ConcatWords(ws[1], ws[2], m1)
              [] c.op = "eq" /\ text -> EqualText(prog, ws[1], ws[2], m1)
              [] c.op = "ne" /\ text ->
                    Then(EqualText(prog, ws[1], ws[2], m1), LAMBDA w, m2 :
                        Done(Word(1 - w[2]), m2))
              [] c.op = "len" -> Load(ws[1], 0, m1)
              [] c.op = "index" -> IndexWord(ws[1], ws[2], header, m1)
              [] c.op = "slice" -> SliceWords(ws[1], ws[2], ws[3], m1)
              [] c.op = "from_chars" -> FromCharsWords(ws[2], m1)
              [] OTHER -> ArithWords(c.op, ws, "undefined", m1)
    IN  AsVal(Then(AsWords(SlotsOf(c.args, sc.env), m), code))

\* Mutant: fields are counted from the tag.
EvalProjUntagged(prog, c, sc, m) ==
    Then(AsWord(SlotOf(c.base, sc.env), m), LAMBDA p, m1 : AsVal(Load(p, c.idx, m1)))

\* What is not in registers becomes a word that is loaded from.
EvalProj(prog, c, sc, m) ==
    LET base == SlotOf(c.base, sc.env)
        list == c.idx = 0 /\ IsList(AtomType(prog.globals, c.base, sc.tys))
    IN  IF base[1] = "tuple"
        THEN IF c.idx + 1 \in DOMAIN base[3] THEN Done(base[3][c.idx + 1], m)
             ELSE Halt("unsupported", m)
        ELSE AsVal(Then(AsWord(base, m), LAMBDA p, m1 :
                IF list THEN Done(p, m1) ELSE Load(p, c.idx + 1, m1)))

RECURSIVE Eval(_, _, _, _), LoopBody(_, _, _, _, _), Rounds(_, _, _, _, _, _)

Apply(prog, func, arg, m) ==
    LET got == Append(func[3], arg)
        f == prog.defs[func[2]]
        used == SelectSeq([i \in DOMAIN got |-> i], LAMBDA i : ~ IsNoSlot(f.types[i]))
        call(ws, m1) == Returned(Then(Eval(prog, f.body, Entered(f, ws), m1), AsWord))
    IN  CASE func[1] # "partial" -> Halt("unsupported", m)
          [] func[1] = "partial" /\ Len(got) < Len(f.types) ->
                Done(Waiting(func[2], got), m)
          [] OTHER ->
                AsVal(Then(AsWords([i \in DOMAIN used |-> got[used[i]]], m), call))

\* A match on a block switches on its tag and aborts on one it does not know.
BoxedBranch(prog, c, ty, sc, m) ==
    LET fieldTypes(tag, n) ==
            LET known == VariantFields(ty, tag)
            IN  [i \in 1 .. n |-> IF known # None /\ i <= Len(known[2])
                                  THEN known[2][i] ELSE None]
        arm(p, tag, m1) ==
            LET branch == c.branches[tag + 1]
            IN  Then(LoadRange(p, 1, branch.binds, m1), LAMBDA ws, m2 :
                    Done([body |-> branch.body,
                          sc |-> Bind(sc, [i \in DOMAIN ws |-> Val(ws[i])],
                                      fieldTypes(tag, branch.binds))], m2))
    IN  Then(AsWord(SlotOf(c.scrutinee, sc.env), m), LAMBDA p, m1 :
            Then(Load(p, 0, m1), LAMBDA tag, m2 :
                IF IsWord(tag) /\ tag[2] \in 0 .. Len(c.branches) - 1
                THEN arm(p, tag[2], m2)
                ELSE Halt("trap", m2)))

\* A match on a word is an if.
ScalarBranch(c, sc, m) ==
    IF Len(c.branches) # 2 \/ \E i \in DOMAIN c.branches : c.branches[i].binds # 0
    THEN Halt("unsupported", m)
    ELSE Then(AsWord(SlotOf(c.scrutinee, sc.env), m), LAMBDA w, m1 :
            Done([body |-> c.branches[IF Nonzero(w) THEN 2 ELSE 1].body,
                  sc |-> sc], m1))

TakenBranch(prog, c, sc, m) ==
    LET ty == AtomType(prog.globals, c.scrutinee, sc.tys)
    IN  IF IsBoxed(ty) THEN BoxedBranch(prog, c, ty, sc, m) ELSE ScalarBranch(c, sc, m)

\* An aggregate is boxed at the end of its arm, and the live arms merge in one
\* word.
EvalMatch(prog, c, sc, m) ==
    Then(TakenBranch(prog, c, sc, m), LAMBDA b, m1 :
        AsVal(Then(Eval(prog, b.body, b.sc, m1), AsWord)))

EvalLoop(prog, c, sc, m) ==
    LET tys == [i \in DOMAIN c.state |-> AtomType(prog.globals, c.state[i], sc.tys)]
    IN  Then(AsWords(SlotsOf(c.state, sc.env), m), LAMBDA ws, m1 :
            Rounds(prog, c, [sc |-> sc, tys |-> tys], ws, m1, MaxRounds))

\* The stack slots are read at the header and written at the end of a round.
Rounds(prog, c, at, ws, m, fuel) ==
    LET vals == [i \in DOMAIN ws |-> Val(ws[i])]
        sc == Bind(at.sc, vals, at.tys)
        cond == Then(Eval(prog, c.cond, sc, m), AsWord)
    IN  Then(cond, LAMBDA go, m1 :
            IF ~ Nonzero(go) THEN Done(Registers(0, vals), m1)
            ELSE IF fuel = 0 THEN Halt("fuel", m1)
            ELSE Then(LoopBody(prog, c.body, sc, Len(ws), m1), LAMBDA next, m2 :
                    Rounds(prog, c, at, next, m2, fuel - 1)))

LoopBody(prog, c, sc, k, m) ==
    CASE c.k = "let" ->
            Then(Eval(prog, c.value, sc, m), LAMBDA v, m1 :
                LoopBody(prog, c.body,
                         Bind(sc, <<v>>, <<TypeOf(prog.globals, c.value, sc.tys)>>),
                         k, m1))
      [] c.k = "match" ->
            Then(TakenBranch(prog, c, sc, m), LAMBDA b, m1 :
                LoopBody(prog, b.body, b.sc, k, m1))
      [] OTHER ->
            Then(Eval(prog, c, sc, m), LAMBDA s, m1 :
                IF s[1] = "tuple" /\ Len(s[3]) = k THEN AsWords(s[3], m1)
                ELSE IF s[1] = "unit" /\ k = 0 THEN Done(<<>>, m1)
                ELSE Halt("unsupported", m1))

Eval(prog, c, sc, m) ==
    LET slot(a) == SlotOf(a, sc.env)
        emit(as, Code(_, _)) == AsVal(Then(AsWords(SlotsOf(as, sc.env), m), Code))
    IN  CASE c.k = "atom" -> Done(slot(c.a), m)
          [] c.k = "let" ->
                Then(Eval(prog, c.value, sc, m), LAMBDA v, m1 :
                    Eval(prog, c.body,
                         Bind(sc, <<v>>, <<TypeOf(prog.globals, c.value, sc.tys)>>),
                         m1))
          [] c.k = "app" -> Apply(prog, slot(c.func), slot(c.arg), m)
          [] c.k = "ctor" -> Done(Registers(c.tag, SlotsOf(c.fields, sc.env)), m)
          [] c.k = "array" ->
                Done(Registers(Len(c.fields), SlotsOf(c.fields, sc.env)), m)
          [] c.k = "index_set" ->
                emit(<<c.base, c.index, c.value>>, LAMBDA ws, m1 :
                    IndexSetWord(ws[1], ws[2], ws[3], m1))
          [] c.k = "list_new" ->
                emit(<<c.capacity>>, LAMBDA ws, m1 : NewList(ws[1], m1))
          [] c.k = "list_push" ->
                emit(<<c.list, c.value>>, LAMBDA ws, m1 : PushWord(ws[1], ws[2], m1))
          [] c.k = "list_pop" -> emit(<<c.list>>, LAMBDA ws, m1 : PopWord(ws[1], m1))
          [] c.k = "list_set" ->
                emit(<<c.list, c.index, c.value>>, LAMBDA ws, m1 :
                    SetWord(ws[1], ws[2], ws[3], m1))
          [] c.k = "proj" -> EvalProj(prog, c, sc, m)
          [] c.k = "prim" -> EvalPrim(prog, c, sc, m)
          [] c.k = "cast" ->
                emit(<<c.value>>, LAMBDA ws, m1 : CastWord(ws[1], c.to, m1))
          [] c.k = "ref" -> Done(slot(c.of), m)
          [] c.k = "return" ->
                Then(AsWord(slot(c.value), m), LAMBDA w, m1 :
                    [st |-> "return", x |-> w, m |-> m1])
          [] c.k = "match" -> EvalMatch(prog, c, sc, m)
          [] c.k = "loop" -> EvalLoop(prog, c, sc, m)

\* The executable: only what the entry reaches is compiled, main parses eight
\* arguments.
Run(prog, entry, words, mapped) ==
    LET compiled == [defs |-> Restrict(prog.defs, Reachable(prog.defs, {entry})),
                     globals |-> prog.globals, mapped |-> mapped]
        f == prog.defs[entry]
    IN  IF Len(words) > 8 THEN Halt("unsupported", EmptyHeap)
        ELSE Returned(Then(Eval(compiled, f.body, Entered(f, words), EmptyHeap), AsWord))
====
