---- MODULE Cranelift ----
(***************************************************************************)
(* The Cranelift back end (marv-codegen-cl): what the code it emits for a  *)
(* lowered program does when it runs, as the translator emits it: slots at *)
(* compile time, words at run time.  A program is [defs, globals]; a scope *)
(* holds the slots and the types of the binders.  What the translator      *)
(* rejects is "unsupported" when the run reaches it.                       *)
(***************************************************************************)
EXTENDS WordHeap

CONSTANT MaxRounds

\* Mutant: one carried value that is not boxed is enough.
CanResetSome(tys) ==
    tys = <<>> \/ \E i \in DOMAIN tys : tys[i] # None /\ ~ IsBoxed(tys[i])

\* Mutant: only a loop that carries nothing does.
CanResetNone(tys) == tys = <<>>

\* A loop that carries no boxed value gives its garbage back every round.
CanResetHeap(tys) == \A i \in DOMAIN tys : tys[i] # None /\ ~ IsBoxed(tys[i])

\* Equality of strings: no character is read unless the lengths agree.
EqualText(p, q, m) ==
    WithLength(p, m, LAMBDA llen, m1 :
        WithLength(q, m1, LAMBDA rlen, m2 :
            IF llen # rlen THEN Done(Word(0), m2)
            ELSE Then(LoadRange(p, 1, llen, m2), LAMBDA ps, m3 :
                    Then(LoadRange(q, 1, llen, m3), LAMBDA qs, m4 :
                        Done(Word(IF ps = qs THEN 1 ELSE 0), m4)))))

EvalPrim(prog, c, sc, m) ==
    LET first == AtomType(prog.globals, c.args[1], sc.tys)
        text == first = <<"str">>
        header == IF UsesListLayout(first) THEN 2 ELSE 1
        code(ws, m1) ==
            CASE c.op = "add" /\ text -> ConcatWords(ws[1], ws[2], m1)
              [] c.op = "eq" /\ text -> EqualText(ws[1], ws[2], m1)
              [] c.op = "ne" /\ text ->
                    Then(EqualText(ws[1], ws[2], m1), LAMBDA w, m2 :
                        Done(Word(1 - w[2]), m2))
              [] c.op = "len" -> Load(ws[1], 0, m1)
              [] c.op = "index" -> IndexWord(ws[1], ws[2], header, m1)
              [] c.op = "slice" -> SliceWords(ws[1], ws[2], ws[3], m1)
              [] c.op = "from_chars" -> FromCharsWords(ws[2], m1)
              [] OTHER -> ArithWords(c.op, ws, "trap", m1)
    IN  AsVal(Then(AsWords(SlotsOf(c.args, sc.env), m), code))

\* A field of an aggregate in registers, or a load from its block; the raw
\* field of a list is the list.
EvalProj(prog, c, sc, m) ==
    LET base == SlotOf(c.base, sc.env)
        ty == AtomType(prog.globals, c.base, sc.tys)
    IN  CASE base[1] = "tuple" ->
                IF c.idx + 1 \in DOMAIN base[3] THEN Done(base[3][c.idx + 1], m)
                ELSE Halt("unsupported", m)
          [] base[1] = "val" ->
                IF c.idx = 0 /\ IsList(ty) THEN Done(base, m)
                ELSE AsVal(Load(base[2], c.idx + 1, m))
          [] OTHER -> Halt("unsupported", m)

RECURSIVE Eval(_, _, _, _), LoopBody(_, _, _, _, _), Rounds(_, _, _, _, _, _)

\* The call happens when the last argument arrives.
Apply(prog, func, arg, m) ==
    LET got == Append(func[3], arg)
        f == prog.defs[func[2]]
        used == SelectSeq([i \in DOMAIN got |-> i], LAMBDA i : ~ IsNoSlot(f.types[i]))
        call(ws, m1) == Returned(Then(Eval(prog, f.body, Entered(f, ws), m1), AsWord))
    IN  CASE func[1] # "partial" -> Halt("unsupported", m)
          [] func[1] = "partial" /\ Len(got) < Len(f.types) ->
                Done(Waiting(func[2], got), m)
          [] OTHER ->
                AsVal(Then(AsWords([i \in DOMAIN used |-> got[used[i]]], m), call))

\* The branch a match takes, with the fields its variant binds: by the tag in
\* the block of a boxed value, else zero or not.
TakenBranch(prog, c, sc, m) ==
    LET ty == AtomType(prog.globals, c.scrutinee, sc.tys)
        scalar == Len(c.branches) = 2 /\ \A i \in {1, 2} : c.branches[i].binds = 0
        fieldTypes(tag) ==
            LET known == VariantFields(ty, tag)
                n == c.branches[tag + 1].binds
            IN  [i \in 1 .. n |-> IF known # None /\ i <= Len(known[2])
                                  THEN known[2][i] ELSE None]
        taken(tag, ws, m1) ==
            Done([body |-> c.branches[tag + 1].body,
                  sc |-> Bind(sc, [i \in DOMAIN ws |-> Val(ws[i])],
                              IF IsBoxed(ty) THEN fieldTypes(tag) ELSE <<>>)], m1)
        boxed(p, m1) ==
            Then(Load(p, 0, m1), LAMBDA tag, m2 :
                IF ~ IsWord(tag) \/ tag[2] \notin 0 .. Len(c.branches) - 1
                THEN Halt("trap", m2)
                ELSE Then(LoadRange(p, 1, c.branches[tag[2] + 1].binds, m2),
                          LAMBDA ws, m3 : taken(tag[2], ws, m3)))
        subject == AsWord(SlotOf(c.scrutinee, sc.env), m)
    IN  CASE IsBoxed(ty) -> Then(subject, boxed)
          [] ~ IsBoxed(ty) /\ scalar ->
                Then(subject, LAMBDA w, m1 :
                    taken(IF Nonzero(w) THEN 1 ELSE 0, <<>>, m1))
          [] OTHER -> Halt("unsupported", m)

\* The arms meet in one word.
EvalMatch(prog, c, sc, m) ==
    Then(TakenBranch(prog, c, sc, m), LAMBDA b, m1 :
        AsVal(Then(Eval(prog, b.body, b.sc, m1), AsWord)))

\* The carried words on a new header, round by round.
EvalLoop(prog, c, sc, m) ==
    LET tys == [i \in DOMAIN c.state |-> AtomType(prog.globals, c.state[i], sc.tys)]
        reset(m1) == IF CanResetHeap(tys) THEN Mark(m1) ELSE -1
    IN  Then(AsWords(SlotsOf(c.state, sc.env), m), LAMBDA ws, m1 :
            Rounds(prog, c, [sc |-> sc, tys |-> tys, mark |-> reset(m1)],
                   ws, m1, MaxRounds))

Rounds(prog, c, at, ws, m, fuel) ==
    LET vals == [i \in DOMAIN ws |-> Val(ws[i])]
        sc == Bind(at.sc, vals, at.tys)
        reset(m1) == IF at.mark = -1 THEN m1 ELSE Release(at.mark, m1)
        cond == Then(Eval(prog, c.cond, sc, m), AsWord)
    IN  Then(cond, LAMBDA go, m1 :
            IF ~ Nonzero(go) THEN Done(Registers(0, vals), reset(m1))
            ELSE IF fuel = 0 THEN Halt("fuel", m1)
            ELSE Then(LoopBody(prog, c.body, sc, Len(ws), m1), LAMBDA next, m2 :
                    Rounds(prog, c, at, next, reset(m2), fuel - 1)))

\* The next carried words: the tuple a body ends in is never boxed.
LoopBody(prog, c, sc, k, m) ==
    CASE c.k = "let" ->
            Then(Eval(prog, c.value, sc, m), LAMBDA v, m1 :
                LoopBody(prog, c.body,
                         Bind(sc, <<v>>, <<TypeOf(prog.globals, c.value, sc.tys)>>),
                         k, m1))
      [] c.k = "match" ->
            Then(TakenBranch(prog, c, sc, m), LAMBDA b, m1 :
                LoopBody(prog, b.body, b.sc, k, m1))
      [] OTHER ->
            Then(Eval(prog, c, sc, m), LAMBDA s, m1 :
                CASE s[1] = "tuple" -> AsWords(s[3], m1)
                  [] s[1] = "unit" /\ k = 0 -> Done(<<>>, m1)
                  [] OTHER -> Halt("unsupported", m1))

Eval(prog, c, sc, m) ==
    LET slot(a) == SlotOf(a, sc.env)
        words(as) == AsWords(SlotsOf(as, sc.env), m)
    IN  CASE c.k = "atom" -> Done(slot(c.a), m)
          [] c.k = "let" ->
                Then(Eval(prog, c.value, sc, m), LAMBDA v, m1 :
                    Eval(prog, c.body,
                         Bind(sc, <<v>>, <<TypeOf(prog.globals, c.value, sc.tys)>>),
                         m1))
          [] c.k = "app" -> Apply(prog, slot(c.func), slot(c.arg), m)
          [] c.k = "ctor" -> Done(Registers(c.tag, SlotsOf(c.fields, sc.env)), m)
          [] c.k = "array" ->
                Done(Registers(Len(c.fields), SlotsOf(c.fields, sc.env)), m)
          [] c.k = "index_set" ->
                AsVal(Then(words(<<c.base, c.index, c.value>>), LAMBDA ws, m1 :
                    IndexSetWord(ws[1], ws[2], ws[3], m1)))
          [] c.k = "list_new" ->
                AsVal(Then(words(<<c.capacity>>), LAMBDA ws, m1 : NewList(ws[1], m1)))
          [] c.k = "list_push" ->
                AsVal(Then(words(<<c.list, c.value>>), LAMBDA ws, m1 :
                    PushWord(ws[1], ws[2], m1)))
          [] c.k = "list_pop" ->
                AsVal(Then(words(<<c.list>>), LAMBDA ws, m1 : PopWord(ws[1], m1)))
          [] c.k = "list_set" ->
                AsVal(Then(words(<<c.list, c.index, c.value>>), LAMBDA ws, m1 :
                    SetWord(ws[1], ws[2], ws[3], m1)))
          [] c.k = "proj" -> EvalProj(prog, c, sc, m)
          [] c.k = "prim" -> EvalPrim(prog, c, sc, m)
          [] c.k = "cast" ->
                AsVal(Then(words(<<c.value>>), LAMBDA ws, m1 : CastWord(ws[1], c.to, m1)))
          [] c.k = "ref" -> Done(slot(c.of), m)
          [] c.k = "return" ->
                Then(AsWord(slot(c.value), m), LAMBDA w, m1 :
                    [st |-> "return", x |-> w, m |-> m1])
          [] c.k = "match" -> EvalMatch(prog, c, sc, m)
          [] c.k = "loop" -> EvalLoop(prog, c, sc, m)

\* The entry with a word for each parameter that has a register.
Run(prog, entry, words) ==
    LET f == prog.defs[entry]
    IN  IF Len(words) > 4 THEN Halt("unsupported", EmptyHeap)
        ELSE Returned(Then(Eval(prog, f.body, Entered(f, words), EmptyHeap), AsWord))
====
