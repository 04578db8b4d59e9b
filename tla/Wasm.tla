---- MODULE Wasm ----
(***************************************************************************)
(* The WebAssembly back end (marv-codegen-wasm): a slot per binder at      *)
(* compile time, locals of one word at run time, the heap below.           *)
(* Unlike the native back ends a () operand of an instruction is an error, *)
(* carried values are words in locals that a next state cannot be boxed    *)
(* into, and the last arm of a match needs no test.                        *)
(***************************************************************************)
EXTENDS WordHeap

CONSTANT MaxRounds

(***************************************************************************)
(* The operations on boxed values that marv-codegen-wasm expands into the  *)
(* module: one linear memory, a bump pointer (m.top) that loops set back,  *)
(* and word by word copies.  A block below the bump pointer may be written *)
(* again after a reset, and a copy may overlap its source.                 *)
(***************************************************************************)

\* A block at the bump pointer.  Memory grows when it does not fit; words that
\* were used before keep what they held.
BumpAlloc(n, m) ==
    LET missing == m.top + n - Len(m.words)
    IN  Done(Pointer(m.top),
             [words |-> m.words \o [i \in 1 .. missing |-> Word(0)],
              top |-> m.top + n])

\* A count in the header; an address there is no length.
LoadCount(p, i, m) ==
    Then(Load(p, i, m), LAMBDA w, m1 :
        IF IsWord(w) THEN Done(w[2], m1) ELSE Halt("wild", m1))

CopyWordRange(src, from, dst, to, n, m) ==
    FoldLeft(LAMBDA acc, k :
                Then(acc, LAMBDA x, m1 :
                    Then(Load(src, from + k - 1, m1), LAMBDA w, m2 :
                        Store(dst, to + k - 1, w, m2))),
             Done(dst, m), [k \in 1 .. n |-> k])

CopyWords(src, dst, n, m) == CopyWordRange(src, 0, dst, 0, n, m)

\* Mutant: the length itself is a subscript.
InBoundsLoose(p, i, m) ==
    Then(LoadCount(p, 0, m), LAMBDA len, m1 :
        IF IsWord(i) /\ Unsigned(i) <= Unsigned(Word(len)) THEN Done(i[2], m1)
        ELSE Halt("bounds", m1))

\* The unreachable instruction unless the subscript is below the length.
InBounds(p, i, m) ==
    Then(LoadCount(p, 0, m), LAMBDA len, m1 :
        IF ~ IsWord(i) THEN Halt("wild", m1)
        ELSE IF Unsigned(i) >= Unsigned(Word(len)) THEN Halt("bounds", m1)
        ELSE Done(i[2], m1))
-----------------------------------------------------------------------------
LoadElement(p, i, header, m) ==
    Then(InBounds(p, i, m), LAMBDA n, m1 : Load(p, n + header, m1))

StoreElement(p, i, w, m) ==
    Then(InBounds(p, i, m), LAMBDA n, m1 :
        Then(LoadCount(p, 0, m1), LAMBDA len, m2 :
            Then(BumpAlloc(len + 1, m2), LAMBDA new, m3 :
                Then(CopyWords(p, new, len + 1, m3), LAMBDA q, m4 :
                    Store(new, n + 1, w, m4)))))

WithCapacity(cap, m) ==
    IF ~ IsWord(cap) THEN Halt("wild", m)
    ELSE Then(BumpAlloc(cap[2] + 2, m), LAMBDA p, m1 :
            Then(Store(p, 0, Word(0), m1), LAMBDA q, m2 : Store(p, 1, cap, m2)))

PushInPlace(p, len, w, m) ==
    Then(Store(p, 0, Word(Wrap(len + 1)), m), LAMBDA q, m1 : Store(p, len + 2, w, m1))

\* A full list moves to a block of twice its capacity, of four at least.
PushGrown(p, len, cap, w, m) ==
    LET doubled == Wrap(2 * cap)
        room == IF Unsigned(Word(doubled)) < 4 THEN 4 ELSE doubled
    IN  Then(BumpAlloc(room + 2, m), LAMBDA new, m1 :
            Then(CopyWords(p, new, len + 2, m1), LAMBDA q, m2 :
                Then(PushInPlace(new, len, w, m2), LAMBDA r, m3 :
                    Store(new, 1, Word(room), m3))))

Push(p, w, m) ==
    Then(LoadCount(p, 0, m), LAMBDA len, m1 :
        Then(LoadCount(p, 1, m1), LAMBDA cap, m2 :
            IF Unsigned(Word(len)) < Unsigned(Word(cap)) THEN PushInPlace(p, len, w, m2)
            ELSE PushGrown(p, len, cap, w, m2)))

Pop(p, m) ==
    Then(InBounds(p, Word(0), m), LAMBDA zero, m1 :
        Then(LoadCount(p, 0, m1), LAMBDA len, m2 : Store(p, 0, Word(len - 1), m2)))

SetElement(p, i, w, m) ==
    Then(InBounds(p, i, m), LAMBDA n, m1 : Store(p, n + 2, w, m1))
-----------------------------------------------------------------------------
\* Character by character, up to the first difference.
StringEq(p, q, m) ==
    Then(LoadCount(p, 0, m), LAMBDA llen, m1 :
        Then(LoadCount(q, 0, m1), LAMBDA rlen, m2 :
            IF llen # rlen THEN Done(Word(0), m2)
            ELSE Then(LoadRange(p, 1, llen, m2), LAMBDA ps, m3 :
                    Then(LoadRange(q, 1, llen, m3), LAMBDA qs, m4 :
                        Done(Word(IF ps = qs THEN 1 ELSE 0), m4)))))

Concat(p, q, m) ==
    Then(LoadCount(p, 0, m), LAMBDA llen, m1 :
        Then(LoadCount(q, 0, m1), LAMBDA rlen, m2 :
            Then(BumpAlloc(llen + rlen + 1, m2), LAMBDA out, m3 :
                Then(Store(out, 0, Word(llen + rlen), m3), LAMBDA x, m4 :
                    Then(CopyWordRange(p, 1, out, 1, llen, m4), LAMBDA y, m5 :
                        CopyWordRange(q, 1, out, llen + 1, rlen, m5))))))

Slice(p, lo, hi, m) ==
    Then(LoadCount(p, 0, m), LAMBDA len, m1 :
        IF ~ IsWord(lo) \/ ~ IsWord(hi) THEN Halt("wild", m1)
        ELSE IF \/ Unsigned(lo) > Unsigned(Word(len))
                \/ Unsigned(hi) > Unsigned(Word(len))
                \/ Unsigned(lo) > Unsigned(hi)
        THEN Halt("bounds", m1)
        ELSE LET n == hi[2] - lo[2]
             IN  Then(BumpAlloc(n + 1, m1), LAMBDA out, m2 :
                    Then(Store(out, 0, Word(n), m2), LAMBDA x, m3 :
                        CopyWordRange(p, lo[2] + 1, out, 1, n, m3))))

\* The elements of a list without its header.
FromChars(p, m) ==
    Then(LoadCount(p, 0, m), LAMBDA len, m1 :
        Then(BumpAlloc(len + 1, m1), LAMBDA out, m2 :
            Then(Store(out, 0, Word(len), m2), LAMBDA x, m3 :
                CopyWordRange(p, 2, out, 1, len, m3))))

\* Narrow targets shift up and down; of the others only bool does anything.
CastTo(w, to, m) ==
    CASE to[1] = "bool" -> Done(Word(IF Nonzero(w) THEN 1 ELSE 0), m)
      [] to[1] \in {"i8", "u8"} ->
            IF ~ IsWord(w) THEN Halt("wild", m)
            ELSE Done(Word(IF to[1] = "i8" THEN Signed(w[2], Narrow)
                           ELSE w[2] % 2 ^ Narrow), m)
      [] to[1] \in {"i64", "usize", "char"} -> Done(w, m)
      [] OTHER -> Halt("unsupported", m)
-----------------------------------------------------------------------------
\* An operand of an instruction or a call.  A function is no value.
ResolveArg(a, sc, m) ==
    IF a[1] = "fn" \/ SlotOf(a, sc.env)[1] = "partial" THEN Halt("unsupported", m)
    ELSE Done(SlotOf(a, sc.env), m)

\* An aggregate is stored at the bump pointer: its block first, the blocks of
\* its fields behind it.
RECURSIVE CoerceToWord(_, _)
CoerceToWord(slot, m) ==
    LET field(acc, i) ==
            Then(acc, LAMBDA p, m1 :
                Then(CoerceToWord(slot[3][i], m1), LAMBDA w, m2 : Store(p, i, w, m2)))
        box(p, m1) == FoldLeft(field, Store(p, 0, Word(slot[2]), m1),
                               [i \in DOMAIN slot[3] |-> i])
    IN  CASE slot[1] = "val" -> Done(slot[2], m)
          [] slot[1] = "unit" -> Done(Word(0), m)
          [] slot[1] = "tuple" -> Then(BumpAlloc(Len(slot[3]) + 1, m), box)
          [] slot[1] = "partial" -> Halt("unsupported", m)

Coerced(slots, m) ==
    FoldLeft(LAMBDA acc, s :
                Then(acc, LAMBDA ws, m1 :
                    Then(CoerceToWord(s, m1), LAMBDA w, m2 : Done(Append(ws, w), m2))),
             Done(<<>>, m), slots)

\* The operands of a primitive on the stack; () occupies no place there.
Pushed(as, sc, m) ==
    IF \E i \in DOMAIN as : SlotOf(as[i], sc.env) = NoSlot THEN Halt("unsupported", m)
    ELSE Coerced(SlotsOf(as, sc.env), m)

\* Operands that are kept in locals across a copy loop.
WordLocals(as, sc, m) == Coerced(SlotsOf(as, sc.env), m)

EvalPrim(prog, c, sc, m) ==
    LET first == AtomType(prog.globals, c.args[1], sc.tys)
        header == IF UsesListLayout(first) THEN 2 ELSE 1
        locals(K(_, _)) == Then(WordLocals(c.args, sc, m), K)
        simple(ws, m1) ==
            CASE c.op = "len" -> Load(ws[1], 0, m1)
              [] c.op = "index" -> LoadElement(ws[1], ws[2], header, m1)
              [] OTHER -> ArithWords(c.op, ws, "trap", m1)
        differ(ws, m1) ==
            Then(StringEq(ws[1], ws[2], m1), LAMBDA w, m2 : Done(Word(1 - w[2]), m2))
    IN  AsVal(
          CASE c.op = "add" /\ first = <<"str">> ->
                    locals(LAMBDA ws, m1 : Concat(ws[1], ws[2], m1))
            [] c.op = "eq" /\ first = <<"str">> ->
                    locals(LAMBDA ws, m1 : StringEq(ws[1], ws[2], m1))
            [] c.op = "ne" /\ first = <<"str">> -> locals(differ)
            [] c.op = "slice" ->
                    locals(LAMBDA ws, m1 : Slice(ws[1], ws[2], ws[3], m1))
            [] c.op = "from_chars" ->
                    Then(WordLocals(<<c.args[2]>>, sc, m), LAMBDA ws, m1 :
                        FromChars(ws[1], m1))
            [] OTHER -> Then(Pushed(c.args, sc, m), simple))

\* A binder's field; nothing else is projected from.
EvalProj(prog, c, sc, m) ==
    LET base == SlotOf(c.base, sc.env)
    IN  CASE c.base[1] # "var" \/ base[1] \in {"unit", "partial"} -> Halt("unsupported", m)
          [] c.base[1] = "var" /\ base[1] = "tuple" ->
                IF c.idx + 1 \in DOMAIN base[3] THEN Done(base[3][c.idx + 1], m)
                ELSE Halt("unsupported", m)
          [] OTHER ->
                IF c.idx = 0 /\ IsList(AtomType(prog.globals, c.base, sc.tys))
                THEN Done(base, m)
                ELSE AsVal(Load(base[2], c.idx + 1, m))

RECURSIVE Eval(_, _, _, _), LoopBody(_, _, _, _, _), Rounds(_, _, _, _, _, _),
          LoopMatch(_, _, _, _, _)

\* Arguments are pushed when the last one is there; () is not pushed.
Apply(prog, func, arg, m) ==
    LET got == Append(func[3], arg)
        f == prog.defs[func[2]]
        pushed == SelectSeq(got, LAMBDA slot : slot # NoSlot)
        call(ws, m1) == Returned(Then(Eval(prog, f.body, Entered(f, ws), m1), CoerceToWord))
    IN  CASE func[1] # "partial" -> Halt("unsupported", m)
          [] func[1] = "partial" /\ Len(got) < Len(f.types) ->
                Done(Waiting(func[2], got), m)
          [] OTHER -> AsVal(Then(Coerced(pushed, m), call))

EvalApp(prog, c, sc, m) ==
    Then(ResolveArg(c.arg, sc, m), LAMBDA arg, m1 :
        Apply(prog, SlotOf(c.func, sc.env), arg, m1))

\* The scope of an arm: the payload in fresh locals.
BoundArm(br, tag, ptr, ty, sc, m) ==
    LET known == VariantFields(ty, tag)
        types == [i \in 1 .. br.binds |-> IF known # None /\ i <= Len(known[2])
                                          THEN known[2][i] ELSE None]
    IN  Then(LoadRange(ptr, 1, br.binds, m), LAMBDA ws, m1 :
            Done([body |-> br.body,
                  sc |-> Bind(sc, [i \in DOMAIN ws |-> Val(ws[i])], types)], m1))

\* Tags are tested in order; whatever is left falls into the last arm.
MatchArm(branches, tag, ptr, ty, sc, m) ==
    LET last == Len(branches) - 1
        t == IF IsWord(tag) /\ tag[2] \in 0 .. last THEN tag[2] ELSE last
    IN  BoundArm(branches[t + 1], t, ptr, ty, sc, m)

BoxedArm(prog, c, ty, sc, m) ==
    IF c.branches = <<>> THEN Halt("unsupported", m)
    ELSE Then(ResolveArg(c.scrutinee, sc, m), LAMBDA slot, m1 :
            Then(CoerceToWord(slot, m1), LAMBDA ptr, m2 :
                Then(Load(ptr, 0, m2), LAMBDA tag, m3 :
                    MatchArm(c.branches, tag, ptr, ty, sc, m3))))

ScalarArm(c, sc, m) ==
    IF Len(c.branches) # 2 \/ \E i \in DOMAIN c.branches : c.branches[i].binds # 0
    THEN Halt("unsupported", m)
    ELSE Then(ResolveArg(c.scrutinee, sc, m), LAMBDA cond, m1 :
            IF cond = NoSlot THEN Halt("unsupported", m1)
            ELSE Then(CoerceToWord(cond, m1), LAMBDA w, m2 :
                    Done([body |-> c.branches[IF Nonzero(w) THEN 2 ELSE 1].body,
                          sc |-> sc], m2)))

EvalMatch(prog, c, sc, m) ==
    LET ty == AtomType(prog.globals, c.scrutinee, sc.tys)
        arm == IF IsBoxed(ty) THEN BoxedArm(prog, c, ty, sc, m) ELSE ScalarArm(c, sc, m)
    IN  AsVal(Then(arm, LAMBDA b, m1 :
                Then(Eval(prog, b.body, b.sc, m1), CoerceToWord)))

\* A loop that carries only scalars sets the bump pointer back every round.
ResetsBump(tys) == \A i \in DOMAIN tys : tys[i] # None /\ ~ IsBoxed(tys[i])

\* A () among the initial values leaves a local without a word to set.
EvalLoop(prog, c, sc, m) ==
    LET tys == [i \in DOMAIN c.state |-> AtomType(prog.globals, c.state[i], sc.tys)]
    IN  Then(Pushed(c.state, sc, m), LAMBDA ws, m1 :
            Rounds(prog, c,
                   [sc |-> sc, tys |-> tys, mark |-> IF ResetsBump(tys) THEN m1.top ELSE -1],
                   ws, m1, MaxRounds))

Rounds(prog, c, at, ws, m, fuel) ==
    LET vals == [i \in DOMAIN ws |-> Val(ws[i])]
        sc == Bind(at.sc, vals, at.tys)
        reset(m1) == IF at.mark = -1 THEN m1 ELSE [m1 EXCEPT !.top = at.mark]
    IN  Then(Then(Eval(prog, c.cond, sc, m), CoerceToWord), LAMBDA go, m1 :
            IF ~ Nonzero(go) THEN Done(Registers(0, vals), reset(m1))
            ELSE IF fuel = 0 THEN Halt("fuel", m1)
            ELSE Then(LoopBody(prog, c.body, sc, ws, m1), LAMBDA next, m2 :
                    Rounds(prog, c, at, next, reset(m2), fuel - 1)))

\* The next words of the carried locals.  A () leaves its local as it was.
CopyIntoCarried(ws, slots, m) ==
    LET n == IF Len(slots) < Len(ws) THEN Len(slots) ELSE Len(ws)
    IN  IF \E i \in 1 .. n : slots[i][1] \in {"tuple", "partial"}
        THEN Halt("unsupported", m)
        ELSE Done([i \in DOMAIN ws |-> IF i <= n /\ slots[i] # NoSlot
                                       THEN slots[i][2] ELSE ws[i]], m)

LoopMatch(prog, c, sc, ws, m) ==
    LET ty == AtomType(prog.globals, c.scrutinee, sc.tys)
        arm == IF IsBoxed(ty) THEN BoxedArm(prog, c, ty, sc, m) ELSE ScalarArm(c, sc, m)
    IN  Then(arm, LAMBDA b, m1 : LoopBody(prog, b.body, b.sc, ws, m1))

LoopBody(prog, c, sc, ws, m) ==
    CASE c.k = "let" ->
            Then(Eval(prog, c.value, sc, m), LAMBDA v, m1 :
                LoopBody(prog, c.body,
                         Bind(sc, <<v>>, <<TypeOf(prog.globals, c.value, sc.tys)>>),
                         ws, m1))
      [] c.k = "match" -> LoopMatch(prog, c, sc, ws, m)
      [] OTHER ->
            Then(Eval(prog, c, sc, m), LAMBDA s, m1 :
                CASE s[1] = "tuple" -> CopyIntoCarried(ws, s[3], m1)
                  [] s[1] = "unit" /\ ws = <<>> -> Done(<<>>, m1)
                  [] OTHER -> Halt("unsupported", m1))

Eval(prog, c, sc, m) ==
    LET slot(a) == SlotOf(a, sc.env)
        locals(as, Code(_, _)) == AsVal(Then(WordLocals(as, sc, m), Code))
    IN  CASE c.k = "atom" -> Done(slot(c.a), m)
          [] c.k = "let" ->
                Then(Eval(prog, c.value, sc, m), LAMBDA v, m1 :
                    Eval(prog, c.body,
                         Bind(sc, <<v>>, <<TypeOf(prog.globals, c.value, sc.tys)>>),
                         m1))
          [] c.k = "app" -> EvalApp(prog, c, sc, m)
          [] c.k = "ctor" -> Done(Registers(c.tag, SlotsOf(c.fields, sc.env)), m)
          [] c.k = "array" ->
                Done(Registers(Len(c.fields), SlotsOf(c.fields, sc.env)), m)
          [] c.k = "index_set" ->
                locals(<<c.base, c.index, c.value>>, LAMBDA ws, m1 :
                    StoreElement(ws[1], ws[2], ws[3], m1))
          [] c.k = "list_new" ->
                locals(<<c.capacity>>, LAMBDA ws, m1 : WithCapacity(ws[1], m1))
          [] c.k = "list_push" ->
                locals(<<c.list, c.value>>, LAMBDA ws, m1 : Push(ws[1], ws[2], m1))
          [] c.k = "list_pop" -> locals(<<c.list>>, LAMBDA ws, m1 : Pop(ws[1], m1))
          [] c.k = "list_set" ->
                locals(<<c.list, c.index, c.value>>, LAMBDA ws, m1 :
                    SetElement(ws[1], ws[2], ws[3], m1))
          [] c.k = "proj" -> EvalProj(prog, c, sc, m)
          [] c.k = "prim" -> EvalPrim(prog, c, sc, m)
          [] c.k = "cast" ->
                AsVal(Then(Pushed(<<c.value>>, sc, m), LAMBDA ws, m1 :
                    CastTo(ws[1], c.to, m1)))
          [] c.k = "ref" -> Done(slot(c.of), m)
          [] c.k = "return" ->
                Then(CoerceToWord(slot(c.value), m), LAMBDA w, m1 :
                    [st |-> "return", x |-> w, m |-> m1])
          [] c.k = "match" -> EvalMatch(prog, c, sc, m)
          [] c.k = "loop" -> EvalLoop(prog, c, sc, m)

\* The exported function of the entry.
Run(prog, entry, words) ==
    LET f == prog.defs[entry]
    IN  Returned(Then(Eval(prog, f.body, Entered(f, words), EmptyHeap), CoerceToWord))
====
