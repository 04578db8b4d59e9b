---- MODULE WordHeap ----
(***************************************************************************)
(* The machine the code generators emit code for: one-word values, a heap  *)
(* of words, and the operations on boxed values that Cranelift and LLVM    *)
(* expand alike (marv-codegen-cl); each compares strings in a way of its   *)
(* own.  A word is <<"i", n>>, a pointer <<"p", address>> or <<"freed">>.  *)
(*                                                                         *)
(* The outcome of a piece of code is [st, x, m]: st "ok" with a result x,  *)
(* "return" on the way out of a function, or why it stopped; m is the heap *)
(* afterwards.                                                             *)
(***************************************************************************)
EXTENDS CoreIr, FiniteSets

Done(x, m) == [st |-> "ok", x |-> x, m |-> m]
Halt(st, m) == [st |-> st, x |-> None, m |-> m]
Then(r, K(_, _)) == IF r.st = "ok" THEN K(r.x, r.m) ELSE r
\* Leaving a function early is leaving it.
Returned(r) == IF r.st = "return" THEN Done(r.x, r.m) ELSE r

Word(n) == <<"i", n>>
IsWord(w) == w[1] = "i"
Pointer(a) == <<"p", a>>
Unsigned(w) == w[2] % 2 ^ Width
Nonzero(w) == w # Word(0)
-----------------------------------------------------------------------------
\* The heap: all words ever allocated, and where the next block starts.
EmptyHeap == [words |-> <<>>, top |-> 0]

\* A new block; its words are zero.
Alloc(n, m) ==
    LET size == IF n < 0 THEN 0 ELSE n
        missing == m.top + size - Len(m.words)
    IN  Done(Pointer(m.top),
             [words |-> m.words \o [i \in 1 .. missing |-> Word(0)],
              top |-> m.top + size])

Mark(m) == m.top

\* The runtime gives the blocks after the mark back to the system allocator:
\* whatever a later read of one finds is undefined.
Release(mark, m) ==
    [m EXCEPT !.words = [a \in DOMAIN @ |-> IF a > mark THEN <<"freed">> ELSE @[a]]]

Load(p, i, m) ==
    IF p[1] # "p" \/ p[2] + i + 1 \notin DOMAIN m.words THEN Halt("wild", m)
    ELSE LET w == m.words[p[2] + i + 1]
         IN  IF w = <<"freed">> THEN Halt("dangling", m) ELSE Done(w, m)

Store(p, i, w, m) ==
    IF p[1] # "p" \/ p[2] + i + 1 \notin DOMAIN m.words THEN Halt("wild", m)
    ELSE IF m.words[p[2] + i + 1] = <<"freed">> THEN Halt("dangling", m)
    ELSE Done(p, [m EXCEPT !.words[p[2] + i + 1] = w])

\* Words from .. from + n - 1 of a block.
LoadRange(p, from, n, m) ==
    FoldLeft(LAMBDA acc, i :
                Then(acc, LAMBDA ws, m1 :
                    Then(Load(p, from + i - 1, m1), LAMBDA w, m2 :
                        Done(Append(ws, w), m2))),
             Done(<<>>, m), [i \in 1 .. n |-> i])

\* A new block with these words.
NewBlock(ws, m) ==
    FoldLeft(LAMBDA acc, i :
                Then(acc, LAMBDA p, m1 : Store(p, i - 1, ws[i], m1)),
             Alloc(Len(ws), m), [i \in DOMAIN ws |-> i])

\* Word 0 of a block is its length; K gets the length and the heap.
WithLength(p, m, K(_, _)) ==
    Then(Load(p, 0, m), LAMBDA w, m1 :
        IF IsWord(w) THEN K(w[2], m1) ELSE Halt("wild", m1))

\* Debug builds abort unless the subscript, taken as unsigned, is below the
\* length in the header.
BoundsCheck(p, i, m) ==
    WithLength(p, m, LAMBDA len, m1 :
        IF ~ IsWord(i) THEN Halt("wild", m1)
        ELSE IF Unsigned(i) >= Unsigned(Word(len)) THEN Halt("bounds", m1)
        ELSE Done(i[2], m1))

\* The elements that follow a header of so many words.
Elements(p, header, m) ==
    WithLength(p, m, LAMBDA len, m1 : LoadRange(p, header, len, m1))
-----------------------------------------------------------------------------
\* Element i; a list's header has its capacity too.
IndexWord(p, i, header, m) ==
    Then(BoundsCheck(p, i, m), LAMBDA n, m1 : Load(p, n + header, m1))

\* A copy of the block with one element replaced.
IndexSetWord(p, i, w, m) ==
    Then(BoundsCheck(p, i, m), LAMBDA n, m1 :
        Then(Elements(p, 1, m1), LAMBDA es, m2 :
            NewBlock(<<Word(Len(es))>> \o [es EXCEPT ![n + 1] = w], m2)))

NewList(cap, m) ==
    IF ~ IsWord(cap) THEN Halt("wild", m)
    ELSE Then(Alloc(cap[2] + 2, m), LAMBDA p, m1 :
            Then(Store(p, 0, Word(0), m1), LAMBDA q, m2 : Store(p, 1, cap, m2)))

\* In place while there is room, else into a block of twice the capacity.
PushWord(p, w, m) ==
    WithLength(p, m, LAMBDA len, m1 :
        Then(Load(p, 1, m1), LAMBDA cap, m2 :
            IF ~ IsWord(cap) THEN Halt("wild", m2)
            ELSE IF Unsigned(Word(len)) < Unsigned(cap)
            THEN Then(Store(p, 0, Word(Wrap(len + 1)), m2), LAMBDA q, m3 :
                    Store(p, len + 2, w, m3))
            ELSE LET doubled == Wrap(2 * cap[2])
                     room == IF Unsigned(Word(doubled)) < 4 THEN 4 ELSE doubled
                 IN  Then(Elements(p, 2, m2), LAMBDA es, m3 :
                        NewBlock(<<Word(Wrap(len + 1)), Word(room)>> \o Append(es, w)
                                    \o [i \in 1 .. room - Len(es) - 1 |-> Word(0)],
                                 m3))))

\* In place: the last element is forgotten.
PopWord(p, m) ==
    Then(BoundsCheck(p, Word(0), m), LAMBDA zero, m1 :
        WithLength(p, m1, LAMBDA len, m2 : Store(p, 0, Word(len - 1), m2)))

\* In place.
SetWord(p, i, w, m) ==
    Then(BoundsCheck(p, i, m), LAMBDA n, m1 : Store(p, n + 2, w, m1))

ConcatWords(p, q, m) ==
    Then(Elements(p, 1, m), LAMBDA ps, m1 :
        Then(Elements(q, 1, m1), LAMBDA qs, m2 :
            NewBlock(<<Word(Len(ps) + Len(qs))>> \o ps \o qs, m2)))

SliceWords(p, lo, hi, m) ==
    WithLength(p, m, LAMBDA len, m1 :
        IF ~ IsWord(lo) \/ ~ IsWord(hi) THEN Halt("wild", m1)
        ELSE IF \/ Unsigned(lo) > Unsigned(Word(len))
                \/ Unsigned(hi) > Unsigned(Word(len))
                \/ Unsigned(lo) > Unsigned(hi)
        THEN Halt("bounds", m1)
        ELSE LET n == hi[2] - lo[2]
             IN  Then(LoadRange(p, lo[2] + 1, n, m1), LAMBDA cs, m2 :
                    NewBlock(<<Word(n)>> \o cs, m2)))

\* A list of characters as a string.
FromCharsWords(p, m) ==
    Then(Elements(p, 2, m), LAMBDA cs, m1 : NewBlock(<<Word(Len(cs))>> \o cs, m1))
-----------------------------------------------------------------------------
\* Arithmetic on words; adding to a pointer or ordering one is wild.
Comparing == {"eq", "ne", "lt", "le", "gt", "ge"}

Compare(op, x, y) ==
    LET holds == CASE op = "eq" -> x = y
                   [] op = "ne" -> x # y
                   [] op = "lt" -> x[2] < y[2]
                   [] op = "le" -> x[2] <= y[2]
                   [] op = "gt" -> x[2] > y[2]
                   [] op = "ge" -> x[2] >= y[2]
    IN  Word(IF holds THEN 1 ELSE 0)

\* undivided is how a division that has no result ends; the operands of and
\* and or are truth values.
ArithWords(op, ws, undivided, m) ==
    LET x == ws[1][2]
        y == ws[2][2]
        bit(n) == Unsigned(Word(n)) % 2
    IN  CASE op \in {"eq", "ne"} -> Done(Compare(op, ws[1], ws[2]), m)
          [] op \notin {"eq", "ne"} /\ \E i \in DOMAIN ws : ~ IsWord(ws[i]) ->
                Halt("wild", m)
          [] OTHER ->
                CASE op \in Comparing -> Done(Compare(op, ws[1], ws[2]), m)
                  [] op = "add" -> Done(Word(Wrap(x + y)), m)
                  [] op = "sub" -> Done(Word(Wrap(x - y)), m)
                  [] op = "mul" -> Done(Word(Wrap(x * y)), m)
                  [] op \in {"div", "rem"} ->
                        IF y = 0 \/ (y = -1 /\ x = -(2 ^ (Width - 1)))
                        THEN Halt(undivided, m)
                        ELSE Done(Word(IF op = "div" THEN Truncated(x, y)
                                       ELSE x - y * Truncated(x, y)), m)
                  [] op = "and" -> Done(Word(IF x = 1 /\ y = 1 THEN 1 ELSE 0), m)
                  [] op = "or" -> Done(Word(IF x = 1 \/ y = 1 THEN 1 ELSE 0), m)
                  [] op = "not" -> Done(Word(IF bit(x) = 0 THEN x + 1 ELSE x - 1), m)
                  [] op = "neg" -> Done(Word(Wrap(-x)), m)

\* Shifting up and down wraps to the narrow widths.
CastWord(w, to, m) ==
    CASE to[1] = "bool" -> Done(Word(IF Nonzero(w) THEN 1 ELSE 0), m)
      [] to[1] \in {"i8", "u8"} ->
            IF ~ IsWord(w) THEN Halt("wild", m)
            ELSE Done(Word(IF to[1] = "i8" THEN Signed(w[2], Narrow)
                           ELSE w[2] % 2 ^ Narrow), m)
      [] to[1] \in {"i64", "usize", "char"} -> Done(w, m)
      [] OTHER -> Halt("unsupported", m)
-----------------------------------------------------------------------------
(* Slots: what the translator knows of a value while it emits code, a word, *)
(* (), a call that waits for arguments, or an aggregate in registers.       *)
Val(w) == <<"val", w>>
NoSlot == <<"unit">>
Waiting(f, got) == <<"partial", f, got>>
Registers(tag, fields) == <<"tuple", tag, fields>>
AsVal(r) == Then(r, LAMBDA w, m : Done(Val(w), m))

LitSlot(v) ==
    CASE v[1] = "unit" -> NoSlot
      [] v[1] = "bool" -> Val(Word(IF v[2] THEN 1 ELSE 0))
      [] v[1] \in {"int", "char"} -> Val(Word(v[2]))
      [] v[1] = "str" -> Registers(Len(v[2]), [i \in DOMAIN v[2] |-> Val(Word(v[2][i]))])

SlotOf(a, env) ==
    CASE a[1] = "lit" -> LitSlot(a[2])
      [] a[1] = "var" -> env[Len(env) - a[2]]
      [] a[1] = "fn" -> Waiting(a[2], <<>>)
SlotsOf(as, env) == [i \in DOMAIN as |-> SlotOf(as[i], env)]

\* A slot as one word: an aggregate gets a block, which is allocated before the
\* blocks of its fields.
RECURSIVE AsWord(_, _)
AsWord(slot, m) ==
    LET field(acc, i) ==
            Then(acc, LAMBDA p, m1 :
                Then(AsWord(slot[3][i], m1), LAMBDA w, m2 : Store(p, i, w, m2)))
        box(p, m1) == FoldLeft(field, Store(p, 0, Word(slot[2]), m1),
                               [i \in DOMAIN slot[3] |-> i])
    IN  CASE slot[1] = "val" -> Done(slot[2], m)
          [] slot[1] = "unit" -> Done(Word(0), m)
          [] slot[1] = "tuple" -> Then(Alloc(Len(slot[3]) + 1, m), box)
          [] slot[1] = "partial" -> Halt("unsupported", m)

AsWords(slots, m) ==
    FoldLeft(LAMBDA acc, s :
                Then(acc, LAMBDA ws, m1 :
                    Then(AsWord(s, m1), LAMBDA w, m2 : Done(Append(ws, w), m2))),
             Done(<<>>, m), slots)

\* Parameters without a register: () and capabilities.
IsNoSlot(ty) == ty[1] = "unit" \/ (ty[1] = "nominal" /\ ty[2] = "Alloc")
UsesListLayout(ty) == IsList(ty) \/ (ty[1] = "array" /\ ty[3] = 0)

\* The binders in scope: their slots and their types.
Bind(sc, slots, tys) == [env |-> sc.env \o slots, tys |-> sc.tys \o tys]

\* The parameters of a function: those without a register are () slots.
Entered(f, words) ==
    LET taken(i) == Cardinality({j \in 1 .. i : ~ IsNoSlot(f.types[j])})
    IN  [env |-> [i \in DOMAIN f.types |->
                    IF IsNoSlot(f.types[i]) THEN NoSlot ELSE Val(words[taken(i)])],
         tys |-> f.types]
====
