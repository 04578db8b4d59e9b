---- MODULE LowerBody ----
(***************************************************************************)
(* Lowering of statements, blocks and functions (lower.rs).  A block has   *)
(* statements and a tail; the tail of a loop's body, and of its branches,  *)
(* is lowered to the next values of the variables the loop carries.        *)
(***************************************************************************)
EXTENDS Contracts, TLC

LoopTuple == "@loop-state"

\* What a block is for: its value, or the next values of carried variables.
Value == [loop |-> FALSE, carried |-> <<>>]
NextOf(carried) == [loop |-> TRUE, carried |-> carried]

\* Mutant: plain lookup by name.
NextStateByName(carried, env) ==
    Ctor(LoopTuple, 0, [j \in DOMAIN carried |-> Local(carried[j], env)])

\* The next values follow the carried lineage, so that a declaration in the
\* body that shadows a carried variable is skipped.
NextState(carried, env) ==
    Ctor(LoopTuple, 0,
         [j \in DOMAIN carried |->
            env[SelectLastInSeq(env, LAMBDA x : x.carried /\ x.name = carried[j])].atom])

-----------------------------------------------------------------------------
\* The variables of the enclosing scope a block assigns: shadowed holds the
\* names declared between that scope and the block.
RECURSIVE Root(_), OuterAssigned(_, _), OuterAssignedTail(_, _)
Root(lv) == IF lv.e = "var" THEN lv.x ELSE Root(lv.of)

OuterAssigned(block, shadowed) ==
    LET step(acc, s) ==
            CASE s.s \in {"let", "var"} ->
                    [acc EXCEPT !.shadowed = @ \cup {s.x}]
              [] s.s = "assign" ->
                    [acc EXCEPT !.out = @ \cup ({Root(s.lv)} \ acc.shadowed)]
              [] s.s = "while" ->
                    [acc EXCEPT !.out = @ \cup OuterAssigned(s.body, acc.shadowed)]
              [] s.s = "for" ->
                    [acc EXCEPT !.out =
                        @ \cup OuterAssigned(s.body, acc.shadowed \cup {s.x})]
        end == FoldLeft(step, [shadowed |-> shadowed, out |-> {}], block.stmts)
    IN  end.out \cup OuterAssignedTail(block.tail, end.shadowed)

\* Each branch is a scope of its own, with the names its pattern binds.
OuterAssignedTail(tail, shadowed) ==
    CASE tail.t = "block" -> OuterAssigned(tail.block, shadowed)
      [] tail.t = "if" ->
            OuterAssigned(tail.then, shadowed) \cup OuterAssignedTail(tail.els, shadowed)
      [] tail.t = "match" ->
            UNION {OuterAssignedTail(tail.arms[i].body,
                                     shadowed \cup ToSet(tail.arms[i].binds)) :
                      i \in DOMAIN tail.arms}
      [] OTHER -> {}

\* In order of declaration, each once.
Carried(body, env) ==
    LET assigned == OuterAssigned(body, {})
        add(names, x) == IF x.mutable /\ x.name \in assigned /\ ~ Contains(names, x.name)
                         THEN Append(names, x.name) ELSE names
    IN  FoldLeft(add, <<>>, env)
-----------------------------------------------------------------------------
Scope(env, b) == [env |-> env, b |-> b]

\* An array store unrolls into one select per element.
Selected(arr, index, value, n, elem, b) ==
    LET select(acc, j) ==
            LET old == Push(acc.b, Prim("index", <<arr, Lit(Num(j))>>))
                is == Push(old.b, Prim("eq", <<index, Lit(Num(j))>>))
                sel == Push(is.b, Match(is.a, <<Branch(0, AtomCore(old.a)),
                                                Branch(0, AtomCore(value))>>))
            IN  [b |-> sel.b, as |-> Append(acc.as, sel.a)]
        all == FoldLeft(select, [b |-> b, as |-> <<>>], [j \in 1 .. n |-> j - 1])
    IN  Push(all.b, [k |-> "array", elem |-> elem, fields |-> all.as])

\* A struct store rebuilds the struct around the new field.
Rebuilt(base, name, idx, value, b) ==
    LET field(acc, j) ==
            IF j = idx THEN [acc EXCEPT !.as = Append(@, value)]
            ELSE LET p == Push(acc.b, [k |-> "proj", base |-> base, idx |-> j - 1])
                 IN  [b |-> p.b, as |-> Append(acc.as, p.a)]
        all == FoldLeft(field, [b |-> b, as |-> <<>>],
                        [j \in DOMAIN Structs[name] |-> j])
    IN  Push(all.b, Ctor(name, 0, all.as))

\* The value of the target's base with the new value stored in it; as are the
\* atoms of the base and, for an element, of the subscript.
StoredIn(lv, ty, r, value) ==
    CASE lv.e = "field" /\ FieldIndex(ty, lv.f) = 0 ->
            Atomic(Failed(r.b, "unresolved projection"), value)
      [] lv.e = "field" /\ FieldIndex(ty, lv.f) # 0 ->
            Rebuilt(r.as[1], ty[2], FieldIndex(ty, lv.f), value, r.b)
      [] lv.e = "index" /\ ty[1] = "array" ->
            Selected(r.as[1], r.as[2], value, ty[3], ty[2], r.b)
      [] lv.e = "index" /\ ty[1] = "slice" ->
            Push(r.b, [k |-> "index_set", base |-> r.as[1], index |-> r.as[2],
                       value |-> value])
      [] OTHER -> Atomic(Failed(r.b, "index assignment unsupported"), value)

Rebind(i, r, env) ==
    IF i = 0 THEN Scope(env, Failed(r.b, "undeclared"))
    ELSE IF ~ env[i].mutable THEN Scope(env, Failed(r.b, "immutable"))
    ELSE Scope(Append(env, [env[i] EXCEPT !.atom = r.a]), r.b)

\* An assignment rebinds the variable at the root of its target to r.
RECURSIVE AssignTo(_, _, _)
AssignTo(lv, r, env) ==
    IF lv.e = "var" THEN Rebind(Position(lv.x, env), r, env)
    ELSE AssignTo(lv.of,
                  StoredIn(lv, PeelRef(TypeOfExpr(lv.of, env)),
                           EmitAtoms(IF lv.e = "field" THEN <<lv.of>>
                                     ELSE <<lv.of, lv.i>>, env, r.b),
                           r.a),
                  env)

RECURSIVE LowerBlock(_, _, _, _)

\* A declaration's initializer is bound under its name; it carries nothing.
Declared(s, ty, env, r) ==
    Scope(Append(env, Binding(s.x, r.a, ty, s.s = "var", FALSE)), r.b)
LowerDecl(s, env, b) ==
    Declared(s, IF s.ty # None THEN s.ty ELSE TypeOfExpr(s.value, env), env,
             EmitAtom(Typed(s.value, s.ty), env, b))

LowerAssign(s, env, b) ==
    AssignTo(s.lv, EmitAtom(Typed(s.value, TypeOfExpr(s.lv, env)), env, b), env)

\* A loop whose parts have been lowered.
PushLoop(state, cond, inv, body, b) ==
    Push(Errs(Errs(Errs(b, cond.b.err), inv.err), body.err),
         [k |-> "loop", state |-> state, invariant |-> inv.n,
          cond |-> FoldLets(cond.b.lets, cond.n), body |-> body.n])

\* The variable x carried by a loop is the atom a there.
Rebound(x, a) == Binding(x.name, a, x.ty, TRUE, TRUE)

\* After the loop each carried variable is a projection of the final tuple.
AfterLoop(outer, env, loop) ==
    FoldLeft(LAMBDA acc, j :
                Scope(Append(acc.env, Rebound(outer[j], <<"var", Depth(acc.b)>>)),
                      Push(acc.b, [k |-> "proj", base |-> loop.a, idx |-> j - 1]).b),
             Scope(env, loop.b), [j \in DOMAIN outer |-> j])

\* The header rebinds the carried variables at the levels above the builder's.
LoopOver(s, outer, env, b) ==
    LET inside == Depth(b) + Len(outer)
        header == env \o [j \in DOMAIN outer |->
                            Rebound(outer[j], <<"var", Depth(b) + j - 1>>)]
    IN  AfterLoop(outer, env,
                  PushLoop([j \in DOMAIN outer |-> outer[j].atom],
                           EmitTail(s.cond, header, Builder(inside)),
                           LowerInvariants(s.invariants, header, inside),
                           LowerBlock(s.body, NextOf([j \in DOMAIN outer |-> outer[j].name]),
                                      header, inside),
                           b))

LowerWhile(s, env, b) ==
    LET carried == Carried(s.body, env)
    IN  LoopOver(s, [j \in DOMAIN carried |-> env[Position(carried[j], env)]], env, b)

\* A for is a while over an index that no source name can be; the collection
\* is evaluated at every test and for every element.
ForIndex(b) == "#for" \o ToString(Depth(b))
AsWhile(s, idx) ==
    LET at == [e |-> "var", x |-> idx]
        elem == [s |-> "let", x |-> s.x, ty |-> None,
                 value |-> [e |-> "index", of |-> s.iter, i |-> at]]
        advance == [s |-> "assign", lv |-> at,
                    value |-> [e |-> "bin", op |-> "add", l |-> at,
                               r |-> [e |-> "lit", v |-> Num(1)]]]
    IN  [s |-> "while", invariants |-> <<>>,
         cond |-> [e |-> "bin", op |-> "lt", l |-> at,
                   r |-> [e |-> "call", f |-> "len", args |-> <<s.iter>>]],
         body |-> [s.body EXCEPT !.stmts = <<elem>> \o @ \o <<advance>>]]

LowerLoop(s, env, b) ==
    LET index == Binding(ForIndex(b), Lit(Num(0)), <<"usize">>, TRUE, FALSE)
    IN  LowerWhile(IF s.s = "for" THEN AsWhile(s, ForIndex(b)) ELSE s,
                   IF s.s = "for" THEN Append(env, index) ELSE env, b)

LowerStmt(s, env, b) ==
    CASE s.s \in {"let", "var"} -> LowerDecl(s, env, b)
      [] s.s = "assign" -> LowerAssign(s, env, b)
      [] s.s \in {"while", "for"} -> LowerLoop(s, env, b)

LowerStmts(stmts, env, b) ==
    FoldLeft(LAMBDA acc, s : LowerStmt(s, acc.env, acc.b), Scope(env, b), stmts)

Empty(tail) == [stmts |-> <<>>, tail |-> tail]
AsBlock(tail) == IF tail.t = "block" THEN tail.block ELSE Empty(tail)

\* false is tag 0, true tag 1; a missing else does nothing.
IfNode(cond, then, els) ==
    Computed(Errs(Errs(cond.b, then.err), els.err),
             Match(cond.a, <<Branch(0, els.n), Branch(0, then.n)>>))
LowerIf(tail, for, env, cond) ==
    IfNode(cond, LowerBlock(tail.then, for, env, Depth(cond.b)),
           LowerBlock(AsBlock(tail.els), for, env, Depth(cond.b)))

\* Arms in any order take the slot of their tag, the first one for a tag wins,
\* a wildcard fills the rest; the branches are the covered prefix.
LowerMatch(tail, for, env, scrutinee) ==
    LET depth == Depth(scrutinee.b)
        arms == tail.arms
        pattern == SelectInSeq(arms, LAMBDA a : a.pat # "_")
        enum == Variant(arms[pattern].pat)[1]
        mixed == \E i \in DOMAIN arms :
                    arms[i].pat # "_" /\ Variant(arms[i].pat)[1] # enum
        bound(arm) == LET names == [i \in DOMAIN arm.binds |->
                                Binding(arm.binds[i], <<"var", depth + i - 1>>,
                                        None, FALSE, FALSE)]
                      IN  env \o SelectSeq(names, LAMBDA x : x.name # "_")
        bodies == [i \in DOMAIN arms |->
                    LowerBlock(AsBlock(arms[i].body), for, bound(arms[i]),
                               depth + Len(arms[i].binds))]
        slot(tag) ==
            LET own == SelectInSeq(arms, LAMBDA a : a.pat # "_"
                                            /\ Variant(a.pat)[2] = tag)
                wild == SelectInSeq(arms, LAMBDA a : a.pat = "_")
            IN  IF own # 0 THEN own ELSE wild
        tags == [i \in DOMAIN Enums[enum] |-> i - 1]
        gap == SelectInSeq(tags, LAMBDA t : slot(t) = 0)
        covered == IF gap = 0 THEN tags ELSE SubSeq(tags, 1, gap - 1)
        branches == [i \in DOMAIN covered |->
                        LET k == slot(covered[i])
                        IN  Branch(Len(arms[k].binds), bodies[k].n)]
        errs == FoldLeft(LAMBDA acc, body : Errs(acc, body.err), scrutinee.b, bodies)
    IN  CASE pattern = 0 ->
                Computed(Failed(scrutinee.b, "no constructor"), AtomCore(Lit(Unit)))
          [] pattern # 0 /\ mixed ->
                Computed(Failed(scrutinee.b, "mixed enums"), AtomCore(Lit(Unit)))
          [] OTHER -> Computed(errs, Match(scrutinee.a, branches))

\* The end of a block: its value, or the next values of what a loop carries.  In
\* a loop an expression is evaluated and dropped and return leaves the function;
\* at the top return is the value.
Ending(for, env) ==
    IF for.loop THEN NextState(for.carried, env) ELSE AtomCore(Lit(Unit))
HeadOf(tail) ==
    CASE tail.t \in {"expr", "return"} -> tail.x
      [] tail.t = "if" -> tail.cond
      [] tail.t = "match" -> tail.of
LowerTailFrom(tail, for, env, head) ==
    CASE tail.t = "expr" -> Computed(head.b, Ending(for, env))
      [] tail.t = "return" -> Computed(head.b, [k |-> "return", value |-> head.a])
      [] tail.t = "if" -> LowerIf(tail, for, env, head)
      [] tail.t = "match" -> LowerMatch(tail, for, env, head)
LowerTail(tail, for, at) ==
    CASE tail.t = "none" -> Computed(at.b, Ending(for, at.env))
      [] tail.t \in {"expr", "return"} /\ ~ for.loop -> EmitTail(tail.x, at.env, at.b)
      [] OTHER -> LowerTailFrom(tail, for, at.env, EmitAtom(HeadOf(tail), at.env, at.b))

\* A block on a spine of its own: a node and an error.
Folded(r) == [n |-> FoldLets(r.b.lets, r.n), err |-> r.b.err]
LowerBlock(block, for, env, depth) ==
    Folded(LowerTail(block.tail, for, LowerStmts(block.stmts, env, Builder(depth))))

\* A function: parameters are the outermost levels and immutable, one without
\* parameters takes ().
ParamTypes(f) == IF f.params = <<>> THEN <<<<"unit">>>> ELSE f.types
FnOf(f, body, requires, ensures) ==
    LET clauses == requires \o ensures
        failed == SelectInSeq(clauses, LAMBDA c : c.err # "")
    IN  [types |-> ParamTypes(f), ret |-> f.ret,
         body |-> ToIndices(body.n, Len(ParamTypes(f))),
         requires |-> [i \in DOMAIN requires |-> requires[i].n],
         ensures |-> [i \in DOMAIN ensures |-> ensures[i].n],
         err |-> IF body.err # "" THEN body.err
                 ELSE IF failed # 0 THEN clauses[failed].err ELSE ""]
LowerFn(f) ==
    LET env == [i \in DOMAIN f.params |->
                    Binding(f.params[i], <<"var", i - 1>>, f.types[i], FALSE, FALSE)]
    IN  FnOf(f, LowerBlock(f.body, Value, env, Len(ParamTypes(f))),
             LowerClauses(f.requires, f.params, f.types, f.ret, FALSE),
             LowerClauses(f.ensures, f.params, f.types, f.ret, TRUE))

\* The arrow type of a lowered function.
Arrow(types, ret) ==
    FoldRight(LAMBDA param, result : <<"arrow", param, result>>, types, ret)

LowerModule(fns) == [f \in DOMAIN fns |-> LowerFn(fns[f])]
Globals(defs) == [f \in DOMAIN defs |-> Arrow(defs[f].types, defs[f].ret)]
====
