---- MODULE Effects ----
(***************************************************************************)
(* marv-types/src/check.rs and world.rs: the effect row of a function, the *)
(* capabilities it may exercise and the errors it may raise, as declared,  *)
(* as inferred from its body and as propagated through its calls.          *)
(*                                                                         *)
(* A program is a function from names to definitions in A-normal form, a   *)
(* definition a record with                                                *)
(*   params   the types of its parameters, a capability or Plain;          *)
(*   ret      the type of its result, without the error union;             *)
(*   open     whether that type is an error union !T;                      *)
(*   pure     whether it is declared pure;                                 *)
(*   body     its steps, each of which binds one variable;                 *)
(*   types    the types the checker synthesizes for these variables;       *)
(*   result   the variable it returns, 0 for a literal.                    *)
(* Variables are numbered from the first parameter, as de Bruijn levels. A *)
(* step performs operation op of the capability in variable cap, calls fn  *)
(* with the variables args, or raises error; arm says that it is the arm   *)
(* of an if without else: it may be passed over, and what it yields is     *)
(* discarded.  Functions are not values: the front end lowers no function  *)
(* type and no lambda.                                                     *)
(***************************************************************************)
EXTENDS Naturals, Sequences, Functions, Dag

CONSTANTS
    Caps,       \* capability interfaces
    Plain,      \* every other type, and the values of such types
    Ops         \* capability -> the results of its operations, in order

ASSUME CapsAssumption ==
    /\ Plain \notin Caps
    /\ Ops \in [Caps -> Seq(Caps \cup {Plain})]

Row(caps, errors) == [caps |-> caps, errors |-> errors]

RowUnion(a, b) == Row(a.caps \cup b.caps, a.errors \cup b.errors)

\* The type of variable k; a literal is plain.
TypeOf(f, k) ==
    IF k = 0 THEN Plain
    ELSE IF k <= Len(f.params) THEN f.params[k]
    ELSE f.types[k - Len(f.params)]

\* The variables in scope before step i.
Scope(f, i) == 0 .. Len(f.params) + i - 1

Steps(f, what) == {i \in DOMAIN f.body : f.body[i].do = what}

Callees(f) == {f.body[i].fn : i \in Steps(f, "call")}

\* The declared row of a lowered function: its capability parameters, none
\* when it is pure.  No errors: the error set of !T is inferred.
DeclaredRow(f) == Row(IF f.pure THEN {} ELSE Range(f.params) \cap Caps, {})

\* What the body exercises itself.
OwnRow(f) ==
    Row({TypeOf(f, f.body[i].cap) : i \in Steps(f, "perform")} \cap Caps,
        {f.body[i].error : i \in Steps(f, "raise")})

\* Mutant: a call adds nothing to the row of the body it is in.
BodyRow(rows, f) == OwnRow(f)

\* effect_row: a call adds the row of the callee's arrow.
InferredRow(rows, f) ==
    RowUnion(OwnRow(f),
             Row(UNION {rows[g].caps : g \in Callees(f)},
                 UNION {rows[g].errors : g \in Callees(f)}))

\* The capabilities a capability's operations narrow it to.
Narrowing == [c \in Caps |-> Range(Ops[c]) \cap Caps]

\* authorized_caps: a search that starts from the declared capabilities.
Authorized(caps) == Reachable(Narrowing, caps)

\* Mutant: the types of the arguments are not compared.
ArityOnly(f, i, params) ==
    /\ Len(f.body[i].args) = Len(params)
    /\ \A j \in DOMAIN params : f.body[i].args[j] \in Scope(f, i)

\* The arguments of a call have the types the callee expects.
ArgumentsFit(f, i, params) ==
    /\ Len(f.body[i].args) = Len(params)
    /\ \A j \in DOMAIN params :
          /\ f.body[i].args[j] \in Scope(f, i)
          /\ TypeOf(f, f.body[i].args[j]) = params[j]

\* What step i of f may be, and what its variable is then: the type errors
\* synth reports, of which only those about capabilities are modelled.
PerformFits(f, i) ==
    LET c == TypeOf(f, f.body[i].cap)
    IN  /\ f.body[i].cap \in Scope(f, i)
        /\ c \in Caps
        /\ f.body[i].op \in DOMAIN Ops[c]
        /\ f.types[i] = IF f.body[i].arm THEN Plain ELSE Ops[c][f.body[i].op]

CallFits(prog, f, i) ==
    /\ f.body[i].fn \in DOMAIN prog
    /\ ArgumentsFit(f, i, prog[f.body[i].fn].params)
    /\ f.types[i] = IF f.body[i].arm THEN Plain ELSE prog[f.body[i].fn].ret

StepFits(prog, f, i) ==
    \/ f.body[i].do = "perform" /\ PerformFits(f, i)
    \/ f.body[i].do = "call" /\ CallFits(prog, f, i)
    \/ f.body[i].do = "raise" /\ f.types[i] = Plain

WellTyped(prog, f) ==
    /\ \A i \in DOMAIN f.body : StepFits(prog, f, i)
    /\ f.result \in Scope(f, Len(f.body) + 1)
    /\ TypeOf(f, f.result) = f.ret

\* Mutant: only capabilities are compared.
CapsSubsumed(rows, f) ==
    InferredRow(rows, f).caps \subseteq Authorized(DeclaredRow(f).caps)

\* check_subsumption: the declared row covers the inferred one; the error set
\* of an error union is open.
Subsumed(rows, f) ==
    /\ InferredRow(rows, f).caps \subseteq Authorized(DeclaredRow(f).caps)
    /\ f.open \/ InferredRow(rows, f).errors \subseteq DeclaredRow(f).errors

\* check_def of every definition reports no error.
Accepted(prog, rows) ==
    \A n \in DOMAIN prog : WellTyped(prog, prog[n]) /\ Subsumed(rows, prog[n])

\* The rows the lowered arrows carry.
DeclaredRows(prog) == [n \in DOMAIN prog |-> DeclaredRow(prog[n])]

\* Mutant: a pass replaces the row of an arrow by the inferred one.
InferredRows(prog, rows) ==
    [n \in DOMAIN prog |-> InferredRow(rows, prog[n])]

\* One pass of world_with_propagated_effects: every row is extended by what
\* the body infers in the world of the pass before.
PropagatedRows(prog, rows) ==
    [n \in DOMAIN prog |-> RowUnion(rows[n], InferredRow(rows, prog[n]))]
====
