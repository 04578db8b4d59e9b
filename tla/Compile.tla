---- MODULE Compile ----
(***************************************************************************)
(* One program through marv: lowered to Core, run by the interpreter (marv *)
(* run, the oracle), compiled by the three code generators and run again   *)
(* by each with the same arguments.  What lowering and the interpreter do  *)
(* is compared with SourceMeaning, what a back end does with the           *)
(* interpreter.                                                            *)
(***************************************************************************)
EXTENDS SourceMeaning

CONSTANTS
    Programs,      \* names of programs
    Source(_),     \* the functions of one, main among them
    Arguments(_),  \* the arguments to try: values of main's last parameters
    Scratch        \* programs that allocate only inside loops that carry scalars

VARIABLES
    program,   \* the program and the arguments of this compilation
    args,
    core,      \* its definitions after lowering, None before
    outcomes   \* of each run so far: how it ended, the words it left allocated

vars == <<program, args, core, outcomes>>

Cl == INSTANCE Cranelift
Tl == INSTANCE Llvm
Wa == INSTANCE Wasm

Main == Source(program)["main"]
Alloc == <<"nominal", "Alloc", <<>>>>

\* The interpreter passes a capability as (), compiled code does not pass it.
Passed ==
    LET place(i) == Cardinality({j \in 1 .. i : Main.types[j] # Alloc})
        given == [i \in DOMAIN Main.types |->
                    IF Main.types[i] = Alloc THEN Unit ELSE args[place(i)]]
    IN  IF given = <<>> THEN <<Unit>> ELSE given

\* The machine word of a value that main takes or returns.
WordOf(v) ==
    CASE v[1] = "int" -> <<"i", v[2]>>
      [] v[1] = "bool" -> <<"i", IF v[2] THEN 1 ELSE 0>>
      [] v[1] = "unit" -> <<"i", 0>>
Words == [i \in DOMAIN args |-> WordOf(args[i])]

Lowered == core # None
Clean == Lowered /\ \A f \in DOMAIN core[2] : core[2][f].err = ""
Program == [defs |-> core[2], globals |-> Globals(core[2])]
-----------------------------------------------------------------------------
Init ==
    /\ program \in Programs
    /\ args \in Arguments(program)
    /\ core = None
    /\ outcomes = <<>>

Lower ==
    /\ ~ Lowered
    /\ core' = <<"core", LowerModule(Source(program))>>
    /\ UNCHANGED <<program, args, outcomes>>

Ran(name, after, outcome) ==
    /\ Clean
    /\ name \notin DOMAIN outcomes
    /\ after \subseteq DOMAIN outcomes
    /\ outcomes' = (name :> outcome) @@ outcomes
    /\ UNCHANGED <<program, args, core>>

\* How compiled code ended, as its caller sees it, and what it left: on a heap
\* that has freed some of its blocks, and below a bump pointer.
End(r) == IF r.st = "ok" THEN <<"ok", r.x>> ELSE <<r.st>>
OnHeap(r) ==
    [end |-> End(r),
     live |-> Cardinality({a \in DOMAIN r.m.words : r.m.words[a] # <<"freed">>})]
OnBump(r) == [end |-> End(r), live |-> r.m.top]

Interpret == Ran("oracle", {}, [end |-> Run(core[2], "main", Passed), live |-> 0])
RunCranelift == Ran("cranelift", {"oracle"}, OnHeap(Cl!Run(Program, "main", Words)))
\* What is behind a block is the same for all reads of a run: one that finds
\* nothing there ends the run.
RunLlvm ==
    \E mapped \in BOOLEAN :
        Ran("llvm", {"cranelift"}, OnHeap(Tl!Run(Program, "main", Words, mapped)))
RunWasm == Ran("wasm", {"llvm"}, OnBump(Wa!Run(Program, "main", Words)))

Next == Lower \/ Interpret \/ RunCranelift \/ RunLlvm \/ RunWasm

Spec == Init /\ [][Next]_vars
-----------------------------------------------------------------------------
Oracle == outcomes["oracle"].end

\* Lowering preserves meaning: running the Core of a program gives what its
\* source means, or fails as it fails.  Loops thread the variables they assign
\* through tuples, branches join them, shadowing and nested stores rebind them,
\* all of it positions in an environment.
Faithful ==
    "oracle" \in DOMAIN outcomes =>
        Oracle = Meaning(Source(program), "main", Passed)

\* "and every ensures after" (marv-interp): a run that returns satisfies every
\* ensures of its entry.
EnsuresReported ==
    "oracle" \in DOMAIN outcomes /\ IsOk(Oracle) =>
        ~ Broken(Source(program), Main.ensures, WithResult(Main, Passed, Oracle[2]))

\* What compiled code may do where the interpreter ended so.  Contracts and
\* invariants are not compiled.
Allowed(division) ==
    CASE IsOk(Oracle) -> {<<"ok", WordOf(Oracle[2])>>}
      [] Oracle = Error("bounds") -> {<<"bounds">>}
      [] Oracle = Error("division by zero") -> {division}
      [] Oracle = Error("fuel") -> {<<"fuel">>}
      [] OTHER -> {outcomes[name].end : name \in DOMAIN outcomes}

\* Cranelift's side of "interp == Cranelift == wasm": it rejects none of these
\* programs, and its code computes the word the interpreter computes, stops at a
\* subscript out of bounds, and never reads what a loop has given back or what
\* is no block.
CraneliftAgrees ==
    "cranelift" \in DOMAIN outcomes => outcomes["cranelift"].end \in Allowed(<<"trap">>)

\* The same of LLVM's code, where a division by zero is undefined and so is a
\* comparison of a string with a shorter one, which reads behind the shorter
\* one's block: it may end the run there, but no comparison it survives, and
\* nothing else, makes the code differ from the interpreter.
LlvmAgrees ==
    "llvm" \in DOMAIN outcomes =>
        outcomes["llvm"].end \in {<<"overread">>} \cup Allowed(<<"undefined">>)

\* The same of Wasm's, which rejects a loop whose body rebuilds an array, struct
\* or enum that the loop carries.
WasmAgrees ==
    "wasm" \in DOMAIN outcomes =>
        outcomes["wasm"].end \in {<<"unsupported">>} \cup Allowed(<<"trap">>)

\* A loop that carries only scalars runs in constant space: after it nothing is
\* left of what its rounds allocated, in Cranelift's arena and in Wasm's memory.
ScratchReclaimed ==
    \A name \in DOMAIN outcomes \cap {"cranelift", "wasm"} :
        program \in Scratch /\ IsOk(Oracle) => outcomes[name].live = 0
====
