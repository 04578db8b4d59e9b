# A TLA+ model of Marv

Marv is a language whose programs are checked for the capabilities, errors and
linear values they use, stored by the hash of their content, and served to
editors and agents as immutable snapshots. This directory models the parts of
the implementation (`crates/`) that keep state, decide what may run, or have to
agree on what a program means: the content-addressed store and its directory,
the query server's snapshots, the checker's effect rows together with the
interpreter that runs accepted programs, the linearity check, the lowering of
function bodies to Core, the three code generators, and the contract verifier.
TLC checks every module on small instances; TLAPS proves the theorems listed
below for every value of the constants.

Line numbers refer to the source files of the commit this directory stands
beside; `PROJECT.json` (`map`) gives the lines of every definition.

## 1. The system

### Components, their state and their operations

| Component | State it keeps | Operations that change it | Where |
|---|---|---|---|
| Content-addressed store | `Store` (dag hash -> blob), `Lockfile` (name -> dag hash) | `commit_with_meta`, `gc` | `marv-store/src/lib.rs` |
| Resolver, content hash | none: from a module's definitions to dag hashes | `resolve`, `content_hash`, `sccs` | `marv-store/src/resolve.rs`, `marv-core/src/{hash,reach}.rs` |
| Store directory | one file per blob, `lockfile.json`, an old `store.json` | `load`, `save`, `prune_blob_files`; `marv commit`, `marv store gc` | `marv-store/src/lib.rs`, `marv-cli/src/main.rs` |
| Pinned build | none: a program from source, store and lockfile | `pin_loaded`, `visit_pinned` | `marv-cli/src/main.rs` |
| Query server | `snapshots`, `next_id`, salsa inputs, `store`, `lockfile` | `openSnapshot`, `openPackage`, `applyEdits`, `closeSnapshot`, `applyFix`, `format`, `commit`; the queries only read | `marv-server/src/lib.rs` |
| Analysis database | salsa inputs and their memoized analyses | `analyze_source`, `analyze_core` | `marv-db` |
| Checker | none: rows, types and use counts of one definition at a time | `check_def`, `synth`, `check_subsumption`, `check_linear` | `marv-types` |
| Interpreter | frames, the effect trace, linear values | `run`, `apply`, `perform`, loops, errors | `marv-interp` |
| Package loader, import pipeline | the directories and modules seen so far | `load_package`, `load_source`, `resolve_source_imports` | `marv-package`, `marv-cli/src/pipeline.rs` |
| Lowering | scopes, join points, loop exits | AST to Core IR | `marv-core/src/lower.rs` |
| Contract verifier | path conditions | verification conditions for the solver | `marv-verify` |
| Parser, lexer, formatter | none: text to AST and back | `parse`, `format` | `marv-syntax` |
| Code generators | layouts, blocks, locals | Core IR to Cranelift, LLVM, Wasm | `marv-codegen-*` |
| MCP adapter | none: forwards to the query server | one tool call, one request | `marv-mcp` |
| Self-hosted compiler, standard library, playground | programs in the language | - | `selfhost/`, `std/`, `web/` |

### How they interact

The front end (parser, package loader, lowering) turns files into definitions
that refer to each other by symbol. From there the definitions go two ways. The
checker reads them with a world of declarations and accepts or rejects the
program; the interpreter and the code generators run what it has accepted. The
store resolves their symbols to dag hashes, with the lockfile for everything
outside the batch, and freezes them; a pinned build later resolves the source
again and follows hashes from the entry. Two drivers sit on top. The CLI is a
process per command: it loads the whole store directory, changes it in memory
and saves it file by file. The query server is one process: it answers one
request at a time from snapshots that share salsa inputs, and commits a
snapshot to a store in memory, one file at a time. The MCP adapter is a client
of the server. Nothing in the implementation is multi-threaded; what is hard is
order, crashes, and staleness.

### What is hard, and what must hold

* **Store and resolver.** Hashes are shared: by definitions of equal content, by
  versions, by metadata that no hash covers. References out of a batch are
  resolved against the lockfile of the moment, so a blob's edges are older than
  the bindings around it. Recursive definitions are hashed with positions in
  place of hashes and stored with hashes in place of positions. What must hold:
  a bound name can be fetched whole, whatever was rebound and collected since;
  a blob is the definition its hash was computed from; committing again changes
  nothing; the audit data of a definition survives sharing its hash.
* **Store directory.** Nothing is atomic: a save removes files, rewrites each
  blob in place and then the lockfile. What must hold: a directory that loads
  is closed, and seen from the lockfile a command has happened or it has not.
* **Pinned build.** It mixes source and stored definitions by hash. It must
  never meet a missing hash, and must depend on nothing but the source and the
  bindings the source imports.
* **Query server.** Ids outlive edits and closings; inputs are shared between
  snapshots; two views of a file, its text and its memoized analysis, must
  agree; a snapshot is committed in pieces. Edits move the text under the edits
  that follow.
* **Effects.** A check sees one definition; a capability is narrowed in one
  frame, handed down through others and exercised in a third; recursion makes
  the rows a fixpoint; the server's check of a file propagates rows through
  calls and two other checks do not. What must hold of a run of an accepted
  program: no effect outside the declared rows or the grant, no perform on
  anything but a capability, no error through a function that declares none.
* **Parser and formatter.** Parentheses are no part of a tree, so the formatter
  must know where the grammar needs one; a brace after a name opens a struct or
  a block, by where it stands. What must hold: reading a text gives the tree
  that was printed, however it was laid out.
* **Linearity.** Uses in sequence, in the arms of a match and in loops are
  counted by three different rules, and paths leave in the middle.
* **Lowering.** A variable becomes a position in an environment. A loop threads
  what its body assigns through a tuple, the arms of a condition or match join
  what either assigns, a `return` in a loop turns into one more field of the
  tuple, and a declaration can shadow what is being carried. What must hold: the
  Core term computes what the statements say, and fails where they fail.
* **Code generators.** Three of them expand the same operations in three ways
  over one-word values: who copies an aggregate before storing into it, which
  block a loop may give back at the end of a round, how a narrow integer wraps,
  where a bounds check stands. What must hold: on every program one accepts, it
  computes the word the interpreter computes or stops where it stops, reads no
  block that was given back, and a loop over scalars leaves nothing behind.
* **Contract verifier.** It evaluates a body over solver terms: conditions at the
  arms of a match, the merge of what they leave, the three questions asked of a
  loop invariant, and what is still known after the loop. What must hold:
  "proved" means that no call breaks the clause, and a counterexample of a
  function without loops breaks it.
* **Package loader, import pipeline.** Packages in a cycle or reached twice,
  imports in a cycle or reached twice, a module declared twice, files that do
  not parse, a directory with no manifest, modules of `std` that are not there.
  What must hold: which definitions a program consists of, and so their hashes,
  do not depend on the file a command is given, on how the sources are laid out
  in packages, or on whether the CLI or the server commits them.

`PROJECT.json` lists the hazards line by line with the properties that cover
them.

## 2. The modules

    Dag
     ├── Resolve ── StoreOps ── MarvStore ── Workspace ── MCMarvStore
     │     │           ├── PinTable ◄─refines── StoreDir ── MCStoreDir
     │     │           └── QueryServer ── MCQueryServer
     │     └── SourceEdits ── MCSourceEdits
     │                         │
     │     Formatter ── Parser ┘
     └── Effects ── CheckedRun ── MCCheckedRun
    TextEdits ───────────────────── MCQueryServer
    LinearUse ── MCLinearUse

    CoreIr ── Lowering ── Contracts ── LowerBody ── CoreEval ── SourceMeaning ── Compile ── MCCompile
     │                        │                        │                            │
     │                        │                        │     Cranelift, Llvm, Wasm ─┘
     │                        └── Verifier ────────────┴── Verify ── MCVerify
     ├── WordHeap ── Cranelift, Llvm
     ├── Wasm
     └── MCSyntax                          programs in short notation, for both MC modules

    Foundations                            searches, counting, Resolve and StoreOps
     ├── MarvStoreProofs                   of MarvStore
     ├── StoreDirProofs                    of StoreDir and PinTable
     ├── QueryServerProofs                 of QueryServer
     ├── SourceEditsProofs                 of SourceEdits
     ├── CheckedRunProofs                  of CheckedRun
     ├── LinearUseProofs                   of LinearUse
     └── TextEditsProofs                   of TextEdits

**Dag** has the one graph algorithm everything uses. `Reachable` is the least
set a depth-first search saturates: `collect_closure` and `visit_pinned`
(closures), `sccs` (components) and `authorized_caps` (narrowing) are instances
of it. A successor outside the graph is a missing node; `Complete` says that a
search meets none, which is when the code's search returns without `MissingDef`.

**Resolve** is `resolve.rs`. Blake3 is an injective constructor: a hash is the
term it was computed from, so hashes are equal exactly when the hashed contents
are. A source entry keeps what the hash can tell apart: the references in order
(`Global`, `Nominal`, `Ctor`, `Raise`), the effect row, whose capability names
no substitution rewrites, the kind, and a `tag` for all the rest. A capability
interface always has the same tag, because `lower_interface` erases its
signatures. The code walks components callees first; the recursive function
`DagHashes` asks only for the hashes of other components, which is the same.

**StoreOps** is what a commit and a collection compute, **MarvStore** the state
machine over them: `Commit(batch)` is the whole of `commit_with_meta`, including
the merge of unsafe sites into an existing blob and the rebinding of every name;
`Gc` is `gc`, with its early return when the closure is incomplete. `declared`
and `commits` are history. Its last part, from `Sources` on, is the CLI's pinned
build, a function of the source and the state it runs in.

**Workspace** goes from a directory on disk to a program, on files that are
parsed or do not parse. `LoadPackage` is `load_package`: a `Visit` enters a
directory once, compares the name it expects there, takes the files under the
roots and puts the dependencies before what is still to visit. Its sources are a
set with the root of each, so that a file below two roots is in it twice.
`LoadSource` is `load_source`: without imports a file is its own program;
otherwise `ProjectSources` indexes the package it lies in, or without a manifest
every file below, and `Follow` takes the import that is next, breadth first. The
recursion of the one and the loop of the other are functions of the number of
steps, `Visits` and `Follows`, which end when every dependency and every import
there is could have been looked at: none is looked at twice, since a directory is
entered once and a module followed once. A failure of any kind is `Failed`: no
command goes on after one. The module then puts the two ways from a disk into a store side by
side: `Loads` is what `marv commit` commits in one batch, `FileCommits` what the
server commits file by file. It compares programs whose files lower one by one
as they do together; a file that needs another one's generic functions or
constructors to lower is skipped by the server's commit.

**StoreDir** is the directory: the variables `blobs` and `lockfile` are files,
`mem` is the memory of the process that runs, `todo` the files it has still to
remove or write. `CommitCommand` and `GcCommand` load and compute;
`RemoveBlob`, `StartWriting`, `WriteBlob` and `WriteLock` are the steps of
`save`; `Crash`, `CrashInBlob`, `CrashInLock` end the process between two files
or inside one. A failing write is the same step as a crash: `save` returns on
the first error and undoes nothing. The order of the files is left open, which
includes the order of the code. **PinTable** is the abstract specification: a
table of bindings that a commit changes at once or not at all. `StoreDir`
implements it with the lockfile as the table (`AtomicCommands`).

**QueryServer** has one action per request that registers a snapshot or commits.
A text is an opaque value; what the compiler sees in it (its entries, its
canonical form, its fix) are constants. `Rebuilt` is the reuse of salsa inputs
between a snapshot and the one it is made from, `CommittedFile` one turn of the
loop in `commit`. **TextEdits** is the byte editing of one file, for requests
(`apply_edits`) and for fixes (`apply_src_edits`), which differ in one check. One
request runs at a time, so `MCQueryServer` runs the two side by side, never at
once: sessions of whole requests (`InSession`) and the inside of one that edits a
file (`InRequest`).

**Formatter** and **Parser** are the two halves of `marv-syntax` for what a
function is made of: contracts, blocks, statements, matches, expressions and
types. A text is the sequence of tokens the lexer makes of it, a tree a record
per node of `ast.rs`. `Text` prints a tree in one of three styles: `fmt` is
`format_fn` and what it calls; `safe` adds every parenthesis the grammar needs;
`draft` is what an author may write, with none but those, with trailing commas
and without the commas between arms. `Parse` is the recursive descent, with one
operator per function of `parser.rs`: `min` is the level `parse_bin` is asked
for, `ns` the flag `no_struct`, `p` the token it has come to.

**SourceEdits** edits one module, by renaming, moving and changing definitions
and by printing functions and reading them again, and compares the hashes of
`Resolve` before and after. A function's tag is its tree. A new name is one that
neither the module nor the lockfile knows. What prints a tree and what reads a
text are parameters (`Printed`, `Read`): hashes see trees and nothing else. The
run gives them `FnText` and `ParseFn`.

**Effects** is the part of the checker that is about capabilities and errors: a
program is a function from names to definitions in A-normal form; `WellTyped` is
what `synth` rejects about capabilities, `Subsumed` is `check_subsumption`,
`PropagatedRows` one pass of `world_with_propagated_effects`. **CheckedRun**
takes a program through propagation (server) or not (CLI), the check, the grant
and the interpreter: `Skip`, `Perform`, `Call`, `Raise` and `Return` are its
steps over frames. `effects` is history: every effect with the functions that
were on the stack.

**LinearUse** is the linearity check as `synth` counts it, and a small-step
interpreter of the terms it counts in: lets, matches, loops, returns and errors.
A linear value is a token; `uses` counts how often each was consumed. `Finding`
is what `synth` finds of a term from what it finds of its parts, with one case
per constructor, and `Synth` the recursive function it defines over terms with
their environments. A flag, `careful`, is FALSE in the code's check; with TRUE it
also refuses the loops whose uses the code does not count (`Counted`), which is
what the two properties are about.

**From source to machine code.** These modules are functions, and the state
machines over them are small: a program goes through one pass after the other.
Terms are records, values are tuples, integers have `Width` bits.

* **CoreIr**: the terms of Core, types and values, the rewriting of levels to
  indices at the end of lowering (`ToIndices`), and the type oracle of
  `layout.rs` that all code generators consult.
* **Lowering**: builders, scopes as positions, the types of expressions, and
  expressions emitted as atoms and nodes over atoms.
  **Contracts**: contract clauses, lowered to predicates, and how the
  interpreter evaluates them, where a clause it cannot decide is skipped.
  **LowerBody**: stores into places, branches with their joins, matches, loops with carried variables and early returns, whole functions.
* **CoreEval**: the interpreter on Core: closures of known functions, the
  operations on arrays, structs, lists and strings, loops with their invariant,
  contracts of the entry.
* **SourceMeaning**: the abstract specification. Variables are named cells, an
  assignment changes the innermost cell of its name, a block forgets the cells
  it declared, values are copied. It has no tuples, joins, positions or flags.
* **WordHeap** is the machine: words, blocks, freed blocks, and the operations
  Cranelift and LLVM expand alike. They compare strings differently
  (`EqualText`): Cranelift tests the lengths first, LLVM calls `memcmp` with the
  left length on both. Behind a shorter right string that is undefined: `RunLlvm`
  tries both that there is memory and that the run ends there. **Cranelift**, **Llvm** and **Wasm**
  compile-and-run a Core term, each with its own loops, calls and rejections;
  **Wasm** begins with its own machine, one linear memory with a pointer that
  loops set back. A read of a freed block, or of a word that is no pointer, ends the
  run with an outcome of its own, so that a dangling pointer cannot pass.
* **Compile** runs one program through `Lower`, `Interpret`, `RunCranelift`,
  `RunLlvm` and `RunWasm`. Lowering and interpreter together are compared with
  `SourceMeaning`, each back end with the interpreter.
* **Verifier** is `marv-verify`. Its first part stands for the solver: terms over
  named unknowns, and the models that satisfy them, by enumeration. Then come
  symbolic values, the merge of branches, loop conditions, `ensures`, and the verdict. A
  solver may answer with any model, so `Verdicts` is a set. `marv-verify` asserts a
  range of scalars and of lengths, and none of the elements of an array, so
  `Elements` has a number outside the word. **Verify** lowers a
  function, verifies it and then calls it: with the counterexample if there is one
  a call can have, with every argument if there is none.

## 3. The runs

| Run | What is bounded | Distinct states | What it shows |
|---|---|---|---|
| `store` | 4 names in 3 modules, 13 batches, `MaxCommits` 3; 5 programs in 10 layouts on disk, one of them also without `std` | 1,540 | The store stays closed, sound, audited; builds find what they need; a definition gets one hash, committed again, from any file, in any layout, by the CLI or the server. |
| `store_dir` | 4 batches, `MaxCommands` 4, a crash anywhere | 4,979 | What still loads is closed and audited; a save that ends is exact; commands are atomic seen from the lockfile. |
| `source_edits` | all call graphs from 6 reference lists over 3 functions, modules with a capability, and 2,843 functions with any construct in any other, `MaxEdits` 2 | 24,904 | Which hashes a rename, a move, a change of a body, and a reprint change. |
| `query_server` | 2 paths, 5 texts, 2 openings, `MaxRequests` 4; in a request 3 bytes, every list of up to 2 edits, of 3 in the text | 127,289 | Ids, inputs and texts agree; file-by-file commits keep the store closed and settle; disjoint edits apply as if at once; fixes never panic. |
| `checked_run` | 3 capabilities, 3 functions, `MaxDepth` 4 | 255,268 | What an accepted program can do, and that the fixpoint is exact and ends. |
| `linear_use` | one linear parameter, terms three deep, `MaxTurns` 2 | 114,169 | Nothing consumed twice, nothing left, outside the loops' gaps. |
| `compile` | 1,728 programs with arguments, words of 5 bits and of 3, arguments -1, 0 and 2, `MaxRounds` 6 | 10,248 | Lowering, interpreter and three code generators agree with the meaning of the source. |
| `verify` | 323 functions, words of 3 bits and of 2, every argument, `MaxRounds` 9, `MaxItems` 2 | 4,245 | What is proved never fails a check; counterexamples a call can have are real. |
| `capability_ops`, `linear_loops`, `format_parens`, `string_loops` | the same instances, or a few inputs of them | - | Counterexamples to what a document or comment says (section 6). |

Why the bounds are enough. Two modules of two and one definitions have every
shape of reference the resolver distinguishes: none, inside a module, a
recursive definition, a mutual pair, and across modules in both directions
(which makes a cycle between modules that only the lockfile can close). Three
commits are what it takes to commit a module, rebind what it imports, and
commit it again; collections fit in between without a bound. Two modules, a
module of `std` and a file that does not parse, in two packages that depend on
each other, with a third between them, with a file found twice, a dependency
under a wrong name, or none, make the loader and the resolution of imports take
each of their exits. For the directory,
four commands cover a commit after a cut-off commit, a collection after a
rebinding, and a commit after a cut-off collection. Four requests open a
snapshot, edit it, and commit twice. Three functions give direct recursion, a
cycle of two below the entry and a helper that is reached twice, and a chain of
narrowing, handing on and using across three frames. A tree of two constructs
has each of them in each place of each other, chains of three have an operator
on either side of another, and every place outside expressions gets every kind
of expression. A depth of four lets every
cycle come round once. Two turns are what tells "any number of times" from
"once". A word of five bits is wide enough for the programs' constants and
wraps within reach of the arguments and loops; one of three is narrower than
the word, which tells a narrow operation from a wide one; the verifier's word of
three bits lets every argument be tried. Six rounds (nine for the verifier) let
every loop of the corpus end except those that never end; a run cut off by the
bound ends with `fuel`, in all executions alike. The loops are nested two deep,
because what a loop carries out of an inner one is where lowering and heap
marks differ. Two items and four elements (`MaxItems`, `Elements`,
`Unspecified`) let a model tell an index from its neighbour, an element read
within bounds from one read outside, and a number of the word from one beyond it.

Each property is broken by at least one plausible mistake in the code under the
same bounds (`mutants` in `PROJECT.json`).

The store's properties are checked with `a` and `b` in one batch, never with
fewer: a batch is all the definitions of a file, as the server commits it, or
of a file and all it imports, as the CLI does.

Every bound is a guard of an action: `MaxCommits` (`Commit`), `MaxCommands`
(`Load`), `MaxRequests` (`Register`, `Commit`), `MaxEdits` (`Edit`), `MaxDepth`
(`Call`), `MaxTurns` (`Turn`); `MaxRounds` is one of the loops of `CoreEval`,
`SourceMeaning` and the back ends. None of them is in the code, except that the
interpreter's stack is the host's.

**Deadlock.** `MCMarvStore` is checked for it: a collection is always possible.
The other configurations say `CHECK_DEADLOCK FALSE` because the system stops or
meets a named bound: an edit ends (`TextEdits`), a program ends
(`CheckedRun`, `LinearUse`, `Compile`, `Verify`), a directory with a torn file refuses every command
(`StoreDir`), and sessions reach `MaxEdits` or `MaxRequests`.

**Fairness.** Only `CheckedRun` has a liveness property, `PropagationEnds`, and
only `Propagate` is fair: it is a `loop` in one thread that calls nothing that
waits. Nothing is assumed of any other action; a program need not end, a client
need not send a request.

**Action properties about one action** (`BuildReproducible`, `InOrderIdempotent`
and others) name the action they are about: `Commit(batch) => ...` under `[]` and
a subscript, so that they hold of every step that is one.

## 4. What is proved

TLAPS checks `Foundations`, which is about searches, counting, hashes and what a
commit does, and the proof modules of seven specifications: `MarvStoreProofs`
(which has the pinned builds too), `StoreDirProofs`, `QueryServerProofs`,
`SourceEditsProofs`, `TextEditsProofs`, `CheckedRunProofs` and `LinearUseProofs`.
The theorems are about the same specifications the runs check, for every value
of the constants.

| Component | Properties that are theorems of its specification |
|---|---|
| Store | `TypeOK`, `LockClosed`, `PinnedClosureStable`, `UnsafeSitesAudited`, `MerkleSound`, `EdgesComplete` |
| Paths into a store | `CommitPathsAgree` |
| Pinned builds | `BuildsComplete`, `BuildReproducible`, `CommittedIsBuilt` |
| Store directory | `LoadedClosed`, `LoadedAudited`, `AtomicCommands` (the refinement of `PinTable`) |
| Query server | `AnswersMatchSnapshot`, `IdsDenoteForever`, `StoreClosed`, `InOrderIdempotent`, `AcyclicCommitsSettle` |
| Edits of a module | `NameAndOrderFree`, `ChangePropagates` |
| Edits of a file | `DisjointEditsApply`, `FixesNeverPanic` |
| Checked runs | `PropagationExact`, `TypeOK`, `EffectsDeclared`, `EffectsGranted`, `NeverStuck`, `ErrorsContained` |
| Linearity | `NeverTwice`, `NothingLeft` |

**Assumptions.** A batch is a sequence of entries, in `MarvStore`
(`BatchesAssumption`, with `NamesAssumption`: their names are declared), where
it is also the source of a build (`SourcesAssumption`), `StoreDir`
(`BatchesAssumption`) and `QueryServer` (`TextAssumption`, which also says that
a text that does not parse has no entries, and that the formatter and a fix
return texts). No snapshot is opened with two files of one path
(`OpeningsAssumption`). A module that is edited is a sequence of entries with
the fields a hash reads (`SourcesAssumption` of `SourceEdits`). A disk is finite,
with the files it says it has; in the layouts of one workspace a module has one
file, a name one module, a file imports the modules it takes names from, and the
files of `std` are the same in each (`WorkspacesAssumption` of `Workspace`: names
are qualified by their module, and lowering looks for a name in its own module
and in its imports, `lower.rs:1074-1082`; an import that two files of a package
declare is an error, but two unrelated packages with modules of one path are not
covered). A request's new texts are strings, so none begins inside
a character (`EditListsAssumption` of `TextEdits`). `CapsAssumption` of
`Effects`: an operation of a capability yields a capability or something plain.
`ProgramsAssumption` of `CheckedRun`: programs are what lowering makes of a
source whose names resolve, their bodies are sequences and their calls name
functions of the program. `TermsAssumption` of `LinearUse`: every variable of a
term is bound, calls have as many arguments as parameters, and terms are finite,
which is to say that each has a size and its parts have smaller ones. The bounds
are naturals. TLC evaluates all of them in the runs. Nothing is assumed of
numbers: names, batches, texts, programs, terms and capabilities may be
infinitely many.

**Counting in place of induction.** The library's induction theorems take an
operator as a parameter, which no installed prover can instantiate. Where a
proof needs induction it uses `LeastExists` (a set of numbers has a least
member, from well-foundedness) and `CountingUp` (a set that holds `m`, and with
each number up to `n` the next, holds them all). With them a recursion is shown
to have a solution before anything is said of its values: for `DagHashes`, for
`Merged`, for the searches for packages and imports, for the rounds of commits,
and, once and for any rule that asks for
smaller things only, in `RecursionSolved` of `LinearUseProofs`. That one says
everything about `Synth` an induction over terms would: it satisfies its own
equation (`Synthesized`), and what holds of a term whenever it holds of smaller
ones holds of all, by a term of least size for which it does not (`SynthBounded`).

**Graphs** (`Foundations`). `Reachable` is saturated and is the least saturated
set. `ReachableEmbedded`: a graph without missing successors, embedded in a
larger one that agrees with it, has the same closures. A commit embeds the old
store in the new one and a collection embeds the new one in the old one, so
both follow from it. `ReachableImage`, `ComponentWithin` and `ComponentImage` are
for a graph that is laid into another one by a map of positions (`LaidInto`). The
other one may have more edges, also between the places of the first, if these
leave the component they begin in: then components still go to components.

**Hashes** (also `Foundations`). `DagHashesDefined`: the recursion over the
components of a module has a solution, and the definition satisfies its own
equation. A reference out of a component reaches strictly fewer definitions
(`ReferencesBelow`, from `SuccessorBelow` of `DagTheorems`), so the number of
definitions reached is what the recursion counts down. From the equation follow
`DagHashesExternal` (a module's hashes depend on nothing else than its imports'
hashes, by a least counterexample) and `RecommitAgrees`.

The converse, that a hash determines the definition stored under it
(`DefDetermined`), is where the recursive components make it hard. What is
hashed has positions for references inside the component, what is stored has
hashes; a stored definition is turned back by putting a position for every hash
of its own component (`AsHashed`), and that can only be undone if no reference to
another definition happens to be a hash of the same component. `NotOwnMention`
says that none is. It would be plain if hashes could be taken apart by induction,
being terms; no such induction is available, so the proofs carry a ranking along: `Ranked(S)` says that
the hashes of `S` have numbers, each greater than the numbers of the hashes its
contents mention, and `RankingExtends` that a batch resolved over ranked hashes
is ranked, by the number of definitions each of its own reaches (`MentionedBelow`:
a component mentions hashes of the lockfile and of definitions that reach fewer,
and nothing else). `ResolvedGood`
(what is stored for a definition is what its hash was computed from, and its
edges are the hashes it mentions), `CommittedGood` and `CommittedClosed` are
then the step of every commit, wherever it is made.

**The store** (`MarvStoreProofs`). `TypeCorrect` and `StoreClosed` are
inductive as they stand once a few facts on batches are there: the last entry of
a name and the first entry of a hash exist, and the edges of a new blob are
among the batch's hashes and the lockfile's (`DepsResolved`). The induction
needs the closure of all stored blobs, not only of bound ones: an old version is
still a dependency after its name has been rebound. `PinnedStable` and
`CollectionExact` follow from `StoreClosed` and the embedding lemma,
`UnsafeAudited` from the merge of sites and from what a collection keeps.
`MerkleAlways` and `EdgesAlways` need the ranking in the invariant
(`StoreSound`): a blob that is soundly stored stays so because no later commit
replaces it, and one that is committed again under its hash has, by
`DefDetermined`, the same definition.

**Pinned builds** (also `MarvStoreProofs`) are a search through two tables, the
source's definitions and the store's. `BuildsAlwaysComplete` gives it a
saturated set: the source's hashes with the closure of the lockfile.
`BuildsReproducible` combines `DagHashesExternal`, for the root and the source's
half, with `DefDetermined` for a hash that both tables have and `PinnedStable`
for the rest. `CommittedAlwaysBuilt` rests on `RecommitAgrees`: after the commit
the source resolves to the hashes it was committed under.

**Programs that correspond** (`HashesCorrespond`). If one program is laid into
another, so that every definition has the same shape at its place and every
reference goes to the place of the definition it went to, or out of both to the
same hash, or out of the one to the hash of a definition that the other has in
a component of its own, and if the map keeps the order of the members of each component, then
every definition has the same hash at its place. The components correspond, with
their members in the same order, hence in the same positions
(`CorrespondingComponents`, `PositionsImage`); the hashes then agree by a least
counterexample in the number of definitions reached.

**Edits of a module** (`SourceEditsProofs`) are three uses of it. A rename leaves
every definition in its place and the names one to one, since the new one is
used nowhere (`RenameKeeps`). Moving a definition past its neighbour swaps two
places, which keeps the order within every component but one that has both, and
the last definition of a name is still the last one (`SwapKeeps`): these two are
`HashesNameAndOrderFree`. A change of a body leaves the call graph alone
(`ChangeGraph`) and the hashes of what does not reach it (`ChangeKeeps`); what
reaches it changes, since a hash determines the contents of its component
(`ChangeReaches`, along the least set that the change reaches against the
edges): `HashesFollowChanges`. `HashesSeeTrees` is the half of `LayoutFree` that does
not depend on the parser: a function that is read as the tree it was printed
from keeps all hashes, one that is read as another changes its own.

**Paths into a store** (`PathsAlwaysAgree`, in `MarvStoreProofs`) are its second
use, once it is known that a load is a program made of files. `LoadIsProgram`
says so: all along the search (`Searching`, kept by `SearchFollows`), the
definitions so far are those of some files, one file after the other; all that
these import has been seen or is still queued; and every file of a module that has
been seen is among them. The last makes the load complete when the queue is empty:
what a file mentions is of a module it imports. Then two loads, from whichever
files and layouts, have their common files laid into each other, and
`LoadedAlike` is `HashesCorrespond`. Here a component must lie in one file
(`LocalRecursion`), for the files keep their inner order and no other.

The server's commits are files too (`CommitsAreFiles`), but each is resolved
alone, its references to other files through the lockfile. So its hashes are those of the program
only as far as the lockfile already has them: `FileHashes` says that if the table
has the program's hashes of all definitions that reach no more than `r` others, a
file committed alone gets them right for those that reach `r + 1`. For this the
third kind of reference is needed, from a file into the lockfile on one side and
to another file of the program on the other. No commit disturbs what is
settled (`CommitSettles`), so a round settles one number more (`RoundSettles`),
and as many rounds as the program has definitions settle all of it, in whatever
order the files are committed (`RoundsSettle`). What the lockfile says before plays no
part, except for names that no commit binds.

**The directory** (`StoreDirProofs`). A directory is `Good` if all its blobs are
sound and ranked, what the lockfile fetches is there, and what it pins is
audited. `DirInv` says that the directory is good whenever it can be read, and
also between any two files of a running command; and it says what the command is
about to do (`Pending`): what it will save is good, lacks nothing that the
lockfile on disk still fetches, and for a hash on both sides has all the unsafe
sites the blob on disk has. While blobs are removed, they are those of the disk
that memory lacks, so the old lockfile does not fetch them (`GoodRemoval`). While
blobs are written, one already on disk under its hash has, by `DefDetermined`,
the same definition (`GoodWrite`), and what is not left to do is on disk as in
memory; so when the lockfile, written last, is installed, the directory is good
for it. Only a crash inside a file leaves a torn one, and of such a directory
nothing is claimed: no command loads it. For `CommandsAtomic` every step but
`WriteLock` leaves the table alone or, if the lockfile is torn, loses it;
`WriteLock` installs the table of the command.

**The query server** (`QueryServerProofs`). `SnapshotInv` says that the ids
given are below `nextId` and that the files of a snapshot are inputs with their
own path and text; `Rebuilt` keeps it. Commits are a recursion over the files
(`Progress`), and `SoundTable` (good, ranked, closed) is kept from file to file:
`CommitsClosed`. For `CommitsIdempotent` the names of a file, once bound, are
bound to the same hashes from there to the end of the second commit
(`InOrder` gives that no later file declares or rebinds them), so every file
meets the bindings it met the first time. For `CommitsSettle` the rank of a file
is the number of files it reaches through imports, itself included
(`ImportRanks`): after `r` rounds the files of rank `r` have the hashes they
keep, because all they import is of lower rank. If no imports form a cycle, ranks
are at most the number of files.

**Edits** (`TextEditsProofs`). The invariant `EditsInv` is that there is an
offset up to which the text is still the original and behind which it is
finished: what the edits mean, all at once, is what the ones that remain mean up
to that offset (`Merged`), followed by what is behind it (`Halfway`). The
remaining edits lie before the offset, the last first (`Fits`), which is what a
stable sort makes of disjoint edits (`SortedPermutes`, `SortedFits`). To apply
one moves the offset to its start (`MergedAround`, `ReplacedBefore`). That it is
accepted needs one more conjunct: what is behind the offset begins a character
or is empty, so a boundary of the original there is still a boundary.

**Checked runs** (`CheckedRunProofs`). The invariant is `RowsInv /\ RunInv`.

* `RowsInv` says that the rows stay between what functions declare and what they
  reach (`RowsBetween`), and that a server's rows are a fixpoint once the
  inference is over. A row that contains what its function declares, exercises
  and calls contains what it reaches (`ReachableRowLeast`, an induction over the
  call graph done with the least saturated set), so the two bounds meet:
  `RowsExact`. Only the bounds make it inductive: that the final rows are exact
  says nothing of the passes before.
* `RunInv` says what holds before and after acceptance and grant, and of the
  stack (`StackOK`): the values of every frame have the types of its variables
  (`Fits`), every frame below the top waits at the call of the one above it, and
  every frame declares whatever a frame above it may exercise (`Covers`). The
  last part is what `EffectsDeclared` is missing: the check compares each
  function with its direct callees only, and transitivity along the stack makes
  it a fact of the whole chain.
* There is one lemma for each action; `InvStep` collects them. From the
  invariant follow `TypesHold`, `EffectsAreDeclared`, `EffectsAreGranted`,
  `RunsNeverStick`, `EffectsAreReported` and `ErrorsAreContained`.

The proofs of `CheckedRunProofs` use neither `MaxDepth` nor the shape of the
programs in the run: they hold of any depth and any recursion.

**Linearity** (`LinearUseProofs`). The check counts uses of variables in a term;
the run consumes tokens, in a state where the term is in pieces: one is in focus,
the others wait for its value, innermost last. The invariant `LinearInv` puts the
counts back together. It says that there are, beside the state (`Config`),

* binders for the variables in scope, which tell what each value is: a linear one
  is a token, a plain one is none (`Truthful`);
* for the focus, and for every part that waits, the variables it owes: those that
  it, and no other, is to use, once on every path it may take (`Owes`, `Checks`);
* with no two parts owing the same (`Shared`), with every part in the environment
  it was checked in (`Stacked`, `Reaches`), and with what is owed, and the value in
  focus, being exactly the tokens that are not consumed yet (`Debts`).

`NeverTwice` and `NothingLeft` are what it says of a token consumed and of the end,
where nothing is owed; neither is inductive, since neither says who is to consume
what is left. One lemma per constructor turns the counts of a term into debts
of its parts. A let splits them between value and body (`CheckLet`, by `OwesSplit`:
if two parts run and a variable is used once in all, one of them uses it), both
arms of a match have all of them (`CheckMatch`, since the least and the most of two
counts are one only if both counts are), and the parts of a loop have none
(`CheckLoop`). One lemma per action (`LetGoes`, `BindGoes`, `TurnGoes`, ...) says how
the binders and debts of the next state come from those of this one; a call pays
what it owes (`DebtPaid`) and may make a token more (`DebtMade`). They hold of any
number of turns and of terms of any size.

## 5. What is only model-checked

* `LayoutFree`: with `HashesSeeTrees` it says that the parser reads what the
  printer prints, of two `RECURSIVE` operators.
* `PropagationEnds`: liveness.
* Everything of `Formatter` and `Parser`, and everything from `CoreIr` to
  `Verify`: printing, parsing, lowering, evaluation, code and symbolic values
  are `RECURSIVE` operators over terms, and what they compute for every program
  would need an induction over terms.

## 6. Where the code and its documents differ

Four runs have a counterexample. Each states what a document or a comment says.

1. `capability_ops`: all capability interfaces have one hash, because a hash
   covers none of their signatures, and the operations are metadata of the blob
   of that hash. The second interface committed comes back with the operations
   of the first (`marv-store/src/lib.rs:300-325` against `:83-86`, `:282-283`).
2. `linear_loops`: a return inside a loop, a carried variable, the value a body
   yields for it and a condition are gaps in "exactly once on every control path"
   (`docs/checker.md:46`). What a body yields is never compared with what the loop
   carries, so a loop may start with a number and go on with a linear value that no
   one counts. `NeverTwice` and `NothingLeft` say what remains, and it is proved:
   both exclude loops that carry a linear value or consume one in their condition
   (`Counted`), and the second speaks only of runs that reach the end of the body.
3. `string_loops`: a loop resets the heap every round unless it carries a boxed
   value, and strings and slices do not count as boxed (`layout.rs:38-47`). A
   loop that appends to a string reads a block it has given back: freed memory
   in Cranelift's code, memory written over in Wasm's. LLVM's code never resets.
   `compile` leaves such loops out.

4. `format_parens`: `format_expr` puts no parenthesis around a prefix operator
   that something is applied to, nor around a struct literal in a head:
   `(-x) as u8`, `(-x)[0]` and `(not p)?` are printed as `(-x as u8)`, `-x[0]` and
   `not p?`, which are other programs, and what is printed of `if (P {}).f` does
   not parse. The comment at `formatter.rs:596-599` says that "no extra
   parentheses are needed", `ast.rs:19-21` calls the formatter the inverse of the
   parser, and `lib.rs:47-48` calls it idempotent; the generator of the round-trip
   tests never puts a prefix operator below a postfix. `FormatKeepsHashes` is what
   they say; the run has the prefix operators. `LayoutFree` leaves the functions
   printed with a parenthesis too few out (`Underprinted`) and holds of all others.

Met while modelling, and left out of the runs' instances:

* LLVM's code compares two strings with `memcmp` over as many characters as the
  left one has, whatever the length of the right one
  (`codegen-llvm/lib.rs:1209-1225`): behind a shorter right string it reads what
  is no part of the block. The lengths differ then, so the result is right if the
  read succeeds. Programs of `compile` do this; `LlvmAgrees` allows a run to end
  in such a read (`overread`) and demands the interpreter's word of one that
  survives it. Cranelift and Wasm test the lengths first.
* A counterexample of the verifier may have array, string or list elements that
  are no `i64`, and then no call has it: of `result == a[0]` for a body `a[0] + 0`
  there is no other. `assert_int_range` is for models that "pick only values the
  program could actually compute" (`marv-verify/src/lib.rs:1191-1195`) and
  `docs/verification.md:190-191` has concrete i64 values, but no range is asserted
  of elements (`lib.rs:1247-1313`, `:1393-1404`). `CounterexampleReal` speaks of
  the counterexamples a call can have (`Callable`).
* A list is copied by the interpreter and shared by compiled code: `push` with
  room to spare, `pop` and a store change it for every holder, although the
  comment on `ListPush` in `ir.rs` says that the source list is not mutated. The
  programs of `compile` use each list once.
* A declaration in an inner loop that shadows a carried variable of the outer
  one: the outer loop takes the shadow for the variable, against the comment of
  `next_state_tuple` (`lower.rs`). No program of `compile` has the shape.
* A match on a payload of a generic enum has an unknown type, and the back ends
  then compare a pointer as if it were a word. A carried variable of unknown
  type counts as a scalar when loops are nested, and a subscript of a list of
  unknown type finds its header one word short.
* The least integer divided by -1 wraps in the interpreter, traps in Cranelift's
  and Wasm's code, and is undefined in LLVM's, as is a division by zero. `List`
  with a negative capacity is allocated too small by compiled code.
* An assignment to a `let` is accepted inside a loop (and does not lower when
  the name is not carried); outside it is rejected.
* Wasm rejects loops whose body rebuilds an array, struct or enum they carry
  ("non-scalar loop-carried value"), which the other two accept: `WasmAgrees`
  allows for it. A store out of the bounds of a fixed array does nothing, as
  `docs/run-and-codegen.md:257-262` says.
* An `ensures` of a function without parameters is never checked at run time
  (`marv-core/src/ir.rs:518` and `marv-interp/src/lib.rs:519` say "every"); the
  verifier answers "unsupported". The contracts of callees are not checked at
  run time, only those of the entry.
* A `requires` that cannot be evaluated, such as `xs[0] > 0` of an empty list,
  is skipped by the interpreter and assumed by the verifier, so a proved function
  can fail its `ensures` on such a call, against `docs/verification.md:168-194`.
  `ProvedSound` excludes exactly these calls (`Assumed`).
* The server commits file by file in snapshot order. A module listed before one
  it imports is linked with the bindings from before, and a second commit gives
  it another hash, although `marv-server/src/lib.rs:625` and `docs/store.md:57`
  call it idempotent. What does hold is checked in `query_server`: it is
  idempotent when imports come first (`InOrderIdempotent`) and settles after as
  many commits as there are files when imports are acyclic
  (`AcyclicCommitsSettle`).
* A process that dies in its first save over a directory of the old format
  leaves some blobs, and from then on `store.json` is not read
  (`marv-store/src/lib.rs:482-484`).
* The CLI's check and the server's check of several files take rows without
  error sets and propagate nothing (`pipeline.rs:106`), so an error can pass
  through a function that declares none, against `docs/checker.md:44`. Of the
  server's check of one file `ErrorsContained` holds and is proved.
* `docs/store.md:24` says that renaming anything changes no hash. A capability
  named in an effect row is hashed by its name; `NameAndOrderFree` excludes
  exactly these. It also excludes moving a definition past another member of its
  cycle: members are numbered in source order.
* `docs/packages.md:90` says that a pinned build never falls back to dependency
  source on disk. `pin_loaded` puts the definitions of all loaded modules,
  dependencies included, before the store, and resolves names they declare
  before the lockfile. `Builds` models it as it is.
* Functions that call each other across modules are numbered in the order in
  which the files are loaded, so their hashes depend on the file `marv commit`
  is given, and the server, which sees one file at a time, gives them others
  with every commit. `CommitPathsAgree` excludes exactly these (`LocalRecursion`).
* `docs/packages.md:24-25` says that a dependency's manifest must declare the
  name it is depended on by. Only the first visit of a directory compares it
  (`marv-package/src/lib.rs:107-109`): a second dependency on the same directory
  may have any name, and which of the two is first depends on the names.
* Roots of a package that overlap list their files twice, and then every import
  of such a module is ambiguous (`marv-package/src/lib.rs:264-267`).
* An import from `std` that is not found, or found twice, is left out without an
  error (`pipeline.rs:188-193`). What refers to it is hashed with the symbol, or
  with what the lockfile has; `CommitPathsAgree` compares under the latter.
* A file without imports is loaded without its package
  (`pipeline.rs:150-152`): a manifest that does not parse goes unnoticed.
* `docs/store.md:51` says that a commit refuses code that does not check. The
  CLI does; the server's `commit` checks nothing and skips files that do not
  parse.
* `apply_edits` sorts by start only: of an insertion and a replacement at one
  offset, the one listed second is applied to what the first has made of the
  text. `DisjointEditsApply` excludes edits that start at one offset. It also
  lacks the check for character boundaries `apply_src_edits` has, so the
  `Panic` action is enabled for a request and never for a fix.

## 7. What is not modelled

* **Two CLI processes on one directory.** Nothing in the code or documents says
  that they may run at once. Each would load, change and save everything, so the
  later would remove the blobs of the earlier; there is no lock to model.
* **The read-only queries** (`typeAt`, `definition`, `callGraph`, `verify`,
  `check`): they change nothing but memos, which the inputs account for.
* **In `Effects` and `CheckedRun`:** data of any kind, early returns, contracts,
  loops, generic interfaces and the provenance of values that are computed from
  capabilities. Error sets of operations are empty, as the front end leaves
  them. Conditions are choices (`Skip` or not). `LinearUse` has early returns
  and loops, of one function and with one carried variable each.
* **In `Lowering` and `LowerBody`:** generic functions, resources, `raise` and
  `catch`, unsafe blocks, and the methods of the library other than those of
  lists and strings the back ends expand. They are lowered to calls and matches,
  and add no rule for scopes or loops.
* **In the code generators:** the capabilities of the host, object files and
  linking, the component wrapper of Wasm, contracts (which none of them
  compiles), and data sections other than the characters of a literal.
* **In `Verifier`:** effect rows of a function under verification, the solver's
  timeout and its absence (both end in "unknown", which claims nothing), and the
  wording of counterexamples. The model's solver decides every query; a real
  one that gives up answers less, never more.
* **The old store format** (`store.json`): read once, when a directory has no
  blobs; a later save writes the new format.
* **In `Parser` and `Formatter`:** module headers, signatures and the other
  declarations, docs and comments, spans, paths before a struct literal (the
  parser takes one name), the characters that the lexer joins to tokens, and the
  whitespace-only fallback for a text that does not parse.
* **In `Workspace`:** the text of manifests, the walk through directories and the
  search for the `std` directory (a disk says what they find), Core snapshots
  (`load_core`, one module that imports nothing), and the metadata a load adds.
* **MCP adapter, self-hosted compiler, library, playground:** a forwarder, and
  programs in the language itself.

## 8. Plan

Done, in this order: the store and its resolver, the directory, builds and edits;
the query server and its texts; effects with the runs they allow; linearity; the
proofs of the store and of checked runs; lowering with its source meaning; the
interpreter on data; the three code generators; the contract verifier; the
parser and the formatter of functions; the package loader and the imports.

Next, by what matters most to the system:

1. **CoreRepair** (`marv-db/analysis.rs`): the repair of Core text with the
   effect rows that `PropagatedRows` computes; that a repaired definition is
   accepted and that repairing again changes nothing.
2. **Types of references and aggregates** (`check.rs`): second-class references
   with the frames of `CheckedRun`; that no reference outlives its frame.
3. **Generic functions and `raise` in lowering**, with the error flag that calls
   and loops hand on. Reading `lower.rs` raises three questions for that model to
   answer. `spec_dispatch` (1113-1125) takes the first bound of the method's
   interface, whatever the type of the argument: with `[A: Ord, B: Ord]`, is
   `cmp` of two `B`s sent to the `impl` for `A`? The type of a call
   (3713-3718) is the callee's declared result under the *caller's*
   substitution: do nested generic calls whose type parameters have different
   names find their instances? And is the list of requested instances finite
   when a generic function calls itself at a larger type?

Runs and bounds: programs of three functions for 1 and 2. Room is found by
joining runs of one module.

Theorems: soundness of propagation for programs with loops and early returns
once `Effects` has them.

## 9. Running the checks

    tlc -config MCMarvStore.cfg MCMarvStore      # any MC module with its .cfg
    tlapm CheckedRunProofs.tla                   # any of the eight proof modules

`PROJECT.json` lists each run with the properties of its configuration and
whether it passes or refutes. Operators whose comment begins with "Mutant:" are
not part of the models: each is a plausible mistake in place of the definition
that follows it, under which the property `PROJECT.json` names with it fails.
