---- MODULE Resolve ----
(***************************************************************************)
(* marv-store/src/resolve.rs: from a module's definitions, which refer to  *)
(* each other by symbol, to dag hashes, which refer to each other by       *)
(* content.  blake3 is modelled as an injective constructor: a hash is the *)
(* term it was computed from, so two hashes are equal exactly when the     *)
(* hashed contents are.  The four domains of the code (definition, rec,    *)
(* component, member) and the symbol domain are the heads of these terms.  *)
(*                                                                         *)
(* A source entry is a record with                                         *)
(*   name  the qualified name of the definition;                           *)
(*   kind  "fn", "type" or "interface";                                    *)
(*   tag   everything in the definition that is not a reference: an        *)
(*         interface has always the same one, lower_interface erases its   *)
(*         signatures;                                                     *)
(*   refs  the names in Global, Nominal, Ctor and Raise positions, in      *)
(*         order;                                                          *)
(*   row   the capability names in its effect rows, which no substitution  *)
(*         rewrites;                                                       *)
(*   ops, unsafe   the metadata that travels with it (DefMeta).            *)
(***************************************************************************)
EXTENDS Naturals, Sequences, FiniteSets, Functions, Dag

SymbolHash(name) == <<"sym", name>>
RecHash(pos) == <<"rec", pos>>
ComponentHash(contents) == <<"comp", contents>>
MemberHash(comp, pos) == <<"member", comp, pos>>

\* Mutant: the definition's name is hashed with it.
NameHashed(entry, hs) ==
    [kind |-> entry.kind, tag |-> <<entry.name, entry.tag>>, refs |-> hs,
     row |-> {SymbolHash(c) : c \in entry.row}]

\* A definition with its references replaced by the hashes hs (subst_def).
Substituted(entry, hs) ==
    [kind |-> entry.kind, tag |-> entry.tag, refs |-> hs,
     row |-> {SymbolHash(c) : c \in entry.row}]

\* Mutant: the hash covers a definition's own code but not its references.
ShallowHash(def) == <<"def", [def EXCEPT !.refs = Len(@)]>>

\* content_hash of a substituted definition.
ContentHash(def) == <<"def", def>>

\* A module's definitions are a sequence.
IsBatch(defs) == Len(defs) \in Nat /\ DOMAIN defs = 1 .. Len(defs)

LocalNames(defs) == {defs[i].name : i \in DOMAIN defs}

\* sym_to_idx: a later definition of the same name replaces an earlier one.
IndexOf(defs, name) ==
    CHOOSE i \in DOMAIN defs :
        /\ defs[i].name = name
        /\ \A j \in DOMAIN defs : defs[j].name = name => j <= i

\* adj: the references between definitions of the module.
CallGraph(defs) ==
    [i \in DOMAIN defs |->
        {IndexOf(defs, n) : n \in Range(defs[i].refs) \cap LocalNames(defs)}]

\* The position of a member in its component, by source order (from 1, where
\* the code counts from 0).
PositionIn(comp, i) == Cardinality({j \in comp : j <= i})
MemberAt(comp, p) == CHOOSE i \in comp : PositionIn(comp, i) = p

\* A reference out of the module: the locked hash, else the symbol itself.
ExternalHash(external, name) ==
    IF name \in DOMAIN external THEN external[name] ELSE SymbolHash(name)

\* Mutant: a locked binding shadows the definition the module itself has.
LockedReference(defs, external, comp, dag, name) ==
    IF name \in DOMAIN external \/ name \notin LocalNames(defs)
    THEN ExternalHash(external, name)
    ELSE LET j == IndexOf(defs, name)
         IN  IF j \in comp THEN RecHash(PositionIn(comp, j)) ELSE dag[j]

\* The substitution while a component is hashed: a position inside the
\* component, the hash of an earlier component, else the lockfile's.
ReferenceHash(defs, external, comp, dag, name) ==
    IF name \notin LocalNames(defs)
    THEN ExternalHash(external, name)
    ELSE LET j == IndexOf(defs, name)
         IN  IF j \in comp THEN RecHash(PositionIn(comp, j)) ELSE dag[j]

\* The hashes a definition's references have while its component is hashed.
ReferenceHashes(defs, external, comp, dag, i) ==
    [k \in DOMAIN defs[i].refs |->
        ReferenceHash(defs, external, comp, dag, defs[i].refs[k])]

\* The content hashes of a component's members, in source order.
ComponentContents(defs, external, comp, dag) ==
    [p \in 1 .. Cardinality(comp) |->
        LET i == MemberAt(comp, p)
        IN  ContentHash(Substituted(defs[i],
                ReferenceHashes(defs, external, comp, dag, i)))]

\* The dag hash of a member of a component.
HashIn(defs, external, comp, dag, i) ==
    MemberHash(ComponentHash(ComponentContents(defs, external, comp, dag)),
               PositionIn(comp, i))

(***************************************************************************)
(* The dag hash of each definition.  The code walks the components callees *)
(* first; the recursion below asks only for hashes of other components a   *)
(* member refers to, so every callees-first order computes it.             *)
(***************************************************************************)
DagHashes(defs, external) ==
    LET graph == CallGraph(defs)
        comp  == [i \in DOMAIN defs |-> Component(graph, i)]
        dag[i \in DOMAIN defs] == HashIn(defs, external, comp[i], dag, i)
    IN  [i \in DOMAIN defs |-> dag[i]]

\* Mutant: the stored definition is linked against the lockfile first.
LockedFirst(defs, dag, external, name) ==
    IF name \in DOMAIN external
    THEN external[name]
    ELSE IF name \in LocalNames(defs)
         THEN dag[IndexOf(defs, name)]
         ELSE SymbolHash(name)

\* final_subst: the module's own definitions shadow the lockfile.
FinalHash(defs, dag, external, name) ==
    IF name \in LocalNames(defs)
    THEN dag[IndexOf(defs, name)]
    ELSE ExternalHash(external, name)

\* resolved_defs: the name-free definition that is stored.
ResolvedDef(defs, dag, external, i) ==
    Substituted(defs[i],
        [k \in DOMAIN defs[i].refs |->
            FinalHash(defs, dag, external, defs[i].refs[k])])

\* Mutant: only the edges inside the module are recorded.
LocalDeps(defs, dag, external, i) ==
    {dag[IndexOf(defs, n)] : n \in Range(defs[i].refs) \cap LocalNames(defs)}

\* deps: the hashes of the references that resolve.
DepsOf(defs, dag, external, i) ==
    {FinalHash(defs, dag, external, n) :
        n \in Range(defs[i].refs) \cap (LocalNames(defs) \cup DOMAIN external)}
====
