---- MODULE StoreOps ----
(***************************************************************************)
(* marv-store/src/lib.rs: what a commit and a garbage collection compute   *)
(* from a store, a lockfile and a batch of source entries.  A store maps a *)
(* dag hash to a blob, a lockfile a qualified name to a dag hash.          *)
(***************************************************************************)
EXTENDS Resolve

\* The references between blobs.
DepGraph(st) == [h \in DOMAIN st |-> st[h].deps]

\* The entries of a batch that resolve to hash h, and the first of them.
EntriesOf(dag, h) == {i \in DOMAIN dag : dag[i] = h}
FirstOf(dag, h) ==
    CHOOSE i \in EntriesOf(dag, h) : \A j \in EntriesOf(dag, h) : i <= j

\* The unsafe sites a batch declares for hash h.
SitesOf(batch, dag, h) == UNION {batch[i].unsafe : i \in EntriesOf(dag, h)}

\* Mutant: a blob that exists is left as it is.
UnmergedBlob(st, batch, dag, external, h) ==
    IF h \in DOMAIN st
    THEN st[h]
    ELSE LET i == FirstOf(dag, h)
         IN  [name |-> batch[i].name,
              def |-> ResolvedDef(batch, dag, external, i),
              ops |-> batch[i].ops,
              unsafe |-> SitesOf(batch, dag, h),
              deps |-> DepsOf(batch, dag, external, i),
              reviewed |-> TRUE]

\* Mutant: committing does not mark the blob as reviewed.
UnreviewedBlob(st, batch, dag, external, h) ==
    [UnmergedBlob(st, batch, dag, external, h) EXCEPT !.reviewed = FALSE]

\* An existing blob only gains unsafe sites; a new one is taken, with its
\* label and metadata, from the first entry that resolves to it.
CommittedBlob(st, batch, dag, external, h) ==
    IF h \in DOMAIN st
    THEN [st[h] EXCEPT !.unsafe = @ \cup SitesOf(batch, dag, h)]
    ELSE LET i == FirstOf(dag, h)
         IN  [name |-> batch[i].name,
              def |-> ResolvedDef(batch, dag, external, i),
              ops |-> batch[i].ops,
              unsafe |-> SitesOf(batch, dag, h),
              deps |-> DepsOf(batch, dag, external, i),
              reviewed |-> TRUE]

\* Mutant: a new version of a name replaces the blob of the old one.
ReplacedStore(st, batch, dag, external) ==
    LET old == {external[n] : n \in LocalNames(batch) \cap DOMAIN external}
    IN  [h \in (DOMAIN st \ old) \cup Range(dag) |->
            CommittedBlob(st, batch, dag, external, h)]

CommittedStore(st, batch, dag, external) ==
    [h \in DOMAIN st \cup Range(dag) |->
        CommittedBlob(st, batch, dag, external, h)]

\* The names of a batch, each bound to what belongs to its last entry.
Rebinding(batch, values) ==
    [n \in LocalNames(batch) |-> values[IndexOf(batch, n)]]

\* A map after a batch of insertions.
Inserted(map, new) ==
    [n \in DOMAIN map \cup DOMAIN new |->
        IF n \in DOMAIN new THEN new[n] ELSE map[n]]

\* Mutant: the mark phase does not follow dependencies.
RootsOnly(st, lk) == Range(lk) \cap DOMAIN st

\* The blobs closure_for_hashes returns from all bindings, when it succeeds.
Retained(st, lk) == Reachable(DepGraph(st), Range(lk))

\* Mutant: only the bound blobs themselves survive a collection.
CollectedRoots(st, lk) == [h \in RootsOnly(st, lk) |-> st[h]]

\* gc: an incomplete closure collects nothing.
CollectedStore(st, lk) ==
    IF Complete(DepGraph(st), Range(lk))
    THEN [h \in Retained(st, lk) |-> st[h]]
    ELSE st
====
