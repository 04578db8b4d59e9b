---- MODULE Dag ----
(***************************************************************************)
(* Reachability in a finite directed graph, shared by the modules that     *)
(* follow references: the closures of the store, the components of a       *)
(* module's call graph, the definitions a backend compiles.  A graph is a  *)
(* function from nodes to the set of their successors; a successor outside *)
(* the domain is a missing node, which a search meets but cannot expand.   *)
(***************************************************************************)

\* S holds the roots that exist and every existing successor of its members.
Saturated(next, roots, S) ==
    /\ roots \cap DOMAIN next \subseteq S
    /\ \A n \in S : next[n] \cap DOMAIN next \subseteq S

\* The existing nodes a depth-first search from the roots visits: the least
\* saturated set.
Reachable(next, roots) ==
    {n \in DOMAIN next :
        \A S \in SUBSET DOMAIN next : Saturated(next, roots, S) => n \in S}

\* The search meets no missing node.
Complete(next, roots) ==
    /\ roots \subseteq DOMAIN next
    /\ \A n \in Reachable(next, roots) : next[n] \subseteq DOMAIN next

\* Mutant: a component takes in everything its node reaches.
Descendants(next, n) == Reachable(next, {n})

\* The strongly-connected component of a node.
Component(next, n) ==
    {m \in Reachable(next, {n}) : n \in Reachable(next, {m})}
====
