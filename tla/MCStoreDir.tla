---- MODULE MCStoreDir ----
(***************************************************************************)
(* Two versions of a, a module of its own, and b, which calls it and is    *)
(* declared unsafe when the two are committed together.  A session of      *)
(* four commands, of which any may be cut off, covers a commit after a     *)
(* cut-off commit, a collection after a rebinding, a commit after a        *)
(* cut-off collection and an old blob that gains an unsafe site.           *)
(***************************************************************************)
EXTENDS StoreDir

Fn(name, tag, refs, sites) ==
    [name |-> name, kind |-> "fn", tag |-> tag, refs |-> refs, row |-> {},
     ops |-> {}, unsafe |-> sites]

MCBatches ==
    {<<Fn("a", 0, <<>>, {})>>,
     <<Fn("a", 1, <<>>, {})>>,
     <<Fn("b", 0, <<"a">>, {})>>,
     <<Fn("a", 1, <<>>, {}), Fn("b", 0, <<"a">>, {"raw"})>>}
====
