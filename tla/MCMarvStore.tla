---- MODULE MCMarvStore ----
(***************************************************************************)
(* Two source modules: m, with the definitions a and b, and n, with c; and *)
(* one module of std, with s.  Every shape of reference between m and n is *)
(* a batch, as the server commits them: none, inside the module,           *)
(* recursive, mutually recursive, across the modules both ways; and one    *)
(* program of the three, as marv commit loads it from each of its files.   *)
(* m, with no unsafe site, is built between commits, linked with whatever  *)
(* n is bound to.  Five programs lie on disk in ten layouts, one of them   *)
(* also without std.                                                       *)
(***************************************************************************)
EXTENDS Workspace

Fn(name, refs, sites) ==
    [name |-> name, kind |-> "fn", tag |-> 0, refs |-> refs, row |-> {},
     ops |-> {}, unsafe |-> sites]

Interface(name, ops) ==
    [name |-> name, kind |-> "interface", tag |-> 0, refs |-> <<>>,
     row |-> {}, ops |-> ops, unsafe |-> {}]

MCNames == {"a", "b", "c", "s"}

File(module, imports, defs) ==
    [parses |-> TRUE, module |-> module, imports |-> imports, defs |-> defs]
Broken == [parses |-> FALSE, defs |-> <<>>]

\* Files 1 and 3 are m and n, 2 does not parse, 4 is the file of std.  Each
\* imports what its references need.
FilesOf(ra, rb, rc) ==
    LET needs(refs, name, module) == IF name \in Range(refs) THEN <<module>> ELSE <<>>
    IN  [f \in 1 .. 4 |->
            CASE f = 1 -> File(<<"app", "m">>, needs(ra \o rb, "c", <<"util", "n">>),
                               <<Fn("a", ra, {}), Fn("b", rb, {})>>)
              [] f = 2 -> Broken
              [] f = 3 -> File(<<"util", "n">>,
                               needs(rc, "a", <<"app", "m">>) \o needs(rc, "s", <<"std", "s">>),
                               <<Fn("c", rc, {})>>)
              [] f = 4 -> File(<<"std", "s">>, <<>>, <<Fn("s", <<>>, {})>>)]

Programs ==
    {FilesOf(<<"a", "c">>, <<"a">>, <<>>), FilesOf(<<"c">>, <<>>, <<"s">>),
     FilesOf(<<"c">>, <<>>, <<"a">>), FilesOf(<<"b">>, <<"c">>, <<"a">>),
     FilesOf(<<"b">>, <<>>, <<"a">>)}

Package(name, roots, deps) == [name |-> name, roots |-> roots, deps |-> deps]
Dep(name, dir) == [name |-> name, dir |-> dir]
ToApp == <<Dep("app", "app")>>
ToUtil == <<Dep("util", "util")>>

TwoPackages(app, util) ==
    [dir \in {"app", "util"} |-> IF dir = "app" THEN app ELSE util]

\* One package for each module, in a cycle; m found twice; n found twice; a
\* third package between; a dependency under another name, before and after
\* it is visited under its own; none at all; a file that does not parse.
Packagings ==
    LET app(deps) == Package("app", <<{1}>>, deps)
        util == Package("util", <<{3}>>, ToApp)
        cycle == TwoPackages(app(ToUtil), util)
    IN  {cycle,
         TwoPackages(Package("app", <<{1}, {1}>>, ToUtil), util),
         TwoPackages(app(ToUtil), Package("util", <<{3}, {3}>>, ToApp)),
         [dir \in {"app", "mid", "util"} |->
            CASE dir = "app" -> app(<<Dep("mid", "mid")>> \o ToUtil)
              [] dir = "mid" -> Package("mid", <<>>, ToUtil)
              [] dir = "util" -> util],
         TwoPackages(app(<<Dep("other", "util")>> \o ToUtil), util),
         TwoPackages(app(ToUtil \o <<Dep("zero", "util")>>), util),
         TwoPackages(app(<<>>), util),
         TwoPackages(Package("app", <<{1, 2}>>, ToUtil), util)}

Disk(files, packages, below, std) ==
    [files |-> files, packages |-> packages, std |-> std,
     home |-> [f \in DOMAIN files |->
                  IF packages = <<>> \/ f \in {2, 4} THEN Nowhere
                  ELSE IF f = 1 THEN "app" ELSE "util"],
     below |-> [f \in DOMAIN files |-> below]]

WithoutStd(files) == [f \in 1 .. 3 |-> files[f]]

MCWorkspaces ==
    LET disks(files, std) ==
            {Disk(files, packages, {}, std) : packages \in Packagings}
                \cup {Disk(files, <<>>, below, std) : below \in {{1, 3}, {1, 2, 3}}}
    IN  {disks(files, {4}) : files \in Programs}
            \cup {disks(WithoutStd(files), {}) : files \in {FilesOf(<<"c">>, <<>>, <<"s">>)}}

\* What marv commit makes of one program.
MCLoads ==
    LET files == FilesOf(<<"c">>, <<>>, <<"s">>)
    IN  Loads(Disk(files, <<>>, {1, 3}, {4}))

MCBatches ==
    {<<Fn("a", ra, {}), Fn("b", rb, {})>> :
        ra \in {<<>>, <<"b">>, <<"a", "c">>}, rb \in {<<>>, <<"a">>}}
    \cup {<<Fn("a", <<"a", "c">>, {}), Fn("b", rb, {"raw"})>> : rb \in {<<>>, <<"a">>}}
    \cup {<<Fn("c", rc, {})>> : rc \in {<<>>, <<"a">>}}
    \cup MCLoads

MCSources == {b \in MCBatches : Len(b) = 2 /\ b[2].unsafe = {}}

\* A module that declares two capability interfaces.
MCInterfaceBatches ==
    {<<Interface("a", {"read"}), Interface("b", {"send"})>>,
     <<Interface("a", {"read"})>>, <<Fn("c", <<"a">>, {})>>}
====
