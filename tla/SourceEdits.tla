---- MODULE SourceEdits ----
(***************************************************************************)
(* What an edit of a module's source does to its dag hashes.  The source   *)
(* is one module; an edit renames a definition everywhere, moves a         *)
(* definition past its neighbour, changes the contracts and body of a      *)
(* function, or prints them anew, as marv fmt does or as an author would.  *)
(* The tag of a function is their tree (Formatter).  Nothing is committed  *)
(* in between: the lockfile stays as it was.                               *)
(***************************************************************************)
EXTENDS Resolve

CONSTANTS
    Printed(_, _),  \* the text of a function's tree in a style (Formatter)
    Read(_),        \* the tree a text is parsed to, if it is (Parser)
    Sources,    \* the modules an editing session may start from
    Locked,     \* the lockfile's bindings of other modules
    Fresh,      \* names a definition may be renamed to
    NewTags,    \* trees a definition may be changed to
    Styles,     \* styles a function may be printed in
    MaxEdits    \* bound on the number of edits

\* Lowered modules: sequences of entries with the fields resolve reads.
ASSUME SourcesAssumption ==
    \A defs \in Sources :
        /\ IsBatch(defs)
        /\ \A i \in DOMAIN defs :
              {"name", "kind", "tag", "refs", "row"} \subseteq DOMAIN defs[i]

VARIABLES source, edits

vars == <<source, edits>>

Hashes(defs) == DagHashes(defs, Locked)

Renamed(n, from, to) == IF n = from THEN to ELSE n

\* The names that occur in a module.
NamesIn(defs) ==
    LocalNames(defs)
        \cup UNION {Range(defs[i].refs) \cup defs[i].row : i \in DOMAIN defs}

\* Every occurrence of the name: the declaration, references, effect rows.
RenamedSource(defs, from, to) ==
    [i \in DOMAIN defs |->
        [defs[i] EXCEPT
            !.name = Renamed(@, from, to),
            !.refs = [k \in DOMAIN @ |-> Renamed(@[k], from, to)],
            !.row = {Renamed(c, from, to) : c \in @}]]

Swapped(defs, i) == [defs EXCEPT ![i] = defs[i + 1], ![i + 1] = defs[i]]

Init == source \in Sources /\ edits = 0

Edit(new) ==
    /\ edits < MaxEdits
    /\ source' = new
    /\ edits' = edits + 1

\* The new name means nothing yet, in the module or outside.
Rename(i) ==
    \E to \in Fresh \ (NamesIn(source) \cup DOMAIN Locked) :
        Edit(RenamedSource(source, source[i].name, to))

MoveDown(i) ==
    /\ i + 1 \in DOMAIN source
    /\ Edit(Swapped(source, i))

ChangeBody(i) ==
    /\ source[i].kind = "fn"
    /\ \E t \in NewTags \ {source[i].tag} :
          Edit([source EXCEPT ![i].tag = t])

\* The tree of a text that does not parse: the module has no hashes then.
Broken == [broken |-> TRUE]

Reparsed(tree, style) ==
    LET r == Read(Printed(tree, style))
    IN  IF r.ok THEN r.x ELSE Broken

\* format: the module is parsed, printed in that style, and read again.
Reprint(i, style) ==
    /\ source[i].kind = "fn"
    /\ source[i].tag # Broken
    /\ Edit([source EXCEPT ![i].tag = Reparsed(@, style)])

Next ==
    \E i \in DOMAIN source :
        \/ Rename(i)
        \/ MoveDown(i)
        \/ ChangeBody(i)
        \/ \E style \in Styles : Reprint(i, style)

Spec == Init /\ [][Next]_vars
-----------------------------------------------------------------------------
IsCapability(defs, i) == \E j \in DOMAIN defs : defs[i].name \in defs[j].row

\* Renaming a definition, its callers or a recursive cycle changes no hash, as
\* long as the definition is not a capability named in an effect row; nor does
\* moving a definition past another one, as long as the two are not in one
\* cycle, whose members are numbered in order, or of one name, of which the
\* last counts.
NameAndOrderFree ==
    [][\A i \in DOMAIN source :
          /\ Rename(i) /\ ~IsCapability(source, i) =>
                Hashes(source') = Hashes(source)
          /\ /\ MoveDown(i)
             /\ i + 1 \notin Component(CallGraph(source), i)
             /\ source[i].name # source[i + 1].name
             => Hashes(source') = Swapped(Hashes(source), i)]_vars

\* A change of a body changes the hashes of exactly the definitions that
\* reach it: a hash commits to the whole dependency graph and to no more.
ChangePropagates ==
    [][\A i \in DOMAIN source :
          ChangeBody(i) =>
              \A j \in DOMAIN source :
                  Hashes(source')[j] # Hashes(source)[j] <=>
                      i \in Reachable(CallGraph(source), {j})]_vars

\* The grammar needs a parenthesis that the formatter leaves out: around a
\* prefix operator that something is applied to, or a struct literal in a
\* head.
Underprinted(tree) == Printed(tree, "fmt") # Printed(tree, "safe")

\* The hash is that of the program, not of its layout: the parentheses and
\* commas an author may leave out do not enter it, and marv fmt, which leaves
\* them out its own way, keeps every hash.  It does not keep the functions it
\* prints with a parenthesis too few: those are left to FormatKeepsHashes.
LayoutFree ==
    [][\A i \in DOMAIN source :
          /\ Reprint(i, "draft") => Hashes(source') = Hashes(source)
          /\ Reprint(i, "fmt") /\ ~ Underprinted(source[i].tag) =>
                Hashes(source') = Hashes(source)]_vars

\* What formatter.rs:594-599, ast.rs:19-21 and lib.rs:47-48 of marv-syntax say
\* of every function: the formatter is the inverse of the parser, so marv fmt
\* keeps every hash.
FormatKeepsHashes ==
    [][\A i \in DOMAIN source :
          Reprint(i, "fmt") => Hashes(source') = Hashes(source)]_vars
====
