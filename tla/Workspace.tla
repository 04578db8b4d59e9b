---- MODULE Workspace ----
(***************************************************************************)
(* The two ways from a workspace into a store: marv commit loads a file    *)
(* with all it imports and commits that as one batch; the query server     *)
(* opens the package and commits its files one at a time, in the order of  *)
(* their paths.  A file is taken to lower alone as it does with the others.*)
(***************************************************************************)
EXTENDS MarvStore

CONSTANTS
    Nowhere,      \* no directory above has a manifest
    Workspaces    \* sets of disks that hold the same sources

(***************************************************************************)
(* marv-package/src/lib.rs and marv-cli/src/pipeline.rs: from a workspace  *)
(* on disk and the file a command is given to the definitions it works on. *)
(*                                                                         *)
(* A disk is a record with                                                 *)
(*   packages  directory -> its manifest: the package's name, the files    *)
(*             found below each of its roots, and its dependencies in      *)
(*             order of their names, each with a directory;                *)
(*   files     file, numbered in order of paths -> what is in it: whether  *)
(*             it parses, the path of its module, the modules it imports,  *)
(*             and its definitions;                                        *)
(*   home      file -> the directory whose manifest governs it, or Nowhere;*)
(*   below     file -> the files below its directory, those of std not;    *)
(*   std       the files of the std directory that is found.               *)
(***************************************************************************)

Failed == [ok |-> FALSE]

\* collect_sources_dir: a file that does not parse, or whose module is not
\* the package's, fails the whole load.
Belongs(disk, f, package) ==
    disk.files[f].parses /\ Head(disk.files[f].module) = package

\* collect_package_sources: the files below each root.  One below two roots is
\* found twice.
Found(disk, dir) ==
    LET roots == disk.packages[dir].roots
    IN  UNION {{[file |-> f, dir |-> dir, root |-> r] : f \in roots[r]} : r \in DOMAIN roots}

\* load_package_into, for the dependency that is next: a directory is visited
\* once; the name it is expected to have is compared at that visit.  What it
\* depends on comes before what is still to do.
Visit(disk, st) ==
    LET dep == Head(st.todo)
        package == disk.packages[dep.dir]
    IN  IF ~ st.ok \/ st.todo = <<>> THEN st
        ELSE IF dep.dir \in st.seen
        THEN [ok |-> TRUE, todo |-> Tail(st.todo), seen |-> st.seen, sources |-> st.sources]
        ELSE IF \/ dep.dir \notin DOMAIN disk.packages
                \/ package.name # dep.name
                \/ \E x \in Found(disk, dep.dir) : ~ Belongs(disk, x.file, dep.name)
        THEN Failed
        ELSE [ok |-> TRUE, todo |-> package.deps \o Tail(st.todo),
              seen |-> st.seen \cup {dep.dir},
              sources |-> st.sources \cup Found(disk, dep.dir)]

\* The dependencies that the manifests have.
Dependencies(disk) ==
    UNION {{dir} \X DOMAIN disk.packages[dir].deps : dir \in DOMAIN disk.packages}

\* load_package: the sources of a package and of what it depends on.  No
\* dependency is looked at twice.
Visits(disk, dir) ==
    LET itself == [name |-> disk.packages[dir].name, dir |-> dir]
        load[k \in 0 .. 1 + Cardinality(Dependencies(disk))] ==
            IF k = 0 THEN [ok |-> TRUE, todo |-> <<itself>>, seen |-> {}, sources |-> {}]
            ELSE Visit(disk, load[k - 1])
    IN  load
LoadPackage(disk, dir) ==
    IF dir \in DOMAIN disk.packages
    THEN Visits(disk, dir)[1 + Cardinality(Dependencies(disk))]
    ELSE Failed

\* module_index: every file has to parse, imported or not.
Indexed(disk, fs) ==
    IF \A g \in fs : disk.files[g].parses
    THEN [ok |-> TRUE, sources |-> {[file |-> g] : g \in fs}]
    ELSE Failed

\* The project's side of resolve_source_imports: the package graph, or
\* without a manifest every file below.
ProjectSources(disk, f) ==
    IF disk.home[f] = Nowhere
    THEN Indexed(disk, disk.below[f])
    ELSE LoadPackage(disk, disk.home[f])

\* resolve_indexed_module: the sources that declare a module.
Declaring(disk, sources, module) ==
    {x \in sources : disk.files[x.file].module = module}

\* Mutant: imports of imports are not followed.
NoMore(disk, f) == <<>>

ImportsOf(disk, f) == disk.files[f].imports

\* resolve_source_imports, for the import that is next.  A module of std that
\* is not found, or not once, is left out, any other must be declared once.
Follow(disk, project, std, st) ==
    LET module == Head(st.queue)
        inStd == Head(module) = "std"
        declaring == Declaring(disk, IF inStd THEN std ELSE project, module)
        once == \E x \in declaring : declaring = {x}
        file == (CHOOSE x \in declaring : TRUE).file
    IN  IF ~ st.ok \/ st.queue = <<>> THEN st
        ELSE IF module \in st.seen \/ (inStd /\ ~ once)
        THEN [ok |-> TRUE, queue |-> Tail(st.queue), seen |-> st.seen \cup {module},
              defs |-> st.defs]
        ELSE IF ~ once THEN Failed
        ELSE [ok |-> TRUE, queue |-> Tail(st.queue) \o ImportsOf(disk, file),
              seen |-> st.seen \cup {module}, defs |-> st.defs \o disk.files[file].defs]

\* The imports that the files have.
Imports(disk) ==
    UNION {{f} \X DOMAIN disk.files[f].imports :
              f \in {g \in DOMAIN disk.files : disk.files[g].parses}}

\* resolve_source_imports: breadth first from what a file imports.  No import is
\* looked at twice.
Follows(disk, project, std, f) ==
    LET file == disk.files[f]
        load[k \in 0 .. Cardinality(Imports(disk))] ==
            IF k = 0 THEN [ok |-> TRUE, queue |-> file.imports, seen |-> {file.module},
                           defs |-> file.defs]
            ELSE Follow(disk, project, std, load[k - 1])
    IN  load
Selected(disk, project, std, f) ==
    LET load == Follows(disk, project, std, f)[Cardinality(Imports(disk))]
    IN  IF load.ok /\ load.queue = <<>> THEN load ELSE Failed

\* load_source: the definitions of the file and of all it imports.  Without
\* an import nothing else is read.
LoadSource(disk, f) ==
    LET file == disk.files[f]
        project == ProjectSources(disk, f)
        std == Indexed(disk, disk.std)
    IN  IF ~ file.parses THEN Failed
        ELSE IF file.imports = <<>> THEN [ok |-> TRUE, defs |-> file.defs]
        ELSE IF project.ok /\ std.ok THEN Selected(disk, project.sources, std.sources, f)
        ELSE Failed
-----------------------------------------------------------------------------
\* The batches marv commit makes of a disk, one for each file it can load.
Loads(disk) ==
    {load.defs : load \in {l \in {LoadSource(disk, f) : f \in DOMAIN disk.files} : l.ok}}

\* The source that is p-th in order of paths.
FileAt(sources, p) ==
    (CHOOSE x \in sources :
        /\ Cardinality({y \in sources : y.file < x.file}) < p
        /\ p <= Cardinality({y \in sources : y.file <= x.file})).file

\* The batches the server makes of a package, one for each of its files.
FileCommits(disk, dir) ==
    LET sources == LoadPackage(disk, dir).sources
    IN  [p \in 1 .. Cardinality(sources) |-> disk.files[FileAt(sources, p)].defs]
FileCommitsOf(disk) ==
    {FileCommits(disk, dir) : dir \in {d \in DOMAIN disk.packages : LoadPackage(disk, d).ok}}

LockAfter(table, batch) == Inserted(table, Rebinding(batch, DagHashes(batch, table)))

\* A sequence of commits, and that once for every definition of a program.
Commits(table, batches) ==
    LET after[i \in 0 .. Len(batches)] ==
            IF i = 0 THEN table ELSE LockAfter(after[i - 1], batches[i])
    IN  after
LockAfterAll(table, batches) == Commits(table, batches)[Len(batches)]
Rounds(table, batches, program) ==
    LET after[r \in 0 .. Len(program)] ==
            IF r = 0 THEN table ELSE LockAfterAll(after[r - 1], batches)
    IN  after
Settled(table, batches, program) == Rounds(table, batches, program)[Len(program)]
-----------------------------------------------------------------------------
\* What is in the files of these disks that parse.
ParsedOf(same) ==
    UNION {{disk.files[f] : f \in {g \in DOMAIN disk.files : disk.files[g].parses}} :
              disk \in same}

\* What becomes of each set of sources, in all its layouts.
Ways ==
    {[files |-> {x.defs : x \in ParsedOf(same)},
      loads |-> UNION {Loads(d) : d \in same},
      pushes |-> UNION {FileCommitsOf(d) : d \in same}] : same \in Workspaces}

\* A disk is finite, and what is said to be in it is.
IsDisk(disk) ==
    /\ disk.files \in Seq(Range(disk.files))
    /\ \A f \in DOMAIN disk.files :
          disk.files[f].parses =>
              /\ disk.files[f].imports \in Seq(Range(disk.files[f].imports))
              /\ disk.files[f].defs \in Seq(Range(disk.files[f].defs))
    /\ disk.std \subseteq DOMAIN disk.files
    /\ \A f \in DOMAIN disk.files : disk.below[f] \subseteq DOMAIN disk.files
    /\ \A dir \in DOMAIN disk.packages :
          /\ UNION Range(disk.packages[dir].roots) \subseteq DOMAIN disk.files
          /\ disk.packages[dir].deps \in Seq(Range(disk.packages[dir].deps))
    /\ IsFiniteSet(UNION {Found(disk, dir) : dir \in DOMAIN disk.packages})
    /\ IsFiniteSet(Dependencies(disk))
    /\ IsFiniteSet(Imports(disk))

Mentions(defs) == UNION {Range(defs[i].refs) : i \in DOMAIN defs}

\* A module has one file, a name one module, and whoever uses the name imports
\* that module; std is the same whichever disk is looked at.
ASSUME WorkspacesAssumption ==
    \A same \in Workspaces :
        /\ \A disk \in same : IsDisk(disk)
        /\ \A x, y \in ParsedOf(same) :
              /\ x.module = y.module => x = y
              /\ LocalNames(x.defs) \cap LocalNames(y.defs) # {} => x = y
              /\ Mentions(x.defs) \cap LocalNames(y.defs) # {} =>
                    x = y \/ y.module \in Range(x.imports)
        /\ \A x \in ParsedOf(same), disk \in same :
              Head(x.module) = "std" =>
                  \E f \in disk.std :
                      /\ disk.files[f] = x
                      /\ \A g \in disk.std \ {f} :
                            disk.files[g].parses => disk.files[g].module # x.module
-----------------------------------------------------------------------------
\* No definition calls itself through another module.
LocalRecursion(files, batch) ==
    LET graph == CallGraph(batch)
    IN  \A i, j \in DOMAIN batch :
            j \in Component(graph, i) =>
                \E defs \in files : {batch[i].name, batch[j].name} \subseteq LocalNames(defs)

\* The hashes a table gives the names of a program that own has are those of
\* the program's definitions.
Agree(table, own, program, dag) ==
    \A n \in LocalNames(program) \cap own : table[n] = dag[IndexOf(program, n)]

\* A definition's hash does not depend on how it came to the store: whether
\* it is committed again; from which file the program is loaded and how the
\* workspace is laid out in packages; or that the server commits the package
\* file by file, once its commits have settled and if what it takes from std,
\* which is not among the files, is what the lockfile has.  Recursion across
\* modules is an exception to the latter two: its members are numbered in the
\* order of loading.
CommitPathsAgree ==
    /\ \A batch \in Batches :
          DagHashes(batch, LockAfter(lock, batch)) = DagHashes(batch, lock)
    /\ \A way \in Ways : \A program \in way.loads :
          LET dag == DagHashes(program, lock)
          IN  LocalRecursion(way.files, program) =>
                /\ \A other \in way.loads :
                      Agree(LockAfter(lock, other), LocalNames(other), program, dag)
                /\ \A push \in way.pushes :
                      LET own == UNION {LocalNames(push[i]) : i \in DOMAIN push}
                      IN  (/\ LocalNames(program) \ own \subseteq DOMAIN lock
                           /\ Agree(lock, LocalNames(program) \ own, program, dag)) =>
                          Agree(Settled(lock, push, program), own, program, dag)
====
