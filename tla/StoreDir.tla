---- MODULE StoreDir ----
(***************************************************************************)
(* StoreDir of marv-store/src/lib.rs and the commands of marv-cli that use *)
(* it: a directory with one file per blob and a lockfile.  A command loads *)
(* everything, changes the store in memory and saves it file by file: it   *)
(* first removes the blob files the new store does not have, then rewrites *)
(* every blob, then the lockfile.  No write is atomic, nothing is synced   *)
(* or renamed into place; a process may die, or a write may fail, between  *)
(* any two files and inside any one.                                       *)
(*                                                                         *)
(* One command runs at a time, and the directory was not written by an     *)
(* older version (no store.json): load falls back to that only while there *)
(* is no blob.  The order of the files is the order of their hashes, which *)
(* the model leaves open.                                                  *)
(***************************************************************************)
EXTENDS StoreOps

CONSTANTS
    Batches,        \* the batches of entries a commit may be given
    Torn,           \* the value of a file whose write was interrupted
    MaxCommands     \* bound on the number of commands of a behaviour

ASSUME BatchesAssumption == \A b \in Batches : IsBatch(b)
ASSUME MaxCommandsAssumption == MaxCommands \in Nat

VARIABLES
    blobs,      \* dag hash -> blob, or Torn: the files below blobs/b3
    lockfile,   \* qualified name -> dag hash, or Torn: lockfile.json
    phase,      \* what the running command does
    mem,        \* the store, lockfile and declarations it holds in memory
    todo,       \* the files it has still to remove or to write
    declared,   \* history: qualified name -> entry bound on disk
    commands    \* history: number of commands so far

vars == <<blobs, lockfile, phase, mem, todo, declared, commands>>

NoMem == [store |-> <<>>, lock |-> <<>>, declared |-> <<>>]

\* load succeeds: every file parses.
Readable ==
    /\ lockfile # Torn
    /\ \A h \in DOMAIN blobs : blobs[h] # Torn

-----------------------------------------------------------------------------
Init ==
    /\ blobs = <<>>
    /\ lockfile = <<>>
    /\ phase = "idle"
    /\ mem = NoMem
    /\ todo = {}
    /\ declared = <<>>
    /\ commands = 0

\* The start of save: the files to remove are those the store has no blob for.
Save(st, lk, decl) ==
    /\ mem' = [store |-> st, lock |-> lk, declared |-> decl]
    /\ todo' = DOMAIN blobs \ DOMAIN st
    /\ phase' = "prune"

\* A command that finds every file readable; otherwise it reports the error
\* and leaves the directory alone.
Load ==
    /\ phase = "idle"
    /\ Readable
    /\ commands < MaxCommands
    /\ commands' = commands + 1
    /\ UNCHANGED <<blobs, lockfile, declared>>

\* Mutant: a name that is bound keeps its binding.
KeepingCommit(batch) ==
    LET dag == DagHashes(batch, lockfile)
    IN  /\ Load
        /\ Save(CommittedStore(blobs, batch, dag, lockfile),
                Inserted(Rebinding(batch, dag), lockfile),
                Inserted(Rebinding(batch, batch), declared))

\* marv commit.
CommitCommand(batch) ==
    LET dag == DagHashes(batch, lockfile)
    IN  /\ Load
        /\ Save(CommittedStore(blobs, batch, dag, lockfile),
                Inserted(lockfile, Rebinding(batch, dag)),
                Inserted(declared, Rebinding(batch, batch)))

\* marv store gc.
GcCommand ==
    /\ Load
    /\ Save(CollectedStore(blobs, lockfile), lockfile, declared)

\* prune_blob_files: one file at a time.
RemoveBlob ==
    /\ phase = "prune"
    /\ \E h \in todo :
          /\ blobs' = Restrict(blobs, DOMAIN blobs \ {h})
          /\ todo' = todo \ {h}
    /\ UNCHANGED <<lockfile, phase, mem, declared, commands>>

StartWriting ==
    /\ phase = "prune"
    /\ todo = {}
    /\ phase' = "write"
    /\ todo' = DOMAIN mem.store
    /\ UNCHANGED <<blobs, lockfile, mem, declared, commands>>

\* The loop over store.defs: every blob is written, new or not.
WriteBlob ==
    /\ phase = "write"
    /\ \E h \in todo :
          /\ blobs' = Inserted(blobs, [x \in {h} |-> mem.store[h]])
          /\ todo' = todo \ {h}
    /\ UNCHANGED <<lockfile, phase, mem, declared, commands>>

Idle == phase' = "idle" /\ mem' = NoMem /\ todo' = {}

\* Mutant: the lockfile is written before the blobs are.
WriteLockEarly ==
    /\ phase = "write"
    /\ lockfile' = mem.lock
    /\ declared' = mem.declared
    /\ IF todo = {} THEN Idle ELSE UNCHANGED <<phase, mem, todo>>
    /\ UNCHANGED <<blobs, commands>>

WriteLock ==
    /\ phase = "write"
    /\ todo = {}
    /\ lockfile' = mem.lock
    /\ declared' = mem.declared
    /\ Idle
    /\ UNCHANGED <<blobs, commands>>

\* The process dies between two files, or an operation fails at once: save
\* returns on the first error and nothing is undone.
Crash ==
    /\ phase # "idle"
    /\ Idle
    /\ UNCHANGED <<blobs, lockfile, declared, commands>>

\* The process dies, or the disk fills, inside the write of a file.
CrashInBlob ==
    /\ phase = "write"
    /\ \E h \in todo : blobs' = Inserted(blobs, [x \in {h} |-> Torn])
    /\ Idle
    /\ UNCHANGED <<lockfile, declared, commands>>

CrashInLock ==
    /\ phase = "write"
    /\ todo = {}
    /\ lockfile' = Torn
    /\ Idle
    /\ UNCHANGED <<blobs, declared, commands>>

Next ==
    \/ \E batch \in Batches : CommitCommand(batch)
    \/ GcCommand
    \/ RemoveBlob
    \/ StartWriting
    \/ WriteBlob
    \/ WriteLock
    \/ Crash
    \/ CrashInBlob
    \/ CrashInLock

Spec == Init /\ [][Next]_vars
-----------------------------------------------------------------------------
\* A load that succeeds, at whatever point the last command was cut off,
\* returns a store from which every binding can be fetched whole.
LoadedClosed ==
    Readable => Complete(DepGraph(blobs), Range(lockfile))

\* The same loads show the audit every unsafe site of a bound definition.
LoadedAudited ==
    Readable =>
        \A n \in DOMAIN declared :
            declared[n].unsafe \subseteq blobs[lockfile[n]].unsafe

\* Seen from the lockfile, commands are atomic: a commit binds all its names
\* or none of them, and a cut-off command binds nothing; only a torn lockfile
\* loses bindings, and it is never taken for an empty one.
Pins == INSTANCE PinTable WITH
            pins <- lockfile, InitialPins <- <<>>, Lost <- Torn
AtomicCommands == Pins!Spec
====
