---------------------------- MODULE PieceFiles ------------------------------
(***************************************************************************)
(* The file registry that registry_reader.py validates actions against,    *)
(* and scripts/sync_activepieces_registry.py, which writes it: one file    *)
(* per piece under registry/pieces, then the indexes over all of them      *)
(* under registry/indexes.  Each file is replaced atomically, the set of   *)
(* them is not, and a run may be killed between any two.                   *)
(*                                                                         *)
(* A record is abstracted to the version of the piece it was made from, an *)
(* index to the versions it was built from; 0 is a missing file or entry.  *)
(* Runs that overlap also share the names of the temporary files, so that  *)
(* the os.replace of one may raise: that is Killed.                        *)
(***************************************************************************)
EXTENDS Naturals

CONSTANTS
    Packages,    \* the npm packages of the pieces
    MaxVersion,  \* bound: releases of a package
    Indexes,     \* the index files
    Runs         \* runs of the script, each of which may be started again

VARIABLES
    served,  \* the version of each piece that Activepieces serves
    file,    \* registry/pieces
    index,   \* registry/indexes
    run      \* the runs of the script

fileVars == <<served, file, index, run>>

Records == [Packages -> Nat]
Nothing == [p \in Packages |-> 0]

Writing == {"files", "indexes"}

Run == [pc: {"start", "fetch", "ok"} \cup Writing, targets: SUBSET Packages,
        records: Records, todo: SUBSET (Packages \cup Indexes), failed: BOOLEAN,
        alone: BOOLEAN]

FilesTypeOK ==
    /\ served \in [Packages -> Nat \ {0}]
    /\ file \in Records
    /\ index \in [Indexes -> Records]
    /\ run \in [Runs -> Run]

-----------------------------------------------------------------------------
(* The world.                                                              *)

Release(p) ==
    /\ served[p] < MaxVersion
    /\ served' = [served EXCEPT ![p] = @ + 1]
    /\ UNCHANGED <<file, index, run>>

-----------------------------------------------------------------------------
(* _sync: every target is fetched before anything is written.              *)

Idle == [pc |-> "start", targets |-> {}, records |-> Nothing, todo |-> {},
         failed |-> FALSE, alone |-> FALSE]

\* --pieces names some targets: none, if it is but commas.
StartRun(x) ==
    /\ run[x].pc \in {"start", "ok"}
    /\ \E targets \in SUBSET Packages :
          run' = [run EXCEPT ![x] =
                    [Idle EXCEPT !.pc = "fetch", !.targets = targets, !.todo = targets]]
    /\ UNCHANGED <<served, file, index>>

Fetch(x, p) ==
    /\ run[x].pc = "fetch" /\ p \in run[x].todo
    /\ run' = [run EXCEPT ![x].records[p] = served[p], ![x].todo = @ \ {p}]
    /\ UNCHANGED <<served, file, index>>

\* The network, a 404, or a schema whose actions and triggers are both no dicts,
\* also after the second fetch: the piece is listed and the loop goes on.
FetchFails(x, p) ==
    /\ run[x].pc = "fetch" /\ p \in run[x].todo
    /\ run' = [run EXCEPT ![x].failed = TRUE, ![x].todo = @ \ {p}]
    /\ UNCHANGED <<served, file, index>>

\* One failure is enough to write nothing, and --dry-run writes nothing anyway.
WriteNothing(x) ==
    /\ run[x].pc = "fetch" /\ run[x].todo = {}
    /\ run' = [run EXCEPT ![x] = Idle]
    /\ UNCHANGED <<served, file, index>>

Writers == {x \in Runs : run[x].pc \in Writing}

\* The field "alone" is not in the code (it is there for LoneRunRepairs): no other
\* run has been writing since this one began to.
BeginWriting(x) ==
    /\ run[x].pc = "fetch" /\ run[x].todo = {} /\ ~run[x].failed
    /\ run' = [o \in Runs |->
          IF o = x THEN [run[x] EXCEPT !.pc = "files", !.todo = run[x].targets,
                                       !.alone = (Writers = {})]
          ELSE IF o \in Writers THEN [run[o] EXCEPT !.alone = FALSE] ELSE run[o]]
    /\ UNCHANGED <<served, file, index>>

WriteFile(x, p) ==
    /\ run[x].pc = "files" /\ p \in run[x].todo
    /\ file' = [file EXCEPT ![p] = run[x].records[p]]
    /\ run' = [run EXCEPT ![x].todo = @ \ {p}]
    /\ UNCHANGED <<served, index>>

\* Faulty variant: the indexes cover what this run has fetched.
MergedOwn(x) == run[x].records

\* The pieces on disk, those of other runs included, under one's own.
Merged(x) == [p \in Packages |-> IF p \in run[x].targets THEN run[x].records[p] ELSE file[p]]

LoadFiles(x) ==
    /\ run[x].pc = "files" /\ run[x].todo = {}
    /\ run' = [run EXCEPT ![x].pc = "indexes", ![x].records = Merged(x), ![x].todo = Indexes]
    /\ UNCHANGED <<served, file, index>>

WriteIndex(x, i) ==
    /\ run[x].pc = "indexes" /\ i \in run[x].todo
    /\ index' = [index EXCEPT ![i] = run[x].records]
    /\ run' = [run EXCEPT ![x].todo = @ \ {i}]
    /\ UNCHANGED <<served, file>>

Finish(x) ==
    /\ run[x].pc = "indexes" /\ run[x].todo = {}
    /\ run' = [run EXCEPT ![x] = [Idle EXCEPT !.pc = "ok", !.targets = run[x].targets]]
    /\ UNCHANGED <<served, file, index>>

\* An exception that nothing catches, a signal, a full disk: what is written stays.
Killed(x) ==
    /\ run[x].pc \in {"fetch"} \cup Writing
    /\ run' = [run EXCEPT ![x] = Idle]
    /\ UNCHANGED <<served, file, index>>

-----------------------------------------------------------------------------
\* --validate-only: the targets are there, the indexes are those of the files.
Valid(targets) ==
    /\ file # Nothing
    /\ \A p \in targets : file[p] # 0
    /\ \A i \in Indexes : index[i] = file

-----------------------------------------------------------------------------
FilesInit ==
    /\ served = [p \in Packages |-> 1]
    /\ file = Nothing
    /\ index = [i \in Indexes |-> Nothing]
    /\ run = [x \in Runs |-> Idle]

RunStep(x) ==
    \/ StartRun(x) \/ WriteNothing(x) \/ BeginWriting(x) \/ LoadFiles(x)
    \/ Finish(x) \/ Killed(x)
    \/ \E p \in Packages : Fetch(x, p) \/ FetchFails(x, p) \/ WriteFile(x, p)
    \/ \E i \in Indexes : WriteIndex(x, i)

FilesNext == \/ \E p \in Packages : Release(p)
        \/ \E x \in Runs : RunStep(x)

FilesSpec == FilesInit /\ [][FilesNext]_fileVars

-----------------------------------------------------------------------------
\* "Output is deterministic", "partial syncs don't destroy unrelated indexes"
\* (sync_activepieces_registry.py:39 and 510): a run that returns 0 and wrote
\* without another beside it leaves a registry that --validate-only accepts,
\* whatever runs were killed, failed, overlapped or covered other pieces before.
\* (A run without targets does not fill an empty registry, which is not accepted.)
LoneRunRepairs ==
    [][\A x \in Runs :
          run[x].pc = "indexes" /\ run'[x].pc = "ok" /\ run[x].alone =>
              Valid(run[x].targets)' \/ (run[x].targets = {} /\ file' = Nothing)]_fileVars
=============================================================================
