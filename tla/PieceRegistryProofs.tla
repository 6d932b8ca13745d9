------------------------- MODULE PieceRegistryProofs -------------------------
(***************************************************************************)
(* Theorems about the two piece registries, the one in files (PieceFiles)  *)
(* and the one in the database (PieceVault), which share no variable: for  *)
(* any number of pieces, releases, indexes and runs of the scripts.        *)
(***************************************************************************)
EXTENDS PieceFiles, PieceVault, TLAPS

-----------------------------------------------------------------------------
(* The registry in files.                                                  *)

\* What a run has fetched it has a record of.
Collected ==
    \A x \in Runs :
        /\ run[x].pc = "fetch" /\ ~run[x].failed =>
              \A p \in run[x].targets \ run[x].todo : run[x].records[p] # 0
        /\ run[x].pc \in Writing =>
              \A p \in run[x].targets : run[x].records[p] # 0

LoneWriter(x) == run[x].pc \in Writing /\ run[x].alone

\* Nobody writes beside a lone writer.
NobodyElse ==
    \A x \in Runs : LoneWriter(x) => \A o \in Runs \ {x} : run[o].pc \notin Writing

\* What a lone writer has written is still there, and once it has read the files
\* its records are the files.
Progress ==
    \A x \in Runs : LoneWriter(x) =>
        /\ run[x].pc = "files" =>
              \A p \in run[x].targets \ run[x].todo : file[p] = run[x].records[p]
        /\ run[x].pc = "indexes" =>
              /\ file = run[x].records
              /\ \A i \in Indexes \ run[x].todo : index[i] = run[x].records

IInv ==
    /\ FilesTypeOK
    /\ Collected
    /\ NobodyElse
    /\ Progress

-----------------------------------------------------------------------------
(* Types.                                                                  *)

\* The initial values have their types.
LEMMA InitType == FilesInit => FilesTypeOK /\ Idle \in Run
BY DEF FilesInit, FilesTypeOK, Idle, Run, Records, Nothing, Writing

\* Every step keeps the types.
LEMMA NextType == FilesTypeOK /\ [FilesNext]_fileVars => FilesTypeOK'
<1> SUFFICES ASSUME FilesTypeOK, [FilesNext]_fileVars PROVE FilesTypeOK' OBVIOUS
<1>1. CASE UNCHANGED fileVars
  BY <1>1 DEF fileVars, FilesTypeOK
<1>2. ASSUME NEW p \in Packages, Release(p) PROVE FilesTypeOK'
  BY <1>2 DEF Release, FilesTypeOK
<1>3. ASSUME NEW x \in Runs, RunStep(x) PROVE FilesTypeOK'
  <2>1. run[x] \in Run /\ run \in [Runs -> Run] /\ file \in Records /\ Idle \in Run
    BY DEF FilesTypeOK, Idle, Run, Records, Nothing, Writing
  <2>2. ASSUME NEW d \in Run, run' = [run EXCEPT ![x] = d], UNCHANGED <<served, file, index>>
        PROVE  FilesTypeOK'
    BY <2>1, <2>2 DEF FilesTypeOK
  <2>3. CASE StartRun(x)
    <3>1. PICK targets \in SUBSET Packages :
             run' = [run EXCEPT ![x] =
                       [Idle EXCEPT !.pc = "fetch", !.targets = targets, !.todo = targets]]
      BY <2>3 DEF StartRun
    <3>2. [Idle EXCEPT !.pc = "fetch", !.targets = targets, !.todo = targets] \in Run
      BY <2>1 DEF Run
    <3> QED BY <2>2, <2>3, <3>1, <3>2 DEF StartRun
  <2>4. ASSUME NEW p \in Packages, Fetch(x, p) PROVE FilesTypeOK'
    <3>1. [run[x].records EXCEPT ![p] = served[p]] \in Records
      BY <2>1 DEF FilesTypeOK, Run, Records
    <3>2. [run[x] EXCEPT !.records = [run[x].records EXCEPT ![p] = served[p]],
                         !.todo = run[x].todo \ {p}] \in Run
      BY <2>1, <3>1 DEF Run
    <3> QED BY <2>2, <2>4, <3>2 DEF Fetch
  <2>5. ASSUME NEW p \in Packages, FetchFails(x, p) PROVE FilesTypeOK'
    <3>1. [run[x] EXCEPT !.failed = TRUE, !.todo = run[x].todo \ {p}] \in Run
      BY <2>1 DEF Run
    <3> QED BY <2>2, <2>5, <3>1 DEF FetchFails
  <2>6. CASE BeginWriting(x)
    <3>1. [run[x] EXCEPT !.pc = "files", !.todo = run[x].targets,
                         !.alone = (Writers = {})] \in Run
      BY <2>1 DEF Run, Writing
    <3>2. ASSUME NEW o \in Runs PROVE run[o] \in Run /\ [run[o] EXCEPT !.alone = FALSE] \in Run
      BY <2>1 DEF Run
    <3>3. run' \in [Runs -> Run]
      BY <2>6, <3>1, <3>2 DEF BeginWriting
    <3> QED BY <2>6, <3>3 DEF BeginWriting, FilesTypeOK
  <2>7. ASSUME NEW p \in Packages, WriteFile(x, p) PROVE FilesTypeOK'
    <3>1. [run[x] EXCEPT !.todo = run[x].todo \ {p}] \in Run
      BY <2>1 DEF Run
    <3>2. file' \in Records
      BY <2>1, <2>7 DEF WriteFile, Run, Records
    <3> QED BY <2>1, <2>7, <3>1, <3>2 DEF WriteFile, FilesTypeOK
  <2>8. CASE LoadFiles(x)
    <3>1. Merged(x) \in Records
      BY <2>1 DEF Merged, Run, Records
    <3>2. [run[x] EXCEPT !.pc = "indexes", !.records = Merged(x), !.todo = Indexes] \in Run
      BY <2>1, <3>1 DEF Run, Writing
    <3> QED BY <2>2, <2>8, <3>2 DEF LoadFiles
  <2>9. ASSUME NEW i \in Indexes, WriteIndex(x, i) PROVE FilesTypeOK'
    <3>1. [run[x] EXCEPT !.todo = run[x].todo \ {i}] \in Run /\ run[x].records \in Records
      BY <2>1 DEF Run
    <3> QED BY <2>1, <2>9, <3>1 DEF WriteIndex, FilesTypeOK
  <2>10. CASE Finish(x) \/ Killed(x) \/ WriteNothing(x)
    <3>1. [Idle EXCEPT !.pc = "ok", !.targets = run[x].targets] \in Run
      BY <2>1 DEF Run
    <3> QED BY <2>1, <2>2, <2>10, <3>1 DEF Finish, Killed, WriteNothing
  <2> QED BY <1>3, <2>3, <2>4, <2>5, <2>6, <2>7, <2>8, <2>9, <2>10 DEF RunStep
<1> QED BY <1>1, <1>2, <1>3 DEF FilesNext

-----------------------------------------------------------------------------
(* The invariant.                                                          *)

\* It holds to begin with.
LEMMA InitInv == FilesInit => IInv
<1> SUFFICES ASSUME FilesInit PROVE IInv OBVIOUS
<1>1. FilesTypeOK
  BY InitType
<1>2. \A x \in Runs : run[x].pc = "start"
  BY DEF FilesInit, Idle
<1> QED BY <1>1, <1>2 DEF IInv, Collected, NobodyElse, Progress, LoneWriter, Writing

\* Of the other runs a step changes nothing but, at most, that they are alone.
LEMMA OthersWait ==
    ASSUME FilesTypeOK, NEW x \in Runs, RunStep(x), NEW o \in Runs, o # x
    PROVE  /\ run'[o].pc = run[o].pc /\ run'[o].targets = run[o].targets
           /\ run'[o].records = run[o].records /\ run'[o].todo = run[o].todo
           /\ run'[o].failed = run[o].failed /\ (run'[o].alone => run[o].alone)
<1>1. run[o] \in Run
  BY DEF FilesTypeOK
<1>2. CASE BeginWriting(x)
  <2>1. run'[o] = IF o \in Writers THEN [run[o] EXCEPT !.alone = FALSE] ELSE run[o]
    BY <1>2 DEF BeginWriting
  <2> QED BY <1>1, <2>1 DEF Run
<1>3. CASE ~BeginWriting(x)
  <2>1. run'[o] = run[o]
    BY <1>3 DEF RunStep, StartRun, WriteNothing, LoadFiles, Finish, Killed, Fetch, FetchFails,
                WriteFile, WriteIndex, FilesTypeOK
  <2> QED BY <2>1
<1> QED BY <1>2, <1>3

\* How a run ends.
LEMMA RunEnds ==
    ASSUME FilesTypeOK, NEW x \in Runs, WriteNothing(x) \/ Finish(x) \/ Killed(x)
    PROVE  run'[x].pc \in {"start", "ok"} /\ run'[x].pc \notin Writing
<1>1. run'[x] \in {Idle, [Idle EXCEPT !.pc = "ok", !.targets = run[x].targets]}
  BY DEF WriteNothing, Finish, Killed, FilesTypeOK
<1>2. Idle.pc = "start" /\ [Idle EXCEPT !.pc = "ok", !.targets = run[x].targets].pc = "ok"
  BY DEF Idle
<1>3. run'[x].pc = "start" \/ run'[x].pc = "ok"
  BY <1>1, <1>2
<1> QED BY <1>3 DEF Writing

\* Where the run itself is after a step.
LEMMA RunMoves ==
    ASSUME IInv, NEW x \in Runs, RunStep(x)
    PROVE  \/ BeginWriting(x) /\ run'[x].pc = "files"
           \/ /\ run'[x].pc \in {"start", "fetch", "ok"}
              /\ UNCHANGED <<file, index>>
           \/ /\ run[x].pc \in Writing /\ run'[x].pc \in Writing
              /\ run'[x].alone = run[x].alone /\ run'[x].targets = run[x].targets
<1>1. run[x] \in Run /\ run \in [Runs -> Run]
  BY DEF IInv, FilesTypeOK
<1>0. CASE BeginWriting(x)
  BY <1>0, <1>1 DEF BeginWriting, Run
<1>2. CASE WriteNothing(x) \/ Finish(x) \/ Killed(x)
  <2>1. run'[x].pc \in {"start", "ok"}
    BY <1>2, RunEnds DEF IInv
  <2> QED BY <1>2, <2>1 DEF WriteNothing, Finish, Killed
<1>3. CASE StartRun(x)
  <2>1. PICK targets \in SUBSET Packages :
           run' = [run EXCEPT ![x] =
                     [Idle EXCEPT !.pc = "fetch", !.targets = targets, !.todo = targets]]
    BY <1>3 DEF StartRun
  <2> QED BY <1>1, <1>3, <2>1 DEF StartRun, Idle
<1>4. CASE LoadFiles(x)
  BY <1>1, <1>4 DEF LoadFiles, Run, Writing
<1>5. ASSUME NEW p \in Packages, Fetch(x, p) \/ FetchFails(x, p)
      PROVE  run'[x].pc \in {"start", "fetch", "ok"} /\ UNCHANGED <<file, index>>
  BY <1>1, <1>5 DEF Fetch, FetchFails, Run
<1>6. ASSUME NEW p \in Packages, WriteFile(x, p)
      PROVE  /\ run[x].pc \in Writing /\ run'[x].pc \in Writing
             /\ run'[x].alone = run[x].alone /\ run'[x].targets = run[x].targets
  BY <1>1, <1>6 DEF WriteFile, Run, Writing
<1>7. CASE \E i \in Indexes : WriteIndex(x, i)
  BY <1>1, <1>7 DEF WriteIndex, Run, Writing
<1> QED BY <1>0, <1>2, <1>3, <1>4, <1>5, <1>6, <1>7 DEF RunStep

\* Nobody starts to write beside a lone writer and leaves it alone.
LEMMA StaysAlone ==
    ASSUME IInv, NEW x \in Runs, RunStep(x)
    PROVE  NobodyElse'
<1>1. CASE BeginWriting(x)
  <2>1. \A o \in Runs : run[o] \in Run
    BY DEF IInv, FilesTypeOK
  <2>2. run'[x].alone = (Writers = {})
    BY <1>1, <2>1 DEF BeginWriting, Run
  <2>3. \A o \in Runs \ {x} : o \in Writers => ~run'[o].alone
    BY <1>1, <2>1 DEF BeginWriting, Run
  <2>4. \A o \in Runs \ {x} : run'[o].pc = run[o].pc
    BY OthersWait DEF IInv
  <2>5. ASSUME NEW y \in Runs, LoneWriter(y)', NEW o \in Runs \ {y}
        PROVE  run'[o].pc \notin Writing
    <3>1. y = x
      BY <2>3, <2>4, <2>5 DEF LoneWriter, Writers
    <3>2. Writers = {}
      BY <2>2, <2>5, <3>1 DEF LoneWriter
    <3> QED BY <2>4, <2>5, <3>1, <3>2 DEF Writers
  <2> QED BY <2>5 DEF NobodyElse
<1>2. CASE \/ run'[x].pc \in {"start", "fetch", "ok"}
           \/ run[x].pc \in Writing /\ run'[x].alone = run[x].alone
  <2>1. \A o \in Runs : run'[o].pc \in Writing =>
           run[o].pc \in Writing /\ (run'[o].alone => run[o].alone)
    BY <1>2, OthersWait DEF IInv, Writing
  <2> QED BY <2>1 DEF IInv, NobodyElse, LoneWriter
<1>3. \/ BeginWriting(x)
      \/ run'[x].pc \in {"start", "fetch", "ok"}
      \/ run[x].pc \in Writing /\ run'[x].alone = run[x].alone
  BY RunMoves
<1> QED BY <1>1, <1>2, <1>3

\* Records are collected before they are written.
LEMMA StaysCollected ==
    ASSUME IInv, NEW x \in Runs, RunStep(x)
    PROVE  Collected'
<1> DEFINE Has(y) ==
             /\ run[y].pc = "fetch" /\ ~run[y].failed =>
                   \A p \in run[y].targets \ run[y].todo : run[y].records[p] # 0
             /\ run[y].pc \in Writing => \A p \in run[y].targets : run[y].records[p] # 0
<1>1. \A o \in Runs \ {x} : Has(o)'
  BY OthersWait DEF IInv, Collected
<1>2. Has(x) /\ run[x] \in Run /\ run \in [Runs -> Run]
  BY DEF IInv, Collected, FilesTypeOK
<1>3. Has(x)'
  <2>1. CASE StartRun(x)
    <3>1. PICK targets \in SUBSET Packages :
             run' = [run EXCEPT ![x] =
                       [Idle EXCEPT !.pc = "fetch", !.targets = targets, !.todo = targets]]
      BY <2>1 DEF StartRun
    <3>2. run'[x].pc = "fetch" /\ run'[x].targets = targets /\ run'[x].todo = targets
      BY <1>2, <3>1 DEF Idle
    <3>3. run'[x].pc \notin Writing
      BY <3>2 DEF Writing
    <3>4. \A p \in targets \ targets : FALSE
      OBVIOUS
    <3> QED BY <3>2, <3>3, <3>4
  <2>2. ASSUME NEW p \in Packages, Fetch(x, p) PROVE Has(x)'
    <3>1. /\ run'[x].pc = "fetch" /\ run'[x].targets = run[x].targets
          /\ run'[x].todo = run[x].todo \ {p} /\ run'[x].failed = run[x].failed
          /\ run'[x].records = [run[x].records EXCEPT ![p] = served[p]]
      BY <1>2, <2>2 DEF Fetch, Run
    <3>2. served[p] # 0 /\ run[x].records \in [Packages -> Nat] /\ run[x].targets \subseteq Packages
      BY <1>2 DEF IInv, FilesTypeOK, Run, Records
    <3> QED BY <1>2, <2>2, <3>1, <3>2 DEF Fetch, Writing
  <2>3. ASSUME NEW p \in Packages, FetchFails(x, p) PROVE Has(x)'
    BY <1>2, <2>3 DEF FetchFails, Run, Writing
  <2>4. CASE BeginWriting(x)
    <3>1. /\ ~run[x].failed /\ run[x].pc = "fetch" /\ run[x].todo = {}
          /\ run'[x].pc = "files" /\ run'[x].targets = run[x].targets
          /\ run'[x].records = run[x].records
      BY <1>2, <2>4 DEF BeginWriting, Run
    <3> QED BY <1>2, <3>1 DEF Writing
  <2>5. ASSUME NEW p \in Packages, WriteFile(x, p) PROVE Has(x)'
    BY <1>2, <2>5 DEF WriteFile, Run, Writing
  <2>6. CASE LoadFiles(x)
    <3>1. /\ run[x].pc = "files" /\ run'[x].pc = "indexes"
          /\ run'[x].targets = run[x].targets /\ run'[x].records = Merged(x)
      BY <1>2, <2>6 DEF LoadFiles, Run
    <3>2. \A p \in run[x].targets : Merged(x)[p] = run[x].records[p]
      BY <1>2 DEF Merged, Run
    <3> QED BY <1>2, <3>1, <3>2 DEF Writing
  <2>7. ASSUME NEW i \in Indexes, WriteIndex(x, i) PROVE Has(x)'
    BY <1>2, <2>7 DEF WriteIndex, Run, Writing
  <2>8. CASE Finish(x)
    <3>1. run[x].pc = "indexes" /\ run'[x].pc = "ok" /\ run'[x].targets = run[x].targets
      BY <1>2, <2>8 DEF Finish, Idle, Run
    <3> QED BY <1>2, <3>1 DEF Writing
  <2>9. CASE Killed(x) \/ WriteNothing(x)
    BY <1>2, <2>9 DEF Killed, WriteNothing, Idle, Writing
  <2> QED BY <2>1, <2>2, <2>3, <2>4, <2>5, <2>6, <2>7, <2>8, <2>9 DEF RunStep
<1> QED BY <1>1, <1>3 DEF Collected

\* What a lone writer relies on nobody changes, and it makes progress itself.
LEMMA StaysOnDisk ==
    ASSUME IInv, NobodyElse', NEW x \in Runs, RunStep(x)
    PROVE  Progress'
<1> DEFINE Good(y) ==
             LoneWriter(y) =>
                /\ run[y].pc = "files" =>
                      \A p \in run[y].targets \ run[y].todo : file[p] = run[y].records[p]
                /\ run[y].pc = "indexes" =>
                      /\ file = run[y].records
                      /\ \A i \in Indexes \ run[y].todo : index[i] = run[y].records
<1>1. run[x] \in Run /\ run \in [Runs -> Run] /\ Good(x)
      /\ file \in [Packages -> Nat] /\ run[x].records \in [Packages -> Nat]
      /\ run[x].targets \subseteq Packages /\ DOMAIN index = Indexes
  BY DEF IInv, Progress, FilesTypeOK, Run, Records
<1>2. ASSUME NEW o \in Runs \ {x} PROVE Good(o)'
  <2>1. SUFFICES ASSUME LoneWriter(o)' PROVE Good(o)'
    OBVIOUS
  <2>2. /\ LoneWriter(o) /\ run'[o].pc = run[o].pc /\ run'[o].targets = run[o].targets
        /\ run'[o].records = run[o].records /\ run'[o].todo = run[o].todo
    BY <2>1, OthersWait DEF LoneWriter, IInv
  <2>3. run[x].pc \notin Writing /\ run'[x].pc \notin Writing
    BY <2>1, <2>2 DEF IInv, NobodyElse
  <2>4. UNCHANGED <<file, index>>
    BY <2>3, RunMoves DEF Writing
  <2> QED BY <2>2, <2>4 DEF IInv, Progress
<1>3. Good(x)'
  <2>2. CASE BeginWriting(x)
    <3>1. /\ run'[x].pc = "files"
          /\ run'[x].todo = run[x].targets /\ run'[x].targets = run[x].targets
      BY <1>1, <2>2 DEF BeginWriting, Run
    <3> QED BY <3>1
  <2>3. ASSUME NEW p \in Packages, WriteFile(x, p) PROVE Good(x)'
    <3>1. /\ run[x].pc = "files" /\ run'[x].pc = "files" /\ run'[x].alone = run[x].alone
          /\ run'[x].targets = run[x].targets /\ run'[x].todo = run[x].todo \ {p}
          /\ run'[x].records = run[x].records
          /\ file' = [file EXCEPT ![p] = run[x].records[p]]
      BY <1>1, <2>3 DEF WriteFile, Run
    <3> QED BY <1>1, <3>1 DEF LoneWriter, Writing
  <2>4. CASE LoadFiles(x)
    <3>1. /\ run[x].pc = "files" /\ run[x].todo = {} /\ run'[x].pc = "indexes"
          /\ run'[x].alone = run[x].alone /\ run'[x].records = Merged(x)
          /\ run'[x].todo = Indexes /\ file' = file
      BY <1>1, <2>4 DEF LoadFiles, Run
    <3>2. LoneWriter(x) => Merged(x) = file
      BY <1>1, <3>1 DEF LoneWriter, Writing, Merged
    <3> QED BY <3>1, <3>2 DEF LoneWriter, Writing
  <2>5. ASSUME NEW i \in Indexes, WriteIndex(x, i) PROVE Good(x)'
    <3>1. /\ run[x].pc = "indexes" /\ run'[x].pc = "indexes" /\ run'[x].alone = run[x].alone
          /\ run'[x].records = run[x].records /\ run'[x].todo = run[x].todo \ {i}
          /\ index' = [index EXCEPT ![i] = run[x].records] /\ file' = file
      BY <1>1, <2>5 DEF WriteIndex, Run
    <3> QED BY <1>1, <3>1 DEF LoneWriter, Writing
  <2>6. CASE \/ StartRun(x) \/ WriteNothing(x) \/ Finish(x) \/ Killed(x)
             \/ \E p \in Packages : Fetch(x, p) \/ FetchFails(x, p)
    <3>1. run'[x].pc \notin Writing
      <4>1. CASE StartRun(x)
        <5>1. PICK targets \in SUBSET Packages :
                 run' = [run EXCEPT ![x] =
                           [Idle EXCEPT !.pc = "fetch", !.targets = targets, !.todo = targets]]
          BY <4>1 DEF StartRun
        <5> QED BY <1>1, <5>1 DEF Idle, Writing
      <4>2. CASE WriteNothing(x) \/ Finish(x) \/ Killed(x)
        BY <4>2, RunEnds DEF IInv
      <4>3. ASSUME NEW p \in Packages, Fetch(x, p) \/ FetchFails(x, p)
            PROVE  run'[x].pc \notin Writing
        BY <1>1, <4>3 DEF Fetch, FetchFails, Run, Writing
      <4> QED BY <2>6, <4>1, <4>2, <4>3
    <3> QED BY <3>1 DEF LoneWriter
  <2> QED BY <2>2, <2>3, <2>4, <2>5, <2>6 DEF RunStep
<1> QED BY <1>2, <1>3 DEF Progress

\* Every step keeps it.
LEMMA NextInv == IInv /\ [FilesNext]_fileVars => IInv'
<1> SUFFICES ASSUME IInv, [FilesNext]_fileVars PROVE IInv' OBVIOUS
<1>1. FilesTypeOK'
  BY NextType DEF IInv
<1>2. CASE UNCHANGED <<file, index, run>>
  BY <1>1, <1>2 DEF IInv, Collected, NobodyElse, Progress, LoneWriter
<1>3. ASSUME NEW x \in Runs, RunStep(x) PROVE IInv'
  BY <1>1, <1>3, StaysAlone, StaysCollected, StaysOnDisk DEF IInv
<1> QED BY <1>2, <1>3 DEF FilesNext, Release, fileVars

\* PieceFiles.LoneRunRepairs: however many runs were killed, failed or overlapped, and
\* whatever pieces they covered, the next one that is alone and returns 0 leaves
\* a registry --validate-only accepts.
THEOREM ValidAfterLoneRun == FilesSpec => LoneRunRepairs
<1>1. ASSUME IInv, [FilesNext]_fileVars, NEW x \in Runs,
             run[x].pc = "indexes", run'[x].pc = "ok", run[x].alone
      PROVE  Valid(run[x].targets)' \/ (run[x].targets = {} /\ file' = Nothing)
  <2>1. Finish(x)
    <3>1. PICK o \in Runs : RunStep(o)
      BY <1>1 DEF FilesNext, Release, fileVars
    <3>2. o = x
      BY <1>1, <3>1, OthersWait DEF IInv
    <3>3. run[x] \in Run /\ run \in [Runs -> Run]
      BY <1>1 DEF IInv, FilesTypeOK
    <3>4. ASSUME NEW p \in Packages PROVE ~Fetch(x, p) /\ ~FetchFails(x, p) /\ ~WriteFile(x, p)
      BY <1>1 DEF Fetch, FetchFails, WriteFile
    <3>5. ASSUME NEW i \in Indexes PROVE ~WriteIndex(x, i)
      BY <1>1, <3>3 DEF WriteIndex, Run
    <3>6. ~StartRun(x) /\ ~WriteNothing(x) /\ ~BeginWriting(x) /\ ~LoadFiles(x) /\ ~Killed(x)
      BY <1>1, <3>3 DEF StartRun, WriteNothing, BeginWriting, LoadFiles, Killed, Idle
    <3> QED BY <3>1, <3>2, <3>4, <3>5, <3>6 DEF RunStep
  <2>2. /\ run[x].todo = {} /\ file' = file /\ index' = index
        /\ run'[x].targets = run[x].targets
    BY <2>1 DEF Finish, Idle, IInv, FilesTypeOK
  <2>3. LoneWriter(x)
    BY <1>1 DEF LoneWriter, Writing
  <2>4. file = run[x].records /\ \A i \in Indexes : index[i] = file
    BY <1>1, <2>2, <2>3 DEF IInv, Progress
  <2>5. /\ run[x].targets \subseteq Packages
        /\ \A p \in run[x].targets : file[p] # 0
    BY <1>1, <2>4 DEF IInv, Collected, Writing, FilesTypeOK, Run
  <2>6. file # Nothing \/ (run[x].targets = {} /\ file = Nothing)
    BY <2>5 DEF Nothing
  <2> QED BY <2>2, <2>4, <2>5, <2>6 DEF Valid
<1>2. IInv /\ [FilesNext]_fileVars =>
         [\A x \in Runs :
             run[x].pc = "indexes" /\ run'[x].pc = "ok" /\ run[x].alone =>
                 Valid(run[x].targets)' \/ (run[x].targets = {} /\ file' = Nothing)]_fileVars
  BY <1>1
<1> QED BY <1>2, InitInv, NextInv, PTL DEF FilesSpec, LoneRunRepairs

-----------------------------------------------------------------------------
(* The registry in the database.                                           *)

\* A release at or after the one that run x listed is in the table.
InTable(x, p) == \E v \in sync[x].listed[p]..MaxRelease : <<p, v>> \in Vaulted

\* Activepieces never serves less than it did: what is fetched is no older than
\* what was listed, and only work to do is held.
FetchedIsNoOlder ==
    \A x \in Syncs : \A p \in PieceNames :
        /\ sync[x].listed[p] <= latest[p]
        /\ sync[x].got[p] # 0 =>
              /\ sync[x].pc = "work" /\ p \in sync[x].todo
              /\ sync[x].listed[p] <= sync[x].got[p]

\* What a run is through with is in the table, if nothing has failed so far.
WorkedIsVaulted ==
    \A x \in Syncs :
        /\ sync[x].pc = "done" => sync[x].todo = {}
        /\ sync[x].pc \in {"work", "done"} /\ ~sync[x].failed /\ sync[x].mode # "dry" =>
              \A p \in Targets(x) \ sync[x].todo : InTable(x, p)

VaultInv ==
    /\ VaultTypeOK
    /\ FetchedIsNoOlder
    /\ WorkedIsVaulted

\* A run that has not begun has the type of a run.
LEMMA IdleSyncType == IdleSync \in SyncRun
<1>1. 0 \in 0..MaxRelease
  BY MaxReleaseAssumption
<1> QED BY <1>1 DEF IdleSync, SyncRun, Modes

\* The initial values have their types.
LEMMA VaultInitType == VaultInit => VaultTypeOK
BY IdleSyncType, MaxReleaseAssumption
   DEF VaultInit, VaultTypeOK, NoPiece, PieceRow, When, Releases, ScoringRun

\* Every step keeps the types.
LEMMA VaultNextType == VaultTypeOK /\ [VaultNext]_vaultVars => VaultTypeOK'
<1> SUFFICES ASSUME VaultTypeOK, [VaultNext]_vaultVars PROVE VaultTypeOK' OBVIOUS
<1> USE DEF Releases
<1>1. CASE UNCHANGED vaultVars
  BY <1>1 DEF vaultVars, VaultTypeOK
<1>2. ASSUME NEW p \in PieceNames, ServeNewer(p) PROVE VaultTypeOK'
  BY <1>2, MaxReleaseAssumption DEF ServeNewer, VaultTypeOK
<1>3. CASE WeekPasses
  <2>1. \A k \in PieceNames \X Releases :
           [row[k] EXCEPT !.synced = Aged(@), !.fetched = Aged(@)] \in PieceRow
    BY DEF VaultTypeOK, PieceRow, When, Aged
  <2> QED BY <1>3, <2>1 DEF WeekPasses, VaultTypeOK
<1>4. ASSUME NEW x \in Syncs, SyncStep(x) PROVE VaultTypeOK'
  <2>1. sync[x] \in SyncRun /\ sync \in [Syncs -> SyncRun] /\ latest \in [PieceNames -> Releases]
    BY DEF VaultTypeOK
  <2>a. /\ sync[x].got \in [PieceNames -> 0..MaxRelease]
        /\ \A p \in PieceNames, v \in 0..MaxRelease :
              [sync[x].got EXCEPT ![p] = v] \in [PieceNames -> 0..MaxRelease]
        /\ 0 \in 0..MaxRelease /\ \A p \in PieceNames : latest[p] \in 0..MaxRelease
    BY <2>1, MaxReleaseAssumption DEF SyncRun
  <2>2. ASSUME NEW d \in SyncRun, sync' = [sync EXCEPT ![x] = d], UNCHANGED <<latest, row, scoring>>
        PROVE  VaultTypeOK'
    BY <2>1, <2>2 DEF VaultTypeOK
  <2>3. ASSUME NEW mode \in Modes, List(x, mode) PROVE VaultTypeOK'
    <3>1. \A targets : [p \in PieceNames |-> IF p \in targets THEN latest[p] ELSE 0]
             \in [PieceNames -> 0..MaxRelease]
      BY <2>a
    <3>2. PICK listed \in [PieceNames -> 0..MaxRelease] :
             sync' = [sync EXCEPT ![x].mode = mode, ![x].pc = "fresh", ![x].listed = listed]
      BY <2>3, <3>1 DEF List
    <3>3. [sync[x] EXCEPT !.mode = mode, !.pc = "fresh", !.listed = listed] \in SyncRun
      BY <2>1 DEF SyncRun
    <3> QED BY <2>1, <2>2, <2>3, <3>2, <3>3 DEF List
  <2>4. CASE SkipFresh(x)
    <3>1. PICK skipped \in SUBSET PieceNames :
             sync' = [sync EXCEPT ![x] =
                        [sync[x] EXCEPT !.pc = "work", !.todo = Targets(x) \ skipped]]
      BY <2>1, <2>4 DEF SkipFresh, Targets, SyncRun
    <3>2. [sync[x] EXCEPT !.pc = "work", !.todo = Targets(x) \ skipped] \in SyncRun
      BY <2>1 DEF SyncRun, Targets
    <3> QED BY <2>2, <2>4, <3>1, <3>2 DEF SkipFresh
  <2>5. ASSUME NEW p \in PieceNames, FetchSchema(x, p) PROVE VaultTypeOK'
    <3>1. [sync[x] EXCEPT !.got = [sync[x].got EXCEPT ![p] = latest[p]]] \in SyncRun
      BY <2>1, <2>a DEF SyncRun
    <3> QED BY <2>2, <2>5, <3>1 DEF FetchSchema
  <2>6. ASSUME NEW p \in PieceNames, FetchSchemaFails(x, p) PROVE VaultTypeOK'
    <3>1. [sync[x] EXCEPT !.todo = sync[x].todo \ {p}, !.failed = TRUE] \in SyncRun
      BY <2>1 DEF SyncRun
    <3> QED BY <2>2, <2>6, <3>1 DEF FetchSchemaFails
  <2>7. ASSUME NEW p \in PieceNames, SchemaUnusable(x, p) PROVE VaultTypeOK'
    <3>1. [sync[x] EXCEPT !.todo = sync[x].todo \ {p},
                          !.got = [sync[x].got EXCEPT ![p] = 0], !.failed = TRUE] \in SyncRun
      BY <2>1, <2>a DEF SyncRun
    <3>2. sync' = [sync EXCEPT ![x].todo = sync[x].todo \ {p},
                               ![x].got = [sync[x].got EXCEPT ![p] = 0], ![x].failed = TRUE]
      BY <2>1, <2>7 DEF SchemaUnusable, SyncRun
    <3> QED BY <2>1, <2>2, <2>7, <3>1, <3>2 DEF SchemaUnusable
  <2>8. ASSUME NEW p \in PieceNames, Upsert(x, p) PROVE VaultTypeOK'
    <3>1. [sync[x] EXCEPT !.todo = sync[x].todo \ {p},
                          !.got = [sync[x].got EXCEPT ![p] = 0]] \in SyncRun
      BY <2>1, <2>a DEF SyncRun
    <3>2. <<p, sync[x].got[p]>> \in PieceNames \X Releases
      BY <2>1, <2>8, MaxReleaseAssumption DEF Upsert, SyncRun
    <3>3. Upserted(<<p, sync[x].got[p]>>) \in PieceRow
      <4>1. row[<<p, sync[x].got[p]>>] \in PieceRow
        BY <3>2 DEF VaultTypeOK
      <4> QED BY <4>1 DEF Upserted, PieceRow, When
    <3>4. row' \in [PieceNames \X Releases -> PieceRow]
      BY <2>8, <3>2, <3>3 DEF Upsert, VaultTypeOK
    <3> QED BY <2>1, <2>8, <3>1, <3>4 DEF Upsert, VaultTypeOK
  <2>9. CASE SyncAborts(x)
    <3>1. [IdleSync EXCEPT !.pc = "aborted"] \in SyncRun
      BY IdleSyncType DEF SyncRun
    <3> QED BY <2>2, <2>9, <3>1 DEF SyncAborts
  <2>10. CASE Done(x)
    <3>1. [sync[x] EXCEPT !.pc = "done"] \in SyncRun
      BY <2>1 DEF SyncRun
    <3> QED BY <2>2, <2>10, <3>1 DEF Done
  <2> QED BY <1>4, <2>3, <2>4, <2>5, <2>6, <2>7, <2>8, <2>9, <2>10 DEF SyncStep
<1>5. ASSUME NEW z \in Scorings, ReadRows(z) \/ WriteScores(z) \/ ScoringEnds(z)
      PROVE  VaultTypeOK'
  <2>1. \A k \in PieceNames \X Releases : row[k] \in PieceRow /\ [row[k] EXCEPT !.synced = "now"] \in PieceRow
    BY DEF VaultTypeOK, PieceRow, When
  <2>2. /\ [pc |-> "write", seen |-> Vaulted] \in ScoringRun
        /\ [pc |-> "done", seen |-> {}] \in ScoringRun
    BY DEF ScoringRun, Vaulted
  <2>3. row' \in [PieceNames \X Releases -> PieceRow]
    BY <1>5, <2>1 DEF ReadRows, WriteScores, ScoringEnds, VaultTypeOK
  <2>4. scoring' \in [Scorings -> ScoringRun]
    BY <1>5, <2>2 DEF ReadRows, WriteScores, ScoringEnds, VaultTypeOK
  <2> QED BY <1>5, <2>3, <2>4 DEF ReadRows, WriteScores, ScoringEnds, VaultTypeOK
<1> QED BY <1>1, <1>2, <1>3, <1>4, <1>5 DEF VaultNext

-----------------------------------------------------------------------------
(* The invariant.                                                          *)

\* Rows are never deleted and Activepieces never goes back.
LEMMA TableGrows ==
    ASSUME VaultTypeOK, [VaultNext]_vaultVars
    PROVE  /\ Vaulted \subseteq Vaulted'
           /\ \A p \in PieceNames : latest[p] <= latest'[p]
<1>0. /\ latest \in [PieceNames -> 1..MaxRelease] /\ MaxRelease \in Nat
      /\ row \in [PieceNames \X Releases -> PieceRow]
  BY MaxReleaseAssumption DEF VaultTypeOK, Releases
<1>1. CASE UNCHANGED vaultVars
  BY <1>0, <1>1 DEF vaultVars, Vaulted
<1>2. ASSUME NEW p \in PieceNames, ServeNewer(p)
      PROVE  Vaulted' = Vaulted /\ \A q \in PieceNames : latest[q] <= latest'[q]
  BY <1>0, <1>2 DEF ServeNewer, Vaulted
<1>3. ASSUME latest' = latest,
             \A k \in PieceNames \X Releases : row[k].synced # "never" => row'[k].synced # "never"
      PROVE  Vaulted \subseteq Vaulted' /\ \A q \in PieceNames : latest[q] <= latest'[q]
  BY <1>0, <1>3 DEF Vaulted
<1>4. CASE WeekPasses
  <2>1. \A k \in PieceNames \X Releases : row'[k].synced = Aged(row[k].synced)
    BY <1>0, <1>4 DEF WeekPasses, PieceRow
  <2>2. \A k \in PieceNames \X Releases : row[k].synced # "never" => row'[k].synced # "never"
    BY <2>1 DEF Aged
  <2> QED BY <1>3, <1>4, <2>2 DEF WeekPasses
<1>5. ASSUME NEW x \in Syncs, SyncStep(x)
      PROVE  /\ latest' = latest
             /\ \A k \in PieceNames \X Releases :
                   row[k].synced # "never" => row'[k].synced # "never"
  <2>1. ASSUME NEW p \in PieceNames, Upsert(x, p)
        PROVE  \A k \in PieceNames \X Releases :
                   row[k].synced # "never" => row'[k].synced # "never"
    <3>1. \A k \in PieceNames \X Releases : row'[k] = row[k] \/ row'[k] = Upserted(k)
      BY <1>0, <2>1 DEF Upsert
    <3>2. \A k \in PieceNames \X Releases :
             row[k].synced # "never" => Upserted(k).synced # "never"
      BY <1>0 DEF Upserted, PieceRow
    <3> QED BY <3>1, <3>2
  <2>2. CASE \E p \in PieceNames : Upsert(x, p)
    BY <2>1, <2>2 DEF Upsert
  <2>3. CASE \/ \E mode \in Modes : List(x, mode)
             \/ SkipFresh(x) \/ SyncAborts(x) \/ Done(x)
             \/ \E p \in PieceNames : \/ FetchSchema(x, p) \/ FetchSchemaFails(x, p)
                                      \/ SchemaUnusable(x, p)
    BY <2>3 DEF List, SkipFresh, SyncAborts, Done, FetchSchema, FetchSchemaFails, SchemaUnusable
  <2> QED BY <1>5, <2>2, <2>3 DEF SyncStep
<1>6. ASSUME NEW z \in Scorings, ReadRows(z) \/ WriteScores(z) \/ ScoringEnds(z)
      PROVE  /\ latest' = latest
             /\ \A k \in PieceNames \X Releases :
                   row[k].synced # "never" => row'[k].synced # "never"
  <2>1. /\ \A k \in PieceNames \X Releases :
              row'[k] = row[k] \/ row'[k] = [row[k] EXCEPT !.synced = "now"]
        /\ latest' = latest
    BY <1>6 DEF ReadRows, WriteScores, ScoringEnds
  <2>2. \A k \in PieceNames \X Releases : [row[k] EXCEPT !.synced = "now"].synced = "now"
    BY <1>0 DEF PieceRow
  <2> QED BY <2>1, <2>2
<1>7. CASE \E x \in Syncs : SyncStep(x)
  BY <1>3, <1>5, <1>7
<1>8. CASE \E z \in Scorings : ReadRows(z) \/ WriteScores(z) \/ ScoringEnds(z)
  BY <1>3, <1>6, <1>8
<1> QED BY <1>1, <1>2, <1>4, <1>7, <1>8 DEF VaultNext

\* A step of one sync run leaves the others as they are.
LEMMA OneSyncMoves ==
    ASSUME VaultTypeOK, NEW x \in Syncs, SyncStep(x), NEW o \in Syncs, o # x
    PROVE  sync'[o] = sync[o]
BY DEF SyncStep, List, SkipFresh, SyncAborts, Done, FetchSchema, FetchSchemaFails,
       SchemaUnusable, Upsert, VaultTypeOK

\* The rest of the steps leave them all as they are.
LEMMA WorldWaits ==
    ASSUME [VaultNext]_vaultVars
    PROVE  UNCHANGED sync \/ \E x \in Syncs : SyncStep(x)
BY DEF VaultNext, vaultVars, WeekPasses, ServeNewer, ReadRows, WriteScores, ScoringEnds

\* What the invariant says of one run.
Owed(x) == Targets(x) \ sync[x].todo

Kept(x) ==
    /\ \A p \in PieceNames :
          /\ sync[x].listed[p] <= latest[p]
          /\ sync[x].got[p] # 0 =>
                /\ sync[x].pc = "work" /\ p \in sync[x].todo
                /\ sync[x].listed[p] <= sync[x].got[p]
    /\ sync[x].pc = "done" => sync[x].todo = {}
    /\ sync[x].pc \in {"work", "done"} /\ ~sync[x].failed /\ sync[x].mode # "dry" =>
          \A p \in Owed(x) : InTable(x, p)

LEMMA VaultInvByRun == VaultInv <=> VaultTypeOK /\ \A x \in Syncs : Kept(x)
BY DEF VaultInv, FetchedIsNoOlder, WorkedIsVaulted, Kept, Owed

\* A run that has not moved keeps its part, whatever happens to the rest.
LEMMA StillKept ==
    ASSUME VaultTypeOK, VaultTypeOK', [VaultNext]_vaultVars, NEW x \in Syncs, Kept(x),
           sync'[x] = sync[x]
    PROVE  Kept(x)'
<1>1. /\ \A p \in PieceNames : /\ latest[p] \in Nat /\ latest'[p] \in Nat
                               /\ sync[x].listed[p] \in Nat
      /\ MaxRelease \in Nat
  BY MaxReleaseAssumption DEF VaultTypeOK, Releases, SyncRun
<1>2. \A p \in PieceNames : sync[x].listed[p] <= latest[p] => sync'[x].listed[p] <= latest'[p]
  BY <1>1, TableGrows
<1>3. Owed(x)' = Owed(x) /\ \A p : InTable(x, p) => InTable(x, p)'
  BY TableGrows DEF Owed, Targets, InTable
<1> QED BY <1>2, <1>3 DEF Kept

\* A run that moves keeps its part.
LEMMA MoverKept ==
    ASSUME VaultTypeOK, [VaultNext]_vaultVars, NEW x \in Syncs, SyncStep(x), Kept(x)
    PROVE  Kept(x)'
<1>1. /\ sync[x] \in SyncRun /\ sync \in [Syncs -> SyncRun]
      /\ \A p \in PieceNames : /\ latest[p] \in 1..MaxRelease
                               /\ sync[x].listed[p] \in 0..MaxRelease
                               /\ sync[x].got[p] \in 0..MaxRelease
      /\ sync[x].got \in [PieceNames -> 0..MaxRelease]
      /\ MaxRelease \in Nat
  BY MaxReleaseAssumption DEF VaultTypeOK, Releases, SyncRun
<1>2. /\ \A p \in PieceNames :
          /\ sync[x].listed[p] <= latest[p]
          /\ sync[x].got[p] # 0 =>
                /\ sync[x].pc = "work" /\ p \in sync[x].todo
                /\ sync[x].listed[p] <= sync[x].got[p]
      /\ sync[x].pc = "done" => sync[x].todo = {}
      /\ sync[x].pc \in {"work", "done"} /\ ~sync[x].failed /\ sync[x].mode # "dry" =>
            \A p \in Owed(x) : InTable(x, p)
  BY DEF Kept
<1>3. Vaulted \subseteq Vaulted'
  BY TableGrows
<1>4. ASSUME sync'[x].listed = sync[x].listed
      PROVE  Targets(x)' = Targets(x) /\ \A p : InTable(x, p) => InTable(x, p)'
  BY <1>3, <1>4 DEF Targets, InTable
<1>5. ASSUME NEW mode \in Modes, List(x, mode) PROVE Kept(x)'
  <2>1. PICK targets \in SUBSET PieceNames :
           sync' = [sync EXCEPT ![x].mode = mode, ![x].pc = "fresh",
              ![x].listed = [p \in PieceNames |-> IF p \in targets THEN latest[p] ELSE 0]]
    BY <1>5 DEF List
  <2>2. /\ sync'[x].pc = "fresh" /\ sync'[x].got = sync[x].got
        /\ \A p \in PieceNames : sync'[x].listed[p] \in {0, latest[p]}
    BY <1>1, <2>1 DEF SyncRun
  <2>3. latest' = latest /\ sync[x].pc = "start"
    BY <1>5 DEF List
  <2> QED BY <1>1, <1>2, <2>2, <2>3 DEF Kept
<1>6. CASE SkipFresh(x)
  <2> DEFINE fresh == {p \in Targets(x) : row[<<p, sync[x].listed[p]>>].synced = "now"}
  <2>1. PICK skipped \in SUBSET fresh :
           sync' = [sync EXCEPT ![x].pc = "work", ![x].todo = Targets(x) \ skipped]
    BY <1>6 DEF SkipFresh
  <2>2. /\ sync'[x].pc = "work" /\ sync'[x].got = sync[x].got /\ sync'[x].listed = sync[x].listed
        /\ sync'[x].todo = Targets(x) \ skipped
        /\ latest' = latest /\ sync[x].pc = "fresh"
    BY <1>1, <1>6, <2>1 DEF SkipFresh, SyncRun
  <2>3. \A p \in fresh : InTable(x, p)
    <3> SUFFICES ASSUME NEW p \in fresh PROVE InTable(x, p) OBVIOUS
    <3>1. p \in PieceNames /\ sync[x].listed[p] \in Releases
      BY <1>1 DEF Targets, Releases
    <3>2. <<p, sync[x].listed[p]>> \in Vaulted
      BY <3>1 DEF Vaulted
    <3>3. sync[x].listed[p] \in sync[x].listed[p]..MaxRelease
      BY <3>1, <1>1 DEF Releases
    <3> QED BY <3>2, <3>3 DEF InTable
  <2>4. Owed(x)' \subseteq fresh
    BY <1>4, <2>1, <2>2 DEF Owed
  <2>5. \A p \in Owed(x)' : InTable(x, p)'
    BY <1>4, <2>2, <2>3, <2>4
  <2> QED BY <1>1, <1>2, <2>2, <2>5 DEF Kept
<1>7. ASSUME NEW p \in PieceNames, FetchSchema(x, p) PROVE Kept(x)'
  <2>1. /\ sync'[x].pc = "work" /\ sync[x].pc = "work" /\ sync'[x].listed = sync[x].listed
        /\ sync'[x].got = [sync[x].got EXCEPT ![p] = latest[p]]
        /\ sync'[x].todo = sync[x].todo /\ sync'[x].failed = sync[x].failed
        /\ sync'[x].mode = sync[x].mode /\ latest' = latest
    BY <1>1, <1>7 DEF FetchSchema, SyncRun
  <2>2. Owed(x)' = Owed(x)
    BY <1>4, <2>1 DEF Owed
  <2>3. \A q \in PieceNames : sync'[x].got[q] # 0 =>
           q \in sync[x].todo /\ sync[x].listed[q] <= sync'[x].got[q]
    BY <1>1, <1>2, <1>7, <2>1 DEF FetchSchema
  <2> QED BY <1>2, <1>4, <2>1, <2>2, <2>3 DEF Kept
<1>8. ASSUME NEW p \in PieceNames, FetchSchemaFails(x, p) \/ SchemaUnusable(x, p)
      PROVE  Kept(x)'
  <2>1. /\ sync'[x].pc = "work" /\ sync[x].pc = "work" /\ sync'[x].listed = sync[x].listed
        /\ sync'[x].failed /\ latest' = latest /\ sync'[x].todo = sync[x].todo \ {p}
        /\ sync'[x].got[p] = 0
        /\ \A q \in PieceNames : sync'[x].got[q] \in {0, sync[x].got[q]}
    BY <1>1, <1>8 DEF FetchSchemaFails, SchemaUnusable, SyncRun
  <2> QED BY <1>1, <1>2, <2>1 DEF Kept
<1>9. ASSUME NEW p \in PieceNames, Upsert(x, p) PROVE Kept(x)'
  <2>1. /\ sync'[x].pc = "work" /\ sync[x].pc = "work" /\ sync'[x].listed = sync[x].listed
        /\ sync'[x].failed = sync[x].failed /\ sync'[x].mode = sync[x].mode /\ latest' = latest
        /\ sync'[x].todo = sync[x].todo \ {p}
        /\ \A q \in PieceNames : sync'[x].got[q] \in {0, sync[x].got[q]}
        /\ sync[x].got[p] # 0 /\ sync'[x].got[p] = 0
    BY <1>1, <1>9 DEF Upsert, SyncRun
  <2>2. ASSUME sync[x].mode # "dry" PROVE InTable(x, p)'
    <3>1. sync[x].got[p] \in Releases /\ sync[x].got[p] \in sync[x].listed[p]..MaxRelease
      BY <1>1, <1>2, <2>1 DEF Releases
    <3>2. Upserted(<<p, sync[x].got[p]>>).synced # "never"
      BY <3>1 DEF Upserted, VaultTypeOK, PieceRow
    <3>3. row'[<<p, sync[x].got[p]>>] = Upserted(<<p, sync[x].got[p]>>)
      BY <1>9, <2>2, <3>1 DEF Upsert, VaultTypeOK
    <3>4. <<p, sync[x].got[p]>> \in Vaulted'
      BY <3>1, <3>2, <3>3 DEF Vaulted
    <3> QED BY <2>1, <3>1, <3>4 DEF InTable
  <2>3. Owed(x)' \subseteq Owed(x) \cup {p}
    BY <1>4, <2>1 DEF Owed
  <2>4. sync[x].mode # "dry" /\ ~sync[x].failed => \A q \in Owed(x)' : InTable(x, q)'
    BY <1>2, <1>4, <2>1, <2>2, <2>3
  <2>5. \A q \in PieceNames :
           /\ sync'[x].listed[q] <= latest'[q]
           /\ sync'[x].got[q] # 0 => q \in sync'[x].todo /\ sync'[x].listed[q] <= sync'[x].got[q]
    BY <1>1, <1>2, <2>1
  <2> QED BY <2>1, <2>4, <2>5 DEF Kept
<1>10. CASE SyncAborts(x)
  <2>1. /\ sync'[x].pc = "aborted" /\ latest' = latest
        /\ \A p \in PieceNames : sync'[x].listed[p] = 0 /\ sync'[x].got[p] = 0
    BY <1>1, <1>10 DEF SyncAborts, IdleSync
  <2> QED BY <1>1, <2>1 DEF Kept
<1>11. CASE Done(x)
  <2>1. /\ sync'[x].pc = "done" /\ sync[x].pc = "work" /\ sync'[x].listed = sync[x].listed
        /\ sync'[x].failed = sync[x].failed /\ sync'[x].mode = sync[x].mode /\ latest' = latest
        /\ sync'[x].todo = {} /\ sync[x].todo = {} /\ sync'[x].got = sync[x].got
    BY <1>1, <1>11 DEF Done, SyncRun
  <2>2. Owed(x)' = Owed(x)
    BY <1>4, <2>1 DEF Owed
  <2> QED BY <1>2, <1>4, <2>1, <2>2 DEF Kept
<1>12. (\E mode \in Modes : List(x, mode)) => Kept(x)'
  BY <1>5
<1>13. (\E p \in PieceNames : \/ FetchSchema(x, p) \/ FetchSchemaFails(x, p)
                              \/ SchemaUnusable(x, p) \/ Upsert(x, p)) => Kept(x)'
  BY <1>7, <1>8, <1>9
<1> QED BY <1>6, <1>10, <1>11, <1>12, <1>13, Zenon DEF SyncStep

\* It holds to begin with, and every step keeps it.
LEMMA VaultInitInv == VaultInit => VaultInv
<1> SUFFICES ASSUME VaultInit PROVE VaultInv OBVIOUS
<1>1. \A x \in Syncs : /\ sync[x].pc = "start"
                       /\ \A p \in PieceNames : sync[x].listed[p] = 0 /\ sync[x].got[p] = 0
  BY DEF VaultInit, IdleSync
<1>2. \A p \in PieceNames : latest[p] = 1
  BY DEF VaultInit
<1>3. \A x \in Syncs : Kept(x)
  BY <1>1, <1>2 DEF Kept
<1> QED BY <1>3, VaultInitType, VaultInvByRun

LEMMA VaultNextInv == VaultInv /\ [VaultNext]_vaultVars => VaultInv'
<1> SUFFICES ASSUME VaultInv, [VaultNext]_vaultVars PROVE VaultInv' OBVIOUS
<1>1. VaultTypeOK /\ VaultTypeOK' /\ \A x \in Syncs : Kept(x)
  BY VaultNextType, VaultInvByRun
<1>2. ASSUME NEW x \in Syncs PROVE Kept(x)'
  <2>1. CASE SyncStep(x)
    BY <1>1, <2>1, MoverKept
  <2>2. CASE ~SyncStep(x)
    BY <1>1, <2>2, WorldWaits, OneSyncMoves, StillKept
  <2> QED BY <2>1, <2>2
<1> QED BY <1>1, <1>2 DEF VaultInv, FetchedIsNoOlder, WorkedIsVaulted, Kept, Owed

\* PieceVault.ZeroMeansVaulted: a run of sync_pieces.py that returns 0 has left in the
\* table every piece it listed, at the listed version or later, whatever other runs
\* and the scoring script did beside it and in whatever order it fetched.
THEOREM ZeroIsVaulted == VaultSpec => []ZeroMeansVaulted
<1>1. VaultInv => ZeroMeansVaulted
  <2> SUFFICES ASSUME VaultInv, NEW x \in Syncs, sync[x].pc = "done", ~sync[x].failed,
                      sync[x].mode # "dry", NEW p \in Targets(x)
               PROVE  InTable(x, p)
    BY DEF ZeroMeansVaulted, InTable
  <2> QED BY DEF VaultInv, WorkedIsVaulted
<1> QED BY <1>1, VaultInitInv, VaultNextInv, PTL DEF VaultSpec
=============================================================================
