------------------------- MODULE ProjectMemoryProofs ------------------------
(***************************************************************************)
(* Theorems about ProjectMemory, for any number of requests that write the *)
(* memory of one project at once.                                          *)
(***************************************************************************)
EXTENDS ProjectMemory, TLAPS

Creating(r) == req[r].pc \in InTransaction /\ req[r].creates

\* While the project is missing nothing else is there, whoever is in a transaction
\* is about to make it, and has found no identity.
Missing ==
    project = "none" =>
        /\ DOMAIN identity = {}
        /\ \A r \in Submissions :
              /\ req[r].pc \in InTransaction => req[r].creates
              /\ req[r].pc \in {"knowledge", "commit"} => req[r].identity = {}

\* The UNIQUE constraint: one request makes the project, and only while it is missing.
OneCreator ==
    \A r \in Submissions : Creating(r) =>
        project = "none" /\ \A o \in Submissions : Creating(o) => o = r

\* A project made here has one identity, and it is what the others have found.
OneIdentity ==
    project = "made" =>
        \E i \in Submissions :
            /\ DOMAIN identity = {i}
            /\ \A r \in Submissions : req[r].pc \in {"knowledge", "commit"} => req[r].identity = {i}

\* Settings are configured after the memory has been committed.
SettingsLast ==
    \A r \in Submissions : req[r].pc \in {"settings", "configure"} => DOMAIN identity # {}

IInv ==
    /\ MemoryTypeOK
    /\ Missing
    /\ OneCreator
    /\ OneIdentity
    /\ SettingsLast
    /\ MemoryIsWhole

-----------------------------------------------------------------------------
(* Tables.                                                                 *)

\* A request writes to a row it has found, or to its own.
LEMMA TargetType ==
    ASSUME NEW found \in SUBSET Submissions, NEW r \in Submissions
    PROVE  Target(found, r) \in Submissions /\ (found # {} => Target(found, r) \in found)
BY DEF Target

\* Put adds the row, or columns to it, and takes nothing away.
LEMMA PutGrows ==
    ASSUME NEW columns, NEW table \in Table(columns), NEW k \in Submissions,
           NEW said \in SUBSET columns
    PROVE  /\ Put(table, k, said) \in Table(columns)
           /\ DOMAIN Put(table, k, said) = DOMAIN table \cup {k}
           /\ \A o \in DOMAIN table : table[o] \subseteq Put(table, k, said)[o]
<1>1. DOMAIN table \subseteq Submissions /\ table \in [DOMAIN table -> SUBSET columns]
  BY DEF Table
<1>2. DOMAIN Put(table, k, said) = DOMAIN table \cup {k}
  BY DEF Put
<1>3. \A o \in DOMAIN table : table[o] \subseteq Put(table, k, said)[o]
  BY <1>1 DEF Put, Learnt
<1>4. Put(table, k, said) \in [DOMAIN table \cup {k} -> SUBSET columns]
  BY <1>1 DEF Put, Learnt
<1>5. DOMAIN table \cup {k} \in SUBSET Submissions
  BY <1>1
<1> QED BY <1>2, <1>3, <1>4, <1>5 DEF Table

\* What a commit does to the two tables.
LEMMA CommitWrites ==
    ASSUME MemoryTypeOK, NEW r \in Submissions, Commit(r)
    PROVE  /\ identity' \in Table(IdentityColumns)
           /\ DOMAIN identity' = DOMAIN identity \cup {Target(req[r].identity, r)}
           /\ \A o \in DOMAIN identity : identity[o] \subseteq identity'[o]
           /\ knowledge' \in Table(KnowledgeColumns)
           /\ DOMAIN knowledge \subseteq DOMAIN knowledge'
           /\ \A o \in DOMAIN knowledge : knowledge[o] \subseteq knowledge'[o]
<1> DEFINE i == Target(req[r].identity, r)
           k == Target(req[r].knowledge, r)
<1>1. i \in Submissions /\ k \in Submissions
  BY TargetType DEF MemoryTypeOK, Request
<1>2. /\ Says(r, IdentityColumns) \in SUBSET IdentityColumns
      /\ Says(r, KnowledgeColumns) \in SUBSET KnowledgeColumns
  BY DEF Says
<1>3. identity \in Table(IdentityColumns) /\ knowledge \in Table(KnowledgeColumns)
  BY DEF MemoryTypeOK
<1>4. identity' = Put(identity, i, Says(r, IdentityColumns))
  BY DEF Commit
<1>5. knowledge' = knowledge \/ knowledge' = Put(knowledge, k, Says(r, KnowledgeColumns))
  BY DEF Commit
<1> HIDE DEF i, k
<1>6. /\ identity' \in Table(IdentityColumns) /\ DOMAIN identity' = DOMAIN identity \cup {i}
      /\ \A o \in DOMAIN identity : identity[o] \subseteq identity'[o]
  <2>1. ASSUME NEW said \in SUBSET IdentityColumns
        PROVE  /\ Put(identity, i, said) \in Table(IdentityColumns)
               /\ DOMAIN Put(identity, i, said) = DOMAIN identity \cup {i}
               /\ \A o \in DOMAIN identity : identity[o] \subseteq Put(identity, i, said)[o]
    BY <1>1, <1>3, PutGrows
  <2> QED BY <1>2, <1>4, <2>1
<1>7. /\ knowledge' \in Table(KnowledgeColumns) /\ DOMAIN knowledge \subseteq DOMAIN knowledge'
      /\ \A o \in DOMAIN knowledge : knowledge[o] \subseteq knowledge'[o]
  <2>1. CASE knowledge' = knowledge
    BY <1>3, <2>1
  <2>2. CASE knowledge' = Put(knowledge, k, Says(r, KnowledgeColumns))
    <3>1. ASSUME NEW said \in SUBSET KnowledgeColumns
          PROVE  /\ Put(knowledge, k, said) \in Table(KnowledgeColumns)
                 /\ DOMAIN Put(knowledge, k, said) = DOMAIN knowledge \cup {k}
                 /\ \A o \in DOMAIN knowledge : knowledge[o] \subseteq Put(knowledge, k, said)[o]
      BY <1>1, <1>3, PutGrows
    <3> QED BY <1>2, <2>2, <3>1
  <2> QED BY <1>5, <2>1, <2>2
<1> QED BY <1>6, <1>7 DEF i

-----------------------------------------------------------------------------
(* Types.                                                                  *)

\* The initial values have their types.
LEMMA InitType == MemoryInit => MemoryTypeOK
<1> SUFFICES ASSUME MemoryInit PROVE MemoryTypeOK OBVIOUS
<1>1. IdleRequest \in Request
  BY DEF IdleRequest, Request, Kinds
<1>2. \A columns : Empty \in Table(columns)
  <2> SUFFICES ASSUME NEW columns PROVE Empty \in Table(columns) OBVIOUS
  <2>1. Empty \in [{} -> SUBSET columns]
    BY DEF Empty
  <2> QED BY <2>1 DEF Table
<1> QED BY <1>1, <1>2 DEF MemoryInit, MemoryTypeOK

\* Every step keeps the types.
LEMMA NextType == MemoryTypeOK /\ [MemoryNext]_memoryVars => MemoryTypeOK'
<1> SUFFICES ASSUME MemoryTypeOK, [MemoryNext]_memoryVars PROVE MemoryTypeOK' OBVIOUS
<1>1. CASE UNCHANGED memoryVars
  BY <1>1 DEF memoryVars, tables, MemoryTypeOK
<1>2. ASSUME NEW r \in Submissions, Step(r) PROVE MemoryTypeOK'
  <2>1. req[r] \in Request
    BY DEF MemoryTypeOK
  <2>2. ASSUME NEW d \in Request, req' = [req EXCEPT ![r] = d], UNCHANGED tables PROVE MemoryTypeOK'
    BY <2>2 DEF MemoryTypeOK, tables
  <2>3. ASSUME NEW pc \in {"analyze", "project", "commit", "settings", "done", "failed"}
        PROVE  [req[r] EXCEPT !.pc = pc] \in Request
    BY <2>1 DEF Request
  <2>4. ASSUME NEW kind \in Kinds, Start(r, kind) PROVE MemoryTypeOK'
    <3>1. PICK says \in SUBSET (IdentityColumns \cup KnowledgeColumns),
               pc \in {"project", "scrape"} :
             req' = [req EXCEPT ![r].kind = kind, ![r].says = says, ![r].pc = pc]
      BY <2>4 DEF Start
    <3>2. [req[r] EXCEPT !.kind = kind, !.says = says, !.pc = pc] \in Request
      BY <2>1 DEF Request
    <3>3. req' \in [Submissions -> Request]
      BY <3>1, <3>2 DEF MemoryTypeOK
    <3> QED BY <2>4, <3>3 DEF Start, MemoryTypeOK, tables
  <2>5. CASE \/ Scrape(r) \/ Analyze(r) \/ AbsorbFails(r)
             \/ ProjectTaken(r) \/ TooManyRows(r) \/ Fail(r)
    <3>1. UNCHANGED tables /\ \E pc \in {"analyze", "project", "done", "failed"} : To(r, pc)
      BY <2>5 DEF Scrape, Analyze, AbsorbFails, ProjectTaken, TooManyRows, Fail
    <3>2. PICK pc \in {"analyze", "project", "done", "failed"} :
             req' = [req EXCEPT ![r] = [req[r] EXCEPT !.pc = pc]]
      BY <3>1 DEF To
    <3> QED BY <2>2, <2>3, <3>1, <3>2
  <2>6. CASE ReadProject(r)
    <3>1. [req[r] EXCEPT !.creates = (project = "none"), !.pc = "identity"] \in Request
      BY <2>1 DEF Request
    <3> QED BY <2>2, <2>6, <3>1 DEF ReadProject
  <2>7. DOMAIN identity \subseteq Submissions /\ DOMAIN knowledge \subseteq Submissions
        /\ DOMAIN settings \subseteq Submissions
    BY DEF MemoryTypeOK, Table
  <2>8. CASE ReadIdentity(r)
    <3>1. [req[r] EXCEPT !.identity = DOMAIN identity, !.pc = AfterIdentity(r)] \in Request
      BY <2>1, <2>7 DEF Request, AfterIdentity
    <3> QED BY <2>2, <2>8, <3>1 DEF ReadIdentity
  <2>9. CASE ReadKnowledge(r)
    <3>1. [req[r] EXCEPT !.knowledge = DOMAIN knowledge, !.pc = "commit"] \in Request
      BY <2>1, <2>7 DEF Request
    <3> QED BY <2>2, <2>9, <3>1 DEF ReadKnowledge
  <2>10. CASE ReadSettings(r)
    <3>1. [req[r] EXCEPT !.settings = DOMAIN settings, !.pc = "configure"] \in Request
      BY <2>1, <2>7 DEF Request
    <3> QED BY <2>2, <2>10, <3>1 DEF ReadSettings
  <2>11. /\ Target(req[r].identity, r) \in Submissions
         /\ Target(req[r].knowledge, r) \in Submissions
         /\ Target(req[r].settings, r) \in Submissions
    BY <2>1, TargetType DEF Request
  <2>12. CASE Commit(r)
    <3>1. req' \in [Submissions -> Request]
      BY <2>3, <2>12 DEF Commit, To, MemoryTypeOK
    <3> QED BY <2>12, <3>1, CommitWrites DEF Commit, MakesProject, MemoryTypeOK
  <2>13. CASE Configure(r)
    <3>1. settings' \in Table(SettingsColumns)
      BY <2>11, <2>13, PutGrows DEF Configure, MemoryTypeOK
    <3>2. req' \in [Submissions -> Request]
      BY <2>3, <2>13 DEF Configure, To, MemoryTypeOK
    <3> QED BY <2>13, <3>1, <3>2 DEF Configure, MemoryTypeOK
  <2> QED BY <1>2, <2>4, <2>5, <2>6, <2>8, <2>9, <2>10, <2>12, <2>13 DEF Step
<1> QED BY <1>1, <1>2 DEF MemoryNext

-----------------------------------------------------------------------------
(* The invariant.                                                          *)

\* It holds to begin with.
LEMMA InitInv == MemoryInit => IInv
<1> SUFFICES ASSUME MemoryInit PROVE IInv OBVIOUS
<1>1. MemoryTypeOK
  BY InitType
<1>2. /\ DOMAIN identity = {} /\ DOMAIN knowledge = {} /\ DOMAIN settings = {}
      /\ project \in {"none", "seeded"} /\ \A r \in Submissions : req[r].pc = "idle"
  BY DEF MemoryInit, Empty, IdleRequest
<1> QED BY <1>1, <1>2 DEF IInv, Missing, OneCreator, Creating, InTransaction, OneIdentity,
                          SettingsLast, MemoryIsWhole

\* A request that writes nothing keeps it.
LEMMA ReadKeeps ==
    ASSUME IInv, NEW r \in Submissions, UNCHANGED tables,
           \/ \E kind \in Kinds : Start(r, kind)
           \/ Scrape(r) \/ Analyze(r) \/ AbsorbFails(r) \/ ReadProject(r) \/ ProjectTaken(r)
           \/ ReadIdentity(r) \/ ReadKnowledge(r) \/ TooManyRows(r) \/ Fail(r) \/ ReadSettings(r)
    PROVE  (Missing /\ OneCreator /\ OneIdentity /\ SettingsLast /\ MemoryIsWhole)'
<1> USE DEF IInv
<1>0. req[r] \in Request /\ req \in [Submissions -> Request]
  BY DEF MemoryTypeOK
<1>1. /\ UNCHANGED <<project, identity, knowledge, settings>>
      /\ \A o \in Submissions : o # r => req'[o] = req[o]
  BY <1>0 DEF tables, Start, Scrape, Analyze, AbsorbFails, ReadProject, ProjectTaken,
              ReadIdentity, ReadKnowledge, TooManyRows, Fail, ReadSettings, To
<1>2. MemoryIsWhole'
  BY <1>1 DEF MemoryIsWhole
<1>3. ASSUME req'[r].pc \notin InTransaction \cup {"settings", "configure"}
      PROVE  (Missing /\ OneCreator /\ OneIdentity /\ SettingsLast)'
  BY <1>1, <1>3 DEF Missing, OneCreator, Creating, InTransaction, OneIdentity, SettingsLast
<1>4. CASE \/ \E kind \in Kinds : Start(r, kind)
           \/ Scrape(r) \/ Analyze(r) \/ AbsorbFails(r)
           \/ ProjectTaken(r) \/ TooManyRows(r) \/ Fail(r)
  <2>1. ASSUME NEW kind \in Kinds, Start(r, kind) PROVE req'[r].pc \in {"project", "scrape"}
    <3>1. PICK says \in SUBSET (IdentityColumns \cup KnowledgeColumns),
               pc \in {"project", "scrape"} :
             req' = [req EXCEPT ![r].kind = kind, ![r].says = says, ![r].pc = pc]
      BY <2>1 DEF Start
    <3> QED BY <1>0, <3>1 DEF Request
  <2>2. ASSUME NEW pc, To(r, pc) PROVE req'[r].pc = pc
    BY <1>0, <2>2 DEF To, Request
  <2>3. req'[r].pc \in {"project", "scrape", "analyze", "done", "failed"}
    BY <1>4, <2>1, <2>2 DEF Scrape, Analyze, AbsorbFails, ProjectTaken, TooManyRows, Fail
  <2> QED BY <1>2, <1>3, <2>3 DEF InTransaction
<1>5. CASE ReadProject(r)
  <2>1. req'[r].pc = "identity" /\ req'[r].creates = (project = "none")
    BY <1>0, <1>5 DEF ReadProject, Request
  <2>2. project = "none" => \A o \in Submissions : ~Creating(o)
    BY <1>5 DEF ReadProject, Creating
  <2>3. OneCreator'
    <3>1. \A o \in Submissions : o # r => (Creating(o)' <=> Creating(o))
      BY <1>1 DEF Creating
    <3>2. Creating(r)' => project = "none"
      BY <2>1 DEF Creating
    <3> QED BY <1>1, <2>2, <3>1, <3>2 DEF OneCreator
  <2>4. Missing' /\ OneIdentity' /\ SettingsLast'
    BY <1>1, <2>1 DEF Missing, InTransaction, OneIdentity, SettingsLast
  <2> QED BY <1>2, <2>3, <2>4
<1>6. CASE ReadIdentity(r)
  <2>1. /\ req[r].pc = "identity" /\ req'[r].pc \in {"knowledge", "commit"}
        /\ req'[r].creates = req[r].creates /\ req'[r].identity = DOMAIN identity
    BY <1>0, <1>6 DEF ReadIdentity, AfterIdentity, Request
  <2>2. OneCreator'
    <3>1. \A o \in Submissions : Creating(o)' <=> Creating(o)
      BY <1>1, <2>1 DEF Creating, InTransaction
    <3>2. ASSUME NEW a \in Submissions, Creating(a)'
          PROVE  project' = "none" /\ \A o \in Submissions : Creating(o)' => o = a
      BY <1>1, <3>1, <3>2 DEF OneCreator
    <3> QED BY <3>2 DEF OneCreator
  <2>3. Missing'
    BY <1>1, <2>1 DEF Missing, InTransaction
  <2>4. OneIdentity'
    BY <1>1, <2>1 DEF OneIdentity, InTransaction
  <2>5. SettingsLast'
    BY <1>1, <2>1 DEF SettingsLast
  <2> QED BY <1>2, <2>2, <2>3, <2>4, <2>5
<1>7. CASE ReadKnowledge(r)
  <2>1. /\ req[r].pc = "knowledge" /\ req'[r].pc = "commit"
        /\ req'[r].creates = req[r].creates /\ req'[r].identity = req[r].identity
    BY <1>0, <1>7 DEF ReadKnowledge, Request
  <2>2. OneCreator'
    <3>1. \A o \in Submissions : Creating(o)' <=> Creating(o)
      BY <1>1, <2>1 DEF Creating, InTransaction
    <3>2. ASSUME NEW a \in Submissions, Creating(a)'
          PROVE  project' = "none" /\ \A o \in Submissions : Creating(o)' => o = a
      BY <1>1, <3>1, <3>2 DEF OneCreator
    <3> QED BY <3>2 DEF OneCreator
  <2>3. Missing'
    BY <1>1, <2>1 DEF Missing, InTransaction
  <2>4. OneIdentity'
    BY <1>1, <2>1 DEF OneIdentity, InTransaction
  <2>5. SettingsLast'
    BY <1>1, <2>1 DEF SettingsLast
  <2> QED BY <1>2, <2>2, <2>3, <2>4, <2>5
<1>8. CASE ReadSettings(r)
  <2>1. req[r].pc = "settings" /\ req'[r].pc = "configure"
    BY <1>0, <1>8 DEF ReadSettings, Request
  <2> QED BY <1>1, <1>2, <2>1
          DEF Missing, OneCreator, Creating, InTransaction, OneIdentity, SettingsLast
<1> QED BY <1>4, <1>5, <1>6, <1>7, <1>8

\* A commit keeps it: the creator inserts the only identity, and everybody else
\* writes to the one it has found.
LEMMA CommitKeeps ==
    ASSUME IInv, NEW r \in Submissions, Commit(r)
    PROVE  (Missing /\ OneCreator /\ OneIdentity /\ SettingsLast /\ MemoryIsWhole)'
<1> USE DEF IInv
<1> DEFINE i == Target(req[r].identity, r)
<1>0. req[r] \in Request /\ req \in [Submissions -> Request] /\ req[r].pc = "commit"
  BY DEF MemoryTypeOK, Commit
<1>1. i \in Submissions /\ (req[r].identity # {} => i \in req[r].identity)
  BY <1>0, TargetType DEF Request
<1>2. DOMAIN identity' = DOMAIN identity \cup {i}
  BY CommitWrites
<1> HIDE DEF i
<1>3. /\ settings' = settings /\ project' = IF req[r].creates THEN "made" ELSE project
      /\ \A o \in Submissions : o # r => req'[o] = req[o]
      /\ req'[r].pc \in {"settings", "done"}
  BY <1>0 DEF Commit, MakesProject, To, Request
<1>4. project' # "none"
  BY <1>0, <1>3 DEF Missing, InTransaction
<1>5. SettingsLast' /\ MemoryIsWhole' /\ Missing'
  BY <1>2, <1>3, <1>4 DEF SettingsLast, MemoryIsWhole, Missing
<1>6. OneCreator'
  <2>1. \A o \in Submissions : o # r => ~Creating(o)
    BY <1>0 DEF Missing, OneCreator, Creating, InTransaction
  <2> QED BY <1>3, <2>1 DEF OneCreator, Creating, InTransaction
<1>7. OneIdentity'
  <2>1. CASE req[r].creates
    <3>1. project = "none" /\ \A o \in Submissions : o # r => ~Creating(o)
      BY <1>0, <2>1 DEF OneCreator, Creating, InTransaction
    <3>2. \A o \in Submissions : o # r => req[o].pc \notin InTransaction
      BY <3>1 DEF Missing, Creating
    <3>3. DOMAIN identity' = {i}
      BY <1>2, <3>1 DEF Missing
    <3> QED BY <1>1, <1>3, <3>2, <3>3 DEF OneIdentity, InTransaction
  <2>2. CASE ~req[r].creates /\ project = "made"
    <3>1. PICK j \in Submissions :
             /\ DOMAIN identity = {j}
             /\ \A o \in Submissions :
                   req[o].pc \in {"knowledge", "commit"} => req[o].identity = {j}
      BY <2>2 DEF OneIdentity
    <3>2. i = j
      BY <1>0, <1>1, <3>1
    <3> QED BY <1>2, <1>3, <3>1, <3>2 DEF OneIdentity
  <2>3. CASE ~req[r].creates /\ project # "made"
    BY <1>3, <2>3 DEF OneIdentity
  <2> QED BY <2>1, <2>2, <2>3
<1> QED BY <1>5, <1>6, <1>7

\* Configuring the settings keeps it.
LEMMA ConfigureKeeps ==
    ASSUME IInv, NEW r \in Submissions, Configure(r)
    PROVE  (Missing /\ OneCreator /\ OneIdentity /\ SettingsLast /\ MemoryIsWhole)'
<1> USE DEF IInv
<1>1. /\ UNCHANGED <<project, identity, knowledge>>
      /\ \A o \in Submissions : o # r => req'[o] = req[o]
      /\ req[r].pc = "configure" /\ req'[r].pc = "done"
  BY DEF Configure, To, MemoryTypeOK, Request
<1>2. DOMAIN identity # {}
  BY <1>1 DEF SettingsLast
<1> QED BY <1>1, <1>2 DEF Missing, OneCreator, Creating, InTransaction, OneIdentity,
                          SettingsLast, MemoryIsWhole

\* Every step keeps it.
LEMMA NextInv == IInv /\ [MemoryNext]_memoryVars => IInv'
<1> SUFFICES ASSUME IInv, [MemoryNext]_memoryVars PROVE IInv' OBVIOUS
<1>1. MemoryTypeOK'
  BY NextType DEF IInv
<1>2. CASE UNCHANGED memoryVars
  BY <1>1, <1>2 DEF memoryVars, tables, IInv, Missing, OneCreator, Creating, OneIdentity,
                    SettingsLast, MemoryIsWhole
<1>3. ASSUME NEW r \in Submissions, Step(r) PROVE IInv'
  <2>1. CASE Commit(r) \/ Configure(r)
    BY <1>1, <2>1, CommitKeeps, ConfigureKeeps DEF IInv
  <2>2. CASE ~Commit(r) /\ ~Configure(r)
    <3>1. UNCHANGED tables
      BY <1>3, <2>2 DEF Step, Start, Scrape, Analyze, AbsorbFails, ReadProject, ProjectTaken,
            ReadIdentity, ReadKnowledge, TooManyRows, Fail, ReadSettings
    <3> QED BY <1>1, <1>3, <2>2, <3>1, ReadKeeps DEF Step, IInv
  <2> QED BY <2>1, <2>2
<1> QED BY <1>2, <1>3 DEF MemoryNext

\* It is an invariant of the specification.
LEMMA SpecInv == MemorySpec => []IInv
BY InitInv, NextInv, PTL DEF MemorySpec

\* ProjectMemory.BornWithIdentity: however many first requests overlap, a project
\* made by the memory layer has exactly one identity.
THEOREM MadeWithOneIdentity == MemorySpec => []BornWithIdentity
<1>1. IInv => BornWithIdentity
  BY DEF IInv, OneIdentity, BornWithIdentity
<1> QED BY <1>1, SpecInv, PTL

\* ProjectMemory.MemoryIsWhole: two transactions per request, and no order or
\* failure of them leaves knowledge or settings without an identity.
THEOREM MemoryStaysWhole == MemorySpec => []MemoryIsWhole
BY SpecInv, PTL DEF IInv

-----------------------------------------------------------------------------
(* What has been learnt stays.                                             *)

\* The tables only grow, row by row and column by column.
LEMMA TablesGrow ==
    ASSUME MemoryTypeOK, [MemoryNext]_memoryVars
    PROVE  /\ project # "none" => project' # "none"
           /\ DOMAIN identity \subseteq DOMAIN identity'
           /\ \A o \in DOMAIN identity : identity[o] \subseteq identity'[o]
           /\ DOMAIN knowledge \subseteq DOMAIN knowledge'
           /\ \A o \in DOMAIN knowledge : knowledge[o] \subseteq knowledge'[o]
<1>1. ASSUME NEW r \in Submissions, Commit(r)
      PROVE  /\ project # "none" => project' # "none"
             /\ DOMAIN identity \subseteq DOMAIN identity'
             /\ \A o \in DOMAIN identity : identity[o] \subseteq identity'[o]
             /\ DOMAIN knowledge \subseteq DOMAIN knowledge'
             /\ \A o \in DOMAIN knowledge : knowledge[o] \subseteq knowledge'[o]
  <2>1. project # "none" => project' # "none"
    BY <1>1 DEF Commit, MakesProject
  <2> QED BY <1>1, <2>1, CommitWrites
<1>2. ASSUME NEW r \in Submissions, Step(r), ~Commit(r)
      PROVE  UNCHANGED <<project, identity, knowledge>>
  BY <1>2 DEF Step, Start, Scrape, Analyze, AbsorbFails, ReadProject, ProjectTaken,
            ReadIdentity, ReadKnowledge, TooManyRows, Fail, ReadSettings, Configure, tables
<1> QED BY <1>1, <1>2 DEF MemoryNext, memoryVars, tables

\* ProjectMemory.CompleteStays: a memory that v2_project_hint calls complete is not
\* called incomplete afterwards, whatever requests overlap.
THEOREM CompleteIsKept == MemorySpec => CompleteStays
<1>1. ASSUME MemoryTypeOK, MemoryTypeOK', [MemoryNext]_memoryVars,
             HintStatus = "complete"
      PROVE  HintStatus' # "incomplete"
  <2>1. /\ project # "none"
        /\ Full(identity, IdentityColumns) /\ Full(knowledge, KnowledgeColumns)
    BY <1>1 DEF HintStatus
  <2>2. project' # "none"
    BY <1>1, <2>1, TablesGrow
  <2>3. ASSUME ~Ambiguous(identity)' PROVE Full(identity, IdentityColumns)'
    <3>1. PICK i \in Submissions : DOMAIN identity = {i} /\ identity[i] = IdentityColumns
      BY <2>1 DEF Full
    <3>2. DOMAIN identity' = {i}
      BY <1>1, <2>3, <3>1, TablesGrow DEF Ambiguous
    <3>3. IdentityColumns \subseteq identity'[i]
      BY <1>1, <3>1, TablesGrow
    <3>4. identity'[i] \subseteq IdentityColumns
      BY <1>1, <3>2 DEF MemoryTypeOK, Table
    <3> QED BY <3>2, <3>3, <3>4 DEF Full
  <2>4. ASSUME ~Ambiguous(knowledge)' PROVE Full(knowledge, KnowledgeColumns)'
    <3>1. PICK i \in Submissions : DOMAIN knowledge = {i} /\ knowledge[i] = KnowledgeColumns
      BY <2>1 DEF Full
    <3>2. DOMAIN knowledge' = {i}
      BY <1>1, <2>4, <3>1, TablesGrow DEF Ambiguous
    <3>3. KnowledgeColumns \subseteq knowledge'[i]
      BY <1>1, <3>1, TablesGrow
    <3>4. knowledge'[i] \subseteq KnowledgeColumns
      BY <1>1, <3>2 DEF MemoryTypeOK, Table
    <3> QED BY <3>2, <3>3, <3>4 DEF Full
  <2> QED BY <2>2, <2>3, <2>4 DEF HintStatus
<1>2. MemoryTypeOK /\ MemoryTypeOK' /\ [MemoryNext]_memoryVars =>
         [HintStatus = "complete" => HintStatus' # "incomplete"]_memoryVars
  BY <1>1
<1>3. MemorySpec => []MemoryTypeOK
  BY InitType, NextType, PTL DEF MemorySpec
<1> QED BY <1>2, <1>3, PTL DEF MemorySpec, CompleteStays
=============================================================================
