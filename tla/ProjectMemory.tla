--------------------------- MODULE ProjectMemory ----------------------------
(***************************************************************************)
(* The memory of one project: the tables projects, project_identities,     *)
(* knowledge_assets and autonomous_settings, written by                    *)
(*   register   POST /v2/project/register                                  *)
(*   ingest     POST /v2/identity/ingest and the MCP tool ingest_website   *)
(*   onboard    POST /v2/saas/register, persist then auto-configure        *)
(* Every statement filters on one project_id, and only projects.project_id *)
(* is UNIQUE.  The transactions run under READ COMMITTED: each SELECT sees *)
(* what is committed when it runs, and a row that is found is updated in   *)
(* the columns that change.                                                *)
(*                                                                         *)
(* A table is a function from its rows to the columns that are set.  A row *)
(* is named by the request that inserted it; what a request says of the    *)
(* business is abstracted to whether it says it, column by column.         *)
(***************************************************************************)

CONSTANT Submissions  \* requests that write the memory of the project

VARIABLES
    project,    \* the row of projects: "none", made by a request, by the script
    identity,   \* project_identities
    knowledge,  \* knowledge_assets
    settings,   \* autonomous_settings
    req         \* the requests, with the rows they found

tables == <<project, identity, knowledge, settings>>
memoryVars == <<tables, req>>

Kinds == {"register", "ingest", "onboard"}
IdentityColumns == {"sector", "website_url"}
KnowledgeColumns == {"faqs"}
SettingsColumns == {"auto_respond"}

Table(columns) == UNION {[rows -> SUBSET columns] : rows \in SUBSET Submissions}
Request == [pc: {"idle", "scrape", "analyze", "project", "identity", "knowledge",
                 "commit", "settings", "configure", "done", "failed"},
            kind: Kinds, says: SUBSET (IdentityColumns \cup KnowledgeColumns),
            creates: BOOLEAN, identity: SUBSET Submissions,
            knowledge: SUBSET Submissions, settings: SUBSET Submissions]

MemoryTypeOK ==
    /\ project \in {"none", "seeded", "made"}
    /\ identity \in Table(IdentityColumns)
    /\ knowledge \in Table(KnowledgeColumns)
    /\ settings \in Table(SettingsColumns)
    /\ req \in [Submissions -> Request]

To(r, pc) == req' = [req EXCEPT ![r].pc = pc]

\* scalar_one_or_none() raises MultipleResultsFound.
Ambiguous(table) == \E r, o \in DOMAIN table : r # o

InTransaction == {"identity", "knowledge", "commit"}

-----------------------------------------------------------------------------
(* What comes before the transaction: nothing is written.                  *)

\* A preview ends after its analysis, and /v2/saas/register may bring its own.
Start(r, kind) ==
    /\ req[r].pc = "idle"
    /\ \E says \in SUBSET (IdentityColumns \cup KnowledgeColumns), given \in BOOLEAN :
          /\ kind = "register" => says \subseteq IdentityColumns
          /\ kind # "register" => "website_url" \in says
          /\ given => kind = "onboard"
          /\ req' = [req EXCEPT ![r].kind = kind, ![r].says = says,
                       ![r].pc = IF kind = "register" \/ given THEN "project" ELSE "scrape"]
    /\ UNCHANGED tables

\* The home page, then the about page if there is one.
Scrape(r) == req[r].pc = "scrape" /\ To(r, "analyze") /\ UNCHANGED tables

Analyze(r) ==
    /\ req[r].pc = "analyze"
    /\ \/ To(r, "project")
       \/ To(r, "done") /\ req[r].kind = "ingest"
    /\ UNCHANGED tables

\* Firecrawl or Claude refuses, or nothing readable comes back.
AbsorbFails(r) == req[r].pc \in {"scrape", "analyze"} /\ To(r, "failed") /\ UNCHANGED tables

-----------------------------------------------------------------------------
(* persist_analysis and v2_project_register: one transaction.              *)

\* Faulty variant: without the UNIQUE constraint nobody waits.
ReadProjectFreely(r) ==
    /\ req[r].pc = "project"
    /\ req' = [req EXCEPT ![r].creates = (project = "none"), ![r].pc = "identity"]
    /\ UNCHANGED tables

\* The row is inserted and flushed when it is missing.  While another request
\* holds the same uncommitted project_id, this one waits for its end.
ReadProject(r) ==
    /\ req[r].pc = "project"
    /\ project = "none" =>
          ~ \E o \in Submissions : req[o].creates /\ req[o].pc \in InTransaction
    /\ req' = [req EXCEPT ![r].creates = (project = "none"), ![r].pc = "identity"]
    /\ UNCHANGED tables

\* It had read that the project is missing before the other one committed.
ProjectTaken(r) ==
    /\ req[r].pc = "project" /\ project # "none"
    /\ To(r, "failed")
    /\ UNCHANGED tables

AfterIdentity(r) == IF req[r].kind = "register" THEN "commit" ELSE "knowledge"

ReadIdentity(r) ==
    /\ req[r].pc = "identity"
    /\ ~Ambiguous(identity)
    /\ req' = [req EXCEPT ![r].identity = DOMAIN identity, ![r].pc = AfterIdentity(r)]
    /\ UNCHANGED tables

ReadKnowledge(r) ==
    /\ req[r].pc = "knowledge"
    /\ ~Ambiguous(knowledge)
    /\ req' = [req EXCEPT ![r].knowledge = DOMAIN knowledge, ![r].pc = "commit"]
    /\ UNCHANGED tables

\* Two rows where the code expects one: the transaction is rolled back.
TooManyRows(r) ==
    /\ \/ req[r].pc = "identity" /\ Ambiguous(identity)
       \/ req[r].pc = "knowledge" /\ Ambiguous(knowledge)
       \/ req[r].pc = "settings" /\ Ambiguous(settings)
    /\ To(r, "failed")
    /\ UNCHANGED tables

\* The row a request writes to: the one it found, else its own.
Target(found, r) == IF found = {} THEN r ELSE CHOOSE o \in found : TRUE

\* Faulty variant: a column the analysis does not give is cleared.
Cleared(row, said) == said

\* new or old, column by column.
Learnt(row, said) == row \cup said

Put(table, k, said) ==
    [o \in DOMAIN table \cup {k} |->
        CASE o # k -> table[o]
          [] o = k /\ k \in DOMAIN table -> Learnt(table[k], said)
          [] o = k /\ k \notin DOMAIN table -> said]

\* What request r says of one table.
Says(r, columns) == req[r].says \cap columns

MakesProject(r) == IF req[r].creates THEN "made" ELSE project

\* Faulty variant: identity and knowledge are committed one after the other.
CommitKnowledgeFirst(r) ==
    /\ req[r].pc = "commit"
    /\ project' = MakesProject(r)
    /\ knowledge' = Put(knowledge, Target(req[r].knowledge, r), Says(r, KnowledgeColumns))
    /\ To(r, "failed")
    /\ UNCHANGED <<identity, settings>>

Commit(r) ==
    /\ req[r].pc = "commit"
    /\ project' = MakesProject(r)
    /\ identity' = Put(identity, Target(req[r].identity, r), Says(r, IdentityColumns))
    /\ knowledge' =
          IF req[r].kind = "register" THEN knowledge
          ELSE Put(knowledge, Target(req[r].knowledge, r), Says(r, KnowledgeColumns))
    /\ To(r, IF req[r].kind = "onboard" THEN "settings" ELSE "done")
    /\ UNCHANGED settings

\* The database, or the process, fails: an open transaction leaves nothing.
Fail(r) ==
    /\ req[r].pc \in InTransaction \cup {"project", "settings", "configure"}
    /\ To(r, "failed")
    /\ UNCHANGED tables

-----------------------------------------------------------------------------
(* _auto_configure_settings: a second transaction.                         *)

ReadSettings(r) ==
    /\ req[r].pc = "settings"
    /\ ~Ambiguous(settings)
    /\ req' = [req EXCEPT ![r].settings = DOMAIN settings, ![r].pc = "configure"]
    /\ UNCHANGED tables

Configure(r) ==
    /\ req[r].pc = "configure"
    /\ settings' = Put(settings, Target(req[r].settings, r), SettingsColumns)
    /\ To(r, "done")
    /\ UNCHANGED <<project, identity, knowledge>>

-----------------------------------------------------------------------------
(* What a reader is told: v2_project_hint.                                 *)

\* Every column of the one row is set.
Full(table, columns) == \E r \in Submissions : DOMAIN table = {r} /\ table[r] = columns

HintStatus ==
    IF project = "none" THEN "unregistered"
    ELSE IF Ambiguous(identity) \/ Ambiguous(knowledge) THEN "error"
    ELSE IF Full(identity, IdentityColumns) /\ Full(knowledge, KnowledgeColumns)
    THEN "complete" ELSE "incomplete"

-----------------------------------------------------------------------------
Empty == [r \in {} |-> {}]

IdleRequest ==
    [pc |-> "idle", kind |-> "register", says |-> {}, creates |-> FALSE,
     identity |-> {}, knowledge |-> {}, settings |-> {}]

\* seed_tenant_key.py --autocreate-project makes a project without a memory.
MemoryInit ==
    /\ project \in {"none", "seeded"}
    /\ identity = Empty /\ knowledge = Empty /\ settings = Empty
    /\ req = [r \in Submissions |-> IdleRequest]

Step(r) ==
    \/ \E kind \in Kinds : Start(r, kind)
    \/ Scrape(r) \/ Analyze(r) \/ AbsorbFails(r)
    \/ ReadProject(r) \/ ProjectTaken(r) \/ ReadIdentity(r) \/ ReadKnowledge(r)
    \/ TooManyRows(r) \/ Commit(r) \/ Fail(r) \/ ReadSettings(r) \/ Configure(r)

MemoryNext == \E r \in Submissions : Step(r)

MemorySpec == MemoryInit /\ [][MemoryNext]_memoryVars

-----------------------------------------------------------------------------
\* "Upsert analysis results into ProjectIdentity + KnowledgeAsset"
\* (ingestion.py:207): there is one row of each.  Nothing in the schema says
\* so, and two requests that both find none insert two; every later one fails.
\* It does not hold, and no run has it.
OneRowPerTable == ~Ambiguous(identity) /\ ~Ambiguous(knowledge)

\* A project the memory layer has created itself has exactly one identity,
\* whatever requests overlap: the UNIQUE project_id decides who is first, and
\* the identity is committed with it.
BornWithIdentity == project = "made" => \E r \in Submissions : DOMAIN identity = {r}

\* No step leaves part of a memory behind that contradicts the rest: knowledge
\* and settings exist only beside an identity, and only for a known project.
MemoryIsWhole ==
    /\ DOMAIN knowledge \cup DOMAIN settings # {} => DOMAIN identity # {}
    /\ DOMAIN identity # {} => project # "none"

\* What a project's memory has learnt it does not forget: a reader who was told
\* "complete" is never told "incomplete" afterwards.
CompleteStays ==
    [][HintStatus = "complete" => HintStatus' # "incomplete"]_memoryVars
=============================================================================
