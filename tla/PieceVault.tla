---------------------------- MODULE PieceVault ------------------------------
(***************************************************************************)
(* The table piece_registry and the two scripts that write it:             *)
(* scripts/sync_pieces.py fetches pieces from Activepieces and upserts one *)
(* row per piece and version; scripts/compute_dahae_scores.py reads every  *)
(* row and writes scores back by piece name.  Both may run at any time.    *)
(*                                                                         *)
(* A version is a number that grows with every release.  Time is one bit:  *)
(* "now" is within INCREMENTAL_SKIP_HOURS (a week), "old" is before it.    *)
(* A row remembers last_synced, which the code reads, and when the row was *)
(* really fetched, which nothing reads (it is there for FreshMeansFetched).*)
(***************************************************************************)
EXTENDS Naturals, FiniteSets

CONSTANTS
    PieceNames,  \* pieces of Activepieces
    MaxRelease,  \* bound: releases of a piece
    Syncs,       \* runs of sync_pieces.py
    Scorings     \* runs of compute_dahae_scores.py

ASSUME MaxReleaseAssumption == MaxRelease \in Nat \ {0}

VARIABLES
    latest,   \* the version of each piece that Activepieces serves
    row,      \* piece_registry
    sync,     \* the sync runs
    scoring   \* the scoring runs

vaultVars == <<latest, row, sync, scoring>>

Releases == 1..MaxRelease
When == {"never", "old", "now"}
Modes == {"incremental", "full", "single", "dry"}

NoPiece == [synced |-> "never", fetched |-> "never"]

PieceRow == [synced: When, fetched: When]
SyncRun == [pc: {"start", "fresh", "work", "done", "aborted"}, mode: Modes,
            listed: [PieceNames -> 0..MaxRelease], todo: SUBSET PieceNames,
            got: [PieceNames -> 0..MaxRelease], failed: BOOLEAN]
ScoringRun == [pc: {"read", "write", "done"}, seen: SUBSET (PieceNames \X Releases)]

VaultTypeOK ==
    /\ latest \in [PieceNames -> Releases]
    /\ row \in [PieceNames \X Releases -> PieceRow]
    /\ sync \in [Syncs -> SyncRun]
    /\ scoring \in [Scorings -> ScoringRun]

Vaulted == {k \in PieceNames \X Releases : row[k].synced # "never"}

-----------------------------------------------------------------------------
(* The world: a release, and a week.                                       *)

ServeNewer(p) ==
    /\ latest[p] < MaxRelease
    /\ latest' = [latest EXCEPT ![p] = @ + 1]
    /\ UNCHANGED <<row, sync, scoring>>

Aged(when) == IF when = "now" THEN "old" ELSE when

WeekPasses ==
    /\ row' = [k \in PieceNames \X Releases |->
                 [row[k] EXCEPT !.synced = Aged(@), !.fetched = Aged(@)]]
    /\ row' # row
    /\ UNCHANGED <<latest, sync, scoring>>

-----------------------------------------------------------------------------
(* sync_pieces.py                                                          *)

IdleSync == [pc |-> "start", mode |-> "full", listed |-> [p \in PieceNames |-> 0],
             todo |-> {}, got |-> [p \in PieceNames |-> 0], failed |-> FALSE]

Targets(x) == {p \in PieceNames : sync[x].listed[p] # 0}

\* --piece names one target without a version; otherwise the list is fetched.
List(x, mode) ==
    /\ sync[x].pc = "start"
    /\ \E targets \in SUBSET PieceNames :
          /\ mode = "single" => Cardinality(targets) = 1
          /\ mode # "single" => targets = PieceNames
          /\ sync' = [sync EXCEPT ![x].mode = mode, ![x].pc = "fresh",
                ![x].listed =
                    [p \in PieceNames |-> IF p \in targets THEN latest[p] ELSE 0]]
    /\ UNCHANGED <<latest, row, scoring>>

\* Incremental runs, --dry-run or not, skip the listed versions that are fresh.
SkipFresh(x) ==
    /\ sync[x].pc = "fresh"
    /\ LET fresh == {p \in Targets(x) : row[<<p, sync[x].listed[p]>>].synced = "now"}
       IN  \E skipped \in {fresh, {}} :
              /\ sync[x].mode = "incremental" => skipped = fresh
              /\ sync[x].mode \in {"full", "single"} => skipped = {}
              /\ sync' = [sync EXCEPT ![x].pc = "work", ![x].todo = Targets(x) \ skipped]
    /\ UNCHANGED <<latest, row, scoring>>

\* Up to CONCURRENCY pieces at a time, in any order.
FetchSchema(x, p) ==
    /\ sync[x].pc = "work" /\ p \in sync[x].todo /\ sync[x].got[p] = 0
    /\ sync' = [sync EXCEPT ![x].got[p] = latest[p]]
    /\ UNCHANGED <<latest, row, scoring>>

\* Faulty variant: a piece that could not be fetched is not counted.
FetchSchemaUncounted(x, p) ==
    /\ sync[x].pc = "work" /\ p \in sync[x].todo /\ sync[x].got[p] = 0
    /\ sync' = [sync EXCEPT ![x].todo = @ \ {p}]
    /\ UNCHANGED <<latest, row, scoring>>

\* A fetch that fails is counted and the run goes on.
FetchSchemaFails(x, p) ==
    /\ sync[x].pc = "work" /\ p \in sync[x].todo /\ sync[x].got[p] = 0
    /\ sync' = [sync EXCEPT ![x].todo = @ \ {p}, ![x].failed = TRUE]
    /\ UNCHANGED <<latest, row, scoring>>

\* A schema without name or version, after the second fetch of an empty one.
SchemaUnusable(x, p) ==
    /\ sync[x].pc = "work" /\ p \in sync[x].todo /\ sync[x].got[p] # 0
    /\ sync' = [sync EXCEPT ![x].todo = @ \ {p}, ![x].got[p] = 0, ![x].failed = TRUE]
    /\ UNCHANGED <<latest, row, scoring>>

\* The row of a new version is stamped by server_default; ON CONFLICT sets the
\* schema and the indexes and leaves last_synced as it is.
Upserted(k) ==
    [row[k] EXCEPT !.synced = IF @ = "never" THEN "now" ELSE @, !.fetched = "now"]

Upsert(x, p) ==
    /\ sync[x].pc = "work" /\ p \in sync[x].todo /\ sync[x].got[p] # 0
    /\ row' = IF sync[x].mode = "dry" THEN row
              ELSE [row EXCEPT ![<<p, sync[x].got[p]>>] = Upserted(<<p, sync[x].got[p]>>)]
    /\ sync' = [sync EXCEPT ![x].todo = @ \ {p}, ![x].got[p] = 0]
    /\ UNCHANGED <<latest, scoring>>

\* The second fetch or the database raises: gather ends the whole run.
SyncAborts(x) ==
    /\ sync[x].pc \in {"fresh", "work"}
    /\ sync' = [sync EXCEPT ![x] = [IdleSync EXCEPT !.pc = "aborted"]]
    /\ UNCHANGED <<latest, row, scoring>>

Done(x) ==
    /\ sync[x].pc = "work" /\ sync[x].todo = {}
    /\ sync' = [sync EXCEPT ![x].pc = "done"]
    /\ UNCHANGED <<latest, row, scoring>>

-----------------------------------------------------------------------------
(* compute_dahae_scores.py: one read, then one transaction of updates.     *)

ReadRows(z) ==
    /\ scoring[z].pc = "read" /\ Vaulted # {}
    /\ scoring' = [scoring EXCEPT ![z] = [pc |-> "write", seen |-> Vaulted]]
    /\ UNCHANGED <<latest, row, sync>>

\* UPDATE ... WHERE name: every version of a name that was read gets the scores
\* (which nothing here depends on), and last_synced its onupdate value.
WriteScores(z) ==
    /\ scoring[z].pc = "write"
    /\ row' = [k \in PieceNames \X Releases |->
                 IF k \in Vaulted /\ \E v \in Releases : <<k[1], v>> \in scoring[z].seen
                 THEN [row[k] EXCEPT !.synced = "now"] ELSE row[k]]
    /\ scoring' = [scoring EXCEPT ![z] = [pc |-> "done", seen |-> {}]]
    /\ UNCHANGED <<latest, sync>>

\* --dry-run, an empty registry, a database that raises.
ScoringEnds(z) ==
    /\ scoring[z].pc \in {"read", "write"}
    /\ scoring' = [scoring EXCEPT ![z] = [pc |-> "done", seen |-> {}]]
    /\ UNCHANGED <<latest, row, sync>>

-----------------------------------------------------------------------------
VaultInit ==
    /\ latest = [p \in PieceNames |-> 1]
    /\ row = [k \in PieceNames \X Releases |-> NoPiece]
    /\ sync = [x \in Syncs |-> IdleSync]
    /\ scoring = [z \in Scorings |-> [pc |-> "read", seen |-> {}]]

SyncStep(x) ==
    \/ \E mode \in Modes : List(x, mode)
    \/ SkipFresh(x) \/ SyncAborts(x) \/ Done(x)
    \/ \E p \in PieceNames :
          \/ FetchSchema(x, p) \/ FetchSchemaFails(x, p)
          \/ SchemaUnusable(x, p) \/ Upsert(x, p)

VaultNext ==
    \/ WeekPasses \/ \E p \in PieceNames : ServeNewer(p)
    \/ \E x \in Syncs : SyncStep(x)
    \/ \E z \in Scorings : ReadRows(z) \/ WriteScores(z) \/ ScoringEnds(z)

VaultSpec == VaultInit /\ [][VaultNext]_vaultVars

-----------------------------------------------------------------------------
\* A run that returns 0 has left in the table, for every piece it listed, the
\* listed version or a later one, whatever else ran beside it: skipped, fetched
\* in any order, or inserted by another run.
ZeroMeansVaulted ==
    \A x \in Syncs :
        sync[x].pc = "done" /\ ~sync[x].failed /\ sync[x].mode # "dry" =>
            \A p \in Targets(x) :
                \E v \in sync[x].listed[p]..MaxRelease : <<p, v>> \in Vaulted

\* "skip re-fetch if synced within the last week" (sync_pieces.py:51): a row
\* that counts as synced this week has been fetched this week.  The scoring
\* script moves last_synced of every row it writes.
FreshMeansFetched == \A k \in Vaulted : row[k].synced = "now" => row[k].fetched = "now"
=============================================================================
