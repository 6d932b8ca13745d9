# A TLA+ verification of the Siyadah orchestrator

The orchestrator (`src/main.py`, version 9) stands between the tenants of an
automation product and an Activepieces server. It obtains OAuth credentials for
them, keeps them encrypted, keeps them fresh, and builds flows out of
Activepieces pieces. This directory holds models of the parts whose correctness
depends on the order in which independent things happen, TLC runs over small
instances, and theorems about every instance.

## 1. Inventory

One process is a FastAPI application on one asyncio event loop; several replicas
may run. A handler gives up the loop at every `await`, so handlers of one
process interleave there, and replicas interleave everywhere. They share
Postgres (`models.py`), Redis, the Activepieces server (AP) and the OAuth
providers. No transaction spans two of these.

| Component (source) | State it keeps | Operations | Hard behaviour | What makes it correct |
|---|---|---|---|---|
| Token vault (`models.py` 362-500) | `encrypted_tokens`, `oauth_sagas`, a unique constraint that includes `status` | SQL statements of the components below | writers that update by id, whatever the row has become | unique key; every row reachable from its saga |
| OAuth handshake (`oauth_routes.py` 140-449, 1122-1504, `siyadah_oauth_state.py`) | a saga row, a Redis nonce, a token row, an AP connection | `initiate`, `callback`, `_persist_tokens`, `_create_ap_connection`, `_finalize_saga_completed`, `_compensate_ap_failure`, `_mark_saga_failed` | callback delivered twice or late, failure between any two stores, crash, lost AP reply, reconnect of an account | a code is redeemed once; an outcome is final; green end-to-end or rolled back |
| Refresh worker (`oauth_routes.py` 456-1119, `main.py` lifespan) | lease column, Redis mutex, `ap_sync_pending`, ciphertexts | claim, full refresh, AP-only retry, release | replicas racing, lease and lock TTLs, crash between two writes, lost replies, shutdown | one task per row; nothing regresses; a credential that works is never retired; every due row is served |
| Revocation webhooks (`oauth_webhooks.py`) | deduplication keys in Redis, audit rows | Slack events, Google RISC | redelivery, overlapping deliveries, failure after the deduplication | an acknowledged event has been applied; one audit per row |
| MCP over SSE (`mcp_sse.py`) | sessions in Redis or memory, a queue per process | connect, message, disconnect | message racing a disconnect, Redis coming and going, replicas | a reply reaches the stream of its own tenant or is refused |
| Activepieces client (`SiyadahEngine`, `main.py` 113-372) | the AP token | request with renewal and retries, publish, verify | retry of what was already done | publish leaves an enabled flow or an error |
| Golden build (`main.py` 1451-1714) | AP flow, flow table | create, stamp, import, verify, publish, register | failure between the steps, a graph AP changed | no graph without an owner; what runs was verified |
| Dynamic build, Gate 6, pending activation (`main.py` 2366-2571, `services/`) | AP draft, activation record | gate decision, import, record | orphan draft, gate decided on a stale list of connections | a flow is live only with its connections |
| Flow ownership and employees (`main.py` 416-492, 2991-3330, 3568-) | flow table | check, register, reimport, list, duplicate check | check then insert | one owner per flow |
| Connections (`main.py` 603-666, 2366-2571, 5409-5464, `services/connection_gate.py`) | AP connections, known by an id and an externalId | connect, Gate 6 of `build-dynamic`, strict guard of `build`, guarded delete | the gate decides on a list that is stale when the graph is imported; a build that starts to use a connection between the guard and the delete | a graph names only what its gate has seen |
| Tenant authentication (`auth.py`, `scripts/seed_tenant_key.py`) | API keys, known projects | `require_tenant`, `resolve_pid`, seeding and rotating keys | rotation while requests are served, two overlapping rotations | a request acts for the project of its key; a project keeps a key |
| Project memory (`ingestion.py`, `main.py` 523-586, 3921-4169) | `projects`, identities, knowledge, settings | register, ingest, onboard, hint | concurrent first uploads, two transactions of one request | one identity; a memory is whole; nothing learnt is lost |
| Piece registry in the database (`scripts/sync_pieces.py`, `scripts/compute_dahae_scores.py`) | `piece_registry` | incremental, full, single and dry sync; scoring | releases and failures during a run, the two scripts at once | exit code 0 means the pieces are there |
| Piece registry in files (`scripts/sync_activepieces_registry.py`) | a file per piece, the indexes over them | fetch all, write files, write indexes, validate | killed between two files, overlapping or partial runs | the next lone run repairs everything |
| Encryption, providers, builders, plumbing, other scripts | none, or static data | pure functions, one-shot tools | none | - |

`PROJECT.json` lists the same components with their status, and under `hazards`
each place where the code is hard to test.

## 2. Modules

    TokenVault ------+--> OAuthSaga ------------> MCOAuthSaga, OAuthSagaProofs
    (table, key)     |      | implements
                     |      v
                     |   CredentialContract
                     +--> TokenRefresh ---------> MCTokenRefresh, TokenRefreshProofs
                     |      | implements
                     |      v
                     |   TokenLifecycle
                     +--> RevocationWebhook ----> MCRevocationWebhook, RevocationWebhookProofs

    FlowBuild ----------------------------------> MCFlowBuild, FlowBuildProofs

    TenantAuth --> SseSessions -----------------> MCSseSessions, SseSessionsProofs

    Connections ----------------+---------------> ConnectionsProofs
    ProjectMemory --------------+---------------> ProjectMemoryProofs
    PieceVault, PieceFiles -----+---------------> PieceRegistryProofs
                                +---------------> MCServices

Every component module has one action per awaited step of the code, because an
await is where another handler can run. What a handler read before an await is
kept in its own record, as in the local variables of the code; a transaction is
one step. What may go wrong is the constant `Faults`, so that a run states
exactly under which faults its properties hold. Actions headed "Faulty variant"
are slips the properties are tested against: they are in no next-state relation.

**TokenVault.** The table as a function from row ids to rows, the unique
constraint (NULL account ids never clash), and `RevokeActive`, the UPDATE of
`_persist_tokens` and of the webhooks.

**OAuthSaga.** `sagas`, `rows` (two tables), `nonces` (Redis), `conns` (AP),
`exchanged` (the provider), and a program counter per `/initiate` and per
delivery of `/callback`. `InsertSaga ... CrashInitiate` are `oauth_initiate`;
`DeliverCode`, `DeliverError`, `ConsumeNonce`, `ExchangeCode`, `RevokePredecessor`,
`InsertToken`, `CreateConnection`, `Finalize`, `Unlink`, `Compensate`, `MarkFailed` and their
failing twins are `oauth_callback` and the functions it awaits; `RevokeTeam` is
the webhook, reduced to its transaction. `RevokePredecessor` (UPDATE) and
`InsertToken` (INSERT, saga, commit) are one READ COMMITTED transaction: the first
keeps the rows it has found (`FoundRows`), so handlers of one account may overlap and
miss each other's row, and the second is refused when the unique constraint then has
two ACTIVE rows (`PersistFails`). Row locks and the index make a handler wait, which
only decides who commits first. The state token's MAC and the
saga lookup have one outcome each for a state the program issued, so a delivery
is accepted if the state is not past its expiry and the saga is INITIATED.

**CredentialContract.** What the handshake promises about one saga's credential:
open, held, linked or closed. `OAuthSaga` implements it under the mapping
`Credential`, which reads the vault and the handlers and not the status column.

**TokenRefresh.** `rows`, `lease` (`processing_until`), `lock` (Redis), a `task`
per replica and row, and the two outside services: `grant` (which refresh token
the provider honours) and `ap` (which access token AP holds). Tokens are
generations. `Claim` is `_claim_due_tokens`; `LoadRow ... WriteFlag` are
`_refresh_one_token`; `LoadPending ... ClearFlag` are `_retry_ap_only`;
`Unlock`, `ReleaseLease` are the `finally` blocks, which act whoever holds the
lock or the lease by then. `BecomesDue`, `LeaseExpires`, `LockExpires` are time.
`Connect`, `Finalize`, `Compensate`, `Webhook` are the other writers of the row.

**TokenLifecycle.** What the vault promises about one row, without replicas, leases,
locks and faults: it is unused, usable, retired or gone, never usable again once
retired; what is stored in it is the provider's newest token, what is delivered to AP
is the stored one. Each row of `TokenRefresh` implements it, with the mapping
`LifeOf` (`KeepsLifecycle`). The steps by which a task finds out, waits, is thrown
out or fails stutter there.

**RevocationWebhook.** Both webhooks: `Dedupe` (SET NX; events in `Unkeyed` carry no
id and skip it, those in `Mute` are answered 200 and not acted on, for want of a
team, of data or of a type that concerns the code), `Select`, `Commit` (an
update by id of what the SELECT found, with one audit row each), `Broadcast`,
`Answer`; the sender raises one or several events per uninstall and delivers an
event again until it sees it answered, without waiting for a slow handler.

**FlowBuild.** `flows` (Activepieces: status, the project a flow is in, the
`owner` stamped into its metadata, draft and published graph), `registry`
(`flow_registry`), `plans` (`pending_activation_plans`), `req` (each HTTP request)
and `late` (calls that timed out here and have not been acted on there). A
request's `pc` names the call it makes next:

| Request | Calls, in order |
|---|---|
| `build` (`v2_build` and the other builders, `golden_build`) | validate, create, stamp, import, verify, publish, status, enable1, check1, enable2, check2, final, upsert; `cleanup` is the DELETE after a failed stamp or a rejected graph |
| `dynamic` (`v2_build_dynamic`) | classify, then as `build`, or as `draft`: create, stamp, import, verify, plan (without the feature flag only plan) |
| `enable`, `disable`, `delete` (PATCH) | gate, gateAP, then the call; a delete goes on to evict |
| `reimport` | gate, gateAP, guard, import, verify, publish ... final |
| `register` (`register-employee`) | lookup, employ |

`Write`, `Read` and `Create` are a call that is answered; `AfterWrite`,
`AfterRead`, `Verified` and `Checked` say where the request goes then.
`Unreachable`, `Refused`, `WriteUnheard`, `WriteDelayed` are the ways in which
`_r` fails, `Retry` its three attempts, `OnError` the exception handler of the
caller. `Effect` and `NewFlow` are Activepieces, as far as the code relies on it: an
IMPORT_FLOW answered 200 may leave the graph empty, stripped or invalid.
`Gate`, `Evict`, `Upsert`, `Employ`, `Plan` are the database steps, each of which
may fail; where the code only logs the failure, the request goes on.

**Connections.** `conn` (the rows of `/v1/app-connections/`), `build` (a request to
`/v2/build-dynamic`, `/v2/build-and-deploy` or one of the two kinds of
`/v2/flows/{id}/reimport`: its input, the list it has `seen`, what Gate 6 chose per
piece), `flow` (what the guards see of a flow: stage, whose graph it has, the
references in it) and `del` (a `DELETE /v2/connections/{id}`). A request lists,
then decides (`Gate`, `GuardStatic`), then imports: each is a step, and
connections are made, break, are repaired or deleted in between, flows
reimported. `Classified` is the whole classification of Gate 6, with its overrides.
It only covers the pieces in `known`: Gate 6 looks for the name the request wrote
(`connection_gate.py` 85) and for its schema, the build for the name
`auto_resolve_piece` makes of it (`main.py` 2529), so that any needy piece may be
one the gate takes for a piece without credentials. `NestedRef`, `ReadyRef`,
`DraftRef` and `ActionRef` are the order in which a step's own `auth` and
`connection_id`, the gate's choice, the request's map and the deployment's defaults
win in each place a step is built; a step inside a router or a loop never gets the
gate's choice. `ListFlows` sees one page of the flows, any part of them. A piece
has one step in a request, and an empty name counts as none. A name is a pair of a connection and which of its two names it is, because the
delete guard looks for one of them in the text of the flows.

**TenantAuth, SseSessions.** `keyRow` and `known` are the tables, `seeding` a run
of `seed_tenant_key.py` (its check, revocation and insert are one transaction, so
`CheckAndRevoke` only computes the victims and `InsertKey` applies both), `req` a
request with the verdict of `require_tenant`: bound to a project, admitted
without one (legacy key, dry run), refused. `SseSessions` extends it by the
MCP transport: `redis` and `memory` (where a session may be recorded), `stream` and
`queue` (in the process that serves the stream), `msg` (the handler of a message,
on any replica) and `received`. `Verified` and `ResolvePid` say in which project a
tool runs.

**ProjectMemory.** Four tables of one project as functions from the rows that
exist (named by the request that inserted them) to the columns that are set. A
request's reads and its commit are steps under READ COMMITTED: what it found is
kept and may be out of date. The UNIQUE `project_id` makes the second inserter
wait (guard of `ReadProject`) and fail (`ProjectTaken`) or find the row; no other
table has such a key. `onboard` has a second transaction for the settings.

**PieceVault.** `piece_registry` as written by `sync_pieces.py` (`List`, `SkipFresh`,
then any order of `FetchSchema`, `Upsert` and their failures) and by
`compute_dahae_scores.py` (`ReadRows`, `WriteScores`). A row carries `last_synced`
as the code keeps it (`synced`) and, for one property, when it was fetched.

**PieceFiles.** The same registry as files. A run fetches all its targets
(`Fetch`, `FetchFails`; one failure and it writes nothing), writes a file each,
loads all files under its own (`LoadFiles`), writes each index, and returns 0.
`Killed` may come between any two. `alone` remembers that no other run wrote
meanwhile; the code has no such field, and only the property reads it.

**MCServices** puts `Connections`, `ProjectMemory`, `PieceVault` and `PieceFiles` side
by side for TLC. They share no variable, so one of them runs in a behaviour and
the others rest: interleaving them would show nothing.

## 3. What the runs check

Deadlock is not checked: every system here may stop (all handshakes ended, no
token due, nothing left to deliver, no request left).

### Handshake (`MCOAuthSaga`)

| Run | Instance | Shows |
|---|---|---|
| SagaSafety | 3 sagas, 3 deliveries, 1 account, all faults | types; `OneExchangePerSaga`; `CompletedIsLinked`, `CompensatedIsWiped`, `RowsAreReachable`, `RefusedOnlyByOverlap`; `OutcomesExclude`; the refinement `KeepsContract` |
| SagaSettles | 2 sagas, 2 deliveries; no crash, no lost AP reply, no failing clean-up | No-Ghost as far as it goes: a single delivery leaves a whole saga or no trace; a handler that took the nonce settles its saga |
| SagaNoGhost (counterexample) | 1 saga, 2 deliveries, no fault | `NoGhost`, the same without "single", does not hold |

Three deliveries are enough for a duplicate that races, plus one of another saga;
two sagas of one account are a reconnect, three a reconnect while another one
overlaps it.

### Refresh worker (`MCTokenRefresh`)

| Run | Instance | Shows |
|---|---|---|
| RefreshRaces | 2 replicas, 1 row, 2 faults of any kind but a lapsed lock, 2 access tokens, fairness | `SingleFlight`, `NothingRegresses`, `DueIsServed`, `PendingIsDelivered`; the refinement `KeepsLifecycle` |
| RefreshRefusals | 2 replicas, 2 rows of 1 account, 1 refusal, 2 access tokens | `RowHoldsLiveGrant`, `RevokedMeansUserRevoked`, `StaleIsPending` |
| RefreshKeptToken (counterexample) | 1 replica, 1 row, a provider that keeps the refresh token | `RefreshStaysReadable` does not hold |

`MaxFaults` bounds the faults of a behaviour and `MaxIssued` the access tokens
after which a row is no longer due; both cap counters that are unbounded in the
code. Two faults are enough for a crash that leaves a lease and a lock behind
while a late task of the other replica goes on; two access tokens are one
rotation that a stale task can miss, and three were tried once without a
difference.

### Webhooks (`MCRevocationWebhook`)

| Run | Instance | Shows |
|---|---|---|
| Webhooks | 2 of 3 events of one team (one without id, one mute), 2 deliveries, 3 rows of 2 accounts, all faults, fairness | `NoDoubleAudit`, `ToldMeansRevoked`, `AckMeansRevoked`, `UninstallTakesEffect` |

Two deliveries are two events at once, or one event twice, overlapping or one
after the other; the third row is one that appears while an event is handled.
`MCSpec` lets any two of the three events arise, whichever: a third at the same time
would need a third delivery to matter. `NoDoubleAudit` is about events with an id,
the other properties about events that are acted on.
A request that fails after it took the deduplication key loses its event:
`AckMeansRevoked` and `UninstallTakesEffect` name that exception
(`LostAfterDedupe`) and show that it is the only one.

### Flow building (`MCFlowBuild`)

| Run | Instance | Shows |
|---|---|---|
| FlowOwnership | 3 requests of any kind, 1 flow, 2 tenants, every failure, 1 late call | types; `GraphIsAttributable`, `RegistryMatchesProject`, `ForeignFlowsUntouched` |
| FlowProtocol | 2 requests (no reimport), 2 flows, 1 tenant, all four outcomes of an import, every failure on time, fairness | `PublishedIsVerified`, `DeployedIsPublished`, `PlanHasDraft`, `RequestsEnd` |

Three requests are a build, a registration or a change by the owner, and a
stranger; one flow suffices because no property of that run relates two. In
FlowProtocol the second flow is the one a repeated POST creates, or the other
build's. `Requests` and `Flows` bound what arrives and what is created, `MaxLate` the
late calls; only `MaxTries` is the code's own. FlowOwnership leaves out
`unreachable`, which has no effect but the retry every other failure has too.

### Tenancy (`MCSseSessions`)

| Run | Instance | Shows |
|---|---|---|
| Tenancy | 2 projects, 2 keys, 2 runs of the script, 1 stream, 1 message, 2 replicas, fairness | `RunsInOwnProject`, `RotationKeepsAKey`, `AcceptedArrives` |

One project has a tenant and a live key, the other is new; the second key is given
to the new project or replaces the first, and the first may be given anew, also by
two runs at once. One stream and one message suffice for a caller and a session
that are bound to different projects, on the same or on different replicas.
`Enforce` is FALSE, which admits more than TRUE does.

### Services (`MCServices`)

| Run | Instance | Shows |
|---|---|---|
| Services, connections | 1 connection, 2 pieces of which 1 needs one, 1 build, 1 request that reimports its flow, 1 delete | `GuardedStepsUseListed`, `DanglingWasUnread` |
| Services, memory | 2 requests of any kind, project known or not | `BornWithIdentity`, `MemoryIsWhole`, `CompleteStays` |
| Services, vault | 2 sync runs, 1 scoring run, 2 pieces, 2 versions | `ZeroMeansVaulted` |
| Services, files | 2 operators who sync as often as they like, 2 pieces, 2 versions, 2 indexes | `LoneRunRepairs` |
| VaultFreshness (counterexample) | as the vault | `FreshMeansFetched` does not hold: the scoring script makes a week-old row look fresh |

The first four are one run. `SomeRequests` gives a request at most one name, in
`connection_ids`, the defaults, a step or its input: a second piece would only repeat
the choice. One connection can be listed, missing, broken, refused and deleted; that
there is another row the gate may prefer is left to the theorem, as two connections
are beyond a run of minutes. Two memory requests, and two syncs, are what can race; every later one meets one of the
states these leave. `MaxVersion` and `MaxRelease` bound the releases: a second version is enough
for one that appears between a list, a fetch and a write. Two pieces are the one a
run covers and one it does not.

### Known gaps

The counterexample runs above are the disagreements between code and documents
that a run demonstrates (`findings` in `PROJECT.json` quotes both sides). The
others met while modelling follow from the same models and have no run of
their own; each is the reason a fault is left out of a passing run:

- AP stores a connection and its reply is lost (`ap_lost_reply`): the saga is
  compensated and the connection stays (`NoGhostOnSingleDelivery`).
- A reconnect revokes the account's working credential and then fails at AP:
  the compensation does not bring the predecessor back.
- A callback with `error=` marks a COMPLETED saga FAILED; the diagram in
  `models.py` has no such arrow. For this reason `OutcomesExclude` allows FAILED.
- Nothing expires a saga that nobody finishes: it stays INITIATED.
- A refresh task that outlives its lease between reading the row and taking the
  mutex (`lease_lapse`) presents a stale refresh token and retires a working
  row (`RevokedMeansUserRevoked`).
- The rotation's UPDATE fails, or the provider's answer is lost (`db`,
  `lost_reply`): the row keeps a dead refresh token (`RowHoldsLiveGrant`).
- A crash between the rotation and the write of `ap_sync_pending` (`crash`): AP
  stays stale until the next rotation (`StaleIsPending`).
- An account that has a CORRUPTED row cannot get a second one: a row that cannot
  be marked is claimed in every cycle.
- The unique constraint of the vault covers `status`, so an account holds one
  REVOKED row at most: its third handshake must revoke a second one and its
  transaction is refused (`models.py` 386-388, `oauth_routes.py` 252), although
  the comment there says a re-authentication is soft-revoke and insert.
- "Compensating revoke of any existing ACTIVE row (so the unique constraint permits
  the new ACTIVE insert)" (`oauth_routes.py` 249-250) does not hold for two
  callbacks of one account that overlap: the second one's UPDATE does not see the
  first one's row, its INSERT is refused, its saga ends FAILED and the tokens it
  exchanged are dropped. `RefusedOnlyByOverlap` says that this is the only way.
- The other two models of the vault's writers take a reconnect as one step
  (`Connect` in `TokenRefresh` and `RevocationWebhook`): there it is only the world
  that changes a row, and a refused reconnect changes nothing.
- `reimport` looks only for an EMPTY trigger before it publishes; the checks for
  stripped and invalid steps are golden_build's alone. Hence FlowProtocol has no
  reimport.
- An IMPORT_FLOW that is acted on after its repeat was verified (`late`) replaces
  the verified graph before LOCK_AND_PUBLISH (`PublishedIsVerified`).
- Create calls whose answer is lost leave flows without stamp, graph and row; a
  failed publish, or one whose answer is lost, leaves a flow that may be ENABLED
  while the caller is told of an error.
- A reimport of a flow that only its registry row attributes gives a graph to a
  flow without stamp; a later eviction happens only with its deletion.
- A delete between golden_build's last GET and its upsert leaves a ghost row too.
- A saved plan names its draft by id only: the owner may delete it meanwhile.
- `register-employee` accepts a flow whose answer carries no project; the model
  takes it that Activepieces always sends one. Its SELECT and its write are one step
  (`Employ`), which may fail at any time: a row that comes or goes between the two
  does no more than that.
- Two events of one uninstall both audit a row (`NoDoubleAudit` holds per event).
- A revocation event whose transaction fails after its key was written is
  answered 200 on every retry and never applied (`LostAfterDedupe`). A delayed event
  revokes an installation made after it was raised.
- The row of a flow that was deleted may stay in `flow_registry`.
- `DELETE /v2/connections/{id}`, "refuses if any flow uses it" (`main.py` 5453),
  looks for the one name it was given on one page of at most 200 flows of one
  project, and a build or a reimport may come between the page and the deletion
  (`DeleteRefusesIfUsed` in `Connections`, which no run has and TLC finds violated).
- Gate 6 takes a piece for one without credentials if it does not recognize the
  request's name for it, or if its schema cannot be fetched (`main.py` 655-695
  answers `{}`). The build then resolves the name and uses the request's or the
  deployment's connection, whether ACTIVE or not, and publishes. Steps inside a router
  or a loop are classified, but built without the gate's choice. The gate's promise
  is therefore stated for top-level steps whose piece is `known`.
- The draft of a blocked build shall use "ONLY connection ids that
  classify_connection_requirements proved ACTIVE" (`main.py` 2427-2432), but
  `_build_step_from_spec` adds the deployment's default where the gate has none
  (`DraftRef`).
- A reimport by template has no connection guard at all (`StartBuild` goes straight
  to its import).
- `flow` in `Connections` has one graph per flow: a reimport that is never published
  leaves the published version behind its draft, and neither guard reads that one.
- Two first writers of a project that a script had created both insert an identity;
  every later request of the project then fails (`OneRowPerTable` in `ProjectMemory`,
  which no run has).
- A client that leaves before the first event leaves its session and queue behind
  (`LeaveEarly`), the session until its TTL in Redis, or for ever in memory.
- The readers of the file registry keep it in memory from their first use until the
  process restarts (`registry_reader.py` 36): a copy taken during a sync stays partial.

### Fairness

A handler or task that was entered runs on: the event loop resumes it, and every
call it awaits has a timeout (10 or 30 s) or fails. The worker's loop catches
what a cycle raises and sleeps; a dead process is restarted by its platform.
A request of FlowBuild is such a handler: `_r` gives up after three attempts, so
weak fairness of its next step, whatever that brings, is all `RequestsEnd` needs.
An open stream is one too: its generator reads the queue as long as the client does,
and a client that does not take its first event leaves
(`SendEndpoint \/ LeaveEarly`, `Deliver`). TTLs run out. A webhook's sender retries while it has tries left. Nothing is assumed of users, and faults
are bounded in number in the refresh runs, so "after the faults are over" is
part of every behaviour. Liveness runs use no symmetry.

## 4. What is proved

Every invariant and every action property of the passing runs is a theorem, and
so are the refinements of `CredentialContract` and `TokenLifecycle`. The theorems hold for every value of
the constants (any sets of sagas, deliveries, accounts, replicas, rows, events,
requests, connections, keys, sessions and pieces; any bounds), from the named
assumptions of the modules. Unless a theorem says otherwise it holds for every set
of faults. The ones that exclude faults name them in a definition of their own
(`Recovered`, `Uninterrupted`, `Heard`, `Prompt`, `Punctual`). With each
fault so excluded TLC finds a behaviour that breaks the property (for
`RowHoldsLiveGrant`, `lock_lapse` does so together with `keep`): what is excluded is a
limit of the code (§3, known gaps), not of the proof.

**OAuthSagaProofs.** `IInv` is the inductive invariant. `OneExchangePerSaga`
alone is not inductive: one must know that a delivery owns its saga from the
moment it takes the nonce, that the nonce is then gone (`SingleOwner`), that no
`/initiate` can put it back (`Entered`), what each position of a handler implies
about its row and its connection (`Positions`), and that an outcome is the work of an
owner that has ended (`Outcomes`): only then can no other delivery be anywhere
it could undo it. The action property and the refinement follow from the same
invariant, one step per action.

`RefusedByOverlap` (`RefusedOnlyByOverlap`) needs two facts more: the unique constraint
holds between the transactions (`UniqueKeyInvariant`), so an account has one ACTIVE
row at most; and what a handler between its UPDATE and its INSERT has found
has either kept its status, and can still be revoked beside the REVOKED rows there
are, or has left ACTIVE since (`Transactions`). What is left to refuse the INSERT is
an ACTIVE row it has not found, which another saga's handler stored.
`NoGhostAlone` (`NoGhostOnSingleDelivery`) has an invariant of its own, `TidyInv`:
only a saga's delivery touches its connection, so the position of a lone delivery
says whether AP has one. It assumes `Recovered`: no crash, no lost reply of AP and no
clean-up that fails silently.

**TokenRefreshProofs.** Type correctness and `MutualExclusion` (`SingleFlight`), under
the assumption that no task outlives its lock (`"lock_lapse" \notin Faults`): with a
TTL on the lock and no fencing token the property is false otherwise. The other
five are about what travels through the memory of the tasks of one row, so they
rest on `RowStep`: what any step of any replica, user, webhook or clock can do to
one row, its tasks, its account at the provider and at AP. `NextRowSteps` derives it
from the actions once; every later invariant is about one row and is carried
over the eight kinds of `WorkerStep` and the `WorldStep`s.

| Theorem | Property | What the invariant adds | Excluded faults |
|---|---|---|---|
| `OnlyForward` | `NothingRegresses` | `Ordered`: AP is never ahead of the row, nor the row of the provider; who is about to write a token to the row or to AP carries the newest one | `lock_lapse` |
| `RowsKeepLifecycle` | `KeepsLifecycle` | the same `Ordered`: each kind of `RowStep` is a step of `TokenLifecycle` for its row, or a stutter | `lock_lapse` |
| `StaleIsFound` | `StaleIsPending` | `Finalized`, `Rotatable`, `Delivered`: only finalized rows are worked on, and a stale AP is flagged, due, or has a task between the rotation and the flag | also `db`, `crash`, `shutdown`, `short_lived` |
| `NoGrantLost` | `RowHoldsLiveGrant` | `Held`: the live refresh token is in the row or in the one task about to store it | `lock_lapse`, `lost_reply`, `db`, `crash`, `shutdown` |
| `OnlyUsersRevoke` | `RevokedMeansUserRevoked` | `Leased`, `Honest`: a task between reading and calling holds the live token, because no other can rotate it meanwhile | also `lease_lapse` |

**RevocationWebhookProofs.** `NoDoubleAudit`, `ToldMeansRevoked` and `AckMeansRevoked`,
for every fault. Redis hands an event's key to one delivery, which alone goes on to
select and commit (`Keyed`, `OneHolder`); before that nothing is audited. The commit
writes by id what a SELECT found some time ago, so one must know that a condemned
row it did not find is out of use (`Chosen`) and that such a row stays so (`Told`,
`Retired`: only an absent row is ever made ACTIVE). `Handled` adds that an event whose
key is taken is under way, lost, or applied; an acknowledged one has its key taken.

**FlowBuildProofs.** All four properties of FlowOwnership, with every failure and
late calls. `IInv` adds to the properties what each position of a request implies
about its flow (`RequestInv`: past the gate, the flow is in the tenant's project;
about to import, it is attributable; about to evict, it is gone), the same for
a late call (`LateInv`), and that a flow id nobody has yet has no row. What
makes these facts survive the steps of the others is `Monotone`: a flow keeps its
project, a deleted one stays deleted, and a reachable one stays reachable as long
as it exists. `Bystander` proves that once for all requests that wait, so each
action is left with the one request it moves. `ForeignUntouched`, the action
property, then follows call by call. The assumptions are the five named ones of
FlowBuild; none restricts the faults.

`Verification`, `Deployment` and `Planning` are the three properties of FlowProtocol, for
any number of requests, flows and tenants. `OneMaker` says that a flow was made by
one request; without late calls and reimports (`Punctual`) only that request changes
the flow's stamp, draft and published graph (`Advances`), so that what it verified is
still there when it publishes, and what it published when it answers, although every
call may be repeated and owners switch the flow on and off or delete it (`JobInv`). A
plan's draft has a maker that has ended (`PlanInv`). With a late IMPORT_FLOW, or the
reimport's weaker check, `PublishedIsVerified` is false.

**ConnectionsProofs.** `GuardedStepsUseListed` and `DanglingWasUnread`. A flow's graph
changes hands when it is reimported, so the facts are about the request whose graph
it is (`by`). `IInv` adds that what is about to be imported was let through, or
held back, by the guards for the list as it was seen (`Decided`), that a graph is the
one its request has decided on and does not change any more once imported
(`Graph`, `Past`), that who is about to publish publishes a graph that was let
through, its own or one that came over it (`Placed`), that a delete which was not
refused had not found its name in the graphs it read (`Looked`), and that only a
delete makes a row disappear (`GoneIsDeleted`). `ChosenIsActive` says what the
gate returns for any list.

**SseSessionsProofs.** `RunsInOwnProject` needs that a message on its way to the tool
has passed the comparison of the tenants (`Checked`) and that a verdict is
not given twice, so that no rotation can change it (`Entered`). `RotationKeepsAKey`
needs that a run revokes only keys of the project it is about to give one to
(`OwnVictims`), which holds because a key's project never changes.

**ProjectMemoryProofs.** `BornWithIdentity`, `MemoryIsWhole` and the action property
`CompleteStays`. The heart is `OneCreator`: in READ COMMITTED only the UNIQUE
`project_id` keeps two creators apart, so while the project is missing whoever is in
a transaction is about to make it (`Missing`), and once it is made every request
has found its one identity (`OneIdentity`). `CompleteStays` follows because a row
that is found is only added to.

**PieceRegistryProofs.** For the files `LoneRunRepairs`, for any number of runs, pieces
and indexes: while a run that began to write alone stays alone (`NobodyElse`), what
it wrote is still there, and from the moment it loaded the files they are its records
(`Progress`), so what others left behind is overwritten or included. For the table
`ZeroMeansVaulted`, for any number of syncs and scorings: what is fetched is no older
than what was listed (`FetchedIsNoOlder`), rows are never deleted (`TableGrows`), and
what a run without failures is through with, skipped or fetched, is in the table
(`WorkedIsVaulted`).

Not provable here and left to TLC: liveness under fairness (`OwnedSagaSettles`,
`DueIsServed`, `PendingIsDelivered`, `UninstallTakesEffect`, `RequestsEnd`,
`AcceptedArrives`), and the three counterexamples. The inductive invariants were
themselves checked by TLC on the instances of the runs before they were proved. The
type invariants of `Connections`, `SseSessions`, `TokenRefresh` and `RevocationWebhook` are theorems,
those of `ProjectMemory`, `PieceFiles` and `PieceVault` part of the proofs' invariants; no
run repeats them.

## 5. Plan

Done: the vault and its three writers, the flow builds, connections, tenants and MCP
sessions, project memory, both piece registries. Left, in this order (the runs are
meant to be repeated on every change, so a new question joins a run of its module,
or replaces one, before it becomes a run of its own):

1. `OAuthSystem`: handshake, worker and webhooks over one vault, with the token
   that falls due before its saga is finalized.
2. The MCP tools `manage_flow` and `update_flow` as requests of `FlowBuild`, and
   `Connections` composed with it.
3. An abstract specification of `FlowBuild` ("a flow is unknown, draft, deployed
   or gone, and a request says which"), and the refinement.
4. Proofs: the refinement of 3, step by step, and the invariants of 1 from those of
   its three components.

## 6. Not modelled

The MCP tools `manage_flow` and `update_flow`, which make the calls of PATCH and
reimport without ownership gate and eviction; the webhook pulse; the compiled
tree. Cryptography beyond "opens or does not open"; HTTP, HTML and JSON shapes; the
language model and text extraction of the ingestion; static template and preset
data; `piece_validator` and the scores, which are pure functions over one piece's
metadata; the readers' copy of the file registry and the schema cache;
`last_used_at` and the audit trail of the authentication; the MCP tools themselves,
of which `SseSessions` knows only in which project they run; listings, health and
test endpoints, which only read; reports, migrations and the deployment tool. The 24 h
lifetime of the webhook's deduplication key outlives the sender's retries and is left out. The `_refresh_loop` reads
`summary["due"]`, a key that does not exist; the exception is caught and logged
in each cycle and changes no state.
