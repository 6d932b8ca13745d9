------------------------------ MODULE OAuthSaga ------------------------------
(***************************************************************************)
(* The OAuth handshake of oauth_routes.py: POST /{provider}/initiate, any  *)
(* number of deliveries of GET /{provider}/callback for the same state,    *)
(* and the revocation webhook that shares the token table with them.       *)
(*                                                                         *)
(* Four stores that no transaction spans: the oauth_sagas and              *)
(* encrypted_tokens tables (one database, so a handler's transaction over  *)
(* both is one step), the single-use nonces in Redis, the provider, and    *)
(* the connections held by Activepieces (AP).  A handler gives up the      *)
(* event loop at every await, so every await is a step of its own.         *)
(*                                                                         *)
(* A callback delivery names the one token row it may insert (the row id   *)
(* is a fresh UUID in the code), and a saga names its nonce and the        *)
(* external id "siyadah-<saga id>" of its AP connection.  Rows of          *)
(* different tenants meet only in the webhook, so Accounts holds whole     *)
(* (tenant, provider, account) triples and a Slack team is a set of them.  *)
(***************************************************************************)
EXTENDS TokenVault

CONSTANTS
    Sagas,       \* handshakes started by /initiate
    Callbacks,   \* deliveries of /callback (bounds how often a state arrives)
    Accounts,    \* (tenant, provider, provider_account_id) triples
    Teams,       \* sets of accounts one revocation event names
    None,        \* a NULL foreign key, or no saga yet
    Faults       \* which faults the environment may produce

FaultKinds ==
    {"crash",           \* a handler stops between two awaits: the process is
                        \* killed, or a failure-handling transaction raises
     "redis",           \* Redis refuses a call
     "db",              \* a transaction of the happy path raises
     "provider",        \* the code exchange fails
     "denied",          \* the provider redirects with error=...
     "ap_reject",       \* AP answers >= 400 or is unreachable
     "ap_lost_reply",   \* AP stores the connection, the answer is lost
     "ap_cleanup",      \* the best-effort DELETE has no effect
     "revocation"}      \* the provider reports the account revoked

ASSUME FaultsAssumption == Faults \subseteq FaultKinds
ASSUME NamesAssumption ==
    /\ None \notin Callbacks \cup Sagas
    /\ NoAccount \notin Accounts
    /\ \A team \in Teams : team \subseteq Accounts

VARIABLES
    sagas,      \* oauth_sagas: status and encrypted_token_id
    rows,       \* encrypted_tokens: status, account, ap_connection_external_id
    nonces,     \* sagas whose nonce is in Redis
    expired,    \* sagas whose state token is past its exp claim
    conns,      \* AP connections, named by their saga
    exchanged,  \* callbacks whose code exchange reached the provider
    init,       \* progress of each /initiate handler
    cb          \* each /callback handler: pc, its saga, parsed account and the
                \* rows its open transaction has found ACTIVE

vars == <<sagas, rows, nonces, expired, conns, exchanged, init, cb>>

SagaStatus == {"none", "INITIATED", "TOKEN_OBTAINED", "COMPLETED",
               "COMPENSATED", "FAILED"}
InitPC == {"new", "register", "rollback", "returned", "failed"}

\* Handler positions at which the handler owns the saga: it took the nonce.
OwnerPC == {"exchange", "persist", "insert", "link", "finalize", "unlink",
            "compensate"}
BusyPC == OwnerPC \cup {"consume", "fail"}
CallbackPC == BusyPC \cup {"idle", "done"}

AbsentRow == [status |-> "absent", account |-> NoAccount, ext |-> None]
IdleCallback == [pc |-> "idle", saga |-> None, account |-> NoAccount, found |-> {}]

Init ==
    /\ sagas = [s \in Sagas |-> [status |-> "none", token |-> None]]
    /\ rows = [c \in Callbacks |-> AbsentRow]
    /\ nonces = {}
    /\ expired = {}
    /\ conns = {}
    /\ exchanged = {}
    /\ init = [s \in Sagas |-> "new"]
    /\ cb = [c \in Callbacks |-> IdleCallback]

\* A transaction lasts for one position, so moving on ends it.
Goto(c, label) == cb' = [cb EXCEPT ![c].pc = label, ![c].found = {}]
InitGoto(s, label) == init' = [init EXCEPT ![s] = label]

(***************************************************************************)
(* POST /{provider}/initiate                                               *)
(***************************************************************************)

\* make_state, gen_pkce, then INSERT the saga row and commit.
InsertSaga(s) ==
    /\ init[s] = "new"
    /\ sagas' = [sagas EXCEPT ![s].status = "INITIATED"]
    /\ InitGoto(s, "register")
    /\ UNCHANGED <<rows, nonces, expired, conns, exchanged, cb>>

\* NonceStore.register: SET key tenant NX EX 300.  After it only a non-fatal
\* audit row is written and the authorization URL goes to the user.
RegisterNonce(s) ==
    /\ init[s] = "register"
    /\ nonces' = nonces \cup {s}
    /\ InitGoto(s, "returned")
    /\ UNCHANGED <<sagas, rows, expired, conns, exchanged, cb>>

\* SET raises: the handler goes on to delete the saga row.  _get_redis()
\* raises 503 outside the try block: the handler ends with the row in place.
RegisterFails(s) ==
    /\ "redis" \in Faults
    /\ init[s] = "register"
    /\ \E label \in {"rollback", "failed"} : InitGoto(s, label)
    /\ UNCHANGED <<sagas, rows, nonces, expired, conns, exchanged, cb>>

DeleteSaga(s) ==
    /\ init[s] = "rollback"
    /\ sagas' = [sagas EXCEPT ![s] = [status |-> "none", token |-> None]]
    /\ InitGoto(s, "failed")
    /\ UNCHANGED <<rows, nonces, expired, conns, exchanged, cb>>

CrashInitiate(s) ==
    /\ "crash" \in Faults
    /\ init[s] \in {"register", "rollback"}
    /\ InitGoto(s, "failed")
    /\ UNCHANGED <<sagas, rows, nonces, expired, conns, exchanged, cb>>

(***************************************************************************)
(* Time: the state token expires 300 s after make_state, the nonce 300 s   *)
(* after the later register call.                                          *)
(***************************************************************************)
StateExpires(s) ==
    /\ init[s] # "new"
    /\ s \notin expired
    /\ expired' = expired \cup {s}
    /\ UNCHANGED <<sagas, rows, nonces, conns, exchanged, init, cb>>

NonceExpires(s) ==
    /\ s \in nonces \cap expired
    /\ nonces' = nonces \ {s}
    /\ UNCHANGED <<sagas, rows, expired, conns, exchanged, init, cb>>

(***************************************************************************)
(* GET /{provider}/callback                                                *)
(***************************************************************************)

\* verify_state and the SELECT by nonce: an expired state answers 400 and a
\* saga that is not INITIATED answers 409, both leaving everything as it is.
\* The saga row is certainly there, since the URL was returned; its tenant and
\* provider are those of the signed state, and only one provider exists.
DeliverCode(c, s) ==
    /\ cb[c].pc = "idle"
    /\ init[s] = "returned"
    /\ LET accepted == s \notin expired /\ sagas[s].status = "INITIATED"
       IN cb' = [cb EXCEPT ![c] =
                    [pc |-> IF accepted THEN "consume" ELSE "done",
                     saga |-> s, account |-> NoAccount, found |-> {}]]
    /\ UNCHANGED <<sagas, rows, nonces, expired, conns, exchanged, init>>

\* error=...: the saga is looked up from the state's payload, whatever its
\* age or status, and goes to _mark_saga_failed.
DeliverError(c, s) ==
    /\ "denied" \in Faults
    /\ cb[c].pc = "idle"
    /\ init[s] = "returned"
    /\ cb' = [cb EXCEPT ![c] =
                  [pc |-> "fail", saga |-> s, account |-> NoAccount, found |-> {}]]
    /\ UNCHANGED <<sagas, rows, nonces, expired, conns, exchanged, init>>

\* Faulty variant: GET instead of GETDEL leaves the nonce in place.
ConsumeByGet(c) ==
    /\ cb[c].pc = "consume"
    /\ Goto(c, IF cb[c].saga \in nonces THEN "exchange" ELSE "fail")
    /\ UNCHANGED <<sagas, rows, nonces, expired, conns, exchanged, init>>

\* NonceStore.consume: GETDEL.  A missing nonce sends the handler to
\* _mark_saga_failed(step = nonce_consume).
ConsumeNonce(c) ==
    LET s == cb[c].saga IN
    /\ cb[c].pc = "consume"
    /\ nonces' = nonces \ {s}
    /\ Goto(c, IF s \in nonces THEN "exchange" ELSE "fail")
    /\ UNCHANGED <<sagas, rows, expired, conns, exchanged, init>>

\* _get_redis() is None or GETDEL raises: neither is a StateError, so the
\* handler ends and the saga stays INITIATED.
ConsumeFails(c) ==
    /\ "redis" \in Faults
    /\ cb[c].pc = "consume"
    /\ Goto(c, "done")
    /\ UNCHANGED <<sagas, rows, nonces, expired, conns, exchanged, init>>

\* _exchange_code returns a parsed response; the provider may send no account.
ExchangeCode(c) ==
    /\ cb[c].pc = "exchange"
    /\ exchanged' = exchanged \cup {c}
    /\ \E a \in Accounts \cup {NoAccount} :
          cb' = [cb EXCEPT ![c].pc = "persist", ![c].account = a]
    /\ UNCHANGED <<sagas, rows, nonces, expired, conns, init>>

\* Faulty variant: the error is answered but the saga is not marked.
ExchangeFailsUnmarked(c) ==
    /\ "provider" \in Faults
    /\ cb[c].pc = "exchange"
    /\ exchanged' = exchanged \cup {c}
    /\ Goto(c, "done")
    /\ UNCHANGED <<sagas, rows, nonces, expired, conns, init>>

ExchangeFails(c) ==
    /\ "provider" \in Faults
    /\ cb[c].pc = "exchange"
    /\ exchanged' = exchanged \cup {c}
    /\ Goto(c, "fail")
    /\ UNCHANGED <<sagas, rows, nonces, expired, conns, init>>

(***************************************************************************)
(* _persist_tokens: UPDATE, INSERT, UPDATE and commit in one READ          *)
(* COMMITTED transaction.  The revoking UPDATE sees the rows committed     *)
(* before it and no other, so handlers of one account may overlap: each    *)
(* finds what was there and none finds the other's insert.  The effects    *)
(* appear at the commit.  Until then the row locks hold up whoever writes  *)
(* a found row and the unique index whoever adds an equal key; both, once  *)
(* let go, look again at what is committed, which is what the step of the  *)
(* commit does.  Who waits therefore only decides who commits first.       *)
(***************************************************************************)
FoundRows(c) ==
    {d \in Callbacks : /\ rows[d].status = "ACTIVE"
                       /\ rows[d].account \in {cb[c].account} \ {NoAccount}}

\* The rows of found that are still ACTIVE become REVOKED.
Superseded(found) ==
    [d \in Callbacks |-> IF d \in found /\ rows[d].status = "ACTIVE"
                         THEN [rows[d] EXCEPT !.status = "REVOKED"]
                         ELSE rows[d]]

\* UPDATE ... WHERE status = 'ACTIVE', if the provider named an account.
RevokePredecessor(c) ==
    /\ cb[c].pc = "persist"
    /\ UniqueKeyHolds(Superseded(FoundRows(c)))
    /\ cb' = [cb EXCEPT ![c].pc = "insert", ![c].found = FoundRows(c)]
    /\ UNCHANGED <<sagas, rows, nonces, expired, conns, exchanged, init>>

\* Faulty variant: the insert alone.
InsertedRows(c) ==
    [rows EXCEPT
        ![c] = [status |-> "ACTIVE", account |-> cb[c].account, ext |-> None]]

PersistedRows(c) ==
    [Superseded(cb[c].found) EXCEPT
        ![c] = [status |-> "ACTIVE", account |-> cb[c].account, ext |-> None]]

\* INSERT, the UPDATE of the saga and the commit.
InsertToken(c) ==
    LET s == cb[c].saga IN
    /\ cb[c].pc = "insert"
    /\ UniqueKeyHolds(PersistedRows(c))
    /\ rows' = PersistedRows(c)
    /\ sagas' = [sagas EXCEPT ![s] = [status |-> "TOKEN_OBTAINED", token |-> c]]
    /\ Goto(c, "link")
    /\ UNCHANGED <<nonces, expired, conns, exchanged, init>>

\* The constraint refuses the UPDATE or the INSERT, or another error rolls the
\* transaction back: the exchanged tokens are dropped.
PersistFails(c) ==
    /\ \/ cb[c].pc = "persist" /\ ~UniqueKeyHolds(Superseded(FoundRows(c)))
       \/ cb[c].pc = "insert" /\ ~UniqueKeyHolds(PersistedRows(c))
       \/ cb[c].pc \in {"persist", "insert"} /\ "db" \in Faults
    /\ Goto(c, "fail")
    /\ UNCHANGED <<sagas, rows, nonces, expired, conns, exchanged, init>>

\* _create_ap_connection: an upsert by external id.
CreateConnection(c) ==
    /\ cb[c].pc = "link"
    /\ conns' = conns \cup {cb[c].saga}
    /\ Goto(c, "finalize")
    /\ UNCHANGED <<sagas, rows, nonces, expired, exchanged, init>>

\* It raises: AP refused, or AP stored the connection and the reply was lost,
\* was not JSON, or carried no id.  Either way the handler only compensates.
CreateConnectionFails(c) ==
    /\ cb[c].pc = "link"
    /\ \/ "ap_reject" \in Faults /\ conns' = conns
       \/ "ap_lost_reply" \in Faults /\ conns' = conns \cup {cb[c].saga}
    /\ Goto(c, "compensate")
    /\ UNCHANGED <<sagas, rows, nonces, expired, exchanged, init>>

\* Faulty variants: the saga stops at the logical waypoint; the token row is
\* not stamped with the external id.
FinalizeAtWaypoint(c) ==
    /\ cb[c].pc = "finalize"
    /\ rows' = [rows EXCEPT ![c].ext = cb[c].saga]
    /\ sagas' = [sagas EXCEPT ![cb[c].saga].status = "AP_CONNECTION_CREATED"]
    /\ Goto(c, "done")
    /\ UNCHANGED <<nonces, expired, conns, exchanged, init>>

FinalizeUnstamped(c) ==
    /\ cb[c].pc = "finalize"
    /\ sagas' = [sagas EXCEPT ![cb[c].saga].status = "COMPLETED"]
    /\ Goto(c, "done")
    /\ UNCHANGED <<rows, nonces, expired, conns, exchanged, init>>

\* _finalize_saga_completed: both UPDATEs go by id, whatever the row or the
\* saga has become meanwhile.
Finalize(c) ==
    LET s == cb[c].saga IN
    /\ cb[c].pc = "finalize"
    /\ rows' = [rows EXCEPT ![c].ext = s]
    /\ sagas' = [sagas EXCEPT ![s].status = "COMPLETED"]
    /\ Goto(c, "done")
    /\ UNCHANGED <<nonces, expired, conns, exchanged, init>>

\* Faulty variants: two transactions, the second of which fails; no attempt to
\* take the AP connection back.
FinalizeFailsHalfway(c) ==
    /\ "db" \in Faults
    /\ cb[c].pc = "finalize"
    /\ rows' = [rows EXCEPT ![c].ext = cb[c].saga]
    /\ Goto(c, "unlink")
    /\ UNCHANGED <<sagas, nonces, expired, conns, exchanged, init>>

FinalizeFailsKeepingConnection(c) ==
    /\ "db" \in Faults
    /\ cb[c].pc = "finalize"
    /\ Goto(c, "compensate")
    /\ UNCHANGED <<sagas, rows, nonces, expired, conns, exchanged, init>>

FinalizeFails(c) ==
    /\ "db" \in Faults
    /\ cb[c].pc = "finalize"
    /\ Goto(c, "unlink")
    /\ UNCHANGED <<sagas, rows, nonces, expired, conns, exchanged, init>>

\* The best-effort DELETE of the AP connection: its status code is not read
\* and its exceptions are logged.
Unlink(c) ==
    /\ cb[c].pc = "unlink"
    /\ \/ conns' = conns \ {cb[c].saga}
       \/ "ap_cleanup" \in Faults /\ conns' = conns
    /\ Goto(c, "compensate")
    /\ UNCHANGED <<sagas, rows, nonces, expired, exchanged, init>>

\* Faulty variant: the status is written, the DELETE forgotten.
CompensateKeepingRow(c) ==
    /\ cb[c].pc = "compensate"
    /\ sagas' = [sagas EXCEPT ![cb[c].saga] = [status |-> "COMPENSATED", token |-> None]]
    /\ Goto(c, "done")
    /\ UNCHANGED <<rows, nonces, expired, conns, exchanged, init>>

\* _compensate_ap_failure: delete the row, mark the saga, in one transaction.
Compensate(c) ==
    LET s == cb[c].saga IN
    /\ cb[c].pc = "compensate"
    /\ rows' = [rows EXCEPT ![c] = AbsentRow]
    /\ sagas' = [sagas EXCEPT ![s] = [status |-> "COMPENSATED", token |-> None]]
    /\ Goto(c, "done")
    /\ UNCHANGED <<nonces, expired, conns, exchanged, init>>

\* Faulty variant: the failing handler also clears encrypted_token_id.
MarkFailedClearing(c) ==
    /\ cb[c].pc = "fail"
    /\ sagas' = [sagas EXCEPT ![cb[c].saga] = [status |-> "FAILED", token |-> None]]
    /\ Goto(c, "done")
    /\ UNCHANGED <<rows, nonces, expired, conns, exchanged, init>>

\* _mark_saga_failed: every status but FAILED is overwritten.
MarkFailed(c) ==
    /\ cb[c].pc = "fail"
    /\ sagas' = [sagas EXCEPT ![cb[c].saga].status = "FAILED"]
    /\ Goto(c, "done")
    /\ UNCHANGED <<rows, nonces, expired, conns, exchanged, init>>

CrashCallback(c) ==
    /\ "crash" \in Faults
    /\ cb[c].pc \in BusyPC
    /\ Goto(c, "done")
    /\ UNCHANGED <<sagas, rows, nonces, expired, conns, exchanged, init>>

(***************************************************************************)
(* _revoke_slack_team (oauth_webhooks.py): every ACTIVE row of the team in *)
(* one transaction.  If the unique constraint refuses one row, none moves. *)
(***************************************************************************)
RevokeTeam(team) ==
    /\ "revocation" \in Faults
    /\ UniqueKeyHolds(RevokeActive(rows, team))
    /\ rows' = RevokeActive(rows, team)
    /\ UNCHANGED <<sagas, nonces, expired, conns, exchanged, init, cb>>

-----------------------------------------------------------------------------

InitiateStep(s) ==
    InsertSaga(s) \/ RegisterNonce(s) \/ RegisterFails(s) \/ DeleteSaga(s)
        \/ CrashInitiate(s)

Passing(s) == StateExpires(s) \/ NonceExpires(s)

\* What a handler does next once it has been entered.
CallbackStep(c) ==
    \/ ConsumeNonce(c) \/ ConsumeFails(c)
    \/ ExchangeCode(c) \/ ExchangeFails(c)
    \/ RevokePredecessor(c) \/ InsertToken(c) \/ PersistFails(c)
    \/ CreateConnection(c) \/ CreateConnectionFails(c)
    \/ Finalize(c) \/ FinalizeFails(c)
    \/ Unlink(c) \/ Compensate(c) \/ MarkFailed(c)

Next ==
    \/ \E s \in Sagas : InitiateStep(s) \/ Passing(s)
    \/ \E c \in Callbacks, s \in Sagas : DeliverCode(c, s) \/ DeliverError(c, s)
    \/ \E c \in Callbacks : CallbackStep(c) \/ CrashCallback(c)
    \/ \E team \in Teams : RevokeTeam(team)

Spec == Init /\ [][Next]_vars

(***************************************************************************)
(* Fairness: an entered handler runs on, because the event loop resumes it *)
(* and every provider and AP call has a 10 or 30 second timeout.  Time     *)
(* passes.  Nothing is assumed of the user, who may never come back, nor   *)
(* of an interrupted handler.                                              *)
(***************************************************************************)
FairSpec ==
    /\ Spec
    /\ \A c \in Callbacks : WF_vars(CallbackStep(c))
    /\ \A s \in Sagas : WF_vars(Passing(s))
-----------------------------------------------------------------------------
(***************************************************************************)
(* Properties                                                              *)
(***************************************************************************)

\* The types of the two tables, of Redis, AP and of the handlers.
TypeOK ==
    /\ sagas \in [Sagas -> [status : SagaStatus, token : Callbacks \cup {None}]]
    /\ rows \in [Callbacks -> [status : RowStatus,
                               account : Accounts \cup {NoAccount},
                               ext : Sagas \cup {None}]]
    /\ nonces \subseteq Sagas
    /\ expired \subseteq Sagas
    /\ conns \subseteq Sagas
    /\ exchanged \subseteq Callbacks
    /\ init \in [Sagas -> InitPC]
    /\ cb \in [Callbacks -> [pc : CallbackPC, saga : Sagas \cup {None},
                             account : Accounts \cup {NoAccount},
                             found : SUBSET Callbacks]]

\* However often a callback is delivered, and however the deliveries
\* interleave, one of them at most redeems the saga's authorization code:
\* the GETDEL of NonceStore.consume is the only gate, since the INITIATED
\* check before it reads a row that may change before the consume.
OneExchangePerSaga ==
    \A c, d \in exchanged : cb[c].saga = cb[d].saga => c = d

\* A COMPLETED saga is complete in all three stores: its token row exists and
\* carries the external id (_finalize_saga_completed), and AP holds the
\* connection.  No late handler of the saga takes any of them back.
CompletedIsLinked ==
    \A s \in Sagas : sagas[s].status = "COMPLETED" =>
        /\ s \in conns
        /\ \E c \in Callbacks :
              /\ sagas[s].token = c
              /\ Present(rows[c])
              /\ rows[c].ext = s

\* After _compensate_ap_failure no delivery of the saga has a row in the
\* vault, nor gets one afterwards.
CompensatedIsWiped ==
    \A s \in Sagas : sagas[s].status = "COMPENSATED" =>
        \A c \in Callbacks : cb[c].saga = s => ~Present(rows[c])

\* Every stored row is reachable from its saga: an operator can always get
\* from a credential to the handshake that made it, also when a racing
\* handler has marked that saga FAILED.
RowsAreReachable ==
    \A c \in Callbacks : Present(rows[c]) => sagas[cb[c].saga].token = c

\* Once the revoking UPDATE of _persist_tokens has gone through, the unique
\* constraint refuses the INSERT only because a handshake that overlaps it has
\* put in a row of the account since: never because of the row it found, of an
\* older REVOKED one, of a compensation or of a revocation webhook.
RefusedOnlyByOverlap ==
    \A c \in Callbacks :
        cb[c].pc = "insert" /\ ~UniqueKeyHolds(PersistedRows(c)) =>
            \E d \in Callbacks \ cb[c].found :
                /\ rows[d].status = "ACTIVE"
                /\ rows[d].account = cb[c].account
                /\ cb[d].saga # cb[c].saga

\* The two outcomes exclude each other for good: a COMPLETED saga is never
\* compensated or reopened and a COMPENSATED one is never completed or
\* reopened.  Only _mark_saga_failed, run by another delivery, may still
\* overwrite either.
OutcomesExclude ==
    [][\A s \in Sagas : sagas[s].status \in {"COMPLETED", "COMPENSATED"} =>
          sagas'[s].status \in {sagas[s].status, "FAILED"}]_vars

\* No handler of the saga is under way.
Quiet(s) == \A c \in Callbacks : cb[c].saga = s => cb[c].pc \notin BusyPC

\* The states of a saga that left nothing behind, and of one that is whole.
RolledBack(s) ==
    /\ s \notin conns
    /\ \A c \in Callbacks : cb[c].saga = s => ~Present(rows[c])
Green(s) == sagas[s].status = "COMPLETED"

\* Sovereign No-Ghost, where it holds: a saga whose callback was delivered
\* once is, when the handler has ended, whole or without a trace.  The run
\* that checks it has every fault but a crash, a lost AP reply and an AP
\* clean-up without effect.
NoGhostOnSingleDelivery ==
    \A s \in Sagas :
        /\ Quiet(s)
        /\ \A c, d \in Callbacks : cb[c].saga = s /\ cb[d].saga = s => c = d
        => Green(s) \/ RolledBack(s)

\* A handler that took the nonce settles its saga: it does not stay INITIATED
\* or TOKEN_OBTAINED (without crashes, which nothing recovers from).
OwnedSagaSettles ==
    \A s \in Sagas :
        (\E c \in Callbacks : cb[c].saga = s /\ cb[c].pc \in OwnerPC)
            ~> sagas[s].status \in {"COMPLETED", "COMPENSATED", "FAILED"}

(***************************************************************************)
(* The inductive invariant behind the four properties of the stores.  A    *)
(* delivery owns its saga from the moment it takes the nonce.              *)
(***************************************************************************)
Owns(c) == cb[c].pc \in OwnerPC \/ c \in exchanged

\* A handler runs for a saga whose URL was returned, which therefore has a
\* row that /initiate no longer touches.
Entered ==
    /\ \A c \in Callbacks : cb[c].pc # "idle" =>
          cb[c].saga \in Sagas /\ init[cb[c].saga] = "returned"
    /\ \A s \in nonces : init[s] = "returned"

\* The nonce is gone once a delivery owns the saga, so there is one owner.
SingleOwner ==
    /\ \A c \in Callbacks : Owns(c) => cb[c].pc # "idle" /\ cb[c].saga \notin nonces
    /\ \A c, d \in Callbacks :
          Owns(c) /\ Owns(d) /\ cb[c].saga = cb[d].saga => c = d

\* What the position of a handler says of its row and of AP.
Positions ==
    \A c \in Callbacks :
        /\ cb[c].pc \in {"idle", "consume", "exchange"} => c \notin exchanged
        /\ cb[c].pc \in {"idle", "consume", "exchange", "persist", "insert", "fail"}
              => ~Present(rows[c])
        /\ cb[c].pc \in {"persist", "insert"} => c \in exchanged
        /\ cb[c].pc \in {"link", "finalize", "unlink", "compensate"}
              => Present(rows[c]) /\ rows[c].ext = None
        /\ cb[c].pc = "finalize" => cb[c].saga \in conns
        /\ Present(rows[c]) => c \in exchanged

\* COMPLETED and COMPENSATED are the work of an owner that has ended.
Outcomes ==
    \A s \in Sagas :
        /\ sagas[s].status = "COMPLETED" =>
              /\ s \in conns
              /\ \E c \in Callbacks :
                    /\ sagas[s].token = c
                    /\ cb[c].saga = s
                    /\ cb[c].pc = "done"
                    /\ Present(rows[c])
                    /\ rows[c].ext = s
        /\ sagas[s].status = "COMPENSATED" =>
              \E c \in Callbacks :
                  /\ c \in exchanged
                  /\ cb[c].saga = s
                  /\ cb[c].pc = "done"
                  /\ ~Present(rows[c])

\* What the open transaction of a handler has found: at most the account's one
\* ACTIVE row, which no REVOKED row of the account stands beside, and whose
\* handler will not insert again.
Transactions ==
    \A c \in Callbacks : cb[c].pc = "insert" => \A d \in cb[c].found :
        /\ cb[d].pc \in {"link", "finalize", "unlink", "compensate", "done"}
        /\ rows[d].status = "ACTIVE" =>
              /\ rows[d].account = cb[c].account
              /\ cb[c].account # NoAccount
              /\ \A e \in Callbacks : rows[e].account = cb[c].account
                                      => rows[e].status # "REVOKED"

IInv == Entered /\ SingleOwner /\ Positions /\ Outcomes /\ RowsAreReachable

(***************************************************************************)
(* The credential of a saga, as CredentialContract sees it.                *)
(***************************************************************************)
Credential(s) ==
    LET mine == {c \in Callbacks : cb[c].saga = s} IN
    IF \E c \in mine : Present(rows[c]) /\ rows[c].ext = s THEN "linked"
    ELSE IF \E c \in mine : Present(rows[c]) THEN "held"
    ELSE IF \E c \in mine : c \in exchanged /\ cb[c].pc \notin {"persist", "insert"}
         THEN "closed"
    ELSE "open"

Contract == INSTANCE CredentialContract
                WITH cred <- [s \in Sagas |-> Credential(s)]

\* The handlers, however they interleave and wherever they crash, keep the
\* life cycle CredentialContract promises.
KeepsContract == Contract!Spec

(***************************************************************************)
(* What the repository says of the saga and the code does not keep.        *)
(***************************************************************************)

\* SOVEREIGN_PROTOCOL.md: a saga is either green end-to-end or fully rolled
\* back, and there are never orphaned tokens.
NoGhost == \A s \in Sagas : Quiet(s) => Green(s) \/ RolledBack(s)
=============================================================================
