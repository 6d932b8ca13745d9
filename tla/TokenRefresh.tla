---------------------------- MODULE TokenRefresh -----------------------------
(***************************************************************************)
(* The refresh worker of oauth_routes.py, one per replica: claim a batch   *)
(* of rows under a lease, and for each row either rotate its tokens at the *)
(* provider and push the new access token to Activepieces (AP), or only    *)
(* push again what an earlier cycle could not deliver.  Around it, the     *)
(* other writers of the table: reconnect, finalize, compensate, webhook.   *)
(*                                                                         *)
(* A task is the work of one replica on one row.  Its program counter has  *)
(* a label for every await between two effects; what it read before an     *)
(* await is kept in the task, as in the local variables of the code.       *)
(*                                                                         *)
(* A token is abstracted to its generation: the provider counts the access *)
(* tokens it issued and the refresh token it currently honours.  Two rows  *)
(* are two grants.                                                         *)
(***************************************************************************)
EXTENDS TokenVault, Naturals

CONSTANTS
    Replicas,   \* processes that run _refresh_loop
    Tokens,     \* row ids
    Accounts,   \* (tenant, provider, provider_account_id) triples
    None,       \* no lease, no lock
    NoToken,    \* encrypted_refresh_token IS NULL, or no refresh token given
    Faults,     \* which faults and provider traits may occur
    MaxFaults,  \* bound: how many faults may occur
    MaxIssued   \* bound: access tokens per grant after which none falls due

FaultKinds ==
    {"transient",       \* the provider answers another error, or nothing
     "lost_reply",      \* the provider rotates, its reply does not arrive
     "ap_reject",       \* AP refuses the upsert
     "ap_lost_reply",   \* AP applies the upsert, its reply does not arrive
     "redis",           \* a Redis call raises
     "db",              \* a transaction of the task raises
     "decrypt",         \* a row does not decrypt for want of the right key
     "crash",           \* a replica dies
     "shutdown",        \* a replica is cancelled: the finally blocks run
     "lease_lapse",     \* a task outlives its 300 s lease
     "lock_lapse"}      \* a task outlives its 300 s lock, taken later
Traits ==
    {"keep",            \* a refresh answer without a new refresh token
     "no_expiry",       \* a refresh answer without expires_in
     "short_lived",     \* tokens that fall due before the saga is finalized
     "no_refresh",      \* a grant without refresh token
     "revocation",      \* the user revokes the grant at the provider
     "reconnect"}       \* the user authorizes the account once more

ASSUME FaultsAssumption == Faults \subseteq FaultKinds \cup Traits
ASSUME BoundsAssumption == MaxFaults \in Nat /\ MaxIssued \in Nat
ASSUME NamesAssumption ==
    None \notin Replicas /\ NoToken \notin Nat /\ NoAccount \notin Accounts

VARIABLES
    rows,    \* encrypted_tokens, without processing_until
    lease,   \* processing_until: who stamped it last, if it is in the future
    lock,    \* oauth:refresh:lock:<token> in Redis: who set it
    task,    \* task[w][t]: what replica w does with row t
    grant,   \* the provider's side of the row's grant
    ap,      \* generation of the access token AP holds for the row
    budget   \* faults still to come

vars == <<rows, lease, lock, task, grant, ap, budget>>

FullPC == {"load", "defer", "lock", "call", "corrupt", "revoke", "store", "push", "flag"}
ApPC == {"aplock", "apload", "appush", "apclear"}
TaskPC == {"idle", "unlock", "release"} \cup FullPC \cup ApPC

\* Labels at which a task holds the mutex, as far as it knows.
Critical == {"call", "corrupt", "revoke", "store", "push", "flag",
             "apload", "appush", "apclear", "unlock"}

AbsentRow ==
    [status |-> "absent", account |-> NoAccount, linked |-> FALSE,
     refresh |-> NoToken, readable |-> TRUE, access |-> 0,
     when |-> "never", pending |-> FALSE]
IdleTask ==
    [pc |-> "idle", refresh |-> NoToken, readable |-> TRUE, linked |-> FALSE,
     access |-> 0, given |-> NoToken, lasts |-> TRUE, synced |-> FALSE,
     late |-> FALSE]

Init ==
    /\ rows = [t \in Tokens |-> AbsentRow]
    /\ lease = [t \in Tokens |-> None]
    /\ lock = [t \in Tokens |-> None]
    /\ task = [w \in Replicas |-> [t \in Tokens |-> IdleTask]]
    /\ grant = [t \in Tokens |-> [state |-> "none", refresh |-> 0, access |-> 0]]
    /\ ap = [t \in Tokens |-> 0]
    /\ budget = MaxFaults

At(w, t, label) == task[w][t].pc = label
Go(w, t, label) == task' = [task EXCEPT ![w][t].pc = label]

Fault(kind) == kind \in Faults /\ budget > 0 /\ budget' = budget - 1

\* UPDATE encrypted_tokens SET ... WHERE id = t: no row, no effect.
Update(t, row) == rows' = [rows EXCEPT ![t] = IF Present(@) THEN row ELSE @]

(***************************************************************************)
(* _claim_due_tokens: one statement picks ACTIVE rows that are due or have *)
(* ap_sync_pending and no live lease, and stamps the lease.  SKIP LOCKED   *)
(* and LIMIT may leave any of them out.  A replica awaits its whole batch  *)
(* before it claims again.                                                 *)
(***************************************************************************)
Eligible(t) ==
    /\ rows[t].status = "ACTIVE"
    /\ rows[t].when = "due" \/ rows[t].pending
    /\ lease[t] = None

\* Faulty variant: rows with a live lease are picked as well.
ClaimLeased(w) ==
    /\ \A t \in Tokens : At(w, t, "idle")
    /\ \E batch \in SUBSET {t \in Tokens : rows[t].status = "ACTIVE" /\ rows[t].when = "due"} \ {{}} :
          /\ lease' = [t \in Tokens |-> IF t \in batch THEN w ELSE lease[t]]
          /\ task' = [task EXCEPT ![w] = [t \in Tokens |->
                IF t \in batch THEN [IdleTask EXCEPT !.pc = "load"] ELSE IdleTask]]
    /\ UNCHANGED <<rows, lock, grant, ap, budget>>

Claim(w) ==
    /\ \A t \in Tokens : At(w, t, "idle")
    /\ \E batch \in SUBSET {t \in Tokens : Eligible(t)} \ {{}} :
          /\ lease' = [t \in Tokens |-> IF t \in batch THEN w ELSE lease[t]]
          /\ task' = [task EXCEPT ![w] = [t \in Tokens |->
                IF t \notin batch THEN IdleTask
                ELSE [IdleTask EXCEPT !.pc =
                        IF rows[t].when = "due" THEN "load" ELSE "aplock"]]]
    /\ UNCHANGED <<rows, lock, grant, ap, budget>>

(***************************************************************************)
(* _refresh_one_token                                                      *)
(***************************************************************************)

\* 1. The row is read before the mutex is taken.
LoadRow(w, t) ==
    LET row == rows[t] IN
    /\ At(w, t, "load")
    /\ \/ /\ row.status # "ACTIVE"
          /\ Go(w, t, "release")
       \/ /\ row.status = "ACTIVE" /\ row.refresh = NoToken
          /\ Go(w, t, "defer")
       \/ /\ row.status = "ACTIVE" /\ row.refresh # NoToken
          /\ task' = [task EXCEPT ![w][t] =
                [@ EXCEPT !.pc = "lock", !.refresh = row.refresh,
                          !.readable = row.readable, !.linked = row.linked]]
    /\ UNCHANGED <<rows, lease, lock, grant, ap, budget>>

\* No refresh token: refresh_at moves a year ahead.
Defer(w, t) ==
    /\ At(w, t, "defer")
    /\ Update(t, [rows[t] EXCEPT !.when = "never"])
    /\ Go(w, t, "release")
    /\ UNCHANGED <<lease, lock, grant, ap, budget>>

\* Where a task goes once it has the mutex: decryption follows at once.
AfterLock(w, t) ==
    IF At(w, t, "aplock") THEN "apload"
    ELSE IF task[w][t].readable THEN "call" ELSE "corrupt"

\* Faulty variant: SET without NX.
AcquireLockAnyway(w, t) ==
    /\ task[w][t].pc \in {"lock", "aplock"}
    /\ lock' = [lock EXCEPT ![t] = w]
    /\ Go(w, t, AfterLock(w, t))
    /\ UNCHANGED <<rows, lease, grant, ap, budget>>

\* 2. SET oauth:refresh:lock:<token> NX EX 300.
AcquireLock(w, t) ==
    /\ task[w][t].pc \in {"lock", "aplock"}
    /\ IF lock[t] = None
       THEN lock' = [lock EXCEPT ![t] = w] /\ Go(w, t, AfterLock(w, t))
       ELSE lock' = lock /\ Go(w, t, "release")
    /\ UNCHANGED <<rows, lease, grant, ap, budget>>

\* _get_redis answers 503 or SET raises, both outside the try block.
RedisFails(w, t) ==
    /\ Fault("redis")
    /\ task[w][t].pc \in {"load", "lock", "aplock"}
    /\ Go(w, t, "release")
    /\ UNCHANGED <<rows, lease, lock, grant, ap>>

\* 3. The mutex is held and a key is missing or wrong: the full path goes on
\* to mark the row, the AP path gives up.
DecryptFails(w, t) ==
    /\ Fault("decrypt")
    /\ \/ At(w, t, "call") /\ Go(w, t, "corrupt")
       \/ At(w, t, "appush") /\ Go(w, t, "unlock")
    /\ UNCHANGED <<rows, lease, lock, grant, ap>>

\* UPDATE ... SET status = CORRUPTED | REVOKED WHERE id = ...  If the account
\* has such a row already the unique constraint refuses it: the exception
\* ends the task and the row stays ACTIVE.
MarkStatus(w, t) ==
    LET status == IF At(w, t, "corrupt") THEN "CORRUPTED" ELSE "REVOKED"
        marked == IF Present(rows[t])
                  THEN [rows EXCEPT ![t].status = status] ELSE rows
    IN /\ task[w][t].pc \in {"corrupt", "revoke"}
       /\ rows' = IF UniqueKeyHolds(marked) THEN marked ELSE rows
       /\ Go(w, t, "unlock")
       /\ UNCHANGED <<lease, lock, grant, ap, budget>>

\* The provider honours the refresh token it issued last.
Honours(t, refresh) == grant[t].state = "live" /\ grant[t].refresh = refresh

\* Effect of an honoured refresh at the provider.  It issues an access token
\* and as a rule a new refresh token, which ends the old one.
Issues(t, refresh) ==
    grant' = [grant EXCEPT ![t].access = @ + 1, ![t].refresh = refresh]

\* 4. _refresh_with_provider.  A refused refresh token is a terminal code.
CallProvider(w, t) ==
    LET old == grant[t].refresh IN
    /\ At(w, t, "call")
    /\ \/ /\ Honours(t, task[w][t].refresh)
          /\ \E new \in {old + 1} \cup (IF "keep" \in Faults THEN {old} ELSE {}),
                lasts \in IF "no_expiry" \in Faults THEN BOOLEAN ELSE {TRUE} :
                /\ Issues(t, new)
                /\ task' = [task EXCEPT ![w][t] =
                      [@ EXCEPT !.pc = "store", !.access = grant[t].access + 1,
                                !.given = IF new = old THEN NoToken ELSE new,
                                !.lasts = lasts]]
       \/ /\ ~Honours(t, task[w][t].refresh)
          /\ Go(w, t, "revoke")
          /\ UNCHANGED grant
    /\ UNCHANGED <<rows, lease, lock, ap, budget>>

\* Any other error, or no reply: the row is left for the next cycle.
CallFails(w, t) ==
    /\ At(w, t, "call")
    /\ \/ Fault("transient") /\ UNCHANGED grant
       \/ Fault("lost_reply") /\ Honours(t, task[w][t].refresh) /\ Issues(t, grant[t].refresh + 1)
    /\ Go(w, t, "unlock")
    /\ UNCHANGED <<rows, lease, lock, ap>>

\* Faulty variant: the old refresh token is written back.
StoreOldRefresh(w, t) ==
    /\ At(w, t, "store")
    /\ Update(t, [rows[t] EXCEPT !.access = task[w][t].access,
                                 !.refresh = task[w][t].refresh,
                                 !.when = IF task[w][t].lasts THEN "later" ELSE "never"])
    /\ Go(w, t, "push")
    /\ UNCHANGED <<lease, lock, grant, ap, budget>>

\* Faulty variant: the rotation sets status to ACTIVE, as a new row has it.
StoreReviving(w, t) ==
    LET k == task[w][t] IN
    /\ At(w, t, "store")
    /\ Update(t, [rows[t] EXCEPT !.status = "ACTIVE", !.access = k.access,
                                 !.refresh = IF k.given = NoToken THEN k.refresh ELSE k.given,
                                 !.readable = k.given # NoToken,
                                 !.when = IF k.lasts THEN "later" ELSE "never"])
    /\ Go(w, t, "push")
    /\ UNCHANGED <<lease, lock, grant, ap, budget>>

\* 5-7. Everything is sealed under a fresh DEK and written by id, whatever the
\* status has become.  Without a new refresh token the old ciphertext is kept,
\* next to a wrapped DEK that does not open it.
StoreRotation(w, t) ==
    LET k == task[w][t] IN
    /\ At(w, t, "store")
    /\ Update(t, [rows[t] EXCEPT !.access = k.access,
                                 !.refresh = IF k.given = NoToken THEN k.refresh ELSE k.given,
                                 !.readable = k.given # NoToken,
                                 !.when = IF k.lasts THEN "later" ELSE "never"])
    /\ Go(w, t, "push")
    /\ UNCHANGED <<lease, lock, grant, ap, budget>>

\* 8. _update_ap_connection, if the row had an external id when it was read.
PushToAP(w, t) ==
    /\ At(w, t, "push")
    /\ ap' = IF task[w][t].linked THEN [ap EXCEPT ![t] = task[w][t].access] ELSE ap
    /\ task' = [task EXCEPT ![w][t] = [@ EXCEPT !.pc = "flag", !.synced = TRUE]]
    /\ UNCHANGED <<rows, lease, lock, grant, budget>>

\* AP refuses, or applies the upsert and the reply is lost.
ApFault(w, t) ==
    \/ Fault("ap_reject") /\ ap' = ap
    \/ Fault("ap_lost_reply") /\ ap' = [ap EXCEPT ![t] = task[w][t].access]

\* Faulty variant: the failure is logged and forgotten.
PushFailsUnnoticed(w, t) ==
    /\ At(w, t, "push") /\ task[w][t].linked
    /\ ApFault(w, t)
    /\ task' = [task EXCEPT ![w][t] = [@ EXCEPT !.pc = "flag", !.synced = TRUE]]
    /\ UNCHANGED <<rows, lease, lock, grant>>

PushFails(w, t) ==
    /\ At(w, t, "push") /\ task[w][t].linked
    /\ ApFault(w, t)
    /\ Go(w, t, "flag")
    /\ UNCHANGED <<rows, lease, lock, grant>>

\* ap_sync_pending := not ap_synced, in a transaction of its own.
WriteFlag(w, t) ==
    /\ At(w, t, "flag")
    /\ Update(t, [rows[t] EXCEPT !.pending = ~task[w][t].synced])
    /\ Go(w, t, "unlock")
    /\ UNCHANGED <<lease, lock, grant, ap, budget>>

(***************************************************************************)
(* _retry_ap_only: here the row is read under the mutex.                   *)
(***************************************************************************)
LoadPending(w, t) ==
    LET row == rows[t] IN
    /\ At(w, t, "apload")
    /\ \/ /\ row.status # "ACTIVE" \/ ~row.pending
          /\ Go(w, t, "unlock")
       \/ /\ row.status = "ACTIVE" /\ row.pending /\ ~row.linked
          /\ Go(w, t, "apclear")
       \/ /\ row.status = "ACTIVE" /\ row.pending /\ row.linked
          /\ task' = [task EXCEPT ![w][t] =
                [@ EXCEPT !.pc = "appush", !.access = row.access]]
    /\ UNCHANGED <<rows, lease, lock, grant, ap, budget>>

RetryPush(w, t) ==
    /\ At(w, t, "appush")
    /\ ap' = [ap EXCEPT ![t] = task[w][t].access]
    /\ Go(w, t, "apclear")
    /\ UNCHANGED <<rows, lease, lock, grant, budget>>

\* Faulty variant: the flag is cleared although the push failed.
RetryPushFailsClearing(w, t) ==
    /\ At(w, t, "appush")
    /\ ApFault(w, t)
    /\ Go(w, t, "apclear")
    /\ UNCHANGED <<rows, lease, lock, grant>>

RetryPushFails(w, t) ==
    /\ At(w, t, "appush")
    /\ ApFault(w, t)
    /\ Go(w, t, "unlock")
    /\ UNCHANGED <<rows, lease, lock, grant>>

ClearFlag(w, t) ==
    /\ At(w, t, "apclear")
    /\ Update(t, [rows[t] EXCEPT !.pending = FALSE])
    /\ Go(w, t, "unlock")
    /\ UNCHANGED <<lease, lock, grant, ap, budget>>

(***************************************************************************)
(* The ends of both paths                                                  *)
(***************************************************************************)

\* A transaction raises: nothing is written.  The first read of the full path
\* and the deferral come before the try block, so there is no lock to give back.
DbFails(w, t) ==
    /\ Fault("db")
    /\ \/ /\ task[w][t].pc \in {"load", "defer"}
          /\ Go(w, t, "release")
       \/ /\ task[w][t].pc \in {"corrupt", "revoke", "store", "flag", "apload", "apclear"}
          /\ Go(w, t, "unlock")
    /\ UNCHANGED <<rows, lease, lock, grant, ap>>

\* finally: DEL lock, whoever holds it by now; its failure is ignored.
Unlock(w, t) ==
    /\ At(w, t, "unlock")
    /\ Go(w, t, "release")
    /\ \/ lock' = [lock EXCEPT ![t] = None] /\ UNCHANGED budget
       \/ Fault("redis") /\ lock' = lock
    /\ UNCHANGED <<rows, lease, grant, ap>>

\* finally: _release_lease, whoever holds it by now; its failure is logged.
ReleaseLease(w, t) ==
    /\ At(w, t, "release")
    /\ task' = [task EXCEPT ![w][t] = IdleTask]
    /\ \/ lease' = [lease EXCEPT ![t] = None] /\ UNCHANGED budget
       \/ Fault("db") /\ lease' = lease
    /\ UNCHANGED <<rows, lock, grant, ap>>

\* The process dies; its leases and locks live on.
Crash(w) ==
    /\ Fault("crash")
    /\ \E t \in Tokens : ~At(w, t, "idle")
    /\ task' = [task EXCEPT ![w] = [t \in Tokens |-> IdleTask]]
    /\ UNCHANGED <<rows, lease, lock, grant, ap>>

\* lifespan cancels the worker: tasks inside the try block unlock, then
\* release; a task still waiting for the semaphore leaves its lease behind.
Shutdown(w) ==
    /\ Fault("shutdown")
    /\ \E t \in Tokens : ~At(w, t, "idle")
    /\ \E waiting \in SUBSET {t \in Tokens : task[w][t].pc \in {"load", "aplock"}} :
          task' = [task EXCEPT ![w] = [t \in Tokens |->
              IF t \in waiting THEN IdleTask
              ELSE IF At(w, t, "idle") THEN task[w][t]
              ELSE [task[w][t] EXCEPT !.pc =
                        IF task[w][t].pc \in Critical THEN "unlock" ELSE "release"]]]
    /\ UNCHANGED <<rows, lease, lock, grant, ap>>

(***************************************************************************)
(* Time.  Lease and lock last 300 s each, and a task takes the lock later: *)
(* its lease ends first.  A lease whose task is gone and a lock no running *)
(* task holds just run out.                                                *)
(***************************************************************************)
BecomesDue(t) ==
    /\ rows[t].when = "later"
    /\ grant[t].access < MaxIssued
    /\ rows[t].linked \/ "short_lived" \in Faults
    /\ rows' = [rows EXCEPT ![t].when = "due"]
    /\ UNCHANGED <<lease, lock, task, grant, ap, budget>>

\* The lease of a task that is gone, or of one that runs on.
LeaseExpires(w, t) ==
    /\ \/ /\ At(w, t, "idle") /\ lease[t] = w
          /\ UNCHANGED <<task, budget>>
       \/ /\ ~At(w, t, "idle") /\ ~task[w][t].late
          /\ Fault("lease_lapse")
          /\ task' = [task EXCEPT ![w][t].late = TRUE]
    /\ lease' = [lease EXCEPT ![t] = IF @ = w THEN None ELSE @]
    /\ UNCHANGED <<rows, lock, grant, ap>>

\* Faulty variant: SET NX without EX.
LockStays(w, t) ==
    /\ lock[t] = w /\ task[w][t].late /\ Fault("lock_lapse")
    /\ lock' = [lock EXCEPT ![t] = None]
    /\ UNCHANGED <<rows, lease, task, grant, ap>>

LockExpires(w, t) ==
    /\ lock[t] = w
    /\ \/ task[w][t].pc \notin Critical /\ UNCHANGED budget
       \/ task[w][t].late /\ Fault("lock_lapse")
    /\ lock' = [lock EXCEPT ![t] = None]
    /\ UNCHANGED <<rows, lease, task, grant, ap>>

(***************************************************************************)
(* The other writers of the row (see OAuthSaga and oauth_webhooks.py)      *)
(***************************************************************************)

\* _persist_tokens: revoke the account's ACTIVE row, insert this one.  The AP
\* connection is created with the same access token.
Connect(t) ==
    /\ grant[t].state = "none"
    /\ "reconnect" \in Faults \/ \A u \in Tokens : grant[u].state = "none"
    /\ \E a \in Accounts \cup {NoAccount}, r \in {0, NoToken} :
          /\ r = NoToken => "no_refresh" \in Faults
          /\ rows' = [RevokeActive(rows, {a} \ {NoAccount}) EXCEPT
                ![t] = [AbsentRow EXCEPT !.status = "ACTIVE", !.account = a,
                                         !.refresh = r, !.when = "later"]]
    /\ UniqueKeyHolds(rows')
    /\ grant' = [grant EXCEPT ![t].state = "live"]
    /\ UNCHANGED <<lease, lock, task, ap, budget>>

\* _finalize_saga_completed stamps the external id; _compensate_ap_failure
\* deletes the row instead.
Finalize(t) ==
    /\ Present(rows[t]) /\ ~rows[t].linked
    /\ rows' = [rows EXCEPT ![t].linked = TRUE]
    /\ UNCHANGED <<lease, lock, task, grant, ap, budget>>

Compensate(t) ==
    /\ Present(rows[t]) /\ ~rows[t].linked
    /\ rows' = [rows EXCEPT ![t] = AbsentRow]
    /\ UNCHANGED <<lease, lock, task, grant, ap, budget>>

UserRevokes(t) ==
    /\ "revocation" \in Faults
    /\ grant[t].state = "live"
    /\ grant' = [grant EXCEPT ![t].state = "revoked"]
    /\ UNCHANGED <<rows, lease, lock, task, ap, budget>>

\* The webhook that reports it: the account's ACTIVE row becomes REVOKED.
Webhook(t) ==
    LET revoked == RevokeActive(rows, {rows[t].account} \ {NoAccount}) IN
    /\ grant[t].state = "revoked" /\ rows[t].status = "ACTIVE"
    /\ UniqueKeyHolds(revoked)
    /\ rows' = revoked
    /\ UNCHANGED <<lease, lock, task, grant, ap, budget>>
-----------------------------------------------------------------------------

\* What a task does next, unless the process is interrupted.
TaskStep(w, t) ==
    \/ LoadRow(w, t) \/ Defer(w, t) \/ AcquireLock(w, t) \/ RedisFails(w, t)
    \/ DecryptFails(w, t) \/ MarkStatus(w, t)
    \/ CallProvider(w, t) \/ CallFails(w, t) \/ StoreRotation(w, t)
    \/ PushToAP(w, t) \/ PushFails(w, t) \/ WriteFlag(w, t)
    \/ LoadPending(w, t) \/ RetryPush(w, t) \/ RetryPushFails(w, t) \/ ClearFlag(w, t)
    \/ DbFails(w, t) \/ Unlock(w, t) \/ ReleaseLease(w, t)

Others(t) ==
    Connect(t) \/ Finalize(t) \/ Compensate(t) \/ UserRevokes(t) \/ Webhook(t)

Next ==
    \/ \E w \in Replicas : Claim(w) \/ Crash(w) \/ Shutdown(w)
    \/ \E w \in Replicas, t \in Tokens : TaskStep(w, t) \/ LeaseExpires(w, t) \/ LockExpires(w, t)
    \/ \E t \in Tokens : BecomesDue(t) \/ Others(t)

Spec == Init /\ [][Next]_vars

(***************************************************************************)
(* Fairness: the loop of every replica goes on (it catches what a cycle    *)
(* raises, and a dead process is restarted), the event loop resumes every  *)
(* task, every call has a timeout, and TTLs run out.  Nothing is assumed   *)
(* of users and of the order of faults, of which there are MaxFaults.      *)
(***************************************************************************)
FairSpec ==
    /\ Spec
    /\ \A w \in Replicas : WF_vars(Claim(w))
    /\ \A w \in Replicas, t \in Tokens :
          WF_vars(TaskStep(w, t)) /\ WF_vars(LeaseExpires(w, t)) /\ WF_vars(LockExpires(w, t))
-----------------------------------------------------------------------------
(***************************************************************************)
(* Properties                                                              *)
(***************************************************************************)

\* The types of the table, of Redis, of the tasks and of the two services.
TypeOK ==
    /\ rows \in [Tokens ->
          [status : RowStatus, account : Accounts \cup {NoAccount},
           linked : BOOLEAN, refresh : Nat \cup {NoToken}, readable : BOOLEAN,
           access : Nat, when : {"later", "due", "never"}, pending : BOOLEAN]]
    /\ lease \in [Tokens -> Replicas \cup {None}]
    /\ lock \in [Tokens -> Replicas \cup {None}]
    /\ task \in [Replicas -> [Tokens ->
          [pc : TaskPC, refresh : Nat \cup {NoToken}, readable : BOOLEAN,
           linked : BOOLEAN, access : Nat, given : Nat \cup {NoToken},
           lasts : BOOLEAN, synced : BOOLEAN, late : BOOLEAN]]]
    /\ grant \in [Tokens -> [state : {"none", "live", "revoked"},
                             refresh : Nat, access : Nat]]
    /\ ap \in [Tokens -> Nat]
    /\ budget \in Nat

\* The mutex: as long as no task outlives its lock, a row has one task at most
\* between the lock and the unlock, and Redis names that task.  Leases may
\* lapse, processes die and restart, releases of the lease come late.
SingleFlight ==
    \A t \in Tokens, w \in Replicas : task[w][t].pc \in Critical => lock[t] = w

\* Neither the vault nor AP ever falls back to an older access token of the
\* grant, although row, lock and AP are written in separate steps and the AP
\* path pushes what it read from the row.
NothingRegresses ==
    [][\A t \in Tokens :
          /\ ap'[t] >= ap[t]
          /\ Present(rows'[t]) => rows'[t].access >= rows[t].access]_vars

\* The life of a row, and of the access tokens that pass through it.  Connect
\* begins it once; a row that is not in the table any more is gone for good.
LifeOf(t) ==
    IF grant[t].state = "none" THEN "unused"
    ELSE IF ~Present(rows[t]) THEN "gone"
    ELSE IF rows[t].status = "ACTIVE" THEN "usable" ELSE "retired"

Lifecycle(t) == INSTANCE TokenLifecycle
                    WITH issued <- grant[t].access, stored <- rows[t].access,
                         delivered <- ap[t], life <- LifeOf(t)

\* Whatever the replicas do to a row, each of its tokens takes the way that
\* TokenLifecycle describes: what a task stores is the provider's newest token
\* and what it delivers is the stored one, although it took both from memory.
\* (This is \A t \in Tokens : Lifecycle(t)!Spec, in the form that TLC evaluates.)
KeepsLifecycle ==
    /\ \A t \in Tokens : Lifecycle(t)!Init
    /\ [][\A t \in Tokens : [Lifecycle(t)!Next]_(Lifecycle(t)!lifeVars)]_vars

\* No task works on the row.
Quiet(t) == \A w \in Replicas : At(w, t, "idle")

\* The refresh token in the vault is the one the provider honours, unless a
\* task is on its way to store it.
RowHoldsLiveGrant ==
    \A t \in Tokens :
        rows[t].status = "ACTIVE" /\ rows[t].refresh # NoToken =>
            \/ rows[t].refresh = grant[t].refresh
            \/ \E w \in Replicas : At(w, t, "store")

\* The account was connected again (that row may have been compensated since).
Reconnected(t) ==
    \E u \in Tokens \ {t} : /\ grant[u].state # "none"
                            /\ rows[u].account \in {rows[t].account, NoAccount}

\* A row is REVOKED because the user revoked the grant, or because the account
\* was connected again: the worker never discards a credential that works.
RevokedMeansUserRevoked ==
    \A t \in Tokens : rows[t].status = "REVOKED" =>
        grant[t].state = "revoked" \/ Reconnected(t)

\* AP holds the access token of the vault, or some later cycle will find the
\* row and deliver it.
StaleIsPending ==
    \A t \in Tokens :
        rows[t].status = "ACTIVE" /\ rows[t].linked /\ Quiet(t) =>
            ap[t] = rows[t].access \/ rows[t].pending \/ rows[t].when = "due"

\* A due row is served: rotated, deferred or retired, whatever process died
\* while it held the row's lease or lock.
DueIsServed ==
    \A t \in Tokens :
        rows[t].status = "ACTIVE" /\ rows[t].when = "due"
            ~> rows[t].status # "ACTIVE" \/ rows[t].when # "due"

\* AP catches up with the vault: what is marked pending is delivered, so that
\* a stale connection of an ACTIVE row does not stay stale.  (With
\* StaleIsPending every stale connection is marked, or due, once it is quiet.)
PendingIsDelivered ==
    \A t \in Tokens :
        (/\ rows[t].status = "ACTIVE" /\ rows[t].linked
         /\ rows[t].pending /\ ap[t] # rows[t].access)
            ~> rows[t].status # "ACTIVE" \/ ap[t] = rows[t].access

(***************************************************************************)
(* What the repository says of the worker and the code does not keep.      *)
(***************************************************************************)

\* _refresh_one_token, step 6: access and refresh token are re-encrypted under
\* the new DEK.  So an ACTIVE row's refresh token can be decrypted.
RefreshStaysReadable ==
    \A t \in Tokens : rows[t].status = "ACTIVE" => rows[t].readable
=============================================================================
