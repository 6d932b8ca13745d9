-------------------------- MODULE RevocationWebhook --------------------------
(***************************************************************************)
(* The revocation webhooks of oauth_webhooks.py: POST /slack/events and    *)
(* POST /google/risc.  They differ in how a request is authenticated and   *)
(* parsed and agree in what they do afterwards: deduplicate by event id in *)
(* Redis, revoke every ACTIVE row of the account in one transaction, tell  *)
(* the tenants, answer 200.                                                *)
(*                                                                         *)
(* The sender delivers an event again until it is answered 200, and does   *)
(* not wait for a slow handler (Slack allows it 3 seconds), so deliveries  *)
(* of one event overlap.  A request that fails authentication or parsing   *)
(* before the key is set changes nothing and is left out, and so is the    *)
(* 24 h lifetime of the key, which outlives the sender's retries.          *)
(***************************************************************************)
EXTENDS TokenVault, Naturals

CONSTANTS
    Events,      \* event ids
    Unkeyed,     \* those that arrive without an id to deduplicate by
    Mute,        \* those that are answered 200 and not acted upon: no team_id,
                 \* no data, a SET that does not decode, another type
    Deliveries,  \* requests (bounds how often the sender tries)
    Tokens,      \* row ids
    Accounts,    \* (tenant, provider, provider_account_id) triples
    Teams,       \* sets of accounts that share a provider account
    None,        \* no event
    Faults

FaultKinds ==
    {"redis",            \* Redis refuses the SET
     "redis_lost_reply", \* Redis sets the key, the reply is lost
     "db",               \* the transaction raises
     "crash",            \* the handler stops between two awaits
     "publish",          \* the broadcast fails
     "lost_answer",      \* the 200 does not reach the sender
     "reconnect",        \* an account that has a row is connected again
     "worker"}           \* the refresh worker marks rows CORRUPTED

ASSUME FaultsAssumption == Faults \subseteq FaultKinds
ASSUME EventsAssumption == Unkeyed \subseteq Events /\ Mute \subseteq Events
ASSUME NamesAssumption ==
    /\ None \notin Events
    /\ NoAccount \notin Accounts
    /\ \A team \in Teams : team \subseteq Accounts

VARIABLES
    rows,     \* encrypted_tokens: status and account
    team,     \* team[e]: whom event e is about, {} before it is sent
    doomed,   \* doomed[e]: the rows that were ACTIVE when e arose
    seen,     \* event ids in Redis
    req,      \* each request: pc, its event, the rows its SELECT returned
    audits,   \* audits[e][t]: oauth.revoked rows event e wrote for row t
    told,     \* rows whose tenant was notified
    acked     \* events the sender saw answered 200

vars == <<rows, team, doomed, seen, req, audits, told, acked>>

RunningPC == {"dedupe", "select", "commit", "broadcast", "answer"}
IdleRequest == [pc |-> "idle", event |-> None, found |-> {}]

Init ==
    /\ rows = [t \in Tokens |-> [status |-> "absent", account |-> NoAccount]]
    /\ team = [e \in Events |-> {}]
    /\ doomed = [e \in Events |-> {}]
    /\ seen = {}
    /\ req = [d \in Deliveries |-> IdleRequest]
    /\ audits = [e \in Events |-> [t \in Tokens |-> 0]]
    /\ told = {}
    /\ acked = {}

At(d, label) == req[d].pc = label
Goto(d, label) == req' = [req EXCEPT ![d].pc = label]

ActiveRows(accounts) ==
    {t \in Tokens : rows[t].status = "ACTIVE" /\ rows[t].account \in accounts}

(***************************************************************************)
(* The world around the handler                                            *)
(***************************************************************************)

\* _persist_tokens: revoke the ACTIVE row of the account, insert the new one.
Connect(t, a) ==
    /\ rows[t].status = "absent"
    /\ t = CHOOSE u \in Tokens : rows[u].status = "absent"
    /\ "reconnect" \in Faults \/ \A u \in Tokens : rows[u].account # a
    /\ rows' = [RevokeActive(rows, {a}) EXCEPT
                    ![t] = [status |-> "ACTIVE", account |-> a]]
    /\ UniqueKeyHolds(rows')
    /\ UNCHANGED <<team, doomed, seen, req, audits, told, acked>>

\* _refresh_one_token gives a row up.
Corrupt(t) ==
    /\ "worker" \in Faults
    /\ rows[t].status = "ACTIVE"
    /\ rows' = [rows EXCEPT ![t].status = "CORRUPTED"]
    /\ UniqueKeyHolds(rows')
    /\ UNCHANGED <<team, doomed, seen, req, audits, told, acked>>

\* The user uninstalls the app.  One uninstall may raise several events (Slack
\* sends app_uninstalled and tokens_revoked).
Uninstall(accounts, raised) ==
    /\ ActiveRows(accounts) # {}
    /\ raised # {} /\ \A e \in raised : team[e] = {}
    /\ team' = [e \in Events |-> IF e \in raised THEN accounts ELSE team[e]]
    /\ doomed' = [e \in Events |->
                    IF e \in raised THEN ActiveRows(accounts) ELSE doomed[e]]
    /\ UNCHANGED <<rows, seen, req, audits, told, acked>>

\* The sender tries, or tries again.  (Which of the idle names a request gets
\* is of no consequence, so it is not left open.)
Send(d, e) ==
    /\ At(d, "idle") /\ d = CHOOSE x \in Deliveries : At(x, "idle")
    /\ team[e] # {} /\ e \notin acked
    /\ req' = [req EXCEPT ![d] = [pc |-> "dedupe", event |-> e, found |-> {}]]
    /\ UNCHANGED <<rows, team, doomed, seen, audits, told, acked>>

(***************************************************************************)
(* The handler                                                             *)
(***************************************************************************)

\* Faulty variant: the key is looked up and not set.
DedupeByGet(d) ==
    /\ At(d, "dedupe")
    /\ Goto(d, IF req[d].event \in seen THEN "answer" ELSE "select")
    /\ UNCHANGED <<rows, team, doomed, seen, audits, told, acked>>

\* SET <provider>:<event id> NX EX 86400: a duplicate is answered 200 at once,
\* whether or not the first request is done, or ever will be.  Without an id
\* there is no key.  What the event says is looked at only now.
Dedupe(d) ==
    /\ At(d, "dedupe")
    /\ seen' = seen \cup ({req[d].event} \ Unkeyed)
    /\ Goto(d, IF req[d].event \in seen \cup Mute THEN "answer" ELSE "select")
    /\ UNCHANGED <<rows, team, doomed, audits, told, acked>>

\* Faulty variant: a request that cannot be deduplicated is answered 200.
DedupeFailsOpen(d) ==
    /\ At(d, "dedupe")
    /\ "redis" \in Faults
    /\ Goto(d, "answer")
    /\ UNCHANGED <<rows, team, doomed, seen, audits, told, acked>>

\* 503 or 500: the sender will try again, and in vain if the key is set.
DedupeFails(d) ==
    /\ At(d, "dedupe") /\ req[d].event \notin Unkeyed
    /\ \/ "redis" \in Faults /\ seen' = seen /\ Goto(d, "done")
       \/ /\ "redis_lost_reply" \in Faults
          /\ seen' = seen \cup {req[d].event}
          /\ Goto(d, IF req[d].event \in seen THEN "done" ELSE "failed")
    /\ UNCHANGED <<rows, team, doomed, audits, told, acked>>

\* Faulty variant: the tenants are told before the commit.
SelectAndTell(d) ==
    LET found == ActiveRows(team[req[d].event]) IN
    /\ At(d, "select")
    /\ req' = [req EXCEPT ![d].pc = "commit", ![d].found = found]
    /\ told' = told \cup found
    /\ UNCHANGED <<rows, team, doomed, seen, audits, acked>>

\* The SELECT of _revoke_slack_team and _revoke_google_user.
Select(d) ==
    /\ At(d, "select")
    /\ req' = [req EXCEPT ![d].pc = "commit",
                          ![d].found = ActiveRows(team[req[d].event])]
    /\ UNCHANGED <<rows, team, doomed, seen, audits, told, acked>>

\* The rows found become REVOKED, by id and whatever they are by now.
Revoked(found) ==
    [t \in Tokens |-> IF t \in found THEN [rows[t] EXCEPT !.status = "REVOKED"]
                                     ELSE rows[t]]

\* UPDATE and audit row by row, then COMMIT.
Commit(d) ==
    LET found == req[d].found IN
    /\ At(d, "commit")
    /\ UniqueKeyHolds(Revoked(found))
    /\ rows' = Revoked(found)
    /\ audits' = [audits EXCEPT ![req[d].event] =
                    [t \in Tokens |-> IF t \in found THEN @[t] + 1 ELSE @[t]]]
    /\ Goto(d, "broadcast")
    /\ UNCHANGED <<team, doomed, seen, told, acked>>

\* The unique constraint refuses one of the rows, or the database is gone:
\* nothing is written, the answer is 500, the key stays in Redis.
CommitFails(d) ==
    /\ At(d, "select") \/ At(d, "commit")
    /\ "db" \in Faults \/ (At(d, "commit") /\ ~UniqueKeyHolds(Revoked(req[d].found)))
    /\ Goto(d, "failed")
    /\ UNCHANGED <<rows, team, doomed, seen, audits, told, acked>>

\* PUBLISH per row, best effort.
Broadcast(d) ==
    /\ At(d, "broadcast")
    /\ \/ told' = told \cup req[d].found
       \/ "publish" \in Faults /\ told' = told
    /\ Goto(d, "answer")
    /\ UNCHANGED <<rows, team, doomed, seen, audits, acked>>

Answer(d) ==
    /\ At(d, "answer")
    /\ \/ acked' = acked \cup {req[d].event}
       \/ "lost_answer" \in Faults /\ acked' = acked
    /\ Goto(d, "done")
    /\ UNCHANGED <<rows, team, doomed, seen, audits, told>>

Crash(d) ==
    /\ "crash" \in Faults
    /\ req[d].pc \in RunningPC
    /\ Goto(d, IF req[d].pc \in {"select", "commit"} THEN "failed" ELSE "done")
    /\ UNCHANGED <<rows, team, doomed, seen, audits, told, acked>>
-----------------------------------------------------------------------------

HandlerStep(d) ==
    Dedupe(d) \/ DedupeFails(d) \/ Select(d) \/ Commit(d) \/ CommitFails(d)
        \/ Broadcast(d) \/ Answer(d)

Next ==
    \/ \E t \in Tokens : Corrupt(t) \/ \E a \in Accounts : Connect(t, a)
    \/ \E accounts \in Teams, raised \in SUBSET Events : Uninstall(accounts, raised)
    \/ \E d \in Deliveries : HandlerStep(d) \/ Crash(d) \/ \E e \in Events : Send(d, e)

Spec == Init /\ [][Next]_vars

(***************************************************************************)
(* Fairness: a handler that was entered runs on, and the sender tries each *)
(* event that is not answered, as long as it has tries left.               *)
(***************************************************************************)
FairSpec ==
    /\ Spec
    /\ \A d \in Deliveries : WF_vars(HandlerStep(d))
    /\ \A e \in Events : WF_vars(\E d \in Deliveries : Send(d, e))
-----------------------------------------------------------------------------
(***************************************************************************)
(* Properties                                                              *)
(***************************************************************************)

\* The types of the table, of Redis, of the requests and of the sender.
TypeOK ==
    /\ rows \in [Tokens -> [status : RowStatus, account : Accounts \cup {NoAccount}]]
    /\ team \in [Events -> SUBSET Accounts]
    /\ doomed \in [Events -> SUBSET Tokens]
    /\ seen \subseteq Events
    /\ req \in [Deliveries -> [pc : RunningPC \cup {"idle", "done", "failed"},
                               event : Events \cup {None}, found : SUBSET Tokens]]
    /\ audits \in [Events -> [Tokens -> Nat]]
    /\ told \subseteq Tokens
    /\ acked \subseteq Events

\* No request of the event is being handled.
Settled(e) == \A d \in Deliveries : req[d].event = e => req[d].pc \notin RunningPC

\* A request that took the event's key did not get as far as the COMMIT.
LostAfterDedupe(e) ==
    e \notin Unkeyed /\ \E d \in Deliveries : req[d].event = e /\ At(d, "failed")

\* An event the sender believes delivered has been applied: none of the rows
\* it condemned is ACTIVE.  The deduplication may answer for a request that
\* is still being handled, and for one that failed after it took the key: that
\* is the only way in which an acknowledged event that says what it is about is
\* lost.  One without an id is not lost even so.
AckMeansRevoked ==
    \A e \in acked \ Mute : Settled(e) /\ ~LostAfterDedupe(e) =>
        \A t \in doomed[e] : rows[t].status # "ACTIVE"

\* One event with an id writes at most one revocation audit per row, also when its
\* deliveries overlap, are repeated after a lost answer or meet a crash.
NoDoubleAudit == \A e \in Events \ Unkeyed, t \in Tokens : audits[e][t] <= 1

\* A tenant is told of a revocation only when its row is out of use for good.
ToldMeansRevoked ==
    \A t \in told : rows[t].status # "ACTIVE" /\ \E e \in Events : audits[e][t] > 0

\* An event that arose is applied in the end, unless every try the sender has
\* is used up or a request failed after it took the key: a failure before the
\* deduplication leads to another try.
UninstallTakesEffect ==
    \A e \in Events \ Mute :
        doomed[e] # {} ~>
            \/ \A t \in doomed[e] : rows[t].status # "ACTIVE"
            \/ LostAfterDedupe(e)
            \/ \A d \in Deliveries : At(d, "done") \/ At(d, "failed")
=============================================================================
