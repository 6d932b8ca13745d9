---------------------- MODULE RevocationWebhookProofs -----------------------
(***************************************************************************)
(* Theorems about RevocationWebhook, for any events, deliveries, rows and  *)
(* teams and every choice of faults.  The argument: Redis gives the key of *)
(* an event to one delivery, so one delivery at most selects and commits   *)
(* for it (Keyed, OneHolder), what it has not selected was out of use      *)
(* before (Chosen), and a row that is out of use stays so.  An event       *)
(* without a key is answered only by a delivery that has committed         *)
(* (Through).                                                              *)
(***************************************************************************)
EXTENDS RevocationWebhook, TLAPS

Row == [status : RowStatus, account : Accounts \cup {NoAccount}]
Request == [pc : RunningPC \cup {"idle", "done", "failed"},
            event : Events \cup {None}, found : SUBSET Tokens]

\* The delivery has taken the key of its event and has not committed.
Holder(d) == req[d].pc \in {"select", "commit"}

\* Only an event that was raised is sent, and only a sent one is in Redis.
Raised ==
    /\ \A e \in Events : team[e] = {} =>
          doomed[e] = {} /\ e \notin seen \cup acked /\ \A d \in Deliveries : req[d].event # e
    /\ \A d \in Deliveries : req[d].pc # "idle" => req[d].event \in Events

\* Who holds the key of an event has it in Redis, and nothing is audited yet.
Keyed ==
    /\ seen \cap Unkeyed = {}
    /\ \A d \in Deliveries : Holder(d) /\ req[d].event \notin Unkeyed =>
          req[d].event \in seen /\ \A t \in Tokens : audits[req[d].event][t] = 0
    /\ \A e \in Events \ (seen \cup Unkeyed) : \A t \in Tokens : audits[e][t] = 0
    /\ \A d \in Deliveries : req[d].pc \in {"broadcast", "answer"} =>
          req[d].event \in seen \cup Unkeyed

OneHolder ==
    \A d, x \in Deliveries :
        (/\ Holder(d) /\ Holder(x)
         /\ req[d].event = req[x].event /\ req[d].event \notin Unkeyed) => d = x

\* Out of use for good: only an absent row is ever made ACTIVE.
Retired(t) == rows[t].status \notin {"ACTIVE", "absent"}

\* What is about to be told has been committed.
Applied ==
    \A d \in Deliveries : req[d].pc = "broadcast" =>
        \A t \in req[d].found : Retired(t) /\ audits[req[d].event][t] > 0

Told == \A t \in told : Retired(t) /\ \E e \in Events : audits[e][t] > 0

\* The rows an event condemns are in the table, and its team's.
Doomed ==
    \A e \in Events : \A t \in doomed[e] :
        rows[t].status # "absent" /\ rows[t].account \in team[e]

\* A condemned row the SELECT did not return is out of use.
Chosen ==
    \A d \in Deliveries : req[d].pc = "commit" =>
        \A t \in doomed[req[d].event] : t \in req[d].found \/ rows[t].status # "ACTIVE"

\* Whose key is in Redis is being handled, was lost, or has been applied.
Handled ==
    \A e \in seen \ Mute :
        \/ \E d \in Deliveries : req[d].event = e /\ req[d].pc \in {"select", "commit", "failed"}
        \/ \A t \in doomed[e] : rows[t].status # "ACTIVE"

\* An event without a key that is being answered, or was, has been applied.
Through ==
    \A e \in Unkeyed \ Mute :
        (\/ e \in acked
         \/ \E d \in Deliveries : req[d].event = e /\ req[d].pc \in {"broadcast", "answer"})
            => \A t \in doomed[e] : rows[t].status # "ACTIVE"

IInv ==
    /\ TypeOK
    /\ Raised
    /\ Keyed
    /\ OneHolder
    /\ NoDoubleAudit
    /\ Applied
    /\ Told
    /\ Doomed
    /\ Chosen
    /\ Handled
    /\ Through
    /\ acked \subseteq seen \cup Unkeyed

-----------------------------------------------------------------------------
(* What the steps do to the requests and to the rows.                      *)

\* A step of one delivery leaves the others alone.
LEMMA SetRequest ==
    ASSUME req \in [Deliveries -> Request], NEW d \in Deliveries, NEW n \in Request,
           req' = [req EXCEPT ![d] = n]
    PROVE  /\ req' \in [Deliveries -> Request]
           /\ req'[d] = n
           /\ \A x \in Deliveries \ {d} : req'[x] = req[x]
OBVIOUS

LEMMA GotoRequest ==
    ASSUME req \in [Deliveries -> Request], NEW d \in Deliveries,
           NEW label \in RunningPC \cup {"idle", "done", "failed"}, Goto(d, label)
    PROVE  /\ req' \in [Deliveries -> Request]
           /\ req'[d].pc = label /\ req'[d].event = req[d].event /\ req'[d].found = req[d].found
           /\ \A x \in Deliveries \ {d} : req'[x] = req[x]
<1> DEFINE n == [req[d] EXCEPT !.pc = label]
<1>1. req[d] \in Request
  OBVIOUS
<1>2. /\ n \in Request
      /\ n.pc = label /\ n.event = req[d].event /\ n.found = req[d].found
  BY <1>1 DEF Request
<1>3. req' = [req EXCEPT ![d] = n]
  BY DEF Goto
<1> HIDE DEF n
<1> QED BY <1>2, <1>3, SetRequest

\* What a step may do to the rows: one that is present stays, with its
\* account, and one that is out of use stays out of use.
Kept ==
    \A t \in Tokens : rows[t].status # "absent" =>
        /\ rows'[t].status # "absent"
        /\ rows'[t].account = rows[t].account
        /\ rows[t].status # "ACTIVE" => rows'[t].status # "ACTIVE"

LEMMA KeptTrivial == rows' = rows => Kept
BY DEF Kept

LEMMA CorruptKeeps ==
    ASSUME rows \in [Tokens -> Row], NEW t \in Tokens, Corrupt(t)
    PROVE  rows' \in [Tokens -> Row] /\ Kept
<1> DEFINE n == [rows[t] EXCEPT !.status = "CORRUPTED"]
<1>1. rows[t] \in Row /\ rows' = [rows EXCEPT ![t] = n]
  BY DEF Corrupt
<1>2. n \in Row /\ n.status = "CORRUPTED" /\ n.account = rows[t].account
  BY <1>1 DEF Row, RowStatus
<1> HIDE DEF n
<1> QED BY <1>1, <1>2 DEF Kept

LEMMA RevokeActiveKeeps ==
    ASSUME rows \in [Tokens -> Row], NEW accounts, NEW t \in Tokens
    PROVE  /\ RevokeActive(rows, accounts) \in [Tokens -> Row]
           /\ RevokeActive(rows, accounts)[t].account = rows[t].account
           /\ rows[t].status # "absent" =>
                 RevokeActive(rows, accounts)[t].status # "absent"
           /\ rows[t].status # "ACTIVE" =>
                 RevokeActive(rows, accounts)[t].status # "ACTIVE"
<1>1. \A u \in Tokens :
        LET n == [rows[u] EXCEPT !.status = "REVOKED"] IN
        n \in Row /\ n.status = "REVOKED" /\ n.account = rows[u].account
  <2> TAKE u \in Tokens
  <2>1. rows[u] \in Row
    OBVIOUS
  <2> QED BY <2>1 DEF Row, RowStatus
<1> QED BY <1>1 DEF RevokeActive

LEMMA ConnectKeeps ==
    ASSUME rows \in [Tokens -> Row], NEW t \in Tokens, NEW a \in Accounts, Connect(t, a)
    PROVE  rows' \in [Tokens -> Row] /\ Kept
<1> DEFINE old == RevokeActive(rows, {a})
           new == [status |-> "ACTIVE", account |-> a]
<1>1. rows' = [old EXCEPT ![t] = new] /\ rows[t].status = "absent"
  BY DEF Connect
<1>2. new \in Row
  BY DEF Row, RowStatus
<1>3. /\ old \in [Tokens -> Row]
      /\ \A u \in Tokens : /\ old[u].account = rows[u].account
                           /\ rows[u].status # "absent" => old[u].status # "absent"
                           /\ rows[u].status # "ACTIVE" => old[u].status # "ACTIVE"
  BY RevokeActiveKeeps
<1> HIDE DEF old, new
<1> QED BY <1>1, <1>2, <1>3 DEF Kept

\* What the handler writes: the rows found are out of use, the others as before.
LEMMA RevokedKeeps ==
    ASSUME rows \in [Tokens -> Row], NEW found \in SUBSET Tokens, rows' = Revoked(found)
    PROVE  /\ rows' \in [Tokens -> Row] /\ Kept
           /\ \A t \in found : rows'[t].status = "REVOKED"
<1>1. \A u \in Tokens :
        LET n == [rows[u] EXCEPT !.status = "REVOKED"] IN
        n \in Row /\ n.status = "REVOKED" /\ n.account = rows[u].account
  <2> TAKE u \in Tokens
  <2>1. rows[u] \in Row
    OBVIOUS
  <2> QED BY <2>1 DEF Row, RowStatus
<1> QED BY <1>1 DEF Revoked, Kept

-----------------------------------------------------------------------------
(* Every step keeps the invariant.                                         *)

LEMMA TypesUnfolded ==
    TypeOK <=> /\ rows \in [Tokens -> Row]
               /\ team \in [Events -> SUBSET Accounts]
               /\ doomed \in [Events -> SUBSET Tokens]
               /\ seen \subseteq Events
               /\ req \in [Deliveries -> Request]
               /\ audits \in [Events -> [Tokens -> Nat]]
               /\ told \subseteq Tokens
               /\ acked \subseteq Events
BY DEF TypeOK, Row, Request

\* Corrupt, Connect and steps outside the system.
LEMMA RowsStep ==
    ASSUME IInv, Kept, rows' \in [Tokens -> Row],
           UNCHANGED <<team, doomed, seen, req, audits, told, acked>>
    PROVE  IInv'
<1>0. TypeOK'
  BY TypesUnfolded DEF IInv, TypeOK, Row
<1>1. Raised' /\ Keyed' /\ OneHolder' /\ NoDoubleAudit' /\ acked' \subseteq seen' \cup Unkeyed
  BY DEF IInv, Raised, Keyed, OneHolder, NoDoubleAudit, Holder
<1>2. /\ \A d \in Deliveries : req[d] \in Request
      /\ doomed \in [Events -> SUBSET Tokens] /\ told \subseteq Tokens /\ seen \subseteq Events
  BY TypesUnfolded DEF IInv
<1>3. \A t \in Tokens : Retired(t) => Retired(t)'
  BY DEF Kept, Retired
<1>4. Applied'
  BY <1>2, <1>3 DEF IInv, Applied, Request
<1>5. Told'
  BY <1>2, <1>3 DEF IInv, Told
<1>6. Doomed'
  BY <1>2 DEF IInv, Doomed, Kept
<1>7. \A e \in Events : \A t \in doomed[e] : rows[t].status # "ACTIVE" => rows'[t].status # "ACTIVE"
  BY <1>2 DEF IInv, Doomed, Kept
<1>8. Chosen'
  <2> SUFFICES ASSUME NEW d \in Deliveries, req[d].pc = "commit", NEW t \in doomed[req[d].event],
                      t \notin req[d].found
               PROVE  rows'[t].status # "ACTIVE"
    BY DEF Chosen
  <2>1. req[d].event \in Events
    BY DEF IInv, Raised
  <2> QED BY <1>7, <2>1 DEF IInv, Chosen
<1>9. Handled'
  <2> SUFFICES ASSUME NEW e \in seen \ Mute,
                      ~ \E d \in Deliveries : req[d].event = e /\ req[d].pc \in {"select", "commit", "failed"},
                      NEW t \in doomed[e]
               PROVE  rows'[t].status # "ACTIVE"
    BY DEF Handled
  <2> QED BY <1>2, <1>7 DEF IInv, Handled
<1>10. Through'
  BY <1>7, EventsAssumption DEF IInv, Through
<1> QED BY <1>0, <1>1, <1>4, <1>5, <1>6, <1>8, <1>9, <1>10 DEF IInv

\* The rows that are condemned are those of the team that are in use.
LEMMA UninstallStep ==
    ASSUME IInv, NEW accounts \in Teams, NEW raised \in SUBSET Events,
           Uninstall(accounts, raised)
    PROVE  IInv'
<1>1. /\ UNCHANGED <<rows, seen, req, audits, told, acked>>
      /\ ActiveRows(accounts) # {}
      /\ \A e \in raised : /\ team[e] = {} /\ team'[e] = accounts
                           /\ doomed'[e] = ActiveRows(accounts)
      /\ \A e \in Events \ raised : team'[e] = team[e] /\ doomed'[e] = doomed[e]
  BY DEF Uninstall
<1>2. accounts \subseteq Accounts /\ accounts # {} /\ ActiveRows(accounts) \subseteq Tokens
  BY <1>1, NamesAssumption DEF ActiveRows
<1>3. TypeOK'
  <2>1. team' \in [Events -> SUBSET Accounts] /\ doomed' \in [Events -> SUBSET Tokens]
    BY <1>2, TypesUnfolded DEF IInv, Uninstall
  <2> QED BY <1>1, <2>1 DEF IInv, TypeOK
<1>4. \A e \in raised : e \notin seen \cup acked /\ \A d \in Deliveries : req[d].event # e
  BY <1>1 DEF IInv, Raised
<1>5. Raised'
  BY <1>1, <1>2, <1>4 DEF IInv, Raised
<1>6. Keyed' /\ OneHolder' /\ NoDoubleAudit' /\ Applied' /\ Told' /\ acked' \subseteq seen' \cup Unkeyed
  BY <1>1 DEF IInv, Keyed, OneHolder, NoDoubleAudit, Applied, Told, Holder, Retired
<1>7. Doomed'
  <2>1. \A t \in ActiveRows(accounts) : rows[t].status # "absent" /\ rows[t].account \in accounts
    BY DEF ActiveRows
  <2> QED BY <1>1, <2>1 DEF IInv, Doomed
<1>8. Chosen'
  <2>1. \A d \in Deliveries : req[d].pc = "commit" => req[d].event \in Events \ raised
    BY <1>4 DEF IInv, Raised
  <2> QED BY <1>1, <2>1 DEF IInv, Chosen
<1>9. Handled'
  <2>1. seen \subseteq Events \ raised
    BY <1>4, TypesUnfolded DEF IInv
  <2> QED BY <1>1, <2>1 DEF IInv, Handled
<1>10. Through'
  <2> SUFFICES ASSUME NEW e \in Unkeyed \ Mute,
                      \/ e \in acked
                      \/ \E d \in Deliveries : /\ req[d].event = e
                                               /\ req[d].pc \in {"broadcast", "answer"}
               PROVE  \A t \in doomed'[e] : rows[t].status # "ACTIVE"
    BY <1>1 DEF Through
  <2>1. e \in Events \ raised
    BY <1>4, EventsAssumption
  <2> QED BY <1>1, <2>1 DEF IInv, Through
<1> QED BY <1>3, <1>5, <1>6, <1>7, <1>8, <1>9, <1>10 DEF IInv

\* A new delivery holds nothing.
LEMMA SendStep ==
    ASSUME IInv, NEW d \in Deliveries, NEW e \in Events, Send(d, e)
    PROVE  IInv'
<1> DEFINE n == [pc |-> "dedupe", event |-> e, found |-> {}]
<1>0. n \in Request /\ n.pc = "dedupe" /\ n.event = e
  BY DEF Request, RunningPC
<1>1. /\ req' = [req EXCEPT ![d] = n] /\ req[d].pc = "idle" /\ team[e] # {}
      /\ UNCHANGED <<rows, team, doomed, seen, audits, told, acked>>
  BY DEF Send, At
<1> HIDE DEF n
<1>2. /\ req' \in [Deliveries -> Request] /\ req'[d].pc = "dedupe" /\ req'[d].event = e
      /\ \A x \in Deliveries \ {d} : req'[x] = req[x]
  BY <1>0, <1>1, SetRequest, TypesUnfolded DEF IInv
<1>3. TypeOK'
  BY <1>1, <1>2, TypesUnfolded DEF IInv, TypeOK, Request
<1>4. Raised'
  BY <1>1, <1>2 DEF IInv, Raised
<1>5. Keyed' /\ OneHolder'
  BY <1>1, <1>2 DEF IInv, Keyed, OneHolder, Holder
<1>6. NoDoubleAudit' /\ Told' /\ Doomed' /\ acked' \subseteq seen' \cup Unkeyed
  BY <1>1 DEF IInv, NoDoubleAudit, Told, Doomed, Retired
<1>7. Applied' /\ Chosen'
  BY <1>1, <1>2 DEF IInv, Applied, Chosen, Retired
<1>8. Handled' /\ Through'
  BY <1>1, <1>2 DEF IInv, Handled, Through
<1> QED BY <1>3, <1>4, <1>5, <1>6, <1>7, <1>8 DEF IInv

\* A delivery that goes on without touching a store: it answers for another,
\* gives up, or dies.  It does not come to hold a key, and if it held one it
\* is lost.
LEMMA MoveStep ==
    ASSUME IInv, NEW d \in Deliveries, NEW label \in {"answer", "done", "failed"},
           Goto(d, label), req[d].pc \in RunningPC,
           Holder(d) => label = "failed",
           label = "answer" => req[d].event \in seen \cup (Unkeyed \cap Mute),
           UNCHANGED <<rows, team, doomed, seen, audits, told, acked>>
    PROVE  IInv'
<1>1. /\ req' \in [Deliveries -> Request]
      /\ req'[d].pc = label /\ req'[d].event = req[d].event /\ req'[d].found = req[d].found
      /\ \A x \in Deliveries \ {d} : req'[x] = req[x]
  BY GotoRequest, TypesUnfolded DEF IInv, RunningPC
<1>2. TypeOK'
  BY <1>1, TypesUnfolded DEF IInv, TypeOK, Request
<1>3. Raised'
  BY <1>1 DEF IInv, Raised, RunningPC
<1>4. Keyed' /\ OneHolder'
  BY <1>1 DEF IInv, Keyed, OneHolder, Holder
<1>5. NoDoubleAudit' /\ Told' /\ Doomed' /\ acked' \subseteq seen' \cup Unkeyed
  BY DEF IInv, NoDoubleAudit, Told, Doomed, Retired
<1>6. Applied' /\ Chosen'
  BY <1>1 DEF IInv, Applied, Chosen, Retired
<1>7. Handled'
  BY <1>1 DEF IInv, Handled, Holder, RunningPC
<1>8. Through'
  BY <1>1 DEF IInv, Through, Keyed
<1> QED BY <1>2, <1>3, <1>4, <1>5, <1>6, <1>7, <1>8 DEF IInv

\* The delivery whose SET succeeds, and it alone, holds the key of its event.
LEMMA TakeKeyStep ==
    ASSUME IInv, NEW d \in Deliveries, NEW label \in {"select", "failed", "answer"},
           label = "answer" => req[d].event \in Mute,
           At(d, "dedupe"), req[d].event \notin seen \cup Unkeyed, seen' = seen \cup {req[d].event},
           Goto(d, label),
           UNCHANGED <<rows, team, doomed, audits, told, acked>>
    PROVE  IInv'
<1>1. /\ req' \in [Deliveries -> Request]
      /\ req'[d].pc = label /\ req'[d].event = req[d].event
      /\ \A x \in Deliveries \ {d} : req'[x] = req[x]
  BY GotoRequest, TypesUnfolded DEF IInv, RunningPC
<1>2. req[d].event \in Events /\ req[d].pc = "dedupe"
  BY DEF IInv, Raised, At
<1>3. TypeOK'
  BY <1>1, <1>2, TypesUnfolded DEF IInv, TypeOK, Request
<1>4. Raised'
  BY <1>1, <1>2 DEF IInv, Raised
<1>5. \A t \in Tokens : audits[req[d].event][t] = 0
  BY <1>2 DEF IInv, Keyed
<1>6. \A x \in Deliveries : Holder(x) => req[x].event # req[d].event
  BY DEF IInv, Keyed
<1>7. Keyed'
  <2>1. \A x \in Deliveries : Holder(x)' /\ req'[x].event \notin Unkeyed =>
          req'[x].event \in seen' /\ \A t \in Tokens : audits'[req'[x].event][t] = 0
    BY <1>1, <1>5 DEF IInv, Keyed, Holder
  <2>2. \A e \in Events \ (seen' \cup Unkeyed) : \A t \in Tokens : audits'[e][t] = 0
    BY DEF IInv, Keyed
  <2>3. \A x \in Deliveries : req'[x].pc \in {"broadcast", "answer"} =>
          req'[x].event \in seen' \cup Unkeyed
    BY <1>1 DEF IInv, Keyed
  <2>4. seen' \cap Unkeyed = {}
    BY DEF IInv, Keyed
  <2> QED BY <2>1, <2>2, <2>3, <2>4 DEF Keyed
<1>8. OneHolder'
  BY <1>1, <1>6 DEF IInv, OneHolder, Holder
<1>9. NoDoubleAudit' /\ Told' /\ Doomed' /\ acked' \subseteq seen' \cup Unkeyed
  BY DEF IInv, NoDoubleAudit, Told, Doomed, Retired
<1>10. Applied' /\ Chosen'
  BY <1>1 DEF IInv, Applied, Chosen, Retired
<1>11. Handled'
  BY <1>1, <1>2 DEF IInv, Handled
<1>12. Through'
  BY <1>1 DEF IInv, Through
<1> QED BY <1>3, <1>4, <1>7, <1>8, <1>9, <1>10, <1>11, <1>12 DEF IInv

\* A delivery of an event without an id holds no key, and goes on all the same.
LEMMA NoKeyStep ==
    ASSUME IInv, NEW d \in Deliveries, At(d, "dedupe"), req[d].event \in Unkeyed,
           Goto(d, "select"), UNCHANGED <<rows, team, doomed, seen, audits, told, acked>>
    PROVE  IInv'
<1>1. /\ req' \in [Deliveries -> Request]
      /\ req'[d].pc = "select" /\ req'[d].event = req[d].event
      /\ \A x \in Deliveries \ {d} : req'[x] = req[x]
  BY GotoRequest, TypesUnfolded DEF IInv, RunningPC
<1>2. req[d].event \in Events /\ req[d].pc = "dedupe"
  BY DEF IInv, Raised, At
<1>3. TypeOK'
  BY <1>1, <1>2, TypesUnfolded DEF IInv, TypeOK, Request
<1>4. Raised'
  BY <1>1, <1>2 DEF IInv, Raised
<1>5. Keyed' /\ OneHolder'
  BY <1>1 DEF IInv, Keyed, OneHolder, Holder
<1>6. NoDoubleAudit' /\ Told' /\ Doomed' /\ acked' \subseteq seen' \cup Unkeyed
  BY DEF IInv, NoDoubleAudit, Told, Doomed, Retired
<1>7. Applied' /\ Chosen'
  BY <1>1 DEF IInv, Applied, Chosen, Retired
<1>8. Handled' /\ Through'
  BY <1>1, <1>2 DEF IInv, Handled, Through
<1> QED BY <1>3, <1>4, <1>5, <1>6, <1>7, <1>8 DEF IInv

LEMMA SelectStep ==
    ASSUME IInv, NEW d \in Deliveries, Select(d)
    PROVE  IInv'
<1> DEFINE found == ActiveRows(team[req[d].event])
           n == [req[d] EXCEPT !.pc = "commit", !.found = found]
<1>a. req' = [req EXCEPT ![d] = n]
  BY DEF Select
<1>b. req[d].pc = "select" /\ UNCHANGED <<rows, team, doomed, seen, audits, told, acked>>
  BY DEF Select, At
<1>0. /\ req' = [req EXCEPT ![d] = n] /\ req[d].pc = "select"
      /\ UNCHANGED <<rows, team, doomed, seen, audits, told, acked>>
      /\ req[d].event \in Events
  BY <1>a, <1>b DEF IInv, Raised
<1>1. req[d] \in Request /\ found \in SUBSET Tokens
  BY TypesUnfolded DEF IInv, ActiveRows
<1>2. \A t \in doomed[req[d].event] : t \in found \/ rows[t].status # "ACTIVE"
  <2>1. doomed[req[d].event] \subseteq Tokens
    BY <1>0, TypesUnfolded DEF IInv
  <2> QED BY <1>0, <2>1 DEF IInv, Doomed, ActiveRows
<1> HIDE DEF found
<1>3. n \in Request /\ n.pc = "commit" /\ n.event = req[d].event /\ n.found = found
  BY <1>1 DEF Request, RunningPC
<1> HIDE DEF n
<1>4. /\ req' \in [Deliveries -> Request] /\ req'[d].pc = "commit"
      /\ req'[d].event = req[d].event /\ req'[d].found = found
      /\ \A x \in Deliveries \ {d} : req'[x] = req[x]
  BY <1>0, <1>3, SetRequest, TypesUnfolded DEF IInv
<1>5. TypeOK'
  BY <1>0, <1>4, TypesUnfolded DEF IInv, TypeOK, Request
<1>6. Raised'
  BY <1>0, <1>4 DEF IInv, Raised
<1>7. Keyed' /\ OneHolder'
  BY <1>0, <1>4 DEF IInv, Keyed, OneHolder, Holder
<1>8. NoDoubleAudit' /\ Told' /\ Doomed' /\ acked' \subseteq seen' \cup Unkeyed
  BY <1>0 DEF IInv, NoDoubleAudit, Told, Doomed, Retired
<1>9. Applied'
  BY <1>0, <1>4 DEF IInv, Applied, Retired
<1>10. Chosen'
  BY <1>0, <1>2, <1>4 DEF IInv, Chosen
<1>11. Handled'
  BY <1>0, <1>4 DEF IInv, Handled
<1>12. Through'
  BY <1>0, <1>4 DEF IInv, Through
<1> QED BY <1>5, <1>6, <1>7, <1>8, <1>9, <1>10, <1>11, <1>12 DEF IInv

\* The COMMIT audits each row once, since nobody audited for the event before,
\* and puts what the event condemns out of use.
LEMMA CommitStep ==
    ASSUME IInv, NEW d \in Deliveries, Commit(d)
    PROVE  IInv'
<1> DEFINE found == req[d].found
           ev == req[d].event
<1>0. /\ req[d].pc = "commit" /\ rows' = Revoked(found) /\ Goto(d, "broadcast")
      /\ audits' = [audits EXCEPT ![ev] =
                      [t \in Tokens |-> IF t \in found THEN @[t] + 1 ELSE @[t]]]
      /\ UNCHANGED <<team, doomed, seen, told, acked>>
  BY DEF Commit, At
<1>1. /\ ev \in Events /\ ev \in seen \cup Unkeyed /\ found \in SUBSET Tokens
      /\ ev \notin Unkeyed => \A t \in Tokens : audits[ev][t] = 0
  BY <1>0, TypesUnfolded DEF IInv, Raised, Keyed, Holder, Request
<1>2. /\ req' \in [Deliveries -> Request] /\ req'[d].pc = "broadcast"
      /\ req'[d].event = ev /\ req'[d].found = found
      /\ \A x \in Deliveries \ {d} : req'[x] = req[x]
  BY <1>0, GotoRequest, TypesUnfolded DEF IInv, RunningPC
<1>3. rows' \in [Tokens -> Row] /\ Kept /\ \A t \in found : rows'[t].status = "REVOKED"
  BY <1>0, <1>1, RevokedKeeps, TypesUnfolded DEF IInv
<1>4. /\ audits' \in [Events -> [Tokens -> Nat]]
      /\ \A t \in Tokens : audits'[ev][t] = IF t \in found THEN audits[ev][t] + 1 ELSE audits[ev][t]
      /\ \A e \in Events \ {ev} : audits'[e] = audits[e]
  <2> DEFINE n == [t \in Tokens |-> IF t \in found THEN audits[ev][t] + 1 ELSE audits[ev][t]]
  <2>1. audits \in [Events -> [Tokens -> Nat]]
    BY TypesUnfolded DEF IInv
  <2>2. audits' = [audits EXCEPT ![ev] = n]
    BY <1>0
  <2>3. /\ n \in [Tokens -> Nat]
        /\ \A t \in Tokens : n[t] = IF t \in found THEN audits[ev][t] + 1 ELSE audits[ev][t]
    BY <1>1, <2>1
  <2> HIDE DEF n
  <2> QED BY <1>1, <2>1, <2>2, <2>3
<1>a. audits[ev] \in [Tokens -> Nat]
  BY <1>1, TypesUnfolded DEF IInv
<1>5. ev \notin Unkeyed => \A x \in Deliveries : Holder(x) /\ x # d => req[x].event # ev
  BY <1>0 DEF IInv, OneHolder, Holder
<1> HIDE DEF found, ev
<1>6. \A e \in Events, t \in Tokens : audits[e][t] > 0 => audits'[e][t] > 0
  <2>1. \A t \in Tokens : audits[ev][t] > 0 => audits'[ev][t] > 0
    BY <1>4, <1>a
  <2> QED BY <1>4, <2>1
<1>7. \A t \in Tokens : Retired(t) => Retired(t)'
  BY <1>3 DEF Kept, Retired
<1>8. /\ doomed \in [Events -> SUBSET Tokens] /\ told \subseteq Tokens /\ seen \subseteq Events
      /\ \A x \in Deliveries : req[x] \in Request
  BY TypesUnfolded DEF IInv
<1>9. \A e \in Events : \A t \in doomed[e] : rows[t].status # "ACTIVE" => rows'[t].status # "ACTIVE"
  BY <1>3, <1>8 DEF IInv, Doomed, Kept
<1>10. TypeOK'
  BY <1>0, <1>2, <1>3, <1>4, TypesUnfolded DEF IInv, TypeOK, Request, Row
<1>11. Raised'
  BY <1>0, <1>1, <1>2 DEF IInv, Raised, ev
<1>12. Keyed'
  <2>1. \A x \in Deliveries : Holder(x)' /\ req'[x].event \notin Unkeyed =>
          req'[x].event \in seen' /\ \A t \in Tokens : audits'[req'[x].event][t] = 0
    <3> SUFFICES ASSUME NEW x \in Deliveries, Holder(x)', req'[x].event \notin Unkeyed
                 PROVE  req'[x].event \in seen' /\ \A t \in Tokens : audits'[req'[x].event][t] = 0
      OBVIOUS
    <3>1. x # d /\ Holder(x) /\ req'[x] = req[x]
      BY <1>2 DEF Holder
    <3>2. req[x].event \in seen /\ \A t \in Tokens : audits[req[x].event][t] = 0
      BY <3>1 DEF IInv, Keyed
    <3>3. req[x].event # ev
      BY <1>5, <3>1
    <3> QED BY <1>0, <1>4, <1>8, <3>1, <3>2, <3>3
  <2>2. \A e \in Events \ (seen' \cup Unkeyed) : \A t \in Tokens : audits'[e][t] = 0
    BY <1>0, <1>1, <1>4 DEF IInv, Keyed
  <2>3. \A x \in Deliveries : req'[x].pc \in {"broadcast", "answer"} =>
          req'[x].event \in seen' \cup Unkeyed
    BY <1>0, <1>1, <1>2 DEF IInv, Keyed
  <2> QED BY <1>0, <2>1, <2>2, <2>3 DEF IInv, Keyed
<1>13. OneHolder'
  BY <1>2 DEF IInv, OneHolder, Holder
<1>14. NoDoubleAudit'
  <2>1. ev \notin Unkeyed => \A t \in Tokens : audits'[ev][t] <= 1
    BY <1>1, <1>4
  <2> QED BY <1>4, <2>1 DEF IInv, NoDoubleAudit
<1>15. Applied'
  <2> SUFFICES ASSUME NEW x \in Deliveries, req'[x].pc = "broadcast", NEW t \in req'[x].found
               PROVE  Retired(t)' /\ audits'[req'[x].event][t] > 0
    BY DEF Applied
  <2>1. CASE x = d
    <3>1. t \in found /\ t \in Tokens /\ audits'[ev][t] > 0
      BY <1>1, <1>2, <1>4, <1>a, <2>1
    <3> QED BY <1>2, <1>3, <2>1, <3>1 DEF Retired
  <2>2. CASE x # d
    <3>1. req'[x] = req[x] /\ t \in Tokens
      BY <1>2, <1>8, <2>2 DEF Request
    <3>2. Retired(t) /\ audits[req[x].event][t] > 0 /\ req[x].event \in Events
      BY <3>1 DEF IInv, Applied, Raised
    <3> QED BY <1>6, <1>7, <3>1, <3>2
  <2> QED BY <2>1, <2>2
<1>16. Told'
  BY <1>0, <1>6, <1>7, <1>8 DEF IInv, Told
<1>17. Doomed'
  BY <1>0, <1>3, <1>8 DEF IInv, Doomed, Kept
<1>18. Chosen'
  <2> SUFFICES ASSUME NEW x \in Deliveries, req'[x].pc = "commit", NEW t \in doomed[req'[x].event],
                      t \notin req'[x].found
               PROVE  rows'[t].status # "ACTIVE"
    BY <1>0 DEF Chosen
  <2>1. x # d /\ req'[x] = req[x]
    BY <1>2
  <2>2. req[x].event \in Events /\ rows[t].status # "ACTIVE"
    BY <2>1 DEF IInv, Raised, Chosen
  <2> QED BY <1>9, <2>1, <2>2
<1>19. Handled'
  <2> SUFFICES ASSUME NEW e \in seen \ Mute,
                      ~ \E x \in Deliveries : req'[x].event = e /\ req'[x].pc \in {"select", "commit", "failed"},
                      NEW t \in doomed[e]
               PROVE  rows'[t].status # "ACTIVE"
    BY <1>0 DEF Handled
  <2>1. CASE e = ev
    <3>1. t \in req[d].found \/ rows[t].status # "ACTIVE"
      BY <1>0, <2>1 DEF IInv, Chosen, ev
    <3> QED BY <1>1, <1>3, <1>9, <2>1, <3>1 DEF found
  <2>2. CASE e # ev
    <3>1. ~ \E x \in Deliveries : req[x].event = e /\ req[x].pc \in {"select", "commit", "failed"}
      BY <1>2, <2>2 DEF ev
    <3>2. rows[t].status # "ACTIVE"
      BY <3>1 DEF IInv, Handled
    <3> QED BY <1>8, <1>9, <3>2
  <2> QED BY <2>1, <2>2
<1>20. Through'
  <2> SUFFICES ASSUME NEW e \in Unkeyed \ Mute,
                      \/ e \in acked
                      \/ \E x \in Deliveries : /\ req'[x].event = e
                                               /\ req'[x].pc \in {"broadcast", "answer"},
                      NEW t \in doomed[e]
               PROVE  rows'[t].status # "ACTIVE"
    BY <1>0 DEF Through
  <2>0. e \in Events
    BY EventsAssumption
  <2>1. CASE e = ev
    <3>1. t \in req[d].found \/ rows[t].status # "ACTIVE"
      BY <1>0, <2>1 DEF IInv, Chosen, ev
    <3> QED BY <1>1, <1>3, <1>9, <2>0, <3>1 DEF found
  <2>2. CASE e # ev
    <3>1. \/ e \in acked
          \/ \E x \in Deliveries : req[x].event = e /\ req[x].pc \in {"broadcast", "answer"}
      BY <1>2, <2>2
    <3>2. rows[t].status # "ACTIVE"
      BY <3>1 DEF IInv, Through
    <3> QED BY <1>9, <2>0, <3>2
  <2> QED BY <2>1, <2>2
<1> QED BY <1>0, <1>20, <1>10, <1>11, <1>12, <1>13, <1>14, <1>15, <1>16, <1>17, <1>18, <1>19 DEF IInv

\* Only what was committed is told.
LEMMA BroadcastStep ==
    ASSUME IInv, NEW d \in Deliveries, Broadcast(d)
    PROVE  IInv'
<1>0. /\ req[d].pc = "broadcast" /\ Goto(d, "answer")
      /\ told' = told \cup req[d].found \/ told' = told
      /\ UNCHANGED <<rows, team, doomed, seen, audits, acked>>
  BY DEF Broadcast, At
<1>1. /\ req' \in [Deliveries -> Request]
      /\ req'[d].pc = "answer" /\ req'[d].event = req[d].event
      /\ \A x \in Deliveries \ {d} : req'[x] = req[x]
  BY <1>0, GotoRequest, TypesUnfolded DEF IInv, RunningPC
<1>2. req[d].found \subseteq Tokens
  BY TypesUnfolded DEF IInv, Request
<1>3. TypeOK'
  BY <1>0, <1>1, <1>2, TypesUnfolded DEF IInv, TypeOK, Request
<1>4. Raised'
  BY <1>0, <1>1 DEF IInv, Raised
<1>5. Keyed' /\ OneHolder'
  BY <1>0, <1>1 DEF IInv, Keyed, OneHolder, Holder
<1>6. NoDoubleAudit' /\ Doomed' /\ acked' \subseteq seen' \cup Unkeyed
  BY <1>0 DEF IInv, NoDoubleAudit, Doomed
<1>7. Told'
  <2>1. req[d].event \in Events
    BY <1>0 DEF IInv, Raised
  <2>2. \A t \in req[d].found : Retired(t) /\ \E e \in Events : audits[e][t] > 0
    BY <1>0, <2>1 DEF IInv, Applied
  <2> QED BY <1>0, <2>2 DEF IInv, Told, Retired
<1>8. Applied' /\ Chosen'
  BY <1>0, <1>1 DEF IInv, Applied, Chosen, Retired
<1>9. Handled' /\ Through'
  BY <1>0, <1>1 DEF IInv, Handled, Through
<1> QED BY <1>3, <1>4, <1>5, <1>6, <1>7, <1>8, <1>9 DEF IInv

LEMMA AnswerStep ==
    ASSUME IInv, NEW d \in Deliveries, Answer(d)
    PROVE  IInv'
<1>0. /\ req[d].pc = "answer" /\ Goto(d, "done")
      /\ acked' = acked \cup {req[d].event} \/ acked' = acked
      /\ UNCHANGED <<rows, team, doomed, seen, audits, told>>
  BY DEF Answer, At
<1>1. /\ req' \in [Deliveries -> Request]
      /\ req'[d].pc = "done" /\ req'[d].event = req[d].event
      /\ \A x \in Deliveries \ {d} : req'[x] = req[x]
  BY <1>0, GotoRequest, TypesUnfolded DEF IInv, RunningPC
<1>2. req[d].event \in seen \cup Unkeyed
  BY <1>0 DEF IInv, Keyed
<1>3. TypeOK'
  BY <1>0, <1>1, <1>2, EventsAssumption, TypesUnfolded DEF IInv, TypeOK, Request
<1>4. Raised'
  BY <1>0, <1>1 DEF IInv, Raised
<1>5. Keyed' /\ OneHolder'
  BY <1>0, <1>1 DEF IInv, Keyed, OneHolder, Holder
<1>6. NoDoubleAudit' /\ Told' /\ Doomed' /\ acked' \subseteq seen' \cup Unkeyed
  BY <1>0, <1>2 DEF IInv, NoDoubleAudit, Told, Doomed, Retired
<1>7. Applied' /\ Chosen'
  BY <1>0, <1>1 DEF IInv, Applied, Chosen, Retired
<1>8. Handled' /\ Through'
  BY <1>0, <1>1 DEF IInv, Handled, Through
<1> QED BY <1>3, <1>4, <1>5, <1>6, <1>7, <1>8 DEF IInv

LEMMA HandlerStepInv ==
    ASSUME IInv, NEW d \in Deliveries, HandlerStep(d) \/ Crash(d)
    PROVE  IInv'
<1>1. CASE Dedupe(d)
  <2> DEFINE e == req[d].event
             label == IF e \in seen \cup Mute THEN "answer" ELSE "select"
  <2>0. /\ At(d, "dedupe") /\ req[d].pc = "dedupe" /\ Goto(d, label)
        /\ seen' = seen \cup ({e} \ Unkeyed)
        /\ UNCHANGED <<rows, team, doomed, audits, told, acked>>
    BY <1>1 DEF Dedupe, At
  <2>1. CASE e \in seen
    <3>1. seen' = seen /\ label = "answer"
      BY <2>0, <2>1
    <3> QED BY <2>0, <2>1, <3>1, MoveStep DEF Holder, RunningPC
  <2>2. CASE e \in Unkeyed /\ e \in Mute
    <3>1. seen' = seen /\ label = "answer"
      BY <2>0, <2>2
    <3> QED BY <2>0, <2>2, <3>1, MoveStep DEF Holder, RunningPC
  <2>3. CASE e \in Unkeyed /\ e \notin Mute
    <3>1. seen' = seen /\ label = "select"
      BY <2>0, <2>3 DEF IInv, Keyed
    <3> QED BY <2>0, <2>3, <3>1, NoKeyStep
  <2>4. CASE e \notin seen \cup Unkeyed
    <3>1. seen' = seen \cup {e}
      BY <2>0, <2>4
    <3> QED BY <2>0, <2>4, <3>1, TakeKeyStep
  <2> QED BY <2>1, <2>2, <2>3, <2>4
<1>2. CASE DedupeFails(d)
  <2>0. /\ req[d].pc = "dedupe" /\ req[d].event \notin Unkeyed
        /\ UNCHANGED <<rows, team, doomed, audits, told, acked>>
    BY <1>2 DEF DedupeFails, At
  <2>1. CASE seen' = seen /\ Goto(d, "done")
    BY <2>0, <2>1, MoveStep DEF Holder, RunningPC
  <2>2. CASE seen' = seen \cup {req[d].event} /\ req[d].event \in seen /\ Goto(d, "done")
    <3>1. seen' = seen
      BY <2>2
    <3> QED BY <2>0, <2>2, <3>1, MoveStep DEF Holder, RunningPC
  <2>3. CASE seen' = seen \cup {req[d].event} /\ req[d].event \notin seen /\ Goto(d, "failed")
    BY <2>0, <2>3, TakeKeyStep DEF At
  <2> QED BY <1>2, <2>1, <2>2, <2>3 DEF DedupeFails
<1>3. CASE Select(d)
  BY <1>3, SelectStep
<1>4. CASE Commit(d)
  BY <1>4, CommitStep
<1>5. CASE CommitFails(d)
  BY <1>5, MoveStep DEF CommitFails, At, RunningPC
<1>6. CASE Broadcast(d)
  BY <1>6, BroadcastStep
<1>7. CASE Answer(d)
  BY <1>7, AnswerStep
<1>8. CASE Crash(d)
  <2>1. CASE Holder(d)
    BY <1>8, <2>1, MoveStep DEF Crash, Holder
  <2>2. CASE ~Holder(d)
    BY <1>8, <2>2, MoveStep DEF Crash, Holder
  <2> QED BY <2>1, <2>2
<1> QED BY <1>1, <1>2, <1>3, <1>4, <1>5, <1>6, <1>7, <1>8 DEF HandlerStep

LEMMA NextInv == IInv /\ [Next]_vars => IInv'
<1> SUFFICES ASSUME IInv, [Next]_vars PROVE IInv'
  OBVIOUS
<1>0. rows \in [Tokens -> Row]
  BY TypesUnfolded DEF IInv
<1>1. ASSUME NEW t \in Tokens, Corrupt(t) PROVE IInv'
  BY <1>0, <1>1, CorruptKeeps, RowsStep DEF Corrupt
<1>2. ASSUME NEW t \in Tokens, NEW a \in Accounts, Connect(t, a) PROVE IInv'
  BY <1>0, <1>2, ConnectKeeps, RowsStep DEF Connect
<1>3. CASE UNCHANGED vars
  BY <1>0, <1>3, KeptTrivial, RowsStep DEF vars
<1> QED BY <1>1, <1>2, <1>3, UninstallStep, SendStep, HandlerStepInv DEF Next

LEMMA InitInv == Init => IInv
<1> SUFFICES ASSUME Init PROVE IInv
  OBVIOUS
<1>1. TypeOK
  BY DEF Init, TypeOK, RowStatus, IdleRequest
<1>2. Raised /\ Keyed /\ OneHolder
  BY NamesAssumption DEF Init, Raised, Keyed, OneHolder, Holder, IdleRequest
<1>3. NoDoubleAudit
  BY DEF Init, NoDoubleAudit
<1>4. Applied /\ Told /\ Doomed /\ Chosen /\ Handled /\ Through /\ acked \subseteq seen \cup Unkeyed
  BY DEF Init, Applied, Told, Doomed, Chosen, Handled, Through, IdleRequest
<1> QED BY <1>1, <1>2, <1>3, <1>4 DEF IInv

LEMMA Inductive == Spec => []IInv
<1> QED BY InitInv, NextInv, PTL DEF Spec

-----------------------------------------------------------------------------

\* The table, Redis, the requests and the sender keep their types.
THEOREM TypeCorrect == Spec => []TypeOK
<1>1. IInv => TypeOK
  BY DEF IInv
<1> QED BY <1>1, Inductive, PTL

\* An event with an id writes one revocation audit per row at most, for any number of
\* deliveries that overlap, are repeated, or meet a crash anywhere.
THEOREM OneAuditPerRow == Spec => []NoDoubleAudit
<1>1. IInv => NoDoubleAudit
  BY DEF IInv
<1> QED BY <1>1, Inductive, PTL

\* Who is told that a row was revoked is told after the commit, and the row is
\* never in use again, whatever the account does later.
THEOREM ToldAfterCommit == Spec => []ToldMeansRevoked
<1>1. IInv => ToldMeansRevoked
  BY DEF IInv, Told, Retired, ToldMeansRevoked
<1> QED BY <1>1, Inductive, PTL

\* A 200 to an event that names an account stands for an applied event once its
\* requests have ended, unless one of them failed after it took the key; without
\* an id there is no such exception.
THEOREM AcknowledgedIsApplied == Spec => []AckMeansRevoked
<1>1. IInv => AckMeansRevoked
  <2> SUFFICES ASSUME IInv, NEW e \in acked \ Mute, Settled(e), ~LostAfterDedupe(e),
                      NEW t \in doomed[e]
               PROVE  rows[t].status # "ACTIVE"
    BY DEF AckMeansRevoked
  <2>1. CASE e \in Unkeyed
    BY <2>1 DEF IInv, Through
  <2>2. CASE e \notin Unkeyed
    <3>1. ~ \E d \in Deliveries : req[d].event = e /\ req[d].pc \in {"select", "commit", "failed"}
      BY <2>2 DEF Settled, LostAfterDedupe, At, RunningPC
    <3>2. e \in seen
      BY <2>2 DEF IInv
    <3> QED BY <3>1, <3>2 DEF IInv, Handled
  <2> QED BY <2>1, <2>2
<1> QED BY <1>1, Inductive, PTL
=============================================================================
