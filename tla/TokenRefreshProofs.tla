------------------------- MODULE TokenRefreshProofs --------------------------
(***************************************************************************)
(* Theorems about TokenRefresh, for any number of replicas, rows and       *)
(* accounts and any budget of faults.                                      *)
(*                                                                         *)
(* In this order: the types; the mutual exclusion of the tasks of a row;   *)
(* what any step of the system does to one row, its tasks and its account  *)
(* at the provider (RowStep), on which the rest is built, as invariants of *)
(* one row at a time; the order in which a row's tokens succeed each other *)
(* and reach AP; that a stale AP connection is found again; that the live  *)
(* grant is never lost; and that only users revoke.  Each part needs fewer *)
(* faults than the one before and says which: they are the ones for which  *)
(* TLC, or a recorded finding, shows that the property fails.              *)
(***************************************************************************)
EXTENDS TokenRefresh, TLAPS

Row == [status : RowStatus, account : Accounts \cup {NoAccount},
        linked : BOOLEAN, refresh : Nat \cup {NoToken}, readable : BOOLEAN,
        access : Nat, when : {"later", "due", "never"}, pending : BOOLEAN]
Task == [pc : TaskPC, refresh : Nat \cup {NoToken}, readable : BOOLEAN,
         linked : BOOLEAN, access : Nat, given : Nat \cup {NoToken},
         lasts : BOOLEAN, synced : BOOLEAN, late : BOOLEAN]
Grant == [state : {"none", "live", "revoked"}, refresh : Nat, access : Nat]

\* TypeOK with the record types named.
LEMMA TypeOKUnfolded ==
    TypeOK <=> /\ rows \in [Tokens -> Row]
               /\ lease \in [Tokens -> Replicas \cup {None}]
               /\ lock \in [Tokens -> Replicas \cup {None}]
               /\ task \in [Replicas -> [Tokens -> Task]]
               /\ grant \in [Tokens -> Grant]
               /\ ap \in [Tokens -> Nat]
               /\ budget \in Nat
BY DEF TypeOK, Row, Task, Grant

\* Writing one task.
LEMMA SetTask ==
    ASSUME task \in [Replicas -> [Tokens -> Task]], NEW w \in Replicas, NEW t \in Tokens,
           NEW k, task' = [task EXCEPT ![w][t] = k]
    PROVE  /\ k \in Task => task' \in [Replicas -> [Tokens -> Task]]
           /\ task'[w][t] = k
           /\ \A v \in Replicas, u \in Tokens :
                 v # w \/ u # t => task'[v][u] = task[v][u]
OBVIOUS

\* Moving a task to another label keeps the type of the tasks, and the others.
LEMMA GoTask ==
    ASSUME task \in [Replicas -> [Tokens -> Task]], NEW w \in Replicas, NEW t \in Tokens,
           NEW label, Go(w, t, label)
    PROVE  /\ label \in TaskPC => task' \in [Replicas -> [Tokens -> Task]]
           /\ task'[w][t].pc = label
           /\ \A v \in Replicas, u \in Tokens :
                 v # w \/ u # t => task'[v][u] = task[v][u]
<1> DEFINE k == [task[w][t] EXCEPT !.pc = label]
<1>1. task[w][t] \in Task
  OBVIOUS
<1>2. (label \in TaskPC => k \in Task) /\ k.pc = label
  BY <1>1 DEF Task
<1>3. task' = [task EXCEPT ![w][t] = k]
  BY DEF Go
<1> HIDE DEF k
<1>4. QED
  BY <1>2, <1>3, SetTask

\* An UPDATE by id keeps the type of the table.
LEMMA UpdateRows ==
    ASSUME rows \in [Tokens -> Row], NEW t \in Tokens, NEW row \in Row, Update(t, row)
    PROVE  rows' \in [Tokens -> Row]
BY DEF Update

\* An honoured refresh keeps the type of the grants.
LEMMA IssuesGrant ==
    ASSUME grant \in [Tokens -> Grant], NEW t \in Tokens, NEW refresh \in Nat,
           Issues(t, refresh)
    PROVE  grant' \in [Tokens -> Grant]
<1>1. grant[t].access + 1 \in Nat
  BY DEF Grant
<1>2. QED
  BY <1>1 DEF Issues, Grant

\* A fault uses up the budget.
LEMMA FaultBudget ==
    ASSUME budget \in Nat, NEW kind, Fault(kind) PROVE budget' \in Nat
BY DEF Fault

\* Revoking the ACTIVE rows of some accounts keeps the type of the table.
LEMMA RevokeActiveRows ==
    ASSUME rows \in [Tokens -> Row], NEW accounts
    PROVE  RevokeActive(rows, accounts) \in [Tokens -> Row]
BY DEF RevokeActive, Row, RowStatus

\* The rows and tasks the definitions build.
LEMMA IdleTypes == AbsentRow \in Row /\ IdleTask \in Task
BY DEF AbsentRow, IdleTask, Row, Task, RowStatus, TaskPC

\* TypeOK for the state after a step, in terms the steps below establish.
LEMMA TypeOKNext ==
    ASSUME rows' \in [Tokens -> Row], lease' \in [Tokens -> Replicas \cup {None}],
           lock' \in [Tokens -> Replicas \cup {None}],
           task' \in [Replicas -> [Tokens -> Task]], grant' \in [Tokens -> Grant],
           ap' \in [Tokens -> Nat], budget' \in Nat
    PROVE  TypeOK'
BY DEF TypeOK, Row, Task, Grant

\* What the labels of the code have to do with types.
LEMMA LabelTypes ==
    /\ {"release", "defer", "lock", "call", "corrupt", "revoke", "store", "push", "flag",
        "apload", "appush", "apclear", "unlock", "load", "aplock"} \subseteq TaskPC
    /\ Critical \subseteq TaskPC
BY DEF TaskPC, FullPC, ApPC, Critical

\* The steps of one task keep the types.
LEMMA TaskStepTypeOK ==
    ASSUME TypeOK, NEW w \in Replicas, NEW t \in Tokens, TaskStep(w, t) PROVE TypeOK'
<1>0. /\ rows \in [Tokens -> Row] /\ lease \in [Tokens -> Replicas \cup {None}]
      /\ lock \in [Tokens -> Replicas \cup {None}]
      /\ task \in [Replicas -> [Tokens -> Task]] /\ grant \in [Tokens -> Grant]
      /\ ap \in [Tokens -> Nat] /\ budget \in Nat
  BY TypeOKUnfolded
<1> DEFINE row == rows[t]
           k == task[w][t]
<1>k. row \in Row /\ k \in Task /\ grant[t] \in Grant
  BY <1>0
<1>1. CASE LoadRow(w, t)
  <2>1. CASE Go(w, t, "release") \/ Go(w, t, "defer")
    BY <1>0, <1>1, <2>1, GoTask, LabelTypes, TypeOKNext DEF LoadRow
  <2>2. CASE task' = [task EXCEPT ![w][t] =
                [@ EXCEPT !.pc = "lock", !.refresh = row.refresh,
                          !.readable = row.readable, !.linked = row.linked]]
    <3> DEFINE n == [k EXCEPT !.pc = "lock", !.refresh = row.refresh,
                              !.readable = row.readable, !.linked = row.linked]
    <3>1. n \in Task
      BY <1>k, LabelTypes DEF Row, Task
    <3>2. task' = [task EXCEPT ![w][t] = n]
      BY <2>2
    <3> HIDE DEF n
    <3>3. QED
      BY <1>0, <1>1, <3>1, <3>2, SetTask, TypeOKNext DEF LoadRow
  <2>3. QED
    BY <1>1, <2>1, <2>2 DEF LoadRow
<1>2. CASE Defer(w, t)
  <2>1. [row EXCEPT !.when = "never"] \in Row
    BY <1>k DEF Row
  <2>2. QED
    BY <1>0, <1>2, <2>1, UpdateRows, GoTask, LabelTypes, TypeOKNext DEF Defer
<1>3. CASE AcquireLock(w, t)
  <2>1. AfterLock(w, t) \in TaskPC
    BY LabelTypes DEF AfterLock
  <2>2. lock' \in [Tokens -> Replicas \cup {None}]
    BY <1>0, <1>3 DEF AcquireLock
  <2>3. QED
    BY <1>0, <1>3, <2>1, <2>2, GoTask, LabelTypes, TypeOKNext DEF AcquireLock
<1>4. CASE RedisFails(w, t)
  BY <1>0, <1>4, FaultBudget, GoTask, LabelTypes, TypeOKNext DEF RedisFails
<1>5. CASE DecryptFails(w, t)
  BY <1>0, <1>5, FaultBudget, GoTask, LabelTypes, TypeOKNext DEF DecryptFails
<1>6. CASE MarkStatus(w, t)
  <2>1. \A s \in {"CORRUPTED", "REVOKED"} : [rows EXCEPT ![t].status = s] \in [Tokens -> Row]
    BY <1>0, <1>k DEF Row, RowStatus
  <2>2. rows' \in [Tokens -> Row]
    BY <1>0, <1>6, <2>1 DEF MarkStatus
  <2>3. QED
    BY <1>0, <1>6, <2>2, GoTask, LabelTypes, TypeOKNext DEF MarkStatus
<1>7. CASE CallProvider(w, t)
  <2>1. CASE Go(w, t, "revoke") /\ UNCHANGED grant
    BY <1>0, <1>7, <2>1, GoTask, LabelTypes, TypeOKNext DEF CallProvider
  <2>2. ASSUME NEW new \in Nat, NEW lasts \in BOOLEAN, Issues(t, new),
               task' = [task EXCEPT ![w][t] =
                      [@ EXCEPT !.pc = "store", !.access = grant[t].access + 1,
                                !.given = IF new = grant[t].refresh THEN NoToken ELSE new,
                                !.lasts = lasts]]
        PROVE  TypeOK'
    <3> DEFINE n == [k EXCEPT !.pc = "store", !.access = grant[t].access + 1,
                              !.given = IF new = grant[t].refresh THEN NoToken ELSE new,
                              !.lasts = lasts]
    <3> DEFINE given == IF new = grant[t].refresh THEN NoToken ELSE new
    <3>a. new \in Nat /\ lasts \in BOOLEAN /\ Issues(t, new)
      BY <2>2
    <3>b. grant[t].access + 1 \in Nat /\ given \in Nat \cup {NoToken}
      BY <1>k, <3>a DEF Grant
    <3>1. n \in Task
      BY <1>k, <3>a, <3>b, LabelTypes DEF Task
    <3>2. task' = [task EXCEPT ![w][t] = n]
      BY <2>2
    <3>3. grant' \in [Tokens -> Grant]
      BY <1>0, <1>k, <3>a, IssuesGrant
    <3> HIDE DEF n
    <3>4. QED
      BY <1>0, <1>7, <3>1, <3>2, <3>3, SetTask, TypeOKNext DEF CallProvider
  <2>3. CASE Honours(t, task[w][t].refresh)
    <3>1. PICK new \in {grant[t].refresh + 1, grant[t].refresh}, lasts \in BOOLEAN :
            /\ Issues(t, new)
            /\ task' = [task EXCEPT ![w][t] =
                  [@ EXCEPT !.pc = "store", !.access = grant[t].access + 1,
                            !.given = IF new = grant[t].refresh THEN NoToken ELSE new,
                            !.lasts = lasts]]
      BY <1>7, <2>3 DEF CallProvider
    <3>2. new \in Nat
      BY <1>k DEF Grant
    <3>3. QED
      BY <2>2, <3>1, <3>2
  <2>4. QED
    BY <1>7, <2>1, <2>3 DEF CallProvider
<1>8. CASE CallFails(w, t)
  <2>1. grant[t].refresh + 1 \in Nat
    BY <1>k DEF Grant
  <2>a. grant' \in [Tokens -> Grant]
    BY <1>0, <1>8, <2>1, IssuesGrant DEF CallFails
  <2>2. QED
    BY <1>0, <1>8, <2>a, FaultBudget, GoTask, LabelTypes, TypeOKNext DEF CallFails
<1>9. CASE StoreRotation(w, t)
  <2> DEFINE r == [rows[t] EXCEPT !.access = k.access,
                        !.refresh = IF k.given = NoToken THEN k.refresh ELSE k.given,
                        !.readable = k.given # NoToken,
                        !.when = IF k.lasts THEN "later" ELSE "never"]
  <2>1. r \in Row
    BY <1>k DEF Row, Task
  <2>2. Update(t, r) /\ Go(w, t, "push") /\ UNCHANGED <<lease, lock, grant, ap, budget>>
    BY <1>9 DEF StoreRotation
  <2> HIDE DEF r
  <2>3. QED
    BY <1>0, <2>1, <2>2, UpdateRows, GoTask, LabelTypes, TypeOKNext
<1>10. CASE PushToAP(w, t)
  <2> DEFINE n == [k EXCEPT !.pc = "flag", !.synced = TRUE]
  <2>1. n \in Task
    BY <1>k, LabelTypes DEF Task
  <2>2. task' = [task EXCEPT ![w][t] = n]
    BY <1>10 DEF PushToAP
  <2>3. ap' \in [Tokens -> Nat]
    BY <1>0, <1>k, <1>10 DEF PushToAP, Task
  <2> HIDE DEF n
  <2>4. QED
    BY <1>0, <1>10, <2>1, <2>2, <2>3, SetTask, TypeOKNext DEF PushToAP
<1>11. CASE PushFails(w, t)
  <2>1. ap' \in [Tokens -> Nat] /\ budget' \in Nat
    BY <1>0, <1>k, <1>11, FaultBudget DEF PushFails, ApFault, Task
  <2>2. QED
    BY <1>0, <1>11, <2>1, GoTask, LabelTypes, TypeOKNext DEF PushFails
<1>12. CASE WriteFlag(w, t)
  <2>1. [row EXCEPT !.pending = ~k.synced] \in Row
    BY <1>k DEF Row
  <2>2. QED
    BY <1>0, <1>12, <2>1, UpdateRows, GoTask, LabelTypes, TypeOKNext DEF WriteFlag
<1>13. CASE LoadPending(w, t)
  <2>1. CASE Go(w, t, "unlock") \/ Go(w, t, "apclear")
    BY <1>0, <1>13, <2>1, GoTask, LabelTypes, TypeOKNext DEF LoadPending
  <2>2. CASE task' = [task EXCEPT ![w][t] = [@ EXCEPT !.pc = "appush", !.access = row.access]]
    <3> DEFINE n == [k EXCEPT !.pc = "appush", !.access = row.access]
    <3>1. n \in Task
      BY <1>k, LabelTypes DEF Row, Task
    <3>2. task' = [task EXCEPT ![w][t] = n]
      BY <2>2
    <3> HIDE DEF n
    <3>3. QED
      BY <1>0, <1>13, <3>1, <3>2, SetTask, TypeOKNext DEF LoadPending
  <2>3. QED
    BY <1>13, <2>1, <2>2 DEF LoadPending
<1>14. CASE RetryPush(w, t)
  <2>1. ap' \in [Tokens -> Nat]
    BY <1>0, <1>k, <1>14 DEF RetryPush, Task
  <2>2. QED
    BY <1>0, <1>14, <2>1, GoTask, LabelTypes, TypeOKNext DEF RetryPush
<1>15. CASE RetryPushFails(w, t)
  <2>1. ap' \in [Tokens -> Nat] /\ budget' \in Nat
    BY <1>0, <1>k, <1>15, FaultBudget DEF RetryPushFails, ApFault, Task
  <2>2. QED
    BY <1>0, <1>15, <2>1, GoTask, LabelTypes, TypeOKNext DEF RetryPushFails
<1>16. CASE ClearFlag(w, t)
  <2>1. [row EXCEPT !.pending = FALSE] \in Row
    BY <1>k DEF Row
  <2>2. QED
    BY <1>0, <1>16, <2>1, UpdateRows, GoTask, LabelTypes, TypeOKNext DEF ClearFlag
<1>17. CASE DbFails(w, t)
  BY <1>0, <1>17, FaultBudget, GoTask, LabelTypes, TypeOKNext DEF DbFails
<1>18. CASE Unlock(w, t)
  <2>1. lock' \in [Tokens -> Replicas \cup {None}]
    BY <1>0, <1>18 DEF Unlock
  <2>2. budget' \in Nat
    BY <1>0, <1>18, FaultBudget DEF Unlock
  <2>3. QED
    BY <1>0, <1>18, <2>1, <2>2, GoTask, LabelTypes, TypeOKNext DEF Unlock
<1>19. CASE ReleaseLease(w, t)
  <2>1. lease' \in [Tokens -> Replicas \cup {None}]
    BY <1>0, <1>19 DEF ReleaseLease
  <2>2. budget' \in Nat
    BY <1>0, <1>19, FaultBudget DEF ReleaseLease
  <2>3. QED
    BY <1>0, <1>19, <2>1, <2>2, SetTask, IdleTypes, TypeOKNext DEF ReleaseLease
<1>20. QED
  BY <1>1, <1>2, <1>3, <1>4, <1>5, <1>6, <1>7, <1>8, <1>9, <1>10, <1>11, <1>12, <1>13,
     <1>14, <1>15, <1>16, <1>17, <1>18, <1>19 DEF TaskStep

\* Steps of the loop, of time and of the other writers keep the types.
LEMMA OtherStepTypeOK ==
    ASSUME TypeOK,
           \/ \E w \in Replicas : Claim(w) \/ Crash(w) \/ Shutdown(w)
           \/ \E w \in Replicas, t \in Tokens : LeaseExpires(w, t) \/ LockExpires(w, t)
           \/ \E t \in Tokens : BecomesDue(t) \/ Others(t)
    PROVE  TypeOK'
<1>0. /\ rows \in [Tokens -> Row] /\ lease \in [Tokens -> Replicas \cup {None}]
      /\ lock \in [Tokens -> Replicas \cup {None}]
      /\ task \in [Replicas -> [Tokens -> Task]] /\ grant \in [Tokens -> Grant]
      /\ ap \in [Tokens -> Nat] /\ budget \in Nat
  BY TypeOKUnfolded
<1>1. ASSUME NEW w \in Replicas, Claim(w) PROVE TypeOK'
  <2>1. PICK batch \in SUBSET Tokens :
          /\ lease' = [t \in Tokens |-> IF t \in batch THEN w ELSE lease[t]]
          /\ task' = [task EXCEPT ![w] = [t \in Tokens |->
                IF t \notin batch THEN IdleTask
                ELSE [IdleTask EXCEPT !.pc =
                        IF rows[t].when = "due" THEN "load" ELSE "aplock"]]]
    BY <1>1 DEF Claim
  <2>2. \A label \in {"load", "aplock"} : [IdleTask EXCEPT !.pc = label] \in Task
    BY IdleTypes, LabelTypes DEF Task
  <2>3. task' \in [Replicas -> [Tokens -> Task]]
    BY <1>0, <2>1, <2>2, IdleTypes
  <2>4. lease' \in [Tokens -> Replicas \cup {None}]
    BY <1>0, <2>1
  <2>5. QED
    BY <1>0, <1>1, <2>3, <2>4, TypeOKNext DEF Claim
<1>2. ASSUME NEW w \in Replicas, Crash(w) PROVE TypeOK'
  <2>1. task' \in [Replicas -> [Tokens -> Task]]
    BY <1>0, <1>2, IdleTypes DEF Crash
  <2>2. QED
    BY <1>0, <1>2, <2>1, FaultBudget, TypeOKNext DEF Crash
<1>3. ASSUME NEW w \in Replicas, Shutdown(w) PROVE TypeOK'
  <2>1. PICK waiting \in SUBSET Tokens :
          task' = [task EXCEPT ![w] = [t \in Tokens |->
              IF t \in waiting THEN IdleTask
              ELSE IF At(w, t, "idle") THEN task[w][t]
              ELSE [task[w][t] EXCEPT !.pc =
                        IF task[w][t].pc \in Critical THEN "unlock" ELSE "release"]]]
    BY <1>3 DEF Shutdown
  <2>2. \A t \in Tokens, label \in {"unlock", "release"} :
           [task[w][t] EXCEPT !.pc = label] \in Task
    <3>1. \A t \in Tokens : task[w][t] \in Task
      BY <1>0
    <3>2. QED
      BY <3>1, LabelTypes DEF Task
  <2>3. task' \in [Replicas -> [Tokens -> Task]]
    BY <1>0, <2>1, <2>2, IdleTypes
  <2>4. QED
    BY <1>0, <1>3, <2>3, FaultBudget, TypeOKNext DEF Shutdown
<1>4. ASSUME NEW w \in Replicas, NEW t \in Tokens, LeaseExpires(w, t) PROVE TypeOK'
  <2>1. lease' \in [Tokens -> Replicas \cup {None}]
    BY <1>0, <1>4 DEF LeaseExpires
  <2>2. CASE UNCHANGED <<task, budget>>
    BY <1>0, <1>4, <2>1, <2>2, TypeOKNext DEF LeaseExpires
  <2>3. CASE Fault("lease_lapse") /\ task' = [task EXCEPT ![w][t].late = TRUE]
    <3> DEFINE n == [task[w][t] EXCEPT !.late = TRUE]
    <3>0. task[w][t] \in Task
      BY <1>0
    <3>1. n \in Task
      BY <3>0 DEF Task
    <3>2. task' = [task EXCEPT ![w][t] = n]
      BY <2>3
    <3> HIDE DEF n
    <3>3. QED
      BY <1>0, <1>4, <2>1, <2>3, <3>1, <3>2, SetTask, FaultBudget, TypeOKNext
         DEF LeaseExpires
  <2>4. QED
    BY <1>4, <2>2, <2>3 DEF LeaseExpires
<1>5. ASSUME NEW w \in Replicas, NEW t \in Tokens, LockExpires(w, t) PROVE TypeOK'
  <2>1. lock' \in [Tokens -> Replicas \cup {None}] /\ budget' \in Nat
    BY <1>0, <1>5, FaultBudget DEF LockExpires
  <2>2. QED
    BY <1>0, <1>5, <2>1, TypeOKNext DEF LockExpires
<1>6. ASSUME NEW t \in Tokens, BecomesDue(t) PROVE TypeOK'
  <2> DEFINE row == rows[t]
             due == [row EXCEPT !.when = "due"]
  <2>a. row \in Row
    BY <1>0
  <2>b. rows' = [rows EXCEPT ![t] = due]
    BY <1>6 DEF BecomesDue
  <2> HIDE DEF row
  <2>0. due \in Row
    BY <2>a DEF Row
  <2> HIDE DEF due
  <2>1. rows' \in [Tokens -> Row]
    BY <1>0, <2>0, <2>b
  <2>2. QED
    BY <1>0, <1>6, <2>1, TypeOKNext DEF BecomesDue
<1>7. ASSUME NEW t \in Tokens, Connect(t) PROVE TypeOK'
  <2>1. PICK a \in Accounts \cup {NoAccount}, r \in Nat \cup {NoToken} :
          rows' = [RevokeActive(rows, {a} \ {NoAccount}) EXCEPT
                ![t] = [AbsentRow EXCEPT !.status = "ACTIVE", !.account = a,
                                         !.refresh = r, !.when = "later"]]
    BY <1>7 DEF Connect
  <2>2. [AbsentRow EXCEPT !.status = "ACTIVE", !.account = a,
                          !.refresh = r, !.when = "later"] \in Row
    BY DEF AbsentRow, Row, RowStatus
  <2>3. rows' \in [Tokens -> Row]
    BY <1>0, <2>1, <2>2, RevokeActiveRows
  <2>4. grant' \in [Tokens -> Grant]
    BY <1>0, <1>7 DEF Connect, Grant
  <2>5. QED
    BY <1>0, <1>7, <2>3, <2>4, TypeOKNext DEF Connect
<1>8. ASSUME NEW t \in Tokens, Finalize(t) PROVE TypeOK'
  <2> DEFINE row == rows[t]
             linked == [row EXCEPT !.linked = TRUE]
  <2>a. row \in Row
    BY <1>0
  <2>b. rows' = [rows EXCEPT ![t] = linked]
    BY <1>8 DEF Finalize
  <2> HIDE DEF row
  <2>0. linked \in Row
    BY <2>a DEF Row
  <2> HIDE DEF linked
  <2>1. rows' \in [Tokens -> Row]
    BY <1>0, <2>0, <2>b
  <2>2. QED
    BY <1>0, <1>8, <2>1, TypeOKNext DEF Finalize
<1>9. ASSUME NEW t \in Tokens, Compensate(t) PROVE TypeOK'
  BY <1>0, <1>9, IdleTypes, TypeOKNext DEF Compensate
<1>10. ASSUME NEW t \in Tokens, UserRevokes(t) PROVE TypeOK'
  <2>1. grant' \in [Tokens -> Grant]
    BY <1>0, <1>10 DEF UserRevokes, Grant
  <2>2. QED
    BY <1>0, <1>10, <2>1, TypeOKNext DEF UserRevokes
<1>11. ASSUME NEW t \in Tokens, Webhook(t) PROVE TypeOK'
  BY <1>0, <1>11, RevokeActiveRows, TypeOKNext DEF Webhook
<1>12. QED
  BY <1>1, <1>2, <1>3, <1>4, <1>5, <1>6, <1>7, <1>8, <1>9, <1>10, <1>11 DEF Others

LEMMA NextTypeOK == TypeOK /\ [Next]_vars => TypeOK'
<1>1. CASE UNCHANGED vars
  BY <1>1 DEF vars, TypeOK
<1>2. QED
  BY <1>1, TaskStepTypeOK, OtherStepTypeOK DEF Next

\* The stores of the worker and its tasks always have their types, whatever
\* fails and whoever writes the rows meanwhile.
THEOREM TypeCorrect == Spec => []TypeOK
<1>1. Init => TypeOK
  <2> SUFFICES ASSUME Init PROVE TypeOK
    OBVIOUS
  <2>1. grant \in [Tokens -> Grant] /\ ap \in [Tokens -> Nat] /\ budget \in Nat
    BY BoundsAssumption DEF Init, Grant
  <2>2. QED
    BY <2>1, IdleTypes, TypeOKUnfolded DEF Init
<1>2. QED
  BY <1>1, NextTypeOK, PTL DEF Spec

\* A step that neither takes nor frees a lock, and enters no critical section.
Neutral(w, t) ==
    /\ lock' = lock
    /\ task'[w][t].pc \in Critical => task[w][t].pc \in Critical

\* What a step of a task does to the locks and to the critical sections.
LEMMA TaskStepLock ==
    ASSUME TypeOK, NEW w \in Replicas, NEW t \in Tokens, TaskStep(w, t)
    PROVE  /\ \A v \in Replicas, u \in Tokens : v # w \/ u # t => task'[v][u] = task[v][u]
           /\ \/ Neutral(w, t)
              \/ lock[t] = None /\ lock' = [lock EXCEPT ![t] = w]
              \/ /\ task[w][t].pc \in Critical /\ task'[w][t].pc \notin Critical
                 /\ lock' = lock \/ lock' = [lock EXCEPT ![t] = None]
<1>0. task \in [Replicas -> [Tokens -> Task]] /\ lock \in [Tokens -> Replicas \cup {None}]
  BY TypeOKUnfolded
<1>1. CASE LoadRow(w, t)
  <2>1. CASE Go(w, t, "release") \/ Go(w, t, "defer")
    BY <1>0, <1>1, <2>1, GoTask DEF LoadRow, Neutral, Critical
  <2>2. CASE ~(Go(w, t, "release") \/ Go(w, t, "defer"))
    <3> DEFINE n == [task[w][t] EXCEPT !.pc = "lock", !.refresh = rows[t].refresh,
                         !.readable = rows[t].readable, !.linked = rows[t].linked]
    <3>1. n.pc = "lock"
      BY <1>0 DEF Task
    <3>2. task' = [task EXCEPT ![w][t] = n] /\ lock' = lock
      BY <1>1, <2>2 DEF LoadRow
    <3> HIDE DEF n
    <3>3. QED
      BY <1>0, <3>1, <3>2, SetTask DEF Neutral, Critical
  <2>3. QED
    BY <2>1, <2>2
<1>2. CASE Defer(w, t)
  BY <1>0, <1>2, GoTask DEF Defer, Neutral, Critical
<1>3. CASE AcquireLock(w, t)
  BY <1>0, <1>3, GoTask DEF AcquireLock, Neutral, Critical
<1>4. CASE RedisFails(w, t)
  BY <1>0, <1>4, GoTask DEF RedisFails, Neutral, Critical
<1>5. CASE DecryptFails(w, t)
  BY <1>0, <1>5, GoTask DEF DecryptFails, Neutral, Critical, At
<1>6. CASE MarkStatus(w, t)
  BY <1>0, <1>6, GoTask DEF MarkStatus, Neutral, Critical
<1>7. CASE CallProvider(w, t)
  <2>1. task[w][t].pc \in Critical /\ lock' = lock
    BY <1>7 DEF CallProvider, Critical, At
  <2>2. CASE Go(w, t, "revoke")
    BY <1>0, <2>1, <2>2, GoTask DEF Neutral
  <2>3. CASE ~Go(w, t, "revoke")
    <3>1. PICK n : task' = [task EXCEPT ![w][t] = n]
      BY <1>7, <2>3 DEF CallProvider
    <3>2. QED
      BY <1>0, <2>1, <3>1, SetTask DEF Neutral
  <2>4. QED
    BY <2>2, <2>3
<1>8. CASE CallFails(w, t)
  BY <1>0, <1>8, GoTask DEF CallFails, Neutral, Critical, At
<1>9. CASE StoreRotation(w, t)
  BY <1>0, <1>9, GoTask DEF StoreRotation, Neutral, Critical, At
<1>10. CASE PushToAP(w, t)
  <2>1. PICK n : task' = [task EXCEPT ![w][t] = n]
    BY <1>10 DEF PushToAP
  <2>2. QED
    BY <1>0, <1>10, <2>1, SetTask DEF PushToAP, Neutral, Critical, At
<1>11. CASE PushFails(w, t)
  BY <1>0, <1>11, GoTask DEF PushFails, Neutral, Critical, At
<1>12. CASE WriteFlag(w, t)
  BY <1>0, <1>12, GoTask DEF WriteFlag, Neutral, Critical, At
<1>13. CASE LoadPending(w, t)
  <2>1. task[w][t].pc \in Critical /\ lock' = lock
    BY <1>13 DEF LoadPending, Critical, At
  <2>2. CASE Go(w, t, "unlock") \/ Go(w, t, "apclear")
    BY <1>0, <2>1, <2>2, GoTask DEF Neutral
  <2>3. CASE ~(Go(w, t, "unlock") \/ Go(w, t, "apclear"))
    <3>1. PICK n : task' = [task EXCEPT ![w][t] = n]
      BY <1>13, <2>3 DEF LoadPending
    <3>2. QED
      BY <1>0, <2>1, <3>1, SetTask DEF Neutral
  <2>4. QED
    BY <2>2, <2>3
<1>14. CASE RetryPush(w, t)
  BY <1>0, <1>14, GoTask DEF RetryPush, Neutral, Critical, At
<1>15. CASE RetryPushFails(w, t)
  BY <1>0, <1>15, GoTask DEF RetryPushFails, Neutral, Critical, At
<1>16. CASE ClearFlag(w, t)
  BY <1>0, <1>16, GoTask DEF ClearFlag, Neutral, Critical, At
<1>17. CASE DbFails(w, t)
  BY <1>0, <1>17, GoTask DEF DbFails, Neutral, Critical
<1>18. CASE Unlock(w, t)
  BY <1>0, <1>18, GoTask DEF Unlock, Critical, At
<1>19. CASE ReleaseLease(w, t)
  BY <1>0, <1>19, SetTask DEF ReleaseLease, Neutral, Critical, IdleTask
<1>20. QED
  BY <1>1, <1>2, <1>3, <1>4, <1>5, <1>6, <1>7, <1>8, <1>9, <1>10, <1>11, <1>12, <1>13,
     <1>14, <1>15, <1>16, <1>17, <1>18, <1>19 DEF TaskStep

\* Every step keeps the mutex, as long as no task outlives its lock.
LEMMA NextSingleFlight ==
    ASSUME "lock_lapse" \notin Faults, TypeOK, SingleFlight, [Next]_vars
    PROVE  SingleFlight'
<1>0. task \in [Replicas -> [Tokens -> Task]] /\ lock \in [Tokens -> Replicas \cup {None}]
  BY TypeOKUnfolded
<1>1. ASSUME NEW w \in Replicas, NEW t \in Tokens, TaskStep(w, t) PROVE SingleFlight'
  <2> SUFFICES ASSUME NEW v \in Replicas, NEW u \in Tokens, task'[v][u].pc \in Critical
               PROVE  lock'[u] = v
    BY DEF SingleFlight
  <2>1. /\ v # w \/ u # t => task'[v][u] = task[v][u]
        /\ \/ Neutral(w, t)
           \/ lock[t] = None /\ lock' = [lock EXCEPT ![t] = w]
           \/ /\ task[w][t].pc \in Critical /\ task'[w][t].pc \notin Critical
              /\ lock' = lock \/ lock' = [lock EXCEPT ![t] = None]
    BY <1>1, TaskStepLock
  <2>2. \A x \in Replicas, y \in Tokens : task[x][y].pc \in Critical => lock[y] = x
    BY DEF SingleFlight
  <2>3. QED
    BY <1>0, <2>1, <2>2, NamesAssumption DEF Neutral
<1>2. ASSUME NEW w \in Replicas, Claim(w) \/ Crash(w) \/ Shutdown(w) PROVE SingleFlight'
  <2>1. lock' = lock
    BY <1>2 DEF Claim, Crash, Shutdown
  <2>2. \A v \in Replicas \ {w} : task'[v] = task[v]
    BY <1>0, <1>2 DEF Claim, Crash, Shutdown
  <2>3. \A u \in Tokens : task'[w][u].pc \in Critical => task[w][u].pc \in Critical
    <3>1. CASE Claim(w)
      BY <1>0, <3>1 DEF Claim, IdleTask, Critical
    <3>2. CASE Crash(w)
      BY <1>0, <3>2 DEF Crash, IdleTask, Critical
    <3>3. CASE Shutdown(w)
      BY <1>0, <3>3 DEF Shutdown, IdleTask, Critical, At, Task
    <3>4. QED
      BY <1>2, <3>1, <3>2, <3>3
  <2>4. QED
    BY <2>1, <2>2, <2>3 DEF SingleFlight
<1>3. ASSUME NEW w \in Replicas, NEW t \in Tokens, LeaseExpires(w, t) PROVE SingleFlight'
  <2>1. lock' = lock
    BY <1>3 DEF LeaseExpires
  <2>2. \A v \in Replicas, u \in Tokens : task'[v][u].pc = task[v][u].pc
    <3>1. CASE task' = task
      BY <3>1
    <3>2. CASE task' = [task EXCEPT ![w][t].late = TRUE]
      <4> DEFINE n == [task[w][t] EXCEPT !.late = TRUE]
      <4>0. task[w][t] \in Task
        BY <1>0
      <4>1. n.pc = task[w][t].pc
        BY <4>0 DEF Task
      <4>2. task' = [task EXCEPT ![w][t] = n]
        BY <3>2
      <4> HIDE DEF n
      <4>3. QED
        BY <1>0, <4>1, <4>2, SetTask
    <3>3. QED
      BY <1>3, <3>1, <3>2 DEF LeaseExpires
  <2>3. QED
    BY <2>1, <2>2 DEF SingleFlight
<1>4. ASSUME NEW w \in Replicas, NEW t \in Tokens, LockExpires(w, t) PROVE SingleFlight'
  <2>1. task[w][t].pc \notin Critical /\ task' = task
        /\ lock[t] = w /\ lock' = [lock EXCEPT ![t] = None]
    BY <1>4 DEF LockExpires, Fault
  <2>2. QED
    BY <1>0, <2>1 DEF SingleFlight
<1>5. ASSUME NEW t \in Tokens, BecomesDue(t) \/ Others(t) PROVE SingleFlight'
  BY <1>5 DEF BecomesDue, Others, Connect, Finalize, Compensate, UserRevokes, Webhook,
     SingleFlight
<1>6. CASE UNCHANGED vars
  BY <1>6 DEF vars, SingleFlight
<1>7. QED
  BY <1>1, <1>2, <1>3, <1>4, <1>5, <1>6 DEF Next

\* The mutex of the refresh worker: a row is never worked on by two tasks that
\* both believe they hold its lock, for any number of replicas, although leases
\* lapse, are released by others, and processes die anywhere.
THEOREM MutualExclusion ==
    ASSUME "lock_lapse" \notin Faults PROVE Spec => []SingleFlight
<1>1. Init => SingleFlight
  BY DEF Init, SingleFlight, IdleTask, Critical
<1>2. TypeOK /\ SingleFlight /\ [Next]_vars => SingleFlight'
  BY NextSingleFlight
<1>3. QED
  BY <1>1, <1>2, TypeCorrect, PTL DEF Spec

-----------------------------------------------------------------------------
(***************************************************************************)
(* One row.  What a step of the system does to a row, to its tasks, and to *)
(* what the provider and AP hold of it: the invariants below speak of one  *)
(* row each, and are kept by these steps.                                  *)
(***************************************************************************)

\* What a task carries along is as before.
Luggage(w, u) ==
    /\ task'[w][u].refresh = task[w][u].refresh
    /\ task'[w][u].linked = task[w][u].linked
    /\ task'[w][u].access = task[w][u].access
    /\ task'[w][u].given = task[w][u].given
    /\ task'[w][u].synced = task[w][u].synced

Hops(w, u, label) == task'[w][u].pc = label /\ Luggage(w, u)
Waits(w, u) == Hops(w, u, task[w][u].pc)

\* The task of the row is a new one, or none.
Blank(w, u) ==
    /\ task'[w][u].refresh = NoToken /\ task'[w][u].given = NoToken
    /\ ~task'[w][u].linked /\ ~task'[w][u].synced
    /\ task'[w][u].access = 0

SameRow(u) == rows'[u] = rows[u]
SameGrant(u) == grant'[u] = grant[u]
SameAp(u) == ap'[u] = ap[u]
SameLease(u) == lease'[u] = lease[u]

Identity(u) ==
    /\ rows'[u].status = rows[u].status
    /\ rows'[u].account = rows[u].account
    /\ rows'[u].linked = rows[u].linked
Contents(u) ==
    /\ rows'[u].refresh = rows[u].refresh
    /\ rows'[u].access = rows[u].access

\* A write by id, which does nothing when the row is gone.
Written(u, Effect) == IF Present(rows[u]) THEN Effect ELSE SameRow(u)

Marked(u, status) ==
    /\ rows'[u].status = status
    /\ rows'[u].account = rows[u].account
    /\ rows'[u].linked = rows[u].linked
    /\ Contents(u)
    /\ rows'[u].when = rows[u].when /\ rows'[u].pending = rows[u].pending
Timed(u, when) ==
    Identity(u) /\ Contents(u) /\ rows'[u].pending = rows[u].pending /\ rows'[u].when = when
Flagged(u, pending) ==
    Identity(u) /\ Contents(u) /\ rows'[u].when = rows[u].when /\ rows'[u].pending = pending
Rotated(u, k) ==
    /\ Identity(u) /\ rows'[u].pending = rows[u].pending
    /\ rows'[u].access = k.access
    /\ rows'[u].refresh = IF k.given = NoToken THEN k.refresh ELSE k.given
    /\ rows'[u].when \in {"later", "never"}

\* A task goes on and changes nothing but itself.
Passes(w, u) ==
    LET from == task[w][u].pc IN
    /\ SameRow(u) /\ SameGrant(u) /\ SameAp(u) /\ SameLease(u)
    /\ \/ from \in {"load", "defer", "lock", "aplock"} /\ Hops(w, u, "release")
       \/ from = "load" /\ rows[u].refresh = NoToken /\ Hops(w, u, "defer")
       \/ from = "lock" /\ (Hops(w, u, "call") \/ Hops(w, u, "corrupt"))
       \/ from = "aplock" /\ Hops(w, u, "apload")
       \/ from = "call" /\ Hops(w, u, "corrupt")
       \/ from = "call" /\ ~Honours(u, task[w][u].refresh) /\ Hops(w, u, "revoke")
       \/ from \in {"call", "corrupt", "revoke", "apload", "appush"} /\ Hops(w, u, "unlock")
       \/ from = "apload" /\ ~rows[u].linked /\ Hops(w, u, "apclear")
       \/ from = "unlock" /\ Hops(w, u, "release")

\* A task is thrown out of its path.
Breaks(w, u) ==
    /\ SameRow(u) /\ SameGrant(u) /\ SameAp(u) /\ SameLease(u)
    /\ \/ "db" \in Faults /\ Hops(w, u, "unlock")
          /\ task[w][u].pc \in {"corrupt", "revoke", "store", "flag", "apload", "apclear"}
       \/ "shutdown" \in Faults /\ task[w][u].pc \in Critical /\ Hops(w, u, "unlock")
       \/ "shutdown" \in Faults /\ task[w][u].pc \notin {"idle"} \cup Critical /\ Hops(w, u, "release")
       \/ {"crash", "shutdown"} \cap Faults # {} /\ task'[w][u].pc = "idle" /\ Blank(w, u)

\* A task begins or ends.
Begins(w, u) ==
    /\ SameRow(u) /\ SameGrant(u) /\ SameAp(u)
    /\ task[w][u].pc = "idle" /\ Blank(w, u)
    /\ lease[u] = None /\ lease'[u] = w /\ rows[u].status = "ACTIVE"
    /\ \/ rows[u].when = "due" /\ task'[w][u].pc = "load"
       \/ rows[u].pending /\ task'[w][u].pc = "aplock"
Ends(w, u) ==
    /\ SameRow(u) /\ SameGrant(u) /\ SameAp(u)
    /\ task[w][u].pc \in {"release", "idle"} /\ task'[w][u].pc = "idle" /\ Blank(w, u)
    /\ IF task[w][u].pc = "idle" THEN SameLease(u)
       ELSE lease'[u] = None \/ ("db" \in Faults /\ SameLease(u))

\* A task reads.
Loads(w, u) ==
    /\ SameRow(u) /\ SameGrant(u) /\ SameAp(u) /\ SameLease(u)
    /\ \/ /\ task[w][u].pc = "load" /\ task'[w][u].pc = "lock"
          /\ rows[u].status = "ACTIVE" /\ rows[u].refresh # NoToken
          /\ task'[w][u].refresh = rows[u].refresh
          /\ task'[w][u].linked = rows[u].linked
          /\ task'[w][u].given = task[w][u].given
          /\ task'[w][u].access = task[w][u].access
          /\ task'[w][u].synced = task[w][u].synced
       \/ /\ task[w][u].pc = "apload" /\ task'[w][u].pc = "appush"
          /\ rows[u].status = "ACTIVE" /\ rows[u].pending /\ rows[u].linked
          /\ task'[w][u].access = rows[u].access
          /\ task'[w][u].refresh = task[w][u].refresh
          /\ task'[w][u].linked = task[w][u].linked
          /\ task'[w][u].given = task[w][u].given
          /\ task'[w][u].synced = task[w][u].synced

\* A task writes the row.
Writes(w, u) ==
    LET k == task[w][u] IN
    /\ SameGrant(u) /\ SameAp(u) /\ SameLease(u)
    /\ \/ k.pc = "defer" /\ Hops(w, u, "release") /\ Written(u, Timed(u, "never"))
       \/ k.pc = "corrupt" /\ Hops(w, u, "unlock") /\ Written(u, Marked(u, "CORRUPTED"))
       \/ k.pc = "revoke" /\ Hops(w, u, "unlock") /\ Written(u, Marked(u, "REVOKED"))
       \/ k.pc = "store" /\ Hops(w, u, "push") /\ Written(u, Rotated(u, k))
       \/ k.pc = "flag" /\ Hops(w, u, "unlock") /\ Written(u, Flagged(u, ~k.synced))
       \/ k.pc = "apclear" /\ Hops(w, u, "unlock") /\ Written(u, Flagged(u, FALSE))

\* The provider rotates, and answers or is not heard.
Rotates(w, u) ==
    LET old == grant[u].refresh
        k == task[w][u]
        n == task'[w][u]
    IN
    /\ SameRow(u) /\ SameAp(u) /\ SameLease(u)
    /\ k.pc = "call" /\ Honours(u, k.refresh)
    /\ grant'[u].state = grant[u].state
    /\ grant'[u].access = grant[u].access + 1
    /\ \/ /\ n.pc = "store" /\ n.access = grant[u].access + 1
          /\ n.refresh = k.refresh /\ n.linked = k.linked /\ n.synced = k.synced
          /\ grant'[u].refresh \in {old, old + 1}
          /\ n.given = IF grant'[u].refresh = old THEN NoToken ELSE grant'[u].refresh
       \/ "lost_reply" \in Faults /\ Hops(w, u, "unlock")

\* A task pushes to AP.
Pushes(w, u) ==
    LET k == task[w][u] IN
    /\ SameRow(u) /\ SameGrant(u) /\ SameLease(u)
    /\ \/ /\ k.pc = "push" /\ task'[w][u].pc = "flag" /\ task'[w][u].synced
          /\ task'[w][u].refresh = k.refresh /\ task'[w][u].linked = k.linked
          /\ task'[w][u].access = k.access /\ task'[w][u].given = k.given
          /\ ap'[u] = IF k.linked THEN k.access ELSE ap[u]
       \/ k.pc = "push" /\ k.linked /\ Hops(w, u, "flag") /\ ap'[u] \in {ap[u], k.access}
       \/ k.pc = "appush" /\ Hops(w, u, "apclear") /\ ap'[u] = k.access
       \/ k.pc = "appush" /\ Hops(w, u, "unlock") /\ ap'[u] \in {ap[u], k.access}

\* A step of the task of replica w.
WorkerStep(w, u) ==
    /\ \A v \in Replicas \ {w} : Waits(v, u)
    /\ \/ Passes(w, u) \/ Breaks(w, u) \/ Begins(w, u) \/ Ends(w, u) \/ Loads(w, u)
       \/ Writes(w, u) \/ Rotates(w, u) \/ Pushes(w, u)

\* A step of time, of the other writers, of the user, or of other rows.
WorldStep(u) ==
    /\ \A v \in Replicas : Waits(v, u)
    /\ SameAp(u)
    /\ \/ /\ SameRow(u) /\ SameGrant(u)
          /\ \/ SameLease(u)
             \/ \E w \in Replicas : lease[u] = w /\ lease'[u] = None
                   /\ (task[w][u].pc = "idle" \/ "lease_lapse" \in Faults)
       \/ SameLease(u) /\ SameGrant(u) /\ rows[u].when = "later" /\ Timed(u, "due")
          /\ (rows[u].linked \/ "short_lived" \in Faults)
       \/ SameLease(u) /\ SameGrant(u) /\ rows[u].status = "ACTIVE" /\ Marked(u, "REVOKED")
       \/ /\ SameLease(u) /\ SameGrant(u) /\ Present(rows[u]) /\ ~rows[u].linked
          /\ rows'[u].linked /\ Contents(u)
          /\ rows'[u].status = rows[u].status /\ rows'[u].account = rows[u].account
          /\ rows'[u].when = rows[u].when /\ rows'[u].pending = rows[u].pending
       \/ /\ SameLease(u) /\ SameGrant(u) /\ Present(rows[u]) /\ ~rows[u].linked
          /\ rows'[u] = AbsentRow
       \/ /\ SameLease(u) /\ SameRow(u) /\ grant[u].state = "live"
          /\ grant'[u].state = "revoked"
          /\ grant'[u].refresh = grant[u].refresh /\ grant'[u].access = grant[u].access
       \/ /\ SameLease(u) /\ grant[u].state = "none" /\ grant'[u].state = "live"
          /\ grant'[u].refresh = grant[u].refresh /\ grant'[u].access = grant[u].access
          /\ rows'[u].status = "ACTIVE" /\ rows'[u].refresh \in {0, NoToken}
          /\ ~rows'[u].linked /\ rows'[u].access = 0
          /\ rows'[u].when = "later" /\ ~rows'[u].pending

RowStep(u) == WorldStep(u) \/ \E w \in Replicas : WorkerStep(w, u)

\* A step that does not revoke the row on behalf of another row, or of the user.
OwnStep(u) ==
    \/ WorldStep(u) /\ (rows'[u].status = "REVOKED" => rows[u].status = "REVOKED")
    \/ \E w \in Replicas : WorkerStep(w, u)

-----------------------------------------------------------------------------
(* What holds of one row; each layer builds on those before it.            *)

\* A row that is gone is blank, and before its grant exists nobody works on it.
Life(u) ==
    /\ ~Present(rows[u]) => rows[u] = AbsentRow
    /\ grant[u].state = "none" =>
          ~Present(rows[u]) /\ grant[u].refresh = 0 /\ \A w \in Replicas : At(w, u, "idle")
    /\ ~rows[u].linked => ap[u] = 0
    /\ \A w \in Replicas : task[w][u].linked \/ At(w, u, "appush") => rows[u].linked

\* AP is never ahead of the vault nor the vault ahead of the provider, and
\* what a task is about to write or push is what the other has.
Ordered(u) ==
    /\ ap[u] <= rows[u].access /\ rows[u].access <= grant[u].access
    /\ \A w \in Replicas :
          /\ At(w, u, "store") => task[w][u].access = grant[u].access
          /\ At(w, u, "push") /\ Present(rows[u]) => task[w][u].access = rows[u].access
          /\ At(w, u, "appush") => task[w][u].access = rows[u].access

\* Only linked rows fall due or pending, so no task meets a row of a saga that
\* is not finalized (unless tokens live too briefly for it).
Finalized(u) ==
    /\ rows[u].when = "due" \/ rows[u].pending => rows[u].linked
    /\ ~rows[u].linked => rows[u].access = 0
    /\ \A w \in Replicas : ~At(w, u, "idle") => rows[u].linked

Rotating == {"lock", "call", "corrupt", "revoke", "store", "push", "flag"}

\* A task that rotates has read a refresh token, and the row keeps having one.
Rotatable(u) ==
    /\ rows[u].refresh = NoToken => rows[u].access = 0
    /\ \A w \in Replicas :
          /\ task[w][u].pc \in Rotating =>
                task[w][u].refresh # NoToken /\ task[w][u].linked /\ rows[u].refresh # NoToken
          /\ At(w, u, "defer") => rows[u].refresh = NoToken

\* AP has the access token of the row, or the row or a task says it has not.
Delivered(u) ==
    /\ \A w \in Replicas :
          /\ task[w][u].synced => task[w][u].pc \in {"flag", "unlock", "release"}
          /\ At(w, u, "flag") /\ task[w][u].synced => ap[u] = rows[u].access
          /\ At(w, u, "apclear") => ap[u] = rows[u].access
    /\ rows[u].status = "ACTIVE" =>
          \/ ap[u] = rows[u].access \/ rows[u].pending \/ rows[u].when = "due"
          \/ \E w \in Replicas : At(w, u, "push") \/ At(w, u, "flag")

\* The vault has the refresh token the provider honours, or a task brings it.
Held(u) ==
    /\ \A w \in Replicas : At(w, u, "store") =>
          grant[u].refresh = IF task[w][u].given = NoToken THEN task[w][u].refresh
                             ELSE task[w][u].given
    /\ rows[u].refresh # NoToken =>
          \/ rows[u].refresh = grant[u].refresh
          \/ \E w \in Replicas : At(w, u, "store")

\* Who works on a row has its lease, so there is one such task.
Leased(u) == \A w \in Replicas : ~At(w, u, "idle") => lease[u] = w

\* The token a task presents is the one the provider honours, so that it is
\* refused only when the user revoked the grant.
Honest(u) ==
    \A w \in Replicas :
        /\ task[w][u].pc \in {"lock", "call"} => task[w][u].refresh = grant[u].refresh
        /\ At(w, u, "revoke") => grant[u].state = "revoked"

-----------------------------------------------------------------------------
(* Every step of the system is such a step of each row.                    *)

\* Nothing about a row changes.
Untouched(u) ==
    /\ SameRow(u) /\ SameGrant(u) /\ SameAp(u) /\ SameLease(u)
    /\ \A v \in Replicas : Waits(v, u)

LEMMA UntouchedSteps == ASSUME NEW u \in Tokens, Untouched(u) PROVE OwnStep(u)
BY DEF Untouched, WorldStep, OwnStep, SameRow

LEMMA SetTaskWaits ==
    ASSUME task \in [Replicas -> [Tokens -> Task]], NEW w \in Replicas, NEW t \in Tokens,
           NEW k, task' = [task EXCEPT ![w][t] = k]
    PROVE  /\ task'[w][t] = k
           /\ \A v \in Replicas, u \in Tokens : v # w \/ u # t => Waits(v, u)
BY SetTask DEF Waits, Hops, Luggage

LEMMA HopTask ==
    ASSUME task \in [Replicas -> [Tokens -> Task]], NEW w \in Replicas, NEW t \in Tokens,
           NEW label, Go(w, t, label)
    PROVE  /\ Hops(w, t, label)
           /\ \A v \in Replicas, u \in Tokens : v # w \/ u # t => Waits(v, u)
<1> DEFINE k == [task[w][t] EXCEPT !.pc = label]
<1>1. task[w][t] \in Task
  OBVIOUS
<1>2. /\ k.pc = label /\ k.refresh = task[w][t].refresh /\ k.linked = task[w][t].linked
      /\ k.access = task[w][t].access /\ k.given = task[w][t].given
      /\ k.synced = task[w][t].synced
  BY <1>1 DEF Task
<1>3. task' = [task EXCEPT ![w][t] = k]
  BY DEF Go
<1> HIDE DEF k
<1> QED BY <1>2, <1>3, SetTaskWaits DEF Hops, Luggage

LEMMA UpdateEffect ==
    ASSUME rows \in [Tokens -> Row], NEW t \in Tokens, NEW row, Update(t, row)
    PROVE  /\ rows'[t] = IF Present(rows[t]) THEN row ELSE rows[t]
           /\ \A u \in Tokens \ {t} : SameRow(u)
BY DEF Update, SameRow

\* The writes of the tasks, column by column.
LEMMA RowWrites ==
    ASSUME NEW r \in Row, NEW k \in Task
    PROVE  /\ \A when : LET n == [r EXCEPT !.when = when] IN
                 /\ n.status = r.status /\ n.account = r.account /\ n.linked = r.linked
                 /\ n.refresh = r.refresh /\ n.access = r.access
                 /\ n.when = when /\ n.pending = r.pending
           /\ \A pending : LET n == [r EXCEPT !.pending = pending] IN
                 /\ n.status = r.status /\ n.account = r.account /\ n.linked = r.linked
                 /\ n.refresh = r.refresh /\ n.access = r.access
                 /\ n.when = r.when /\ n.pending = pending
           /\ \A status : LET n == [r EXCEPT !.status = status] IN
                 /\ n.status = status /\ n.account = r.account /\ n.linked = r.linked
                 /\ n.refresh = r.refresh /\ n.access = r.access
                 /\ n.when = r.when /\ n.pending = r.pending
           /\ \A linked : LET n == [r EXCEPT !.linked = linked] IN
                 /\ n.status = r.status /\ n.account = r.account /\ n.linked = linked
                 /\ n.refresh = r.refresh /\ n.access = r.access
                 /\ n.when = r.when /\ n.pending = r.pending
           /\ LET n == [r EXCEPT !.access = k.access,
                                 !.refresh = IF k.given = NoToken THEN k.refresh ELSE k.given,
                                 !.readable = k.given # NoToken,
                                 !.when = IF k.lasts THEN "later" ELSE "never"] IN
                 /\ n.status = r.status /\ n.account = r.account /\ n.linked = r.linked
                 /\ n.access = k.access /\ n.pending = r.pending
                 /\ n.refresh = IF k.given = NoToken THEN k.refresh ELSE k.given
                 /\ n.when \in {"later", "never"}
BY DEF Row

\* At its own row a step of a task has its effect, at the others it has none.
Local(w, t) ==
    /\ \A v \in Replicas \ {w} : Waits(v, t)
    /\ \A u \in Tokens \ {t} : Untouched(u)

LEMMA LocalGo ==
    ASSUME TypeOK, NEW w \in Replicas, NEW t \in Tokens, NEW label, Go(w, t, label),
           \A u \in Tokens \ {t} : SameRow(u) /\ SameGrant(u) /\ SameAp(u) /\ SameLease(u)
    PROVE  Local(w, t) /\ Hops(w, t, label)
BY HopTask, TypeOKUnfolded DEF Local, Untouched

LEMMA LocalSet ==
    ASSUME TypeOK, NEW w \in Replicas, NEW t \in Tokens, NEW k,
           task' = [task EXCEPT ![w][t] = k],
           \A u \in Tokens \ {t} : SameRow(u) /\ SameGrant(u) /\ SameAp(u) /\ SameLease(u)
    PROVE  Local(w, t) /\ task'[w][t] = k
<1>1. task \in [Replicas -> [Tokens -> Task]]
  BY TypeOKUnfolded
<1>2. /\ task'[w][t] = k
      /\ \A v \in Replicas, u \in Tokens : v # w \/ u # t => Waits(v, u)
  BY <1>1, SetTaskWaits
<1> QED BY <1>2 DEF Local, Untouched

LEMMA LocalSteps ==
    ASSUME NEW w \in Replicas, NEW t \in Tokens, Local(w, t),
           \/ Passes(w, t) \/ Breaks(w, t) \/ Begins(w, t) \/ Ends(w, t) \/ Loads(w, t)
           \/ Writes(w, t) \/ Rotates(w, t) \/ Pushes(w, t)
    PROVE  \A u \in Tokens : OwnStep(u)
<1>1. \A u \in Tokens \ {t} : OwnStep(u)
  BY UntouchedSteps DEF Local, OwnStep
<1>2. WorkerStep(w, t)
  BY DEF WorkerStep, Local
<1> QED BY <1>1, <1>2 DEF OwnStep

LEMMA SameStores ==
    ASSUME UNCHANGED <<rows, lease, grant, ap>>
    PROVE  \A u \in Tokens : SameRow(u) /\ SameGrant(u) /\ SameAp(u) /\ SameLease(u)
BY DEF SameRow, SameGrant, SameAp, SameLease

\* A step that only moves its task.
LEMMA PassSteps ==
    ASSUME TypeOK, NEW w \in Replicas, NEW t \in Tokens, NEW label, Go(w, t, label),
           UNCHANGED <<rows, lease, grant, ap>>,
           LET from == task[w][t].pc IN
              \/ from \in {"load", "defer", "lock", "aplock"} /\ label = "release"
              \/ from = "load" /\ rows[t].refresh = NoToken /\ label = "defer"
              \/ from = "lock" /\ label \in {"call", "corrupt"}
              \/ from = "aplock" /\ label = "apload"
              \/ from = "call" /\ label = "corrupt"
              \/ from = "call" /\ ~Honours(t, task[w][t].refresh) /\ label = "revoke"
              \/ from \in {"call", "corrupt", "revoke", "apload", "appush"} /\ label = "unlock"
              \/ from = "apload" /\ ~rows[t].linked /\ label = "apclear"
              \/ from = "unlock" /\ label = "release"
              \/ /\ "db" \in Faults /\ label = "unlock"
                 /\ from \in {"corrupt", "revoke", "store", "flag", "apload", "apclear"}
    PROVE  \A u \in Tokens : OwnStep(u)
<1>1. Local(w, t) /\ Hops(w, t, label)
  BY LocalGo, SameStores
<1>2. SameRow(t) /\ SameGrant(t) /\ SameAp(t) /\ SameLease(t)
  BY SameStores
<1>3. Passes(w, t) \/ Breaks(w, t)
  BY <1>1, <1>2 DEF Passes, Breaks
<1> QED BY <1>1, <1>3, LocalSteps

LEMMA LoadRowSteps ==
    ASSUME TypeOK, NEW w \in Replicas, NEW t \in Tokens, LoadRow(w, t)
    PROVE  \A u \in Tokens : OwnStep(u)
<1>1. task[w][t].pc = "load" /\ UNCHANGED <<rows, lease, grant, ap>>
  BY DEF LoadRow, At
<1>2. CASE Go(w, t, "release")
  BY <1>1, <1>2, PassSteps
<1>3. CASE Go(w, t, "defer") /\ rows[t].refresh = NoToken
  BY <1>1, <1>3, PassSteps
<1>4. CASE /\ rows[t].status = "ACTIVE" /\ rows[t].refresh # NoToken
           /\ task' = [task EXCEPT ![w][t] =
                [@ EXCEPT !.pc = "lock", !.refresh = rows[t].refresh,
                          !.readable = rows[t].readable, !.linked = rows[t].linked]]
  <2> DEFINE n == [task[w][t] EXCEPT !.pc = "lock", !.refresh = rows[t].refresh,
                       !.readable = rows[t].readable, !.linked = rows[t].linked]
  <2>0. task[w][t] \in Task
    BY TypeOKUnfolded
  <2>1. /\ n.pc = "lock" /\ n.refresh = rows[t].refresh /\ n.linked = rows[t].linked
        /\ n.given = task[w][t].given /\ n.access = task[w][t].access
        /\ n.synced = task[w][t].synced
    BY <2>0 DEF Task
  <2>2. task' = [task EXCEPT ![w][t] = n]
    BY <1>4
  <2> HIDE DEF n
  <2>3. Local(w, t) /\ task'[w][t] = n
    BY <1>1, <2>2, LocalSet, SameStores
  <2>4. Loads(w, t)
    BY <1>1, <1>4, <2>1, <2>3, SameStores DEF Loads
  <2> QED BY <2>3, <2>4, LocalSteps
<1> QED BY <1>2, <1>3, <1>4 DEF LoadRow

\* The steps that write the row by id.
LEMMA WriteSteps ==
    ASSUME TypeOK, NEW w \in Replicas, NEW t \in Tokens,
           NEW label, Go(w, t, label), UNCHANGED <<lease, grant, ap>>,
           \A u \in Tokens \ {t} : SameRow(u),
           LET k == task[w][t] IN
              \/ k.pc = "defer" /\ label = "release" /\ Written(t, Timed(t, "never"))
              \/ k.pc = "corrupt" /\ label = "unlock" /\ Written(t, Marked(t, "CORRUPTED"))
              \/ k.pc = "revoke" /\ label = "unlock" /\ Written(t, Marked(t, "REVOKED"))
              \/ k.pc = "store" /\ label = "push" /\ Written(t, Rotated(t, k))
              \/ k.pc = "flag" /\ label = "unlock" /\ Written(t, Flagged(t, ~k.synced))
              \/ k.pc = "apclear" /\ label = "unlock" /\ Written(t, Flagged(t, FALSE))
    PROVE  \A u \in Tokens : OwnStep(u)
<1>1. \A u \in Tokens : SameGrant(u) /\ SameAp(u) /\ SameLease(u)
  BY DEF SameGrant, SameAp, SameLease
<1>2. Local(w, t) /\ Hops(w, t, label)
  BY <1>1, LocalGo
<1>3. Writes(w, t)
  BY <1>1, <1>2 DEF Writes
<1> QED BY <1>2, <1>3, LocalSteps

LEMMA RowWriterSteps ==
    ASSUME TypeOK, NEW w \in Replicas, NEW t \in Tokens,
           Defer(w, t) \/ StoreRotation(w, t) \/ WriteFlag(w, t) \/ ClearFlag(w, t)
    PROVE  \A u \in Tokens : OwnStep(u)
<1> DEFINE r == rows[t]
           k == task[w][t]
<1>0. rows \in [Tokens -> Row] /\ r \in Row /\ k \in Task
  BY TypeOKUnfolded
<1>1. CASE Defer(w, t)
  <2> DEFINE n == [r EXCEPT !.when = "never"]
  <2>1. Update(t, n) /\ Go(w, t, "release") /\ k.pc = "defer" /\ UNCHANGED <<lease, grant, ap>>
    BY <1>1 DEF Defer, At
  <2>2. /\ n.status = r.status /\ n.account = r.account /\ n.linked = r.linked
        /\ n.refresh = r.refresh /\ n.access = r.access
        /\ n.when = "never" /\ n.pending = r.pending
    BY <1>0, RowWrites
  <2> HIDE DEF n
  <2>3. (\A u \in Tokens \ {t} : SameRow(u)) /\ rows'[t] = IF Present(r) THEN n ELSE r
    BY <1>0, <2>1, UpdateEffect
  <2>4. Written(t, Timed(t, "never"))
    BY <2>2, <2>3 DEF Written, Timed, Identity, Contents, SameRow
  <2> QED BY <2>1, <2>3, <2>4, WriteSteps
<1>2. CASE StoreRotation(w, t)
  <2> DEFINE n == [r EXCEPT !.access = k.access,
                            !.refresh = IF k.given = NoToken THEN k.refresh ELSE k.given,
                            !.readable = k.given # NoToken,
                            !.when = IF k.lasts THEN "later" ELSE "never"]
  <2>1. Update(t, n) /\ Go(w, t, "push") /\ k.pc = "store" /\ UNCHANGED <<lease, grant, ap>>
    BY <1>2 DEF StoreRotation, At
  <2>2. /\ n.status = r.status /\ n.account = r.account /\ n.linked = r.linked
        /\ n.access = k.access /\ n.pending = r.pending
        /\ n.refresh = IF k.given = NoToken THEN k.refresh ELSE k.given
        /\ n.when \in {"later", "never"}
    BY <1>0, RowWrites
  <2> HIDE DEF n
  <2>3. (\A u \in Tokens \ {t} : SameRow(u)) /\ rows'[t] = IF Present(r) THEN n ELSE r
    BY <1>0, <2>1, UpdateEffect
  <2>4. Written(t, Rotated(t, k))
    BY <2>2, <2>3 DEF Written, Rotated, Identity, SameRow
  <2> QED BY <2>1, <2>3, <2>4, WriteSteps
<1>3. ASSUME NEW b, NEW from \in {"flag", "apclear"},
             Update(t, [r EXCEPT !.pending = b]), Go(w, t, "unlock"), k.pc = from,
             UNCHANGED <<lease, grant, ap>>, b = IF from = "flag" THEN ~k.synced ELSE FALSE
      PROVE  \A u \in Tokens : OwnStep(u)
  <2> DEFINE n == [r EXCEPT !.pending = b]
  <2>1. Update(t, n) /\ Go(w, t, "unlock") /\ UNCHANGED <<lease, grant, ap>>
    BY <1>3
  <2>2. /\ n.status = r.status /\ n.account = r.account /\ n.linked = r.linked
        /\ n.refresh = r.refresh /\ n.access = r.access
        /\ n.when = r.when /\ n.pending = b
    BY <1>0, RowWrites
  <2> HIDE DEF n
  <2>3. (\A u \in Tokens \ {t} : SameRow(u)) /\ rows'[t] = IF Present(r) THEN n ELSE r
    BY <1>0, <2>1, UpdateEffect
  <2>4. Written(t, Flagged(t, b))
    BY <2>2, <2>3 DEF Written, Flagged, Identity, Contents, SameRow
  <2> QED BY <1>3, <2>1, <2>3, <2>4, WriteSteps
<1>4. CASE WriteFlag(w, t)
  <2>1. /\ Update(t, [r EXCEPT !.pending = ~k.synced]) /\ Go(w, t, "unlock") /\ k.pc = "flag"
        /\ UNCHANGED <<lease, grant, ap>>
    BY <1>4 DEF WriteFlag, At
  <2> QED BY <1>3, <2>1
<1>5. CASE ClearFlag(w, t)
  <2>1. /\ Update(t, [r EXCEPT !.pending = FALSE]) /\ Go(w, t, "unlock") /\ k.pc = "apclear"
        /\ UNCHANGED <<lease, grant, ap>>
    BY <1>5 DEF ClearFlag, At
  <2> QED BY <1>3, <2>1
<1> QED BY <1>1, <1>2, <1>4, <1>5

LEMMA MarkSteps ==
    ASSUME TypeOK, NEW w \in Replicas, NEW t \in Tokens, MarkStatus(w, t)
    PROVE  \A u \in Tokens : OwnStep(u)
<1> DEFINE r == rows[t]
           status == IF At(w, t, "corrupt") THEN "CORRUPTED" ELSE "REVOKED"
           n == [r EXCEPT !.status = status]
<1>0. rows \in [Tokens -> Row] /\ r \in Row /\ task[w][t] \in Task
  BY TypeOKUnfolded
<1>1. /\ task[w][t].pc \in {"corrupt", "revoke"} /\ Go(w, t, "unlock")
      /\ UNCHANGED <<lease, grant, ap>>
      /\ rows' = rows \/ (Present(r) /\ rows' = [rows EXCEPT ![t] = n])
  BY DEF MarkStatus
<1>2. CASE rows' = rows
  BY <1>1, <1>2, PassSteps
<1>3. CASE Present(r) /\ rows' = [rows EXCEPT ![t] = n]
  <2>1. /\ n.status = status /\ n.account = r.account /\ n.linked = r.linked
        /\ n.refresh = r.refresh /\ n.access = r.access
        /\ n.when = r.when /\ n.pending = r.pending
    BY <1>0, RowWrites
  <2>2. status = IF task[w][t].pc = "corrupt" THEN "CORRUPTED" ELSE "REVOKED"
    BY DEF At
  <2> HIDE DEF n, status
  <2>3. rows'[t] = n /\ \A u \in Tokens \ {t} : SameRow(u)
    BY <1>0, <1>3 DEF SameRow
  <2>4. Marked(t, status)
    BY <2>1, <2>3 DEF Marked, Contents
  <2>5. Written(t, Marked(t, status))
    BY <1>3, <2>4 DEF Written
  <2> QED BY <1>1, <2>2, <2>3, <2>5, WriteSteps
<1> QED BY <1>1, <1>2, <1>3

\* The calls to the provider.
LEMMA IssuesEffect ==
    ASSUME TypeOK, NEW t \in Tokens, NEW x, Issues(t, x)
    PROVE  /\ grant'[t].state = grant[t].state /\ grant'[t].refresh = x
           /\ grant'[t].access = grant[t].access + 1
           /\ \A u \in Tokens \ {t} : SameGrant(u)
<1>1. grant \in [Tokens -> Grant] /\ grant[t] \in Grant
  BY TypeOKUnfolded
<1> DEFINE n == [grant[t] EXCEPT !.access = @ + 1, !.refresh = x]
<1>2. n.state = grant[t].state /\ n.refresh = x /\ n.access = grant[t].access + 1
  BY <1>1 DEF Grant
<1>3. grant' = [grant EXCEPT ![t] = n]
  BY <1>1 DEF Issues
<1> HIDE DEF n
<1> QED BY <1>1, <1>2, <1>3 DEF SameGrant

LEMMA CallSteps ==
    ASSUME TypeOK, NEW w \in Replicas, NEW t \in Tokens,
           CallProvider(w, t) \/ CallFails(w, t)
    PROVE  \A u \in Tokens : OwnStep(u)
<1> DEFINE k == task[w][t]
           old == grant[t].refresh
<1>0. k \in Task /\ grant[t] \in Grant
  BY TypeOKUnfolded
<1>1. CASE CallProvider(w, t)
  <2>1. k.pc = "call" /\ UNCHANGED <<rows, lease, ap>>
    BY <1>1 DEF CallProvider, At
  <2>2. CASE ~Honours(t, k.refresh) /\ Go(w, t, "revoke") /\ UNCHANGED grant
    BY <2>1, <2>2, PassSteps
  <2>3. CASE Honours(t, k.refresh)
    <3>1. PICK new \in {old + 1, old}, lasts \in BOOLEAN :
            /\ Issues(t, new)
            /\ task' = [task EXCEPT ![w][t] =
                  [@ EXCEPT !.pc = "store", !.access = grant[t].access + 1,
                            !.given = IF new = old THEN NoToken ELSE new,
                            !.lasts = lasts]]
      BY <1>1, <2>3 DEF CallProvider
    <3> DEFINE given == IF new = old THEN NoToken ELSE new
               n == [k EXCEPT !.pc = "store", !.access = grant[t].access + 1,
                              !.given = given, !.lasts = lasts]
    <3>2. task' = [task EXCEPT ![w][t] = n]
      BY <3>1
    <3> HIDE DEF given
    <3>3. /\ n.pc = "store" /\ n.access = grant[t].access + 1 /\ n.given = given
          /\ n.refresh = k.refresh /\ n.linked = k.linked /\ n.synced = k.synced
      BY <1>0 DEF Task
    <3> HIDE DEF n
    <3>4. /\ grant'[t].state = grant[t].state /\ grant'[t].refresh = new
          /\ grant'[t].access = grant[t].access + 1
          /\ \A u \in Tokens \ {t} : SameGrant(u)
      BY <3>1, IssuesEffect
    <3>5. \A u \in Tokens : SameRow(u) /\ SameAp(u) /\ SameLease(u)
      BY <2>1 DEF SameRow, SameAp, SameLease
    <3>6. Local(w, t) /\ task'[w][t] = n
      BY <3>2, <3>4, <3>5, LocalSet
    <3>7. Rotates(w, t)
      BY <2>1, <2>3, <3>3, <3>4, <3>5, <3>6 DEF Rotates, given
    <3> QED BY <3>6, <3>7, LocalSteps
  <2> QED BY <1>1, <2>2, <2>3 DEF CallProvider
<1>2. CASE CallFails(w, t)
  <2>1. k.pc = "call" /\ UNCHANGED <<rows, lease, ap>> /\ Go(w, t, "unlock")
    BY <1>2 DEF CallFails, At
  <2>2. CASE UNCHANGED grant
    BY <2>1, <2>2, PassSteps
  <2>3. CASE "lost_reply" \in Faults /\ Honours(t, k.refresh) /\ Issues(t, old + 1)
    <3>1. /\ grant'[t].state = grant[t].state
          /\ grant'[t].access = grant[t].access + 1
          /\ \A u \in Tokens \ {t} : SameGrant(u)
      BY <2>3, IssuesEffect
    <3>2. \A u \in Tokens : SameRow(u) /\ SameAp(u) /\ SameLease(u)
      BY <2>1 DEF SameRow, SameAp, SameLease
    <3>3. Local(w, t) /\ Hops(w, t, "unlock")
      BY <2>1, <3>1, <3>2, LocalGo
    <3>4. Rotates(w, t)
      BY <2>1, <2>3, <3>1, <3>2, <3>3 DEF Rotates
    <3> QED BY <3>3, <3>4, LocalSteps
  <2> QED BY <1>2, <2>2, <2>3 DEF CallFails, Fault
<1> QED BY <1>1, <1>2

\* The calls to AP.
LEMMA PushSteps ==
    ASSUME TypeOK, NEW w \in Replicas, NEW t \in Tokens,
           PushToAP(w, t) \/ PushFails(w, t) \/ RetryPush(w, t) \/ RetryPushFails(w, t)
    PROVE  \A u \in Tokens : OwnStep(u)
<1> DEFINE k == task[w][t]
<1>0. k \in Task /\ ap \in [Tokens -> Nat]
  BY TypeOKUnfolded
<1>1. \A u \in Tokens : SameRow(u) /\ SameGrant(u) /\ SameLease(u)
  BY DEF PushToAP, PushFails, RetryPush, RetryPushFails, SameRow, SameGrant, SameLease
<1>2. CASE PushToAP(w, t)
  <2> DEFINE n == [k EXCEPT !.pc = "flag", !.synced = TRUE]
  <2>1. task' = [task EXCEPT ![w][t] = n] /\ k.pc = "push"
        /\ ap' = IF k.linked THEN [ap EXCEPT ![t] = k.access] ELSE ap
    BY <1>2 DEF PushToAP, At
  <2>2. /\ n.pc = "flag" /\ n.synced /\ n.refresh = k.refresh /\ n.linked = k.linked
        /\ n.access = k.access /\ n.given = k.given
    BY <1>0 DEF Task
  <2> HIDE DEF n
  <2>3. /\ ap'[t] = IF k.linked THEN k.access ELSE ap[t]
        /\ \A u \in Tokens \ {t} : SameAp(u)
    BY <1>0, <2>1 DEF SameAp
  <2>4. Local(w, t) /\ task'[w][t] = n
    BY <1>1, <2>1, <2>3, LocalSet
  <2>5. Pushes(w, t)
    BY <1>1, <2>1, <2>2, <2>3, <2>4 DEF Pushes
  <2> QED BY <2>4, <2>5, LocalSteps
<1>3. ASSUME NEW label, Go(w, t, label), ap' = ap \/ ap' = [ap EXCEPT ![t] = k.access],
             \/ k.pc = "push" /\ k.linked /\ label = "flag"
             \/ k.pc = "appush" /\ label = "apclear" /\ ap' = [ap EXCEPT ![t] = k.access]
             \/ k.pc = "appush" /\ label = "unlock"
      PROVE  \A u \in Tokens : OwnStep(u)
  <2>1. /\ ap'[t] \in {ap[t], k.access}
        /\ ap' = [ap EXCEPT ![t] = k.access] => ap'[t] = k.access
        /\ \A u \in Tokens \ {t} : SameAp(u)
    BY <1>0, <1>3 DEF SameAp
  <2>2. Local(w, t) /\ Hops(w, t, label)
    BY <1>1, <1>3, <2>1, LocalGo
  <2>3. Pushes(w, t)
    BY <1>1, <1>3, <2>1, <2>2 DEF Pushes
  <2> QED BY <2>2, <2>3, LocalSteps
<1>4. CASE PushFails(w, t)
  BY <1>3, <1>4 DEF PushFails, ApFault, At
<1>5. CASE RetryPush(w, t)
  BY <1>3, <1>5 DEF RetryPush, At
<1>6. CASE RetryPushFails(w, t)
  BY <1>3, <1>6 DEF RetryPushFails, ApFault, At
<1> QED BY <1>2, <1>4, <1>5, <1>6

LEMMA LoadPendingSteps ==
    ASSUME TypeOK, NEW w \in Replicas, NEW t \in Tokens, LoadPending(w, t)
    PROVE  \A u \in Tokens : OwnStep(u)
<1>1. task[w][t].pc = "apload" /\ UNCHANGED <<rows, lease, grant, ap>>
  BY DEF LoadPending, At
<1>2. CASE Go(w, t, "unlock")
  BY <1>1, <1>2, PassSteps
<1>3. CASE Go(w, t, "apclear") /\ ~rows[t].linked
  BY <1>1, <1>3, PassSteps
<1>4. CASE /\ rows[t].status = "ACTIVE" /\ rows[t].pending /\ rows[t].linked
           /\ task' = [task EXCEPT ![w][t] = [@ EXCEPT !.pc = "appush", !.access = rows[t].access]]
  <2> DEFINE n == [task[w][t] EXCEPT !.pc = "appush", !.access = rows[t].access]
  <2>0. task[w][t] \in Task
    BY TypeOKUnfolded
  <2>1. /\ n.pc = "appush" /\ n.access = rows[t].access
        /\ n.refresh = task[w][t].refresh /\ n.linked = task[w][t].linked
        /\ n.given = task[w][t].given /\ n.synced = task[w][t].synced
    BY <2>0 DEF Task
  <2>2. task' = [task EXCEPT ![w][t] = n]
    BY <1>4
  <2> HIDE DEF n
  <2>3. Local(w, t) /\ task'[w][t] = n
    BY <1>1, <2>2, LocalSet, SameStores
  <2>4. Loads(w, t)
    BY <1>1, <1>4, <2>1, <2>3, SameStores DEF Loads
  <2> QED BY <2>3, <2>4, LocalSteps
<1> QED BY <1>2, <1>3, <1>4 DEF LoadPending

LEMMA ReleaseSteps ==
    ASSUME TypeOK, NEW w \in Replicas, NEW t \in Tokens, ReleaseLease(w, t)
    PROVE  \A u \in Tokens : OwnStep(u)
<1>0. lease \in [Tokens -> Replicas \cup {None}]
  BY TypeOKUnfolded
<1>1. task[w][t].pc = "release" /\ UNCHANGED <<rows, grant, ap>>
      /\ task' = [task EXCEPT ![w][t] = IdleTask]
  BY DEF ReleaseLease, At
<1>2. /\ lease'[t] = None \/ ("db" \in Faults /\ lease'[t] = lease[t])
      /\ \A u \in Tokens \ {t} : SameLease(u)
  BY <1>0 DEF ReleaseLease, Fault, SameLease
<1>3. \A u \in Tokens : SameRow(u) /\ SameGrant(u) /\ SameAp(u)
  BY <1>1 DEF SameRow, SameGrant, SameAp
<1>4. Local(w, t) /\ task'[w][t] = IdleTask
  BY <1>1, <1>2, <1>3, LocalSet
<1>5. Ends(w, t)
  BY <1>1, <1>2, <1>3, <1>4 DEF Ends, Blank, IdleTask, SameLease
<1> QED BY <1>4, <1>5, LocalSteps

LEMMA TaskRowSteps ==
    ASSUME TypeOK, NEW w \in Replicas, NEW t \in Tokens, TaskStep(w, t)
    PROVE  \A u \in Tokens : OwnStep(u)
<1>1. CASE AcquireLock(w, t)
  BY <1>1, PassSteps DEF AcquireLock, AfterLock, At
<1>2. CASE RedisFails(w, t)
  BY <1>2, PassSteps DEF RedisFails
<1>3. CASE DecryptFails(w, t)
  BY <1>3, PassSteps DEF DecryptFails, At
<1>4. CASE DbFails(w, t)
  BY <1>4, PassSteps DEF DbFails, Fault
<1>5. CASE Unlock(w, t)
  BY <1>5, PassSteps DEF Unlock, At
<1> QED
  BY <1>1, <1>2, <1>3, <1>4, <1>5, LoadRowSteps, RowWriterSteps, MarkSteps, CallSteps,
     PushSteps, LoadPendingSteps, ReleaseSteps DEF TaskStep

\* The loop: a claim, a crash and a shutdown concern all tasks of a replica.
LEMMA OthersWait ==
    ASSUME TypeOK, NEW w \in Replicas, NEW f, task' = [task EXCEPT ![w] = f]
    PROVE  /\ task'[w] = f
           /\ \A u \in Tokens, v \in Replicas \ {w} : Waits(v, u)
BY TypeOKUnfolded DEF Waits, Hops, Luggage

LEMMA LoopRowSteps ==
    ASSUME TypeOK, NEW w \in Replicas, Claim(w) \/ Crash(w) \/ Shutdown(w)
    PROVE  \A u \in Tokens : OwnStep(u)
<1>0. /\ lease \in [Tokens -> Replicas \cup {None}]
      /\ \A u \in Tokens : task[w][u] \in Task
  BY TypeOKUnfolded
<1>1. CASE Claim(w)
  <2>1. PICK batch \in SUBSET {t \in Tokens : Eligible(t)} :
          /\ lease' = [t \in Tokens |-> IF t \in batch THEN w ELSE lease[t]]
          /\ task' = [task EXCEPT ![w] = [t \in Tokens |->
                IF t \notin batch THEN IdleTask
                ELSE [IdleTask EXCEPT !.pc =
                        IF rows[t].when = "due" THEN "load" ELSE "aplock"]]]
    BY <1>1 DEF Claim
  <2>2. \A u \in Tokens : SameRow(u) /\ SameGrant(u) /\ SameAp(u) /\ task[w][u].pc = "idle"
    BY <1>1 DEF Claim, SameRow, SameGrant, SameAp, At
  <2> DEFINE f == [t \in Tokens |->
                IF t \notin batch THEN IdleTask
                ELSE [IdleTask EXCEPT !.pc =
                        IF rows[t].when = "due" THEN "load" ELSE "aplock"]]
  <2>a. task' = [task EXCEPT ![w] = f]
    BY <2>1
  <2>b. /\ \A u \in Tokens \ batch : f[u] = IdleTask
        /\ \A u \in batch : f[u] = [IdleTask EXCEPT !.pc =
                                      IF rows[u].when = "due" THEN "load" ELSE "aplock"]
    OBVIOUS
  <2> HIDE DEF f
  <2>3. /\ task'[w] = f
        /\ \A u \in Tokens : \A v \in Replicas \ {w} : Waits(v, u)
    BY <2>a, OthersWait
  <2>c. \A u \in Tokens : lease'[u] = IF u \in batch THEN w ELSE lease[u]
    BY <2>1
  <2>4. ASSUME NEW u \in batch PROVE Begins(w, u)
    <3>1. Eligible(u) /\ u \in Tokens
      OBVIOUS
    <3> DEFINE label == IF rows[u].when = "due" THEN "load" ELSE "aplock"
               n == [IdleTask EXCEPT !.pc = label]
    <3>a. /\ n.pc = label /\ n.refresh = NoToken /\ n.given = NoToken
          /\ ~n.linked /\ ~n.synced /\ n.access = 0
      BY DEF IdleTask
    <3>b. task'[w][u] = n
      BY <2>3, <2>b
    <3> HIDE DEF n
    <3>2. task'[w][u].pc = label /\ Blank(w, u)
      BY <3>a, <3>b DEF Blank
    <3> QED BY <2>2, <2>c, <3>1, <3>2 DEF Begins, Eligible
  <2>5. ASSUME NEW u \in Tokens \ batch PROVE Ends(w, u)
    <3>1. task'[w][u] = IdleTask /\ lease'[u] = lease[u]
      BY <2>3, <2>b, <2>c
    <3> QED BY <2>2, <3>1 DEF Ends, Blank, IdleTask, SameLease
  <2> QED BY <2>3, <2>4, <2>5 DEF OwnStep, WorkerStep
<1>2. CASE Crash(w)
  <2>1. \A u \in Tokens : SameRow(u) /\ SameGrant(u) /\ SameAp(u) /\ SameLease(u)
    BY <1>2 DEF Crash, SameRow, SameGrant, SameAp, SameLease
  <2> DEFINE f == [t \in Tokens |-> IdleTask]
  <2>a. task' = [task EXCEPT ![w] = f]
    BY <1>2 DEF Crash
  <2>b. \A u \in Tokens : f[u] = IdleTask
    OBVIOUS
  <2> HIDE DEF f
  <2>2. \A u \in Tokens : task'[w][u] = IdleTask /\ \A v \in Replicas \ {w} : Waits(v, u)
    BY <2>a, <2>b, OthersWait
  <2>3. "crash" \in Faults
    BY <1>2 DEF Crash, Fault
  <2>4. \A u \in Tokens : Breaks(w, u)
    BY <2>1, <2>2, <2>3 DEF Breaks, Blank, IdleTask
  <2> QED BY <2>2, <2>4 DEF OwnStep, WorkerStep
<1>3. CASE Shutdown(w)
  <2>1. PICK waiting \in SUBSET Tokens :
          task' = [task EXCEPT ![w] = [t \in Tokens |->
              IF t \in waiting THEN IdleTask
              ELSE IF At(w, t, "idle") THEN task[w][t]
              ELSE [task[w][t] EXCEPT !.pc =
                        IF task[w][t].pc \in Critical THEN "unlock" ELSE "release"]]]
    BY <1>3 DEF Shutdown
  <2> DEFINE Moved(u) == [task[w][u] EXCEPT !.pc =
                             IF task[w][u].pc \in Critical THEN "unlock" ELSE "release"]
             f == [t \in Tokens |-> IF t \in waiting THEN IdleTask
                                    ELSE IF At(w, t, "idle") THEN task[w][t]
                                    ELSE Moved(t)]
  <2>a. task' = [task EXCEPT ![w] = f]
    BY <2>1
  <2> HIDE DEF Moved
  <2>b. /\ \A u \in waiting : f[u] = IdleTask
        /\ \A u \in Tokens \ waiting :
              f[u] = IF At(w, u, "idle") THEN task[w][u] ELSE Moved(u)
    OBVIOUS
  <2> HIDE DEF f
  <2>2. \A u \in Tokens : SameRow(u) /\ SameGrant(u) /\ SameAp(u) /\ SameLease(u)
    BY <1>3 DEF Shutdown, SameRow, SameGrant, SameAp, SameLease
  <2>3. "shutdown" \in Faults
    BY <1>3 DEF Shutdown, Fault
  <2>4. task'[w] = f /\ \A u \in Tokens : \A v \in Replicas \ {w} : Waits(v, u)
    BY <2>a, OthersWait
  <2>5. ASSUME NEW u \in waiting PROVE OwnStep(u)
    <3>1. task'[w][u] = IdleTask /\ u \in Tokens
      BY <2>4, <2>b
    <3>2. Breaks(w, u)
      BY <2>2, <2>3, <3>1 DEF Breaks, Blank, IdleTask
    <3> QED BY <2>4, <3>1, <3>2 DEF OwnStep, WorkerStep
  <2>6. ASSUME NEW u \in Tokens \ waiting, At(w, u, "idle") PROVE OwnStep(u)
    <3>0. task'[w][u] = task[w][u]
      BY <2>4, <2>6, <2>b
    <3>1. Waits(w, u)
      BY <3>0 DEF Waits, Hops, Luggage
    <3> QED BY <2>2, <2>4, <3>1, UntouchedSteps DEF Untouched, OwnStep
  <2>7. ASSUME NEW u \in Tokens \ waiting, ~At(w, u, "idle") PROVE OwnStep(u)
    <3> DEFINE k == task[w][u]
               label == IF k.pc \in Critical THEN "unlock" ELSE "release"
               n == [k EXCEPT !.pc = label]
    <3>1. task'[w][u] = n
      BY <2>4, <2>7, <2>b DEF Moved
    <3>2. /\ n.pc = label /\ n.refresh = k.refresh /\ n.linked = k.linked
          /\ n.access = k.access /\ n.given = k.given /\ n.synced = k.synced
      BY <1>0 DEF Task
    <3> HIDE DEF n
    <3>3. Hops(w, u, label)
      BY <3>1, <3>2 DEF Hops, Luggage
    <3>4. Breaks(w, u)
      BY <2>2, <2>3, <2>7, <3>3 DEF Breaks, At
    <3> QED BY <2>4, <3>4 DEF OwnStep, WorkerStep
  <2> QED BY <2>5, <2>6, <2>7
<1> QED BY <1>1, <1>2, <1>3

\* Time.
LEMMA TimeRowSteps ==
    ASSUME TypeOK,
           \/ \E w \in Replicas, t \in Tokens : LeaseExpires(w, t) \/ LockExpires(w, t)
           \/ \E t \in Tokens : BecomesDue(t)
    PROVE  \A u \in Tokens : OwnStep(u)
<1>0. /\ rows \in [Tokens -> Row] /\ lease \in [Tokens -> Replicas \cup {None}]
      /\ task \in [Replicas -> [Tokens -> Task]]
  BY TypeOKUnfolded
<1>1. ASSUME NEW w \in Replicas, NEW t \in Tokens, LeaseExpires(w, t), NEW u \in Tokens
      PROVE  OwnStep(u)
  <2>1. SameRow(u) /\ SameGrant(u) /\ SameAp(u)
    BY <1>1 DEF LeaseExpires, SameRow, SameGrant, SameAp
  <2>2. \A v \in Replicas : Waits(v, u)
    <3>1. CASE task' = task
      BY <3>1 DEF Waits, Hops, Luggage
    <3>2. CASE task' = [task EXCEPT ![w][t].late = TRUE]
      <4> DEFINE k == task[w][t]
                 n == [k EXCEPT !.late = TRUE]
      <4>1. k \in Task
        BY <1>0
      <4>2. /\ n.pc = k.pc /\ n.refresh = k.refresh /\ n.linked = k.linked
            /\ n.access = k.access /\ n.given = k.given /\ n.synced = k.synced
        BY <4>1 DEF Task
      <4>3. task' = [task EXCEPT ![w][t] = n]
        BY <3>2
      <4> HIDE DEF n
      <4>4. task'[w][t] = n /\ \A v \in Replicas : v # w \/ u # t => Waits(v, u)
        BY <1>0, <4>3, SetTaskWaits
      <4>5. Waits(w, t)
        BY <4>2, <4>4 DEF Waits, Hops, Luggage
      <4> QED BY <4>4, <4>5
    <3> QED BY <1>1, <3>1, <3>2 DEF LeaseExpires
  <2>3. SameLease(u) \/ (/\ u = t /\ lease[u] = w /\ lease'[u] = None)
    BY <1>0, <1>1 DEF LeaseExpires, SameLease
  <2>4. task[w][t].pc = "idle" \/ "lease_lapse" \in Faults
    BY <1>1 DEF LeaseExpires, Fault, At
  <2> QED BY <2>1, <2>2, <2>3, <2>4 DEF OwnStep, WorldStep, SameRow
<1>2. ASSUME NEW w \in Replicas, NEW t \in Tokens, LockExpires(w, t), NEW u \in Tokens
      PROVE  OwnStep(u)
  <2>1. Untouched(u)
    BY <1>2 DEF LockExpires, Untouched, SameRow, SameGrant, SameAp, SameLease, Waits, Hops, Luggage
  <2> QED BY <2>1, UntouchedSteps DEF OwnStep
<1>3. ASSUME NEW t \in Tokens, BecomesDue(t), NEW u \in Tokens PROVE OwnStep(u)
  <2> DEFINE n == [rows[t] EXCEPT !.when = "due"]
  <2>1. /\ rows' = [rows EXCEPT ![t] = n] /\ rows[t].when = "later"
        /\ rows[t].linked \/ "short_lived" \in Faults
        /\ UNCHANGED <<lease, task, grant, ap>>
    BY <1>3 DEF BecomesDue
  <2>2. rows[t] \in Row
    BY <1>0
  <2>3. /\ n.status = rows[t].status /\ n.account = rows[t].account /\ n.linked = rows[t].linked
        /\ n.refresh = rows[t].refresh /\ n.access = rows[t].access
        /\ n.when = "due" /\ n.pending = rows[t].pending
    BY <2>2 DEF Row
  <2> HIDE DEF n
  <2>4. SameGrant(u) /\ SameAp(u) /\ SameLease(u) /\ \A v \in Replicas : Waits(v, u)
    BY <2>1 DEF SameGrant, SameAp, SameLease, Waits, Hops, Luggage
  <2>5. CASE u = t
    <3>1. rows'[t] = n
      BY <1>0, <2>1
    <3>2. Timed(t, "due")
      BY <2>3, <3>1 DEF Timed, Identity, Contents
    <3> QED BY <2>1, <2>4, <2>5, <3>2 DEF OwnStep, WorldStep, Timed, Identity
  <2>6. CASE u # t
    <3>1. SameRow(u)
      BY <1>0, <2>1, <2>6 DEF SameRow
    <3> QED BY <2>4, <3>1 DEF OwnStep, WorldStep, SameRow
  <2> QED BY <2>5, <2>6
<1> QED BY <1>1, <1>2, <1>3

LEMMA AbsentFields ==
    /\ AbsentRow.status = "absent" /\ AbsentRow.account = NoAccount /\ ~AbsentRow.linked
    /\ AbsentRow.refresh = NoToken /\ AbsentRow.access = 0
    /\ AbsentRow.when = "never" /\ ~AbsentRow.pending
BY DEF AbsentRow

\* Revoking by account marks ACTIVE rows and nothing else.
LEMMA RevokeActiveMarks ==
    ASSUME rows \in [Tokens -> Row], NEW accounts, NEW u \in Tokens
    PROVE  LET r == rows[u]
               n == RevokeActive(rows, accounts)[u] IN
           /\ RevokeActive(rows, accounts) \in [Tokens -> Row]
           /\ r.status = "ACTIVE" /\ r.account \in accounts =>
                 /\ n.status = "REVOKED" /\ n.account = r.account /\ n.linked = r.linked
                 /\ n.refresh = r.refresh /\ n.access = r.access
                 /\ n.when = r.when /\ n.pending = r.pending
           /\ ~(r.status = "ACTIVE" /\ r.account \in accounts) => n = r
<1>1. rows[u] \in Row
  OBVIOUS
<1> DEFINE m == [rows[u] EXCEPT !.status = "REVOKED"]
<1>2. /\ m.status = "REVOKED" /\ m.account = rows[u].account /\ m.linked = rows[u].linked
      /\ m.refresh = rows[u].refresh /\ m.access = rows[u].access
      /\ m.when = rows[u].when /\ m.pending = rows[u].pending
  BY <1>1 DEF Row
<1>3. RevokeActive(rows, accounts)[u] =
        IF rows[u].status = "ACTIVE" /\ rows[u].account \in accounts THEN m ELSE rows[u]
  BY DEF RevokeActive
<1> HIDE DEF m
<1> QED BY <1>2, <1>3, RevokeActiveRows

\* A step that writes rows only: each row stays, or is revoked.
LEMMA RevokedOrSame ==
    ASSUME TypeOK, NEW accounts, NEW u \in Tokens,
           rows'[u] = RevokeActive(rows, accounts)[u]
    PROVE  \/ SameRow(u)
           \/ rows[u].status = "ACTIVE" /\ rows[u].account \in accounts /\ Marked(u, "REVOKED")
BY RevokeActiveMarks, TypeOKUnfolded DEF SameRow, Marked, Contents

LEMMA ConnectSteps ==
    ASSUME TypeOK, NEW t \in Tokens, Connect(t)
    PROVE  /\ \A u \in Tokens : RowStep(u)
           /\ \E a \in Accounts \cup {NoAccount} :
                 /\ rows'[t].status = "ACTIVE" /\ rows'[t].account = a
                 /\ \A u \in Tokens \ {t} :
                       SameRow(u) \/ (Marked(u, "REVOKED") /\ rows[u].account = a)
           /\ grant[t].state = "none" /\ grant'[t].state = "live" /\ UniqueKeyHolds(rows')
<1>0. /\ rows \in [Tokens -> Row] /\ grant \in [Tokens -> Grant] /\ grant[t] \in Grant
  BY TypeOKUnfolded
<1>1. PICK a \in Accounts \cup {NoAccount}, r \in {0, NoToken} :
          rows' = [RevokeActive(rows, {a} \ {NoAccount}) EXCEPT
                ![t] = [AbsentRow EXCEPT !.status = "ACTIVE", !.account = a,
                                         !.refresh = r, !.when = "later"]]
  BY DEF Connect
<1> DEFINE old == RevokeActive(rows, {a} \ {NoAccount})
           n == [AbsentRow EXCEPT !.status = "ACTIVE", !.account = a,
                                  !.refresh = r, !.when = "later"]
           g == [grant[t] EXCEPT !.state = "live"]
<1>2. /\ n.status = "ACTIVE" /\ n.account = a /\ n.refresh = r /\ ~n.linked /\ n.access = 0
      /\ n.when = "later" /\ ~n.pending
  BY DEF AbsentRow
<1>3. g.state = "live" /\ g.refresh = grant[t].refresh /\ g.access = grant[t].access
  BY <1>0 DEF Grant
<1>4. /\ rows' = [old EXCEPT ![t] = n] /\ grant' = [grant EXCEPT ![t] = g]
      /\ grant[t].state = "none" /\ UNCHANGED <<lease, lock, task, ap>> /\ UniqueKeyHolds(rows')
  BY <1>1 DEF Connect
<1>5. old \in [Tokens -> Row]
  BY <1>0, RevokeActiveRows
<1> HIDE DEF old, n, g
<1>6. rows'[t] = n /\ \A u \in Tokens \ {t} : rows'[u] = old[u]
  BY <1>4, <1>5
<1>7. grant'[t] = g /\ \A u \in Tokens \ {t} : SameGrant(u)
  BY <1>0, <1>4 DEF SameGrant
<1>8. \A u \in Tokens : SameAp(u) /\ SameLease(u) /\ \A v \in Replicas : Waits(v, u)
  BY <1>4 DEF SameAp, SameLease, Waits, Hops, Luggage
<1>9. ASSUME NEW u \in Tokens \ {t}
      PROVE  \/ SameRow(u)
             \/ rows[u].status = "ACTIVE" /\ rows[u].account = a /\ Marked(u, "REVOKED")
  <2>1. rows'[u] = RevokeActive(rows, {a} \ {NoAccount})[u]
    BY <1>6 DEF old
  <2> QED BY <2>1, RevokedOrSame
<1>10. \A u \in Tokens \ {t} : WorldStep(u)
  BY <1>7, <1>8, <1>9 DEF WorldStep
<1>11. WorldStep(t)
  BY <1>2, <1>3, <1>4, <1>6, <1>7, <1>8 DEF WorldStep
<1> QED BY <1>2, <1>3, <1>4, <1>6, <1>7, <1>9, <1>10, <1>11 DEF RowStep

LEMMA WebhookSteps ==
    ASSUME TypeOK, NEW t \in Tokens, Webhook(t)
    PROVE  /\ \A u \in Tokens : RowStep(u)
           /\ \A u \in Tokens :
                 \/ SameRow(u)
                 \/ /\ Marked(u, "REVOKED") /\ rows[u].status = "ACTIVE"
                    /\ rows[u].account = rows[t].account /\ rows[u].account # NoAccount
           /\ grant[t].state = "revoked" /\ rows[t].status = "ACTIVE" /\ grant' = grant
           /\ UniqueKeyHolds(rows')
<1>1. /\ rows' = RevokeActive(rows, {rows[t].account} \ {NoAccount})
      /\ grant[t].state = "revoked" /\ rows[t].status = "ACTIVE"
      /\ UniqueKeyHolds(rows')
      /\ UNCHANGED <<lease, lock, task, grant, ap>>
  BY DEF Webhook
<1>2. \A u \in Tokens : /\ SameGrant(u) /\ SameAp(u) /\ SameLease(u)
                        /\ \A v \in Replicas : Waits(v, u)
  BY <1>1 DEF SameGrant, SameAp, SameLease, Waits, Hops, Luggage
<1>3. ASSUME NEW u \in Tokens
      PROVE  \/ SameRow(u)
             \/ /\ Marked(u, "REVOKED") /\ rows[u].status = "ACTIVE"
                /\ rows[u].account = rows[t].account /\ rows[u].account # NoAccount
  <2>1. rows'[u] = RevokeActive(rows, {rows[t].account} \ {NoAccount})[u]
    BY <1>1
  <2> QED BY <2>1, RevokedOrSame
<1>4. \A u \in Tokens : WorldStep(u)
  BY <1>2, <1>3 DEF WorldStep
<1> QED BY <1>1, <1>3, <1>4 DEF RowStep

LEMMA OwnerRowSteps ==
    ASSUME TypeOK, NEW t \in Tokens, Finalize(t) \/ Compensate(t) \/ UserRevokes(t)
    PROVE  \A u \in Tokens : OwnStep(u)
<1>0. /\ rows \in [Tokens -> Row] /\ grant \in [Tokens -> Grant]
      /\ rows[t] \in Row /\ grant[t] \in Grant
  BY TypeOKUnfolded
<1>1. \A u \in Tokens : SameAp(u) /\ SameLease(u) /\ \A v \in Replicas : Waits(v, u)
  BY DEF Finalize, Compensate, UserRevokes, SameAp, SameLease, Waits, Hops, Luggage
<1>2. CASE Finalize(t)
  <2> DEFINE n == [rows[t] EXCEPT !.linked = TRUE]
  <2>1. /\ n.status = rows[t].status /\ n.account = rows[t].account /\ n.linked
        /\ n.refresh = rows[t].refresh /\ n.access = rows[t].access
        /\ n.when = rows[t].when /\ n.pending = rows[t].pending
    BY <1>0 DEF Row
  <2>2. rows' = [rows EXCEPT ![t] = n] /\ Present(rows[t]) /\ ~rows[t].linked /\ grant' = grant
    BY <1>2 DEF Finalize
  <2> HIDE DEF n
  <2>3. rows'[t] = n /\ \A u \in Tokens \ {t} : SameRow(u)
    BY <1>0, <2>2 DEF SameRow
  <2>4. \A u \in Tokens : SameGrant(u)
    BY <2>2 DEF SameGrant
  <2>5. OwnStep(t)
    BY <1>1, <2>1, <2>2, <2>3, <2>4 DEF OwnStep, WorldStep, Contents
  <2>6. \A u \in Tokens \ {t} : OwnStep(u)
    BY <1>1, <2>3, <2>4 DEF OwnStep, WorldStep, SameRow
  <2> QED BY <2>5, <2>6
<1>3. CASE Compensate(t)
  <2>1. /\ rows' = [rows EXCEPT ![t] = AbsentRow] /\ Present(rows[t]) /\ ~rows[t].linked
        /\ grant' = grant
    BY <1>3 DEF Compensate
  <2>2. rows'[t] = AbsentRow /\ \A u \in Tokens \ {t} : SameRow(u)
    BY <1>0, <2>1 DEF SameRow
  <2>3. \A u \in Tokens : SameGrant(u)
    BY <2>1 DEF SameGrant
  <2>4. OwnStep(t)
    BY <1>1, <2>1, <2>2, <2>3, AbsentFields DEF OwnStep, WorldStep
  <2>5. \A u \in Tokens \ {t} : OwnStep(u)
    BY <1>1, <2>2, <2>3 DEF OwnStep, WorldStep, SameRow
  <2> QED BY <2>4, <2>5
<1>4. CASE UserRevokes(t)
  <2> DEFINE g == [grant[t] EXCEPT !.state = "revoked"]
  <2>1. g.state = "revoked" /\ g.refresh = grant[t].refresh /\ g.access = grant[t].access
    BY <1>0 DEF Grant
  <2>2. grant' = [grant EXCEPT ![t] = g] /\ grant[t].state = "live" /\ rows' = rows
    BY <1>4 DEF UserRevokes
  <2> HIDE DEF g
  <2>3. grant'[t] = g /\ \A u \in Tokens \ {t} : SameGrant(u)
    BY <1>0, <2>2 DEF SameGrant
  <2>4. \A u \in Tokens : SameRow(u)
    BY <2>2 DEF SameRow
  <2>5. OwnStep(t)
    BY <1>1, <2>1, <2>2, <2>3, <2>4 DEF OwnStep, WorldStep, SameRow
  <2>6. \A u \in Tokens \ {t} : OwnStep(u)
    BY <1>1, <2>3, <2>4 DEF OwnStep, WorldStep, SameRow
  <2> QED BY <2>5, <2>6
<1> QED BY <1>2, <1>3, <1>4

\* Only a reconnection and the webhook act on a row on behalf of another.
LEMMA NextOwnSteps ==
    ASSUME TypeOK, [Next]_vars
    PROVE  \/ \A u \in Tokens : OwnStep(u)
           \/ \E t \in Tokens : Connect(t) \/ Webhook(t)
<1>1. CASE UNCHANGED vars
  <2>1. \A u \in Tokens : Untouched(u)
    BY <1>1 DEF vars, Untouched, SameRow, SameGrant, SameAp, SameLease, Waits, Hops, Luggage
  <2> QED BY <2>1, UntouchedSteps
<1> QED
  BY <1>1, LoopRowSteps, TaskRowSteps, TimeRowSteps, OwnerRowSteps DEF Next, Others

LEMMA NextRowSteps ==
    ASSUME TypeOK, [Next]_vars PROVE \A u \in Tokens : RowStep(u)
BY NextOwnSteps, ConnectSteps, WebhookSteps DEF OwnStep, RowStep

-----------------------------------------------------------------------------
(* The row invariants are kept by row steps.                               *)

\* The types of what belongs to one row.
LEMMA RowTypes ==
    ASSUME TypeOK, NEW u \in Tokens
    PROVE  /\ rows[u] \in Row /\ grant[u] \in Grant /\ ap[u] \in Nat
           /\ rows[u].access \in Nat /\ grant[u].access \in Nat /\ rows[u].linked \in BOOLEAN
           /\ grant[u].refresh \in Nat
           /\ \A w \in Replicas : task[w][u].access \in Nat /\ task[w][u].linked \in BOOLEAN
<1>1. rows[u] \in Row /\ grant[u] \in Grant /\ ap[u] \in Nat
      /\ \A w \in Replicas : task[w][u] \in Task
  BY TypeOKUnfolded
<1> QED BY <1>1 DEF Row, Grant, Task

\* Two tasks of a row are not both in their critical section.
Alone(u) ==
    \A v, w \in Replicas :
        task[v][u].pc \in Critical /\ task[w][u].pc \in Critical => v = w

LEMMA SingleFlightAlone == ASSUME SingleFlight, NEW u \in Tokens PROVE Alone(u)
BY DEF SingleFlight, Alone

LEMMA LifeStep ==
    ASSUME NEW u \in Tokens, TypeOK, TypeOK', Life(u), RowStep(u)
    PROVE  Life(u)'
<1>0. /\ ~Present(rows[u]) => rows[u] = AbsentRow
      /\ grant[u].state = "none" =>
            ~Present(rows[u]) /\ grant[u].refresh = 0 /\ \A w \in Replicas : task[w][u].pc = "idle"
      /\ ~rows[u].linked => ap[u] = 0
      /\ \A w \in Replicas : task[w][u].linked \/ task[w][u].pc = "appush" => rows[u].linked
  BY DEF Life, At
<1> SUFFICES
      /\ ~Present(rows[u])' => rows'[u] = AbsentRow
      /\ grant'[u].state = "none" =>
            ~Present(rows[u])' /\ grant'[u].refresh = 0 /\ \A w \in Replicas : task'[w][u].pc = "idle"
      /\ ~rows'[u].linked => ap'[u] = 0
      /\ \A w \in Replicas : task'[w][u].linked \/ task'[w][u].pc = "appush" => rows'[u].linked
  BY DEF Life, At
<1>1. CASE WorldStep(u)
  BY <1>0, <1>1, AbsentFields DEF WorldStep, SameRow, SameGrant, SameAp, Waits, Hops, Luggage,
     Timed, Marked, Identity, Contents, Present
<1>2. ASSUME NEW w \in Replicas, WorkerStep(w, u)
      PROVE /\ ~Present(rows[u])' => rows'[u] = AbsentRow
            /\ grant'[u].state = "none" =>
                  ~Present(rows[u])' /\ grant'[u].refresh = 0 /\ \A v \in Replicas : task'[v][u].pc = "idle"
            /\ ~rows'[u].linked => ap'[u] = 0
            /\ \A v \in Replicas : task'[v][u].linked \/ task'[v][u].pc = "appush" => rows'[u].linked
  <2>0. \A v \in Replicas \ {w} : task'[v][u].pc = task[v][u].pc /\ task'[v][u].linked = task[v][u].linked
    BY <1>2 DEF WorkerStep, Waits, Hops, Luggage
  <2>1. CASE Passes(w, u)
    BY <1>0, <2>0, <2>1 DEF Passes, SameRow, SameGrant, SameAp, Hops, Luggage, Present
  <2>2. CASE Breaks(w, u)
    BY <1>0, <2>0, <2>2 DEF Breaks, SameRow, SameGrant, SameAp, Hops, Luggage, Present, Blank, Critical
  <2>3. CASE Begins(w, u)
    BY <1>0, <2>0, <2>3 DEF Begins, SameRow, SameGrant, SameAp, Present, Blank
  <2>4. CASE Ends(w, u)
    BY <1>0, <2>0, <2>4 DEF Ends, SameRow, SameGrant, SameAp, Present, Blank
  <2>5. CASE Loads(w, u)
    BY <1>0, <2>0, <2>5 DEF Loads, SameRow, SameGrant, SameAp, Present
  <2>6. CASE Writes(w, u)
    BY <1>0, <2>0, <2>6 DEF Writes, Written, SameRow, SameGrant, SameAp, Hops, Luggage,
       Timed, Marked, Flagged, Rotated, Identity, Contents, Present
  <2>7. CASE Rotates(w, u)
    BY <1>0, <2>0, <2>7 DEF Rotates, SameRow, SameAp, Hops, Luggage, Present, Honours
  <2>8. CASE Pushes(w, u)
    BY <1>0, <2>0, <2>8, RowTypes DEF Pushes, SameRow, SameGrant, Hops, Luggage, Present
  <2> QED BY <1>2, <2>1, <2>2, <2>3, <2>4, <2>5, <2>6, <2>7, <2>8 DEF WorkerStep
<1> QED BY <1>1, <1>2 DEF RowStep

LEMMA OrderedStep ==
    ASSUME NEW u \in Tokens, TypeOK, TypeOK', Alone(u), Life(u), Ordered(u), RowStep(u)
    PROVE  /\ Ordered(u)'
           /\ ap'[u] >= ap[u]
           /\ Present(rows[u])' => rows'[u].access >= rows[u].access
<1> DEFINE Goal == /\ ap'[u] <= rows'[u].access /\ rows'[u].access <= grant'[u].access
                   /\ \A v \in Replicas :
                        /\ task'[v][u].pc = "store" => task'[v][u].access = grant'[u].access
                        /\ task'[v][u].pc = "push" /\ Present(rows[u])' =>
                              task'[v][u].access = rows'[u].access
                        /\ task'[v][u].pc = "appush" => task'[v][u].access = rows'[u].access
                   /\ ap'[u] >= ap[u]
                   /\ Present(rows[u])' => rows'[u].access >= rows[u].access
<1>0. /\ ~Present(rows[u]) => rows[u] = AbsentRow
      /\ grant[u].state = "none" =>
            ~Present(rows[u]) /\ \A w \in Replicas : task[w][u].pc = "idle"
      /\ ~rows[u].linked => ap[u] = 0
      /\ \A w \in Replicas : task[w][u].linked \/ task[w][u].pc = "appush" => rows[u].linked
  BY DEF Life, At
<1>1. /\ ap[u] <= rows[u].access /\ rows[u].access <= grant[u].access
      /\ \A v \in Replicas :
           /\ task[v][u].pc = "store" => task[v][u].access = grant[u].access
           /\ task[v][u].pc = "push" /\ Present(rows[u]) => task[v][u].access = rows[u].access
           /\ task[v][u].pc = "appush" => task[v][u].access = rows[u].access
  BY DEF Ordered, At
<1>2. /\ rows[u].access \in Nat /\ grant[u].access \in Nat /\ ap[u] \in Nat
      /\ rows[u].linked \in BOOLEAN
      /\ \A w \in Replicas : task[w][u].access \in Nat /\ task[w][u].linked \in BOOLEAN
  BY RowTypes
<1>3. CASE WorldStep(u)
  <2>1. /\ ap'[u] = ap[u]
        /\ \A v \in Replicas : task'[v][u].pc = task[v][u].pc /\ task'[v][u].access = task[v][u].access
    BY <1>3 DEF WorldStep, SameAp, Waits, Hops, Luggage
  <2>2. ASSUME rows'[u].access = rows[u].access, grant'[u].access = grant[u].access,
               Present(rows[u])' => Present(rows[u])
        PROVE  Goal
    BY <1>0, <1>1, <1>2, <2>1, <2>2
  <2>3. ASSUME ~rows[u].linked, rows'[u] = AbsentRow, SameGrant(u) PROVE Goal
    BY <1>0, <1>1, <1>2, <2>1, <2>3, AbsentFields DEF SameGrant, Present
  <2>4. ASSUME grant[u].state = "none", rows'[u].access = 0, ~rows'[u].linked,
               grant'[u].access = grant[u].access
        PROVE  Goal
    BY <1>0, <1>1, <1>2, <2>1, <2>4, AbsentFields
  <2>5. Goal
    BY <1>3, <2>2, <2>3, <2>4, AbsentFields
       DEF WorldStep, SameRow, SameGrant, Timed, Marked, Identity, Contents, Present
  <2> QED BY <2>5 DEF Ordered, At
<1>4. ASSUME NEW w \in Replicas, WorkerStep(w, u) PROVE Goal
  <2>0. \A v \in Replicas \ {w} : task'[v][u].pc = task[v][u].pc /\ task'[v][u].access = task[v][u].access
    BY <1>4 DEF WorkerStep, Waits, Hops, Luggage
  <2>a. \A v \in Replicas \ {w} :
          task[w][u].pc \in {"call", "store", "push", "appush"} =>
              task[v][u].pc \notin {"store", "push", "appush"}
    BY DEF Alone, Critical
  <2>b. ASSUME SameRow(u), SameGrant(u), SameAp(u),
               \/ task'[w][u].pc \notin {"store", "push", "appush"}
               \/ task'[w][u].pc = "appush" /\ task'[w][u].access = rows[u].access
        PROVE  Goal
    <3>1. ap'[u] = ap[u] /\ rows'[u] = rows[u] /\ grant'[u] = grant[u]
      BY <2>b DEF SameRow, SameGrant, SameAp
    <3>2. \A v \in Replicas \ {w} :
             /\ task'[v][u].pc = "store" => task'[v][u].access = grant[u].access
             /\ task'[v][u].pc = "push" /\ Present(rows[u]) =>
                   task'[v][u].access = rows[u].access
             /\ task'[v][u].pc = "appush" => task'[v][u].access = rows[u].access
      BY <1>1, <2>0
    <3>3. /\ task'[w][u].pc = "store" => task'[w][u].access = grant[u].access
          /\ task'[w][u].pc = "push" /\ Present(rows[u]) =>
                task'[w][u].access = rows[u].access
          /\ task'[w][u].pc = "appush" => task'[w][u].access = rows[u].access
      BY <1>1, <2>b
    <3>4. Present(rows[u])' = Present(rows[u])
      BY <3>1 DEF Present
    <3> QED BY <1>1, <1>2, <3>1, <3>2, <3>3, <3>4
  <2>1. CASE Passes(w, u)
    BY <2>b, <2>1 DEF Passes, Hops, Luggage
  <2>2. CASE Breaks(w, u)
    BY <2>b, <2>2 DEF Breaks, Hops
  <2>3. CASE Begins(w, u)
    BY <2>b, <2>3 DEF Begins
  <2>4. CASE Ends(w, u)
    BY <2>b, <2>4 DEF Ends
  <2>5. CASE Loads(w, u)
    BY <2>b, <2>5 DEF Loads
  <2>6. CASE Writes(w, u)
    <3>1. CASE ~Present(rows[u])
      BY <1>0, <1>1, <1>2, <2>0, <2>6, <3>1 DEF Writes, Written, SameRow, SameGrant, SameAp, Hops, Luggage
    <3>2. CASE Present(rows[u]) /\ task[w][u].pc = "store"
      BY <1>0, <1>1, <1>2, <2>0, <2>a, <2>6, <3>2
         DEF Writes, Written, SameGrant, SameAp, Hops, Luggage, Rotated, Identity, Present
    <3>3. CASE Present(rows[u]) /\ task[w][u].pc # "store"
      BY <1>0, <1>1, <1>2, <2>0, <2>6, <3>3
         DEF Writes, Written, SameGrant, SameAp, Hops, Luggage, Timed, Marked, Flagged,
             Identity, Contents, Present
    <3> QED BY <3>1, <3>2, <3>3
  <2>7. CASE Rotates(w, u)
    BY <1>0, <1>1, <1>2, <2>0, <2>a, <2>7 DEF Rotates, SameRow, SameAp, Hops, Luggage
  <2>8. CASE Pushes(w, u)
    <3>1. rows'[u] = rows[u] /\ grant'[u] = grant[u]
      BY <2>8 DEF Pushes, SameRow, SameGrant
    <3>2. task'[w][u].pc \notin {"store", "push", "appush"}
      BY <2>8 DEF Pushes, Hops
    <3>3. \A v \in Replicas \ {w} : task'[v][u].pc \notin {"store", "push", "appush"}
      BY <2>0, <2>a, <2>8 DEF Pushes
    <3>4. /\ ap'[u] = ap[u] \/ ap'[u] = task[w][u].access
          /\ task[w][u].pc = "push" /\ ap'[u] # ap[u] => task[w][u].linked
          /\ task[w][u].pc \in {"push", "appush"}
      BY <2>8 DEF Pushes
    <3>5. ap[u] <= ap'[u] /\ ap'[u] <= rows[u].access
      BY <1>0, <1>1, <1>2, <3>4, AbsentFields
    <3> QED BY <1>1, <1>2, <3>1, <3>2, <3>3, <3>5
  <2> QED BY <1>4, <2>1, <2>2, <2>3, <2>4, <2>5, <2>6, <2>7, <2>8 DEF WorkerStep
<1>5. CASE \E w \in Replicas : WorkerStep(w, u)
  BY <1>4, <1>5 DEF Ordered, At
<1> QED BY <1>3, <1>5 DEF RowStep

-----------------------------------------------------------------------------
(* Neither the vault nor AP regresses.                                     *)

OrderInv == TypeOK /\ SingleFlight /\ \A u \in Tokens : Life(u) /\ Ordered(u)

LEMMA InitOrderInv == Init => OrderInv
<1> SUFFICES ASSUME Init PROVE OrderInv
  OBVIOUS
<1>1. TypeOK
  BY IdleTypes, TypeOKUnfolded, BoundsAssumption DEF Init, Grant
<1>2. SingleFlight
  BY DEF Init, SingleFlight, IdleTask, Critical
<1>3. \A u \in Tokens : Life(u) /\ Ordered(u)
  BY AbsentFields DEF Init, Life, Ordered, At, IdleTask, Present
<1> QED BY <1>1, <1>2, <1>3 DEF OrderInv

LEMMA NextOrderInv ==
    ASSUME "lock_lapse" \notin Faults, OrderInv, [Next]_vars
    PROVE  /\ OrderInv'
           /\ \A u \in Tokens : /\ ap'[u] >= ap[u]
                                /\ Present(rows[u])' => rows'[u].access >= rows[u].access
<1>1. TypeOK' /\ SingleFlight'
  BY NextTypeOK, NextSingleFlight DEF OrderInv
<1>2. ASSUME NEW u \in Tokens
      PROVE  /\ Life(u)' /\ Ordered(u)' /\ ap'[u] >= ap[u]
             /\ Present(rows[u])' => rows'[u].access >= rows[u].access
  <2>1. RowStep(u) /\ Alone(u) /\ TypeOK /\ Life(u) /\ Ordered(u)
    BY NextRowSteps, SingleFlightAlone DEF OrderInv
  <2> QED BY <1>1, <2>1, LifeStep, OrderedStep
<1> QED BY <1>1, <1>2 DEF OrderInv

\* AP and the vault only move on, for any replicas, rows and faults, as long as
\* no task outlives its lock: the old access token is never written over a
\* newer one, although it travels through the memory of tasks that may be
\* delayed, cancelled or repeated.
THEOREM OnlyForward ==
    ASSUME "lock_lapse" \notin Faults PROVE Spec => NothingRegresses
<1>1. OrderInv /\ [Next]_vars => OrderInv'
  BY NextOrderInv
<1>2. OrderInv /\ [Next]_vars =>
        [\A t \in Tokens : /\ ap'[t] >= ap[t]
                           /\ Present(rows'[t]) => rows'[t].access >= rows[t].access]_vars
  BY NextOrderInv DEF Present
<1> QED BY <1>1, <1>2, InitOrderInv, PTL DEF Spec, NothingRegresses

\* What AP holds is never ahead of the vault, nor the vault of the provider.
THEOREM OrderInvariant ==
    ASSUME "lock_lapse" \notin Faults PROVE Spec => []OrderInv
<1>1. OrderInv /\ [Next]_vars => OrderInv'
  BY NextOrderInv
<1> QED BY <1>1, InitOrderInv, PTL DEF Spec

-----------------------------------------------------------------------------
(* Every row keeps to its life cycle.                                      *)

\* What a step does to the variables of TokenLifecycle.
LEMMA LifecycleMoves ==
    ASSUME NEW u \in Tokens
    PROVE  /\ /\ grant'[u].access = grant[u].access /\ rows'[u].access = rows[u].access
              /\ ap'[u] = ap[u] /\ LifeOf(u)' = LifeOf(u)
              => [Lifecycle(u)!Next]_(Lifecycle(u)!lifeVars)
           /\ /\ LifeOf(u) \in {"unused", "usable"} /\ rows'[u].access = rows[u].access
              /\ LifeOf(u)' = IF LifeOf(u) = "unused" THEN "usable" ELSE "retired"
              /\ ap'[u] = ap[u] /\ grant'[u].access = grant[u].access
              => Lifecycle(u)!Next
           /\ /\ LifeOf(u) # "unused" /\ LifeOf(u)' = LifeOf(u)
              /\ grant'[u].access = grant[u].access + 1
              /\ rows'[u].access = rows[u].access /\ ap'[u] = ap[u]
              => Lifecycle(u)!Next
           /\ /\ LifeOf(u) \in {"usable", "retired"} /\ LifeOf(u)' = LifeOf(u)
              /\ grant'[u].access = grant[u].access
              /\ \/ rows'[u].access = grant[u].access /\ ap'[u] = ap[u]
                 \/ rows'[u].access = rows[u].access /\ ap'[u] = rows[u].access
              => Lifecycle(u)!Next
           /\ /\ LifeOf(u) \in {"usable", "retired"} /\ LifeOf(u)' = "gone"
              /\ ap[u] = 0 /\ ap'[u] = 0 /\ rows'[u].access = 0
              /\ grant'[u].access = grant[u].access
              => Lifecycle(u)!Next
BY DEF Lifecycle!Next, Lifecycle!Begin, Lifecycle!Issue, Lifecycle!Store, Lifecycle!Deliver,
       Lifecycle!Retire, Lifecycle!Discard, Lifecycle!InVault, Lifecycle!lifeVars

LEMMA LifecycleStep ==
    ASSUME NEW u \in Tokens, TypeOK, Life(u), Ordered(u), RowStep(u)
    PROVE  [Lifecycle(u)!Next]_(Lifecycle(u)!lifeVars)
<1>0. /\ ~Present(rows[u]) => rows[u] = AbsentRow
      /\ grant[u].state = "none" =>
            ~Present(rows[u]) /\ \A w \in Replicas : task[w][u].pc = "idle"
      /\ ~rows[u].linked => ap[u] = 0
      /\ \A w \in Replicas : task[w][u].linked \/ task[w][u].pc = "appush" => rows[u].linked
      /\ rows[u].linked => Present(rows[u])
  BY AbsentFields DEF Life, At
<1>1. /\ rows[u].linked \in BOOLEAN
      /\ \A w \in Replicas : task[w][u].linked \in BOOLEAN
  BY RowTypes
<1>2. ASSUME grant'[u].state = grant[u].state \/ (grant[u].state # "none" /\ grant'[u].state # "none"),
             rows'[u].status = rows[u].status
      PROVE  LifeOf(u)' = LifeOf(u)
  BY <1>2 DEF LifeOf, Present
<1>3. CASE WorldStep(u)
  <2>0. ap'[u] = ap[u]
    BY <1>3 DEF WorldStep, SameAp
  <2>1. CASE SameGrant(u) /\ rows'[u].access = rows[u].access /\ rows'[u].status = rows[u].status
    BY <1>2, <2>0, <2>1, LifecycleMoves DEF SameGrant
  <2>2. CASE SameGrant(u) /\ rows[u].status = "ACTIVE" /\ Marked(u, "REVOKED")
    <3>1. LifeOf(u) = "usable" /\ LifeOf(u)' = "retired"
      BY <1>0, <2>2 DEF SameGrant, Marked, LifeOf, Present
    <3> QED BY <2>0, <2>2, <3>1, LifecycleMoves DEF SameGrant, Marked, Contents
  <2>3. CASE /\ SameGrant(u) /\ Present(rows[u]) /\ ~rows[u].linked
             /\ rows'[u] = AbsentRow
    <3>1. LifeOf(u) \in {"usable", "retired"} /\ LifeOf(u)' = "gone"
      BY <1>0, <2>3, AbsentFields DEF SameGrant, LifeOf, Present
    <3> QED BY <1>0, <2>0, <2>3, <3>1, AbsentFields, LifecycleMoves DEF SameGrant
  <2>4. CASE SameRow(u) /\ grant[u].state = "live" /\ grant'[u].state = "revoked"
             /\ grant'[u].access = grant[u].access
    BY <1>2, <2>0, <2>4, LifecycleMoves DEF SameRow
  <2>5. CASE /\ grant[u].state = "none" /\ grant'[u].state = "live"
             /\ grant'[u].access = grant[u].access
             /\ rows'[u].status = "ACTIVE" /\ rows'[u].access = 0
    <3>1. LifeOf(u) = "unused" /\ LifeOf(u)' = "usable" /\ rows[u].access = 0
      BY <1>0, <2>5, AbsentFields DEF LifeOf, Present
    <3> QED BY <2>0, <2>5, <3>1, LifecycleMoves
  <2> QED BY <1>3, <2>1, <2>2, <2>3, <2>4, <2>5
          DEF WorldStep, SameRow, Timed, Identity, Contents
<1>4. ASSUME NEW w \in Replicas, WorkerStep(w, u)
      PROVE  [Lifecycle(u)!Next]_(Lifecycle(u)!lifeVars)
  <2>a. /\ task[w][u].pc = "store" => task[w][u].access = grant[u].access
        /\ task[w][u].pc = "push" /\ Present(rows[u]) => task[w][u].access = rows[u].access
        /\ task[w][u].pc = "appush" => task[w][u].access = rows[u].access
    BY DEF Ordered, At
  <2>1. CASE SameRow(u) /\ SameGrant(u) /\ SameAp(u)
    BY <1>2, <2>1, LifecycleMoves DEF SameRow, SameGrant, SameAp
  <2>2. CASE Writes(w, u)
    <3>1. SameGrant(u) /\ SameAp(u)
      BY <2>2 DEF Writes
    <3>2. CASE ~Present(rows[u])
      BY <2>1, <2>2, <3>1, <3>2 DEF Writes, Written
    <3>3. CASE Present(rows[u])
      <4>0. grant[u].state # "none"
        BY <1>0, <3>3
      <4>1. CASE rows'[u].status = rows[u].status /\ rows'[u].access = rows[u].access
        BY <1>2, <3>1, <4>1, LifecycleMoves DEF SameGrant, SameAp
      <4>2. CASE Marked(u, "CORRUPTED") \/ Marked(u, "REVOKED")
        <5>1. /\ LifeOf(u)' = "retired" /\ LifeOf(u) \in {"usable", "retired"}
              /\ rows'[u].access = rows[u].access
          BY <3>1, <3>3, <4>0, <4>2 DEF SameGrant, Marked, Contents, LifeOf, Present
        <5> QED BY <3>1, <5>1, LifecycleMoves DEF SameGrant, SameAp
      <4>3. CASE task[w][u].pc = "store" /\ Rotated(u, task[w][u])
        <5>1. LifeOf(u) \in {"usable", "retired"} /\ LifeOf(u)' = LifeOf(u)
          BY <1>2, <3>1, <3>3, <4>0, <4>3 DEF SameGrant, Rotated, Identity, LifeOf
        <5>2. rows'[u].access = grant[u].access
          BY <2>a, <4>3 DEF Rotated
        <5> QED BY <3>1, <5>1, <5>2, LifecycleMoves DEF SameGrant, SameAp
      <4> QED BY <2>2, <3>3, <4>1, <4>2, <4>3
              DEF Writes, Written, Timed, Flagged, Identity, Contents
    <3> QED BY <3>2, <3>3
  <2>3. CASE Rotates(w, u)
    <3>1. LifeOf(u) # "unused" /\ LifeOf(u)' = LifeOf(u)
      BY <1>2, <2>3 DEF Rotates, Honours, SameRow, LifeOf
    <3> QED BY <2>3, <3>1, LifecycleMoves DEF Rotates, SameRow, SameAp
  <2>4. CASE Pushes(w, u)
    <3>0. SameRow(u) /\ SameGrant(u)
      BY <2>4 DEF Pushes
    <3>1. CASE SameAp(u)
      BY <2>1, <3>0, <3>1
    <3>2. CASE ~SameAp(u)
      <4>1. /\ ap'[u] = task[w][u].access
            /\ \/ task[w][u].pc = "push" /\ task[w][u].linked
               \/ task[w][u].pc = "appush"
        BY <1>1, <2>4, <3>2 DEF Pushes, SameAp
      <4>2. Present(rows[u]) /\ ap'[u] = rows[u].access
        BY <1>0, <2>a, <4>1
      <4>3. LifeOf(u) \in {"usable", "retired"} /\ LifeOf(u)' = LifeOf(u)
        BY <1>0, <1>2, <3>0, <4>2 DEF SameRow, SameGrant, LifeOf
      <4> QED BY <3>0, <4>2, <4>3, LifecycleMoves DEF SameRow, SameGrant
    <3> QED BY <3>1, <3>2
  <2> QED BY <1>4, <2>1, <2>2, <2>3, <2>4
          DEF WorkerStep, Passes, Breaks, Begins, Ends, Loads
<1> QED BY <1>3, <1>4 DEF RowStep

\* Each row keeps to the life cycle: what is stored is the provider's newest
\* token and what is delivered the stored one, for any replicas, rows and
\* faults, as long as no task outlives its lock.
THEOREM RowsKeepLifecycle ==
    ASSUME "lock_lapse" \notin Faults PROVE Spec => KeepsLifecycle
<1>1. Init => \A t \in Tokens : Lifecycle(t)!Init
  BY AbsentFields DEF Init, Lifecycle!Init, LifeOf, Present
<1>2. OrderInv /\ [Next]_vars => OrderInv'
  BY NextOrderInv
<1>3. OrderInv /\ [Next]_vars =>
        [\A t \in Tokens : [Lifecycle(t)!Next]_(Lifecycle(t)!lifeVars)]_vars
  BY NextRowSteps, LifecycleStep DEF OrderInv
<1> QED BY <1>1, <1>2, <1>3, InitOrderInv, PTL DEF Spec, KeepsLifecycle

-----------------------------------------------------------------------------
(* A stale connection is marked or due.                                    *)

\* Nothing interrupts a task inside its path, and rows fall due only once
\* their saga is finalized.
Uninterrupted == Faults \cap {"lock_lapse", "db", "crash", "shutdown", "short_lived"} = {}

LEMMA FinalizedStep ==
    ASSUME NEW u \in Tokens, Uninterrupted, TypeOK, TypeOK', Life(u), Finalized(u), RowStep(u)
    PROVE  Finalized(u)'
<1> DEFINE Goal == /\ rows'[u].when = "due" \/ rows'[u].pending => rows'[u].linked
                   /\ ~rows'[u].linked => rows'[u].access = 0
                   /\ \A v \in Replicas : task'[v][u].pc # "idle" => rows'[u].linked
<1>0. /\ ~Present(rows[u]) => rows[u] = AbsentRow
      /\ grant[u].state = "none" =>
            ~Present(rows[u]) /\ \A w \in Replicas : task[w][u].pc = "idle"
  BY DEF Life, At
<1>1. /\ rows[u].when = "due" \/ rows[u].pending => rows[u].linked
      /\ ~rows[u].linked => rows[u].access = 0
      /\ \A v \in Replicas : task[v][u].pc # "idle" => rows[u].linked
  BY DEF Finalized, At
<1>2. CASE WorldStep(u)
  <2>1. \A v \in Replicas : task'[v][u].pc = task[v][u].pc
    BY <1>2 DEF WorldStep, Waits, Hops
  <2>2. Goal
    BY <1>0, <1>1, <1>2, <2>1, AbsentFields
       DEF WorldStep, Uninterrupted, SameRow, Timed, Marked, Identity, Contents, Present
  <2> QED BY <2>2 DEF Finalized, At
<1>3. ASSUME NEW w \in Replicas, WorkerStep(w, u) PROVE Goal
  <2>0. \A v \in Replicas \ {w} : task'[v][u].pc = task[v][u].pc
    BY <1>3 DEF WorkerStep, Waits, Hops
  <2>1. task'[w][u].pc # "idle" => task[w][u].pc # "idle" \/ Begins(w, u)
    BY <1>3 DEF WorkerStep, Passes, Breaks, Ends, Loads, Writes, Rotates, Pushes, Critical
  <2>2. CASE SameRow(u)
    BY <1>1, <2>0, <2>1, <2>2 DEF SameRow, Begins
  <2>3. CASE Writes(w, u)
    BY <1>1, <2>0, <2>3, RowTypes
       DEF Writes, Written, SameRow, Timed, Marked, Flagged, Rotated, Identity, Contents
  <2> QED BY <1>3, <2>2, <2>3 DEF WorkerStep, Passes, Breaks, Begins, Ends, Loads, Rotates, Pushes
<1>4. CASE \E w \in Replicas : WorkerStep(w, u)
  BY <1>3, <1>4 DEF Finalized, At
<1> QED BY <1>2, <1>4 DEF RowStep

LEMMA RotatableStep ==
    ASSUME NEW u \in Tokens, Uninterrupted, TypeOK, TypeOK',
           Life(u), Finalized(u), Rotatable(u), RowStep(u)
    PROVE  Rotatable(u)'
<1> DEFINE Goal == /\ rows'[u].refresh = NoToken => rows'[u].access = 0
                   /\ \A v \in Replicas :
                        /\ task'[v][u].pc \in Rotating =>
                              /\ task'[v][u].refresh # NoToken /\ task'[v][u].linked
                              /\ rows'[u].refresh # NoToken
                        /\ task'[v][u].pc = "defer" => rows'[u].refresh = NoToken
<1>0. /\ ~Present(rows[u]) => ~rows[u].linked
      /\ grant[u].state = "none" => \A w \in Replicas : task[w][u].pc = "idle"
      /\ \A v \in Replicas : task[v][u].pc # "idle" => rows[u].linked
  BY AbsentFields DEF Life, Finalized, At
<1>1. /\ rows[u].refresh = NoToken => rows[u].access = 0
      /\ \A v \in Replicas :
           /\ task[v][u].pc \in Rotating =>
                 task[v][u].refresh # NoToken /\ task[v][u].linked /\ rows[u].refresh # NoToken
           /\ task[v][u].pc = "defer" => rows[u].refresh = NoToken
  BY DEF Rotatable, At
<1>2. CASE WorldStep(u)
  <2>1. \A v \in Replicas : /\ task'[v][u].pc = task[v][u].pc
                            /\ task'[v][u].refresh = task[v][u].refresh
                            /\ task'[v][u].linked = task[v][u].linked
    BY <1>2 DEF WorldStep, Waits, Hops, Luggage
  <2>2. Goal
    BY <1>0, <1>1, <1>2, <2>1, AbsentFields
       DEF WorldStep, SameRow, Timed, Marked, Identity, Contents, Rotating
  <2> QED BY <2>2 DEF Rotatable, At
<1>3. ASSUME NEW w \in Replicas, WorkerStep(w, u) PROVE Goal
  <2>0. \A v \in Replicas \ {w} : /\ task'[v][u].pc = task[v][u].pc
                                  /\ task'[v][u].refresh = task[v][u].refresh
                                  /\ task'[v][u].linked = task[v][u].linked
    BY <1>3 DEF WorkerStep, Waits, Hops, Luggage
  <2>1. CASE Passes(w, u)
    BY <1>0, <1>1, <2>0, <2>1 DEF Passes, SameRow, Hops, Luggage, Rotating
  <2>2. CASE Breaks(w, u)
    BY <2>2 DEF Breaks, Uninterrupted
  <2>3. CASE Begins(w, u) \/ Ends(w, u)
    BY <1>1, <2>0, <2>3 DEF Begins, Ends, SameRow, Rotating
  <2>4. CASE Loads(w, u)
    BY <1>0, <1>1, <2>0, <2>4 DEF Loads, SameRow, Rotating
  <2>5. CASE Writes(w, u)
    <3>1. Present(rows[u])
      BY <1>0, <2>5 DEF Writes
    <3> QED
      BY <1>0, <1>1, <2>0, <2>5, <3>1
         DEF Writes, Written, Hops, Luggage, Timed, Marked, Flagged, Rotated, Contents, Rotating
  <2>6. CASE Rotates(w, u)
    BY <1>1, <2>0, <2>6 DEF Rotates, SameRow, Hops, Luggage, Rotating
  <2>7. CASE Pushes(w, u)
    BY <1>1, <2>0, <2>7 DEF Pushes, SameRow, Hops, Luggage, Rotating
  <2> QED BY <1>3, <2>1, <2>2, <2>3, <2>4, <2>5, <2>6, <2>7 DEF WorkerStep
<1>4. CASE \E w \in Replicas : WorkerStep(w, u)
  BY <1>3, <1>4 DEF Rotatable, At
<1> QED BY <1>2, <1>4 DEF RowStep

LEMMA DeliveredStep ==
    ASSUME NEW u \in Tokens, Uninterrupted, TypeOK, TypeOK', Alone(u), Life(u), Ordered(u),
           Finalized(u), Rotatable(u), Delivered(u), RowStep(u)
    PROVE  Delivered(u)'
<1> DEFINE Goal == /\ \A v \in Replicas :
                        /\ task'[v][u].synced => task'[v][u].pc \in {"flag", "unlock", "release"}
                        /\ task'[v][u].pc = "flag" /\ task'[v][u].synced => ap'[u] = rows'[u].access
                        /\ task'[v][u].pc = "apclear" => ap'[u] = rows'[u].access
                   /\ rows'[u].status = "ACTIVE" =>
                        \/ ap'[u] = rows'[u].access \/ rows'[u].pending \/ rows'[u].when = "due"
                        \/ \E v \in Replicas : task'[v][u].pc = "push" \/ task'[v][u].pc = "flag"
<1>0. /\ ~Present(rows[u]) => ~rows[u].linked
      /\ grant[u].state = "none" => ~Present(rows[u]) /\ \A w \in Replicas : task[w][u].pc = "idle"
      /\ ~rows[u].linked => ap[u] = 0 /\ rows[u].access = 0
      /\ \A v \in Replicas : task[v][u].pc # "idle" => rows[u].linked
  BY AbsentFields DEF Life, Finalized, At
<1>1. /\ \A v \in Replicas :
           /\ task[v][u].synced => task[v][u].pc \in {"flag", "unlock", "release"}
           /\ task[v][u].pc = "flag" /\ task[v][u].synced => ap[u] = rows[u].access
           /\ task[v][u].pc = "apclear" => ap[u] = rows[u].access
      /\ rows[u].status = "ACTIVE" =>
           \/ ap[u] = rows[u].access \/ rows[u].pending \/ rows[u].when = "due"
           \/ \E v \in Replicas : task[v][u].pc = "push" \/ task[v][u].pc = "flag"
  BY DEF Delivered, At
<1>a. /\ \A v \in Replicas : /\ task[v][u].pc = "push" => task[v][u].access = rows[u].access
                             /\ task[v][u].pc = "push" => task[v][u].linked
                             /\ task[v][u].pc = "appush" => task[v][u].access = rows[u].access
                             /\ task[v][u].pc = "defer" => ap[u] = rows[u].access
  <2>1. ap[u] \in Nat /\ rows[u].access \in Nat /\ ap[u] <= rows[u].access
    BY RowTypes DEF Ordered
  <2>2. \A v \in Replicas : /\ task[v][u].pc = "push" => task[v][u].access = rows[u].access
                            /\ task[v][u].pc = "appush" => task[v][u].access = rows[u].access
    BY <1>0 DEF Ordered, At
  <2>3. \A v \in Replicas : /\ task[v][u].pc = "push" => task[v][u].linked
                            /\ task[v][u].pc = "defer" => rows[u].access = 0
    BY DEF Rotatable, Rotating, At
  <2> QED BY <2>1, <2>2, <2>3
<1>2. CASE WorldStep(u)
  <2>1. /\ \A v \in Replicas : /\ task'[v][u].pc = task[v][u].pc
                               /\ task'[v][u].synced = task[v][u].synced
        /\ ap'[u] = ap[u]
    BY <1>2 DEF WorldStep, Waits, Hops, Luggage, SameAp
  <2>2. Goal
    BY <1>0, <1>1, <1>2, <2>1, AbsentFields
       DEF WorldStep, SameRow, Timed, Marked, Identity, Contents, Present
  <2> QED BY <2>2 DEF Delivered, At
<1>3. ASSUME NEW w \in Replicas, WorkerStep(w, u) PROVE Goal
  <2>0. \A v \in Replicas \ {w} : /\ task'[v][u].pc = task[v][u].pc
                                  /\ task'[v][u].synced = task[v][u].synced
    BY <1>3 DEF WorkerStep, Waits, Hops, Luggage
  <2>a. \A v \in Replicas \ {w} :
          task[w][u].pc \in {"store", "push", "appush", "flag", "apclear"} =>
              task[v][u].pc \notin {"push", "flag", "apclear"}
    BY DEF Alone, Critical
  <2>1. CASE Passes(w, u)
    BY <1>0, <1>1, <2>0, <2>1 DEF Passes, SameRow, SameAp, Hops, Luggage
  <2>2. CASE Breaks(w, u)
    BY <2>2 DEF Breaks, Uninterrupted
  <2>3. CASE Begins(w, u) \/ Ends(w, u)
    BY <1>1, <2>0, <2>3 DEF Begins, Ends, SameRow, SameAp, Blank
  <2>4. CASE Loads(w, u)
    BY <1>1, <2>0, <2>4 DEF Loads, SameRow, SameAp
  <2>5. CASE Writes(w, u)
    <3>1. Present(rows[u])
      BY <1>0, <2>5 DEF Writes
    <3>2. CASE task[w][u].pc = "store"
      BY <1>1, <2>0, <2>a, <2>5, <3>1, <3>2 DEF Writes, Written, Hops, Luggage, SameAp
    <3>3. CASE task[w][u].pc \in {"flag", "apclear"}
      BY <1>1, <2>0, <2>a, <2>5, <3>1, <3>3
         DEF Writes, Written, Hops, Luggage, SameAp, Flagged, Identity, Contents
    <3>4. CASE task[w][u].pc \in {"corrupt", "revoke"}
      BY <1>1, <2>0, <2>5, <3>1, <3>4 DEF Writes, Written, Hops, Luggage, SameAp, Marked, Contents
    <3>5. CASE task[w][u].pc = "defer"
      BY <1>1, <1>a, <2>0, <2>5, <3>1, <3>5
         DEF Writes, Written, Hops, Luggage, SameAp, Timed, Identity, Contents
    <3> QED BY <2>5, <3>2, <3>3, <3>4, <3>5 DEF Writes
  <2>6. CASE Rotates(w, u)
    BY <1>1, <2>0, <2>6 DEF Rotates, SameRow, SameAp, Hops, Luggage
  <2>7. CASE Pushes(w, u)
    BY <1>1, <1>a, <2>0, <2>a, <2>7 DEF Pushes, SameRow, Hops, Luggage
  <2> QED BY <1>3, <2>1, <2>2, <2>3, <2>4, <2>5, <2>6, <2>7 DEF WorkerStep
<1>4. CASE \E w \in Replicas : WorkerStep(w, u)
  BY <1>3, <1>4 DEF Delivered, At
<1> QED BY <1>2, <1>4 DEF RowStep

DeliveryInv == OrderInv /\ \A u \in Tokens : Finalized(u) /\ Rotatable(u) /\ Delivered(u)

\* A connection AP holds stale is found again, for any replicas and rows, when
\* the database and the process do not fail between the rotation and the flag:
\* whatever Redis, the provider and AP refuse, and whatever leases lapse.
THEOREM StaleIsFound ==
    ASSUME Uninterrupted PROVE Spec => []StaleIsPending
<1>0. "lock_lapse" \notin Faults
  BY DEF Uninterrupted
<1>1. Init => DeliveryInv
  <2> SUFFICES ASSUME Init PROVE DeliveryInv
    OBVIOUS
  <2>1. \A u \in Tokens : Finalized(u) /\ Rotatable(u) /\ Delivered(u)
    BY AbsentFields DEF Init, Finalized, Rotatable, Rotating, Delivered, At, IdleTask
  <2> QED BY <2>1, InitOrderInv DEF DeliveryInv
<1>2. DeliveryInv /\ [Next]_vars => DeliveryInv'
  <2> SUFFICES ASSUME DeliveryInv, [Next]_vars PROVE DeliveryInv'
    OBVIOUS
  <2>1. OrderInv'
    BY <1>0, NextOrderInv DEF DeliveryInv
  <2>2. ASSUME NEW u \in Tokens PROVE Finalized(u)' /\ Rotatable(u)' /\ Delivered(u)'
    <3>1. /\ TypeOK /\ TypeOK' /\ RowStep(u) /\ Alone(u) /\ Life(u) /\ Ordered(u)
          /\ Finalized(u) /\ Rotatable(u) /\ Delivered(u)
      BY <2>1, NextRowSteps, SingleFlightAlone DEF DeliveryInv, OrderInv
    <3> QED BY <3>1, FinalizedStep, RotatableStep, DeliveredStep
  <2> QED BY <2>1, <2>2 DEF DeliveryInv
<1>3. DeliveryInv => StaleIsPending
  BY DEF DeliveryInv, Delivered, StaleIsPending, Quiet, At
<1> QED BY <1>1, <1>2, <1>3, PTL DEF Spec

-----------------------------------------------------------------------------
(* The vault holds the refresh token the provider honours.                 *)

\* Every rotation the provider makes is heard of and written down.
Heard == Faults \cap {"lock_lapse", "lost_reply", "db", "crash", "shutdown"} = {}

LEMMA HeldStep ==
    ASSUME NEW u \in Tokens, Heard, TypeOK, TypeOK', Alone(u), Life(u), Held(u), RowStep(u)
    PROVE  Held(u)'
<1> DEFINE Brought(k) == IF k.given = NoToken THEN k.refresh ELSE k.given
           Goal == /\ \A v \in Replicas : task'[v][u].pc = "store" =>
                         grant'[u].refresh = Brought(task'[v][u])
                   /\ rows'[u].refresh # NoToken =>
                         \/ rows'[u].refresh = grant'[u].refresh
                         \/ \E v \in Replicas : task'[v][u].pc = "store"
<1>0. /\ ~Present(rows[u]) => rows[u] = AbsentRow
      /\ grant[u].state = "none" => grant[u].refresh = 0 /\ \A v \in Replicas : task[v][u].pc = "idle"
  BY DEF Life, At
<1>1. /\ \A v \in Replicas : task[v][u].pc = "store" => grant[u].refresh = Brought(task[v][u])
      /\ rows[u].refresh # NoToken =>
            \/ rows[u].refresh = grant[u].refresh
            \/ \E v \in Replicas : task[v][u].pc = "store"
  BY DEF Held, At
<1>2. CASE WorldStep(u)
  <2>1. \A v \in Replicas : /\ task'[v][u].pc = task[v][u].pc
                            /\ task'[v][u].refresh = task[v][u].refresh
                            /\ task'[v][u].given = task[v][u].given
    BY <1>2 DEF WorldStep, Waits, Hops, Luggage
  <2>2. Goal
    BY <1>0, <1>1, <1>2, <2>1, AbsentFields
       DEF WorldStep, SameRow, SameGrant, Timed, Marked, Contents
  <2> QED BY <2>2 DEF Held, At
<1>3. ASSUME NEW w \in Replicas, WorkerStep(w, u) PROVE Goal
  <2>0. \A v \in Replicas \ {w} : /\ task'[v][u].pc = task[v][u].pc
                                  /\ task'[v][u].refresh = task[v][u].refresh
                                  /\ task'[v][u].given = task[v][u].given
    BY <1>3 DEF WorkerStep, Waits, Hops, Luggage
  <2>a. \A v \in Replicas \ {w} :
          task[w][u].pc \in {"call", "store"} => task[v][u].pc # "store"
    BY DEF Alone, Critical
  <2>1. CASE Passes(w, u)
    BY <1>1, <2>0, <2>1 DEF Passes, SameRow, SameGrant, Hops, Luggage
  <2>2. CASE Breaks(w, u)
    BY <2>2 DEF Breaks, Heard
  <2>3. CASE Begins(w, u) \/ Ends(w, u) \/ Loads(w, u)
    BY <1>1, <2>0, <2>3 DEF Begins, Ends, Loads, SameRow, SameGrant
  <2>4. CASE Writes(w, u)
    <3>1. CASE task[w][u].pc = "store"
      BY <1>0, <1>1, <2>0, <2>a, <2>4, <3>1, AbsentFields
         DEF Writes, Written, Rotated, SameRow, SameGrant, Hops
    <3>2. CASE task[w][u].pc # "store"
      BY <1>1, <2>0, <2>4, <3>2
         DEF Writes, Written, Timed, Marked, Flagged, Contents, SameRow, SameGrant, Hops, Luggage
    <3> QED BY <3>1, <3>2
  <2>5. CASE Rotates(w, u)
    <3>1. grant'[u].refresh # NoToken
      BY RowTypes, NamesAssumption, TypeOKUnfolded DEF Grant, TypeOK
    <3>2. task[w][u].refresh = grant[u].refresh /\ task[w][u].pc = "call"
      BY <2>5 DEF Rotates, Honours
    <3>3. /\ task'[w][u].pc = "store" /\ task'[w][u].refresh = grant[u].refresh
          /\ task'[w][u].given = IF grant'[u].refresh = grant[u].refresh THEN NoToken
                                 ELSE grant'[u].refresh
      BY <2>5, <3>2 DEF Rotates, Heard
    <3>4. grant'[u].refresh = Brought(task'[w][u])
      BY <3>1, <3>3
    <3> QED BY <1>1, <2>0, <2>a, <3>2, <3>3, <3>4
  <2>6. CASE Pushes(w, u)
    BY <1>1, <2>0, <2>6 DEF Pushes, SameRow, SameGrant, Hops, Luggage
  <2> QED BY <1>3, <2>1, <2>2, <2>3, <2>4, <2>5, <2>6 DEF WorkerStep
<1>4. CASE \E w \in Replicas : WorkerStep(w, u)
  BY <1>3, <1>4 DEF Held, At
<1> QED BY <1>2, <1>4 DEF RowStep

GrantInv == OrderInv /\ \A u \in Tokens : Held(u)

LEMMA InitGrantInv == Init => GrantInv
<1>1. Init => \A u \in Tokens : Held(u)
  BY AbsentFields DEF Init, Held, At, IdleTask
<1> QED BY <1>1, InitOrderInv DEF GrantInv

LEMMA NextGrantInv ==
    ASSUME Heard, GrantInv, [Next]_vars PROVE GrantInv'
<1>1. "lock_lapse" \notin Faults
  BY DEF Heard
<1>2. OrderInv'
  BY <1>1, NextOrderInv DEF GrantInv
<1>3. ASSUME NEW u \in Tokens PROVE Held(u)'
  <2>1. TypeOK /\ TypeOK' /\ RowStep(u) /\ Alone(u) /\ Life(u) /\ Held(u)
    BY <1>2, NextRowSteps, SingleFlightAlone DEF GrantInv, OrderInv
  <2> QED BY <2>1, HeldStep
<1> QED BY <1>2, <1>3 DEF GrantInv

\* As long as every rotation is heard of and written down, no refresh token
\* is lost, however tasks of several replicas overlap on a row and whether or
\* not the provider rotates the token.
THEOREM NoGrantLost ==
    ASSUME Heard PROVE Spec => []RowHoldsLiveGrant
<1>1. GrantInv /\ [Next]_vars => GrantInv'
  BY NextGrantInv
<1>2. GrantInv => RowHoldsLiveGrant
  BY DEF GrantInv, Held, RowHoldsLiveGrant, At
<1> QED BY <1>1, <1>2, InitGrantInv, PTL DEF Spec

-----------------------------------------------------------------------------
(* The worker revokes nobody.                                              *)

\* Furthermore a task ends within its lease.
Prompt == Heard /\ "lease_lapse" \notin Faults

LEMMA LeasedStep ==
    ASSUME NEW u \in Tokens, Prompt, Leased(u), RowStep(u)
    PROVE  Leased(u)'
<1>0. \A v \in Replicas : task[v][u].pc # "idle" => lease[u] = v
  BY DEF Leased, At
<1>1. CASE WorldStep(u)
  <2>1. \A v \in Replicas : task'[v][u].pc = task[v][u].pc
    BY <1>1 DEF WorldStep, Waits, Hops
  <2>2. \A v \in Replicas : task'[v][u].pc # "idle" => lease'[u] = v
    BY <1>0, <1>1, <2>1 DEF WorldStep, SameLease, Prompt
  <2> QED BY <2>2 DEF Leased, At
<1>2. ASSUME NEW w \in Replicas, WorkerStep(w, u)
      PROVE  \A v \in Replicas : task'[v][u].pc # "idle" => lease'[u] = v
  <2>0. \A v \in Replicas \ {w} : task'[v][u].pc = task[v][u].pc
    BY <1>2 DEF WorkerStep, Waits, Hops
  <2>1. CASE Begins(w, u)
    BY <1>0, <2>0, <2>1, NamesAssumption DEF Begins
  <2>2. CASE Ends(w, u)
    BY <1>0, <2>0, <2>2 DEF Ends, SameLease
  <2>3. CASE Breaks(w, u)
    BY <2>3 DEF Breaks, Prompt, Heard
  <2>4. CASE Passes(w, u) \/ Loads(w, u) \/ Writes(w, u) \/ Rotates(w, u) \/ Pushes(w, u)
    <3>1. task[w][u].pc # "idle" /\ lease'[u] = lease[u]
      BY <2>4 DEF Passes, Loads, Writes, Rotates, Pushes, SameLease
    <3> QED BY <1>0, <2>0, <3>1
  <2> QED BY <1>2, <2>1, <2>2, <2>3, <2>4 DEF WorkerStep
<1>3. CASE \E w \in Replicas : WorkerStep(w, u)
  BY <1>2, <1>3 DEF Leased, At
<1> QED BY <1>1, <1>3 DEF RowStep

LEMMA HonestStep ==
    ASSUME NEW u \in Tokens, Prompt, TypeOK, TypeOK', Life(u), Held(u), Leased(u), Honest(u),
           RowStep(u)
    PROVE  Honest(u)'
<1> DEFINE Goal == \A v \in Replicas :
                     /\ task'[v][u].pc \in {"lock", "call"} => task'[v][u].refresh = grant'[u].refresh
                     /\ task'[v][u].pc = "revoke" => grant'[u].state = "revoked"
<1>0. grant[u].state = "none" => \A v \in Replicas : task[v][u].pc = "idle"
  BY DEF Life, At
<1>1. \A v \in Replicas :
        /\ task[v][u].pc \in {"lock", "call"} => task[v][u].refresh = grant[u].refresh
        /\ task[v][u].pc = "revoke" => grant[u].state = "revoked"
  BY DEF Honest, At
<1>2. CASE WorldStep(u)
  <2>1. \A v \in Replicas : /\ task'[v][u].pc = task[v][u].pc
                            /\ task'[v][u].refresh = task[v][u].refresh
    BY <1>2 DEF WorldStep, Waits, Hops, Luggage
  <2>2. Goal
    BY <1>0, <1>1, <1>2, <2>1 DEF WorldStep, SameGrant
  <2> QED BY <2>2 DEF Honest, At
<1>3. ASSUME NEW w \in Replicas, WorkerStep(w, u) PROVE Goal
  <2>0. \A v \in Replicas \ {w} : /\ task'[v][u].pc = task[v][u].pc
                                  /\ task'[v][u].refresh = task[v][u].refresh
    BY <1>3 DEF WorkerStep, Waits, Hops, Luggage
  <2>a. task[w][u].pc # "idle" => \A v \in Replicas \ {w} : task[v][u].pc = "idle"
    BY DEF Leased, At
  <2>1. CASE Passes(w, u)
    <3>1. grant[u].state \in {"none", "live", "revoked"}
      BY RowTypes DEF Grant
    <3> QED BY <1>0, <1>1, <2>0, <2>1, <3>1 DEF Passes, SameGrant, Hops, Luggage, Honours
  <2>2. CASE Breaks(w, u)
    BY <2>2 DEF Breaks, Prompt, Heard
  <2>3. CASE Begins(w, u) \/ Ends(w, u)
    BY <1>1, <2>0, <2>3 DEF Begins, Ends, SameGrant
  <2>4. CASE Loads(w, u)
    <3>1. task[w][u].pc = "load" => \A v \in Replicas : task[v][u].pc # "store"
      BY <2>a
    <3>2. task[w][u].pc = "load" /\ rows[u].refresh # NoToken => rows[u].refresh = grant[u].refresh
      BY <3>1 DEF Held, At
    <3> QED BY <1>1, <2>0, <2>4, <3>2 DEF Loads, SameGrant
  <2>5. CASE Writes(w, u) \/ Pushes(w, u)
    BY <1>1, <2>0, <2>5 DEF Writes, Pushes, SameGrant, Hops, Luggage
  <2>6. CASE Rotates(w, u)
    BY <2>0, <2>a, <2>6 DEF Rotates, Hops
  <2> QED BY <1>3, <2>1, <2>2, <2>3, <2>4, <2>5, <2>6 DEF WorkerStep
<1>4. CASE \E w \in Replicas : WorkerStep(w, u)
  BY <1>3, <1>4 DEF Honest, At
<1> QED BY <1>2, <1>4 DEF RowStep

\* The rows keep their unique key when none changes its status or account.
Settled(u) ==
    \/ rows'[u].status = rows[u].status /\ rows'[u].account = rows[u].account
    \/ ~Present(rows[u])'

LEMMA SettledUnique ==
    ASSUME rows \in [Tokens -> Row], rows' \in [Tokens -> Row], UniqueKeyHolds(rows),
           \A u \in Tokens : Settled(u)
    PROVE  UniqueKeyHolds(rows)'
BY DEF UniqueKeyHolds, Clash, Settled, Present

LEMMA SettledWrite ==
    ASSUME rows \in [Tokens -> Row], NEW t \in Tokens, NEW row,
           Update(t, row) \/ rows' = [rows EXCEPT ![t] = row],
           \/ row.status = rows[t].status /\ row.account = rows[t].account
           \/ row.status = "absent"
    PROVE  \A u \in Tokens : Settled(u)
BY DEF Update, Settled, Present

LEMMA TaskUnique ==
    ASSUME TypeOK, TypeOK', UniqueKeyHolds(rows), NEW w \in Replicas, NEW t \in Tokens,
           TaskStep(w, t)
    PROVE  UniqueKeyHolds(rows)'
<1> DEFINE r == rows[t]
           k == task[w][t]
<1>0. /\ rows \in [Tokens -> Row] /\ rows' \in [Tokens -> Row] /\ r \in Row /\ k \in Task
  BY TypeOKUnfolded DEF TypeOK, Row
<1>1. CASE rows' = rows
  BY <1>1
<1>2. CASE MarkStatus(w, t)
  BY <1>2 DEF MarkStatus
<1>3. CASE Defer(w, t)
  <2> DEFINE n == [r EXCEPT !.when = "never"]
  <2>1. Update(t, n) /\ n.status = r.status /\ n.account = r.account
    BY <1>0, <1>3, RowWrites DEF Defer
  <2> HIDE DEF n
  <2> QED BY <1>0, <2>1, SettledWrite, SettledUnique
<1>4. CASE StoreRotation(w, t)
  <2> DEFINE n == [r EXCEPT !.access = k.access,
                            !.refresh = IF k.given = NoToken THEN k.refresh ELSE k.given,
                            !.readable = k.given # NoToken,
                            !.when = IF k.lasts THEN "later" ELSE "never"]
  <2>1. Update(t, n)
    BY <1>4 DEF StoreRotation
  <2>2. n.status = r.status /\ n.account = r.account
    BY <1>0, RowWrites
  <2> HIDE DEF n
  <2> QED BY <1>0, <2>1, <2>2, SettledWrite, SettledUnique
<1>5. CASE WriteFlag(w, t)
  <2> DEFINE n == [r EXCEPT !.pending = ~k.synced]
  <2>1. Update(t, n) /\ n.status = r.status /\ n.account = r.account
    BY <1>0, <1>5, RowWrites DEF WriteFlag
  <2> HIDE DEF n
  <2> QED BY <1>0, <2>1, SettledWrite, SettledUnique
<1>6. CASE ClearFlag(w, t)
  <2> DEFINE n == [r EXCEPT !.pending = FALSE]
  <2>1. Update(t, n) /\ n.status = r.status /\ n.account = r.account
    BY <1>0, <1>6, RowWrites DEF ClearFlag
  <2> HIDE DEF n
  <2> QED BY <1>0, <2>1, SettledWrite, SettledUnique
<1> QED
  BY <1>1, <1>2, <1>3, <1>4, <1>5, <1>6
     DEF TaskStep, LoadRow, AcquireLock, RedisFails, DecryptFails, CallProvider, CallFails,
         PushToAP, PushFails, LoadPending, RetryPush, RetryPushFails, DbFails, Unlock, ReleaseLease

LEMMA NextUnique ==
    ASSUME TypeOK, TypeOK', UniqueKeyHolds(rows), [Next]_vars PROVE UniqueKeyHolds(rows)'
<1>0. /\ rows \in [Tokens -> Row] /\ rows' \in [Tokens -> Row]
      /\ \A t \in Tokens : rows[t] \in Row
  BY TypeOKUnfolded DEF TypeOK, Row
<1>1. CASE rows' = rows
  BY <1>1
<1>2. ASSUME NEW t \in Tokens, BecomesDue(t) PROVE UniqueKeyHolds(rows)'
  <2> DEFINE n == [rows[t] EXCEPT !.when = "due"]
  <2>1. rows' = [rows EXCEPT ![t] = n] /\ n.status = rows[t].status /\ n.account = rows[t].account
    BY <1>0, <1>2 DEF BecomesDue, Row
  <2> HIDE DEF n
  <2> QED BY <1>0, <2>1, SettledWrite, SettledUnique
<1>3. ASSUME NEW t \in Tokens, Finalize(t) PROVE UniqueKeyHolds(rows)'
  <2> DEFINE n == [rows[t] EXCEPT !.linked = TRUE]
  <2>1. rows' = [rows EXCEPT ![t] = n] /\ n.status = rows[t].status /\ n.account = rows[t].account
    BY <1>0, <1>3 DEF Finalize, Row
  <2> HIDE DEF n
  <2> QED BY <1>0, <2>1, SettledWrite, SettledUnique
<1>4. ASSUME NEW t \in Tokens, Compensate(t) PROVE UniqueKeyHolds(rows)'
  BY <1>0, <1>4, AbsentFields, SettledWrite, SettledUnique DEF Compensate
<1>5. ASSUME NEW t \in Tokens, Connect(t) \/ Webhook(t) PROVE UniqueKeyHolds(rows)'
  BY <1>5 DEF Connect, Webhook
<1> QED
  BY <1>1, <1>2, <1>3, <1>4, <1>5, TaskUnique
     DEF Next, vars, Others, Claim, Crash, Shutdown, LeaseExpires, LockExpires, UserRevokes

\* A row that stays REVOKED keeps its account, and the grants of others remain.
LEMMA AccountStep ==
    ASSUME NEW u \in Tokens, RowStep(u)
    PROVE  /\ rows[u].status = "REVOKED" /\ rows'[u].status = "REVOKED" =>
                 rows'[u].account = rows[u].account
           /\ grant[u].state # "none" =>
                 grant'[u].state # "none" /\ rows'[u].account \in {rows[u].account, NoAccount}
           /\ grant[u].state = "revoked" => grant'[u].state = "revoked"
<1>1. CASE WorldStep(u)
  BY <1>1, AbsentFields DEF WorldStep, SameRow, SameGrant, Timed, Marked, Identity
<1>2. ASSUME NEW w \in Replicas, WorkerStep(w, u)
      PROVE  rows'[u].account = rows[u].account /\ grant'[u].state = grant[u].state
  <2>1. CASE Writes(w, u)
    BY <2>1 DEF Writes, Written, SameRow, SameGrant, Timed, Marked, Flagged, Rotated, Identity
  <2>2. CASE Rotates(w, u)
    BY <2>2 DEF Rotates, SameRow
  <2> QED BY <1>2, <2>1, <2>2
      DEF WorkerStep, Passes, Breaks, Begins, Ends, Loads, Pushes, SameRow, SameGrant
<1> QED BY <1>1, <1>2 DEF RowStep

LEMMA ReconnectedStays ==
    ASSUME NEW t \in Tokens, \A u \in Tokens : RowStep(u), Reconnected(t),
           rows[t].status = "REVOKED", rows'[t].status = "REVOKED"
    PROVE  Reconnected(t)'
BY AccountStep DEF Reconnected

RevocationInv ==
    /\ GrantInv
    /\ \A u \in Tokens : Leased(u) /\ Honest(u)
    /\ UniqueKeyHolds(rows)
    /\ RevokedMeansUserRevoked

LEMMA NextRevocationInv ==
    ASSUME Prompt, RevocationInv, [Next]_vars PROVE RevocationInv'
<1>0. GrantInv' /\ TypeOK /\ TypeOK' /\ \A u \in Tokens : RowStep(u)
  BY NextGrantInv, NextTypeOK, NextRowSteps DEF Prompt, RevocationInv, GrantInv, OrderInv
<1>1. \A u \in Tokens : Leased(u)' /\ Honest(u)'
  BY <1>0, LeasedStep, HonestStep DEF RevocationInv, GrantInv, OrderInv
<1>2. UniqueKeyHolds(rows)'
  BY <1>0, NextUnique DEF RevocationInv
<1>3. ASSUME NEW t \in Tokens, rows[t].status = "REVOKED", rows'[t].status = "REVOKED"
      PROVE  grant'[t].state = "revoked" \/ Reconnected(t)'
  BY <1>0, <1>3, AccountStep, ReconnectedStays DEF RevocationInv, RevokedMeansUserRevoked
<1>4. ASSUME NEW t \in Tokens, rows[t].status # "REVOKED", rows'[t].status = "REVOKED"
      PROVE  grant'[t].state = "revoked" \/ Reconnected(t)'
  <2>1. CASE \A u \in Tokens : OwnStep(u)
    <3>1. PICK w \in Replicas : WorkerStep(w, t)
      BY <1>4, <2>1 DEF OwnStep
    <3>2. Writes(w, t)
      BY <1>4, <3>1
         DEF WorkerStep, Passes, Breaks, Begins, Ends, Loads, Rotates, Pushes, SameRow
    <3>3. task[w][t].pc = "revoke" /\ SameGrant(t)
      BY <1>4, <3>2 DEF Writes, Written, SameRow, Timed, Marked, Flagged, Rotated, Identity
    <3> QED BY <3>3 DEF RevocationInv, Honest, At, SameGrant
  <2>2. ASSUME NEW x \in Tokens, Connect(x)
        PROVE  grant'[t].state = "revoked" \/ Reconnected(t)'
    <3>1. PICK a \in Accounts \cup {NoAccount} :
            /\ rows'[x].status = "ACTIVE" /\ rows'[x].account = a
            /\ \A u \in Tokens \ {x} :
                  SameRow(u) \/ (Marked(u, "REVOKED") /\ rows[u].account = a)
      BY <1>0, <2>2, ConnectSteps
    <3>2. grant'[x].state = "live"
      BY <1>0, <2>2, ConnectSteps
    <3>3. t # x /\ rows'[t].account = a
      BY <1>4, <3>1 DEF SameRow, Marked
    <3> QED BY <3>1, <3>2, <3>3 DEF Reconnected
  <2>3. ASSUME NEW x \in Tokens, Webhook(x)
        PROVE  grant'[t].state = "revoked" \/ Reconnected(t)'
    <3>1. /\ rows[t].status = "ACTIVE"
          /\ rows[t].account = rows[x].account /\ rows[t].account # NoAccount
      BY <1>0, <1>4, <2>3, WebhookSteps DEF SameRow
    <3>2. grant[x].state = "revoked" /\ rows[x].status = "ACTIVE" /\ grant' = grant
      BY <1>0, <2>3, WebhookSteps
    <3>3. rows \in [Tokens -> Row]
      BY <1>0, TypeOKUnfolded
    <3>4. t = x
      BY <3>1, <3>2, <3>3 DEF RevocationInv, UniqueKeyHolds, Clash, Present
    <3> QED BY <3>2, <3>4
  <2> QED BY <1>0, <2>1, <2>2, <2>3, NextOwnSteps
<1>5. RevokedMeansUserRevoked'
  BY <1>3, <1>4 DEF RevokedMeansUserRevoked
<1> QED BY <1>0, <1>1, <1>2, <1>5 DEF RevocationInv

\* The worker discards no credential that works: a row is REVOKED because the
\* user revoked the grant or connected the account again, as long as every
\* rotation is heard of and written down and a task ends within its lease.
THEOREM OnlyUsersRevoke ==
    ASSUME Prompt PROVE Spec => []RevokedMeansUserRevoked
<1>1. Init => RevocationInv
  <2> SUFFICES ASSUME Init PROVE RevocationInv
    OBVIOUS
  <2>1. \A u \in Tokens : Leased(u) /\ Honest(u)
    BY DEF Init, Leased, Honest, At, IdleTask
  <2>2. UniqueKeyHolds(rows) /\ RevokedMeansUserRevoked
    BY AbsentFields DEF Init, UniqueKeyHolds, Clash, Present, RevokedMeansUserRevoked
  <2> QED BY <2>1, <2>2, InitGrantInv DEF RevocationInv
<1>2. RevocationInv /\ [Next]_vars => RevocationInv'
  BY NextRevocationInv
<1>3. RevocationInv => RevokedMeansUserRevoked
  BY DEF RevocationInv
<1> QED BY <1>1, <1>2, <1>3, PTL DEF Spec
=============================================================================
