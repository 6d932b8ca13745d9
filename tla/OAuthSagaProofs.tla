--------------------------- MODULE OAuthSagaProofs ---------------------------
(***************************************************************************)
(* Proofs about OAuthSaga for every set of sagas, deliveries, accounts and *)
(* teams and every choice of faults.  The argument: the nonce is taken     *)
(* once, so a saga has one owner (SingleOwner); what an owner has done is  *)
(* written in its position (Positions) and in its saga row (Outcomes), and *)
(* no other delivery can undo more than the status column.                 *)
(* The last two parts are about the unique constraint of the token table   *)
(* and about sagas that are delivered once.                                *)
(***************************************************************************)
EXTENDS OAuthSaga, TLAPS

SagaRow == [status : SagaStatus, token : Callbacks \cup {None}]
TokenRow == [status : RowStatus, account : Accounts \cup {NoAccount},
             ext : Sagas \cup {None}]
Handler == [pc : CallbackPC, saga : Sagas \cup {None},
            account : Accounts \cup {NoAccount}, found : SUBSET Callbacks]

\* The revoking UPDATE touches the status of rows only, and never turns a
\* stored row into an absent one or back.
LEMMA RevokeActiveFacts ==
    ASSUME rows \in [Callbacks -> TokenRow], NEW A
    PROVE  /\ RevokeActive(rows, A) \in [Callbacks -> TokenRow]
           /\ \A c \in Callbacks :
                 /\ RevokeActive(rows, A)[c].account = rows[c].account
                 /\ RevokeActive(rows, A)[c].ext = rows[c].ext
                 /\ Present(RevokeActive(rows, A)[c]) <=> Present(rows[c])
BY DEF RevokeActive, Present, TokenRow, RowStatus

\* So does the UPDATE of _persist_tokens, whatever rows it has found.
LEMMA SupersededFacts ==
    ASSUME rows \in [Callbacks -> TokenRow], NEW found
    PROVE  /\ Superseded(found) \in [Callbacks -> TokenRow]
           /\ \A c \in Callbacks :
                 /\ Superseded(found)[c].account = rows[c].account
                 /\ Superseded(found)[c].ext = rows[c].ext
                 /\ Present(Superseded(found)[c]) <=> Present(rows[c])
BY DEF Superseded, Present, TokenRow, RowStatus

\* What _persist_tokens leaves in the vault: its own row, unlinked, and the
\* others as they were but for their status.
LEMMA PersistedRowsFacts ==
    ASSUME TypeOK, NEW c \in Callbacks
    PROVE  /\ PersistedRows(c) \in [Callbacks -> TokenRow]
           /\ PersistedRows(c)[c] = [status |-> "ACTIVE",
                                     account |-> cb[c].account, ext |-> None]
           /\ \A d \in Callbacks \ {c} :
                 /\ PersistedRows(c)[d].ext = rows[d].ext
                 /\ Present(PersistedRows(c)[d]) <=> Present(rows[d])
<1> DEFINE r == Superseded(cb[c].found)
           new == [status |-> "ACTIVE", account |-> cb[c].account, ext |-> None]
<1>1. rows \in [Callbacks -> TokenRow] /\ cb[c] \in Handler
  BY DEF TypeOK, TokenRow, Handler
<1>2. /\ r \in [Callbacks -> TokenRow]
      /\ \A d \in Callbacks : /\ r[d].ext = rows[d].ext
                              /\ Present(r[d]) <=> Present(rows[d])
  BY <1>1, SupersededFacts
<1>3. new \in TokenRow
  BY <1>1 DEF TokenRow, RowStatus, Handler
<1>4. PersistedRows(c) = [r EXCEPT ![c] = new]
  BY DEF PersistedRows
<1> HIDE DEF r, new
<1>5. PersistedRows(c) \in [Callbacks -> TokenRow] /\ PersistedRows(c)[c] = new
  BY <1>2, <1>3, <1>4
<1>6. \A d \in Callbacks \ {c} : PersistedRows(c)[d] = r[d]
  BY <1>2, <1>4
<1>7. QED
  BY <1>2, <1>5, <1>6 DEF new

-----------------------------------------------------------------------------
(***************************************************************************)
(* Type correctness                                                        *)
(***************************************************************************)

LEMMA InitTypeOK == Init => TypeOK
BY DEF Init, TypeOK, SagaStatus, RowStatus, InitPC, CallbackPC, BusyPC, OwnerPC,
       AbsentRow, IdleCallback

LEMMA InitiateTypeOK ==
    ASSUME TypeOK, NEW s \in Sagas, InitiateStep(s) \/ Passing(s)
    PROVE  TypeOK'
<1> USE DEF TypeOK, SagaStatus, InitPC, InitGoto
<1>1. CASE InsertSaga(s) BY <1>1 DEF InsertSaga
<1>2. CASE RegisterNonce(s) BY <1>2 DEF RegisterNonce
<1>3. CASE RegisterFails(s) BY <1>3 DEF RegisterFails
<1>4. CASE DeleteSaga(s) BY <1>4 DEF DeleteSaga
<1>5. CASE CrashInitiate(s) BY <1>5 DEF CrashInitiate
<1>6. CASE StateExpires(s) BY <1>6 DEF StateExpires
<1>7. CASE NonceExpires(s) BY <1>7 DEF NonceExpires
<1>8. QED
  BY <1>1, <1>2, <1>3, <1>4, <1>5, <1>6, <1>7 DEF InitiateStep, Passing

LEMMA DeliverTypeOK ==
    ASSUME TypeOK, NEW c \in Callbacks, NEW s \in Sagas,
           DeliverCode(c, s) \/ DeliverError(c, s)
    PROVE  TypeOK'
<1> USE DEF TypeOK, CallbackPC, BusyPC, OwnerPC
<1>1. CASE DeliverCode(c, s) BY <1>1 DEF DeliverCode
<1>2. CASE DeliverError(c, s) BY <1>2 DEF DeliverError
<1>3. QED
  BY <1>1, <1>2

LEMMA GotoType ==
    ASSUME cb \in [Callbacks -> Handler], NEW c \in Callbacks,
           NEW label \in CallbackPC, Goto(c, label)
    PROVE  cb' \in [Callbacks -> Handler]
<1>1. cb[c] \in Handler
  OBVIOUS
<1>2. [cb[c] EXCEPT !.pc = label, !.found = {}] \in Handler
  BY <1>1 DEF Handler
<1>3. cb' = [cb EXCEPT ![c] = [cb[c] EXCEPT !.pc = label, !.found = {}]]
  BY DEF Goto
<1>4. QED
  BY <1>2, <1>3

LEMMA SagaType ==
    ASSUME sagas \in [Sagas -> SagaRow], NEW s \in Sagas, NEW new \in SagaRow,
           sagas' = [sagas EXCEPT ![s] = new]
    PROVE  sagas' \in [Sagas -> SagaRow]
OBVIOUS

LEMMA RowType ==
    ASSUME rows \in [Callbacks -> TokenRow], NEW c \in Callbacks, NEW new \in TokenRow,
           rows' = [rows EXCEPT ![c] = new]
    PROVE  rows' \in [Callbacks -> TokenRow]
OBVIOUS

\* The type invariant with its records named.
LEMMA Types ==
    TypeOK <=> /\ sagas \in [Sagas -> SagaRow]
               /\ rows \in [Callbacks -> TokenRow]
               /\ nonces \subseteq Sagas
               /\ expired \subseteq Sagas
               /\ conns \subseteq Sagas
               /\ exchanged \subseteq Callbacks
               /\ init \in [Sagas -> InitPC]
               /\ cb \in [Callbacks -> Handler]
BY DEF TypeOK, SagaRow, TokenRow, Handler

LEMMA TypesNext ==
    ASSUME sagas' \in [Sagas -> SagaRow], rows' \in [Callbacks -> TokenRow],
           nonces' \subseteq Sagas, expired' \subseteq Sagas, conns' \subseteq Sagas,
           exchanged' \subseteq Callbacks, init' \in [Sagas -> InitPC],
           cb' \in [Callbacks -> Handler]
    PROVE  TypeOK'
BY DEF TypeOK, SagaRow, TokenRow, Handler

\* Entered is needed for the AP connections, which are named by sagas.
LEMMA CallbackTypeOK ==
    ASSUME TypeOK, Entered, NEW c \in Callbacks, CallbackStep(c) \/ CrashCallback(c)
    PROVE  TypeOK'
<1>a. /\ sagas \in [Sagas -> SagaRow]
      /\ rows \in [Callbacks -> TokenRow]
      /\ nonces \subseteq Sagas
      /\ expired \subseteq Sagas
      /\ conns \subseteq Sagas
      /\ exchanged \subseteq Callbacks
      /\ init \in [Sagas -> InitPC]
      /\ cb \in [Callbacks -> Handler]
  BY Types
<1>b. cb[c].pc # "idle" => cb[c].saga \in Sagas
  BY DEF Entered
<1>c. {"exchange", "fail", "done", "link", "finalize", "unlink", "compensate"} \subseteq CallbackPC
  BY DEF CallbackPC, BusyPC, OwnerPC
<1>1. CASE ConsumeNonce(c)
  <2>1. cb' \in [Callbacks -> Handler]
    BY <1>a, <1>c, <1>1, GotoType DEF ConsumeNonce
  <2>2. QED
    BY <1>a, <1>1, <2>1, TypesNext DEF ConsumeNonce
<1>2. CASE ConsumeFails(c) \/ PersistFails(c) \/ FinalizeFails(c) \/ CrashCallback(c)
  <2>1. cb' \in [Callbacks -> Handler]
    BY <1>a, <1>c, <1>2, GotoType DEF ConsumeFails, PersistFails, FinalizeFails, CrashCallback
  <2>2. UNCHANGED <<sagas, rows, nonces, expired, conns, exchanged, init>>
    BY <1>2 DEF ConsumeFails, PersistFails, FinalizeFails, CrashCallback
  <2>3. QED
    BY <1>a, <2>1, <2>2, TypesNext
<1>3. CASE ExchangeCode(c)
  <2>1. PICK a \in Accounts \cup {NoAccount} :
            cb' = [cb EXCEPT ![c].pc = "persist", ![c].account = a]
    BY <1>3 DEF ExchangeCode
  <2>2. cb[c] \in Handler /\ "persist" \in CallbackPC
    BY <1>a DEF CallbackPC, BusyPC, OwnerPC
  <2>3. [cb[c] EXCEPT !.pc = "persist", !.account = a] \in Handler
    BY <2>2 DEF Handler
  <2>4. cb' = [cb EXCEPT ![c] = [cb[c] EXCEPT !.pc = "persist", !.account = a]]
    BY <1>a, <2>1
  <2>5. cb' \in [Callbacks -> Handler]
    BY <1>a, <2>3, <2>4
  <2>6. QED
    BY <1>a, <1>3, <2>5, TypesNext DEF ExchangeCode
<1>3a. CASE RevokePredecessor(c)
  <2>1. cb[c] \in Handler /\ "insert" \in CallbackPC /\ FoundRows(c) \in SUBSET Callbacks
    BY <1>a DEF CallbackPC, BusyPC, OwnerPC, FoundRows
  <2>2. [cb[c] EXCEPT !.pc = "insert", !.found = FoundRows(c)] \in Handler
    BY <2>1 DEF Handler
  <2>3. cb' = [cb EXCEPT ![c] = [cb[c] EXCEPT !.pc = "insert", !.found = FoundRows(c)]]
    BY <1>a, <1>3a DEF RevokePredecessor
  <2>4. cb' \in [Callbacks -> Handler]
    BY <1>a, <2>2, <2>3
  <2>5. QED
    BY <1>a, <1>3a, <2>4, TypesNext DEF RevokePredecessor
<1>4. CASE ExchangeFails(c)
  <2>1. cb' \in [Callbacks -> Handler]
    BY <1>a, <1>c, <1>4, GotoType DEF ExchangeFails
  <2>2. QED
    BY <1>a, <1>4, <2>1, TypesNext DEF ExchangeFails
<1>5. CASE InsertToken(c)
  <2>1. cb' \in [Callbacks -> Handler]
    BY <1>a, <1>c, <1>5, GotoType DEF InsertToken
  <2>2. rows' \in [Callbacks -> TokenRow]
    BY <1>5, PersistedRowsFacts DEF InsertToken
  <2>3. [status |-> "TOKEN_OBTAINED", token |-> c] \in SagaRow
    BY DEF SagaRow, SagaStatus
  <2>4. sagas' \in [Sagas -> SagaRow]
    BY <1>a, <1>b, <1>5, <2>3, SagaType DEF InsertToken
  <2>5. QED
    BY <1>a, <1>5, <2>1, <2>2, <2>4, TypesNext DEF InsertToken
<1>6. CASE CreateConnection(c) \/ CreateConnectionFails(c) \/ Unlink(c)
  <2>1. cb' \in [Callbacks -> Handler]
    BY <1>a, <1>c, <1>6, GotoType DEF CreateConnection, CreateConnectionFails, Unlink
  <2>2. /\ conns' \subseteq Sagas
        /\ UNCHANGED <<sagas, rows, nonces, expired, exchanged, init>>
    BY <1>a, <1>b, <1>6 DEF CreateConnection, CreateConnectionFails, Unlink
  <2>3. QED
    BY <1>a, <2>1, <2>2, TypesNext
<1>7. CASE Finalize(c)
  <2>1. cb[c].saga \in Sagas
    BY <1>b, <1>7 DEF Finalize
  <2>2. [rows[c] EXCEPT !.ext = cb[c].saga] \in TokenRow
    BY <1>a, <2>1 DEF TokenRow
  <2>3. rows' = [rows EXCEPT ![c] = [rows[c] EXCEPT !.ext = cb[c].saga]]
    BY <1>7 DEF Finalize
  <2>4. rows' \in [Callbacks -> TokenRow]
    BY <1>a, <2>2, <2>3, RowType
  <2>5. sagas' \in [Sagas -> SagaRow]
    <3>1. [sagas[cb[c].saga] EXCEPT !.status = "COMPLETED"] \in SagaRow
      BY <1>a, <2>1 DEF SagaRow, SagaStatus
    <3>2. sagas' = [sagas EXCEPT ![cb[c].saga] =
                       [sagas[cb[c].saga] EXCEPT !.status = "COMPLETED"]]
      BY <1>7 DEF Finalize
    <3>3. QED
      BY <1>a, <2>1, <3>1, <3>2, SagaType
  <2>6. cb' \in [Callbacks -> Handler]
    BY <1>a, <1>c, <1>7, GotoType DEF Finalize
  <2>7. QED
    BY <1>a, <1>7, <2>4, <2>5, <2>6, TypesNext DEF Finalize
<1>8. CASE Compensate(c)
  <2>1. cb[c].saga \in Sagas
    BY <1>b, <1>8 DEF Compensate
  <2>2. AbsentRow \in TokenRow
    BY DEF AbsentRow, TokenRow, RowStatus
  <2>3. rows' \in [Callbacks -> TokenRow]
    BY <1>a, <1>8, <2>2, RowType DEF Compensate
  <2>4. [status |-> "COMPENSATED", token |-> None] \in SagaRow
    BY DEF SagaRow, SagaStatus
  <2>5. sagas' \in [Sagas -> SagaRow]
    BY <1>a, <1>8, <2>1, <2>4, SagaType DEF Compensate
  <2>6. cb' \in [Callbacks -> Handler]
    BY <1>a, <1>c, <1>8, GotoType DEF Compensate
  <2>7. QED
    BY <1>a, <1>8, <2>3, <2>5, <2>6, TypesNext DEF Compensate
<1>9. CASE MarkFailed(c)
  <2>1. cb[c].saga \in Sagas
    BY <1>b, <1>9 DEF MarkFailed
  <2>2. [sagas[cb[c].saga] EXCEPT !.status = "FAILED"] \in SagaRow
    BY <1>a, <2>1 DEF SagaRow, SagaStatus
  <2>3. sagas' = [sagas EXCEPT ![cb[c].saga] =
                     [sagas[cb[c].saga] EXCEPT !.status = "FAILED"]]
    BY <1>9 DEF MarkFailed
  <2>4. sagas' \in [Sagas -> SagaRow]
    BY <1>a, <2>1, <2>2, <2>3, SagaType
  <2>5. cb' \in [Callbacks -> Handler]
    BY <1>a, <1>c, <1>9, GotoType DEF MarkFailed
  <2>6. QED
    BY <1>a, <1>9, <2>4, <2>5, TypesNext DEF MarkFailed
<1>10. QED
  BY <1>1, <1>2, <1>3, <1>3a, <1>4, <1>5, <1>6, <1>7, <1>8, <1>9 DEF CallbackStep

LEMMA RevokeTypeOK ==
    ASSUME TypeOK, NEW team \in Teams, RevokeTeam(team)
    PROVE  TypeOK'
BY RevokeActiveFacts DEF RevokeTeam, TypeOK, TokenRow

-----------------------------------------------------------------------------
(***************************************************************************)
(* The inductive invariant, one lemma per group of actions                 *)
(***************************************************************************)

LEMMA InitIInv == Init => IInv
BY NamesAssumption DEF Init, IInv, Entered, SingleOwner, Owns, Positions, Outcomes,
       RowsAreReachable, Present, AbsentRow, IdleCallback, OwnerPC

LEMMA InitiateIInv ==
    ASSUME TypeOK, IInv, NEW s \in Sagas, InitiateStep(s) \/ Passing(s)
    PROVE  IInv'
<1> USE DEF TypeOK, InitGoto, IInv, Entered, SingleOwner, Owns, Positions, Outcomes,
            RowsAreReachable
<1>1. CASE InsertSaga(s) BY <1>1 DEF InsertSaga
<1>2. CASE RegisterNonce(s) BY <1>2 DEF RegisterNonce
<1>3. CASE RegisterFails(s) BY <1>3 DEF RegisterFails
<1>4. CASE DeleteSaga(s) BY <1>4 DEF DeleteSaga
<1>5. CASE CrashInitiate(s) BY <1>5 DEF CrashInitiate
<1>6. CASE StateExpires(s) BY <1>6 DEF StateExpires
<1>7. CASE NonceExpires(s) BY <1>7 DEF NonceExpires
<1>8. QED
  BY <1>1, <1>2, <1>3, <1>4, <1>5, <1>6, <1>7 DEF InitiateStep, Passing

LEMMA DeliverIInv ==
    ASSUME TypeOK, IInv, NEW c \in Callbacks, NEW s \in Sagas,
           DeliverCode(c, s) \/ DeliverError(c, s)
    PROVE  IInv'
<1> USE DEF TypeOK, IInv, Entered, SingleOwner, Owns, Positions, Outcomes,
            RowsAreReachable, OwnerPC
<1>1. CASE DeliverCode(c, s) BY <1>1 DEF DeliverCode
<1>2. CASE DeliverError(c, s) BY <1>2 DEF DeliverError
<1>3. QED
  BY <1>1, <1>2

\* Where a handler is after a step, apart from the rows it has found.
LEMMA GotoFacts ==
    ASSUME TypeOK, NEW c \in Callbacks, NEW label, Goto(c, label)
    PROVE  /\ cb'[c].pc = label /\ cb'[c].saga = cb[c].saga
           /\ \A d \in Callbacks \ {c} : cb'[d] = cb[d]
BY DEF Goto, TypeOK

\* The one step that touches the rows of other sagas.
LEMMA PersistIInv ==
    ASSUME TypeOK, IInv, NEW c \in Callbacks, InsertToken(c)
    PROVE  IInv'
<1> DEFINE S == cb[c].saga
<1>1. /\ cb[c].pc = "insert"
      /\ rows' = PersistedRows(c)
      /\ sagas' = [sagas EXCEPT ![S] = [status |-> "TOKEN_OBTAINED", token |-> c]]
      /\ Goto(c, "link")
      /\ UNCHANGED <<nonces, conns, exchanged, init>>
  BY DEF InsertToken
<1>2. c \in exchanged /\ rows[c].status = "absent" /\ S \in Sagas
  BY <1>1 DEF IInv, Entered, Positions, Present
<1>3. /\ rows'[c].status = "ACTIVE" /\ rows'[c].ext = None
      /\ \A d \in Callbacks \ {c} :
            /\ rows'[d].ext = rows[d].ext
            /\ rows'[d].status = "absent" <=> rows[d].status = "absent"
  <2>1. /\ PersistedRows(c)[c] = [status |-> "ACTIVE", account |-> cb[c].account,
                                 ext |-> None]
        /\ \A d \in Callbacks \ {c} :
              /\ PersistedRows(c)[d].ext = rows[d].ext
              /\ Present(PersistedRows(c)[d]) <=> Present(rows[d])
    BY PersistedRowsFacts
  <2>2. QED
    BY <1>1, <2>1 DEF Present
<1>4. /\ cb'[c].pc = "link" /\ cb'[c].saga = S
      /\ \A d \in Callbacks \ {c} : cb'[d] = cb[d]
  BY <1>1, GotoFacts
<1>5. /\ sagas'[S] = [status |-> "TOKEN_OBTAINED", token |-> c]
      /\ \A s \in Sagas \ {S} : sagas'[s] = sagas[s]
  BY <1>1, <1>2 DEF TypeOK
<1>6. \A d \in Callbacks \ {c} : d \in exchanged => cb[d].saga \in Sagas \ {S}
  BY <1>2 DEF IInv, Entered, SingleOwner, Owns
<1>7. Entered'
  BY <1>1, <1>4, <1>2 DEF IInv, Entered
<1>8. SingleOwner'
  BY <1>1, <1>4, <1>2 DEF IInv, SingleOwner, Owns, OwnerPC
<1>9. Positions'
  BY <1>1, <1>2, <1>3, <1>4 DEF IInv, Positions, Present
<1>10. Outcomes'
  BY <1>1, <1>2, <1>3, <1>4, <1>5 DEF IInv, Outcomes, Present
<1>11. RowsAreReachable'
  BY <1>1, <1>2, <1>3, <1>4, <1>5, <1>6 DEF IInv, RowsAreReachable, Positions, Present
<1>12. QED
  BY <1>7, <1>8, <1>9, <1>10, <1>11 DEF IInv

LEMMA ExchangeIInv ==
    ASSUME TypeOK, IInv, NEW c \in Callbacks, ExchangeCode(c)
    PROVE  IInv'
<1>1. /\ cb[c].pc = "exchange"
      /\ exchanged' = exchanged \cup {c}
      /\ UNCHANGED <<sagas, rows, nonces, conns, init>>
  BY DEF ExchangeCode
<1>2. /\ cb'[c].pc = "persist" /\ cb'[c].saga = cb[c].saga
      /\ \A d \in Callbacks \ {c} : cb'[d] = cb[d]
  BY DEF ExchangeCode, TypeOK
<1>3. c \notin exchanged /\ ~Present(rows[c])
  BY <1>1 DEF IInv, Positions
<1>4. Entered'
  BY <1>1, <1>2 DEF IInv, Entered
<1>5. SingleOwner'
  BY <1>1, <1>2 DEF IInv, SingleOwner, Owns, OwnerPC
<1>6. Positions'
  BY <1>1, <1>2, <1>3 DEF IInv, Positions, Present
<1>7. Outcomes'
  BY <1>1, <1>2, <1>3 DEF IInv, Outcomes, Present
<1>8. RowsAreReachable'
  BY <1>1, <1>2, <1>3 DEF IInv, RowsAreReachable, Present
<1>9. QED
  BY <1>4, <1>5, <1>6, <1>7, <1>8 DEF IInv

LEMMA FinalizeIInv ==
    ASSUME TypeOK, IInv, NEW c \in Callbacks, Finalize(c)
    PROVE  IInv'
<1> DEFINE S == cb[c].saga
<1>1. /\ cb[c].pc = "finalize"
      /\ UNCHANGED <<nonces, conns, exchanged, init>>
  BY DEF Finalize
<1>2. S \in Sagas /\ S \in conns /\ Present(rows[c]) /\ c \in exchanged
  BY <1>1 DEF IInv, Entered, Positions
<1>3. /\ cb'[c].pc = "done" /\ cb'[c].saga = S
      /\ \A d \in Callbacks \ {c} : cb'[d] = cb[d]
  BY DEF Finalize, Goto, TypeOK
<1>4. /\ rows'[c].status = rows[c].status /\ rows'[c].ext = S
      /\ \A d \in Callbacks \ {c} : rows'[d] = rows[d]
  BY DEF Finalize, TypeOK
<1>5. /\ sagas'[S].status = "COMPLETED" /\ sagas'[S].token = sagas[S].token
      /\ \A s \in Sagas \ {S} : sagas'[s] = sagas[s]
  BY <1>2 DEF Finalize, TypeOK
<1>6. sagas[S].token = c
  BY <1>2 DEF IInv, RowsAreReachable
<1>7. Entered'
  BY <1>1, <1>3 DEF IInv, Entered
<1>8. SingleOwner'
  BY <1>1, <1>2, <1>3 DEF IInv, SingleOwner, Owns, OwnerPC
<1>9. Positions'
  BY <1>1, <1>2, <1>3, <1>4 DEF IInv, Positions, Present
<1>10. Outcomes'
  <2>1. ASSUME NEW s \in Sagas, s # S, sagas'[s].status = "COMPLETED"
        PROVE  /\ s \in conns'
               /\ \E d \in Callbacks : /\ sagas'[s].token = d
                                       /\ cb'[d].saga = s
                                       /\ cb'[d].pc = "done"
                                       /\ Present(rows'[d])
                                       /\ rows'[d].ext = s
    <3>1. PICK d \in Callbacks : /\ sagas[s].token = d
                                 /\ cb[d].saga = s
                                 /\ cb[d].pc = "done"
                                 /\ Present(rows[d])
                                 /\ rows[d].ext = s
      BY <1>5, <2>1 DEF IInv, Outcomes
    <3>2. d # c
      BY <2>1, <3>1
    <3>3. s \in conns
      BY <1>5, <2>1 DEF IInv, Outcomes
    <3>4. QED
      BY <1>1, <1>3, <1>4, <1>5, <2>1, <3>1, <3>2, <3>3
  <2>2. ASSUME NEW s \in Sagas, sagas'[s].status = "COMPENSATED"
        PROVE  \E d \in Callbacks : /\ d \in exchanged'
                                    /\ cb'[d].saga = s
                                    /\ cb'[d].pc = "done"
                                    /\ ~Present(rows'[d])
    <3>1. s # S
      BY <1>5, <2>2
    <3>2. PICK d \in Callbacks : /\ d \in exchanged
                                 /\ cb[d].saga = s
                                 /\ cb[d].pc = "done"
                                 /\ ~Present(rows[d])
      BY <1>5, <2>2, <3>1 DEF IInv, Outcomes
    <3>3. d # c
      BY <3>1, <3>2
    <3>4. QED
      BY <1>1, <1>3, <1>4, <3>2, <3>3
  <2>3. /\ S \in conns'
        /\ sagas'[S].token = c
        /\ cb'[c].saga = S /\ cb'[c].pc = "done"
        /\ Present(rows'[c]) /\ rows'[c].ext = S
    BY <1>1, <1>2, <1>3, <1>4, <1>5, <1>6 DEF Present
  <2>4. QED
    BY <2>1, <2>2, <2>3 DEF Outcomes
<1>11. RowsAreReachable'
  <2>1. SUFFICES ASSUME NEW d \in Callbacks, Present(rows'[d])
                 PROVE  sagas'[cb'[d].saga].token = d
    BY DEF RowsAreReachable
  <2>2. CASE d = c
    BY <1>3, <1>5, <1>6, <2>2
  <2>3. CASE d # c
    <3>1. cb'[d] = cb[d] /\ rows'[d] = rows[d]
      BY <1>3, <1>4, <2>3
    <3>2. sagas[cb[d].saga].token = d
      BY <2>1, <3>1 DEF IInv, RowsAreReachable
    <3>3. d \in exchanged /\ cb[d].pc # "idle"
      BY <2>1, <3>1 DEF IInv, Positions, SingleOwner
    <3>4. cb[d].saga \in Sagas
      BY <3>3 DEF IInv, Entered
    <3>5. cb[d].saga # S
      BY <1>6, <2>3, <3>2
    <3>6. QED
      BY <1>5, <3>1, <3>2, <3>4, <3>5
  <2>4. QED
    BY <2>2, <2>3
<1>12. QED
  BY <1>7, <1>8, <1>9, <1>10, <1>11 DEF IInv

\* A handler that gives up keeps what it has and writes nothing but a status.
LEMMA GivingUpIInv ==
    ASSUME TypeOK, IInv, NEW c \in Callbacks,
           ExchangeFails(c) \/ PersistFails(c) \/ MarkFailed(c) \/ CrashCallback(c)
    PROVE  IInv'
<1> DEFINE S == cb[c].saga
<1>1. /\ cb[c].pc \in BusyPC
      /\ cb'[c].pc = "done" \/ /\ cb'[c].pc = "fail"
                               /\ cb[c].pc \in {"exchange", "persist", "insert"}
      /\ cb'[c].saga = S
      /\ \A d \in Callbacks \ {c} : cb'[d] = cb[d]
  BY GotoFacts DEF ExchangeFails, PersistFails, MarkFailed, CrashCallback, BusyPC, OwnerPC
<1>2. /\ UNCHANGED <<rows, nonces, conns, init>>
      /\ exchanged \subseteq exchanged'
      /\ exchanged' = exchanged \/ (exchanged' = exchanged \cup {c} /\ cb[c].pc = "exchange")
  BY DEF ExchangeFails, PersistFails, MarkFailed, CrashCallback
<1>3. \A s \in Sagas : /\ sagas'[s].token = sagas[s].token
                       /\ sagas'[s].status \in {sagas[s].status, "FAILED"}
  BY DEF ExchangeFails, PersistFails, MarkFailed, CrashCallback, TypeOK
<1>4. S \in Sagas /\ cb[c].pc \notin {"idle", "done"}
  BY <1>1 DEF IInv, Entered, BusyPC, OwnerPC
<1>5. Entered'
  BY <1>1, <1>2, <1>4 DEF IInv, Entered
<1>6. SingleOwner'
  BY <1>1, <1>2, <1>4 DEF IInv, SingleOwner, Owns, OwnerPC
<1>7. Positions'
  BY <1>1, <1>2 DEF IInv, Positions, Present
<1>8. Outcomes'
  BY <1>1, <1>2, <1>3, <1>4 DEF IInv, Outcomes, Present
<1>9. RowsAreReachable'
  <2>1. \A d \in Callbacks : Present(rows[d]) => cb[d].saga \in Sagas
    BY DEF IInv, Positions, SingleOwner, Owns, Entered
  <2>. QED
    BY <1>1, <1>2, <1>3, <2>1 DEF IInv, RowsAreReachable, Present
<1>. QED
  BY <1>5, <1>6, <1>7, <1>8, <1>9 DEF IInv

LEMMA CallbackIInv ==
    ASSUME TypeOK, IInv, NEW c \in Callbacks, CallbackStep(c) \/ CrashCallback(c)
    PROVE  IInv'
<1>1. CASE ExchangeFails(c) \/ PersistFails(c) \/ MarkFailed(c) \/ CrashCallback(c)
  BY <1>1, GivingUpIInv
<1>2. CASE ExchangeCode(c) BY <1>2, ExchangeIInv
<1>3. CASE InsertToken(c) BY <1>3, PersistIInv
<1>4. CASE Finalize(c) BY <1>4, FinalizeIInv
<1> USE DEF TypeOK, Goto, IInv, Entered, SingleOwner, Owns, Positions, Outcomes,
            RowsAreReachable, OwnerPC
<1>5. CASE ConsumeNonce(c) BY <1>5 DEF ConsumeNonce
<1>6. CASE ConsumeFails(c) BY <1>6 DEF ConsumeFails
<1>7. CASE RevokePredecessor(c) BY <1>7 DEF RevokePredecessor
<1>8. CASE CreateConnection(c) BY <1>8 DEF CreateConnection
<1>9. CASE CreateConnectionFails(c) BY <1>9 DEF CreateConnectionFails
<1>10. CASE FinalizeFails(c) BY <1>10 DEF FinalizeFails
<1>11. CASE Unlink(c) BY <1>11 DEF Unlink
<1>12. CASE Compensate(c) BY <1>12 DEF Compensate, AbsentRow, Present
<1>. QED
  BY <1>1, <1>2, <1>3, <1>4, <1>5, <1>6, <1>7, <1>8, <1>9, <1>10, <1>11, <1>12
     DEF CallbackStep

LEMMA RevokeIInv ==
    ASSUME TypeOK, IInv, NEW team \in Teams, RevokeTeam(team)
    PROVE  IInv'
BY RevokeActiveFacts DEF RevokeTeam, TypeOK, TokenRow, IInv, Entered, SingleOwner,
   Owns, Positions, Outcomes, RowsAreReachable

-----------------------------------------------------------------------------
(***************************************************************************)
(* The theorems                                                            *)
(***************************************************************************)

LEMMA NextInvariant == TypeOK /\ IInv /\ [Next]_vars => TypeOK' /\ IInv'
<1> SUFFICES ASSUME TypeOK, IInv, [Next]_vars PROVE TypeOK' /\ IInv'
  OBVIOUS
<1>1. ASSUME NEW s \in Sagas, InitiateStep(s) \/ Passing(s)
      PROVE  TypeOK' /\ IInv'
  BY <1>1, InitiateTypeOK, InitiateIInv
<1>2. ASSUME NEW c \in Callbacks, NEW s \in Sagas, DeliverCode(c, s) \/ DeliverError(c, s)
      PROVE  TypeOK' /\ IInv'
  BY <1>2, DeliverTypeOK, DeliverIInv
<1>3. ASSUME NEW c \in Callbacks, CallbackStep(c) \/ CrashCallback(c)
      PROVE  TypeOK' /\ IInv'
  BY <1>3, CallbackTypeOK, CallbackIInv DEF IInv
<1>4. ASSUME NEW team \in Teams, RevokeTeam(team)
      PROVE  TypeOK' /\ IInv'
  BY <1>4, RevokeTypeOK, RevokeIInv
<1>5. CASE UNCHANGED vars
  BY <1>5 DEF vars, TypeOK, IInv, Entered, SingleOwner, Owns, Positions, Outcomes,
     RowsAreReachable
<1>6. QED
  BY <1>1, <1>2, <1>3, <1>4, <1>5 DEF Next

\* Every reachable state of the handshake is well typed and satisfies the
\* inductive invariant: one owner per saga, whose position tells what is stored.
THEOREM SpecInvariant == Spec => [](TypeOK /\ IInv)
<1>1. Init => TypeOK /\ IInv
  BY InitTypeOK, InitIInv
<1>2. QED
  BY <1>1, NextInvariant, PTL DEF Spec

\* The tables, Redis, AP and the handlers keep their types.
THEOREM TypeCorrect == Spec => []TypeOK
BY SpecInvariant, PTL

\* No authorization code is redeemed twice for a saga, for any number of
\* deliveries and any interleaving of their awaits.
THEOREM OneExchange == Spec => []OneExchangePerSaga
<1>1. TypeOK /\ IInv => OneExchangePerSaga
  BY DEF TypeOK, IInv, SingleOwner, Owns, OneExchangePerSaga
<1>2. QED
  BY <1>1, SpecInvariant, PTL

\* A COMPLETED saga has its stamped token row and its AP connection.
THEOREM CompletedLinked == Spec => []CompletedIsLinked
<1>1. IInv => CompletedIsLinked
  BY DEF IInv, Outcomes, CompletedIsLinked
<1>2. QED
  BY <1>1, SpecInvariant, PTL

\* A COMPENSATED saga has no token row, whichever of its deliveries made it.
THEOREM CompensatedWiped == Spec => []CompensatedIsWiped
<1>1. IInv => CompensatedIsWiped
  <2> SUFFICES ASSUME IInv, NEW s \in Sagas, sagas[s].status = "COMPENSATED",
                      NEW d \in Callbacks, cb[d].saga = s, Present(rows[d])
               PROVE  FALSE
    BY DEF CompensatedIsWiped
  <2>1. PICK c \in Callbacks : /\ c \in exchanged /\ cb[c].saga = s
                               /\ ~Present(rows[c])
    BY DEF IInv, Outcomes
  <2>2. d \in exchanged
    BY DEF IInv, Positions
  <2>3. QED
    BY <2>1, <2>2 DEF IInv, SingleOwner, Owns
<1>2. QED
  BY <1>1, SpecInvariant, PTL

\* Every stored row is named by its saga.
THEOREM RowsReachable == Spec => []RowsAreReachable
<1>1. IInv => RowsAreReachable
  BY DEF IInv
<1>2. QED
  BY <1>1, SpecInvariant, PTL

\* A saga that is COMPLETED or COMPENSATED has no delivery left that owns it.
LEMMA SettledHasNoActiveOwner ==
    ASSUME TypeOK, IInv, NEW s \in Sagas,
           sagas[s].status \in {"COMPLETED", "COMPENSATED"},
           NEW c \in Callbacks, cb[c].saga = s
    PROVE  cb[c].pc \notin OwnerPC
<1>1. PICK d \in Callbacks : cb[d].saga = s /\ d \in exchanged /\ cb[d].pc = "done"
  BY DEF IInv, Outcomes, Positions
<1>2. cb[c].pc \in OwnerPC => c = d
  BY <1>1 DEF IInv, SingleOwner, Owns
<1>3. QED
  BY <1>1, <1>2 DEF OwnerPC

\* COMPLETED and COMPENSATED exclude each other for good.
THEOREM OutcomesExclusive == Spec => OutcomesExclude
<1> DEFINE Final(s) == sagas[s].status \in {"COMPLETED", "COMPENSATED"} =>
                          sagas'[s].status \in {sagas[s].status, "FAILED"}
<1>1. ASSUME TypeOK, IInv, [Next]_vars, NEW s \in Sagas PROVE Final(s)
  <2> SUFFICES ASSUME sagas[s].status \in {"COMPLETED", "COMPENSATED"}
               PROVE  sagas'[s].status \in {sagas[s].status, "FAILED"}
    OBVIOUS
  <2>1. ASSUME NEW q \in Sagas, InitiateStep(q) \/ Passing(q) PROVE Final(s)
    <3>1. init[s] = "returned"
      BY <1>1 DEF IInv, Entered, Outcomes
    <3>2. QED
      BY <1>1, <2>1, <3>1 DEF InitiateStep, Passing, InsertSaga, RegisterNonce, RegisterFails,
         DeleteSaga, CrashInitiate, StateExpires, NonceExpires, TypeOK
  <2>2. ASSUME NEW c \in Callbacks, NEW q \in Sagas, DeliverCode(c, q) \/ DeliverError(c, q)
        PROVE  Final(s)
    BY <2>2 DEF DeliverCode, DeliverError
  <2>3. ASSUME NEW c \in Callbacks, CallbackStep(c) \/ CrashCallback(c) PROVE Final(s)
    <3>1. cb[c].pc \in OwnerPC => cb[c].saga # s
      BY <1>1, SettledHasNoActiveOwner
    <3>2. QED
      BY <1>1, <2>3, <3>1 DEF CallbackStep, ConsumeNonce, ConsumeFails, ExchangeCode,
         ExchangeFails, RevokePredecessor, InsertToken, PersistFails, CreateConnection,
         CreateConnectionFails, Finalize, FinalizeFails, Unlink, Compensate, MarkFailed,
         CrashCallback, OwnerPC, TypeOK
  <2>4. ASSUME NEW team \in Teams, RevokeTeam(team) PROVE Final(s)
    BY <2>4 DEF RevokeTeam
  <2>5. CASE UNCHANGED vars
    BY <2>5 DEF vars
  <2>6. QED
    BY <1>1, <2>1, <2>2, <2>3, <2>4, <2>5 DEF Next
<1>2. TypeOK /\ IInv /\ [Next]_vars => [\A s \in Sagas : Final(s)]_vars
  BY <1>1
<1>3. QED
  BY <1>2, SpecInvariant, PTL DEF Spec, OutcomesExclude

-----------------------------------------------------------------------------
(***************************************************************************)
(* The handshake implements CredentialContract.  A saga's credential is    *)
(* the stage of the one delivery that redeemed its code, if there is one.  *)
(***************************************************************************)

Stage(c) ==
    IF Present(rows[c])
    THEN IF rows[c].ext = cb[c].saga THEN "linked" ELSE "held"
    ELSE IF cb[c].pc \notin {"persist", "insert"} THEN "closed" ELSE "open"

CredentialIsStage ==
    \A s \in Sagas :
        /\ \A c \in exchanged : cb[c].saga = s => Credential(s) = Stage(c)
        /\ (\A c \in exchanged : cb[c].saga # s) => Credential(s) = "open"

LEMMA CredentialCases == TypeOK /\ IInv => CredentialIsStage
<1> SUFFICES ASSUME TypeOK, IInv, NEW s \in Sagas
             PROVE  /\ \A c \in exchanged : cb[c].saga = s => Credential(s) = Stage(c)
                    /\ (\A c \in exchanged : cb[c].saga # s) => Credential(s) = "open"
  BY DEF CredentialIsStage
<1>1. exchanged \subseteq Callbacks
  BY DEF TypeOK
<1>2. \A c \in Callbacks : Present(rows[c]) => c \in exchanged
  BY DEF IInv, Positions
<1>3. \A c, d \in exchanged : cb[c].saga = cb[d].saga => c = d
  BY <1>1 DEF IInv, SingleOwner, Owns
<1>4. ASSUME NEW c \in exchanged, cb[c].saga = s PROVE Credential(s) = Stage(c)
  <2>1. \A d \in Callbacks : cb[d].saga = s /\ d \in exchanged => d = c
    BY <1>3, <1>4
  <2>2. QED
    BY <1>1, <1>2, <1>4, <2>1 DEF Credential, Stage, Present
<1>5. ASSUME \A c \in exchanged : cb[c].saga # s PROVE Credential(s) = "open"
  BY <1>2, <1>5 DEF Credential, Present
<1>6. QED
  BY <1>4, <1>5

\* A step that moves no stage moves no credential.
LEMMA NoStageMoves ==
    ASSUME CredentialIsStage, CredentialIsStage', exchanged' = exchanged,
           \A c \in exchanged : cb'[c].saga = cb[c].saga /\ Stage(c)' = Stage(c)
    PROVE  \A s \in Sagas : Credential(s)' = Credential(s)
<1> SUFFICES ASSUME NEW s \in Sagas PROVE Credential(s)' = Credential(s)
  OBVIOUS
<1>1. CASE \E c \in exchanged : cb[c].saga = s
  <2>1. PICK c \in exchanged : cb[c].saga = s
    BY <1>1
  <2>2. Credential(s) = Stage(c)
    BY <2>1 DEF CredentialIsStage
  <2>3. Credential(s)' = Stage(c)'
    BY <2>1 DEF CredentialIsStage
  <2>4. QED
    BY <2>1, <2>2, <2>3
<1>2. CASE \A c \in exchanged : cb[c].saga # s
  <2>1. Credential(s) = "open"
    BY <1>2 DEF CredentialIsStage
  <2>2. Credential(s)' = "open"
    BY <1>2 DEF CredentialIsStage
  <2>3. QED
    BY <2>1, <2>2
<1>3. QED
  BY <1>1, <1>2

\* A step of one delivery moves at most the credential of its saga, from its
\* old stage, or from "open" if the step redeems the code.
LEMMA OneStageMoves ==
    ASSUME TypeOK, IInv', CredentialIsStage, CredentialIsStage', exchanged' \subseteq Callbacks,
           NEW c \in Callbacks, c \in exchanged', exchanged \subseteq exchanged',
           exchanged' \subseteq exchanged \cup {c},
           cb[c].saga \in Sagas, cb'[c].saga = cb[c].saga,
           \A d \in exchanged \ {c} : cb'[d].saga = cb[d].saga /\ Stage(d)' = Stage(d)
    PROVE  /\ \A s \in Sagas \ {cb[c].saga} : Credential(s)' = Credential(s)
           /\ Credential(cb[c].saga)' = Stage(c)'
           /\ c \in exchanged => Credential(cb[c].saga) = Stage(c)
           /\ c \notin exchanged => Credential(cb[c].saga) = "open"
<1>1. ASSUME NEW s \in Sagas \ {cb[c].saga} PROVE Credential(s)' = Credential(s)
  <2>1. CASE \E d \in exchanged : cb[d].saga = s
    <3>1. PICK d \in exchanged : cb[d].saga = s
      BY <2>1
    <3>2. d # c /\ cb'[d].saga = s /\ Stage(d)' = Stage(d) /\ d \in exchanged'
      BY <1>1, <3>1
    <3>3. Credential(s) = Stage(d)
      BY <1>1, <3>1 DEF CredentialIsStage
    <3>4. Credential(s)' = Stage(d)'
      BY <1>1, <3>2 DEF CredentialIsStage
    <3>5. QED
      BY <3>2, <3>3, <3>4
  <2>2. CASE \A d \in exchanged : cb[d].saga # s
    <3>1. \A d \in exchanged' : cb'[d].saga # s
      BY <1>1, <2>2
    <3>2. Credential(s) = "open"
      BY <1>1, <2>2 DEF CredentialIsStage
    <3>3. Credential(s)' = "open"
      BY <1>1, <3>1 DEF CredentialIsStage
    <3>4. QED
      BY <3>2, <3>3
  <2>3. QED
    BY <2>1, <2>2
<1>2. Credential(cb[c].saga)' = Stage(c)'
  BY DEF CredentialIsStage
<1>3. c \in exchanged => Credential(cb[c].saga) = Stage(c)
  BY DEF CredentialIsStage
<1>4. ASSUME c \notin exchanged PROVE Credential(cb[c].saga) = "open"
  <2>1. \A d \in exchanged : cb[d].saga # cb[c].saga
    BY <1>4 DEF IInv, SingleOwner, Owns
  <2>2. QED
    BY <2>1 DEF CredentialIsStage
<1>5. QED
  BY <1>1, <1>2, <1>3, <1>4

\* The arrows of CredentialContract.
Arrow(from, to) ==
    \/ from = "open" /\ to \in {"held", "closed"}
    \/ from = "held" /\ to \in {"linked", "closed"}

\* Every step of a delivery keeps its stage or follows an arrow.
LEMMA CallbackStage ==
    ASSUME TypeOK, IInv, NEW c \in Callbacks, CallbackStep(c) \/ CrashCallback(c)
    PROVE  /\ cb[c].saga \in Sagas /\ cb'[c].saga = cb[c].saga
           /\ \A d \in exchanged \ {c} : cb'[d].saga = cb[d].saga /\ Stage(d)' = Stage(d)
           /\ exchanged \subseteq exchanged' /\ exchanged' \subseteq exchanged \cup {c}
           /\ c \in exchanged => Stage(c)' = Stage(c) \/ Arrow(Stage(c), Stage(c)')
           /\ c \in exchanged' \ exchanged => Stage(c)' \in {"open", "held", "closed"}
<1> USE DEF TypeOK, IInv, Entered, Positions, Stage, Present, Arrow, Goto
<1>1. CASE ConsumeNonce(c) BY <1>1 DEF ConsumeNonce
<1>2. CASE ConsumeFails(c) BY <1>2 DEF ConsumeFails
<1>3. CASE ExchangeCode(c) BY <1>3 DEF ExchangeCode
<1>3a. CASE RevokePredecessor(c) BY <1>3a DEF RevokePredecessor
<1>4. CASE ExchangeFails(c) BY <1>4 DEF ExchangeFails
<1>5. CASE InsertToken(c)
  <2>1. /\ PersistedRows(c)[c] = [status |-> "ACTIVE", account |-> cb[c].account,
                                 ext |-> None]
        /\ \A d \in Callbacks \ {c} :
              /\ PersistedRows(c)[d].ext = rows[d].ext
              /\ Present(PersistedRows(c)[d]) <=> Present(rows[d])
    BY PersistedRowsFacts
  <2>2. QED
    BY <1>5, <2>1, NamesAssumption DEF InsertToken
<1>6. CASE PersistFails(c) BY <1>6 DEF PersistFails
<1>7. CASE CreateConnection(c) BY <1>7 DEF CreateConnection
<1>8. CASE CreateConnectionFails(c) BY <1>8 DEF CreateConnectionFails
<1>9. CASE Finalize(c) BY <1>9, NamesAssumption DEF Finalize
<1>10. CASE FinalizeFails(c) BY <1>10 DEF FinalizeFails
<1>11. CASE Unlink(c) BY <1>11 DEF Unlink
<1>12. CASE Compensate(c) BY <1>12, NamesAssumption DEF Compensate, AbsentRow
<1>13. CASE MarkFailed(c) BY <1>13 DEF MarkFailed
<1>14. CASE CrashCallback(c) BY <1>14 DEF CrashCallback, BusyPC, OwnerPC
<1>15. QED
  BY <1>1, <1>2, <1>3, <1>3a, <1>4, <1>5, <1>6, <1>7, <1>8, <1>9, <1>10, <1>11,
     <1>12, <1>13, <1>14 DEF CallbackStep

\* The refinement mapping as an operator without arguments.
Cred == [s \in Sagas |-> Credential(s)]

LEMMA ContractStep ==
    ASSUME TypeOK, IInv, TypeOK', IInv', CredentialIsStage, CredentialIsStage', [Next]_vars
    PROVE  [Contract!Next]_Cred
<1> DEFINE Stays == \A s \in Sagas : Credential(s)' = Credential(s)
<1>1. ASSUME Stays PROVE [Contract!Next]_Cred
  BY <1>1 DEF Cred
<1>2. ASSUME NEW s \in Sagas, InitiateStep(s) \/ Passing(s) PROVE Stays
  <2>1. exchanged' = exchanged /\ cb' = cb /\ rows' = rows
    BY <1>2 DEF InitiateStep, Passing, InsertSaga, RegisterNonce, RegisterFails,
       DeleteSaga, CrashInitiate, StateExpires, NonceExpires
  <2>2. QED
    BY <2>1, NoStageMoves DEF Stage
<1>3. ASSUME NEW c \in Callbacks, NEW s \in Sagas, DeliverCode(c, s) \/ DeliverError(c, s)
      PROVE  Stays
  <2>1. c \notin exchanged
    BY <1>3 DEF DeliverCode, DeliverError, IInv, Positions
  <2>2. exchanged' = exchanged /\ rows' = rows
    BY <1>3 DEF DeliverCode, DeliverError
  <2>3. \A d \in exchanged : cb'[d] = cb[d]
    BY <1>3, <2>1 DEF DeliverCode, DeliverError, TypeOK
  <2>4. QED
    BY <2>2, <2>3, NoStageMoves DEF Stage
<1>4. ASSUME NEW team \in Teams, RevokeTeam(team) PROVE Stays
  <2>1. exchanged' = exchanged /\ cb' = cb /\ rows' = RevokeActive(rows, team)
    BY <1>4 DEF RevokeTeam
  <2>2. \A d \in Callbacks : rows'[d].ext = rows[d].ext
                            /\ (Present(rows'[d]) <=> Present(rows[d]))
    BY <2>1, RevokeActiveFacts DEF TypeOK, TokenRow
  <2>3. \A d \in exchanged : Stage(d)' = Stage(d)
    BY <2>1, <2>2 DEF Stage, Present, TypeOK
  <2>4. QED
    BY <2>1, <2>3, NoStageMoves
<1>5. ASSUME NEW c \in Callbacks, CallbackStep(c) \/ CrashCallback(c)
      PROVE  [Contract!Next]_Cred
  <2> DEFINE S == cb[c].saga
  <2>1. /\ S \in Sagas /\ cb'[c].saga = S
        /\ \A d \in exchanged \ {c} : cb'[d].saga = cb[d].saga /\ Stage(d)' = Stage(d)
        /\ exchanged \subseteq exchanged' /\ exchanged' \subseteq exchanged \cup {c}
        /\ c \in exchanged => Stage(c)' = Stage(c) \/ Arrow(Stage(c), Stage(c)')
        /\ c \in exchanged' \ exchanged => Stage(c)' \in {"open", "held", "closed"}
    BY <1>5, CallbackStage
  <2>2. CASE c \notin exchanged'
    <3>1. exchanged' = exchanged /\ \A d \in exchanged : d # c
      BY <2>1, <2>2
    <3>2. QED
      BY <1>1, <2>1, <3>1, NoStageMoves
  <2>3. CASE c \in exchanged'
    <3>1. exchanged' \subseteq Callbacks
      BY DEF TypeOK
    <3>2. /\ \A s \in Sagas \ {S} : Credential(s)' = Credential(s)
          /\ Credential(S)' = Stage(c)'
          /\ c \in exchanged => Credential(S) = Stage(c)
          /\ c \notin exchanged => Credential(S) = "open"
      BY <2>1, <2>3, <3>1, OneStageMoves
    <3>3. Credential(S)' = Credential(S) \/ Arrow(Credential(S), Credential(S)')
      BY <2>1, <2>3, <3>2 DEF Arrow
    <3>4. CASE Credential(S)' = Credential(S)
      BY <1>1, <2>1, <3>2, <3>4
    <3>5. CASE Arrow(Credential(S), Credential(S)')
      <4>1. /\ [s \in Sagas |-> Credential(s)]' =
                 [[s \in Sagas |-> Credential(s)] EXCEPT ![S] = Credential(S)']
            /\ [s \in Sagas |-> Credential(s)][S] = Credential(S)
        BY <2>1, <3>2
      <4>2. Contract!Move(S, Credential(S), Credential(S)')
        BY <4>1 DEF Contract!Move
      <4>3. \/ Contract!Obtain(S) \/ Contract!Link(S)
            \/ Contract!Wipe(S) \/ Contract!GiveUp(S)
        BY <3>5, <4>2 DEF Arrow, Contract!Obtain, Contract!Link, Contract!Wipe,
           Contract!GiveUp
      <4>4. QED
        BY <2>1, <4>3 DEF Contract!Next
    <3>6. QED
      BY <3>3, <3>4, <3>5
  <2>4. QED
    BY <2>2, <2>3
<1>6. CASE UNCHANGED vars
  <2>1. exchanged' = exchanged /\ cb' = cb /\ rows' = rows
    BY <1>6 DEF vars
  <2>2. QED
    BY <1>1, <2>1, NoStageMoves DEF Stage
<1>7. QED
  BY <1>1, <1>2, <1>3, <1>4, <1>5, <1>6 DEF Next

\* The handshake implements CredentialContract: a saga obtains a credential at
\* most once, links or wipes it, and never wipes a linked one, for any number of
\* deliveries, crashes, lost replies and revocations.
THEOREM HandshakeKeepsContract == Spec => KeepsContract
<1>1. Init => Contract!Init
  BY DEF Init, Contract!Init, Credential, Present, AbsentRow
<1>2. /\ TypeOK /\ IInv /\ TypeOK' /\ IInv' /\ CredentialIsStage
      /\ CredentialIsStage' /\ [Next]_vars
      => [Contract!Next]_Cred
  BY ContractStep
<1>3. QED
  BY <1>1, <1>2, SpecInvariant, CredentialCases, PTL
     DEF Spec, KeepsContract, Contract!Spec, Cred

-----------------------------------------------------------------------------
(***************************************************************************)
(* The unique constraint.  Every writer of the table checks it.  The       *)
(* revoking UPDATE makes room for one more ACTIVE row of the account, as   *)
(* long as nobody adds one that it did not find.                           *)
(***************************************************************************)

LEMMA UniqueKeyStep ==
    ASSUME TypeOK, UniqueKeyHolds(rows), [Next]_vars
    PROVE  UniqueKeyHolds(rows)'
<1>1. ASSUME NEW s \in Sagas, InitiateStep(s) \/ Passing(s) PROVE rows' = rows
  BY <1>1 DEF InitiateStep, Passing, InsertSaga, RegisterNonce, RegisterFails,
     DeleteSaga, CrashInitiate, StateExpires, NonceExpires
<1>2. ASSUME NEW c \in Callbacks, NEW s \in Sagas, DeliverCode(c, s) \/ DeliverError(c, s)
      PROVE  rows' = rows
  BY <1>2 DEF DeliverCode, DeliverError
<1>3. ASSUME NEW c \in Callbacks, CallbackStep(c) \/ CrashCallback(c)
      PROVE  UniqueKeyHolds(rows)'
  <2>1. CASE InsertToken(c)
    BY <2>1 DEF InsertToken
  <2>2. CASE Finalize(c)
    <3>1. /\ DOMAIN rows' = DOMAIN rows
          /\ \A d \in Callbacks : /\ rows'[d].status = rows[d].status
                                  /\ rows'[d].account = rows[d].account
      BY <2>2 DEF Finalize, TypeOK
    <3>. QED
      BY <3>1 DEF UniqueKeyHolds, Clash, Present, TypeOK
  <2>3. CASE Compensate(c)
    <3>1. /\ DOMAIN rows' = DOMAIN rows
          /\ \A d \in Callbacks : rows'[d] = rows[d] \/ ~Present(rows'[d])
      BY <2>3 DEF Compensate, TypeOK, AbsentRow, Present
    <3>. QED
      BY <3>1 DEF UniqueKeyHolds, Clash, TypeOK
  <2>4. CASE rows' = rows
    BY <2>4
  <2>. QED
    BY <1>3, <2>1, <2>2, <2>3, <2>4 DEF CallbackStep, ConsumeNonce, ConsumeFails,
       ExchangeCode, ExchangeFails, RevokePredecessor, PersistFails, CreateConnection,
       CreateConnectionFails, FinalizeFails, Unlink, MarkFailed, CrashCallback
<1>4. ASSUME NEW team \in Teams, RevokeTeam(team) PROVE UniqueKeyHolds(rows)'
  BY <1>4 DEF RevokeTeam
<1>5. CASE UNCHANGED vars
  BY <1>5 DEF vars
<1>. QED
  BY <1>1, <1>2, <1>3, <1>4, <1>5 DEF Next

LEMMA UniqueKeyInvariant == Spec => []UniqueKeyHolds(rows)
<1>1. Init => UniqueKeyHolds(rows)
  BY DEF Init, UniqueKeyHolds, Clash, Present, AbsentRow
<1>2. TypeOK /\ UniqueKeyHolds(rows) /\ [Next]_vars => UniqueKeyHolds(rows)'
  BY UniqueKeyStep
<1>. QED
  BY <1>1, <1>2, SpecInvariant, PTL DEF Spec

\* Positions from which a handler inserts no row any more.
Inserted == {"link", "finalize", "unlink", "compensate", "done"}

\* A row becomes ACTIVE only by the insert of its own handler, REVOKED only
\* from ACTIVE, and keeps its account in either case.
LEMMA RowMoves ==
    ASSUME TypeOK, [Next]_vars, NEW e \in Callbacks
    PROVE  /\ rows'[e].status = "ACTIVE" =>
                \/ rows[e].status = "ACTIVE" /\ rows'[e].account = rows[e].account
                \/ cb[e].pc = "insert"
           /\ rows'[e].status = "REVOKED" =>
                /\ rows[e].status \in {"ACTIVE", "REVOKED"}
                /\ rows'[e].account = rows[e].account
<1>1. ASSUME NEW s \in Sagas, InitiateStep(s) \/ Passing(s) PROVE rows' = rows
  BY <1>1 DEF InitiateStep, Passing, InsertSaga, RegisterNonce, RegisterFails,
     DeleteSaga, CrashInitiate, StateExpires, NonceExpires
<1>2. ASSUME NEW c \in Callbacks, NEW s \in Sagas, DeliverCode(c, s) \/ DeliverError(c, s)
      PROVE  rows' = rows
  BY <1>2 DEF DeliverCode, DeliverError
<1>3. ASSUME NEW c \in Callbacks, InsertToken(c)
      PROVE  \/ e = c /\ cb[e].pc = "insert" /\ rows'[e].status = "ACTIVE"
             \/ rows'[e] = rows[e]
             \/ /\ rows[e].status = "ACTIVE" /\ rows'[e].status = "REVOKED"
                /\ rows'[e].account = rows[e].account
  BY <1>3 DEF InsertToken, PersistedRows, Superseded, TypeOK
<1>4. ASSUME NEW c \in Callbacks, Compensate(c) \/ Finalize(c)
      PROVE  \/ rows'[e].status = "absent"
             \/ rows'[e].status = rows[e].status /\ rows'[e].account = rows[e].account
  BY <1>4 DEF Compensate, Finalize, AbsentRow, TypeOK
<1>5. ASSUME NEW c \in Callbacks, CallbackStep(c) \/ CrashCallback(c)
      PROVE  InsertToken(c) \/ Compensate(c) \/ Finalize(c) \/ rows' = rows
  BY <1>5 DEF CallbackStep, ConsumeNonce, ConsumeFails, ExchangeCode, ExchangeFails,
     RevokePredecessor, PersistFails, CreateConnection, CreateConnectionFails,
     FinalizeFails, Unlink, MarkFailed, CrashCallback
<1>6. ASSUME NEW team \in Teams, RevokeTeam(team)
      PROVE  \/ rows'[e] = rows[e]
             \/ /\ rows[e].status = "ACTIVE" /\ rows'[e].status = "REVOKED"
                /\ rows'[e].account = rows[e].account
  BY <1>6 DEF RevokeTeam, RevokeActive, TypeOK
<1>7. CASE UNCHANGED vars
  BY <1>7 DEF vars
<1>. QED
  BY <1>1, <1>2, <1>3, <1>4, <1>5, <1>6, <1>7 DEF Next

\* A transaction is opened by its UPDATE and then left alone by the others,
\* and whoever has inserted never inserts again.
LEMMA HandlerMoves ==
    ASSUME TypeOK, [Next]_vars, NEW e \in Callbacks
    PROVE  /\ cb'[e].pc = "insert" => RevokePredecessor(e) \/ cb'[e] = cb[e]
           /\ cb[e].pc \in Inserted => cb'[e].pc \in Inserted
<1>1. ASSUME NEW s \in Sagas, InitiateStep(s) \/ Passing(s) PROVE cb' = cb
  BY <1>1 DEF InitiateStep, Passing, InsertSaga, RegisterNonce, RegisterFails,
     DeleteSaga, CrashInitiate, StateExpires, NonceExpires
<1>2. ASSUME NEW c \in Callbacks, NEW s \in Sagas, DeliverCode(c, s) \/ DeliverError(c, s)
      PROVE  \/ cb'[e] = cb[e]
             \/ cb[e].pc = "idle" /\ cb'[e].pc \in {"consume", "done", "fail"}
  BY <1>2 DEF DeliverCode, DeliverError, TypeOK
<1>3. ASSUME NEW c \in Callbacks, CallbackStep(c) \/ CrashCallback(c)
      PROVE  \/ cb'[e] = cb[e]
             \/ e = c /\ RevokePredecessor(e)
             \/ /\ cb'[e].pc # "insert"
                /\ cb[e].pc \in Inserted => cb'[e].pc \in Inserted
  <2>1. CASE c # e
    BY <1>3, <2>1 DEF CallbackStep, ConsumeNonce, ConsumeFails, ExchangeCode,
       ExchangeFails, RevokePredecessor, InsertToken, PersistFails, CreateConnection,
       CreateConnectionFails, Finalize, FinalizeFails, Unlink, Compensate, MarkFailed,
       CrashCallback, Goto, TypeOK
  <2>2. CASE c = e
    BY <1>3, <2>2 DEF CallbackStep, ConsumeNonce, ConsumeFails, ExchangeCode,
       ExchangeFails, InsertToken, PersistFails, CreateConnection,
       CreateConnectionFails, Finalize, FinalizeFails, Unlink, Compensate, MarkFailed,
       CrashCallback, Goto, TypeOK, Inserted
  <2>. QED
    BY <2>1, <2>2
<1>4. ASSUME NEW team \in Teams, RevokeTeam(team) PROVE cb' = cb
  BY <1>4 DEF RevokeTeam
<1>5. CASE UNCHANGED vars
  BY <1>5 DEF vars
<1>6. RevokePredecessor(e) => cb[e].pc = "persist"
  BY DEF RevokePredecessor
<1>. QED
  BY <1>1, <1>2, <1>3, <1>4, <1>5, <1>6 DEF Next, Inserted

\* The UPDATE finds rows that no REVOKED row of the account stands beside,
\* or the constraint would have refused it.
LEMMA FoundAlone ==
    ASSUME TypeOK, IInv, NEW c \in Callbacks, RevokePredecessor(c), NEW d \in FoundRows(c)
    PROVE  /\ cb[d].pc \in Inserted
           /\ rows[d].account = cb[c].account /\ cb[c].account # NoAccount
           /\ \A e \in Callbacks : rows[e].account = cb[c].account
                                   => rows[e].status # "REVOKED"
<1>1. /\ d \in Callbacks /\ rows[d].status = "ACTIVE"
      /\ rows[d].account = cb[c].account /\ cb[c].account # NoAccount
  BY DEF FoundRows
<1>2. cb[d].pc \in Inserted
  BY <1>1 DEF IInv, Positions, Present, TypeOK, CallbackPC, BusyPC, OwnerPC, Inserted
<1>3. ASSUME NEW e \in Callbacks, rows[e].account = cb[c].account,
             rows[e].status = "REVOKED"
      PROVE  FALSE
  <2>. DEFINE new == Superseded(FoundRows(c))
  <2>1. /\ DOMAIN new = Callbacks
        /\ new[d].status = "REVOKED" /\ new[d].account = rows[d].account
        /\ new[e] = rows[e]
    BY <1>1, <1>3 DEF Superseded, TypeOK
  <2>2. UniqueKeyHolds(new) /\ d # e
    BY <1>1, <1>3 DEF RevokePredecessor
  <2>. HIDE DEF new
  <2>. QED
    BY <1>1, <1>3, <2>1, <2>2 DEF UniqueKeyHolds, Clash, Present
<1>. QED
  BY <1>1, <1>2, <1>3

LEMMA TransactionsStep ==
    ASSUME TypeOK, IInv, UniqueKeyHolds(rows), Transactions, [Next]_vars
    PROVE  Transactions'
<1>. SUFFICES ASSUME NEW c \in Callbacks, cb'[c].pc = "insert", NEW d \in cb'[c].found
              PROVE  /\ cb'[d].pc \in Inserted
                     /\ rows'[d].status = "ACTIVE" =>
                           /\ rows'[d].account = cb'[c].account
                           /\ cb'[c].account # NoAccount
                           /\ \A e \in Callbacks : rows'[e].account = cb'[c].account
                                                   => rows'[e].status # "REVOKED"
  BY DEF Transactions, Inserted
<1>1. CASE RevokePredecessor(c)
  <2>1. /\ rows' = rows /\ cb'[c].account = cb[c].account
        /\ d \in FoundRows(c) /\ d \in Callbacks
        /\ \A e \in Callbacks \ {c} : cb'[e] = cb[e]
    BY <1>1 DEF RevokePredecessor, FoundRows, TypeOK
  <2>2. d # c
    BY <1>1, <2>1, FoundAlone DEF RevokePredecessor, Inserted
  <2>. QED
    BY <1>1, <2>1, <2>2, FoundAlone
<1>2. CASE cb'[c] = cb[c]
  <2>1. /\ cb[c].pc = "insert" /\ d \in cb[c].found /\ d \in Callbacks
        /\ cb'[c].account = cb[c].account
    BY <1>2 DEF TypeOK
  <2>2. cb[d].pc \in Inserted
    BY <2>1 DEF Transactions, Inserted
  <2>3. cb'[d].pc \in Inserted
    BY <2>1, <2>2, HandlerMoves
  <2>4. ASSUME rows'[d].status = "ACTIVE"
        PROVE  /\ rows'[d].account = cb'[c].account
               /\ cb'[c].account # NoAccount
               /\ \A e \in Callbacks : rows'[e].account = cb'[c].account
                                       => rows'[e].status # "REVOKED"
    <3>1. rows[d].status = "ACTIVE" /\ rows'[d].account = rows[d].account
      BY <2>1, <2>2, <2>4, RowMoves DEF Inserted
    <3>2. /\ rows[d].account = cb[c].account /\ cb[c].account # NoAccount
          /\ \A e \in Callbacks : rows[e].account = cb[c].account
                                  => rows[e].status # "REVOKED"
      BY <2>1, <3>1 DEF Transactions
    <3>3. ASSUME NEW e \in Callbacks, rows'[e].account = cb[c].account,
                 rows'[e].status = "REVOKED"
          PROVE  FALSE
      <4>1. rows[e].status = "ACTIVE" /\ rows[e].account = cb[c].account
        BY <3>2, <3>3, RowMoves
      <4>2. e = d
        BY <2>1, <3>1, <3>2, <4>1 DEF UniqueKeyHolds, Clash, Present, TypeOK
      <4>. QED
        BY <2>4, <3>3, <4>2
    <3>. QED
      BY <2>1, <3>1, <3>2, <3>3
  <2>. QED
    BY <2>3, <2>4
<1>. QED
  BY <1>1, <1>2, HandlerMoves

LEMMA TransactionsInvariant == Spec => []Transactions
<1>1. Init => Transactions
  BY DEF Init, Transactions, IdleCallback
<1>2. TypeOK /\ IInv /\ UniqueKeyHolds(rows) /\ Transactions /\ [Next]_vars
      => Transactions'
  BY TransactionsStep
<1>. QED
  BY <1>1, <1>2, SpecInvariant, UniqueKeyInvariant, PTL DEF Spec

\* The INSERT of _persist_tokens is refused only because of a row that a
\* handshake overlapping it committed after its UPDATE, for any number of
\* handshakes, compensations and revocations of the account.
THEOREM RefusedByOverlap == Spec => []RefusedOnlyByOverlap
<1>1. ASSUME TypeOK, IInv, UniqueKeyHolds(rows), Transactions,
             NEW c \in Callbacks, cb[c].pc = "insert",
             \A d \in Callbacks \ cb[c].found :
                 rows[d].status = "ACTIVE" => rows[d].account # cb[c].account
      PROVE  UniqueKeyHolds(PersistedRows(c))
  <2>. DEFINE new == PersistedRows(c)
  <2>1. /\ DOMAIN new = Callbacks /\ DOMAIN rows = Callbacks
        /\ new[c].status = "ACTIVE" /\ new[c].account = cb[c].account
        /\ cb[c].found \subseteq Callbacks
    BY <1>1 DEF PersistedRows, Superseded, TypeOK
  <2>2. ASSUME NEW t \in Callbacks, t # c
        PROVE  /\ new[t].account = rows[t].account
               /\ \/ /\ rows[t].status = "ACTIVE" /\ t \in cb[c].found
                     /\ new[t].status = "REVOKED"
                  \/ /\ rows[t].status # "ACTIVE" \/ t \notin cb[c].found
                     /\ new[t].status = rows[t].status
    BY <1>1, <2>2 DEF PersistedRows, Superseded, TypeOK
  <2>. HIDE DEF new
  <2>3. ASSUME NEW t \in Callbacks, t # c PROVE ~Clash(new[c], new[t])
    BY <1>1, <2>1, <2>2, <2>3 DEF Clash
  <2>4. ASSUME NEW t \in Callbacks, NEW u \in Callbacks, t # u, t # c, u # c
        PROVE  ~Clash(new[t], new[u])
    <3>1. ~Clash(rows[t], rows[u])
      BY <1>1, <2>1, <2>4 DEF UniqueKeyHolds
    <3>2. /\ new[t].account = rows[t].account /\ new[u].account = rows[u].account
      BY <2>2, <2>4
    <3>3. CASE new[t].status = rows[t].status /\ new[u].status = rows[u].status
      BY <3>1, <3>2, <3>3 DEF Clash, Present
    <3>4. ASSUME NEW x \in Callbacks, NEW y \in Callbacks, x # c, y # c,
                 rows[x].status = "ACTIVE", x \in cb[c].found, new[x].status = "REVOKED",
                 rows[x].account = rows[y].account, new[y].status = "REVOKED",
                 ~Clash(rows[x], rows[y])
          PROVE  FALSE
      <4>1. /\ rows[x].account = cb[c].account /\ cb[c].account # NoAccount
            /\ rows[y].status # "REVOKED"
        BY <1>1, <3>4 DEF Transactions
      <4>2. rows[y].status = "ACTIVE"
        BY <2>2, <3>4, <4>1
      <4>. QED
        BY <3>4, <4>1, <4>2 DEF Clash, Present
    <3>. QED
      BY <2>2, <2>4, <3>1, <3>2, <3>3, <3>4 DEF Clash
  <2>5. UniqueKeyHolds(new)
    BY <2>1, <2>3, <2>4 DEF UniqueKeyHolds, Clash
  <2>. QED
    BY <2>5 DEF new
<1>2. ASSUME TypeOK, IInv, NEW c \in Callbacks, NEW d \in Callbacks,
             cb[c].pc = "insert", rows[d].status = "ACTIVE"
      PROVE  cb[d].saga # cb[c].saga
  <2>1. d # c /\ Owns(c) /\ Owns(d)
    BY <1>2 DEF IInv, Positions, Present, Owns
  <2>. QED
    BY <2>1, <1>2 DEF IInv, SingleOwner
<1>3. TypeOK /\ IInv /\ UniqueKeyHolds(rows) /\ Transactions => RefusedOnlyByOverlap
  BY <1>1, <1>2 DEF RefusedOnlyByOverlap
<1>. QED
  BY <1>3, SpecInvariant, UniqueKeyInvariant, TransactionsInvariant, PTL

-----------------------------------------------------------------------------
(***************************************************************************)
(* Sovereign No-Ghost, where it holds: a saga delivered once, and no       *)
(* crash, no lost AP reply and no AP clean-up without effect.  Then only   *)
(* that delivery makes or removes the AP connection, and its position      *)
(* says whether there is one.                                              *)
(***************************************************************************)

Recovered == Faults \cap {"crash", "ap_lost_reply", "ap_cleanup"} = {}

Alone(c) == \A d \in Callbacks : cb[d].saga = cb[c].saga => d = c

\* Positions at which a lone delivery has no AP connection, or none any more.
Unlinked == {"consume", "exchange", "persist", "insert", "link", "fail", "compensate"}

Tidy(c) ==
    /\ cb[c].pc = "idle" => cb[c].saga = None
    /\ cb[c].pc # "idle" /\ Alone(c) =>
        /\ cb[c].pc \in Unlinked => cb[c].saga \notin conns
        /\ cb[c].pc = "done" =>
               \/ Green(cb[c].saga)
               \/ cb[c].saga \notin conns /\ ~Present(rows[c])

\* AP has no connection of a saga whose callback was never delivered.
UndeliveredUnlinked ==
    \A s \in Sagas : (\A c \in Callbacks : cb[c].saga # s) => s \notin conns

TidyInv == UndeliveredUnlinked /\ \A c \in Callbacks : Tidy(c)

\* A step that no lone delivery notices.
LEMMA TidyStutter ==
    ASSUME TidyInv, UNCHANGED <<conns, cb>>,
           \A c \in Callbacks : cb[c].pc = "done" =>
               /\ Green(cb[c].saga) => Green(cb[c].saga)'
               /\ Present(rows[c])' => Present(rows[c])
    PROVE  TidyInv'
BY DEF TidyInv, UndeliveredUnlinked, Tidy, Alone, Green

LEMMA TidyInitiate ==
    ASSUME TypeOK, IInv, TidyInv, NEW s \in Sagas, InitiateStep(s) \/ Passing(s)
    PROVE  TidyInv'
<1>1. UNCHANGED <<conns, cb, rows>>
  BY DEF InitiateStep, Passing, InsertSaga, RegisterNonce, RegisterFails,
     DeleteSaga, CrashInitiate, StateExpires, NonceExpires
<1>2. ASSUME NEW c \in Callbacks, cb[c].pc = "done", Green(cb[c].saga)
      PROVE  Green(cb[c].saga)'
  <2>1. init[cb[c].saga] = "returned" /\ cb[c].saga \in Sagas
    BY <1>2 DEF IInv, Entered
  <2>2. sagas'[cb[c].saga] = sagas[cb[c].saga]
    BY <2>1 DEF InitiateStep, Passing, InsertSaga, RegisterNonce, RegisterFails,
       DeleteSaga, CrashInitiate, StateExpires, NonceExpires, TypeOK
  <2>. QED
    BY <1>1, <1>2, <2>2 DEF Green
<1>. QED
  BY <1>1, <1>2, TidyStutter DEF Present

LEMMA TidyRevoke ==
    ASSUME TypeOK, IInv, TidyInv, NEW team \in Teams, RevokeTeam(team)
    PROVE  TidyInv'
<1>1. UNCHANGED <<conns, cb, sagas>> /\ rows' = RevokeActive(rows, team)
  BY DEF RevokeTeam
<1>2. \A c \in Callbacks : Present(rows[c])' => Present(rows[c])
  BY <1>1, RevokeActiveFacts DEF TypeOK, TokenRow, Present
<1>. QED
  BY <1>1, <1>2, TidyStutter DEF Green

LEMMA TidyDeliver ==
    ASSUME TypeOK, IInv, TidyInv, NEW c \in Callbacks, NEW s \in Sagas,
           DeliverCode(c, s) \/ DeliverError(c, s)
    PROVE  TidyInv'
<1>1. /\ cb[c].pc = "idle"
      /\ UNCHANGED <<sagas, rows, conns>>
      /\ cb'[c].saga = s /\ cb'[c].pc \in {"consume", "done", "fail"}
      /\ \A d \in Callbacks : d # c => cb'[d] = cb[d]
  BY DEF DeliverCode, DeliverError, TypeOK
<1>2. cb[c].saga = None /\ ~Present(rows[c])
  BY <1>1 DEF TidyInv, Tidy, IInv, Positions
<1>3. \A q \in Sagas : (\A d \in Callbacks : cb'[d].saga # q) =>
          \A d \in Callbacks : cb[d].saga # q
  BY <1>1, <1>2, NamesAssumption
<1>4. UndeliveredUnlinked'
  BY <1>1, <1>3 DEF TidyInv, UndeliveredUnlinked
<1>5. Tidy(c)'
  <2>. SUFFICES ASSUME Alone(c)' PROVE s \notin conns
    BY <1>1, <1>2 DEF Tidy, Present
  <2>1. \A d \in Callbacks : cb[d].saga # s
    BY <1>1, <1>2, NamesAssumption DEF Alone
  <2>. QED
    BY <2>1 DEF TidyInv, UndeliveredUnlinked
<1>6. ASSUME NEW d \in Callbacks, d # c PROVE Tidy(d)'
  <2>1. cb[d].pc # "idle" => cb[d].saga \in Sagas
    BY DEF IInv, Entered
  <2>2. cb[d].pc # "idle" /\ Alone(d)' => Alone(d)
    BY <1>1, <1>2, <1>6, <2>1, NamesAssumption DEF Alone
  <2>. QED
    BY <1>1, <1>6, <2>2 DEF TidyInv, Tidy, Green, Present
<1>. QED
  BY <1>4, <1>5, <1>6 DEF TidyInv

\* A handler of another saga does nothing to this one, and one of the same
\* saga is not alone with it.
LEMMA TidyBystanders ==
    ASSUME TypeOK, IInv, TidyInv, NEW c \in Callbacks, NEW s, s = cb[c].saga,
           s \in Sagas, cb'[c].saga = s, cb'[c].pc # "idle",
           \A d \in Callbacks : d # c => cb'[d] = cb[d],
           \A q \in Sagas : q # s => sagas'[q] = sagas[q] /\ (q \in conns' => q \in conns),
           \A d \in Callbacks : d # c /\ Present(rows[d])' => Present(rows[d]),
           Tidy(c)'
    PROVE  TidyInv'
<1>1. UndeliveredUnlinked'
  BY DEF TidyInv, UndeliveredUnlinked
<1>2. ASSUME NEW d \in Callbacks, d # c PROVE Tidy(d)'
  <2>1. CASE cb[d].saga = s
    BY <1>2, <2>1 DEF TidyInv, Tidy, Alone
  <2>2. CASE cb[d].saga # s
    <3>1. Alone(d)' => Alone(d)
      BY <1>2, <2>2 DEF Alone
    <3>2. cb[d].pc # "idle" => cb[d].saga \in Sagas
      BY DEF IInv, Entered
    <3>. QED
      BY <1>2, <2>2, <3>1, <3>2 DEF TidyInv, Tidy, Green
  <2>. QED
    BY <2>1, <2>2
<1>. QED
  BY <1>1, <1>2 DEF TidyInv

LEMMA TidyCallback ==
    ASSUME Recovered, TypeOK, IInv, TidyInv, NEW c \in Callbacks,
           CallbackStep(c) \/ CrashCallback(c)
    PROVE  TidyInv'
<1>1. PICK s : s = cb[c].saga
  OBVIOUS
<1>2. /\ "crash" \notin Faults
      /\ "ap_lost_reply" \notin Faults
      /\ "ap_cleanup" \notin Faults
  BY DEF Recovered
<1>3. cb[c].pc \in BusyPC /\ s \in Sagas
  BY <1>1, <1>2 DEF CallbackStep, ConsumeNonce, ConsumeFails, ExchangeCode,
     ExchangeFails, RevokePredecessor, InsertToken, PersistFails, CreateConnection,
     CreateConnectionFails, Finalize, FinalizeFails, Unlink, Compensate, MarkFailed,
     CrashCallback, BusyPC, OwnerPC, IInv, Entered
<1>4. Tidy(c) /\ cb[c].pc # "idle"
  BY <1>3 DEF TidyInv, BusyPC, OwnerPC
<1>5. /\ cb'[c].saga = s
      /\ \A d \in Callbacks : d # c => cb'[d] = cb[d]
  BY <1>1, <1>2 DEF CallbackStep, ConsumeNonce, ConsumeFails, ExchangeCode,
     ExchangeFails, RevokePredecessor, InsertToken, PersistFails, CreateConnection,
     CreateConnectionFails, Finalize, FinalizeFails, Unlink, Compensate, MarkFailed,
     CrashCallback, Goto, TypeOK
<1>6. \A q \in Sagas : q # s => sagas'[q] = sagas[q] /\ (q \in conns' => q \in conns)
  BY <1>1, <1>2 DEF CallbackStep, ConsumeNonce, ConsumeFails, ExchangeCode,
     ExchangeFails, RevokePredecessor, InsertToken, PersistFails, CreateConnection,
     CreateConnectionFails, Finalize, FinalizeFails, Unlink, Compensate, MarkFailed,
     CrashCallback, TypeOK
<1>7. \A d \in Callbacks : d # c /\ Present(rows[d])' => Present(rows[d])
  <2>1. CASE InsertToken(c)
    <3>1. rows' = PersistedRows(c)
      BY <2>1 DEF InsertToken
    <3>. QED
      BY <3>1, PersistedRowsFacts DEF Present
  <2>2. CASE Compensate(c) \/ Finalize(c)
    BY <2>2 DEF Compensate, Finalize, TypeOK, Present
  <2>3. CASE rows' = rows
    BY <2>3 DEF Present
  <2>. QED
    BY <2>1, <2>2, <2>3 DEF CallbackStep, ConsumeNonce, ConsumeFails, ExchangeCode,
       ExchangeFails, RevokePredecessor, PersistFails, CreateConnection, CreateConnectionFails,
       FinalizeFails, Unlink, MarkFailed, CrashCallback
<1>8. Alone(c)' => Alone(c)
  BY <1>1, <1>5 DEF Alone
<1>9. cb'[c].pc # "idle" /\ Tidy(c)'
  <2>1. CASE ConsumeNonce(c)
    <3>1. cb'[c].pc \in {"exchange", "fail"} /\ conns' = conns /\ cb[c].pc = "consume"
      BY <2>1 DEF ConsumeNonce, Goto, TypeOK
    <3>. QED
      BY <1>1, <1>4, <1>5, <1>8, <3>1 DEF Tidy, Unlinked
  <2>2. CASE ConsumeFails(c)
    <3>1. /\ cb'[c].pc = "done" /\ cb[c].pc = "consume"
          /\ UNCHANGED <<conns, rows>>
      BY <2>2 DEF ConsumeFails, Goto, TypeOK
    <3>2. ~Present(rows[c])
      BY <3>1 DEF IInv, Positions
    <3>. QED
      BY <1>1, <1>4, <1>5, <1>8, <3>1, <3>2 DEF Tidy, Unlinked, Present
  <2>3. CASE ExchangeCode(c) \/ ExchangeFails(c)
    <3>1. cb'[c].pc \in {"persist", "fail"} /\ conns' = conns /\ cb[c].pc = "exchange"
      BY <2>3 DEF ExchangeCode, ExchangeFails, Goto, TypeOK
    <3>. QED
      BY <1>1, <1>4, <1>5, <1>8, <3>1 DEF Tidy, Unlinked
  <2>4. CASE RevokePredecessor(c) \/ InsertToken(c) \/ PersistFails(c)
    <3>1. /\ cb'[c].pc \in {"insert", "link", "fail"} /\ conns' = conns
          /\ cb[c].pc \in {"persist", "insert"}
      BY <2>4 DEF RevokePredecessor, InsertToken, PersistFails, Goto, TypeOK
    <3>. QED
      BY <1>1, <1>4, <1>5, <1>8, <3>1 DEF Tidy, Unlinked
  <2>5. CASE CreateConnection(c) \/ FinalizeFails(c)
    <3>1. cb'[c].pc \in {"finalize", "unlink"}
      BY <2>5 DEF CreateConnection, FinalizeFails, Goto, TypeOK
    <3>. QED
      BY <3>1 DEF Tidy, Unlinked
  <2>6. CASE CreateConnectionFails(c)
    <3>1. cb'[c].pc = "compensate" /\ conns' = conns /\ cb[c].pc = "link"
      BY <1>2, <2>6 DEF CreateConnectionFails, Goto, TypeOK
    <3>. QED
      BY <1>1, <1>4, <1>5, <1>8, <3>1 DEF Tidy, Unlinked
  <2>7. CASE Finalize(c)
    <3>1. cb'[c].pc = "done" /\ sagas'[s].status = "COMPLETED"
      BY <1>1, <1>3, <2>7 DEF Finalize, Goto, TypeOK
    <3>. QED
      BY <1>5, <3>1 DEF Tidy, Unlinked, Green
  <2>8. CASE Unlink(c)
    <3>1. cb'[c].pc = "compensate" /\ conns' = conns \ {s}
      BY <1>1, <1>2, <2>8 DEF Unlink, Goto, TypeOK
    <3>. QED
      BY <1>5, <3>1 DEF Tidy, Unlinked
  <2>9. CASE Compensate(c)
    <3>1. /\ cb'[c].pc = "done" /\ conns' = conns /\ cb[c].pc = "compensate"
          /\ ~Present(rows'[c])
      BY <2>9 DEF Compensate, Goto, TypeOK, Present, AbsentRow
    <3>. QED
      BY <1>1, <1>4, <1>5, <1>8, <3>1 DEF Tidy, Unlinked
  <2>10. CASE MarkFailed(c)
    <3>1. /\ cb'[c].pc = "done" /\ cb[c].pc = "fail"
          /\ UNCHANGED <<conns, rows>>
      BY <2>10 DEF MarkFailed, Goto, TypeOK
    <3>2. ~Present(rows[c])
      BY <3>1 DEF IInv, Positions
    <3>. QED
      BY <1>1, <1>4, <1>5, <1>8, <3>1, <3>2 DEF Tidy, Unlinked, Present
  <2>. QED
    BY <1>2, <2>1, <2>2, <2>3, <2>4, <2>5, <2>6, <2>7, <2>8, <2>9, <2>10
       DEF CallbackStep, CrashCallback
<1>. QED
  BY <1>1, <1>3, <1>5, <1>6, <1>7, <1>9, TidyBystanders

LEMMA TidyInvariant ==
    ASSUME Recovered
    PROVE  Spec => []TidyInv
<1>1. Init => TidyInv
  BY NamesAssumption DEF Init, TidyInv, UndeliveredUnlinked, Tidy, IdleCallback
<1>2. ASSUME TypeOK, IInv, TidyInv, [Next]_vars PROVE TidyInv'
  <2>1. CASE UNCHANGED vars
    BY <1>2, <2>1, TidyStutter DEF vars, Green, Present
  <2>. QED
    BY <1>2, <2>1, TidyInitiate, TidyDeliver, TidyCallback, TidyRevoke DEF Next
<1>. QED
  BY <1>1, <1>2, SpecInvariant, PTL DEF Spec

\* When the only delivery of a saga has ended, the saga is COMPLETED, or AP has
\* no connection of it and the vault no row, unless the process was killed, an
\* answer of AP was lost or its clean-up failed silently.
THEOREM NoGhostAlone ==
    ASSUME Recovered
    PROVE  Spec => []NoGhostOnSingleDelivery
<1>1. ASSUME TypeOK, IInv, TidyInv, NEW s \in Sagas, Quiet(s),
             \A c, d \in Callbacks : cb[c].saga = s /\ cb[d].saga = s => c = d
      PROVE  Green(s) \/ RolledBack(s)
  <2>1. CASE \E c \in Callbacks : cb[c].saga = s
    <3>1. PICK c \in Callbacks : cb[c].saga = s
      BY <2>1
    <3>2. Alone(c) /\ Tidy(c)
      BY <1>1, <3>1 DEF Alone, TidyInv
    <3>3. cb[c].pc = "done"
      BY <1>1, <3>1, <3>2, NamesAssumption DEF Tidy, Quiet, TypeOK, CallbackPC
    <3>. QED
      BY <1>1, <3>1, <3>2, <3>3 DEF Tidy, RolledBack
  <2>2. CASE \A c \in Callbacks : cb[c].saga # s
    BY <1>1, <2>2 DEF TidyInv, UndeliveredUnlinked, RolledBack
  <2>. QED
    BY <2>1, <2>2
<1>2. TypeOK /\ IInv /\ TidyInv => NoGhostOnSingleDelivery
  BY <1>1 DEF NoGhostOnSingleDelivery
<1>. QED
  BY <1>2, SpecInvariant, TidyInvariant, PTL
=============================================================================
