------------------------- MODULE SseSessionsProofs --------------------------
(***************************************************************************)
(* Theorems about SseSessions and the authentication it runs behind, for   *)
(* any keys, projects, runs of the seeding script, sessions and replicas.  *)
(***************************************************************************)
EXTENDS SseSessions, TLAPS

\* A run that is about to revoke keys has seen them with its own project.
OwnVictims ==
    \A s \in Seedings : \A k \in seeding[s].victims :
        keyRow[k].state # "none" /\ keyRow[k].project = seeding[s].project

\* A stream that is read has its queue.
OpenHasQueue ==
    \A s \in Opens : stream[s].pc \in {"endpoint", "open"} => queue[s] # None

\* Only what the middleware admitted has a handler, and a message is only sent to
\* a session whose stream was opened.
Entered ==
    /\ \A s \in Opens : stream[s].pc # "none" => req[s].pc = "admitted"
    /\ \A m \in Messages :
          /\ msg[m].pc # "none" => req[m].pc = "admitted"
          /\ msg[m].to # None => stream[msg[m].to].pc # "none"
          /\ msg[m].pc = "none" => msg[m].to = None /\ msg[m].pid = None

\* A tool that is about to run, or has run, has passed the check of the tenants.
Checked ==
    \A m \in Messages :
        msg[m].to # None /\ msg[m].pc \in {"run", "put"} => Agree(m)

IInv ==
    /\ TypeOK
    /\ OwnVictims
    /\ OpenHasQueue
    /\ Entered
    /\ Checked
    /\ RunsInOwnProject

-----------------------------------------------------------------------------
(* Types.                                                                  *)

\* The initial values have their types.
LEMMA InitType == Init => TypeOK
<1> SUFFICES ASSUME Init PROVE TypeOK OBVIOUS
<1>1. Idle \in Seeding
  <2>1. (CHOOSE k \in Keys : TRUE) \in Keys
    BY ProjectsAssumption
  <2> QED BY <2>1, ProjectsAssumption DEF Idle, Seeding
<1>2. \A p \in Projects : TenantOf[p] \in Tenants \cup {None}
  BY ProjectsAssumption
<1>3. AuthTypeOK
  BY <1>1, <1>2, ProjectsAssumption DEF Init, AuthInit, AuthTypeOK, NoKey, KeyRow, Decision
<1>4. (CHOOSE w \in Replicas : TRUE) \in Replicas
  BY RequestsAssumption
<1>5. stream \in [Opens -> Stream] /\ msg \in [Messages -> Handling]
  BY <1>4 DEF Init, Stream, Handling
<1> QED BY <1>3, <1>5 DEF Init, TypeOK, SseTypeOK

\* A run of the script keeps the types.
LEMMA SeedType ==
    ASSUME AuthTypeOK, NEW s \in Seedings, SeedStep(s)
    PROVE  AuthTypeOK'
<1>1. ASSUME NEW pc \in {"create", "check", "insert", "done"}, NEW victims \in SUBSET Keys
      PROVE  [seeding[s] EXCEPT !.pc = pc, !.victims = victims] \in Seeding
  BY DEF AuthTypeOK, Seeding
<1>2. [Idle EXCEPT !.pc = "done"] \in Seeding
  <2>1. (CHOOSE k \in Keys : TRUE) \in Keys
    BY ProjectsAssumption
  <2> QED BY <2>1, ProjectsAssumption DEF Idle, Seeding
<1>3. ASSUME NEW args \in SeedArgs, StartSeeding(s, args) PROVE AuthTypeOK'
  <2>1. /\ args.key \in Keys /\ args.project \in Projects /\ args.rotate \in BOOLEAN
    BY ProjectsAssumption
  <2>2. seeding' \in [Seedings -> Seeding]
    BY <1>3, <2>1 DEF StartSeeding, AuthTypeOK, Seeding
  <2> QED BY <1>3, <2>2 DEF StartSeeding, AuthTypeOK
<1>4. CASE CreateProject(s)
  <2>1. [seeding[s] EXCEPT !.pc = "check"] \in Seeding /\ seeding[s].project \in Projects
    BY DEF AuthTypeOK, Seeding
  <2> QED BY <1>4, <2>1 DEF CreateProject, SeedTo, AuthTypeOK
<1>5. CASE CheckAndRevoke(s)
  <2>1. Live(seeding[s].project) \subseteq Keys
    BY DEF Live
  <2>2. seeding' \in [Seedings -> Seeding]
    BY <1>1, <1>2, <1>5, <2>1 DEF CheckAndRevoke, AuthTypeOK
  <2> QED BY <1>5, <2>2 DEF CheckAndRevoke, AuthTypeOK
<1>6. CASE InsertKey(s)
  <2>1. PICK t \in Tenants \cup {None} :
           keyRow' = [Revoke(keyRow, seeding[s].victims) EXCEPT ![seeding[s].key] =
                        [state |-> "live", project |-> seeding[s].project, tenant |-> t]]
    BY <1>6 DEF InsertKey
  <2>2. seeding[s].project \in Projects
    BY DEF AuthTypeOK, Seeding
  <2>3. [state |-> "live", project |-> seeding[s].project, tenant |-> t] \in KeyRow
    BY <2>2, ProjectsAssumption DEF KeyRow
  <2>4. Revoke(keyRow, seeding[s].victims) \in [Keys -> KeyRow]
    <3>1. \A k \in Keys : [keyRow[k] EXCEPT !.state = "revoked"] \in KeyRow
      BY DEF AuthTypeOK, KeyRow
    <3> QED BY <3>1 DEF Revoke, AuthTypeOK
  <2>5. keyRow' \in [Keys -> KeyRow]
    BY <2>1, <2>3, <2>4
  <2> QED BY <1>2, <1>6, <2>5 DEF InsertKey, Exit, AuthTypeOK
<1>7. CASE SeedingFails(s)
  BY <1>2, <1>7 DEF SeedingFails, Exit, AuthTypeOK
<1> QED BY <1>3, <1>4, <1>5, <1>6, <1>7 DEF SeedStep

\* What a decision of the middleware writes.
LEMMA AuthStepIs ==
    ASSUME AuthTypeOK, NEW r \in Requests, AuthStep(r)
    PROVE  /\ req[r].pc = "idle" /\ UNCHANGED <<known, keyRow, seeding>>
           /\ \E d \in Decision : req' = [req EXCEPT ![r] = d]
<1>1. PICK k \in Keys \cup {None}, claim \in Claims :
        AdmitBound(r, k, claim) \/ AdmitUnbound(r, k, claim) \/ Refuse(r, k, claim)
  BY DEF AuthStep
<1>2. CASE AdmitBound(r, k, claim)
  <2>1. k \in Keys
    BY <1>2 DEF AdmitBound, Bound, Found
  <2>2. [pc |-> "admitted", project |-> keyRow[k].project] \in Decision
    BY <2>1 DEF AuthTypeOK, KeyRow, Decision
  <2> QED BY <1>2, <2>2 DEF AdmitBound, Verdict
<1>3. CASE AdmitUnbound(r, k, claim) \/ Refuse(r, k, claim)
  <2>1. /\ [pc |-> "admitted", project |-> None] \in Decision
        /\ [pc |-> "refused", project |-> None] \in Decision
    BY DEF Decision
  <2> QED BY <1>3, <2>1 DEF AdmitUnbound, Refuse, Verdict
<1> QED BY <1>1, <1>2, <1>3

\* The authentication keeps its types.
LEMMA AuthType == AuthTypeOK /\ AuthNext => AuthTypeOK'
<1> SUFFICES ASSUME AuthTypeOK, AuthNext PROVE AuthTypeOK' OBVIOUS
<1>1. ASSUME NEW r \in Requests, AuthStep(r) PROVE AuthTypeOK'
  BY <1>1, AuthStepIs DEF AuthTypeOK
<1> QED BY <1>1, SeedType DEF AuthNext

\* A stream keeps its types; a reply is only taken from a queue that is there.
LEMMA StreamType ==
    ASSUME TypeOK, OpenHasQueue, NEW s \in Opens, StreamStep(s)
    PROVE  TypeOK'
<1> USE DEF TypeOK, SseTypeOK
<1>1. AuthTypeOK' /\ msg' \in [Messages -> Handling]
  BY DEF StreamStep, SaveSession, CreateQueue, SendEndpoint, LeaveEarly, Deliver, Disconnect,
         PopQueue, SessionExpires, authVars, AuthTypeOK
<1>2. ASSUME NEW pc \in {"queue", "endpoint", "open", "delete", "closed"}, StreamTo(s, pc)
      PROVE  stream' \in [Opens -> Stream]
  <2>1. [stream[s] EXCEPT !.pc = pc] \in Stream
    BY <1>2 DEF Stream
  <2> QED BY <1>2, <2>1 DEF StreamTo
<1>3. ASSUME NEW w \in Replicas, SaveSession(s, w) PROVE TypeOK'
  <2>1. [pc |-> "queue", at |-> w] \in Stream
    BY DEF Stream
  <2>2. stream' \in [Opens -> Stream]
    BY <1>3, <2>1 DEF SaveSession
  <2>3. redis' \subseteq Opens /\ memory' \in [Replicas -> SUBSET Opens]
    BY <1>3 DEF SaveSession
  <2> QED BY <1>1, <1>3, <2>2, <2>3 DEF SaveSession
<1>4. CASE CreateQueue(s)
  <2>1. stream' \in [Opens -> Stream]
    BY <1>2, <1>4 DEF CreateQueue
  <2>2. <<>> \in Seq(Messages)
    OBVIOUS
  <2> QED BY <1>1, <1>4, <2>1, <2>2 DEF CreateQueue
<1>5. CASE SendEndpoint(s) \/ LeaveEarly(s)
  <2>1. stream' \in [Opens -> Stream]
    BY <1>2, <1>5 DEF SendEndpoint, LeaveEarly
  <2> QED BY <1>1, <1>5, <2>1 DEF SendEndpoint, LeaveEarly
<1>6. CASE Deliver(s)
  <2>1. queue[s] \in Seq(Messages) /\ queue[s] # <<>>
    BY <1>6 DEF Deliver, OpenHasQueue
  <2>2. Head(queue[s]) \in Messages /\ Tail(queue[s]) \in Seq(Messages)
    BY <2>1
  <2> QED BY <1>1, <1>6, <2>2 DEF Deliver
<1>7. CASE Disconnect(s)
  <2>1. stream' \in [Opens -> Stream]
    BY <1>2, <1>7 DEF Disconnect
  <2> QED BY <1>1, <1>7, <2>1 DEF Disconnect
<1>8. CASE PopQueue(s)
  <2>1. stream' \in [Opens -> Stream]
    BY <1>2, <1>8 DEF PopQueue
  <2>2. memory' \in [Replicas -> SUBSET Opens]
    BY <1>8 DEF PopQueue
  <2> QED BY <1>1, <1>8, <2>1, <2>2 DEF PopQueue
<1>9. CASE SessionExpires(s)
  BY <1>1, <1>9 DEF SessionExpires
<1> QED BY <1>3, <1>4, <1>5, <1>6, <1>7, <1>8, <1>9 DEF StreamStep

\* The project a tool runs in is a project.
LEMMA ResolvePidType ==
    ASSUME NEW verified \in Projects \cup {None}, NEW argument \in Projects \cup {None}
    PROVE  ResolvePid(verified, argument) \in Projects
BY ProjectsAssumption DEF ResolvePid

\* The project the checks have verified is one, or none.
LEMMA VerifiedType ==
    ASSUME TypeOK, NEW m \in Messages
    PROVE  Verified(m) \in Projects \cup {None}
<1>1. msg[m].to \in Opens \cup {None}
  BY DEF TypeOK, SseTypeOK, Handling
<1>2. \A r \in Requests : req[r].project \in Projects \cup {None}
  BY DEF TypeOK, AuthTypeOK, Decision
<1> QED BY <1>1, <1>2, RequestsAssumption DEF Verified

\* The handler of a message keeps its types.
LEMMA MessageType ==
    ASSUME TypeOK, NEW m \in Messages, MessageStep(m)
    PROVE  TypeOK'
<1> USE DEF TypeOK, SseTypeOK
<1>1. /\ AuthTypeOK' /\ redis' = redis /\ memory' = memory /\ stream' = stream
      /\ received' = received
  BY DEF MessageStep, Handle, LoadSession, CheckSession, RunTool, PutReply, authVars, AuthTypeOK
<1>2. ASSUME NEW pc \in {"check", "run", "put", "accepted", "answered", "refused"}, MsgTo(m, pc)
      PROVE  msg' \in [Messages -> Handling]
  <2>1. [msg[m] EXCEPT !.pc = pc] \in Handling
    BY <1>2 DEF Handling
  <2> QED BY <1>2, <2>1 DEF MsgTo
<1>3. ASSUME NEW w \in Replicas, Handle(m, w) PROVE TypeOK'
  <2>1. msg' \in [Messages -> Handling]
    BY <1>3 DEF Handle, Handling
  <2> QED BY <1>1, <1>3, <2>1 DEF Handle
<1>4. CASE LoadSession(m) \/ CheckSession(m)
  <2>1. msg' \in [Messages -> Handling]
    BY <1>2, <1>4 DEF LoadSession, CheckSession
  <2> QED BY <1>1, <1>4, <2>1 DEF LoadSession, CheckSession
<1>5. CASE RunTool(m)
  <2>1. PICK argument \in Projects \cup {None} :
           msg' = [msg EXCEPT ![m].pid = ResolvePid(Verified(m), argument),
                              ![m].pc = IF msg[m].to = None THEN "answered" ELSE "put"]
    BY <1>5 DEF RunTool
  <2>2. ResolvePid(Verified(m), argument) \in Projects
    BY VerifiedType, ResolvePidType
  <2>3. [msg[m] EXCEPT !.pid = ResolvePid(Verified(m), argument),
                       !.pc = IF msg[m].to = None THEN "answered" ELSE "put"] \in Handling
    BY <2>2 DEF Handling
  <2>4. msg' \in [Messages -> Handling]
    BY <2>1, <2>3
  <2> QED BY <1>1, <1>5, <2>4 DEF RunTool
<1>6. CASE PutReply(m)
  <2>1. msg' \in [Messages -> Handling]
    BY <1>2, <1>6 DEF PutReply
  <2>2. queue' \in [Opens -> Seq(Messages) \cup {None}]
    <3>1. CASE queue[msg[m].to] = None
      BY <1>6, <3>1 DEF PutReply
    <3>2. CASE queue[msg[m].to] # None
      <4>1. ASSUME msg[m].to \in Opens
            PROVE  Append(queue[msg[m].to], m) \in Seq(Messages)
        BY <3>2, <4>1
      <4> QED BY <1>6, <3>2, <4>1 DEF PutReply
    <3> QED BY <3>1, <3>2
  <2> QED BY <1>1, <1>6, <2>1, <2>2 DEF PutReply
<1> QED BY <1>3, <1>4, <1>5, <1>6 DEF MessageStep

\* A restart keeps the types.
LEMMA RestartType ==
    ASSUME TypeOK, NEW w \in Replicas, Restart(w)
    PROVE  TypeOK'
<1> USE DEF TypeOK, SseTypeOK
<1>1. AuthTypeOK' /\ redis' = redis /\ received' = received
  BY DEF Restart, authVars, AuthTypeOK
<1>2. memory' \in [Replicas -> SUBSET Opens] /\ queue' \in [Opens -> Seq(Messages) \cup {None}]
  BY DEF Restart
<1>3. stream' \in [Opens -> Stream]
  <2>1. \A s \in Opens : [stream[s] EXCEPT !.pc = "closed"] \in Stream
    BY DEF Stream
  <2> QED BY <2>1 DEF Restart
<1>4. msg' \in [Messages -> Handling]
  <2>1. \A m \in Messages : [msg[m] EXCEPT !.pc = "lost"] \in Handling
    BY DEF Handling
  <2> QED BY <2>1 DEF Restart
<1> QED BY <1>1, <1>2, <1>3, <1>4

-----------------------------------------------------------------------------
(* The invariant, part by part.                                            *)

\* The middleware decides once: what it admitted stays as it was admitted.
LEMMA DecidedOnce ==
    ASSUME TypeOK, Next, NEW r \in Requests, req[r].pc # "idle"
    PROVE  req'[r] = req[r]
<1>1. CASE AuthNext
  <2>1. CASE \E s \in Seedings : SeedStep(s)
    BY <2>1 DEF SeedStep, StartSeeding, CreateProject, CheckAndRevoke, InsertKey, SeedingFails
  <2>2. ASSUME NEW o \in Requests, AuthStep(o) PROVE req'[r] = req[r]
    BY <2>2, AuthStepIs DEF TypeOK, AuthTypeOK
  <2> QED BY <1>1, <2>1, <2>2 DEF AuthNext
<1>2. CASE UNCHANGED authVars
  BY <1>2 DEF authVars
<1> QED BY <1>1, <1>2
        DEF Next, StreamStep, MessageStep, SaveSession, CreateQueue, SendEndpoint, LeaveEarly,
            Deliver, Disconnect, PopQueue, SessionExpires, Handle, LoadSession, CheckSession,
            RunTool, PutReply, Restart

\* A stream that was opened does not become unopened.
LEMMA OpenedStays ==
    ASSUME TypeOK, Next, NEW s \in Opens, stream[s].pc # "none"
    PROVE  stream'[s].pc # "none"
<1>1. CASE AuthNext /\ UNCHANGED sseVars
  BY <1>1 DEF sseVars
<1>2. ASSUME NEW o \in Opens, StreamStep(o) PROVE stream'[s].pc # "none"
  BY <1>2 DEF StreamStep, SaveSession, CreateQueue, SendEndpoint, LeaveEarly, Deliver,
              Disconnect, PopQueue, SessionExpires, StreamTo, TypeOK, SseTypeOK, Stream
<1>3. ASSUME NEW m \in Messages, MessageStep(m) PROVE stream'[s].pc # "none"
  BY <1>3 DEF MessageStep, Handle, LoadSession, CheckSession, RunTool, PutReply
<1>4. ASSUME NEW w \in Replicas, Restart(w) PROVE stream'[s].pc # "none"
  BY <1>4 DEF Restart, TypeOK, SseTypeOK, Stream
<1> QED BY <1>1, <1>2, <1>3, <1>4 DEF Next

\* OwnVictims: rows keep their project, and a run looks at its own project's only.
LEMMA VictimsStep ==
    ASSUME AuthTypeOK, OwnVictims, NEW s \in Seedings, SeedStep(s)
    PROVE  OwnVictims'
<1>1. \A o \in Seedings : o # s => seeding'[o] = seeding[o]
  BY DEF SeedStep, StartSeeding, CreateProject, CheckAndRevoke, InsertKey, SeedingFails, SeedTo,
         Exit, AuthTypeOK
<1>2. \A k \in Keys : keyRow[k].state # "none" =>
         keyRow'[k].state # "none" /\ keyRow'[k].project = keyRow[k].project
  <2>1. CASE InsertKey(s)
    <3>1. PICK t \in Tenants \cup {None} :
             keyRow' = [Revoke(keyRow, seeding[s].victims) EXCEPT ![seeding[s].key] =
                          [state |-> "live", project |-> seeding[s].project, tenant |-> t]]
      BY <2>1 DEF InsertKey
    <3>2. keyRow[seeding[s].key].state = "none"
      BY <2>1 DEF InsertKey
    <3>3. ASSUME NEW k \in Keys, keyRow[k].state # "none"
          PROVE  keyRow'[k] = IF k \in seeding[s].victims
                              THEN [keyRow[k] EXCEPT !.state = "revoked"] ELSE keyRow[k]
      BY <3>1, <3>2, <3>3 DEF Revoke
    <3> QED BY <3>3 DEF AuthTypeOK, KeyRow
  <2>2. CASE UNCHANGED keyRow
    BY <2>2
  <2> QED BY <2>1, <2>2 DEF SeedStep, StartSeeding, CreateProject, CheckAndRevoke, SeedingFails
<1>3. \A k \in seeding'[s].victims :
         keyRow[k].state # "none" /\ keyRow[k].project = seeding'[s].project
  <2>1. ASSUME NEW args \in SeedArgs, StartSeeding(s, args) PROVE seeding'[s].victims = {}
    BY <2>1 DEF StartSeeding, AuthTypeOK
  <2>2. CASE CreateProject(s)
    BY <2>2 DEF CreateProject, SeedTo, AuthTypeOK, Seeding, OwnVictims
  <2>3. CASE CheckAndRevoke(s)
    <3>1. \/ seeding'[s].victims = {}
          \/ seeding'[s].victims = Live(seeding[s].project)
      BY <2>3 DEF CheckAndRevoke, AuthTypeOK, Seeding, Idle
    <3>2. seeding'[s].victims = {} \/ seeding'[s].project = seeding[s].project
      BY <2>3 DEF CheckAndRevoke, AuthTypeOK, Seeding, Idle
    <3> QED BY <3>1, <3>2 DEF Live
  <2>4. CASE InsertKey(s) \/ SeedingFails(s)
    <3>1. seeding'[s].victims = {}
      BY <2>4 DEF InsertKey, SeedingFails, Exit, Idle, AuthTypeOK
    <3> QED BY <3>1
  <2> QED BY <2>1, <2>2, <2>3, <2>4 DEF SeedStep
<1>4. \A o \in Seedings : seeding'[o].victims \subseteq Keys
  BY SeedType DEF AuthTypeOK, Seeding
<1>5. ASSUME NEW o \in Seedings, NEW k \in seeding'[o].victims
      PROVE  keyRow[k].state # "none" /\ keyRow[k].project = seeding'[o].project
  BY <1>1, <1>3, <1>5 DEF OwnVictims
<1> QED BY <1>2, <1>4, <1>5 DEF OwnVictims

\* OpenHasQueue: the queue is made before the first event, and goes when the
\* stream has ended or with its replica.
LEMMA QueueStep ==
    ASSUME TypeOK, OpenHasQueue, Next
    PROVE  OpenHasQueue'
<1>1. CASE UNCHANGED <<stream, queue>>
  BY <1>1 DEF OpenHasQueue
<1>2. ASSUME NEW s \in Opens, StreamStep(s) PROVE OpenHasQueue'
  <2>1. \A o \in Opens : o # s => stream'[o] = stream[o] /\ queue'[o] = queue[o]
    BY <1>2 DEF StreamStep, SaveSession, CreateQueue, SendEndpoint, LeaveEarly, Deliver,
                Disconnect, PopQueue, SessionExpires, StreamTo, TypeOK, SseTypeOK
  <2>2. stream'[s].pc \in {"endpoint", "open"} => queue'[s] # None
    <3>1. ASSUME NEW w \in Replicas, SaveSession(s, w) PROVE stream'[s].pc = "queue"
      BY <3>1 DEF SaveSession, TypeOK, SseTypeOK
    <3>2. CASE CreateQueue(s)
      <4>1. queue'[s] = <<>>
        BY <3>2 DEF CreateQueue, TypeOK, SseTypeOK
      <4>2. <<>> \in Seq(Messages)
        OBVIOUS
      <4> QED BY <4>1, <4>2, RequestsAssumption
    <3>3. CASE SendEndpoint(s) \/ LeaveEarly(s)
      BY <3>3 DEF SendEndpoint, LeaveEarly, StreamTo, TypeOK, SseTypeOK, Stream, OpenHasQueue
    <3>4. CASE Deliver(s)
      <4>1. queue[s] \in Seq(Messages) /\ queue[s] # <<>>
        BY <3>4 DEF Deliver, OpenHasQueue, TypeOK, SseTypeOK
      <4>2. queue'[s] = Tail(queue[s])
        BY <3>4 DEF Deliver, TypeOK, SseTypeOK
      <4>3. queue'[s] \in Seq(Messages)
        BY <4>1, <4>2
      <4> QED BY <4>3, RequestsAssumption
    <3>5. CASE Disconnect(s) \/ PopQueue(s)
      BY <3>5 DEF Disconnect, PopQueue, StreamTo, TypeOK, SseTypeOK, Stream
    <3>6. CASE SessionExpires(s)
      BY <3>6 DEF SessionExpires, OpenHasQueue
    <3> QED BY <1>2, <3>1, <3>2, <3>3, <3>4, <3>5, <3>6 DEF StreamStep
  <2> QED BY <2>1, <2>2 DEF OpenHasQueue
<1>3. ASSUME NEW m \in Messages, MessageStep(m) PROVE OpenHasQueue'
  <2>1. stream' = stream
    BY <1>3 DEF MessageStep, Handle, LoadSession, CheckSession, RunTool, PutReply
  <2>2. CASE UNCHANGED queue
    BY <2>1, <2>2 DEF OpenHasQueue
  <2>3. CASE PutReply(m)
    <3>1. CASE queue[msg[m].to] = None
      BY <2>1, <2>3, <3>1 DEF PutReply, OpenHasQueue
    <3>2. ASSUME queue[msg[m].to] # None, NEW s \in Opens, queue[s] # None
          PROVE  queue'[s] # None
      <4>1. queue[s] \in Seq(Messages)
        BY <3>2 DEF TypeOK, SseTypeOK
      <4>2. queue'[s] = queue[s] \/ queue'[s] = Append(queue[s], m)
        BY <2>3, <3>2 DEF PutReply, TypeOK, SseTypeOK
      <4>3. queue'[s] \in Seq(Messages)
        BY <4>1, <4>2
      <4> QED BY <4>3, RequestsAssumption
    <3> QED BY <2>1, <3>1, <3>2 DEF OpenHasQueue
  <2> QED BY <1>3, <2>2, <2>3 DEF MessageStep, Handle, LoadSession, CheckSession, RunTool
<1>4. ASSUME NEW w \in Replicas, Restart(w) PROVE OpenHasQueue'
  BY <1>4 DEF Restart, OpenHasQueue, TypeOK, SseTypeOK, Stream
<1> QED BY <1>1, <1>2, <1>3, <1>4 DEF Next, sseVars

-----------------------------------------------------------------------------
(* Entered, Checked and RunsInOwnProject.                                  *)

\* Who is addressed is settled when the handler of a message is entered.
LEMMA OnlyHandleAddresses ==
    ASSUME TypeOK, Next, NEW m \in Messages
    PROVE  \/ \E w \in Replicas : Handle(m, w)
           \/ /\ msg'[m].to = msg[m].to
              /\ msg[m].pc = "none" => msg'[m] = msg[m]
              /\ msg'[m].pc = "none" => msg'[m] = msg[m]
<1> DEFINE Stays == /\ msg'[m].to = msg[m].to
                    /\ msg[m].pc = "none" => msg'[m] = msg[m]
                    /\ msg'[m].pc = "none" => msg'[m] = msg[m]
<1>1. CASE UNCHANGED msg
  BY <1>1
<1>2. ASSUME NEW o \in Messages, MessageStep(o), o # m PROVE msg'[m] = msg[m]
  BY <1>2 DEF MessageStep, MsgTo, Handle, LoadSession, CheckSession, RunTool, PutReply, TypeOK,
              SseTypeOK
<1>3. CASE LoadSession(m) \/ CheckSession(m) \/ PutReply(m)
  <2>1. msg[m].pc # "none" /\ \E pc \in {"check", "run", "refused", "accepted"} : MsgTo(m, pc)
    BY <1>3 DEF LoadSession, CheckSession, PutReply
  <2>2. Stays
    BY <2>1 DEF MsgTo, TypeOK, SseTypeOK, Handling
  <2> QED BY <2>2
<1>4. CASE RunTool(m)
  <2>1. PICK argument \in Projects \cup {None} :
           msg' = [msg EXCEPT ![m].pid = ResolvePid(Verified(m), argument),
                              ![m].pc = IF msg[m].to = None THEN "answered" ELSE "put"]
    BY <1>4 DEF RunTool
  <2>2. msg[m].pc # "none" /\ msg'[m].pc # "none" /\ msg'[m].to = msg[m].to
    BY <1>4, <2>1 DEF RunTool, TypeOK, SseTypeOK, Handling
  <2> QED BY <2>2
<1>6. ASSUME NEW w \in Replicas, Restart(w) PROVE Stays
  BY <1>6 DEF Restart, TypeOK, SseTypeOK, Handling
<1>5. ASSUME NEW s \in Opens, StreamStep(s) PROVE UNCHANGED msg
  BY <1>5 DEF StreamStep, SaveSession, CreateQueue, SendEndpoint, LeaveEarly, Deliver,
              Disconnect, PopQueue, SessionExpires
<1> QED BY <1>1, <1>2, <1>3, <1>4, <1>5, <1>6 DEF Next, sseVars, MessageStep

\* Entered: a handler is entered by a request the middleware has admitted.
LEMMA EnteredStep ==
    ASSUME TypeOK, Entered, Next
    PROVE  Entered'
<1>1. ASSUME NEW s \in Opens, stream'[s].pc # "none" PROVE req'[s].pc = "admitted"
  <2>1. req[s].pc = "admitted"
    <3>1. CASE stream[s].pc # "none"
      BY <3>1 DEF Entered
    <3>2. CASE stream[s].pc = "none"
      <4>1. \E w \in Replicas : SaveSession(s, w)
        BY <1>1, <3>2 DEF Next, sseVars, StreamStep, MessageStep, SaveSession, CreateQueue,
              SendEndpoint, LeaveEarly, Deliver, Disconnect, PopQueue, SessionExpires,
              StreamTo, Handle, LoadSession, CheckSession, RunTool, PutReply, Restart,
              TypeOK, SseTypeOK, Stream
      <4> QED BY <4>1 DEF SaveSession
    <3> QED BY <3>1, <3>2
  <2>2. s \in Requests
    BY RequestsAssumption
  <2> QED BY <2>1, <2>2, DecidedOnce
<1>2. ASSUME NEW m \in Messages, msg'[m].pc # "none"
      PROVE  req[m].pc = "admitted" /\ req'[m].pc = "admitted"
  <2>1. req[m].pc = "admitted"
    <3>1. CASE msg[m].pc # "none"
      BY <3>1 DEF Entered
    <3>2. CASE msg[m].pc = "none"
      BY <1>2, <3>2, OnlyHandleAddresses DEF Handle
    <3> QED BY <3>1, <3>2
  <2>2. m \in Requests
    BY RequestsAssumption
  <2> QED BY <2>1, <2>2, DecidedOnce
<1>3. ASSUME NEW m \in Messages, msg'[m].to # None PROVE stream'[msg'[m].to].pc # "none"
  <2>1. msg'[m].to \in Opens /\ stream[msg'[m].to].pc # "none"
    <3>1. CASE msg'[m].to = msg[m].to
      BY <1>3, <3>1 DEF Entered, TypeOK, SseTypeOK, Handling
    <3>2. CASE msg'[m].to # msg[m].to
      BY <1>3, <3>2, OnlyHandleAddresses DEF Handle, TypeOK, SseTypeOK
    <3> QED BY <3>1, <3>2
  <2> QED BY <2>1, OpenedStays
<1>4. ASSUME NEW m \in Messages, msg'[m].pc = "none"
      PROVE  msg'[m].to = None /\ msg'[m].pid = None
  <2>1. msg'[m] = msg[m]
    BY <1>4, OnlyHandleAddresses DEF Handle, TypeOK, SseTypeOK
  <2> QED BY <1>4, <2>1 DEF Entered
<1> QED BY <1>1, <1>2, <1>3, <1>4 DEF Entered

\* Checked and RunsInOwnProject of one message: the tenants agreed at the check,
\* and nobody's project has changed since.
LEMMA MessageInv ==
    ASSUME TypeOK, Entered, Checked, RunsInOwnProject, NEW m \in Messages, MessageStep(m)
    PROVE  /\ msg'[m].to # None /\ msg'[m].pc \in {"run", "put"} => Agree(m)'
           /\ msg'[m].pid # None =>
                /\ req[m].project # None => msg'[m].pid = req[m].project
                /\ msg'[m].to # None /\ req[msg'[m].to].project # None =>
                      msg'[m].pid = req[msg'[m].to].project
<1>0. msg[m] \in Handling /\ UNCHANGED <<req, stream>>
  BY DEF TypeOK, SseTypeOK, MessageStep, Handle, LoadSession, CheckSession, RunTool, PutReply,
         authVars
<1>1. ASSUME NEW w \in Replicas, Handle(m, w)
      PROVE  msg'[m].pid = None /\ (msg'[m].to # None => msg'[m].pc = "load")
  BY <1>1 DEF Handle, TypeOK, SseTypeOK
<1>2. CASE LoadSession(m)
  <2>1. msg'[m].pc \in {"check", "refused"} /\ msg'[m].pid = msg[m].pid /\ msg'[m].to = msg[m].to
    BY <1>0, <1>2 DEF LoadSession, MsgTo, TypeOK, SseTypeOK, Handling
  <2> QED BY <2>1 DEF RunsInOwnProject
<1>3. CASE CheckSession(m)
  <2>1. msg'[m].pc = "run" => Agree(m)
    BY <1>0, <1>3 DEF CheckSession, MsgTo, TypeOK, SseTypeOK, Handling
  <2>2. /\ msg'[m].pc \in {"run", "refused"} /\ msg'[m].pid = msg[m].pid
        /\ msg'[m].to = msg[m].to
    BY <1>0, <1>3 DEF CheckSession, MsgTo, TypeOK, SseTypeOK, Handling
  <2> QED BY <1>0, <2>1, <2>2 DEF RunsInOwnProject, Agree
<1>4. CASE RunTool(m)
  <2>1. PICK argument \in Projects \cup {None} :
           msg' = [msg EXCEPT ![m].pid = ResolvePid(Verified(m), argument),
                              ![m].pc = IF msg[m].to = None THEN "answered" ELSE "put"]
    BY <1>4 DEF RunTool
  <2>2. msg'[m].pid = ResolvePid(Verified(m), argument) /\ msg'[m].to = msg[m].to
    BY <1>0, <2>1 DEF TypeOK, SseTypeOK, Handling
  <2>3. msg[m].to # None => Agree(m)
    BY <1>4 DEF RunTool, Checked
  <2>4. Verified(m) # None => msg'[m].pid = Verified(m)
    BY <2>2 DEF ResolvePid
  <2>5. /\ req[m].project # None => Verified(m) = req[m].project
        /\ msg[m].to # None /\ req[msg[m].to].project # None =>
              Verified(m) = req[msg[m].to].project
    BY <2>3 DEF Agree, Verified
  <2> QED BY <1>0, <2>2, <2>3, <2>4, <2>5 DEF Agree
<1>5. CASE PutReply(m)
  <2>1. msg'[m].pc = "accepted" /\ msg'[m].pid = msg[m].pid /\ msg'[m].to = msg[m].to
    BY <1>0, <1>5 DEF PutReply, MsgTo, TypeOK, SseTypeOK, Handling
  <2> QED BY <2>1 DEF RunsInOwnProject
<1> QED BY <1>1, <1>2, <1>3, <1>4, <1>5 DEF MessageStep

\* The steps of the others leave a message as it is, or end it.
LEMMA MessageWaits ==
    ASSUME TypeOK, Next, NEW m \in Messages, ~MessageStep(m)
    PROVE  msg'[m] = msg[m] \/ msg'[m] = [msg[m] EXCEPT !.pc = "lost"]
<1>1. ASSUME NEW o \in Messages, MessageStep(o), o # m PROVE msg'[m] = msg[m]
  BY <1>1 DEF MessageStep, MsgTo, Handle, LoadSession, CheckSession, RunTool, PutReply, TypeOK,
              SseTypeOK
<1>2. ASSUME NEW w \in Replicas, Restart(w)
      PROVE  msg'[m] = msg[m] \/ msg'[m] = [msg[m] EXCEPT !.pc = "lost"]
  BY <1>2 DEF Restart
<1>3. ASSUME NEW s \in Opens, StreamStep(s) PROVE UNCHANGED msg
  BY <1>3 DEF StreamStep, SaveSession, CreateQueue, SendEndpoint, LeaveEarly, Deliver,
              Disconnect, PopQueue, SessionExpires
<1> QED BY <1>1, <1>2, <1>3 DEF Next, sseVars

\* The two together, for every message.
LEMMA CheckedStep ==
    ASSUME TypeOK, Entered, Checked, RunsInOwnProject, Next
    PROVE  Checked' /\ RunsInOwnProject'
<1>1. ASSUME NEW m \in Messages, msg'[m].pc # "none" \/ msg'[m].to # None \/ msg'[m].pid # None
      PROVE  /\ msg'[m].to # None /\ msg'[m].pc \in {"run", "put"} => Agree(m)'
             /\ msg'[m].pid # None =>
                  /\ req'[m].project # None => msg'[m].pid = req'[m].project
                  /\ msg'[m].to # None /\ req'[msg'[m].to].project # None =>
                        msg'[m].pid = req'[msg'[m].to].project
  <2>1. CASE MessageStep(m)
    <3>1. UNCHANGED req
      BY <2>1 DEF MessageStep, Handle, LoadSession, CheckSession, RunTool, PutReply, authVars
    <3> QED BY <2>1, <3>1, MessageInv
  <2>2. CASE ~MessageStep(m)
    <3>1. /\ msg'[m].to = msg[m].to /\ msg'[m].pid = msg[m].pid
          /\ msg'[m].pc \in {msg[m].pc, "lost"}
      <4>1. msg'[m] = msg[m] \/ msg'[m] = [msg[m] EXCEPT !.pc = "lost"]
        BY <2>2, MessageWaits
      <4>2. msg[m] \in Handling
        BY DEF TypeOK, SseTypeOK
      <4> QED BY <4>1, <4>2 DEF Handling
    <3>2. ASSUME msg[m].to # None PROVE req'[msg[m].to] = req[msg[m].to]
      <4>1. msg[m].to \in Opens
        BY <3>2 DEF TypeOK, SseTypeOK, Handling
      <4>2. msg[m].to \in Requests /\ req[msg[m].to].pc # "idle"
        BY <3>2, <4>1, RequestsAssumption DEF Entered
      <4> QED BY <4>2, DecidedOnce
    <3>3. CASE msg[m].pc = "none"
      BY <3>1, <3>3 DEF Entered
    <3>4. CASE msg[m].pc # "none"
      <4>1. req'[m] = req[m]
        BY <3>4, DecidedOnce, RequestsAssumption DEF Entered
      <4> QED BY <3>1, <3>2, <4>1 DEF Checked, RunsInOwnProject, Agree
    <3> QED BY <3>3, <3>4
  <2> QED BY <2>1, <2>2
<1> QED BY <1>1 DEF Checked, RunsInOwnProject

-----------------------------------------------------------------------------
(* The theorems.                                                           *)

\* The invariant holds to begin with.
LEMMA InitInv == Init => IInv
<1> SUFFICES ASSUME Init PROVE IInv OBVIOUS
<1>1. TypeOK
  BY InitType
<1>2. /\ \A s \in Seedings : seeding[s].victims = {}
      /\ \A s \in Opens : stream[s].pc = "none"
      /\ \A m \in Messages : msg[m].pc = "none" /\ msg[m].to = None /\ msg[m].pid = None
  BY DEF Init, AuthInit, Idle
<1> QED BY <1>1, <1>2 DEF IInv, OwnVictims, OpenHasQueue, Entered, Checked, RunsInOwnProject

\* Every step keeps the invariant.
LEMMA NextInv == IInv /\ [Next]_vars => IInv'
<1> SUFFICES ASSUME IInv, [Next]_vars PROVE IInv' OBVIOUS
<1> USE DEF IInv
<1>1. CASE UNCHANGED vars
  BY <1>1 DEF vars, authVars, sseVars, TypeOK, AuthTypeOK, SseTypeOK, OwnVictims, OpenHasQueue,
              Entered, Checked, Agree, RunsInOwnProject
<1>2. CASE Next
  <2>1. TypeOK'
    <3>1. CASE AuthNext /\ UNCHANGED sseVars
      BY <3>1, AuthType DEF TypeOK, SseTypeOK, sseVars
    <3> QED BY <1>2, <3>1, StreamType, MessageType, RestartType DEF Next
  <2>2. OwnVictims'
    <3>1. CASE UNCHANGED <<keyRow, seeding>>
      BY <3>1 DEF OwnVictims
    <3>2. CASE \E s \in Seedings : SeedStep(s)
      BY <3>2, VictimsStep DEF TypeOK
    <3>3. ASSUME NEW r \in Requests, AuthStep(r) PROVE UNCHANGED <<keyRow, seeding>>
      BY <3>3, AuthStepIs DEF TypeOK
    <3> QED BY <1>2, <3>1, <3>2, <3>3
            DEF Next, AuthNext, authVars, StreamStep, MessageStep, SaveSession, CreateQueue,
                SendEndpoint, LeaveEarly, Deliver, Disconnect, PopQueue, SessionExpires,
                Handle, LoadSession, CheckSession, RunTool, PutReply, Restart
  <2> QED BY <1>2, <2>1, <2>2, QueueStep, EnteredStep, CheckedStep
<1> QED BY <1>1, <1>2

\* It is an invariant of the specification.
LEMMA SpecInv == Spec => []IInv
BY InitInv, NextInv, PTL DEF Spec

\* SseSessions.TypeOK: the variables keep the types of the code, whatever happens
\* to Redis, the replicas and the keys.
THEOREM TypeCorrect == Spec => []TypeOK
BY SpecInv, PTL DEF IInv

\* SseSessions.RunsInOwnProject: a tool called over SSE or directly runs in the
\* project its caller, and its session, were bound to by the middleware.
THEOREM ToolsRunAtHome == Spec => []RunsInOwnProject
BY SpecInv, PTL DEF IInv

\* TenantAuth.RotationKeepsAKey: seed_tenant_key.py revokes keys of a project only
\* together with giving it a new one.
THEOREM RotationIsSafe == Spec => RotationKeepsAKey
<1>1. ASSUME IInv, [Next]_vars, NEW p \in Projects, Live(p) # {} PROVE Live(p)' # {}
  <2> USE DEF IInv
  <2>1. CASE UNCHANGED keyRow
    BY <1>1, <2>1 DEF Live
  <2>2. ASSUME NEW s \in Seedings, InsertKey(s) PROVE Live(p)' # {}
    <3>1. PICK t \in Tenants \cup {None} :
             keyRow' = [Revoke(keyRow, seeding[s].victims) EXCEPT ![seeding[s].key] =
                          [state |-> "live", project |-> seeding[s].project, tenant |-> t]]
      BY <2>2 DEF InsertKey
    <3>2. seeding[s].key \in Keys /\ keyRow[seeding[s].key].state = "none"
      BY <1>1, <2>2 DEF InsertKey, TypeOK, AuthTypeOK, Seeding
    <3>3. CASE p = seeding[s].project
      <4>1. /\ keyRow'[seeding[s].key].state = "live"
            /\ keyRow'[seeding[s].key].project = p
        BY <3>1, <3>2, <3>3 DEF Revoke
      <4> QED BY <3>2, <4>1 DEF Live
    <3>4. CASE p # seeding[s].project
      <4>1. PICK k \in Keys : keyRow[k].state = "live" /\ keyRow[k].project = p
        BY <1>1 DEF Live
      <4>2. k \notin seeding[s].victims /\ k # seeding[s].key
        BY <1>1, <3>2, <3>4, <4>1 DEF OwnVictims
      <4>3. keyRow'[k] = keyRow[k]
        BY <3>1, <4>2 DEF Revoke
      <4> QED BY <4>1, <4>3 DEF Live
    <3> QED BY <3>3, <3>4
  <2>3. ASSUME NEW r \in Requests, AuthStep(r) PROVE UNCHANGED keyRow
    BY <1>1, <2>3, AuthStepIs DEF TypeOK
  <2> QED BY <1>1, <2>1, <2>2, <2>3
          DEF Next, vars, AuthNext, authVars, SeedStep, StartSeeding, CreateProject,
              CheckAndRevoke, SeedingFails, StreamStep, MessageStep, SaveSession, CreateQueue,
              SendEndpoint, LeaveEarly, Deliver, Disconnect, PopQueue, SessionExpires,
              Handle, LoadSession, CheckSession, RunTool, PutReply, Restart
<1>2. IInv /\ [Next]_vars => [\A p \in Projects : Live(p) # {} => Live(p)' # {}]_keyRow
  BY <1>1
<1> QED BY <1>2, SpecInv, PTL DEF Spec, RotationKeepsAKey
=============================================================================
