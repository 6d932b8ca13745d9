---------------------------- MODULE SseSessions -----------------------------
(***************************************************************************)
(* The MCP transport of mcp_sse.py behind require_tenant: GET /v2/mcp/sse  *)
(* opens a stream, POST /v2/mcp/messages/{session_id} runs a tool and puts *)
(* the reply on the stream's queue; POST /v2/mcp/execute runs one without  *)
(* a session.                                                              *)
(*                                                                         *)
(* A session is named by the request that opened it.  Its record (Redis,   *)
(* or the memory of a replica) carries the project that request was bound  *)
(* to; its queue lives in the memory of the replica that serves the        *)
(* stream.  The replies are the messages they answer.                      *)
(***************************************************************************)
EXTENDS TenantAuth, Sequences

CONSTANTS
    Opens,     \* requests to GET /v2/mcp/sse, and the sessions they open
    Messages,  \* requests to POST /v2/mcp/messages/{id} and /v2/mcp/execute
    Replicas   \* processes of the orchestrator

ASSUME RequestsAssumption ==
    /\ Requests = Opens \cup Messages /\ Opens \cap Messages = {}
    /\ None \notin Opens \cup Seq(Messages) /\ Replicas # {}

VARIABLES
    redis,     \* the sessions Redis holds
    memory,    \* _sessions_mem of each replica
    stream,    \* stream[s]: where the handler of s is, and on which replica
    queue,     \* queue[s]: _queues[s] on that replica, or None
    received,  \* received[s]: the replies sent down the stream
    msg        \* msg[m]: the handler of message m

sseVars == <<redis, memory, stream, queue, received, msg>>
vars == <<authVars, sseVars>>

Stream == [pc: {"none", "queue", "endpoint", "open", "delete", "closed"}, at: Replicas]
Handling == [pc: {"none", "load", "check", "run", "put",
                  "accepted", "answered", "refused", "lost"},
             to: Opens \cup {None}, at: Replicas, pid: Projects \cup {None}]

SseTypeOK ==
    /\ redis \subseteq Opens
    /\ memory \in [Replicas -> SUBSET Opens]
    /\ stream \in [Opens -> Stream]
    /\ queue \in [Opens -> Seq(Messages) \cup {None}]
    /\ received \in [Opens -> SUBSET Messages]
    /\ msg \in [Messages -> Handling]

StreamTo(s, pc) == stream' = [stream EXCEPT ![s].pc = pc]
MsgTo(m, pc) == msg' = [msg EXCEPT ![m].pc = pc]

-----------------------------------------------------------------------------
(* mcp_sse_connect and its event generator.                                *)

\* Redis first; if the call raises, or there is no Redis, this process' memory.
SaveSession(s, w) ==
    /\ req[s].pc = "admitted" /\ stream[s].pc = "none"
    /\ \/ redis' = redis \cup {s} /\ UNCHANGED memory
       \/ memory' = [memory EXCEPT ![w] = @ \cup {s}] /\ UNCHANGED redis
    /\ stream' = [stream EXCEPT ![s] = [pc |-> "queue", at |-> w]]
    /\ UNCHANGED <<authVars, queue, received, msg>>

CreateQueue(s) ==
    /\ stream[s].pc = "queue"
    /\ queue' = [queue EXCEPT ![s] = <<>>]
    /\ StreamTo(s, "endpoint")
    /\ UNCHANGED <<authVars, redis, memory, received, msg>>

\* The first event, which tells the client its session.
SendEndpoint(s) ==
    /\ stream[s].pc = "endpoint"
    /\ StreamTo(s, "open")
    /\ UNCHANGED <<authVars, redis, memory, queue, received, msg>>

\* The client leaves before that: the generator stops outside its try block,
\* and the session and its queue are never removed.
LeaveEarly(s) ==
    /\ stream[s].pc = "endpoint"
    /\ StreamTo(s, "closed")
    /\ UNCHANGED <<authVars, redis, memory, queue, received, msg>>

\* Faulty variant: the 20 s timeout of wait_for cancels a get that has its reply.
DeliverOrTimeOut(s) ==
    /\ stream[s].pc = "open" /\ queue[s] # <<>>
    /\ received' \in {received, [received EXCEPT ![s] = @ \cup {Head(queue[s])}]}
    /\ queue' = [queue EXCEPT ![s] = Tail(@)]
    /\ UNCHANGED <<authVars, redis, memory, stream, msg>>

Deliver(s) ==
    /\ stream[s].pc = "open" /\ queue[s] # <<>>
    /\ received' = [received EXCEPT ![s] = @ \cup {Head(queue[s])}]
    /\ queue' = [queue EXCEPT ![s] = Tail(@)]
    /\ UNCHANGED <<authVars, redis, memory, stream, msg>>

\* The finally block: Redis first (its errors are swallowed), then the memory.
Disconnect(s) ==
    /\ stream[s].pc = "open"
    /\ redis' \in {redis, redis \ {s}}
    /\ StreamTo(s, "delete")
    /\ UNCHANGED <<authVars, memory, queue, received, msg>>

PopQueue(s) ==
    /\ stream[s].pc = "delete"
    /\ memory' = [memory EXCEPT ![stream[s].at] = @ \ {s}]
    /\ queue' = [queue EXCEPT ![s] = None]
    /\ StreamTo(s, "closed")
    /\ UNCHANGED <<authVars, redis, received, msg>>

\* SESSION_TTL passes; nothing renews it while the stream is open.
SessionExpires(s) ==
    /\ s \in redis
    /\ redis' = redis \ {s}
    /\ UNCHANGED <<authVars, memory, stream, queue, received, msg>>

-----------------------------------------------------------------------------
(* mcp_sse_message and v2_mcp_execute.                                     *)

Handle(m, w) ==
    /\ req[m].pc = "admitted" /\ msg[m].pc = "none"
    /\ \E s \in {o \in Opens : stream[o].pc # "none"} \cup {None} :
          msg' = [msg EXCEPT ![m] = [pc |-> IF s = None THEN "run" ELSE "load",
                                     to |-> s, at |-> w, pid |-> None]]
    /\ UNCHANGED <<authVars, redis, memory, stream, queue, received>>

\* Redis, then the memory of this replica: 404 if the session is in neither.
\* A call to Redis that fails leaves the memory alone to decide.
LoadSession(m) ==
    /\ msg[m].pc = "load"
    /\ \/ MsgTo(m, "check") /\ msg[m].to \in redis \cup memory[msg[m].at]
       \/ MsgTo(m, "refused") /\ msg[m].to \notin memory[msg[m].at]
    /\ UNCHANGED <<authVars, redis, memory, stream, queue, received>>

\* Faulty variant: a bound caller may use anybody's session.
AnyoneAgrees(m) == TRUE

Agree(m) ==
    LET session == req[msg[m].to].project IN
    \/ session = None \/ req[m].project = None \/ session = req[m].project

\* _queues of this replica.
QueueHere(m) == stream[msg[m].to].at = msg[m].at /\ queue[msg[m].to] # None

\* 403 if the tenants differ, 410 if the stream is not served here.
CheckSession(m) ==
    /\ msg[m].pc = "check"
    /\ MsgTo(m, IF Agree(m) /\ QueueHere(m) THEN "run" ELSE "refused")
    /\ UNCHANGED <<authVars, redis, memory, stream, queue, received>>

\* session_tenant or caller_tenant.
Verified(m) ==
    LET session == IF msg[m].to = None THEN None ELSE req[msg[m].to].project
    IN  IF session # None THEN session ELSE req[m].project

RunTool(m) ==
    /\ msg[m].pc = "run"
    /\ \E argument \in Projects \cup {None} :
          msg' = [msg EXCEPT ![m].pid = ResolvePid(Verified(m), argument),
                             ![m].pc = IF msg[m].to = None THEN "answered" ELSE "put"]
    /\ UNCHANGED <<authVars, redis, memory, stream, queue, received>>

\* The reply goes to the queue found before the tool ran; if its stream has
\* ended meanwhile nobody reads it, and the caller is told "accepted" all the same.
PutReply(m) ==
    /\ msg[m].pc = "put"
    /\ queue' = IF queue[msg[m].to] = None THEN queue
                ELSE [queue EXCEPT ![msg[m].to] = Append(@, m)]
    /\ MsgTo(m, "accepted")
    /\ UNCHANGED <<authVars, redis, memory, stream, received>>

\* A replica is replaced: its memory, streams, queues and handlers are gone.
Restart(w) ==
    /\ memory' = [memory EXCEPT ![w] = {}]
    /\ stream' = [s \in Opens |-> IF stream[s].at = w /\ stream[s].pc # "none"
                                  THEN [stream[s] EXCEPT !.pc = "closed"] ELSE stream[s]]
    /\ queue' = [s \in Opens |-> IF stream[s].at = w THEN None ELSE queue[s]]
    /\ msg' = [m \in Messages |->
                 IF msg[m].at = w /\ msg[m].pc \in {"load", "check", "run", "put"}
                 THEN [msg[m] EXCEPT !.pc = "lost"] ELSE msg[m]]
    /\ UNCHANGED <<authVars, redis, received>>

-----------------------------------------------------------------------------
Init ==
    /\ AuthInit
    /\ redis = {} /\ memory = [w \in Replicas |-> {}]
    /\ stream \in [Opens -> [pc: {"none"}, at: {CHOOSE w \in Replicas : TRUE}]]
    /\ queue = [s \in Opens |-> None]
    /\ received = [s \in Opens |-> {}]
    /\ msg \in [Messages -> [pc: {"none"}, to: {None}, at: {CHOOSE w \in Replicas : TRUE},
                             pid: {None}]]

StreamStep(s) ==
    \/ \E w \in Replicas : SaveSession(s, w)
    \/ CreateQueue(s) \/ SendEndpoint(s) \/ LeaveEarly(s) \/ Deliver(s)
    \/ Disconnect(s) \/ PopQueue(s) \/ SessionExpires(s)

MessageStep(m) ==
    \/ \E w \in Replicas : Handle(m, w)
    \/ LoadSession(m) \/ CheckSession(m) \/ RunTool(m) \/ PutReply(m)

Next ==
    \/ AuthNext /\ UNCHANGED sseVars
    \/ \E s \in Opens : StreamStep(s)
    \/ \E m \in Messages : MessageStep(m)
    \/ \E w \in Replicas : Restart(w)

Spec == Init /\ [][Next]_vars

\* The event loop runs the generator of an open stream and the handlers it has
\* begun; a client that does not read its first event leaves.
FairSpec ==
    /\ Spec
    /\ \A s \in Opens : WF_vars(SendEndpoint(s) \/ LeaveEarly(s)) /\ WF_vars(Deliver(s))
    /\ \A m \in Messages :
          WF_vars(LoadSession(m) \/ CheckSession(m) \/ RunTool(m) \/ PutReply(m))

-----------------------------------------------------------------------------
TypeOK == AuthTypeOK /\ SseTypeOK

\* "the verified caller/session tenant" (mcp_sse.py:203) decides: a tool runs in
\* the project its caller was bound to, and in the session's if that is bound,
\* however the keys change between opening the stream and sending the message.
RunsInOwnProject ==
    \A m \in Messages : msg[m].pid # None =>
        /\ req[m].project # None => msg[m].pid = req[m].project
        /\ msg[m].to # None /\ req[msg[m].to].project # None =>
              msg[m].pid = req[msg[m].to].project

\* A reply that was accepted while its stream was being read reaches the client,
\* unless the stream ends first.
AcceptedArrives ==
    \A m \in Messages : \A s \in Opens :
        msg[m].pc = "accepted" /\ msg[m].to = s ~>
            m \in received[s] \/ stream[s].pc \in {"delete", "closed"}
=============================================================================
