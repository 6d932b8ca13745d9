---------------------------- MODULE Connections ----------------------------
(***************************************************************************)
(* Connections of Activepieces and the places that must not trust a stale  *)
(* picture of them: Gate 6 of POST /v2/build-dynamic, the strict guard of  *)
(* POST /v2/build-and-deploy and of POST /v2/flows/{id}/reimport, and the  *)
(* guard of DELETE /v2/connections/{id}.                                   *)
(*                                                                         *)
(* A row of /v1/app-connections/ has two names, its id and its externalId; *)
(* a graph refers to a connection by whichever name the request gave, or,  *)
(* where Gate 6 chose, by the externalId.  Flows are only what the guards  *)
(* see of them: whether there is a graph, whose it is, whether it is       *)
(* published, and the connection each piece refers to (FlowBuild models    *)
(* how they get there).  A piece has one step in a request and is named as *)
(* auto_resolve_piece names it; that Gate 6 looks at the name the request  *)
(* wrote, and at a schema that may not be had, is the set "known".         *)
(***************************************************************************)
EXTENDS FiniteSets, Naturals

CONSTANTS
    Pieces,      \* pieces a request may use
    AuthPieces,  \* those whose schema requires a connection
    Conns,       \* rows Activepieces may hold
    Builds,      \* requests that import a graph, and the flows some of them make
    Deletes,     \* requests to DELETE /v2/connections/{connection_id}
    Requests,    \* what each build request may ask for
    None

ASSUME PiecesAssumption == AuthPieces \subseteq Pieces /\ Pieces # {}

Names == {"id", "ext"} \X Conns
Ref == Names \cup {None}
Refs == [Pieces -> Ref]

\* A build-dynamic, a build-and-deploy, and the two kinds of reimport.
Endpoints == {"dynamic", "template", "actions", "retemplate"}

Inputs == [kind: Endpoints, trigger: Pieces,
           wants: SUBSET Pieces,    \* the pieces of the actions
           nested: SUBSET Pieces,   \* those inside a router or a loop
           given: Refs,             \* connection_ids of the request
           default: Refs,           \* DEFAULT_CONNECTIONS of the deployment
           step: Refs,              \* a step's own connection_id
           auth: Refs]              \* the "auth" a step's own input has

ASSUME RequestsAssumption == Requests \in [Builds -> SUBSET Inputs]
ASSUME NoneAssumption == None \notin Names \cup Builds

VARIABLES
    conn,   \* the rows of app-connections: piece and status
    build,  \* build requests: input, the list they read, what Gate 6 found
    flow,   \* the flow of each build: stage, whose graph, and its references
    del     \* delete requests: the name they were given, the graphs they read

vars == <<conn, build, flow, del>>

Status == {"absent", "ACTIVE", "ERROR", "gone"}
Row == [piece: Pieces, status: Status]
Rows == [Conns -> Row]
Build == [pc: {"idle", "list", "decide", "import", "draft",
               "plan", "publish", "deployed", "pending", "failed"},
          in: Inputs, at: Builds, seen: Rows, known: SUBSET Pieces, ids: Refs]
Flow == [stage: {"none", "draft", "live"}, by: Builds \cup {None}, refs: Refs]
Delete == [pc: {"idle", "list", "delete", "deleted", "refused", "failed"},
           name: Ref, read: SUBSET (Builds \cup {None})]

TypeOK ==
    /\ conn \in Rows
    /\ build \in [Builds -> Build]
    /\ flow \in [Builds -> Flow]
    /\ del \in [Deletes -> Delete]

NoRefs == [p \in Pieces |-> None]

-----------------------------------------------------------------------------
(* What the guards compute from a list of connections.                     *)

Listed(seen) == {c \in Conns : seen[c].status \in {"ACTIVE", "ERROR"}}
ActiveIn(seen) == {c \in Conns : seen[c].status = "ACTIVE"}

\* a or b, where None is the empty value.
Or(a, b) == IF a # None THEN a ELSE b

\* resolve_conns: the request's names over the deployment's.
Resolved(in) == [p \in Pieces |-> Or(in.given[p], in.default[p])]

\* The pieces a build-dynamic needs a connection for: of its actions, at any
\* depth, and of its trigger, which is given no reference.
Needy(in) == (in.wants \cup {in.trigger}) \cap AuthPieces

\* The ACTIVE rows of piece p, of which the gate takes the first.
Candidates(seen, p, ref) ==
    LET rows == {c \in ActiveIn(seen) : seen[c].piece = p}
    IN  IF rows = {} THEN ref = None ELSE ref \in {<<"ext", c>> : c \in rows}

\* Faulty variant: an override that is not ACTIVE is kept.
ChosenKeepingOverride(in, seen, p, ref) ==
    IF Resolved(in)[p] # None THEN ref = Resolved(in)[p] ELSE Candidates(seen, p, ref)

\* The name Gate 6 gives to piece p: the override if its row is ACTIVE
\* (whatever the row's piece) and nothing if it is not; without an override,
\* the externalId of the first ACTIVE row of the piece.
Chosen(in, seen, p, ref) ==
    IF Resolved(in)[p] # None
    THEN ref = IF Resolved(in)[p][2] \in ActiveIn(seen) THEN Resolved(in)[p] ELSE None
    ELSE Candidates(seen, p, ref)

\* The connection_ids the gate may return when it gets the schemas of the
\* pieces in known under the names the build uses.  It takes any other piece
\* for one that needs no connection: a step that names its piece in a way only
\* auto_resolve_piece understands, or a schema that could not be fetched.
Classified(in, seen, known) ==
    {ids \in Refs :
        \A p \in Pieces : IF p \in known THEN Chosen(in, seen, p, ids[p])
                                         ELSE ids[p] = None}

\* guard_connections(strict=True): every piece has a name, of a listed row.
Guarded(in, seen) ==
    \A p \in in.wants : /\ Resolved(in)[p] # None
                        /\ Resolved(in)[p][2] \in Listed(seen)

-----------------------------------------------------------------------------
(* The references of a graph, by who builds it.                            *)

\* _build_step_from_spec, which steps inside a router or a loop reach as the
\* request wrote them: no choice of the gate and no connection_ids of the request.
NestedRef(in, p) == Or(in.auth[p], Or(in.step[p], in.default[p]))

\* A top-level action of a build-dynamic that passed the gate, of the draft of a
\* blocked one, of a reimport.  A template takes the names of resolve_conns.
ReadyRef(in, ids, p) == Or(in.step[p], Or(ids[p], Or(Resolved(in)[p], in.auth[p])))
DraftRef(in, ids, p) == Or(ids[p], Or(in.auth[p], in.default[p]))
ActionRef(in, p) == Or(in.auth[p], Or(in.step[p], Resolved(in)[p]))

Passed(known, ids) == \A p \in known : ids[p] # None

References(in, known, ids) ==
    [p \in Pieces |->
        CASE p \notin in.wants -> None
          [] p \in in.wants /\ in.kind \in {"template", "retemplate"} -> Resolved(in)[p]
          [] p \in in.wants /\ in.kind \in {"dynamic", "actions"} ->
                 IF p \in in.nested THEN NestedRef(in, p)
                 ELSE IF in.kind = "actions" THEN ActionRef(in, p)
                 ELSE IF Passed(known, ids) THEN ReadyRef(in, ids, p)
                 ELSE DraftRef(in, ids, p)]

-----------------------------------------------------------------------------
(* Activepieces: rows are made by POST /v2/connect, break, are repaired.   *)

AddConnection(c) ==
    /\ conn[c].status = "absent"
    /\ \E p \in Pieces : conn' = [conn EXCEPT ![c] = [piece |-> p, status |-> "ACTIVE"]]
    /\ UNCHANGED <<build, flow, del>>

BreakConnection(c) ==
    /\ conn[c].status = "ACTIVE"
    /\ conn' = [conn EXCEPT ![c].status = "ERROR"]
    /\ UNCHANGED <<build, flow, del>>

RepairConnection(c) ==
    /\ conn[c].status = "ERROR"
    /\ conn' = [conn EXCEPT ![c].status = "ACTIVE"]
    /\ UNCHANGED <<build, flow, del>>

-----------------------------------------------------------------------------
(* Building: list the connections, classify, then compile and import.      *)

BuildTo(b, pc) == build' = [build EXCEPT ![b].pc = pc]

\* A reimport needs a flow with a graph, the others make one.  A reimport by
\* template reads no list.
StartBuild(b, in, f) ==
    /\ build[b].pc = "idle"
    /\ IF in.kind \in {"actions", "retemplate"} THEN flow[f].stage # "none" ELSE f = b
    /\ build' = [build EXCEPT ![b].pc = IF in.kind = "retemplate" THEN "import" ELSE "list",
                              ![b].in = in, ![b].at = f]
    /\ UNCHANGED <<conn, flow, del>>

ListConnections(b) ==
    /\ build[b].pc = "list"
    /\ build' = [build EXCEPT ![b].pc = "decide", ![b].seen = conn]
    /\ UNCHANGED <<conn, flow, del>>

\* Gate 6 lets the build through, or blocks it for a draft without the names
\* that are missing.
Gate(b) ==
    /\ build[b].pc = "decide" /\ build[b].in.kind = "dynamic"
    /\ \E known \in SUBSET Needy(build[b].in) :
          \E ids \in Classified(build[b].in, build[b].seen, known) :
             build' = [build EXCEPT ![b].pc = IF Passed(known, ids) THEN "import"
                                                                    ELSE "draft",
                                    ![b].known = known, ![b].ids = ids]
    /\ UNCHANGED <<conn, flow, del>>

\* Presence is enough for the strict guard, a missing name is a 422.
GuardStatic(b) ==
    /\ build[b].pc = "decide" /\ build[b].in.kind \in {"template", "actions"}
    /\ BuildTo(b, IF Guarded(build[b].in, build[b].seen) THEN "import" ELSE "failed")
    /\ UNCHANGED <<conn, flow, del>>

\* IMPORT_FLOW: the flow's graph is from now on that of request b.
Import(b) ==
    flow' = [flow EXCEPT ![build[b].at] =
                [stage |-> "draft", by |-> b,
                 refs |-> References(build[b].in, build[b].known, build[b].ids)]]

\* golden_build and v2_reimport import the graph, then publish it.
ImportGraph(b) ==
    /\ build[b].pc = "import"
    /\ Import(b)
    /\ BuildTo(b, "publish")
    /\ UNCHANGED <<conn, del>>

Publish(b) ==
    /\ build[b].pc = "publish"
    /\ flow' = [flow EXCEPT ![build[b].at].stage = "live"]
    /\ BuildTo(b, "deployed")
    /\ UNCHANGED <<conn, del>>

\* create_ap_visible_draft_flow: the draft of a blocked build.
ImportDraft(b) ==
    /\ build[b].pc = "draft"
    /\ Import(b)
    /\ BuildTo(b, "plan")
    /\ UNCHANGED <<conn, del>>

\* The flag of the drafts is off.
SkipDraft(b) ==
    /\ build[b].pc = "draft"
    /\ BuildTo(b, "plan")
    /\ UNCHANGED <<conn, flow, del>>

SavePlan(b) ==
    /\ build[b].pc = "plan"
    /\ BuildTo(b, "pending")
    /\ UNCHANGED <<conn, flow, del>>

\* Activepieces, a schema or the database fails a step: the request ends with an
\* error, a graph that is imported stays.
BuildFails(b) ==
    /\ build[b].pc \in {"list", "decide", "import", "publish", "draft", "plan"}
    /\ BuildTo(b, "failed")
    /\ UNCHANGED <<conn, flow, del>>

-----------------------------------------------------------------------------
(* Deleting: list the flows, refuse if one mentions the name, then delete. *)

\* Faulty variant: the guard of the delete looks at published flows only.
MentionsIfLive(f, name) ==
    flow[f].stage = "live" /\ \E p \in Pieces : flow[f].refs[p] = name

\* connection_id in str(version)
Mentions(f, name) ==
    flow[f].stage # "none" /\ \E p \in Pieces : flow[f].refs[p] = name

DelTo(d, pc) == del' = [del EXCEPT ![d].pc = pc]

StartDelete(d, name) ==
    /\ del[d].pc = "idle"
    /\ del' = [del EXCEPT ![d].pc = "list", ![d].name = name]
    /\ UNCHANGED <<conn, build, flow>>

\* list_flows answers one page of at most 200 flows of the caller's project: a
\* flow may be on it or not.
ListFlows(d) ==
    /\ del[d].pc = "list"
    /\ \E page \in SUBSET {f \in Builds : flow[f].stage # "none"} :
          del' = [del EXCEPT
                    ![d].read = {flow[f].by : f \in page},
                    ![d].pc = IF \E f \in page : Mentions(f, del[d].name)
                              THEN "refused" ELSE "delete"]
    /\ UNCHANGED <<conn, build, flow>>

DeleteConnection(d) ==
    /\ del[d].pc = "delete"
    /\ del[d].name[2] \in Listed(conn)
    /\ conn' = [conn EXCEPT ![del[d].name[2]].status = "gone"]
    /\ DelTo(d, "deleted")
    /\ UNCHANGED <<build, flow>>

\* A failed list, a row that is gone, an external id Activepieces does not take.
DeleteFails(d) ==
    /\ del[d].pc \in {"list", "delete"}
    /\ DelTo(d, "failed")
    /\ UNCHANGED <<conn, build, flow>>

-----------------------------------------------------------------------------
NoRow == [piece |-> CHOOSE p \in Pieces : TRUE, status |-> "absent"]
NoInput == [kind |-> "dynamic", trigger |-> CHOOSE p \in Pieces : TRUE, wants |-> {},
            nested |-> {}, given |-> NoRefs, default |-> NoRefs, step |-> NoRefs,
            auth |-> NoRefs]

Init ==
    /\ conn = [c \in Conns |-> NoRow]
    /\ build = [b \in Builds |-> [pc |-> "idle", in |-> NoInput, at |-> b,
                                  seen |-> [c \in Conns |-> NoRow],
                                  known |-> {}, ids |-> NoRefs]]
    /\ flow = [b \in Builds |-> [stage |-> "none", by |-> None, refs |-> NoRefs]]
    /\ del = [d \in Deletes |-> [pc |-> "idle", name |-> None, read |-> {}]]

BuildStep(b) ==
    \/ \E in \in Requests[b], f \in Builds : StartBuild(b, in, f)
    \/ ListConnections(b) \/ Gate(b) \/ GuardStatic(b)
    \/ ImportGraph(b) \/ Publish(b) \/ ImportDraft(b) \/ SkipDraft(b) \/ SavePlan(b)
    \/ BuildFails(b)

DeleteStep(d) ==
    \/ \E name \in Names : StartDelete(d, name)
    \/ ListFlows(d) \/ DeleteConnection(d) \/ DeleteFails(d)

Next ==
    \/ \E c \in Conns : AddConnection(c) \/ BreakConnection(c) \/ RepairConnection(c)
    \/ \E b \in Builds : BuildStep(b)
    \/ \E d \in Deletes : DeleteStep(d)

Spec == Init /\ [][Next]_vars

-----------------------------------------------------------------------------
\* However old the list a request decided on, its graph gives a top-level action
\* whose piece the guard looked at
\*   - after Gate 6 let it pass: a row that list showed ACTIVE, or the step's own
\*     connection_id, and only such a graph is ever published;
\*   - in the draft of a blocked build: an ACTIVE row, or, where the gate found
\*     none, the auth of the step's own input or the deployment's default;
\*   - under the strict guard: a row that list showed, or the step's own.
\* An override the gate has refused does not come back from the request's map.
GuardedStepsUseListed ==
    \A f \in Builds : flow[f].stage # "none" =>
        LET b == build[flow[f].by] IN
        \A p \in b.in.wants \ b.in.nested :
            LET ref == flow[f].refs[p] IN
            /\ b.in.kind = "dynamic" /\ p \in b.known =>
                 IF Passed(b.known, b.ids)
                 THEN ref # None /\ (ref[2] \in ActiveIn(b.seen) \/ ref = b.in.step[p])
                 ELSE /\ flow[f].stage # "live"
                      /\ \/ ref # None /\ ref[2] \in ActiveIn(b.seen)
                         \/ b.ids[p] = None /\ ref \in {None, b.in.auth[p], b.in.default[p]}
            /\ b.in.kind \in {"template", "actions"} =>
                 /\ ref # None
                 /\ ref[2] \in Listed(b.seen) \/ ref \in {b.in.step[p], b.in.auth[p]}

\* A graph loses its connection to a delete request only if that request had not
\* read this graph (it was imported, or reimported over another, after the list,
\* or the flow was not on the page) or used the connection's other name.
DanglingWasUnread ==
    \A f \in Builds : \A p \in Pieces :
        LET ref == flow[f].refs[p] IN
        ref # None /\ conn[ref[2]].status = "gone" =>
            \E d \in Deletes : /\ del[d].pc = "deleted" /\ del[d].name[2] = ref[2]
                               /\ flow[f].by \in del[d].read => del[d].name # ref

\* "Delete a connection - refuses if any flow uses it" (main.py:5453).  It does
\* not hold: the code compares one name of the connection and a graph may use the
\* other, and it reads one page of flows before it deletes.  No run has it.
DeleteRefusesIfUsed ==
    \A d \in Deletes : del[d].pc = "deleted" =>
        \A f \in Builds, p \in Pieces :
            flow[f].refs[p] # None => flow[f].refs[p][2] # del[d].name[2]
=============================================================================
