------------------------------- MODULE FlowBuild -------------------------------
(***************************************************************************)
(* Building and managing flows (main.py): the Golden Protocol of           *)
(* golden_build, the Gate-6 draft of v2_build_dynamic, PATCH and reimport  *)
(* behind the ownership gate, register-employee.                           *)
(*                                                                         *)
(* Flows live in Activepieces (AP), an external service every request      *)
(* reaches through SiyadahEngine._r, which tries a call up to three times; *)
(* flow_registry and pending_activation_plans are database tables.         *)
(* A request is a process whose pc names the call it makes next.  AP is    *)
(* modelled by what main.py relies on: an IMPORT_FLOW answered 200 may     *)
(* leave any of Imports, LOCK_AND_PUBLISH may or may not enable the flow,  *)
(* CHANGE_STATUS may be answered 200 without effect.                       *)
(*                                                                         *)
(* Left out: the tree a request compiles (its import is one of Imports),   *)
(* the webhook pulse, which changes nothing here, and the MCP tools        *)
(* manage_flow and update_flow, which make the calls of PATCH and reimport *)
(* without gate and without eviction.                                      *)
(***************************************************************************)
EXTENDS Naturals, FiniteSets

CONSTANTS
    Requests,  \* HTTP requests and MCP tool calls (bounds how many there are)
    Flows,     \* AP flow ids (bounds how many flows are ever created)
    Tenants,   \* project ids
    None,      \* no tenant, no flow
    Kinds,     \* the operations the requests may ask for
    Imports,   \* what AP may make of an imported tree
    Faults,
    MaxLate    \* calls that time out here and are still processed there

KindNames == {"build", "dynamic", "draft",
              "enable", "disable", "delete", "reimport", "register"}
Graphs == {"EMPTY",     \* the trigger of a new flow
           "full",      \* every step is there and valid
           "stripped",  \* steps are missing
           "invalid"}   \* a step has lost its input
FaultKinds ==
    {"unreachable",  \* a call does not reach AP, or AP answers 5xx
     "lost",         \* AP acts on a call, its answer is lost
     "late",         \* AP acts on a call after the caller gave it up
     "refused",      \* AP answers 4xx
     "renewal",      \* the repeat after a token renewal acts, 401 is reported
     "db",           \* a statement of the database fails
     "crash"}        \* the process stops

ASSUME NamesAssumption == None \notin Tenants /\ None \notin Flows
ASSUME KindsAssumption == Kinds \subseteq KindNames
ASSUME ImportsAssumption == Imports \subseteq Graphs
ASSUME FlowFaultsAssumption == Faults \subseteq FaultKinds
ASSUME LateAssumption == MaxLate \in Nat

VARIABLES
    flows,     \* AP: each flow
    registry,  \* flow_registry: the tenant_id of a flow's row, None without row
    plans,     \* pending_activation_plans: tenant and flow of each plan
    req,       \* each request
    late       \* calls AP has received and not acted on yet

vars == <<flows, registry, plans, req, late>>

MaxTries == 3

FlowStatus == {"absent", "DISABLED", "ENABLED", "deleted"}
FlowRecords == [status : FlowStatus, project : Tenants \cup {None},
                owner : Tenants \cup {None}, draft : Graphs,
                published : Graphs \cup {"none"}]
NoFlow == [status |-> "absent", project |-> None, owner |-> None,
           draft |-> "EMPTY", published |-> "none"]

\* Calls that change a flow, calls that read one, and steps without either.
Writes == {"stamp", "import", "publish", "enable1", "enable2",
           "enable", "disable", "delete", "cleanup"}
Reads == {"gateAP", "verify", "status", "check1", "check2", "final", "lookup"}
Others == {"classify", "validate", "create", "gate", "guard",
           "evict", "upsert", "employ", "plan"}
Running == Writes \cup Reads \cup Others
Ended == {"ok", "failed"}

Idle == [kind |-> "build", tenant |-> None, flow |-> None, pc |-> "idle", tries |-> 0]

Init ==
    /\ flows = [f \in Flows |-> NoFlow]
    /\ registry = [f \in Flows |-> None]
    /\ plans = {}
    /\ req = [r \in Requests |-> Idle]
    /\ late = {}

At(r, label) == req[r].pc = label
Goto(r, label) == req' = [req EXCEPT ![r].pc = label, ![r].tries = 0]
Exists(f) == flows[f].status \in {"DISABLED", "ENABLED"}
Target(r) == flows[req[r].flow]
-----------------------------------------------------------------------------
(***************************************************************************)
(* What AP makes of a call                                                 *)
(***************************************************************************)

Becomes(f, fl) == flows' = [flows EXCEPT ![f] = fl]

Effect(call, f, tenant) ==
    LET fl == flows[f] IN
    /\ Exists(f)
    /\ \/ call = "stamp" /\ Becomes(f, [fl EXCEPT !.owner = tenant])
       \/ call = "import" /\ \E g \in Imports : Becomes(f, [fl EXCEPT !.draft = g])
       \/ call = "publish" /\ \E s \in {fl.status, "ENABLED"} :
             Becomes(f, [fl EXCEPT !.published = fl.draft, !.status = s])
       \/ call \in {"enable", "enable1", "enable2"} /\ \E s \in {fl.status, "ENABLED"} :
             Becomes(f, [fl EXCEPT !.status = s])
       \/ call = "disable" /\ Becomes(f, [fl EXCEPT !.status = "DISABLED"])
       \/ call \in {"delete", "cleanup"} /\ Becomes(f, [fl EXCEPT !.status = "deleted"])

Acts(r) == Effect(req[r].pc, req[r].flow, req[r].tenant)

(***************************************************************************)
(* Where a request goes next                                               *)
(***************************************************************************)

AfterWrite == [stamp |-> "import", import |-> "verify", publish |-> "status",
               enable1 |-> "check1", enable2 |-> "check2",
               enable |-> "ok", disable |-> "ok", delete |-> "evict", cleanup |-> "failed"]

\* Faulty variant: the build goes on when its stamp fails.
OnErrorUnstamped(kind, call) ==
    IF kind = "build" /\ call = "stamp" THEN "import" ELSE "failed"

\* An exception ends the request; golden_build deletes the flow it cannot stamp.
OnError(kind, call) ==
    IF kind = "build" /\ call = "stamp" THEN "cleanup" ELSE "failed"

\* Faulty variant: only missing steps are looked for.
VerifiedStepCount(kind, fl) ==
    IF fl.draft = "EMPTY" THEN "failed"
    ELSE IF kind = "build" /\ fl.draft = "stripped" THEN "cleanup"
    ELSE IF kind = "draft" THEN "plan"
    ELSE "publish"

\* Faulty variant: a draft is recorded whatever became of its import.
VerifiedAnyDraft(kind, fl) ==
    IF kind = "draft" THEN "plan"
    ELSE IF fl.draft = "EMPTY" THEN "failed"
    ELSE IF kind = "build" /\ fl.draft # "full" THEN "cleanup"
    ELSE "publish"

\* Faulty variant: a build enables what it has not published.
VerifiedUnpublished(kind, fl) ==
    IF fl.draft = "EMPTY" THEN "failed"
    ELSE IF kind = "build" THEN (IF fl.draft = "full" THEN "status" ELSE "cleanup")
    ELSE IF kind = "draft" THEN "plan"
    ELSE "publish"

\* verify_flow and the two gates after it; a draft is only checked for its
\* trigger and its status, a reimport only for its trigger.
Verified(kind, fl) ==
    IF fl.draft = "EMPTY" THEN "failed"
    ELSE IF kind = "build" /\ fl.draft # "full" THEN "cleanup"
    ELSE IF kind = "draft" THEN (IF fl.status = "ENABLED" THEN "failed" ELSE "plan")
    ELSE "publish"

\* The GETs of publish_and_enable and the last GET of its callers.
Checked(kind, call, fl) ==
    IF call = "final" THEN
        IF fl.status # "ENABLED" THEN "failed"
        ELSE IF kind = "build" THEN "upsert" ELSE "ok"
    ELSE IF fl.status = "ENABLED" THEN "final"
    ELSE IF call = "status" THEN "enable1"
    ELSE IF call = "check1" THEN "enable2"
    ELSE "failed"

\* What a request admitted by the ownership gate does.
Admitted(kind) == IF kind = "reimport" THEN "guard" ELSE kind

\* Faulty variant: any flow can be registered.
AfterReadAnyProject(r) ==
    LET kind == req[r].kind
        fl == Target(r) IN
    IF At(r, "gateAP") THEN (IF fl.owner = req[r].tenant THEN Admitted(kind) ELSE "failed")
    ELSE IF At(r, "verify") THEN Verified(kind, fl)
    ELSE IF At(r, "lookup") THEN "employ"
    ELSE Checked(kind, req[r].pc, fl)

\* Where a GET leads.
AfterRead(r) ==
    LET kind == req[r].kind
        fl == Target(r) IN
    IF At(r, "gateAP") THEN (IF fl.owner = req[r].tenant THEN Admitted(kind) ELSE "failed")
    ELSE IF At(r, "verify") THEN Verified(kind, fl)
    ELSE IF At(r, "lookup") THEN
        (IF fl.project = req[r].tenant THEN "employ" ELSE "failed")
    ELSE Checked(kind, req[r].pc, fl)
-----------------------------------------------------------------------------
(***************************************************************************)
(* SiyadahEngine._r                                                        *)
(***************************************************************************)

\* Faulty variant: the budget is renewed where the call should give up.
RetryForever(r) == req' = [req EXCEPT ![r].tries = (@ + 1) % MaxTries]

\* Faulty variant: one attempt too many.
RetryOnceMore(r) ==
    req' = IF req[r].tries = MaxTries
           THEN [req EXCEPT ![r].pc = OnError(req[r].kind, @), ![r].tries = 0]
           ELSE [req EXCEPT ![r].tries = @ + 1]

\* A transient failure: the next attempt, or the exception after the third.
Retry(r) ==
    req' = IF req[r].tries + 1 = MaxTries
           THEN [req EXCEPT ![r].pc = OnError(req[r].kind, @), ![r].tries = 0]
           ELSE [req EXCEPT ![r].tries = @ + 1]

Raise(r) == Goto(r, OnError(req[r].kind, req[r].pc))

Calls == Writes \cup Reads \cup {"create"}

\* No answer and no effect.
Unreachable(r) ==
    /\ "unreachable" \in Faults
    /\ req[r].pc \in Calls
    /\ Retry(r)
    /\ UNCHANGED <<flows, registry, plans, late>>

\* 4xx: never tried again.  A flow that is gone is answered 404.
Refused(r) ==
    /\ req[r].pc \in Calls
    /\ "refused" \in Faults \/ (~ At(r, "create") /\ ~ Exists(req[r].flow))
    /\ Raise(r)
    /\ UNCHANGED <<flows, registry, plans, late>>

\* The call has its effect and its answer is lost: it is repeated, or, when it
\* already was the repeat after a token renewal, reported as the 401 before.
WriteUnheard(r) ==
    /\ req[r].pc \in Writes
    /\ Acts(r)
    /\ \/ "lost" \in Faults /\ Retry(r)
       \/ "renewal" \in Faults /\ Raise(r)
    /\ UNCHANGED <<registry, plans, late>>

\* The caller times out; AP will act on the call later.
WriteDelayed(r) ==
    /\ "late" \in Faults
    /\ req[r].pc \in Writes
    /\ Cardinality(late) < MaxLate
    /\ late' = late \cup
           {[call |-> req[r].pc, flow |-> req[r].flow, tenant |-> req[r].tenant]}
    /\ Retry(r)
    /\ UNCHANGED <<flows, registry, plans>>

LateWrite(c) ==
    /\ late' = late \ {c}
    /\ \/ Effect(c.call, c.flow, c.tenant)
       \/ ~ Exists(c.flow) /\ UNCHANGED flows
    /\ UNCHANGED <<registry, plans, req>>

Write(r) ==
    /\ req[r].pc \in Writes
    /\ Acts(r)
    /\ Goto(r, AfterWrite[req[r].pc])
    /\ UNCHANGED <<registry, plans, late>>

Read(r) ==
    /\ req[r].pc \in Reads
    /\ Exists(req[r].flow)
    /\ Goto(r, AfterRead(r))
    /\ UNCHANGED <<flows, registry, plans, late>>

NewFlow(f, tenant) ==
    /\ flows[f].status = "absent"
    /\ flows' = [flows EXCEPT ![f] =
           [NoFlow EXCEPT !.status = "DISABLED", !.project = tenant]]

\* POST /v1/flows/ is not idempotent: an unheard attempt leaves a flow behind
\* and the next one creates another.
Create(r, f) ==
    /\ At(r, "create")
    /\ NewFlow(f, req[r].tenant)
    /\ \/ req' = [req EXCEPT ![r].pc = "stamp", ![r].tries = 0, ![r].flow = f]
       \/ "lost" \in Faults /\ Retry(r)
       \/ "renewal" \in Faults /\ Raise(r)
    /\ UNCHANGED <<registry, plans, late>>
-----------------------------------------------------------------------------
(***************************************************************************)
(* The requests                                                            *)
(***************************************************************************)

FirstStep(kind) ==
    IF kind = "build" THEN "validate"
    ELSE IF kind = "dynamic" THEN "classify"
    ELSE IF kind = "register" THEN "lookup"
    ELSE "gate"

\* Anyone may ask for anything, about any flow id there is or was.
Arrive(r, kind, tenant, f) ==
    /\ At(r, "idle")
    /\ kind # "draft"
    /\ IF kind \in {"build", "dynamic"} THEN f = None
       ELSE f # None /\ flows[f].status # "absent"
    /\ req' = [req EXCEPT ![r] = [kind |-> kind, tenant |-> tenant, flow |-> f,
                                  pc |-> FirstStep(kind), tries |-> 0]]
    /\ UNCHANGED <<flows, registry, plans, late>>

\* classify_connection_requirements: blocked pieces lead to a draft in AP, or,
\* with the feature flag off, to a plan without flow.
Classify(r) ==
    /\ At(r, "classify")
    /\ \/ req' = [req EXCEPT ![r].kind = "build", ![r].pc = "validate"]
       \/ \E label \in {"create", "plan"} :
              req' = [req EXCEPT ![r].kind = "draft", ![r].pc = label]
       \/ Goto(r, "failed")
    /\ UNCHANGED <<flows, registry, plans, late>>

\* assert_trigger, before anything is created; guard_connections, before a
\* reimport touches the flow.
Validate(r) ==
    /\ \/ At(r, "validate") /\ (Goto(r, "create") \/ Goto(r, "failed"))
       \/ At(r, "guard") /\ (Goto(r, "import") \/ Goto(r, "failed"))
    /\ UNCHANGED <<flows, registry, plans, late>>

\* Faulty variant: a failing read of flow_registry lets the caller through.
GateFailsOpen(r) ==
    LET row == registry[req[r].flow] IN
    /\ At(r, "gate")
    /\ \/ row = None /\ Goto(r, "gateAP")
       \/ row = req[r].tenant /\ Goto(r, Admitted(req[r].kind))
       \/ row \notin {None, req[r].tenant} /\ Goto(r, "failed")
       \/ "db" \in Faults /\ Goto(r, Admitted(req[r].kind))
    /\ UNCHANGED <<flows, registry, plans, late>>

\* _flow_belongs_to: the row decides if there is one; without a row, or when
\* it cannot be read, the stamp in AP does.
Gate(r) ==
    LET row == registry[req[r].flow] IN
    /\ At(r, "gate")
    /\ \/ row = None /\ Goto(r, "gateAP")
       \/ row = req[r].tenant /\ Goto(r, Admitted(req[r].kind))
       \/ row \notin {None, req[r].tenant} /\ Goto(r, "failed")
       \/ "db" \in Faults /\ Goto(r, "gateAP")
    /\ UNCHANGED <<flows, registry, plans, late>>

\* The flow is deleted, its row goes too; a failure is only logged.
Evict(r) ==
    /\ At(r, "evict")
    /\ \/ registry' = [registry EXCEPT ![req[r].flow] = None]
       \/ "db" \in Faults /\ registry' = registry
    /\ Goto(r, "ok")
    /\ UNCHANGED <<flows, plans, late>>

\* golden_build's INSERT ... ON CONFLICT DO UPDATE; a failure is only logged.
Upsert(r) ==
    /\ At(r, "upsert")
    /\ \/ registry' = [registry EXCEPT ![req[r].flow] = req[r].tenant]
       \/ "db" \in Faults /\ registry' = registry
    /\ Goto(r, "ok")
    /\ UNCHANGED <<flows, plans, late>>

\* register-employee: a row of another tenant is never taken over.  One step for
\* its SELECT and its INSERT or UPDATE by the row's id: a row that appears or goes
\* between the two meets the unique key or no row at all, which fails the request
\* like a database that does not answer, with or without faults.
Employ(r) ==
    /\ At(r, "employ")
    /\ \/ /\ registry[req[r].flow] \in {None, req[r].tenant}
          /\ registry' = [registry EXCEPT ![req[r].flow] = req[r].tenant]
          /\ Goto(r, "ok")
       \/ /\ registry' = registry
          /\ Goto(r, "failed")
    /\ UNCHANGED <<flows, plans, late>>

\* save_pending_activation_plan.
Plan(r) ==
    /\ At(r, "plan")
    /\ \/ /\ plans' = plans \cup {[tenant |-> req[r].tenant, flow |-> req[r].flow]}
          /\ Goto(r, "ok")
       \/ /\ "db" \in Faults
          /\ plans' = plans
          /\ Goto(r, "failed")
    /\ UNCHANGED <<flows, registry, late>>

Crash(r) ==
    /\ "crash" \in Faults
    /\ req[r].pc \in Running
    /\ Goto(r, "failed")
    /\ UNCHANGED <<flows, registry, plans, late>>
-----------------------------------------------------------------------------

Step(r) ==
    \/ Classify(r) \/ Validate(r) \/ Gate(r)
    \/ \E f \in Flows : Create(r, f)
    \/ Write(r) \/ WriteUnheard(r) \/ WriteDelayed(r)
    \/ Read(r) \/ Unreachable(r) \/ Refused(r)
    \/ Evict(r) \/ Upsert(r) \/ Employ(r) \/ Plan(r)

Next ==
    \/ \E r \in Requests : Step(r) \/ Crash(r)
    \/ \E r \in Requests, kind \in Kinds, tenant \in Tenants, f \in Flows \cup {None} :
           Arrive(r, kind, tenant, f)
    \/ \E c \in late : LateWrite(c)

Spec == Init /\ [][Next]_vars

(***************************************************************************)
(* Fairness: a request that has arrived is an asyncio task and runs on.    *)
(* Nothing is assumed of AP, of the database or of who sends requests.     *)
(***************************************************************************)
FairSpec == Spec /\ \A r \in Requests : WF_vars(Step(r))
-----------------------------------------------------------------------------
(***************************************************************************)
(* Properties                                                              *)
(***************************************************************************)

\* The types of AP's flows, of the tables and of the requests.
TypeOK ==
    /\ flows \in [Flows -> FlowRecords]
    /\ registry \in [Flows -> Tenants \cup {None}]
    /\ plans \subseteq [tenant : Tenants, flow : Flows \cup {None}]
    /\ req \in [Requests ->
                  [kind : KindNames, tenant : Tenants \cup {None},
                   flow : Flows \cup {None},
                   pc : Running \cup Ended \cup {"idle"}, tries : 0 .. MaxTries - 1]]
    /\ late \subseteq [call : Writes, flow : Flows, tenant : Tenants]

\* What _flow_belongs_to answers when both of its reads succeed.
BelongsTo(f, tenant) ==
    IF registry[f] # None THEN registry[f] = tenant ELSE flows[f].owner = tenant

\* A flow that has a graph, and so could run, is never out of reach of the
\* tenant in whose project it is: golden_build stamps it before IMPORT_FLOW so
\* that "even if the import fails the flow is already attributable", and no
\* lost answer, crash, registration or eviction takes that away again.
GraphIsAttributable ==
    \A f \in Flows :
        Exists(f) /\ flows[f].draft # "EMPTY" => BelongsTo(f, flows[f].project)

\* The registry never names a tenant other than the one whose project the flow
\* is in, whoever registers it and in whatever order.
RegistryMatchesProject ==
    \A f \in Flows : registry[f] \in {None, flows[f].project}

\* No request changes a flow of another tenant, however long ago the gate was
\* passed and however often a call is repeated or delayed.
ForeignFlowsUntouched ==
    [][\A f \in Flows : flows'[f] # flows[f] =>
           \/ \E r \in Requests : /\ req'[r] # req[r]
                                  /\ req[r].tenant = flows'[f].project
           \/ \E c \in late \ late' : c.tenant = flows'[f].project]_vars

\* What is published, and so runs, has passed the gates after IMPORT_FLOW, also
\* when the import was repeated: "Hard-stop here ... instead of persisting an
\* unusable digital employee".  (reimport has no such gates.)
PublishedIsVerified == \A f \in Flows : flows[f].published \in {"none", "full"}

\* A build answered "deployed" has published its graph under its own name,
\* whatever the tenant did with the flow in the meantime.
DeployedIsPublished ==
    \A r \in Requests :
        req[r].kind = "build" /\ At(r, "ok") =>
            /\ Target(r).published = "full"
            /\ Target(r).owner = req[r].tenant

\* A saved plan names a draft its tenant can reach, with a graph and never
\* published, and no two requests share one.
PlanHasDraft ==
    /\ \A p \in plans : p.flow # None =>
           /\ flows[p.flow].owner = p.tenant
           /\ flows[p.flow].draft # "EMPTY"
           /\ flows[p.flow].published = "none"
    /\ \A r, s \in Requests :
           r # s /\ req[r].kind = "draft" /\ req[s].kind = "draft" =>
               req[r].flow = None \/ req[r].flow # req[s].flow

\* A request ends, because every call gives up after three attempts and
\* publish_and_enable after two.
RequestsEnd == \A r \in Requests : req[r].pc \in Running ~> req[r].pc \in Ended

\* Once nothing is running, flow_registry has no row of a flow that is gone:
\* "Evict from flow_registry so /v2/flows doesn't keep a ghost row".
NoGhostRow ==
    (\A r \in Requests : req[r].pc \notin Running) =>
        \A f \in Flows : flows[f].status = "deleted" => registry[f] = None
=============================================================================
