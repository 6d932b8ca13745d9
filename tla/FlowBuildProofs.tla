--------------------------- MODULE FlowBuildProofs ---------------------------
(***************************************************************************)
(* Proofs about FlowBuild, for any requests, flows, tenants and faults,    *)
(* late calls included; only what concerns the content of flows, at the    *)
(* end, needs that no call is late and no flow is reimported.              *)
(*                                                                         *)
(* The inductive invariant says of AP which flows are whose, and of each   *)
(* request and each late call what its position implies about its flow.    *)
(* What makes it inductive is that AP's flows only change in one direction *)
(* (Monotone): they keep their project, deleted ones stay deleted, and a   *)
(* flow within its tenant's reach stays there as long as it exists.        *)
(***************************************************************************)
EXTENDS FlowBuild, TLAPS

\* Positions at which a request has a flow, and one its tenant may change.
OnFlow == Writes \cup Reads \cup {"gate", "guard", "evict", "upsert", "employ"}
OnOwnFlow == OnFlow \ {"gate", "gateAP", "lookup"}
GatedKinds == {"enable", "disable", "delete", "reimport"}

\* The row or the stamp names the tenant of the project.
Attributable(f) ==
    registry[f] = flows[f].project \/ flows[f].owner = flows[f].project

FlowInv(f) ==
    /\ flows[f].status = "absent" => flows[f] = NoFlow
    /\ flows[f].status # "absent" => flows[f].project \in Tenants
    /\ flows[f].owner \in {None, flows[f].project}
    /\ registry[f] \in {None, flows[f].project}
    /\ Exists(f) /\ flows[f].draft # "EMPTY" => Attributable(f)

RequestInv(r) ==
    LET f == req[r].flow IN
    /\ req[r].pc # "idle" => req[r].tenant \in Tenants
    /\ req[r].pc \in {"gate", "gateAP"} => req[r].kind \in GatedKinds
    /\ req[r].pc \in OnFlow => f \in Flows /\ flows[f].status # "absent"
    /\ req[r].pc \in OnOwnFlow => flows[f].project = req[r].tenant
    /\ req[r].pc \in {"guard", "import"} /\ Exists(f) => Attributable(f)
    /\ req[r].pc = "evict" => flows[f].status = "deleted"

LateInv(c) ==
    /\ flows[c.flow].status # "absent"
    /\ flows[c.flow].project = c.tenant
    /\ c.call = "import" /\ Exists(c.flow) => Attributable(c.flow)

IInv ==
    /\ TypeOK
    /\ \A f \in Flows : FlowInv(f)
    /\ \A r \in Requests : RequestInv(r)
    /\ \A c \in late : LateInv(c)

\* How AP's flows and the registry may change, as seen by a request that waits.
Monotone ==
    \A f \in Flows : flows[f].status # "absent" =>
        /\ flows'[f].status # "absent"
        /\ flows'[f].project = flows[f].project
        /\ flows[f].status = "deleted" => flows'[f].status = "deleted"
        /\ Exists(f)' /\ Attributable(f) => Attributable(f)'

ReqType == [Requests ->
              [kind : KindNames, tenant : Tenants \cup {None},
               flow : Flows \cup {None},
               pc : Running \cup Ended \cup {"idle"}, tries : 0 .. MaxTries - 1]]
LateType == [call : Writes, flow : Flows, tenant : Tenants]
-----------------------------------------------------------------------------
(***************************************************************************)
(* Lemmas                                                                  *)
(***************************************************************************)

\* What a call of AP does: it changes one flow that exists.
LEMMA EffectFacts ==
    ASSUME flows \in [Flows -> FlowRecords],
           NEW call \in Writes, NEW f \in Flows, NEW tenant \in Tenants,
           Effect(call, f, tenant)
    PROVE  /\ Exists(f)
           /\ flows' \in [Flows -> FlowRecords]
           /\ \A g \in Flows : g # f => flows'[g] = flows[g]
           /\ flows'[f].project = flows[f].project
           /\ flows'[f].owner = IF call = "stamp" THEN tenant ELSE flows[f].owner
           /\ call # "import" => flows'[f].draft = flows[f].draft
           /\ flows'[f].status # "absent"
           /\ call = "delete" => flows'[f].status = "deleted"
  <1>. DEFINE fl == flows[f]
              Fits(new) ==
                  /\ new \in FlowRecords
                  /\ new.project = fl.project
                  /\ new.owner = IF call = "stamp" THEN tenant ELSE fl.owner
                  /\ call # "import" => new.draft = fl.draft
                  /\ new.status # "absent"
                  /\ call = "delete" => new.status = "deleted"
  <1>1. fl \in FlowRecords /\ fl.status \in {"DISABLED", "ENABLED"}
    BY DEF Effect, Exists
  <1>2. SUFFICES \E new : Fits(new) /\ Becomes(f, new)
    <2>1. PICK new : Fits(new) /\ Becomes(f, new)
      BY <1>2
    <2>2. flows'[f] = new /\ flows' \in [Flows -> FlowRecords]
      BY <2>1 DEF Becomes
    <2>3. \A g \in Flows : g # f => flows'[g] = flows[g]
      BY <2>1 DEF Becomes
    <2>. QED
      BY <2>1, <2>2, <2>3 DEF Effect
  <1>3. CASE call = "stamp"
    <2>1. Fits([fl EXCEPT !.owner = tenant])
      BY <1>1, <1>3 DEF FlowRecords
    <2>2. Becomes(f, [fl EXCEPT !.owner = tenant])
      BY <1>3 DEF Effect
    <2>. QED
      BY <2>1, <2>2
  <1>4. CASE call = "import"
    <2>1. PICK g \in Imports : Becomes(f, [fl EXCEPT !.draft = g])
      BY <1>4 DEF Effect
    <2>2. Fits([fl EXCEPT !.draft = g])
      BY <1>1, <1>4, ImportsAssumption DEF FlowRecords
    <2>. QED
      BY <2>1, <2>2
  <1>5. CASE call = "publish"
    <2>1. PICK st \in {fl.status, "ENABLED"} :
              Becomes(f, [fl EXCEPT !.published = fl.draft, !.status = st])
      BY <1>5 DEF Effect
    <2>2. Fits([fl EXCEPT !.published = fl.draft, !.status = st])
      BY <1>1, <1>5 DEF FlowRecords, FlowStatus
    <2>. QED
      BY <2>1, <2>2
  <1>6. CASE call \in {"enable", "enable1", "enable2"}
    <2>1. PICK st \in {fl.status, "ENABLED"} : Becomes(f, [fl EXCEPT !.status = st])
      BY <1>6 DEF Effect
    <2>2. Fits([fl EXCEPT !.status = st])
      BY <1>1, <1>6 DEF FlowRecords, FlowStatus
    <2>. QED
      BY <2>1, <2>2
  <1>7. CASE call = "disable"
    <2>1. Fits([fl EXCEPT !.status = "DISABLED"])
      BY <1>1, <1>7 DEF FlowRecords, FlowStatus
    <2>2. Becomes(f, [fl EXCEPT !.status = "DISABLED"])
      BY <1>7 DEF Effect
    <2>. QED
      BY <2>1, <2>2
  <1>8. CASE call \in {"delete", "cleanup"}
    <2>1. Fits([fl EXCEPT !.status = "deleted"])
      BY <1>1, <1>8 DEF FlowRecords, FlowStatus
    <2>2. Becomes(f, [fl EXCEPT !.status = "deleted"])
      BY <1>8 DEF Effect
    <2>. QED
      BY <2>1, <2>2
  <1>. QED
    BY <1>3, <1>4, <1>5, <1>6, <1>7, <1>8 DEF Writes

\* A call made for the tenant of the flow's project leaves every flow in order.
LEMMA CallKeepsFlows ==
    ASSUME IInv, NEW call \in Writes, NEW f \in Flows, NEW tenant \in Tenants,
           flows[f].project = tenant, call = "import" /\ Exists(f) => Attributable(f),
           Effect(call, f, tenant), registry' = registry
    PROVE  /\ flows' \in [Flows -> FlowRecords]
           /\ \A g \in Flows : FlowInv(g)'
           /\ Monotone
  <1>1. flows \in [Flows -> FlowRecords]
    BY DEF IInv, TypeOK
  <1>2. /\ Exists(f)
        /\ flows' \in [Flows -> FlowRecords]
        /\ \A g \in Flows : g # f => flows'[g] = flows[g]
        /\ flows'[f].project = flows[f].project
        /\ flows'[f].owner = IF call = "stamp" THEN tenant ELSE flows[f].owner
        /\ call # "import" => flows'[f].draft = flows[f].draft
        /\ flows'[f].status # "absent"
    BY <1>1, EffectFacts
  <1>3. FlowInv(f)
    BY DEF IInv
  <1>4. FlowInv(f)'
    BY <1>2, <1>3 DEF FlowInv, Exists, Attributable
  <1>5. ASSUME NEW g \in Flows, g # f PROVE FlowInv(g)'
    BY <1>2, <1>5 DEF IInv, FlowInv, Exists, Attributable
  <1>6. Monotone
    BY <1>2 DEF Monotone, Exists, Attributable
  <1>. QED
    BY <1>2, <1>4, <1>5, <1>6

\* Flows and registry that stay as they are.
LEMMA SameFlows ==
    ASSUME IInv, UNCHANGED <<flows, registry>>
    PROVE  /\ flows' \in [Flows -> FlowRecords]
           /\ \A g \in Flows : FlowInv(g)'
           /\ Monotone
  BY DEF IInv, TypeOK, FlowInv, Exists, Attributable, Monotone

\* What is known of a request survives the steps of others.
LEMMA Bystander ==
    ASSUME IInv, Monotone, NEW r \in Requests, req'[r] = req[r]
    PROVE  RequestInv(r)'
  <1>1. RequestInv(r)
    BY DEF IInv
  <1>2. CASE req[r].pc \in OnFlow
    <2>1. /\ req[r].flow \in Flows
          /\ flows[req[r].flow].status # "absent"
      BY <1>1, <1>2 DEF RequestInv
    <2>2. Exists(req[r].flow)' => Exists(req[r].flow)
      <3>1. flows[req[r].flow].status \in FlowStatus
        BY <2>1 DEF IInv, TypeOK, FlowRecords
      <3>. QED
        BY <2>1, <3>1 DEF Monotone, Exists, FlowStatus
    <2>. QED
      BY <1>1, <1>2, <2>1, <2>2 DEF RequestInv, Monotone, OnOwnFlow
  <1>3. CASE req[r].pc \notin OnFlow
    BY <1>1, <1>3 DEF RequestInv, OnFlow, OnOwnFlow, Writes, Reads
  <1>. QED
    BY <1>2, <1>3

LEMMA LateBystander ==
    ASSUME IInv, Monotone, flows' \in [Flows -> FlowRecords], NEW c \in late
    PROVE  LateInv(c)'
  <1>1. c.flow \in Flows /\ LateInv(c)
    BY DEF IInv, TypeOK
  <1>2. flows[c.flow].status \in FlowStatus
    BY <1>1 DEF IInv, TypeOK, FlowRecords
  <1>3. Exists(c.flow)' => Exists(c.flow)
    BY <1>1, <1>2 DEF Monotone, Exists, LateInv, FlowStatus
  <1>. QED
    BY <1>1, <1>3 DEF LateInv, Monotone

\* A step of one request, which leaves the others alone.
LEMMA StepKeeps ==
    ASSUME IInv, Monotone, NEW r \in Requests,
           flows' \in [Flows -> FlowRecords],
           \A f \in Flows : FlowInv(f)',
           registry' \in [Flows -> Tenants \cup {None}],
           plans' \subseteq [tenant : Tenants, flow : Flows \cup {None}],
           req' \in ReqType, \A s \in Requests : s # r => req'[s] = req[s],
           RequestInv(r)',
           late' \subseteq LateType, \A c \in late' \ late : LateInv(c)'
    PROVE  IInv'
  <1>1. TypeOK'
    BY DEF TypeOK, ReqType, LateType
  <1>2. \A s \in Requests : RequestInv(s)'
    BY Bystander
  <1>3. \A c \in late' : LateInv(c)'
    BY LateBystander
  <1>. QED
    BY <1>1, <1>2, <1>3 DEF IInv

\* A step that only moves one request on.
LEMMA MoveKeeps ==
    ASSUME IInv, NEW r \in Requests, UNCHANGED <<flows, registry, plans, late>>,
           req' \in ReqType, \A s \in Requests : s # r => req'[s] = req[s],
           RequestInv(r)'
    PROVE  IInv'
  <1>1. /\ registry' \in [Flows -> Tenants \cup {None}]
        /\ plans' \subseteq [tenant : Tenants, flow : Flows \cup {None}]
        /\ late' \subseteq LateType
    BY DEF IInv, TypeOK, LateType
  <1>2. /\ flows' \in [Flows -> FlowRecords]
        /\ \A f \in Flows : FlowInv(f)'
        /\ Monotone
    BY SameFlows
  <1>. QED
    BY <1>1, <1>2, StepKeeps

\* A request with a new position.
LEMMA MoveFacts ==
    ASSUME req \in ReqType, NEW r \in Requests,
           NEW label \in Running \cup Ended, NEW n \in 0 .. MaxTries - 1,
           req' = [req EXCEPT ![r] = [req[r] EXCEPT !.pc = label, !.tries = n]]
    PROVE  /\ req' \in ReqType
           /\ \A s \in Requests : s # r => req'[s] = req[s]
           /\ req'[r].kind = req[r].kind
           /\ req'[r].tenant = req[r].tenant
           /\ req'[r].flow = req[r].flow
           /\ req'[r].pc = label
  BY DEF ReqType

LEMMA GotoFacts ==
    ASSUME req \in ReqType, NEW r \in Requests,
           NEW label \in Running \cup Ended, Goto(r, label)
    PROVE  /\ req' \in ReqType
           /\ \A s \in Requests : s # r => req'[s] = req[s]
           /\ req'[r].kind = req[r].kind
           /\ req'[r].tenant = req[r].tenant
           /\ req'[r].flow = req[r].flow
           /\ req'[r].pc = label
  <1>1. req' = [req EXCEPT ![r] = [req[r] EXCEPT !.pc = label, !.tries = 0]]
    BY DEF Goto, ReqType
  <1>2. 0 \in 0 .. MaxTries - 1
    BY DEF MaxTries
  <1>. QED
    BY <1>1, <1>2, MoveFacts

LEMMA RetryFacts ==
    ASSUME req \in ReqType, NEW r \in Requests, req[r].pc \in Calls,
           Retry(r) \/ Raise(r)
    PROVE  /\ req' \in ReqType
           /\ \A s \in Requests : s # r => req'[s] = req[s]
           /\ req'[r].tenant = req[r].tenant
           /\ req'[r].flow = req[r].flow
           /\ req'[r].kind = req[r].kind
           /\ \/ req'[r].pc = req[r].pc
              \/ req'[r].pc = "failed"
              \/ req'[r].pc = "cleanup" /\ req[r].pc = "stamp"
  <1>1. req[r] \in [kind : KindNames, tenant : Tenants \cup {None},
                    flow : Flows \cup {None},
                    pc : Running \cup Ended \cup {"idle"}, tries : 0 .. MaxTries - 1]
    BY DEF ReqType
  <1>2. /\ OnError(req[r].kind, req[r].pc) \in {"failed", "cleanup"}
        /\ OnError(req[r].kind, req[r].pc) = "cleanup" => req[r].pc = "stamp"
    BY DEF OnError
  <1>3. OnError(req[r].kind, req[r].pc) \in Running \cup Ended
    BY <1>2 DEF Running, Writes, Ended
  <1>4. CASE Raise(r)
    BY <1>1, <1>2, <1>3, <1>4, GotoFacts DEF Raise
  <1>5. CASE Retry(r)
    <2>1. CASE req[r].tries + 1 = MaxTries
      <3>1. req' = [req EXCEPT ![r] = [req[r] EXCEPT
                        !.pc = OnError(req[r].kind, req[r].pc), !.tries = 0]]
        BY <1>5, <2>1 DEF Retry, ReqType
      <3>2. 0 \in 0 .. MaxTries - 1
        BY DEF MaxTries
      <3>. QED
        BY <1>2, <1>3, <3>1, <3>2, MoveFacts
    <2>2. CASE req[r].tries + 1 # MaxTries
      <3>1. req' = [req EXCEPT ![r] = [req[r] EXCEPT
                        !.pc = req[r].pc, !.tries = req[r].tries + 1]]
        BY <1>1, <1>5, <2>2 DEF Retry, ReqType
      <3>2. req[r].tries + 1 \in 0 .. MaxTries - 1
        BY <1>1, <2>2 DEF MaxTries
      <3>3. req[r].pc \in Running \cup Ended
        BY DEF Calls, Running, Others
      <3>. QED
        BY <3>1, <3>2, <3>3, MoveFacts
    <2>. QED
      BY <2>1, <2>2
  <1>. QED
    BY <1>4, <1>5

\* A request whose call failed is where it was, or has given up.
LEMMA RetryKeeps ==
    ASSUME IInv, Monotone, NEW r \in Requests, req[r].pc \in Calls,
           Retry(r) \/ Raise(r)
    PROVE  RequestInv(r)'
  <1>1. RequestInv(r)
    BY DEF IInv
  <1>2. /\ req'[r].tenant = req[r].tenant
        /\ req'[r].flow = req[r].flow
        /\ req'[r].kind = req[r].kind
        /\ \/ req'[r].pc = req[r].pc
           \/ req'[r].pc = "failed"
           \/ req'[r].pc = "cleanup" /\ req[r].pc = "stamp"
    BY RetryFacts DEF IInv, TypeOK, ReqType
  <1>3. req[r].tenant \in Tenants
    BY <1>1 DEF RequestInv, Calls, Writes, Reads
  <1>4. CASE req'[r].pc = "failed"
    BY <1>2, <1>3, <1>4 DEF RequestInv, OnFlow, OnOwnFlow, Writes, Reads
  <1>5. CASE req'[r].pc = "cleanup" /\ req[r].pc = "stamp"
    BY <1>1, <1>2, <1>3, <1>5 DEF RequestInv, OnFlow, OnOwnFlow, Writes, Reads, Monotone
  <1>6. CASE req'[r].pc = req[r].pc
    <2>1. CASE req[r].pc \in OnFlow
      <3>1. /\ req[r].flow \in Flows
            /\ flows[req[r].flow].status # "absent"
        BY <1>1, <2>1 DEF RequestInv
      <3>2. flows[req[r].flow].status \in FlowStatus
        BY <3>1 DEF IInv, TypeOK, FlowRecords
      <3>3. Exists(req[r].flow)' => Exists(req[r].flow)
        BY <1>2, <3>1, <3>2 DEF Monotone, Exists, FlowStatus
      <3>. QED
        BY <1>1, <1>2, <1>6, <3>1, <3>3 DEF RequestInv, Monotone, OnOwnFlow
    <2>2. CASE req[r].pc = "create"
      BY <1>2, <1>3, <1>6, <2>2 DEF RequestInv, OnFlow, OnOwnFlow, Writes, Reads
    <2>. QED
      BY <2>1, <2>2 DEF Calls, OnFlow
  <1>. QED
    BY <1>2, <1>4, <1>5, <1>6

-----------------------------------------------------------------------------
(***************************************************************************)
(* The inductive invariant                                                 *)
(***************************************************************************)

\* Moving a request on is in order if its new position is.
LEMMA GotoKeeps ==
    ASSUME IInv, Monotone, NEW r \in Requests, NEW f, f = req[r].flow,
           NEW label \in Running \cup Ended, Goto(r, label),
           req[r].tenant \in Tenants,
           label \in {"gate", "gateAP"} => req[r].kind \in GatedKinds,
           label \in OnFlow => f \in Flows /\ flows[f].status # "absent",
           label \in OnOwnFlow => flows[f].project = req[r].tenant,
           label \in {"guard", "import"} /\ Exists(f)' => Attributable(f)',
           label = "evict" => flows'[f].status = "deleted"
    PROVE  RequestInv(r)'
  <1>1. /\ req'[r].kind = req[r].kind
        /\ req'[r].tenant = req[r].tenant
        /\ req'[r].flow = f
        /\ req'[r].pc = label
    BY GotoFacts DEF IInv, TypeOK, ReqType
  <1>2. label \in OnFlow => /\ flows'[f].status # "absent"
                           /\ flows'[f].project = flows[f].project
    BY DEF Monotone
  <1>3. OnOwnFlow \subseteq OnFlow
    BY DEF OnOwnFlow
  <1>. QED
    BY <1>1, <1>2, <1>3 DEF RequestInv, Exists, Attributable

LEMMA QuietGoto ==
    ASSUME IInv, NEW r \in Requests, UNCHANGED <<flows, registry, plans, late>>,
           NEW label \in Running \cup Ended, Goto(r, label),
           req[r].tenant \in Tenants,
           label \in {"gate", "gateAP"} => req[r].kind \in GatedKinds,
           label \in OnFlow => req[r].flow \in Flows /\ flows[req[r].flow].status # "absent",
           label \in OnOwnFlow => flows[req[r].flow].project = req[r].tenant,
           label \in {"guard", "import"} /\ Exists(req[r].flow) => Attributable(req[r].flow),
           label = "evict" => flows[req[r].flow].status = "deleted"
    PROVE  IInv'
  <1>1. Monotone
    BY SameFlows
  <1>2. RequestInv(r)'
    <2>1. PICK f : f = req[r].flow
      OBVIOUS
    <2>2. (Exists(f)' <=> Exists(f)) /\ (Attributable(f)' <=> Attributable(f))
      BY DEF Exists, Attributable
    <2>. QED
      BY <1>1, <2>1, <2>2, GotoKeeps
  <1>3. /\ req' \in ReqType
        /\ \A s \in Requests : s # r => req'[s] = req[s]
    BY GotoFacts DEF IInv, TypeOK, ReqType
  <1>. QED
    BY <1>2, <1>3, MoveKeeps

\* A request that ends, or that has no flow yet.
LEMMA GotoOutside ==
    ASSUME IInv, NEW r \in Requests, UNCHANGED <<flows, registry, plans, late>>,
           NEW label \in {"ok", "failed", "create", "validate", "plan", "classify"},
           Goto(r, label), req[r].tenant \in Tenants
    PROVE  IInv'
  <1>1. label \in Running \cup Ended
    BY DEF Running, Ended, Others
  <1>2. label \notin OnFlow /\ label \notin OnOwnFlow
    BY DEF OnFlow, OnOwnFlow, Writes, Reads
  <1>. QED
    BY <1>1, <1>2, QuietGoto

LEMMA TenantKnown ==
    ASSUME IInv, NEW r \in Requests, req[r].pc # "idle"
    PROVE  req[r].tenant \in Tenants /\ req[r].tenant # None
  BY NamesAssumption DEF IInv, RequestInv

LEMMA ArriveKeeps ==
    ASSUME IInv, NEW r \in Requests, NEW kind \in Kinds, NEW tenant \in Tenants,
           NEW f \in Flows \cup {None}, Arrive(r, kind, tenant, f)
    PROVE  IInv'
  <1>. DEFINE new == [kind |-> kind, tenant |-> tenant, flow |-> f,
                      pc |-> FirstStep(kind), tries |-> 0]
  <1>1. /\ kind \in KindNames \ {"draft"}
        /\ req' = [req EXCEPT ![r] = new]
        /\ UNCHANGED <<flows, registry, plans, late>>
    BY KindsAssumption DEF Arrive
  <1>2. FirstStep(kind) \in {"validate", "classify", "lookup", "gate"}
    BY DEF FirstStep
  <1>3. FirstStep(kind) \in Running
    BY <1>2 DEF Running, Others, Reads
  <1>4. 0 \in 0 .. MaxTries - 1
    BY DEF MaxTries
  <1>5. /\ req' \in ReqType
        /\ \A s \in Requests : s # r => req'[s] = req[s]
        /\ req'[r] = new
    BY <1>1, <1>3, <1>4 DEF IInv, TypeOK, ReqType
  <1>6. FirstStep(kind) \in {"lookup", "gate"} =>
            f \in Flows /\ flows[f].status # "absent"
    BY DEF Arrive, FirstStep
  <1>7. FirstStep(kind) = "gate" => kind \in GatedKinds
    BY <1>1 DEF FirstStep, GatedKinds, KindNames
  <1>8. FirstStep(kind) \in {"validate", "classify"} => FirstStep(kind) \notin OnFlow
    BY DEF OnFlow, Writes, Reads
  <1>9. RequestInv(r)'
    BY <1>1, <1>2, <1>5, <1>6, <1>7, <1>8 DEF RequestInv, OnOwnFlow
  <1>. QED
    BY <1>1, <1>5, <1>9, MoveKeeps

LEMMA ClassifyKeeps ==
    ASSUME IInv, NEW r \in Requests, Classify(r)
    PROVE  IInv'
  <1>1. req[r].tenant \in Tenants
    BY TenantKnown DEF Classify, At
  <1>2. ASSUME NEW kind \in {"build", "draft"}, NEW label \in {"validate", "create", "plan"},
               req' = [req EXCEPT ![r].kind = kind, ![r].pc = label]
        PROVE  IInv'
    <2>1. req' = [req EXCEPT ![r] = [req[r] EXCEPT !.kind = kind, !.pc = label]]
      BY <1>2 DEF IInv, TypeOK
    <2>2. label \in Running /\ kind \in KindNames
      BY DEF Running, Others, KindNames
    <2>3. /\ req' \in ReqType
          /\ \A s \in Requests : s # r => req'[s] = req[s]
          /\ req'[r].tenant = req[r].tenant
          /\ req'[r].pc = label
      BY <2>1, <2>2 DEF IInv, TypeOK, ReqType
    <2>4. label \notin OnFlow /\ label \notin OnOwnFlow
      BY DEF OnFlow, OnOwnFlow, Writes, Reads
    <2>5. RequestInv(r)'
      BY <1>1, <2>3, <2>4 DEF RequestInv
    <2>. QED
      BY <2>3, <2>5, MoveKeeps DEF Classify
  <1>3. CASE Goto(r, "failed")
    BY <1>1, <1>3, GotoOutside DEF Classify
  <1>. QED
    BY <1>2, <1>3 DEF Classify

LEMMA ValidateKeeps ==
    ASSUME IInv, NEW r \in Requests, Validate(r)
    PROVE  IInv'
  <1>1. req[r].tenant \in Tenants
    BY TenantKnown DEF Validate, At
  <1>2. CASE Goto(r, "create") \/ Goto(r, "failed")
    BY <1>1, <1>2, GotoOutside DEF Validate
  <1>3. CASE At(r, "guard") /\ Goto(r, "import")
    <2>1. /\ req[r].flow \in Flows
          /\ flows[req[r].flow].status # "absent"
          /\ flows[req[r].flow].project = req[r].tenant
          /\ Exists(req[r].flow) => Attributable(req[r].flow)
      BY <1>3 DEF IInv, RequestInv, At, OnFlow, OnOwnFlow
    <2>2. "import" \in Running \cup Ended
      BY DEF Running, Writes
    <2>. QED
      BY <1>1, <1>3, <2>1, <2>2, QuietGoto DEF Validate
  <1>. QED
    BY <1>2, <1>3 DEF Validate

\* The positions behind the gate.
LEMMA AdmittedFacts ==
    ASSUME NEW kind \in GatedKinds
    PROVE  /\ Admitted(kind) \in {"enable", "disable", "delete", "guard"}
           /\ Admitted(kind) \in Running
  <1>1. Admitted(kind) \in {"enable", "disable", "delete", "guard"}
    BY DEF Admitted, GatedKinds
  <1>. QED
    BY <1>1 DEF Running, Writes, Others

\* Whoever the row or the stamp names is let in, and is the tenant of the project.
LEMMA AdmitKeeps ==
    ASSUME IInv, NEW r \in Requests, UNCHANGED <<flows, registry, plans, late>>,
           req[r].pc \in {"gate", "gateAP"},
           \/ registry[req[r].flow] = req[r].tenant
           \/ flows[req[r].flow].owner = req[r].tenant,
           Goto(r, Admitted(req[r].kind))
    PROVE  IInv'
  <1>. DEFINE f == req[r].flow
              label == Admitted(req[r].kind)
  <1>1. req[r].tenant \in Tenants /\ req[r].tenant # None
    BY TenantKnown
  <1>2. /\ req[r].kind \in GatedKinds
        /\ f \in Flows
        /\ flows[f].status # "absent"
    BY DEF IInv, RequestInv, OnFlow, Reads
  <1>3. flows[f].project = req[r].tenant /\ Attributable(f)
    BY <1>1, <1>2 DEF IInv, FlowInv, Attributable
  <1>4. label \in {"enable", "disable", "delete", "guard"} /\ label \in Running \cup Ended
    BY <1>2, AdmittedFacts
  <1>. QED
    BY <1>1, <1>2, <1>3, <1>4, QuietGoto

LEMMA GateKeeps ==
    ASSUME IInv, NEW r \in Requests, Gate(r)
    PROVE  IInv'
  <1>1. req[r].pc = "gate" /\ UNCHANGED <<flows, registry, plans, late>>
    BY DEF Gate, At
  <1>2. req[r].tenant \in Tenants
    BY <1>1, TenantKnown
  <1>3. CASE registry[req[r].flow] = req[r].tenant /\ Goto(r, Admitted(req[r].kind))
    BY <1>1, <1>3, AdmitKeeps
  <1>4. CASE Goto(r, "failed")
    BY <1>1, <1>2, <1>4, GotoOutside
  <1>5. CASE Goto(r, "gateAP")
    <2>1. /\ req[r].kind \in GatedKinds
          /\ req[r].flow \in Flows
          /\ flows[req[r].flow].status # "absent"
      BY <1>1 DEF IInv, RequestInv, OnFlow
    <2>2. "gateAP" \in Running \cup Ended /\ "gateAP" \notin OnOwnFlow
      BY DEF Running, Reads, OnOwnFlow
    <2>. QED
      BY <1>1, <1>2, <1>5, <2>1, <2>2, QuietGoto
  <1>. QED
    BY <1>3, <1>4, <1>5 DEF Gate

\* A request past the gate is at work on a flow of its tenant's project.
LEMMA OwnFlow ==
    ASSUME IInv, NEW r \in Requests, req[r].pc \in OnOwnFlow
    PROVE  /\ req[r].tenant \in Tenants
           /\ req[r].flow \in Flows
           /\ flows[req[r].flow].status # "absent"
           /\ flows[req[r].flow].project = req[r].tenant
  <1>1. req[r].pc # "idle"
    BY DEF OnOwnFlow, OnFlow, Writes, Reads
  <1>2. req[r].pc \in OnFlow
    BY DEF OnOwnFlow
  <1>. QED
    BY <1>1, <1>2 DEF IInv, RequestInv

\* What a GET of a flow that the tenant may change leads to.
LEMMA CheckedFacts ==
    ASSUME NEW kind, NEW call, NEW fl
    PROVE  Verified(kind, fl) \in {"failed", "cleanup", "plan", "publish"}
           /\ Checked(kind, call, fl) \in
                  {"failed", "upsert", "ok", "final", "enable1", "enable2"}
  BY DEF Verified, Checked

LEMMA ReadKeeps ==
    ASSUME IInv, NEW r \in Requests, Read(r)
    PROVE  IInv'
  <1>. DEFINE label == AfterRead(r)
  <1>1. /\ req[r].pc \in Reads
        /\ Goto(r, label)
        /\ UNCHANGED <<flows, registry, plans, late>>
    BY DEF Read
  <1>2. req[r].tenant \in Tenants
    BY <1>1, TenantKnown DEF Reads
  <1>3. CASE At(r, "gateAP")
    <2>1. CASE flows[req[r].flow].owner = req[r].tenant
      <3>1. label = Admitted(req[r].kind)
        BY <1>3, <2>1 DEF AfterRead, Target
      <3>. QED
        BY <1>1, <1>3, <2>1, <3>1, AdmitKeeps DEF At
    <2>2. CASE flows[req[r].flow].owner # req[r].tenant
      <3>1. label = "failed"
        BY <1>3, <2>2 DEF AfterRead, Target
      <3>. QED
        BY <1>1, <1>2, <3>1, GotoOutside
    <2>. QED
      BY <2>1, <2>2
  <1>4. CASE At(r, "lookup")
    <2>1. CASE flows[req[r].flow].project = req[r].tenant
      <3>1. label = "employ"
        BY <1>4, <2>1 DEF AfterRead, Target, At
      <3>2. req[r].flow \in Flows /\ flows[req[r].flow].status # "absent"
        BY <1>4 DEF IInv, RequestInv, OnFlow, Reads, At
      <3>3. label \in Running \cup Ended
        BY <3>1 DEF Running, Others
      <3>. QED
        BY <1>1, <1>2, <2>1, <3>1, <3>2, <3>3, QuietGoto
    <2>2. CASE flows[req[r].flow].project # req[r].tenant
      <3>1. label = "failed"
        BY <1>4, <2>2 DEF AfterRead, Target, At
      <3>. QED
        BY <1>1, <1>2, <3>1, GotoOutside
    <2>. QED
      BY <2>1, <2>2
  <1>5. CASE ~ At(r, "gateAP") /\ ~ At(r, "lookup")
    <2>1. label \in {"failed", "cleanup", "plan", "publish", "upsert", "ok",
                     "final", "enable1", "enable2"}
      BY <1>5, CheckedFacts DEF AfterRead
    <2>2. label \in Running \cup Ended
      BY <2>1 DEF Running, Ended, Writes, Reads, Others
    <2>3. req[r].pc \in OnOwnFlow
      BY <1>1, <1>5 DEF OnOwnFlow, OnFlow, Reads, At
    <2>. QED
      BY <1>1, <2>1, <2>2, <2>3, OwnFlow, QuietGoto
  <1>. QED
    BY <1>3, <1>4, <1>5

LEMMA FailureKeeps ==
    ASSUME IInv, NEW r \in Requests, Unreachable(r) \/ Refused(r)
    PROVE  IInv'
  <1>1. /\ req[r].pc \in Calls
        /\ Retry(r) \/ Raise(r)
        /\ UNCHANGED <<flows, registry, plans, late>>
    BY DEF Unreachable, Refused
  <1>2. Monotone
    BY <1>1, SameFlows
  <1>3. RequestInv(r)'
    BY <1>1, <1>2, RetryKeeps
  <1>4. /\ req' \in ReqType
        /\ \A s \in Requests : s # r => req'[s] = req[s]
    BY <1>1, RetryFacts DEF IInv, TypeOK, ReqType
  <1>. QED
    BY <1>1, <1>3, <1>4, MoveKeeps

LEMMA CrashKeeps ==
    ASSUME IInv, NEW r \in Requests, Crash(r)
    PROVE  IInv'
  <1>1. req[r].tenant \in Tenants
    BY TenantKnown DEF Crash, Running, Writes, Reads, Others
  <1>. QED
    BY <1>1, GotoOutside DEF Crash

\* A call the request makes on its flow.
LEMMA ActsKeeps ==
    ASSUME IInv, NEW r \in Requests, req[r].pc \in Writes, Acts(r), registry' = registry
    PROVE  /\ flows' \in [Flows -> FlowRecords]
           /\ \A g \in Flows : FlowInv(g)'
           /\ Monotone
           /\ req[r].pc = "stamp" => flows'[req[r].flow].owner = flows'[req[r].flow].project
           /\ req[r].pc = "delete" => flows'[req[r].flow].status = "deleted"
  <1>. DEFINE f == req[r].flow
  <1>1. req[r].pc \in OnOwnFlow
    BY DEF OnOwnFlow, OnFlow, Writes
  <1>2. /\ req[r].tenant \in Tenants
        /\ f \in Flows
        /\ flows[f].project = req[r].tenant
    BY <1>1, OwnFlow
  <1>3. req[r].pc = "import" /\ Exists(f) => Attributable(f)
    BY DEF IInv, RequestInv
  <1>4. Effect(req[r].pc, f, req[r].tenant)
    BY DEF Acts
  <1>5. flows \in [Flows -> FlowRecords]
    BY DEF IInv, TypeOK
  <1>. QED
    BY <1>2, <1>3, <1>4, <1>5, CallKeepsFlows, EffectFacts

LEMMA AfterWriteFacts ==
    ASSUME NEW call \in Writes
    PROVE  /\ AfterWrite[call] \in {"import", "verify", "status", "check1", "check2",
                                    "ok", "evict", "failed"}
           /\ AfterWrite[call] \in Running \cup Ended
           /\ AfterWrite[call] = "import" => call = "stamp"
           /\ AfterWrite[call] = "evict" => call = "delete"
  BY DEF AfterWrite, Writes, Running, Ended, Reads, Others

LEMMA WriteKeeps ==
    ASSUME IInv, NEW r \in Requests, Write(r)
    PROVE  IInv'
  <1>. DEFINE label == AfterWrite[req[r].pc]
  <1>1. /\ req[r].pc \in Writes
        /\ Acts(r)
        /\ Goto(r, label)
        /\ UNCHANGED <<registry, plans, late>>
    BY DEF Write
  <1>2. /\ flows' \in [Flows -> FlowRecords]
        /\ \A g \in Flows : FlowInv(g)'
        /\ Monotone
    BY <1>1, ActsKeeps
  <1>3. PICK f : f = req[r].flow
    OBVIOUS
  <1>4. /\ req[r].pc = "stamp" => Attributable(f)'
        /\ req[r].pc = "delete" => flows'[f].status = "deleted"
    BY <1>1, <1>3, ActsKeeps DEF Attributable
  <1>5. /\ label \in {"import", "verify", "status", "check1", "check2",
                      "ok", "evict", "failed"}
        /\ label \in Running \cup Ended
        /\ label = "import" => req[r].pc = "stamp"
        /\ label = "evict" => req[r].pc = "delete"
    BY <1>1, AfterWriteFacts
  <1>6. req[r].pc \in OnOwnFlow
    BY <1>1 DEF OnOwnFlow, OnFlow, Writes
  <1>7. RequestInv(r)'
    BY <1>1, <1>2, <1>3, <1>4, <1>5, <1>6, OwnFlow, GotoKeeps
  <1>8. /\ req' \in ReqType
        /\ \A s \in Requests : s # r => req'[s] = req[s]
    BY <1>1, <1>5, GotoFacts DEF IInv, TypeOK, ReqType
  <1>9. /\ registry' \in [Flows -> Tenants \cup {None}]
        /\ plans' \subseteq [tenant : Tenants, flow : Flows \cup {None}]
        /\ late' \subseteq LateType
    BY <1>1 DEF IInv, TypeOK, LateType
  <1>. QED
    BY <1>1, <1>2, <1>7, <1>8, <1>9, StepKeeps

LEMMA WriteUnheardKeeps ==
    ASSUME IInv, NEW r \in Requests, WriteUnheard(r)
    PROVE  IInv'
  <1>1. /\ req[r].pc \in Writes /\ req[r].pc \in Calls
        /\ Acts(r)
        /\ Retry(r) \/ Raise(r)
        /\ UNCHANGED <<registry, plans, late>>
    BY DEF WriteUnheard, Calls
  <1>2. /\ flows' \in [Flows -> FlowRecords]
        /\ \A g \in Flows : FlowInv(g)'
        /\ Monotone
    BY <1>1, ActsKeeps
  <1>3. RequestInv(r)'
    BY <1>1, <1>2, RetryKeeps
  <1>4. /\ req' \in ReqType
        /\ \A s \in Requests : s # r => req'[s] = req[s]
    BY <1>1, RetryFacts DEF IInv, TypeOK, ReqType
  <1>5. /\ registry' \in [Flows -> Tenants \cup {None}]
        /\ plans' \subseteq [tenant : Tenants, flow : Flows \cup {None}]
        /\ late' \subseteq LateType
    BY <1>1 DEF IInv, TypeOK, LateType
  <1>. QED
    BY <1>1, <1>2, <1>3, <1>4, <1>5, StepKeeps

LEMMA WriteDelayedKeeps ==
    ASSUME IInv, NEW r \in Requests, WriteDelayed(r)
    PROVE  IInv'
  <1>0. PICK c : c = [call |-> req[r].pc, flow |-> req[r].flow, tenant |-> req[r].tenant]
    OBVIOUS
  <1>1. /\ req[r].pc \in Writes /\ req[r].pc \in Calls
        /\ late' = late \cup {c}
        /\ Retry(r) \/ Raise(r)
        /\ UNCHANGED <<flows, registry, plans>>
    BY <1>0 DEF WriteDelayed, Calls
  <1>2. /\ flows' \in [Flows -> FlowRecords]
        /\ \A g \in Flows : FlowInv(g)'
        /\ Monotone
    BY <1>1, SameFlows
  <1>3. RequestInv(r)'
    BY <1>1, <1>2, RetryKeeps
  <1>4. /\ req' \in ReqType
        /\ \A s \in Requests : s # r => req'[s] = req[s]
    BY <1>1, RetryFacts DEF IInv, TypeOK, ReqType
  <1>5. req[r].pc \in OnOwnFlow
    BY <1>1 DEF OnOwnFlow, OnFlow, Writes
  <1>6. /\ req[r].tenant \in Tenants
        /\ req[r].flow \in Flows
        /\ flows[req[r].flow].status # "absent"
        /\ flows[req[r].flow].project = req[r].tenant
    BY <1>5, OwnFlow
  <1>7. req[r].pc = "import" /\ Exists(req[r].flow) => Attributable(req[r].flow)
    BY DEF IInv, RequestInv
  <1>8. LateInv(c)'
    BY <1>0, <1>1, <1>6, <1>7 DEF LateInv, Exists, Attributable
  <1>9. /\ registry' \in [Flows -> Tenants \cup {None}]
        /\ plans' \subseteq [tenant : Tenants, flow : Flows \cup {None}]
        /\ late' \subseteq LateType
    BY <1>0, <1>1, <1>6 DEF IInv, TypeOK, LateType
  <1>. QED
    BY <1>1, <1>2, <1>3, <1>4, <1>8, <1>9, StepKeeps

LEMMA LateWriteKeeps ==
    ASSUME IInv, NEW c \in late, LateWrite(c)
    PROVE  IInv'
  <1>1. late' = late \ {c} /\ UNCHANGED <<registry, plans, req>>
    BY DEF LateWrite
  <1>2. c.call \in Writes /\ c.flow \in Flows /\ c.tenant \in Tenants
    BY DEF IInv, TypeOK
  <1>3. /\ flows' \in [Flows -> FlowRecords]
        /\ \A g \in Flows : FlowInv(g)'
        /\ Monotone
    <2>1. CASE Effect(c.call, c.flow, c.tenant)
      <3>1. /\ flows[c.flow].project = c.tenant
            /\ c.call = "import" /\ Exists(c.flow) => Attributable(c.flow)
        BY DEF IInv, LateInv
      <3>. QED
        BY <1>1, <1>2, <2>1, <3>1, CallKeepsFlows
    <2>2. CASE UNCHANGED flows
      BY <1>1, <2>2, SameFlows
    <2>. QED
      BY <2>1, <2>2 DEF LateWrite
  <1>4. \A s \in Requests : RequestInv(s)'
    BY <1>1, <1>3, Bystander
  <1>5. \A d \in late' : LateInv(d)'
    BY <1>1, <1>3, LateBystander
  <1>6. TypeOK'
    BY <1>1, <1>3 DEF IInv, TypeOK
  <1>. QED
    BY <1>3, <1>4, <1>5, <1>6 DEF IInv

LEMMA CreateKeeps ==
    ASSUME IInv, NEW r \in Requests, NEW f \in Flows, Create(r, f)
    PROVE  IInv'
  <1>. DEFINE new == [NoFlow EXCEPT !.status = "DISABLED", !.project = req[r].tenant]
  <1>1. /\ req[r].pc = "create" /\ req[r].pc \in Calls
        /\ flows[f].status = "absent"
        /\ flows' = [flows EXCEPT ![f] = new]
        /\ UNCHANGED <<registry, plans, late>>
    BY DEF Create, NewFlow, At, Calls
  <1>2. req[r].tenant \in Tenants
    BY <1>1, TenantKnown
  <1>3. new \in FlowRecords
    BY <1>2 DEF NoFlow, FlowRecords, FlowStatus, Graphs
  <1>4. /\ flows' \in [Flows -> FlowRecords]
        /\ flows'[f] = new
        /\ \A g \in Flows : g # f => flows'[g] = flows[g]
    BY <1>1, <1>3 DEF IInv, TypeOK
  <1>5. registry[f] = None
    BY <1>1 DEF IInv, FlowInv, NoFlow
  <1>6. FlowInv(f)'
    BY <1>1, <1>2, <1>4, <1>5 DEF FlowInv, NoFlow, Exists
  <1>7. ASSUME NEW g \in Flows, g # f PROVE FlowInv(g)'
    BY <1>1, <1>4, <1>7 DEF IInv, FlowInv, Exists, Attributable
  <1>8. Monotone
    BY <1>1, <1>4 DEF Monotone, Exists, Attributable
  <1>9. /\ req' \in ReqType
        /\ \A s \in Requests : s # r => req'[s] = req[s]
        /\ RequestInv(r)'
    <2>1. CASE Retry(r) \/ Raise(r)
      <3>1. RequestInv(r)'
        BY <1>1, <1>8, <2>1, RetryKeeps
      <3>. QED
        BY <1>1, <2>1, <3>1, RetryFacts DEF IInv, TypeOK, ReqType
    <2>2. CASE req' = [req EXCEPT ![r].pc = "stamp", ![r].tries = 0, ![r].flow = f]
      <3>1. req' = [req EXCEPT ![r] =
                       [req[r] EXCEPT !.pc = "stamp", !.tries = 0, !.flow = f]]
        BY <2>2 DEF IInv, TypeOK
      <3>2. "stamp" \in Running /\ 0 \in 0 .. MaxTries - 1
        BY DEF Running, Writes, MaxTries
      <3>3. /\ req' \in ReqType
            /\ \A s \in Requests : s # r => req'[s] = req[s]
            /\ req'[r].pc = "stamp"
            /\ req'[r].flow = f
            /\ req'[r].tenant = req[r].tenant
        BY <3>1, <3>2 DEF IInv, TypeOK, ReqType
      <3>4. RequestInv(r)'
        BY <1>2, <1>4, <3>3 DEF RequestInv, NoFlow
      <3>. QED
        BY <3>3, <3>4
    <2>. QED
      BY <2>1, <2>2 DEF Create
  <1>10. /\ registry' \in [Flows -> Tenants \cup {None}]
         /\ plans' \subseteq [tenant : Tenants, flow : Flows \cup {None}]
         /\ late' \subseteq LateType
    BY <1>1 DEF IInv, TypeOK, LateType
  <1>. QED
    BY <1>1, <1>4, <1>6, <1>7, <1>8, <1>9, <1>10, StepKeeps

\* A row appears under the tenant of the project, or goes with its flow.
LEMMA RowKeeps ==
    ASSUME IInv, NEW f \in Flows, NEW row, flows[f].status # "absent",
           \/ row = flows[f].project
           \/ row = None /\ flows[f].status = "deleted",
           registry' = [registry EXCEPT ![f] = row], flows' = flows
    PROVE  /\ registry' \in [Flows -> Tenants \cup {None}]
           /\ \A g \in Flows : FlowInv(g)'
           /\ Monotone
  <1>1. registry \in [Flows -> Tenants \cup {None}]
    BY DEF IInv, TypeOK
  <1>2. row \in Tenants \cup {None}
    BY DEF IInv, FlowInv
  <1>3. /\ registry' \in [Flows -> Tenants \cup {None}]
        /\ registry'[f] = row
        /\ \A g \in Flows : g # f => registry'[g] = registry[g]
    BY <1>1, <1>2
  <1>4. \A g \in Flows : FlowInv(g)'
    BY <1>3 DEF IInv, FlowInv, Exists, Attributable
  <1>5. Monotone
    BY <1>3 DEF Monotone, Exists, Attributable
  <1>. QED
    BY <1>3, <1>4, <1>5

\* A request that writes a row has done its work.
LEMMA RowStepKeeps ==
    ASSUME IInv, NEW r \in Requests, req[r].pc \in {"evict", "upsert", "employ"},
           NEW row,
           \/ row = req[r].tenant
           \/ row = None /\ req[r].pc = "evict",
           registry' = [registry EXCEPT ![req[r].flow] = row],
           NEW label \in Ended, Goto(r, label), UNCHANGED <<flows, plans, late>>
    PROVE  IInv'
  <1>1. req[r].pc \in OnOwnFlow /\ req[r].pc # "idle"
    BY DEF OnOwnFlow, OnFlow, Writes, Reads
  <1>2. PICK f \in Flows : f = req[r].flow
    BY <1>1, OwnFlow
  <1>3. /\ req[r].tenant \in Tenants
        /\ flows[f].status # "absent"
        /\ flows[f].project = req[r].tenant
    BY <1>1, <1>2, OwnFlow
  <1>4. req[r].pc = "evict" => flows[f].status = "deleted"
    BY <1>2 DEF IInv, RequestInv
  <1>5. /\ registry' \in [Flows -> Tenants \cup {None}]
        /\ \A g \in Flows : FlowInv(g)'
        /\ Monotone
    BY <1>2, <1>3, <1>4, RowKeeps
  <1>6. label \in Running \cup Ended /\ label \notin OnFlow
    BY DEF Ended, OnFlow, Writes, Reads
  <1>7. RequestInv(r)'
    BY <1>2, <1>3, <1>5, <1>6, GotoKeeps DEF OnOwnFlow, OnFlow, Ended
  <1>8. /\ req' \in ReqType
        /\ \A s \in Requests : s # r => req'[s] = req[s]
    BY <1>6, GotoFacts DEF IInv, TypeOK, ReqType
  <1>9. /\ flows' \in [Flows -> FlowRecords]
        /\ plans' \subseteq [tenant : Tenants, flow : Flows \cup {None}]
        /\ late' \subseteq LateType
    BY DEF IInv, TypeOK, LateType
  <1>. QED
    BY <1>5, <1>7, <1>8, <1>9, StepKeeps

LEMMA RegistryKeeps ==
    ASSUME IInv, NEW r \in Requests, Evict(r) \/ Upsert(r) \/ Employ(r)
    PROVE  IInv'
  <1>1. req[r].pc \in {"evict", "upsert", "employ"} /\ UNCHANGED <<flows, plans, late>>
    BY DEF Evict, Upsert, Employ, At
  <1>2. req[r].tenant \in Tenants
    BY <1>1, TenantKnown
  <1>3. CASE registry' = registry /\ \E label \in Ended : Goto(r, label)
    BY <1>1, <1>2, <1>3, GotoOutside DEF Ended
  <1>4. CASE Evict(r) /\ registry' # registry
    <2>1. /\ req[r].pc = "evict"
          /\ registry' = [registry EXCEPT ![req[r].flow] = None]
          /\ Goto(r, "ok") /\ "ok" \in Ended
      BY <1>4 DEF Evict, At, Ended
    <2>. QED
      BY <1>1, <2>1, RowStepKeeps
  <1>5. CASE (Upsert(r) \/ Employ(r)) /\ registry' # registry
    <2>1. /\ registry' = [registry EXCEPT ![req[r].flow] = req[r].tenant]
          /\ Goto(r, "ok") /\ "ok" \in Ended
      BY <1>5 DEF Upsert, Employ, Ended
    <2>. QED
      BY <1>1, <2>1, RowStepKeeps
  <1>6. \E label \in Ended : Goto(r, label)
    BY DEF Evict, Upsert, Employ, Ended
  <1>. QED
    BY <1>3, <1>4, <1>5, <1>6

LEMMA PlanKeeps ==
    ASSUME IInv, NEW r \in Requests, Plan(r)
    PROVE  IInv'
  <1>1. req[r].pc = "plan" /\ UNCHANGED <<flows, registry, late>>
    BY DEF Plan, At
  <1>2. req[r].tenant \in Tenants
    BY <1>1, TenantKnown
  <1>3. PICK label \in Ended : Goto(r, label)
    BY DEF Plan, Ended
  <1>4. label \in Running \cup Ended /\ label \notin OnFlow
    BY <1>3 DEF Ended, OnFlow, Writes, Reads
  <1>5. /\ flows' \in [Flows -> FlowRecords]
        /\ \A g \in Flows : FlowInv(g)'
        /\ Monotone
    BY <1>1, SameFlows
  <1>6. PICK f : f = req[r].flow
    OBVIOUS
  <1>7. RequestInv(r)'
    BY <1>2, <1>3, <1>4, <1>5, <1>6, GotoKeeps DEF OnOwnFlow, OnFlow, Ended
  <1>8. /\ req' \in ReqType
        /\ \A s \in Requests : s # r => req'[s] = req[s]
    BY <1>3, <1>4, GotoFacts DEF IInv, TypeOK, ReqType
  <1>9. req[r].flow \in Flows \cup {None}
    BY DEF IInv, TypeOK
  <1>10. /\ plans' \subseteq [tenant : Tenants, flow : Flows \cup {None}]
         /\ registry' \in [Flows -> Tenants \cup {None}]
         /\ late' \subseteq LateType
    BY <1>1, <1>2, <1>9 DEF Plan, IInv, TypeOK, LateType
  <1>. QED
    BY <1>1, <1>5, <1>7, <1>8, <1>10, StepKeeps

\* The call that failed leaves a mark on its request.
LEMMA RequestMoves ==
    ASSUME req \in ReqType, NEW r \in Requests, req[r].pc \in Calls,
           Retry(r) \/ Raise(r)
    PROVE  req'[r] # req[r]
  <1>1. OnError(req[r].kind, req[r].pc) # req[r].pc
    BY DEF OnError, Calls, Writes, Reads
  <1>2. req[r].tries \in Nat
    BY DEF ReqType, MaxTries
  <1>3. CASE req'[r].pc = OnError(req[r].kind, req[r].pc)
    BY <1>1, <1>3
  <1>4. CASE req' = [req EXCEPT ![r].tries = @ + 1]
    <2>1. req'[r].tries = req[r].tries + 1
      BY <1>4 DEF ReqType
    <2>. QED
      BY <1>2, <2>1
  <1>5. req'[r].pc = OnError(req[r].kind, req[r].pc) \/ req' = [req EXCEPT ![r].tries = @ + 1]
    BY DEF Retry, Raise, Goto, ReqType
  <1>. QED
    BY <1>3, <1>4, <1>5
-----------------------------------------------------------------------------
(***************************************************************************)
(* The invariant                                                           *)
(***************************************************************************)

\* Before the first request there is nothing in AP and in the tables.
LEMMA InitInv == Init => IInv
  <1>. SUFFICES ASSUME Init PROVE IInv
    OBVIOUS
  <1>1. TypeOK
    BY DEF Init, TypeOK, NoFlow, Idle, FlowRecords, FlowStatus, Graphs, KindNames, MaxTries
  <1>2. ASSUME NEW f \in Flows PROVE FlowInv(f)
    BY DEF Init, FlowInv, NoFlow, Exists
  <1>3. ASSUME NEW r \in Requests PROVE RequestInv(r)
    BY DEF Init, RequestInv, Idle, OnFlow, OnOwnFlow, Writes, Reads
  <1>. QED
    BY <1>1, <1>2, <1>3 DEF Init, IInv

\* Every operation of a request, every failure and every late call keeps it.
LEMMA NextKeeps == IInv /\ [Next]_vars => IInv'
  <1>. SUFFICES ASSUME IInv, [Next]_vars PROVE IInv'
    OBVIOUS
  <1>1. ASSUME NEW r \in Requests, Step(r) PROVE IInv'
    <2>1. CASE Classify(r)
      BY <2>1, ClassifyKeeps
    <2>2. CASE Validate(r)
      BY <2>2, ValidateKeeps
    <2>3. CASE Gate(r)
      BY <2>3, GateKeeps
    <2>4. CASE \E f \in Flows : Create(r, f)
      BY <2>4, CreateKeeps
    <2>5. CASE Write(r)
      BY <2>5, WriteKeeps
    <2>6. CASE WriteUnheard(r)
      BY <2>6, WriteUnheardKeeps
    <2>7. CASE WriteDelayed(r)
      BY <2>7, WriteDelayedKeeps
    <2>8. CASE Read(r)
      BY <2>8, ReadKeeps
    <2>9. CASE Unreachable(r) \/ Refused(r)
      BY <2>9, FailureKeeps
    <2>10. CASE Evict(r) \/ Upsert(r) \/ Employ(r)
      BY <2>10, RegistryKeeps
    <2>11. CASE Plan(r)
      BY <2>11, PlanKeeps
    <2>. QED
      BY <1>1, <2>1, <2>2, <2>3, <2>4, <2>5, <2>6, <2>7, <2>8, <2>9, <2>10, <2>11 DEF Step
  <1>2. ASSUME NEW r \in Requests, Crash(r) PROVE IInv'
    BY <1>2, CrashKeeps
  <1>3. ASSUME NEW r \in Requests, NEW kind \in Kinds, NEW tenant \in Tenants,
               NEW f \in Flows \cup {None}, Arrive(r, kind, tenant, f)
        PROVE  IInv'
    BY <1>3, ArriveKeeps
  <1>4. ASSUME NEW c \in late, LateWrite(c) PROVE IInv'
    BY <1>4, LateWriteKeeps
  <1>5. CASE UNCHANGED vars
    BY <1>5 DEF vars, IInv, TypeOK, FlowInv, RequestInv, LateInv, Exists, Attributable
  <1>. QED
    BY <1>1, <1>2, <1>3, <1>4, <1>5 DEF Next

\* The inductive invariant holds in every execution, whatever fails.
THEOREM SpecInvariant == Spec => []IInv
  BY InitInv, NextKeeps, PTL DEF Spec

\* AP's flows, the tables, the requests and the late calls keep their types; in
\* particular _r never makes a fourth attempt.
THEOREM TypeCorrect == Spec => []TypeOK
  <1>1. IInv => TypeOK
    BY DEF IInv
  <1>. QED
    BY <1>1, SpecInvariant, PTL

\* A flow with a graph is within the reach of the tenant in whose project
\* golden_build, the draft or the reimport put it.
THEOREM Attributed == Spec => []GraphIsAttributable
  <1>1. ASSUME IInv, NEW f \in Flows, Exists(f), flows[f].draft # "EMPTY"
        PROVE  BelongsTo(f, flows[f].project)
    <2>1. FlowInv(f)
      BY <1>1 DEF IInv
    <2>2. flows[f].project \in Tenants
      BY <1>1, <2>1 DEF FlowInv, Exists
    <2>. QED
      BY <1>1, <2>1, <2>2, NamesAssumption DEF FlowInv, Attributable, BelongsTo
  <1>2. IInv => GraphIsAttributable
    BY <1>1 DEF GraphIsAttributable
  <1>. QED
    BY <1>2, SpecInvariant, PTL

\* No order of golden_build, register-employee and deletes gives a row of
\* flow_registry to a tenant in whose project the flow is not.
THEOREM RegistryAgrees == Spec => []RegistryMatchesProject
  <1>1. IInv => RegistryMatchesProject
    BY DEF IInv, FlowInv, RegistryMatchesProject
  <1>. QED
    BY <1>1, SpecInvariant, PTL
-----------------------------------------------------------------------------
(***************************************************************************)
(* Who changes a flow                                                      *)
(***************************************************************************)

Touched(f) ==
    \/ \E r \in Requests : /\ req'[r] # req[r]
                           /\ req[r].tenant = flows'[f].project
    \/ \E c \in late \ late' : c.tenant = flows'[f].project

\* A call of a request reaches one flow, in the project of its tenant.
LEMMA ActsTouches ==
    ASSUME IInv, NEW r \in Requests, req[r].pc \in Writes, Acts(r),
           req'[r] # req[r], NEW f \in Flows, flows'[f] # flows[f]
    PROVE  Touched(f)
  <1>1. req[r].pc \in OnOwnFlow
    BY DEF OnOwnFlow, OnFlow, Writes
  <1>2. /\ req[r].tenant \in Tenants
        /\ req[r].flow \in Flows
        /\ flows[req[r].flow].project = req[r].tenant
    BY <1>1, OwnFlow
  <1>3. Effect(req[r].pc, req[r].flow, req[r].tenant) /\ flows \in [Flows -> FlowRecords]
    BY DEF Acts, IInv, TypeOK
  <1>4. f = req[r].flow /\ flows'[f].project = flows[f].project
    BY <1>2, <1>3, EffectFacts
  <1>. QED
    BY <1>2, <1>4 DEF Touched

LEMMA WriteTouches ==
    ASSUME IInv, NEW r \in Requests, Write(r) \/ WriteUnheard(r),
           NEW f \in Flows, flows'[f] # flows[f]
    PROVE  Touched(f)
  <1>1. req[r].pc \in Writes /\ req[r].pc \in Calls /\ Acts(r)
    BY DEF Write, WriteUnheard, Calls
  <1>2. req \in ReqType
    BY DEF IInv, TypeOK, ReqType
  <1>3. CASE Write(r)
    <2>1. AfterWrite[req[r].pc] # req[r].pc
      BY <1>1 DEF AfterWrite, Writes
    <2>2. AfterWrite[req[r].pc] \in Running \cup Ended
      BY <1>1, AfterWriteFacts
    <2>3. req'[r].pc = AfterWrite[req[r].pc]
      BY <1>2, <1>3, <2>2, GotoFacts DEF Write
    <2>. QED
      BY <1>1, <2>1, <2>3, ActsTouches
  <1>4. CASE WriteUnheard(r)
    <2>1. req'[r] # req[r]
      BY <1>1, <1>2, <1>4, RequestMoves DEF WriteUnheard
    <2>. QED
      BY <1>1, <2>1, ActsTouches
  <1>. QED
    BY <1>3, <1>4

LEMMA CreateTouches ==
    ASSUME IInv, NEW r \in Requests, NEW g \in Flows, Create(r, g),
           NEW f \in Flows, flows'[f] # flows[f]
    PROVE  Touched(f)
  <1>1. req \in ReqType /\ req[r].pc = "create" /\ req[r].pc \in Calls
    BY DEF IInv, TypeOK, ReqType, Create, At, Calls
  <1>2. req'[r] # req[r]
    <2>1. CASE Retry(r) \/ Raise(r)
      BY <1>1, <2>1, RequestMoves
    <2>2. CASE req' = [req EXCEPT ![r].pc = "stamp", ![r].tries = 0, ![r].flow = g]
      <3>1. req'[r].pc = "stamp"
        BY <1>1, <2>2 DEF ReqType
      <3>. QED
        BY <1>1, <3>1
    <2>. QED
      BY <2>1, <2>2 DEF Create
  <1>3. /\ flows \in [Flows -> FlowRecords]
        /\ flows' = [flows EXCEPT ![g] =
               [NoFlow EXCEPT !.status = "DISABLED", !.project = req[r].tenant]]
    BY DEF IInv, TypeOK, Create, NewFlow
  <1>4. flows'[f].project = req[r].tenant
    BY <1>3 DEF NoFlow
  <1>. QED
    BY <1>2, <1>4 DEF Touched

LEMMA LateTouches ==
    ASSUME IInv, NEW c \in late, LateWrite(c), NEW f \in Flows, flows'[f] # flows[f]
    PROVE  Touched(f)
  <1>1. c \in late \ late' /\ Effect(c.call, c.flow, c.tenant)
    BY DEF LateWrite
  <1>2. c.call \in Writes /\ c.flow \in Flows /\ c.tenant \in Tenants /\ LateInv(c)
    BY DEF IInv, TypeOK
  <1>3. f = c.flow /\ flows'[f].project = flows[f].project
    BY <1>1, <1>2, EffectFacts DEF IInv, TypeOK
  <1>. QED
    BY <1>1, <1>2, <1>3 DEF Touched, LateInv

\* No step of any request, on time, repeated or late, changes a flow in the
\* project of another tenant: the check of _flow_belongs_to stays true until
\* the last call it admitted has been made.
THEOREM ForeignUntouched == Spec => ForeignFlowsUntouched
  <1>1. ASSUME IInv, [Next]_vars, NEW f \in Flows, flows'[f] # flows[f]
        PROVE  Touched(f)
    <2>1. ASSUME NEW r \in Requests, Step(r) PROVE Touched(f)
      <3>1. CASE \E g \in Flows : Create(r, g)
        BY <1>1, <3>1, CreateTouches
      <3>2. CASE Write(r) \/ WriteUnheard(r)
        BY <1>1, <3>2, WriteTouches
      <3>. QED
        BY <1>1, <2>1, <3>1, <3>2 DEF Step, Classify, Validate, Gate, WriteDelayed, Read,
           Unreachable, Refused, Evict, Upsert, Employ, Plan
    <2>2. ASSUME NEW c \in late, LateWrite(c) PROVE Touched(f)
      BY <1>1, <2>2, LateTouches
    <2>. QED
      BY <1>1, <2>1, <2>2 DEF Next, vars, Crash, Arrive
  <1>2. ASSUME IInv, [Next]_vars
        PROVE  [\A f \in Flows : flows'[f] # flows[f] =>
                    \/ \E r \in Requests : /\ req'[r] # req[r]
                                           /\ req[r].tenant = flows'[f].project
                    \/ \E c \in late \ late' : c.tenant = flows'[f].project]_vars
    BY <1>1, <1>2 DEF Touched
  <1>. QED
    BY <1>2, SpecInvariant, PTL DEF Spec, ForeignFlowsUntouched
-----------------------------------------------------------------------------
(***************************************************************************)
(* What is published, deployed and planned                                 *)
(*                                                                         *)
(* While no call is acted on after it was given up, and no flow is         *)
(* reimported, a flow's content (its stamp, draft and published version)   *)
(* is changed by one request only: the one that made the flow.  What that  *)
(* request has verified therefore still holds when it publishes, and what  *)
(* it has published when it answers, however often its calls are repeated  *)
(* and whatever other requests do to the flow.                             *)
(***************************************************************************)

Punctual == "late" \notin Faults /\ "reimport" \notin Kinds

Makers == {"build", "draft"}
AfterGates == {"publish", "status", "enable1", "check1",
               "enable2", "check2", "final", "upsert"}
AfterPublish == AfterGates \ {"publish"}
Managing == {"gate", "gateAP", "enable", "disable", "delete", "evict", "lookup", "employ"}

Made(r, f) == req[r].kind \in Makers /\ req[r].flow = f

JobInv(r) ==
    LET f == req[r].flow
        kind == req[r].kind
        pc == req[r].pc IN
    /\ kind # "reimport" /\ pc # "guard"
    /\ pc \in {"idle", "classify", "validate", "create"} => f = None
    /\ pc \in {"validate", "create", "stamp", "import", "verify"} => kind \in Makers
    /\ pc \in AfterGates => kind = "build"
    /\ pc = "plan" => kind = "draft"
    /\ pc \in Managing => kind \notin Makers
    /\ kind = "build" /\ pc = "ok" => f # None
    /\ kind \in Makers /\ f # None =>
           /\ flows[f].status # "absent"
           /\ pc \in {"import", "verify", "plan", "ok"} \cup AfterGates =>
                  flows[f].owner = req[r].tenant
           /\ kind = "build" /\ pc \in AfterGates \cup {"ok"} => flows[f].draft = "full"
           /\ kind = "build" /\ pc \in AfterPublish \cup {"ok"} =>
                  flows[f].published = "full"
           /\ kind = "draft" => flows[f].published = "none"
           /\ kind = "draft" /\ pc \in {"plan", "ok"} => flows[f].draft # "EMPTY"

PlanInv(p) ==
    p.flow # None =>
        /\ flows[p.flow].status # "absent"
        /\ flows[p.flow].owner = p.tenant
        /\ flows[p.flow].draft # "EMPTY"
        /\ flows[p.flow].published = "none"
        /\ \A r \in Requests : Made(r, p.flow) => req[r].pc \in Ended

OneMaker ==
    \A r, s \in Requests : \A f \in Flows : Made(r, f) /\ Made(s, f) => r = s

JobsInv ==
    /\ late = {}
    /\ \A f \in Flows : flows[f].published \in {"none", "full"}
    /\ OneMaker
    /\ \A r \in Requests : JobInv(r)
    /\ \A p \in plans : PlanInv(p)

\* A flow whose content a step leaves alone.
SameContent(f) ==
    /\ flows'[f].status # "absent"
    /\ flows'[f].owner = flows[f].owner
    /\ flows'[f].draft = flows[f].draft
    /\ flows'[f].published = flows[f].published

\* A step of one request changes the content of the flow it made and no other.
Advances(r) ==
    /\ req[r].pc \notin Ended
    /\ req'[r].kind \in KindNames /\ req'[r].flow \in Flows \cup {None}
    /\ \A s \in Requests : s # r => req'[s] = req[s]
    /\ \A f \in Flows : flows[f].status # "absent" => SameContent(f) \/ Made(r, f)
    /\ late' = late

\* What a request has established survives the steps of others.
LEMMA JobBystander ==
    ASSUME IInv, JobsInv, NEW r \in Requests, Advances(r),
           NEW s \in Requests, s # r
    PROVE  JobInv(s)'
  <1>1. JobInv(s) /\ req'[s] = req[s]
    BY DEF JobsInv, Advances
  <1>2. CASE req[s].kind \in Makers /\ req[s].flow # None
    <2>1. PICK f \in Flows : f = req[s].flow
      BY <1>2 DEF IInv, TypeOK
    <2>2. Made(s, f) /\ flows[f].status # "absent"
      BY <1>1, <1>2, <2>1 DEF Made, JobInv
    <2>3. ~ Made(r, f)
      BY <2>2 DEF JobsInv, OneMaker
    <2>4. SameContent(f)
      BY <2>2, <2>3 DEF Advances
    <2>. QED
      BY <1>1, <2>1, <2>4 DEF JobInv, SameContent
  <1>3. CASE ~ (req[s].kind \in Makers /\ req[s].flow # None)
    BY <1>1, <1>3 DEF JobInv
  <1>. QED
    BY <1>2, <1>3

\* A step keeps the invariant if it keeps what it says of its request, of
\* published flows and of the plan it may have saved.
LEMMA AdvanceKeeps ==
    ASSUME IInv, JobsInv, NEW r \in Requests, Advances(r), JobInv(r)',
           \A f \in Flows : Made(r, f)' => Made(r, f) \/ flows[f].status = "absent",
           \A f \in Flows : flows'[f].published \in {"none", "full"},
           \A p \in plans' : p \in plans \/ PlanInv(p)'
    PROVE  JobsInv'
  <1>1. \A s \in Requests : s # r => req'[s] = req[s]
    BY DEF Advances
  <1>2. ASSUME NEW s \in Requests, NEW f \in Flows, s # r, Made(s, f), Made(r, f)'
        PROVE  FALSE
    <2>1. flows[f].status # "absent"
      <3>1. f # None /\ JobInv(s)
        BY NamesAssumption DEF JobsInv
      <3>. QED
        BY <1>2, <3>1 DEF JobInv, Made
    <2>2. Made(r, f)
      BY <1>2, <2>1
    <2>. QED
      BY <1>2, <2>2 DEF JobsInv, OneMaker
  <1>3. OneMaker'
    <2>. SUFFICES ASSUME NEW s \in Requests, NEW t \in Requests, NEW f \in Flows,
                         Made(s, f)', Made(t, f)', s # t
                  PROVE  FALSE
      BY DEF OneMaker
    <2>1. CASE s = r
      BY <1>1, <1>2, <2>1 DEF Made
    <2>2. CASE t = r
      BY <1>1, <1>2, <2>2 DEF Made
    <2>3. CASE s # r /\ t # r
      <3>1. Made(s, f) /\ Made(t, f)
        BY <1>1, <2>3 DEF Made
      <3>. QED
        BY <3>1 DEF JobsInv, OneMaker
    <2>. QED
      BY <2>1, <2>2, <2>3
  <1>4. \A s \in Requests : JobInv(s)'
    BY JobBystander
  <1>5. ASSUME NEW p \in plans, p.flow # None PROVE PlanInv(p)'
    <2>1. p.flow \in Flows
      BY <1>5 DEF IInv, TypeOK
    <2>2. PlanInv(p)
      BY DEF JobsInv
    <2>3. ~ Made(r, p.flow)
      BY <1>5, <2>2 DEF PlanInv, Advances
    <2>4. SameContent(p.flow)
      BY <1>5, <2>1, <2>2, <2>3 DEF Advances, PlanInv
    <2>5. ASSUME NEW s \in Requests, Made(s, p.flow)' PROVE req'[s].pc \in Ended
      <3>1. s # r
        BY <1>5, <2>1, <2>2, <2>3, <2>5 DEF PlanInv
      <3>2. req'[s] = req[s]
        BY <1>1, <3>1
      <3>3. Made(s, p.flow)
        BY <2>5, <3>2 DEF Made
      <3>. QED
        BY <1>5, <2>2, <3>2, <3>3 DEF PlanInv
    <2>. QED
      BY <1>5, <2>2, <2>4, <2>5 DEF PlanInv, SameContent
  <1>6. \A p \in plans' : PlanInv(p)'
    BY <1>5 DEF PlanInv
  <1>. QED
    BY <1>3, <1>4, <1>6 DEF JobsInv, Advances

\* A step that only moves one request on.
LEMMA JobMoves ==
    ASSUME IInv, JobsInv, NEW r \in Requests, req[r].pc \notin Ended,
           req'[r].kind \in KindNames, req'[r].flow = req[r].flow,
           req'[r].kind = req[r].kind \/ req[r].flow = None,
           \A s \in Requests : s # r => req'[s] = req[s],
           UNCHANGED <<flows, plans, late>>, JobInv(r)'
    PROVE  JobsInv'
  <1>1. Advances(r)
    BY DEF Advances, SameContent, IInv, TypeOK
  <1>2. \A f \in Flows : Made(r, f)' => Made(r, f)
    BY NamesAssumption DEF Made
  <1>. QED
    BY <1>1, <1>2, AdvanceKeeps DEF JobsInv

LEMMA GotoJob ==
    ASSUME IInv, JobsInv, NEW r \in Requests, req[r].pc \notin Ended,
           NEW label \in Running \cup Ended, Goto(r, label),
           UNCHANGED <<flows, plans, late>>,
           (/\ req'[r].kind = req[r].kind
            /\ req'[r].tenant = req[r].tenant
            /\ req'[r].flow = req[r].flow
            /\ req'[r].pc = label) => JobInv(r)'
    PROVE  JobsInv'
  <1>1. /\ \A s \in Requests : s # r => req'[s] = req[s]
        /\ req'[r].kind = req[r].kind
        /\ req'[r].tenant = req[r].tenant
        /\ req'[r].flow = req[r].flow
        /\ req'[r].pc = label
    BY GotoFacts DEF IInv, TypeOK, ReqType
  <1>2. req[r].kind \in KindNames
    BY DEF IInv, TypeOK
  <1>. QED
    BY <1>1, <1>2, JobMoves

\* A request that fails, wherever it is.
LEMMA JobFails ==
    ASSUME IInv, JobsInv, NEW r \in Requests, req[r].pc \notin Ended,
           req'[r].kind = req[r].kind, req'[r].flow = req[r].flow,
           req'[r].pc \in {"failed", "cleanup"},
           req[r].flow # None /\ req[r].kind \in Makers =>
               SameContent(req[r].flow)
    PROVE  JobInv(r)'
  <1>1. JobInv(r)
    BY DEF JobsInv
  <1>. QED
    BY <1>1 DEF JobInv, AfterGates, AfterPublish, Managing, SameContent

LEMMA ArriveJob ==
    ASSUME IInv, JobsInv, Punctual, NEW r \in Requests, NEW kind \in Kinds,
           NEW tenant \in Tenants, NEW f \in Flows \cup {None}, Arrive(r, kind, tenant, f)
    PROVE  JobsInv'
  <1>. DEFINE new == [kind |-> kind, tenant |-> tenant, flow |-> f,
                      pc |-> FirstStep(kind), tries |-> 0]
  <1>1. /\ req[r].pc = "idle"
        /\ kind \in KindNames \ {"draft", "reimport"}
        /\ kind \in {"build", "dynamic"} => f = None
        /\ UNCHANGED <<flows, registry, plans, late>>
    BY KindsAssumption DEF Arrive, At, Punctual
  <1>2. req'[r] = new /\ \A s \in Requests : s # r => req'[s] = req[s]
    BY DEF Arrive, IInv, TypeOK
  <1>3. /\ FirstStep(kind) \in {"validate", "classify", "lookup", "gate"}
        /\ FirstStep(kind) \in {"lookup", "gate"} => kind \notin {"build", "dynamic"}
        /\ FirstStep(kind) = "validate" => kind = "build"
        /\ FirstStep(kind) = "classify" => kind = "dynamic"
    BY DEF FirstStep
  <1>4. JobInv(r)'
    BY <1>1, <1>2, <1>3 DEF JobInv, Makers, AfterGates, AfterPublish, Managing
  <1>5. Advances(r)
    BY <1>1, <1>2 DEF Advances, Ended, SameContent
  <1>6. \A g \in Flows : ~ Made(r, g)'
    BY <1>1, <1>2, NamesAssumption DEF Made, Makers
  <1>. QED
    BY <1>1, <1>4, <1>5, <1>6, AdvanceKeeps DEF JobsInv

LEMMA ClassifyJob ==
    ASSUME IInv, JobsInv, NEW r \in Requests, Classify(r)
    PROVE  JobsInv'
  <1>1. /\ req[r].pc = "classify" /\ req[r].pc \notin Ended
        /\ UNCHANGED <<flows, plans, late>>
    BY DEF Classify, At, Ended
  <1>2. req[r].flow = None
    BY <1>1 DEF JobsInv, JobInv
  <1>3. ASSUME NEW kind \in {"build", "draft"}, NEW label \in {"validate", "create", "plan"},
               label = "plan" => kind = "draft",
               req' = [req EXCEPT ![r].kind = kind, ![r].pc = label]
        PROVE  JobsInv'
    <2>1. /\ \A s \in Requests : s # r => req'[s] = req[s]
          /\ req'[r].kind = kind
          /\ req'[r].flow = None
          /\ req'[r].pc = label
      BY <1>2, <1>3 DEF IInv, TypeOK
    <2>2. kind \in KindNames
      BY DEF KindNames
    <2>3. JobInv(r)'
      BY <1>3, <2>1 DEF JobInv, Makers, AfterGates, AfterPublish, Managing
    <2>. QED
      BY <1>1, <1>2, <2>1, <2>2, <2>3, JobMoves
  <1>4. CASE Goto(r, "failed")
    <2>1. "failed" \in Running \cup Ended
      BY DEF Ended
    <2>2. ASSUME req'[r].kind = req[r].kind, req'[r].flow = req[r].flow,
                 req'[r].pc = "failed"
          PROVE  JobInv(r)'
      BY <1>1, <1>2, <2>2, JobFails
    <2>. QED
      BY <1>1, <1>4, <2>1, <2>2, GotoJob
  <1>. QED
    BY <1>3, <1>4 DEF Classify

\* A request that fails without having changed anything.
LEMMA QuietFailure ==
    ASSUME IInv, JobsInv, NEW r \in Requests, req[r].pc \notin Ended,
           Goto(r, "failed"), UNCHANGED <<flows, plans, late>>
    PROVE  JobsInv'
  <1>1. "failed" \in Running \cup Ended
    BY DEF Ended
  <1>2. JobInv(r)
    BY DEF JobsInv
  <1>3. ASSUME req'[r].kind = req[r].kind, req'[r].flow = req[r].flow,
               req'[r].pc = "failed"
        PROVE  JobInv(r)'
    <2>1. req[r].flow # None /\ req[r].kind \in Makers => SameContent(req[r].flow)
      BY <1>2 DEF JobInv, SameContent
    <2>. QED
      BY <1>3, <2>1, JobFails
  <1>. QED
    BY <1>1, <1>3, GotoJob

LEMMA ValidateJob ==
    ASSUME IInv, JobsInv, NEW r \in Requests, Validate(r)
    PROVE  JobsInv'
  <1>1. JobInv(r)
    BY DEF JobsInv
  <1>2. /\ req[r].pc = "validate" /\ req[r].pc \notin Ended
        /\ UNCHANGED <<flows, plans, late>>
    BY <1>1 DEF Validate, At, Ended, JobInv
  <1>3. CASE Goto(r, "create")
    <2>1. "create" \in Running \cup Ended
      BY DEF Running, Others
    <2>2. ASSUME req'[r].kind = req[r].kind, req'[r].flow = req[r].flow,
                 req'[r].pc = "create"
          PROVE  JobInv(r)'
      BY <1>1, <1>2, <2>2 DEF JobInv, AfterGates, AfterPublish, Managing
    <2>. QED
      BY <1>2, <1>3, <2>1, <2>2, GotoJob
  <1>4. CASE Goto(r, "failed")
    BY <1>2, <1>4, QuietFailure
  <1>. QED
    BY <1>2, <1>3, <1>4 DEF Validate, At

\* A request that manages a flow made by another one, moves on.
LEMMA ManagerMoves ==
    ASSUME IInv, JobsInv, NEW r \in Requests, req[r].pc \in Managing,
           NEW label \in Managing \cup {"ok", "failed"},
           req'[r].kind = req[r].kind, req'[r].pc = label
    PROVE  JobInv(r)'
  <1>1. JobInv(r) /\ req[r].kind \notin Makers
    BY DEF JobsInv, JobInv
  <1>. QED
    BY <1>1 DEF JobInv, Makers, AfterGates, Managing

LEMMA GateJob ==
    ASSUME IInv, JobsInv, NEW r \in Requests, Gate(r)
    PROVE  JobsInv'
  <1>1. /\ req[r].pc = "gate" /\ req[r].pc \notin Ended /\ req[r].pc \in Managing
        /\ UNCHANGED <<flows, plans, late>>
    BY DEF Gate, At, Ended, Managing
  <1>2. Admitted(req[r].kind) \in Managing
    <2>1. req[r].kind \in GatedKinds /\ req[r].kind # "reimport"
      BY <1>1 DEF IInv, RequestInv, JobsInv, JobInv
    <2>. QED
      BY <2>1 DEF Admitted, GatedKinds, Managing
  <1>3. PICK label \in Managing \cup {"failed"} : Goto(r, label)
    BY <1>2 DEF Gate, Managing
  <1>4. label \in Running \cup Ended
    BY DEF Managing, Running, Ended, Writes, Reads, Others
  <1>. QED
    BY <1>1, <1>3, <1>4, ManagerMoves, GotoJob

\* An entry of flow_registry concerns no flow's content.
LEMMA RegistryJob ==
    ASSUME IInv, JobsInv, NEW r \in Requests, Evict(r) \/ Upsert(r) \/ Employ(r)
    PROVE  JobsInv'
  <1>1. /\ req[r].pc \in {"evict", "upsert", "employ"} /\ req[r].pc \notin Ended
        /\ UNCHANGED <<flows, plans, late>>
    BY DEF Evict, Upsert, Employ, At, Ended
  <1>2. PICK label \in Ended : Goto(r, label)
    BY DEF Evict, Upsert, Employ, Ended
  <1>3. CASE req[r].pc \in Managing
    BY <1>1, <1>2, <1>3, ManagerMoves, GotoJob DEF Ended
  <1>4. CASE req[r].pc = "upsert"
    <2>1. JobInv(r) /\ req[r].kind = "build"
      BY <1>4 DEF JobsInv, JobInv, AfterGates
    <2>2. req[r].flow # None
      BY <1>4, NamesAssumption DEF IInv, RequestInv, OnFlow
    <2>3. label \in {"ok", "failed"}
      BY DEF Ended
    <2>4. ASSUME req'[r].kind = req[r].kind, req'[r].tenant = req[r].tenant,
                 req'[r].flow = req[r].flow, req'[r].pc = label
          PROVE  JobInv(r)'
      BY <1>1, <1>4, <2>1, <2>2, <2>3, <2>4
         DEF JobInv, Makers, AfterGates, AfterPublish, Managing
    <2>. QED
      BY <1>1, <1>2, <2>4, GotoJob
  <1>. QED
    BY <1>1, <1>3, <1>4 DEF Managing

LEMMA PlanJob ==
    ASSUME IInv, JobsInv, NEW r \in Requests, Plan(r)
    PROVE  JobsInv'
  <1>1. /\ req[r].pc = "plan" /\ req[r].pc \notin Ended
        /\ UNCHANGED <<flows, late>>
    BY DEF Plan, At, Ended
  <1>2. JobInv(r) /\ req[r].kind = "draft"
    BY <1>1 DEF JobsInv, JobInv
  <1>3. PICK label \in {"ok", "failed"} : Goto(r, label)
    BY DEF Plan
  <1>4. label \in Running \cup Ended
    BY DEF Ended
  <1>5. /\ \A s \in Requests : s # r => req'[s] = req[s]
        /\ req'[r].kind = req[r].kind
        /\ req'[r].tenant = req[r].tenant
        /\ req'[r].flow = req[r].flow
        /\ req'[r].pc = label
    BY <1>3, <1>4, GotoFacts DEF IInv, TypeOK, ReqType
  <1>6. JobInv(r)'
    BY <1>1, <1>2, <1>5 DEF JobInv, Makers, AfterGates, AfterPublish, Managing
  <1>7. Advances(r)
    BY <1>1, <1>5 DEF Advances, SameContent, IInv, TypeOK
  <1>8. ASSUME NEW p \in plans', p \notin plans PROVE PlanInv(p)'
    <2>0. PICK f : f = req[r].flow
      OBVIOUS
    <2>1. p.flow = f /\ p.tenant = req[r].tenant
      BY <1>8, <2>0 DEF Plan
    <2>2. CASE f # None
      <3>1. f \in Flows /\ Made(r, f)
        BY <1>2, <2>0, <2>2 DEF Made, Makers, IInv, TypeOK
      <3>2. /\ flows'[f].status # "absent"
            /\ flows'[f].owner = p.tenant
            /\ flows'[f].draft # "EMPTY"
            /\ flows'[f].published = "none"
        BY <1>1, <1>2, <2>0, <2>1, <2>2 DEF JobInv, Makers
      <3>3. ASSUME NEW s \in Requests, Made(s, f)' PROVE req'[s].pc \in Ended
        <4>1. s = r
          BY <1>5, <3>1, <3>3 DEF Made, JobsInv, OneMaker
        <4>. QED
          BY <1>5, <4>1 DEF Ended
      <3>. QED
        BY <2>1, <3>2, <3>3 DEF PlanInv
    <2>3. CASE f = None
      BY <2>1, <2>3 DEF PlanInv
    <2>. QED
      BY <2>2, <2>3
  <1>9. \A f \in Flows : Made(r, f)' => Made(r, f)
    BY <1>5 DEF Made
  <1>. QED
    BY <1>1, <1>6, <1>7, <1>8, <1>9, AdvanceKeeps DEF JobsInv

\* What a call a request makes does to the contents of flows.
LEMMA EffectContent ==
    ASSUME flows \in [Flows -> FlowRecords],
           NEW call \in Writes, NEW f \in Flows, NEW tenant \in Tenants,
           Effect(call, f, tenant)
    PROVE  flows'[f].published =
               IF call = "publish" THEN flows[f].draft ELSE flows[f].published
  <1>. DEFINE fl == flows[f]
              Result == IF call = "publish" THEN fl.draft ELSE fl.published
  <1>0. ASSUME NEW new, Becomes(f, new) PROVE flows'[f] = new
    BY <1>0 DEF Becomes
  <1>1. fl \in FlowRecords
    OBVIOUS
  <1>2. CASE call = "stamp"
    <2>1. flows'[f] = [fl EXCEPT !.owner = tenant]
      BY <1>0, <1>2 DEF Effect
    <2>. QED
      BY <1>1, <1>2, <2>1 DEF FlowRecords
  <1>3. CASE call = "import"
    <2>1. PICK g \in Imports : flows'[f] = [fl EXCEPT !.draft = g]
      BY <1>0, <1>3 DEF Effect
    <2>. QED
      BY <1>1, <1>3, <2>1 DEF FlowRecords
  <1>4. CASE call = "publish"
    <2>1. PICK st \in {fl.status, "ENABLED"} :
              flows'[f] = [fl EXCEPT !.published = fl.draft, !.status = st]
      BY <1>0, <1>4 DEF Effect
    <2>. QED
      BY <1>1, <1>4, <2>1 DEF FlowRecords
  <1>5. CASE call \in {"enable", "enable1", "enable2", "disable", "delete", "cleanup"}
    <2>1. \E st : flows'[f] = [fl EXCEPT !.status = st]
      BY <1>0, <1>5 DEF Effect
    <2>. QED
      BY <1>1, <1>5, <2>1 DEF FlowRecords
  <1>. QED
    BY <1>2, <1>3, <1>4, <1>5 DEF Writes

\* A call of a request that has not made the flow leaves its content alone, and
\* what its maker publishes is verified.
LEMMA ActsContent ==
    ASSUME IInv, JobsInv, NEW r \in Requests, req[r].pc \in Writes, Acts(r),
           NEW f, f = req[r].flow
    PROVE  /\ f \in Flows /\ f # None /\ flows[f].status # "absent"
           /\ flows'[f].status # "absent"
           /\ flows'[f].owner =
                  IF req[r].pc = "stamp" THEN req[r].tenant ELSE flows[f].owner
           /\ req[r].pc # "import" => flows'[f].draft = flows[f].draft
           /\ flows'[f].published =
                  IF req[r].pc = "publish" THEN flows[f].draft ELSE flows[f].published
           /\ \A g \in Flows : flows[g].status # "absent" => SameContent(g) \/ Made(r, g)
           /\ \A g \in Flows : flows'[g].published \in {"none", "full"}
  <1>1. req[r].pc \in OnOwnFlow
    BY DEF OnOwnFlow, OnFlow, Writes
  <1>2. f \in Flows /\ req[r].tenant \in Tenants /\ flows[f].status # "absent"
    BY <1>1, OwnFlow
  <1>3. Effect(req[r].pc, f, req[r].tenant) /\ flows \in [Flows -> FlowRecords]
    BY DEF Acts, IInv, TypeOK
  <1>4. /\ \A g \in Flows : g # f => flows'[g] = flows[g]
        /\ flows'[f].owner =
               IF req[r].pc = "stamp" THEN req[r].tenant ELSE flows[f].owner
        /\ req[r].pc # "import" => flows'[f].draft = flows[f].draft
        /\ flows'[f].status # "absent"
    BY <1>2, <1>3, EffectFacts
  <1>5. flows'[f].published =
            IF req[r].pc = "publish" THEN flows[f].draft ELSE flows[f].published
    BY <1>2, <1>3, EffectContent
  <1>6. JobInv(r)
    BY DEF JobsInv
  <1>7. f # None
    BY <1>2, NamesAssumption
  <1>8. req[r].pc \in {"stamp", "import", "publish"} => Made(r, f)
    BY <1>6 DEF JobInv, Made, Makers, AfterGates
  <1>9. \A g \in Flows : flows[g].status # "absent" => SameContent(g) \/ Made(r, g)
    BY <1>4, <1>5, <1>8 DEF SameContent
  <1>10. req[r].pc = "publish" => flows[f].draft = "full"
    BY <1>6, <1>7 DEF JobInv, Makers, AfterGates
  <1>11. \A g \in Flows : flows'[g].published \in {"none", "full"}
    BY <1>4, <1>5, <1>10 DEF JobsInv
  <1>. QED
    BY <1>2, <1>4, <1>5, <1>7, <1>9, <1>11

\* A step of a request that keeps its kind and its flow.
LEMMA WriteAdvances ==
    ASSUME IInv, JobsInv, NEW r \in Requests, req[r].pc \in Writes, Acts(r),
           \A s \in Requests : s # r => req'[s] = req[s],
           req'[r].kind = req[r].kind, req'[r].flow = req[r].flow,
           JobInv(r)', UNCHANGED <<plans, late>>
    PROVE  JobsInv'
  <1>1. PICK f : f = req[r].flow
    OBVIOUS
  <1>2. /\ \A g \in Flows : flows[g].status # "absent" => SameContent(g) \/ Made(r, g)
        /\ \A g \in Flows : flows'[g].published \in {"none", "full"}
    BY <1>1, ActsContent
  <1>3. req[r].pc \notin Ended
    BY DEF Writes, Ended
  <1>4. Advances(r)
    BY <1>2, <1>3 DEF Advances, IInv, TypeOK
  <1>5. \A g \in Flows : Made(r, g)' => Made(r, g)
    BY DEF Made
  <1>. QED
    BY <1>2, <1>4, <1>5, AdvanceKeeps

LEMMA WriteJob ==
    ASSUME IInv, JobsInv, NEW r \in Requests, Write(r)
    PROVE  JobsInv'
  <1>. DEFINE label == AfterWrite[req[r].pc]
  <1>1. req[r].pc \in Writes /\ Acts(r) /\ Goto(r, label) /\ UNCHANGED <<plans, late>>
    BY DEF Write
  <1>2. /\ \A s \in Requests : s # r => req'[s] = req[s]
        /\ req'[r].kind = req[r].kind
        /\ req'[r].tenant = req[r].tenant
        /\ req'[r].flow = req[r].flow
        /\ req'[r].pc = label
    BY <1>1, AfterWriteFacts, GotoFacts DEF IInv, TypeOK, ReqType
  <1>3. PICK f : f = req[r].flow
    OBVIOUS
  <1>4. /\ f # None
        /\ flows'[f].status # "absent"
        /\ flows'[f].owner =
               IF req[r].pc = "stamp" THEN req[r].tenant ELSE flows[f].owner
        /\ req[r].pc # "import" => flows'[f].draft = flows[f].draft
        /\ flows'[f].published =
               IF req[r].pc = "publish" THEN flows[f].draft ELSE flows[f].published
    BY <1>1, <1>3, ActsContent
  <1>5. JobInv(r)
    BY DEF JobsInv
  <1>6. JobInv(r)'
    <2>1. CASE req[r].pc = "stamp"
      BY <1>2, <1>3, <1>4, <1>5, <2>1
         DEF JobInv, AfterWrite, Makers, AfterGates, AfterPublish, Managing
    <2>2. CASE req[r].pc = "import"
      BY <1>2, <1>3, <1>4, <1>5, <2>2
         DEF JobInv, AfterWrite, Makers, AfterGates, AfterPublish, Managing
    <2>3. CASE req[r].pc = "publish"
      BY <1>2, <1>3, <1>4, <1>5, <2>3
         DEF JobInv, AfterWrite, Makers, AfterGates, AfterPublish, Managing
    <2>4. CASE req[r].pc \in {"enable1", "enable2"}
      BY <1>2, <1>3, <1>4, <1>5, <2>4
         DEF JobInv, AfterWrite, Makers, AfterGates, AfterPublish, Managing
    <2>5. CASE req[r].pc \in {"enable", "disable", "delete"}
      <3>1. req[r].pc \in Managing /\ label \in Managing \cup {"ok", "failed"}
        BY <2>5 DEF AfterWrite, Managing
      <3>. QED
        BY <1>2, <3>1, ManagerMoves
    <2>6. CASE req[r].pc = "cleanup"
      BY <1>2, <1>3, <1>4, <1>5, <2>6
         DEF JobInv, AfterWrite, Makers, AfterGates, AfterPublish, Managing
    <2>. QED
      BY <1>1, <2>1, <2>2, <2>3, <2>4, <2>5, <2>6 DEF Writes
  <1>. QED
    BY <1>1, <1>2, <1>6, WriteAdvances

\* What a call did before its answer was lost, its repetition finds and does again.
LEMMA WriteUnheardJob ==
    ASSUME IInv, JobsInv, NEW r \in Requests, WriteUnheard(r)
    PROVE  JobsInv'
  <1>1. /\ req[r].pc \in Writes /\ req[r].pc \in Calls /\ req[r].pc \notin Ended
        /\ Acts(r)
        /\ Retry(r) \/ Raise(r)
        /\ UNCHANGED <<plans, late>>
    BY DEF WriteUnheard, Calls, Writes, Ended
  <1>2. /\ \A s \in Requests : s # r => req'[s] = req[s]
        /\ req'[r].kind = req[r].kind
        /\ req'[r].tenant = req[r].tenant
        /\ req'[r].flow = req[r].flow
        /\ req'[r].pc = req[r].pc \/ req'[r].pc \in {"failed", "cleanup"}
    BY <1>1, RetryFacts DEF IInv, TypeOK, ReqType
  <1>3. PICK f : f = req[r].flow
    OBVIOUS
  <1>4. /\ f # None
        /\ flows'[f].status # "absent"
        /\ flows'[f].owner =
               IF req[r].pc = "stamp" THEN req[r].tenant ELSE flows[f].owner
        /\ req[r].pc # "import" => flows'[f].draft = flows[f].draft
        /\ flows'[f].published =
               IF req[r].pc = "publish" THEN flows[f].draft ELSE flows[f].published
    BY <1>1, <1>3, ActsContent
  <1>5. JobInv(r)
    BY DEF JobsInv
  <1>6. JobInv(r)'
    <2>1. CASE req'[r].pc \in {"failed", "cleanup"}
      BY <1>2, <1>3, <1>4, <1>5, <1>1, <2>1
         DEF JobInv, Makers, AfterGates, AfterPublish, Managing
    <2>2. CASE req'[r].pc = req[r].pc /\ req[r].pc = "publish"
      BY <1>2, <1>3, <1>4, <1>5, <2>2
         DEF JobInv, Makers, AfterGates, AfterPublish, Managing
    <2>3. CASE req'[r].pc = req[r].pc /\ req[r].pc \in {"stamp", "import"}
      BY <1>2, <1>3, <1>4, <1>5, <2>3
         DEF JobInv, Makers, AfterGates, AfterPublish, Managing
    <2>4. CASE req'[r].pc = req[r].pc /\ req[r].pc \notin {"stamp", "import", "publish"}
      BY <1>1, <1>2, <1>3, <1>4, <1>5, <2>4 DEF JobInv, Writes, Ended
    <2>. QED
      BY <1>2, <2>1, <2>2, <2>3, <2>4
  <1>. QED
    BY <1>1, <1>2, <1>6, WriteAdvances

LEMMA ReadJob ==
    ASSUME IInv, JobsInv, NEW r \in Requests, Read(r)
    PROVE  JobsInv'
  <1>. DEFINE label == AfterRead(r)
  <1>0. PICK f : f = req[r].flow
    OBVIOUS
  <1>1. /\ req[r].pc \in Reads /\ req[r].pc \notin Ended
        /\ Goto(r, label)
        /\ UNCHANGED <<flows, plans, late>>
    BY DEF Read, Reads, Ended
  <1>2. JobInv(r)
    BY DEF JobsInv
  <1>3. CASE req[r].pc \in {"gateAP", "lookup"}
    <2>1. Admitted(req[r].kind) \in Managing \cup {"failed"} \/ req[r].pc = "lookup"
      <3>1. req[r].pc = "gateAP" => req[r].kind \in GatedKinds
        BY DEF IInv, RequestInv
      <3>. QED
        BY <1>2, <1>3, <3>1 DEF JobInv, Admitted, GatedKinds, Managing
    <2>2. label \in Managing \cup {"ok", "failed"}
      BY <1>3, <2>1 DEF AfterRead, At, Managing
    <2>3. label \in Running \cup Ended
      BY <2>2 DEF Managing, Running, Ended, Writes, Reads, Others
    <2>4. req[r].pc \in Managing
      BY <1>3 DEF Managing
    <2>. QED
      BY <1>1, <2>2, <2>3, <2>4, ManagerMoves, GotoJob
  <1>4. CASE req[r].pc = "verify"
    <2>1. label = Verified(req[r].kind, flows[f])
      BY <1>0, <1>4 DEF AfterRead, At, Target
    <2>2. /\ label \in {"failed", "cleanup", "plan", "publish"}
          /\ label = "plan" => req[r].kind = "draft" /\ flows[f].draft # "EMPTY"
          /\ label = "publish" => req[r].kind # "draft"
          /\ label = "publish" /\ req[r].kind = "build" => flows[f].draft = "full"
      BY <2>1 DEF Verified
    <2>3. label \in Running \cup Ended
      BY <2>2 DEF Running, Ended, Writes, Others
    <2>4. ASSUME req'[r].kind = req[r].kind, req'[r].tenant = req[r].tenant,
                 req'[r].flow = req[r].flow, req'[r].pc = label
          PROVE  JobInv(r)'
      <3>. HIDE DEF label
      <3>. QED
        BY <1>0, <1>1, <1>2, <1>4, <2>2, <2>4
           DEF JobInv, Makers, AfterGates, AfterPublish, Managing
    <2>. QED
      BY <1>1, <2>3, <2>4, GotoJob
  <1>5. CASE req[r].pc \in {"status", "check1", "check2", "final"}
    <2>1. label = Checked(req[r].kind, req[r].pc, flows[f])
      BY <1>0, <1>5 DEF AfterRead, At, Target
    <2>2. req[r].kind = "build"
      BY <1>2, <1>5 DEF JobInv, AfterGates
    <2>3. label \in {"failed", "upsert", "final", "enable1", "enable2"}
      BY <2>1, <2>2 DEF Checked
    <2>4. label \in Running \cup Ended
      BY <2>3 DEF Running, Ended, Writes, Reads, Others
    <2>5. ASSUME req'[r].kind = req[r].kind, req'[r].tenant = req[r].tenant,
                 req'[r].flow = req[r].flow, req'[r].pc = label
          PROVE  JobInv(r)'
      <3>. HIDE DEF label
      <3>. QED
        BY <1>1, <1>2, <1>5, <2>2, <2>3, <2>5
           DEF JobInv, Makers, AfterGates, AfterPublish, Managing
    <2>. QED
      BY <1>1, <2>4, <2>5, GotoJob
  <1>. QED
    BY <1>1, <1>3, <1>4, <1>5 DEF Reads

LEMMA FailureJob ==
    ASSUME IInv, JobsInv, NEW r \in Requests, Unreachable(r) \/ Refused(r)
    PROVE  JobsInv'
  <1>1. /\ req[r].pc \in Calls /\ req[r].pc \notin Ended
        /\ Retry(r) \/ Raise(r)
        /\ UNCHANGED <<flows, plans, late>>
    BY DEF Unreachable, Refused, Calls, Writes, Reads, Ended
  <1>2. /\ \A s \in Requests : s # r => req'[s] = req[s]
        /\ req'[r].kind = req[r].kind
        /\ req'[r].tenant = req[r].tenant
        /\ req'[r].flow = req[r].flow
        /\ req'[r].pc = req[r].pc \/ req'[r].pc \in {"failed", "cleanup"}
    BY <1>1, RetryFacts DEF IInv, TypeOK, ReqType
  <1>3. JobInv(r) /\ req[r].kind \in KindNames
    BY DEF JobsInv, IInv, TypeOK
  <1>4. JobInv(r)'
    <2>1. CASE req'[r].pc = req[r].pc
      BY <1>1, <1>2, <1>3, <2>1 DEF JobInv
    <2>2. CASE req'[r].pc \in {"failed", "cleanup"}
      BY <1>1, <1>2, <1>3, <2>2 DEF JobInv, AfterGates, AfterPublish, Managing
    <2>. QED
      BY <1>2, <2>1, <2>2
  <1>. QED
    BY <1>1, <1>2, <1>3, <1>4, JobMoves

\* Only the request that hears of the new flow is its maker; a flow whose
\* creation went unheard has none.
LEMMA CreateJob ==
    ASSUME IInv, JobsInv, NEW r \in Requests, NEW f \in Flows, Create(r, f)
    PROVE  JobsInv'
  <1>. DEFINE new == [NoFlow EXCEPT !.status = "DISABLED", !.project = req[r].tenant]
  <1>1. /\ req[r].pc = "create" /\ req[r].pc \in Calls /\ req[r].pc \notin Ended
        /\ flows[f].status = "absent"
        /\ flows' = [flows EXCEPT ![f] = new]
        /\ UNCHANGED <<plans, late>>
    BY DEF Create, NewFlow, At, Calls, Ended
  <1>2. /\ flows'[f] = new
        /\ \A g \in Flows : g # f => flows'[g] = flows[g]
    BY <1>1 DEF IInv, TypeOK
  <1>3. new.status = "DISABLED" /\ new.published = "none"
    BY DEF NoFlow
  <1>. HIDE DEF new
  <1>4. \A g \in Flows : flows[g].status # "absent" => SameContent(g)
    BY <1>1, <1>2 DEF SameContent
  <1>5. \A g \in Flows : flows'[g].published \in {"none", "full"}
    BY <1>2, <1>3 DEF JobsInv
  <1>6. JobInv(r) /\ req[r].flow = None /\ req[r].kind \in KindNames
    BY <1>1 DEF JobsInv, JobInv, IInv, TypeOK
  <1>7. /\ \A s \in Requests : s # r => req'[s] = req[s]
        /\ req'[r].kind = req[r].kind
        /\ \/ req'[r].pc = "stamp" /\ req'[r].flow = f
           \/ req'[r].pc \in {"create", "failed", "cleanup"} /\ req'[r].flow = None
    <2>1. CASE Retry(r) \/ Raise(r)
      <3>1. /\ \A s \in Requests : s # r => req'[s] = req[s]
            /\ req'[r].kind = req[r].kind
            /\ req'[r].flow = req[r].flow
            /\ req'[r].pc \in {"create", "failed", "cleanup"}
        BY <1>1, <2>1, RetryFacts DEF IInv, TypeOK, ReqType
      <3>. QED
        BY <1>6, <3>1
    <2>2. CASE req' = [req EXCEPT ![r].pc = "stamp", ![r].tries = 0, ![r].flow = f]
      BY <2>2 DEF IInv, TypeOK
    <2>. QED
      BY <2>1, <2>2 DEF Create
  <1>8. JobInv(r)'
    <2>1. CASE req'[r].pc = "stamp"
      <3>1. req[r].kind \in Makers
        BY <1>1, <1>6 DEF JobInv
      <3>2. /\ req'[r].flow = f
            /\ flows'[f].status # "absent"
            /\ flows'[f].published = "none"
        BY <1>2, <1>3, <1>7, <2>1
      <3>3. req[r].kind # "reimport"
        BY <1>6 DEF JobInv
      <3>. QED
        BY <1>7, <2>1, <3>1, <3>2, <3>3
           DEF JobInv, AfterGates, AfterPublish, Managing
    <2>2. CASE req'[r].pc \in {"create", "failed", "cleanup"}
      BY <1>1, <1>6, <1>7, <2>2 DEF JobInv, AfterGates, AfterPublish, Managing
    <2>. QED
      BY <1>7, <2>1, <2>2
  <1>9. Advances(r)
    BY <1>1, <1>4, <1>6, <1>7 DEF Advances
  <1>10. \A g \in Flows : Made(r, g)' => flows[g].status = "absent"
    BY <1>1, <1>7, NamesAssumption DEF Made
  <1>. QED
    BY <1>1, <1>5, <1>8, <1>9, <1>10, AdvanceKeeps

LEMMA CrashJob ==
    ASSUME IInv, JobsInv, NEW r \in Requests, Crash(r)
    PROVE  JobsInv'
  BY QuietFailure DEF Crash, Running, Ended, Writes, Reads, Others

LEMMA InitJobs == Init => JobsInv
  <1>. SUFFICES ASSUME Init PROVE JobsInv
    OBVIOUS
  <1>1. ASSUME NEW r \in Requests PROVE JobInv(r) /\ req[r].flow = None
    BY DEF Init, JobInv, Idle, Makers, AfterGates, AfterPublish, Managing
  <1>2. OneMaker
    BY <1>1, NamesAssumption DEF OneMaker, Made
  <1>. QED
    BY <1>1, <1>2 DEF Init, JobsInv, NoFlow

LEMMA NextJobs ==
    ASSUME Punctual, IInv, JobsInv, [Next]_vars
    PROVE  JobsInv'
  <1>1. ASSUME NEW r \in Requests, Step(r) PROVE JobsInv'
    <2>1. CASE Classify(r)
      BY <2>1, ClassifyJob
    <2>2. CASE Validate(r)
      BY <2>2, ValidateJob
    <2>3. CASE Gate(r)
      BY <2>3, GateJob
    <2>4. CASE \E f \in Flows : Create(r, f)
      BY <2>4, CreateJob
    <2>5. CASE Write(r)
      BY <2>5, WriteJob
    <2>6. CASE WriteUnheard(r)
      BY <2>6, WriteUnheardJob
    <2>7. CASE WriteDelayed(r)
      BY <2>7 DEF WriteDelayed, Punctual
    <2>8. CASE Read(r)
      BY <2>8, ReadJob
    <2>9. CASE Unreachable(r) \/ Refused(r)
      BY <2>9, FailureJob
    <2>10. CASE Evict(r) \/ Upsert(r) \/ Employ(r)
      BY <2>10, RegistryJob
    <2>11. CASE Plan(r)
      BY <2>11, PlanJob
    <2>. QED
      BY <1>1, <2>1, <2>2, <2>3, <2>4, <2>5, <2>6, <2>7, <2>8, <2>9, <2>10, <2>11 DEF Step
  <1>2. ASSUME NEW r \in Requests, Crash(r) PROVE JobsInv'
    BY <1>2, CrashJob
  <1>3. ASSUME NEW r \in Requests, NEW kind \in Kinds, NEW tenant \in Tenants,
               NEW f \in Flows \cup {None}, Arrive(r, kind, tenant, f)
        PROVE  JobsInv'
    BY <1>3, ArriveJob
  <1>4. late = {}
    BY DEF JobsInv
  <1>5. CASE UNCHANGED vars
    BY <1>5 DEF vars, JobsInv, JobInv, OneMaker, Made, PlanInv
  <1>. QED
    BY <1>1, <1>2, <1>3, <1>4, <1>5 DEF Next

\* In every execution without late calls and reimports.
THEOREM JobsInvariant ==
    ASSUME Punctual
    PROVE  Spec => []JobsInv
  <1>1. ASSUME IInv, JobsInv, [Next]_vars PROVE JobsInv'
    BY <1>1, NextJobs
  <1>. QED
    BY <1>1, InitJobs, SpecInvariant, PTL DEF Spec

\* What AP runs has passed verify_flow and the gates after it, also when an
\* IMPORT_FLOW or a LOCK_AND_PUBLISH was repeated: the maker of a flow sends no
\* import after its verification, and nobody else sends one.
THEOREM Verification ==
    ASSUME Punctual
    PROVE  Spec => []PublishedIsVerified
  <1>1. JobsInv => PublishedIsVerified
    BY DEF JobsInv, PublishedIsVerified
  <1>. QED
    BY <1>1, JobsInvariant, PTL

\* "deployed" is answered for a flow that has the caller's stamp and a verified
\* graph published, though its tenant may have switched it off or deleted it.
THEOREM Deployment ==
    ASSUME Punctual
    PROVE  Spec => []DeployedIsPublished
  <1>1. ASSUME JobsInv, IInv, NEW r \in Requests, req[r].kind = "build", At(r, "ok")
        PROVE  Target(r).published = "full" /\ Target(r).owner = req[r].tenant
    BY <1>1 DEF JobsInv, JobInv, Makers, AfterGates, AfterPublish, Target, At
  <1>2. JobsInv /\ IInv => DeployedIsPublished
    BY <1>1 DEF DeployedIsPublished
  <1>. QED
    BY <1>2, JobsInvariant, SpecInvariant, PTL

\* The draft a plan of save_pending_activation_plan points to stays what it was
\* when the plan was saved: no other request has it, and its maker has ended.
THEOREM Planning ==
    ASSUME Punctual
    PROVE  Spec => []PlanHasDraft
  <1>1. ASSUME JobsInv, IInv, NEW r \in Requests, NEW s \in Requests, r # s,
               req[r].kind = "draft", req[s].kind = "draft", req[r].flow # None
        PROVE  req[r].flow # req[s].flow
    <2>1. req[r].flow \in Flows
      BY <1>1 DEF IInv, TypeOK
    <2>. QED
      BY <1>1, <2>1 DEF JobsInv, OneMaker, Made, Makers
  <1>2. JobsInv /\ IInv => PlanHasDraft
    BY <1>1 DEF PlanHasDraft, JobsInv, PlanInv
  <1>. QED
    BY <1>2, JobsInvariant, SpecInvariant, PTL
=============================================================================
