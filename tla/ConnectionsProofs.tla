------------------------- MODULE ConnectionsProofs --------------------------
(***************************************************************************)
(* Theorems about Connections: what a graph may refer to, and how it may   *)
(* lose what it refers to, for any connections, builds and deletes.        *)
(***************************************************************************)
EXTENDS Connections, TLAPS

\* A request that has imported its graph, or ended: it decides nothing more.
Past(b) == build[b].pc \in {"plan", "publish", "deployed", "pending", "failed"}

\* What the guard of request b has computed or found.
Cleared(b) ==
    /\ build[b].in.kind = "dynamic" =>
         build[b].ids \in Classified(build[b].in, build[b].seen, build[b].known)
    /\ build[b].in.kind \in {"template", "actions"} => Guarded(build[b].in, build[b].seen)

Blocked(b) == build[b].in.kind = "dynamic" /\ ~Passed(build[b].known, build[b].ids)

\* What is about to be imported has been decided on.
Decided(b) ==
    /\ build[b].pc \in {"import", "draft"} => Cleared(b)
    /\ build[b].pc = "import" => ~Blocked(b)
    /\ build[b].pc = "draft" => build[b].in.kind = "dynamic"

\* Who makes a flow is the first to give it a graph, a reimport finds one; and
\* what a request publishes, its own graph or one that came over it, was let
\* through.
Placed(b) ==
    /\ build[b].pc = "idle" => flow[b].stage = "none"
    /\ build[b].pc \in {"list", "decide", "import", "draft"} =>
         IF build[b].in.kind \in {"dynamic", "template"}
         THEN build[b].at = b /\ flow[b].stage = "none"
         ELSE flow[build[b].at].stage # "none"
    /\ build[b].pc = "publish" => /\ flow[build[b].at].stage # "none"
                                  /\ ~Blocked(flow[build[b].at].by)

\* A graph is the one its request has decided on.
Graph(f) ==
    IF flow[f].stage = "none" THEN flow[f].refs = NoRefs
    ELSE LET b == flow[f].by IN
         /\ b \in Builds /\ Past(b) /\ Cleared(b)
         /\ flow[f].refs = References(build[b].in, build[b].known, build[b].ids)
         /\ flow[f].stage = "live" => ~Blocked(b)

BuildInv == \A b \in Builds : Decided(b) /\ Placed(b) /\ Graph(b)

\* A delete that was not refused has not found its name in the graphs it read.
Looked ==
    \A d \in Deletes : del[d].pc \in {"delete", "deleted"} =>
        \A b \in del[d].read :
            /\ b \in Builds /\ Past(b)
            /\ \A p \in Pieces :
                 References(build[b].in, build[b].known, build[b].ids)[p] # del[d].name

\* Only a delete removes a connection.
GoneIsDeleted ==
    \A c \in Conns : conn[c].status = "gone" =>
        \E d \in Deletes : del[d].pc = "deleted" /\ del[d].name[2] = c

IInv == TypeOK /\ BuildInv /\ Looked /\ GoneIsDeleted

-----------------------------------------------------------------------------
(* What the guards compute.                                                *)

\* The gate gives a piece it has looked at no name but that of an ACTIVE row.
LEMMA ChosenIsActive ==
    ASSUME NEW in \in Inputs, NEW seen \in Rows, NEW known \in SUBSET Pieces,
           NEW ids \in Classified(in, seen, known), NEW p \in known
    PROVE  ids[p] = None \/ ids[p][2] \in ActiveIn(seen)
<1>1. Chosen(in, seen, p, ids[p])
  BY DEF Classified
<1>2. CASE Resolved(in)[p] # None
  BY <1>1, <1>2 DEF Chosen
<1>3. CASE Resolved(in)[p] = None
  <2>1. Candidates(seen, p, ids[p])
    BY <1>1, <1>3 DEF Chosen
  <2> QED BY <2>1 DEF Candidates
<1> QED BY <1>2, <1>3

\* What a name or the empty value is made of is one.
LEMMA ResolvedType ==
    ASSUME NEW in \in Inputs, NEW p \in Pieces
    PROVE  /\ Resolved(in)[p] \in Ref /\ in.given[p] \in Ref /\ in.default[p] \in Ref
           /\ in.step[p] \in Ref /\ in.auth[p] \in Ref
BY DEF Resolved, Or, Inputs, Refs, Ref

\* The reference of an action, by the endpoint.
LEMMA ReferencesAre ==
    ASSUME NEW in \in Inputs, NEW known \in SUBSET Pieces, NEW ids \in Refs,
           NEW p \in in.wants
    PROVE  LET ref == References(in, known, ids)[p] IN
           /\ in.kind \in {"template", "retemplate"} => ref = Resolved(in)[p]
           /\ in.kind \in {"dynamic", "actions"} /\ p \in in.nested => ref = NestedRef(in, p)
           /\ in.kind = "actions" /\ p \notin in.nested => ref = ActionRef(in, p)
           /\ in.kind = "dynamic" /\ p \notin in.nested =>
                ref = IF Passed(known, ids) THEN ReadyRef(in, ids, p) ELSE DraftRef(in, ids, p)
<1>1. p \in Pieces /\ in.kind \in Endpoints
  BY DEF Inputs
<1> QED BY <1>1 DEF References, Endpoints

\* A graph refers to names, or to nothing.
LEMMA ReferencesType ==
    ASSUME NEW in \in Inputs, NEW known \in SUBSET Pieces, NEW ids \in Refs
    PROVE  References(in, known, ids) \in Refs
<1>1. ASSUME NEW p \in Pieces PROVE References(in, known, ids)[p] \in Ref
  <2>1. CASE p \notin in.wants
    BY <2>1 DEF References, Ref
  <2>2. CASE p \in in.wants
    <3>1. ids[p] \in Ref /\ in.kind \in Endpoints
      BY DEF Refs, Inputs
    <3>2. /\ NestedRef(in, p) \in Ref /\ ActionRef(in, p) \in Ref
          /\ ReadyRef(in, ids, p) \in Ref /\ DraftRef(in, ids, p) \in Ref
      BY <3>1, ResolvedType DEF NestedRef, ActionRef, ReadyRef, DraftRef, Or
    <3> QED BY <2>2, <3>1, <3>2, ReferencesAre, ResolvedType DEF Endpoints
  <2> QED BY <2>1, <2>2
<1>2. \E F : References(in, known, ids) = [p \in Pieces |-> F[p]]
  <2> DEFINE R(p) ==
        CASE p \notin in.wants -> None
          [] p \in in.wants /\ in.kind \in {"template", "retemplate"} -> Resolved(in)[p]
          [] p \in in.wants /\ in.kind \in {"dynamic", "actions"} ->
                 IF p \in in.nested THEN NestedRef(in, p)
                 ELSE IF in.kind = "actions" THEN ActionRef(in, p)
                 ELSE IF Passed(known, ids) THEN ReadyRef(in, ids, p)
                 ELSE DraftRef(in, ids, p)
  <2>1. References(in, known, ids) = [p \in Pieces |-> R(p)]
    BY DEF References
  <2> HIDE DEF R
  <2> QED BY <2>1
<1> QED BY <1>1, <1>2 DEF Refs

-----------------------------------------------------------------------------
(* Types.                                                                  *)

\* The initial values have their types.
LEMMA InitType == Init => TypeOK
<1> SUFFICES ASSUME Init PROVE TypeOK OBVIOUS
<1>1. NoRefs \in Refs
  BY DEF NoRefs, Refs, Ref
<1>2. (CHOOSE p \in Pieces : TRUE) \in Pieces
  BY PiecesAssumption
<1>3. NoRow \in Row
  BY <1>2 DEF NoRow, Row, Status
<1>4. NoInput \in Inputs
  BY <1>1, <1>2 DEF NoInput, Inputs, Endpoints
<1> QED BY <1>1, <1>3, <1>4 DEF Init, TypeOK, Rows, Build, Flow, Delete, Ref

\* The connections and the deletes keep their types.
LEMMA WorldType ==
    ASSUME TypeOK,
           \/ \E c \in Conns : AddConnection(c) \/ BreakConnection(c) \/ RepairConnection(c)
           \/ \E d \in Deletes : DeleteStep(d)
    PROVE  TypeOK'
<1>1. ASSUME NEW c \in Conns, AddConnection(c) PROVE TypeOK'
  BY <1>1 DEF AddConnection, TypeOK, Rows, Row, Status
<1>2. ASSUME NEW c \in Conns, BreakConnection(c) PROVE TypeOK'
  BY <1>2 DEF BreakConnection, TypeOK, Rows, Row, Status
<1>3. ASSUME NEW c \in Conns, RepairConnection(c) PROVE TypeOK'
  BY <1>3 DEF RepairConnection, TypeOK, Rows, Row, Status
<1>4. ASSUME NEW d \in Deletes, NEW name \in Names, StartDelete(d, name) PROVE TypeOK'
  BY <1>4 DEF StartDelete, TypeOK, Delete, Ref
<1>5. ASSUME NEW d \in Deletes, ListFlows(d) PROVE TypeOK'
  <2>1. PICK page \in SUBSET {f \in Builds : flow[f].stage # "none"} :
           del' = [del EXCEPT ![d].read = {flow[f].by : f \in page},
                              ![d].pc = IF \E f \in page : Mentions(f, del[d].name)
                                        THEN "refused" ELSE "delete"]
    BY <1>5 DEF ListFlows
  <2>2. {flow[f].by : f \in page} \subseteq Builds \cup {None}
    BY DEF TypeOK, Flow
  <2> DEFINE read == {flow[f].by : f \in page}
             pc == IF \E f \in page : Mentions(f, del[d].name) THEN "refused" ELSE "delete"
  <2>3. del' = [del EXCEPT ![d] = [del[d] EXCEPT !.read = read, !.pc = pc]]
    BY <2>1 DEF TypeOK
  <2>4. read \in SUBSET (Builds \cup {None}) /\ pc \in {"refused", "delete"}
    BY <2>2
  <2> HIDE DEF read, pc
  <2>5. [del[d] EXCEPT !.read = read, !.pc = pc] \in Delete
    BY <2>4 DEF TypeOK, Delete
  <2>6. del' \in [Deletes -> Delete]
    BY <2>3, <2>5 DEF TypeOK
  <2> QED BY <1>5, <2>6 DEF ListFlows, TypeOK
<1>6. ASSUME NEW d \in Deletes, DeleteConnection(d) PROVE TypeOK'
  <2>1. conn' \in Rows
    BY <1>6 DEF DeleteConnection, TypeOK, Rows, Row, Status, Listed
  <2>2. del' \in [Deletes -> Delete]
    BY <1>6 DEF DeleteConnection, DelTo, TypeOK, Delete
  <2> QED BY <1>6, <2>1, <2>2 DEF DeleteConnection, TypeOK
<1>7. ASSUME NEW d \in Deletes, DeleteFails(d) PROVE TypeOK'
  BY <1>7 DEF DeleteFails, DelTo, TypeOK, Delete
<1> QED BY <1>1, <1>2, <1>3, <1>4, <1>5, <1>6, <1>7 DEF DeleteStep

\* A build keeps the types.
LEMMA BuildType ==
    ASSUME TypeOK, NEW b \in Builds, BuildStep(b)
    PROVE  TypeOK'
<1>1. ASSUME NEW in \in Requests[b], NEW f \in Builds, StartBuild(b, in, f) PROVE TypeOK'
  <2>1. in \in Inputs
    BY RequestsAssumption
  <2>2. PICK pc \in {"import", "list"} :
           build' = [build EXCEPT ![b].pc = pc, ![b].in = in, ![b].at = f]
    BY <1>1 DEF StartBuild
  <2>3. [build[b] EXCEPT !.pc = pc, !.in = in, !.at = f] \in Build
    <3>1. build[b] \in Build
      BY DEF TypeOK
    <3> QED BY <2>1, <3>1 DEF Build
  <2>4. build' \in [Builds -> Build]
    BY <2>2, <2>3 DEF TypeOK
  <2> QED BY <1>1, <2>4 DEF StartBuild, TypeOK
<1>2. CASE ListConnections(b)
  <2>1. [build[b] EXCEPT !.pc = "decide", !.seen = conn] \in Build
    <3>1. build[b] \in Build /\ conn \in Rows
      BY DEF TypeOK
    <3> QED BY <3>1 DEF Build
  <2>2. build' = [build EXCEPT ![b] = [build[b] EXCEPT !.pc = "decide", !.seen = conn]]
    BY <1>2 DEF ListConnections, TypeOK
  <2>3. build' \in [Builds -> Build]
    BY <2>1, <2>2 DEF TypeOK
  <2> QED BY <1>2, <2>3 DEF ListConnections, TypeOK
<1>3. CASE Gate(b)
  <2>1. PICK known \in SUBSET Needy(build[b].in) :
           \E ids \in Classified(build[b].in, build[b].seen, known) :
              build' = [build EXCEPT ![b].pc = IF Passed(known, ids) THEN "import" ELSE "draft",
                                     ![b].known = known, ![b].ids = ids]
    BY <1>3 DEF Gate
  <2>2. PICK ids \in Classified(build[b].in, build[b].seen, known) :
           build' = [build EXCEPT ![b].pc = IF Passed(known, ids) THEN "import" ELSE "draft",
                                  ![b].known = known, ![b].ids = ids]
    BY <2>1
  <2> DEFINE pc == IF Passed(known, ids) THEN "import" ELSE "draft"
  <2>5. known \in SUBSET Pieces /\ ids \in Refs /\ pc \in {"import", "draft"}
    BY PiecesAssumption DEF Needy, Classified
  <2> HIDE DEF pc
  <2>3. [build[b] EXCEPT !.pc = pc, !.known = known, !.ids = ids] \in Build
    <3>1. build[b] \in Build
      BY DEF TypeOK
    <3> QED BY <2>5, <3>1 DEF Build
  <2>4. build' = [build EXCEPT ![b] = [build[b] EXCEPT !.pc = pc, !.known = known, !.ids = ids]]
    BY <2>2 DEF TypeOK, pc
  <2>6. build' \in [Builds -> Build]
    BY <2>3, <2>4 DEF TypeOK
  <2> QED BY <1>3, <2>6 DEF Gate, TypeOK
<1>4. ASSUME NEW pc \in {"import", "publish", "deployed", "plan", "pending", "failed"},
             BuildTo(b, pc)
      PROVE  build' \in [Builds -> Build]
  <2>1. [build[b] EXCEPT !.pc = pc] \in Build
    BY DEF TypeOK, Build
  <2> QED BY <1>4, <2>1 DEF BuildTo, TypeOK
<1>5. CASE GuardStatic(b)
  <2>1. build' \in [Builds -> Build]
    BY <1>4, <1>5 DEF GuardStatic
  <2> QED BY <1>5, <2>1 DEF GuardStatic, TypeOK
<1>6. CASE ImportGraph(b) \/ ImportDraft(b)
  <2>1. build' \in [Builds -> Build]
    BY <1>4, <1>6 DEF ImportGraph, ImportDraft
  <2>2. References(build[b].in, build[b].known, build[b].ids) \in Refs
    BY ReferencesType DEF TypeOK, Build
  <2>3. flow' \in [Builds -> Flow]
    BY <1>6, <2>2 DEF ImportGraph, ImportDraft, Import, TypeOK, Flow
  <2> QED BY <1>6, <2>1, <2>3 DEF ImportGraph, ImportDraft, TypeOK
<1>7. CASE Publish(b)
  <2>1. build' \in [Builds -> Build]
    BY <1>4, <1>7 DEF Publish
  <2> QED BY <1>7, <2>1 DEF Publish, TypeOK, Flow
<1>8. CASE SkipDraft(b) \/ SavePlan(b) \/ BuildFails(b)
  <2>1. build' \in [Builds -> Build]
    BY <1>4, <1>8 DEF SkipDraft, SavePlan, BuildFails
  <2> QED BY <1>8, <2>1 DEF SkipDraft, SavePlan, BuildFails, TypeOK
<1> QED BY <1>1, <1>2, <1>3, <1>5, <1>6, <1>7, <1>8 DEF BuildStep

\* Every step keeps the types.
LEMMA NextType == TypeOK /\ [Next]_vars => TypeOK'
<1> SUFFICES ASSUME TypeOK, [Next]_vars PROVE TypeOK' OBVIOUS
<1>1. CASE UNCHANGED vars
  BY <1>1 DEF vars, TypeOK
<1>2. CASE Next
  BY <1>2, WorldType, BuildType DEF Next
<1> QED BY <1>1, <1>2

\* Connections.TypeOK: whatever the order of the requests, each variable has the
\* type the code gives it.
THEOREM TypeCorrect == Spec => []TypeOK
BY InitType, NextType, PTL DEF Spec

-----------------------------------------------------------------------------
(* What a step of request b does to it, to the other requests and to the   *)
(* flows.                                                                  *)

\* Another request does not move.
LEMMA Bystander ==
    ASSUME TypeOK, NEW b \in Builds, BuildStep(b), NEW o \in Builds, o # b
    PROVE  build'[o] = build[o]
BY DEF BuildStep, StartBuild, ListConnections, Gate, GuardStatic, ImportGraph, Publish,
       ImportDraft, SkipDraft, SavePlan, BuildFails, BuildTo, TypeOK

\* A request that is past its import stays so, and what it decided on is settled.
LEMMA Settled ==
    ASSUME TypeOK, NEW b \in Builds, BuildStep(b), NEW o \in Builds, Past(o)
    PROVE  /\ Past(o)'
           /\ build'[o].in = build[o].in /\ build'[o].seen = build[o].seen
           /\ build'[o].known = build[o].known /\ build'[o].ids = build[o].ids
<1>1. CASE o # b
  BY <1>1, Bystander DEF Past
<1>2. CASE o = b
  <2>1. \E pc \in {"deployed", "pending", "failed"} : BuildTo(b, pc)
    BY <1>2 DEF Past, BuildStep, StartBuild, ListConnections, Gate, GuardStatic,
                ImportGraph, Publish, ImportDraft, SkipDraft, SavePlan, BuildFails
  <2> QED BY <1>2, <2>1 DEF Past, BuildTo, TypeOK, Build
<1> QED BY <1>1, <1>2

\* So its graph stays as cleared, or as blocked, as it was.
LEMMA SettledGraph ==
    ASSUME TypeOK, NEW b \in Builds, BuildStep(b), NEW o \in Builds, Past(o)
    PROVE  /\ Past(o)' /\ Cleared(o)' = Cleared(o) /\ Blocked(o)' = Blocked(o)
           /\ References(build[o].in, build[o].known, build[o].ids)'
                = References(build[o].in, build[o].known, build[o].ids)
BY Settled DEF Cleared, Blocked

\* Which flows a step changes: none, or the one of its request, by an import or by
\* a publication.
LEMMA FlowMoves ==
    ASSUME TypeOK, BuildInv, NEW b \in Builds, BuildStep(b)
    PROVE  \/ flow' = flow
           \/ /\ build[b].pc \in {"import", "draft"} /\ Import(b) /\ Past(b)'
              /\ build'[b] = [build[b] EXCEPT
                   !.pc = IF build[b].pc = "import" THEN "publish" ELSE "plan"]
           \/ Publish(b)
<1>1. CASE ImportGraph(b)
  BY <1>1 DEF ImportGraph, BuildTo, Past, TypeOK, Build
<1>2. CASE ImportDraft(b)
  BY <1>2 DEF ImportDraft, BuildTo, Past, TypeOK, Build
<1> QED BY <1>1, <1>2 DEF BuildStep, StartBuild, ListConnections, Gate, GuardStatic,
                          SkipDraft, SavePlan, BuildFails

\* An import gives its flow a graph that is a draft, and leaves the others.
LEMMA Imported ==
    ASSUME TypeOK, NEW b \in Builds, Import(b), NEW f \in Builds
    PROVE  IF f = build[b].at
           THEN /\ flow'[f].stage = "draft" /\ flow'[f].by = b
                /\ flow'[f].refs = References(build[b].in, build[b].known, build[b].ids)
           ELSE flow'[f] = flow[f]
BY DEF Import, TypeOK, Build

\* A publication changes the stage of its flow, and nothing else.
LEMMA Published ==
    ASSUME TypeOK, NEW b \in Builds, Publish(b), NEW f \in Builds
    PROVE  /\ build[b].pc = "publish"
           /\ IF f = build[b].at
              THEN /\ flow'[f].stage = "live"
                   /\ flow'[f].by = flow[f].by /\ flow'[f].refs = flow[f].refs
              ELSE flow'[f] = flow[f]
BY DEF Publish, TypeOK, Build, Flow

\* A flow that has a graph keeps one.
LEMMA GraphsStay ==
    ASSUME TypeOK, BuildInv, NEW b \in Builds, BuildStep(b), NEW f \in Builds,
           flow[f].stage # "none"
    PROVE  flow'[f].stage # "none"
<1>1. CASE Import(b)
  BY <1>1, Imported
<1>2. CASE Publish(b)
  BY <1>2, Published
<1> QED BY <1>1, <1>2, FlowMoves

-----------------------------------------------------------------------------
(* The invariant under a step of request b.                                *)

\* What is imported next has been decided on.
LEMMA DecidedStep ==
    ASSUME TypeOK, BuildInv, NEW b \in Builds, BuildStep(b), NEW o \in Builds
    PROVE  Decided(o)'
<1>1. CASE o # b
  BY <1>1, Bystander DEF BuildInv, Decided, Cleared, Blocked
<1>2. ASSUME o = b, NEW in \in Requests[b], NEW f \in Builds, StartBuild(b, in, f)
      PROVE  Decided(b)'
  <2>1. /\ build'[b].pc = IF in.kind = "retemplate" THEN "import" ELSE "list"
        /\ build'[b].in = in
    BY <1>2 DEF StartBuild, TypeOK, Build
  <2> QED BY <2>1 DEF Decided, Cleared, Blocked
<1>3. CASE o = b /\ Gate(b)
  <2>1. PICK known \in SUBSET Needy(build[b].in) :
           \E ids \in Classified(build[b].in, build[b].seen, known) :
              build' = [build EXCEPT ![b].pc = IF Passed(known, ids) THEN "import" ELSE "draft",
                                     ![b].known = known, ![b].ids = ids]
    BY <1>3 DEF Gate
  <2>2. PICK ids \in Classified(build[b].in, build[b].seen, known) :
           build' = [build EXCEPT ![b].pc = IF Passed(known, ids) THEN "import" ELSE "draft",
                                  ![b].known = known, ![b].ids = ids]
    BY <2>1
  <2>3. /\ build'[b].pc = IF Passed(known, ids) THEN "import" ELSE "draft"
        /\ build'[b].known = known /\ build'[b].ids = ids
        /\ build'[b].in = build[b].in /\ build'[b].seen = build[b].seen
    BY <2>2 DEF TypeOK, Build
  <2>4. build[b].in.kind = "dynamic"
    BY <1>3 DEF Gate
  <2> QED BY <1>3, <2>3, <2>4 DEF Decided, Cleared, Blocked
<1>4. CASE o = b /\ GuardStatic(b)
  <2>1. /\ build'[b].pc = IF Guarded(build[b].in, build[b].seen) THEN "import" ELSE "failed"
        /\ build'[b].in = build[b].in /\ build'[b].seen = build[b].seen
        /\ build[b].in.kind \in {"template", "actions"}
    BY <1>4 DEF GuardStatic, BuildTo, TypeOK, Build
  <2> QED BY <1>4, <2>1 DEF Decided, Cleared, Blocked
<1>5. CASE o = b /\ ListConnections(b)
  BY <1>5 DEF ListConnections, Decided, TypeOK, Build
<1>6. CASE o = b /\ \E pc \in {"publish", "deployed", "plan", "pending", "failed"} : BuildTo(b, pc)
  BY <1>6 DEF BuildTo, Decided, TypeOK, Build
<1> QED BY <1>1, <1>2, <1>3, <1>4, <1>5, <1>6
        DEF BuildStep, ImportGraph, Publish, ImportDraft, SkipDraft, SavePlan, BuildFails

\* A graph stays the one its request has decided on, whoever imports over it.
LEMMA GraphStep ==
    ASSUME TypeOK, BuildInv, NEW b \in Builds, BuildStep(b), NEW f \in Builds
    PROVE  Graph(f)'
<1> DEFINE at == build[b].at
<1>0. Graph(f) /\ Decided(b) /\ Placed(b) /\ at \in Builds
  BY DEF BuildInv, TypeOK, Build
<1>1. CASE flow'[f] = flow[f]
  BY <1>0, <1>1, SettledGraph DEF Graph
<1>2. CASE build[b].pc \in {"import", "draft"} /\ Import(b) /\ f = at /\ Past(b)'
           /\ build'[b] = [build[b] EXCEPT
                !.pc = IF build[b].pc = "import" THEN "publish" ELSE "plan"]
  <2>1. /\ build'[b].in = build[b].in /\ build'[b].seen = build[b].seen
        /\ build'[b].known = build[b].known /\ build'[b].ids = build[b].ids
    BY <1>2 DEF TypeOK, Build
  <2>2. Cleared(b)'
    BY <1>0, <1>2, <2>1 DEF Decided, Cleared
  <2>3. /\ flow'[f].stage = "draft" /\ flow'[f].by = b
        /\ flow'[f].refs = References(build[b].in, build[b].known, build[b].ids)
    BY <1>2, Imported
  <2> QED BY <1>2, <2>1, <2>2, <2>3 DEF Graph
<1>3. CASE Publish(b) /\ f = at
  <2>1. /\ flow'[f].by = flow[f].by /\ flow'[f].refs = flow[f].refs
        /\ build[b].pc = "publish" /\ flow'[f].stage = "live"
    BY <1>3, Published
  <2>2. flow[f].stage # "none" /\ ~Blocked(flow[f].by)
    BY <1>0, <1>3, <2>1 DEF Placed
  <2>3. PICK o : o = flow[f].by
    OBVIOUS
  <2>4. /\ o \in Builds /\ Past(o) /\ Cleared(o)
        /\ flow[f].refs = References(build[o].in, build[o].known, build[o].ids)
    BY <1>0, <2>2, <2>3 DEF Graph
  <2>5. /\ Past(o)' /\ Cleared(o)' = Cleared(o) /\ Blocked(o)' = Blocked(o)
        /\ References(build[o].in, build[o].known, build[o].ids)'
              = References(build[o].in, build[o].known, build[o].ids)
    BY <2>4, SettledGraph
  <2> QED BY <2>1, <2>2, <2>3, <2>4, <2>5 DEF Graph
<1>4. CASE Publish(b) /\ f # at
  BY <1>1, <1>4, Published
<1>5. CASE Import(b) /\ f # at
  BY <1>1, <1>5, Imported
<1> QED BY <1>1, <1>2, <1>3, <1>4, <1>5, FlowMoves

\* A flow is made once, reimported only when it has a graph, and published only
\* with a graph that was let through.
LEMMA PlacedStep ==
    ASSUME TypeOK, BuildInv, NEW b \in Builds, BuildStep(b), NEW o \in Builds
    PROVE  Placed(o)'
<1>0. /\ Placed(o) /\ Placed(b) /\ Decided(b) /\ build[b] \in Build /\ build[o] \in Build
      /\ build[b].at \in Builds /\ build[o].at \in Builds
  BY DEF BuildInv, TypeOK, Build
\* What the step of b does to a flow f that is not b's to make.
<1>1. ASSUME NEW f \in Builds, flow[f].stage = "none", f # b PROVE flow'[f].stage = "none"
  <2>1. CASE f # build[b].at
    BY <1>1, <2>1, FlowMoves, Imported, Published
  <2>2. CASE f = build[b].at
    <3>1. build[b].pc \notin {"import", "draft", "publish"}
      BY <1>0, <1>1, <2>2 DEF Placed
    <3>2. flow' = flow
      BY <3>1, FlowMoves, Published
    <3> QED BY <1>1, <3>2
  <2> QED BY <2>1, <2>2
\* And to one that may be published.
<1>2. ASSUME NEW f \in Builds, flow[f].stage # "none", ~Blocked(flow[f].by)
      PROVE  flow'[f].stage # "none" /\ ~Blocked(flow[f].by)'
  <2>0. flow'[f].stage # "none"
    BY <1>2, GraphsStay
  <2>1. PICK x : x = flow[f].by
    OBVIOUS
  <2>2. x \in Builds /\ Past(x)
    BY <1>2, <2>1 DEF BuildInv, Graph
  <2>3. ~Blocked(x)'
    BY <1>2, <2>1, <2>2, SettledGraph
  <2>4. CASE flow'[f].by = flow[f].by
    BY <2>0, <2>1, <2>3, <2>4 DEF Blocked
  <2>5. CASE flow'[f].by # flow[f].by
    <3>1. Import(b) /\ f = build[b].at /\ build[b].pc \in {"import", "draft"}
          /\ build'[b] = [build[b] EXCEPT
               !.pc = IF build[b].pc = "import" THEN "publish" ELSE "plan"]
      BY <2>5, FlowMoves, Imported, Published
    <3>2. flow'[f].by = b
      BY <3>1, Imported
    <3>3. build[b].pc = "import"
      BY <1>0, <1>2, <3>1 DEF Placed, Decided
    <3>4. ~Blocked(b)
      BY <1>0, <3>3 DEF Decided
    <3>5. ~Blocked(b)'
      BY <1>0, <3>1, <3>4 DEF Blocked, Build
    <3> QED BY <2>0, <3>2, <3>5 DEF Blocked
  <2> QED BY <2>4, <2>5
<1>3. ASSUME o # b PROVE Placed(o)'
  <2>1. build'[o] = build[o]
    BY <1>3, Bystander
  <2>2. flow[o].stage = "none" => flow'[o].stage = "none"
    BY <1>1, <1>3
  <2>3. flow[build[o].at].stage # "none" => flow'[build[o].at].stage # "none"
    BY <1>0, GraphsStay
  <2>4. ASSUME build[o].pc = "publish" PROVE ~Blocked(flow[build[o].at].by)'
    <3>1. PICK f \in Builds : f = build[o].at
      BY <1>0
    <3>2. flow[f].stage # "none" /\ ~Blocked(flow[f].by)
      BY <1>0, <2>4, <3>1 DEF Placed
    <3>3. ~Blocked(flow[f].by)'
      BY <1>2, <3>2
    <3>4. build'[o].at = f
      BY <2>1, <3>1
    <3> QED BY <3>3, <3>4 DEF Blocked
  <2> QED BY <1>0, <2>1, <2>2, <2>3, <2>4 DEF Placed
<1>4. ASSUME o = b, NEW in \in Requests[b], NEW f \in Builds, StartBuild(b, in, f)
      PROVE  Placed(b)'
  <2>1. /\ build'[b].pc = IF in.kind = "retemplate" THEN "import" ELSE "list"
        /\ build'[b].in = in /\ build'[b].at = f /\ flow' = flow /\ build[b].pc = "idle"
        /\ IF in.kind \in {"actions", "retemplate"} THEN flow[f].stage # "none" ELSE f = b
    BY <1>4 DEF StartBuild, TypeOK, Build
  <2>2. in.kind \in Endpoints
    BY RequestsAssumption DEF Inputs
  <2> QED BY <1>0, <2>1, <2>2 DEF Placed, Endpoints
<1>5. CASE o = b /\ (ListConnections(b) \/ Gate(b) \/ GuardStatic(b))
  <2>1. /\ build[b].pc \in {"list", "decide"} /\ flow' = flow
        /\ build'[b].pc \in {"decide", "import", "draft", "failed"}
        /\ build'[b].in = build[b].in /\ build'[b].at = build[b].at
    <3>1. CASE ListConnections(b)
      BY <1>0, <3>1 DEF ListConnections, TypeOK, Build
    <3>2. CASE GuardStatic(b)
      BY <1>0, <3>2 DEF GuardStatic, BuildTo, TypeOK, Build
    <3>3. CASE Gate(b)
      <4>1. PICK known, ids :
               build' = [build EXCEPT ![b].pc = IF Passed(known, ids) THEN "import" ELSE "draft",
                                      ![b].known = known, ![b].ids = ids]
        BY <3>3 DEF Gate
      <4> QED BY <1>0, <3>3, <4>1 DEF Gate, TypeOK, Build
    <3> QED BY <1>5, <3>1, <3>2, <3>3
  <2> QED BY <1>0, <1>5, <2>1 DEF Placed
<1>6. CASE o = b /\ ImportGraph(b)
  <2>1. /\ build[b].pc = "import" /\ Import(b)
        /\ build'[b] = [build[b] EXCEPT !.pc = "publish"]
    BY <1>6 DEF ImportGraph, BuildTo, TypeOK
  <2>2. flow'[build[b].at].stage = "draft" /\ flow'[build[b].at].by = b
    BY <1>0, <2>1, Imported
  <2>3. ~Blocked(b)'
    BY <1>0, <2>1 DEF Decided, Blocked, Build
  <2>4. build'[b].pc = "publish" /\ build'[b].at = build[b].at
    BY <1>0, <2>1 DEF Build
  <2> QED BY <1>6, <2>2, <2>3, <2>4 DEF Placed
<1>7. CASE o = b /\ \E pc \in {"deployed", "plan", "pending", "failed"} : BuildTo(b, pc)
  BY <1>0, <1>7 DEF BuildTo, Placed, TypeOK, Build
<1> QED BY <1>3, <1>4, <1>5, <1>6, <1>7
        DEF BuildStep, Publish, ImportDraft, SkipDraft, SavePlan, BuildFails

\* What a delete has read and not found stays out of the graphs it has read.
LEMMA LookedStep ==
    ASSUME TypeOK, Looked, NEW b \in Builds, BuildStep(b)
    PROVE  Looked'
<1>1. del' = del
  BY DEF BuildStep, StartBuild, ListConnections, Gate, GuardStatic, ImportGraph, Publish,
         ImportDraft, SkipDraft, SavePlan, BuildFails
<1>2. SUFFICES ASSUME NEW d \in Deletes, del[d].pc \in {"delete", "deleted"},
                      NEW o \in del[d].read
               PROVE  /\ o \in Builds /\ Past(o)'
                      /\ \A p \in Pieces :
                          References(build[o].in, build[o].known, build[o].ids)'[p] # del[d].name
  BY <1>1 DEF Looked
<1>3. o \in Builds /\ Past(o)
      /\ \A p \in Pieces : References(build[o].in, build[o].known, build[o].ids)[p] # del[d].name
  BY <1>2 DEF Looked
<1> QED BY <1>3, SettledGraph

-----------------------------------------------------------------------------
(* The invariant.                                                          *)

\* It holds to begin with.
LEMMA InitInv == Init => IInv
<1> SUFFICES ASSUME Init PROVE IInv OBVIOUS
<1>1. TypeOK
  BY InitType
<1>2. \A b \in Builds : build[b].pc = "idle" /\ flow[b].stage = "none" /\ flow[b].refs = NoRefs
  BY DEF Init
<1>3. BuildInv
  BY <1>2 DEF BuildInv, Decided, Placed, Graph
<1>4. Looked /\ GoneIsDeleted
  BY DEF Init, Looked, GoneIsDeleted, NoRow
<1> QED BY <1>1, <1>3, <1>4 DEF IInv

\* A step of a request keeps it.
LEMMA BuildKeeps ==
    ASSUME IInv, NEW b \in Builds, BuildStep(b)
    PROVE  (BuildInv /\ Looked /\ GoneIsDeleted)'
<1>1. BuildInv'
  BY DecidedStep, PlacedStep, GraphStep DEF IInv, BuildInv
<1>2. Looked'
  BY LookedStep DEF IInv
<1>3. UNCHANGED <<conn, del>>
  BY DEF BuildStep, StartBuild, ListConnections, Gate, GuardStatic, ImportGraph, Publish,
         ImportDraft, SkipDraft, SavePlan, BuildFails
<1>4. GoneIsDeleted'
  BY <1>3 DEF IInv, GoneIsDeleted
<1> QED BY <1>1, <1>2, <1>4

\* What is known of requests and graphs is about them alone.
LEMMA BuildsStay ==
    ASSUME BuildInv, UNCHANGED <<build, flow>>
    PROVE  /\ BuildInv' /\ \A b : Past(b)' = Past(b)
           /\ \A b : References(build[b].in, build[b].known, build[b].ids)'
                       = References(build[b].in, build[b].known, build[b].ids)
BY DEF BuildInv, Decided, Placed, Graph, Past, Cleared, Blocked

\* A connection that is made, breaks or is repaired was not gone and is not after.
LEMMA ConnectionsKeep ==
    ASSUME IInv, NEW c \in Conns,
           AddConnection(c) \/ BreakConnection(c) \/ RepairConnection(c)
    PROVE  (BuildInv /\ Looked /\ GoneIsDeleted)'
<1> USE DEF IInv
<1>1. UNCHANGED <<build, flow, del>>
  BY DEF AddConnection, BreakConnection, RepairConnection
<1>2. BuildInv' /\ Looked'
  BY <1>1, BuildsStay DEF Looked
<1>3. \A o \in Conns : conn'[o].status = "gone" => conn[o].status = "gone"
  BY DEF AddConnection, BreakConnection, RepairConnection, TypeOK, Rows, Row, Status
<1> QED BY <1>1, <1>2, <1>3 DEF GoneIsDeleted

\* A step of a delete keeps it: the graphs it has read do not have its name.
LEMMA DeleteKeeps ==
    ASSUME IInv, NEW d \in Deletes, DeleteStep(d)
    PROVE  (BuildInv /\ Looked /\ GoneIsDeleted)'
<1> USE DEF IInv
<1>1. UNCHANGED <<build, flow>>
  BY DEF DeleteStep, StartDelete, ListFlows, DeleteConnection, DeleteFails
<1>2. /\ BuildInv' /\ \A b : Past(b)' = Past(b)
      /\ \A b : References(build[b].in, build[b].known, build[b].ids)'
                  = References(build[b].in, build[b].known, build[b].ids)
  BY <1>1, BuildsStay
<1>3. \A e \in Deletes : e # d => del'[e] = del[e]
  BY DEF DeleteStep, StartDelete, ListFlows, DeleteConnection, DeleteFails, DelTo, TypeOK
<1>4. ASSUME NEW name \in Names, StartDelete(d, name)
      PROVE  (BuildInv /\ Looked /\ GoneIsDeleted)'
  <2>1. conn' = conn /\ del[d].pc = "idle" /\ del'[d].pc = "list"
    BY <1>4 DEF StartDelete, TypeOK, Delete
  <2> QED BY <1>2, <1>3, <2>1 DEF Looked, GoneIsDeleted
<1>5. CASE ListFlows(d)
  <2>1. PICK page \in SUBSET {f \in Builds : flow[f].stage # "none"} :
           del' = [del EXCEPT ![d].read = {flow[f].by : f \in page},
                              ![d].pc = IF \E f \in page : Mentions(f, del[d].name)
                                        THEN "refused" ELSE "delete"]
    BY <1>5 DEF ListFlows
  <2>2. /\ conn' = conn /\ del[d].pc = "list" /\ del'[d].name = del[d].name
        /\ del'[d].pc \in {"refused", "delete"} /\ del'[d].read = {flow[f].by : f \in page}
    BY <1>5, <2>1 DEF ListFlows, TypeOK, Delete
  <2>3. ASSUME del'[d].pc = "delete", NEW f \in page, NEW b, b = flow[f].by
        PROVE  /\ b \in Builds /\ Past(b)
               /\ \A p \in Pieces :
                    References(build[b].in, build[b].known, build[b].ids)[p] # del[d].name
    <3>1. f \in Builds /\ flow[f].stage # "none"
      OBVIOUS
    <3>2. /\ b \in Builds /\ Past(b)
          /\ flow[f].refs = References(build[b].in, build[b].known, build[b].ids)
      BY <2>3, <3>1 DEF BuildInv, Graph
    <3>3. ~Mentions(f, del[d].name)
      BY <2>1, <2>3 DEF TypeOK, Delete
    <3> QED BY <3>1, <3>2, <3>3 DEF Mentions
  <2>4. Looked'
    BY <1>2, <1>3, <2>2, <2>3 DEF Looked
  <2>5. GoneIsDeleted'
    BY <1>3, <2>2 DEF GoneIsDeleted
  <2> QED BY <1>2, <2>4, <2>5
<1>6. CASE DeleteConnection(d)
  <2>1. /\ del[d].pc = "delete" /\ del'[d].pc = "deleted"
        /\ del'[d].name = del[d].name /\ del'[d].read = del[d].read
    BY <1>6 DEF DeleteConnection, DelTo, TypeOK, Delete
  <2>2. \A o \in Conns : o # del[d].name[2] => conn'[o] = conn[o]
    BY <1>6 DEF DeleteConnection, TypeOK, Rows
  <2>3. Looked'
    BY <1>2, <1>3, <2>1 DEF Looked
  <2>4. GoneIsDeleted'
    <3>1. SUFFICES ASSUME NEW o \in Conns, conn'[o].status = "gone"
                   PROVE  \E e \in Deletes : del'[e].pc = "deleted" /\ del'[e].name[2] = o
      BY DEF GoneIsDeleted
    <3>2. CASE o = del[d].name[2]
      BY <2>1, <3>2
    <3>3. CASE o # del[d].name[2]
      <4>1. PICK e \in Deletes : del[e].pc = "deleted" /\ del[e].name[2] = o
        BY <2>2, <3>1, <3>3 DEF GoneIsDeleted
      <4> QED BY <1>3, <2>1, <4>1
    <3> QED BY <3>2, <3>3
  <2> QED BY <1>2, <2>3, <2>4
<1>7. CASE DeleteFails(d)
  <2>1. conn' = conn /\ del[d].pc # "deleted" /\ del'[d].pc = "failed"
    BY <1>7 DEF DeleteFails, DelTo, TypeOK, Delete
  <2> QED BY <1>2, <1>3, <2>1 DEF Looked, GoneIsDeleted
<1> QED BY <1>4, <1>5, <1>6, <1>7 DEF DeleteStep

\* Every step keeps it.
LEMMA NextInv == IInv /\ [Next]_vars => IInv'
<1> SUFFICES ASSUME IInv, [Next]_vars PROVE IInv' OBVIOUS
<1>1. TypeOK'
  BY NextType DEF IInv
<1>2. CASE UNCHANGED vars
  <2>1. UNCHANGED <<conn, build, flow, del>>
    BY <1>2 DEF vars
  <2> QED BY <1>1, <2>1, BuildsStay DEF IInv, Looked, GoneIsDeleted
<1>3. CASE Next
  BY <1>1, <1>3, BuildKeeps, ConnectionsKeep, DeleteKeeps DEF Next, IInv
<1> QED BY <1>2, <1>3

\* It is an invariant of the specification.
LEMMA SpecInv == Spec => []IInv
BY InitInv, NextInv, PTL DEF Spec

\* Connections.GuardedStepsUseListed: the graph a request leaves behind gives a
\* step its guard has looked at only a connection its own list showed, or the one
\* the step itself names, for any number of requests, reimports, deletes and
\* changes of the connections in between, and whatever pieces Gate 6 knows.
THEOREM GuardedStepsAreListed == Spec => []GuardedStepsUseListed
<1>1. IInv => GuardedStepsUseListed
  <2> SUFFICES ASSUME IInv PROVE GuardedStepsUseListed OBVIOUS
  <2> SUFFICES ASSUME NEW f \in Builds, flow[f].stage # "none",
                      NEW b \in Builds, b = flow[f].by,
                      NEW p \in build[b].in.wants \ build[b].in.nested
               PROVE  LET r == build[b]
                          ref == flow[f].refs[p] IN
                      /\ r.in.kind = "dynamic" /\ p \in r.known =>
                           IF Passed(r.known, r.ids)
                           THEN ref # None /\ (ref[2] \in ActiveIn(r.seen) \/ ref = r.in.step[p])
                           ELSE /\ flow[f].stage # "live"
                                /\ \/ ref # None /\ ref[2] \in ActiveIn(r.seen)
                                   \/ r.ids[p] = None /\ ref \in {None, r.in.auth[p], r.in.default[p]}
                      /\ r.in.kind \in {"template", "actions"} =>
                           /\ ref # None
                           /\ ref[2] \in Listed(r.seen) \/ ref \in {r.in.step[p], r.in.auth[p]}
    <3>1. \A g \in Builds : flow[g].stage # "none" => flow[g].by \in Builds
      BY DEF IInv, BuildInv, Graph
    <3> QED BY <3>1 DEF GuardedStepsUseListed
  <2> DEFINE r == build[b]
             in == r.in
             ref == flow[f].refs[p]
  <2>1. /\ in \in Inputs /\ r.seen \in Rows /\ r.known \in SUBSET Pieces /\ r.ids \in Refs
    BY DEF IInv, TypeOK, Build
  <2>2. /\ Cleared(b) /\ flow[f].refs = References(in, r.known, r.ids)
        /\ flow[f].stage = "live" => ~Blocked(b)
    BY DEF IInv, BuildInv, Graph
  <2>3. p \in in.wants /\ p \in Pieces /\ p \notin in.nested
    BY <2>1 DEF Inputs
  <2>4. /\ in.kind = "template" => ref = Resolved(in)[p]
        /\ in.kind = "actions" => ref = ActionRef(in, p)
        /\ in.kind = "dynamic" =>
             ref = IF Passed(r.known, r.ids) THEN ReadyRef(in, r.ids, p) ELSE DraftRef(in, r.ids, p)
    BY <2>1, <2>2, <2>3, ReferencesAre
  <2>5. ASSUME in.kind = "dynamic", p \in r.known
        PROVE  IF Passed(r.known, r.ids)
               THEN ref # None /\ (ref[2] \in ActiveIn(r.seen) \/ ref = in.step[p])
               ELSE /\ flow[f].stage # "live"
                    /\ \/ ref # None /\ ref[2] \in ActiveIn(r.seen)
                       \/ r.ids[p] = None /\ ref \in {None, in.auth[p], in.default[p]}
    <3>1. r.ids[p] = None \/ r.ids[p][2] \in ActiveIn(r.seen)
      BY <2>1, <2>2, <2>5, ChosenIsActive DEF Cleared
    <3>2. CASE Passed(r.known, r.ids)
      <4>1. r.ids[p] # None
        BY <2>5, <3>2 DEF Passed
      <4> QED BY <2>4, <2>5, <3>1, <3>2, <4>1 DEF ReadyRef, Or
    <3>3. CASE ~Passed(r.known, r.ids)
      <4>1. flow[f].stage # "live"
        BY <2>2, <2>5, <3>3 DEF Blocked
      <4> QED BY <2>4, <2>5, <3>1, <3>3, <4>1 DEF DraftRef, Or
    <3> QED BY <3>2, <3>3
  <2>6. ASSUME in.kind \in {"template", "actions"}
        PROVE  ref # None /\ (ref[2] \in Listed(r.seen) \/ ref \in {in.step[p], in.auth[p]})
    <3>1. Resolved(in)[p] # None /\ Resolved(in)[p][2] \in Listed(r.seen)
      BY <2>2, <2>3, <2>6 DEF Cleared, Guarded
    <3> QED BY <2>4, <2>6, <3>1 DEF ActionRef, Or
  <2> QED BY <2>5, <2>6
<1> QED BY <1>1, SpecInv, PTL

\* Connections.DanglingWasUnread: a graph loses its connection only to a delete
\* that had not read this graph or knew the connection by its other name.
THEOREM DanglingIsExplained == Spec => []DanglingWasUnread
<1>1. IInv => DanglingWasUnread
  <2> SUFFICES ASSUME IInv, NEW f \in Builds, NEW p \in Pieces,
                      flow[f].refs[p] # None, conn[flow[f].refs[p][2]].status = "gone"
               PROVE  \E d \in Deletes :
                          /\ del[d].pc = "deleted" /\ del[d].name[2] = flow[f].refs[p][2]
                          /\ flow[f].by \in del[d].read => del[d].name # flow[f].refs[p]
    BY DEF DanglingWasUnread
  <2>1. flow[f].refs[p] \in Names
    BY DEF IInv, TypeOK, Flow, Refs, Ref
  <2>2. flow[f].refs[p][2] \in Conns
    BY <2>1 DEF Names
  <2>3. PICK d \in Deletes : del[d].pc = "deleted" /\ del[d].name[2] = flow[f].refs[p][2]
    BY <2>2 DEF IInv, GoneIsDeleted
  <2>4. flow[f].stage # "none"
    BY DEF IInv, BuildInv, Graph, NoRefs
  <2>5. PICK b : b = flow[f].by
    OBVIOUS
  <2>6. flow[f].refs = References(build[b].in, build[b].known, build[b].ids)
    BY <2>4, <2>5 DEF IInv, BuildInv, Graph
  <2>7. b \in del[d].read => References(build[b].in, build[b].known, build[b].ids)[p] # del[d].name
    BY <2>3 DEF IInv, Looked
  <2> QED BY <2>3, <2>5, <2>6, <2>7
<1> QED BY <1>1, SpecInv, PTL
=============================================================================
