----------------------------- MODULE MCServices -----------------------------
(***************************************************************************)
(* Small instances for TLC of four services that share no state: the piece *)
(* registry in the database (PieceVault) and the one in files (PieceFiles),*)
(* the memory of a project (ProjectMemory) and the connections with their  *)
(* guards (Connections).  Since no step of one reads or writes a variable  *)
(* of another, interleaving them shows nothing: a behaviour is one         *)
(* service's, with the others at rest.                                     *)
(***************************************************************************)
EXTENDS Connections, ProjectMemory, PieceFiles, PieceVault, TLC

\* n1 and n2 name the two requests to the memory and the two
\* runs of a sync script, so that one symmetry is that of the service that runs.
CONSTANTS n1, n2, c1, p1, p2, b1, b2, d1, q1, q2, z1, Services

VARIABLE active   \* the service that runs

\* A request names at most one connection, for piece p1: in its connection_ids, by
\* either name, in the deployment's defaults, in the step or in the step's input.
Only(p, ref) == [q \in Pieces |-> IF q = p THEN ref ELSE None]

Plain(kind, trigger, wants, inside) ==
    [kind |-> kind, trigger |-> trigger, wants |-> wants, nested |-> inside,
     given |-> NoRefs, default |-> NoRefs, step |-> NoRefs, auth |-> NoRefs]
Given(in) == {[in EXCEPT !.given = Only(p1, ref)] : ref \in Ref}
Elsewhere(in) ==
    UNION {{[in EXCEPT !.default = Only(p1, <<"id", c>>)],
            [in EXCEPT !.step = Only(p1, <<"id", c>>)],
            [in EXCEPT !.auth = Only(p1, <<"id", c>>)]} : c \in Conns}
Asks(in) == Given(in) \cup Elsewhere(in)

\* The first request makes a flow; the second reimports it.
SomeRequests ==
    b1 :> (Asks(Plain("dynamic", p2, {p1}, {})) \cup Elsewhere(Plain("dynamic", p2, {p1}, {p1}))
               \cup {Plain("dynamic", p1, {p2}, {})} \cup Given(Plain("template", p2, {p1}, {})))
    @@ b2 :> (Asks(Plain("actions", p2, {p1}, {})) \cup Given(Plain("retemplate", p2, {p1}, {})))

\* At rest the memory has one initial state, running it has both.
MCInit ==
    /\ active \in Services /\ Init /\ MemoryInit /\ FilesInit /\ VaultInit
    /\ active # "memory" => project = "none"

MCNext ==
    /\ UNCHANGED active
    /\ \/ active = "connections" /\ Next /\ UNCHANGED <<memoryVars, vaultVars, fileVars>>
       \/ active = "memory" /\ MemoryNext /\ UNCHANGED <<vars, vaultVars, fileVars>>
       \/ active = "vault" /\ VaultNext /\ UNCHANGED <<vars, memoryVars, fileVars>>
       \/ active = "files" /\ FilesNext /\ UNCHANGED <<vars, memoryVars, vaultVars>>

MCSpec == MCInit /\ [][MCNext]_<<active, vars, memoryVars, vaultVars, fileVars>>

\* Pieces p1 and p2 are told apart by SomeRequests, those of the registry are not.
Symmetry == Permutations({n1, n2}) \cup Permutations({q1, q2})

=============================================================================
