----------------------------- MODULE TenantAuth -----------------------------
(***************************************************************************)
(* Who a request to /v2/* acts for: the table tenant_api_keys, the script  *)
(* scripts/seed_tenant_key.py that fills and rotates it while requests are *)
(* served, the middleware require_tenant of auth.py, and resolve_pid.      *)
(*                                                                         *)
(* A raw key and its hash are one value; only its hash is ever compared.   *)
(* The audit log, the log context and last_used_at are left out: they are  *)
(* best-effort and nothing reads them back.                                *)
(***************************************************************************)
EXTENDS FiniteSets, Naturals

CONSTANTS
    Projects,    \* Activepieces project ids
    Tenants,     \* siyadah.tenants.id
    Keys,        \* raw API keys
    Requests,    \* HTTP requests to paths that need a tenant
    Seedings,    \* runs of seed_tenant_key.py
    Seeded,      \* keys the default project has to begin with
    SeedArgs,    \* their arguments: key, project, --rotate
    TenantOf,    \* the tenant of a project in siyadah.tenants, or None
    LegacyKey,   \* ORCHESTRATOR_API_KEY, or None
    DefaultPid,  \* DEFAULT_PID
    Enforce,     \* REQUIRE_TENANT_ENFORCE
    None

ASSUME ProjectsAssumption ==
    /\ DefaultPid \in Projects /\ LegacyKey \in Keys \cup {None}
    /\ Seeded \subseteq Keys
    /\ TenantOf \in [Projects -> Tenants \cup {None}]
    /\ Enforce \in BOOLEAN
    /\ SeedArgs \subseteq [key: Keys, project: Projects, rotate: BOOLEAN]
    /\ None \notin Keys \cup Projects \cup Tenants /\ Keys # {}

VARIABLES
    known,    \* the projects with a row in table projects
    keyRow,   \* tenant_api_keys by key: state, project, tenant
    seeding,  \* runs of the script
    req       \* requests in the middleware and after it

authVars == <<known, keyRow, seeding, req>>

KeyRow == [state: {"none", "live", "revoked"}, project: Projects,
           tenant: Tenants \cup {None}]
Claims == Projects \cup Tenants \cup {None}

Seeding == [pc: {"start", "create", "check", "insert", "done"},
            key: Keys, project: Projects, rotate: BOOLEAN, victims: SUBSET Keys]
Decision == [pc: {"idle", "admitted", "refused"}, project: Projects \cup {None}]

AuthTypeOK ==
    /\ known \subseteq Projects
    /\ keyRow \in [Keys -> KeyRow]
    /\ seeding \in [Seedings -> Seeding]
    /\ req \in [Requests -> Decision]

Live(p) == {k \in Keys : keyRow[k].state = "live" /\ keyRow[k].project = p}

-----------------------------------------------------------------------------
(* seed_tenant_key.py: check, revoke and insert in one transaction; only   *)
(* the project row is committed before.                                    *)

Idle == [pc |-> "start", key |-> CHOOSE k \in Keys : TRUE, project |-> DefaultPid,
         rotate |-> FALSE, victims |-> {}]

SeedTo(s, pc) == seeding' = [seeding EXCEPT ![s].pc = pc]

\* The end of a run, in either way.
Exit(s) == seeding' = [seeding EXCEPT ![s] = [Idle EXCEPT !.pc = "done"]]

StartSeeding(s, args) ==
    /\ seeding[s].pc = "start"
    /\ seeding' = [seeding EXCEPT ![s] =
          [pc |-> IF args.project \in known THEN "check" ELSE "create", key |-> args.key,
           project |-> args.project, rotate |-> args.rotate, victims |-> {}]]
    /\ UNCHANGED <<known, keyRow, req>>

\* --autocreate-project; without it the script returns 3.
CreateProject(s) ==
    /\ seeding[s].pc = "create"
    /\ known' = known \cup {seeding[s].project}
    /\ SeedTo(s, "check")
    /\ UNCHANGED <<keyRow, req>>

\* Refuse a key that is live; --rotate updates the rows the statement sees.
CheckAndRevoke(s) ==
    /\ seeding[s].pc = "check"
    /\ seeding' = IF keyRow[seeding[s].key].state = "live"
                  THEN [seeding EXCEPT ![s] = [Idle EXCEPT !.pc = "done"]]
                  ELSE [seeding EXCEPT ![s].pc = "insert",
                           ![s].victims = IF seeding[s].rotate
                                          THEN Live(seeding[s].project) ELSE {}]
    /\ UNCHANGED <<known, keyRow, req>>

Revoke(rows, victims) ==
    [k \in Keys |-> IF k \in victims THEN [rows[k] EXCEPT !.state = "revoked"] ELSE rows[k]]

\* Faulty variant: the revocation is committed on its own, before the insert.
RevokeFirst(s) ==
    /\ seeding[s].pc = "insert"
    /\ keyRow' = Revoke(keyRow, seeding[s].victims)
    /\ Exit(s)
    /\ UNCHANGED <<known, req>>

\* A revoked row of the same hash, or one inserted since the check, breaks the
\* UNIQUE constraint on key_hash and the revocation is rolled back with it.  The
\* tenant is that of the project, none, or what --tenant-uuid says.
InsertKey(s) ==
    /\ seeding[s].pc = "insert"
    /\ keyRow[seeding[s].key].state = "none"
    /\ \E t \in Tenants \cup {None} :
          keyRow' = [Revoke(keyRow, seeding[s].victims) EXCEPT ![seeding[s].key] =
                        [state |-> "live", project |-> seeding[s].project, tenant |-> t]]
    /\ Exit(s)
    /\ UNCHANGED <<known, req>>

\* No --autocreate-project, no tenant and no --orphan-allowed, a constraint.
SeedingFails(s) ==
    /\ seeding[s].pc \in {"create", "check", "insert"}
    /\ Exit(s)
    /\ UNCHANGED <<known, keyRow, req>>

-----------------------------------------------------------------------------
(* require_tenant: one query for the key, then a verdict.  What the caller  *)
(* presents matters at the moment of that query only.                      *)

\* expected_identity: the tenant of the row, or its project if it has none.
Identity(row) == IF row.tenant # None THEN row.tenant ELSE row.project

Found(k) == k # None /\ keyRow[k].state = "live"

\* The header matches: state.project_id is the project of the row.
Bound(k, claim) == Found(k) /\ claim = Identity(keyRow[k])

\* Passes without a project: the environment's own key when no live row has
\* its hash, and in the dry run any key of a row, whatever the header.
Unbound(k, claim) ==
    \/ ~Found(k) /\ k # None /\ k = LegacyKey
    \/ Found(k) /\ claim # Identity(keyRow[k]) /\ ~Enforce

Verdict(r, pc, p) ==
    /\ req[r].pc = "idle"
    /\ req' = [req EXCEPT ![r] = [pc |-> pc, project |-> p]]
    /\ UNCHANGED <<known, keyRow, seeding>>

AdmitBound(r, k, claim) == Bound(k, claim) /\ Verdict(r, "admitted", keyRow[k].project)
AdmitUnbound(r, k, claim) == Unbound(k, claim) /\ Verdict(r, "admitted", None)

\* A violation that is enforced (401, 403), or a lookup that raised.
Refuse(r, k, claim) ==
    /\ k # None \/ (~Bound(k, claim) /\ ~Unbound(k, claim))
    /\ Verdict(r, "refused", None)

\* resolve_pid, and the same order in _execute_mcp_tool: the verified project,
\* then the caller's argument, then DEFAULT_PID.
ResolvePid(verified, argument) ==
    IF verified # None THEN verified
    ELSE IF argument # None THEN argument ELSE DefaultPid

-----------------------------------------------------------------------------
NoKey == [state |-> "none", project |-> DefaultPid, tenant |-> None]

AuthInit ==
    /\ known = {DefaultPid}
    /\ keyRow = [k \in Keys |-> IF k \in Seeded
                               THEN [state |-> "live", project |-> DefaultPid,
                                     tenant |-> TenantOf[DefaultPid]]
                               ELSE NoKey]
    /\ seeding = [s \in Seedings |-> Idle]
    /\ req = [r \in Requests |-> [pc |-> "idle", project |-> None]]

SeedStep(s) ==
    \/ \E args \in SeedArgs : StartSeeding(s, args)
    \/ CreateProject(s) \/ CheckAndRevoke(s) \/ InsertKey(s) \/ SeedingFails(s)

AuthStep(r) ==
    \E k \in Keys \cup {None}, claim \in Claims :
        AdmitBound(r, k, claim) \/ AdmitUnbound(r, k, claim) \/ Refuse(r, k, claim)

AuthNext ==
    \/ \E s \in Seedings : SeedStep(s)
    \/ \E r \in Requests : AuthStep(r)

-----------------------------------------------------------------------------
\* "Key rotation = insert new row + set revoked_at on the old one"
\* (models.py:88): however runs of the script overlap and fail, a project that
\* has a live key never loses its last one.
RotationKeepsAKey ==
    [][\A p \in Projects : Live(p) # {} => Live(p)' # {}]_keyRow
=============================================================================
