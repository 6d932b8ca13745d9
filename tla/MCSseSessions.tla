--------------------------- MODULE MCSseSessions ----------------------------
(***************************************************************************)
(* A small instance of SseSessions for TLC: one project with a tenant and  *)
(* a live key, one that is seeded while requests are served.               *)
(***************************************************************************)
EXTENDS SseSessions, TLC

CONSTANTS p, q, t, k1, k2, s1, s2, o1, m1, w1, w2

TenantsOfProjects == p :> t @@ q :> None

\* The second key is given to q, or replaces the first; the first is given anew.
Args == {[key |-> k2, project |-> q, rotate |-> FALSE],
         [key |-> k2, project |-> p, rotate |-> TRUE],
         [key |-> k1, project |-> p, rotate |-> TRUE]}
=============================================================================
