---------------------------- MODULE MCTokenRefresh ---------------------------
(***************************************************************************)
(* Small instances of TokenRefresh for TLC.                                *)
(***************************************************************************)
EXTENDS TokenRefresh, TLC

CONSTANTS w1, w2, t1, t2, t3, a1

Symmetry == Permutations({w1, w2})

\* Every fault but a task that outlives its lock.
LockHolds == (FaultKinds \cup Traits) \ {"lock_lapse", "short_lived"}

\* Faults after which the worker is right again: services that refuse.
Refusals ==
    {"transient", "ap_reject", "ap_lost_reply", "redis", "decrypt",
     "keep", "no_expiry", "no_refresh", "revocation", "reconnect"}
=============================================================================
