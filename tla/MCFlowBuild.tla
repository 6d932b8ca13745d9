----------------------------- MODULE MCFlowBuild -----------------------------
(***************************************************************************)
(* Small instances of FlowBuild for TLC.                                   *)
(***************************************************************************)
EXTENDS FlowBuild, TLC

CONSTANTS r1, r2, r3, f1, f2, t1, t2

Symmetry == Permutations(Requests) \cup Permutations(Flows) \cup Permutations(Tenants)

\* Every failure with an effect; a call that never reaches AP has none.
Effective == FaultKinds \ {"unreachable"}

\* Every failure but a call that is acted on after it was given up: then a
\* second IMPORT_FLOW may follow the verification of the first.
OnTime == FaultKinds \ {"late"}

\* What creates, checks and removes flows; reimport is examined separately, for
\* it publishes what golden_build would reject.
Protocol == KindNames \ {"reimport"}
=============================================================================
