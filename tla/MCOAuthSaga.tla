---------------------------- MODULE MCOAuthSaga -----------------------------
(***************************************************************************)
(* Small instances of OAuthSaga for TLC.                                   *)
(***************************************************************************)
EXTENDS OAuthSaga, TLC

CONSTANTS s1, s2, s3, c1, c2, c3, a1

\* One Slack team that one tenant has installed.
OneTeam == {{a1}}

Symmetry == Permutations({s1, s2, s3}) \cup Permutations({c1, c2, c3})

\* Every fault there is.
AllFaults == FaultKinds

\* Faults a single handler copes with completely.
Recoverable == FaultKinds \ {"crash", "ap_lost_reply", "ap_cleanup"}
=============================================================================
