------------------------- MODULE MCRevocationWebhook -------------------------
(***************************************************************************)
(* Small instances of RevocationWebhook for TLC.                           *)
(***************************************************************************)
EXTENDS RevocationWebhook, FiniteSets, TLC

CONSTANTS e1, e2, e3, d1, d2, t1, t2, t3, a1, a2

\* A Slack team two tenants have installed.
OneTeam == {{a1, a2}}

\* Every fault; the account is connected again at any time.
AllFaults == FaultKinds

\* Any two of the three events arise.  (Nothing is assumed of Uninstall, so that
\* the bound takes nothing from the fairness.)
MCNext == Next /\ Cardinality({e \in Events : team'[e] # {}}) <= 2

MCSpec ==
    /\ Init /\ [][MCNext]_vars
    /\ \A d \in Deliveries : WF_vars(HandlerStep(d))
    /\ \A e \in Events : WF_vars(\E d \in Deliveries : Send(d, e))
=============================================================================
