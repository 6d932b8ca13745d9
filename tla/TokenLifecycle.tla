--------------------------- MODULE TokenLifecycle ---------------------------
(***************************************************************************)
(* What the vault promises about one row of encrypted_tokens, without the  *)
(* replicas, their leases, locks and tasks, and without what may fail:     *)
(*                                                                         *)
(*      unused ---> usable ---> retired                                    *)
(*                     |           |                                       *)
(*                     +-----------+---> gone                              *)
(*                                                                         *)
(* and the way of the access tokens, which are numbered as the provider    *)
(* issues them: the provider's newest one is stored in the row, the stored *)
(* one is delivered to Activepieces.  Tokens may be skipped on the way,    *)
(* never reordered, and a retired row is never used again.                 *)
(***************************************************************************)
EXTENDS Naturals

VARIABLES
    issued,     \* the newest access token of the provider
    stored,     \* the one in the row, 0 if there is no row
    delivered,  \* the one Activepieces holds
    life

lifeVars == <<issued, stored, delivered, life>>

InVault == life \in {"usable", "retired"}

Init == issued = 0 /\ stored = 0 /\ delivered = 0 /\ life = "unused"

Begin ==
    /\ life = "unused" /\ life' = "usable"
    /\ UNCHANGED <<issued, stored, delivered>>

Issue ==
    /\ life # "unused"
    /\ issued' = issued + 1
    /\ UNCHANGED <<stored, delivered, life>>

Store ==
    /\ InVault
    /\ stored' = issued
    /\ UNCHANGED <<issued, delivered, life>>

Deliver ==
    /\ InVault
    /\ delivered' = stored
    /\ UNCHANGED <<issued, stored, life>>

Retire ==
    /\ life = "usable" /\ life' = "retired"
    /\ UNCHANGED <<issued, stored, delivered>>

\* Only a row of which Activepieces has seen no refreshed token is deleted.
Discard ==
    /\ InVault /\ delivered = 0
    /\ life' = "gone" /\ stored' = 0
    /\ UNCHANGED <<issued, delivered>>

Next == Begin \/ Issue \/ Store \/ Deliver \/ Retire \/ Discard

Spec == Init /\ [][Next]_lifeVars
=============================================================================
