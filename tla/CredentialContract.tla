------------------------- MODULE CredentialContract -------------------------
(***************************************************************************)
(* What the handshake promises about one saga's credential, without the    *)
(* handlers, the nonces, the transactions or the status column:            *)
(*                                                                         *)
(*      open ---> held ---> linked                                         *)
(*        |         |                                                      *)
(*        +---------+-----> closed                                         *)
(*                                                                         *)
(* A saga obtains a credential at most once.  A held credential ends up    *)
(* linked to its AP connection or wiped; a linked one is never wiped, and  *)
(* a saga whose credential was wiped or lost never holds one again.        *)
(* Revocation marks a stored row and is no part of this life cycle.        *)
(***************************************************************************)
CONSTANT Sagas
VARIABLE cred

Phases == {"open", "held", "linked", "closed"}

Init == cred = [s \in Sagas |-> "open"]

Move(s, from, to) == cred[s] = from /\ cred' = [cred EXCEPT ![s] = to]

Obtain(s) == Move(s, "open", "held")
Link(s) == Move(s, "held", "linked")
Wipe(s) == Move(s, "held", "closed")
GiveUp(s) == Move(s, "open", "closed")

Next == \E s \in Sagas : Obtain(s) \/ Link(s) \/ Wipe(s) \/ GiveUp(s)

Spec == Init /\ [][Next]_cred
=============================================================================
