----------------------------- MODULE TokenVault -----------------------------
(***************************************************************************)
(* The encrypted_tokens table (models.py, class EncryptedToken) as a       *)
(* function from row ids to rows.  A row is a record with at least         *)
(*   status  : "absent" (not inserted, or deleted), "ACTIVE", "REVOKED" or *)
(*             "CORRUPTED";                                                *)
(*   account : the (tenant, provider, provider_account_id) triple the row  *)
(*             belongs to, NoAccount when the provider sent no account id  *)
(*             (a NULL column).                                            *)
(* The ciphertext columns are the business of the modules that use them.   *)
(***************************************************************************)

CONSTANT NoAccount   \* provider_account_id IS NULL

RowStatus == {"absent", "ACTIVE", "REVOKED", "CORRUPTED"}

Present(row) == row.status # "absent"

(***************************************************************************)
(* UniqueConstraint(tenant_id, provider, provider_account_id, status): two *)
(* rows clash when all four columns agree.  In SQL a NULL equals nothing,  *)
(* so rows without an account id never clash.                              *)
(***************************************************************************)
Clash(row1, row2) ==
    /\ Present(row1)
    /\ Present(row2)
    /\ row1.account # NoAccount
    /\ row1.account = row2.account
    /\ row1.status = row2.status

UniqueKeyHolds(rows) ==
    \A t, u \in DOMAIN rows : t # u => ~Clash(rows[t], rows[u])

\* UPDATE ... SET status = 'REVOKED' WHERE status = 'ACTIVE' AND the row
\* belongs to one of the accounts.
RevokeActive(rows, accounts) ==
    [t \in DOMAIN rows |->
        IF rows[t].status = "ACTIVE" /\ rows[t].account \in accounts
        THEN [rows[t] EXCEPT !.status = "REVOKED"]
        ELSE rows[t]]
=============================================================================
