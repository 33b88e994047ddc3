------------------------------ MODULE Accounts ------------------------------
(***************************************************************************)
(* The life of an account before and around its sessions                   *)
(* (identity/service.py, identity/router.py, core/csrf.py): the first      *)
(* registration may claim the owner's role, everybody else waits behind    *)
(* two gates; every mutating request passes the CSRF middleware first.     *)
(***************************************************************************)
EXTENDS Integers, FiniteSets, Permissions

CONSTANTS
    Emails, Registrations,   \* addresses; registrations in flight
    KeyConfigured,           \* INITIAL_BOOTSTRAP_KEY is set
    CsrfEnabled

ASSUME AccountsAssumption == IsFiniteSet(Registrations)

VARIABLES
    account,     \* per address: the row, or NoAccount
    claimed,     \* addresses that registered as owner
    mailed,      \* idempotency keys of the mails enqueued
    registering  \* per registration: what it has read

accountVars == <<account, claimed, mailed, registering>>

NoAccount == [role |-> "none", active |-> FALSE, approved |-> FALSE, confirmed |-> FALSE]
NoRegistration == [email |-> "none"]

AccountsInit ==
    /\ account = [e \in Emails |-> NoAccount]
    /\ claimed = {} /\ mailed = {}
    /\ registering = [r \in Registrations |-> NoRegistration]

Registered == {e \in Emails : account[e] # NoAccount}

\* CSRF_EXEMPT_PATHS: the webhook (not here), the login and the registration.
Exempt == {"token", "register"}

\* CSRFMiddleware: a mutating request carries the cookie's value in its header too.
Admitted(path, header) == CsrfEnabled => path \in Exempt \/ header

\* Mutant: whoever holds the key is the owner.
ClaimsByKey(key, first) ==
    IF ~KeyConfigured THEN first ELSE key = "right"

\* _claims_owner: the first user, who has the key if there is one.
ClaimsOwner(key, first) ==
    IF ~KeyConfigured THEN first ELSE key = "right" /\ first

\* A key that claims nothing is an error.
Forbidden(key, first) == KeyConfigured /\ key # "none" /\ ~ClaimsOwner(key, first)

\* register reads whether the address is known and counts the users ...
RegisterRead(r, e, key) ==
    LET first == Registered = {} IN
    /\ Admitted("register", FALSE)
    /\ registering[r] = NoRegistration /\ e \notin Registered /\ ~Forbidden(key, first)
    /\ registering' = [registering EXCEPT ![r] = [email |-> e, owner |-> ClaimsOwner(key, first)]]
    /\ UNCHANGED <<account, claimed, mailed>>

\* ... and inserts the row with its mail; the address is unique.
RegisterWrite(r) ==
    LET e == registering[r].email
        owner == registering[r].owner
    IN /\ registering[r] # NoRegistration
       /\ registering' = [registering EXCEPT ![r] = NoRegistration]
       /\ IF e \in Registered THEN UNCHANGED <<account, claimed, mailed>>
          ELSE /\ account' = [account EXCEPT ![e] =
                    [role |-> IF owner THEN "owner" ELSE "viewer", active |-> TRUE,
                     approved |-> owner, confirmed |-> owner]]
               /\ claimed' = IF owner THEN claimed \cup {e} ELSE claimed
               /\ mailed' = mailed \cup {<<IF owner THEN "welcome" ELSE "verify", e>>}

\* The link in the mail; only a mail brings the token.
VerifyEmail(e, header) ==
    /\ Admitted("verify-email", header)
    /\ <<"verify", e>> \in mailed /\ account[e].active /\ ~account[e].confirmed
    /\ account' = [account EXCEPT ![e].confirmed = TRUE]
    /\ UNCHANGED <<claimed, mailed, registering>>

ResendVerification(e, header) ==
    /\ Admitted("resend-verification", header)
    /\ e \in Registered /\ account[e].active /\ ~account[e].confirmed
    /\ mailed' = mailed \cup {<<"verify", e>>}
    /\ UNCHANGED <<account, claimed, registering>>

\* login's gates, in the order of its answers
MayLogIn(e) == account[e].active /\ account[e].confirmed /\ account[e].approved

MayManage(e) == MayLogIn(e) /\ HasPermission(account[e].role, "user:manage")

\* update_user approves, changes the role, disables and enables again.
UpdateUser(admin, e, row) ==
    /\ Admitted("users", TRUE)
    /\ MayManage(admin) /\ e \in Registered
    /\ row.confirmed = account[e].confirmed
    /\ account' = [account EXCEPT ![e] = row]
    /\ mailed' = IF row.approved /\ ~account[e].approved
                 THEN mailed \cup {<<"approved", e>>} ELSE mailed
    /\ UNCHANGED <<claimed, registering>>

Rows == [role : {"viewer", "admin"}, active : BOOLEAN, approved : BOOLEAN, confirmed : BOOLEAN]

AccountsNext ==
    \/ \E r \in Registrations :
        \/ \E e \in Emails, key \in {"none", "wrong", "right"} : RegisterRead(r, e, key)
        \/ RegisterWrite(r)
    \/ \E e \in Emails, header \in BOOLEAN : VerifyEmail(e, header) \/ ResendVerification(e, header)
    \/ \E admin \in Emails, e \in Emails, row \in Rows : UpdateUser(admin, e, row)

-----------------------------------------------------------------------------
(* Properties *)

\* The owner's role is claimed once, or by as many registrations as overlapped the
\* first, all of which counted no user; nobody but those who claimed it, and those whom
\* somebody entitled has let in, may log in.
EveryoneWasLetIn ==
    /\ Cardinality(claimed) <= Cardinality(Registrations)
    /\ \A e \in Emails : MayLogIn(e) => e \in claimed \/ <<"approved", e>> \in mailed
=============================================================================
