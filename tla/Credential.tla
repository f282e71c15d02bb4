----------------------------- MODULE Credential -----------------------------
(***************************************************************************)
(* What a cache of short-lived credentials promises, whoever mints them:   *)
(* the access tokens of Google (webpush-gcp-auth) and the provider tokens  *)
(* of APNs (webpush-apns).  A credential is handed out until it is due; a  *)
(* new one replaces it when it is due or after somebody who used it was    *)
(* refused.  AccessToken and ProviderToken implement this specification.   *)
(***************************************************************************)
EXTENDS Naturals

CONSTANTS
    Times,   \* the times at which credentials are asked for or due
    Unset    \* no credential

VARIABLES
    current,    \* when the cached credential is due, or Unset
    newest,     \* when the last credential minted is due, or Unset
    early,      \* history: credentials minted before the previous one was due
    refusals    \* history: the number of times a credential was dropped

credentialVars == <<current, newest, early, refusals>>

CredentialInit ==
    /\ current = Unset
    /\ newest = Unset
    /\ early = 0
    /\ refusals = 0

(***************************************************************************)
(* A credential asked for at time at, that will be due at time due.        *)
(***************************************************************************)
Mint(at, due) ==
    /\ current = Unset \/ current <= at
    /\ current' = due
    /\ newest' = due
    /\ early' = IF newest # Unset /\ newest > at THEN early + 1 ELSE early
    /\ UNCHANGED refusals

(***************************************************************************)
(* The platform refused somebody, who drops whatever is cached.            *)
(***************************************************************************)
Drop ==
    /\ current' = Unset
    /\ refusals' = refusals + 1
    /\ UNCHANGED <<newest, early>>

CredentialNext ==
    \/ \E at, due \in Times : Mint(at, due)
    \/ Drop

CredentialSpec == CredentialInit /\ [][CredentialNext]_credentialVars

-----------------------------------------------------------------------------

(***************************************************************************)
(* A refused user costs at most one credential: without refusals every     *)
(* credential is used until it is due, and callers share it.               *)
(***************************************************************************)
EarlyRefused == early <= refusals
=============================================================================
