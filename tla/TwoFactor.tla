----------------------------- MODULE TwoFactor -----------------------------
(***************************************************************************)
(* The second factor of one account: setup_two_factor, enable_two_factor,  *)
(* disable_two_factor and _verify_login_two_factor of AuthService.         *)
(*                                                                         *)
(* Every setup hands out a fresh secret and its backup codes, so a secret  *)
(* is a number and a code is a secret with an index.  Each operation is    *)
(* one transaction; overlapping ones are not modelled.                     *)
(***************************************************************************)
EXTENDS Naturals

CONSTANTS MaxSetups, CodesPerSetup

VARIABLES
  account,  \* totp_enabled, totp_secret, totp_pending_secret, totp_backup_codes
  setups,   \* how many secrets have been generated
  used      \* history: the codes a login or a disabling has accepted

vars == <<account, setups, used>>

NoSecret == 0
Secrets == 1..MaxSetups
Code == Secrets \X (1..CodesPerSetup)
CodesOf(secret) == {c \in Code : c[1] = secret}
Off == [enabled |-> FALSE, secret |-> NoSecret, pending |-> NoSecret, codes |-> {}]

TypeOK ==
  /\ account \in [enabled : BOOLEAN, secret : Secrets \cup {NoSecret},
                  pending : Secrets \cup {NoSecret}, codes : SUBSET Code]
  /\ setups \in 0..MaxSetups
  /\ used \subseteq Code

Init == account = Off /\ setups = 0 /\ used = {}

SetupAllowed == ~account.enabled
\* Mutant: the codes are renewed while the second factor is on.
SetupAnyTime == TRUE
CanSetup == SetupAllowed

Setup ==
  /\ CanSetup
  /\ setups < MaxSetups
  /\ setups' = setups + 1
  /\ account' = [account EXCEPT !.pending = setups + 1, !.codes = CodesOf(setups + 1)]
  /\ UNCHANGED used

\* The code shown by the authenticator belongs to the pending secret.
Enable ==
  /\ ~account.enabled
  /\ account.pending # NoSecret
  /\ account' = [account EXCEPT !.enabled = TRUE, !.secret = account.pending,
                                !.pending = NoSecret]
  /\ UNCHANGED <<setups, used>>

\* verify_backup_code: the code is accepted and leaves the list.
LoginWithCode ==
  /\ account.enabled
  /\ \E c \in account.codes :
       /\ account' = [account EXCEPT !.codes = @ \ {c}]
       /\ used' = used \cup {c}
  /\ UNCHANGED setups

\* By the authenticator, which leaves the codes alone, or by a backup code.
Disable ==
  /\ account.enabled
  /\ account' = Off
  /\ \/ UNCHANGED used
     \/ \E c \in account.codes : used' = used \cup {c}
  /\ UNCHANGED setups

Next == Setup \/ Enable \/ LoginWithCode \/ Disable

Spec == Init /\ [][Next]_vars

\* While the second factor is on, the codes that are accepted are those handed
\* out with the secret that is on, less those already used: no order of setup,
\* enabling, login and disabling brings a code back or leaves codes of another
\* setup behind.
CodesOfTheSecretOnce ==
  /\ account.codes \cap used = {}
  /\ account.enabled => account.codes \subseteq CodesOf(account.secret)
=============================================================================
