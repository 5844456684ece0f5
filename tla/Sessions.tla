------------------------------ MODULE Sessions ------------------------------
(***************************************************************************)
(* The sign-in sessions of one account: AuthService (login, refresh,       *)
(* logout, logout_all, revoke_session, change_password), the session part  *)
(* of SSOService, and RefreshTokenRepository.                              *)
(*                                                                         *)
(* A session is a row of refresh_tokens; its id stands for the refresh     *)
(* token and for every access token that carries it as sid.  The requests  *)
(* that mint a session read first (the password, or the token presented)   *)
(* and write when they commit, and other requests commit in between.  The  *)
(* other operations end the sessions they find and are one step: a session *)
(* that is minted while they run is minted on what was read before.        *)
(***************************************************************************)
EXTENDS Naturals, FiniteSets

CONSTANTS Requests, MaxSessions, MaxPasswords

VARIABLES
  session,   \* refresh_tokens by id
  password,  \* the password of the account, by its number
  request,   \* what a login or a refresh in flight has read
  closed     \* history: the logins that have been ended

vars == <<session, password, request, closed>>

Ids == 1..MaxSessions
None == 0
States == {"free", "live", "ended"}

\* root, proof and escaped are history: the login the session comes from, the
\* password that login was proven with, and whether the session was minted on
\* what had been revoked or changed since it was read.
Rows == [state : States, from : Ids \cup {None}, root : Ids \cup {None},
         proof : Nat, escaped : BOOLEAN]
Free == [state |-> "free", from |-> None, root |-> None, proof |-> 0, escaped |-> FALSE]
Reads == [kind : {"login", "refresh"}, token : Ids \cup {None}, proof : Nat]
Idle == [kind |-> "idle"]

TypeOK ==
  /\ session \in [Ids -> Rows]
  /\ password \in Nat
  /\ request \in [Requests -> Reads \cup {Idle}]
  /\ closed \subseteq Ids

Init ==
  /\ session = [s \in Ids |-> Free]
  /\ password = 1
  /\ request = [r \in Requests |-> Idle]
  /\ closed = {}

Live == {s \in Ids : session[s].state = "live"}

\* get_current_user: the access token's session is neither revoked nor expired.
SignedIn == Live # {}

-----------------------------------------------------------------------------
(* Requests that mint a session.                                           *)

\* login() up to the new row: the password has been verified.  A callback of
\* SSO mints a session in the same way.
LoginRead(r) ==
  /\ request[r] = Idle
  /\ request' = [request EXCEPT ![r] =
                   [kind |-> "login", token |-> None, proof |-> password]]
  /\ UNCHANGED <<session, password, closed>>

\* refresh() up to revoke(): get_active_by_token has found the row.
RefreshRead(r) ==
  /\ request[r] = Idle
  /\ \E s \in Live :
       request' = [request EXCEPT ![r] =
                     [kind |-> "refresh", token |-> s, proof |-> password]]
  /\ UNCHANGED <<session, password, closed>>

\* The row of _create_refresh_session, under the first id that is free.
FirstFree(s) ==
  /\ session[s].state = "free"
  /\ \A q \in Ids : q < s => session[q].state # "free"

LoginCommit(r) ==
  /\ request[r].kind = "login"
  /\ \E s \in Ids :
       /\ FirstFree(s)
       /\ session' = [session EXCEPT ![s] =
            [state |-> "live", from |-> None, root |-> s, proof |-> request[r].proof,
             escaped |-> request[r].proof # password]]
  /\ request' = [request EXCEPT ![r] = Idle]
  /\ UNCHANGED <<password, closed>>

\* The rotated row is revoked although it may have been revoked since it was
\* read: the object in memory still says it is active.
Revoked(s) == [session EXCEPT ![s].state = "ended"]
\* Mutant: the token that was presented stays good.
NotRevoked(s) == session
Rotated(s) == Revoked(s)

RefreshCommit(r) ==
  /\ request[r].kind = "refresh"
  /\ LET s == request[r].token IN
       \E n \in Ids :
         /\ FirstFree(n)
         /\ session' = [Rotated(s) EXCEPT ![n] =
              [state |-> "live", from |-> s, root |-> session[s].root,
               proof |-> session[s].proof,
               escaped |-> session[s].escaped \/ session[s].state # "live"]]
  /\ request' = [request EXCEPT ![r] = Idle]
  /\ UNCHANGED <<password, closed>>

-----------------------------------------------------------------------------
(* Requests that end sessions.                                             *)

Ended(S) ==
  [s \in Ids |-> IF s \in S \cap Live THEN [session[s] EXCEPT !.state = "ended"]
                 ELSE session[s]]

\* The logins that no session is meant to be left of.
Closing(S) == {session[s].root : s \in {q \in S \cap Live : ~session[q].escaped}}

End(S) ==
  /\ session' = Ended(S)
  /\ closed' = closed \cup Closing(S)

\* logout(): the token of the cookie, or everything when that is not active.
LogoutVictims(token) == IF token \in Live THEN {token} ELSE Live

Logout ==
  /\ SignedIn
  /\ \E token \in Ids \cup {None} : End(LogoutVictims(token))
  /\ UNCHANGED <<password, request>>

LogoutAll ==
  /\ SignedIn
  /\ End(Live)
  /\ UNCHANGED <<password, request>>

RevokeSession ==
  /\ SignedIn
  /\ \E s \in Ids :
       /\ session[s].state # "free"
       /\ End({s})
  /\ UNCHANGED <<password, request>>

\* change_password(): every session but the one whose token the cookie holds.
\* That one is proven with the new password from here on.
PasswordVictims(token) == Live \ {token}

ChangePassword ==
  /\ SignedIn
  /\ password < MaxPasswords
  /\ password' = password + 1
  /\ \E token \in Ids \cup {None} :
       LET kept == {token} \cap Live
           left == Ended(PasswordVictims(token))
       IN /\ session' = [s \in Ids |-> IF s \in kept
                           THEN [left[s] EXCEPT !.proof = password + 1] ELSE left[s]]
          /\ closed' = closed \cup (Closing(PasswordVictims(token))
                                    \ {session[s].root : s \in kept})
  /\ UNCHANGED request

\* expires_at passes.
Expire ==
  /\ \E s \in Live : End({s})
  /\ UNCHANGED <<password, request>>

Next ==
  \/ \E r \in Requests : LoginRead(r) \/ LoginCommit(r) \/ RefreshRead(r) \/ RefreshCommit(r)
  \/ Logout \/ LogoutAll \/ RevokeSession \/ ChangePassword \/ Expire

Spec == Init /\ [][Next]_vars

-----------------------------------------------------------------------------
Regular == {s \in Live : ~session[s].escaped}

\* A login has one live session at a time.
OneSessionPerLogin ==
  \A s, t \in Regular : session[s].root = session[t].root => s = t

\* A login that was ended has none, and one whose password was changed has
\* none.
EndedMeansEnded ==
  \A s \in Regular : session[s].root \notin closed /\ session[s].proof = password

\* What logout, logout everywhere, revocation, expiry and a change of password
\* end stays ended, and rotation leaves one live token of a login, whatever
\* overlaps: the only sessions that get away are those minted by a login or a
\* refresh that had read its password or its token before it was changed or
\* revoked, and the sessions rotated from those.
OnlyOverlapsEscape == OneSessionPerLogin /\ EndedMeansEnded
=============================================================================
