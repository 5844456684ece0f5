------------------------------ MODULE Identity ------------------------------
(***************************************************************************)
(* Membership next to Sessions, TwoFactor, SupportSessions and AiGates.    *)
(* The five share no state, so that their product would only repeat each   *)
(* of them: in every behaviour one of them moves and the others stand in   *)
(* an initial state.                                                       *)
(***************************************************************************)
EXTENDS Membership, Sequences, TLC

CONSTANTS
  MaxSessions, MaxPasswords,
  MaxSetups, CodesPerSetup,
  PlatformAdmins, Tenants, MaxSupport,
  Calls, Questions, Injections, NoQuestion,
  Minute, Hour, BanTime, PerMinute, PerHour, SameQuestion

VARIABLES
  part,
  session, password, signingIn, closed,
  account, setups, used,
  support, visiting, acted,
  minute, hour, asked, ban, call, accepted, sinceBan

sessionVars == <<session, password, signingIn, closed>>
factorVars == <<account, setups, used>>
supportVars == <<support, visiting, acted>>
aiVars == <<minute, hour, asked, ban, call, accepted, sinceBan>>
allVars == <<part, sessionVars, factorVars, vars, supportVars, aiVars>>

Account == INSTANCE Sessions WITH request <- signingIn
Factor == INSTANCE TwoFactor
Support == INSTANCE SupportSessions
  WITH Admins <- PlatformAdmins, MaxSessions <- MaxSupport,
       sessions <- support, request <- visiting
Gate == INSTANCE AiGates

ConstantsFit == ConstantsOK /\ Gate!ConstantsOK /\ MaxSetups \in Nat
ASSUME ConstantsAssumption == ConstantsFit

Start ==
  /\ part \in {"sessions", "factor", "members", "support", "assistant"}
  /\ Account!Init /\ Factor!Init /\ Init /\ Support!Init /\ Gate!Init

Step ==
  \/ /\ part = "sessions" /\ Account!Next
     /\ UNCHANGED <<part, factorVars, vars, supportVars, aiVars>>
  \/ /\ part = "factor" /\ Factor!Next
     /\ UNCHANGED <<part, sessionVars, vars, supportVars, aiVars>>
  \/ /\ part = "members" /\ Next
     /\ UNCHANGED <<part, sessionVars, factorVars, supportVars, aiVars>>
  \/ /\ part = "support" /\ Support!Next
     /\ UNCHANGED <<part, sessionVars, factorVars, vars, aiVars>>
  \/ /\ part = "assistant" /\ Gate!Next
     /\ UNCHANGED <<part, sessionVars, factorVars, vars, supportVars>>

Composition == Start /\ [][Step]_allVars

-----------------------------------------------------------------------------
\* The types of the five modules: no operation leaves a malformed row, counter or
\* bucket.
TypesOK ==
  CASE part = "sessions" -> Account!TypeOK
    [] part = "factor" -> Factor!TypeOK
    [] part = "members" -> TypeOK
    [] part = "support" -> Support!TypeOK
    [] part = "assistant" -> Gate!TypeOK

\* Each property is looked at where its module moves; the modules comment on them.
\* Those of Membership are checked as they stand.
\* Sign-in sessions: only what overlaps a revocation escapes it.
OnlyOverlapsEscape == part = "sessions" => Account!OnlyOverlapsEscape

\* Backup codes are those of the secret in use and work once.
CodesOfTheSecretOnce == part = "factor" => Factor!CodesOfTheSecretOnce

\* A platform admin supports one tenant at a time.
SupportPinned == part = "support" => Support!SupportPinned

\* The assistant admits no more than its windows allow, and nothing during a ban.
WithinLimits == part = "assistant" => Gate!WithinLimits

\* For TLC: requests are alike, and so are the users who did not found the organization.
Symmetry == Permutations(Requests) \cup Permutations(Users \ {Founder})
=============================================================================
