---------------------------- MODULE Identity_proofs ----------------------------
(***************************************************************************)
(* Theorems about Identity, for any number of users, requests, sessions,   *)
(* setups, support sessions, calls and questions, and for every limit.     *)
(*                                                                         *)
(* The five modules share no state: an invariant of each is shown to be    *)
(* inductive under its own steps, and a step of one leaves the others      *)
(* alone.                                                                  *)
(***************************************************************************)
EXTENDS Identity, FiniteSetTheorems, SequenceTheorems, TLAPS

\* The modules of the instances count the elements of a set alike.
LEMMA CardinalityOfGate == \A S : Gate!Cardinality(S) = Cardinality(S)
BY DEF Gate!Cardinality, Cardinality

LEMMA CardinalityOfSupport == \A S : Support!Cardinality(S) = Cardinality(S)
BY DEF Support!Cardinality, Cardinality

-----------------------------------------------------------------------------
(***************************************************************************)
(* Sign-in sessions.  The property is inductive once every session is known*)
(* to come from a login that has taken its id (RootsTaken), as has every   *)
(* login that was ended (ClosedTaken), and a refresh in flight to hold a   *)
(* session (TokensTaken): a login under a free id is then a new one.       *)
(***************************************************************************)
Taken(s) == s \in Account!Ids /\ session[s].state # "free"

\* A login's id is taken as long as one of its sessions is, ...
RootsTaken == \A s \in Account!Ids : Taken(s) => Taken(session[s].root)

\* ... a login that was ended has taken its id, ...
ClosedTaken == \A s \in closed : Taken(s)

\* ... and a refresh in flight has read a session.
TokensTaken ==
  \A r \in Requests : signingIn[r].kind = "refresh" => Taken(signingIn[r].token)

SessionsInv ==
  /\ Account!TypeOK /\ RootsTaken /\ ClosedTaken /\ TokensTaken
  /\ Account!OnlyOverlapsEscape

LEMMA SessionsInit == Account!Init => SessionsInv
<1> SUFFICES ASSUME Account!Init PROVE SessionsInv
  OBVIOUS
<1>1. Account!Free \in Account!Rows
  BY DEF Account!Free, Account!Rows, Account!States
<1>2. Account!TypeOK
  BY <1>1 DEF Account!Init, Account!TypeOK
<1>3. RootsTaken /\ ClosedTaken /\ TokensTaken
  BY DEF Account!Init, RootsTaken, ClosedTaken, TokensTaken, Taken, Account!Free,
         Account!Idle
<1>4. Account!Regular = {}
  BY DEF Account!Init, Account!Regular, Account!Live, Account!Free
<1>5. Account!OnlyOverlapsEscape
  BY <1>4
  DEF Account!OnlyOverlapsEscape, Account!OneSessionPerLogin, Account!EndedMeansEnded
<1> QED
  BY <1>2, <1>3, <1>5 DEF SessionsInv

-----------------------------------------------------------------------------
(* Requests that only read.                                                *)

LEMMA SessionReadKeeps ==
  ASSUME SessionsInv, NEW r \in Requests,
         NEW next \in Account!Reads \cup {Account!Idle},
         signingIn' = [signingIn EXCEPT ![r] = next],
         next.kind = "refresh" => Taken(next.token),
         UNCHANGED <<session, password, closed>>
  PROVE  SessionsInv'
<1>1. Account!TypeOK'
  BY DEF SessionsInv, Account!TypeOK
<1>2. RootsTaken' /\ ClosedTaken'
  BY DEF SessionsInv, RootsTaken, ClosedTaken, Taken
<1>3. TokensTaken'
  BY DEF SessionsInv, Account!TypeOK, TokensTaken, Taken
<1>4. Account!OnlyOverlapsEscape'
  BY DEF SessionsInv, Account!OnlyOverlapsEscape, Account!OneSessionPerLogin,
         Account!EndedMeansEnded, Account!Regular, Account!Live
<1> QED
  BY <1>1, <1>2, <1>3, <1>4 DEF SessionsInv

LEMMA LoginReadKeeps ==
  ASSUME SessionsInv, NEW r \in Requests, Account!LoginRead(r)
  PROVE  SessionsInv'
<1> DEFINE next == [kind |-> "login", token |-> Account!None, proof |-> password]
<1>1. next \in Account!Reads
  BY DEF SessionsInv, Account!TypeOK, Account!Reads
<1>2. signingIn' = [signingIn EXCEPT ![r] = next]
      /\ UNCHANGED <<session, password, closed>>
  BY DEF Account!LoginRead
<1>3. next.kind # "refresh"
  OBVIOUS
<1> HIDE DEF next
<1> QED
  BY <1>1, <1>2, <1>3, SessionReadKeeps

LEMMA RefreshReadKeeps ==
  ASSUME SessionsInv, NEW r \in Requests, Account!RefreshRead(r)
  PROVE  SessionsInv'
<1>1. PICK s \in Account!Live :
        signingIn' = [signingIn EXCEPT ![r] =
                      [kind |-> "refresh", token |-> s, proof |-> password]]
  BY DEF Account!RefreshRead
<1> DEFINE next == [kind |-> "refresh", token |-> s, proof |-> password]
<1>2. next \in Account!Reads
  BY DEF SessionsInv, Account!TypeOK, Account!Reads, Account!Live
<1>3. Taken(next.token)
  BY DEF Account!Live, Taken
<1>4. signingIn' = [signingIn EXCEPT ![r] = next]
      /\ UNCHANGED <<session, password, closed>>
  BY <1>1 DEF Account!RefreshRead
<1> HIDE DEF next
<1> QED
  BY <1>2, <1>3, <1>4, SessionReadKeeps

-----------------------------------------------------------------------------
(* Requests that mint a session: a free id becomes live, every other row   *)
(* keeps its root and stays taken if it was.                               *)

LEMMA MintKeeps ==
  ASSUME SessionsInv, NEW r \in Requests, NEW n \in Account!Ids, ~Taken(n),
         NEW row \in Account!Rows, row.state = "live",
         row.root = n \/ Taken(row.root),
         session' \in [Account!Ids -> Account!Rows], session'[n] = row,
         \A s \in Account!Ids \ {n} :
            /\ session'[s].root = session[s].root
            /\ session'[s].state = "free" <=> session[s].state = "free",
         signingIn' = [signingIn EXCEPT ![r] = Account!Idle], UNCHANGED <<password,
         closed>>
  PROVE  /\ Account!TypeOK' /\ RootsTaken' /\ ClosedTaken' /\ TokensTaken'
<1>1. Account!TypeOK'
  BY DEF SessionsInv, Account!TypeOK
<1>2. \A s : Taken(s) => s # n /\ Taken(s)' /\ session'[s].root = session[s].root
  BY DEF Taken
<1>3. Taken(n)'
  BY DEF Taken
<1>4. \A s \in Account!Ids : Taken(s)' => s = n \/ Taken(s)
  BY DEF Taken
<1>5. RootsTaken'
  <2> SUFFICES ASSUME NEW s \in Account!Ids, Taken(s)'
               PROVE  Taken(session[s].root)'
    BY DEF RootsTaken
  <2>1. CASE s = n
    BY <2>1, <1>2, <1>3 DEF Taken
  <2>2. CASE s # n
    <3>1. Taken(session[s].root) /\ session'[s].root = session[s].root
      BY <2>2, <1>2, <1>4 DEF SessionsInv, RootsTaken
    <3> QED
      BY <3>1, <1>2 DEF Taken
  <2> QED
    BY <2>1, <2>2
<1>6. ClosedTaken'
  BY <1>2 DEF SessionsInv, ClosedTaken
<1>7. TokensTaken'
  <2> SUFFICES ASSUME NEW q \in Requests, signingIn'[q].kind = "refresh"
               PROVE  Taken(signingIn[q].token)'
    BY DEF TokensTaken
  <2>1. q # r /\ signingIn'[q] = signingIn[q]
    BY DEF SessionsInv, Account!TypeOK, Account!Idle
  <2>2. Taken(signingIn[q].token)
    BY <2>1 DEF SessionsInv, TokensTaken
  <2> QED
    BY <2>1, <2>2, <1>2 DEF Taken
<1> QED
  BY <1>1, <1>5, <1>6, <1>7

LEMMA LoginCommitKeeps ==
  ASSUME SessionsInv, NEW r \in Requests, Account!LoginCommit(r)
  PROVE  SessionsInv'
<1>1. PICK n \in Account!Ids :
        /\ Account!FirstFree(n)
        /\ session' = [session EXCEPT ![n] =
             [state |-> "live", from |-> Account!None, root |-> n, proof |-> signingIn[r].proof,
              escaped |-> signingIn[r].proof # password]]
  BY DEF Account!LoginCommit
<1> DEFINE row == [state |-> "live", from |-> Account!None, root |-> n,
                   proof |-> signingIn[r].proof,
                   escaped |-> signingIn[r].proof # password]
<1>2. signingIn[r] \in Account!Reads
  BY DEF Account!LoginCommit, SessionsInv, Account!TypeOK, Account!Idle
<1>3. row \in Account!Rows /\ row.state = "live" /\ row.root = n
      /\ (~row.escaped => row.proof = password)
  BY <1>2 DEF Account!Rows, Account!Reads, Account!States
<1>4. ~Taken(n)
  BY <1>1 DEF Account!FirstFree, Taken
<1>5. session' = [session EXCEPT ![n] = row]
  BY <1>1
<1>6. signingIn' = [signingIn EXCEPT ![r] = Account!Idle]
      /\ UNCHANGED <<password, closed>>
  BY DEF Account!LoginCommit
<1> HIDE DEF row
<1>7. /\ session' \in [Account!Ids -> Account!Rows] /\ session'[n] = row
      /\ \A s \in Account!Ids \ {n} : session'[s] = session[s]
  BY <1>3, <1>5 DEF SessionsInv, Account!TypeOK
<1>8. Account!TypeOK' /\ RootsTaken' /\ ClosedTaken' /\ TokensTaken'
  <2>1. \A s \in Account!Ids \ {n} : /\ session'[s].root = session[s].root
                                     /\ session'[s].state = "free" <=> session[s].state = "free"
    BY <1>7
  <2> QED
    BY <1>3, <1>4, <1>6, <1>7, <2>1, MintKeeps
<1>9. \A s \in Account!Regular' : s = n \/ s \in Account!Regular
  BY <1>7 DEF Account!Regular, Account!Live
<1>10. \A s \in Account!Regular : s # n /\ session[s].root # n
       /\ session'[s] = session[s]
  BY <1>4, <1>7 DEF SessionsInv, RootsTaken, Account!Regular, Account!Live, Taken
<1>11. n \notin closed
  BY <1>4 DEF SessionsInv, ClosedTaken
<1>12. Account!OneSessionPerLogin'
  BY <1>3, <1>7, <1>9, <1>10
  DEF SessionsInv, Account!OnlyOverlapsEscape, Account!OneSessionPerLogin
<1>13. n \in Account!Regular' => ~row.escaped
  BY <1>7 DEF Account!Regular
<1>14. Account!EndedMeansEnded'
  BY <1>3, <1>6, <1>7, <1>9, <1>10, <1>11, <1>13
  DEF SessionsInv, Account!OnlyOverlapsEscape, Account!EndedMeansEnded
<1> QED
  BY <1>8, <1>12, <1>14 DEF SessionsInv, Account!OnlyOverlapsEscape

LEMMA RefreshCommitKeeps ==
  ASSUME SessionsInv, NEW r \in Requests, Account!RefreshCommit(r)
  PROVE  SessionsInv'
<1> DEFINE s == signingIn[r].token
           old == [session[s] EXCEPT !.state = "ended"]
           row == [state |-> "live", from |-> s, root |-> session[s].root,
                   proof |-> session[s].proof,
                   escaped |-> session[s].escaped \/ session[s].state # "live"]
<1>1. PICK n \in Account!Ids : Account!FirstFree(n)
      /\ session' = [Account!Rotated(s) EXCEPT ![n] = row]
  BY DEF Account!RefreshCommit
<1>2. Taken(s) /\ Taken(session[s].root) /\ session[s] \in Account!Rows
  BY DEF Account!RefreshCommit, SessionsInv, Account!TypeOK, TokensTaken, RootsTaken,
         Taken
<1>3. ~Taken(n) /\ s # n
  BY <1>1, <1>2 DEF Account!FirstFree, Taken
<1>4. old \in Account!Rows /\ old.state = "ended" /\ old.root = session[s].root
  BY <1>2 DEF Account!Rows, Account!States
<1>5. row \in Account!Rows /\ row.state = "live" /\ row.root = session[s].root
      /\ row.proof = session[s].proof
      /\ (~row.escaped => ~session[s].escaped /\ session[s].state = "live")
  <2>1. (session[s].escaped \/ session[s].state # "live") \in BOOLEAN
    OBVIOUS
  <2>2. /\ session[s].root \in Account!Ids /\ session[s].proof \in Nat
        /\ "live" \in Account!States /\ s \in Account!Ids
    BY <1>2 DEF Account!Rows, Account!States, Taken
  <2>3. row \in Account!Rows
    BY <2>1, <2>2 DEF Account!Rows
  <2> QED
    BY <2>3
<1>6. session' = [[session EXCEPT ![s] = old] EXCEPT ![n] = row]
  <2>1. Account!Rotated(s) = [session EXCEPT ![s] = old]
    BY DEF Account!Rotated, Account!Revoked
  <2> QED
    BY <1>1, <2>1
<1>7. signingIn' = [signingIn EXCEPT ![r] = Account!Idle]
      /\ UNCHANGED <<password, closed>>
  BY DEF Account!RefreshCommit
<1> HIDE DEF row, old, s
<1>8. /\ session' \in [Account!Ids -> Account!Rows] /\ session'[n] = row
           /\ session'[s] = old
      /\ \A t \in Account!Ids \ {n, s} : session'[t] = session[t]
  BY <1>2, <1>3, <1>4, <1>5, <1>6 DEF SessionsInv, Account!TypeOK, Taken
<1>9. Account!TypeOK' /\ RootsTaken' /\ ClosedTaken' /\ TokensTaken'
  <2>1. \A t \in Account!Ids \ {n} : /\ session'[t].root = session[t].root
                                     /\ session'[t].state = "free" <=> session[t].state = "free"
    BY <1>2, <1>4, <1>8 DEF Taken
  <2> QED
    BY <1>2, <1>3, <1>5, <1>7, <1>8, <2>1, MintKeeps
<1>10. \A t \in Account!Regular' : t # s /\ (t = n \/ t \in Account!Regular)
  BY <1>3, <1>4, <1>8 DEF Account!Regular, Account!Live
<1>11. \A t \in Account!Regular : t # s => session'[t] = session[t]
  BY <1>3, <1>8 DEF Account!Regular, Account!Live, Taken
<1>12. n \in Account!Regular' => s \in Account!Regular
  BY <1>2, <1>5, <1>8 DEF Account!Regular, Account!Live, Taken
<1>13. Account!OneSessionPerLogin'
  BY <1>5, <1>8, <1>10, <1>11, <1>12
  DEF SessionsInv, Account!OnlyOverlapsEscape, Account!OneSessionPerLogin
<1>14. Account!EndedMeansEnded'
  BY <1>5, <1>7, <1>8, <1>10, <1>11, <1>12
  DEF SessionsInv, Account!OnlyOverlapsEscape, Account!EndedMeansEnded
<1> QED
  BY <1>9, <1>13, <1>14 DEF SessionsInv, Account!OnlyOverlapsEscape

-----------------------------------------------------------------------------
(* Requests that end sessions: no row becomes free or taken, or changes    *)
(* its root.                                                               *)

LEMMA EndingKeeps ==
  ASSUME SessionsInv, session' \in [Account!Ids -> Account!Rows],
         \A s \in Account!Ids : /\ session'[s].root = session[s].root
                                /\ session'[s].state = "free" <=> session[s].state = "free",
         closed' \subseteq closed \cup {session[s].root : s \in Account!Live},
         password' \in Nat, UNCHANGED signingIn
  PROVE  Account!TypeOK' /\ RootsTaken' /\ ClosedTaken' /\ TokensTaken'
<1>1. \A s : Taken(s)' <=> Taken(s)
  BY DEF Taken
<1>2. \A s \in Account!Live : Taken(session[s].root)
  BY DEF SessionsInv, RootsTaken, Account!Live, Taken
<1>3. \A s \in closed' : Taken(s)
  BY <1>2 DEF SessionsInv, ClosedTaken
<1>4. Account!TypeOK'
  BY <1>3 DEF SessionsInv, Account!TypeOK, Taken
<1>5. RootsTaken'
  <2> SUFFICES ASSUME NEW s \in Account!Ids, Taken(s)'
               PROVE  Taken(session[s].root)'
    BY DEF RootsTaken
  <2>1. Taken(session[s].root) /\ session'[s].root = session[s].root
    BY <1>1 DEF SessionsInv, RootsTaken
  <2> QED
    BY <2>1 DEF Taken
<1>6. ClosedTaken'
  BY <1>1, <1>3 DEF ClosedTaken
<1>7. TokensTaken'
  BY <1>1 DEF SessionsInv, TokensTaken, Taken
<1> QED
  BY <1>4, <1>5, <1>6, <1>7

LEMMA EndedRows ==
  ASSUME SessionsInv, NEW S
  PROVE  /\ Account!Ended(S) \in [Account!Ids -> Account!Rows]
         /\ \A s \in Account!Ids : /\ Account!Ended(S)[s].root = session[s].root
                                   /\ Account!Ended(S)[s].state = "free" <=> session[s].state = "free"
                                   /\ s \in S \cap Account!Live
                                        => Account!Ended(S)[s].state = "ended"
                                   /\ s \notin S \cap Account!Live
                                        => Account!Ended(S)[s] = session[s]
         /\ Account!Closing(S) \subseteq {session[s].root : s \in Account!Live}
<1>1. ASSUME NEW s \in Account!Ids
      PROVE  /\ Account!Ended(S)[s] \in Account!Rows
             /\ Account!Ended(S)[s].root = session[s].root
             /\ Account!Ended(S)[s].state = "free" <=> session[s].state = "free"
             /\ s \in S \cap Account!Live => Account!Ended(S)[s].state = "ended"
             /\ s \notin S \cap Account!Live => Account!Ended(S)[s] = session[s]
  <2>1. session[s] \in Account!Rows
    BY DEF SessionsInv, Account!TypeOK
  <2>2. CASE s \in S \cap Account!Live
    <3>1. Account!Ended(S)[s] = [session[s] EXCEPT !.state = "ended"]
          /\ session[s].state = "live"
      BY <2>2 DEF Account!Ended, Account!Live
    <3>2. /\ [session[s] EXCEPT !.state = "ended"] \in Account!Rows
          /\ [session[s] EXCEPT !.state = "ended"].state = "ended"
          /\ [session[s] EXCEPT !.state = "ended"].root = session[s].root
      BY <2>1 DEF Account!Rows, Account!States
    <3> QED
      BY <2>2, <3>1, <3>2
  <2>3. CASE s \notin S \cap Account!Live
    BY <2>1, <2>3 DEF Account!Ended
  <2> QED
    BY <2>2, <2>3
<1>2. Account!Ended(S) = [s \in Account!Ids |-> Account!Ended(S)[s]]
  BY DEF Account!Ended
<1>3. Account!Closing(S) \subseteq {session[s].root : s \in Account!Live}
  BY DEF Account!Closing
<1> QED
  BY <1>1, <1>2, <1>3

LEMMA EndSessionsKeeps ==
  ASSUME SessionsInv, NEW S, Account!End(S), UNCHANGED <<password, signingIn>>
  PROVE  SessionsInv'
<1>1. session' = Account!Ended(S) /\ closed' = closed \cup Account!Closing(S)
  BY DEF Account!End
<1>2. Account!TypeOK' /\ RootsTaken' /\ ClosedTaken' /\ TokensTaken'
  <2>1. password' \in Nat
    BY DEF SessionsInv, Account!TypeOK
  <2> QED
    BY <1>1, <2>1, EndedRows, EndingKeeps
<1>3. \A s \in Account!Regular' : s \in Account!Regular /\ s \notin S
      /\ session'[s] = session[s]
  BY <1>1, EndedRows DEF Account!Regular, Account!Live
<1>4. \A s \in Account!Regular' : session[s].root \notin Account!Closing(S)
  <2> SUFFICES ASSUME NEW s \in Account!Regular', session[s].root \in Account!Closing(S)
               PROVE  FALSE
    OBVIOUS
  <2>1. PICK q \in S \cap Account!Live : ~session[q].escaped
        /\ session[q].root = session[s].root
    BY DEF Account!Closing
  <2>2. q \in Account!Regular
    BY <2>1 DEF Account!Regular
  <2>3. q = s
    BY <1>3, <2>1, <2>2
    DEF SessionsInv, Account!OnlyOverlapsEscape, Account!OneSessionPerLogin
  <2> QED
    BY <1>3, <2>1, <2>3
<1>5. Account!OneSessionPerLogin'
  BY <1>3 DEF SessionsInv, Account!OnlyOverlapsEscape, Account!OneSessionPerLogin
<1>6. Account!EndedMeansEnded'
  BY <1>1, <1>3, <1>4
  DEF SessionsInv, Account!OnlyOverlapsEscape, Account!EndedMeansEnded
<1> QED
  BY <1>2, <1>5, <1>6 DEF SessionsInv, Account!OnlyOverlapsEscape

LEMMA ChangePasswordKeeps ==
  ASSUME SessionsInv, Account!ChangePassword
  PROVE  SessionsInv'
<1>1. PICK token \in Account!Ids \cup {Account!None} :
        LET kept == {token} \cap Account!Live
            left == Account!Ended(Account!PasswordVictims(token))
        IN /\ session' = [s \in Account!Ids |-> IF s \in kept
                            THEN [left[s] EXCEPT !.proof = password + 1] ELSE left[s]]
           /\ closed' = closed \cup (Account!Closing(Account!PasswordVictims(token))
                                     \ {session[s].root : s \in kept})
  BY DEF Account!ChangePassword
<1> DEFINE S == Account!Live \ {token}
           left == Account!Ended(S)
<1>2. /\ password' = password + 1 /\ password' \in Nat /\ UNCHANGED signingIn
  BY DEF Account!ChangePassword, SessionsInv, Account!TypeOK
<1>3. /\ session' = [s \in Account!Ids |-> IF s \in {token} \cap Account!Live
                       THEN [left[s] EXCEPT !.proof = password'] ELSE left[s]]
      /\ closed' = closed
           \cup (Account!Closing(S) \ {session[s].root : s \in {token} \cap Account!Live})
  BY <1>1, <1>2 DEF Account!PasswordVictims
<1> HIDE DEF left
<1>4. /\ left \in [Account!Ids -> Account!Rows]
      /\ \A s \in Account!Ids : /\ left[s].root = session[s].root
                                /\ left[s].state = "free" <=> session[s].state = "free"
                                /\ s \in S => left[s].state = "ended"
                                /\ s \notin S => left[s] = session[s]
      /\ Account!Closing(S) \subseteq {session[s].root : s \in Account!Live}
  BY EndedRows DEF left
<1>5. ASSUME NEW s \in Account!Ids
      PROVE  /\ session'[s] \in Account!Rows
             /\ session'[s].root = session[s].root
             /\ session'[s].state = left[s].state
             /\ s \in {token} \cap Account!Live => session'[s].proof = password'
  <2>1. left[s] \in Account!Rows
    BY <1>4
  <2>2. [left[s] EXCEPT !.proof = password'] \in Account!Rows
    BY <1>2, <2>1 DEF Account!Rows
  <2>3. /\ [left[s] EXCEPT !.proof = password'].root = left[s].root
        /\ [left[s] EXCEPT !.proof = password'].state = left[s].state
        /\ [left[s] EXCEPT !.proof = password'].proof = password'
    BY <2>1 DEF Account!Rows
  <2> QED
    BY <1>3, <1>4, <2>1, <2>2, <2>3
<1>6. session' \in [Account!Ids -> Account!Rows]
  BY <1>3, <1>5
<1>7. Account!TypeOK' /\ RootsTaken' /\ ClosedTaken' /\ TokensTaken'
  <2>1. \A s \in Account!Ids : /\ session'[s].root = session[s].root
                               /\ session'[s].state = "free" <=> session[s].state = "free"
    BY <1>4, <1>5
  <2>2. closed' \subseteq closed \cup {session[s].root : s \in Account!Live}
    BY <1>3, <1>4
  <2> QED
    BY <1>2, <1>6, <2>1, <2>2, EndingKeeps
<1>8. \A s \in Account!Regular' : s = token /\ s \in Account!Live
  <2> SUFFICES ASSUME NEW s \in Account!Ids, session'[s].state = "live"
               PROVE  s = token /\ s \in Account!Live
    BY DEF Account!Regular, Account!Live
  <2>1. left[s].state = "live" /\ s \notin S
    BY <1>4, <1>5
  <2>2. left[s] = session[s]
    BY <1>4, <2>1
  <2> QED
    BY <2>1, <2>2 DEF Account!Live
<1>9. \A s \in Account!Regular' : /\ s \in Account!Ids /\ session'[s].proof = password'
                                  /\ session'[s].root = session[s].root
  BY <1>5, <1>8 DEF Account!Live
<1>10. \A s \in Account!Regular' : s \in Account!Regular
  <2> SUFFICES ASSUME NEW s \in Account!Regular' PROVE ~session[s].escaped
    BY <1>8 DEF Account!Regular
  <2>1. s \in Account!Ids /\ s \in {token} \cap Account!Live /\ ~session'[s].escaped
    BY <1>8, <1>9 DEF Account!Regular
  <2>2. left[s] = session[s] /\ left[s] \in Account!Rows
    BY <1>4, <2>1
  <2>3. session'[s] = [left[s] EXCEPT !.proof = password']
    BY <1>3, <2>1
  <2>4. session'[s].escaped = left[s].escaped
    BY <2>2, <2>3 DEF Account!Rows
  <2> QED
    BY <2>1, <2>2, <2>4
<1>11. Account!OneSessionPerLogin'
  BY <1>8 DEF Account!OneSessionPerLogin
<1>12. Account!EndedMeansEnded'
  <2> SUFFICES ASSUME NEW s \in Account!Regular'
               PROVE  session'[s].root \notin closed' /\ session'[s].proof = password'
    BY DEF Account!EndedMeansEnded
  <2>1. session[s].root \notin closed
    BY <1>10 DEF SessionsInv, Account!OnlyOverlapsEscape, Account!EndedMeansEnded
  <2>2. session[s].root \in {session[q].root : q \in {token} \cap Account!Live}
    BY <1>8
  <2> QED
    BY <1>3, <1>9, <2>1, <2>2
<1> QED
  BY <1>7, <1>11, <1>12 DEF SessionsInv, Account!OnlyOverlapsEscape

-----------------------------------------------------------------------------
LEMMA SessionsNext == SessionsInv /\ [Account!Next]_(Account!vars) => SessionsInv'
<1> SUFFICES ASSUME SessionsInv, [Account!Next]_(Account!vars) PROVE SessionsInv'
  OBVIOUS
<1>1. CASE UNCHANGED Account!vars
  <2>1. UNCHANGED <<session, password, signingIn, closed>>
    BY <1>1 DEF Account!vars
  <2>2. Account!TypeOK' /\ RootsTaken' /\ ClosedTaken' /\ TokensTaken'
    BY <2>1 DEF SessionsInv, Account!TypeOK, RootsTaken, ClosedTaken, TokensTaken, Taken
  <2>3. Account!OnlyOverlapsEscape'
    BY <2>1
    DEF SessionsInv, Account!OnlyOverlapsEscape, Account!OneSessionPerLogin,
        Account!EndedMeansEnded, Account!Regular, Account!Live
  <2> QED
    BY <2>2, <2>3 DEF SessionsInv
<1>2. ASSUME NEW r \in Requests,
             Account!LoginRead(r) \/ Account!LoginCommit(r) \/ Account!RefreshRead(r)
             \/ Account!RefreshCommit(r)
      PROVE  SessionsInv'
  BY <1>2, LoginReadKeeps, LoginCommitKeeps, RefreshReadKeeps, RefreshCommitKeeps
<1>3. CASE Account!Logout \/ Account!LogoutAll \/ Account!RevokeSession
      \/ Account!Expire
  BY <1>3, EndSessionsKeeps
  DEF Account!Logout, Account!LogoutAll, Account!RevokeSession, Account!Expire
<1> QED
  BY <1>1, <1>2, <1>3, ChangePasswordKeeps DEF Account!Next

-----------------------------------------------------------------------------
(***************************************************************************)
(* The second factor.  A setup must hand out codes nobody has used, and    *)
(* enabling must meet the codes of the pending secret: every code in use or*)
(* used belongs to a secret that has been handed out (HandedOut), and while*)
(* a secret is pending the codes are its own (PendingsOwn).                *)
(***************************************************************************)
HandedOut ==
  /\ \A c \in used \cup account.codes : c[1] <= setups
  /\ account.pending <= setups /\ account.secret <= setups

PendingsOwn ==
  ~account.enabled =>
    /\ account.pending = Factor!NoSecret => account.codes = {}
    /\ account.codes \subseteq Factor!CodesOf(account.pending)

FactorInv == Factor!TypeOK /\ HandedOut /\ PendingsOwn /\ Factor!CodesOfTheSecretOnce

LEMMA FactorInit ==
  ASSUME MaxSetups \in Nat, Factor!Init
  PROVE  FactorInv
BY DEF Factor!Init, FactorInv, Factor!TypeOK, HandedOut, PendingsOwn,
       Factor!CodesOfTheSecretOnce, Factor!Off, Factor!NoSecret

LEMMA SetupKeeps ==
  ASSUME MaxSetups \in Nat, FactorInv, Factor!Setup
  PROVE  FactorInv'
<1> DEFINE n == setups + 1
<1>1. n \in Factor!Secrets /\ setups \in Nat /\ setups' = n /\ used' = used
      /\ n # Factor!NoSecret
  BY DEF Factor!Setup, FactorInv, Factor!TypeOK, Factor!Secrets, Factor!NoSecret
<1>2. /\ account' = [account EXCEPT !.pending = n, !.codes = Factor!CodesOf(n)]
      /\ ~account.enabled
  BY DEF Factor!Setup, Factor!CanSetup, Factor!SetupAllowed
<1>3. Factor!CodesOf(n) \subseteq Factor!Code /\ \A c \in Factor!CodesOf(n) : c[1] = n
  BY DEF Factor!CodesOf
<1> HIDE DEF n
<1>4. /\ account'.enabled = account.enabled /\ account'.secret = account.secret
      /\ account'.pending = n /\ account'.codes = Factor!CodesOf(n)
  BY <1>2 DEF FactorInv, Factor!TypeOK
<1>5. Factor!TypeOK'
  <2>1. setups' \in 0..MaxSetups
    BY <1>1 DEF Factor!Secrets
  <2> QED
    BY <1>1, <1>2, <1>3, <2>1 DEF FactorInv, Factor!TypeOK
<1>6. n = setups + 1
  BY DEF n
<1>7. \A c \in used : c[1] \in Nat /\ c[1] <= setups
  BY DEF FactorInv, Factor!TypeOK, HandedOut, Factor!Code, Factor!Secrets
<1>8. HandedOut'
  <2>1. \A c \in used' \cup account'.codes : c[1] <= setups'
    BY <1>1, <1>3, <1>4, <1>6, <1>7
  <2>2. account'.pending <= setups' /\ account'.secret <= setups'
    BY <1>1, <1>4, <1>6
    DEF FactorInv, Factor!TypeOK, HandedOut, Factor!Secrets, Factor!NoSecret
  <2> QED
    BY <2>1, <2>2 DEF HandedOut
<1>9. PendingsOwn'
  BY <1>1, <1>4 DEF PendingsOwn, Factor!CodesOf, Factor!Code
<1>10. Factor!CodesOfTheSecretOnce'
  BY <1>1, <1>2, <1>3, <1>4, <1>6, <1>7 DEF Factor!CodesOfTheSecretOnce
<1> QED
  BY <1>5, <1>8, <1>9, <1>10 DEF FactorInv

LEMMA EnableKeeps ==
  ASSUME MaxSetups \in Nat, FactorInv, Factor!Enable
  PROVE  FactorInv'
<1>1. /\ account'.enabled /\ account'.secret = account.pending
           /\ account'.pending = Factor!NoSecret
      /\ account'.codes = account.codes /\ UNCHANGED <<setups, used>>
      /\ ~account.enabled /\ account.pending # Factor!NoSecret
  BY DEF Factor!Enable, FactorInv, Factor!TypeOK
<1>2. Factor!TypeOK'
  BY DEF Factor!Enable, FactorInv, Factor!TypeOK
<1>3. HandedOut'
  BY <1>1 DEF FactorInv, Factor!TypeOK, HandedOut, Factor!NoSecret
<1>4. PendingsOwn' /\ Factor!CodesOfTheSecretOnce'
  BY <1>1
  DEF FactorInv, PendingsOwn, Factor!CodesOfTheSecretOnce, Factor!CodesOf, Factor!Code
<1> QED
  BY <1>2, <1>3, <1>4 DEF FactorInv

LEMMA LoginWithCodeKeeps ==
  ASSUME MaxSetups \in Nat, FactorInv, Factor!LoginWithCode
  PROVE  FactorInv'
<1>1. PICK c \in account.codes :
        /\ account' = [account EXCEPT !.codes = account.codes \ {c}]
        /\ used' = used \cup {c}
  BY DEF Factor!LoginWithCode
<1>2. account.enabled /\ setups' = setups
  BY DEF Factor!LoginWithCode
<1>3. /\ account'.enabled = account.enabled /\ account'.secret = account.secret
      /\ account'.pending = account.pending /\ account'.codes = account.codes \ {c}
  BY <1>1 DEF FactorInv, Factor!TypeOK
<1>4. Factor!TypeOK'
  BY <1>1, <1>2 DEF FactorInv, Factor!TypeOK
<1>5. HandedOut'
  BY <1>1, <1>2, <1>3 DEF FactorInv, HandedOut
<1>6. PendingsOwn' /\ Factor!CodesOfTheSecretOnce'
  BY <1>1, <1>2, <1>3
  DEF FactorInv, PendingsOwn, Factor!CodesOfTheSecretOnce, Factor!CodesOf, Factor!Code
<1> QED
  BY <1>4, <1>5, <1>6 DEF FactorInv

LEMMA DisableKeeps ==
  ASSUME MaxSetups \in Nat, FactorInv, Factor!Disable
  PROVE  FactorInv'
<1>1. account' = Factor!Off /\ setups' = setups
      /\ used' \subseteq used \cup account.codes
  BY DEF Factor!Disable
<1>2. Factor!TypeOK'
  BY <1>1 DEF FactorInv, Factor!TypeOK, Factor!Off, Factor!NoSecret
<1>3. HandedOut'
  BY <1>1 DEF FactorInv, Factor!TypeOK, HandedOut, Factor!Off, Factor!NoSecret
<1>4. PendingsOwn' /\ Factor!CodesOfTheSecretOnce'
  BY <1>1
  DEF FactorInv, PendingsOwn, Factor!CodesOfTheSecretOnce, Factor!Off, Factor!NoSecret
<1> QED
  BY <1>2, <1>3, <1>4 DEF FactorInv

LEMMA FactorNext ==
  ASSUME MaxSetups \in Nat
  PROVE  FactorInv /\ [Factor!Next]_(Factor!vars) => FactorInv'
<1>1. ASSUME FactorInv, UNCHANGED Factor!vars PROVE FactorInv'
  BY <1>1
  DEF Factor!vars, FactorInv, Factor!TypeOK, HandedOut, PendingsOwn,
      Factor!CodesOfTheSecretOnce, Factor!CodesOf, Factor!Code
<1> QED
  BY <1>1, SetupKeeps, EnableKeeps, LoginWithCodeKeeps, DisableKeeps DEF Factor!Next

-----------------------------------------------------------------------------
(***************************************************************************)
(* Support sessions.  A start that has inserted its row is the only one of *)
(* its admin, and its admin has no session open (InsertedAlone); requests at*)
(* work and ends in flight hold sessions that exist, and work on their     *)
(* tenant (Held).                                                          *)
(***************************************************************************)
Opened(s) == s \in Support!Ids /\ support[s] \in Support!Row

OneActive == \A a \in PlatformAdmins : \A s, t \in Support!Active(a) : s = t

InsertedAlone ==
  \A r \in Requests : Support!IsStart(r, "inserted") =>
    /\ Support!Active(visiting[r].admin) = {}
    /\ \A q \in Requests \ {r} : Support!IsStart(q, "inserted")
         => visiting[q].admin # visiting[r].admin

Held ==
  /\ \A r \in Requests : visiting[r].kind = "end" => Opened(visiting[r].session)
  /\ \A r \in Requests : visiting[r].kind = "act" =>
       Opened(visiting[r].session)
       /\ support[visiting[r].session].tenant = visiting[r].tenant
  /\ \A x \in acted : Opened(x[1]) /\ support[x[1]].tenant = x[2]

SupportInv == Support!TypeOK /\ OneActive /\ InsertedAlone /\ Held

LEMMA SupportInit == Support!Init => SupportInv
<1> SUFFICES ASSUME Support!Init PROVE SupportInv
  OBVIOUS
<1>1. Support!TypeOK
  BY DEF Support!Init, Support!TypeOK
<1>2. OneActive
  BY DEF Support!Init, OneActive, Support!Active, Support!Free
<1>3. InsertedAlone /\ Held
  BY DEF Support!Init, InsertedAlone, Held, Support!IsStart, Support!Idle
<1> QED
  BY <1>1, <1>2, <1>3 DEF SupportInv

-----------------------------------------------------------------------------
(* Steps of one request that leave the sessions alone.                     *)

\* When the request does not start to hold an inserted row, the starts that do
\* are as before.
LEMMA SupportRequestMoves ==
  ASSUME SupportInv, NEW r \in Requests,
         NEW next \in Support!Starting \cup Support!Ending \cup Support!Acting
                       \cup {Support!Idle},
         visiting' = [visiting EXCEPT ![r] = next], UNCHANGED support,
         ~(next.kind = "start" /\ next.stage = "inserted"),
         next.kind = "end" => Opened(next.session),
         next.kind = "act" => Opened(next.session)
                              /\ support[next.session].tenant = next.tenant,
         \/ acted' = acted
         \/ /\ acted' = acted \cup {<<visiting[r].session, visiting[r].tenant>>}
            /\ visiting[r].kind = "act"
  PROVE  SupportInv'
<1>1. Support!TypeOK'
  <2>1. visiting[r].kind = "act"
        => <<visiting[r].session, visiting[r].tenant>> \in Support!Ids \X Tenants
    BY DEF SupportInv, Support!TypeOK, Support!Starting, Support!Ending, Support!Acting,
           Support!Idle
  <2> QED
    BY <2>1 DEF SupportInv, Support!TypeOK
<1>2. OneActive'
  BY DEF SupportInv, OneActive, Support!Active
<1>3. InsertedAlone'
  BY DEF SupportInv, InsertedAlone, Support!IsStart, Support!Active, Support!TypeOK
<1>4. Held'
  <2>1. \A s : Opened(s)' <=> Opened(s)
    BY DEF Opened
  <2>2. \A x \in acted' : Opened(x[1]) /\ support[x[1]].tenant = x[2]
    BY DEF SupportInv, Held
  <2> QED
    BY <2>1, <2>2 DEF SupportInv, Held, Support!TypeOK
<1> QED
  BY <1>1, <1>2, <1>3, <1>4 DEF SupportInv

LEMMA StartKeeps ==
  ASSUME SupportInv, NEW r \in Requests, Support!Start(r)
  PROVE  SupportInv'
<1>1. PICK a \in PlatformAdmins, t \in Tenants : visiting' = [visiting EXCEPT ![r] =
            [kind |-> "start", stage |-> "checked", admin |-> a, tenant |-> t]]
  BY DEF Support!Start
<1>2. [kind |-> "start", stage |-> "checked", admin |-> a, tenant |-> t]
      \in Support!Starting
  BY DEF Support!Starting
<1>3. UNCHANGED <<support, acted>>
  BY DEF Support!Start
<1> QED
  BY <1>1, <1>2, <1>3, SupportRequestMoves

LEMMA EndSupportKeeps ==
  ASSUME SupportInv, NEW r \in Requests, Support!End(r)
  PROVE  SupportInv'
<1>1. PICK s \in Support!Ids : support[s].state = "active"
        /\ visiting' = [visiting EXCEPT ![r] = [kind |-> "end", session |-> s]]
  BY DEF Support!End
<1>2. [kind |-> "end", session |-> s] \in Support!Ending /\ Opened(s)
  BY <1>1 DEF Support!Ending, Opened, SupportInv, Support!TypeOK, Support!Free
<1>3. UNCHANGED <<support, acted>>
  BY DEF Support!End
<1> QED
  BY <1>1, <1>2, <1>3, SupportRequestMoves

LEMMA AdmitSupportKeeps ==
  ASSUME SupportInv, NEW r \in Requests, Support!Admit(r)
  PROVE  SupportInv'
<1>1. PICK s \in Support!Ids : support[s].state = "active"
        /\ visiting' = [visiting EXCEPT ![r] =
             [kind |-> "act", session |-> s, tenant |-> support[s].tenant]]
  BY DEF Support!Admit
<1>2. Opened(s) /\ support[s].tenant \in Tenants
  BY <1>1 DEF Opened, SupportInv, Support!TypeOK, Support!Free, Support!Row
<1>3. [kind |-> "act", session |-> s, tenant |-> support[s].tenant] \in Support!Acting
  BY <1>2 DEF Support!Acting
<1>4. UNCHANGED <<support, acted>>
  BY DEF Support!Admit
<1> QED
  BY <1>1, <1>2, <1>3, <1>4, SupportRequestMoves

LEMMA ActKeeps ==
  ASSUME SupportInv, NEW r \in Requests, Support!Act(r)
  PROVE  SupportInv'
<1>1. /\ Support!Idle \in Support!Starting \cup Support!Ending \cup Support!Acting
                         \cup {Support!Idle}
      /\ Support!Idle.kind = "idle"
  BY DEF Support!Idle
<1> QED
  BY <1>1, SupportRequestMoves DEF Support!Act

LEMMA AbortKeeps ==
  ASSUME SupportInv, NEW r \in Requests,
         visiting' = [visiting EXCEPT ![r] = Support!Idle],
         UNCHANGED <<support, acted>>
  PROVE  SupportInv'
<1>1. /\ Support!Idle \in Support!Starting \cup Support!Ending \cup Support!Acting
                         \cup {Support!Idle}
      /\ Support!Idle.kind = "idle"
  BY DEF Support!Idle
<1> QED
  BY <1>1, SupportRequestMoves

-----------------------------------------------------------------------------
(* The other steps.                                                        *)

\* The unique index lets one start of an admin insert, while none is active.
LEMMA InsertKeeps ==
  ASSUME SupportInv, NEW r \in Requests, Support!Insert(r)
  PROVE  SupportInv'
<1>1. CASE ~Support!Accepted(r)
  BY <1>1, AbortKeeps DEF Support!Insert
<1>2. CASE Support!Accepted(r)
  <2>1. visiting[r] \in Support!Starting /\ visiting[r].stage = "checked"
    BY DEF Support!Insert, Support!IsStart, SupportInv, Support!TypeOK, Support!Starting,
           Support!Ending, Support!Acting, Support!Idle
  <2>2. visiting' = [visiting EXCEPT ![r].stage = "inserted"]
        /\ UNCHANGED <<support, acted>>
    BY <1>2 DEF Support!Insert, SupportInv, Support!TypeOK
  <2> DEFINE new == [visiting[r] EXCEPT !.stage = "inserted"]
  <2>3. visiting'[r] = new /\ \A q \in Requests \ {r} : visiting'[q] = visiting[q]
    BY <2>2 DEF SupportInv, Support!TypeOK
  <2>4. new \in Support!Starting /\ new.admin = visiting[r].admin /\ new.kind = "start"
    BY <2>1 DEF Support!Starting
  <2> HIDE DEF new
  <2>5. Support!TypeOK'
    BY <2>2, <2>3, <2>4 DEF SupportInv, Support!TypeOK
  <2>6. OneActive' /\ \A a : Support!Active(a)' = Support!Active(a)
    BY <2>2 DEF SupportInv, OneActive, Support!Active
  <2>7. \A q \in Requests \ {r} : Support!IsStart(q, "inserted")
        => visiting[q].admin # visiting[r].admin
    BY DEF Support!Insert, Support!BeingInserted
  <2>8. Support!Active(visiting[r].admin) = {}
    BY <1>2 DEF Support!Accepted, Support!UniqueActive
  <2>9. InsertedAlone'
    BY <2>3, <2>4, <2>6, <2>7, <2>8 DEF SupportInv, InsertedAlone, Support!IsStart
  <2>10. Held'
    BY <2>2, <2>3, <2>4 DEF SupportInv, Held, Opened
  <2> QED
    BY <2>5, <2>6, <2>9, <2>10 DEF SupportInv
<1> QED
  BY <1>1, <1>2

LEMMA CommitStartKeeps ==
  ASSUME SupportInv, NEW r \in Requests, Support!CommitStart(r)
  PROVE  SupportInv'
<1>0. PICK a, row : a = visiting[r].admin
                   /\ row = [state |-> "active", admin |-> a, tenant |-> visiting[r].tenant]
  OBVIOUS
<1>1. visiting[r] \in Support!Starting /\ Support!IsStart(r, "inserted")
  BY DEF Support!CommitStart, Support!IsStart, SupportInv, Support!TypeOK,
         Support!Starting, Support!Ending, Support!Acting, Support!Idle
<1>2. PICK s \in Support!Ids : support[s] = Support!Free
      /\ support' = [support EXCEPT ![s] = row]
  BY <1>0 DEF Support!CommitStart
<1>3. row \in Support!Row /\ row.state = "active" /\ row.admin = a
      /\ a \in PlatformAdmins
  BY <1>0, <1>1 DEF Support!Row, Support!Starting
<1>4. visiting' = [visiting EXCEPT ![r] = Support!Idle] /\ acted' = acted
  BY DEF Support!CommitStart
<1>5. Support!Active(a) = {}
      /\ \A q \in Requests \ {r} : Support!IsStart(q, "inserted")
           => visiting[q].admin # a
  BY <1>0, <1>1 DEF SupportInv, InsertedAlone
<1>6. Support!TypeOK'
  BY <1>2, <1>3, <1>4 DEF SupportInv, Support!TypeOK
<1>7. /\ support'[s] = row
      /\ \A i \in Support!Ids \ {s} : support'[i] = support[i]
      /\ visiting'[r] = Support!Idle
      /\ \A q \in Requests \ {r} : visiting'[q] = visiting[q]
  BY <1>2, <1>4 DEF SupportInv, Support!TypeOK
<1>8. Support!Active(a)' = {s} /\ \A b : b # a => Support!Active(b)' = Support!Active(b)
  BY <1>2, <1>3, <1>5, <1>7 DEF Support!Active, Support!Free
<1>9. OneActive'
  BY <1>8 DEF SupportInv, OneActive
<1>10. InsertedAlone'
  BY <1>5, <1>7, <1>8 DEF SupportInv, InsertedAlone, Support!IsStart, Support!Idle
<1>11. ~Opened(s)
  BY <1>2 DEF Opened, Support!Free, Support!Row
<1>12. \A i : Opened(i) => i # s /\ Opened(i)' /\ support'[i] = support[i]
  BY <1>7, <1>11 DEF Opened
<1>13. Held'
  <2>1. (\A q \in Requests : visiting[q].kind = "end" => Opened(visiting[q].session))'
    BY <1>7, <1>12 DEF SupportInv, Held, Support!Idle
  <2>2. (\A q \in Requests : visiting[q].kind = "act" =>
           Opened(visiting[q].session)
           /\ support[visiting[q].session].tenant = visiting[q].tenant)'
    BY <1>7, <1>12 DEF SupportInv, Held, Support!Idle
  <2>3. (\A x \in acted : Opened(x[1]) /\ support[x[1]].tenant = x[2])'
    BY <1>4, <1>12 DEF SupportInv, Held
  <2> QED
    BY <2>1, <2>2, <2>3 DEF Held
<1> QED
  BY <1>6, <1>9, <1>10, <1>13 DEF SupportInv

LEMMA CommitEndKeeps ==
  ASSUME SupportInv, NEW r \in Requests, Support!CommitEnd(r)
  PROVE  SupportInv'
<1> DEFINE s == visiting[r].session
           row == [support[s] EXCEPT !.state = "ended"]
<1>1. Opened(s)
  BY DEF Support!CommitEnd, SupportInv, Held
<1>2. support' = [support EXCEPT ![s] = row]
  BY <1>1 DEF Support!CommitEnd, SupportInv, Support!TypeOK, Opened
<1>3. row \in Support!Row /\ row.state = "ended" /\ row.tenant = support[s].tenant
  BY <1>1 DEF Opened, Support!Row
<1>4. visiting' = [visiting EXCEPT ![r] = Support!Idle] /\ acted' = acted
  BY DEF Support!CommitEnd
<1> HIDE DEF row, s
<1>5. Support!TypeOK'
  BY <1>2, <1>3, <1>4 DEF SupportInv, Support!TypeOK
<1>6. /\ s \in Support!Ids /\ support'[s] = row
      /\ \A i \in Support!Ids \ {s} : support'[i] = support[i]
      /\ visiting'[r] = Support!Idle
      /\ \A q \in Requests \ {r} : visiting'[q] = visiting[q]
  BY <1>1, <1>2, <1>4 DEF SupportInv, Support!TypeOK, Opened
<1>7. \A b : Support!Active(b)' \subseteq Support!Active(b)
  BY <1>3, <1>6 DEF Support!Active
<1>8. OneActive'
  BY <1>7 DEF SupportInv, OneActive
<1>9. InsertedAlone'
  BY <1>6, <1>7 DEF SupportInv, InsertedAlone, Support!IsStart, Support!Idle
<1>10. \A i : Opened(i) => Opened(i)' /\ support'[i].tenant = support[i].tenant
  BY <1>3, <1>6 DEF Opened
<1>11. Held'
  BY <1>4, <1>6, <1>10 DEF SupportInv, Held, Support!Idle
<1> QED
  BY <1>5, <1>8, <1>9, <1>11 DEF SupportInv

-----------------------------------------------------------------------------
LEMMA SupportNext == SupportInv /\ [Support!Next]_(Support!vars) => SupportInv'
<1> SUFFICES ASSUME SupportInv, [Support!Next]_(Support!vars) PROVE SupportInv'
  OBVIOUS
<1>1. CASE UNCHANGED Support!vars
  <2>1. Support!TypeOK' /\ OneActive' /\ InsertedAlone'
    BY <1>1
    DEF Support!vars, SupportInv, Support!TypeOK, OneActive, InsertedAlone,
        Support!Active, Support!IsStart
  <2>2. Held'
    BY <1>1 DEF Support!vars, SupportInv, Held, Opened
  <2> QED
    BY <2>1, <2>2 DEF SupportInv
<1>2. ASSUME NEW r \in Requests,
             \/ Support!Start(r) \/ Support!Insert(r) \/ Support!CommitStart(r)
             \/ Support!End(r) \/ Support!CommitEnd(r)
             \/ Support!Admit(r) \/ Support!Act(r)
             \/ Support!Abort(r)
      PROVE  SupportInv'
  <2>1. CASE Support!Start(r)
    BY <2>1, StartKeeps
  <2>2. CASE Support!Insert(r)
    BY <2>2, InsertKeeps
  <2>3. CASE Support!CommitStart(r)
    BY <2>3, CommitStartKeeps
  <2>4. CASE Support!End(r)
    BY <2>4, EndSupportKeeps
  <2>5. CASE Support!CommitEnd(r)
    BY <2>5, CommitEndKeeps
  <2>6. CASE Support!Admit(r)
    BY <2>6, AdmitSupportKeeps
  <2>7. CASE Support!Act(r)
    BY <2>7, ActKeeps
  <2>8. CASE Support!Abort(r)
    BY <2>8, AbortKeeps DEF Support!Abort
  <2> QED
    BY <1>2, <2>1, <2>2, <2>3, <2>4, <2>5, <2>6, <2>7, <2>8
<1> QED
  BY <1>1, <1>2 DEF Support!Next

LEMMA AtMostOne ==
  ASSUME NEW S, \A s, t \in S : s = t
  PROVE  Cardinality(S) <= 1
<1>1. CASE S = {}
  BY <1>1, FS_EmptySet
<1>2. CASE S # {}
  <2>1. PICK s : S = {s}
    BY <1>2
  <2>2. Cardinality(S) = 1
    BY <2>1, FS_Singleton
  <2> QED
    BY <2>2
<1> QED
  BY <1>1, <1>2

LEMMA SupportPins == SupportInv => Support!SupportPinned
<1> SUFFICES ASSUME SupportInv PROVE Support!SupportPinned
  OBVIOUS
<1>1. \A a \in PlatformAdmins : Cardinality(Support!Active(a)) <= 1
  BY AtMostOne DEF SupportInv, OneActive
<1>2. \A x \in acted : support[x[1]] # Support!Free /\ support[x[1]].tenant = x[2]
  BY DEF SupportInv, Held, Opened, Support!Row, Support!Free
<1> QED
  BY <1>1, <1>2, CardinalityOfSupport DEF Support!SupportPinned

-----------------------------------------------------------------------------
(***************************************************************************)
(* The assistant's gate.  Every call of the last minute and of the last hour*)
(* still has an entry of its own, as old as itself, in the buckets that are*)
(* counted, and every question of the last hour one in the list of questions*)
(* (Buckets); a ban ends a BanTime after the last detection (BanRuns).     *)
(***************************************************************************)
\* The entries of a bucket that stand for the calls in L: each has one of its own,
\* with the same key.
Holds(L, key, bucket) ==
  \E f \in [L -> DOMAIN bucket] :
    /\ \A i, j \in L : f[i] = f[j] => i = j
    /\ \A i \in L : bucket[f[i]] = key[i]

Keys == [i \in DOMAIN accepted |-> accepted[i].age]
AskedKeys == [i \in DOMAIN accepted |-> [age |-> accepted[i].age,
                                         question |-> accepted[i].question]]
Asking == {i \in Gate!Lately(Hour) : accepted[i].question # NoQuestion}
AskingFor(q) == {i \in Gate!Lately(Hour) : accepted[i].question = q}

Buckets ==
  /\ Holds(Gate!Lately(Minute), Keys, minute)
  /\ Holds(Gate!Lately(Hour), Keys, hour)
  /\ Holds(Asking, AskedKeys, asked)

BanRuns == ban = BanTime - sinceBan

GateInv == Gate!TypeOK /\ Buckets /\ BanRuns /\ Gate!WithinLimits

-----------------------------------------------------------------------------
(* What the buckets hold.                                                  *)

LEMMA RestOfBucket ==
  ASSUME NEW S, NEW b \in Seq(S), NEW n \in 0..Len(b)
  PROVE  /\ Gate!Rest(b, n) \in Seq(S)
         /\ Len(Gate!Rest(b, n)) = Len(b) - n
         /\ \A i \in 1..(Len(b) - n) : Gate!Rest(b, n)[i] = b[i + n]
<1>1. \A i \in (n + 1)..Len(b) : b[i] \in S
  BY ElementOfSeq
<1>2. Gate!Rest(b, n) \in Seq(S)
  BY <1>1, SubSeqProperties DEF Gate!Rest
<1>3. Len(Gate!Rest(b, n)) = Len(b) - n
  BY <1>1, SubSeqProperties DEF Gate!Rest
<1>4. \A i \in 1..(Len(b) - n) : Gate!Rest(b, n)[i] = b[i + n]
  <2>1. \A i \in 1..(Len(b) - (n + 1) + 1) : SubSeq(b, n + 1, Len(b))[i]
        = b[(n + 1) + i - 1]
    BY <1>1, SubSeqProperties
  <2> QED
    BY <2>1 DEF Gate!Rest
<1> QED
  BY <1>2, <1>3, <1>4

LEMMA FunctionIsSeq ==
  ASSUME NEW S, NEW n \in Nat, NEW s \in [1..n -> S]
  PROVE  s \in Seq(S)
  BY SeqDef

LEMMA HoldsNothing == \A key, bucket : Holds({}, key, bucket)
<1> SUFFICES ASSUME NEW key, NEW bucket PROVE Holds({}, key, bucket)
  OBVIOUS
<1>1. [i \in {} |-> i] \in [{} -> DOMAIN bucket]
  OBVIOUS
<1> QED
  BY <1>1 DEF Holds

\* Entries that no call of L stands for may leave.
LEMMA HoldsRest ==
  ASSUME NEW S, NEW b \in Seq(S), NEW n \in 0..Len(b), NEW L, NEW key,
         Holds(L, key, b), \A j \in 1..n : \A i \in L : b[j] # key[i]
  PROVE  Holds(L, key, Gate!Rest(b, n))
<1>1. PICK f \in [L -> DOMAIN b] : /\ \A i, j \in L : f[i] = f[j] => i = j
                                   /\ \A i \in L : b[f[i]] = key[i]
  BY DEF Holds
<1> DEFINE g == [i \in L |-> f[i] - n]
<1>2. \A i \in L : f[i] \in 1..Len(b) /\ f[i] > n
  BY <1>1
<1>3. \A i \in L : g[i] \in 1..(Len(b) - n) /\ g[i] + n = f[i]
  BY <1>2
<1> HIDE DEF g
<1>4. DOMAIN Gate!Rest(b, n) = 1..(Len(b) - n)
  BY RestOfBucket
<1>5. g \in [L -> DOMAIN Gate!Rest(b, n)]
  BY <1>3, <1>4 DEF g
<1>6. \A i, j \in L : g[i] = g[j] => i = j
  BY <1>1, <1>3
<1>7. \A i \in L : Gate!Rest(b, n)[g[i]] = key[i]
  <2>1. \A i \in 1..(Len(b) - n) : Gate!Rest(b, n)[i] = b[i + n]
    BY RestOfBucket
  <2> QED
    BY <1>1, <1>3, <2>1
<1> QED
  BY <1>5, <1>6, <1>7 DEF Holds

\* A call that is admitted leaves an entry.
LEMMA HoldsAppend ==
  ASSUME NEW S, NEW b \in Seq(S), NEW e \in S, NEW L, NEW key, NEW new, NEW k,
         new \notin L,
         Holds(L, key, b), \A i \in L : k[i] = key[i], k[new] = e
  PROVE  Holds(L \cup {new}, k, Append(b, e))
<1>1. PICK f \in [L -> DOMAIN b] : /\ \A i, j \in L : f[i] = f[j] => i = j
                                   /\ \A i \in L : b[f[i]] = key[i]
  BY DEF Holds
<1> DEFINE n == Len(b) + 1
           g == [i \in L \cup {new} |-> IF i = new THEN n ELSE f[i]]
<1>2. \A i \in L : g[i] = f[i] /\ f[i] \in 1..Len(b) /\ f[i] # n
  BY <1>1
<1>3. g[new] = n
  OBVIOUS
<1>4. /\ DOMAIN Append(b, e) = 1..n
      /\ \A i \in 1..Len(b) : Append(b, e)[i] = b[i]
      /\ Append(b, e)[n] = e
  BY AppendProperties
<1>5. n \in 1..n /\ \A i \in 1..Len(b) : i \in 1..n
  OBVIOUS
<1> HIDE DEF n
<1>6. g \in [L \cup {new} -> DOMAIN Append(b, e)]
  BY <1>2, <1>4, <1>5
<1> HIDE DEF g
<1>7. \A i, j \in L \cup {new} : g[i] = g[j] => i = j
  BY <1>1, <1>2, <1>3
<1>8. \A i \in L \cup {new} : Append(b, e)[g[i]] = k[i]
  <2>1. \A i \in L : Append(b, e)[g[i]] = k[i]
    BY <1>1, <1>2, <1>4
  <2>2. Append(b, e)[g[new]] = k[new]
    BY <1>3, <1>4
  <2> QED
    BY <2>1, <2>2
<1> QED
  BY <1>6, <1>7, <1>8 DEF Holds

\* Calls and entries change alike, and some calls drop out.
LEMMA HoldsTick ==
  ASSUME NEW b, NEW next, NEW L, NEW M, NEW key, NEW k, NEW shift \in [M -> L],
         Holds(L, key, b), DOMAIN next = DOMAIN b,
         \A i, j \in M : shift[i] = shift[j] => i = j,
         \A i \in M, j \in DOMAIN b : b[j] = key[shift[i]] => next[j] = k[i]
  PROVE  Holds(M, k, next)
<1>1. PICK f \in [L -> DOMAIN b] : /\ \A i, j \in L : f[i] = f[j] => i = j
                                   /\ \A i \in L : b[f[i]] = key[i]
  BY DEF Holds
<1> DEFINE g == [i \in M |-> f[shift[i]]]
<1>2. g \in [M -> DOMAIN next]
  BY <1>1
<1>3. \A i, j \in M : g[i] = g[j] => i = j
  BY <1>1
<1>4. \A i \in M : next[g[i]] = k[i]
  BY <1>1
<1> QED
  BY <1>2, <1>3, <1>4 DEF Holds

\* Calls are no more than the entries that stand for them.
LEMMA HoldsCount ==
  ASSUME NEW L, NEW key, NEW bucket, NEW T, Holds(L, key, bucket), IsFiniteSet(T),
         \A i \in L, j \in DOMAIN bucket : bucket[j] = key[i] => j \in T
  PROVE  IsFiniteSet(L) /\ Cardinality(L) <= Cardinality(T)
<1>1. PICK f \in [L -> DOMAIN bucket] : /\ \A i, j \in L : f[i] = f[j] => i = j
                                        /\ \A i \in L : bucket[f[i]] = key[i]
  BY DEF Holds
<1>2. f \in [L -> T]
  BY <1>1
<1>3. f \in Injection(L, T)
  BY <1>1, <1>2 DEF Injection, IsInjective
<1> QED
  BY <1>3, FS_Injection

\* A set that is moved down by n positions is no larger.
LEMMA MovedCount ==
  ASSUME NEW M \in SUBSET Nat, NEW L, IsFiniteSet(L), NEW n \in Nat,
         \A i \in M : i + n \in L
  PROVE  Cardinality(M) <= Cardinality(L)
<1> DEFINE f == [i \in M |-> i + n]
<1>1. f \in [M -> L]
  OBVIOUS
<1>2. \A i, j \in M : f[i] = f[j] => i = j
  <2> SUFFICES ASSUME NEW i \in M, NEW j \in M, f[i] = f[j] PROVE i = j
    OBVIOUS
  <2>1. i + n = j + n /\ i \in Nat /\ j \in Nat
    OBVIOUS
  <2> QED
    BY <2>1
<1>3. f \in Injection(M, L)
  BY <1>1, <1>2 DEF Injection, IsInjective
<1> QED
  BY <1>3, FS_Injection

\* The calls that were let in are finitely many.
LEMMA LatelyFinite ==
  ASSUME Gate!TypeOK, NEW w
  PROVE  /\ DOMAIN accepted = 1..Len(accepted) /\ Len(accepted) \in Nat
         /\ Gate!Lately(w) \subseteq DOMAIN accepted /\ IsFiniteSet(Gate!Lately(w))
         /\ Cardinality(Gate!Lately(w)) \in Nat
<1>1. DOMAIN accepted = 1..Len(accepted) /\ Len(accepted) \in Nat
  BY LenProperties DEF Gate!TypeOK
<1>2. IsFiniteSet(DOMAIN accepted)
  BY <1>1, FS_Interval
<1>3. Gate!Lately(w) \in SUBSET DOMAIN accepted
  BY DEF Gate!Lately
<1> QED
  BY <1>1, <1>2, <1>3, FS_Subset, FS_CardinalityType

-----------------------------------------------------------------------------
(* Calls that are not admitted.                                            *)

LEMMA GateInit ==
  ASSUME Gate!ConstantsOK, Gate!Init
  PROVE  GateInv
<1>1. /\ minute = <<>> /\ hour = <<>> /\ asked = <<>> /\ ban = 0
      /\ call = [c \in Calls |-> Gate!Waiting] /\ accepted = <<>> /\ sinceBan = BanTime
  BY DEF Gate!Init
<1>2. Gate!TypeOK
  BY <1>1, EmptySeq DEF Gate!TypeOK, Gate!ConstantsOK
<1>3. DOMAIN accepted = {}
  BY <1>1
<1>4. /\ \A w : Gate!Lately(w) = {} /\ Asking = {}
      /\ \A q : {i \in Gate!Lately(Hour) : accepted[i].question = q} = {}
  BY <1>3 DEF Gate!Lately, Asking
<1>5. Buckets
  BY <1>4, HoldsNothing DEF Buckets
<1>6. BanRuns
  BY <1>1 DEF BanRuns, Gate!ConstantsOK
<1>7. Gate!WithinLimits
  <2>1. Cardinality({}) = 0 /\ Gate!Lately(Minute) = {} /\ Gate!Lately(Hour) = {}
    BY <1>4, FS_EmptySet
  <2> QED
    BY <1>3, <2>1, CardinalityOfGate DEF Gate!WithinLimits, Gate!ConstantsOK
<1> QED
  BY <1>2, <1>5, <1>6, <1>7 DEF GateInv

\* No call of the window is among the entries that are pruned.
LEMMA MinutePruned ==
  ASSUME Gate!ConstantsOK, Gate!TypeOK, Buckets, NEW n \in Gate!Stale(minute, Minute)
  PROVE  /\ Gate!Rest(minute, n) \in Seq(Gate!Ages)
              /\ Len(Gate!Rest(minute, n)) = Len(minute) - n
         /\ Holds(Gate!Lately(Minute), Keys, Gate!Rest(minute, n))
<1>1. n \in 0..Len(minute) /\ \A i \in 1..n : ~(minute[i] <= Minute)
  BY DEF Gate!Stale, Gate!Kept, Gate!Within
<1>2. \A i \in Gate!Lately(Minute) : Keys[i] <= Minute
  BY DEF Gate!Lately, Keys
<1>3. minute \in Seq(Gate!Ages)
  BY DEF Gate!TypeOK
<1> QED
  BY <1>1, <1>2, <1>3, RestOfBucket, HoldsRest DEF Buckets

LEMMA HourPruned ==
  ASSUME Gate!ConstantsOK, Gate!TypeOK, Buckets, NEW n \in Gate!Stale(hour, Hour)
  PROVE  /\ Gate!Rest(hour, n) \in Seq(Gate!Ages)
              /\ Len(Gate!Rest(hour, n)) = Len(hour) - n
         /\ Holds(Gate!Lately(Hour), Keys, Gate!Rest(hour, n))
<1>1. n \in 0..Len(hour) /\ \A i \in 1..n : ~(hour[i] <= Hour)
  BY DEF Gate!Stale, Gate!Kept, Gate!Within
<1>2. \A i \in Gate!Lately(Hour) : Keys[i] <= Hour
  BY DEF Gate!Lately, Keys
<1>3. hour \in Seq(Gate!Ages)
  BY DEF Gate!TypeOK
<1> QED
  BY <1>1, <1>2, <1>3, RestOfBucket, HoldsRest DEF Buckets

LEMMA AskedPruned ==
  ASSUME Gate!ConstantsOK, Gate!TypeOK, Buckets,
         NEW n \in Gate!Stale(Gate!AskedAges, Hour)
  PROVE  /\ n \in 0..Len(asked)
         /\ \A i \in 1..n : ~(asked[i].age <= Hour)
         /\ Gate!Rest(asked, n) \in Seq([age : Gate!Ages, question : Questions])
         /\ Holds(Asking, AskedKeys, Gate!Rest(asked, n))
<1>1. asked \in Seq([age : Gate!Ages, question : Questions])
  BY DEF Gate!TypeOK
<1>2. DOMAIN asked = 1..Len(asked) /\ Len(asked) \in Nat
  BY <1>1, LenProperties
<1>3. Gate!AskedAges = [i \in 1..Len(asked) |-> asked[i].age]
  BY <1>2 DEF Gate!AskedAges
<1>4. Len(Gate!AskedAges) = Len(asked)
  <2>0. \A i \in 1..Len(asked) : asked[i] \in [age : Gate!Ages, question : Questions]
    BY <1>1, ElementOfSeq
  <2>1. Gate!AskedAges \in [1..Len(asked) -> Gate!Ages]
    BY <1>3, <2>0
  <2>2. Gate!AskedAges \in Seq(Gate!Ages)
    BY <1>2, <2>1, SeqDef
  <2>3. Len(Gate!AskedAges) \in Nat /\ 1..Len(Gate!AskedAges) = 1..Len(asked)
    BY <2>1, <2>2, LenProperties
  <2> QED
    BY <1>2, <2>3
<1>5. n \in 0..Len(asked) /\ \A i \in 1..n : ~(asked[i].age <= Hour)
  <2>1. n \in 0..Len(Gate!AskedAges) /\ \A i \in 1..n : ~(Gate!AskedAges[i] <= Hour)
    BY DEF Gate!Stale, Gate!Kept, Gate!Within
  <2>2. \A i \in 1..n : i \in 1..Len(asked)
    BY <1>2, <1>4, <2>1
  <2>3. \A i \in 1..n : Gate!AskedAges[i] = asked[i].age
    BY <1>3, <2>2
  <2> QED
    BY <1>4, <2>1, <2>3
<1>6. \A i \in Asking : AskedKeys[i].age <= Hour
  BY DEF Asking, Gate!Lately, AskedKeys
<1>7. \A j \in 1..n : \A i \in Asking : asked[j] # AskedKeys[i]
  BY <1>5, <1>6
<1> QED
  BY <1>1, <1>5, <1>7, RestOfBucket, HoldsRest DEF Buckets

\* What a step that admits nothing has to keep.
LEMMA NothingAdmitted ==
  ASSUME GateInv, UNCHANGED accepted,
         minute' \in Seq(Gate!Ages), hour' \in Seq(Gate!Ages),
         asked' \in Seq([age : Gate!Ages, question : Questions]),
         ban' \in 0..BanTime, sinceBan' \in 0..BanTime, ban' = BanTime - sinceBan',
         call' \in [Calls -> [stage : {"passed"}, question : Gate!Asked] \cup {Gate!Waiting}],
         Holds(Gate!Lately(Minute), Keys, minute'),
         Holds(Gate!Lately(Hour), Keys, hour'),
         Holds(Asking, AskedKeys, asked')
  PROVE  GateInv'
<1>1. Gate!TypeOK'
  BY DEF GateInv, Gate!TypeOK
<1>2. /\ Gate!Lately(Minute)' = Gate!Lately(Minute)
           /\ Gate!Lately(Hour)' = Gate!Lately(Hour)
      /\ Keys' = Keys /\ AskedKeys' = AskedKeys
  BY DEF Gate!Lately, Keys, AskedKeys
<1>3. Asking' = Asking
  BY <1>2 DEF Asking
<1>4. Buckets'
  BY <1>2, <1>3 DEF Buckets
<1>5. Gate!WithinLimits'
  BY <1>2 DEF GateInv, Gate!WithinLimits
<1> QED
  BY <1>1, <1>4, <1>5 DEF GateInv, BanRuns

LEMMA RefuseKeeps ==
  ASSUME Gate!ConstantsOK, GateInv, Gate!Refuse
  PROVE  GateInv'
<1>1. PICK q \in Gate!Asked, m \in Gate!Stale(minute, Minute),
      h \in Gate!Stale(hour, Hour),
           a \in Gate!Stale(Gate!AskedAges, Hour) :
        /\ minute' = minute \/ minute' = Gate!Rest(minute, m)
        /\ hour' = hour \/ hour' = Gate!Rest(hour, h)
        /\ asked' = asked \/ asked' = Gate!Rest(asked, a)
  BY Zenon DEF Gate!Refuse
<1>2. UNCHANGED <<ban, call, accepted, sinceBan>>
  BY DEF Gate!Refuse
<1>3. minute' \in Seq(Gate!Ages) /\ Holds(Gate!Lately(Minute), Keys, minute')
  BY <1>1, MinutePruned DEF GateInv, Gate!TypeOK, Buckets
<1>4. hour' \in Seq(Gate!Ages) /\ Holds(Gate!Lately(Hour), Keys, hour')
  BY <1>1, HourPruned DEF GateInv, Gate!TypeOK, Buckets
<1>5. /\ asked' \in Seq([age : Gate!Ages, question : Questions])
      /\ Holds(Asking, AskedKeys, asked')
  BY <1>1, AskedPruned DEF GateInv, Gate!TypeOK, Buckets
<1>6. /\ ban' \in 0..BanTime /\ sinceBan' \in 0..BanTime /\ ban' = BanTime - sinceBan'
      /\ call' \in [Calls -> [stage : {"passed"}, question : Gate!Asked] \cup {Gate!Waiting}]
  BY <1>2 DEF GateInv, Gate!TypeOK, BanRuns
<1> QED
  BY <1>2, <1>3, <1>4, <1>5, <1>6, NothingAdmitted

LEMMA LeaveKeeps ==
  ASSUME Gate!ConstantsOK, GateInv, NEW c \in Calls, Gate!Detect(c) \/ Gate!Answer(c)
         \/ Gate!Fail(c)
  PROVE  GateInv'
<1>1. /\ call' = [call EXCEPT ![c] = Gate!Waiting]
           /\ UNCHANGED <<minute, hour, asked, accepted>>
      /\ UNCHANGED <<ban, sinceBan>> \/ (ban' = BanTime /\ sinceBan' = 0)
  BY DEF Gate!Detect, Gate!Answer, Gate!Fail, Gate!NewBan, Gate!BanFromNow
<1>2. /\ minute' \in Seq(Gate!Ages) /\ hour' \in Seq(Gate!Ages)
      /\ asked' \in Seq([age : Gate!Ages, question : Questions])
      /\ Holds(Gate!Lately(Minute), Keys, minute')
           /\ Holds(Gate!Lately(Hour), Keys, hour')
      /\ Holds(Asking, AskedKeys, asked')
  BY <1>1 DEF GateInv, Gate!TypeOK, Buckets
<1>3. ban' \in 0..BanTime /\ sinceBan' \in 0..BanTime /\ ban' = BanTime - sinceBan'
  BY <1>1 DEF GateInv, Gate!TypeOK, BanRuns, Gate!ConstantsOK
<1>4. call' \in [Calls -> [stage : {"passed"}, question : Gate!Asked] \cup {Gate!Waiting}]
  BY <1>1 DEF GateInv, Gate!TypeOK
<1> QED
  BY <1>1, <1>2, <1>3, <1>4, NothingAdmitted

-----------------------------------------------------------------------------
(* A call that is admitted.                                                *)

\* The question was asked less often than allowed: its calls of the last hour have
\* entries that are not pruned.
LEMMA AskedSeldom ==
  ASSUME Gate!ConstantsOK, Gate!TypeOK, Buckets,
         NEW n \in Gate!Stale(Gate!AskedAges, Hour),
         NEW q \in Questions, ~Gate!TooOften(q, n)
  PROVE  Cardinality(AskingFor(q)) < SameQuestion
<1>1. /\ n \in 0..Len(asked) /\ \A i \in 1..n : ~(asked[i].age <= Hour)
      /\ DOMAIN asked = 1..Len(asked) /\ Len(asked) \in Nat
  BY AskedPruned, LenProperties DEF Gate!TypeOK
<1>2. IsFiniteSet(Gate!SameAsked(q, n)) /\ Cardinality(Gate!SameAsked(q, n)) \in Nat
  <2>1. Gate!SameAsked(q, n) \in SUBSET (n + 1..Len(asked))
    BY DEF Gate!SameAsked
  <2>2. IsFiniteSet(n + 1..Len(asked))
    BY <1>1, FS_Interval
  <2> QED
    BY <2>1, <2>2, FS_Subset, FS_CardinalityType
<1>3. Cardinality(Gate!SameAsked(q, n)) < SameQuestion
  BY <1>2, CardinalityOfGate DEF Gate!TooOften, Gate!ConstantsOK
<1>4. AskingFor(q) \subseteq Asking
  BY DEF AskingFor, Asking, Gate!ConstantsOK
<1>5. Holds(AskingFor(q), AskedKeys, asked)
  <2>1. PICK f \in [Asking -> DOMAIN asked] :
          /\ \A i, j \in Asking : f[i] = f[j] => i = j
          /\ \A i \in Asking : asked[f[i]] = AskedKeys[i]
    BY DEF Buckets, Holds
  <2> DEFINE g == [i \in AskingFor(q) |-> f[i]]
  <2>2. g \in [AskingFor(q) -> DOMAIN asked]
    BY <1>4
  <2>3. /\ \A i, j \in AskingFor(q) : g[i] = g[j] => i = j
        /\ \A i \in AskingFor(q) : asked[g[i]] = AskedKeys[i]
    BY <1>4, <2>1
  <2> QED
    BY <2>2, <2>3 DEF Holds
<1>6. ASSUME NEW i \in AskingFor(q), NEW j \in DOMAIN asked, asked[j] = AskedKeys[i]
      PROVE  j \in Gate!SameAsked(q, n)
  <2>1. AskedKeys[i].age <= Hour /\ AskedKeys[i].question = q
    BY DEF AskingFor, Gate!Lately, AskedKeys
  <2>2. j \in 1..Len(asked) /\ asked[j].age <= Hour /\ asked[j].question = q
    BY <1>1, <1>6, <2>1
  <2>3. j \notin 1..n
    BY <1>1, <2>2
  <2> QED
    BY <1>1, <2>2, <2>3 DEF Gate!SameAsked
<1>7. Cardinality(AskingFor(q)) <= Cardinality(Gate!SameAsked(q, n))
      /\ IsFiniteSet(AskingFor(q))
  BY <1>2, <1>5, <1>6, HoldsCount
<1> QED
  BY <1>2, <1>3, <1>7, FS_CardinalityType DEF Gate!ConstantsOK

\* A bucket that is not full has fewer calls in its window than are allowed.
LEMMA NotFull ==
  ASSUME NEW S, NEW b \in Seq(S), NEW L, NEW key, NEW limit \in Nat,
         Holds(L, key, b), ~(Len(b) >= limit)
  PROVE  IsFiniteSet(L) /\ Cardinality(L) \in Nat /\ Cardinality(L) < limit
<1>1. DOMAIN b = 1..Len(b) /\ Len(b) \in Nat
  BY LenProperties
<1>2. IsFiniteSet(DOMAIN b) /\ Cardinality(DOMAIN b) = Len(b)
  <2>1. 1 \in Int /\ Len(b) \in Int
    BY <1>1
  <2>2. /\ IsFiniteSet(1..Len(b))
        /\ Cardinality(1..Len(b)) = IF 1 > Len(b) THEN 0 ELSE Len(b) - 1 + 1
    BY <2>1, FS_Interval, Zenon
  <2> QED
    BY <1>1, <2>2
<1>3. IsFiniteSet(L) /\ Cardinality(L) <= Len(b)
  BY <1>2, HoldsCount
<1> QED
  BY <1>1, <1>3, FS_CardinalityType

LEMMA OneMore ==
  ASSUME NEW L, IsFiniteSet(L), NEW M, NEW x, M \subseteq L \cup {x},
         NEW limit \in Nat, Cardinality(L) < limit
  PROVE  Cardinality(M) <= limit
<1>1. IsFiniteSet(L \cup {x}) /\ Cardinality(L \cup {x}) <= Cardinality(L) + 1
      /\ Cardinality(L) \in Nat
  <2>1. /\ IsFiniteSet(L \cup {x})
        /\ Cardinality(L \cup {x}) = IF x
             \in L THEN Cardinality(L) ELSE Cardinality(L) + 1
    BY FS_AddElement, Zenon
  <2>2. Cardinality(L) \in Nat
    BY FS_CardinalityType
  <2> QED
    BY <2>1, <2>2
<1>2. M \in SUBSET (L \cup {x})
  OBVIOUS
<1>3. IsFiniteSet(M) /\ Cardinality(M) <= Cardinality(L \cup {x})
  BY <1>1, <1>2, FS_Subset
<1> QED
  BY <1>1, <1>3, FS_CardinalityType

LEMMA AdmitCallKeeps ==
  ASSUME Gate!ConstantsOK, GateInv, NEW c \in Calls, Gate!Admit(c)
  PROVE  GateInv'
<1>1. PICK q \in Gate!Asked, m \in Gate!Stale(minute, Minute),
      h \in Gate!Stale(hour, Hour),
           a \in Gate!Stale(Gate!AskedAges, Hour) :
       /\ ~Gate!MinuteFull(m) /\ ~Gate!HourFull(h) /\ ~Gate!TooOften(q, a)
       /\ minute' = Append(Gate!Rest(minute, m), 0)
       /\ hour' = Append(Gate!Rest(hour, h), 0)
       /\ asked' = IF q = NoQuestion THEN asked
                   ELSE Append(Gate!Rest(asked, a), [age |-> 0, question |-> q])
       /\ call' = [call EXCEPT ![c] = [stage |-> "passed", question |-> q]]
       /\ accepted' = Append(accepted,
            [age |-> 0, question |-> q, banned |-> sinceBan < BanTime])
  BY Zenon DEF Gate!Admit
<1>2. ban = 0 /\ UNCHANGED <<ban, sinceBan>>
  BY DEF Gate!Admit
<1> DEFINE n == Len(accepted) + 1
           e == [age |-> 0, question |-> q, banned |-> sinceBan < BanTime]
<1>3. sinceBan = BanTime /\ ~e.banned /\ e.age = 0 /\ e.question = q
  <2>1. sinceBan = BanTime /\ ~(sinceBan < BanTime)
    BY <1>2 DEF GateInv, Gate!TypeOK, BanRuns, Gate!ConstantsOK
  <2>2. e.banned = (sinceBan < BanTime)
    BY Zenon
  <2> QED
    BY <2>1, <2>2
<1>4. e \in [age : 0..Hour, question : Gate!Asked, banned : BOOLEAN]
  BY DEF Gate!ConstantsOK
<1>5. accepted' = Append(accepted, e)
  BY <1>1
<1> HIDE DEF e
<1>6. /\ accepted' \in Seq([age : 0..Hour, question : Gate!Asked, banned : BOOLEAN])
      /\ DOMAIN accepted = 1..Len(accepted) /\ Len(accepted) \in Nat
      /\ DOMAIN accepted' = 1..n
      /\ \A i \in 1..Len(accepted) : accepted'[i] = accepted[i]
      /\ accepted'[n] = e
  BY <1>4, <1>5, AppendProperties, LenProperties DEF GateInv, Gate!TypeOK
<1>7. n \notin DOMAIN accepted /\ DOMAIN accepted' = DOMAIN accepted \cup {n}
      /\ \A i \in DOMAIN accepted : accepted'[i] = accepted[i]
  BY <1>6
<1> HIDE DEF n
<1>8. /\ Gate!Lately(Minute)' = Gate!Lately(Minute) \cup {n}
           /\ Gate!Lately(Hour)' = Gate!Lately(Hour) \cup {n}
      /\ n \notin Gate!Lately(Minute) /\ n \notin Gate!Lately(Hour)
  <2>1. ASSUME NEW w \in Nat
        PROVE  Gate!Lately(w)' = Gate!Lately(w) \cup {n} /\ n \notin Gate!Lately(w)
    <3>1. accepted'[n].age <= w
      BY <1>3, <1>6
    <3>2. \A i \in DOMAIN accepted' : accepted'[i].age <= w
                                      <=> i = n \/ (i \in DOMAIN accepted /\ accepted[i].age <= w)
      BY <1>7, <3>1
    <3> QED
      BY <1>7, <3>2 DEF Gate!Lately
  <2> QED
    BY <2>1 DEF Gate!ConstantsOK
<1>9. /\ \A i \in DOMAIN accepted : Keys'[i] = Keys[i] /\ AskedKeys'[i] = AskedKeys[i]
      /\ Keys'[n] = 0 /\ AskedKeys'[n] = [age |-> 0, question |-> q]
  BY <1>3, <1>6, <1>7 DEF Keys, AskedKeys
<1>10. Gate!Lately(Minute) \subseteq DOMAIN accepted
       /\ Gate!Lately(Hour) \subseteq DOMAIN accepted
       /\ Asking \subseteq DOMAIN accepted
  BY DEF Gate!Lately, Asking
<1>11. Asking' = IF q = NoQuestion THEN Asking ELSE Asking \cup {n}
  BY <1>3, <1>6, <1>7, <1>8, <1>10 DEF Asking
<1>12. /\ Gate!Rest(minute, m) \in Seq(Gate!Ages)
            /\ Len(Gate!Rest(minute, m)) = Len(minute) - m
       /\ Holds(Gate!Lately(Minute), Keys, Gate!Rest(minute, m))
  BY MinutePruned DEF GateInv
<1>13. /\ Gate!Rest(hour, h) \in Seq(Gate!Ages)
            /\ Len(Gate!Rest(hour, h)) = Len(hour) - h
       /\ Holds(Gate!Lately(Hour), Keys, Gate!Rest(hour, h))
  BY HourPruned DEF GateInv
<1>14. /\ Gate!Rest(asked, a) \in Seq([age : Gate!Ages, question : Questions])
       /\ Holds(Asking, AskedKeys, Gate!Rest(asked, a))
  BY AskedPruned DEF GateInv
<1>15. 0 \in Gate!Ages
  BY DEF Gate!Ages, Gate!Old, Gate!ConstantsOK
<1>16. minute' \in Seq(Gate!Ages) /\ hour' \in Seq(Gate!Ages)
  BY <1>1, <1>12, <1>13, <1>15, AppendProperties
<1>17. asked' \in Seq([age : Gate!Ages, question : Questions])
  <2>1. CASE q = NoQuestion
    BY <1>1, <2>1 DEF GateInv, Gate!TypeOK
  <2>2. CASE q # NoQuestion
    <3>1. [age |-> 0, question |-> q] \in [age : Gate!Ages, question : Questions]
      BY <1>15, <2>2 DEF Gate!Asked
    <3> QED
      BY <1>1, <1>14, <2>2, <3>1, AppendProperties
  <2> QED
    BY <2>1, <2>2
<1>18. Gate!TypeOK'
  <2>1. [stage |-> "passed", question |-> q]
        \in [stage : {"passed"}, question : Gate!Asked]
    OBVIOUS
  <2>2. call' \in [Calls -> [stage : {"passed"}, question : Gate!Asked] \cup {Gate!Waiting}]
    BY <1>1, <2>1 DEF GateInv, Gate!TypeOK
  <2> QED
    BY <1>2, <1>6, <1>16, <1>17, <2>2 DEF GateInv, Gate!TypeOK
<1>19. Holds(Gate!Lately(Minute)', Keys', minute')
  <2>1. \A i \in Gate!Lately(Minute) : Keys'[i] = Keys[i]
    BY <1>9, <1>10
  <2> QED
    BY <1>1, <1>8, <1>9, <1>12, <1>15, <2>1, HoldsAppend
<1>20. Holds(Gate!Lately(Hour)', Keys', hour')
  <2>1. \A i \in Gate!Lately(Hour) : Keys'[i] = Keys[i]
    BY <1>9, <1>10
  <2> QED
    BY <1>1, <1>8, <1>9, <1>13, <1>15, <2>1, HoldsAppend
<1>21. Holds(Asking', AskedKeys', asked')
  <2>1. \A i \in Asking : AskedKeys'[i] = AskedKeys[i]
    BY <1>9, <1>10
  <2>2. CASE q = NoQuestion
    <3>1. Holds(Asking, AskedKeys', asked)
      BY <2>1 DEF GateInv, Buckets, Holds
    <3> QED
      BY <1>1, <1>11, <2>2, <3>1
  <2>3. CASE q # NoQuestion
    <3>1. [age |-> 0, question |-> q] \in [age : Gate!Ages, question : Questions]
      BY <1>15, <2>3 DEF Gate!Asked
    <3>2. n \notin Asking
      BY <1>7, <1>10
    <3>3. Holds(Asking \cup {n}, AskedKeys',
                Append(Gate!Rest(asked, a), [age |-> 0, question |-> q]))
      BY <1>9, <1>14, <2>1, <3>1, <3>2, HoldsAppend
    <3> QED
      BY <1>1, <1>11, <2>3, <3>3
  <2> QED
    BY <2>2, <2>3
<1>22. Buckets' /\ BanRuns'
  BY <1>2, <1>19, <1>20, <1>21 DEF Buckets, GateInv, BanRuns
<1>23. Cardinality(Gate!Lately(Minute)') <= PerMinute
  <2>1. ~(Len(Gate!Rest(minute, m)) >= PerMinute)
    BY <1>1, <1>12 DEF Gate!MinuteFull
  <2>2. IsFiniteSet(Gate!Lately(Minute)) /\ Cardinality(Gate!Lately(Minute)) < PerMinute
    BY <1>12, <2>1, NotFull DEF Gate!ConstantsOK
  <2> QED
    BY <1>8, <2>2, OneMore DEF Gate!ConstantsOK
<1>24. Cardinality(Gate!Lately(Hour)') <= PerHour
  <2>1. ~(Len(Gate!Rest(hour, h)) >= PerHour)
    BY <1>1, <1>13 DEF Gate!HourFull
  <2>2. IsFiniteSet(Gate!Lately(Hour)) /\ Cardinality(Gate!Lately(Hour)) < PerHour
    BY <1>13, <2>1, NotFull DEF Gate!ConstantsOK
  <2> QED
    BY <1>8, <2>2, OneMore DEF Gate!ConstantsOK
<1>25. ASSUME NEW p \in Questions
       PROVE  Cardinality(AskingFor(p)') <= SameQuestion
  <2>1. CASE p = q
    <3>1. Cardinality(AskingFor(p)) < SameQuestion
      BY <1>1, <2>1, AskedSeldom DEF GateInv
    <3>2. AskingFor(p)' \subseteq AskingFor(p) \cup {n}
      BY <1>7, <1>8, <1>10 DEF AskingFor
    <3>3. IsFiniteSet(AskingFor(p))
      <4>1. AskingFor(p) \in SUBSET Gate!Lately(Hour)
        BY DEF AskingFor
      <4> QED
        BY <4>1, LatelyFinite, FS_Subset DEF GateInv
    <3> QED
      BY <3>1, <3>2, <3>3, OneMore DEF Gate!ConstantsOK
  <2>2. CASE p # q
    <3>1. AskingFor(p)' = AskingFor(p)
      BY <1>3, <1>6, <1>7, <1>8, <1>10, <2>2 DEF AskingFor
    <3>2. Cardinality(AskingFor(p)) <= SameQuestion
      BY CardinalityOfGate DEF GateInv, Gate!WithinLimits, AskingFor
    <3> QED
      BY <3>1, <3>2
  <2> QED
    BY <2>1, <2>2
<1>26. \A i \in DOMAIN accepted' : ~accepted'[i].banned
  BY <1>3, <1>6, <1>7 DEF GateInv, Gate!WithinLimits
<1>27. Gate!WithinLimits'
  BY <1>23, <1>24, <1>25, <1>26, CardinalityOfGate DEF Gate!WithinLimits, AskingFor
<1> QED
  BY <1>18, <1>22, <1>27 DEF GateInv

-----------------------------------------------------------------------------
(* Time passes.                                                            *)

LEMMA OlderAges ==
  ASSUME Gate!ConstantsOK, NEW age \in Gate!Ages
  PROVE  Gate!Older(age) \in Gate!Ages /\ (age <= Hour => Gate!Older(age) = age + 1)
  BY DEF Gate!ConstantsOK, Gate!Ages, Gate!Old, Gate!Older

LEMMA OlderBucket ==
  ASSUME Gate!ConstantsOK, NEW b \in Seq(Gate!Ages), NEW next,
         next = [i \in DOMAIN b |-> Gate!Older(b[i])]
  PROVE  next \in Seq(Gate!Ages)
<1>1. b \in [1..Len(b) -> Gate!Ages] /\ Len(b) \in Nat
  BY LenProperties
<1>2. next \in [1..Len(b) -> Gate!Ages]
  BY <1>1, OlderAges
<1> QED
  BY <1>1, <1>2, SeqDef

LEMMA TickKeeps ==
  ASSUME Gate!ConstantsOK, GateInv, Gate!Tick
  PROVE  GateInv'
<1> DEFINE older == [i \in DOMAIN accepted |-> [accepted[i] EXCEPT !.age = @ + 1]]
<1>1. PICK n \in 0..Len(accepted) :
        /\ \A i \in DOMAIN accepted : older[i].age > Hour <=> i <= n
        /\ accepted' = Gate!Rest(older, n)
  BY DEF Gate!Tick
<1>2. /\ minute' = [i \in DOMAIN minute |-> Gate!Older(minute[i])]
      /\ hour' = [i \in DOMAIN hour |-> Gate!Older(hour[i])]
      /\ asked' = [i \in DOMAIN asked |-> [asked[i] EXCEPT !.age = Gate!Older(@)]]
      /\ ban' = (IF ban = 0 THEN 0 ELSE ban - 1)
      /\ sinceBan' = (IF sinceBan = BanTime THEN BanTime ELSE sinceBan + 1)
      /\ call' = call
  BY DEF Gate!Tick
<1> DEFINE Calling == [age : 0..Hour, question : Gate!Asked, banned : BOOLEAN]
           Aged == [age : Nat, question : Gate!Asked, banned : BOOLEAN]
<1>3. /\ accepted \in Seq(Calling)
      /\ DOMAIN accepted = 1..Len(accepted) /\ Len(accepted) \in Nat
      /\ \A i \in DOMAIN accepted : accepted[i] \in Calling
  BY LenProperties, ElementOfSeq DEF GateInv, Gate!TypeOK
<1>4. ASSUME NEW i \in DOMAIN accepted
      PROVE  /\ older[i] \in Aged
             /\ older[i].age = accepted[i].age + 1
             /\ older[i].question = accepted[i].question
             /\ older[i].banned = accepted[i].banned
  <2>1. accepted[i] \in Calling /\ accepted[i].age \in Nat
    BY <1>3 DEF Gate!ConstantsOK
  <2>2. older[i] = [accepted[i] EXCEPT !.age = accepted[i].age + 1]
    OBVIOUS
  <2> HIDE DEF older
  <2> QED
    BY <2>1, <2>2
<1>5. older \in [1..Len(accepted) -> Aged]
  BY <1>3, <1>4
<1> HIDE DEF older
<1>6. older \in Seq(Aged) /\ Len(older) = Len(accepted)
  <2>1. older \in Seq(Aged)
    BY <1>3, <1>5, FunctionIsSeq
  <2>2. Len(older) \in Nat /\ 1..Len(older) = 1..Len(accepted)
    BY <1>5, <2>1, LenProperties
  <2> QED
    BY <1>3, <2>1, <2>2
<1>7. /\ accepted' \in Seq(Aged) /\ Len(accepted') = Len(accepted) - n
      /\ \A i \in 1..(Len(accepted) - n) : accepted'[i] = older[i + n]
  BY <1>1, <1>6, RestOfBucket
<1>8. DOMAIN accepted' = 1..(Len(accepted) - n) /\ IsFiniteSet(DOMAIN accepted')
  <2>1. DOMAIN accepted' = 1..(Len(accepted) - n) /\ Len(accepted) - n \in Int
    BY <1>3, <1>7, LenProperties
  <2>2. IsFiniteSet(1..(Len(accepted) - n))
    BY <2>1, FS_Interval
  <2> QED
    BY <2>1, <2>2
<1>9. ASSUME NEW i \in DOMAIN accepted'
      PROVE  /\ i \in Nat /\ i + n \in DOMAIN accepted
             /\ accepted'[i] \in Calling
             /\ accepted'[i].age = accepted[i + n].age + 1
             /\ accepted'[i].question = accepted[i + n].question
             /\ accepted'[i].banned = accepted[i + n].banned
  <2>1. i \in 1..(Len(accepted) - n) /\ i + n \in 1..Len(accepted) /\ ~(i + n <= n)
    BY <1>3, <1>8
  <2>2. accepted'[i] = older[i + n] /\ ~(older[i + n].age > Hour)
    BY <1>1, <1>3, <1>7, <2>1
  <2>3. older[i + n] \in Aged /\ older[i + n].age \in 0..Hour
    BY <1>3, <1>4, <2>1, <2>2 DEF Gate!ConstantsOK
  <2>4. older[i + n] \in Calling
    BY <2>3
  <2> QED
    BY <1>3, <1>4, <2>1, <2>2, <2>4
<1>10. accepted' \in Seq(Calling)
  <2>1. accepted' \in [1..(Len(accepted) - n) -> Calling]
    BY <1>7, <1>8, <1>9, LenProperties
  <2>2. Len(accepted) - n \in Nat
    BY <1>3
  <2> QED
    BY <2>1, <2>2, FunctionIsSeq
<1>11. ASSUME NEW w \in Nat, NEW i \in Gate!Lately(w)'
       PROVE  i \in DOMAIN accepted' /\ i \in Nat /\ i + n \in Gate!Lately(w)
  <2>1. i \in DOMAIN accepted' /\ accepted'[i].age <= w
    BY DEF Gate!Lately
  <2>2. accepted[i + n].age \in Nat /\ accepted[i + n].age <= w
    BY <1>3, <1>9, <2>1 DEF Gate!ConstantsOK
  <2> QED
    BY <1>9, <2>1, <2>2 DEF Gate!Lately
<1>12. Minute \in Nat /\ Hour \in Nat /\ n \in Nat
  BY DEF Gate!ConstantsOK
<1>13. minute' \in Seq(Gate!Ages) /\ hour' \in Seq(Gate!Ages)
  BY <1>2, OlderBucket DEF GateInv, Gate!TypeOK
<1>14. /\ asked \in Seq([age : Gate!Ages, question : Questions])
       /\ DOMAIN asked = 1..Len(asked) /\ Len(asked) \in Nat
       /\ \A j \in DOMAIN asked : asked[j] \in [age : Gate!Ages, question : Questions]
  BY LenProperties, ElementOfSeq DEF GateInv, Gate!TypeOK
<1>15. ASSUME NEW j \in DOMAIN asked
       PROVE  asked'[j] = [age |-> Gate!Older(asked[j].age), question |-> asked[j].question]
  BY <1>2, <1>14
<1>16. asked' \in Seq([age : Gate!Ages, question : Questions])
  <2>1. \A j \in 1..Len(asked) : asked'[j] \in [age : Gate!Ages, question : Questions]
    <3> SUFFICES ASSUME NEW j \in 1..Len(asked)
                 PROVE  asked'[j] \in [age : Gate!Ages, question : Questions]
      OBVIOUS
    <3>1. j \in DOMAIN asked /\ asked[j].age \in Gate!Ages
          /\ asked[j].question \in Questions
      BY <1>14
    <3>2. Gate!Older(asked[j].age) \in Gate!Ages
      BY <3>1, OlderAges
    <3>3. asked'[j] = [age |-> Gate!Older(asked[j].age), question |-> asked[j].question]
      BY <1>15, <3>1
    <3>4. [age |-> Gate!Older(asked[j].age), question |-> asked[j].question]
            \in [age : Gate!Ages, question : Questions]
      BY <3>1, <3>2
    <3> QED
      BY <3>3, <3>4
  <2>2. asked' \in [1..Len(asked) -> [age : Gate!Ages, question : Questions]]
    BY <1>2, <1>14, <2>1
  <2> QED
    BY <1>14, <2>2, FunctionIsSeq
<1>17. Gate!TypeOK' /\ BanRuns'
  <2>1. ban' \in 0..BanTime /\ sinceBan' \in 0..BanTime /\ ban' = BanTime - sinceBan'
    BY <1>2 DEF GateInv, Gate!TypeOK, BanRuns, Gate!ConstantsOK
  <2>2. call' \in [Calls -> [stage : {"passed"}, question : Gate!Asked] \cup {Gate!Waiting}]
    BY <1>2 DEF GateInv, Gate!TypeOK
  <2> QED
    BY <1>10, <1>13, <1>16, <2>1, <2>2 DEF Gate!TypeOK, BanRuns
<1>18. ASSUME NEW w \in Nat, w <= Hour, NEW b \in Seq(Gate!Ages), NEW next,
              next = [i \in DOMAIN b |-> Gate!Older(b[i])],
              Holds(Gate!Lately(w), Keys, b)
       PROVE  Holds(Gate!Lately(w)', Keys', next)
  <2>1. DOMAIN next = DOMAIN b
    BY <1>18
  <2>2. Gate!Lately(w)' \subseteq Nat
        /\ \A i \in Gate!Lately(w)' : i + n \in Gate!Lately(w)
    BY <1>11
  <2>3. ASSUME NEW i \in Gate!Lately(w)', NEW j \in DOMAIN b, b[j] = Keys[i + n]
        PROVE  next[j] = Keys'[i]
    <3>1. b[j] \in Gate!Ages
      BY ElementOfSeq, LenProperties
    <3>2. /\ i \in DOMAIN accepted' /\ i + n \in DOMAIN accepted
          /\ accepted[i + n].age \in 0..Hour
          /\ accepted'[i].age = accepted[i + n].age + 1
      BY <1>3, <1>9, <1>11
    <3>3. Keys[i + n] = accepted[i + n].age /\ Keys'[i] = accepted'[i].age
      BY <3>2 DEF Keys
    <3>4. Gate!Older(b[j]) = b[j] + 1
      BY <2>3, <3>1, <3>2, <3>3, OlderAges
    <3> QED
      BY <1>18, <2>3, <3>2, <3>3, <3>4
  <2> DEFINE shift == [i \in Gate!Lately(w)' |-> i + n]
  <2>4. \A i \in Gate!Lately(w)', j \in DOMAIN b : b[j] = Keys[shift[i]]
        => next[j] = Keys'[i]
    BY <2>3
  <2>5. shift \in [Gate!Lately(w)' -> Gate!Lately(w)]
    BY <2>2
  <2>6. \A i, j \in Gate!Lately(w)' : shift[i] = shift[j] => i = j
    BY <1>12, <2>2
  <2> HIDE DEF shift
  <2> QED
    BY <1>18, <2>1, <2>4, <2>5, <2>6, HoldsTick
<1>19. Holds(Gate!Lately(Minute)', Keys', minute')
       /\ Holds(Gate!Lately(Hour)', Keys', hour')
  <2>1. /\ minute \in Seq(Gate!Ages) /\ hour \in Seq(Gate!Ages) /\ Minute <= Hour
        /\ Holds(Gate!Lately(Minute), Keys, minute)
             /\ Holds(Gate!Lately(Hour), Keys, hour)
    BY DEF GateInv, Buckets, Gate!TypeOK, Gate!ConstantsOK
  <2>2. Holds(Gate!Lately(Minute)', Keys', minute')
    BY <1>2, <1>12, <1>18, <2>1
  <2>3. Hour <= Hour
    BY <1>12
  <2>4. Holds(Gate!Lately(Hour)', Keys', hour')
    BY <1>2, <1>12, <1>18, <2>1, <2>3
  <2> QED
    BY <2>2, <2>4
<1>20. Holds(Asking', AskedKeys', asked')
  <2>1. DOMAIN asked' = DOMAIN asked
    BY <1>2
  <2>2. ASSUME NEW i \in Asking'
        PROVE  /\ i \in Nat /\ i \in DOMAIN accepted' /\ i + n \in DOMAIN accepted
               /\ i + n \in Asking
    <3>1. i \in Gate!Lately(Hour)' /\ accepted'[i].question # NoQuestion
      BY DEF Asking
    <3> QED
      BY <1>9, <1>11, <1>12, <3>1 DEF Asking
  <2>3. ASSUME NEW i \in Asking', NEW j \in DOMAIN asked, asked[j] = AskedKeys[i + n]
        PROVE  asked'[j] = AskedKeys'[i]
    <3>1. /\ AskedKeys[i + n] = [age |-> accepted[i + n].age,
                                 question |-> accepted[i + n].question]
          /\ AskedKeys'[i]
               = [age |-> accepted'[i].age, question |-> accepted'[i].question]
      BY <2>2 DEF AskedKeys
    <3>2. /\ asked[j].age = accepted[i + n].age
          /\ asked[j].question = accepted[i + n].question
      BY <2>3, <3>1
    <3>3. accepted[i + n].age \in 0..Hour
      BY <1>3, <2>2
    <3>4. Gate!Older(asked[j].age) = asked[j].age + 1
      BY <1>14, <3>2, <3>3, OlderAges
    <3>5. asked'[j] = [age |-> Gate!Older(asked[j].age), question |-> asked[j].question]
      BY <1>15
    <3>6. /\ accepted'[i].age = accepted[i + n].age + 1
          /\ accepted'[i].question = accepted[i + n].question
      BY <1>9, <2>2
    <3> QED
      BY <3>1, <3>2, <3>4, <3>5, <3>6
  <2>4. Asking' \subseteq Nat /\ \A i \in Asking' : i + n \in Asking
    BY <2>2
  <2> DEFINE shift == [i \in Asking' |-> i + n]
  <2>5. \A i \in Asking', j \in DOMAIN asked :
          asked[j] = AskedKeys[shift[i]] => asked'[j] = AskedKeys'[i]
    BY <2>3
  <2>6. Holds(Asking, AskedKeys, asked)
    BY DEF GateInv, Buckets
  <2>7. shift \in [Asking' -> Asking]
    BY <2>4
  <2>8. \A i, j \in Asking' : shift[i] = shift[j] => i = j
    BY <1>12, <2>4
  <2> HIDE DEF shift
  <2> QED
    BY <2>1, <2>5, <2>6, <2>7, <2>8, HoldsTick
<1>21. Buckets'
  BY <1>19, <1>20 DEF Buckets
<1>22. ASSUME NEW w \in Nat
       PROVE  /\ Gate!Lately(w)' \in SUBSET Nat /\ IsFiniteSet(Gate!Lately(w))
              /\ \A i \in Gate!Lately(w)' : i + n \in Gate!Lately(w)
              /\ Cardinality(Gate!Lately(w)) \in Nat
                   /\ Cardinality(Gate!Lately(w)') \in Nat
              /\ Cardinality(Gate!Lately(w)') <= Cardinality(Gate!Lately(w))
  <2>1. Gate!Lately(w)' \in SUBSET Nat
        /\ \A i \in Gate!Lately(w)' : i + n \in Gate!Lately(w)
    BY <1>11
  <2>2. IsFiniteSet(Gate!Lately(w)) /\ Cardinality(Gate!Lately(w)) \in Nat
    BY LatelyFinite DEF GateInv
  <2>3. IsFiniteSet(Gate!Lately(w)')
    <3>1. Gate!Lately(w)' \in SUBSET DOMAIN accepted'
      BY <1>11
    <3> QED
      BY <1>8, <3>1, FS_Subset
  <2> QED
    BY <1>12, <2>1, <2>2, <2>3, MovedCount, FS_CardinalityType
<1>23. /\ Cardinality(Gate!Lately(Minute)') <= PerMinute
       /\ Cardinality(Gate!Lately(Hour)') <= PerHour
  <2>1. /\ Cardinality(Gate!Lately(Minute)) <= PerMinute
             /\ Cardinality(Gate!Lately(Hour)) <= PerHour
        /\ PerMinute \in Nat /\ PerHour \in Nat
    BY CardinalityOfGate DEF GateInv, Gate!WithinLimits, Gate!ConstantsOK
  <2>2. /\ Cardinality(Gate!Lately(Minute)) \in Nat
             /\ Cardinality(Gate!Lately(Minute)') \in Nat
        /\ Cardinality(Gate!Lately(Minute)') <= Cardinality(Gate!Lately(Minute))
    BY <1>12, <1>22
  <2>3. /\ Cardinality(Gate!Lately(Hour)) \in Nat
             /\ Cardinality(Gate!Lately(Hour)') \in Nat
        /\ Cardinality(Gate!Lately(Hour)') <= Cardinality(Gate!Lately(Hour))
    BY <1>12, <1>22
  <2> QED
    BY <2>1, <2>2, <2>3
<1>24. ASSUME NEW q \in Questions
       PROVE  Cardinality(AskingFor(q)') <= SameQuestion
  <2>1. AskingFor(q) \in SUBSET Gate!Lately(Hour)
        /\ AskingFor(q)' \in SUBSET Gate!Lately(Hour)'
    BY DEF AskingFor
  <2>2. IsFiniteSet(AskingFor(q))
    BY <1>12, <1>22, <2>1, FS_Subset
  <2>3. \A i \in AskingFor(q)' : i + n \in AskingFor(q)
    BY <1>9, <1>11, <1>12, <2>1 DEF AskingFor
  <2>4. AskingFor(q)' \in SUBSET Nat
    BY <1>12, <1>22, <2>1
  <2>5. Cardinality(AskingFor(q)') <= Cardinality(AskingFor(q))
    BY <1>12, <2>2, <2>3, <2>4, MovedCount
  <2>6. Cardinality(AskingFor(q)) <= SameQuestion
    BY CardinalityOfGate DEF GateInv, Gate!WithinLimits, AskingFor
  <2>7. IsFiniteSet(AskingFor(q)')
    <3>1. AskingFor(q)' \in SUBSET Gate!Lately(Hour)'
          /\ Gate!Lately(Hour)' \in SUBSET DOMAIN accepted'
      BY <1>11, <1>12, <2>1
    <3> QED
      BY <1>8, <3>1, FS_Subset
  <2>8. Cardinality(AskingFor(q)) \in Nat /\ Cardinality(AskingFor(q)') \in Nat
    BY <2>2, <2>7, FS_CardinalityType
  <2> QED
    BY <2>5, <2>6, <2>8 DEF Gate!ConstantsOK
<1>25. \A i \in DOMAIN accepted' : ~accepted'[i].banned
  BY <1>9 DEF GateInv, Gate!WithinLimits
<1>26. Gate!WithinLimits'
  BY <1>23, <1>24, <1>25, CardinalityOfGate DEF Gate!WithinLimits, AskingFor
<1> QED
  BY <1>17, <1>21, <1>26 DEF GateInv

LEMMA GateNext ==
  ASSUME Gate!ConstantsOK
  PROVE  GateInv /\ [Gate!Next]_(Gate!vars) => GateInv'
<1> SUFFICES ASSUME GateInv, [Gate!Next]_(Gate!vars) PROVE GateInv'
  OBVIOUS
<1>1. CASE UNCHANGED Gate!vars
  <2>1. UNCHANGED <<minute, hour, asked, ban, call, accepted, sinceBan>>
    BY <1>1 DEF Gate!vars
  <2>2. /\ minute' \in Seq(Gate!Ages) /\ hour' \in Seq(Gate!Ages)
        /\ asked' \in Seq([age : Gate!Ages, question : Questions])
        /\ ban' \in 0..BanTime /\ sinceBan' \in 0..BanTime /\ ban' = BanTime - sinceBan'
        /\ call' \in [Calls -> [stage : {"passed"}, question : Gate!Asked] \cup {Gate!Waiting}]
        /\ Holds(Gate!Lately(Minute), Keys, minute')
             /\ Holds(Gate!Lately(Hour), Keys, hour')
        /\ Holds(Asking, AskedKeys, asked')
    BY <2>1 DEF GateInv, Gate!TypeOK, BanRuns, Buckets
  <2> QED
    BY <2>1, <2>2, NothingAdmitted
<1>2. ASSUME NEW c \in Calls, Gate!Admit(c) \/ Gate!Detect(c) \/ Gate!Answer(c)
             \/ Gate!Fail(c)
      PROVE  GateInv'
  BY <1>2, AdmitCallKeeps, LeaveKeeps
<1> QED
  BY <1>1, <1>2, RefuseKeeps, TickKeeps DEF Gate!Next

-----------------------------------------------------------------------------
(***************************************************************************)
(* Membership.  Two requests that settle one invitation have contested it, *)
(* and so has a request in flight that settles an invitation which has     *)
(* joined its user already (Contests); a request in flight has read an     *)
(* invitation that exists (Reads).  With the two properties this is        *)
(* inductive.                                                              *)
(***************************************************************************)
Reads == \A r \in Requests : handling[r].op \in Operations => handling[r].id \in Ids

Contests ==
  \A r \in Requests, i \in Ids : Settles(r, i) =>
    /\ joined[i] > 0 => i \in contested
    /\ \A q \in Requests \ {r} : Settles(q, i) => i \in contested

Inv == TypeOK /\ AdminRemains /\ AcceptedOnce /\ Reads /\ Contests

LEMMA InvInit ==
  ASSUME ConstantsOK
  PROVE  Init => Inv
<1> SUFFICES ASSUME Init PROVE Inv
  OBVIOUS
<1>1. /\ role \in [Users -> Roles \cup {NoRole}] /\ role[Founder] = "admin"
      /\ invitation = [i \in Ids |-> Unsent]
      /\ handling = [r \in Requests |-> NoRead]
      /\ joined = [i \in Ids |-> 0] /\ contested = {}
  BY DEF Init, ConstantsOK
<1>2. Unsent \in [state : {"unsent", "pending", "accepted", "declined", "cancelled"},
                  user : Users, role : Roles \cup {NoRole}, late : BOOLEAN]
  BY DEF Unsent, ConstantsOK
<1>3. TypeOK
  BY <1>1, <1>2 DEF TypeOK, NoRead
<1>4. AdminRemains
  BY <1>1 DEF AdminRemains, Admins, ConstantsOK
<1>5. AcceptedOnce
  BY <1>1 DEF AcceptedOnce, Unsent
<1>6. Reads /\ Contests
  BY <1>1 DEF Reads, Contests, Settles, NoRead, Operations, Settling
<1> QED
  BY <1>3, <1>4, <1>5, <1>6 DEF Inv

-----------------------------------------------------------------------------
(* Steps that change roles only.                                           *)

LEMMA RolesChange ==
  ASSUME Inv, UNCHANGED <<invitation, handling, joined, contested>>,
         NEW t \in Users, NEW r \in Roles \cup {NoRole},
         role' = [role EXCEPT ![t] = r],
         r = "admin" \/ NotLastAdmin(t)
  PROVE  Inv'
<1>1. TypeOK'
  BY DEF Inv, TypeOK
<1>2. AdminRemains'
  <2>1. PICK a \in Users : role[a] = "admin"
    BY DEF Inv, AdminRemains, Admins
  <2>2. CASE r = "admin"
    BY <2>2 DEF Inv, TypeOK, AdminRemains, Admins
  <2>3. CASE role[t] = "admin" /\ NotLastAdmin(t)
    <3>1. PICK b \in Users \ {t} : role[b] = "admin"
      BY <2>3 DEF NotLastAdmin, Admins
    <3>2. role'[b] = "admin"
      BY <3>1 DEF Inv, TypeOK
    <3> QED
      BY <3>2 DEF AdminRemains, Admins
  <2>4. CASE role[t] # "admin"
    <3>1. role'[a] = "admin"
      BY <2>1, <2>4 DEF Inv, TypeOK
    <3> QED
      BY <3>1 DEF AdminRemains, Admins
  <2> QED
    BY <2>2, <2>3, <2>4
<1>3. AcceptedOnce' /\ Reads' /\ Contests'
  BY DEF Inv, AcceptedOnce, Reads, Contests, Settles
<1> QED
  BY <1>1, <1>2, <1>3 DEF Inv

\* A user without a binding is not the last admin.
LEMMA NewMember ==
  ASSUME NEW u \in Users, ~Member(u)
  PROVE  NotLastAdmin(u)
  BY DEF Member, NotLastAdmin, NoRole

LEMMA UpdateKeeps ==
  ASSUME Inv, UpdateUserRole
  PROVE  Inv'
<1>1. PICK t \in Users, r \in Roles :
        (r # "admin" => MayLoseAdmin(t)) /\ role' = [role EXCEPT ![t] = r]
  BY DEF UpdateUserRole
<1>2. r = "admin" \/ NotLastAdmin(t)
  BY <1>1 DEF MayLoseAdmin
<1>3. UNCHANGED <<invitation, handling, joined, contested>>
  BY DEF UpdateUserRole
<1> QED
  BY <1>1, <1>2, <1>3, RolesChange

LEMMA RemoveKeeps ==
  ASSUME Inv, RemoveUser \/ DeleteRole
  PROVE  Inv'
<1>1. PICK t \in Users : MayLoseAdmin(t) /\ role' = [role EXCEPT ![t] = NoRole]
  BY DEF RemoveUser, DeleteRole
<1>2. NotLastAdmin(t)
  BY <1>1 DEF MayLoseAdmin
<1>3. UNCHANGED <<invitation, handling, joined, contested>>
  BY DEF RemoveUser, DeleteRole
<1> QED
  BY <1>1, <1>2, <1>3, RolesChange

LEMMA BindKeeps ==
  ASSUME ConstantsOK, Inv, CreateRole \/ Provision
  PROVE  Inv'
<1>1. PICK t \in Users, r \in Roles : ~Member(t) /\ role' = [role EXCEPT ![t] = r]
  BY DEF CreateRole, Provision, ConstantsOK
<1>2. NotLastAdmin(t)
  BY <1>1, NewMember
<1>3. UNCHANGED <<invitation, handling, joined, contested>>
  BY DEF CreateRole, Provision
<1> QED
  BY <1>1, <1>2, <1>3, RolesChange

-----------------------------------------------------------------------------
(* Steps that change one invitation, and do not accept it.                 *)

Rows == [state : {"unsent", "pending", "accepted", "declined", "cancelled"},
         user : Users, role : Roles \cup {NoRole}, late : BOOLEAN]
Handled == [op : Operations \cup {"none"}, id : Ids \cup {0}]

Counted(state, n, shared) ==
  /\ state = "accepted" => n > 0
  /\ n > 0 => state \in {"accepted", "declined", "cancelled"}
  /\ ~shared => n <= 1 /\ (n > 0 => state = "accepted")

LEMMA CountedRows ==
  AcceptedOnce <=> \A i \in Ids : Counted(invitation[i].state, joined[i], i \in contested)
  BY DEF AcceptedOnce, Counted

LEMMA RowChanges ==
  ASSUME Inv, UNCHANGED <<role, joined, contested>>,
         handling' \in [Requests -> Handled], Reads', Contests',
         NEW i \in Ids, NEW new \in Rows,
         \/ new.state = invitation[i].state
         \/ new.state = "pending" /\ joined[i] = 0
         \/ new.state \in {"declined", "cancelled"} /\ (joined[i] = 0 \/ i \in contested),
         invitation' = [invitation EXCEPT ![i] = new]
  PROVE  Inv'
<1>1. invitation \in [Ids -> Rows] /\ joined \in [Ids -> Nat]
  BY DEF Inv, TypeOK, Rows
<1>2. /\ invitation'[i] = new
      /\ \A k \in Ids \ {i} : invitation'[k] = invitation[k]
  BY <1>1
<1>3. TypeOK'
  BY <1>1 DEF Inv, TypeOK, Rows, Handled
<1>4. AdminRemains'
  BY DEF Inv, AdminRemains, Admins
<1>5. AcceptedOnce'
  <2> SUFFICES ASSUME NEW k \in Ids
               PROVE  Counted(invitation'[k].state, joined[k], k \in contested)
    BY DEF AcceptedOnce, Counted
  <2>1. Counted(invitation[k].state, joined[k], k \in contested)
    BY CountedRows DEF Inv
  <2>2. CASE k # i \/ new.state = invitation[i].state
    BY <1>2, <2>1, <2>2
  <2>3. CASE k = i /\ new.state # invitation[i].state
    <3>1. invitation'[k].state = new.state /\ joined[k] \in Nat
      BY <1>1, <1>2, <2>3
    <3>2. \/ new.state = "pending" /\ joined[k] = 0
          \/ new.state \in {"declined", "cancelled"} /\ (joined[k] = 0 \/ k \in contested)
      BY <2>3
    <3> QED
      BY <3>1, <3>2 DEF Counted
  <2> QED
    BY <2>2, <2>3
<1> QED
  BY <1>3, <1>4, <1>5 DEF Inv

LEMMA InviteKeeps ==
  ASSUME ConstantsOK, Inv, Invite
  PROVE  Inv'
<1>1. PICK u \in Users, r \in InvitedRoles, i \in Ids :
        /\ invitation[i] = Unsent
        /\ invitation' = [invitation EXCEPT ![i] =
             [state |-> "pending", user |-> u, role |-> r, late |-> FALSE]]
  BY DEF Invite
<1>2. UNCHANGED <<role, handling, joined, contested>>
  BY DEF Invite
<1>3. PICK new \in Rows : new = [state |-> "pending", user |-> u, role |-> r, late |-> FALSE]
  BY DEF ConstantsOK, Rows
<1>4. joined[i] = 0
  BY <1>1 DEF Inv, TypeOK, AcceptedOnce, Unsent
<1>5. handling' \in [Requests -> Handled] /\ Reads' /\ Contests'
  BY <1>2 DEF Inv, TypeOK, Handled, Reads, Contests, Settles
<1>6. invitation' = [invitation EXCEPT ![i] = new] /\ new.state = "pending"
  BY <1>1, <1>3
<1> QED
  BY <1>2, <1>4, <1>5, <1>6, RowChanges

LEMMA LateKeeps ==
  ASSUME Inv, BecomeLate
  PROVE  Inv'
<1>1. PICK i \in Ids : invitation' = [invitation EXCEPT ![i].late = TRUE]
  BY DEF BecomeLate
<1>2. PICK new : new = [invitation[i] EXCEPT !.late = TRUE]
  OBVIOUS
<1>3. UNCHANGED <<role, handling, joined, contested>>
  BY DEF BecomeLate
<1>4. new \in Rows /\ new.state = invitation[i].state
  BY <1>2 DEF Inv, TypeOK, Rows
<1>5. handling' \in [Requests -> Handled] /\ Reads' /\ Contests'
  BY <1>3 DEF Inv, TypeOK, Handled, Reads, Contests, Settles
<1>6. invitation' = [invitation EXCEPT ![i] = new]
  BY <1>1, <1>2
<1> QED
  BY <1>3, <1>4, <1>5, <1>6, RowChanges

-----------------------------------------------------------------------------
(* Requests on an invitation.                                              *)

LEMMA ReadKeeps ==
  ASSUME Inv, NEW r \in Requests, Read(r)
  PROVE  Inv'
<1>1. PICK op \in Operations, i \in Ids :
        /\ Allows(op, i)
        /\ handling' = [handling EXCEPT ![r] = [op |-> op, id |-> i]]
        /\ contested' = contested \cup
             {k \in {i} : op \in Settling /\ \E q \in Requests : Settles(q, k)}
  BY DEF Read
<1>2. UNCHANGED <<role, invitation, joined>>
  BY DEF Read
<1>3. /\ handling'[r] = [op |-> op, id |-> i]
      /\ \A q \in Requests \ {r} : handling'[q] = handling[q]
  BY <1>1 DEF Inv, TypeOK
<1>4. /\ contested \subseteq contested' /\ contested' \subseteq Ids
      /\ op \in Settling => \A q \in Requests : Settles(q, i) => i \in contested'
  BY <1>1 DEF Inv, TypeOK
<1>5. TypeOK'
  BY <1>1, <1>2, <1>4 DEF Inv, TypeOK
<1>6. AdminRemains'
  BY <1>2 DEF Inv, AdminRemains, Admins
<1>7. AcceptedOnce'
  BY <1>2, <1>4 DEF Inv, AcceptedOnce
<1>8. Reads'
  BY <1>3 DEF Inv, Reads
<1>9. ~(joined[i] > 0)
  <2>1. Pending(i)
    BY <1>1 DEF Allows, Usable, CanCancel, Cancellable, Operations, Settling
  <2> QED
    BY <2>1 DEF Pending, Inv, AcceptedOnce
<1>10. Contests'
  <2> SUFFICES ASSUME NEW p \in Requests, NEW k \in Ids,
                      handling'[p].op \in Settling /\ handling'[p].id = k
               PROVE  /\ joined'[k] > 0 => k \in contested'
                      /\ \A q \in Requests \ {p} :
                           handling'[q].op \in Settling /\ handling'[q].id = k => k \in contested'
    BY DEF Contests, Settles
  <2>1. CASE p = r
    <3>1. k = i /\ op \in Settling
      BY <2>1, <1>3
    <3>2. ASSUME NEW q \in Requests \ {p}, handling'[q].op \in Settling /\ handling'[q].id = k
          PROVE  k \in contested'
      BY <2>1, <3>1, <3>2, <1>3, <1>4 DEF Settles
    <3> QED
      BY <3>1, <3>2, <1>2, <1>9
  <2>2. CASE p # r
    <3>1. Settles(p, k)
      BY <2>2, <1>3 DEF Settles
    <3>2. joined'[k] > 0 => k \in contested'
      BY <3>1, <1>2, <1>4 DEF Inv, Contests
    <3>3. ASSUME NEW q \in Requests \ {p}, handling'[q].op \in Settling /\ handling'[q].id = k
          PROVE  k \in contested'
      <4>1. CASE q = r
        BY <4>1, <3>1, <3>3, <1>3, <1>4
      <4>2. CASE q # r
        <5>1. Settles(q, k)
          BY <4>2, <3>3, <1>3 DEF Settles
        <5> QED
          BY <5>1, <3>1, <1>4 DEF Inv, Contests
      <4> QED
        BY <4>1, <4>2
    <3> QED
      BY <3>2, <3>3
  <2> QED
    BY <2>1, <2>2
<1> QED
  BY <1>5, <1>6, <1>7, <1>8, <1>10 DEF Inv

\* A request that ends may have counted the invitation it settles once more.
LEMMA Leaves ==
  ASSUME Inv, NEW r \in Requests, UNCHANGED contested,
         handling' = [handling EXCEPT ![r] = NoRead],
         \A k \in Ids : joined'[k] = joined[k] \/ Settles(r, k)
  PROVE  handling' \in [Requests -> Handled] /\ Reads' /\ Contests'
<1>1. /\ handling'[r] = NoRead
      /\ \A q \in Requests \ {r} : handling'[q] = handling[q]
      /\ handling' \in [Requests -> Handled]
  BY DEF Inv, TypeOK, NoRead, Handled
<1>2. NoRead.op \notin Operations /\ Settling \subseteq Operations
  BY DEF NoRead, Operations, Settling
<1>3. Reads'
  BY <1>1, <1>2 DEF Inv, Reads
<1>4. \A q \in Requests, k \in Ids :
        handling'[q].op \in Settling /\ handling'[q].id = k => q # r /\ Settles(q, k)
  BY <1>1, <1>2 DEF Settles
<1>5. Contests'
  <2> SUFFICES ASSUME NEW p \in Requests, NEW k \in Ids,
                      handling'[p].op \in Settling /\ handling'[p].id = k
               PROVE  /\ joined'[k] > 0 => k \in contested
                      /\ \A q \in Requests \ {p} :
                           handling'[q].op \in Settling /\ handling'[q].id = k => k \in contested
    BY DEF Contests, Settles
  <2>1. p # r /\ Settles(p, k)
    BY <1>4
  <2>2. joined'[k] > 0 => k \in contested
    BY <2>1 DEF Inv, Contests
  <2>3. \A q \in Requests \ {p} :
          handling'[q].op \in Settling /\ handling'[q].id = k => k \in contested
    BY <2>1, <1>4 DEF Inv, Contests
  <2> QED
    BY <2>2, <2>3
<1> QED
  BY <1>1, <1>3, <1>5

LEMMA CloseKeeps ==
  ASSUME Inv, NEW r \in Requests, Decline(r) \/ Resend(r) \/ Cancel(r)
  PROVE  Inv'
<1>1. /\ handling[r].op \in Operations /\ handling' = [handling EXCEPT ![r] = NoRead]
      /\ UNCHANGED <<role, joined, contested>>
  BY DEF Decline, Resend, Cancel, Operations, Settling
<1>2. PICK i \in Ids : i = handling[r].id
  BY <1>1 DEF Inv, Reads
<1>3. handling' \in [Requests -> Handled] /\ Reads' /\ Contests'
  BY <1>1, Leaves
<1>4. CASE Resend(r)
  <2>1. PICK new : new = [invitation[i] EXCEPT !.late = FALSE]
    OBVIOUS
  <2>2. new \in Rows /\ new.state = invitation[i].state
    BY <2>1 DEF Inv, TypeOK, Rows
  <2>3. invitation' = [invitation EXCEPT ![i] = new]
    BY <1>2, <1>4, <2>1 DEF Resend
  <2> QED
    BY <1>1, <1>3, <2>2, <2>3, RowChanges
<1>5. CASE Decline(r) \/ Cancel(r)
  <2>1. PICK st \in {"declined", "cancelled"} :
          invitation' = [invitation EXCEPT ![i].state = st]
    BY <1>2, <1>5 DEF Decline, Cancel, SetState
  <2>2. PICK new : new = [invitation[i] EXCEPT !.state = st]
    OBVIOUS
  <2>3. new \in Rows /\ new.state = st
    BY <2>2 DEF Inv, TypeOK, Rows
  <2>4. invitation' = [invitation EXCEPT ![i] = new]
    BY <2>1, <2>2
  <2>5. Settles(r, i)
    BY <1>2, <1>5 DEF Decline, Cancel, Settles, Settling
  <2>6. joined[i] = 0 \/ i \in contested
    BY <2>5 DEF Inv, TypeOK, Contests
  <2> QED
    BY <1>1, <1>3, <2>3, <2>4, <2>6, RowChanges
<1> QED
  BY <1>4, <1>5

\* Whoever else settles the invitation has contested it with this request.
LEMMA AcceptKeeps ==
  ASSUME Inv, NEW r \in Requests, Accept(r)
  PROVE  Inv'
<1>1. /\ handling[r].op = "accept" /\ handling' = [handling EXCEPT ![r] = NoRead]
      /\ UNCHANGED contested
  BY DEF Accept
<1>2. PICK i \in Ids, u \in Users : i = handling[r].id /\ u = invitation[i].user
  <2>1. handling[r].id \in Ids
    BY <1>1 DEF Inv, Reads, Operations, Settling
  <2> QED
    BY <2>1 DEF Inv, TypeOK
<1>3. Settles(r, i)
  BY <1>1, <1>2 DEF Settles, Settling
<1>4. CASE Member(u)
  <2>1. UNCHANGED <<role, invitation, joined>>
    BY <1>2, <1>4 DEF Accept
  <2>2. handling' \in [Requests -> Handled] /\ Reads' /\ Contests'
    BY <1>1, <2>1, Leaves
  <2>3. TypeOK'
    BY <2>1, <2>2, <1>1 DEF Inv, TypeOK, Handled
  <2>4. AdminRemains' /\ AcceptedOnce'
    BY <2>1, <1>1 DEF Inv, AdminRemains, Admins, AcceptedOnce
  <2> QED
    BY <2>2, <2>3, <2>4 DEF Inv
<1>5. CASE ~Member(u)
  <2>1. /\ role' = [role EXCEPT ![u] = invitation[i].role]
        /\ invitation' = [invitation EXCEPT ![i].state = "accepted"]
        /\ joined' = [joined EXCEPT ![i] = @ + 1]
    BY <1>2, <1>5 DEF Accept, SetState
  <2>2. /\ invitation'[i].state = "accepted" /\ joined'[i] = joined[i] + 1
        /\ joined[i] \in Nat
        /\ \A k \in Ids \ {i} : invitation'[k] = invitation[k] /\ joined'[k] = joined[k]
    BY <2>1 DEF Inv, TypeOK
  <2>3. handling' \in [Requests -> Handled] /\ Reads' /\ Contests'
    <3>1. \A k \in Ids : joined'[k] = joined[k] \/ Settles(r, k)
      BY <2>2, <1>3
    <3> QED
      BY <1>1, <3>1, Leaves
  <2>4. TypeOK'
    <3>1. PICK new : new = [invitation[i] EXCEPT !.state = "accepted"]
      OBVIOUS
    <3>2. invitation' = [invitation EXCEPT ![i] = new]
      BY <2>1, <3>1
    <3>3. new \in Rows /\ invitation[i].role \in Roles \cup {NoRole}
      BY <3>1 DEF Inv, TypeOK, Rows
    <3>4. invitation' \in [Ids -> Rows]
      BY <3>2, <3>3 DEF Inv, TypeOK, Rows
    <3>5. role' \in [Users -> Roles \cup {NoRole}]
      BY <2>1, <3>3 DEF Inv, TypeOK
    <3>6. joined' \in [Ids -> Nat] /\ contested' \subseteq Ids
      BY <2>1, <1>1 DEF Inv, TypeOK
    <3> QED
      BY <3>4, <3>5, <3>6, <2>3 DEF TypeOK, Rows, Handled
  <2>5. AdminRemains'
    <3>1. PICK a \in Users : role[a] = "admin"
      BY DEF Inv, AdminRemains, Admins
    <3>2. a # u
      BY <3>1, <1>5 DEF Member, NoRole
    <3>3. role'[a] = "admin"
      BY <3>1, <3>2, <2>1 DEF Inv, TypeOK
    <3> QED
      BY <3>3 DEF AdminRemains, Admins
  <2>6. joined[i] > 0 => i \in contested
    BY <1>3 DEF Inv, Contests
  <2>7. AcceptedOnce'
    <3> SUFFICES ASSUME NEW k \in Ids
                 PROVE  Counted(invitation'[k].state, joined'[k], k \in contested)
      BY <1>1 DEF AcceptedOnce, Counted
    <3>1. CASE k = i
      BY <3>1, <2>2, <2>6 DEF Counted
    <3>2. CASE k # i
      <4>1. Counted(invitation[k].state, joined[k], k \in contested)
        BY CountedRows DEF Inv
      <4> QED
        BY <3>2, <4>1, <2>2
    <3> QED
      BY <3>1, <3>2
  <2> QED
    BY <2>3, <2>4, <2>5, <2>7 DEF Inv
<1> QED
  BY <1>4, <1>5

-----------------------------------------------------------------------------
LEMMA InvNext ==
  ASSUME ConstantsOK
  PROVE  Inv /\ [Next]_vars => Inv'
<1> SUFFICES ASSUME Inv, [Next]_vars PROVE Inv'
  OBVIOUS
<1>1. CASE UNCHANGED vars
  BY <1>1 DEF vars, Inv, TypeOK, AdminRemains, Admins, AcceptedOnce, Reads,
             Contests, Settles
<1>2. CASE Invite
  BY <1>2, InviteKeeps
<1>3. CASE BecomeLate
  BY <1>3, LateKeeps
<1>4. ASSUME NEW r \in Requests, Read(r) \/ Accept(r) PROVE Inv'
  BY <1>4, ReadKeeps, AcceptKeeps
<1>5. ASSUME NEW r \in Requests, Decline(r) \/ Resend(r) \/ Cancel(r) PROVE Inv'
  BY <1>5, CloseKeeps
<1>6. CASE UpdateUserRole
  BY <1>6, UpdateKeeps
<1>7. CASE RemoveUser \/ DeleteRole
  BY <1>7, RemoveKeeps
<1>8. CASE CreateRole \/ Provision
  BY <1>8, BindKeeps
<1> QED
  BY <1>1, <1>2, <1>3, <1>4, <1>5, <1>6, <1>7, <1>8 DEF Next

-----------------------------------------------------------------------------
(***************************************************************************)
(* The five together.                                                      *)
(***************************************************************************)
Parts == {"sessions", "factor", "members", "support", "assistant"}

Everything ==
  part \in Parts /\ SessionsInv /\ FactorInv /\ Inv /\ SupportInv /\ GateInv

LEMMA EverythingInit == Start => Everything
<1>1. ConstantsOK /\ Gate!ConstantsOK /\ MaxSetups \in Nat
  BY ConstantsAssumption DEF ConstantsFit
<1> QED
  BY <1>1, SessionsInit, FactorInit, InvInit, SupportInit, GateInit
  DEF Start, Everything, Parts

LEMMA EverythingNext == Everything /\ [Step]_allVars => Everything'
<1> SUFFICES ASSUME Everything, [Step]_allVars PROVE Everything'
  OBVIOUS
<1>1. ConstantsOK /\ Gate!ConstantsOK /\ MaxSetups \in Nat
  BY ConstantsAssumption DEF ConstantsFit
<1>2. part' = part
  BY DEF Step, allVars
<1>3. Account!Next \/ UNCHANGED Account!vars
  BY DEF Step, allVars, sessionVars, Account!vars
<1>4. Factor!Next \/ UNCHANGED Factor!vars
  BY DEF Step, allVars, factorVars, Factor!vars
<1>5. Next \/ UNCHANGED vars
  BY DEF Step, allVars, vars
<1>6. Support!Next \/ UNCHANGED Support!vars
  BY DEF Step, allVars, supportVars, Support!vars
<1>7. Gate!Next \/ UNCHANGED Gate!vars
  BY DEF Step, allVars, aiVars, Gate!vars
<1>8. SessionsInv'
  BY <1>3, SessionsNext DEF Everything
<1>9. FactorInv'
  BY <1>1, <1>4, FactorNext DEF Everything
<1>10. Inv'
  BY <1>1, <1>5, InvNext DEF Everything
<1>11. SupportInv'
  BY <1>6, SupportNext DEF Everything
<1>12. GateInv'
  BY <1>1, <1>7, GateNext DEF Everything
<1> QED
  BY <1>2, <1>8, <1>9, <1>10, <1>11, <1>12 DEF Everything

\* The operations of the five services and gates leave no malformed row, counter,
\* request or bucket, however many of them overlap.
THEOREM TypesHold == Composition => []TypesOK
<1>1. Everything => TypesOK
  BY DEF Everything, Parts, TypesOK, SessionsInv, FactorInv, Inv, SupportInv, GateInv
<1> QED
  BY <1>1, EverythingInit, EverythingNext, PTL DEF Composition

\* AuthService: what logout, logout everywhere, revocation, expiry and a change of
\* password end stays ended, and a login has one live token, but for sessions minted
\* by a login or a refresh that was already under way.
THEOREM RevocationsHold == Composition => []OnlyOverlapsEscape
<1>1. Everything => OnlyOverlapsEscape
  BY DEF Everything, OnlyOverlapsEscape, SessionsInv
<1> QED
  BY <1>1, EverythingInit, EverythingNext, PTL DEF Composition

\* _verify_login_two_factor: in whatever order a second factor is set up,
\* switched on, used and switched off, one operation after the other, a backup
\* code is accepted once, and only with the secret it was handed out with.
THEOREM CodesOnce == Composition => []CodesOfTheSecretOnce
<1>1. Everything => CodesOfTheSecretOnce
  BY DEF Everything, CodesOfTheSecretOnce, FactorInv
<1> QED
  BY <1>1, EverythingInit, EverythingNext, PTL DEF Composition

\* start_support_session, get_current_context: however starts, ends and requests
\* overlap, an admin has one support session open and works on its tenant.
THEOREM SupportStaysPinned == Composition => []SupportPinned
<1>1. Everything => SupportPinned
  BY SupportPins DEF Everything, SupportPinned
<1> QED
  BY <1>1, EverythingInit, EverythingNext, PTL DEF Composition

\* AIRateGate.check: whatever its limits, no stretch of a minute or an hour admits
\* more calls, or one question more often, than allowed, although a refused call
\* prunes some buckets and not others; and a ban admits nothing.
THEOREM LimitsHold == Composition => []WithinLimits
<1>1. Everything => WithinLimits
  BY DEF Everything, WithinLimits, GateInv
<1> QED
  BY <1>1, EverythingInit, EverythingNext, PTL DEF Composition

\* _guard_last_admin, delete_role: through any sequence of role changes, removals,
\* acceptances and provisionings an organization keeps an admin.
THEOREM AdminsRemain == Composition => []AdminRemains
<1>1. Everything => AdminRemains
  BY DEF Everything, Inv
<1> QED
  BY <1>1, EverythingInit, EverythingNext, PTL DEF Composition

\* InvitationService reads an invitation and writes it by its key: one that says
\* "accepted" has joined its user, one that joined him is never open again, and it
\* joined him once and says so unless two requests were settling it at once.
THEOREM InvitationsCount == Composition => []AcceptedOnce
<1>1. Everything => AcceptedOnce
  BY DEF Everything, Inv
<1> QED
  BY <1>1, EverythingInit, EverythingNext, PTL DEF Composition
=============================================================================
