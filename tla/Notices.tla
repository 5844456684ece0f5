------------------------------ MODULE Notices ------------------------------
(***************************************************************************)
(* Notices and their mail: EventBus.publish with NotificationEventHandler, *)
(* NotificationService.notify, the preferences of a user, the reading of   *)
(* notices, and DigestWorker.                                              *)
(*                                                                         *)
(* A handler tells the users of its event one after the other inside one   *)
(* transaction; mail leaves at once and is not taken back when the         *)
(* transaction fails.  The digest is a transaction of its own.  One digest *)
(* runs at a time.                                                         *)
(***************************************************************************)
EXTENDS Naturals, FiniteSets

CONSTANTS
  Events,        \* what handlers are called with
  Users,
  Nobody,
  Topic,         \* the type and entity of the event's notices
  Severity,      \* "info" (the application only), "warning" or "important"
  EmailEnabled,  \* settings.email_enabled
  FailSilently,  \* settings.email_fail_silently
  MaxLost        \* how many digests lose their commit

VARIABLES
  event,   \* the handler of each event, and the users it has still to tell
  notice,  \* the rows of notifications, by event and user
  prefs,   \* notification_prefs
  digest,  \* the digest that is running
  mailed,  \* history: how often each notice went out by mail
  beside,  \* history: the notices in hand or in flight when a notice was judged
  lost     \* how many digests have lost their commit

vars == <<event, notice, prefs, digest, mailed, beside, lost>>

Id == Events \X Users
Channels == {"both", "in_app", "email"}
Row == [state : {"written", "stored"}, channel : Channels, emailSent : BOOLEAN,
        digestSent : BOOLEAN, read : BOOLEAN]
NoRow == [state |-> "none"]
Handler(stage, users) ==
  [stage |-> stage, todo |-> users, now |-> Nobody, channel |-> "none", mail |-> "no"]
NoDigest == [stage |-> "idle"]
Digest == [stage : {"sending"}, listed : SUBSET Id, todo : SUBSET Users, marked : SUBSET Id]
Prefs == [email : BOOLEAN, inApp : BOOLEAN, digest : BOOLEAN]

ConstantsOK == Nobody \notin Users /\ MaxLost \in Nat

TypeOK ==
  /\ event \in [Events -> [stage : {"new", "telling", "ended"}, todo : SUBSET Users,
                         now : Users \cup {Nobody}, channel : Channels \cup {"none"},
                         mail : {"now", "later", "no"}]]
  /\ notice \in [Id -> Row \cup {NoRow}]
  /\ prefs \in [Users -> Prefs]
  /\ digest \in Digest \cup {NoDigest}
  /\ mailed \in [Id -> Nat]
  /\ beside \in [Id -> SUBSET Id]
  /\ lost \in 0..MaxLost

Init ==
  /\ event = [e \in Events |-> Handler("new", {})]
  /\ notice = [n \in Id |-> NoRow]
  /\ prefs = [u \in Users |-> [email |-> TRUE, inApp |-> TRUE, digest |-> FALSE]]
  /\ digest = NoDigest
  /\ mailed = [n \in Id |-> 0]
  /\ beside = [n \in Id |-> {}]
  /\ lost = 0

Stored == {n \in Id : notice[n].state = "stored"}
Written == {n \in Id : notice[n].state = "written"}

-----------------------------------------------------------------------------
(* Telling.                                                                *)

\* The handler is called for the users the event concerns.
Publish(e) ==
  /\ event[e].stage = "new"
  /\ \E us \in (SUBSET Users) \ {{}} : event' = [event EXCEPT ![e] = Handler("telling", us)]
  /\ UNCHANGED <<notice, prefs, digest, mailed, beside, lost>>

\* _resolve_channel and _apply_preferences; whether the mail waits for a digest.
WantsMail(e, u) == Severity[e] # "info" /\ prefs[u].email
Channel(e, u) ==
  CASE WantsMail(e, u) /\ prefs[u].inApp  -> "both"
    [] WantsMail(e, u) /\ ~prefs[u].inApp -> "email"
    [] ~WantsMail(e, u) /\ prefs[u].inApp -> "in_app"
    [] OTHER -> "none"
Mail(e, u) == IF ~WantsMail(e, u) THEN "no" ELSE IF prefs[u].digest THEN "later" ELSE "now"

\* An unread notice of the topic is there already.  Rows that are not committed are
\* not seen, and important notices are repeated.
Duplicate(e, u) ==
  /\ Severity[e] # "important"
  /\ \E n \in Stored : n[2] = u /\ Topic[n[1]] = Topic[e] /\ ~notice[n].read

Telling(e) == event[e].stage = "telling"
InHand == {<<e, event[e].now>> : e \in {f \in Events : Telling(f) /\ event[f].now # Nobody}}

Skip(e, u) ==
  /\ Telling(e) /\ event[e].now = Nobody /\ u \in event[e].todo
  /\ Duplicate(e, u) \/ Channel(e, u) = "none"
  /\ event' = [event EXCEPT ![e].todo = @ \ {u}]
  /\ UNCHANGED <<notice, prefs, digest, mailed, beside, lost>>

\* The first half of notify: the user and the notices there are have been read.
Judge(e, u) ==
  /\ Telling(e) /\ event[e].now = Nobody /\ u \in event[e].todo
  /\ ~Duplicate(e, u) /\ Channel(e, u) # "none"
  /\ event' = [event EXCEPT ![e].todo = @ \ {u}, ![e].now = u,
                            ![e].channel = Channel(e, u), ![e].mail = Mail(e, u)]
  /\ beside' = [beside EXCEPT ![<<e, u>>] = Written \cup InHand]
  /\ UNCHANGED <<notice, prefs, digest, mailed, lost>>

\* What comes of a mail: a sender that is switched off reports no failure.
Deliveries == IF EmailEnabled THEN {"sent", "failed"} ELSE {"skipped"}

\* The second half: the mail goes, fails or is left to the digest; then the row.
Write(e) ==
  /\ Telling(e) /\ event[e].now # Nobody
  /\ LET n == <<e, event[e].now>> IN
     \E delivery \in (IF event[e].mail = "now" THEN Deliveries ELSE {"skipped"}) :
       /\ delivery = "failed" => FailSilently
       /\ notice' = [notice EXCEPT ![n] =
            [state |-> "written", channel |-> event[e].channel,
             emailSent |-> delivery = "sent", digestSent |-> FALSE, read |-> FALSE]]
       /\ mailed' = [mailed EXCEPT ![n] = IF delivery = "sent" THEN @ + 1 ELSE @]
  /\ event' = [event EXCEPT ![e] = [@ EXCEPT !.now = Nobody, !.channel = "none", !.mail = "no"]]
  /\ UNCHANGED <<prefs, digest, beside, lost>>

Ended(e) == event' = [event EXCEPT ![e] = Handler("ended", {})]

CommitEvent(e) ==
  /\ Telling(e) /\ event[e].todo = {} /\ event[e].now = Nobody
  /\ notice' = [n \in Id |-> IF n[1] = e /\ n \in Written
                             THEN [notice[n] EXCEPT !.state = "stored"] ELSE notice[n]]
  /\ Ended(e)
  /\ UNCHANGED <<prefs, digest, mailed, beside, lost>>

\* A mail or a statement fails: the bus swallows the error and the handler is not
\* called again.
FailEvent(e) ==
  /\ Telling(e)
  /\ notice' = [n \in Id |-> IF n[1] = e THEN NoRow ELSE notice[n]]
  /\ Ended(e)
  /\ UNCHANGED <<prefs, digest, mailed, beside, lost>>

-----------------------------------------------------------------------------
(* The user.                                                               *)

\* A digest that has marked the row and not committed holds it locked.
Locked(n) == digest # NoDigest /\ n \in digest.marked

\* mark_read; mark_all_read is the same for each notice.
MarkRead(n) ==
  /\ n \in Stored /\ ~notice[n].read /\ ~Locked(n)
  /\ notice' = [notice EXCEPT ![n].read = TRUE]
  /\ UNCHANGED <<event, prefs, digest, mailed, beside, lost>>

UpdatePreferences(u) ==
  /\ \E f \in DOMAIN prefs[u] : prefs' = [prefs EXCEPT ![u][f] = ~@]
  /\ UNCHANGED <<event, notice, digest, mailed, beside, lost>>

-----------------------------------------------------------------------------
(* The digest.                                                             *)

\* list_pending_digest: neither the channel nor the preference for mail is asked.
Pending == {n \in Stored : ~notice[n].emailSent /\ ~notice[n].digestSent /\ ~notice[n].read}
PendingOf(u) == {n \in digest.listed : n[2] = u}

StartDigest ==
  /\ digest = NoDigest
  /\ LET due == {u \in Users : prefs[u].digest /\ \E n \in Pending : n[2] = u} IN
     /\ due # {}
     /\ digest' = [stage |-> "sending", listed |-> Pending, todo |-> due, marked |-> {}]
  /\ UNCHANGED <<event, notice, prefs, mailed, beside, lost>>

\* The notices of a user are marked unless the sender raised; the result of the
\* sender is not looked at.
MarkedUnlessFailed(delivery, ns) == IF delivery # "failed" THEN ns ELSE {}
\* Mutant: the notices are marked whatever happened to the mail.
MarkedAnyway(delivery, ns) == ns
NowMarked(delivery, ns) == MarkedUnlessFailed(delivery, ns)

SendDigest(u) ==
  /\ digest # NoDigest /\ u \in digest.todo
  /\ \E delivery \in Deliveries :
       /\ mailed' = [n \in Id |-> IF delivery = "sent" /\ n \in PendingOf(u)
                                 THEN mailed[n] + 1 ELSE mailed[n]]
       /\ digest' = [digest EXCEPT !.todo = @ \ {u},
                                   !.marked = @ \cup NowMarked(delivery, PendingOf(u))]
  /\ UNCHANGED <<event, notice, prefs, beside, lost>>

CommitDigest ==
  /\ digest # NoDigest /\ digest.todo = {}
  /\ notice' = [n \in Id |-> IF n \in digest.marked THEN [notice[n] EXCEPT !.digestSent = TRUE]
                             ELSE notice[n]]
  /\ digest' = NoDigest
  /\ UNCHANGED <<event, prefs, mailed, beside, lost>>

LoseDigest ==
  /\ digest # NoDigest /\ lost < MaxLost
  /\ lost' = lost + 1
  /\ digest' = NoDigest
  /\ UNCHANGED <<event, notice, prefs, mailed, beside>>

Next ==
  \/ \E e \in Events :
       \/ Publish(e) \/ Write(e) \/ CommitEvent(e) \/ FailEvent(e)
       \/ \E u \in Users : Skip(e, u) \/ Judge(e, u)
  \/ \E n \in Id : MarkRead(n)
  \/ \E u \in Users : UpdatePreferences(u) \/ SendDigest(u)
  \/ StartDigest \/ CommitDigest \/ LoseDigest

Spec == Init /\ [][Next]_vars

-----------------------------------------------------------------------------
SameTopic(m, n) == m # n /\ m[2] = n[2] /\ Topic[m[1]] = Topic[n[1]]

\* With the sender switched on, a notice recorded as mailed has been mailed, at
\* once or in a digest and not in both: it goes out a second time only if a digest
\* lost its commit.  Two unread notices of one matter that is not important were
\* written beside each other.
MailAccounted ==
  /\ \A n \in Stored :
       /\ notice[n].emailSent \/ (EmailEnabled /\ notice[n].digestSent) => mailed[n] > 0
       /\ mailed[n] <= 1 + lost
  /\ \A m, n \in Stored :
       SameTopic(m, n) /\ Severity[m[1]] # "important" /\ Severity[n[1]] # "important"
       /\ ~notice[m].read /\ ~notice[n].read
       => m \in beside[n] \/ n \in beside[m]
=============================================================================
