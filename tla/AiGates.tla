------------------------------ MODULE AiGates ------------------------------
(***************************************************************************)
(* The calls of one user to the AI assistant: AIRateGate, and the way      *)
(* _run_ai_action and ask_stream_prepare of AIService pass through it.  An *)
(* explanation that is answered from the cache does not come to the gate.  *)
(*                                                                         *)
(* The gate's dictionaries belong to the process.  check() has no await    *)
(* and is one step; what follows it (context, prompt gate, provider) awaits*)
(* and other calls of the user go on in between.  Time passes in ticks; a  *)
(* time stamp is kept as its age, and ages past the hour are not told apart*)
(***************************************************************************)
EXTENDS Naturals, Sequences, FiniteSets

CONSTANTS
  Calls,
  Questions,     \* what users ask
  Injections,    \* the questions the prompt gate takes for an injection
  NoQuestion,    \* a call without a question: explain and review_assist
  Minute, Hour, BanTime,
  PerMinute, PerHour, SameQuestion

VARIABLES
  minute, hour,  \* _minute_events, _hour_events: ages, oldest first
  asked,         \* _question_hashes: ages with the question
  ban,           \* the ticks left to _banned_until
  call,          \* the calls that have passed the gate and are not answered
  accepted,      \* history: the calls that passed the gate in the last hour
  sinceBan       \* history: the ticks since an injection was last detected

vars == <<minute, hour, asked, ban, call, accepted, sinceBan>>

Old == Hour + 1
Ages == 0..Old
Asked == Questions \cup {NoQuestion}
Waiting == [stage |-> "none"]

\* The limits of AIRateGate are numbers, and a minute lies within an hour.
ConstantsOK ==
  /\ PerMinute \in Nat /\ PerHour \in Nat /\ SameQuestion \in Nat
  /\ Minute \in Nat /\ Hour \in Nat /\ Minute <= Hour /\ BanTime \in Nat
  /\ NoQuestion \notin Questions

TypeOK ==
  /\ minute \in Seq(Ages) /\ hour \in Seq(Ages)
  /\ asked \in Seq([age : Ages, question : Questions])
  /\ ban \in 0..BanTime
  /\ call \in [Calls -> [stage : {"passed"}, question : Asked] \cup {Waiting}]
  /\ accepted \in Seq([age : 0..Hour, question : Asked, banned : BOOLEAN])
  /\ sinceBan \in 0..BanTime

Init ==
  /\ minute = <<>> /\ hour = <<>> /\ asked = <<>>
  /\ ban = 0
  /\ call = [c \in Calls |-> Waiting]
  /\ accepted = <<>>
  /\ sinceBan = BanTime

Older(age) == IF age = Old THEN Old ELSE age + 1

\* Entries leave a bucket from its old end while they are older than the window.
Within(age, window) == age <= window
\* Mutant: an entry as old as the window leaves it as well.
WithinStrictly(age, window) == age < window
Kept(age, window) == Within(age, window)

\* Where the loop that empties a bucket from its old end may stop: it has taken n
\* entries that are too old, and the next one is not.
Stale(ages, window) ==
  {n \in 0..Len(ages) : /\ \A i \in 1..n : ~Kept(ages[i], window)
                        /\ n < Len(ages) => Kept(ages[n + 1], window)}
Rest(bucket, n) == SubSeq(bucket, n + 1, Len(bucket))
AskedAges == [i \in DOMAIN asked |-> asked[i].age]

\* Of a bucket that n entries have been taken from.
MinuteFull(n) == Len(minute) - n >= PerMinute
HourFull(n) == Len(hour) - n >= PerHour
SameAsked(q, n) == {i \in n + 1..Len(asked) : asked[i].question = q}
TooOften(q, n) == q # NoQuestion /\ Cardinality(SameAsked(q, n)) >= SameQuestion

\* check() refuses.  The buckets it came to look at have been pruned.
Refuse ==
  /\ \E q \in Asked, m \in Stale(minute, Minute), h \in Stale(hour, Hour),
        a \in Stale(AskedAges, Hour) :
       \/ ban > 0 /\ UNCHANGED <<minute, hour, asked>>
       \/ ban = 0 /\ MinuteFull(m) /\ minute' = Rest(minute, m) /\ UNCHANGED <<hour, asked>>
       \/ /\ ban = 0 /\ ~MinuteFull(m)
          /\ HourFull(h) \/ TooOften(q, a)
          /\ minute' = Rest(minute, m)
          /\ hour' = Rest(hour, h)
          /\ asked' = IF HourFull(h) \/ q = NoQuestion THEN asked ELSE Rest(asked, a)
  /\ UNCHANGED <<ban, call, accepted, sinceBan>>

\* check() admits the call.
Admit(c) ==
  /\ call[c] = Waiting
  /\ ban = 0
  /\ \E q \in Asked, m \in Stale(minute, Minute), h \in Stale(hour, Hour),
        a \in Stale(AskedAges, Hour) :
       /\ ~MinuteFull(m) /\ ~HourFull(h) /\ ~TooOften(q, a)
       /\ minute' = Append(Rest(minute, m), 0)
       /\ hour' = Append(Rest(hour, h), 0)
       /\ asked' = IF q = NoQuestion THEN asked
                   ELSE Append(Rest(asked, a), [age |-> 0, question |-> q])
       /\ call' = [call EXCEPT ![c] = [stage |-> "passed", question |-> q]]
       /\ accepted' = Append(accepted,
            [age |-> 0, question |-> q, banned |-> sinceBan < BanTime])
  /\ UNCHANGED <<ban, sinceBan>>

BanFromNow == BanTime
\* Mutant: a ban that is running is lengthened.
BanLengthened == ban + BanTime
NewBan == BanFromNow

\* sanitize_question finds an injection: ban_user.
Detect(c) ==
  /\ call[c].stage = "passed"
  /\ call[c].question \in Injections
  /\ ban' = NewBan
  /\ sinceBan' = 0
  /\ call' = [call EXCEPT ![c] = Waiting]
  /\ UNCHANGED <<minute, hour, asked, accepted>>

\* The provider answers, or a fallback does.
Answer(c) ==
  /\ call[c].stage = "passed"
  /\ call[c].question \notin Injections
  /\ call' = [call EXCEPT ![c] = Waiting]
  /\ UNCHANGED <<minute, hour, asked, ban, accepted, sinceBan>>

\* Another gate refuses before the prompt gate is reached.
Fail(c) ==
  /\ call[c].stage = "passed"
  /\ call' = [call EXCEPT ![c] = Waiting]
  /\ UNCHANGED <<minute, hour, asked, ban, accepted, sinceBan>>

Tick ==
  /\ minute' = [i \in DOMAIN minute |-> Older(minute[i])]
  /\ hour' = [i \in DOMAIN hour |-> Older(hour[i])]
  /\ asked' = [i \in DOMAIN asked |-> [asked[i] EXCEPT !.age = Older(@)]]
  /\ ban' = IF ban = 0 THEN 0 ELSE ban - 1
  /\ LET older == [i \in DOMAIN accepted |-> [accepted[i] EXCEPT !.age = @ + 1]]
     IN  \E n \in 0..Len(accepted) :
           /\ \A i \in DOMAIN accepted : older[i].age > Hour <=> i <= n
           /\ accepted' = Rest(older, n)
  /\ sinceBan' = IF sinceBan = BanTime THEN BanTime ELSE sinceBan + 1
  /\ UNCHANGED call

Next == Refuse \/ Tick \/ \E c \in Calls : Admit(c) \/ Detect(c) \/ Answer(c) \/ Fail(c)

Spec == Init /\ [][Next]_vars

-----------------------------------------------------------------------------
Lately(window) == {i \in DOMAIN accepted : accepted[i].age <= window}

\* No stretch of a minute or an hour, both its ends included, admits more calls
\* than the limit or the same question more often than allowed, however calls,
\* refusals and detections interleave; and nothing is admitted in the hour after
\* an injection was detected.
WithinLimits ==
  /\ Cardinality(Lately(Minute)) <= PerMinute
  /\ Cardinality(Lately(Hour)) <= PerHour
  /\ \A q \in Questions :
       Cardinality({i \in Lately(Hour) : accepted[i].question = q}) <= SameQuestion
  /\ \A i \in DOMAIN accepted : ~accepted[i].banned
=============================================================================
