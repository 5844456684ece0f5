--------------------------- MODULE Reporting_proofs ---------------------------
(***************************************************************************)
(* Theorems about Reporting, for any requests, rows, connections, users,   *)
(* points, assignments, boundaries, mappings and comments.                 *)
(*                                                                         *)
(* The parts share no state: an invariant of each is shown to be inductive *)
(* under its own steps, and a step of one leaves the others alone.         *)
(***************************************************************************)
EXTENDS Reporting, FiniteSetTheorems, SequenceTheorems, WellFoundedInduction,
        TLAPS

-----------------------------------------------------------------------------
(***************************************************************************)
(* Sequences: what they hold, and whether they hold it once.               *)
(***************************************************************************)
Once(s) == \A i, j \in DOMAIN s : s[i] = s[j] => i = j

LEMMA Appended ==
  ASSUME NEW S, NEW s \in Seq(S), NEW e \in S
  PROVE  /\ Append(s, e) \in Seq(S) /\ Append(s, e) # <<>>
         /\ Events!ToSet(Append(s, e)) = Events!ToSet(s) \cup {e}
         /\ Events!Last(Append(s, e)) = e
         /\ Once(s) /\ e \notin Events!ToSet(s) => Once(Append(s, e))
<1> DEFINE t == Append(s, e)
<1>1. /\ t \in Seq(S) /\ t # <<>> /\ Len(t) = Len(s) + 1 /\ Len(s) \in Nat
      /\ \A i \in 1..Len(s) : t[i] = s[i]
      /\ t[Len(s) + 1] = e
      /\ DOMAIN s = 1..Len(s) /\ DOMAIN t = 1..Len(s) + 1
  BY AppendProperties, LenProperties
<1> HIDE DEF t
<1>2. Events!ToSet(t) = Events!ToSet(s) \cup {e}
  <2>1. \A i \in DOMAIN t : (i \in DOMAIN s /\ t[i] = s[i]) \/ i = Len(s) + 1
    BY <1>1
  <2>2. Events!ToSet(t) \subseteq Events!ToSet(s) \cup {e}
    BY <1>1, <2>1 DEF Events!ToSet
  <2>3. \A i \in DOMAIN s : i \in DOMAIN t /\ t[i] = s[i]
    BY <1>1
  <2>4. Len(s) + 1 \in DOMAIN t
    BY <1>1
  <2>5. Events!ToSet(s) \cup {e} \subseteq Events!ToSet(t)
    BY <1>1, <2>3, <2>4 DEF Events!ToSet
  <2> QED
    BY <2>2, <2>5
<1>3. Events!Last(t) = e
  BY <1>1 DEF Events!Last
<1>4. ASSUME Once(s), e \notin Events!ToSet(s) PROVE Once(t)
  <2>1. \A i \in 1..Len(s) : s[i] # e
    BY <1>1, <1>4 DEF Events!ToSet
  <2>2. \A i, j \in 1..Len(s) : s[i] = s[j] => i = j
    BY <1>1, <1>4 DEF Once
  <2>3. \A i \in 1..Len(s) + 1 : i \in 1..Len(s) \/ i = Len(s) + 1
    BY <1>1
  <2> QED
    BY <1>1, <2>1, <2>2, <2>3 DEF Once
<1> QED
  BY <1>1, <1>2, <1>3, <1>4 DEF t

LEMMA HeadAndTail ==
  ASSUME NEW S, NEW s \in Seq(S), s # <<>>
  PROVE  /\ Head(s) \in S /\ Tail(s) \in Seq(S)
         /\ Head(s) \in Events!ToSet(s)
         /\ Events!ToSet(s) = Events!ToSet(Tail(s)) \cup {Head(s)}
         /\ Once(s) => Once(Tail(s)) /\ Head(s) \notin Events!ToSet(Tail(s))
<1> DEFINE t == Tail(s)
<1>1. /\ Head(s) = s[1] /\ Head(s) \in S
      /\ t \in Seq(S) /\ Len(t) = Len(s) - 1 /\ Len(s) \in Nat \ {0}
      /\ \A i \in 1..Len(t) : t[i] = s[i + 1]
      /\ DOMAIN s = 1..Len(s) /\ DOMAIN t = 1..Len(t)
  BY HeadTailProperties, LenProperties, EmptySeq
<1> HIDE DEF t
<1>2. 1 \in DOMAIN s /\ \A i \in DOMAIN t : i + 1 \in DOMAIN s /\ i + 1 # 1 /\ t[i] = s[i + 1]
  BY <1>1
<1>3. \A i \in DOMAIN s : i = 1 \/ (i - 1 \in DOMAIN t /\ s[i] = t[i - 1])
  <2> SUFFICES ASSUME NEW i \in DOMAIN s, i # 1 PROVE i - 1 \in DOMAIN t /\ s[i] = t[i - 1]
    OBVIOUS
  <2>1. i - 1 \in 1..Len(t) /\ (i - 1) + 1 = i
    BY <1>1
  <2> QED
    BY <1>1, <2>1
<1>4. Head(s) \in Events!ToSet(s)
  BY <1>1, <1>2 DEF Events!ToSet
<1>5. Events!ToSet(s) \subseteq Events!ToSet(t) \cup {Head(s)}
  BY <1>1, <1>3 DEF Events!ToSet
<1>6. Events!ToSet(t) \subseteq Events!ToSet(s)
  BY <1>2 DEF Events!ToSet
<1>7. ASSUME Once(s) PROVE Once(t) /\ Head(s) \notin Events!ToSet(t)
  <2>1. \A i, j \in DOMAIN t : t[i] = t[j] => i + 1 = j + 1
    BY <1>2, <1>7 DEF Once
  <2>2. Once(t)
    BY <1>1, <2>1 DEF Once
  <2>3. \A i \in DOMAIN t : t[i] # Head(s)
    BY <1>1, <1>2, <1>7 DEF Once
  <2> QED
    BY <2>2, <2>3 DEF Events!ToSet
<1> QED
  BY <1>1, <1>4, <1>5, <1>6, <1>7 DEF t

LEMMA LastOne ==
  ASSUME NEW S, NEW s \in Seq(S), s # <<>>
  PROVE  /\ Events!Last(s) \in S /\ Events!Last(s) \in Events!ToSet(s)
         /\ Events!Last(s) = s[Len(s)] /\ Len(s) \in DOMAIN s
<1>1. Len(s) \in Nat \ {0} /\ DOMAIN s = 1..Len(s)
  BY LenProperties, EmptySeq
<1>2. Len(s) \in 1..Len(s)
  BY <1>1
<1>3. s[Len(s)] \in S
  BY <1>2, ElementOfSeq
<1> QED
  BY <1>1, <1>2, <1>3 DEF Events!Last, Events!ToSet

LEMMA NoneAndSingle ==
  ASSUME NEW S, NEW e \in S
  PROVE  /\ <<>> \in Seq(S) /\ Events!ToSet(<<>>) = {} /\ Once(<<>>)
         /\ <<e>> \in Seq(S) /\ Events!ToSet(<<e>>) = {e} /\ Once(<<e>>) /\ <<e>> # <<>>
BY DEF Events!ToSet, Once

LEMMA Joined ==
  ASSUME NEW S, NEW a \in S, NEW b \in S
  PROVE  <<a>> \o <<b>> = <<a, b>>
<1> DEFINE s == <<a>>
           t == <<b>>
           st == <<a, b>>
<1>1. /\ s \in Seq(S) /\ t \in Seq(S) /\ st \in Seq(S)
      /\ Len(s) = 1 /\ Len(t) = 1 /\ Len(st) = 2
      /\ s[1] = a /\ t[1] = b /\ st[1] = a /\ st[2] = b
  OBVIOUS
<1> HIDE DEF s, t, st
<1>2. (s \o t) \in Seq(S) /\ Len(s \o t) = 2 /\ (s \o t)[1] = a /\ (s \o t)[2] = b
  BY <1>1, ConcatProperties
<1>3. \A i \in 1..Len(s \o t) : i = 1 \/ i = 2
  BY <1>2
<1> QED
  BY <1>1, <1>2, <1>3, SeqEqual DEF s, t, st

LEMMA JoinedThree ==
  ASSUME NEW S, NEW a \in S, NEW b \in S, NEW c \in S
  PROVE  <<a, b>> \o <<c>> = <<a, b, c>>
<1> DEFINE s == <<a, b>>
           t == <<c>>
           st == <<a, b, c>>
<1>1. /\ s \in Seq(S) /\ t \in Seq(S) /\ st \in Seq(S)
      /\ Len(s) = 2 /\ Len(t) = 1 /\ Len(st) = 3
      /\ s[1] = a /\ s[2] = b /\ t[1] = c /\ st[1] = a /\ st[2] = b /\ st[3] = c
  OBVIOUS
<1> HIDE DEF s, t, st
<1>2. /\ (s \o t) \in Seq(S) /\ Len(s \o t) = 3
      /\ (s \o t)[1] = a /\ (s \o t)[2] = b /\ (s \o t)[3] = c
  <2>1. /\ (s \o t) \in Seq(S) /\ Len(s \o t) = Len(s) + Len(t)
        /\ \A i \in 1..Len(s) + Len(t) :
             (s \o t)[i] = IF i <= Len(s) THEN s[i] ELSE t[i - Len(s)]
    BY <1>1, ConcatProperties
  <2> QED
    BY <1>1, <2>1
<1>3. \A i \in 1..Len(s \o t) : i = 1 \/ i = 2 \/ i = 3
  BY <1>2
<1> QED
  BY <1>1, <1>2, <1>3, SeqEqual DEF s, t, st

-----------------------------------------------------------------------------
(***************************************************************************)
(* EventFanout: whom an event is told to.                                  *)
(***************************************************************************)
Handlers == {"notices", "webhooks"}
CallRecords ==
  [handler : Handlers, part : {"named", "collector", "reviewer", "roles", "endpoints"}]

\* The calls of an event: each once, the webhooks last, at most two of the notices.
CallsFit(kind, targets) ==
  LET all == Events!Calls(kind, targets) IN
  /\ all \in Seq(CallRecords) /\ Once(all)
  /\ \A i \in DOMAIN all : all[i].handler = "webhooks" => i = Len(all)
  /\ \A c \in Events!ToSet(all) :
       /\ c.handler = "webhooks" => c = Events!Call("webhooks", "endpoints")
       /\ c.part = "collector" => targets # {}
  /\ kind \in Events!Hooked => Events!Call("webhooks", "endpoints") \in Events!ToSet(all)
  /\ \E a, b \in CallRecords : \A c \in Events!ToSet(all) :
       c.handler = "notices" => c \in {a, b}

OfNamed == Events!Call("notices", "named")
OfCollector == Events!Call("notices", "collector")
OfReviewer == Events!Call("notices", "reviewer")
OfRoles == Events!Call("notices", "roles")
OfEndpoints == Events!Call("webhooks", "endpoints")

LEMMA CallsAre ==
  ASSUME NEW kind \in Events!Kinds, NEW targets
  PROVE  LET all == Events!Calls(kind, targets) IN
         /\ kind \in Events!Hooked =>
              all \in {<<OfEndpoints>>, <<OfNamed, OfEndpoints>>, <<OfRoles, OfEndpoints>>,
                       <<OfNamed, OfRoles, OfEndpoints>>}
         /\ kind \notin Events!Hooked =>
              \/ all \in {<<>>, <<OfNamed>>, <<OfRoles>>, <<OfReviewer>>}
              \/ targets # {} /\ all \in {<<OfCollector>>, <<OfCollector, OfReviewer>>}
<1> DEFINE all == Events!Calls(kind, targets)
           N == Events!Optional(kind \in Events!Named /\ targets # {}, OfNamed)
           C == Events!Optional(kind = "assignmentCreated" /\ targets # {}, OfCollector)
           V == Events!Optional(kind = "assignmentCreated" /\ Events!Cardinality(targets) > 1,
                                OfReviewer)
           R == Events!Optional(kind \in Events!Routed, OfRoles)
           W == Events!Optional(kind \in Events!Hooked, OfEndpoints)
<1>1. all = N \o C \o V \o R \o W
  BY DEF Events!Calls, OfNamed, OfCollector, OfReviewer, OfRoles, OfEndpoints
<1>2. /\ N \in {<<>>, <<OfNamed>>} /\ C \in {<<>>, <<OfCollector>>}
      /\ V \in {<<>>, <<OfReviewer>>}
      /\ R = IF kind \in Events!Routed THEN <<OfRoles>> ELSE <<>>
      /\ W = IF kind \in Events!Hooked THEN <<OfEndpoints>> ELSE <<>>
      /\ kind \notin Events!Named => N = <<>>
      /\ kind # "assignmentCreated" => C = <<>> /\ V = <<>>
      /\ C # <<>> => targets # {}
  BY DEF Events!Optional
<1>3. /\ kind = "assignmentCreated" =>
           kind \notin Events!Named /\ kind \notin Events!Routed /\ kind \notin Events!Hooked
      /\ kind \notin Events!Hooked => ~(kind \in Events!Named /\ kind \in Events!Routed)
  BY DEF Events!Named, Events!Routed, Events!Hooked, Events!PointKinds, Events!ProjectKinds,
      Events!Progress
<1> HIDE DEF all, N, C, V, R, W
<1>a. /\ OfNamed \in CallRecords /\ OfCollector \in CallRecords /\ OfReviewer \in CallRecords
      /\ OfRoles \in CallRecords /\ OfEndpoints \in CallRecords
  BY DEF CallRecords, Handlers, OfNamed, OfCollector, OfReviewer, OfRoles, OfEndpoints,
         Events!Call
<1>b. /\ <<OfCollector>> \o <<OfReviewer>> = <<OfCollector, OfReviewer>>
      /\ <<OfNamed>> \o <<OfEndpoints>> = <<OfNamed, OfEndpoints>>
      /\ <<OfNamed>> \o <<OfRoles>> = <<OfNamed, OfRoles>>
      /\ <<OfRoles>> \o <<OfEndpoints>> = <<OfRoles, OfEndpoints>>
      /\ <<OfNamed, OfRoles>> \o <<OfEndpoints>> = <<OfNamed, OfRoles, OfEndpoints>>
  BY <1>a, Joined, JoinedThree
<1>c. \A s \in Seq(CallRecords) : s \o <<>> = s /\ <<>> \o s = s
  BY ConcatEmptySeq
<1>d. /\ N \in Seq(CallRecords) /\ C \in Seq(CallRecords) /\ V \in Seq(CallRecords)
      /\ R \in Seq(CallRecords) /\ W \in Seq(CallRecords) /\ <<>> \in Seq(CallRecords)
      /\ <<OfNamed, OfRoles>> \in Seq(CallRecords)
  <2>1. \A a \in CallRecords : <<a>> \in Seq(CallRecords)
    BY NoneAndSingle
  <2>2. \A a, b \in CallRecords : <<a, b>> \in Seq(CallRecords)
    OBVIOUS
  <2> QED
    BY <1>a, <1>2, <2>1, <2>2, EmptySeq
<1>4. CASE kind = "assignmentCreated"
  <2>1. N = <<>> /\ R = <<>> /\ W = <<>>
    BY <1>2, <1>3, <1>4
  <2>2. all = C \o V
    <3>1. <<>> \o C = C /\ (C \o V) \in Seq(CallRecords)
      BY <1>c, <1>d, ConcatProperties
    <3>2. (C \o V) \o <<>> = C \o V
      BY <1>c, <3>1
    <3> QED
      BY <1>1, <2>1, <3>1, <3>2
  <2>3. all \in {<<>>, <<OfCollector>>, <<OfReviewer>>, <<OfCollector, OfReviewer>>}
    BY <1>2, <1>b, <1>c, <1>d, <2>2
  <2>4. C = <<>> => all \in {<<>>, <<OfReviewer>>}
    BY <1>2, <1>c, <1>d, <2>2
  <2> QED
    BY <1>2, <1>3, <1>4, <2>3, <2>4 DEF all
<1>5. CASE kind # "assignmentCreated"
  <2>1. C = <<>> /\ V = <<>>
    BY <1>2, <1>5
  <2>2. all = N \o R \o W
    BY <1>1, <1>c, <1>d, <2>1
  <2>3. CASE kind \in Events!Hooked
    <3>1. W = <<OfEndpoints>> /\ R \in {<<>>, <<OfRoles>>}
      BY <1>2, <2>3
    <3>2. all \in {<<OfEndpoints>>, <<OfNamed, OfEndpoints>>, <<OfRoles, OfEndpoints>>,
                   <<OfNamed, OfRoles, OfEndpoints>>}
      BY <1>2, <1>b, <1>c, <1>d, <2>2, <3>1
    <3> QED
      BY <2>3, <3>2 DEF all
  <2>4. CASE kind \notin Events!Hooked
    <3>1. W = <<>>
      BY <1>2, <2>4
    <3>2. N = <<>> \/ R = <<>>
      BY <1>2, <1>3, <2>4
    <3>3. all \in {<<>>, <<OfNamed>>, <<OfRoles>>}
      BY <1>2, <1>c, <1>d, <2>2, <3>1, <3>2
    <3> QED
      BY <2>4, <3>3 DEF all
  <2> QED
    BY <2>3, <2>4
<1> QED
  BY <1>4, <1>5

LEMMA CallsKnown ==
  ASSUME NEW kind \in Events!Kinds, NEW targets
  PROVE  CallsFit(kind, targets)
<1> DEFINE all == Events!Calls(kind, targets)
<1>1. /\ OfNamed \in CallRecords /\ OfCollector \in CallRecords /\ OfReviewer \in CallRecords
      /\ OfRoles \in CallRecords /\ OfEndpoints \in CallRecords
      /\ OfNamed.handler = "notices" /\ OfCollector.handler = "notices"
      /\ OfReviewer.handler = "notices" /\ OfRoles.handler = "notices"
      /\ OfEndpoints.handler = "webhooks"
      /\ OfNamed.part = "named" /\ OfCollector.part = "collector"
      /\ OfReviewer.part = "reviewer" /\ OfRoles.part = "roles"
      /\ OfEndpoints.part = "endpoints"
  BY DEF CallRecords, Handlers, OfNamed, OfCollector, OfReviewer, OfRoles, OfEndpoints,
         Events!Call
<1>2. /\ kind \in Events!Hooked =>
           all \in {<<OfEndpoints>>, <<OfNamed, OfEndpoints>>, <<OfRoles, OfEndpoints>>,
                    <<OfNamed, OfRoles, OfEndpoints>>}
      /\ kind \notin Events!Hooked =>
           \/ all \in {<<>>, <<OfNamed>>, <<OfRoles>>, <<OfReviewer>>}
           \/ targets # {} /\ all \in {<<OfCollector>>, <<OfCollector, OfReviewer>>}
  BY CallsAre
<1> HIDE DEF all
<1> DEFINE Fit(s) ==
      /\ s \in Seq(CallRecords) /\ Once(s)
      /\ \A i \in DOMAIN s : s[i].handler = "webhooks" => i = Len(s)
      /\ \A c \in Events!ToSet(s) :
           /\ c.handler = "webhooks" => c = OfEndpoints
           /\ c.part = "collector" => targets # {}
      /\ kind \in Events!Hooked => OfEndpoints \in Events!ToSet(s)
      /\ \E a, b \in CallRecords : \A c \in Events!ToSet(s) :
           c.handler = "notices" => c \in {a, b}
<1>3. ASSUME NEW a \in CallRecords, a.handler = "notices", a.part # "collector" \/ targets # {},
             kind \notin Events!Hooked
      PROVE  Fit(<<a>>)
  <2>1. Events!ToSet(<<a>>) = {a} /\ <<a>> \in Seq(CallRecords) /\ Once(<<a>>)
    BY NoneAndSingle
  <2> QED
    BY <1>1, <1>3, <2>1
<1>4. ASSUME NEW a \in CallRecords, a.handler = "notices", a.part # "collector"
      PROVE  Fit(<<a, OfEndpoints>>)
  <2> DEFINE s == <<a, OfEndpoints>>
  <2>1. s \in Seq(CallRecords) /\ DOMAIN s = {1, 2} /\ Len(s) = 2 /\ s[1] = a
        /\ s[2] = OfEndpoints
    BY <1>1
  <2>2. a # OfEndpoints
    BY <1>1, <1>4
  <2> HIDE DEF s
  <2>3. Events!ToSet(s) = {a, OfEndpoints}
    BY <2>1 DEF Events!ToSet
  <2>4. Once(s)
    BY <2>1, <2>2 DEF Once
  <2> QED
    BY <1>1, <1>4, <2>1, <2>3, <2>4 DEF s
<1>5. Fit(<<>>) \/ kind \in Events!Hooked
  <2>1. Events!ToSet(<<>>) = {} /\ Once(<<>>) /\ <<>> \in Seq(CallRecords)
    BY <1>1, NoneAndSingle
  <2>2. \A i \in DOMAIN <<>> : FALSE
    OBVIOUS
  <2> QED
    BY <1>1, <2>1, <2>2
<1>6. Fit(<<OfEndpoints>>)
  <2>1. /\ Events!ToSet(<<OfEndpoints>>) = {OfEndpoints}
        /\ <<OfEndpoints>> \in Seq(CallRecords) /\ Once(<<OfEndpoints>>)
    BY <1>1, NoneAndSingle
  <2> QED
    BY <1>1, <2>1
<1>7. Fit(<<OfNamed, OfRoles, OfEndpoints>>)
  <2> DEFINE s == <<OfNamed, OfRoles, OfEndpoints>>
  <2>1. s \in Seq(CallRecords) /\ DOMAIN s = {1, 2, 3} /\ Len(s) = 3 /\ s[1] = OfNamed
        /\ s[2] = OfRoles /\ s[3] = OfEndpoints
    BY <1>1
  <2>2. OfNamed # OfEndpoints /\ OfRoles # OfEndpoints /\ OfNamed # OfRoles
    BY <1>1
  <2> HIDE DEF s
  <2>3. Events!ToSet(s) = {OfNamed, OfRoles, OfEndpoints}
    BY <2>1 DEF Events!ToSet
  <2>4. Once(s)
    BY <2>1, <2>2 DEF Once
  <2>5. \A c \in Events!ToSet(s) : c.handler = "notices" => c \in {OfNamed, OfRoles}
    BY <1>1, <2>3
  <2>6. \A i \in DOMAIN s : s[i].handler = "webhooks" => i = Len(s)
    BY <1>1, <2>1
  <2>7. \A c \in Events!ToSet(s) :
          /\ c.handler = "webhooks" => c = OfEndpoints
          /\ c.part = "collector" => targets # {}
    BY <1>1, <2>3
  <2> QED
    BY <1>1, <2>1, <2>3, <2>4, <2>5, <2>6, <2>7 DEF s
<1>8. ASSUME targets # {}, kind \notin Events!Hooked PROVE Fit(<<OfCollector, OfReviewer>>)
  <2> DEFINE s == <<OfCollector, OfReviewer>>
  <2>1. s \in Seq(CallRecords) /\ DOMAIN s = {1, 2} /\ Len(s) = 2 /\ s[1] = OfCollector
        /\ s[2] = OfReviewer
    BY <1>1
  <2>2. OfCollector # OfReviewer
    BY <1>1
  <2> HIDE DEF s
  <2>3. Events!ToSet(s) = {OfCollector, OfReviewer}
    BY <2>1 DEF Events!ToSet
  <2>4. Once(s)
    BY <2>1, <2>2 DEF Once
  <2>5. \A i \in DOMAIN s : s[i].handler = "webhooks" => i = Len(s)
    BY <1>1, <2>1
  <2>6. \A c \in Events!ToSet(s) :
          /\ c.handler = "webhooks" => c = OfEndpoints
          /\ c.part = "collector" => targets # {}
    BY <1>1, <1>8, <2>3
  <2>7. \A c \in Events!ToSet(s) : c.handler = "notices" => c \in {OfCollector, OfReviewer}
    BY <2>3
  <2> QED
    BY <1>1, <1>8, <2>1, <2>4, <2>5, <2>6, <2>7 DEF s
<1>9. Fit(all)
  <2> HIDE DEF Fit
  <2> QED
    BY <1>1, <1>2, <1>3, <1>4, <1>5, <1>6, <1>7, <1>8
<1> QED
  BY <1>9 DEF CallsFit, all, OfEndpoints

(***************************************************************************)
(* Requests.  Those in progress are well formed: the rows to change are    *)
(* others than the changed ones, and the calls left are calls of the event.*)
(***************************************************************************)
Requested ==
  [stage : {"working", "publishing", "calling", "committed", "aborted"},
   kind : Events!Kinds, by : Events!Everybody, targets : NamedPeople,
   rows : Seq(ChangedRows), changed : Seq(ChangedRows), wrote : SUBSET ChangedRows,
   calls : Seq(CallRecords), seen : SUBSET Events!Everybody]

AllCalls(q) == Events!ToSet(Events!Calls(q.kind, q.targets))

InOrder(q) ==
  /\ Once(q.rows) /\ Events!ToSet(q.rows) \cap Events!ToSet(q.changed) = {}
  /\ Once(q.calls) /\ Events!ToSet(q.calls) \subseteq AllCalls(q)
  /\ \A i \in DOMAIN q.calls : q.calls[i].handler = "webhooks" => i = Len(q.calls)
  /\ q.stage \notin {"publishing", "calling"} => q.calls = <<>>
  /\ q.stage \in {"publishing", "calling"} => q.changed # <<>>
  /\ q.stage = "calling" => q.calls # <<>> /\ q.seen \subseteq Events!Reached(q, Head(q.calls).part)
  /\ q.stage # "calling" => q.seen = {}
  /\ q.wrote \subseteq Events!ToSet(q.changed)

RequestsOk ==
  /\ call \in [Requests -> Requested \cup {Events!New}]
  /\ \A r \in Requests : call[r] # Events!New => InOrder(call[r])

Becomes(r, q) == q \in Requested /\ InOrder(q) /\ call' = [call EXCEPT ![r] = q]

\* What a request is about.
Alike(q, p) == q.kind = p.kind /\ q.by = p.by /\ q.targets = p.targets

LEMMA AlikeReach ==
  ASSUME NEW q, NEW p, Alike(q, p), NEW part1
  PROVE  AllCalls(q) = AllCalls(p) /\ Events!Reached(q, part1) = Events!Reached(p, part1)
BY DEF Alike, AllCalls, Events!Reached, Events!Audience

LEMMA ReachedAreUsers ==
  ASSUME NEW q \in Requested, NEW c \in AllCalls(q)
  PROVE  c \in CallRecords /\ Events!Reached(q, c.part) \subseteq Events!Everybody
<1>1. CallsFit(q.kind, q.targets)
  BY CallsKnown DEF Requested
<1>2. (c.part = "collector" => q.targets # {}) /\ c \in CallRecords
  <2>1. \A d \in AllCalls(q) : d \in CallRecords
    BY <1>1, LenProperties, ElementOfSeq DEF CallsFit, AllCalls, Events!ToSet
  <2> QED
    BY <1>1, <2>1 DEF CallsFit, AllCalls
<1>3. q.targets \subseteq Events!Everybody
  BY EventsFit DEF Requested, Events!Everybody
<1>4. c.part \in {"named", "collector", "reviewer", "roles", "endpoints"}
  BY <1>2 DEF CallRecords
<1>5. c.part = "collector" => Events!Collector(q.targets) \in q.targets
  BY <1>2 DEF Events!Collector
<1>6. Events!Audience(q, c.part) \subseteq Events!Everybody
  BY <1>3, <1>4, <1>5 DEF Events!Audience
<1> QED
  BY <1>2, <1>6 DEF Events!Reached

LEMMA StageTells ==
  ASSUME RequestsOk, NEW r \in Requests
  PROVE  /\ Events!Stage(r) = "new" <=> call[r] = Events!New
         /\ Events!Stage(r) # "new" => call[r] \in Requested /\ InOrder(call[r])
BY DEF RequestsOk, Requested, Events!Stage, Events!New

LEMMA BecomesOk ==
  ASSUME RequestsOk, NEW r \in Requests, NEW q, Becomes(r, q)
  PROVE  /\ RequestsOk'
         /\ \A s \in Requests : call'[s] = IF s = r THEN q ELSE call[s]
         /\ q # Events!New
<1>1. /\ call \in [Requests -> Requested \cup {Events!New}] /\ q \in Requested /\ InOrder(q)
      /\ call' = [call EXCEPT ![r] = q]
  BY DEF RequestsOk, Becomes
<1>2. \A s \in Requests : call'[s] = IF s = r THEN q ELSE call[s]
  BY <1>1
<1>3. call' \in [Requests -> Requested \cup {Events!New}]
  BY <1>1
<1>4. q # Events!New
  BY <1>1 DEF Requested, Events!New
<1>5. \A s \in Requests : call'[s] # Events!New => InOrder(call'[s])
  BY <1>1, <1>2 DEF RequestsOk
<1>6. RequestsOk'
  BY <1>3, <1>5 DEF RequestsOk
<1> QED
  BY <1>2, <1>4, <1>6

LEMMA OnBegin ==
  ASSUME RequestsOk, NEW r \in Requests, Events!Begin(r)
  PROVE  \E q : /\ Becomes(r, q) /\ call[r] = Events!New
                /\ q.stage = "working" /\ q.changed = <<>> /\ Events!Free
                /\ q.wrote = {} /\ q.seen = {}
                /\ UNCHANGED <<told, unread, failed, order>>
<1>1. call[r] = Events!New
  BY StageTells DEF Events!Begin
<1>2. PICK job \in Jobs, by \in Events!Everybody, targets \in NamedPeople :
        call' = [call EXCEPT ![r] =
                     [stage |-> "working", kind |-> job.kind, by |-> by, targets |-> targets,
                      rows |-> job.rows, changed |-> <<>>, wrote |-> {}, calls |-> <<>>,
                      seen |-> {}]]
  BY DEF Events!Begin
<1> DEFINE q == [stage |-> "working", kind |-> job.kind, by |-> by, targets |-> targets,
                 rows |-> job.rows, changed |-> <<>>, wrote |-> {}, calls |-> <<>>,
                 seen |-> {}]
<1>3. job.kind \in Events!Kinds /\ job.rows \in Seq(ChangedRows) /\ Once(job.rows)
  BY EventsFit DEF Once
<1>4. /\ <<>> \in Seq(CallRecords) /\ <<>> \in Seq(ChangedRows)
      /\ Events!ToSet(<<>>) = {} /\ Once(<<>>) /\ \A i \in DOMAIN <<>> : FALSE
  BY DEF Events!ToSet, Once
<1>5. q \in Requested
  BY <1>3, <1>4 DEF Requested
<1>6. /\ q.stage = "working" /\ q.rows = job.rows /\ q.changed = <<>> /\ q.calls = <<>>
      /\ q.wrote = {} /\ q.seen = {}
  OBVIOUS
<1>7. call' = [call EXCEPT ![r] = q]
  BY <1>2
<1> HIDE DEF q
<1>8. InOrder(q)
  BY <1>3, <1>4, <1>6 DEF InOrder
<1>9. UNCHANGED <<told, unread, failed, order>> /\ Events!Free
  BY DEF Events!Begin
<1> QED
  BY <1>1, <1>5, <1>6, <1>7, <1>8, <1>9 DEF Becomes

LEMMA OnChange ==
  ASSUME RequestsOk, NEW r \in Requests, Events!Change(r)
  PROVE  \E q : \E row \in ChangedRows :
           /\ Becomes(r, q) /\ call[r] \in Requested /\ Alike(q, call[r])
           /\ call[r].stage = "working" /\ q.stage = "publishing"
           /\ q.changed = Append(call[r].changed, row)
           /\ row \notin Events!ToSet(call[r].changed)
           /\ \/ q.wrote = call[r].wrote
              \/ q.wrote = call[r].wrote \cup {row} /\ ~Events!Locked(r, row)
           /\ Events!ToSet(q.calls) = AllCalls(q) /\ q.seen = {}
           /\ UNCHANGED <<told, unread, failed, order>>
<1> DEFINE p == call[r]
           row == Head(p.rows)
<1>0. PICK written \in Events!Written(r, row) :
        call' = [call EXCEPT ![r] =
                   [p EXCEPT !.stage = "publishing", !.rows = Tail(@),
                             !.changed = Append(@, Head(p.rows)), !.wrote = @ \cup written,
                             !.calls = Events!Calls(p.kind, p.targets)]]
  BY Zenon DEF Events!Change
<1>a. written = {} \/ (written = {row} /\ ~Events!Locked(r, row))
  BY DEF Events!Written
<1> DEFINE q == [p EXCEPT !.stage = "publishing", !.rows = Tail(@),
                          !.changed = Append(@, Head(p.rows)), !.wrote = @ \cup written,
                          !.calls = Events!Calls(p.kind, p.targets)]
<1>1. /\ p.stage = "working" /\ p.rows # <<>>
      /\ call' = [call EXCEPT ![r] = q] /\ UNCHANGED <<told, unread, failed, order>>
  BY <1>0 DEF Events!Change, Events!Stage
<1>2. p \in Requested /\ InOrder(p)
  BY <1>1, StageTells DEF Events!Stage
<1>3. /\ p.kind \in Events!Kinds /\ p.by \in Events!Everybody /\ p.targets \in NamedPeople
      /\ p.rows \in Seq(ChangedRows) /\ p.changed \in Seq(ChangedRows)
  BY <1>2 DEF Requested
<1>4. /\ row \in ChangedRows /\ Tail(p.rows) \in Seq(ChangedRows) /\ row \in Events!ToSet(p.rows)
      /\ Events!ToSet(p.rows) = Events!ToSet(Tail(p.rows)) \cup {row}
      /\ Once(Tail(p.rows)) /\ row \notin Events!ToSet(Tail(p.rows))
  BY <1>1, <1>2, <1>3, HeadAndTail DEF InOrder
<1>5. /\ Append(p.changed, row) \in Seq(ChangedRows) /\ Append(p.changed, row) # <<>>
      /\ Events!ToSet(Append(p.changed, row)) = Events!ToSet(p.changed) \cup {row}
  BY <1>3, <1>4, Appended
<1>6. CallsFit(p.kind, p.targets)
  BY <1>3, CallsKnown
<1>7. /\ Events!Calls(p.kind, p.targets) \in Seq(CallRecords)
      /\ Once(Events!Calls(p.kind, p.targets))
      /\ \A i \in DOMAIN Events!Calls(p.kind, p.targets) :
           Events!Calls(p.kind, p.targets)[i].handler = "webhooks"
             => i = Len(Events!Calls(p.kind, p.targets))
  BY <1>6 DEF CallsFit
<1>8. /\ q.stage = "publishing" /\ q.kind = p.kind /\ q.by = p.by /\ q.targets = p.targets
      /\ q.rows = Tail(p.rows) /\ q.changed = Append(p.changed, row)
      /\ q.calls = Events!Calls(p.kind, p.targets)
      /\ q.wrote = p.wrote \cup written /\ q.seen = p.seen /\ p.seen = {}
  BY <1>1, <1>2 DEF Requested, InOrder
<1>9. q \in Requested
  BY <1>a, <1>2, <1>4, <1>5, <1>7 DEF Requested
<1> HIDE DEF q
<1>10. row \notin Events!ToSet(p.changed)
  BY <1>2, <1>4 DEF InOrder
<1>11. Events!ToSet(q.calls) = AllCalls(q)
  BY <1>8 DEF AllCalls
<1>12. Events!ToSet(q.rows) \cap Events!ToSet(q.changed) = {}
  <2>1. Events!ToSet(p.rows) \cap Events!ToSet(p.changed) = {}
    BY <1>2 DEF InOrder
  <2> HIDE DEF p, row
  <2> QED
    BY <1>4, <1>5, <1>8, <2>1
<1>b. q.wrote \subseteq Events!ToSet(q.changed)
  <2>1. p.wrote \subseteq Events!ToSet(p.changed)
    BY <1>2 DEF InOrder
  <2> HIDE DEF p, row
  <2> QED
    BY <1>a, <1>5, <1>8, <2>1
<1>13. InOrder(q)
  BY <1>b, <1>4, <1>5, <1>7, <1>8, <1>11, <1>12 DEF InOrder
<1>14. Becomes(r, q) /\ Alike(q, p)
  BY <1>1, <1>8, <1>9, <1>13 DEF Becomes, Alike
<1>15. /\ row \in ChangedRows /\ q.changed = Append(p.changed, row)
       /\ q.wrote = p.wrote \/ (q.wrote = p.wrote \cup {row} /\ ~Events!Locked(r, row))
  BY <1>a, <1>4, <1>8
<1> HIDE DEF row
<1> QED
  BY <1>1, <1>2, <1>8, <1>10, <1>11, <1>14, <1>15

\* A request that gets a connection for a handler, or is done with the handlers.
LEMMA OnPublishing ==
  ASSUME RequestsOk, NEW r \in Requests, Events!CallHandler(r) \/ Events!Published(r)
  PROVE  \E q : /\ Becomes(r, q) /\ call[r] \in Requested /\ Alike(q, call[r])
                /\ call[r].stage = "publishing" /\ q.stage \in {"calling", "working"}
                /\ q.stage = "calling" => Events!Free
                /\ q.changed = call[r].changed /\ q.calls = call[r].calls
                /\ q.wrote = call[r].wrote
                /\ \A u \in q.seen : <<u, q.kind, Events!Last(q.changed)>> \in unread
                /\ UNCHANGED <<told, unread, failed, order>>
<1> DEFINE p == call[r]
           to == IF p.calls # <<>> THEN "calling" ELSE "working"
           seen == IF p.calls # <<>> THEN Events!Noticed(r, Head(p.calls).part) ELSE {}
           q == [p EXCEPT !.stage = to, !.seen = seen]
<1>1. /\ p.stage = "publishing" /\ UNCHANGED <<told, unread, failed, order>>
      /\ to = "calling" => Events!Free
  BY DEF Events!CallHandler, Events!Published, Events!Stage
<1>2. p \in Requested /\ InOrder(p) /\ p.seen = {}
  BY <1>1, StageTells DEF Events!Stage, InOrder
<1>3. call' = [call EXCEPT ![r] = q]
  <2>1. CASE Events!CallHandler(r)
    BY <2>1 DEF Events!CallHandler
  <2>2. CASE Events!Published(r)
    <3>1. call' = [call EXCEPT ![r] = [p EXCEPT !.stage = "working"]] /\ p.calls = <<>>
      BY <2>2 DEF Events!Published
    <3>2. [p EXCEPT !.stage = "working"] = [p EXCEPT !.stage = "working", !.seen = {}]
      BY <1>2 DEF Requested
    <3> QED
      BY <3>1, <3>2
  <2> QED
    BY <2>1, <2>2
<1>4. to \in {"calling", "working"} /\ (to = "calling" <=> p.calls # <<>>)
  OBVIOUS
<1>9. /\ seen \subseteq Events!Everybody
      /\ to # "calling" => seen = {}
      /\ to = "calling" => seen \subseteq Events!Reached(p, Head(p.calls).part)
      /\ \A u \in seen : <<u, p.kind, Events!Last(p.changed)>> \in unread
  <2>1. CASE p.calls = <<>>
    BY <2>1
  <2>2. CASE p.calls # <<>>
    <3>1. seen = Events!Noticed(r, Head(p.calls).part)
      BY <2>2
    <3>2. /\ seen \subseteq Events!Reached(p, Head(p.calls).part)
          /\ \A u \in seen : <<u, p.kind, Events!Last(p.changed)>> \in unread
      BY <3>1 DEF Events!Noticed, Events!Current
    <3>3. Events!Reached(p, Head(p.calls).part) \subseteq Events!Everybody
      <4>1. p.calls \in Seq(CallRecords)
        BY <1>2 DEF Requested
      <4>2. Head(p.calls) \in Events!ToSet(p.calls)
        BY <2>2, <4>1, HeadAndTail
      <4> QED
        BY <1>2, <4>2, ReachedAreUsers DEF InOrder
    <3> QED
      BY <2>2, <3>2, <3>3
  <2> QED
    BY <2>1, <2>2
<1> HIDE DEF to, seen
<1>5. /\ q.stage = to /\ q.kind = p.kind /\ q.by = p.by /\ q.targets = p.targets
      /\ q.rows = p.rows /\ q.changed = p.changed /\ q.calls = p.calls
      /\ q.wrote = p.wrote /\ q.seen = seen
  BY <1>2 DEF Requested
<1>6. q \in Requested
  BY <1>2, <1>4, <1>9 DEF Requested
<1> HIDE DEF q
<1>7. AllCalls(q) = AllCalls(p) /\ \A x : Events!Reached(q, x) = Events!Reached(p, x)
  BY <1>5, AlikeReach DEF Alike
<1>8. InOrder(q)
  BY <1>1, <1>2, <1>4, <1>5, <1>7, <1>9 DEF InOrder
<1> QED
  BY <1>1, <1>2, <1>3, <1>4, <1>5, <1>6, <1>8, <1>9 DEF Becomes, Alike

LEMMA OnTell ==
  ASSUME RequestsOk, NEW r \in Requests, Events!Tell(r)
  PROVE  \E q : \E c \in CallRecords :
           /\ Becomes(r, q) /\ call[r] \in Requested /\ Alike(q, call[r])
           /\ call[r].stage = "calling" /\ q.stage = "publishing"
           /\ q.changed = call[r].changed /\ q.changed # <<>>
           /\ c \in Events!ToSet(call[r].calls) /\ c \notin Events!ToSet(q.calls)
           /\ Events!ToSet(call[r].calls) = Events!ToSet(q.calls) \cup {c}
           /\ call[r].seen \subseteq Events!Reached(call[r], c.part)
           /\ q.seen = {} /\ q.wrote = call[r].wrote
           /\ told' = Append(told, [request |-> r, row |-> Events!Last(q.changed), call |-> c,
                                    users |-> Events!Reached(call[r], c.part) \ call[r].seen,
                                    spared |-> call[r].seen])
           /\ unread' = unread \cup ((Events!Reached(call[r], c.part) \ call[r].seen)
                                        \X ({q.kind} \cap Events!Quiet)
                                        \X {Events!Last(q.changed)})
           /\ UNCHANGED <<failed, order>>
<1> DEFINE p == call[r]
           c == Head(p.calls)
           q == [p EXCEPT !.stage = "publishing", !.calls = Tail(@), !.seen = {}]
<1>1. /\ p.stage = "calling"
      /\ told' = Append(told, [request |-> r, row |-> Events!Current(r), call |-> c,
                               users |-> Events!Reached(p, c.part) \ p.seen,
                               spared |-> p.seen])
      /\ unread' = unread \cup ((Events!Reached(p, c.part) \ p.seen)
                                   \X ({p.kind} \cap Events!Quiet) \X {Events!Current(r)})
      /\ call' = [call EXCEPT ![r] = q] /\ UNCHANGED <<failed, order>>
  BY DEF Events!Tell, Events!Stage
<1>2. p \in Requested /\ InOrder(p)
  BY <1>1, StageTells DEF Events!Stage
<1>3. p.calls \in Seq(CallRecords) /\ p.calls # <<>> /\ p.changed # <<>>
  BY <1>1, <1>2 DEF Requested, InOrder
<1>4. /\ c \in CallRecords /\ Tail(p.calls) \in Seq(CallRecords)
      /\ c \in Events!ToSet(p.calls)
      /\ Events!ToSet(p.calls) = Events!ToSet(Tail(p.calls)) \cup {c}
      /\ Once(Tail(p.calls)) /\ c \notin Events!ToSet(Tail(p.calls))
  BY <1>2, <1>3, HeadAndTail DEF InOrder
<1>5. /\ q.stage = "publishing" /\ q.kind = p.kind /\ q.by = p.by /\ q.targets = p.targets
      /\ q.rows = p.rows /\ q.changed = p.changed /\ q.calls = Tail(p.calls)
      /\ q.wrote = p.wrote /\ q.seen = {}
  BY <1>2 DEF Requested
<1>6. q \in Requested
  BY <1>2, <1>4 DEF Requested
<1> HIDE DEF q
<1>7. AllCalls(q) = AllCalls(p)
  BY <1>5 DEF AllCalls
<1>8. \A i \in DOMAIN q.calls : q.calls[i].handler = "webhooks" => i = Len(q.calls)
  <2>1. /\ Len(p.calls) \in Nat \ {0} /\ Len(q.calls) = Len(p.calls) - 1
        /\ DOMAIN p.calls = 1..Len(p.calls) /\ DOMAIN q.calls = 1..Len(q.calls)
        /\ \A i \in 1..Len(q.calls) : q.calls[i] = p.calls[i + 1]
    BY <1>3, <1>4, <1>5, HeadTailProperties, LenProperties, EmptySeq
  <2>2. \A i \in 1..Len(p.calls) : p.calls[i].handler = "webhooks" => i = Len(p.calls)
    BY <1>2, <2>1 DEF InOrder
  <2> SUFFICES ASSUME NEW i \in DOMAIN q.calls, q.calls[i].handler = "webhooks"
               PROVE  i = Len(q.calls)
    OBVIOUS
  <2>3. i \in Nat /\ i + 1 \in 1..Len(p.calls) /\ q.calls[i] = p.calls[i + 1]
    BY <2>1
  <2>4. i + 1 = Len(p.calls)
    BY <2>2, <2>3
  <2> QED
    BY <2>1, <2>3, <2>4
<1>9. InOrder(q)
  BY <1>2, <1>3, <1>4, <1>5, <1>7, <1>8 DEF InOrder
<1>10. Events!Current(r) = Events!Last(q.changed)
  BY <1>5 DEF Events!Current
<1>11. Becomes(r, q) /\ Alike(q, p)
  BY <1>1, <1>5, <1>6, <1>9 DEF Becomes, Alike
<1>12. /\ c \in CallRecords /\ c \in Events!ToSet(p.calls) /\ c \notin Events!ToSet(q.calls)
       /\ Events!ToSet(p.calls) = Events!ToSet(q.calls) \cup {c}
       /\ p.seen \subseteq Events!Reached(p, c.part)
       /\ told' = Append(told, [request |-> r, row |-> Events!Last(q.changed), call |-> c,
                                users |-> Events!Reached(p, c.part) \ p.seen,
                                spared |-> p.seen])
       /\ unread' = unread \cup ((Events!Reached(p, c.part) \ p.seen)
                                    \X ({q.kind} \cap Events!Quiet)
                                    \X {Events!Last(q.changed)})
  BY <1>1, <1>2, <1>4, <1>5, <1>10 DEF InOrder
<1> HIDE DEF c
<1> QED
  BY <1>1, <1>2, <1>3, <1>5, <1>11, <1>12

\* The calls that a failure leaves out are all of the handler that failed.
LEMMA OnFail ==
  ASSUME RequestsOk, NEW r \in Requests, Events!Fail(r)
  PROVE  \E q : \E h \in Handlers :
           /\ Becomes(r, q) /\ call[r] \in Requested /\ Alike(q, call[r])
           /\ call[r].stage \in {"calling", "publishing"} /\ q.stage = "publishing"
           /\ q.changed = call[r].changed /\ q.changed # <<>>
           /\ Events!ToSet(q.calls) \subseteq Events!ToSet(call[r].calls)
           /\ \A c \in Events!ToSet(call[r].calls) :
                c \in Events!ToSet(q.calls) \/ c.handler = h
           /\ failed' = failed \cup {<<r, Events!Last(q.changed), h>>}
           /\ q.seen = {} /\ q.wrote = call[r].wrote
           /\ UNCHANGED <<told, unread, order>>
<1> DEFINE p == call[r]
           h == Head(p.calls).handler
           left == Events!AfterFailure(p.calls)
           q == [p EXCEPT !.stage = "publishing", !.calls = Events!AfterFailure(@),
                          !.seen = {}]
<1>1. /\ p.stage = "calling" \/ (p.stage = "publishing" /\ p.calls # <<>>)
      /\ failed' = failed \cup {<<r, Events!Current(r), h>>}
      /\ call' = [call EXCEPT ![r] = q] /\ UNCHANGED <<told, unread, order>>
  BY DEF Events!Fail, Events!Stage
<1>2. p \in Requested /\ InOrder(p)
  BY <1>1, StageTells DEF Events!Stage
<1>3. p.calls \in Seq(CallRecords) /\ p.calls # <<>> /\ p.changed # <<>>
  BY <1>1, <1>2 DEF Requested, InOrder
<1>4. /\ Head(p.calls) \in CallRecords /\ Events!Last(p.calls) \in CallRecords
      /\ Events!Last(p.calls) \in Events!ToSet(p.calls)
      /\ Events!Last(p.calls) = p.calls[Len(p.calls)]
  BY <1>3, HeadAndTail, LastOne
<1>5. h \in Handlers
  BY <1>4 DEF CallRecords
<1>6. /\ left \in Seq(CallRecords) /\ Once(left)
      /\ Events!ToSet(left) \subseteq {Events!Last(p.calls)}
      /\ \A i \in DOMAIN left : i = Len(left)
      /\ h # Events!Last(p.calls).handler => Events!Last(p.calls) \in Events!ToSet(left)
  <2>1. CASE h = Events!Last(p.calls).handler
    <3>1. left = <<>>
      BY <2>1 DEF Events!AfterFailure
    <3>2. /\ <<>> \in Seq(CallRecords) /\ Once(<<>>) /\ Events!ToSet(<<>>) = {}
          /\ \A i \in DOMAIN <<>> : FALSE
      BY DEF Once, Events!ToSet
    <3> QED
      BY <2>1, <3>1, <3>2
  <2>2. CASE h # Events!Last(p.calls).handler
    <3> DEFINE l == Events!Last(p.calls)
    <3>1. left = <<l>>
      BY <2>2 DEF Events!AfterFailure
    <3> HIDE DEF l
    <3>2. l \in CallRecords
      BY <1>4 DEF l
    <3>3. <<l>> \in Seq(CallRecords) /\ Once(<<l>>) /\ Events!ToSet(<<l>>) = {l}
      BY <3>2, NoneAndSingle
    <3>4. \A i \in DOMAIN <<l>> : i = Len(<<l>>)
      OBVIOUS
    <3> QED
      BY <3>1, <3>3, <3>4 DEF l
  <2> QED
    BY <2>1, <2>2
<1>7. \A c \in Events!ToSet(p.calls) : c \in Events!ToSet(left) \/ c.handler = h
  <2> SUFFICES ASSUME NEW c \in Events!ToSet(p.calls), c.handler # h
               PROVE  c \in Events!ToSet(left)
    OBVIOUS
  <2>1. /\ DOMAIN p.calls = 1..Len(p.calls) /\ Len(p.calls) \in Nat \ {0}
        /\ Head(p.calls) = p.calls[1]
    BY <1>3, LenProperties, EmptySeq
  <2>2. PICK i \in DOMAIN p.calls : c = p.calls[i]
    BY DEF Events!ToSet
  <2>3. \A k \in DOMAIN p.calls : p.calls[k].handler = "webhooks" => k = Len(p.calls)
    BY <1>2 DEF InOrder
  <2>4. c.handler \in Handlers
    <3>1. c \in CallRecords
      BY <1>3, <2>1, <2>2, ElementOfSeq
    <3> QED
      BY <3>1 DEF CallRecords
  <2>5. CASE c.handler = "webhooks"
    <3>1. c = Events!Last(p.calls)
      BY <1>4, <2>2, <2>3, <2>5
    <3> QED
      BY <1>6, <3>1
  <2>6. CASE h = "webhooks"
    <3>1. 1 \in DOMAIN p.calls
      BY <2>1
    <3>2. Len(p.calls) = 1
      BY <2>1, <2>3, <2>6, <3>1
    <3>3. i = 1
      BY <2>1, <2>2, <3>2
    <3> QED
      BY <2>1, <2>2, <3>3
  <2> QED
    BY <1>5, <2>4, <2>5, <2>6 DEF Handlers
<1>8. Events!ToSet(left) \subseteq Events!ToSet(p.calls)
  BY <1>4, <1>6
<1> HIDE DEF left
<1>9. q = [p EXCEPT !.stage = "publishing", !.calls = left, !.seen = {}]
  BY DEF left
<1>10. /\ q.stage = "publishing" /\ q.kind = p.kind /\ q.by = p.by /\ q.targets = p.targets
       /\ q.rows = p.rows /\ q.changed = p.changed /\ q.calls = left
       /\ q.wrote = p.wrote /\ q.seen = {}
  BY <1>2, <1>9 DEF Requested
<1>11. q \in Requested
  BY <1>2, <1>6, <1>9 DEF Requested
<1> HIDE DEF q
<1>12. AllCalls(q) = AllCalls(p)
  BY <1>10 DEF AllCalls
<1>13. InOrder(q)
  BY <1>2, <1>3, <1>6, <1>8, <1>10, <1>12 DEF InOrder
<1>14. Events!Current(r) = Events!Last(q.changed)
  BY <1>10 DEF Events!Current
<1>15. Becomes(r, q) /\ Alike(q, p)
  BY <1>1, <1>10, <1>11, <1>13 DEF Becomes, Alike
<1>16. failed' = failed \cup {<<r, Events!Last(q.changed), h>>}
  BY <1>1, <1>14
<1>17. \A c \in Events!ToSet(p.calls) : c \in Events!ToSet(q.calls) \/ c.handler = h
  BY <1>7, <1>10
<1>18. Events!ToSet(q.calls) \subseteq Events!ToSet(p.calls)
  BY <1>8, <1>10
<1> HIDE DEF h
<1> QED
  BY <1>1, <1>2, <1>3, <1>5, <1>10, <1>15, <1>16, <1>17, <1>18

LEMMA OnEnd ==
  ASSUME RequestsOk, NEW r \in Requests, Events!Commit(r) \/ Events!Abort(r)
  PROVE  \E q : /\ Becomes(r, q) /\ call[r] \in Requested /\ Alike(q, call[r])
                /\ call[r].stage = "working"
                /\ q.changed = call[r].changed /\ q.calls = call[r].calls
                /\ \/ q.stage = "committed" /\ order' = Append(order, r)
                   \/ q.stage = "aborted" /\ order' = order
                /\ q.seen = {} /\ q.wrote = call[r].wrote
                /\ UNCHANGED <<told, unread, failed>>
<1> DEFINE p == call[r]
<1>1. PICK to \in {"committed", "aborted"} :
        /\ p.stage = "working"
        /\ call' = [call EXCEPT ![r].stage = to] /\ UNCHANGED <<told, unread, failed>>
        /\ to = "committed" => order' = Append(order, r)
        /\ to = "aborted" => order' = order
  <2>1. CASE Events!Commit(r)
    BY <2>1 DEF Events!Commit, Events!Stage
  <2>2. CASE Events!Abort(r)
    BY <2>2 DEF Events!Abort, Events!Stage
  <2> QED
    BY <2>1, <2>2
<1> DEFINE q == [p EXCEPT !.stage = to]
<1>2. p \in Requested /\ InOrder(p)
  BY <1>1, StageTells DEF Events!Stage
<1>3. call' = [call EXCEPT ![r] = q]
  BY <1>1
<1>4. /\ q.stage = to /\ q.kind = p.kind /\ q.by = p.by /\ q.targets = p.targets
      /\ q.rows = p.rows /\ q.changed = p.changed /\ q.calls = p.calls
      /\ q.wrote = p.wrote /\ q.seen = {}
  BY <1>1, <1>2 DEF Requested, InOrder
<1>5. q \in Requested
  BY <1>1, <1>2 DEF Requested
<1> HIDE DEF q
<1>6. AllCalls(q) = AllCalls(p)
  BY <1>4 DEF AllCalls
<1>7. InOrder(q)
  BY <1>1, <1>2, <1>4, <1>6 DEF InOrder
<1> QED
  BY <1>1, <1>2, <1>3, <1>4, <1>5, <1>7 DEF Becomes, Alike

(***************************************************************************)
(* The pool: no more connections are in use than there are.                *)
(***************************************************************************)
PoolOk == Events!Held <= PoolSize

LEMMA CardinalityOfEvents == \A S : Events!Cardinality(S) = Cardinality(S)
BY DEF Events!Cardinality, Cardinality

LEMMA Grows ==
  ASSUME NEW S, IsFiniteSet(S), NEW T, NEW r, T \subseteq S \cup {r}
  PROVE  /\ Cardinality(S) \in Nat /\ Cardinality(T) \in Nat
         /\ Cardinality(T) <= Cardinality(S) + 1
         /\ T \subseteq S => Cardinality(T) <= Cardinality(S)
<1>1. IsFiniteSet(S \cup {r}) /\ Cardinality(S) \in Nat
      /\ Cardinality(S \cup {r}) \in {Cardinality(S), Cardinality(S) + 1}
  BY FS_AddElement, FS_CardinalityType
<1>2. IsFiniteSet(T) /\ Cardinality(T) \in Nat /\ Cardinality(T) <= Cardinality(S \cup {r})
  BY <1>1, FS_Subset, FS_CardinalityType
<1>3. T \subseteq S => Cardinality(T) <= Cardinality(S)
  BY FS_Subset
<1> QED
  BY <1>1, <1>2, <1>3

LEMMA PoolStep ==
  ASSUME RequestsOk, PoolOk, NEW r \in Requests, NEW q, Becomes(r, q),
         \/ Events!Free /\ (Events!Open(r) \/ q.stage # "calling")
         \/ Events!Open(r) /\ q.stage # "calling"
  PROVE  PoolOk'
<1> DEFINE O == {s \in Requests : Events!Open(s)}
           K == {s \in Requests : Events!Stage(s) = "calling"}
<1>1. Events!Held = Cardinality(O) + Cardinality(K)
  BY CardinalityOfEvents DEF Events!Held
<1>2. Events!Held' = Cardinality(O') + Cardinality(K')
  BY CardinalityOfEvents DEF Events!Held
<1>3. \A s \in Requests : call'[s] = IF s = r THEN q ELSE call[s]
  BY BecomesOk
<1>4. /\ O' \subseteq O \cup {r} /\ K' \subseteq K \cup {r}
      /\ Events!Open(r) => O' \subseteq O
      /\ q.stage # "calling" => K' \subseteq K
  BY <1>3 DEF Events!Open, Events!Stage
<1>5. IsFiniteSet(O) /\ IsFiniteSet(K)
  <2>1. IsFiniteSet(Requests)
    BY EventsFit DEF Events!IsFiniteSet, IsFiniteSet
  <2> QED
    BY <2>1, FS_Subset
<1> HIDE DEF O, K
<1>6. /\ Cardinality(O) \in Nat /\ Cardinality(O') \in Nat
      /\ Cardinality(O') <= Cardinality(O) + 1
      /\ O' \subseteq O => Cardinality(O') <= Cardinality(O)
  BY <1>4, <1>5, Grows
<1>7. /\ Cardinality(K) \in Nat /\ Cardinality(K') \in Nat
      /\ Cardinality(K') <= Cardinality(K) + 1
      /\ K' \subseteq K => Cardinality(K') <= Cardinality(K)
  BY <1>4, <1>5, Grows
<1>8. PoolSize \in Nat
  BY EventsFit
<1>9. Events!Held <= PoolSize /\ (Events!Free => Events!Held < PoolSize)
  BY DEF PoolOk, Events!Free
<1>10. Events!Held' <= PoolSize
  <2>1. CASE Events!Open(r) /\ q.stage # "calling"
    BY <1>1, <1>2, <1>4, <1>6, <1>7, <1>8, <1>9, <2>1
  <2>2. CASE Events!Free /\ Events!Open(r)
    BY <1>1, <1>2, <1>4, <1>6, <1>7, <1>8, <1>9, <2>2
  <2>3. CASE Events!Free /\ q.stage # "calling"
    BY <1>1, <1>2, <1>4, <1>6, <1>7, <1>8, <1>9, <2>3
  <2> QED
    BY <2>1, <2>2, <2>3
<1> QED
  BY <1>10 DEF PoolOk

(***************************************************************************)
(* What handlers have told.  A telling is about a row its request changed, *)
(* by a call of the event; no call is made twice; and each call of each    *)
(* changed row is still to be made, has failed with its handler, or was    *)
(* made.                                                                   *)
(***************************************************************************)
Tellings ==
  [request : Requests, row : ChangedRows, call : CallRecords,
   users : SUBSET Events!Everybody, spared : SUBSET Events!Everybody]

Telling(t) ==
  LET q == call[t.request] IN
  /\ q # Events!New /\ t.row \in Events!ToSet(q.changed)
  /\ t.call \in AllCalls(q) /\ t.users \cup t.spared = Events!Reached(q, t.call.part)
  /\ t.row = Events!Last(q.changed) => t.call \notin Events!ToSet(q.calls)

Told(r, row, c) ==
  \E i \in DOMAIN told : told[i].request = r /\ told[i].row = row /\ told[i].call = c

Handled(r, row, c) ==
  \/ row = Events!Last(call[r].changed) /\ c \in Events!ToSet(call[r].calls)
  \/ <<r, row, c.handler>> \in failed
  \/ Told(r, row, c)

ToldOk ==
  /\ told \in Seq(Tellings) /\ failed \subseteq Requests \X ChangedRows \X Handlers
  /\ \A i \in DOMAIN told : Telling(told[i])
  /\ \A i, j \in DOMAIN told :
       /\ told[i].request = told[j].request /\ told[i].row = told[j].row
       /\ told[i].call = told[j].call
       => i = j
  /\ \A r \in Requests : call[r] # Events!New =>
       \A row \in Events!ToSet(call[r].changed) : \A c \in AllCalls(call[r]) :
         Handled(r, row, c)

\* As long as nobody is told: the calls left are fewer, and those dropped have failed.
LEMMA ToldStands ==
  ASSUME RequestsOk, ToldOk, NEW r \in Requests, NEW q, Becomes(r, q), told' = told,
         failed \subseteq failed', failed' \subseteq Requests \X ChangedRows \X Handlers,
         \/ call[r] = Events!New /\ q.changed = <<>>
         \/ /\ call[r] \in Requested /\ Alike(q, call[r]) /\ q.changed = call[r].changed
            /\ Events!ToSet(q.calls) \subseteq Events!ToSet(call[r].calls)
            /\ \A c \in Events!ToSet(call[r].calls) :
                 \/ c \in Events!ToSet(q.calls)
                 \/ <<r, Events!Last(q.changed), c.handler>> \in failed'
  PROVE  ToldOk'
<1>1. \A s \in Requests : call'[s] = IF s = r THEN q ELSE call[s]
  BY BecomesOk
<1>2. ASSUME NEW i \in DOMAIN told PROVE Telling(told[i])'
  <2> DEFINE t == told[i]
  <2>1. Telling(t) /\ t.request \in Requests /\ t \in Tellings
    <3>1. t \in Tellings
      BY LenProperties, ElementOfSeq DEF ToldOk
    <3> QED
      BY <3>1 DEF ToldOk, Tellings
  <2>2. CASE t.request # r
    BY <1>1, <2>1, <2>2 DEF Telling
  <2>3. CASE t.request = r
    <3>1. call[r] # Events!New /\ call'[r] = q /\ q # Events!New
      BY <1>1, <2>1, <2>3, BecomesOk DEF Telling
    <3>2. AllCalls(q) = AllCalls(call[r])
          /\ Events!Reached(q, t.call.part) = Events!Reached(call[r], t.call.part)
      BY <3>1, AlikeReach
    <3>3. Events!Reached(call[t.request], t.call.part)' = Events!Reached(q, t.call.part)
      BY <2>3, <3>1 DEF Events!Reached, Events!Audience
    <3> QED
      BY <2>1, <2>3, <3>1, <3>2, <3>3 DEF Telling
  <2> QED
    BY <2>2, <2>3
<1>3. ASSUME NEW s \in Requests, call'[s] # Events!New,
             NEW row \in Events!ToSet(call'[s].changed), NEW c \in AllCalls(call'[s])
      PROVE  Handled(s, row, c)'
  <2>1. Told(s, row, c) => Told(s, row, c)'
    BY DEF Told
  <2>2. CASE s # r
    <3>1. Handled(s, row, c)
      BY <1>1, <1>3, <2>2 DEF ToldOk
    <3> QED
      BY <1>1, <2>1, <2>2, <3>1 DEF Handled
  <2>3. CASE s = r
    <3>1. call'[s] = q
      BY <1>1, <2>3
    <3>2. call[r] # Events!New
      <4>1. Events!ToSet(<<>>) = {}
        BY DEF Events!ToSet
      <4>2. call[r] \in Requested => call[r] # Events!New
        BY DEF Requested, Events!New
      <4> QED
        BY <1>3, <3>1, <4>1, <4>2
    <3>3. AllCalls(q) = AllCalls(call[r]) /\ q.changed = call[r].changed
      BY <3>2, AlikeReach
    <3>4. Handled(r, row, c)
      BY <1>3, <3>1, <3>2, <3>3 DEF ToldOk
    <3> QED
      BY <2>1, <2>3, <3>1, <3>2, <3>3, <3>4 DEF Handled
  <2> QED
    BY <2>2, <2>3
<1> QED
  BY <1>2, <1>3 DEF ToldOk

\* A row is changed, and all the calls are to be made.
LEMMA ToldChanges ==
  ASSUME RequestsOk, ToldOk, NEW r \in Requests, Events!Change(r)
  PROVE  ToldOk'
<1>1. PICK q : \E row \in ChangedRows :
           /\ Becomes(r, q) /\ call[r] \in Requested /\ Alike(q, call[r])
           /\ call[r].stage = "working" /\ q.stage = "publishing"
           /\ q.changed = Append(call[r].changed, row)
           /\ row \notin Events!ToSet(call[r].changed)
           /\ \/ q.wrote = call[r].wrote
              \/ q.wrote = call[r].wrote \cup {row} /\ ~Events!Locked(r, row)
           /\ Events!ToSet(q.calls) = AllCalls(q) /\ q.seen = {}
           /\ UNCHANGED <<told, unread, failed, order>>
  BY OnChange
<1>2. PICK row \in ChangedRows :
           /\ Becomes(r, q) /\ call[r] \in Requested /\ Alike(q, call[r])
           /\ call[r].stage = "working" /\ q.stage = "publishing"
           /\ q.changed = Append(call[r].changed, row)
           /\ row \notin Events!ToSet(call[r].changed)
           /\ \/ q.wrote = call[r].wrote
              \/ q.wrote = call[r].wrote \cup {row} /\ ~Events!Locked(r, row)
           /\ Events!ToSet(q.calls) = AllCalls(q) /\ q.seen = {}
           /\ UNCHANGED <<told, unread, failed, order>>
  BY <1>1
<1>3. \A s \in Requests : call'[s] = IF s = r THEN q ELSE call[s]
  BY <1>2, BecomesOk
<1>4. /\ call[r] # Events!New /\ q # Events!New
      /\ call[r].changed \in Seq(ChangedRows) /\ call[r].calls = <<>>
  <2>1. call[r] # Events!New /\ q # Events!New
    BY <1>2, BecomesOk DEF Requested, Events!New
  <2>2. call[r].changed \in Seq(ChangedRows) /\ InOrder(call[r])
    BY <1>2, <2>1 DEF Requested, RequestsOk
  <2> QED
    BY <1>2, <2>1, <2>2 DEF InOrder
<1>5. /\ Events!ToSet(q.changed) = Events!ToSet(call[r].changed) \cup {row}
      /\ Events!Last(q.changed) = row
  BY <1>2, <1>4, Appended
<1>6. ASSUME NEW i \in DOMAIN told PROVE Telling(told[i])'
  <2> DEFINE t == told[i]
  <2>1. Telling(t) /\ t.request \in Requests
    <3>1. t \in Tellings
      BY LenProperties, ElementOfSeq DEF ToldOk
    <3> QED
      BY <3>1 DEF ToldOk, Tellings
  <2>2. CASE t.request # r
    BY <1>2, <1>3, <2>1, <2>2 DEF Telling
  <2>3. CASE t.request = r
    <3>1. AllCalls(q) = AllCalls(call[r])
          /\ Events!Reached(q, t.call.part) = Events!Reached(call[r], t.call.part)
      BY <1>2, AlikeReach
    <3>2. Events!Reached(call[t.request], t.call.part)' = Events!Reached(q, t.call.part)
      BY <1>2, <1>3, <2>3 DEF Events!Reached, Events!Audience
    <3>3. t.row \in Events!ToSet(q.changed) /\ t.row # Events!Last(q.changed)
      BY <1>2, <1>5, <2>1, <2>3 DEF Telling
    <3> QED
      BY <1>2, <1>3, <1>4, <2>1, <2>3, <3>1, <3>2, <3>3 DEF Telling
  <2> QED
    BY <2>2, <2>3
<1>7. ASSUME NEW s \in Requests, call'[s] # Events!New,
             NEW x \in Events!ToSet(call'[s].changed), NEW c \in AllCalls(call'[s])
      PROVE  Handled(s, x, c)'
  <2>1. Told(s, x, c) => Told(s, x, c)'
    BY <1>2 DEF Told
  <2>2. CASE s # r
    <3>1. Handled(s, x, c)
      BY <1>3, <1>7, <2>2 DEF ToldOk
    <3> QED
      BY <1>2, <1>3, <2>1, <2>2, <3>1 DEF Handled
  <2>3. CASE s = r
    <3>1. call'[s] = q /\ AllCalls(q) = AllCalls(call[r])
      BY <1>2, <1>3, <2>3, AlikeReach
    <3>2. CASE x = row
      BY <1>5, <1>7, <1>2, <2>3, <3>1, <3>2 DEF Handled
    <3>3. CASE x # row
      <4>1. Handled(r, x, c)
        BY <1>4, <1>5, <1>7, <3>1, <3>3 DEF ToldOk
      <4>2. c \notin Events!ToSet(call[r].calls)
        BY <1>4 DEF Events!ToSet
      <4> QED
        BY <1>2, <2>1, <2>3, <4>1, <4>2 DEF Handled
    <3> QED
      BY <3>2, <3>3
  <2> QED
    BY <2>2, <2>3
<1> QED
  BY <1>2, <1>6, <1>7 DEF ToldOk

\* A handler has told: the call it made is not among those left.
LEMMA ToldGrows ==
  ASSUME RequestsOk, ToldOk, NEW r \in Requests, Events!Tell(r)
  PROVE  /\ ToldOk'
         /\ \E t \in Tellings :
              /\ told' = Append(told, t) /\ t.request = r
              /\ t.row \in Events!ToSet(call[r].changed) /\ t.row = Events!Last(call[r].changed)
              /\ t.spared = call[r].seen
              /\ unread' = unread \cup (t.users \X ({call[r].kind} \cap Events!Quiet)
                                           \X {t.row})
<1>1. PICK q : \E c \in CallRecords :
           /\ Becomes(r, q) /\ call[r] \in Requested /\ Alike(q, call[r])
           /\ call[r].stage = "calling" /\ q.stage = "publishing"
           /\ q.changed = call[r].changed /\ q.changed # <<>>
           /\ c \in Events!ToSet(call[r].calls) /\ c \notin Events!ToSet(q.calls)
           /\ Events!ToSet(call[r].calls) = Events!ToSet(q.calls) \cup {c}
           /\ call[r].seen \subseteq Events!Reached(call[r], c.part)
           /\ q.seen = {} /\ q.wrote = call[r].wrote
           /\ told' = Append(told, [request |-> r, row |-> Events!Last(q.changed), call |-> c,
                                    users |-> Events!Reached(call[r], c.part) \ call[r].seen,
                                    spared |-> call[r].seen])
           /\ unread' = unread \cup ((Events!Reached(call[r], c.part) \ call[r].seen)
                                        \X ({q.kind} \cap Events!Quiet)
                                        \X {Events!Last(q.changed)})
           /\ UNCHANGED <<failed, order>>
  BY OnTell
<1>2. PICK c \in CallRecords :
           /\ Becomes(r, q) /\ call[r] \in Requested /\ Alike(q, call[r])
           /\ call[r].stage = "calling" /\ q.stage = "publishing"
           /\ q.changed = call[r].changed /\ q.changed # <<>>
           /\ c \in Events!ToSet(call[r].calls) /\ c \notin Events!ToSet(q.calls)
           /\ Events!ToSet(call[r].calls) = Events!ToSet(q.calls) \cup {c}
           /\ call[r].seen \subseteq Events!Reached(call[r], c.part)
           /\ q.seen = {} /\ q.wrote = call[r].wrote
           /\ told' = Append(told, [request |-> r, row |-> Events!Last(q.changed), call |-> c,
                                    users |-> Events!Reached(call[r], c.part) \ call[r].seen,
                                    spared |-> call[r].seen])
           /\ unread' = unread \cup ((Events!Reached(call[r], c.part) \ call[r].seen)
                                        \X ({q.kind} \cap Events!Quiet)
                                        \X {Events!Last(q.changed)})
           /\ UNCHANGED <<failed, order>>
  BY <1>1
<1> DEFINE row == Events!Last(q.changed)
           t == [request |-> r, row |-> row, call |-> c,
                 users |-> Events!Reached(call[r], c.part) \ call[r].seen,
                 spared |-> call[r].seen]
<1>3. \A s \in Requests : call'[s] = IF s = r THEN q ELSE call[s]
  BY <1>2, BecomesOk
<1>4. /\ call[r] # Events!New /\ q # Events!New
      /\ call[r].kind \in Events!Kinds /\ call[r].targets \in NamedPeople
      /\ q.changed \in Seq(ChangedRows) /\ InOrder(call[r]) /\ InOrder(q)
  <2>1. q # Events!New /\ call[r] # Events!New
    BY <1>2, BecomesOk DEF Requested, Events!New
  <2> QED
    BY <1>2, <2>1 DEF Requested, RequestsOk, Becomes
<1>5. row \in ChangedRows /\ row \in Events!ToSet(q.changed)
  BY <1>2, <1>4, LastOne
<1>6. c \in AllCalls(call[r]) /\ AllCalls(q) = AllCalls(call[r])
      /\ \A part1 : Events!Reached(q, part1) = Events!Reached(call[r], part1)
  BY <1>2, <1>4, AlikeReach DEF InOrder
<1>7. Events!Reached(call[r], c.part) \subseteq Events!Everybody
  BY <1>2, <1>6, ReachedAreUsers
<1>8. /\ t \in Tellings /\ t.request = r /\ t.row = row /\ t.call = c
      /\ t.users = Events!Reached(call[r], c.part) \ call[r].seen /\ t.spared = call[r].seen
      /\ t.users \cup t.spared = Events!Reached(call[r], c.part) /\ told' = Append(told, t)
  BY <1>2, <1>5, <1>7 DEF Tellings
<1> HIDE DEF t, row
<1>9. told \in Seq(Tellings)
  BY DEF ToldOk
<1>10. /\ told' \in Seq(Tellings)
       /\ DOMAIN told = 1..Len(told) /\ DOMAIN told' = 1..Len(told) + 1 /\ Len(told) \in Nat
       /\ \A i \in DOMAIN told : i \in DOMAIN told' /\ told'[i] = told[i]
       /\ \A i \in DOMAIN told' : i \in DOMAIN told \/ i = Len(told) + 1
       /\ Len(told) + 1 \in DOMAIN told' /\ told'[Len(told) + 1] = t
  <2>1. /\ Append(told, t) \in Seq(Tellings) /\ Len(Append(told, t)) = Len(told) + 1
        /\ \A i \in 1..Len(told) : Append(told, t)[i] = told[i]
        /\ Append(told, t)[Len(told) + 1] = t
    BY <1>8, <1>9, AppendProperties
  <2>2. DOMAIN told = 1..Len(told) /\ Len(told) \in Nat /\ DOMAIN told' = 1..Len(told')
    BY <1>8, <1>9, <2>1, LenProperties
  <2> QED
    BY <1>8, <2>1, <2>2
<1>11. \A i \in DOMAIN told : told[i] \in Tellings /\ told[i].request \in Requests
  <2>1. \A i \in DOMAIN told : told[i] \in Tellings
    BY <1>9, <1>10, ElementOfSeq
  <2> QED
    BY <2>1 DEF Tellings
<1>12. ASSUME NEW u \in Tellings, u.request # r, Telling(u)
       PROVE  /\ u.row \in Events!ToSet(call'[u.request].changed) /\ call'[u.request] # Events!New
              /\ u.call \in AllCalls(call'[u.request])
              /\ u.users \cup u.spared = Events!Reached(call'[u.request], u.call.part)
              /\ u.row = Events!Last(call'[u.request].changed) =>
                   u.call \notin Events!ToSet(call'[u.request].calls)
  <2>1. u.request \in Requests
    BY DEF Tellings
  <2>2. call'[u.request] = call[u.request]
    BY <1>3, <1>12, <2>1
  <2> QED
    BY <1>12, <2>2 DEF Telling
<1>13. ASSUME NEW u \in Tellings, u.request = r, Telling(u) \/ u = t
       PROVE  /\ u.row \in Events!ToSet(call'[r].changed) /\ call'[r] # Events!New
              /\ u.call \in AllCalls(call'[r])
              /\ u.users \cup u.spared = Events!Reached(call'[r], u.call.part)
              /\ u.row = Events!Last(call'[r].changed) =>
                   u.call \notin Events!ToSet(call'[r].calls)
  <2>1. call'[r] = q
    BY <1>3
  <2>2. CASE u = t
    BY <1>2, <1>4, <1>5, <1>6, <1>8, <2>1, <2>2
  <2>3. CASE Telling(u)
    BY <1>2, <1>4, <1>6, <1>13, <2>1, <2>3 DEF Telling
  <2> QED
    BY <1>13, <2>2, <2>3
<1>14. \A u \in Tellings : Telling(u) \/ u = t =>
         /\ call'[u.request] # Events!New
         /\ u.row \in Events!ToSet(call'[u.request].changed)
         /\ u.call \in AllCalls(call'[u.request])
         /\ u.users \cup u.spared = Events!Reached(call'[u.request], u.call.part)
         /\ u.row = Events!Last(call'[u.request].changed) =>
              u.call \notin Events!ToSet(call'[u.request].calls)
  BY <1>8, <1>12, <1>13
<1>15. ASSUME NEW i \in DOMAIN told' PROVE Telling(told[i])'
  <2>1. told'[i] \in Tellings /\ (Telling(told'[i]) \/ told'[i] = t)
    BY <1>8, <1>10, <1>11 DEF ToldOk
  <2>2. Events!Reached(call[told[i].request], told[i].call.part)'
          = Events!Reached(call'[told'[i].request], told'[i].call.part)
    BY DEF Events!Reached, Events!Audience
  <2> QED
    BY <1>14, <2>1, <2>2 DEF Telling
<1>16. ASSUME NEW i \in DOMAIN told, told[i].request = r, told[i].row = row, told[i].call = c
       PROVE  FALSE
  <2>1. Telling(told[i])
    BY DEF ToldOk
  <2> QED
    BY <1>2, <1>16, <2>1 DEF Telling, row
<1>17. ASSUME NEW i \in DOMAIN told', NEW j \in DOMAIN told',
              told'[i].request = told'[j].request, told'[i].row = told'[j].row,
              told'[i].call = told'[j].call
       PROVE  i = j
  <2>1. CASE i \in DOMAIN told /\ j \in DOMAIN told
    BY <1>10, <1>17, <2>1 DEF ToldOk
  <2>2. CASE i \notin DOMAIN told /\ j \in DOMAIN told
    BY <1>8, <1>10, <1>16, <1>17, <2>2
  <2>3. CASE i \in DOMAIN told /\ j \notin DOMAIN told
    BY <1>8, <1>10, <1>16, <1>17, <2>3
  <2>4. CASE i \notin DOMAIN told /\ j \notin DOMAIN told
    BY <1>10, <2>4
  <2> QED
    BY <2>1, <2>2, <2>3, <2>4
<1>18. \A s, x, d : Told(s, x, d) => Told(s, x, d)'
  BY <1>10 DEF Told
<1>19. Told(r, row, c)'
  BY <1>8, <1>10 DEF Told
<1>20. ASSUME NEW s \in Requests, call'[s] # Events!New,
              NEW x \in Events!ToSet(call'[s].changed), NEW d \in AllCalls(call'[s])
       PROVE  Handled(s, x, d)'
  <2>1. CASE s # r
    <3>1. Handled(s, x, d)
      BY <1>3, <1>20, <2>1 DEF ToldOk
    <3> QED
      BY <1>2, <1>3, <1>18, <2>1, <3>1 DEF Handled
  <2>2. CASE s = r
    <3>1. call'[s] = q /\ Handled(r, x, d)
      BY <1>2, <1>3, <1>4, <1>6, <1>20, <2>2 DEF ToldOk
    <3>2. CASE x = row /\ d \in Events!ToSet(call[r].calls)
      <4>1. d \in Events!ToSet(q.calls) \/ d = c
        BY <1>2, <3>2
      <4> QED
        BY <1>19, <2>2, <3>1, <3>2, <4>1 DEF Handled, row
    <3>3. CASE ~(x = row /\ d \in Events!ToSet(call[r].calls))
      BY <1>2, <1>18, <2>2, <3>1, <3>3 DEF Handled, row
    <3> QED
      BY <3>2, <3>3
  <2> QED
    BY <2>1, <2>2
<1>21. ToldOk'
  BY <1>2, <1>10, <1>15, <1>17, <1>20 DEF ToldOk
<1>22. /\ t.row = Events!Last(call[r].changed)
       /\ unread' = unread \cup (t.users \X ({call[r].kind} \cap Events!Quiet) \X {t.row})
  BY <1>2, <1>8 DEF row, Alike
<1> QED
  BY <1>2, <1>5, <1>8, <1>21, <1>22

(***************************************************************************)
(* Those who are spared a second notice.  Whoever has an unread one has    *)
(* been told of an earlier event of its kind and row.                      *)
(***************************************************************************)
ToldEarlier(list, calls, n, u, kind, row) ==
  \E j \in DOMAIN list :
    j < n /\ u \in list[j].users /\ list[j].row = row /\ calls[list[j].request].kind = kind

SparedOk ==
  /\ unread \subseteq Events!Everybody \X Events!Quiet \X ChangedRows
  /\ \A u \in Events!Everybody, kind \in Events!Quiet, row \in ChangedRows :
       <<u, kind, row>> \in unread => ToldEarlier(told, call, Len(told) + 1, u, kind, row)
  /\ \A r \in Requests : call[r] # Events!New =>
       \A u \in call[r].seen :
         /\ call[r].kind \in Events!Quiet
         /\ ToldEarlier(told, call, Len(told) + 1, u, call[r].kind, Events!Last(call[r].changed))
  /\ \A i \in DOMAIN told : \A u \in told[i].spared :
       /\ call[told[i].request].kind \in Events!Quiet
       /\ ToldEarlier(told, call, i, u, call[told[i].request].kind, told[i].row)

\* A request that goes on is of the kind it was.
LEMMA KindsStay ==
  ASSUME RequestsOk, ToldOk, NEW r \in Requests, NEW q, Becomes(r, q),
         call[r] = Events!New \/ Alike(q, call[r])
  PROVE  \A i \in DOMAIN told :
           /\ told[i] \in Tellings /\ told[i].request \in Requests
           /\ call'[told[i].request].kind = call[told[i].request].kind
<1>1. \A s \in Requests : call'[s] = IF s = r THEN q ELSE call[s]
  BY BecomesOk
<1> SUFFICES ASSUME NEW i \in DOMAIN told
             PROVE  /\ told[i] \in Tellings /\ told[i].request \in Requests
                    /\ call'[told[i].request].kind = call[told[i].request].kind
  OBVIOUS
<1>2. told[i] \in Tellings /\ Telling(told[i])
  BY LenProperties, ElementOfSeq DEF ToldOk
<1>3. told[i].request \in Requests /\ call[told[i].request] # Events!New
  BY <1>2 DEF Tellings, Telling
<1> QED
  BY <1>1, <1>2, <1>3 DEF Alike

\* As long as nobody is told: what a handler sees as unread is so.
LEMMA SparedStands ==
  ASSUME RequestsOk, ToldOk, SparedOk, NEW r \in Requests, NEW q, Becomes(r, q),
         call[r] = Events!New \/ Alike(q, call[r]), told' = told, unread' \subseteq unread,
         \A u \in q.seen : <<u, q.kind, Events!Last(q.changed)>> \in unread
  PROVE  SparedOk'
<1>1. \A s \in Requests : call'[s] = IF s = r THEN q ELSE call[s]
  BY BecomesOk
<1>2. \A n, u, kind, row :
        ToldEarlier(told, call, n, u, kind, row) => ToldEarlier(told', call', n, u, kind, row)
  BY KindsStay DEF ToldEarlier
<1>3. /\ unread' \subseteq Events!Everybody \X Events!Quiet \X ChangedRows
      /\ \A u \in Events!Everybody, kind \in Events!Quiet, row \in ChangedRows :
           <<u, kind, row>> \in unread' => ToldEarlier(told', call', Len(told) + 1, u, kind, row)
  BY <1>2 DEF SparedOk
<1>4. ASSUME NEW s \in Requests, call'[s] # Events!New, NEW u \in call'[s].seen
      PROVE  /\ call'[s].kind \in Events!Quiet
             /\ ToldEarlier(told', call', Len(told) + 1, u, call'[s].kind, Events!Last(call'[s].changed))
  <2>1. CASE s = r
    <3>1. call'[s] = q /\ <<u, q.kind, Events!Last(q.changed)>> \in unread
      BY <1>1, <1>4, <2>1
    <3>2. /\ u \in Events!Everybody /\ q.kind \in Events!Quiet
          /\ Events!Last(q.changed) \in ChangedRows
      BY <3>1 DEF SparedOk
    <3>3. ToldEarlier(told, call, Len(told) + 1, u, q.kind, Events!Last(q.changed))
      BY <3>1, <3>2 DEF SparedOk
    <3> QED
      BY <1>2, <3>1, <3>2, <3>3
  <2>2. CASE s # r
    <3>1. call'[s] = call[s]
      BY <1>1, <2>2
    <3>2. /\ call[s].kind \in Events!Quiet
          /\ ToldEarlier(told, call, Len(told) + 1, u, call[s].kind, Events!Last(call[s].changed))
      BY <1>4, <3>1 DEF SparedOk
    <3> QED
      BY <1>2, <3>1, <3>2
  <2> QED
    BY <2>1, <2>2
<1>5. ASSUME NEW i \in DOMAIN told, NEW u \in told[i].spared
      PROVE  /\ call'[told[i].request].kind \in Events!Quiet
             /\ ToldEarlier(told', call', i, u, call'[told[i].request].kind, told[i].row)
  <2>1. /\ call[told[i].request].kind \in Events!Quiet
        /\ ToldEarlier(told, call, i, u, call[told[i].request].kind, told[i].row)
    BY DEF SparedOk
  <2>2. call'[told[i].request].kind = call[told[i].request].kind
    BY KindsStay
  <2> QED
    BY <1>2, <2>1, <2>2
<1> QED
  BY <1>3, <1>4, <1>5 DEF SparedOk

\* A handler has told: whom it spared, it had seen.
LEMMA SparedGrows ==
  ASSUME RequestsOk, ToldOk, SparedOk, NEW r \in Requests, Events!Tell(r)
  PROVE  SparedOk'
<1>1. PICK q : \E c \in CallRecords :
           /\ Becomes(r, q) /\ call[r] \in Requested /\ Alike(q, call[r])
           /\ q.changed = call[r].changed /\ q.changed # <<>> /\ q.seen = {}
  BY OnTell
<1>2. PICK t \in Tellings :
        /\ told' = Append(told, t) /\ t.request = r
        /\ t.row = Events!Last(call[r].changed) /\ t.spared = call[r].seen
        /\ unread' = unread \cup (t.users \X ({call[r].kind} \cap Events!Quiet) \X {t.row})
  BY ToldGrows
<1>3. \A s \in Requests : call'[s] = IF s = r THEN q ELSE call[s]
  BY <1>1, BecomesOk
<1>4. /\ q.kind = call[r].kind /\ call[r] # Events!New /\ call[r].kind \in Events!Kinds
      /\ t.row \in ChangedRows /\ t.users \subseteq Events!Everybody
  <2>1. call[r] # Events!New
    BY <1>1 DEF Requested, Events!New
  <2> QED
    BY <1>1, <2>1 DEF Alike, Requested, Tellings
<1>5. /\ DOMAIN told = 1..Len(told) /\ DOMAIN told' = 1..Len(told) + 1 /\ Len(told) \in Nat
      /\ Len(told') = Len(told) + 1
      /\ \A i \in DOMAIN told : i \in DOMAIN told' /\ told'[i] = told[i] /\ i < Len(told) + 1
      /\ \A i \in DOMAIN told' : i \in DOMAIN told \/ i = Len(told) + 1
      /\ Len(told) + 1 \in DOMAIN told' /\ told'[Len(told) + 1] = t
  <2>1. told \in Seq(Tellings)
    BY DEF ToldOk
  <2>2. /\ Append(told, t) \in Seq(Tellings) /\ Len(Append(told, t)) = Len(told) + 1
        /\ \A i \in 1..Len(told) : Append(told, t)[i] = told[i]
        /\ Append(told, t)[Len(told) + 1] = t
    BY <2>1, AppendProperties
  <2>3. DOMAIN told = 1..Len(told) /\ Len(told) \in Nat /\ DOMAIN told' = 1..Len(told')
    BY <1>2, <2>1, <2>2, LenProperties
  <2> QED
    BY <1>2, <2>2, <2>3
<1>6. \A i \in DOMAIN told : call'[told[i].request].kind = call[told[i].request].kind
  BY <1>1, KindsStay
<1>7. \A n, u, kind, row :
        ToldEarlier(told, call, n, u, kind, row) => ToldEarlier(told', call', n, u, kind, row)
  BY <1>5, <1>6 DEF ToldEarlier
<1>8. \A u, kind, row :
        ToldEarlier(told, call, Len(told) + 1, u, kind, row) =>
          ToldEarlier(told', call', Len(told') + 1, u, kind, row)
  <2> SUFFICES ASSUME NEW u, NEW kind, NEW row, ToldEarlier(told, call, Len(told) + 1, u, kind, row)
               PROVE  ToldEarlier(told', call', Len(told') + 1, u, kind, row)
    OBVIOUS
  <2>1. PICK j \in DOMAIN told : /\ u \in told[j].users /\ told[j].row = row
                                 /\ call[told[j].request].kind = kind
    BY DEF ToldEarlier
  <2>2. /\ j \in DOMAIN told' /\ told'[j] = told[j] /\ j < Len(told') + 1
        /\ call'[told'[j].request].kind = kind
    BY <1>5, <1>6, <2>1
  <2> QED
    BY <2>1, <2>2 DEF ToldEarlier
<1>9. \A u \in t.users : ToldEarlier(told', call', Len(told') + 1, u, call[r].kind, t.row)
  <2>1. /\ call'[t.request].kind = call[r].kind
        /\ Len(told) + 1 < Len(told') + 1
    BY <1>2, <1>3, <1>4, <1>5
  <2> QED
    BY <1>5, <2>1 DEF ToldEarlier
<1>10. /\ unread' \subseteq Events!Everybody \X Events!Quiet \X ChangedRows
       /\ \A u \in Events!Everybody, kind \in Events!Quiet, row \in ChangedRows :
            <<u, kind, row>> \in unread' => ToldEarlier(told', call', Len(told') + 1, u, kind, row)
  <2>1. unread \subseteq Events!Everybody \X Events!Quiet \X ChangedRows
    BY DEF SparedOk
  <2>2. ASSUME NEW u \in Events!Everybody, NEW kind \in Events!Quiet, NEW row \in ChangedRows,
               <<u, kind, row>> \in unread'
        PROVE  ToldEarlier(told', call', Len(told') + 1, u, kind, row)
    <3>1. CASE <<u, kind, row>> \in unread
      BY <1>8, <3>1 DEF SparedOk
    <3>2. CASE <<u, kind, row>> \notin unread
      <4>1. u \in t.users /\ kind = call[r].kind /\ row = t.row
        BY <1>2, <2>2, <3>2
      <4> QED
        BY <1>9, <4>1
    <3> QED
      BY <3>1, <3>2
  <2>3. unread' \subseteq Events!Everybody \X Events!Quiet \X ChangedRows
    BY <1>2, <1>4, <2>1
  <2> QED
    BY <2>2, <2>3
<1>11. ASSUME NEW s \in Requests, call'[s] # Events!New, NEW u \in call'[s].seen
       PROVE  /\ call'[s].kind \in Events!Quiet
              /\ ToldEarlier(told', call', Len(told') + 1, u, call'[s].kind, Events!Last(call'[s].changed))
  <2>1. s # r
    BY <1>1, <1>3, <1>11
  <2>2. call'[s] = call[s]
    BY <1>3, <2>1
  <2>3. /\ call[s].kind \in Events!Quiet
        /\ ToldEarlier(told, call, Len(told) + 1, u, call[s].kind, Events!Last(call[s].changed))
    BY <1>11, <2>2 DEF SparedOk
  <2> QED
    BY <1>8, <2>2, <2>3
<1>12. ASSUME NEW i \in DOMAIN told', NEW u \in told'[i].spared
       PROVE  /\ call'[told'[i].request].kind \in Events!Quiet
              /\ ToldEarlier(told', call', i, u, call'[told'[i].request].kind, told'[i].row)
  <2>1. CASE i \in DOMAIN told
    <3>1. /\ call[told[i].request].kind \in Events!Quiet
          /\ ToldEarlier(told, call, i, u, call[told[i].request].kind, told[i].row)
      BY <1>5, <1>12, <2>1 DEF SparedOk
    <3>2. told'[i] = told[i] /\ call'[told[i].request].kind = call[told[i].request].kind
      BY <1>5, <1>6, <2>1
    <3> QED
      BY <1>7, <3>1, <3>2
  <2>2. CASE i = Len(told) + 1
    <3>1. told'[i] = t /\ u \in call[r].seen /\ call'[t.request].kind = call[r].kind
      BY <1>2, <1>3, <1>4, <1>5, <1>12, <2>2
    <3>2. /\ call[r].kind \in Events!Quiet
          /\ ToldEarlier(told, call, Len(told) + 1, u, call[r].kind, t.row)
      BY <1>2, <1>4, <3>1 DEF SparedOk
    <3> QED
      BY <1>7, <2>2, <3>1, <3>2
  <2> QED
    BY <1>5, <2>1, <2>2
<1> QED
  BY <1>10, <1>11, <1>12 DEF SparedOk

(***************************************************************************)
(* The order of the tellings.  Two requests in progress have written       *)
(* different rows, so whoever writes a row and tells of it next after      *)
(* another that did so tells when that one has ended.                      *)
(***************************************************************************)
Apart ==
  \A r, s \in Requests :
    r # s /\ Events!Open(r) /\ Events!Open(s) =>
      call[r].wrote \cap call[s].wrote = {}

Wrote(i) == told[i].row \in call[told[i].request].wrote

CommitsOk ==
  /\ order \in Seq(Requests) /\ Once(order)
  /\ \A r \in Requests : r \in Events!ToSet(order) <=> Events!Committed(r)

Precedes(r, s) ==
  \E m, n \in DOMAIN order : order[m] = r /\ order[n] = s /\ m < n

Waited ==
  \A i, j \in DOMAIN told :
    /\ i < j /\ told[i].row = told[j].row /\ told[i].request # told[j].request
    /\ Wrote(i) /\ Wrote(j)
    => /\ ~Events!Open(told[i].request)
       /\ Events!Committed(told[i].request) /\ Events!Committed(told[j].request) =>
            Precedes(told[i].request, told[j].request)

EventsInv == RequestsOk /\ PoolOk /\ ToldOk /\ SparedOk /\ Apart /\ CommitsOk /\ Waited

\* A request goes on, or begins, and holds the rows it held.
LEMMA GoesOn ==
  ASSUME EventsInv, NEW r \in Requests, NEW q, Becomes(r, q),
         q.stage \in {"working", "publishing", "calling"},
         \/ call[r] = Events!New /\ q.wrote = {}
         \/ Events!Open(r) /\ q.wrote = call[r].wrote,
         UNCHANGED <<told, order>>
  PROVE  Apart' /\ CommitsOk' /\ Waited'
<1>1. \A s \in Requests : call'[s] = IF s = r THEN q ELSE call[s]
  BY BecomesOk DEF EventsInv
<1>2. \A s \in Requests : Events!Committed(s)' <=> Events!Committed(s)
  BY <1>1 DEF Events!Committed, Events!Stage, Events!Open, Events!New
<1>3. \A s \in Requests : s # r => (Events!Open(s)' <=> Events!Open(s))
  BY <1>1 DEF Events!Open, Events!Stage
<1>4. Apart'
  <2> SUFFICES ASSUME NEW s \in Requests, NEW u \in Requests, s # u,
                      Events!Open(s)', Events!Open(u)'
               PROVE  call'[s].wrote \cap call'[u].wrote = {}
    BY DEF Apart
  <2>1. CASE s # r /\ u # r
    BY <1>1, <1>3, <2>1 DEF Apart, EventsInv
  <2>2. CASE q.wrote = {}
    BY <1>1, <1>3, <2>1, <2>2
  <2>3. CASE Events!Open(r) /\ q.wrote = call[r].wrote
    BY <1>1, <1>3, <2>3 DEF Apart, EventsInv
  <2> QED
    BY <2>2, <2>3
<1>5. CommitsOk'
  BY <1>2 DEF CommitsOk, EventsInv, Events!ToSet
<1>6. Waited'
  <2> SUFFICES ASSUME NEW i \in DOMAIN told, NEW j \in DOMAIN told, i < j,
                      told[i].row = told[j].row, told[i].request # told[j].request,
                      told[i].row \in call'[told[i].request].wrote,
                      told[j].row \in call'[told[j].request].wrote
               PROVE  /\ ~Events!Open(told[i].request)'
                      /\ Events!Committed(told[i].request)' /\ Events!Committed(told[j].request)'
                           => Precedes(told[i].request, told[j].request)
    BY DEF Waited, Precedes, Wrote
  <2>1. /\ told[i].request \in Requests /\ told[j].request \in Requests
        /\ call[told[i].request] # Events!New
    <3>1. told[i] \in Tellings /\ told[j] \in Tellings /\ Telling(told[i])
      BY LenProperties, ElementOfSeq DEF EventsInv, ToldOk
    <3> QED
      BY <3>1 DEF Tellings, Telling
  <2>2. Wrote(i) /\ Wrote(j)
    BY <1>1, <2>1 DEF Wrote
  <2>3. ~Events!Open(told[i].request)
    BY <2>2 DEF EventsInv, Waited
  <2>4. told[i].request # r
    BY <2>1, <2>3
  <2> QED
    BY <1>2, <1>3, <2>1, <2>2, <2>3, <2>4 DEF EventsInv, Waited
<1> QED
  BY <1>4, <1>5, <1>6

LEMMA ChangesApart ==
  ASSUME EventsInv, NEW r \in Requests, Events!Change(r)
  PROVE  Apart' /\ CommitsOk' /\ Waited'
<1>1. PICK q : \E row \in ChangedRows :
           /\ Becomes(r, q) /\ call[r] \in Requested /\ Alike(q, call[r])
           /\ call[r].stage = "working" /\ q.stage = "publishing"
           /\ q.changed = Append(call[r].changed, row)
           /\ row \notin Events!ToSet(call[r].changed)
           /\ \/ q.wrote = call[r].wrote
              \/ q.wrote = call[r].wrote \cup {row} /\ ~Events!Locked(r, row)
           /\ Events!ToSet(q.calls) = AllCalls(q) /\ q.seen = {}
           /\ UNCHANGED <<told, unread, failed, order>>
  BY OnChange DEF EventsInv
<1>2. PICK row \in ChangedRows :
           /\ Becomes(r, q) /\ call[r] \in Requested
           /\ call[r].stage = "working" /\ q.stage = "publishing"
           /\ row \notin Events!ToSet(call[r].changed)
           /\ \/ q.wrote = call[r].wrote
              \/ q.wrote = call[r].wrote \cup {row} /\ ~Events!Locked(r, row)
           /\ UNCHANGED <<told, failed, order>>
  BY <1>1
<1>3. \A s \in Requests : call'[s] = IF s = r THEN q ELSE call[s]
  BY <1>2, BecomesOk DEF EventsInv
<1>4. \A x : x # row => (x \in q.wrote <=> x \in call[r].wrote)
  BY <1>2
<1>5. \A s \in Requests : /\ Events!Committed(s)' <=> Events!Committed(s)
                          /\ Events!Open(s)' <=> Events!Open(s)
  BY <1>2, <1>3 DEF Events!Committed, Events!Stage, Events!Open
<1>6. Events!Open(r)
  BY <1>2 DEF Events!Open, Events!Stage
<1>7. \A s \in Requests : s # r /\ Events!Open(s) => q.wrote \cap call[s].wrote = {}
  BY <1>2, <1>6 DEF Events!Locked, EventsInv, Apart
<1>8. Apart'
  <2> SUFFICES ASSUME NEW s \in Requests, NEW u \in Requests, s # u,
                      Events!Open(s)', Events!Open(u)'
               PROVE  call'[s].wrote \cap call'[u].wrote = {}
    BY DEF Apart
  <2>1. Events!Open(s) /\ Events!Open(u)
    BY <1>5
  <2>2. CASE s # r /\ u # r
    BY <1>3, <2>1, <2>2 DEF Apart, EventsInv
  <2>3. CASE s = r \/ u = r
    BY <1>3, <1>7, <2>1, <2>3
  <2> QED
    BY <2>2, <2>3
<1>9. CommitsOk'
  BY <1>2, <1>5 DEF CommitsOk, EventsInv, Events!ToSet
<1>10. Waited'
  <2> SUFFICES ASSUME NEW i \in DOMAIN told, NEW j \in DOMAIN told, i < j,
                      told[i].row = told[j].row, told[i].request # told[j].request,
                      told[i].row \in call'[told[i].request].wrote,
                      told[j].row \in call'[told[j].request].wrote
               PROVE  /\ ~Events!Open(told[i].request)'
                      /\ Events!Committed(told[i].request)' /\ Events!Committed(told[j].request)'
                           => Precedes(told[i].request, told[j].request)
    BY <1>2 DEF Waited, Precedes, Wrote
  <2>1. \A k \in DOMAIN told : /\ told[k].request \in Requests
                              /\ told[k].row \in Events!ToSet(call[told[k].request].changed)
    <3>1. \A k \in DOMAIN told : told[k] \in Tellings /\ Telling(told[k])
      BY LenProperties, ElementOfSeq DEF EventsInv, ToldOk
    <3> QED
      BY <3>1 DEF Tellings, Telling
  <2>2. Wrote(i) /\ Wrote(j)
    BY <1>2, <1>3, <1>4, <2>1 DEF Wrote
  <2> QED
    BY <1>2, <1>5, <2>1, <2>2 DEF EventsInv, Waited
<1> QED
  BY <1>8, <1>9, <1>10

LEMMA TellsInOrder ==
  ASSUME EventsInv, NEW r \in Requests, Events!Tell(r)
  PROVE  Apart' /\ CommitsOk' /\ Waited'
<1>1. PICK q : \E c \in CallRecords :
           /\ Becomes(r, q) /\ call[r] \in Requested /\ Alike(q, call[r])
           /\ call[r].stage = "calling" /\ q.stage = "publishing"
           /\ q.changed = call[r].changed /\ q.changed # <<>>
           /\ c \in Events!ToSet(call[r].calls) /\ c \notin Events!ToSet(q.calls)
           /\ Events!ToSet(call[r].calls) = Events!ToSet(q.calls) \cup {c}
           /\ call[r].seen \subseteq Events!Reached(call[r], c.part)
           /\ q.seen = {} /\ q.wrote = call[r].wrote
           /\ told' = Append(told, [request |-> r, row |-> Events!Last(q.changed), call |-> c,
                                    users |-> Events!Reached(call[r], c.part) \ call[r].seen,
                                    spared |-> call[r].seen])
           /\ unread' = unread \cup ((Events!Reached(call[r], c.part) \ call[r].seen)
                                        \X ({q.kind} \cap Events!Quiet)
                                        \X {Events!Last(q.changed)})
           /\ UNCHANGED <<failed, order>>
  BY OnTell DEF EventsInv
<1>2. /\ Becomes(r, q) /\ q.stage = "publishing" /\ q.wrote = call[r].wrote
      /\ call[r].stage = "calling" /\ UNCHANGED order
  BY <1>1
<1>3. PICK t \in Tellings : /\ told' = Append(told, t) /\ t.request = r
                            /\ t.row \in Events!ToSet(call[r].changed)
  BY ToldGrows DEF EventsInv
<1>4. \A s \in Requests : call'[s] = IF s = r THEN q ELSE call[s]
  BY <1>2, BecomesOk DEF EventsInv
<1>5. \A s \in Requests :
        /\ Events!Committed(s)' <=> Events!Committed(s)
        /\ Events!Open(s)' <=> Events!Open(s)
        /\ call'[s].wrote = call[s].wrote
        /\ call'[s].stage = "committed" <=> Events!Committed(s)
        /\ call'[s].stage \in {"working", "publishing", "calling"} <=> Events!Open(s)
  BY <1>2, <1>4 DEF Events!Committed, Events!Stage, Events!Open
<1>6. Events!Open(r) /\ ~Events!Committed(r)
  BY <1>2 DEF Events!Open, Events!Stage, Events!Committed
<1>7. Apart'
  <2> SUFFICES ASSUME NEW s \in Requests, NEW u \in Requests, s # u,
                      Events!Open(s)', Events!Open(u)'
               PROVE  call'[s].wrote \cap call'[u].wrote = {}
    BY DEF Apart
  <2> QED
    BY <1>5 DEF Apart, EventsInv
<1>8. CommitsOk'
  BY <1>2, <1>5 DEF CommitsOk, EventsInv, Events!ToSet
<1>9. /\ DOMAIN told = 1..Len(told) /\ DOMAIN told' = 1..Len(told) + 1 /\ Len(told) \in Nat
      /\ \A i \in DOMAIN told : told'[i] = told[i]
      /\ \A i \in DOMAIN told' : i \in DOMAIN told \/ i = Len(told) + 1
      /\ told'[Len(told) + 1] = t
  <2>1. told \in Seq(Tellings)
    BY DEF EventsInv, ToldOk
  <2>2. /\ Append(told, t) \in Seq(Tellings) /\ Len(Append(told, t)) = Len(told) + 1
        /\ \A i \in 1..Len(told) : Append(told, t)[i] = told[i]
        /\ Append(told, t)[Len(told) + 1] = t
    BY <2>1, AppendProperties
  <2>3. DOMAIN told = 1..Len(told) /\ Len(told) \in Nat /\ DOMAIN told' = 1..Len(told')
    BY <1>3, <2>1, <2>2, LenProperties
  <2> QED
    BY <1>3, <2>2, <2>3
<1>10. \A i \in DOMAIN told : told[i].request \in Requests /\ Telling(told[i])
  <2>1. \A i \in DOMAIN told : told[i] \in Tellings /\ Telling(told[i])
    BY <1>9, ElementOfSeq DEF EventsInv, ToldOk
  <2> QED
    BY <2>1 DEF Tellings
<1>11. ASSUME NEW i \in DOMAIN told, told[i].row = t.row, told[i].request # r,
              Wrote(i), t.row \in call[r].wrote
       PROVE  ~Events!Open(told[i].request)
  BY <1>6, <1>10, <1>11 DEF EventsInv, Apart, Wrote
<1>12. Waited'
  <2> SUFFICES ASSUME NEW i \in DOMAIN told', NEW j \in DOMAIN told', i < j,
                      told'[i].row = told'[j].row, told'[i].request # told'[j].request,
                      told'[i].row \in call'[told'[i].request].wrote,
                      told'[j].row \in call'[told'[j].request].wrote
               PROVE  /\ call'[told'[i].request].stage \notin {"working", "publishing", "calling"}
                      /\ (call'[told'[i].request].stage = "committed"
                           /\ call'[told'[j].request].stage = "committed")
                         => Precedes(told'[i].request, told'[j].request)
    BY <1>2 DEF Waited, Wrote, Precedes, Events!Open, Events!Committed, Events!Stage
  <2>1. i \in DOMAIN told /\ Wrote(i)
    BY <1>5, <1>9, <1>10 DEF Wrote
  <2>2. CASE j \in DOMAIN told
    <3> Wrote(j)
      BY <1>5, <1>9, <1>10, <2>2 DEF Wrote
    <3>1. /\ ~Events!Open(told[i].request)
          /\ Events!Committed(told[i].request) /\ Events!Committed(told[j].request) =>
               Precedes(told[i].request, told[j].request)
      BY <1>9, <2>1, <2>2 DEF EventsInv, Waited
    <3> QED
      BY <1>5, <1>9, <1>10, <2>1, <2>2, <3>1
  <2>3. CASE j = Len(told) + 1
    <3>1. told'[j] = t /\ told'[i] = told[i]
      BY <1>9, <2>1, <2>3
    <3>2. ~Events!Open(told[i].request)
      BY <1>3, <1>5, <1>11, <2>1, <3>1
    <3> QED
      BY <1>3, <1>5, <1>6, <1>10, <2>1, <3>1, <3>2
  <2> QED
    BY <1>9, <2>2, <2>3
<1> QED
  BY <1>7, <1>8, <1>12

\* A request ends; if it commits, it is the last to have committed.
LEMMA EndsInOrder ==
  ASSUME EventsInv, NEW r \in Requests, Events!Commit(r) \/ Events!Abort(r)
  PROVE  Apart' /\ CommitsOk' /\ Waited'
<1>1. PICK q : /\ Becomes(r, q) /\ call[r].stage = "working"
               /\ \/ q.stage = "committed" /\ order' = Append(order, r)
                  \/ q.stage = "aborted" /\ order' = order
               /\ q.wrote = call[r].wrote /\ UNCHANGED told
  BY OnEnd DEF EventsInv
<1>2. \A s \in Requests : call'[s] = IF s = r THEN q ELSE call[s]
  BY <1>1, BecomesOk DEF EventsInv
<1>3. /\ Events!Open(r) /\ ~Events!Committed(r) /\ ~Events!Open(r)'
      /\ Events!Committed(r)' <=> q.stage = "committed"
      /\ \A s \in Requests : s # r =>
           /\ Events!Committed(s)' <=> Events!Committed(s)
           /\ Events!Open(s)' <=> Events!Open(s)
  BY <1>1, <1>2 DEF Events!Committed, Events!Stage, Events!Open
<1>4. Apart'
  <2> SUFFICES ASSUME NEW s \in Requests, NEW u \in Requests, s # u,
                      Events!Open(s)', Events!Open(u)'
               PROVE  call'[s].wrote \cap call'[u].wrote = {}
    BY DEF Apart
  <2> QED
    BY <1>2, <1>3 DEF Apart, EventsInv
<1>5. order \in Seq(Requests) /\ Once(order) /\ r \notin Events!ToSet(order)
  BY <1>3 DEF EventsInv, CommitsOk
<1>6. /\ order' \in Seq(Requests) /\ Once(order')
      /\ Events!ToSet(order') =
           IF q.stage = "committed" THEN Events!ToSet(order) \cup {r} ELSE Events!ToSet(order)
  <2>1. CASE q.stage = "committed"
    <3>1. order' = Append(order, r)
      BY <1>1, <2>1
    <3>2. /\ Append(order, r) \in Seq(Requests) /\ Once(Append(order, r))
          /\ Events!ToSet(Append(order, r)) = Events!ToSet(order) \cup {r}
      BY <1>5, Appended
    <3> QED
      BY <2>1, <3>1, <3>2
  <2>2. CASE q.stage = "aborted"
    BY <1>1, <1>5, <2>2
  <2> QED
    BY <1>1, <2>1, <2>2
<1>7. CommitsOk'
  <2>1. \A s \in Requests : s \in Events!ToSet(order') <=> Events!Committed(s)'
    BY <1>1, <1>3, <1>6 DEF EventsInv, CommitsOk
  <2> QED
    BY <1>6, <2>1 DEF CommitsOk, Events!ToSet
<1>8. /\ DOMAIN order = 1..Len(order) /\ Len(order) \in Nat
      /\ \A m \in DOMAIN order : m \in DOMAIN order' /\ order'[m] = order[m] /\ m < Len(order) + 1
      /\ q.stage = "committed" =>
           Len(order) + 1 \in DOMAIN order' /\ order'[Len(order) + 1] = r
  <2>1. DOMAIN order = 1..Len(order) /\ Len(order) \in Nat
    BY <1>5, LenProperties
  <2>2. CASE q.stage = "committed"
    <3>1. /\ Append(order, r) \in Seq(Requests) /\ Len(Append(order, r)) = Len(order) + 1
          /\ \A i \in 1..Len(order) : Append(order, r)[i] = order[i]
          /\ Append(order, r)[Len(order) + 1] = r
      BY <1>5, AppendProperties
    <3>2. DOMAIN order' = 1..Len(order) + 1
      BY <1>1, <2>2, <3>1, LenProperties
    <3> QED
      BY <1>1, <2>1, <2>2, <3>1, <3>2
  <2>3. CASE q.stage = "aborted"
    BY <1>1, <2>1, <2>3
  <2> QED
    BY <1>1, <2>2, <2>3
<1>9. \A a, b : Precedes(a, b) => Precedes(a, b)'
  BY <1>8 DEF Precedes
<1>10. \A a \in Requests : q.stage = "committed" /\ Events!Committed(a) => Precedes(a, r)'
  BY <1>8 DEF EventsInv, CommitsOk, Events!ToSet, Precedes
<1>11. Waited'
  <2> SUFFICES ASSUME NEW i \in DOMAIN told, NEW j \in DOMAIN told, i < j,
                      told[i].row = told[j].row, told[i].request # told[j].request,
                      told[i].row \in call'[told[i].request].wrote,
                      told[j].row \in call'[told[j].request].wrote
               PROVE  /\ ~Events!Open(told[i].request)'
                      /\ Events!Committed(told[i].request)' /\ Events!Committed(told[j].request)'
                           => Precedes(told[i].request, told[j].request)'
    BY <1>1 DEF Waited, Wrote, Precedes, Events!Open, Events!Committed, Events!Stage
  <2> DEFINE a == told[i].request
             b == told[j].request
  <2>1. a \in Requests /\ b \in Requests
    <3>1. told[i] \in Tellings /\ told[j] \in Tellings
      BY LenProperties, ElementOfSeq DEF EventsInv, ToldOk
    <3> QED
      BY <3>1 DEF Tellings
  <2>2. ~Events!Open(a) /\ (Events!Committed(a) /\ Events!Committed(b) => Precedes(a, b))
    <3>1. Wrote(i) /\ Wrote(j)
      BY <1>1, <1>2, <2>1 DEF Wrote
    <3> QED
      BY <3>1 DEF EventsInv, Waited
  <2>3. a # r
    BY <1>3, <2>2
  <2>4. /\ Events!Open(a)' <=> Events!Open(a)
        /\ Events!Committed(a)' <=> Events!Committed(a)
    BY <1>1, <1>3, <2>1, <2>3
  <2>5. CASE b = r
    BY <1>1, <1>3, <1>10, <2>1, <2>2, <2>4, <2>5
  <2>6. CASE b # r
    BY <1>1, <1>3, <1>9, <2>1, <2>2, <2>4, <2>6
  <2> QED
    BY <2>5, <2>6
<1> QED
  BY <1>4, <1>7, <1>11

LEMMA EventsStart ==
  ASSUME Events!Init
  PROVE  EventsInv
<1>1. /\ call = [r \in Requests |-> Events!New] /\ told = <<>> /\ failed = {} /\ order = <<>>
      /\ unread = {}
  BY DEF Events!Init
<1>2. \A r \in Requests : call[r] = Events!New /\ Events!Stage(r) = "new"
  BY <1>1 DEF Events!New, Events!Stage
<1>3. /\ <<>> \in Seq(Tellings) /\ <<>> \in Seq(Requests) /\ Once(<<>>)
      /\ Events!ToSet(<<>>) = {} /\ \A i \in DOMAIN <<>> : FALSE
  BY DEF Once, Events!ToSet
<1>4. RequestsOk
  BY <1>1, <1>2 DEF RequestsOk
<1>5. PoolOk
  <2>1. Events!Held = Cardinality({}) + Cardinality({})
    BY <1>2, CardinalityOfEvents DEF Events!Held, Events!Open
  <2>2. PoolSize \in Nat
    BY EventsFit
  <2> QED
    BY <2>1, <2>2, FS_EmptySet DEF PoolOk
<1>6. ToldOk
  BY <1>1, <1>2, <1>3 DEF ToldOk
<1>7. Apart /\ Waited /\ SparedOk
  BY <1>1, <1>2, <1>3 DEF Apart, Waited, SparedOk, Events!Open
<1>8. CommitsOk
  BY <1>1, <1>2, <1>3 DEF CommitsOk, Events!Committed
<1> QED
  BY <1>4, <1>5, <1>6, <1>7, <1>8 DEF EventsInv

LEMMA EventsStep ==
  ASSUME EventsInv, [Events!Next]_(Events!vars)
  PROVE  EventsInv'
<1>1. CASE UNCHANGED Events!vars
  <2>1. UNCHANGED <<call, told, unread, failed, order>>
    BY <1>1 DEF Events!vars
  <2>2. RequestsOk' /\ PoolOk'
    BY <2>1 DEF EventsInv, RequestsOk, InOrder, PoolOk, Events!Held, Events!Open, Events!Stage
  <2>3. ToldOk'
    <3>1. \A i \in DOMAIN told : Telling(told[i]) => Telling(told[i])'
      BY <2>1 DEF Telling, Events!Reached, Events!Audience
    <3>2. \A r, row, c : Handled(r, row, c) => Handled(r, row, c)'
      BY <2>1 DEF Handled, Told
    <3> QED
      BY <2>1, <3>1, <3>2 DEF EventsInv, ToldOk
  <2>4. Apart' /\ CommitsOk' /\ Waited'
    BY <2>1 DEF EventsInv, Apart, CommitsOk, Waited, Wrote, Precedes, Events!Committed,
                Events!Open, Events!Stage
  <2>5. SparedOk'
    BY <2>1 DEF EventsInv, SparedOk, ToldEarlier
  <2> QED
    BY <2>2, <2>3, <2>4, <2>5 DEF EventsInv
<1>2. ASSUME NEW r \in Requests, Events!Begin(r) PROVE EventsInv'
  <2>1. PICK q : /\ Becomes(r, q) /\ call[r] = Events!New
                 /\ q.stage = "working" /\ q.changed = <<>> /\ Events!Free
                 /\ q.wrote = {} /\ q.seen = {}
                 /\ UNCHANGED <<told, unread, failed, order>>
    BY <1>2, OnBegin DEF EventsInv
  <2>2. RequestsOk' /\ PoolOk'
    BY <2>1, BecomesOk, PoolStep DEF EventsInv
  <2>3. ToldOk'
    BY <2>1, ToldStands DEF EventsInv, ToldOk
  <2>4. Apart' /\ CommitsOk' /\ Waited'
    BY <2>1, GoesOn
  <2>5. SparedOk'
    BY <2>1, SparedStands DEF EventsInv
  <2> QED
    BY <2>2, <2>3, <2>4, <2>5 DEF EventsInv
<1>3. ASSUME NEW r \in Requests, Events!Change(r) PROVE EventsInv'
  <2>1. PICK q : /\ Becomes(r, q) /\ Alike(q, call[r]) /\ q.seen = {}
                 /\ call[r].stage = "working" /\ q.stage = "publishing"
                 /\ UNCHANGED <<told, unread>>
    BY <1>3, OnChange DEF EventsInv
  <2>2. RequestsOk' /\ PoolOk'
    BY <2>1, BecomesOk, PoolStep DEF EventsInv, Events!Open, Events!Stage
  <2>3. ToldOk'
    BY <1>3, ToldChanges DEF EventsInv
  <2>4. Apart' /\ CommitsOk' /\ Waited'
    BY <1>3, ChangesApart
  <2>5. SparedOk'
    BY <2>1, SparedStands DEF EventsInv
  <2> QED
    BY <2>2, <2>3, <2>4, <2>5 DEF EventsInv
<1>4. ASSUME NEW r \in Requests, Events!CallHandler(r) \/ Events!Published(r) PROVE EventsInv'
  <2>1. PICK q : /\ Becomes(r, q) /\ call[r] \in Requested /\ Alike(q, call[r])
                 /\ call[r].stage = "publishing" /\ q.stage \in {"calling", "working"}
                 /\ q.stage = "calling" => Events!Free
                 /\ q.changed = call[r].changed /\ q.calls = call[r].calls
                 /\ q.wrote = call[r].wrote
                 /\ \A u \in q.seen : <<u, q.kind, Events!Last(q.changed)>> \in unread
                 /\ UNCHANGED <<told, unread, failed, order>>
    BY <1>4, OnPublishing DEF EventsInv
  <2>2. Events!Open(r)
    BY <2>1 DEF Events!Open, Events!Stage
  <2>3. RequestsOk' /\ PoolOk'
    BY <2>1, <2>2, BecomesOk, PoolStep DEF EventsInv
  <2>4. ToldOk'
    BY <2>1, ToldStands DEF EventsInv, ToldOk
  <2>5. Apart' /\ CommitsOk' /\ Waited'
    BY <2>1, <2>2, GoesOn
  <2>6. SparedOk'
    BY <2>1, SparedStands DEF EventsInv
  <2> QED
    BY <2>3, <2>4, <2>5, <2>6 DEF EventsInv
<1>5. ASSUME NEW r \in Requests, Events!Tell(r) PROVE EventsInv'
  <2>1. PICK q : /\ Becomes(r, q)
                 /\ call[r].stage = "calling" /\ q.stage = "publishing"
    BY <1>5, OnTell DEF EventsInv
  <2>2. RequestsOk' /\ PoolOk'
    BY <2>1, BecomesOk, PoolStep DEF EventsInv, Events!Open, Events!Stage
  <2>3. ToldOk'
    BY <1>5, ToldGrows DEF EventsInv
  <2>4. Apart' /\ CommitsOk' /\ Waited'
    BY <1>5, TellsInOrder
  <2>5. SparedOk'
    BY <1>5, SparedGrows DEF EventsInv
  <2> QED
    BY <2>2, <2>3, <2>4, <2>5 DEF EventsInv
<1>6. ASSUME NEW r \in Requests, Events!Fail(r) PROVE EventsInv'
  <2>1. PICK q : \E h \in Handlers :
           /\ Becomes(r, q) /\ call[r] \in Requested /\ Alike(q, call[r])
           /\ call[r].stage \in {"calling", "publishing"} /\ q.stage = "publishing"
           /\ q.changed = call[r].changed /\ q.changed # <<>>
           /\ Events!ToSet(q.calls) \subseteq Events!ToSet(call[r].calls)
           /\ \A c \in Events!ToSet(call[r].calls) :
                c \in Events!ToSet(q.calls) \/ c.handler = h
           /\ failed' = failed \cup {<<r, Events!Last(q.changed), h>>}
           /\ q.seen = {} /\ q.wrote = call[r].wrote
           /\ UNCHANGED <<told, unread, order>>
    BY <1>6, OnFail DEF EventsInv
  <2>2. PICK h \in Handlers :
           /\ Becomes(r, q) /\ call[r] \in Requested /\ Alike(q, call[r])
           /\ call[r].stage \in {"calling", "publishing"} /\ q.stage = "publishing"
           /\ q.changed = call[r].changed /\ q.changed # <<>>
           /\ Events!ToSet(q.calls) \subseteq Events!ToSet(call[r].calls)
           /\ \A c \in Events!ToSet(call[r].calls) :
                c \in Events!ToSet(q.calls) \/ c.handler = h
           /\ failed' = failed \cup {<<r, Events!Last(q.changed), h>>}
           /\ q.seen = {} /\ q.wrote = call[r].wrote
           /\ UNCHANGED <<told, unread, order>>
    BY <2>1
  <2>3. Events!Open(r)
    BY <2>2 DEF Events!Open, Events!Stage
  <2>4. RequestsOk' /\ PoolOk'
    BY <2>2, <2>3, BecomesOk, PoolStep DEF EventsInv
  <2>5. Events!Last(q.changed) \in ChangedRows
    <3>1. q.changed \in Seq(ChangedRows) /\ q.changed # <<>>
      BY <2>2 DEF Becomes, Requested
    <3> QED
      BY <3>1, LastOne
  <2>6. /\ failed \subseteq failed' /\ failed' \subseteq Requests \X ChangedRows \X Handlers
        /\ \A c \in Events!ToSet(call[r].calls) :
             \/ c \in Events!ToSet(q.calls)
             \/ <<r, Events!Last(q.changed), c.handler>> \in failed'
    BY <2>2, <2>5 DEF EventsInv, ToldOk
  <2>7. ToldOk'
    BY <2>2, <2>6, ToldStands DEF EventsInv
  <2>8. Apart' /\ CommitsOk' /\ Waited'
    BY <2>2, <2>3, GoesOn
  <2>9. SparedOk'
    BY <2>2, SparedStands DEF EventsInv
  <2> QED
    BY <2>4, <2>7, <2>8, <2>9 DEF EventsInv
<1>7. ASSUME NEW r \in Requests, Events!Commit(r) \/ Events!Abort(r) PROVE EventsInv'
  <2>1. PICK q : /\ Becomes(r, q) /\ call[r] \in Requested /\ Alike(q, call[r])
                 /\ call[r].stage = "working" /\ q.stage \in {"committed", "aborted"}
                 /\ q.changed = call[r].changed /\ q.calls = call[r].calls
                 /\ q.seen = {} /\ UNCHANGED <<told, unread, failed>>
    BY <1>7, OnEnd DEF EventsInv
  <2>2. RequestsOk' /\ PoolOk'
    BY <2>1, BecomesOk, PoolStep DEF EventsInv, Events!Open, Events!Stage
  <2>3. ToldOk'
    BY <2>1, ToldStands DEF EventsInv, ToldOk
  <2>4. Apart' /\ CommitsOk' /\ Waited'
    BY <1>7, EndsInOrder
  <2>5. SparedOk'
    BY <2>1, SparedStands DEF EventsInv
  <2> QED
    BY <2>2, <2>3, <2>4, <2>5 DEF EventsInv
<1>8. ASSUME NEW u \in Events!Everybody, Events!Read(u) PROVE EventsInv'
  <2>1. UNCHANGED <<call, told, failed, order>> /\ unread' \subseteq unread
    BY <1>8 DEF Events!Read
  <2>2. RequestsOk' /\ PoolOk'
    BY <2>1 DEF EventsInv, RequestsOk, InOrder, PoolOk, Events!Held, Events!Open, Events!Stage
  <2>3. ToldOk'
    <3>1. \A i \in DOMAIN told : Telling(told[i]) => Telling(told[i])'
      BY <2>1 DEF Telling, Events!Reached, Events!Audience
    <3>2. \A r, row, c : Handled(r, row, c) => Handled(r, row, c)'
      BY <2>1 DEF Handled, Told
    <3> QED
      BY <2>1, <3>1, <3>2 DEF EventsInv, ToldOk
  <2>4. Apart' /\ CommitsOk' /\ Waited'
    BY <2>1 DEF EventsInv, Apart, CommitsOk, Waited, Wrote, Precedes, Events!Committed,
                Events!Open, Events!Stage
  <2>5. SparedOk'
    BY <2>1 DEF EventsInv, SparedOk, ToldEarlier
  <2> QED
    BY <2>2, <2>3, <2>4, <2>5 DEF EventsInv
<1> QED
  BY <1>1, <1>2, <1>3, <1>4, <1>5, <1>6, <1>7, <1>8 DEF Events!Next

-----------------------------------------------------------------------------
LEMMA EventTypes ==
  ASSUME EventsInv
  PROVE  Events!TypeOK
<1>1. ASSUME NEW r \in Requests, call[r] # Events!New
      PROVE  /\ Events!Stage(r) \in {"working", "publishing", "calling", "committed", "aborted"}
             /\ call[r].kind \in Events!Kinds /\ call[r].by \in Events!Everybody
             /\ call[r].targets \in NamedPeople
             /\ \A x \in Events!ToSet(call[r].rows \o call[r].changed) : x \in ChangedRows
             /\ call[r].wrote \subseteq Events!ToSet(call[r].changed)
             /\ call[r].seen \subseteq Events!Everybody
  <2>1. call[r] \in Requested /\ InOrder(call[r])
    BY <1>1 DEF EventsInv, RequestsOk
  <2>2. call[r].rows \in Seq(ChangedRows) /\ call[r].changed \in Seq(ChangedRows)
    BY <2>1 DEF Requested
  <2> DEFINE s == call[r].rows \o call[r].changed
  <2>3. s \in Seq(ChangedRows)
    BY <2>2, ConcatProperties
  <2> HIDE DEF s
  <2>4. \A x \in Events!ToSet(s) : x \in ChangedRows
    BY <2>3, LenProperties, ElementOfSeq DEF Events!ToSet
  <2> QED
    BY <2>1, <2>4 DEF Requested, InOrder, Events!Stage, s
<1>2. \A i \in DOMAIN told : told[i].users \cup told[i].spared \subseteq Events!Everybody
  <2>1. \A i \in DOMAIN told : told[i] \in Tellings
    BY LenProperties, ElementOfSeq DEF EventsInv, ToldOk
  <2> QED
    BY <2>1 DEF Tellings
<1>3. Events!ToSet(order) \subseteq Requests
  <2>1. \A i \in DOMAIN order : order[i] \in Requests
    BY LenProperties, ElementOfSeq DEF EventsInv, CommitsOk
  <2> QED
    BY <2>1 DEF Events!ToSet
<1> QED
  BY <1>1, <1>2, <1>3 DEF Events!TypeOK, EventsInv, PoolOk, ToldOk, SparedOk, Handlers

LEMMA OrderHolds ==
  ASSUME EventsInv
  PROVE  Events!ToldInOrder
<1> SUFFICES ASSUME NEW i \in DOMAIN told, NEW j \in DOMAIN told,
                    i < j, told[i].row = told[j].row, told[i].request # told[j].request,
                    Events!Committed(told[i].request), Events!Committed(told[j].request),
                    Wrote(i), Wrote(j)
             PROVE  Events!Place(told[i].request) < Events!Place(told[j].request)
  BY DEF Events!ToldInOrder, Wrote
<1>1. PICK m, n \in DOMAIN order :
        order[m] = told[i].request /\ order[n] = told[j].request /\ m < n
  BY DEF EventsInv, Waited, Precedes
<1>2. Once(order)
  BY DEF EventsInv, CommitsOk
<1>3. \A k \in DOMAIN order : Events!Place(order[k]) = k
  BY <1>2 DEF Once, Events!Place
<1> QED
  BY <1>1, <1>3

LEMMA AllAreTold ==
  ASSUME EventsInv
  PROVE  Events!ToldToAll
<1> SUFFICES ASSUME NEW r \in Requests, Events!Committed(r),
                    NEW row \in Events!ToSet(call[r].changed)
             PROVE  LET q == call[r] IN
                    /\ <<r, row, "notices">> \notin failed =>
                         \A x \in Events!Concerned(q) :
                           \E i \in Events!TellsOf(r, row, "notices") :
                             \/ x[2] \in told[i].users
                             \/ /\ q.kind \in Events!Quiet /\ x[2] \in told[i].spared
                                /\ Events!ToldBefore(i, x[2])
                    /\ q.kind \in Events!Hooked /\ <<r, row, "webhooks">> \notin failed =>
                         Events!Cardinality(Events!TellsOf(r, row, "webhooks")) = 1
                    /\ Events!Cardinality(Events!TellsOf(r, row, "notices")) <= 2
  BY DEF Events!ToldToAll
<1> DEFINE q == call[r]
           W == Events!Call("webhooks", "endpoints")
<1>1. q \in Requested /\ InOrder(q) /\ q # Events!New
  BY DEF EventsInv, RequestsOk, Events!Committed, Events!Stage, Events!New
<1>2. q.calls = <<>> /\ q.kind \in Events!Kinds /\ q.targets \in NamedPeople
  BY <1>1 DEF InOrder, Requested, Events!Committed, Events!Stage
<1>3. CallsFit(q.kind, q.targets)
  BY <1>2, CallsKnown
<1>4. /\ \A c \in AllCalls(q) : c.handler = "webhooks" => c = W
      /\ q.kind \in Events!Hooked => W \in AllCalls(q)
      /\ \E a, b \in CallRecords : \A c \in AllCalls(q) : c.handler = "notices" => c \in {a, b}
      /\ \A c \in AllCalls(q) : c \in CallRecords
  <2>1. \A c \in AllCalls(q) : c \in CallRecords
    BY <1>3, LenProperties, ElementOfSeq DEF CallsFit, AllCalls, Events!ToSet
  <2> QED
    BY <1>3, <2>1 DEF CallsFit, AllCalls
<1>5. \A c \in AllCalls(q) : <<r, row, c.handler>> \in failed \/ Told(r, row, c)
  <2>1. Events!ToSet(<<>>) = {}
    BY DEF Events!ToSet
  <2> QED
    BY <1>1, <1>2, <2>1 DEF EventsInv, ToldOk, Handled
<1>6. \A i \in DOMAIN told : told[i].request = r =>
        /\ told[i].call \in AllCalls(q)
        /\ told[i].users \cup told[i].spared = Events!Reached(q, told[i].call.part)
        /\ \A u \in told[i].spared : q.kind \in Events!Quiet /\ Events!ToldBefore(i, u)
  BY DEF EventsInv, ToldOk, Telling, SparedOk, ToldEarlier, Events!ToldBefore
<1>7. \A i, j \in DOMAIN told :
        /\ told[i].request = r /\ told[i].row = row /\ told[j].request = r /\ told[j].row = row
        /\ told[i].call = told[j].call
        => i = j
  BY DEF EventsInv, ToldOk
<1> HIDE DEF q
<1>8. ASSUME <<r, row, "notices">> \notin failed, NEW x \in Events!Concerned(q)
      PROVE  \E i \in Events!TellsOf(r, row, "notices") :
               \/ x[2] \in told[i].users
               \/ /\ q.kind \in Events!Quiet /\ x[2] \in told[i].spared
                  /\ Events!ToldBefore(i, x[2])
  <2>1. PICK c \in AllCalls(q) :
          \E u \in Events!Reached(q, c.part) : x = <<c.handler, u>>
    BY DEF Events!Concerned, AllCalls
  <2>2. PICK u \in Events!Reached(q, c.part) : x = <<c.handler, u>>
    BY <2>1
  <2>3. c.handler # "webhooks"
    <3> SUFFICES ASSUME c.handler = "webhooks" PROVE FALSE
      OBVIOUS
    <3>1. c.part = "endpoints"
      BY <1>4 DEF Events!Call
    <3>2. Events!Audience(q, c.part) = {}
      BY <3>1 DEF Events!Audience
    <3> QED
      BY <2>2, <3>2 DEF Events!Reached
  <2>4. c.handler = "notices"
    BY <1>4, <2>3 DEF CallRecords, Handlers
  <2>5. PICK i \in DOMAIN told : told[i].request = r /\ told[i].row = row /\ told[i].call = c
    BY <1>5, <1>8, <2>4 DEF Told
  <2>6. /\ told[i].users \cup told[i].spared = Events!Reached(q, c.part)
        /\ \A v \in told[i].spared : q.kind \in Events!Quiet /\ Events!ToldBefore(i, v)
    BY <1>6, <2>5
  <2> QED
    BY <2>2, <2>4, <2>5, <2>6 DEF Events!TellsOf
<1>9. ASSUME q.kind \in Events!Hooked, <<r, row, "webhooks">> \notin failed
      PROVE  Events!Cardinality(Events!TellsOf(r, row, "webhooks")) = 1
  <2>1. W \in AllCalls(q) /\ W.handler = "webhooks"
    BY <1>4, <1>9 DEF Events!Call
  <2>2. PICK i \in DOMAIN told : told[i].request = r /\ told[i].row = row /\ told[i].call = W
    BY <1>5, <1>9, <2>1 DEF Told
  <2>3. \A j \in Events!TellsOf(r, row, "webhooks") : j = i
    BY <1>4, <1>6, <1>7, <2>2 DEF Events!TellsOf
  <2>4. i \in Events!TellsOf(r, row, "webhooks")
    BY <2>1, <2>2 DEF Events!TellsOf
  <2>5. Events!TellsOf(r, row, "webhooks") = {i}
    BY <2>3, <2>4
  <2> QED
    BY <2>5, FS_Singleton, CardinalityOfEvents
<1>10. Events!Cardinality(Events!TellsOf(r, row, "notices")) <= 2
  <2> DEFINE T == Events!TellsOf(r, row, "notices")
  <2>1. PICK a, b \in CallRecords :
          \A c \in AllCalls(q) : c.handler = "notices" => c \in {a, b}
    BY <1>4
  <2>2. \A i \in T : i \in DOMAIN told /\ told[i].call \in {a, b}
    BY <1>6, <2>1 DEF Events!TellsOf
  <2>3. \A i, j \in T : told[i].call = told[j].call => i = j
    BY <1>7 DEF Events!TellsOf
  <2> HIDE DEF T
  <2> DEFINE A == CHOOSE i \in T : told[i].call = a
             B == CHOOSE i \in T : told[i].call = b
  <2>4. \A i \in T : told[i].call = a => i = A
    <3>1. ASSUME NEW i \in T, told[i].call = a PROVE A \in T /\ told[A].call = a
      BY <3>1
    <3> HIDE DEF A
    <3> QED
      BY <2>3, <3>1
  <2>5. \A i \in T : told[i].call = b => i = B
    <3>1. ASSUME NEW i \in T, told[i].call = b PROVE B \in T /\ told[B].call = b
      BY <3>1
    <3> HIDE DEF B
    <3> QED
      BY <2>3, <3>1
  <2> HIDE DEF A, B
  <2>6. T \subseteq {A, B}
    BY <2>2, <2>4, <2>5
  <2>7. IsFiniteSet({A}) /\ Cardinality({A}) = 1
    BY FS_Singleton
  <2>8. IsFiniteSet({A, B}) /\ Cardinality({A, B}) \in Nat /\ Cardinality({A, B}) <= 2
    <3>1. {A, B} \subseteq {A} \cup {B} /\ {A} \cup {B} = {A, B}
      OBVIOUS
    <3>2. /\ IsFiniteSet({A} \cup {B})
          /\ Cardinality({A} \cup {B}) \in {1, 2}
      BY <2>7, FS_AddElement
    <3> QED
      BY <3>1, <3>2
  <2>9. Cardinality(T) \in Nat /\ Cardinality(T) <= Cardinality({A, B})
    BY <2>6, <2>8, FS_Subset, FS_CardinalityType
  <2>10. Cardinality(T) <= 2
    BY <2>8, <2>9
  <2> QED
    BY <2>10, CardinalityOfEvents DEF T
<1> QED
  BY <1>8, <1>9, <1>10 DEF q

LEMMA EventsAlways == Composition => []EventsInv
<1>1. Start => EventsInv
  BY EventsStart DEF Start, Stand
<1>2. EventsInv /\ [Step]_allVars => EventsInv'
  <2> SUFFICES ASSUME EventsInv, [Step]_allVars PROVE EventsInv'
    OBVIOUS
  <2>1. [Events!Next]_(Events!vars)
    BY DEF Step, allVars, serviceVars, eventVars, Events!vars
  <2> QED
    BY <2>1, EventsStep
<1> QED
  BY <1>1, <1>2, PTL DEF Composition

\* EventFanout: changes that were committed are told to all concerned who want to know,
\* once, and in the order of the commits, however requests interleave and whatever handlers
\* fail; only of what is information or a warning is nobody told again who has an unread
\* notice of an earlier event of that kind and row.
THEOREM EventsReach == Composition => []EventsReachAll
<1>1. EventsInv => EventsReachAll
  BY OrderHolds, AllAreTold DEF EventsReachAll, Events!EventsReachAll
<1> QED
  BY <1>1, EventsAlways, PTL

-----------------------------------------------------------------------------
(***************************************************************************)
(* EvidenceLinks.  A binding in flight is for a project that reports on    *)
(* the standard; a file that was uploaded is in the storage; what is       *)
(* linked or bound is there; and the points of which a deletion in flight  *)
(* takes an approved one were not approved with it when it asked.          *)
(***************************************************************************)
InContext(b) == b \in Files!Bindings /\ b.project \in Files!ItemProjects(b.item)

RequestFits ==
  /\ request \in {Files!Idle}
                   \cup [stage : {"uploaded"}, user : Users, evidence : Evidences]
                   \cup [stage : {"resolved"}, binding : Files!Bindings]
  /\ request.stage = "uploaded" =>
       request.evidence \in stored /\ ~Files!Exists(request.evidence)
  /\ request.stage = "resolved" => InContext(request.binding)

BindingsFit == \A b \in bindings : InContext(b) /\ Files!Exists(b.evidence)
LinksFit == \A l \in links : Files!Exists(l[2])
FilesStored == \A e \in Evidences : Files!Exists(e) /\ evidence[e].uploaded => e \in stored

DeletionFits ==
  /\ deletion \in {Files!Idle}
                    \cup [stage : {"checked"}, evidence : Evidences, since : SUBSET Authored]
  /\ deletion # Files!Idle =>
       /\ Files!Exists(deletion.evidence)
       /\ \A p \in approved : <<p, deletion.evidence>> \in links => p \in deletion.since

FilesInv ==
  Files!TypeOK /\ RequestFits /\ BindingsFit /\ LinksFit /\ FilesStored /\ DeletionFits

LEMMA FilesStart ==
  ASSUME Files!Init
  PROVE  FilesInv
BY DEF Files!Init, FilesInv, Files!TypeOK, Files!Absent, Files!Idle, Files!Links, Files!Exists,
       RequestFits, BindingsFit, LinksFit, FilesStored, DeletionFits

LEMMA RecordKinds ==
  /\ Files!Idle.stage = "idle"
  /\ \A x \in [stage : {"uploaded"}, user : Users, evidence : Evidences] :
       x.stage = "uploaded" /\ x.user \in Users /\ x.evidence \in Evidences
  /\ \A x \in [stage : {"resolved"}, binding : Files!Bindings] :
       x.stage = "resolved" /\ x.binding \in Files!Bindings
  /\ \A x \in [stage : {"checked"}, evidence : Evidences, since : SUBSET Authored] :
       x.stage = "checked" /\ x.evidence \in Evidences /\ x.since \subseteq Authored
BY DEF Files!Idle

\* A row is none of the two marks of evidence that is not there.
LEMMA RowsAreThere ==
  \A x \in Files!Rows : x # Files!Absent /\ x # Files!Gone
<1> SUFFICES ASSUME NEW x \in Files!Rows PROVE x # Files!Absent /\ x # Files!Gone
  OBVIOUS
<1>1. DOMAIN x = {"by", "uploaded"}
  BY DEF Files!Rows
<1>2. DOMAIN Files!Absent = {"by", "state"} /\ DOMAIN Files!Gone = {"by", "state"}
  BY DEF Files!Absent, Files!Gone
<1> QED
  BY <1>1, <1>2

\* Only what a step writes has to be looked at, as projects never lose a standard.
LEMMA ContextStays ==
  ASSUME reported \subseteq reported', NEW b, InContext(b)
  PROVE  InContext(b)'
BY DEF InContext, Files!ItemProjects, Files!Bindings

\* As long as evidence stays, and links and approvals are none but the old ones, so does
\* what rests on them.
LEMMA RestStays ==
  ASSUME FilesInv, reported \subseteq reported', UNCHANGED evidence, stored \subseteq stored'
  PROVE  /\ UNCHANGED bindings => BindingsFit'
         /\ links' \subseteq links => LinksFit'
         /\ FilesStored'
         /\ UNCHANGED request => RequestFits'
         /\ links' \subseteq links /\ approved' \subseteq approved /\ UNCHANGED deletion =>
              DeletionFits'
<1>1. \A e : Files!Exists(e) <=> Files!Exists(e)'
  BY DEF Files!Exists
<1>2. UNCHANGED bindings => BindingsFit'
  BY <1>1, ContextStays DEF FilesInv, BindingsFit
<1>3. UNCHANGED request => RequestFits'
  <2>1. ASSUME UNCHANGED request, request.stage = "uploaded"
        PROVE  request.evidence \in stored' /\ ~Files!Exists(request.evidence)'
    BY <1>1, <2>1 DEF FilesInv, RequestFits
  <2>2. ASSUME UNCHANGED request, request.stage = "resolved"
        PROVE  InContext(request.binding)'
    BY <2>2, ContextStays DEF FilesInv, RequestFits
  <2> QED
    BY <2>1, <2>2 DEF FilesInv, RequestFits, Files!Bindings
<1>4. links' \subseteq links => LinksFit'
  BY <1>1 DEF FilesInv, LinksFit
<1>5. FilesStored'
  BY <1>1 DEF FilesInv, FilesStored
<1>6. links' \subseteq links /\ approved' \subseteq approved /\ UNCHANGED deletion =>
        DeletionFits'
  BY <1>1 DEF FilesInv, DeletionFits
<1> QED
  BY <1>2, <1>3, <1>4, <1>5, <1>6

\* What comes to be approved with the evidence is remembered by the deletion.
LEMMA SinceFits ==
  ASSUME FilesInv, NEW p \in Authored, deletion' = Files!Since(p), UNCHANGED evidence,
         \A q \in approved', e \in Evidences :
           <<q, e>> \in links' => q = p \/ (q \in approved /\ <<q, e>> \in links)
  PROVE  DeletionFits' /\ deletion'.stage \in {"idle", "checked"}
<1>1. CASE deletion = Files!Idle
  BY <1>1 DEF FilesInv, DeletionFits, Files!Since, Files!Idle
<1>2. CASE deletion # Files!Idle
  <2> DEFINE e == deletion.evidence
             x == [deletion EXCEPT !.since = @ \cup {p}]
  <2>1. /\ deletion \in [stage : {"checked"}, evidence : Evidences, since : SUBSET Authored]
        /\ Files!Exists(e) /\ \A q \in approved : <<q, e>> \in links => q \in deletion.since
    BY <1>2 DEF FilesInv, DeletionFits
  <2>2. /\ x \in [stage : {"checked"}, evidence : Evidences, since : SUBSET Authored]
        /\ x.evidence = e /\ x.since = deletion.since \cup {p} /\ x.stage = "checked"
    BY <2>1
  <2>3. e \in Evidences /\ deletion.stage = "checked"
    BY <2>1
  <2> HIDE DEF x
  <2>4. deletion' = IF p \in approved' /\ <<p, e>> \in links' THEN x ELSE deletion
    BY <1>2 DEF Files!Since, x
  <2>5. evidence'[e] \notin {Files!Absent, Files!Gone}
    BY <2>1 DEF Files!Exists
  <2>6. \A q \in approved' : <<q, e>> \in links' => q \in deletion'.since
    BY <2>1, <2>2, <2>3, <2>4
  <2>7. deletion'.evidence = e /\ deletion'.stage = "checked"
    BY <2>2, <2>3, <2>4
  <2> QED
    BY <2>1, <2>2, <2>4, <2>5, <2>6, <2>7 DEF DeletionFits, Files!Exists
<1> QED
  BY <1>1, <1>2

\* One evidence is created or is gone; what names it goes with it.
LEMMA RowChanges ==
  ASSUME FilesInv, NEW e \in Evidences, NEW row, evidence' = [evidence EXCEPT ![e] = row],
         \/ row \in Files!Rows /\ (row.uploaded => e \in stored)
         \/ row = Files!Gone /\ links' = {l \in links : l[2] # e}
              /\ bindings' = {b \in bindings : b.evidence # e}
         \/ row = Files!Gone /\ ~Files!Exists(e),
         links' \subseteq links, bindings' \subseteq bindings, UNCHANGED <<stored, reported>>
  PROVE  /\ evidence' \in [Evidences -> Files!Rows \cup {Files!Absent, Files!Gone}]
         /\ BindingsFit' /\ LinksFit' /\ FilesStored'
<1>1. /\ evidence \in [Evidences -> Files!Rows \cup {Files!Absent, Files!Gone}]
      /\ links \subseteq Authored \X Evidences
      /\ \A b \in bindings : b.evidence \in Evidences
  BY DEF FilesInv, Files!TypeOK, Files!Links, Files!Bindings
<1>2. \A x \in Evidences : evidence'[x] = IF x = e THEN row ELSE evidence[x]
  BY <1>1
<1>3. evidence' \in [Evidences -> Files!Rows \cup {Files!Absent, Files!Gone}]
  BY <1>1
<1>4. \A x \in Evidences : x # e => (Files!Exists(x)' <=> Files!Exists(x))
  BY <1>2 DEF Files!Exists
<1>5. Files!Exists(e)' <=> row \in Files!Rows
  <2>1. evidence'[e] = row
    BY <1>2
  <2>2. Files!Exists(e)' <=> row \notin {Files!Absent, Files!Gone}
    BY <2>1 DEF Files!Exists
  <2>3. row \in Files!Rows \/ row = Files!Gone
    OBVIOUS
  <2> QED
    BY <2>2, <2>3, RowsAreThere
<1>6. FilesStored'
  <2>1. row \in Files!Rows => (row.uploaded => e \in stored)
    BY RowsAreThere
  <2> QED
    BY <1>2, <1>4, <1>5, <2>1 DEF FilesInv, FilesStored
<1>7. LinksFit'
  BY <1>1, <1>4, <1>5 DEF FilesInv, LinksFit
<1>8. \A b : InContext(b) => InContext(b)'
  BY ContextStays
<1>9. BindingsFit'
  BY <1>1, <1>4, <1>5, <1>8 DEF FilesInv, BindingsFit
<1> QED
  BY <1>3, <1>6, <1>7, <1>9

LEMMA FilesStep ==
  ASSUME FilesInv, Files!Next
  PROVE  FilesInv'
<1>1. /\ evidence \in [Evidences -> Files!Rows \cup {Files!Absent, Files!Gone}]
      /\ stored \subseteq Evidences
      /\ links \subseteq Files!Links /\ bindings \subseteq Files!Bindings
      /\ reported \subseteq Projects \X StandardsOfItems /\ valid \subseteq BindableItems
      /\ held \in [Holdings -> Teams \cup {Files!NoTeam}] /\ approved \subseteq Authored
      /\ request.stage \in {"idle", "uploaded", "resolved"}
      /\ deletion.stage \in {"idle", "checked"}
  BY DEF FilesInv, Files!TypeOK
<1>2. CASE Files!Record
  <2>1. /\ request.stage = "uploaded" /\ request.user \in Users
        /\ request.evidence \in Evidences /\ request.evidence \in stored
    BY <1>2, RecordKinds DEF Files!Record, FilesInv, RequestFits
  <2>2. PICK row \in {[by |-> request.user, uploaded |-> TRUE], Files!Gone} :
          evidence' = [evidence EXCEPT ![request.evidence] = row]
    BY <1>2 DEF Files!Record
  <2>3. /\ request' = Files!Idle
        /\ UNCHANGED <<stored, links, bindings, reported, valid, held, approved, deletion>>
    BY <1>2 DEF Files!Record
  <2>4. ~Files!Exists(request.evidence)
    BY <2>1 DEF FilesInv, RequestFits
  <2>5. /\ evidence' \in [Evidences -> Files!Rows \cup {Files!Absent, Files!Gone}]
        /\ BindingsFit' /\ LinksFit' /\ FilesStored'
    <3>1. CASE row = Files!Gone
      BY <2>1, <2>2, <2>3, <2>4, <3>1, RowChanges
    <3>2. CASE row = [by |-> request.user, uploaded |-> TRUE]
      <4>1. row \in Files!Rows
        BY <2>1, <3>2 DEF Files!Rows
      <4> QED
        BY <2>1, <2>2, <2>3, <4>1, RowChanges
    <3> QED
      BY <3>1, <3>2
  <2>6. RequestFits'
    BY <2>3, RecordKinds DEF RequestFits
  <2>7. DeletionFits'
    <3>1. deletion # Files!Idle =>
            deletion.evidence # request.evidence /\ deletion.evidence \in Evidences
      BY <2>4, RecordKinds DEF FilesInv, DeletionFits
    <3>2. deletion # Files!Idle => Files!Exists(deletion.evidence)'
      BY <1>1, <2>2, <2>3, <3>1 DEF FilesInv, DeletionFits, Files!Exists
    <3> QED
      BY <2>3, <3>2 DEF FilesInv, DeletionFits
  <2> QED
    BY <1>1, <2>3, <2>5, <2>6, <2>7, RecordKinds DEF FilesInv, Files!TypeOK
<1>3. CASE Files!Bind
  <2>1. request.stage = "resolved" /\ InContext(request.binding)
    BY <1>3 DEF Files!Bind, FilesInv, RequestFits
  <2>2. /\ request' = Files!Idle
        /\ \/ bindings' = bindings \cup {request.binding}
                /\ Files!Exists(request.binding.evidence)
           \/ bindings' = bindings
        /\ UNCHANGED <<evidence, stored, links, reported, valid, held, approved, deletion>>
    BY <1>3 DEF Files!Bind
  <2>3. BindingsFit'
    <3>1. \A b : Files!Exists(b.evidence) => Files!Exists(b.evidence)'
      BY <2>2 DEF Files!Exists
    <3>2. \A b : InContext(b) => InContext(b)'
      BY <2>2, ContextStays
    <3> QED
      BY <2>1, <2>2, <3>1, <3>2 DEF FilesInv, BindingsFit
  <2>4. bindings' \subseteq Files!Bindings
    BY <1>1, <2>1, <2>2 DEF InContext
  <2>5. RequestFits'
    BY <2>2, RecordKinds DEF RequestFits
  <2>6. LinksFit' /\ FilesStored' /\ DeletionFits'
    BY <2>2, RestStays
  <2> QED
    BY <1>1, <2>2, <2>3, <2>4, <2>5, <2>6, RecordKinds DEF FilesInv, Files!TypeOK
<1>4. CASE Files!Delete
  <2>1. deletion.evidence \in Evidences /\ Files!Exists(deletion.evidence)
    BY <1>4, RecordKinds DEF Files!Delete, FilesInv, DeletionFits
  <2>2. /\ deletion' = Files!Idle
        /\ UNCHANGED <<stored, reported, valid, held, approved, request>>
    BY <1>4 DEF Files!Delete
  <2>3. DeletionFits'
    BY <2>2 DEF DeletionFits
  <2>4. CASE UNCHANGED <<evidence, links, bindings>>
    <3>1. BindingsFit' /\ LinksFit' /\ FilesStored' /\ RequestFits'
      BY <2>2, <2>4, RestStays
    <3> QED
      BY <1>1, <2>2, <2>3, <2>4, <3>1, RecordKinds DEF FilesInv, Files!TypeOK
  <2>5. CASE /\ evidence' = [evidence EXCEPT ![deletion.evidence] = Files!Gone]
             /\ links' = {l \in links : l[2] # deletion.evidence}
             /\ bindings' = {b \in bindings : b.evidence # deletion.evidence}
    <3>1. links' \subseteq links /\ bindings' \subseteq bindings
      BY <2>5
    <3>2. /\ evidence' \in [Evidences -> Files!Rows \cup {Files!Absent, Files!Gone}]
          /\ BindingsFit' /\ LinksFit' /\ FilesStored'
      BY <2>1, <2>2, <2>5, <3>1, RowChanges
    <3>3. ASSUME request.stage = "uploaded"
          PROVE  request.evidence \in stored' /\ ~Files!Exists(request.evidence)'
      <4>1. request.evidence \in Evidences /\ request.evidence # deletion.evidence
        BY <2>1, <3>3, RecordKinds DEF FilesInv, RequestFits
      <4> QED
        BY <1>1, <2>2, <2>5, <3>3, <4>1 DEF FilesInv, RequestFits, Files!Exists
    <3>4. ASSUME request.stage = "resolved" PROVE InContext(request.binding)'
      BY <2>2, <3>4, ContextStays DEF FilesInv, RequestFits
    <3>5. RequestFits'
      BY <2>2, <3>3, <3>4 DEF FilesInv, RequestFits, Files!Bindings
    <3> QED
      BY <1>1, <2>2, <2>3, <3>1, <3>2, <3>5, RecordKinds DEF FilesInv, Files!TypeOK
  <2> QED
    BY <1>4, <2>4, <2>5 DEF Files!Delete
<1>5. ASSUME NEW u \in Users, NEW e \in Evidences, Files!Create(u, e)
      PROVE  FilesInv'
  <2> DEFINE row == [by |-> u, uploaded |-> FALSE]
  <2>1. /\ evidence[e] = Files!Absent /\ request = Files!Idle
        /\ evidence' = [evidence EXCEPT ![e] = row]
        /\ UNCHANGED <<stored, links, bindings, reported, valid, held, approved, request, deletion>>
    BY <1>5 DEF Files!Create
  <2>2. row \in Files!Rows /\ ~row.uploaded
    BY DEF Files!Rows
  <2> HIDE DEF row
  <2>3. /\ evidence' \in [Evidences -> Files!Rows \cup {Files!Absent, Files!Gone}]
        /\ BindingsFit' /\ LinksFit' /\ FilesStored'
    BY <2>1, <2>2, RowChanges
  <2>4. RequestFits'
    BY <2>1, RecordKinds DEF RequestFits
  <2>5. DeletionFits'
    <3>1. deletion # Files!Idle => deletion.evidence # e /\ deletion.evidence \in Evidences
      BY <2>1, RecordKinds DEF FilesInv, DeletionFits, Files!Exists
    <3>2. deletion # Files!Idle => Files!Exists(deletion.evidence)'
      BY <1>1, <2>1, <3>1 DEF FilesInv, DeletionFits, Files!Exists
    <3> QED
      BY <2>1, <3>2 DEF FilesInv, DeletionFits
  <2> QED
    BY <1>1, <2>1, <2>3, <2>4, <2>5 DEF FilesInv, Files!TypeOK
<1>6. ASSUME NEW u \in Users, NEW e \in Evidences, Files!Upload(u, e)
      PROVE  FilesInv'
  <2>1. /\ evidence[e] = Files!Absent /\ stored' = stored \cup {e}
        /\ request' = [stage |-> "uploaded", user |-> u, evidence |-> e]
        /\ UNCHANGED <<evidence, links, bindings, reported, valid, held, approved, deletion>>
    BY <1>6 DEF Files!Upload
  <2>2. BindingsFit' /\ LinksFit' /\ FilesStored' /\ DeletionFits'
    BY <2>1, RestStays
  <2>3. RequestFits'
    BY <2>1 DEF RequestFits, Files!Exists
  <2> QED
    BY <1>1, <2>1, <2>2, <2>3 DEF FilesInv, Files!TypeOK
<1>7. ASSUME NEW u \in Users, NEW e \in Evidences, Files!CheckDelete(u, e)
      PROVE  FilesInv'
  <2>1. /\ Files!Exists(e) /\ ~Files!InApprovedScope(e)
        /\ deletion' = [stage |-> "checked", evidence |-> e, since |-> {}]
        /\ UNCHANGED <<evidence, stored, links, bindings, reported, valid, held, approved, request>>
    BY <1>7 DEF Files!CheckDelete
  <2>2. BindingsFit' /\ LinksFit' /\ FilesStored' /\ RequestFits'
    BY <2>1, RestStays
  <2>3. DeletionFits'
    BY <2>1 DEF DeletionFits, Files!InApprovedScope, Files!Exists
  <2> QED
    BY <1>1, <2>1, <2>2, <2>3 DEF FilesInv, Files!TypeOK
<1>8. ASSUME NEW u \in Users, NEW e \in Evidences, NEW p \in Authored, Files!Link(u, p, e)
      PROVE  FilesInv'
  <2>1. /\ Files!Exists(e) /\ links' = links \cup {<<p, e>>} /\ deletion' = Files!Since(p)
        /\ UNCHANGED <<evidence, stored, bindings, reported, valid, held, approved, request>>
    BY <1>8 DEF Files!Link
  <2>2. BindingsFit' /\ FilesStored' /\ RequestFits'
    BY <2>1, RestStays
  <2>3. LinksFit'
    BY <2>1 DEF FilesInv, LinksFit, Files!Exists
  <2>4. DeletionFits' /\ deletion'.stage \in {"idle", "checked"}
    BY <2>1, SinceFits
  <2>5. links' \subseteq Files!Links
    BY <1>1, <2>1 DEF Files!Links
  <2> QED
    BY <1>1, <2>1, <2>2, <2>3, <2>4, <2>5 DEF FilesInv, Files!TypeOK
<1>9. ASSUME NEW u \in Users, NEW e \in Evidences, NEW p \in Authored, Files!Unlink(u, p, e)
      PROVE  FilesInv'
  <2>1. /\ links' = links \ {<<p, e>>}
        /\ UNCHANGED <<evidence, stored, bindings, reported, valid, held, approved, request,
                       deletion>>
    BY <1>9 DEF Files!Unlink
  <2>2. BindingsFit' /\ LinksFit' /\ FilesStored' /\ RequestFits' /\ DeletionFits'
    BY <2>1, RestStays
  <2> QED
    BY <1>1, <2>1, <2>2 DEF FilesInv, Files!TypeOK
<1>10. ASSUME NEW u \in Users, NEW e \in Evidences, NEW i \in BindableItems, Files!Resolve(u, i, e)
       PROVE  FilesInv'
  <2>1. PICK pr \in Files!Candidates(i, e) :
          request' = [stage |-> "resolved",
                      binding |-> [project |-> pr, item |-> i, evidence |-> e]]
    BY <1>10 DEF Files!Resolve
  <2>2. UNCHANGED <<evidence, stored, links, bindings, reported, valid, held, approved, deletion>>
    BY <1>10 DEF Files!Resolve
  <2>3. pr \in Files!ItemProjects(i) /\ pr \in Projects
    BY DEF Files!Candidates, Files!ItemProjects
  <2> DEFINE b == [project |-> pr, item |-> i, evidence |-> e]
  <2>4. b \in Files!Bindings /\ b.project = pr /\ b.item = i
    BY <2>3 DEF Files!Bindings
  <2>5. request'.stage = "resolved" /\ request'.binding = b
    BY <2>1
  <2>6. request' \in [stage : {"resolved"}, binding : Files!Bindings]
    BY <2>1, <2>4
  <2> HIDE DEF b
  <2>7. InContext(b)
    BY <2>3, <2>4 DEF InContext
  <2>8. InContext(request.binding)'
    BY <2>2, <2>5, <2>7 DEF InContext, Files!ItemProjects, Files!Bindings
  <2>9. RequestFits'
    BY <2>5, <2>6, <2>8 DEF RequestFits, Files!Bindings
  <2>10. BindingsFit' /\ LinksFit' /\ FilesStored' /\ DeletionFits'
    BY <2>2, RestStays
  <2> QED
    BY <1>1, <2>2, <2>5, <2>9, <2>10 DEF FilesInv, Files!TypeOK
<1>11. ASSUME NEW pr \in Projects, NEW s \in StandardsOfItems, Files!Attach(pr, s)
       PROVE  FilesInv'
  <2>1. /\ reported' = reported \cup {<<pr, s>>}
        /\ UNCHANGED <<evidence, stored, links, bindings, valid, held, approved, request, deletion>>
    BY <1>11 DEF Files!Attach
  <2>2. BindingsFit' /\ LinksFit' /\ FilesStored' /\ RequestFits' /\ DeletionFits'
    BY <2>1, RestStays
  <2> QED
    BY <1>1, <2>1, <2>2 DEF FilesInv, Files!TypeOK
<1>12. ASSUME \/ \E i \in BindableItems : Files!Retire(i)
              \/ \E a \in Holdings : Files!Reassign(a)
              \/ \E p \in Authored : Files!Reopen(p)
       PROVE  FilesInv'
  <2>1. /\ valid' \subseteq valid /\ approved' \subseteq approved
        /\ held' \in [Holdings -> Teams \cup {Files!NoTeam}]
        /\ UNCHANGED <<evidence, stored, links, bindings, reported, request, deletion>>
    BY <1>1, <1>12 DEF Files!Retire, Files!Reassign, Files!Reopen
  <2>2. BindingsFit' /\ LinksFit' /\ FilesStored' /\ RequestFits' /\ DeletionFits'
    BY <2>1, RestStays
  <2> QED
    BY <1>1, <2>1, <2>2 DEF FilesInv, Files!TypeOK
<1>13. ASSUME NEW p \in Authored, Files!Approve(p)
       PROVE  FilesInv'
  <2>1. /\ approved' = approved \cup {p} /\ deletion' = Files!Since(p)
        /\ UNCHANGED <<evidence, stored, links, bindings, reported, valid, held, request>>
    BY <1>13 DEF Files!Approve
  <2>2. BindingsFit' /\ LinksFit' /\ FilesStored' /\ RequestFits'
    BY <2>1, RestStays
  <2>3. DeletionFits' /\ deletion'.stage \in {"idle", "checked"}
    BY <2>1, SinceFits
  <2> QED
    BY <1>1, <2>1, <2>2, <2>3 DEF FilesInv, Files!TypeOK
<1> QED
  BY <1>2, <1>3, <1>4, <1>5, <1>6, <1>7, <1>8, <1>9, <1>10, <1>11, <1>12, <1>13
  DEF Files!Next

\* Who may open a point may open what is linked to it, by the definitions alone.
LEMMA FilesAccess ==
  ASSUME FilesInv
  PROVE  Files!AccessAgrees
<1>1. ASSUME NEW l \in links, NEW u \in Users, Files!SeesPoint(u, l[1])
      PROVE  Files!MayRead(u, l[2])
  <2>1. PICK p \in Authored, e \in Evidences : l = <<p, e>>
    BY DEF FilesInv, Files!TypeOK, Files!Links
  <2>2. Files!VisibleByPoint(u, e)
    BY <1>1, <2>1 DEF Files!VisibleByPoint
  <2>3. Files!Everywhere(u) \/ RoleOf[u] \in {"collector", "reviewer"}
    BY <1>1 DEF Files!SeesPoint, Files!Holds
  <2> QED
    BY <2>1, <2>2, <2>3 DEF Files!MayRead
<1>2. \A e \in Evidences, u \in Users :
        Files!Exists(e) /\ Files!MayModify(u, e) => Files!MayRead(u, e)
  BY DEF Files!MayModify, Files!MayRead, Files!Everywhere
<1>3. \A a \in Holdings, p \in Authored :
        a.project = p.project => (Files!MatchesInSql(a, p) <=> Files!MatchesInPython(a, p))
  BY DEF Files!MatchesInSql, Files!MatchesInPython, Files!Fits
<1> QED
  BY <1>1, <1>2, <1>3 DEF Files!AccessAgrees

LEMMA FilesContext ==
  ASSUME FilesInv
  PROVE  Files!EvidenceInContext
<1>1. \A e \in Evidences : Files!Status(e) = "unbound" <=> Files!ListedUnlinked(e)
  BY DEF Files!Status, Files!LinkedPoints, Files!LinkedRequirements, Files!ListedUnlinked
<1> QED
  BY <1>1 DEF Files!EvidenceInContext, FilesInv, InContext, BindingsFit, LinksFit, FilesStored,
              DeletionFits

LEMMA FilesAlways == Composition => []FilesInv
<1>1. Start => FilesInv
  BY FilesStart DEF Start, Stand
<1>2. FilesInv /\ [Step]_allVars => FilesInv'
  <2> SUFFICES ASSUME FilesInv, [Step]_allVars PROVE FilesInv'
    OBVIOUS
  <2>1. Files!Next \/ UNCHANGED evidenceVars
    BY DEF Step, allVars, serviceVars
  <2>2. CASE UNCHANGED evidenceVars
    <3>1. UNCHANGED <<evidence, stored, links, bindings, reported, valid, held, approved,
                      request, deletion>>
      BY <2>2 DEF evidenceVars
    <3>2. BindingsFit' /\ LinksFit' /\ FilesStored' /\ RequestFits' /\ DeletionFits'
      BY <3>1, RestStays
    <3> QED
      BY <3>1, <3>2 DEF FilesInv, Files!TypeOK
  <2> QED
    BY <2>1, <2>2, FilesStep
<1> QED
  BY <1>1, <1>2, PTL DEF Composition

-----------------------------------------------------------------------------
(***************************************************************************)
(* PointPages.  What the pages tell is decided by the tables as they are,  *)
(* but for three facts that requests keep: a point has one dimension of a  *)
(* kind, a snapshot is of the boundary that holds, and a reply stands with *)
(* its parent.                                                             *)
(***************************************************************************)
DimsOk(p, dims) ==
  /\ \A d, e \in dims : Kind(d[1]) = Kind(e[1]) => d = e
  /\ \A d \in dims : Kind(d[1]) \in {Kind(type) : type \in Allowed[p.element]}

PointOk(p, row) ==
  /\ \E by, status, dims, proof :
       row = [by |-> by, status |-> status, dims |-> dims, evidence |-> proof]
  /\ DimsOk(p, row.dims)
  /\ row # Absent => row.by \in Users /\ row.status \in Statuses

TablesOk ==
  /\ DOMAIN point = Points /\ \A p \in Points : PointOk(p, point[p])
  /\ duty \in [Assignments -> Teams]
  /\ attached \subseteq Projects \X Standards /\ current \subseteq Mappings
  /\ tracked \subseteq Projects \X {m.item : m \in Mappings}
  /\ count \in 0..MaxEdits

BoundariesOk ==
  /\ boundary \in [Projects -> Boundaries \cup {NoBoundary}]
  /\ snapshot \in [Projects -> Boundaries \cup {NoBoundary}]
  /\ \A pr \in Projects : snapshot[pr] \in {NoBoundary, boundary[pr]}

\* What one comment is in the list of all.
Placed(list, i) ==
  /\ list[i].parent \in Nat /\ list[i].parent < i
  /\ list[i].parent # 0 =>
       /\ list[list[i].parent].on = list[i].on
       /\ list[list[i].parent].item = list[i].item
  /\ list[i].on = NoPoint => i = 1 /\ list[i].parent = 0

AnyComment ==
  [on : Points \cup {NoPoint}, item : {m.item : m \in Mappings} \cup {NoItem} \cup LegacyItems,
   parent : Nat, resolved : BOOLEAN]

CommentsOk == comments \in Seq(AnyComment) /\ \A i \in DOMAIN comments : Placed(comments, i)

PagesInv == TablesOk /\ BoundariesOk /\ CommentsOk

LEMMA PointsAreRecords == NoPoint \notin Points
<1> SUFFICES ASSUME NoPoint \in Points PROVE FALSE
  OBVIOUS
<1>1. NoPoint \in [project : Projects, element : DOMAIN Allowed,
                   entity : Entities \cup {Nowhere}, facility : Entities \cup {Nowhere}]
  BY PagesFit
<1>2. "element" \in DOMAIN NoPoint
  BY <1>1
<1> QED
  BY <1>2 DEF NoPoint

LEMMA PagesStart ==
  ASSUME Init
  PROVE  PagesInv
<1>1. Absent = [by |-> Nobody, status |-> "absent", dims |-> {}, evidence |-> FALSE]
  BY DEF Absent
<1>2. \A p \in Points : PointOk(p, Absent)
  BY <1>1 DEF PointOk, DimsOk
<1>3. ASSUME NEW p \in Points, NEW u \in Users
      PROVE  PointOk(p, [Absent EXCEPT !.by = u, !.status = "draft"])
  <2> DEFINE none == FALSE
             old == [by |-> Nobody, status |-> "absent", dims |-> {}, evidence |-> none]
             next == [old EXCEPT !.by = u]
             row == [by |-> u, status |-> "draft", dims |-> {}, evidence |-> none]
  <2>1. next = [by |-> u, status |-> "absent", dims |-> {}, evidence |-> none]
    <3> HIDE DEF none
    <3> QED
      OBVIOUS
  <2>2. [next EXCEPT !.status = "draft"] = row
    <3> HIDE DEF next, none
    <3> QED
      BY <2>1
  <2>3. [Absent EXCEPT !.by = u, !.status = "draft"] = row
    <3>1. [next EXCEPT !.status = "draft"] = [Absent EXCEPT !.by = u, !.status = "draft"]
      BY DEF Absent
    <3> HIDE DEF next, row
    <3> QED
      BY <2>2, <3>1
  <2>4. row.by = u /\ row.status = "draft" /\ row.dims = {}
    OBVIOUS
  <2>5. \E by, status, dims, proof :
          row = [by |-> by, status |-> status, dims |-> dims, evidence |-> proof]
    OBVIOUS
  <2> HIDE DEF row
  <2>6. PointOk(p, row)
    BY <2>4, <2>5 DEF PointOk, DimsOk, Statuses
  <2> QED
    BY <2>3, <2>6
<1>4. DOMAIN point = Points /\ \A p \in Points : PointOk(p, point[p])
  <2>1. CASE point = [p \in Points |-> Absent]
    BY <1>2, <2>1
  <2>2. ASSUME NEW u \in Users,
               point = [p \in Points |-> [Absent EXCEPT !.by = u, !.status = "draft"]]
        PROVE  DOMAIN point = Points /\ \A p \in Points : PointOk(p, point[p])
    BY <1>3, <2>2
  <2> QED
    BY <2>1, <2>2 DEF Init
<1>5. /\ duty = FirstTeams /\ current = Mappings /\ count = 0
      /\ attached = {<<pr, FirstStandard>> : pr \in Projects}
      /\ tracked = UNION {Asked(pr) : pr \in Projects}
      /\ boundary = [pr \in Projects |-> NoBoundary]
      /\ snapshot = [pr \in Projects |-> NoBoundary]
  BY DEF Init
<1>6. attached \subseteq Projects \X Standards
  BY <1>5, PagesFit DEF Standards
<1>7. tracked \subseteq Projects \X {m.item : m \in Mappings}
  BY <1>5 DEF Asked
<1>8. TablesOk
  BY <1>4, <1>5, <1>6, <1>7, PagesFit DEF TablesOk
<1>9. BoundariesOk
  BY <1>5 DEF BoundariesOk
<1>10. CommentsOk
  <2>1. CASE comments = <<>>
    BY <2>1 DEF CommentsOk
  <2>2. ASSUME NEW item \in LegacyItems, comments = <<Legacy(item)>> PROVE CommentsOk
    <3>1. Legacy(item) \in AnyComment /\ Legacy(item).parent = 0
      BY DEF Legacy, AnyComment
    <3>2. /\ comments \in Seq(AnyComment) /\ DOMAIN comments = {1}
          /\ comments[1] = Legacy(item)
      BY <2>2, <3>1
    <3> QED
      BY <3>1, <3>2 DEF CommentsOk, Placed
  <2> QED
    BY <2>1, <2>2 DEF Init
<1> QED
  BY <1>8, <1>9, <1>10 DEF PagesInv

\* Of the dimensions in a request, those that are stored are of different kinds.
LEMMA StoredOk ==
  ASSUME NEW p, NEW payload, ValidDims(p.element, payload)
  PROVE  DimsOk(p, Stored(payload))
<1>1. \A type : Kind(Kind(type)) = Kind(type)
  BY DEF Kind
<1>2. ASSUME NEW d \in Stored(payload), NEW e \in Stored(payload), Kind(d[1]) = Kind(e[1])
      PROVE  d = e
  <2>1. PICK i \in DOMAIN payload : d = <<Kind(payload[i].type), payload[i].value>>
    BY DEF Stored
  <2>2. PICK k \in DOMAIN payload : e = <<Kind(payload[k].type), payload[k].value>>
    BY DEF Stored
  <2>3. Kind(payload[i].type) = Kind(payload[k].type)
    BY <1>1, <1>2, <2>1, <2>2
  <2> QED
    BY <2>1, <2>2, <2>3 DEF ValidDims
<1>3. ASSUME NEW d \in Stored(payload)
      PROVE  Kind(d[1]) \in {Kind(type) : type \in Allowed[p.element]}
  <2>1. PICK i \in DOMAIN payload : d = <<Kind(payload[i].type), payload[i].value>>
    BY DEF Stored
  <2> QED
    BY <1>1, <2>1 DEF ValidDims
<1> QED
  BY <1>2, <1>3 DEF DimsOk

LEMMA Counted ==
  ASSUME TablesOk, Edit
  PROVE  count' \in 0..MaxEdits
BY PagesFit DEF TablesOk, Edit

\* Requests that write a point.
LEMMA PointStep ==
  ASSUME TablesOk, NEW p \in Points, NEW u \in Users,
         \/ \E payload \in Payloads : Create(u, p, payload) \/ Update(u, p, payload)
         \/ \E to \in Statuses : Move(u, p, to)
         \/ LinkEvidence(u, p)
  PROVE  /\ TablesOk'
         /\ UNCHANGED <<boundary, snapshot, comments>>
<1>1. /\ UNCHANGED <<duty, boundary, snapshot, attached, current, tracked, comments>> /\ Edit
  BY DEF Create, Update, Move, LinkEvidence
<1>2. \E row : PointOk(p, row) /\ point' = [point EXCEPT ![p] = row]
  <2>1. PICK by, status, dims, proof :
          point[p] = [by |-> by, status |-> status, dims |-> dims, evidence |-> proof]
    BY DEF TablesOk, PointOk
  <2>2. DimsOk(p, dims) /\ (point[p] # Absent => by \in Users /\ status \in Statuses)
    BY <2>1 DEF TablesOk, PointOk
  <2>3. ASSUME NEW b \in Users, NEW s \in Statuses, NEW d, DimsOk(p, d), NEW e
        PROVE  PointOk(p, [by |-> b, status |-> s, dims |-> d, evidence |-> e])
    BY <2>3 DEF PointOk
  <2>4. ASSUME NEW payload \in Payloads, Create(u, p, payload)
        PROVE  \E row : PointOk(p, row) /\ point' = [point EXCEPT ![p] = row]
    <3>1. DimsOk(p, Stored(payload))
      BY <2>4, StoredOk DEF Create
    <3>2. "draft" \in Statuses
      BY DEF Statuses
    <3>3. point' = [point EXCEPT ![p] = [by |-> u, status |-> "draft",
                                         dims |-> Stored(payload), evidence |-> FALSE]]
      BY <2>4 DEF Create
    <3> QED
      BY <2>3, <3>1, <3>2, <3>3
  <2>5. ASSUME NEW payload \in Payloads, Update(u, p, payload)
        PROVE  \E row : PointOk(p, row) /\ point' = [point EXCEPT ![p] = row]
    <3>1. DimsOk(p, Stored(payload)) /\ point[p] # Absent
      BY <2>5, StoredOk DEF Update, MayOpen, Exists
    <3>2. point' = [point EXCEPT ![p].dims = Stored(payload)]
      BY <2>5 DEF Update
    <3>3. [point[p] EXCEPT !.dims = Stored(payload)]
            = [by |-> by, status |-> status, dims |-> Stored(payload), evidence |-> proof]
      BY <2>1
    <3>4. point' = [point EXCEPT ![p] = [point[p] EXCEPT !.dims = Stored(payload)]]
      BY <3>2
    <3> QED
      BY <2>2, <2>3, <3>1, <3>3, <3>4
  <2>6. ASSUME NEW to \in Statuses, Move(u, p, to)
        PROVE  \E row : PointOk(p, row) /\ point' = [point EXCEPT ![p] = row]
    <3>1. point[p] # Absent /\ point' = [point EXCEPT ![p].status = to]
      BY <2>6 DEF Move, MayOpen, Exists
    <3>2. [point[p] EXCEPT !.status = to]
            = [by |-> by, status |-> to, dims |-> dims, evidence |-> proof]
      BY <2>1
    <3>3. point' = [point EXCEPT ![p] = [point[p] EXCEPT !.status = to]]
      BY <3>1
    <3> QED
      BY <2>2, <2>3, <3>1, <3>2, <3>3
  <2>7. ASSUME LinkEvidence(u, p)
        PROVE  \E row : PointOk(p, row) /\ point' = [point EXCEPT ![p] = row]
    <3>1. point[p] # Absent /\ point' = [point EXCEPT ![p].evidence = TRUE]
      BY <2>7 DEF LinkEvidence, MayOpen, Exists
    <3> DEFINE yes == TRUE
    <3>2. [point[p] EXCEPT !.evidence = yes]
            = [by |-> by, status |-> status, dims |-> dims, evidence |-> yes]
      <4> HIDE DEF yes
      <4> QED
        BY <2>1
    <3>3. point' = [point EXCEPT ![p] = [point[p] EXCEPT !.evidence = yes]]
      BY <3>1
    <3> HIDE DEF yes
    <3> QED
      BY <2>2, <2>3, <3>1, <3>2, <3>3
  <2> QED
    BY <2>4, <2>5, <2>6, <2>7
<1>3. PICK row : PointOk(p, row) /\ point' = [point EXCEPT ![p] = row]
  BY <1>2
<1>4. DOMAIN point' = Points /\ \A x \in Points : point'[x] = IF x = p THEN row ELSE point[x]
  BY <1>3 DEF TablesOk
<1>5. \A x \in Points : PointOk(x, point'[x])
  BY <1>3, <1>4 DEF TablesOk
<1>6. count' \in 0..MaxEdits
  BY <1>1, Counted
<1> QED
  BY <1>1, <1>4, <1>5, <1>6 DEF TablesOk

\* Comments are appended, or resolved in their place.
LEMMA CommentStep ==
  ASSUME PagesInv, NEW u \in Users,
         \/ \E p \in Points : \E item \in {m.item : m \in Mappings} \cup {NoItem} :
              \E parent \in 0..Len(comments) : Comment(u, p, item, parent)
         \/ \E i \in DOMAIN comments : Resolve(u, i)
  PROVE  CommentsOk' /\ Edit
         /\ UNCHANGED <<point, duty, boundary, snapshot, attached, current, tracked>>
<1>1. comments \in Seq(AnyComment) /\ \A i \in DOMAIN comments : Placed(comments, i)
  BY DEF PagesInv, CommentsOk
<1>2. DOMAIN comments = 1..Len(comments) /\ Len(comments) \in Nat
      /\ \A i \in DOMAIN comments : comments[i] \in AnyComment
  BY <1>1, LenProperties, ElementOfSeq
<1>3. ASSUME NEW p \in Points, NEW item \in {m.item : m \in Mappings} \cup {NoItem},
             NEW parent \in 0..Len(comments), Comment(u, p, item, parent)
      PROVE  CommentsOk' /\ Edit
             /\ UNCHANGED <<point, duty, boundary, snapshot, attached, current, tracked>>
  <2> DEFINE c == [on |-> p, item |-> item, parent |-> parent, resolved |-> FALSE]
  <2>1. /\ Edit /\ comments' = Append(comments, c) /\ ParentOk(parent, p, item)
        /\ UNCHANGED <<point, duty, boundary, snapshot, attached, current, tracked>>
    BY <1>3 DEF Comment
  <2>2. c \in AnyComment /\ c.on = p /\ c.item = item /\ c.parent = parent
    BY DEF AnyComment
  <2> HIDE DEF c
  <2>3. /\ comments' \in Seq(AnyComment)
        /\ Len(comments') = Len(comments) + 1
        /\ \A i \in 1..Len(comments) : comments'[i] = comments[i]
        /\ comments'[Len(comments) + 1] = c
    BY <1>1, <2>1, <2>2, AppendProperties
  <2>4. DOMAIN comments' = 1..Len(comments) + 1
    BY <2>3, LenProperties
  <2>5. p # NoPoint
    BY PointsAreRecords
  <2>6. parent \in Nat /\ parent < Len(comments) + 1
        /\ (parent # 0 => parent \in 1..Len(comments) /\ comments'[parent].on = p
                          /\ comments'[parent].item = item)
    BY <1>2, <2>1, <2>3 DEF ParentOk
  <2>7. Placed(comments', Len(comments) + 1)
    BY <2>2, <2>3, <2>5, <2>6 DEF Placed
  <2>8. ASSUME NEW i \in 1..Len(comments) PROVE Placed(comments', i)
    <3>1. Placed(comments, i) /\ comments'[i] = comments[i] /\ i \in Nat
      BY <1>1, <1>2, <2>3
    <3>2. comments[i].parent # 0 =>
            comments'[comments[i].parent] = comments[comments[i].parent]
      <4>1. comments[i].parent # 0 => comments[i].parent \in 1..Len(comments)
        BY <1>2, <3>1 DEF Placed
      <4> QED
        BY <2>3, <4>1
    <3> QED
      BY <3>1, <3>2 DEF Placed
  <2>9. \A i \in DOMAIN comments' : Placed(comments', i)
    BY <1>2, <2>4, <2>7, <2>8
  <2> QED
    BY <2>1, <2>3, <2>9 DEF CommentsOk
<1>4. ASSUME NEW i \in DOMAIN comments, Resolve(u, i)
      PROVE  CommentsOk' /\ Edit
             /\ UNCHANGED <<point, duty, boundary, snapshot, attached, current, tracked>>
  <2>1. /\ Edit /\ comments' = [comments EXCEPT ![i].resolved = TRUE]
        /\ UNCHANGED <<point, duty, boundary, snapshot, attached, current, tracked>>
    BY <1>4 DEF Resolve
  <2> DEFINE c == [comments[i] EXCEPT !.resolved = TRUE]
  <2>2. c \in AnyComment /\ c.on = comments[i].on /\ c.item = comments[i].item
        /\ c.parent = comments[i].parent
    BY <1>2 DEF AnyComment
  <2>3. comments' = [comments EXCEPT ![i] = c]
    BY <2>1
  <2> HIDE DEF c
  <2>4. comments' \in Seq(AnyComment) /\ Len(comments') = Len(comments)
    BY <1>1, <1>2, <2>2, <2>3, ExceptSeq
  <2>5. DOMAIN comments' = DOMAIN comments
    BY <2>3
  <2>6. \A k \in DOMAIN comments : /\ comments'[k].on = comments[k].on
                                   /\ comments'[k].item = comments[k].item
                                   /\ comments'[k].parent = comments[k].parent
    BY <1>2, <2>2, <2>3
  <2>7. ASSUME NEW k \in DOMAIN comments PROVE Placed(comments', k)
    <3>1. Placed(comments, k)
      BY <1>1
    <3>2. comments[k].parent # 0 => comments[k].parent \in DOMAIN comments
      BY <1>2, <3>1 DEF Placed
    <3> QED
      BY <2>6, <3>1, <3>2 DEF Placed
  <2> QED
    BY <2>1, <2>4, <2>5, <2>7 DEF CommentsOk
<1> QED
  BY <1>3, <1>4

LEMMA PagesStep ==
  ASSUME PagesInv, Next
  PROVE  PagesInv'
<1>1. ASSUME NEW u \in Users, NEW p \in Points,
             \/ \E payload \in Payloads : Create(u, p, payload) \/ Update(u, p, payload)
             \/ \E to \in Statuses : Move(u, p, to)
             \/ LinkEvidence(u, p)
      PROVE  PagesInv'
  <2>1. TablesOk' /\ UNCHANGED <<boundary, snapshot, comments>>
    BY <1>1, PointStep DEF PagesInv
  <2> QED
    BY <2>1 DEF PagesInv, BoundariesOk, CommentsOk, Boundaries
<1>2. ASSUME NEW u \in Users,
             \/ \E p \in Points : \E item \in {m.item : m \in Mappings} \cup {NoItem} :
                  \E parent \in 0..Len(comments) : Comment(u, p, item, parent)
             \/ \E i \in DOMAIN comments : Resolve(u, i)
      PROVE  PagesInv'
  <2>1. /\ CommentsOk' /\ Edit
        /\ UNCHANGED <<point, duty, boundary, snapshot, attached, current, tracked>>
    BY <1>2, CommentStep
  <2>2. count' \in 0..MaxEdits
    BY <2>1, Counted DEF PagesInv
  <2>3. TablesOk' /\ BoundariesOk'
    BY <2>1, <2>2 DEF PagesInv, TablesOk, BoundariesOk
  <2> QED
    BY <2>1, <2>3 DEF PagesInv
<1>3. ASSUME NEW a \in Assignments, NEW team \in Teams, Reassign(a, team)
      PROVE  PagesInv'
  <2>1. /\ Edit /\ duty' = [duty EXCEPT ![a] = team]
        /\ UNCHANGED <<point, boundary, snapshot, attached, current, tracked, comments>>
    BY <1>3 DEF Reassign
  <2>2. count' \in 0..MaxEdits /\ duty' \in [Assignments -> Teams]
    BY <2>1, Counted DEF PagesInv, TablesOk
  <2> QED
    BY <2>1, <2>2 DEF PagesInv, TablesOk, BoundariesOk, CommentsOk
<1>4. ASSUME NEW pr \in Projects, NEW b \in Boundaries, ApplyBoundary(pr, b)
      PROVE  PagesInv'
  <2>1. /\ Edit /\ boundary' = [boundary EXCEPT ![pr] = b]
        /\ snapshot' = [snapshot EXCEPT ![pr] = NoBoundary]
        /\ UNCHANGED <<point, duty, attached, current, tracked, comments>>
    BY <1>4 DEF ApplyBoundary
  <2>2. count' \in 0..MaxEdits
    BY <2>1, Counted DEF PagesInv
  <2>3. BoundariesOk'
    BY <2>1 DEF PagesInv, BoundariesOk
  <2> QED
    BY <2>1, <2>2, <2>3 DEF PagesInv, TablesOk, CommentsOk
<1>5. ASSUME NEW pr \in Projects, SaveSnapshot(pr)
      PROVE  PagesInv'
  <2>1. /\ Edit /\ snapshot' = [snapshot EXCEPT ![pr] = boundary[pr]]
        /\ UNCHANGED <<point, duty, boundary, attached, current, tracked, comments>>
    BY <1>5 DEF SaveSnapshot
  <2>2. count' \in 0..MaxEdits
    BY <2>1, Counted DEF PagesInv
  <2>3. BoundariesOk'
    BY <2>1 DEF PagesInv, BoundariesOk
  <2> QED
    BY <2>1, <2>2, <2>3 DEF PagesInv, TablesOk, CommentsOk
<1>6. ASSUME NEW pr \in Projects,
             (\E s \in Standards : AddStandard(pr, s)) \/ Recalculate(pr)
      PROVE  PagesInv'
  <2>1. Edit /\ UNCHANGED <<point, duty, boundary, snapshot, current, comments>>
    BY <1>6 DEF AddStandard, Recalculate
  <2>2. count' \in 0..MaxEdits
    BY <2>1, Counted DEF PagesInv
  <2> DEFINE named == {m.item : m \in Mappings}
  <2>3. attached \subseteq Projects \X Standards /\ tracked \subseteq Projects \X named
    BY DEF PagesInv, TablesOk
  <2>4. ASSUME NEW row \in Asked(pr) PROVE row \in Projects \X named
    <3>1. PICK m \in Mappings : row = <<pr, m.item>>
      BY DEF Asked
    <3> QED
      BY <3>1
  <2>5. attached' = attached \/ \E s \in Standards : attached' = attached \cup {<<pr, s>>}
    BY <1>6 DEF AddStandard, Recalculate
  <2>6. tracked' = tracked \/ tracked' = tracked \cup Asked(pr)
    BY <1>6 DEF AddStandard, Recalculate
  <2>7. attached' \subseteq Projects \X Standards
    <3> HIDE DEF named
    <3> QED
      BY <2>3, <2>5
  <2>8. tracked' \subseteq Projects \X named
    <3> HIDE DEF named
    <3> QED
      BY <2>3, <2>4, <2>6
  <2> QED
    BY <2>1, <2>2, <2>7, <2>8 DEF PagesInv, TablesOk, BoundariesOk, CommentsOk, Standards
<1>7. ASSUME NEW m \in Mappings, Retire(m)
      PROVE  PagesInv'
  <2>1. /\ Edit /\ current' = current \ {m}
        /\ UNCHANGED <<point, duty, boundary, snapshot, attached, tracked, comments>>
    BY <1>7 DEF Retire
  <2>2. count' \in 0..MaxEdits
    BY <2>1, Counted DEF PagesInv
  <2> QED
    BY <2>1, <2>2 DEF PagesInv, TablesOk, BoundariesOk, CommentsOk
<1> QED
  BY <1>1, <1>2, <1>3, <1>4, <1>5, <1>6, <1>7 DEF Next


LEMMA PagesAlways == Composition => []PagesInv
<1>1. Start => PagesInv
  BY PagesStart DEF Start, Stand
<1>2. PagesInv /\ [Step]_allVars => PagesInv'
  <2>1. PagesInv /\ Next => PagesInv'
    BY PagesStep
  <2>2. PagesInv /\ UNCHANGED vars => PagesInv'
    BY DEF PagesInv, TablesOk, BoundariesOk, CommentsOk, vars
  <2>3. [Step]_allVars => Next \/ UNCHANGED vars
    BY DEF Step, allVars, serviceVars, vars
  <2> QED
    BY <2>1, <2>2, <2>3
<1> QED
  BY <1>1, <1>2, PTL DEF Composition

LEMMA OnePointInSql ==
  ASSUME NEW a, NEW p
  PROVE  MatchesInSql(a, p) <=> Matches(a, p)
BY DEF MatchesInSql, Matches, Fits

\* A page shows what may be opened, as both go by the same duties.
LEMMA ListsOpenable == ListsAreOpenable
<1> SUFFICES ASSUME NEW u \in Users, NEW pr \in Projects, SeesProject(u, pr)
             PROVE  LET open == {p \in PointsOf(pr) : MayOpen(u, p)}
                        waiting == {p \in open : point[p].status \in Waiting}
                    IN /\ RoleOf[u] # "collector" =>
                            Queue(u, pr) = waiting /\ waiting \subseteq QueueOfAll(u)
                       /\ RoleOf[u] # "reviewer" =>
                            PointList(u, pr) =
                              {p \in open : RoleOf[u] = "collector" =>
                                             \E a \in Held(u, pr) : a.element = p.element}
  BY DEF ListsAreOpenable
<1> DEFINE open == {p \in PointsOf(pr) : MayOpen(u, p)}
           waiting == {p \in open : point[p].status \in Waiting}
<1>1. \A p \in PointsOf(pr) : Exists(p) /\ p.project = pr /\ SeesProject(u, p.project)
  BY DEF PointsOf
<1>2. ASSUME NEW p \in PointsOf(pr)
      PROVE  MayOpen(u, p) <=>
               /\ RoleOf[u] = "collector" =>
                    point[p].by = u \/ \E a \in Held(u, pr) : Matches(a, p)
               /\ RoleOf[u] = "reviewer" => \E a \in Held(u, pr) : Matches(a, p)
  BY <1>1, OnePointInSql DEF MayOpen
<1>3. ASSUME RoleOf[u] # "collector"
      PROVE  Queue(u, pr) = waiting /\ waiting \subseteq QueueOfAll(u)
  <2>1. Queue(u, pr) = waiting
    BY <1>2, <1>3 DEF Queue
  <2>2. ASSUME NEW p \in waiting PROVE p \in QueueOfAll(u)
    <3>1. p \in PointsOf(pr) /\ point[p].status \in Waiting
          /\ (RoleOf[u] = "reviewer" => \E a \in Held(u, pr) : Matches(a, p))
      BY <1>2
    <3>2. p \in UNION {PointsOf(q) : q \in {x \in Projects : SeesProject(u, x)}}
      BY <3>1
    <3>3. RoleOf[u] = "reviewer" => \E a \in Assignments : Holds(u, a) /\ Matches(a, p)
      BY <3>1 DEF Held
    <3> QED
      BY <3>1, <3>2, <3>3 DEF QueueOfAll
  <2> QED
    BY <2>1, <2>2
<1>4. ASSUME RoleOf[u] # "reviewer"
      PROVE  PointList(u, pr) = {p \in open : RoleOf[u] = "collector" =>
                                               \E a \in Held(u, pr) : a.element = p.element}
  <2>1. CASE RoleOf[u] = "collector"
    BY <1>2, <2>1 DEF PointList
  <2>2. CASE RoleOf[u] # "collector"
    BY <1>2, <1>4, <2>2 DEF PointList
  <2> QED
    BY <2>1, <2>2
<1> QED
  BY <1>3, <1>4

\* What there is to know of a point that exists.
LEMMA PointFacts ==
  ASSUME PagesInv, NEW p \in Points
  PROVE  /\ p.project \in Projects
         /\ p.entity \in Entities \cup {Nowhere} /\ p.facility \in Entities \cup {Nowhere}
         /\ Scope(p) \in {p.entity, p.facility} /\ Scope(p) \in Entities \cup {Nowhere}
         /\ DimsOk(p, point[p].dims)
<1>1. p \in [project : Projects, element : DOMAIN Allowed,
             entity : Entities \cup {Nowhere}, facility : Entities \cup {Nowhere}]
  BY PagesFit
<1>2. p.project \in Projects
      /\ p.entity \in Entities \cup {Nowhere} /\ p.facility \in Entities \cup {Nowhere}
  BY <1>1
<1>3. DimsOk(p, point[p].dims)
  BY DEF PagesInv, TablesOk, PointOk
<1> QED
  BY <1>2, <1>3 DEF Scope

LEMMA MembersOk ==
  ASSUME PagesInv, NEW pr \in Projects, NEW e \in Entities
  PROVE  /\ MemberOf(pr, e) \in {"full", "share", "excluded", "none"}
         /\ boundary[pr] = NoBoundary => MemberOf(pr, e) = "none"
<1>1. boundary[pr] \in DOMAIN Members \cup {NoBoundary}
  BY DEF PagesInv, BoundariesOk, Boundaries
<1>2. boundary[pr] # NoBoundary =>
        Members[boundary[pr]] \in [Entities -> {"full", "share", "excluded", "none"}]
  BY <1>1, PagesFit
<1> QED
  BY <1>2 DEF MemberOf

LEMMA BoundariesAgree ==
  ASSUME PagesInv, NEW p \in Points
  PROVE  ItemBoundary(p) = PageBoundary(p)
<1> DEFINE loaded == {e \in {p.entity, p.facility} \ {Nowhere} :
                        MemberOf(p.project, e) # "none"}
<1>1. Scope(p) \in {p.entity, p.facility}
  BY PointFacts
<1>2. CASE Scope(p) = Nowhere
  <2>1. Scope(p) \notin loaded
    BY <1>2
  <2> QED
    BY <1>2, <2>1 DEF ItemBoundary, PageBoundary
<1>3. CASE Scope(p) # Nowhere /\ MemberOf(p.project, Scope(p)) # "none"
  <2>1. Scope(p) \in loaded
    BY <1>1, <1>3
  <2> QED
    BY <1>3, <2>1 DEF ItemBoundary, PageBoundary
<1>4. CASE Scope(p) # Nowhere /\ MemberOf(p.project, Scope(p)) = "none"
  <2>1. Scope(p) \notin loaded
    BY <1>4
  <2> QED
    BY <1>4, <2>1 DEF ItemBoundary, PageBoundary
<1> QED
  BY <1>2, <1>3, <1>4

LEMMA AskingPairs ==
  ASSUME NEW x, NEW y, NEW z
  PROVE  <<x, y, z>>[1] = x /\ <<x, y, z>>[2] = y /\ <<x, y, z>>[3] = z
OBVIOUS

LEMMA StandardsAgree ==
  ASSUME PagesInv, NEW p \in Points
  PROVE  /\ ItemStandards(p) = RelatedStandards(p.project, p.element)
         /\ ItemStandards(p) \subseteq RequiredBy(p.project, p.element)
         /\ current = Mappings => ItemStandards(p) = RequiredBy(p.project, p.element)
<1>1. p.project \in Projects
  BY PointFacts
<1>2. ASSUME NEW s \in ItemStandards(p) PROVE s \in RelatedStandards(p.project, p.element)
  <2>1. PICK row \in AskingRows :
          row[1] = p.project /\ row[2] = p.element /\ row[3] = s
    BY DEF ItemStandards
  <2>2. PICK r \in Projects \X current :
          <<r[1], r[2].standard>> \in attached /\ row = <<r[1], r[2].element, r[2].standard>>
    BY <2>1 DEF AskingRows
  <2>3. r[1] = p.project /\ r[2].element = p.element /\ r[2].standard = s
    BY <2>1, <2>2, AskingPairs
  <2>4. r[2] \in current
    BY <2>2
  <2> QED
    BY <2>2, <2>3, <2>4 DEF RelatedStandards
<1>3. ASSUME NEW s \in RelatedStandards(p.project, p.element) PROVE s \in ItemStandards(p)
  <2>1. PICK m \in current :
          m.element = p.element /\ <<p.project, m.standard>> \in attached /\ m.standard = s
    BY DEF RelatedStandards
  <2> DEFINE r == <<p.project, m>>
             row == <<p.project, p.element, s>>
  <2>2. r \in Projects \X current /\ r[1] = p.project /\ r[2] = m
    BY <1>1
  <2>3. row[1] = p.project /\ row[2] = p.element /\ row[3] = s
    BY AskingPairs
  <2>4. row = <<r[1], r[2].element, r[2].standard>> /\ <<r[1], r[2].standard>> \in attached
    BY <2>1, <2>2
  <2> HIDE DEF r, row
  <2>5. row \in AskingRows
    BY <2>2, <2>4 DEF AskingRows
  <2> QED
    BY <2>3, <2>5 DEF ItemStandards
<1>4. ItemStandards(p) = RelatedStandards(p.project, p.element)
  BY <1>2, <1>3
<1>5. current \subseteq Mappings
  BY DEF PagesInv, TablesOk
<1> QED
  BY <1>4, <1>5 DEF RelatedStandards, RequiredBy

LEMMA OneKind ==
  ASSUME PagesInv, NEW p \in Points, NEW kind
  PROVE  /\ Cardinality(Valued(p, kind)) <= 1
         /\ Valued(p, kind) # {} => kind \in {Kind(type) : type \in Allowed[p.element]}
<1> DEFINE S == Valued(p, kind)
<1>1. DimsOk(p, point[p].dims)
  BY PointFacts
<1>2. \A x \in S : \E d \in point[p].dims : Kind(d[1]) = kind /\ x = d[2]
  BY DEF Valued
<1>3. ASSUME NEW x \in S, NEW y \in S PROVE x = y
  <2>1. PICK d \in point[p].dims : Kind(d[1]) = kind /\ x = d[2]
    BY <1>2
  <2>2. PICK e \in point[p].dims : Kind(e[1]) = kind /\ y = e[2]
    BY <1>2
  <2> QED
    BY <1>1, <2>1, <2>2 DEF DimsOk
<1>4. S # {} => kind \in {Kind(type) : type \in Allowed[p.element]}
  <2>1. SUFFICES ASSUME NEW x \in S PROVE kind \in {Kind(type) : type \in Allowed[p.element]}
    OBVIOUS
  <2>2. PICK d \in point[p].dims : Kind(d[1]) = kind
    BY <1>2
  <2> QED
    BY <1>1, <2>2 DEF DimsOk
<1> HIDE DEF S
<1>5. Cardinality(S) <= 1
  <2>1. CASE S = {}
    BY <2>1, FS_EmptySet
  <2>2. ASSUME NEW x \in S PROVE Cardinality(S) <= 1
    <3>1. S = {x}
      BY <1>3
    <3>2. Cardinality(S) = 1
      BY <3>1, FS_Singleton
    <3> QED
      BY <3>2
  <2> QED
    BY <2>1, <2>2
<1> QED
  BY <1>4, <1>5 DEF S

LEMMA MatrixAgrees ==
  ASSUME PagesInv, NEW p \in Points,
         Scope(p) # Nowhere, boundary[p.project] # NoBoundary
  PROVE  PageBoundary(p)[1] =
           IF <<Scope(p), TRUE>> \in MatrixScope(p.project) THEN "included"
           ELSE IF <<Scope(p), FALSE>> \in MatrixScope(p.project) THEN "excluded" ELSE "partial"
<1> DEFINE e == Scope(p)
           member == MemberOf(p.project, e)
<1>1. e \in Entities /\ e \in {p.entity, p.facility}
  BY PointFacts
<1>2. member \in {"full", "share", "excluded", "none"}
  BY <1>1, PointFacts, MembersOk
<1>3. PageBoundary(p)[1] = IF member = "none" THEN "partial" ELSE StatusOf(member)
  BY <1>1 DEF PageBoundary
<1>4. \A f, x : <<f, x>> \in MatrixScope(p.project) <=>
        /\ f \in Entities /\ MemberOf(p.project, f) # "none"
        /\ x = (MemberOf(p.project, f) # "excluded")
  <2> TAKE f, x
  <2>1. ASSUME <<f, x>> \in MatrixScope(p.project)
        PROVE  /\ f \in Entities /\ MemberOf(p.project, f) # "none"
               /\ x = (MemberOf(p.project, f) # "excluded")
    <3>1. PICK g \in Entities : MemberOf(p.project, g) # "none"
            /\ <<f, x>> = <<g, MemberOf(p.project, g) # "excluded">>
      BY <2>1, Zenon DEF MatrixScope
    <3> DEFINE y == (MemberOf(p.project, g) # "excluded")
    <3>2. f = g /\ x = y
      <4> HIDE DEF y
      <4>1. <<f, x>> = <<g, y>>
        BY <3>1, Zenon DEF y
      <4> QED
        BY <4>1
    <3> QED
      BY <3>1, <3>2, Zenon
  <2>2. ASSUME f \in Entities, MemberOf(p.project, f) # "none",
               x = (MemberOf(p.project, f) # "excluded")
        PROVE  <<f, x>> \in MatrixScope(p.project)
    BY <2>2, Zenon DEF MatrixScope
  <2> QED
    BY <2>1, <2>2, Zenon
<1>5. <<e, TRUE>> \in MatrixScope(p.project) <=> member # "none" /\ member # "excluded"
  BY <1>1, <1>4, Zenon
<1>6. <<e, FALSE>> \in MatrixScope(p.project) <=> member # "none" /\ member = "excluded"
  BY <1>1, <1>4, Zenon
<1> HIDE DEF e, member
<1> QED
  BY <1>2, <1>3, <1>5, <1>6 DEF StatusOf, e

LEMMA PagesTell ==
  ASSUME PagesInv
  PROVE  PagesAgree
<1> SUFFICES ASSUME NEW p \in {q \in Points : Exists(q)}
    PROVE  /\ ItemBoundary(p) = PageBoundary(p)
           /\ ItemStandards(p) = RelatedStandards(p.project, p.element)
           /\ \A kind \in {"scope", "gas_type", "category"} :
                /\ Cardinality(Valued(p, kind)) <= 1
                /\ Valued(p, kind) # {} => kind \in Flags(p.element)
           /\ ItemStandards(p) \subseteq RequiredBy(p.project, p.element)
           /\ current = Mappings => ItemStandards(p) = RequiredBy(p.project, p.element)
           /\ CellEvidence(p.project, p.element) = "attached" => point[p].evidence
           /\ Scope(p) # Nowhere /\ boundary[p.project] # NoBoundary =>
                PageBoundary(p)[1] =
                  IF <<Scope(p), TRUE>> \in MatrixScope(p.project) THEN "included"
                  ELSE IF <<Scope(p), FALSE>> \in MatrixScope(p.project) THEN "excluded"
                  ELSE "partial"
  BY DEF PagesAgree
<1>1. p \in Points /\ Exists(p)
  OBVIOUS
<1>2. \A kind \in {"scope", "gas_type", "category"} :
        /\ Cardinality(Valued(p, kind)) <= 1
        /\ Valued(p, kind) # {} => kind \in Flags(p.element)
  BY <1>1, OneKind DEF Flags
<1>3. CellEvidence(p.project, p.element) = "attached" => point[p].evidence
  <2> DEFINE cell == CellPoints(p.project, p.element)
             with == {q \in cell : point[q].evidence}
  <2>1. p \in cell
    BY <1>1 DEF CellPoints, PointsOf
  <2>2. CellEvidence(p.project, p.element) = "attached" => with = cell
    <3> HIDE DEF cell
    <3>1. CellEvidence(p.project, p.element)
            = IF cell = {} THEN "none" ELSE IF with = cell THEN "attached"
              ELSE IF with # {} THEN "partial" ELSE "pending"
      BY DEF CellEvidence, cell
    <3> HIDE DEF with
    <3> QED
      BY <3>1
  <2>3. p \in with => point[p].evidence
    OBVIOUS
  <2> QED
    BY <2>1, <2>2, <2>3
<1>4. ItemBoundary(p) = PageBoundary(p)
  BY <1>1, BoundariesAgree
<1>5. /\ ItemStandards(p) = RelatedStandards(p.project, p.element)
      /\ ItemStandards(p) \subseteq RequiredBy(p.project, p.element)
      /\ current = Mappings => ItemStandards(p) = RequiredBy(p.project, p.element)
  BY <1>1, StandardsAgree
<1>6. Scope(p) # Nowhere /\ boundary[p.project] # NoBoundary =>
        PageBoundary(p)[1] =
          IF <<Scope(p), TRUE>> \in MatrixScope(p.project) THEN "included"
          ELSE IF <<Scope(p), FALSE>> \in MatrixScope(p.project) THEN "excluded" ELSE "partial"
  BY <1>1, MatrixAgrees
<1> QED
  BY <1>2, <1>3, <1>4, <1>5, <1>6

LEMMA Least ==
  ASSUME NEW T \in SUBSET Nat, T # {}
  PROVE  \E m \in T : \A n \in T : m <= n
<1>1. IsWellFoundedOn(OpToRel(<, Nat), Nat)
  BY NatLessThanWellFounded
<1>2. PICK m \in T : \A n \in T : ~(<<n, m>> \in OpToRel(<, Nat))
  BY <1>1, WFMin
<1>3. \A n \in T : ~(n < m)
  BY <1>2 DEF OpToRel
<1> QED
  BY <1>3

\* Among assignments one is the oldest.
LEMMA Oldest ==
  ASSUME NEW T \in SUBSET Assignments, T # {}
  PROVE  \E a \in T : \A b \in T : a.id <= b.id
<1> DEFINE ids == {a.id : a \in T}
<1>1. ids \in SUBSET Nat /\ ids # {}
  BY PagesFit
<1> HIDE DEF ids
<1>2. \E m \in ids : \A n \in ids : m <= n
  BY <1>1, Least
<1> QED
  BY <1>2 DEF ids

LEMMA BeforeIs ==
  ASSUME NEW a, NEW b
  PROVE  Before(a, b) <=>
           \/ a.facility # Nowhere /\ b.facility = Nowhere
           \/ /\ (a.facility = Nowhere) <=> (b.facility = Nowhere)
              /\ a.entity # Nowhere /\ b.entity = Nowhere
           \/ /\ (a.facility = Nowhere) <=> (b.facility = Nowhere)
              /\ (a.entity = Nowhere) <=> (b.entity = Nowhere)
              /\ a.id < b.id
<1>1. ASSUME NEW x
      PROVE  /\ Rank(x)[1] = (x.facility = Nowhere)
             /\ Rank(x)[2] = (x.entity = Nowhere)
             /\ Rank(x)[3] = x.id
  <2> DEFINE f == (x.facility = Nowhere)
             e == (x.entity = Nowhere)
  <2>1. Rank(x) = <<f, e, x.id>>
    BY Zenon DEF Rank
  <2> HIDE DEF f, e
  <2>2. Rank(x)[1] = f /\ Rank(x)[2] = e /\ Rank(x)[3] = x.id
    BY <2>1
  <2> QED
    BY <2>2, Zenon DEF f, e
<1>2. Before(a, b) <=>
        \/ ~(a.facility = Nowhere) /\ (b.facility = Nowhere)
        \/ /\ (a.facility = Nowhere) = (b.facility = Nowhere)
           /\ ~(a.entity = Nowhere) /\ (b.entity = Nowhere)
        \/ /\ (a.facility = Nowhere) = (b.facility = Nowhere)
           /\ (a.entity = Nowhere) = (b.entity = Nowhere)
           /\ a.id < b.id
  BY <1>1, Zenon DEF Before
<1> QED
  BY <1>2, Zenon

LEMMA PickIsOne ==
  ASSUME NEW p, Matching(p) # {}
  PROVE  Pick(p) \in Matching(p)
<1> DEFINE M == Matching(p)
           F == {a \in M : a.facility # Nowhere}
           T == IF F # {} THEN F ELSE M
           E == {a \in T : a.entity # Nowhere}
           S == IF E # {} THEN E ELSE T
<1>1. M \subseteq Assignments
  BY DEF Matching
<1> HIDE DEF M
<1>2. S \in SUBSET Assignments /\ S # {} /\ S \subseteq M
  BY <1>1 DEF M
<1>3. PICK a \in S : \A b \in S : a.id <= b.id
  BY <1>2, Oldest
<1>4. ASSUME NEW b \in M \ {a} PROVE Before(a, b)
  <2>1. a \in Assignments /\ b \in Assignments /\ a.id \in Nat /\ b.id \in Nat /\ a.id # b.id
    BY <1>1, <1>2, <1>4, PagesFit
  <2>2. b \in S => a.id < b.id
    BY <1>3, <2>1
  <2>3. CASE b \notin T
    <3>1. F # {} /\ T = F /\ b.facility = Nowhere
      BY <2>3
    <3>2. a.facility # Nowhere
      BY <1>3, <3>1
    <3> QED
      BY <3>1, <3>2, BeforeIs
  <2>4. CASE b \in T /\ b \notin S
    <3>1. E # {} /\ S = E /\ b.entity = Nowhere
      BY <2>4
    <3>2. a.entity # Nowhere /\ a \in T
      BY <1>3, <3>1
    <3>3. (a.facility = Nowhere) <=> (b.facility = Nowhere)
      BY <2>4, <3>2
    <3> QED
      BY <3>1, <3>2, <3>3, BeforeIs
  <2>5. CASE b \in S
    <3>1. a \in T /\ b \in T
      BY <1>3, <2>5
    <3>2. (a.facility = Nowhere) <=> (b.facility = Nowhere)
      BY <1>2, <3>1
    <3>3. (a.entity = Nowhere) <=> (b.entity = Nowhere)
      BY <1>3, <2>5, <3>1
    <3> QED
      BY <2>2, <2>5, <3>2, <3>3, BeforeIs
  <2> QED
    BY <2>3, <2>4, <2>5
<1>5. a \in M /\ \A b \in M \ {a} : Before(a, b)
  BY <1>2, <1>3, <1>4
<1>6. Pick(p) = CHOOSE x \in M : \A b \in M \ {x} : Before(x, b)
  BY DEF Pick, M
<1> HIDE DEF F, T, E, S
<1>7. (CHOOSE x \in M : \A b \in M \ {x} : Before(x, b)) \in M
  BY <1>5
<1> QED
  BY <1>6, <1>7 DEF M

\* The earliest assignment that fits a waiting item is late where the item is overdue.
LEMMA DeadlinesMeet ==
  ASSUME PagesInv
  PROVE  DeadlinesAgree
<1>1. ASSUME NEW p \in Points, Exists(p), point[p].status \in Waiting, Urgency(p)[2],
             Pick(p) \notin Completed
      PROVE  OverdueOf(duty[Pick(p)].reviewer, p.project) > 0
  <2> DEFINE a == Pick(p)
             left == IF Matching(p) = {} THEN NoDate ELSE DaysLeft[a]
             waiting == IF point[p].status = "submitted" THEN "high"
                        ELSE IF point[p].status = "in_review" THEN "medium" ELSE "low"
  <2>1. /\ ~(left = NoDate \/ left > 5)
        /\ left < 0
    <3> DEFINE result == IF left = NoDate \/ left > 5 THEN <<waiting, FALSE>>
                         ELSE IF left < 0 THEN <<"critical", TRUE>>
                         ELSE IF left <= 2 THEN <<"high", FALSE>> ELSE <<"medium", FALSE>>
    <3>1. result[2]
      BY <1>1, Zenon DEF Urgency
    <3> HIDE DEF left, waiting
    <3>2. <<waiting, FALSE>>[2] = FALSE /\ <<"high", FALSE>>[2] = FALSE
          /\ <<"medium", FALSE>>[2] = FALSE
      <4> DEFINE no == FALSE
      <4>1. <<waiting, no>>[2] = no /\ <<"high", no>>[2] = no /\ <<"medium", no>>[2] = no
        <5> HIDE DEF no
        <5> QED
          OBVIOUS
      <4> QED
        BY <4>1, Zenon
    <3> QED
      BY <3>1, <3>2, Zenon
  <2>2. Matching(p) # {}
    BY <2>1
  <2>3. a \in Assignments /\ a.project = p.project /\ Matches(a, p)
    BY <2>2, PickIsOne DEF Matching
  <2>4. left = DaysLeft[a] /\ left \in Int /\ left # NoDate /\ left < 0
    BY <2>1, <2>2, <2>3, PagesFit
  <2> DEFINE points == {q \in PointsOf(a.project) : Matches(a, q)}
  <2>5. p \in points /\ point[p].status # "approved"
    BY <1>1, <2>3 DEF PointsOf, Waiting
  <2>6. ~(a \in Completed
          \/ (points # {} /\ \A q \in points : point[q].status = "approved"))
    BY <1>1, <2>5
  <2>7. Sla(a) = IF left <= -7 THEN "breach_level_2" ELSE IF left <= -3 THEN "breach_level_1"
                 ELSE "overdue"
    <3>1. Sla(a) = IF DaysLeft[a] = NoDate THEN "no_deadline"
                   ELSE IF DaysLeft[a] <= -7 THEN "breach_level_2"
                   ELSE IF DaysLeft[a] <= -3 THEN "breach_level_1"
                   ELSE IF DaysLeft[a] < 0 THEN "overdue"
                   ELSE IF DaysLeft[a] = 0 THEN "due_today"
                   ELSE IF DaysLeft[a] <= 3 THEN "warning" ELSE "on_track"
      BY <2>6, Zenon DEF Sla
    <3> HIDE DEF left, a, points
    <3> QED
      BY <2>4, <3>1
  <2>8. Sla(a) \in Late
    BY <2>7 DEF Late
  <2> DEFINE late == {b \in Assignments :
                        b.project = p.project /\ duty[b].reviewer = duty[a].reviewer
                        /\ Sla(b) \in Late}
  <2>9. a \in late /\ late \subseteq Assignments
    BY <2>3, <2>8
  <2>10. OverdueOf(duty[a].reviewer, p.project) = Cardinality(late)
    BY DEF OverdueOf
  <2> HIDE DEF late, a
  <2>11. IsFiniteSet(late)
    BY <2>9, PagesFit, FS_Subset
  <2>12. Cardinality(late) \in Nat /\ Cardinality(late) # 0
    BY <2>9, <2>11, FS_CardinalityType, FS_EmptySet
  <2> QED
    BY <2>10, <2>12 DEF a
<1>2. ASSUME NEW pr \in Projects PROVE ItemSnapshot(pr) # "outdated"
  <2>1. snapshot[pr] \in {NoBoundary, boundary[pr]}
    BY DEF PagesInv, BoundariesOk
  <2> QED
    BY <2>1 DEF ItemSnapshot
<1> QED
  BY <1>1, <1>2 DEF DeadlinesAgree

LEMMA ThreadsHold ==
  ASSUME PagesInv
  PROVE  ThreadsAreWhole
<1>1. DOMAIN comments = 1..Len(comments) /\ Len(comments) \in Nat
      /\ \A i \in DOMAIN comments : Placed(comments, i)
  BY LenProperties DEF PagesInv, CommentsOk
<1>2. ASSUME NEW i \in DOMAIN comments, comments[i].parent # 0
      PROVE  /\ comments[i].parent \in DOMAIN comments
             /\ comments[comments[i].parent].on = comments[i].on
             /\ comments[comments[i].parent].item = comments[i].item
  BY <1>1, <1>2 DEF Placed
<1>3. ASSUME NEW p \in Points, NEW i \in Roots(p) PROVE comments[i].parent = 0
  BY <1>2 DEF Roots, On
<1>4. ASSUME NEW p \in Points, NEW i \in On(p), NEW k \in Replies(p, i)
      PROVE  comments[k].item = comments[i].item
  <2>1. i \in DOMAIN comments /\ k \in DOMAIN comments /\ comments[k].parent = i
    BY DEF On, Replies
  <2>2. i # 0
    BY <1>1, <2>1
  <2> QED
    BY <1>2, <2>1, <2>2
<1>5. \A i \in DOMAIN comments : comments[i].on = NoPoint => i = 1 /\ comments[i].parent = 0
  BY <1>1 DEF Placed
<1> QED
  BY <1>3, <1>4, <1>5 DEF ThreadsAreWhole

LEMMA PagesTypes ==
  ASSUME PagesInv
  PROVE  TypeOK
<1>1. \A p \in Points : Exists(p) => point[p].by \in Users /\ point[p].status \in Statuses
  BY DEF PagesInv, TablesOk, PointOk, Exists
<1>2. \A i \in DOMAIN comments : comments[i].parent < i
  BY DEF PagesInv, CommentsOk, Placed
<1> QED
  BY <1>1, <1>2 DEF PagesInv, TablesOk, BoundariesOk, TypeOK

\* The pages agree on what may be opened, on what they tell of a point and its comments
\* and on what is late, in every state; an evidence is read where it is linked, and what
\* is bound fits its context (access.py, review_service.py, data_point_service.py,
\* merge_service.py, dashboard_service.py, comment_service.py, evidence_service.py).
THEOREM PagesKeep == Composition => []PagesHold
<1>1. PagesInv => ListsAreOpenable /\ PagesAgree /\ DeadlinesAgree /\ ThreadsAreWhole
  BY ListsOpenable, PagesTell, DeadlinesMeet, ThreadsHold
<1>2. FilesInv => Files!AccessAgrees /\ Files!EvidenceInContext
  BY FilesAccess, FilesContext
<1>3. PagesInv /\ FilesInv => PagesHold
  BY <1>1, <1>2 DEF PagesHold
<1> QED
  BY <1>3, PagesAlways, FilesAlways, PTL

\* What is known of the scope of an assignment.
LEMMA DutyFacts ==
  ASSUME NEW a \in Assignments
  PROVE  Scope(a) \in Entities \cup {Nowhere} /\ a.project \in Projects /\ a.id \in Nat
<1>1. a \in [id : Nat, project : Projects, element : DOMAIN Allowed,
             entity : Entities \cup {Nowhere}, facility : Entities \cup {Nowhere}]
  BY PagesFit
<1>2. /\ a.entity \in Entities \cup {Nowhere} /\ a.facility \in Entities \cup {Nowhere}
      /\ a.project \in Projects /\ a.id \in Nat
  BY <1>1
<1> QED
  BY <1>2 DEF Scope

\* The entities of the matrix that are included, with a boundary.
LEMMA InMatrix ==
  ASSUME PagesInv, NEW pr \in Projects, NEW e \in Entities
  PROVE  <<e, TRUE>> \in MatrixScope(pr) <=> MemberOf(pr, e) \in {"full", "share"}
<1>1. MemberOf(pr, e) \in {"full", "share", "excluded", "none"}
  BY MembersOk
<1>2. ASSUME <<e, TRUE>> \in MatrixScope(pr)
      PROVE  MemberOf(pr, e) # "none" /\ MemberOf(pr, e) # "excluded"
  <2>1. PICK g \in Entities : MemberOf(pr, g) # "none"
          /\ <<e, TRUE>> = <<g, MemberOf(pr, g) # "excluded">>
    BY <1>2, Zenon DEF MatrixScope
  <2> DEFINE y == (MemberOf(pr, g) # "excluded")
             yes == TRUE
  <2>2. e = g /\ yes = y
    <3>1. <<e, yes>> = <<g, y>>
      BY <2>1, Zenon
    <3> HIDE DEF y, yes
    <3> QED
      BY <3>1
  <2> QED
    BY <2>1, <2>2, Zenon
<1>3. ASSUME MemberOf(pr, e) # "none", MemberOf(pr, e) # "excluded"
      PROVE  <<e, TRUE>> \in MatrixScope(pr)
  <2>1. (MemberOf(pr, e) # "excluded") = TRUE
    BY <1>3, Zenon
  <2> QED
    BY <1>3, <2>1, Zenon DEF MatrixScope
<1>4. (MemberOf(pr, e) # "none" /\ MemberOf(pr, e) # "excluded")
        <=> MemberOf(pr, e) \in {"full", "share"}
  BY <1>1
<1> QED
  BY <1>2, <1>3, <1>4

LEMMA InEveryMatrix ==
  PagesInv => \A x \in Projects, y \in Entities :
                <<y, TRUE>> \in MatrixScope(x) <=> MemberOf(x, y) \in {"full", "share"}
BY InMatrix

LEMMA IncludedIs ==
  ASSUME PagesInv, NEW pr \in Projects
  PROVE  Included(boundary[pr]) = {e \in Entities : MemberOf(pr, e) \in {"full", "share"}}
BY DEF Included, MemberOf

\* Putting a boundary in the place of another does what the preview of it told.
LEMMA PreviewHolds ==
  ASSUME PagesInv, PagesInv', NEW pr \in Projects, NEW b \in Boundaries,
         ApplyBoundary(pr, b), boundary[pr] # NoBoundary
  PROVE  LET scoped == {a \in Assignments : a.project = pr /\ Scope(a) # Nowhere}
         IN /\ Removed(pr, b) =
                 {a \in scoped : /\ MemberOf(pr, Scope(a)) \in {"full", "share"}
                                 /\ ItemBoundary(a)'[1] # "included"}
            /\ b = DefaultOne =>
                 \A a \in MissingIfDefault(pr) : a \in Removed(pr, b) /\ Sla(a)' # "completed"
            /\ \A pair \in Added(pr, b) :
                 /\ <<pair[2], TRUE>> \in MatrixScope(pr)'
                 /\ <<pair[2], TRUE>> \notin MatrixScope(pr)
<1> DEFINE scoped == {a \in Assignments : a.project = pr /\ Scope(a) # Nowhere}
<1>1. /\ boundary' = [boundary EXCEPT ![pr] = b] /\ boundary'[pr] = b
      /\ UNCHANGED <<point, duty, attached, current, tracked, comments>>
  BY DEF ApplyBoundary, PagesInv, BoundariesOk
<1>2. b # NoBoundary /\ b \in DOMAIN Members
  BY PagesFit DEF Boundaries
<1>3. Included(boundary[pr]) = {e \in Entities : MemberOf(pr, e) \in {"full", "share"}}
  BY IncludedIs
<1>4. \A e : MemberOf(pr, e)' = Members[b][e]
  BY <1>1, <1>2 DEF MemberOf
<1>5. Included(b) = {e \in Entities : MemberOf(pr, e)' \in {"full", "share"}}
  BY <1>2, <1>4 DEF Included
<1>6. ASSUME NEW a \in scoped
      PROVE  ItemBoundary(a)'[1] # "included" <=> Scope(a) \notin Included(b)
  <2> DEFINE member == Members[b][Scope(a)]
  <2>1. Scope(a) \in Entities /\ a.project = pr /\ Scope(a) # Nowhere
    BY DutyFacts
  <2>2. member \in {"full", "share", "excluded", "none"}
    BY <1>2, <2>1, PagesFit
  <2>3. ItemBoundary(a)' = IF member # "none" THEN <<StatusOf(member), MethodOf(member)>>
                           ELSE <<"partial", "full">>
    BY <1>1, <1>2, <1>4, <2>1 DEF ItemBoundary
  <2>4. ItemBoundary(a)'[1] = IF member # "none" THEN StatusOf(member) ELSE "partial"
    BY <2>3
  <2>5. Scope(a) \in Included(b) <=> member \in {"full", "share"}
    BY <1>2, <2>1 DEF Included
  <2> HIDE DEF member
  <2> QED
    BY <2>2, <2>4, <2>5 DEF StatusOf
<1>7. Removed(pr, b) = {a \in scoped : /\ MemberOf(pr, Scope(a)) \in {"full", "share"}
                                       /\ ItemBoundary(a)'[1] # "included"}
  <2>1. ASSUME NEW a \in Removed(pr, b)
        PROVE  /\ a \in scoped /\ MemberOf(pr, Scope(a)) \in {"full", "share"}
               /\ ItemBoundary(a)'[1] # "included"
    <3>1. a \in Assignments /\ a.project = pr
          /\ Scope(a) \in Included(boundary[pr]) /\ Scope(a) \notin Included(b)
      BY DEF Removed, Leaving
    <3>2. Scope(a) \in Entities /\ Scope(a) # Nowhere
      BY <1>3, <3>1, PagesFit
    <3> QED
      BY <1>3, <1>6, <3>1, <3>2
  <2>2. ASSUME NEW a \in scoped, MemberOf(pr, Scope(a)) \in {"full", "share"},
               ItemBoundary(a)'[1] # "included"
        PROVE  a \in Removed(pr, b)
    <3>1. Scope(a) \in Entities
      BY DutyFacts
    <3> QED
      BY <1>3, <1>6, <2>2, <3>1 DEF Removed, Leaving
  <2> QED
    BY <2>1, <2>2
<1>8. ASSUME b = DefaultOne, NEW a \in MissingIfDefault(pr)
      PROVE  a \in Removed(pr, b) /\ Sla(a)' # "completed"
  <2>1. a \in Removed(pr, b) /\ Sla(a) # "completed"
    BY <1>8 DEF MissingIfDefault
  <2>2. Sla(a)' = Sla(a)
    BY <1>1 DEF Sla, PointsOf, Exists
  <2> QED
    BY <2>1, <2>2
<1>9. ASSUME NEW pair \in Added(pr, b)
      PROVE  /\ <<pair[2], TRUE>> \in MatrixScope(pr)'
             /\ <<pair[2], TRUE>> \notin MatrixScope(pr)
  <2> DEFINE e == pair[2]
  <2>1. e \in Included(b) /\ e \notin Included(boundary[pr])
    BY DEF Added, Entering
  <2>2. e \in Entities /\ MemberOf(pr, e)' \in {"full", "share"}
        /\ MemberOf(pr, e) \notin {"full", "share"}
    BY <1>3, <1>5, <2>1
  <2> HIDE DEF e
  <2>3. <<e, TRUE>> \notin MatrixScope(pr)
    BY <2>2, InMatrix
  <2>4. (PagesInv =>
           \A x \in Projects, y \in Entities :
             <<y, TRUE>> \in MatrixScope(x) <=> MemberOf(x, y) \in {"full", "share"})'
    BY InEveryMatrix, PTL
  <2>5. <<e, TRUE>> \in MatrixScope(pr)' <=> MemberOf(pr, e)' \in {"full", "share"}
    BY <2>2, <2>4
  <2> QED
    BY <2>2, <2>3, <2>5 DEF e
<1> QED
  BY <1>7, <1>8, <1>9

\* The preview of a change of boundary is what the change does (impact_service.py,
\* dashboard_service.py, boundary_service.py).
THEOREM PreviewKeeps == Composition => PreviewIsKept
<1> DEFINE A == \A pr \in Projects :
       boundary'[pr] # boundary[pr] /\ boundary[pr] # NoBoundary =>
         LET b == boundary'[pr]
             scoped == {a \in Assignments : a.project = pr /\ Scope(a) # Nowhere}
         IN /\ Removed(pr, b) =
                 {a \in scoped : /\ MemberOf(pr, Scope(a)) \in {"full", "share"}
                                 /\ ItemBoundary(a)'[1] # "included"}
            /\ b = DefaultOne =>
                 \A a \in MissingIfDefault(pr) : a \in Removed(pr, b) /\ Sla(a)' # "completed"
            /\ \A pair \in Added(pr, b) :
                 /\ <<pair[2], TRUE>> \in MatrixScope(pr)'
                 /\ <<pair[2], TRUE>> \notin MatrixScope(pr)
<1>1. PagesInv /\ PagesInv' /\ [Step]_allVars => [A]_vars
  <2> SUFFICES ASSUME PagesInv, PagesInv', [Step]_allVars PROVE [A]_vars
    OBVIOUS
  <2>1. CASE UNCHANGED vars
    BY <2>1
  <2>2. CASE Next
    <3> SUFFICES ASSUME NEW pr \in Projects,
                        boundary'[pr] # boundary[pr], boundary[pr] # NoBoundary
        PROVE  LET b == boundary'[pr]
                   scoped == {a \in Assignments : a.project = pr /\ Scope(a) # Nowhere}
               IN /\ Removed(pr, b) =
                       {a \in scoped : /\ MemberOf(pr, Scope(a)) \in {"full", "share"}
                                       /\ ItemBoundary(a)'[1] # "included"}
                  /\ b = DefaultOne =>
                       \A a \in MissingIfDefault(pr) :
                         a \in Removed(pr, b) /\ Sla(a)' # "completed"
                  /\ \A pair \in Added(pr, b) :
                       /\ <<pair[2], TRUE>> \in MatrixScope(pr)'
                       /\ <<pair[2], TRUE>> \notin MatrixScope(pr)
      OBVIOUS
    <3>1. boundary' # boundary
      OBVIOUS
    <3>2. PICK q \in Projects, b \in Boundaries : ApplyBoundary(q, b)
      <4>1. \A u, p, x : Create(u, p, x) \/ Update(u, p, x) \/ Move(u, p, x) => boundary' = boundary
        BY DEF Create, Update, Move
      <4>2. \A u, p, i, c : Comment(u, p, i, c) => boundary' = boundary
        BY DEF Comment
      <4>3. \A x, y : LinkEvidence(x, y) \/ Resolve(x, y) \/ Reassign(x, y) \/ AddStandard(x, y) =>
                       boundary' = boundary
        BY DEF LinkEvidence, Resolve, Reassign, AddStandard
      <4>4. \A x : SaveSnapshot(x) \/ Recalculate(x) \/ Retire(x) => boundary' = boundary
        BY DEF SaveSnapshot, Recalculate, Retire
      <4> QED
        BY <2>2, <3>1, <4>1, <4>2, <4>3, <4>4 DEF Next
    <3>3. boundary' = [boundary EXCEPT ![q] = b]
      BY <3>2 DEF ApplyBoundary
    <3>4. q = pr /\ boundary'[pr] = b
      BY <3>3 DEF PagesInv, BoundariesOk
    <3> QED
      BY <3>2, <3>4, PreviewHolds
  <2> QED
    BY <2>1, <2>2 DEF Step, allVars, serviceVars, vars
<1> QED
  BY <1>1, PagesAlways, PTL DEF Composition, PreviewIsKept
-----------------------------------------------------------------------------
(***************************************************************************)
(* The proxy tenant.  Of a key there are at most two points, with ids of    *)
(* their own.                                                              *)
(***************************************************************************)
PointShape == [year : Years, code : SheetCodes, nth : 1..2, value : Proxy!Worth,
               status : {"draft", "needs_revision", "approved"}]
Distinct(points) ==
  /\ points \subseteq PointShape
  /\ \A p, q \in points : Proxy!Id(p) = Proxy!Id(q) => p = q
At(points, k) == {p \in points : Proxy!Key(p) = k}
IdsOf(points) == {Proxy!Id(p) : p \in points}

LEMMA ProxyCardinality == \A S : Proxy!Cardinality(S) = Cardinality(S)
BY DEF Proxy!Cardinality, Cardinality

LEMMA IdTells ==
  \A p, q : Proxy!Id(p) = Proxy!Id(q) <=>
              p.year = q.year /\ p.code = q.code /\ p.nth = q.nth
BY DEF Proxy!Id

LEMMA KeyTells ==
  \A p, q : Proxy!Key(p) = Proxy!Key(q) <=> p.year = q.year /\ p.code = q.code
BY DEF Proxy!Key

LEMMA TwoAtMost ==
  ASSUME NEW points, Distinct(points), NEW k
  PROVE  \/ At(points, k) = {} /\ Proxy!Cardinality(At(points, k)) = 0
         \/ \E p \in points : /\ At(points, k) = {p}
                              /\ Proxy!Cardinality(At(points, k)) = 1
         \/ \E p, q \in points : /\ p # q /\ At(points, k) = {p, q}
                                 /\ Proxy!Cardinality(At(points, k)) = 2
<1> DEFINE S == At(points, k)
<1>1. S \subseteq points /\ \A p \in S : Proxy!Key(p) = k
  BY DEF At
<1>2. CASE S = {}
  BY <1>2, ProxyCardinality, FS_EmptySet
<1>3. CASE \E p \in S : S = {p}
  <2>1. PICK p \in S : S = {p}
    BY <1>3
  <2>2. Cardinality({p}) = 1
    BY FS_Singleton
  <2> QED
    BY <1>1, <2>1, <2>2, ProxyCardinality
<1>4. CASE S # {} /\ ~\E p \in S : S = {p}
  <2>1. PICK p \in S, q \in S : p # q
    BY <1>4
  <2>2. p.nth \in 1..2 /\ q.nth \in 1..2 /\ p.nth # q.nth
    BY <1>1, <2>1, IdTells, KeyTells DEF Distinct, PointShape
  <2>3. ASSUME NEW x \in S PROVE x \in {p, q}
    <3>1. x.nth \in 1..2 /\ Proxy!Key(x) = Proxy!Key(p) /\ Proxy!Key(x) = Proxy!Key(q)
      BY <1>1 DEF Distinct, PointShape
    <3>2. x.nth = p.nth \/ x.nth = q.nth
      BY <2>2, <3>1
    <3> QED
      BY <1>1, <3>1, <3>2, IdTells, KeyTells DEF Distinct
  <2>4. S = {p} \cup {q}
    BY <2>3
  <2>5. Cardinality({p} \cup {q}) = 2
    <3>1. IsFiniteSet({p}) /\ Cardinality({p}) = 1
      BY FS_Singleton
    <3>2. Cardinality({p} \cup {q}) = 1 + 1
      BY <2>1, <3>1, FS_AddElement
    <3> QED
      BY <3>2
  <2>6. Proxy!Cardinality(S) = 2
    BY <2>4, <2>5, ProxyCardinality
  <2>7. S = {p, q}
    BY <2>4
  <2> QED
    BY <1>1, <2>1, <2>6, <2>7
<1> QED
  BY <1>2, <1>3, <1>4

\* Of a set whose members have one key, one member makes the cardinality 1.
LEMMA OneOfKey ==
  ASSUME NEW points, Distinct(points), NEW k, NEW T, T \subseteq At(points, k)
  PROVE  Proxy!Cardinality(T) = 1 <=> \E p \in T : T = {p}
<1>1. IsFiniteSet(At(points, k))
  <2>1. \/ At(points, k) = {} \/ \E p \in points : At(points, k) = {p}
        \/ \E p, q \in points : At(points, k) = {p} \cup {q}
    BY TwoAtMost
  <2>2. ASSUME NEW p PROVE IsFiniteSet({p})
    BY FS_Singleton
  <2>3. ASSUME NEW p, NEW q PROVE IsFiniteSet({p} \cup {q})
    BY <2>2, FS_AddElement
  <2>4. CASE At(points, k) = {}
    BY <2>4, FS_EmptySet
  <2>5. CASE \E p \in points : At(points, k) = {p}
    BY <2>2, <2>5
  <2>6. CASE \E p, q \in points : At(points, k) = {p} \cup {q}
    <3>1. PICK p \in points, q \in points : At(points, k) = {p} \cup {q}
      BY <2>6
    <3>2. IsFiniteSet({p} \cup {q})
      BY <2>3
    <3> QED
      BY <3>1, <3>2
  <2> QED
    BY <2>1, <2>4, <2>5, <2>6
<1>2. IsFiniteSet(T)
  BY <1>1, FS_Subset
<1>3. Cardinality(T) = 1 <=> \E p : T = {p}
  BY <1>2, FS_Singleton
<1> QED
  BY <1>3, ProxyCardinality
-----------------------------------------------------------------------------
(***************************************************************************)
(* The import: what becomes of the points of a key.                        *)
(***************************************************************************)

\* A given key names a metric of the workbook and a year for which it has a value.
LEMMA GivenIs ==
  ASSUME NEW w \in Workbooks, NEW k \in Proxy!Given(w)
  PROVE  /\ k \in Years \X SheetCodes /\ k[2] \in Proxy!MetricsOf(w)
         /\ Proxy!ValueAt(w, k) \in Proxy!Worth
         /\ k = <<k[1], k[2]>>
<1>1. PICK x \in Years \X w : x[1] \in DOMAIN x[2].values /\ k = <<x[1], x[2].code>>
  BY DEF Proxy!Given
<1>2. x[1] \in Years /\ x[2] \in w /\ k[1] = x[1] /\ k[2] = x[2].code
  BY <1>1
<1>3. x[2].code \in SheetCodes /\ \A n \in w : n.code = x[2].code => n = x[2]
  BY <1>2, ProxyFit DEF ProxyFit
<1>4. (CHOOSE m \in w : m.code = k[2]) = x[2]
  BY <1>2, <1>3
<1>5. Proxy!ValueAt(w, k) = x[2].values[x[1]]
  BY <1>2, <1>4 DEF Proxy!ValueAt
<1>6. x[2] \in UNION Workbooks
  BY <1>2
<1>7. x[2].values[x[1]] \in Proxy!Worth
  BY <1>1, <1>6 DEF Proxy!Worth
<1> QED
  BY <1>1, <1>2, <1>3, <1>5, <1>7 DEF Proxy!MetricsOf

LEMMA ImportedIs ==
  ASSUME NEW w \in Workbooks, NEW k \in Proxy!Given(w), NEW n \in 1..2
  PROVE  LET p == Proxy!Imported(w, k, n)
         IN /\ p \in PointShape /\ Proxy!Key(p) = k
            /\ p.year = k[1] /\ p.code = k[2] /\ p.nth = n
            /\ p.value = Proxy!ValueAt(w, k) /\ p.status = "approved"
<1>1. k[1] \in Years /\ k[2] \in SheetCodes /\ Proxy!ValueAt(w, k) \in Proxy!Worth
      /\ k = <<k[1], k[2]>>
  BY GivenIs
<1> QED
  BY <1>1 DEF Proxy!Imported, PointShape, Proxy!Key

Untouched(w, points, k) ==
  k \notin Proxy!Given(w) \/ Proxy!Cardinality(At(points, k)) > 1

\* One key at a time: an import leaves what it does not give and what is there twice,
\* adds a point where there is none, and sets the only one back.
LEMMA ImportAt ==
  ASSUME NEW w \in Workbooks, NEW d, Distinct(d.points)
  PROVE  /\ Proxy!PointsAfter(w, d) \subseteq PointShape
         /\ \A k : Untouched(w, d.points, k) =>
              At(Proxy!PointsAfter(w, d), k) = At(d.points, k)
         /\ \A k \in Proxy!Given(w) : At(d.points, k) = {} =>
              At(Proxy!PointsAfter(w, d), k) = {Proxy!Imported(w, k, 1)}
         /\ \A k \in Proxy!Given(w) : \A p : At(d.points, k) = {p} =>
              At(Proxy!PointsAfter(w, d), k) = {Proxy!Imported(w, k, p.nth)}
<1> DEFINE P == d.points
           kept == {p \in P : Untouched(w, P, Proxy!Key(p))}
           made == {Proxy!Imported(w, k, 1) : k \in {x \in Proxy!Given(w) : At(P, x) = {}}}
           one == {q \in P : Proxy!Key(q) \in Proxy!Given(w) /\ At(P, Proxy!Key(q)) = {q}}
           set == {Proxy!Imported(w, Proxy!Key(p), p.nth) : p \in one}
           Q == Proxy!PointsAfter(w, d)
<1>1. Q = kept \cup made \cup set
  BY DEF Proxy!PointsAfter, Proxy!PointsAt, At, Untouched
<1>2. \A p \in P : p \in PointShape /\ p.nth \in 1..2
  BY DEF Distinct, PointShape
<1>3. \A p \in kept : p \in P /\ Untouched(w, P, Proxy!Key(p))
  OBVIOUS
<1>4. ASSUME NEW p \in made
      PROVE  \E k \in Proxy!Given(w) : /\ p = Proxy!Imported(w, k, 1) /\ At(P, k) = {}
                                       /\ Proxy!Key(p) = k /\ p \in PointShape
  <2>1. PICK k \in Proxy!Given(w) : p = Proxy!Imported(w, k, 1) /\ At(P, k) = {}
    BY <1>4
  <2> QED
    BY <2>1, ImportedIs
<1>5. ASSUME NEW p \in set
      PROVE  \E q \in P : LET k == Proxy!Key(q)
                          IN /\ k \in Proxy!Given(w) /\ At(P, k) = {q}
                             /\ p = Proxy!Imported(w, k, q.nth)
                             /\ Proxy!Key(p) = k /\ p \in PointShape
  <2>1. PICK q \in one : p = Proxy!Imported(w, Proxy!Key(q), q.nth)
    BY <1>5
  <2>2. q \in P /\ q.nth \in 1..2 /\ Proxy!Key(q) \in Proxy!Given(w)
        /\ At(P, Proxy!Key(q)) = {q}
    BY <1>2, <2>1
  <2> QED
    BY <2>1, <2>2, ImportedIs
<1> HIDE DEF Q, made, set
<1>6. ASSUME NEW k, At(P, k) = {} PROVE ~(Proxy!Cardinality(At(P, k)) > 1)
  <2>1. Cardinality({}) = 0
    BY FS_EmptySet
  <2>2. Proxy!Cardinality(At(P, k)) = 0
    BY <1>6, <2>1, ProxyCardinality
  <2> QED
    BY <2>2
<1>7. ASSUME NEW k, NEW q, At(P, k) = {q} PROVE ~(Proxy!Cardinality(At(P, k)) > 1)
  <2>1. Cardinality({q}) = 1
    BY FS_Singleton
  <2>2. Proxy!Cardinality(At(P, k)) = 1
    BY <1>7, <2>1, ProxyCardinality
  <2> QED
    BY <2>2
<1>8. \A k : Untouched(w, P, k) =>
        k \notin Proxy!Given(w) \/ (At(P, k) # {} /\ \A q : At(P, k) # {q})
  BY <1>6, <1>7 DEF Untouched
<1>9. Q \subseteq PointShape
  BY <1>1, <1>2, <1>3, <1>4, <1>5
<1>10. ASSUME NEW k, Untouched(w, P, k) PROVE At(Q, k) = At(P, k)
  <2>1. ASSUME NEW p \in Q, Proxy!Key(p) = k PROVE p \in P
    <3>1. p \notin made
      BY <1>4, <1>8, <1>10, <2>1
    <3>2. p \notin set
      BY <1>5, <1>8, <1>10, <2>1
    <3> QED
      BY <1>1, <2>1, <3>1, <3>2
  <2>2. ASSUME NEW p \in P, Proxy!Key(p) = k PROVE p \in Q
    BY <1>1, <1>10, <2>2
  <2> QED
    BY <2>1, <2>2 DEF At
<1>11. ASSUME NEW k \in Proxy!Given(w), At(P, k) = {}
       PROVE  At(Q, k) = {Proxy!Imported(w, k, 1)}
  <2>1. ASSUME NEW p \in Q, Proxy!Key(p) = k PROVE p = Proxy!Imported(w, k, 1)
    <3>1. p \notin kept
      BY <1>11, <2>1 DEF At
    <3>2. p \notin set
      BY <1>5, <1>11, <2>1
    <3> QED
      BY <1>1, <1>4, <2>1, <3>1, <3>2
  <2>2. Proxy!Imported(w, k, 1) \in made
    BY <1>11 DEF made
  <2>3. Proxy!Key(Proxy!Imported(w, k, 1)) = k
    BY ImportedIs
  <2> QED
    BY <1>1, <2>1, <2>2, <2>3 DEF At
<1>12. ASSUME NEW k \in Proxy!Given(w), NEW p, At(P, k) = {p}
       PROVE  At(Q, k) = {Proxy!Imported(w, k, p.nth)}
  <2>1. p \in P /\ Proxy!Key(p) = k /\ p.nth \in 1..2
    BY <1>2, <1>12 DEF At
  <2>2. ASSUME NEW q \in Q, Proxy!Key(q) = k PROVE q = Proxy!Imported(w, k, p.nth)
    <3>1. q \notin kept
      BY <1>8, <1>12, <2>2
    <3>2. q \notin made
      BY <1>4, <1>12, <2>2
    <3>3. q \in set
      BY <1>1, <2>2, <3>1, <3>2
    <3>4. PICK o \in P : /\ At(P, Proxy!Key(o)) = {o} /\ Proxy!Key(q) = Proxy!Key(o)
                         /\ q = Proxy!Imported(w, Proxy!Key(o), o.nth)
      BY <1>5, <3>3
    <3> QED
      BY <1>12, <2>2, <3>4
  <2>3. Proxy!Imported(w, k, p.nth) \in set
    BY <1>12, <2>1 DEF set
  <2>4. Proxy!Key(Proxy!Imported(w, k, p.nth)) = k
    BY <2>1, ImportedIs
  <2> QED
    BY <1>1, <2>2, <2>3, <2>4 DEF At
<1> QED
  BY <1>9, <1>10, <1>11, <1>12 DEF Q

\* The points of an import are distinct, and none of the ids that were there is lost.
LEMMA ImportDistinct ==
  ASSUME NEW w \in Workbooks, NEW d, Distinct(d.points)
  PROVE  /\ Distinct(Proxy!PointsAfter(w, d))
         /\ IdsOf(d.points) \subseteq IdsOf(Proxy!PointsAfter(w, d))
<1> DEFINE P == d.points
           Q == Proxy!PointsAfter(w, d)
<1>1. ASSUME NEW k
      PROVE  \/ At(Q, k) = At(P, k)
             \/ /\ k \in Proxy!Given(w) /\ At(P, k) = {}
                /\ At(Q, k) = {Proxy!Imported(w, k, 1)}
             \/ \E p \in P : /\ k \in Proxy!Given(w) /\ At(P, k) = {p}
                             /\ At(Q, k) = {Proxy!Imported(w, k, p.nth)}
  <2>1. Untouched(w, P, k) \/ (k \in Proxy!Given(w) /\ ~(Proxy!Cardinality(At(P, k)) > 1))
    BY DEF Untouched
  <2>2. ~(Proxy!Cardinality(At(P, k)) > 1) =>
          At(P, k) = {} \/ \E p \in P : At(P, k) = {p}
    BY TwoAtMost
  <2> QED
    BY <2>1, <2>2, ImportAt
<1> HIDE DEF Q
<1>2. Q \subseteq PointShape
  BY ImportAt DEF Q
<1>3. ASSUME NEW p \in Q, NEW q \in Q, Proxy!Id(p) = Proxy!Id(q) PROVE p = q
  <2>1. Proxy!Key(p) = Proxy!Key(q)
    BY <1>3, IdTells, KeyTells
  <2>2. p \in At(Q, Proxy!Key(p)) /\ q \in At(Q, Proxy!Key(p))
    BY <2>1 DEF At
  <2>3. CASE At(Q, Proxy!Key(p)) = At(P, Proxy!Key(p))
    BY <1>3, <2>2, <2>3 DEF At, Distinct
  <2>4. CASE \E x : At(Q, Proxy!Key(p)) = {x}
    BY <2>2, <2>4
  <2> QED
    BY <1>1, <2>3, <2>4
<1>4. ASSUME NEW p \in P PROVE Proxy!Id(p) \in IdsOf(Q)
  <2> DEFINE k == Proxy!Key(p)
  <2>1. p \in At(P, k) /\ p.nth \in 1..2 /\ k[1] = p.year /\ k[2] = p.code
    BY DEF At, Distinct, PointShape, Proxy!Key
  <2>2. CASE At(Q, k) = At(P, k)
    BY <2>1, <2>2 DEF At, IdsOf
  <2>3. CASE k \in Proxy!Given(w) /\ At(Q, k) = {Proxy!Imported(w, k, p.nth)}
    <3> DEFINE q == Proxy!Imported(w, k, p.nth)
    <3>1. q.year = p.year /\ q.code = p.code /\ q.nth = p.nth
      BY <2>1, <2>3, ImportedIs
    <3>2. q \in Q
      BY <2>3 DEF At
    <3> HIDE DEF q
    <3>3. Proxy!Id(q) = Proxy!Id(p)
      BY <3>1, IdTells
    <3> QED
      BY <3>2, <3>3 DEF IdsOf
  <2>4. \A x : At(P, k) = {x} => x = p
    BY <2>1
  <2> HIDE DEF k
  <2> QED
    BY <1>1, <2>1, <2>2, <2>3, <2>4
<1> QED
  BY <1>2, <1>3, <1>4 DEF Distinct, IdsOf, Q
-----------------------------------------------------------------------------
(* What an import ends with.                                               *)

ImportedFrame(frame) == Proxy!Standard(Proxy!Boundary(Proxy!Tenant(frame)))

LEMMA FrameIs ==
  ASSUME NEW frame, DOMAIN frame = Proxy!FrameRows
  PROVE  /\ DOMAIN ImportedFrame(frame) = Proxy!FrameRows
         /\ \A f \in Proxy!FrameRows : ImportedFrame(frame)[f] = "imported"
         /\ ImportedFrame(frame) = [f \in Proxy!FrameRows |-> "imported"]
<1> DEFINE a == [frame EXCEPT !["organization"] = "imported"]
           b == [a EXCEPT !["root"] = "imported"]
           c == [b EXCEPT !["boundary"] = "imported"]
           e == [c EXCEPT !["membership"] = "imported"]
           g == [e EXCEPT !["standard"] = "imported"]
<1>1. a = [f \in Proxy!FrameRows |-> IF f = "organization" THEN "imported" ELSE frame[f]]
  BY DEF Proxy!FrameRows
<1> HIDE DEF a
<1>2. b = [f \in Proxy!FrameRows |-> IF f = "root" THEN "imported" ELSE a[f]]
  BY <1>1
<1> HIDE DEF b
<1>3. c = [f \in Proxy!FrameRows |-> IF f = "boundary" THEN "imported" ELSE b[f]]
  BY <1>2
<1> HIDE DEF c
<1>4. e = [f \in Proxy!FrameRows |-> IF f = "membership" THEN "imported" ELSE c[f]]
  BY <1>3
<1> HIDE DEF e
<1>5. g = [f \in Proxy!FrameRows |-> IF f = "standard" THEN "imported" ELSE e[f]]
  BY <1>4
<1>6. ImportedFrame(frame) = g
  BY DEF ImportedFrame, Proxy!Tenant, Proxy!Boundary, Proxy!Standard, a, b, c, e
<1> HIDE DEF g
<1>7. g = [f \in Proxy!FrameRows |-> "imported"]
  BY <1>1, <1>2, <1>3, <1>4, <1>5 DEF Proxy!FrameRows
<1> QED
  BY <1>6, <1>7

\* The fields after an import that goes on with chosen points.
LEMMA ImportIs ==
  ASSUME NEW w, NEW d, NEW e \in Proxy!Imports(w, d)
  PROVE  \E chosen \in Proxy!Chosen(w, Proxy!PointsAfter(w, d)) :
           /\ e = [people |-> Proxy!People(d), frame |-> ImportedFrame(d.frame),
                   items |-> Proxy!Items(w, d), projects |-> Proxy!ProjectsAfter(d),
                   attached |-> Proxy!Attached(d), points |-> Proxy!PointsAfter(w, d),
                   bound |-> d.bound \cup chosen, linked |-> Proxy!Linked(d, chosen),
                   duties |-> Proxy!Duties(w, d), itemStatus |-> Proxy!ItemStatus(w, d),
                   disclosed |-> Proxy!Disclosed(w, d), examples |-> d.examples]
           /\ e.people = Proxy!People(d) /\ e.frame = ImportedFrame(d.frame)
           /\ e.items = Proxy!Items(w, d) /\ e.projects = Proxy!ProjectsAfter(d)
           /\ e.attached = Proxy!Attached(d) /\ e.points = Proxy!PointsAfter(w, d)
           /\ e.bound = d.bound \cup chosen /\ e.linked = Proxy!Linked(d, chosen)
           /\ e.duties = Proxy!Duties(w, d) /\ e.itemStatus = Proxy!ItemStatus(w, d)
           /\ e.disclosed = Proxy!Disclosed(w, d) /\ e.examples = d.examples
<1>1. PICK chosen \in Proxy!Chosen(w, Proxy!PointsAfter(w, d)) :
        e = [people |-> Proxy!People(d), frame |-> ImportedFrame(d.frame),
             items |-> Proxy!Items(w, d), projects |-> Proxy!ProjectsAfter(d),
             attached |-> Proxy!Attached(d), points |-> Proxy!PointsAfter(w, d),
             bound |-> d.bound \cup chosen, linked |-> Proxy!Linked(d, chosen),
             duties |-> Proxy!Duties(w, d), itemStatus |-> Proxy!ItemStatus(w, d),
             disclosed |-> Proxy!Disclosed(w, d), examples |-> d.examples]
  BY DEF Proxy!Imports, ImportedFrame
<1> QED
  BY <1>1

\* The same import again finds nothing to do for the points.
LEMMA PointsAgain ==
  ASSUME NEW w \in Workbooks, NEW d, Distinct(d.points), NEW e,
         e.points = Proxy!PointsAfter(w, d)
  PROVE  Proxy!PointsAfter(w, e) = e.points
<1> DEFINE P == d.points
           Q == e.points
           R == Proxy!PointsAfter(w, e)
<1>1. Distinct(Q)
  BY ImportDistinct
<1>2. ASSUME NEW k PROVE At(R, k) = At(Q, k)
  <2>1. CASE Untouched(w, Q, k)
    BY <1>1, <2>1, ImportAt
  <2>2. CASE ~Untouched(w, Q, k)
    <3>1. k \in Proxy!Given(w) /\ ~(Proxy!Cardinality(At(Q, k)) > 1)
      BY <2>2 DEF Untouched
    <3>2. At(Q, k) = {} \/ \E p \in Q : At(Q, k) = {p}
      BY <1>1, <3>1, TwoAtMost
    <3>3. \/ At(Q, k) = At(P, k)
          \/ \E n \in 1..2 : At(Q, k) = {Proxy!Imported(w, k, n)}
      <4>1. CASE Untouched(w, P, k)
        BY <4>1, ImportAt
      <4>2. CASE ~Untouched(w, P, k)
        <5>1. At(P, k) = {} \/ \E p \in P : At(P, k) = {p}
          BY <4>2, TwoAtMost DEF Untouched
        <5>2. \A p \in P : p.nth \in 1..2
          BY DEF Distinct, PointShape
        <5>3. 1 \in 1..2
          OBVIOUS
        <5> QED
          BY <3>1, <5>1, <5>2, <5>3, ImportAt
      <4> QED
        BY <4>1, <4>2
    <3>4. \E n \in 1..2 : At(Q, k) = {Proxy!Imported(w, k, n)}
      <4>1. CASE At(Q, k) = At(P, k)
        <5>1. ~Untouched(w, P, k)
          BY <2>2, <4>1 DEF Untouched
        <5>2. At(P, k) = {} \/ \E p \in P : At(P, k) = {p}
          BY <5>1, TwoAtMost DEF Untouched
        <5>3. \A p \in P : p.nth \in 1..2
          BY DEF Distinct, PointShape
        <5>4. 1 \in 1..2
          OBVIOUS
        <5> QED
          BY <3>1, <5>2, <5>3, <5>4, ImportAt
      <4> QED
        BY <3>3, <4>1
    <3>5. PICK n \in 1..2 : At(Q, k) = {Proxy!Imported(w, k, n)}
      BY <3>4
    <3>6. Proxy!Imported(w, k, n).nth = n
      BY <3>1, ImportedIs
    <3> QED
      BY <1>1, <3>1, <3>5, <3>6, ImportAt
  <2> QED
    BY <2>1, <2>2
<1> HIDE DEF R
<1>3. ASSUME NEW p PROVE p \in R <=> p \in Q
  <2>1. p \in R <=> p \in At(R, Proxy!Key(p))
    BY DEF At
  <2>2. p \in Q <=> p \in At(Q, Proxy!Key(p))
    BY DEF At
  <2> QED
    BY <1>2, <2>1, <2>2
<1>4. R = Q
  BY <1>3
<1> QED
  BY <1>4 DEF R

\* A chosen set holds the id of the only point of a given key.
LEMMA ChosenHas ==
  ASSUME NEW w \in Workbooks, NEW points, Distinct(points),
         NEW chosen \in Proxy!Chosen(w, points),
         NEW k \in Proxy!Given(w), NEW p, At(points, k) = {p}
  PROVE  Proxy!Id(p) \in chosen
<1> DEFINE T == {i \in chosen : <<i[1], i[2]>> = k}
<1>1. Proxy!Cardinality(T) = 1
  BY DEF Proxy!Chosen
<1>2. \A i \in chosen : \E q \in points : i = Proxy!Id(q)
  BY DEF Proxy!Chosen
<1>3. T # {}
  <2>1. Cardinality({}) = 0
    BY FS_EmptySet
  <2>2. Proxy!Cardinality({}) = 0
    BY <2>1, ProxyCardinality
  <2> HIDE DEF T
  <2> QED
    BY <1>1, <2>2
<1>4. PICK i \in T : TRUE
  BY <1>3
<1>5. PICK q \in points : i = Proxy!Id(q)
  BY <1>2
<1>6. Proxy!Key(q) = k
  BY <1>4, <1>5 DEF Proxy!Id, Proxy!Key
<1>7. q = p
  BY <1>6 DEF At
<1> QED
  BY <1>4, <1>5, <1>7

LEMMA ImportRepeats ==
  ASSUME NEW w \in Workbooks, NEW d, Distinct(d.points), DOMAIN d.frame = Proxy!FrameRows,
         NEW e \in Proxy!Imports(w, d)
  PROVE  e \in Proxy!Imports(w, e)
<1>1. PICK chosen \in Proxy!Chosen(w, Proxy!PointsAfter(w, d)) :
           /\ e = [people |-> Proxy!People(d), frame |-> ImportedFrame(d.frame),
                   items |-> Proxy!Items(w, d), projects |-> Proxy!ProjectsAfter(d),
                   attached |-> Proxy!Attached(d), points |-> Proxy!PointsAfter(w, d),
                   bound |-> d.bound \cup chosen, linked |-> Proxy!Linked(d, chosen),
                   duties |-> Proxy!Duties(w, d), itemStatus |-> Proxy!ItemStatus(w, d),
                   disclosed |-> Proxy!Disclosed(w, d), examples |-> d.examples]
           /\ e.people = Proxy!People(d) /\ e.frame = ImportedFrame(d.frame)
           /\ e.items = Proxy!Items(w, d) /\ e.projects = Proxy!ProjectsAfter(d)
           /\ e.attached = Proxy!Attached(d) /\ e.points = Proxy!PointsAfter(w, d)
           /\ e.bound = d.bound \cup chosen /\ e.linked = Proxy!Linked(d, chosen)
           /\ e.duties = Proxy!Duties(w, d) /\ e.itemStatus = Proxy!ItemStatus(w, d)
           /\ e.disclosed = Proxy!Disclosed(w, d) /\ e.examples = d.examples
  BY ImportIs
<1>2. Proxy!People(e) = Proxy!People(d)
  <2>1. \A a \in Proxy!Accounts : e.people[a] =
          IF a \in DOMAIN Staff THEN [active |-> TRUE, role |-> Staff[a]] ELSE d.people[a]
    BY <1>1 DEF Proxy!People
  <2> QED
    BY <2>1 DEF Proxy!People
<1>3. ImportedFrame(e.frame) = ImportedFrame(d.frame)
  BY <1>1, FrameIs
<1>4. Proxy!Items(w, e) = Proxy!Items(w, d)
  BY <1>1 DEF Proxy!Items
<1>5. Proxy!ProjectsAfter(e) = Proxy!ProjectsAfter(d)
  BY DEF Proxy!ProjectsAfter
<1>6. Proxy!Attached(e) = Proxy!Attached(d)
  BY <1>1 DEF Proxy!Attached
<1>7. Proxy!PointsAfter(w, e) = Proxy!PointsAfter(w, d)
  BY <1>1, PointsAgain
<1>8. e.bound \cup chosen = d.bound \cup chosen
  BY <1>1
<1>9. Proxy!Linked(e, chosen) = Proxy!Linked(d, chosen)
  BY <1>1 DEF Proxy!Linked
<1>10. Proxy!Duties(w, e) = Proxy!Duties(w, d)
  <2>1. \A c \in SheetCodes : e.duties[c] =
          IF <<ThisYear, c>> \in Proxy!Given(w)
          THEN [status |-> "completed", collector |-> "collector"] ELSE d.duties[c]
    BY <1>1 DEF Proxy!Duties
  <2> QED
    BY <2>1 DEF Proxy!Duties
<1>11. Proxy!ItemStatus(w, e) = Proxy!ItemStatus(w, d)
  <2>1. \A k \in Proxy!Keys : e.itemStatus[k] =
          IF k \in Proxy!Given(w) THEN "complete"
          ELSE IF k[2] \in Proxy!MetricsOf(w) THEN "not_applicable" ELSE d.itemStatus[k]
    BY <1>1 DEF Proxy!ItemStatus
  <2> QED
    BY <2>1 DEF Proxy!ItemStatus
<1>12. Proxy!Disclosed(w, e) = Proxy!Disclosed(w, d)
  <2>1. \A k \in Years \X Disclosures :
          {m \in w : m.disclosure = k[2]} = {} => e.disclosed[k] = d.disclosed[k]
    BY <1>1 DEF Proxy!Disclosed
  <2> QED
    BY <2>1 DEF Proxy!Disclosed
<1> DEFINE again(c) ==
      [people |-> Proxy!People(e), frame |-> ImportedFrame(e.frame),
       items |-> Proxy!Items(w, e), projects |-> Proxy!ProjectsAfter(e),
       attached |-> Proxy!Attached(e), points |-> Proxy!PointsAfter(w, e),
       bound |-> e.bound \cup c, linked |-> Proxy!Linked(e, c),
       duties |-> Proxy!Duties(w, e), itemStatus |-> Proxy!ItemStatus(w, e),
       disclosed |-> Proxy!Disclosed(w, e), examples |-> e.examples]
<1>13. e = again(chosen)
  BY <1>1, <1>2, <1>3, <1>4, <1>5, <1>6, <1>7, <1>8, <1>9, <1>10, <1>11, <1>12
<1>14. Proxy!Imports(w, e) = {again(c) : c \in Proxy!Chosen(w, Proxy!PointsAfter(w, e))}
  BY DEF Proxy!Imports, ImportedFrame
<1> HIDE DEF again
<1> QED
  BY <1>1, <1>7, <1>13, <1>14
-----------------------------------------------------------------------------
(* The invariant of the tables, and what an import restores.               *)

ProxyFields == {"people", "frame", "items", "projects", "attached", "points", "bound",
                "linked", "duties", "itemStatus", "disclosed", "examples"}
DutyStatuses == {"none", "completed", "assigned", "in_progress"}
\* Where an assignment is still to be begun, the mix has set it back.
DutyOk(post, c) ==
  /\ post = [status |-> post.status, collector |-> post.collector]
  /\ post.status \in DutyStatuses
  /\ post.status = "assigned" => c \in NotStarted
ProxyDb(d) ==
  /\ d = [f \in ProxyFields |-> d[f]]
  /\ Distinct(d.points)
  /\ d.bound \subseteq IdsOf(d.points) /\ d.linked \subseteq IdsOf(d.points)
  /\ \A k \in Proxy!Keys : d.itemStatus[k] \in {"none", "complete", "not_applicable"}
  /\ DOMAIN d.frame = Proxy!FrameRows
  /\ d.duties = [c \in SheetCodes |-> d.duties[c]]
  /\ \A c \in SheetCodes : DutyOk(d.duties[c], c)
ProxyInv == ProxyDb(db) /\ repairs \in 0..MaxRepairs

LEMMA ImportKeeps ==
  ASSUME NEW w \in Workbooks, NEW d, ProxyDb(d), NEW e \in Proxy!Imports(w, d)
  PROVE  ProxyDb(e)
<1>1. PICK chosen \in Proxy!Chosen(w, Proxy!PointsAfter(w, d)) :
           /\ e = [people |-> Proxy!People(d), frame |-> ImportedFrame(d.frame),
                   items |-> Proxy!Items(w, d), projects |-> Proxy!ProjectsAfter(d),
                   attached |-> Proxy!Attached(d), points |-> Proxy!PointsAfter(w, d),
                   bound |-> d.bound \cup chosen, linked |-> Proxy!Linked(d, chosen),
                   duties |-> Proxy!Duties(w, d), itemStatus |-> Proxy!ItemStatus(w, d),
                   disclosed |-> Proxy!Disclosed(w, d), examples |-> d.examples]
           /\ e.people = Proxy!People(d) /\ e.frame = ImportedFrame(d.frame)
           /\ e.items = Proxy!Items(w, d) /\ e.projects = Proxy!ProjectsAfter(d)
           /\ e.attached = Proxy!Attached(d) /\ e.points = Proxy!PointsAfter(w, d)
           /\ e.bound = d.bound \cup chosen /\ e.linked = Proxy!Linked(d, chosen)
           /\ e.duties = Proxy!Duties(w, d) /\ e.itemStatus = Proxy!ItemStatus(w, d)
           /\ e.disclosed = Proxy!Disclosed(w, d) /\ e.examples = d.examples
  BY ImportIs
<1>2. e = [f \in ProxyFields |-> e[f]]
  BY <1>1 DEF ProxyFields
<1>3. Distinct(e.points) /\ IdsOf(d.points) \subseteq IdsOf(e.points)
  BY <1>1, ImportDistinct DEF ProxyDb
<1>4. chosen \subseteq IdsOf(e.points)
  BY <1>1 DEF Proxy!Chosen, IdsOf
<1>5. e.bound \subseteq IdsOf(e.points) /\ e.linked \subseteq IdsOf(e.points)
  BY <1>1, <1>3, <1>4 DEF ProxyDb, Proxy!Linked
<1>6. \A k \in Proxy!Keys : e.itemStatus[k] \in {"none", "complete", "not_applicable"}
  BY <1>1 DEF ProxyDb, Proxy!ItemStatus
<1>7. DOMAIN e.frame = Proxy!FrameRows
  BY <1>1, FrameIs DEF ProxyDb
<1>8. /\ e.duties = [c \in SheetCodes |-> e.duties[c]]
      /\ \A c \in SheetCodes : e.duties[c] =
           IF <<ThisYear, c>> \in Proxy!Given(w)
           THEN [status |-> "completed", collector |-> "collector"] ELSE d.duties[c]
  BY <1>1 DEF Proxy!Duties
<1>9. ASSUME NEW c \in SheetCodes PROVE DutyOk(e.duties[c], c)
  <2>1. DutyOk(d.duties[c], c)
    BY DEF ProxyDb
  <2>2. DutyOk([status |-> "completed", collector |-> "collector"], c)
    BY DEF DutyOk, DutyStatuses
  <2> QED
    BY <1>8, <2>1, <2>2
<1> QED
  BY <1>2, <1>3, <1>5, <1>6, <1>7, <1>8, <1>9 DEF ProxyDb

\* What the import makes of a given key that has no two points.
LEMMA KeyRestored ==
  ASSUME NEW w \in Workbooks, NEW d, ProxyDb(d), NEW e \in Proxy!Imports(w, d),
         NEW k \in Proxy!Given(w), Proxy!Cardinality(Proxy!PointsAt(d, k)) < 2
  PROVE  \E p \in e.points :
           /\ Proxy!PointsAt(e, k) = {p} /\ p.value = Proxy!ValueAt(w, k)
           /\ p.status = "approved"
           /\ Proxy!Id(p) \in e.bound /\ p.code \in e.items
           /\ e.itemStatus[k] = "complete" /\ e.projects[p.year] # "review"
           /\ p.year = ThisYear =>
                Proxy!Id(p) \in e.linked /\ e.duties[p.code].status = "completed"
<1>1. PICK chosen \in Proxy!Chosen(w, Proxy!PointsAfter(w, d)) :
           /\ e.items = Proxy!Items(w, d) /\ e.projects = Proxy!ProjectsAfter(d)
           /\ e.points = Proxy!PointsAfter(w, d)
           /\ e.bound = d.bound \cup chosen /\ e.linked = Proxy!Linked(d, chosen)
           /\ e.duties = Proxy!Duties(w, d) /\ e.itemStatus = Proxy!ItemStatus(w, d)
  BY ImportIs
<1>2. Distinct(d.points) /\ Distinct(e.points)
  BY <1>1, ImportDistinct DEF ProxyDb
<1>3. Proxy!PointsAt(d, k) = At(d.points, k) /\ Proxy!PointsAt(e, k) = At(e.points, k)
  BY DEF Proxy!PointsAt, At
<1>4. At(d.points, k) = {} \/ \E p \in d.points : At(d.points, k) = {p}
  BY <1>2, <1>3, TwoAtMost
<1>5. PICK n \in 1..2 : At(e.points, k) = {Proxy!Imported(w, k, n)}
  <2>1. \A p \in d.points : p.nth \in 1..2
    BY <1>2 DEF Distinct, PointShape
  <2>2. 1 \in 1..2
    OBVIOUS
  <2> QED
    BY <1>1, <1>2, <1>4, <2>1, <2>2, ImportAt
<1> DEFINE p == Proxy!Imported(w, k, n)
<1>6. /\ Proxy!Key(p) = k /\ p.year = k[1] /\ p.code = k[2]
      /\ p.value = Proxy!ValueAt(w, k) /\ p.status = "approved"
  BY ImportedIs
<1>7. k \in Years \X SheetCodes /\ k[2] \in Proxy!MetricsOf(w) /\ k = <<k[1], k[2]>>
  BY GivenIs
<1>8. p \in e.points
  BY <1>5 DEF At
<1> HIDE DEF p
<1>9. Proxy!Id(p) \in chosen
  BY <1>1, <1>2, <1>5, ChosenHas DEF p
<1>10. Proxy!Id(p) \in e.bound /\ p.code \in e.items
  BY <1>1, <1>6, <1>7, <1>9 DEF Proxy!Items
<1>11. e.itemStatus[k] = "complete"
  BY <1>1, <1>7 DEF Proxy!ItemStatus, Proxy!Keys
<1>12. e.projects[p.year] # "review"
  BY <1>1, <1>6, <1>7 DEF Proxy!ProjectsAfter
<1>13. ASSUME p.year = ThisYear
       PROVE  Proxy!Id(p) \in e.linked /\ e.duties[p.code].status = "completed"
  <2>1. Proxy!Id(p)[1] = ThisYear
    BY <1>13 DEF Proxy!Id
  <2>2. <<ThisYear, p.code>> \in Proxy!Given(w) /\ p.code \in SheetCodes
    BY <1>6, <1>7, <1>13
  <2> QED
    BY <1>1, <1>9, <2>1, <2>2 DEF Proxy!Linked, Proxy!Duties
<1> QED
  BY <1>3, <1>5, <1>6, <1>8, <1>10, <1>11, <1>12, <1>13 DEF p

LEMMA Restores == ProxyInv => Proxy!ImportRestores
<1> SUFFICES ASSUME ProxyInv, NEW w \in Workbooks, NEW e \in Proxy!Imports(w, db)
    PROVE  /\ e \in Proxy!Imports(w, e)
           /\ \A k \in Proxy!Given(w) : Proxy!Cardinality(Proxy!PointsAt(db, k)) < 2 =>
                \E p \in e.points :
                  /\ Proxy!PointsAt(e, k) = {p} /\ p.value = Proxy!ValueAt(w, k)
                  /\ p.status = "approved"
                  /\ Proxy!Id(p) \in e.bound /\ p.code \in e.items
                  /\ e.itemStatus[k] = "complete" /\ e.projects[p.year] # "review"
                  /\ p.year = ThisYear =>
                       Proxy!Id(p) \in e.linked /\ e.duties[p.code].status = "completed"
           /\ \A p \in db.points : p.code \notin Proxy!MetricsOf(w) => p \in e.points
           /\ \A a \in DOMAIN Staff : e.people[a] = [active |-> TRUE, role |-> Staff[a]]
           /\ "changed" \notin {e.frame[f] : f \in Proxy!FrameRows}
  BY DEF Proxy!ImportRestores
<1>1. ProxyDb(db) /\ Distinct(db.points) /\ DOMAIN db.frame = Proxy!FrameRows
  BY DEF ProxyInv, ProxyDb
<1>2. /\ e.people = Proxy!People(db) /\ e.frame = ImportedFrame(db.frame)
      /\ e.points = Proxy!PointsAfter(w, db)
  BY ImportIs
<1>3. e \in Proxy!Imports(w, e)
  BY <1>1, ImportRepeats
<1>4. ASSUME NEW p \in db.points, p.code \notin Proxy!MetricsOf(w) PROVE p \in e.points
  <2> DEFINE k == Proxy!Key(p)
  <2>1. k[2] = p.code /\ p \in At(db.points, k)
    BY DEF Proxy!Key, At
  <2> HIDE DEF k
  <2>2. k \notin Proxy!Given(w)
    BY <1>4, <2>1, GivenIs
  <2>3. At(e.points, k) = At(db.points, k)
    BY <1>1, <1>2, <2>2, ImportAt DEF Untouched
  <2> QED
    BY <2>1, <2>3 DEF At
<1>5. \A a \in DOMAIN Staff : e.people[a] = [active |-> TRUE, role |-> Staff[a]]
  BY <1>2 DEF Proxy!People, Proxy!Accounts
<1>6. "changed" \notin {e.frame[f] : f \in Proxy!FrameRows}
  BY <1>1, <1>2, FrameIs
<1> QED
  BY <1>1, <1>3, <1>4, <1>5, <1>6, KeyRestored
-----------------------------------------------------------------------------
(***************************************************************************)
(* The mix of statuses.  It deletes the points of what is not started, and *)
(* makes one point of every other.                                         *)
(***************************************************************************)

Gone(d) == Proxy!RowsOf(d, NotStarted)
UnderWay(d) == Proxy!RowsOf(d, DOMAIN InProgress)
\* What the mix makes of a point that it does not delete.
MixOf(d, taken, p) ==
  IF p.year # ThisYear THEN p
  ELSE IF p \in taken THEN Proxy!SetBack(p)
  ELSE IF p \in UnderWay(d) THEN p
  ELSE [p EXCEPT !.status = "approved"]
MixedPoints(d, taken) ==
  {p \in d.points : p.year # ThisYear}
    \cup {Proxy!SetBack(p) : p \in taken} \cup (UnderWay(d) \ taken)
    \cup {[p EXCEPT !.status = "approved"] :
            p \in {q \in d.points : q.year = ThisYear} \ (Gone(d) \cup UnderWay(d))}

LEMMA SetBackIs ==
  ASSUME NEW p \in PointShape, p.code \in DOMAIN InProgress
  PROVE  LET q == Proxy!SetBack(p)
         IN /\ q \in PointShape /\ q.year = p.year /\ q.code = p.code /\ q.nth = p.nth
            /\ q.status = InProgress[p.code].status /\ q.status # "approved"
            /\ Proxy!Id(q) = Proxy!Id(p) /\ Proxy!SetBack(q) = q
<1> DEFINE st == InProgress[p.code].status
           cl == InProgress[p.code].clear
           r == [p EXCEPT !.status = st]
           q == Proxy!SetBack(p)
           v == IF cl THEN NoValue ELSE p.value
<1>1. /\ p = [year |-> p.year, code |-> p.code, nth |-> p.nth,
              value |-> p.value, status |-> p.status]
      /\ p.year \in Years /\ p.code \in SheetCodes /\ p.nth \in 1..2
      /\ p.value \in Proxy!Worth
  BY DEF PointShape
<1>2. st \in {"draft", "needs_revision"}
  BY ProxyFit DEF ProxyFit
<1>3. q = [year |-> p.year, code |-> p.code, nth |-> p.nth, value |-> v, status |-> st]
  <2>1. r = [year |-> p.year, code |-> p.code, nth |-> p.nth,
             value |-> p.value, status |-> st]
    BY <1>1
  <2>2. q = [r EXCEPT !.value = IF cl THEN NoValue ELSE @]
    BY DEF Proxy!SetBack
  <2> HIDE DEF r, st, cl
  <2> QED
    BY <2>1, <2>2
<1>4. v \in Proxy!Worth
  BY <1>1 DEF Proxy!Worth
<1> HIDE DEF q, st, v
<1>5. q \in PointShape /\ q.status # "approved"
  BY <1>1, <1>2, <1>3, <1>4 DEF PointShape
<1>6. Proxy!Id(q) = Proxy!Id(p)
  BY <1>3, IdTells
<1>7. Proxy!SetBack(q) = q
  <2>1. Proxy!SetBack(q) = [q EXCEPT !.status = st, !.value = IF cl THEN NoValue ELSE @]
    BY <1>3 DEF Proxy!SetBack, st
  <2> DEFINE s == [q EXCEPT !.status = st]
  <2>2. s = q
    BY <1>3
  <2>3. Proxy!SetBack(q) = [s EXCEPT !.value = IF cl THEN NoValue ELSE @]
    BY <2>1
  <2>4. cl => q.value = NoValue
    BY <1>3 DEF v
  <2> HIDE DEF cl, s
  <2>5. [q EXCEPT !.value = IF cl THEN NoValue ELSE @] = q
    BY <1>3, <2>4
  <2> QED
    BY <2>2, <2>3, <2>5
<1> QED
  BY <1>3, <1>5, <1>6, <1>7 DEF q, st

LEMMA ApprovedIs ==
  ASSUME NEW p \in PointShape
  PROVE  LET q == [p EXCEPT !.status = "approved"]
         IN /\ q \in PointShape /\ q.year = p.year /\ q.code = p.code /\ q.nth = p.nth
            /\ q.status = "approved" /\ Proxy!Id(q) = Proxy!Id(p)
            /\ [q EXCEPT !.status = "approved"] = q
<1> DEFINE q == [p EXCEPT !.status = "approved"]
<1>1. q = [year |-> p.year, code |-> p.code, nth |-> p.nth,
           value |-> p.value, status |-> "approved"]
  BY DEF PointShape
<1>2. q \in PointShape
  BY DEF PointShape
<1>3. q.year = p.year /\ q.code = p.code /\ q.nth = p.nth /\ q.status = "approved"
  BY <1>1
<1> HIDE DEF q
<1>4. Proxy!Id(q) = Proxy!Id(p)
  BY <1>3, IdTells
<1>5. [q EXCEPT !.status = "approved"] = q
  BY <1>1
<1> QED
  BY <1>2, <1>3, <1>4, <1>5 DEF q

LEMMA RowsAre ==
  \A d, codes, p : p \in Proxy!RowsOf(d, codes) <=>
    /\ p \in d.points /\ p.year = ThisYear
    /\ p.code \in codes /\ p.code \in Proxy!Assigned(d)
BY DEF Proxy!RowsOf

\* One step of the mix, point by point: it is MixOf over what is not deleted.
LEMMA MixPoints ==
  ASSUME NEW d, Distinct(d.points), NEW taken \in Proxy!Taken(d)
  PROVE  /\ MixedPoints(d, taken) = {MixOf(d, taken, p) : p \in d.points \ Gone(d)}
         /\ taken \subseteq UnderWay(d)
         /\ \A p \in d.points :
              LET q == MixOf(d, taken, p)
              IN q \in PointShape /\ Proxy!Id(q) = Proxy!Id(p)
                 /\ q.year = p.year /\ q.code = p.code
<1>1. /\ taken \subseteq UnderWay(d)
      /\ \A p \in UnderWay(d) : /\ p \in d.points /\ p.year = ThisYear
                               /\ p.code \in DOMAIN InProgress
      /\ \A p \in Gone(d) : p \in d.points /\ p.year = ThisYear /\ p.code \in NotStarted
  BY RowsAre DEF Proxy!Taken, UnderWay, Gone
<1>2. \A p \in d.points : p \in PointShape
  BY DEF Distinct
<1>3. DOMAIN InProgress \cap NotStarted = {}
  BY ProxyFit DEF ProxyFit
<1> DEFINE all == {MixOf(d, taken, p) : p \in d.points \ Gone(d)}
<1>4. ASSUME NEW x \in MixedPoints(d, taken) PROVE x \in all
  <2>1. CASE x \in d.points /\ x.year # ThisYear
    <3>1. MixOf(d, taken, x) = x /\ x \notin Gone(d)
      BY <1>1, <2>1 DEF MixOf
    <3> QED
      BY <2>1, <3>1
  <2>2. CASE x \in {Proxy!SetBack(p) : p \in taken}
    <3>1. PICK p \in taken : x = Proxy!SetBack(p)
      BY <2>2
    <3>2. MixOf(d, taken, p) = x /\ p \notin Gone(d) /\ p \in d.points
      BY <1>1, <1>3, <3>1 DEF MixOf
    <3> QED
      BY <3>2
  <2>3. CASE x \in UnderWay(d) \ taken
    <3>1. MixOf(d, taken, x) = x /\ x \notin Gone(d) /\ x \in d.points
      BY <1>1, <1>3, <2>3 DEF MixOf
    <3> QED
      BY <3>1
  <2>4. CASE x \in {[p EXCEPT !.status = "approved"] :
                     p \in {q \in d.points : q.year = ThisYear} \ (Gone(d) \cup UnderWay(d))}
    <3>1. PICK p \in {q \in d.points : q.year = ThisYear} \ (Gone(d) \cup UnderWay(d)) :
            x = [p EXCEPT !.status = "approved"]
      BY <2>4
    <3>2. MixOf(d, taken, p) = x
      BY <1>1, <3>1 DEF MixOf
    <3> QED
      BY <3>1, <3>2
  <2> QED
    BY <2>1, <2>2, <2>3, <2>4 DEF MixedPoints
<1>5. ASSUME NEW p \in d.points \ Gone(d) PROVE MixOf(d, taken, p) \in MixedPoints(d, taken)
  BY <1>1, <1>5 DEF MixOf, MixedPoints
<1>6. ASSUME NEW p \in d.points
      PROVE  LET q == MixOf(d, taken, p)
             IN q \in PointShape /\ Proxy!Id(q) = Proxy!Id(p)
                /\ q.year = p.year /\ q.code = p.code
  <2>1. p \in PointShape /\ (p \in taken => p.code \in DOMAIN InProgress)
    BY <1>1, <1>2
  <2>2. CASE MixOf(d, taken, p) = p
    BY <2>1, <2>2
  <2>3. CASE p \in taken /\ MixOf(d, taken, p) = Proxy!SetBack(p)
    BY <2>1, <2>3, SetBackIs
  <2>4. CASE MixOf(d, taken, p) = [p EXCEPT !.status = "approved"]
    BY <2>1, <2>4, ApprovedIs
  <2> QED
    BY <2>2, <2>3, <2>4 DEF MixOf
<1> QED
  BY <1>1, <1>4, <1>5, <1>6

LEMMA MixDistinct ==
  ASSUME NEW d, Distinct(d.points), NEW taken \in Proxy!Taken(d)
  PROVE  Distinct(MixedPoints(d, taken))
<1> DEFINE Q == MixedPoints(d, taken)
<1>1. \A x \in Q : \E p \in d.points :
        x = MixOf(d, taken, p) /\ x \in PointShape /\ Proxy!Id(x) = Proxy!Id(p)
  BY MixPoints
<1> HIDE DEF Q
<1>2. ASSUME NEW x \in Q, NEW y \in Q, Proxy!Id(x) = Proxy!Id(y) PROVE x = y
  <2>1. PICK p \in d.points : x = MixOf(d, taken, p) /\ Proxy!Id(x) = Proxy!Id(p)
    BY <1>1
  <2>2. PICK q \in d.points : y = MixOf(d, taken, q) /\ Proxy!Id(y) = Proxy!Id(q)
    BY <1>1
  <2>3. p = q
    BY <1>2, <2>1, <2>2 DEF Distinct
  <2> QED
    BY <2>1, <2>2, <2>3
<1>3. Q \subseteq PointShape
  BY <1>1
<1> QED
  BY <1>2, <1>3 DEF Distinct, Q
-----------------------------------------------------------------------------
(* The tables after the mix.                                               *)

CodesOf(points) == {p.code : p \in points}

\* ensure_user touches the accounts alone.
LEMMA HiredIs ==
  ASSUME NEW d, d = [f \in ProxyFields |-> d[f]]
  PROVE  LET h == Proxy!Hired(d)
         IN /\ h = [f \in ProxyFields |-> h[f]]
            /\ \A f \in ProxyFields \ {"people"} : h[f] = d[f]
            /\ h.points = d.points /\ h.bound = d.bound /\ h.linked = d.linked
            /\ h.duties = d.duties /\ h.frame = d.frame /\ h.itemStatus = d.itemStatus
            /\ h.people = [a \in Proxy!Accounts |-> IF a \in Collectors
                             THEN [active |-> TRUE, role |-> "collector"] ELSE d.people[a]]
            /\ Proxy!Assigned(h) = Proxy!Assigned(d)
            /\ \A codes : Proxy!RowsOf(h, codes) = Proxy!RowsOf(d, codes)
<1> DEFINE h == Proxy!Hired(d)
           hired == [a \in Proxy!Accounts |-> IF a \in Collectors
                       THEN [active |-> TRUE, role |-> "collector"] ELSE d.people[a]]
<1>1. h = [d EXCEPT !.people = hired]
  BY DEF Proxy!Hired
<1> HIDE DEF h, hired
<1>2. h = [f \in ProxyFields |-> IF f = "people" THEN hired ELSE d[f]]
  BY <1>1 DEF ProxyFields
<1>3. /\ h = [f \in ProxyFields |-> h[f]]
      /\ \A f \in ProxyFields \ {"people"} : h[f] = d[f]
      /\ h.people = hired
  BY <1>2 DEF ProxyFields
<1>4. /\ h.points = d.points /\ h.bound = d.bound /\ h.linked = d.linked
      /\ h.duties = d.duties /\ h.frame = d.frame /\ h.itemStatus = d.itemStatus
  BY <1>3 DEF ProxyFields
<1>5. Proxy!Assigned(h) = Proxy!Assigned(d)
  BY <1>4 DEF Proxy!Assigned
<1>6. ASSUME NEW codes PROVE Proxy!RowsOf(h, codes) = Proxy!RowsOf(d, codes)
  BY <1>4, <1>5 DEF Proxy!RowsOf
<1> QED
  BY <1>3, <1>4, <1>5, <1>6 DEF h, hired

\* The fields after a mix.
AfterMix(d, taken, who, e) ==
  LET ids == IdsOf(MixedPoints(d, taken))
  IN /\ e = [f \in ProxyFields |-> e[f]]
     /\ \A f \in ProxyFields \ {"people", "points", "bound", "linked", "duties"} :
          e[f] = d[f]
     /\ e.people = Proxy!Hired(d).people
     /\ e.points = MixedPoints(d, taken) /\ e.bound = d.bound \cap ids
     /\ e.linked = (d.linked \cap ids) \ IdsOf({q \in taken : InProgress[q.code].unlink})
     /\ e.duties = [c \in SheetCodes |-> e.duties[c]]
DutiesAfterMix(d, taken, who, e) ==
  \A c \in SheetCodes :
    /\ c \notin Proxy!Assigned(d) => e.duties[c] = Proxy!NoDuty
    /\ c \in Proxy!Assigned(d) /\ c \in NotStarted =>
         e.duties[c] = [status |-> "assigned", collector |-> who[c]]
    /\ c \in Proxy!Assigned(d) /\ c \in DOMAIN InProgress =>
         e.duties[c] = IF c \in CodesOf(taken)
                       THEN [status |-> "in_progress", collector |-> who[c]]
                       ELSE d.duties[c]
    /\ /\ c \in Proxy!Assigned(d)
       /\ c \notin NotStarted /\ c \notin DOMAIN InProgress
       => e.duties[c] = [status |-> "completed", collector |-> "none"]

LEMMA MixIs ==
  ASSUME NEW d, d = [f \in ProxyFields |-> d[f]], NEW taken \in Proxy!Taken(d), NEW who
  PROVE  LET e == Proxy!Mixed(Proxy!Hired(d), taken, who)
         IN AfterMix(d, taken, who, e) /\ DutiesAfterMix(d, taken, who, e)
<1> DEFINE h == Proxy!Hired(d)
           e == Proxy!Mixed(h, taken, who)
           points == MixedPoints(d, taken)
           ids == IdsOf(points)
           linked2 == (d.linked \cap ids) \ IdsOf({q \in taken : InProgress[q.code].unlink})
           bound2 == d.bound \cap ids
           duties2 == [c \in SheetCodes |->
             CASE c \notin Proxy!Assigned(d) -> Proxy!NoDuty
               [] c \in Proxy!Assigned(d) \cap NotStarted ->
                    [status |-> "assigned", collector |-> who[c]]
               [] c \in Proxy!Assigned(d) \cap DOMAIN InProgress ->
                    IF c \in CodesOf(taken)
                    THEN [status |-> "in_progress", collector |-> who[c]] ELSE d.duties[c]
               [] OTHER -> [status |-> "completed", collector |-> "none"]]
<1>1. /\ h = [f \in ProxyFields |-> h[f]]
      /\ \A f \in ProxyFields \ {"people"} : h[f] = d[f]
      /\ h.points = d.points /\ h.bound = d.bound /\ h.linked = d.linked
      /\ h.duties = d.duties
      /\ Proxy!Assigned(h) = Proxy!Assigned(d)
      /\ \A codes : Proxy!RowsOf(h, codes) = Proxy!RowsOf(d, codes)
  BY HiredIs
<1> HIDE DEF h
<1>2. e = [h EXCEPT !.points = points, !.bound = h.bound \cap ids,
                    !.linked = (h.linked \cap ids)
                                 \ IdsOf({q \in taken : InProgress[q.code].unlink}),
                    !.duties = [c \in SheetCodes |->
             CASE c \notin Proxy!Assigned(h) -> Proxy!NoDuty
               [] c \in Proxy!Assigned(h) \cap NotStarted ->
                    [status |-> "assigned", collector |-> who[c]]
               [] c \in Proxy!Assigned(h) \cap DOMAIN InProgress ->
                    IF c \in CodesOf(taken)
                    THEN [status |-> "in_progress", collector |-> who[c]] ELSE h.duties[c]
               [] OTHER -> [status |-> "completed", collector |-> "none"]]]
  <2>1. points = {p \in h.points : p.year # ThisYear}
                   \cup {Proxy!SetBack(p) : p \in taken}
                   \cup (Proxy!RowsOf(h, DOMAIN InProgress) \ taken)
                   \cup {[p EXCEPT !.status = "approved"] :
                          p \in {q \in h.points : q.year = ThisYear}
                                  \ (Proxy!RowsOf(h, NotStarted)
                                       \cup Proxy!RowsOf(h, DOMAIN InProgress))}
    BY <1>1 DEF MixedPoints, Gone, UnderWay
  <2> HIDE DEF points
  <2> QED
    BY <2>1 DEF Proxy!Mixed, IdsOf, CodesOf
<1>3. e = [h EXCEPT !.points = points, !.bound = bound2, !.linked = linked2,
                    !.duties = duties2]
  <2> DEFINE bound1 == h.bound \cap ids
             linked1 == (h.linked \cap ids)
                          \ IdsOf({q \in taken : InProgress[q.code].unlink})
             duties1 == [c \in SheetCodes |->
               CASE c \notin Proxy!Assigned(h) -> Proxy!NoDuty
                 [] c \in Proxy!Assigned(h) \cap NotStarted ->
                      [status |-> "assigned", collector |-> who[c]]
                 [] c \in Proxy!Assigned(h) \cap DOMAIN InProgress ->
                      IF c \in CodesOf(taken)
                      THEN [status |-> "in_progress", collector |-> who[c]] ELSE h.duties[c]
                 [] OTHER -> [status |-> "completed", collector |-> "none"]]
  <2>1. e = [h EXCEPT !.points = points, !.bound = bound1, !.linked = linked1,
                      !.duties = duties1]
    BY <1>2
  <2>2. bound1 = bound2 /\ linked1 = linked2
    BY <1>1
  <2>3. duties1 = duties2
    BY <1>1
  <2> HIDE DEF e, points, bound1, bound2, linked1, linked2, duties1, duties2
  <2> QED
    BY <2>1, <2>2, <2>3
<1> HIDE DEF e, points, bound2, linked2, duties2
<1>4. e = [f \in ProxyFields |->
             IF f = "points" THEN points ELSE IF f = "bound" THEN bound2
             ELSE IF f = "linked" THEN linked2 ELSE IF f = "duties" THEN duties2 ELSE h[f]]
  <2> DEFINE e1 == [h EXCEPT !.points = points]
             e2 == [e1 EXCEPT !.bound = bound2]
             e3 == [e2 EXCEPT !.linked = linked2]
             e4 == [e3 EXCEPT !.duties = duties2]
  <2>1. e = e4
    BY <1>3
  <2>2. e1 = [f \in ProxyFields |-> IF f = "points" THEN points ELSE h[f]]
    BY <1>1 DEF ProxyFields
  <2> HIDE DEF e1
  <2>3. e2 = [f \in ProxyFields |-> IF f = "bound" THEN bound2 ELSE e1[f]]
    BY <2>2 DEF ProxyFields
  <2> HIDE DEF e2
  <2>4. e3 = [f \in ProxyFields |-> IF f = "linked" THEN linked2 ELSE e2[f]]
    BY <2>3 DEF ProxyFields
  <2> HIDE DEF e3
  <2>5. e4 = [f \in ProxyFields |-> IF f = "duties" THEN duties2 ELSE e3[f]]
    BY <2>4 DEF ProxyFields
  <2> HIDE DEF e4
  <2> QED
    BY <2>1, <2>2, <2>3, <2>4, <2>5
<1>5. /\ e = [f \in ProxyFields |-> e[f]]
      /\ \A f \in ProxyFields \ {"people", "points", "bound", "linked", "duties"} : e[f] = d[f]
      /\ e.people = h.people
      /\ e.points = points /\ e.bound = bound2 /\ e.linked = linked2 /\ e.duties = duties2
  BY <1>1, <1>4 DEF ProxyFields
<1>6. /\ duties2 = [c \in SheetCodes |-> duties2[c]]
      /\ \A c \in SheetCodes :
           /\ c \notin Proxy!Assigned(d) => duties2[c] = Proxy!NoDuty
           /\ c \in Proxy!Assigned(d) /\ c \in NotStarted =>
                duties2[c] = [status |-> "assigned", collector |-> who[c]]
           /\ c \in Proxy!Assigned(d) /\ c \in DOMAIN InProgress =>
                duties2[c] = IF c \in CodesOf(taken)
                              THEN [status |-> "in_progress", collector |-> who[c]]
                              ELSE d.duties[c]
           /\ /\ c \in Proxy!Assigned(d)
              /\ c \notin NotStarted /\ c \notin DOMAIN InProgress
              => duties2[c] = [status |-> "completed", collector |-> "none"]
  BY ProxyFit DEF ProxyFit, duties2
<1> QED
  <2>1. AfterMix(d, taken, who, e)
    BY <1>5, <1>6 DEF AfterMix, h, points, bound2, linked2
  <2>2. DutiesAfterMix(d, taken, who, e)
    BY <1>5, <1>6 DEF DutiesAfterMix
  <2> QED
    BY <2>1, <2>2 DEF e, h

LEMMA MixKeeps ==
  ASSUME NEW d, ProxyDb(d), NEW taken \in Proxy!Taken(d), NEW who
  PROVE  /\ ProxyDb(Proxy!Mixed(Proxy!Hired(d), taken, who))
         /\ Proxy!Assigned(Proxy!Mixed(Proxy!Hired(d), taken, who)) = Proxy!Assigned(d)
<1> DEFINE e == Proxy!Mixed(Proxy!Hired(d), taken, who)
           ids == IdsOf(MixedPoints(d, taken))
<1>0. d = [f \in ProxyFields |-> d[f]]
  BY DEF ProxyDb
<1>2. AfterMix(d, taken, who, e) /\ DutiesAfterMix(d, taken, who, e)
  BY <1>0, MixIs
<1> HIDE DEF e
<1>1. /\ e = [f \in ProxyFields |-> e[f]]
      /\ e.itemStatus = d.itemStatus /\ e.frame = d.frame
      /\ e.points = MixedPoints(d, taken) /\ e.bound = d.bound \cap ids
      /\ e.linked \subseteq ids
      /\ e.duties = [c \in SheetCodes |-> e.duties[c]]
  BY <1>2 DEF AfterMix, ProxyFields
<1>3. ASSUME NEW c \in SheetCodes
      PROVE  /\ DutyOk(e.duties[c], c)
             /\ e.duties[c] # Proxy!NoDuty <=> d.duties[c] # Proxy!NoDuty
  <2>1. c \in Proxy!Assigned(d) <=> d.duties[c] # Proxy!NoDuty
    BY DEF Proxy!Assigned
  <2>2. DutyOk(d.duties[c], c)
    BY DEF ProxyDb
  <2>3. CASE c \notin Proxy!Assigned(d)
    <3>1. DutyOk(Proxy!NoDuty, c)
      BY DEF Proxy!NoDuty, DutyOk, DutyStatuses
    <3> QED
      BY <1>2, <2>1, <2>3, <3>1 DEF DutiesAfterMix
  <2>4. CASE c \in Proxy!Assigned(d) /\ c \in NotStarted
    <3> DEFINE n == [status |-> "assigned", collector |-> who[c]]
    <3>1. DutyOk(n, c) /\ n # Proxy!NoDuty
      BY <2>4 DEF Proxy!NoDuty, DutyOk, DutyStatuses
    <3> HIDE DEF n
    <3> QED
      BY <1>2, <2>1, <2>4, <3>1 DEF n, DutiesAfterMix
  <2>5. CASE c \in Proxy!Assigned(d) /\ c \in DOMAIN InProgress
    <3> DEFINE n == [status |-> "in_progress", collector |-> who[c]]
    <3>1. DutyOk(n, c) /\ n # Proxy!NoDuty
      BY DEF Proxy!NoDuty, DutyOk, DutyStatuses
    <3>2. e.duties[c] = n \/ e.duties[c] = d.duties[c]
      BY <1>2, <2>5 DEF DutiesAfterMix
    <3> HIDE DEF n
    <3> QED
      BY <2>1, <2>2, <2>5, <3>1, <3>2
  <2>6. CASE c \in Proxy!Assigned(d) /\ c \notin NotStarted /\ c \notin DOMAIN InProgress
    <3> DEFINE n == [status |-> "completed", collector |-> "none"]
    <3>1. DutyOk(n, c) /\ n # Proxy!NoDuty
      BY DEF Proxy!NoDuty, DutyOk, DutyStatuses
    <3>2. e.duties[c] = n
      BY <1>2, <2>6 DEF DutiesAfterMix
    <3> HIDE DEF n
    <3> QED
      BY <2>1, <2>6, <3>1, <3>2
  <2> QED
    BY <2>3, <2>4, <2>5, <2>6
<1>4. Distinct(e.points)
  BY <1>1, MixDistinct DEF ProxyDb
<1>5. Proxy!Assigned(e) = Proxy!Assigned(d)
  BY <1>3 DEF Proxy!Assigned
<1> QED
  BY <1>1, <1>3, <1>4, <1>5 DEF ProxyDb, e
-----------------------------------------------------------------------------
(* The mix again, and the story it tells.                                  *)

LEMMA MixShape ==
  ASSUME NEW d, Distinct(d.points), NEW taken \in Proxy!Taken(d),
         NEW e, e.points = MixedPoints(d, taken), Proxy!Assigned(e) = Proxy!Assigned(d)
  PROVE  /\ Gone(e) = {}
         /\ UnderWay(e) = {Proxy!SetBack(p) : p \in taken} \cup (UnderWay(d) \ taken)
         /\ \A q \in e.points :
              q.year = ThisYear /\ q \notin UnderWay(e) => q.status = "approved"
         /\ CodesOf(UnderWay(e)) = CodesOf(taken)
<1> DEFINE back == {Proxy!SetBack(p) : p \in taken}
<1>1. /\ taken \subseteq UnderWay(d)
      /\ \A p \in UnderWay(d) : /\ p \in d.points /\ p.year = ThisYear /\ p \in PointShape
                                /\ p.code \in DOMAIN InProgress
                                /\ p.code \in Proxy!Assigned(d) /\ p.code \notin NotStarted
  BY RowsAre, ProxyFit DEF Proxy!Taken, UnderWay, ProxyFit, Distinct
<1>2. ASSUME NEW q \in e.points
      PROVE  \E p \in d.points \ Gone(d) :
               q = MixOf(d, taken, p) /\ q.year = p.year /\ q.code = p.code
                 /\ q \in PointShape
  BY MixPoints
<1>3. ASSUME NEW p \in taken
      PROVE  /\ Proxy!SetBack(p) \in e.points /\ Proxy!SetBack(p).year = ThisYear
             /\ Proxy!SetBack(p).code = p.code
  BY <1>1, SetBackIs DEF MixedPoints
<1>4. \A p \in UnderWay(d) \ taken : p \in e.points
  BY DEF MixedPoints
<1>5. Gone(e) = {}
  <2> SUFFICES ASSUME NEW q \in Gone(e) PROVE FALSE
    OBVIOUS
  <2>1. q \in e.points /\ q.year = ThisYear /\ q.code \in NotStarted
        /\ q.code \in Proxy!Assigned(d)
    BY RowsAre DEF Gone
  <2>2. PICK p \in d.points \ Gone(d) : q.year = p.year /\ q.code = p.code
    BY <1>2, <2>1
  <2> QED
    BY <2>1, <2>2, RowsAre DEF Gone
<1>6. ASSUME NEW q \in UnderWay(e) PROVE q \in back \cup (UnderWay(d) \ taken)
  <2>1. q \in e.points /\ q.year = ThisYear /\ q.code \in DOMAIN InProgress
        /\ q.code \in Proxy!Assigned(d)
    BY RowsAre DEF UnderWay
  <2>2. PICK p \in d.points : q = MixOf(d, taken, p) /\ q.year = p.year /\ q.code = p.code
    BY <1>2, <2>1
  <2>3. p \in UnderWay(d)
    BY <2>1, <2>2, RowsAre DEF UnderWay
  <2> QED
    BY <1>1, <2>2, <2>3 DEF MixOf
<1>7. ASSUME NEW q \in back \cup (UnderWay(d) \ taken) PROVE q \in UnderWay(e)
  <2>1. CASE q \in back
    <3>1. PICK p \in taken : q = Proxy!SetBack(p)
      BY <2>1
    <3> QED
      BY <1>1, <1>3, <3>1, RowsAre DEF UnderWay
  <2>2. CASE q \in UnderWay(d) \ taken
    <3>1. q \in e.points
      BY <1>4, <2>2
    <3> QED
      BY <1>1, <2>2, <3>1, RowsAre DEF UnderWay
  <2> QED
    BY <1>7, <2>1, <2>2
<1>8. ASSUME NEW q \in e.points, q.year = ThisYear, q \notin UnderWay(e)
      PROVE  q.status = "approved"
  <2>1. PICK p \in d.points \ Gone(d) : q = MixOf(d, taken, p) /\ q.year = p.year
    BY <1>2
  <2>2. p \notin taken
    BY <1>1, <1>7, <1>8, <2>1 DEF MixOf
  <2>3. p \notin UnderWay(d)
    BY <1>1, <1>7, <1>8, <2>1, <2>2 DEF MixOf
  <2>4. q = [p EXCEPT !.status = "approved"] /\ p \in PointShape
    BY <1>8, <2>1, <2>2, <2>3 DEF MixOf, Distinct
  <2> QED
    BY <2>4, ApprovedIs
<1>9. CodesOf(UnderWay(e)) \subseteq CodesOf(taken)
  <2> SUFFICES ASSUME NEW q \in UnderWay(e) PROVE q.code \in CodesOf(taken)
    BY DEF CodesOf
  <2>1. CASE q \in back
    BY <1>3, <2>1 DEF CodesOf
  <2>2. CASE q \in UnderWay(d)
    <3> DEFINE T == {p \in taken : p.code = q.code}
    <3>1. Proxy!Cardinality(T) = 1
      BY <2>2 DEF Proxy!Taken, UnderWay
    <3>2. Proxy!Cardinality({}) = 0
      BY FS_EmptySet, ProxyCardinality
    <3> HIDE DEF T
    <3>3. T # {}
      BY <3>1, <3>2
    <3> QED
      BY <3>3 DEF T, CodesOf
  <2> QED
    BY <1>6, <2>1, <2>2
<1>10. CodesOf(taken) \subseteq CodesOf(UnderWay(e))
  <2> SUFFICES ASSUME NEW p \in taken PROVE p.code \in CodesOf(UnderWay(e))
    BY DEF CodesOf
  <2>1. Proxy!SetBack(p) \in UnderWay(e)
    BY <1>7
  <2> QED
    BY <1>3, <2>1 DEF CodesOf
<1> QED
  BY <1>5, <1>6, <1>7, <1>8, <1>9, <1>10

\* Of the points of a metric in progress one was taken.
LEMMA OneTaken ==
  ASSUME NEW d, Distinct(d.points), NEW taken \in Proxy!Taken(d), NEW c \in CodesOf(UnderWay(d))
  PROVE  \E p \in taken : {q \in taken : q.code = c} = {p}
<1> DEFINE T == {q \in taken : q.code = c}
<1>1. Proxy!Cardinality(T) = 1
  BY DEF Proxy!Taken, UnderWay, CodesOf
<1>2. T \subseteq At(d.points, <<ThisYear, c>>)
  BY RowsAre DEF Proxy!Taken, At, Proxy!Key
<1>3. \E p \in T : T = {p}
  BY <1>1, <1>2, OneOfKey
<1> QED
  BY <1>3

LEMMA TakenAgain ==
  ASSUME NEW d, Distinct(d.points), NEW taken \in Proxy!Taken(d),
         NEW e, e.points = MixedPoints(d, taken), Proxy!Assigned(e) = Proxy!Assigned(d)
  PROVE  {Proxy!SetBack(p) : p \in taken} \in Proxy!Taken(e)
<1> DEFINE back == {Proxy!SetBack(p) : p \in taken}
<1>1. /\ back \subseteq UnderWay(e) /\ CodesOf(UnderWay(e)) = CodesOf(taken)
      /\ Distinct(e.points)
  BY MixShape, MixDistinct
<1>2. \A p \in taken : p \in UnderWay(d) /\ p \in PointShape /\ p.code \in DOMAIN InProgress
  BY RowsAre DEF Proxy!Taken, UnderWay, Distinct
<1>3. \A p \in taken : Proxy!SetBack(p).code = p.code
  BY <1>2, SetBackIs
<1>4. ASSUME NEW c \in CodesOf(UnderWay(e))
      PROVE  Proxy!Cardinality({q \in back : q.code = c}) = 1
  <2>1. c \in CodesOf(UnderWay(d))
    BY <1>1, <1>2 DEF CodesOf
  <2>2. PICK p \in taken : {q \in taken : q.code = c} = {p}
    BY <2>1, OneTaken
  <2>3. {q \in back : q.code = c} = {Proxy!SetBack(p)}
    BY <1>3, <2>2
  <2>4. {q \in back : q.code = c} \subseteq At(e.points, <<ThisYear, c>>)
    <3>1. \A q \in back : q \in e.points /\ q.year = ThisYear
      BY <1>1, RowsAre DEF UnderWay
    <3> HIDE DEF back
    <3> QED
      BY <3>1 DEF At, Proxy!Key
  <2> HIDE DEF back
  <2> QED
    BY <1>1, <2>3, <2>4, OneOfKey
<1> QED
  BY <1>1, <1>4 DEF Proxy!Taken, UnderWay, CodesOf

LEMMA MixAgain ==
  ASSUME NEW d, ProxyDb(d), NEW taken \in Proxy!Taken(d), NEW who \in Proxy!Shares
  PROVE  Proxy!Mixed(Proxy!Hired(d), taken, who)
           \in Proxy!Mixes(Proxy!Mixed(Proxy!Hired(d), taken, who))
<1> DEFINE e == Proxy!Mixed(Proxy!Hired(d), taken, who)
           back == {Proxy!SetBack(p) : p \in taken}
           e2 == Proxy!Mixed(Proxy!Hired(e), back, who)
<1>1. d = [f \in ProxyFields |-> d[f]] /\ Distinct(d.points)
  BY DEF ProxyDb
<1>2. AfterMix(d, taken, who, e) /\ DutiesAfterMix(d, taken, who, e)
  BY <1>1, MixIs
<1>3. Proxy!Assigned(e) = Proxy!Assigned(d) /\ ProxyDb(e)
  BY MixKeeps
<1> HIDE DEF e
<1>4. /\ e = [f \in ProxyFields |-> e[f]] /\ e.points = MixedPoints(d, taken)
      /\ Distinct(e.points)
  BY <1>2, <1>3 DEF AfterMix, ProxyDb
<1>5. back \in Proxy!Taken(e)
  BY <1>1, <1>3, <1>4, TakenAgain
<1>6. /\ Gone(e) = {} /\ UnderWay(e) = back \cup (UnderWay(d) \ taken)
      /\ \A q \in e.points :
           q.year = ThisYear /\ q \notin UnderWay(e) => q.status = "approved"
  BY <1>1, <1>3, <1>4, MixShape
<1>7. ASSUME NEW p \in taken
      PROVE  LET q == Proxy!SetBack(p)
             IN Proxy!SetBack(q) = q /\ q.code = p.code /\ Proxy!Id(q) = Proxy!Id(p)
  <2>1. p \in PointShape /\ p.code \in DOMAIN InProgress
    BY <1>1, RowsAre DEF Proxy!Taken, Distinct
  <2> QED
    BY <2>1, SetBackIs
<1>8. AfterMix(e, back, who, e2) /\ DutiesAfterMix(e, back, who, e2)
  BY <1>4, <1>5, MixIs
<1> HIDE DEF e2
<1>9. ASSUME NEW q \in e.points PROVE MixOf(e, back, q) = q
  <2>1. CASE q \in back
    BY <1>7, <2>1 DEF MixOf
  <2>2. CASE q \notin back /\ q.year = ThisYear /\ q \notin UnderWay(e)
    <3>1. q.status = "approved" /\ q \in PointShape
      BY <1>4, <1>6, <2>2 DEF Distinct
    <3>2. [q EXCEPT !.status = "approved"] = q
      BY <3>1 DEF PointShape
    <3> QED
      BY <2>2, <3>2 DEF MixOf
  <2> HIDE DEF back
  <2> QED
    BY <2>1, <2>2 DEF MixOf
<1>10. MixedPoints(e, back) = e.points
  <2>1. MixedPoints(e, back) = {MixOf(e, back, q) : q \in e.points \ Gone(e)}
    BY <1>4, <1>5, MixPoints
  <2> HIDE DEF back
  <2>2. {MixOf(e, back, q) : q \in e.points \ Gone(e)} = {q : q \in e.points}
    BY <1>6, <1>9
  <2> QED
    BY <2>1, <2>2
<1>11. e2.points = e.points
  BY <1>8, <1>10 DEF AfterMix
<1>12. e2.bound = e.bound
  BY <1>2, <1>4, <1>8, <1>10 DEF AfterMix
<1>13. e2.linked = e.linked
  <2> DEFINE cut == IdsOf({q \in taken : InProgress[q.code].unlink})
             cut2 == IdsOf({q \in back : InProgress[q.code].unlink})
  <2>1. cut2 \subseteq cut
    <3> SUFFICES ASSUME NEW x \in cut2 PROVE x \in cut
      OBVIOUS
    <3>1. PICK q \in back : InProgress[q.code].unlink /\ x = Proxy!Id(q)
      BY DEF IdsOf
    <3>2. PICK p \in taken : q = Proxy!SetBack(p)
      BY <3>1
    <3>3. q.code = p.code /\ Proxy!Id(q) = Proxy!Id(p)
      BY <1>7, <3>2
    <3> QED
      BY <3>1, <3>3 DEF IdsOf
  <2> HIDE DEF cut, cut2
  <2>2. e.linked = (d.linked \cap IdsOf(e.points)) \ cut
    BY <1>2, <1>4 DEF AfterMix, cut
  <2>3. e2.linked = (e.linked \cap IdsOf(e.points)) \ cut2
    BY <1>8, <1>10 DEF AfterMix, cut2
  <2> QED
    BY <2>1, <2>2, <2>3
<1>14. CodesOf(back) = CodesOf(taken)
  <2>1. \A p \in taken : Proxy!SetBack(p).code = p.code
    BY <1>7
  <2> QED
    BY <2>1 DEF CodesOf
<1>15. ASSUME NEW c \in SheetCodes PROVE e2.duties[c] = e.duties[c]
  <2> HIDE DEF back
  <2>1. c \in Proxy!Assigned(e) <=> c \in Proxy!Assigned(d)
    BY <1>3
  <2>2. CASE c \notin Proxy!Assigned(d)
    BY <1>2, <1>8, <2>1, <2>2 DEF DutiesAfterMix
  <2>3. CASE c \in Proxy!Assigned(d) /\ c \in NotStarted
    BY <1>2, <1>8, <2>1, <2>3 DEF DutiesAfterMix
  <2>4. CASE c \in Proxy!Assigned(d) /\ c \in DOMAIN InProgress
    BY <1>2, <1>8, <1>14, <2>1, <2>4 DEF DutiesAfterMix
  <2>5. CASE c \in Proxy!Assigned(d) /\ c \notin NotStarted /\ c \notin DOMAIN InProgress
    BY <1>2, <1>8, <2>1, <2>5 DEF DutiesAfterMix
  <2> QED
    BY <2>2, <2>3, <2>4, <2>5
<1>16. e2.duties = e.duties
  <2>1. /\ e2.duties = [c \in SheetCodes |-> e2.duties[c]]
        /\ e.duties = [c \in SheetCodes |-> e.duties[c]]
    BY <1>2, <1>8 DEF AfterMix
  <2>2. [c \in SheetCodes |-> e2.duties[c]] = [c \in SheetCodes |-> e.duties[c]]
    BY <1>15
  <2> QED
    BY <2>1, <2>2
<1>17. e2.people = e.people
  <2>1. e.people = Proxy!Hired(d).people /\ e2.people = Proxy!Hired(e).people
    BY <1>2, <1>8 DEF AfterMix
  <2> DEFINE hired(x) == [a \in Proxy!Accounts |-> IF a \in Collectors
                            THEN [active |-> TRUE, role |-> "collector"] ELSE x.people[a]]
  <2>2. e.people = hired(d) /\ e2.people = hired(e)
    BY <1>1, <1>4, <2>1, HiredIs
  <2>3. hired(e) = hired(d)
    <3>1. \A a \in Proxy!Accounts : a \notin Collectors => e.people[a] = d.people[a]
      BY <2>2
    <3> QED
      BY <3>1
  <2> QED
    BY <2>2, <2>3
<1>18. e2 = e
  <2>1. e2 = [f \in ProxyFields |-> e2[f]]
    BY <1>8 DEF AfterMix
  <2>2. \A f \in ProxyFields : e2[f] = e[f]
    BY <1>8, <1>11, <1>12, <1>13, <1>16, <1>17 DEF AfterMix, ProxyFields
  <2> QED
    BY <1>4, <2>1, <2>2
<1> QED
  BY <1>5, <1>18 DEF e, e2, Proxy!Mixes
-----------------------------------------------------------------------------
\* The assignments and the points of the year tell one story after the mix.
LEMMA StoryOf ==
  ASSUME NEW d, ProxyDb(d), NEW taken \in Proxy!Taken(d), NEW who,
         NEW e, e = Proxy!Mixed(Proxy!Hired(d), taken, who), NEW c \in Proxy!Assigned(e)
  PROVE  LET points == Proxy!PointsAt(e, <<ThisYear, c>>)
         IN /\ e.duties[c].status = "assigned" <=> c \in NotStarted
            /\ c \in NotStarted => points = {}
            /\ e.duties[c].status = "completed" => \A p \in points : p.status = "approved"
            /\ c \in DOMAIN InProgress /\ points # {} =>
                 e.duties[c].status = "in_progress" /\ \E p \in points : p.status # "approved"
<1> DEFINE points == Proxy!PointsAt(e, <<ThisYear, c>>)
           back == {Proxy!SetBack(p) : p \in taken}
<1>1. d = [f \in ProxyFields |-> d[f]] /\ Distinct(d.points)
  BY DEF ProxyDb
<1>2. AfterMix(d, taken, who, e) /\ DutiesAfterMix(d, taken, who, e)
  BY <1>1, MixIs
<1>3. /\ Proxy!Assigned(e) = Proxy!Assigned(d)
      /\ c \in SheetCodes /\ c \in Proxy!Assigned(d) /\ DutyOk(d.duties[c], c)
  <2>1. Proxy!Assigned(e) = Proxy!Assigned(d)
    BY MixKeeps
  <2>2. c \in Proxy!Assigned(d)
    BY <2>1
  <2>3. c \in SheetCodes
    BY <2>2 DEF Proxy!Assigned
  <2> QED
    BY <2>1, <2>2, <2>3 DEF ProxyDb
<1>4. /\ Gone(e) = {} /\ UnderWay(e) = back \cup (UnderWay(d) \ taken)
      /\ \A q \in e.points :
           q.year = ThisYear /\ q \notin UnderWay(e) => q.status = "approved"
      /\ CodesOf(UnderWay(e)) = CodesOf(taken)
  BY <1>1, <1>2, <1>3, MixShape DEF AfterMix
<1>5. \A p \in points : p \in e.points /\ p.year = ThisYear /\ p.code = c
  BY DEF Proxy!PointsAt, Proxy!Key
<1>6. DOMAIN InProgress \cap NotStarted = {}
  BY ProxyFit DEF ProxyFit
<1>7. /\ c \in NotStarted => e.duties[c].status = "assigned"
      /\ c \in DOMAIN InProgress => IF c \in CodesOf(taken)
                                    THEN e.duties[c].status = "in_progress"
                                    ELSE e.duties[c] = d.duties[c]
      /\ c \notin NotStarted /\ c \notin DOMAIN InProgress => e.duties[c].status = "completed"
  <2>1. c \in NotStarted => e.duties[c] = [status |-> "assigned", collector |-> who[c]]
    BY <1>2, <1>3 DEF DutiesAfterMix
  <2>2. c \in DOMAIN InProgress =>
          e.duties[c] = IF c \in CodesOf(taken)
                        THEN [status |-> "in_progress", collector |-> who[c]]
                        ELSE d.duties[c]
    BY <1>2, <1>3 DEF DutiesAfterMix
  <2>3. c \notin NotStarted /\ c \notin DOMAIN InProgress =>
          e.duties[c] = [status |-> "completed", collector |-> "none"]
    BY <1>2, <1>3 DEF DutiesAfterMix
  <2> QED
    BY <2>1, <2>2, <2>3
<1>8. d.duties[c].status = "assigned" => c \in NotStarted
  BY <1>3 DEF DutyOk
<1>9. e.duties[c].status = "assigned" <=> c \in NotStarted
  BY <1>6, <1>7, <1>8
<1>10. c \in NotStarted => points = {}
  BY <1>3, <1>4, <1>5, RowsAre DEF Gone
<1>11. c \in DOMAIN InProgress => points \subseteq UnderWay(e)
  BY <1>3, <1>5, RowsAre DEF UnderWay
<1>12. c \in DOMAIN InProgress /\ points # {} => c \in CodesOf(taken)
  <2> HIDE DEF points
  <2> QED
    BY <1>4, <1>5, <1>11 DEF CodesOf
<1>13. ASSUME e.duties[c].status = "completed", NEW p \in points PROVE p.status = "approved"
  <2> HIDE DEF points
  <2>1. c \notin DOMAIN InProgress
    BY <1>7, <1>12, <1>13
  <2>2. p \notin UnderWay(e)
    BY <1>5, <2>1, RowsAre DEF UnderWay
  <2> QED
    BY <1>4, <1>5, <2>2
<1>14. ASSUME c \in DOMAIN InProgress, points # {}
       PROVE  e.duties[c].status = "in_progress" /\ \E p \in points : p.status # "approved"
  <2>1. c \in CodesOf(taken)
    BY <1>12, <1>14
  <2>2. PICK p \in taken : p.code = c
    BY <2>1 DEF CodesOf
  <2>3. p \in PointShape /\ p.year = ThisYear
    BY <1>1, RowsAre DEF Proxy!Taken, Distinct
  <2> DEFINE q == Proxy!SetBack(p)
  <2>4. q.year = ThisYear /\ q.code = c /\ q.status # "approved"
    BY <1>14, <2>2, <2>3, SetBackIs
  <2>5. q \in e.points
    BY <1>4, RowsAre DEF UnderWay
  <2> HIDE DEF q
  <2>6. q \in points
    BY <2>4, <2>5 DEF Proxy!PointsAt, Proxy!Key
  <2> HIDE DEF points
  <2> QED
    BY <1>7, <1>14, <2>1, <2>4, <2>6
<1> HIDE DEF points
<1> QED
  BY <1>9, <1>10, <1>13, <1>14 DEF points

LEMMA Tells == ProxyInv => Proxy!MixTells
<1> SUFFICES ASSUME ProxyInv, NEW e \in Proxy!Mixes(db)
    PROVE  /\ e \in Proxy!Mixes(e)
           /\ \A c \in Proxy!Assigned(e) :
                LET points == Proxy!PointsAt(e, <<ThisYear, c>>)
                IN /\ e.duties[c].status = "assigned" <=> c \in NotStarted
                   /\ c \in NotStarted => points = {}
                   /\ e.duties[c].status = "completed" => \A p \in points : p.status = "approved"
                   /\ c \in DOMAIN InProgress /\ points # {} =>
                        e.duties[c].status = "in_progress"
                        /\ \E p \in points : p.status # "approved"
  BY DEF Proxy!MixTells
<1>1. PICK taken \in Proxy!Taken(db), who \in Proxy!Shares :
        e = Proxy!Mixed(Proxy!Hired(db), taken, who)
  <2>1. PICK taken \in Proxy!Taken(db) : \E who \in Proxy!Shares :
          e = Proxy!Mixed(Proxy!Hired(db), taken, who)
    BY DEF Proxy!Mixes
  <2> QED
    BY <2>1
<1>2. ProxyDb(db)
  BY DEF ProxyInv
<1>3. e \in Proxy!Mixes(e)
  BY <1>1, <1>2, MixAgain
<1> QED
  BY <1>1, <1>2, <1>3, StoryOf

\* The examples attach standards and relate elements; they touch nothing else.
LEMMA ExampledIs ==
  ASSUME NEW d, d = [f \in ProxyFields |-> d[f]], NEW n
  PROVE  LET e == Proxy!Exampled(n, d)
         IN /\ e = [f \in ProxyFields |-> e[f]]
            /\ \A f \in ProxyFields \ {"attached", "examples"} : e[f] = d[f]
            /\ e.attached = d.attached \cup {<<ThisYear, Examples[i].standard>> : i \in 1..n}
            /\ e.examples = d.examples \cup {Examples[i] : i \in 1..n}
<1> DEFINE attached2 == d.attached \cup {<<ThisYear, Examples[i].standard>> : i \in 1..n}
           examples2 == d.examples \cup {Examples[i] : i \in 1..n}
           e == Proxy!Exampled(n, d)
           e1 == [d EXCEPT !.attached = attached2]
           e2 == [e1 EXCEPT !.examples = examples2]
<1>1. e = [d EXCEPT !.attached = attached2, !.examples = examples2]
  BY DEF Proxy!Exampled
<1> HIDE DEF e, attached2, examples2
<1>2. e = e2
  BY <1>1
<1>3. e1 = [f \in ProxyFields |-> IF f = "attached" THEN attached2 ELSE d[f]]
  BY DEF ProxyFields
<1> HIDE DEF e1
<1>4. e2 = [f \in ProxyFields |-> IF f = "examples" THEN examples2 ELSE e1[f]]
  BY <1>3 DEF ProxyFields
<1> HIDE DEF e2
<1>5. /\ e = [f \in ProxyFields |-> e[f]]
      /\ \A f \in ProxyFields \ {"attached", "examples"} : e[f] = d[f]
      /\ e.attached = attached2 /\ e.examples = examples2
  BY <1>2, <1>3, <1>4 DEF ProxyFields
<1> QED
  BY <1>5 DEF e, attached2, examples2

LEMMA Resumes == ProxyInv => Proxy!ExamplesResume
<1> SUFFICES ASSUME ProxyInv, NEW n \in Proxy!Possible(db), NEW k \in Proxy!Possible(db), k >= n
             PROVE  Proxy!Exampled(k, Proxy!Exampled(n, db)) = Proxy!Exampled(k, db)
  BY DEF Proxy!ExamplesResume
<1> DEFINE a == Proxy!Exampled(n, db)
           b == Proxy!Exampled(k, a)
           e == Proxy!Exampled(k, db)
<1>0. db = [f \in ProxyFields |-> db[f]]
  BY DEF ProxyInv, ProxyDb
<1>1. /\ a = [f \in ProxyFields |-> a[f]]
      /\ \A f \in ProxyFields \ {"attached", "examples"} : a[f] = db[f]
      /\ a.attached = db.attached \cup {<<ThisYear, Examples[i].standard>> : i \in 1..n}
      /\ a.examples = db.examples \cup {Examples[i] : i \in 1..n}
  BY <1>0, ExampledIs
<1>2. /\ e = [f \in ProxyFields |-> e[f]]
      /\ \A f \in ProxyFields \ {"attached", "examples"} : e[f] = db[f]
      /\ e.attached = db.attached \cup {<<ThisYear, Examples[i].standard>> : i \in 1..k}
      /\ e.examples = db.examples \cup {Examples[i] : i \in 1..k}
  BY <1>0, ExampledIs
<1> HIDE DEF a
<1>3. /\ b = [f \in ProxyFields |-> b[f]]
      /\ \A f \in ProxyFields \ {"attached", "examples"} : b[f] = a[f]
      /\ b.attached = a.attached \cup {<<ThisYear, Examples[i].standard>> : i \in 1..k}
      /\ b.examples = a.examples \cup {Examples[i] : i \in 1..k}
  BY <1>1, ExampledIs
<1> HIDE DEF b, e
<1>4. n \in Nat /\ k \in Nat
  BY DEF Proxy!Possible
<1>5. 1..n \subseteq 1..k
  BY <1>4
<1>6. b.attached = e.attached /\ b.examples = e.examples
  <2> DEFINE standardsTo(m) == {<<ThisYear, Examples[i].standard>> : i \in 1..m}
             examplesTo(m) == {Examples[i] : i \in 1..m}
  <2>1. standardsTo(n) \subseteq standardsTo(k) /\ examplesTo(n) \subseteq examplesTo(k)
    BY <1>5
  <2>2. /\ a.attached = db.attached \cup standardsTo(n)
        /\ b.attached = a.attached \cup standardsTo(k)
        /\ e.attached = db.attached \cup standardsTo(k)
        /\ a.examples = db.examples \cup examplesTo(n)
        /\ b.examples = a.examples \cup examplesTo(k)
        /\ e.examples = db.examples \cup examplesTo(k)
    BY <1>1, <1>2, <1>3
  <2> HIDE DEF standardsTo, examplesTo
  <2> QED
    BY <2>1, <2>2
<1>7. \A f \in ProxyFields : b[f] = e[f]
  BY <1>1, <1>2, <1>3, <1>6
<1>8. b = e
  BY <1>2, <1>3, <1>7
<1> QED
  BY <1>8 DEF a, b, e
-----------------------------------------------------------------------------
(* Every run of a script, and every edit of a user, keeps the tables in order. *)

LEMMA OneField ==
  ASSUME NEW d, d = [f \in ProxyFields |-> d[f]], NEW g \in ProxyFields, NEW v
  PROVE  LET e == [d EXCEPT ![g] = v]
         IN /\ e = [f \in ProxyFields |-> e[f]] /\ e[g] = v
            /\ \A f \in ProxyFields \ {g} : e[f] = d[f]
OBVIOUS

LEMMA ExamplesKeep ==
  ASSUME NEW d, ProxyDb(d), NEW n
  PROVE  ProxyDb(Proxy!Exampled(n, d))
<1> DEFINE e == Proxy!Exampled(n, d)
<1>1. /\ e = [f \in ProxyFields |-> e[f]]
      /\ \A f \in ProxyFields \ {"attached", "examples"} : e[f] = d[f]
  BY ExampledIs DEF ProxyDb
<1> HIDE DEF e
<1>2. /\ e.points = d.points /\ e.bound = d.bound /\ e.linked = d.linked
      /\ e.itemStatus = d.itemStatus /\ e.frame = d.frame /\ e.duties = d.duties
  BY <1>1 DEF ProxyFields
<1> QED
  BY <1>1, <1>2 DEF ProxyDb, e

LEMMA HiringKeeps ==
  ASSUME NEW d, ProxyDb(d)
  PROVE  ProxyDb(Proxy!Hired(d))
<1> DEFINE e == Proxy!Hired(d)
<1>1. /\ e = [f \in ProxyFields |-> e[f]]
      /\ e.points = d.points /\ e.bound = d.bound /\ e.linked = d.linked
      /\ e.itemStatus = d.itemStatus /\ e.frame = d.frame /\ e.duties = d.duties
  BY HiredIs DEF ProxyDb
<1> HIDE DEF e
<1> QED
  BY <1>1 DEF ProxyDb, e

\* A new account, or a new status of a project, is no business of the invariant.
LEMMA OtherFieldKeeps ==
  ASSUME NEW d, ProxyDb(d), NEW g \in {"people", "projects"}, NEW v
  PROVE  ProxyDb([d EXCEPT ![g] = v])
<1> DEFINE e == [d EXCEPT ![g] = v]
<1>1. /\ e = [f \in ProxyFields |-> e[f]]
      /\ \A f \in ProxyFields \ {g} : e[f] = d[f]
  BY OneField DEF ProxyDb, ProxyFields
<1> HIDE DEF e
<1>2. /\ e.points = d.points /\ e.bound = d.bound /\ e.linked = d.linked
      /\ e.itemStatus = d.itemStatus /\ e.frame = d.frame /\ e.duties = d.duties
  BY <1>1 DEF ProxyFields
<1> QED
  BY <1>1, <1>2 DEF ProxyDb, e

LEMMA FrameKeeps ==
  ASSUME NEW d, ProxyDb(d), NEW v, DOMAIN v = Proxy!FrameRows
  PROVE  ProxyDb([d EXCEPT !.frame = v])
<1> DEFINE e == [d EXCEPT !.frame = v]
<1>1. /\ e = [f \in ProxyFields |-> e[f]] /\ e.frame = v
      /\ \A f \in ProxyFields \ {"frame"} : e[f] = d[f]
  BY OneField DEF ProxyDb, ProxyFields
<1> HIDE DEF e
<1>2. /\ e.points = d.points /\ e.bound = d.bound /\ e.linked = d.linked
      /\ e.itemStatus = d.itemStatus /\ e.duties = d.duties
  BY <1>1 DEF ProxyFields
<1> QED
  BY <1>1, <1>2 DEF ProxyDb, e

LEMMA LinkedKeeps ==
  ASSUME NEW d, ProxyDb(d), NEW v, v \subseteq d.linked
  PROVE  ProxyDb([d EXCEPT !.linked = v])
<1> DEFINE e == [d EXCEPT !.linked = v]
<1>1. /\ e = [f \in ProxyFields |-> e[f]] /\ e.linked = v
      /\ \A f \in ProxyFields \ {"linked"} : e[f] = d[f]
  BY OneField DEF ProxyDb, ProxyFields
<1> HIDE DEF e
<1>2. /\ e.points = d.points /\ e.bound = d.bound
      /\ e.itemStatus = d.itemStatus /\ e.duties = d.duties /\ e.frame = d.frame
  BY <1>1 DEF ProxyFields
<1> QED
  BY <1>1, <1>2 DEF ProxyDb, e

LEMMA PointsKeep ==
  ASSUME NEW d, ProxyDb(d), NEW v, Distinct(v), IdsOf(d.points) \subseteq IdsOf(v)
  PROVE  ProxyDb([d EXCEPT !.points = v])
<1> DEFINE e == [d EXCEPT !.points = v]
<1>1. /\ e = [f \in ProxyFields |-> e[f]] /\ e.points = v
      /\ \A f \in ProxyFields \ {"points"} : e[f] = d[f]
  BY OneField DEF ProxyDb, ProxyFields
<1> HIDE DEF e
<1>2. /\ e.linked = d.linked /\ e.bound = d.bound
      /\ e.itemStatus = d.itemStatus /\ e.duties = d.duties /\ e.frame = d.frame
  BY <1>1 DEF ProxyFields
<1> QED
  BY <1>1, <1>2 DEF ProxyDb, e

LEMMA DutiesKeep ==
  ASSUME NEW d, ProxyDb(d), NEW v, v = [c \in SheetCodes |-> v[c]],
         \A c \in SheetCodes : DutyOk(v[c], c)
  PROVE  ProxyDb([d EXCEPT !.duties = v])
<1> DEFINE e == [d EXCEPT !.duties = v]
<1>1. /\ e = [f \in ProxyFields |-> e[f]] /\ e.duties = v
      /\ \A f \in ProxyFields \ {"duties"} : e[f] = d[f]
  BY OneField DEF ProxyDb, ProxyFields
<1> HIDE DEF e
<1>2. /\ e.linked = d.linked /\ e.bound = d.bound /\ e.points = d.points
      /\ e.itemStatus = d.itemStatus /\ e.frame = d.frame
  BY <1>1 DEF ProxyFields
<1> QED
  BY <1>1, <1>2 DEF ProxyDb, e

\* A user reopens a point, or enters a second one where there is one.
LEMMA Reopened ==
  ASSUME NEW points, Distinct(points), NEW p \in points
  PROVE  LET v == (points \ {p}) \cup {[p EXCEPT !.value = NoValue, !.status = "draft"]}
         IN Distinct(v) /\ IdsOf(points) \subseteq IdsOf(v)
<1> DEFINE q == [p EXCEPT !.value = NoValue, !.status = "draft"]
           v == (points \ {p}) \cup {q}
<1>1. p = [year |-> p.year, code |-> p.code, nth |-> p.nth,
           value |-> p.value, status |-> p.status]
      /\ p \in PointShape
  BY DEF Distinct, PointShape
<1>2. q = [year |-> p.year, code |-> p.code, nth |-> p.nth,
           value |-> NoValue, status |-> "draft"]
  <2> DEFINE r == [p EXCEPT !.value = NoValue]
  <2>1. r = [year |-> p.year, code |-> p.code, nth |-> p.nth,
             value |-> NoValue, status |-> p.status]
    BY <1>1
  <2>2. q = [r EXCEPT !.status = "draft"]
    OBVIOUS
  <2> HIDE DEF r, q
  <2> QED
    BY <2>1, <2>2
<1> HIDE DEF q
<1>3. NoValue \in Proxy!Worth
  BY DEF Proxy!Worth
<1>4. q \in PointShape
  BY <1>1, <1>2, <1>3 DEF PointShape
<1>5. Proxy!Id(q) = Proxy!Id(p)
  BY <1>2, IdTells
<1>6. Distinct(v)
  BY <1>4, <1>5 DEF Distinct
<1>7. IdsOf(points) \subseteq IdsOf(v)
  BY <1>5 DEF IdsOf
<1> QED
  BY <1>6, <1>7 DEF q

LEMMA Doubled ==
  ASSUME NEW points, Distinct(points), NEW p \in points, p.nth = 1,
         At(points, Proxy!Key(p)) = {p}
  PROVE  LET v == points \cup {[p EXCEPT !.nth = 2, !.value = 0, !.status = "draft"]}
         IN Distinct(v) /\ IdsOf(points) \subseteq IdsOf(v)
<1> DEFINE q == [p EXCEPT !.nth = 2, !.value = 0, !.status = "draft"]
           v == points \cup {q}
<1>1. p = [year |-> p.year, code |-> p.code, nth |-> p.nth,
           value |-> p.value, status |-> p.status]
      /\ p \in PointShape
  BY DEF Distinct, PointShape
<1>2. q = [year |-> p.year, code |-> p.code, nth |-> 2, value |-> 0, status |-> "draft"]
  <2> DEFINE r == [p EXCEPT !.nth = 2]
             s == [r EXCEPT !.value = 0]
  <2>1. r = [year |-> p.year, code |-> p.code, nth |-> 2,
             value |-> p.value, status |-> p.status]
    BY <1>1
  <2>2. q = [s EXCEPT !.status = "draft"]
    OBVIOUS
  <2> HIDE DEF r
  <2>3. s = [year |-> p.year, code |-> p.code, nth |-> 2, value |-> 0, status |-> p.status]
    BY <2>1
  <2> HIDE DEF s, q
  <2> QED
    BY <2>2, <2>3
<1> HIDE DEF q
<1>3. 0 \in Proxy!Worth
  BY DEF Proxy!Worth
<1>4. q \in PointShape
  BY <1>1, <1>2, <1>3 DEF PointShape
<1>5. \A x \in points : Proxy!Id(x) # Proxy!Id(q)
  <2> SUFFICES ASSUME NEW x \in points, Proxy!Id(x) = Proxy!Id(q) PROVE FALSE
    OBVIOUS
  <2>1. x.year = p.year /\ x.code = p.code /\ x.nth = 2
    BY <1>2, IdTells
  <2>2. x \in At(points, Proxy!Key(p))
    BY <2>1, KeyTells DEF At
  <2> QED
    BY <2>1, <2>2
<1>6. Distinct(v)
  BY <1>4, <1>5 DEF Distinct
<1>7. IdsOf(points) \subseteq IdsOf(v)
  BY DEF IdsOf
<1> QED
  BY <1>6, <1>7 DEF q

LEMMA ProxyStart == Proxy!Init => ProxyInv
<1> SUFFICES ASSUME Proxy!Init PROVE ProxyInv
  OBVIOUS
<1>1. db = [f \in ProxyFields |-> db[f]]
  BY DEF Proxy!Init, ProxyFields
<1>2. /\ db.points = {} /\ db.bound = {} /\ db.linked = {}
      /\ db.itemStatus = [k \in Proxy!Keys |-> "none"]
      /\ db.frame = [f \in Proxy!FrameRows |-> "none"]
      /\ db.duties = [c \in SheetCodes |-> Proxy!NoDuty]
  BY DEF Proxy!Init
<1>3. \A c \in SheetCodes : DutyOk(Proxy!NoDuty, c)
  BY DEF Proxy!NoDuty, DutyOk, DutyStatuses
<1>4. Distinct(db.points)
  BY <1>2 DEF Distinct
<1>5. repairs \in 0..MaxRepairs
  BY ProxyFit DEF ProxyFit, Proxy!Init
<1>6. db.duties = [c \in SheetCodes |-> db.duties[c]]
      /\ \A c \in SheetCodes : DutyOk(db.duties[c], c)
  BY <1>2, <1>3
<1> QED
  BY <1>1, <1>2, <1>4, <1>5, <1>6 DEF ProxyInv, ProxyDb

LEMMA EditKeeps ==
  ASSUME ProxyInv, NEW d, ProxyDb(d), Proxy!Edit(d)
  PROVE  ProxyInv'
<1>1. db' = d /\ repairs' = repairs + 1 /\ repairs < MaxRepairs
  BY DEF Proxy!Edit
<1>2. repairs' \in 0..MaxRepairs
  BY <1>1, ProxyFit DEF ProxyInv, ProxyFit
<1>3. ProxyDb(db')
  BY <1>1
<1> QED
  BY <1>2, <1>3 DEF ProxyInv, ProxyDb

LEMMA ProxyStep == ProxyInv /\ Proxy!Next => ProxyInv'
<1> SUFFICES ASSUME ProxyInv, Proxy!Next PROVE ProxyInv'
  OBVIOUS
<1>0. ProxyDb(db) /\ Distinct(db.points) /\ DOMAIN db.frame = Proxy!FrameRows
      /\ repairs \in 0..MaxRepairs
  BY DEF ProxyInv, ProxyDb
<1>1. ASSUME NEW w \in Workbooks, Proxy!RunImport(w) PROVE ProxyInv'
  <2>1. ProxyDb(db') /\ repairs' = repairs
    BY <1>0, <1>1, ImportKeeps DEF Proxy!RunImport
  <2> QED
    BY <1>0, <2>1 DEF ProxyInv, ProxyDb
<1>2. ASSUME Proxy!RunExamples PROVE ProxyInv'
  <2>1. ProxyDb(db') /\ repairs' = repairs
    BY <1>0, <1>2, ExamplesKeep DEF Proxy!RunExamples
  <2> QED
    BY <1>0, <2>1 DEF ProxyInv, ProxyDb
<1>3. ASSUME Proxy!RunMix PROVE ProxyInv'
  <2>1. ASSUME db' \in Proxy!Mixes(db) PROVE ProxyDb(db')
    <3>1. PICK taken \in Proxy!Taken(db) : \E who \in Proxy!Shares :
            db' = Proxy!Mixed(Proxy!Hired(db), taken, who)
      BY <2>1 DEF Proxy!Mixes
    <3> QED
      BY <1>0, <3>1, MixKeeps
  <2>2. ProxyDb(db') /\ repairs' = repairs
    BY <1>0, <1>3, <2>1, HiringKeeps DEF Proxy!RunMix
  <2> QED
    BY <1>0, <2>2 DEF ProxyInv, ProxyDb
<1>4. ASSUME NEW a, NEW active, Proxy!ChangePerson(a, active, "reviewer") PROVE ProxyInv'
  <2> DEFINE v == [db.people EXCEPT ![a] = [active |-> active, role |-> "reviewer"]]
  <2>1. Proxy!Edit([db EXCEPT !.people = v])
    BY <1>4 DEF Proxy!ChangePerson
  <2> HIDE DEF v
  <2>2. ProxyDb([db EXCEPT !.people = v])
    BY <1>0, OtherFieldKeeps
  <2> QED
    BY <2>1, <2>2, EditKeeps
<1>5. ASSUME NEW f \in Proxy!FrameRows, Proxy!ChangeFrame(f) PROVE ProxyInv'
  <2> DEFINE v == [db.frame EXCEPT ![f] = "changed"]
  <2>1. Proxy!Edit([db EXCEPT !.frame = v])
    BY <1>5 DEF Proxy!ChangeFrame
  <2>2. DOMAIN v = Proxy!FrameRows
    BY <1>0
  <2> HIDE DEF v
  <2>3. ProxyDb([db EXCEPT !.frame = v])
    BY <1>0, <2>2, FrameKeeps
  <2> QED
    BY <2>1, <2>3, EditKeeps
<1>6. ASSUME NEW y, Proxy!ChangeProject(y) PROVE ProxyInv'
  <2> DEFINE v == [db.projects EXCEPT ![y] = "review"]
  <2>1. Proxy!Edit([db EXCEPT !.projects = v])
    BY <1>6 DEF Proxy!ChangeProject
  <2> HIDE DEF v
  <2>2. ProxyDb([db EXCEPT !.projects = v])
    BY <1>0, OtherFieldKeeps
  <2> QED
    BY <2>1, <2>2, EditKeeps
<1>7. ASSUME NEW c \in SheetCodes, Proxy!Reassign(c, Critic) PROVE ProxyInv'
  <2> DEFINE one == [db.duties[c] EXCEPT !.collector = Critic]
             v == [db.duties EXCEPT ![c] = one]
  <2>1. Proxy!Edit([db EXCEPT !.duties = v])
    BY <1>7 DEF Proxy!Reassign
  <2>2. db.duties = [x \in SheetCodes |-> db.duties[x]]
        /\ \A x \in SheetCodes : DutyOk(db.duties[x], x)
    BY <1>0 DEF ProxyDb
  <2>3. DutyOk(one, c)
    <3>1. DutyOk(db.duties[c], c)
      BY <2>2
    <3>2. one = [status |-> db.duties[c].status, collector |-> Critic]
      BY <3>1 DEF DutyOk
    <3> QED
      BY <3>1, <3>2 DEF DutyOk
  <2> HIDE DEF one
  <2>4. v = [x \in SheetCodes |-> v[x]]
        /\ \A x \in SheetCodes : v[x] = IF x = c THEN one ELSE db.duties[x]
    BY <2>2
  <2> HIDE DEF v
  <2>5. \A x \in SheetCodes : DutyOk(v[x], x)
    BY <2>2, <2>3, <2>4
  <2>6. ProxyDb([db EXCEPT !.duties = v])
    BY <1>0, <2>4, <2>5, DutiesKeep
  <2> QED
    BY <2>1, <2>6, EditKeeps
<1>8. ASSUME NEW p \in db.points, Proxy!ReopenPoint(p) PROVE ProxyInv'
  <2> DEFINE v == (db.points \ {p}) \cup {[p EXCEPT !.value = NoValue, !.status = "draft"]}
  <2>1. Proxy!Edit([db EXCEPT !.points = v])
    BY <1>8 DEF Proxy!ReopenPoint
  <2>2. Distinct(v) /\ IdsOf(db.points) \subseteq IdsOf(v)
    BY <1>0, Reopened
  <2> HIDE DEF v
  <2>3. ProxyDb([db EXCEPT !.points = v])
    BY <1>0, <2>2, PointsKeep
  <2> QED
    BY <2>1, <2>3, EditKeeps
<1>9. ASSUME NEW p \in db.points, Proxy!Cardinality(Proxy!PointsAt(db, Proxy!Key(p))) = 1,
             Proxy!SecondPoint(p)
      PROVE  ProxyInv'
  <2> DEFINE v == db.points \cup {[p EXCEPT !.nth = 2, !.value = 0, !.status = "draft"]}
  <2>1. Proxy!Edit([db EXCEPT !.points = v]) /\ p.nth = 1
    BY <1>9 DEF Proxy!SecondPoint
  <2>2. At(db.points, Proxy!Key(p)) = {p}
    <3>1. Proxy!PointsAt(db, Proxy!Key(p)) = At(db.points, Proxy!Key(p))
          /\ p \in At(db.points, Proxy!Key(p))
      BY DEF Proxy!PointsAt, At
    <3> QED
      BY <1>0, <1>9, <3>1, OneOfKey
  <2>3. Distinct(v) /\ IdsOf(db.points) \subseteq IdsOf(v)
    BY <1>0, <2>1, <2>2, Doubled
  <2> HIDE DEF v
  <2>4. ProxyDb([db EXCEPT !.points = v])
    BY <1>0, <2>3, PointsKeep
  <2> QED
    BY <2>1, <2>4, EditKeeps
<1>10. ASSUME NEW i, Proxy!UnlinkEvidence(i) PROVE ProxyInv'
  <2> DEFINE v == db.linked \ {i}
  <2>1. Proxy!Edit([db EXCEPT !.linked = v])
    BY <1>10 DEF Proxy!UnlinkEvidence
  <2>2. v \subseteq db.linked
    OBVIOUS
  <2> HIDE DEF v
  <2>3. ProxyDb([db EXCEPT !.linked = v])
    BY <1>0, <2>2, LinkedKeeps
  <2> QED
    BY <2>1, <2>3, EditKeeps
<1> QED
  BY <1>1, <1>2, <1>3, <1>4, <1>5, <1>6, <1>7, <1>8, <1>9, <1>10 DEF Proxy!Next

LEMMA ProxyAlways == Composition => []ProxyInv
<1>1. Start => ProxyInv
  BY ProxyStart DEF Start, Stand
<1>2. ProxyInv /\ [Step]_allVars => ProxyInv'
  <2>1. ProxyInv /\ Proxy!Next => ProxyInv'
    BY ProxyStep
  <2>2. ProxyInv /\ UNCHANGED proxyVars => ProxyInv'
    BY DEF ProxyInv, ProxyDb, proxyVars
  <2>3. [Step]_allVars => Proxy!Next \/ UNCHANGED proxyVars
    BY DEF Step, allVars, serviceVars, proxyVars
  <2> QED
    BY <2>1, <2>2, <2>3
<1> QED
  BY <1>1, <1>2, PTL DEF Composition

\* The scripts of the proxy tenant can be repeated, in any order and after whatever the
\* users of the tenant did: the import, the examples and the mix of statuses each end
\* where a second run of them begins, and the tables then say what the workbook and the
\* mix say.
THEOREM ScriptsAreRepeatable == Composition => []ScriptsRepeat
<1>1. ProxyInv => ScriptsRepeat
  BY Restores, Tells, Resumes DEF ScriptsRepeat, Proxy!ScriptsRepeat
<1> QED
  BY <1>1, ProxyAlways, PTL

\* Whatever script runs or stops, a binding and a link are of a point that is there, and
\* no two points share their key and their number.
THEOREM ProxyTypes == Composition => [](part = "proxy" => Proxy!TypeOK)
<1>1. ProxyInv => Proxy!TypeOK
  BY DEF ProxyInv, ProxyDb, Proxy!TypeOK, Distinct, PointShape, IdsOf
<1> QED
  BY <1>1, ProxyAlways, PTL
-----------------------------------------------------------------------------
(***************************************************************************)
(* The staffing of a project.  What a request computes is a set of new     *)
(* rows and of single columns to write; committed, it makes of the rows a  *)
(* longer sequence in which elements and scopes stand.                     *)
(***************************************************************************)
Someone == Assignees \cup {Nobody}
PlanShape ==
  [element : Planning!Catalogued \cup OwnCodes, entity : {s.entity : s \in Places},
   facility : {s.facility : s \in Places},
   collector : Someone, reviewer : Someone, backup : Someone]
PlanRow(r) == r \in PlanShape /\ Planning!Scope(r) \in Places
SameMetric(r, q) == r.element = q.element /\ Planning!Scope(r) = Planning!Scope(q)
PlanKinds == {"launch", "create", "edit", "auto"}

ChangeOk(c) ==
  /\ c.kind \in PlanKinds
  /\ IsFiniteSet(c.news) /\ \A r \in c.news : PlanRow(r)
  /\ c.codes \subseteq OwnCodes
  /\ \A x \in c.edits : x[2] \in Planning!Duties /\ x[3] \in Someone

LEMMA PlanFields ==
  ASSUME NEW r, PlanRow(r)
  PROVE  /\ DOMAIN r = {"element", "entity", "facility", "collector", "reviewer", "backup"}
         /\ r = [element |-> r.element, entity |-> r.entity, facility |-> r.facility,
                 collector |-> r.collector, reviewer |-> r.reviewer, backup |-> r.backup]
         /\ r.element = r["element"] /\ r.entity = r["entity"] /\ r.facility = r["facility"]
         /\ \A d \in Planning!Duties : r[d] \in Someone
BY DEF PlanRow, PlanShape, Planning!Duties

\* An edited row is of the same metric and scope; a duty is as one of the edits says,
\* or as it was.
LEMMA EditedIs ==
  ASSUME NEW row, PlanRow(row), NEW i, NEW edits,
         \A x \in edits : x[2] \in Planning!Duties /\ x[3] \in Someone
  PROVE  LET e == Planning!Edited(row, i, edits)
         IN /\ PlanRow(e) /\ SameMetric(e, row) /\ e.entity = row.entity
            /\ \A d \in Planning!Duties :
                 \/ \E x \in edits : x[1] = i /\ x[2] = d /\ e[d] = x[3]
                 \/ (~\E x \in edits : x[1] = i /\ x[2] = d) /\ e[d] = row[d]
            /\ (~\E x \in edits : x[1] = i) => e = row
<1> DEFINE e == Planning!Edited(row, i, edits)
           new(f) == (CHOOSE x \in edits : x[1] = i /\ x[2] = f)[3]
           hit(f) == \E x \in edits : x[1] = i /\ x[2] = f
<1>1. e = [f \in DOMAIN row |-> IF hit(f) THEN new(f) ELSE row[f]]
  BY DEF Planning!Edited
<1>2. ASSUME NEW f, hit(f)
      PROVE  f \in Planning!Duties /\ \E x \in edits : x[1] = i /\ x[2] = f /\ new(f) = x[3]
  <2>1. (CHOOSE x \in edits : x[1] = i /\ x[2] = f) \in edits
        /\ (CHOOSE x \in edits : x[1] = i /\ x[2] = f)[1] = i
        /\ (CHOOSE x \in edits : x[1] = i /\ x[2] = f)[2] = f
    BY <1>2
  <2> QED
    BY <2>1
<1>3. /\ DOMAIN row = {"element", "entity", "facility", "collector", "reviewer", "backup"}
      /\ \A d \in Planning!Duties : row[d] \in Someone
  BY PlanFields
<1> HIDE DEF e, new
<1>4. ~hit("element") /\ ~hit("entity") /\ ~hit("facility")
  BY <1>2 DEF Planning!Duties
<1>5. Planning!Duties \subseteq DOMAIN row
  BY <1>3 DEF Planning!Duties
<1>6. ASSUME NEW d \in Planning!Duties
      PROVE  /\ \/ \E x \in edits : x[1] = i /\ x[2] = d /\ e[d] = x[3]
                \/ ~hit(d) /\ e[d] = row[d]
             /\ e[d] \in Someone
  <2>1. e[d] = IF hit(d) THEN new(d) ELSE row[d]
    BY <1>1, <1>5
  <2>2. CASE hit(d)
    BY <1>2, <2>1, <2>2
  <2>3. CASE ~hit(d)
    BY <1>3, <2>1, <2>3
  <2> QED
    BY <2>2, <2>3
<1>7. e.element = row.element /\ e.entity = row.entity /\ e.facility = row.facility
  BY <1>1, <1>3, <1>4
<1>8. /\ e.collector \in Someone /\ e.reviewer \in Someone /\ e.backup \in Someone
  BY <1>6 DEF Planning!Duties
<1>9. e = [element |-> e.element, entity |-> e.entity, facility |-> e.facility,
           collector |-> e.collector, reviewer |-> e.reviewer, backup |-> e.backup]
  BY <1>1, <1>3
<1>10. PlanRow(e) /\ SameMetric(e, row)
  <2>1. Planning!Scope(e) = Planning!Scope(row)
    BY <1>7 DEF Planning!Scope
  <2>2. e \in PlanShape
    BY <1>7, <1>8, <1>9 DEF PlanRow, PlanShape
  <2> QED
    BY <1>7, <2>1, <2>2 DEF PlanRow, SameMetric
<1>11. (~\E x \in edits : x[1] = i) => e = row
  <2> SUFFICES ASSUME ~\E x \in edits : x[1] = i PROVE e = row
    OBVIOUS
  <2>1. \A f : ~hit(f)
    OBVIOUS
  <2>2. \A f \in DOMAIN row : e[f] = row[f]
    BY <1>1, <2>1
  <2>3. /\ e.element = row.element /\ e.entity = row.entity /\ e.facility = row.facility
        /\ e.collector = row.collector /\ e.reviewer = row.reviewer /\ e.backup = row.backup
    BY <1>3, <2>2
  <2>4. row = [element |-> row.element, entity |-> row.entity, facility |-> row.facility,
               collector |-> row.collector, reviewer |-> row.reviewer, backup |-> row.backup]
    BY PlanFields
  <2> QED
    BY <1>9, <2>3, <2>4
<1> QED
  BY <1>6, <1>7, <1>10, <1>11 DEF e

LEMMA PlanCardinality == \A S : Planning!Cardinality(S) = Cardinality(S)
BY DEF Planning!Cardinality, Cardinality

\* A finite set can be numbered.
LEMMA Numbered ==
  ASSUME NEW S, IsFiniteSet(S)
  PROVE  LET s == Planning!SetToSeq(S)
         IN /\ s \in [1..Cardinality(S) -> S] /\ s \in Seq(S) /\ Len(s) = Cardinality(S)
            /\ \A i, j \in 1..Cardinality(S) : s[i] = s[j] => i = j
            /\ \A x \in S : \E i \in 1..Cardinality(S) : s[i] = x
<1> DEFINE n == Cardinality(S)
           ok(f) == Planning!IsInjective(f)
           s == Planning!SetToSeq(S)
<1>1. n \in Nat
  BY FS_CardinalityType
<1>2. PICK f : f \in Bijection(1..n, S)
  BY FS_CardinalityType DEF ExistsBijection
<1>3. f \in [1..n -> S] /\ ok(f)
  BY <1>2 DEF Bijection, Injection, IsInjective, Planning!IsInjective
<1>4. s = CHOOSE g \in [1..n -> S] : ok(g)
  BY PlanCardinality DEF Planning!SetToSeq
<1>5. s \in [1..n -> S] /\ ok(s)
  BY <1>3, <1>4
<1> HIDE DEF s
<1>6. \A i, j \in 1..n : s[i] = s[j] => i = j
  BY <1>5 DEF Planning!IsInjective
<1>7. \A x \in S : \E i \in 1..n : s[i] = x
  <2> DEFINE R == {s[i] : i \in 1..n}
  <2>1. s \in Bijection(1..n, R)
    BY <1>5, <1>6 DEF Bijection, Injection, Surjection, IsInjective
  <2>2. IsFiniteSet(1..n) /\ Cardinality(1..n) = n
    BY <1>1, FS_Interval
  <2>3. Cardinality(R) = n
    BY <2>1, <2>2, FS_Bijection DEF ExistsBijection
  <2>4. R \subseteq S
    BY <1>5
  <2>5. R = S
    BY <2>3, <2>4, FS_Subset
  <2> QED
    BY <2>5
<1>8. s \in Seq(S) /\ Len(s) = n
  BY <1>1, <1>5
<1> QED
  BY <1>5, <1>6, <1>7, <1>8 DEF s

\* The image of a finite set is finite; it has as many members if no two meet.
LEMMA ImageIs ==
  ASSUME NEW S, IsFiniteSet(S), NEW f, f = [x \in S |-> f[x]]
  PROVE  LET T == {f[x] : x \in S}
         IN /\ IsFiniteSet(T) /\ Cardinality(T) <= Cardinality(S)
            /\ (\A x, y \in S : f[x] = f[y] => x = y) => Cardinality(T) = Cardinality(S)
<1> DEFINE T == {f[x] : x \in S}
<1>1. f \in [S -> T]
  OBVIOUS
<1>2. f \in Surjection(S, T)
  BY <1>1 DEF Surjection
<1>3. (\A x, y \in S : f[x] = f[y] => x = y) => f \in Injection(S, T)
  BY <1>1 DEF Injection, IsInjective
<1> HIDE DEF T
<1>4. /\ IsFiniteSet(T) /\ Cardinality(T) <= Cardinality(S)
      /\ Cardinality(T) = Cardinality(S) <=> f \in Injection(S, T)
  BY <1>2, FS_Surjection
<1> QED
  BY <1>3, <1>4 DEF T

RowsOk(rs) == rs \in Seq(PlanShape) /\ \A i \in DOMAIN rs : PlanRow(rs[i])

\* What is committed: the rows there were, edited, and after them the new ones.
LEMMA WrittenIs ==
  ASSUME RowsOk(rows), NEW c, ChangeOk(c)
  PROVE  LET w == Planning!Written(c)
             n == Len(rows)
             m == Cardinality(c.news)
         IN /\ RowsOk(w) /\ n \in Nat /\ m \in Nat /\ Len(w) = n + m /\ DOMAIN rows = 1..n
            /\ \A i \in 1..n : w[i] = Planning!Edited(rows[i], i, c.edits)
            /\ \A j \in 1..m : w[n + j] \in c.news
            /\ \A j, k \in 1..m : w[n + j] = w[n + k] => j = k
            /\ \A x \in c.news : \E j \in 1..m : w[n + j] = x
<1> DEFINE w == Planning!Written(c)
           n == Len(rows)
           m == Cardinality(c.news)
           old == [i \in DOMAIN rows |-> Planning!Edited(rows[i], i, c.edits)]
           new == Planning!SetToSeq(c.news)
<1>1. /\ IsFiniteSet(c.news) /\ \A r \in c.news : PlanRow(r)
      /\ \A x \in c.edits : x[2] \in Planning!Duties /\ x[3] \in Someone
  BY DEF ChangeOk
<1>2. /\ new \in [1..m -> c.news] /\ new \in Seq(c.news) /\ Len(new) = m
      /\ \A i, j \in 1..m : new[i] = new[j] => i = j
      /\ \A x \in c.news : \E i \in 1..m : new[i] = x
  BY <1>1, Numbered
<1>3. m \in Nat
  BY <1>1, FS_CardinalityType
<1>4. n \in Nat /\ DOMAIN rows = 1..n
  BY DEF RowsOk
<1>5. \A i \in 1..n : PlanRow(old[i])
  BY <1>1, <1>4, EditedIs DEF RowsOk
<1>6. old \in Seq(PlanShape) /\ Len(old) = n /\ DOMAIN old = 1..n
  <2>1. \A i \in 1..n : old[i] \in PlanShape
    BY <1>5 DEF PlanRow
  <2>2. old = [i \in 1..n |-> old[i]]
    BY <1>4
  <2> HIDE DEF old
  <2> QED
    BY <1>4, <2>1, <2>2
<1>7. new \in Seq(PlanShape)
  <2>1. c.news \subseteq PlanShape
    BY <1>1 DEF PlanRow
  <2> HIDE DEF new
  <2> QED
    BY <1>2, <2>1
<1>8. w = old \o new
  BY DEF Planning!Written, Planning!Indices
<1>12. \A i \in 1..n : old[i] = Planning!Edited(rows[i], i, c.edits)
  BY <1>4
<1> HIDE DEF w, old, new, m
<1>9. /\ w \in Seq(PlanShape) /\ Len(w) = n + m
      /\ \A i \in 1..n : w[i] = old[i]
      /\ \A j \in 1..m : w[n + j] = new[j]
  <2>1. /\ Len(w) = n + m /\ w \in Seq(PlanShape)
        /\ \A i \in 1..(n + m) : w[i] = IF i <= n THEN old[i] ELSE new[i - n]
    BY <1>2, <1>6, <1>7, <1>8, ConcatProperties
  <2>2. ASSUME NEW i \in 1..n PROVE w[i] = old[i]
    BY <1>3, <1>4, <2>1
  <2>3. ASSUME NEW j \in 1..m PROVE w[n + j] = new[j]
    <3>1. n + j \in 1..(n + m) /\ ~(n + j <= n) /\ (n + j) - n = j
      BY <1>3, <1>4
    <3> QED
      BY <2>1, <3>1
  <2> QED
    BY <2>1, <2>2, <2>3
<1>10. \A j \in 1..m : new[j] \in c.news
  BY <1>2
<1>11. ASSUME NEW i \in DOMAIN w PROVE PlanRow(w[i])
  <2>1. i \in 1..(n + m)
    BY <1>9
  <2>2. CASE i <= n
    <3>1. i \in 1..n
      BY <1>4, <2>1, <2>2
    <3> QED
      BY <1>5, <1>9, <3>1
  <2>3. CASE ~(i <= n)
    <3>1. i - n \in 1..m /\ i = n + (i - n)
      BY <1>3, <1>4, <2>1, <2>3
    <3> QED
      BY <1>1, <1>9, <1>10, <3>1
  <2> QED
    BY <2>2, <2>3
<1>13. \A j, k \in 1..m : w[n + j] = w[n + k] => j = k
  BY <1>2, <1>9
<1>14. \A x \in c.news : \E j \in 1..m : w[n + j] = x
  BY <1>2, <1>9
<1>15. RowsOk(w)
  BY <1>9, <1>11 DEF RowsOk
<1>16. \A j \in 1..m : w[n + j] \in c.news
  BY <1>9, <1>10
<1> QED
  BY <1>3, <1>4, <1>9, <1>12, <1>13, <1>14, <1>15, <1>16 DEF w, m

\* A change that is computed from the rows as they are.
SitsWell(rs, c) ==
  /\ \A r \in c.news : Planning!Distinct(r) /\ \A i \in DOMAIN rs : ~SameMetric(rs[i], r)
  /\ \A r, q \in c.news : SameMetric(r, q) => r = q
  /\ \A i \in DOMAIN rs : Planning!Distinct(rs[i]) =>
       Planning!Distinct(Planning!Edited(rs[i], i, c.edits))
AtPlace(r, element, entity) ==
  r.element = element /\ r.entity = entity /\ r.facility = Nowhere /\ entity # Nowhere
\* Every metric a launch aims at is assigned, or is about to be.
Aims(rs, c) ==
  \A x \in c.aim : \/ \E i \in DOMAIN rs : AtPlace(rs[i], x[1], x[2])
                   \/ \E r \in c.news : AtPlace(r, x[1], x[2])
\* The elements of new rows exist when they are committed.
Elements(known, c) == \A r \in c.news : r.element \in Planning!Catalogued \cup known \cup c.codes

\* What automatic assignment proposes for a duty of a row.
Suggest(row, co, aim, d) ==
  IF row[d] # Nobody THEN Nobody
  ELSE IF ~(Planning!Cardinality(co.active) <= 1) THEN Planning!Owner(co.owners, row.entity, d)
  ELSE IF d = "collector" /\ aim[2] # Nobody THEN aim[2]
  ELSE Planning!Owner(co.owners, aim[1], d)
Fills(rs, co, c) ==
  /\ c.news = {} /\ c.codes = {}
  /\ \A x \in c.edits :
       /\ x[1] \in DOMAIN rs /\ x[2] \in Planning!AutoDuties
       /\ x[3] = Suggest(rs[x[1]], co, c.aim, x[2]) /\ x[3] # Nobody
  /\ \A i \in DOMAIN rs : \A d \in Planning!AutoDuties :
       Suggest(rs[i], co, c.aim, d) # Nobody => \E x \in c.edits : x[1] = i /\ x[2] = d

Judged(c) ==
  /\ ChangeOk(c) /\ Elements(added, c) /\ SitsWell(rows, c)
  /\ c.kind = "launch" => Aims(rows, c)
  /\ c.kind = "auto" => Fills(rows, company, c)

LEMMA RowIs ==
  ASSUME NEW element \in Planning!Catalogued \cup OwnCodes, NEW scope \in Places,
         NEW team \in Staffings, Planning!Distinct(team)
  PROVE  LET r == Planning!Row(element, scope, team)
         IN /\ PlanRow(r) /\ Planning!Distinct(r)
            /\ r.element = element /\ r.entity = scope.entity /\ r.facility = scope.facility
            /\ Planning!Scope(r) = scope
<1> DEFINE r == Planning!Row(element, scope, team)
<1>1. r = [element |-> element, entity |-> scope.entity, facility |-> scope.facility,
           collector |-> team.collector, reviewer |-> team.reviewer, backup |-> team.backup]
  BY DEF Planning!Row
<1>2. \A d \in Planning!Duties : team[d] \in Someone
  BY PlanningFit DEF PlanningFit, Someone
<1> HIDE DEF r
<1>3. /\ r.element = element /\ r.entity = scope.entity /\ r.facility = scope.facility
      /\ \A d \in Planning!Duties : r[d] = team[d]
  BY <1>1 DEF Planning!Duties
<1>4. Planning!Scope(r) = scope
  BY <1>3, PlanningFit DEF PlanningFit, Planning!Scope
<1>5. r \in PlanShape
  <2>1. team.collector \in Someone /\ team.reviewer \in Someone /\ team.backup \in Someone
    BY <1>2 DEF Planning!Duties
  <2> QED
    BY <1>1, <2>1 DEF PlanShape
<1>6. Planning!Distinct(r)
  BY <1>3 DEF Planning!Distinct, Planning!Holders
<1> QED
  BY <1>3, <1>4, <1>5, <1>6 DEF PlanRow, r

LEMMA LaunchJudged ==
  ASSUME RowsOk(rows), NEW c \in Planning!Launches
  PROVE  Judged(c)
<1>1. PICK s \in staffed, selected \in SUBSET Planning!Catalogued, scope \in Places,
           team \in Staffings :
        /\ c = Planning!Launch(s, selected, scope, team)
        /\ selected \subseteq Planning!Options(s)
        /\ scope.entity # Nowhere /\ scope.facility = Nowhere
        /\ Planning!Accepted(team, scope)
  <2>1. PICK x \in staffed \X (SUBSET Planning!Catalogued \ {{}}) \X Places \X Staffings :
          /\ c = Planning!Launch(x[1], x[2], x[3], x[4])
          /\ x[2] \subseteq Planning!Options(x[1])
          /\ x[3].entity # Nowhere /\ x[3].facility = Nowhere
          /\ Planning!Accepted(x[4], x[3])
    BY DEF Planning!Launches
  <2> QED
    BY <2>1
<1> DEFINE missing == {e \in selected : <<e, scope.entity>> \notin Planning!ExistingPairs}
           row(e) == Planning!Row(e, scope, team)
<1>2. /\ c.kind = "launch" /\ c.news = {row(e) : e \in missing} /\ c.edits = {}
      /\ c.codes = {} /\ c.aim = selected \X {scope.entity}
  BY <1>1 DEF Planning!Launch, Planning!Change
<1>3. Planning!Distinct(team)
  BY <1>1 DEF Planning!Accepted
<1>4. ASSUME NEW e \in missing
      PROVE  /\ PlanRow(row(e)) /\ Planning!Distinct(row(e)) /\ row(e).element = e
             /\ row(e).entity = scope.entity /\ row(e).facility = Nowhere
             /\ Planning!Scope(row(e)) = scope
  BY <1>1, <1>3, RowIs
<1>5. IsFiniteSet(missing)
  <2>1. IsFiniteSet({r \in Requirements : r.standard = s})
    BY PlanningFit, FS_Subset DEF PlanningFit
  <2>2. IsFiniteSet(Planning!ElementsOf(s))
    <3> DEFINE S == {r \in Requirements : r.standard = s}
               f == [q \in S |-> q.element]
    <3>1. f = [q \in S |-> f[q]] /\ {f[q] : q \in S} = Planning!ElementsOf(s)
      BY DEF Planning!ElementsOf
    <3> HIDE DEF S, f
    <3> QED
      BY <2>1, <3>1, ImageIs DEF S
  <2>3. missing \subseteq Planning!ElementsOf(s)
    BY <1>1 DEF Planning!Options
  <2> QED
    BY <2>2, <2>3, FS_Subset
<1>6. IsFiniteSet({row(e) : e \in missing})
  <2> DEFINE f == [e \in missing |-> row(e)]
  <2>1. f = [e \in missing |-> f[e]] /\ {f[e] : e \in missing} = {row(e) : e \in missing}
    OBVIOUS
  <2> HIDE DEF f, missing, row
  <2>2. IsFiniteSet({f[e] : e \in missing})
    BY <1>5, <2>1, ImageIs
  <2> QED
    BY <2>1, <2>2
<1>7. \A e \in selected : e \notin missing <=>
        \E i \in DOMAIN rows : AtPlace(rows[i], e, scope.entity)
  <2> SUFFICES ASSUME NEW e \in selected
               PROVE  <<e, scope.entity>> \in Planning!ExistingPairs <=>
                        \E i \in DOMAIN rows : AtPlace(rows[i], e, scope.entity)
    OBVIOUS
  <2> QED
    BY <1>1 DEF Planning!ExistingPairs, Planning!Indices, Planning!AtEntity, AtPlace
<1> HIDE DEF row, missing
<1>8. \A r \in c.news : \E e \in missing : r = row(e) /\ e \in selected
  BY <1>2 DEF missing
<1>9. ChangeOk(c)
  BY <1>2, <1>4, <1>6, <1>8 DEF ChangeOk, PlanKinds
<1>10. Elements(added, c)
  BY <1>4, <1>8 DEF Elements
<1>11. SitsWell(rows, c)
  <2>1. ASSUME NEW r \in c.news, NEW i \in DOMAIN rows, SameMetric(rows[i], r) PROVE FALSE
    <3>1. PICK e \in missing : r = row(e) /\ e \in selected
      BY <1>8
    <3>2. rows[i].element = e /\ Planning!Scope(rows[i]) = scope
      BY <1>4, <2>1, <3>1 DEF SameMetric
    <3>3. rows[i].entity = scope.entity /\ rows[i].facility = scope.facility
      BY <3>2 DEF Planning!Scope
    <3> QED
      BY <1>1, <1>7, <3>1, <3>2, <3>3 DEF AtPlace
  <2>2. \A r, q \in c.news : SameMetric(r, q) => r = q
    BY <1>4, <1>8 DEF SameMetric
  <2>3. \A r \in c.news : Planning!Distinct(r)
    BY <1>4, <1>8
  <2>4. \A i \in DOMAIN rows : Planning!Edited(rows[i], i, c.edits) = rows[i]
    BY <1>2, EditedIs DEF RowsOk
  <2> QED
    BY <2>1, <2>2, <2>3, <2>4 DEF SitsWell
<1>12. Aims(rows, c)
  <2> SUFFICES ASSUME NEW x \in c.aim
               PROVE  \/ \E i \in DOMAIN rows : AtPlace(rows[i], x[1], x[2])
                      \/ \E r \in c.news : AtPlace(r, x[1], x[2])
    BY DEF Aims
  <2>1. x[1] \in selected /\ x[2] = scope.entity
    BY <1>2
  <2>2. CASE x[1] \in missing
    <3>1. row(x[1]) \in c.news
      BY <1>2, <2>2
    <3>2. AtPlace(row(x[1]), x[1], x[2])
      BY <1>1, <1>4, <2>1, <2>2 DEF AtPlace
    <3> QED
      BY <3>1, <3>2
  <2> QED
    BY <1>7, <2>1, <2>2
<1> QED
  BY <1>2, <1>9, <1>10, <1>11, <1>12 DEF Judged

LEMMA CreateJudged ==
  ASSUME RowsOk(rows), NEW c \in Planning!Creations
  PROVE  Judged(c)
<1>1. PICK e \in Planning!Catalogued \cup OwnCodes, scope \in Places, team \in Staffings :
        /\ c = Planning!Change("create", {Planning!Row(e, scope, team)}, {},
                               Planning!NewCodes(e), {})
        /\ Planning!Accepted(team, scope) /\ ~Planning!Taken(e, scope)
  <2>1. PICK x \in (Planning!Catalogued \cup OwnCodes) \X Places \X Staffings :
        /\ c = Planning!Change("create", {Planning!Row(x[1], x[2], x[3])}, {},
                               Planning!NewCodes(x[1]), {})
        /\ Planning!Accepted(x[3], x[2]) /\ ~Planning!Taken(x[1], x[2])
    BY DEF Planning!Creations
  <2> QED
    BY <2>1
<1> DEFINE r == Planning!Row(e, scope, team)
<1>2. /\ c.kind = "create" /\ c.news = {r} /\ c.edits = {} /\ c.codes = Planning!NewCodes(e)
  BY <1>1 DEF Planning!Change
<1>3. PlanRow(r) /\ Planning!Distinct(r) /\ r.element = e /\ Planning!Scope(r) = scope
  BY <1>1, RowIs DEF Planning!Accepted
<1> HIDE DEF r
<1>4. ChangeOk(c)
  BY <1>2, <1>3, FS_Singleton DEF ChangeOk, PlanKinds, Planning!NewCodes
<1>5. Elements(added, c)
  BY <1>1, <1>2, <1>3 DEF Elements, Planning!NewCodes
<1>6. \A i \in DOMAIN rows : ~SameMetric(rows[i], r)
  BY <1>1, <1>3 DEF SameMetric, Planning!Taken, Planning!RowsOf, Planning!Indices
<1>7. \A i \in DOMAIN rows : Planning!Edited(rows[i], i, c.edits) = rows[i]
  BY <1>2, EditedIs DEF RowsOk
<1> QED
  BY <1>2, <1>3, <1>4, <1>5, <1>6, <1>7 DEF Judged, SitsWell

LEMMA EditJudged ==
  ASSUME RowsOk(rows), NEW c \in Planning!Edits
  PROVE  Judged(c)
<1>1. PICK some \in SUBSET DOMAIN rows, d \in Planning!Duties, u \in Someone :
        /\ c = Planning!Change("edit", {}, {<<i, d, u>> : i \in some}, {}, {})
        /\ \A i \in some : Planning!EditOk(i, d, u)
  <2>1. PICK x \in (SUBSET Planning!Indices \ {{}}) \X Planning!Duties
                     \X (Assignees \cup {Nobody}) :
          /\ c = Planning!Change("edit", {}, {<<i, x[2], x[3]>> : i \in x[1]}, {}, {})
          /\ \A i \in x[1] : Planning!EditOk(i, x[2], x[3])
    BY DEF Planning!Edits
  <2> QED
    BY <2>1 DEF Planning!Indices, Someone
<1>2. /\ c.kind = "edit" /\ c.news = {} /\ c.edits = {<<i, d, u>> : i \in some} /\ c.codes = {}
  BY <1>1 DEF Planning!Change
<1>3. ChangeOk(c)
  <2>1. \A x \in c.edits : x[2] \in Planning!Duties /\ x[3] \in Someone
    BY <1>1, <1>2
  <2> QED
    BY <1>2, <2>1, FS_EmptySet DEF ChangeOk, PlanKinds
<1>4. Elements(added, c)
  BY <1>2 DEF Elements
<1>5. ASSUME NEW i \in DOMAIN rows, Planning!Distinct(rows[i])
      PROVE  Planning!Distinct(Planning!Edited(rows[i], i, c.edits))
  <2> DEFINE e == Planning!Edited(rows[i], i, c.edits)
             q == [rows[i] EXCEPT ![d] = u]
  <2>1. /\ PlanRow(rows[i])
        /\ \A x \in Planning!Duties :
             \/ \E y \in c.edits : y[1] = i /\ y[2] = x /\ e[x] = y[3]
             \/ (~\E y \in c.edits : y[1] = i /\ y[2] = x) /\ e[x] = rows[i][x]
        /\ (~\E y \in c.edits : y[1] = i) => e = rows[i]
    BY <1>3, EditedIs DEF RowsOk, ChangeOk
  <2>2. CASE i \notin some
    BY <1>2, <1>5, <2>1, <2>2
  <2>3. CASE i \in some
    <3>1. Planning!Distinct(q)
      BY <1>1, <2>3 DEF Planning!EditOk
    <3>2. \A x \in Planning!Duties : q[x] = IF x = d THEN u ELSE rows[i][x]
      <4>1. Planning!Duties \subseteq DOMAIN rows[i]
        BY <2>1, PlanFields DEF Planning!Duties
      <4> QED
        BY <4>1
    <3>3. \A x \in Planning!Duties : e[x] = IF x = d THEN u ELSE rows[i][x]
      <4>1. \A y \in c.edits : y[2] = d /\ y[3] = u
        BY <1>2
      <4>2. <<i, d, u>> \in c.edits /\ <<i, d, u>>[1] = i /\ <<i, d, u>>[2] = d
        BY <1>2, <2>3
      <4> HIDE DEF e
      <4> QED
        BY <2>1, <4>1, <4>2
    <3> HIDE DEF e, q
    <3> QED
      BY <3>1, <3>2, <3>3 DEF Planning!Distinct, Planning!Holders, e
  <2> QED
    BY <2>2, <2>3
<1> QED
  BY <1>2, <1>3, <1>4, <1>5 DEF Judged, SitsWell

\* What the plan proposes for a row.
LEMMA ProposedIs ==
  \A i, single, named : \A d \in Planning!AutoDuties :
    Planning!Proposed(i, single, named)[d]
      = Suggest(rows[i], company, <<single, named>>, d)
BY DEF Planning!Proposed, Suggest, Planning!Mono

LEMMA PlanIs ==
  ASSUME NEW a, NEW b
  PROVE  \A x : x \in Planning!Plan(a, b) <=>
           \E i \in DOMAIN rows, d \in Planning!AutoDuties :
             /\ x = <<i, d, Suggest(rows[i], company, <<a, b>>, d)>>
             /\ Suggest(rows[i], company, <<a, b>>, d) # Nobody
<1>1. Planning!Fillings(a, b) =
        UNION {{<<i, d, Suggest(rows[i], company, <<a, b>>, d)>> : d \in Planning!AutoDuties} :
                 i \in DOMAIN rows}
  BY ProposedIs DEF Planning!Fillings, Planning!Indices
<1>2. ASSUME NEW x
      PROVE  x \in Planning!Fillings(a, b) <=>
               \E i \in DOMAIN rows, d \in Planning!AutoDuties :
                 x = <<i, d, Suggest(rows[i], company, <<a, b>>, d)>>
  BY <1>1
<1>3. ASSUME NEW x
      PROVE  x \in Planning!Plan(a, b) <=> x \in Planning!Fillings(a, b) /\ x[3] # Nobody
  BY DEF Planning!Plan
<1>4. ASSUME NEW x, NEW i, NEW d, NEW u, x = <<i, d, u>> PROVE x[3] = u
  BY <1>4
<1> QED
  BY <1>2, <1>3, <1>4

LEMMA AutoJudged ==
  ASSUME RowsOk(rows), NEW c \in Planning!Autos
  PROVE  Judged(c)
<1>1. PICK aim \in Planning!Askable :
        /\ c = Planning!Change("auto", {}, Planning!Plan(aim[1], aim[2]), {}, aim)
        /\ Planning!PlanOk(Planning!Plan(aim[1], aim[2]))
  BY DEF Planning!Autos
<1> DEFINE plan == Planning!Plan(aim[1], aim[2])
           sug(i, d) == Suggest(rows[i], company, aim, d)
<1>2. c.kind = "auto" /\ c.news = {} /\ c.edits = plan /\ c.codes = {} /\ c.aim = aim
  BY <1>1 DEF Planning!Change
<1>3. aim = <<aim[1], aim[2]>>
  BY DEF Planning!Askable
<1>4. \A x : x \in plan <=> \E i \in DOMAIN rows, d \in Planning!AutoDuties :
                              x = <<i, d, sug(i, d)>> /\ sug(i, d) # Nobody
  BY <1>3, PlanIs
<1> HIDE DEF plan, sug
<1>5. \A x \in plan : /\ x[1] \in DOMAIN rows /\ x[2] \in Planning!AutoDuties
                      /\ x[3] = sug(x[1], x[2]) /\ x[3] # Nobody
  BY <1>4
<1>6. \A i \in DOMAIN rows, d \in Planning!AutoDuties :
        sug(i, d) # Nobody => \E x \in plan : x[1] = i /\ x[2] = d
  <2> SUFFICES ASSUME NEW i \in DOMAIN rows, NEW d \in Planning!AutoDuties, sug(i, d) # Nobody
               PROVE  \E x \in plan : x[1] = i /\ x[2] = d
    OBVIOUS
  <2>1. <<i, d, sug(i, d)>> \in plan
    BY <1>4
  <2> QED
    BY <2>1
<1>7. Planning!AutoDuties \subseteq Planning!Duties
  BY DEF Planning!AutoDuties, Planning!Duties
<1>8. ASSUME NEW i \in DOMAIN rows, NEW x \in plan, x[1] = i
      PROVE  /\ Planning!Distinct(Planning!Edited(rows[i], i, plan))
             /\ x[3] \in Assignees
  <2> DEFINE e == Planning!Edited(rows[i], i, plan)
  <2>1. /\ Planning!Distinct(e)
        /\ Planning!Qualified(e, {y[2] : y \in {z \in plan : z[1] = i}})
    BY <1>1, <1>8 DEF Planning!PlanOk, plan
  <2>2. x[2] \in DOMAIN rows[i]
    BY <1>5, <1>7, PlanFields DEF RowsOk, Planning!Duties
  <2>3. e[x[2]] = (CHOOSE y \in plan : y[1] = i /\ y[2] = x[2])[3]
    BY <1>8, <2>2 DEF Planning!Edited
  <2>4. \E y \in plan : y[1] = i /\ y[2] = x[2] /\ e[x[2]] = y[3]
    <3> DEFINE y == CHOOSE z \in plan : z[1] = i /\ z[2] = x[2]
    <3>1. y \in plan /\ y[1] = i /\ y[2] = x[2]
      BY <1>8
    <3> HIDE DEF e
    <3> QED
      BY <2>3, <3>1
  <2> HIDE DEF e
  <2>5. e[x[2]] = x[3]
    BY <1>5, <1>8, <2>4
  <2>6. x[2] \in Planning!Duties /\ x[3] # Nobody
    BY <1>5, <1>7
  <2>7. x[3] \in Eligible[x[2]]
    BY <1>8, <2>1, <2>5, <2>6 DEF Planning!Qualified, Planning!Holders
  <2>8. x[3] \in Assignees
    BY <2>6, <2>7, PlanningFit DEF PlanningFit
  <2> QED
    BY <2>1, <2>8 DEF e
<1>9. ChangeOk(c)
  <2>1. \A x \in plan : x[2] \in Planning!Duties /\ x[3] \in Someone
    BY <1>5, <1>7, <1>8 DEF Someone
  <2> QED
    BY <1>2, <2>1, FS_EmptySet DEF ChangeOk, PlanKinds
<1>10. ASSUME NEW i \in DOMAIN rows, Planning!Distinct(rows[i])
       PROVE  Planning!Distinct(Planning!Edited(rows[i], i, c.edits))
  <2>1. CASE \E x \in plan : x[1] = i
    BY <1>2, <1>8, <2>1
  <2>2. CASE ~\E x \in plan : x[1] = i
    BY <1>2, <1>9, <1>10, <2>2, EditedIs DEF RowsOk, ChangeOk
  <2> QED
    BY <2>1, <2>2
<1>11. SitsWell(rows, c) /\ Elements(added, c)
  BY <1>2, <1>10 DEF SitsWell, Elements
<1>12. Fills(rows, company, c)
  BY <1>2, <1>5, <1>6 DEF Fills, sug
<1> QED
  BY <1>2, <1>9, <1>11, <1>12 DEF Judged

LEMMA ChangesJudged ==
  ASSUME RowsOk(rows), NEW c \in Planning!Changes
  PROVE  Judged(c)
BY LaunchJudged, CreateJudged, EditJudged, AutoJudged DEF Planning!Changes
-----------------------------------------------------------------------------
(* The invariant of the staffing.                                          *)

RowsSep(rs) ==
  \A i, j \in DOMAIN rs : Planning!Distinct(rs[i]) /\ (SameMetric(rs[i], rs[j]) => i = j)
RowsKnown(rs, known) == \A i \in DOMAIN rs : rs[i].element \in Planning!Catalogued \cup known
StaffingOk ==
  /\ company \in Companies /\ staffed \subseteq Planning!Standards /\ added \subseteq OwnCodes
  /\ RowsOk(rows) /\ Len(rows) <= MaxRows /\ RowsKnown(rows, added)
  /\ DOMAIN collected \subseteq (Planning!Catalogued \cup added) \X Planning!CompanyEntities
  /\ raced \in BOOLEAN /\ commits \in 0..MaxCommits
  /\ ~raced => RowsSep(rows)
\* What the open request has computed; while it is not overtaken, from the rows as they are.
RequestOk ==
  LET c == planning.change
  IN /\ planning = [kind |-> planning.kind, change |-> c, stale |-> planning.stale]
     /\ planning.kind = c.kind /\ planning.stale \in BOOLEAN
     /\ ChangeOk(c) /\ Elements(added, c)
     /\ c.kind = "launch" => Aims(rows, c)
     /\ ~planning.stale => SitsWell(rows, c) /\ (c.kind = "auto" => Fills(rows, company, c))
PlanInv == StaffingOk /\ (planning = Planning!Idle \/ RequestOk)

LEMMA SeparateIs == Planning!RowsSeparate <=> (~raced => RowsSep(rows))
BY DEF Planning!RowsSeparate, RowsSep, SameMetric, Planning!Indices

\* What a commit does to the rows, whoever commits.
LEMMA WriteKeeps ==
  ASSUME RowsOk(rows), RowsKnown(rows, added), added \subseteq OwnCodes,
         NEW c, ChangeOk(c), Elements(added, c), Planning!Write(c)
  PROVE  /\ RowsOk(rows') /\ Len(rows') <= MaxRows /\ RowsKnown(rows', added')
         /\ added \subseteq added' /\ added' \subseteq OwnCodes
         /\ DOMAIN rows \subseteq DOMAIN rows'
         /\ \A i \in DOMAIN rows : /\ rows'[i] = Planning!Edited(rows[i], i, c.edits)
                                   /\ SameMetric(rows'[i], rows[i])
         /\ \A i \in DOMAIN rows' : i \in DOMAIN rows \/ rows'[i] \in c.news
         /\ \A r \in c.news : \E i \in DOMAIN rows' : rows'[i] = r
         /\ c.news = {} => DOMAIN rows' = DOMAIN rows
         /\ RowsSep(rows) /\ SitsWell(rows, c) => RowsSep(rows')
<1> DEFINE n == Len(rows)
           m == Cardinality(c.news)
           w == Planning!Written(c)
<1>1. rows' = w /\ added' = added \cup c.codes /\ n + m <= MaxRows
  BY PlanCardinality DEF Planning!Write, Planning!CanWrite
<1>2. /\ RowsOk(w) /\ n \in Nat /\ m \in Nat /\ Len(w) = n + m /\ DOMAIN rows = 1..n
      /\ \A i \in 1..n : w[i] = Planning!Edited(rows[i], i, c.edits)
      /\ \A j \in 1..m : w[n + j] \in c.news
      /\ \A j, k \in 1..m : w[n + j] = w[n + k] => j = k
      /\ \A x \in c.news : \E j \in 1..m : w[n + j] = x
  BY WrittenIs
<1> HIDE DEF w, n, m
<1>3. DOMAIN w = 1..(n + m)
  BY <1>2 DEF RowsOk
<1>4. ASSUME NEW i \in DOMAIN w
      PROVE  i \in 1..n \/ \E j \in 1..m : i = n + j
  <2>1. i \in 1..n \/ (i - n \in 1..m /\ i = n + (i - n))
    BY <1>2, <1>3
  <2> QED
    BY <2>1
<1>5. \A i \in 1..n : i \in DOMAIN w
  BY <1>2, <1>3
<1>6. \A j \in 1..m : n + j \in DOMAIN w
  BY <1>2, <1>3
<1>7. ASSUME NEW i \in 1..n
      PROVE  SameMetric(w[i], rows[i]) /\ w[i] = Planning!Edited(rows[i], i, c.edits)
  BY <1>2, EditedIs DEF RowsOk, ChangeOk
<1>8. ASSUME NEW i \in DOMAIN w PROVE w[i].element \in Planning!Catalogued \cup added'
  <2>1. CASE i \in 1..n
    BY <1>1, <1>2, <1>7, <2>1 DEF RowsKnown, SameMetric
  <2>2. CASE \E j \in 1..m : i = n + j
    BY <1>1, <1>2, <2>2 DEF Elements
  <2> QED
    BY <1>4, <2>1, <2>2
<1>9. ASSUME RowsSep(rows), SitsWell(rows, c) PROVE RowsSep(w)
  <2>1. ASSUME NEW i \in DOMAIN w PROVE Planning!Distinct(w[i])
    <3>1. CASE i \in 1..n
      BY <1>2, <1>7, <1>9, <3>1 DEF SitsWell, RowsSep
    <3>2. CASE \E j \in 1..m : i = n + j
      BY <1>2, <1>9, <3>2 DEF SitsWell
    <3> QED
      BY <1>4, <3>1, <3>2
  <2>2. ASSUME NEW i \in DOMAIN w, NEW k \in DOMAIN w, SameMetric(w[i], w[k]) PROVE i = k
    <3>1. CASE i \in 1..n /\ k \in 1..n
      <4>1. SameMetric(rows[i], rows[k])
        BY <1>7, <2>2, <3>1 DEF SameMetric
      <4> QED
        BY <1>2, <1>9, <3>1, <4>1 DEF RowsSep
    <3>2. CASE i \in 1..n /\ w[k] \in c.news
      <4>1. SameMetric(rows[i], w[k])
        BY <1>7, <2>2, <3>2 DEF SameMetric
      <4> QED
        BY <1>2, <1>9, <3>2, <4>1 DEF SitsWell
    <3>3. CASE k \in 1..n /\ w[i] \in c.news
      <4>1. SameMetric(rows[k], w[i])
        BY <1>7, <2>2, <3>3 DEF SameMetric
      <4> QED
        BY <1>2, <1>9, <3>3, <4>1 DEF SitsWell
    <3>4. CASE \E j, l \in 1..m : i = n + j /\ k = n + l
      <4>1. PICK j \in 1..m, l \in 1..m : i = n + j /\ k = n + l
        BY <3>4
      <4>2. w[i] = w[k]
        BY <1>2, <1>9, <2>2, <4>1 DEF SitsWell
      <4> QED
        BY <1>2, <4>1, <4>2
    <3> QED
      BY <1>2, <1>4, <3>1, <3>2, <3>3, <3>4
  <2> QED
    BY <2>1, <2>2 DEF RowsSep
<1>10. c.news = {} => m = 0
  BY FS_EmptySet DEF m
<1>11. c.news = {} => DOMAIN w = 1..n
  BY <1>2, <1>3, <1>10
<1>12. Len(w) <= MaxRows
  BY <1>1, <1>2
<1>13. added \subseteq added' /\ added' \subseteq OwnCodes
  BY <1>1 DEF ChangeOk
<1>14. RowsKnown(w, added')
  BY <1>8 DEF RowsKnown
<1>15. \A i \in DOMAIN w : i \in 1..n \/ w[i] \in c.news
  BY <1>2, <1>4
<1>16. \A r \in c.news : \E i \in DOMAIN w : w[i] = r
  BY <1>2, <1>6
<1> QED
  BY <1>1, <1>2, <1>5, <1>7, <1>9, <1>11, <1>12, <1>13, <1>14, <1>15, <1>16

\* What a launch aims at stays assigned.
LEMMA AimsStay ==
  ASSUME NEW rs, NEW ss, NEW c, Aims(rs, c), DOMAIN rs \subseteq DOMAIN ss,
         \A i \in DOMAIN rs : SameMetric(ss[i], rs[i])
  PROVE  Aims(ss, c)
<1>1. ASSUME NEW i \in DOMAIN rs, NEW e, NEW n, AtPlace(rs[i], e, n) PROVE AtPlace(ss[i], e, n)
  <2>1. ss[i].entity = rs[i].entity /\ ss[i].facility = rs[i].facility
    BY DEF SameMetric, Planning!Scope
  <2> QED
    BY <1>1, <2>1 DEF AtPlace, SameMetric
<1> QED
  BY <1>1 DEF Aims

LEMMA PlanStart == Planning!Init => PlanInv
<1> SUFFICES ASSUME Planning!Init PROVE PlanInv
  OBVIOUS
<1>1. /\ company \in Companies /\ staffed = {} /\ added = {} /\ rows = <<>> /\ collected = <<>>
      /\ planning = Planning!Idle /\ raced = FALSE /\ commits = 0
  BY DEF Planning!Init
<1>2. RowsOk(rows) /\ RowsKnown(rows, added) /\ RowsSep(rows)
  BY <1>1 DEF RowsOk, RowsKnown, RowsSep
<1>3. Len(rows) <= MaxRows /\ commits \in 0..MaxCommits
  BY <1>1, PlanningFit DEF PlanningFit
<1>4. DOMAIN collected = {}
  BY <1>1
<1> QED
  BY <1>1, <1>2, <1>3, <1>4 DEF PlanInv, StaffingOk

\* A request that did not commit has seen what others did.
LEMMA OvertakenOk ==
  ASSUME PlanInv, planning' = Planning!Overtaken,
         added \subseteq added', DOMAIN rows \subseteq DOMAIN rows',
         \A i \in DOMAIN rows : SameMetric(rows'[i], rows[i])
  PROVE  planning' = Planning!Idle \/ RequestOk'
<1>1. CASE planning = Planning!Idle
  BY <1>1 DEF Planning!Overtaken
<1>2. CASE planning # Planning!Idle
  <2> DEFINE c == planning.change
  <2>1. /\ planning = [kind |-> planning.kind, change |-> c, stale |-> planning.stale]
        /\ planning.kind = c.kind
        /\ ChangeOk(c) /\ Elements(added, c) /\ (c.kind = "launch" => Aims(rows, c))
    BY <1>2 DEF PlanInv, RequestOk
  <2>2. planning' = [planning EXCEPT !.stale = TRUE]
    BY <1>2 DEF Planning!Overtaken
  <2> HIDE DEF c
  <2>3. planning' = [kind |-> planning.kind, change |-> c, stale |-> TRUE]
    <3> DEFINE kind == planning.kind
               late == planning.stale
               true == TRUE
    <3>1. planning = [kind |-> kind, change |-> c, stale |-> late]
      BY <2>1
    <3> HIDE DEF kind, late, true
    <3>2. [planning EXCEPT !.stale = true] = [kind |-> kind, change |-> c, stale |-> true]
      BY <3>1
    <3> QED
      BY <2>2, <3>2 DEF kind, true
  <2>4. Elements(added', c)
    BY <2>1 DEF Elements
  <2>5. c.kind = "launch" => Aims(rows', c)
    BY <2>1, AimsStay
  <2>6. /\ planning'.kind = planning.kind /\ planning'.change = c /\ planning'.stale = TRUE
    BY <2>3
  <2> QED
    BY <2>1, <2>3, <2>4, <2>5, <2>6 DEF RequestOk
<1> QED
  BY <1>1, <1>2

LEMMA PlanStep == PlanInv /\ Planning!Next => PlanInv'
<1> SUFFICES ASSUME PlanInv, Planning!Next PROVE PlanInv'
  OBVIOUS
<1>0. /\ StaffingOk /\ RowsOk(rows) /\ RowsKnown(rows, added) /\ added \subseteq OwnCodes
      /\ commits \in 0..MaxCommits /\ MaxCommits \in Nat /\ company \in Companies
      /\ staffed \subseteq Planning!Standards /\ raced \in BOOLEAN /\ (~raced => RowsSep(rows))
      /\ DOMAIN collected \subseteq (Planning!Catalogued \cup added) \X Planning!CompanyEntities
      /\ Len(rows) <= MaxRows
  BY PlanningFit DEF PlanInv, StaffingOk, PlanningFit
<1>1. ASSUME Planning!Read PROVE PlanInv'
  <2>1. PICK c \in Planning!Changes :
          planning' = [kind |-> c.kind, change |-> c, stale |-> FALSE]
    BY <1>1 DEF Planning!Read
  <2>2. UNCHANGED <<company, staffed, added, rows, collected, raced, commits>>
    BY <1>1 DEF Planning!Read
  <2>3. Judged(c)
    BY <1>0, ChangesJudged
  <2>4. /\ planning'.kind = c.kind /\ planning'.change = c /\ planning'.stale = FALSE
    BY <2>1
  <2>5. RequestOk'
    BY <2>1, <2>2, <2>3, <2>4 DEF RequestOk, Judged
  <2>6. StaffingOk'
    BY <1>0, <2>2 DEF StaffingOk
  <2> QED
    BY <2>5, <2>6 DEF PlanInv
<1>2. ASSUME NEW c, ChangeOk(c), Elements(added, c), Planning!Write(c),
             ~raced' => ~raced /\ SitsWell(rows, c), raced' \in BOOLEAN
      PROVE  /\ StaffingOk'
             /\ added \subseteq added' /\ DOMAIN rows \subseteq DOMAIN rows'
             /\ \A i \in DOMAIN rows : SameMetric(rows'[i], rows[i])
  <2>1. /\ RowsOk(rows') /\ Len(rows') <= MaxRows /\ RowsKnown(rows', added')
        /\ added \subseteq added' /\ added' \subseteq OwnCodes
        /\ DOMAIN rows \subseteq DOMAIN rows'
        /\ \A i \in DOMAIN rows : SameMetric(rows'[i], rows[i])
        /\ RowsSep(rows) /\ SitsWell(rows, c) => RowsSep(rows')
    BY <1>0, <1>2, WriteKeeps
  <2>2. commits' = commits + 1 /\ commits < MaxCommits /\ UNCHANGED <<company, staffed, collected>>
    BY <1>2 DEF Planning!Write, Planning!CanWrite
  <2>3. commits' \in 0..MaxCommits
    BY <1>0, <2>2
  <2>4. DOMAIN collected' \subseteq (Planning!Catalogued \cup added') \X Planning!CompanyEntities
    BY <1>0, <2>1, <2>2
  <2>5. ~raced' => RowsSep(rows')
    BY <1>0, <1>2, <2>1
  <2> QED
    BY <1>0, <1>2, <2>1, <2>2, <2>3, <2>4, <2>5 DEF StaffingOk
<1>3. ASSUME Planning!Commit PROVE PlanInv'
  <2>1. /\ Planning!Write(planning.change) /\ raced' = (raced \/ planning.stale)
        /\ planning' = Planning!Idle /\ RequestOk
    BY <1>3 DEF Planning!Commit, PlanInv
  <2> DEFINE c == planning.change
  <2>2. /\ ChangeOk(c) /\ Elements(added, c) /\ Planning!Write(c)
        /\ planning.stale \in BOOLEAN /\ (~planning.stale => SitsWell(rows, c))
    BY <2>1 DEF RequestOk
  <2>3. raced' \in BOOLEAN /\ (~raced' => ~raced /\ SitsWell(rows, c))
    BY <1>0, <2>1, <2>2
  <2> HIDE DEF c
  <2>4. StaffingOk'
    BY <1>2, <2>2, <2>3
  <2> QED
    BY <2>1, <2>4 DEF PlanInv
<1>4. ASSUME Planning!Abort PROVE PlanInv'
  <2>1. planning' = Planning!Idle
        /\ UNCHANGED <<company, staffed, added, rows, collected, raced, commits>>
    BY <1>4 DEF Planning!Abort
  <2>2. StaffingOk'
    BY <1>0, <2>1 DEF StaffingOk
  <2> QED
    BY <2>1, <2>2 DEF PlanInv
<1>5. ASSUME Planning!Quick PROVE PlanInv'
  <2>1. PICK c \in Planning!Changes : Planning!Write(c)
    BY <1>5 DEF Planning!Quick, Planning!Changes
  <2>2. planning' = Planning!Overtaken /\ raced' = raced
    BY <1>5 DEF Planning!Quick
  <2>3. ChangeOk(c) /\ Elements(added, c) /\ SitsWell(rows, c)
    BY <1>0, ChangesJudged DEF Judged
  <2>4. /\ StaffingOk'
        /\ added \subseteq added' /\ DOMAIN rows \subseteq DOMAIN rows'
        /\ \A i \in DOMAIN rows : SameMetric(rows'[i], rows[i])
    BY <1>0, <1>2, <2>1, <2>2, <2>3
  <2>5. planning' = Planning!Idle \/ RequestOk'
    BY <2>2, <2>4, OvertakenOk
  <2> QED
    BY <2>4, <2>5 DEF PlanInv
<1>6. ASSUME Planning!AddStandard PROVE PlanInv'
  <2>1. /\ planning' = Planning!Overtaken /\ staffed' \subseteq Planning!Standards
        /\ UNCHANGED <<company, added, rows, collected, raced, commits>>
    BY <1>0, <1>6 DEF Planning!AddStandard
  <2>2. StaffingOk'
    BY <1>0, <2>1 DEF StaffingOk
  <2>3. planning' = Planning!Idle \/ RequestOk'
    BY <2>1, OvertakenOk DEF SameMetric
  <2> QED
    BY <2>2, <2>3 DEF PlanInv
<1>7. ASSUME Planning!Collect PROVE PlanInv'
  <2>1. /\ planning' = Planning!Overtaken /\ commits' = commits + 1 /\ commits < MaxCommits
        /\ UNCHANGED <<company, staffed, added, rows, raced>>
    BY <1>7 DEF Planning!Collect
  <2>2. PICK e \in Planning!Assigned, n \in Planning!CompanyEntities, ok \in BOOLEAN :
          collected' = [k \in DOMAIN collected \cup {<<e, n>>} |->
                          IF k = <<e, n>> THEN ok ELSE collected[k]]
    BY <1>7 DEF Planning!Collect
  <2>3. DOMAIN collected' = DOMAIN collected \cup {<<e, n>>}
    BY <2>2
  <2>4. e \in Planning!Catalogued \cup added
    BY <1>0 DEF Planning!Assigned, Planning!Indices, RowsKnown
  <2>5. DOMAIN collected' \subseteq (Planning!Catalogued \cup added) \X Planning!CompanyEntities
    BY <1>0, <2>3, <2>4
  <2>6. commits' \in 0..MaxCommits
    BY <1>0, <2>1
  <2>7. StaffingOk'
    BY <1>0, <2>1, <2>5, <2>6 DEF StaffingOk
  <2>8. planning' = Planning!Idle \/ RequestOk'
    BY <2>1, OvertakenOk DEF SameMetric
  <2> QED
    BY <2>7, <2>8 DEF PlanInv
<1> QED
  BY <1>1, <1>3, <1>4, <1>5, <1>6, <1>7 DEF Planning!Next

LEMMA PlanAlways == Composition => []PlanInv
<1>1. Start => PlanInv
  BY PlanStart DEF Start, Stand
<1>2. PlanInv /\ [Step]_allVars => PlanInv'
  <2>1. PlanInv /\ Planning!Next => PlanInv'
    BY PlanStep
  <2>2. PlanInv /\ UNCHANGED planningVars => PlanInv'
    BY DEF PlanInv, StaffingOk, RequestOk, planningVars
  <2>3. [Step]_allVars => Planning!Next \/ UNCHANGED planningVars
    BY DEF Step, allVars, serviceVars, planningVars
  <2> QED
    BY <2>1, <2>2, <2>3
<1> QED
  BY <1>1, <1>2, PTL DEF Composition
-----------------------------------------------------------------------------
(* What a commit promises.                                                 *)

LEMMA PlanAre ==
  \A a, b, x : x \in Planning!Plan(a, b) <=>
    \E i \in DOMAIN rows, d \in Planning!AutoDuties :
      /\ x = <<i, d, Suggest(rows[i], company, <<a, b>>, d)>>
      /\ Suggest(rows[i], company, <<a, b>>, d) # Nobody
BY PlanIs

LEMMA PlanIsLaunched == PlanInv => Planning!Launched
<1> SUFFICES ASSUME PlanInv, planning.kind = "launch", Planning!Commit,
                    NEW x \in planning.change.aim
             PROVE  x[2] \in Planning!AssignedEntities(x[1])'
  BY DEF Planning!Launched
<1> DEFINE c == planning.change
<1>1. /\ RowsOk(rows) /\ RowsKnown(rows, added) /\ added \subseteq OwnCodes
      /\ ChangeOk(c) /\ Elements(added, c) /\ Aims(rows, c) /\ Planning!Write(c)
  BY DEF PlanInv, StaffingOk, RequestOk, Planning!Commit
<1> HIDE DEF c
<1>2. /\ DOMAIN rows \subseteq DOMAIN rows'
      /\ \A i \in DOMAIN rows : SameMetric(rows'[i], rows[i])
      /\ \A r \in c.news : \E i \in DOMAIN rows' : rows'[i] = r
  BY <1>1, WriteKeeps
<1>3. Aims(rows', c)
  BY <1>1, <1>2, AimsStay
<1>4. \E i \in DOMAIN rows' : AtPlace(rows'[i], x[1], x[2])
  BY <1>2, <1>3 DEF Aims, c
<1> QED
  BY <1>4 DEF AtPlace, Planning!AssignedEntities, Planning!RowsOf, Planning!AtEntity,
              Planning!Indices

LEMMA PlanIsSettled == PlanInv => Planning!Settled
<1> SUFFICES ASSUME PlanInv, planning.kind = "auto", ~planning.stale, Planning!Commit
             PROVE  /\ \A i \in DOMAIN rows, d \in Planning!Duties :
                         rows[i][d] \in {Nobody, rows'[i][d]}
                    /\ \A aim \in {planning.change.aim} : Planning!Plan(aim[1], aim[2])' = {}
  BY DEF Planning!Settled, Planning!Indices
<1> DEFINE c == planning.change
<1>1. /\ RowsOk(rows) /\ RowsKnown(rows, added) /\ added \subseteq OwnCodes
      /\ ChangeOk(c) /\ Elements(added, c) /\ Planning!Write(c) /\ Fills(rows, company, c)
      /\ company' = company
  BY DEF PlanInv, StaffingOk, RequestOk, Planning!Commit, Planning!Write
<1> HIDE DEF c
<1>2. /\ DOMAIN rows' = DOMAIN rows
      /\ \A i \in DOMAIN rows : rows'[i] = Planning!Edited(rows[i], i, c.edits)
  BY <1>1, WriteKeeps DEF Fills
<1>3. ASSUME NEW i \in DOMAIN rows, NEW d \in Planning!Duties
      PROVE  \/ /\ d \in Planning!AutoDuties /\ rows[i][d] = Nobody
                /\ rows'[i][d] = Suggest(rows[i], company, c.aim, d)
                /\ rows'[i][d] # Nobody
             \/ /\ rows'[i][d] = rows[i][d]
                /\ ~\E x \in c.edits : x[1] = i /\ x[2] = d
  <2>1. \/ \E x \in c.edits : x[1] = i /\ x[2] = d /\ rows'[i][d] = x[3]
        \/ (~\E x \in c.edits : x[1] = i /\ x[2] = d) /\ rows'[i][d] = rows[i][d]
    BY <1>1, <1>2, EditedIs DEF RowsOk, ChangeOk
  <2>2. ASSUME NEW x \in c.edits, x[1] = i, x[2] = d, rows'[i][d] = x[3]
        PROVE  /\ d \in Planning!AutoDuties /\ rows[i][d] = Nobody
               /\ rows'[i][d] = Suggest(rows[i], company, c.aim, d)
               /\ rows'[i][d] # Nobody
    <3>1. /\ d \in Planning!AutoDuties /\ x[3] = Suggest(rows[i], company, c.aim, d)
          /\ x[3] # Nobody
      BY <1>1, <2>2 DEF Fills
    <3>2. rows[i][d] = Nobody
      BY <3>1 DEF Suggest
    <3> QED
      BY <2>2, <3>1, <3>2
  <2> QED
    BY <2>1, <2>2
<1>4. ASSUME NEW aim, aim = planning.change.aim PROVE Planning!Plan(aim[1], aim[2])' = {}
  <2>1. (\A a, b, x : x \in Planning!Plan(a, b) <=>
           \E i \in DOMAIN rows, d \in Planning!AutoDuties :
             /\ x = <<i, d, Suggest(rows[i], company, <<a, b>>, d)>>
             /\ Suggest(rows[i], company, <<a, b>>, d) # Nobody)'
    BY PlanAre, PTL
  <2>2. ASSUME NEW i \in DOMAIN rows', NEW d \in Planning!AutoDuties,
               Suggest(rows'[i], company', <<aim[1], aim[2]>>, d) # Nobody
        PROVE  FALSE
    <3>1. i \in DOMAIN rows /\ d \in Planning!Duties /\ aim = c.aim
      BY <1>2, <1>4, <2>2 DEF c, Planning!AutoDuties, Planning!Duties
    <3>2. rows'[i][d] = Nobody
      BY <2>2 DEF Suggest
    <3>3. rows[i][d] = Nobody /\ ~\E x \in c.edits : x[1] = i /\ x[2] = d
      BY <1>3, <3>1, <3>2
    <3>4. rows'[i].entity = rows[i].entity
      BY <1>1, <1>2, <3>1, EditedIs DEF RowsOk, ChangeOk
    <3>5. Suggest(rows'[i], company', <<aim[1], aim[2]>>, d) = Suggest(rows[i], company, c.aim, d)
      BY <1>1, <3>1, <3>2, <3>3, <3>4 DEF Suggest
    <3> QED
      BY <1>1, <2>2, <3>1, <3>3, <3>5 DEF Fills
  <2> QED
    BY <2>1, <2>2
<1> QED
  BY <1>3, <1>4
-----------------------------------------------------------------------------
(* The pages of the assignments count the same rows.                       *)

LEMMA Parted ==
  ASSUME NEW S, IsFiniteSet(S), NEW A
  PROVE  /\ IsFiniteSet(S \cap A) /\ IsFiniteSet(S \ A)
         /\ Planning!Cardinality(S)
              = Planning!Cardinality(S \cap A) + Planning!Cardinality(S \ A)
         /\ Planning!Cardinality(S) \in Nat /\ Planning!Cardinality(S \cap A) \in Nat
         /\ Planning!Cardinality(S \ A) \in Nat
<1>1. IsFiniteSet(S \cap A) /\ IsFiniteSet(S \ A)
  BY FS_Subset
<1>2. (S \cap A) \cup (S \ A) = S /\ (S \cap A) \cap (S \ A) = {}
  OBVIOUS
<1>3. Cardinality((S \cap A) \cup (S \ A))
        = Cardinality(S \cap A) + Cardinality(S \ A) - Cardinality((S \cap A) \cap (S \ A))
  BY <1>1, FS_Union
<1>4. Cardinality(S) = Cardinality(S \cap A) + Cardinality(S \ A) - Cardinality({})
  BY <1>2, <1>3
<1>5. /\ Cardinality({}) = 0 /\ Cardinality(S \cap A) \in Nat /\ Cardinality(S \ A) \in Nat
      /\ Cardinality(S) \in Nat
  BY <1>1, FS_CardinalityType, FS_EmptySet
<1> QED
  BY <1>1, <1>4, <1>5, PlanCardinality

LEMMA PlanSubset ==
  ASSUME NEW S, IsFiniteSet(S), NEW T, T \subseteq S
  PROVE  /\ IsFiniteSet(T) /\ Planning!Cardinality(T) \in Nat
         /\ Planning!Cardinality(T) <= Planning!Cardinality(S)
         /\ Planning!Cardinality(T) > 0 <=> T # {}
<1>1. IsFiniteSet(T) /\ Cardinality(T) <= Cardinality(S) /\ Cardinality(T) \in Nat
  BY FS_Subset, FS_CardinalityType
<1>2. Cardinality(T) = 0 <=> T = {}
  BY <1>1, FS_EmptySet
<1> QED
  BY <1>1, <1>2, PlanCardinality

LEMMA ElementsFinite ==
  ASSUME NEW s
  PROVE  IsFiniteSet(Planning!ElementsOf(s))
<1> DEFINE S == {r \in Requirements : r.standard = s}
           f == [q \in S |-> q.element]
<1>1. IsFiniteSet(S)
  BY PlanningFit, FS_Subset DEF PlanningFit
<1>2. f = [q \in S |-> f[q]] /\ {f[q] : q \in S} = Planning!ElementsOf(s)
  BY DEF Planning!ElementsOf
<1> HIDE DEF S, f
<1> QED
  BY <1>1, <1>2, ImageIs DEF S

LEMMA RowsFinite ==
  ASSUME RowsOk(rows)
  PROVE  IsFiniteSet(DOMAIN rows)
<1>1. DOMAIN rows = 1..Len(rows) /\ Len(rows) \in Nat
  BY DEF RowsOk
<1> QED
  BY <1>1, FS_Interval

\* The launch page and the preview of a standard.
LEMMA PreviewCounts ==
  ASSUME RowsOk(rows), NEW s \in staffed
  PROVE  LET open == {e \in Planning!Options(s) : Planning!ExistingCount(e) = 0}
             others == UNION {Planning!Options(t) : t \in staffed \ {s}}
             p == Planning!Preview(s)
         IN /\ p.total = p.reuse + p.review + p.new
            /\ p.new = Planning!Cardinality({e \in open :
                                               e \notin others \cup Planning!Collected})
            /\ p.live >= Planning!Cardinality(Planning!Options(s) \ open)
<1> DEFINE E == Planning!ElementsOf(s)
           open == {e \in Planning!Options(s) : Planning!ExistingCount(e) = 0}
           others == UNION {Planning!Options(t) : t \in staffed \ {s}}
           known == Planning!Elsewhere(s) \cup Planning!Assigned \cup Planning!Collected
           partial == Planning!PartlyMapped(s)
           old == E \cap known
           p == Planning!Preview(s)
<1>1. /\ p.total = Planning!Cardinality(E) /\ p.reuse = Planning!Cardinality(old \ partial)
      /\ p.review = Planning!Cardinality(old \cap partial)
      /\ p.new = Planning!Cardinality(E \ known)
      /\ p.live = Planning!Cardinality(E \cap (Planning!Assigned \cup Planning!Collected))
  BY DEF Planning!Preview
<1>2. IsFiniteSet(E)
  BY ElementsFinite
<1>3. Planning!Options(s) = E
  BY DEF Planning!Options
<1>4. others = Planning!Elsewhere(s)
  <2>1. \A t \in staffed \ {s} : Planning!Options(t) = Planning!ElementsOf(t)
    BY DEF Planning!Options
  <2> QED
    BY <2>1 DEF Planning!Elsewhere
<1>5. ASSUME NEW e PROVE Planning!ExistingCount(e) = 0 <=> e \notin Planning!Assigned
  <2>1. Planning!RowsOf(e) \subseteq DOMAIN rows
    BY DEF Planning!RowsOf, Planning!Indices
  <2>2. Planning!ExistingCount(e) \in Nat
        /\ (Planning!ExistingCount(e) > 0 <=> Planning!RowsOf(e) # {})
    BY <2>1, RowsFinite, PlanSubset DEF Planning!ExistingCount
  <2>3. Planning!RowsOf(e) # {} <=> e \in Planning!Assigned
    BY DEF Planning!RowsOf, Planning!Assigned
  <2> QED
    BY <2>2, <2>3
<1> HIDE DEF E, p, partial
<1>6. {e \in open : e \notin others \cup Planning!Collected} = E \ known
  BY <1>3, <1>4, <1>5
<1>7. Planning!Options(s) \ open \subseteq E \cap (Planning!Assigned \cup Planning!Collected)
  BY <1>3, <1>5
<1> HIDE DEF known, open, others
<1>8. /\ Planning!Cardinality(E) = Planning!Cardinality(E \cap known)
                                     + Planning!Cardinality(E \ known)
      /\ IsFiniteSet(E \cap known)
      /\ Planning!Cardinality(E \cap known) \in Nat /\ Planning!Cardinality(E \ known) \in Nat
  BY <1>2, Parted
<1>9. /\ Planning!Cardinality(old) = Planning!Cardinality(old \cap partial)
                                       + Planning!Cardinality(old \ partial)
      /\ Planning!Cardinality(old \cap partial) \in Nat /\ Planning!Cardinality(old \ partial) \in Nat
  BY <1>8, Parted
<1>10. p.total = p.reuse + p.review + p.new
  BY <1>1, <1>8, <1>9
<1>11. p.live >= Planning!Cardinality(Planning!Options(s) \ open)
  <2> DEFINE A == E \cap (Planning!Assigned \cup Planning!Collected)
             T == Planning!Options(s) \ open
  <2>1. IsFiniteSet(A)
    BY <1>2, FS_Subset
  <2> HIDE DEF A, T
  <2>2. T \subseteq A
    BY <1>7 DEF A, T
  <2>3. /\ Planning!Cardinality(T) <= Planning!Cardinality(A)
        /\ Planning!Cardinality(T) \in Nat /\ Planning!Cardinality(A) \in Nat
    BY <2>1, <2>2, PlanSubset
  <2>4. p.live = Planning!Cardinality(A)
    BY <1>1 DEF A
  <2> QED
    BY <2>3, <2>4 DEF T
<1> QED
  BY <1>1, <1>6, <1>10, <1>11 DEF E, p, open, others

\* Of a list, as many are completed in the matrix as have only approved points.
LEMMA DoneIs ==
  ASSUME RowsOk(rows), NEW list, list \subseteq DOMAIN rows
  PROVE  Planning!Done(list) = Planning!Cardinality({i \in list : Planning!AllApproved(i)})
<1> DEFINE L == {i \in list : Planning!AllApproved(i)}
           f == [i \in L |-> <<i, "completed">>]
           D == {x \in Planning!Matrix(list) : x[2] = "completed"}
<1>1. \A i : Planning!Status(i) = "completed" <=> Planning!AllApproved(i)
  BY DEF Planning!Status
<1>2. D = {<<i, "completed">> : i \in L}
  <2>1. ASSUME NEW x \in D PROVE \E i \in L : x = <<i, "completed">>
    <3>1. PICK i \in list : x = <<i, Planning!Status(i)>>
      BY DEF Planning!Matrix
    <3> QED
      BY <1>1, <2>1, <3>1
  <2>2. ASSUME NEW i \in L PROVE <<i, "completed">> \in D
    <3>1. Planning!Status(i) = "completed"
      BY <1>1
    <3>2. <<i, Planning!Status(i)>> \in Planning!Matrix(list)
      BY DEF Planning!Matrix
    <3> QED
      BY <3>1, <3>2
  <2> QED
    BY <2>1, <2>2
<1>3. /\ f = [i \in L |-> f[i]] /\ {f[i] : i \in L} = {<<i, "completed">> : i \in L}
      /\ \A i, j \in L : f[i] = f[j] => i = j
  OBVIOUS
<1>4. IsFiniteSet(L)
  BY RowsFinite, FS_Subset
<1> HIDE DEF f, L, D
<1>5. Cardinality({f[i] : i \in L}) = Cardinality(L)
  BY <1>3, <1>4, ImageIs
<1>6. Cardinality(D) = Cardinality(L)
  BY <1>2, <1>3, <1>5
<1> QED
  BY <1>6, PlanCardinality DEF Planning!Done, D, L

\* A sum over two duties nobody holds together.
LEMMA TwoDuties ==
  ASSUME NEW A, NEW C, IsFiniteSet(A \cup C), A \cap C = {}
  PROVE  Planning!Cardinality(A) + Planning!Cardinality(C) = Planning!Cardinality(A \cup C)
<1>1. (A \cup C) \cap A = A /\ (A \cup C) \ A = C
  OBVIOUS
<1>2. Planning!Cardinality(A \cup C)
        = Planning!Cardinality((A \cup C) \cap A) + Planning!Cardinality((A \cup C) \ A)
  BY Parted
<1> QED
  BY <1>1, <1>2

LEMMA ListsCount ==
  ASSUME RowsOk(rows), RowsSep(rows), NEW u \in Assignees
  PROVE  LET both == Planning!Bucket(u, "collector").assigned
                       + Planning!Bucket(u, "backup").assigned
             done == Planning!Bucket(u, "collector").completed
                       + Planning!Bucket(u, "backup").completed
         IN /\ both = Planning!Cardinality(Planning!Seen(u, "collector"))
            /\ done = Planning!Done(Planning!Seen(u, "collector"))
            /\ Planning!Bucket(u, "reviewer").completed
                 = Planning!Done(Planning!Seen(u, "reviewer"))
<1> DEFINE filled(d) == {i \in DOMAIN rows : rows[i][d] = u}
           ready(d) == {i \in filled(d) : Planning!AllApproved(i)}
           list == Planning!Seen(u, "collector")
<1>1. \A d : /\ Planning!Bucket(u, d).assigned = Planning!Cardinality(filled(d))
             /\ Planning!Bucket(u, d).completed = Planning!Cardinality(ready(d))
  BY DEF Planning!Bucket, Planning!Indices
<1>2. list = filled("collector") \cup filled("backup")
  BY DEF Planning!Seen, Planning!Indices
<1>3. Planning!Seen(u, "reviewer") = filled("reviewer")
  BY DEF Planning!Seen, Planning!Indices
<1>4. filled("collector") \cap filled("backup") = {}
  <2> SUFFICES ASSUME NEW i \in DOMAIN rows, rows[i]["collector"] = u, rows[i]["backup"] = u
               PROVE  FALSE
    OBVIOUS
  <2>1. u # Nobody
    BY PlanningFit DEF PlanningFit
  <2>2. Planning!Distinct(rows[i])
    BY DEF RowsSep
  <2> QED
    BY <2>1, <2>2 DEF Planning!Distinct, Planning!Holders, Planning!Duties
<1>5. list \subseteq DOMAIN rows /\ filled("reviewer") \subseteq DOMAIN rows
  BY <1>2
<1>6. {i \in list : Planning!AllApproved(i)} = ready("collector") \cup ready("backup")
      /\ ready("collector") \cap ready("backup") = {}
  BY <1>2, <1>4
<1>7. IsFiniteSet(DOMAIN rows)
  BY RowsFinite
<1>8. IsFiniteSet(list) /\ IsFiniteSet(ready("collector") \cup ready("backup"))
  BY <1>5, <1>6, <1>7, FS_Subset
<1>9. Planning!Done(list) = Planning!Cardinality({i \in list : Planning!AllApproved(i)})
      /\ Planning!Done(filled("reviewer")) = Planning!Cardinality(ready("reviewer"))
  BY <1>5, DoneIs
<1> HIDE DEF filled, ready, list
<1>10. Planning!Cardinality(filled("collector")) + Planning!Cardinality(filled("backup"))
         = Planning!Cardinality(list)
  BY <1>2, <1>4, <1>8, TwoDuties
<1>11. Planning!Cardinality(ready("collector")) + Planning!Cardinality(ready("backup"))
         = Planning!Done(list)
  BY <1>6, <1>8, <1>9, TwoDuties
<1> QED
  BY <1>1, <1>3, <1>9, <1>10, <1>11 DEF list

LEMMA TeamCounts ==
  ASSUME RowsOk(rows)
  PROVE  Planning!TeamSize = Planning!Cardinality(
           {u \in Assignees : \E d \in Planning!Duties : Planning!Bucket(u, d).assigned > 0})
<1> DEFINE team == UNION {{rows[i][d] : d \in Planning!Holders(rows[i])} : i \in DOMAIN rows}
           busy == {u \in Assignees : \E d \in Planning!Duties : Planning!Bucket(u, d).assigned > 0}
<1>1. ASSUME NEW u, NEW d
      PROVE  Planning!Bucket(u, d).assigned > 0 <=> \E i \in DOMAIN rows : rows[i][d] = u
  <2> DEFINE filled == {i \in DOMAIN rows : rows[i][d] = u}
  <2>1. Planning!Bucket(u, d).assigned = Planning!Cardinality(filled)
    BY DEF Planning!Bucket, Planning!Indices
  <2>2. Planning!Cardinality(filled) > 0 <=> filled # {}
    BY RowsFinite, PlanSubset
  <2> QED
    BY <2>1, <2>2
<1>2. \A i \in DOMAIN rows : \A d \in Planning!Duties : rows[i][d] \in Assignees \cup {Nobody}
  BY PlanFields DEF RowsOk, Someone
<1>3. ASSUME NEW u PROVE u \in team <=> u \in busy
  <2>1. u \in team <=> \E i \in DOMAIN rows, d \in Planning!Duties :
                         rows[i][d] # Nobody /\ rows[i][d] = u
    BY DEF Planning!Holders
  <2>2. u \in busy <=> u \in Assignees /\ \E d \in Planning!Duties, i \in DOMAIN rows :
                                            rows[i][d] = u
    BY <1>1
  <2>3. Nobody \notin Assignees
    BY PlanningFit DEF PlanningFit
  <2> HIDE DEF team, busy
  <2> QED
    BY <1>2, <2>1, <2>2, <2>3
<1> HIDE DEF team, busy
<1>4. team = busy
  BY <1>3
<1> QED
  BY <1>4 DEF Planning!TeamSize, Planning!Indices, team, busy

LEMMA NothingToFill ==
  ASSUME Planning!AllAssigned, NEW a, NEW b, NEW y \in Planning!Fillings(a, b),
         y[2] = "collector"
  PROVE  y[3] = Nobody
<1>1. PICK i \in DOMAIN rows, d \in Planning!AutoDuties :
        y = <<i, d, Planning!Proposed(i, a, b)[d]>>
  BY DEF Planning!Fillings, Planning!Indices
<1>2. d = "collector" /\ y[3] = Planning!Proposed(i, a, b)[d]
  BY <1>1
<1>3. Planning!Proposed(i, a, b)[d] = Suggest(rows[i], company, <<a, b>>, d)
  BY ProposedIs
<1>4. rows[i]["collector"] # Nobody
  BY DEF Planning!AllAssigned, Planning!Indices
<1> QED
  BY <1>2, <1>3, <1>4 DEF Suggest

LEMMA PlanPagesAgree == PlanInv => Planning!PagesAgree
<1> SUFFICES ASSUME PlanInv PROVE Planning!PagesAgree
  OBVIOUS
<1>1. RowsOk(rows) /\ (~raced => RowsSep(rows))
  BY DEF PlanInv, StaffingOk
<1>2. \A s \in staffed :
        LET open == {e \in Planning!Options(s) : Planning!ExistingCount(e) = 0}
            others == UNION {Planning!Options(t) : t \in staffed \ {s}}
            p == Planning!Preview(s)
        IN /\ p.total = p.reuse + p.review + p.new
           /\ p.new = Planning!Cardinality({e \in open :
                                              e \notin others \cup Planning!Collected})
           /\ p.live >= Planning!Cardinality(Planning!Options(s) \ open)
  BY <1>1, PreviewCounts
<1>3. ~raced => \A u \in Assignees :
         LET both == Planning!Bucket(u, "collector").assigned
                       + Planning!Bucket(u, "backup").assigned
             done == Planning!Bucket(u, "collector").completed
                       + Planning!Bucket(u, "backup").completed
         IN /\ both = Planning!Cardinality(Planning!Seen(u, "collector"))
            /\ done = Planning!Done(Planning!Seen(u, "collector"))
            /\ Planning!Bucket(u, "reviewer").completed
                 = Planning!Done(Planning!Seen(u, "reviewer"))
  BY <1>1, ListsCount
<1>4. Planning!TeamSize = Planning!Cardinality(
           {u \in Assignees : \E d \in Planning!Duties : Planning!Bucket(u, d).assigned > 0})
  BY <1>1, TeamCounts
<1>5. Planning!AllAssigned =>
        \A plan \in {Planning!Fillings(x[1], x[2]) : x \in Planning!Askable} :
          \A y \in plan : y[2] = "collector" => y[3] = Nobody
  BY NothingToFill
<1> QED
  BY <1>2, <1>3, <1>4, <1>5 DEF Planning!PagesAgree

\* For any project: as long as no request commits what others have overtaken, a metric
\* has one assignment in each scope and nobody two duties in one; the launch page, the
\* preview, the matrix and the summary count the same rows; a launch assigns what was
\* selected, an automatic assignment fills what it can and takes nothing away; and a
\* change of the boundary does what its preview said.
THEOREM StaffingAsPlanned == Composition => AssignmentsPlanned
<1>1. PlanInv => Planning!RowsSeparate /\ Planning!PagesAgree
  BY SeparateIs, PlanPagesAgree DEF PlanInv, StaffingOk
<1>2. PlanInv => Planning!Launched /\ Planning!Settled
  BY PlanIsLaunched, PlanIsSettled
<1>3. Composition => []Planning!RowsSeparate /\ []Planning!PagesAgree
  BY <1>1, PlanAlways, PTL
<1>4. Composition => Planning!PromisesKept
  <2>1. PlanInv /\ [Step]_allVars => [Planning!Launched /\ Planning!Settled]_(Planning!vars)
    BY <1>2 DEF Step, allVars, serviceVars, planningVars, Planning!vars
  <2> QED
    BY <2>1, PlanAlways, PTL DEF Composition, Planning!PromisesKept
<1> QED
  BY <1>3, <1>4, PreviewKeeps DEF AssignmentsPlanned, Planning!AssignmentsPlanned

-----------------------------------------------------------------------------
(* The catalogue.  A row is known by its standard, disclosure, code and copy, *)
(* and of those there are as many as the greatest copy: what is written is   *)
(* either a row that was there or has a copy of its own.                    *)

Coded(s, st, d, c) == {r \in s : r.standard = st /\ r.disclosure = d /\ r.code = c}
SameItem(r, q) ==
  r.standard = q.standard /\ r.disclosure = q.disclosure /\ r.code = q.code /\ r.copy = q.copy
EntryOk(r) ==
  /\ r = [standard |-> r.standard, disclosure |-> r.disclosure, code |-> r.code,
          copy |-> r.copy, text |-> r.text, current |-> r.current]
  /\ r.code \in DOMAIN ElementOf /\ r.current \in BOOLEAN
CopyOf(s, r) == Cardinality(Coded(s, r.standard, r.disclosure, r.code))
EntriesOk(s) ==
  /\ IsFiniteSet(s)
  /\ \A r \in s : EntryOk(r) /\ r.copy \in Nat /\ r.copy <= CopyOf(s, r)
  /\ \A r, q \in s : SameItem(r, q) => r = q
NewEntry(s, r) == r.copy = CopyOf(s, r) + 1
\* What every operation makes of the items.
Rewritten(s, t) ==
  /\ IsFiniteSet(t) /\ \A r \in t : EntryOk(r)
  /\ \A r \in s : \E q \in t : SameItem(q, r)
  /\ \A r, q \in t : SameItem(r, q) => r = q
  /\ \A r \in t : NewEntry(s, r) \/ \E q \in s : SameItem(q, r)

LEMMA CatalogueCardinality == \A S : Imports!Cardinality(S) = Cardinality(S)
BY DEF Imports!Cardinality, Cardinality, Imports!IsFiniteSet, IsFiniteSet

LEMMA SameItemIs == \A r, q : Imports!Id(r) = Imports!Id(q) <=> SameItem(r, q)
BY DEF Imports!Id, SameItem

\* A copy that is one more than there are is not there.
LEMMA NewIsNew ==
  ASSUME NEW s, NEW r, EntriesOk(s), NewEntry(s, r)
  PROVE  /\ \A q \in s : ~SameItem(q, r)
         /\ r.copy \in Nat
<1>1. Coded(s, r.standard, r.disclosure, r.code) \subseteq s /\ IsFiniteSet(s)
  BY DEF Coded, EntriesOk
<1>2. CopyOf(s, r) \in Nat
  BY <1>1, FS_Subset, FS_CardinalityType DEF CopyOf
<1>3. ASSUME NEW q \in s, SameItem(q, r) PROVE FALSE
  <2>1. CopyOf(s, q) = CopyOf(s, r) /\ q.copy = r.copy
    BY <1>3 DEF CopyOf, SameItem
  <2>2. q.copy \in Nat /\ q.copy <= CopyOf(s, q)
    BY DEF EntriesOk
  <2> QED
    BY <1>2, <2>1, <2>2 DEF NewEntry
<1> QED
  BY <1>2, <1>3 DEF NewEntry

\* Rows that are kept, or rewritten in their place, are no fewer.
LEMMA NoFewer ==
  ASSUME NEW s, NEW t, EntriesOk(s), Rewritten(s, t), NEW st, NEW d, NEW c
  PROVE  /\ Cardinality(Coded(s, st, d, c)) \in Nat /\ Cardinality(Coded(t, st, d, c)) \in Nat
         /\ Cardinality(Coded(s, st, d, c)) <= Cardinality(Coded(t, st, d, c))
         /\ \A r \in Coded(t, st, d, c) : NewEntry(s, r) =>
              Cardinality(Coded(s, st, d, c)) + 1 <= Cardinality(Coded(t, st, d, c))
<1> DEFINE A == Coded(s, st, d, c)
           Z == Coded(t, st, d, c)
           f == [r \in A |-> CHOOSE q \in t : SameItem(q, r)]
           W == {q \in Z : \E r \in A : f[r] = q}
<1>1. IsFiniteSet(A) /\ IsFiniteSet(Z) /\ IsFiniteSet(W) /\ W \subseteq Z
  <2>1. A \subseteq s /\ Z \subseteq t /\ W \subseteq Z /\ IsFiniteSet(s) /\ IsFiniteSet(t)
    BY DEF Coded, EntriesOk, Rewritten
  <2> QED
    BY <2>1, FS_Subset
<1>2. \A r \in A : f[r] \in t /\ SameItem(f[r], r)
  <2>1. \A r \in A : \E q \in t : SameItem(q, r)
    BY DEF Coded, Rewritten
  <2> QED
    BY <2>1
<1>3. \A r \in A : f[r] \in Z /\ f[r] \in W
  <2>1. ASSUME NEW r \in A PROVE f[r] \in Z
    <3>1. r.standard = st /\ r.disclosure = d /\ r.code = c
      BY DEF Coded
    <3>2. f[r] \in t /\ SameItem(f[r], r)
      BY <1>2
    <3> HIDE DEF f
    <3> QED
      BY <3>1, <3>2 DEF Coded, SameItem
  <2> HIDE DEF A, Z, f
  <2> QED
    BY <2>1
<1>4. \A r, q \in A : f[r] = f[q] => r = q
  <2>1. \A r, q \in A : f[r] = f[q] => SameItem(r, q)
    BY <1>2 DEF SameItem
  <2>2. A \subseteq s
    BY DEF Coded
  <2> QED
    BY <2>1, <2>2 DEF EntriesOk
<1>5. f \in Injection(A, W)
  BY <1>3, <1>4 DEF Injection, IsInjective
<1>6. Cardinality(A) <= Cardinality(W) /\ Cardinality(W) <= Cardinality(Z)
      /\ Cardinality(A) \in Nat /\ Cardinality(W) \in Nat /\ Cardinality(Z) \in Nat
  <2>1. Cardinality(A) <= Cardinality(W)
    BY <1>1, <1>5, FS_Injection
  <2> QED
    BY <1>1, <2>1, FS_Subset, FS_CardinalityType
<1>7. ASSUME NEW r \in Z, NewEntry(s, r) PROVE Cardinality(A) + 1 <= Cardinality(Z)
  <2>1. r \notin W
    <3>1. SUFFICES ASSUME NEW a \in A, f[a] = r PROVE FALSE
      OBVIOUS
    <3>2. SameItem(r, a)
      BY <1>2, <3>1
    <3>3. a \in s /\ SameItem(a, r)
      BY <3>2 DEF Coded, SameItem
    <3> QED
      BY <1>7, <3>3, NewIsNew
  <2>2. Cardinality(W \cup {r}) = Cardinality(W) + 1 /\ IsFiniteSet(W \cup {r})
    BY <1>1, <2>1, FS_AddElement
  <2>3. Cardinality(W \cup {r}) <= Cardinality(Z)
    <3>1. W \cup {r} \subseteq Z
      BY <1>1
    <3> QED
      BY <1>1, <3>1, FS_Subset
  <2> QED
    BY <1>6, <2>2, <2>3
<1> QED
  BY <1>6, <1>7

LEMMA Rewriting ==
  ASSUME NEW s, NEW t, EntriesOk(s), Rewritten(s, t)
  PROVE  EntriesOk(t)
<1>1. ASSUME NEW r \in t PROVE r.copy \in Nat /\ r.copy <= CopyOf(t, r)
  <2> DEFINE A == Coded(s, r.standard, r.disclosure, r.code)
             Z == Coded(t, r.standard, r.disclosure, r.code)
  <2>1. /\ Cardinality(A) \in Nat /\ Cardinality(Z) \in Nat /\ Cardinality(A) <= Cardinality(Z)
        /\ NewEntry(s, r) => Cardinality(A) + 1 <= Cardinality(Z)
    <3>1. r \in Z
      BY DEF Coded
    <3> QED
      BY <3>1, NoFewer
  <2>2. CASE NewEntry(s, r)
    BY <2>1, <2>2 DEF NewEntry, CopyOf
  <2>3. CASE \E q \in s : SameItem(q, r)
    <3>1. PICK q \in s : SameItem(q, r)
      BY <2>3
    <3>2. q.copy = r.copy /\ CopyOf(s, q) = Cardinality(A)
      BY <3>1 DEF SameItem, CopyOf
    <3>3. q.copy \in Nat /\ q.copy <= CopyOf(s, q)
      BY DEF EntriesOk
    <3> QED
      BY <2>1, <3>2, <3>3 DEF CopyOf
  <2> QED
    BY <2>2, <2>3 DEF Rewritten
<1> QED
  BY <1>1 DEF EntriesOk, Rewritten

\* A mapping is of an item that is there, and a current item that was ever mapped to an
\* element still is: a mapping is retired with its item, or for its next version.
LinkOk(s, m) ==
  /\ m = [item |-> m.item, element |-> m.element, version |-> m.version, current |-> m.current]
  /\ m.version \in 1..MaxVersion /\ m.current \in BOOLEAN
  /\ \E r \in s : Imports!Id(r) = m.item
LinksOk(s, ms) ==
  /\ \A m \in ms : LinkOk(s, m)
  /\ \A r \in s, m \in ms : r.current /\ m.item = Imports!Id(r) =>
       \E n \in ms : n.current /\ n.item = m.item /\ n.element = m.element
DisclosureOk(d) == d = [standard |-> d.standard, code |-> d.code, section |-> d.section]
BatchOk(b) ==
  \/ b = Imports!Quiet
  \/ /\ b = [script |-> b.script, left |-> b.left, shared |-> b.shared, skip |-> b.skip]
     /\ b.script \in Imports!Scripts /\ b.left \subseteq Editions /\ b.shared \in BOOLEAN
CatalogueInv ==
  /\ EntriesOk(items) /\ LinksOk(items, mappings)
  /\ \A st \in DOMAIN standards : standards[st] \in BOOLEAN
  /\ \A d \in disclosures : DisclosureOk(d) /\ d.standard \in DOMAIN standards
  /\ DOMAIN elements = Imports!Range(ElementOf)
  /\ BatchOk(batch)
  /\ changes = [runs |-> changes.runs, edits |-> changes.edits]
  /\ changes.runs \in 0..MaxRuns /\ changes.edits \in 0..MaxChanges

\* What a document makes of the items of one of its disclosures.
RowOf(e, x, u) ==
  /\ EntryOk(u) /\ u.standard = e.standard /\ u.disclosure = x.code /\ u.current
  /\ u.code \in DOMAIN x.items /\ u.text = x.items[u.code]

LEMMA WrittenAre ==
  ASSUME NEW e, NEW x, NEW r, EntriesOk(items)
  PROVE  r \in Imports!Written(e, x) <=>
           r \in items /\ r.current /\ r.standard = e.standard /\ r.disclosure = x.code
BY DEF Imports!Written, Imports!Current, Imports!RowsOf

LEMMA NextIs ==
  ASSUME NEW st, NEW d, NEW c
  PROVE  Imports!NextCopy(st, d, c) = Cardinality(Coded(items, st, d, c)) + 1
<1>1. {r \in Imports!RowsOf(st, d) : r.code = c} = Coded(items, st, d, c)
  BY DEF Imports!RowsOf, Coded
<1> QED
  BY <1>1, CatalogueCardinality DEF Imports!NextCopy

LEMMA UpsertedIs ==
  ASSUME EntriesOk(items), NEW e \in Editions, NEW x \in e.disclosures, ~Imports!Ambiguous(e)
  PROVE  LET U == Imports!Upserted(e, x)
             W == Imports!Written(e, x)
         IN /\ \A u \in U : /\ RowOf(e, x, u)
                            /\ \/ \E r \in W : SameItem(r, u)
                               \/ NewEntry(items, u) /\ \A r \in W : r.code # u.code
            /\ \A c \in DOMAIN x.items : \E u \in U : u.code = c
            /\ \A u, v \in U : u.code = v.code => u = v
            /\ \A r \in W : r.code \in DOMAIN x.items => \E u \in U : SameItem(u, r)
            /\ IsFiniteSet(U) /\ Cardinality(U) = Cardinality(DOMAIN x.items)
<1> DEFINE U == Imports!Upserted(e, x)
           W == Imports!Written(e, x)
           kept(r) == [r EXCEPT !.text = x.items[r.code]]
           row(c) == [standard |-> e.standard, disclosure |-> x.code, code |-> c,
                      copy |-> Imports!NextCopy(e.standard, x.code, c), text |-> x.items[c],
                      current |-> TRUE]
<1>1. \A u : u \in U <=> \/ \E r \in W : r.code \in DOMAIN x.items /\ u = kept(r)
                         \/ \E c \in DOMAIN x.items : (\A r \in W : r.code # c) /\ u = row(c)
  BY DEF Imports!Upserted
<1>2. DOMAIN x.items \subseteq DOMAIN ElementOf
  BY CatalogueFit
<1>3. ASSUME NEW r \in W, r.code \in DOMAIN x.items
      PROVE  /\ RowOf(e, x, kept(r)) /\ SameItem(r, kept(r)) /\ SameItem(kept(r), r)
             /\ kept(r).code = r.code
  <2>1. r \in items /\ r.current /\ r.standard = e.standard /\ r.disclosure = x.code
    BY WrittenAre
  <2>2. EntryOk(r)
    BY <2>1 DEF EntriesOk
  <2>3. kept(r) = [standard |-> r.standard, disclosure |-> r.disclosure, code |-> r.code,
                   copy |-> r.copy, text |-> x.items[r.code], current |-> r.current]
    BY <2>2 DEF EntryOk
  <2> QED
    BY <1>3, <2>1, <2>2, <2>3 DEF RowOf, EntryOk, SameItem
<1>4. ASSUME NEW c \in DOMAIN x.items
      PROVE  RowOf(e, x, row(c)) /\ NewEntry(items, row(c)) /\ row(c).code = c
  <2>1. EntryOk(row(c))
    BY <1>2 DEF EntryOk
  <2>2. NewEntry(items, row(c))
    BY NextIs DEF NewEntry, CopyOf
  <2> QED
    BY <2>1, <2>2 DEF RowOf
<1>5. ASSUME NEW r \in W, NEW q \in W, r.code = q.code, r.code \in DOMAIN x.items PROVE r = q
  BY <1>5 DEF Imports!Ambiguous
<1> HIDE DEF U, W, kept, row
<1>6. ASSUME NEW u \in U
      PROVE  /\ RowOf(e, x, u)
             /\ \/ \E r \in W : SameItem(r, u)
                \/ NewEntry(items, u) /\ \A r \in W : r.code # u.code
  BY <1>1, <1>3, <1>4
<1>7. ASSUME NEW c \in DOMAIN x.items PROVE \E u \in U : u.code = c
  <2>1. CASE \E r \in W : r.code = c
    BY <1>1, <1>3, <2>1
  <2>2. CASE \A r \in W : r.code # c
    BY <1>1, <1>4, <2>2
  <2> QED
    BY <2>1, <2>2
<1>8. ASSUME NEW u \in U, NEW v \in U, u.code = v.code PROVE u = v
  <2>1. CASE \E r \in W : r.code = u.code
    <3>1. PICK r \in W : r.code = u.code
      BY <2>1
    <3>2. ASSUME NEW w \in U, w.code = r.code PROVE w = kept(r)
      BY <1>1, <1>3, <1>4, <1>5, <3>2
    <3> QED
      BY <1>8, <3>1, <3>2
  <2>2. CASE \A r \in W : r.code # u.code
    <3>1. ASSUME NEW w \in U, w.code = u.code PROVE w = row(u.code)
      BY <1>1, <1>3, <1>4, <2>2, <3>1
    <3> QED
      BY <1>8, <3>1
  <2> QED
    BY <2>1, <2>2
<1>9. ASSUME NEW r \in W, r.code \in DOMAIN x.items PROVE \E u \in U : SameItem(u, r)
  BY <1>1, <1>3, <1>9
<1>10. IsFiniteSet(U) /\ Cardinality(U) = Cardinality(DOMAIN x.items)
  <2> DEFINE g == [u \in U |-> u.code]
  <2>1. \A u \in U : u.code \in DOMAIN x.items
    BY <1>6 DEF RowOf
  <2>2. g \in Injection(U, DOMAIN x.items)
    BY <1>8, <2>1 DEF Injection, IsInjective
  <2>3. g \in Surjection(U, DOMAIN x.items)
    BY <1>7, <2>1 DEF Surjection
  <2>4. IsFiniteSet(DOMAIN x.items)
    BY <1>2, FS_Subset, CatalogueFit
  <2> QED
    BY <2>2, <2>3, <2>4, FS_Injection
<1> QED
  BY <1>6, <1>7, <1>8, <1>9, <1>10 DEF U, W

\* What a document makes of all of them.
UpsertedBy(e) == UNION {Imports!Upserted(e, x) : x \in e.disclosures}
StaleBy(e) == UNION {Imports!Stale(e, x) : x \in e.disclosures}
WrittenBy(e) == UNION {Imports!Written(e, x) : x \in e.disclosures}
Ended(r) == [r EXCEPT !.current = FALSE]

LEMMA EndedIs ==
  ASSUME NEW r, EntryOk(r)
  PROVE  EntryOk(Ended(r)) /\ SameItem(r, Ended(r)) /\ SameItem(Ended(r), r) /\ ~Ended(r).current
<1> DEFINE no == FALSE
           q == [standard |-> r.standard, disclosure |-> r.disclosure, code |-> r.code,
                 copy |-> r.copy, text |-> r.text, current |-> no]
<1>1. no = FALSE
  OBVIOUS
<1> HIDE DEF no
<1>2. Ended(r) = q
  <2>1. Ended(r) = [r EXCEPT !.current = no]
    BY <1>1 DEF Ended
  <2>2. [r EXCEPT !.current = no] = q
    BY DEF EntryOk
  <2> QED
    BY <2>1, <2>2
<1>3. EntryOk(q) /\ SameItem(r, q) /\ SameItem(q, r) /\ ~q.current
  BY <1>1 DEF EntryOk, SameItem
<1> QED
  BY <1>2, <1>3

\* The rows of a document: what is stale, what is written, and that they do not meet.
LEMMA DocumentRows ==
  ASSUME EntriesOk(items), NEW e \in Editions, ~Imports!Ambiguous(e)
  PROVE  /\ \A u \in UpsertedBy(e) : \E x \in e.disclosures :
              /\ u \in Imports!Upserted(e, x) /\ RowOf(e, x, u)
              /\ \/ \E r \in Imports!Written(e, x) : SameItem(r, u)
                 \/ NewEntry(items, u)
         /\ \A u, v \in UpsertedBy(e) : SameItem(u, v) => u = v
         /\ \A r \in WrittenBy(e) : /\ r \in items /\ r.current
                                    /\ r \in StaleBy(e) \/ \E u \in UpsertedBy(e) : SameItem(u, r)
         /\ StaleBy(e) \subseteq WrittenBy(e)
         /\ \A u \in UpsertedBy(e), r \in items : SameItem(u, r) => r \in WrittenBy(e) /\ r \notin StaleBy(e)
<1> DEFINE U == UpsertedBy(e)
<1>1. \A x, y \in e.disclosures : x.code = y.code => x = y
  BY CatalogueFit
<1>2. ASSUME NEW u \in U
      PROVE  \E x \in e.disclosures :
               /\ u \in Imports!Upserted(e, x) /\ RowOf(e, x, u)
               /\ \/ \E r \in Imports!Written(e, x) : SameItem(r, u)
                  \/ NewEntry(items, u)
  <2>1. PICK x \in e.disclosures : u \in Imports!Upserted(e, x)
    BY DEF UpsertedBy
  <2> QED
    BY <2>1, UpsertedIs
<1>3. ASSUME NEW u \in U, NEW v \in U, SameItem(u, v) PROVE u = v
  <2>1. PICK x \in e.disclosures : u \in Imports!Upserted(e, x) /\ RowOf(e, x, u)
    BY <1>2
  <2>2. PICK y \in e.disclosures : v \in Imports!Upserted(e, y) /\ RowOf(e, y, v)
    BY <1>2
  <2>3. x = y
    BY <1>1, <1>3, <2>1, <2>2 DEF SameItem, RowOf
  <2>4. u.code = v.code
    BY <1>3 DEF SameItem
  <2> QED
    BY <2>1, <2>2, <2>3, <2>4, UpsertedIs
<1>4. ASSUME NEW r \in WrittenBy(e)
      PROVE  /\ r \in items /\ r.current
             /\ r \in StaleBy(e) \/ \E u \in U : SameItem(u, r)
  <2>1. PICK x \in e.disclosures : r \in Imports!Written(e, x)
    BY DEF WrittenBy
  <2>2. r \in items /\ r.current
    BY <2>1, WrittenAre
  <2>3. CASE r.code \in DOMAIN x.items
    <3>1. \E u \in Imports!Upserted(e, x) : SameItem(u, r)
      BY <2>1, <2>3, UpsertedIs
    <3> QED
      BY <2>2, <3>1 DEF UpsertedBy
  <2>4. CASE r.code \notin DOMAIN x.items
    BY <2>1, <2>2, <2>4 DEF StaleBy, Imports!Stale
  <2> QED
    BY <2>3, <2>4
<1>5. StaleBy(e) \subseteq WrittenBy(e)
  BY DEF StaleBy, WrittenBy, Imports!Stale
<1>6. ASSUME NEW u \in U, NEW r \in items, SameItem(u, r)
      PROVE  r \in WrittenBy(e) /\ r \notin StaleBy(e)
  <2>1. PICK x \in e.disclosures :
          /\ RowOf(e, x, u)
          /\ (\E q \in Imports!Written(e, x) : SameItem(q, u)) \/ NewEntry(items, u)
    BY <1>2
  <2>2. SameItem(r, u)
    BY <1>6 DEF SameItem
  <2>3. ~NewEntry(items, u)
    BY <2>2, NewIsNew
  <2>4. PICK q \in Imports!Written(e, x) : SameItem(q, u)
    BY <2>1, <2>3
  <2>5. q \in items /\ q = r
    <3>1. q \in items
      BY <2>4, WrittenAre
    <3>2. SameItem(q, r)
      BY <2>2, <2>4 DEF SameItem
    <3> QED
      BY <3>1, <3>2 DEF EntriesOk
  <2>6. ASSUME r \in StaleBy(e) PROVE FALSE
    <3>1. PICK y \in e.disclosures : r \in Imports!Written(e, y) /\ r.code \notin DOMAIN y.items
      BY <2>6 DEF StaleBy, Imports!Stale
    <3>2. y.code = x.code
      BY <2>4, <2>5, <3>1, WrittenAre
    <3>3. y = x
      BY <1>1, <3>2
    <3>4. r.code \in DOMAIN x.items
      BY <1>6, <2>1 DEF RowOf, SameItem
    <3> QED
      BY <3>1, <3>3, <3>4
  <2> QED
    BY <2>4, <2>5, <2>6 DEF WrittenBy
<1> QED
  BY <1>2, <1>3, <1>4, <1>5, <1>6

LEMMA DocumentFinite ==
  ASSUME EntriesOk(items), NEW e \in Editions, ~Imports!Ambiguous(e)
  PROVE  IsFiniteSet(UpsertedBy(e)) /\ IsFiniteSet({Ended(r) : r \in StaleBy(e)})
<1>1. IsFiniteSet(UpsertedBy(e))
  <2> DEFINE f == [x \in e.disclosures |-> Imports!Upserted(e, x)]
             T == {f[x] : x \in e.disclosures}
  <2>1. IsFiniteSet(T)
    <3>1. IsFiniteSet(e.disclosures) /\ f = [x \in e.disclosures |-> f[x]]
      BY CatalogueFit
    <3> HIDE DEF f
    <3> QED
      BY <3>1, ImageIs
  <2>2. \A A \in T : IsFiniteSet(A)
    <3>1. ASSUME NEW x \in e.disclosures PROVE IsFiniteSet(f[x])
      BY UpsertedIs
    <3> HIDE DEF f
    <3> QED
      BY <3>1
  <2>3. UpsertedBy(e) = UNION T
    BY DEF UpsertedBy
  <2> QED
    BY <2>1, <2>2, <2>3, FS_UNION
<1>2. IsFiniteSet({Ended(r) : r \in StaleBy(e)})
  <2> DEFINE f == [r \in StaleBy(e) |-> Ended(r)]
  <2>1. StaleBy(e) \subseteq items
    BY DocumentRows
  <2>2. IsFiniteSet(StaleBy(e)) /\ f = [r \in StaleBy(e) |-> f[r]]
    BY <2>1, FS_Subset DEF EntriesOk
  <2>3. {Ended(r) : r \in StaleBy(e)} = {f[r] : r \in StaleBy(e)}
    OBVIOUS
  <2> HIDE DEF f
  <2> QED
    BY <2>2, <2>3, ImageIs
<1> QED
  BY <1>1, <1>2

\* Of what was current in its disclosures nothing stays as it was.
ItemsAre(e, t) ==
  \A r : r \in t <=> \/ r \in items /\ r \notin WrittenBy(e)
                     \/ r \in UpsertedBy(e)
                     \/ \E q \in StaleBy(e) : r = Ended(q)

LEMMA DocumentItems ==
  ASSUME EntriesOk(items), NEW e \in Editions, NEW shared, Imports!Document(e, shared)
  PROVE  ~Imports!Ambiguous(e) /\ ItemsAre(e, items')
<1> DEFINE U == UpsertedBy(e)
           W == WrittenBy(e)
           S == StaleBy(e)
<1>1. /\ ~Imports!Ambiguous(e)
      /\ items' = (items \ {r \in W : r \in S \/ r.code \in {u.code : u \in U}})
                  \cup U \cup {Ended(r) : r \in S}
  BY DEF Imports!Document, UpsertedBy, WrittenBy, StaleBy, Imports!Retired, Ended
<1>2. \A r \in W : r \in S \/ r.code \in {u.code : u \in U}
  <2>1. ASSUME NEW r \in W, r \notin S PROVE r.code \in {u.code : u \in U}
    <3>1. PICK u \in U : SameItem(u, r)
      BY <1>1, <2>1, DocumentRows
    <3> QED
      BY <3>1 DEF SameItem
  <2> QED
    BY <2>1
<1> HIDE DEF U, W, S
<1>3. \A r : r \in items' <=> \/ r \in items /\ r \notin W
                              \/ r \in U
                              \/ \E q \in S : r = Ended(q)
  BY <1>1, <1>2
<1> QED
  BY <1>1, <1>3 DEF U, W, S, ItemsAre

LEMMA DocumentWrites ==
  ASSUME EntriesOk(items), NEW e \in Editions, ~Imports!Ambiguous(e), NEW t, ItemsAre(e, t)
  PROVE  Rewritten(items, t)
<1> DEFINE U == UpsertedBy(e)
           W == WrittenBy(e)
           S == StaleBy(e)
<1>1. \A r : r \in t <=> \/ r \in items /\ r \notin W
                         \/ r \in U
                         \/ \E q \in S : r = Ended(q)
  BY DEF ItemsAre
<1>2. /\ \A u \in U : EntryOk(u) /\ (NewEntry(items, u) \/ \E r \in items : SameItem(r, u))
      /\ \A u, v \in U : SameItem(u, v) => u = v
      /\ \A r \in W : r \in items /\ (r \in S \/ \E u \in U : SameItem(u, r))
      /\ S \subseteq W
      /\ \A u \in U, r \in items : SameItem(u, r) => r \in W /\ r \notin S
  <2>1. ASSUME NEW u \in U
        PROVE  EntryOk(u) /\ (NewEntry(items, u) \/ \E r \in items : SameItem(r, u))
    <3>1. PICK x \in e.disclosures :
            /\ RowOf(e, x, u)
            /\ (\E r \in Imports!Written(e, x) : SameItem(r, u)) \/ NewEntry(items, u)
      BY DocumentRows
    <3> QED
      BY <3>1, WrittenAre DEF RowOf
  <2> QED
    BY <2>1, DocumentRows
<1>3. \A q \in S : /\ q \in items /\ EntryOk(Ended(q)) /\ SameItem(q, Ended(q))
                   /\ SameItem(Ended(q), q)
  <2>1. \A q \in S : q \in items
    BY <1>2
  <2> QED
    BY <2>1, EndedIs DEF EntriesOk
<1>4. IsFiniteSet(t)
  <2> DEFINE A == items \ W
             B == {Ended(r) : r \in S}
  <2>1. IsFiniteSet(A) /\ IsFiniteSet(U) /\ IsFiniteSet(B)
    <3>1. IsFiniteSet(items) /\ A \subseteq items
      BY DEF EntriesOk
    <3> QED
      BY <3>1, FS_Subset, DocumentFinite
  <2>2. t = A \cup U \cup B
    <3>1. \A r : r \in t <=> r \in A \cup U \cup B
      BY <1>1
    <3> HIDE DEF A, U, B
    <3> QED
      BY <3>1
  <2> HIDE DEF A, U, B
  <2>3. IsFiniteSet(A \cup U)
    BY <2>1, FS_Union
  <2> QED
    BY <2>1, <2>2, <2>3, FS_Union
<1> HIDE DEF U, W, S
<1>5. \A r \in items : EntryOk(r) /\ SameItem(r, r)
  BY DEF EntriesOk, SameItem
<1>6. \A r \in t : EntryOk(r) /\ (NewEntry(items, r) \/ \E q \in items : SameItem(q, r))
  BY <1>1, <1>2, <1>3, <1>5
<1>7. \A r \in items : \E q \in t : SameItem(q, r)
  BY <1>1, <1>2, <1>3, <1>5
<1>8. ASSUME NEW r \in t, NEW q \in t, SameItem(r, q) PROVE r = q
  \* Each has the place of an item, or a place of its own.
  <2>1. \A a, b : SameItem(a, b) => SameItem(b, a)
    BY DEF SameItem
  <2>2. \A a, b, c : SameItem(a, b) /\ SameItem(b, c) => SameItem(a, c)
    BY DEF SameItem
  <2>3. \A a, b \in items : SameItem(a, b) => a = b
    BY DEF EntriesOk
  <2>4. ASSUME NEW a \in t, NEW b \in t, SameItem(a, b), a \in U PROVE a = b
    <3>1. CASE b \in U
      BY <1>2, <2>4, <3>1
    <3>2. CASE b \in items /\ b \notin W
      BY <1>2, <2>4, <3>2
    <3>3. CASE \E s \in S : b = Ended(s)
      BY <1>2, <1>3, <2>2, <2>4, <3>3
    <3> QED
      BY <1>1, <3>1, <3>2, <3>3
  <2>5. CASE r \in U \/ q \in U
    BY <1>8, <2>1, <2>4, <2>5
  <2>6. CASE r \notin U /\ q \notin U
    <3>1. ASSUME NEW a \in t, a \notin U
          PROVE  \E s \in items : SameItem(s, a) /\ SameItem(a, s)
                   /\ ((a = s /\ s \notin W) \/ (s \in S /\ a = Ended(s)))
      <4>1. CASE a \in items /\ a \notin W
        BY <1>5, <4>1
      <4>2. CASE \E s \in S : a = Ended(s)
        <5>1. PICK s \in S : a = Ended(s)
          BY <4>2
        <5> QED
          BY <1>3, <5>1
      <4> QED
        BY <1>1, <3>1, <4>1, <4>2
    <3>2. PICK s \in items : SameItem(s, r) /\ SameItem(r, s)
                   /\ ((r = s /\ s \notin W) \/ (s \in S /\ r = Ended(s)))
      BY <2>6, <3>1
    <3>3. PICK z \in items : SameItem(z, q) /\ SameItem(q, z)
                   /\ ((q = z /\ z \notin W) \/ (z \in S /\ q = Ended(z)))
      BY <2>6, <3>1
    <3>4. s = z
      BY <1>8, <2>2, <2>3, <3>2, <3>3
    <3> QED
      BY <1>2, <3>2, <3>3, <3>4
  <2> QED
    BY <2>5, <2>6
<1> QED
  BY <1>4, <1>6, <1>7, <1>8 DEF Rewritten

-----------------------------------------------------------------------------
(* What a document makes of the mappings.                                   *)

NewLink(r) ==
  [item |-> Imports!Id(r), element |-> ElementOf[r.code], version |-> 1, current |-> TRUE]
Links(ms, r) == \E m \in ms : m.current /\ m.item = Imports!Id(r) /\ m.element = ElementOf[r.code]
Dropped(e, m) == m.current /\ \E s \in StaleBy(e) : m.item = Imports!Id(s)
MappingsAre(e, shared, ms) ==
  \A m : m \in ms <=> \/ m \in mappings /\ ~Dropped(e, m)
                      \/ \E n \in mappings : Dropped(e, n) /\ m = Ended(n)
                      \/ shared /\ \E u \in UpsertedBy(e) : ~Links(mappings, u) /\ m = NewLink(u)

LEMMA DocumentMappings ==
  ASSUME NEW e, NEW shared \in BOOLEAN, Imports!Document(e, shared)
  PROVE  MappingsAre(e, shared, mappings')
<1> DEFINE D == Imports!Current(Imports!MappingsOf(StaleBy(e)))
           N == Imports!Mapped(UpsertedBy(e))
<1>1. mappings' = (mappings \ D) \cup Imports!Retired(D) \cup (IF shared THEN N ELSE {})
  BY DEF Imports!Document, UpsertedBy, StaleBy
<1>2. \A m : m \in D <=> m \in mappings /\ Dropped(e, m)
  BY DEF Imports!Current, Imports!MappingsOf, Dropped
<1>3. \A m : m \in N <=> \E u \in UpsertedBy(e) : ~Links(mappings, u) /\ m = NewLink(u)
  BY DEF Imports!Mapped, Links, NewLink, Imports!Current
<1> HIDE DEF D, N
<1>4. \A m : m \in Imports!Retired(D) <=> \E n \in D : m = Ended(n)
  BY DEF Imports!Retired, Ended
<1>5. \A m : m \in mappings' <=> \/ m \in mappings /\ m \notin D
                                 \/ m \in Imports!Retired(D)
                                 \/ shared /\ m \in N
  BY <1>1
<1> QED
  BY <1>2, <1>3, <1>4, <1>5 DEF MappingsAre

LEMMA LinkEndedIs ==
  ASSUME NEW s, NEW m, LinkOk(s, m)
  PROVE  /\ LinkOk(s, Ended(m)) /\ ~Ended(m).current
         /\ Ended(m).item = m.item /\ Ended(m).element = m.element
<1> DEFINE no == FALSE
           q == [item |-> m.item, element |-> m.element, version |-> m.version, current |-> no]
<1>1. no = FALSE
  OBVIOUS
<1> HIDE DEF no
<1>2. Ended(m) = q
  <2>1. Ended(m) = [m EXCEPT !.current = no]
    BY <1>1 DEF Ended
  <2>2. [m EXCEPT !.current = no] = q
    BY DEF LinkOk
  <2> QED
    BY <2>1, <2>2
<1>3. LinkOk(s, q) /\ ~q.current /\ q.item = m.item /\ q.element = m.element
  BY <1>1 DEF LinkOk
<1> QED
  BY <1>2, <1>3

LEMMA DocumentLinks ==
  ASSUME EntriesOk(items), LinksOk(items, mappings), NEW e \in Editions, ~Imports!Ambiguous(e),
         NEW shared \in BOOLEAN, NEW t, ItemsAre(e, t), NEW ms, MappingsAre(e, shared, ms)
  PROVE  LinksOk(t, ms)
<1> DEFINE U == UpsertedBy(e)
           W == WrittenBy(e)
           S == StaleBy(e)
           I(r) == Imports!Id(r)
<1>1. \A r : r \in t <=> \/ r \in items /\ r \notin W
                         \/ r \in U
                         \/ \E q \in S : r = Ended(q)
  BY DEF ItemsAre
<1>2. \A m : m \in ms <=> \/ m \in mappings /\ ~Dropped(e, m)
                          \/ \E n \in mappings : Dropped(e, n) /\ m = Ended(n)
                          \/ shared /\ \E u \in U : ~Links(mappings, u) /\ m = NewLink(u)
  BY DEF MappingsAre
<1>3. /\ \A r \in W : r \in items /\ r.current
      /\ S \subseteq W
      /\ \A u \in U, r \in items : I(u) = I(r) => r \in W /\ r \notin S
  BY DocumentRows, SameItemIs
<1>4. \A q \in S : ~Ended(q).current
  BY <1>3, EndedIs DEF EntriesOk
<1>5. \A r, q \in items : I(r) = I(q) => r = q
  BY SameItemIs DEF EntriesOk
<1>6. \A m : Dropped(e, m) <=> m.current /\ \E s \in S : m.item = I(s)
  BY DEF Dropped
<1>7. \A r \in items : \E q \in t : I(q) = I(r)
  BY DocumentWrites, SameItemIs DEF Rewritten
<1>8. /\ \A m \in mappings : LinkOk(items, m) /\ Ended(m).item = m.item
                             /\ Ended(m).element = m.element /\ LinkOk(items, Ended(m))
      /\ \A r \in items, m \in mappings : r.current /\ m.item = I(r) =>
           \E n \in mappings : n.current /\ n.item = m.item /\ n.element = m.element
  BY LinkEndedIs DEF LinksOk
<1>9. \A u : NewLink(u).item = I(u) /\ NewLink(u).current
  BY DEF NewLink
<1> HIDE DEF U, W, S, I
<1>10. ASSUME NEW m \in ms PROVE LinkOk(t, m)
  <2>1. ASSUME NEW n, LinkOk(items, n) PROVE LinkOk(t, n)
    <3>1. PICK r \in items : I(r) = n.item
      BY <2>1 DEF LinkOk, I
    <3>2. \E q \in t : I(q) = n.item
      BY <1>7, <3>1
    <3> QED
      BY <2>1, <3>2 DEF LinkOk, I
  <2>2. ASSUME NEW u \in U PROVE LinkOk(t, NewLink(u))
    <3>1. u \in t /\ 1 \in 1..MaxVersion
      BY <1>1, CatalogueFit
    <3> QED
      BY <3>1 DEF LinkOk, NewLink
  <2> QED
    BY <1>2, <1>8, <2>1, <2>2
<1>11. ASSUME NEW r \in t, NEW m \in ms, r.current, m.item = I(r)
       PROVE  \E n \in ms : n.current /\ n.item = m.item /\ n.element = m.element
  \* If the row was there it was current, and its mappings are not dropped.
  <2>1. ASSUME NEW q \in items, I(q) = I(r) PROVE q.current /\ q \notin S
    <3>1. CASE r \in items /\ r \notin W
      BY <1>3, <1>5, <1>11, <2>1, <3>1
    <3>2. CASE r \in U
      BY <1>3, <2>1, <3>2
    <3>3. CASE \E s \in S : r = Ended(s)
      BY <1>4, <1>11, <3>3
    <3> QED
      BY <1>1, <3>1, <3>2, <3>3
  <2>2. \A n \in mappings : n.item = I(r) => ~Dropped(e, n)
    BY <1>3, <1>6, <2>1
  <2>3. CASE m \in mappings
    <3>1. PICK q \in items : I(q) = I(r)
      BY <1>8, <1>11, <2>3 DEF LinkOk, I
    <3>2. PICK n \in mappings : n.current /\ n.item = m.item /\ n.element = m.element
      BY <1>8, <1>11, <2>1, <2>3, <3>1
    <3> QED
      BY <1>2, <1>11, <2>2, <3>2
  <2>4. CASE \E n \in mappings : Dropped(e, n) /\ m = Ended(n)
    BY <1>8, <1>11, <2>2, <2>4
  <2>5. CASE \E u \in U : m = NewLink(u)
    BY <1>9, <2>5
  <2> QED
    BY <1>2, <2>3, <2>4, <2>5
<1> QED
  BY <1>10, <1>11 DEF LinksOk, I

\* What is current in a disclosure after its document is what the document wrote.
LEMMA WrittenAfter ==
  ASSUME EntriesOk(items), NEW e \in Editions, ~Imports!Ambiguous(e), ItemsAre(e, items'),
         NEW x \in e.disclosures
  PROVE  Imports!Written(e, x)' = Imports!Upserted(e, x)
<1>1. \A r : r \in Imports!Written(e, x)' <=>
               r \in items' /\ r.current /\ r.standard = e.standard /\ r.disclosure = x.code
  BY DEF Imports!Written, Imports!Current, Imports!RowsOf
<1>2. ASSUME NEW r \in Imports!Upserted(e, x) PROVE r \in Imports!Written(e, x)'
  <2>1. r \in UpsertedBy(e) /\ RowOf(e, x, r)
    BY UpsertedIs DEF UpsertedBy
  <2> QED
    BY <1>1, <2>1 DEF RowOf, ItemsAre
<1>3. ASSUME NEW r \in Imports!Written(e, x)' PROVE r \in Imports!Upserted(e, x)
  <2>1. CASE r \in items /\ r \notin WrittenBy(e)
    <3>1. r \in Imports!Written(e, x)
      BY <1>1, <2>1, WrittenAre
    <3> QED
      BY <2>1, <3>1 DEF WrittenBy
  <2>2. CASE r \in UpsertedBy(e)
    <3>1. PICK y \in e.disclosures : r \in Imports!Upserted(e, y) /\ RowOf(e, y, r)
      BY <2>2, DocumentRows
    <3>2. y.code = x.code
      BY <1>1, <3>1 DEF RowOf
    <3>3. y = x
      BY <3>2, CatalogueFit
    <3> QED
      BY <3>1, <3>3
  <2>3. CASE \E q \in StaleBy(e) : r = Ended(q)
    <3>1. PICK q \in StaleBy(e) : r = Ended(q)
      BY <2>3
    <3>2. q \in items
      BY DocumentRows
    <3>3. EntryOk(q)
      BY <3>2 DEF EntriesOk
    <3> QED
      BY <1>1, <3>1, <3>3, EndedIs
  <2> QED
    BY <1>1, <2>1, <2>2, <2>3 DEF ItemsAre
<1> QED
  BY <1>2, <1>3

LEMMA ImportSays ==
  ASSUME EntriesOk(items), NEW e \in Editions, NEW shared \in BOOLEAN, Imports!Document(e, shared)
  PROVE  Imports!Says(e)' /\ (shared => Imports!Shares(e)')
<1>1. ~Imports!Ambiguous(e) /\ ItemsAre(e, items')
  BY DocumentItems
<1>2. MappingsAre(e, shared, mappings')
  BY DocumentMappings
<1>3. \A x \in e.disclosures : Imports!Written(e, x)' = Imports!Upserted(e, x)
  BY <1>1, WrittenAfter
<1>4. ASSUME NEW x \in e.disclosures
      PROVE  [section |-> x.section, code |-> x.code, standard |-> e.standard] \in disclosures'
  BY DEF Imports!Document, Imports!WrittenDisclosures
<1>5. ASSUME NEW x \in e.disclosures
      PROVE  /\ {<<r.code, r.text>> : r \in Imports!Upserted(e, x)}
                  = {<<c, x.items[c]>> : c \in DOMAIN x.items}
             /\ Imports!Cardinality(Imports!Upserted(e, x)) = Imports!Cardinality(DOMAIN x.items)
  <2>1. \A u \in Imports!Upserted(e, x) : u.code \in DOMAIN x.items /\ u.text = x.items[u.code]
    BY <1>1, UpsertedIs DEF RowOf
  <2>2. \A c \in DOMAIN x.items : \E u \in Imports!Upserted(e, x) : u.code = c
    BY <1>1, UpsertedIs
  <2>3. Imports!Cardinality(Imports!Upserted(e, x)) = Imports!Cardinality(DOMAIN x.items)
    BY <1>1, UpsertedIs, CatalogueCardinality
  <2> HIDE DEF Imports!Upserted
  <2>4. ASSUME NEW c \in DOMAIN x.items
        PROVE  <<c, x.items[c]>> \in {<<r.code, r.text>> : r \in Imports!Upserted(e, x)}
    <3>1. PICK u \in Imports!Upserted(e, x) : u.code = c
      BY <2>2
    <3>2. u.text = x.items[c]
      BY <2>1, <3>1
    <3> QED
      BY <3>1, <3>2
  <2>5. ASSUME NEW u \in Imports!Upserted(e, x)
        PROVE  <<u.code, u.text>> \in {<<c, x.items[c]>> : c \in DOMAIN x.items}
    BY <2>1
  <2> QED
    BY <2>3, <2>4, <2>5
<1>6. Imports!Says(e)'
  BY <1>3, <1>4, <1>5 DEF Imports!Says
<1>7. ASSUME shared, NEW x \in e.disclosures, NEW u \in Imports!Upserted(e, x)
      PROVE  \E m \in mappings' : m.current /\ m.item = Imports!Id(u) /\ m.element = ElementOf[u.code]
  <2>1. u \in UpsertedBy(e)
    BY DEF UpsertedBy
  <2>2. CASE Links(mappings, u)
    <3>1. PICK m \in mappings : m.current /\ m.item = Imports!Id(u) /\ m.element = ElementOf[u.code]
      BY <2>2 DEF Links
    <3>2. ~Dropped(e, m)
      <4>1. ASSUME NEW s \in StaleBy(e), m.item = Imports!Id(s) PROVE FALSE
        <5>1. s \in items /\ SameItem(u, s)
          BY <1>1, <3>1, <4>1, DocumentRows, SameItemIs
        <5> QED
          BY <1>1, <2>1, <5>1, DocumentRows
      <4> QED
        BY <4>1 DEF Dropped
    <3> QED
      BY <1>2, <3>1, <3>2 DEF MappingsAre
  <2>3. CASE ~Links(mappings, u)
    <3>1. NewLink(u) \in mappings'
      BY <1>2, <1>7, <2>1, <2>3 DEF MappingsAre
    <3> QED
      BY <3>1 DEF NewLink
  <2> QED
    BY <2>2, <2>3
<1>8. ASSUME shared PROVE Imports!Shares(e)'
  <2>1. ASSUME NEW x \in e.disclosures, NEW u \in Imports!Written(e, x)'
        PROVE  Imports!MappedTo(u, ElementOf[u.code])'
    <3>1. u \in Imports!Upserted(e, x)
      BY <1>3
    <3>2. \E m \in mappings' : m.current /\ m.item = Imports!Id(u) /\ m.element = ElementOf[u.code]
      BY <1>7, <1>8, <3>1
    <3> QED
      BY <3>2 DEF Imports!MappedTo, Imports!Current
  <2> QED
    BY <2>1 DEF Imports!Shares
<1> QED
  BY <1>6, <1>8

\* What the document leaves out is mapped to nothing.
LEMMA ImportRetires ==
  ASSUME EntriesOk(items), LinksOk(items, mappings), NEW e \in Editions, NEW shared \in BOOLEAN,
         Imports!Document(e, shared), NEW r \in Imports!Current(items), r \notin items',
         Imports!Id(r) \notin {Imports!Id(q) : q \in Imports!Current(items')}
  PROVE  ~\E m \in Imports!Current(mappings') : m.item = Imports!Id(r)
<1>1. ~Imports!Ambiguous(e) /\ ItemsAre(e, items')
  BY DocumentItems
<1>2. r \in items
  BY DEF Imports!Current
<1>3. r \in WrittenBy(e)
  BY <1>1, <1>2 DEF ItemsAre
<1>4. r \in StaleBy(e)
  <2>1. ASSUME NEW u \in UpsertedBy(e), SameItem(u, r) PROVE FALSE
    <3>1. u \in items' /\ u.current
      BY <1>1, DocumentRows DEF ItemsAre, RowOf
    <3>2. Imports!Id(u) = Imports!Id(r)
      BY <2>1, SameItemIs
    <3> QED
      BY <3>1, <3>2 DEF Imports!Current
  <2> QED
    BY <1>1, <1>3, <2>1, DocumentRows
<1>5. ASSUME NEW m \in mappings', m.current, m.item = Imports!Id(r) PROVE FALSE
  <2>1. CASE m \in mappings /\ ~Dropped(e, m)
    BY <1>4, <1>5, <2>1 DEF Dropped
  <2>2. CASE \E n \in mappings : Dropped(e, n) /\ m = Ended(n)
    BY <1>5, <2>2, LinkEndedIs DEF LinksOk
  <2>3. CASE \E u \in UpsertedBy(e) : m = NewLink(u)
    <3>1. PICK u \in UpsertedBy(e) : m = NewLink(u)
      BY <2>3
    <3>2. SameItem(u, r)
      BY <1>5, <3>1, SameItemIs DEF NewLink
    <3> QED
      BY <1>1, <1>2, <1>4, <3>2, DocumentRows
  <2>4. MappingsAre(e, shared, mappings')
    BY DocumentMappings
  <2> QED
    BY <2>1, <2>2, <2>3, <2>4 DEF MappingsAre
<1> QED
  BY <1>5 DEF Imports!Current

\* A second import of a document finds every item and mapping as it would write it.
LEMMA ImportAgain ==
  ASSUME EntriesOk(items), NEW e \in Editions, NEW shared \in BOOLEAN,
         Imports!Document(e, shared), Imports!Says(e), Imports!Shares(e)
  PROVE  items' = items /\ mappings' = mappings
<1> DEFINE U == UpsertedBy(e)
           W == WrittenBy(e)
<1>1. ~Imports!Ambiguous(e) /\ ItemsAre(e, items') /\ MappingsAre(e, shared, mappings')
  BY DocumentItems, DocumentMappings
<1>2. ASSUME NEW x \in e.disclosures
      PROVE  /\ \A r \in Imports!Written(e, x) :
                  r.code \in DOMAIN x.items /\ r.text = x.items[r.code]
             /\ \A c \in DOMAIN x.items : \E r \in Imports!Written(e, x) : r.code = c
  <2>1. {<<r.code, r.text>> : r \in Imports!Written(e, x)}
          = {<<c, x.items[c]>> : c \in DOMAIN x.items}
    BY DEF Imports!Says
  <2>2. ASSUME NEW r \in Imports!Written(e, x)
        PROVE  r.code \in DOMAIN x.items /\ r.text = x.items[r.code]
    <3>1. <<r.code, r.text>> \in {<<c, x.items[c]>> : c \in DOMAIN x.items}
      BY <2>1
    <3> QED
      BY <3>1
  <2>3. ASSUME NEW c \in DOMAIN x.items PROVE \E r \in Imports!Written(e, x) : r.code = c
    <3>1. <<c, x.items[c]>> \in {<<r.code, r.text>> : r \in Imports!Written(e, x)}
      BY <2>1
    <3> QED
      BY <3>1
  <2> QED
    BY <2>2, <2>3
<1>3. StaleBy(e) = {}
  BY <1>2 DEF StaleBy, Imports!Stale
<1>4. ASSUME NEW u \in U PROVE u \in W
  <2>1. PICK x \in e.disclosures : u \in Imports!Upserted(e, x)
    BY DEF UpsertedBy
  <2>2. RowOf(e, x, u)
    BY <1>1, <2>1, UpsertedIs
  <2>3. PICK q \in Imports!Written(e, x) : q.code = u.code
    BY <1>2, <2>2 DEF RowOf
  <2>4. PICK r \in Imports!Written(e, x) : SameItem(r, u)
    BY <1>1, <2>1, <2>3, UpsertedIs
  <2>5. r \in items /\ r.current /\ EntryOk(r)
    BY <2>4, WrittenAre DEF EntriesOk
  <2>6. r.text = u.text /\ r.current = u.current
    BY <1>2, <2>2, <2>4, <2>5 DEF RowOf, SameItem, EntryOk
  <2>7. r = u
    BY <2>2, <2>4, <2>5, <2>6 DEF RowOf, SameItem, EntryOk
  <2> QED
    BY <2>4, <2>7 DEF WrittenBy
<1>5. ASSUME NEW r \in W PROVE r \in U
  <2>1. r \in items
    BY <1>1, DocumentRows
  <2>2. PICK u \in U : SameItem(u, r)
    BY <1>1, <1>3, DocumentRows
  <2>3. u \in items
    BY <1>1, <1>4, DocumentRows
  <2> QED
    BY <2>1, <2>2, <2>3 DEF EntriesOk
<1>6. W \subseteq items
  BY <1>1, DocumentRows
<1>7. \A u \in U : Links(mappings, u)
  <2>1. ASSUME NEW x \in e.disclosures, NEW r \in Imports!Written(e, x)
        PROVE  Links(mappings, r)
    BY DEF Imports!Shares, Imports!MappedTo, Imports!Current, Links
  <2> QED
    BY <1>4, <2>1 DEF WrittenBy
<1>8. \A m \in mappings : ~Dropped(e, m)
  BY <1>3 DEF Dropped
<1>9. \A r : r \in items' <=> r \in items
  BY <1>1, <1>3, <1>4, <1>5, <1>6 DEF ItemsAre
<1>10. \A m : m \in mappings' <=> m \in mappings
  BY <1>1, <1>7, <1>8 DEF MappingsAre
<1> QED
  BY <1>9, <1>10

LEMMA ImportDocument ==
  ASSUME CatalogueInv, NEW e \in Editions, Imports!ImportNext(e)
  PROVE  Imports!Document(e, batch.shared) /\ batch.shared \in BOOLEAN
<1>1. Imports!Document(e, batch.shared)
  BY DEF Imports!ImportNext, Imports!ImportGri, Imports!ImportGri2, Imports!ImportGri3,
     Imports!ImportSector, Imports!ImportEsrs, Imports!ImportEsrs2, Imports!ImportSasb,
     Imports!ImportLaw, Imports!Keeps, Imports!Activates
<1>2. e \in batch.left
  BY DEF Imports!ImportNext
<1>3. batch # Imports!Quiet
  BY <1>2 DEF Imports!Quiet
<1> QED
  BY <1>1, <1>3 DEF CatalogueInv, BatchOk

LEMMA ImportsExact == CatalogueInv => Imports!ImportsAreExact
<1> SUFFICES ASSUME CatalogueInv, NEW e \in Editions, Imports!ImportNext(e)
             PROVE  /\ Imports!Says(e)' /\ (batch.shared => Imports!Shares(e)')
                    /\ \A r \in Imports!Current(items) :
                         r \notin items' /\ Imports!Id(r) \notin
                                             {Imports!Id(q) : q \in Imports!Current(items')} =>
                           ~\E m \in Imports!Current(mappings') : m.item = Imports!Id(r)
                    /\ Imports!Says(e) /\ Imports!Shares(e) => UNCHANGED <<items, mappings>>
  BY DEF Imports!ImportsAreExact
<1>1. Imports!Document(e, batch.shared) /\ batch.shared \in BOOLEAN
  BY ImportDocument
<1>2. EntriesOk(items) /\ LinksOk(items, mappings)
  BY DEF CatalogueInv
<1>3. Imports!Says(e)' /\ (batch.shared => Imports!Shares(e)')
  BY <1>1, <1>2, ImportSays
<1>4. \A r \in Imports!Current(items) :
        r \notin items' /\ Imports!Id(r) \notin {Imports!Id(q) : q \in Imports!Current(items')} =>
          ~\E m \in Imports!Current(mappings') : m.item = Imports!Id(r)
  BY <1>1, <1>2, ImportRetires
<1>5. Imports!Says(e) /\ Imports!Shares(e) => items' = items /\ mappings' = mappings
  BY <1>1, <1>2, ImportAgain
<1> QED
  BY <1>3, <1>4, <1>5

-----------------------------------------------------------------------------
(* The split into leaf standards.                                           *)

\* The row of a leaf stands for the current items of one code.
LeafRow(r, q) ==
  /\ EntryOk(q) /\ q.standard = Imports!LeafOf(r) /\ q.disclosure = r.disclosure
  /\ q.code = r.code /\ q.current
  /\ NewEntry(items, q) \/ \E z \in items : z.current /\ SameItem(z, q)

LEMMA TargetIs ==
  ASSUME EntriesOk(items), NEW r \in Imports!Sources, NEW q \in Imports!Targets(r)
  PROVE  LeafRow(r, q) /\ q.text = r.text
<1> DEFINE leaf == Imports!LeafOf(r)
           found == {z \in Imports!Current(Imports!RowsOf(leaf, r.disclosure)) : z.code = r.code}
           row == [standard |-> leaf, disclosure |-> r.disclosure, code |-> r.code,
                   copy |-> Imports!NextCopy(leaf, r.disclosure, r.code),
                   text |-> r.text, current |-> TRUE]
<1>1. q \in IF found = {} THEN {row} ELSE {[z EXCEPT !.text = r.text] : z \in found}
  BY DEF Imports!Targets
<1>2. EntryOk(r)
  BY DEF Imports!Sources, Imports!Current, EntriesOk
<1>3. LeafRow(r, row) /\ row.text = r.text
  <2>1. EntryOk(row)
    BY <1>2 DEF EntryOk
  <2>2. NewEntry(items, row)
    BY NextIs DEF NewEntry, CopyOf
  <2> QED
    BY <2>1, <2>2 DEF LeafRow
<1>4. ASSUME NEW z \in found, q = [z EXCEPT !.text = r.text]
      PROVE  LeafRow(r, q) /\ q.text = r.text
  <2>1. z \in items /\ z.current /\ z.standard = leaf /\ z.disclosure = r.disclosure /\ z.code = r.code
    BY DEF Imports!Current, Imports!RowsOf
  <2>2. EntryOk(z)
    BY <2>1 DEF EntriesOk
  <2>3. q = [standard |-> z.standard, disclosure |-> z.disclosure, code |-> z.code,
             copy |-> z.copy, text |-> r.text, current |-> z.current]
    BY <1>4, <2>2 DEF EntryOk
  <2> HIDE DEF leaf
  <2>4. EntryOk(q) /\ SameItem(z, q) /\ q.text = r.text /\ q.current
    BY <2>1, <2>2, <2>3 DEF EntryOk, SameItem
  <2>5. q.standard = leaf /\ q.disclosure = r.disclosure /\ q.code = r.code
    BY <2>1, <2>3
  <2> QED
    BY <2>1, <2>4, <2>5 DEF LeafRow, leaf
<1> HIDE DEF found, row
<1>5. CASE found = {}
  BY <1>1, <1>3, <1>5
<1>6. CASE found # {}
  BY <1>1, <1>4, <1>6
<1> QED
  BY <1>5, <1>6

\* How the split assigns rows of leaves to the items of the umbrella.
Assigned(target) ==
  /\ DOMAIN target = {Imports!Id(r) : r \in Imports!Sources}
  /\ target = [x \in DOMAIN target |-> target[x]]
  /\ \A r \in Imports!Sources :
       /\ LeafRow(r, target[Imports!Id(r)])
       /\ target[Imports!Id(r)].text \in {x.text : x \in Imports!Sources}
       /\ \A q \in Imports!Sources : q.disclosure = r.disclosure /\ q.code = r.code =>
            target[Imports!Id(q)] = target[Imports!Id(r)]

LEMMA SplitIs ==
  ASSUME EntriesOk(items), Imports!Split
  PROVE  \E target :
           /\ Assigned(target)
           /\ items' = {r \in items : Imports!Id(r) \notin
                                        {Imports!Id(target[x]) : x \in DOMAIN target}}
                       \cup Imports!Range(target)
           /\ mappings' = mappings \cup Imports!CopiesOf(Imports!Sources, target)
<1> DEFINE Src == Imports!Sources
<1>1. PICK target \in [{Imports!Id(r) : r \in Src} -> UNION {Imports!Targets(r) : r \in Src}] :
        /\ \A r \in Src :
             /\ \A q \in Imports!Twins(r) : target[Imports!Id(q)] = target[Imports!Id(r)]
             /\ target[Imports!Id(r)] \in UNION {Imports!Targets(q) : q \in Imports!Twins(r)}
        /\ items' = {r \in items : Imports!Id(r) \notin
                                     {Imports!Id(target[x]) : x \in DOMAIN target}}
                    \cup Imports!Range(target)
        /\ mappings' = mappings \cup Imports!CopiedMappings(target)
  BY DEF Imports!Split
<1> HIDE DEF Src
<1>2. ASSUME NEW r \in Src
      PROVE  /\ LeafRow(r, target[Imports!Id(r)])
             /\ target[Imports!Id(r)].text \in {x.text : x \in Src}
  <2> DEFINE t == target[Imports!Id(r)]
  <2>1. PICK q \in Imports!Twins(r) : t \in Imports!Targets(q)
    BY <1>1
  <2>2. q \in Src /\ q.disclosure = r.disclosure /\ q.code = r.code
    BY <2>1 DEF Imports!Twins, Src
  <2>3. LeafRow(q, t) /\ t.text = q.text
    BY <2>1, <2>2, TargetIs DEF Src
  <2> HIDE DEF t
  <2>4. Imports!LeafOf(q) = Imports!LeafOf(r)
    BY <2>2 DEF Imports!LeafOf
  <2>5. LeafRow(r, t)
    BY <2>2, <2>3, <2>4 DEF LeafRow
  <2> QED
    BY <2>2, <2>3, <2>5 DEF t
<1>3. \A r, q \in Src : q.disclosure = r.disclosure /\ q.code = r.code =>
        target[Imports!Id(q)] = target[Imports!Id(r)]
  BY <1>1 DEF Imports!Twins, Src
<1>4. Assigned(target)
  BY <1>2, <1>3 DEF Assigned, Src
<1> QED
  BY <1>1, <1>4 DEF Imports!CopiedMappings

LEMMA SourcesAre == \A r \in Imports!Sources : r \in items /\ r.current
BY DEF Imports!Sources, Imports!Current

SplitItems(target, t) ==
  \A r : r \in t <=> \/ \E s \in Imports!Sources : r = target[Imports!Id(s)]
                     \/ r \in items /\ \A s \in Imports!Sources :
                                         ~SameItem(r, target[Imports!Id(s)])

LEMMA SplitItemsAre ==
  ASSUME NEW target, Assigned(target),
         items' = {r \in items : Imports!Id(r) \notin
                                   {Imports!Id(target[x]) : x \in DOMAIN target}}
                  \cup Imports!Range(target)
  PROVE  SplitItems(target, items')
<1>1. \A x : x \in DOMAIN target <=> \E s \in Imports!Sources : x = Imports!Id(s)
  BY DEF Assigned
<1>2. \A r : r \in Imports!Range(target) <=> \E s \in Imports!Sources : r = target[Imports!Id(s)]
  BY <1>1 DEF Imports!Range
<1>3. \A r : Imports!Id(r) \in {Imports!Id(target[x]) : x \in DOMAIN target} <=>
               \E s \in Imports!Sources : SameItem(r, target[Imports!Id(s)])
  BY <1>1, SameItemIs
<1> QED
  BY <1>2, <1>3 DEF SplitItems

LEMMA SplitWrites ==
  ASSUME EntriesOk(items), NEW target, Assigned(target), NEW t, SplitItems(target, t)
  PROVE  Rewritten(items, t)
<1> DEFINE Src == Imports!Sources
           T(s) == target[Imports!Id(s)]
<1>1. \A s \in Src : LeafRow(s, T(s))
  BY DEF Assigned
<1>2. \A s, q \in Src : q.disclosure = s.disclosure /\ q.code = s.code => T(q) = T(s)
  BY DEF Assigned
<1>3. IsFiniteSet(t)
  <2> DEFINE f == [s \in Src |-> T(s)]
             A == {f[s] : s \in Src}
  <2>1. Src \subseteq items /\ IsFiniteSet(items)
    BY SourcesAre DEF EntriesOk
  <2>2. IsFiniteSet(Src) /\ f = [s \in Src |-> f[s]] /\ \A s \in Src : f[s] = T(s)
    BY <2>1, FS_Subset
  <2> HIDE DEF f, T
  <2>3. IsFiniteSet(A)
    BY <2>2, ImageIs
  <2>4. IsFiniteSet(A \cup items)
    BY <2>1, <2>3, FS_Union
  <2>5. t \subseteq A \cup items
    BY <2>2 DEF SplitItems, T
  <2> QED
    BY <2>4, <2>5, FS_Subset
<1>4. \A r : r \in t <=> \/ \E s \in Src : r = T(s)
                         \/ r \in items /\ \A s \in Src : ~SameItem(r, T(s))
  BY DEF SplitItems
<1>5. \A r \in items : EntryOk(r) /\ SameItem(r, r)
  BY DEF EntriesOk, SameItem
<1> HIDE DEF Src, T
<1>6. \A r \in t : EntryOk(r) /\ (NewEntry(items, r) \/ \E q \in items : SameItem(q, r))
  BY <1>1, <1>4, <1>5 DEF LeafRow
<1>7. \A a, b : SameItem(a, b) => SameItem(b, a)
  BY DEF SameItem
<1>8. \A r \in items : \E q \in t : SameItem(q, r)
  BY <1>4, <1>5, <1>7
<1>9. ASSUME NEW r \in t, NEW q \in t, SameItem(r, q) PROVE r = q
  <2>1. CASE \E s, z \in Src : r = T(s) /\ q = T(z)
    <3>1. PICK s \in Src, z \in Src : r = T(s) /\ q = T(z)
      BY <2>1
    <3>2. z.disclosure = s.disclosure /\ z.code = s.code
      BY <1>1, <1>9, <3>1 DEF LeafRow, SameItem
    <3> QED
      BY <1>2, <3>1, <3>2
  <2>2. CASE r \in items /\ q \in items
    BY <1>9, <2>2 DEF EntriesOk
  <2> QED
    BY <1>4, <1>7, <1>9, <2>1, <2>2
<1> QED
  BY <1>3, <1>6, <1>8, <1>9 DEF Rewritten

\* The mapping of an item, copied to its row in the leaf.
Copied(target, r, m) ==
  [item |-> Imports!Id(target[Imports!Id(r)]), element |-> m.element, version |-> m.version,
   current |-> m.current]
Has(ms, id, m) == \E n \in ms : n.item = id /\ n.element = m.element /\ n.version = m.version

LEMMA CopiesAre ==
  ASSUME LinksOk(items, mappings), NEW target
  PROVE  \A c : c \in Imports!CopiesOf(Imports!Sources, target) <=>
           \E m \in mappings, r \in Imports!Sources :
             /\ m.current /\ m.item = Imports!Id(r)
             /\ ~Has(mappings, Imports!Id(target[Imports!Id(r)]), m)
             /\ c = Copied(target, r, m)
<1> DEFINE Src == Imports!Sources
<1>1. ASSUME NEW m \in mappings, NEW r \in Src, m.item = Imports!Id(r)
      PROVE  [m EXCEPT !.item = Imports!Id(target[m.item])] = Copied(target, r, m)
  BY <1>1 DEF LinksOk, LinkOk, Copied
<1>2. \A c : c \in Imports!CopiesOf(Src, target) <=>
        \E m \in mappings :
          /\ m.current /\ \E r \in Src : m.item = Imports!Id(r)
          /\ ~Has(mappings, Imports!Id(target[m.item]), m)
          /\ c = [m EXCEPT !.item = Imports!Id(target[m.item])]
  BY DEF Imports!CopiesOf, Imports!Current, Has
<1> HIDE DEF Src
<1> QED
  BY <1>1, <1>2 DEF Src

LEMMA SplitLinks ==
  ASSUME EntriesOk(items), LinksOk(items, mappings), NEW target, Assigned(target),
         NEW t, SplitItems(target, t)
  PROVE  LinksOk(t, mappings \cup Imports!CopiesOf(Imports!Sources, target))
<1> DEFINE C == Imports!CopiesOf(Imports!Sources, target)
           ms == mappings \cup C
           I(r) == Imports!Id(r)
<1>1. \A c \in C : \E m \in mappings, r \in Imports!Sources :
        m.current /\ c = Copied(target, r, m)
  BY CopiesAre
<1>2. \A r \in items : \E q \in t : I(q) = I(r)
  BY SplitWrites, SameItemIs DEF Rewritten
<1>3. \A r \in Imports!Sources : target[Imports!Id(r)] \in t
  BY DEF SplitItems
<1>4. /\ \A m \in mappings : LinkOk(items, m)
      /\ \A r \in items, m \in mappings : r.current /\ m.item = I(r) =>
           \E n \in mappings : n.current /\ n.item = m.item /\ n.element = m.element
  BY DEF LinksOk
<1>5. \A r \in t, q \in items : I(q) = I(r) => (r.current => q.current)
  <2>1. ASSUME NEW r \in t, NEW q \in items, SameItem(q, r), r.current PROVE q.current
    <3>1. CASE r \in items
      BY <2>1, <3>1 DEF EntriesOk
    <3>2. CASE \E s \in Imports!Sources : r = target[Imports!Id(s)]
      <4>1. PICK s \in Imports!Sources : r = target[Imports!Id(s)]
        BY <3>2
      <4>2. LeafRow(s, r)
        BY <4>1 DEF Assigned
      <4>3. ~NewEntry(items, r)
        BY <2>1, NewIsNew
      <4>4. PICK z \in items : z.current /\ SameItem(z, r)
        BY <4>2, <4>3 DEF LeafRow
      <4>5. SameItem(z, q)
        BY <2>1, <4>4 DEF SameItem
      <4> QED
        BY <4>4, <4>5 DEF EntriesOk
    <3> QED
      BY <3>1, <3>2 DEF SplitItems
  <2> QED
    BY <2>1, SameItemIs
<1> HIDE DEF C, I
<1>6. ASSUME NEW m \in ms PROVE LinkOk(t, m)
  <2>1. CASE m \in mappings
    <3>1. LinkOk(items, m)
      BY <1>4, <2>1
    <3>2. PICK r \in items : I(r) = m.item
      BY <3>1 DEF LinkOk, I
    <3>3. \E q \in t : I(q) = m.item
      BY <1>2, <3>2
    <3> QED
      BY <3>1, <3>3 DEF LinkOk, I
  <2>2. CASE m \in C
    <3>1. PICK n \in mappings, r \in Imports!Sources : m = Copied(target, r, n)
      BY <1>1, <2>2
    <3>2. LinkOk(items, n)
      BY <1>4
    <3> QED
      BY <1>3, <3>1, <3>2 DEF LinkOk, Copied
  <2> QED
    BY <2>1, <2>2
<1>7. ASSUME NEW r \in t, NEW m \in ms, r.current, m.item = I(r)
      PROVE  \E n \in ms : n.current /\ n.item = m.item /\ n.element = m.element
  <2>1. CASE m \in mappings
    <3>1. PICK q \in items : I(q) = I(r)
      BY <1>4, <1>7, <2>1 DEF LinkOk, I
    <3>2. q.current
      BY <1>5, <1>7, <3>1
    <3> QED
      BY <1>4, <1>7, <2>1, <3>1, <3>2
  <2>2. CASE m \in C
    BY <1>1, <2>2 DEF Copied
  <2> QED
    BY <2>1, <2>2
<1> QED
  BY <1>6, <1>7 DEF LinksOk, C, I

LEMMA SplitCovers == CatalogueInv => Imports!SplitCoversItems
<1> SUFFICES ASSUME CatalogueInv, Imports!Split, NEW r \in Imports!Sources
             PROVE  \E q \in Imports!Current(items') :
               /\ q.standard = Imports!LeafOf(r) /\ q.disclosure = r.disclosure /\ q.code = r.code
               /\ q.text \in {x.text : x \in Imports!Sources}
               /\ Imports!MappedTo(r, ElementOf[r.code]) =>
                    \E m \in Imports!Current(mappings') :
                      m.item = Imports!Id(q) /\ m.element = ElementOf[r.code]
  BY DEF Imports!SplitCoversItems
<1>1. EntriesOk(items) /\ LinksOk(items, mappings)
  BY DEF CatalogueInv
<1>2. PICK target :
        /\ Assigned(target)
        /\ items' = {z \in items : Imports!Id(z) \notin
                                     {Imports!Id(target[x]) : x \in DOMAIN target}}
                    \cup Imports!Range(target)
        /\ mappings' = mappings \cup Imports!CopiesOf(Imports!Sources, target)
  BY <1>1, SplitIs
<1> DEFINE q == target[Imports!Id(r)]
<1>3. q \in items' /\ LeafRow(r, q) /\ q.text \in {x.text : x \in Imports!Sources}
  BY <1>2, SplitItemsAre DEF Assigned, SplitItems
<1>4. ASSUME NEW m \in mappings, m.current, m.item = Imports!Id(r), m.element = ElementOf[r.code]
      PROVE  \E n \in mappings' : n.current /\ n.item = Imports!Id(q) /\ n.element = m.element
  <2>1. CASE Has(mappings, Imports!Id(q), m)
    <3>1. PICK n \in mappings : n.item = Imports!Id(q) /\ n.element = m.element
      BY <2>1 DEF Has
    <3>2. PICK z \in items : Imports!Id(z) = n.item
      BY <1>1 DEF LinksOk, LinkOk
    <3>3. SameItem(z, q)
      BY <3>1, <3>2, SameItemIs
    <3>4. ~NewEntry(items, q)
      BY <1>1, <3>3, NewIsNew
    <3>5. PICK y \in items : y.current /\ SameItem(y, q)
      BY <1>3, <3>4 DEF LeafRow
    <3>6. n.item = Imports!Id(y)
      BY <3>1, <3>5, SameItemIs
    <3>7. \E p \in mappings : p.current /\ p.item = n.item /\ p.element = n.element
      BY <1>1, <3>5, <3>6 DEF LinksOk
    <3> QED
      BY <1>2, <3>1, <3>7
  <2>2. CASE ~Has(mappings, Imports!Id(q), m)
    <3>1. Copied(target, r, m) \in mappings'
      BY <1>1, <1>2, <1>4, <2>2, CopiesAre
    <3> QED
      BY <1>4, <3>1 DEF Copied
  <2> QED
    BY <2>1, <2>2
<1>5. q \in Imports!Current(items')
  BY <1>3 DEF LeafRow, Imports!Current
<1>6. Imports!MappedTo(r, ElementOf[r.code]) =>
        \E m \in Imports!Current(mappings') :
          m.item = Imports!Id(q) /\ m.element = ElementOf[r.code]
  BY <1>4 DEF Imports!MappedTo, Imports!Current
<1>7. q.standard = Imports!LeafOf(r) /\ q.disclosure = r.disclosure /\ q.code = r.code
  BY <1>3 DEF LeafRow
<1> QED
  BY <1>3, <1>5, <1>6, <1>7

-----------------------------------------------------------------------------
(* Every step keeps the invariant.                                          *)

LEMMA CatalogueStart == Imports!Init => CatalogueInv
<1> SUFFICES ASSUME Imports!Init PROVE CatalogueInv
  OBVIOUS
<1>1. /\ standards = [st \in {} |-> TRUE] /\ disclosures = {} /\ items = {} /\ mappings = {}
      /\ elements = [e \in Imports!Range(ElementOf) |-> NoText]
      /\ batch = Imports!Quiet /\ changes = [runs |-> 0, edits |-> 0]
  BY DEF Imports!Init
<1>2. EntriesOk(items)
  BY <1>1, FS_EmptySet DEF EntriesOk
<1>3. LinksOk(items, mappings)
  BY <1>1 DEF LinksOk
<1>4. changes.runs = 0 /\ changes.edits = 0 /\ changes = [runs |-> changes.runs, edits |-> changes.edits]
  BY <1>1
<1>5. 0 \in 0..MaxRuns /\ 0 \in 0..MaxChanges
  BY CatalogueFit
<1> QED
  BY <1>1, <1>2, <1>3, <1>4, <1>5 DEF CatalogueInv, BatchOk

LEMMA AfterIs ==
  ASSUME BatchOk(batch), NEW e, e \in batch.left
  PROVE  BatchOk(Imports!After(e))
<1>1. batch # Imports!Quiet
  BY DEF Imports!Quiet
<1>2. /\ batch = [script |-> batch.script, left |-> batch.left, shared |-> batch.shared,
                  skip |-> batch.skip]
      /\ batch.script \in Imports!Scripts /\ batch.left \subseteq Editions /\ batch.shared \in BOOLEAN
  BY <1>1 DEF BatchOk
<1> DEFINE left == batch.left \ {e}
           b == [script |-> batch.script, left |-> left, shared |-> batch.shared, skip |-> batch.skip]
<1>3. [batch EXCEPT !.left = @ \ {e}] = b
  BY <1>2
<1>4. BatchOk(b)
  BY <1>2 DEF BatchOk
<1> HIDE DEF b
<1> QED
  BY <1>3, <1>4 DEF Imports!After, BatchOk

LEMMA StandardsStep ==
  ASSUME CatalogueInv, NEW e \in Editions, NEW shared \in BOOLEAN,
         Imports!Keeps(e, shared) \/ Imports!Activates(e, shared)
  PROVE  /\ \A st \in DOMAIN standards' : standards'[st] \in BOOLEAN
         /\ \A d \in disclosures' : DisclosureOk(d) /\ d.standard \in DOMAIN standards'
         /\ DOMAIN elements' = Imports!Range(ElementOf)
<1> DEFINE kept == Imports!StandardKept(e.standard)
<1>1. /\ DOMAIN kept = DOMAIN standards \cup {e.standard}
      /\ \A st \in DOMAIN kept : kept[st] \in BOOLEAN
  BY DEF Imports!StandardKept, CatalogueInv
<1>2. standards' = kept \/ standards' = [kept EXCEPT ![e.standard] = TRUE]
  BY DEF Imports!Keeps, Imports!Activates, Imports!StandardActivated
<1> HIDE DEF kept
<1>3. /\ DOMAIN standards' = DOMAIN standards \cup {e.standard}
      /\ \A st \in DOMAIN standards' : standards'[st] \in BOOLEAN
  BY <1>1, <1>2
<1>4. Imports!Document(e, shared)
  BY DEF Imports!Keeps, Imports!Activates
<1>5. disclosures' = Imports!WrittenDisclosures(e)
      /\ elements' = IF shared THEN Imports!Elements(UpsertedBy(e)) ELSE elements
  BY <1>4 DEF Imports!Document, UpsertedBy
<1>6. ASSUME NEW d \in disclosures' PROVE DisclosureOk(d) /\ d.standard \in DOMAIN standards'
  <2>1. CASE d \in disclosures
    BY <1>3, <2>1 DEF CatalogueInv
  <2>2. CASE \E x \in e.disclosures :
               d = [standard |-> e.standard, code |-> x.code, section |-> x.section]
    BY <1>3, <2>2 DEF DisclosureOk
  <2> QED
    BY <1>5, <2>1, <2>2 DEF Imports!WrittenDisclosures
<1>7. DOMAIN elements' = DOMAIN elements
  BY <1>5 DEF Imports!Elements
<1> QED
  BY <1>3, <1>6, <1>7 DEF CatalogueInv

LEMMA ImportKeepsRows ==
  ASSUME CatalogueInv, NEW e \in Editions, NEW shared \in BOOLEAN, Imports!Document(e, shared)
  PROVE  EntriesOk(items') /\ LinksOk(items', mappings')
<1>1. EntriesOk(items) /\ LinksOk(items, mappings)
  BY DEF CatalogueInv
<1>2. ~Imports!Ambiguous(e) /\ ItemsAre(e, items') /\ MappingsAre(e, shared, mappings')
  BY <1>1, DocumentItems, DocumentMappings
<1> DEFINE t == items'
           ms == mappings'
<1>3. ItemsAre(e, t) /\ MappingsAre(e, shared, ms)
  BY <1>2
<1> HIDE DEF t, ms
<1>4. EntriesOk(t) /\ LinksOk(t, ms)
  BY <1>1, <1>2, <1>3, DocumentWrites, DocumentLinks, Rewriting
<1> QED
  BY <1>4 DEF t, ms

LEMMA SplitKeeps ==
  ASSUME CatalogueInv, Imports!Split
  PROVE  CatalogueInv'
<1>1. EntriesOk(items) /\ LinksOk(items, mappings)
  BY DEF CatalogueInv
<1>2. EntriesOk(items') /\ LinksOk(items', mappings')
  <2>1. PICK target :
          /\ Assigned(target)
          /\ items' = {r \in items : Imports!Id(r) \notin
                                       {Imports!Id(target[x]) : x \in DOMAIN target}}
                      \cup Imports!Range(target)
          /\ mappings' = mappings \cup Imports!CopiesOf(Imports!Sources, target)
    BY <1>1, SplitIs
  <2> DEFINE t == items'
  <2>2. SplitItems(target, t)
    BY <2>1, SplitItemsAre
  <2> HIDE DEF t
  <2>3. EntriesOk(t) /\ LinksOk(t, mappings \cup Imports!CopiesOf(Imports!Sources, target))
    BY <1>1, <2>1, <2>2, SplitWrites, SplitLinks, Rewriting
  <2> QED
    BY <2>1, <2>3 DEF t
<1>3. /\ Umbrella \in DOMAIN standards
      /\ standards' = [st \in DOMAIN standards \cup Imports!Leaves |->
                         IF st \in Imports!Leaves THEN standards[Umbrella] ELSE standards[st]]
      /\ disclosures' =
           {d \in disclosures : ~\E u \in Imports!Umbrellas : d.standard = u.section /\ d.code = u.code}
           \cup {[u EXCEPT !.standard = u.section] : u \in Imports!Umbrellas}
      /\ UNCHANGED <<elements, batch, changes>>
  BY DEF Imports!Split
<1>4. /\ DOMAIN standards' = DOMAIN standards \cup Imports!Leaves
      /\ \A st \in DOMAIN standards' : standards'[st] \in BOOLEAN
  BY <1>3 DEF CatalogueInv
<1>5. ASSUME NEW d \in disclosures' PROVE DisclosureOk(d) /\ d.standard \in DOMAIN standards'
  <2>1. CASE d \in disclosures
    BY <1>4, <2>1 DEF CatalogueInv
  <2>2. CASE \E u \in Imports!Umbrellas : d = [u EXCEPT !.standard = u.section]
    <3>1. PICK u \in Imports!Umbrellas : d = [u EXCEPT !.standard = u.section]
      BY <2>2
    <3>2. DisclosureOk(u) /\ u.section \in Imports!Leaves
      BY DEF Imports!Umbrellas, Imports!Leaves, CatalogueInv
    <3>3. d = [standard |-> u.section, code |-> u.code, section |-> u.section]
      BY <3>1, <3>2 DEF DisclosureOk
    <3> QED
      BY <1>4, <3>2, <3>3 DEF DisclosureOk
  <2> QED
    BY <1>3, <2>1, <2>2
<1> QED
  BY <1>2, <1>3, <1>4, <1>5 DEF CatalogueInv

LEMMA CreateItemKeeps ==
  ASSUME CatalogueInv, NEW d \in disclosures, NEW c \in Imports!Codes,
         Imports!CreateItem(d, c, NoText)
  PROVE  EntriesOk(items') /\ LinksOk(items', mappings')
<1> DEFINE row == [standard |-> d.standard, disclosure |-> d.code, code |-> c,
                   copy |-> Imports!NextCopy(d.standard, d.code, c),
                   text |-> NoText, current |-> TRUE]
           t == items \cup {row}
<1>1. items' = t /\ mappings' = mappings /\ EntriesOk(items) /\ LinksOk(items, mappings)
  BY DEF Imports!CreateItem, CatalogueInv
<1>2. EntryOk(row)
  BY DEF EntryOk, Imports!Codes
<1>3. NewEntry(items, row)
  BY NextIs DEF NewEntry, CopyOf
<1> HIDE DEF row
<1>4. \A q \in items : ~SameItem(q, row) /\ ~SameItem(row, q)
  <2>1. \A q \in items : ~SameItem(q, row)
    BY <1>1, <1>3, NewIsNew
  <2> QED
    BY <2>1 DEF SameItem
<1>5. \A r \in items : EntryOk(r) /\ SameItem(r, r)
  BY <1>1 DEF EntriesOk, SameItem
<1>6. \A r, q \in items : SameItem(r, q) => r = q
  BY <1>1 DEF EntriesOk
<1>7. IsFiniteSet(t)
  BY <1>1, FS_AddElement DEF EntriesOk
<1>8. Rewritten(items, t)
  BY <1>2, <1>3, <1>4, <1>5, <1>6, <1>7 DEF Rewritten
<1>9. EntriesOk(t)
  BY <1>1, <1>8, Rewriting
<1>10. LinksOk(t, mappings)
  <2>1. ASSUME NEW m \in mappings PROVE LinkOk(t, m) /\ m.item # Imports!Id(row)
    <3>1. LinkOk(items, m)
      BY <1>1 DEF LinksOk
    <3>2. PICK r \in items : Imports!Id(r) = m.item
      BY <3>1 DEF LinkOk
    <3>3. m.item # Imports!Id(row)
      BY <1>4, <3>2, SameItemIs
    <3> QED
      BY <3>1, <3>2, <3>3 DEF LinkOk
  <2> QED
    BY <1>1, <2>1 DEF LinksOk
<1> QED
  BY <1>1, <1>9, <1>10

LEMMA CreateMappingKeeps ==
  ASSUME CatalogueInv, NEW r \in items, Imports!CreateMapping(r)
  PROVE  EntriesOk(items') /\ LinksOk(items', mappings')
<1> DEFINE el == ElementOf[r.code]
           I(q) == Imports!Id(q)
           old == {m \in Imports!Current(mappings) : m.item = I(r) /\ m.element = el}
           version == IF old = {} THEN 1 ELSE (CHOOSE m \in old : TRUE).version + 1
           link == [item |-> I(r), element |-> el, version |-> version, current |-> TRUE]
<1>1. EntriesOk(items) /\ LinksOk(items, mappings)
  BY DEF CatalogueInv
<1>2. /\ version <= MaxVersion /\ items' = items
      /\ mappings' = (mappings \ old) \cup Imports!Retired(old) \cup {link}
  BY DEF Imports!CreateMapping
<1>3. \A m : m \in old <=> m \in mappings /\ m.current /\ m.item = I(r) /\ m.element = el
  BY DEF Imports!Current
<1>4. \A m : m \in Imports!Retired(old) <=> \E n \in old : m = Ended(n)
  BY DEF Imports!Retired, Ended
<1>5. version \in 1..MaxVersion
  <2>1. CASE old = {}
    BY <2>1, CatalogueFit
  <2>2. CASE old # {}
    <3> DEFINE m == CHOOSE m \in old : TRUE
    <3>1. m \in old
      BY <2>2
    <3>2. m \in mappings
      BY <1>3, <3>1
    <3>3. m.version \in 1..MaxVersion
      BY <1>1, <3>2 DEF LinksOk, LinkOk
    <3>4. version = m.version + 1
      BY <2>2
    <3> HIDE DEF m, version, old
    <3> QED
      BY <1>2, <3>3, <3>4, CatalogueFit
  <2> QED
    BY <2>1, <2>2
<1> DEFINE ms == mappings'
<1>6. LinkOk(items, link) /\ link.current /\ link.item = I(r) /\ link.element = el
  BY <1>5 DEF LinkOk
<1>7. \A m : m \in ms <=> \/ m \in mappings /\ m \notin old
                          \/ \E n \in old : m = Ended(n)
                          \/ m = link
  BY <1>2, <1>4
<1>8. \A m \in mappings : /\ LinkOk(items, m) /\ LinkOk(items, Ended(m))
                          /\ Ended(m).item = m.item /\ Ended(m).element = m.element
  BY <1>1, LinkEndedIs DEF LinksOk
<1>9. \A q \in items, m \in mappings : q.current /\ m.item = I(q) =>
        \E n \in mappings : n.current /\ n.item = m.item /\ n.element = m.element
  BY <1>1 DEF LinksOk
<1>13. items' = items
  BY <1>2
<1> HIDE DEF ms, link, old, I, el
<1>10. \A m \in ms : LinkOk(items, m)
  BY <1>3, <1>6, <1>7, <1>8
<1>11. ASSUME NEW q \in items, NEW m \in ms, q.current, m.item = I(q)
       PROVE  \E n \in ms : n.current /\ n.item = m.item /\ n.element = m.element
  <2>1. ASSUME NEW k \in mappings, k.item = m.item, k.element = m.element
        PROVE  \E n \in ms : n.current /\ n.item = m.item /\ n.element = m.element
    <3>1. PICK n \in mappings : n.current /\ n.item = k.item /\ n.element = k.element
      BY <1>9, <1>11, <2>1
    <3>2. CASE n \in old
      BY <1>3, <1>6, <1>7, <2>1, <3>1, <3>2
    <3>3. CASE n \notin old
      BY <1>7, <2>1, <3>1, <3>3
    <3> QED
      BY <3>2, <3>3
  <2>2. CASE m = link
    BY <1>6, <1>7, <2>2
  <2>3. CASE m \in mappings
    BY <2>1, <2>3
  <2>4. CASE \E n \in old : m = Ended(n)
    BY <1>3, <1>8, <2>1, <2>4
  <2> QED
    BY <1>7, <2>2, <2>3, <2>4
<1>12. LinksOk(items, ms)
  BY <1>10, <1>11 DEF LinksOk, I
<1> QED
  BY <1>1, <1>12, <1>13 DEF ms

LEMMA CatalogueStep == CatalogueInv /\ Imports!Next => CatalogueInv'
<1> SUFFICES ASSUME CatalogueInv, Imports!Next PROVE CatalogueInv'
  OBVIOUS
<1> USE DEF Imports!catalogue
<1>1. CASE Imports!Split
  BY <1>1, SplitKeeps
<1>2. ASSUME NEW script \in Imports!Scripts,
             NEW docs \in SUBSET {e \in Editions : e.script = script},
             Imports!StartFolder(script, docs)
      PROVE  CatalogueInv'
  <2>1. PICK shared \in BOOLEAN, skip \in BOOLEAN :
          batch' = [script |-> script, left |-> docs, shared |-> shared, skip |-> skip]
    BY <1>2 DEF Imports!StartFolder
  <2>2. BatchOk(batch')
    BY <2>1 DEF BatchOk
  <2>3. /\ changes.runs < MaxRuns /\ changes' = [changes EXCEPT !.runs = @ + 1]
        /\ UNCHANGED <<standards, disclosures, items, elements, mappings>>
    BY <1>2 DEF Imports!StartFolder
  <2>4. /\ changes' = [runs |-> changes.runs + 1, edits |-> changes.edits]
        /\ changes.runs + 1 \in 0..MaxRuns
    BY <2>3, CatalogueFit DEF CatalogueInv
  <2>5. EntriesOk(items') /\ LinksOk(items', mappings')
    BY <2>3 DEF CatalogueInv
  <2> QED
    BY <2>2, <2>3, <2>4, <2>5 DEF CatalogueInv
<1>3. ASSUME NEW e \in Editions, Imports!ImportNext(e) PROVE CatalogueInv'
  <2>1. Imports!Document(e, batch.shared) /\ batch.shared \in BOOLEAN
    BY <1>3, ImportDocument
  <2>2. Imports!Keeps(e, batch.shared) \/ Imports!Activates(e, batch.shared)
    BY <1>3 DEF Imports!ImportNext, Imports!ImportGri, Imports!ImportGri2, Imports!ImportGri3,
       Imports!ImportSector, Imports!ImportEsrs, Imports!ImportEsrs2, Imports!ImportSasb,
       Imports!ImportLaw
  <2>3. e \in batch.left /\ batch' = Imports!After(e) /\ changes' = changes
    BY <1>3 DEF Imports!ImportNext
  <2>4. BatchOk(batch')
    BY <2>3, AfterIs DEF CatalogueInv
  <2>5. EntriesOk(items') /\ LinksOk(items', mappings')
    BY <2>1, ImportKeepsRows
  <2>6. /\ \A st \in DOMAIN standards' : standards'[st] \in BOOLEAN
        /\ \A d \in disclosures' : DisclosureOk(d) /\ d.standard \in DOMAIN standards'
        /\ DOMAIN elements' = Imports!Range(ElementOf)
    BY <2>1, <2>2, StandardsStep
  <2> QED
    BY <2>3, <2>4, <2>5, <2>6 DEF CatalogueInv
<1>4. ASSUME NEW e \in Editions,
             Imports!SkipNext(e) \/ Imports!FailNext(e) \/ Imports!Crash(e)
      PROVE  CatalogueInv'
  <2>1. /\ UNCHANGED <<standards, disclosures, items, elements, mappings, changes>>
        /\ e \in batch.left /\ (batch' = Imports!After(e) \/ batch' = Imports!Quiet)
    BY <1>4 DEF Imports!SkipNext, Imports!FailNext, Imports!Crash
  <2>2. BatchOk(batch')
    BY <2>1, AfterIs DEF CatalogueInv, BatchOk
  <2>3. EntriesOk(items') /\ LinksOk(items', mappings')
    BY <2>1 DEF CatalogueInv
  <2> QED
    BY <2>1, <2>2, <2>3 DEF CatalogueInv
<1>5. ASSUME Imports!Edits,
             EntriesOk(items') /\ LinksOk(items', mappings'),
             UNCHANGED <<disclosures, elements, batch>>,
             \A st \in DOMAIN standards' : standards'[st] \in BOOLEAN,
             DOMAIN standards' = DOMAIN standards
      PROVE  CatalogueInv'
  <2>1. /\ changes' = [runs |-> changes.runs, edits |-> changes.edits + 1]
        /\ changes.edits + 1 \in 0..MaxChanges
    BY <1>5, CatalogueFit DEF CatalogueInv, Imports!Edits
  <2> QED
    BY <1>5, <2>1 DEF CatalogueInv
<1>6. ASSUME NEW d \in disclosures, NEW c \in Imports!Codes, Imports!CreateItem(d, c, NoText)
      PROVE  CatalogueInv'
  <2>1. EntriesOk(items') /\ LinksOk(items', mappings')
    BY <1>6, CreateItemKeeps
  <2>2. Imports!Edits /\ UNCHANGED <<standards, disclosures, elements, batch>>
    BY <1>6 DEF Imports!CreateItem
  <2> QED
    BY <1>5, <2>1, <2>2 DEF CatalogueInv
<1>7. ASSUME NEW r \in items, Imports!CreateMapping(r) PROVE CatalogueInv'
  <2>1. EntriesOk(items') /\ LinksOk(items', mappings')
    BY <1>7, CreateMappingKeeps
  <2>2. Imports!Edits /\ UNCHANGED <<standards, disclosures, elements, batch>>
    BY <1>7 DEF Imports!CreateMapping
  <2> QED
    BY <1>5, <2>1, <2>2 DEF CatalogueInv
<1>8. ASSUME NEW st \in DOMAIN standards, NEW active \in BOOLEAN, Imports!SetActive(st, active)
      PROVE  CatalogueInv'
  <2>1. Imports!Edits /\ UNCHANGED <<disclosures, items, elements, mappings, batch>>
        /\ standards' = [standards EXCEPT ![st] = active]
    BY <1>8 DEF Imports!SetActive
  <2>2. EntriesOk(items') /\ LinksOk(items', mappings')
    BY <2>1 DEF CatalogueInv
  <2>3. /\ \A x \in DOMAIN standards' : standards'[x] \in BOOLEAN
        /\ DOMAIN standards' = DOMAIN standards
    BY <2>1 DEF CatalogueInv
  <2> QED
    BY <1>5, <2>1, <2>2, <2>3
<1> QED
  BY <1>1, <1>2, <1>3, <1>4, <1>6, <1>7, <1>8 DEF Imports!Next

LEMMA CatalogueAlways == Composition => []CatalogueInv
<1>1. Start => CatalogueInv
  BY CatalogueStart DEF Start, Stand
<1>2. CatalogueInv /\ [Step]_allVars => CatalogueInv'
  <2>1. CatalogueInv /\ Imports!Next => CatalogueInv'
    BY CatalogueStep
  <2>2. CatalogueInv /\ UNCHANGED catalogueVars => CatalogueInv'
    BY DEF CatalogueInv, catalogueVars
  <2>3. [Step]_allVars => Imports!Next \/ UNCHANGED catalogueVars
    BY DEF Step, allVars, serviceVars, catalogueVars
  <2> QED
    BY <2>1, <2>2, <2>3
<1> QED
  BY <1>1, <1>2, PTL DEF Composition

\* Whatever was imported, edited and split before: an import leaves the catalogue as its
\* document says, retires the mappings of what it retires, and changes nothing when it is
\* repeated; the split brings every current item of the umbrella into its leaf, mapped as it
\* was (import_gri_docx.py and the other import scripts, split_gri_leaf_standards.py).
THEOREM ImportsFollowed == Composition => CatalogueFollows
<1> DEFINE A == Imports!ImportsAreExact /\ Imports!SplitCoversItems
<1>1. CatalogueInv => [A]_(Imports!vars)
  BY ImportsExact, SplitCovers
<1>2. CatalogueFollows <=> [][A]_(Imports!vars)
  BY DEF CatalogueFollows, Imports!CatalogueFollows
<1> HIDE DEF A
<1> QED
  BY <1>1, <1>2, CatalogueAlways, PTL

-----------------------------------------------------------------------------
(* The types of all parts.                                                  *)

LEMMA CatalogueTypes == CatalogueInv => Imports!TypeOK
<1> SUFFICES ASSUME CatalogueInv PROVE Imports!TypeOK
  OBVIOUS
<1>1. \A r \in items : r.code \in Imports!Codes /\ r.copy \in Nat /\ r.current \in BOOLEAN
  BY DEF CatalogueInv, EntriesOk, EntryOk, Imports!Codes
<1>2. \A m \in mappings :
        m.version \in 1..MaxVersion /\ m.item \in {Imports!Id(r) : r \in items}
  BY DEF CatalogueInv, LinksOk, LinkOk
<1>3. batch.script \in Imports!Scripts \cup {"none"} /\ batch.left \subseteq Editions
  BY DEF CatalogueInv, BatchOk, Imports!Quiet
<1> QED
  BY <1>1, <1>2, <1>3 DEF CatalogueInv, Imports!TypeOK

LEMMA PlanningTypes == PlanInv => Planning!TypeOK
<1> SUFFICES ASSUME PlanInv PROVE Planning!TypeOK
  OBVIOUS
<1>1. ASSUME NEW i \in Planning!Indices
      PROVE  /\ rows[i].element \in Planning!Catalogued \cup added
             /\ Planning!Scope(rows[i]) \in Places
             /\ Planning!People(rows[i]) \in [Planning!Duties -> Assignees \cup {Nobody}]
  <2>1. PlanRow(rows[i])
    BY DEF PlanInv, StaffingOk, RowsOk, Planning!Indices
  <2>2. \A d \in Planning!Duties : rows[i][d] \in Someone
    BY <2>1, PlanFields
  <2>3. rows[i].element \in Planning!Catalogued \cup added
    BY DEF PlanInv, StaffingOk, RowsKnown, Planning!Indices
  <2>4. Planning!People(rows[i]) \in [Planning!Duties -> Assignees \cup {Nobody}]
    BY <2>2 DEF Planning!People, Someone
  <2> QED
    BY <2>1, <2>3, <2>4 DEF PlanRow
<1>2. planning.kind \in {"idle", "launch", "create", "edit", "auto"}
  BY DEF PlanInv, RequestOk, ChangeOk, PlanKinds, Planning!Idle
<1> QED
  BY <1>1, <1>2 DEF PlanInv, StaffingOk, Planning!TypeOK

\* No operation of any service leaves a malformed row or count, a reference to a row that is
\* not there, or more connections in use than the pool has.
THEOREM ServiceTypes == Composition => []TypesOK
<1>1. PagesInv /\ FilesInv /\ CatalogueInv /\ ProxyInv /\ PlanInv /\ EventsInv => TypesOK
  <2>1. ProxyInv => Proxy!TypeOK
    BY DEF ProxyInv, ProxyDb, Proxy!TypeOK, Distinct, PointShape, IdsOf
  <2> QED
    BY <2>1, PagesTypes, CatalogueTypes, PlanningTypes, EventTypes DEF TypesOK, FilesInv
<1> QED
  BY <1>1, PagesAlways, FilesAlways, CatalogueAlways, ProxyAlways, PlanAlways, EventsAlways, PTL
=============================================================================
