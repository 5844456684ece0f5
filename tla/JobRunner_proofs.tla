---------------------------- MODULE JobRunner_proofs ----------------------------
(***************************************************************************)
(* Theorems about JobRunner, for any number of clients, workers, handlers, *)
(* jobs, endpoints and deliveries, whatever the lease does.                *)
(*                                                                         *)
(* None of the properties is inductive.  ExportInv adds that an open       *)
(* transaction alone holds its key, that a job queued under a key is the   *)
(* one its record names, and that what a worker holds is due, held by no   *)
(* other worker, and the committed row or one attempt further.  WebhookInv *)
(* says the same of deliveries, and of handlers that what they insert is   *)
(* in no table yet, is theirs alone, and for a test is a single row.       *)
(***************************************************************************)
EXTENDS JobRunner, TLAPS

\* One item of a batch has been worked on: it is no longer to do, its row changed.
LEMMA AttemptedBatch ==
  ASSUME NEW Todos, NEW Tables, NEW b \in [todo : Todos, rows : Tables],
         NEW i, NEW row, NEW new, new = [b EXCEPT !.todo = @ \ {i}, !.rows[i] = row]
  PROVE  /\ new = [todo |-> new.todo, rows |-> new.rows]
         /\ new.todo = b.todo \ {i}
         /\ new.rows = [b.rows EXCEPT ![i] = row]
OBVIOUS

-----------------------------------------------------------------------------
(* Export jobs.                                                            *)

Holding(c) == request[c] # NoRequest /\ request[c].at # "reserve"

\* A key that is reserved by an open transaction is reserved by one, and has no
\* record yet; a job that was queued under a key is the one its record names.
KeysHeldOnce ==
  \A c, d \in Clients :
    c # d /\ Holding(c) /\ Holding(d) /\ request[c].key # NoKey => request[c].key # request[d].key
KeysHeldFree ==
  \A c \in Clients :
    Holding(c) /\ request[c].key # NoKey => record[request[c].key] = NoRecord
JobsRecorded ==
  \A j \in Jobs : job[j] # NoJob /\ job[j].key # NoKey =>
    record[job[j].key] # NoRecord /\ record[job[j].key].job = j

\* A job that is still active has an attempt left.
ActiveRow(row) == row # NoJob /\ row.status \in Exports!Active
JobsHaveAttempts == \A j \in Jobs : ActiveRow(job[j]) => job[j].attempt < MaxAttempts

\* What a batch has made of the rows it has claimed.
Tried(row) == {Exports!AfterAttempt(row, TRUE), Exports!AfterAttempt(row, FALSE)}
ExportsClaimed ==
  \A w \in Workers : exporting[w] # NoBatch =>
    \A j \in DOMAIN exporting[w].rows :
      /\ ActiveRow(job[j]) /\ job[j].due
      /\ j \in exporting[w].todo => exporting[w].rows[j] = job[j]
      /\ j \notin exporting[w].todo => exporting[w].rows[j] \in Tried(job[j])
ExportsApart ==
  \A v, w \in Workers : v # w /\ exporting[v] # NoBatch /\ exporting[w] # NoBatch =>
    DOMAIN exporting[v].rows \cap DOMAIN exporting[w].rows = {}

KeysInv == KeysHeldOnce /\ KeysHeldFree /\ JobsRecorded /\ Exports!ReplaysTellTruth
ClaimsInv == JobsHaveAttempts /\ ExportsClaimed /\ ExportsApart
ExportInv == Exports!TypeOK /\ KeysInv /\ ClaimsInv

LEMMA ExportInit == ASSUME ConstantsOK, Exports!Init PROVE ExportInv
BY DEF Exports!Init, ExportInv, Exports!TypeOK, KeysInv, ClaimsInv, KeysHeldOnce, KeysHeldFree,
   JobsRecorded, Exports!ReplaysTellTruth, JobsHaveAttempts, ExportsClaimed, ExportsApart,
   Holding, ActiveRow

\* The rows of a batch are rows of some of the jobs.
LEMMA ExportBatchType ==
  ASSUME NEW b
  PROVE  b \in Exports!Batch <=>
         /\ b = [todo |-> b.todo, rows |-> b.rows]
         /\ b.todo \in SUBSET Jobs /\ DOMAIN b.rows \in SUBSET Jobs
         /\ b.rows \in [DOMAIN b.rows -> Exports!JobRow]
BY DEF Exports!Batch

\* An attempt at an active job leaves a row that is well formed, and active only
\* when there is another attempt.
LEMMA TriedRow ==
  ASSUME NEW row \in Exports!JobRow, row.status \in Exports!Active,
         row.attempt < MaxAttempts, NEW new \in Tried(row)
  PROVE  /\ new \in Exports!JobRow
         /\ new.attempt = row.attempt + 1 /\ new.key = row.key /\ new.print = row.print
         /\ ActiveRow(new) => new.attempt < MaxAttempts
         /\ new.status = "completed"
            \/ (new.status = "retry_scheduled" /\ row.attempt + 1 < MaxAttempts)
            \/ (new.status = "dead_letter" /\ row.attempt + 1 = MaxAttempts)
<1> DEFINE tried == [row EXCEPT !.attempt = row.attempt + 1]
<1>1. MaxAttempts \in Nat /\ row.attempt \in 0..MaxAttempts
  BY ConstantsOK DEF Exports!JobRow, ConstantsOK, Exports!ConstantsOK
<1>2. /\ tried \in Exports!JobRow
      /\ tried.attempt = row.attempt + 1 /\ tried.key = row.key /\ tried.print = row.print
  BY <1>1 DEF Exports!JobRow
<1>3. new \in {[tried EXCEPT !.status = "completed"], [tried EXCEPT !.status = "dead_letter"],
               [tried EXCEPT !.status = "retry_scheduled", !.due = FALSE]}
  BY DEF Tried, Exports!AfterAttempt
<1>4. /\ new.status = "completed"
         \/ (new.status = "retry_scheduled" /\ row.attempt + 1 < MaxAttempts)
         \/ (new.status = "dead_letter" /\ ~(row.attempt + 1 < MaxAttempts))
  BY <1>2 DEF Tried, Exports!AfterAttempt, Exports!JobRow
<1>5. /\ new \in Exports!JobRow
      /\ new.attempt = row.attempt + 1 /\ new.key = row.key /\ new.print = row.print
  BY <1>2, <1>3 DEF Exports!JobRow
<1> QED
  BY <1>1, <1>4, <1>5 DEF ActiveRow, Exports!Active

\* Requests that reserve keys and pass gates, without a write of theirs.
LEMMA RequestKeeps ==
  ASSUME ExportInv, NEW c \in Clients,
         \/ \E k \in Keys \cup {NoKey}, p \in Prints : Exports!Send(c, k, p)
         \/ Exports!Reserve(c) \/ Exports!Replay(c) \/ Exports!PassGates(c) \/ Exports!Refuse(c)
  PROVE  ExportInv'
<1>1. /\ UNCHANGED <<job, record, exporting>>
      /\ request' = [request EXCEPT ![c] = request'[c]]
      /\ request'[c] \in Exports!Request \cup {NoRequest}
  BY DEF ExportInv, Exports!TypeOK, Exports!Request, Exports!Send, Exports!Reserve,
     Exports!Replay, Exports!PassGates, Exports!Refuse
<1>2. Exports!TypeOK'
  BY <1>1 DEF ExportInv, Exports!TypeOK
<1>3. ClaimsInv' /\ JobsRecorded' /\ Exports!ReplaysTellTruth'
  BY <1>1 DEF ExportInv, KeysInv, ClaimsInv, JobsHaveAttempts, ExportsClaimed, ExportsApart,
     JobsRecorded, Exports!ReplaysTellTruth, ActiveRow
<1>4. Holding(c)' => /\ request'[c].key = request[c].key
                     /\ \/ Holding(c)
                        \/ request[c].key # NoKey =>
                             ~Exports!Reserved(request[c].key) /\ record[request[c].key] = NoRecord
  BY ConstantsOK, <1>1
     DEF ConstantsOK, Exports!ConstantsOK, ExportInv, Exports!TypeOK, Exports!Request,
     Exports!Send, Exports!Reserve, Exports!Replay, Exports!PassGates, Exports!Refuse, Holding
<1>5. \A d \in Clients \ {c} : request'[d] = request[d]
  BY <1>1 DEF ExportInv, Exports!TypeOK
<1>6. \A d \in Clients \ {c} : Holding(d)' <=> Holding(d)
  BY <1>5 DEF Holding
<1>7. Holding(c)' /\ request'[c].key # NoKey =>
        /\ record[request'[c].key] = NoRecord
        /\ \A d \in Clients \ {c} : Holding(d) => request[d].key # request'[c].key
  <2>1. CASE Holding(c)
    BY <2>1, <1>4 DEF ExportInv, KeysInv, KeysHeldOnce, KeysHeldFree
  <2>2. CASE ~Holding(c)
    BY <2>2, <1>4 DEF Exports!Reserved, Holding
  <2> QED
    BY <2>1, <2>2
<1>8. KeysHeldOnce'
  BY <1>5, <1>6, <1>7 DEF ExportInv, KeysInv, KeysHeldOnce
<1>9. KeysHeldFree'
  BY <1>1, <1>5, <1>6, <1>7 DEF ExportInv, KeysInv, KeysHeldFree
<1> QED
  BY <1>2, <1>3, <1>8, <1>9 DEF ExportInv, KeysInv

LEMMA CommittedJob ==
  ASSUME ExportInv, NEW c \in Clients, NEW j \in Jobs, Exports!CommitJob(c, j)
  PROVE  /\ Exports!NewJob(request[c]) \in Exports!JobRow
         /\ Exports!NewJob(request[c]) # NoJob
         /\ job'[j] = Exports!NewJob(request[c])
<1>1. request[c] \in Exports!Request
  BY DEF ExportInv, Exports!TypeOK, Exports!CommitJob
<1>2. 0 \in 0..MaxAttempts
  BY ConstantsOK DEF ConstantsOK, Exports!ConstantsOK
<1>3. Exports!NewJob(request[c]) \in Exports!JobRow
  BY <1>1, <1>2 DEF Exports!NewJob, Exports!Request, Exports!JobRow
<1>4. Exports!NewJob(request[c]) # NoJob
  BY <1>3, ConstantsOK DEF ConstantsOK, Exports!ConstantsOK
<1> QED
  BY <1>3, <1>4 DEF Exports!CommitJob, ExportInv, Exports!TypeOK

\* The commit of a request: its job and its record appear together.
LEMMA CommitJobKeeps ==
  ASSUME ExportInv, NEW c \in Clients, NEW j \in Jobs, Exports!CommitJob(c, j)
  PROVE  ExportInv'
<1> DEFINE r == request[c]
           k == r.key
<1>1. /\ r \in Exports!Request /\ Holding(c) /\ job[j] = NoJob
      /\ job' = [job EXCEPT ![j] = Exports!NewJob(r)]
      /\ record' = [l \in Keys |-> IF l = k THEN [print |-> r.print, job |-> j] ELSE record[l]]
      /\ request' = [request EXCEPT ![c] = NoRequest]
      /\ exporting' = exporting
  BY DEF ExportInv, Exports!TypeOK, Exports!CommitJob, Exports!StoreResponse, Holding
<1>2. /\ Exports!NewJob(r) \in Exports!JobRow /\ Exports!NewJob(r).key = k
      /\ Exports!NewJob(r).print = r.print /\ Exports!NewJob(r).attempt = 0
      /\ Exports!NewJob(r) # NoJob
  BY CommittedJob DEF Exports!NewJob
<1>3. [print |-> r.print, job |-> j] \in Exports!Record
  BY <1>1 DEF Exports!Request, Exports!Record
<1>4. Exports!TypeOK'
  BY <1>1, <1>2, <1>3 DEF ExportInv, Exports!TypeOK
<1>5. \A i \in Jobs : job'[i] = IF i = j THEN Exports!NewJob(r) ELSE job[i]
  BY <1>1 DEF ExportInv, Exports!TypeOK
<1>6. \A l \in Keys : record'[l] = IF l = k THEN [print |-> r.print, job |-> j] ELSE record[l]
  BY <1>1
<1>7. \A d \in Clients : request'[d] = IF d = c THEN NoRequest ELSE request[d]
  BY <1>1 DEF ExportInv, Exports!TypeOK
<1>8. k # NoKey => k \in Keys /\ record[k] = NoRecord
  BY <1>1 DEF ExportInv, KeysInv, KeysHeldFree, Exports!Request
<1>9. [print |-> r.print, job |-> j] # NoRecord
  BY <1>3, ConstantsOK DEF ConstantsOK, Exports!ConstantsOK
<1>10. \A i \in Jobs : job[i] # NoJob => job[i].key \in Keys \cup {NoKey}
  BY DEF ExportInv, Exports!TypeOK, Exports!JobRow
<1>11. JobsRecorded'
  BY <1>2, <1>5, <1>6, <1>8, <1>9, <1>10 DEF ExportInv, KeysInv, JobsRecorded
<1>12. Exports!ReplaysTellTruth'
  <2> SUFFICES ASSUME NEW l \in Keys, record'[l] # NoRecord
               PROVE  /\ job'[record'[l].job] # NoJob
                      /\ job'[record'[l].job].key = l
                      /\ job'[record'[l].job].print = record'[l].print
    BY DEF Exports!ReplaysTellTruth
  <2>1. CASE l = k
    BY <2>1, <1>2, <1>5, <1>6
  <2>2. CASE l # k
    <3>1. record'[l] = record[l] /\ record[l].job \in Jobs
      BY <2>2, <1>6 DEF ExportInv, Exports!TypeOK, Exports!Record
    <3>2. job[record[l].job] # NoJob /\ job[record[l].job].key = l
          /\ job[record[l].job].print = record[l].print
      BY <3>1 DEF ExportInv, KeysInv, Exports!ReplaysTellTruth
    <3> QED
      BY <3>1, <3>2, <1>1, <1>5
  <2> QED
    BY <2>1, <2>2
<1>13. KeysHeldOnce' /\ KeysHeldFree'
  <2>1. \A d \in Clients : Holding(d)' => d # c /\ Holding(d) /\ request'[d] = request[d]
    BY <1>7 DEF Holding
  <2>2. \A d \in Clients : Holding(d)' /\ request[d].key # NoKey =>
          request[d].key # k /\ request[d].key \in Keys
    BY <2>1, <1>1 DEF ExportInv, KeysInv, KeysHeldOnce, Exports!TypeOK, Exports!Request, Holding
  <2> QED
    BY <2>1, <2>2, <1>6 DEF ExportInv, KeysInv, KeysHeldOnce, KeysHeldFree
<1>14. ClaimsInv'
  <2>1. JobsHaveAttempts'
    BY <1>2, <1>5, ConstantsOK
       DEF ExportInv, ClaimsInv, JobsHaveAttempts, ActiveRow, ConstantsOK, Exports!ConstantsOK
  <2>2. ExportsClaimed'
    <3>1. \A w \in Workers : exporting[w] # NoBatch =>
            \A i \in DOMAIN exporting[w].rows : i \in Jobs /\ i # j
      BY <1>1 DEF ExportInv, ClaimsInv, ExportsClaimed, ActiveRow, Exports!TypeOK, Exports!Batch
    <3> QED
      BY <3>1, <1>1, <1>5 DEF ExportInv, ClaimsInv, ExportsClaimed
  <2>3. ExportsApart'
    BY <1>1 DEF ExportInv, ClaimsInv, ExportsApart
  <2> QED
    BY <2>1, <2>2, <2>3 DEF ClaimsInv
<1> QED
  BY <1>4, <1>11, <1>12, <1>13, <1>14 DEF ExportInv, KeysInv

\* A worker that claims the rows nobody holds.
LEMMA ClaimKeeps ==
  ASSUME ExportInv, NEW w \in Workers, Exports!Claim(w)
  PROVE  ExportInv'
<1> DEFINE due == {j \in Jobs : Exports!Due(j)}
           new == [todo |-> due, rows |-> [j \in due |-> job[j]]]
<1>1. /\ UNCHANGED <<job, record, request>>
      /\ exporting' = [exporting EXCEPT ![w] = new]
  BY DEF Exports!Claim
<1>2. \A j \in due : job[j] \in Exports!JobRow /\ ActiveRow(job[j]) /\ job[j].due
                     /\ ~Exports!Locked(j)
  BY DEF Exports!Due, ActiveRow, ExportInv, Exports!TypeOK
<1>3. new \in Exports!Batch
  BY <1>2, ExportBatchType
<1>4. \A v \in Workers : exporting'[v] = IF v = w THEN new ELSE exporting[v]
  BY <1>1 DEF ExportInv, Exports!TypeOK
<1>5. Exports!TypeOK'
  BY <1>1, <1>3, <1>4 DEF ExportInv, Exports!TypeOK
<1>6. KeysInv'
  BY <1>1 DEF ExportInv, KeysInv, KeysHeldOnce, KeysHeldFree, JobsRecorded, Holding,
     Exports!ReplaysTellTruth
<1>7. ExportsClaimed'
  BY <1>1, <1>2, <1>4 DEF ExportInv, ClaimsInv, ExportsClaimed, ActiveRow
<1>8. ExportsApart'
  <2>1. \A v \in Workers : exporting[v] # NoBatch => DOMAIN exporting[v].rows \cap due = {}
    BY DEF Exports!Due, Exports!Locked
  <2>2. DOMAIN new.rows = due
    OBVIOUS
  <2> QED
    BY <1>4, <2>1, <2>2 DEF ExportInv, ClaimsInv, ExportsApart
<1>9. JobsHaveAttempts'
  BY <1>1 DEF ExportInv, ClaimsInv, JobsHaveAttempts, ActiveRow
<1> QED
  BY <1>5, <1>6, <1>7, <1>8, <1>9 DEF ExportInv, ClaimsInv

\* One job of a batch is attempted.
LEMMA ProcessKeeps ==
  ASSUME ExportInv, NEW w \in Workers, NEW j \in Jobs, NEW ok \in BOOLEAN, Exports!Process(w, j, ok)
  PROVE  ExportInv'
<1> DEFINE b == exporting[w]
           new == [b EXCEPT !.todo = @ \ {j}, !.rows[j] = Exports!AfterAttempt(@, ok)]
<1>1. /\ UNCHANGED <<job, record, request>>
      /\ b \in Exports!Batch /\ b # NoBatch
      /\ j \in b.todo /\ j \in DOMAIN b.rows
      /\ exporting' = [exporting EXCEPT ![w] = new]
  BY DEF Exports!Process, ExportInv, Exports!TypeOK
<1>2. /\ ActiveRow(job[j]) /\ job[j].due /\ b.rows[j] = job[j]
      /\ job[j] \in Exports!JobRow /\ job[j].attempt < MaxAttempts
  BY <1>1 DEF ExportInv, ClaimsInv, ExportsClaimed, JobsHaveAttempts, ActiveRow, Exports!TypeOK
<1>3. Exports!AfterAttempt(job[j], ok) \in Tried(job[j])
  BY DEF Tried
<1>4. Exports!AfterAttempt(job[j], ok) \in Exports!JobRow
  BY <1>2, <1>3, TriedRow DEF ActiveRow
<1>5. /\ b = [todo |-> b.todo, rows |-> b.rows] /\ DOMAIN b.rows \in SUBSET Jobs
      /\ b.todo \in SUBSET Jobs /\ b.rows \in [DOMAIN b.rows -> Exports!JobRow]
  BY <1>1, ExportBatchType
<1>6. /\ new = [todo |-> new.todo, rows |-> new.rows]
      /\ new.todo = b.todo \ {j} /\ DOMAIN new.rows = DOMAIN b.rows
      /\ new.rows = [b.rows EXCEPT ![j] = Exports!AfterAttempt(job[j], ok)]
  <2>1. b \in [todo : SUBSET Jobs, rows : UNION {[S -> Exports!JobRow] : S \in SUBSET Jobs}]
    BY <1>1 DEF Exports!Batch
  <2>2. new = [b EXCEPT !.todo = @ \ {j}, !.rows[j] = Exports!AfterAttempt(b.rows[j], ok)]
    OBVIOUS
  <2> HIDE DEF b, new
  <2>3. /\ new = [todo |-> new.todo, rows |-> new.rows]
        /\ new.todo = b.todo \ {j}
        /\ new.rows = [b.rows EXCEPT ![j] = Exports!AfterAttempt(b.rows[j], ok)]
    BY <2>1, <2>2, AttemptedBatch
  <2> QED
    BY <2>3, <1>2
<1>7. new \in Exports!Batch
  <2>1. new.rows \in [DOMAIN new.rows -> Exports!JobRow]
    BY <1>4, <1>5, <1>6
  <2> QED
    BY <2>1, <1>5, <1>6, ExportBatchType
<1>8. \A v \in Workers : exporting'[v] = IF v = w THEN new ELSE exporting[v]
  BY <1>1 DEF ExportInv, Exports!TypeOK
<1>9. Exports!TypeOK'
  BY <1>1, <1>6, <1>7, <1>8 DEF ExportInv, Exports!TypeOK
<1>10. KeysInv'
  BY <1>1 DEF ExportInv, KeysInv, KeysHeldOnce, KeysHeldFree, JobsRecorded, Holding,
     Exports!ReplaysTellTruth
<1>11. ExportsClaimed'
  <2> SUFFICES ASSUME NEW v \in Workers, exporting'[v] # NoBatch,
                      NEW i \in DOMAIN exporting'[v].rows
               PROVE  /\ ActiveRow(job'[i]) /\ job'[i].due
                      /\ i \in exporting'[v].todo => exporting'[v].rows[i] = job'[i]
                      /\ i \notin exporting'[v].todo => exporting'[v].rows[i] \in Tried(job'[i])
    BY DEF ExportsClaimed
  <2>1. CASE v # w
    BY <2>1, <1>1, <1>8 DEF ExportInv, ClaimsInv, ExportsClaimed
  <2>2. CASE v = w /\ i = j
    BY <2>2, <1>1, <1>2, <1>3, <1>5, <1>6, <1>8
  <2>3. CASE v = w /\ i # j
    BY <2>3, <1>1, <1>5, <1>6, <1>8 DEF ExportInv, ClaimsInv, ExportsClaimed
  <2> QED
    BY <2>1, <2>2, <2>3
<1>12. ExportsApart'
  BY <1>1, <1>6, <1>8 DEF ExportInv, ClaimsInv, ExportsApart
<1>13. JobsHaveAttempts'
  BY <1>1 DEF ExportInv, ClaimsInv, JobsHaveAttempts, ActiveRow
<1> QED
  BY <1>9, <1>10, <1>11, <1>12, <1>13 DEF ExportInv, ClaimsInv

\* A committed batch is made of attempts at active jobs.
LEMMA BatchTried ==
  ASSUME ExportInv, NEW w \in Workers, Exports!CommitBatch(w), NEW j \in Jobs
  PROVE  \/ job'[j] = job[j]
         \/ /\ job'[j] \in Tried(job[j]) /\ job[j] \in Exports!JobRow
            /\ job[j].status \in Exports!Active /\ job[j].attempt < MaxAttempts
BY DEF Exports!CommitBatch, ExportInv, Exports!TypeOK, ClaimsInv, ExportsClaimed,
   JobsHaveAttempts, ActiveRow

\* A batch is committed, or rolled back.
LEMMA CommitBatchKeeps ==
  ASSUME ExportInv, NEW w \in Workers, Exports!CommitBatch(w)
  PROVE  ExportInv'
<1> DEFINE b == exporting[w]
           moved == DOMAIN b.rows
<1>1. /\ UNCHANGED <<record, request>>
      /\ b \in Exports!Batch /\ b # NoBatch /\ b.todo = {}
      /\ exporting' = [exporting EXCEPT ![w] = NoBatch]
      /\ job' = [j \in Jobs |-> IF j \in moved THEN b.rows[j] ELSE job[j]]
  BY DEF Exports!CommitBatch, ExportInv, Exports!TypeOK
<1>2. \A j \in Jobs : job'[j] = IF j \in moved THEN b.rows[j] ELSE job[j]
  BY <1>1
<1>3. \A v \in Workers : exporting'[v] = IF v = w THEN NoBatch ELSE exporting[v]
  BY <1>1 DEF ExportInv, Exports!TypeOK
<1>4. \A j \in moved : /\ j \in Jobs /\ b.rows[j] \in Tried(job[j])
                       /\ job[j] \in Exports!JobRow /\ job[j].status \in Exports!Active
                       /\ job[j].attempt < MaxAttempts
  <2>1. \A j \in moved : j \in Jobs
    BY <1>1, ExportBatchType
  <2>2. \A j \in moved : b.rows[j] \in Tried(job[j]) /\ ActiveRow(job[j])
    BY <1>1 DEF ExportInv, ClaimsInv, ExportsClaimed
  <2> QED
    BY <2>1, <2>2 DEF ExportInv, ClaimsInv, JobsHaveAttempts, ActiveRow, Exports!TypeOK
<1>5. \A j \in moved : /\ job'[j] \in Exports!JobRow
                       /\ job'[j].key = job[j].key /\ job'[j].print = job[j].print
                       /\ ActiveRow(job'[j]) => job'[j].attempt < MaxAttempts
                       /\ job[j] # NoJob /\ job'[j] # NoJob
  <2> SUFFICES ASSUME NEW j \in moved
               PROVE  /\ job'[j] \in Exports!JobRow
                      /\ job'[j].key = job[j].key /\ job'[j].print = job[j].print
                      /\ ActiveRow(job'[j]) => job'[j].attempt < MaxAttempts
                      /\ job[j] # NoJob /\ job'[j] # NoJob
    OBVIOUS
  <2>1. job'[j] = b.rows[j]
    BY <1>2, <1>4
  <2>2. NoJob \notin Exports!JobRow
    BY ConstantsOK DEF ConstantsOK, Exports!ConstantsOK
  <2>3. /\ b.rows[j] \in Exports!JobRow
        /\ b.rows[j].key = job[j].key /\ b.rows[j].print = job[j].print
        /\ ActiveRow(b.rows[j]) => b.rows[j].attempt < MaxAttempts
    BY <1>4, TriedRow
  <2> QED
    BY <2>1, <2>2, <2>3, <1>4
<1>6. \A j \in Jobs \ moved : job'[j] = job[j]
  BY <1>2
<1>7. Exports!TypeOK'
  <2>1. job' = [j \in Jobs |-> job'[j]]
    BY <1>1
  <2>2. \A j \in Jobs : job'[j] \in Exports!JobRow \cup {NoJob}
    BY <1>5, <1>6 DEF ExportInv, Exports!TypeOK
  <2>3. job' \in [Jobs -> Exports!JobRow \cup {NoJob}]
    BY <2>1, <2>2
  <2> QED
    BY <2>3, <1>1, <1>3 DEF ExportInv, Exports!TypeOK
<1> HIDE DEF b, moved
<1>8. \A j \in Jobs : /\ job'[j] # NoJob <=> job[j] # NoJob
                      /\ job'[j].key = job[j].key /\ job'[j].print = job[j].print
  BY <1>5, <1>6
<1>9. JobsRecorded'
  BY <1>1, <1>8 DEF ExportInv, KeysInv, JobsRecorded
<1>10. Exports!ReplaysTellTruth'
  <2>1. \A k \in Keys : record[k] # NoRecord => record[k].job \in Jobs
    BY DEF ExportInv, Exports!TypeOK, Exports!Record
  <2> QED
    BY <2>1, <1>1, <1>8 DEF ExportInv, KeysInv, Exports!ReplaysTellTruth
<1>11. KeysHeldOnce' /\ KeysHeldFree'
  BY <1>1 DEF ExportInv, KeysInv, KeysHeldOnce, KeysHeldFree, Holding
<1>12. JobsHaveAttempts'
  BY <1>5, <1>6 DEF ExportInv, ClaimsInv, JobsHaveAttempts
<1>13. ExportsApart'
  BY <1>3 DEF ExportInv, ClaimsInv, ExportsApart
<1>14. ExportsClaimed'
  <2> SUFFICES ASSUME NEW v \in Workers, exporting'[v] # NoBatch,
                      NEW i \in DOMAIN exporting'[v].rows
               PROVE  /\ ActiveRow(job'[i]) /\ job'[i].due
                      /\ i \in exporting'[v].todo => exporting'[v].rows[i] = job'[i]
                      /\ i \notin exporting'[v].todo => exporting'[v].rows[i] \in Tried(job'[i])
    BY DEF ExportsClaimed
  <2>1. v # w /\ exporting'[v] = exporting[v] /\ exporting[v] \in Exports!Batch
    BY <1>3 DEF ExportInv, Exports!TypeOK
  <2>2. i \in Jobs \ moved
    BY <2>1, <1>1, ExportBatchType DEF ExportInv, ClaimsInv, ExportsApart, b, moved
  <2> QED
    BY <2>1, <2>2, <1>6 DEF ExportInv, ClaimsInv, ExportsClaimed
<1> QED
  BY <1>7, <1>9, <1>10, <1>11, <1>12, <1>13, <1>14 DEF ExportInv, KeysInv, ClaimsInv

LEMMA AbortBatchKeeps ==
  ASSUME ExportInv, NEW w \in Workers, UNCHANGED <<job, record, request>>,
         exporting' = [exporting EXCEPT ![w] = NoBatch]
  PROVE  ExportInv'
<1>1. \A v \in Workers : exporting'[v] = IF v = w THEN NoBatch ELSE exporting[v]
  BY DEF ExportInv, Exports!TypeOK
<1>2. Exports!TypeOK'
  BY <1>1 DEF ExportInv, Exports!TypeOK
<1>3. KeysInv'
  BY DEF ExportInv, KeysInv, KeysHeldOnce, KeysHeldFree, JobsRecorded, Holding,
     Exports!ReplaysTellTruth
<1>4. JobsHaveAttempts'
  BY DEF ExportInv, ClaimsInv, JobsHaveAttempts, ActiveRow
<1>5. ExportsClaimed'
  BY <1>1 DEF ExportInv, ClaimsInv, ExportsClaimed, ActiveRow
<1>6. ExportsApart'
  BY <1>1 DEF ExportInv, ClaimsInv, ExportsApart
<1> QED
  BY <1>2, <1>3, <1>4, <1>5, <1>6 DEF ExportInv, ClaimsInv

\* A retry becomes due: nobody has claimed it, as a claimed row is due.
LEMMA ExportRetryDueKeeps ==
  ASSUME ExportInv, NEW j \in Jobs, Exports!RetryDue(j)
  PROVE  ExportInv'
<1> DEFINE new == [job[j] EXCEPT !.due = TRUE]
<1>1. /\ UNCHANGED <<record, request, exporting>>
      /\ job[j] \in Exports!JobRow /\ job[j] # NoJob /\ ~job[j].due
      /\ job[j].status = "retry_scheduled"
      /\ job' = [job EXCEPT ![j] = new]
  BY DEF Exports!RetryDue, ExportInv, Exports!TypeOK
<1>2. /\ new \in Exports!JobRow /\ new.key = job[j].key /\ new.print = job[j].print
      /\ new.attempt = job[j].attempt /\ new.status = job[j].status
  BY <1>1 DEF Exports!JobRow
<1>3. \A i \in Jobs : job'[i] = IF i = j THEN new ELSE job[i]
  BY <1>1 DEF ExportInv, Exports!TypeOK
<1>4. \A i \in Jobs : /\ job'[i] # NoJob <=> job[i] # NoJob
                      /\ job'[i].key = job[i].key /\ job'[i].print = job[i].print
  BY <1>1, <1>2, <1>3, ConstantsOK DEF ConstantsOK, Exports!ConstantsOK
<1>5. Exports!TypeOK'
  BY <1>1, <1>2 DEF ExportInv, Exports!TypeOK
<1>6. JobsRecorded'
  BY <1>1, <1>4 DEF ExportInv, KeysInv, JobsRecorded
<1>7. Exports!ReplaysTellTruth'
  <2>1. \A k \in Keys : record[k] # NoRecord => record[k].job \in Jobs
    BY DEF ExportInv, Exports!TypeOK, Exports!Record
  <2> QED
    BY <2>1, <1>1, <1>4 DEF ExportInv, KeysInv, Exports!ReplaysTellTruth
<1>8. KeysHeldOnce' /\ KeysHeldFree'
  BY <1>1 DEF ExportInv, KeysInv, KeysHeldOnce, KeysHeldFree, Holding
<1>9. JobsHaveAttempts'
  BY <1>1, <1>2, <1>3 DEF ExportInv, ClaimsInv, JobsHaveAttempts, ActiveRow, Exports!Active
<1>10. ExportsApart'
  BY <1>1 DEF ExportInv, ClaimsInv, ExportsApart
<1>11. ExportsClaimed'
  <2>1. \A w \in Workers : exporting[w] # NoBatch =>
          \A i \in DOMAIN exporting[w].rows : i \in Jobs /\ i # j
    BY <1>1, ExportBatchType DEF ExportInv, Exports!TypeOK, ClaimsInv, ExportsClaimed
  <2> QED
    BY <2>1, <1>1, <1>3 DEF ExportInv, ClaimsInv, ExportsClaimed
<1> QED
  BY <1>5, <1>6, <1>7, <1>8, <1>9, <1>10, <1>11 DEF ExportInv, KeysInv, ClaimsInv

LEMMA ExportStutterKeeps ==
  ASSUME ExportInv, UNCHANGED exportVars
  PROVE  ExportInv'
BY DEF ExportInv, Exports!TypeOK, KeysInv, ClaimsInv, KeysHeldOnce, KeysHeldFree, JobsRecorded,
   Exports!ReplaysTellTruth, JobsHaveAttempts, ExportsClaimed, ExportsApart, exportVars, Holding,
   ActiveRow

\* A job that was queued under a key is the one its record names, so there is one.
LEMMA RecordedOnce == ASSUME ExportInv PROVE RepeatsMakeOneJob
<1>1. Exports!OneJobPerKey
  BY DEF ExportInv, KeysInv, JobsRecorded, Exports!OneJobPerKey
<1> QED
  BY <1>1 DEF ExportInv, KeysInv, RepeatsMakeOneJob

-----------------------------------------------------------------------------
(* The export jobs implement JobQueue.                                     *)

TaskOf(row) == Exports!TaskOf(row)
tasks == [j \in Jobs |-> TaskOf(job[j])]

\* A row that is not finished is a task that waits.
LEMMA RowIsTask ==
  ASSUME NEW row \in Exports!JobRow
  PROVE  /\ TaskOf(row) \in Exports!Queue!Task
         /\ TaskOf(row).attempts = row.attempt
         /\ TaskOf(row).status = "waiting" <=> row.status \in Exports!Active
         /\ TaskOf(row).status = "done" <=> row.status = "completed"
         /\ TaskOf(row).status = "dead" <=> row.status = "dead_letter"
<1>1. row # NoJob /\ row.attempt \in 0..MaxAttempts
  BY ConstantsOK DEF ConstantsOK, Exports!ConstantsOK, Exports!JobRow
<1>2. row.status \in {"queued", "retry_scheduled", "completed", "dead_letter"}
  BY DEF Exports!JobRow
<1> QED
  BY <1>1, <1>2 DEF TaskOf, Exports!TaskOf, Exports!Queue!Task, Exports!Active

LEMMA NoRowIsAbsent ==
  TaskOf(NoJob) = Exports!Queue!Absent /\ Exports!Queue!Absent \in Exports!Queue!Task
<1>1. 0 \in 0..MaxAttempts
  BY ConstantsOK DEF ConstantsOK, Exports!ConstantsOK
<1> QED
  BY <1>1 DEF TaskOf, Exports!TaskOf, Exports!Queue!Absent, Exports!Queue!Task

\* An attempt moves the task of a row as JobQueue has it.
LEMMA TriedMoves ==
  ASSUME NEW row \in Exports!JobRow, row.status \in Exports!Active,
         row.attempt < MaxAttempts, NEW new \in Tried(row)
  PROVE  Exports!Queue!Moved(TaskOf(row), TaskOf(new))
<1>1. /\ new \in Exports!JobRow /\ new.attempt = row.attempt + 1
      /\ new.status = "completed"
         \/ (new.status = "retry_scheduled" /\ row.attempt + 1 < MaxAttempts)
         \/ (new.status = "dead_letter" /\ row.attempt + 1 = MaxAttempts)
  BY TriedRow
<1>2. TaskOf(row).status = "waiting" /\ TaskOf(row).attempts = row.attempt
  BY RowIsTask
<1>3. /\ TaskOf(new) \in Exports!Queue!Task /\ TaskOf(new).attempts = row.attempt + 1
      /\ \/ TaskOf(new).status = "done"
         \/ TaskOf(new).status = "waiting" /\ row.attempt + 1 < MaxAttempts
         \/ TaskOf(new).status = "dead" /\ row.attempt + 1 = MaxAttempts
  BY <1>1, RowIsTask DEF Exports!Active
<1>4. TaskOf(new) = [status |-> TaskOf(new).status, attempts |-> TaskOf(new).attempts]
  BY <1>3 DEF Exports!Queue!Task
<1>5. MaxAttempts \in Nat /\ row.attempt \in Nat
  BY ConstantsOK DEF ConstantsOK, Exports!ConstantsOK, Exports!JobRow
<1>6. TaskOf(new) \in Exports!Queue!Attempted(row.attempt)
  BY <1>3, <1>4, <1>5 DEF Exports!Queue!Attempted, Exports!Queue!Waiting
<1> QED
  BY <1>2, <1>6 DEF Exports!Queue!Moved

\* A step under which every job stays or moves as a task is one of JobQueue.
LEMMA JobsMove ==
  ASSUME ExportInv, ExportInv',
         \A j \in Jobs : TaskOf(job'[j]) = TaskOf(job[j])
                         \/ Exports!Queue!Moved(TaskOf(job[j]), TaskOf(job'[j]))
  PROVE  [Exports!Queue!Next]_tasks
<1>1. tasks' \in [Jobs -> Exports!Queue!Task]
  <2>1. \A j \in Jobs : TaskOf(job'[j]) \in Exports!Queue!Task
    BY RowIsTask, NoRowIsAbsent DEF ExportInv, Exports!TypeOK
  <2> QED
    BY <2>1 DEF tasks, TaskOf
<1>2. \A j \in Jobs : tasks[j] = TaskOf(job[j]) /\ tasks'[j] = TaskOf(job'[j])
  BY DEF tasks
<1> QED
  BY <1>1, <1>2 DEF Exports!Queue!Next, tasks, TaskOf
\* Every step of the export jobs is one of the queue, or leaves it alone.
LEMMA ExportStep ==
  ASSUME ExportInv,
         \/ Exports!Next
         \/ \E w \in Workers : /\ exporting' = [exporting EXCEPT ![w] = NoBatch]
                               /\ UNCHANGED <<job, record, request>>
         \/ UNCHANGED exportVars
  PROVE  ExportInv' /\ [Exports!Queue!Next]_tasks
<1> DEFINE moves(j) == \/ TaskOf(job'[j]) = TaskOf(job[j])
                       \/ Exports!Queue!Moved(TaskOf(job[j]), TaskOf(job'[j]))
<1>1. ASSUME NEW c \in Clients,
             \/ \E k \in Keys \cup {NoKey}, p \in Prints : Exports!Send(c, k, p)
             \/ Exports!Reserve(c) \/ Exports!Replay(c) \/ Exports!PassGates(c) \/ Exports!Refuse(c)
      PROVE  ExportInv' /\ \A j \in Jobs : moves(j)
  <2>1. ExportInv'
    BY <1>1, RequestKeeps
  <2>2. job' = job
    BY <1>1 DEF Exports!Send, Exports!Reserve, Exports!Replay, Exports!PassGates, Exports!Refuse
  <2> QED
    BY <2>1, <2>2
<1>2. ASSUME NEW c \in Clients, NEW j \in Jobs, Exports!CommitJob(c, j)
      PROVE  ExportInv' /\ \A i \in Jobs : moves(i)
  <2>1. ExportInv'
    BY <1>2, CommitJobKeeps
  <2>2. /\ job[j] = NoJob /\ job'[j] = Exports!NewJob(request[c])
        /\ \A i \in Jobs \ {j} : job'[i] = job[i]
    BY <1>2 DEF Exports!CommitJob, ExportInv, Exports!TypeOK
  <2>3. job'[j] # NoJob
    BY <1>2, CommittedJob
  <2>4. TaskOf(job'[j]) = Exports!Queue!Waiting(0)
    BY <2>2, <2>3 DEF TaskOf, Exports!TaskOf, Exports!NewJob, Exports!Queue!Waiting
  <2> QED
    BY <2>1, <2>2, <2>4, NoRowIsAbsent DEF Exports!Queue!Moved
<1>3. ASSUME NEW w \in Workers, Exports!WorkerNext(w)
      PROVE  ExportInv' /\ \A j \in Jobs : moves(j)
  <2>1. CASE Exports!Claim(w)
    BY <2>1, ClaimKeeps DEF Exports!Claim
  <2>2. CASE \E j \in Jobs, ok \in BOOLEAN : Exports!Process(w, j, ok)
    BY <2>2, ProcessKeeps DEF Exports!Process
  <2>3. CASE Exports!AbortBatch(w)
    BY <2>3, AbortBatchKeeps DEF Exports!AbortBatch
  <2>4. CASE Exports!CommitBatch(w)
    BY <2>4, CommitBatchKeeps, BatchTried, TriedMoves
  <2> QED
    BY <1>3, <2>1, <2>2, <2>3, <2>4 DEF Exports!WorkerNext
<1>4. ASSUME NEW j \in Jobs, Exports!RetryDue(j)
      PROVE  ExportInv' /\ \A i \in Jobs : moves(i)
  <2>1. ExportInv'
    BY <1>4, ExportRetryDueKeeps
  <2>2. /\ job[j] \in Exports!JobRow /\ job'[j] = [job[j] EXCEPT !.due = TRUE]
        /\ \A i \in Jobs \ {j} : job'[i] = job[i]
    BY <1>4 DEF Exports!RetryDue, ExportInv, Exports!TypeOK
  <2>3. job'[j] \in Exports!JobRow
    BY <2>2 DEF Exports!JobRow
  <2>4. job[j] # NoJob /\ job'[j] # NoJob
    BY <2>2, <2>3, ConstantsOK DEF ConstantsOK, Exports!ConstantsOK
  <2>5. job'[j].status = job[j].status /\ job'[j].attempt = job[j].attempt
    BY <2>2 DEF Exports!JobRow
  <2>6. TaskOf(job'[j]) = TaskOf(job[j])
    BY <2>4, <2>5 DEF TaskOf, Exports!TaskOf
  <2> QED
    BY <2>1, <2>2, <2>6
<1>5. CASE \E w \in Workers : /\ exporting' = [exporting EXCEPT ![w] = NoBatch]
                              /\ UNCHANGED <<job, record, request>>
  <2>1. ExportInv' /\ job' = job
    BY <1>5, AbortBatchKeeps
  <2> QED
    BY <2>1, JobsMove
<1>6. CASE UNCHANGED exportVars
  <2>1. ExportInv' /\ job' = job
    BY <1>6, ExportStutterKeeps DEF exportVars
  <2> QED
    BY <2>1, JobsMove
<1>7. CASE Exports!Next
  <2>1. ExportInv' /\ \A j \in Jobs : moves(j)
    BY <1>7, <1>1, <1>2, <1>3, <1>4 DEF Exports!Next, Exports!ClientNext
  <2> QED
    BY <2>1, JobsMove
<1> QED
  BY <1>5, <1>6, <1>7
-----------------------------------------------------------------------------
(* Webhook deliveries.                                                     *)

\* A delivery that has failed and is not given up has an attempt left.
Failed(row) == row # NoDelivery /\ row.status = "failed"
HasAttempts(row) == row.status = "failed" => row.attempt < MaxAttempts
RowFits(row) == HasAttempts(row) /\ endpoint[row.endpoint] # "none"

TableRows == \A d \in Deliveries : delivery[d] # NoDelivery => RowFits(delivery[d])

\* What a handler has inserted is in no table yet and in no other handler's hands.
InsertedRows ==
  \A h \in Handlers : \A d \in DOMAIN Webhooks!Inserted(h) :
    delivery[d] = NoDelivery /\ RowFits(Webhooks!Inserted(h)[d])
InsertedApart ==
  \A g, h \in Handlers :
    g # h => DOMAIN Webhooks!Inserted(g) \cap DOMAIN Webhooks!Inserted(h) = {}

\* A test delivers to one endpoint, so what it retries is its only row.
OneOf(todo, rows) ==
  /\ \A e, f \in todo : e = f
  /\ \A c, d \in DOMAIN rows : c = d
  /\ todo = {} \/ DOMAIN rows = {}
TestsAlone ==
  \A h \in Handlers :
    event[h] # NoEvent /\ event[h].inline => OneOf(event[h].todo, event[h].rows)

Retried(row) == {Webhooks!AfterAttempt(row, TRUE), Webhooks!AfterAttempt(row, FALSE)}
RetriesClaimed ==
  \A w \in Workers : retrying[w] # NoBatch =>
    \A d \in DOMAIN retrying[w].rows :
      /\ Failed(delivery[d]) /\ delivery[d].due
      /\ d \in retrying[w].todo => retrying[w].rows[d] = delivery[d]
      /\ d \notin retrying[w].todo => retrying[w].rows[d] \in Retried(delivery[d])
RetriesApart ==
  \A v, w \in Workers : v # w /\ retrying[v] # NoBatch /\ retrying[w] # NoBatch =>
    DOMAIN retrying[v].rows \cap DOMAIN retrying[w].rows = {}

HandlersInv == InsertedRows /\ InsertedApart /\ TestsAlone
RetriesInv == RetriesClaimed /\ RetriesApart
WebhookInv == Webhooks!TypeOK /\ TableRows /\ HandlersInv /\ RetriesInv

LEMMA WebhookInit == ASSUME Webhooks!Init PROVE WebhookInv
BY DEF Webhooks!Init, WebhookInv, Webhooks!TypeOK, HandlersInv, RetriesInv, TableRows,
   InsertedRows, InsertedApart, TestsAlone, RetriesClaimed, RetriesApart, Webhooks!Inserted,
   Webhooks!Empty

LEMMA RowsType ==
  ASSUME NEW R
  PROVE  R \in Webhooks!Rows <=> DOMAIN R \in SUBSET Deliveries /\ R \in [DOMAIN R -> Webhooks!Row]
BY DEF Webhooks!Rows

\* What a call leaves of a row that had an attempt left.
LEMMA RetriedRow ==
  ASSUME NEW row \in Webhooks!Row, row.status = "failed", row.attempt < MaxAttempts,
         NEW new \in Retried(row)
  PROVE  /\ new \in Webhooks!Row /\ new.endpoint = row.endpoint
         /\ new.attempt = row.attempt + 1 /\ HasAttempts(new)
         /\ new.status = "dead_letter" <=> (new.attempt = MaxAttempts /\ new.status # "success")
<1> DEFINE tried == [row EXCEPT !.attempt = @ + 1]
<1>1. MaxAttempts \in Nat /\ row.attempt \in 0..MaxAttempts
  BY ConstantsOK DEF Webhooks!Row, ConstantsOK, Webhooks!ConstantsOK
<1>2. /\ tried \in Webhooks!Row
      /\ tried.attempt = row.attempt + 1 /\ tried.endpoint = row.endpoint
  BY <1>1 DEF Webhooks!Row
<1>3. new \in {[tried EXCEPT !.status = "success"], [tried EXCEPT !.status = "dead_letter"],
               [tried EXCEPT !.status = "failed", !.due = FALSE]}
  BY DEF Retried, Webhooks!AfterAttempt
<1>4. \/ new.status = "success"
      \/ new.status = "failed" /\ ~(row.attempt + 1 >= MaxAttempts)
      \/ new.status = "dead_letter" /\ row.attempt + 1 >= MaxAttempts
  BY <1>2 DEF Retried, Webhooks!AfterAttempt, Webhooks!Row
<1>5. /\ new \in Webhooks!Row
      /\ new.attempt = row.attempt + 1 /\ new.endpoint = row.endpoint
  BY <1>2, <1>3 DEF Webhooks!Row
<1> QED
  BY <1>1, <1>4, <1>5 DEF HasAttempts

\* The transaction of a handler, row by row.
LEMMA InsertedRow ==
  ASSUME WebhookInv, NEW h \in Handlers, NEW d \in DOMAIN Webhooks!Inserted(h)
  PROVE  /\ event[h] # NoEvent /\ d \in Deliveries
         /\ Webhooks!Inserted(h) = event[h].rows
         /\ Webhooks!Inserted(h)[d] \in Webhooks!Row
         /\ Webhooks!Inserted(h)[d].endpoint \in Endpoints
<1>1. /\ event[h] # NoEvent /\ Webhooks!Inserted(h) = event[h].rows
      /\ d \in DOMAIN event[h].rows
  BY DEF Webhooks!Inserted, Webhooks!Empty
<1>2. event[h].rows \in Webhooks!Rows
  BY <1>1 DEF WebhookInv, Webhooks!TypeOK, Webhooks!Event
<1>3. d \in Deliveries /\ event[h].rows[d] \in Webhooks!Row
  BY <1>1, <1>2, RowsType
<1> QED
  BY <1>1, <1>3 DEF Webhooks!Row

\* The batch of a worker, row by row.
LEMMA ClaimedRow ==
  ASSUME WebhookInv, NEW w \in Workers, NEW d \in DOMAIN Webhooks!Claimed(w)
  PROVE  /\ retrying[w] # NoBatch /\ d \in Deliveries
         /\ delivery[d] \in Webhooks!Row /\ delivery[d].status = "failed"
         /\ delivery[d].due /\ delivery[d].attempt < MaxAttempts
         /\ Webhooks!Claimed(w)[d].endpoint = delivery[d].endpoint
<1>1. /\ retrying[w] # NoBatch /\ Webhooks!Claimed(w) = retrying[w].rows
      /\ d \in DOMAIN retrying[w].rows
  BY DEF Webhooks!Claimed, Webhooks!Empty
<1>2. retrying[w].rows \in Webhooks!Rows
  BY <1>1 DEF WebhookInv, Webhooks!TypeOK, Webhooks!Batch
<1>3. d \in Deliveries
  BY <1>1, <1>2, RowsType
<1>4. /\ delivery[d] # NoDelivery /\ delivery[d].status = "failed" /\ delivery[d].due
      /\ Webhooks!Claimed(w)[d] = delivery[d] \/ Webhooks!Claimed(w)[d] \in Retried(delivery[d])
  BY <1>1 DEF WebhookInv, RetriesInv, RetriesClaimed, Failed
<1>5. delivery[d] \in Webhooks!Row
  BY <1>3, <1>4 DEF WebhookInv, Webhooks!TypeOK
<1>6. delivery[d].attempt < MaxAttempts
  BY <1>3, <1>4 DEF WebhookInv, TableRows, RowFits, HasAttempts
<1> QED
  BY <1>1, <1>3, <1>4, <1>5, <1>6, RetriedRow

\* Steps that leave the deliveries and the transactions alone.
LEMMA EndpointKeeps ==
  ASSUME WebhookInv, NEW e \in Endpoints, NEW s \in {"active", "inactive"},
         Webhooks!CreateEndpoint(e, s) \/ Webhooks!UpdateEndpoint(e, s)
  PROVE  WebhookInv'
<1>1. /\ UNCHANGED <<delivery, event, retrying>>
      /\ endpoint' = [endpoint EXCEPT ![e] = s]
  BY DEF Webhooks!CreateEndpoint, Webhooks!UpdateEndpoint
<1>2. Webhooks!TypeOK'
  BY <1>1 DEF WebhookInv, Webhooks!TypeOK
<1>3. \A f \in Endpoints : endpoint[f] # "none" => endpoint'[f] # "none"
  BY <1>1 DEF WebhookInv, Webhooks!TypeOK
<1>4. TableRows'
  <2>1. \A d \in Deliveries : delivery[d] # NoDelivery => delivery[d].endpoint \in Endpoints
    BY DEF WebhookInv, Webhooks!TypeOK, Webhooks!Row
  <2> QED
    BY <2>1, <1>1, <1>3 DEF WebhookInv, TableRows, RowFits
<1>5. InsertedRows'
  <2>1. \A h \in Handlers : \A d \in DOMAIN Webhooks!Inserted(h) :
          Webhooks!Inserted(h)[d].endpoint \in Endpoints
    BY InsertedRow
  <2>2. \A h \in Handlers : Webhooks!Inserted(h)' = Webhooks!Inserted(h)
    BY <1>1 DEF Webhooks!Inserted
  <2> QED
    BY <2>1, <2>2, <1>1, <1>3 DEF WebhookInv, HandlersInv, InsertedRows, RowFits
<1>6. InsertedApart' /\ TestsAlone'
  BY <1>1 DEF WebhookInv, HandlersInv, InsertedApart, TestsAlone, Webhooks!Inserted
<1>7. RetriesInv'
  BY <1>1 DEF WebhookInv, RetriesInv, RetriesClaimed, RetriesApart
<1> QED
  BY <1>2, <1>4, <1>5, <1>6, <1>7 DEF WebhookInv, HandlersInv

\* An endpoint goes with its committed deliveries; nobody holds one of them.
LEMMA DeleteKeeps ==
  ASSUME WebhookInv, NEW e \in Endpoints, Webhooks!DeleteEndpoint(e)
  PROVE  WebhookInv' /\ Webhooks!QueueStep
<1> DEFINE gone(d) == delivery[d] # NoDelivery /\ delivery[d].endpoint = e
<1>1. /\ UNCHANGED <<event, retrying>> /\ ~Webhooks!InUse(e)
      /\ endpoint' = [endpoint EXCEPT ![e] = "none"]
      /\ delivery' = [d \in Deliveries |-> IF gone(d) THEN NoDelivery ELSE delivery[d]]
  BY DEF Webhooks!DeleteEndpoint, Webhooks!Cascade
<1>2. \A d \in Deliveries : delivery'[d] = IF gone(d) THEN NoDelivery ELSE delivery[d]
  BY <1>1
<1>3. \A f \in Endpoints : endpoint'[f] = IF f = e THEN "none" ELSE endpoint[f]
  BY <1>1 DEF WebhookInv, Webhooks!TypeOK
<1>4. Webhooks!TypeOK'
  BY <1>1 DEF WebhookInv, Webhooks!TypeOK
<1>5. \A d \in Deliveries : delivery[d] # NoDelivery => delivery[d].endpoint \in Endpoints
  BY DEF WebhookInv, Webhooks!TypeOK, Webhooks!Row
<1>6. TableRows'
  BY <1>2, <1>3, <1>5 DEF WebhookInv, TableRows, RowFits
<1>7. \A h \in Handlers : Webhooks!Inserted(h)' = Webhooks!Inserted(h)
  BY <1>1 DEF Webhooks!Inserted
<1>8. InsertedRows'
  <2> SUFFICES ASSUME NEW h \in Handlers, NEW d \in DOMAIN Webhooks!Inserted(h)
               PROVE  /\ delivery'[d] = NoDelivery
                      /\ HasAttempts(Webhooks!Inserted(h)[d])
                      /\ endpoint'[Webhooks!Inserted(h)[d].endpoint] # "none"
    BY <1>7 DEF InsertedRows, RowFits
  <2>1. d \in Deliveries /\ Webhooks!Inserted(h)[d].endpoint \in Endpoints
    BY InsertedRow
  <2>2. Webhooks!Inserted(h)[d].endpoint # e
    BY <1>1 DEF Webhooks!InUse
  <2> QED
    BY <2>1, <2>2, <1>2, <1>3 DEF WebhookInv, HandlersInv, InsertedRows, RowFits
<1>9. InsertedApart' /\ TestsAlone'
  BY <1>1, <1>7 DEF WebhookInv, HandlersInv, InsertedApart, TestsAlone
<1>10. \A w \in Workers : \A d \in DOMAIN Webhooks!Claimed(w) : delivery'[d] = delivery[d]
  <2> SUFFICES ASSUME NEW w \in Workers, NEW d \in DOMAIN Webhooks!Claimed(w)
               PROVE  delivery'[d] = delivery[d]
    OBVIOUS
  <2>1. d \in Deliveries /\ Webhooks!Claimed(w)[d].endpoint = delivery[d].endpoint
    BY ClaimedRow
  <2>2. Webhooks!Claimed(w)[d].endpoint # e
    BY <1>1 DEF Webhooks!InUse
  <2> QED
    BY <2>1, <2>2, <1>2
<1>11. RetriesClaimed'
  BY <1>1, <1>10 DEF WebhookInv, RetriesInv, RetriesClaimed, Webhooks!Claimed
<1>12. RetriesApart'
  BY <1>1 DEF WebhookInv, RetriesInv, RetriesApart
<1>13. Webhooks!QueueStep
  BY <1>2 DEF Webhooks!QueueStep
<1> QED
  BY <1>4, <1>6, <1>8, <1>9, <1>11, <1>12, <1>13 DEF WebhookInv, HandlersInv, RetriesInv

\* A handler goes on with its transaction: it may hold new rows, of deliveries
\* that nobody has, at endpoints that exist.
LEMMA HandlerKeeps ==
  ASSUME WebhookInv, NEW h \in Handlers, NEW new \in Webhooks!Event \cup {NoEvent},
         UNCHANGED <<endpoint, delivery, retrying>>, event' = [event EXCEPT ![h] = new],
         new # NoEvent =>
           /\ \A d \in DOMAIN new.rows :
                /\ delivery[d] = NoDelivery /\ RowFits(new.rows[d])
                /\ \A g \in Handlers \ {h} : d \notin DOMAIN Webhooks!Inserted(g)
           /\ new.inline => OneOf(new.todo, new.rows)
  PROVE  WebhookInv'
<1>1. \A g \in Handlers : event'[g] = IF g = h THEN new ELSE event[g]
  BY DEF WebhookInv, Webhooks!TypeOK
<1>2. Webhooks!TypeOK'
  BY DEF WebhookInv, Webhooks!TypeOK
<1>3. \A g \in Handlers \ {h} : Webhooks!Inserted(g)' = Webhooks!Inserted(g)
  BY <1>1 DEF Webhooks!Inserted
<1>4. \A d \in DOMAIN Webhooks!Inserted(h)' :
        new # NoEvent /\ d \in DOMAIN new.rows /\ Webhooks!Inserted(h)' = new.rows
  BY <1>1 DEF Webhooks!Inserted, Webhooks!Empty
<1>5. InsertedRows'
  <2> SUFFICES ASSUME NEW g \in Handlers, NEW d \in DOMAIN Webhooks!Inserted(g)'
               PROVE  delivery'[d] = NoDelivery /\ RowFits(Webhooks!Inserted(g)[d])'
    BY DEF InsertedRows
  <2>1. CASE g = h
    BY <2>1, <1>4 DEF RowFits
  <2>2. CASE g # h
    BY <2>2, <1>3 DEF WebhookInv, HandlersInv, InsertedRows, RowFits
  <2> QED
    BY <2>1, <2>2
<1>6. InsertedApart'
  BY <1>3, <1>4 DEF WebhookInv, HandlersInv, InsertedApart
<1>7. TestsAlone'
  BY <1>1 DEF WebhookInv, HandlersInv, TestsAlone
<1>8. TableRows' /\ RetriesInv'
  BY DEF WebhookInv, TableRows, RowFits, RetriesInv, RetriesClaimed, RetriesApart
<1> QED
  BY <1>2, <1>5, <1>6, <1>7, <1>8 DEF WebhookInv, HandlersInv

LEMMA BeginKeeps ==
  ASSUME WebhookInv, NEW h \in Handlers,
         Webhooks!BeginEvent(h) \/ (\E e \in Endpoints : Webhooks!BeginTest(h, e))
         \/ Webhooks!LoseEvent(h)
  PROVE  WebhookInv'
<1>1. Webhooks!Empty \in Webhooks!Rows /\ DOMAIN Webhooks!Empty = {}
  <2>1. DOMAIN Webhooks!Empty = {}
    BY DEF Webhooks!Empty
  <2>2. Webhooks!Empty \in [{} -> Webhooks!Row]
    BY DEF Webhooks!Empty
  <2> QED
    BY <2>1, <2>2, RowsType
<1> DEFINE all == [todo |-> {e \in Endpoints : endpoint[e] = "active"},
                   rows |-> Webhooks!Empty, inline |-> FALSE]
           one(e) == [todo |-> {e}, rows |-> Webhooks!Empty, inline |-> TRUE]
<1>2. all \in Webhooks!Event /\ \A e \in Endpoints : one(e) \in Webhooks!Event
  BY <1>1 DEF Webhooks!Event
<1>3. CASE Webhooks!BeginEvent(h)
  <2>1. UNCHANGED <<endpoint, delivery, retrying>> /\ event' = [event EXCEPT ![h] = all]
    BY <1>3 DEF Webhooks!BeginEvent
  <2>2. DOMAIN all.rows = {} /\ ~all.inline
    BY <1>1
  <2> HIDE DEF all
  <2> QED
    BY <2>1, <2>2, <1>2, HandlerKeeps
<1>4. ASSUME NEW e \in Endpoints, Webhooks!BeginTest(h, e) PROVE WebhookInv'
  <2>1. UNCHANGED <<endpoint, delivery, retrying>> /\ event' = [event EXCEPT ![h] = one(e)]
    BY <1>4 DEF Webhooks!BeginTest
  <2>2. DOMAIN one(e).rows = {} /\ one(e).todo = {e}
    BY <1>1
  <2>3. OneOf(one(e).todo, one(e).rows)
    BY <2>2 DEF OneOf
  <2> HIDE DEF one
  <2> QED
    BY <2>1, <2>2, <2>3, <1>2, HandlerKeeps
<1>5. CASE Webhooks!LoseEvent(h)
  BY <1>5, HandlerKeeps DEF Webhooks!LoseEvent
<1> QED
  BY <1>3, <1>4, <1>5

\* The row that a first call leaves.
LEMMA FirstRow ==
  ASSUME NEW e \in Endpoints, NEW ok \in BOOLEAN
  PROVE  LET new == [endpoint |-> e, status |-> "failed", attempt |-> 0, due |-> FALSE]
             row == Webhooks!AfterAttempt(new, ok)
         IN  row \in Webhooks!Row /\ row.endpoint = e /\ HasAttempts(row)
<1> DEFINE new == [endpoint |-> e, status |-> "failed", attempt |-> 0, due |-> FALSE]
<1>1. 0 \in 0..MaxAttempts /\ 0 < MaxAttempts
  BY ConstantsOK DEF ConstantsOK, Webhooks!ConstantsOK
<1>2. new \in Webhooks!Row /\ new.status = "failed" /\ new.attempt < MaxAttempts /\ new.endpoint = e
  BY <1>1 DEF Webhooks!Row
<1>3. Webhooks!AfterAttempt(new, ok) \in Retried(new)
  BY DEF Retried
<1> HIDE DEF new
<1>4. /\ Webhooks!AfterAttempt(new, ok) \in Webhooks!Row
      /\ Webhooks!AfterAttempt(new, ok).endpoint = e /\ HasAttempts(Webhooks!AfterAttempt(new, ok))
  BY <1>2, <1>3, RetriedRow
<1> QED
  BY <1>4 DEF new

LEMMA DeliveredEvent ==
  ASSUME NEW T, NEW R, NEW I, NEW ev \in [todo : T, rows : R, inline : I], NEW todo, NEW rows,
         NEW new, new = [ev EXCEPT !.todo = todo, !.rows = rows]
  PROVE  new = [todo |-> todo, rows |-> rows, inline |-> ev.inline]
<1>1. new.todo = todo /\ new.rows = rows /\ new.inline = ev.inline
  OBVIOUS
<1>2. new = [todo |-> new.todo, rows |-> new.rows, inline |-> new.inline]
  OBVIOUS
<1> QED
  BY <1>1, <1>2

LEMMA DeliverKeeps ==
  ASSUME WebhookInv, NEW h \in Handlers, NEW e \in Endpoints, NEW d \in Deliveries,
         NEW ok \in BOOLEAN, Webhooks!Deliver(h, e, d, ok)
  PROVE  WebhookInv'
<1> DEFINE ev == event[h]
           first == [endpoint |-> e, status |-> "failed", attempt |-> 0, due |-> FALSE]
           row == Webhooks!AfterAttempt(first, ok)
           table == [x \in DOMAIN ev.rows \cup {d} |-> IF x = d THEN row ELSE ev.rows[x]]
           new == [todo |-> ev.todo \ {e}, rows |-> table, inline |-> ev.inline]
<1>1. /\ UNCHANGED <<endpoint, delivery, retrying>>
      /\ ev \in Webhooks!Event /\ ev # NoEvent /\ e \in ev.todo
      /\ endpoint[e] # "none" /\ Webhooks!Unused(d)
      /\ event' = [event EXCEPT ![h].todo = @ \ {e},
                                ![h].rows = [x \in DOMAIN @ \cup {d} |->
                                              IF x = d THEN row ELSE @[x]]]
  BY DEF Webhooks!Deliver, WebhookInv, Webhooks!TypeOK
<1>2. event' = [event EXCEPT ![h] = new]
  <2> DEFINE next == [ev EXCEPT !.todo = @ \ {e}, !.rows = table]
  <2>1. ev \in [todo : SUBSET Endpoints, rows : Webhooks!Rows, inline : BOOLEAN]
    BY <1>1 DEF Webhooks!Event
  <2>2. next = [ev EXCEPT !.todo = ev.todo \ {e}, !.rows = table]
    OBVIOUS
  <2>3. next = new
    <3> HIDE DEF next, table, row, ev
    <3> QED
      BY <2>1, <2>2, DeliveredEvent
  <2>4. event' = [event EXCEPT ![h] = next]
    BY <1>1 DEF WebhookInv, Webhooks!TypeOK
  <2> HIDE DEF next, new
  <2> QED
    BY <2>3, <2>4
<1>3. row \in Webhooks!Row /\ row.endpoint = e /\ HasAttempts(row)
  BY FirstRow
<1> HIDE DEF row
<1>4. /\ ev.todo \in SUBSET Endpoints /\ ev.inline \in BOOLEAN /\ ev.rows \in Webhooks!Rows
      /\ DOMAIN ev.rows \in SUBSET Deliveries /\ ev.rows \in [DOMAIN ev.rows -> Webhooks!Row]
  BY <1>1, RowsType DEF Webhooks!Event
<1>5. table \in Webhooks!Rows
  <2>1. /\ DOMAIN table = DOMAIN ev.rows \cup {d}
        /\ table \in [DOMAIN ev.rows \cup {d} -> Webhooks!Row]
    BY <1>3, <1>4
  <2> QED
    BY <2>1, <1>4, RowsType
<1>6. \A x \in DOMAIN table : (x = d /\ table[x] = row)
                              \/ (x \in DOMAIN ev.rows /\ table[x] = ev.rows[x])
  OBVIOUS
<1> HIDE DEF table
<1>7. new \in Webhooks!Event
  BY <1>4, <1>5 DEF Webhooks!Event
<1>8. Webhooks!Inserted(h) = ev.rows
  BY <1>1 DEF Webhooks!Inserted
<1>9. \A x \in DOMAIN table :
        /\ delivery[x] = NoDelivery /\ RowFits(table[x])
        /\ \A g \in Handlers \ {h} : x \notin DOMAIN Webhooks!Inserted(g)
  <2> TAKE x \in DOMAIN table
  <2>1. CASE x = d /\ table[x] = row
    BY <2>1, <1>1, <1>3 DEF RowFits, Webhooks!Unused
  <2>2. CASE x \in DOMAIN ev.rows /\ table[x] = ev.rows[x]
    BY <2>2, <1>8 DEF WebhookInv, HandlersInv, InsertedRows, InsertedApart
  <2> QED
    BY <2>1, <2>2, <1>6
<1>10. ev.inline => OneOf(ev.todo \ {e}, table)
  <2>1. ev.inline => (\A x, y \in ev.todo : x = y) /\ DOMAIN ev.rows = {}
    BY <1>1 DEF WebhookInv, HandlersInv, TestsAlone, OneOf
  <2> QED
    BY <2>1, <1>1, <1>6 DEF OneOf
<1>11. new.rows = table /\ new.todo = ev.todo \ {e} /\ new.inline = ev.inline
  OBVIOUS
<1> HIDE DEF new
<1> QED
  BY <1>1, <1>2, <1>7, <1>9, <1>10, <1>11, HandlerKeeps

\* The row of a test is called again.
LEMMA RetryInlineKeeps ==
  ASSUME WebhookInv, NEW h \in Handlers, NEW d \in Deliveries, NEW ok \in BOOLEAN,
         Webhooks!RetryInline(h, d, ok)
  PROVE  WebhookInv'
<1> DEFINE ev == event[h]
           row == Webhooks!AfterAttempt(ev.rows[d], ok)
           new == [ev EXCEPT !.rows[d] = row]
<1>1. /\ UNCHANGED <<endpoint, delivery, retrying>>
      /\ ev \in Webhooks!Event /\ ev # NoEvent /\ Webhooks!Retrying(h)
      /\ d \in DOMAIN ev.rows
      /\ event' = [event EXCEPT ![h] = new]
  BY DEF Webhooks!RetryInline, WebhookInv, Webhooks!TypeOK
<1>2. /\ ev.rows \in Webhooks!Rows /\ DOMAIN ev.rows \in SUBSET Deliveries
      /\ ev.rows \in [DOMAIN ev.rows -> Webhooks!Row]
  BY <1>1, RowsType DEF Webhooks!Event
<1>3. ev.inline /\ ev.rows[d].status = "failed"
  BY <1>1 DEF Webhooks!Retrying, WebhookInv, HandlersInv, TestsAlone, OneOf
<1>4. Webhooks!Inserted(h) = ev.rows
  BY <1>1 DEF Webhooks!Inserted
<1>5. row \in Webhooks!Row /\ RowFits(row)
  <2>1. ev.rows[d] \in Webhooks!Row /\ RowFits(ev.rows[d])
    BY <1>1, <1>2, <1>4 DEF WebhookInv, HandlersInv, InsertedRows
  <2>2. ev.rows[d].attempt < MaxAttempts /\ row \in Retried(ev.rows[d])
    BY <2>1, <1>3 DEF RowFits, HasAttempts, Retried
  <2> QED
    BY <2>1, <2>2, <1>3, RetriedRow DEF RowFits
<1> HIDE DEF row
<1>6. /\ new \in Webhooks!Event /\ new.todo = ev.todo /\ new.inline = ev.inline
      /\ new.rows = [ev.rows EXCEPT ![d] = row]
  <2>1. [ev.rows EXCEPT ![d] = row] \in Webhooks!Rows
    <3>1. /\ DOMAIN [ev.rows EXCEPT ![d] = row] = DOMAIN ev.rows
          /\ [ev.rows EXCEPT ![d] = row] \in [DOMAIN ev.rows -> Webhooks!Row]
      BY <1>2, <1>5
    <3> QED
      BY <3>1, <1>2, RowsType
  <2> QED
    BY <2>1, <1>1 DEF Webhooks!Event
<1> HIDE DEF new, ev
<1>7. \A x \in DOMAIN new.rows :
        /\ delivery[x] = NoDelivery /\ RowFits(new.rows[x])
        /\ \A g \in Handlers \ {h} : x \notin DOMAIN Webhooks!Inserted(g)
  BY <1>4, <1>5, <1>6 DEF WebhookInv, HandlersInv, InsertedRows, InsertedApart
<1>8. OneOf(new.todo, new.rows)
  BY <1>1, <1>3, <1>6 DEF WebhookInv, HandlersInv, TestsAlone, OneOf, ev
<1> QED
  BY <1>1, <1>6, <1>7, <1>8, HandlerKeeps

\* The rows of a handler are committed: they were in nobody else's hands.
LEMMA CommitEventKeeps ==
  ASSUME WebhookInv, NEW h \in Handlers, Webhooks!CommitEvent(h)
  PROVE  WebhookInv' /\ Webhooks!QueueStep
<1> DEFINE rows == event[h].rows
<1>1. /\ UNCHANGED <<endpoint, retrying>> /\ event[h] \in Webhooks!Event
      /\ event' = [event EXCEPT ![h] = NoEvent]
      /\ delivery' = [d \in Deliveries |-> IF d \in DOMAIN rows THEN rows[d] ELSE delivery[d]]
      /\ Webhooks!Inserted(h) = rows
  BY DEF Webhooks!CommitEvent, Webhooks!Inserted, WebhookInv, Webhooks!TypeOK
<1>2. \A d \in DOMAIN rows : /\ d \in Deliveries /\ rows[d] \in Webhooks!Row
                             /\ delivery[d] = NoDelivery /\ RowFits(rows[d])
  <2> TAKE d \in DOMAIN rows
  <2>1. d \in DOMAIN Webhooks!Inserted(h)
    BY <1>1
  <2>2. d \in Deliveries /\ Webhooks!Inserted(h)[d] \in Webhooks!Row
    BY <2>1, InsertedRow
  <2> QED
    BY <2>1, <2>2, <1>1 DEF WebhookInv, HandlersInv, InsertedRows
<1> HIDE DEF rows
<1>3. \A d \in Deliveries : delivery'[d] = IF d \in DOMAIN rows THEN rows[d] ELSE delivery[d]
  BY <1>1
<1>4. \A g \in Handlers : event'[g] = IF g = h THEN NoEvent ELSE event[g]
  BY <1>1 DEF WebhookInv, Webhooks!TypeOK
<1>5. Webhooks!TypeOK'
  <2>1. delivery' \in [Deliveries -> Webhooks!Row \cup {NoDelivery}]
    BY <1>1, <1>2 DEF WebhookInv, Webhooks!TypeOK
  <2> QED
    BY <2>1, <1>1 DEF WebhookInv, Webhooks!TypeOK
<1>6. TableRows'
  BY <1>1, <1>2, <1>3 DEF WebhookInv, TableRows, RowFits
<1>7. \A g \in Handlers : \A d \in DOMAIN Webhooks!Inserted(g)' :
        /\ g # h /\ d \in DOMAIN Webhooks!Inserted(g)
        /\ Webhooks!Inserted(g)' = Webhooks!Inserted(g)
  BY <1>4 DEF Webhooks!Inserted, Webhooks!Empty
<1>8. InsertedRows'
  <2> SUFFICES ASSUME NEW g \in Handlers, NEW d \in DOMAIN Webhooks!Inserted(g)'
               PROVE  delivery'[d] = NoDelivery /\ RowFits(Webhooks!Inserted(g)[d])'
    BY DEF InsertedRows
  <2>1. d \in Deliveries /\ d \notin DOMAIN rows
    BY <1>1, <1>7, InsertedRow DEF WebhookInv, HandlersInv, InsertedApart
  <2> QED
    BY <2>1, <1>1, <1>3, <1>7 DEF WebhookInv, HandlersInv, InsertedRows, RowFits
<1>9. InsertedApart'
  BY <1>7 DEF WebhookInv, HandlersInv, InsertedApart
<1>10. TestsAlone'
  BY <1>4 DEF WebhookInv, HandlersInv, TestsAlone
<1>11. RetriesInv'
  <2>1. \A w \in Workers : retrying[w] # NoBatch =>
          \A d \in DOMAIN retrying[w].rows : delivery'[d] = delivery[d]
    <3> SUFFICES ASSUME NEW w \in Workers, retrying[w] # NoBatch,
                        NEW d \in DOMAIN retrying[w].rows
                 PROVE  delivery'[d] = delivery[d]
      OBVIOUS
    <3>1. d \in Deliveries /\ delivery[d] # NoDelivery
      BY ClaimedRow DEF Webhooks!Claimed, WebhookInv, RetriesInv, RetriesClaimed, Failed
    <3> QED
      BY <3>1, <1>2, <1>3
  <2> QED
    BY <2>1, <1>1 DEF WebhookInv, RetriesInv, RetriesClaimed, RetriesApart
<1>12. Webhooks!QueueStep
  BY <1>2, <1>3 DEF Webhooks!QueueStep
<1> QED
  BY <1>5, <1>6, <1>8, <1>9, <1>10, <1>11, <1>12 DEF WebhookInv, HandlersInv

\* A worker claims the deliveries nobody holds.
LEMMA ClaimRetriesKeeps ==
  ASSUME WebhookInv, NEW w \in Workers, Webhooks!ClaimRetries(w)
  PROVE  WebhookInv'
<1> DEFINE due == {d \in Deliveries : Webhooks!Due(d)}
           new == [todo |-> due, rows |-> [d \in due |-> delivery[d]]]
<1>1. /\ UNCHANGED <<endpoint, delivery, event>>
      /\ retrying' = [retrying EXCEPT ![w] = new]
  BY DEF Webhooks!ClaimRetries
<1>2. \A d \in due : /\ delivery[d] \in Webhooks!Row /\ Failed(delivery[d]) /\ delivery[d].due
                     /\ ~Webhooks!Locked(d)
  BY DEF Webhooks!Due, Failed, WebhookInv, Webhooks!TypeOK
<1>3. \A v \in Workers : retrying[v] # NoBatch => DOMAIN retrying[v].rows \cap due = {}
  BY <1>2 DEF Webhooks!Locked, Webhooks!Claimed
<1>4. new.todo = due /\ DOMAIN new.rows = due /\ \A d \in due : new.rows[d] = delivery[d]
  OBVIOUS
<1>5. new \in Webhooks!Batch
  <2>1. new.rows \in [due -> Webhooks!Row] /\ due \in SUBSET Deliveries
    BY <1>2
  <2>2. new.rows \in Webhooks!Rows
    BY <2>1, <1>4, RowsType
  <2> QED
    BY <2>1, <2>2 DEF Webhooks!Batch
<1> HIDE DEF new, due
<1>6. \A v \in Workers : retrying'[v] = IF v = w THEN new ELSE retrying[v]
  BY <1>1 DEF WebhookInv, Webhooks!TypeOK
<1>7. Webhooks!TypeOK'
  BY <1>1, <1>4, <1>5, <1>6 DEF WebhookInv, Webhooks!TypeOK
<1>8. TableRows' /\ HandlersInv'
  BY <1>1 DEF WebhookInv, TableRows, RowFits, HandlersInv, InsertedRows, InsertedApart, TestsAlone,
     Webhooks!Inserted
<1>9. RetriesClaimed'
  BY <1>1, <1>2, <1>4, <1>6 DEF WebhookInv, RetriesInv, RetriesClaimed
<1>10. RetriesApart'
  BY <1>3, <1>4, <1>6 DEF WebhookInv, RetriesInv, RetriesApart
<1> QED
  BY <1>7, <1>8, <1>9, <1>10 DEF WebhookInv, RetriesInv

\* One delivery of a batch is called.
LEMMA RetryKeeps ==
  ASSUME WebhookInv, NEW w \in Workers, NEW d \in Deliveries, NEW ok \in BOOLEAN,
         Webhooks!Retry(w, d, ok)
  PROVE  WebhookInv'
<1> DEFINE b == retrying[w]
           row == Webhooks!AfterAttempt(b.rows[d], ok)
           new == [b EXCEPT !.todo = @ \ {d}, !.rows[d] = row]
<1>1. /\ UNCHANGED <<endpoint, delivery, event>>
      /\ b \in Webhooks!Batch /\ b # NoBatch
      /\ d \in b.todo /\ d \in DOMAIN b.rows
      /\ retrying' = [retrying EXCEPT ![w] = new]
  BY DEF Webhooks!Retry, WebhookInv, Webhooks!TypeOK
<1>2. /\ b.rows[d] = delivery[d] /\ Failed(delivery[d]) /\ delivery[d].due
      /\ delivery[d] \in Webhooks!Row /\ delivery[d].attempt < MaxAttempts
  <2>1. b.rows[d] = delivery[d]
    BY <1>1 DEF WebhookInv, RetriesInv, RetriesClaimed
  <2>2. d \in DOMAIN Webhooks!Claimed(w)
    BY <1>1 DEF Webhooks!Claimed
  <2> QED
    BY <2>1, <2>2, <1>1, ClaimedRow DEF WebhookInv, RetriesInv, RetriesClaimed
<1>3. row \in Retried(delivery[d]) /\ row \in Webhooks!Row
  <2>1. row \in Retried(delivery[d])
    BY <1>2 DEF Retried
  <2> QED
    BY <2>1, <1>2, RetriedRow DEF Failed
<1> HIDE DEF row
<1>4. /\ new = [todo |-> new.todo, rows |-> new.rows]
      /\ new.todo = b.todo \ {d}
      /\ new.rows = [b.rows EXCEPT ![d] = row]
  <2>1. b \in [todo : SUBSET Deliveries, rows : Webhooks!Rows]
    BY <1>1 DEF Webhooks!Batch
  <2>2. new = [b EXCEPT !.todo = @ \ {d}, !.rows[d] = row]
    OBVIOUS
  <2> HIDE DEF b, new
  <2> QED
    BY <2>1, <2>2, AttemptedBatch
<1> HIDE DEF new
<1>5. /\ DOMAIN b.rows \in SUBSET Deliveries /\ b.rows \in [DOMAIN b.rows -> Webhooks!Row]
      /\ b.todo \in SUBSET Deliveries /\ b.todo \subseteq DOMAIN b.rows
  BY <1>1, RowsType DEF Webhooks!Batch, WebhookInv, Webhooks!TypeOK
<1>6. DOMAIN new.rows = DOMAIN b.rows /\ new.rows \in [DOMAIN new.rows -> Webhooks!Row]
  BY <1>3, <1>4, <1>5
<1>7. new \in Webhooks!Batch
  <2>1. new.rows \in Webhooks!Rows
    BY <1>5, <1>6, RowsType
  <2> QED
    BY <2>1, <1>4, <1>5 DEF Webhooks!Batch
<1>8. \A v \in Workers : retrying'[v] = IF v = w THEN new ELSE retrying[v]
  BY <1>1 DEF WebhookInv, Webhooks!TypeOK
<1>9. Webhooks!TypeOK'
  BY <1>1, <1>4, <1>5, <1>6, <1>7, <1>8 DEF WebhookInv, Webhooks!TypeOK
<1>10. TableRows' /\ HandlersInv'
  BY <1>1 DEF WebhookInv, TableRows, RowFits, HandlersInv, InsertedRows, InsertedApart, TestsAlone,
     Webhooks!Inserted
<1>11. RetriesClaimed'
  <2> SUFFICES ASSUME NEW v \in Workers, retrying'[v] # NoBatch,
                      NEW c \in DOMAIN retrying'[v].rows
               PROVE  /\ Failed(delivery'[c]) /\ delivery'[c].due
                      /\ c \in retrying'[v].todo => retrying'[v].rows[c] = delivery'[c]
                      /\ c \notin retrying'[v].todo => retrying'[v].rows[c] \in Retried(delivery'[c])
    BY DEF RetriesClaimed
  <2>1. CASE v # w
    BY <2>1, <1>1, <1>8 DEF WebhookInv, RetriesInv, RetriesClaimed
  <2>2. CASE v = w /\ c = d
    BY <2>2, <1>1, <1>2, <1>3, <1>4, <1>5, <1>8
  <2>3. CASE v = w /\ c # d
    BY <2>3, <1>1, <1>4, <1>5, <1>6, <1>8 DEF WebhookInv, RetriesInv, RetriesClaimed
  <2> QED
    BY <2>1, <2>2, <2>3
<1>12. RetriesApart'
  BY <1>1, <1>6, <1>8 DEF WebhookInv, RetriesInv, RetriesApart
<1> QED
  BY <1>9, <1>10, <1>11, <1>12 DEF WebhookInv, RetriesInv

\* The commit of a batch: every row of it has had one more attempt.
LEMMA CommitRetriesKeeps ==
  ASSUME WebhookInv, NEW w \in Workers, Webhooks!CommitRetries(w)
  PROVE  WebhookInv' /\ Webhooks!QueueStep
<1> DEFINE rows == retrying[w].rows
<1>1. /\ UNCHANGED <<endpoint, event>> /\ retrying[w] # NoBatch /\ retrying[w].todo = {}
      /\ retrying' = [retrying EXCEPT ![w] = NoBatch]
      /\ delivery' = [d \in Deliveries |-> IF d \in DOMAIN rows THEN rows[d] ELSE delivery[d]]
      /\ Webhooks!Claimed(w) = rows
  BY DEF Webhooks!CommitRetries, Webhooks!Claimed
<1>2. \A d \in DOMAIN rows :
        /\ d \in Deliveries /\ delivery[d] \in Webhooks!Row /\ delivery[d] # NoDelivery
        /\ delivery[d].status = "failed" /\ delivery[d].due
        /\ rows[d] \in Webhooks!Row /\ rows[d].endpoint = delivery[d].endpoint
        /\ rows[d].attempt = delivery[d].attempt + 1 /\ HasAttempts(rows[d])
        /\ rows[d].status = "dead_letter" <=> (rows[d].attempt = MaxAttempts /\ rows[d].status # "success")
  <2> TAKE d \in DOMAIN rows
  <2>1. d \in DOMAIN Webhooks!Claimed(w)
    BY <1>1
  <2>2. /\ d \in Deliveries /\ delivery[d] \in Webhooks!Row /\ delivery[d].status = "failed"
        /\ delivery[d].due /\ delivery[d].attempt < MaxAttempts
    BY <2>1, ClaimedRow
  <2>3. rows[d] \in Retried(delivery[d]) /\ delivery[d] # NoDelivery
    BY <1>1 DEF WebhookInv, RetriesInv, RetriesClaimed, Failed
  <2> QED
    BY <2>2, <2>3, RetriedRow
<1> HIDE DEF rows
<1>3. \A d \in Deliveries : delivery'[d] = IF d \in DOMAIN rows THEN rows[d] ELSE delivery[d]
  BY <1>1
<1>4. \A v \in Workers : retrying'[v] = IF v = w THEN NoBatch ELSE retrying[v]
  BY <1>1 DEF WebhookInv, Webhooks!TypeOK
<1>5. Webhooks!TypeOK'
  <2>1. delivery' \in [Deliveries -> Webhooks!Row \cup {NoDelivery}]
    BY <1>1, <1>2 DEF WebhookInv, Webhooks!TypeOK
  <2> QED
    BY <2>1, <1>1, <1>4 DEF WebhookInv, Webhooks!TypeOK
<1>6. TableRows'
  BY <1>1, <1>2, <1>3 DEF WebhookInv, TableRows, RowFits
<1>7. InsertedRows'
  <2> SUFFICES ASSUME NEW h \in Handlers, NEW d \in DOMAIN Webhooks!Inserted(h)
               PROVE  delivery'[d] = NoDelivery /\ RowFits(Webhooks!Inserted(h)[d])
    BY <1>1 DEF InsertedRows, RowFits, Webhooks!Inserted
  <2>1. /\ d \in Deliveries /\ delivery[d] = NoDelivery
        /\ RowFits(Webhooks!Inserted(h)[d])
    BY InsertedRow DEF WebhookInv, HandlersInv, InsertedRows
  <2> QED
    BY <2>1, <1>2, <1>3
<1>8. InsertedApart' /\ TestsAlone'
  BY <1>1 DEF WebhookInv, HandlersInv, InsertedApart, TestsAlone, Webhooks!Inserted
<1>9. RetriesClaimed'
  <2> SUFFICES ASSUME NEW v \in Workers, retrying'[v] # NoBatch,
                      NEW c \in DOMAIN retrying'[v].rows
               PROVE  /\ Failed(delivery'[c]) /\ delivery'[c].due
                      /\ c \in retrying'[v].todo => retrying'[v].rows[c] = delivery'[c]
                      /\ c \notin retrying'[v].todo => retrying'[v].rows[c] \in Retried(delivery'[c])
    BY DEF RetriesClaimed
  <2>1. v # w /\ retrying'[v] = retrying[v] /\ c \in DOMAIN Webhooks!Claimed(v)
    BY <1>4 DEF Webhooks!Claimed
  <2>2. c \in Deliveries /\ c \notin DOMAIN rows
    BY <2>1, <1>1, ClaimedRow DEF WebhookInv, RetriesInv, RetriesApart, rows
  <2> QED
    BY <2>1, <2>2, <1>3 DEF WebhookInv, RetriesInv, RetriesClaimed
<1>10. RetriesApart'
  BY <1>4 DEF WebhookInv, RetriesInv, RetriesApart
<1>11. Webhooks!QueueStep
  BY <1>2, <1>3 DEF Webhooks!QueueStep, Webhooks!Final
<1> QED
  BY <1>5, <1>6, <1>7, <1>8, <1>9, <1>10, <1>11 DEF WebhookInv, HandlersInv, RetriesInv

LEMMA AbortRetriesKeeps ==
  ASSUME WebhookInv, NEW w \in Workers, UNCHANGED <<endpoint, delivery, event>>,
         retrying' = [retrying EXCEPT ![w] = NoBatch]
  PROVE  WebhookInv'
<1>1. \A v \in Workers : retrying'[v] = IF v = w THEN NoBatch ELSE retrying[v]
  BY DEF WebhookInv, Webhooks!TypeOK
<1>2. Webhooks!TypeOK'
  BY <1>1 DEF WebhookInv, Webhooks!TypeOK
<1>3. TableRows' /\ HandlersInv'
  BY DEF WebhookInv, TableRows, RowFits, HandlersInv, InsertedRows, InsertedApart, TestsAlone,
     Webhooks!Inserted
<1>4. RetriesInv'
  BY <1>1 DEF WebhookInv, RetriesInv, RetriesClaimed, RetriesApart
<1> QED
  BY <1>2, <1>3, <1>4 DEF WebhookInv

\* A retry becomes due: nobody has claimed it, as a claimed delivery is due.
LEMMA WebhookRetryDueKeeps ==
  ASSUME WebhookInv, NEW d \in Deliveries, Webhooks!RetryDue(d)
  PROVE  WebhookInv' /\ Webhooks!QueueStep
<1> DEFINE new == [delivery[d] EXCEPT !.due = TRUE]
<1>1. /\ UNCHANGED <<endpoint, event, retrying>>
      /\ delivery[d] \in Webhooks!Row /\ delivery[d] # NoDelivery /\ ~delivery[d].due
      /\ delivery[d].status = "failed"
      /\ delivery' = [delivery EXCEPT ![d] = new]
  BY DEF Webhooks!RetryDue, WebhookInv, Webhooks!TypeOK
<1>2. /\ new \in Webhooks!Row /\ new.endpoint = delivery[d].endpoint
      /\ new.attempt = delivery[d].attempt /\ new.status = delivery[d].status
  BY <1>1 DEF Webhooks!Row
<1>3. \A c \in Deliveries : delivery'[c] = IF c = d THEN new ELSE delivery[c]
  BY <1>1 DEF WebhookInv, Webhooks!TypeOK
<1>4. Webhooks!QueueStep
  BY <1>1, <1>2, <1>3 DEF Webhooks!QueueStep, Webhooks!Final
<1> HIDE DEF new
<1>5. Webhooks!TypeOK'
  BY <1>1, <1>2 DEF WebhookInv, Webhooks!TypeOK
<1>6. TableRows'
  BY <1>1, <1>2, <1>3 DEF WebhookInv, TableRows, RowFits, HasAttempts
<1>7. InsertedRows'
  <2> SUFFICES ASSUME NEW h \in Handlers, NEW c \in DOMAIN Webhooks!Inserted(h)
               PROVE  delivery'[c] = NoDelivery /\ RowFits(Webhooks!Inserted(h)[c])
    BY <1>1 DEF InsertedRows, RowFits, Webhooks!Inserted
  <2>1. c \in Deliveries /\ delivery[c] = NoDelivery /\ RowFits(Webhooks!Inserted(h)[c])
    BY InsertedRow DEF WebhookInv, HandlersInv, InsertedRows
  <2> QED
    BY <2>1, <1>1, <1>3
<1>8. InsertedApart' /\ TestsAlone'
  BY <1>1 DEF WebhookInv, HandlersInv, InsertedApart, TestsAlone, Webhooks!Inserted
<1>9. RetriesInv'
  <2>1. \A w \in Workers : retrying[w] # NoBatch =>
          \A c \in DOMAIN retrying[w].rows : delivery'[c] = delivery[c]
    <3> SUFFICES ASSUME NEW w \in Workers, retrying[w] # NoBatch,
                        NEW c \in DOMAIN retrying[w].rows
                 PROVE  delivery'[c] = delivery[c]
      OBVIOUS
    <3>1. c \in Deliveries /\ delivery[c].due
      BY ClaimedRow DEF Webhooks!Claimed
    <3> QED
      BY <3>1, <1>1, <1>3
  <2> QED
    BY <2>1, <1>1 DEF WebhookInv, RetriesInv, RetriesClaimed, RetriesApart
<1> QED
  BY <1>4, <1>5, <1>6, <1>7, <1>8, <1>9 DEF WebhookInv, HandlersInv

LEMMA WebhookStutterKeeps ==
  ASSUME WebhookInv, UNCHANGED webhookVars
  PROVE  WebhookInv'
BY DEF WebhookInv, webhookVars, Webhooks!TypeOK, TableRows, RowFits, HandlersInv, InsertedRows,
   InsertedApart, TestsAlone, Webhooks!Inserted, RetriesInv, RetriesClaimed, RetriesApart

\* A row that does not change makes no step of the queue.
LEMMA QueueStutters == ASSUME UNCHANGED delivery PROVE Webhooks!QueueStep
BY DEF Webhooks!QueueStep

LEMMA WebhookStep ==
  ASSUME WebhookInv,
         \/ Webhooks!Next
         \/ \E w \in Workers : /\ retrying' = [retrying EXCEPT ![w] = NoBatch]
                               /\ UNCHANGED <<endpoint, delivery, event>>
         \/ UNCHANGED webhookVars
  PROVE  WebhookInv' /\ Webhooks!QueueStep
<1>1. CASE Webhooks!EndpointNext
  <2>1. ASSUME NEW e \in Endpoints, NEW s \in {"active", "inactive"},
               Webhooks!CreateEndpoint(e, s) \/ Webhooks!UpdateEndpoint(e, s)
        PROVE  WebhookInv' /\ Webhooks!QueueStep
    BY <2>1, EndpointKeeps, QueueStutters DEF Webhooks!CreateEndpoint, Webhooks!UpdateEndpoint
  <2> QED
    BY <1>1, <2>1, DeleteKeeps DEF Webhooks!EndpointNext
<1>2. CASE Webhooks!HandlerNext
  <2>1. ASSUME NEW h \in Handlers,
               Webhooks!BeginEvent(h) \/ (\E e \in Endpoints : Webhooks!BeginTest(h, e))
               \/ Webhooks!LoseEvent(h)
        PROVE  WebhookInv' /\ Webhooks!QueueStep
    BY <2>1, BeginKeeps, QueueStutters
       DEF Webhooks!BeginEvent, Webhooks!BeginTest, Webhooks!LoseEvent
  <2>2. ASSUME NEW h \in Handlers, NEW e \in Endpoints, NEW d \in Deliveries, NEW ok \in BOOLEAN,
               Webhooks!Deliver(h, e, d, ok)
        PROVE  WebhookInv' /\ Webhooks!QueueStep
    BY <2>2, DeliverKeeps, QueueStutters DEF Webhooks!Deliver
  <2>3. ASSUME NEW h \in Handlers, NEW d \in Deliveries, NEW ok \in BOOLEAN,
               Webhooks!RetryInline(h, d, ok)
        PROVE  WebhookInv' /\ Webhooks!QueueStep
    BY <2>3, RetryInlineKeeps, QueueStutters DEF Webhooks!RetryInline
  <2> QED
    BY <1>2, <2>1, <2>2, <2>3, CommitEventKeeps DEF Webhooks!HandlerNext
<1>3. ASSUME NEW w \in Workers, Webhooks!WorkerNext(w)
      PROVE  WebhookInv' /\ Webhooks!QueueStep
  <2>1. CASE Webhooks!ClaimRetries(w)
    BY <2>1, ClaimRetriesKeeps, QueueStutters DEF Webhooks!ClaimRetries
  <2>2. CASE \E d \in Deliveries, ok \in BOOLEAN : Webhooks!Retry(w, d, ok)
    BY <2>2, RetryKeeps, QueueStutters DEF Webhooks!Retry
  <2>3. CASE Webhooks!AbortRetries(w)
    BY <2>3, AbortRetriesKeeps, QueueStutters DEF Webhooks!AbortRetries
  <2> QED
    BY <1>3, <2>1, <2>2, <2>3, CommitRetriesKeeps DEF Webhooks!WorkerNext
<1>4. CASE \E w \in Workers : /\ retrying' = [retrying EXCEPT ![w] = NoBatch]
                              /\ UNCHANGED <<endpoint, delivery, event>>
  BY <1>4, AbortRetriesKeeps, QueueStutters
<1>5. CASE UNCHANGED webhookVars
  BY <1>5, WebhookStutterKeeps, QueueStutters DEF webhookVars
<1> QED
  BY <1>1, <1>2, <1>3, <1>4, <1>5, WebhookRetryDueKeeps DEF Webhooks!Next

\* A claimed row is in the table as it was read, or one attempt further.
LEMMA RetriesMeetThem == ASSUME WebhookInv PROVE RetriesMeetRows
<1>1. \A d \in Deliveries : delivery[d] # NoDelivery => endpoint[delivery[d].endpoint] # "none"
  BY DEF WebhookInv, TableRows, RowFits
<1>2. \A h \in Handlers : \A d \in DOMAIN Webhooks!Inserted(h) :
        endpoint[Webhooks!Inserted(h)[d].endpoint] # "none"
  BY DEF WebhookInv, HandlersInv, InsertedRows, RowFits
<1>3. \A w \in Workers : \A d \in DOMAIN Webhooks!Claimed(w) :
        endpoint[Webhooks!Claimed(w)[d].endpoint] # "none"
  <2> SUFFICES ASSUME NEW w \in Workers, NEW d \in DOMAIN Webhooks!Claimed(w)
               PROVE  endpoint[Webhooks!Claimed(w)[d].endpoint] # "none"
    OBVIOUS
  <2>1. /\ d \in Deliveries /\ Webhooks!Claimed(w)[d].endpoint = delivery[d].endpoint
        /\ retrying[w] # NoBatch /\ d \in DOMAIN retrying[w].rows
    BY ClaimedRow DEF Webhooks!Claimed
  <2>2. delivery[d] # NoDelivery
    BY <2>1 DEF WebhookInv, RetriesInv, RetriesClaimed, Failed
  <2> QED
    BY <2>1, <2>2, <1>1
<1>4. Webhooks!ClaimsCurrent
  BY DEF Webhooks!ClaimsCurrent, WebhookInv, Webhooks!TypeOK, RetriesInv, RetriesClaimed
<1> QED
  BY <1>1, <1>2, <1>3, <1>4 DEF RetriesMeetRows, Webhooks!RowsHaveEndpoint

-----------------------------------------------------------------------------
(* The cycle of the workers.                                               *)

CycleType ==
  /\ lease \in [owner : Workers \cup {NoOwner}, live : BOOLEAN]
  /\ stage \in [Workers -> Stages]
  /\ faulty \in BOOLEAN

RunnerInv == ExportInv /\ WebhookInv /\ CycleType

\* What a step of the runner is to the exports and to the deliveries: one of
\* theirs, or the loss of a worker's batch, or nothing.
ExportPart ==
  \/ Exports!Next
  \/ \E w \in Workers : /\ exporting' = [exporting EXCEPT ![w] = NoBatch]
                        /\ UNCHANGED <<job, record, request>>
  \/ UNCHANGED exportVars
WebhookPart ==
  \/ Webhooks!Next
  \/ \E w \in Workers : /\ retrying' = [retrying EXCEPT ![w] = NoBatch]
                        /\ UNCHANGED <<endpoint, delivery, event>>
  \/ UNCHANGED webhookVars

LEMMA NextParts == ASSUME [Next]_vars PROVE ExportPart /\ WebhookPart
<1>1. ASSUME NEW w \in Workers, Cycle(w) PROVE ExportPart /\ WebhookPart
  <2>1. CASE RunWebhookRetries(w)
    BY <2>1 DEF RunWebhookRetries, ExportPart, WebhookPart, Webhooks!Next, Webhooks!WorkerNext
  <2>2. CASE RunExportJobs(w)
    BY <2>2 DEF RunExportJobs, ExportPart, WebhookPart, Exports!Next, Exports!WorkerNext
  <2>3. CASE Acquire(w) \/ ReadLease(w) \/ Release(w)
    BY <2>3 DEF Acquire, ReadLease, Release, ExportPart, WebhookPart
  <2> QED
    BY <1>1, <2>1, <2>2, <2>3 DEF Cycle
<1>2. ASSUME NEW w \in Workers, Fault(w) PROVE ExportPart /\ WebhookPart
  BY <1>2 DEF Fault, ExportPart, WebhookPart
<1>3. CASE Settle \/ Expire
  BY <1>3 DEF Settle, Expire, ExportPart, WebhookPart
<1>4. CASE RetryDue
  BY <1>4 DEF RetryDue, ExportPart, WebhookPart, Exports!Next, Webhooks!Next
<1>5. CASE RequestExport
  BY <1>5 DEF RequestExport, ExportPart, WebhookPart, Exports!Next
<1>6. CASE UseEndpoints \/ HandleEvent
  BY <1>6 DEF UseEndpoints, HandleEvent, ExportPart, WebhookPart, Webhooks!Next
<1>7. CASE UNCHANGED vars
  BY <1>7 DEF vars, ExportPart, WebhookPart
<1> QED
  BY <1>1, <1>2, <1>3, <1>4, <1>5, <1>6, <1>7 DEF Next

LEMMA CycleTyped == ASSUME CycleType, [Next]_vars PROVE CycleType'
<1>1. ASSUME NEW w \in Workers, NEW s \in Stages PROVE Enter(w, s) => stage' \in [Workers -> Stages]
  BY DEF Enter, CycleType
<1>2. ASSUME NEW w \in Workers, Cycle(w) \/ Fault(w) PROVE CycleType'
  <2>1. stage' \in [Workers -> Stages]
    BY <1>1, <1>2 DEF Cycle, Fault, Acquire, RunWebhookRetries, RunExportJobs, ReadLease, Release,
       Stages, CycleType
  <2>2. faulty' = faulty
    BY <1>2 DEF Cycle, Fault, Acquire, RunWebhookRetries, RunExportJobs, ReadLease, Release
  <2>3. lease' \in {lease, [owner |-> w, live |-> TRUE], [lease EXCEPT !.live = FALSE]}
    BY <1>2 DEF Cycle, Fault, Acquire, RunWebhookRetries, RunExportJobs, ReadLease, Release
  <2>4. lease' \in [owner : Workers \cup {NoOwner}, live : BOOLEAN]
    <3>1. /\ [lease EXCEPT !.live = FALSE] \in [owner : Workers \cup {NoOwner}, live : BOOLEAN]
          /\ [owner |-> w, live |-> TRUE] \in [owner : Workers \cup {NoOwner}, live : BOOLEAN]
      BY DEF CycleType
    <3> QED
      BY <2>3, <3>1 DEF CycleType
  <2> QED
    BY <2>1, <2>2, <2>4 DEF CycleType
<1>3. CASE Settle \/ Expire
  BY <1>3 DEF Settle, Expire, CycleType
<1>4. CASE RetryDue \/ RequestExport \/ UseEndpoints \/ HandleEvent \/ UNCHANGED vars
  BY <1>4 DEF RetryDue, RequestExport, UseEndpoints, HandleEvent, vars, CycleType
<1> QED
  BY <1>2, <1>3, <1>4 DEF Next

LEMMA RunnerInit == ASSUME Init PROVE RunnerInv
<1>1. CycleType
  BY DEF Init, CycleType, Stages
<1> QED
  BY <1>1, ConstantsOK, ExportInit, WebhookInit DEF Init, RunnerInv

LEMMA RunnerStep ==
  ASSUME RunnerInv, [Next]_vars
  PROVE  RunnerInv' /\ [Exports!Queue!Next]_tasks /\ Webhooks!QueueStep
<1>1. ExportPart /\ WebhookPart
  BY NextParts
<1>2. ExportInv' /\ [Exports!Queue!Next]_tasks
  BY <1>1, ExportStep DEF ExportPart, RunnerInv
<1>3. WebhookInv' /\ Webhooks!QueueStep
  BY <1>1, WebhookStep DEF WebhookPart, RunnerInv
<1>4. CycleType'
  BY CycleTyped DEF RunnerInv
<1> QED
  BY <1>2, <1>3, <1>4 DEF RunnerInv

\* The state of the runner that everything below rests on: keys are held by one
\* request at a time, what workers hold is due, theirs alone, and as in the table.
THEOREM RunnerKeeps == Spec => []RunnerInv
<1>1. RunnerInv /\ [Next]_vars => RunnerInv'
  BY RunnerStep
<1> QED
  BY RunnerInit, <1>1, PTL DEF Spec

\* Every row, batch and lease has its type whatever happens: no attempt is counted
\* beyond MaxAttempts (process_queued_jobs, retry_due_deliveries).
THEOREM TypesKeep == Spec => []TypeOK
<1>1. RunnerInv => TypeOK
  BY DEF RunnerInv, ExportInv, WebhookInv, CycleType, TypeOK
<1> QED
  BY RunnerKeeps, <1>1, PTL

\* The requests for an export under one key make one job, and a replay tells the
\* truth about it, for any number of clients (try_reserve, finalize_record).
THEOREM OneJobForRepeats == Spec => []RepeatsMakeOneJob
<1>1. RunnerInv => RepeatsMakeOneJob
  BY RecordedOnce DEF RunnerInv
<1> QED
  BY RunnerKeeps, <1>1, PTL

\* A worker finds the rows it has claimed as it read them, and their endpoints,
\* for any number of workers that overlap (list_due_retry_deliveries).
THEOREM RetriesFindRows == Spec => []RetriesMeetRows
<1>1. RunnerInv => RetriesMeetRows
  BY RetriesMeetThem DEF RunnerInv
<1> QED
  BY RunnerKeeps, <1>1, PTL

\* The export jobs of any number of workers implement the queue of retried tasks:
\* the lease may be lost at any moment and the row locks still make every attempt
\* count once (list_due_jobs, process_queued_jobs).
THEOREM ExportsAreAQueue == Spec => ImplementsQueue
<1>1. Init => Exports!Queue!Init
  BY NoRowIsAbsent DEF Init, Exports!Init, Exports!Queue!Init, TaskOf
<1>2. RunnerInv /\ [Next]_vars => [Exports!Queue!Next]_tasks
  BY RunnerStep
<1> QED
  BY RunnerKeeps, <1>1, <1>2, PTL
     DEF Spec, ImplementsQueue, Exports!ImplementsQueue, Exports!Queue!Spec, tasks, TaskOf

\* No attempt of a delivery is lost or counted twice, and none follows a success
\* or the dead letter (retry_due_deliveries).
THEOREM DeliveriesCountOnce == Spec => AttemptsCountOnce
<1>1. RunnerInv /\ [Next]_vars => Webhooks!QueueStep
  BY RunnerStep
<1> QED
  BY RunnerKeeps, <1>1, PTL DEF Spec, AttemptsCountOnce
=============================================================================
