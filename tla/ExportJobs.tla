----------------------------- MODULE ExportJobs ------------------------------
(***************************************************************************)
(* Export jobs of one project: clients queue them, under an idempotency    *)
(* key or without one, and workers claim, attempt and retry them.          *)
(*                                                                         *)
(* A queueing request is a transaction of three steps: it reserves its     *)
(* key, looks at the gates, and commits job and response together.  The    *)
(* unique constraint on the key makes a second request wait for the first  *)
(* (Reserve is not enabled) until it commits or rolls back.  A worker's    *)
(* batch is one transaction: it claims due rows under row locks, attempts  *)
(* them one after the other and commits them together; until then nobody   *)
(* else sees a change, and a crash leaves the rows as they were.           *)
(***************************************************************************)
EXTENDS Naturals, FiniteSets

CONSTANTS
  Clients,      \* request slots
  Workers,      \* worker processes
  Jobs,         \* identifiers of export_jobs rows
  Keys, NoKey,  \* idempotency keys; a request may carry none
  Prints,       \* fingerprints: what a request asks for
  NoJob, NoRecord, NoRequest, NoBatch,
  MaxAttempts   \* max_attempts of a job, len(EXPORT_RETRY_DELAYS_SECONDS)

\* due: next_retry_at is unset or has passed.  key is what the job was queued
\* under, which the table does not keep.
JobRow == [status : {"queued", "retry_scheduled", "completed", "dead_letter"},
           attempt : 0..MaxAttempts, due : BOOLEAN,
           print : Prints, key : Keys \cup {NoKey}]
\* An idempotency record and the response it stores.
Record == [print : Prints, job : Jobs]
Request == [at : {"reserve", "gate", "commit"}, print : Prints, key : Keys \cup {NoKey}]
Batch == [todo : SUBSET Jobs, rows : UNION {[S -> JobRow] : S \in SUBSET Jobs}]

\* The values that stand for absence differ from the rows.
ConstantsOK ==
  /\ NoKey \notin Keys
  /\ NoJob \notin JobRow
  /\ NoRecord \notin Record
  /\ NoRequest \notin Request
  /\ NoBatch \notin Batch
  /\ MaxAttempts \in Nat \ {0}

VARIABLES
  job,      \* the committed export_jobs rows, or NoJob
  record,   \* the committed idempotency_records row of each key, or NoRecord
  request,  \* the queueing request of each client, or NoRequest
  batch     \* the open transaction of each worker, or NoBatch

vars == <<job, record, request, batch>>

TypeOK ==
  /\ job \in [Jobs -> JobRow \cup {NoJob}]
  /\ record \in [Keys -> Record \cup {NoRecord}]
  /\ request \in [Clients -> Request \cup {NoRequest}]
  /\ batch \in [Workers -> Batch \cup {NoBatch}]
  /\ \A w \in Workers : batch[w] # NoBatch => batch[w].todo \subseteq DOMAIN batch[w].rows

Init ==
  /\ job = [j \in Jobs |-> NoJob]
  /\ record = [k \in Keys |-> NoRecord]
  /\ request = [c \in Clients |-> NoRequest]
  /\ batch = [w \in Workers |-> NoBatch]

-----------------------------------------------------------------------------
(* Queueing *)

Active == {"queued", "retry_scheduled"}
ActiveJobs == {j \in Jobs : job[j] # NoJob /\ job[j].status \in Active}

\* A client sends a request, perhaps one it has sent before.
Send(c, k, p) ==
  /\ request[c] = NoRequest
  /\ request' = [request EXCEPT ![c] = [at |-> "reserve", print |-> p, key |-> k]]
  /\ UNCHANGED <<job, record, batch>>

\* Does another open transaction hold an uncommitted record of the key?
\* Mutant: a reservation made by a SELECT would not notice it.
NeverReserved(k) == FALSE
Reserved(k) == \E c \in Clients : request[c] # NoRequest /\ request[c].key = k
                                  /\ request[c].at # "reserve"

\* The INSERT goes through.
Reserve(c) ==
  /\ request[c] # NoRequest /\ request[c].at = "reserve"
  /\ request[c].key # NoKey => /\ ~Reserved(request[c].key)
                               /\ record[request[c].key] = NoRecord
  /\ request' = [request EXCEPT ![c].at = "gate"]
  /\ UNCHANGED <<job, record, batch>>

\* The key is taken: the stored response is returned if the request is the
\* same one, 409 if it is another.  A record whose response is still pending
\* is never seen, because reservation and response commit together.
Replay(c) ==
  /\ request[c] # NoRequest /\ request[c].at = "reserve" /\ request[c].key # NoKey
  /\ record[request[c].key] # NoRecord
  /\ request' = [request EXCEPT ![c] = NoRequest]
  /\ UNCHANGED <<job, record, batch>>

\* The gates: review finished, items complete, boundary locked, and no active
\* export.  The first three depend on the project, outside this module.
PassGates(c) ==
  /\ request[c] # NoRequest /\ request[c].at = "gate"
  /\ ActiveJobs = {}
  /\ request' = [request EXCEPT ![c].at = "commit"]
  /\ UNCHANGED <<job, record, batch>>

\* A gate blocks, or the request fails: its transaction rolls back and takes
\* the reservation with it.
Refuse(c) ==
  /\ request[c] # NoRequest /\ request[c].at # "reserve"
  /\ request' = [request EXCEPT ![c] = NoRequest]
  /\ UNCHANGED <<job, record, batch>>

NewJob(r) == [status |-> "queued", attempt |-> 0, due |-> TRUE,
              print |-> r.print, key |-> r.key]

\* The job row and the stored response become visible together.
StoreResponse(k, j, p) ==
  record' = [l \in Keys |-> IF l = k THEN [print |-> p, job |-> j] ELSE record[l]]

\* Mutant: the response is committed, and the job rolls back.
CommitResponse(c, j) ==
  /\ request[c] # NoRequest /\ request[c].at = "commit"
  /\ job[j] = NoJob
  /\ StoreResponse(request[c].key, j, request[c].print)
  /\ request' = [request EXCEPT ![c] = NoRequest]
  /\ UNCHANGED <<job, batch>>
CommitJob(c, j) ==
  /\ request[c] # NoRequest /\ request[c].at = "commit"
  /\ job[j] = NoJob
  /\ job' = [job EXCEPT ![j] = NewJob(request[c])]
  /\ StoreResponse(request[c].key, j, request[c].print)
  /\ request' = [request EXCEPT ![c] = NoRequest]
  /\ UNCHANGED batch

-----------------------------------------------------------------------------
(* Working *)

Locked(j) == \E w \in Workers : batch[w] # NoBatch /\ j \in DOMAIN batch[w].rows

\* Mutants: claims that do not skip locked rows, or overlook retries.
DueQueued(j) == job[j] # NoJob /\ job[j].status = "queued" /\ job[j].due /\ ~Locked(j)
ClaimLocked(j) == job[j] # NoJob /\ job[j].status \in Active /\ job[j].due
Due(j) == job[j] # NoJob /\ job[j].status \in Active /\ job[j].due /\ ~Locked(j)

\* SELECT ... FOR UPDATE SKIP LOCKED: every due row that nobody holds.
Claim(w) ==
  /\ batch[w] = NoBatch
  /\ \E j \in Jobs : Due(j)
  /\ LET due == {j \in Jobs : Due(j)}
     IN  batch' = [batch EXCEPT ![w] = [todo |-> due, rows |-> [j \in due |-> job[j]]]]
  /\ UNCHANGED <<job, record, request>>

NothingDue(w) == batch[w] = NoBatch /\ ~\E j \in Jobs : Due(j)

\* The row after an attempt.
\* Mutant: the limit is compared with the count before the attempt.
GivenUpLate(row, ok) ==
  IF ok THEN [row EXCEPT !.attempt = row.attempt + 1, !.status = "completed"]
  ELSE IF row.attempt < MaxAttempts
  THEN [row EXCEPT !.attempt = row.attempt + 1, !.status = "retry_scheduled", !.due = FALSE]
  ELSE [row EXCEPT !.attempt = row.attempt + 1, !.status = "dead_letter"]
AfterAttempt(row, ok) ==
  LET tried == [row EXCEPT !.attempt = row.attempt + 1]
  IN  IF ok THEN [tried EXCEPT !.status = "completed"]
      ELSE IF tried.attempt < MaxAttempts
      THEN [tried EXCEPT !.status = "retry_scheduled", !.due = FALSE]
      ELSE [tried EXCEPT !.status = "dead_letter"]

\* One job of the batch: the artifact is built, or building it raises.
Process(w, j, ok) ==
  /\ batch[w] # NoBatch /\ j \in batch[w].todo
  /\ batch' = [batch EXCEPT ![w].todo = @ \ {j},
                            ![w].rows[j] = AfterAttempt(@, ok)]
  /\ UNCHANGED <<job, record, request>>

\* The runner commits the batch.
CommitBatch(w) ==
  /\ batch[w] # NoBatch /\ batch[w].todo = {}
  /\ job' = [j \in Jobs |-> IF j \in DOMAIN batch[w].rows THEN batch[w].rows[j] ELSE job[j]]
  /\ batch' = [batch EXCEPT ![w] = NoBatch]
  /\ UNCHANGED <<record, request>>

\* The worker dies, or the database fails a statement: no attempt is counted.
\* (An error of the database inside an attempt makes the except branch's own
\* flush fail, so it ends here and not in AfterAttempt.)
AbortBatch(w) ==
  /\ batch[w] # NoBatch
  /\ batch' = [batch EXCEPT ![w] = NoBatch]
  /\ UNCHANGED <<job, record, request>>

\* Time passes and next_retry_at of a scheduled retry is reached.
RetryDue(j) ==
  /\ job[j] # NoJob /\ job[j].status = "retry_scheduled" /\ ~job[j].due
  /\ job' = [job EXCEPT ![j].due = TRUE]
  /\ UNCHANGED <<record, request, batch>>

-----------------------------------------------------------------------------
ClientNext ==
  \E c \in Clients :
    \/ \E k \in Keys \cup {NoKey}, p \in Prints : Send(c, k, p)
    \/ Reserve(c) \/ Replay(c) \/ PassGates(c) \/ Refuse(c)
    \/ \E j \in Jobs : CommitJob(c, j)

WorkerNext(w) ==
  \/ Claim(w) \/ CommitBatch(w) \/ AbortBatch(w)
  \/ \E j \in Jobs, ok \in BOOLEAN : Process(w, j, ok)

Next == ClientNext \/ (\E w \in Workers : WorkerNext(w)) \/ (\E j \in Jobs : RetryDue(j))

Spec == Init /\ [][Next]_vars

-----------------------------------------------------------------------------
(* Properties *)

\* However often a request is repeated, and however the repeats overlap, an
\* idempotency key stands for one job (try_reserve, finalize_record).
OneJobPerKey ==
  \A i, j \in Jobs : job[i] # NoJob /\ job[j] # NoJob /\ job[i].key = job[j].key
                     /\ job[i].key # NoKey => i = j

\* What a replay returns is the job the key was used for, with the same request:
\* record and job row were committed together.
ReplaysTellTruth ==
  \A k \in Keys : record[k] # NoRecord =>
    /\ job[record[k].job] # NoJob
    /\ job[record[k].job].key = k
    /\ job[record[k].job].print = record[k].print

\* The jobs are a queue of retried tasks (list_due_jobs, process_queued_jobs):
\* workers whose batches overlap never attempt one row twice, an attempt counts
\* only when it is committed, and a finished job is not touched again.
TaskOf(row) ==
  IF row = NoJob THEN [status |-> "absent", attempts |-> 0]
  ELSE [status |-> CASE row.status = "completed" -> "done"
                     [] row.status = "dead_letter" -> "dead"
                     [] OTHER -> "waiting",
        attempts |-> row.attempt]
Queue == INSTANCE JobQueue WITH Tasks <- Jobs, task <- [j \in Jobs |-> TaskOf(job[j])]
ImplementsQueue == Queue!Spec

\* One export of a project is active at a time: the EXPORT_IN_PROGRESS gate.
OneActiveExport == Cardinality(ActiveJobs) <= 1
=============================================================================
