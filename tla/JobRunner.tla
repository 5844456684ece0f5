------------------------------ MODULE JobRunner ------------------------------
(***************************************************************************)
(* Worker processes that run the background jobs of the backend.  A worker *)
(* repeats a cycle: it takes the lease, runs the SLA and deadline checks,  *)
(* the webhook retries and the export jobs, each in a transaction of its   *)
(* own, and gives the lease back.  The lease is taken for a fixed time and *)
(* is not renewed while the jobs run, so that a slow worker loses it in    *)
(* the middle of its cycle, goes on working, and overlaps with the next.   *)
(***************************************************************************)
EXTENDS Naturals, FiniteSets

CONSTANTS
  Workers, NoOwner,
  Clients, Jobs, Keys, NoKey, Prints,          \* see ExportJobs
  NoJob, NoRecord, NoRequest, NoBatch, MaxAttempts,
  Endpoints, Deliveries, Handlers, NoDelivery, NoEvent \* see WebhookDelivery

VARIABLES
  job, record, request, exporting,      \* ExportJobs; exporting is its batch
  endpoint, delivery, event, retrying,  \* WebhookDelivery; retrying is its batch
  lease,   \* the worker_leases row
  stage,   \* where in its cycle each worker is
  faulty   \* may there be more faults?

exportVars == <<job, record, request, exporting>>
webhookVars == <<endpoint, delivery, event, retrying>>
vars == <<exportVars, webhookVars, lease, stage, faulty>>

Exports == INSTANCE ExportJobs WITH batch <- exporting
Webhooks == INSTANCE WebhookDelivery WITH batch <- retrying

ASSUME ConstantsOK == NoOwner \notin Workers /\ Exports!ConstantsOK /\ Webhooks!ConstantsOK

Stages == {"idle", "webhooks", "exports", "release", "write"}

TypeOK ==
  /\ Exports!TypeOK
  /\ Webhooks!TypeOK
  /\ lease \in [owner : Workers \cup {NoOwner}, live : BOOLEAN]
  /\ stage \in [Workers -> Stages]
  /\ faulty \in BOOLEAN

Init ==
  /\ Exports!Init
  /\ Webhooks!Init
  /\ lease = [owner |-> NoOwner, live |-> FALSE]
  /\ stage = [w \in Workers |-> "idle"]
  /\ faulty = TRUE

Enter(w, s) == stage' = [stage EXCEPT ![w] = s]

-----------------------------------------------------------------------------
(* The cycle *)

\* INSERT ... ON CONFLICT DO UPDATE: the lease is renewed by its owner and
\* taken over when it has expired; otherwise the cycle is skipped.  The SLA and
\* deadline checks come first: they send notices, leave the state of this module
\* alone, and may fail (Fault).
Acquire(w) ==
  /\ stage[w] = "idle"
  /\ lease.owner = w \/ ~lease.live
  /\ lease' = [owner |-> w, live |-> TRUE]
  /\ Enter(w, "webhooks")
  /\ UNCHANGED <<exportVars, webhookVars, faulty>>

RunWebhookRetries(w) ==
  /\ stage[w] = "webhooks"
  /\ \/ (Webhooks!ClaimRetries(w) \/ \E d \in Deliveries, ok \in BOOLEAN : Webhooks!Retry(w, d, ok))
        /\ UNCHANGED stage
     \/ (Webhooks!CommitRetries(w) \/ (Webhooks!NothingDue(w) /\ UNCHANGED webhookVars))
        /\ Enter(w, "exports")
  /\ UNCHANGED <<exportVars, lease, faulty>>

RunExportJobs(w) ==
  /\ stage[w] = "exports"
  /\ \/ (Exports!Claim(w) \/ \E j \in Jobs, ok \in BOOLEAN : Exports!Process(w, j, ok))
        /\ UNCHANGED stage
     \/ (Exports!CommitBatch(w) \/ (Exports!NothingDue(w) /\ UNCHANGED exportVars))
        /\ Enter(w, "release")
  /\ UNCHANGED <<webhookVars, lease, faulty>>

\* release() reads the row, and does nothing if another owner has it by now.
ReadLease(w) ==
  /\ stage[w] = "release"
  /\ Enter(w, IF lease.owner = w THEN "write" ELSE "idle")
  /\ UNCHANGED <<exportVars, webhookVars, lease, faulty>>

\* Its UPDATE does not look at the owner again.
Release(w) ==
  /\ stage[w] = "write"
  /\ lease' = [lease EXCEPT !.live = FALSE]
  /\ Enter(w, "idle")
  /\ UNCHANGED <<exportVars, webhookVars, faulty>>

\* A job raises, which ends the process after the lease is released; or the
\* process dies.  Either way it is started again, and whatever it had not
\* committed is rolled back.
Fault(w) ==
  /\ stage[w] # "idle" /\ faulty
  /\ \/ Enter(w, "idle")
     \/ stage[w] \in {"webhooks", "exports"} /\ Enter(w, "release")
  /\ exporting' = [exporting EXCEPT ![w] = NoBatch]
  /\ retrying' = [retrying EXCEPT ![w] = NoBatch]
  /\ UNCHANGED <<job, record, request, endpoint, delivery, event, lease, faulty>>

-----------------------------------------------------------------------------
(* What goes on beside the workers *)

\* Faults come to an end, however many there were.
Settle ==
  /\ faulty
  /\ faulty' = FALSE
  /\ UNCHANGED <<exportVars, webhookVars, lease, stage>>

\* expires_at is reached, whatever the owner is doing.
Expire ==
  /\ lease.live
  /\ lease' = [lease EXCEPT !.live = FALSE]
  /\ UNCHANGED <<exportVars, webhookVars, stage, faulty>>

RetryDue ==
  /\ \/ (\E j \in Jobs : Exports!RetryDue(j)) /\ UNCHANGED webhookVars
     \/ (\E d \in Deliveries : Webhooks!RetryDue(d)) /\ UNCHANGED exportVars
  /\ UNCHANGED <<lease, stage, faulty>>

RequestExport == Exports!ClientNext /\ UNCHANGED <<webhookVars, lease, stage, faulty>>
UseEndpoints == Webhooks!EndpointNext /\ UNCHANGED <<exportVars, lease, stage, faulty>>
HandleEvent == Webhooks!HandlerNext /\ UNCHANGED <<exportVars, lease, stage, faulty>>

Cycle(w) ==
  Acquire(w) \/ RunWebhookRetries(w) \/ RunExportJobs(w) \/ ReadLease(w) \/ Release(w)

Next ==
  \/ \E w \in Workers : Cycle(w) \/ Fault(w)
  \/ Settle \/ Expire \/ RetryDue \/ RequestExport \/ UseEndpoints \/ HandleEvent

Spec == Init /\ [][Next]_vars

\* Workers run on (asyncio, a supervisor that restarts them) and time passes.
\* Faults come to an end.  Nobody promises that clients do anything.
Fairness ==
  /\ WF_vars(Settle)
  /\ \A w \in Workers : WF_vars(Cycle(w))
  /\ WF_vars(Expire)
  /\ \A j \in Jobs : WF_vars(Exports!RetryDue(j) /\ UNCHANGED <<webhookVars, lease, stage, faulty>>)
  /\ \A d \in Deliveries :
       WF_vars(Webhooks!RetryDue(d) /\ UNCHANGED <<exportVars, lease, stage, faulty>>)

FairSpec == Spec /\ Fairness

-----------------------------------------------------------------------------
(* Properties *)

\* The repeated requests for an export under one key (queue_export_job) make one job
\* and are answered with the truth about it.
RepeatsMakeOneJob == Exports!OneJobPerKey /\ Exports!ReplaysTellTruth

\* The export jobs move as those of JobQueue.
ImplementsQueue == Exports!ImplementsQueue

\* What a worker holds to be retried is there, with its endpoint, as it read it
\* (delete_endpoint, list_due_retry_deliveries).
RetriesMeetRows == Webhooks!RowsHaveEndpoint /\ Webhooks!ClaimsCurrent

\* No attempt of a delivery is lost or counted twice.
AttemptsCountOnce == [][Webhooks!QueueStep]_vars

\* With finitely many faults every export job reaches completed or dead_letter:
\* no lease of a dead worker and no overlap of workers leaves it behind
\* (run_cycle, acquire_or_renew, process_queued_jobs).
JobsEnd ==
  \A j \in Jobs : (job[j] # NoJob) ~> (job[j] # NoJob /\ job[j].status \in {"completed", "dead_letter"})

\* And every delivery is made, given up, or removed with its endpoint, although
\* retries run before the exports in the same cycle (run_all, retry_due_deliveries).
DeliveriesEnd ==
  \A d \in Deliveries : (delivery[d] # NoDelivery)
    ~> (delivery[d] = NoDelivery \/ delivery[d].status \in {"success", "dead_letter"})

\* Both: nothing that is queued is left behind.
WorkEnds == JobsEnd /\ DeliveriesEnd

\* A worker that holds a live lease is the only one in a cycle.
LeaseExcludes ==
  lease.live => \A w \in Workers : stage[w] \in {"webhooks", "exports"} => w = lease.owner
=============================================================================
