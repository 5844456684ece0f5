--------------------------- MODULE WebhookDelivery ---------------------------
(***************************************************************************)
(* Webhook endpoints of one organization and the deliveries to them.       *)
(*                                                                         *)
(* An event handler, and the test request, are transactions: they list the *)
(* endpoints, then for each one insert a delivery and call the receiver,   *)
(* and commit at the end.  Inserting a delivery locks the endpoint it      *)
(* refers to against deletion.  A worker's batch of retries is another     *)
(* transaction: it claims rows under row locks, calls the receivers, and   *)
(* commits.  A call that went out is not taken back by a rollback, so a    *)
(* receiver may see a delivery more often than the table says.             *)
(***************************************************************************)
EXTENDS Naturals, FiniteSets

CONSTANTS
  Endpoints,    \* identifiers of webhook_endpoints rows
  Deliveries,   \* identifiers of webhook_deliveries rows
  Handlers,     \* event handlers and test requests that may run at once
  Workers,
  NoDelivery, NoEvent, NoBatch,
  MaxAttempts   \* max_attempts of a delivery, len(RETRY_DELAYS_SECONDS)

Row == [endpoint : Endpoints, status : {"failed", "success", "dead_letter"},
        attempt : 0..MaxAttempts, due : BOOLEAN]
Rows == UNION {[S -> Row] : S \in SUBSET Deliveries}
\* todo: the endpoints listed and not yet delivered to.  inline: retry at once.
Event == [todo : SUBSET Endpoints, rows : Rows, inline : BOOLEAN]
Batch == [todo : SUBSET Deliveries, rows : Rows]

\* The values that stand for absence differ from the rows.
ConstantsOK ==
  /\ NoDelivery \notin Row
  /\ NoEvent \notin Event
  /\ NoBatch \notin Batch
  /\ MaxAttempts \in Nat \ {0}

VARIABLES
  endpoint,  \* "none", "active" or "inactive"
  delivery,  \* the committed webhook_deliveries rows, or NoDelivery
  event,     \* the transaction of each handler, or NoEvent
  batch      \* the transaction of each worker, or NoBatch

vars == <<endpoint, delivery, event, batch>>

TypeOK ==
  /\ endpoint \in [Endpoints -> {"none", "active", "inactive"}]
  /\ delivery \in [Deliveries -> Row \cup {NoDelivery}]
  /\ event \in [Handlers -> Event \cup {NoEvent}]
  /\ batch \in [Workers -> Batch \cup {NoBatch}]
  /\ \A w \in Workers : batch[w] # NoBatch => batch[w].todo \subseteq DOMAIN batch[w].rows

Init ==
  /\ endpoint = [e \in Endpoints |-> "none"]
  /\ delivery = [d \in Deliveries |-> NoDelivery]
  /\ event = [h \in Handlers |-> NoEvent]
  /\ batch = [w \in Workers |-> NoBatch]

Empty == [d \in {} |-> NoDelivery]

-----------------------------------------------------------------------------
(* Endpoints *)

CreateEndpoint(e, s) ==
  /\ endpoint[e] = "none" /\ s \in {"active", "inactive"}
  /\ endpoint' = [endpoint EXCEPT ![e] = s]
  /\ UNCHANGED <<delivery, event, batch>>

UpdateEndpoint(e, s) ==
  /\ endpoint[e] # "none" /\ s \in {"active", "inactive"}
  /\ endpoint' = [endpoint EXCEPT ![e] = s]
  /\ UNCHANGED <<delivery, event, batch>>

\* Rows that open transactions have inserted or claimed.
Inserted(h) == IF event[h] = NoEvent THEN Empty ELSE event[h].rows
Claimed(w) == IF batch[w] = NoBatch THEN Empty ELSE batch[w].rows

\* DELETE waits for the transactions that inserted or claimed deliveries of
\* the endpoint, and takes the committed deliveries with it.
InUse(e) ==
  \/ \E h \in Handlers : \E d \in DOMAIN Inserted(h) : Inserted(h)[d].endpoint = e
  \/ \E w \in Workers : \E d \in DOMAIN Claimed(w) : Claimed(w)[d].endpoint = e

\* Mutant: a foreign key that does not cascade and is not checked.
KeepRows(e) == delivery
Cascade(e) ==
  [d \in Deliveries |->
    IF delivery[d] # NoDelivery /\ delivery[d].endpoint = e THEN NoDelivery ELSE delivery[d]]

DeleteEndpoint(e) ==
  /\ endpoint[e] # "none" /\ ~InUse(e)
  /\ endpoint' = [endpoint EXCEPT ![e] = "none"]
  /\ delivery' = Cascade(e)
  /\ UNCHANGED <<event, batch>>

-----------------------------------------------------------------------------
(* Deliveries *)

\* The row after one call.  An address that may not be called, a timeout and
\* a status outside 200..299 all count as a failed attempt.
\* Mutant: the limit is compared with the count before the call.
GivenUpLate(row, ok) ==
  IF ok THEN [row EXCEPT !.attempt = @ + 1, !.status = "success"]
  ELSE IF row.attempt >= MaxAttempts
  THEN [row EXCEPT !.attempt = @ + 1, !.status = "dead_letter"]
  ELSE [row EXCEPT !.attempt = @ + 1, !.status = "failed", !.due = FALSE]
AfterAttempt(row, ok) ==
  LET tried == [row EXCEPT !.attempt = @ + 1]
  IN  IF ok THEN [tried EXCEPT !.status = "success"]
      ELSE IF tried.attempt >= MaxAttempts THEN [tried EXCEPT !.status = "dead_letter"]
      ELSE [tried EXCEPT !.status = "failed", !.due = FALSE]

\* deliver_event lists the active endpoints; trigger_test takes the one asked
\* for, active or not, and retries at once.
BeginEvent(h) ==
  /\ event[h] = NoEvent
  /\ event' = [event EXCEPT ![h] = [todo |-> {e \in Endpoints : endpoint[e] = "active"},
                                    rows |-> Empty, inline |-> FALSE]]
  /\ UNCHANGED <<endpoint, delivery, batch>>

BeginTest(h, e) ==
  /\ event[h] = NoEvent /\ endpoint[e] # "none"
  /\ event' = [event EXCEPT ![h] = [todo |-> {e}, rows |-> Empty, inline |-> TRUE]]
  /\ UNCHANGED <<endpoint, delivery, batch>>

Unused(d) == delivery[d] = NoDelivery /\ \A h \in Handlers : d \notin DOMAIN Inserted(h)

\* Does an inline retry still have to be made before anything else?
Retrying(h) == event[h].inline /\ \E d \in DOMAIN event[h].rows : event[h].rows[d].status = "failed"

\* INSERT and the first call.
Deliver(h, e, d, ok) ==
  /\ event[h] # NoEvent /\ e \in event[h].todo
  /\ endpoint[e] # "none" /\ Unused(d)
  /\ LET new == [endpoint |-> e, status |-> "failed", attempt |-> 0, due |-> FALSE]
     IN  event' = [event EXCEPT ![h].todo = @ \ {e},
                                ![h].rows = [x \in DOMAIN @ \cup {d} |->
                                              IF x = d THEN AfterAttempt(new, ok) ELSE @[x]]]
  /\ UNCHANGED <<endpoint, delivery, batch>>

RetryInline(h, d, ok) ==
  /\ event[h] # NoEvent /\ Retrying(h)
  /\ d \in DOMAIN event[h].rows
  /\ event' = [event EXCEPT ![h].rows[d] = AfterAttempt(@, ok)]
  /\ UNCHANGED <<endpoint, delivery, batch>>

CommitEvent(h) ==
  /\ event[h] # NoEvent /\ event[h].todo = {} /\ ~Retrying(h)
  /\ delivery' = [d \in Deliveries |->
                   IF d \in DOMAIN event[h].rows THEN event[h].rows[d] ELSE delivery[d]]
  /\ event' = [event EXCEPT ![h] = NoEvent]
  /\ UNCHANGED <<endpoint, batch>>

\* The handler rolls back: the process died, or an endpoint it had listed was
\* deleted before the INSERT.  The bus logs it and the event is gone, for the
\* endpoints that have been called and for those that have not.
LoseEvent(h) ==
  /\ event[h] # NoEvent
  /\ event' = [event EXCEPT ![h] = NoEvent]
  /\ UNCHANGED <<endpoint, delivery, batch>>

-----------------------------------------------------------------------------
(* Retries *)

Locked(d) == \E w \in Workers : d \in DOMAIN Claimed(w)

\* Mutants: claims that do not skip locked rows, or skip inactive endpoints.
DueActive(d) == delivery[d] # NoDelivery /\ delivery[d].status = "failed" /\ delivery[d].due
                /\ ~Locked(d) /\ endpoint[delivery[d].endpoint] = "active"
ClaimLocked(d) == delivery[d] # NoDelivery /\ delivery[d].status = "failed" /\ delivery[d].due
Due(d) == delivery[d] # NoDelivery /\ delivery[d].status = "failed" /\ delivery[d].due
          /\ ~Locked(d)

ClaimRetries(w) ==
  /\ batch[w] = NoBatch
  /\ \E d \in Deliveries : Due(d)
  /\ LET due == {d \in Deliveries : Due(d)}
     IN  batch' = [batch EXCEPT ![w] = [todo |-> due, rows |-> [d \in due |-> delivery[d]]]]
  /\ UNCHANGED <<endpoint, delivery, event>>

NothingDue(w) == batch[w] = NoBatch /\ ~\E d \in Deliveries : Due(d)

\* get_endpoint_or_raise finds the endpoint: see RowsHaveEndpoint.
Retry(w, d, ok) ==
  /\ batch[w] # NoBatch /\ d \in batch[w].todo
  /\ endpoint[batch[w].rows[d].endpoint] # "none"
  /\ batch' = [batch EXCEPT ![w].todo = @ \ {d},
                            ![w].rows[d] = AfterAttempt(@, ok)]
  /\ UNCHANGED <<endpoint, delivery, event>>

CommitRetries(w) ==
  /\ batch[w] # NoBatch /\ batch[w].todo = {}
  /\ delivery' = [d \in Deliveries |->
                   IF d \in DOMAIN batch[w].rows THEN batch[w].rows[d] ELSE delivery[d]]
  /\ batch' = [batch EXCEPT ![w] = NoBatch]
  /\ UNCHANGED <<endpoint, event>>

AbortRetries(w) ==
  /\ batch[w] # NoBatch
  /\ batch' = [batch EXCEPT ![w] = NoBatch]
  /\ UNCHANGED <<endpoint, delivery, event>>

\* Time passes and next_retry_at is reached.
RetryDue(d) ==
  /\ delivery[d] # NoDelivery /\ delivery[d].status = "failed" /\ ~delivery[d].due
  /\ delivery' = [delivery EXCEPT ![d].due = TRUE]
  /\ UNCHANGED <<endpoint, event, batch>>

-----------------------------------------------------------------------------
EndpointNext ==
  \E e \in Endpoints :
    \/ \E s \in {"active", "inactive"} : CreateEndpoint(e, s) \/ UpdateEndpoint(e, s)
    \/ DeleteEndpoint(e)

HandlerNext ==
  \E h \in Handlers :
    \/ BeginEvent(h) \/ CommitEvent(h) \/ LoseEvent(h)
    \/ \E e \in Endpoints : BeginTest(h, e)
    \/ \E e \in Endpoints, d \in Deliveries, ok \in BOOLEAN : Deliver(h, e, d, ok)
    \/ \E d \in Deliveries, ok \in BOOLEAN : RetryInline(h, d, ok)

WorkerNext(w) ==
  \/ ClaimRetries(w) \/ CommitRetries(w) \/ AbortRetries(w)
  \/ \E d \in Deliveries, ok \in BOOLEAN : Retry(w, d, ok)

Next ==
  \/ EndpointNext \/ HandlerNext
  \/ \E w \in Workers : WorkerNext(w)
  \/ \E d \in Deliveries : RetryDue(d)

Spec == Init /\ [][Next]_vars

-----------------------------------------------------------------------------
(* Properties *)

\* A delivery never outlives its endpoint, neither in the table nor in the
\* hands of a handler or worker, so that a batch of retries always finds the
\* endpoints it asks for (get_endpoint_or_raise in retry_due_deliveries, the
\* cascade of webhook_deliveries.webhook_endpoint_id).
RowsHaveEndpoint ==
  /\ \A d \in Deliveries : delivery[d] # NoDelivery => endpoint[delivery[d].endpoint] # "none"
  /\ \A h \in Handlers : \A d \in DOMAIN Inserted(h) : endpoint[Inserted(h)[d].endpoint] # "none"
  /\ \A w \in Workers : \A d \in DOMAIN Claimed(w) : endpoint[Claimed(w)[d].endpoint] # "none"

\* What a worker holds is what the table says: nobody changes or removes a
\* claimed row before the batch ends, so its commit overwrites nothing
\* (list_due_retry_deliveries).
ClaimsCurrent ==
  \A w \in Workers : batch[w] # NoBatch =>
    \A d \in batch[w].todo : batch[w].rows[d] = delivery[d]

\* Deliveries are a queue of retried tasks: at most MaxAttempts committed
\* attempts, each counted once although workers overlap, then the dead letter;
\* a delivery that succeeded or was given up is not sent again.
\* Committed together: a delivery appears with its first attempt made, a test
\* with all of them.
Final(row) == row.status # "failed"
QueueStep ==
  \A d \in Deliveries :
    LET old == delivery[d]
        new == delivery'[d]
    IN  old # NoDelivery /\ new # NoDelivery /\ new # old =>
          /\ ~Final(old)
          /\ new.endpoint = old.endpoint
          /\ \/ new = [old EXCEPT !.due = TRUE]
             \/ /\ old.due /\ new.attempt = old.attempt + 1
                /\ new.status = "dead_letter" <=> (new.attempt = MaxAttempts /\ new.status # "success")
AttemptsCountOnce == [][QueueStep]_vars
=============================================================================
