----------------------------- MODULE JobRunnerMC -----------------------------
(* A small instance of JobRunner for TLC.                                    *)
EXTENDS JobRunner

\* Export jobs and webhooks meet in the cycle of the workers and nowhere else:
\* the instance looks at behaviours in which one of them has something to do.
NoExports == request = [c \in Clients |-> NoRequest] /\ job = [j \in Jobs |-> NoJob]
NoWebhooks == endpoint = [e \in Endpoints |-> "none"]
              /\ event = [h \in Handlers |-> NoEvent]
OneSide == NoExports \/ (NoWebhooks /\ delivery = [d \in Deliveries |-> NoDelivery])

\* Any two requests, workers and handlers may overlap, but no three.
InFlight == {c \in Clients : request[c] # NoRequest}
Handling == {h \in Handlers : event[h] # NoEvent}
Busy == {w \in Workers : stage[w] # "idle"}
InPairs == Cardinality(InFlight) + Cardinality(Handling) + Cardinality(Busy) <= 2

\* Identifiers come from a sequence.
InOrder == \A i, j \in Jobs : i < j /\ job[j] # NoJob => job[i] # NoJob

MCSpec == Init /\ [][Next /\ OneSide' /\ InPairs' /\ InOrder']_vars /\ Fairness
=============================================================================
