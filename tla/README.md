# ESGvist: a verification of the reporting workflow

ESGvist collects ESG data points, has them reviewed, measures how complete a
reporting project is, and publishes and exports the project. The backend is a
FastAPI application over SQLAlchemy and PostgreSQL (`src/backend/app`). Every
HTTP request is one READ COMMITTED transaction (`db/session.py`): it commits at
the end of the request and rolls back on any exception. Requests of several
users and several server processes run at once, and background workers share
the same tables. Scripts (`src/backend/scripts`) fill the catalogue from
published standards and fill a demonstration tenant from a datasheet.

This directory holds TLA+ modules translated from that code, TLC configurations
that check them on small instances, and TLAPS proofs of the properties that
matter most for instances of any size. `PROJECT.json` maps every definition to
the source lines it stands for, lists the hazards the properties are about, and
names for every property a mutant: a plausible bug that violates it.

## 1. The system and its parts

| Part | State it keeps | Operations | What is hard | What makes it correct |
|---|---|---|---|---|
| Data point workflow (`workflow_service`, `data_point_service`, `review_service`, `domain/workflow_state`) | `data_points`, `data_point_versions` | submit, approve, reject, request revision, rollback, edit, three batch decisions | gates read rows without a lock; the UPDATE carries only changed columns; batches bypass the gates and the history | statuses move along the table; versions count 1, 2, ...; the history tells the state; decisions carry a comment |
| Pages of a point (`review_service`, `data_point_service`, `merge_service`, `dashboard_service`, `impact_service`, `comment_service`) | none but comments | queue, lists, merged matrix, deadlines, preview, comments | each page derives access, boundary and standards by itself | what is listed can be opened; the pages agree; the preview is kept |
| Completeness (`completeness_service`) | item and disclosure statuses, bindings | bind, recalculate, aggregate | write skew on shared items; two lock orders; staleness | stored statuses are what the points amount to |
| Evidence (`evidence_service`, `evidence_policy`, `core/access`) | evidences, links, bindings, stored files | create, upload, link, unlink, bind, delete | access judged in SQL and in Python; unlinking during review; deletion next to approvals and bindings | both judgements agree; a binding fits its context; a deletion takes nothing from points that were approved with it when it asked |
| Project lifecycle (`project_service`, `workflows/gates`) | `reporting_projects`, standards | create, add standard, start, review, publish, roll back | gates evaluated on rows read earlier | a published project is settled and locked to a snapshot |
| Assignments (`project_service`) | `metric_assignments` | launch, create, edit, bulk edit, auto-assign, plan | requests overlap and no constraint keeps duplicates apart | one assignment per metric and place, distinct duties, as planned |
| Boundaries and snapshots (`boundary_service`, `snapshots`, `entity_service`) | definitions, memberships, snapshots | apply, replace, recalculate, set default, snapshot | a change for one project reaches the others | no entity of a locked snapshot leaves the boundary |
| Export jobs (`export_service`, `idempotency_repo`) | `export_jobs`, `idempotency_records` | queue, claim, complete, retry, dead-letter | idempotency races; crash in mid-batch | one job per key; every job ends after bounded attempts |
| Webhook delivery (`webhook_service`) | endpoints, deliveries | deliver, test, retry, dead-letter, delete endpoint | crash after the call and before the commit | every attempt counts once; every delivery ends |
| Job runner and lease (`job_runner`, `worker_lease_repo`) | `worker_leases` | acquire, release, run the jobs | a lease expires under a running job | overlap of workers does no harm |
| Events, notices, digest (`events`, `notification_service`, `digest_worker`) | notifications, preferences | publish, handle, mail, digest, read | handlers commit before the request does; the pool is bounded; unread notices silence later ones | committed changes are told, in order, unless a handler failed or an equal notice is unread |
| SLA escalation (`sla_service`, `assignment_sla`) | none: days and notices | daily checks, edits of deadlines | thresholds that cross | each level is told to all it concerns |
| Sessions, second factor (`auth_service`, `sso_service`) | refresh tokens, secrets, backup codes | log in, refresh, log out, revoke, change password; set up, enable, disable | overlapping refreshes; codes replaced before the secret is confirmed | revoked sessions stay revoked; a code works once, as long as logins do not overlap |
| Membership (`invitation_service`, `organization_user_service`, `user_role_service`, `platform_service`) | invitations, role bindings | invite, resend, accept, decline, cancel, give and take roles | accept, decline and cancel read and write apart; three services remove admins | an admin remains; an invitation nobody contests counts once, and exactly when it is accepted |
| Support sessions (`platform_service`) | `support_sessions` | start, end, switch, act | two starts at once | an admin acts in one tenant at most |
| AI assistant (`ai_service`, `ai_gate`) | in-process windows | ask, explain, suggest | windows pruned at one end and compared at the other | the limits hold |
| Ownership (`entity_service`, `entity_tree_service`) | `ownership_links` | create a link, effective shares | overlapping creations; chains | shares stay within 100 %; effective shares follow the chains |
| Datasheets and forms (`custom_datasheet_service`, `form_config_service`) | items, configurations | add, archive, take back, move; generate, activate | copies of assignments grow stale | items and forms meet assignments; health tells the truth |
| Mappings (`mapping_service`) | `requirement_item_mappings` | create a version | a wait on a lock that is retired meanwhile | one current version |
| Catalogue and documents (`src/backend/scripts/import_*`, `split_gri*`) | standards, disclosures, items, elements, mappings | import GRI, GRI 2/3, sector standards, ESRS, SASB, regulations; split; edit | editions over editions; documents read line by line | the catalogue is the newest edition; documents mean what they say |
| Datasheet tenant (`import_bp_esg_datasheet_xlsx`, `seed_bp_proxy_framework_examples`, `apply_bp_proxy_collection_status_mix`) | points, bindings, versions of one tenant | import, examples, mix | repeated, in any order, after users worked | a repeated script finds its own rows |

How the parts meet. A status change of a point recalculates the items bound to
it in the same transaction, and hands events to the in-process bus before it
commits. Boundary changes recalculate items and delete snapshots of every
project that uses the boundary. The gates of a project read counts of points
and item statuses, and the snapshot. Exports read the same gates and are
carried out by a worker that holds the lease, after the SLA checks and the
webhook retries of the same cycle. Imports change what projects collect.

The frontend (`src/frontend`) renders these services and keeps no state they
rely on.

## 2. Plan and where it stands

1. Data point workflow with completeness and evidence links. *Done, proved.*
2. Project lifecycle with boundaries and snapshots. *Done, proved; creation of
   boundaries and the columns of a membership are left.*
3. Background work: export jobs, webhooks, the runner and its lease, under
   faults and with liveness; `JobQueue` as abstract promise. *Done; its safety is
   proved.*
4. Events, notices, digests, escalation. *Done, proved.*
5. Sessions, second factor, membership, support sessions, limits of the
   assistant. *Done, proved.*
6. Ownership, datasheets and forms, mapping versions, progress. *Done,
   proved.*
7. Catalogue, readers of documents, datasheet tenant. *Done; proved but for the
   readers of standards.*
8. Assignments, evidence and its access, the pages of a point. *Done, proved.*
9. Left, in this order: calculation rules and outliers (`calculation_service`,
   `impact_service`), the deltas between standards, moves in the entity tree and
   control links, registration and login settings.

## 3. Modules

| Module | What it is |
|---|---|
| `WorkflowState` | The transition table, role sets and predicates of `domain/workflow_state.py`. No state. |
| `PointLifecycle` | Abstract: statuses move along the table, one commit at a time, and values change only where editing is allowed. |
| `DataPointWorkflow` | The requests that read and write data points, statement by statement. |
| `ReportingPeriod` | Abstract: the life of a project and what publication freezes. |
| `ProjectLifecycle` | The requests that read and write projects, boundaries, snapshots and item statuses, gates and commit apart. |
| `JobQueue` | Abstract: tasks attempted a bounded number of times, each attempt counted once, ended for good. |
| `ExportJobs`, `WebhookDelivery` | Queueing, claiming, attempting and retrying, as overlapping transactions. |
| `JobRunner` | The two above in the cycle of workers with a lease, crashes and lost commits. |
| `OwnershipGraph` | `create_ownership` as overlapping transactions: lock, sum, walk, insert. |
| `EffectiveOwnership` | The depth-first search for effective shares against the sum over all chains. |
| `CollectionSetup` | Assignments, datasheet items, form configurations. |
| `MappingVersions` | Overlapping creations of a mapping version, with EvalPlanQual after a wait. |
| `ProgressViews` | Item and disclosure rows, the places that tell progress, and the answer the dashboard keeps. |
| `Notices`, `AssignmentSla` | Notices, mail and digests; escalation day by day. |
| `Sessions`, `TwoFactor`, `Membership`, `SupportSessions`, `AiGates` | Who acts, as whom, where, and how often. |
| `Identity` | `Membership` next to the four others of its row. |
| `Collection` | `OwnershipGraph` next to the six others from `EffectiveOwnership` to `AssignmentSla`. |
| `EvidenceLinks` | Access to evidence, creation, uploads, links, bindings, deletion. |
| `Catalogue` | The catalogue under imports, the split and edits. |
| `StandardDocuments`, `IndustryDocuments`, `DatasheetWorkbook` | A writer of documents next to the parsers that read them. |
| `ProxyData` | Three repeatable scripts and the users between them. |
| `AssignmentPlanning` | Launch, creation, edits, bulk edits and auto-assignment, and the pages that plan them. |
| `PointPages` | One point on its pages, comments, the preview of another boundary. |
| `EventFanout` | Events inside requests, handlers on second connections, a bounded pool. |
| `Reporting` | `PointPages` next to `EvidenceLinks`, `Catalogue`, `ProxyData`, `AssignmentPlanning`, `EventFanout`. |
| `DataPointWorkflowMC`, `ProjectLifecycleMC`, `JobRunnerMC`, `CollectionMC`, `ReportingMC` | Small instances for TLC; `Identity` is instantiated by its cfg alone. |
| `*_proofs` | Theorems, section 5. |

`DataPointWorkflow`, `ProjectLifecycle` and `JobRunner` are compositions of
components that interact through tables. `Collection`, `Identity` and `Reporting`,
to which `ReportingMC` adds the readers of documents, put modules side by side that
share no state: in every behaviour
one part moves and the others stand still, so that the state space is the sum
of the parts and not their product, and each property is looked at where its
part moves.

### DataPointWorkflow

| Variable | Code |
|---|---|
| `point` | committed `data_points` rows: status, value, review comment |
| `history` | `data_point_versions` of a point, summarised: number of rows, `max(version)`, what the newest row recorded |
| `dirty`, `owner` | the uncommitted UPDATE of a row and the transaction that holds its row lock |
| `item`, `dirtyItem`, `itemOwner` | the same for `requirement_item_statuses` |
| `evidence` | does a point have an evidence link |
| `reviewer` | does an assignment that matches the point name a reviewer |
| `published` | is the project published |
| `req` | a request: its next statement, what it loaded, the version rows it inserted, the items left to recompute |

`Begin` is the load and the gates of a single-point request; `Write` is its
UPDATE, which waits for the row lock, and the version rows that follow;
`ComputeItem` and `PutItem` are the SELECT and the upsert of
`calculate_item_status` for each bound item; `Commit` makes everything visible
and releases the locks, `Abort` rolls back. Two things of SQLAlchemy decide the
outcome of overlaps and are modelled: an UPDATE writes only the columns that
differ from the ones loaded (`Merge`), and an object already loaded is not
refreshed by a later SELECT (`seen` in the completeness request). A row lock is
taken by the first UPDATE; `create_data_point_version` takes it with SELECT ...
FOR UPDATE when no column changed. `BreakDeadlock` is PostgreSQL's deadlock
detection, external to `src/`.

Abstractions: a value is a model value; a comment is given or not; one project;
every point lies inside the boundary; whether a value has the type the point's
first item expects (`InvalidValueTypeGate`) is a set of pairs, `Misfits`; a request
that a gate blocks leaves no trace and is not a step; warnings, audit rows and events change nothing here.

### ProjectLifecycle

| Variable | Code |
|---|---|
| `project` | `reporting_projects`: status, boundary |
| `snapshot` | `boundary_snapshots` of each project: boundary and entities |
| `member`, `default`, `known` | `boundary_memberships` that are included, the default boundary, the entities of the company |
| `attached` | `reporting_project_standards` |
| `data`, `bound`, `stored` | the data point of each required item, its binding, the stored item status (`"none"`: no row) |
| `req` | a lifecycle or boundary request between its gates and its commit |

`BeginLifecycle`, `BeginApply`, `BeginSnapshot`, `BeginMembers` and
`BeginRecalculate` load rows and pass the gates; `Advance`, `ApplyBoundary`,
`SaveSnapshot`, `ReplaceMemberships` and `RecalculateMemberships` write and
commit. Writes and commit are one step: row locks make a later writer wait for
the commit, and readers see the old rows until then. Requests about points,
standards and entities are one step; how they overlap with each other is
`DataPointWorkflow`'s subject. `completion_percent` is modelled with its
rounding to one decimal (`Reaches`) and with its denominator, the item rows that
exist.

Abstractions: one required item for each standard and at most one data point
for it; inclusion source, consolidation method and boundary type are left out;
boundaries exist from the start; warnings change nothing.

### Background work

| Variable | Code |
|---|---|
| `job`, `record` | committed `export_jobs` and `idempotency_records` |
| `request` | a queueing request: key reserved, gates passed, response stored |
| `exporting`, `retrying` | a worker's open transaction: claimed rows and what it has made of them |
| `endpoint`, `delivery`, `event` | endpoints, committed deliveries, handlers in flight |
| `lease`, `stage` | the `worker_leases` row and where each worker is in `run_cycle` |
| `faulty` | may there be more faults (crashes, lost commits)? `Settle` ends them |

`Acquire`, `RunWebhookRetries`, `RunExportJobs`, `ReadLease` and `Release` are
the statements of a cycle; `Expire` takes the lease away at any moment, in the
middle of the jobs too; `Fault` is a crash or an exception, which rolls a batch
back but does not take back a call that went out. Contents of artifacts and
payloads are left out.

### Collection

`OwnershipGraph` follows `create_ownership`: `links` and `owned` are the table
and its sums, `request` holds what a creation has locked (child `FOR UPDATE`,
`FOR KEY SHARE` through the foreign keys) and where its walk is.
`EffectiveOwnership` builds graphs by calls that succeed one after the other and
compares the search with the sum over all chains. `CollectionSetup` keeps
`assignment`, `item`, `form` as rows in the order of their ids, with the
boundary. `MappingVersions` keeps `versions` and, in `request`, what a creation
found and waits for. `ProgressViews` keeps points, bindings, items that exist and
those that are `retired`, `itemRow`, `disclosed`, and what the dashboard has
`cached`; its pages are operators without state. `Notices` keeps `notice`
rows per event and user, the handler of each event, the digest, and as history
how often mail went out; `AssignmentSla` keeps a day, the columns of one
assignment, its points, and as history what each person was told.

### Identity

`Sessions`: `session` rows with, as history, the login they come from and the
password it was proven with; `request` is what a login or a refresh has read.
`TwoFactor`: the columns of the account; a code is a secret with an index.
`Membership`: `role` per user (the table has one row per user and scope),
`invitation`, and in `handling` the operations that have read a pending
invitation and not written it yet: accept, decline, cancel and resend read without
a lock and write by key, so the last one prevails. `joined` counts how often an
invitation made somebody a member, `contested` those that two operations settled
at once. `SupportSessions`: rows and
requests, each in READ COMMITTED, with the unique index that backs them.
`AiGates`: the dictionaries of one process, time in ticks.

### Reporting

`EvidenceLinks`: tables as sets of pairs; access is stated once as the SQL does
and once as `core/access` does; uploads, bindings and deletions are two steps each,
a check or a stored file and then the rows. `Catalogue`: rows of five tables; one action per
importer, per failure of a document, the split, and per edit of an admin.
`StandardDocuments`, `IndustryDocuments`: a writer appends lines and keeps their
meaning in `truth`; the parser is a function of the lines (a line is the class
its regular expressions give it). `DatasheetWorkbook`: rows of a sheet. `ProxyData`: the
tables of one tenant as one record and each script as the set of tables it may
leave, one for each choice the code leaves to the order of rows.
`AssignmentPlanning`: rows, and a request that has computed its writes from what
it read and commits them after others did. `PointPages`: tables, one action per
request that changes them, and each page as an operator that derives access,
boundary and standards the way its service does. `EventFanout`: requests that
change rows and publish, the bus that calls handlers on connections of its own,
a pool of `PoolSize`, and the notices that are `unread`, which a handler looks at
when its transaction begins. Preferences are constants here; they change in
`Notices`.

## 4. Runs

| Run | Instance | What it shows |
|---|---|---|
| `workflow_serial` | 1 point, 2 items (one needs evidence), 1 slot, every operation | `ImplementsLifecycle`: commits implement `PointLifecycle`; `HistoryTellsState`: the newest version row tells value and status, up to a batch decision, which writes none; `DecisionExplained`: rejected points and points under revision carry a comment; `ItemsFresh`: a status change leaves no item staler than it found it, and a completeness request repairs a stale one |
| `workflow_overlap` | 2 points, 2 items, 2 slots, single, batch and completeness requests, items listed against the order of ids | `TypeOK`; `VersionsContiguous`: version numbers stay without gap under overlap; `RequestsEnd`: every request ends although points and items are locked in opposite orders |
| `project_serial` | 2 projects on 1 boundary, 1 standard, 1 slot, every operation | `PublishedHasSnapshot`, `SnapshotCovered`, `PublishedSettled`: a published project keeps boundary, snapshot and settled points until rollback; `ImplementsPeriod`: the lifecycle implements `ReportingPeriod` |
| `background` | 2 workers, 2 clients with 1 key, 2 jobs, 1 endpoint, 1 delivery, 2 attempts | `RepeatsMakeOneJob`, `RetriesMeetRows`, `ImplementsQueue` (refinement of `JobQueue`), `AttemptsCountOnce`; `WorkEnds`: after the last fault every job and delivery ends |
| `collection` | 3 entities, 2 creations; 3 entities for effective shares; 2 assignments, items, forms; 3 creations of a mapping; 3 items on 2 standards; 2 events; 12 days | `Within100`, `NoMutualOwnership`, `EffectiveFollowsChains`, `SetupMeetsAssignments`, `OneCurrentVersion`, `ViewsAgree` (dashboard and list of standards agree always and the merge view counts retired items besides; the answer the dashboard keeps is the one it would compute, with the exceptions of section 6; all agree with the points once the completeness page was shown), `PeopleAreTold` (notices and digests are accounted for; escalation tells each level) |
| `identity` | 2 users, 2 requests, 2 invitations; 4 sessions, 2 passwords; 3 secrets of 2 codes; 2 admins, 2 tenants; 2 calls | `OnlyOverlapsEscape`, `CodesOfTheSecretOnce`, `AdminRemains`, `AcceptedOnce`, `SupportPinned`, `WithinLimits` |
| `reporting` | 1 evidence, 2 points; 9 editions, 2 runs, 1 edit; documents of up to 8 lines; sheets of 4 rows; 2 workbooks, 3 metrics, 2 edits; 2 assignments, 2 commits; 2 requests, 3 connections; 3 points, 3 assignments, 3 boundaries, 3 requests | `PagesHold`: evidence access, its context, and the pages of a point agree; `DocumentsAreRead`: parsers find what writers meant; `ScriptsRepeat`; `EventsReachAll`; `CatalogueFollows`: an import leaves the catalogue its document describes, the split covers every item; `AssignmentsPlanned`: planning pages count the same rows, plans are carried out as previewed, what overlaps spoil is spoilt by overlaps only, and a change of boundary does what its preview said |
| `finding_overwrite` | 1 point, 2 slots | a status is overwritten by a move that is not in the table |
| `finding_stuck_submitted` | 1 point, 1 slot | a reviewer assigned after submit leaves the point in `submitted` |
| `finding_batch_evidence` | 1 point, 1 item, 1 slot | batch approval does not look at evidence unlinked during review |
| `finding_publish_incomplete` | 1 project, 2 standards, 1 slot | a standard attached after the last calculation is not counted, and the project is published with that item missing |
| `finding_publish_race` | 1 project, 2 boundaries, 2 slots | a boundary applied between the gates of publish and its commit leaves a published project without a snapshot |

Bounds. Two overlapping requests are enough for each race and each lock cycle
here: the hazards are pairs of a reader and a writer, or two lock orders;
mapping versions have three, because a request that waits must meet one that
committed and one that came after. Two points, items or projects are enough to
tell "this one" from "the others". `MaxVersions` bounds the version rows of a
point (one that has that many starts nothing new; requests under way finish),
enough for a submit, a decision and a resubmission. `MaxAttempts` is two, so that
an attempt that is not the last and one that is both happen. `JobRunnerMC` lets
any two of clients, handlers and busy workers overlap and lets only one side,
exports or webhooks, have something to do: they meet in the cycle and nowhere
else. `MaxRuns` and `MaxEdits` of the scripts let an edition be imported over
another with edits between; `MaxLines` lets a document have two sections with
clauses and wrapped text; `LastDay` passes both thresholds of the longest
window. With `Apart` of `Collection` items are retired, and answers of the dashboard
outdated, only in projects without a boundary, and no answer is kept once items
are retired: a bound for TLC alone, the proofs do without it.
`MaxFailures` lets one handler fail, for a pool of any size. `MaxCommits` and `MaxRows` let a request be overtaken and be planned
again. A bound cuts behaviours short and changes nothing else. Runs that check safety of single requests use one slot on
purpose: with two, the properties fail, which is what the `finding_` runs show,
and the properties name the condition in their comments. `identity` uses
symmetry of requests and of the users other than the founder; it checks no
liveness.

Deadlock is checked except where a bound or an answered request really ends the
behaviour: `collection`, `identity` and `reporting` (a part whose counts are
used up, or whose document is written, stops).

Every property has at least one mutant, and TLC finds the property violated
then: a version row built before the change, an item left out, a lock kept, a
membership written without its entity, rows claimed without looking whether they
are due or locked, a retry that is given up an attempt late, a foreign key that
does not wait, a setup of a second factor while one is on, an index left out,
rows of a former edition kept, a boundary judged by the entity of a point instead of its
facility, a preview of removals by entity, and so on. Properties that join the
claims of several modules have several.

Fairness. `DataPointWorkflow!FairSpec` assumes strong fairness of each
transaction's next statement and nothing of clients. The server runs every
coroutine whose statement has been answered, and PostgreSQL grants a row lock to
its waiters in the order they queued. `RequestsEnd` also needs the database to
break cycles of waits, which it does by aborting one of the requests.
`JobRunner!Fairness` assumes that workers run (a supervisor restarts them), that
time passes (retries fall due, leases expire) and that faults come to an end;
clients and receivers promise nothing.

## 5. Proofs

Assumptions: `ConstantsOK` of a module where it has one (sentinels are not
members of the sets they stand beside, items are a finite set of numbers, the
root is an entity, the founder is a user), numeric constants are natural
numbers, and, where a theorem says so, `Serial`: at most one request slot.

* `DataPointWorkflow_proofs!TypeCorrect`: the types, and that a locked row has
  an uncommitted write, for any number of points, items and overlapping
  requests.
* `DataPointWorkflow_proofs!ContiguousVersions`: `max(version)` of every point
  is the number of its version rows, for any overlap. The property is not
  inductive: between the INSERT and the commit the number of a new row lives in
  the request. The strengthening says that a request with version rows still to
  commit owns the row lock of its point and numbered the rows from the top the
  point still has; so at most one request has any.
* `DataPointWorkflow_proofs!LifecycleImplemented`, `DecisionsExplained` and
  `HistoryTruthful`: with one request at a time the service implements
  `PointLifecycle`, decisions carry comments and history tells the state. The
  invariant says of every stage of a request what its gates established: the
  row it loaded is still the committed row, and the dirty row is what the
  operation makes of it.
* `DataPointWorkflow_proofs!ItemsStayFresh`: with one request at a time, the
  recalculation leaves no item stale. `ItemStage` says how far a request has come:
  items behind it are as the rows it sees amount to, those before it and those
  outside its `Scope` are untouched; that a point is bound to none of the latter
  is where `BoundItems` matters.
* `ProjectLifecycle_proofs!TypeCorrect`: types and references, for any overlap;
  a request that will write memberships names entities that exist.
* `ProjectLifecycle_proofs!PublishedLocked`, `ReviewsSettled`,
  `SnapshotStaysCovered`, `PeriodImplemented`: with one request at a time, for
  any number of projects, boundaries, entities and standards. The invariant is
  the conjunction of the three promises, the types, and `GatesHold`: what the
  gates of the request under way saw still holds. Without `GatesHold` the commit of
  a publication would not be known to find the snapshot; without
  `PublishedSettled` a batch decision could touch a published project.
* `ProjectLifecycle_proofs!GateExact`: the rounding of the percentage lets
  nothing incomplete through below 2000 counted items.
* `Collection_proofs!SharesBounded`, `NeverMutual`: for any number of
  entities and overlapping creations. The lock of the child has one holder and
  nobody links from the child meanwhile (`Exclusive`); so the checked sum still
  fits and what the walk knows of the child's links stays true (`Checked`).
* `JobRunner_proofs!TypesKeep`, `OneJobForRepeats`, `RetriesFindRows`,
  `ExportsAreAQueue`, `DeliveriesCountOnce`: for any number of workers, clients,
  jobs, keys and deliveries, any `MaxAttempts`, and any crashes, lost commits and
  expiries of the lease. The invariant says of records and jobs that a key is held
  once and a record names the job of its own key; of an open batch that the rows
  it claimed were due and are in no other batch, and that what it has made of a
  row is that row or one attempt further; of a handler that the rows it will insert
  are fresh and its own. `ExportsAreAQueue` maps every step of workers and clients to a
  step of `JobQueue` or a stutter: the commit of a batch is as many
  attempts as it holds rows, taken one after the other, which is why `JobQueue`
  moves any number of tasks at once.
* `Identity_proofs!AdminsRemain`, `InvitationsCount`, `RevocationsHold`, `CodesOnce`,
  `SupportStaysPinned`, `LimitsHold`, `TypesHold`: of the composition `Identity`, for any number of users,
  requests, sessions, secrets, tenants and questions, and any limits and windows
  (`ConstantsFit`: the bounds, limits and windows are natural numbers, a minute is
  no longer than an hour, the founder is a user, `NoRole` and `NoQuestion` are
  none). A step of one part leaves the
  variables of the others alone, so each part has its own invariant. Memberships: of
  two operations in flight that settle one invitation both have contested it (`Contests`),
  so one that is settled without contest was pending until then.
  Sessions: the
  token a request is about to insert is fresh and no other request has it
  (`RootsTaken`, `TokensTaken`), and what was closed has a date before which
  its request began (`ClosedTaken`). Second factor: every code in use or used
  belongs to a secret that was handed out, and codes of a pending secret are
  its own (`HandedOut`, `PendingsOwn`). Support: the unique index makes a start
  that has inserted its row the only one of its admin (`InsertedAlone`), and
  requests work on the tenant of the session they hold (`Held`). The assistant:
  pruning may drop what is older than a window but nothing inside it, which is
  said by an injection from the admitted calls of a window into the entries of
  its bucket (`Buckets`), and a ban has admitted nothing since it began
  (`BanRuns`).
* `EffectiveOwnership_proofs!ChainsCorrect`, `Collection_proofs!SharesFollowChains`:
  the depth-first search of `calculate_effective_ownership` finds for every entity the
  sum over the chains from the root, and no chain is lost or counted twice, for any
  finite set of entities and any unit of shares. The invariant (`ChainsInv`): no
  circle of links, and nobody owned beyond the whole. That there is no circle is
  inductive because what the walk of `create_ownership` sees is closed under
  links (`OwnsClosed`), so a link it allows leads nowhere back. Without circles the
  visited set of the search cuts nothing off, and the search becomes a function of an entity
  and of the steps that are left (`FoundOnward`); `LinkMoves` moves one link at a time from
  behind an entity to before it, which turns the search from the root into the sum
  over chains. The two sides are recursive functions: the module shows that
  they exist by iterating their steps (`Recursion`) and does its inductions over
  numbers and finite sets with membership in a set as the hypothesis (`Induct`), since
  the library's theorems of induction take an operator. `Collection_proofs` cites it
  through `INSTANCE ... WITH`.
* `Collection_proofs!TypesHold`, `SetupHolds`, `VersionsCurrent`, `ViewsHold`,
  `PeopleHear`: of the composition `Collection`, for any number of entities,
  metrics, rows, requests, points, notices and days, and any deadlines and windows
  (`ConstantsFit`: entities and items are finite sets, the bounds and days are
  natural numbers, rows refer to what exists). Again each part has its invariant.
  Effective
  shares: `ChainsInv`, see above. Setup: each field of a generated form was drawn
  from an assignment that is still there, or stands alone for a metric that had
  none (`GeneratedAreDrawn`); assignments are only added, so the health compares
  the fields with what generation would draw today. Mapping versions: what a
  request found stays current while it holds the lock (`FoundCurrent`,
  `LocksExclusive`), and one that has inserted is alone (`WrittenUnique`). Views:
  rows are total functions of finite sets of items, so the three ways in which the
  pages count them give the same numbers (`PagesCount`, true of every stored row),
  and the completeness page recalculates every item before it aggregates a
  disclosure (`Shown`); a step either drops the answer the dashboard keeps, or changes
  nothing it is computed from, or is one of the three that leave it outdated
  (`AnswerFollows`). Notices: what is still to be told has neither row nor mail
  (`TellingOnce`), a row tells how often its notice went out up to the digests that
  were lost (`RowsCounted`, `DigestHonest`), and of two notices of one matter on
  their way one saw the other (`SeenBeside`). Escalation: who has heard by the last
  check is who the days passed so far require, and for that reason only
  (`HeardInTime`, `HeardForReason`, `RemindersSent`).

* `Reporting_proofs!EventsReach`, `PagesKeep`, `PreviewKeeps`: of the composition
  `Reporting`, for any number of requests, rows, connections, users, points,
  assignments, boundaries, mappings and comments (`EventsFit`, `PagesFit`: requests
  and assignments are finite sets, a job names no row twice, points and
  assignments refer to projects and entities that exist, ids differ, a boundary says
  of every entity what it is in it). Events: of a row that a request has changed every call has
  been made, has failed or is still among its calls (`ToldOk`); two open requests
  have written different rows (`Apart`), so a request that tells of a row after
  another does so when the other has ended, and commits after it (`Waited`,
  `CommitsOk`); this is said of changes that write their row, as those that only
  publish wait for nobody. Whoever was spared because a notice was unread had been told
  of the kind and row before. Evidence: a binding was made by a request that
  found its item among the standards of the project, and what a project reports is
  never withdrawn; links and bindings are of evidence that is there, as a deletion takes
  them along and a binding that comes after it is refused. Pages: most agreements hold in any tables, as two ways to ask one
  question have the same answers; they rest on three facts the requests keep: a
  point has one dimension of a kind, a snapshot is of the boundary that holds, a
  reply stands on the point and item of its parent (`PagesInv`). That the queue and
  the dashboard mean the same deadline needs that one assignment goes before all
  others (`PickIsOne`).
* `Reporting_proofs!ScriptsAreRepeatable`, `ProxyTypes`: of the scripts of the proxy
  tenant, for any workbooks, years, people, examples and edits (`ProxyFit`: the
  year being collected is one of the years, a workbook has one metric of a code, as
  the reader adds row numbers to codes that occur twice, no metric is both set back and
  in progress, and what is in progress is not approved). The invariant (`ProxyInv`)
  says that of a key there are at most two points with ids of their own, that bindings and
  links are of points that are there, and that an assignment still to be begun is of a metric
  that was set back. Of one key an import does one of three things (`ImportAt`), so a
  second import finds every key as it leaves it (`PointsAgain`); the mix is one
  function over the points it does not delete (`MixOf`), what it sets back it
  takes again (`TakenAgain`), and so all twelve tables stand (`MixAgain`).
* `Reporting_proofs!StaffingAsPlanned`: of a project's staffing, for any catalogue,
  companies, teams and overlapping requests (`PlanningFit`: requirements and
  rows are finite, nobody is no person, a team gives each duty a person or nobody).
  A request computes its change when it reads and writes it when it commits; the
  invariant (`PlanInv`) says that the change of a request nobody has overtaken is
  still one computed from the rows as they are (`SitsWell`, `Fills`), and that what a
  launch aims at is assigned or about to be (`Aims`), overtaken or not, because rows
  only get more and keep metric and place (`WriteKeeps`, `AimsStay`). The counts of
  launch page, preview, summary and matrix agree in any rows without doubled duties
  (`PreviewCounts`, `ListsCount`, `TeamCounts`). The proof found the first wording of
  `Settled` wrong: it primed the request along with the rows, and so asked about the aim
  of the idle request that follows a commit.
* `Reporting_proofs!ImportsFollowed`, `ServiceTypes`: of the catalogue, for any
  editions, item codes, runs and edits (`CatalogueFit`: an edition has finitely many
  disclosures and names each once, as the readers key them by their codes; there are
  finitely many item codes and at least one version). The invariant (`CatalogueInv`)
  says that items are known by standard, disclosure, code and copy, that no copy
  exceeds the number of rows of its code (`EntriesOk`; so the row `NextCopy` adds is new,
  `NewIsNew`), and that a current item which was ever mapped to an element still is
  (`LinksOk`: a mapping is retired with its item or for its next version). Without the
  latter the split, which skips a mapping whose version the leaf has or had, would not
  be known to leave the leaf mapped. What a document and the split make of the items is
  stated once as a set (`ItemsAre`, `SplitItems`) and shown to rewrite rows in their
  place or add new ones (`Rewriting`). The proof showed that the split was modelled too
  narrowly: with two current rows of one code and different texts it could not happen,
  where the code rewrites one row of the leaf twice; now it does (`Twins`).
  `ServiceTypes` joins the invariants of all parts.
* `DatasheetWorkbook_proofs!DatasheetsAreRead`: of `parse_workbook`, for a sheet of any
  number of rows with any labels, indents, units and cells (`RowsOK`: rows without a
  label are skipped by `load_sheet_rows`; TLC evaluates it on the rows of
  `ReportingMC`). The reader is a recursive function of the number of rows, and what it
  has made of the first n is described by induction over n (`Reads`): the parent it
  would look up for a row with a given indent is the nearest row above that is
  indented less, back to the last heading without indent (`ParentsOK`), although what
  it keeps is one label per indent, forgotten as indents shrink; and the rows with
  values, and no others, are metrics, each once, with its path and its key (`MetricsOK`).

Only model-checked: `RequestsEnd` and `WorkEnds` (liveness under fairness is
beyond the prover), and of `DocumentsAreRead` the readers of GRI and sector
standards, ESRS workbooks and SASB standards: what they have read at a line is
described by the whole of a grammar of documents, and the nesting of clauses is found by
recursive operators. `SubmittedMovesOn`, `StatusFollowsTable`, `ApprovalHasEvidence`
and `PublishedComplete` are refuted by their runs, and so is
`PublishedHasSnapshot` for two requests that overlap.

## 6. Where the code and its documents disagree, and what the models showed

With a run, each on a definition of its own: overlapping decisions overwrite
each other (`TZ-ESGvist-v1.md:497-507`); a submitted point is not picked up
when a reviewer is assigned (`review_gate.py:75`, `TZ-ESGvist-v1.md:501`);
batch approval runs no evidence gate (`evidence_gate.py:5`); uncalculated items
are not counted at publication (`TZ-WorkflowGateMatrix.md:382`); a published
project may lack a snapshot (`TZ-CompanyStructure.md:297`).

Without a run, seen while modelling and noted for the maintainers. The
properties are worded around these, in their comments.

Workflow, projects and boundaries:

* Batch decisions append no version row (`review_service.py:591`), though
  `db/models/data_point_version.py:3-4` speaks of every change, and recalculate
  no item (`ARCHITECTURE.md:411`).
* Unlinking evidence never looks at `DATA_POINT_LOCKED`
  (`TZ-WorkflowGateMatrix.md:315`, `evidence_service.py:311`).
* Two requests that recalculate a shared item at once can each miss the other's
  point (`workflow_service.py:350`); a later completeness request repairs it.
* Editing and creating points is not gated by a published project
  (`TZ-WorkflowGateMatrix.md:292`, `:489`).
* The publish gates contain no `EVIDENCE_REQUIRED`, `start`'s
  `NO_ASSIGNMENTS` always warns and `UNSUBMITTED_DATA` never does, because the
  context lacks the counts they read; nothing writes `archived`.
* `create_entity` adds to the default boundary even of published projects, so
  the live boundary may be larger than the locked snapshot, which is why
  `SnapshotCovered` is an inclusion; `update_boundary` may change the boundary
  type a snapshot was taken with; `apply_boundary` recalculates no item.

Assignments:

* No constraint keeps duplicates apart: overlapping creations or launches can
  insert one metric and place twice, and later creations then fail
  (`scalar_one_or_none` meets two rows).
* Overlapping edits can give one person two duties of an assignment
  (`TZ-PermissionMatrix.md:168` says they are distinct).
* Auto-assignment is refused as a whole on a conflict of duties or a default
  owner without the role, although its preview counts the row as covered; the
  default owners of an entity are not validated.
* Mono mode takes any entity of the organization, inactive ones too, and the
  override is used there only.
* Codes of shared elements are unique over all tenants: a code another tenant
  took makes a creation fail.

Pages of a point:

* The review queue without a project matches a reviewer's assignments of any
  project, so that it lists points he cannot open.
* A collector's own point whose element none of his assignments names can be
  opened and is not listed.
* The merged matrix, its orphans and the impact previews count retired items
  and mappings; the matrix' "latest" value is that of the lowest entity id.
* The boundary preview says that nothing is removed when the project has no
  boundary yet, though entities outside then become partial or excluded.
* Outliers compare with a previous value of any project or organization.
* Breaches are cut off after ten priority tasks; "Outdated snapshot" can never
  show.

Progress and evidence:

* `get_coverage` filters required items only, not current ones
  (`merge_service.py:453-456`): once an import has retired a required item, the
  merge view counts it and the dashboard and the list of standards do not.
* The dashboard's answer is kept for a minute, in each process and for each role or
  user. A change drops it in its own process, before it commits: what is computed
  in between, and the answers of other processes, are of the time before. Nothing
  drops it when an item is created or retired, when evidence is unlinked, or when
  the status of one item is asked for. `ProgressViews` has one process and one
  viewer, and of the answer the parts that tell progress.
* `POST /api/evidences` with the type `file` records a file under any URI, which
  nobody has uploaded (`evidence_service.py:129-140`); an upload that fails to
  commit, and a deletion, leave the file in the storage.
* A deletion of evidence counts the approved points first
  (`evidence_policy.py:16-32`): an approval or a link that commits before the
  DELETE loses its evidence.

Background work, notices and events:

* An information or a warning is not written while one of the same user, type and
  entity is unread (`notification_service.py:223-237`), also when the former is of a
  request that was rolled back: the later change, which was committed, is then
  told by the notice of another. Completeness changes, and edits that leave their
  row as it is, are published without a row lock and can be told in another order
  than they are committed.
* Two requests can pass the gate of one active export together (`OneActiveExport`
  of `ExportJobs` states what does not hold).
* SLA notices repeat with every cycle of the day; the runner never calls
  `DigestWorker`; the digest marks notices as sent when the sender is switched
  off; one failing mail rolls back all notices of its handler.
* Handlers commit before the request does: a request that fails later has told
  people of what did not happen. Each publishing request needs a second
  connection, and with the pool exhausted its events are logged and lost.

Identity and ownership:

* Removals of admins that overlap can count each other's admin.
* Two overlapping acceptances of one invitation can bind a user again who was
  removed between them.
* A cancellation or a refusal that read the invitation while it was pending
  overwrites `accepted` after the user was bound (`invitation_service.py:230-236`,
  `:284-288`): the invitation then says `cancelled` or `declined` of a member.
  `AcceptedOnce` says this of contested invitations only.
* Of two overlapping logins both can use one backup code, and one can write back
  the code the other used (`auth_service.py:422-427`); `TwoFactor` takes each
  operation as one step.
* Three overlapping creations can close a cycle of ownership (`NoCycle` of
  `OwnershipGraph` states what does not hold).

Catalogue and documents:

* The split never retires rows of the leaves; it fails as a whole when the
  mapping of a source has a later version while the older one of the leaf is
  current.
* `create_item` can duplicate a current code, and the next import of its
  document fails; a retired item can be mapped.
* The existence check of `skip_existing` is made in another session than the
  import.
* GRI 2 and 3: a clause "i.", "v." or "x." after the letter before it is read as
  a roman one; tables swallow the paragraphs after them; blank lines never end
  a bullet in GRI 3. Skipped depths of clauses nest siblings. In sector
  standards a table continued without its group row loses rows.
* ESRS: a row with a reference nobody recognises gives its data points to the
  row above; a disclosure in two sheets of ESRS 2 loses the items of the first.
* SASB: the title of an activity metric that goes on in lower case before its
  row is dropped.

Datasheet tenant:

* Of several points of one key none gets the value of the workbook, although
  the item is marked complete.
* An edition without a year's value marks the item not applicable and leaves the
  approved point bound; metrics a new edition drops stay as items.
* The mix deletes points and leaves item statuses complete, and approves every
  other point of the project.

## 7. Not modelled

`PROJECT.json` lists every part with its status. Not modelled, and why:

* Frontend (`src/frontend`): renders the services, keeps no state they rely on.
* Schema and migrations: definitions; the constraints that matter appear in the
  modules that rely on them.
* Contents of exports, reports, prompts and answers, words of notices and mails:
  data the properties do not tell apart. The language model is external.
* Demonstration seeds and maintenance scripts: fixed rows written once.
* Middleware: each request is handled by itself.
* `AuditEventHandler`: not subscribed by the registry; the audit log is only
  appended to.
* Extraction of text from PDF and DOCX: external libraries; the documents'
  models begin at lines. Limits on the distance of headings (70 and 90 lines)
  and fixed counts of sections are left out, the documents are shorter.
* Calculation rules, deltas between standards, moves in the entity tree, control
  links, self-registration, login settings: left for later, section 2.
