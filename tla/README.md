# Local-first orchestrator: TLA+ verification project

The orchestrator runs coding tickets through local and paid language models. Every fact it acts on is
a row of one SQLite ledger; any number of processes (daemon, command line, gateway) share that file,
any of them may die, stall or be retried, and models, Git and the Hermes board are outside of its
transactions. The project models the protocols by which it nevertheless claims, performs and records
each external effect at most once, and checks and proves what those protocols promise.

Line numbers below refer to `src/local_first_orchestrator/`; `PROJECT.json` maps every definition to
its lines.

## 1. Inventory

| component | state it keeps | operations | hard behaviour |
|---|---|---|---|
| **scheduler tick and stage claims** (`scheduler.py`, `ledger.py`, `reconciliation.py`) | `scheduler_tick_lease`, `scheduler_stage_claims`, `controller_state.paused` | `process_next`; claim, begin, complete effect, complete claim per stage family; `scheduler_reconciliation`; operator pause and release | processes that die or stall in any step, leases compared with a clock read at the start of the tick, takeover, decisions used after they were taken |
| **model-stage and validation runners** (`controller.py`) | `model_invocations`, `model_stage_artifacts`, validation stages | `execute_implementation_model_only`, `execute_deterministic_validation_only` | check and insert in different transactions, recovery of completed invocations |
| **paid calls** (`paid_model.py`, `usage_governor.py`) | `paid_reservations`, `model_calls`, `paid_approvals`, incident outbox | `authorize`, `invoke`, `complete`, `unknown`, `provider_rejected`, `approve`, `configure` | two tables settled in separate transactions, ambiguous answers, rejection and backoff, several callers of one request |
| **review invocation and retry** (`review.py`, `review_worker.py`, `controller.py`, `ledger.py`) | review invocations, `review_retry_authorizations`, candidates, findings | launch, finish, recover stale, authorize retry, `launch_authorized_review` | an authorization consumed once, a verdict that binds one candidate |
| **ticket states** (`states.py`, `ledger.py`, `ticket.py`) | `tickets.state`, `version`, attempts, events | `transition`, repair routing, attempt limits, retirement of attempts | optimistic versions, transitions fenced by the version and not by the claim |
| **board, state and comment outboxes** (`state_projection.py`, `comment_delivery.py`, `generated_projection.py`, `gateway_notification.py`) | `board_projection_outbox`, comment operations, alerts | enqueue, claim, prepare, deliver, acknowledge, release, supersede, reconcile | supersession while the older state is under way, ambiguous delivery, markers read back from the board |
| **Hermes board adapter** (`hermes_board.py`, `hermes_profiles.py`) | none (the board is external) | CLI client | errors whose effect is unknown |
| **Git integration and worktrees** (`git_adapter.py`, `git_security.py`, `worktree_lifecycle.py`, `ledger.py`) | branches, integration heads, `git_commit_intents`, `git_commit_evidence`, worktree leases | create attempt, commit, compare-and-set of the integration head, evidence, cleanup | a crash between any two of intent, commit, advance and evidence |
| **daemon** (`daemon.py`) | failure counters, health file, stop request | tick loop, backoff | saturation at the cap, stop during a wait |
| **planning, decomposition, tranches** (`decomposition*.py`, `planning_coordinator.py`, `tranche_completion.py`, `generated_activation.py`, `corrections.py`, `admission.py`) | tranche generations, completion evidence (H1), checkpoints, approvals, landings, materializations, corrections and rechecks | measure, checkpoint, approve, land, plan, materialize, activate, correct, recheck | evidence of one stage read by the next while corrections move the branch; a stage that dies between two transactions |
| **triage and repair** (`triage.py`, `controller.py`, `ledger.py`, `gateway_notification.py`) | triage records, repair authorizations, terminal failures, operator notices | route failure, escalate, block, resolve, grant attempts or calls, adopt, deliver notice | a paid call that lasts minutes between two reads of the ticket; a notice resolved while it is sent |
| **native release and dependencies** (`native_*.py`, `hermes_board.py`, `execution_handoff.py`, `controller.py`) | dependency graphs, releases, repair cards and their activations; on the board cards, links and statuses | link the child graph, release a card, prepare its worktree, take over what a worker hands over, exchange a card for its repair | Hermes and its workers act between any two board commands |
| **recovery boundaries, signer enrollment** (`validation_recovery_boundary.py`, `keyless_human_recovery.py`, `signer_enrollment.py`) | capabilities, one-shot authorizations, archives | prepare, issue, revoke, recover; keyless recovery; enrollment | the candidate drifts between the checks; evidence is deleted and must be archived |
| configuration, CLI, dashboard, metrics, packets, local model client, bootstrap script | none of the protocol | parsing, views, subprocess and HTTP calls | none |

Interactions. The daemon calls `process_next`; the tick calls the runner of the claimed stage, which
calls a model (through paid calls when the stage is paid), Git or the board; all of them meet in the
ledger. There is no message between processes but the rows of the ledger, and no lock but SQLite's
write transaction and the two leases. So the actors of every module are processes, the atomic steps
are transactions and external effects, and the interleavings that matter are those of two processes
in one protocol and of a process with the recovery of its own earlier death.

What makes each component correct:

- **stage claims**: ticks exclude each other while their lease runs; a claim is taken over only after
  its lease expired; the effect of a claim starts once, leaves one piece of evidence and is completed
  with it; the durable order of start, invocation, stage, completion is the one recovery reads; an
  inference is not repeated; a finalized claim never changes.
- **paid calls**: a request is executed at most once; executions stay within limit plus approvals; the
  backoff is kept; the two tables agree about settled requests; one alert per outage; a paid response
  is not lost.
- **review**: one invocation for an authorization; a verdict applies to the candidate it reviewed.
- **ticket states**: only edges of the transition table; no more attempts than allowed; a ticket in a
  waiting state is eventually claimed.
- **outboxes**: what the board shows in the end is the last state; no comment is duplicated; none is lost without being
  recorded as failed.
- **Git**: one commit for an intent; evidence names the commit on the integration head.
- **tranches**: what lands was measured and approved; a successor starts from all of its predecessor; a
  completed tranche is measured and hands over.
- **native release, repair**: no card is dispatchable before its dependencies are accepted; the graph the ledger
  recorded is the board's; a card is not run while its ticket is validated; a repaired ticket gets a card.
- **terminal failures**: one authority for every attempt; a failure recorded of a ticket in triage only;
  one notice, which ends and does not outlive its failure; recovery removes what was signed and archived.

The hazards behind these properties are listed, each at its line, in `PROJECT.json`.

## 2. Modules

| module | models | state | actions |
|---|---|---|---|
| `SchedulerClaims` | `process_next` (scheduler.py 1065-1402) with the ledger operations it calls, for the implementation and validation families | the tick lease, the claim rows, the invocations, the durable model stages; per process the step, the clock reading, the token, the held claim and the result in memory | one per ledger transaction or external step |
| `StageEffect` | the abstract life of one stage claim | phase, evidence, outcome | claim, start, leave evidence, adopt, complete |
| `PaidCalls` | `InjectedPaidModelAdapter.invoke` and `UsageGovernor` | reservations, calls, approvals, a history of executions; per caller the step and its request | one per transaction, plus the provider run and its answer |
| `CommentDelivery` | `CommentDeliveryWorker` and the comment outbox of the ledger | the rows, the comments on the board, clients left running; per worker the step, the clock reading, the comment and its outcome | one per transaction, plus the board's lookup and post |
| `TicketStates` | the transition table, the projected states, the board column of a state (operators) | | |
| `StateProjection` | transitions and the state outbox, `StateProjectionWorker`, `project_ticket`, `set_state` | state events, ticket states, the rows, the tick lease, the columns of the cards, clients left running; per process the step, the clock reading and the event | one per transaction, plus the commands to the board |
| `TicketPipeline` | one ticket from `ready_local` to `done`: the eight stages of a tick, what each leaves for the next, their replay | the ticket and its lease, a claim for each family and attempt, attempts, model calls, artifacts and review authorizations, runtime stages, acceptance, Git intent, head, integration head and evidence; the running tick | one per transaction or external step of a tick, plus death, exception and operator |
| `TrancheHandoff` | the tranches of a feature: completion, checkpoint, paid approval and escalation, landing, planning and activation of the successor, corrections and rechecks | tranches, tickets and their commits, integration heads and the canonical branch, the claims of the six stages, the evidence each leaves; the running tick | one per transaction, Git command or paid answer |
| `HermesDispatch` | generated tickets on the Hermes board: dependency graph, release, worktree, dispatch, hand-over, repair card | ledger graphs, releases, claims and repair plans; on the board the cards' statuses, links and finished runs; worktrees | one per transaction or board command, plus Hermes and its workers |
| `TerminalRecovery` | a ticket that fails for good: routing, triage feedback, paid escalation, terminal failure and its notice, the operator's exits, recovery from a defect of the validator | the evidence of each attempt, the ticket, the terminal failures, notices, signed documents and archives; two ticks | one per transaction or call of a model or the gateway |
| `MC*` | instances for TLC | | |
| `*_proofs` | inductive invariants, lemmas, theorems | | |

### SchedulerClaims and the code

A process is a call of `process_next`. It reads the clock once (`ReadClock`, scheduler.py:1076); every
ledger call of the tick gets that reading as its `now`, so a stalled process compares leases with an
old clock. `ClaimTick` is `claim_scheduler_tick`, `Reconcile` is `next_scheduler_reconciliation` and the
scope the tick derives from it, `Reclaim` and `NewClaim` the two halves of the `claim_next_scheduler_*`
functions, `Begin`, `CompleteEffect`, `Finalize` the operations of the same names, `Reread` the
decision of the tick on the row it reads back. `CheckModel`, `Launch`, `FinishCall` and `Record` are
`execute_implementation_model_only`, `RunReplayable` is `execute_deterministic_validation_only`.
`Raise` is an exception at any step, `ReleaseTick` the `finally` clause, `Crash` the death of the
process. `OperatorDecides` and `OperatorReleases` are the two parts of
`release_abandoned_scheduler_claim`, which takes its decision before its transaction.

Abstractions:

- The tickets are not here: whether a new claim may be inserted for a stage is a free choice, once for
  each claim identity. Every behaviour of the code is included; behaviours where a ticket would have
  prevented a claim are too.
- A claim identity is a natural number in the order of the `claim_id` column; a token is a number in
  place of worker id and random suffix. Both are compared for order and equality only.
- The several reads of one check (`CheckModel`) are one step. They read rows no other step takes back
  (the invariant `CallsGrow` and `RowsGrow` of the proofs), except the first of an invocation, which stays
  the start of the race in finding 4.
- The decision of an operator is one step; the code reads it from a few rows without a transaction.
- The other families share tick, claim, begin and finalize but have runners and decisions of their own:
  `TicketPipeline`, `TrancheHandoff` and `HermesDispatch` have them.
- File changes, drift checks, hashes and disk errors are `Raise`.

### PaidCalls and the code

`Authorize` is `UsageGovernor.authorize` in its transaction; its `PermissionError` changes nothing and
is no step. `ReadCall`, `InsertCall`, `RetryCall` are the three statements by which `invoke` claims the
`model_calls` row, `Run` and `Answer` the call of the provider, `Complete` and `Store`, `Reject`,
`GiveUp` and `Mark` the ways it settles both tables. `executed` is history: what the provider did, which
no row records.

Abstractions: one feature and one purpose (budgets of different purposes do not interact); `configure`
(a new limit while calls run) is a constant; `release` of the governor has no caller and is left out;
the two retry delays of the provider classification are one `RetryDelay`; the alert target is
configured and the ticket known, so that a due alert is always queued; the clock reading of a rejection
is taken with its transaction. `overlapped` is history: whether two callers ever worked on one request at a time. The tick and the claim
of the scheduler keep its callers apart as long as no tick overruns its lease; a caller may still die
anywhere, and another takes the request up.

### CommentDelivery and the code

A worker of the model is a tick that delivers a comment: `ReadClock` is the reading it passes to every
ledger call, `Recover` is `recover_expired_comment_leases`, `Claim` is `claim_next_comment`, `Resolve`
`resolve_claimed_comment_target`, `Lookup` the search for the marker on the board, `Post` and
`PostFailed` the client run and its failure, `Mark` is `mark_comment_delivered`, which records every
outcome. `Enqueue` is the comment half of the projection bundle. A worker that dies in a post leaves its
client running; `OrphanEnds` is that client posting, or not.

Abstractions: `Lease` is the lease of the tick and of the comment; a new worker starts when the lease of every
worker alive has lapsed, as the tick lease makes it. `overran` is history: whether the clock ever passed
the lease of a live worker or of the client it left running. The owner of a row is represented by the number of its attempt,
since the code draws a new owner for each tick. An exception of the ledger ends a worker as `Crash` does. A
comment whose post timed out on its last attempt is recorded as permanently failed although it may be
on the board; that is the code's choice and `PostedOnce` and `DeliveredIsPosted` hold with it.
`Classified` says whether the adapter raises `AmbiguousCommentDelivery`; none of the repository does, and
`comment_delivery` allows it. `replace_pending_triage_comment` has no caller and, with ticks for one ticket only, is left out.

### StateProjection and the code

`StartTick` is the clock reading and `claim_scheduler_tick`, `ClaimNext` is
`claim_next_state_projection`, `Gate` is `prepare_claimed_state_projection`, `Ack` and `Release` the
ledger operations of those names. `Look`, `Unblock`, `Send` are the commands of
`HermesBoardAdapter.set_state`, `Fail` any of them failing with or without its effect. `Project` and
`ClaimOwn` are `project_ticket`, as run-once calls it outside of any tick (the ledger-only command
`reconcile-state-projections` is a `Project` whose process goes no further). `Transition` is every writer of
state events that enqueues its intent in the same transaction, `Recover` the two operator recoveries that
write an event without an intent.

Abstractions: an intent has the id of its event. An owner is the set of processes the code cannot tell
apart by it: a tick has a fresh owner, all run-once commands have one. Cards that Hermes executes (handoff
cards, whose columns Hermes moves) and the shortcut for their reconciled completion are left out; so
is the terminal error of an intent, which only the creation outbox sets. `review_reconciliation_authorized`
is a transition with its intent like the others. The intermediate events of a recovery are written in the transaction of the
last one and nothing reads them.

### TicketPipeline and the code

`StartTick`, `Reconcile` and `ClaimStage` are the head of `_process_claimed_tick`: the oldest lapsed claim
ends the tick (`STOP`) or restricts it to its family; otherwise the families are asked in the order of
the code (`Order`) and the first with a lapsed or an eligible claim gets one. `Eligible` holds the `WHERE`
clauses of the eight `claim_next_scheduler_*` queries, `Authorized` what two of them check again before
a takeover. Then, by family:

| family | actions | code |
|---|---|---|
| implementation | `Begin`, `CheckImplementation`, `Launch`, `Answer` or `CallFails`, `Record`, `ApplyResult` | `execute_implementation_model_only`, `complete_scheduler_implementation_effect` |
| validation | `Begin`, `CheckValidation`, `Validate`, `Mark`, `ToReview`, `ApplyResult` | `execute_deterministic_validation_only`, `record_runtime_stage` |
| review | `Begin`, `CheckReview`, `Launch`, `Answer` or `CallFails`, `Record`, `ApplyResult` | the review runner, `launch_authorized_review` |
| repair routing | `Begin`, `Route` | `plan_scheduler_repair_routing_effect`, `complete_scheduler_repair_routing_effect` |
| triage | `Begin`, `CheckTriage`, `Launch`, `Answer` or `CallFails`, `Record`, `Decide`, `Note`, `ApplyResult` | the triage runner, the triage decision |
| acceptance | `Begin`, `CheckAcceptance`, `Accept` | candidate check, `complete_scheduler_acceptance_effect` |
| Git integration | `Begin`, `CheckGit`, `StartIntent`, `Commit`, `AdvanceHead`, `ApplyGit` | `start_git_commit_intent`, the Git commands, `advance_integration_head`, `complete_scheduler_git_effect` |
| completion | `Begin`, `Complete` | `complete_scheduler_completion_effect` |

`Finalize` is `complete_scheduler_claim`. `Invalidate` is `invalidate_preintegration_acceptance`,
`AuthorizeRetry` is `authorize_review_retry`, `Pause` and `Resume` the operator's flag.

Abstractions:

- One ticket, and ticks that do not overlap: `SchedulerClaims` is about those that do. All calls of a tick
  use one clock reading, so leases (counted down, 0 is lapsed) run down in `Wait`, between ticks.
- `Crash` takes all leases to 0 at once: no tick starts before the lease of the dead one has lapsed, and
  the claim of the dead tick has the same reading and the same length. `Abort` is an exception between two transactions: the
  claim keeps its lease and the next tick may find nothing to do.
- The reads of one check are one step; no other process writes what they read while the tick is held, but
  for the operator, whose steps lie between any two.
- An attempt whose worktree was never created is not numbered anew: between `ensure_attempt` and
  `_attempt` a begun claim without a model call stops at reconciliation, and no tick gets there.
- A failure repeated with the same fingerprint is an attempt like any other: the code stores the fingerprint
  and decides by the number of attempts (ledger.py:6209).
- Left out: cards that Hermes executes (`HermesDispatch`), the triage feedback runner, the paid
  escalation of triage and the retirement of a failed attempt (`TerminalRecovery`), other tickets that
  move the integration head (`TrancheHandoff`), the children of a decomposed ticket (its ticket stays
  in triage), release of a stopped claim by an operator, recovery of a stale review, deliveries at the
  start of a tick.

### TrancheHandoff and the code

A tick asks the six stages in `Order`, after `Stops` has looked at what lapsed; `Asks`, `Take` and `Begin` are
the `claim_next_scheduler_*` functions of the tranche stages and `begin_scheduler_claim_effect`.

| stage | actions | code |
|---|---|---|
| checkpoint | `RunCheckpoint`, `ApplyCheckpoint` | `tranche_completion.py`, `execute_tranche_checkpoint_only`, `apply_scheduler_tranche_checkpoint_effect` |
| paid, escalation | `Reserve`, `Answer`, `ApplyPaid` | `execute_paid_stage_only`, `apply_scheduler_paid_stage_effect` |
| landing | `Land`, `ApplyLanding` | `execute_tranche_landing` (controller.py 3423-3474), `apply_scheduler_tranche_landing_effect` |
| materialize | `ChooseBase`, `WriteTranche`, `ApplyMaterialize` | `PlanningCoordinator.materialize_next_tranche`, `Ledger.materialize_next_tranche`, `apply_scheduler_next_tranche_materialize_effect` |
| activation | `ApplyActivation`, then `ActivateTicket`, `AdmitTicket` | `apply_scheduler_next_tranche_activation_effect`, `activate_generated_ticket` |

`Finalize` completes a claim, `ClaimRaises` and `RetireClaim` are the two ways a claim query ends without a
claim. `PlanFix`, `MaterializeFix`, `Recheck` and `ReopenCard` are the operator's correction commands
(`corrections.py`), `DeliverCard` the creation outbox at the start of a tick, `FinishTicket` the whole
pipeline of one ticket, `ForeignCommit` somebody else's commit on the canonical branch. A commit is
named for what made it and `history` holds the ancestors of each, so that the ancestry checks of the
code are membership.

Abstractions: ticks do not overlap; the paid call is a reservation and an answer; plan generation and its
refusals, dependency graphs inside a successor, commits that are accepted but advance nothing and
the operator's pause are left out; a correction is one ticket; the checkpoint commands pass or fail
freely. Admission and the decomposition of the first tranche are the initial state.

### HermesDispatch and the code

`ClaimGraph`, `LinkParent`, `ParkChild`, `ApplyGraph`, `CompleteGraph` are the native dependency graph
stage; `ClaimRelease`, `PrepareRelease`, `Expose`, `Observe`, `CompleteRelease` the release
stage; `Bind`, `Admit`, `PrepareAdmitted`, `Readiness` the two other ways of admission;
`Reconcile` what `reconcile_hermes_execution` makes of a worker's hand-over; `Children`, `PlanRepair`, `MakeCard`,
`MoveChild`, `FreeCard`, `ReviseGraphs`, `RecordRepair` the repair activation (`activate_generated_work`,
`HermesBoardAdapter.create_repair_task`). `Dispatch` and `Finish` are Hermes and its workers, external and
modelled from what `hermes_board.py` reads of them. A graph names the ticket's own card and those of its
dependencies (`Identity`); a claim is taken again only for the identity it was made for (`Retake`), and a release
only while the recorded graph is that identity (`Releasable`). Where the code raises instead, the action is not
enabled, and the open claim keeps every later tick from all other work (`Unconfined`).

Abstractions: `Validate`, `Review` and the delivery of projections stand for the pipeline of
`TicketPipeline` and the outbox of `StateProjection`; ticks do not overlap; a lapsed claim is retaken or
stops, as reconciliation decides; a hand-over always carries a diff, so the branches for an empty review and a
premature done (controller.py 973-1080) are left out, as are pausing, the operator's corrections of a
graph, and the signed release approvals. Of the checks of a repair's worktree (controller.py 1255-1299) the model has the
two that its state tells apart (`Untouched`): it is the worktree of the ticket's first card, and the new card
has not run yet. Those of its branch, of edits that were not committed and of a second run of the old card
are left out, so the model activates repairs that the code refuses by raising. Deadlines of workers are not modelled: `Finish` is fair.

### TerminalRecovery and the code

`Start` is the lease and the pause check, `Recovered`, `ClaimNotice`, `Send`, `Mark` are
`HermesGatewayNotificationWorker` and its ledger operations, `Reconcile`, `Validate`, `Review`, `Decision`, `Route`,
`WriteFeedback` the stages that judge an attempt, `Escalate`, `Ask`, `RecordRepair`, `RecordTerminal` the paid
escalation (controller.py 3700-3860) with `apply_paid_repair_authorization` and
`record_terminal_unresolvable`. The operator has `Switch` (pause and resume), `ApproveCall`,
`ResolveNotice`, `Resolve`, `AddLocalBudget`, `Reopen`, `AuthorizeLocal`, `Adopt`, `AdoptTerminal`, and for a defect of
the validator `Issue`, `Revoke`, `Recover` and `ReconcileMarker` (`validation_recovery_boundary.py`,
`recover_terminal_validation_controller_defect`). `Die`, `Stall` and `Drift` are faults: a tick that ends anywhere, one that outlasts
its lease while another runs, a worktree edited by hand.

Abstractions: the failure of an attempt has one fingerprint for each source; a document is its authority
and its archives, signatures are left out; stage claims and paid reservations are single actions; the
planning triage is off, as it is once paid escalation is configured. Left out: the replay of a recovery whose
ticket is already `verifying`, the replay of an archived recovery (ledger.py 8450-8612), the
supersession of stale routings (6297-6679), which no state of the present code reaches, incomplete
claims of a validation, and rejected paid answers (`PaidCalls` has them).

With `Orderly` the operator waits until no escalation is under way; nothing in the code makes them wait, and
`overtaken_escalation` shows what happens otherwise (finding 3).

## 3. Runs

Passing runs:

| run | question | instance |
|---|---|---|
| `scheduler_claims` | tick exclusion, evidence order, one invocation until a tick overruns, takeover, finality, refinement of `StageEffect` | 2 processes, one inference and one deterministic claim, 2 ticks, lease 1, a clock of 3 |
| `paid_calls` | one execution, agreement, alert, finality; budget and backoff until two callers overlap | 3 callers, 2 requests, limit 1, an approval |
| `comment_delivery` | delivered means posted; finality, leases and backoff against late workers; each comment at most once on the board while nobody overran | 2 workers, 2 comments, 2 attempts, lease 2, a clock of 3, overruns, deaths, clients left running, ambiguity classified |
| `state_projection` | the board shows what is acknowledged; convergence | 2 workers, 1 ticket, 2 transitions, a death, failing commands |
| `state_outbox` | one due intent; history stays | 1 worker, 2 operators with one owner, overruns, 2 transitions |
| `ticket_pipeline` | only what was verified is accepted; a commit has its intent and acceptance; no model call is repeated; attempts are authorized; accepted tickets complete and failed validations are routed | 2 attempts and a third by hand, lease 2, 2 reviews, 2 deaths, an exception, a pause |
| `tranche_handoff` | what lands was measured and approved; work starts on its base; a successor has all of its predecessor; a complete tranche is measured, a landed one hands over | 2 tranches of 2 tickets, a correction, one death, exception or foreign commit |
| `hermes_dispatch` | a card waits for its dependencies; ledger graph and board agree; a worker starts in a prepared worktree; a card under validation is parked; an orderly tranche is finished | a chain of 2 tickets, all three ways of handing over, 2 attempts, a repair, a run of each card, a death |
| `terminal_recovery` | notices are quiet once resolved, sent once and settled; one authority for each attempt; a ticket under review is clean; only signed evidence is archived; terminal failures come from triage | 2 ticks, 2 attempts, 2 terminal failures, 2 paid calls, a retried notice, one death, stall, lost answer or drift |

Violated runs, each the evidence of a finding of section 4: `second_landing` (2 tranches of one ticket, no
fault), `repair_activates` (a chain of 2 tickets, hand-over by review, no fault), `overtaken_escalation`
(3 attempts, an operator who does not wait).

The invariants that belong to one idea are one definition: `Consistent` is the type invariant of its module
and the structural invariants next to it (`EvidenceOrder` of the scheduler, `TablesAgree` and
`OneAlert` of the paid calls, `DeliveredIsPosted` of the comments, `OneDue` of the state outbox,
`AttemptsAuthorized` of the pipeline, `CheckpointSerial` of the tranches, `ReleasedAsLinked` of the board, `OneAuthorization`
of terminal failures); `WritesFenced` joins the action properties of the comment outbox.

Configurations kept for demand, each with a known counterexample (section 4): `DoubleInference`, `PaidOverspend`,
`PaidResponseLost`, `BoardStale`, `RepairStalls`, `ReplayStalls`.

Bounds and why they are enough. `MaxTicks` bounds the ticks ever started: two are a stalled or dead process
and the one that takes its claim over. `MaxClock` and `Lease`: one unit is
one lease, so a clock of 2 expires any lease once, of 3 a claim also taken over; `state_outbox` has a clock of 1,
which lets a holder outlast its lease, and no deaths. Two claims are the
fewest for which the order of reconciliation and the choice of scope matter. Limit 1 with two requests
is a budget used up and extended; an alert threshold of 2 makes the first rejection quiet, the
second loud and the third one past it. Two transitions of a
ticket are an intent under way and the one that supersedes it; the initial states are chosen so that
the transitions reach different columns, the completion of a scheduled card among them. For the pipeline
two attempts are one repair and the limit it meets, a third one is what an operator adopts after an
invalidation; a lease of 2 lets a tick run while the claim of a raised one is still leased; two deaths are
one in a stage and one in its replay; two reviews are the first and an authorized one. Two tranches are one
handoff; two tickets of a tranche can be accepted out of order, and with the correction three commits
are on a chain. A chain of two cards is one link, and the repair of its parent moves the child under
the replacement while the release of the child is under way; `hermes_dispatch` has also been run with two runs of each
card (`MaxRuns = 2`), and with two repairs and no death (`MaxRepairs = 2`), and holds. Two terminal failures are one resolved and
the next one, for which the notices of the first must be settled; two ticks are the stalled one and its successor.
Processes, requests and ticks are interchangeable (symmetry, in the runs without liveness); claims are not. The theorems of
section 5 hold without these bounds, except that `MaxTicks`, `MaxClock`, `MaxEvents` and the bounds on faults
stay finite, arbitrary numbers.

Deadlock is checked for the scheduler (a paused flag can always change) and for the pipeline (a tick
can always start). In `PaidCalls` all requests may be settled, with the approvals
and the clock at their bounds, and the system rightly stops: `CHECK_DEADLOCK FALSE`. The same holds for the
outboxes once every intent is settled and transitions and clock are at their bounds, for tranches and
tickets that are finished, and for a ticket whose terminal failures and attempts are used up.

Fairness. `state_projection` assumes weak fairness of the steps of a worker (the daemon ticks again and
again, and a tick goes on), of a client that ends and of the clock; strong fairness of the commands to the
board: one that is tried forever is not refused forever. Deaths, transitions and failures are never forced and
deaths are bounded; operators need not act. The clock is bounded, but a death is possible only while
the clock can still see its leases expire, so that the bound does not strand an intent. `Converges` says nothing of an event without an intent (see
the end of section 4). `ticket_pipeline` assumes weak fairness of the steps of a tick, starting one included
(the daemon starts ticks in a loop and a tick goes on), strong fairness of `Wait` (time passes between
ticks again and again, while ticks may start at any moment) and weak fairness of `Resume` (a pause ends).
A model call is forced to end, an answer is not forced to be good. Its
liveness properties are stated modulo exceptions: a claim whose call failed waits for an operator, by
design. `tranche_handoff` assumes weak fairness of the tick, strong fairness of finishing a ready ticket (a tick that
does something else postpones it, and ends) and of leases running out between ticks; corrections, rechecks and foreign
commits are free. `hermes_dispatch` assumes weak fairness of the ticks, of the leases and of the Hermes workers: a card
that is dispatchable is taken and a worker that runs hands over, which is what Hermes promises. `terminal_recovery`
assumes that ticks keep being started and go on as a whole (one of them may stall for ever), that a pause ends and that a
recovery in progress ends in one of its two ways; no operator command is forced. The other specifications assume no
fairness: they are safety specifications.

The liveness properties name what stops the system by design or by a known defect, instead of assuming it away: `HandsOver` and
`MeasuredInTheEnd` except the claims of `Overtaken` (section 4), `AllDone` holds of behaviours that are
`Orderly` (a worker starts after its release is recorded, hands over in a way a repair can follow, a ticket is
repaired once at most, and while a repair replaces a card no graph is being linked and the ticket's own release claim
is completed). Without any one of these conditions TLC finds a counterexample of `AllDone` (for the second repair of a ticket
with `MaxTries = 3`); section 4 says what each is in the code.

Every property of a passing run has a mutant in `PROJECT.json`: a slip in a modelled operation (a
dropped guard, a missing reset, a wrong set of states) under which the same run must find the property
violated. The mutated operators stand beside the originals, marked `Mutant`.

## 4. Findings

With a run each:

1. **The second tranche never lands** (`second_landing`, controller.py:3453). A tranche is merged with `--no-ff`,
   so the canonical head is a merge commit; its successor is based on the predecessor's final integration commit
   (ledger.py:10865), whose descendants never contain that merge. The second landing raises "canonical head is
   not an ancestor of approved integration", its claim stays begun, and every later tick stops at it.
2. **A repaired card is never activated after a review** (`repair_activates`, hermes_board.py:459). The card asks
   its worker to hand over by review (execution_handoff.py:9) and hermes_board.py:389 calls that "the preferred
   implementation handoff"; the repair activation accepts a predecessor that is done, or blocked with the legacy
   marker, and raises for one in review, at every tick.
3. **A late verdict blocks a ticket that moved on** (`overtaken_escalation`, ledger.py:9386). The state of the
   ticket is read before the paid call and not again: an operator who grants another attempt while the model
   thinks gets a ticket blocked by a terminal failure of the retired attempt.

With a configuration on demand, counterexamples of the same modules:

4. **A stalled process and its successor both launch the model** (`DoubleInference.cfg`, ledger.py:7314).
   `begin_scheduler_claim_effect` returns a row whose effect is already started without looking at its owner, and
   the check for a prior invocation and the insert of the new one are separate transactions. The evidence of one
   wins and the claim is completed consistently, but the inference ran twice. Until a tick overruns it
   cannot happen (`SingleUntilOverrun`).
5. **A retry can run outside the budget and in the backoff** (`PaidOverspend.cfg`, paid_model.py:97). The
   conditional update of a retry looks at `model_calls` only. With one caller per request at a time it cannot
   happen (`BudgetUntilOverlap`, `BackoffKept`).
6. **A paid response can be lost while recovery believes it stored** (`PaidResponseLost.cfg`, paid_model.py:156).
   The reservation is completed before the response is stored.
7. **An obsolete state can reach the board last and stay** (`BoardStale.cfg`, state_projection.py:95).
   `project_ticket` runs outside the tick lease, between the gate and the command of a tick. Within ticks
   `BoardCurrent` holds.
8. **A repaired attempt is never reviewed** (`RepairStalls.cfg`, controller.py:2438). `record_runtime_stage`
   inserts `validation_completed` once for a ticket; after a failed first validation the row names the failed attempt
   for good and `claim_next_scheduler_review` (ledger.py:7108) raises on every tick. README.md:81 of the repository
   says "If the correction succeeds, the workflow continues normally."
9. **A replayed validation may complete without its marker** (`ReplayStalls.cfg`, controller.py:2438). The result
   and `validation_completed` are two transactions; the replay after a death between them skips the second.

Met by reading while the modules were written; what they say is in the modules, or left out of them, as noted:

- *State outbox*: two operator recoveries write a projectable event without an intent (ledger.py:9378 and 9108;
  `Recover`), so the card stays where it was until the ticket moves on.
- *Pipeline*: an identical failure is routed to repair until the attempts are used up (ledger.py:6209), where
  README.md:83 of the repository says it is moved to triage "instead of issuing another identical local retry".
- *Tranches*: a death after a landing began stops every later tick (controller.py:3436-3460; in the model). A
  checkpoint claim left behind while corrections arrive or the tranche lands raises at every tick (`Overtaken`,
  ledger.py:11127), and a failed one blocks the next claim (11132). Corrections and a recheck after H1 make the
  materialization demand a final commit the tranche no longer has (10865). A death between the tickets of a
  successor and its materialization makes their cards terminal (`HandsOver` names it). A death inside plan
  generation leaves a conflicting plan (ledger.py:2918-2925; plan generation is not modelled). A tranche whose tickets are
  accepted in another order than its commits is never measured (`Serialized`).
- *Hermes*: a graph claim of a child that is open while its parent's repair is activated raises at every tick
  (ledger.py:5164-5166). A tick that dies or raises after a release was applied (scheduler.py:1663-1686) leaves its claim to
  the lease; if the ticket runs, is sent back and gets a new card before that ends, the recorded graph names the old card,
  and every later tick raises "graph contract drift" (ledger.py:5278-5281, 5332). A ticket can be repaired only once:
  the next attempt inherits the worktree of the first card (ledger.py:6286), while the activation looks for the
  worktree under the name of the replacement (controller.py:1272-1282) and raises. A release claim taken while Hermes already runs the card, a ready projection redelivered after
  the hand-over, and a death between the board commands of a repair and its intent can reopen a card that was handed
  over. `AllDone` excludes these by `Orderly`; `KeptParked` and `PreparedFirst` are about ticks that do not die, because a death
  between admission and preparation lets a worker start in an unprepared worktree, which
  docs/native-hermes-integration.md:23 of the repository rules out.
- *Terminal failures*: a notice that failed for good is not superseded when its failure is resolved, so the
  operator's retry announces a failure that is over (`revived`). A review verdict to escalate without findings
  makes the triage feedback raise at every tick. A gateway command that could not be started counts as a
  delivery in doubt.

## 5. Proofs

Eight modules hold theorems, for every value of the constants:

| theorem | states |
|---|---|
| `SchedulerClaims_proofs!TypeCorrect`, `Consistency` | `Spec => []TypeOK`, `Spec => []Consistent` |
| `TicksExclude`, `EvidenceOrdered` | `TickExclusion`, `EvidenceOrder` |
| `InferenceOnce` | `SingleUntilOverrun`: one invocation per claim as long as no tick overran |
| `TakeoversWait`, `FinalStays` | `TakeoverAfterExpiry`, `FinalIsForever` |
| `Refines` | `ImplementsStageEffect`: the scheduler implements `StageEffect` |
| `PaidCalls_proofs!TypeCorrect`, `Consistency` | `TypeOK`, `Consistent` |
| `ExecutedOnce`, `TablesConsistent`, `AlertedOnce`, `StaysSettled` | `SingleExecution`, `TablesAgree`, `OneAlert`, `SettledForever` |
| `BudgetHeld`, `BackoffHeld` | `BudgetUntilOverlap`, `BackoffKept`: both as long as no two callers overlapped |
| `CommentDelivery_proofs!TypeCorrect`, `Consistency`, `Fenced` | `TypeOK`, `Consistent`, `WritesFenced` |
| `DeliveredPosted`, `SettledForGood` | `DeliveredIsPosted`, `SettledStays` |
| `LeaseHeld`, `BackoffKeptUp` | `LeaseRespected`, `BackoffRespected` |
| `CommentOnce` | `PostedOnce`: once for each comment as long as nobody overran |
| `StateProjection_proofs!Consistency`, `History` | `Consistent`, `HistoryStays` |
| `StateProjection_proofs!BoardFollows` | `BoardCurrent`, when every projection runs in a tick and ends, with its client, within the lease (`TicksOnly`) |
| `TicketPipeline_proofs!Consistency` | `Consistent`: types, and no attempt that was not authorized |
| `Verified`, `Authorization`, `Inferences` | `AcceptedVerified`, `CommitAuthorized`, `OneInference` |
| `TrancheHandoff_proofs!OnlyApprovedWorkLands`, `MeasuredWorkIsAChain` | `LandedApproved`, `Consistent` |
| `WorkStartsFromItsBase`, `SuccessorHoldsItsPredecessor` | `WorkOnBase`, `HandoffComplete` |
| `HermesDispatch_proofs!Consistency`, `ChildrenWait` | `Consistent`, `ChildWaits` |
| `PreparedBeforeStart`, `JudgedStaysParked` | `PreparedFirst`, `KeptParked`: both as long as no tick dies |
| `TerminalRecovery_proofs!NoticesSentOnce`, `ResolvedFailuresQuiet` | `SentOnce`, `QuietWhenResolved` |
| `EvidenceArchived`, `OneAuthority` | `Orderly` implies `ArchivedOnly`; implies `Consistent` |
| `ReviewedIsClean`, `TriageOnly` | `Orderly` implies `CleanUnderReview`; implies `EscalatedInTriage` |

Assumptions: claims are natural numbers (they are ordered), the lease and the retry delay are positive,
the requests, the attempts and the ticks are finite sets, bounds are natural numbers. The scheduler's lease is one constant: the claims of a tick get the lease of the tick, as the daemon configures it.

**Scheduler.** `TickExclusion` is not inductive: it says nothing about the lease row. `TickHeld` does:
a process inside a tick whose lease runs *is* the one in the row. It stays true because a token is
drawn once (`FreshTokens`), a clock reading is never ahead of the clock (`StaleReadings`), so that a
row that looks expired to a stale reading is expired. `EvidenceOrder` needs what each process knows of
its claim at each step (`HolderKnows`): behind `begin` the effect is started, at `record` its result is a
completed invocation of its claim, at `complete` the stage is durable; and these facts survive the
steps of other processes because evidence only grows (`RowsGrow`, `CallsGrow`: lemmas about every step).
`InferenceOnce` needs more, under the condition that no tick overran: every live process is inside its
lease, hence alone, hence the process about to launch an inference has a claim without invocations.
The refinement maps each action to one step of `StageEffect` or a stutter, from the same invariant.

**Paid calls.** `SingleExecution` needs `OneRunner`: at most one caller stands between winning the
call row and settling it, and only while the row is in flight; `Settling` relates the two tables at
each of the settling steps and gives `TablesAgree`. `Opened` says a reopened reservation was past its backoff, and
`UsedWithin` that reservations which count stay within limit and approvals. With one caller per request
`Reserved` and `Accounted` close the gap between counting reservations and counting executions.

**Comments.** `Readings` bounds a worker's clock reading by the clock; `HolderKnows` that a holder knows the lease
of its attempt as long as the row shows that attempt; `OneHolder` that attempts tell holders apart; `MarkKnows`
that a worker about to record a delivery has seen the comment on the board. As long as nobody overran
`Alone` says that one worker is alive, `OrphanAlone` that a client left running has ended before another
worker may look for the marker, and `PostFirst` that a worker about to post has found no comment.

**State outbox.** `OneDue` needs only `Recorded`: an intent, and the event a process works on, belongs to the log, so that
the intent of a new event is not there yet. The lemma `Enqueued` says what enqueuing leaves of the other
rows; `HistoryStays` follows, since a late holder writes only where the row is still claimed by its owner.
`BoardFollows` assumes `TicksOnly`, no operator command and nobody who outlasts a lease: without either half of it
TLC finds `BoardCurrent` violated (`BoardStale.cfg` has an operator command; with `MayOverrun = TRUE` two workers suffice).
The constants of the run `state_projection` satisfy it. The invariant adds two parts. `Exclusive`: the tick lease names who is alive, and ends no sooner than
the clients of who died, so a tick that starts is alone with the board. `Unsettled`: a process behind the freshness gate, and
a client left running, are about a card whose latest intent is not acknowledged, and who is about to acknowledge
sees its state on the board. A card is settled only by `Ack` (`AcknowledgedBy`, `SettledBefore`), a new event opens it,
and the board is written only for a card that is open (`BoardWrites`).

**Pipeline.** None of the four is inductive. What a stage relies on was left by an earlier stage, perhaps by a tick that died, so
the invariant says, for each step of the running tick, what its claim and the ticket have become by then: `Placed` (which
family stands at which step), `InState` (the states in which a call is made; the operator's invalidation cannot
interfere), `Once` (a router's or an acceptance's decision exists exactly when its claim is applied, so a replay
decides nothing twice), `Numbered` (nothing is about an attempt that was not begun), `Calls` (a model call that was launched
more than once has used an authorization for each further launch, and an open authorization has a failed call), `Reviews`
(who relies on a review has its artifact), `Acceptances` (original, invalidated and replacing acceptance,
and the ticket's state) and `Commits` (intent, head, integration head and evidence name what is effectively
accepted, at each step of the Git stage). Each action is a lemma with one step per conjunct; the stage claims are taken by
`TakeOverStep` and `InsertStep`, which need that a claim found by the query of a family is about an attempt already begun
(`EligibleIs`), and that the attempts found have a largest one (`LargestIs`).

**Tranches.** The invariant has two halves. `Work` is about what lasts, tickets, commits and evidence, and reads no claim:
only done tickets are in anybody's history (`Pasts`), the integration head holds the base and what is done (`Heads`, `Dones`),
what was measured is all that was planned and a chain on the base (`Measures`), a tranche's base is the final commit of its
predecessor once its materialization is recorded, and nothing of it is done before (`Recorded`, `Carded`, `Binds`), the
predecessor's work is on the canonical branch (`Landings`). So a landing brings what H1 measured and nothing else that
was not there. `Stage` is about the running tick and uses `Work`: an effect is in the ledger only if its claim says
so, so a completion is measured and an approval written once (`Applies`); a landing or a materialization under way keeps
the authority it was claimed with (`Lands`, `Succeeds`), since what could take it away needs a tick of its own; the artifact about
to be recorded is of a chain, even if a correction has joined the tranche since (`Chained`). `Beside` is the frame for what
operators and others do between two steps of a tick. A corrected predecessor hands over by its recheck, which holds the planned
tickets and the corrections it names (`Rechecks`, `AuthorityIs`). That the accepted commits of a serialized tranche are a
chain (`ChainIs`) is the one fact by induction: the first ticket that breaks it, which exists by `LeastIs`, would have no predecessor.

**Terminal failures.** `SentOnce` counts what was sent; what is about to be sent must be counted too: `Accounted` bounds
`sent` plus the number of ticks that stand before `hermes send` with the notice (stalled ones included), and says that
a notice that waits may be sent once more. `Delivering` ties a delivery under way to the tick that owns it and says that
a refusal left a send unused, so that `retryable` is honest. The counting lemmas (`SenderComes`, `SenderLeaves`,
`FewerSenders`) rest on the finiteness of the ticks. `QuietWhenResolved` needs `Announced`: exactly the failures so far
have a notice; a resolution (`ResolveStep`, one lemma for the four ways to resolve) then finds it settled or supersedes it.
`ArchivedOnly` is proved for the orderly operator, as it is checked: the model bounds the failures by `MaxGens`, and only
then (`Bounded`) does every failure have its archives within the bound. The three properties of the attempts are proved for
the same operator; without one `EscalatedInTriage` is false (the run `overtaken_escalation`). Their invariant `Path` says which authority each
attempt has (`Authorized`: all but the latest one, the latest none unless an adoption is due), what the state of the ticket
says of the latest attempt (`Standing`), and what an escalation that is under way may still find (`Asked`): the ticket in triage on the attempt
it was asked about; or blocked already; or repaired by another escalation with the same answer. The last clause is what keeps
two ticks, one of which stalled past its lease, from both acting on one answer: a second `RecordTerminal` finds the failure
recorded, and a second `RecordRepair` finds the attempt authorized; it is inductive because the answer to a request key is
durable (`AskedStays`), and because a tick that was refused for lack of budget has seen the last call gone.

**Dispatch.** Three ways lead a card to Hermes: the ready projection of an admitted ticket, the release, and the repair's
new card. `ChildWaits` holds because each finds the tickets waited for accepted *and* the cards that stand for them done
(`Met`), which neither a later tick nor Hermes takes back (`DoneStays`, `MetStays`). The ledger knows only the first half; the
second follows from `Accepted`: an accepted ticket's card is done unless its projection is still due, and what is due goes
first. `unblock` is Hermes' own rule and asks for done parents: `Admitted` and `Links` say whose links there are, a dependency's
or the one from a repair to the card it replaces, so that what the orchestrator unblocks becomes ready and not todo.
A repair moves links, and needs that a plan names only cards of drafts (`Planned`: a ticket that waits for one under
repair is not admitted yet, hence not released, so no recorded graph is touched: `RecordRepairStep`). `Carding` says which cards may exist
beyond the current one. `Unbroken` holds until a tick dies: a held intent belongs to the running tick, a ticket admitted
or a card exposed was prepared, and a ticket under judgement has a worked tree; `PreparedFirst` and `KeptParked` follow. Once a tick
has died both are false (TLC finds each in some ten steps): a tick may die between the admission and the worktree, and a ready
projection whose delivery was not acknowledged is delivered again after the hand-over.

Every invariant and action property of the passing runs is stated by a theorem. Model-checked only is all liveness:
temporal proofs stop at safety, liveness under fairness and `ENABLED` are beyond TLAPS and stay with TLC. The findings are
counterexamples of TLC.

## 6. What would come next

1. `TicketPipeline` with two tickets: a claim whose decision is STOP in front of the queue; and its composition with
   `SchedulerClaims`, so that overrun ticks meet ticket states, and with the deliveries at the start of a tick.
2. Several callers of one review authorization (ledger.py 7660-7800).
3. A paid stage claim composed with `PaidCalls`: deferral of a rejected call (ledger.py 7470-7509).
4. Signed release approvals and historical revalidation as one-use authorities.

## 7. Not modelled, and why

- **Daemon**: one thread, a loop over ticks with a bounded backoff and counters. Nothing in it interleaves, and what it
  guarantees, that ticks keep being started, is the fairness the other modules state.
- **Configuration, command line, dashboard, metrics, packets, proposal validation, local model client, bootstrap script**:
  sequential functions over data with no protocol state. Their outcome is a nondeterministic result where a module
  needs one; the commands of an operator that change the ledger are actions of the modules.
- **Keyless recovery and signer enrollment** (`keyless_human_recovery.py`, `signer_enrollment.py`): one-shot procedures over one fixed
  incident; what they check are hashes of exact rows.
- **Hermes, Git, gateway and model providers** are external and modelled from the way the code uses them.
- Of the modelled components, what is left out stands with each module in section 2: the children of a
  decomposition, review tournaments, signed release approvals, budget changes while calls run, worktree cleanup,
  a second caller of a review authorization.
- A model timeout longer than the lease of its claim is an overrun in `SchedulerClaims`; no other module has one.
