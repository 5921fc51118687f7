-------------------------- MODULE TerminalRecovery --------------------------
(***************************************************************************)
(* A ticket that fails for good, and the ways back.  The scheduler's ticks *)
(* validate and review its attempts, route the failures, ask the paid      *)
(* model whether one more repair is worth it, and else block the ticket    *)
(* with a terminal failure and queue a notice for the operator, which the  *)
(* ticks send through the Hermes gateway.  A paused operator answers an    *)
(* ambiguous delivery, grants attempts or paid calls, adopts an            *)
(* implementation of their own, or, when the validator was at fault, signs *)
(* the recovery of the same candidate.                                     *)
(*                                                                         *)
(* One action is one ledger transaction, or one call of a model or of the  *)
(* gateway.  A pause stops ticks from starting, never one that runs; a     *)
(* tick may die at any point, or stall past its lease while another takes  *)
(* over.  The stage claims of validation, review and routing              *)
(* (TicketPipeline) and the reservation of a paid call (PaidCalls) are     *)
(* single actions here; the planning triage is off, as it is once paid     *)
(* escalation is configured.                                               *)
(***************************************************************************)
EXTENDS Integers, FiniteSets, TicketStates

CONSTANTS
    Ticks,          \* the processes that may run a tick, one lease at a time
    None,
    MaxAttempts,    \* bound on the attempts of the ticket
    FirstLimits,    \* what tickets.max_attempts may be at the start
    FirstCalls,     \* paid escalation calls at the start
    MaxCalls,       \* bound on the paid calls there ever are
    MaxGens,        \* bound on the terminal failures of the ticket
    MaxRetries,     \* no notice is retried once one was so often
    Words,          \* what the gateway may answer
    MaxFaults,      \* bound on deaths, stalls, failed sends and drifts together
    Orderly         \* the operator waits for escalations under way to end

ASSUME TicksAssumption == None \notin Ticks /\ Ticks # {} /\ IsFiniteSet(Ticks)
ASSUME BoundsAssumption ==
    /\ {MaxAttempts, MaxGens} \subseteq Nat \ {0} /\ FirstLimits \subseteq 1..MaxAttempts
    /\ {FirstCalls, MaxCalls, MaxRetries, MaxFaults} \subseteq Nat /\ FirstCalls <= MaxCalls
    /\ Words \subseteq {"ok", "refused", "rejected", "timeout"} /\ Orderly \in BOOLEAN

Attempts == 1..MaxAttempts
Gens == 1..MaxGens
\* What failed the attempt: the fingerprint of its failure is one per source.
Sources == {"validation", "review"}
\* validation_recovery_archives.archive_kind; claim and stage of a route go together.
ArchiveKinds == {"routing", "feedback"}
Notices == {"none", "pending", "delivering", "retryable", "delivered", "delivery_unknown",
            "permanently_failed", "superseded"}
\* The signed document's authority: attempt, terminal evidence and the archives to be made.
Documents == [n : Attempts, src : Sources, gen : Gens, open : BOOLEAN,
              kinds : SUBSET ArchiveKinds]
NoDoc == [n |-> 0, src |-> "none", gen |-> 0, open |-> FALSE, kinds |-> {}]

VARIABLES
    paused, lease,          \* controller_state, scheduler_tick_lease
    state, limit, calls,    \* tickets.state and max_attempts; paid calls left
    work, outcome, manual,  \* attempts: filled is a post_diff_hash; those adopted by hand
    built, marker,          \* the attempts implementation_completed, validation_completed name
    verdict, review,        \* validation-N and the completed review of N
    route, feedback,        \* repair-routing-N with its claim, triage-feedback-N
    paid, granted, slot,    \* paid- and operator-repair-routing-N; failed_attempt_reconciliations
    answer,                 \* the durable answer to a paid escalation request
    terminal, notice,       \* terminal_ticket_failures, gateway_notification_outbox
    archives, signed,       \* validation_recovery_archives, validation_recovery_authorities
    issued,                 \* the capability being used, for a document the operator signed
    pc, faults, drifted,    \* ticks; faults so far; the worktree left the frozen candidate
    sent, retried, revived  \* per notice: accepted by the gateway, retried by the operator

ticketVars == <<state, limit, work, outcome, manual, built, marker, verdict, review, route,
                feedback, paid, granted, slot>>
callVars == <<calls, answer>>
noticeVars == <<notice, sent, retried, revived>>
recoveryVars == <<archives, signed, issued, drifted>>
tickVars == <<lease, pc>>
vars == <<paused, ticketVars, callVars, terminal, noticeVars, recoveryVars, tickVars, faults>>

Idle == [at |-> "idle", n |-> 0, src |-> "none", word |-> "none"]

TicketTypes ==
    /\ state \in {"ready_local", "implementing", "verifying", "local_review", "repairing",
                  "needs_triage", "blocked"}
    /\ limit \in Nat
    /\ work \in [Attempts -> {"none", "open", "filled"}]
    /\ outcome \in [Attempts -> {"none", "repair_requested", "failed_retired"}]
    /\ manual \subseteq Attempts /\ built \in 0..MaxAttempts /\ marker \in 0..MaxAttempts
    /\ verdict \in [Attempts -> {"none", "failed", "passed"}]
    /\ review \in [Attempts -> {"none", "pass", "repair", "escalate"}]
    /\ route \in [Attempts -> {"none", "pass", "repair"} \cup Sources]
    /\ feedback \in [Attempts -> {"none"} \cup Sources]
    /\ paid \in [Attempts -> {"none"} \cup Sources]
    /\ granted \subseteq Attempts /\ slot \subseteq Attempts

CallTypes ==
    calls \in 0..MaxCalls /\ answer \in [Attempts \X Sources -> {"none", "repair", "unresolvable"}]

TerminalTypes ==
    terminal \in [n : 0..MaxAttempts, src : Sources \cup {"none"},
                  why : {"none", "unresolvable", "budget"}, gen : 0..MaxGens, open : BOOLEAN]

NoticeTypes ==
    /\ notice \in [Gens -> [status : Notices, owner : Ticks \cup {None}]]
    /\ sent \in [Gens -> Nat] /\ retried \in [Gens -> Nat] /\ revived \subseteq Gens

RecoveryTypes ==
    /\ archives \in [Gens -> SUBSET ArchiveKinds]
    /\ signed \in [Gens -> Documents \cup {NoDoc}]
    /\ issued \in Documents \cup {NoDoc} /\ drifted \in BOOLEAN

Positions == [at : {"idle", "notify", "send", "mark", "stages", "ask", "record"},
              n : 0..(MaxAttempts + MaxGens), src : Sources \cup {"none"},
              word : {"none", "ok", "refused", "rejected", "timeout", "repair",
                      "unresolvable", "budget"}]

TickTypes == lease \in Ticks \cup {None} /\ pc \in [Ticks -> Positions]

TypeOK ==
    /\ paused \in BOOLEAN /\ faults \in 0..MaxFaults
    /\ TicketTypes /\ CallTypes /\ TerminalTypes /\ NoticeTypes /\ RecoveryTypes /\ TickTypes

\* The first attempt has been implemented by Hermes; nothing has judged it.
Init ==
    /\ paused = FALSE /\ lease = None
    /\ state = "implementing" /\ limit \in FirstLimits /\ calls = FirstCalls
    /\ work = [n \in Attempts |-> IF n = 1 THEN "filled" ELSE "none"]
    /\ outcome = [n \in Attempts |-> "none"] /\ manual = {} /\ built = 1 /\ marker = 0
    /\ verdict = [n \in Attempts |-> "none"] /\ review = [n \in Attempts |-> "none"]
    /\ route = [n \in Attempts |-> "none"] /\ feedback = [n \in Attempts |-> "none"]
    /\ paid = [n \in Attempts |-> "none"] /\ granted = {} /\ slot = {}
    /\ answer = [k \in Attempts \X Sources |-> "none"]
    /\ terminal = [n |-> 0, src |-> "none", why |-> "none", gen |-> 0, open |-> FALSE]
    /\ notice = [g \in Gens |-> [status |-> "none", owner |-> None]]
    /\ archives = [g \in Gens |-> {}] /\ signed = [g \in Gens |-> NoDoc]
    /\ issued = NoDoc /\ drifted = FALSE
    /\ pc = [t \in Ticks |-> Idle] /\ faults = 0
    /\ sent = [g \in Gens |-> 0] /\ retried = [g \in Gens |-> 0] /\ revived = {}

----------------------------------------------------------------------------
(* What the ledger says.                                                   *)

Latest == CHOOSE n \in Attempts : work[n] # "none" /\ \A m \in Attempts : work[m] # "none" => m <= n
\* The attempt whose validation-N is the newest: the one the router takes.
Judged(n) == verdict[n] # "none" /\ \A m \in Attempts : verdict[m] # "none" => m <= n
Triaged(n) == route[n] \in Sources
\* latest_triage_failure
LastTriage(n) == Triaged(n) /\ \A m \in Attempts : Triaged(m) => m <= n

\* ticket_paid_escalation_candidate
\* Mutant: a candidate whatever became of the ticket.
AnyCandidate(n) == LastTriage(n) /\ ~terminal.open
Candidate(n) == state = "needs_triage" /\ LastTriage(n) /\ ~terminal.open

\* _runtime_marker_lineage_is_authorized, given what is about to be written.
Lineage(from, to, ended, retired) ==
    /\ from >= 1 /\ from < to
    /\ \A k \in from..(to - 1) :
          \/ ended[k] = "repair_requested" /\ route[k] = "repair"
          \/ ended[k] = "failed_retired" /\ k \in retired

Current == IF terminal.gen = 0 THEN {} ELSE {terminal.gen}
Unsafe(g) == notice[g].status \in {"delivering", "delivery_unknown"}
\* Mutant: a delivery under way does not hold up the resolution.
NoticeSafeAnyway == TRUE
\* No delivery of the current terminal's notice is under way or in doubt.
NoticeSafe == \A g \in Current : ~Unsafe(g)
\* pending and retryable notices of the resolved terminal are superseded.
Superseded(g) ==
    IF g \in Current /\ notice[g].status \in {"pending", "retryable"}
    THEN [status |-> "superseded", owner |-> None] ELSE notice[g]

\* A delivery whose lease ran out: its tick is dead or was overtaken.
Lapsed(g) == notice[g].status = "delivering" /\ (notice[g].owner = None \/ notice[g].owner # lease)

\* _validation_recovery_authority_projection_in_transaction
Kinds(n, g) ==
    IF route[n] # "none"
    THEN {"routing"} \cup (IF feedback[n] # "none" THEN {"feedback"} ELSE {})
    ELSE archives[g]
Projected(n) ==
    /\ terminal.gen > 0 /\ terminal.n = n /\ verdict[n] # "none"
    /\ route[n] = "none" => feedback[n] = "none"
Projection(n) ==
    [n |-> n, src |-> terminal.src, gen |-> terminal.gen, open |-> terminal.open,
     kinds |-> Kinds(n, terminal.gen)]

----------------------------------------------------------------------------
(* Ticks.                                                                  *)

At(t, a) == pc[t].at = a
Goto(t, p) == pc' = [pc EXCEPT ![t] = p] /\ UNCHANGED lease
\* release_scheduler_tick: the lease is given back only by the tick that holds it.
End(t) == pc' = [pc EXCEPT ![t] = Idle] /\ lease' = IF lease = t THEN None ELSE lease

\* claim_scheduler_tick
Start(t) ==
    /\ At(t, "idle") /\ ~paused /\ lease = None
    /\ lease' = t /\ pc' = [pc EXCEPT ![t] = [Idle EXCEPT !.at = "notify"]]
    /\ UNCHANGED <<paused, ticketVars, callVars, terminal, noticeVars, recoveryVars, faults>>

\* The process dies; its leases run out.  Elsewhere a death is what Rest is.
Die(t) ==
    /\ pc[t].at \in {"send", "mark", "ask", "record"} /\ faults < MaxFaults /\ faults' = faults + 1
    /\ End(t)
    /\ notice' = [g \in Gens |-> IF notice[g].owner = t THEN [notice[g] EXCEPT !.owner = None]
                                 ELSE notice[g]]
    /\ UNCHANGED <<paused, ticketVars, callVars, terminal, sent, retried, revived, recoveryVars>>

\* The process stalls past its leases and goes on.
Stall(t) ==
    /\ lease = t /\ pc[t].at \in {"send", "mark", "ask", "record"}
    /\ faults < MaxFaults /\ faults' = faults + 1
    /\ lease' = None
    /\ UNCHANGED <<paused, ticketVars, callVars, terminal, noticeVars, recoveryVars, pc>>

----------------------------------------------------------------------------
(* HermesGatewayNotificationWorker.                                        *)

\* Mutant: an expired delivery waits for its own tick.
KeepLapsed(g) == notice[g]
\* recover_expired_gateway_notification_leases
\* Mutant: a delivery that may have happened is tried again.
RetryLapsed(g) == IF Lapsed(g) THEN [status |-> "retryable", owner |-> None] ELSE notice[g]
Recovered(g) == IF Lapsed(g) THEN [status |-> "delivery_unknown", owner |-> None] ELSE notice[g]

\* deliver_one up to the send: recover, then claim the oldest notice that is due; a
\* retryable one is due from its next_attempt_at on.
ClaimNotice(t) ==
    LET now == [g \in Gens |-> Recovered(g)]
        waiting == {g \in Gens : now[g].status = "pending"}
        again == {g \in Gens : now[g].status = "retryable"}
    IN /\ At(t, "notify")
       /\ \/ /\ waiting = {}
             /\ notice' = now
             /\ Goto(t, [Idle EXCEPT !.at = "stages"])
          \/ \E due \in {waiting \cup s : s \in SUBSET again} : \E g \in due :
               /\ \A h \in due : g <= h
               /\ notice' = [now EXCEPT ![g] = [status |-> "delivering", owner |-> t]]
               /\ Goto(t, [Idle EXCEPT !.at = "send", !.n = g])
       /\ UNCHANGED <<paused, ticketVars, callVars, terminal, sent, retried, revived,
                      recoveryVars, faults>>

\* hermes send: accepted; refused ("ok": false or a status other than 0 and 2); rejected
\* for good (status 2); or no answer in time, accepted or not.
Send(t) ==
    /\ At(t, "send")
    /\ \E word \in Words :
          /\ word \in {"refused", "timeout"} => faults < MaxFaults
          /\ faults' = IF word \in {"refused", "timeout"} THEN faults + 1 ELSE faults
          /\ \E taken \in IF word = "ok" THEN {1} ELSE IF word = "timeout" THEN {0, 1} ELSE {0} :
                sent' = [sent EXCEPT ![pc[t].n] = @ + taken]
          /\ Goto(t, [pc[t] EXCEPT !.at = "mark", !.word = word])
    /\ UNCHANGED <<paused, ticketVars, callVars, terminal, notice, retried, revived, recoveryVars>>

\* The marks: each needs the delivery still to be this tick's; one that comes too late
\* leaves the row as it is.
Mark(t) ==
    /\ At(t, "mark")
    /\ LET g == pc[t].n
           word == pc[t].word
           status == IF word = "ok" THEN "delivered"
                     ELSE IF word = "refused" THEN "retryable"
                     ELSE IF word = "rejected" THEN "permanently_failed"
                     ELSE "delivery_unknown"
       IN notice' = IF notice[g].status = "delivering" /\ notice[g].owner = t
                    THEN [notice EXCEPT ![g] = [status |-> status, owner |-> None]]
                    ELSE notice
    /\ End(t)
    /\ UNCHANGED <<paused, ticketVars, callVars, terminal, sent, retried, revived,
                   recoveryVars, faults>>

----------------------------------------------------------------------------
(* The stages.                                                             *)

Staged(t) == At(t, "stages") /\ End(t)
Elsewhere == <<paused, callVars, terminal, noticeVars, recoveryVars, faults>>

\* Hermes implements the open attempt and the tick records it; implementation_completed
\* is written once, by the first attempt.
Reconcile(t) ==
    /\ Staged(t) /\ state = "repairing" /\ work[Latest] = "open"
    /\ work' = [work EXCEPT ![Latest] = "filled"] /\ state' = "implementing"
    /\ built' = IF built = 0 THEN Latest ELSE built
    /\ drifted' = FALSE
    /\ UNCHANGED <<limit, outcome, manual, marker, verdict, review, route, feedback, paid,
                   granted, slot, paused, callVars, terminal, noticeVars, archives, signed,
                   issued, faults>>

\* execute_deterministic_validation_only.  validation_completed is written once, by the
\* first attempt; only an adopted attempt moves it, along an authorized lineage.
Validate(t) ==
    LET n == Latest
        moved == marker = 0 \/ (n \in manual /\ Lineage(marker, n, outcome, slot))
    IN /\ Staged(t) /\ state = "implementing" /\ verdict[n] = "none"
       /\ \E passed \in BOOLEAN :
             /\ verdict' = [verdict EXCEPT ![n] = IF passed THEN "passed" ELSE "failed"]
             /\ state' = IF passed THEN "local_review" ELSE "verifying"
       /\ marker' = IF moved THEN n ELSE marker
       /\ UNCHANGED <<limit, work, outcome, manual, built, review, route, feedback, paid,
                      granted, slot, Elsewhere>>

\* claim_next_scheduler_review joins the attempt that validation_completed names, with
\* the record that row carries.
Review(t) ==
    /\ Staged(t) /\ state = "local_review" /\ marker # 0
    /\ review[marker] = "none" /\ verdict[marker] = "passed"
    /\ \E word \in {"pass", "repair", "escalate"} :
          review' = [review EXCEPT ![marker] = word]
    /\ UNCHANGED <<state, limit, work, outcome, manual, built, marker, verdict, route,
                   feedback, paid, granted, slot, Elsewhere>>

\* plan_scheduler_repair_routing_effect
Decision(n) ==
    IF state = "verifying" THEN IF n >= limit THEN "validation" ELSE "repair"
    ELSE IF review[n] = "pass" THEN "pass"
    ELSE IF review[n] = "escalate" \/ n >= limit THEN "review" ELSE "repair"
Routable(n) ==
    /\ Judged(n) /\ route[n] = "none"
    /\ \/ state = "verifying" /\ verdict[n] = "failed"
       \/ state = "local_review" /\ review[n] # "none"

\* The feedback of a triage is written before the route.
WriteFeedback(t) ==
    /\ Staged(t)
    /\ \E n \in Attempts :
          /\ Routable(n) /\ Decision(n) \in Sources /\ feedback[n] = "none"
          /\ feedback' = [feedback EXCEPT ![n] = Decision(n)]
    /\ UNCHANGED <<state, limit, work, outcome, manual, built, marker, verdict, review, route,
                   paid, granted, slot, Elsewhere>>

\* apply_scheduler_repair_routing_effect
Route(t) ==
    /\ Staged(t)
    /\ \E n \in Attempts :
          LET decision == Decision(n)
          IN /\ Routable(n)
             /\ decision \in Sources => feedback[n] = decision
             /\ decision = "repair" => n < MaxAttempts
             /\ route' = [route EXCEPT ![n] = decision]
             /\ state' = IF decision = "repair" THEN "repairing"
                         ELSE IF decision = "pass" THEN state ELSE "needs_triage"
             /\ IF decision = "repair"
                THEN /\ work' = [work EXCEPT ![n + 1] = IF @ = "none" THEN "open" ELSE @]
                     /\ outcome' = [outcome EXCEPT ![n] = "repair_requested"]
                ELSE UNCHANGED <<work, outcome>>
    /\ UNCHANGED <<limit, manual, built, marker, verdict, review, feedback, paid, granted,
                   slot, Elsewhere>>

\* Nothing to do for this ticket, or a stage that raises.
Rest(t) == Staged(t) /\ UNCHANGED <<ticketVars, Elsewhere>>

----------------------------------------------------------------------------
(* Paid escalation: execute_ticket_paid_escalation takes no stage claim.   *)

\* It reads the latest triage and sees that its feedback exists.
Escalate(t) ==
    /\ At(t, "stages")
    /\ \E n \in Attempts :
          /\ Candidate(n) /\ terminal.gen < MaxGens
          /\ feedback[n] \in {"none", route[n]}
          /\ feedback' = [feedback EXCEPT ![n] = route[n]]
          /\ Goto(t, [Idle EXCEPT !.at = "ask", !.n = n, !.src = route[n]])
    /\ UNCHANGED <<state, limit, work, outcome, manual, built, marker, verdict, review, route,
                   paid, granted, slot, Elsewhere>>

\* PaidModelAdapter.invoke: one durable answer per request key; a key without one takes a
\* call of the budget.
Ask(t) ==
    LET key == <<pc[t].n, pc[t].src>>
    IN /\ At(t, "ask")
       /\ \/ /\ answer[key] # "none"
             /\ Goto(t, [pc[t] EXCEPT !.at = "record", !.word = answer[key]])
             /\ UNCHANGED callVars
          \/ /\ answer[key] = "none" /\ calls > 0 /\ calls' = calls - 1
             /\ \E word \in {"unresolvable"} \cup (IF pc[t].n < MaxAttempts THEN {"repair"} ELSE {}) :
                   /\ answer' = [answer EXCEPT ![key] = word]
                   /\ Goto(t, [pc[t] EXCEPT !.at = "record", !.word = word])
          \/ /\ answer[key] = "none" /\ calls = 0
             /\ Goto(t, [pc[t] EXCEPT !.at = "record", !.word = "budget"])
             /\ UNCHANGED callVars
       /\ UNCHANGED <<paused, ticketVars, terminal, noticeVars, recoveryVars, faults>>

\* apply_paid_repair_authorization
Repairable(t) ==
    LET n == pc[t].n
    IN /\ paid[n] = "none" /\ state = "needs_triage" /\ route[n] = pc[t].src
       /\ work[n] = "filled" /\ n < MaxAttempts /\ work[n + 1] = "none"
RecordRepair(t) ==
    LET n == pc[t].n
    IN /\ At(t, "record") /\ pc[t].word = "repair"
       /\ IF Repairable(t)
          THEN /\ work' = [work EXCEPT ![n + 1] = "open"]
               /\ outcome' = [outcome EXCEPT ![n] = "repair_requested"]
               /\ paid' = [paid EXCEPT ![n] = pc[t].src]
               /\ state' = "repairing"
          ELSE UNCHANGED <<work, outcome, paid, state>>
       /\ End(t)
       /\ UNCHANGED <<limit, manual, built, marker, verdict, review, route, feedback, granted,
                      slot, Elsewhere>>

\* record_terminal_unresolvable.  An unresolved terminal must be this one; the state is
\* only asked whether it may become blocked.
Blockable == ~terminal.open /\ (state = "blocked" \/ "blocked" \in Allowed(state))
RecordTerminal(t) ==
    LET g == terminal.gen + 1
    IN /\ At(t, "record") /\ pc[t].word \in {"unresolvable", "budget"}
       /\ IF Blockable
          THEN /\ terminal' = [n |-> pc[t].n, src |-> pc[t].src, why |-> pc[t].word, gen |-> g,
                               open |-> TRUE]
               /\ notice' = [notice EXCEPT ![g] = [status |-> "pending", owner |-> None]]
               /\ state' = "blocked"
          ELSE UNCHANGED <<terminal, notice, state>>
       /\ End(t)
       /\ UNCHANGED <<paused, limit, work, outcome, manual, built, marker, verdict, review,
                      route, feedback, paid, granted, slot, callVars, sent, retried, revived,
                      recoveryVars, faults>>

----------------------------------------------------------------------------
(* The operator.                                                           *)

Pause == ~paused /\ paused' = TRUE
Resume == paused /\ issued = NoDoc /\ paused' = FALSE
Switch ==
    /\ Pause \/ Resume
    /\ UNCHANGED <<ticketVars, callVars, terminal, noticeVars, recoveryVars, tickVars, faults>>

Escalating(t) == pc[t].at \in {"ask", "record"}
\* The operator holds back until no escalation is under way; nothing in the code does.
Quiet == Orderly => \A t \in Ticks : ~Escalating(t)

\* paid_approvals
ApproveCall ==
    /\ Quiet /\ calls = 0 /\ calls < MaxCalls /\ FirstCalls < MaxCalls /\ terminal.why = "budget"
    /\ calls' = calls + 1
    /\ UNCHANGED <<paused, ticketVars, answer, terminal, noticeVars, recoveryVars, tickVars, faults>>

\* resolve_gateway_notification
Retriable == {"delivery_unknown", "permanently_failed"}
ResolveNotice ==
    /\ paused
    /\ \E g \in Gens :
          \/ /\ notice[g].status = "delivery_unknown"
             /\ notice' = [notice EXCEPT ![g].status = "delivered"]
             /\ UNCHANGED <<retried, revived>>
          \/ /\ notice[g].status \in Retriable
             /\ \A h \in Gens : retried[h] < MaxRetries       \* a bound
             /\ notice' = [notice EXCEPT ![g].status = "retryable"]
             /\ retried' = [retried EXCEPT ![g] = @ + 1]
             /\ revived' = IF g \notin Current \/ ~terminal.open THEN revived \cup {g} ELSE revived
    /\ UNCHANGED <<ticketVars, paused, callVars, terminal, sent, recoveryVars, tickVars, faults>>

Resolvable == paused /\ Quiet /\ terminal.open /\ state = "blocked" /\ NoticeSafe
Resolve ==
    /\ terminal' = [terminal EXCEPT !.open = FALSE]
    /\ notice' = [g \in Gens |-> Superseded(g)]
    /\ UNCHANGED <<sent, retried, revived>>

\* resolve_terminal_with_additional_local_budget, one more attempt
AddLocalBudget ==
    LET n == Latest
    IN /\ Resolvable /\ work[n] = "filled" /\ n < MaxAttempts
       /\ Resolve
       /\ work' = [work EXCEPT ![n + 1] = "open"]
       /\ outcome' = [outcome EXCEPT ![n] = "repair_requested"]
       /\ granted' = granted \cup {n}
       /\ limit' = (IF limit > n THEN limit ELSE n) + 1
       /\ state' = "repairing"
       /\ UNCHANGED <<paused, manual, built, marker, verdict, review, route, feedback, paid, slot,
                      callVars, recoveryVars, tickVars, faults>>

\* reopen_terminal_ticket_after_paid_budget
Reopen ==
    /\ Resolvable /\ terminal.why = "budget" /\ calls > 0
    /\ Resolve
    /\ state' = "needs_triage"
    /\ UNCHANGED <<paused, limit, work, outcome, manual, built, marker, verdict, review, route,
                   feedback, paid, granted, slot, callVars, recoveryVars, tickVars, faults>>

\* Mutant: any triaged attempt may be followed, whatever followed it already.
TriagedCandidate(n) == Triaged(n) /\ work[n] = "filled" /\ n < MaxAttempts
\* A triaged candidate that no attempt has followed.
Unfollowed(n) == Triaged(n) /\ work[n] = "filled" /\ n < MaxAttempts /\ work[n + 1] = "none"

\* authorize_additional_local_attempt_after_triage: attempt n is retired and the next one
\* reserved for an implementation adopted by hand.
AuthorizeLocal ==
    /\ paused /\ Quiet /\ state = "needs_triage"
    /\ \E n \in Attempts :
          /\ Unfollowed(n) /\ n \notin slot          \* primary key of the reconciliations
          /\ slot' = slot \cup {n}
          /\ outcome' = [outcome EXCEPT ![n] = "failed_retired"]
          /\ limit' = (IF limit > n THEN limit ELSE n) + 1
    /\ state' = "ready_local"
    /\ UNCHANGED <<paused, work, manual, built, marker, verdict, review, route, feedback, paid,
                   granted, callVars, terminal, noticeVars, recoveryVars, tickVars, faults>>

\* The rows of an adoption of attempt n, once its predecessor is retired.
AdoptAs(n, ended, retired) ==
    /\ n <= MaxAttempts /\ work[n] = "none"
    /\ built = n \/ Lineage(built, n, ended, retired)
    /\ work' = [work EXCEPT ![n] = "filled"] /\ manual' = manual \cup {n} /\ built' = n
    /\ outcome' = ended /\ slot' = retired
    /\ state' = "implementing" /\ drifted' = FALSE
    /\ UNCHANGED <<paused, marker, verdict, review, route, feedback, paid, granted, callVars,
                   archives, signed, issued, tickVars, faults>>

\* adopt_existing_implementation on a reserved attempt
Adopt ==
    /\ paused /\ state = "ready_local" /\ slot # {}
    /\ LET r == CHOOSE k \in slot : \A m \in slot : m <= k
       IN /\ outcome[r] = "failed_retired" /\ work[r] = "filled" /\ r + 1 <= limit
          /\ AdoptAs(r + 1, outcome, slot)
    /\ UNCHANGED <<limit, terminal, noticeVars>>

\* adopt_existing_implementation with resolve_terminal
AdoptTerminal ==
    LET n == Latest
    IN /\ Resolvable /\ work[n] = "filled" /\ n < MaxAttempts /\ n \notin slot
       /\ Resolve
       /\ AdoptAs(n + 1, [outcome EXCEPT ![n] = "failed_retired"], slot \cup {n})
       /\ limit' = IF limit > n THEN limit ELSE n + 1

----------------------------------------------------------------------------
(* Recovery from a defect of the validator.                                *)

\* validation_recovery_candidate_snapshot: the worktree is as it was validated.
Frozen == ~drifted
\* prepare_validation_controller_defect_recovery shows what the document must say, and the
\* operator signs it.  The controller asks that it is still true of a candidate that failed.
Approved(n) ==
    /\ Projected(n) /\ signed[terminal.gen] = NoDoc /\ archives[terminal.gen] = {}
    /\ state = "blocked" /\ verdict[n] = "failed"
\* The candidate passes now, and a capability is issued for one transaction.
Issue ==
    /\ paused /\ issued = NoDoc /\ Frozen
    /\ \E n \in Attempts : Approved(n) /\ issued' = Projection(n)
    /\ UNCHANGED <<paused, ticketVars, callVars, terminal, noticeVars, archives, signed,
                   drifted, tickVars, faults>>

\* Somebody edits the worktree meanwhile.
Drift ==
    /\ issued # NoDoc /\ state = "blocked" /\ ~drifted /\ faults < MaxFaults /\ faults' = faults + 1
    /\ drifted' = TRUE
    /\ UNCHANGED <<paused, ticketVars, callVars, terminal, noticeVars, archives, signed, issued, tickVars>>

\* The capability is revoked: the call raises, or the process dies.
Revoke ==
    /\ issued # NoDoc /\ issued' = NoDoc
    /\ UNCHANGED <<paused, ticketVars, callVars, terminal, noticeVars, archives, signed,
                   drifted, tickVars, faults>>

\* Mutant: the candidate is not looked at again when the transaction commits.
UsableOnce(doc) == doc # NoDoc
\* validate_and_consume, and the guard of the commit: one use, on the frozen candidate.
Usable(doc) == doc # NoDoc /\ Frozen
\* recover_terminal_validation_controller_defect
Recoverable(doc) ==
    /\ paused /\ state = "blocked" /\ Projected(doc.n) /\ doc = Projection(doc.n)
    /\ terminal.open /\ verdict[doc.n] = "failed" /\ review[doc.n] = "none"
    /\ signed[terminal.gen] \in {NoDoc, doc}

\* The lineage of what is archived: the failure of the validation, routed and fed back.
Archivable(n) ==
    /\ terminal.src = "validation" /\ route[n] \in {"none", "validation"}
    /\ feedback[n] \in {"none", route[n]}
\* Mutant: the feedback is deleted without a copy.
RouteOnly(doc) == doc.kinds \ {"feedback"}
ArchivedAs(doc) == doc.kinds
\* What was archived is deleted.
FeedbackAfter(n) == [feedback EXCEPT ![n] = "none"]

Recover ==
    LET n == issued.n
        g == terminal.gen
    IN /\ Usable(issued) /\ Recoverable(issued) /\ Archivable(n) /\ Quiet /\ NoticeSafe
       /\ Resolve
       /\ signed' = [signed EXCEPT ![g] = issued]
       /\ archives' = [archives EXCEPT ![g] = ArchivedAs(issued)]
       /\ route' = [route EXCEPT ![n] = "none"] /\ feedback' = FeedbackAfter(n)
       /\ verdict' = [verdict EXCEPT ![n] = "passed"] /\ marker' = n
       /\ state' = "local_review" /\ issued' = NoDoc
       /\ UNCHANGED <<paused, limit, work, outcome, manual, built, review, paid, granted, slot,
                      callVars, drifted, tickVars, faults>>

\* reconcile_validation_controller_defect_completion_marker
ReconcileMarker ==
    /\ paused /\ state \in {"verifying", "local_review"}
    /\ \E g \in Gens :
          /\ signed[g] # NoDoc /\ archives[g] = signed[g].kinds
          /\ \A h \in Gens : signed[h].n = signed[g].n => h <= g
          /\ verdict[signed[g].n] = "passed" /\ marker # signed[g].n
          /\ marker' = signed[g].n
    /\ UNCHANGED <<paused, state, limit, work, outcome, manual, built, verdict, review, route,
                   feedback, paid, granted, slot, callVars, terminal, noticeVars, recoveryVars,
                   tickVars, faults>>

----------------------------------------------------------------------------
Step(t) ==
    \/ ClaimNotice(t) \/ Send(t) \/ Mark(t)
    \/ Reconcile(t) \/ Validate(t) \/ Review(t) \/ WriteFeedback(t) \/ Route(t) \/ Rest(t)
    \/ Escalate(t) \/ Ask(t) \/ RecordRepair(t) \/ RecordTerminal(t)

Operator ==
    \/ Switch \/ ApproveCall \/ ResolveNotice \/ AddLocalBudget \/ Reopen \/ AuthorizeLocal
    \/ Adopt \/ AdoptTerminal \/ Issue \/ Drift \/ Revoke \/ Recover \/ ReconcileMarker

Next ==
    \/ \E t \in Ticks : Start(t) \/ Step(t) \/ Die(t) \/ Stall(t)
    \/ Operator

Spec == Init /\ [][Next]_vars

\* A pause ends, ticks keep being started, those that run go on as a whole, though one of
\* them may stall for ever; an operator's recovery ends in one way or the other.
FairSpec ==
    /\ Spec /\ SF_vars(Switch /\ paused) /\ WF_vars(Revoke)
    /\ SF_vars(\E t \in Ticks : Start(t))
    /\ WF_vars(\E t \in Ticks : Step(t))

----------------------------------------------------------------------------
(* Properties.                                                             *)

Settled == {"delivered", "permanently_failed", "superseded"}

\* Once a terminal failure is resolved its notice is settled, so that nothing announces a
\* failure that is over, unless the operator retries one that had failed for good: the
\* resolution races the tick that claims, sends and marks the notice.
QuietWhenResolved ==
    \A g \in Gens \ revived :
        (g < terminal.gen \/ (g = terminal.gen /\ ~terminal.open)) => notice[g].status \in Settled

\* The gateway takes a notice once, and once more for every retry the operator asks for,
\* whichever ticks die or stall around the send: a delivery in doubt is never repeated.
SentOnce == \A g \in Gens : sent[g] <= 1 + retried[g]

Authorizations(n) ==
    {a \in {"route", "paid", "granted", "slot"} :
        \/ a = "route" /\ route[n] = "repair"
        \/ a = "paid" /\ paid[n] # "none"
        \/ a = "granted" /\ n \in granted
        \/ a = "slot" /\ n \in slot}

\* The router, the paid model and the operator in two ways each authorize the attempt after
\* n; among them one does, and no attempt exists that none of them authorized.
OneAuthorization ==
    \A n \in Attempts :
        /\ Cardinality(Authorizations(n)) <= 1
        /\ n < MaxAttempts /\ work[n + 1] # "none" => Authorizations(n) # {}

\* Evidence, notices and ticks keep their types, and every attempt has one authority.
Consistent == TypeOK /\ OneAuthorization

\* A ticket under local review, recovered or not, has a passing validation of the latest
\* attempt, no trace of a failed one that would be routed, and no open terminal failure;
\* its worktree is the one that was validated.
CleanUnderReview ==
    state = "local_review" =>
        /\ verdict[Latest] = "passed" /\ route[Latest] \notin Sources
        /\ feedback[Latest] # "validation" /\ ~terminal.open /\ ~drifted

\* The route and the feedback of a failure disappear only into the archives of the terminal
\* failure that the operator's signed document names, exactly as it lists them.
ArchivedOnly ==
    [][\A n \in Attempts :
          \/ route[n] \in Sources /\ route'[n] # route[n]
          \/ feedback[n] # "none" /\ feedback'[n] # feedback[n]
          => LET g == terminal.gen
             IN /\ signed'[g].n = n /\ archives'[g] = signed'[g].kinds
                /\ route[n] # route'[n] => "routing" \in archives'[g]
                /\ feedback[n] # feedback'[n] => "feedback" \in archives'[g]]_vars

\* A terminal failure is recorded of a ticket in triage only.
EscalatedInTriage == [][terminal'.gen # terminal.gen => state = "needs_triage"]_vars

\* Whatever dies or stalls, a notice that waits or is on its way gets an end, if only that
\* its delivery is in doubt or is to be retried: again and again there is none left.
NoticeSettles ==
    []<>(\A g \in Gens : notice[g].status \notin {"pending", "delivering"})
=============================================================================
