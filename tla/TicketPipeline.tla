--------------------------- MODULE TicketPipeline ---------------------------
(***************************************************************************)
(* One ticket on its way from ready_local to done: the eight stages that   *)
(* ProcessNextScheduler._process_claimed_tick runs for it, the durable     *)
(* evidence each leaves for the next, and the recovery of a stage that a   *)
(* crash or an exception cut short.                                        *)
(*                                                                         *)
(* One action is one ledger transaction or one external step of a tick; an *)
(* operator may pause, invalidate an acceptance or authorize another       *)
(* review between any two, and the process may die or raise.  Ticks do not *)
(* overlap (SchedulerClaims is about those that do), and all calls of a    *)
(* tick use the clock value read at its start, so leases run down only     *)
(* between ticks.  Left out: deliveries to the board and the paid calls    *)
(* (modules of their own), execution by Hermes, the triage feedback        *)
(* runner, the children of a decomposed ticket, retirement of a failed     *)
(* attempt by an operator, and other tickets moving the integration head.  *)
(***************************************************************************)
EXTENDS Integers, FiniteSets

CONSTANTS
    Attempts,        \* the attempt numbers considered, 1..n
    InitialMax,      \* max_attempts of the imported ticket
    MaxReviews,      \* _MAX_REVIEW_INVOCATIONS
    Lease,           \* lease_seconds, in the units leases are counted in
    MaxCrashes, MaxExceptions, MaxPauses    \* bounds on what goes wrong

ASSUME AttemptsAssumption ==
    IsFiniteSet(Attempts) /\ Attempts # {} /\ Attempts = 1..Cardinality(Attempts)
ASSUME InitialMaxAssumption == InitialMax \in Attempts
ASSUME LeaseAssumption == Lease \in Nat \ {0}
ASSUME BoundsAssumption == {MaxReviews, MaxCrashes, MaxExceptions, MaxPauses} \subseteq Nat

\* The stages in the order in which a tick asks for a claim.
Order == <<"implementation", "validation", "review", "repair_routing", "triage",
           "acceptance", "git_integration", "completion">>
Families == {Order[i] : i \in 1..8}
ModelFamilies == {"implementation", "review", "triage"}

\* scheduler_stage_claims has one row for a stage "family:attempt"; the first
\* implementation claim, named without a number, is that of attempt 1.
Claims == Families \X Attempts
NoClaim == <<"none", 0>>

Numbers == Attempts \cup {0}            \* 0 where there is no attempt
Open == {"claimed", "begun", "applied"} \* status='claimed', by how far the effect is
ClaimStatuses == Open \cup {"absent", "completed", "failed"}
CallStatuses == {"none", "started", "completed", "failed"}
Validations == {"none", "passed", "failed"}
\* "note" is the verdict repair without a valid finding.
Verdicts == {"pass", "note", "repair", "escalate"}
Proposals == {"decompose", "block", "checkpoint"}
Routes == {"pass", "repair", "triage"}
States == {"ready_local", "implementing", "verifying", "local_review", "repairing",
           "needs_triage", "needs_checkpoint", "blocked", "accepted", "done"}
Steps == {"idle", "reconcile", "claim", "begin", "check", "launch", "run", "record", "mark",
          "advance", "decide", "note", "intent", "commit", "ref", "apply", "finalize"}

VARIABLES
    state, maxAttempts, left, holder,   \* tickets; left and holder are its lease
    claim,                              \* scheduler_stage_claims
    attempt, manual,                    \* the latest attempts row; those adopted by hand
    call, artifact, auth,               \* model_invocations, model_stage_artifacts,
                                        \* review_retry_authorizations
    validation, marker,                 \* runtime_stages: validation-N, validation_completed
    verdict, reviewed, route,           \* review artifact, review_results, repair-routing-N
    proposal, planned,                  \* triage artifact, triage-applied-N
    accepted, invalidated, replacement, \* accepted_candidates and its two companions
    intent, head, ref, evidence,        \* git_commit_intents, worktree HEAD, integration
                                        \* head, git_commit_evidence
    pc, scope, held,                    \* the running tick
    paused, pauses, crashes, exceptions

ticketVars == <<state, maxAttempts, left, holder>>
attemptVars == <<attempt, manual>>
modelVars == <<call, artifact, auth>>
stageVars == <<validation, marker, verdict, reviewed, route, proposal, planned>>
acceptVars == <<accepted, invalidated, replacement>>
gitVars == <<intent, head, ref, evidence>>
ledgerVars == <<ticketVars, claim, attemptVars, modelVars, stageVars, acceptVars, gitVars>>
tickVars == <<pc, scope, held>>
faultVars == <<pauses, crashes, exceptions>>
vars == <<ledgerVars, tickVars, paused, faultVars>>

TicketTypes ==
    /\ state \in States /\ maxAttempts \in Attempts /\ left \in 0..Lease
    /\ holder \in Claims \cup {NoClaim}
    /\ attempt \in Numbers /\ manual \subseteq Attempts

ClaimTypes ==
    claim \in [Claims -> [status : ClaimStatuses, left : 0..Lease, since : 0..Cardinality(Claims)]]

ModelTypes ==
    /\ call \in [ModelFamilies \X Attempts -> [status : CallStatuses, launches : Nat]]
    /\ artifact \subseteq ModelFamilies \X Attempts
    /\ auth \in [Attempts -> [open : BOOLEAN, used : Nat]]

StageTypes ==
    /\ validation \in [Attempts -> Validations] /\ marker \in Numbers
    /\ verdict \in [Attempts -> Verdicts \cup {"none"}] /\ reviewed \subseteq Attempts
    /\ route \in [Attempts -> Routes \cup {"none"}]
    /\ proposal \in [Attempts -> Proposals \cup {"none"}] /\ planned \subseteq Attempts

AcceptTypes ==
    /\ accepted \in Numbers /\ invalidated \in Numbers /\ replacement \in Numbers
    /\ intent \in [attempt : Numbers, status : {"none", "started", "completed"}]
    /\ head \in Numbers /\ ref \in Numbers /\ evidence \in Numbers

TickTypes ==
    /\ pc \in Steps /\ scope \subseteq Families /\ held \in Claims \cup {NoClaim}
    /\ paused \in BOOLEAN
    /\ pauses \in 0..MaxPauses /\ crashes \in 0..MaxCrashes /\ exceptions \in 0..MaxExceptions

TypeOK == TicketTypes /\ ClaimTypes /\ ModelTypes /\ StageTypes /\ AcceptTypes /\ TickTypes

Init ==
    /\ state = "ready_local" /\ maxAttempts = InitialMax /\ left = 0 /\ holder = NoClaim
    /\ claim = [c \in Claims |-> [status |-> "absent", left |-> 0, since |-> 0]]
    /\ attempt = 0 /\ manual = {}
    /\ call = [s \in ModelFamilies \X Attempts |-> [status |-> "none", launches |-> 0]]
    /\ artifact = {}
    /\ auth = [a \in Attempts |-> [open |-> FALSE, used |-> 0]]
    /\ validation = [a \in Attempts |-> "none"] /\ marker = 0
    /\ verdict = [a \in Attempts |-> "none"] /\ reviewed = {}
    /\ route = [a \in Attempts |-> "none"]
    /\ proposal = [a \in Attempts |-> "none"] /\ planned = {}
    /\ accepted = 0 /\ invalidated = 0 /\ replacement = 0
    /\ intent = [attempt |-> 0, status |-> "none"] /\ head = 0 /\ ref = 0 /\ evidence = 0
    /\ pc = "idle" /\ scope = {} /\ held = NoClaim
    /\ paused = FALSE /\ pauses = 0 /\ crashes = 0 /\ exceptions = 0

----------------------------------------------------------------------------
(* What the ledger says.                                                   *)

Largest(S) == IF S = {} THEN 0 ELSE CHOOSE n \in S : \A m \in S : m <= n

\* _effective_accepted_candidate_in_transaction
Effective == IF replacement # 0 THEN replacement ELSE IF invalidated # 0 THEN 0 ELSE accepted

\* side_effect_completed_at IS NOT NULL
Effected(f, a) == claim[<<f, a>>].status \in {"applied", "completed"}

Implemented == Largest({a \in Attempts : <<"implementation", a>> \in artifact})
Validated == Largest({a \in Attempts : validation[a] # "none"})
Produced(a) == a \in manual \/ call[<<"implementation", a>>].status = "completed"

\* The attempt execute_implementation_model_only works on.  It would number a new
\* one if the latest had no worktree; that is attempt 1 between ensure_attempt and
\* _attempt, where the begun claim without a model call stops (Decision).
Number == IF attempt = 0 THEN 1 ELSE attempt

\* A review claim whose result led to an acceptance is never recovered.
Retired(c) == c[1] = "review" /\ c[2] \in reviewed /\ state \in {"accepted", "done"}
Lapsed(c) == claim[c].status \in Open /\ claim[c].left = 0 /\ ~Retired(c)

\* ORDER BY created_at
Oldest(S) == {c \in S : \A d \in S : claim[c].since <= claim[d].since}

\* Implementation claims carry no identity: the latest invocation of any attempt.
LatestCall(c) ==
    IF c[1] = "implementation"
    THEN call[<<c[1], Largest({1} \cup {a \in Attempts : call[<<c[1], a>>].launches > 0})>>].status
    ELSE call[c].status

\* Mutant: whatever was begun stops, unless its model call completed.
DecisionStops(c) ==
    IF claim[c].status # "begun" \/ (c[1] \in ModelFamilies /\ LatestCall(c) = "completed")
    THEN "REPLAY" ELSE "STOP"

\* scheduler_reconciliation: may this open claim be taken up again?
Decision(c) ==
    IF claim[c].status # "begun" \/ c[1] \notin ModelFamilies \/ LatestCall(c) = "completed"
       \/ (c[1] = "review" /\ LatestCall(c) = "failed" /\ auth[c[2]].open)
    THEN "REPLAY" ELSE "STOP"

EndTick == pc' = "idle" /\ scope' = {} /\ held' = NoClaim
Goto(step) == pc' = step /\ UNCHANGED <<scope, held>>

\* An exception leaves the tick; the claim keeps what is left of its lease.
Raise == EndTick /\ UNCHANGED <<ledgerVars, paused, faultVars>>

At(step, families) == pc = step /\ held[1] \in families
Owned == claim[held].status \in Open

----------------------------------------------------------------------------
(* Start of a tick, and time between ticks.                                *)

StartTick ==
    /\ pc = "idle" /\ ~paused
    /\ pc' = "reconcile"
    /\ UNCHANGED <<ledgerVars, scope, held, paused, faultVars>>

\* next_scheduler_reconciliation: the oldest lapsed claim ends the tick or
\* restricts it to the family of that claim.
Reconcile ==
    LET lapsed == {c \in Claims : Lapsed(c)} IN
    /\ pc = "reconcile"
    /\ \/ /\ lapsed = {}
          /\ pc' = "claim" /\ scope' = Families /\ held' = held
       \/ \E c \in Oldest(lapsed) :
             IF Decision(c) = "STOP" THEN EndTick
             ELSE pc' = "claim" /\ scope' = {c[1]} /\ held' = held
    /\ UNCHANGED <<ledgerVars, paused, faultVars>>

Wait ==
    /\ pc = "idle"
    /\ left > 0 \/ \E c \in Claims : claim[c].left > 0
    /\ left' = IF left > 0 THEN left - 1 ELSE 0
    /\ claim' = [c \in Claims |-> [claim[c] EXCEPT !.left = IF @ > 0 THEN @ - 1 ELSE 0]]
    /\ UNCHANGED <<state, maxAttempts, holder, attemptVars, modelVars, stageVars, acceptVars,
                   gitVars, tickVars, paused, faultVars>>

----------------------------------------------------------------------------
(* claim_next_scheduler_*.                                                 *)

LapsedIn(f) == {c \in Claims : c[1] = f /\ Lapsed(c)}

\* The review query finds this attempt, whatever its validation said.
Reviewable ==
    {a \in Attempts : /\ state = "local_review" /\ a = marker
                      /\ <<"implementation", a>> \in artifact /\ Produced(a)
                      /\ Effected("validation", a)}

\* Mutant: acceptance trusts the router and does not look at the verdict.
PassEligibleRouted(a) == route[a] = "pass" /\ a \in reviewed

\* Reviewed and routed to acceptance.
PassEligible(a) == route[a] = "pass" /\ a \in reviewed /\ verdict[a] = "pass"

NeedsAcceptance == accepted = 0 \/ (invalidated # 0 /\ replacement = 0)

Eligible(f) ==
    CASE f = "implementation" ->
           {a \in {Number} : /\ state \in {"ready_local", "repairing"} /\ left = 0
                             /\ \A b \in Attempts : claim[<<f, b>>].status \notin Open}
      [] f = "validation" ->
           {a \in Attempts : state = "implementing" /\ a = Implemented /\ validation[a] = "none"}
      [] f = "review" -> {a \in Reviewable : validation[a] = "passed"}
      [] f = "repair_routing" ->
           {a \in Attempts : /\ a = Validated
                             /\ \/ state = "verifying" /\ \E b \in Attempts : validation[b] = "failed"
                                \/ state = "local_review" /\ \E b \in Attempts : <<"review", b>> \in artifact}
      [] f = "triage" ->
           {a \in Attempts : state = "needs_triage" /\ route[a] = "triage" /\ left = 0}
      [] f = "acceptance" ->
           {a \in Attempts : state = "local_review" /\ PassEligible(a) /\ NeedsAcceptance /\ left = 0}
      [] f = "git_integration" ->
           {a \in Attempts : state = "accepted" /\ evidence = 0 /\ a = Effective /\ left = 0}
      [] f = "completion" ->
           {a \in Attempts : /\ state = "accepted" /\ a = Effective /\ evidence = a /\ left = 0
                             /\ intent = [attempt |-> a, status |-> "completed"]}

Fresh(f) == {c \in Claims : c[1] = f /\ c[2] \in Eligible(f) /\ claim[c].status = "absent"}

\* Authority is checked again before a claim of these two is taken over.
Authorized(c) ==
    CASE c[1] = "git_integration" -> state = "accepted" /\ Effective = c[2]
      [] c[1] = "completion" ->
           /\ state = IF claim[c].status = "applied" THEN "done" ELSE "accepted"
           /\ Effective = c[2] /\ evidence = c[2]
      [] OTHER -> TRUE

\* claim_next_scheduler_review raises on evidence that does not pass.
Incomplete(f) ==
    /\ f = "review" /\ LapsedIn(f) = {} /\ Fresh(f) = {}
    /\ \E a \in Reviewable : validation[a] # "passed" /\ claim[<<f, a>>].status = "absent"

Asks(f) == f \in scope /\ (LapsedIn(f) # {} \/ Fresh(f) # {} \/ Incomplete(f))

\* A replay renews the ticket's lease, conditionally for the first two stages.
Renews(c) ==
    CASE c[1] = "implementation" -> state = "implementing"
      [] c[1] = "validation" -> holder = c
      [] OTHER -> TRUE

\* The tick begins an implementation at once and rereads any other claim; a
\* validation result is checked again even if it is durable already.
AfterBegin(c) == IF c[1] \in {"repair_routing", "completion"} THEN "apply" ELSE "check"
FirstStep(c) ==
    IF c[1] = "implementation" \/ claim[c].status \in {"absent", "claimed"} THEN "begin"
    ELSE IF claim[c].status = "begun" THEN AfterBegin(c)
    ELSE IF c[1] = "validation" THEN "apply" ELSE "finalize"

TakeOver(c) ==
    /\ claim' = [claim EXCEPT ![c].left = Lease]
    /\ IF Renews(c) THEN left' = Lease /\ holder' = c ELSE UNCHANGED <<left, holder>>
    /\ state' = state

Insert(c) ==
    /\ claim' = [claim EXCEPT ![c] = [status |-> "claimed", left |-> Lease,
                    since |-> 1 + Cardinality({d \in Claims : claim[d].status # "absent"})]]
    /\ left' = Lease /\ holder' = c
    /\ state' = CASE c[1] = "implementation" -> "implementing"
                  [] c[1] = "validation" -> "verifying"
                  [] OTHER -> state

\* The first stage with something to do is claimed, or raises; the queries of
\* the stages before it found nothing.
ClaimStage ==
    /\ pc = "claim" /\ ~paused
    /\ \E i \in 1..8 :
        LET f == Order[i] IN
        /\ Asks(f) /\ \A j \in 1..(i-1) : ~Asks(Order[j])
        /\ \/ \E c \in Oldest(LapsedIn(f)) :
                 \/ /\ Authorized(c)
                    /\ TakeOver(c)
                    /\ pc' = FirstStep(c) /\ held' = c /\ scope' = {}
                 \/ ~Authorized(c) /\ EndTick /\ UNCHANGED <<claim, left, holder, state>>
           \/ /\ LapsedIn(f) = {}
              /\ \E c \in Fresh(f) :
                    /\ \A d \in Fresh(f) : d[2] <= c[2]
                    /\ Insert(c)
                    /\ pc' = FirstStep(c) /\ held' = c /\ scope' = {}
           \/ Incomplete(f) /\ EndTick /\ UNCHANGED <<claim, left, holder, state>>
    /\ UNCHANGED <<maxAttempts, attemptVars, modelVars, stageVars, acceptVars, gitVars, paused,
                   faultVars>>

NoWork ==
    /\ pc = "claim"
    /\ paused \/ \A f \in Families : ~Asks(f)
    /\ Raise

----------------------------------------------------------------------------
(* The claimed stage, up to its effect.                                    *)

\* A step that changes nothing durable.
Move(step) == Goto(step) /\ UNCHANGED <<ledgerVars, paused, faultVars>>

\* Mutant: a failure of the last attempt is refused instead of routed.
RoutableWithin(a) ==
    \/ state = "verifying" /\ validation[a] = "failed" /\ a < maxAttempts
    \/ state = "local_review" /\ Effected("review", a)

\* plan_scheduler_repair_routing_effect raises on anything else.
Routable(a) ==
    \/ state = "verifying" /\ validation[a] = "failed"
    \/ state = "local_review" /\ Effected("review", a)

\* begin_scheduler_claim_effect; a routing decision is planned before it.
Begin ==
    /\ pc = "begin"
    /\ IF Owned /\ (held[1] = "repair_routing" => Routable(held[2]))
       THEN /\ claim' = [claim EXCEPT ![held].status = IF @ = "claimed" THEN "begun" ELSE @]
            /\ Goto(IF claim[held].status = "applied" THEN "finalize" ELSE AfterBegin(held))
            /\ UNCHANGED <<ticketVars, attemptVars, modelVars, stageVars, acceptVars, gitVars,
                           paused, faultVars>>
       ELSE Raise

\* ensure_attempt, then what the artifacts and invocations say is left to do.
CheckImplementation ==
    /\ At("check", {"implementation"})
    /\ IF \/ state # "implementing" \/ Number > maxAttempts
          \/ \E s \in DOMAIN call : call[s].status = "started"
       THEN Raise
       ELSE /\ attempt' = Number
            /\ LET status == call[<<"implementation", Number>>].status IN
               CASE <<"implementation", Number>> \in artifact -> Goto("apply")
                 [] <<"implementation", Number>> \notin artifact /\ status = "failed" -> EndTick
                 [] OTHER -> Goto(IF status = "completed" THEN "record" ELSE "launch")
            /\ UNCHANGED <<ticketVars, claim, manual, modelVars, stageVars, acceptVars, gitVars,
                           paused, faultVars>>

CheckValidation ==
    LET a == held[2] IN
    /\ At("check", {"validation"})
    /\ IF \/ state \notin {"verifying", "local_review", "needs_triage"}
          \/ a # Implemented \/ ~Produced(a)
       THEN Raise ELSE Move(IF validation[a] # "none" THEN "advance" ELSE "run")

\* A failed review is repeated under an authorization, a failed triage never.
CheckReview ==
    LET status == call[held].status IN
    /\ At("check", {"review"})
    /\ CASE state # "local_review" -> Raise
         [] state = "local_review" /\ held \in artifact -> Move("apply")
         [] state = "local_review" /\ held \notin artifact ->
              CASE status = "completed" -> Move("record")
                [] status = "none" \/ (status = "failed" /\ auth[held[2]].open) -> Move("launch")
                [] OTHER -> Raise

\* Mutant: a replayed triage looks at artifacts only, not at completed invocations.
CheckTriageAgain ==
    /\ At("check", {"triage"})
    /\ Move(IF held[2] \in planned THEN "apply" ELSE IF held \in artifact THEN "decide" ELSE "launch")

CheckTriage ==
    LET status == call[held].status IN
    /\ At("check", {"triage"})
    /\ CASE held[2] \in planned -> Move("apply")
         [] held[2] \notin planned /\ held \in artifact -> Move("decide")
         [] held[2] \notin planned /\ held \notin artifact ->
              CASE status = "completed" -> Move("record")
                [] status = "none" -> Move("launch")
                [] OTHER -> Raise

\* The live worktree must be the candidate, not yet committed.
CheckAcceptance ==
    /\ At("check", {"acceptance"})
    /\ IF head # 0 THEN Raise ELSE Move("apply")

CheckGit ==
    LET a == held[2] IN
    /\ At("check", {"git_integration"})
    /\ CASE state # "accepted" \/ Effective # a \/ attempt # a -> Raise
         [] state = "accepted" /\ Effective = a /\ attempt = a ->
              CASE head = 0 -> Move("intent")
                [] head = a /\ intent.attempt # 0 -> Move("ref")
                [] OTHER -> Raise

----------------------------------------------------------------------------
(* Model calls.                                                            *)

\* The call a stage makes: an implementation names the latest attempt.
Called == IF held[1] = "implementation" THEN <<held[1], attempt>> ELSE held

\* start_model_invocation, or launch_authorized_review, which uses up the
\* authorization for another review.
Launch ==
    LET again == held[1] = "review" /\ auth[held[2]].open IN
    /\ pc = "launch"
    /\ IF again /\ call[held].launches >= MaxReviews
       THEN Raise
       ELSE /\ call' = [call EXCEPT ![Called] = [status |-> "started", launches |-> @.launches + 1]]
            /\ auth' = IF again
                       THEN [auth EXCEPT ![held[2]] = [open |-> FALSE, used |-> @.used + 1]]
                       ELSE auth
            /\ Goto("run")
            /\ UNCHANGED <<ticketVars, claim, attemptVars, artifact, stageVars, acceptVars, gitVars,
                           paused, faultVars>>

\* The model answers; finish_model_invocation.
Answer ==
    /\ At("run", ModelFamilies)
    /\ call' = [call EXCEPT ![Called].status = "completed"]
    /\ \/ held[1] = "implementation" /\ UNCHANGED <<verdict, proposal>>
       \/ /\ held[1] = "review"
          /\ \E v \in Verdicts : verdict' = [verdict EXCEPT ![held[2]] = v]
          /\ proposal' = proposal
       \/ /\ held[1] = "triage"
          /\ \E p \in Proposals : proposal' = [proposal EXCEPT ![held[2]] = p]
          /\ verdict' = verdict
    /\ Goto("record")
    /\ UNCHANGED <<ticketVars, claim, attemptVars, artifact, auth, validation, marker, reviewed,
                   route, planned, acceptVars, gitVars, paused, faultVars>>

\* Timeout, process error or malformed output.
CallFails ==
    /\ At("run", ModelFamilies) /\ exceptions < MaxExceptions
    /\ call' = [call EXCEPT ![Called].status = "failed"]
    /\ EndTick /\ exceptions' = exceptions + 1
    /\ UNCHANGED <<ticketVars, claim, attemptVars, artifact, auth, stageVars, acceptVars, gitVars,
                   paused, pauses, crashes>>

\* record_model_stage
Record ==
    /\ pc = "record"
    /\ artifact' = artifact \cup {Called}
    /\ Goto(IF held[1] = "triage" THEN "decide" ELSE "apply")
    /\ UNCHANGED <<ticketVars, claim, attemptVars, call, auth, stageVars, acceptVars, gitVars,
                   paused, faultVars>>

----------------------------------------------------------------------------
(* Validation: the result, the marker of the attempt that may be reviewed, *)
(* the ticket's state, each a transaction.                                 *)

Validate ==
    /\ At("run", {"validation"})
    /\ \E v \in {"passed", "failed"} : validation' = [validation EXCEPT ![held[2]] = v]
    /\ Goto("mark")
    /\ UNCHANGED <<ticketVars, claim, attemptVars, modelVars, marker, verdict, reviewed, route,
                   proposal, planned, acceptVars, gitVars, paused, faultVars>>

\* _runtime_marker_lineage_is_authorized
Lineage(from, to) ==
    from < to /\ \A b \in from..(to - 1) : invalidated = b \/ route[b] = "repair"

\* The marker is written once; only an attempt adopted by hand moves it.
Mark ==
    LET a == held[2] IN
    /\ pc = "mark"
    /\ IF a \in manual /\ marker \notin {0, a} /\ ~Lineage(marker, a)
       THEN Raise
       ELSE /\ marker' = IF marker = 0 \/ a \in manual THEN a ELSE marker
            /\ Goto("advance")
            /\ UNCHANGED <<ticketVars, claim, attemptVars, modelVars, validation, verdict, reviewed,
                           route, proposal, planned, acceptVars, gitVars, paused, faultVars>>

ToReview ==
    /\ pc = "advance"
    /\ state' = IF validation[held[2]] = "passed" /\ state = "verifying" THEN "local_review" ELSE state
    /\ Goto("apply")
    /\ UNCHANGED <<maxAttempts, left, holder, claim, attemptVars, modelVars, stageVars, acceptVars,
                   gitVars, paused, faultVars>>

----------------------------------------------------------------------------
(* Triage: the proposal is carried out, then noted.                        *)

Target(p) == IF p = "block" THEN "blocked" ELSE "needs_checkpoint"

Decide ==
    LET p == proposal[held[2]] IN
    /\ pc = "decide"
    /\ IF p # "decompose" /\ state \notin {"needs_triage", Target(p)}
       THEN Raise
       ELSE /\ state' = IF p = "decompose" THEN state ELSE Target(p)
            /\ Goto("note")
            /\ UNCHANGED <<maxAttempts, left, holder, claim, attemptVars, modelVars, stageVars,
                           acceptVars, gitVars, paused, faultVars>>

Note ==
    /\ pc = "note"
    /\ planned' = planned \cup {held[2]}
    /\ Goto("apply")
    /\ UNCHANGED <<ticketVars, claim, attemptVars, modelVars, validation, marker, verdict, reviewed,
                   route, proposal, acceptVars, gitVars, paused, faultVars>>

----------------------------------------------------------------------------
(* Git: intent, commit, integration head.                                  *)

\* Mutant: the intent is recorded without another look at the acceptance.
IntendableUnchecked(a) ==
    intent \in {[attempt |-> 0, status |-> "none"], [attempt |-> a, status |-> "started"]}

\* start_git_commit_intent checks the acceptance once more.
Intendable(a) ==
    /\ Effective = a
    /\ intent \in {[attempt |-> 0, status |-> "none"], [attempt |-> a, status |-> "started"]}

StartIntent ==
    /\ pc = "intent"
    /\ IF Intendable(held[2])
       THEN /\ intent' = [attempt |-> held[2], status |-> "started"]
            /\ Goto("commit")
            /\ UNCHANGED <<ticketVars, claim, attemptVars, modelVars, stageVars, acceptVars, head,
                           ref, evidence, paused, faultVars>>
       ELSE Raise

Commit ==
    /\ pc = "commit"
    /\ head' = held[2] /\ Goto("ref")
    /\ UNCHANGED <<ticketVars, claim, attemptVars, modelVars, stageVars, acceptVars, intent, ref,
                   evidence, paused, faultVars>>

\* advance_integration_head is a compare-and-swap from the accepted base.
AdvanceHead ==
    /\ pc = "ref"
    /\ IF ref \notin {0, head}
       THEN Raise
       ELSE /\ ref' = head /\ Goto("apply")
            /\ UNCHANGED <<ticketVars, claim, attemptVars, modelVars, stageVars, acceptVars, intent,
                           head, evidence, paused, faultVars>>

----------------------------------------------------------------------------
(* The effect of the stage, then the end of its claim, each a transaction  *)
(* that requires the claim's lease.                                        *)

Applied == claim' = [claim EXCEPT ![held].status = "applied"] /\ Goto("finalize")

\* complete_scheduler_*_effect for the stages that left their evidence before;
\* for a validation it may have been called already.
ApplyResult ==
    /\ At("apply", {"implementation", "validation", "review", "triage"})
    /\ IF Owned
       THEN /\ Applied
            /\ UNCHANGED <<ticketVars, attemptVars, modelVars, stageVars, acceptVars, gitVars, paused,
                           faultVars>>
       ELSE Raise

\* Mutant: the limit is checked one attempt late.
ActionLate(a) ==
    CASE state = "local_review" /\ verdict[a] \in {"pass", "note"} -> "pass"
      [] (state = "local_review" /\ verdict[a] = "escalate") \/ a > maxAttempts -> "triage"
      [] OTHER -> "repair"

\* What becomes of an attempt; a repeated failure counts like a new one.
Action(a) ==
    CASE state = "local_review" /\ verdict[a] \in {"pass", "note"} -> "pass"
      [] (state = "local_review" /\ verdict[a] = "escalate") \/ a >= maxAttempts -> "triage"
      [] OTHER -> "repair"

RoutedState(action) ==
    CASE action = "repair" -> "repairing" [] action = "triage" -> "needs_triage" [] OTHER -> state

Route ==
    LET a == held[2]
        action == Action(a) IN
    /\ At("apply", {"repair_routing"})
    /\ IF Owned /\ Routable(a)
       THEN /\ route' = [route EXCEPT ![a] = action]
            /\ reviewed' = IF state = "local_review" THEN reviewed \cup {a} ELSE reviewed
            /\ state' = RoutedState(action)
            /\ attempt' = IF action = "repair" /\ attempt = a THEN a + 1 ELSE attempt
            /\ Applied
            /\ UNCHANGED <<maxAttempts, left, holder, manual, modelVars, validation, marker, verdict,
                           proposal, planned, acceptVars, gitVars, paused, faultVars>>
       ELSE Raise

Acceptable(a) ==
    /\ state = "local_review" /\ PassEligible(a) /\ validation[a] = "passed"
    /\ IF invalidated # 0 THEN replacement \in {0, a} ELSE accepted \in {0, a}

Accept ==
    LET a == held[2] IN
    /\ At("apply", {"acceptance"})
    /\ IF Owned /\ Acceptable(a)
       THEN /\ accepted' = IF accepted = 0 THEN a ELSE accepted
            /\ replacement' = IF invalidated # 0 THEN a ELSE replacement
            /\ state' = "accepted"
            /\ Applied
            /\ UNCHANGED <<maxAttempts, left, holder, attemptVars, modelVars, stageVars, invalidated,
                           gitVars, paused, faultVars>>
       ELSE Raise

ApplyGit ==
    LET a == held[2] IN
    /\ At("apply", {"git_integration"})
    /\ IF Owned /\ state = "accepted" /\ Effective = a /\ intent.attempt = a
       THEN /\ evidence' = a /\ intent' = [intent EXCEPT !.status = "completed"]
            /\ Applied
            /\ UNCHANGED <<ticketVars, attemptVars, modelVars, stageVars, acceptVars, head, ref,
                           paused, faultVars>>
       ELSE Raise

Complete ==
    LET a == held[2] IN
    /\ At("apply", {"completion"})
    /\ IF /\ Owned /\ state = "accepted" /\ Effective = a /\ evidence = a
          /\ intent = [attempt |-> a, status |-> "completed"]
       THEN /\ state' = "done"
            /\ Applied
            /\ UNCHANGED <<maxAttempts, left, holder, attemptVars, modelVars, stageVars, acceptVars,
                           gitVars, paused, faultVars>>
       ELSE Raise

\* complete_scheduler_claim
Finalize ==
    /\ pc = "finalize"
    /\ IF claim[held].status = "applied"
       THEN /\ claim' = [claim EXCEPT ![held].status = "completed", ![held].left = 0]
            /\ IF holder = held THEN left' = 0 /\ holder' = NoClaim ELSE UNCHANGED <<left, holder>>
            /\ EndTick
            /\ UNCHANGED <<state, maxAttempts, attemptVars, modelVars, stageVars, acceptVars, gitVars,
                           paused, faultVars>>
       ELSE Raise

----------------------------------------------------------------------------
(* What goes wrong, and the operator.                                      *)

\* After a death no tick starts until the tick lease has run out, and with it
\* the leases of that tick's claim and of those before it.
Crash ==
    /\ pc # "idle" /\ crashes < MaxCrashes
    /\ crashes' = crashes + 1
    /\ claim' = [c \in Claims |-> [claim[c] EXCEPT !.left = 0]]
    /\ left' = 0
    /\ EndTick
    /\ UNCHANGED <<state, maxAttempts, holder, attemptVars, modelVars, stageVars, acceptVars, gitVars,
                   paused, pauses, exceptions>>

\* An exception between two transactions ends the tick in order.
Abort ==
    /\ pc \notin {"idle", "run"} /\ exceptions < MaxExceptions
    /\ exceptions' = exceptions + 1
    /\ EndTick
    /\ UNCHANGED <<ledgerVars, paused, pauses, crashes>>

Pause ==
    /\ ~paused /\ pauses < MaxPauses
    /\ paused' = TRUE /\ pauses' = pauses + 1
    /\ UNCHANGED <<ledgerVars, tickVars, crashes, exceptions>>

Resume ==
    /\ paused /\ paused' = FALSE
    /\ UNCHANGED <<ledgerVars, tickVars, faultVars>>

\* invalidate_preintegration_acceptance: the worktree is no longer what was
\* accepted, the operator adopts it as the next attempt.
Invalidatable ==
    /\ paused /\ state = "accepted" /\ accepted # 0 /\ invalidated = 0
    /\ intent.attempt = 0 /\ evidence = 0
    /\ claim[<<"git_integration", accepted>>].status # "applied"

Invalidate ==
    LET a == accepted + 1
        git == <<"git_integration", accepted>> IN
    /\ Invalidatable /\ attempt = accepted /\ a \in Attempts
    /\ invalidated' = accepted
    /\ attempt' = a /\ manual' = manual \cup {a}
    /\ artifact' = artifact \cup {<<"implementation", a>>}
    /\ maxAttempts' = IF maxAttempts < a THEN a ELSE maxAttempts
    /\ state' = "implementing" /\ left' = 0 /\ holder' = NoClaim
    /\ claim' = IF claim[git].status \in Open
                THEN [claim EXCEPT ![git].status = "failed", ![git].left = 0] ELSE claim
    /\ UNCHANGED <<call, auth, stageVars, accepted, replacement, gitVars, tickVars, paused, faultVars>>

\* authorize_review_retry: the newest reviewed candidate, its last call failed.
AuthorizeRetry ==
    \E a \in Attempts :
        LET s == <<"review", a>> IN
        /\ state = "local_review" /\ ~auth[a].open
        /\ claim[s].status # "absent"
        /\ \A b \in Attempts : b > a => claim[<<"review", b>>].status = "absent"
        /\ call[s].status = "failed" /\ call[s].launches < MaxReviews /\ s \notin artifact
        /\ auth' = [auth EXCEPT ![a].open = TRUE]
        /\ UNCHANGED <<ticketVars, claim, attemptVars, call, artifact, stageVars, acceptVars, gitVars,
                       tickVars, paused, faultVars>>

----------------------------------------------------------------------------
TickStep ==
    \/ StartTick \/ Reconcile \/ ClaimStage \/ NoWork \/ Begin
    \/ CheckImplementation \/ CheckValidation \/ CheckReview \/ CheckTriage \/ CheckAcceptance
    \/ CheckGit \/ Launch \/ Answer \/ Record \/ Validate \/ Mark \/ ToReview \/ Decide \/ Note
    \/ StartIntent \/ Commit \/ AdvanceHead
    \/ ApplyResult \/ Route \/ Accept \/ ApplyGit \/ Complete \/ Finalize

Next ==
    \/ TickStep \/ Wait
    \/ CallFails \/ Crash \/ Abort
    \/ Pause \/ Resume \/ Invalidate \/ AuthorizeRetry

Spec == Init /\ [][Next]_vars

\* Ticks are run again and again and take their steps, the clock advances
\* between them, and a pause ends.
FairSpec == Spec /\ WF_vars(TickStep) /\ SF_vars(Wait) /\ WF_vars(Resume)

----------------------------------------------------------------------------
(* Properties.                                                             *)

\* What counts as accepted, for commits and for completion, is the latest
\* attempt, and that very attempt passed validation, was reviewed with the
\* verdict pass and was routed on that verdict, whatever was repaired, replayed
\* or invalidated on the way.
AcceptedVerified ==
    state \in {"accepted", "done"} =>
        /\ Effective = attempt /\ Effective # 0
        /\ validation[Effective] = "passed" /\ <<"review", Effective>> \in artifact
        /\ Effective \in reviewed /\ verdict[Effective] = "pass" /\ route[Effective] = "pass"

\* A commit exists only under an intent that names the attempt accepted now: an
\* operator who invalidates an acceptance while a tick is on its way to the
\* commit never leaves a commit of the invalidated candidate behind.
CommitAuthorized ==
    /\ head # 0 => /\ intent.attempt = head /\ Effective = head
                   /\ state \in {"accepted", "done"}
    /\ ref # 0 => ref = head
    /\ state = "done" => head = Effective /\ ref = head /\ evidence = head

\* No crash, exception or replay repeats a model call: one implementation and one
\* triage per attempt, one review and one for every authorization used.
OneInference ==
    \A s \in ModelFamilies \X Attempts :
        call[s].launches <= IF s[1] = "review" THEN 1 + auth[s[2]].used ELSE 1

\* There are no more attempts than the ticket allows, and each after the first
\* answers a repair decision on the one before it or replaces it by hand.
AttemptsAuthorized ==
    /\ attempt <= maxAttempts
    /\ \A a \in 2..attempt : route[a - 1] = "repair" \/ invalidated = a - 1

\* Evidence, claims and the tick keep their types, and attempts are authorized.
Consistent == TypeOK /\ AttemptsAuthorized

\* Once a commit is intended nothing takes the acceptance back.
IntentFinal ==
    [][intent.attempt # 0 => /\ intent'.attempt = intent.attempt /\ Effective' = Effective
                             /\ state' \in {"accepted", "done"}]_vars

\* An accepted ticket is done in the end, also when processes die on the way,
\* unless its acceptance is invalidated or a tick raised.
AcceptedCompletes ==
    state = "accepted" ~> state = "done" \/ invalidated # 0 \/ exceptions > 0

\* A ticket whose validation failed is repaired or triaged in the end.
FailedRouted ==
    (state = "verifying" /\ \E a \in Attempts : a = Validated /\ validation[a] = "failed")
        ~> (state # "verifying" \/ exceptions > 0)

\* The README: "If the correction succeeds, the workflow continues normally."
\* An attempt that passed validation, repaired or not, gets its review.
RepairContinues ==
    \A a \in Attempts : validation[a] = "passed" ~> call[<<"review", a>>].launches > 0

\* scheduler_reconciliation on an interrupted validation: "stage is deterministic/
\* local and can safely replay": a completed validation has left all it leaves
\* when nothing interrupts it, the result and the marker that admits the review.
ReplayComplete ==
    \A a \in Attempts : Effected("validation", a) => validation[a] # "none" /\ marker # 0

=============================================================================
