-------------------------- MODULE SchedulerClaims --------------------------
(***************************************************************************)
(* The bounded scheduler tick of ProcessNextScheduler.process_next and the *)
(* durable stage claims it works on (tables scheduler_tick_lease,          *)
(* scheduler_stage_claims, model_invocations and model_stage_artifacts).   *)
(*                                                                         *)
(* Several processes share one SQLite ledger.  A process reads the clock   *)
(* once, takes the tick lease, reconciles the oldest expired claim, claims *)
(* one stage, marks its effect started, runs the effect, records it and    *)
(* finalizes the claim; every ledger call of the tick reuses the clock     *)
(* value read at its start.  One action is one ledger transaction or one   *)
(* external step; a process may stall, raise or die between any two.       *)
(***************************************************************************)
EXTENDS Integers

CONSTANTS
    Workers,            \* the processes that call process_next
    Claims,             \* claim identities, ordered as the claim_id column is
    Family,             \* the stage family of each claim
    ModelFamilies,      \* families whose effect is one model inference
    Lease,              \* lease_seconds of a tick and of the claims it takes
    MaxClock, MaxTicks  \* bounds on the clock and on the ticks ever started

ASSUME ClaimsAssumption == Claims \subseteq Nat
ASSUME LeaseAssumption == Lease \in Nat \ {0}
ASSUME BoundsAssumption == MaxClock \in Nat /\ MaxTicks \in Nat

Families == {Family[c] : c \in Claims}
Inference == {c \in Claims : Family[c] \in ModelFamilies}

NoToken == 0                      \* NULL in lease_owner and lease_token
Tokens == 1..MaxTicks             \* "{worker_id}:{uuid}", fresh for each tick
NoClaim == -1

Statuses == {"absent", "claimed", "completed"}
Effects == {"unstarted", "started", "done"}    \* side_effect_{started,completed}_at
InvocationStatuses == {"none", "started", "completed", "failed"}
Actions == {"RESUME", "RECONCILE", "RETRY", "REPLAY", "STOP"}

\* Where a process stands in process_next; each value names its next step.
Steps == {"idle", "tick", "reconcile", "claim", "begin", "reread", "check",
          "launch", "run", "record", "complete", "finalize", "release"}
Working == Steps \ {"idle", "tick"}
Holding == {"begin", "reread", "check", "launch", "run", "record", "complete",
            "finalize"}

VARIABLES
    clock,       \* wall-clock seconds
    overran,     \* history: has a live tick ever outlasted its lease?
    paused,      \* controller_state.paused
    nextToken,   \* the next unused tick token
    tick,        \* scheduler_tick_lease: [token, expires]; token NoToken: no row
    row,         \* scheduler_stage_claims
    call,        \* model_invocations: the invocation a tick inserted, by token
    stage,       \* model_stage_artifacts: which tick's result is durable
    pc, now, token, scope, held, result,    \* the processes
    operator     \* an operator between deciding on and releasing a claim

timeVars == <<clock, overran>>
ledgerVars == <<tick, row, call, stage>>
workerVars == <<pc, now, token, scope, held, result>>
vars == <<clock, overran, paused, nextToken, tick, row, call, stage, pc, now, token,
          scope, held, result, operator>>

NoTick == [token |-> NoToken, expires |-> 0]
NullRow == [status |-> "absent", owner |-> NoToken, expires |-> 0, created |-> 0,
            effect |-> "unstarted", result |-> NoToken]
Rows == [status : Statuses, owner : 0..MaxTicks, expires : Nat, created : Nat,
         effect : Effects, result : 0..MaxTicks]
NoCall == [claim |-> NoClaim, status |-> "none", at |-> 0]
Calls == [claim : Claims \cup {NoClaim}, status : InvocationStatuses, at : Nat]
NoDecision == [claim |-> NoClaim, action |-> "STOP", at |-> 1]

TypeOK ==
    /\ clock \in Nat \ {0}
    /\ overran \in BOOLEAN
    /\ paused \in BOOLEAN
    /\ nextToken \in 1..(MaxTicks + 1)
    /\ tick \in [token : 0..MaxTicks, expires : Nat]
    /\ row \in [Claims -> Rows]
    /\ call \in [Tokens -> Calls]
    /\ stage \in [Claims -> 0..MaxTicks]
    /\ pc \in [Workers -> Steps]
    /\ now \in [Workers -> Nat]
    /\ token \in [Workers -> 0..MaxTicks]
    /\ scope \in [Workers -> SUBSET Families]
    /\ held \in [Workers -> Claims \cup {NoClaim}]
    /\ result \in [Workers -> 0..MaxTicks]
    /\ operator \in [claim : Claims \cup {NoClaim}, action : Actions, at : Nat \ {0}]

Init ==
    /\ clock = 1
    /\ overran = FALSE
    /\ paused = FALSE
    /\ nextToken = 1
    /\ tick = NoTick
    /\ row = [c \in Claims |-> NullRow]
    /\ call = [t \in Tokens |-> NoCall]
    /\ stage = [c \in Claims |-> NoToken]
    /\ pc = [w \in Workers |-> "idle"]
    /\ now = [w \in Workers |-> 0]
    /\ token = [w \in Workers |-> NoToken]
    /\ scope = [w \in Workers |-> {}]
    /\ held = [w \in Workers |-> NoClaim]
    /\ result = [w \in Workers |-> NoToken]
    /\ operator = NoDecision

----------------------------------------------------------------------------
(* Reconciliation of one claim from its durable evidence.                  *)

CallsOf(c) == {t \in Tokens : call[t].claim = c}

\* ORDER BY started_at DESC, invocation_id DESC LIMIT 1; the random ids decide
\* between invocations of one second.
LatestCalls(c) == {t \in CallsOf(c) : \A u \in CallsOf(c) : call[u].at <= call[t].at}

ModelDecisions(c) ==
    IF CallsOf(c) = {} THEN {"STOP"}
    ELSE {IF call[t].status = "completed" THEN "RECONCILE" ELSE "STOP" : t \in LatestCalls(c)}

Decisions(c) ==
    IF row[c].status = "completed" THEN {"RESUME"}
    ELSE IF row[c].effect = "done" THEN {"RECONCILE"}
    ELSE IF row[c].effect = "unstarted" THEN {"RETRY"}
    ELSE IF c \in Inference THEN ModelDecisions(c)
    ELSE {"REPLAY"}

\* Mutant: the takeover forgets lease_expires_at<=now.
ExpiredAnyLease(c, time) == row[c].status = "claimed"

Expired(c, time) == row[c].status = "claimed" /\ row[c].expires <= time

\* ORDER BY created_at, claim_id
Before(c, d) == row[c].created < row[d].created \/ (row[c].created = row[d].created /\ c <= d)
Oldest(S) == {c \in S : \A d \in S : Before(c, d)}

ExpiredIn(f, time) == {c \in Claims : Family[c] = f /\ Expired(c, time)}

----------------------------------------------------------------------------
(* One process.                                                            *)

Goto(w, step) == pc' = [pc EXCEPT ![w] = step]

Forget(w) ==
    /\ scope' = [scope EXCEPT ![w] = {}]
    /\ held' = [held EXCEPT ![w] = NoClaim]
    /\ result' = [result EXCEPT ![w] = NoToken]

\* Leave the tick, by return or exception, for the finally clause.
GoRelease(w) == Goto(w, "release") /\ Forget(w)

\* The call of process_next is over, its local variables are gone.
GoIdle(w) ==
    /\ Goto(w, "idle")
    /\ now' = [now EXCEPT ![w] = 0]
    /\ token' = [token EXCEPT ![w] = NoToken]
    /\ Forget(w)

Alive(w) == pc[w] # "idle"
LiveTick(w) == pc[w] \in Working /\ clock < now[w] + Lease

\* process_next reads the clock and draws a token before its first transaction.
ReadClock(w) ==
    /\ pc[w] = "idle"
    /\ nextToken <= MaxTicks
    /\ now' = [now EXCEPT ![w] = clock]
    /\ token' = [token EXCEPT ![w] = nextToken]
    /\ nextToken' = nextToken + 1
    /\ Goto(w, "tick")
    /\ UNCHANGED <<timeVars, paused, tick, row, call, stage, scope, held, result, operator>>

TickBusy(w) == tick.token # NoToken /\ tick.expires > now[w]

\* Mutant: the insert replaces a lease that still runs.
ClaimTickAnyTime(w) ==
    /\ pc[w] = "tick"
    /\ IF paused
       THEN GoIdle(w) /\ tick' = tick
       ELSE /\ tick' = [token |-> token[w], expires |-> now[w] + Lease]
            /\ Goto(w, "reconcile")
            /\ UNCHANGED <<now, token, scope, held, result>>
    /\ UNCHANGED <<timeVars, paused, nextToken, row, call, stage, operator>>

\* claim_scheduler_tick
ClaimTick(w) ==
    /\ pc[w] = "tick"
    /\ IF paused \/ TickBusy(w)
       THEN GoIdle(w) /\ tick' = tick
       ELSE /\ tick' = [token |-> token[w], expires |-> now[w] + Lease]
            /\ Goto(w, "reconcile")
            /\ UNCHANGED <<now, token, scope, held, result>>
    /\ UNCHANGED <<timeVars, paused, nextToken, row, call, stage, operator>>

\* next_scheduler_reconciliation: STOP ends the tick, any other decision
\* restricts it to the family of the claim to recover.
Reconcile(w) ==
    /\ pc[w] = "reconcile"
    /\ LET expired == {c \in Claims : Expired(c, now[w])} IN
       \/ /\ expired = {}
          /\ scope' = [scope EXCEPT ![w] = Families]
          /\ Goto(w, "claim")
          /\ UNCHANGED <<held, result>>
       \/ \E c \in Oldest(expired), action \in Actions :
             /\ action \in Decisions(c)
             /\ IF action = "STOP"
                THEN GoRelease(w)
                ELSE /\ scope' = [scope EXCEPT ![w] = {Family[c]}]
                     /\ Goto(w, "claim")
                     /\ UNCHANGED <<held, result>>
    /\ UNCHANGED <<timeVars, paused, nextToken, ledgerVars, now, token, operator>>

\* The second half of claim_next_scheduler_*: take over the oldest expired
\* claim of the family.
Reclaim(w, f) ==
    \E c \in Oldest(ExpiredIn(f, now[w])) :
        /\ row' = [row EXCEPT ![c].owner = token[w], ![c].expires = now[w] + Lease]
        /\ held' = [held EXCEPT ![w] = c]

\* ... or insert a claim for a ticket that has become eligible for the stage.
NewClaim(w, f) ==
    /\ ExpiredIn(f, now[w]) = {}
    /\ \E c \in Claims :
        /\ Family[c] = f
        /\ row[c].status = "absent"
        /\ row' = [row EXCEPT ![c] =
                [status |-> "claimed", owner |-> token[w], expires |-> now[w] + Lease,
                 created |-> now[w], effect |-> "unstarted", result |-> NoToken]]
        /\ held' = [held EXCEPT ![w] = c]

\* claim_next_scheduler_*; the tick begins an inference at once, but rereads the
\* row of a deterministic stage first.
ClaimStage(w) ==
    /\ pc[w] = "claim"
    /\ ~paused
    /\ \E f \in scope[w] : Reclaim(w, f) \/ NewClaim(w, f)
    /\ scope' = [scope EXCEPT ![w] = {}]
    /\ Goto(w, IF held'[w] \in Inference THEN "begin" ELSE "reread")
    /\ UNCHANGED <<timeVars, paused, nextToken, tick, call, stage, now, token, result,
                   operator>>

\* Nothing to claim, or the tick delivered a projection instead.
NoStage(w) ==
    /\ pc[w] = "claim"
    /\ GoRelease(w)
    /\ UNCHANGED <<timeVars, paused, nextToken, ledgerVars, now, token, operator>>

Owns(w, c) ==
    /\ row[c].status = "claimed"
    /\ row[c].owner = token[w]
    /\ row[c].expires > now[w]

Begun(c) == row[c].status = "completed" \/ row[c].effect # "unstarted"

\* begin_scheduler_claim_effect: a row that is already started, done or
\* completed is returned without looking at its owner.
Begin(w) ==
    LET c == held[w]
        Proceed == Goto(w, IF c \in Inference THEN "reread" ELSE "check")
                   /\ UNCHANGED <<scope, held, result>> IN
    /\ pc[w] = "begin"
    /\ \/ Begun(c) /\ Proceed /\ row' = row
       \/ ~Begun(c) /\ Owns(w, c) /\ Proceed /\ row' = [row EXCEPT ![c].effect = "started"]
       \/ ~Begun(c) /\ ~Owns(w, c) /\ GoRelease(w) /\ row' = row
    /\ UNCHANGED <<timeVars, paused, nextToken, tick, call, stage, now, token, operator>>

\* The tick rereads the row: a recorded result is replayed, not produced.  A
\* replayed deterministic result is still checked against its evidence.
Reread(w) ==
    LET c == held[w] IN
    /\ pc[w] = "reread"
    /\ IF row[c].effect = "done"
       THEN /\ result' = [result EXCEPT ![w] = row[c].result]
            /\ Goto(w, IF c \in Inference THEN "finalize" ELSE "complete")
       ELSE /\ result' = result
            /\ Goto(w, IF c \in Inference \/ row[c].effect = "started" THEN "check" ELSE "begin")
    /\ UNCHANGED <<timeVars, paused, nextToken, tick, row, call, stage, now, token,
                   scope, held, operator>>

\* The runner returns the artifact of the durable model stage.
ReplayStage(w, c) ==
    /\ stage[c] # NoToken
    /\ result' = [result EXCEPT ![w] = stage[c]]
    /\ Goto(w, "complete")
    /\ UNCHANGED <<scope, held>>

\* Mutant: a completed invocation whose artifact was not recorded is repeated.
CheckModelNoRecovery(w) ==
    LET c == held[w]
        started == \E t \in CallsOf(c) : call[t].status = "started" IN
    /\ pc[w] = "check"
    /\ c \in Inference
    /\ \/ started /\ GoRelease(w)
       \/ ~started /\ ReplayStage(w, c)
       \/ /\ ~started /\ stage[c] = NoToken
          /\ Goto(w, "launch")
          /\ UNCHANGED <<scope, held, result>>
    /\ UNCHANGED <<timeVars, paused, nextToken, ledgerVars, now, token, operator>>

\* execute_implementation_model_only up to the launch: an invocation in
\* progress or a failed one raises, a completed one is recovered into the
\* model stage, a recorded stage is replayed.
CheckModel(w) ==
    LET c == held[w]
        started == \E t \in CallsOf(c) : call[t].status = "started" IN
    /\ pc[w] = "check"
    /\ c \in Inference
    /\ \/ started /\ GoRelease(w)
       \/ ~started /\ ReplayStage(w, c)
       \/ /\ ~started /\ stage[c] = NoToken /\ CallsOf(c) = {}
          /\ Goto(w, "launch")
          /\ UNCHANGED <<scope, held, result>>
       \/ /\ ~started /\ stage[c] = NoToken
          /\ \E t \in LatestCalls(c) :
                \/ /\ call[t].status = "completed"
                   /\ result' = [result EXCEPT ![w] = t]
                   /\ Goto(w, "record")
                   /\ UNCHANGED <<scope, held>>
                \/ call[t].status = "failed" /\ GoRelease(w)
    /\ UNCHANGED <<timeVars, paused, nextToken, ledgerVars, now, token, operator>>

\* start_model_invocation: only the invocation id is unique.
Launch(w) ==
    /\ pc[w] = "launch"
    /\ call' = [call EXCEPT ![token[w]] = [claim |-> held[w], status |-> "started", at |-> clock]]
    /\ Goto(w, "run")
    /\ UNCHANGED <<timeVars, paused, nextToken, tick, row, stage, now, token, scope,
                   held, result, operator>>

\* The model answers, times out or fails; finish_model_invocation records it.
FinishCall(w) ==
    /\ pc[w] = "run"
    /\ \/ /\ call' = [call EXCEPT ![token[w]].status = "completed"]
          /\ result' = [result EXCEPT ![w] = token[w]]
          /\ Goto(w, "record")
          /\ UNCHANGED <<scope, held>>
       \/ /\ call' = [call EXCEPT ![token[w]].status = "failed"]
          /\ GoRelease(w)
    /\ UNCHANGED <<timeVars, paused, nextToken, tick, row, stage, now, token, operator>>

\* Mutant: INSERT OR REPLACE.
RecordReplaces(w) ==
    /\ pc[w] = "record"
    /\ stage' = [stage EXCEPT ![held[w]] = result[w]]
    /\ Goto(w, "complete")
    /\ UNCHANGED <<timeVars, paused, nextToken, tick, row, call, now, token, scope,
                   held, result, operator>>

\* record_model_stage: an insert that loses to an earlier one is ignored.
Record(w) ==
    LET c == held[w] IN
    /\ pc[w] = "record"
    /\ stage' = [stage EXCEPT ![c] = IF @ = NoToken THEN result[w] ELSE @]
    /\ Goto(w, "complete")
    /\ UNCHANGED <<timeVars, paused, nextToken, tick, row, call, now, token, scope,
                   held, result, operator>>

\* Mutant: the replay runs the stage again.
RunAgain(w) ==
    LET c == held[w] IN
    /\ pc[w] = "check"
    /\ c \notin Inference
    /\ stage' = [stage EXCEPT ![c] = token[w]]
    /\ result' = [result EXCEPT ![w] = token[w]]
    /\ Goto(w, "complete")
    /\ UNCHANGED <<timeVars, paused, nextToken, tick, row, call, now, token, scope,
                   held, operator>>

\* execute_deterministic_validation_only: its evidence is inserted once and replayed after.
RunReplayable(w) ==
    LET c == held[w] IN
    /\ pc[w] = "check"
    /\ c \notin Inference
    /\ stage' = [stage EXCEPT ![c] = IF @ = NoToken THEN token[w] ELSE @]
    /\ result' = [result EXCEPT ![w] = stage'[c]]
    /\ Goto(w, "complete")
    /\ UNCHANGED <<timeVars, paused, nextToken, tick, row, call, now, token, scope,
                   held, operator>>

\* complete_scheduler_*_effect: an implementation that is already done returns
\* before any check.
CompleteEffect(w) ==
    LET c == held[w]
        done == row[c].effect = "done"
        accepted == /\ Owns(w, c)
                    /\ result[w] = stage[c]
                    /\ done => row[c].result = result[w]
        Proceed == Goto(w, "finalize") /\ UNCHANGED <<scope, held, result>> IN
    /\ pc[w] = "complete"
    /\ \/ done /\ (c \in Inference \/ accepted) /\ Proceed /\ row' = row
       \/ /\ row[c].effect = "started" /\ accepted
          /\ Proceed
          /\ row' = [row EXCEPT ![c].effect = "done", ![c].result = result[w]]
       \/ /\ ~accepted /\ ~(done /\ c \in Inference)
          /\ GoRelease(w)
          /\ row' = row
    /\ UNCHANGED <<timeVars, paused, nextToken, tick, call, stage, now, token, operator>>

\* complete_scheduler_claim
Finalize(w) ==
    LET c == held[w] IN
    /\ pc[w] = "finalize"
    /\ IF Owns(w, c) /\ row[c].effect = "done" /\ row[c].result = result[w]
       THEN row' = [row EXCEPT ![c].status = "completed", ![c].owner = NoToken, ![c].expires = 0]
       ELSE row' = row
    /\ GoRelease(w)
    /\ UNCHANGED <<timeVars, paused, nextToken, tick, call, stage, now, token, operator>>

\* Any step of the tick may raise (I/O, drift checks, a full disk).
Raise(w) ==
    /\ pc[w] \in Working \ {"release"}
    /\ GoRelease(w)
    /\ UNCHANGED <<timeVars, paused, nextToken, ledgerVars, now, token, operator>>

\* release_scheduler_tick, in the finally clause: only this tick's own row.
ReleaseTick(w) ==
    /\ pc[w] = "release"
    /\ tick' = IF tick.token = token[w] THEN NoTick ELSE tick
    /\ GoIdle(w)
    /\ UNCHANGED <<timeVars, paused, nextToken, row, call, stage, operator>>

\* The process dies: nothing of the tick is cleaned up.
Crash(w) ==
    /\ Alive(w)
    /\ GoIdle(w)
    /\ UNCHANGED <<timeVars, paused, nextToken, ledgerVars, operator>>

Worker(w) ==
    \/ ReadClock(w) \/ ClaimTick(w) \/ Reconcile(w) \/ ClaimStage(w) \/ NoStage(w)
    \/ Begin(w) \/ Reread(w) \/ CheckModel(w) \/ Launch(w) \/ FinishCall(w)
    \/ Record(w) \/ RunReplayable(w) \/ CompleteEffect(w) \/ Finalize(w)
    \/ Raise(w) \/ ReleaseTick(w) \/ Crash(w)

----------------------------------------------------------------------------
(* The operator and the clock.                                             *)

SetPause ==
    /\ paused' = ~paused
    /\ UNCHANGED <<timeVars, nextToken, ledgerVars, workerVars, operator>>

\* release_abandoned_scheduler_claim reads the clock and the decision before
\* its transaction ...
OperatorDecides(c) ==
    /\ operator = NoDecision
    /\ row[c].status # "absent"
    /\ \E action \in Actions :
        /\ action \in Decisions(c)
        /\ operator' = [claim |-> c, action |-> action, at |-> clock]
    /\ UNCHANGED <<timeVars, paused, nextToken, ledgerVars, workerVars>>

\* ... and rechecks inside it the pause, the status and the completion only.
OperatorReleases ==
    LET c == operator.claim IN
    /\ c # NoClaim
    /\ IF /\ paused
          /\ row[c].status = "claimed"
          /\ row[c].effect # "done"
          /\ operator.action \in {"RETRY", "REPLAY"}
       THEN row' = [row EXCEPT ![c].owner = NoToken, ![c].expires = operator.at - 1]
       ELSE row' = row
    /\ operator' = NoDecision
    /\ UNCHANGED <<timeVars, paused, nextToken, tick, call, stage, workerVars>>

\* Time passes, whatever the processes are doing.
Advance ==
    /\ clock < MaxClock
    /\ clock' = clock + 1
    /\ overran' = (overran \/ \E w \in Workers : Alive(w) /\ now[w] + Lease <= clock')
    /\ UNCHANGED <<paused, nextToken, ledgerVars, workerVars, operator>>

Next ==
    \/ \E w \in Workers : Worker(w)
    \/ SetPause
    \/ \E c \in Claims : OperatorDecides(c)
    \/ OperatorReleases
    \/ Advance

Spec == Init /\ [][Next]_vars

----------------------------------------------------------------------------
(* Properties.                                                             *)

\* Two processes are never both inside a tick whose lease is still running,
\* whatever crashes, stale clock readings and late releases happened before
\* (claim_scheduler_tick, release_scheduler_tick).
TickExclusion ==
    \A v, w \in Workers : LiveTick(v) /\ LiveTick(w) => v = w

\* Durable evidence is written in the order recovery relies on: an invocation
\* row belongs to a claim already marked started, a completed effect has its
\* result in the model stage, a model stage of an inference claim comes from a
\* completed invocation of that claim (begin before launch before record before
\* complete, across crashes and takeovers).
EvidenceOrder ==
    /\ \A t \in Tokens : call[t].claim # NoClaim => row[call[t].claim].effect # "unstarted"
    /\ \A c \in Claims :
        /\ row[c].effect = "done" => row[c].result = stage[c] /\ stage[c] # NoToken
        /\ row[c].status = "completed" => row[c].effect = "done"
        /\ c \in Inference /\ stage[c] # NoToken =>
             call[stage[c]].claim = c /\ call[stage[c]].status = "completed"

\* Rows, invocations and processes keep their types, and evidence its order.
Consistent == TypeOK /\ EvidenceOrder

\* A claim never has two model invocations: "automatic retry would risk
\* duplicate inference" (scheduler_reconciliation).
SingleInference ==
    \A t, u \in Tokens : call[t].claim # NoClaim /\ call[t].claim = call[u].claim => t = u

\* As long as every tick ended inside its lease that holds, through every crash,
\* takeover and operator release.
SingleUntilOverrun == ~overran => SingleInference

\* A process takes a claim over only after the lease written in it ran out on
\* the real clock, although the takeover compares it with a clock value read
\* at the start of a tick that may have stalled since.
TakeoverAfterExpiry ==
    [][\A c \in Claims :
         /\ row[c].status = "claimed"
         /\ row'[c].owner \notin {row[c].owner, NoToken}
         => row[c].expires <= clock]_vars

\* A finalized claim and the stage result it stands for never change again,
\* whatever a superseded tick or the operator still does.
FinalIsForever ==
    [][\A c \in Claims : row[c].status = "completed" =>
         row'[c] = row[c] /\ stage'[c] = stage[c]]_vars

\* The ledger's claim rows as the life of a stage effect.
PhaseOf(c) ==
    IF row[c].status # "claimed" THEN row[c].status
    ELSE IF row[c].effect = "unstarted" THEN "claimed" ELSE row[c].effect

Effect == INSTANCE StageEffect WITH
    Evidence <- Tokens,
    NoEvidence <- NoToken,
    phase <- [c \in Claims |-> PhaseOf(c)],
    evidence <- stage,
    outcome <- [c \in Claims |-> row[c].result]

\* Every run of the lease-based scheduler, with its crashes, takeovers, stale
\* clock readings and operator releases, is a run of StageEffect: one start,
\* one evidence, one outcome per claim.
ImplementsStageEffect == Effect!Spec
=============================================================================
