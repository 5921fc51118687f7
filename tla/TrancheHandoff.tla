--------------------------- MODULE TrancheHandoff ---------------------------
(***************************************************************************)
(* A feature is worked off tranche by tranche.  When the tickets of the    *)
(* active tranche are done, ticks measure its completion (H1), buy an      *)
(* approval, merge the integration branch into the canonical branch, have  *)
(* the successor planned on the predecessor's final commit and activate    *)
(* it.  Each of these stages is a claim with an effect of its own; an      *)
(* operator adds corrections to a tranche and rechecks it at any time.     *)
(*                                                                         *)
(* One action is one ledger transaction or one external step.  Ticks do    *)
(* not overlap (SchedulerClaims is about those that do), the pipeline that *)
(* brings a ticket from ready to done (TicketPipeline) is one action, the  *)
(* paid call (PaidCalls) is a reservation and an answer.  Every Raise is   *)
(* an exception that leaves the tick.  Left out: pauses, plan generation   *)
(* and its refusals, dependency graphs of the successor, accepted commits  *)
(* that advance nothing, retries of a card the board does not take, and a  *)
(* new checkpoint claim while an older one of the tranche is still leased. *)
(***************************************************************************)
EXTENDS Integers, FiniteSets

CONSTANTS
    Last,            \* the ordinal of the last tranche, the first is 1
    Works,           \* planned tickets of a tranche
    MaxFixes,        \* corrections, of all tranches
    MaxFaults        \* deaths, exceptions and commits on the canonical branch by others

ASSUME LastAssumption == Last \in Nat \ {0} /\ Works \in Nat \ {0}
ASSUME HandoffBoundsAssumption == {MaxFixes, MaxFaults} \subseteq Nat

Tranches == 1..Last
Tickets == Tranches \X (1..(Works + MaxFixes))
Planned == Tranches \X (1..Works)
Fixes == Tickets \ Planned

\* An accepted ticket's commit has the ticket's name, a landing that of the tranche.
Root == <<0, 0>>
Foreign(i) == <<0, i>>
Landing(t) == <<t, 0>>
NoCommit == <<-1, 0>>
Commits == Tickets \cup {Root} \cup {Foreign(i) : i \in 1..MaxFaults} \cup {Landing(t) : t \in Tranches}

\* The stages in the order in which a tick asks for a claim.
Order == <<"checkpoint", "paid", "escalation", "landing", "materialize", "activation">>
Stages == {Order[i] : i \in 1..6}
Paid == {"paid", "escalation"}
Claims == Stages \X Tranches
NoClaim == <<"none", 0>>

Decisions == {"approve", "escalate", "reject"}
Open == {"claimed", "begun", "applied"}

VARIABLES
    status, base,               \* tranches
    state, bound, card,         \* tickets, runtime_bindings, board_projection_outbox
    head, history, canonical,   \* integration heads, ancestors of each commit, canonical HEAD
    claim, measured, frozen,    \* scheduler_stage_claims; what two of them identify
    artifact, h1, checkpoint,   \* checkpoint.json, tranche_completion_evidence,
                                \* tranche_checkpoint_evidence
    call, approval,             \* paid reservation and answer, paid_checkpoint_evidence
    landed,                     \* tranche_landing_evidence
    materialized, activated,    \* next_tranche_materializations and _activation_evidence
    fixes, recheck,             \* supplemental_correction_plans, tranche_completion_rechecks
    pc, scope, held, chosen,    \* the running tick
    crashes, foreign

trancheVars == <<status, base>>
ticketVars == <<state, bound, card>>
gitVars == <<head, history, canonical>>
claimVars == <<claim, measured, frozen>>
h1Vars == <<artifact, h1, checkpoint>>
paidVars == <<call, approval>>
nextVars == <<materialized, activated>>
fixVars == <<fixes, recheck>>
ledgerVars == <<trancheVars, ticketVars, claimVars, h1Vars, paidVars, landed, nextVars, fixVars>>
tickVars == <<pc, scope, held, chosen>>
faultVars == <<crashes, foreign>>
vars == <<ledgerVars, gitVars, tickVars, faultVars>>

NoRecheck == [generation |-> 0, fixes |-> 0, of |-> {}, head |-> NoCommit]
NoChoice == [base |-> NoCommit, known |-> {}]

TypeOK ==
    /\ status \in [Tranches -> {"planned", "active", "completed"}]
    /\ base \in [Tranches -> Commits]
    /\ state \in [Tickets -> {"absent", "draft", "ready", "done"}]
    /\ bound \in [Tickets -> Commits \cup {NoCommit}]
    /\ card \in [Tickets -> [status : {"none", "pending", "terminal", "acknowledged"},
                             base : Commits \cup {NoCommit}]]
    /\ head \in [Tranches -> Commits \cup {NoCommit}]
    /\ history \in [Commits -> SUBSET Commits] /\ canonical \in Commits
    /\ claim \in [Claims -> [status : Open \cup {"absent", "completed", "failed"}, live : BOOLEAN]]
    /\ measured \in [Tranches -> SUBSET Tickets] /\ frozen \in [Tranches -> Commits \cup {NoCommit}]
    /\ artifact \in [Tranches -> [of : SUBSET Tickets, passed : BOOLEAN]]
    /\ h1 \in [Tranches -> SUBSET Tickets]
    /\ checkpoint \in [Tranches -> {"none", "ready", "failed"}]
    /\ call \in [Paid \X Tranches -> Decisions \cup {"none", "in_flight", "unknown", "rejected"}]
    /\ approval \in [Paid \X Tranches -> Decisions \cup {"none"}]
    /\ landed \subseteq Tranches /\ activated \subseteq Tranches
    /\ materialized \in [Tranches -> Commits \cup {NoCommit}]
    /\ fixes \in [Tranches -> 0..MaxFixes]
    /\ recheck \in [Tranches -> [generation : Nat, fixes : 0..MaxFixes, of : SUBSET Tickets,
                                  head : Commits \cup {NoCommit}]]
    /\ pc \in {"idle", "deliver", "claim", "begin", "run", "answer", "write", "apply", "complete"}
    /\ scope \subseteq Stages /\ held \in Claims \cup {NoClaim}
    /\ chosen \in [base : Commits \cup {NoCommit}, known : SUBSET Tickets]
    /\ crashes \in 0..MaxFaults /\ foreign \in 0..MaxFaults

\* The plan has been activated: the first tranche is active, its cards are due.
Init ==
    /\ status = [t \in Tranches |-> IF t = 1 THEN "active" ELSE "planned"]
    /\ base = [t \in Tranches |-> Root]
    /\ state = [k \in Tickets |-> IF k[1] = 1 /\ k \in Planned THEN "draft" ELSE "absent"]
    /\ bound = [k \in Tickets |-> NoCommit]
    /\ card = [k \in Tickets |-> IF k[1] = 1 /\ k \in Planned
                                 THEN [status |-> "pending", base |-> Root]
                                 ELSE [status |-> "none", base |-> NoCommit]]
    /\ head = [t \in Tranches |-> NoCommit]
    /\ history = [c \in Commits |-> IF c = Root THEN {Root} ELSE {}] /\ canonical = Root
    /\ claim = [c \in Claims |-> [status |-> "absent", live |-> FALSE]]
    /\ measured = [t \in Tranches |-> {}] /\ frozen = [t \in Tranches |-> NoCommit]
    /\ artifact = [t \in Tranches |-> [of |-> {}, passed |-> FALSE]]
    /\ h1 = [t \in Tranches |-> {}] /\ checkpoint = [t \in Tranches |-> "none"]
    /\ call = [s \in Paid \X Tranches |-> "none"] /\ approval = [s \in Paid \X Tranches |-> "none"]
    /\ landed = {} /\ materialized = [t \in Tranches |-> NoCommit] /\ activated = {}
    /\ fixes = [t \in Tranches |-> 0] /\ recheck = [t \in Tranches |-> NoRecheck]
    /\ pc = "idle" /\ scope = {} /\ held = NoClaim /\ chosen = NoChoice
    /\ crashes = 0 /\ foreign = 0

----------------------------------------------------------------------------
(* Commits.                                                                *)

\* git merge-base --is-ancestor
Ancestor(c, d) == c \in history[d]

\* d's only parent is c: git rev-parse d^
Child(c, d) == c # d /\ history[d] = history[c] \cup {d}

\* A new commit d on top of the commits in P.
Commit(d, P) == history' = [history EXCEPT ![d] = (UNION {history[p] : p \in P}) \cup {d}]

----------------------------------------------------------------------------
(* What the ledger says of a tranche.                                      *)

\* Its tickets, corrections included; ORDER BY created_at, id is the order of
\* their numbers.
Members(t) == {k \in Tickets : k[1] = t /\ state[k] # "absent"}
Newest(S) == CHOOSE k \in S : \A l \in S : l[2] <= k[2]
Final(t) == Newest(h1[t])

\* _tranche_checkpoint_identity: the tickets, or nothing while work is open.
Complete(t) == status[t] = "active" /\ Members(t) # {} /\ \A k \in Members(t) : state[k] = "done"

\* _tranche_checkpoint_h1_conflicts
Superseded(t) == h1[t] # {} /\ h1[t] # Members(t)

Previous(k) ==
    LET older == {l \in Members(k[1]) : l[2] < k[2]} IN
    IF older = {} THEN base[k[1]] ELSE Newest(older)

\* Mutant: the last accepted commit must be the integration head, what lies
\* between it and the base is not looked at.
SerializedLoosely(t) ==
    /\ Members(t) # {} /\ \A k \in Members(t) : state[k] = "done"
    /\ head[t] \in Members(t)

\* completion_evidence: the accepted commits, in ticket order, are the chain from
\* the tranche's base to its integration head.
Serialized(t) ==
    /\ Members(t) # {} /\ \A k \in Members(t) : state[k] = "done" /\ Child(Previous(k), k)
    /\ head[t] = Newest(Members(t))

\* _effective_paid_approval
Approved(t) ==
    \/ approval[<<"paid", t>>] = "approve"
    \/ approval[<<"paid", t>>] = "escalate" /\ approval[<<"escalation", t>>] = "approve"

\* _tranche_landing_identity
Landable(t) == status[t] = "active" /\ h1[t] # {} /\ checkpoint[t] = "ready" /\ Approved(t)

\* _next_tranche_materialize_identity
Succeedable(t) ==
    /\ status[t] = "completed" /\ t \in landed /\ checkpoint[t] = "ready" /\ Approved(t)
    /\ t < Last /\ status[t + 1] \in {"planned", "active"}
    /\ \A u \in Tranches : status[u] = "active" => u = t + 1

\* _next_tranche_activation_identity
Activatable(t) ==
    /\ materialized[t] # NoCommit
    /\ \A k \in Planned : k[1] = t => card[k].status = "acknowledged"

\* Mutant: the completion first measured stands although corrections came after it.
AuthorityOfH1(t) == IF h1[t] = {} THEN NoCommit ELSE Final(t)

\* The tickets of the correction plans, and those of them that are materialized.
Corrections(t) == {<<t, Works + n>> : n \in 1..fixes[t]}
Supplements(t) == {k \in Corrections(t) : state[k] # "absent"}

\* CorrectionService.completion_authority: the commit a successor is planned on.
Authority(t) ==
    IF fixes[t] = 0 THEN IF Serialized(t) THEN Final(t) ELSE NoCommit
    ELSE IF recheck[t].fixes = fixes[t] /\ recheck[t].of = Corrections(t) THEN recheck[t].head ELSE NoCommit

\* Without a materialization the provenance of a card is that of the activated
\* plan; a correction's is that of the tranche it corrects.
Provenance(k) == IF materialized[k[1]] # NoCommit THEN materialized[k[1]] ELSE Root

----------------------------------------------------------------------------
(* A tick: reconciliation, cards, then the first stage with something to do. *)

Lapsed(f) == {t \in Tranches : claim[<<f, t>>].status \in Open /\ ~claim[<<f, t>>].live}

\* Claims are made in the order of tranches and stages; a checkpoint that H1 has
\* overtaken is not looked at.
Stale == {c \in Claims : /\ c[2] \in Lapsed(c[1])
                         /\ ~(c[1] = "checkpoint" /\ Complete(c[2]) /\ Superseded(c[2]))}
Rank(c) == 6 * c[2] + (CHOOSE i \in 1..6 : Order[i] = c[1])

\* Mutant: whatever was begun and is not paid for stops.
StopsAll(c) == claim[c].status = "begun" /\ c[1] \notin Paid

\* scheduler_reconciliation: a landing that was begun is never taken up again.
Stops(c) ==
    /\ claim[c].status = "begun"
    /\ c[1] = "landing" \/ (c[1] \in Paid /\ call[c] \in {"in_flight", "unknown"})

EndTick == pc' = "idle" /\ scope' = {} /\ held' = NoClaim /\ chosen' = NoChoice
Goto(step) == pc' = step /\ UNCHANGED <<scope, held, chosen>>
Raise == EndTick /\ UNCHANGED <<ledgerVars, gitVars, faultVars>>
At(step, f) == pc = step /\ held[1] = f

Due == {k \in Tickets : card[k].status = "pending"}

\* The lapsed claim that is oldest restricts the tick to its stage or stops it.
StartTick ==
    /\ pc = "idle"
    /\ \/ Stale = {} /\ scope' = Stages
       \/ \E c \in Stale : /\ \A d \in Stale : Rank(c) <= Rank(d)
                           /\ ~Stops(c) /\ scope' = {c[1]}
    /\ pc' = IF Due # {} THEN "deliver" ELSE "claim"
    /\ UNCHANGED <<ledgerVars, gitVars, held, chosen, faultVars>>

\* The worker checks the payload against the ledger before it touches the board.
DeliverCard ==
    /\ pc = "deliver"
    /\ \E k \in Due :
          /\ \A l \in Due : l[1] > k[1] \/ (l[1] = k[1] /\ l[2] >= k[2])
          /\ card' = [card EXCEPT ![k].status = IF card[k].base = Provenance(k)
                                                THEN "acknowledged" ELSE "terminal"]
    /\ EndTick
    /\ UNCHANGED <<trancheVars, state, bound, gitVars, claimVars, h1Vars, paidVars, landed, nextVars,
                   fixVars, faultVars>>

\* What a new claim may be made for.
Fresh(f) ==
    {t \in Tranches :
        /\ claim[<<f, t>>].status = "absent"
        /\ f = "checkpoint" => Complete(t) /\ checkpoint[t] = "none" /\ ~Superseded(t)
        /\ f = "paid" => checkpoint[t] = "ready" /\ approval[<<f, t>>] = "none"
        /\ f = "escalation" => approval[<<"paid", t>>] = "escalate" /\ approval[<<f, t>>] = "none"
        /\ f = "landing" => Landable(t) /\ t \notin landed
        /\ f = "materialize" => Succeedable(t) /\ materialized[t + 1] = NoCommit
        /\ f = "activation" => Activatable(t) /\ t \notin activated}

\* Mutant: a landing is compared with its authority even after its effect.
UnchangedAuthority(f, t) ==
    /\ f = "checkpoint" => Complete(t) /\ measured[t] = Members(t)
    /\ f = "landing" => Landable(t)
    /\ f = "materialize" => Succeedable(t)
    /\ f = "activation" => Activatable(t)

\* A claim is taken up again only if it still names what the ledger says; after
\* its effect a landing is compared with its evidence.
Unchanged(f, t) ==
    /\ f = "checkpoint" => Complete(t) /\ measured[t] = Members(t)
    /\ f = "landing" => IF claim[<<f, t>>].status = "applied" THEN t \in landed ELSE Landable(t)
    /\ f = "materialize" => Succeedable(t)
    /\ f = "activation" => Activatable(t)

\* Of the lapsed claims of a stage the oldest is looked at.
Oldest(f) == {t \in Lapsed(f) : \A u \in Lapsed(f) : t <= u}

Asks(f) == f \in scope /\ (Lapsed(f) # {} \/ Fresh(f) # {})
First(f) == Asks(f) /\ \A i, j \in 1..6 : Order[i] = f /\ j < i => ~Asks(Order[j])

NextStep(c) ==
    IF claim[c].status \in {"absent", "claimed"} THEN "begin"
    ELSE IF claim[c].status = "applied" THEN "complete"
    ELSE IF c[1] = "activation" THEN "apply" ELSE "run"

Take(f, t) ==
    /\ claim' = [claim EXCEPT ![<<f, t>>] = [status |-> IF @.status = "absent" THEN "claimed" ELSE @.status,
                                             live |-> TRUE]]
    /\ pc' = NextStep(<<f, t>>) /\ held' = <<f, t>>
    /\ UNCHANGED <<scope, chosen>>

Claim ==
    /\ pc = "claim"
    /\ \E f \in Stages : First(f) /\
        \/ \E t \in Oldest(f) :
              /\ Unchanged(f, t) /\ ~(f = "checkpoint" /\ Superseded(t))
              /\ Take(f, t) /\ UNCHANGED <<measured, frozen>>
        \/ \E t \in Fresh(f) :
              /\ Lapsed(f) = {}
              /\ Take(f, t)
              /\ measured' = IF f = "checkpoint" THEN [measured EXCEPT ![t] = Members(t)] ELSE measured
              /\ frozen' = IF f = "landing" THEN [frozen EXCEPT ![t] = canonical] ELSE frozen
    /\ UNCHANGED <<trancheVars, ticketVars, gitVars, h1Vars, paidVars, landed, nextVars, fixVars, faultVars>>

ClaimRaises ==
    /\ pc = "claim"
    /\ \E f \in Stages : First(f) /\ \E t \in Oldest(f) : ~Unchanged(f, t) /\ ~(Complete(t) /\ Superseded(t))
    /\ Raise

\* Corrections came between a checkpoint's effect and the end of its claim.
RetireClaim ==
    /\ pc = "claim" /\ First("checkpoint")
    /\ \E t \in Oldest("checkpoint") :
          /\ Complete(t) /\ Superseded(t)
          /\ claim' = [claim EXCEPT ![<<"checkpoint", t>>] = [status |-> "failed", live |-> FALSE]]
    /\ UNCHANGED <<trancheVars, ticketVars, gitVars, measured, frozen, h1Vars, paidVars, landed, nextVars,
                   fixVars, tickVars, faultVars>>

Begin ==
    /\ pc = "begin"
    /\ claim' = [claim EXCEPT ![held].status = "begun"]
    /\ Goto(IF held[1] = "activation" THEN "apply" ELSE "run")
    /\ UNCHANGED <<trancheVars, ticketVars, gitVars, measured, frozen, h1Vars, paidVars, landed, nextVars,
                   fixVars, faultVars>>

Applied == claim' = [claim EXCEPT ![held].status = "applied"] /\ Goto("complete")

\* complete_scheduler_claim
Finalize ==
    /\ pc = "complete"
    /\ claim' = [claim EXCEPT ![held] = [status |-> "completed", live |-> FALSE]]
    /\ EndTick
    /\ UNCHANGED <<trancheVars, ticketVars, gitVars, measured, frozen, h1Vars, paidVars, landed, nextVars,
                   fixVars, faultVars>>

NoWork ==
    /\ pc = "claim" /\ \A f \in Stages : ~Asks(f)
    /\ Raise

----------------------------------------------------------------------------
(* Checkpoint: the artifact, then H1 and the checkpoint in one transaction. *)

RunCheckpoint ==
    LET t == held[2] IN
    /\ At("run", "checkpoint")
    /\ IF Serialized(t) /\ Members(t) = measured[t] /\ artifact[t].of \in {{}, Members(t)}
       THEN /\ \/ artifact[t].of # {} /\ artifact' = artifact
               \/ /\ artifact[t].of = {}
                  /\ \E p \in BOOLEAN : artifact' = [artifact EXCEPT ![t] = [of |-> Members(t), passed |-> p]]
            /\ Goto("apply")
            /\ UNCHANGED <<trancheVars, ticketVars, gitVars, claimVars, h1, checkpoint, paidVars, landed,
                           nextVars, fixVars, faultVars>>
       ELSE Raise

ApplyCheckpoint ==
    LET t == held[2] IN
    /\ At("apply", "checkpoint")
    /\ IF Complete(t) /\ Members(t) = measured[t]
       THEN /\ h1' = [h1 EXCEPT ![t] = measured[t]]
            /\ checkpoint' = [checkpoint EXCEPT ![t] = IF artifact[t].passed THEN "ready" ELSE "failed"]
            /\ Applied
            /\ UNCHANGED <<trancheVars, ticketVars, gitVars, measured, frozen, artifact, paidVars, landed,
                           nextVars, fixVars, faultVars>>
       ELSE Raise

----------------------------------------------------------------------------
(* Paid approval and escalation; the request key is the claim.             *)

\* The stored answer of an earlier call is used again, an unknown one raises.
Reserve ==
    /\ pc = "run" /\ held[1] \in Paid
    /\ \/ /\ call[held] \in {"none", "rejected"}
          /\ call' = [call EXCEPT ![held] = "in_flight"] /\ Goto("answer")
       \/ /\ call[held] \in Decisions
          /\ call' = call /\ Goto("apply")
       \/ /\ call[held] \in {"in_flight", "unknown"}
          /\ call' = call /\ EndTick
    /\ UNCHANGED <<trancheVars, ticketVars, gitVars, claimVars, h1Vars, approval, landed, nextVars,
                   fixVars, faultVars>>

\* The provider decides, answers too late to know, or rejects the request: the
\* claim is then deferred.
Answer ==
    /\ pc = "answer"
    /\ \/ \E d \in Decisions : call' = [call EXCEPT ![held] = d] /\ Goto("apply")
       \/ \E r \in {"unknown", "rejected"} : call' = [call EXCEPT ![held] = r] /\ EndTick
    /\ UNCHANGED <<trancheVars, ticketVars, gitVars, claimVars, h1Vars, approval, landed, nextVars,
                   fixVars, faultVars>>

ApplyPaid ==
    /\ pc = "apply" /\ held[1] \in Paid
    /\ approval' = [approval EXCEPT ![held] = call[held]]
    /\ Applied
    /\ UNCHANGED <<trancheVars, ticketVars, gitVars, measured, frozen, h1Vars, call, landed, nextVars,
                   fixVars, faultVars>>

----------------------------------------------------------------------------
(* Landing: the merge, then the evidence.                                  *)

\* Mutant: whatever was integrated last is merged, not what was approved.
MergedHead(t) == head[t]

\* The approved integration commit.
Merged(t) == Final(t)

\* A merge commit that exists already (the replay in execute_tranche_landing) is
\* never met here: a landing that was begun is not taken up again.
Land ==
    LET t == held[2] IN
    /\ At("run", "landing")
    /\ IF canonical = frozen[t] /\ Ancestor(frozen[t], Merged(t)) /\ canonical # Merged(t)
       THEN /\ Commit(Landing(t), {canonical, Merged(t)})
            /\ canonical' = Landing(t)
            /\ Goto("apply")
            /\ UNCHANGED <<ledgerVars, head, faultVars>>
       ELSE Raise

ApplyLanding ==
    LET t == held[2] IN
    /\ At("apply", "landing")
    /\ IF Landable(t)
       THEN /\ landed' = landed \cup {t}
            /\ status' = [status EXCEPT ![t] = "completed"]
            /\ Applied
            /\ UNCHANGED <<base, ticketVars, gitVars, measured, frozen, h1Vars, paidVars, nextVars, fixVars,
                           faultVars>>
       ELSE Raise

----------------------------------------------------------------------------
(* The successor: authority is read, the planner asked, tickets written,   *)
(* and in a transaction of its own the materialization is recorded.        *)

ChooseBase ==
    LET t == held[2] IN
    /\ At("run", "materialize")
    /\ \/ /\ status[t + 1] = "active"
          /\ Goto("apply") /\ UNCHANGED <<ledgerVars, gitVars, faultVars>>
       \/ status[t + 1] # "active" /\ Authority(t) = NoCommit /\ Raise
       \/ /\ status[t + 1] # "active" /\ Authority(t) # NoCommit
          /\ chosen' = [base |-> Authority(t), known |-> Members(t)]
          /\ pc' = "write"
          /\ UNCHANGED <<scope, held, ledgerVars, gitVars, faultVars>>

\* Ledger.materialize_next_tranche
WriteTranche ==
    LET u == held[2] + 1
        new == {k \in Planned : k[1] = u} IN
    /\ pc = "write"
    /\ status' = [status EXCEPT ![u] = "active"]
    /\ base' = [base EXCEPT ![u] = chosen.base]
    /\ state' = [k \in Tickets |-> IF k \in new THEN "draft" ELSE state[k]]
    /\ card' = [k \in Tickets |-> IF k \in new THEN [status |-> "pending", base |-> chosen.base] ELSE card[k]]
    /\ Goto("apply")
    /\ UNCHANGED <<bound, gitVars, claimVars, h1Vars, paidVars, landed, nextVars, fixVars, faultVars>>

\* The effect asks for the final commit of H1, whatever the coordinator chose.
ApplyMaterialize ==
    LET t == held[2] IN
    /\ At("apply", "materialize")
    /\ IF base[t + 1] = Final(t)
       THEN /\ materialized' = [materialized EXCEPT ![t + 1] = base[t + 1]]
            /\ Applied
            /\ UNCHANGED <<trancheVars, ticketVars, gitVars, measured, frozen, h1Vars, paidVars, landed,
                           activated, fixVars, faultVars>>
       ELSE Raise

ApplyActivation ==
    LET t == held[2] IN
    /\ At("apply", "activation")
    /\ IF Activatable(t)
       THEN /\ activated' = activated \cup {t}
            /\ Applied
            /\ UNCHANGED <<trancheVars, ticketVars, gitVars, measured, frozen, h1Vars, paidVars, landed,
                           materialized, fixVars, faultVars>>
       ELSE Raise

----------------------------------------------------------------------------
(* Tickets: activation of delivered work, then the pipeline.               *)

\* generated_activation_candidates
Candidates == {k \in Tickets : state[k] = "draft" /\ card[k].status = "acknowledged" /\ bound[k] = NoCommit}

\* Mutant: planned work is always bound to the base of the activated plan.
BindingPlanned(k) == IF k \in Fixes THEN head[k[1]] ELSE Root

\* Planned work starts from the commit its card names, a correction from the
\* integration head.
Binding(k) == IF k \in Fixes THEN head[k[1]] ELSE card[k].base

\* A tick may die between the binding and the admission.
ActivateTicket ==
    /\ pc = "claim" /\ scope = Stages /\ \A f \in Stages : ~Asks(f)
    /\ \E k \in Candidates :
          /\ \A l \in Candidates : l[1] > k[1] \/ (l[1] = k[1] /\ l[2] >= k[2])
          /\ bound' = [bound EXCEPT ![k] = Binding(k)]
          /\ \/ state' = [state EXCEPT ![k] = "ready"] /\ crashes' = crashes
             \/ crashes + foreign < MaxFaults /\ crashes' = crashes + 1 /\ state' = state
    /\ EndTick
    /\ UNCHANGED <<trancheVars, card, gitVars, claimVars, h1Vars, paidVars, landed, nextVars, fixVars, foreign>>

\* The readiness stage admits a bound draft.
AdmitTicket ==
    /\ pc = "claim" /\ scope = Stages /\ \A f \in Stages : ~Asks(f)
    /\ Candidates = {}
    /\ \E k \in Tickets : /\ state[k] = "draft" /\ bound[k] # NoCommit
                          /\ state' = [state EXCEPT ![k] = "ready"]
    /\ EndTick
    /\ UNCHANGED <<trancheVars, bound, card, gitVars, claimVars, h1Vars, paidVars, landed, nextVars,
                   fixVars, faultVars>>

\* The pipeline: the candidate is made on the integration head, which the first
\* ticket of a tranche anchors at its binding, accepted, and committed.
FinishTicket ==
    /\ pc = "claim" /\ scope = Stages
    /\ \E k \in Tickets :
          LET t == k[1] IN
          /\ state[k] = "ready"
          /\ state' = [state EXCEPT ![k] = "done"]
          /\ Commit(k, {IF head[t] = NoCommit THEN bound[k] ELSE head[t]})
          /\ head' = [head EXCEPT ![t] = k]
    /\ EndTick
    /\ UNCHANGED <<trancheVars, bound, card, canonical, claimVars, h1Vars, paidVars, landed, nextVars,
                   fixVars, faultVars>>

----------------------------------------------------------------------------
(* Operators: corrections, rechecks, terminal cards.                       *)

\* CorrectionService.create_plan names an accepted ticket in the lineage.
PlanFix(t) ==
    /\ Cardinality({k \in Fixes : k[2] <= Works + fixes[k[1]]}) < MaxFixes
    /\ \E k \in Planned : k[1] = t /\ state[k] = "done" /\ Ancestor(k, head[t])
    /\ fixes' = [fixes EXCEPT ![t] = @ + 1]
    /\ UNCHANGED <<trancheVars, ticketVars, gitVars, claimVars, h1Vars, paidVars, landed, nextVars, recheck,
                   tickVars, faultVars>>

\* CorrectionService.materialize, in the order of the plans.
MaterializeFix(t) ==
    \E n \in 1..fixes[t] :
        LET k == <<t, Works + n>> IN
        /\ state[k] = "absent" /\ \A m \in 1..(n - 1) : state[<<t, Works + m>>] # "absent"
        /\ state' = [state EXCEPT ![k] = "draft"]
        /\ card' = [card EXCEPT ![k] = [status |-> "pending", base |-> Provenance(k)]]
        /\ UNCHANGED <<trancheVars, bound, gitVars, claimVars, h1Vars, paidVars, landed, nextVars, fixVars,
                       tickVars, faultVars>>

\* record_tranche_completion_recheck: a generation more, if anything is new.  Only what is
\* materialized is looked at.
Recheck(t) ==
    LET new == [generation |-> recheck[t].generation + 1, fixes |-> fixes[t], of |-> Supplements(t),
                head |-> head[t]] IN
    /\ Supplements(t) # {} /\ h1[t] # {}
    /\ \A k \in Supplements(t) : state[k] = "done" /\ Ancestor(k, head[t])
    /\ new # [recheck[t] EXCEPT !.generation = @ + 1]
    /\ recheck' = [recheck EXCEPT ![t] = new]
    /\ UNCHANGED <<trancheVars, ticketVars, gitVars, claimVars, h1Vars, paidVars, landed, nextVars, fixes,
                   tickVars, faultVars>>

\* reopen_terminal_generated_projection: only a card that would verify now.
ReopenCard ==
    /\ \E k \in Tickets : /\ card[k].status = "terminal" /\ card[k].base = Provenance(k)
                          /\ card' = [card EXCEPT ![k].status = "pending"]
    /\ UNCHANGED <<trancheVars, state, bound, gitVars, claimVars, h1Vars, paidVars, landed, nextVars,
                   fixVars, tickVars, faultVars>>

----------------------------------------------------------------------------
(* Time, deaths, exceptions and other people's commits.                    *)

Lapse == [c \in Claims |-> [claim[c] EXCEPT !.live = FALSE]]

Expire ==
    /\ pc = "idle" /\ claim # Lapse
    /\ claim' = Lapse
    /\ UNCHANGED <<trancheVars, ticketVars, gitVars, measured, frozen, h1Vars, paidVars, landed, nextVars,
                   fixVars, tickVars, faultVars>>

\* After a death no tick starts until its leases have run out, after an exception
\* between two transactions the next one does.
Crash ==
    /\ pc # "idle" /\ crashes + foreign < MaxFaults
    /\ crashes' = crashes + 1
    /\ claim' \in {claim, Lapse}
    /\ EndTick
    /\ UNCHANGED <<trancheVars, ticketVars, gitVars, measured, frozen, h1Vars, paidVars, landed, nextVars,
                   fixVars, foreign>>

ForeignCommit ==
    /\ crashes + foreign < MaxFaults
    /\ foreign' = foreign + 1
    /\ Commit(Foreign(foreign + 1), {canonical})
    /\ canonical' = Foreign(foreign + 1)
    /\ UNCHANGED <<ledgerVars, head, tickVars, crashes>>

----------------------------------------------------------------------------
TickStep ==
    \/ StartTick \/ DeliverCard \/ Claim \/ ClaimRaises \/ RetireClaim \/ Begin \/ Finalize \/ NoWork
    \/ RunCheckpoint \/ ApplyCheckpoint \/ Reserve \/ Answer \/ ApplyPaid \/ Land \/ ApplyLanding
    \/ ChooseBase \/ WriteTranche \/ ApplyMaterialize \/ ApplyActivation
    \/ ActivateTicket \/ AdmitTicket

Operator == ReopenCard \/ \E t \in Tranches : PlanFix(t) \/ MaterializeFix(t) \/ Recheck(t)

Next == TickStep \/ FinishTicket \/ Operator \/ Expire \/ Crash \/ ForeignCommit

Spec == Init /\ [][Next]_vars

\* Ticks are run again and again and take their steps, a ready ticket is finished
\* by one of them, leases run out between them.
FairSpec == Spec /\ WF_vars(TickStep) /\ SF_vars(FinishTicket) /\ SF_vars(Expire)

----------------------------------------------------------------------------
(* Properties.                                                             *)

\* Work reaches the canonical branch only inside the commit that H1 measured, the
\* deterministic checkpoint passed and a paid review approved, itself or on
\* escalation: nothing that was accepted after the measurement slips in with it.
LandedApproved ==
    \A k \in Tickets : Ancestor(k, canonical) =>
        /\ k \in h1[k[1]] /\ checkpoint[k[1]] = "ready"
        /\ \E s \in Paid : approval[<<s, k[1]>>] = "approve"

\* What a review approves is the tranche's base and its accepted tickets, one
\* commit each and nothing else, in whatever order the tickets were accepted.
CheckpointSerial ==
    \A t \in Tranches : h1[t] # {} => history[Final(t)] = history[base[t]] \cup h1[t]

\* Tranches, claims and branches keep their types, and what is measured is one chain.
Consistent == TypeOK /\ CheckpointSerial

\* Generated work is done on the commit its tranche was planned on, although the
\* card that carries it is written before the materialization is recorded.
WorkOnBase ==
    \A k \in Planned : bound[k] # NoCommit =>
        bound[k] = base[k[1]] /\ (state[k] = "done" => Ancestor(base[k[1]], k))

\* A successor starts only from a landed predecessor, and from a commit that holds
\* every ticket and correction of it that existed when its completion was read.
HandoffComplete ==
    [][\A t \in Tranches : status[t] = "planned" /\ status'[t] = "active" =>
        t - 1 \in landed /\ chosen.known \subseteq history[base'[t]]]_vars

\* A checkpoint claim that a tick left behind, of a tranche that has since landed
\* or been corrected: no tick gets past it once it has lapsed.
Overtaken == \E t \in Tranches : claim[<<"checkpoint", t>>].status \in Open /\ (t \in landed \/ fixes[t] > 0)

\* A tranche whose tickets were accepted in order is measured, through deaths and
\* replays, unless corrections change it on the way.
MeasuredInTheEnd ==
    \A t \in Tranches : Complete(t) /\ Serialized(t) ~> h1[t] # {} \/ fixes[t] > 0 \/ Overtaken

\* A landed tranche hands over: its successor is active and recorded so, unless
\* corrections of either are under way, the successor's own tickets are
\* already done, or a tick died between the tickets of the successor and their
\* materialization, which ends their cards.
HandsOver ==
    \A t \in Tranches \ {Last} :
        t \in landed ~> \/ t + 1 \in activated \/ fixes[t] > 0 \/ fixes[t + 1] > 0 \/ Overtaken
                        \/ Complete(t + 1)
                        \/ \E k \in Tickets : k[1] = t + 1 /\ card[k].status = "terminal"

\* RuntimeController.execute_tranche_landing: "Land one paid-approved tranche onto
\* the clean canonical branch."  Every approved tranche gets there.
EveryTrancheLands == \A t \in Tranches : Landable(t) ~> t \in landed

=============================================================================
