--------------------------- MODULE HermesDispatch ---------------------------
(***************************************************************************)
(* The generated tickets of one tranche on their way through the Hermes    *)
(* board: their cards are created blocked, the ledger's dependencies       *)
(* become links of the board (native_dependency_graph), a card is exposed  *)
(* to the Hermes dispatcher once the tickets it waits for are done         *)
(* (native_dependency_release), a Hermes worker implements it and hands it *)
(* over, the hand-over becomes an attempt of the ticket, and a repair puts *)
(* a fresh card between the old one and its children.                      *)
(*                                                                         *)
(* One action is one ledger transaction or one board command.  Hermes and  *)
(* its workers act between any two of them; a tick may die after any, or   *)
(* raise, and then leaves its claim to the lease.  Ticks do not overlap.   *)
(* Validation, review and completion (TicketPipeline) are three actions    *)
(* here; delivery of the cards themselves, other projections, pausing and  *)
(* the operator's corrections of a graph are left out.  A hand-over always *)
(* carries a diff, and leaves it committed.                                *)
(***************************************************************************)
EXTENDS Integers, FiniteSets

CONSTANTS
    Tickets,        \* the generated tickets of the tranche
    Deps,           \* dependencies_json: the tickets each waits for
    Kinds,          \* the ways a worker hands over: "review", "blocked", "done"
    MaxTries,       \* attempts of a ticket that a review may ask for
    MaxRuns,        \* bound on the runs of one card
    MaxRepairs,     \* bound on the repairs of all tickets
    MaxCrashes      \* bound on the ticks that die

ASSUME TicketsAssumption == IsFiniteSet(Tickets)
ASSUME DepsAssumption == Deps \in [Tickets -> SUBSET Tickets]
ASSUME KindsAssumption == Kinds \subseteq {"review", "blocked", "done"}
ASSUME BoundsAssumption ==
    /\ {MaxTries, MaxRuns} \subseteq Nat \ {0} /\ {MaxRepairs, MaxCrashes} \subseteq Nat

Stages == {"graph", "release"}
\* The card of a ticket's attempt n; attempts 1 and up to the first repair share one.
Cards == Tickets \X (1..MaxTries)
NoGraph == [child |-> <<"none", 0>>, parents |-> {}]
\* What a graph says of a ticket: its own card, and the cards of its dependencies.
Graphs == [child : Cards, parents : SUBSET Cards] \cup {NoGraph}
Kind == {"review", "blocked", "done"}

VARIABLES
    state, tries, bound,    \* tickets, the latest attempts row, runtime_bindings
    card,                   \* the attempt whose card resolve_external_task_id names
    intent, finished,       \* the live set_state intent; tickets whose done was delivered
    graph, released,        \* effective native_dependency_graphs, native_dependency_releases
    claim,                  \* scheduler_stage_claims of the two stages
    plan,                   \* generated-repair-activation-intent-N
    status, parents,        \* the cards of the board and their links
    fresh, last,            \* runs no reconciliation has taken, by kind; kind of the last run
    tree, prepared,         \* the ticket's worktree; those Local First prepared
    pc, crashes

ledgerVars == <<state, tries, bound, card, intent, finished, graph, released, claim, plan>>
boardVars == <<status, parents, fresh, last, tree, prepared>>
vars == <<ledgerVars, boardVars, pc, crashes>>

Idle == <<"idle", "none">>
NoPlan == [open |-> FALSE, children |-> {}]
NoIntent == [to |-> "none", held |-> FALSE]

TypeOK ==
    /\ state \in [Tickets -> {"draft", "ready_local", "implementing", "local_review",
                              "repairing", "done"}]
    /\ tries \in [Tickets -> Nat] /\ bound \subseteq Tickets
    /\ card \in [Tickets -> 1..MaxTries]
    /\ intent \in [Tickets -> [to : {"none", "ready", "review", "done"}, held : BOOLEAN]]
    /\ finished \subseteq Tickets
    /\ graph \in [Tickets -> Graphs] /\ released \subseteq Tickets
    /\ claim \in [Stages \X Tickets -> [status : {"none", "begun", "applied", "completed"},
                                        lapsed : BOOLEAN, on : Graphs]]
    /\ plan \in [Tickets -> [open : BOOLEAN, children : SUBSET Cards]]
    /\ status \in [Cards -> {"none", "blocked", "ready", "running", "review", "done"}]
    /\ parents \in [Cards -> SUBSET Cards]
    /\ fresh \in [Cards -> [Kind -> 0..MaxRuns]] /\ last \in [Cards -> Kind \cup {"none"}]
    /\ tree \in [Tickets -> {"absent", "clean", "worked"}] /\ prepared \subseteq Tickets
    /\ pc \in ({"idle"} \X {"none"}) \cup
              ({"ack", "graph", "complete_graph", "release", "expose", "observe",
                "complete_release", "admit", "prepare", "make", "move", "revise", "record"}
               \X Tickets)
    /\ crashes \in 0..MaxCrashes

Init ==
    /\ state = [t \in Tickets |-> "draft"] /\ tries = [t \in Tickets |-> 0] /\ bound = {}
    /\ card = [t \in Tickets |-> 1]
    /\ intent = [t \in Tickets |-> NoIntent] /\ finished = {}
    /\ graph = [t \in Tickets |-> NoGraph] /\ released = {}
    /\ claim = [c \in Stages \X Tickets |->
                   [status |-> "none", lapsed |-> FALSE, on |-> NoGraph]]
    /\ plan = [t \in Tickets |-> NoPlan]
    /\ status = [c \in Cards |-> "none"] /\ parents = [c \in Cards |-> {}]
    /\ fresh = [c \in Cards |-> [k \in Kind |-> 0]] /\ last = [c \in Cards |-> "none"]
    /\ tree = [t \in Tickets |-> "absent"] /\ prepared = {}
    /\ pc = Idle /\ crashes = 0

----------------------------------------------------------------------------
(* What the ledger and the board say.                                      *)

Original(t) == <<t, 1>>
Current(t) == <<t, card[t]>>
Replacement(t) == <<t, tries[t]>>               \* the card of the repair being activated
Carded(t) == status[Original(t)] # "none"

\* The cards that stand for the dependencies now.
Parents(t) == {Current(p) : p \in Deps[t]}
\* Mutant: the cards the dependencies began with.
IdentityAtFirst(t) == [child |-> Current(t), parents |-> {Original(p) : p \in Deps[t]}]
\* _native_dependency_graph_identity
Identity(t) == [child |-> Current(t), parents |-> Parents(t)]
Known(t) == Carded(t) /\ \A p \in Deps[t] : Carded(p)

\* Mutant: a dependency counts as met when its card is done, whoever completed it.
ReleasableByBoard(t) ==
    /\ graph[t] # NoGraph /\ graph[t] = Identity(t)
    /\ \A p \in Deps[t] : status[Current(p)] = "done"
\* _native_dependency_release_identity does not raise.
Releasable(t) ==
    /\ graph[t] # NoGraph /\ graph[t] = Identity(t)
    /\ \A p \in Deps[t] : state[p] = "done" /\ p \in finished

\* The status of a card that unblock leaves behind, by Hermes' own rule.
Unblocked(c) == IF \A p \in parents[c] : status[p] = "done" THEN "ready" ELSE "todo"

\* A state projection is due, and is delivered before anything else is looked at.
Due(t) == intent[t].to # "none" /\ ~intent[t].held
Quiet == pc = Idle /\ \A t \in Tickets : ~Due(t)

\* next_scheduler_reconciliation: a claim whose lease ran out confines the tick to its stage.
Open(s, t) == claim[<<s, t>>].status \in {"begun", "applied"}
\* Mutant: a claim whose lease ran out is not taken again.
LapsedNever == {}
Lapsed == {x \in Stages \X Tickets : Open(x[1], x[2]) /\ claim[x].lapsed}
Unconfined == Quiet /\ Lapsed = {}

\* hermes_execution_candidates
Awaited(t) ==
    /\ Carded(t)
    /\ \/ state[t] \in {"ready_local", "implementing"}
       \/ state[t] = "repairing" /\ card[t] = tries[t] /\ tries[t] > 1

\* Mutant: the runs are looked at without the status of the card.
WaitingAnyStatus(t) == fresh[Current(t)]["review"] + fresh[Current(t)]["blocked"]
                       + fresh[Current(t)]["done"]
\* The runs reconcile_hermes_execution would choose from.
Waiting(t) == IF status[Current(t)] \in Kind THEN fresh[Current(t)][status[Current(t)]] ELSE 0
Ambiguous == \E t \in Tickets : Awaited(t) /\ Waiting(t) > 1
Clear == Unconfined /\ ~Ambiguous
Reconciled == Clear /\ \A t \in Tickets : Awaited(t) => Waiting(t) = 0

\* The candidates of the two claim methods.
GraphWork == {t \in Tickets : /\ state[t] \in {"draft", "ready_local"} /\ t \in bound
                              /\ graph[t] = NoGraph /\ Known(t)
                              /\ claim[<<"graph", t>>].status = "none"}
ReleaseWork == {t \in Tickets : /\ state[t] \in {"draft", "ready_local"}
                                /\ t \notin released /\ Releasable(t)
                                /\ claim[<<"release", t>>].status = "none"}

\* generated_repair_activation_candidates
RepairWork == {t \in Tickets : state[t] = "repairing" /\ card[t] < tries[t]}

\* repair_predecessor_task
Terminal(c) == status[c] = "done" \/ (status[c] = "blocked" /\ last[c] = "blocked")

Transition(t, to, next) ==
    /\ state' = [state EXCEPT ![t] = to]
    /\ intent' = [intent EXCEPT ![t] = [to |-> next, held |-> FALSE]]
Abandon == pc' = Idle
At(step, t) == pc = <<step, t>>
Goto(step, t) == pc' = <<step, t>>
SetStatus(c, s) == status' = [status EXCEPT ![c] = s]

----------------------------------------------------------------------------
(* Deliveries to the board, which a tick makes first.                      *)

\* GeneratedProjectionWorker.deliver_one: create_microticket makes the card blocked.
CreateCard(t) ==
    /\ pc = Idle /\ ~Carded(t)
    /\ SetStatus(Original(t), "blocked")
    /\ UNCHANGED <<ledgerVars, parents, fresh, last, tree, prepared, pc, crashes>>

\* HermesKanbanBoard.set_state for a card that carries the hand-over marker.  Where
\* none of the three applies it raises, and the intent is due again at once.
Deliver(t) ==
    LET c == Current(t) IN
    /\ pc = Idle /\ Due(t)
    /\ \/ /\ intent[t].to = "ready"
          /\ \/ status[c] \in {"ready", "running"} /\ UNCHANGED status
             \/ status[c] \in {"blocked", "todo"} /\ SetStatus(c, Unblocked(c))
       \/ intent[t].to = "review" /\ status[c] \in Kind /\ UNCHANGED status
       \/ intent[t].to = "done" /\ SetStatus(c, "done")
    /\ intent' = [intent EXCEPT ![t].held = TRUE] /\ Goto("ack", t)
    /\ UNCHANGED <<state, tries, bound, card, finished, graph, released, claim, plan,
                   parents, fresh, last, tree, prepared, crashes>>

Acknowledge(t) ==
    /\ At("ack", t)
    /\ finished' = IF intent[t].to = "done" THEN finished \cup {t} ELSE finished
    /\ intent' = [intent EXCEPT ![t] = NoIntent] /\ Abandon
    /\ UNCHANGED <<state, tries, bound, card, graph, released, claim, plan, boardVars, crashes>>

----------------------------------------------------------------------------
(* The hand-over, and what TicketPipeline makes of it.                     *)

\* reconcile_hermes_execution with require_handoff
Reconcile(t) ==
    LET c == Current(t) IN
    /\ Clear /\ Awaited(t) /\ Waiting(t) = 1
    /\ fresh' = [fresh EXCEPT ![c] = [k \in Kind |-> IF k = status[c] THEN 0 ELSE @[k]]]
    /\ tries' = IF state[t] = "repairing" THEN tries ELSE [tries EXCEPT ![t] = @ + 1]
    /\ state' = [state EXCEPT ![t] = "implementing"]
    /\ UNCHANGED <<bound, card, intent, finished, graph, released, claim, plan, status,
                   parents, last, tree, prepared, pc, crashes>>

\* Validation; a failure goes to repair routing without a projection.
Validate(t) ==
    /\ Clear /\ state[t] = "implementing"
    /\ Transition(t, "local_review", "review")
    /\ UNCHANGED <<tries, bound, card, finished, graph, released, claim, plan, boardVars,
                   pc, crashes>>

\* apply_scheduler_repair_routing_effect allots the next attempt with the transition.
Repairs == Cardinality({c \in Cards : c[2] > 1 /\ c[2] <= tries[c[1]]})
Review(t) ==
    /\ Clear /\ state[t] = "local_review"
    /\ \/ Transition(t, "done", "done") /\ UNCHANGED tries
       \/ /\ tries[t] < MaxTries /\ Repairs < MaxRepairs
          /\ Transition(t, "repairing", "none") /\ tries' = [tries EXCEPT ![t] = @ + 1]
    /\ UNCHANGED <<bound, card, finished, graph, released, claim, plan, boardVars, pc, crashes>>

----------------------------------------------------------------------------
(* The dependency graph of a card.                                         *)

Take(s, t, id) ==
    /\ claim' = [claim EXCEPT ![<<s, t>>] = [status |-> "begun", lapsed |-> FALSE, on |-> id]]
    /\ Goto(s, t)

\* A lapsed claim is taken again if its ticket still has the identity it was made for,
\* whatever else became of it; if not, the tick raises.
Retake(s, t) ==
    /\ <<s, t>> \in Lapsed
    /\ claim' = [claim EXCEPT ![<<s, t>>].lapsed = FALSE]
    /\ IF claim[<<s, t>>].status = "begun" THEN Goto(s, t)
       ELSE Goto(IF s = "graph" THEN "complete_graph" ELSE "complete_release", t)

ClaimGraph(t) ==
    /\ Quiet
    /\ \/ Reconciled /\ t \in GraphWork /\ Take("graph", t, Identity(t))
       \/ claim[<<"graph", t>>].on = Identity(t) /\ Retake("graph", t)
    /\ UNCHANGED <<state, tries, bound, card, intent, finished, graph, released, plan,
                   boardVars, crashes>>

\* link_dependency, unless the card has a parent it should not have
LinkParent(t) ==
    /\ At("graph", t)
    /\ IF parents[Current(t)] \subseteq claim[<<"graph", t>>].on.parents
       THEN /\ \E p \in claim[<<"graph", t>>].on.parents \ parents[Current(t)] :
                 parents' = [parents EXCEPT ![Current(t)] = @ \cup {p}]
            /\ UNCHANGED pc
       ELSE Abandon /\ UNCHANGED parents
    /\ UNCHANGED <<ledgerVars, status, fresh, last, tree, prepared, crashes>>

\* park_native_dependency_child: a card that waits for others is blocked first.
ParkChild(t) ==
    LET c == Current(t) IN
    /\ At("graph", t) /\ parents[c] = claim[<<"graph", t>>].on.parents
    /\ parents[c] # {} /\ status[c] # "blocked"
    /\ IF status[c] \in {"running", "done"} THEN Abandon /\ UNCHANGED status
       ELSE SetStatus(c, "blocked") /\ UNCHANGED pc
    /\ UNCHANGED <<ledgerVars, parents, fresh, last, tree, prepared, crashes>>

\* apply_scheduler_native_dependency_graph_effect
ApplyGraph(t) ==
    LET c == Current(t) IN
    /\ At("graph", t) /\ parents[c] = claim[<<"graph", t>>].on.parents
    /\ parents[c] = {} \/ status[c] = "blocked"
    /\ graph' = [graph EXCEPT ![t] = IF @ = NoGraph THEN claim[<<"graph", t>>].on ELSE @]
    /\ claim' = [claim EXCEPT ![<<"graph", t>>].status = "applied"]
    /\ Goto("complete_graph", t)
    /\ UNCHANGED <<state, tries, bound, card, intent, finished, released, plan, boardVars,
                   crashes>>

Complete(s, t) ==
    /\ claim' = [claim EXCEPT ![<<s, t>>].status = "completed"] /\ Abandon
    /\ UNCHANGED <<state, tries, bound, card, intent, finished, graph, released, plan,
                   boardVars, crashes>>
CompleteGraph(t) == At("complete_graph", t) /\ Complete("graph", t)
CompleteRelease(t) == At("complete_release", t) /\ Complete("release", t)

----------------------------------------------------------------------------
(* The release of a card to the dispatcher.                                *)

ClaimRelease(t) ==
    /\ Quiet
    /\ \/ Reconciled /\ GraphWork = {} /\ t \in ReleaseWork /\ Take("release", t, graph[t])
       \/ Releasable(t) /\ claim[<<"release", t>>].on = graph[t] /\ Retake("release", t)
    /\ UNCHANGED <<state, tries, bound, card, intent, finished, graph, released, plan,
                   boardVars, crashes>>

\* Mutant: only a card that was linked gets a worktree of its own.
PrepareLinked(t) ==
    IF tree[t] = "worked" \/ parents[Current(t)] = {} THEN UNCHANGED <<tree, prepared>>
    ELSE tree' = [tree EXCEPT ![t] = "clean"] /\ prepared' = prepared \cup {t}
\* prepare_hermes_dispatch_worktree: the worktree is made, or is at its base and clean.
Prepare(t) ==
    IF tree[t] = "worked" THEN UNCHANGED <<tree, prepared>>
    ELSE tree' = [tree EXCEPT ![t] = "clean"] /\ prepared' = prepared \cup {t}

PrepareRelease(t) ==
    /\ At("release", t) /\ Prepare(t)
    /\ IF tree[t] # "worked" THEN Goto("expose", t) ELSE Abandon
    /\ UNCHANGED <<ledgerVars, status, parents, fresh, last, crashes>>

\* The card is read once to compare its parents and unblock it.
Expose(t) ==
    LET c == Current(t) IN
    /\ At("expose", t)
    /\ IF parents[c] # graph[t].parents THEN Abandon /\ UNCHANGED status
       ELSE /\ Goto("observe", t)
            /\ IF status[c] = "blocked" THEN SetStatus(c, Unblocked(c)) ELSE UNCHANGED status
    /\ UNCHANGED <<ledgerVars, parents, fresh, last, tree, prepared, crashes>>

\* ... and once more, to record that Hermes exposes it as ready.
\* apply_scheduler_native_dependency_release_effect admits a draft in the same
\* transaction; its own ready intent counts as delivered.
Observe(t) ==
    /\ At("observe", t)
    /\ IF status[Current(t)] = "ready" /\ Releasable(t) /\ state[t] \in {"draft", "ready_local"}
       THEN /\ released' = released \cup {t}
            /\ state' = [state EXCEPT ![t] = "ready_local"]
            /\ intent' = IF state[t] = "draft" THEN [intent EXCEPT ![t] = NoIntent] ELSE intent
            /\ claim' = [claim EXCEPT ![<<"release", t>>].status = "applied"]
            /\ Goto("complete_release", t)
       ELSE Abandon /\ UNCHANGED <<released, state, intent, claim>>
    /\ UNCHANGED <<tries, bound, card, finished, graph, plan, boardVars, crashes>>

----------------------------------------------------------------------------
(* Admission, by the generated activation or by the readiness stage.       *)

\* generated_activation_candidates, taken once no repair waits for its card
Settled == Reconciled /\ GraphWork = {} /\ ReleaseWork = {} /\ RepairWork = {}
Bind(t) ==
    /\ Settled /\ state[t] = "draft" /\ Carded(t) /\ t \notin bound
    /\ bound' = bound \cup {t} /\ Goto("admit", t)
    /\ UNCHANGED <<state, tries, card, intent, finished, graph, released, claim, plan,
                   boardVars, crashes>>

\* admit_ticket_if_ready
Admit(t) ==
    /\ At("admit", t)
    /\ IF \A p \in Deps[t] : state[p] = "done"
       THEN Transition(t, "ready_local", "ready") /\ Goto("prepare", t)
       ELSE Abandon /\ UNCHANGED <<state, intent>>
    /\ UNCHANGED <<tries, bound, card, finished, graph, released, claim, plan, boardVars, crashes>>

PrepareAdmitted(t) ==
    /\ At("prepare", t) /\ Prepare(t) /\ Abandon
    /\ UNCHANGED <<ledgerVars, status, parents, fresh, last, crashes>>

\* The readiness stage admits a bound draft without dependencies, with no worktree.
Readiness(t) ==
    /\ Settled /\ state[t] = "draft" /\ t \in bound /\ Deps[t] = {}
    /\ \A u \in Tickets : state[u] = "draft" /\ Carded(u) => u \in bound
    /\ Transition(t, "ready_local", "ready")
    /\ UNCHANGED <<tries, bound, card, finished, graph, released, claim, plan, boardVars,
                   pc, crashes>>

----------------------------------------------------------------------------
(* A repair: a fresh card between the old one and its children.            *)

Children(c) == {d \in Cards : c \in parents[d]}

\* prepare_hermes_repair_worktree finds the worktree of the first card, at the head that
\* was reconciled.
Untouched(t) == Current(t) = Original(t) /\ last[Replacement(t)] = "none"

\* Where the worktree is another, or the old card is not terminal, the tick raises.
PlanRepair(t) ==
    /\ Reconciled /\ GraphWork = {} /\ ReleaseWork = {} /\ t \in RepairWork
    /\ Untouched(t) /\ Terminal(Current(t))
    /\ plan' = IF plan[t].open THEN plan
               ELSE [plan EXCEPT ![t] = [open |-> TRUE, children |-> Children(Current(t))]]
    /\ Goto("make", t)
    /\ UNCHANGED <<state, tries, bound, card, intent, finished, graph, released, claim,
                   boardVars, crashes>>

\* The idempotency key finds the card of an earlier tick.
MakeCard(t) ==
    LET c == Replacement(t) IN
    /\ At("make", t) /\ Goto("move", t)
    /\ IF status[c] # "none" THEN UNCHANGED <<status, parents>>
       ELSE /\ SetStatus(c, "blocked")
            /\ parents' = [parents EXCEPT ![c] =
                              IF status[Current(t)] = "done" THEN {Current(t)} ELSE {}]
    /\ UNCHANGED <<ledgerVars, fresh, last, tree, prepared, crashes>>

\* Each child is parked, linked to the new card and unlinked from the old one.
Unmoved(t) == {d \in plan[t].children :
                  \/ status[d] # "blocked" \/ Replacement(t) \notin parents[d]
                  \/ Current(t) \in parents[d]}
MoveChild(t) ==
    /\ At("move", t)
    /\ \E d \in Unmoved(t) :
          \/ status[d] \in {"running", "done"} /\ Abandon /\ UNCHANGED <<status, parents>>
          \/ /\ status[d] \notin {"blocked", "running", "done"}
             /\ SetStatus(d, "blocked") /\ UNCHANGED <<parents, pc>>
          \/ /\ status[d] = "blocked" /\ Replacement(t) \notin parents[d]
             /\ parents' = [parents EXCEPT ![d] = @ \cup {Replacement(t)}]
             /\ UNCHANGED <<status, pc>>
          \/ /\ status[d] = "blocked" /\ Replacement(t) \in parents[d]
             /\ parents' = [parents EXCEPT ![d] = @ \ {Current(t)}]
             /\ UNCHANGED <<status, pc>>
    /\ UNCHANGED <<ledgerVars, fresh, last, tree, prepared, crashes>>

\* The card is freed last; a card in review is no status the caller supports.
FreeCard(t) ==
    LET c == Replacement(t) IN
    /\ At("move", t) /\ Unmoved(t) = {}
    /\ IF status[c] = "review" \/ Children(c) # plan[t].children
       THEN Abandon /\ UNCHANGED status
       ELSE /\ Goto("revise", t)
            /\ IF status[c] = "blocked" THEN SetStatus(c, Unblocked(c)) ELSE UNCHANGED status
    /\ UNCHANGED <<ledgerVars, parents, fresh, last, tree, prepared, crashes>>

\* record_repair_dependency_insertions
Graphed(t) == {u \in Tickets : graph[u].child \in plan[t].children}
ReviseGraphs(t) ==
    /\ At("revise", t)
    /\ IF \A u \in Graphed(t) : /\ u \notin released
                                 /\ graph[u].parents \cap {Current(t), Replacement(t)} # {}
       THEN /\ graph' = [u \in Tickets |-> IF u \in Graphed(t)
                            THEN [graph[u] EXCEPT !.parents = (@ \ {Current(t)}) \cup {Replacement(t)}]
                            ELSE graph[u]]
            /\ Goto("record", t)
       ELSE Abandon /\ UNCHANGED graph
    /\ UNCHANGED <<state, tries, bound, card, intent, finished, released, claim, plan,
                   boardVars, crashes>>

\* The activation stage: resolve_external_task_id names the new card from here on.
RecordRepair(t) ==
    /\ At("record", t)
    /\ card' = [card EXCEPT ![t] = tries[t]] /\ plan' = [plan EXCEPT ![t] = NoPlan] /\ Abandon
    /\ UNCHANGED <<state, tries, bound, intent, finished, graph, released, claim, boardVars,
                   crashes>>

----------------------------------------------------------------------------
(* Hermes, the leases and the process that dies.                           *)

\* Hermes makes the worktree of a card that has none.
Dispatch(c) ==
    /\ status[c] = "ready" /\ fresh[c]["review"] + fresh[c]["blocked"] + fresh[c]["done"] < MaxRuns
    /\ SetStatus(c, "running")
    /\ tree' = [tree EXCEPT ![c[1]] = IF @ = "absent" THEN "clean" ELSE @]
    /\ UNCHANGED <<ledgerVars, parents, fresh, last, prepared, pc, crashes>>

Finish(c) ==
    /\ status[c] = "running"
    /\ \E k \in Kinds :
          /\ SetStatus(c, k) /\ fresh' = [fresh EXCEPT ![c][k] = @ + 1]
          /\ last' = [last EXCEPT ![c] = k]
    /\ tree' = [tree EXCEPT ![c[1]] = "worked"]
    /\ UNCHANGED <<ledgerVars, parents, prepared, pc, crashes>>

\* A lease of an intent or of a claim runs out after its tick is gone.
LapseIntent(t) ==
    /\ intent[t].held /\ ~At("ack", t)
    /\ intent' = [intent EXCEPT ![t].held = FALSE]
    /\ UNCHANGED <<state, tries, bound, card, finished, graph, released, claim, plan, boardVars,
                   pc, crashes>>
Held(s, t) == pc[2] = t /\ pc[1] \in (IF s = "graph" THEN {"graph", "complete_graph"}
                                      ELSE {"release", "expose", "observe", "complete_release"})
LapseClaim(s, t) ==
    /\ Open(s, t) /\ ~claim[<<s, t>>].lapsed /\ ~Held(s, t)
    /\ claim' = [claim EXCEPT ![<<s, t>>].lapsed = TRUE]
    /\ UNCHANGED <<state, tries, bound, card, intent, finished, graph, released, plan, boardVars,
                   pc, crashes>>

Crash ==
    /\ pc # Idle /\ crashes < MaxCrashes /\ crashes' = crashes + 1 /\ Abandon
    /\ UNCHANGED <<ledgerVars, boardVars>>

Step(t) ==
    \/ CreateCard(t) \/ Deliver(t) \/ Acknowledge(t) \/ Reconcile(t) \/ Validate(t) \/ Review(t)
    \/ ClaimGraph(t) \/ LinkParent(t) \/ ParkChild(t) \/ ApplyGraph(t) \/ CompleteGraph(t)
    \/ ClaimRelease(t) \/ PrepareRelease(t) \/ Expose(t) \/ Observe(t) \/ CompleteRelease(t)
    \/ Bind(t) \/ Admit(t) \/ PrepareAdmitted(t) \/ Readiness(t)
    \/ PlanRepair(t) \/ MakeCard(t) \/ MoveChild(t) \/ FreeCard(t) \/ ReviseGraphs(t)
    \/ RecordRepair(t)
Work(c) == Dispatch(c) \/ Finish(c)
Lapse(t) == LapseIntent(t) \/ \E s \in Stages : LapseClaim(s, t)

Next == (\E t \in Tickets : Step(t) \/ Lapse(t)) \/ (\E c \in Cards : Work(c)) \/ Crash

Spec == Init /\ [][Next]_vars

\* The daemon keeps ticking and what a tick can do it does; workers finish; leases expire.
FairSpec ==
    /\ Spec
    /\ \A t \in Tickets : WF_vars(Step(t)) /\ WF_vars(Lapse(t))
    /\ \A c \in Cards : WF_vars(Work(c))

----------------------------------------------------------------------------
(* Properties.                                                             *)

\* No card is dispatchable while a ticket its own ticket depends on is not accepted,
\* whoever unblocks it and however often its parents change under it.
ChildWaits ==
    \A t \in Tickets, n \in 1..MaxTries :
        status[<<t, n>>] \in {"ready", "running"} => \A p \in Deps[t] : state[p] = "done"

\* What the ledger recorded of a released card is what the board says of it.
ReleasedAsLinked ==
    \A t \in released : graph[t].parents = Parents(t) /\ parents[Original(t)] = Parents(t)

\* Cards, claims and the tick keep their types, and the ledger's graph is the board's.
\* A card is unblocked only when its parents on the board are done: none is left in todo
\* for Hermes to promote (recompute_ready), whatever the ledger thinks of its ticket.
Consistent == TypeOK /\ ReleasedAsLinked

\* Without a tick that dies, a worker only ever starts in a worktree Local First prepared
\* ("Before any dispatcher-owned generated ticket becomes runnable, Local First prepares
\* ..." docs/native-hermes-integration.md:23).
PreparedFirst ==
    crashes = 0 => \A c \in Cards : status[c] = "running" => c[1] \in prepared

\* While Local First validates, reviews or integrates a ticket, its card is not
\* dispatchable.
KeptParked ==
    crashes = 0 =>
        \A t \in Tickets : state[t] \in {"implementing", "local_review", "done"} =>
            status[Current(t)] \notin {"ready", "running"}

\* A worker starts once the release or the activation of its card is recorded, hands over
\* in a way a repair can follow, a ticket is repaired once at most, and no card is being
\* linked, or released under a claim that is still open, while it or a parent is replaced.
Orderly ==
    /\ \A t \in Tickets, n \in 1..MaxTries : status[<<t, n>>] = "running" =>
          /\ t \in released /\ n = card[t] /\ intent[t] = NoIntent
    /\ \A t \in RepairWork : Current(t) = Original(t) /\ Terminal(Current(t))
    /\ \A t \in Tickets : plan[t].open => ~Open("release", t) /\ \A u \in Tickets : ~Open("graph", u)
\* An orderly tranche is finished, whichever one tick dies and whatever is repaired.
AllDone == []Orderly => <>(\A t \in Tickets : state[t] = "done")

\* A ticket sent back for repair gets the card its next attempt runs on
\* ("Review is the preferred implementation handoff", hermes_board.py:389).
RepairActivates == \A t \in Tickets : state[t] = "repairing" ~> card[t] = tries[t]

=============================================================================
