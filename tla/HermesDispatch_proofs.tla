----------------------- MODULE HermesDispatch_proofs -----------------------
(* No card is dispatchable before the tickets it waits for are accepted,   *)
(* what the ledger recorded of a released card is what the board says of   *)
(* it, and a card is neither started unprepared nor while its ticket is    *)
(* judged: for any tickets and dependencies, and any number of attempts,   *)
(* runs, repairs and ticks that die.                                       *)
EXTENDS HermesDispatch, TLAPS

USE DEF ledgerVars, boardVars

\* The tickets a ticket waits for are accepted, and the cards that stand for them are done.
Met(t) == \A p \in Deps[t] : state[p] = "done" /\ status[Current(p)] = "done"

\* Who is admitted, or has a card that Hermes may dispatch, waits for nobody; the parents of the
\* card of an admitted ticket are done, so that unblocking it makes it ready.
Admitted ==
    \A t \in Tickets :
        /\ state[t] # "draft" => Met(t) /\ \A q \in parents[Current(t)] : status[q] = "done"
        /\ intent[t].to # "none" \/ t \in released => state[t] # "draft"
        /\ intent[t].to = "ready" => state[t] \in {"ready_local", "implementing"}
        /\ \A n \in 1..MaxTries : status[<<t, n>>] \in {"ready", "running"} => Met(t)

\* The card of an accepted ticket is done, at the latest once the intent is delivered.
Accepted ==
    \A t \in Tickets :
        /\ state[t] = "done" => intent[t].to = "done" \/ status[Current(t)] = "done"
        /\ intent[t].to = "done" => state[t] = "done" /\ (intent[t].held => status[Current(t)] = "done")
        /\ t \in finished => state[t] = "done" /\ status[Current(t)] = "done"

\* The first card serves until a repair has one of its own, which exists only as long as
\* its plan is open.
Carding ==
    \A t \in Tickets :
        /\ state[t] \in {"draft", "ready_local"} => card[t] = 1
        /\ state[t] = "repairing" => tries[t] \in 1..MaxTries
        /\ plan[t].open => t \in RepairWork
        /\ \A n \in 1..MaxTries : n > card[t] =>
              \/ status[<<t, n>>] = "none" /\ parents[<<t, n>>] = {}
              \/ plan[t].open /\ n = tries[t]

\* Whose link a link is: that of a dependency of a bound ticket, or that of a repair on the
\* card it replaces.
Links ==
    \A t \in Tickets, n \in 1..MaxTries : \A q \in parents[<<t, n>>] :
        \/ q[1] \in Deps[t] /\ t \in bound /\ n <= card[t]
        \/ q[1] = t /\ q[2] < n /\ status[q] = "done"
Planned ==
    \A t \in Tickets : plan[t].open =>
        \A d \in plan[t].children : t \in Deps[d[1]] /\ d[1] \in bound /\ d[2] <= card[d[1]]

\* Runs that are counted were made, and fewer than the bound when another begins.
Runs ==
    /\ \A c \in Cards, k \in Kind : fresh[c][k] > 0 => tree[c[1]] = "worked"
    /\ \A c \in Cards : status[c] = "running" =>
          fresh[c]["review"] + fresh[c]["blocked"] + fresh[c]["done"] < MaxRuns

\* What the tick knows at each of its steps.
Placed ==
    /\ \A t \in Tickets : claim[<<"graph", t>>].status # "none" => t \in bound
    /\ \A t \in Tickets :
        /\ At("ack", t) => intent[t].to # "none" /\ intent[t].held
        /\ At("graph", t) => t \in bound /\ claim[<<"graph", t>>].on = Identity(t)
        /\ At("complete_graph", t) => t \in bound
        /\ pc[1] \in {"release", "expose", "observe"} /\ pc[2] = t =>
              Met(t) /\ graph[t] # NoGraph /\ graph[t] = Identity(t)
        /\ At("observe", t) => parents[Current(t)] = graph[t].parents
        /\ At("admit", t) => /\ state[t] = "draft" /\ parents[Original(t)] = {}
                             /\ \A p \in Deps[t] : state[p] = "done" => status[Current(p)] = "done"
        /\ At("prepare", t) => state[t] # "draft"
        /\ pc[1] \in {"make", "move", "revise", "record"} /\ pc[2] = t => plan[t].open

\* As long as no tick died.
Unbroken ==
    crashes = 0 =>
        \A t \in Tickets :
            /\ intent[t].held => At("ack", t)
            /\ intent[t].to = "ready" => state[t] = "ready_local"
            /\ t \in bound /\ state[t] = "draft" /\ Deps[t] = {} => At("admit", t)
            /\ \/ state[t] # "draft" /\ ~At("prepare", t)
               \/ tree[t] = "worked" \/ At("expose", t) \/ At("observe", t)
               \/ \E n \in 1..MaxTries : status[<<t, n>>] \in {"ready", "running"}
               => t \in prepared
            /\ state[t] \in {"implementing", "local_review", "repairing", "done"} => tree[t] = "worked"
            /\ At("expose", t) => state[t] \in {"draft", "ready_local"}

Ledger == ReleasedAsLinked /\ Admitted /\ Accepted /\ Carding /\ Links /\ Planned

IInv ==
    /\ TypeOK /\ Ledger /\ Runs /\ Placed /\ Unbroken /\ KeptParked

----------------------------------------------------------------------------
(* What is done stays done.                                                *)

LEMMA CardsAre ==
  ASSUME TypeOK
  PROVE  /\ \A t \in Tickets : /\ Current(t) \in Cards /\ Original(t) \in Cards /\ card[t] \in 1..MaxTries
                               /\ Deps[t] \subseteq Tickets /\ Parents(t) \subseteq Cards
                               /\ Identity(t) \in Graphs
         /\ \A c \in Cards : c[1] \in Tickets /\ c[2] \in 1..MaxTries /\ c = <<c[1], c[2]>>
  <1>1. \A t \in Tickets : /\ card[t] \in 1..MaxTries /\ 1 \in 1..MaxTries /\ Deps[t] \subseteq Tickets
    BY BoundsAssumption, DepsAssumption DEF TypeOK
  <1>2. \A t \in Tickets : Current(t) \in Cards /\ Original(t) \in Cards
    BY <1>1 DEF Current, Original, Cards
  <1>3. \A t \in Tickets : Parents(t) \subseteq Cards
    BY <1>1, <1>2 DEF Parents
  <1>4. \A t \in Tickets : Identity(t) \in Graphs
    BY <1>2, <1>3 DEF Identity, Graphs
  <1>5. QED
    BY <1>1, <1>2, <1>3, <1>4 DEF Cards

LEMMA DoneStays ==
  ASSUME IInv, Next
  PROVE  /\ \A p \in Tickets : state[p] = "done" => state'[p] = "done" /\ card'[p] = card[p]
         /\ \A c \in Cards : status[c] = "done" => status'[c] = "done"
  <1>1. \A p \in Tickets : state[p] = "done" => state'[p] = "done"
    <2>1. CASE UNCHANGED state
      BY <2>1
    <2>2. ASSUME NEW t \in Tickets, NEW s, state' = [state EXCEPT ![t] = s], state[t] # "done" \/ s = "done"
          PROVE  \A p \in Tickets : state[p] = "done" => state'[p] = "done"
      BY <2>2 DEF IInv, TypeOK
    <2>3. ASSUME NEW t \in Tickets, Step(t) \/ Lapse(t)
          PROVE  \A p \in Tickets : state[p] = "done" => state'[p] = "done"
      <3>1. CASE Reconcile(t)
        BY <2>2, <3>1 DEF Reconcile, Awaited
      <3>2. CASE Validate(t) \/ Review(t) \/ Readiness(t)
        BY <2>2, <3>2 DEF Validate, Review, Readiness, Transition
      <3>3. CASE Admit(t)
        <4>1. state[t] = "draft"
          BY <3>3 DEF Admit, IInv, Placed
        <4>2. QED
          BY <2>1, <2>2, <3>3, <4>1 DEF Admit, Transition
      <3>4. CASE Observe(t)
        BY <2>1, <2>2, <3>4 DEF Observe
      <3>5. QED
        BY <2>1, <2>3, <3>1, <3>2, <3>3, <3>4 DEF Step, Lapse, CreateCard, Deliver, Acknowledge, ClaimGraph,
           LinkParent, ParkChild, ApplyGraph, CompleteGraph, CompleteRelease, Complete, ClaimRelease,
           PrepareRelease, Expose, Bind, PrepareAdmitted, PlanRepair, MakeCard, MoveChild, FreeCard,
           ReviseGraphs, RecordRepair, LapseIntent, LapseClaim
    <2>4. CASE (\E c \in Cards : Work(c)) \/ Crash
      BY <2>1, <2>4 DEF Work, Dispatch, Finish, Crash
    <2>5. QED
      BY <2>3, <2>4 DEF Next
  <1>2. \A p \in Tickets : state[p] = "done" => card'[p] = card[p]
    <2>1. CASE UNCHANGED card
      BY <2>1
    <2>2. ASSUME NEW t \in Tickets, RecordRepair(t)
          PROVE  \A p \in Tickets : state[p] = "done" => card'[p] = card[p]
      BY <2>2 DEF RecordRepair, At, IInv, TypeOK, Ledger, Placed, Carding, RepairWork
    <2>3. ASSUME NEW t \in Tickets, Step(t) \/ Lapse(t)
          PROVE  RecordRepair(t) \/ UNCHANGED card
      BY <2>3 DEF Step, Lapse, CreateCard, Deliver, Acknowledge, Reconcile, Validate, Review, ClaimGraph,
         LinkParent, ParkChild, ApplyGraph, CompleteGraph, CompleteRelease, Complete, ClaimRelease,
         PrepareRelease, Expose, Observe, Bind, Admit, PrepareAdmitted, Readiness, PlanRepair, MakeCard,
         MoveChild, FreeCard, ReviseGraphs, LapseIntent, LapseClaim
    <2>4. ASSUME NEW c \in Cards, Work(c)
          PROVE  UNCHANGED card
      BY <2>4 DEF Work, Dispatch, Finish
    <2>5. QED
      BY <2>1, <2>2, <2>3, <2>4 DEF Next, Crash
  <1>3. \A c \in Cards : status[c] = "done" => status'[c] = "done"
    <2>1. CASE UNCHANGED status
      BY <2>1
    <2>2. ASSUME NEW c \in Cards, NEW s, SetStatus(c, s), status[c] # "done" \/ s = "done"
          PROVE  \A d \in Cards : status[d] = "done" => status'[d] = "done"
      BY <2>2 DEF SetStatus, IInv, TypeOK
    <2>3. ASSUME NEW t \in Tickets, Step(t) \/ Lapse(t)
          PROVE  \A c \in Cards : status[c] = "done" => status'[c] = "done"
      <3>1. Current(t) \in Cards /\ Original(t) \in Cards
        BY CardsAre DEF IInv
      <3>2. CASE CreateCard(t)
        BY <2>2, <3>1, <3>2 DEF CreateCard, Carded
      <3>3. CASE Deliver(t)
        <4>1. \/ UNCHANGED status
              \/ SetStatus(Current(t), Unblocked(Current(t))) /\ status[Current(t)] \in {"blocked", "todo"}
              \/ SetStatus(Current(t), "done")
          BY <3>3 DEF Deliver
        <4>2. QED
          BY <2>1, <2>2, <3>1, <4>1
      <3>4. CASE ParkChild(t)
        BY <2>1, <2>2, <3>1, <3>4 DEF ParkChild
      <3>5. CASE Expose(t)
        BY <2>1, <2>2, <3>1, <3>5 DEF Expose
      <3>6. CASE MakeCard(t)
        <4>1. Replacement(t) \in Cards
          BY <3>6 DEF MakeCard, At, Replacement, Cards, IInv, Placed, Ledger, Carding, RepairWork
        <4>2. QED
          BY <2>1, <2>2, <3>6, <4>1 DEF MakeCard
      <3>7. CASE MoveChild(t)
        <4>1. Unmoved(t) \subseteq Cards
          BY DEF Unmoved, IInv, TypeOK
        <4>2. QED
          BY <2>1, <2>2, <3>7, <4>1 DEF MoveChild
      <3>8. CASE FreeCard(t)
        <4>1. Replacement(t) \in Cards
          BY <3>8 DEF FreeCard, At, Replacement, Cards, IInv, Placed, Ledger, Carding, RepairWork
        <4>2. QED
          BY <2>1, <2>2, <3>8, <4>1 DEF FreeCard
      <3>9. QED
        BY <2>1, <2>3, <3>2, <3>3, <3>4, <3>5, <3>6, <3>7, <3>8 DEF Step, Lapse, Acknowledge, Reconcile, Validate,
           Review, ClaimGraph, LinkParent, ApplyGraph, CompleteGraph, CompleteRelease, Complete, ClaimRelease,
           PrepareRelease, Observe, Bind, Admit, PrepareAdmitted, Readiness, PlanRepair, ReviseGraphs,
           RecordRepair, LapseIntent, LapseClaim
    <2>4. ASSUME NEW c \in Cards, Work(c)
          PROVE  \A d \in Cards : status[d] = "done" => status'[d] = "done"
      BY <2>2, <2>4 DEF Work, Dispatch, Finish
    <2>5. CASE Crash
      BY <2>1, <2>5 DEF Crash
    <2>6. QED
      BY <2>3, <2>4, <2>5 DEF Next
  <1>4. QED
    BY <1>1, <1>2, <1>3

LEMMA MetStays ==
  ASSUME IInv, Next
  PROVE  \A t \in Tickets : Met(t) => Met(t)'
  <1>1. \A t \in Tickets : \A p \in Deps[t] : p \in Tickets /\ Current(p) \in Cards
    BY CardsAre DEF IInv
  <1>2. QED
    BY <1>1, DoneStays DEF Met, Current

----------------------------------------------------------------------------
(* What a step leaves alone.                                               *)

LEMMA LedgerStays ==
  ASSUME IInv, UNCHANGED <<state, tries, bound, card, intent, finished, graph, released, plan, status, parents>>
  PROVE  Ledger'
  BY DEF IInv, Ledger, ReleasedAsLinked, Admitted, Accepted, Carding, Links, Planned, Met, Parents, Current,
     Original, RepairWork

LEMMA ReleasedStays ==
  ASSUME IInv, UNCHANGED card,
         \A u \in released' : /\ u \in released /\ graph'[u].parents = graph[u].parents
                              /\ parents'[Original(u)] = parents[Original(u)]
  PROVE  ReleasedAsLinked'
  <1>1. \A u \in released : graph[u].parents = Parents(u) /\ parents[Original(u)] = Parents(u)
    BY DEF IInv, Ledger, ReleasedAsLinked, Parents
  <1>2. \A u : Parents(u)' = Parents(u) /\ Original(u)' = Original(u)
    BY DEF Parents, Current, Original
  <1>3. SUFFICES ASSUME NEW u \in released'
                 PROVE  graph'[u].parents = Parents(u)' /\ parents'[Original(u)'] = Parents(u)'
    BY DEF ReleasedAsLinked, Parents
  <1>4. QED
    BY <1>1, <1>2

\* One card changes on the board, and is done when it was.
LEMMA OneCard ==
  ASSUME IInv, Next, NEW t \in Tickets, NEW n \in 1..MaxTries, NEW s, SetStatus(<<t, n>>, s),
         UNCHANGED <<state, tries, bound, card, finished, graph, released, plan, parents>>,
         \A u \in Tickets :
            /\ intent'[u].to = intent[u].to
            /\ intent'[u].held /\ intent[u].to = "done" => intent[u].held \/ status'[Current(u)] = "done",
         s \in {"ready", "running"} => Met(t),
         n > card[t] => plan[t].open /\ n = tries[t]
  PROVE  Ledger'
  <1>1. /\ status'[<<t, n>>] = s
        /\ \A u \in Tickets, m \in 1..MaxTries : <<u, m>> # <<t, n>> => status'[<<u, m>>] = status[<<u, m>>]
        /\ \A u \in Tickets : Current(u)' = Current(u) /\ Current(u) \in Cards
        /\ \A c \in Cards : parents[c] \subseteq Cards
    BY CardsAre DEF IInv, TypeOK, Cards, SetStatus, Current
  <1>2. ReleasedAsLinked'
    BY ReleasedStays DEF IInv, TypeOK
  <1>3. Admitted'
    <2>1. ASSUME NEW u \in Tickets, state[u] # "draft"
          PROVE  \A q \in parents[Current(u)] : status'[q] = "done"
      BY <1>1, <2>1, DoneStays DEF IInv, Ledger, Admitted
    <2>2. ASSUME NEW u \in Tickets, NEW m \in 1..MaxTries, status'[<<u, m>>] \in {"ready", "running"}
          PROVE  Met(u)
      <3>1. CASE <<u, m>> = <<t, n>>
        BY <1>1, <2>2, <3>1
      <3>2. CASE <<u, m>> # <<t, n>>
        BY <1>1, <2>2, <3>2 DEF IInv, Ledger, Admitted
      <3>3. QED
        BY <3>1, <3>2
    <2>3. QED
      BY <1>1, <2>1, <2>2, MetStays DEF IInv, Ledger, Admitted
  <1>4. Accepted'
    BY <1>1, DoneStays DEF IInv, Ledger, Accepted
  <1>5. Carding'
    <2>1. ASSUME NEW u \in Tickets, NEW m \in 1..MaxTries, m > card[u]
          PROVE  \/ status'[<<u, m>>] = "none" /\ parents[<<u, m>>] = {}
                 \/ plan[u].open /\ m = tries[u]
      <3>1. CASE <<u, m>> = <<t, n>>
        BY <2>1, <3>1
      <3>2. CASE <<u, m>> # <<t, n>>
        BY <1>1, <2>1, <3>2 DEF IInv, Ledger, Carding
      <3>3. QED
        BY <3>1, <3>2
    <2>2. RepairWork' = RepairWork
      BY DEF RepairWork
    <2>3. QED
      BY <2>1, <2>2 DEF IInv, Ledger, Carding
  <1>6. Links'
    BY <1>1, DoneStays DEF IInv, Ledger, Links, Cards
  <1>7. Planned'
    BY DEF IInv, Ledger, Planned
  <1>8. QED
    BY <1>2, <1>3, <1>4, <1>5, <1>6, <1>7 DEF Ledger

\* The tick ends, or none was under way.
LEMMA PlacedIdle ==
  ASSUME pc' = Idle, \A t \in Tickets : claim'[<<"graph", t>>].status # "none" => t \in bound'
  PROVE  Placed'
  BY DEF Placed, At, Idle

\* Others act while a tick stands between two of its steps.
LEMMA PlacedStays ==
  ASSUME IInv, Next, UNCHANGED <<pc, bound, graph, state, card, parents, plan>>,
         \A t \in Tickets : At("ack", t) => intent'[t] = intent[t],
         \A t \in Tickets : /\ claim'[<<"graph", t>>].status = claim[<<"graph", t>>].status
                            /\ claim'[<<"graph", t>>].on = claim[<<"graph", t>>].on
  PROVE  Placed'
  <1>1. \A t \in Tickets : Identity(t)' = Identity(t) /\ Current(t)' = Current(t) /\ Original(t)' = Original(t)
    BY DEF Identity, Parents, Current, Original
  <1>2. \A t \in Tickets : \A p \in Deps[t] : p \in Tickets /\ Current(p) \in Cards
    BY CardsAre DEF IInv
  <1>3. \A t \in Tickets : (\A p \in Deps[t] : state[p] = "done" => status[Current(p)] = "done")
                            => \A p \in Deps[t] : state[p] = "done" => status'[Current(p)] = "done"
    BY <1>2, DoneStays
  <1>4. \A s, t : At(s, t)' <=> At(s, t)
    BY DEF At
  <1>5. \A t \in Tickets : Deps[t] \subseteq Tickets
    BY <1>2
  <1>6. QED
    BY <1>1, <1>3, <1>4, <1>5, MetStays DEF IInv, Placed, Current

LEMMA RunsStay ==
  ASSUME IInv, UNCHANGED fresh, \A t \in Tickets : tree[t] = "worked" => tree'[t] = "worked",
         \A c \in Cards : status'[c] = "running" => status[c] = "running"
  PROVE  Runs'
  <1>1. \A c \in Cards : c[1] \in Tickets
    BY CardsAre DEF IInv
  <1>2. QED
    BY <1>1 DEF IInv, Runs

\* A tick that goes on without a ticket or a worktree being touched.
LEMMA UnbrokenMoves ==
  ASSUME IInv, UNCHANGED <<intent, state, bound, tree, prepared, crashes>>,
         pc[1] \in {"ack", "admit", "prepare"} => pc' = pc,
         \A t \in Tickets : At("expose", t)' => At("expose", t),
         \A t \in Tickets : At("observe", t)' => At("observe", t) \/ At("expose", t),
         \A c \in Cards : status'[c] \in {"ready", "running"} =>
            status[c] \in {"ready", "running"} \/ (crashes = 0 => c[1] \in prepared)
  PROVE  Unbroken'
  <1>1. \A t \in Tickets : /\ At("ack", t) => At("ack", t)'
                           /\ At("admit", t) => At("admit", t)'
                           /\ At("prepare", t) => At("prepare", t)'
    BY DEF At
  <1>2. \A t \in Tickets, n \in 1..MaxTries : <<t, n>> \in Cards /\ <<t, n>>[1] = t
    BY DEF Cards
  <1>3. ASSUME crashes = 0, NEW t \in Tickets, NEW n \in 1..MaxTries, status'[<<t, n>>] \in {"ready", "running"}
        PROVE  t \in prepared
    BY <1>2, <1>3 DEF IInv, Unbroken
  <1>4. SUFFICES ASSUME crashes = 0, NEW t \in Tickets
        PROVE  /\ intent[t].held => At("ack", t)'
               /\ intent[t].to = "ready" => state[t] = "ready_local"
               /\ t \in bound /\ state[t] = "draft" /\ Deps[t] = {} => At("admit", t)'
               /\ \/ state[t] # "draft" /\ ~At("prepare", t)'
                  \/ tree[t] = "worked" \/ At("expose", t)' \/ At("observe", t)'
                  \/ \E n \in 1..MaxTries : status'[<<t, n>>] \in {"ready", "running"}
                  => t \in prepared
               /\ state[t] \in {"implementing", "local_review", "repairing", "done"} => tree[t] = "worked"
               /\ At("expose", t)' => state[t] \in {"draft", "ready_local"}
    BY DEF Unbroken
  <1>5. QED
    BY <1>1, <1>3, <1>4 DEF IInv, Unbroken

LEMMA KeptStays ==
  ASSUME IInv, UNCHANGED <<state, card, crashes>>,
         \A t \in Tickets : status'[Current(t)] \in {"ready", "running"} =>
            \/ status[Current(t)] \in {"ready", "running"}
            \/ crashes = 0 => state[t] \in {"draft", "ready_local", "repairing"}
  PROVE  KeptParked'
  <1>1. \A t \in Tickets : Current(t)' = Current(t)
    BY DEF Current
  <1>2. QED
    BY <1>1 DEF IInv, KeptParked

\* The claims of a step are the claims of the tick's ticket.
LEMMA ClaimMoves ==
  ASSUME TypeOK, NEW x \in Stages \X Tickets,
         NEW r \in [status : {"none", "begun", "applied", "completed"}, lapsed : BOOLEAN, on : Graphs],
         claim' = [claim EXCEPT ![x] = r]
  PROVE  /\ claim' \in [Stages \X Tickets -> [status : {"none", "begun", "applied", "completed"},
                                              lapsed : BOOLEAN, on : Graphs]]
         /\ claim'[x] = r /\ \A y \in Stages \X Tickets : y # x => claim'[y] = claim[y]
         /\ \A t \in Tickets : <<"graph", t>> \in Stages \X Tickets /\ <<"release", t>> \in Stages \X Tickets
  BY DEF TypeOK, Stages

----------------------------------------------------------------------------
(* Cards, the projections and the hand-over.                               *)

LEMMA CreateCardStep ==
  ASSUME IInv, Next, NEW t \in Tickets, CreateCard(t)
  PROVE  IInv'
  <1>1. /\ pc = Idle /\ SetStatus(<<t, 1>>, "blocked")
        /\ UNCHANGED <<ledgerVars, parents, fresh, last, tree, prepared, pc, crashes>>
    BY DEF CreateCard, Original
  <1>2. 1 \in 1..MaxTries /\ <<t, 1>> \in Cards
    BY BoundsAssumption DEF Cards
  <1>3. TypeOK'
    BY <1>1, <1>2 DEF IInv, TypeOK, SetStatus
  <1>4. ~(1 > card[t])
    BY CardsAre DEF IInv
  <1>5. Ledger'
    BY <1>1, <1>2, <1>4, OneCard
  <1>6. \A c \in Cards : status'[c] \in {"ready", "running"} => status'[c] = status[c]
    BY <1>1, <1>2 DEF SetStatus, IInv, TypeOK
  <1>7. Runs'
    BY <1>1, <1>6, RunsStay
  <1>8. Placed'
    BY <1>1, PlacedStays
  <1>9. Unbroken'
    BY <1>1, <1>6, UnbrokenMoves DEF At
  <1>10. KeptParked'
    BY <1>1, <1>6, CardsAre, KeptStays DEF IInv
  <1>11. QED
    BY <1>3, <1>5, <1>7, <1>8, <1>9, <1>10 DEF IInv

\* An intent and the card it is about, for an admitted ticket.
LEMMA DeliverStep ==
  ASSUME IInv, Next, NEW t \in Tickets, Deliver(t)
  PROVE  IInv'
  <1>1. /\ pc = Idle /\ pc' = <<"ack", t>> /\ intent[t].to # "none" /\ ~intent[t].held
        /\ intent' = [intent EXCEPT ![t].held = TRUE]
        /\ UNCHANGED <<state, tries, bound, card, finished, graph, released, claim, plan,
                       parents, fresh, last, tree, prepared, crashes>>
    BY DEF Deliver, Due, Goto
  <1>2. state[t] # "draft" /\ Met(t) /\ Current(t) \in Cards /\ card[t] \in 1..MaxTries
    BY <1>1, CardsAre DEF IInv, Ledger, Admitted
  <1>3. /\ \A u \in Tickets : intent'[u].to = intent[u].to /\ (u # t => intent'[u] = intent[u])
        /\ intent'[t].held
        /\ intent' \in [Tickets -> [to : {"none", "ready", "review", "done"}, held : BOOLEAN]]
    <2>1. intent \in [Tickets -> [to : {"none", "ready", "review", "done"}, held : BOOLEAN]]
      BY DEF IInv, TypeOK
    <2> DEFINE r == [intent[t] EXCEPT !.held = TRUE]
    <2>2. intent' = [intent EXCEPT ![t] = r]
      BY <1>1
    <2>3. /\ r \in [to : {"none", "ready", "review", "done"}, held : BOOLEAN]
          /\ r.to = intent[t].to /\ r.held
      BY <2>1
    <2> HIDE DEF r
    <2>4. QED
      BY <2>1, <2>2, <2>3
  <1>4. \E s \in {status[Current(t)], "ready", "done"} :
          /\ status' = [status EXCEPT ![Current(t)] = s]
          /\ s = "ready" => intent[t].to = "ready" \/ s = status[Current(t)]
          /\ intent[t].to = "done" => s = "done"
    <2>1. status = [status EXCEPT ![Current(t)] = status[Current(t)]]
      BY <1>2 DEF IInv, TypeOK
    <2>2. Unblocked(Current(t)) = "ready"
      BY <1>2 DEF Unblocked, IInv, Ledger, Admitted
    <2>3. CASE intent[t].to = "ready"
      BY <2>1, <2>2, <2>3 DEF Deliver, SetStatus
    <2>4. CASE intent[t].to # "ready"
      BY <2>1, <2>4 DEF Deliver, SetStatus
    <2>5. QED
      BY <2>3, <2>4
  <1>5. PICK s \in {status[Current(t)], "ready", "done"} :
          /\ status' = [status EXCEPT ![Current(t)] = s]
          /\ s = "ready" => intent[t].to = "ready" \/ s = status[Current(t)]
          /\ intent[t].to = "done" => s = "done"
    BY <1>4
  <1>6. /\ status'[Current(t)] = s /\ \A c \in Cards : c # Current(t) => status'[c] = status[c]
        /\ status' \in [Cards -> {"none", "blocked", "ready", "running", "review", "done"}]
    BY <1>2, <1>5 DEF IInv, TypeOK
  <1>7. TypeOK'
    BY <1>1, <1>3, <1>6 DEF IInv, TypeOK
  <1>8. Ledger'
    <2>1. SetStatus(<<t, card[t]>>, s) /\ ~(card[t] > card[t])
      BY <1>2, <1>5 DEF SetStatus, Current
    <2>2. \A u \in Tickets : intent'[u].held /\ intent[u].to = "done" => intent[u].held \/ status'[Current(u)] = "done"
      BY <1>3, <1>5, <1>6
    <2>3. QED
      BY <1>1, <1>2, <1>3, <2>1, <2>2, OneCard
  <1>9. \A c \in Cards : status'[c] = "running" => status[c] = "running"
    BY <1>2, <1>5, <1>6
  <1>10. Runs'
    BY <1>1, <1>9, RunsStay
  <1>11. Placed'
    BY <1>1, <1>3 DEF IInv, Placed, At
  <1>12. Unbroken'
    <2>1. ASSUME crashes = 0
          PROVE  t \in prepared
      BY <1>1, <1>2, <2>1 DEF IInv, Unbroken, At, Idle
    <2>2. ASSUME crashes = 0, NEW u \in Tickets, NEW m \in 1..MaxTries, status'[<<u, m>>] \in {"ready", "running"}
          PROVE  u \in prepared
      <3>1. CASE u = t
        BY <2>1, <2>2, <3>1
      <3>2. CASE u # t
        <4>1. <<u, m>> # Current(t) /\ <<u, m>> \in Cards
          BY <3>2 DEF Current, Cards
        <4>2. QED
          BY <1>6, <2>2, <4>1 DEF IInv, Unbroken
      <3>3. QED
        BY <3>1, <3>2
    <2>3. \A u \in Tickets : /\ ~At("ack", u) /\ ~At("admit", u) /\ ~At("prepare", u) /\ ~At("expose", u)
                             /\ ~At("expose", u)' /\ ~At("observe", u)' /\ (u = t => At("ack", u)')
      BY <1>1 DEF At, Idle
    <2>4. QED
      BY <1>1, <1>3, <2>2, <2>3 DEF IInv, Unbroken
  <1>13. KeptParked'
    <2>1. ASSUME NEW u \in Tickets, status'[Current(u)] \in {"ready", "running"}
          PROVE  \/ status[Current(u)] \in {"ready", "running"}
                 \/ crashes = 0 => state[u] \in {"draft", "ready_local", "repairing"}
      <3>1. CASE Current(u) = Current(t)
        <4>1. u = t
          BY <3>1 DEF Current
        <4>2. CASE s = status[Current(t)]
          BY <1>6, <2>1, <4>1, <4>2
        <4>3. CASE s # status[Current(t)]
          BY <1>5, <1>6, <2>1, <4>1, <4>3 DEF IInv, Unbroken
        <4>4. QED
          BY <4>2, <4>3
      <3>2. CASE Current(u) # Current(t)
        BY <1>6, <2>1, <3>2, CardsAre DEF IInv
      <3>3. QED
        BY <3>1, <3>2
    <2>2. QED
      BY <1>1, <2>1, KeptStays
  <1>14. QED
    BY <1>7, <1>8, <1>10, <1>11, <1>12, <1>13 DEF IInv

----------------------------------------------------------------------------
(* A ticket moves on.                                                      *)

\* The ledger's side of a ticket that moves to s, already admitted or just about to be.
LEMMA LedgerMoves ==
  ASSUME IInv, Next, NEW t \in Tickets, NEW s,
         state' = [state EXCEPT ![t] = s], UNCHANGED <<card, plan, status, parents, bound, finished>>,
         \A u \in Tickets : u # t => intent'[u] = intent[u] /\ tries'[u] = tries[u],
         Met(t), \A q \in parents[Current(t)] : status[q] = "done",
         state[t] # "done", ~plan[t].open, \A u \in Tickets : u \in released' => u = t \/ u \in released,
         s # "draft", s = "ready_local" => card[t] = 1, s = "repairing" => tries'[t] \in 1..MaxTries,
         intent'[t].to = "ready" => s \in {"ready_local", "implementing"},
         intent'[t].to = "done" <=> s = "done", s = "done" => ~intent'[t].held
  PROVE  Admitted' /\ Accepted' /\ Carding' /\ Links' /\ Planned'
  <1>1. /\ \A u \in Tickets : u # t => state'[u] = state[u]
        /\ state'[t] = s /\ \A u \in Tickets : Current(u)' = Current(u)
    BY DEF IInv, TypeOK, Current
  <1>2. Admitted'
    <2>1. ASSUME NEW u \in Tickets
          PROVE  /\ state'[u] # "draft" => Met(u) /\ \A q \in parents[Current(u)] : status[q] = "done"
                 /\ intent'[u].to # "none" \/ u \in released' => state'[u] # "draft"
                 /\ intent'[u].to = "ready" => state'[u] \in {"ready_local", "implementing"}
                 /\ \A n \in 1..MaxTries : status[<<u, n>>] \in {"ready", "running"} => Met(u)
      BY <1>1, <2>1 DEF IInv, Ledger, Admitted
    <2>2. QED
      BY <1>1, <2>1, MetStays DEF Admitted
  <1>3. Accepted'
    BY <1>1 DEF IInv, Ledger, Accepted
  <1>4. Carding'
    <2>1. ASSUME NEW u \in Tickets, u # t
          PROVE  u \in RepairWork' <=> u \in RepairWork
      BY <1>1, <2>1 DEF RepairWork
    <2>2. QED
      BY <1>1, <2>1 DEF IInv, Ledger, Carding
  <1>5. Links' /\ Planned'
    BY DEF IInv, Ledger, Links, Planned
  <1>6. QED
    BY <1>2, <1>3, <1>4, <1>5

LEMMA AcknowledgeStep ==
  ASSUME IInv, Next, NEW t \in Tickets, Acknowledge(t)
  PROVE  IInv'
  <1>1. /\ At("ack", t) /\ pc' = Idle /\ intent' = [intent EXCEPT ![t] = NoIntent]
        /\ finished' = IF intent[t].to = "done" THEN finished \cup {t} ELSE finished
        /\ UNCHANGED <<state, tries, bound, card, graph, released, claim, plan, boardVars, crashes>>
    BY DEF Acknowledge, Abandon
  <1>2. /\ intent'[t] = NoIntent /\ \A u \in Tickets : u # t => intent'[u] = intent[u]
        /\ intent' \in [Tickets -> [to : {"none", "ready", "review", "done"}, held : BOOLEAN]]
    BY <1>1 DEF IInv, TypeOK, NoIntent
  <1>3. TypeOK'
    BY <1>1, <1>2 DEF IInv, TypeOK, Idle
  <1>4. \A u \in Tickets : Current(u)' = Current(u) /\ Original(u)' = Original(u)
    BY <1>1 DEF Current, Original
  <1>5. Ledger'
    <2>1. ReleasedAsLinked'
      BY <1>1 DEF IInv, Ledger, ReleasedAsLinked, Parents, Current, Original
    <2>2. Admitted'
      BY <1>1, <1>2, <1>4, MetStays DEF IInv, Ledger, Admitted, NoIntent
    <2>3. intent[t].to = "done" => state[t] = "done" /\ status[Current(t)] = "done"
      BY <1>1 DEF IInv, Ledger, Accepted, Placed
    <2>4. Accepted'
      BY <1>1, <1>2, <1>4, <2>3 DEF IInv, Ledger, Accepted, NoIntent
    <2>5. Carding' /\ Links' /\ Planned'
      BY <1>1 DEF IInv, Ledger, Carding, Links, Planned, RepairWork
    <2>6. QED
      BY <2>1, <2>2, <2>4, <2>5 DEF Ledger
  <1>6. Runs'
    BY <1>1, RunsStay
  <1>7. Placed'
    BY <1>1, PlacedIdle DEF IInv, Placed
  <1>8. Unbroken'
    <2>1. \A u \in Tickets : /\ ~At("prepare", u) /\ ~At("admit", u) /\ (At("ack", u) => u = t)
                             /\ ~At("prepare", u)' /\ ~At("expose", u)' /\ ~At("observe", u)'
      BY <1>1 DEF At, Idle
    <2>2. QED
      BY <1>1, <1>2, <2>1 DEF IInv, Unbroken, NoIntent
  <1>9. KeptParked'
    BY <1>1, KeptStays
  <1>10. QED
    BY <1>3, <1>5, <1>6, <1>7, <1>8, <1>9 DEF IInv

\* Only an idle tick judges a ticket: nothing is due, and no intent is under way.
LEMMA ReconcileStep ==
  ASSUME IInv, Next, NEW t \in Tickets, Reconcile(t)
  PROVE  IInv'
  <1>1. /\ pc = Idle /\ state' = [state EXCEPT ![t] = "implementing"]
        /\ UNCHANGED <<bound, card, intent, finished, graph, released, claim, plan, status,
                       parents, last, tree, prepared, pc, crashes>>
        /\ ~Due(t)
    BY DEF Reconcile, Clear, Unconfined, Quiet
  <1>2. /\ Current(t) \in Cards /\ Current(t)[1] = t
    BY CardsAre DEF IInv, Current
  <1>3. status[Current(t)] \in Kind /\ fresh[Current(t)][status[Current(t)]] > 0
    BY DEF Reconcile, Waiting
  <1>4. /\ state[t] \in {"ready_local", "implementing"} \/ (state[t] = "repairing" /\ card[t] = tries[t])
        /\ tries' = IF state[t] = "repairing" THEN tries ELSE [tries EXCEPT ![t] = @ + 1]
    BY DEF Reconcile, Awaited
  <1>5. /\ \A c \in Cards : c # Current(t) => fresh'[c] = fresh[c]
        /\ \A c \in Cards, k \in Kind : fresh'[c][k] > 0 => fresh[c][k] > 0
        /\ fresh' \in [Cards -> [Kind -> 0..MaxRuns]]
    <2> DEFINE r == [k \in Kind |-> IF k = status[Current(t)] THEN 0 ELSE fresh[Current(t)][k]]
    <2>1. fresh \in [Cards -> [Kind -> 0..MaxRuns]] /\ MaxRuns \in Nat
      BY BoundsAssumption DEF IInv, TypeOK
    <2>2. fresh' = [fresh EXCEPT ![Current(t)] = r]
      BY DEF Reconcile
    <2>3. r \in [Kind -> 0..MaxRuns] /\ \A k \in Kind : r[k] > 0 => fresh[Current(t)][k] > 0
      BY <1>2, <2>1
    <2> HIDE DEF r
    <2>4. QED
      BY <1>2, <2>1, <2>2, <2>3
  <1>6. tries' \in [Tickets -> Nat] /\ \A u \in Tickets : u # t => tries'[u] = tries[u]
    BY <1>4 DEF IInv, TypeOK
  <1>7. TypeOK'
    BY <1>1, <1>5, <1>6 DEF IInv, TypeOK
  <1>8. Ledger'
    <2>1. ~plan[t].open /\ Met(t) /\ \A q \in parents[Current(t)] : status[q] = "done"
      BY <1>4, CardsAre DEF IInv, Ledger, Carding, RepairWork, Admitted
    <2>2. intent[t].to # "done" /\ state[t] # "done"
      BY <1>4 DEF IInv, Ledger, Accepted
    <2>3. Admitted' /\ Accepted' /\ Carding' /\ Links' /\ Planned'
      BY <1>1, <1>6, <2>1, <2>2, LedgerMoves
    <2>4. ReleasedAsLinked'
      BY <1>1 DEF IInv, Ledger, ReleasedAsLinked, Parents, Current, Original
    <2>5. QED
      BY <2>3, <2>4 DEF Ledger
  <1>9. Runs'
    <2>1. status[Current(t)] # "running"
      BY <1>3 DEF Kind
    <2>2. QED
      BY <1>1, <1>5, <2>1 DEF IInv, Runs
  <1>10. Placed'
    BY <1>1, PlacedIdle DEF IInv, Placed
  <1>11. Unbroken'
    <2>1. tree[t] = "worked"
      BY <1>2, <1>3 DEF IInv, Runs
    <2>2. \A u \in Tickets : /\ ~At("ack", u) /\ ~At("admit", u) /\ ~At("prepare", u) /\ ~At("expose", u)
                             /\ ~At("observe", u)
      BY <1>1 DEF At, Idle
    <2>3. crashes = 0 => intent[t].to = "none"
      BY <1>1, <2>2 DEF IInv, Unbroken, Due
    <2>4. \A u \in Tickets : u # t => state'[u] = state[u]
      BY <1>1 DEF IInv, TypeOK
    <2>5. /\ state'[t] = "implementing"
          /\ \A u : \A x \in {"ack", "admit", "prepare", "expose", "observe"} : At(x, u)' <=> At(x, u)
      BY <1>1 DEF IInv, TypeOK, At
    <2>6. QED
      BY <1>1, <2>1, <2>2, <2>3, <2>4, <2>5 DEF IInv, Unbroken
  <1>12. KeptParked'
    <2>1. status[Current(t)] \notin {"ready", "running"}
      BY <1>3 DEF Kind
    <2>2. \A u \in Tickets : Current(u)' = Current(u) /\ (u # t => state'[u] = state[u])
      BY <1>1 DEF Current, IInv, TypeOK
    <2>3. QED
      BY <1>1, <2>1, <2>2 DEF IInv, KeptParked
  <1>13. QED
    BY <1>7, <1>8, <1>9, <1>10, <1>11, <1>12 DEF IInv

\* The judgement of an attempt: the ticket was being implemented or reviewed already.
LEMMA JudgedStep ==
  ASSUME IInv, Next, NEW t \in Tickets, Validate(t) \/ Review(t)
  PROVE  IInv'
  <1>1. /\ pc = Idle /\ state[t] \in {"implementing", "local_review"}
        /\ UNCHANGED <<bound, card, finished, graph, released, claim, plan, boardVars, pc, crashes>>
    BY DEF Validate, Review, Clear, Unconfined, Quiet
  <1>2. \E s \in {"local_review", "repairing", "done"}, x \in {"none", "review", "done"} :
           /\ state' = [state EXCEPT ![t] = s]
           /\ intent' = [intent EXCEPT ![t] = [to |-> x, held |-> FALSE]]
           /\ x = "done" <=> s = "done"
           /\ s = "repairing" => tries[t] < MaxTries /\ tries' = [tries EXCEPT ![t] = @ + 1]
           /\ s # "repairing" => tries' = tries
    BY DEF Validate, Review, Transition
  <1>3. PICK s \in {"local_review", "repairing", "done"}, x \in {"none", "review", "done"} :
           /\ state' = [state EXCEPT ![t] = s]
           /\ intent' = [intent EXCEPT ![t] = [to |-> x, held |-> FALSE]]
           /\ x = "done" <=> s = "done"
           /\ s = "repairing" => tries[t] < MaxTries /\ tries' = [tries EXCEPT ![t] = @ + 1]
           /\ s # "repairing" => tries' = tries
    BY <1>2
  <1>4. /\ intent'[t].to = x /\ ~intent'[t].held /\ \A u \in Tickets : u # t => intent'[u] = intent[u]
        /\ intent' \in [Tickets -> [to : {"none", "ready", "review", "done"}, held : BOOLEAN]]
    BY <1>3 DEF IInv, TypeOK
  <1>5. /\ tries' \in [Tickets -> Nat] /\ \A u \in Tickets : u # t => tries'[u] = tries[u]
        /\ s = "repairing" => tries'[t] \in 1..MaxTries
    BY <1>3, BoundsAssumption DEF IInv, TypeOK
  <1>6. state'[t] = s /\ \A u \in Tickets : u # t => state'[u] = state[u]
    BY <1>3 DEF IInv, TypeOK
  <1>7. TypeOK'
    BY <1>1, <1>3, <1>4, <1>5 DEF IInv, TypeOK
  <1>8. Ledger'
    <2>1. ~plan[t].open /\ Met(t) /\ \A q \in parents[Current(t)] : status[q] = "done"
      BY <1>1, CardsAre DEF IInv, Ledger, Carding, RepairWork, Admitted
    <2>2. Admitted' /\ Accepted' /\ Carding' /\ Links' /\ Planned'
      <3>1. UNCHANGED <<card, plan, status, parents, bound, finished, released>>
        BY <1>1
      <3>2. QED
        BY <1>1, <1>3, <1>4, <1>5, <2>1, <3>1, LedgerMoves
    <2>3. ReleasedAsLinked'
      BY <1>1 DEF IInv, Ledger, ReleasedAsLinked, Parents, Current, Original
    <2>4. QED
      BY <2>2, <2>3 DEF Ledger
  <1>9. Runs'
    BY <1>1, RunsStay
  <1>10. Placed'
    BY <1>1, PlacedIdle DEF IInv, Placed
  <1>11. Unbroken'
    <2>1. \A u \in Tickets : /\ ~At("ack", u) /\ ~At("admit", u) /\ ~At("prepare", u) /\ ~At("expose", u)
                             /\ ~At("observe", u)
      BY <1>1 DEF At, Idle
    <2>2. \A u : \A y \in {"ack", "admit", "prepare", "expose", "observe"} : At(y, u)' <=> At(y, u)
      BY <1>1 DEF At
    <2>3. QED
      BY <1>1, <1>3, <1>4, <1>6, <2>1, <2>2 DEF IInv, Unbroken
  <1>12. KeptParked'
    <2>1. \A u \in Tickets : Current(u)' = Current(u)
      BY <1>1 DEF Current
    <2>2. QED
      BY <1>1, <1>6, <2>1 DEF IInv, KeptParked
  <1>13. QED
    BY <1>7, <1>8, <1>9, <1>10, <1>11, <1>12 DEF IInv

----------------------------------------------------------------------------
(* The dependency graph.                                                   *)

\* The parents of a card change to X, by links of its own ticket's dependencies.
LEMMA LinkMoves ==
  ASSUME IInv, Next, NEW d \in Cards, NEW X \in SUBSET Cards, parents' = [parents EXCEPT ![d] = X],
         UNCHANGED <<ledgerVars, status>>, d[2] <= card[d[1]], d[1] \in bound, d[1] \notin released \/ d[2] # 1,
         \A q \in X : q \in parents[d] \/ q[1] \in Deps[d[1]],
         d = Current(d[1]) /\ state[d[1]] # "draft" => \A q \in X : status[q] = "done"
  PROVE  Ledger'
  <1>1. /\ parents'[d] = X /\ \A c \in Cards : c # d => parents'[c] = parents[c]
        /\ d[1] \in Tickets /\ d[2] \in 1..MaxTries /\ d = <<d[1], d[2]>>
        /\ \A u \in Tickets : Current(u)' = Current(u) /\ Current(u) \in Cards /\ Original(u) \in Cards
        /\ \A u \in Tickets, n \in 1..MaxTries : <<u, n>> \in Cards
    BY CardsAre DEF IInv, TypeOK, Current, Cards
  <1>2. ReleasedAsLinked'
    <2>1. \A u \in released : Original(u) # d
      BY <1>1 DEF Original
    <2>2. released \subseteq Tickets
      BY DEF IInv, TypeOK
    <2>3. \A u \in released : parents'[Original(u)] = parents[Original(u)]
      BY <1>1, <2>1, <2>2
    <2>4. UNCHANGED <<released, graph, card>>
      OBVIOUS
    <2>5. QED
      BY <2>3, <2>4, ReleasedStays
  <1>3. Admitted'
    <2>1. ASSUME NEW u \in Tickets, state[u] # "draft"
          PROVE  \A q \in parents'[Current(u)] : status[q] = "done"
      <3>1. CASE Current(u) = d
        <4>1. d[1] = u
          BY <3>1 DEF Current
        <4>2. QED
          BY <1>1, <2>1, <3>1, <4>1
      <3>2. CASE Current(u) # d
        BY <1>1, <2>1, <3>2 DEF IInv, Ledger, Admitted
      <3>3. QED
        BY <3>1, <3>2
    <2>2. QED
      BY <1>1, <2>1, MetStays DEF IInv, Ledger, Admitted
  <1>4. Accepted'
    BY <1>1 DEF IInv, Ledger, Accepted
  <1>5. Carding'
    <2>1. ASSUME NEW u \in Tickets, NEW n \in 1..MaxTries, n > card[u]
          PROVE  parents'[<<u, n>>] = parents[<<u, n>>]
      <3>1. <<u, n>> # d
        BY <1>1, <2>1 DEF IInv, TypeOK
      <3>2. QED
        BY <1>1, <3>1
    <2>2. QED
      BY <2>1 DEF IInv, Ledger, Carding, RepairWork
  <1>6. Links'
    <2>1. ASSUME NEW u \in Tickets, NEW n \in 1..MaxTries, NEW q \in parents'[<<u, n>>]
          PROVE  \/ q[1] \in Deps[u] /\ u \in bound /\ n <= card[u]
                 \/ q[1] = u /\ q[2] < n /\ status[q] = "done"
      <3>1. CASE q \in parents[<<u, n>>]
        BY <3>1 DEF IInv, Ledger, Links
      <3>2. CASE q \notin parents[<<u, n>>]
        <4>1. <<u, n>> = d
          BY <1>1, <2>1, <3>2
        <4>2. QED
          BY <1>1, <2>1, <3>2, <4>1
      <3>3. QED
        BY <3>1, <3>2
    <2>2. QED
      BY <2>1 DEF Links
  <1>7. Planned'
    BY DEF IInv, Ledger, Planned
  <1>8. QED
    BY <1>2, <1>3, <1>4, <1>5, <1>6, <1>7 DEF Ledger

LEMMA ClaimGraphStep ==
  ASSUME IInv, Next, NEW t \in Tickets, ClaimGraph(t)
  PROVE  IInv'
  <1>1. /\ pc = Idle
        /\ UNCHANGED <<state, tries, bound, card, intent, finished, graph, released, plan, boardVars, crashes>>
    BY DEF ClaimGraph, Quiet
  <1>2. <<"graph", t>> \in Stages \X Tickets /\ Identity(t) \in Graphs
    BY CardsAre DEF IInv, Stages
  <1>3. \E r \in [status : {"none", "begun", "applied", "completed"}, lapsed : BOOLEAN, on : Graphs] :
           /\ claim' = [claim EXCEPT ![<<"graph", t>>] = r] /\ r.on = Identity(t)
           /\ t \in bound /\ \/ pc' = <<"graph", t>>
                             \/ pc' = <<"complete_graph", t>>
    <2>1. CASE Reconciled /\ t \in GraphWork /\ Take("graph", t, Identity(t))
      <3> DEFINE r == [status |-> "begun", lapsed |-> FALSE, on |-> Identity(t)]
      <3>1. r \in [status : {"none", "begun", "applied", "completed"}, lapsed : BOOLEAN, on : Graphs]
        BY <1>2
      <3>2. claim' = [claim EXCEPT ![<<"graph", t>>] = r] /\ pc' = <<"graph", t>> /\ t \in bound
        BY <2>1 DEF Take, Goto, GraphWork
      <3>3. QED
        BY <3>1, <3>2
    <2>2. CASE claim[<<"graph", t>>].on = Identity(t) /\ Retake("graph", t)
      <3> DEFINE r == [claim[<<"graph", t>>] EXCEPT !.lapsed = FALSE]
      <3>1. claim[<<"graph", t>>] \in [status : {"none", "begun", "applied", "completed"}, lapsed : BOOLEAN,
                                       on : Graphs]
        BY <1>2 DEF IInv, TypeOK
      <3>2. /\ r \in [status : {"none", "begun", "applied", "completed"}, lapsed : BOOLEAN, on : Graphs]
            /\ r.on = Identity(t)
        BY <2>2, <3>1
      <3>3. /\ claim' = [claim EXCEPT ![<<"graph", t>>] = r]
            /\ pc' = <<"graph", t>> \/ pc' = <<"complete_graph", t>>
        BY <2>2 DEF Retake, Goto
      <3>4. t \in bound
        BY <2>2 DEF Retake, Lapsed, Open, IInv, Placed
      <3> HIDE DEF r
      <3>5. QED
        BY <3>2, <3>3, <3>4
    <2>3. QED
      BY <2>1, <2>2 DEF ClaimGraph
  <1>4. PICK r \in [status : {"none", "begun", "applied", "completed"}, lapsed : BOOLEAN, on : Graphs] :
           /\ claim' = [claim EXCEPT ![<<"graph", t>>] = r] /\ r.on = Identity(t)
           /\ t \in bound /\ \/ pc' = <<"graph", t>>
                             \/ pc' = <<"complete_graph", t>>
    BY <1>3
  <1>5. /\ claim' \in [Stages \X Tickets -> [status : {"none", "begun", "applied", "completed"},
                                              lapsed : BOOLEAN, on : Graphs]]
        /\ claim'[<<"graph", t>>].on = Identity(t)
        /\ \A u \in Tickets : u # t => claim'[<<"graph", u>>] = claim[<<"graph", u>>]
    BY <1>2, <1>4, ClaimMoves DEF IInv
  <1>6. TypeOK'
    BY <1>1, <1>4, <1>5 DEF IInv, TypeOK
  <1>7. Ledger'
    BY <1>1, LedgerStays
  <1>8. Runs'
    BY <1>1, RunsStay
  <1>9. Placed'
    <2>1. Identity(t)' = Identity(t)
      BY <1>1 DEF Identity, Parents, Current
    <2>2. QED
      BY <1>1, <1>4, <1>5, <2>1 DEF IInv, Placed, At
  <1>10. Unbroken'
    BY <1>1, <1>4, UnbrokenMoves DEF At, Idle
  <1>11. KeptParked'
    BY <1>1, KeptStays
  <1>12. QED
    BY <1>6, <1>7, <1>8, <1>9, <1>10, <1>11 DEF IInv

LEMMA LinkParentStep ==
  ASSUME IInv, Next, NEW t \in Tickets, LinkParent(t)
  PROVE  IInv'
  <1>1. /\ At("graph", t) /\ (pc' = pc \/ (pc' = Idle /\ parents' = parents))
        /\ UNCHANGED <<ledgerVars, status, fresh, last, tree, prepared, crashes>>
    BY DEF LinkParent, Abandon
  <1>2. claim[<<"graph", t>>].on = Identity(t) /\ t \in bound
    BY DEF LinkParent, IInv, Placed
  <1>3. Current(t) \in Cards /\ Current(t) = <<t, card[t]>> /\ card[t] \in 1..MaxTries /\ Parents(t) \subseteq Cards
    BY CardsAre DEF IInv, Current
  <1>4. CASE parents' = parents
    <2>1. TypeOK'
      BY <1>1, <1>4 DEF IInv, TypeOK, Idle
    <2>2. Ledger'
      BY <1>1, <1>4, LedgerStays
    <2>3. Runs'
      BY <1>1, RunsStay
    <2>4. Placed'
      <3>1. CASE pc' = Idle
        BY <1>1, <3>1, PlacedIdle DEF IInv, Placed
      <3>2. CASE pc' = pc
        BY <1>1, <1>4, <3>2, PlacedStays
      <3>3. QED
        BY <1>1, <3>1, <3>2
    <2>5. Unbroken'
      BY <1>1, UnbrokenMoves DEF At, Idle
    <2>6. KeptParked'
      BY <1>1, KeptStays
    <2>7. QED
      BY <2>1, <2>2, <2>3, <2>4, <2>5, <2>6 DEF IInv
  <1>5. CASE parents' # parents
    <2>1. PICK p \in Parents(t) \ parents[Current(t)] :
             /\ parents' = [parents EXCEPT ![Current(t)] = @ \cup {p}] /\ pc' = pc
             /\ parents[Current(t)] \subseteq Parents(t)
      BY <1>2, <1>5 DEF LinkParent, Identity
    <2> DEFINE X == parents[Current(t)] \cup {p}
    <2>2. X \in SUBSET Cards /\ parents' = [parents EXCEPT ![Current(t)] = X]
      BY <1>3, <2>1 DEF IInv, TypeOK
    <2>3. p[1] \in Deps[t]
      BY <2>1 DEF Parents, Current
    <2>4. t \in released => card[t] # 1
      <3>1. ASSUME t \in released, card[t] = 1
            PROVE  FALSE
        <4>1. parents[Current(t)] = Parents(t)
          BY <3>1 DEF IInv, Ledger, ReleasedAsLinked, Parents, Original, Current
        <4>2. QED
          BY <2>1, <4>1
      <3>2. QED
        BY <3>1
    <2>5. state[t] # "draft" => \A q \in X : status[q] = "done"
      BY <2>1 DEF IInv, Ledger, Admitted, Met, Parents
    <2> HIDE DEF X
    <2>6. TypeOK'
      <3>1. parents' \in [Cards -> SUBSET Cards]
        BY <1>3, <2>2 DEF IInv, TypeOK
      <3>2. QED
        BY <1>1, <2>1, <3>1 DEF IInv, TypeOK
    <2>7. Ledger'
      <3>1. \A q \in X : q \in parents[Current(t)] \/ q[1] \in Deps[t]
        BY <2>3 DEF X
      <3> DEFINE d == Current(t)
      <3>2. d \in Cards /\ parents' = [parents EXCEPT ![d] = X]
        BY <1>3, <2>2
      <3>3. d[1] = t /\ d[2] = card[t] /\ card[t] <= card[t]
        BY <1>3
      <3> HIDE DEF d
      <3>4. d[2] <= card[d[1]] /\ d[1] \in bound /\ (d[1] \notin released \/ d[2] # 1)
        BY <1>2, <2>4, <3>3
      <3>5. \A q \in X : q \in parents[d] \/ q[1] \in Deps[d[1]]
        BY <3>1, <3>3 DEF d
      <3>6. d = Current(d[1]) /\ state[d[1]] # "draft" => \A q \in X : status[q] = "done"
        BY <2>5, <3>3
      <3>7. QED
        BY <1>1, <2>2, <3>2, <3>4, <3>5, <3>6, LinkMoves
    <2>8. Runs'
      BY <1>1, RunsStay
    <2>9. Placed'
      <3>1. Identity(t)' = Identity(t)
        BY <1>1 DEF Identity, Parents, Current
      <3>2. QED
        BY <1>1, <2>1, <3>1 DEF IInv, Placed, At
    <2>10. Unbroken'
      BY <1>1, <2>1, UnbrokenMoves DEF At
    <2>11. KeptParked'
      BY <1>1, KeptStays
    <2>12. QED
      BY <2>6, <2>7, <2>8, <2>9, <2>10, <2>11 DEF IInv
  <1>6. QED
    BY <1>4, <1>5

LEMMA ParkChildStep ==
  ASSUME IInv, Next, NEW t \in Tickets, ParkChild(t)
  PROVE  IInv'
  <1>1. /\ At("graph", t)
        /\ (pc' = Idle /\ status' = status) \/ (pc' = pc /\ SetStatus(Current(t), "blocked"))
        /\ UNCHANGED <<ledgerVars, parents, fresh, last, tree, prepared, crashes>>
    BY DEF ParkChild, Abandon
  <1>2. Current(t) \in Cards /\ Current(t) = <<t, card[t]>> /\ card[t] \in 1..MaxTries
    BY CardsAre DEF IInv, Current
  <1>3. /\ status' \in [Cards -> {"none", "blocked", "ready", "running", "review", "done"}]
        /\ \A c \in Cards : status'[c] \in {"ready", "running"} => status'[c] = status[c]
    BY <1>1, <1>2 DEF IInv, TypeOK, SetStatus
  <1>4. TypeOK'
    BY <1>1, <1>3 DEF IInv, TypeOK, Idle
  <1>5. Ledger'
    <2>1. CASE status' = status
      BY <1>1, <2>1, LedgerStays
    <2>2. CASE SetStatus(Current(t), "blocked")
      <3>1. SetStatus(<<t, card[t]>>, "blocked") /\ ~(card[t] > card[t])
        BY <1>2, <2>2
      <3>2. QED
        BY <1>1, <1>2, <3>1, OneCard
    <2>3. QED
      BY <1>1, <2>1, <2>2
  <1>6. Runs'
    BY <1>1, <1>3, RunsStay
  <1>7. Placed'
    <2>1. CASE pc' = Idle
      BY <1>1, <2>1, PlacedIdle DEF IInv, Placed
    <2>2. CASE pc' = pc
      BY <1>1, <2>2, PlacedStays
    <2>3. QED
      BY <1>1, <2>1, <2>2
  <1>8. Unbroken'
    BY <1>1, <1>3, UnbrokenMoves DEF At, Idle
  <1>9. KeptParked'
    BY <1>1, <1>3, CardsAre, KeptStays DEF IInv
  <1>10. QED
    BY <1>4, <1>5, <1>6, <1>7, <1>8, <1>9 DEF IInv

LEMMA ApplyGraphStep ==
  ASSUME IInv, Next, NEW t \in Tickets, ApplyGraph(t)
  PROVE  IInv'
  <1>1. /\ At("graph", t) /\ pc' = <<"complete_graph", t>>
        /\ graph' = [graph EXCEPT ![t] = IF @ = NoGraph THEN claim[<<"graph", t>>].on ELSE @]
        /\ claim' = [claim EXCEPT ![<<"graph", t>>].status = "applied"]
        /\ UNCHANGED <<state, tries, bound, card, intent, finished, released, plan, boardVars, crashes>>
    BY DEF ApplyGraph, Goto
  <1>2. <<"graph", t>> \in Stages \X Tickets /\ t \in bound
    BY <1>1 DEF IInv, Placed, Stages
  <1>3. /\ claim' \in [Stages \X Tickets -> [status : {"none", "begun", "applied", "completed"},
                                              lapsed : BOOLEAN, on : Graphs]]
        /\ \A u \in Tickets : u # t => claim'[<<"graph", u>>] = claim[<<"graph", u>>]
        /\ claim[<<"graph", t>>].on \in Graphs
    <2> DEFINE r == [claim[<<"graph", t>>] EXCEPT !.status = "applied"]
    <2>1. claim[<<"graph", t>>] \in [status : {"none", "begun", "applied", "completed"}, lapsed : BOOLEAN,
                                     on : Graphs]
      BY <1>2 DEF IInv, TypeOK
    <2>2. r \in [status : {"none", "begun", "applied", "completed"}, lapsed : BOOLEAN, on : Graphs]
      BY <2>1
    <2>3. claim' = [claim EXCEPT ![<<"graph", t>>] = r]
      BY <1>1
    <2> HIDE DEF r
    <2>4. QED
      BY <1>2, <2>1, <2>2, <2>3, ClaimMoves DEF IInv
  <1>4. graph' \in [Tickets -> Graphs]
    BY <1>1, <1>3 DEF IInv, TypeOK
  <1>5. TypeOK'
    BY <1>1, <1>3, <1>4 DEF IInv, TypeOK
  <1>6. Ledger'
    <2>1. \A u \in released : graph'[u].parents = graph[u].parents
      <3>1. released \subseteq Tickets
        BY DEF IInv, TypeOK
      <3>2. graph'[t] = graph[t] \/ graph'[t] = Identity(t)
        BY <1>1 DEF IInv, TypeOK, Placed
      <3>3. t \in released => graph'[t].parents = graph[t].parents
        BY <3>2 DEF IInv, Ledger, ReleasedAsLinked, Identity
      <3>4. \A u \in Tickets : u # t => graph'[u] = graph[u]
        BY <1>1 DEF IInv, TypeOK
      <3>5. QED
        BY <3>1, <3>3, <3>4
    <2>2. ReleasedAsLinked'
      <3>1. UNCHANGED <<released, card, parents>>
        BY <1>1
      <3>2. QED
        BY <2>1, <3>1, ReleasedStays
    <2>3. Admitted' /\ Accepted' /\ Carding' /\ Links' /\ Planned'
      BY <1>1 DEF IInv, Ledger, Admitted, Accepted, Carding, Links, Planned, Met, Current, RepairWork
    <2>4. QED
      BY <2>2, <2>3 DEF Ledger
  <1>7. Runs'
    BY <1>1, RunsStay
  <1>8. Placed'
    BY <1>1, <1>2, <1>3 DEF IInv, Placed, At
  <1>9. Unbroken'
    BY <1>1, UnbrokenMoves DEF At
  <1>10. KeptParked'
    BY <1>1, KeptStays
  <1>11. QED
    BY <1>5, <1>6, <1>7, <1>8, <1>9, <1>10 DEF IInv

LEMMA CompleteStep ==
  ASSUME IInv, Next, NEW t \in Tickets, CompleteGraph(t) \/ CompleteRelease(t)
  PROVE  IInv'
  <1>1. /\ \E s \in Stages : At(IF s = "graph" THEN "complete_graph" ELSE "complete_release", t) /\ Complete(s, t)
        /\ pc' = Idle
        /\ UNCHANGED <<state, tries, bound, card, intent, finished, graph, released, plan, boardVars, crashes>>
    BY DEF CompleteGraph, CompleteRelease, Complete, Abandon, Stages
  <1>2. PICK s \in Stages : /\ At(IF s = "graph" THEN "complete_graph" ELSE "complete_release", t)
                            /\ claim' = [claim EXCEPT ![<<s, t>>].status = "completed"]
    BY <1>1 DEF Complete
  <1>3. /\ claim' \in [Stages \X Tickets -> [status : {"none", "begun", "applied", "completed"},
                                              lapsed : BOOLEAN, on : Graphs]]
        /\ \A u \in Tickets : <<"graph", u>> # <<s, t>> => claim'[<<"graph", u>>] = claim[<<"graph", u>>]
    <2> DEFINE r == [claim[<<s, t>>] EXCEPT !.status = "completed"]
    <2>1. claim[<<s, t>>] \in [status : {"none", "begun", "applied", "completed"}, lapsed : BOOLEAN, on : Graphs]
      BY DEF IInv, TypeOK
    <2>2. r \in [status : {"none", "begun", "applied", "completed"}, lapsed : BOOLEAN, on : Graphs]
      BY <2>1
    <2>3. claim' = [claim EXCEPT ![<<s, t>>] = r]
      BY <1>2
    <2> HIDE DEF r
    <2>4. QED
      BY <2>2, <2>3, ClaimMoves DEF IInv
  <1>4. TypeOK'
    BY <1>1, <1>3 DEF IInv, TypeOK, Idle
  <1>5. Ledger'
    BY <1>1, LedgerStays
  <1>6. Runs'
    BY <1>1, RunsStay
  <1>7. Placed'
    <2>1. s = "graph" => t \in bound
      BY <1>2 DEF IInv, Placed, At
    <2>2. \A u \in Tickets : claim'[<<"graph", u>>].status # "none" => u \in bound
      <3>1. TAKE u \in Tickets
      <3>2. CASE <<"graph", u>> = <<s, t>>
        BY <2>1, <3>2
      <3>3. CASE <<"graph", u>> # <<s, t>>
        BY <1>3, <3>3 DEF IInv, Placed
      <3>4. QED
        BY <3>2, <3>3
    <2>3. QED
      BY <1>1, <2>2, PlacedIdle
  <1>8. Unbroken'
    BY <1>1, <1>2, UnbrokenMoves DEF At, Idle
  <1>9. KeptParked'
    BY <1>1, KeptStays
  <1>10. QED
    BY <1>4, <1>5, <1>6, <1>7, <1>8, <1>9 DEF IInv

----------------------------------------------------------------------------
(* The release.                                                            *)

\* What the ledger asks of a release: every ticket waited for is accepted and delivered.
LEMMA ReleasableMet ==
  ASSUME IInv, NEW t \in Tickets, Releasable(t)
  PROVE  Met(t) /\ graph[t] # NoGraph /\ graph[t] = Identity(t)
  <1>1. Deps[t] \subseteq Tickets
    BY CardsAre DEF IInv
  <1>2. QED
    BY <1>1 DEF Releasable, Met, IInv, Ledger, Accepted

LEMMA ClaimReleaseStep ==
  ASSUME IInv, Next, NEW t \in Tickets, ClaimRelease(t)
  PROVE  IInv'
  <1>1. /\ pc = Idle /\ Releasable(t)
        /\ UNCHANGED <<state, tries, bound, card, intent, finished, graph, released, plan, boardVars, crashes>>
    BY DEF ClaimRelease, Quiet, ReleaseWork
  <1>2. <<"release", t>> \in Stages \X Tickets /\ graph[t] \in Graphs
    BY DEF IInv, TypeOK, Stages
  <1>3. \E r \in [status : {"none", "begun", "applied", "completed"}, lapsed : BOOLEAN, on : Graphs] :
           /\ claim' = [claim EXCEPT ![<<"release", t>>] = r]
           /\ pc' = <<"release", t>> \/ pc' = <<"complete_release", t>>
    <2>1. CASE Reconciled /\ GraphWork = {} /\ t \in ReleaseWork /\ Take("release", t, graph[t])
      <3> DEFINE r == [status |-> "begun", lapsed |-> FALSE, on |-> graph[t]]
      <3>1. r \in [status : {"none", "begun", "applied", "completed"}, lapsed : BOOLEAN, on : Graphs]
        BY <1>2
      <3>2. claim' = [claim EXCEPT ![<<"release", t>>] = r] /\ pc' = <<"release", t>>
        BY <2>1 DEF Take, Goto
      <3>3. QED
        BY <3>1, <3>2
    <2>2. CASE Retake("release", t)
      <3> DEFINE r == [claim[<<"release", t>>] EXCEPT !.lapsed = FALSE]
      <3>1. claim[<<"release", t>>] \in [status : {"none", "begun", "applied", "completed"}, lapsed : BOOLEAN,
                                         on : Graphs]
        BY <1>2 DEF IInv, TypeOK
      <3>2. r \in [status : {"none", "begun", "applied", "completed"}, lapsed : BOOLEAN, on : Graphs]
        BY <3>1
      <3>3. /\ claim' = [claim EXCEPT ![<<"release", t>>] = r]
            /\ pc' = <<"release", t>> \/ pc' = <<"complete_release", t>>
        BY <2>2 DEF Retake, Goto
      <3> HIDE DEF r
      <3>4. QED
        BY <3>2, <3>3
    <2>3. QED
      BY <2>1, <2>2 DEF ClaimRelease
  <1>4. PICK r \in [status : {"none", "begun", "applied", "completed"}, lapsed : BOOLEAN, on : Graphs] :
           /\ claim' = [claim EXCEPT ![<<"release", t>>] = r]
           /\ pc' = <<"release", t>> \/ pc' = <<"complete_release", t>>
    BY <1>3
  <1>5. /\ claim' \in [Stages \X Tickets -> [status : {"none", "begun", "applied", "completed"},
                                              lapsed : BOOLEAN, on : Graphs]]
        /\ \A u \in Tickets : claim'[<<"graph", u>>] = claim[<<"graph", u>>]
    BY <1>2, <1>4, ClaimMoves DEF IInv
  <1>6. TypeOK'
    BY <1>1, <1>4, <1>5 DEF IInv, TypeOK
  <1>7. Ledger'
    BY <1>1, LedgerStays
  <1>8. Runs'
    BY <1>1, RunsStay
  <1>9. Placed'
    <2>1. Identity(t)' = Identity(t)
      BY <1>1 DEF Identity, Parents, Current
    <2>2. Met(t)' /\ graph[t] # NoGraph /\ graph[t] = Identity(t)
      BY <1>1, ReleasableMet, MetStays
    <2>3. QED
      BY <1>1, <1>4, <1>5, <2>1, <2>2 DEF IInv, Placed, At
  <1>10. Unbroken'
    BY <1>1, <1>4, UnbrokenMoves DEF At, Idle
  <1>11. KeptParked'
    BY <1>1, KeptStays
  <1>12. QED
    BY <1>6, <1>7, <1>8, <1>9, <1>10, <1>11 DEF IInv

\* The worktree of t is there, and is prepared or was worked in.
LEMMA PrepareMoves ==
  ASSUME TypeOK, NEW t \in Tickets, Prepare(t)
  PROVE  /\ tree' \in [Tickets -> {"absent", "clean", "worked"}]
         /\ \A u \in Tickets : tree'[u] = "worked" <=> tree[u] = "worked"
         /\ prepared' \in {prepared, prepared \cup {t}}
         /\ t \in prepared' \/ tree[t] = "worked"
  <1>1. CASE tree[t] = "worked"
    <2>1. tree' = tree /\ prepared' = prepared
      BY <1>1 DEF Prepare
    <2>2. QED
      BY <1>1, <2>1 DEF TypeOK
  <1>2. CASE tree[t] # "worked"
    <2>1. tree' = [tree EXCEPT ![t] = "clean"] /\ prepared' = prepared \cup {t}
      BY <1>2 DEF Prepare
    <2>2. QED
      BY <1>2, <2>1 DEF TypeOK
  <1>3. QED
    BY <1>1, <1>2

LEMMA PrepareReleaseStep ==
  ASSUME IInv, Next, NEW t \in Tickets, PrepareRelease(t)
  PROVE  IInv'
  <1>1. /\ At("release", t) /\ Prepare(t)
        /\ pc' = IF tree[t] # "worked" THEN <<"expose", t>> ELSE Idle
        /\ UNCHANGED <<ledgerVars, status, parents, fresh, last, crashes>>
    BY DEF PrepareRelease, Goto, Abandon
  <1>2. /\ tree' \in [Tickets -> {"absent", "clean", "worked"}]
        /\ \A u \in Tickets : tree'[u] = "worked" <=> tree[u] = "worked"
        /\ prepared' \in {prepared, prepared \cup {t}}
        /\ t \in prepared' \/ tree[t] = "worked"
    BY <1>1, PrepareMoves DEF IInv
  <1>3. TypeOK'
    BY <1>1, <1>2 DEF IInv, TypeOK, Idle
  <1>4. Ledger'
    BY <1>1, LedgerStays
  <1>5. Runs'
    BY <1>1, <1>2, RunsStay
  <1>6. Placed'
    <2>1. CASE pc' = Idle
      BY <1>1, <2>1, PlacedIdle DEF IInv, Placed
    <2>2. CASE pc' = <<"expose", t>>
      <3>1. Identity(t)' = Identity(t)
        BY <1>1 DEF Identity, Parents, Current
      <3>2. Met(t)' /\ graph[t] # NoGraph /\ graph[t] = Identity(t)
        BY <1>1, MetStays DEF IInv, Placed, At
      <3>3. QED
        BY <1>1, <2>2, <3>1, <3>2 DEF IInv, Placed, At
    <2>3. QED
      BY <1>1, <2>1, <2>2
  <1>7. Unbroken'
    <2>1. \A u \in Tickets : /\ ~At("ack", u) /\ ~At("admit", u) /\ ~At("prepare", u) /\ ~At("expose", u)
                             /\ ~At("observe", u) /\ ~At("prepare", u)' /\ ~At("observe", u)'
                             /\ At("expose", u)' => u = t /\ tree[t] # "worked"
      BY <1>1 DEF At, Idle
    <2>2. tree[t] # "worked" /\ crashes = 0 => state[t] \in {"draft", "ready_local"}
      BY DEF IInv, Unbroken, TypeOK
    <2>3. QED
      BY <1>1, <1>2, <2>1, <2>2 DEF IInv, Unbroken
  <1>8. KeptParked'
    BY <1>1, KeptStays
  <1>9. QED
    BY <1>3, <1>4, <1>5, <1>6, <1>7, <1>8 DEF IInv

\* The parents on the board are those of the graph, and they are done: the card is ready.
LEMMA ExposeStep ==
  ASSUME IInv, Next, NEW t \in Tickets, Expose(t)
  PROVE  IInv'
  <1>1. /\ At("expose", t)
        /\ UNCHANGED <<ledgerVars, parents, fresh, last, tree, prepared, crashes>>
        /\ \/ pc' = Idle /\ status' = status
           \/ /\ pc' = <<"observe", t>> /\ parents[Current(t)] = graph[t].parents
              /\ \/ status' = status
                 \/ SetStatus(Current(t), Unblocked(Current(t)))
    BY DEF Expose, Goto, Abandon
  <1>2. Current(t) \in Cards /\ Current(t) = <<t, card[t]>> /\ card[t] \in 1..MaxTries
    BY CardsAre DEF IInv, Current
  <1>3. Met(t) /\ graph[t] # NoGraph /\ graph[t] = Identity(t)
    BY <1>1 DEF IInv, Placed, At
  <1>4. CASE status' = status
    <2>1. TypeOK'
      BY <1>1, <1>4 DEF IInv, TypeOK, Idle
    <2>2. Ledger'
      BY <1>1, <1>4, LedgerStays
    <2>3. Runs'
      BY <1>1, <1>4, RunsStay
    <2>4. Placed'
      <3>1. CASE pc' = Idle
        BY <1>1, <3>1, PlacedIdle DEF IInv, Placed
      <3>2. CASE pc' = <<"observe", t>> /\ parents[Current(t)] = graph[t].parents
        <4>1. Identity(t)' = Identity(t) /\ Current(t)' = Current(t)
          BY <1>1 DEF Identity, Parents, Current
        <4>2. Met(t)'
          BY <1>3, MetStays
        <4>3. QED
          BY <1>1, <1>3, <3>2, <4>1, <4>2 DEF IInv, Placed, At
      <3>3. QED
        BY <1>1, <3>1, <3>2
    <2>5. Unbroken'
      BY <1>1, <1>4, UnbrokenMoves DEF At, Idle
    <2>6. KeptParked'
      BY <1>1, <1>4, KeptStays
    <2>7. QED
      BY <2>1, <2>2, <2>3, <2>4, <2>5, <2>6 DEF IInv
  <1>5. CASE status' # status
    <2>1. pc' = <<"observe", t>> /\ parents[Current(t)] = graph[t].parents /\ SetStatus(Current(t), "ready")
      <3>1. \A q \in graph[t].parents : status[q] = "done"
        BY <1>3 DEF Met, Identity, Parents
      <3>2. parents[Current(t)] = graph[t].parents => Unblocked(Current(t)) = "ready"
        BY <3>1 DEF Unblocked
      <3>3. QED
        BY <1>1, <1>5, <3>2
    <2>2. /\ status'[Current(t)] = "ready" /\ \A c \in Cards : c # Current(t) => status'[c] = status[c]
          /\ status' \in [Cards -> {"none", "blocked", "ready", "running", "review", "done"}]
      BY <1>2, <2>1 DEF IInv, TypeOK, SetStatus
    <2>3. TypeOK'
      BY <1>1, <2>1, <2>2 DEF IInv, TypeOK
    <2>4. Ledger'
      <3>1. SetStatus(<<t, card[t]>>, "ready") /\ ~(card[t] > card[t])
        BY <1>2, <2>1
      <3>2. QED
        BY <1>1, <1>2, <1>3, <3>1, OneCard
    <2>5. Runs'
      BY <1>1, <2>2, RunsStay
    <2>6. Placed'
      <3>1. Identity(t)' = Identity(t) /\ Current(t)' = Current(t)
        BY <1>1 DEF Identity, Parents, Current
      <3>2. Met(t)'
        BY <1>3, MetStays
      <3>3. QED
        BY <1>1, <1>3, <2>1, <3>1, <3>2 DEF IInv, Placed, At
    <2>7. Unbroken'
      <3>1. crashes = 0 => t \in prepared
        BY <1>1 DEF IInv, Unbroken
      <3>2. Current(t)[1] = t
        BY <1>2
      <3>3. \A c \in Cards : status'[c] \in {"ready", "running"} =>
               status[c] \in {"ready", "running"} \/ (crashes = 0 => c[1] \in prepared)
        BY <2>2, <3>1, <3>2
      <3>4. QED
        BY <1>1, <2>1, <3>3, UnbrokenMoves DEF At
    <2>8. KeptParked'
      <3>1. crashes = 0 => state[t] \in {"draft", "ready_local"}
        BY <1>1 DEF IInv, Unbroken
      <3>2. ASSUME NEW u \in Tickets, status'[Current(u)] \in {"ready", "running"}
            PROVE  \/ status[Current(u)] \in {"ready", "running"}
                   \/ crashes = 0 => state[u] \in {"draft", "ready_local", "repairing"}
        <4>1. CASE u = t
          BY <3>1, <4>1
        <4>2. CASE u # t
          <5>1. Current(u) # Current(t) /\ Current(u) \in Cards
            BY <4>2, CardsAre DEF Current, IInv
          <5>2. QED
            BY <2>2, <3>2, <5>1
        <4>3. QED
          BY <4>1, <4>2
      <3>3. QED
        BY <1>1, <3>2, KeptStays
    <2>9. QED
      BY <2>3, <2>4, <2>5, <2>6, <2>7, <2>8 DEF IInv
  <1>6. QED
    BY <1>4, <1>5

\* The release is recorded, and a draft admitted with it.
LEMMA ObserveStep ==
  ASSUME IInv, Next, NEW t \in Tickets, Observe(t)
  PROVE  IInv'
  <1>1. /\ At("observe", t)
        /\ UNCHANGED <<tries, bound, card, finished, graph, plan, boardVars, crashes>>
    BY DEF Observe
  <1>2. CASE UNCHANGED <<released, state, intent, claim>> /\ pc' = Idle
    <2>1. TypeOK'
      BY <1>1, <1>2 DEF IInv, TypeOK, Idle
    <2>2. Ledger'
      BY <1>1, <1>2, LedgerStays
    <2>3. Runs'
      BY <1>1, RunsStay
    <2>4. Placed'
      BY <1>1, <1>2, PlacedIdle DEF IInv, Placed
    <2>5. Unbroken'
      BY <1>1, <1>2, UnbrokenMoves DEF At, Idle
    <2>6. KeptParked'
      BY <1>1, <1>2, KeptStays
    <2>7. QED
      BY <2>1, <2>2, <2>3, <2>4, <2>5, <2>6 DEF IInv
  <1>3. CASE ~(UNCHANGED <<released, state, intent, claim>> /\ pc' = Idle)
    <2>1. /\ state[t] \in {"draft", "ready_local"} /\ released' = released \cup {t}
          /\ state' = [state EXCEPT ![t] = "ready_local"]
          /\ intent' = IF state[t] = "draft" THEN [intent EXCEPT ![t] = NoIntent] ELSE intent
          /\ claim' = [claim EXCEPT ![<<"release", t>>].status = "applied"]
          /\ pc' = <<"complete_release", t>>
      BY <1>3 DEF Observe, Abandon, Goto
    <2>2. /\ Met(t) /\ graph[t] = Identity(t) /\ parents[Current(t)] = graph[t].parents
          /\ \A q \in parents[Current(t)] : status[q] = "done"
      <3>1. Met(t) /\ graph[t] = Identity(t) /\ parents[Current(t)] = graph[t].parents
        BY <1>1 DEF IInv, Placed, At
      <3>2. QED
        BY <3>1 DEF Met, Identity, Parents
    <2>3. /\ intent' \in [Tickets -> [to : {"none", "ready", "review", "done"}, held : BOOLEAN]]
          /\ \A u \in Tickets : u # t => intent'[u] = intent[u]
          /\ intent'[t] = NoIntent \/ (state[t] = "ready_local" /\ intent'[t] = intent[t])
      BY <2>1 DEF IInv, TypeOK, NoIntent
    <2>4. /\ claim' \in [Stages \X Tickets -> [status : {"none", "begun", "applied", "completed"},
                                                lapsed : BOOLEAN, on : Graphs]]
          /\ \A u \in Tickets : claim'[<<"graph", u>>] = claim[<<"graph", u>>]
      <3> DEFINE r == [claim[<<"release", t>>] EXCEPT !.status = "applied"]
      <3>1. <<"release", t>> \in Stages \X Tickets
        BY DEF Stages
      <3>2. claim[<<"release", t>>] \in [status : {"none", "begun", "applied", "completed"}, lapsed : BOOLEAN,
                                         on : Graphs]
        BY <3>1 DEF IInv, TypeOK
      <3>3. r \in [status : {"none", "begun", "applied", "completed"}, lapsed : BOOLEAN, on : Graphs]
        BY <3>2
      <3>4. claim' = [claim EXCEPT ![<<"release", t>>] = r]
        BY <2>1
      <3> HIDE DEF r
      <3>5. QED
        BY <3>1, <3>3, <3>4, ClaimMoves DEF IInv
    <2>5. state' \in [Tickets -> {"draft", "ready_local", "implementing", "local_review", "repairing", "done"}]
          /\ state'[t] = "ready_local" /\ \A u \in Tickets : u # t => state'[u] = state[u]
      BY <2>1 DEF IInv, TypeOK
    <2>6. TypeOK'
      BY <1>1, <2>1, <2>3, <2>4, <2>5 DEF IInv, TypeOK
    <2>7. card[t] = 1 /\ ~plan[t].open /\ intent[t].to # "done"
      BY <2>1 DEF IInv, Ledger, Carding, RepairWork, Accepted
    <2>8. Ledger'
      <3>1. Admitted' /\ Accepted' /\ Carding' /\ Links' /\ Planned'
        <4>1. UNCHANGED <<card, plan, status, parents, bound, finished>>
          BY <1>1
        <4>2. \A u \in Tickets : u # t => intent'[u] = intent[u] /\ tries'[u] = tries[u]
          BY <1>1, <2>3
        <4>3. intent'[t].to # "done" /\ state[t] # "done"
          BY <2>1, <2>3, <2>7 DEF NoIntent
        <4>4. \A u \in Tickets : u \in released' => u = t \/ u \in released
          BY <2>1
        <4>5. QED
          BY <2>1, <2>2, <2>7, <4>1, <4>2, <4>3, <4>4, LedgerMoves
      <3>2. ReleasedAsLinked'
        <4>1. \A u \in released' : graph[u].parents = Parents(u) /\ parents[Original(u)] = Parents(u)
          <5>1. Original(t) = Current(t)
            BY <2>7 DEF Original, Current
          <5>2. QED
            BY <2>1, <2>2, <5>1 DEF IInv, Ledger, ReleasedAsLinked, Identity
        <4>2. \A u : Parents(u)' = Parents(u) /\ Original(u)' = Original(u)
          BY <1>1 DEF Parents, Current, Original
        <4>3. UNCHANGED <<graph, parents>>
          BY <1>1
        <4>4. SUFFICES ASSUME NEW u \in released'
                       PROVE  graph'[u].parents = Parents(u)' /\ parents'[Original(u)'] = Parents(u)'
          BY DEF ReleasedAsLinked, Parents
        <4>5. QED
          BY <4>1, <4>2, <4>3
      <3>3. QED
        BY <3>1, <3>2 DEF Ledger
    <2>9. Runs'
      BY <1>1, RunsStay
    <2>10. Placed'
      BY <1>1, <2>1, <2>4 DEF IInv, Placed, At
    <2>11. Unbroken'
      <3>1. \A u \in Tickets : /\ ~At("ack", u) /\ ~At("admit", u) /\ ~At("prepare", u) /\ ~At("expose", u)
                               /\ ~At("prepare", u)' /\ ~At("expose", u)' /\ ~At("observe", u)'
        BY <1>1, <2>1 DEF At
      <3>2. crashes = 0 => t \in prepared
        BY <1>1 DEF IInv, Unbroken
      <3>3. QED
        BY <1>1, <2>3, <2>5, <3>1, <3>2 DEF IInv, Unbroken, NoIntent
    <2>12. KeptParked'
      <3>1. \A u \in Tickets : Current(u)' = Current(u)
        BY <1>1 DEF Current
      <3>2. QED
        BY <1>1, <2>5, <3>1 DEF IInv, KeptParked
    <2>13. QED
      BY <2>6, <2>8, <2>9, <2>10, <2>11, <2>12 DEF IInv
  <1>4. QED
    BY <1>2, <1>3

----------------------------------------------------------------------------
(* The admission.                                                          *)

\* A draft has its first card, and before it is bound that card has no parents.
LEMMA DraftCard ==
  ASSUME IInv, NEW t \in Tickets, state[t] = "draft", t \notin bound \/ Deps[t] = {}
  PROVE  card[t] = 1 /\ Original(t) = Current(t) /\ parents[Original(t)] = {}
  <1>1. card[t] = 1 /\ 1 \in 1..MaxTries /\ Original(t) \in Cards
    BY CardsAre DEF IInv, Ledger, Carding
  <1>2. \A q \in parents[Original(t)] : q \in Cards /\ q[2] \in 1..MaxTries
    BY <1>1, CardsAre DEF IInv, TypeOK
  <1>3. \A q \in parents[<<t, 1>>] : q[2] < 1
    BY <1>1 DEF IInv, Ledger, Links
  <1>4. QED
    BY <1>1, <1>2, <1>3 DEF Original, Current

LEMMA BindStep ==
  ASSUME IInv, Next, NEW t \in Tickets, Bind(t)
  PROVE  IInv'
  <1>1. /\ pc = Idle /\ pc' = <<"admit", t>> /\ state[t] = "draft" /\ t \notin bound /\ bound' = bound \cup {t}
        /\ \A u \in Tickets : ~Due(u)
        /\ UNCHANGED <<state, tries, card, intent, finished, graph, released, claim, plan, boardVars, crashes>>
    BY DEF Bind, Settled, Reconciled, Clear, Unconfined, Quiet, Goto
  <1>2. TypeOK'
    BY <1>1 DEF IInv, TypeOK
  <1>3. Ledger'
    <2>1. UNCHANGED <<card, released, graph, parents, status, plan, state, tries, intent, finished>>
      BY <1>1
    <2>2. ReleasedAsLinked'
      BY <2>1, ReleasedStays DEF IInv, TypeOK
    <2>3. Admitted' /\ Accepted' /\ Carding'
      BY <2>1 DEF IInv, Ledger, Admitted, Accepted, Carding, Met, Current, RepairWork
    <2>4. Links' /\ Planned'
      BY <1>1, <2>1 DEF IInv, Ledger, Links, Planned
    <2>5. QED
      BY <2>2, <2>3, <2>4 DEF Ledger
  <1>4. Runs'
    BY <1>1, RunsStay
  <1>5. Placed'
    <2>1. parents[Original(t)] = {} /\ Original(t)' = Original(t) /\ \A u : Current(u)' = Current(u)
      BY <1>1, DraftCard DEF Original, Current
    <2>2. ASSUME NEW p \in Deps[t], state[p] = "done"
          PROVE  status[Current(p)] = "done"
      <3>1. p \in Tickets
        BY CardsAre DEF IInv
      <3>2. QED
        BY <1>1, <2>2, <3>1 DEF Due, IInv, Ledger, Accepted
    <2>3. QED
      BY <1>1, <2>1, <2>2 DEF IInv, Placed, At
  <1>6. Unbroken'
    <2>1. \A u \in Tickets : /\ ~At("ack", u) /\ ~At("admit", u) /\ ~At("prepare", u) /\ ~At("expose", u)
                             /\ ~At("observe", u) /\ ~At("prepare", u)' /\ ~At("expose", u)' /\ ~At("observe", u)'
                             /\ (u = t => At("admit", u)')
      BY <1>1 DEF At, Idle
    <2>2. QED
      BY <1>1, <2>1 DEF IInv, Unbroken
  <1>7. KeptParked'
    BY <1>1, KeptStays
  <1>8. QED
    BY <1>2, <1>3, <1>4, <1>5, <1>6, <1>7 DEF IInv

\* What the activation and the readiness stage do alike, which differ in the worktree.
LEMMA Admits ==
  ASSUME IInv, Next, NEW t \in Tickets, state[t] = "draft", Met(t), parents[Original(t)] = {},
         Transition(t, "ready_local", "ready"),
         UNCHANGED <<tries, bound, card, finished, graph, released, claim, plan, boardVars, crashes>>,
         pc' = <<"prepare", t>> \/ (pc' = pc /\ pc = Idle)
  PROVE  /\ TypeOK' /\ Ledger' /\ Runs' /\ Placed' /\ KeptParked'
         /\ intent'[t] = [to |-> "ready", held |-> FALSE] /\ state'[t] = "ready_local"
         /\ \A u \in Tickets : u # t => intent'[u] = intent[u] /\ state'[u] = state[u]
  <1>1. /\ state' = [state EXCEPT ![t] = "ready_local"]
        /\ intent' = [intent EXCEPT ![t] = [to |-> "ready", held |-> FALSE]]
    BY DEF Transition
  <1>2. /\ intent'[t] = [to |-> "ready", held |-> FALSE] /\ state'[t] = "ready_local"
        /\ \A u \in Tickets : u # t => intent'[u] = intent[u] /\ state'[u] = state[u]
        /\ intent' \in [Tickets -> [to : {"none", "ready", "review", "done"}, held : BOOLEAN]]
        /\ state' \in [Tickets -> {"draft", "ready_local", "implementing", "local_review", "repairing", "done"}]
    BY <1>1 DEF IInv, TypeOK
  <1>3. TypeOK'
    BY <1>2 DEF IInv, TypeOK
  <1>4. card[t] = 1 /\ Original(t) = Current(t) /\ ~plan[t].open /\ t \notin released
    BY DEF IInv, Ledger, Carding, RepairWork, Original, Current, Admitted
  <1>5. Ledger'
    <2>1. UNCHANGED <<card, plan, status, parents, bound, finished, released, graph>>
      OBVIOUS
    <2>2. Admitted' /\ Accepted' /\ Carding' /\ Links' /\ Planned'
      BY <1>1, <1>2, <1>4, <2>1, LedgerMoves
    <2>3. ReleasedAsLinked'
      BY <2>1, ReleasedStays
    <2>4. QED
      BY <2>2, <2>3 DEF Ledger
  <1>6. Runs'
    BY RunsStay
  <1>7. Placed'
    BY <1>2 DEF IInv, Placed, At, Idle
  <1>8. KeptParked'
    <2>1. \A u \in Tickets : Current(u)' = Current(u)
      BY DEF Current
    <2>2. QED
      BY <1>2, <2>1 DEF IInv, KeptParked
  <1>9. QED
    BY <1>2, <1>3, <1>5, <1>6, <1>7, <1>8

LEMMA AdmitStep ==
  ASSUME IInv, Next, NEW t \in Tickets, Admit(t)
  PROVE  IInv'
  <1>1. /\ At("admit", t) /\ state[t] = "draft" /\ parents[Original(t)] = {}
        /\ \A p \in Deps[t] : state[p] = "done" => status[Current(p)] = "done"
        /\ UNCHANGED <<tries, bound, card, finished, graph, released, claim, plan, boardVars, crashes>>
    BY DEF Admit, IInv, Placed
  <1>2. \A u \in Tickets : /\ ~At("ack", u) /\ ~At("prepare", u) /\ ~At("expose", u) /\ ~At("observe", u)
                           /\ (At("admit", u) => u = t)
    BY <1>1 DEF At
  <1>3. CASE \A p \in Deps[t] : state[p] = "done"
    <2>1. Transition(t, "ready_local", "ready") /\ pc' = <<"prepare", t>>
      BY <1>3 DEF Admit, Goto
    <2>2. Met(t)
      BY <1>1, <1>3 DEF Met
    <2>3. /\ TypeOK' /\ Ledger' /\ Runs' /\ Placed' /\ KeptParked'
          /\ intent'[t] = [to |-> "ready", held |-> FALSE] /\ state'[t] = "ready_local"
          /\ \A u \in Tickets : u # t => intent'[u] = intent[u] /\ state'[u] = state[u]
      BY <1>1, <2>1, <2>2, Admits
    <2>4. Unbroken'
      <3>1. \A u \in Tickets : /\ ~At("ack", u)' /\ ~At("admit", u)' /\ ~At("expose", u)' /\ ~At("observe", u)'
                               /\ (At("prepare", u)' <=> u = t)
        BY <2>1 DEF At
      <3>2. QED
        BY <1>1, <1>2, <2>3, <3>1 DEF IInv, Unbroken
    <2>5. QED
      BY <2>3, <2>4 DEF IInv
  <1>4. CASE ~(\A p \in Deps[t] : state[p] = "done")
    <2>1. pc' = Idle /\ UNCHANGED <<state, intent>>
      BY <1>4 DEF Admit, Abandon
    <2>2. TypeOK'
      BY <1>1, <2>1 DEF IInv, TypeOK, Idle
    <2>3. Ledger'
      BY <1>1, <2>1, LedgerStays
    <2>4. Runs'
      BY <1>1, RunsStay
    <2>5. Placed'
      BY <1>1, <2>1, PlacedIdle DEF IInv, Placed
    <2>6. Unbroken'
      <3>1. \A u \in Tickets : /\ ~At("ack", u)' /\ ~At("prepare", u)' /\ ~At("expose", u)' /\ ~At("observe", u)'
        BY <2>1 DEF At, Idle
      <3>2. Deps[t] # {}
        BY <1>4
      <3>3. QED
        BY <1>1, <1>2, <2>1, <3>1, <3>2 DEF IInv, Unbroken
    <2>7. KeptParked'
      BY <1>1, <2>1, KeptStays
    <2>8. QED
      BY <2>2, <2>3, <2>4, <2>5, <2>6, <2>7 DEF IInv
  <1>5. QED
    BY <1>3, <1>4

LEMMA PrepareAdmittedStep ==
  ASSUME IInv, Next, NEW t \in Tickets, PrepareAdmitted(t)
  PROVE  IInv'
  <1>1. /\ At("prepare", t) /\ Prepare(t) /\ pc' = Idle
        /\ UNCHANGED <<ledgerVars, status, parents, fresh, last, crashes>>
    BY DEF PrepareAdmitted, Abandon
  <1>2. /\ tree' \in [Tickets -> {"absent", "clean", "worked"}]
        /\ \A u \in Tickets : tree'[u] = "worked" <=> tree[u] = "worked"
        /\ prepared' \in {prepared, prepared \cup {t}}
        /\ t \in prepared' \/ tree[t] = "worked"
    BY <1>1, PrepareMoves DEF IInv
  <1>3. TypeOK'
    BY <1>1, <1>2 DEF IInv, TypeOK, Idle
  <1>4. Ledger'
    BY <1>1, LedgerStays
  <1>5. Runs'
    BY <1>1, <1>2, RunsStay
  <1>6. Placed'
    BY <1>1, PlacedIdle DEF IInv, Placed
  <1>7. Unbroken'
    <2>1. \A u \in Tickets : /\ ~At("ack", u) /\ ~At("admit", u) /\ (At("prepare", u) => u = t) /\ ~At("expose", u)
                             /\ ~At("observe", u) /\ ~At("prepare", u)' /\ ~At("observe", u)' /\ ~At("expose", u)'
      BY <1>1 DEF At, Idle
    <2>2. crashes = 0 => t \in prepared'
      BY <1>2 DEF IInv, Unbroken
    <2>3. QED
      BY <1>1, <1>2, <2>1, <2>2 DEF IInv, Unbroken
  <1>8. KeptParked'
    BY <1>1, KeptStays
  <1>9. QED
    BY <1>3, <1>4, <1>5, <1>6, <1>7, <1>8 DEF IInv

\* The readiness stage finds a bound draft only where a tick died before it admitted it.
LEMMA ReadinessStep ==
  ASSUME IInv, Next, NEW t \in Tickets, Readiness(t)
  PROVE  IInv'
  <1>1. /\ pc = Idle /\ pc' = pc /\ state[t] = "draft" /\ t \in bound /\ Deps[t] = {}
        /\ Transition(t, "ready_local", "ready")
        /\ UNCHANGED <<tries, bound, card, finished, graph, released, claim, plan, boardVars, crashes>>
    BY DEF Readiness, Settled, Reconciled, Clear, Unconfined, Quiet
  <1>2. Met(t) /\ parents[Original(t)] = {}
    BY <1>1, DraftCard DEF Met
  <1>3. TypeOK' /\ Ledger' /\ Runs' /\ Placed' /\ KeptParked'
    BY <1>1, <1>2, Admits
  <1>4. Unbroken'
    <2>1. ~At("admit", t)
      BY <1>1 DEF At, Idle
    <2>2. crashes # 0
      BY <1>1, <2>1 DEF IInv, Unbroken
    <2>3. QED
      BY <1>1, <2>2 DEF Unbroken
  <1>5. QED
    BY <1>3, <1>4 DEF IInv

----------------------------------------------------------------------------
(* The repair.                                                             *)

\* The ticket that is being repaired has a place on the board for its next card.
LEMMA Repaired ==
  ASSUME IInv, NEW t \in RepairWork
  PROVE  /\ t \in Tickets /\ state[t] = "repairing" /\ tries[t] \in 1..MaxTries /\ card[t] < tries[t]
         /\ card[t] \in 1..MaxTries
         /\ Replacement(t) \in Cards /\ Replacement(t) = <<t, tries[t]>> /\ Replacement(t) # Current(t)
         /\ \A u \in Tickets : Replacement(t) # Current(u) /\ Replacement(t) # Original(u)
         /\ Met(t)
  <1>1. t \in Tickets /\ state[t] = "repairing" /\ card[t] < tries[t]
    BY DEF RepairWork
  <1>2. tries[t] \in 1..MaxTries /\ card[t] \in 1..MaxTries /\ Met(t)
    BY <1>1 DEF IInv, TypeOK, Ledger, Carding, Admitted
  <1>3. Replacement(t) \in Cards /\ Replacement(t) = <<t, tries[t]>>
    BY <1>1, <1>2 DEF Replacement, Cards
  <1>4. \A u \in Tickets : Replacement(t) # Current(u) /\ Replacement(t) # Original(u)
    BY <1>1, <1>2, <1>3 DEF Current, Original
  <1>5. QED
    BY <1>1, <1>2, <1>3, <1>4

\* The steps of a repair between its plan and its record leave a ticket under repair.
LEMMA Replacing ==
  ASSUME IInv, NEW t \in Tickets, pc[1] \in {"make", "move", "revise", "record"}, pc[2] = t
  PROVE  plan[t].open /\ t \in RepairWork
  BY DEF IInv, Placed, Ledger, Carding

\* The children of the card are cards of tickets that wait for its ticket.
LEMMA PlanRepairStep ==
  ASSUME IInv, Next, NEW t \in Tickets, PlanRepair(t)
  PROVE  IInv'
  <1>1. /\ pc = Idle /\ pc' = <<"make", t>> /\ t \in RepairWork
        /\ plan' = IF plan[t].open THEN plan
                   ELSE [plan EXCEPT ![t] = [open |-> TRUE, children |-> Children(Current(t))]]
        /\ UNCHANGED <<state, tries, bound, card, intent, finished, graph, released, claim, boardVars, crashes>>
    BY DEF PlanRepair, Reconciled, Clear, Unconfined, Quiet, Goto
  <1>2. Children(Current(t)) \subseteq Cards
    BY DEF Children
  <1>3. /\ plan' \in [Tickets -> [open : BOOLEAN, children : SUBSET Cards]]
        /\ \A u \in Tickets : u # t => plan'[u] = plan[u]
        /\ plan'[t].open
        /\ plan'[t] = plan[t] \/ (~plan[t].open /\ plan'[t].children = Children(Current(t)))
    BY <1>1, <1>2 DEF IInv, TypeOK
  <1>4. TypeOK'
    BY <1>1, <1>3 DEF IInv, TypeOK
  <1>5. UNCHANGED <<card, released, graph, parents, status, state, tries, intent, finished, bound>>
    BY <1>1
  <1>6. Ledger'
    <2>1. ReleasedAsLinked'
      BY <1>5, ReleasedStays
    <2>2. Admitted' /\ Accepted' /\ Links'
      BY <1>5 DEF IInv, Ledger, Admitted, Accepted, Links, Met, Current
    <2>3. Carding'
      <3>1. RepairWork' = RepairWork
        BY <1>5 DEF RepairWork
      <3>2. \A u \in Tickets : plan[u].open => plan'[u].open
        BY <1>3
      <3>3. \A u \in Tickets : plan'[u].open => u \in RepairWork
        BY <1>1, <1>3 DEF IInv, Ledger, Carding
      <3>4. QED
        BY <1>5, <3>1, <3>2, <3>3 DEF IInv, Ledger, Carding
    <2>4. Planned'
      <3>1. ASSUME NEW d \in Children(Current(t)), ~plan[t].open
            PROVE  t \in Deps[d[1]] /\ d[1] \in bound /\ d[2] <= card[d[1]]
        <4>1. d \in Cards /\ Current(t) \in parents[d] /\ d = <<d[1], d[2]>> /\ d[1] \in Tickets /\ d[2] \in 1..MaxTries
          BY CardsAre DEF Children, IInv
        <4>2. Current(t)[1] = t /\ Current(t)[2] = card[t]
          BY DEF Current
        <4>3. \/ t \in Deps[d[1]] /\ d[1] \in bound /\ d[2] <= card[d[1]]
              \/ t = d[1] /\ card[t] < d[2]
          BY <4>1, <4>2 DEF IInv, Ledger, Links
        <4>4. CASE t = d[1] /\ card[t] < d[2]
          <5>1. parents[<<t, d[2]>>] = {}
            BY <3>1, <4>1, <4>4 DEF IInv, Ledger, Carding
          <5>2. QED
            BY <4>1, <4>4, <5>1
        <4>5. QED
          BY <4>3, <4>4
      <3>2. QED
        BY <1>3, <1>5, <3>1 DEF IInv, Ledger, Planned
    <2>5. QED
      BY <2>1, <2>2, <2>3, <2>4 DEF Ledger
  <1>7. Runs'
    BY <1>5, RunsStay, <1>1
  <1>8. Placed'
    BY <1>1, <1>3 DEF IInv, Placed, At
  <1>9. Unbroken'
    BY <1>1, UnbrokenMoves DEF At, Idle
  <1>10. KeptParked'
    BY <1>1, <1>5, KeptStays
  <1>11. QED
    BY <1>4, <1>6, <1>7, <1>8, <1>9, <1>10 DEF IInv

\* The new card hangs below the old one.
LEMMA MakeCardStep ==
  ASSUME IInv, Next, NEW t \in Tickets, MakeCard(t)
  PROVE  IInv'
  <1>1. /\ pc = <<"make", t>> /\ pc' = <<"move", t>>
        /\ UNCHANGED <<ledgerVars, fresh, last, tree, prepared, crashes>>
    BY DEF MakeCard, At, Goto
  <1>2. plan[t].open /\ t \in RepairWork
    BY <1>1, Replacing
  <1>3. /\ tries[t] \in 1..MaxTries /\ card[t] < tries[t] /\ card[t] \in 1..MaxTries
        /\ Replacement(t) \in Cards /\ Replacement(t) = <<t, tries[t]>>
        /\ \A u \in Tickets : Replacement(t) # Current(u) /\ Replacement(t) # Original(u)
    BY <1>2, Repaired
  <1>4. Current(t) \in Cards /\ Current(t)[1] = t /\ Current(t)[2] = card[t]
    BY CardsAre DEF IInv, Current
  <1>5. /\ \/ status' = status
           \/ status' = [status EXCEPT ![Replacement(t)] = "blocked"]
        /\ \/ parents' = parents
           \/ \E X \in SUBSET {Current(t)} : /\ parents' = [parents EXCEPT ![Replacement(t)] = X]
                                             /\ \A q \in X : status[q] = "done"
    <2>1. CASE status[Replacement(t)] # "none"
      BY <2>1 DEF MakeCard
    <2>2. CASE status[Replacement(t)] = "none"
      <3> DEFINE X == IF status[Current(t)] = "done" THEN {Current(t)} ELSE {}
      <3>1. X \in SUBSET {Current(t)} /\ \A q \in X : status[q] = "done"
        OBVIOUS
      <3>2. /\ status' = [status EXCEPT ![Replacement(t)] = "blocked"]
            /\ parents' = [parents EXCEPT ![Replacement(t)] = X]
        BY <2>2 DEF MakeCard, SetStatus
      <3> HIDE DEF X
      <3>3. QED
        BY <3>1, <3>2
    <2>3. QED
      BY <2>1, <2>2
  <1>6. /\ status' \in [Cards -> {"none", "blocked", "ready", "running", "review", "done"}]
        /\ \A c \in Cards : c # Replacement(t) => status'[c] = status[c]
        /\ \A c \in Cards : status'[c] \in {"ready", "running"} => status'[c] = status[c]
    <2>1. CASE status' = status
      BY <2>1 DEF IInv, TypeOK
    <2>2. CASE status' = [status EXCEPT ![Replacement(t)] = "blocked"]
      BY <1>3, <2>2 DEF IInv, TypeOK
    <2>3. QED
      BY <1>5, <2>1, <2>2
  <1>7. /\ parents' \in [Cards -> SUBSET Cards]
        /\ \A c \in Cards : c # Replacement(t) => parents'[c] = parents[c]
        /\ \A q \in parents'[Replacement(t)] :
              q \in parents[Replacement(t)] \/ (q = Current(t) /\ status[q] = "done")
    <2>1. CASE parents' = parents
      BY <2>1 DEF IInv, TypeOK
    <2>2. CASE parents' # parents
      <3>1. PICK X \in SUBSET {Current(t)} : /\ parents' = [parents EXCEPT ![Replacement(t)] = X]
                                             /\ \A q \in X : status[q] = "done"
        BY <1>5, <2>2
      <3>2. X \in SUBSET Cards
        BY <1>4
      <3>3. QED
        BY <1>3, <3>1, <3>2 DEF IInv, TypeOK
    <2>3. QED
      BY <2>1, <2>2
  <1>8. TypeOK'
    BY <1>1, <1>6, <1>7 DEF IInv, TypeOK
  <1>9. UNCHANGED <<card, released, graph, state, tries, intent, finished, bound, plan, claim>>
    BY <1>1
  <1>10. \A u \in Tickets : /\ Current(u)' = Current(u) /\ Original(u)' = Original(u) /\ Current(u) \in Cards
                            /\ Original(u) \in Cards /\ Identity(u)' = Identity(u)
    BY <1>9, CardsAre DEF Current, Original, Identity, Parents, IInv
  <1>11. Ledger'
    <2>1. ReleasedAsLinked'
      <3>1. released \subseteq Tickets
        BY DEF IInv, TypeOK
      <3>2. \A u \in released : parents'[Original(u)] = parents[Original(u)]
        BY <1>3, <1>7, <1>10, <3>1
      <3>3. QED
        BY <1>9, <3>2, ReleasedStays
    <2>2. Admitted'
      <3>1. \A u \in Tickets, n \in 1..MaxTries : <<u, n>> \in Cards
        BY DEF Cards
      <3>2. ASSUME NEW u \in Tickets, state[u] # "draft"
            PROVE  \A q \in parents'[Current(u)] : status'[q] = "done"
        <4>1. parents'[Current(u)] = parents[Current(u)] /\ parents[Current(u)] \subseteq Cards
          BY <1>3, <1>7, <1>10 DEF IInv, TypeOK
        <4>2. QED
          BY <3>2, <4>1, DoneStays DEF IInv, Ledger, Admitted
      <3>3. QED
        BY <1>6, <1>9, <1>10, <3>1, <3>2, MetStays DEF IInv, Ledger, Admitted
    <2>3. Accepted'
      BY <1>9, <1>10, DoneStays DEF IInv, Ledger, Accepted
    <2>4. Carding'
      <3>1. ASSUME NEW u \in Tickets, NEW n \in 1..MaxTries, n > card[u]
            PROVE  \/ status'[<<u, n>>] = "none" /\ parents'[<<u, n>>] = {}
                   \/ plan[u].open /\ n = tries[u]
        <4>1. <<u, n>> \in Cards
          BY DEF Cards
        <4>2. CASE <<u, n>> = Replacement(t)
          BY <1>2, <1>3, <4>2
        <4>3. CASE <<u, n>> # Replacement(t)
          BY <1>6, <1>7, <3>1, <4>1, <4>3 DEF IInv, Ledger, Carding
        <4>4. QED
          BY <4>2, <4>3
      <3>2. RepairWork' = RepairWork
        BY <1>9 DEF RepairWork
      <3>3. QED
        BY <1>9, <3>1, <3>2 DEF IInv, Ledger, Carding
    <2>5. Links'
      <3>1. ASSUME NEW u \in Tickets, NEW n \in 1..MaxTries, NEW q \in parents'[<<u, n>>]
            PROVE  \/ q[1] \in Deps[u] /\ u \in bound /\ n <= card[u]
                   \/ q[1] = u /\ q[2] < n /\ status'[q] = "done"
        <4>1. <<u, n>> \in Cards
          BY DEF Cards
        <4>2. CASE q \in parents[<<u, n>>]
          <5>1. q \in Cards
            BY <4>1, <4>2 DEF IInv, TypeOK
          <5>2. QED
            BY <4>2, <5>1, DoneStays DEF IInv, Ledger, Links
        <4>3. CASE q \notin parents[<<u, n>>]
          <5>1. <<u, n>> = Replacement(t) /\ q = Current(t) /\ status[q] = "done"
            BY <1>7, <3>1, <4>1, <4>3
          <5>2. u = t /\ n = tries[t] /\ status'[q] = "done"
            BY <1>3, <1>4, <5>1, DoneStays
          <5>3. QED
            BY <1>3, <1>4, <5>1, <5>2
        <4>4. QED
          BY <4>2, <4>3
      <3>2. QED
        BY <1>9, <3>1 DEF Links
    <2>6. Planned'
      BY <1>9 DEF IInv, Ledger, Planned
    <2>7. QED
      BY <2>1, <2>2, <2>3, <2>4, <2>5, <2>6 DEF Ledger
  <1>12. Runs'
    BY <1>1, <1>6, RunsStay
  <1>13. Placed'
    BY <1>1, <1>2, <1>9 DEF IInv, Placed, At
  <1>14. Unbroken'
    BY <1>1, <1>6, UnbrokenMoves DEF At
  <1>15. KeptParked'
    BY <1>1, <1>6, <1>9, <1>10, KeptStays
  <1>16. QED
    BY <1>8, <1>11, <1>12, <1>13, <1>14, <1>15 DEF IInv

\* A child is the card of a draft: its ticket waits for one that is under repair.
LEMMA MoveChildStep ==
  ASSUME IInv, Next, NEW t \in Tickets, MoveChild(t)
  PROVE  IInv'
  <1>1. /\ pc = <<"move", t>> /\ UNCHANGED <<ledgerVars, fresh, last, tree, prepared, crashes>>
    BY DEF MoveChild, At
  <1>2. plan[t].open /\ t \in RepairWork
    BY <1>1, Replacing
  <1>3. /\ state[t] = "repairing" /\ Replacement(t) \in Cards /\ Replacement(t)[1] = t
    BY <1>2, Repaired
  <1>4. \E d \in Unmoved(t) : \/ pc' = Idle /\ UNCHANGED <<status, parents>>
                              \/ SetStatus(d, "blocked") /\ UNCHANGED <<parents, pc>>
                              \/ /\ parents' = [parents EXCEPT ![d] = @ \cup {Replacement(t)}]
                                 /\ UNCHANGED <<status, pc>>
                              \/ /\ parents' = [parents EXCEPT ![d] = @ \ {Current(t)}]
                                 /\ UNCHANGED <<status, pc>>
    BY DEF MoveChild, Abandon
  <1>5. PICK d \in Unmoved(t) : \/ pc' = Idle /\ UNCHANGED <<status, parents>>
                                \/ SetStatus(d, "blocked") /\ UNCHANGED <<parents, pc>>
                                \/ /\ parents' = [parents EXCEPT ![d] = @ \cup {Replacement(t)}]
                                   /\ UNCHANGED <<status, pc>>
                                \/ /\ parents' = [parents EXCEPT ![d] = @ \ {Current(t)}]
                                   /\ UNCHANGED <<status, pc>>
    BY <1>4
  <1>6. /\ d \in Cards /\ d[1] \in Tickets /\ d[2] \in 1..MaxTries /\ d = <<d[1], d[2]>>
        /\ t \in Deps[d[1]] /\ d[1] \in bound /\ d[2] <= card[d[1]] /\ card[d[1]] \in 1..MaxTries
    <2>1. d \in plan[t].children /\ d \in Cards
      BY DEF Unmoved, IInv, TypeOK
    <2>2. QED
      BY <1>2, <2>1, CardsAre DEF IInv, Ledger, Planned
  <1>7. state[d[1]] = "draft" /\ d[1] \notin released
    BY <1>3, <1>6 DEF IInv, Ledger, Admitted, Met
  <1>8. CASE UNCHANGED <<status, parents>>
    <2>1. pc' = pc \/ pc' = Idle
      BY <1>5
    <2>2. TypeOK'
      BY <1>1, <1>8, <2>1 DEF IInv, TypeOK, Idle
    <2>3. Ledger'
      BY <1>1, <1>8, LedgerStays
    <2>4. Runs'
      BY <1>1, <1>8, RunsStay
    <2>5. Placed'
      <3>1. CASE pc' = Idle
        BY <1>1, <3>1, PlacedIdle DEF IInv, Placed
      <3>2. CASE pc' = pc
        BY <1>1, <1>8, <3>2, PlacedStays
      <3>3. QED
        BY <2>1, <3>1, <3>2
    <2>6. Unbroken'
      BY <1>1, <1>8, <2>1, UnbrokenMoves DEF At, Idle
    <2>7. KeptParked'
      BY <1>1, <1>8, KeptStays
    <2>8. QED
      BY <2>2, <2>3, <2>4, <2>5, <2>6, <2>7 DEF IInv
  <1>9. CASE SetStatus(d, "blocked") /\ UNCHANGED <<parents, pc>>
    <2>1. /\ status' \in [Cards -> {"none", "blocked", "ready", "running", "review", "done"}]
          /\ \A c \in Cards : status'[c] \in {"ready", "running"} => status'[c] = status[c]
      BY <1>6, <1>9 DEF IInv, TypeOK, SetStatus
    <2>2. TypeOK'
      BY <1>1, <1>9, <2>1 DEF IInv, TypeOK
    <2>3. Ledger'
      <3>1. SetStatus(<<d[1], d[2]>>, "blocked") /\ ~(d[2] > card[d[1]])
        BY <1>6, <1>9
      <3>2. QED
        BY <1>1, <1>6, <1>9, <3>1, OneCard
    <2>4. Runs'
      BY <1>1, <2>1, RunsStay
    <2>5. Placed'
      BY <1>1, <1>9, PlacedStays
    <2>6. Unbroken'
      BY <1>1, <1>9, <2>1, UnbrokenMoves DEF At
    <2>7. KeptParked'
      BY <1>1, <2>1, CardsAre, KeptStays DEF IInv
    <2>8. QED
      BY <2>2, <2>3, <2>4, <2>5, <2>6, <2>7 DEF IInv
  <1>10. CASE UNCHANGED <<status, pc>> /\ \E X \in SUBSET Cards : /\ parents' = [parents EXCEPT ![d] = X]
                                                                 /\ X \subseteq parents[d] \cup {Replacement(t)}
    <2>1. PICK X \in SUBSET Cards : parents' = [parents EXCEPT ![d] = X] /\ X \subseteq parents[d] \cup {Replacement(t)}
      BY <1>10
    <2>2. TypeOK'
      <3>1. parents' \in [Cards -> SUBSET Cards]
        BY <1>6, <2>1 DEF IInv, TypeOK
      <3>2. QED
        BY <1>1, <1>10, <3>1 DEF IInv, TypeOK
    <2>3. Ledger'
      <3>1. \A q \in X : q \in parents[d] \/ q[1] \in Deps[d[1]]
        BY <1>3, <1>6, <2>1
      <3>2. QED
        BY <1>1, <1>6, <1>7, <1>10, <2>1, <3>1, LinkMoves
    <2>4. Runs'
      BY <1>1, <1>10, RunsStay
    <2>5. Placed'
      BY <1>1, <1>2, <1>10 DEF IInv, Placed, At
    <2>6. Unbroken'
      BY <1>1, <1>10, UnbrokenMoves DEF At
    <2>7. KeptParked'
      BY <1>1, <1>10, KeptStays
    <2>8. QED
      BY <2>2, <2>3, <2>4, <2>5, <2>6, <2>7 DEF IInv
  <1>11. QED
    <2>1. parents[d] \in SUBSET Cards
      BY <1>6 DEF IInv, TypeOK
    <2>2. parents[d] \cup {Replacement(t)} \in SUBSET Cards /\ parents[d] \ {Current(t)} \in SUBSET Cards
      BY <1>3, <2>1
    <2>3. CASE parents' = [parents EXCEPT ![d] = @ \cup {Replacement(t)}] /\ UNCHANGED <<status, pc>>
      BY <1>10, <2>2, <2>3
    <2>4. CASE parents' = [parents EXCEPT ![d] = @ \ {Current(t)}] /\ UNCHANGED <<status, pc>>
      BY <1>10, <2>2, <2>4
    <2>5. QED
      BY <1>5, <1>8, <1>9, <2>3, <2>4

\* The only parent of the new card is the old one, which is done.
LEMMA FreeCardStep ==
  ASSUME IInv, Next, NEW t \in Tickets, FreeCard(t)
  PROVE  IInv'
  <1>1. /\ pc = <<"move", t>> /\ pc' \in {Idle, <<"revise", t>>}
        /\ UNCHANGED <<ledgerVars, parents, fresh, last, tree, prepared, crashes>>
        /\ status' = status \/ SetStatus(Replacement(t), Unblocked(Replacement(t)))
    BY DEF FreeCard, At, Goto, Abandon
  <1>2. plan[t].open /\ t \in RepairWork
    BY <1>1, Replacing
  <1>3. /\ tries[t] \in 1..MaxTries /\ card[t] < tries[t] /\ card[t] \in 1..MaxTries /\ Met(t)
        /\ Replacement(t) \in Cards /\ Replacement(t) = <<t, tries[t]>> /\ state[t] = "repairing"
        /\ \A u \in Tickets : Replacement(t) # Current(u)
    BY <1>2, Repaired
  <1>4. Unblocked(Replacement(t)) = "ready"
    <2>1. ~(tries[t] <= card[t])
      BY <1>3
    <2>2. \A q \in parents[<<t, tries[t]>>] : status[q] = "done"
      BY <1>3, <2>1 DEF IInv, Ledger, Links
    <2>3. QED
      BY <1>3, <2>2 DEF Unblocked
  <1>5. /\ status' \in [Cards -> {"none", "blocked", "ready", "running", "review", "done"}]
        /\ \A c \in Cards : c # Replacement(t) => status'[c] = status[c]
        /\ \A c \in Cards : status'[c] = "running" => status[c] = "running"
    <2>1. CASE status' = status
      BY <2>1 DEF IInv, TypeOK
    <2>2. CASE status' = [status EXCEPT ![Replacement(t)] = "ready"]
      BY <1>3, <2>2 DEF IInv, TypeOK
    <2>3. QED
      BY <1>1, <1>4, <2>1, <2>2 DEF SetStatus
  <1>6. TypeOK'
    BY <1>1, <1>5 DEF IInv, TypeOK, Idle
  <1>7. Ledger'
    <2>1. CASE status' = status
      BY <1>1, <2>1, LedgerStays
    <2>2. CASE SetStatus(<<t, tries[t]>>, "ready")
      BY <1>1, <1>2, <1>3, <2>2, OneCard
    <2>3. QED
      BY <1>1, <1>3, <1>4, <2>1, <2>2
  <1>8. Runs'
    BY <1>1, <1>5, RunsStay
  <1>9. Placed'
    <2>1. CASE pc' = Idle
      BY <1>1, <2>1, PlacedIdle DEF IInv, Placed
    <2>2. CASE pc' = <<"revise", t>>
      BY <1>1, <1>2, <2>2 DEF IInv, Placed, At
    <2>3. QED
      BY <1>1, <2>1, <2>2
  <1>10. Unbroken'
    <2>1. crashes = 0 => t \in prepared
      BY <1>1, <1>3 DEF IInv, Unbroken, At
    <2>2. Replacement(t)[1] = t
      BY <1>3
    <2>3. \A c \in Cards : status'[c] \in {"ready", "running"} =>
             status[c] \in {"ready", "running"} \/ (crashes = 0 => c[1] \in prepared)
      BY <1>5, <2>1, <2>2
    <2>4. QED
      BY <1>1, <2>3, UnbrokenMoves DEF At, Idle
  <1>11. KeptParked'
    BY <1>1, <1>3, <1>5, CardsAre, KeptStays DEF IInv
  <1>12. QED
    BY <1>6, <1>7, <1>8, <1>9, <1>10, <1>11 DEF IInv

LEMMA ReviseGraphsStep ==
  ASSUME IInv, Next, NEW t \in Tickets, ReviseGraphs(t)
  PROVE  IInv'
  <1>1. /\ pc = <<"revise", t>> /\ pc' \in {Idle, <<"record", t>>}
        /\ UNCHANGED <<state, tries, bound, card, intent, finished, released, claim, plan, boardVars, crashes>>
        /\ \/ graph' = graph
           \/ /\ \A u \in Graphed(t) : u \notin released
              /\ graph' = [u \in Tickets |-> IF u \in Graphed(t)
                              THEN [graph[u] EXCEPT !.parents = (@ \ {Current(t)}) \cup {Replacement(t)}]
                              ELSE graph[u]]
    BY DEF ReviseGraphs, At, Goto, Abandon
  <1>2. plan[t].open /\ Replacement(t) \in Cards
    BY <1>1, Replacing, Repaired
  <1>3. graph' \in [Tickets -> Graphs]
    <2>1. graph \in [Tickets -> Graphs]
      BY DEF IInv, TypeOK
    <2>2. ASSUME NEW u \in Graphed(t)
          PROVE  [graph[u] EXCEPT !.parents = (@ \ {Current(t)}) \cup {Replacement(t)}] \in Graphs
      <3>1. graph[u].child \in Cards /\ u \in Tickets
        BY DEF Graphed, IInv, TypeOK
      <3>2. NoGraph.child \notin Cards
        BY DEF NoGraph, Cards
      <3>3. graph[u] \in [child : Cards, parents : SUBSET Cards]
        BY <2>1, <3>1, <3>2 DEF Graphs
      <3>4. QED
        BY <1>2, <3>3 DEF Graphs
    <2>3. QED
      BY <1>1, <2>1, <2>2
  <1>4. TypeOK'
    BY <1>1, <1>3 DEF IInv, TypeOK, Idle
  <1>5. UNCHANGED <<card, released, parents, status, state, tries, intent, finished, bound, plan>>
    BY <1>1
  <1>6. Ledger'
    <2>1. \A u \in released : graph'[u] = graph[u]
      <3>1. released \subseteq Tickets
        BY DEF IInv, TypeOK
      <3>2. QED
        BY <1>1, <3>1
    <2>2. ReleasedAsLinked'
      BY <1>5, <2>1, ReleasedStays
    <2>3. Admitted' /\ Accepted' /\ Carding' /\ Links' /\ Planned'
      BY <1>5 DEF IInv, Ledger, Admitted, Accepted, Carding, Links, Planned, Met, Current, RepairWork
    <2>4. QED
      BY <2>2, <2>3 DEF Ledger
  <1>7. Runs'
    BY <1>1, RunsStay
  <1>8. Placed'
    <2>1. CASE pc' = Idle
      BY <1>1, <2>1, PlacedIdle DEF IInv, Placed
    <2>2. CASE pc' = <<"record", t>>
      BY <1>1, <1>2, <2>2 DEF IInv, Placed, At
    <2>3. QED
      BY <1>1, <2>1, <2>2
  <1>9. Unbroken'
    BY <1>1, UnbrokenMoves DEF At, Idle
  <1>10. KeptParked'
    BY <1>1, KeptStays
  <1>11. QED
    BY <1>4, <1>6, <1>7, <1>8, <1>9, <1>10 DEF IInv

\* Nobody who waits for a ticket under repair was released: its new card changes no graph
\* that was recorded.
LEMMA RecordRepairStep ==
  ASSUME IInv, Next, NEW t \in Tickets, RecordRepair(t)
  PROVE  IInv'
  <1>1. /\ pc = <<"record", t>> /\ pc' = Idle
        /\ card' = [card EXCEPT ![t] = tries[t]] /\ plan' = [plan EXCEPT ![t] = NoPlan]
        /\ UNCHANGED <<state, tries, bound, intent, finished, graph, released, claim, boardVars, crashes>>
    BY DEF RecordRepair, At, Abandon
  <1>2. plan[t].open /\ t \in RepairWork
    BY <1>1, Replacing
  <1>3. /\ tries[t] \in 1..MaxTries /\ card[t] < tries[t] /\ card[t] \in 1..MaxTries /\ Met(t)
        /\ Replacement(t) \in Cards /\ Replacement(t) = <<t, tries[t]>> /\ state[t] = "repairing"
    BY <1>2, Repaired
  <1>4. /\ card'[t] = tries[t] /\ \A u \in Tickets : u # t => card'[u] = card[u]
        /\ card' \in [Tickets -> 1..MaxTries] /\ ~plan'[t].open
        /\ \A u \in Tickets : u # t => plan'[u] = plan[u]
        /\ plan' \in [Tickets -> [open : BOOLEAN, children : SUBSET Cards]]
        /\ \A u \in Tickets : card[u] <= card'[u] /\ card[u] \in Int /\ card'[u] \in Int
    BY <1>1, <1>3 DEF IInv, TypeOK, NoPlan
  <1>5. TypeOK'
    BY <1>1, <1>4 DEF IInv, TypeOK, Idle
  <1>6. UNCHANGED <<released, graph, parents, status, state, tries, intent, finished, bound>>
    BY <1>1
  <1>7. \A u \in Tickets : u # t => Current(u)' = Current(u)
    BY <1>4 DEF Current
  <1>8. Current(t)' = Replacement(t)
    BY <1>3, <1>4 DEF Current
  <1>9. \A q \in parents[Replacement(t)] : status[q] = "done"
    <2>1. ~(tries[t] <= card[t])
      BY <1>3
    <2>2. \A q \in parents[<<t, tries[t]>>] : status[q] = "done"
      BY <1>3, <2>1 DEF IInv, Ledger, Links
    <2>3. QED
      BY <1>3, <2>2
  <1>10. Ledger'
    <2>1. ReleasedAsLinked'
      <3>1. ASSUME NEW u \in released
            PROVE  u \in Tickets /\ t \notin Deps[u] /\ Deps[u] \subseteq Tickets
        <4>1. u \in Tickets /\ state[u] # "draft"
          BY DEF IInv, TypeOK, Ledger, Admitted
        <4>2. QED
          BY <1>3, <4>1, CardsAre DEF IInv, Ledger, Admitted, Met
      <3>2. \A u \in released : Parents(u)' = Parents(u) /\ Original(u)' = Original(u)
        BY <1>7, <3>1 DEF Parents, Original
      <3>3. \A u \in released : graph[u].parents = Parents(u) /\ parents[Original(u)] = Parents(u)
        BY DEF IInv, Ledger, ReleasedAsLinked, Parents
      <3>4. SUFFICES ASSUME NEW u \in released'
                     PROVE  graph'[u].parents = Parents(u)' /\ parents'[Original(u)'] = Parents(u)'
        BY DEF ReleasedAsLinked, Parents
      <3>5. QED
        BY <1>6, <3>2, <3>3, <3>4
    <2>2. Admitted'
      <3>1. \A u \in Tickets : state[u] # "draft" => \A q \in parents[Current(u)'] : status[q] = "done"
        BY <1>7, <1>8, <1>9 DEF IInv, Ledger, Admitted
      <3>2. QED
        BY <1>6, <3>1, MetStays DEF IInv, Ledger, Admitted
    <2>3. Accepted'
      BY <1>3, <1>6, <1>7 DEF IInv, Ledger, Accepted
    <2>4. Carding'
      <3>1. \A u \in Tickets : u # t => (u \in RepairWork' <=> u \in RepairWork)
        BY <1>4, <1>6 DEF RepairWork
      <3>2. ASSUME NEW n \in 1..MaxTries, n > tries[t]
            PROVE  status[<<t, n>>] = "none" /\ parents[<<t, n>>] = {}
        BY <1>3, <3>2 DEF IInv, Ledger, Carding
      <3>3. QED
        BY <1>3, <1>4, <1>6, <3>1, <3>2 DEF IInv, Ledger, Carding
    <2>5. Links'
      <3>1. ASSUME NEW u \in Tickets, NEW n \in 1..MaxTries, n <= card[u]
            PROVE  n <= card'[u]
        BY <1>4, <3>1
      <3>2. QED
        BY <1>6, <3>1 DEF IInv, Ledger, Links
    <2>6. Planned'
      <3>1. ASSUME NEW u \in Tickets, plan'[u].open, NEW d \in plan'[u].children
            PROVE  u \in Deps[d[1]] /\ d[1] \in bound /\ d[2] <= card'[d[1]]
        <4>1. plan[u].open /\ d \in plan[u].children /\ d \in Cards
          BY <1>4, <3>1 DEF IInv, TypeOK
        <4>2. d[1] \in Tickets /\ d[2] \in 1..MaxTries
          BY <4>1, CardsAre DEF IInv
        <4>3. u \in Deps[d[1]] /\ d[1] \in bound /\ d[2] <= card[d[1]]
          BY <4>1 DEF IInv, Ledger, Planned
        <4>4. QED
          BY <1>4, <4>2, <4>3
      <3>2. QED
        BY <1>6, <3>1 DEF Planned
    <2>7. QED
      BY <2>1, <2>2, <2>3, <2>4, <2>5, <2>6 DEF Ledger
  <1>11. Runs'
    BY <1>1, RunsStay
  <1>12. Placed'
    BY <1>1, PlacedIdle DEF IInv, Placed
  <1>13. Unbroken'
    BY <1>1, UnbrokenMoves DEF At, Idle
  <1>14. KeptParked'
    BY <1>1, <1>3, <1>6, <1>7 DEF IInv, KeptParked
  <1>15. QED
    BY <1>5, <1>10, <1>11, <1>12, <1>13, <1>14 DEF IInv

----------------------------------------------------------------------------
(* Hermes, the leases and the process that dies.                           *)

LEMMA DispatchStep ==
  ASSUME IInv, Next, NEW c \in Cards, Dispatch(c)
  PROVE  IInv'
  <1>1. /\ status[c] = "ready" /\ fresh[c]["review"] + fresh[c]["blocked"] + fresh[c]["done"] < MaxRuns
        /\ SetStatus(c, "running")
        /\ tree' = [tree EXCEPT ![c[1]] = IF @ = "absent" THEN "clean" ELSE @]
        /\ UNCHANGED <<ledgerVars, parents, fresh, last, prepared, pc, crashes>>
    BY DEF Dispatch
  <1>2. c[1] \in Tickets /\ c[2] \in 1..MaxTries /\ c = <<c[1], c[2]>>
    BY CardsAre DEF IInv
  <1>3. /\ status'[c] = "running" /\ \A d \in Cards : d # c => status'[d] = status[d]
        /\ status' \in [Cards -> {"none", "blocked", "ready", "running", "review", "done"}]
    BY <1>1 DEF IInv, TypeOK, SetStatus
  <1>4. /\ tree' \in [Tickets -> {"absent", "clean", "worked"}]
        /\ \A u \in Tickets : tree'[u] = "worked" <=> tree[u] = "worked"
    BY <1>1, <1>2 DEF IInv, TypeOK
  <1>5. TypeOK'
    BY <1>1, <1>3, <1>4 DEF IInv, TypeOK
  <1>6. Ledger'
    <2>1. Met(c[1]) /\ (c[2] > card[c[1]] => plan[c[1]].open /\ c[2] = tries[c[1]])
      BY <1>1, <1>2 DEF IInv, Ledger, Admitted, Carding
    <2>2. SetStatus(<<c[1], c[2]>>, "running")
      BY <1>1, <1>2
    <2>3. QED
      BY <1>1, <1>2, <2>1, <2>2, OneCard
  <1>7. Runs'
    BY <1>1, <1>2, <1>3, <1>4, CardsAre DEF IInv, Runs
  <1>8. Placed'
    BY <1>1, PlacedStays
  <1>9. Unbroken'
    <2>1. ASSUME NEW u \in Tickets, NEW n \in 1..MaxTries, status'[<<u, n>>] \in {"ready", "running"}
          PROVE  status[<<u, n>>] \in {"ready", "running"}
      BY <1>1, <1>3, <2>1 DEF Cards
    <2>2. \A s, u : At(s, u)' <=> At(s, u)
      BY <1>1 DEF At
    <2>3. QED
      BY <1>1, <1>4, <2>1, <2>2 DEF IInv, Unbroken
  <1>10. KeptParked'
    BY <1>1, <1>3, CardsAre, KeptStays DEF IInv
  <1>11. QED
    BY <1>5, <1>6, <1>7, <1>8, <1>9, <1>10 DEF IInv

LEMMA FinishStep ==
  ASSUME IInv, Next, NEW c \in Cards, Finish(c)
  PROVE  IInv'
  <1>1. /\ status[c] = "running" /\ tree' = [tree EXCEPT ![c[1]] = "worked"]
        /\ UNCHANGED <<ledgerVars, parents, prepared, pc, crashes>>
    BY DEF Finish
  <1>2. PICK k \in Kinds : /\ SetStatus(c, k) /\ fresh' = [fresh EXCEPT ![c][k] = @ + 1]
                           /\ last' = [last EXCEPT ![c] = k]
    BY DEF Finish
  <1>3. c[1] \in Tickets /\ c[2] \in 1..MaxTries /\ c = <<c[1], c[2]>> /\ k \in Kind /\ k \in {"review", "blocked", "done"}
    BY CardsAre, KindsAssumption DEF IInv, Kind
  <1>4. /\ status'[c] = k /\ \A d \in Cards : d # c => status'[d] = status[d]
        /\ status' \in [Cards -> {"none", "blocked", "ready", "running", "review", "done"}]
    BY <1>2, <1>3 DEF IInv, TypeOK, SetStatus
  <1>5. /\ tree' \in [Tickets -> {"absent", "clean", "worked"}] /\ tree'[c[1]] = "worked"
        /\ \A u \in Tickets : u # c[1] => tree'[u] = tree[u]
    BY <1>1, <1>3 DEF IInv, TypeOK
  <1>6. /\ fresh' \in [Cards -> [Kind -> 0..MaxRuns]] /\ \A d \in Cards : d # c => fresh'[d] = fresh[d]
        /\ last' \in [Cards -> Kind \cup {"none"}]
    <2> DEFINE r == [fresh[c] EXCEPT ![k] = @ + 1]
    <2>1. fresh \in [Cards -> [Kind -> 0..MaxRuns]] /\ MaxRuns \in Nat
      BY BoundsAssumption DEF IInv, TypeOK
    <2>2. fresh[c] \in [Kind -> 0..MaxRuns]
      BY <2>1
    <2>3. fresh[c][k] + 1 \in 0..MaxRuns
      <3>1. fresh[c]["review"] + fresh[c]["blocked"] + fresh[c]["done"] < MaxRuns
        BY <1>1 DEF IInv, Runs
      <3>2. /\ fresh[c]["review"] \in 0..MaxRuns /\ fresh[c]["blocked"] \in 0..MaxRuns
            /\ fresh[c]["done"] \in 0..MaxRuns
        BY <2>2 DEF Kind
      <3>3. QED
        BY <1>3, <2>1, <3>1, <3>2
    <2>4. r \in [Kind -> 0..MaxRuns]
      BY <1>3, <2>2, <2>3
    <2>5. fresh' = [fresh EXCEPT ![c] = r]
      BY <1>2
    <2>6. last' \in [Cards -> Kind \cup {"none"}]
      BY <1>2, <1>3 DEF IInv, TypeOK
    <2> HIDE DEF r
    <2>7. QED
      BY <2>1, <2>4, <2>5, <2>6
  <1>7. TypeOK'
    BY <1>1, <1>4, <1>5, <1>6 DEF IInv, TypeOK
  <1>8. Ledger'
    <2>1. c[2] > card[c[1]] => plan[c[1]].open /\ c[2] = tries[c[1]]
      BY <1>1, <1>3 DEF IInv, Ledger, Carding
    <2>2. SetStatus(<<c[1], c[2]>>, k)
      BY <1>2, <1>3
    <2>3. k \notin {"ready", "running"}
      BY <1>3
    <2>4. QED
      BY <1>1, <1>3, <2>1, <2>2, <2>3, OneCard
  <1>9. Runs'
    <2>1. \A d \in Cards : d[1] \in Tickets
      BY CardsAre DEF IInv
    <2>2. ASSUME NEW d \in Cards, NEW x \in Kind, fresh'[d][x] > 0
          PROVE  tree'[d[1]] = "worked"
      BY <1>5, <1>6, <2>1, <2>2 DEF IInv, Runs
    <2>3. ASSUME NEW d \in Cards, status'[d] = "running"
          PROVE  fresh'[d]["review"] + fresh'[d]["blocked"] + fresh'[d]["done"] < MaxRuns
      <3>1. d # c
        BY <1>3, <1>4, <2>3
      <3>2. QED
        BY <1>4, <1>6, <2>3, <3>1 DEF IInv, Runs
    <2>4. QED
      BY <2>2, <2>3 DEF Runs
  <1>10. Placed'
    BY <1>1, PlacedStays
  <1>11. Unbroken'
    <2>1. ASSUME NEW u \in Tickets, NEW n \in 1..MaxTries, status'[<<u, n>>] \in {"ready", "running"}
          PROVE  status[<<u, n>>] \in {"ready", "running"}
      <3>1. <<u, n>> \in Cards /\ <<u, n>> # c
        BY <1>3, <1>4, <2>1 DEF Cards
      <3>2. QED
        BY <1>4, <2>1, <3>1
    <2>2. \A s, u : At(s, u)' <=> At(s, u)
      BY <1>1 DEF At
    <2>3. crashes = 0 => c[1] \in prepared
      BY <1>1, <1>3 DEF IInv, Unbroken
    <2>4. QED
      BY <1>1, <1>5, <2>1, <2>2, <2>3 DEF IInv, Unbroken
  <1>12. KeptParked'
    <2>1. \A d \in Cards : status'[d] \in {"ready", "running"} => status[d] \in {"ready", "running"}
      BY <1>1, <1>4
    <2>2. QED
      BY <1>1, <2>1, CardsAre, KeptStays DEF IInv
  <1>13. QED
    BY <1>7, <1>8, <1>9, <1>10, <1>11, <1>12 DEF IInv

LEMMA LapseStep ==
  ASSUME IInv, Next, NEW t \in Tickets, Lapse(t)
  PROVE  IInv'
  <1>1. CASE LapseIntent(t)
    <2>1. /\ ~At("ack", t) /\ intent' = [intent EXCEPT ![t].held = FALSE]
          /\ UNCHANGED <<state, tries, bound, card, finished, graph, released, claim, plan, boardVars, pc, crashes>>
      BY <1>1 DEF LapseIntent
    <2>2. /\ intent' \in [Tickets -> [to : {"none", "ready", "review", "done"}, held : BOOLEAN]]
          /\ \A u \in Tickets : intent'[u].to = intent[u].to /\ (u # t => intent'[u] = intent[u])
          /\ \A u \in Tickets : intent'[u].held => intent[u].held
      <3> DEFINE r == [intent[t] EXCEPT !.held = FALSE]
      <3>1. intent \in [Tickets -> [to : {"none", "ready", "review", "done"}, held : BOOLEAN]]
        BY DEF IInv, TypeOK
      <3>2. intent' = [intent EXCEPT ![t] = r]
        BY <2>1
      <3>3. /\ r \in [to : {"none", "ready", "review", "done"}, held : BOOLEAN]
            /\ r.to = intent[t].to /\ r.held = FALSE
        BY <3>1
      <3> HIDE DEF r
      <3>4. QED
        BY <3>1, <3>2, <3>3
    <2>3. TypeOK'
      BY <2>1, <2>2 DEF IInv, TypeOK
    <2>4. UNCHANGED <<card, released, graph, parents, status, state, tries, plan, finished, bound>>
      BY <2>1
    <2>5. \A u : Current(u)' = Current(u)
      BY <2>4 DEF Current
    <2>6. Ledger'
      <3>1. ReleasedAsLinked'
        BY <2>4, ReleasedStays
      <3>2. Admitted' /\ Accepted'
        BY <2>2, <2>4, <2>5, MetStays DEF IInv, Ledger, Admitted, Accepted
      <3>3. Carding' /\ Links' /\ Planned'
        BY <2>4 DEF IInv, Ledger, Carding, Links, Planned, RepairWork
      <3>4. QED
        BY <3>1, <3>2, <3>3 DEF Ledger
    <2>7. Runs'
      BY <2>1, RunsStay
    <2>8. Placed'
      <3>1. \A u \in Tickets : At("ack", u) => intent'[u] = intent[u]
        BY <2>1, <2>2
      <3>2. QED
        BY <2>1, <2>4, <3>1, PlacedStays
    <2>9. Unbroken'
      <3>1. \A s, u : At(s, u)' <=> At(s, u)
        BY <2>1 DEF At
      <3>2. QED
        BY <2>1, <2>2, <3>1 DEF IInv, Unbroken
    <2>10. KeptParked'
      BY <2>1, <2>4, KeptStays
    <2>11. QED
      BY <2>3, <2>6, <2>7, <2>8, <2>9, <2>10 DEF IInv
  <1>2. ASSUME NEW s \in Stages, LapseClaim(s, t)
        PROVE  IInv'
    <2>1. /\ claim' = [claim EXCEPT ![<<s, t>>].lapsed = TRUE]
          /\ UNCHANGED <<state, tries, bound, card, intent, finished, graph, released, plan, boardVars, pc, crashes>>
      BY <1>2 DEF LapseClaim
    <2>2. /\ claim' \in [Stages \X Tickets -> [status : {"none", "begun", "applied", "completed"},
                                                lapsed : BOOLEAN, on : Graphs]]
          /\ \A y \in Stages \X Tickets : claim'[y].status = claim[y].status /\ claim'[y].on = claim[y].on
      <3> DEFINE r == [claim[<<s, t>>] EXCEPT !.lapsed = TRUE]
      <3>1. <<s, t>> \in Stages \X Tickets
        OBVIOUS
      <3>2. claim[<<s, t>>] \in [status : {"none", "begun", "applied", "completed"}, lapsed : BOOLEAN, on : Graphs]
        BY <3>1 DEF IInv, TypeOK
      <3>3. /\ r \in [status : {"none", "begun", "applied", "completed"}, lapsed : BOOLEAN, on : Graphs]
            /\ r.status = claim[<<s, t>>].status /\ r.on = claim[<<s, t>>].on
        BY <3>2
      <3>4. claim' = [claim EXCEPT ![<<s, t>>] = r]
        BY <2>1
      <3> HIDE DEF r
      <3>5. claim' \in [Stages \X Tickets -> [status : {"none", "begun", "applied", "completed"},
                                              lapsed : BOOLEAN, on : Graphs]]
            /\ claim'[<<s, t>>] = r /\ \A y \in Stages \X Tickets : y # <<s, t>> => claim'[y] = claim[y]
        BY <3>1, <3>3, <3>4, ClaimMoves DEF IInv
      <3>6. QED
        BY <3>3, <3>5
    <2>3. TypeOK'
      BY <2>1, <2>2 DEF IInv, TypeOK
    <2>4. Ledger'
      BY <2>1, LedgerStays
    <2>5. Runs'
      BY <2>1, RunsStay
    <2>6. Placed'
      <3>1. \A u \in Tickets : <<"graph", u>> \in Stages \X Tickets
        BY DEF Stages
      <3>2. QED
        BY <2>1, <2>2, <3>1, PlacedStays
    <2>7. Unbroken'
      BY <2>1, UnbrokenMoves DEF At
    <2>8. KeptParked'
      BY <2>1, KeptStays
    <2>9. QED
      BY <2>3, <2>4, <2>5, <2>6, <2>7, <2>8 DEF IInv
  <1>3. QED
    BY <1>1, <1>2 DEF Lapse

LEMMA CrashStep ==
  ASSUME IInv, Next, Crash
  PROVE  IInv'
  <1>1. /\ pc' = Idle /\ crashes < MaxCrashes /\ crashes' = crashes + 1 /\ UNCHANGED <<ledgerVars, boardVars>>
    BY DEF Crash, Abandon
  <1>2. crashes \in 0..MaxCrashes /\ MaxCrashes \in Nat
    BY BoundsAssumption DEF IInv, TypeOK
  <1>3. TypeOK'
    BY <1>1, <1>2 DEF IInv, TypeOK, Idle
  <1>4. Ledger'
    BY <1>1, LedgerStays
  <1>5. Runs'
    BY <1>1, RunsStay
  <1>6. Placed'
    BY <1>1, PlacedIdle DEF IInv, Placed
  <1>7. Unbroken' /\ KeptParked'
    BY <1>1, <1>2 DEF Unbroken, KeptParked
  <1>8. QED
    BY <1>3, <1>4, <1>5, <1>6, <1>7 DEF IInv

----------------------------------------------------------------------------
(* The invariant.                                                          *)

LEMMA Initially ==
  ASSUME Init
  PROVE  IInv
  <1>1. 1 \in 1..MaxTries /\ 0 \in 0..MaxRuns /\ 0 \in 0..MaxCrashes /\ NoGraph \in Graphs
    <2>1. MaxTries \in Nat \ {0} /\ MaxRuns \in Nat \ {0} /\ MaxCrashes \in Nat
      BY BoundsAssumption
    <2>2. NoGraph \in Graphs
      BY DEF Graphs
    <2>3. QED
      BY <2>1, <2>2
  <1>2. TypeOK
    <2>1. NoPlan \in [open : BOOLEAN, children : SUBSET Cards]
      BY DEF NoPlan
    <2>2. NoIntent \in [to : {"none", "ready", "review", "done"}, held : BOOLEAN]
      BY DEF NoIntent
    <2>3. [status |-> "none", lapsed |-> FALSE, on |-> NoGraph]
             \in [status : {"none", "begun", "applied", "completed"}, lapsed : BOOLEAN, on : Graphs]
      BY <1>1
    <2>4. [k \in Kind |-> 0] \in [Kind -> 0..MaxRuns]
      BY <1>1
    <2>5. QED
      BY <1>1, <2>1, <2>2, <2>3, <2>4 DEF Init, TypeOK, Idle
  <1>3. Ledger
    <2>1. \A t \in Tickets, n \in 1..MaxTries : <<t, n>> \in Cards
      BY DEF Cards
    <2>2. \A t \in Tickets, n \in 1..MaxTries : status[<<t, n>>] = "none" /\ parents[<<t, n>>] = {}
      BY <2>1 DEF Init
    <2>3. ReleasedAsLinked /\ Admitted /\ Accepted /\ Links
      BY <2>2 DEF Init, ReleasedAsLinked, Admitted, Accepted, Links, NoIntent
    <2>4. Carding /\ Planned
      BY <2>2 DEF Init, Carding, Planned, NoPlan
    <2>5. QED
      BY <2>3, <2>4 DEF Ledger
  <1>4. Runs
    BY DEF Init, Runs
  <1>5. Placed
    <2>1. \A t \in Tickets : <<"graph", t>> \in Stages \X Tickets
      BY DEF Stages
    <2>2. QED
      BY <2>1 DEF Init, Placed, At, Idle
  <1>6. Unbroken
    <2>1. \A t \in Tickets, n \in 1..MaxTries : <<t, n>> \in Cards
      BY DEF Cards
    <2>2. QED
      BY <2>1 DEF Init, Unbroken, At, Idle, NoIntent
  <1>7. KeptParked
    BY DEF Init, KeptParked
  <1>8. QED
    BY <1>2, <1>3, <1>4, <1>5, <1>6, <1>7 DEF IInv

LEMMA StutterStep ==
  ASSUME IInv, UNCHANGED vars
  PROVE  IInv'
  <1>1. UNCHANGED <<ledgerVars, boardVars, pc, crashes>>
    BY DEF vars
  <1>2. TypeOK' /\ Ledger'
    BY <1>1, LedgerStays DEF IInv, TypeOK
  <1>3. Runs' /\ KeptParked'
    BY <1>1 DEF IInv, Runs, KeptParked, Current
  <1>4. Placed'
    BY <1>1 DEF IInv, Placed, At, Met, Current, Original, Identity, Parents
  <1>5. Unbroken'
    BY <1>1 DEF IInv, Unbroken, At
  <1>6. QED
    BY <1>2, <1>3, <1>4, <1>5 DEF IInv

LEMMA EveryStep ==
  ASSUME IInv, [Next]_vars
  PROVE  IInv'
  <1>1. ASSUME Next, NEW t \in Tickets, Step(t)
        PROVE  IInv'
    <2>1. CASE CreateCard(t) \/ Deliver(t) \/ Acknowledge(t) \/ Reconcile(t) \/ Validate(t) \/ Review(t)
      BY <1>1, <2>1, CreateCardStep, DeliverStep, AcknowledgeStep, ReconcileStep, JudgedStep
    <2>2. CASE ClaimGraph(t) \/ LinkParent(t) \/ ParkChild(t) \/ ApplyGraph(t) \/ CompleteGraph(t)
      BY <1>1, <2>2, ClaimGraphStep, LinkParentStep, ParkChildStep, ApplyGraphStep, CompleteStep
    <2>3. CASE ClaimRelease(t) \/ PrepareRelease(t) \/ Expose(t) \/ Observe(t) \/ CompleteRelease(t)
      BY <1>1, <2>3, ClaimReleaseStep, PrepareReleaseStep, ExposeStep, ObserveStep, CompleteStep
    <2>4. CASE Bind(t) \/ Admit(t) \/ PrepareAdmitted(t) \/ Readiness(t)
      BY <1>1, <2>4, BindStep, AdmitStep, PrepareAdmittedStep, ReadinessStep
    <2>5. CASE PlanRepair(t) \/ MakeCard(t) \/ MoveChild(t) \/ FreeCard(t) \/ ReviseGraphs(t) \/ RecordRepair(t)
      BY <1>1, <2>5, PlanRepairStep, MakeCardStep, MoveChildStep, FreeCardStep, ReviseGraphsStep, RecordRepairStep
    <2>6. QED
      BY <1>1, <2>1, <2>2, <2>3, <2>4, <2>5 DEF Step
  <1>2. ASSUME Next, NEW t \in Tickets, Lapse(t)
        PROVE  IInv'
    BY <1>2, LapseStep
  <1>3. ASSUME Next, NEW c \in Cards, Work(c)
        PROVE  IInv'
    BY <1>3, DispatchStep, FinishStep DEF Work
  <1>4. ASSUME Next, Crash
        PROVE  IInv'
    BY <1>4, CrashStep
  <1>5. CASE UNCHANGED vars
    BY <1>5, StutterStep
  <1>6. QED
    BY <1>1, <1>2, <1>3, <1>4, <1>5 DEF Next

\* The invariant that carries the properties below.
THEOREM Invariance == Spec => []IInv
  <1>1. Init => IInv
    BY Initially
  <1>2. IInv /\ [Next]_vars => IInv'
    BY EveryStep
  <1>3. QED
    BY <1>1, <1>2, PTL DEF Spec

\* The types hold, and the graph recorded for a released card is the one on the board
\* and the one of the cards that stand for its dependencies now.
THEOREM Consistency == Spec => []Consistent
  <1>1. IInv => Consistent
    BY DEF IInv, Ledger, Consistent
  <1>2. QED
    BY <1>1, Invariance, PTL

\* No worker can take a card before the tickets its ticket waits for are accepted, by
\* whichever way the card was unblocked.
THEOREM ChildrenWait == Spec => []ChildWaits
  <1>1. IInv => ChildWaits
    BY DEF IInv, Ledger, Admitted, Met, ChildWaits
  <1>2. QED
    BY <1>1, Invariance, PTL

\* As long as no tick dies, a worker starts only where Local First prepared the worktree.
THEOREM PreparedBeforeStart == Spec => []PreparedFirst
  <1>1. ASSUME IInv
        PROVE  PreparedFirst
    <2>1. \A c \in Cards : c[1] \in Tickets /\ c[2] \in 1..MaxTries /\ c = <<c[1], c[2]>>
      BY <1>1, CardsAre DEF IInv
    <2>2. QED
      BY <1>1, <2>1 DEF IInv, Unbroken, PreparedFirst
  <1>2. QED
    BY <1>1, Invariance, PTL

\* As long as no tick dies, no worker can take the card of a ticket that is being
\* validated, reviewed or integrated.
THEOREM JudgedStaysParked == Spec => []KeptParked
  <1>1. IInv => KeptParked
    BY DEF IInv
  <1>2. QED
    BY <1>1, Invariance, PTL
=============================================================================
