----------------------- MODULE TrancheHandoff_proofs -----------------------
(* What lands, what it was built on and what a successor starts from, for  *)
(* any number of tranches, tickets and corrections, whenever ticks die or  *)
(* raise and others commit to the canonical branch.                        *)
EXTENDS TrancheHandoff, FiniteSetTheorems, FunctionTheorems, WellFoundedInduction, TLAPS

USE DEF trancheVars, ticketVars, gitVars, claimVars, h1Vars, paidVars, nextVars, fixVars, tickVars, faultVars

\* A tick is in the middle of a stage; it may still begin it.
Underway == {"run", "answer", "write", "apply"}
Busy == Underway \cup {"begin"}

WorkTypes ==
    /\ status \in [Tranches -> {"planned", "active", "completed"}]
    /\ base \in [Tranches -> Commits]
    /\ state \in [Tickets -> {"absent", "draft", "ready", "done"}]
    /\ bound \in [Tickets -> Commits \cup {NoCommit}]
    /\ card \in [Tickets -> [status : {"none", "pending", "terminal", "acknowledged"},
                             base : Commits \cup {NoCommit}]]
    /\ head \in [Tranches -> Commits \cup {NoCommit}]
    /\ history \in [Commits -> SUBSET Commits] /\ canonical \in Commits
    /\ h1 \in [Tranches -> SUBSET Tickets]
    /\ checkpoint \in [Tranches -> {"none", "ready", "failed"}]
    /\ approval \in [Paid \X Tranches -> Decisions \cup {"none"}]
    /\ landed \subseteq Tranches
    /\ materialized \in [Tranches -> Commits \cup {NoCommit}]
    /\ fixes \in [Tranches -> 0..MaxFixes]
    /\ recheck \in [Tranches -> [generation : Nat, fixes : 0..MaxFixes, of : SUBSET Tickets,
                                 head : Commits \cup {NoCommit}]]

StageTypes ==
    /\ claim \in [Claims -> [status : Open \cup {"absent", "completed", "failed"}, live : BOOLEAN]]
    /\ measured \in [Tranches -> SUBSET Tickets] /\ frozen \in [Tranches -> Commits \cup {NoCommit}]
    /\ artifact \in [Tranches -> [of : SUBSET Tickets, passed : BOOLEAN]]
    /\ call \in [Paid \X Tranches -> Decisions \cup {"none", "in_flight", "unknown", "rejected"}]
    /\ activated \subseteq Tranches
    /\ pc \in {"idle", "deliver", "claim", "begin", "run", "answer", "write", "apply", "complete"}
    /\ scope \subseteq Stages /\ held \in Claims \cup {NoClaim}
    /\ chosen \in [base : Commits \cup {NoCommit}, known : SUBSET Tickets]
    /\ crashes \in 0..MaxFaults /\ foreign \in 0..MaxFaults

\* Nothing is known of the tickets of a tranche before it is written.
Untouched(t) ==
    /\ head[t] = NoCommit /\ h1[t] = {} /\ fixes[t] = 0 /\ materialized[t] = NoCommit /\ t \notin landed
    /\ \A k \in Tickets : k[1] = t => state[k] = "absent" /\ bound[k] = NoCommit /\ card[k].status = "none"
Unplanned == \A t \in Tranches : status[t] = "planned" => t > 1 /\ Untouched(t)

\* The first tranche starts on the root; a later one was written on a ticket of its landed
\* predecessor, with all its planned tickets.
Bases ==
    \A t \in Tranches : status[t] # "planned" =>
        /\ t = 1 => base[t] = Root
        /\ t > 1 => t - 1 \in landed /\ base[t] \in Tickets /\ state[base[t]] = "done"
        /\ \A k \in Planned : k[1] = t => state[k] # "absent"

\* The materialization is recorded only of a tranche written on what was measured, and
\* nothing of a later tranche is done before.
Based(t) == t = 1 \/ materialized[t] # NoCommit
Recorded ==
    \A t \in Tranches : materialized[t] # NoCommit =>
        t > 1 /\ status[t] # "planned" /\ materialized[t] = base[t] /\ base[t] = Final(t - 1)
Carded ==
    \A k \in Planned : card[k].status # "none" =>
        card[k].base = base[k[1]] /\ (card[k].status = "acknowledged" => Based(k[1]))
Binds ==
    \A k \in Planned :
        /\ bound[k] # NoCommit => bound[k] = base[k[1]] /\ Based(k[1])
        /\ state[k] \in {"ready", "done"} => bound[k] # NoCommit

\* There are corrections only of work that was begun.
Corrected ==
    /\ \A t \in Tranches : fixes[t] # 0 => head[t] # NoCommit
    /\ \A k \in Fixes : state[k] # "absent" => k[2] <= Works + fixes[k[1]]

\* The integration branch of a tranche holds its base and what is done of it.
Heads ==
    \A t \in Tranches : head[t] # NoCommit =>
        /\ head[t] \in Tickets /\ head[t][1] = t /\ state[head[t]] = "done"
        /\ Based(t) /\ base[t] \in history[head[t]]
Dones ==
    \A k \in Tickets : state[k] = "done" =>
        /\ head[k[1]] # NoCommit /\ {k, base[k[1]]} \subseteq history[k] /\ k \in history[head[k[1]]]

\* Only done tickets are in anybody's history.
Pasts ==
    /\ \A c \in Commits, k \in Tickets : k \in history[c] => state[k] = "done"
    /\ history[Root] = {Root} /\ canonical \notin Tickets

\* What was measured is done, is all that was planned, and a chain on the base.
Measures ==
    \A t \in Tranches : h1[t] # {} =>
        /\ \A k \in h1[t] : k[1] = t /\ state[k] = "done"
        /\ \A k \in Planned : k[1] = t => k \in h1[t]
        /\ Based(t) /\ history[Final(t)] = history[base[t]] \cup h1[t]

Landings ==
    \A t \in landed : h1[t] # {} /\ history[Final(t)] \subseteq history[canonical]

\* A recheck names a commit that holds the planned tickets and the corrections it names.
Rechecks ==
    \A t \in Tranches : recheck[t].of # {} =>
        /\ recheck[t].head \in Tickets /\ state[recheck[t].head] = "done"
        /\ \A k \in Tickets : (k \in Planned /\ k[1] = t) \/ k \in recheck[t].of =>
              k \in history[recheck[t].head]

Work ==
    /\ WorkTypes /\ Unplanned /\ Bases /\ Recorded /\ Carded /\ Binds /\ Corrected /\ Heads /\ Dones
    /\ Pasts /\ Measures /\ Landings /\ Rechecks /\ LandedApproved

\* What the running tick holds.
Holds ==
    /\ pc \in Busy \cup {"complete"} => held \in Claims
    /\ pc = "begin" => claim[held].status = "claimed"
    /\ pc \in Underway => claim[held].status = "begun"
    /\ pc = "answer" => held[1] \in Paid
    /\ pc = "write" => held[1] = "materialize"
    /\ pc = "apply" /\ held[1] \in Paid => call[held] \in Decisions

\* What an effect leaves in the ledger is there only if its claim says so.
Applies ==
    /\ \A t \in Tranches : h1[t] # {} => claim[<<"checkpoint", t>>].status \in {"applied", "completed", "failed"}
    /\ \A c \in Paid \X Tranches : approval[c] # "none" => claim[c].status \in {"applied", "completed", "failed"}

\* A checkpoint about to be written is of a chain, whatever has joined the tranche since.
Chained ==
    pc = "apply" /\ held[1] = "checkpoint" =>
        LET t == held[2] IN
        /\ measured[t] # {} /\ measured[t] \subseteq Members(t)
        /\ history[Newest(measured[t])] = history[base[t]] \cup measured[t]

\* A landing under way keeps its authority.
Lands ==
    pc \in Busy /\ held[1] = "landing" =>
        LET t == held[2] IN
        Landable(t) /\ (pc = "apply" => history[Final(t)] \subseteq history[canonical])

\* So does the writing of a successor, and the commit chosen for it.
Succeeds ==
    pc \in Busy /\ held[1] = "materialize" =>
        LET t == held[2] IN
        /\ Succeedable(t)
        /\ pc = "apply" => status[t + 1] = "active"
        /\ pc = "write" =>
              /\ status[t + 1] = "planned" /\ chosen.base \in Tickets /\ state[chosen.base] = "done"
              /\ chosen.known \subseteq history[chosen.base]

Stage == StageTypes /\ Holds /\ Applies /\ Chained /\ Lands /\ Succeeds

IInv == Work /\ Stage

----------------------------------------------------------------------------
(* Names of commits.                                                       *)

LEMMA BoundsAre == Last \in Nat /\ Works \in Nat /\ MaxFixes \in Nat /\ MaxFaults \in Nat /\ Last > 0 /\ Works > 0
  BY LastAssumption, HandoffBoundsAssumption

LEMMA TicketIs ==
  ASSUME NEW k \in Tickets
  PROVE  /\ k[1] \in Tranches /\ k[2] \in 1..(Works + MaxFixes) /\ k = <<k[1], k[2]>>
         /\ k \in Planned <=> k[2] <= Works
         /\ k \in Fixes <=> k[2] > Works
  <1>1. k[1] \in Tranches /\ k[2] \in 1..(Works + MaxFixes) /\ k = <<k[1], k[2]>>
    BY DEF Tickets
  <1>2. k[2] \in Int /\ k[2] >= 1 /\ Works \in Int
    BY <1>1, BoundsAre
  <1>3. k \in Planned <=> k[2] <= Works
    BY <1>1, <1>2, BoundsAre DEF Planned
  <1>4. QED
    BY <1>1, <1>2, <1>3 DEF Fixes

LEMMA PlannedAreTickets == Planned \subseteq Tickets
  BY BoundsAre DEF Planned, Tickets

LEMMA Names ==
  /\ Tickets \subseteq Commits /\ Root \in Commits /\ Root \notin Tickets /\ NoCommit \notin Commits
  /\ \A t \in Tranches : Landing(t) \in Commits /\ Landing(t) \notin Tickets /\ Landing(t) # Root
  /\ \A i \in 1..MaxFaults : Foreign(i) \in Commits /\ Foreign(i) \notin Tickets /\ Foreign(i) # Root
  <1>1. \A k \in Tickets : k[1] >= 1 /\ k[2] >= 1
    BY TicketIs, BoundsAre DEF Tranches
  <1>2. \A t \in Tranches : t \in Int /\ t >= 1
    BY BoundsAre DEF Tranches
  <1>3. Root \notin Tickets /\ NoCommit \notin Tickets
    BY <1>1 DEF Root, NoCommit
  <1>4. \A t \in Tranches : Landing(t) \notin Tickets /\ Landing(t) # Root /\ Landing(t) # NoCommit
    BY <1>1, <1>2 DEF Landing, Root, NoCommit
  <1>5. \A i \in 1..MaxFaults : Foreign(i) \notin Tickets /\ Foreign(i) # Root /\ Foreign(i) # NoCommit
    BY <1>1, BoundsAre DEF Foreign, Root, NoCommit
  <1>6. Root # NoCommit
    BY DEF Root, NoCommit
  <1>7. QED
    BY <1>3, <1>4, <1>5, <1>6 DEF Commits

LEMMA TranchesAre ==
  /\ 1 \in Tranches /\ \A t \in Tranches : t \in Nat /\ t >= 1
  /\ \A t \in Tranches : t > 1 => t - 1 \in Tranches
  /\ \A t \in Tranches : t < Last => t + 1 \in Tranches
  BY BoundsAre DEF Tranches

\* A set of numbers has a smallest: of the sets of what is below one of them, a smallest
\* one is empty.
LEMMA LeastIs ==
  ASSUME NEW n \in Nat, NEW S \in SUBSET (1..n), S # {}
  PROVE  \E x \in S : \A m \in S : x <= m
  <1> DEFINE Below(x) == {m \in S : m < x}
             T == {U \in SUBSET S : \E x \in S : U = Below(x)}
  <1>1. IsFiniteSet(S)
    <2>1. IsFiniteSet(1..n)
      BY FS_Interval
    <2>2. QED
      BY <2>1, FS_Subset
  <1>2. IsWellFoundedOn(StrictSubsetOrdering(S), SUBSET S)
    BY <1>1, FS_StrictSubsetOrderingWellFounded, FS_FiniteSubsetsOfFinite
  <1>3. T \subseteq SUBSET S /\ T # {}
    <2>1. PICK x \in S : TRUE
      OBVIOUS
    <2>2. Below(x) \in T
      BY <2>1
    <2>3. QED
      BY <2>2
  <1>4. PICK U \in T : \A V \in T : <<V, U>> \notin StrictSubsetOrdering(S)
    <2> HIDE DEF T
    <2>1. QED
      BY <1>2, <1>3, WFMin
  <1>5. PICK x \in S : U = Below(x)
    BY <1>4
  <1>6. ASSUME NEW m \in S, m < x PROVE FALSE
    <2>1. m \in Int /\ x \in Int /\ \A y \in S : y \in Int
      OBVIOUS
    <2>2. Below(m) \subseteq U /\ m \in U /\ m \notin Below(m)
      <3>1. \A y \in S : y < m => y < x
        BY <1>6, <2>1
      <3>2. m \in Below(x) /\ m \notin Below(m)
        BY <1>6, <2>1
      <3>3. Below(m) \subseteq Below(x)
        BY <3>1
      <3>4. QED
        BY <1>5, <3>2, <3>3
    <2>3. U \in SUBSET S /\ Below(m) \in SUBSET S /\ Below(m) \in T
      BY <1>5
    <2>4. <<Below(m), U>> \in StrictSubsetOrdering(S)
      BY <2>2, <2>3 DEF StrictSubsetOrdering
    <2>5. QED
      BY <1>4, <2>3, <2>4
  <1>7. QED
    BY <1>6

LEMMA NewestIs ==
  ASSUME NEW S, S \subseteq Tickets, S # {}
  PROVE  Newest(S) \in S /\ \A l \in S : l[2] <= Newest(S)[2]
  <1> DEFINE M == Works + MaxFixes
             T == {M + 1 - l[2] : l \in S}
  <1>1. M \in Nat /\ \A l \in S : l[2] \in 1..M
    BY TicketIs, BoundsAre
  <1> HIDE DEF M
  <1>2. T \in SUBSET (1..M) /\ T # {}
    BY <1>1
  <1>3. PICK x \in T : \A m \in T : x <= m
    <2> HIDE DEF T
    <2>1. QED
      BY <1>1, <1>2, LeastIs
  <1>4. PICK k \in S : x = M + 1 - k[2]
    BY <1>3
  <1>5. ASSUME NEW l \in S PROVE l[2] <= k[2]
    <2>1. M + 1 - l[2] \in T
      OBVIOUS
    <2>2. M + 1 - k[2] <= M + 1 - l[2]
      BY <1>3, <1>4, <2>1
    <2>3. QED
      BY <1>1, <2>2
  <1>6. QED
    BY <1>5 DEF Newest

\* The accepted commits of a serialized tranche are its base and its tickets, one on the
\* other: of the tickets whose history is another the first would have no predecessor.
LEMMA ChainIs ==
  ASSUME NEW t \in Tranches, Serialized(t)
  PROVE  history[Newest(Members(t))] = history[base[t]] \cup Members(t)
  <1> DEFINE S == Members(t)
             Upto(k) == {l \in S : l[2] <= k[2]}
             Good(k) == history[k] = history[base[t]] \cup Upto(k)
             Bad == {k \in S : ~Good(k)}
             B == {k[2] : k \in Bad}
  <1>1. /\ S # {} /\ S \subseteq Tickets /\ \A k \in S : history[k] = history[Previous(k)] \cup {k}
    BY DEF Serialized, Child, Members
  <1>2. \A k \in S : k[1] = t /\ k[2] \in 1..(Works + MaxFixes) /\ k = <<t, k[2]>>
    BY TicketIs DEF Members
  <1>3. \A k \in S : Previous(k) = LET older == {l \in S : l[2] < k[2]} IN
                                   IF older = {} THEN base[t] ELSE Newest(older)
    BY <1>2 DEF Previous
  <1>4. Works + MaxFixes \in Nat
    BY BoundsAre
  <1> HIDE DEF S
  <1>5. ASSUME Bad # {} PROVE FALSE
    <2>1. B # {} /\ B \in SUBSET (1..(Works + MaxFixes))
      BY <1>2, <1>5
    <2>2. PICK x \in B : \A m \in B : x <= m
      <3> HIDE DEF B
      <3>1. QED
        BY <1>4, <2>1, LeastIs
    <2>3. PICK k \in Bad : k[2] = x
      BY <2>2
    <2>4. \A l \in S : l[2] \in Int /\ (l[2] = k[2] => l = k)
      BY <1>2, <2>3
    <2>5. ASSUME NEW l \in S, l[2] < k[2] PROVE Good(l)
      <3>1. l \in Bad => l[2] \in B
        OBVIOUS
      <3>2. l[2] \notin B
        BY <2>2, <2>3, <2>4, <2>5
      <3>3. QED
        BY <3>1, <3>2
    <2> DEFINE older == {l \in S : l[2] < k[2]}
    <2>6. Upto(k) = older \cup {k}
      BY <2>3, <2>4
    <2>7. CASE older = {}
      <3>1. history[k] = history[base[t]] \cup {k}
        BY <1>1, <1>3, <2>3, <2>7
      <3>2. QED
        BY <2>3, <2>6, <2>7, <3>1
    <2>8. CASE older # {}
      <3> DEFINE p == Newest(older)
      <3>1. p \in older /\ \A l \in older : l[2] <= p[2]
        BY <1>1, <2>8, NewestIs
      <3>2. history[k] = history[p] \cup {k}
        BY <1>1, <1>3, <2>3, <2>8
      <3> HIDE DEF p
      <3>3. history[p] = history[base[t]] \cup Upto(p)
        BY <2>5, <3>1
      <3>4. Upto(p) = older
        BY <2>3, <2>4, <3>1
      <3>5. QED
        BY <2>3, <2>6, <3>2, <3>3, <3>4
    <2>9. QED
      BY <2>7, <2>8
  <1>6. Newest(S) \in S /\ \A l \in S : l[2] <= Newest(S)[2]
    BY <1>1, NewestIs
  <1>7. Good(Newest(S))
    BY <1>5, <1>6
  <1>8. Upto(Newest(S)) = S
    BY <1>6
  <1>9. QED
    BY <1>7, <1>8 DEF S

LEMMA StagesAre ==
  /\ Stages = {"checkpoint", "paid", "escalation", "landing", "materialize", "activation"}
  /\ Paid \X Tranches \subseteq Claims
  /\ \A c \in Claims : c[1] \in Stages /\ c[2] \in Tranches /\ c = <<c[1], c[2]>>
  /\ \A f \in Stages, t \in Tranches : <<f, t>> \in Claims
  /\ \A c \in Claims : c[1] \in Paid => c \in Paid \X Tranches
  <1>1. Stages = {"checkpoint", "paid", "escalation", "landing", "materialize", "activation"}
    <2>1. /\ Order[1] = "checkpoint" /\ Order[2] = "paid" /\ Order[3] = "escalation"
          /\ Order[4] = "landing" /\ Order[5] = "materialize" /\ Order[6] = "activation"
      BY DEF Order
    <2>2. \A i \in 1..6 : i = 1 \/ i = 2 \/ i = 3 \/ i = 4 \/ i = 5 \/ i = 6
      OBVIOUS
    <2>3. 1 \in 1..6 /\ 2 \in 1..6 /\ 3 \in 1..6 /\ 4 \in 1..6 /\ 5 \in 1..6 /\ 6 \in 1..6
      OBVIOUS
    <2>4. QED
      BY <2>1, <2>2, <2>3 DEF Stages
  <1>2. QED
    BY <1>1 DEF Claims, Paid

----------------------------------------------------------------------------
(* Steps of a tick that leave the work alone.                              *)

workVars == <<trancheVars, ticketVars, gitVars, h1, checkpoint, approval, landed, materialized, fixVars>>

LEMMA WorkStays ==
  ASSUME Work, UNCHANGED workVars
  PROVE  Work'
  <1> USE DEF workVars
  <1>1. WorkTypes' /\ Unplanned' /\ Corrected' /\ LandedApproved'
    BY DEF Work, WorkTypes, Unplanned, Untouched, Corrected, LandedApproved, Ancestor
  <1>2. Bases' /\ Recorded' /\ Carded' /\ Binds'
    BY DEF Work, Bases, Recorded, Carded, Binds, Based, Final
  <1>3. Heads' /\ Dones' /\ Pasts' /\ Rechecks'
    BY DEF Work, Heads, Based, Dones, Pasts, Rechecks
  <1>4. Measures' /\ Landings'
    BY DEF Work, Measures, Landings, Based, Final
  <1>5. QED
    BY <1>1, <1>2, <1>3, <1>4 DEF Work

\* A tick that is in no stage is bound to nothing.
LEMMA Rests ==
  ASSUME StageTypes', Applies', pc' \notin Busy \cup {"complete"}
  PROVE  Stage'
  BY DEF Stage, Holds, Chained, Lands, Succeeds, Busy, Underway

LEMMA AppliesStays ==
  ASSUME IInv, UNCHANGED <<h1, approval>>,
         \A c \in Claims : claim'[c].status = claim[c].status
  PROVE  Applies'
  BY StagesAre DEF IInv, Stage, Applies

LEMMA QuietStep ==
  ASSUME IInv, StartTick \/ ClaimRaises \/ NoWork \/ Raise
  PROVE  IInv'
  <1>1. /\ pc' \in {"idle", "deliver", "claim"} /\ UNCHANGED <<ledgerVars, gitVars, faultVars>>
        /\ scope' \subseteq Stages /\ held' \in Claims \cup {NoClaim} /\ chosen' \in {chosen, NoChoice}
    <2>1. CASE StartTick
      <3>1. scope' = Stages \/ \E c \in Claims : scope' = {c[1]}
        BY <2>1 DEF StartTick, Stale
      <3>2. held \in Claims \cup {NoClaim}
        BY DEF IInv, Stage, StageTypes
      <3>3. QED
        BY <2>1, <3>1, <3>2, StagesAre DEF StartTick
    <2>2. CASE ClaimRaises \/ NoWork \/ Raise
      BY <2>2 DEF ClaimRaises, NoWork, Raise, EndTick
    <2>3. QED
      BY <2>1, <2>2
  <1>2. Work'
    BY <1>1, WorkStays DEF IInv, ledgerVars, workVars
  <1>3. NoChoice \in [base : Commits \cup {NoCommit}, known : SUBSET Tickets]
    BY DEF NoChoice
  <1>4. StageTypes'
    BY <1>1, <1>3 DEF IInv, Stage, StageTypes, ledgerVars
  <1>5. Applies'
    BY <1>1, AppliesStays DEF ledgerVars
  <1>6. QED
    BY <1>1, <1>2, <1>4, <1>5, Rests DEF IInv, Busy, Underway

\* Steps that end a tick and leave the claims' states and what they produced alone.
LEMMA EndStep ==
  ASSUME IInv, EndTick, Work', UNCHANGED <<h1, approval, measured, frozen, artifact, activated>>,
         \A c \in Claims : claim'[c].status = claim[c].status,
         claim' \in [Claims -> [status : Open \cup {"absent", "completed", "failed"}, live : BOOLEAN]],
         call' \in [Paid \X Tranches -> Decisions \cup {"none", "in_flight", "unknown", "rejected"}],
         crashes' \in 0..MaxFaults, foreign' \in 0..MaxFaults
  PROVE  IInv'
  <1>1. NoChoice \in [base : Commits \cup {NoCommit}, known : SUBSET Tickets]
    BY DEF NoChoice
  <1>2. StageTypes'
    BY <1>1 DEF IInv, Stage, StageTypes, EndTick
  <1>3. Applies'
    BY AppliesStays
  <1>4. QED
    BY <1>2, <1>3, Rests DEF IInv, EndTick, Busy, Underway

LEMMA LapseIs ==
  ASSUME StageTypes
  PROVE  /\ Lapse \in [Claims -> [status : Open \cup {"absent", "completed", "failed"}, live : BOOLEAN]]
         /\ \A c \in Claims : Lapse[c].status = claim[c].status
  BY DEF StageTypes, Lapse

LEMMA CrashStep ==
  ASSUME IInv, Crash
  PROVE  IInv'
  <1>1. Work'
    BY WorkStays DEF IInv, Crash, workVars
  <1>2. /\ \A c \in Claims : claim'[c].status = claim[c].status
        /\ claim' \in [Claims -> [status : Open \cup {"absent", "completed", "failed"}, live : BOOLEAN]]
    BY LapseIs DEF IInv, Stage, StageTypes, Crash
  <1>3. crashes' \in 0..MaxFaults /\ foreign' \in 0..MaxFaults
    BY BoundsAre DEF IInv, Stage, StageTypes, Crash
  <1>4. QED
    BY <1>1, <1>2, <1>3, EndStep DEF Crash, IInv, Stage, StageTypes

LEMMA ExpireStep ==
  ASSUME IInv, Expire
  PROVE  IInv'
  <1>1. Work'
    BY WorkStays DEF IInv, Expire, workVars
  <1>2. /\ \A c \in Claims : claim'[c].status = claim[c].status
        /\ claim' \in [Claims -> [status : Open \cup {"absent", "completed", "failed"}, live : BOOLEAN]]
    BY LapseIs DEF IInv, Stage, Expire
  <1>3. StageTypes'
    BY <1>2 DEF IInv, Stage, StageTypes, Expire
  <1>4. Applies'
    BY <1>2, AppliesStays DEF Expire
  <1>5. QED
    BY <1>1, <1>3, <1>4, Rests DEF IInv, Expire, Busy, Underway

LEMMA RetireStep ==
  ASSUME IInv, RetireClaim
  PROVE  IInv'
  <1>1. Work'
    BY WorkStays DEF IInv, RetireClaim, workVars
  <1>2. PICK t \in Tranches :
          claim' = [claim EXCEPT ![<<"checkpoint", t>>] = [status |-> "failed", live |-> FALSE]]
    BY DEF RetireClaim, Oldest, Lapsed
  <1>3. StageTypes'
    BY <1>2 DEF IInv, Stage, StageTypes, RetireClaim
  <1>4. \A c \in Claims : claim'[c].status \in {claim[c].status, "failed"}
    BY <1>2 DEF IInv, Stage, StageTypes
  <1>5. Applies'
    BY <1>4, StagesAre DEF IInv, Stage, Applies, RetireClaim
  <1>6. QED
    BY <1>1, <1>3, <1>5, Rests DEF IInv, RetireClaim, Busy, Underway

\* A claim is made or taken up again: it names what the ledger says.
LEMMA ClaimStep ==
  ASSUME IInv, Claim
  PROVE  IInv'
  <1>1. UNCHANGED <<workVars, artifact, call, activated, scope, chosen, crashes, foreign>>
    BY DEF Claim, Take, workVars
  <1>2. Work'
    BY <1>1, WorkStays DEF IInv
  <1>3. PICK f \in Stages, t \in Tranches :
          /\ Take(f, t) /\ claim[<<f, t>>].status \in Open \cup {"absent"}
          /\ \/ Unchanged(f, t) /\ t \in Lapsed(f)
             \/ t \in Fresh(f)
          /\ measured' \in {measured, [measured EXCEPT ![t] = Members(t)]}
          /\ frozen' \in {frozen, [frozen EXCEPT ![t] = canonical]}
    BY DEF Claim, Oldest, Lapsed, Fresh
  <1> DEFINE c == <<f, t>>
  <1>4. /\ c \in Claims /\ c[1] = f /\ c[2] = t /\ held' = c /\ pc' = NextStep(c)
        /\ claim' = [claim EXCEPT ![c] = [status |-> IF @.status = "absent" THEN "claimed" ELSE @.status,
                                          live |-> TRUE]]
    BY <1>3, StagesAre DEF Take
  <1>5. /\ \A d \in Claims \ {c} : claim'[d] = claim[d]
        /\ claim'[c].status = IF claim[c].status = "absent" THEN "claimed" ELSE claim[c].status
        /\ claim' \in [Claims -> [status : Open \cup {"absent", "completed", "failed"}, live : BOOLEAN]]
    BY <1>4 DEF IInv, Stage, StageTypes, Open
  <1>6. /\ pc' \in {"begin", "run", "apply", "complete"}
        /\ pc' = "begin" <=> claim[c].status \in {"absent", "claimed"}
        /\ pc' = "complete" <=> claim[c].status = "applied"
        /\ pc' = "apply" => f = "activation"
    BY <1>3, <1>4 DEF NextStep, Open
  <1> HIDE DEF c
  <1>7. StageTypes'
    <2>1. Members(t) \in SUBSET Tickets
      BY DEF Members
    <2>2. measured' \in [Tranches -> SUBSET Tickets]
      BY <1>3, <2>1 DEF IInv, Stage, StageTypes
    <2>3. frozen' \in [Tranches -> Commits \cup {NoCommit}]
      BY <1>3 DEF IInv, Stage, StageTypes, Work, WorkTypes
    <2>4. QED
      BY <1>1, <1>4, <1>5, <1>6, <2>2, <2>3 DEF IInv, Stage, StageTypes
  <1>8. Holds'
    BY <1>3, <1>4, <1>5, <1>6 DEF Holds, Busy, Underway, Open, Paid, c
  <1>9. Applies'
    <2>1. \A d \in Claims : claim[d].status \in {"applied", "completed", "failed"} =>
                              claim'[d].status \in {"applied", "completed", "failed"}
      BY <1>5
    <2>2. QED
      BY <1>1, <2>1, StagesAre DEF IInv, Stage, Applies, workVars
  <1>10. Chained'
    BY <1>4, <1>6 DEF Chained
  <1>11. Lands'
    <2>1. f = "landing" /\ pc' \in Busy => Landable(t)
      BY <1>3, <1>6 DEF Unchanged, Fresh, Busy, Underway, c
    <2>2. Landable(t)' <=> Landable(t)
      BY <1>1 DEF Landable, Approved, workVars
    <2>3. QED
      BY <1>4, <1>6, <2>1, <2>2 DEF Lands
  <1>12. Succeeds'
    <2>1. f = "materialize" => Succeedable(t)
      BY <1>3 DEF Unchanged, Fresh
    <2>2. Succeedable(t)' <=> Succeedable(t)
      BY <1>1 DEF Succeedable, Approved, workVars
    <2>3. QED
      BY <1>4, <1>6, <2>1, <2>2 DEF Succeeds
  <1>13. QED
    BY <1>2, <1>7, <1>8, <1>9, <1>10, <1>11, <1>12 DEF IInv, Stage

\* The types of a tick that goes on with what it holds.
LEMMA StageTypesStay ==
  ASSUME IInv, UNCHANGED <<measured, frozen, activated, held, scope, crashes, foreign>>,
         pc' \in {"idle", "deliver", "claim", "begin", "run", "answer", "write", "apply", "complete"},
         claim' \in [Claims -> [status : Open \cup {"absent", "completed", "failed"}, live : BOOLEAN]],
         artifact' \in [Tranches -> [of : SUBSET Tickets, passed : BOOLEAN]],
         call' \in [Paid \X Tranches -> Decisions \cup {"none", "in_flight", "unknown", "rejected"}],
         chosen' \in [base : Commits \cup {NoCommit}, known : SUBSET Tickets]
  PROVE  StageTypes'
  BY DEF IInv, Stage, StageTypes

LEMMA HeldIs ==
  ASSUME IInv, pc \in Busy \cup {"complete"}
  PROVE  /\ held \in Claims /\ held[1] \in Stages /\ held[2] \in Tranches /\ held = <<held[1], held[2]>>
         /\ claim[held] \in [status : Open \cup {"absent", "completed", "failed"}, live : BOOLEAN]
  BY StagesAre DEF IInv, Stage, StageTypes, Holds

LEMMA BeginStep ==
  ASSUME IInv, Begin
  PROVE  IInv'
  <1>1. Work'
    BY WorkStays DEF IInv, Begin, workVars
  <1>2. /\ pc = "begin" /\ pc' = (IF held[1] = "activation" THEN "apply" ELSE "run")
        /\ UNCHANGED <<held, scope, chosen>> /\ claim' = [claim EXCEPT ![held].status = "begun"]
        /\ UNCHANGED <<workVars, artifact, call, activated, measured, frozen, crashes, foreign>>
    BY DEF Begin, Goto, workVars
  <1>3. held \in Claims /\ claim[held].status = "claimed"
    BY <1>2 DEF IInv, Stage, Holds, Busy
  <1>4. /\ \A d \in Claims \ {held} : claim'[d] = claim[d]
        /\ claim'[held].status = "begun"
        /\ claim' \in [Claims -> [status : Open \cup {"absent", "completed", "failed"}, live : BOOLEAN]]
    BY <1>2, <1>3 DEF IInv, Stage, StageTypes, Open
  <1>5. StageTypes'
    BY <1>2, <1>4, StageTypesStay DEF IInv, Stage, StageTypes
  <1>6. Holds'
    BY <1>2, <1>3, <1>4 DEF Holds, Busy, Underway, Paid
  <1>7. Applies'
    <2>1. \A d \in Claims : claim[d].status \in {"applied", "completed", "failed"} => claim'[d] = claim[d]
      BY <1>3, <1>4
    <2>2. QED
      BY <1>2, <2>1, StagesAre DEF IInv, Stage, Applies, workVars
  <1>8. Chained' /\ Lands' /\ Succeeds'
    <2>1. Landable(held[2])' <=> Landable(held[2])
      BY <1>2 DEF Landable, Approved, workVars
    <2>2. Succeedable(held[2])' <=> Succeedable(held[2])
      BY <1>2 DEF Succeedable, Approved, workVars
    <2>3. QED
      BY <1>2, <2>1, <2>2 DEF IInv, Stage, Chained, Lands, Succeeds, Busy, Underway
  <1>9. QED
    BY <1>1, <1>5, <1>6, <1>7, <1>8 DEF IInv, Stage

LEMMA FinalizeStep ==
  ASSUME IInv, Finalize
  PROVE  IInv'
  <1>1. Work'
    BY WorkStays DEF IInv, Finalize, workVars
  <1>2. /\ pc = "complete" /\ held \in Claims /\ EndTick
        /\ claim' = [claim EXCEPT ![held] = [status |-> "completed", live |-> FALSE]]
        /\ UNCHANGED <<h1, approval, measured, frozen, artifact, call, activated, crashes, foreign>>
    BY DEF Finalize, IInv, Stage, Holds
  <1>3. NoChoice \in [base : Commits \cup {NoCommit}, known : SUBSET Tickets]
    BY DEF NoChoice
  <1>4. StageTypes'
    BY <1>2, <1>3 DEF IInv, Stage, StageTypes, EndTick
  <1>5. \A c \in Claims : claim'[c].status \in {claim[c].status, "completed"}
    BY <1>2 DEF IInv, Stage, StageTypes
  <1>6. Applies'
    BY <1>2, <1>5, StagesAre DEF IInv, Stage, Applies
  <1>7. QED
    BY <1>1, <1>2, <1>4, <1>6, Rests DEF IInv, EndTick, Busy, Underway

LEMMA RunCheckpointStep ==
  ASSUME IInv, RunCheckpoint
  PROVE  IInv'
  <1>0. PICK t \in Tranches : t = held[2]
    BY HeldIs DEF RunCheckpoint, At, Busy, Underway
  <1> DEFINE Ready == Serialized(t) /\ Members(t) = measured[t] /\ artifact[t].of \in {{}, Members(t)}
  <1>1. CASE ~Ready
    BY <1>0, <1>1, QuietStep DEF RunCheckpoint
  <1>2. CASE Ready
    <2>1. /\ pc = "run" /\ held[1] = "checkpoint" /\ pc' = "apply" /\ UNCHANGED <<held, scope, chosen>>
          /\ UNCHANGED <<workVars, claim, call, activated, measured, frozen, crashes, foreign>>
          /\ \/ artifact' = artifact
             \/ \E p \in BOOLEAN : artifact' = [artifact EXCEPT ![t] = [of |-> Members(t), passed |-> p]]
      BY <1>0, <1>2 DEF RunCheckpoint, At, Goto, workVars
    <2>3. Work'
      BY <2>1, WorkStays DEF IInv
    <2>4. StageTypes'
      <3>1. \A p \in BOOLEAN : [of |-> Members(t), passed |-> p] \in [of : SUBSET Tickets, passed : BOOLEAN]
        BY DEF Members
      <3>2. artifact' \in [Tranches -> [of : SUBSET Tickets, passed : BOOLEAN]]
        BY <2>1, <3>1 DEF IInv, Stage, StageTypes
      <3>3. QED
        BY <2>1, <3>2, StageTypesStay DEF IInv, Stage, StageTypes
    <2>5. Holds'
      BY <2>1 DEF IInv, Stage, Holds, Busy, Underway, Paid
    <2>6. Applies'
      BY <2>1, AppliesStays DEF workVars
    <2>7. Chained'
      <3>1. measured[t] = Members(t) /\ Members(t) # {}
        BY <1>2 DEF Serialized
      <3>2. history[Newest(measured[t])] = history[base[t]] \cup measured[t]
        BY <1>2, <3>1, ChainIs
      <3>3. measured[t]' = measured[t] /\ Members(t)' = Members(t) /\ history' = history /\ base[t]' = base[t]
        BY <2>1 DEF Members, workVars
      <3>4. held'[2] = t
        BY <1>0, <2>1
      <3>5. QED
        BY <2>1, <3>1, <3>2, <3>3, <3>4 DEF Chained
    <2>8. Lands' /\ Succeeds'
      BY <2>1 DEF Lands, Succeeds
    <2>9. QED
      BY <2>3, <2>4, <2>5, <2>6, <2>7, <2>8 DEF IInv, Stage
  <1>3. QED
    BY <1>1, <1>2

LEMMA CallStep ==
  ASSUME IInv, Reserve \/ Answer
  PROVE  IInv'
  <1>1. /\ pc \in {"run", "answer"} /\ held \in Claims /\ held[1] \in Paid
        /\ UNCHANGED <<workVars, claim, artifact, activated, measured, frozen, crashes, foreign>>
        /\ \/ pc' \in {"answer", "apply"} /\ UNCHANGED <<held, scope, chosen>>
           \/ EndTick
    BY HeldIs DEF Reserve, Answer, Goto, workVars, IInv, Stage, Holds, Busy, Underway
  <1>2. call' \in [Paid \X Tranches -> Decisions \cup {"none", "in_flight", "unknown", "rejected"}]
    <2>1. \/ call' = call
          \/ \E v \in Decisions \cup {"none", "in_flight", "unknown", "rejected"} :
                call' = [call EXCEPT ![held] = v]
      BY DEF Reserve, Answer
    <2>2. QED
      BY <2>1 DEF IInv, Stage, StageTypes
  <1>3. Work'
    BY <1>1, WorkStays DEF IInv
  <1>4. CASE EndTick
    BY <1>1, <1>2, <1>3, <1>4, EndStep DEF IInv, Stage, StageTypes, workVars
  <1>5. CASE pc' \in {"answer", "apply"} /\ UNCHANGED <<held, scope, chosen>>
    <2>1. StageTypes'
      BY <1>1, <1>2, <1>5, StageTypesStay DEF IInv, Stage, StageTypes
    <2>2. Holds'
      <3>1. pc' = "apply" => call'[held] \in Decisions
        <4>1. held \in Paid \X Tranches /\ call \in [Paid \X Tranches -> Decisions \cup {"none", "in_flight", "unknown", "rejected"}]
          BY <1>1, StagesAre DEF IInv, Stage, StageTypes
        <4>2. CASE Reserve
          BY <1>5, <4>1, <4>2 DEF Reserve, Goto, EndTick
        <4>3. CASE Answer
          <5>1. \/ \E e \in Decisions : call' = [call EXCEPT ![held] = e]
                \/ pc' = "idle"
            BY <4>3 DEF Answer, EndTick
          <5>2. QED
            BY <1>5, <4>1, <5>1
        <4>4. QED
          BY <4>2, <4>3
      <3>2. QED
        BY <1>1, <1>5, <3>1 DEF IInv, Stage, Holds, Busy, Underway
    <2>3. Applies'
      BY <1>1, AppliesStays DEF workVars
    <2>4. Chained' /\ Lands' /\ Succeeds'
      BY <1>1, <1>5 DEF Chained, Lands, Succeeds, Paid
    <2>5. QED
      BY <1>3, <2>1, <2>2, <2>3, <2>4 DEF IInv, Stage
  <1>6. QED
    BY <1>1, <1>4, <1>5

\* The tickets of the corrections, by number.
LEMMA CorrectionIs ==
  ASSUME NEW t \in Tranches, NEW k \in Fixes, k[1] = t, k[2] <= Works + fixes[t], fixes[t] \in 0..MaxFixes
  PROVE  k \in Corrections(t)
  <1>1. k \in Tickets /\ k[2] > Works
    <2>1. k \in Tickets
      BY DEF Fixes
    <2>2. QED
      BY <2>1, TicketIs
  <1>2. k[2] \in Int /\ Works \in Int /\ fixes[t] \in Int /\ k = <<t, k[2]>>
    BY <1>1, TicketIs, BoundsAre
  <1>3. k[2] - Works \in 1..fixes[t] /\ k = <<t, Works + (k[2] - Works)>>
    BY <1>1, <1>2
  <1>4. QED
    BY <1>3 DEF Corrections

\* The commit a successor is planned on is a done ticket, whose history holds all there is
\* of the predecessor.
LEMMA AuthorityIs ==
  ASSUME Work, NEW t \in landed, Authority(t) # NoCommit
  PROVE  /\ Authority(t) \in Tickets /\ state[Authority(t)] = "done"
         /\ Members(t) \subseteq history[Authority(t)]
  <1>1. t \in Tranches /\ h1[t] # {} /\ h1[t] \subseteq Tickets /\ fixes[t] \in 0..MaxFixes
    BY DEF Work, WorkTypes, Landings
  <1>2. /\ \A k \in h1[t] : k[1] = t /\ state[k] = "done"
        /\ \A k \in Planned : k[1] = t => k \in h1[t]
        /\ history[Final(t)] = history[base[t]] \cup h1[t]
    BY <1>1 DEF Work, Measures
  <1>3. Final(t) \in h1[t]
    BY <1>1, NewestIs DEF Final
  <1>4. CASE fixes[t] = 0
    <2>1. Authority(t) = Final(t)
      BY <1>4 DEF Authority
    <2>2. ASSUME NEW k \in Members(t) PROVE k \in h1[t]
      <3>1. k \in Tickets /\ k[1] = t /\ state[k] # "absent"
        BY DEF Members
      <3>2. k[2] \in Int /\ Works \in Int
        BY <3>1, TicketIs, BoundsAre
      <3>3. k \notin Fixes
        BY <1>4, <3>1, <3>2, TicketIs DEF Work, Corrected
      <3>4. QED
        BY <1>2, <3>1, <3>3 DEF Fixes
    <2>3. QED
      BY <1>1, <1>2, <1>3, <2>1, <2>2
  <1>5. CASE fixes[t] # 0
    <2>1. recheck[t].of = Corrections(t) /\ Authority(t) = recheck[t].head
      BY <1>5 DEF Authority
    <2>2. Corrections(t) # {}
      <3>1. 1 \in 1..fixes[t]
        BY <1>1, <1>5, BoundsAre
      <3>2. QED
        BY <3>1 DEF Corrections
    <2>3. ASSUME NEW k \in Members(t) PROVE (k \in Planned /\ k[1] = t) \/ k \in Corrections(t)
      <3>1. k \in Tickets /\ k[1] = t /\ state[k] # "absent"
        BY DEF Members
      <3>2. CASE k \in Fixes
        <4>1. k[2] <= Works + fixes[t]
          BY <3>1, <3>2 DEF Work, Corrected
        <4>2. QED
          BY <1>1, <3>1, <3>2, <4>1, CorrectionIs
      <3>3. CASE k \notin Fixes
        BY <3>1, <3>3 DEF Fixes
      <3>4. QED
        BY <3>2, <3>3
    <2>4. QED
      BY <1>1, <2>1, <2>2, <2>3 DEF Work, Rechecks, Members
  <1>6. QED
    BY <1>4, <1>5

LEMMA ChooseBaseStep ==
  ASSUME IInv, ChooseBase
  PROVE  IInv'
  <1>0. PICK t \in Tranches : t = held[2]
    BY HeldIs DEF ChooseBase, At, Busy, Underway
  <1>1. /\ pc = "run" /\ held[1] = "materialize" /\ UNCHANGED <<ledgerVars, gitVars, faultVars>>
    BY DEF ChooseBase, At, Raise
  <1>2. held \in Claims /\ Succeedable(t)
    BY <1>0, <1>1, HeldIs DEF IInv, Stage, Succeeds, Busy, Underway
  <1>3. UNCHANGED workVars
    BY <1>1 DEF ledgerVars, workVars
  <1>4. Work'
    BY <1>3, WorkStays DEF IInv
  <1>5. CASE status[t + 1] # "active" /\ Authority(t) = NoCommit
    BY <1>0, <1>5, QuietStep DEF ChooseBase
  <1>6. CASE status[t + 1] = "active" \/ Authority(t) # NoCommit
    <2>1. /\ UNCHANGED <<held, scope>>
          /\ \/ pc' = "apply" /\ chosen' = chosen /\ status[t + 1] = "active"
             \/ /\ pc' = "write" /\ status[t + 1] # "active"
                /\ chosen' = [base |-> Authority(t), known |-> Members(t)]
                /\ Authority(t) # NoCommit
      BY <1>0, <1>6 DEF ChooseBase, Goto
    <2>2. t \in landed /\ status[t + 1] \in {"planned", "active"}
      BY <1>2 DEF Succeedable
    <2>3. pc' = "write" => /\ Authority(t) \in Tickets /\ state[Authority(t)] = "done"
                           /\ Members(t) \subseteq history[Authority(t)]
      BY <2>1, <2>2, AuthorityIs DEF IInv
    <2>4. Members(t) \subseteq Tickets
      BY DEF Members
    <2>5. StageTypes'
      <3>1. chosen' \in [base : Commits \cup {NoCommit}, known : SUBSET Tickets]
        BY <2>1, <2>3, <2>4, Names DEF IInv, Stage, StageTypes
      <3>2. QED
        BY <1>1, <2>1, <3>1, StageTypesStay DEF IInv, Stage, StageTypes, ledgerVars
    <2>6. Holds'
      BY <1>1, <1>2, <2>1 DEF IInv, Stage, Holds, Busy, Underway, Paid, ledgerVars
    <2>7. Applies'
      BY <1>1, AppliesStays DEF ledgerVars
    <2>8. Chained' /\ Lands'
      BY <1>1, <2>1 DEF Chained, Lands
    <2>9. Succeeds'
      <3>1. Succeedable(t)' <=> Succeedable(t)
        BY <1>3 DEF Succeedable, Approved, workVars
      <3>2. status' = status /\ state' = state /\ history' = history /\ held'[2] = t
        BY <1>0, <1>3, <2>1 DEF workVars
      <3>3. pc' = "write" => /\ chosen'.base \in Tickets /\ state[chosen'.base] = "done"
                             /\ chosen'.known \subseteq history[chosen'.base]
                             /\ status[t + 1] = "planned"
        BY <2>1, <2>2, <2>3
      <3>4. Succeedable(held[2])'
        BY <1>0, <1>2, <2>1, <3>1
      <3>5. QED
        BY <2>1, <3>2, <3>3, <3>4 DEF Succeeds
    <2>10. QED
      BY <1>4, <2>5, <2>6, <2>7, <2>8, <2>9 DEF IInv, Stage
  <1>7. QED
    BY <1>5, <1>6

----------------------------------------------------------------------------
(* Steps beside the stages.                                                *)

LEMMA BaseIs ==
  ASSUME Work, NEW t \in Tranches, status[t] # "planned"
  PROVE  /\ base[t] \in Tickets \cup {Root}
         /\ base[t] \in Tickets => state[base[t]] = "done"
         /\ base[t] \in history[base[t]]
  <1>1. t = 1 \/ t > 1
    BY TranchesAre
  <1>2. CASE t = 1
    BY <1>2, Names DEF Work, Bases, Pasts
  <1>3. CASE t > 1
    BY <1>3, Names DEF Work, Bases, Dones
  <1>4. QED
    BY <1>1, <1>2, <1>3

LEMMA FinalIs ==
  ASSUME Work, NEW t \in Tranches, h1[t] # {}
  PROVE  /\ Final(t) \in h1[t] /\ Final(t) \in Tickets /\ state[Final(t)] = "done"
         /\ h1[t] \subseteq Tickets /\ status[t] # "planned"
  <1>1. h1[t] \subseteq Tickets /\ status[t] # "planned"
    BY DEF Work, WorkTypes, Unplanned, Untouched
  <1>2. Final(t) \in h1[t]
    BY <1>1, NewestIs DEF Final
  <1>3. QED
    BY <1>1, <1>2 DEF Work, Measures

\* Whatever happens while a tick stands between two steps leaves it what it relies on.
LEMMA Beside ==
  ASSUME IInv, Work', foreign' \in 0..MaxFaults,
         UNCHANGED <<claimVars, artifact, call, activated, tickVars, crashes, trancheVars, h1,
                     checkpoint, approval, landed>>,
         \A k \in Tickets : /\ state[k] = "done" => state'[k] = "done"
                            /\ state[k] # "absent" => state'[k] # "absent",
         \A c \in Tickets \cup {Root} : history'[c] = history[c],
         history[canonical] \subseteq history'[canonical']
  PROVE  IInv'
  <1>1. StageTypes'
    BY DEF IInv, Stage, StageTypes
  <1>2. Holds' /\ Applies'
    BY DEF IInv, Stage, Holds, Applies
  <1>3. Chained'
    <2>1. SUFFICES ASSUME pc = "apply", held[1] = "checkpoint"
                   PROVE  LET t == held[2] IN
                          /\ measured[t] # {} /\ measured[t] \subseteq Members(t)'
                          /\ history'[Newest(measured[t])] = history'[base[t]] \cup measured[t]
      BY DEF Chained
    <2>2. PICK t \in Tranches : t = held[2]
      BY <2>1, HeldIs DEF Busy, Underway
    <2>3. /\ measured[t] # {} /\ measured[t] \subseteq Members(t)
          /\ history[Newest(measured[t])] = history[base[t]] \cup measured[t]
      BY <2>1, <2>2 DEF IInv, Stage, Chained
    <2>4. measured[t] \subseteq Tickets /\ \A k \in measured[t] : k[1] = t /\ state[k] # "absent"
      BY <2>3 DEF Members
    <2>5. Newest(measured[t]) \in Tickets
      BY <2>3, <2>4, NewestIs
    <2>6. status[t] # "planned"
      BY <2>3, <2>4 DEF IInv, Work, Unplanned, Untouched
    <2>7. base[t] \in Tickets \cup {Root}
      BY <2>6, BaseIs DEF IInv
    <2>8. measured[t] \subseteq Members(t)'
      BY <2>4 DEF Members
    <2>9. QED
      BY <2>2, <2>3, <2>5, <2>7, <2>8
  <1>4. Lands'
    <2>1. SUFFICES ASSUME pc \in Busy, held[1] = "landing"
                   PROVE  LET t == held[2] IN
                          Landable(t)' /\ (pc = "apply" => history'[Final(t)'] \subseteq history'[canonical'])
      BY DEF Lands
    <2>2. PICK t \in Tranches : t = held[2]
      BY <2>1, HeldIs
    <2>3. Landable(t) /\ (pc = "apply" => history[Final(t)] \subseteq history[canonical])
      BY <2>1, <2>2 DEF IInv, Stage, Lands
    <2>4. Landable(t)' /\ Final(t)' = Final(t)
      BY <2>3 DEF Landable, Approved, Final
    <2>5. Final(t) \in Tickets
      BY <2>3, FinalIs DEF IInv, Landable
    <2>6. Landable(held[2])'
      BY <2>2, <2>4
    <2>7. Final(held[2])' = Final(t)
      BY <2>2, <2>4
    <2>8. QED
      BY <2>3, <2>5, <2>6, <2>7
  <1>5. Succeeds'
    <2>1. Succeedable(held[2])' <=> Succeedable(held[2])
      BY DEF Succeedable, Approved
    <2>2. QED
      BY <2>1 DEF IInv, Stage, Succeeds
  <1>6. QED
    BY <1>1, <1>2, <1>3, <1>4, <1>5 DEF IInv, Stage

\* A ticket moves on short of being done, or its card does.
LEMMA TicketsMove ==
  ASSUME Work, WorkTypes', Unplanned', Carded', Binds',
         \A k \in Fixes : state'[k] # "absent" => k[2] <= Works + fixes[k[1]],
         UNCHANGED <<trancheVars, gitVars, h1, checkpoint, approval, landed, materialized, fixVars>>,
         \A k \in Tickets : /\ state'[k] = "done" <=> state[k] = "done"
                            /\ state[k] # "absent" => state'[k] # "absent"
  PROVE  Work'
  <1>1. Bases'
    BY PlannedAreTickets DEF Work, Bases
  <1>2. Recorded' /\ Corrected' /\ LandedApproved'
    BY DEF Work, Recorded, Corrected, Final, LandedApproved, Ancestor
  <1>3. Heads'
    BY DEF Work, Heads, Based
  <1>4. Dones' /\ Pasts'
    BY DEF Work, Dones, Pasts
  <1>5. Measures' /\ Landings'
    <2>1. \A t \in Tranches : h1[t] \subseteq Tickets
      BY DEF Work, WorkTypes
    <2>2. Measures'
      BY <2>1 DEF Work, Measures, Based, Final
    <2>3. Landings'
      BY DEF Work, Landings, Final
    <2>4. QED
      BY <2>2, <2>3
  <1>6. Rechecks'
    BY DEF Work, Rechecks
  <1>7. QED
    BY <1>1, <1>2, <1>3, <1>4, <1>5, <1>6 DEF Work

LEMMA DeliverCardStep ==
  ASSUME IInv, DeliverCard
  PROVE  IInv'
  <1>1. PICK k \in Tickets :
          /\ card[k].status = "pending"
          /\ card' = [card EXCEPT ![k].status = IF card[k].base = Provenance(k)
                                                THEN "acknowledged" ELSE "terminal"]
    BY DEF DeliverCard, Due
  <1>2. /\ \A l \in Tickets \ {k} : card'[l] = card[l]
        /\ card'[k].base = card[k].base
        /\ card'[k].status = IF card[k].base = Provenance(k) THEN "acknowledged" ELSE "terminal"
        /\ card' \in [Tickets -> [status : {"none", "pending", "terminal", "acknowledged"},
                                  base : Commits \cup {NoCommit}]]
    BY <1>1 DEF IInv, Work, WorkTypes
  <1>3. /\ EndTick
        /\ UNCHANGED <<trancheVars, state, bound, gitVars, claimVars, h1Vars, paidVars, landed, nextVars,
                       fixVars, faultVars>>
    BY DEF DeliverCard
  <1>4. WorkTypes'
    BY <1>2, <1>3 DEF IInv, Work, WorkTypes
  <1>5. Unplanned'
    BY <1>1, <1>2, <1>3 DEF IInv, Work, Unplanned, Untouched
  <1>6. Carded'
    <2>1. ASSUME k \in Planned, card'[k].status = "acknowledged"
          PROVE  Based(k[1])
      <3>1. k[1] \in Tranches /\ status[k[1]] # "planned" /\ card[k].base = base[k[1]]
        BY <1>1, <2>1, TicketIs DEF IInv, Work, Unplanned, Untouched, Carded
      <3>2. CASE materialized[k[1]] # NoCommit
        BY <3>2 DEF Based
      <3>3. CASE materialized[k[1]] = NoCommit
        <4>1. base[k[1]] = Root
          BY <1>2, <2>1, <3>1, <3>3 DEF Provenance
        <4>2. ~(k[1] > 1)
          BY <3>1, <4>1, Names DEF IInv, Work, Bases
        <4>3. QED
          BY <3>1, <4>2, TranchesAre DEF Based
      <3>4. QED
        BY <3>2, <3>3
    <2>2. \A l \in Planned : l \in Tickets
      BY PlannedAreTickets
    <2>3. ASSUME NEW l \in Planned, card'[l].status # "none"
          PROVE  card'[l].base = base[l[1]] /\ (card'[l].status = "acknowledged" => Based(l[1]))
      <3>1. CASE l = k
        BY <1>1, <1>2, <2>1, <2>3, <3>1 DEF IInv, Work, Carded
      <3>2. CASE l # k
        BY <1>2, <2>2, <2>3, <3>2 DEF IInv, Work, Carded
      <3>3. QED
        BY <3>1, <3>2
    <2>4. QED
      BY <1>3, <2>3 DEF Carded, Based
  <1>7. Binds'
    BY <1>3 DEF IInv, Work, Binds, Based
  <1>8. \A l \in Fixes : state'[l] # "absent" => l[2] <= Works + fixes[l[1]]
    BY <1>3 DEF IInv, Work, Corrected
  <1>9. Work'
    BY <1>3, <1>4, <1>5, <1>6, <1>7, <1>8, TicketsMove DEF IInv
  <1>10. QED
    BY <1>3, <1>9, EndStep DEF IInv, Stage, StageTypes

LEMMA ReopenCardStep ==
  ASSUME IInv, ReopenCard
  PROVE  IInv'
  <1>1. PICK k \in Tickets :
          /\ card[k].status = "terminal"
          /\ card' = [card EXCEPT ![k].status = "pending"]
    BY DEF ReopenCard
  <1>2. /\ \A l \in Tickets \ {k} : card'[l] = card[l]
        /\ card'[k].base = card[k].base /\ card'[k].status = "pending"
        /\ card' \in [Tickets -> [status : {"none", "pending", "terminal", "acknowledged"},
                                  base : Commits \cup {NoCommit}]]
    BY <1>1 DEF IInv, Work, WorkTypes
  <1>3. UNCHANGED <<trancheVars, state, bound, gitVars, claimVars, h1Vars, paidVars, landed, nextVars,
                    fixVars, tickVars, faultVars>>
    BY DEF ReopenCard
  <1>4. WorkTypes'
    BY <1>2, <1>3 DEF IInv, Work, WorkTypes
  <1>5. Unplanned'
    BY <1>1, <1>2, <1>3 DEF IInv, Work, Unplanned, Untouched
  <1>6. Carded'
    BY <1>1, <1>2, <1>3, PlannedAreTickets DEF IInv, Work, Carded, Based
  <1>7. Binds'
    BY <1>3 DEF IInv, Work, Binds, Based
  <1>8. \A l \in Fixes : state'[l] # "absent" => l[2] <= Works + fixes[l[1]]
    BY <1>3 DEF IInv, Work, Corrected
  <1>9. Work'
    BY <1>3, <1>4, <1>5, <1>6, <1>7, <1>8, TicketsMove DEF IInv
  <1>10. QED
    BY <1>3, <1>9, Beside DEF IInv, Stage, StageTypes

LEMMA AdmitTicketStep ==
  ASSUME IInv, AdmitTicket
  PROVE  IInv'
  <1>1. PICK k \in Tickets : /\ state[k] = "draft" /\ bound[k] # NoCommit
                             /\ state' = [state EXCEPT ![k] = "ready"]
    BY DEF AdmitTicket
  <1>2. /\ EndTick
        /\ UNCHANGED <<trancheVars, bound, card, gitVars, claimVars, h1Vars, paidVars, landed, nextVars,
                       fixVars, faultVars>>
    BY DEF AdmitTicket
  <1>3. /\ state'[k] = "ready" /\ \A l \in Tickets \ {k} : state'[l] = state[l]
        /\ state' \in [Tickets -> {"absent", "draft", "ready", "done"}]
    BY <1>1 DEF IInv, Work, WorkTypes
  <1>4. WorkTypes'
    BY <1>2, <1>3 DEF IInv, Work, WorkTypes
  <1>5. Unplanned'
    BY <1>1, <1>2, <1>3 DEF IInv, Work, Unplanned, Untouched
  <1>6. Carded'
    BY <1>2 DEF IInv, Work, Carded, Based
  <1>7. Binds'
    BY <1>1, <1>2, <1>3, PlannedAreTickets DEF IInv, Work, Binds, Based
  <1>8. \A l \in Fixes : state'[l] # "absent" => l[2] <= Works + fixes[l[1]]
    BY <1>1, <1>2, <1>3 DEF IInv, Work, Corrected, Fixes
  <1>9. Work'
    BY <1>1, <1>2, <1>3, <1>4, <1>5, <1>6, <1>7, <1>8, TicketsMove DEF IInv
  <1>10. QED
    BY <1>2, <1>9, EndStep DEF IInv, Stage, StageTypes

LEMMA ActivateTicketStep ==
  ASSUME IInv, ActivateTicket
  PROVE  IInv'
  <1>1. PICK k \in Candidates :
          /\ bound' = [bound EXCEPT ![k] = Binding(k)]
          /\ \/ state' = [state EXCEPT ![k] = "ready"] /\ crashes' = crashes
             \/ crashes + foreign < MaxFaults /\ crashes' = crashes + 1 /\ state' = state
    BY DEF ActivateTicket
  <1>2. /\ EndTick
        /\ UNCHANGED <<trancheVars, card, gitVars, claimVars, h1Vars, paidVars, landed, nextVars, fixVars, foreign>>
    BY DEF ActivateTicket
  <1>3. k \in Tickets /\ state[k] = "draft" /\ card[k].status = "acknowledged" /\ bound[k] = NoCommit
    BY DEF Candidates
  <1>4. k[1] \in Tranches /\ status[k[1]] # "planned"
    BY <1>3, TicketIs DEF IInv, Work, Unplanned, Untouched
  <1>5. /\ Binding(k) \in Commits \cup {NoCommit}
        /\ k \in Planned => Binding(k) = base[k[1]] /\ Binding(k) # NoCommit /\ Based(k[1])
    <2>1. k \in Fixes => Binding(k) = head[k[1]]
      BY DEF Binding
    <2>2. k \notin Fixes => Binding(k) = card[k].base
      BY DEF Binding
    <2>3. k \in Planned <=> k \notin Fixes
      BY <1>3 DEF Fixes
    <2>4. k \in Planned => card[k].base = base[k[1]] /\ Based(k[1])
      BY <1>3 DEF IInv, Work, Carded
    <2>5. base[k[1]] \in Commits /\ base[k[1]] # NoCommit
      BY <1>4, BaseIs, Names DEF IInv
    <2>6. head[k[1]] \in Commits \cup {NoCommit}
      BY <1>4 DEF IInv, Work, WorkTypes
    <2>7. QED
      BY <2>1, <2>2, <2>3, <2>4, <2>5, <2>6
  <1>6. /\ bound'[k] = Binding(k) /\ \A l \in Tickets \ {k} : bound'[l] = bound[l]
        /\ bound' \in [Tickets -> Commits \cup {NoCommit}]
    BY <1>1, <1>3, <1>5 DEF IInv, Work, WorkTypes
  <1>7. /\ state'[k] \in {"ready", "draft"} /\ \A l \in Tickets \ {k} : state'[l] = state[l]
        /\ state' \in [Tickets -> {"absent", "draft", "ready", "done"}]
    <2>1. state \in [Tickets -> {"absent", "draft", "ready", "done"}]
      BY DEF IInv, Work, WorkTypes
    <2>2. CASE state' = state
      BY <1>3, <2>1, <2>2
    <2>3. CASE state' = [state EXCEPT ![k] = "ready"]
      BY <1>3, <2>1, <2>3
    <2>4. QED
      BY <1>1, <2>2, <2>3
  <1>8. WorkTypes'
    BY <1>2, <1>6, <1>7 DEF IInv, Work, WorkTypes
  <1>9. Unplanned'
    BY <1>2, <1>4, <1>6, <1>7 DEF IInv, Work, Unplanned, Untouched
  <1>10. Carded'
    BY <1>2 DEF IInv, Work, Carded, Based
  <1>11. Binds'
    BY <1>2, <1>5, <1>6, <1>7, PlannedAreTickets DEF IInv, Work, Binds, Based
  <1>12. \A l \in Fixes : state'[l] # "absent" => l[2] <= Works + fixes[l[1]]
    BY <1>2, <1>3, <1>7 DEF IInv, Work, Corrected, Fixes
  <1>13. Work'
    BY <1>2, <1>3, <1>7, <1>8, <1>9, <1>10, <1>11, <1>12, TicketsMove DEF IInv
  <1>14. crashes' \in 0..MaxFaults /\ foreign' \in 0..MaxFaults
    BY <1>1, <1>2, BoundsAre DEF IInv, Stage, StageTypes
  <1>15. QED
    BY <1>2, <1>13, <1>14, EndStep DEF IInv, Stage, StageTypes

----------------------------------------------------------------------------
(* Operators.                                                              *)

LEMMA FixesMove ==
  ASSUME Work, WorkTypes', Unplanned', Corrected', Rechecks',
         UNCHANGED <<trancheVars, ticketVars, gitVars, h1, checkpoint, approval, landed, materialized>>
  PROVE  Work'
  <1>1. Bases' /\ Recorded' /\ Carded' /\ Binds'
    BY DEF Work, Bases, Recorded, Carded, Binds, Based, Final
  <1>2. Heads' /\ Dones' /\ Pasts' /\ LandedApproved'
    BY DEF Work, Heads, Based, Dones, Pasts, LandedApproved, Ancestor
  <1>3. Measures' /\ Landings'
    BY DEF Work, Measures, Landings, Based, Final
  <1>4. QED
    BY <1>1, <1>2, <1>3 DEF Work

\* A tranche has no more corrections than all of them together.
LEMMA RoomIs ==
  ASSUME WorkTypes, NEW t \in Tranches,
         Cardinality({k \in Fixes : k[2] <= Works + fixes[k[1]]}) < MaxFixes
  PROVE  fixes[t] + 1 \in 0..MaxFixes
  <1> DEFINE S == {k \in Fixes : k[2] <= Works + fixes[k[1]]}
             f == [n \in 1..MaxFixes |-> <<t, Works + n>>]
  <1>1. fixes[t] \in 0..MaxFixes /\ MaxFixes \in Nat /\ Works \in Nat
    BY BoundsAre DEF WorkTypes
  <1>2. IsFiniteSet(S)
    <2>1. IsFiniteSet(Tranches) /\ IsFiniteSet(1..(Works + MaxFixes))
      BY BoundsAre, FS_Interval DEF Tranches
    <2>2. IsFiniteSet(Tickets)
      BY <2>1, FS_Product DEF Tickets
    <2>3. S \in SUBSET Tickets
      BY DEF Fixes
    <2>4. QED
      BY <2>2, <2>3, FS_Subset
  <1>3. ASSUME fixes[t] = MaxFixes PROVE FALSE
    <2>1. ASSUME NEW n \in 1..MaxFixes PROVE <<t, Works + n>> \in S
      <3> DEFINE k == <<t, Works + n>>
      <3>1. k \in Tickets /\ k[1] = t /\ k[2] = Works + n
        BY <1>1 DEF Tickets
      <3> HIDE DEF k
      <3>2. k \in Fixes
        BY <1>1, <3>1, TicketIs
      <3>3. k[2] <= Works + fixes[k[1]]
        BY <1>1, <1>3, <3>1
      <3>4. k \in S
        BY <3>2, <3>3
      <3>5. QED
        BY <3>4 DEF k
    <2>2. \A n, m \in 1..MaxFixes : f[n] = f[m] => n = m
      BY <1>1
    <2>3. f \in [1..MaxFixes -> S]
      BY <2>1
    <2> HIDE DEF f, S
    <2>4. f \in Injection(1..MaxFixes, S)
      BY <2>2, <2>3, Fun_IsInj
    <2>5. Cardinality(1..MaxFixes) <= Cardinality(S)
      BY <1>2, <2>4, FS_Injection
    <2>6. Cardinality(1..MaxFixes) = MaxFixes
      BY <1>1, FS_Interval
    <2>7. Cardinality(S) \in Nat
      BY <1>2, FS_CardinalityType
    <2>8. Cardinality(S) < MaxFixes
      BY DEF S
    <2>9. QED
      BY <1>1, <2>5, <2>6, <2>7, <2>8
  <1>4. QED
    BY <1>1, <1>3

LEMMA PlanFixStep ==
  ASSUME IInv, NEW t \in Tranches, PlanFix(t)
  PROVE  IInv'
  <1>1. /\ UNCHANGED <<trancheVars, ticketVars, gitVars, claimVars, h1Vars, paidVars, landed, nextVars, recheck,
                       tickVars, faultVars>>
        /\ fixes' = [fixes EXCEPT ![t] = @ + 1]
    BY DEF PlanFix
  <1>2. PICK k \in Planned : k[1] = t /\ state[k] = "done"
    BY DEF PlanFix
  <1>3. k \in Tickets /\ head[t] # NoCommit /\ status[t] # "planned"
    <2>1. k \in Tickets
      BY PlannedAreTickets
    <2>2. head[t] # NoCommit
      BY <1>2, <2>1 DEF IInv, Work, Dones
    <2>3. status[t] # "planned"
      BY <2>2 DEF IInv, Work, Unplanned, Untouched
    <2>4. QED
      BY <2>1, <2>2, <2>3
  <1>4. fixes[t] + 1 \in 0..MaxFixes
    BY RoomIs DEF PlanFix, IInv, Work
  <1>5. /\ fixes'[t] = fixes[t] + 1 /\ \A u \in Tranches \ {t} : fixes'[u] = fixes[u]
        /\ fixes' \in [Tranches -> 0..MaxFixes]
    BY <1>1, <1>4 DEF IInv, Work, WorkTypes
  <1>6. WorkTypes'
    BY <1>1, <1>5 DEF IInv, Work, WorkTypes
  <1>7. Unplanned'
    BY <1>1, <1>3, <1>5 DEF IInv, Work, Unplanned, Untouched
  <1>8. Corrected'
    <2>1. \A u \in Tranches : fixes'[u] # 0 => head'[u] # NoCommit
      BY <1>1, <1>3, <1>5 DEF IInv, Work, Corrected
    <2>2. ASSUME NEW l \in Fixes, state'[l] # "absent" PROVE l[2] <= Works + fixes'[l[1]]
      <3>1. l[2] <= Works + fixes[l[1]]
        BY <1>1, <2>2 DEF IInv, Work, Corrected
      <3>2. l[1] \in Tranches /\ l[2] \in Int /\ Works \in Int /\ fixes[l[1]] \in Int
        BY TicketIs, BoundsAre DEF Fixes, IInv, Work, WorkTypes
      <3>3. fixes'[l[1]] = fixes[l[1]] \/ fixes'[l[1]] = fixes[l[1]] + 1
        BY <1>5, <3>2
      <3>4. QED
        BY <3>1, <3>2, <3>3
    <2>3. QED
      BY <2>1, <2>2 DEF Corrected
  <1>9. Rechecks'
    BY <1>1 DEF IInv, Work, Rechecks
  <1>10. Work'
    BY <1>1, <1>6, <1>7, <1>8, <1>9, FixesMove DEF IInv
  <1>11. QED
    BY <1>1, <1>10, Beside DEF IInv, Stage, StageTypes

LEMMA MaterializeFixStep ==
  ASSUME IInv, NEW t \in Tranches, MaterializeFix(t)
  PROVE  IInv'
  <1>1. PICK n \in 1..fixes[t] :
          /\ state[<<t, Works + n>>] = "absent"
          /\ state' = [state EXCEPT ![<<t, Works + n>>] = "draft"]
          /\ card' = [card EXCEPT ![<<t, Works + n>>] =
                        [status |-> "pending", base |-> Provenance(<<t, Works + n>>)]]
    BY DEF MaterializeFix
  <1>2. UNCHANGED <<trancheVars, bound, gitVars, claimVars, h1Vars, paidVars, landed, nextVars, fixVars,
                    tickVars, faultVars>>
    BY DEF MaterializeFix
  <1>3. PICK k \in Tickets : k = <<t, Works + n>> /\ k[1] = t /\ k[2] = Works + n /\ k \in Fixes
    <2>1. fixes[t] \in 0..MaxFixes /\ MaxFixes \in Nat /\ Works \in Nat
      BY BoundsAre DEF IInv, Work, WorkTypes
    <2>2. <<t, Works + n>> \in Tickets
      BY <2>1 DEF Tickets
    <2>3. <<t, Works + n>>[1] = t /\ <<t, Works + n>>[2] = Works + n /\ Works + n > Works
      BY <2>1
    <2>4. QED
      BY <2>2, <2>3, TicketIs
  <1>4. fixes[t] # 0 /\ status[t] # "planned"
    BY DEF IInv, Work, WorkTypes, Unplanned, Untouched
  <1>5. Provenance(k) \in Commits \cup {NoCommit}
    BY <1>3, Names DEF Provenance, IInv, Work, WorkTypes
  <1>6. /\ state'[k] = "draft" /\ \A l \in Tickets \ {k} : state'[l] = state[l] /\ card'[l] = card[l]
        /\ state' \in [Tickets -> {"absent", "draft", "ready", "done"}]
        /\ card' \in [Tickets -> [status : {"none", "pending", "terminal", "acknowledged"},
                                  base : Commits \cup {NoCommit}]]
    BY <1>1, <1>3, <1>5 DEF IInv, Work, WorkTypes
  <1>7. state[k] = "absent" /\ k \notin Planned
    BY <1>1, <1>3 DEF Fixes
  <1>8. WorkTypes'
    BY <1>2, <1>6 DEF IInv, Work, WorkTypes
  <1>9. Unplanned'
    BY <1>2, <1>3, <1>4, <1>6 DEF IInv, Work, Unplanned, Untouched
  <1>10. Carded'
    BY <1>2, <1>6, <1>7, PlannedAreTickets DEF IInv, Work, Carded, Based
  <1>11. Binds'
    BY <1>2, <1>6, <1>7, PlannedAreTickets DEF IInv, Work, Binds, Based
  <1>12. \A l \in Fixes : state'[l] # "absent" => l[2] <= Works + fixes[l[1]]
    <2>1. k[2] <= Works + fixes[k[1]]
      BY <1>3, BoundsAre DEF IInv, Work, WorkTypes
    <2>2. QED
      BY <1>6, <2>1 DEF IInv, Work, Corrected, Fixes
  <1>13. Work'
    BY <1>2, <1>6, <1>7, <1>8, <1>9, <1>10, <1>11, <1>12, TicketsMove DEF IInv
  <1>14. QED
    BY <1>2, <1>6, <1>7, <1>13, Beside DEF IInv, Stage, StageTypes

LEMMA RecheckStep ==
  ASSUME IInv, NEW t \in Tranches, Recheck(t)
  PROVE  IInv'
  <1>1. /\ UNCHANGED <<trancheVars, ticketVars, gitVars, claimVars, h1Vars, paidVars, landed, nextVars, fixes,
                       tickVars, faultVars>>
        /\ recheck' = [recheck EXCEPT ![t] = [generation |-> recheck[t].generation + 1, fixes |-> fixes[t],
                                              of |-> Supplements(t), head |-> head[t]]]
        /\ Supplements(t) # {} /\ h1[t] # {}
        /\ \A k \in Supplements(t) : state[k] = "done" /\ Ancestor(k, head[t])
    BY DEF Recheck
  <1>2. Supplements(t) \subseteq Tickets /\ fixes[t] # 0
    <2>1. fixes[t] \in 0..MaxFixes /\ MaxFixes \in Nat /\ Works \in Nat
      BY BoundsAre DEF IInv, Work, WorkTypes
    <2>2. ASSUME NEW n \in 1..fixes[t] PROVE <<t, Works + n>> \in Tickets
      BY <2>1 DEF Tickets
    <2>3. QED
      BY <1>1, <2>1, <2>2 DEF Supplements, Corrections
  <1>3. /\ \A u \in Tranches \ {t} : recheck'[u] = recheck[u]
        /\ recheck'[t].of = Supplements(t) /\ recheck'[t].head = head[t]
        /\ recheck' \in [Tranches -> [generation : Nat, fixes : 0..MaxFixes, of : SUBSET Tickets,
                                       head : Commits \cup {NoCommit}]]
    BY <1>1, <1>2 DEF IInv, Work, WorkTypes
  <1>4. head[t] \in Tickets /\ state[head[t]] = "done"
    BY <1>2 DEF IInv, Work, Corrected, Heads
  <1>5. ASSUME NEW k \in Tickets, (k \in Planned /\ k[1] = t) \/ k \in Supplements(t)
        PROVE  k \in history[head[t]]
    <2>1. CASE k \in Planned /\ k[1] = t
      BY <1>1, <1>2, <2>1 DEF IInv, Work, Measures, Dones, Corrected
    <2>2. CASE k \in Supplements(t)
      BY <1>1, <2>2 DEF Ancestor
    <2>3. QED
      BY <1>5, <2>1, <2>2
  <1>6. WorkTypes'
    BY <1>1, <1>3 DEF IInv, Work, WorkTypes
  <1>7. Unplanned' /\ Corrected'
    BY <1>1, <1>2 DEF IInv, Work, Unplanned, Untouched, Corrected
  <1>8. Rechecks'
    BY <1>1, <1>3, <1>4, <1>5 DEF IInv, Work, Rechecks
  <1>9. Work'
    BY <1>1, <1>6, <1>7, <1>8, FixesMove DEF IInv
  <1>10. QED
    BY <1>1, <1>9, Beside DEF IInv, Stage, StageTypes

----------------------------------------------------------------------------
(* The canonical branch.                                                   *)

LEMMA CommitIs ==
  ASSUME WorkTypes, NEW d \in Commits, NEW P, NEW H \in SUBSET Commits,
         H = UNION {history[p] : p \in P}, Commit(d, P)
  PROVE  /\ history'[d] = H \cup {d} /\ \A c \in Commits \ {d} : history'[c] = history[c]
         /\ history' \in [Commits -> SUBSET Commits]
  <1> DEFINE U == UNION {history[p] : p \in P}
  <1>1. history' = [history EXCEPT ![d] = U \cup {d}]
    BY DEF Commit
  <1>2. U = H
    OBVIOUS
  <1> HIDE DEF U
  <1>3. QED
    BY <1>1, <1>2 DEF WorkTypes

LEMMA CanonicalMoves ==
  ASSUME Work, NEW d \in Commits, d \notin Tickets, d # Root, canonical' = d,
         history' \in [Commits -> SUBSET Commits],
         \A c \in Commits \ {d} : history'[c] = history[c],
         history[canonical] \subseteq history'[d],
         \A k \in Tickets : k \in history'[d] => state[k] = "done",
         LandedApproved', UNCHANGED <<ledgerVars, head>>
  PROVE  Work'
  <1> USE DEF ledgerVars
  <1>1. WorkTypes' /\ Unplanned' /\ Corrected'
    BY DEF Work, WorkTypes, Unplanned, Untouched, Corrected
  <1>2. Bases' /\ Recorded' /\ Carded' /\ Binds'
    BY DEF Work, Bases, Recorded, Carded, Binds, Based, Final
  <1>3. \A c \in Tickets \cup {Root} : history'[c] = history[c]
    BY Names
  <1>4. Heads'
    BY <1>3 DEF Work, Heads, Based
  <1>5. Dones'
    <2>1. SUFFICES ASSUME NEW k \in Tickets, state[k] = "done"
                   PROVE  head[k[1]] # NoCommit /\ {k, base[k[1]]} \subseteq history'[k] /\ k \in history'[head[k[1]]]
      BY DEF Dones
    <2>2. head[k[1]] # NoCommit /\ {k, base[k[1]]} \subseteq history[k] /\ k \in history[head[k[1]]]
      BY <2>1 DEF Work, Dones
    <2>3. head[k[1]] \in Tickets
      BY <2>2, TicketIs DEF Work, Heads
    <2>4. QED
      BY <1>3, <2>2, <2>3
  <1>6. Pasts'
    BY <1>3, Names DEF Work, Pasts
  <1>7. Measures' /\ Landings'
    <2>1. \A t \in Tranches : h1[t] # {} => Final(t) \in Tickets /\ base[t] \in Tickets \cup {Root}
      BY FinalIs, BaseIs
    <2>2. Measures'
      BY <1>3, <2>1 DEF Work, Measures, Based, Final
    <2>3. Landings'
      BY <1>3, <2>1 DEF Work, WorkTypes, Landings, Final
    <2>4. QED
      BY <2>2, <2>3
  <1>8. Rechecks'
    BY <1>3 DEF Work, Rechecks
  <1>9. QED
    BY <1>1, <1>2, <1>4, <1>5, <1>6, <1>7, <1>8 DEF Work

LEMMA ForeignCommitStep ==
  ASSUME IInv, ForeignCommit
  PROVE  IInv'
  <1>1. PICK d \in Commits : d = Foreign(foreign + 1) /\ d \notin Tickets /\ d # Root /\ foreign + 1 \in 1..MaxFaults
    BY Names, BoundsAre DEF ForeignCommit, IInv, Stage, StageTypes
  <1>2. /\ Commit(d, {canonical}) /\ canonical' = d /\ foreign' = foreign + 1
        /\ UNCHANGED <<ledgerVars, head, tickVars, crashes>>
    BY <1>1 DEF ForeignCommit
  <1>3. /\ history'[d] = history[canonical] \cup {d} /\ \A c \in Commits \ {d} : history'[c] = history[c]
        /\ history' \in [Commits -> SUBSET Commits]
    <2>1. history[canonical] = UNION {history[p] : p \in {canonical}}
      OBVIOUS
    <2>2. history[canonical] \in SUBSET Commits
      BY DEF IInv, Work, WorkTypes
    <2>3. QED
      BY <1>2, <2>1, <2>2, CommitIs DEF IInv, Work
  <1>4. LandedApproved'
    BY <1>1, <1>2, <1>3 DEF IInv, Work, LandedApproved, Ancestor, ledgerVars
  <1>5. \A k \in Tickets : k \in history'[d] => state[k] = "done"
    BY <1>1, <1>3 DEF IInv, Work, WorkTypes, Pasts
  <1>6. Work'
    BY <1>1, <1>2, <1>3, <1>4, <1>5, CanonicalMoves DEF IInv
  <1>7. \A c \in Tickets \cup {Root} : history'[c] = history[c]
    BY <1>1, <1>3, Names
  <1>8. QED
    BY <1>1, <1>2, <1>3, <1>6, <1>7, Beside DEF ledgerVars

LEMMA LandStep ==
  ASSUME IInv, Land
  PROVE  IInv'
  <1>0. PICK t \in Tranches : t = held[2]
    BY HeldIs DEF Land, At, Busy, Underway
  <1> DEFINE Clean == canonical = frozen[t] /\ Ancestor(frozen[t], Merged(t)) /\ canonical # Merged(t)
  <1>1. CASE ~Clean
    BY <1>0, <1>1, QuietStep DEF Land
  <1>2. CASE Clean
    <2>1. PICK d \in Commits : d = Landing(t) /\ d \notin Tickets /\ d # Root
      BY Names
    <2>2. /\ Commit(d, {canonical, Final(t)}) /\ canonical' = d /\ UNCHANGED <<ledgerVars, head, faultVars>>
          /\ pc = "run" /\ held[1] = "landing" /\ pc' = "apply" /\ UNCHANGED <<held, scope, chosen>>
      BY <1>0, <1>2, <2>1 DEF Land, At, Goto, Merged
    <2>3. Landable(t)
      BY <1>0, <2>2 DEF IInv, Stage, Lands, Busy, Underway
    <2>4. Final(t) \in Tickets /\ Final(t) \in Commits
      BY <2>3, FinalIs, Names DEF Landable, IInv
    <2>5. /\ history'[d] = history[canonical] \cup history[Final(t)] \cup {d}
          /\ \A c \in Commits \ {d} : history'[c] = history[c]
          /\ history' \in [Commits -> SUBSET Commits]
      <3>1. history[canonical] \cup history[Final(t)] = UNION {history[p] : p \in {canonical, Final(t)}}
        OBVIOUS
      <3>2. history[canonical] \cup history[Final(t)] \in SUBSET Commits
        BY <2>4 DEF IInv, Work, WorkTypes
      <3>3. QED
        BY <2>2, <3>1, <3>2, CommitIs DEF IInv, Work
    <2>6. ASSUME NEW k \in Tickets, k \in history[Final(t)]
          PROVE  k \in history[canonical] \/ k \in h1[t]
      <3>1. Based(t) /\ history[Final(t)] = history[base[t]] \cup h1[t] /\ status[t] # "planned"
        BY <2>3 DEF IInv, Work, Measures, Landable
      <3>2. CASE t = 1
        BY <2>6, <3>1, <3>2, Names DEF IInv, Work, Bases, Pasts
      <3>3. CASE t # 1
        <4>1. materialized[t] # NoCommit /\ t > 1
          BY <3>1, <3>3, TranchesAre DEF Based
        <4>2. base[t] = Final(t - 1) /\ t - 1 \in landed
          BY <3>1, <4>1 DEF IInv, Work, Recorded, Bases
        <4>3. history[base[t]] \subseteq history[canonical]
          BY <4>2 DEF IInv, Work, Landings
        <4>4. QED
          BY <2>6, <3>1, <4>3
      <3>4. QED
        BY <3>2, <3>3
    <2>7. LandedApproved'
      <3>1. SUFFICES ASSUME NEW k \in Tickets, k \in history'[d]
                     PROVE  /\ k \in h1[k[1]] /\ checkpoint[k[1]] = "ready"
                            /\ \E s \in Paid : approval[<<s, k[1]>>] = "approve"
        BY <2>2 DEF LandedApproved, Ancestor, ledgerVars
      <3>2. k \in history[canonical] \/ k \in h1[t]
        BY <2>1, <2>5, <2>6, <3>1
      <3>3. CASE k \in history[canonical]
        BY <3>3 DEF IInv, Work, LandedApproved, Ancestor
      <3>4. CASE k \in h1[t]
        <4>1. k[1] = t
          BY <2>3, <3>4 DEF IInv, Work, Measures, Landable
        <4>2. \E s \in Paid : approval[<<s, t>>] = "approve"
          BY <2>3 DEF Landable, Approved, Paid
        <4>3. QED
          BY <2>3, <3>4, <4>1, <4>2 DEF Landable
      <3>5. QED
        BY <3>2, <3>3, <3>4
    <2>8. \A k \in Tickets : k \in history'[d] => state[k] = "done"
      BY <2>1, <2>4, <2>5 DEF IInv, Work, WorkTypes, Pasts
    <2>9. Work'
      BY <2>1, <2>2, <2>5, <2>7, <2>8, CanonicalMoves DEF IInv
    <2>10. StageTypes'
      BY <2>2, StageTypesStay DEF IInv, Stage, StageTypes, ledgerVars
    <2>11. Holds' /\ Applies'
      BY <2>2, AppliesStays DEF IInv, Stage, Holds, Busy, Underway, Paid, ledgerVars
    <2>12. Chained' /\ Succeeds'
      BY <2>2 DEF Chained, Succeeds
    <2>13. Lands'
      <3>1. Landable(t)' /\ Final(t)' = Final(t) /\ held'[2] = t
        BY <1>0, <2>2, <2>3 DEF Landable, Approved, Final, ledgerVars
      <3>2. history'[Final(t)] \subseteq history'[canonical']
        BY <2>1, <2>2, <2>4, <2>5
      <3>3. Landable(held[2])' /\ Final(held[2])' = Final(t)
        BY <1>0, <2>2, <3>1
      <3>4. QED
        BY <3>2, <3>3 DEF Lands
    <2>14. QED
      BY <2>9, <2>10, <2>11, <2>12, <2>13 DEF IInv, Stage
  <1>3. QED
    BY <1>1, <1>2

----------------------------------------------------------------------------
(* What the effects of the stages write.                                   *)

\* With its effect a claim is at its end.
LEMMA AppliedIs ==
  ASSUME IInv, Applied, pc = "apply",
         UNCHANGED <<measured, frozen, artifact, call, crashes, foreign>>, activated' \subseteq Tranches,
         \A t \in Tranches : h1'[t] # {} => h1[t] # {} \/ held = <<"checkpoint", t>>,
         \A c \in Paid \X Tranches : approval'[c] # "none" => approval[c] # "none" \/ held = c
  PROVE  Stage'
  <1>1. /\ pc' = "complete" /\ UNCHANGED <<scope, held, chosen>>
        /\ claim' = [claim EXCEPT ![held].status = "applied"]
    BY DEF Applied, Goto
  <1>2. held \in Claims /\ claim \in [Claims -> [status : Open \cup {"absent", "completed", "failed"}, live : BOOLEAN]]
    BY HeldIs DEF Busy, Underway, IInv, Stage, StageTypes
  <1>3. /\ \A d \in Claims \ {held} : claim'[d] = claim[d]
        /\ claim'[held].status = "applied"
        /\ claim' \in [Claims -> [status : Open \cup {"absent", "completed", "failed"}, live : BOOLEAN]]
    BY <1>1, <1>2 DEF Open
  <1>4. StageTypes'
    BY <1>1, <1>3 DEF IInv, Stage, StageTypes
  <1>5. Holds'
    BY <1>1, <1>2 DEF Holds, Busy, Underway
  <1>6. Applies'
    <2>1. ASSUME NEW c \in Claims, claim[c].status \in {"applied", "completed", "failed"} \/ held = c
          PROVE  claim'[c].status \in {"applied", "completed", "failed"}
      BY <1>3, <2>1
    <2>2. ASSUME NEW t \in Tranches, h1'[t] # {}
          PROVE  claim'[<<"checkpoint", t>>].status \in {"applied", "completed", "failed"}
      <3>1. <<"checkpoint", t>> \in Claims
        BY StagesAre
      <3>2. h1[t] # {} => claim[<<"checkpoint", t>>].status \in {"applied", "completed", "failed"}
        BY DEF IInv, Stage, Applies
      <3>3. QED
        BY <2>1, <2>2, <3>1, <3>2
    <2>3. ASSUME NEW c \in Paid \X Tranches, approval'[c] # "none"
          PROVE  claim'[c].status \in {"applied", "completed", "failed"}
      <3>1. c \in Claims
        BY StagesAre
      <3>2. approval[c] # "none" => claim[c].status \in {"applied", "completed", "failed"}
        BY DEF IInv, Stage, Applies
      <3>3. QED
        BY <2>1, <2>3, <3>1, <3>2
    <2>4. QED
      BY <2>2, <2>3 DEF Applies
  <1>7. Chained' /\ Lands' /\ Succeeds'
    BY <1>1 DEF Chained, Lands, Succeeds, Busy, Underway
  <1>8. QED
    BY <1>4, <1>5, <1>6, <1>7 DEF Stage

LEMMA ApplyActivationStep ==
  ASSUME IInv, ApplyActivation
  PROVE  IInv'
  <1>0. PICK t \in Tranches : t = held[2]
    BY HeldIs DEF ApplyActivation, At, Busy, Underway
  <1>1. CASE ~Activatable(t)
    BY <1>0, <1>1, QuietStep DEF ApplyActivation
  <1>2. CASE Activatable(t)
    <2>1. /\ pc = "apply" /\ Applied /\ activated' = activated \cup {t}
          /\ UNCHANGED <<workVars, measured, frozen, artifact, call, crashes, foreign>>
      BY <1>0, <1>2 DEF ApplyActivation, At, workVars
    <2>2. Work'
      BY <2>1, WorkStays DEF IInv
    <2>3. activated' \subseteq Tranches
      BY <2>1 DEF IInv, Stage, StageTypes
    <2>4. Stage'
      BY <2>1, <2>3, AppliedIs DEF workVars
    <2>5. QED
      BY <2>2, <2>4 DEF IInv
  <1>3. QED
    BY <1>1, <1>2

LEMMA ApplyPaidStep ==
  ASSUME IInv, ApplyPaid
  PROVE  IInv'
  <1>1. /\ pc = "apply" /\ held[1] \in Paid /\ Applied /\ approval' = [approval EXCEPT ![held] = call[held]]
        /\ UNCHANGED <<trancheVars, ticketVars, gitVars, measured, frozen, h1Vars, call, landed, nextVars,
                       fixVars, faultVars>>
    BY DEF ApplyPaid
  <1>2. held \in Paid \X Tranches /\ call[held] \in Decisions /\ claim[held].status = "begun"
    BY <1>1, HeldIs, StagesAre DEF IInv, Stage, Holds, Busy, Underway
  <1>3. approval[held] = "none"
    BY <1>2 DEF IInv, Stage, Applies
  <1>4. /\ \A c \in (Paid \X Tranches) \ {held} : approval'[c] = approval[c]
        /\ approval' \in [Paid \X Tranches -> Decisions \cup {"none"}]
    BY <1>1, <1>2 DEF IInv, Work, WorkTypes
  <1>5. WorkTypes' /\ Unplanned' /\ Corrected'
    BY <1>1, <1>4 DEF IInv, Work, WorkTypes, Unplanned, Untouched, Corrected
  <1>6. Bases' /\ Recorded' /\ Carded' /\ Binds'
    BY <1>1 DEF IInv, Work, Bases, Recorded, Carded, Binds, Based, Final
  <1>7. Heads' /\ Dones' /\ Pasts' /\ Rechecks'
    BY <1>1 DEF IInv, Work, Heads, Based, Dones, Pasts, Rechecks
  <1>8. Measures' /\ Landings'
    BY <1>1 DEF IInv, Work, Measures, Landings, Based, Final
  <1>9. LandedApproved'
    <2>1. ASSUME NEW s \in Paid, NEW t \in Tranches, approval[<<s, t>>] = "approve"
          PROVE  approval'[<<s, t>>] = "approve"
      BY <1>3, <1>4, <2>1
    <2>2. \A k \in Tickets : k[1] \in Tranches
      BY TicketIs
    <2>3. QED
      BY <1>1, <2>1, <2>2 DEF IInv, Work, LandedApproved, Ancestor
  <1>10. Work'
    BY <1>5, <1>6, <1>7, <1>8, <1>9 DEF Work
  <1>11. activated' \subseteq Tranches
    BY <1>1 DEF IInv, Stage, StageTypes
  <1>12. Stage'
    BY <1>1, <1>4, <1>11, AppliedIs
  <1>13. QED
    BY <1>10, <1>12 DEF IInv

\* The completion is measured once.
LEMMA ApplyCheckpointStep ==
  ASSUME IInv, ApplyCheckpoint
  PROVE  IInv'
  <1>0. PICK t \in Tranches : t = held[2] /\ held = <<held[1], t>>
    BY HeldIs DEF ApplyCheckpoint, At, Busy, Underway
  <1> DEFINE Same == Complete(t) /\ Members(t) = measured[t]
  <1>1. CASE ~Same
    BY <1>0, <1>1, QuietStep DEF ApplyCheckpoint
  <1>2. CASE Same
    <2>1. /\ pc = "apply" /\ held[1] = "checkpoint" /\ Applied /\ h1' = [h1 EXCEPT ![t] = measured[t]]
          /\ checkpoint' = [checkpoint EXCEPT ![t] = IF artifact[t].passed THEN "ready" ELSE "failed"]
          /\ UNCHANGED <<trancheVars, ticketVars, gitVars, measured, frozen, artifact, paidVars, landed,
                         nextVars, fixVars, faultVars>>
      BY <1>0, <1>2 DEF ApplyCheckpoint, At
    <2>2. held = <<"checkpoint", t>> /\ claim[held].status = "begun"
      BY <1>0, <2>1 DEF IInv, Stage, Holds, Underway
    <2>3. h1[t] = {} /\ t \notin landed
      BY <2>2 DEF IInv, Stage, Applies, Work, Landings
    <2>4. /\ measured[t] # {} /\ measured[t] = Members(t)
          /\ history[Newest(measured[t])] = history[base[t]] \cup measured[t]
      BY <1>0, <1>2, <2>1 DEF IInv, Stage, Chained
    <2>5. /\ status[t] = "active" /\ measured[t] \subseteq Tickets
          /\ \A k \in measured[t] : k[1] = t /\ state[k] = "done"
      BY <1>2, <2>4 DEF Complete, Members
    <2>6. /\ h1'[t] = measured[t] /\ \A u \in Tranches \ {t} : h1'[u] = h1[u] /\ checkpoint'[u] = checkpoint[u]
          /\ h1' \in [Tranches -> SUBSET Tickets]
          /\ checkpoint' \in [Tranches -> {"none", "ready", "failed"}]
      BY <2>1, <2>5 DEF IInv, Work, WorkTypes
    <2>7. Based(t)
      <3>1. PICK k \in measured[t] : TRUE
        BY <2>4
      <3>2. head[t] # NoCommit
        BY <2>5, <3>1 DEF IInv, Work, Dones
      <3>3. QED
        BY <3>2 DEF IInv, Work, Heads
    <2>8. WorkTypes'
      BY <2>1, <2>6 DEF IInv, Work, WorkTypes
    <2>9. Unplanned' /\ Corrected'
      BY <2>1, <2>5, <2>6 DEF IInv, Work, Unplanned, Untouched, Corrected
    <2>10. Bases' /\ Carded' /\ Binds'
      BY <2>1 DEF IInv, Work, Bases, Carded, Binds, Based
    <2>11. Recorded'
      <3>1. ASSUME NEW u \in Tranches, materialized[u] # NoCommit
            PROVE  /\ u > 1 /\ status[u] # "planned" /\ materialized[u] = base[u]
                   /\ base[u] = Newest(h1'[u - 1])
        <4>1. u > 1 /\ status[u] # "planned" /\ materialized[u] = base[u] /\ base[u] = Newest(h1[u - 1])
          BY <3>1 DEF IInv, Work, Recorded, Final
        <4>2. u - 1 \in landed
          BY <4>1 DEF IInv, Work, Bases
        <4>3. u - 1 \in Tranches /\ u - 1 # t
          BY <2>3, <4>2 DEF IInv, Work, WorkTypes
        <4>4. QED
          BY <2>6, <4>1, <4>3
      <3>2. QED
        BY <2>1, <3>1 DEF Recorded, Final
    <2>12. Heads' /\ Dones' /\ Pasts' /\ Rechecks'
      BY <2>1 DEF IInv, Work, Heads, Based, Dones, Pasts, Rechecks
    <2>13. Measures'
      <3>1. SUFFICES ASSUME NEW u \in Tranches, h1'[u] # {}
                     PROVE  /\ \A k \in h1'[u] : k[1] = u /\ state[k] = "done"
                            /\ \A k \in Planned : k[1] = u => k \in h1'[u]
                            /\ Based(u) /\ history[Newest(h1'[u])] = history[base[u]] \cup h1'[u]
        BY <2>1 DEF Measures, Based, Final
      <3>2. CASE u = t
        <4>1. \A k \in Planned : k[1] = t => state[k] # "absent"
          BY <2>5 DEF IInv, Work, Bases
        <4>2. \A k \in Planned : k[1] = t => k \in measured[t]
          BY <2>4, <4>1, PlannedAreTickets DEF Members
        <4>3. QED
          BY <2>4, <2>5, <2>6, <2>7, <3>2, <4>2
      <3>3. CASE u # t
        BY <2>6, <3>1, <3>3 DEF IInv, Work, Measures, Final
      <3>4. QED
        BY <3>2, <3>3
    <2>14. Landings'
      <3>1. \A u \in landed : u \in Tranches /\ h1'[u] = h1[u]
        BY <2>3, <2>6 DEF IInv, Work, WorkTypes
      <3>2. QED
        BY <2>1, <3>1 DEF IInv, Work, Landings, Final
    <2>15. LandedApproved'
      <3>1. ASSUME NEW k \in Tickets, k \in history[canonical]
            PROVE  h1'[k[1]] = h1[k[1]] /\ checkpoint'[k[1]] = checkpoint[k[1]]
        BY <2>3, <2>6, <3>1, TicketIs DEF IInv, Work, LandedApproved, Ancestor
      <3>2. QED
        BY <2>1, <3>1 DEF IInv, Work, LandedApproved, Ancestor
    <2>16. Work'
      BY <2>8, <2>9, <2>10, <2>11, <2>12, <2>13, <2>14, <2>15 DEF Work
    <2>17. activated' \subseteq Tranches
      BY <2>1 DEF IInv, Stage, StageTypes
    <2>18. \A u \in Tranches : h1'[u] # {} => h1[u] # {} \/ held = <<"checkpoint", u>>
      BY <2>2, <2>6
    <2>19. Stage'
      BY <2>1, <2>17, <2>18, AppliedIs
    <2>20. QED
      BY <2>16, <2>19 DEF IInv
  <1>3. QED
    BY <1>1, <1>2

LEMMA ApplyLandingStep ==
  ASSUME IInv, ApplyLanding
  PROVE  IInv'
  <1>0. PICK t \in Tranches : t = held[2]
    BY HeldIs DEF ApplyLanding, At, Busy, Underway
  <1>1. CASE ~Landable(t)
    BY <1>0, <1>1, QuietStep DEF ApplyLanding
  <1>2. CASE Landable(t)
    <2>1. /\ pc = "apply" /\ held[1] = "landing" /\ Applied /\ landed' = landed \cup {t}
          /\ status' = [status EXCEPT ![t] = "completed"]
          /\ UNCHANGED <<base, ticketVars, gitVars, measured, frozen, h1Vars, paidVars, nextVars, fixVars,
                         faultVars>>
      BY <1>0, <1>2 DEF ApplyLanding, At
    <2>2. h1[t] # {} /\ status[t] = "active" /\ history[Final(t)] \subseteq history[canonical]
      BY <1>0, <1>2, <2>1 DEF Landable, IInv, Stage, Lands, Busy, Underway
    <2>3. /\ status'[t] = "completed" /\ \A u \in Tranches \ {t} : status'[u] = status[u]
          /\ status' \in [Tranches -> {"planned", "active", "completed"}]
      BY <2>1 DEF IInv, Work, WorkTypes
    <2>4. \A u \in Tranches : status'[u] = "planned" <=> status[u] = "planned"
      BY <2>2, <2>3
    <2>5. WorkTypes'
      BY <2>1, <2>3 DEF IInv, Work, WorkTypes
    <2>6. Unplanned'
      BY <2>1, <2>2, <2>4 DEF IInv, Work, Unplanned, Untouched
    <2>7. Bases' /\ Recorded'
      BY <2>1, <2>4 DEF IInv, Work, Bases, Recorded, Final
    <2>8. Carded' /\ Binds' /\ Corrected' /\ LandedApproved'
      BY <2>1 DEF IInv, Work, Carded, Binds, Based, Corrected, LandedApproved, Ancestor
    <2>9. Heads' /\ Dones' /\ Pasts' /\ Rechecks'
      BY <2>1 DEF IInv, Work, Heads, Based, Dones, Pasts, Rechecks
    <2>10. Measures' /\ Landings'
      BY <2>1, <2>2 DEF IInv, Work, Measures, Landings, Based, Final
    <2>11. Work'
      BY <2>5, <2>6, <2>7, <2>8, <2>9, <2>10 DEF Work
    <2>12. activated' \subseteq Tranches
      BY <2>1 DEF IInv, Stage, StageTypes
    <2>13. Stage'
      BY <2>1, <2>12, AppliedIs
    <2>14. QED
      BY <2>11, <2>13 DEF IInv
  <1>3. QED
    BY <1>1, <1>2

LEMMA ApplyMaterializeStep ==
  ASSUME IInv, ApplyMaterialize
  PROVE  IInv'
  <1>0. PICK t \in Tranches : t = held[2]
    BY HeldIs DEF ApplyMaterialize, At, Busy, Underway
  <1>1. CASE base[t + 1] # Final(t)
    BY <1>0, <1>1, QuietStep DEF ApplyMaterialize
  <1>2. CASE base[t + 1] = Final(t)
    <2>1. /\ pc = "apply" /\ held[1] = "materialize" /\ Applied
          /\ materialized' = [materialized EXCEPT ![t + 1] = base[t + 1]]
          /\ UNCHANGED <<trancheVars, ticketVars, gitVars, measured, frozen, h1Vars, paidVars, landed,
                         activated, fixVars, faultVars>>
      BY <1>0, <1>2 DEF ApplyMaterialize, At
    <2>2. Succeedable(t) /\ status[t + 1] = "active"
      BY <1>0, <2>1 DEF IInv, Stage, Succeeds, Busy, Underway
    <2>3. PICK u \in Tranches : u = t + 1 /\ u > 1 /\ u - 1 = t
      BY <2>2, TranchesAre DEF Succeedable
    <2>4. base[u] \in Commits /\ base[u] # NoCommit
      BY <2>2, <2>3, BaseIs, Names DEF IInv
    <2>5. /\ materialized'[u] = base[u] /\ \A v \in Tranches \ {u} : materialized'[v] = materialized[v]
          /\ materialized' \in [Tranches -> Commits \cup {NoCommit}]
      BY <2>1, <2>3, <2>4 DEF IInv, Work, WorkTypes
    <2>6. \A v \in Tranches : Based(v) => Based(v)'
      BY <2>4, <2>5 DEF Based
    <2>7. WorkTypes'
      BY <2>1, <2>5 DEF IInv, Work, WorkTypes
    <2>8. Unplanned' /\ Corrected' /\ LandedApproved'
      BY <2>1, <2>2, <2>3, <2>5 DEF IInv, Work, Unplanned, Untouched, Corrected, LandedApproved, Ancestor
    <2>9. Bases' /\ Dones' /\ Pasts' /\ Rechecks'
      BY <2>1 DEF IInv, Work, Bases, Dones, Pasts, Rechecks
    <2>10. Recorded'
      <3>1. ASSUME NEW v \in Tranches, materialized'[v] # NoCommit
            PROVE  v > 1 /\ status[v] # "planned" /\ materialized'[v] = base[v] /\ base[v] = Final(v - 1)
        <4>1. CASE v = u
          BY <1>2, <2>2, <2>3, <2>5, <4>1
        <4>2. CASE v # u
          BY <2>5, <3>1, <4>2 DEF IInv, Work, Recorded
        <4>3. QED
          BY <4>1, <4>2
      <3>2. QED
        BY <2>1, <3>1 DEF Recorded, Final
    <2>11. Carded' /\ Binds'
      <3>1. \A k \in Planned : k[1] \in Tranches
        BY PlannedAreTickets, TicketIs
      <3>2. QED
        BY <2>1, <2>6, <3>1 DEF IInv, Work, Carded, Binds
    <2>12. Heads'
      BY <2>1, <2>6 DEF IInv, Work, Heads
    <2>13. Measures' /\ Landings'
      BY <2>1, <2>6 DEF IInv, Work, Measures, Landings, Final
    <2>14. Work'
      BY <2>7, <2>8, <2>9, <2>10, <2>11, <2>12, <2>13 DEF Work
    <2>15. activated' \subseteq Tranches
      BY <2>1 DEF IInv, Stage, StageTypes
    <2>16. Stage'
      BY <2>1, <2>15, AppliedIs
    <2>17. QED
      BY <2>14, <2>16 DEF IInv
  <1>3. QED
    BY <1>1, <1>2

\* The successor is written.
LEMMA WriteTrancheStep ==
  ASSUME IInv, WriteTranche
  PROVE  IInv'
  <1>1. PICK t \in Tranches : t = held[2]
    BY HeldIs DEF WriteTranche, Busy, Underway
  <1>2. /\ pc = "write" /\ held[1] = "materialize" /\ held \in Claims /\ claim[held].status = "begun"
        /\ Succeedable(t) /\ status[t + 1] = "planned" /\ chosen.base \in Tickets
        /\ state[chosen.base] = "done"
    BY <1>1 DEF WriteTranche, IInv, Stage, Holds, Succeeds, Busy, Underway
  <1>3. PICK u \in Tranches : u = t + 1 /\ u > 1 /\ u - 1 = t
    BY <1>2, TranchesAre DEF Succeedable
  <1> DEFINE new == {k \in Planned : k[1] = u}
             due == [status |-> "pending", base |-> chosen.base]
  <1>4. /\ status' = [status EXCEPT ![u] = "active"] /\ base' = [base EXCEPT ![u] = chosen.base]
        /\ state' = [k \in Tickets |-> IF k \in new THEN "draft" ELSE state[k]]
        /\ card' = [k \in Tickets |-> IF k \in new THEN due ELSE card[k]]
        /\ pc' = "apply" /\ UNCHANGED <<scope, held, chosen>>
        /\ UNCHANGED <<bound, gitVars, claimVars, h1Vars, paidVars, landed, nextVars, fixVars, faultVars>>
    BY <1>1, <1>3 DEF WriteTranche, Goto
  <1>5. /\ status'[u] = "active" /\ \A v \in Tranches \ {u} : status'[v] = status[v]
        /\ base'[u] = chosen.base /\ \A v \in Tranches \ {u} : base'[v] = base[v]
        /\ status' \in [Tranches -> {"planned", "active", "completed"}] /\ base' \in [Tranches -> Commits]
    BY <1>2, <1>4, Names DEF IInv, Work, WorkTypes
  <1>6. status[u] = "planned" /\ Untouched(u)
    BY <1>2, <1>3 DEF IInv, Work, Unplanned
  <1>7. /\ due \in [status : {"none", "pending", "terminal", "acknowledged"}, base : Commits \cup {NoCommit}]
        /\ due.status = "pending" /\ due.base = chosen.base
    BY <1>2, Names
  <1>8. /\ \A k \in Tickets : k \in new <=> k \in Planned /\ k[1] = u
        /\ new \subseteq Tickets
    BY PlannedAreTickets
  <1> HIDE DEF new, due
  <1>9. /\ \A k \in new : state'[k] = "draft" /\ card'[k] = due /\ state[k] = "absent"
        /\ \A k \in Tickets \ new : state'[k] = state[k] /\ card'[k] = card[k]
        /\ state' \in [Tickets -> {"absent", "draft", "ready", "done"}]
        /\ card' \in [Tickets -> [status : {"none", "pending", "terminal", "acknowledged"},
                                  base : Commits \cup {NoCommit}]]
    <2>1. \A k \in new : state[k] = "absent"
      BY <1>6, <1>8 DEF Untouched
    <2>2. \A k \in Tickets : state[k] \in {"absent", "draft", "ready", "done"}
      BY DEF IInv, Work, WorkTypes
    <2>3. \A k \in Tickets : card[k] \in [status : {"none", "pending", "terminal", "acknowledged"},
                                          base : Commits \cup {NoCommit}]
      BY DEF IInv, Work, WorkTypes
    <2>4. state' \in [Tickets -> {"absent", "draft", "ready", "done"}]
      BY <1>4, <2>2
    <2>5. card' \in [Tickets -> [status : {"none", "pending", "terminal", "acknowledged"},
                                 base : Commits \cup {NoCommit}]]
      BY <1>4, <1>7, <2>3
    <2>6. /\ \A k \in new : state'[k] = "draft" /\ card'[k] = due
          /\ \A k \in Tickets \ new : state'[k] = state[k] /\ card'[k] = card[k]
      BY <1>4, <1>8
    <2>7. QED
      BY <2>1, <2>4, <2>5, <2>6
  <1>10. \A k \in Tickets : /\ state'[k] = "done" <=> state[k] = "done"
                            /\ state[k] # "absent" => state'[k] # "absent"
    BY <1>9
  <1>11. WorkTypes'
    BY <1>4, <1>5, <1>9 DEF IInv, Work, WorkTypes
  <1>12. Unplanned'
    <2>1. ASSUME NEW v \in Tranches, status'[v] = "planned" PROVE v > 1 /\ Untouched(v)'
      <3>1. v # u /\ v > 1 /\ Untouched(v)
        BY <1>5, <2>1 DEF IInv, Work, Unplanned
      <3>2. \A k \in Tickets : k[1] = v => k \notin new
        BY <1>8, <3>1
      <3>3. QED
        BY <1>4, <1>9, <3>1, <3>2 DEF Untouched
    <2>2. QED
      BY <2>1 DEF Unplanned
  <1>13. Bases'
    <2>1. ASSUME NEW v \in Tranches, status'[v] # "planned"
          PROVE  /\ v = 1 => base'[v] = Root
                 /\ v > 1 => v - 1 \in landed /\ base'[v] \in Tickets /\ state'[base'[v]] = "done"
                 /\ \A k \in Planned : k[1] = v => state'[k] # "absent"
      <3>1. CASE v = u
        <4>1. t \in landed
          BY <1>2 DEF Succeedable
        <4>2. \A k \in Planned : k[1] = u => state'[k] # "absent"
          BY <1>8, <1>9, PlannedAreTickets
        <4>3. QED
          BY <1>2, <1>3, <1>5, <1>10, <3>1, <4>1, <4>2
      <3>2. CASE v # u
        BY <1>5, <1>10, <2>1, <3>2, PlannedAreTickets DEF IInv, Work, Bases
      <3>3. QED
        BY <3>1, <3>2
    <2>2. QED
      BY <1>4, <2>1 DEF Bases
  <1>14. Recorded'
    <2>1. \A v \in Tranches : materialized[v] # NoCommit => v # u
      BY <1>6 DEF Untouched
    <2>2. QED
      BY <1>4, <1>5, <2>1 DEF IInv, Work, Recorded, Final
  <1>15. Carded'
    <2>1. ASSUME NEW k \in Planned, card'[k].status # "none"
          PROVE  card'[k].base = base'[k[1]] /\ (card'[k].status = "acknowledged" => Based(k[1]))
      <3>1. k \in Tickets /\ k[1] \in Tranches
        BY PlannedAreTickets, TicketIs
      <3>2. CASE k[1] = u
        BY <1>5, <1>7, <1>8, <1>9, <3>1, <3>2
      <3>3. CASE k[1] # u
        BY <1>5, <1>8, <1>9, <2>1, <3>1, <3>3 DEF IInv, Work, Carded
      <3>4. QED
        BY <3>2, <3>3
    <2>2. QED
      BY <1>4, <2>1 DEF Carded, Based
  <1>16. Binds'
    <2>1. ASSUME NEW k \in Planned
          PROVE  /\ bound[k] # NoCommit => bound[k] = base'[k[1]] /\ Based(k[1])
                 /\ state'[k] \in {"ready", "done"} => bound[k] # NoCommit
      <3>1. k \in Tickets /\ k[1] \in Tranches
        BY PlannedAreTickets, TicketIs
      <3>2. CASE k[1] = u
        BY <1>6, <1>8, <1>9, <3>1, <3>2 DEF Untouched
      <3>3. CASE k[1] # u
        BY <1>5, <1>8, <1>9, <3>1, <3>3 DEF IInv, Work, Binds
      <3>4. QED
        BY <3>2, <3>3
    <2>2. QED
      BY <1>4, <2>1 DEF Binds, Based
  <1>17. Corrected'
    <2>1. \A k \in Fixes : k \in Tickets /\ k \notin new
      BY <1>8 DEF Fixes
    <2>2. QED
      BY <1>4, <1>9, <2>1 DEF IInv, Work, Corrected
  <1>18. \A v \in Tranches : head[v] # NoCommit \/ h1[v] # {} => v # u
    BY <1>6 DEF Untouched
  <1>19. Heads'
    BY <1>4, <1>5, <1>10, <1>18 DEF IInv, Work, Heads, Based
  <1>20. Dones'
    <2>1. ASSUME NEW k \in Tickets, state[k] = "done" PROVE base'[k[1]] = base[k[1]]
      BY <1>5, <1>18, <2>1, TicketIs DEF IInv, Work, Dones
    <2>2. QED
      BY <1>4, <1>10, <2>1 DEF IInv, Work, Dones
  <1>21. Pasts' /\ Rechecks' /\ LandedApproved' /\ Landings'
    BY <1>4, <1>10 DEF IInv, Work, Pasts, Rechecks, LandedApproved, Ancestor, Landings, Final
  <1>22. Measures'
    <2>1. \A v \in Tranches : h1[v] \subseteq Tickets
      BY DEF IInv, Work, WorkTypes
    <2>2. ASSUME NEW v \in Tranches, h1[v] # {}
          PROVE  /\ \A k \in h1[v] : k[1] = v /\ state'[k] = "done"
                 /\ \A k \in Planned : k[1] = v => k \in h1[v]
                 /\ Based(v) /\ history[Final(v)] = history[base'[v]] \cup h1[v]
      BY <1>5, <1>10, <1>18, <2>1, <2>2 DEF IInv, Work, Measures
    <2>3. QED
      BY <1>4, <2>2 DEF Measures, Based, Final
  <1>23. Work'
    BY <1>11, <1>12, <1>13, <1>14, <1>15, <1>16, <1>17, <1>19, <1>20, <1>21, <1>22 DEF Work
  <1>24. StageTypes'
    BY <1>4, StageTypesStay DEF IInv, Stage, StageTypes
  <1>25. Holds' /\ Applies'
    BY <1>2, <1>4, AppliesStays DEF Holds, Busy, Underway, Paid
  <1>26. Chained' /\ Lands'
    BY <1>2, <1>4 DEF Chained, Lands
  <1>27. Succeeds'
    <2>1. Succeedable(t)'
      <3>1. t # u
        BY <1>3, TranchesAre
      <3>2. /\ status[t] = "completed" /\ t \in landed /\ checkpoint[t] = "ready" /\ Approved(t) /\ t < Last
            /\ \A v \in Tranches : status[v] = "active" => v = t + 1
        BY <1>2 DEF Succeedable
      <3>3. Approved(t)'
        BY <1>4, <3>2 DEF Approved
      <3>4. \A v \in Tranches : status'[v] = "active" => v = t + 1
        BY <1>3, <1>5, <3>2
      <3>5. QED
        BY <1>3, <1>4, <1>5, <3>1, <3>2, <3>3, <3>4 DEF Succeedable
    <2>2. Succeedable(held[2])' /\ status'[held'[2] + 1] = "active"
      BY <1>1, <1>3, <1>4, <1>5, <2>1
    <2>3. QED
      BY <1>4, <2>2 DEF Succeeds
  <1>28. QED
    BY <1>23, <1>24, <1>25, <1>26, <1>27 DEF IInv, Stage

\* A ticket is accepted and committed on the integration branch of its tranche.
LEMMA FinishTicketStep ==
  ASSUME IInv, FinishTicket
  PROVE  IInv'
  <1>1. PICK k \in Tickets :
          /\ state[k] = "ready" /\ state' = [state EXCEPT ![k] = "done"]
          /\ Commit(k, {IF head[k[1]] = NoCommit THEN bound[k] ELSE head[k[1]]})
          /\ head' = [head EXCEPT ![k[1]] = k]
    BY DEF FinishTicket
  <1>2. /\ EndTick
        /\ UNCHANGED <<trancheVars, bound, card, canonical, claimVars, h1Vars, paidVars, landed, nextVars,
                       fixVars, faultVars>>
    BY DEF FinishTicket
  <1>3. PICK t \in Tranches : t = k[1]
    BY TicketIs
  <1>4. status[t] # "planned" /\ k \in Commits
    BY <1>1, <1>3, Names DEF IInv, Work, Unplanned, Untouched
  <1> DEFINE p == IF head[t] = NoCommit THEN bound[k] ELSE head[t]
  <1>5. Based(t) /\ p \in Commits /\ base[t] \in history[p]
    <2>1. CASE head[t] # NoCommit
      BY <2>1, Names DEF IInv, Work, Heads
    <2>2. CASE head[t] = NoCommit
      <3>1. k \in Planned
        <4>1. k \in Fixes => k[2] > Works /\ k[2] <= Works + fixes[t] /\ fixes[t] = 0
          BY <1>1, <1>3, <2>2, TicketIs DEF IInv, Work, Corrected
        <4>2. k[2] \in Int /\ Works \in Int
          BY TicketIs, BoundsAre
        <4>3. k \notin Fixes
          BY <4>1, <4>2
        <4>4. QED
          BY <4>3 DEF Fixes
      <3>2. p = base[t] /\ Based(t)
        BY <1>1, <1>3, <2>2, <3>1 DEF IInv, Work, Binds
      <3>3. QED
        BY <1>4, <3>2, BaseIs, Names DEF IInv
    <2>3. QED
      BY <2>1, <2>2
  <1>6. Commit(k, {p})
    BY <1>1, <1>3
  <1> HIDE DEF p
  <1>7. /\ history'[k] = history[p] \cup {k} /\ \A c \in Commits \ {k} : history'[c] = history[c]
        /\ history' \in [Commits -> SUBSET Commits]
    <2>1. history[p] = UNION {history[q] : q \in {p}}
      OBVIOUS
    <2>2. history[p] \in SUBSET Commits
      BY <1>5 DEF IInv, Work, WorkTypes
    <2>3. QED
      BY <1>4, <1>6, <2>1, <2>2, CommitIs DEF IInv, Work
  <1>8. /\ state'[k] = "done" /\ \A l \in Tickets \ {k} : state'[l] = state[l]
        /\ head'[t] = k /\ \A v \in Tranches \ {t} : head'[v] = head[v]
        /\ state' \in [Tickets -> {"absent", "draft", "ready", "done"}]
        /\ head' \in [Tranches -> Commits \cup {NoCommit}]
    BY <1>1, <1>3, <1>4 DEF IInv, Work, WorkTypes
  <1>9. \A l \in Tickets : state[l] = "done" => state'[l] = "done" /\ l # k /\ history'[l] = history[l]
    BY <1>1, <1>7, <1>8, Names
  <1>10. \A l \in Tickets : state[l] # "absent" => state'[l] # "absent"
    BY <1>8
  <1>11. /\ history'[Root] = history[Root] /\ history'[canonical] = history[canonical]
    BY <1>7, Names DEF IInv, Work, Pasts, WorkTypes
  <1>12. \A v \in Tranches : status[v] # "planned" => history'[base[v]] = history[base[v]]
    BY <1>9, <1>11, BaseIs DEF IInv
  <1>13. \A v \in Tranches : h1[v] # {} => history'[Final(v)] = history[Final(v)] /\ status[v] # "planned"
    BY <1>9, FinalIs DEF IInv
  <1>14. WorkTypes'
    BY <1>2, <1>7, <1>8 DEF IInv, Work, WorkTypes
  <1>15. Unplanned'
    <2>1. ASSUME NEW v \in Tranches, status[v] = "planned" PROVE v > 1 /\ Untouched(v)'
      <3>1. v # t /\ v > 1 /\ Untouched(v)
        BY <1>4, <2>1 DEF IInv, Work, Unplanned
      <3>2. \A l \in Tickets : l[1] = v => l # k
        BY <1>3, <3>1
      <3>3. QED
        BY <1>2, <1>8, <3>1, <3>2 DEF Untouched
    <2>2. QED
      BY <1>2, <2>1 DEF Unplanned
  <1>16. Bases'
    BY <1>2, <1>9, <1>10, PlannedAreTickets DEF IInv, Work, Bases
  <1>17. Recorded' /\ Carded'
    BY <1>2 DEF IInv, Work, Recorded, Carded, Based, Final
  <1>18. Binds'
    <2>1. \A l \in Planned : l \in Tickets /\ (state'[l] = state[l] \/ l = k)
      BY <1>8, PlannedAreTickets
    <2>2. QED
      BY <1>1, <1>2, <2>1 DEF IInv, Work, Binds, Based
  <1>19. Corrected'
    <2>1. k # NoCommit
      BY <1>4, Names
    <2>2. \A l \in Fixes : l \in Tickets /\ (state'[l] # "absent" => state[l] # "absent")
      BY <1>1, <1>8 DEF Fixes
    <2>3. QED
      BY <1>2, <1>8, <2>1, <2>2 DEF IInv, Work, Corrected
  <1>20. Heads'
    <2>1. ASSUME NEW v \in Tranches, head'[v] # NoCommit
          PROVE  /\ head'[v] \in Tickets /\ head'[v][1] = v /\ state'[head'[v]] = "done"
                 /\ Based(v) /\ base[v] \in history'[head'[v]]
      <3>1. CASE v = t
        BY <1>3, <1>5, <1>7, <1>8, <3>1
      <3>2. CASE v # t
        BY <1>8, <1>9, <2>1, <3>2 DEF IInv, Work, Heads
      <3>3. QED
        BY <3>1, <3>2
    <2>2. QED
      BY <1>2, <2>1 DEF Heads, Based
  <1>21. Dones'
    <2>1. ASSUME NEW l \in Tickets, state'[l] = "done"
          PROVE  head'[l[1]] # NoCommit /\ {l, base[l[1]]} \subseteq history'[l] /\ l \in history'[head'[l[1]]]
      <3>1. CASE l = k
        BY <1>3, <1>4, <1>5, <1>7, <1>8, <3>1, Names
      <3>2. CASE l # k
        <4>1. state[l] = "done" /\ l[1] \in Tranches
          BY <1>8, <2>1, <3>2, TicketIs
        <4>2. head[l[1]] # NoCommit /\ {l, base[l[1]]} \subseteq history[l] /\ l \in history[head[l[1]]]
          BY <4>1 DEF IInv, Work, Dones
        <4>3. history'[l] = history[l]
          BY <1>9, <4>1
        <4>4. CASE l[1] = t
          BY <1>4, <1>7, <1>8, <4>2, <4>3, <4>4, Names DEF p
        <4>5. CASE l[1] # t
          <5>1. head'[l[1]] = head[l[1]]
            BY <1>8, <4>1, <4>5
          <5>2. history'[head[l[1]]] = history[head[l[1]]]
            BY <1>9, <4>1, <4>2 DEF IInv, Work, Heads
          <5>3. QED
            BY <4>2, <4>3, <5>1, <5>2
        <4>6. QED
          BY <4>4, <4>5
      <3>3. QED
        BY <3>1, <3>2
    <2>2. QED
      BY <1>2, <2>1 DEF Dones
  <1>22. Pasts'
    <2>1. ASSUME NEW c \in Commits, NEW l \in Tickets, l \in history'[c] PROVE state'[l] = "done"
      <3>1. l = k \/ l \in history[p] \/ l \in history[c]
        BY <1>7, <2>1
      <3>2. QED
        BY <1>5, <1>8, <1>9, <3>1 DEF IInv, Work, Pasts
    <2>2. QED
      BY <1>2, <1>11, <2>1 DEF IInv, Work, Pasts
  <1>23. Measures'
    <2>1. ASSUME NEW v \in Tranches, h1[v] # {}
          PROVE  /\ \A l \in h1[v] : l[1] = v /\ state'[l] = "done"
                 /\ \A l \in Planned : l[1] = v => l \in h1[v]
                 /\ Based(v) /\ history'[Final(v)] = history'[base[v]] \cup h1[v]
      <3>1. /\ \A l \in h1[v] : l[1] = v /\ state[l] = "done" /\ l \in Tickets
            /\ \A l \in Planned : l[1] = v => l \in h1[v]
            /\ Based(v) /\ history[Final(v)] = history[base[v]] \cup h1[v]
        BY <2>1 DEF IInv, Work, WorkTypes, Measures
      <3>2. QED
        BY <1>9, <1>12, <1>13, <2>1, <3>1
    <2>2. QED
      BY <1>2, <2>1 DEF Measures, Based, Final
  <1>24. Landings'
    BY <1>2, <1>11, <1>13 DEF IInv, Work, WorkTypes, Landings, Final
  <1>25. Rechecks'
    BY <1>2, <1>9 DEF IInv, Work, Rechecks
  <1>26. LandedApproved'
    BY <1>2, <1>11 DEF IInv, Work, LandedApproved, Ancestor
  <1>27. Work'
    BY <1>14, <1>15, <1>16, <1>17, <1>18, <1>19, <1>20, <1>21, <1>22, <1>23, <1>24, <1>25, <1>26 DEF Work
  <1>28. QED
    BY <1>2, <1>27, EndStep DEF IInv, Stage, StageTypes

----------------------------------------------------------------------------
(* Every state.                                                            *)

LEMMA Initially == Init => IInv
  <1> SUFFICES ASSUME Init PROVE IInv
    OBVIOUS
  <1>1. /\ status = [t \in Tranches |-> IF t = 1 THEN "active" ELSE "planned"]
        /\ base = [t \in Tranches |-> Root]
        /\ state = [k \in Tickets |-> IF k[1] = 1 /\ k \in Planned THEN "draft" ELSE "absent"]
        /\ bound = [k \in Tickets |-> NoCommit]
        /\ card = [k \in Tickets |-> IF k[1] = 1 /\ k \in Planned
                                     THEN [status |-> "pending", base |-> Root]
                                     ELSE [status |-> "none", base |-> NoCommit]]
        /\ head = [t \in Tranches |-> NoCommit]
        /\ history = [c \in Commits |-> IF c = Root THEN {Root} ELSE {}] /\ canonical = Root
        /\ h1 = [t \in Tranches |-> {}] /\ checkpoint = [t \in Tranches |-> "none"]
        /\ approval = [s \in Paid \X Tranches |-> "none"]
        /\ landed = {} /\ materialized = [t \in Tranches |-> NoCommit]
        /\ fixes = [t \in Tranches |-> 0] /\ recheck = [t \in Tranches |-> NoRecheck]
    BY DEF Init
  <1>2. /\ \A t \in Tranches : /\ status[t] = (IF t = 1 THEN "active" ELSE "planned") /\ base[t] = Root
                               /\ head[t] = NoCommit /\ h1[t] = {} /\ checkpoint[t] = "none"
                               /\ materialized[t] = NoCommit /\ fixes[t] = 0 /\ recheck[t] = NoRecheck
        /\ \A k \in Tickets : /\ state[k] = (IF k[1] = 1 /\ k \in Planned THEN "draft" ELSE "absent")
                              /\ bound[k] = NoCommit
        /\ \A k \in Tickets : card[k] = IF k[1] = 1 /\ k \in Planned
                                        THEN [status |-> "pending", base |-> Root]
                                        ELSE [status |-> "none", base |-> NoCommit]
        /\ \A c \in Commits : history[c] = IF c = Root THEN {Root} ELSE {}
    BY <1>1
  <1>3. WorkTypes
    <2>1. /\ [status |-> "pending", base |-> Root] \in
                [status : {"none", "pending", "terminal", "acknowledged"}, base : Commits \cup {NoCommit}]
          /\ [status |-> "none", base |-> NoCommit] \in
                [status : {"none", "pending", "terminal", "acknowledged"}, base : Commits \cup {NoCommit}]
          /\ NoRecheck \in [generation : Nat, fixes : 0..MaxFixes, of : SUBSET Tickets,
                            head : Commits \cup {NoCommit}]
      BY Names, BoundsAre DEF NoRecheck
    <2>2. card \in [Tickets -> [status : {"none", "pending", "terminal", "acknowledged"},
                                base : Commits \cup {NoCommit}]]
      <3> DEFINE C == [status : {"none", "pending", "terminal", "acknowledged"}, base : Commits \cup {NoCommit}]
                 due == [status |-> "pending", base |-> Root]
                 none == [status |-> "none", base |-> NoCommit]
      <3>1. due \in C /\ none \in C /\ card = [k \in Tickets |-> IF k[1] = 1 /\ k \in Planned THEN due ELSE none]
        BY <1>1, <2>1
      <3> HIDE DEF C, due, none
      <3>2. card \in [Tickets -> C]
        BY <3>1
      <3>3. QED
        BY <3>2 DEF C
    <2>3. recheck \in [Tranches -> [generation : Nat, fixes : 0..MaxFixes, of : SUBSET Tickets,
                                    head : Commits \cup {NoCommit}]]
      BY <1>1, <2>1
    <2>4. history \in [Commits -> SUBSET Commits] /\ canonical \in Commits
      BY <1>1, Names
    <2>5. /\ status \in [Tranches -> {"planned", "active", "completed"}]
          /\ base \in [Tranches -> Commits]
          /\ state \in [Tickets -> {"absent", "draft", "ready", "done"}]
          /\ bound \in [Tickets -> Commits \cup {NoCommit}]
          /\ head \in [Tranches -> Commits \cup {NoCommit}]
      BY <1>1, Names
    <2>6. /\ h1 \in [Tranches -> SUBSET Tickets]
          /\ checkpoint \in [Tranches -> {"none", "ready", "failed"}]
          /\ approval \in [Paid \X Tranches -> Decisions \cup {"none"}]
          /\ landed \subseteq Tranches
          /\ materialized \in [Tranches -> Commits \cup {NoCommit}]
          /\ fixes \in [Tranches -> 0..MaxFixes]
      BY <1>1, BoundsAre
    <2>7. QED
      BY <2>2, <2>3, <2>4, <2>5, <2>6 DEF WorkTypes
  <1>4. Unplanned
    <2>1. ASSUME NEW t \in Tranches, status[t] = "planned" PROVE t > 1 /\ Untouched(t)
      <3>1. t # 1 /\ t > 1
        BY <1>2, <2>1, TranchesAre
      <3>2. QED
        BY <1>1, <1>2, <3>1 DEF Untouched
    <2>2. QED
      BY <2>1 DEF Unplanned
  <1>5. Bases /\ Binds
    BY <1>2, PlannedAreTickets, TranchesAre DEF Bases, Binds
  <1>6. Carded
    <2>1. ASSUME NEW k \in Planned, card[k].status # "none"
          PROVE  card[k].base = base[k[1]] /\ card[k].status # "acknowledged"
      <3>1. k \in Tickets /\ k[1] \in Tranches
        BY PlannedAreTickets, TicketIs
      <3>2. QED
        BY <1>2, <2>1, <3>1
    <2>2. QED
      BY <2>1 DEF Carded
  <1>7. Recorded /\ Corrected /\ Heads /\ Measures
    BY <1>2, TicketIs DEF Recorded, Corrected, Heads, Measures, Fixes
  <1>8. Dones /\ Pasts
    BY <1>1, <1>2, Names DEF Dones, Pasts
  <1>9. Landings /\ Rechecks /\ LandedApproved
    BY <1>1, <1>2, Names DEF Landings, Rechecks, NoRecheck, LandedApproved, Ancestor
  <1>10. StageTypes
    <2>1. NoChoice \in [base : Commits \cup {NoCommit}, known : SUBSET Tickets]
      BY DEF NoChoice
    <2>2. QED
      BY <2>1, BoundsAre DEF Init, StageTypes
  <1>11. Applies
    BY <1>1, <1>2 DEF Applies
  <1>12. Holds /\ Chained /\ Lands /\ Succeeds
    BY DEF Init, Holds, Chained, Lands, Succeeds, Busy, Underway
  <1>13. QED
    BY <1>3, <1>4, <1>5, <1>6, <1>7, <1>8, <1>9, <1>10, <1>11, <1>12 DEF IInv, Work, Stage

LEMMA EveryStep == IInv /\ [Next]_vars => IInv'
  <1> SUFFICES ASSUME IInv, [Next]_vars PROVE IInv'
    OBVIOUS
  <1>1. CASE StartTick \/ ClaimRaises \/ NoWork
    BY <1>1, QuietStep
  <1>2. CASE DeliverCard
    BY <1>2, DeliverCardStep
  <1>3. CASE Claim
    BY <1>3, ClaimStep
  <1>4. CASE RetireClaim
    BY <1>4, RetireStep
  <1>5. CASE Begin
    BY <1>5, BeginStep
  <1>6. CASE Finalize
    BY <1>6, FinalizeStep
  <1>7. CASE RunCheckpoint
    BY <1>7, RunCheckpointStep
  <1>8. CASE ApplyCheckpoint
    BY <1>8, ApplyCheckpointStep
  <1>9. CASE Reserve \/ Answer
    BY <1>9, CallStep
  <1>10. CASE ApplyPaid
    BY <1>10, ApplyPaidStep
  <1>11. CASE Land
    BY <1>11, LandStep
  <1>12. CASE ApplyLanding
    BY <1>12, ApplyLandingStep
  <1>13. CASE ChooseBase
    BY <1>13, ChooseBaseStep
  <1>14. CASE WriteTranche
    BY <1>14, WriteTrancheStep
  <1>15. CASE ApplyMaterialize
    BY <1>15, ApplyMaterializeStep
  <1>16. CASE ApplyActivation
    BY <1>16, ApplyActivationStep
  <1>17. CASE ActivateTicket
    BY <1>17, ActivateTicketStep
  <1>18. CASE AdmitTicket
    BY <1>18, AdmitTicketStep
  <1>19. CASE FinishTicket
    BY <1>19, FinishTicketStep
  <1>20. CASE Operator
    BY <1>20, ReopenCardStep, PlanFixStep, MaterializeFixStep, RecheckStep DEF Operator
  <1>21. CASE Expire
    BY <1>21, ExpireStep
  <1>22. CASE Crash
    BY <1>22, CrashStep
  <1>23. CASE ForeignCommit
    BY <1>23, ForeignCommitStep
  <1>24. CASE UNCHANGED vars
    <2>1. Work'
      BY <1>24, WorkStays DEF IInv, vars, ledgerVars, workVars
    <2>2. QED
      BY <1>24, <2>1, Beside DEF vars, ledgerVars, IInv, Stage, StageTypes
  <1>25. QED
    BY <1>1, <1>2, <1>3, <1>4, <1>5, <1>6, <1>7, <1>8, <1>9, <1>10, <1>11, <1>12, <1>13, <1>14, <1>15, <1>16,
       <1>17, <1>18, <1>19, <1>20, <1>21, <1>22, <1>23, <1>24 DEF Next, TickStep

THEOREM Invariance == Spec => []IInv
  <1>1. Init => IInv
    BY Initially
  <1>2. IInv /\ [Next]_vars => IInv'
    BY EveryStep
  <1>3. QED
    BY <1>1, <1>2, PTL DEF Spec

\* What is on the canonical branch was measured, passed the deterministic checkpoint and
\* was approved, whoever else commits there and wherever a landing dies
\* (execute_tranche_landing, scheduler_reconciliation).
THEOREM OnlyApprovedWorkLands == Spec => []LandedApproved
  <1>1. IInv => LandedApproved
    BY DEF IInv, Work
  <1>2. QED
    BY <1>1, Invariance, PTL

\* Tranches, claims and branches keep their types, and what completion evidence measured
\* is the chain of the tranche's accepted commits on its base (completion_evidence).
THEOREM MeasuredWorkIsAChain == Spec => []Consistent
  <1>1. IInv => TypeOK
    BY DEF IInv, Work, WorkTypes, Stage, StageTypes, TypeOK
  <1>2. IInv => CheckpointSerial
    BY DEF IInv, Work, Measures, CheckpointSerial
  <1>3. QED
    BY <1>1, <1>2, Invariance, PTL DEF Consistent

\* The worker of a planned ticket starts from the base of its tranche and that is in the
\* history of what it leaves (materialize_next_tranche, the card's provenance).
THEOREM WorkStartsFromItsBase == Spec => []WorkOnBase
  <1>1. IInv => WorkOnBase
    BY PlannedAreTickets DEF IInv, Work, Binds, Dones, WorkOnBase, Ancestor
  <1>2. QED
    BY <1>1, Invariance, PTL

\* A successor becomes active only behind a landed predecessor, on a commit that holds all
\* that was known of it when its completion authority was read, corrections and rechecks in
\* between included (CorrectionService.completion_authority, materialize_next_tranche).
THEOREM SuccessorHoldsItsPredecessor == Spec => HandoffComplete
  <1> DEFINE A == \A t \in Tranches : status[t] = "planned" /\ status'[t] = "active" =>
                    t - 1 \in landed /\ chosen.known \subseteq history[base'[t]]
  <1>1. ASSUME IInv, [Next]_vars PROVE A
    <2>1. CASE WriteTranche
      <3>1. PICK t \in Tranches : t = held[2]
        BY <1>1, <2>1, HeldIs DEF WriteTranche, Busy, Underway
      <3>2. /\ Succeedable(t) /\ chosen.known \subseteq history[chosen.base] /\ t + 1 \in Tranches
        BY <1>1, <2>1, <3>1, TranchesAre DEF WriteTranche, IInv, Stage, Holds, Succeeds, Busy, Underway, Succeedable
      <3>3. status' = [status EXCEPT ![t + 1] = "active"] /\ base' = [base EXCEPT ![t + 1] = chosen.base]
        BY <2>1, <3>1 DEF WriteTranche
      <3>4. t \in landed /\ (t + 1) - 1 = t
        BY <3>2, TranchesAre DEF Succeedable
      <3>5. ASSUME NEW u \in Tranches, status[u] = "planned", status'[u] = "active"
            PROVE  u - 1 \in landed /\ chosen.known \subseteq history[base'[u]]
        <4>1. u = t + 1
          BY <1>1, <3>3, <3>5 DEF IInv, Work, WorkTypes
        <4>2. base'[u] = chosen.base
          BY <1>1, <3>3, <4>1 DEF IInv, Work, WorkTypes
        <4>3. QED
          BY <3>2, <3>4, <4>1, <4>2
      <3>6. QED
        BY <3>5
    <2>2. CASE ApplyLanding
      <3>1. \/ UNCHANGED status
            \/ status' = [status EXCEPT ![held[2]] = "completed"]
        BY <2>2 DEF ApplyLanding, Raise, ledgerVars
      <3>2. QED
        BY <1>1, <3>1 DEF IInv, Work, WorkTypes
    <2>3. CASE ~WriteTranche /\ ~ApplyLanding
      <3>1. UNCHANGED status
        BY <1>1, <2>3 DEF Next, TickStep, Operator, StartTick, DeliverCard, Claim, ClaimRaises, RetireClaim, Begin,
           Finalize, NoWork, RunCheckpoint, ApplyCheckpoint, Reserve, Answer, ApplyPaid, Land, ChooseBase,
           ApplyMaterialize, ApplyActivation, ActivateTicket, AdmitTicket, FinishTicket, ReopenCard, PlanFix,
           MaterializeFix, Recheck, Expire, Crash, ForeignCommit, Raise, vars, ledgerVars
      <3>2. QED
        BY <3>1
    <2>4. QED
      BY <2>1, <2>2, <2>3
  <1>2. Spec => [][A]_vars
    BY <1>1, Invariance, PTL DEF Spec
  <1>3. QED
    BY <1>2 DEF HandoffComplete
=============================================================================
