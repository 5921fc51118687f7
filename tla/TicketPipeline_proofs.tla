----------------------- MODULE TicketPipeline_proofs -----------------------
(* What the pipeline keeps true for any number of attempts, any lease and  *)
(* any number of deaths, exceptions, pauses and repeated reviews.          *)
EXTENDS TicketPipeline, FiniteSetTheorems, WellFoundedInduction, TLAPS

\* The stage a tick holds at each of its steps.
Placed ==
    /\ pc \notin {"idle", "reconcile", "claim"} => held \in Claims
    /\ pc = "check" => held[1] \notin {"repair_routing", "completion"}
    /\ pc \in {"launch", "record"} => held[1] \in ModelFamilies
    /\ pc = "run" => held[1] \in ModelFamilies \cup {"validation"}
    /\ pc \in {"mark", "advance"} => held[1] = "validation"
    /\ pc \in {"decide", "note"} => held[1] = "triage"
    /\ pc \in {"intent", "commit", "ref"} => held[1] = "git_integration"

Calling == pc \in {"launch", "run", "record"}

\* The ticket is where the stage found it as long as the stage works: of all the
\* operator may do only an invalidation moves it, and that one only from accepted.
InState ==
    /\ Calling /\ held[1] = "implementation" => state = "implementing" /\ attempt # 0
    /\ Calling /\ held[1] = "review" => state = "local_review"
    /\ pc = "run" /\ held[1] = "validation" => state \notin {"accepted", "done"}

\* A decision is made once: the claim that makes it has begun and is applied with it.
Once ==
    /\ held[1] \in {"repair_routing", "acceptance"} =>
         /\ pc = "begin" => claim[held].status = "claimed"
         /\ pc \in {"check", "apply"} => claim[held].status = "begun"
    /\ \A a \in Attempts : route[a] # "none" => Effected("repair_routing", a)
    /\ \A a \in Attempts \cap {accepted, replacement} : Effected("acceptance", a)

\* Nothing is about an attempt that was not begun.
Numbered ==
    /\ \A c \in Claims : claim[c].status # "absent" => c[2] <= Number
    /\ pc \notin {"idle", "reconcile", "claim"} => claim[held].status # "absent"
    /\ \A a \in Attempts : <<"implementation", a>> \in artifact => a <= attempt
    /\ \A a \in Attempts : validation[a] # "none" => a <= Number
    /\ attempt = 0 => state \in {"ready_local", "implementing"}

\* A call is made when there was none, or under an authorization that it uses up.
Calls ==
    /\ \A s \in ModelFamilies \X Attempts :
         /\ call[s].status = "none" => call[s].launches = 0
         /\ call[s].launches <= IF s[1] = "review" THEN 1 + auth[s[2]].used ELSE 1
    /\ \A a \in Attempts : auth[a].open => call[<<"review", a>>].status = "failed"
    /\ pc = "launch" =>
         \/ call[Called].status = "none"
         \/ held[1] = "review" /\ auth[held[2]].open
    /\ pc = "run" /\ held[1] \in ModelFamilies => call[Called].status = "started"

\* Whoever relies on a review has it.
Reviews ==
    /\ \A a \in Attempts :
         a \in reviewed \/ Effected("review", a) => <<"review", a>> \in artifact
    /\ pc = "apply" /\ held[1] = "review" => held \in artifact

\* An acceptance counts exactly while the ticket is accepted.
Acceptances ==
    /\ invalidated # 0 => invalidated = accepted
    /\ replacement # 0 => invalidated # 0
    /\ Effective # 0 <=> state \in {"accepted", "done"}

\* What is in git is what the intent says, and the intent is about what is accepted.
Commits ==
    /\ intent.attempt # 0 => Effective = intent.attempt
    /\ head # 0 => intent.attempt = head
    /\ ref # 0 => ref = head
    /\ evidence # 0 => evidence = head /\ ref = head
    /\ pc = "commit" => intent.attempt = held[2]
    /\ pc = "ref" \/ (pc = "apply" /\ held[1] = "git_integration") => head = held[2]
    /\ pc = "apply" /\ held[1] = "git_integration" => ref = head
    /\ state = "done" => evidence = Effective

IInv ==
    /\ TypeOK /\ Placed /\ InState /\ Once /\ Numbered /\ Calls /\ Reviews /\ Acceptances
    /\ Commits /\ AttemptsAuthorized /\ AcceptedVerified

USE DEF ledgerVars, ticketVars, attemptVars, modelVars, stageVars, acceptVars, gitVars,
        tickVars, faultVars

----------------------------------------------------------------------------
(* Attempts and stages.                                                    *)

LEMMA AttemptsAre ==
  /\ Cardinality(Attempts) \in Nat
  /\ \A a \in Attempts : a \in Nat /\ a >= 1 /\ a <= Cardinality(Attempts)
  /\ \A a \in Nat : a >= 1 /\ a <= Cardinality(Attempts) => a \in Attempts
  /\ 0 \notin Attempts /\ 1 \in Attempts
  BY AttemptsAssumption, FS_CardinalityType

LEMMA FamiliesAre ==
  Families = {"implementation", "validation", "review", "repair_routing", "triage",
              "acceptance", "git_integration", "completion"}
  <1>1. 1..8 = {1, 2, 3, 4, 5, 6, 7, 8}
    OBVIOUS
  <1>2. QED
    BY <1>1 DEF Families, Order

LEMMA HeldIs ==
  ASSUME NEW c \in Claims
  PROVE  c = <<c[1], c[2]>> /\ c[1] \in Families /\ c[2] \in Attempts
  BY DEF Claims

LEMMA ClaimOf == \A f \in Families, a \in Attempts : <<f, a>> \in Claims
  BY DEF Claims

LEMMA ClaimsAreFinite == IsFiniteSet(Claims) /\ Cardinality(Claims) \in Nat
  <1>1. IsFiniteSet({"implementation"})
    BY FS_Singleton
  <1>2. \A S, x : IsFiniteSet(S) => IsFiniteSet(S \cup {x})
    BY FS_AddElement
  <1>3. IsFiniteSet((((((({"implementation"} \cup {"validation"}) \cup {"review"})
                         \cup {"repair_routing"}) \cup {"triage"}) \cup {"acceptance"})
                         \cup {"git_integration"}) \cup {"completion"})
    BY <1>1, <1>2, Zenon
  <1>4. IsFiniteSet(Families)
    BY <1>3, FamiliesAre
  <1>5. QED
    BY <1>4, AttemptsAssumption, FS_Product, FS_CardinalityType DEF Claims

\* One claim gets another status, and nothing else happens to claims.
LEMMA ClaimWritten ==
  ASSUME ClaimTypes, NEW c \in Claims, NEW s \in ClaimStatuses,
         claim' = [claim EXCEPT ![c].status = s]
  PROVE  /\ ClaimTypes' /\ claim'[c].status = s
         /\ \A d \in Claims : d # c => claim'[d] = claim[d]
  BY DEF ClaimTypes

\* The leases run out, the statuses stay.
LEMMA LeasesEnd ==
  ASSUME ClaimTypes, NEW n \in [Claims -> 0..Lease],
         claim' = [c \in Claims |-> [claim[c] EXCEPT !.left = n[c]]]
  PROVE  ClaimTypes' /\ \A c \in Claims : claim'[c].status = claim[c].status
  BY DEF ClaimTypes

\* A stage is applied, or its claim completed.
LEMMA Applying ==
  ASSUME held \in Claims, claim'[held].status \in {"applied", "completed"},
         \A d \in Claims : d # held => claim'[d] = claim[d]
  PROVE  \A f \in Families, a \in Attempts :
           Effected(f, a)' <=> Effected(f, a) \/ <<f, a>> = held
  BY ClaimOf DEF Effected

\* The call of a stage that is making one.
LEMMA CalledIs ==
  ASSUME IInv, Calling, held[1] \in ModelFamilies
  PROVE  /\ Called \in ModelFamilies \X Attempts /\ Called[1] = held[1]
         /\ held[1] # "implementation" => Called = held /\ held[2] \in Attempts
         /\ held[1] = "implementation" => Called = <<"implementation", attempt>>
  <1>1. held \in Claims
    BY DEF IInv, Placed, Calling
  <1>2. CASE held[1] = "implementation"
    <2>1. attempt \in Attempts
      BY <1>2 DEF IInv, InState, TypeOK, TicketTypes, Numbers
    <2>2. QED
      BY <1>2, <2>1 DEF Called
  <1>3. CASE held[1] # "implementation"
    BY <1>1, <1>3, HeldIs DEF Called
  <1>4. QED
    BY <1>2, <1>3

\* A set of attempts has a largest: of the sets of what is above one of them, a smallest
\* one is empty.
LEMMA LargestIs ==
  ASSUME NEW n \in Nat, NEW S \in SUBSET (1..n), S # {}
  PROVE  Largest(S) \in S /\ \A m \in S : m <= Largest(S)
  <1> DEFINE Above(x) == {m \in S : m > x}
             T == {U \in SUBSET S : \E x \in S : U = Above(x)}
  <1>1. IsFiniteSet(S)
    <2>1. IsFiniteSet(1..n)
      BY FS_Interval
    <2>2. QED
      BY <2>1, FS_Subset
  <1>2. IsWellFoundedOn(StrictSubsetOrdering(S), SUBSET S)
    BY <1>1, FS_StrictSubsetOrderingWellFounded, FS_FiniteSubsetsOfFinite
  <1>3. T \subseteq SUBSET S /\ T # {}
    <2>1. PICK x \in S : TRUE
      OBVIOUS
    <2>2. Above(x) \in T
      BY <2>1
    <2>3. QED
      BY <2>2
  <1>4. PICK U \in T : \A V \in T : <<V, U>> \notin StrictSubsetOrdering(S)
    <2> HIDE DEF T
    <2>1. QED
      BY <1>2, <1>3, WFMin
  <1>5. PICK x \in S : U = Above(x)
    BY <1>4
  <1>6. ASSUME NEW m \in S, m > x PROVE FALSE
    <2>1. m \in Int /\ x \in Int /\ \A y \in S : y \in Int
      OBVIOUS
    <2>2. Above(m) \subseteq U /\ m \in U /\ m \notin Above(m)
      <3>1. \A y \in S : y > m => y > x
        BY <1>6, <2>1
      <3>2. m \in Above(x) /\ m \notin Above(m)
        BY <1>6, <2>1
      <3>3. Above(m) \subseteq Above(x)
        BY <3>1
      <3>4. QED
        BY <1>5, <3>2, <3>3
    <2>3. U \in SUBSET S /\ Above(m) \in SUBSET S /\ Above(m) \in T
      BY <1>5
    <2>4. <<Above(m), U>> \in StrictSubsetOrdering(S)
      BY <2>2, <2>3 DEF StrictSubsetOrdering
    <2>5. QED
      BY <1>4, <2>3, <2>4
  <1>7. \A m \in S : m <= x
    BY <1>6
  <1>8. QED
    BY <1>5, <1>7 DEF Largest

----------------------------------------------------------------------------
(* One lemma per action.                                                   *)

\* A tick that raises leaves everything as it is.
LEMMA RaiseStep ==
  ASSUME IInv, Raise
  PROVE  IInv'
  <1>1. TypeOK'
    <2>1. TicketTypes'
      BY DEF IInv, TypeOK, TicketTypes, NoClaim, EndTick, Raise
    <2>2. ClaimTypes'
      BY DEF IInv, TypeOK, ClaimTypes, EndTick, NoClaim, Raise
    <2>3. ModelTypes'
      BY DEF IInv, TypeOK, ModelTypes, EndTick, NoClaim, Raise
    <2>4. StageTypes'
      BY DEF IInv, TypeOK, StageTypes, EndTick, NoClaim, Raise
    <2>5. AcceptTypes'
      BY DEF IInv, TypeOK, AcceptTypes, EndTick, NoClaim, Raise
    <2>6. TickTypes'
      BY DEF IInv, TypeOK, TickTypes, Steps, NoClaim, EndTick, Raise
    <2>7. QED
      BY <2>1, <2>2, <2>3, <2>4, <2>5, <2>6 DEF TypeOK
  <1>2. Placed'
    BY DEF IInv, Placed, EndTick, NoClaim, Raise
  <1>3. InState'
    BY DEF IInv, InState, Calling, EndTick, NoClaim, Raise
  <1>4. Once'
    BY DEF IInv, Once, Effected, EndTick, NoClaim, Raise
  <1>5. Numbered'
    BY DEF IInv, Numbered, Number, EndTick, NoClaim, Raise
  <1>6. Calls'
    BY DEF IInv, Calls, Called, EndTick, NoClaim, Raise
  <1>7. Reviews'
    BY DEF IInv, Reviews, Effected, EndTick, NoClaim, Raise
  <1>8. Acceptances'
    BY DEF IInv, Acceptances, Effective, EndTick, NoClaim, Raise
  <1>9. Commits'
    BY DEF IInv, Commits, Effective, EndTick, NoClaim, Raise
  <1>10. AttemptsAuthorized'
    BY DEF IInv, AttemptsAuthorized, EndTick, NoClaim, Raise
  <1>11. AcceptedVerified'
    BY DEF IInv, AcceptedVerified, Effective, EndTick, NoClaim, Raise
  <1>12. QED
    BY <1>1, <1>2, <1>3, <1>4, <1>5, <1>6, <1>7, <1>8, <1>9, <1>10, <1>11 DEF IInv

LEMMA StartTickStep ==
  ASSUME IInv, StartTick
  PROVE  IInv'
  <1>1. TypeOK'
    <2>1. TicketTypes'
      BY DEF IInv, TypeOK, TicketTypes, StartTick
    <2>2. ClaimTypes'
      BY DEF IInv, TypeOK, ClaimTypes, StartTick
    <2>3. ModelTypes'
      BY DEF IInv, TypeOK, ModelTypes, StartTick
    <2>4. StageTypes'
      BY DEF IInv, TypeOK, StageTypes, StartTick
    <2>5. AcceptTypes'
      BY DEF IInv, TypeOK, AcceptTypes, StartTick
    <2>6. TickTypes'
      BY DEF IInv, TypeOK, TickTypes, Steps, StartTick
    <2>7. QED
      BY <2>1, <2>2, <2>3, <2>4, <2>5, <2>6 DEF TypeOK
  <1>2. Placed'
    BY DEF IInv, Placed, StartTick
  <1>3. InState'
    BY DEF IInv, InState, Calling, StartTick
  <1>4. Once'
    BY DEF IInv, Once, Effected, StartTick
  <1>5. Numbered'
    BY DEF IInv, Numbered, Number, StartTick
  <1>6. Calls'
    BY DEF IInv, Calls, Called, StartTick
  <1>7. Reviews'
    BY DEF IInv, Reviews, Effected, StartTick
  <1>8. Acceptances'
    BY DEF IInv, Acceptances, Effective, StartTick
  <1>9. Commits'
    BY DEF IInv, Commits, Effective, StartTick
  <1>10. AttemptsAuthorized'
    BY DEF IInv, AttemptsAuthorized, StartTick
  <1>11. AcceptedVerified'
    BY DEF IInv, AcceptedVerified, Effective, StartTick
  <1>12. QED
    BY <1>1, <1>2, <1>3, <1>4, <1>5, <1>6, <1>7, <1>8, <1>9, <1>10, <1>11 DEF IInv

LEMMA ReconcileStep ==
  ASSUME IInv, Reconcile
  PROVE  IInv'
  <1>1. TypeOK'
    <2>1. TicketTypes'
      BY DEF IInv, TypeOK, TicketTypes, NoClaim, Oldest, EndTick, Reconcile
    <2>2. ClaimTypes'
      BY DEF IInv, TypeOK, ClaimTypes, Oldest, EndTick, NoClaim, Reconcile
    <2>3. ModelTypes'
      BY DEF IInv, TypeOK, ModelTypes, Oldest, EndTick, NoClaim, Reconcile
    <2>4. StageTypes'
      BY DEF IInv, TypeOK, StageTypes, Oldest, EndTick, NoClaim, Reconcile
    <2>5. AcceptTypes'
      BY DEF IInv, TypeOK, AcceptTypes, Oldest, EndTick, NoClaim, Reconcile
    <2>6. TickTypes'
      BY HeldIs, ClaimOf DEF IInv, TypeOK, Placed, TickTypes, Steps, NoClaim, Oldest,
      EndTick, Reconcile
    <2>7. QED
      BY <2>1, <2>2, <2>3, <2>4, <2>5, <2>6 DEF TypeOK
  <1>2. Placed'
    BY DEF IInv, Placed, Oldest, EndTick, NoClaim, Reconcile
  <1>3. InState'
    BY DEF IInv, InState, Calling, Oldest, EndTick, NoClaim, Reconcile
  <1>4. Once'
    BY DEF IInv, Once, Effected, Oldest, EndTick, NoClaim, Reconcile
  <1>5. Numbered'
    BY DEF IInv, Numbered, Number, Oldest, EndTick, NoClaim, Reconcile
  <1>6. Calls'
    BY DEF IInv, Calls, Called, Oldest, EndTick, NoClaim, Reconcile
  <1>7. Reviews'
    BY DEF IInv, Reviews, Effected, Oldest, EndTick, NoClaim, Reconcile
  <1>8. Acceptances'
    BY DEF IInv, Acceptances, Effective, Oldest, EndTick, NoClaim, Reconcile
  <1>9. Commits'
    BY DEF IInv, Commits, Effective, Oldest, EndTick, NoClaim, Reconcile
  <1>10. AttemptsAuthorized'
    BY DEF IInv, AttemptsAuthorized, Oldest, EndTick, NoClaim, Reconcile
  <1>11. AcceptedVerified'
    BY DEF IInv, AcceptedVerified, Effective, Oldest, EndTick, NoClaim, Reconcile
  <1>12. QED
    BY <1>1, <1>2, <1>3, <1>4, <1>5, <1>6, <1>7, <1>8, <1>9, <1>10, <1>11 DEF IInv

LEMMA WaitStep ==
  ASSUME IInv, Wait
  PROVE  IInv'
  <1>1. /\ ClaimTypes' /\ \A c \in Claims : claim'[c].status = claim[c].status
        /\ left' \in 0..Lease
        /\ UNCHANGED <<state, maxAttempts, holder, attemptVars, modelVars, stageVars, acceptVars,
                       gitVars, tickVars, paused, faultVars>>
    <2> DEFINE n == [c \in Claims |-> IF claim[c].left > 0 THEN claim[c].left - 1 ELSE 0]
    <2>1. n \in [Claims -> 0..Lease]
      BY LeaseAssumption DEF IInv, TypeOK, ClaimTypes
    <2>2. claim' = [c \in Claims |-> [claim[c] EXCEPT !.left = n[c]]]
      BY DEF Wait
    <2>3. left' \in 0..Lease
      BY LeaseAssumption DEF IInv, TypeOK, TicketTypes, Wait
    <2> HIDE DEF n
    <2>4. QED
      BY <2>1, <2>2, <2>3, LeasesEnd DEF IInv, TypeOK, Wait
  <1>2. TypeOK'
    <2>1. TicketTypes'
      BY <1>1 DEF IInv, TypeOK, TicketTypes
    <2>2. ClaimTypes'
      BY <1>1 DEF IInv, TypeOK, ClaimTypes
    <2>3. ModelTypes'
      BY <1>1 DEF IInv, TypeOK, ModelTypes
    <2>4. StageTypes'
      BY <1>1 DEF IInv, TypeOK, StageTypes
    <2>5. AcceptTypes'
      BY <1>1 DEF IInv, TypeOK, AcceptTypes
    <2>6. TickTypes'
      BY <1>1 DEF IInv, TypeOK, TickTypes, Steps
    <2>7. QED
      BY <2>1, <2>2, <2>3, <2>4, <2>5, <2>6 DEF TypeOK
  <1>3. Placed'
    BY <1>1 DEF IInv, Placed
  <1>4. InState'
    BY <1>1 DEF IInv, InState, Calling
  <1>5. Once'
    BY <1>1, AttemptsAre, FamiliesAre, HeldIs, ClaimOf DEF IInv, TypeOK, ClaimTypes,
    StageTypes, AcceptTypes, TickTypes, Placed, Once, Goto, EndTick, Effected, Effective,
    Number, Called, At, Calling, Steps
  <1>6. Numbered'
    BY <1>1, HeldIs, ClaimOf DEF IInv, Placed, Numbered, Number
  <1>7. Calls'
    BY <1>1 DEF IInv, Calls, Called
  <1>8. Reviews'
    BY <1>1, AttemptsAre, FamiliesAre, HeldIs, ClaimOf DEF IInv, TypeOK, ModelTypes,
    StageTypes, TickTypes, Placed, Reviews, Goto, EndTick, Effected, Effective, Number,
    Called, At, Calling, Steps
  <1>9. Acceptances'
    BY <1>1 DEF IInv, Acceptances, Effective
  <1>10. Commits'
    BY <1>1 DEF IInv, Commits, Effective
  <1>11. AttemptsAuthorized'
    BY <1>1 DEF IInv, AttemptsAuthorized
  <1>12. AcceptedVerified'
    BY <1>1 DEF IInv, AcceptedVerified, Effective
  <1>13. QED
    BY <1>2, <1>3, <1>4, <1>5, <1>6, <1>7, <1>8, <1>9, <1>10, <1>11, <1>12 DEF IInv

LEMMA CrashStep ==
  ASSUME IInv, Crash
  PROVE  IInv'
  <1>1. /\ ClaimTypes' /\ \A c \in Claims : claim'[c].status = claim[c].status
        /\ left' = 0 /\ crashes' \in 0..MaxCrashes /\ EndTick
        /\ UNCHANGED <<state, maxAttempts, holder, attemptVars, modelVars, stageVars, acceptVars,
                       gitVars, paused, pauses, exceptions>>
    <2> DEFINE n == [c \in Claims |-> 0]
    <2>1. n \in [Claims -> 0..Lease]
      BY LeaseAssumption
    <2>2. claim' = [c \in Claims |-> [claim[c] EXCEPT !.left = n[c]]]
      BY DEF Crash
    <2>3. crashes' \in 0..MaxCrashes
      BY BoundsAssumption DEF IInv, TypeOK, TickTypes, Crash
    <2> HIDE DEF n
    <2>4. QED
      BY <2>1, <2>2, <2>3, LeasesEnd DEF IInv, TypeOK, Crash
  <1>2. TypeOK'
    <2>1. TicketTypes'
      BY <1>1, AttemptsAre, FamiliesAre, HeldIs, ClaimOf, LeaseAssumption DEF IInv, TypeOK,
      TicketTypes, ClaimTypes, AcceptTypes, Placed, Goto, EndTick, Effected, Effective,
      Number, Called, At, Calling, Steps, NoClaim
    <2>2. ClaimTypes'
      BY <1>1 DEF IInv, TypeOK, ClaimTypes
    <2>3. ModelTypes'
      BY <1>1 DEF IInv, TypeOK, ModelTypes
    <2>4. StageTypes'
      BY <1>1 DEF IInv, TypeOK, StageTypes
    <2>5. AcceptTypes'
      BY <1>1 DEF IInv, TypeOK, AcceptTypes
    <2>6. TickTypes'
      BY <1>1, AttemptsAre, FamiliesAre, HeldIs, ClaimOf, LeaseAssumption DEF IInv, TypeOK,
      TickTypes, Placed, Goto, EndTick, Effected, Effective, Number, Called, At, Calling,
      Steps, NoClaim
    <2>7. QED
      BY <2>1, <2>2, <2>3, <2>4, <2>5, <2>6 DEF TypeOK
  <1>3. Placed'
    BY <1>1, AttemptsAre, FamiliesAre, HeldIs, ClaimOf, LeaseAssumption DEF IInv, TypeOK,
    ClaimTypes, StageTypes, AcceptTypes, TickTypes, Placed, Goto, EndTick, Effected,
    Effective, Number, Called, At, Calling, Steps, NoClaim
  <1>4. InState'
    BY <1>1, AttemptsAre, FamiliesAre, HeldIs, ClaimOf, LeaseAssumption DEF IInv, TypeOK,
    TicketTypes, StageTypes, AcceptTypes, TickTypes, Placed, InState, Goto, EndTick,
    Effected, Effective, Number, Called, At, Calling, Steps, NoClaim
  <1>5. Once'
    BY <1>1, AttemptsAre, FamiliesAre, HeldIs, ClaimOf, LeaseAssumption DEF IInv, TypeOK,
    ClaimTypes, StageTypes, AcceptTypes, TickTypes, Placed, Once, Goto, EndTick, Effected,
    Effective, Number, Called, At, Calling, Steps, NoClaim
  <1>6. Numbered'
    BY <1>1, AttemptsAre, FamiliesAre, HeldIs, ClaimOf, LeaseAssumption DEF IInv, TypeOK,
    TicketTypes, ClaimTypes, ModelTypes, StageTypes, AcceptTypes, TickTypes, Placed,
    Numbered, Goto, EndTick, Effected, Effective, Number, Called, At, Calling, Steps,
    NoClaim
  <1>7. Calls'
    BY <1>1, AttemptsAre, FamiliesAre, HeldIs, ClaimOf, LeaseAssumption DEF IInv, TypeOK,
    ModelTypes, TickTypes, Placed, Calls, Goto, EndTick, Effected, Effective, Number,
    Called, At, Calling, Steps, NoClaim
  <1>8. Reviews'
    BY <1>1, AttemptsAre, FamiliesAre, HeldIs, ClaimOf, LeaseAssumption DEF IInv, TypeOK,
    ModelTypes, StageTypes, TickTypes, Placed, Reviews, Goto, EndTick, Effected, Effective,
    Number, Called, At, Calling, Steps, NoClaim
  <1>9. Acceptances'
    BY <1>1 DEF IInv, Acceptances, Effective
  <1>10. Commits'
    BY <1>1, AttemptsAre, FamiliesAre, HeldIs, ClaimOf, LeaseAssumption DEF IInv, TypeOK,
    TicketTypes, AcceptTypes, TickTypes, Placed, Commits, Goto, EndTick, Effected,
    Effective, Number, Called, At, Calling, Steps, NoClaim
  <1>11. AttemptsAuthorized'
    BY <1>1 DEF IInv, AttemptsAuthorized
  <1>12. AcceptedVerified'
    BY <1>1 DEF IInv, AcceptedVerified, Effective
  <1>13. QED
    BY <1>2, <1>3, <1>4, <1>5, <1>6, <1>7, <1>8, <1>9, <1>10, <1>11, <1>12 DEF IInv

LEMMA BeginStep ==
  ASSUME IInv, Begin
  PROVE  IInv'
  <1>1. SUFFICES ASSUME ~Raise PROVE IInv'
    BY RaiseStep
  <1>2. /\ held \in Claims /\ claim[held].status \in Open /\ pc = "begin"
        /\ Goto(IF claim[held].status = "applied" THEN "finalize" ELSE AfterBegin(held))
        /\ ClaimTypes'
        /\ claim'[held].status = IF claim[held].status = "claimed" THEN "begun" ELSE claim[held].status
        /\ \A d \in Claims : d # held => claim'[d] = claim[d]
        /\ UNCHANGED <<ticketVars, attemptVars, modelVars, stageVars, acceptVars, gitVars, paused,
                       faultVars>>
    <2> DEFINE s == IF claim[held].status = "claimed" THEN "begun" ELSE claim[held].status
    <2>1. held \in Claims /\ claim[held].status \in Open
      BY <1>1 DEF IInv, Placed, Begin, Owned
    <2>2. claim' = [claim EXCEPT ![held].status = s] /\ s \in ClaimStatuses
      BY <1>1, <2>1 DEF Begin, ClaimStatuses, Open
    <2>3. ClaimTypes' /\ claim'[held].status = s /\ \A d \in Claims : d # held => claim'[d] = claim[d]
      BY <2>1, <2>2, ClaimWritten DEF IInv, TypeOK
    <2>4. QED
      BY <1>1, <2>1, <2>3 DEF Begin
  <1>3. TypeOK'
    <2>1. TicketTypes'
      BY <1>2 DEF IInv, TypeOK, TicketTypes
    <2>2. ClaimTypes'
      BY <1>2 DEF IInv, TypeOK, ClaimTypes
    <2>3. ModelTypes'
      BY <1>2 DEF IInv, TypeOK, ModelTypes
    <2>4. StageTypes'
      BY <1>2 DEF IInv, TypeOK, StageTypes
    <2>5. AcceptTypes'
      BY <1>2 DEF IInv, TypeOK, AcceptTypes
    <2>6. TickTypes'
      BY <1>2, AttemptsAre, FamiliesAre, HeldIs, ClaimOf DEF IInv, TypeOK, TickTypes,
      Placed, Goto, EndTick, Effected, Effective, Number, Called, At, Calling, Owned,
      AfterBegin, Routable, Open, Steps
    <2>7. QED
      BY <2>1, <2>2, <2>3, <2>4, <2>5, <2>6 DEF TypeOK
  <1>4. Placed'
    BY <1>2, AttemptsAre, FamiliesAre, HeldIs, ClaimOf DEF IInv, TypeOK, ClaimTypes,
    StageTypes, AcceptTypes, TickTypes, Placed, Goto, EndTick, Effected, Effective, Number,
    Called, At, Calling, Owned, AfterBegin, Routable, Open, Steps
  <1>5. InState'
    BY <1>2, AttemptsAre, FamiliesAre, HeldIs, ClaimOf DEF IInv, TypeOK, TicketTypes,
    StageTypes, AcceptTypes, TickTypes, Placed, InState, Goto, EndTick, Effected, Effective,
    Number, Called, At, Calling, Owned, AfterBegin, Routable, Open, Steps
  <1>6. Once'
    <2>1. \A f \in Families, a \in Attempts : Effected(f, a) => Effected(f, a)'
      BY <1>2, ClaimOf DEF Effected
    <2>2. held[1] \in {"repair_routing", "acceptance"} => claim[held].status = "claimed"
      BY <1>2 DEF IInv, Once
    <2>3. held[1] \in {"repair_routing", "acceptance"} => claim'[held].status = "begun"
      BY <1>2, <2>2
    <2>4. held' = held /\ pc' # "begin" /\ UNCHANGED <<route, accepted, replacement>>
      BY <1>2 DEF Goto, AfterBegin
    <2>5. QED
      BY <2>1, <2>3, <2>4, FamiliesAre DEF IInv, Once
  <1>7. Numbered'
    BY <1>2, AttemptsAre, FamiliesAre, HeldIs, ClaimOf DEF IInv, TypeOK, TicketTypes,
    ClaimTypes, ModelTypes, StageTypes, AcceptTypes, TickTypes, Placed, Numbered, Goto,
    EndTick, Effected, Effective, Number, Called, At, Calling, Owned, AfterBegin, Routable,
    Open, Steps
  <1>8. Calls'
    BY <1>2, AttemptsAre, FamiliesAre, HeldIs, ClaimOf DEF IInv, TypeOK, ModelTypes,
    TickTypes, Placed, Calls, Goto, EndTick, Effected, Effective, Number, Called, At,
    Calling, Owned, AfterBegin, Routable, Open, Steps
  <1>9. Reviews'
    BY <1>2, AttemptsAre, FamiliesAre, HeldIs, ClaimOf DEF IInv, TypeOK, ModelTypes,
    StageTypes, TickTypes, Placed, Reviews, Goto, EndTick, Effected, Effective, Number,
    Called, At, Calling, Owned, AfterBegin, Routable, Open, Steps
  <1>10. Acceptances'
    BY <1>2 DEF IInv, Acceptances, Effective
  <1>11. Commits'
    BY <1>2, AttemptsAre, FamiliesAre, HeldIs, ClaimOf DEF IInv, TypeOK, TicketTypes,
    AcceptTypes, TickTypes, Placed, Commits, Goto, EndTick, Effected, Effective, Number,
    Called, At, Calling, Owned, AfterBegin, Routable, Open, Steps
  <1>12. AttemptsAuthorized'
    BY <1>2 DEF IInv, AttemptsAuthorized
  <1>13. AcceptedVerified'
    BY <1>2 DEF IInv, AcceptedVerified, Effective
  <1>14. QED
    BY <1>3, <1>4, <1>5, <1>6, <1>7, <1>8, <1>9, <1>10, <1>11, <1>12, <1>13 DEF IInv

LEMMA CheckImplementationStep ==
  ASSUME IInv, CheckImplementation
  PROVE  IInv'
  <1>1. SUFFICES ASSUME ~Raise PROVE IInv'
    BY RaiseStep
  <1>2. TypeOK'
    <2>1. TicketTypes'
      BY <1>1, AttemptsAre, FamiliesAre, HeldIs, ClaimOf DEF IInv, TypeOK, TicketTypes,
      ClaimTypes, AcceptTypes, Placed, CheckImplementation, Goto, EndTick, Effected,
      Effective, Number, Called, At, Calling, ModelFamilies, Numbers, Steps, NoClaim
    <2>2. ClaimTypes'
      BY <1>1 DEF IInv, TypeOK, ClaimTypes, At, Number, Goto, EndTick, NoClaim,
      CheckImplementation
    <2>3. ModelTypes'
      BY <1>1 DEF IInv, TypeOK, ModelTypes, ModelFamilies, At, Number, Goto, EndTick,
      NoClaim, CheckImplementation
    <2>4. StageTypes'
      BY <1>1 DEF IInv, TypeOK, StageTypes, Numbers, At, Number, Goto, EndTick, NoClaim,
      CheckImplementation
    <2>5. AcceptTypes'
      BY <1>1 DEF IInv, TypeOK, AcceptTypes, Numbers, At, Number, Goto, EndTick, NoClaim,
      CheckImplementation
    <2>6. TickTypes'
      BY <1>1 DEF IInv, TypeOK, TickTypes, Steps, NoClaim, At, Number, Goto, EndTick,
      CheckImplementation
    <2>7. QED
      BY <2>1, <2>2, <2>3, <2>4, <2>5, <2>6 DEF TypeOK
  <1>3. Placed'
    BY <1>1 DEF IInv, Placed, ModelFamilies, At, Number, Goto, EndTick, NoClaim,
    CheckImplementation
  <1>4. InState'
    BY <1>1 DEF IInv, InState, Calling, At, Number, Goto, EndTick, NoClaim,
    CheckImplementation
  <1>5. Once'
    BY <1>1 DEF IInv, Once, Effected, At, Number, Goto, EndTick, NoClaim,
    CheckImplementation
  <1>6. Numbered'
    BY <1>1, AttemptsAre, FamiliesAre, HeldIs, ClaimOf DEF IInv, TypeOK, TicketTypes,
    ClaimTypes, ModelTypes, StageTypes, AcceptTypes, TickTypes, Placed, Numbered,
    CheckImplementation, Goto, EndTick, Effected, Effective, Number, Called, At, Calling,
    ModelFamilies, Numbers, Steps, NoClaim
  <1>7. Calls'
    <2>1. /\ attempt' = Number /\ Number \in Attempts /\ held[1] = "implementation"
          /\ pc' # "run" /\ (pc' = "launch" => held' = held) /\ UNCHANGED <<call, auth>>
      BY <1>1, AttemptsAre DEF IInv, TypeOK, TicketTypes, CheckImplementation, Number, Numbers, At,
         Goto, EndTick
    <2>2. <<"implementation", Number>> \in DOMAIN call
      BY <2>1 DEF IInv, TypeOK, ModelTypes, ModelFamilies
    <2>3. pc' = "launch" => call[<<"implementation", Number>>].status = "none"
      <3>1. call[<<"implementation", Number>>].status \in CallStatuses
        BY <2>2 DEF IInv, TypeOK, ModelTypes
      <3>2. call[<<"implementation", Number>>].status # "started"
        BY <1>1, <2>2 DEF CheckImplementation
      <3>3. pc' = "launch" => call[<<"implementation", Number>>].status \notin {"failed", "completed"}
        BY <1>1 DEF CheckImplementation, Goto, EndTick
      <3>4. QED
        BY <3>1, <3>2, <3>3 DEF CallStatuses
    <2>4. QED
      BY <2>1, <2>3 DEF IInv, Calls, Called
  <1>8. Reviews'
    BY <1>1 DEF IInv, Reviews, Effected, At, Number, Goto, EndTick, NoClaim,
    CheckImplementation
  <1>9. Acceptances'
    BY <1>1 DEF IInv, Acceptances, Effective, At, Number, Goto, EndTick, NoClaim,
    CheckImplementation
  <1>10. Commits'
    BY <1>1 DEF IInv, Commits, Effective, At, Number, Goto, EndTick, NoClaim,
    CheckImplementation
  <1>11. AttemptsAuthorized'
    BY <1>1, AttemptsAre, FamiliesAre, HeldIs, ClaimOf DEF IInv, TypeOK, TicketTypes,
    StageTypes, AcceptTypes, Placed, AttemptsAuthorized, CheckImplementation, Goto, EndTick,
    Effected, Effective, Number, Called, At, Calling, ModelFamilies, Numbers, Steps, NoClaim
  <1>12. AcceptedVerified'
    BY <1>1 DEF IInv, AcceptedVerified, Effective, At, Number, Goto, EndTick, NoClaim,
    CheckImplementation
  <1>13. QED
    BY <1>2, <1>3, <1>4, <1>5, <1>6, <1>7, <1>8, <1>9, <1>10, <1>11, <1>12 DEF IInv

LEMMA CheckValidationStep ==
  ASSUME IInv, CheckValidation
  PROVE  IInv'
  <1>1. SUFFICES ASSUME ~Raise PROVE IInv'
    BY RaiseStep
  <1>2. /\ pc = "check" /\ held[1] = "validation" /\ pc' \in {"advance", "run"}
        /\ state \notin {"accepted", "done"}
        /\ UNCHANGED <<ledgerVars, paused, faultVars, scope, held>>
    BY <1>1 DEF CheckValidation, Move, Goto, At
  <1>3. TypeOK'
    <2>1. TicketTypes'
      BY <1>2 DEF IInv, TypeOK, TicketTypes
    <2>2. ClaimTypes'
      BY <1>2 DEF IInv, TypeOK, ClaimTypes
    <2>3. ModelTypes'
      BY <1>2 DEF IInv, TypeOK, ModelTypes, ModelFamilies
    <2>4. StageTypes'
      BY <1>2 DEF IInv, TypeOK, StageTypes
    <2>5. AcceptTypes'
      BY <1>2 DEF IInv, TypeOK, AcceptTypes
    <2>6. TickTypes'
      BY <1>2 DEF IInv, TypeOK, TickTypes, Steps
    <2>7. QED
      BY <2>1, <2>2, <2>3, <2>4, <2>5, <2>6 DEF TypeOK
  <1>4. Placed'
    BY <1>2 DEF IInv, Placed, ModelFamilies
  <1>5. InState'
    BY <1>2 DEF IInv, InState, Calling
  <1>6. Once'
    BY <1>2 DEF IInv, Once, Effected
  <1>7. Numbered'
    BY <1>2 DEF IInv, Numbered, Number
  <1>8. Calls'
    BY <1>2 DEF IInv, Calls, ModelFamilies, Called
  <1>9. Reviews'
    BY <1>2 DEF IInv, Reviews, Effected
  <1>10. Acceptances'
    BY <1>2 DEF IInv, Acceptances, Effective
  <1>11. Commits'
    BY <1>2 DEF IInv, Commits, Effective
  <1>12. AttemptsAuthorized'
    BY <1>2 DEF IInv, AttemptsAuthorized
  <1>13. AcceptedVerified'
    BY <1>2 DEF IInv, AcceptedVerified, Effective
  <1>14. QED
    BY <1>3, <1>4, <1>5, <1>6, <1>7, <1>8, <1>9, <1>10, <1>11, <1>12, <1>13 DEF IInv

LEMMA CheckReviewStep ==
  ASSUME IInv, CheckReview
  PROVE  IInv'
  <1>1. SUFFICES ASSUME ~Raise PROVE IInv'
    BY RaiseStep
  <1>2. /\ pc = "check" /\ held[1] = "review" /\ state = "local_review"
        /\ \/ pc' = "apply" /\ held \in artifact
           \/ pc' = "record"
           \/ pc' = "launch" /\ (call[held].status = "none" \/ auth[held[2]].open)
        /\ UNCHANGED <<ledgerVars, paused, faultVars, scope, held>>
    BY <1>1 DEF CheckReview, Move, Goto, At
  <1>3. TypeOK'
    <2>1. TicketTypes'
      BY <1>2 DEF IInv, TypeOK, TicketTypes
    <2>2. ClaimTypes'
      BY <1>2 DEF IInv, TypeOK, ClaimTypes
    <2>3. ModelTypes'
      BY <1>2 DEF IInv, TypeOK, ModelTypes, ModelFamilies
    <2>4. StageTypes'
      BY <1>2 DEF IInv, TypeOK, StageTypes
    <2>5. AcceptTypes'
      BY <1>2 DEF IInv, TypeOK, AcceptTypes
    <2>6. TickTypes'
      BY <1>2 DEF IInv, TypeOK, TickTypes, Steps
    <2>7. QED
      BY <2>1, <2>2, <2>3, <2>4, <2>5, <2>6 DEF TypeOK
  <1>4. Placed'
    BY <1>2 DEF IInv, Placed, ModelFamilies
  <1>5. InState'
    BY <1>2 DEF IInv, InState, Calling
  <1>6. Once'
    BY <1>2 DEF IInv, Once, Effected
  <1>7. Numbered'
    BY <1>2 DEF IInv, Numbered, Number
  <1>8. Calls'
    BY <1>2 DEF IInv, Calls, ModelFamilies, Called
  <1>9. Reviews'
    BY <1>2 DEF IInv, Reviews, Effected
  <1>10. Acceptances'
    BY <1>2 DEF IInv, Acceptances, Effective
  <1>11. Commits'
    BY <1>2 DEF IInv, Commits, Effective
  <1>12. AttemptsAuthorized'
    BY <1>2 DEF IInv, AttemptsAuthorized
  <1>13. AcceptedVerified'
    BY <1>2 DEF IInv, AcceptedVerified, Effective
  <1>14. QED
    BY <1>3, <1>4, <1>5, <1>6, <1>7, <1>8, <1>9, <1>10, <1>11, <1>12, <1>13 DEF IInv

LEMMA CheckTriageStep ==
  ASSUME IInv, CheckTriage
  PROVE  IInv'
  <1>1. SUFFICES ASSUME ~Raise PROVE IInv'
    BY RaiseStep
  <1>2. /\ pc = "check" /\ held[1] = "triage"
        /\ \/ pc' \in {"apply", "decide", "record"}
           \/ pc' = "launch" /\ call[held].status = "none"
        /\ UNCHANGED <<ledgerVars, paused, faultVars, scope, held>>
    BY <1>1 DEF CheckTriage, Move, Goto, At
  <1>3. TypeOK'
    <2>1. TicketTypes'
      BY <1>2 DEF IInv, TypeOK, TicketTypes
    <2>2. ClaimTypes'
      BY <1>2 DEF IInv, TypeOK, ClaimTypes
    <2>3. ModelTypes'
      BY <1>2 DEF IInv, TypeOK, ModelTypes, ModelFamilies
    <2>4. StageTypes'
      BY <1>2 DEF IInv, TypeOK, StageTypes
    <2>5. AcceptTypes'
      BY <1>2 DEF IInv, TypeOK, AcceptTypes
    <2>6. TickTypes'
      BY <1>2 DEF IInv, TypeOK, TickTypes, Steps
    <2>7. QED
      BY <2>1, <2>2, <2>3, <2>4, <2>5, <2>6 DEF TypeOK
  <1>4. Placed'
    BY <1>2 DEF IInv, Placed, ModelFamilies
  <1>5. InState'
    BY <1>2 DEF IInv, InState, Calling
  <1>6. Once'
    BY <1>2 DEF IInv, Once, Effected
  <1>7. Numbered'
    BY <1>2 DEF IInv, Numbered, Number
  <1>8. Calls'
    BY <1>2 DEF IInv, Calls, ModelFamilies, Called
  <1>9. Reviews'
    BY <1>2 DEF IInv, Reviews, Effected
  <1>10. Acceptances'
    BY <1>2 DEF IInv, Acceptances, Effective
  <1>11. Commits'
    BY <1>2 DEF IInv, Commits, Effective
  <1>12. AttemptsAuthorized'
    BY <1>2 DEF IInv, AttemptsAuthorized
  <1>13. AcceptedVerified'
    BY <1>2 DEF IInv, AcceptedVerified, Effective
  <1>14. QED
    BY <1>3, <1>4, <1>5, <1>6, <1>7, <1>8, <1>9, <1>10, <1>11, <1>12, <1>13 DEF IInv

LEMMA CheckAcceptanceStep ==
  ASSUME IInv, CheckAcceptance
  PROVE  IInv'
  <1>1. SUFFICES ASSUME ~Raise PROVE IInv'
    BY RaiseStep
  <1>2. /\ pc = "check" /\ held[1] = "acceptance" /\ pc' = "apply"
        /\ UNCHANGED <<ledgerVars, paused, faultVars, scope, held>>
    BY <1>1 DEF CheckAcceptance, Move, Goto, At
  <1>3. TypeOK'
    <2>1. TicketTypes'
      BY <1>2 DEF IInv, TypeOK, TicketTypes
    <2>2. ClaimTypes'
      BY <1>2 DEF IInv, TypeOK, ClaimTypes
    <2>3. ModelTypes'
      BY <1>2 DEF IInv, TypeOK, ModelTypes
    <2>4. StageTypes'
      BY <1>2 DEF IInv, TypeOK, StageTypes
    <2>5. AcceptTypes'
      BY <1>2 DEF IInv, TypeOK, AcceptTypes
    <2>6. TickTypes'
      BY <1>2 DEF IInv, TypeOK, TickTypes, Steps
    <2>7. QED
      BY <2>1, <2>2, <2>3, <2>4, <2>5, <2>6 DEF TypeOK
  <1>4. Placed'
    BY <1>2 DEF IInv, Placed
  <1>5. InState'
    BY <1>2 DEF IInv, InState, Calling
  <1>6. Once'
    BY <1>2 DEF IInv, Once, Effected
  <1>7. Numbered'
    BY <1>2 DEF IInv, Numbered, Number
  <1>8. Calls'
    BY <1>2 DEF IInv, Calls, Called
  <1>9. Reviews'
    BY <1>2 DEF IInv, Reviews, Effected
  <1>10. Acceptances'
    BY <1>2 DEF IInv, Acceptances, Effective
  <1>11. Commits'
    BY <1>2 DEF IInv, Commits, Effective
  <1>12. AttemptsAuthorized'
    BY <1>2 DEF IInv, AttemptsAuthorized
  <1>13. AcceptedVerified'
    BY <1>2 DEF IInv, AcceptedVerified, Effective
  <1>14. QED
    BY <1>3, <1>4, <1>5, <1>6, <1>7, <1>8, <1>9, <1>10, <1>11, <1>12, <1>13 DEF IInv

LEMMA CheckGitStep ==
  ASSUME IInv, CheckGit
  PROVE  IInv'
  <1>1. SUFFICES ASSUME ~Raise PROVE IInv'
    BY RaiseStep
  <1>2. /\ pc = "check" /\ held[1] = "git_integration"
        /\ pc' = "intent" \/ (pc' = "ref" /\ head = held[2])
        /\ UNCHANGED <<ledgerVars, paused, faultVars, scope, held>>
    BY <1>1 DEF CheckGit, Move, Goto, At
  <1>3. TypeOK'
    <2>1. TicketTypes'
      BY <1>2 DEF IInv, TypeOK, TicketTypes
    <2>2. ClaimTypes'
      BY <1>2 DEF IInv, TypeOK, ClaimTypes
    <2>3. ModelTypes'
      BY <1>2 DEF IInv, TypeOK, ModelTypes
    <2>4. StageTypes'
      BY <1>2 DEF IInv, TypeOK, StageTypes
    <2>5. AcceptTypes'
      BY <1>2 DEF IInv, TypeOK, AcceptTypes
    <2>6. TickTypes'
      BY <1>2 DEF IInv, TypeOK, TickTypes, Steps
    <2>7. QED
      BY <2>1, <2>2, <2>3, <2>4, <2>5, <2>6 DEF TypeOK
  <1>4. Placed'
    BY <1>2 DEF IInv, Placed
  <1>5. InState'
    BY <1>2 DEF IInv, InState, Calling
  <1>6. Once'
    BY <1>2 DEF IInv, Once, Effected
  <1>7. Numbered'
    BY <1>2 DEF IInv, Numbered, Number
  <1>8. Calls'
    BY <1>2 DEF IInv, Calls, Called
  <1>9. Reviews'
    BY <1>2 DEF IInv, Reviews, Effected
  <1>10. Acceptances'
    BY <1>2 DEF IInv, Acceptances, Effective
  <1>11. Commits'
    BY <1>2 DEF IInv, Commits, Effective
  <1>12. AttemptsAuthorized'
    BY <1>2 DEF IInv, AttemptsAuthorized
  <1>13. AcceptedVerified'
    BY <1>2 DEF IInv, AcceptedVerified, Effective
  <1>14. QED
    BY <1>3, <1>4, <1>5, <1>6, <1>7, <1>8, <1>9, <1>10, <1>11, <1>12, <1>13 DEF IInv

LEMMA LaunchStep ==
  ASSUME IInv, Launch
  PROVE  IInv'
  <1>1. SUFFICES ASSUME ~Raise PROVE IInv'
    BY RaiseStep
  <1>2. TypeOK'
    <2>1. TicketTypes'
      BY <1>1 DEF IInv, TypeOK, TicketTypes, Called, Goto, Launch
    <2>2. ClaimTypes'
      BY <1>1 DEF IInv, TypeOK, ClaimTypes, Called, Goto, Launch
    <2>3. ModelTypes'
      <3>1. Called \in ModelFamilies \X Attempts /\ (held[1] = "review" => held[2] \in Attempts)
        BY CalledIs DEF IInv, Placed, Launch, Calling
      <3>2. call' \in [ModelFamilies \X Attempts -> [status : CallStatuses, launches : Nat]]
        <4>1. call[Called].launches + 1 \in Nat
          BY <3>1 DEF IInv, TypeOK, ModelTypes
        <4>2. QED
          BY <1>1, <3>1, <4>1 DEF IInv, TypeOK, ModelTypes, Launch, CallStatuses
      <3>3. auth' \in [Attempts -> [open : BOOLEAN, used : Nat]]
        <4>1. \A b \in Attempts : auth[b].used + 1 \in Nat
          BY DEF IInv, TypeOK, ModelTypes
        <4>2. CASE held[1] = "review" /\ auth[held[2]].open
          <5> DEFINE r == [open |-> FALSE, used |-> auth[held[2]].used + 1]
          <5>1. r \in [open : BOOLEAN, used : Nat]
            BY <3>1, <4>1, <4>2
          <5>2. auth' = [auth EXCEPT ![held[2]] = r]
            BY <1>1, <4>2 DEF Launch
          <5> HIDE DEF r
          <5>3. QED
            BY <5>1, <5>2 DEF IInv, TypeOK, ModelTypes
        <4>3. CASE ~(held[1] = "review" /\ auth[held[2]].open)
          BY <1>1, <4>3 DEF IInv, TypeOK, ModelTypes, Launch
        <4>4. QED
          BY <4>2, <4>3
      <3>4. QED
        BY <1>1, <3>2, <3>3 DEF IInv, TypeOK, ModelTypes, Launch
    <2>4. StageTypes'
      BY <1>1 DEF IInv, TypeOK, StageTypes, Called, Goto, Launch
    <2>5. AcceptTypes'
      BY <1>1 DEF IInv, TypeOK, AcceptTypes, Called, Goto, Launch
    <2>6. TickTypes'
      BY <1>1 DEF IInv, TypeOK, TickTypes, Steps, Called, Goto, Launch
    <2>7. QED
      BY <2>1, <2>2, <2>3, <2>4, <2>5, <2>6 DEF TypeOK
  <1>3. Placed'
    BY <1>1 DEF IInv, Placed, ModelFamilies, Called, Goto, Launch
  <1>4. InState'
    BY <1>1, AttemptsAre, FamiliesAre, HeldIs, ClaimOf DEF IInv, TypeOK, TicketTypes,
    StageTypes, AcceptTypes, TickTypes, Placed, InState, Launch, Goto, EndTick, Effected,
    Effective, Number, Called, At, Calling, ModelFamilies, CallStatuses, Steps
  <1>5. Once'
    BY <1>1 DEF IInv, Once, Effected, Called, Goto, Launch
  <1>6. Numbered'
    BY <1>1 DEF IInv, Numbered, Number, Called, Goto, Launch
  <1>7. Calls'
    <2>1. /\ Called \in ModelFamilies \X Attempts /\ held[1] \in ModelFamilies /\ Called[1] = held[1]
          /\ held[1] = "review" => Called = held /\ held[2] \in Attempts
      BY CalledIs DEF IInv, Placed, Launch, Calling
    <2>2. /\ Called' = Called /\ pc' = "run" /\ held' = held
          /\ call' = [call EXCEPT ![Called] = [status |-> "started", launches |-> @.launches + 1]]
      BY <1>1 DEF Launch, Goto, Called
    <2>3. /\ call'[Called].status = "started" /\ call'[Called].launches = call[Called].launches + 1
          /\ \A s \in ModelFamilies \X Attempts : s # Called => call'[s] = call[s]
      BY <2>1, <2>2 DEF IInv, TypeOK, ModelTypes
    <2>4. CASE held[1] = "review" /\ auth[held[2]].open
      <3>1. /\ ~auth'[held[2]].open /\ auth'[held[2]].used = auth[held[2]].used + 1
            /\ \A a \in Attempts : a # held[2] => auth'[a] = auth[a]
        BY <1>1, <2>1, <2>4 DEF IInv, TypeOK, ModelTypes, Launch
      <3>2. Called = <<"review", held[2]>> /\ held[2] \in Attempts
        BY <2>1, <2>4, HeldIs DEF IInv, Placed, Launch
      <3>3. call[Called].launches \in Nat /\ auth[held[2]].used \in Nat
        BY <2>1, <3>2 DEF IInv, TypeOK, ModelTypes
      <3>4. \A s \in ModelFamilies \X Attempts :
              /\ call'[s].status = "none" => call'[s].launches = 0
              /\ call'[s].launches <= IF s[1] = "review" THEN 1 + auth'[s[2]].used ELSE 1
        <4>1. TAKE s \in ModelFamilies \X Attempts
        <4>2. CASE s = Called
          <5>1. call[s].launches <= 1 + auth[held[2]].used
            BY <3>2, <4>2 DEF IInv, Calls
          <5>2. QED
            BY <2>3, <3>1, <3>2, <3>3, <4>2, <5>1
        <4>3. CASE s # Called
          <5>1. s[1] = "review" => s[2] # held[2] /\ s[2] \in Attempts
            BY <3>2, <4>3
          <5>2. QED
            BY <2>3, <3>1, <4>3, <5>1 DEF IInv, Calls
        <4>4. QED
          BY <4>2, <4>3
      <3>5. \A a \in Attempts : auth'[a].open => call'[<<"review", a>>].status = "failed"
        <4>1. "review" \in ModelFamilies
          BY DEF ModelFamilies
        <4>2. QED
          BY <2>3, <3>1, <3>2, <4>1 DEF IInv, Calls
      <3>6. QED
        BY <2>2, <2>3, <3>4, <3>5 DEF Calls
    <2>5. CASE ~(held[1] = "review" /\ auth[held[2]].open)
      <3>1. auth' = auth
        BY <1>1, <2>5 DEF Launch
      <3>2. call[Called].status = "none" /\ call[Called].launches = 0
        BY <2>1, <2>5 DEF IInv, Calls, Launch
      <3>3. \A s \in ModelFamilies \X Attempts :
              /\ call'[s].status = "none" => call'[s].launches = 0
              /\ call'[s].launches <= IF s[1] = "review" THEN 1 + auth'[s[2]].used ELSE 1
        <4>1. TAKE s \in ModelFamilies \X Attempts
        <4>2. s[2] \in Attempts /\ auth[s[2]].used \in Nat
          BY DEF IInv, TypeOK, ModelTypes
        <4>3. CASE s = Called
          BY <2>3, <3>1, <3>2, <4>2, <4>3
        <4>4. CASE s # Called
          BY <2>3, <3>1, <4>4 DEF IInv, Calls
        <4>5. QED
          BY <4>3, <4>4
      <3>4. \A a \in Attempts : auth'[a].open => call'[<<"review", a>>].status = "failed"
        <4>1. \A a \in Attempts : <<"review", a>> \in ModelFamilies \X Attempts
          BY DEF ModelFamilies
        <4>2. QED
          BY <2>3, <3>1, <3>2, <4>1 DEF IInv, Calls
      <3>5. QED
        BY <2>2, <2>3, <3>3, <3>4 DEF Calls
    <2>6. QED
      BY <2>4, <2>5
  <1>8. Reviews'
    BY <1>1 DEF IInv, Reviews, Effected, Called, Goto, Launch
  <1>9. Acceptances'
    BY <1>1 DEF IInv, Acceptances, Effective, Called, Goto, Launch
  <1>10. Commits'
    BY <1>1 DEF IInv, Commits, Effective, Called, Goto, Launch
  <1>11. AttemptsAuthorized'
    BY <1>1 DEF IInv, AttemptsAuthorized, Called, Goto, Launch
  <1>12. AcceptedVerified'
    BY <1>1 DEF IInv, AcceptedVerified, Effective, Called, Goto, Launch
  <1>13. QED
    BY <1>2, <1>3, <1>4, <1>5, <1>6, <1>7, <1>8, <1>9, <1>10, <1>11, <1>12 DEF IInv

LEMMA AnswerStep ==
  ASSUME IInv, Answer
  PROVE  IInv'
  <1>1. TypeOK'
    <2>1. TicketTypes'
      BY DEF IInv, TypeOK, TicketTypes, At, ModelFamilies, Called, Goto, Answer
    <2>2. ClaimTypes'
      BY DEF IInv, TypeOK, ClaimTypes, At, ModelFamilies, Called, Goto, Answer
    <2>3. ModelTypes'
      <3>1. pc = "run" /\ held[1] \in ModelFamilies /\ Called \in ModelFamilies \X Attempts
        BY CalledIs DEF IInv, Placed, Answer, Calling, At
      <3>2. QED
        BY <3>1 DEF IInv, TypeOK, ModelTypes, Answer, CallStatuses
    <2>4. StageTypes'
      BY DEF IInv, TypeOK, StageTypes, At, ModelFamilies, Called, Goto, Answer
    <2>5. AcceptTypes'
      BY DEF IInv, TypeOK, AcceptTypes, At, ModelFamilies, Called, Goto, Answer
    <2>6. TickTypes'
      BY DEF IInv, TypeOK, TickTypes, Steps, At, ModelFamilies, Called, Goto, Answer
    <2>7. QED
      BY <2>1, <2>2, <2>3, <2>4, <2>5, <2>6 DEF TypeOK
  <1>2. Placed'
    BY DEF IInv, Placed, ModelFamilies, At, Called, Goto, Answer
  <1>3. InState'
    BY DEF IInv, InState, Calling, At, ModelFamilies, Called, Goto, Answer
  <1>4. Once'
    BY DEF IInv, Once, Effected, At, ModelFamilies, Called, Goto, Answer
  <1>5. Numbered'
    BY DEF IInv, Numbered, Number, At, ModelFamilies, Called, Goto, Answer
  <1>6. Calls'
    BY DEF IInv, Calls, ModelFamilies, Called, At, Goto, Answer
  <1>7. Reviews'
    BY DEF IInv, Reviews, Effected, At, ModelFamilies, Called, Goto, Answer
  <1>8. Acceptances'
    BY DEF IInv, Acceptances, Effective, At, ModelFamilies, Called, Goto, Answer
  <1>9. Commits'
    BY DEF IInv, Commits, Effective, At, ModelFamilies, Called, Goto, Answer
  <1>10. AttemptsAuthorized'
    BY DEF IInv, AttemptsAuthorized, At, ModelFamilies, Called, Goto, Answer
  <1>11. AcceptedVerified'
    BY AttemptsAre, FamiliesAre, HeldIs, ClaimOf DEF IInv, TypeOK, Placed, InState, Once,
    Numbered, Calls, Reviews, Acceptances, Commits, AttemptsAuthorized, AcceptedVerified,
    TicketTypes, ClaimTypes, ModelTypes, StageTypes, AcceptTypes, TickTypes, Answer, Goto,
    EndTick, Effected, Effective, Number, Called, At, Calling, ModelFamilies, CallStatuses,
    Steps
  <1>12. QED
    BY <1>1, <1>2, <1>3, <1>4, <1>5, <1>6, <1>7, <1>8, <1>9, <1>10, <1>11 DEF IInv

LEMMA CallFailsStep ==
  ASSUME IInv, CallFails
  PROVE  IInv'
  <1>1. TypeOK'
    <2>1. TicketTypes'
      BY DEF IInv, TypeOK, TicketTypes, NoClaim, At, ModelFamilies, Called, EndTick,
      CallFails
    <2>2. ClaimTypes'
      BY DEF IInv, TypeOK, ClaimTypes, At, ModelFamilies, Called, EndTick, NoClaim,
      CallFails
    <2>3. ModelTypes'
      <3>1. pc = "run" /\ held[1] \in ModelFamilies /\ Called \in ModelFamilies \X Attempts
        BY CalledIs DEF IInv, Placed, CallFails, Calling, At
      <3>2. QED
        BY <3>1 DEF IInv, TypeOK, ModelTypes, CallFails, CallStatuses
    <2>4. StageTypes'
      BY DEF IInv, TypeOK, StageTypes, At, ModelFamilies, Called, EndTick, NoClaim,
      CallFails
    <2>5. AcceptTypes'
      BY DEF IInv, TypeOK, AcceptTypes, At, ModelFamilies, Called, EndTick, NoClaim,
      CallFails
    <2>6. TickTypes'
      BY AttemptsAre, FamiliesAre, HeldIs, ClaimOf, BoundsAssumption DEF IInv, TypeOK,
      TickTypes, Placed, CallFails, Goto, EndTick, Effected, Effective, Number, Called, At,
      Calling, ModelFamilies, CallStatuses, Steps, NoClaim
    <2>7. QED
      BY <2>1, <2>2, <2>3, <2>4, <2>5, <2>6 DEF TypeOK
  <1>2. Placed'
    BY DEF IInv, Placed, ModelFamilies, At, Called, EndTick, NoClaim, CallFails
  <1>3. InState'
    BY DEF IInv, InState, Calling, At, ModelFamilies, Called, EndTick, NoClaim, CallFails
  <1>4. Once'
    BY DEF IInv, Once, Effected, At, ModelFamilies, Called, EndTick, NoClaim, CallFails
  <1>5. Numbered'
    BY DEF IInv, Numbered, Number, At, ModelFamilies, Called, EndTick, NoClaim, CallFails
  <1>6. Calls'
    BY DEF IInv, Calls, ModelFamilies, Called, At, EndTick, NoClaim, CallFails
  <1>7. Reviews'
    BY DEF IInv, Reviews, Effected, At, ModelFamilies, Called, EndTick, NoClaim, CallFails
  <1>8. Acceptances'
    BY DEF IInv, Acceptances, Effective, At, ModelFamilies, Called, EndTick, NoClaim,
    CallFails
  <1>9. Commits'
    BY DEF IInv, Commits, Effective, At, ModelFamilies, Called, EndTick, NoClaim, CallFails
  <1>10. AttemptsAuthorized'
    BY DEF IInv, AttemptsAuthorized, At, ModelFamilies, Called, EndTick, NoClaim, CallFails
  <1>11. AcceptedVerified'
    BY DEF IInv, AcceptedVerified, Effective, At, ModelFamilies, Called, EndTick, NoClaim,
    CallFails
  <1>12. QED
    BY <1>1, <1>2, <1>3, <1>4, <1>5, <1>6, <1>7, <1>8, <1>9, <1>10, <1>11 DEF IInv

LEMMA RecordStep ==
  ASSUME IInv, Record
  PROVE  IInv'
  <1>1. TypeOK'
    <2>1. TicketTypes'
      BY DEF IInv, TypeOK, TicketTypes, Numbers, Called, Goto, Record
    <2>2. ClaimTypes'
      BY DEF IInv, TypeOK, ClaimTypes, Called, Goto, Record
    <2>3. ModelTypes'
      <3>1. pc = "record" /\ held[1] \in ModelFamilies /\ Called \in ModelFamilies \X Attempts
        BY CalledIs DEF IInv, Placed, Record, Calling, At
      <3>2. QED
        BY <3>1 DEF IInv, TypeOK, ModelTypes, Record, CallStatuses
    <2>4. StageTypes'
      BY DEF IInv, TypeOK, StageTypes, Numbers, Called, Goto, Record
    <2>5. AcceptTypes'
      BY DEF IInv, TypeOK, AcceptTypes, Numbers, Called, Goto, Record
    <2>6. TickTypes'
      BY DEF IInv, TypeOK, TickTypes, Steps, Called, Goto, Record
    <2>7. QED
      BY <2>1, <2>2, <2>3, <2>4, <2>5, <2>6 DEF TypeOK
  <1>2. Placed'
    BY DEF IInv, Placed, ModelFamilies, Called, Goto, Record
  <1>3. InState'
    BY DEF IInv, InState, Calling, Called, Goto, Record
  <1>4. Once'
    BY AttemptsAre, FamiliesAre, HeldIs, ClaimOf DEF IInv, TypeOK, ClaimTypes, StageTypes,
    AcceptTypes, TickTypes, Placed, Once, Record, Goto, EndTick, Effected, Effective,
    Number, Called, At, Calling, ModelFamilies, Steps, Numbers
  <1>5. Numbered'
    BY AttemptsAre, FamiliesAre, HeldIs, ClaimOf DEF IInv, TypeOK, TicketTypes, ClaimTypes,
    ModelTypes, StageTypes, AcceptTypes, TickTypes, Placed, Numbered, Record, Goto, EndTick,
    Effected, Effective, Number, Called, At, Calling, ModelFamilies, Steps, Numbers
  <1>6. Calls'
    BY DEF IInv, Calls, ModelFamilies, Called, Goto, Record
  <1>7. Reviews'
    BY DEF IInv, Reviews, Effected, Called, Goto, Record
  <1>8. Acceptances'
    BY DEF IInv, Acceptances, Effective, Called, Goto, Record
  <1>9. Commits'
    BY AttemptsAre, FamiliesAre, HeldIs, ClaimOf DEF IInv, TypeOK, TicketTypes, AcceptTypes,
    TickTypes, Placed, Commits, Record, Goto, EndTick, Effected, Effective, Number, Called,
    At, Calling, ModelFamilies, Steps, Numbers
  <1>10. AttemptsAuthorized'
    BY DEF IInv, AttemptsAuthorized, Called, Goto, Record
  <1>11. AcceptedVerified'
    BY DEF IInv, AcceptedVerified, Effective, Called, Goto, Record
  <1>12. QED
    BY <1>1, <1>2, <1>3, <1>4, <1>5, <1>6, <1>7, <1>8, <1>9, <1>10, <1>11 DEF IInv

LEMMA ValidateStep ==
  ASSUME IInv, Validate
  PROVE  IInv'
  <1>1. TypeOK'
    <2>1. TicketTypes'
      BY DEF IInv, TypeOK, TicketTypes, At, Goto, Validate
    <2>2. ClaimTypes'
      BY DEF IInv, TypeOK, ClaimTypes, At, Goto, Validate
    <2>3. ModelTypes'
      BY DEF IInv, TypeOK, ModelTypes, At, Goto, Validate
    <2>4. StageTypes'
      BY HeldIs, ClaimOf DEF IInv, TypeOK, Placed, StageTypes, Validations, At, Goto,
      Validate
    <2>5. AcceptTypes'
      BY DEF IInv, TypeOK, AcceptTypes, At, Goto, Validate
    <2>6. TickTypes'
      BY DEF IInv, TypeOK, TickTypes, Steps, At, Goto, Validate
    <2>7. QED
      BY <2>1, <2>2, <2>3, <2>4, <2>5, <2>6 DEF TypeOK
  <1>2. Placed'
    BY DEF IInv, Placed, At, Goto, Validate
  <1>3. InState'
    BY DEF IInv, InState, Calling, At, Goto, Validate
  <1>4. Once'
    BY DEF IInv, Once, Effected, At, Goto, Validate
  <1>5. Numbered'
    BY HeldIs, ClaimOf DEF IInv, Placed, Numbered, Number, At, Goto, Validate
  <1>6. Calls'
    BY DEF IInv, Calls, Called, At, Goto, Validate
  <1>7. Reviews'
    BY DEF IInv, Reviews, Effected, At, Goto, Validate
  <1>8. Acceptances'
    BY DEF IInv, Acceptances, Effective, At, Goto, Validate
  <1>9. Commits'
    BY DEF IInv, Commits, Effective, At, Goto, Validate
  <1>10. AttemptsAuthorized'
    BY DEF IInv, AttemptsAuthorized, At, Goto, Validate
  <1>11. AcceptedVerified'
    BY AttemptsAre, FamiliesAre, HeldIs, ClaimOf DEF IInv, TypeOK, Placed, InState, Once,
    Numbered, Calls, Reviews, Acceptances, Commits, AttemptsAuthorized, AcceptedVerified,
    TicketTypes, ClaimTypes, ModelTypes, StageTypes, AcceptTypes, TickTypes, Validate, Goto,
    EndTick, Effected, Effective, Number, Called, At, Calling, Validations, Steps
  <1>12. QED
    BY <1>1, <1>2, <1>3, <1>4, <1>5, <1>6, <1>7, <1>8, <1>9, <1>10, <1>11 DEF IInv

LEMMA MarkStep ==
  ASSUME IInv, Mark
  PROVE  IInv'
  <1>1. SUFFICES ASSUME ~Raise PROVE IInv'
    BY RaiseStep
  <1>2. TypeOK'
    <2>1. TicketTypes'
      BY <1>1 DEF IInv, TypeOK, TicketTypes, Numbers, Goto, Mark
    <2>2. ClaimTypes'
      BY <1>1 DEF IInv, TypeOK, ClaimTypes, Goto, Mark
    <2>3. ModelTypes'
      BY <1>1 DEF IInv, TypeOK, ModelTypes, Goto, Mark
    <2>4. StageTypes'
      BY <1>1, HeldIs, ClaimOf DEF IInv, TypeOK, Placed, StageTypes, Numbers, Goto, Mark
    <2>5. AcceptTypes'
      BY <1>1 DEF IInv, TypeOK, AcceptTypes, Numbers, Goto, Mark
    <2>6. TickTypes'
      BY <1>1 DEF IInv, TypeOK, TickTypes, Steps, Goto, Mark
    <2>7. QED
      BY <2>1, <2>2, <2>3, <2>4, <2>5, <2>6 DEF TypeOK
  <1>3. Placed'
    BY <1>1 DEF IInv, Placed, Goto, Mark
  <1>4. InState'
    BY <1>1 DEF IInv, InState, Calling, Goto, Mark
  <1>5. Once'
    BY <1>1 DEF IInv, Once, Effected, Goto, Mark
  <1>6. Numbered'
    BY <1>1 DEF IInv, Numbered, Number, Goto, Mark
  <1>7. Calls'
    BY <1>1 DEF IInv, Calls, Called, Goto, Mark
  <1>8. Reviews'
    BY <1>1 DEF IInv, Reviews, Effected, Goto, Mark
  <1>9. Acceptances'
    BY <1>1 DEF IInv, Acceptances, Effective, Goto, Mark
  <1>10. Commits'
    BY <1>1 DEF IInv, Commits, Effective, Goto, Mark
  <1>11. AttemptsAuthorized'
    BY <1>1 DEF IInv, AttemptsAuthorized, Goto, Mark
  <1>12. AcceptedVerified'
    BY <1>1 DEF IInv, AcceptedVerified, Effective, Goto, Mark
  <1>13. QED
    BY <1>2, <1>3, <1>4, <1>5, <1>6, <1>7, <1>8, <1>9, <1>10, <1>11, <1>12 DEF IInv

LEMMA ToReviewStep ==
  ASSUME IInv, ToReview
  PROVE  IInv'
  <1>1. TypeOK'
    <2>1. TicketTypes'
      BY DEF IInv, TypeOK, TicketTypes, States, Goto, ToReview
    <2>2. ClaimTypes'
      BY DEF IInv, TypeOK, ClaimTypes, Goto, ToReview
    <2>3. ModelTypes'
      BY DEF IInv, TypeOK, ModelTypes, Goto, ToReview
    <2>4. StageTypes'
      BY DEF IInv, TypeOK, StageTypes, Goto, ToReview
    <2>5. AcceptTypes'
      BY DEF IInv, TypeOK, AcceptTypes, Goto, ToReview
    <2>6. TickTypes'
      BY DEF IInv, TypeOK, TickTypes, Steps, Goto, ToReview
    <2>7. QED
      BY <2>1, <2>2, <2>3, <2>4, <2>5, <2>6 DEF TypeOK
  <1>2. Placed'
    BY DEF IInv, Placed, Goto, ToReview
  <1>3. InState'
    BY DEF IInv, InState, Calling, Goto, ToReview
  <1>4. Once'
    BY HeldIs, ClaimOf DEF IInv, Placed, Once, Effected, Goto, ToReview
  <1>5. Numbered'
    BY DEF IInv, Numbered, Number, Goto, ToReview
  <1>6. Calls'
    BY DEF IInv, Calls, Called, Goto, ToReview
  <1>7. Reviews'
    BY HeldIs, ClaimOf DEF IInv, Placed, Reviews, Effected, Goto, ToReview
  <1>8. Acceptances'
    BY DEF IInv, Acceptances, Effective, Goto, ToReview
  <1>9. Commits'
    BY HeldIs, ClaimOf DEF IInv, Placed, Commits, Effective, Goto, ToReview
  <1>10. AttemptsAuthorized'
    BY DEF IInv, AttemptsAuthorized, Goto, ToReview
  <1>11. AcceptedVerified'
    BY DEF IInv, AcceptedVerified, Effective, Goto, ToReview
  <1>12. QED
    BY <1>1, <1>2, <1>3, <1>4, <1>5, <1>6, <1>7, <1>8, <1>9, <1>10, <1>11 DEF IInv

LEMMA DecideStep ==
  ASSUME IInv, Decide
  PROVE  IInv'
  <1>1. SUFFICES ASSUME ~Raise PROVE IInv'
    BY RaiseStep
  <1>2. TypeOK'
    <2>1. TicketTypes'
      BY <1>1 DEF IInv, TypeOK, TicketTypes, States, Target, Goto, Decide
    <2>2. ClaimTypes'
      BY <1>1 DEF IInv, TypeOK, ClaimTypes, Target, Goto, Decide
    <2>3. ModelTypes'
      BY <1>1 DEF IInv, TypeOK, ModelTypes, Target, Goto, Decide
    <2>4. StageTypes'
      BY <1>1 DEF IInv, TypeOK, StageTypes, Target, Goto, Decide
    <2>5. AcceptTypes'
      BY <1>1 DEF IInv, TypeOK, AcceptTypes, Target, Goto, Decide
    <2>6. TickTypes'
      BY <1>1 DEF IInv, TypeOK, TickTypes, Steps, Target, Goto, Decide
    <2>7. QED
      BY <2>1, <2>2, <2>3, <2>4, <2>5, <2>6 DEF TypeOK
  <1>3. Placed'
    BY <1>1 DEF IInv, Placed, Target, Goto, Decide
  <1>4. InState'
    BY <1>1 DEF IInv, InState, Calling, Target, Goto, Decide
  <1>5. Once'
    BY <1>1 DEF IInv, Once, Effected, Target, Goto, Decide
  <1>6. Numbered'
    BY <1>1 DEF IInv, Numbered, Number, Target, Goto, Decide
  <1>7. Calls'
    BY <1>1 DEF IInv, Calls, Called, Target, Goto, Decide
  <1>8. Reviews'
    BY <1>1 DEF IInv, Reviews, Effected, Target, Goto, Decide
  <1>9. Acceptances'
    BY <1>1 DEF IInv, Acceptances, Effective, Target, Goto, Decide
  <1>10. Commits'
    BY <1>1 DEF IInv, Commits, Effective, Target, Goto, Decide
  <1>11. AttemptsAuthorized'
    BY <1>1 DEF IInv, AttemptsAuthorized, Target, Goto, Decide
  <1>12. AcceptedVerified'
    BY <1>1 DEF IInv, AcceptedVerified, Effective, Target, Goto, Decide
  <1>13. QED
    BY <1>2, <1>3, <1>4, <1>5, <1>6, <1>7, <1>8, <1>9, <1>10, <1>11, <1>12 DEF IInv

LEMMA NoteStep ==
  ASSUME IInv, Note
  PROVE  IInv'
  <1>1. TypeOK'
    <2>1. TicketTypes'
      BY DEF IInv, TypeOK, TicketTypes, Goto, Note
    <2>2. ClaimTypes'
      BY DEF IInv, TypeOK, ClaimTypes, Goto, Note
    <2>3. ModelTypes'
      BY DEF IInv, TypeOK, ModelTypes, Goto, Note
    <2>4. StageTypes'
      BY HeldIs, ClaimOf DEF IInv, TypeOK, Placed, StageTypes, Goto, Note
    <2>5. AcceptTypes'
      BY DEF IInv, TypeOK, AcceptTypes, Goto, Note
    <2>6. TickTypes'
      BY DEF IInv, TypeOK, TickTypes, Steps, Goto, Note
    <2>7. QED
      BY <2>1, <2>2, <2>3, <2>4, <2>5, <2>6 DEF TypeOK
  <1>2. Placed'
    BY DEF IInv, Placed, Goto, Note
  <1>3. InState'
    BY DEF IInv, InState, Calling, Goto, Note
  <1>4. Once'
    BY HeldIs, ClaimOf DEF IInv, Placed, Once, Effected, Goto, Note
  <1>5. Numbered'
    BY DEF IInv, Numbered, Number, Goto, Note
  <1>6. Calls'
    BY DEF IInv, Calls, Called, Goto, Note
  <1>7. Reviews'
    BY HeldIs, ClaimOf DEF IInv, Placed, Reviews, Effected, Goto, Note
  <1>8. Acceptances'
    BY DEF IInv, Acceptances, Effective, Goto, Note
  <1>9. Commits'
    BY HeldIs, ClaimOf DEF IInv, Placed, Commits, Effective, Goto, Note
  <1>10. AttemptsAuthorized'
    BY DEF IInv, AttemptsAuthorized, Goto, Note
  <1>11. AcceptedVerified'
    BY DEF IInv, AcceptedVerified, Effective, Goto, Note
  <1>12. QED
    BY <1>1, <1>2, <1>3, <1>4, <1>5, <1>6, <1>7, <1>8, <1>9, <1>10, <1>11 DEF IInv

LEMMA StartIntentStep ==
  ASSUME IInv, StartIntent
  PROVE  IInv'
  <1>1. SUFFICES ASSUME ~Raise PROVE IInv'
    BY RaiseStep
  <1>2. TypeOK'
    <2>1. TicketTypes'
      BY <1>1 DEF IInv, TypeOK, TicketTypes, Numbers, Intendable, Goto, Effective,
      StartIntent
    <2>2. ClaimTypes'
      BY <1>1 DEF IInv, TypeOK, ClaimTypes, Intendable, Goto, Effective, StartIntent
    <2>3. ModelTypes'
      BY <1>1 DEF IInv, TypeOK, ModelTypes, Intendable, Goto, Effective, StartIntent
    <2>4. StageTypes'
      BY <1>1 DEF IInv, TypeOK, StageTypes, Numbers, Intendable, Goto, Effective,
      StartIntent
    <2>5. AcceptTypes'
      BY <1>1 DEF IInv, TypeOK, AcceptTypes, Numbers, Intendable, Goto, Effective,
      StartIntent
    <2>6. TickTypes'
      BY <1>1 DEF IInv, TypeOK, TickTypes, Steps, Intendable, Goto, Effective, StartIntent
    <2>7. QED
      BY <2>1, <2>2, <2>3, <2>4, <2>5, <2>6 DEF TypeOK
  <1>3. Placed'
    BY <1>1 DEF IInv, Placed, Intendable, Goto, Effective, StartIntent
  <1>4. InState'
    BY <1>1 DEF IInv, InState, Calling, Intendable, Goto, Effective, StartIntent
  <1>5. Once'
    BY <1>1 DEF IInv, Once, Effected, Intendable, Goto, Effective, StartIntent
  <1>6. Numbered'
    BY <1>1 DEF IInv, Numbered, Number, Intendable, Goto, Effective, StartIntent
  <1>7. Calls'
    BY <1>1 DEF IInv, Calls, Called, Intendable, Goto, Effective, StartIntent
  <1>8. Reviews'
    BY <1>1 DEF IInv, Reviews, Effected, Intendable, Goto, Effective, StartIntent
  <1>9. Acceptances'
    BY <1>1 DEF IInv, Acceptances, Effective, Intendable, Goto, StartIntent
  <1>10. Commits'
    BY <1>1 DEF IInv, Commits, Effective, Intendable, Goto, StartIntent
  <1>11. AttemptsAuthorized'
    BY <1>1 DEF IInv, AttemptsAuthorized, Intendable, Goto, Effective, StartIntent
  <1>12. AcceptedVerified'
    BY <1>1 DEF IInv, AcceptedVerified, Effective, Intendable, Goto, StartIntent
  <1>13. QED
    BY <1>2, <1>3, <1>4, <1>5, <1>6, <1>7, <1>8, <1>9, <1>10, <1>11, <1>12 DEF IInv

LEMMA CommitStep ==
  ASSUME IInv, Commit
  PROVE  IInv'
  <1>1. TypeOK'
    <2>1. TicketTypes'
      BY DEF IInv, TypeOK, TicketTypes, Numbers, Goto, Commit
    <2>2. ClaimTypes'
      BY DEF IInv, TypeOK, ClaimTypes, Goto, Commit
    <2>3. ModelTypes'
      BY DEF IInv, TypeOK, ModelTypes, Goto, Commit
    <2>4. StageTypes'
      BY DEF IInv, TypeOK, StageTypes, Numbers, Goto, Commit
    <2>5. AcceptTypes'
      BY HeldIs, ClaimOf DEF IInv, TypeOK, Placed, AcceptTypes, Numbers, Goto, Commit
    <2>6. TickTypes'
      BY DEF IInv, TypeOK, TickTypes, Steps, Goto, Commit
    <2>7. QED
      BY <2>1, <2>2, <2>3, <2>4, <2>5, <2>6 DEF TypeOK
  <1>2. Placed'
    BY DEF IInv, Placed, Goto, Commit
  <1>3. InState'
    BY DEF IInv, InState, Calling, Goto, Commit
  <1>4. Once'
    BY DEF IInv, Once, Effected, Goto, Commit
  <1>5. Numbered'
    BY DEF IInv, Numbered, Number, Goto, Commit
  <1>6. Calls'
    BY DEF IInv, Calls, Called, Goto, Commit
  <1>7. Reviews'
    BY DEF IInv, Reviews, Effected, Goto, Commit
  <1>8. Acceptances'
    BY DEF IInv, Acceptances, Effective, Goto, Commit
  <1>9. Commits'
    BY DEF IInv, Commits, Effective, Goto, Commit
  <1>10. AttemptsAuthorized'
    BY DEF IInv, AttemptsAuthorized, Goto, Commit
  <1>11. AcceptedVerified'
    BY DEF IInv, AcceptedVerified, Effective, Goto, Commit
  <1>12. QED
    BY <1>1, <1>2, <1>3, <1>4, <1>5, <1>6, <1>7, <1>8, <1>9, <1>10, <1>11 DEF IInv

LEMMA AdvanceHeadStep ==
  ASSUME IInv, AdvanceHead
  PROVE  IInv'
  <1>1. SUFFICES ASSUME ~Raise PROVE IInv'
    BY RaiseStep
  <1>2. TypeOK'
    <2>1. TicketTypes'
      BY <1>1 DEF IInv, TypeOK, TicketTypes, Goto, AdvanceHead
    <2>2. ClaimTypes'
      BY <1>1 DEF IInv, TypeOK, ClaimTypes, Goto, AdvanceHead
    <2>3. ModelTypes'
      BY <1>1 DEF IInv, TypeOK, ModelTypes, Goto, AdvanceHead
    <2>4. StageTypes'
      BY <1>1 DEF IInv, TypeOK, StageTypes, Goto, AdvanceHead
    <2>5. AcceptTypes'
      BY <1>1 DEF IInv, TypeOK, AcceptTypes, Goto, AdvanceHead
    <2>6. TickTypes'
      BY <1>1 DEF IInv, TypeOK, TickTypes, Steps, Goto, AdvanceHead
    <2>7. QED
      BY <2>1, <2>2, <2>3, <2>4, <2>5, <2>6 DEF TypeOK
  <1>3. Placed'
    BY <1>1 DEF IInv, Placed, Goto, AdvanceHead
  <1>4. InState'
    BY <1>1 DEF IInv, InState, Calling, Goto, AdvanceHead
  <1>5. Once'
    BY <1>1, HeldIs, ClaimOf DEF IInv, Placed, Once, Effected, Goto, AdvanceHead
  <1>6. Numbered'
    BY <1>1 DEF IInv, Numbered, Number, Goto, AdvanceHead
  <1>7. Calls'
    BY <1>1 DEF IInv, Calls, Called, Goto, AdvanceHead
  <1>8. Reviews'
    BY <1>1, HeldIs, ClaimOf DEF IInv, Placed, Reviews, Effected, Goto, AdvanceHead
  <1>9. Acceptances'
    BY <1>1 DEF IInv, Acceptances, Effective, Goto, AdvanceHead
  <1>10. Commits'
    BY <1>1 DEF IInv, Commits, Effective, Goto, AdvanceHead
  <1>11. AttemptsAuthorized'
    BY <1>1 DEF IInv, AttemptsAuthorized, Goto, AdvanceHead
  <1>12. AcceptedVerified'
    BY <1>1 DEF IInv, AcceptedVerified, Effective, Goto, AdvanceHead
  <1>13. QED
    BY <1>2, <1>3, <1>4, <1>5, <1>6, <1>7, <1>8, <1>9, <1>10, <1>11, <1>12 DEF IInv

LEMMA ApplyResultStep ==
  ASSUME IInv, ApplyResult
  PROVE  IInv'
  <1>1. SUFFICES ASSUME ~Raise PROVE IInv'
    BY RaiseStep
  <1>2. /\ held \in Claims /\ claim[held].status \in Open /\ pc = "apply"
        /\ pc' = "finalize" /\ held' = held /\ scope' = scope
        /\ ClaimTypes' /\ claim'[held].status = "applied"
        /\ \A d \in Claims : d # held => claim'[d] = claim[d]
        /\ held[1] \in {"implementation", "validation", "review", "triage"}
        /\ UNCHANGED <<ticketVars, attemptVars, modelVars, stageVars, acceptVars, gitVars, paused,
                       faultVars>>
    <2>1. held \in Claims /\ claim[held] \in [status : ClaimStatuses, left : 0..Lease, since : 0..Cardinality(Claims)]
      BY DEF IInv, TypeOK, ClaimTypes, Placed, ApplyResult, At
    <2>2. claim' = [claim EXCEPT ![held].status = "applied"] /\ "applied" \in ClaimStatuses
      BY <1>1 DEF ApplyResult, Applied, ClaimStatuses, Open
    <2>3. /\ ClaimTypes' /\ claim'[held].status = "applied"
          /\ \A d \in Claims : d # held => claim'[d] = claim[d]
      BY <2>1, <2>2, ClaimWritten DEF IInv, TypeOK
    <2>4. QED
      BY <1>1, <2>1, <2>3 DEF ApplyResult, Applied, Goto, At, Owned
  <1>3. TypeOK'
    <2>1. TicketTypes'
      BY <1>2 DEF IInv, TypeOK, TicketTypes
    <2>2. ClaimTypes'
      BY <1>2 DEF IInv, TypeOK, ClaimTypes
    <2>3. ModelTypes'
      BY <1>2 DEF IInv, TypeOK, ModelTypes
    <2>4. StageTypes'
      BY <1>2 DEF IInv, TypeOK, StageTypes
    <2>5. AcceptTypes'
      BY <1>2 DEF IInv, TypeOK, AcceptTypes
    <2>6. TickTypes'
      BY <1>2 DEF IInv, TypeOK, TickTypes, Steps
    <2>7. QED
      BY <2>1, <2>2, <2>3, <2>4, <2>5, <2>6 DEF TypeOK
  <1>4. Placed'
    BY <1>2 DEF IInv, Placed
  <1>5. InState'
    BY <1>2 DEF IInv, InState, Calling
  <1>6. Once'
    <2>1. \A f \in Families, a \in Attempts : Effected(f, a)' <=> Effected(f, a) \/ <<f, a>> = held
      BY <1>2, Applying
    <2>2. QED
      BY <1>2, <2>1, FamiliesAre, HeldIs, AttemptsAre DEF IInv, Once, Effective
  <1>7. Numbered'
    BY <1>2 DEF IInv, Numbered, Number
  <1>8. Calls'
    BY <1>2 DEF IInv, Calls, Called
  <1>9. Reviews'
    <2>1. \A f \in Families, a \in Attempts : Effected(f, a)' <=> Effected(f, a) \/ <<f, a>> = held
      BY <1>2, Applying
    <2>2. QED
      BY <1>2, <2>1, FamiliesAre, HeldIs, AttemptsAre DEF IInv, Reviews
  <1>10. Acceptances'
    BY <1>2 DEF IInv, Acceptances, Effective
  <1>11. Commits'
    BY <1>2 DEF IInv, Commits, Effective
  <1>12. AttemptsAuthorized'
    BY <1>2 DEF IInv, AttemptsAuthorized
  <1>13. AcceptedVerified'
    BY <1>2 DEF IInv, AcceptedVerified, Effective
  <1>14. QED
    BY <1>3, <1>4, <1>5, <1>6, <1>7, <1>8, <1>9, <1>10, <1>11, <1>12, <1>13 DEF IInv

LEMMA RouteStep ==
  ASSUME IInv, Route
  PROVE  IInv'
  <1>1. SUFFICES ASSUME ~Raise PROVE IInv'
    BY RaiseStep
  <1>2. /\ held \in Claims /\ claim[held].status \in Open /\ pc = "apply"
        /\ pc' = "finalize" /\ held' = held /\ scope' = scope
        /\ ClaimTypes' /\ claim'[held].status = "applied"
        /\ \A d \in Claims : d # held => claim'[d] = claim[d]
        /\ held[1] = "repair_routing"
        /\ route' = [route EXCEPT ![held[2]] = Action(held[2])]
        /\ \/ state = "verifying" /\ reviewed' = reviewed
           \/ /\ state = "local_review" /\ Effected("review", held[2])
              /\ reviewed' = reviewed \cup {held[2]}
        /\ state' = RoutedState(Action(held[2]))
        /\ attempt' = IF Action(held[2]) = "repair" /\ attempt = held[2] THEN held[2] + 1
                      ELSE attempt
        /\ UNCHANGED <<maxAttempts, left, holder, manual, modelVars, validation, marker, verdict,
                       proposal, planned, acceptVars, gitVars, paused, faultVars>>
    <2>1. held \in Claims /\ claim[held] \in [status : ClaimStatuses, left : 0..Lease, since : 0..Cardinality(Claims)]
      BY DEF IInv, TypeOK, ClaimTypes, Placed, Route, At
    <2>2. claim' = [claim EXCEPT ![held].status = "applied"] /\ "applied" \in ClaimStatuses
      BY <1>1 DEF Route, Applied, ClaimStatuses, Open
    <2>3. /\ ClaimTypes' /\ claim'[held].status = "applied"
          /\ \A d \in Claims : d # held => claim'[d] = claim[d]
      BY <2>1, <2>2, ClaimWritten DEF IInv, TypeOK
    <2>4. QED
      BY <1>1, <2>1, <2>3 DEF Route, Applied, Goto, At, Owned, Routable
  <1>3. TypeOK'
    <2>1. TicketTypes'
      BY <1>2, AttemptsAre, FamiliesAre, HeldIs, ClaimOf DEF IInv, TypeOK, TicketTypes,
      Placed, Goto, EndTick, Effected, Effective, Number, Called, At, Calling, Open, Steps,
      Action, RoutedState, States, Routes, Numbers
    <2>2. ClaimTypes'
      BY <1>2 DEF IInv, TypeOK, ClaimTypes
    <2>3. ModelTypes'
      BY <1>2 DEF IInv, TypeOK, ModelTypes
    <2>4. StageTypes'
      BY <1>2, AttemptsAre, FamiliesAre, HeldIs, ClaimOf DEF IInv, TypeOK, StageTypes,
      Placed, Goto, EndTick, Effected, Effective, Number, Called, At, Calling, Open, Steps,
      Action, RoutedState, States, Routes, Numbers
    <2>5. AcceptTypes'
      BY <1>2 DEF IInv, TypeOK, AcceptTypes, Numbers
    <2>6. TickTypes'
      BY <1>2 DEF IInv, TypeOK, TickTypes, Steps
    <2>7. QED
      BY <2>1, <2>2, <2>3, <2>4, <2>5, <2>6 DEF TypeOK
  <1>4. Placed'
    BY <1>2 DEF IInv, Placed
  <1>5. InState'
    BY <1>2 DEF IInv, InState, Calling
  <1>6. Once'
    <2>1. \A f \in Families, a \in Attempts : Effected(f, a)' <=> Effected(f, a) \/ <<f, a>> = held
      BY <1>2, Applying
    <2>2. QED
      BY <1>2, <2>1, FamiliesAre, HeldIs, AttemptsAre DEF IInv, Once, Effective, TypeOK, StageTypes
  <1>7. Numbered'
    <2>1. held[2] \in Attempts /\ held[2] <= Number /\ attempt \in Nat /\ attempt # 0
      BY <1>2, AttemptsAre, HeldIs DEF IInv, TypeOK, TicketTypes, Numbered, Numbers, Open
    <2>2. attempt' \in Nat /\ attempt' >= attempt /\ attempt' # 0 /\ Number <= Number'
      BY <1>2, <2>1, AttemptsAre DEF Number
    <2>3. \A c \in Claims : claim'[c].status # "absent" => claim[c].status # "absent"
      BY <1>2 DEF Open
    <2>4. \A c \in Claims : c[2] \in Nat
      BY HeldIs, AttemptsAre
    <2>5. Number \in Nat /\ Number' \in Nat
      BY <2>1, <2>2 DEF Number
    <2>6. UNCHANGED <<artifact, validation>> /\ claim'[held].status # "absent" /\ held' = held
      BY <1>2
    <2>7. \A c \in Claims : claim'[c].status # "absent" => c[2] <= Number'
      BY <2>2, <2>3, <2>4, <2>5 DEF IInv, Numbered
    <2>8. /\ \A a \in Attempts : <<"implementation", a>> \in artifact' => a <= attempt'
          /\ \A a \in Attempts : validation'[a] # "none" => a <= Number'
      BY <2>1, <2>2, <2>5, <2>6, AttemptsAre DEF IInv, Numbered
    <2>9. QED
      BY <2>2, <2>6, <2>7, <2>8 DEF Numbered
  <1>8. Calls'
    BY <1>2 DEF IInv, Calls, Called
  <1>9. Reviews'
    <2>1. \A f \in Families, a \in Attempts : Effected(f, a)' <=> Effected(f, a) \/ <<f, a>> = held
      BY <1>2, Applying
    <2>2. QED
      BY <1>2, <2>1, FamiliesAre, HeldIs, AttemptsAre DEF IInv, Reviews
  <1>10. Acceptances'
    BY <1>2, AttemptsAre, FamiliesAre, HeldIs, ClaimOf DEF IInv, TypeOK, TicketTypes,
    AcceptTypes, Placed, Acceptances, Goto, EndTick, Effected, Effective, Number, Called,
    At, Calling, Open, Steps, Action, RoutedState, States, Routes, Numbers
  <1>11. Commits'
    BY <1>2, AttemptsAre, FamiliesAre, HeldIs, ClaimOf DEF IInv, TypeOK, TicketTypes,
    AcceptTypes, TickTypes, Placed, Commits, Goto, EndTick, Effected, Effective, Number,
    Called, At, Calling, Open, Steps, Action, RoutedState, States, Routes, Numbers
  <1>12. AttemptsAuthorized'
    <2>1. /\ held = <<"repair_routing", held[2]>> /\ held[2] \in Attempts /\ held[2] \in Nat
          /\ route[held[2]] = "none"
      BY <1>2, HeldIs, AttemptsAre DEF IInv, Once, Effected
    <2>2. \A a \in Attempts : route[a] = "repair" => route'[a] = "repair"
      BY <1>2, <2>1 DEF IInv, TypeOK, StageTypes
    <2>3. attempt \in Nat /\ maxAttempts \in Nat /\ maxAttempts <= Cardinality(Attempts)
      BY AttemptsAre DEF IInv, TypeOK, TicketTypes, Numbers
    <2>4. Action(held[2]) = "repair" => held[2] < maxAttempts /\ route'[held[2]] = "repair"
      BY <1>2, <2>1, <2>3 DEF Action, IInv, TypeOK, StageTypes
    <2>5. attempt' <= maxAttempts
      BY <1>2, <2>1, <2>3, <2>4 DEF IInv, AttemptsAuthorized
    <2>6. ASSUME NEW a \in 2..attempt' PROVE route'[a - 1] = "repair" \/ invalidated = a - 1
      <3>1. CASE a \in 2..attempt
        <4>1. a - 1 \in Attempts
          BY <2>3, <3>1, AttemptsAre DEF IInv, AttemptsAuthorized
        <4>2. QED
          BY <2>2, <3>1, <4>1 DEF IInv, AttemptsAuthorized
      <3>2. CASE a \notin 2..attempt
        BY <1>2, <2>1, <2>3, <2>4, <3>2
      <3>3. QED
        BY <3>1, <3>2
    <2>7. QED
      BY <1>2, <2>5, <2>6 DEF AttemptsAuthorized
  <1>13. AcceptedVerified'
    BY <1>2, AttemptsAre, FamiliesAre, HeldIs, ClaimOf DEF IInv, TypeOK, TicketTypes,
    ModelTypes, StageTypes, AcceptTypes, Placed, AcceptedVerified, Goto, EndTick, Effected,
    Effective, Number, Called, At, Calling, Open, Steps, Action, RoutedState, States,
    Routes, Numbers
  <1>14. QED
    BY <1>3, <1>4, <1>5, <1>6, <1>7, <1>8, <1>9, <1>10, <1>11, <1>12, <1>13 DEF IInv

LEMMA AcceptStep ==
  ASSUME IInv, Accept
  PROVE  IInv'
  <1>1. SUFFICES ASSUME ~Raise PROVE IInv'
    BY RaiseStep
  <1>2. /\ held \in Claims /\ claim[held].status \in Open /\ pc = "apply"
        /\ pc' = "finalize" /\ held' = held /\ scope' = scope
        /\ ClaimTypes' /\ claim'[held].status = "applied"
        /\ \A d \in Claims : d # held => claim'[d] = claim[d]
        /\ held[1] = "acceptance" /\ Acceptable(held[2])
        /\ accepted' = IF accepted = 0 THEN held[2] ELSE accepted
        /\ replacement' = IF invalidated # 0 THEN held[2] ELSE replacement
        /\ state' = "accepted"
        /\ UNCHANGED <<maxAttempts, left, holder, attemptVars, modelVars, stageVars, invalidated,
                       gitVars, paused, faultVars>>
    <2>1. held \in Claims /\ claim[held] \in [status : ClaimStatuses, left : 0..Lease, since : 0..Cardinality(Claims)]
      BY DEF IInv, TypeOK, ClaimTypes, Placed, Accept, At
    <2>2. claim' = [claim EXCEPT ![held].status = "applied"] /\ "applied" \in ClaimStatuses
      BY <1>1 DEF Accept, Applied, ClaimStatuses, Open
    <2>3. /\ ClaimTypes' /\ claim'[held].status = "applied"
          /\ \A d \in Claims : d # held => claim'[d] = claim[d]
      BY <2>1, <2>2, ClaimWritten DEF IInv, TypeOK
    <2>4. QED
      BY <1>1, <2>1, <2>3 DEF Accept, Applied, Goto, At, Owned
  <1>3. TypeOK'
    <2>1. TicketTypes'
      BY <1>2 DEF IInv, TypeOK, TicketTypes, States, Numbers
    <2>2. ClaimTypes'
      BY <1>2 DEF IInv, TypeOK, ClaimTypes
    <2>3. ModelTypes'
      BY <1>2 DEF IInv, TypeOK, ModelTypes
    <2>4. StageTypes'
      BY <1>2 DEF IInv, TypeOK, StageTypes, Numbers
    <2>5. AcceptTypes'
      BY <1>2, HeldIs, ClaimOf DEF IInv, TypeOK, Placed, AcceptTypes, Numbers
    <2>6. TickTypes'
      BY <1>2 DEF IInv, TypeOK, TickTypes, Steps
    <2>7. QED
      BY <2>1, <2>2, <2>3, <2>4, <2>5, <2>6 DEF TypeOK
  <1>4. Placed'
    BY <1>2 DEF IInv, Placed
  <1>5. InState'
    BY <1>2 DEF IInv, InState, Calling
  <1>6. Once'
    <2>1. \A f \in Families, a \in Attempts : Effected(f, a)' <=> Effected(f, a) \/ <<f, a>> = held
      BY <1>2, Applying
    <2>2. QED
      BY <1>2, <2>1, FamiliesAre, HeldIs, AttemptsAre DEF IInv, Once, Effective, TypeOK, AcceptTypes, Numbers
  <1>7. Numbered'
    BY <1>2, AttemptsAre, FamiliesAre, HeldIs, ClaimOf DEF IInv, TypeOK, TicketTypes,
    ClaimTypes, ModelTypes, StageTypes, AcceptTypes, TickTypes, Placed, Numbered, Goto,
    EndTick, Effected, Effective, Number, Called, At, Calling, Open, Steps, Acceptable,
    PassEligible, States, Numbers
  <1>8. Calls'
    BY <1>2 DEF IInv, Calls, Called
  <1>9. Reviews'
    <2>1. \A f \in Families, a \in Attempts : Effected(f, a)' <=> Effected(f, a) \/ <<f, a>> = held
      BY <1>2, Applying
    <2>2. QED
      BY <1>2, <2>1, FamiliesAre, HeldIs, AttemptsAre DEF IInv, Reviews
  <1>10. Acceptances'
    BY <1>2, AttemptsAre, FamiliesAre, HeldIs, ClaimOf DEF IInv, TypeOK, TicketTypes,
    AcceptTypes, Placed, Acceptances, Goto, EndTick, Effected, Effective, Number, Called,
    At, Calling, Open, Steps, Acceptable, PassEligible, States, Numbers
  <1>11. Commits'
    BY <1>2, AttemptsAre, FamiliesAre, HeldIs, ClaimOf DEF IInv, TypeOK, TicketTypes,
    AcceptTypes, TickTypes, Placed, Commits, Goto, EndTick, Effected, Effective, Number,
    Called, At, Calling, Open, Steps, Acceptable, PassEligible, States, Numbers
  <1>12. AttemptsAuthorized'
    BY <1>2 DEF IInv, AttemptsAuthorized
  <1>13. AcceptedVerified'
    <2> DEFINE a == held[2]
    <2>1. held = <<"acceptance", a>> /\ a \in Attempts /\ a \in Nat /\ a # 0
      BY <1>2, HeldIs, AttemptsAre
    <2>2. attempt \in Nat /\ attempt # 0 /\ a <= attempt /\ attempt <= Cardinality(Attempts)
      BY <1>2, <2>1, AttemptsAre
         DEF IInv, TypeOK, TicketTypes, Numbered, Number, Numbers, Acceptable, Open
    <2>3. invalidated # a
      BY <1>2, <2>1 DEF IInv, Once, Acceptances, Effected
    <2>4. a = attempt
      <3>1. SUFFICES ASSUME a # attempt PROVE FALSE
        OBVIOUS
      <3>2. a + 1 \in 2..attempt /\ (a + 1) - 1 = a
        BY <2>1, <2>2, <3>1, AttemptsAre
      <3>3. route[a] = "repair" \/ invalidated = a
        BY <3>2 DEF IInv, AttemptsAuthorized
      <3>4. QED
        BY <1>2, <2>3, <3>3 DEF Acceptable, PassEligible
    <2>5. Effective' = a
      BY <1>2, <2>1 DEF IInv, Acceptances, Effective, Acceptable
    <2>6. a \in reviewed /\ <<"review", a>> \in artifact
      BY <1>2, <2>1 DEF IInv, Reviews, Acceptable, PassEligible
    <2>7. QED
      BY <1>2, <2>1, <2>4, <2>5, <2>6 DEF AcceptedVerified, Acceptable, PassEligible
  <1>14. QED
    BY <1>3, <1>4, <1>5, <1>6, <1>7, <1>8, <1>9, <1>10, <1>11, <1>12, <1>13 DEF IInv

LEMMA ApplyGitStep ==
  ASSUME IInv, ApplyGit
  PROVE  IInv'
  <1>1. SUFFICES ASSUME ~Raise PROVE IInv'
    BY RaiseStep
  <1>2. /\ held \in Claims /\ claim[held].status \in Open /\ pc = "apply"
        /\ pc' = "finalize" /\ held' = held /\ scope' = scope
        /\ ClaimTypes' /\ claim'[held].status = "applied"
        /\ \A d \in Claims : d # held => claim'[d] = claim[d]
        /\ held[1] = "git_integration" /\ state = "accepted" /\ Effective = held[2]
        /\ intent.attempt = held[2] /\ evidence' = held[2]
        /\ intent' = [intent EXCEPT !.status = "completed"]
        /\ UNCHANGED <<ticketVars, attemptVars, modelVars, stageVars, acceptVars, head, ref, paused,
                       faultVars>>
    <2>1. held \in Claims /\ claim[held] \in [status : ClaimStatuses, left : 0..Lease, since : 0..Cardinality(Claims)]
      BY DEF IInv, TypeOK, ClaimTypes, Placed, ApplyGit, At
    <2>2. claim' = [claim EXCEPT ![held].status = "applied"] /\ "applied" \in ClaimStatuses
      BY <1>1 DEF ApplyGit, Applied, ClaimStatuses, Open
    <2>3. /\ ClaimTypes' /\ claim'[held].status = "applied"
          /\ \A d \in Claims : d # held => claim'[d] = claim[d]
      BY <2>1, <2>2, ClaimWritten DEF IInv, TypeOK
    <2>4. QED
      BY <1>1, <2>1, <2>3 DEF ApplyGit, Applied, Goto, At, Owned
  <1>3. TypeOK'
    <2>1. TicketTypes'
      BY <1>2 DEF IInv, TypeOK, TicketTypes, Numbers
    <2>2. ClaimTypes'
      BY <1>2 DEF IInv, TypeOK, ClaimTypes
    <2>3. ModelTypes'
      BY <1>2 DEF IInv, TypeOK, ModelTypes
    <2>4. StageTypes'
      BY <1>2 DEF IInv, TypeOK, StageTypes, Numbers
    <2>5. AcceptTypes'
      BY <1>2 DEF IInv, TypeOK, AcceptTypes, Numbers
    <2>6. TickTypes'
      BY <1>2 DEF IInv, TypeOK, TickTypes, Steps
    <2>7. QED
      BY <2>1, <2>2, <2>3, <2>4, <2>5, <2>6 DEF TypeOK
  <1>4. Placed'
    BY <1>2 DEF IInv, Placed
  <1>5. InState'
    BY <1>2 DEF IInv, InState, Calling
  <1>6. Once'
    <2>1. \A f \in Families, a \in Attempts : Effected(f, a)' <=> Effected(f, a) \/ <<f, a>> = held
      BY <1>2, Applying
    <2>2. QED
      BY <1>2, <2>1, FamiliesAre, HeldIs, AttemptsAre DEF IInv, Once, Effective
  <1>7. Numbered'
    BY <1>2 DEF IInv, Numbered, Number, Open
  <1>8. Calls'
    BY <1>2 DEF IInv, Calls, Called
  <1>9. Reviews'
    BY <1>2, AttemptsAre, FamiliesAre, HeldIs, ClaimOf DEF IInv, TypeOK, ModelTypes,
    StageTypes, TickTypes, Placed, Reviews, Goto, EndTick, Effected, Effective, Number,
    Called, At, Calling, Open, Steps, Numbers
  <1>10. Acceptances'
    BY <1>2 DEF IInv, Acceptances, Effective
  <1>11. Commits'
    BY <1>2 DEF IInv, Commits, Effective
  <1>12. AttemptsAuthorized'
    BY <1>2 DEF IInv, AttemptsAuthorized
  <1>13. AcceptedVerified'
    BY <1>2 DEF IInv, AcceptedVerified, Effective
  <1>14. QED
    BY <1>3, <1>4, <1>5, <1>6, <1>7, <1>8, <1>9, <1>10, <1>11, <1>12, <1>13 DEF IInv

LEMMA CompleteStep ==
  ASSUME IInv, Complete
  PROVE  IInv'
  <1>1. SUFFICES ASSUME ~Raise PROVE IInv'
    BY RaiseStep
  <1>2. /\ held \in Claims /\ claim[held].status \in Open /\ pc = "apply"
        /\ pc' = "finalize" /\ held' = held /\ scope' = scope
        /\ ClaimTypes' /\ claim'[held].status = "applied"
        /\ \A d \in Claims : d # held => claim'[d] = claim[d]
        /\ held[1] = "completion" /\ state = "accepted" /\ Effective = held[2]
        /\ evidence = held[2] /\ state' = "done"
        /\ UNCHANGED <<maxAttempts, left, holder, attemptVars, modelVars, stageVars, acceptVars,
                       gitVars, paused, faultVars>>
    <2>1. held \in Claims /\ claim[held] \in [status : ClaimStatuses, left : 0..Lease, since : 0..Cardinality(Claims)]
      BY DEF IInv, TypeOK, ClaimTypes, Placed, Complete, At
    <2>2. claim' = [claim EXCEPT ![held].status = "applied"] /\ "applied" \in ClaimStatuses
      BY <1>1 DEF Complete, Applied, ClaimStatuses, Open
    <2>3. /\ ClaimTypes' /\ claim'[held].status = "applied"
          /\ \A d \in Claims : d # held => claim'[d] = claim[d]
      BY <2>1, <2>2, ClaimWritten DEF IInv, TypeOK
    <2>4. QED
      BY <1>1, <2>1, <2>3 DEF Complete, Applied, Goto, At, Owned
  <1>3. TypeOK'
    <2>1. TicketTypes'
      BY <1>2 DEF IInv, TypeOK, TicketTypes, States
    <2>2. ClaimTypes'
      BY <1>2 DEF IInv, TypeOK, ClaimTypes
    <2>3. ModelTypes'
      BY <1>2 DEF IInv, TypeOK, ModelTypes
    <2>4. StageTypes'
      BY <1>2 DEF IInv, TypeOK, StageTypes
    <2>5. AcceptTypes'
      BY <1>2 DEF IInv, TypeOK, AcceptTypes
    <2>6. TickTypes'
      BY <1>2 DEF IInv, TypeOK, TickTypes, Steps
    <2>7. QED
      BY <2>1, <2>2, <2>3, <2>4, <2>5, <2>6 DEF TypeOK
  <1>4. Placed'
    BY <1>2 DEF IInv, Placed
  <1>5. InState'
    BY <1>2 DEF IInv, InState, Calling
  <1>6. Once'
    <2>1. \A f \in Families, a \in Attempts : Effected(f, a)' <=> Effected(f, a) \/ <<f, a>> = held
      BY <1>2, Applying
    <2>2. QED
      BY <1>2, <2>1, FamiliesAre, HeldIs, AttemptsAre DEF IInv, Once, Effective
  <1>7. Numbered'
    BY <1>2 DEF IInv, Numbered, Number
  <1>8. Calls'
    BY <1>2 DEF IInv, Calls, Called
  <1>9. Reviews'
    <2>1. \A f \in Families, a \in Attempts : Effected(f, a)' <=> Effected(f, a) \/ <<f, a>> = held
      BY <1>2, Applying
    <2>2. QED
      BY <1>2, <2>1, FamiliesAre, HeldIs, AttemptsAre DEF IInv, Reviews
  <1>10. Acceptances'
    BY <1>2 DEF IInv, Acceptances, Effective
  <1>11. Commits'
    BY <1>2 DEF IInv, Commits, Effective
  <1>12. AttemptsAuthorized'
    BY <1>2 DEF IInv, AttemptsAuthorized
  <1>13. AcceptedVerified'
    BY <1>2 DEF IInv, AcceptedVerified, Effective
  <1>14. QED
    BY <1>3, <1>4, <1>5, <1>6, <1>7, <1>8, <1>9, <1>10, <1>11, <1>12, <1>13 DEF IInv

LEMMA FinalizeStep ==
  ASSUME IInv, Finalize
  PROVE  IInv'
  <1>1. SUFFICES ASSUME ~Raise PROVE IInv'
    BY RaiseStep
  <1>2. /\ held \in Claims /\ claim[held].status = "applied" /\ pc = "finalize" /\ EndTick
        /\ ClaimTypes' /\ claim'[held].status = "completed"
        /\ \A d \in Claims : d # held => claim'[d] = claim[d]
        /\ left' \in 0..Lease /\ holder' \in Claims \cup {NoClaim}
        /\ UNCHANGED <<state, maxAttempts, attemptVars, modelVars, stageVars, acceptVars, gitVars,
                       paused, faultVars>>
    <2>1. held \in Claims
      BY DEF IInv, Placed, Finalize
    <2>2. claim' = [claim EXCEPT ![held].status = "completed", ![held].left = 0]
      BY <1>1 DEF Finalize
    <2>3. ClaimTypes' /\ claim'[held].status = "completed"
          /\ \A d \in Claims : d # held => claim'[d] = claim[d]
      <3>1. [claim[held] EXCEPT !.status = "completed", !.left = 0]
              \in [status : ClaimStatuses, left : 0..Lease, since : 0..Cardinality(Claims)]
        <4>1. "completed" \in ClaimStatuses /\ 0 \in 0..Lease
          BY LeaseAssumption DEF ClaimStatuses
        <4>2. claim[held] \in [status : ClaimStatuses, left : 0..Lease, since : 0..Cardinality(Claims)]
          BY <2>1 DEF IInv, TypeOK, ClaimTypes
        <4>3. QED
          BY <4>1, <4>2
      <3>2. claim' = [claim EXCEPT ![held] = [claim[held] EXCEPT !.status = "completed", !.left = 0]]
        BY <2>1, <2>2 DEF IInv, TypeOK, ClaimTypes
      <3>3. QED
        BY <2>1, <3>1, <3>2 DEF IInv, TypeOK, ClaimTypes
    <2>4. left' \in 0..Lease /\ holder' \in Claims \cup {NoClaim}
      BY <1>1, LeaseAssumption DEF IInv, TypeOK, TicketTypes, Finalize
    <2>5. QED
      BY <1>1, <2>1, <2>3, <2>4 DEF Finalize
  <1>3. TypeOK'
    <2>1. TicketTypes'
      BY <1>2 DEF IInv, TypeOK, TicketTypes, NoClaim
    <2>2. ClaimTypes'
      BY <1>2 DEF IInv, TypeOK, ClaimTypes
    <2>3. ModelTypes'
      BY <1>2 DEF IInv, TypeOK, ModelTypes
    <2>4. StageTypes'
      BY <1>2 DEF IInv, TypeOK, StageTypes
    <2>5. AcceptTypes'
      BY <1>2 DEF IInv, TypeOK, AcceptTypes
    <2>6. TickTypes'
      BY <1>2, AttemptsAre, FamiliesAre, HeldIs, ClaimOf, LeaseAssumption DEF IInv, TypeOK,
      TickTypes, Placed, Goto, EndTick, Effected, Effective, Number, Called, At, Calling,
      Open, Steps, NoClaim
    <2>7. QED
      BY <2>1, <2>2, <2>3, <2>4, <2>5, <2>6 DEF TypeOK
  <1>4. Placed'
    BY <1>2, AttemptsAre, FamiliesAre, HeldIs, ClaimOf, LeaseAssumption DEF IInv, TypeOK,
    ClaimTypes, StageTypes, AcceptTypes, TickTypes, Placed, Goto, EndTick, Effected,
    Effective, Number, Called, At, Calling, Open, Steps, NoClaim
  <1>5. InState'
    BY <1>2, AttemptsAre, FamiliesAre, HeldIs, ClaimOf, LeaseAssumption DEF IInv, TypeOK,
    TicketTypes, StageTypes, AcceptTypes, TickTypes, Placed, InState, Goto, EndTick,
    Effected, Effective, Number, Called, At, Calling, Open, Steps, NoClaim
  <1>6. Once'
    <2>1. \A f \in Families, a \in Attempts : Effected(f, a)' <=> Effected(f, a) \/ <<f, a>> = held
      BY <1>2, Applying
    <2>2. QED
      BY <1>2, <2>1, FamiliesAre, HeldIs, AttemptsAre DEF IInv, Once, Effective, EndTick, NoClaim
  <1>7. Numbered'
    BY <1>2, AttemptsAre, FamiliesAre, HeldIs, ClaimOf, LeaseAssumption DEF IInv, TypeOK,
    TicketTypes, ClaimTypes, ModelTypes, StageTypes, AcceptTypes, TickTypes, Placed,
    Numbered, Goto, EndTick, Effected, Effective, Number, Called, At, Calling, Open, Steps,
    NoClaim
  <1>8. Calls'
    BY <1>2, AttemptsAre, FamiliesAre, HeldIs, ClaimOf, LeaseAssumption DEF IInv, TypeOK,
    ModelTypes, TickTypes, Placed, Calls, Goto, EndTick, Effected, Effective, Number,
    Called, At, Calling, Open, Steps, NoClaim
  <1>9. Reviews'
    BY <1>2, AttemptsAre, FamiliesAre, HeldIs, ClaimOf, LeaseAssumption DEF IInv, TypeOK,
    ModelTypes, StageTypes, TickTypes, Placed, Reviews, Goto, EndTick, Effected, Effective,
    Number, Called, At, Calling, Open, Steps, NoClaim
  <1>10. Acceptances'
    BY <1>2 DEF IInv, Acceptances, Effective
  <1>11. Commits'
    BY <1>2, AttemptsAre, FamiliesAre, HeldIs, ClaimOf, LeaseAssumption DEF IInv, TypeOK,
    TicketTypes, AcceptTypes, TickTypes, Placed, Commits, Goto, EndTick, Effected,
    Effective, Number, Called, At, Calling, Open, Steps, NoClaim
  <1>12. AttemptsAuthorized'
    BY <1>2 DEF IInv, AttemptsAuthorized
  <1>13. AcceptedVerified'
    BY <1>2 DEF IInv, AcceptedVerified, Effective
  <1>14. QED
    BY <1>3, <1>4, <1>5, <1>6, <1>7, <1>8, <1>9, <1>10, <1>11, <1>12, <1>13 DEF IInv

LEMMA AbortStep ==
  ASSUME IInv, Abort
  PROVE  IInv'
  <1>1. TypeOK'
    <2>1. TicketTypes'
      BY DEF IInv, TypeOK, TicketTypes, NoClaim, EndTick, Abort
    <2>2. ClaimTypes'
      BY DEF IInv, TypeOK, ClaimTypes, EndTick, NoClaim, Abort
    <2>3. ModelTypes'
      BY DEF IInv, TypeOK, ModelTypes, EndTick, NoClaim, Abort
    <2>4. StageTypes'
      BY DEF IInv, TypeOK, StageTypes, EndTick, NoClaim, Abort
    <2>5. AcceptTypes'
      BY DEF IInv, TypeOK, AcceptTypes, EndTick, NoClaim, Abort
    <2>6. TickTypes'
      BY AttemptsAre, FamiliesAre, HeldIs, ClaimOf, BoundsAssumption DEF IInv, TypeOK,
      TickTypes, Placed, Abort, Goto, EndTick, Effected, Effective, Number, Called, At,
      Calling, Steps, NoClaim
    <2>7. QED
      BY <2>1, <2>2, <2>3, <2>4, <2>5, <2>6 DEF TypeOK
  <1>2. Placed'
    BY DEF IInv, Placed, EndTick, NoClaim, Abort
  <1>3. InState'
    BY DEF IInv, InState, Calling, EndTick, NoClaim, Abort
  <1>4. Once'
    BY DEF IInv, Once, Effected, EndTick, NoClaim, Abort
  <1>5. Numbered'
    BY DEF IInv, Numbered, Number, EndTick, NoClaim, Abort
  <1>6. Calls'
    BY DEF IInv, Calls, Called, EndTick, NoClaim, Abort
  <1>7. Reviews'
    BY DEF IInv, Reviews, Effected, EndTick, NoClaim, Abort
  <1>8. Acceptances'
    BY DEF IInv, Acceptances, Effective, EndTick, NoClaim, Abort
  <1>9. Commits'
    BY DEF IInv, Commits, Effective, EndTick, NoClaim, Abort
  <1>10. AttemptsAuthorized'
    BY DEF IInv, AttemptsAuthorized, EndTick, NoClaim, Abort
  <1>11. AcceptedVerified'
    BY DEF IInv, AcceptedVerified, Effective, EndTick, NoClaim, Abort
  <1>12. QED
    BY <1>1, <1>2, <1>3, <1>4, <1>5, <1>6, <1>7, <1>8, <1>9, <1>10, <1>11 DEF IInv

LEMMA PauseStep ==
  ASSUME IInv, Pause
  PROVE  IInv'
  <1>1. TypeOK'
    <2>1. TicketTypes'
      BY DEF IInv, TypeOK, TicketTypes, Pause
    <2>2. ClaimTypes'
      BY DEF IInv, TypeOK, ClaimTypes, Pause
    <2>3. ModelTypes'
      BY DEF IInv, TypeOK, ModelTypes, Pause
    <2>4. StageTypes'
      BY DEF IInv, TypeOK, StageTypes, Pause
    <2>5. AcceptTypes'
      BY DEF IInv, TypeOK, AcceptTypes, Pause
    <2>6. TickTypes'
      BY AttemptsAre, FamiliesAre, HeldIs, ClaimOf, BoundsAssumption DEF IInv, TypeOK,
      TickTypes, Placed, Pause, Goto, EndTick, Effected, Effective, Number, Called, At,
      Calling, Steps
    <2>7. QED
      BY <2>1, <2>2, <2>3, <2>4, <2>5, <2>6 DEF TypeOK
  <1>2. Placed'
    BY DEF IInv, Placed, Pause
  <1>3. InState'
    BY DEF IInv, InState, Calling, Pause
  <1>4. Once'
    BY DEF IInv, Once, Effected, Pause
  <1>5. Numbered'
    BY DEF IInv, Numbered, Number, Pause
  <1>6. Calls'
    BY DEF IInv, Calls, Called, Pause
  <1>7. Reviews'
    BY DEF IInv, Reviews, Effected, Pause
  <1>8. Acceptances'
    BY DEF IInv, Acceptances, Effective, Pause
  <1>9. Commits'
    BY DEF IInv, Commits, Effective, Pause
  <1>10. AttemptsAuthorized'
    BY DEF IInv, AttemptsAuthorized, Pause
  <1>11. AcceptedVerified'
    BY DEF IInv, AcceptedVerified, Effective, Pause
  <1>12. QED
    BY <1>1, <1>2, <1>3, <1>4, <1>5, <1>6, <1>7, <1>8, <1>9, <1>10, <1>11 DEF IInv

LEMMA ResumeStep ==
  ASSUME IInv, Resume
  PROVE  IInv'
  <1>1. TypeOK'
    <2>1. TicketTypes'
      BY DEF IInv, TypeOK, TicketTypes, Resume
    <2>2. ClaimTypes'
      BY DEF IInv, TypeOK, ClaimTypes, Resume
    <2>3. ModelTypes'
      BY DEF IInv, TypeOK, ModelTypes, Resume
    <2>4. StageTypes'
      BY DEF IInv, TypeOK, StageTypes, Resume
    <2>5. AcceptTypes'
      BY DEF IInv, TypeOK, AcceptTypes, Resume
    <2>6. TickTypes'
      BY DEF IInv, TypeOK, TickTypes, Steps, Resume
    <2>7. QED
      BY <2>1, <2>2, <2>3, <2>4, <2>5, <2>6 DEF TypeOK
  <1>2. Placed'
    BY DEF IInv, Placed, Resume
  <1>3. InState'
    BY DEF IInv, InState, Calling, Resume
  <1>4. Once'
    BY DEF IInv, Once, Effected, Resume
  <1>5. Numbered'
    BY DEF IInv, Numbered, Number, Resume
  <1>6. Calls'
    BY DEF IInv, Calls, Called, Resume
  <1>7. Reviews'
    BY DEF IInv, Reviews, Effected, Resume
  <1>8. Acceptances'
    BY DEF IInv, Acceptances, Effective, Resume
  <1>9. Commits'
    BY DEF IInv, Commits, Effective, Resume
  <1>10. AttemptsAuthorized'
    BY DEF IInv, AttemptsAuthorized, Resume
  <1>11. AcceptedVerified'
    BY DEF IInv, AcceptedVerified, Effective, Resume
  <1>12. QED
    BY <1>1, <1>2, <1>3, <1>4, <1>5, <1>6, <1>7, <1>8, <1>9, <1>10, <1>11 DEF IInv

LEMMA InvalidateStep ==
  ASSUME IInv, Invalidate
  PROVE  IInv'
  <1>1. /\ Invalidatable /\ attempt = accepted /\ accepted + 1 \in Attempts
        /\ invalidated' = accepted
        /\ attempt' = accepted + 1 /\ manual' = manual \cup {accepted + 1}
        /\ artifact' = artifact \cup {<<"implementation", accepted + 1>>}
        /\ maxAttempts' = IF maxAttempts < accepted + 1 THEN accepted + 1 ELSE maxAttempts
        /\ state' = "implementing" /\ left' = 0 /\ holder' = NoClaim
        /\ ClaimTypes'
        /\ \A c \in Claims : claim'[c].status = claim[c].status
              \/ (c[1] = "git_integration" /\ claim'[c].status = "failed" /\ claim[c].status \in Open)
        /\ UNCHANGED <<call, auth, stageVars, accepted, replacement, gitVars, tickVars, paused, faultVars>>
    <2> DEFINE git == <<"git_integration", accepted>>
    <2>1. git \in Claims /\ git[1] = "git_integration"
      BY ClaimOf, FamiliesAre DEF IInv, TypeOK, AcceptTypes, Numbers, Invalidate, Invalidatable
    <2>2. claim' = claim \/ (claim[git].status \in Open
            /\ claim' = [claim EXCEPT ![git].status = "failed", ![git].left = 0])
      BY DEF Invalidate
    <2>3. /\ ClaimTypes'
          /\ \A c \in Claims : claim'[c].status = claim[c].status
               \/ (c = git /\ claim'[c].status = "failed" /\ claim[c].status \in Open)
      <3> HIDE DEF git
      <3>1. QED
        BY <2>1, <2>2, LeaseAssumption DEF IInv, TypeOK, ClaimTypes, ClaimStatuses, Open
    <2>4. QED
      BY <2>1, <2>3 DEF Invalidate
  <1>2. TypeOK'
    <2>1. TicketTypes'
      BY <1>1, AttemptsAre, FamiliesAre, HeldIs, ClaimOf, LeaseAssumption DEF IInv, TypeOK,
      TicketTypes, ClaimTypes, AcceptTypes, Placed, Goto, EndTick, Effected, Effective,
      Number, Called, At, Calling, Invalidatable, Open, States, Steps, Numbers, NoClaim,
      ModelFamilies
    <2>2. ClaimTypes'
      BY <1>1 DEF IInv, TypeOK, ClaimTypes
    <2>3. ModelTypes'
      BY <1>1 DEF IInv, TypeOK, ModelTypes, ModelFamilies
    <2>4. StageTypes'
      BY <1>1 DEF IInv, TypeOK, StageTypes, Numbers
    <2>5. AcceptTypes'
      BY <1>1 DEF IInv, TypeOK, AcceptTypes, Numbers
    <2>6. TickTypes'
      BY <1>1 DEF IInv, TypeOK, TickTypes, Steps, NoClaim
    <2>7. QED
      BY <2>1, <2>2, <2>3, <2>4, <2>5, <2>6 DEF TypeOK
  <1>3. Placed'
    BY <1>1 DEF IInv, Placed, ModelFamilies
  <1>4. InState'
    BY <1>1, AttemptsAre, FamiliesAre, HeldIs, ClaimOf, LeaseAssumption DEF IInv, TypeOK,
    TicketTypes, StageTypes, AcceptTypes, TickTypes, Placed, InState, Goto, EndTick,
    Effected, Effective, Number, Called, At, Calling, Invalidatable, Open, States, Steps,
    Numbers, NoClaim, ModelFamilies
  <1>5. Once'
    BY <1>1, AttemptsAre, FamiliesAre, HeldIs, ClaimOf, LeaseAssumption DEF IInv, TypeOK,
    ClaimTypes, StageTypes, AcceptTypes, TickTypes, Placed, Once, Goto, EndTick, Effected,
    Effective, Number, Called, At, Calling, Invalidatable, Open, States, Steps, Numbers,
    NoClaim, ModelFamilies
  <1>6. Numbered'
    <2>1. /\ accepted \in Nat /\ accepted # 0 /\ attempt' = accepted + 1 /\ attempt = accepted
          /\ Number = accepted /\ Number' = accepted + 1
      BY <1>1, AttemptsAre DEF IInv, TypeOK, AcceptTypes, Numbers, Invalidatable, Number
    <2>2. \A c \in Claims : c[2] \in Nat /\ (claim'[c].status # "absent" => claim[c].status # "absent")
      BY <1>1, HeldIs, AttemptsAre DEF Open
    <2>3. \A c \in Claims : claim'[c].status # "absent" => c[2] <= Number'
      BY <2>1, <2>2 DEF IInv, Numbered
    <2>4. pc \notin {"idle", "reconcile", "claim"} => claim'[held].status # "absent"
      BY <1>1 DEF IInv, Numbered, Placed
    <2>5. \A a \in Attempts : <<"implementation", a>> \in artifact' => a <= attempt'
      BY <1>1, <2>1, AttemptsAre DEF IInv, Numbered
    <2>6. \A a \in Attempts : validation'[a] # "none" => a <= Number'
      BY <1>1, <2>1, AttemptsAre DEF IInv, Numbered
    <2>7. QED
      BY <1>1, <2>1, <2>3, <2>4, <2>5, <2>6 DEF Numbered
  <1>7. Calls'
    BY <1>1, AttemptsAre, FamiliesAre, HeldIs, ClaimOf, LeaseAssumption DEF IInv, TypeOK,
    Placed, InState, Once, Numbered, Calls, Reviews, Acceptances, Commits,
    AttemptsAuthorized, AcceptedVerified, TicketTypes, ClaimTypes, ModelTypes, StageTypes,
    AcceptTypes, TickTypes, Goto, EndTick, Effected, Effective, Number, Called, At, Calling,
    Invalidatable, Open, States, Steps, Numbers, NoClaim, ModelFamilies
  <1>8. Reviews'
    BY <1>1, AttemptsAre, FamiliesAre, HeldIs, ClaimOf, LeaseAssumption DEF IInv, TypeOK,
    ModelTypes, StageTypes, TickTypes, Placed, Reviews, Goto, EndTick, Effected, Effective,
    Number, Called, At, Calling, Invalidatable, Open, States, Steps, Numbers, NoClaim,
    ModelFamilies
  <1>9. Acceptances'
    BY <1>1, AttemptsAre, FamiliesAre, HeldIs, ClaimOf, LeaseAssumption DEF IInv, TypeOK,
    TicketTypes, AcceptTypes, Placed, Acceptances, Goto, EndTick, Effected, Effective,
    Number, Called, At, Calling, Invalidatable, Open, States, Steps, Numbers, NoClaim,
    ModelFamilies
  <1>10. Commits'
    BY <1>1, AttemptsAre, FamiliesAre, HeldIs, ClaimOf, LeaseAssumption DEF IInv, TypeOK,
    TicketTypes, AcceptTypes, TickTypes, Placed, Commits, Goto, EndTick, Effected,
    Effective, Number, Called, At, Calling, Invalidatable, Open, States, Steps, Numbers,
    NoClaim, ModelFamilies
  <1>11. AttemptsAuthorized'
    <2>1. /\ accepted \in Nat /\ accepted # 0 /\ attempt' = accepted + 1 /\ attempt = accepted
          /\ invalidated = 0 /\ invalidated' = accepted /\ route' = route
          /\ maxAttempts \in Nat
          /\ maxAttempts' = IF maxAttempts < accepted + 1 THEN accepted + 1 ELSE maxAttempts
      BY <1>1, AttemptsAre DEF IInv, TypeOK, AcceptTypes, TicketTypes, Numbers, Invalidatable
    <2>2. attempt' <= maxAttempts'
      BY <2>1
    <2>3. ASSUME NEW a \in 2..attempt' PROVE route[a - 1] = "repair" \/ accepted = a - 1
      BY <2>1, <2>3 DEF IInv, AttemptsAuthorized
    <2>4. QED
      BY <2>1, <2>2, <2>3 DEF AttemptsAuthorized
  <1>12. AcceptedVerified'
    BY <1>1 DEF IInv, AcceptedVerified, Effective
  <1>13. QED
    BY <1>2, <1>3, <1>4, <1>5, <1>6, <1>7, <1>8, <1>9, <1>10, <1>11, <1>12 DEF IInv

LEMMA AuthorizeRetryStep ==
  ASSUME IInv, AuthorizeRetry
  PROVE  IInv'
  <1>1. PICK a \in Attempts :
          /\ state = "local_review" /\ call[<<"review", a>>].status = "failed"
          /\ auth' = [auth EXCEPT ![a].open = TRUE]
          /\ UNCHANGED <<ticketVars, claim, attemptVars, call, artifact, stageVars, acceptVars,
                         gitVars, tickVars, paused, faultVars>>
    BY DEF AuthorizeRetry
  <1>2. TypeOK'
    <2>1. TicketTypes'
      BY <1>1 DEF IInv, TypeOK, TicketTypes
    <2>2. ClaimTypes'
      BY <1>1 DEF IInv, TypeOK, ClaimTypes
    <2>3. ModelTypes'
      BY <1>1 DEF IInv, TypeOK, ModelTypes
    <2>4. StageTypes'
      BY <1>1 DEF IInv, TypeOK, StageTypes
    <2>5. AcceptTypes'
      BY <1>1 DEF IInv, TypeOK, AcceptTypes
    <2>6. TickTypes'
      BY <1>1 DEF IInv, TypeOK, TickTypes, Steps
    <2>7. QED
      BY <2>1, <2>2, <2>3, <2>4, <2>5, <2>6 DEF TypeOK
  <1>3. Placed'
    BY <1>1 DEF IInv, Placed, ModelFamilies
  <1>4. InState'
    BY <1>1 DEF IInv, InState, Calling
  <1>5. Once'
    BY <1>1 DEF IInv, Once, Effected
  <1>6. Numbered'
    BY <1>1 DEF IInv, Numbered, Number
  <1>7. Calls'
    <2>1. /\ auth'[a].open /\ \A b \in Attempts : auth'[b].used = auth[b].used
          /\ \A b \in Attempts : b # a => auth'[b] = auth[b]
      BY <1>1 DEF IInv, TypeOK, ModelTypes
    <2>2. held' = held /\ attempt' = attempt /\ pc' = pc /\ call' = call
      BY <1>1
    <2>3. pc = "launch" /\ held[1] = "review" => held[2] \in Attempts
      BY HeldIs DEF IInv, Placed
    <2>4. pc = "launch" /\ held[1] = "review" /\ auth[held[2]].open => auth'[held[2]].open
      BY <2>1, <2>3
    <2>5. \A s \in ModelFamilies \X Attempts : s[2] \in Attempts
      OBVIOUS
    <2>6. \A b \in Attempts : auth'[b].open => call[<<"review", b>>].status = "failed"
      BY <1>1, <2>1 DEF IInv, Calls
    <2>7. QED
      BY <2>1, <2>2, <2>4, <2>5, <2>6 DEF IInv, Calls, Called
  <1>8. Reviews'
    BY <1>1 DEF IInv, Reviews, Effected
  <1>9. Acceptances'
    BY <1>1 DEF IInv, Acceptances, Effective
  <1>10. Commits'
    BY <1>1 DEF IInv, Commits, Effective
  <1>11. AttemptsAuthorized'
    BY <1>1 DEF IInv, AttemptsAuthorized
  <1>12. AcceptedVerified'
    BY <1>1 DEF IInv, AcceptedVerified, Effective
  <1>13. QED
    BY <1>2, <1>3, <1>4, <1>5, <1>6, <1>7, <1>8, <1>9, <1>10, <1>11, <1>12 DEF IInv

LEMMA NoWorkStep ==
  ASSUME IInv, NoWork
  PROVE  IInv'
  BY RaiseStep DEF NoWork

\* A lapsed claim is taken over; the stage goes on where its status says.
LEMMA TakeOverStep ==
  ASSUME IInv, NEW c \in Claims, Lapsed(c), pc = "claim", TakeOver(c),
         pc' = FirstStep(c), held' = c, scope' = {},
         UNCHANGED <<maxAttempts, attemptVars, modelVars, stageVars, acceptVars, gitVars, paused,
                     faultVars>>
  PROVE  IInv'
  <1>1. claim[c].status \in Open
    BY DEF Lapsed
  <1>2. ClaimTypes' /\ \A d \in Claims : claim'[d].status = claim[d].status
    BY LeaseAssumption DEF TakeOver, IInv, TypeOK, ClaimTypes
  <1>3. /\ state' = state /\ left' \in 0..Lease /\ holder' \in Claims \cup {NoClaim}
    BY LeaseAssumption DEF TakeOver, IInv, TypeOK, TicketTypes
  <1>4. /\ (c[1] = "implementation" \/ claim[c].status = "claimed") => pc' = "begin"
        /\ (c[1] # "implementation" /\ claim[c].status = "begun")
             => pc' = IF c[1] \in {"repair_routing", "completion"} THEN "apply" ELSE "check"
        /\ (c[1] # "implementation" /\ claim[c].status = "applied")
             => pc' = IF c[1] = "validation" THEN "apply" ELSE "finalize"
    <2>1. CASE c[1] = "implementation" \/ claim[c].status = "claimed"
      <3>1. pc' = "begin"
        BY <2>1 DEF FirstStep
      <3>2. QED
        BY <2>1, <3>1
    <2>2. CASE c[1] # "implementation" /\ claim[c].status = "begun"
      <3>1. pc' = AfterBegin(c)
        BY <2>2 DEF FirstStep
      <3>2. QED
        BY <2>2, <3>1 DEF AfterBegin
    <2>3. CASE c[1] # "implementation" /\ claim[c].status = "applied"
      <3>1. pc' = IF c[1] = "validation" THEN "apply" ELSE "finalize"
        BY <2>3 DEF FirstStep
      <3>2. QED
        BY <2>3, <3>1
    <2>4. QED
      BY <1>1, <2>1, <2>2, <2>3 DEF Open
  <1>5. pc' \in {"begin", "apply", "check", "finalize"}
    BY <1>1, <1>4 DEF Open
  <1>6. TypeOK'
    BY <1>2, <1>3, <1>5
       DEF IInv, TypeOK, TicketTypes, ModelTypes, StageTypes, AcceptTypes, TickTypes, Steps
  <1>7. Placed'
    BY <1>1, <1>4, <1>5 DEF Placed, Open
  <1>8. InState'
    BY <1>5 DEF InState, Calling
  <1>9. \A f \in Families, a \in Attempts : Effected(f, a)' = Effected(f, a)
    BY <1>2, ClaimOf DEF Effected
  <1>10. Once'
    <2>1. held'[1] \in {"repair_routing", "acceptance"} =>
            /\ pc' = "begin" => claim'[held'].status = "claimed"
            /\ pc' \in {"check", "apply"} => claim'[held'].status = "begun"
      BY <1>1, <1>2, <1>4 DEF Open
    <2>2. QED
      BY <1>9, <2>1, FamiliesAre DEF IInv, Once
  <1>11. Numbered'
    BY <1>1, <1>2, <1>3 DEF IInv, Numbered, Number, Open
  <1>12. Calls'
    BY <1>5 DEF IInv, Calls
  <1>13. Reviews'
    BY <1>1, <1>4, <1>9, FamiliesAre DEF IInv, Reviews, Open
  <1>14. Acceptances' /\ AttemptsAuthorized' /\ AcceptedVerified'
    BY <1>3 DEF IInv, Acceptances, AttemptsAuthorized, AcceptedVerified, Effective
  <1>15. Commits'
    BY <1>1, <1>3, <1>4, <1>5 DEF IInv, Commits, Effective, Open
  <1>16. QED
    BY <1>6, <1>7, <1>8, <1>10, <1>11, <1>12, <1>13, <1>14, <1>15 DEF IInv

\* What the queries find was begun, and a ticket leaves its first states only with an attempt.
LEMMA EligibleIs ==
  ASSUME IInv, NEW f \in Families, NEW a \in Eligible(f)
  PROVE  /\ a \in Attempts /\ a <= Number
         /\ f = "implementation" => state \in {"ready_local", "repairing"}
         /\ f = "validation" => state = "implementing" /\ attempt # 0
  <1>1. \A b \in Attempts, g \in Families : Effected(g, b) => b <= Number
    BY ClaimOf DEF IInv, Numbered, Effected
  <1>2. \A b \in Attempts : route[b] # "none" => b <= Number
    BY <1>1, FamiliesAre DEF IInv, Once
  <1>3. \A b \in Attempts : b = Effective => b <= Number
    BY <1>1, FamiliesAre DEF IInv, Once, Effective
  <1>4. Number \in Attempts
    BY AttemptsAre DEF IInv, TypeOK, TicketTypes, Number, Numbers
  <1>5. \A S \in SUBSET Attempts : S # {} => Largest(S) \in S
    <2>1. TAKE S \in SUBSET Attempts
    <2>2. S \in SUBSET (1..Cardinality(Attempts))
      BY AttemptsAssumption
    <2>3. QED
      BY <2>2, AttemptsAre, LargestIs
  <1>6. CASE f = "implementation"
    BY <1>4, <1>6, AttemptsAre DEF Eligible
  <1>7. CASE f = "validation"
    <2> DEFINE S == {b \in Attempts : <<"implementation", b>> \in artifact}
    <2>1. a \in Attempts /\ state = "implementing" /\ a = Largest(S)
      BY <1>7 DEF Eligible, Implemented
    <2>2. S # {}
      BY <2>1, AttemptsAre DEF Largest
    <2>3. a \in S
      BY <1>5, <2>1, <2>2
    <2>4. a <= attempt /\ a # 0 /\ a \in Nat /\ attempt \in Nat
      BY <2>3, AttemptsAre DEF IInv, Numbered, TypeOK, TicketTypes, Numbers
    <2>5. QED
      BY <1>7, <2>1, <2>4 DEF Number
  <1>8. CASE f = "repair_routing"
    <2> DEFINE S == {b \in Attempts : validation[b] # "none"}
    <2>1. a \in Attempts /\ a = Largest(S)
      BY <1>8 DEF Eligible, Validated
    <2>2. S # {}
      BY <2>1, AttemptsAre DEF Largest
    <2>3. a \in S
      BY <1>5, <2>1, <2>2
    <2>4. QED
      BY <1>8, <2>3 DEF IInv, Numbered
  <1>9. CASE f = "review"
    BY <1>1, <1>9, FamiliesAre DEF Eligible, Reviewable
  <1>10. CASE f = "triage"
    BY <1>2, <1>10 DEF Eligible
  <1>11. CASE f = "acceptance"
    BY <1>2, <1>11 DEF Eligible, PassEligible
  <1>12. CASE f \in {"git_integration", "completion"}
    BY <1>3, <1>12 DEF Eligible
  <1>13. QED
    BY <1>6, <1>7, <1>8, <1>9, <1>10, <1>11, <1>12, FamiliesAre

\* A new claim is inserted.
LEMMA InsertStep ==
  ASSUME IInv, NEW f \in Families, NEW c \in Fresh(f), pc = "claim", Insert(c),
         pc' = FirstStep(c), held' = c, scope' = {},
         UNCHANGED <<maxAttempts, attemptVars, modelVars, stageVars, acceptVars, gitVars, paused,
                     faultVars>>
  PROVE  IInv'
  <1>1. c \in Claims /\ c[1] = f /\ c[2] \in Eligible(f) /\ claim[c].status = "absent"
    BY DEF Fresh
  <1>2. /\ c[2] \in Attempts /\ c[2] <= Number
        /\ f = "implementation" => state \in {"ready_local", "repairing"}
        /\ f = "validation" => state = "implementing" /\ attempt # 0
    BY <1>1, EligibleIs
  <1>3. pc' = "begin"
    BY <1>1 DEF FirstStep
  <1>4. /\ ClaimTypes' /\ claim'[c].status = "claimed"
        /\ \A d \in Claims : d # c => claim'[d] = claim[d]
    <2> DEFINE S == {d \in Claims : claim[d].status # "absent"}
               n == 1 + Cardinality(S)
    <2>2. IsFiniteSet(Claims) /\ Cardinality(Claims) \in Nat
      BY ClaimsAreFinite
    <2>3. /\ IsFiniteSet(Claims \ {c}) /\ Cardinality(Claims \ {c}) = Cardinality(Claims) - 1
          /\ S \subseteq Claims \ {c}
      BY <1>1, <2>2, FS_RemoveElement
    <2>4. Cardinality(S) \in Nat /\ Cardinality(S) <= Cardinality(Claims \ {c})
      BY <2>3, FS_Subset, FS_CardinalityType
    <2>5. n \in 0..Cardinality(Claims)
      BY <2>2, <2>3, <2>4
    <2>6. claim' = [claim EXCEPT ![c] = [status |-> "claimed", left |-> Lease, since |-> n]]
      BY DEF Insert
    <2> HIDE DEF n
    <2>7. QED
      BY <1>1, <2>5, <2>6, LeaseAssumption DEF IInv, TypeOK, ClaimTypes, ClaimStatuses, Open
  <1>5. /\ left' = Lease /\ holder' = c
        /\ f = "implementation" => state' = "implementing"
        /\ f = "validation" => state' = "verifying"
        /\ f \notin {"implementation", "validation"} => state' = state
    BY <1>1 DEF Insert
  <1>6. /\ state' \in States /\ (state' \in {"accepted", "done"} <=> state \in {"accepted", "done"})
        /\ state' = "done" <=> state = "done"
        /\ attempt = 0 => state' \in {"ready_local", "implementing"}
    BY <1>2, <1>5 DEF States, IInv, TypeOK, TicketTypes, Numbered
  <1>7. TypeOK'
    BY <1>1, <1>3, <1>4, <1>5, <1>6, LeaseAssumption
       DEF IInv, TypeOK, TicketTypes, ModelTypes, StageTypes, AcceptTypes, TickTypes, Steps
  <1>8. Placed' /\ InState'
    BY <1>1, <1>3 DEF Placed, InState, Calling
  <1>9. \A g \in Families, a \in Attempts : Effected(g, a)' <=> Effected(g, a)
    <2>1. \A d \in Claims : claim'[d].status \in {"applied", "completed"}
                             <=> claim[d].status \in {"applied", "completed"}
      BY <1>1, <1>4
    <2>2. QED
      BY <2>1, ClaimOf DEF Effected
  <1>10. Once'
    BY <1>3, <1>4, <1>9, FamiliesAre DEF IInv, Once
  <1>11. Numbered'
    BY <1>1, <1>2, <1>4, <1>6 DEF IInv, Numbered, Number
  <1>12. Calls'
    BY <1>3 DEF IInv, Calls
  <1>13. Reviews'
    BY <1>3, <1>9, FamiliesAre DEF IInv, Reviews
  <1>14. Acceptances' /\ AttemptsAuthorized' /\ AcceptedVerified'
    BY <1>6 DEF IInv, Acceptances, AttemptsAuthorized, AcceptedVerified, Effective
  <1>15. Commits'
    BY <1>3, <1>6 DEF IInv, Commits, Effective
  <1>16. QED
    BY <1>7, <1>8, <1>10, <1>11, <1>12, <1>13, <1>14, <1>15 DEF IInv

LEMMA ClaimStageStep ==
  ASSUME IInv, ClaimStage
  PROVE  IInv'
  <1>1. PICK i \in 1..8 :
          \/ \E c \in Oldest(LapsedIn(Order[i])) :
               \/ TakeOver(c) /\ pc' = FirstStep(c) /\ held' = c /\ scope' = {}
               \/ EndTick /\ UNCHANGED <<claim, left, holder, state>>
          \/ \E c \in Fresh(Order[i]) :
               Insert(c) /\ pc' = FirstStep(c) /\ held' = c /\ scope' = {}
          \/ EndTick /\ UNCHANGED <<claim, left, holder, state>>
    BY DEF ClaimStage
  <1>2. /\ pc = "claim"
        /\ UNCHANGED <<maxAttempts, attemptVars, modelVars, stageVars, acceptVars, gitVars, paused,
                       faultVars>>
    BY DEF ClaimStage
  <1>3. Order[i] \in Families
    BY DEF Families
  <1>4. CASE EndTick /\ UNCHANGED <<claim, left, holder, state>>
    BY <1>2, <1>4, RaiseStep DEF Raise
  <1>5. CASE \E c \in Oldest(LapsedIn(Order[i])) :
               TakeOver(c) /\ pc' = FirstStep(c) /\ held' = c /\ scope' = {}
    <2>1. PICK c \in Oldest(LapsedIn(Order[i])) :
            TakeOver(c) /\ pc' = FirstStep(c) /\ held' = c /\ scope' = {}
      BY <1>5
    <2>2. c \in Claims /\ Lapsed(c)
      BY DEF Oldest, LapsedIn
    <2>3. QED
      BY <1>2, <2>1, <2>2, TakeOverStep
  <1>6. CASE \E c \in Fresh(Order[i]) :
               Insert(c) /\ pc' = FirstStep(c) /\ held' = c /\ scope' = {}
    BY <1>2, <1>3, <1>6, InsertStep
  <1>7. QED
    BY <1>1, <1>4, <1>5, <1>6

LEMMA Initially == Init => IInv
  <1> SUFFICES ASSUME Init PROVE IInv
    OBVIOUS
  <1>1. Cardinality(Claims) \in Nat
    BY ClaimsAreFinite
  <1>2. TypeOK
    <2>1. TicketTypes
      BY AttemptsAre, LeaseAssumption, InitialMaxAssumption DEF Init, TicketTypes, States, Numbers
    <2>2. ClaimTypes
      BY <1>1, LeaseAssumption DEF Init, ClaimTypes, ClaimStatuses
    <2>3. ModelTypes
      BY DEF Init, ModelTypes, CallStatuses
    <2>4. StageTypes
      BY DEF Init, StageTypes, Validations, Numbers
    <2>5. AcceptTypes
      BY DEF Init, AcceptTypes, Numbers
    <2>6. TickTypes
      <3>1. 0 \in 0..MaxPauses /\ 0 \in 0..MaxCrashes /\ 0 \in 0..MaxExceptions
        BY BoundsAssumption
      <3>2. QED
        BY <3>1 DEF Init, TickTypes, Steps
    <2>7. QED
      BY <2>1, <2>2, <2>3, <2>4, <2>5, <2>6 DEF TypeOK
  <1>3. Placed /\ InState /\ Once /\ Numbered /\ Calls /\ Reviews /\ Acceptances /\ Commits
    BY AttemptsAre, ClaimOf, FamiliesAre
       DEF Init, Placed, InState, Calling, Once, Numbered, Calls, Reviews, Acceptances, Commits,
           Effected, Effective, NoClaim
  <1>4. AttemptsAuthorized /\ AcceptedVerified
    BY AttemptsAre, InitialMaxAssumption DEF Init, AttemptsAuthorized, AcceptedVerified
  <1>5. QED
    BY <1>2, <1>3, <1>4 DEF IInv

LEMMA EveryStep == IInv /\ [Next]_vars => IInv'
  <1> SUFFICES ASSUME IInv, [Next]_vars PROVE IInv'
    OBVIOUS
  <1>1. CASE TickStep
    BY <1>1, StartTickStep, ReconcileStep, ClaimStageStep, NoWorkStep, BeginStep,
       CheckImplementationStep, CheckValidationStep, CheckReviewStep, CheckTriageStep,
       CheckAcceptanceStep, CheckGitStep, LaunchStep, AnswerStep, RecordStep, ValidateStep,
       MarkStep, ToReviewStep, DecideStep, NoteStep, StartIntentStep, CommitStep, AdvanceHeadStep,
       ApplyResultStep, RouteStep, AcceptStep, ApplyGitStep, CompleteStep, FinalizeStep
       DEF TickStep
  <1>2. CASE Wait \/ CallFails \/ Crash \/ Abort \/ Pause \/ Resume \/ Invalidate \/ AuthorizeRetry
    BY <1>2, WaitStep, CallFailsStep, CrashStep, AbortStep, PauseStep, ResumeStep,
       InvalidateStep, AuthorizeRetryStep
  <1>3. CASE UNCHANGED vars
    <2>1. UNCHANGED <<ledgerVars, paused, faultVars>> /\ pc' = pc /\ held' = held /\ scope' = scope
      BY <1>3 DEF vars
    <2>2. TypeOK'
      BY <2>1 DEF IInv, TypeOK, TicketTypes, ClaimTypes, ModelTypes, StageTypes, AcceptTypes,
         TickTypes
    <2>3. Placed' /\ InState' /\ Once' /\ Numbered' /\ Calls' /\ Reviews' /\ Acceptances' /\ Commits'
      BY <2>1 DEF IInv, Placed, InState, Calling, Once, Numbered, Number, Calls, Called, Reviews,
         Acceptances, Commits, Effected, Effective
    <2>4. AttemptsAuthorized' /\ AcceptedVerified'
      BY <2>1 DEF IInv, AttemptsAuthorized, AcceptedVerified, Effective
    <2>5. QED
      BY <2>2, <2>3, <2>4 DEF IInv
  <1>4. QED
    BY <1>1, <1>2, <1>3 DEF Next

LEMMA Invariance == Spec => []IInv
  BY Initially, EveryStep, PTL DEF Spec

----------------------------------------------------------------------------
(* The theorems.                                                           *)

\* Evidence, claims and ticks keep their types, and every attempt after the first answers
\* a repair decision or replaces an invalidated candidate, within the limit of the ticket.
THEOREM Consistency == Spec => []Consistent
  <1>1. IInv => Consistent
    BY DEF IInv, Consistent
  <1>2. QED
    BY Invariance, <1>1, PTL

\* What counts as accepted is the latest attempt, validated, reviewed and routed on the
\* verdict pass.
THEOREM Verified == Spec => []AcceptedVerified
  <1>1. IInv => AcceptedVerified
    BY DEF IInv
  <1>2. QED
    BY Invariance, <1>1, PTL

\* A commit is made, and the integration head moved, for nothing but what is accepted.
THEOREM Authorization == Spec => []CommitAuthorized
  <1>1. IInv => CommitAuthorized
    <2> SUFFICES ASSUME IInv PROVE CommitAuthorized
      OBVIOUS
    <2>1. head # 0 => intent.attempt = head /\ Effective = head /\ state \in {"accepted", "done"}
      BY DEF IInv, Commits, Acceptances
    <2>2. state = "done" => head = Effective /\ ref = head /\ evidence = head
      BY DEF IInv, Commits, Acceptances
    <2>3. QED
      BY <2>1, <2>2 DEF CommitAuthorized, IInv, Commits
  <1>2. QED
    BY Invariance, <1>1, PTL

\* No crash, exception or replay repeats a model call without an authorization.
THEOREM Inferences == Spec => []OneInference
  <1>1. IInv => OneInference
    BY DEF IInv, Calls, OneInference
  <1>2. QED
    BY Invariance, <1>1, PTL
=============================================================================
