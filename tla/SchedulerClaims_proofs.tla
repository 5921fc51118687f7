----------------------- MODULE SchedulerClaims_proofs -----------------------
(* The inductive invariant of SchedulerClaims and what follows from it.    *)
EXTENDS SchedulerClaims, TLAPS

USE DEF timeVars

\* Begun ticks and the rows they wrote carry distinct, already drawn tokens.
FreshTokens ==
    /\ \A w \in Workers : token[w] < nextToken
    /\ \A w \in Workers : (pc[w] = "idle") <=> (token[w] = NoToken)
    /\ \A v, w \in Workers : token[v] = token[w] /\ token[v] # NoToken => v = w
    /\ \A t \in Tokens : call[t].claim # NoClaim => t < nextToken

\* Clock readings are never ahead of the clock.
StaleReadings ==
    /\ \A w \in Workers : now[w] <= clock
    /\ operator.at <= clock

\* A tick that has not outlived its lease is the one in scheduler_tick_lease.
TickHeld ==
    \A w \in Workers : LiveTick(w) => tick = [token |-> token[w], expires |-> now[w] + Lease]

AfterBegin == {"check", "launch", "run", "record", "complete", "finalize"}
BeforeRun == {"tick", "reconcile", "claim", "begin", "reread", "check", "launch"}

\* What a process knows about the claim it holds, at each of its steps.
Knows(w) ==
    /\ pc[w] \in Holding => held[w] \in Claims /\ row[held[w]].status # "absent"
    /\ pc[w] \in AfterBegin \/ (pc[w] = "reread" /\ held[w] \in Inference)
         => row[held[w]].effect # "unstarted"
    /\ pc[w] \in BeforeRun => call[token[w]].claim = NoClaim
    /\ pc[w] \in {"launch", "run", "record"} => held[w] \in Inference
    /\ pc[w] = "run" => call[token[w]].claim = held[w] /\ call[token[w]].status = "started"
    /\ pc[w] = "record" =>
         /\ result[w] # NoToken
         /\ call[result[w]].claim = held[w]
         /\ call[result[w]].status = "completed"
    /\ pc[w] = "complete" => stage[held[w]] # NoToken

HolderKnows == \A w \in Workers : Knows(w)

\* An unclaimed stage has left no trace, and evidence follows the start.
NoTrace ==
    \A c \in Claims :
        /\ row[c].status = "absent" => row[c] = NullRow
        /\ stage[c] # NoToken => row[c].effect # "unstarted"

\* Without overruns a tick never outlives its lease, so the process about to
\* launch an inference has the claim to itself.
NoOverrun ==
    ~overran =>
        /\ \A w \in Workers : Alive(w) => clock < now[w] + Lease
        /\ \A w \in Workers : pc[w] = "launch" => CallsOf(held[w]) = {}
        /\ SingleInference

IInv ==
    /\ TypeOK
    /\ FreshTokens
    /\ StaleReadings
    /\ TickHeld
    /\ HolderKnows
    /\ NoTrace
    /\ EvidenceOrder
    /\ NoOverrun

\* A step never takes evidence back ...
RowsGrow ==
    \A c \in Claims :
        /\ row[c].status # "absent" => row'[c].status # "absent"
        /\ row[c].effect # "unstarted" => row'[c].effect # "unstarted"
        /\ stage[c] # NoToken => stage'[c] = stage[c]
CallsGrow ==
    \A t \in Tokens : call[t].claim # NoClaim =>
        /\ call'[t].claim = call[t].claim
        /\ call[t].status = "completed" => call'[t] = call[t]

\* ... and a step of process w leaves the other processes alone.
OthersKeep(w) ==
    \A u \in Workers \ {w} :
        /\ pc'[u] = pc[u] /\ now'[u] = now[u] /\ token'[u] = token[u]
        /\ held'[u] = held[u] /\ result'[u] = result[u]
        /\ pc[u] # "idle" => call'[token[u]] = call[token[u]]

\* NoTrace and EvidenceOrder, one claim at a time.
InOrder(c) ==
    /\ row[c].status = "absent" => row[c] = NullRow
    /\ stage[c] # NoToken => row[c].effect # "unstarted"
    /\ row[c].effect = "done" => row[c].result = stage[c] /\ stage[c] # NoToken
    /\ row[c].status = "completed" => row[c].effect = "done"
    /\ c \in Inference /\ stage[c] # NoToken =>
         call[stage[c]].claim = c /\ call[stage[c]].status = "completed"

\* What the assumptions say about the constants the proofs compute with.
LEMMA Constants ==
    /\ NoClaim \notin Claims /\ Lease \in Nat /\ Lease > 0
    /\ MaxClock \in Nat /\ MaxTicks \in Nat
    /\ Tokens \subseteq Nat \ {NoToken}
  BY ClaimsAssumption, LeaseAssumption, BoundsAssumption DEF NoClaim, Tokens, NoToken

\* A new owner and expiry keep the rows well typed.
LEMMA LeaseUpdate ==
    ASSUME NEW r \in [Claims -> Rows], NEW c \in Claims, NEW t \in 0..MaxTicks, NEW e \in Nat
    PROVE  [r EXCEPT ![c].owner = t, ![c].expires = e] \in [Claims -> Rows]
  BY DEF Rows

\* Finalizing a row keeps the rows well typed.
LEMMA FinalUpdate ==
    ASSUME NEW r \in [Claims -> Rows], NEW c \in Claims
    PROVE  [r EXCEPT ![c].status = "completed", ![c].owner = NoToken, ![c].expires = 0]
             \in [Claims -> Rows]
  <1>1. r[c] \in Rows /\ NoToken \in 0..MaxTicks
    BY Constants DEF NoToken
  <1>2. [r[c] EXCEPT !.status = "completed", !.owner = NoToken, !.expires = 0] \in Rows
    BY <1>1 DEF Rows, Statuses
  <1> QED
    BY <1>1, <1>2

\* Recording a completion keeps the rows well typed.
LEMMA DoneUpdate ==
    ASSUME NEW r \in [Claims -> Rows], NEW c \in Claims, NEW t \in 0..MaxTicks
    PROVE  [r EXCEPT ![c].effect = "done", ![c].result = t] \in [Claims -> Rows]
  BY DEF Rows, Effects

\* The outcome of an invocation keeps the invocations well typed.
LEMMA CallUpdate ==
    ASSUME NEW f \in [Tokens -> Calls], NEW t \in Tokens, NEW s \in InvocationStatuses
    PROVE  [f EXCEPT ![t].status = s] \in [Tokens -> Calls]
  <1>1. f[t] \in Calls
    OBVIOUS
  <1>2. [f[t] EXCEPT !.status = s] \in Calls
    BY <1>1 DEF Calls
  <1> QED
    BY <1>2

\* A new owner and expiry change nothing else, and no other row.
LEMMA OnlyLease ==
    ASSUME NEW r \in [Claims -> Rows], NEW c \in Claims, NEW t, NEW e, NEW d \in Claims,
           NEW s, s = [r EXCEPT ![c].owner = t, ![c].expires = e]
    PROVE  /\ s[d].status = r[d].status /\ s[d].effect = r[d].effect
           /\ s[d].result = r[d].result /\ s[d].created = r[d].created
           /\ d # c => s[d] = r[d]
  BY DEF Rows

\* The empty ledger satisfies the invariant.
LEMMA InitInvariant == Init => IInv
  <1> SUFFICES ASSUME Init PROVE IInv
    OBVIOUS
  <1> USE Constants DEF Init
  <1>1. TypeOK
    <2>1. NullRow \in Rows /\ NoTick \in [token : 0..MaxTicks, expires : Nat]
      BY DEF NullRow, NoTick, Rows, Effects, Statuses, NoToken
    <2>2. NoCall \in Calls
      BY DEF NoCall, Calls, InvocationStatuses
    <2>3. NoDecision \in [claim : Claims \cup {NoClaim}, action : Actions, at : Nat \ {0}]
      BY DEF NoDecision, Actions
    <2>4. NoToken \in 0..MaxTicks /\ 1 \in 1..(MaxTicks + 1) /\ "idle" \in Steps
      BY DEF NoToken, Steps
    <2>7. clock \in Nat \ {0} /\ paused \in BOOLEAN /\ nextToken \in 1..(MaxTicks + 1)
      <3>1. paused \in BOOLEAN
        BY Zenon
      <3>2. clock \in Nat \ {0}
        OBVIOUS
      <3> QED
        BY <2>4, <3>1, <3>2
    <2>5. /\ tick \in [token : 0..MaxTicks, expires : Nat]
          /\ row \in [Claims -> Rows] /\ call \in [Tokens -> Calls]
          /\ stage \in [Claims -> 0..MaxTicks]
      BY <2>1, <2>2, <2>4
    <2>6. /\ pc \in [Workers -> Steps] /\ now \in [Workers -> Nat]
          /\ token \in [Workers -> 0..MaxTicks] /\ scope \in [Workers -> SUBSET Families]
          /\ held \in [Workers -> Claims \cup {NoClaim}]
          /\ result \in [Workers -> 0..MaxTicks]
      BY <2>4
    <2> QED
      BY <2>3, <2>5, <2>6, <2>7 DEF TypeOK
  <1>2. FreshTokens
    BY DEF FreshTokens, NoToken, NoCall
  <1>3. StaleReadings
    BY DEF StaleReadings, NoDecision
  <1>4. TickHeld
    BY DEF TickHeld, LiveTick, Working
  <1>5. HolderKnows
    BY DEF HolderKnows, Knows, Holding, AfterBegin, BeforeRun
  <1>6. NoTrace /\ EvidenceOrder
    BY DEF NoTrace, EvidenceOrder, NullRow, NoCall
  <1>7. NoOverrun
    BY DEF NoOverrun, Alive, SingleInference, NoCall
  <1> QED
    BY <1>1, <1>2, <1>3, <1>4, <1>5, <1>6, <1>7 DEF IInv

\* Every action keeps the types.
LEMMA TypeStep == IInv /\ [Next]_vars => TypeOK'
  <1> SUFFICES ASSUME TypeOK, HolderKnows, [Next]_vars PROVE TypeOK'
    BY DEF IInv
  <1> USE Constants DEF TypeOK, Goto, Forget, GoRelease, GoIdle, NoToken
  <1>1. ASSUME NEW w \in Workers, ReadClock(w) PROVE TypeOK'
    BY <1>1 DEF ReadClock, Steps
  <1>2. ASSUME NEW w \in Workers, ClaimTick(w) PROVE TypeOK'
    BY <1>2 DEF ClaimTick, Steps
  <1>3. ASSUME NEW w \in Workers, Reconcile(w) PROVE TypeOK'
    BY <1>3 DEF Reconcile, ledgerVars, Steps, Families, Oldest
  <1>4. ASSUME NEW w \in Workers, ClaimStage(w) PROVE TypeOK'
    <2>1. PICK f \in scope[w] : Reclaim(w, f) \/ NewClaim(w, f)
      BY <1>4 DEF ClaimStage
    <2>2. now[w] + Lease \in Nat /\ token[w] \in 0..MaxTicks
      OBVIOUS
    <2>3. CASE Reclaim(w, f)
      <3>1. PICK c \in Claims : row' = [row EXCEPT ![c].owner = token[w], ![c].expires = now[w] + Lease]
        BY <2>3 DEF Reclaim, Oldest, ExpiredIn
      <3>2. row' \in [Claims -> Rows]
        BY <3>1, <2>2, LeaseUpdate
      <3>3. held' \in [Workers -> Claims \cup {NoClaim}]
        BY <2>3 DEF Reclaim, Oldest, ExpiredIn
      <3> QED
        BY <1>4, <3>2, <3>3 DEF ClaimStage, Steps
    <2>4. CASE NewClaim(w, f)
      <3>1. row' \in [Claims -> Rows]
        BY <2>4, <2>2 DEF NewClaim, Rows, Statuses, Effects
      <3>2. held' \in [Workers -> Claims \cup {NoClaim}]
        BY <2>4 DEF NewClaim
      <3> QED
        BY <1>4, <3>1, <3>2 DEF ClaimStage, Steps
    <2> QED
      BY <2>1, <2>3, <2>4
  <1>5. ASSUME NEW w \in Workers, NoStage(w) PROVE TypeOK'
    BY <1>5 DEF NoStage, ledgerVars, Steps
  <1>6. ASSUME NEW w \in Workers, Begin(w) PROVE TypeOK'
    <2>1. row' \in [Claims -> Rows]
      BY <1>6 DEF Begin, Rows, Effects, Statuses
    <2> QED
      BY <1>6, <2>1 DEF Begin, Steps
  <1>7. ASSUME NEW w \in Workers, Reread(w) PROVE TypeOK'
    <2>1. held[w] \in Claims
      BY <1>7 DEF Reread, Holding, HolderKnows, Knows
    <2>2. row[held[w]].result \in 0..MaxTicks
      BY <2>1 DEF Rows
    <2> QED
      BY <1>7, <2>2 DEF Reread, Steps
  <1>8. ASSUME NEW w \in Workers, CheckModel(w) PROVE TypeOK'
    <2>1. held[w] \in Claims /\ stage[held[w]] \in 0..MaxTicks
      BY <1>8 DEF CheckModel, Inference
    <2>2. LatestCalls(held[w]) \subseteq 0..MaxTicks
      BY DEF LatestCalls, CallsOf, Tokens
    <2>3. /\ pc' \in [Workers -> Steps]
          /\ scope' \in [Workers -> SUBSET Families]
          /\ held' \in [Workers -> Claims \cup {NoClaim}]
      BY <1>8 DEF CheckModel, ReplayStage, Steps
    <2>4. result' \in [Workers -> 0..MaxTicks]
      BY <1>8, <2>1, <2>2 DEF CheckModel, ReplayStage
    <2> QED
      BY <1>8, <2>3, <2>4 DEF CheckModel, ledgerVars
  <1>9. ASSUME NEW w \in Workers, Launch(w) PROVE TypeOK'
    BY <1>9 DEF Launch, Calls, InvocationStatuses, Steps
  <1>10. ASSUME NEW w \in Workers, FinishCall(w) PROVE TypeOK'
    <2>1. PICK st \in {"completed", "failed"} : call' = [call EXCEPT ![token[w]].status = st]
      BY <1>10 DEF FinishCall
    <2>2. call' \in [Tokens -> Calls]
      BY <2>1, CallUpdate DEF InvocationStatuses
    <2> QED
      BY <1>10, <2>2 DEF FinishCall, Steps
  <1>11. ASSUME NEW w \in Workers, Record(w) PROVE TypeOK'
    BY <1>11 DEF Record, Steps
  <1>12. ASSUME NEW w \in Workers, RunReplayable(w) PROVE TypeOK'
    <2>1. held[w] \in Claims
      BY <1>12 DEF RunReplayable, Holding, HolderKnows, Knows
    <2> QED
      BY <1>12, <2>1 DEF RunReplayable, Steps
  <1>13. ASSUME NEW w \in Workers, CompleteEffect(w) PROVE TypeOK'
    <2>1. row' \in [Claims -> Rows]
      <3>1. result[w] \in 0..MaxTicks /\ held[w] \in Claims
        BY <1>13 DEF CompleteEffect, Holding, HolderKnows, Knows
      <3>2. [row EXCEPT ![held[w]].effect = "done", ![held[w]].result = result[w]] \in [Claims -> Rows]
        BY <3>1, DoneUpdate
      <3> QED
        BY <1>13, <3>2 DEF CompleteEffect
    <2> QED
      BY <1>13, <2>1 DEF CompleteEffect, Steps
  <1>14. ASSUME NEW w \in Workers, Finalize(w) PROVE TypeOK'
    <2>1. CASE row' = row
      BY <1>14, <2>1 DEF Finalize, Steps
    <2>2. CASE row' = [row EXCEPT ![held[w]].status = "completed", ![held[w]].owner = NoToken,
                                 ![held[w]].expires = 0]
      <3>1. held[w] \in Claims
        BY <1>14 DEF Finalize, Holding, HolderKnows, Knows
      <3>2. row' \in [Claims -> Rows]
        BY <2>2, <3>1, FinalUpdate
      <3> QED
        BY <1>14, <3>2 DEF Finalize, Steps
    <2> QED
      BY <1>14, <2>1, <2>2 DEF Finalize
  <1>15. ASSUME NEW w \in Workers, Raise(w) PROVE TypeOK'
    BY <1>15 DEF Raise, ledgerVars, Steps
  <1>16. ASSUME NEW w \in Workers, ReleaseTick(w) PROVE TypeOK'
    BY <1>16 DEF ReleaseTick, NoTick, Steps
  <1>17. ASSUME NEW w \in Workers, Crash(w) PROVE TypeOK'
    BY <1>17 DEF Crash, ledgerVars, Steps
  <1>18. CASE SetPause
    BY <1>18 DEF SetPause, ledgerVars, workerVars
  <1>19. ASSUME NEW c \in Claims, OperatorDecides(c) PROVE TypeOK'
    BY <1>19 DEF OperatorDecides, Actions, ledgerVars, workerVars
  <1>20. CASE OperatorReleases
    <2>1. operator.at - 1 \in Nat
      OBVIOUS
    <2>2. operator.claim \in Claims
      BY <1>20 DEF OperatorReleases
    <2>3. [row EXCEPT ![operator.claim].owner = NoToken, ![operator.claim].expires = operator.at - 1]
            \in [Claims -> Rows]
      <3>1. NoToken \in 0..MaxTicks
        OBVIOUS
      <3> QED
        BY <2>1, <2>2, <3>1, LeaseUpdate
    <2>4. row' \in [Claims -> Rows]
      BY <1>20, <2>3 DEF OperatorReleases
    <2> QED
      BY <1>20, <2>4 DEF OperatorReleases, NoDecision, Actions, workerVars
  <1>21. CASE Advance
    BY <1>21 DEF Advance, ledgerVars, workerVars
  <1>22. CASE UNCHANGED vars
    BY <1>22 DEF vars
  <1> QED
    BY <1>1, <1>2, <1>3, <1>4, <1>5, <1>6, <1>7, <1>8, <1>9, <1>10, <1>11, <1>12,
       <1>13, <1>14, <1>15, <1>16, <1>17, <1>18, <1>19, <1>20, <1>21, <1>22
       DEF Next, Worker

\* A clock reading only gets older.
LEMMA StaleStep == IInv /\ [Next]_vars => StaleReadings'
  <1> SUFFICES ASSUME TypeOK, StaleReadings, [Next]_vars PROVE StaleReadings'
    BY DEF IInv
  <1> USE Constants DEF TypeOK, StaleReadings, Goto, Forget, GoRelease, GoIdle
  <1>1. ASSUME NEW w \in Workers, ReadClock(w) PROVE StaleReadings'
    BY <1>1 DEF ReadClock
  <1>2. ASSUME NEW w \in Workers, ClaimTick(w) PROVE StaleReadings'
    BY <1>2 DEF ClaimTick
  <1>3. ASSUME NEW w \in Workers, Reconcile(w) PROVE StaleReadings'
    BY <1>3 DEF Reconcile, ledgerVars
  <1>4. ASSUME NEW w \in Workers, ClaimStage(w) PROVE StaleReadings'
    BY <1>4 DEF ClaimStage, Reclaim, NewClaim
  <1>5. ASSUME NEW w \in Workers, NoStage(w) PROVE StaleReadings'
    BY <1>5 DEF NoStage, ledgerVars
  <1>6. ASSUME NEW w \in Workers, Begin(w) PROVE StaleReadings'
    BY <1>6 DEF Begin
  <1>7. ASSUME NEW w \in Workers, Reread(w) PROVE StaleReadings'
    BY <1>7 DEF Reread
  <1>8. ASSUME NEW w \in Workers, CheckModel(w) PROVE StaleReadings'
    BY <1>8 DEF CheckModel, ReplayStage, ledgerVars
  <1>9. ASSUME NEW w \in Workers, Launch(w) PROVE StaleReadings'
    BY <1>9 DEF Launch
  <1>10. ASSUME NEW w \in Workers, FinishCall(w) PROVE StaleReadings'
    BY <1>10 DEF FinishCall
  <1>11. ASSUME NEW w \in Workers, Record(w) PROVE StaleReadings'
    BY <1>11 DEF Record
  <1>12. ASSUME NEW w \in Workers, RunReplayable(w) PROVE StaleReadings'
    BY <1>12 DEF RunReplayable
  <1>13. ASSUME NEW w \in Workers, CompleteEffect(w) PROVE StaleReadings'
    BY <1>13 DEF CompleteEffect
  <1>14. ASSUME NEW w \in Workers, Finalize(w) PROVE StaleReadings'
    BY <1>14 DEF Finalize
  <1>15. ASSUME NEW w \in Workers, Raise(w) PROVE StaleReadings'
    BY <1>15 DEF Raise, ledgerVars
  <1>16. ASSUME NEW w \in Workers, ReleaseTick(w) PROVE StaleReadings'
    BY <1>16 DEF ReleaseTick
  <1>17. ASSUME NEW w \in Workers, Crash(w) PROVE StaleReadings'
    BY <1>17 DEF Crash, ledgerVars
  <1>18. CASE SetPause
    BY <1>18 DEF SetPause, ledgerVars, workerVars
  <1>19. ASSUME NEW c \in Claims, OperatorDecides(c) PROVE StaleReadings'
    BY <1>19 DEF OperatorDecides, ledgerVars, workerVars
  <1>20. CASE OperatorReleases
    BY <1>20 DEF OperatorReleases, NoDecision, workerVars
  <1>21. CASE Advance
    BY <1>21 DEF Advance, ledgerVars, workerVars
  <1>22. CASE UNCHANGED vars
    BY <1>22 DEF vars
  <1> QED
    BY <1>1, <1>2, <1>3, <1>4, <1>5, <1>6, <1>7, <1>8, <1>9, <1>10, <1>11, <1>12,
       <1>13, <1>14, <1>15, <1>16, <1>17, <1>18, <1>19, <1>20, <1>21, <1>22
       DEF Next, Worker

\* A tick draws a token no other tick or invocation has.
LEMMA FreshStep == IInv /\ [Next]_vars => FreshTokens'
  <1> SUFFICES ASSUME TypeOK, FreshTokens, HolderKnows, [Next]_vars PROVE FreshTokens'
    BY DEF IInv
  <1> USE Constants DEF TypeOK, FreshTokens, NoToken, Goto, Forget, GoRelease, GoIdle
  <1>1. ASSUME NEW w \in Workers, ReadClock(w) PROVE FreshTokens'
    BY <1>1 DEF ReadClock
  <1>2. ASSUME NEW w \in Workers, ClaimTick(w) PROVE FreshTokens'
    BY <1>2 DEF ClaimTick
  <1>3. ASSUME NEW w \in Workers, Reconcile(w) PROVE FreshTokens'
    BY <1>3 DEF Reconcile, ledgerVars
  <1>4. ASSUME NEW w \in Workers, ClaimStage(w) PROVE FreshTokens'
    BY <1>4 DEF ClaimStage, Reclaim, NewClaim
  <1>5. ASSUME NEW w \in Workers, NoStage(w) PROVE FreshTokens'
    BY <1>5 DEF NoStage, ledgerVars
  <1>6. ASSUME NEW w \in Workers, Begin(w) PROVE FreshTokens'
    BY <1>6 DEF Begin
  <1>7. ASSUME NEW w \in Workers, Reread(w) PROVE FreshTokens'
    BY <1>7 DEF Reread
  <1>8. ASSUME NEW w \in Workers, CheckModel(w) PROVE FreshTokens'
    BY <1>8 DEF CheckModel, ReplayStage, ledgerVars
  <1>9. ASSUME NEW w \in Workers, Launch(w) PROVE FreshTokens'
    <2>1. token[w] \in Tokens /\ token[w] < nextToken
      BY <1>9 DEF Launch, Tokens
    <2> QED
      BY <1>9, <2>1 DEF Launch
  <1>10. ASSUME NEW w \in Workers, FinishCall(w) PROVE FreshTokens'
    <2>1. token[w] \in Tokens /\ token[w] < nextToken
      BY <1>10 DEF FinishCall, Tokens
    <2> QED
      BY <1>10, <2>1 DEF FinishCall
  <1>11. ASSUME NEW w \in Workers, Record(w) PROVE FreshTokens'
    BY <1>11 DEF Record
  <1>12. ASSUME NEW w \in Workers, RunReplayable(w) PROVE FreshTokens'
    BY <1>12 DEF RunReplayable
  <1>13. ASSUME NEW w \in Workers, CompleteEffect(w) PROVE FreshTokens'
    BY <1>13 DEF CompleteEffect
  <1>14. ASSUME NEW w \in Workers, Finalize(w) PROVE FreshTokens'
    BY <1>14 DEF Finalize
  <1>15. ASSUME NEW w \in Workers, Raise(w) PROVE FreshTokens'
    BY <1>15 DEF Raise, Working, Steps, ledgerVars
  <1>16. ASSUME NEW w \in Workers, ReleaseTick(w) PROVE FreshTokens'
    BY <1>16 DEF ReleaseTick
  <1>17. ASSUME NEW w \in Workers, Crash(w) PROVE FreshTokens'
    BY <1>17 DEF Crash, ledgerVars
  <1>18. CASE SetPause
    BY <1>18 DEF SetPause, ledgerVars, workerVars
  <1>19. ASSUME NEW c \in Claims, OperatorDecides(c) PROVE FreshTokens'
    BY <1>19 DEF OperatorDecides, ledgerVars, workerVars
  <1>20. CASE OperatorReleases
    BY <1>20 DEF OperatorReleases, workerVars
  <1>21. CASE Advance
    BY <1>21 DEF Advance, ledgerVars, workerVars
  <1>22. CASE UNCHANGED vars
    BY <1>22 DEF vars
  <1> QED
    BY <1>1, <1>2, <1>3, <1>4, <1>5, <1>6, <1>7, <1>8, <1>9, <1>10, <1>11, <1>12,
       <1>13, <1>14, <1>15, <1>16, <1>17, <1>18, <1>19, <1>20, <1>21, <1>22
       DEF Next, Worker

\* claim_scheduler_tick replaces a lease only after its expiry, and a late release deletes nobody else's.
LEMMA TickHeldStep == IInv /\ [Next]_vars => TickHeld'
  <1> SUFFICES ASSUME TypeOK, FreshTokens, StaleReadings, TickHeld, [Next]_vars PROVE TickHeld'
    BY DEF IInv
  <1> USE Constants DEF TypeOK, TickHeld, LiveTick, Working, Steps, NoToken, Goto, Forget, GoRelease, GoIdle
  <1>1. ASSUME NEW w \in Workers, ReadClock(w) PROVE TickHeld'
    BY <1>1 DEF ReadClock
  <1>2. ASSUME NEW w \in Workers, ClaimTick(w) PROVE TickHeld'
    <2> SUFFICES ASSUME NEW v \in Workers, LiveTick(v)'
                 PROVE  tick' = [token |-> token'[v], expires |-> now'[v] + Lease]
      OBVIOUS
    <2>1. CASE v = w
      BY <1>2, <2>1 DEF ClaimTick
    <2>2. CASE v # w
      <3>1. LiveTick(v) /\ token[v] # NoToken /\ token'[v] = token[v] /\ now'[v] = now[v]
        BY <1>2, <2>2 DEF ClaimTick, FreshTokens
      <3>2. tick = [token |-> token[v], expires |-> now[v] + Lease] /\ clock < now[v] + Lease
        BY <3>1
      <3>3. TickBusy(w)
        BY <3>1, <3>2 DEF TickBusy, StaleReadings
      <3> QED
        BY <1>2, <3>1, <3>2, <3>3 DEF ClaimTick
    <2> QED
      BY <2>1, <2>2
  <1>3. ASSUME NEW w \in Workers, Reconcile(w) PROVE TickHeld'
    BY <1>3 DEF Reconcile, ledgerVars
  <1>4. ASSUME NEW w \in Workers, ClaimStage(w) PROVE TickHeld'
    BY <1>4 DEF ClaimStage, Reclaim, NewClaim
  <1>5. ASSUME NEW w \in Workers, NoStage(w) PROVE TickHeld'
    BY <1>5 DEF NoStage, ledgerVars
  <1>6. ASSUME NEW w \in Workers, Begin(w) PROVE TickHeld'
    BY <1>6 DEF Begin
  <1>7. ASSUME NEW w \in Workers, Reread(w) PROVE TickHeld'
    BY <1>7 DEF Reread
  <1>8. ASSUME NEW w \in Workers, CheckModel(w) PROVE TickHeld'
    BY <1>8 DEF CheckModel, ReplayStage, ledgerVars
  <1>9. ASSUME NEW w \in Workers, Launch(w) PROVE TickHeld'
    BY <1>9 DEF Launch
  <1>10. ASSUME NEW w \in Workers, FinishCall(w) PROVE TickHeld'
    BY <1>10 DEF FinishCall
  <1>11. ASSUME NEW w \in Workers, Record(w) PROVE TickHeld'
    BY <1>11 DEF Record
  <1>12. ASSUME NEW w \in Workers, RunReplayable(w) PROVE TickHeld'
    BY <1>12 DEF RunReplayable
  <1>13. ASSUME NEW w \in Workers, CompleteEffect(w) PROVE TickHeld'
    BY <1>13 DEF CompleteEffect
  <1>14. ASSUME NEW w \in Workers, Finalize(w) PROVE TickHeld'
    BY <1>14 DEF Finalize
  <1>15. ASSUME NEW w \in Workers, Raise(w) PROVE TickHeld'
    BY <1>15 DEF Raise, ledgerVars
  <1>16. ASSUME NEW w \in Workers, ReleaseTick(w) PROVE TickHeld'
    <2> SUFFICES ASSUME NEW v \in Workers, LiveTick(v)'
                 PROVE  tick' = [token |-> token'[v], expires |-> now'[v] + Lease]
      OBVIOUS
    <2>1. v # w
      BY <1>16 DEF ReleaseTick
    <2>2. LiveTick(v) /\ token[v] # NoToken /\ token'[v] = token[v] /\ now'[v] = now[v]
      BY <1>16, <2>1 DEF ReleaseTick, FreshTokens
    <2>3. token[v] # token[w]
      BY <2>1, <2>2 DEF FreshTokens
    <2> QED
      BY <1>16, <2>2, <2>3 DEF ReleaseTick
  <1>17. ASSUME NEW w \in Workers, Crash(w) PROVE TickHeld'
    BY <1>17 DEF Crash, ledgerVars
  <1>18. CASE SetPause
    BY <1>18 DEF SetPause, ledgerVars, workerVars
  <1>19. ASSUME NEW c \in Claims, OperatorDecides(c) PROVE TickHeld'
    BY <1>19 DEF OperatorDecides, ledgerVars, workerVars
  <1>20. CASE OperatorReleases
    BY <1>20 DEF OperatorReleases, workerVars
  <1>21. CASE Advance
    BY <1>21 DEF Advance, ledgerVars, workerVars
  <1>22. CASE UNCHANGED vars
    BY <1>22 DEF vars
  <1> QED
    BY <1>1, <1>2, <1>3, <1>4, <1>5, <1>6, <1>7, <1>8, <1>9, <1>10, <1>11, <1>12,
       <1>13, <1>14, <1>15, <1>16, <1>17, <1>18, <1>19, <1>20, <1>21, <1>22
       DEF Next, Worker

\* A step of one process leaves the local state of the others alone.
LEMMA OthersStep ==
    ASSUME IInv, NEW w \in Workers, Worker(w)
    PROVE  OthersKeep(w)
  <1> SUFFICES ASSUME TypeOK, FreshTokens, NEW u \in Workers \ {w}
      PROVE  /\ pc'[u] = pc[u] /\ now'[u] = now[u] /\ token'[u] = token[u]
             /\ held'[u] = held[u] /\ result'[u] = result[u]
             /\ pc[u] # "idle" => call'[token[u]] = call[token[u]]
    BY DEF IInv, OthersKeep
  <1> USE Constants DEF TypeOK, Goto, Forget, GoRelease, GoIdle, NoToken
  <1>0. pc[u] # "idle" => token[u] \in Tokens /\ token[u] # token[w]
    BY DEF FreshTokens, Tokens
  <1>1. CASE ReadClock(w)
    BY <1>0, <1>1 DEF ReadClock
  <1>2. CASE ClaimTick(w)
    BY <1>0, <1>2 DEF ClaimTick
  <1>3. CASE Reconcile(w)
    BY <1>0, <1>3 DEF Reconcile, ledgerVars
  <1>4. CASE ClaimStage(w)
    BY <1>0, <1>4 DEF ClaimStage, Reclaim, NewClaim
  <1>5. CASE NoStage(w)
    BY <1>0, <1>5 DEF NoStage, ledgerVars
  <1>6. CASE Begin(w)
    BY <1>0, <1>6 DEF Begin
  <1>7. CASE Reread(w)
    BY <1>0, <1>7 DEF Reread
  <1>8. CASE CheckModel(w)
    BY <1>0, <1>8 DEF CheckModel, ReplayStage, ledgerVars
  <1>9. CASE Launch(w)
    BY <1>0, <1>9 DEF Launch
  <1>10. CASE FinishCall(w)
    BY <1>0, <1>10 DEF FinishCall
  <1>11. CASE Record(w)
    BY <1>0, <1>11 DEF Record
  <1>12. CASE RunReplayable(w)
    BY <1>0, <1>12 DEF RunReplayable
  <1>13. CASE CompleteEffect(w)
    BY <1>0, <1>13 DEF CompleteEffect
  <1>14. CASE Finalize(w)
    BY <1>0, <1>14 DEF Finalize
  <1>15. CASE Raise(w)
    BY <1>0, <1>15 DEF Raise, ledgerVars
  <1>16. CASE ReleaseTick(w)
    BY <1>0, <1>16 DEF ReleaseTick
  <1>17. CASE Crash(w)
    BY <1>0, <1>17 DEF Crash, ledgerVars
  <1> QED
    BY <1>1, <1>2, <1>3, <1>4, <1>5, <1>6, <1>7, <1>8, <1>9, <1>10, <1>11, <1>12,
       <1>13, <1>14, <1>15, <1>16, <1>17
       DEF Worker

\* Rows are never removed and effects never go back.
LEMMA RowsGrowStep == IInv /\ [Next]_vars => RowsGrow
  <1> SUFFICES ASSUME TypeOK, HolderKnows, NoTrace, [Next]_vars PROVE RowsGrow
    BY DEF IInv
  <1> USE Constants DEF TypeOK, RowsGrow, Goto, Forget, GoRelease, GoIdle
  <1>1. ASSUME NEW w \in Workers, ReadClock(w) PROVE RowsGrow
    BY <1>1 DEF ReadClock
  <1>2. ASSUME NEW w \in Workers, ClaimTick(w) PROVE RowsGrow
    BY <1>2 DEF ClaimTick
  <1>3. ASSUME NEW w \in Workers, Reconcile(w) PROVE RowsGrow
    BY <1>3 DEF Reconcile, ledgerVars
  <1>4. ASSUME NEW w \in Workers, ClaimStage(w) PROVE RowsGrow
    <2>1. PICK f \in scope[w] : Reclaim(w, f) \/ NewClaim(w, f)
      BY <1>4 DEF ClaimStage
    <2>2. stage' = stage
      BY <1>4 DEF ClaimStage
    <2>3. CASE Reclaim(w, f)
      <3>1. PICK c \in Claims : row' = [row EXCEPT ![c].owner = token[w], ![c].expires = now[w] + Lease]
        BY <2>3 DEF Reclaim, Oldest, ExpiredIn
      <3> QED
        BY <2>2, <3>1, OnlyLease
    <2>4. CASE NewClaim(w, f)
      <3>1. PICK c \in Claims : row[c].status = "absent" /\ row'[c].status = "claimed"
                                /\ \A d \in Claims \ {c} : row'[d] = row[d]
        BY <2>4 DEF NewClaim
      <3>2. row[c].effect = "unstarted"
        BY <3>1 DEF NoTrace, NullRow
      <3> QED
        BY <2>2, <3>1, <3>2
    <2> QED
      BY <2>1, <2>3, <2>4
  <1>5. ASSUME NEW w \in Workers, NoStage(w) PROVE RowsGrow
    BY <1>5 DEF NoStage, ledgerVars
  <1>6. ASSUME NEW w \in Workers, Begin(w) PROVE RowsGrow
    BY <1>6 DEF Begin, Rows
  <1>7. ASSUME NEW w \in Workers, Reread(w) PROVE RowsGrow
    BY <1>7 DEF Reread
  <1>8. ASSUME NEW w \in Workers, CheckModel(w) PROVE RowsGrow
    BY <1>8 DEF CheckModel, ReplayStage, ledgerVars
  <1>9. ASSUME NEW w \in Workers, Launch(w) PROVE RowsGrow
    BY <1>9 DEF Launch
  <1>10. ASSUME NEW w \in Workers, FinishCall(w) PROVE RowsGrow
    BY <1>10 DEF FinishCall
  <1>11. ASSUME NEW w \in Workers, Record(w) PROVE RowsGrow
    BY <1>11 DEF Record
  <1>12. ASSUME NEW w \in Workers, RunReplayable(w) PROVE RowsGrow
    BY <1>12 DEF RunReplayable
  <1>13. ASSUME NEW w \in Workers, CompleteEffect(w) PROVE RowsGrow
    <2>1. stage' = stage
      BY <1>13 DEF CompleteEffect
    <2>2. CASE row' = row
      BY <2>1, <2>2
    <2>3. CASE row' = [row EXCEPT ![held[w]].effect = "done", ![held[w]].result = result[w]]
      <3>1. \A c \in Claims : row'[c].status = row[c].status
        BY <2>3 DEF Rows
      <3>2. \A c \in Claims : row'[c].effect \in {row[c].effect, "done"}
        BY <2>3 DEF Rows
      <3> QED
        BY <2>1, <3>1, <3>2
    <2> QED
      BY <1>13, <2>2, <2>3 DEF CompleteEffect
  <1>14. ASSUME NEW w \in Workers, Finalize(w) PROVE RowsGrow
    BY <1>14 DEF Finalize, Rows
  <1>15. ASSUME NEW w \in Workers, Raise(w) PROVE RowsGrow
    BY <1>15 DEF Raise, ledgerVars
  <1>16. ASSUME NEW w \in Workers, ReleaseTick(w) PROVE RowsGrow
    BY <1>16 DEF ReleaseTick
  <1>17. ASSUME NEW w \in Workers, Crash(w) PROVE RowsGrow
    BY <1>17 DEF Crash, ledgerVars
  <1>18. CASE SetPause
    BY <1>18 DEF SetPause, ledgerVars, workerVars
  <1>19. ASSUME NEW c \in Claims, OperatorDecides(c) PROVE RowsGrow
    BY <1>19 DEF OperatorDecides, ledgerVars, workerVars
  <1>20. CASE OperatorReleases
    <2>1. CASE row' = row
      BY <1>20, <2>1 DEF OperatorReleases
    <2>2. CASE row' # row
      <3>1. PICK c \in Claims :
              row' = [row EXCEPT ![c].owner = NoToken, ![c].expires = operator.at - 1]
        BY <1>20, <2>2 DEF OperatorReleases
      <3> QED
        BY <1>20, <3>1, OnlyLease DEF OperatorReleases
    <2> QED
      BY <2>1, <2>2
  <1>21. CASE Advance
    BY <1>21 DEF Advance, ledgerVars, workerVars
  <1>22. CASE UNCHANGED vars
    BY <1>22 DEF vars
  <1> QED
    BY <1>1, <1>2, <1>3, <1>4, <1>5, <1>6, <1>7, <1>8, <1>9, <1>10, <1>11, <1>12,
       <1>13, <1>14, <1>15, <1>16, <1>17, <1>18, <1>19, <1>20, <1>21, <1>22
       DEF Next, Worker

\* Invocations are never removed, moved or reopened.
LEMMA CallsGrowStep == IInv /\ [Next]_vars => CallsGrow
  <1> SUFFICES ASSUME TypeOK, FreshTokens, HolderKnows, [Next]_vars PROVE CallsGrow
    BY DEF IInv
  <1> USE Constants DEF TypeOK, CallsGrow, Goto, Forget, GoRelease, GoIdle
  <1>1. ASSUME NEW w \in Workers, ReadClock(w) PROVE CallsGrow
    BY <1>1 DEF ReadClock
  <1>2. ASSUME NEW w \in Workers, ClaimTick(w) PROVE CallsGrow
    BY <1>2 DEF ClaimTick
  <1>3. ASSUME NEW w \in Workers, Reconcile(w) PROVE CallsGrow
    BY <1>3 DEF Reconcile, ledgerVars
  <1>4. ASSUME NEW w \in Workers, ClaimStage(w) PROVE CallsGrow
    BY <1>4 DEF ClaimStage, Reclaim, NewClaim
  <1>5. ASSUME NEW w \in Workers, NoStage(w) PROVE CallsGrow
    BY <1>5 DEF NoStage, ledgerVars
  <1>6. ASSUME NEW w \in Workers, Begin(w) PROVE CallsGrow
    BY <1>6 DEF Begin
  <1>7. ASSUME NEW w \in Workers, Reread(w) PROVE CallsGrow
    BY <1>7 DEF Reread
  <1>8. ASSUME NEW w \in Workers, CheckModel(w) PROVE CallsGrow
    BY <1>8 DEF CheckModel, ReplayStage, ledgerVars
  <1>9. ASSUME NEW w \in Workers, Launch(w) PROVE CallsGrow
    <2>1. token[w] \in Tokens
      BY <1>9 DEF Launch, FreshTokens, Tokens, NoToken
    <2> QED
      BY <1>9, <2>1 DEF Launch, HolderKnows, Knows, BeforeRun
  <1>10. ASSUME NEW w \in Workers, FinishCall(w) PROVE CallsGrow
    <2>1. token[w] \in Tokens /\ call[token[w]].status = "started"
      BY <1>10 DEF FinishCall, FreshTokens, HolderKnows, Knows, Tokens, NoToken
    <2>2. PICK st : call' = [call EXCEPT ![token[w]].status = st]
      BY <1>10 DEF FinishCall
    <2>3. call[token[w]] \in Calls
      BY <2>1
    <2>4. call'[token[w]] = [call[token[w]] EXCEPT !.status = st]
      BY <2>1, <2>2
    <2>5. call'[token[w]].claim = call[token[w]].claim
      BY <2>3, <2>4 DEF Calls
    <2>6. \A t \in Tokens \ {token[w]} : call'[t] = call[t]
      BY <2>2
    <2> QED
      BY <2>1, <2>5, <2>6
  <1>11. ASSUME NEW w \in Workers, Record(w) PROVE CallsGrow
    BY <1>11 DEF Record
  <1>12. ASSUME NEW w \in Workers, RunReplayable(w) PROVE CallsGrow
    BY <1>12 DEF RunReplayable
  <1>13. ASSUME NEW w \in Workers, CompleteEffect(w) PROVE CallsGrow
    BY <1>13 DEF CompleteEffect
  <1>14. ASSUME NEW w \in Workers, Finalize(w) PROVE CallsGrow
    BY <1>14 DEF Finalize
  <1>15. ASSUME NEW w \in Workers, Raise(w) PROVE CallsGrow
    BY <1>15 DEF Raise, ledgerVars
  <1>16. ASSUME NEW w \in Workers, ReleaseTick(w) PROVE CallsGrow
    BY <1>16 DEF ReleaseTick
  <1>17. ASSUME NEW w \in Workers, Crash(w) PROVE CallsGrow
    BY <1>17 DEF Crash, ledgerVars
  <1>18. CASE SetPause
    BY <1>18 DEF SetPause, ledgerVars, workerVars
  <1>19. ASSUME NEW c \in Claims, OperatorDecides(c) PROVE CallsGrow
    BY <1>19 DEF OperatorDecides, ledgerVars, workerVars
  <1>20. CASE OperatorReleases
    BY <1>20 DEF OperatorReleases, workerVars
  <1>21. CASE Advance
    BY <1>21 DEF Advance, ledgerVars, workerVars
  <1>22. CASE UNCHANGED vars
    BY <1>22 DEF vars
  <1> QED
    BY <1>1, <1>2, <1>3, <1>4, <1>5, <1>6, <1>7, <1>8, <1>9, <1>10, <1>11, <1>12,
       <1>13, <1>14, <1>15, <1>16, <1>17, <1>18, <1>19, <1>20, <1>21, <1>22
       DEF Next, Worker

\* What a process knows about its claim survives the growth of the tables.
LEMMA KnowsStays ==
    ASSUME IInv, RowsGrow, CallsGrow, NEW u \in Workers,
           pc'[u] = pc[u], token'[u] = token[u], held'[u] = held[u], result'[u] = result[u],
           pc[u] # "idle" => call'[token[u]] = call[token[u]]
    PROVE  Knows(u)'
  <1> USE Constants DEF Holding, AfterBegin, BeforeRun
  <1>1. Knows(u) /\ TypeOK
    BY DEF IInv, HolderKnows
  <1>2. pc[u] \in Holding => held[u] \in Claims
    BY <1>1 DEF Knows
  <1>3. ASSUME pc[u] = "record"
        PROVE  call'[result[u]].claim = held[u] /\ call'[result[u]].status = "completed"
    <2>1. result[u] \in Tokens
      BY <1>1, <1>3 DEF Knows, TypeOK, Tokens, NoToken
    <2>2. call[result[u]].claim # NoClaim /\ call[result[u]].status = "completed"
      BY <1>1, <1>2, <1>3 DEF Knows
    <2> QED
      BY <1>1, <1>3, <2>1, <2>2 DEF CallsGrow, Knows
  <1> QED
    BY <1>1, <1>2, <1>3 DEF Knows, RowsGrow

\* A process knows what its next step relies on.
LEMMA OwnStep ==
    ASSUME IInv, NEW w \in Workers, Worker(w)
    PROVE  Knows(w)'
  <1> USE Constants DEF Holding, AfterBegin, BeforeRun, Goto, Forget, GoRelease, GoIdle
  <1>0. TypeOK /\ Knows(w) /\ FreshTokens
    BY DEF IInv, HolderKnows
  <1>a. pc[w] # "idle" => token[w] \in Tokens
    BY <1>0 DEF FreshTokens, TypeOK, Tokens, NoToken
  <1>1. CASE ReadClock(w)
    <2>1. nextToken \in Tokens
      BY <1>0, <1>1 DEF ReadClock, TypeOK, Tokens
    <2>2. call[nextToken].claim = NoClaim
      BY <1>0, <2>1 DEF FreshTokens, TypeOK
    <2> QED
      BY <1>0, <1>1, <2>2 DEF ReadClock, Knows, TypeOK
  <1>2. CASE ClaimTick(w)
    BY <1>0, <1>2 DEF ClaimTick, Knows, TypeOK
  <1>3. CASE Reconcile(w)
    BY <1>0, <1>3 DEF Reconcile, ledgerVars, Knows, TypeOK
  <1>4. CASE ClaimStage(w)
    <2>1. PICK c \in Claims : held'[w] = c /\ row'[c].status = "claimed"
      <3>1. PICK f \in scope[w] : Reclaim(w, f) \/ NewClaim(w, f)
        BY <1>4 DEF ClaimStage
      <3>2. CASE Reclaim(w, f)
        <4>1. PICK c \in Claims :
                /\ row[c].status = "claimed"
                /\ row' = [row EXCEPT ![c].owner = token[w], ![c].expires = now[w] + Lease]
                /\ held' = [held EXCEPT ![w] = c]
          BY <3>2 DEF Reclaim, Oldest, ExpiredIn, Expired
        <4>2. row'[c].status = row[c].status
          BY <4>1, <1>0, OnlyLease DEF TypeOK
        <4> QED
          BY <4>1, <4>2, <1>0 DEF TypeOK
      <3>3. CASE NewClaim(w, f)
        BY <1>0, <3>3 DEF NewClaim, TypeOK
      <3> QED
        BY <3>1, <3>2, <3>3
    <2> QED
      BY <1>0, <1>4, <2>1 DEF ClaimStage, Knows, TypeOK
  <1>5. CASE NoStage(w)
    BY <1>0, <1>5 DEF NoStage, Knows, TypeOK
  <1>6. CASE Begin(w)
    <2>1. held[w] \in Claims /\ row[held[w]] \in Rows /\ row[held[w]].status # "absent"
      BY <1>0, <1>6 DEF Begin, Knows, TypeOK
    <2>2. row'[held[w]].status # "absent"
      BY <1>0, <1>6, <2>1 DEF Begin, TypeOK, Rows
    <2>3. pc'[w] # "release" => row'[held[w]].effect # "unstarted"
      BY <1>0, <1>6, <2>1 DEF Begin, Begun, TypeOK, Rows, IInv, EvidenceOrder
    <2>4. pc'[w] \in {"reread", "check", "release"}
      BY <1>0, <1>6 DEF Begin, TypeOK
    <2> QED
      BY <1>0, <1>6, <2>1, <2>2, <2>3, <2>4 DEF Begin, Knows, TypeOK
  <1>7. CASE Reread(w)
    <2>1. held[w] \in Claims /\ row[held[w]] \in Rows /\ row[held[w]].status # "absent"
      BY <1>0, <1>7 DEF Reread, Knows, TypeOK
    <2>2. row[held[w]].effect = "done" => stage[held[w]] # NoToken
      BY <2>1 DEF IInv, EvidenceOrder
    <2>3. /\ pc'[w] \in {"finalize", "complete", "check", "begin"}
          /\ pc'[w] # "begin" => row[held[w]].effect # "unstarted"
          /\ pc'[w] = "complete" => row[held[w]].effect = "done"
      BY <1>0, <1>7 DEF Reread, Knows, TypeOK
    <2> QED
      BY <1>0, <1>7, <2>1, <2>2, <2>3 DEF Reread, Knows, TypeOK
  <1>8. CASE CheckModel(w)
    <2>1. \A t \in LatestCalls(held[w]) : t \in Tokens /\ t # NoToken /\ call[t].claim = held[w]
      BY DEF LatestCalls, CallsOf
    <2> QED
      BY <1>0, <1>8, <2>1 DEF CheckModel, ReplayStage, ledgerVars, Knows, TypeOK
  <1>9. CASE Launch(w)
    BY <1>0, <1>a, <1>9 DEF Launch, Knows, TypeOK
  <1>10. CASE FinishCall(w)
    <2>1. CASE pc'[w] = "release"
      BY <2>1 DEF Knows
    <2>2. CASE call' = [call EXCEPT ![token[w]].status = "completed"] /\ pc'[w] = "record"
      <3>1. call[token[w]] \in Calls /\ call[token[w]].claim = held[w]
        BY <1>0, <1>a, <1>10 DEF FinishCall, Knows, TypeOK
      <3>2. call'[token[w]] = [call[token[w]] EXCEPT !.status = "completed"]
        BY <1>0, <1>a, <1>10, <2>2 DEF FinishCall, TypeOK
      <3>3. call'[token[w]].claim = held[w] /\ call'[token[w]].status = "completed"
        BY <3>1, <3>2 DEF Calls
      <3>4. result'[w] = token[w] /\ held'[w] = held[w] /\ row' = row
        BY <1>0, <1>10, <2>2 DEF FinishCall, TypeOK
      <3> QED
        BY <1>0, <1>a, <1>10, <2>2, <3>3, <3>4 DEF FinishCall, Knows
    <2> QED
      BY <1>0, <1>10, <2>1, <2>2 DEF FinishCall, TypeOK
  <1>11. CASE Record(w)
    BY <1>0, <1>11 DEF Record, Knows, TypeOK
  <1>12. CASE RunReplayable(w)
    BY <1>0, <1>a, <1>12 DEF RunReplayable, Knows, TypeOK
  <1>13. CASE CompleteEffect(w)
    <2>1. held[w] \in Claims /\ row[held[w]] \in Rows /\ row[held[w]].status # "absent"
      BY <1>0, <1>13 DEF CompleteEffect, Knows, TypeOK
    <2>2. row'[held[w]].status # "absent" /\ row'[held[w]].effect # "unstarted"
      BY <1>0, <1>13, <2>1 DEF CompleteEffect, Knows, TypeOK, Rows
    <2> QED
      BY <1>0, <1>13, <2>1, <2>2 DEF CompleteEffect, Knows, TypeOK
  <1>14. CASE Finalize(w)
    BY <1>0, <1>14 DEF Finalize, Knows, TypeOK
  <1>15. CASE Raise(w)
    BY <1>0, <1>15 DEF Raise, Knows, TypeOK
  <1>16. CASE ReleaseTick(w)
    BY <1>0, <1>16 DEF ReleaseTick, Knows, TypeOK
  <1>17. CASE Crash(w)
    BY <1>0, <1>17 DEF Crash, Knows, TypeOK
  <1> QED
    BY <1>1, <1>2, <1>3, <1>4, <1>5, <1>6, <1>7, <1>8, <1>9, <1>10, <1>11, <1>12,
       <1>13, <1>14, <1>15, <1>16, <1>17
       DEF Worker

\* Every process keeps knowing what its next step relies on.
LEMMA HolderStep == IInv /\ [Next]_vars => HolderKnows'
  <1> SUFFICES ASSUME IInv, [Next]_vars, NEW u \in Workers PROVE Knows(u)'
    BY DEF HolderKnows
  <1>1. RowsGrow /\ CallsGrow
    BY RowsGrowStep, CallsGrowStep
  <1>2. ASSUME NEW w \in Workers, Worker(w) PROVE Knows(u)'
    <2>1. CASE u = w
      BY <1>2, <2>1, OwnStep
    <2>2. CASE u # w
      BY <1>1, <1>2, <2>2, OthersStep, KnowsStays DEF OthersKeep
    <2> QED
      BY <2>1, <2>2
  <1>3. CASE UNCHANGED <<call, workerVars>>
    BY <1>1, <1>3, KnowsStays DEF workerVars
  <1> QED
    BY <1>2, <1>3 DEF Next, SetPause, OperatorDecides, OperatorReleases, Advance, vars,
                      ledgerVars, workerVars

\* A claim whose row, stage and invocations did not change stays consistent.
LEMMA ConsistentStays ==
    ASSUME IInv, CallsGrow, NEW c \in Claims, stage'[c] = stage[c],
           \/ row'[c] = row[c]
           \/ /\ row[c].status # "absent" /\ row'[c].status = row[c].status
              /\ row'[c].effect = row[c].effect /\ row'[c].result = row[c].result
    PROVE  InOrder(c)'
  <1>1. InOrder(c)
    BY DEF IInv, NoTrace, EvidenceOrder, InOrder
  <1>2. c # NoClaim
    BY Constants
  <1>3. stage[c] # NoToken => stage[c] \in Tokens
    BY Constants DEF IInv, TypeOK, Tokens, NoToken
  <1> QED
    BY <1>1, <1>2, <1>3 DEF InOrder, CallsGrow

\* Every action keeps the evidence of a claim consistent.
LEMMA ConsistentStep ==
    ASSUME IInv, [Next]_vars, CallsGrow, NEW c \in Claims
    PROVE  InOrder(c)'
  <1> USE Constants DEF Holding, AfterBegin
  <1>0. TypeOK /\ InOrder(c) /\ row[c] \in Rows
    BY DEF IInv, NoTrace, EvidenceOrder, InOrder, TypeOK
  <1>b. \A w \in Workers : Knows(w)
    BY DEF IInv, HolderKnows
  <1>1. CASE row' = row /\ stage' = stage
    BY <1>1, ConsistentStays
  <1>2. ASSUME NEW w \in Workers, ClaimStage(w) PROVE InOrder(c)'
    <2>1. PICK f \in scope[w] : Reclaim(w, f) \/ NewClaim(w, f)
      BY <1>2 DEF ClaimStage
    <2>2. stage' = stage /\ call' = call
      BY <1>2 DEF ClaimStage
    <2>3. CASE Reclaim(w, f)
      <3>1. PICK d \in Claims :
              /\ row[d].status = "claimed"
              /\ row' = [row EXCEPT ![d].owner = token[w], ![d].expires = now[w] + Lease]
        BY <2>3 DEF Reclaim, Oldest, ExpiredIn, Expired
      <3>2. /\ row'[c].status = row[c].status /\ row'[c].effect = row[c].effect
            /\ row'[c].result = row[c].result
            /\ c # d => row'[c] = row[c]
        BY <1>0, <3>1, OnlyLease DEF TypeOK
      <3> QED
        BY <2>2, <3>1, <3>2, ConsistentStays
    <2>4. CASE NewClaim(w, f)
      <3>1. PICK d \in Claims :
              /\ row[d].status = "absent"
              /\ row' = [row EXCEPT ![d] =
                   [status |-> "claimed", owner |-> token[w], expires |-> now[w] + Lease,
                    created |-> now[w], effect |-> "unstarted", result |-> NoToken]]
        BY <2>4 DEF NewClaim
      <3>2. CASE c = d
        <4>1. stage[c] = NoToken
          BY <1>0, <3>1, <3>2 DEF InOrder, NullRow
        <4>2. row'[c].status = "claimed" /\ row'[c].effect = "unstarted"
          BY <1>0, <3>1, <3>2 DEF TypeOK
        <4> QED
          BY <2>2, <4>1, <4>2 DEF InOrder
      <3>3. CASE c # d
        <4>1. row'[c] = row[c]
          BY <3>1, <3>3
        <4> QED
          BY <2>2, <4>1, ConsistentStays
      <3> QED
        BY <3>2, <3>3
    <2> QED
      BY <2>1, <2>3, <2>4
  <1>3. ASSUME NEW w \in Workers, Begin(w) PROVE InOrder(c)'
    <2>1. stage' = stage /\ call' = call
      BY <1>3 DEF Begin
    <2>2. CASE row'[c] = row[c]
      BY <2>1, <2>2, ConsistentStays
    <2>3. CASE row'[c] # row[c]
      <3>1. c = held[w] /\ ~Begun(c) /\ Owns(w, c) /\ row' = [row EXCEPT ![c].effect = "started"]
        BY <1>0, <1>3, <2>3 DEF Begin, TypeOK
      <3>2. row'[c] = [row[c] EXCEPT !.effect = "started"]
        BY <1>0, <3>1 DEF TypeOK
      <3>3. row'[c].effect = "started" /\ row'[c].status = "claimed"
        BY <1>0, <3>1, <3>2 DEF Rows, Owns
      <3> QED
        BY <1>0, <2>1, <3>1, <3>3 DEF InOrder
    <2> QED
      BY <2>2, <2>3
  <1>4. ASSUME NEW w \in Workers, Record(w) PROVE InOrder(c)'
    <2>1. row' = row /\ call' = call /\ held[w] \in Claims
      BY <1>4, <1>b DEF Record, Knows
    <2>2. CASE stage'[c] = stage[c]
      BY <2>1, <2>2, ConsistentStays
    <2>3. CASE stage'[c] # stage[c]
      <3>1. c = held[w] /\ stage[c] = NoToken /\ stage'[c] = result[w]
        BY <1>0, <1>4, <2>1, <2>3 DEF Record, TypeOK
      <3>2. /\ call[result[w]].claim = c /\ call[result[w]].status = "completed"
            /\ row[c].effect # "unstarted" /\ row[c].status # "absent"
        BY <1>4, <1>b, <3>1 DEF Record, Knows
      <3> QED
        BY <1>0, <2>1, <3>1, <3>2 DEF InOrder
    <2> QED
      BY <2>2, <2>3
  <1>5. ASSUME NEW w \in Workers, RunReplayable(w) PROVE InOrder(c)'
    <2>1. row' = row /\ call' = call
      BY <1>5 DEF RunReplayable
    <2>2. CASE stage'[c] = stage[c]
      BY <2>1, <2>2, ConsistentStays
    <2>3. CASE stage'[c] # stage[c]
      <3>1. c = held[w] /\ stage[c] = NoToken /\ c \notin Inference
        BY <1>0, <1>5, <2>3 DEF RunReplayable, TypeOK
      <3>2. row[c].effect # "unstarted" /\ row[c].status # "absent"
        BY <1>5, <1>b, <3>1 DEF RunReplayable, Knows
      <3> QED
        BY <1>0, <2>1, <3>1, <3>2 DEF InOrder
    <2> QED
      BY <2>2, <2>3
  <1>6. ASSUME NEW w \in Workers, CompleteEffect(w) PROVE InOrder(c)'
    <2>1. stage' = stage /\ call' = call
      BY <1>6 DEF CompleteEffect
    <2>2. CASE row'[c] = row[c]
      BY <2>1, <2>2, ConsistentStays
    <2>3. CASE row'[c] # row[c]
      <3>1. /\ c = held[w] /\ Owns(w, c) /\ result[w] = stage[c]
            /\ row' = [row EXCEPT ![c].effect = "done", ![c].result = result[w]]
        BY <1>0, <1>6, <2>3 DEF CompleteEffect, TypeOK
      <3>2. row'[c] = [row[c] EXCEPT !.effect = "done", !.result = result[w]]
        BY <1>0, <3>1 DEF TypeOK
      <3>3. row'[c].effect = "done" /\ row'[c].status = "claimed" /\ row'[c].result = stage[c]
        <4>1. row[c].status = "claimed"
          BY <3>1 DEF Owns
        <4>2. /\ row'[c].effect = "done" /\ row'[c].status = row[c].status
              /\ row'[c].result = result[w]
          BY <1>0, <3>2 DEF Rows
        <4> QED
          BY <3>1, <4>1, <4>2
      <3>4. stage[c] # NoToken
        BY <1>6, <1>b, <3>1 DEF CompleteEffect, Knows
      <3> QED
        BY <1>0, <2>1, <3>3, <3>4 DEF InOrder
    <2> QED
      BY <2>2, <2>3
  <1>7. ASSUME NEW w \in Workers, Finalize(w) PROVE InOrder(c)'
    <2>1. stage' = stage /\ call' = call
      BY <1>7 DEF Finalize
    <2>2. CASE row'[c] = row[c]
      BY <2>1, <2>2, ConsistentStays
    <2>3. CASE row'[c] # row[c]
      <3>1. /\ c = held[w] /\ row[c].effect = "done"
            /\ row' = [row EXCEPT ![c].status = "completed", ![c].owner = NoToken, ![c].expires = 0]
        BY <1>0, <1>7, <2>3 DEF Finalize, TypeOK
      <3>2. row'[c] = [row[c] EXCEPT !.status = "completed", !.owner = NoToken, !.expires = 0]
        BY <1>0, <3>1 DEF TypeOK
      <3>3. /\ row'[c].effect = row[c].effect /\ row'[c].result = row[c].result
            /\ row'[c].status = "completed"
        BY <1>0, <3>2 DEF Rows
      <3> QED
        BY <1>0, <2>1, <3>1, <3>3 DEF InOrder
    <2> QED
      BY <2>2, <2>3
  <1>8. CASE OperatorReleases
    <2>1. stage' = stage /\ call' = call
      BY <1>8 DEF OperatorReleases
    <2>2. CASE row'[c] = row[c]
      BY <2>1, <2>2, ConsistentStays
    <2>3. CASE row'[c] # row[c]
      <3>1. /\ c = operator.claim /\ row[c].status = "claimed"
            /\ row' = [row EXCEPT ![c].owner = NoToken, ![c].expires = operator.at - 1]
        BY <1>0, <1>8, <2>3 DEF OperatorReleases, TypeOK
      <3>2. /\ row'[c].status = row[c].status /\ row'[c].effect = row[c].effect
            /\ row'[c].result = row[c].result
        BY <1>0, <3>1, OnlyLease DEF TypeOK
      <3> QED
        BY <2>1, <3>1, <3>2, ConsistentStays
    <2> QED
      BY <2>2, <2>3
  <1>9. \/ row' = row /\ stage' = stage
        \/ OperatorReleases
        \/ \E w \in Workers : \/ ClaimStage(w) \/ Begin(w) \/ Record(w) \/ RunReplayable(w)
                               \/ CompleteEffect(w) \/ Finalize(w)
    BY DEF Next, Worker, ReadClock, ClaimTick, Reconcile, NoStage, Reread, CheckModel, Launch,
           FinishCall, Raise, ReleaseTick, Crash, SetPause, OperatorDecides, Advance, vars,
           ledgerVars
  <1> QED
    BY <1>1, <1>2, <1>3, <1>4, <1>5, <1>6, <1>7, <1>8, <1>9

\* Only a launch adds an invocation, and it adds one.
LEMMA LaunchOnly ==
    ASSUME IInv, [Next]_vars, CallsGrow, NEW t \in Tokens, call'[t].claim # call[t].claim
    PROVE  \E w \in Workers : Launch(w) /\ t = token[w] /\ call'[t].claim = held[w]
  <1> USE Constants
  <1>0. TypeOK /\ \A w \in Workers : Knows(w)
    BY DEF IInv, HolderKnows
  <1>1. PICK w \in Workers : Launch(w) \/ FinishCall(w)
    BY DEF Next, Worker, ReadClock, ClaimTick, Reconcile, ClaimStage, NoStage, Begin,
           Reread, CheckModel, Record, RunReplayable, CompleteEffect, Finalize, Raise,
           ReleaseTick, Crash, SetPause, OperatorDecides, OperatorReleases, Advance, vars,
           ledgerVars
  <1>2. CASE Launch(w)
    BY <1>0, <1>2 DEF Launch, TypeOK
  <1>3. CASE FinishCall(w)
    <2>1. t = token[w]
      BY <1>0, <1>3 DEF FinishCall, TypeOK
    <2>2. call[t].claim \in Claims
      BY <1>0, <1>3, <2>1 DEF FinishCall, Knows, Holding
    <2> QED
      BY <2>2 DEF CallsGrow
  <1> QED
    BY <1>1, <1>2, <1>3

\* Evidence stays ordered.
LEMMA EvidenceStep == IInv /\ [Next]_vars => NoTrace' /\ EvidenceOrder'
  <1> SUFFICES ASSUME IInv, [Next]_vars PROVE NoTrace' /\ EvidenceOrder'
    OBVIOUS
  <1> USE Constants
  <1>1. RowsGrow /\ CallsGrow
    BY RowsGrowStep, CallsGrowStep
  <1>2. \A c \in Claims : InOrder(c)'
    BY <1>1, ConsistentStep
  <1>3. ASSUME NEW t \in Tokens, call'[t].claim # NoClaim
        PROVE  row'[call'[t].claim].effect # "unstarted"
    <2>0. TypeOK /\ call[t].claim \in Claims \cup {NoClaim}
      BY DEF IInv, TypeOK, Calls
    <2>1. CASE call[t].claim # NoClaim
      <3>1. call[t].claim \in Claims /\ row[call[t].claim].effect # "unstarted"
        BY <2>0, <2>1 DEF IInv, EvidenceOrder
      <3> QED
        BY <1>1, <2>1, <3>1 DEF RowsGrow, CallsGrow
    <2>2. CASE call[t].claim = NoClaim
      <3>1. PICK w \in Workers : Launch(w) /\ call'[t].claim = held[w]
        BY <1>1, <1>3, <2>2, LaunchOnly
      <3>2. row' = row /\ Knows(w) /\ pc[w] = "launch"
        BY <3>1 DEF Launch, IInv, HolderKnows
      <3> QED
        BY <3>1, <3>2 DEF Knows, AfterBegin
    <2> QED
      BY <2>1, <2>2
  <1> QED
    BY <1>2, <1>3 DEF NoTrace, EvidenceOrder, InOrder

\* Two ticks inside their lease would both be the one in the lease table.
LEMMA Exclusion == IInv => TickExclusion
  <1> SUFFICES ASSUME IInv, NEW v \in Workers, NEW w \in Workers, LiveTick(v), LiveTick(w)
               PROVE  v = w
    BY DEF TickExclusion
  <1>1. token[v] = token[w]
    BY DEF IInv, TickHeld
  <1>2. token[v] # NoToken
    BY DEF IInv, FreshTokens, LiveTick, Working
  <1> QED
    BY <1>1, <1>2 DEF IInv, FreshTokens

\* Without overruns the processes past claim_scheduler_tick are one at most.
LEMMA Alone ==
    ASSUME IInv, ~overran,
           NEW v \in Workers, NEW w \in Workers, pc[v] \in Working, pc[w] \in Working
    PROVE  v = w
  <1>1. LiveTick(v) /\ LiveTick(w)
    BY DEF IInv, NoOverrun, LiveTick, Alive, Working
  <1> QED
    BY <1>1, Exclusion DEF TickExclusion

\* Only the tick's own step reads the clock, and it reads the current one.
LEMMA OwnClock ==
    ASSUME IInv, NEW w \in Workers, Worker(w)
    PROVE  /\ clock' = clock
           /\ pc'[w] # "idle" => \/ now'[w] = now[w] /\ pc[w] # "idle"
                                 \/ now'[w] = clock
  <1>1. TypeOK
    BY DEF IInv
  <1> QED
    BY <1>1 DEF TypeOK, Worker, ReadClock, ClaimTick, Reconcile, ClaimStage, NoStage, Begin,
         Reread, CheckModel, ReplayStage, Launch, FinishCall, Record, RunReplayable,
         CompleteEffect, Finalize, Raise, ReleaseTick, Crash, Goto, GoIdle, GoRelease, Working,
         Steps

\* Only its own check brings a process to a launch.
LEMMA LaunchStays ==
    ASSUME IInv, [Next]_vars, NEW u \in Workers, pc'[u] = "launch", ~CheckModel(u)
    PROVE  pc[u] = "launch" /\ held'[u] = held[u]
  <1>1. TypeOK
    BY DEF IInv
  <1>2. CASE \E w \in Workers \ {u} : Worker(w)
    BY <1>2, OthersStep DEF OthersKeep
  <1>3. CASE Worker(u)
    BY <1>1, <1>3 DEF TypeOK, Worker, ReadClock, ClaimTick, Reconcile, ClaimStage, NoStage,
         Begin, Reread, ReplayStage, Launch, FinishCall, Record, RunReplayable,
         CompleteEffect, Finalize, Raise, ReleaseTick, Crash, Goto, GoIdle, GoRelease
  <1>4. CASE UNCHANGED workerVars
    BY <1>4 DEF workerVars
  <1> QED
    BY <1>2, <1>3, <1>4 DEF Next, SetPause, OperatorDecides, OperatorReleases, Advance, vars,
                            workerVars

\* An overrun is never forgotten.
LEMMA OverranStays ==
    ASSUME [Next]_vars, overran
    PROVE  overran'
  BY DEF Next, Worker, ReadClock, ClaimTick, Reconcile, ClaimStage, NoStage, Begin, Reread,
         CheckModel, Launch, FinishCall, Record, RunReplayable, CompleteEffect, Finalize, Raise,
         ReleaseTick, Crash, SetPause, OperatorDecides, OperatorReleases, Advance, vars

\* Without overruns a launch finds no earlier invocation.
LEMMA OverrunStep == IInv /\ [Next]_vars => NoOverrun'
  <1> SUFFICES ASSUME IInv, [Next]_vars, ~overran'
               PROVE  /\ \A w \in Workers : Alive(w)' => clock' < now'[w] + Lease
                      /\ \A w \in Workers : pc'[w] = "launch" => CallsOf(held[w])' = {}
                      /\ SingleInference'
    BY DEF NoOverrun
  <1> USE Constants
  <1>o. ~overran
    BY OverranStays
  <1>0. /\ TypeOK /\ CallsGrow /\ SingleInference
        /\ \A w \in Workers : Knows(w)
        /\ \A w \in Workers : pc[w] = "launch" => CallsOf(held[w]) = {}
    BY <1>o, CallsGrowStep DEF IInv, HolderKnows, NoOverrun
  <1>1. ASSUME NEW u \in Workers, Alive(u)' PROVE clock' < now'[u] + Lease
    <2>1. Alive(u) => clock < now[u] + Lease
      BY <1>o DEF IInv, NoOverrun
    <2>2. ASSUME NEW w \in Workers, Worker(w) PROVE clock' < now'[u] + Lease
      <3>1. CASE u # w
        BY <1>1, <2>1, <2>2, <3>1, OthersStep, OwnClock DEF OthersKeep, Alive
      <3>2. CASE u = w
        BY <1>0, <1>1, <2>1, <2>2, <3>2, OwnClock DEF Alive, TypeOK
      <3> QED
        BY <3>1, <3>2
    <2>3. CASE Advance
      <3>1. clock' \in Nat /\ now[u] + Lease \in Nat
        BY <1>0, <2>3 DEF Advance, TypeOK
      <3>2. ~(Alive(u) /\ now[u] + Lease <= clock')
        BY <2>3 DEF Advance
      <3> QED
        BY <1>1, <2>3, <3>1, <3>2 DEF Advance, Alive, workerVars
    <2>4. CASE UNCHANGED <<timeVars, workerVars>>
      BY <1>1, <2>1, <2>4 DEF Alive, workerVars
    <2> QED
      BY <2>2, <2>3, <2>4 DEF Next, SetPause, OperatorDecides, OperatorReleases, vars,
                              workerVars
  <1>2. ASSUME NEW u \in Workers, pc'[u] = "launch", NEW t \in Tokens, call'[t].claim = held'[u]
        PROVE  FALSE
    <2>1. CASE CheckModel(u)
      <3>1. CallsOf(held[u]) = {} /\ call' = call /\ held'[u] = held[u]
        BY <1>0, <1>2, <2>1 DEF CheckModel, ReplayStage, GoRelease, Goto, ledgerVars, TypeOK
      <3> QED
        BY <1>2, <3>1 DEF CallsOf
    <2>2. CASE ~CheckModel(u)
      <3>1. pc[u] = "launch" /\ held'[u] = held[u]
        BY <1>0, <1>2, <2>2, LaunchStays
      <3>2. CallsOf(held[u]) = {}
        BY <1>0, <3>1
      <3>3. call[t].claim # held[u]
        BY <3>2 DEF CallsOf
      <3>4. PICK w \in Workers : Launch(w)
        BY <1>0, <1>2, <3>1, <3>3, LaunchOnly
      <3>5. u = w
        BY <1>o, <3>1, <3>4, Alone DEF Launch, Working, Steps
      <3> QED
        BY <1>0, <1>2, <3>4, <3>5 DEF Launch, Goto, TypeOK
    <2> QED
      BY <2>1, <2>2
  <1>3. ASSUME NEW t \in Tokens, NEW u \in Tokens, call'[t].claim # NoClaim,
               call'[t].claim = call'[u].claim
        PROVE  t = u
    <2>1. CASE call'[t].claim = call[t].claim /\ call'[u].claim = call[u].claim
      BY <1>0, <1>3, <2>1 DEF SingleInference
    <2>2. ASSUME NEW r \in Tokens, NEW q \in Tokens, call'[r].claim # call[r].claim,
                 call'[r].claim = call'[q].claim, call'[r].claim # NoClaim
          PROVE  r = q
      <3>1. PICK w \in Workers : Launch(w) /\ r = token[w] /\ call'[r].claim = held[w]
        BY <1>0, <2>2, LaunchOnly
      <3>2. CallsOf(held[w]) = {}
        BY <1>0, <3>1 DEF Launch
      <3>3. call[q].claim # held[w]
        BY <3>2 DEF CallsOf
      <3> QED
        BY <1>0, <2>2, <3>1, <3>3 DEF Launch, TypeOK
    <2> QED
      BY <1>3, <2>1, <2>2
  <1> QED
    BY <1>1, <1>2, <1>3 DEF SingleInference, CallsOf

\* Every reachable state satisfies the invariant.
LEMMA Invariant == Spec => []IInv
  <1>1. IInv /\ [Next]_vars => IInv'
    BY TypeStep, StaleStep, FreshStep, TickHeldStep, HolderStep, EvidenceStep, OverrunStep
       DEF IInv
  <1> QED
    BY InitInvariant, <1>1, PTL DEF Spec

----------------------------------------------------------------------------
(* What a step does to one claim row.                                      *)

Inserts(c) ==
    /\ row[c].status = "absent" /\ row'[c].status = "claimed"
    /\ row'[c].effect = "unstarted" /\ row'[c].result = NoToken
Progress(c) ==
    /\ row[c].status = "claimed"
    /\ row'[c].effect = row[c].effect /\ row'[c].result = row[c].result
Takes(c) == Progress(c) /\ row'[c].status = "claimed" /\ row[c].expires <= clock
Frees(c) == Progress(c) /\ row'[c].status = "claimed" /\ row'[c].owner = NoToken
Ends(c) ==
    /\ Progress(c) /\ row'[c].status = "completed" /\ row'[c].owner = NoToken
    /\ row[c].effect = "done"
Starts(c) ==
    /\ row[c].status = "claimed" /\ row'[c].status = "claimed" /\ row'[c].owner = row[c].owner
    /\ row[c].effect = "unstarted" /\ row'[c].effect = "started"
    /\ row'[c].result = row[c].result
Adopts(c) ==
    /\ row[c].status = "claimed" /\ row'[c].status = "claimed" /\ row'[c].owner = row[c].owner
    /\ row[c].effect = "started" /\ row'[c].effect = "done"
    /\ row'[c].result = stage[c] /\ stage[c] # NoToken

\* The six things a step may do to a claim row.
LEMMA RowSteps ==
    ASSUME IInv, [Next]_vars, NEW c \in Claims, row'[c] # row[c]
    PROVE  Inserts(c) \/ Takes(c) \/ Frees(c) \/ Ends(c) \/ Starts(c) \/ Adopts(c)
  <1>0. TypeOK /\ row[c] \in Rows
    BY DEF IInv, TypeOK
  <1>1. ASSUME NEW w \in Workers, ClaimStage(w) PROVE Takes(c) \/ Inserts(c)
    <2>1. PICK f \in scope[w] : Reclaim(w, f) \/ NewClaim(w, f)
      BY <1>1 DEF ClaimStage
    <2>2. CASE Reclaim(w, f)
      <3>1. PICK d \in Claims :
              /\ row[d].status = "claimed" /\ row[d].expires <= now[w]
              /\ row' = [row EXCEPT ![d].owner = token[w], ![d].expires = now[w] + Lease]
        BY <2>2 DEF Reclaim, Oldest, ExpiredIn, Expired
      <3>2. d = c
        BY <1>0, <3>1 DEF TypeOK
      <3>3. row[c].expires <= clock
        BY <1>0, <3>1, <3>2, Constants DEF IInv, StaleReadings, TypeOK, Rows
      <3>4. /\ row'[c].status = row[c].status
            /\ row'[c].effect = row[c].effect /\ row'[c].result = row[c].result
        BY <1>0, <3>1, OnlyLease DEF TypeOK
      <3> QED
        BY <3>1, <3>2, <3>3, <3>4 DEF Takes, Progress
    <2>3. CASE NewClaim(w, f)
      <3>1. PICK d \in Claims :
              /\ row[d].status = "absent"
              /\ row' = [row EXCEPT ![d] =
                   [status |-> "claimed", owner |-> token[w], expires |-> now[w] + Lease,
                    created |-> now[w], effect |-> "unstarted", result |-> NoToken]]
        BY <2>3 DEF NewClaim
      <3> QED
        BY <1>0, <3>1 DEF TypeOK, Inserts
    <2> QED
      BY <2>1, <2>2, <2>3
  <1>2. ASSUME NEW w \in Workers, Begin(w) PROVE Starts(c)
    <2>1. c = held[w] /\ ~Begun(c) /\ Owns(w, c) /\ row' = [row EXCEPT ![c].effect = "started"]
      BY <1>0, <1>2 DEF Begin, TypeOK
    <2>2. row'[c] = [row[c] EXCEPT !.effect = "started"]
      BY <1>0, <2>1 DEF TypeOK
    <2>3. row[c].status = "claimed" /\ row[c].effect = "unstarted"
      BY <2>1 DEF Owns, Begun
    <2> QED
      BY <1>0, <2>2, <2>3 DEF Rows, Starts
  <1>3. ASSUME NEW w \in Workers, CompleteEffect(w) PROVE Adopts(c)
    <2>1. /\ c = held[w] /\ row[c].effect = "started" /\ Owns(w, c) /\ result[w] = stage[c]
          /\ row' = [row EXCEPT ![c].effect = "done", ![c].result = result[w]]
      BY <1>0, <1>3 DEF CompleteEffect, TypeOK
    <2>2. row'[c] = [row[c] EXCEPT !.effect = "done", !.result = result[w]]
      BY <1>0, <2>1 DEF TypeOK
    <2>3. /\ row'[c].effect = "done" /\ row'[c].status = row[c].status
          /\ row'[c].result = result[w] /\ row'[c].owner = row[c].owner
      BY <1>0, <2>2 DEF Rows
    <2>4. stage[c] # NoToken
      BY <1>3, <2>1 DEF IInv, HolderKnows, Knows, CompleteEffect
    <2> QED
      BY <2>1, <2>3, <2>4 DEF Owns, Adopts
  <1>4. ASSUME NEW w \in Workers, Finalize(w) PROVE Ends(c)
    <2>1. /\ c = held[w] /\ Owns(w, c) /\ row[c].effect = "done"
          /\ row' = [row EXCEPT ![c].status = "completed", ![c].owner = NoToken, ![c].expires = 0]
      BY <1>0, <1>4 DEF Finalize, TypeOK
    <2>2. row'[c] = [row[c] EXCEPT !.status = "completed", !.owner = NoToken, !.expires = 0]
      BY <1>0, <2>1 DEF TypeOK
    <2>3. /\ row'[c].effect = row[c].effect /\ row'[c].status = "completed"
          /\ row'[c].result = row[c].result /\ row'[c].owner = NoToken
      BY <1>0, <2>2 DEF Rows
    <2> QED
      BY <2>1, <2>3 DEF Owns, Ends, Progress
  <1>5. CASE OperatorReleases
    <2>1. /\ c = operator.claim /\ row[c].status = "claimed"
          /\ row' = [row EXCEPT ![c].owner = NoToken, ![c].expires = operator.at - 1]
      BY <1>0, <1>5 DEF OperatorReleases, TypeOK
    <2>2. /\ row'[c].status = row[c].status /\ row'[c].effect = row[c].effect
          /\ row'[c].result = row[c].result
      BY <1>0, <2>1, OnlyLease DEF TypeOK
    <2>3. row'[c].owner = NoToken
      BY <1>0, <2>1 DEF TypeOK, Rows
    <2> QED
      BY <2>1, <2>2, <2>3 DEF Frees, Progress
  <1>6. \/ OperatorReleases
        \/ \E w \in Workers : ClaimStage(w) \/ Begin(w) \/ CompleteEffect(w) \/ Finalize(w)
    BY DEF Next, Worker, ReadClock, ClaimTick, Reconcile, NoStage, Reread, CheckModel, Launch,
           FinishCall, Record, RunReplayable, Raise, ReleaseTick, Crash, SetPause,
           OperatorDecides, Advance, vars, ledgerVars
  <1> QED
    BY <1>1, <1>2, <1>3, <1>4, <1>5, <1>6

\* How the model stage of one claim changes: only once, while its effect runs.
LEMMA StageSteps ==
    ASSUME IInv, [Next]_vars, NEW c \in Claims, stage'[c] # stage[c]
    PROVE  /\ row' = row /\ PhaseOf(c) = "started"
           /\ stage[c] = NoToken /\ stage'[c] \in Tokens
           /\ \A d \in Claims \ {c} : stage'[d] = stage[d]
  <1>0. TypeOK /\ InOrder(c) /\ \A w \in Workers : Knows(w)
    BY DEF IInv, NoTrace, EvidenceOrder, InOrder, HolderKnows
  <1>1. TypeOK'
    BY TypeStep
  <1>2. PICK w \in Workers : Record(w) \/ RunReplayable(w)
    BY DEF Next, Worker, ReadClock, ClaimTick, Reconcile, ClaimStage, NoStage, Begin, Reread,
           CheckModel, Launch, FinishCall, CompleteEffect, Finalize, Raise, ReleaseTick, Crash,
           SetPause, OperatorDecides, OperatorReleases, Advance, vars, ledgerVars
  <1>3. /\ c = held[w] /\ row' = row /\ stage[c] = NoToken
        /\ \A d \in Claims \ {c} : stage'[d] = stage[d]
    BY <1>0, <1>2 DEF Record, RunReplayable, TypeOK
  <1>4. stage'[c] # NoToken
    BY <1>3
  <1>5. stage'[c] \in Tokens
    BY <1>1, <1>4, Constants DEF TypeOK, Tokens, NoToken
  <1>6. row[c].status # "absent" /\ row[c].effect # "unstarted"
    <2>1. CASE Record(w)
      BY <1>0, <1>3, <2>1 DEF Record, Knows, Holding, AfterBegin
    <2>2. CASE RunReplayable(w)
      BY <1>0, <1>3, <2>2 DEF RunReplayable, Knows, Holding, AfterBegin
    <2> QED
      BY <1>2, <2>1, <2>2
  <1>7. row[c] \in Rows
    BY <1>0 DEF TypeOK
  <1>8. row[c].effect = "started" /\ row[c].status = "claimed"
    BY <1>0, <1>3, <1>6, <1>7 DEF InOrder, Rows, Effects, Statuses
  <1> QED
    BY <1>3, <1>5, <1>8 DEF PhaseOf

----------------------------------------------------------------------------
(* The theorems.                                                           *)

\* Every reachable state has the types the ledger's columns and the locals of
\* process_next have.
THEOREM TypeCorrect == Spec => []TypeOK
  BY Invariant, PTL DEF IInv

\* claim_scheduler_tick and release_scheduler_tick keep at most one process in
\* a tick whose lease still runs, for any number of processes and any lease.
THEOREM TicksExclude == Spec => []TickExclusion
  BY Invariant, Exclusion, PTL

\* Evidence is durable in the order recovery reads it, whatever crashes,
\* expires or is released by the operator.
THEOREM EvidenceOrdered == Spec => []EvidenceOrder
  BY Invariant, PTL DEF IInv

\* Types and order of evidence together, as the run checks them.
THEOREM Consistency == Spec => []Consistent
  <1>1. TypeOK /\ EvidenceOrder => Consistent
    BY DEF Consistent
  <1> QED
    BY <1>1, TypeCorrect, EvidenceOrdered, PTL

\* As long as no tick outlasted its lease, a claim gets at most one model
\* invocation, whatever crashes, takeovers and operator releases happen.
THEOREM InferenceOnce == Spec => []SingleUntilOverrun
  <1>1. IInv => SingleUntilOverrun
    BY DEF IInv, NoOverrun, SingleUntilOverrun
  <1> QED
    BY Invariant, <1>1, PTL

\* claim_next_scheduler_* takes a claim from another owner only after the
\* owner's lease ran out on the real clock.
THEOREM TakeoversWait == Spec => TakeoverAfterExpiry
  <1>1. IInv /\ [Next]_vars =>
          [\A c \in Claims :
             /\ row[c].status = "claimed"
             /\ row'[c].owner \notin {row[c].owner, NoToken}
             => row[c].expires <= clock]_vars
    BY RowSteps DEF Inserts, Takes, Frees, Ends, Starts, Adopts
  <1> QED
    BY Invariant, <1>1, PTL DEF Spec, TakeoverAfterExpiry

\* complete_scheduler_claim is final: neither the row nor the stage result it
\* stands for changes afterwards.
THEOREM FinalStays == Spec => FinalIsForever
  <1>1. IInv /\ [Next]_vars =>
          [\A c \in Claims : row[c].status = "completed" =>
             row'[c] = row[c] /\ stage'[c] = stage[c]]_vars
    <2> SUFFICES ASSUME IInv, [Next]_vars, NEW c \in Claims, row[c].status = "completed"
                 PROVE  row'[c] = row[c] /\ stage'[c] = stage[c]
      OBVIOUS
    <2>1. row'[c] = row[c]
      BY RowSteps DEF Inserts, Takes, Frees, Ends, Starts, Adopts, Progress
    <2>2. stage'[c] = stage[c]
      BY StageSteps DEF PhaseOf
    <2> QED
      BY <2>1, <2>2
  <1> QED
    BY Invariant, <1>1, PTL DEF Spec, FinalIsForever

\* A step that changes the row of a claim changes no stage and no other row.
LEMMA OneRow ==
    ASSUME IInv, [Next]_vars, NEW c \in Claims, row'[c] # row[c]
    PROVE  stage' = stage /\ \A d \in Claims \ {c} : row'[d] = row[d]
  <1>0. TypeOK
    BY DEF IInv
  <1>1. ASSUME NEW w \in Workers, ClaimStage(w)
        PROVE  stage' = stage /\ \A d \in Claims \ {c} : row'[d] = row[d]
    <2>1. PICK f \in scope[w] : Reclaim(w, f) \/ NewClaim(w, f)
      BY <1>1 DEF ClaimStage
    <2>2. \E d : \A b \in Claims \ {d} : row'[b] = row[b]
      BY <1>0, <2>1 DEF Reclaim, NewClaim, TypeOK
    <2> QED
      BY <1>1, <2>2 DEF ClaimStage
  <1>2. ASSUME NEW w \in Workers, Begin(w) \/ CompleteEffect(w) \/ Finalize(w)
        PROVE  stage' = stage /\ \A d \in Claims \ {c} : row'[d] = row[d]
    BY <1>0, <1>2 DEF Begin, CompleteEffect, Finalize, TypeOK
  <1>3. CASE OperatorReleases
    BY <1>0, <1>3 DEF OperatorReleases, TypeOK
  <1>4. \/ OperatorReleases
        \/ \E w \in Workers : ClaimStage(w) \/ Begin(w) \/ CompleteEffect(w) \/ Finalize(w)
    BY DEF Next, Worker, ReadClock, ClaimTick, Reconcile, NoStage, Reread, CheckModel, Launch,
           FinishCall, Record, RunReplayable, Raise, ReleaseTick, Crash, SetPause,
           OperatorDecides, Advance, vars, ledgerVars
  <1> QED
    BY <1>1, <1>2, <1>3, <1>4

phases == [c \in Claims |-> PhaseOf(c)]
outcomes == [c \in Claims |-> row[c].result]

\* Every step maps to a step of StageEffect or to a stutter.
LEMMA StepRefines == IInv /\ [Next]_vars => [Effect!Next]_(Effect!svars)
  <1> SUFFICES ASSUME IInv, [Next]_vars PROVE Effect!Next \/ UNCHANGED <<phases, stage, outcomes>>
    BY DEF Effect!svars, phases, outcomes
  <1>0. TypeOK /\ TypeOK' /\ \A c \in Claims : row[c] \in Rows
    BY TypeStep DEF IInv, TypeOK
  <1>1. CASE row' = row /\ stage' = stage
    BY <1>1 DEF phases, outcomes, PhaseOf
  <1>2. ASSUME NEW c \in Claims, stage'[c] # stage[c] PROVE Effect!Next
    <2>1. /\ row' = row /\ PhaseOf(c) = "started" /\ stage[c] = NoToken /\ stage'[c] \in Tokens
          /\ \A d \in Claims \ {c} : stage'[d] = stage[d]
      BY <1>2, StageSteps
    <2>2. phases' = phases /\ outcomes' = outcomes
      BY <2>1 DEF phases, outcomes, PhaseOf
    <2>3. stage' = [stage EXCEPT ![c] = stage'[c]]
      BY <1>0, <2>1 DEF TypeOK
    <2>4. Effect!Leave(c)
      BY <2>1, <2>2, <2>3 DEF Effect!Leave, phases, outcomes
    <2> QED
      BY <2>4 DEF Effect!Next
  <1>3. ASSUME NEW c \in Claims, row'[c] # row[c]
        PROVE  Effect!Next \/ UNCHANGED <<phases, stage, outcomes>>
    <2>1. stage' = stage /\ \A d \in Claims \ {c} : row'[d] = row[d]
      BY <1>3, OneRow
    <2>2. /\ phases' = [phases EXCEPT ![c] = PhaseOf(c)']
          /\ outcomes' = [outcomes EXCEPT ![c] = row'[c].result]
      BY <2>1 DEF phases, outcomes, PhaseOf
    <2>3. CASE Inserts(c)
      <3>1. row[c] = NullRow
        BY <2>3 DEF Inserts, IInv, NoTrace
      <3>2. /\ PhaseOf(c) = "absent" /\ PhaseOf(c)' = "claimed"
            /\ row'[c].result = row[c].result
        BY <2>3, <3>1 DEF Inserts, PhaseOf, NullRow
      <3>3. Effect!Claim(c)
        BY <2>1, <2>2, <3>2 DEF Effect!Claim, Effect!Move, phases, outcomes
      <3> QED
        BY <3>3 DEF Effect!Next
    <2>4. CASE Takes(c) \/ Frees(c)
      BY <2>1, <2>2, <2>4 DEF Takes, Frees, Progress, PhaseOf, phases, outcomes
    <2>5. CASE Ends(c)
      <3>1. /\ PhaseOf(c) = "done" /\ PhaseOf(c)' = "completed"
            /\ row'[c].result = row[c].result
        BY <2>5 DEF Ends, Progress, PhaseOf
      <3>2. Effect!Complete(c)
        BY <2>1, <2>2, <3>1 DEF Effect!Complete, Effect!Move, phases, outcomes
      <3> QED
        BY <3>2 DEF Effect!Next
    <2>6. CASE Starts(c)
      <3>1. /\ PhaseOf(c) = "claimed" /\ PhaseOf(c)' = "started"
            /\ row'[c].result = row[c].result
        BY <2>6 DEF Starts, PhaseOf
      <3>2. Effect!Start(c)
        BY <2>1, <2>2, <3>1 DEF Effect!Start, Effect!Move, phases, outcomes
      <3> QED
        BY <3>2 DEF Effect!Next
    <2>7. CASE Adopts(c)
      <3>1. /\ PhaseOf(c) = "started" /\ PhaseOf(c)' = "done"
            /\ row'[c].result = stage[c] /\ stage[c] # NoToken
        BY <2>7 DEF Adopts, PhaseOf
      <3>2. Effect!Adopt(c)
        BY <2>1, <2>2, <3>1 DEF Effect!Adopt, Effect!Move, phases, outcomes
      <3> QED
        BY <3>2 DEF Effect!Next
    <2> QED
      BY <1>3, <2>3, <2>4, <2>5, <2>6, <2>7, RowSteps
  <1>4. \/ row' = row /\ stage' = stage
        \/ \E c \in Claims : stage'[c] # stage[c] \/ row'[c] # row[c]
    BY <1>0 DEF TypeOK
  <1> QED
    BY <1>1, <1>2, <1>3, <1>4

\* The scheduler's durable claims, with their leases, crashes, takeovers and
\* operator releases, implement StageEffect: one start, one piece of evidence
\* and one outcome for each stage.
THEOREM Refines == Spec => ImplementsStageEffect
  <1>1. Init => Effect!Init
    BY DEF Init, Effect!Init, PhaseOf, NullRow
  <1> QED
    BY Invariant, StepRefines, <1>1, PTL DEF Spec, ImplementsStageEffect, Effect!Spec
=============================================================================
