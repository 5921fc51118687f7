----------------------- MODULE CommentDelivery_proofs -----------------------
(* What the comment outbox keeps true for any number of workers, comments  *)
(* and attempts.                                                           *)
EXTENDS CommentDelivery, TLAPS

USE DEF timeVars

\* The steps of a worker that has claimed a comment.
Holding(w) == pc[w] \in {"resolve", "lookup", "post", "mark"}

\* A clock reading may be old, never ahead of the clock.
Readings == \A w \in Workers : now[w] <= clock

\* A worker holds a comment under an attempt of its own, and as long as the row
\* shows that attempt its lease is the one the worker was given.
HolderKnows ==
    \A w \in Workers :
        /\ ~Holding(w) => held[w] = NoComment
        /\ Holding(w) =>
            /\ held[w] \in Comments
            /\ attempt[w] <= row[held[w]].attempts
            /\ row[held[w]].status = "delivering" /\ row[held[w]].attempts = attempt[w]
                 => row[held[w]].expires = now[w] + Lease

\* Attempts tell the holders of a comment apart.
OneHolder ==
    \A v, w \in Workers :
        Holding(v) /\ Holding(w) /\ held[v] = held[w] /\ attempt[v] = attempt[w] => v = w

\* A worker that is about to record a delivery has seen it.
MarkKnows ==
    \A w \in Workers : pc[w] = "mark" =>
        /\ outcome[w] # "none"
        /\ outcome[w] = "delivered" => posted[held[w]] > 0

IInv == TypeOK /\ Readings /\ HolderKnows /\ OneHolder /\ MarkKnows /\ DeliveredIsPosted

\* Without overruns one worker is alive, and its comment is its own.
Alone ==
    /\ \A v, w \in Workers : Alive(v) /\ Alive(w) => v = w
    /\ \A w \in Workers : Alive(w) => clock < now[w] + Lease
    /\ \A w \in Workers : Holding(w) =>
        row[held[w]].status = "delivering" /\ row[held[w]].attempts = attempt[w]

\* A client left running posts a comment nobody else may touch yet.
OrphanAlone ==
    \A c \in Comments : \A e \in orphan[c] :
        /\ clock < e
        /\ row[c].status = "delivering" /\ row[c].expires = e
        /\ posted[c] = 0
        /\ \A w \in Workers : held[w] # c

\* The marker was missing, and still is.
PostFirst == \A w \in Workers : pc[w] = "post" => posted[held[w]] = 0

\* The board shows a comment once.
Single == \A c \in Comments : posted[c] <= 1

NInv == Alone /\ OrphanAlone /\ PostFirst /\ Single

----------------------------------------------------------------------------
\* What the steps of a worker do to the rows: Recover frees lapsed rows, ...
LEMMA RecoverRows ==
  ASSUME TypeOK, NEW w \in Workers, Recover(w)
  PROVE  /\ row' \in [Comments -> Rows]
         /\ \A c \in Comments :
              IF Lapsed(c, now[w])
              THEN row'[c].status = "retryable" /\ row'[c].attempts = row[c].attempts
                   /\ row'[c].expires = 0 /\ row'[c].next = now[w]
              ELSE row'[c] = row[c]
<1>1. \A c \in Comments : row'[c] \in Rows
  BY DEF TypeOK, Recover, Rows, Statuses
<1>2. row' \in [Comments -> Rows]
  BY <1>1 DEF Recover
<1>3. ASSUME NEW c \in Comments, Lapsed(c, now[w])
      PROVE  row'[c].status = "retryable" /\ row'[c].attempts = row[c].attempts
             /\ row'[c].expires = 0 /\ row'[c].next = now[w]
  <2>1. row'[c] = [row[c] EXCEPT !.status = "retryable", !.expires = 0, !.next = now[w]]
    BY <1>3 DEF Recover
  <2> QED
    BY <2>1 DEF TypeOK, Rows
<1>4. ASSUME NEW c \in Comments, ~Lapsed(c, now[w]) PROVE row'[c] = row[c]
  BY <1>4 DEF Recover
<1> QED
  BY <1>2, <1>3, <1>4

\* ... a claim starts the next attempt of one due row, ...
ClaimedTo(w, c) ==
    /\ row[c].status \in {"pending", "retryable"} /\ row[c].next <= now[w]
    /\ row' \in [Comments -> Rows]
    /\ \A d \in Comments \ {c} : row'[d] = row[d]
    /\ row'[c].status = "delivering"
    /\ row'[c].attempts = row[c].attempts + 1
    /\ row'[c].expires = now[w] + Lease
    /\ held' = [held EXCEPT ![w] = c]
    /\ attempt' = [attempt EXCEPT ![w] = row[c].attempts + 1]
    /\ pc' = [pc EXCEPT ![w] = "resolve"]
    /\ UNCHANGED <<now, outcome, delay>>

LEMMA ClaimRows ==
  ASSUME TypeOK, NEW w \in Workers, Claim(w)
  PROVE  \/ row' = row /\ GoIdle(w)
         \/ \E c \in Comments : ClaimedTo(w, c)
<1>1. CASE Due(now[w]) = {} /\ GoIdle(w) /\ row' = row
  BY <1>1
<1>2. ASSUME NEW c \in Due(now[w]),
             row' = [row EXCEPT ![c] =
                    [status |-> "delivering", attempts |-> @.attempts + 1,
                     expires |-> now[w] + Lease, next |-> @.next]],
             held' = [held EXCEPT ![w] = c],
             attempt' = [attempt EXCEPT ![w] = row[c].attempts + 1],
             Goto(w, "resolve"), UNCHANGED <<now, outcome, delay>>
      PROVE  ClaimedTo(w, c) /\ c \in Comments
  <2> DEFINE r == [status |-> "delivering", attempts |-> row[c].attempts + 1,
                   expires |-> now[w] + Lease, next |-> row[c].next]
  <2>1. c \in Comments /\ row[c].status \in {"pending", "retryable"} /\ row[c].next <= now[w]
    BY <1>2 DEF Due
  <2>2. row' = [row EXCEPT ![c] = r]
    BY <1>2
  <2>3. /\ r \in Rows /\ r.status = "delivering" /\ r.attempts = row[c].attempts + 1
        /\ r.expires = now[w] + Lease
    BY <2>1, PolicyAssumption DEF TypeOK, Rows, Statuses
  <2> HIDE DEF r
  <2>4. row' \in [Comments -> Rows] /\ row'[c] = r /\ \A d \in Comments \ {c} : row'[d] = row[d]
    BY <2>1, <2>2, <2>3 DEF TypeOK
  <2> QED
    BY <1>2, <2>1, <2>3, <2>4 DEF ClaimedTo, Goto
<1> QED
  BY <1>1, <1>2 DEF Claim

\* ... Mark settles the row of an owner and of nobody else, ...
LEMMA MarkRows ==
  ASSUME IInv, NEW w \in Workers, Mark(w)
  PROVE  /\ row' \in [Comments -> Rows]
         /\ held[w] \in Comments
         /\ \A d \in Comments \ {held[w]} : row'[d] = row[d]
         /\ row'[held[w]].attempts = row[held[w]].attempts
         /\ IF Owns(w) THEN row'[held[w]].status = outcome[w] ELSE row'[held[w]] = row[held[w]]
<1> DEFINE c == held[w]
           n == IF outcome[w] = "retryable" THEN now[w] + delay[w] ELSE 0
           r == [row[c] EXCEPT !.status = outcome[w], !.expires = 0, !.next = n]
<1>1. c \in Comments /\ outcome[w] \in Outcomes \ {"none"}
  BY DEF IInv, TypeOK, Mark, HolderKnows, Holding, MarkKnows
<1>2. CASE ~Owns(w)
  BY <1>1, <1>2 DEF Mark, IInv, TypeOK
<1>3. CASE Owns(w)
  <2>1. row' = [row EXCEPT ![c] = r]
    BY <1>3 DEF Mark
  <2>2. r \in Rows /\ r.status = outcome[w] /\ r.attempts = row[c].attempts
    <3>1. n \in Nat
      BY DEF IInv, TypeOK
    <3> HIDE DEF n
    <3>2. row[c] \in Rows
      BY <1>1 DEF IInv, TypeOK
    <3> QED
      BY <1>1, <3>1, <3>2 DEF Rows, Statuses, Outcomes
  <2> HIDE DEF r
  <2> QED
    BY <1>1, <1>3, <2>1, <2>2 DEF IInv, TypeOK
<1> QED
  BY <1>2, <1>3

\* ... and a new comment is pending.
LEMMA EnqueueRows ==
  ASSUME TypeOK, NEW c \in Comments, Enqueue(c)
  PROVE  /\ row' \in [Comments -> Rows]
         /\ \A d \in Comments \ {c} : row'[d] = row[d]
         /\ row[c].status = "absent" /\ row'[c].status = "pending"
         /\ row'[c].attempts = row[c].attempts /\ row'[c].expires = row[c].expires
<1> DEFINE r == [row[c] EXCEPT !.status = "pending"]
<1>1. row' = [row EXCEPT ![c] = r]
  BY DEF Enqueue
<1>2. r \in Rows /\ r.status = "pending" /\ r.attempts = row[c].attempts /\ r.expires = row[c].expires
  BY DEF TypeOK, Rows, Statuses
<1> HIDE DEF r
<1> QED
  BY <1>1, <1>2 DEF TypeOK, Enqueue

\* The delay of a retry is a number, whatever the power of two.
LEMMA DelayInNat ==
  ASSUME NEW n
  PROVE  Backoff(n) \in Nat
BY PolicyAssumption DEF Backoff

----------------------------------------------------------------------------
LEMMA InitFacts ==
  ASSUME Init
  PROVE  IInv /\ NInv
<1>1. NullRow \in Rows
  BY DEF NullRow, Rows, Statuses
<1>2. TypeOK
  BY <1>1 DEF Init, TypeOK, Steps, Outcomes
<1>3. Readings /\ HolderKnows /\ OneHolder /\ MarkKnows /\ DeliveredIsPosted
  BY <1>1 DEF Init, Readings, HolderKnows, OneHolder, MarkKnows, DeliveredIsPosted, Holding, NullRow
<1>4. NInv
  BY DEF Init, NInv, Alone, OrphanAlone, PostFirst, Single, Holding, Alive
<1> QED
  BY <1>2, <1>3, <1>4 DEF IInv

\* A worker that goes idle keeps nothing.
LEMMA IdleFacts ==
  ASSUME TypeOK, NEW w \in Workers, GoIdle(w)
  PROVE  /\ pc' \in [Workers -> Steps] /\ now' \in [Workers -> Nat]
         /\ held' \in [Workers -> Comments \cup {NoComment}]
         /\ attempt' \in [Workers -> Nat] /\ outcome' \in [Workers -> Outcomes]
         /\ delay' \in [Workers -> Nat]
         /\ pc'[w] = "idle" /\ now'[w] = 0 /\ held'[w] = NoComment
         /\ \A v \in Workers \ {w} :
              /\ pc'[v] = pc[v] /\ now'[v] = now[v] /\ held'[v] = held[v]
              /\ attempt'[v] = attempt[v] /\ outcome'[v] = outcome[v]
BY DEF TypeOK, GoIdle, Goto, Steps, Outcomes

\* A decision is one of the three, with a delay.
Decided(w, S) ==
    \E what \in S, wait \in Nat : Decide(w, what, wait)

LEMMA PostFailedFacts ==
  ASSUME TypeOK, NEW w \in Workers, PostFailed(w)
  PROVE  Decided(w, {"retryable", "permanently_failed"})
BY DelayInNat, PolicyAssumption DEF PostFailed, Decided

\* A decision for w and nothing else, given what makes a delivery true.
LEMMA DecideKeeps ==
  ASSUME IInv, NEW w \in Workers, Holding(w),
         NEW S \in SUBSET (Outcomes \ {"none"}), Decided(w, S),
         "delivered" \in S => posted'[held[w]] > 0,
         posted' \in [Comments -> Nat], \A c \in Comments : posted'[c] >= posted[c],
         UNCHANGED <<timeVars, row, orphan, now, held, attempt>>
  PROVE  IInv'
<1> PICK what \in S, wait \in Nat : Decide(w, what, wait)
  BY DEF Decided
<1> USE DEF IInv
<1>1. /\ pc' = [pc EXCEPT ![w] = "mark"]
      /\ outcome' = [outcome EXCEPT ![w] = what]
      /\ delay' = [delay EXCEPT ![w] = wait]
      /\ what \in Outcomes \ {"none"}
  BY DEF Decide, Goto
<1>2. TypeOK'
  BY <1>1 DEF TypeOK, Steps
<1>3. pc'[w] = "mark" /\ outcome'[w] = what
      /\ \A v \in Workers \ {w} : pc'[v] = pc[v] /\ outcome'[v] = outcome[v]
  BY <1>1 DEF TypeOK
<1>4. Readings'
  BY DEF Readings
<1>5. \A v \in Workers : Holding(v)' <=> Holding(v)
  BY <1>3 DEF Holding
<1>6. HolderKnows' /\ OneHolder'
  BY <1>5 DEF HolderKnows, OneHolder
<1>7. MarkKnows'
  <2>1. \A v \in Workers : pc[v] = "mark" => held[v] \in Comments
    BY DEF HolderKnows, Holding
  <2> QED
    BY <1>3, <2>1 DEF MarkKnows, TypeOK
<1>8. DeliveredIsPosted'
  BY DEF DeliveredIsPosted, TypeOK
<1> QED
  BY <1>2, <1>4, <1>6, <1>7, <1>8

\* A worker goes idle and no row or post changes.
LEMMA IdleKeeps ==
  ASSUME IInv, NEW w \in Workers, GoIdle(w), orphan' \in [Comments -> SUBSET Nat],
         UNCHANGED <<timeVars, row, posted>>
  PROVE  IInv'
<1> USE DEF IInv
<1>1. TypeOK'
  BY IdleFacts DEF TypeOK
<1>2. Readings'
  BY IdleFacts DEF TypeOK, Readings
<1>3. ~Holding(w)' /\ \A v \in Workers \ {w} : Holding(v)' <=> Holding(v)
  BY IdleFacts DEF Holding
<1>4. HolderKnows' /\ OneHolder'
  BY <1>3, IdleFacts DEF HolderKnows, OneHolder
<1>5. MarkKnows' /\ DeliveredIsPosted'
  BY IdleFacts DEF MarkKnows, DeliveredIsPosted
<1> QED
  BY <1>1, <1>2, <1>4, <1>5

----------------------------------------------------------------------------
\* Every step keeps the invariant.
LEMMA Step ==
  ASSUME IInv, [Next]_vars
  PROVE  IInv'
<1> USE DEF IInv
<1>1. ASSUME NEW c \in Comments, Enqueue(c) PROVE IInv'
  <2>1. UNCHANGED <<timeVars, posted, orphan, pc, now, held, attempt, outcome, delay>>
    BY <1>1 DEF Enqueue, boardVars, workerVars
  <2>2. TypeOK'
    BY <1>1, <2>1, EnqueueRows DEF TypeOK
  <2>3. \A d \in Comments : /\ row'[d].attempts = row[d].attempts
                            /\ row'[d].status = "delivering" => row'[d] = row[d]
                            /\ row'[d].status = "delivered" => row[d].status = "delivered"
    BY <1>1, EnqueueRows
  <2>4. HolderKnows'
    BY <2>1, <2>3 DEF HolderKnows, Holding
  <2> QED
    BY <2>1, <2>2, <2>3, <2>4 DEF Readings, OneHolder, MarkKnows, DeliveredIsPosted, Holding
<1>2. ASSUME NEW c \in Comments, OrphanEnds(c) PROVE IInv'
  <2>1. UNCHANGED <<timeVars, row, pc, now, held, attempt, outcome, delay>>
    BY <1>2 DEF OrphanEnds, workerVars
  <2>2. /\ posted' \in [Comments -> Nat] /\ \A d \in Comments : posted'[d] >= posted[d]
        /\ orphan' \in [Comments -> SUBSET Nat]
    BY <1>2 DEF OrphanEnds, TypeOK
  <2>3. TypeOK'
    BY <2>1, <2>2 DEF TypeOK
  <2>4. MarkKnows' /\ DeliveredIsPosted'
    BY <2>1, <2>2 DEF TypeOK, MarkKnows, DeliveredIsPosted, HolderKnows, Holding
  <2> QED
    BY <2>1, <2>3, <2>4 DEF Readings, HolderKnows, OneHolder, Holding
<1>3. CASE Advance
  <2>1. clock' = clock + 1 /\ overran' \in BOOLEAN /\ UNCHANGED <<row, boardVars, workerVars>>
    BY <1>3 DEF Advance, TypeOK, TypeOK
  <2> QED
    BY <2>1 DEF boardVars, workerVars, TypeOK, Readings, HolderKnows, OneHolder, MarkKnows,
        DeliveredIsPosted, Holding
<1>4. ASSUME NEW w \in Workers, ReadClock(w) PROVE IInv'
  <2>1. /\ pc[w] = "idle" /\ pc' = [pc EXCEPT ![w] = "recover"] /\ now' = [now EXCEPT ![w] = clock]
        /\ UNCHANGED <<timeVars, row, posted, orphan, held, attempt, outcome, delay>>
    BY <1>4 DEF ReadClock, Alive, Goto, boardVars
  <2>2. TypeOK'
    BY <2>1 DEF TypeOK, Steps
  <2>3. pc'[w] = "recover" /\ now'[w] = clock
        /\ \A v \in Workers \ {w} : pc'[v] = pc[v] /\ now'[v] = now[v]
    BY <2>1 DEF TypeOK
  <2> QED
    BY <2>1, <2>2, <2>3 DEF TypeOK, Readings, HolderKnows, OneHolder, MarkKnows, DeliveredIsPosted, Holding
<1>5. ASSUME NEW w \in Workers, Recover(w) PROVE IInv'
  <2>1. /\ pc[w] = "recover" /\ pc' = [pc EXCEPT ![w] = "claim"]
        /\ UNCHANGED <<timeVars, posted, orphan, now, held, attempt, outcome, delay>>
    BY <1>5 DEF Recover, Goto, boardVars
  <2>2. TypeOK'
    BY <1>5, <2>1, RecoverRows DEF TypeOK, Steps
  <2>3. pc'[w] = "claim" /\ \A v \in Workers \ {w} : pc'[v] = pc[v]
    BY <2>1 DEF TypeOK
  <2>4. \A d \in Comments : /\ row'[d].attempts = row[d].attempts
                            /\ row'[d].status = "delivering" => row'[d] = row[d]
                            /\ row'[d].status = "delivered" => row[d].status = "delivered"
    BY <1>5, RecoverRows
  <2>5. \A v \in Workers : Holding(v)' <=> Holding(v)
    BY <2>1, <2>3 DEF Holding
  <2>6. HolderKnows'
    BY <2>1, <2>4, <2>5 DEF HolderKnows
  <2>7. MarkKnows'
    BY <2>1, <2>3 DEF MarkKnows
  <2> QED
    BY <2>1, <2>2, <2>4, <2>5, <2>6, <2>7 DEF Readings, OneHolder, DeliveredIsPosted
<1>6. ASSUME NEW w \in Workers, Claim(w) PROVE IInv'
  <2>0. pc[w] = "claim" /\ UNCHANGED <<timeVars, posted, orphan>>
    BY <1>6 DEF Claim, boardVars
  <2>1. CASE row' = row /\ GoIdle(w)
    BY <2>0, <2>1, IdleKeeps DEF TypeOK
  <2>2. ASSUME NEW c \in Comments, ClaimedTo(w, c) PROVE IInv'
    <3>1. TypeOK'
      BY <2>0, <2>2 DEF TypeOK, ClaimedTo, Rows, Steps
    <3>2. /\ pc'[w] = "resolve" /\ held'[w] = c /\ attempt'[w] = row[c].attempts + 1
          /\ \A v \in Workers \ {w} :
               pc'[v] = pc[v] /\ held'[v] = held[v] /\ attempt'[v] = attempt[v]
          /\ now' = now /\ outcome' = outcome
      BY <2>2 DEF TypeOK, ClaimedTo
    <3>3. /\ \A d \in Comments \ {c} : row'[d] = row[d]
          /\ row'[c].status = "delivering" /\ row'[c].attempts = row[c].attempts + 1
          /\ row'[c].expires = now[w] + Lease
          /\ row[c].attempts \in Nat
      BY <2>2 DEF ClaimedTo, TypeOK, Rows
    <3>4. \A v \in Workers \ {w} : Holding(v)' <=> Holding(v)
      BY <3>2 DEF Holding
    <3>5. HolderKnows'
      <4>1. ASSUME NEW v \in Workers \ {w} PROVE HolderKnows!(v)'
        BY <3>2, <3>3, <3>4 DEF HolderKnows, TypeOK, Rows
      <4>2. HolderKnows!(w)'
        BY <3>2, <3>3 DEF Holding
      <4> QED
        BY <4>1, <4>2 DEF HolderKnows
    <3>6. OneHolder'
      BY <3>2, <3>3, <3>4 DEF OneHolder, HolderKnows, TypeOK
    <3> QED
      BY <2>0, <3>1, <3>2, <3>3, <3>5, <3>6 DEF Readings, MarkKnows, DeliveredIsPosted
  <2> QED
    BY <1>6, <2>1, <2>2, ClaimRows
<1>7. ASSUME NEW w \in Workers, Resolve(w) PROVE IInv'
  <2>0. pc[w] = "resolve" /\ UNCHANGED <<timeVars, row, posted, orphan, now, held, attempt>>
    BY <1>7 DEF Resolve, boardVars
  <2>1. CASE Goto(w, "lookup") /\ UNCHANGED <<outcome, delay>>
    <3>1. pc' = [pc EXCEPT ![w] = "lookup"]
      BY <2>1 DEF Goto
    <3>2. TypeOK'
      BY <2>0, <2>1, <3>1 DEF TypeOK, Steps
    <3>3. pc'[w] = "lookup" /\ \A v \in Workers \ {w} : pc'[v] = pc[v]
      BY <3>1 DEF TypeOK
    <3>4. \A v \in Workers : Holding(v)' <=> Holding(v)
      BY <2>0, <3>3 DEF Holding
    <3> QED
      BY <2>0, <2>1, <3>2, <3>3, <3>4 DEF Readings, HolderKnows, OneHolder, MarkKnows, DeliveredIsPosted
  <2>2. CASE Decide(w, "permanently_failed", 0)
    <3>1. Decided(w, {"permanently_failed"})
      BY <2>2 DEF Decided
    <3> QED
      BY <2>0, <3>1, DecideKeeps DEF Holding, Outcomes, TypeOK
  <2> QED
    BY <1>7, <2>1, <2>2 DEF Resolve
<1>8. ASSUME NEW w \in Workers, Lookup(w) PROVE IInv'
  <2>0. /\ pc[w] = "lookup" /\ held[w] \in Comments
        /\ UNCHANGED <<timeVars, row, posted, orphan, now, held, attempt>>
    BY <1>8 DEF Lookup, boardVars, HolderKnows, Holding
  <2>1. CASE posted[held[w]] > 0 /\ Decide(w, "delivered", 0)
    <3>1. Decided(w, {"delivered"})
      BY <2>1 DEF Decided
    <3> QED
      BY <2>0, <2>1, <3>1, DecideKeeps DEF Holding, Outcomes, TypeOK
  <2>2. CASE Goto(w, "post") /\ UNCHANGED <<outcome, delay>>
    <3>1. pc' = [pc EXCEPT ![w] = "post"]
      BY <2>2 DEF Goto
    <3>2. TypeOK'
      BY <2>0, <2>2, <3>1 DEF TypeOK, Steps
    <3>3. pc'[w] = "post" /\ \A v \in Workers \ {w} : pc'[v] = pc[v]
      BY <3>1 DEF TypeOK
    <3>4. \A v \in Workers : Holding(v)' <=> Holding(v)
      BY <2>0, <3>3 DEF Holding
    <3> QED
      BY <2>0, <2>2, <3>2, <3>3, <3>4 DEF Readings, HolderKnows, OneHolder, MarkKnows, DeliveredIsPosted
  <2>3. CASE Decide(w, "permanently_failed", 0) \/ Decide(w, "retryable", BaseDelay)
    <3>1. Decided(w, {"retryable", "permanently_failed"})
      BY <2>3, PolicyAssumption DEF Decided
    <3> QED
      BY <2>0, <3>1, DecideKeeps DEF Holding, Outcomes, TypeOK
  <2> QED
    BY <1>8, <2>1, <2>2, <2>3 DEF Lookup
<1>9. ASSUME NEW w \in Workers, Post(w) PROVE IInv'
  <2>0. /\ pc[w] = "post" /\ held[w] \in Comments
        /\ UNCHANGED <<timeVars, row, orphan, now, held, attempt>>
    BY <1>9 DEF Post, HolderKnows, Holding
  <2>1. CASE posted' = [posted EXCEPT ![held[w]] = @ + 1] /\ Decide(w, "delivered", 0)
    <3>1. Decided(w, {"delivered"})
      BY <2>1 DEF Decided
    <3>2. /\ posted' \in [Comments -> Nat] /\ \A c \in Comments : posted'[c] >= posted[c]
          /\ posted'[held[w]] > 0
      BY <2>0, <2>1 DEF TypeOK
    <3> QED
      BY <2>0, <3>1, <3>2, DecideKeeps DEF Holding, Outcomes
  <2>2. CASE PostFailed(w) /\ (posted' = posted \/ posted' = [posted EXCEPT ![held[w]] = @ + 1])
    <3>1. Decided(w, {"retryable", "permanently_failed"})
      BY <2>2, PostFailedFacts
    <3>2. posted' \in [Comments -> Nat] /\ \A c \in Comments : posted'[c] >= posted[c]
      BY <2>0, <2>2 DEF TypeOK
    <3> QED
      BY <2>0, <3>1, <3>2, DecideKeeps DEF Holding, Outcomes
  <2> QED
    BY <1>9, <2>1, <2>2 DEF Post
<1>10. ASSUME NEW w \in Workers, Mark(w) PROVE IInv'
  <2>0. /\ pc[w] = "mark" /\ GoIdle(w) /\ UNCHANGED <<timeVars, posted, orphan>>
        /\ outcome[w] \in Outcomes \ {"none"}
    BY <1>10 DEF Mark, boardVars, MarkKnows, TypeOK
  <2>1. TypeOK'
    BY <1>10, <2>0, MarkRows, IdleFacts DEF TypeOK
  <2>2. \A d \in Comments : /\ row'[d].attempts = row[d].attempts
                            /\ row'[d].status = "delivering" => row'[d] = row[d]
                            /\ row'[d].status = "delivered" =>
                                 row[d].status = "delivered" \/ (d = held[w] /\ outcome[w] = "delivered")
    BY <1>10, <2>0, MarkRows DEF Outcomes
  <2>3. HolderKnows' /\ OneHolder' /\ MarkKnows'
    BY <2>0, <2>2, IdleFacts DEF HolderKnows, OneHolder, MarkKnows, Holding
  <2>4. DeliveredIsPosted'
    BY <2>0, <2>2 DEF DeliveredIsPosted, MarkKnows
  <2>5. Readings'
    BY <2>0, IdleFacts DEF Readings, TypeOK
  <2> QED
    BY <2>1, <2>3, <2>4, <2>5
<1>11. ASSUME NEW w \in Workers, Crash(w) PROVE IInv'
  <2>1. GoIdle(w) /\ UNCHANGED <<timeVars, row, posted>>
    BY <1>11 DEF Crash
  <2>2. orphan' \in [Comments -> SUBSET Nat]
    <3>1. CASE orphan' = orphan
      BY <3>1 DEF TypeOK
    <3>2. CASE pc[w] = "post" /\ orphan' = [orphan EXCEPT ![held[w]] = @ \cup {now[w] + Lease}]
      <4>1. held[w] \in Comments /\ now[w] + Lease \in Nat
        BY <3>2, PolicyAssumption DEF TypeOK, HolderKnows, Holding
      <4>2. orphan[held[w]] \cup {now[w] + Lease} \in SUBSET Nat
        BY <4>1 DEF TypeOK
      <4> QED
        BY <3>2, <4>2 DEF TypeOK
    <3> QED
      BY <1>11, <3>1, <3>2 DEF Crash
  <2> QED
    BY <2>1, <2>2, IdleKeeps
<1>12. CASE UNCHANGED vars
  BY <1>12 DEF vars, boardVars, workerVars, TypeOK, Readings, HolderKnows, OneHolder, MarkKnows,
     DeliveredIsPosted, Holding
<1> QED
  BY <1>1, <1>2, <1>3, <1>4, <1>5, <1>6, <1>7, <1>8, <1>9, <1>10, <1>11, <1>12 DEF Next, Worker

THEOREM Invariance == Spec => []IInv
<1>1. Init => IInv
  BY InitFacts
<1>2. IInv /\ [Next]_vars => IInv'
  BY Step
<1> QED
  BY <1>1, <1>2, PTL DEF Spec

\* Types: rows and workers keep their shape; a recorded outcome is a status of
\* the table (deliver_one, mark_comment_*).
THEOREM TypeCorrect == Spec => []TypeOK
BY Invariance, PTL DEF IInv

\* A comment recorded as delivered is on the board (mark_comment_delivered).
THEOREM DeliveredPosted == Spec => []DeliveredIsPosted
BY Invariance, PTL DEF IInv

\* A settled row is written by no step.
LEMMA SettledStep ==
  ASSUME IInv, [Next]_vars
  PROVE  \A c \in Comments : row[c].status \in Terminal => row'[c] = row[c]
<1> USE DEF Terminal
<1> SUFFICES ASSUME NEW c \in Comments, row[c].status \in Terminal PROVE row'[c] = row[c]
  OBVIOUS
<1>1. ASSUME NEW d \in Comments, Enqueue(d) PROVE row'[c] = row[c]
  BY <1>1, EnqueueRows DEF IInv
<1>2. ASSUME NEW w \in Workers, Recover(w) PROVE row'[c] = row[c]
  BY <1>2, RecoverRows DEF IInv, Lapsed
<1>3. ASSUME NEW w \in Workers, Claim(w) PROVE row'[c] = row[c]
  BY <1>3, ClaimRows DEF IInv, ClaimedTo
<1>4. ASSUME NEW w \in Workers, Mark(w) PROVE row'[c] = row[c]
  BY <1>4, MarkRows DEF Owns
<1>5. CASE UNCHANGED row
  BY <1>5
<1> QED
  BY <1>1, <1>2, <1>3, <1>4, <1>5
  DEF Next, Worker, vars, ReadClock, Resolve, Lookup, Post, Crash, OrphanEnds, Advance

\* Delivered and failed comments are final (mark_comment_*,
\* recover_expired_comment_leases).
THEOREM SettledForGood == Spec => SettledStays
BY Invariance, SettledStep, PTL DEF Spec, SettledStays

\* A worker keeps its comment until its lease ran out.
LEMMA LeaseStep ==
  ASSUME IInv, [Next]_vars, NEW c \in Comments, NEW w \in Workers,
         held[w] = c, Owns(w), row[c].expires > clock, pc'[w] # "idle"
  PROVE  Owns(w)'
<1> USE DEF IInv
<1>0. /\ Holding(w) /\ pc[w] \notin {"idle", "recover", "claim"} /\ now[w] <= clock
      /\ row[c].status = "delivering" /\ row[c].attempts = attempt[w]
  BY CommentsAssumption DEF HolderKnows, Holding, NoComment, Readings, Owns
<1> DEFINE Kept == /\ row'[c] = row[c] /\ held'[w] = held[w]
                   /\ attempt'[w] = attempt[w] /\ now'[w] = now[w]
<1>1. SUFFICES Kept
  BY <1>0 DEF Owns
<1>2. ASSUME NEW d \in Comments, Enqueue(d) PROVE Kept
  BY <1>0, <1>2, EnqueueRows DEF Enqueue, workerVars
<1>3. ASSUME NEW v \in Workers, ReadClock(v) PROVE Kept
  BY <1>0, <1>3 DEF ReadClock, Alive, TypeOK
<1>4. ASSUME NEW v \in Workers, Recover(v) PROVE Kept
  <2>1. ~Lapsed(c, now[v])
    BY DEF Lapsed, Readings, TypeOK, Rows
  <2> QED
    BY <1>4, <2>1, RecoverRows DEF Recover
<1>5. ASSUME NEW v \in Workers, Claim(v) PROVE Kept
  <2>0. v # w
    BY <1>0, <1>5 DEF Claim
  <2>1. CASE row' = row /\ GoIdle(v)
    BY <2>0, <2>1 DEF GoIdle, TypeOK
  <2>2. ASSUME NEW d \in Comments, ClaimedTo(v, d) PROVE Kept
    BY <1>0, <2>0, <2>2 DEF ClaimedTo, TypeOK
  <2> QED
    BY <1>5, <2>1, <2>2, ClaimRows
<1>6. ASSUME NEW v \in Workers, Mark(v) PROVE Kept
  <2>0. v # w /\ Holding(v) /\ GoIdle(v)
    <3>1. pc'[v] = "idle"
      BY <1>6 DEF Mark, GoIdle, Goto, TypeOK
    <3> QED
      BY <1>6, <3>1 DEF Mark, Holding
  <2>1. row'[c] = row[c]
    <3>1. CASE held[v] = c /\ Owns(v)
      BY <1>0, <2>0, <3>1 DEF Owns, OneHolder
    <3> QED
      BY <1>6, <3>1, MarkRows
  <2> QED
    BY <2>0, <2>1 DEF GoIdle, TypeOK
<1>7. ASSUME NEW v \in Workers, Crash(v) PROVE Kept
  <2>0. GoIdle(v) /\ UNCHANGED row
    BY <1>7 DEF Crash
  <2>1. v # w
    BY <2>0 DEF GoIdle, Goto, TypeOK
  <2> QED
    BY <2>0, <2>1 DEF GoIdle, TypeOK
<1>8. CASE UNCHANGED <<row, now, held, attempt>>
  BY <1>8
<1> HIDE DEF Kept
<1> QED
  BY <1>2, <1>3, <1>4, <1>5, <1>6, <1>7, <1>8
  DEF Next, Worker, vars, Resolve, Lookup, Post, OrphanEnds, Advance, workerVars

\* Nobody takes a comment from its worker before the lease ran out, at any
\* instant of the real clock (claim_next_comment, recover_expired_comment_leases).
THEOREM LeaseHeld == Spec => LeaseRespected
<1>1. IInv /\ [Next]_vars =>
        [\A c \in Comments : \A w \in Workers :
           held[w] = c /\ Owns(w) /\ row[c].expires > clock /\ pc'[w] # "idle" => Owns(w)']_vars
  BY LeaseStep
<1> QED
  BY <1>1, Invariance, PTL DEF Spec, LeaseRespected

\* A step that starts an attempt is a claim of a due comment.
LEMMA BackoffStep ==
  ASSUME IInv, [Next]_vars, NEW c \in Comments, row'[c].attempts > row[c].attempts
  PROVE  row[c].next <= clock
<1> USE DEF IInv
<1>0. row[c].attempts \in Nat /\ row[c].next \in Nat
  BY DEF TypeOK, Rows
<1>1. ASSUME NEW d \in Comments, Enqueue(d) PROVE FALSE
  BY <1>0, <1>1, EnqueueRows
<1>2. ASSUME NEW w \in Workers, Recover(w) PROVE FALSE
  BY <1>0, <1>2, RecoverRows
<1>3. ASSUME NEW w \in Workers, Claim(w) PROVE row[c].next <= clock
  <2>1. CASE row' = row
    BY <1>0, <2>1
  <2>2. ASSUME NEW d \in Comments, ClaimedTo(w, d) PROVE row[c].next <= clock
    <3>1. c = d
      BY <1>0, <2>2 DEF ClaimedTo
    <3>2. row[c].next <= now[w] /\ now[w] <= clock /\ now[w] \in Nat /\ clock \in Nat
      BY <2>2, <3>1 DEF ClaimedTo, Readings, TypeOK
    <3> QED
      BY <1>0, <3>2
  <2> QED
    BY <1>3, <2>1, <2>2, ClaimRows
<1>4. ASSUME NEW w \in Workers, Mark(w) PROVE FALSE
  BY <1>0, <1>4, MarkRows
<1>5. CASE UNCHANGED row
  BY <1>0, <1>5
<1> QED
  BY <1>1, <1>2, <1>3, <1>4, <1>5
  DEF Next, Worker, vars, ReadClock, Resolve, Lookup, Post, Crash, OrphanEnds, Advance

\* A comment is tried again only after the backoff of its last failure
\* (claim_next_comment, mark_comment_retryable).
THEOREM BackoffKeptUp == Spec => BackoffRespected
<1>1. IInv /\ [Next]_vars =>
        [\A c \in Comments : row'[c].attempts > row[c].attempts => row[c].next <= clock]_vars
  BY BackoffStep
<1> QED
  BY <1>1, Invariance, PTL DEF Spec, BackoffRespected

\* Types and recorded deliveries together, as the run checks them.
THEOREM Consistency == Spec => []Consistent
BY TypeCorrect, DeliveredPosted, PTL DEF Consistent

\* Settled rows, leases and backoffs together (mark_comment_*, recover, claim).
THEOREM Fenced == Spec => WritesFenced
BY SettledForGood, LeaseHeld, BackoffKeptUp DEF WritesFenced

----------------------------------------------------------------------------
\* With no overrun a worker that decides leaves board and rows alone.
LEMMA DecideAlone ==
  ASSUME IInv, NInv, NEW w \in Workers, Holding(w), NEW S, Decided(w, S),
         UNCHANGED <<timeVars, row, orphan, now, held, attempt>>,
         \/ posted' = posted
         \/ pc[w] = "post" /\ posted' = [posted EXCEPT ![held[w]] = @ + 1]
  PROVE  NInv'
<1> USE DEF IInv, NInv
<1>1. pc'[w] = "mark" /\ \A v \in Workers \ {w} : pc'[v] = pc[v]
  BY DEF Decided, Decide, Goto, TypeOK, Steps
<1>2. \A v \in Workers : (Holding(v)' <=> Holding(v)) /\ (Alive(v)' <=> Alive(v))
  BY <1>1 DEF Holding, Alive
<1>3. Alone'
  BY <1>2 DEF Alone
<1>4. held[w] \in Comments
  BY DEF HolderKnows
<1>5. \A c \in Comments : posted'[c] # posted[c] =>
        c = held[w] /\ posted[c] = 0 /\ posted'[c] = 1
  BY <1>4 DEF TypeOK, PostFirst
<1>6. OrphanAlone' /\ Single'
  BY <1>5 DEF OrphanAlone, Single, TypeOK
<1>7. PostFirst'
  <2> SUFFICES ASSUME NEW v \in Workers, pc'[v] = "post" PROVE posted'[held[v]] = 0
    BY DEF PostFirst
  <2>1. v # w /\ pc[v] = "post"
    BY <1>1
  <2> QED
    BY <2>1 DEF Alone, Alive, Holding
<1> QED
  BY <1>3, <1>6, <1>7

\* Rows that an orphan or a holder depends on are left alone.
LEMMA RowsAlone ==
  ASSUME IInv, NInv, row' \in [Comments -> Rows],
         UNCHANGED <<timeVars, posted, orphan, held>>,
         \A c \in Comments : orphan[c] # {} => row'[c] = row[c]
  PROVE  OrphanAlone' /\ Single'
BY DEF NInv, OrphanAlone, Single

LEMMA NStep ==
  ASSUME ~overran', IInv, NInv, [Next]_vars
  PROVE  NInv'
<1> USE DEF IInv, NInv
<1>1. ASSUME NEW c \in Comments, Enqueue(c) PROVE NInv'
  <2>1. UNCHANGED <<timeVars, posted, orphan, pc, now, held, attempt>>
    BY <1>1 DEF Enqueue, boardVars, workerVars
  <2>2. \A d \in Comments : row[d].status = "delivering" => row'[d] = row[d]
    BY <1>1, EnqueueRows
  <2>3. Alone'
    BY <2>1, <2>2 DEF Alone, Alive, Holding, HolderKnows
  <2> QED
    BY <2>1, <2>2, <2>3 DEF OrphanAlone, PostFirst, Single
<1>2. ASSUME NEW c \in Comments, OrphanEnds(c) PROVE NInv'
  <2>1. UNCHANGED <<timeVars, row, pc, now, held, attempt>>
    BY <1>2 DEF OrphanEnds, workerVars
  <2>2. PICK e \in orphan[c] :
          /\ orphan' = [orphan EXCEPT ![c] = @ \ {e}]
          /\ posted' = [posted EXCEPT ![c] = @ + 1] \/ posted' = posted
    BY <1>2 DEF OrphanEnds
  <2>3. \A d \in orphan[c] : d = e
    BY DEF OrphanAlone
  <2>4. orphan'[c] = {} /\ \A d \in Comments \ {c} : orphan'[d] = orphan[d]
    BY <2>2, <2>3 DEF TypeOK
  <2>5. posted[c] = 0 /\ \A w \in Workers : held[w] # c
    BY DEF OrphanAlone
  <2>6. posted'[c] \in {0, 1} /\ \A d \in Comments \ {c} : posted'[d] = posted[d]
    BY <2>2, <2>5 DEF TypeOK
  <2>7. Alone'
    BY <2>1 DEF Alone, Alive, Holding
  <2>8. OrphanAlone' /\ Single'
    BY <2>1, <2>4, <2>6 DEF OrphanAlone, Single
  <2>9. PostFirst'
    BY <2>1, <2>5, <2>6 DEF PostFirst, HolderKnows, Holding
  <2> QED
    BY <2>7, <2>8, <2>9
<1>3. CASE Advance
  <2>1. clock' = clock + 1 /\ ~Overruns(clock + 1) /\ UNCHANGED <<row, boardVars, workerVars>>
    BY <1>3 DEF Advance
  <2>2. /\ \A w \in Workers : Alive(w) => clock + 1 < now[w] + Lease
        /\ \A c \in Comments : \A e \in orphan[c] : clock + 1 < e
    BY <2>1, PolicyAssumption DEF Overruns, TypeOK
  <2>3. UNCHANGED <<row, posted, orphan, pc, now, held, attempt>>
    BY <2>1 DEF boardVars, workerVars
  <2>4. Alone'
    BY <2>1, <2>2, <2>3 DEF Alone, Alive, Holding
  <2> QED
    BY <2>1, <2>2, <2>3, <2>4 DEF OrphanAlone, PostFirst, Single
<1>4. ASSUME NEW w \in Workers, ReadClock(w) PROVE NInv'
  <2>1. /\ \A v \in Workers : ~Alive(v)
        /\ pc' = [pc EXCEPT ![w] = "recover"] /\ now' = [now EXCEPT ![w] = clock]
        /\ UNCHANGED <<timeVars, row, posted, orphan, held, attempt>>
    BY <1>4, PolicyAssumption DEF ReadClock, Goto, boardVars, Alone, TypeOK
  <2>2. pc'[w] = "recover" /\ now'[w] = clock
        /\ \A v \in Workers \ {w} : pc'[v] = pc[v] /\ now'[v] = now[v]
    BY <2>1 DEF TypeOK
  <2>3. \A v \in Workers : ~Holding(v)' /\ (v # w => ~Alive(v)')
    BY <2>1, <2>2 DEF Alive, Holding
  <2>4. Alone'
    BY <2>1, <2>2, <2>3, PolicyAssumption DEF Alone, TypeOK
  <2> QED
    BY <2>1, <2>2, <2>3, <2>4 DEF OrphanAlone, PostFirst, Single, Holding
<1>5. ASSUME NEW w \in Workers, Recover(w) PROVE NInv'
  <2>1. /\ pc[w] = "recover" /\ pc' = [pc EXCEPT ![w] = "claim"]
        /\ UNCHANGED <<timeVars, posted, orphan, now, held, attempt>>
    BY <1>5 DEF Recover, Goto, boardVars
  <2>2. pc'[w] = "claim" /\ \A v \in Workers \ {w} : pc'[v] = pc[v]
    BY <2>1 DEF TypeOK
  <2>3. \A v \in Workers : ~Holding(v) /\ ~Holding(v)' /\ (Alive(v)' <=> Alive(v))
    BY <2>1, <2>2 DEF Alone, Alive, Holding
  <2>4. Alone'
    BY <2>1, <2>3 DEF Alone
  <2>5. \A c \in Comments : orphan[c] # {} => ~Lapsed(c, now[w])
    BY DEF OrphanAlone, Lapsed, Readings, TypeOK
  <2>6. OrphanAlone' /\ Single'
    BY <1>5, <2>1, <2>5, RecoverRows, RowsAlone
  <2>7. PostFirst'
    BY <2>3 DEF PostFirst, Holding
  <2> QED
    BY <2>4, <2>6, <2>7
<1>6. ASSUME NEW w \in Workers, Claim(w) PROVE NInv'
  <2>0. /\ pc[w] = "claim" /\ UNCHANGED <<timeVars, posted, orphan>>
        /\ \A v \in Workers \ {w} : pc[v] = "idle"
    BY <1>6 DEF Claim, boardVars, Alone, Alive
  <2>1. CASE row' = row /\ GoIdle(w)
    <3>1. \A v \in Workers : ~Alive(v)' /\ ~Holding(v)' /\ held'[v] = NoComment
      BY <2>0, <2>1, IdleFacts DEF Alive, Holding, HolderKnows
    <3>2. OrphanAlone'
      <4>1. UNCHANGED <<timeVars, row, posted, orphan>>
        BY <2>0, <2>1
      <4>2. NoComment \notin Comments
        BY CommentsAssumption DEF NoComment
      <4> QED
        BY <3>1, <4>1, <4>2 DEF OrphanAlone
    <3> QED
      BY <2>0, <3>1, <3>2 DEF Alone, PostFirst, Single, Holding
  <2>2. ASSUME NEW c \in Comments, ClaimedTo(w, c) PROVE NInv'
    <3>1. /\ pc'[w] = "resolve" /\ held'[w] = c /\ attempt'[w] = row[c].attempts + 1
          /\ \A v \in Workers \ {w} : pc'[v] = "idle" /\ held'[v] = held[v]
          /\ now' = now
      BY <2>0, <2>2 DEF TypeOK, ClaimedTo
    <3>2. /\ \A d \in Comments \ {c} : row'[d] = row[d]
          /\ row'[c].status = "delivering" /\ row'[c].attempts = row[c].attempts + 1
          /\ orphan[c] = {}
      BY <2>2 DEF ClaimedTo, OrphanAlone
    <3>3. Alone'
      BY <2>0, <3>1, <3>2 DEF Alone, Alive, Holding
    <3>4. OrphanAlone' /\ Single'
      BY <2>0, <3>1, <3>2 DEF OrphanAlone, Single
    <3>5. PostFirst'
      BY <3>1 DEF PostFirst
    <3> QED
      BY <3>3, <3>4, <3>5
  <2> QED
    BY <1>6, <2>1, <2>2, ClaimRows
<1>7. ASSUME NEW w \in Workers, Resolve(w) PROVE NInv'
  <2>0. pc[w] = "resolve" /\ UNCHANGED <<timeVars, row, posted, orphan, now, held, attempt>>
    BY <1>7 DEF Resolve, boardVars
  <2>1. CASE Goto(w, "lookup")
    <3>1. pc'[w] = "lookup" /\ \A v \in Workers \ {w} : pc'[v] = pc[v]
      BY <2>1 DEF Goto, TypeOK
    <3>2. \A v \in Workers : (Holding(v)' <=> Holding(v)) /\ (Alive(v)' <=> Alive(v))
      BY <2>0, <3>1 DEF Holding, Alive
    <3> QED
      BY <2>0, <3>1, <3>2 DEF Alone, OrphanAlone, PostFirst, Single
  <2>2. CASE Decide(w, "permanently_failed", 0)
    BY <2>0, <2>2, DecideAlone DEF Decided, Holding
  <2> QED
    BY <1>7, <2>1, <2>2 DEF Resolve
<1>8. ASSUME NEW w \in Workers, Lookup(w) PROVE NInv'
  <2>0. pc[w] = "lookup" /\ UNCHANGED <<timeVars, row, posted, orphan, now, held, attempt>>
    BY <1>8 DEF Lookup, boardVars
  <2>1. CASE posted[held[w]] = 0 /\ Goto(w, "post")
    <3>1. pc'[w] = "post" /\ \A v \in Workers \ {w} : pc'[v] = pc[v]
      BY <2>1 DEF Goto, TypeOK
    <3>2. \A v \in Workers : (Holding(v)' <=> Holding(v)) /\ (Alive(v)' <=> Alive(v))
      BY <2>0, <3>1 DEF Holding, Alive
    <3> QED
      BY <2>0, <2>1, <3>1, <3>2 DEF Alone, OrphanAlone, PostFirst, Single
  <2>2. ASSUME NEW what, NEW wait \in Nat, Decide(w, what, wait) PROVE NInv'
    <3>1. Decided(w, {what})
      BY <2>2 DEF Decided
    <3> QED
      BY <2>0, <3>1, DecideAlone DEF Holding
  <2> QED
    BY <1>8, <2>1, <2>2, PolicyAssumption DEF Lookup
<1>9. ASSUME NEW w \in Workers, Post(w) PROVE NInv'
  <2>0. /\ pc[w] = "post" /\ UNCHANGED <<timeVars, row, orphan, now, held, attempt>>
        /\ posted' = posted \/ posted' = [posted EXCEPT ![held[w]] = @ + 1]
    BY <1>9 DEF Post
  <2>1. Decided(w, {"delivered"}) \/ Decided(w, {"retryable", "permanently_failed"})
    BY <1>9, PostFailedFacts DEF Post, Decided
  <2> QED
    BY <2>0, <2>1, DecideAlone DEF Holding
<1>10. ASSUME NEW w \in Workers, Mark(w) PROVE NInv'
  <2>0. /\ pc[w] = "mark" /\ GoIdle(w) /\ UNCHANGED <<timeVars, posted, orphan>>
        /\ \A v \in Workers \ {w} : pc[v] = "idle"
    BY <1>10 DEF Mark, boardVars, Alone, Alive
  <2>1. \A v \in Workers : ~Alive(v)' /\ ~Holding(v)' /\ held'[v] = NoComment /\ pc'[v] = "idle"
    BY <2>0, IdleFacts DEF Alive, Holding, HolderKnows
  <2>2. orphan[held[w]] = {} /\ \A d \in Comments \ {held[w]} : row'[d] = row[d]
    BY <1>10, MarkRows DEF OrphanAlone
  <2>3. OrphanAlone'
    BY <2>0, <2>1, <2>2, CommentsAssumption DEF OrphanAlone, NoComment
  <2> QED
    BY <2>0, <2>1, <2>3 DEF Alone, PostFirst, Single
<1>11. ASSUME NEW w \in Workers, Crash(w) PROVE NInv'
  <2>0. /\ Alive(w) /\ GoIdle(w) /\ UNCHANGED <<timeVars, row, posted>>
        /\ \A v \in Workers \ {w} : pc[v] = "idle"
    BY <1>11 DEF Crash, Alone, Alive
  <2>1. \A v \in Workers : ~Alive(v)' /\ ~Holding(v)' /\ held'[v] = NoComment /\ pc'[v] = "idle"
    BY <2>0, IdleFacts DEF Alive, Holding, HolderKnows
  <2>2. OrphanAlone'
    <3>1. CASE orphan' = orphan
      BY <2>0, <2>1, <3>1, CommentsAssumption DEF OrphanAlone, NoComment
    <3>2. CASE pc[w] = "post" /\ orphan' = [orphan EXCEPT ![held[w]] = @ \cup {now[w] + Lease}]
      <4>1. /\ held[w] \in Comments /\ orphan[held[w]] = {} /\ posted[held[w]] = 0
            /\ row[held[w]].status = "delivering" /\ row[held[w]].expires = now[w] + Lease
            /\ clock < now[w] + Lease
        BY <2>0, <3>2 DEF HolderKnows, Holding, OrphanAlone, Alone, PostFirst
      <4>2. /\ orphan'[held[w]] = {now[w] + Lease}
            /\ \A c \in Comments \ {held[w]} : orphan'[c] = orphan[c]
        BY <3>2, <4>1 DEF TypeOK
      <4> QED
        BY <2>0, <2>1, <4>1, <4>2, CommentsAssumption DEF OrphanAlone, NoComment
    <3> QED
      BY <1>11, <3>1, <3>2 DEF Crash
  <2> QED
    BY <2>0, <2>1, <2>2 DEF Alone, PostFirst, Single
<1>12. CASE UNCHANGED vars
  BY <1>12 DEF vars, boardVars, workerVars, Alone, OrphanAlone, PostFirst, Single, Alive, Holding
<1> QED
  BY <1>1, <1>2, <1>3, <1>4, <1>5, <1>6, <1>7, <1>8, <1>9, <1>10, <1>11, <1>12 DEF Next, Worker

\* Overruns are not forgotten.
LEMMA OverranStays ==
  ASSUME [Next]_vars, overran
  PROVE  overran'
<1>1. CASE Advance
  BY <1>1 DEF Advance
<1>2. CASE UNCHANGED timeVars
  BY <1>2
<1> QED
  BY <1>1, <1>2
  DEF Next, Worker, vars, Enqueue, OrphanEnds, ReadClock, Recover, Claim, Resolve, Lookup, Post,
      Mark, Crash

\* As long as nobody outlasts a lease the board shows a comment at most once,
\* although posts fail after they landed and workers die in them (deliver_one).
THEOREM CommentOnce == Spec => []PostedOnce
<1> DEFINE I == IInv /\ (~overran => NInv)
<1>1. Init => I
  BY InitFacts
<1>2. I /\ [Next]_vars => I'
  BY Step, NStep, OverranStays
<1>3. I => PostedOnce
  BY DEF NInv, Single, PostedOnce
<1> QED
  BY <1>1, <1>2, <1>3, PTL DEF Spec

=============================================================================
