-------------------------- MODULE PaidCalls_proofs --------------------------
(* What PaidCalls keeps true for any number of callers and requests.       *)
EXTENDS PaidCalls, FiniteSetTheorems, TLAPS

\* The steps of a caller that owns the claimed model call.
Running == {"run", "answer", "complete", "reject", "store"}

\* The unique model_calls row and the conditional update of a retry leave one
\* caller at a time with the call, and a call that may be claimed was not executed.
OneRunner ==
    /\ \A c, d \in Callers : pc[c] \in Running /\ pc[d] \in Running /\ request[c] = request[d]
         => c = d
    /\ \A c \in Callers : pc[c] \in Running => call[request[c]] \in {"in_flight", "unknown_outcome"}
    /\ \A c \in Callers : pc[c] \in {"run", "reject"} => executed[request[c]] = 0
    /\ \A c \in Callers : pc[c] \in {"answer", "complete"} => executed[request[c]] = 1
    /\ \A k \in Requests : call[k] \in {"absent", "provider_rejected"} => executed[k] = 0

\* Between its two transactions a settling caller knows what the first one wrote.
Settling ==
    /\ TablesAgree
    /\ \A c \in Callers : pc[c] = "store" => StatusOf(request[c]) = "completed"
    /\ \A c \in Callers : pc[c] = "mark" => StatusOf(request[c]) = "unknown_outcome"

\* Without overlaps a request has one caller ...
OneCaller ==
    \A c, d \in Callers : pc[c] # "idle" /\ pc[d] # "idle" /\ request[c] = request[d] => c = d

\* ... and its reservation stays in flight until that caller settles it.
Reserved ==
    \A c \in Callers :
        /\ pc[c] \in {"insert", "retry", "run", "answer", "complete", "reject"}
             => StatusOf(request[c]) = "in_flight"
        /\ pc[c] \in {"read", "give_up"} => StatusOf(request[c]) \in {"in_flight", "completed"}

\* A completed reservation has a response, or the call that lost it.
Answered == \A k \in Requests : StatusOf(k) = "completed" => call[k] \in {"in_flight", "completed"}

\* A reservation in flight was opened when its backoff was over.
Opened ==
    \A k \in Requests :
        LET r == reservation[k] IN
        /\ r.status = "absent" => r.retryAt = 0 /\ r.failures = 0
        /\ r.status = "in_flight" => r.retryAt <= clock /\ (r.failures > 0 => r.retryable)

\* Every executed request has a reservation that counts against the budget ...
Accounted == \A k \in Requests : executed[k] > 0 => k \in Used

\* ... and those are within the budget.
UsedWithin == Cardinality(Used) <= Limit + approvals

IInv == TypeOK /\ OneRunner /\ SingleExecution /\ Settling /\ OneAlert /\ Opened /\ UsedWithin

EInv == OneCaller /\ Answered /\ Reserved /\ Accounted

\* Writing the status s of k changes nothing else of the reservations.
SetTo(k, s) ==
    /\ reservation' \in [Requests -> Reservations]
    /\ reservation'[k].status = s
    /\ \A j \in Requests \ {k} : reservation'[j] = reservation[j]
    /\ \A j \in Requests :
        /\ reservation'[j].retryable = reservation[j].retryable
        /\ reservation'[j].retryAt = reservation[j].retryAt
        /\ reservation'[j].failures = reservation[j].failures
        /\ reservation'[j].alerts = reservation[j].alerts

\* The effect of SetStatus, field by field.
LEMMA StatusWritten ==
  ASSUME TypeOK, NEW k \in Requests, NEW s \in Statuses, SetStatus(k, s)
  PROVE  SetTo(k, s)
<1> DEFINE r == [reservation[k] EXCEPT !.status = s]
<1>1. reservation' = [reservation EXCEPT ![k] = r]
  BY DEF SetStatus
<1>2. /\ r \in Reservations
      /\ r.status = s
      /\ r.retryable = reservation[k].retryable
      /\ r.retryAt = reservation[k].retryAt
      /\ r.failures = reservation[k].failures
      /\ r.alerts = reservation[k].alerts
  BY DEF TypeOK, Reservations
<1> HIDE DEF r
<1> QED
  BY <1>1, <1>2 DEF TypeOK, SetTo

\* A rejection rewrites the reservation of k only.
RejectedTo(k) ==
    LET r == reservation[k]
        q == reservation'[k] IN
    /\ reservation' \in [Requests -> Reservations]
    /\ \A j \in Requests \ {k} : reservation'[j] = reservation[j]
    /\ q.status = "provider_rejected"
    /\ q.failures = r.failures + 1
    /\ q.alerts = r.alerts
         + IF r.alerts = 0 /\ (~q.retryable \/ r.failures + 1 >= AlertThreshold) THEN 1 ELSE 0

\* The effect of Rejected, field by field.
LEMMA RejectionWritten ==
  ASSUME TypeOK, NEW k \in Requests, NEW b \in BOOLEAN,
         reservation' = [reservation EXCEPT ![k] = Rejected(k, b)]
  PROVE  RejectedTo(k)
<1> DEFINE r == Rejected(k, b)
           old == reservation[k]
<1>0. old \in Reservations
  BY DEF TypeOK
<1>1. r.failures = old.failures + 1 /\ r.failures \in Nat
  BY <1>0 DEF Rejected, Reservations
<1>2. r.alerts = old.alerts + IF old.alerts = 0 /\ (~b \/ old.failures + 1 >= AlertThreshold)
                              THEN 1 ELSE 0
  BY <1>0 DEF Rejected, Reservations, AlertDue
<1>3. r.alerts \in Nat
  BY <1>0, <1>2 DEF Reservations
<1>4. r.retryAt \in 0..(MaxClock + RetryDelay)
  BY RetryAssumption, ClockAssumption DEF Rejected, TypeOK
<1>5. r.status = "provider_rejected" /\ r.retryable = b
  BY DEF Rejected
<1>6. r \in Reservations
  BY <1>1, <1>3, <1>4, <1>5 DEF Rejected, Reservations, Statuses
<1>7. reservation' = [reservation EXCEPT ![k] = r]
  OBVIOUS
<1> HIDE DEF r
<1>8. reservation' \in [Requests -> Reservations] /\ reservation'[k] = r
      /\ \A j \in Requests \ {k} : reservation'[j] = reservation[j]
  BY <1>6, <1>7 DEF TypeOK
<1> QED
  BY <1>1, <1>2, <1>5, <1>8 DEF RejectedTo

\* The initial states satisfy every part.
LEMMA InitFacts ==
  ASSUME Init
  PROVE  TypeOK /\ OneRunner /\ SingleExecution /\ Settling /\ OneAlert /\ Opened
<1>1. TypeOK
  <2>1. NewReservation \in Reservations
    BY RetryAssumption, ClockAssumption DEF Reservations, NewReservation, Statuses
  <2>2. overlapped \in BOOLEAN /\ clock \in 0..MaxClock /\ approvals \in 0..MaxApprovals
    <3>1. overlapped \in BOOLEAN
      BY Zenon DEF Init
    <3>2. clock = 0 /\ approvals = 0
      BY DEF Init
    <3> QED
      BY <3>1, <3>2, LimitAssumption, ClockAssumption
  <2> QED
    BY <2>1, <2>2 DEF Init, TypeOK, Statuses, Steps
<1>2. OneRunner /\ SingleExecution /\ Settling /\ OneAlert /\ Opened
  BY RetryAssumption, ClockAssumption
  DEF Init, OneRunner, Running, SingleExecution, Settling, TablesAgree, Settled, StatusOf, OneAlert,
      Opened, NewReservation
<1> QED
  BY <1>1, <1>2

\* Steps keep the types.
LEMMA TypeStep ==
  ASSUME TypeOK, OneRunner, [Next]_vars
  PROVE  TypeOK'
<1> USE RetryAssumption, ClockAssumption, LimitAssumption DEF OneRunner, TypeOK, Reservations,
     Statuses, Steps, Goto, tables
<1>1. ASSUME NEW c \in Callers, NEW k \in Requests, Authorize(c, k) PROVE TypeOK'
  <2>1. /\ pc[c] = "idle" /\ pc' = [pc EXCEPT ![c] = "read"] /\ request' = [request EXCEPT ![c] = k]
        /\ overlapped' = (overlapped \/ \E d \in Callers : pc[d] # "idle" /\ request[d] = k)
        /\ UNCHANGED <<clock, approvals, call, executed>>
    BY <1>1 DEF Authorize
  <2>2. CASE StatusOf(k) \in {"in_flight", "completed"} /\ reservation' = reservation
    BY <2>1, <2>2 DEF StatusOf
  <2>3. CASE /\ StatusOf(k) = "absent" \/ (StatusOf(k) = "provider_rejected" /\ RetryAllowed(k))
             /\ SetStatus(k, "in_flight")
    <3>1. SetTo(k, "in_flight")
      BY <2>3, StatusWritten
    <3> QED
      BY <2>1, <2>3, <3>1 DEF SetTo, RetryAllowed, StatusOf
  <2> QED
    BY <1>1, <2>2, <2>3 DEF Authorize
<1>2. ASSUME NEW c \in Callers, ReadCall(c) PROVE TypeOK'
  BY <1>2 DEF ReadCall, Settled
<1>3. ASSUME NEW c \in Callers, InsertCall(c) PROVE TypeOK'
  BY <1>3 DEF InsertCall
<1>4. ASSUME NEW c \in Callers, RetryCall(c) PROVE TypeOK'
  BY <1>4 DEF RetryCall
<1>5. ASSUME NEW c \in Callers, Run(c) PROVE TypeOK'
  BY <1>5 DEF Run
<1>6. ASSUME NEW c \in Callers, Answer(c) PROVE TypeOK'
  <2>1. request[c] \in Requests /\ executed[request[c]] = 1
    BY <1>6 DEF Answer
  <2>2. executed' \in [Requests -> Nat]
    BY <1>6, <2>1 DEF Answer
  <2>3. pc' \in [Callers -> Steps]
    BY <1>6 DEF Answer
  <2> QED
    BY <1>6, <2>2, <2>3 DEF Answer
<1>7. ASSUME NEW c \in Callers, Complete(c) PROVE TypeOK'
  <2>1. PICK k \in Requests : k = request[c]
    OBVIOUS
  <2>2. pc[c] = "complete" /\ UNCHANGED <<clock, overlapped, approvals, call, executed, request>>
    BY <1>7 DEF Complete
  <2>3. CASE StatusOf(k) = "in_flight"
    <3>1. SetStatus(k, "completed") /\ pc' = [pc EXCEPT ![c] = "store"]
      BY <1>7, <2>1, <2>3 DEF Complete, Finishable
    <3>2. SetTo(k, "completed")
      BY <3>1, StatusWritten
    <3> QED
      BY <2>1, <2>2, <2>3, <3>1, <3>2 DEF SetTo, StatusOf
  <2>4. CASE StatusOf(k) # "in_flight"
    BY <1>7, <2>1, <2>2, <2>4 DEF Complete, Finishable, StatusOf
  <2> QED
    BY <2>3, <2>4
<1>8. ASSUME NEW c \in Callers, Store(c) PROVE TypeOK'
  BY <1>8 DEF Store, StatusOf
<1>9. ASSUME NEW c \in Callers, Reject(c) PROVE TypeOK'
  <2>1. PICK k \in Requests : k = request[c]
    OBVIOUS
  <2>2. /\ pc[c] = "reject" /\ pc' = [pc EXCEPT ![c] = "idle"]
        /\ UNCHANGED <<clock, overlapped, approvals, executed, request>>
    BY <1>9 DEF Reject
  <2>3. CASE UNCHANGED <<reservation, call>>
    BY <2>1, <2>2, <2>3 DEF StatusOf
  <2>4. CASE ~UNCHANGED <<reservation, call>>
    <3>1. /\ StatusOf(k) = "in_flight" /\ call[k] = "in_flight"
          /\ call' = [call EXCEPT ![k] = "provider_rejected"]
          /\ \E retryable \in BOOLEAN :
                reservation' = [reservation EXCEPT ![k] = Rejected(k, retryable)]
      BY <1>9, <2>1, <2>4 DEF Reject, Finishable
    <3>2. RejectedTo(k)
      BY <3>1, RejectionWritten
    <3> QED
      BY <2>1, <2>2, <3>1, <3>2 DEF RejectedTo, StatusOf
  <2> QED
    BY <2>3, <2>4
<1>10. ASSUME NEW c \in Callers, GiveUp(c) PROVE TypeOK'
  <2>1. PICK k \in Requests : k = request[c]
    OBVIOUS
  <2>2. pc[c] = "give_up" /\ UNCHANGED <<clock, overlapped, approvals, call, executed, request>>
    BY <1>10 DEF GiveUp
  <2>3. CASE StatusOf(k) = "in_flight"
    <3>1. SetStatus(k, "unknown_outcome") /\ pc' = [pc EXCEPT ![c] = "mark"]
      BY <1>10, <2>1, <2>3 DEF GiveUp, Finishable
    <3>2. SetTo(k, "unknown_outcome")
      BY <3>1, StatusWritten
    <3> QED
      BY <2>1, <2>2, <2>3, <3>1, <3>2 DEF SetTo, StatusOf
  <2>4. CASE StatusOf(k) # "in_flight"
    BY <1>10, <2>1, <2>2, <2>4 DEF GiveUp, Finishable, StatusOf
  <2> QED
    BY <2>3, <2>4
<1>11. ASSUME NEW c \in Callers, Mark(c) PROVE TypeOK'
  BY <1>11 DEF Mark, StatusOf
<1>12. ASSUME NEW c \in Callers, Crash(c) PROVE TypeOK'
  BY <1>12 DEF Crash
<1>13. CASE Approve
  BY <1>13 DEF Approve
<1>14. CASE Advance
  BY <1>14 DEF Advance
<1>15. CASE UNCHANGED vars
  BY <1>15 DEF vars
<1> QED
  BY <1>1, <1>2, <1>3, <1>4, <1>5, <1>6, <1>7, <1>8, <1>9, <1>10, <1>11, <1>12, <1>13, <1>14,
     <1>15 DEF Next, Caller

\* A claimed call keeps its one caller, and is executed once.
LEMMA RunnerStep ==
  ASSUME TypeOK, OneRunner, [Next]_vars
  PROVE  OneRunner'
<1> USE DEF TypeOK, OneRunner, Running, Statuses, Steps, Goto, tables
<1>1. ASSUME NEW c \in Callers, NEW k \in Requests, Authorize(c, k) PROVE OneRunner'
  <2>1. /\ pc[c] = "idle" /\ pc' = [pc EXCEPT ![c] = "read"] /\ request' = [request EXCEPT ![c] = k]
        /\ UNCHANGED <<clock, approvals, call, executed>>
    BY <1>1 DEF Authorize
  <2>2. CASE StatusOf(k) \in {"in_flight", "completed"} /\ reservation' = reservation
    BY <2>1, <2>2 DEF StatusOf
  <2>3. CASE /\ StatusOf(k) = "absent" \/ (StatusOf(k) = "provider_rejected" /\ RetryAllowed(k))
             /\ SetStatus(k, "in_flight")
    <3>1. SetTo(k, "in_flight")
      BY <2>3, StatusWritten
    <3> QED
      BY <2>1, <2>3, <3>1 DEF SetTo, RetryAllowed, StatusOf
  <2> QED
    BY <1>1, <2>2, <2>3 DEF Authorize
<1>2. ASSUME NEW c \in Callers, ReadCall(c) PROVE OneRunner'
  BY <1>2 DEF ReadCall, Settled
<1>3. ASSUME NEW c \in Callers, InsertCall(c) PROVE OneRunner'
  BY <1>3 DEF InsertCall
<1>4. ASSUME NEW c \in Callers, RetryCall(c) PROVE OneRunner'
  BY <1>4 DEF RetryCall
<1>5. ASSUME NEW c \in Callers, Run(c) PROVE OneRunner'
  BY <1>5 DEF Run
<1>6. ASSUME NEW c \in Callers, Answer(c) PROVE OneRunner'
  BY <1>6 DEF Answer
<1>7. ASSUME NEW c \in Callers, Complete(c) PROVE OneRunner'
  <2>1. PICK k \in Requests : k = request[c]
    OBVIOUS
  <2>2. pc[c] = "complete" /\ UNCHANGED <<clock, overlapped, approvals, call, executed, request>>
    BY <1>7 DEF Complete
  <2>3. CASE StatusOf(k) = "in_flight"
    <3>1. SetStatus(k, "completed") /\ pc' = [pc EXCEPT ![c] = "store"]
      BY <1>7, <2>1, <2>3 DEF Complete, Finishable
    <3>2. SetTo(k, "completed")
      BY <3>1, StatusWritten
    <3> QED
      BY <2>1, <2>2, <2>3, <3>1, <3>2 DEF SetTo, StatusOf
  <2>4. CASE StatusOf(k) # "in_flight"
    BY <1>7, <2>1, <2>2, <2>4 DEF Complete, Finishable, StatusOf
  <2> QED
    BY <2>3, <2>4
<1>8. ASSUME NEW c \in Callers, Store(c) PROVE OneRunner'
  BY <1>8 DEF Store, StatusOf
<1>9. ASSUME NEW c \in Callers, Reject(c) PROVE OneRunner'
  <2>1. PICK k \in Requests : k = request[c]
    OBVIOUS
  <2>2. /\ pc[c] = "reject" /\ pc' = [pc EXCEPT ![c] = "idle"]
        /\ UNCHANGED <<clock, overlapped, approvals, executed, request>>
    BY <1>9 DEF Reject
  <2>3. CASE UNCHANGED <<reservation, call>>
    BY <2>1, <2>2, <2>3 DEF StatusOf
  <2>4. CASE ~UNCHANGED <<reservation, call>>
    <3>1. /\ StatusOf(k) = "in_flight" /\ call[k] = "in_flight"
          /\ call' = [call EXCEPT ![k] = "provider_rejected"]
          /\ \E retryable \in BOOLEAN :
                reservation' = [reservation EXCEPT ![k] = Rejected(k, retryable)]
      BY <1>9, <2>1, <2>4 DEF Reject, Finishable
    <3>2. RejectedTo(k)
      BY <3>1, RejectionWritten
    <3> QED
      BY <2>1, <2>2, <3>1, <3>2 DEF RejectedTo, StatusOf
  <2> QED
    BY <2>3, <2>4
<1>10. ASSUME NEW c \in Callers, GiveUp(c) PROVE OneRunner'
  <2>1. PICK k \in Requests : k = request[c]
    OBVIOUS
  <2>2. pc[c] = "give_up" /\ UNCHANGED <<clock, overlapped, approvals, call, executed, request>>
    BY <1>10 DEF GiveUp
  <2>3. CASE StatusOf(k) = "in_flight"
    <3>1. SetStatus(k, "unknown_outcome") /\ pc' = [pc EXCEPT ![c] = "mark"]
      BY <1>10, <2>1, <2>3 DEF GiveUp, Finishable
    <3>2. SetTo(k, "unknown_outcome")
      BY <3>1, StatusWritten
    <3> QED
      BY <2>1, <2>2, <2>3, <3>1, <3>2 DEF SetTo, StatusOf
  <2>4. CASE StatusOf(k) # "in_flight"
    BY <1>10, <2>1, <2>2, <2>4 DEF GiveUp, Finishable, StatusOf
  <2> QED
    BY <2>3, <2>4
<1>11. ASSUME NEW c \in Callers, Mark(c) PROVE OneRunner'
  BY <1>11 DEF Mark, StatusOf
<1>12. ASSUME NEW c \in Callers, Crash(c) PROVE OneRunner'
  BY <1>12 DEF Crash
<1>13. CASE Approve
  BY <1>13 DEF Approve
<1>14. CASE Advance
  BY <1>14 DEF Advance
<1>15. CASE UNCHANGED vars
  BY <1>15 DEF vars
<1> QED
  BY <1>1, <1>2, <1>3, <1>4, <1>5, <1>6, <1>7, <1>8, <1>9, <1>10, <1>11, <1>12, <1>13, <1>14,
     <1>15 DEF Next, Caller

\* One more run starts only from none.
LEMMA OnceStep ==
  ASSUME TypeOK, OneRunner, SingleExecution, [Next]_vars
  PROVE  SingleExecution'
<1> USE DEF TypeOK, OneRunner, SingleExecution, Goto, tables
<1>1. ASSUME NEW c \in Callers, NEW k \in Requests, Authorize(c, k) PROVE SingleExecution'
  <2>1. /\ pc[c] = "idle" /\ pc' = [pc EXCEPT ![c] = "read"] /\ request' = [request EXCEPT ![c] = k]
        /\ UNCHANGED <<clock, approvals, call, executed>>
    BY <1>1 DEF Authorize
  <2>2. CASE StatusOf(k) \in {"in_flight", "completed"} /\ reservation' = reservation
    BY <2>1, <2>2 DEF StatusOf
  <2>3. CASE /\ StatusOf(k) = "absent" \/ (StatusOf(k) = "provider_rejected" /\ RetryAllowed(k))
             /\ SetStatus(k, "in_flight")
    <3>1. SetTo(k, "in_flight")
      BY <2>3, StatusWritten DEF Statuses
    <3> QED
      BY <2>1, <2>3, <3>1 DEF SetTo, RetryAllowed, StatusOf
  <2> QED
    BY <1>1, <2>2, <2>3 DEF Authorize
<1>2. ASSUME NEW c \in Callers, ReadCall(c) PROVE SingleExecution'
  BY <1>2 DEF ReadCall, Settled
<1>3. ASSUME NEW c \in Callers, InsertCall(c) PROVE SingleExecution'
  BY <1>3 DEF InsertCall
<1>4. ASSUME NEW c \in Callers, RetryCall(c) PROVE SingleExecution'
  BY <1>4 DEF RetryCall
<1>5. ASSUME NEW c \in Callers, Run(c) PROVE SingleExecution'
  BY <1>5 DEF Run
<1>6. ASSUME NEW c \in Callers, Answer(c) PROVE SingleExecution'
  BY <1>6 DEF Answer
<1>7. ASSUME NEW c \in Callers, Complete(c) PROVE SingleExecution'
  <2>1. PICK k \in Requests : k = request[c]
    OBVIOUS
  <2>2. pc[c] = "complete" /\ UNCHANGED <<clock, overlapped, approvals, call, executed, request>>
    BY <1>7 DEF Complete
  <2>3. CASE StatusOf(k) = "in_flight"
    <3>1. SetStatus(k, "completed") /\ pc' = [pc EXCEPT ![c] = "store"]
      BY <1>7, <2>1, <2>3 DEF Complete, Finishable
    <3>2. SetTo(k, "completed")
      BY <3>1, StatusWritten DEF Statuses
    <3> QED
      BY <2>1, <2>2, <2>3, <3>1, <3>2 DEF SetTo, StatusOf
  <2>4. CASE StatusOf(k) # "in_flight"
    BY <1>7, <2>1, <2>2, <2>4 DEF Complete, Finishable, StatusOf
  <2> QED
    BY <2>3, <2>4
<1>8. ASSUME NEW c \in Callers, Store(c) PROVE SingleExecution'
  BY <1>8 DEF Store, StatusOf
<1>9. ASSUME NEW c \in Callers, Reject(c) PROVE SingleExecution'
  <2>1. PICK k \in Requests : k = request[c]
    OBVIOUS
  <2>2. /\ pc[c] = "reject" /\ pc' = [pc EXCEPT ![c] = "idle"]
        /\ UNCHANGED <<clock, overlapped, approvals, executed, request>>
    BY <1>9 DEF Reject
  <2>3. CASE UNCHANGED <<reservation, call>>
    BY <2>1, <2>2, <2>3 DEF StatusOf
  <2>4. CASE ~UNCHANGED <<reservation, call>>
    <3>1. /\ StatusOf(k) = "in_flight" /\ call[k] = "in_flight"
          /\ call' = [call EXCEPT ![k] = "provider_rejected"]
          /\ \E retryable \in BOOLEAN :
                reservation' = [reservation EXCEPT ![k] = Rejected(k, retryable)]
      BY <1>9, <2>1, <2>4 DEF Reject, Finishable
    <3>2. RejectedTo(k)
      BY <3>1, RejectionWritten
    <3> QED
      BY <2>1, <2>2, <3>1, <3>2 DEF RejectedTo, StatusOf
  <2> QED
    BY <2>3, <2>4
<1>10. ASSUME NEW c \in Callers, GiveUp(c) PROVE SingleExecution'
  <2>1. PICK k \in Requests : k = request[c]
    OBVIOUS
  <2>2. pc[c] = "give_up" /\ UNCHANGED <<clock, overlapped, approvals, call, executed, request>>
    BY <1>10 DEF GiveUp
  <2>3. CASE StatusOf(k) = "in_flight"
    <3>1. SetStatus(k, "unknown_outcome") /\ pc' = [pc EXCEPT ![c] = "mark"]
      BY <1>10, <2>1, <2>3 DEF GiveUp, Finishable
    <3>2. SetTo(k, "unknown_outcome")
      BY <3>1, StatusWritten DEF Statuses
    <3> QED
      BY <2>1, <2>2, <2>3, <3>1, <3>2 DEF SetTo, StatusOf
  <2>4. CASE StatusOf(k) # "in_flight"
    BY <1>10, <2>1, <2>2, <2>4 DEF GiveUp, Finishable, StatusOf
  <2> QED
    BY <2>3, <2>4
<1>11. ASSUME NEW c \in Callers, Mark(c) PROVE SingleExecution'
  BY <1>11 DEF Mark, StatusOf
<1>12. ASSUME NEW c \in Callers, Crash(c) PROVE SingleExecution'
  BY <1>12 DEF Crash
<1>13. CASE Approve
  BY <1>13 DEF Approve
<1>14. CASE Advance
  BY <1>14 DEF Advance
<1>15. CASE UNCHANGED vars
  BY <1>15 DEF vars
<1> QED
  BY <1>1, <1>2, <1>3, <1>4, <1>5, <1>6, <1>7, <1>8, <1>9, <1>10, <1>11, <1>12, <1>13, <1>14,
     <1>15 DEF Next, Caller

\* The two settling transactions stay consistent.
LEMMA SettlingStep ==
  ASSUME TypeOK, OneRunner, Settling, [Next]_vars
  PROVE  Settling'
<1> USE DEF TypeOK, Reservations, OneRunner, Running, Settling, TablesAgree, Settled, StatusOf,
     Goto, tables
<1>1. ASSUME NEW c \in Callers, NEW k \in Requests, Authorize(c, k) PROVE Settling'
  <2>1. /\ pc[c] = "idle" /\ pc' = [pc EXCEPT ![c] = "read"] /\ request' = [request EXCEPT ![c] = k]
        /\ UNCHANGED <<clock, approvals, call, executed>>
    BY <1>1 DEF Authorize
  <2>2. CASE StatusOf(k) \in {"in_flight", "completed"} /\ reservation' = reservation
    BY <2>1, <2>2
  <2>3. CASE /\ StatusOf(k) = "absent" \/ (StatusOf(k) = "provider_rejected" /\ RetryAllowed(k))
             /\ SetStatus(k, "in_flight")
    <3>1. SetTo(k, "in_flight")
      BY <2>3, StatusWritten DEF Statuses
    <3> QED
      <4>1. call[k] \notin Settled /\ call' = call
        BY <2>1, <2>3
      <4>2. TablesAgree'
        BY <3>1, <4>1 DEF SetTo
      <4>3. \A d \in Callers : pc'[d] \in {"store", "mark"} =>
              pc'[d] = pc[d] /\ request'[d] = request[d] /\ request[d] \in Requests \ {k}
        BY <2>1, <2>3
      <4> QED
        BY <3>1, <4>2, <4>3 DEF SetTo
  <2> QED
    BY <1>1, <2>2, <2>3 DEF Authorize
<1>2. ASSUME NEW c \in Callers, ReadCall(c) PROVE Settling'
  BY <1>2 DEF ReadCall
<1>3. ASSUME NEW c \in Callers, InsertCall(c) PROVE Settling'
  BY <1>3 DEF InsertCall
<1>4. ASSUME NEW c \in Callers, RetryCall(c) PROVE Settling'
  BY <1>4 DEF RetryCall
<1>5. ASSUME NEW c \in Callers, Run(c) PROVE Settling'
  BY <1>5 DEF Run
<1>6. ASSUME NEW c \in Callers, Answer(c) PROVE Settling'
  BY <1>6 DEF Answer
<1>7. ASSUME NEW c \in Callers, Complete(c) PROVE Settling'
  <2>1. PICK k \in Requests : k = request[c]
    OBVIOUS
  <2>2. pc[c] = "complete" /\ UNCHANGED <<clock, overlapped, approvals, call, executed, request>>
    BY <1>7 DEF Complete
  <2>3. CASE StatusOf(k) = "in_flight"
    <3>1. SetStatus(k, "completed") /\ pc' = [pc EXCEPT ![c] = "store"]
      BY <1>7, <2>1, <2>3 DEF Complete, Finishable
    <3>2. SetTo(k, "completed")
      BY <3>1, StatusWritten DEF Statuses
    <3> QED
      BY <2>1, <2>2, <2>3, <3>1, <3>2 DEF SetTo
  <2>4. CASE StatusOf(k) # "in_flight"
    BY <1>7, <2>1, <2>2, <2>4 DEF Complete, Finishable
  <2> QED
    BY <2>3, <2>4
<1>8. ASSUME NEW c \in Callers, Store(c) PROVE Settling'
  BY <1>8 DEF Store
<1>9. ASSUME NEW c \in Callers, Reject(c) PROVE Settling'
  <2>1. PICK k \in Requests : k = request[c]
    OBVIOUS
  <2>2. /\ pc[c] = "reject" /\ pc' = [pc EXCEPT ![c] = "idle"]
        /\ UNCHANGED <<clock, overlapped, approvals, executed, request>>
    BY <1>9 DEF Reject
  <2>3. CASE UNCHANGED <<reservation, call>>
    BY <2>1, <2>2, <2>3
  <2>4. CASE ~UNCHANGED <<reservation, call>>
    <3>1. /\ StatusOf(k) = "in_flight" /\ call[k] = "in_flight"
          /\ call' = [call EXCEPT ![k] = "provider_rejected"]
          /\ \E retryable \in BOOLEAN :
                reservation' = [reservation EXCEPT ![k] = Rejected(k, retryable)]
      BY <1>9, <2>1, <2>4 DEF Reject, Finishable
    <3>2. RejectedTo(k)
      BY <3>1, RejectionWritten
    <3> QED
      BY <2>1, <2>2, <3>1, <3>2 DEF RejectedTo
  <2> QED
    BY <2>3, <2>4
<1>10. ASSUME NEW c \in Callers, GiveUp(c) PROVE Settling'
  <2>1. PICK k \in Requests : k = request[c]
    OBVIOUS
  <2>2. pc[c] = "give_up" /\ UNCHANGED <<clock, overlapped, approvals, call, executed, request>>
    BY <1>10 DEF GiveUp
  <2>3. CASE StatusOf(k) = "in_flight"
    <3>1. SetStatus(k, "unknown_outcome") /\ pc' = [pc EXCEPT ![c] = "mark"]
      BY <1>10, <2>1, <2>3 DEF GiveUp, Finishable
    <3>2. SetTo(k, "unknown_outcome")
      BY <3>1, StatusWritten DEF Statuses
    <3> QED
      <4>1. call[k] \notin Settled
        BY <2>3
      <4>2. TablesAgree'
        BY <2>2, <3>2, <4>1 DEF SetTo
      <4>3. \A d \in Callers : pc'[d] = "store" => pc[d] = "store" /\ request[d] \in Requests \ {k}
        BY <2>1, <2>3, <3>1
      <4>4. \A d \in Callers : pc'[d] = "mark" =>
              d = c \/ (pc[d] = "mark" /\ request[d] \in Requests \ {k})
        BY <2>1, <2>3, <3>1
      <4> QED
        BY <2>1, <2>2, <3>2, <4>2, <4>3, <4>4 DEF SetTo
  <2>4. CASE StatusOf(k) # "in_flight"
    BY <1>10, <2>1, <2>2, <2>4 DEF GiveUp, Finishable
  <2> QED
    BY <2>3, <2>4
<1>11. ASSUME NEW c \in Callers, Mark(c) PROVE Settling'
  BY <1>11 DEF Mark
<1>12. ASSUME NEW c \in Callers, Crash(c) PROVE Settling'
  BY <1>12 DEF Crash
<1>13. CASE Approve
  BY <1>13 DEF Approve
<1>14. CASE Advance
  BY <1>14 DEF Advance
<1>15. CASE UNCHANGED vars
  BY <1>15 DEF vars
<1> QED
  BY <1>1, <1>2, <1>3, <1>4, <1>5, <1>6, <1>7, <1>8, <1>9, <1>10, <1>11, <1>12, <1>13, <1>14,
     <1>15 DEF Next, Caller

\* A reported outage is not reported again.
LEMMA AlertStep ==
  ASSUME TypeOK, OneAlert, [Next]_vars
  PROVE  OneAlert'
<1>0. \A k \in Requests : reservation[k].alerts \in {0, 1}
  <2> SUFFICES ASSUME NEW k \in Requests PROVE reservation[k].alerts \in {0, 1}
    OBVIOUS
  <2>1. reservation[k].alerts \in Nat
    BY DEF TypeOK, Reservations
  <2>2. reservation[k].alerts <= 1
    BY DEF OneAlert
  <2> HIDE DEF OneAlert
  <2> QED
    BY <2>1, <2>2
<1> USE RetryAssumption DEF TypeOK, Reservations, OneAlert, Goto, tables
<1>1. ASSUME NEW c \in Callers, NEW k \in Requests, Authorize(c, k) PROVE OneAlert'
  <2>1. /\ pc[c] = "idle" /\ pc' = [pc EXCEPT ![c] = "read"] /\ request' = [request EXCEPT ![c] = k]
        /\ UNCHANGED <<clock, approvals, call, executed>>
    BY <1>1 DEF Authorize
  <2>2. CASE StatusOf(k) \in {"in_flight", "completed"} /\ reservation' = reservation
    BY <2>1, <2>2 DEF StatusOf
  <2>3. CASE /\ StatusOf(k) = "absent" \/ (StatusOf(k) = "provider_rejected" /\ RetryAllowed(k))
             /\ SetStatus(k, "in_flight")
    <3>1. SetTo(k, "in_flight")
      BY <2>3, StatusWritten DEF Statuses
    <3> QED
      BY <2>1, <2>3, <3>1 DEF SetTo, RetryAllowed, StatusOf
  <2> QED
    BY <1>1, <2>2, <2>3 DEF Authorize
<1>2. ASSUME NEW c \in Callers, ReadCall(c) PROVE OneAlert'
  BY <1>2 DEF ReadCall, Settled
<1>3. ASSUME NEW c \in Callers, InsertCall(c) PROVE OneAlert'
  BY <1>3 DEF InsertCall
<1>4. ASSUME NEW c \in Callers, RetryCall(c) PROVE OneAlert'
  BY <1>4 DEF RetryCall
<1>5. ASSUME NEW c \in Callers, Run(c) PROVE OneAlert'
  BY <1>5 DEF Run
<1>6. ASSUME NEW c \in Callers, Answer(c) PROVE OneAlert'
  BY <1>6 DEF Answer
<1>7. ASSUME NEW c \in Callers, Complete(c) PROVE OneAlert'
  <2>1. PICK k \in Requests : k = request[c]
    OBVIOUS
  <2>2. pc[c] = "complete" /\ UNCHANGED <<clock, overlapped, approvals, call, executed, request>>
    BY <1>7 DEF Complete
  <2>3. CASE StatusOf(k) = "in_flight"
    <3>1. SetStatus(k, "completed") /\ pc' = [pc EXCEPT ![c] = "store"]
      BY <1>7, <2>1, <2>3 DEF Complete, Finishable
    <3>2. SetTo(k, "completed")
      BY <3>1, StatusWritten DEF Statuses
    <3> QED
      BY <2>1, <2>2, <2>3, <3>1, <3>2 DEF SetTo, StatusOf
  <2>4. CASE StatusOf(k) # "in_flight"
    BY <1>7, <2>1, <2>2, <2>4 DEF Complete, Finishable, StatusOf
  <2> QED
    BY <2>3, <2>4
<1>8. ASSUME NEW c \in Callers, Store(c) PROVE OneAlert'
  BY <1>8 DEF Store, StatusOf
<1>9. ASSUME NEW c \in Callers, Reject(c) PROVE OneAlert'
  <2>1. PICK k \in Requests : k = request[c]
    OBVIOUS
  <2>2. /\ pc[c] = "reject" /\ pc' = [pc EXCEPT ![c] = "idle"]
        /\ UNCHANGED <<clock, overlapped, approvals, executed, request>>
    BY <1>9 DEF Reject
  <2>3. CASE UNCHANGED <<reservation, call>>
    BY <2>1, <2>2, <2>3 DEF StatusOf
  <2>4. CASE ~UNCHANGED <<reservation, call>>
    <3>1. /\ StatusOf(k) = "in_flight" /\ call[k] = "in_flight"
          /\ call' = [call EXCEPT ![k] = "provider_rejected"]
          /\ \E retryable \in BOOLEAN :
                reservation' = [reservation EXCEPT ![k] = Rejected(k, retryable)]
      BY <1>9, <2>1, <2>4 DEF Reject, Finishable
    <3>2. RejectedTo(k)
      BY <3>1, RejectionWritten
    <3> QED
      <4>1. reservation[k] \in Reservations /\ reservation'[k] \in Reservations
        BY <3>2 DEF RejectedTo
      <4>3. reservation'[k].alerts = 1 \/ (reservation'[k].alerts = 0 /\ reservation'[k].retryable
              /\ ~(reservation'[k].failures >= AlertThreshold))
        BY <1>0, <3>2, <4>1 DEF RejectedTo
      <4> QED
        BY <3>2, <4>3 DEF RejectedTo
  <2> QED
    BY <2>3, <2>4
<1>10. ASSUME NEW c \in Callers, GiveUp(c) PROVE OneAlert'
  <2>1. PICK k \in Requests : k = request[c]
    OBVIOUS
  <2>2. pc[c] = "give_up" /\ UNCHANGED <<clock, overlapped, approvals, call, executed, request>>
    BY <1>10 DEF GiveUp
  <2>3. CASE StatusOf(k) = "in_flight"
    <3>1. SetStatus(k, "unknown_outcome") /\ pc' = [pc EXCEPT ![c] = "mark"]
      BY <1>10, <2>1, <2>3 DEF GiveUp, Finishable
    <3>2. SetTo(k, "unknown_outcome")
      BY <3>1, StatusWritten DEF Statuses
    <3> QED
      BY <2>1, <2>2, <2>3, <3>1, <3>2 DEF SetTo, StatusOf
  <2>4. CASE StatusOf(k) # "in_flight"
    BY <1>10, <2>1, <2>2, <2>4 DEF GiveUp, Finishable, StatusOf
  <2> QED
    BY <2>3, <2>4
<1>11. ASSUME NEW c \in Callers, Mark(c) PROVE OneAlert'
  BY <1>11 DEF Mark, StatusOf
<1>12. ASSUME NEW c \in Callers, Crash(c) PROVE OneAlert'
  BY <1>12 DEF Crash
<1>13. CASE Approve
  BY <1>13 DEF Approve
<1>14. CASE Advance
  BY <1>14 DEF Advance
<1>15. CASE UNCHANGED vars
  BY <1>15 DEF vars
<1> QED
  BY <1>1, <1>2, <1>3, <1>4, <1>5, <1>6, <1>7, <1>8, <1>9, <1>10, <1>11, <1>12, <1>13, <1>14,
     <1>15 DEF Next, Caller

\* Only an elapsed backoff reopens a reservation.
LEMMA OpenedStep ==
  ASSUME TypeOK, Opened, [Next]_vars
  PROVE  Opened'
<1> USE RetryAssumption, ClockAssumption DEF TypeOK, Reservations, Opened, Goto, tables
<1>1. ASSUME NEW c \in Callers, NEW k \in Requests, Authorize(c, k) PROVE Opened'
  <2>1. /\ pc[c] = "idle" /\ pc' = [pc EXCEPT ![c] = "read"] /\ request' = [request EXCEPT ![c] = k]
        /\ UNCHANGED <<clock, approvals, call, executed>>
    BY <1>1 DEF Authorize
  <2>2. CASE StatusOf(k) \in {"in_flight", "completed"} /\ reservation' = reservation
    BY <2>1, <2>2 DEF StatusOf
  <2>3. CASE /\ StatusOf(k) = "absent" \/ (StatusOf(k) = "provider_rejected" /\ RetryAllowed(k))
             /\ SetStatus(k, "in_flight")
    <3>1. SetTo(k, "in_flight")
      BY <2>3, StatusWritten DEF Statuses
    <3> QED
      BY <2>1, <2>3, <3>1 DEF SetTo, RetryAllowed, StatusOf
  <2> QED
    BY <1>1, <2>2, <2>3 DEF Authorize
<1>2. ASSUME NEW c \in Callers, ReadCall(c) PROVE Opened'
  BY <1>2 DEF ReadCall, Settled
<1>3. ASSUME NEW c \in Callers, InsertCall(c) PROVE Opened'
  BY <1>3 DEF InsertCall
<1>4. ASSUME NEW c \in Callers, RetryCall(c) PROVE Opened'
  BY <1>4 DEF RetryCall
<1>5. ASSUME NEW c \in Callers, Run(c) PROVE Opened'
  BY <1>5 DEF Run
<1>6. ASSUME NEW c \in Callers, Answer(c) PROVE Opened'
  BY <1>6 DEF Answer
<1>7. ASSUME NEW c \in Callers, Complete(c) PROVE Opened'
  <2>1. PICK k \in Requests : k = request[c]
    OBVIOUS
  <2>2. pc[c] = "complete" /\ UNCHANGED <<clock, overlapped, approvals, call, executed, request>>
    BY <1>7 DEF Complete
  <2>3. CASE StatusOf(k) = "in_flight"
    <3>1. SetStatus(k, "completed") /\ pc' = [pc EXCEPT ![c] = "store"]
      BY <1>7, <2>1, <2>3 DEF Complete, Finishable
    <3>2. SetTo(k, "completed")
      BY <3>1, StatusWritten DEF Statuses
    <3> QED
      BY <2>1, <2>2, <2>3, <3>1, <3>2 DEF SetTo, StatusOf
  <2>4. CASE StatusOf(k) # "in_flight"
    BY <1>7, <2>1, <2>2, <2>4 DEF Complete, Finishable, StatusOf
  <2> QED
    BY <2>3, <2>4
<1>8. ASSUME NEW c \in Callers, Store(c) PROVE Opened'
  BY <1>8 DEF Store, StatusOf
<1>9. ASSUME NEW c \in Callers, Reject(c) PROVE Opened'
  <2>1. PICK k \in Requests : k = request[c]
    OBVIOUS
  <2>2. /\ pc[c] = "reject" /\ pc' = [pc EXCEPT ![c] = "idle"]
        /\ UNCHANGED <<clock, overlapped, approvals, executed, request>>
    BY <1>9 DEF Reject
  <2>3. CASE UNCHANGED <<reservation, call>>
    BY <2>1, <2>2, <2>3 DEF StatusOf
  <2>4. CASE ~UNCHANGED <<reservation, call>>
    <3>1. /\ StatusOf(k) = "in_flight" /\ call[k] = "in_flight"
          /\ call' = [call EXCEPT ![k] = "provider_rejected"]
          /\ \E retryable \in BOOLEAN :
                reservation' = [reservation EXCEPT ![k] = Rejected(k, retryable)]
      BY <1>9, <2>1, <2>4 DEF Reject, Finishable
    <3>2. RejectedTo(k)
      BY <3>1, RejectionWritten
    <3> QED
      BY <2>1, <2>2, <3>1, <3>2 DEF RejectedTo, StatusOf
  <2> QED
    BY <2>3, <2>4
<1>10. ASSUME NEW c \in Callers, GiveUp(c) PROVE Opened'
  <2>1. PICK k \in Requests : k = request[c]
    OBVIOUS
  <2>2. pc[c] = "give_up" /\ UNCHANGED <<clock, overlapped, approvals, call, executed, request>>
    BY <1>10 DEF GiveUp
  <2>3. CASE StatusOf(k) = "in_flight"
    <3>1. SetStatus(k, "unknown_outcome") /\ pc' = [pc EXCEPT ![c] = "mark"]
      BY <1>10, <2>1, <2>3 DEF GiveUp, Finishable
    <3>2. SetTo(k, "unknown_outcome")
      BY <3>1, StatusWritten DEF Statuses
    <3> QED
      BY <2>1, <2>2, <2>3, <3>1, <3>2 DEF SetTo, StatusOf
  <2>4. CASE StatusOf(k) # "in_flight"
    BY <1>10, <2>1, <2>2, <2>4 DEF GiveUp, Finishable, StatusOf
  <2> QED
    BY <2>3, <2>4
<1>11. ASSUME NEW c \in Callers, Mark(c) PROVE Opened'
  BY <1>11 DEF Mark, StatusOf
<1>12. ASSUME NEW c \in Callers, Crash(c) PROVE Opened'
  BY <1>12 DEF Crash
<1>13. CASE Approve
  BY <1>13 DEF Approve
<1>14. CASE Advance
  BY <1>14 DEF Advance
<1>15. CASE UNCHANGED vars
  BY <1>15 DEF vars
<1> QED
  BY <1>1, <1>2, <1>3, <1>4, <1>5, <1>6, <1>7, <1>8, <1>9, <1>10, <1>11, <1>12, <1>13, <1>14,
     <1>15 DEF Next, Caller

\* An overlap is never forgotten.
LEMMA OverlapStays ==
  ASSUME [Next]_vars, overlapped
  PROVE  overlapped'
BY DEF Next, Caller, Authorize, ReadCall, InsertCall, RetryCall, Run, Answer, Complete, Store,
   Reject, GiveUp, Mark, Crash, Approve, Advance, vars

\* Without overlaps nobody joins a request that has a caller.
LEMMA OneCallerStep ==
  ASSUME TypeOK, ~overlapped', OneCaller, [Next]_vars
  PROVE  OneCaller'
<1> USE DEF TypeOK, Reservations, OneCaller, Goto, tables
<1>1. ASSUME NEW c \in Callers, NEW k \in Requests, Authorize(c, k) PROVE OneCaller'
  <2>1. /\ pc[c] = "idle" /\ pc' = [pc EXCEPT ![c] = "read"] /\ request' = [request EXCEPT ![c] = k]
        /\ overlapped' = (overlapped \/ \E d \in Callers : pc[d] # "idle" /\ request[d] = k)
        /\ UNCHANGED <<clock, approvals, call, executed>>
    BY <1>1 DEF Authorize
  <2>2. \A d \in Callers : pc[d] # "idle" => request[d] # k
    BY <2>1
  <2> QED
    BY <2>1, <2>2
<1>2. ASSUME NEW c \in Callers, ReadCall(c) PROVE OneCaller'
  BY <1>2 DEF ReadCall, Settled
<1>3. ASSUME NEW c \in Callers, InsertCall(c) PROVE OneCaller'
  BY <1>3 DEF InsertCall
<1>4. ASSUME NEW c \in Callers, RetryCall(c) PROVE OneCaller'
  BY <1>4 DEF RetryCall
<1>5. ASSUME NEW c \in Callers, Run(c) PROVE OneCaller'
  BY <1>5 DEF Run
<1>6. ASSUME NEW c \in Callers, Answer(c) PROVE OneCaller'
  BY <1>6 DEF Answer
<1>7. ASSUME NEW c \in Callers, Complete(c) PROVE OneCaller'
  <2>1. PICK k \in Requests : k = request[c]
    OBVIOUS
  <2>2. pc[c] = "complete" /\ UNCHANGED <<clock, overlapped, approvals, call, executed, request>>
    BY <1>7 DEF Complete
  <2>3. CASE StatusOf(k) = "in_flight"
    <3>1. SetStatus(k, "completed") /\ pc' = [pc EXCEPT ![c] = "store"]
      BY <1>7, <2>1, <2>3 DEF Complete, Finishable
    <3>2. SetTo(k, "completed")
      BY <3>1, StatusWritten DEF Statuses
    <3> QED
      BY <2>1, <2>2, <2>3, <3>1, <3>2 DEF SetTo, StatusOf
  <2>4. CASE StatusOf(k) # "in_flight"
    BY <1>7, <2>1, <2>2, <2>4 DEF Complete, Finishable, StatusOf
  <2> QED
    BY <2>3, <2>4
<1>8. ASSUME NEW c \in Callers, Store(c) PROVE OneCaller'
  BY <1>8 DEF Store, StatusOf
<1>9. ASSUME NEW c \in Callers, Reject(c) PROVE OneCaller'
  <2>1. PICK k \in Requests : k = request[c]
    OBVIOUS
  <2>2. /\ pc[c] = "reject" /\ pc' = [pc EXCEPT ![c] = "idle"]
        /\ UNCHANGED <<clock, overlapped, approvals, executed, request>>
    BY <1>9 DEF Reject
  <2>3. CASE UNCHANGED <<reservation, call>>
    BY <2>1, <2>2, <2>3 DEF StatusOf
  <2>4. CASE ~UNCHANGED <<reservation, call>>
    <3>1. /\ StatusOf(k) = "in_flight" /\ call[k] = "in_flight"
          /\ call' = [call EXCEPT ![k] = "provider_rejected"]
          /\ \E retryable \in BOOLEAN :
                reservation' = [reservation EXCEPT ![k] = Rejected(k, retryable)]
      BY <1>9, <2>1, <2>4 DEF Reject, Finishable
    <3>2. RejectedTo(k)
      BY <3>1, RejectionWritten
    <3> QED
      BY <2>1, <2>2, <3>1, <3>2 DEF RejectedTo, StatusOf
  <2> QED
    BY <2>3, <2>4
<1>10. ASSUME NEW c \in Callers, GiveUp(c) PROVE OneCaller'
  <2>1. PICK k \in Requests : k = request[c]
    OBVIOUS
  <2>2. pc[c] = "give_up" /\ UNCHANGED <<clock, overlapped, approvals, call, executed, request>>
    BY <1>10 DEF GiveUp
  <2>3. CASE StatusOf(k) = "in_flight"
    <3>1. SetStatus(k, "unknown_outcome") /\ pc' = [pc EXCEPT ![c] = "mark"]
      BY <1>10, <2>1, <2>3 DEF GiveUp, Finishable
    <3>2. SetTo(k, "unknown_outcome")
      BY <3>1, StatusWritten DEF Statuses
    <3> QED
      BY <2>1, <2>2, <2>3, <3>1, <3>2 DEF SetTo, StatusOf
  <2>4. CASE StatusOf(k) # "in_flight"
    BY <1>10, <2>1, <2>2, <2>4 DEF GiveUp, Finishable, StatusOf
  <2> QED
    BY <2>3, <2>4
<1>11. ASSUME NEW c \in Callers, Mark(c) PROVE OneCaller'
  BY <1>11 DEF Mark, StatusOf
<1>12. ASSUME NEW c \in Callers, Crash(c) PROVE OneCaller'
  BY <1>12 DEF Crash
<1>13. CASE Approve
  BY <1>13 DEF Approve
<1>14. CASE Advance
  BY <1>14 DEF Advance
<1>15. CASE UNCHANGED vars
  BY <1>15 DEF vars
<1> QED
  BY <1>1, <1>2, <1>3, <1>4, <1>5, <1>6, <1>7, <1>8, <1>9, <1>10, <1>11, <1>12, <1>13, <1>14,
     <1>15 DEF Next, Caller

\* A call that was never claimed is not completed.
LEMMA AnsweredStep ==
  ASSUME TypeOK, OneRunner, Settling, Answered, [Next]_vars
  PROVE  Answered'
<1> USE DEF StatusOf, TypeOK, Reservations, OneRunner, Running, Settling, TablesAgree, Settled,
     Answered, Goto, tables
<1>1. ASSUME NEW c \in Callers, NEW k \in Requests, Authorize(c, k) PROVE Answered'
  <2>1. /\ pc[c] = "idle" /\ pc' = [pc EXCEPT ![c] = "read"] /\ request' = [request EXCEPT ![c] = k]
        /\ UNCHANGED <<clock, approvals, call, executed>>
    BY <1>1 DEF Authorize
  <2>2. CASE StatusOf(k) \in {"in_flight", "completed"} /\ reservation' = reservation
    BY <2>1, <2>2
  <2>3. CASE /\ StatusOf(k) = "absent" \/ (StatusOf(k) = "provider_rejected" /\ RetryAllowed(k))
             /\ SetStatus(k, "in_flight")
    <3>1. SetTo(k, "in_flight")
      BY <2>3, StatusWritten DEF Statuses
    <3> QED
      BY <2>1, <2>3, <3>1 DEF SetTo, RetryAllowed
  <2> QED
    BY <1>1, <2>2, <2>3 DEF Authorize
<1>2. ASSUME NEW c \in Callers, ReadCall(c) PROVE Answered'
  BY <1>2 DEF ReadCall
<1>3. ASSUME NEW c \in Callers, InsertCall(c) PROVE Answered'
  BY <1>3 DEF InsertCall
<1>4. ASSUME NEW c \in Callers, RetryCall(c) PROVE Answered'
  BY <1>4 DEF RetryCall
<1>5. ASSUME NEW c \in Callers, Run(c) PROVE Answered'
  BY <1>5 DEF Run
<1>6. ASSUME NEW c \in Callers, Answer(c) PROVE Answered'
  BY <1>6 DEF Answer
<1>7. ASSUME NEW c \in Callers, Complete(c) PROVE Answered'
  <2>1. PICK k \in Requests : k = request[c]
    OBVIOUS
  <2>2. pc[c] = "complete" /\ UNCHANGED <<clock, overlapped, approvals, call, executed, request>>
    BY <1>7 DEF Complete
  <2>3. CASE StatusOf(k) = "in_flight"
    <3>1. SetStatus(k, "completed") /\ pc' = [pc EXCEPT ![c] = "store"]
      BY <1>7, <2>1, <2>3 DEF Complete, Finishable
    <3>2. SetTo(k, "completed")
      BY <3>1, StatusWritten DEF Statuses
    <3> QED
      BY <2>1, <2>2, <2>3, <3>1, <3>2 DEF SetTo
  <2>4. CASE StatusOf(k) # "in_flight"
    BY <1>7, <2>1, <2>2, <2>4 DEF Complete, Finishable
  <2> QED
    BY <2>3, <2>4
<1>8. ASSUME NEW c \in Callers, Store(c) PROVE Answered'
  BY <1>8 DEF Store
<1>9. ASSUME NEW c \in Callers, Reject(c) PROVE Answered'
  <2>1. PICK k \in Requests : k = request[c]
    OBVIOUS
  <2>2. /\ pc[c] = "reject" /\ pc' = [pc EXCEPT ![c] = "idle"]
        /\ UNCHANGED <<clock, overlapped, approvals, executed, request>>
    BY <1>9 DEF Reject
  <2>3. CASE UNCHANGED <<reservation, call>>
    BY <2>1, <2>2, <2>3
  <2>4. CASE ~UNCHANGED <<reservation, call>>
    <3>1. /\ StatusOf(k) = "in_flight" /\ call[k] = "in_flight"
          /\ call' = [call EXCEPT ![k] = "provider_rejected"]
          /\ \E retryable \in BOOLEAN :
                reservation' = [reservation EXCEPT ![k] = Rejected(k, retryable)]
      BY <1>9, <2>1, <2>4 DEF Reject, Finishable
    <3>2. RejectedTo(k)
      BY <3>1, RejectionWritten
    <3> QED
      BY <2>1, <2>2, <3>1, <3>2 DEF RejectedTo
  <2> QED
    BY <2>3, <2>4
<1>10. ASSUME NEW c \in Callers, GiveUp(c) PROVE Answered'
  <2>1. PICK k \in Requests : k = request[c]
    OBVIOUS
  <2>2. pc[c] = "give_up" /\ UNCHANGED <<clock, overlapped, approvals, call, executed, request>>
    BY <1>10 DEF GiveUp
  <2>3. CASE StatusOf(k) = "in_flight"
    <3>1. SetStatus(k, "unknown_outcome") /\ pc' = [pc EXCEPT ![c] = "mark"]
      BY <1>10, <2>1, <2>3 DEF GiveUp, Finishable
    <3>2. SetTo(k, "unknown_outcome")
      BY <3>1, StatusWritten DEF Statuses
    <3> QED
      BY <2>1, <2>2, <2>3, <3>1, <3>2 DEF SetTo
  <2>4. CASE StatusOf(k) # "in_flight"
    BY <1>10, <2>1, <2>2, <2>4 DEF GiveUp, Finishable
  <2> QED
    BY <2>3, <2>4
<1>11. ASSUME NEW c \in Callers, Mark(c) PROVE Answered'
  BY <1>11 DEF Mark
<1>12. ASSUME NEW c \in Callers, Crash(c) PROVE Answered'
  BY <1>12 DEF Crash
<1>13. CASE Approve
  BY <1>13 DEF Approve
<1>14. CASE Advance
  BY <1>14 DEF Advance
<1>15. CASE UNCHANGED vars
  BY <1>15 DEF vars
<1> QED
  BY <1>1, <1>2, <1>3, <1>4, <1>5, <1>6, <1>7, <1>8, <1>9, <1>10, <1>11, <1>12, <1>13, <1>14,
     <1>15 DEF Next, Caller

\* Without overlaps nobody else settles the reservation of a caller.
LEMMA ReservedStep ==
  ASSUME TypeOK, OneCaller, Answered, Reserved, [Next]_vars
  PROVE  Reserved'
<1> USE DEF StatusOf, TypeOK, Reservations, OneCaller, Answered, Reserved, Goto, tables
<1>1. ASSUME NEW c \in Callers, NEW k \in Requests, Authorize(c, k) PROVE Reserved'
  <2>1. /\ pc[c] = "idle" /\ pc' = [pc EXCEPT ![c] = "read"] /\ request' = [request EXCEPT ![c] = k]
        /\ UNCHANGED <<clock, approvals, call, executed>>
    BY <1>1 DEF Authorize
  <2>2. CASE StatusOf(k) \in {"in_flight", "completed"} /\ reservation' = reservation
    BY <2>1, <2>2
  <2>3. CASE /\ StatusOf(k) = "absent" \/ (StatusOf(k) = "provider_rejected" /\ RetryAllowed(k))
             /\ SetStatus(k, "in_flight")
    <3>1. SetTo(k, "in_flight")
      BY <2>3, StatusWritten DEF Statuses
    <3> QED
      BY <2>1, <2>3, <3>1 DEF SetTo, RetryAllowed
  <2> QED
    BY <1>1, <2>2, <2>3 DEF Authorize
<1>2. ASSUME NEW c \in Callers, ReadCall(c) PROVE Reserved'
  BY <1>2 DEF ReadCall, Settled
<1>3. ASSUME NEW c \in Callers, InsertCall(c) PROVE Reserved'
  BY <1>3 DEF InsertCall
<1>4. ASSUME NEW c \in Callers, RetryCall(c) PROVE Reserved'
  BY <1>4 DEF RetryCall
<1>5. ASSUME NEW c \in Callers, Run(c) PROVE Reserved'
  BY <1>5 DEF Run
<1>6. ASSUME NEW c \in Callers, Answer(c) PROVE Reserved'
  BY <1>6 DEF Answer
<1>7. ASSUME NEW c \in Callers, Complete(c) PROVE Reserved'
  <2>1. PICK k \in Requests : k = request[c]
    OBVIOUS
  <2>2. pc[c] = "complete" /\ UNCHANGED <<clock, overlapped, approvals, call, executed, request>>
    BY <1>7 DEF Complete
  <2>3. CASE StatusOf(k) = "in_flight"
    <3>1. SetStatus(k, "completed") /\ pc' = [pc EXCEPT ![c] = "store"]
      BY <1>7, <2>1, <2>3 DEF Complete, Finishable
    <3>2. SetTo(k, "completed")
      BY <3>1, StatusWritten DEF Statuses
    <3> QED
      BY <2>1, <2>2, <2>3, <3>1, <3>2 DEF SetTo
  <2>4. CASE StatusOf(k) # "in_flight"
    BY <1>7, <2>1, <2>2, <2>4 DEF Complete, Finishable
  <2> QED
    BY <2>3, <2>4
<1>8. ASSUME NEW c \in Callers, Store(c) PROVE Reserved'
  BY <1>8 DEF Store
<1>9. ASSUME NEW c \in Callers, Reject(c) PROVE Reserved'
  <2>1. PICK k \in Requests : k = request[c]
    OBVIOUS
  <2>2. /\ pc[c] = "reject" /\ pc' = [pc EXCEPT ![c] = "idle"]
        /\ UNCHANGED <<clock, overlapped, approvals, executed, request>>
    BY <1>9 DEF Reject
  <2>3. CASE UNCHANGED <<reservation, call>>
    BY <2>1, <2>2, <2>3
  <2>4. CASE ~UNCHANGED <<reservation, call>>
    <3>1. /\ StatusOf(k) = "in_flight" /\ call[k] = "in_flight"
          /\ call' = [call EXCEPT ![k] = "provider_rejected"]
          /\ \E retryable \in BOOLEAN :
                reservation' = [reservation EXCEPT ![k] = Rejected(k, retryable)]
      BY <1>9, <2>1, <2>4 DEF Reject, Finishable
    <3>2. RejectedTo(k)
      BY <3>1, RejectionWritten
    <3> QED
      BY <2>1, <2>2, <3>1, <3>2 DEF RejectedTo
  <2> QED
    BY <2>3, <2>4
<1>10. ASSUME NEW c \in Callers, GiveUp(c) PROVE Reserved'
  <2>1. PICK k \in Requests : k = request[c]
    OBVIOUS
  <2>2. pc[c] = "give_up" /\ UNCHANGED <<clock, overlapped, approvals, call, executed, request>>
    BY <1>10 DEF GiveUp
  <2>3. CASE StatusOf(k) = "in_flight"
    <3>1. SetStatus(k, "unknown_outcome") /\ pc' = [pc EXCEPT ![c] = "mark"]
      BY <1>10, <2>1, <2>3 DEF GiveUp, Finishable
    <3>2. SetTo(k, "unknown_outcome")
      BY <3>1, StatusWritten DEF Statuses
    <3> QED
      BY <2>1, <2>2, <2>3, <3>1, <3>2 DEF SetTo
  <2>4. CASE StatusOf(k) # "in_flight"
    BY <1>10, <2>1, <2>2, <2>4 DEF GiveUp, Finishable
  <2> QED
    BY <2>3, <2>4
<1>11. ASSUME NEW c \in Callers, Mark(c) PROVE Reserved'
  BY <1>11 DEF Mark
<1>12. ASSUME NEW c \in Callers, Crash(c) PROVE Reserved'
  BY <1>12 DEF Crash
<1>13. CASE Approve
  BY <1>13 DEF Approve
<1>14. CASE Advance
  BY <1>14 DEF Advance
<1>15. CASE UNCHANGED vars
  BY <1>15 DEF vars
<1> QED
  BY <1>1, <1>2, <1>3, <1>4, <1>5, <1>6, <1>7, <1>8, <1>9, <1>10, <1>11, <1>12, <1>13, <1>14,
     <1>15 DEF Next, Caller

\* Only a caller whose reservation is in flight reaches the provider.
LEMMA AccountedStep ==
  ASSUME TypeOK, OneRunner, Reserved, Accounted, [Next]_vars
  PROVE  Accounted'
<1> USE DEF TypeOK, Reservations, Statuses, OneRunner, Reserved, Accounted, Used, StatusOf, Goto,
     tables
<1>1. ASSUME NEW c \in Callers, NEW k \in Requests, Authorize(c, k) PROVE Accounted'
  <2>1. /\ pc[c] = "idle" /\ pc' = [pc EXCEPT ![c] = "read"] /\ request' = [request EXCEPT ![c] = k]
        /\ UNCHANGED <<clock, approvals, call, executed>>
    BY <1>1 DEF Authorize
  <2>2. CASE StatusOf(k) \in {"in_flight", "completed"} /\ reservation' = reservation
    BY <2>1, <2>2
  <2>3. CASE /\ StatusOf(k) = "absent" \/ (StatusOf(k) = "provider_rejected" /\ RetryAllowed(k))
             /\ SetStatus(k, "in_flight")
    <3>1. SetTo(k, "in_flight")
      BY <2>3, StatusWritten
    <3> QED
      BY <2>1, <2>3, <3>1 DEF SetTo, RetryAllowed
  <2> QED
    BY <1>1, <2>2, <2>3 DEF Authorize
<1>2. ASSUME NEW c \in Callers, ReadCall(c) PROVE Accounted'
  BY <1>2 DEF ReadCall, Settled
<1>3. ASSUME NEW c \in Callers, InsertCall(c) PROVE Accounted'
  BY <1>3 DEF InsertCall
<1>4. ASSUME NEW c \in Callers, RetryCall(c) PROVE Accounted'
  BY <1>4 DEF RetryCall
<1>5. ASSUME NEW c \in Callers, Run(c) PROVE Accounted'
  BY <1>5 DEF Run
<1>6. ASSUME NEW c \in Callers, Answer(c) PROVE Accounted'
  BY <1>6 DEF Answer
<1>7. ASSUME NEW c \in Callers, Complete(c) PROVE Accounted'
  <2>1. PICK k \in Requests : k = request[c]
    OBVIOUS
  <2>2. pc[c] = "complete" /\ UNCHANGED <<clock, overlapped, approvals, call, executed, request>>
    BY <1>7 DEF Complete
  <2>3. CASE StatusOf(k) = "in_flight"
    <3>1. SetStatus(k, "completed") /\ pc' = [pc EXCEPT ![c] = "store"]
      BY <1>7, <2>1, <2>3 DEF Complete, Finishable
    <3>2. SetTo(k, "completed")
      BY <3>1, StatusWritten
    <3> QED
      BY <2>1, <2>2, <2>3, <3>1, <3>2 DEF SetTo
  <2>4. CASE StatusOf(k) # "in_flight"
    BY <1>7, <2>1, <2>2, <2>4 DEF Complete, Finishable
  <2> QED
    BY <2>3, <2>4
<1>8. ASSUME NEW c \in Callers, Store(c) PROVE Accounted'
  BY <1>8 DEF Store
<1>9. ASSUME NEW c \in Callers, Reject(c) PROVE Accounted'
  <2>1. PICK k \in Requests : k = request[c]
    OBVIOUS
  <2>2. /\ pc[c] = "reject" /\ pc' = [pc EXCEPT ![c] = "idle"]
        /\ UNCHANGED <<clock, overlapped, approvals, executed, request>>
    BY <1>9 DEF Reject
  <2>3. CASE UNCHANGED <<reservation, call>>
    BY <2>1, <2>2, <2>3
  <2>4. CASE ~UNCHANGED <<reservation, call>>
    <3>1. /\ StatusOf(k) = "in_flight" /\ call[k] = "in_flight"
          /\ call' = [call EXCEPT ![k] = "provider_rejected"]
          /\ \E retryable \in BOOLEAN :
                reservation' = [reservation EXCEPT ![k] = Rejected(k, retryable)]
      BY <1>9, <2>1, <2>4 DEF Reject, Finishable
    <3>2. RejectedTo(k)
      BY <3>1, RejectionWritten
    <3> QED
      BY <2>1, <2>2, <3>1, <3>2 DEF RejectedTo
  <2> QED
    BY <2>3, <2>4
<1>10. ASSUME NEW c \in Callers, GiveUp(c) PROVE Accounted'
  <2>1. PICK k \in Requests : k = request[c]
    OBVIOUS
  <2>2. pc[c] = "give_up" /\ UNCHANGED <<clock, overlapped, approvals, call, executed, request>>
    BY <1>10 DEF GiveUp
  <2>3. CASE StatusOf(k) = "in_flight"
    <3>1. SetStatus(k, "unknown_outcome") /\ pc' = [pc EXCEPT ![c] = "mark"]
      BY <1>10, <2>1, <2>3 DEF GiveUp, Finishable
    <3>2. SetTo(k, "unknown_outcome")
      BY <3>1, StatusWritten
    <3> QED
      BY <2>1, <2>2, <2>3, <3>1, <3>2 DEF SetTo
  <2>4. CASE StatusOf(k) # "in_flight"
    BY <1>10, <2>1, <2>2, <2>4 DEF GiveUp, Finishable
  <2> QED
    BY <2>3, <2>4
<1>11. ASSUME NEW c \in Callers, Mark(c) PROVE Accounted'
  BY <1>11 DEF Mark
<1>12. ASSUME NEW c \in Callers, Crash(c) PROVE Accounted'
  BY <1>12 DEF Crash
<1>13. CASE Approve
  BY <1>13 DEF Approve
<1>14. CASE Advance
  BY <1>14 DEF Advance
<1>15. CASE UNCHANGED vars
  BY <1>15 DEF vars
<1> QED
  BY <1>1, <1>2, <1>3, <1>4, <1>5, <1>6, <1>7, <1>8, <1>9, <1>10, <1>11, <1>12, <1>13, <1>14,
     <1>15 DEF Next, Caller

\* Authorize reserves k or reopens it.
Opens(k) ==
    /\ StatusOf(k) \in {"absent", "provider_rejected"} /\ WithinBudget
    /\ SetTo(k, "in_flight")

\* What a step may do to the reservations: nothing, open one within the budget,
\* settle one that is in flight, or reject one that is in flight.
LEMMA ReservationSteps ==
  ASSUME TypeOK, [Next]_vars
  PROVE  \/ reservation' = reservation /\ approvals' \in Nat /\ approvals' >= approvals
         \/ /\ approvals' = approvals
            /\ \E k \in Requests :
                 \/ Opens(k)
                 \/ /\ StatusOf(k) = "in_flight"
                    /\ RejectedTo(k) \/ \E s \in Settled : SetTo(k, s)
<1> DEFINE Goal == \/ reservation' = reservation /\ approvals' \in Nat /\ approvals' >= approvals
                   \/ /\ approvals' = approvals
                      /\ \E k \in Requests :
                           \/ Opens(k)
                           \/ /\ StatusOf(k) = "in_flight"
                              /\ RejectedTo(k) \/ \E s \in Settled : SetTo(k, s)
<1>0. approvals \in Nat /\ \A c \in Callers : request[c] \in Requests
  BY LimitAssumption DEF TypeOK
<1>1. ASSUME NEW c \in Callers, NEW k \in Requests, Authorize(c, k) PROVE Goal
  <2>1. CASE SetStatus(k, "in_flight") /\ WithinBudget /\ StatusOf(k) \in {"absent",
     "provider_rejected"}
    <3>1. SetTo(k, "in_flight")
      BY <2>1, StatusWritten DEF Statuses
    <3> QED
      BY <1>1, <2>1, <3>1 DEF Authorize, Opens
  <2>2. CASE reservation' = reservation
    BY <1>0, <1>1, <2>2 DEF Authorize
  <2> QED
    BY <1>1, <2>1, <2>2 DEF Authorize
<1>2. ASSUME NEW c \in Callers, Complete(c) \/ GiveUp(c) PROVE Goal
  <2>1. ASSUME NEW k \in Requests, NEW s \in Settled, StatusOf(k) = "in_flight", SetStatus(k, s)
        PROVE  Goal
    <3>1. SetTo(k, s)
      BY <2>1, StatusWritten DEF Statuses, Settled
    <3> QED
      BY <1>2, <2>1, <3>1 DEF Complete, GiveUp
  <2>2. CASE reservation' = reservation
    BY <1>0, <1>2, <2>2 DEF Complete, GiveUp
  <2> QED
    BY <1>0, <1>2, <2>1, <2>2 DEF Complete, GiveUp, Finishable, Settled
<1>3. ASSUME NEW c \in Callers, Reject(c) PROVE Goal
  <2>1. CASE reservation' = reservation
    BY <1>0, <1>3, <2>1 DEF Reject
  <2>2. ASSUME NEW k \in Requests, NEW b \in BOOLEAN, StatusOf(k) = "in_flight",
               reservation' = [reservation EXCEPT ![k] = Rejected(k, b)]
        PROVE  Goal
    <3>1. RejectedTo(k)
      BY <2>2, RejectionWritten
    <3> QED
      BY <1>3, <2>2, <3>1 DEF Reject
  <2> QED
    BY <1>0, <1>3, <2>1, <2>2 DEF Reject, Finishable
<1>4. ASSUME NEW c \in Callers,
             ReadCall(c) \/ InsertCall(c) \/ RetryCall(c) \/ Run(c) \/ Answer(c) \/ Store(c)
               \/ Mark(c) \/ Crash(c)
      PROVE  Goal
  BY <1>0, <1>4 DEF ReadCall, InsertCall, RetryCall, Run, Answer, Store, Mark, Crash, tables
<1>5. ASSUME Approve \/ Advance \/ UNCHANGED vars PROVE Goal
  BY <1>0, <1>5 DEF Approve, Advance, vars, tables
<1> HIDE DEF Goal
<1>6. ASSUME NEW c \in Callers, Caller(c) PROVE Goal
  BY <1>1, <1>2, <1>3, <1>4, <1>6, Zenon DEF Caller
<1>7. Goal
  BY <1>5, <1>6 DEF Next
<1> QED
  BY <1>7 DEF Goal

\* Used is a finite set of requests.
LEMMA UsedFinite ==
  /\ IsFiniteSet(Used) /\ Cardinality(Used) \in Nat
  /\ \A T \in SUBSET Used : Cardinality(T) <= Cardinality(Used)
<1>1. Used \in SUBSET Requests
  BY DEF Used
<1>2. IsFiniteSet(Used)
  BY <1>1, RequestsAssumption, FS_Subset
<1> QED
  BY <1>2, FS_CardinalityType, FS_Subset

\* Opening takes one unit of the budget that is there, and nothing else adds to it.
LEMMA UsedStep ==
  ASSUME TypeOK, UsedWithin, [Next]_vars
  PROVE  UsedWithin'
<1>0. /\ approvals \in Nat /\ Limit \in Nat /\ Cardinality(Used) \in Nat
      /\ Cardinality(Used) <= Limit + approvals
  BY LimitAssumption, UsedFinite DEF TypeOK, UsedWithin
<1>1. CASE reservation' = reservation /\ approvals' \in Nat /\ approvals' >= approvals
  <2>1. Used' = Used
    BY <1>1 DEF Used, StatusOf
  <2> QED
    BY <1>0, <1>1, <2>1 DEF UsedWithin
<1>2. ASSUME NEW k \in Requests, Opens(k), approvals' = approvals PROVE UsedWithin'
  <2>1. Used' = Used \cup {k}
    BY <1>2 DEF Opens, SetTo, Used, StatusOf
  <2>2. Cardinality(Used') <= Cardinality(Used) + 1
    <3>1. Cardinality(Used \cup {k}) = IF k \in Used THEN Cardinality(Used) ELSE Cardinality(Used) + 1
      BY UsedFinite, FS_AddElement
    <3> QED
      BY <1>0, <2>1, <3>1
  <2>3. Cardinality(Used) < Limit + approvals
    BY <1>2 DEF Opens, WithinBudget
  <2>4. Cardinality(Used') \in Nat
    BY <1>0, <2>1, UsedFinite, FS_AddElement
  <2> QED
    BY <1>0, <1>2, <2>2, <2>3, <2>4 DEF UsedWithin
<1>3. ASSUME NEW k \in Requests, approvals' = approvals, StatusOf(k) = "in_flight",
             RejectedTo(k) \/ \E s \in Settled : SetTo(k, s)
      PROVE  UsedWithin'
  <2>1. Used' \in SUBSET Used
    BY <1>3 DEF RejectedTo, SetTo, Used, StatusOf, Settled
  <2>2. Cardinality(Used') <= Cardinality(Used) /\ Cardinality(Used') \in Nat
    BY <2>1, UsedFinite, FS_Subset, FS_CardinalityType
  <2> QED
    BY <1>0, <1>3, <2>2 DEF UsedWithin
<1> QED
  BY <1>1, <1>2, <1>3, ReservationSteps

\* Every reachable state satisfies the invariant that needs no exclusion.
LEMMA Invariant == Spec => []IInv
<1>1. Init => IInv
  <2>1. ASSUME Init PROVE Used = {}
    BY <2>1 DEF Init, NewReservation, Used, StatusOf
  <2>2. ASSUME Init PROVE UsedWithin
    <3>1. Cardinality(Used) = 0 /\ approvals = 0
      BY <2>1, <2>2, FS_EmptySet DEF Init
    <3> QED
      BY <3>1, LimitAssumption DEF UsedWithin
  <2> QED
    BY <2>2, InitFacts DEF IInv
<1>2. IInv /\ [Next]_vars => IInv'
  BY TypeStep, RunnerStep, OnceStep, SettlingStep, AlertStep, OpenedStep, UsedStep DEF IInv
<1> QED
  BY <1>1, <1>2, PTL DEF Spec

\* With one caller per request at a time, a reservation also outlives its caller.
LEMMA ExclusiveInvariant == Spec => [](~overlapped => EInv)
<1>1. Init => EInv
  BY DEF Init, EInv, OneCaller, Answered, Reserved, Accounted, NewReservation, StatusOf
<1>2. IInv /\ EInv /\ [Next]_vars /\ ~overlapped' => EInv'
  BY OneCallerStep, AnsweredStep, ReservedStep, AccountedStep DEF IInv, EInv
<1>3. [Next]_vars /\ ~overlapped' => ~overlapped
  BY OverlapStays
<1> QED
  BY <1>1, <1>2, <1>3, Invariant, PTL DEF Spec

\* Reservations, calls and callers keep their types.
THEOREM TypeCorrect == Spec => []TypeOK
<1>1. IInv => TypeOK
  BY DEF IInv
<1> QED
  BY <1>1, Invariant, PTL

\* invoke lets the provider execute a request at most once, for any number of
\* callers that retry, crash and race.
THEOREM ExecutedOnce == Spec => []SingleExecution
<1>1. IInv => SingleExecution
  BY DEF IInv
<1> QED
  BY <1>1, Invariant, PTL

\* paid_reservations and model_calls agree on every settled call.
THEOREM TablesConsistent == Spec => []TablesAgree
<1>1. IInv => TablesAgree
  BY DEF IInv, Settling
<1> QED
  BY <1>1, Invariant, PTL

\* provider_rejected queues the incident alert of a reservation exactly once.
THEOREM AlertedOnce == Spec => []OneAlert
<1>1. IInv => OneAlert
  BY DEF IInv
<1> QED
  BY <1>1, Invariant, PTL

\* Types, tables and alerts together, as the run checks them.
THEOREM Consistency == Spec => []Consistent
BY TypeCorrect, TablesConsistent, AlertedOnce, PTL DEF Consistent

\* As long as no two callers worked on one request at a time, the executed
\* requests stay within the budget authorize checked.
THEOREM BudgetHeld == Spec => []BudgetUntilOverlap
<1>1. IInv /\ EInv => BudgetKept
  <2> SUFFICES ASSUME IInv, EInv PROVE BudgetKept
    OBVIOUS
  <2> DEFINE Executed == {k \in Requests : executed[k] > 0}
  <2>1. Executed \in SUBSET Used
    BY DEF EInv, Accounted
  <2>2. Cardinality(Executed) <= Cardinality(Used) /\ Cardinality(Executed) \in Nat
    BY <2>1, UsedFinite, FS_Subset, FS_CardinalityType
  <2>3. Cardinality(Used) <= Limit + approvals
    BY DEF IInv, UsedWithin
  <2> QED
    BY <2>2, <2>3, UsedFinite, LimitAssumption DEF IInv, TypeOK, BudgetKept
<1> QED
  BY <1>1, Invariant, ExclusiveInvariant, PTL DEF BudgetUntilOverlap

\* Without overlaps the provider is never called during a backoff, nor after a
\* rejection that forbids the retry, although authorize checked it steps before.
THEOREM BackoffHeld == Spec => BackoffKept
<1>1. IInv /\ (~overlapped => EInv) /\ [Next]_vars =>
        [\A k \in Requests : ~overlapped /\ executed'[k] > executed[k] =>
           /\ reservation[k].retryAt <= clock
           /\ reservation[k].failures > 0 => reservation[k].retryable]_vars
  <2> SUFFICES ASSUME IInv, EInv, [Next]_vars, NEW k \in Requests, ~overlapped, executed'[k] > executed[k]
               PROVE  /\ reservation[k].retryAt <= clock
                      /\ reservation[k].failures > 0 => reservation[k].retryable
    OBVIOUS
  <2>1. PICK c \in Callers : Run(c) /\ request[c] = k
    <3>1. ASSUME NEW c \in Callers, Caller(c), ~Run(c), ~Answer(c) PROVE executed' = executed
      BY <3>1 DEF Caller, Authorize, ReadCall, InsertCall, RetryCall, Complete, Store, Reject,
         GiveUp, Mark, Crash, tables
    <3>2. ASSUME NEW c \in Callers, Answer(c) PROVE ~(executed'[k] > executed[k])
      BY <3>2 DEF Answer, IInv, TypeOK
    <3>3. ASSUME NEW c \in Callers, Run(c) PROVE request[c] = k
      BY <3>3 DEF Run, IInv, TypeOK
    <3>4. executed[k] \in Nat
      BY DEF IInv, TypeOK
    <3>5. PICK c \in Callers : Caller(c)
      BY <3>4 DEF Next, Approve, Advance, vars, tables
    <3> QED
      BY <3>1, <3>2, <3>3, <3>4, <3>5
  <2>2. reservation[k].status = "in_flight"
    BY <2>1 DEF Run, EInv, Reserved, StatusOf
  <2> QED
    BY <2>2 DEF IInv, Opened
<1> QED
  BY <1>1, Invariant, ExclusiveInvariant, PTL DEF Spec, BackoffKept

\* A settled reservation and a stored response are final.
THEOREM StaysSettled == Spec => SettledForever
<1>1. IInv /\ [Next]_vars =>
        [\A k \in Requests :
           /\ StatusOf(k) \in Settled => StatusOf(k)' = StatusOf(k)
           /\ call[k] = "completed" => call'[k] = "completed"]_vars
  <2> SUFFICES ASSUME IInv, [Next]_vars, NEW k \in Requests
               PROVE  /\ StatusOf(k) \in Settled => StatusOf(k)' = StatusOf(k)
                      /\ call[k] = "completed" => call'[k] = "completed"
    OBVIOUS
  <2>1. StatusOf(k) \in Settled => StatusOf(k)' = StatusOf(k)
    BY ReservationSteps DEF IInv, Opens, SetTo, RejectedTo, StatusOf, Settled
  <2>2. call[k] = "completed" => call'[k] = "completed"
    <3>1. call[k] = "completed" => StatusOf(k) = "completed"
      BY DEF IInv, Settling, TablesAgree, Settled
    <3>2. ASSUME NEW c \in Callers, Caller(c) PROVE call[k] = "completed" => call'[k] = "completed"
      BY <3>1, <3>2 DEF Caller, Authorize, ReadCall, InsertCall, RetryCall, Run, Answer, Complete,
         Store, Reject, GiveUp, Mark, Crash, tables, IInv, Settling, TypeOK
    <3> QED
      BY <3>2 DEF Next, Approve, Advance, vars, tables
  <2> QED
    BY <2>1, <2>2
<1> QED
  BY <1>1, Invariant, PTL DEF Spec, SettledForever

=============================================================================
