----------------------------- MODULE PaidCalls -----------------------------
(***************************************************************************)
(* Paid provider calls: InjectedPaidModelAdapter.invoke over the durable   *)
(* reservations of UsageGovernor (tables paid_reservations, model_calls    *)
(* and paid_approvals), for the requests of one feature and one purpose.   *)
(*                                                                         *)
(* A caller reserves a unit of the budget, claims the model call row of    *)
(* the reservation, runs the provider, settles the reservation and stores  *)
(* the response, each in a transaction of its own.  Callers are processes: *)
(* several may work on one request, and each may die between two steps.    *)
(***************************************************************************)
EXTENDS Integers, FiniteSets

CONSTANTS
    Callers,            \* the processes that call invoke
    Requests,           \* request keys of one feature and purpose
    Limit,              \* the configured budget of that purpose
    AlertThreshold,     \* provider_alert_failure_threshold
    RetryDelay,         \* retry_after_seconds of a confirmed rejection
    MaxApprovals, MaxClock  \* bounds on operator approvals and on the clock

ASSUME RequestsAssumption == IsFiniteSet(Requests)
ASSUME LimitAssumption == Limit \in Nat /\ MaxApprovals \in Nat
ASSUME RetryAssumption == RetryDelay \in Nat \ {0} /\ AlertThreshold \in Nat \ {0}
ASSUME ClockAssumption == MaxClock \in Nat

Statuses == {"absent", "in_flight", "completed", "unknown_outcome", "provider_rejected"}
Settled == {"completed", "unknown_outcome"}

\* Where a caller stands in invoke; each value names its next step.
Steps == {"idle", "read", "insert", "retry", "run", "answer", "complete",
          "store", "reject", "give_up", "mark"}

VARIABLES
    clock,
    approvals,      \* calls granted by the operator (paid_approvals)
    reservation,    \* paid_reservations, one per request
    call,           \* status of the model_calls row of the reservation
    executed,       \* history: provider runs of a request not confirmed rejected
    overlapped,     \* history: have two callers ever worked on one request at a time?
    pc, request     \* the step of each caller and the request it serves

tables == <<approvals, reservation, call>>
vars == <<clock, tables, executed, overlapped, pc, request>>

Reservations == [status : Statuses, retryable : BOOLEAN,
                 retryAt : 0..(MaxClock + RetryDelay), failures : Nat, alerts : Nat]

NewReservation == [status |-> "absent", retryable |-> FALSE, retryAt |-> 0,
                   failures |-> 0, alerts |-> 0]

TypeOK ==
    /\ clock \in 0..MaxClock
    /\ approvals \in 0..MaxApprovals
    /\ reservation \in [Requests -> Reservations]
    /\ call \in [Requests -> Statuses]
    /\ executed \in [Requests -> Nat]
    /\ overlapped \in BOOLEAN
    /\ pc \in [Callers -> Steps]
    /\ request \in [Callers -> Requests]

Init ==
    /\ clock = 0
    /\ approvals = 0
    /\ reservation = [k \in Requests |-> NewReservation]
    /\ call = [k \in Requests |-> "absent"]
    /\ executed = [k \in Requests |-> 0]
    /\ overlapped = FALSE
    /\ pc = [c \in Callers |-> "idle"]
    /\ request \in [Callers -> Requests]

Goto(c, step) == pc' = [pc EXCEPT ![c] = step]

----------------------------------------------------------------------------
(* UsageGovernor                                                           *)

StatusOf(k) == reservation[k].status

SetStatus(k, status) == reservation' = [reservation EXCEPT ![k].status = status]

\* Mutant: an unknown outcome gives its unit of the budget back.
UsedNotUnknown == {k \in Requests : StatusOf(k) \in {"in_flight", "completed"}}

\* What counts against the budget.
Used == {k \in Requests : StatusOf(k) \in {"in_flight", "completed", "unknown_outcome"}}

WithinBudget == Cardinality(Used) < Limit + approvals

\* Mutant: the backoff is not looked at.
RetryAllowedAnyTime(k) == reservation[k].retryable

\* A rejected reservation may be reopened when its backoff is over.
RetryAllowed(k) == reservation[k].retryable /\ reservation[k].retryAt <= clock

\* authorize: reserve a new request, reopen a rejected one, or hand out the
\* reservation of one that is in flight or completed; otherwise PermissionError,
\* which changes nothing.
Authorize(c, k) ==
    /\ pc[c] = "idle"
    /\ overlapped' = (overlapped \/ \E d \in Callers : pc[d] # "idle" /\ request[d] = k)
    /\ \/ /\ StatusOf(k) \in {"in_flight", "completed"}
          /\ reservation' = reservation
       \/ /\ StatusOf(k) = "absent" \/ (StatusOf(k) = "provider_rejected" /\ RetryAllowed(k))
          /\ WithinBudget
          /\ SetStatus(k, "in_flight")
    /\ request' = [request EXCEPT ![c] = k]
    /\ Goto(c, "read")
    /\ UNCHANGED <<clock, approvals, call, executed>>

\* _finish raises ValueError for a reservation that is not in flight.
Finishable(k) == StatusOf(k) = "in_flight"

\* The rejection that queues the provider incident alert.
AlertDue(k, retryable) ==
    /\ reservation[k].alerts = 0
    /\ ~retryable \/ reservation[k].failures + 1 >= AlertThreshold

\* The reservation provider_rejected writes.
Rejected(k, retryable) ==
    [status |-> "provider_rejected",
     retryable |-> retryable,
     retryAt |-> IF retryable THEN clock + RetryDelay ELSE 0,
     failures |-> reservation[k].failures + 1,
     alerts |-> reservation[k].alerts + IF AlertDue(k, retryable) THEN 1 ELSE 0]

\* approve: one more call, once per idempotency key.
Approve ==
    /\ approvals < MaxApprovals
    /\ approvals' = approvals + 1
    /\ UNCHANGED <<clock, overlapped, reservation, call, executed, pc, request>>

----------------------------------------------------------------------------
(* InjectedPaidModelAdapter.invoke, after authorize                        *)

\* The read of the model_calls row decides the rest: a stored response is
\* returned, a rejected call is retried, a call in flight is given up.
ReadCall(c) ==
    LET status == call[request[c]] IN
    /\ pc[c] = "read"
    /\ \/ status = "absent" /\ Goto(c, "insert")
       \/ status = "provider_rejected" /\ Goto(c, "retry")
       \/ status = "in_flight" /\ Goto(c, "give_up")
       \/ status \in Settled /\ Goto(c, "idle")
    /\ UNCHANGED <<clock, overlapped, tables, executed, request>>

\* INSERT INTO model_calls; reservation_id is unique, the loser gives up.
InsertCall(c) ==
    LET k == request[c] IN
    /\ pc[c] = "insert"
    /\ IF call[k] = "absent"
       THEN call' = [call EXCEPT ![k] = "in_flight"] /\ Goto(c, "run")
       ELSE call' = call /\ Goto(c, "give_up")
    /\ UNCHANGED <<clock, overlapped, approvals, reservation, executed, request>>

\* Mutant: the row count of the conditional update is not checked.
RetryCallUnchecked(c) ==
    /\ pc[c] = "retry"
    /\ call' = [call EXCEPT ![request[c]] = IF @ = "provider_rejected" THEN "in_flight" ELSE @]
    /\ Goto(c, "run")
    /\ UNCHANGED <<clock, overlapped, approvals, reservation, executed, request>>

\* UPDATE ... WHERE status='provider_rejected'; the loser raises.
RetryCall(c) ==
    LET k == request[c] IN
    /\ pc[c] = "retry"
    /\ IF call[k] = "provider_rejected"
       THEN call' = [call EXCEPT ![k] = "in_flight"] /\ Goto(c, "run")
       ELSE call' = call /\ Goto(c, "idle")
    /\ UNCHANGED <<clock, overlapped, approvals, reservation, executed, request>>

\* self.runner(packet) reaches the provider.
Run(c) ==
    /\ pc[c] = "run"
    /\ executed' = [executed EXCEPT ![request[c]] = @ + 1]
    /\ Goto(c, "answer")
    /\ UNCHANGED <<clock, overlapped, tables, request>>

\* The provider answers, confirms that it executed nothing, or the outcome is
\* ambiguous (timeout, malformed response).
Answer(c) ==
    /\ pc[c] = "answer"
    /\ \/ Goto(c, "complete") /\ executed' = executed
       \/ Goto(c, "give_up") /\ executed' = executed
       \/ Goto(c, "reject") /\ executed' = [executed EXCEPT ![request[c]] = @ - 1]
    /\ UNCHANGED <<clock, overlapped, tables, request>>

\* governor.complete
Complete(c) ==
    LET k == request[c] IN
    /\ pc[c] = "complete"
    /\ IF Finishable(k)
       THEN SetStatus(k, "completed") /\ Goto(c, "store")
       ELSE reservation' = reservation /\ Goto(c, "idle")
    /\ UNCHANGED <<clock, overlapped, approvals, call, executed, request>>

\* The response is stored in a second transaction.
Store(c) ==
    /\ pc[c] = "store"
    /\ call' = [call EXCEPT ![request[c]] = "completed"]
    /\ Goto(c, "idle")
    /\ UNCHANGED <<clock, overlapped, approvals, reservation, executed, request>>

\* governor.provider_rejected: both rows in one transaction, or ValueError.
Reject(c) ==
    LET k == request[c] IN
    /\ pc[c] = "reject"
    /\ \/ /\ Finishable(k) /\ call[k] = "in_flight"
          /\ \E retryable \in BOOLEAN :
                reservation' = [reservation EXCEPT ![k] = Rejected(k, retryable)]
          /\ call' = [call EXCEPT ![k] = "provider_rejected"]
       \/ /\ ~(Finishable(k) /\ call[k] = "in_flight")
          /\ UNCHANGED <<reservation, call>>
    /\ Goto(c, "idle")
    /\ UNCHANGED <<clock, overlapped, approvals, executed, request>>

\* Mutant: a reservation that is not in flight any more is no error.
GiveUpAnyway(c) ==
    LET k == request[c] IN
    /\ pc[c] = "give_up"
    /\ IF Finishable(k) THEN SetStatus(k, "unknown_outcome") ELSE reservation' = reservation
    /\ Goto(c, "mark")
    /\ UNCHANGED <<clock, overlapped, approvals, call, executed, request>>

\* governor.unknown
GiveUp(c) ==
    LET k == request[c] IN
    /\ pc[c] = "give_up"
    /\ IF Finishable(k)
       THEN SetStatus(k, "unknown_outcome") /\ Goto(c, "mark")
       ELSE reservation' = reservation /\ Goto(c, "idle")
    /\ UNCHANGED <<clock, overlapped, approvals, call, executed, request>>

\* ... and the model call follows in a second transaction.
Mark(c) ==
    /\ pc[c] = "mark"
    /\ call' = [call EXCEPT ![request[c]] = "unknown_outcome"]
    /\ Goto(c, "idle")
    /\ UNCHANGED <<clock, overlapped, approvals, reservation, executed, request>>

\* The process dies; its provider run may go on.
Crash(c) ==
    /\ pc[c] # "idle"
    /\ Goto(c, "idle")
    /\ UNCHANGED <<clock, overlapped, tables, executed, request>>

Caller(c) ==
    \/ \E k \in Requests : Authorize(c, k)
    \/ ReadCall(c) \/ InsertCall(c) \/ RetryCall(c) \/ Run(c) \/ Answer(c)
    \/ Complete(c) \/ Store(c) \/ Reject(c) \/ GiveUp(c) \/ Mark(c) \/ Crash(c)

Advance ==
    /\ clock < MaxClock
    /\ clock' = clock + 1
    /\ UNCHANGED <<tables, executed, overlapped, pc, request>>

Next == (\E c \in Callers : Caller(c)) \/ Approve \/ Advance

Spec == Init /\ [][Next]_vars

----------------------------------------------------------------------------
(* Properties.                                                             *)

\* The provider executes a request at most once, however many callers retry,
\* crash or race on it (invoke, the uniqueness of model_calls.reservation_id
\* and the conditional update of a retry).
SingleExecution == \A k \in Requests : executed[k] <= 1

\* The two tables never contradict each other about a settled request, although
\* invoke settles them in two transactions and other callers work in between.
TablesAgree ==
    \A k \in Requests : call[k] \in Settled => StatusOf(k) = call[k]

\* Requests the provider executed stay within the configured limit and the
\* approvals of the operator (authorize counts reservations, not executions).
BudgetKept ==
    Cardinality({k \in Requests : executed[k] > 0}) <= Limit + approvals

\* With one caller per request at a time they do: through deaths, ambiguous
\* answers, rejections and retries.
BudgetUntilOverlap == ~overlapped => BudgetKept

\* The provider is not called while the backoff of its last confirmed rejection
\* runs, nor after a rejection that must not be retried (authorize checks it
\* long before the runner is called), as long as a request has one caller at a
\* time.
BackoffKept ==
    [][\A k \in Requests : ~overlapped /\ executed'[k] > executed[k] =>
         /\ reservation[k].retryAt <= clock
         /\ reservation[k].failures > 0 => reservation[k].retryable]_vars

\* A settled reservation stays settled and a stored response stays stored,
\* whatever callers that lost the request still do (_finish, invoke).
SettledForever ==
    [][\A k \in Requests :
         /\ StatusOf(k) \in Settled => StatusOf(k)' = StatusOf(k)
         /\ call[k] = "completed" => call'[k] = "completed"]_vars

\* A provider outage is reported once: when retries reach the threshold or the
\* rejection is final, and never again for that reservation.
OneAlert ==
    \A k \in Requests :
        LET r == reservation[k] IN
        /\ r.alerts <= 1
        /\ r.failures >= AlertThreshold \/ (r.failures > 0 /\ ~r.retryable) => r.alerts = 1

\* Rows and callers keep their types, the two tables agree and an outage is alerted once.
Consistent == TypeOK /\ TablesAgree /\ OneAlert

\* The decision scheduler_reconciliation takes for a started paid claim.
PaidDecision(k) ==
    CASE StatusOf(k) = "absent" -> "RETRY"
      [] StatusOf(k) = "completed" -> "RECONCILE"
      [] StatusOf(k) = "provider_rejected" /\ reservation[k].retryable -> "REPLAY"
      [] OTHER -> "STOP"

\* "paid reservation completed; reconcile the durable model-call response
\* without provider reinvocation": where recovery says so, the response is
\* stored, or a live caller is about to store it.
ResponseDurable ==
    \A k \in Requests : PaidDecision(k) = "RECONCILE" =>
        call[k] = "completed" \/ \E c \in Callers : pc[c] = "store" /\ request[c] = k
=============================================================================
