-------------------------- MODULE CommentDelivery --------------------------
(***************************************************************************)
(* The evidence comment outbox: CommentDeliveryWorker.deliver_one over the *)
(* table evidence_comment_outbox, against a board that is read and written *)
(* through a command line client.                                          *)
(*                                                                         *)
(* A worker reads the clock once, recovers expired leases, claims the      *)
(* oldest due comment, looks for its marker on the board, posts it when    *)
(* the marker is not there, and records the outcome.  A post that fails    *)
(* may have reached the board; a worker that dies while it posts leaves    *)
(* the client running.                                                     *)
(***************************************************************************)
EXTENDS Integers

CONSTANTS
    Workers,
    Comments,       \* operation ids, in the order (created_at, operation_id)
    MaxAttempts, BaseDelay, MaxDelay,   \* CommentDeliveryPolicy
    Lease,          \* lease_seconds of the policy
    Classified,     \* does the adapter raise AmbiguousCommentDelivery?
    MaxClock        \* bound on the clock

ASSUME CommentsAssumption == Comments \subseteq Nat
ASSUME PolicyAssumption ==
    /\ MaxAttempts \in Nat \ {0} /\ Lease \in Nat \ {0}
    /\ BaseDelay \in Nat /\ MaxDelay \in Nat /\ BaseDelay <= MaxDelay
ASSUME FlagsAssumption == Classified \in BOOLEAN
ASSUME ClockAssumption == MaxClock \in Nat

Statuses == {"absent", "pending", "delivering", "retryable", "delivered",
             "permanently_failed"}
Terminal == {"delivered", "permanently_failed"}
Steps == {"idle", "recover", "claim", "resolve", "lookup", "post", "mark"}
Outcomes == {"none", "delivered", "retryable", "permanently_failed"}

VARIABLES
    clock,
    overran,    \* history: did a worker, or a client left running, outlast its lease?
    row,        \* evidence_comment_outbox
    posted,     \* how often the board shows the comment
    orphan,     \* expiry of the lease under which a client was left posting it
    pc, now, held, attempt, outcome, delay      \* the workers

timeVars == <<clock, overran>>
boardVars == <<posted, orphan>>
workerVars == <<pc, now, held, attempt, outcome, delay>>
vars == <<timeVars, row, boardVars, workerVars>>

NoComment == -1
NullRow == [status |-> "absent", attempts |-> 0, expires |-> 0, next |-> 0]
Rows == [status : Statuses, attempts : Nat, expires : Nat, next : Nat]

TypeOK ==
    /\ clock \in Nat /\ overran \in BOOLEAN
    /\ row \in [Comments -> Rows]
    /\ posted \in [Comments -> Nat]
    /\ orphan \in [Comments -> SUBSET Nat]
    /\ pc \in [Workers -> Steps]
    /\ now \in [Workers -> Nat]
    /\ held \in [Workers -> Comments \cup {NoComment}]
    /\ attempt \in [Workers -> Nat]
    /\ outcome \in [Workers -> Outcomes]
    /\ delay \in [Workers -> Nat]

Init ==
    /\ clock = 0 /\ overran = FALSE
    /\ row = [c \in Comments |-> NullRow]
    /\ posted = [c \in Comments |-> 0]
    /\ orphan = [c \in Comments |-> {}]
    /\ pc = [w \in Workers |-> "idle"]
    /\ now = [w \in Workers |-> 0]
    /\ held = [w \in Workers |-> NoComment]
    /\ attempt = [w \in Workers |-> 0]
    /\ outcome = [w \in Workers |-> "none"]
    /\ delay = [w \in Workers |-> 0]

Goto(w, step) == pc' = [pc EXCEPT ![w] = step]
Alive(w) == pc[w] # "idle"

\* The call of deliver_one is over, its local variables are gone.
GoIdle(w) ==
    /\ Goto(w, "idle")
    /\ now' = [now EXCEPT ![w] = 0]
    /\ held' = [held EXCEPT ![w] = NoComment]
    /\ attempt' = [attempt EXCEPT ![w] = 0]
    /\ outcome' = [outcome EXCEPT ![w] = "none"]
    /\ delay' = [delay EXCEPT ![w] = 0]

----------------------------------------------------------------------------
(* The ledger.                                                             *)

\* A ticket transition enqueues its comment with the state intent.
Enqueue(c) ==
    /\ row[c].status = "absent"
    /\ row' = [row EXCEPT ![c].status = "pending"]
    /\ UNCHANGED <<timeVars, boardVars, workerVars>>

\* deliver_one reads the clock; the tick lease lets nobody in while a worker is
\* inside its own.
ReadClock(w) ==
    /\ ~Alive(w)
    /\ \A v \in Workers : Alive(v) => now[v] + Lease <= clock
    /\ now' = [now EXCEPT ![w] = clock]
    /\ Goto(w, "recover")
    /\ UNCHANGED <<timeVars, row, boardVars, held, attempt, outcome, delay>>

\* Mutant: status='delivering' is forgotten.
LapsedAnyStatus(c, time) == row[c].status # "absent" /\ row[c].expires <= time

Lapsed(c, time) == row[c].status = "delivering" /\ row[c].expires <= time

\* recover_expired_comment_leases
Recover(w) ==
    /\ pc[w] = "recover"
    /\ row' = [c \in Comments |->
                IF Lapsed(c, now[w])
                THEN [row[c] EXCEPT !.status = "retryable", !.expires = 0, !.next = now[w]]
                ELSE row[c]]
    /\ Goto(w, "claim")
    /\ UNCHANGED <<timeVars, boardVars, now, held, attempt, outcome, delay>>

Due(time) == {c \in Comments : row[c].status \in {"pending", "retryable"} /\ row[c].next <= time}

\* claim_next_comment
Claim(w) ==
    /\ pc[w] = "claim"
    /\ \/ Due(now[w]) = {} /\ GoIdle(w) /\ row' = row
       \/ \E c \in Due(now[w]) :
            /\ \A d \in Due(now[w]) : c <= d
            /\ row' = [row EXCEPT ![c] =
                    [status |-> "delivering", attempts |-> @.attempts + 1,
                     expires |-> now[w] + Lease, next |-> @.next]]
            /\ held' = [held EXCEPT ![w] = c]
            /\ attempt' = [attempt EXCEPT ![w] = row[c].attempts + 1]
            /\ Goto(w, "resolve")
            /\ UNCHANGED <<now, outcome, delay>>
    /\ UNCHANGED <<timeVars, boardVars>>

\* lease_owner is drawn afresh for each tick and a tick claims one comment, so
\* the attempt of the claim identifies its owner.
Owns(w) ==
    LET r == row[held[w]] IN
    r.status = "delivering" /\ r.attempts = attempt[w] /\ r.expires > now[w]

Decide(w, what, wait) ==
    /\ outcome' = [outcome EXCEPT ![w] = what]
    /\ delay' = [delay EXCEPT ![w] = wait]
    /\ Goto(w, "mark")

\* resolve_claimed_comment_target: a comment without a target fails for good.
Resolve(w) ==
    /\ pc[w] = "resolve"
    /\ \/ Owns(w) /\ Goto(w, "lookup") /\ UNCHANGED <<outcome, delay>>
       \/ Decide(w, "permanently_failed", 0)
    /\ UNCHANGED <<timeVars, row, boardVars, now, held, attempt>>

\* Mutant: a marker that cannot be looked up counts as missing.
LookupBlind(w) ==
    /\ pc[w] = "lookup"
    /\ \/ posted[held[w]] > 0 /\ Decide(w, "delivered", 0)
       \/ Goto(w, "post") /\ UNCHANGED <<outcome, delay>>
    /\ UNCHANGED <<timeVars, row, boardVars, now, held, attempt>>

\* Mutant: a marker that cannot be looked up counts as found.
LookupTrusting(w) ==
    /\ pc[w] = "lookup"
    /\ \/ Decide(w, "delivered", 0)
       \/ posted[held[w]] = 0 /\ Goto(w, "post") /\ UNCHANGED <<outcome, delay>>
    /\ UNCHANGED <<timeVars, row, boardVars, now, held, attempt>>

\* find_comment_marker.  Found: delivered earlier.  Unavailable: look again
\* later, at most MaxAttempts times.
Lookup(w) ==
    LET c == held[w] IN
    /\ pc[w] = "lookup"
    /\ \/ posted[c] > 0 /\ Decide(w, "delivered", 0)
       \/ posted[c] = 0 /\ Goto(w, "post") /\ UNCHANGED <<outcome, delay>>
       \/ attempt[w] >= MaxAttempts /\ Decide(w, "permanently_failed", 0)
       \/ attempt[w] < MaxAttempts /\ Decide(w, "retryable", BaseDelay)
    /\ UNCHANGED <<timeVars, row, boardVars, now, held, attempt>>

\* min(max_retry_delay, base_retry_delay * 2 ** (attempt - 1))
Backoff(n) ==
    LET exponential == BaseDelay * 2^(n - 1) IN
    IF exponential \in 0..MaxDelay THEN exponential ELSE MaxDelay

\* What deliver_one decides after an error of deliver_comment.
PostFailed(w) ==
    \/ Classified /\ Decide(w, "retryable", BaseDelay)
    \/ attempt[w] < MaxAttempts /\ Decide(w, "retryable", Backoff(attempt[w]))
    \/ attempt[w] >= MaxAttempts /\ Decide(w, "permanently_failed", 0)

\* deliver_comment: the comment reaches the board or not, and the client says
\* so or fails after either.
Post(w) ==
    LET lands == posted' = [posted EXCEPT ![held[w]] = @ + 1] IN
    /\ pc[w] = "post"
    /\ \/ lands /\ Decide(w, "delivered", 0)
       \/ lands /\ PostFailed(w)
       \/ posted' = posted /\ PostFailed(w)
    /\ UNCHANGED <<timeVars, row, orphan, now, held, attempt>>

\* mark_comment_delivered, mark_comment_retryable, mark_comment_permanently_failed;
\* a worker that lost its lease changes nothing.
Mark(w) ==
    LET c == held[w] IN
    /\ pc[w] = "mark"
    /\ row' = IF Owns(w)
              THEN [row EXCEPT ![c].status = outcome[w], ![c].expires = 0,
                    ![c].next = IF outcome[w] = "retryable" THEN now[w] + delay[w] ELSE 0]
              ELSE row
    /\ GoIdle(w)
    /\ UNCHANGED <<timeVars, boardVars>>

----------------------------------------------------------------------------
(* Failures and the clock.                                                 *)

\* The worker dies; a client it was waiting for goes on.
Crash(w) ==
    /\ Alive(w)
    /\ \/ orphan' = orphan
       \/ pc[w] = "post"
          /\ orphan' = [orphan EXCEPT ![held[w]] = @ \cup {now[w] + Lease}]
    /\ GoIdle(w)
    /\ UNCHANGED <<timeVars, row, posted>>

\* The client left behind posts the comment, or fails.
OrphanEnds(c) ==
    \E e \in orphan[c] :
        /\ orphan' = [orphan EXCEPT ![c] = @ \ {e}]
        /\ \/ posted' = [posted EXCEPT ![c] = @ + 1]
           \/ posted' = posted
        /\ UNCHANGED <<timeVars, row, workerVars>>

Overruns(time) ==
    \/ \E w \in Workers : Alive(w) /\ now[w] + Lease <= time
    \/ \E c \in Comments : \E e \in orphan[c] : e <= time

Advance ==
    /\ clock < MaxClock
    /\ clock' = clock + 1
    /\ overran' = IF Overruns(clock + 1) THEN TRUE ELSE overran
    /\ UNCHANGED <<row, boardVars, workerVars>>

Worker(w) ==
    \/ ReadClock(w) \/ Recover(w) \/ Claim(w) \/ Resolve(w) \/ Lookup(w)
    \/ Post(w) \/ Mark(w) \/ Crash(w)

Next ==
    \/ \E w \in Workers : Worker(w)
    \/ \E c \in Comments : Enqueue(c) \/ OrphanEnds(c)
    \/ Advance

Spec == Init /\ [][Next]_vars

----------------------------------------------------------------------------
(* Properties.                                                             *)

\* As long as nobody outlasts a lease a comment is on the board once at most, although failed posts, deaths and
\* takeovers make workers post again: the marker is looked up under the same
\* lease as the post (deliver_one).
PostedOnce == ~overran => \A c \in Comments : posted[c] <= 1

\* A comment recorded as delivered is on the board, whoever recorded it and
\* whatever became of the worker that posted it.
DeliveredIsPosted == \A c \in Comments : row[c].status = "delivered" => posted[c] > 0

\* Rows and workers keep their types, and a recorded delivery happened.
Consistent == TypeOK /\ DeliveredIsPosted

\* A settled comment stays settled: a worker that lost its lease can neither
\* fail a delivered comment nor put it back for retry (mark_comment_*,
\* recover_expired_comment_leases).
SettledStays ==
    [][\A c \in Comments : row[c].status \in Terminal => row'[c] = row[c]]_vars

\* Nobody takes a comment from its worker before the lease ran out on the real
\* clock, although leases are compared with clock readings that may be old.
LeaseRespected ==
    [][\A c \in Comments : \A w \in Workers :
         held[w] = c /\ Owns(w) /\ row[c].expires > clock /\ pc'[w] # "idle"
         => Owns(w)']_vars

\* Retries respect the backoff: a comment is claimed again only when the time
\* written with its last failure has come.
BackoffRespected ==
    [][\A c \in Comments : row'[c].attempts > row[c].attempts => row[c].next <= clock]_vars

\* What a worker that lost its lease, or reads an old clock, may not do to a row.
WritesFenced == SettledStays /\ LeaseRespected /\ BackoffRespected
=============================================================================
