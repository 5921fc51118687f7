-------------------------- MODULE StateProjection --------------------------
(***************************************************************************)
(* The state outbox: transitions of tickets enqueue what the board should  *)
(* show and supersede what it should show no more; StateProjectionWorker   *)
(* claims the oldest intent, checks that it is current, and moves the card *)
(* with the command line client of the board.                              *)
(*                                                                         *)
(* A worker runs in a scheduler tick, under the tick lease and with the    *)
(* clock reading of the tick.  An operator command (run-once) projects its *)
(* ticket outside of any tick.  Both may die and leave a client running.   *)
(***************************************************************************)
EXTENDS TicketStates, Integers, Sequences

CONSTANTS
    Workers, Operators,     \* processes that tick, processes of run-once
    Tickets,
    InitialStates,          \* where tickets are in their life at the start
    MaxEvents,              \* bound on transitions
    Lease,                  \* of a tick and of a claimed intent
    MayOverrun,             \* may a process, or a client it left running, outlast its lease?
    MaxCrashes,             \* bound on deaths
    MaxClock                \* bound on the clock

Events == 1..MaxEvents      \* ids of state events, in order
Processes == Workers \cup Operators

ASSUME ProcessAssumption == Workers \cap Operators = {}
ASSUME StatesAssumption == InitialStates \subseteq CanonicalStates
ASSUME LeaseAssumption == Lease \in Nat \ {0} /\ MayOverrun \in BOOLEAN
ASSUME BoundsAssumption == MaxEvents \in Nat /\ MaxCrashes \in Nat /\ MaxClock \in Nat

VARIABLES
    clock, crashes,
    tick,       \* scheduler_tick_lease
    log,        \* the state events of all tickets; shown: the event is projectable
    state,      \* tickets.state
    row,        \* board_projection_outbox
    board,      \* the column of each card
    orphan,     \* clients whose process died: the card, where it goes, when its lease ends
    pc, now, event      \* the processes

ledgerVars == <<log, state, row>>
processVars == <<pc, now, event>>
vars == <<clock, crashes, tick, ledgerVars, board, orphan, processVars>>

Statuses == {"none", "queued", "acknowledged", "superseded"}
Steps == {"idle", "claim", "gate", "look", "unblock", "send", "ack", "release"}

NoEvent == 0

\* owners are the processes that pass for lease_owner.
NoRow == [status |-> "none", queued |-> 0, owners |-> {}, expires |-> 0, next |-> 0]
Rows == [status : Statuses, queued : Nat, owners : SUBSET Processes, expires : Nat, next : Nat]
Free == [owners |-> {}, expires |-> 0]

TypeOK ==
    /\ clock \in Nat /\ crashes \in Nat
    /\ tick \in [owners : SUBSET Workers, expires : Nat]
    /\ log \in Seq([ticket : Tickets, to : CanonicalStates, shown : BOOLEAN])
    /\ Len(log) <= MaxEvents
    /\ state \in [Tickets -> CanonicalStates]
    /\ row \in [Events -> Rows]
    /\ board \in [Tickets -> Columns]
    /\ orphan \subseteq [ticket : Tickets, column : Columns, expires : Nat]
    /\ pc \in [Processes -> Steps]
    /\ now \in [Processes -> Nat]
    /\ event \in [Processes -> Events \cup {NoEvent}]

Init ==
    /\ clock = 0 /\ crashes = 0 /\ tick = Free
    /\ log = << >>
    /\ state \in [Tickets -> InitialStates]
    /\ row = [e \in Events |-> NoRow]
    /\ board = [t \in Tickets |-> IF state[t] = "draft" THEN "todo" ELSE Column(state[t])]
    /\ orphan = {}
    /\ pc = [p \in Processes |-> "idle"]
    /\ now = [p \in Processes |-> 0]
    /\ event = [p \in Processes |-> NoEvent]

Goto(p, step) == pc' = [pc EXCEPT ![p] = step]
Alive(p) == pc[p] # "idle"

\* The end of a process; a tick gives its lease back, whatever ended it.
Forget(p) ==
    /\ Goto(p, "idle")
    /\ now' = [now EXCEPT ![p] = 0]
    /\ event' = [event EXCEPT ![p] = NoEvent]

End(p) ==
    /\ Forget(p)
    /\ tick' = IF p \in tick.owners THEN Free ELSE tick

\* A tick compares leases with its one reading, an operator command reads the
\* clock in every call.
Time(p) == IF p \in Operators THEN clock ELSE now[p]

----------------------------------------------------------------------------
(* The ledger.                                                             *)

Newer(e) == \E f \in Events : f > e /\ f <= Len(log) /\ log[f].ticket = log[e].ticket

Superseded(r) == [r EXCEPT !.status = "superseded", !.owners = {}, !.expires = 0]
Queued == [NoRow EXCEPT !.status = "queued", !.queued = clock]

\* Mutant: acknowledged_at IS NULL is forgotten.
EnqueueRewrites(t, id) ==
    row' = [e \in Events |->
        IF e = id THEN Queued
        ELSE IF e < id /\ log[e].ticket = t /\ row[e].status # "none" THEN Superseded(row[e])
        ELSE row[e]]

\* Mutant: older intents stay due.
EnqueueOnly(t, id) == row' = [row EXCEPT ![id] = Queued]

\* The new intent supersedes the older ones of its ticket that are not acknowledged.
Enqueue(t, id) ==
    row' = [e \in Events |->
        IF e = id THEN Queued
        ELSE IF e < id /\ log[e].ticket = t /\ row[e].status = "queued" THEN Superseded(row[e])
        ELSE row[e]]

Moved(t, s, shown) ==
    /\ Len(log) < MaxEvents
    /\ state' = [state EXCEPT ![t] = s]
    /\ log' = Append(log, [ticket |-> t, to |-> s, shown |-> shown])
    /\ UNCHANGED <<clock, crashes, tick, board, orphan, processVars>>

\* transition: state, event and intent in one transaction.  An operator's local
\* retry of a blocked ticket is projected too.
Transition(t) ==
    \E s \in Allowed(state[t]) :
        \/ (s \in Projectable \/ RetryEvent(state[t], s)) /\ Moved(t, s, TRUE) /\ Enqueue(t, Len(log) + 1)
        \/ s \notin Projectable /\ Moved(t, s, FALSE) /\ row' = row

\* reopen_terminal_ticket_after_paid_budget and
\* recover_terminal_validation_controller_defect enqueue nothing; the second
\* walks through several states in its one transaction.
Recover(t) ==
    /\ \/ state[t] = "blocked" /\ Moved(t, "needs_triage", TRUE)
       \/ state[t] \in {"blocked", "verifying"} /\ Moved(t, "local_review", TRUE)
    /\ row' = row

\* Mutant: the tick lease is not looked at.
StartTickAnyTime(w) ==
    /\ ~Alive(w)
    /\ tick' = [owners |-> {w}, expires |-> clock + Lease]
    /\ now' = [now EXCEPT ![w] = clock]
    /\ Goto(w, "claim")
    /\ UNCHANGED <<clock, crashes, ledgerVars, board, orphan, event>>

\* process_next reads the clock and claims the tick.
StartTick(w) ==
    /\ ~Alive(w)
    /\ tick.expires <= clock
    /\ tick' = [owners |-> {w}, expires |-> clock + Lease]
    /\ now' = [now EXCEPT ![w] = clock]
    /\ Goto(w, "claim")
    /\ UNCHANGED <<clock, crashes, ledgerVars, board, orphan, event>>

\* Mutant: a lease counts until it is given back.
ClaimableUnowned(e, time) ==
    row[e].status = "queued" /\ row[e].next <= time /\ row[e].owners = {}

Claimable(e, time) ==
    row[e].status = "queued" /\ row[e].next <= time /\ row[e].expires <= time

ClaimEvent(p, e, owners) ==
    /\ row' = [row EXCEPT ![e].owners = owners, ![e].expires = Time(p) + Lease]
    /\ event' = [event EXCEPT ![p] = e]
    /\ Goto(p, "gate")
    /\ UNCHANGED <<now, tick>>

\* ORDER BY queued_at, event_id
First(due) ==
    {e \in due : \A d \in due :
        \/ row[e].queued < row[d].queued
        \/ row[e].queued = row[d].queued /\ e <= d}

\* claim_next_state_projection.  The lease_owner of a tick is drawn afresh, and a
\* worker has one tick at a time.
ClaimNext(w) ==
    LET due == {e \in Events : Claimable(e, now[w])} IN
    /\ w \in Workers /\ pc[w] = "claim"
    /\ \/ due = {} /\ End(w) /\ row' = row
       \/ \E e \in First(due) : ClaimEvent(w, e, {w})
    /\ UNCHANGED <<clock, crashes, log, state, board, orphan>>

\* project_ticket: reconcile_state_projections finds the intent of the current
\* event or restores it ...
Project(o) ==
    /\ ~Alive(o)
    /\ \E e \in 1..Len(log) :
        /\ log[e].shown /\ ~Newer(e)
        /\ event' = [event EXCEPT ![o] = e]
        /\ IF row[e].status = "none" THEN Enqueue(log[e].ticket, e) ELSE row' = row
    /\ now' = [now EXCEPT ![o] = clock]
    /\ Goto(o, "claim")
    /\ UNCHANGED <<clock, crashes, tick, log, state, board, orphan>>

\* ... and claim_state_projection claims that one, for the owner all of these
\* commands share.
ClaimOwn(o) ==
    /\ o \in Operators /\ pc[o] = "claim"
    /\ \/ Claimable(event[o], clock) /\ ClaimEvent(o, event[o], Operators)
       \/ ~Claimable(event[o], clock) /\ End(o) /\ row' = row
    /\ UNCHANGED <<clock, crashes, log, state, board, orphan>>

Owns(p) ==
    LET r == row[event[p]] IN
    r.status = "queued" /\ p \in r.owners /\ r.expires > Time(p)

\* prepare_claimed_state_projection: the freshness gate.
Gate(p) ==
    LET e == event[p] IN
    /\ pc[p] = "gate"
    /\ \/ /\ Owns(p) /\ ~Newer(e)
          /\ Goto(p, "look") /\ row' = row /\ UNCHANGED <<now, event, tick>>
       \/ Owns(p) /\ Newer(e) /\ row' = [row EXCEPT ![e] = Superseded(@)] /\ End(p)
       \/ ~Owns(p) /\ row' = row /\ End(p)
    /\ UNCHANGED <<clock, crashes, log, state, board, orphan>>

\* acknowledge_state_projection; a lost acknowledgement ends the tick with an error.
Ack(p) ==
    /\ pc[p] = "ack"
    /\ row' = IF Owns(p)
              THEN [row EXCEPT ![event[p]].status = "acknowledged", ![event[p]].owners = {},
                               ![event[p]].expires = 0, ![event[p]].next = 0]
              ELSE row
    /\ End(p)
    /\ UNCHANGED <<clock, crashes, log, state, board, orphan>>

\* release_state_projection, and the error ends the tick.
Release(p) ==
    /\ pc[p] = "release"
    /\ row' = IF Owns(p)
              THEN [row EXCEPT ![event[p]].owners = {}, ![event[p]].expires = 0,
                               ![event[p]].next = Time(p)]
              ELSE row
    /\ End(p)
    /\ UNCHANGED <<clock, crashes, log, state, board, orphan>>

----------------------------------------------------------------------------
(* The board: set_state for a card that Hermes does not execute.           *)

Card(p) == log[event[p]].ticket
Target(p) == Column(log[event[p]].to)

\* Reading the card decides which commands follow.
Look(p) ==
    /\ pc[p] = "look"
    /\ CASE board[Card(p)] = Target(p) -> Goto(p, "ack")
         [] Target(p) = "done" /\ board[Card(p)] = "scheduled" -> Goto(p, "unblock")
         [] OTHER -> Goto(p, "send")
    /\ UNCHANGED <<clock, crashes, tick, ledgerVars, board, orphan, now, event>>

\* Any command may fail, having moved the card or not.
Fail(p) ==
    /\ pc[p] \in {"look", "unblock", "send"}
    /\ Goto(p, "release")
    /\ \/ board' = board
       \/ pc[p] = "unblock" /\ board' = [board EXCEPT ![Card(p)] = "ready"]
       \/ pc[p] = "send" /\ board' = [board EXCEPT ![Card(p)] = Target(p)]
    /\ UNCHANGED <<clock, crashes, tick, ledgerVars, orphan, now, event>>

\* Hermes completes no scheduled card; unblocked it is ready.
Unblock(p) ==
    /\ pc[p] = "unblock"
    /\ board' = [board EXCEPT ![Card(p)] = "ready"]
    /\ Goto(p, "send")
    /\ UNCHANGED <<clock, crashes, tick, ledgerVars, orphan, now, event>>

Send(p) ==
    /\ pc[p] = "send"
    /\ board' = [board EXCEPT ![Card(p)] = Target(p)]
    /\ Goto(p, "ack")
    /\ UNCHANGED <<clock, crashes, tick, ledgerVars, orphan, now, event>>

----------------------------------------------------------------------------
(* Failures and the clock.                                                 *)

\* A process dies, its leases stay; a client it was waiting for goes on.  The
\* bounded clock must be able to see those leases expire.
Crash(p) ==
    /\ Alive(p) /\ crashes < MaxCrashes /\ clock + Lease <= MaxClock
    /\ crashes' = crashes + 1
    /\ LET client(column) == [ticket |-> Card(p), column |-> column, expires |-> now[p] + Lease] IN
       \/ orphan' = orphan
       \/ pc[p] = "unblock" /\ orphan' = orphan \cup {client("ready")}
       \/ pc[p] = "send" /\ orphan' = orphan \cup {client(Target(p))}
    /\ Forget(p)
    /\ UNCHANGED <<clock, tick, ledgerVars, board>>

OrphanEnds ==
    \E o \in orphan :
        /\ orphan' = orphan \ {o}
        /\ board' = board \/ board' = [board EXCEPT ![o.ticket] = o.column]
        /\ UNCHANGED <<clock, crashes, tick, ledgerVars, processVars>>

Overruns(time) ==
    \/ \E p \in Processes : Alive(p) /\ now[p] + Lease <= time
    \/ \E o \in orphan : o.expires <= time

Advance ==
    /\ clock < MaxClock
    /\ MayOverrun \/ ~Overruns(clock + 1)
    /\ clock' = clock + 1
    /\ UNCHANGED <<crashes, tick, ledgerVars, board, orphan, processVars>>

Step(p) == Gate(p) \/ Look(p) \/ Unblock(p) \/ Send(p) \/ Ack(p) \/ Release(p)

Next ==
    \/ \E w \in Workers : StartTick(w) \/ ClaimNext(w)
    \/ \E o \in Operators : Project(o) \/ ClaimOwn(o)
    \/ \E p \in Processes : Step(p) \/ Fail(p) \/ Crash(p)
    \/ \E t \in Tickets : Transition(t) \/ Recover(t)
    \/ OrphanEnds
    \/ Advance

Spec == Init /\ [][Next]_vars

\* The daemon ticks again and again, a command that is tried often enough works,
\* time passes; transitions, deaths and failures need not happen.
Fairness ==
    /\ \A w \in Workers :
        /\ WF_vars(StartTick(w)) /\ WF_vars(ClaimNext(w))
        /\ WF_vars(Gate(w)) /\ WF_vars(Ack(w)) /\ WF_vars(Release(w))
        /\ SF_vars(Look(w)) /\ SF_vars(Unblock(w)) /\ SF_vars(Send(w))
    /\ WF_vars(OrphanEnds) /\ WF_vars(Advance)

FairSpec == Spec /\ Fairness

----------------------------------------------------------------------------
(* Properties.                                                             *)

\* The event whose projection settles what the board shows of a ticket.
Latest(t) == {e \in 1..Len(log) : log[e].ticket = t /\ ~Newer(e)}

\* When the intent of a ticket's latest event is acknowledged the card shows that
\* state, whatever older intents were under way (prepare_claimed_state_projection,
\* acknowledge_state_projection, the supersession in transition).
BoardCurrent ==
    \A t \in Tickets : \A e \in Latest(t) :
        row[e].status = "acknowledged" => board[t] = Column(log[e].to)

\* A superseded or acknowledged intent is history: a holder that was slow, or a
\* transition that supersedes, writes it no more (acknowledge_state_projection,
\* release_state_projection, _supersede_older_state_projections_in_transaction).
HistoryStays ==
    [][\A e \in Events : row[e].status \in {"acknowledged", "superseded"} => row'[e] = row[e]]_vars

\* A ticket has at most one intent that is still due, so that no order of claims
\* and retries can bring the board back to an older state.
OneDue ==
    \A e, f \in 1..Len(log) :
        row[e].status = "queued" /\ row[f].status = "queued" /\ log[e].ticket = log[f].ticket
        => e = f

\* Rows, cards and processes keep their types, and no two intents of a ticket are due.
Consistent == TypeOK /\ OneDue

\* When transitions stop, the latest intent of every ticket is acknowledged and
\* the board shows it, through failed commands and deaths; for events that got an
\* intent.
Converges ==
    <>[](\A t \in Tickets : \A e \in Latest(t) :
            row[e].status # "none" =>
                row[e].status = "acknowledged" /\ board[t] = Column(log[e].to))
=============================================================================
