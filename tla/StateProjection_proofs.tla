----------------------- MODULE StateProjection_proofs -----------------------
(* What the state outbox keeps true for any number of tickets, workers and *)
(* operator commands, whichever of them stall or die; and what the board   *)
(* shows as long as ticks alone project, and end in time.                  *)
EXTENDS StateProjection, SequenceTheorems, TLAPS

USE DEF ledgerVars, processVars

\* The steps of a process that holds, or is after, the intent of an event.
Handling(p) ==
    \/ pc[p] \in {"gate", "look", "unblock", "send", "ack", "release"}
    \/ p \in Operators /\ pc[p] = "claim"

\* Intents and processes are about events that happened.
Recorded ==
    /\ \A e \in Events : row[e].status # "none" => e <= Len(log)
    /\ \A p \in Processes : Handling(p) => event[p] \in 1..Len(log)

IInv == TypeOK /\ Recorded /\ OneDue

----------------------------------------------------------------------------
(* The states and the log.                                                 *)

LEMMA ColumnIs == \A s : Column(s) \in Columns
  BY DEF Column, Columns

LEMMA AllowedAre == \A s \in CanonicalStates : Allowed(s) \subseteq CanonicalStates
  BY DEF Allowed, CanonicalStates

\* An event is appended, and the others keep their places.
LEMMA Appended ==
  ASSUME TypeOK, NEW t \in Tickets, NEW s \in CanonicalStates, NEW shown \in BOOLEAN,
         Moved(t, s, shown)
  PROVE  /\ Len(log') = Len(log) + 1 /\ Len(log') <= MaxEvents /\ Len(log) \in Nat
         /\ log' \in Seq([ticket : Tickets, to : CanonicalStates, shown : BOOLEAN])
         /\ \A e \in 1..Len(log) : log'[e] = log[e]
         /\ log'[Len(log) + 1].ticket = t
         /\ Len(log) + 1 \in Events
         /\ state' \in [Tickets -> CanonicalStates]
  BY BoundsAssumption DEF TypeOK, Moved, Events

LEMMA LogIs ==
  ASSUME TypeOK, NEW e \in 1..Len(log)
  PROVE  e \in Events /\ log[e].ticket \in Tickets
  <1>1. /\ log \in Seq([ticket : Tickets, to : CanonicalStates, shown : BOOLEAN])
        /\ Len(log) \in Nat /\ Len(log) <= MaxEvents
    BY DEF TypeOK
  <1>2. log[e] \in [ticket : Tickets, to : CanonicalStates, shown : BOOLEAN]
    BY <1>1, ElementOfSeq
  <1>3. QED
    BY <1>1, <1>2, BoundsAssumption DEF Events

LEMMA RowTypes ==
  ASSUME TypeOK
  PROVE  /\ Queued \in Rows /\ Queued.status = "queued"
         /\ \A r \in Rows : Superseded(r) \in Rows /\ Superseded(r).status = "superseded"
  BY DEF TypeOK, Queued, Superseded, NoRow, Rows, Statuses

\* An intent is enqueued for the latest event of its ticket: it is the only one due.
LEMMA Enqueued ==
  ASSUME IInv, NEW t \in Tickets, NEW id \in Events, Enqueue(t, id), row[id].status = "none",
         \A e \in Events : e > id => row[e].status = "none" \/ log[e].ticket # t
  PROVE  /\ row' \in [Events -> Rows]
         /\ row'[id].status = "queued"
         /\ \A e \in Events \ {id} :
              /\ row'[e].status = row[e].status \/ row'[e].status = "superseded"
              /\ row'[e].status # row[e].status => row[e].status = "queued"
              /\ row'[e].status # "none" => row[e].status # "none"
              /\ row'[e].status = "queued" => row[e].status = "queued" /\ log[e].ticket # t
              /\ row[e].status \in {"acknowledged", "superseded"} => row'[e] = row[e]
  <1>1. row' \in [Events -> Rows]
    BY RowTypes DEF IInv, TypeOK, Enqueue
  <1>2. row'[id].status = "queued"
    BY RowTypes DEF IInv, Enqueue
  <1>3. ASSUME NEW e \in Events, e # id
        PROVE  /\ row'[e].status = row[e].status \/ row'[e].status = "superseded"
               /\ row'[e].status # row[e].status => row[e].status = "queued"
               /\ row'[e].status # "none" => row[e].status # "none"
               /\ row'[e].status = "queued" => row[e].status = "queued" /\ log[e].ticket # t
               /\ row[e].status \in {"acknowledged", "superseded"} => row'[e] = row[e]
    <2>1. row[e] \in Rows /\ e \in Nat /\ id \in Nat
      BY BoundsAssumption DEF IInv, TypeOK, Events
    <2>2. CASE e < id /\ log[e].ticket = t /\ row[e].status = "queued"
      <3>1. row'[e] = Superseded(row[e])
        BY <1>3, <2>1, <2>2 DEF Enqueue
      <3>2. QED
        BY <2>1, <2>2, <3>1, RowTypes DEF IInv
    <2>3. CASE ~(e < id /\ log[e].ticket = t /\ row[e].status = "queued")
      <3>1. row'[e] = row[e]
        BY <1>3, <2>1, <2>3 DEF Enqueue
      <3>2. row[e].status = "queued" => log[e].ticket # t
        BY <1>3, <2>1, <2>3
      <3>3. QED
        BY <3>1, <3>2
    <2>4. QED
      BY <2>2, <2>3
  <1>4. QED
    BY <1>1, <1>2, <1>3

----------------------------------------------------------------------------
(* The induction.                                                          *)

LEMMA Initially == Init => IInv
  <1> SUFFICES ASSUME Init PROVE IInv
    OBVIOUS
  <1>1. Len(log) = 0 /\ log \in Seq([ticket : Tickets, to : CanonicalStates, shown : BOOLEAN])
    BY DEF Init
  <1>2. TypeOK
    BY <1>1, StatesAssumption, BoundsAssumption, ColumnIs
       DEF Init, TypeOK, Free, Rows, NoRow, Statuses, Steps, Columns
  <1>3. Recorded /\ OneDue
    BY <1>1, BoundsAssumption DEF Init, Recorded, OneDue, Handling, NoRow
  <1>4. QED
    BY <1>2, <1>3 DEF IInv

\* What a process does to its intent: the row keeps its type and gets no other status
\* than a final one, and is written only as long as it is due.
Written(e) ==
    /\ row' \in [Events -> Rows]
    /\ \A f \in Events : f # e => row'[f] = row[f]
    /\ row'[e] = row[e] \/ row[e].status = "queued"
    /\ row'[e].status = row[e].status \/ row'[e].status \in {"acknowledged", "superseded"}

LEMMA OneDueStays ==
  ASSUME IInv, log' = log, NEW e \in Events, Written(e)
  PROVE  /\ OneDue'
         /\ \A f \in Events : row'[f].status # "none" => f <= Len(log)
         /\ \A f \in Events : row[f].status \in {"acknowledged", "superseded"} => row'[f] = row[f]
  <1>1. 1..Len(log) \subseteq Events
    BY BoundsAssumption DEF IInv, TypeOK, Events
  <1>2. \A f \in Events : row'[f].status = "queued" => row[f].status = "queued"
    BY DEF Written
  <1>3. OneDue'
    BY <1>1, <1>2 DEF IInv, OneDue
  <1>4. QED
    BY <1>3 DEF IInv, Recorded, Written

\* A process goes on, or ends; its event stays the one it has, or is forgotten.
Moves(p) ==
    /\ pc' \in [Processes -> Steps] /\ now' \in [Processes -> Nat]
    /\ event' \in [Processes -> Events \cup {NoEvent}]
    /\ tick' \in [owners : SUBSET Workers, expires : Nat]
    /\ \A q \in Processes : q # p => pc'[q] = pc[q] /\ event'[q] = event[q]
    /\ Handling(p)' => event'[p] \in 1..Len(log)

\* A step that changes nothing but one intent, one process, the board and its clients.
LEMMA StepKeeps ==
  ASSUME IInv, NEW p \in Processes, NEW e \in Events, Written(e), Moves(p),
         UNCHANGED <<clock, log, state>>, crashes' \in Nat,
         board' \in [Tickets -> Columns],
         orphan' \subseteq [ticket : Tickets, column : Columns, expires : Nat]
  PROVE  IInv' /\ \A f \in Events : row[f].status \in {"acknowledged", "superseded"} => row'[f] = row[f]
  <1>1. TypeOK'
    BY DEF IInv, TypeOK, Written, Moves
  <1>2. Recorded'
    BY OneDueStays DEF IInv, Recorded, Moves, Handling
  <1>3. QED
    BY <1>1, <1>2, OneDueStays DEF IInv

LEMMA Ends ==
  ASSUME IInv, NEW p \in Processes, End(p)
  PROVE  Moves(p)
  BY DEF IInv, TypeOK, End, Forget, Goto, Moves, Handling, Free, Steps, NoEvent

LEMMA GoesOn ==
  ASSUME IInv, NEW p \in Processes, NEW step \in Steps, Goto(p, step),
         Handling(p), UNCHANGED <<now, event, tick>>
  PROVE  Moves(p)
  BY DEF IInv, TypeOK, Recorded, Goto, Moves, Handling

Kept == \A e \in Events : row[e].status \in {"acknowledged", "superseded"} => row'[e] = row[e]

LEMMA Unwritten ==
  ASSUME IInv, row' = row, NEW e \in Events
  PROVE  Written(e)
  BY DEF IInv, TypeOK, Written

----------------------------------------------------------------------------
(* One lemma per action.                                                   *)

\* A ticket moves and what it should show is enqueued, or is not.
LEMMA MovedStep ==
  ASSUME IInv, NEW t \in Tickets, NEW s \in CanonicalStates, NEW shown \in BOOLEAN,
         Moved(t, s, shown), row' = row \/ Enqueue(t, Len(log) + 1)
  PROVE  IInv' /\ Kept
  <1> DEFINE id == Len(log) + 1
  <1>1. /\ Len(log') = Len(log) + 1 /\ Len(log') <= MaxEvents /\ Len(log) \in Nat
        /\ log' \in Seq([ticket : Tickets, to : CanonicalStates, shown : BOOLEAN])
        /\ \A e \in 1..Len(log) : log'[e] = log[e]
        /\ log'[id].ticket = t /\ id \in Events
        /\ state' \in [Tickets -> CanonicalStates]
    BY Appended DEF IInv
  <1>2. 1..Len(log') \subseteq Events /\ 1..Len(log') = 1..Len(log) \cup {id}
    BY <1>1, BoundsAssumption DEF Events
  <1>3. \A e \in Events : e >= id => row[e].status = "none"
    BY <1>1, BoundsAssumption DEF IInv, Recorded, Events
  <1>4. CASE row' = row
    <2>1. TypeOK'
      BY <1>1, <1>4 DEF IInv, TypeOK, Moved
    <2>2. Recorded'
      BY <1>1, <1>2, <1>4, BoundsAssumption DEF IInv, TypeOK, Recorded, Moved, Handling, Events
    <2>3. OneDue'
      BY <1>1, <1>2, <1>3, <1>4 DEF IInv, OneDue
    <2>4. QED
      BY <1>4, <2>1, <2>2, <2>3 DEF IInv, Kept
  <1>5. CASE Enqueue(t, id)
    <2>1. /\ row' \in [Events -> Rows]
          /\ row'[id].status = "queued"
          /\ \A e \in Events \ {id} :
               /\ row'[e].status = row[e].status \/ row'[e].status = "superseded"
               /\ row'[e].status # row[e].status => row[e].status = "queued"
               /\ row'[e].status # "none" => row[e].status # "none"
               /\ row'[e].status = "queued" => row[e].status = "queued" /\ log[e].ticket # t
               /\ row[e].status \in {"acknowledged", "superseded"} => row'[e] = row[e]
      <3>1. row[id].status = "none" /\ \A e \in Events : e > id => row[e].status = "none"
        BY <1>1, <1>3, BoundsAssumption DEF Events
      <3>2. QED
        BY <1>1, <1>5, <3>1, Enqueued
    <2>2. TypeOK'
      BY <1>1, <2>1 DEF IInv, TypeOK, Moved
    <2>3. Recorded'
      <3>1. \A e \in Events : row'[e].status # "none" => e <= Len(log')
        BY <1>1, <2>1, BoundsAssumption DEF IInv, Recorded, Events
      <3>2. \A p \in Processes : Handling(p)' => event'[p] \in 1..Len(log')
        BY <1>1, <1>2 DEF IInv, Recorded, Moved, Handling
      <3>3. QED
        BY <3>1, <3>2 DEF Recorded
    <2>4. OneDue'
      <3>1. SUFFICES ASSUME NEW e \in 1..Len(log'), NEW f \in 1..Len(log'),
                            row'[e].status = "queued", row'[f].status = "queued",
                            log'[e].ticket = log'[f].ticket
                     PROVE  e = f
        BY DEF OneDue
      <3>2. \A g \in 1..Len(log') : row'[g].status = "queued" /\ log'[g].ticket = t => g = id
        BY <1>1, <1>2, <2>1
      <3>3. CASE log'[e].ticket = t
        BY <3>1, <3>2, <3>3
      <3>4. CASE log'[e].ticket # t
        BY <1>1, <1>2, <2>1, <3>1, <3>4 DEF IInv, OneDue
      <3>5. QED
        BY <3>3, <3>4
    <2>5. Kept
      BY <1>3, <2>1, <1>1 DEF Kept
    <2>6. QED
      BY <2>2, <2>3, <2>4, <2>5 DEF IInv
  <1>6. QED
    BY <1>4, <1>5

LEMMA TransitionStep ==
  ASSUME IInv, NEW t \in Tickets, Transition(t)
  PROVE  IInv' /\ Kept
  <1>1. PICK s \in Allowed(state[t]) :
          \/ Moved(t, s, TRUE) /\ Enqueue(t, Len(log) + 1)
          \/ Moved(t, s, FALSE) /\ row' = row
    BY DEF Transition
  <1>2. s \in CanonicalStates
    BY AllowedAre DEF IInv, TypeOK
  <1>3. QED
    BY <1>1, <1>2, MovedStep

LEMMA RecoverStep ==
  ASSUME IInv, NEW t \in Tickets, Recover(t)
  PROVE  IInv' /\ Kept
  BY MovedStep DEF Recover, CanonicalStates

LEMMA StartTickStep ==
  ASSUME IInv, NEW w \in Workers, StartTick(w)
  PROVE  IInv' /\ Kept
  <1>1. w \in Processes /\ w \notin Operators
    BY ProcessAssumption DEF Processes
  <1>2. TypeOK'
    BY <1>1, LeaseAssumption DEF IInv, TypeOK, StartTick, Goto, Steps
  <1>3. Recorded' /\ OneDue' /\ Kept
    BY <1>1 DEF IInv, TypeOK, Recorded, OneDue, Kept, StartTick, Goto, Handling
  <1>4. QED
    BY <1>2, <1>3 DEF IInv

LEMMA TimeIs == ASSUME IInv, NEW p \in Processes PROVE Time(p) \in Nat /\ Time(p) + Lease \in Nat
  BY LeaseAssumption DEF IInv, TypeOK, Time

\* A claim takes an intent that is due.
LEMMA Claimed ==
  ASSUME IInv, NEW p \in Processes, NEW e \in Events, NEW time, Claimable(e, time),
         NEW owners \in SUBSET Processes, ClaimEvent(p, e, owners)
  PROVE  Written(e) /\ Moves(p)
  <1>1. row[e].status = "queued" /\ row[e] \in Rows
    BY DEF IInv, TypeOK, Claimable
  <1>2. Written(e)
    BY <1>1, TimeIs DEF IInv, TypeOK, ClaimEvent, Written, Rows
  <1>3. e \in 1..Len(log)
    BY <1>1, BoundsAssumption DEF IInv, TypeOK, Recorded, Events
  <1>4. Moves(p)
    BY <1>3 DEF IInv, TypeOK, ClaimEvent, Goto, Moves, Handling, Steps
  <1>5. QED
    BY <1>2, <1>4

LEMMA ClaimNextStep ==
  ASSUME IInv, NEW w \in Workers, ClaimNext(w)
  PROVE  IInv' /\ Kept
  <1>0. w \in Processes
    BY DEF Processes
  <1>1. CASE End(w) /\ row' = row
    <2>1. ASSUME NEW e \in Events PROVE IInv' /\ Kept
      BY <1>0, <1>1, <2>1, Ends, Unwritten, StepKeeps DEF ClaimNext, IInv, TypeOK, Kept
    <2>2. CASE Events = {}
      BY <1>0, <1>1, <2>2, Ends DEF ClaimNext, IInv, TypeOK, Recorded, OneDue, Kept, Moves,
         Handling
    <2>3. QED
      BY <2>1, <2>2
  <1>2. CASE \E e \in First({d \in Events : Claimable(d, now[w])}) : ClaimEvent(w, e, {w})
    <2>1. PICK e \in Events : Claimable(e, now[w]) /\ ClaimEvent(w, e, {w})
      BY <1>2 DEF First
    <2>2. Written(e) /\ Moves(w)
      BY <1>0, <2>1, Claimed
    <2>3. QED
      BY <1>0, <2>2, StepKeeps DEF ClaimNext, IInv, TypeOK, Kept
  <1>3. QED
    BY <1>1, <1>2 DEF ClaimNext

LEMMA ProjectStep ==
  ASSUME IInv, NEW o \in Operators, Project(o)
  PROVE  IInv' /\ Kept
  <1>0. o \in Processes
    BY DEF Processes
  <1>1. PICK e \in 1..Len(log) :
          /\ log[e].shown /\ ~Newer(e)
          /\ event' = [event EXCEPT ![o] = e]
          /\ IF row[e].status = "none" THEN Enqueue(log[e].ticket, e) ELSE row' = row
    BY DEF Project
  <1>2. /\ e \in Events /\ log[e].ticket \in Tickets /\ Len(log) \in Nat
        /\ 1..Len(log) \subseteq Events
    BY LogIs DEF IInv, TypeOK
  <1>3. Moves(o)
    BY <1>0, <1>1, <1>2 DEF IInv, TypeOK, Project, Goto, Moves, Handling, Steps
  <1>4. CASE row[e].status # "none"
    BY <1>0, <1>1, <1>2, <1>3, <1>4, Unwritten, StepKeeps DEF Project, IInv, TypeOK, Kept
  <1>5. CASE row[e].status = "none"
    <2>1. \A f \in Events : f > e => row[f].status = "none" \/ log[f].ticket # log[e].ticket
      BY <1>1, <1>2, BoundsAssumption DEF IInv, Recorded, Newer, Events
    <2>2. /\ row' \in [Events -> Rows]
          /\ row'[e].status = "queued"
          /\ \A f \in Events \ {e} :
               /\ row'[f].status = row[f].status \/ row'[f].status = "superseded"
               /\ row'[f].status # row[f].status => row[f].status = "queued"
               /\ row'[f].status # "none" => row[f].status # "none"
               /\ row'[f].status = "queued" => row[f].status = "queued" /\ log[f].ticket # log[e].ticket
               /\ row[f].status \in {"acknowledged", "superseded"} => row'[f] = row[f]
      BY <1>1, <1>2, <1>5, <2>1, Enqueued
    <2>3. TypeOK'
      BY <1>3, <2>2 DEF IInv, TypeOK, Moves, Project
    <2>4. Recorded'
      <3>1. \A f \in Events : row'[f].status # "none" => f <= Len(log)
        BY <1>1, <1>2, <2>2 DEF IInv, Recorded
      <3>2. log' = log
        BY DEF Project
      <3>3. \A p \in Processes : Handling(p)' => event'[p] \in 1..Len(log)
        BY <1>3 DEF IInv, Recorded, Moves, Handling
      <3>4. QED
        BY <3>1, <3>2, <3>3 DEF Recorded
    <2>5. OneDue'
      BY <1>1, <1>2, <2>2 DEF IInv, OneDue, Project
    <2>6. Kept
      BY <1>5, <2>2 DEF Kept
    <2>7. QED
      BY <2>3, <2>4, <2>5, <2>6 DEF IInv
  <1>6. QED
    BY <1>4, <1>5

LEMMA ClaimOwnStep ==
  ASSUME IInv, NEW o \in Operators, ClaimOwn(o)
  PROVE  IInv' /\ Kept
  <1>1. o \in Processes /\ Operators \subseteq Processes
    BY DEF Processes
  <1>2. event[o] \in 1..Len(log) /\ event[o] \in Events
    BY <1>1, BoundsAssumption DEF IInv, TypeOK, Recorded, Handling, ClaimOwn, Events
  <1>3. Written(event[o]) /\ Moves(o)
    BY <1>1, <1>2, Claimed, Ends, Unwritten DEF ClaimOwn
  <1>4. QED
    BY <1>1, <1>2, <1>3, StepKeeps DEF ClaimOwn, IInv, TypeOK, Kept

\* The steps of a process with an event.
LEMMA WorkStep ==
  ASSUME IInv, NEW p \in Processes, Step(p)
  PROVE  IInv' /\ Kept
  <1> DEFINE e == event[p]
  <1>1. Handling(p)
    BY DEF Step, Gate, Look, Unblock, Send, Ack, Release, Handling
  <1>2. e \in 1..Len(log) /\ e \in Events /\ row[e] \in Rows
    BY <1>1, BoundsAssumption DEF IInv, TypeOK, Recorded, Events
  <1>3. Card(p) \in Tickets /\ Target(p) \in Columns
    BY <1>2, LogIs, ColumnIs DEF IInv, Card, Target
  <1>4. CASE Gate(p)
    <2>1. Written(e)
      <3>1. row' = row \/ (Owns(p) /\ row' = [row EXCEPT ![e] = Superseded(@)])
        BY <1>4 DEF Gate
      <3>2. CASE row' = row
        BY <1>2, <3>2, Unwritten
      <3>3. CASE Owns(p) /\ row' = [row EXCEPT ![e] = Superseded(@)]
        BY <1>2, <3>3, RowTypes DEF IInv, TypeOK, Owns, Written
      <3>4. QED
        BY <3>1, <3>2, <3>3
    <2>2. Moves(p)
      BY <1>1, <1>4, Ends, GoesOn DEF Gate, Steps
    <2>3. QED
      BY <1>2, <1>4, <2>1, <2>2, StepKeeps DEF Gate, IInv, TypeOK, Kept
  <1>5. CASE Look(p)
    <2>1. Moves(p)
      BY <1>1, <1>5, GoesOn DEF Look, Steps
    <2>2. QED
      BY <1>2, <1>5, <2>1, Unwritten, StepKeeps DEF Look, IInv, TypeOK, Kept
  <1>6. CASE Unblock(p)
    <2>1. Moves(p)
      BY <1>1, <1>6, GoesOn DEF Unblock, Steps
    <2>2. board' \in [Tickets -> Columns]
      BY <1>6 DEF Unblock, IInv, TypeOK, Columns
    <2>3. QED
      BY <1>2, <1>6, <2>1, <2>2, Unwritten, StepKeeps DEF Unblock, IInv, TypeOK, Kept
  <1>7. CASE Send(p)
    <2>1. Moves(p)
      BY <1>1, <1>7, GoesOn DEF Send, Steps
    <2>2. board' \in [Tickets -> Columns]
      BY <1>3, <1>7 DEF Send, IInv, TypeOK
    <2>3. QED
      BY <1>2, <1>7, <2>1, <2>2, Unwritten, StepKeeps DEF Send, IInv, TypeOK, Kept
  <1>8. CASE Ack(p)
    <2>1. Written(e)
      BY <1>2, <1>8 DEF IInv, TypeOK, Ack, Owns, Written, Rows, Statuses
    <2>2. QED
      BY <1>2, <1>8, <2>1, Ends, StepKeeps DEF Ack, IInv, TypeOK, Kept
  <1>9. CASE Release(p)
    <2>1. Written(e)
      BY <1>2, <1>9, TimeIs DEF IInv, TypeOK, Release, Owns, Written, Rows
    <2>2. QED
      BY <1>2, <1>9, <2>1, Ends, StepKeeps DEF Release, IInv, TypeOK, Kept
  <1>10. QED
    BY <1>4, <1>5, <1>6, <1>7, <1>8, <1>9 DEF Step

LEMMA FailStep ==
  ASSUME IInv, NEW p \in Processes, Fail(p)
  PROVE  IInv' /\ Kept
  <1>1. Handling(p)
    BY DEF Fail, Handling
  <1>2. event[p] \in 1..Len(log) /\ event[p] \in Events
    BY <1>1, BoundsAssumption DEF IInv, TypeOK, Recorded, Events
  <1>3. Target(p) \in Columns
    BY ColumnIs DEF Target
  <1>4. Moves(p)
    BY <1>1, GoesOn DEF Fail, Steps
  <1>5. board' \in [Tickets -> Columns]
    BY <1>3 DEF Fail, IInv, TypeOK, Columns
  <1>6. QED
    BY <1>2, <1>4, <1>5, Unwritten, StepKeeps DEF Fail, IInv, TypeOK, Kept

\* Steps that write no intent and leave the process idle or as it was.
LEMMA CrashStep ==
  ASSUME IInv, NEW p \in Processes, Crash(p)
  PROVE  IInv' /\ Kept
  <1>1. orphan' \subseteq [ticket : Tickets, column : Columns, expires : Nat]
    <2>1. now[p] + Lease \in Nat
      BY LeaseAssumption DEF IInv, TypeOK
    <2>2. CASE pc[p] \in {"unblock", "send"}
      <3>1. event[p] \in 1..Len(log)
        BY <2>2 DEF IInv, Recorded, Handling
      <3>2. Card(p) \in Tickets /\ Target(p) \in Columns /\ "ready" \in Columns
        BY <3>1, LogIs, ColumnIs DEF Card, Target, IInv, Columns
      <3>3. QED
        BY <2>1, <2>2, <3>2 DEF Crash, IInv, TypeOK
    <2>3. CASE pc[p] \notin {"unblock", "send"}
      BY <2>3 DEF Crash, IInv, TypeOK
    <2>4. QED
      BY <2>2, <2>3
  <1>2. TypeOK'
    BY <1>1 DEF Crash, Forget, Goto, IInv, TypeOK, Steps, NoEvent
  <1>3. Recorded' /\ OneDue' /\ Kept
    BY DEF Crash, Forget, Goto, IInv, TypeOK, Recorded, OneDue, Handling, Kept
  <1>4. QED
    BY <1>2, <1>3 DEF IInv

LEMMA OtherStep ==
  ASSUME IInv, OrphanEnds \/ Advance \/ UNCHANGED vars
  PROVE  IInv' /\ Kept
  <1>1. TypeOK'
    <2>1. CASE OrphanEnds
      BY <2>1 DEF OrphanEnds, IInv, TypeOK
    <2>2. CASE Advance
      BY <2>2 DEF Advance, IInv, TypeOK
    <2>3. CASE UNCHANGED vars
      BY <2>3 DEF vars, IInv, TypeOK
    <2>4. QED
      BY <2>1, <2>2, <2>3
  <1>2. UNCHANGED <<log, row, pc, event>>
    BY DEF OrphanEnds, Advance, vars
  <1>3. Recorded' /\ OneDue' /\ Kept
    BY <1>2 DEF IInv, Recorded, OneDue, Handling, Kept
  <1>4. QED
    BY <1>1, <1>3 DEF IInv

LEMMA EveryStep ==
  ASSUME IInv, [Next]_vars
  PROVE  IInv' /\ Kept
  BY StartTickStep, ClaimNextStep, ProjectStep, ClaimOwnStep, WorkStep, FailStep, CrashStep,
     TransitionStep, RecoverStep, OtherStep DEF Next

LEMMA Invariance == Spec => []IInv
  <1>1. IInv /\ [Next]_vars => IInv'
    BY EveryStep
  <1>2. QED
    BY Initially, <1>1, PTL DEF Spec

----------------------------------------------------------------------------
(* The theorems.                                                           *)

\* Rows, cards and processes keep their types, and of all the intents of a ticket one
\* at most is due: transition and reconcile_state_projections supersede the others.
THEOREM Consistency == Spec => []Consistent
  <1>1. IInv => Consistent
    BY DEF IInv, Consistent
  <1>2. QED
    BY Invariance, <1>1, PTL

\* An acknowledged or superseded intent is written no more, however late its holder is.
THEOREM History == Spec => HistoryStays
  <1>1. IInv /\ [Next]_vars =>
          [\A e \in Events : row[e].status \in {"acknowledged", "superseded"} => row'[e] = row[e]]_vars
    BY EveryStep DEF Kept
  <1>2. QED
    BY Invariance, <1>1, PTL DEF Spec, HistoryStays

----------------------------------------------------------------------------
(* The board, as long as every process is a tick and ends within its lease *)
(* (without either TLC finds a card that goes back to an older state).     *)

TicksOnly == Operators = {} /\ ~MayOverrun

\* The acknowledged intent e settles what the card of t shows.
Settled(t, e) == e \in Latest(t) /\ row[e].status = "acknowledged"

\* The tick lease names who is alive, and outlasts the clients of who died.
Exclusive ==
    /\ \A p \in Processes : Alive(p) =>
          /\ tick = [owners |-> {p}, expires |-> now[p] + Lease] /\ clock < now[p] + Lease
          /\ orphan = {}
    /\ \A o \in orphan : clock < o.expires /\ o.expires <= tick.expires

\* Behind the freshness gate, and as long as a client runs that was left alone, the card is
\* not settled; it shows the state that is about to be acknowledged.
Unsettled ==
    /\ \A p \in Processes :
        /\ pc[p] \in {"look", "unblock", "send", "ack", "release"} =>
              \A e \in Events : ~Settled(Card(p), e)
        /\ pc[p] = "ack" => board[Card(p)] = Target(p)
    /\ \A o \in orphan : \A e \in Events : ~Settled(o.ticket, e)

BoardInv == IInv /\ Exclusive /\ Unsettled /\ BoardCurrent

LEMMA Alone ==
  ASSUME Exclusive, NEW p \in Processes, Alive(p), NEW q \in Processes, Alive(q)
  PROVE  p = q
  <1>1. tick.owners = {p} /\ tick.owners = {q}
    BY DEF Exclusive
  <1>2. QED
    BY <1>1

\* A process that is alive goes on or ends, and no time passes.
LEMMA ExclusiveGoes ==
  ASSUME IInv, Exclusive, NEW p \in Processes, Alive(p), UNCHANGED <<clock, orphan>>,
         End(p) \/ (UNCHANGED <<tick, now>> /\ \A q \in Processes : q # p => pc'[q] = pc[q])
  PROVE  Exclusive'
  <1>1. orphan = {} /\ \A q \in Processes : q # p => ~Alive(q)
    BY Alone DEF Exclusive
  <1>2. CASE End(p)
    <2>1. \A q \in Processes : ~Alive(q)'
      BY <1>1, <1>2 DEF End, Forget, Goto, Alive, IInv, TypeOK
    <2>2. QED
      BY <1>1, <2>1 DEF Exclusive
  <1>3. CASE UNCHANGED <<tick, now>> /\ \A q \in Processes : q # p => pc'[q] = pc[q]
    <2>1. \A q \in Processes : q # p => ~Alive(q)'
      BY <1>1, <1>3 DEF Alive
    <2>2. QED
      BY <1>1, <1>3, <2>1 DEF Exclusive
  <1>4. QED
    BY <1>2, <1>3

\* A tick starts when the lease of the one before has run out, and then nobody is alive.
LEMMA ExclusiveStays ==
  ASSUME TicksOnly, IInv, Exclusive, [Next]_vars
  PROVE  Exclusive'
  <1>1. /\ \A p \in Processes : now[p] \in Nat /\ pc[p] \in Steps
        /\ clock \in Nat /\ tick.expires \in Nat /\ Lease \in Nat \ {0}
        /\ \A o \in orphan : o.expires \in Nat
    BY LeaseAssumption DEF IInv, TypeOK
  <1>2. ASSUME NEW w \in Workers, StartTick(w)
        PROVE  Exclusive'
    <2>1. tick.expires <= clock /\ w \in Processes
      BY <1>2 DEF StartTick, Processes
    <2>2. (\A p \in Processes : ~Alive(p)) /\ orphan = {}
      BY <1>1, <2>1 DEF Exclusive
    <2>3. /\ now'[w] = clock /\ UNCHANGED <<clock, orphan>> /\ tick' = [owners |-> {w}, expires |-> clock + Lease]
          /\ \A q \in Processes : q # w => pc'[q] = pc[q]
      BY <1>2, <2>1 DEF StartTick, Goto, IInv, TypeOK
    <2>4. \A q \in Processes : q # w => ~Alive(q)'
      BY <2>2, <2>3 DEF Alive
    <2>5. orphan' = {} /\ tick' = [owners |-> {w}, expires |-> now'[w] + Lease] /\ clock' < now'[w] + Lease
      BY <1>1, <2>2, <2>3
    <2>6. QED
      BY <2>4, <2>5 DEF Exclusive
  <1>3. ASSUME NEW w \in Workers, ClaimNext(w)
        PROVE  Exclusive'
    BY <1>3, ExclusiveGoes DEF ClaimNext, ClaimEvent, Goto, Alive, Processes, IInv, TypeOK
  <1>4. ASSUME NEW p \in Processes, Step(p) \/ Fail(p)
        PROVE  Exclusive'
    <2>1. Alive(p) /\ UNCHANGED <<clock, orphan>>
      BY <1>4 DEF Step, Gate, Look, Unblock, Send, Ack, Release, Fail, Alive
    <2>2. End(p) \/ (UNCHANGED <<tick, now>> /\ \E step \in Steps : Goto(p, step))
      BY <1>4 DEF Step, Gate, Look, Unblock, Send, Ack, Release, Fail, Steps
    <2>3. QED
      BY <2>1, <2>2, ExclusiveGoes DEF Goto, IInv, TypeOK
  <1>5. ASSUME NEW p \in Processes, Crash(p)
        PROVE  Exclusive'
    <2>1. /\ Alive(p) /\ UNCHANGED <<clock, tick>> /\ Forget(p)
          /\ \A o \in orphan' : o \in orphan \/ o.expires = now[p] + Lease
      BY <1>5 DEF Crash
    <2>2. \A q \in Processes : ~Alive(q)'
      BY <2>1, Alone DEF Forget, Goto, Alive, IInv, TypeOK
    <2>3. tick.expires = now[p] + Lease /\ clock < now[p] + Lease
      BY <2>1 DEF Exclusive
    <2>4. QED
      BY <1>1, <2>1, <2>2, <2>3 DEF Exclusive
  <1>6. CASE (\E t \in Tickets : Transition(t) \/ Recover(t)) \/ OrphanEnds \/ UNCHANGED vars
    <2>1. UNCHANGED <<clock, tick, pc, now>> /\ orphan' \subseteq orphan
      BY <1>6 DEF Transition, Recover, Moved, OrphanEnds, vars
    <2>2. QED
      BY <2>1 DEF Exclusive, Alive
  <1>7. CASE Advance
    <2>1. /\ clock' = clock + 1 /\ UNCHANGED <<tick, pc, now, orphan>>
          /\ \A p \in Processes : Alive(p) => ~(now[p] + Lease <= clock + 1)
          /\ \A o \in orphan : ~(o.expires <= clock + 1)
      BY <1>7 DEF Advance, Overruns, TicksOnly
    <2>2. QED
      BY <1>1, <2>1 DEF Exclusive, Alive
  <1>8. QED
    BY <1>2, <1>3, <1>4, <1>5, <1>6, <1>7 DEF Next, TicksOnly

\* Who acknowledges an intent owns it.
LEMMA AcknowledgedBy ==
  ASSUME TicksOnly, IInv, [Next]_vars, NEW e \in Events,
         row'[e].status = "acknowledged", row[e].status # "acknowledged"
  PROVE  \E p \in Processes : Ack(p) /\ Owns(p) /\ e = event[p]
  <1>1. row \in [Events -> Rows]
    BY DEF IInv, TypeOK
  <1>2. row' # row
    OBVIOUS
  <1>3. ASSUME NEW t \in Tickets, Transition(t)
        PROVE  FALSE
    <2>1. PICK s \in Allowed(state[t]) : Moved(t, s, TRUE) /\ Enqueue(t, Len(log) + 1)
      BY <1>2, <1>3 DEF Transition
    <2>2. s \in CanonicalStates
      BY AllowedAre DEF IInv, TypeOK
    <2>3. Len(log) + 1 \in Events /\ Len(log) \in Nat
      BY <2>1, <2>2, Appended DEF IInv
    <2>4. \A f \in Events : f >= Len(log) + 1 => row[f].status = "none"
      BY <2>3, BoundsAssumption DEF IInv, Recorded, Events
    <2>5. /\ row'[Len(log) + 1].status = "queued"
          /\ \A f \in Events \ {Len(log) + 1} : row'[f].status = row[f].status \/ row'[f].status = "superseded"
      <3>1. row[Len(log) + 1].status = "none" /\ \A f \in Events : f > Len(log) + 1 => row[f].status = "none"
        BY <2>3, <2>4, BoundsAssumption DEF Events
      <3>2. QED
        BY <2>1, <2>3, <3>1, Enqueued
    <2>6. QED
      BY <2>5
  <1>4. ASSUME NEW w \in Workers, ClaimNext(w)
        PROVE  FALSE
    <2>1. PICK f \in Events : ClaimEvent(w, f, {w})
      BY <1>2, <1>4 DEF ClaimNext, First
    <2>2. row'[e].status = row[e].status
      BY <1>1, <2>1 DEF ClaimEvent, Rows
    <2>3. QED
      BY <2>2
  <1>5. ASSUME NEW p \in Processes, Gate(p) \/ Release(p)
        PROVE  FALSE
    <2>1. Handling(p)
      BY <1>5 DEF Gate, Release, Handling
    <2>2. event[p] \in Events /\ row[event[p]] \in Rows
      BY <1>1, <2>1, BoundsAssumption DEF IInv, TypeOK, Recorded, Events
    <2>3. CASE Gate(p)
      BY <1>1, <1>2, <2>2, <2>3 DEF Gate, Superseded, Rows
    <2>4. CASE Release(p)
      BY <1>1, <1>2, <2>2, <2>4 DEF Release, Rows
    <2>5. QED
      BY <1>5, <2>3, <2>4
  <1>6. ASSUME NEW p \in Processes, Ack(p)
        PROVE  Owns(p) /\ e = event[p]
    <2>1. Owns(p)
      BY <1>2, <1>6 DEF Ack
    <2>2. e # event[p] => row'[e] = row[e]
      BY <1>1, <1>6, <2>1 DEF Ack
    <2>3. QED
      BY <2>1, <2>2
  <1>7. \/ \E t \in Tickets : Transition(t)
        \/ \E w \in Workers : ClaimNext(w)
        \/ \E p \in Processes : Gate(p) \/ Release(p) \/ Ack(p)
    BY <1>2 DEF Next, TicksOnly, StartTick, Step, Look, Unblock, Send, Fail, Crash, Recover, OrphanEnds,
       Advance, vars
  <1>8. QED
    BY <1>3, <1>4, <1>5, <1>6, <1>7

\* Events are appended, and stay.
LEMMA LogGrows ==
  ASSUME TicksOnly, IInv, [Next]_vars
  PROVE  Len(log) <= Len(log') /\ Len(log) \in Nat /\ Len(log') \in Nat /\ \A f \in 1..Len(log) : log'[f] = log[f]
  <1>1. CASE log' = log
    BY <1>1 DEF IInv, TypeOK
  <1>2. ASSUME NEW u \in Tickets, NEW s \in CanonicalStates, NEW shown \in BOOLEAN, Moved(u, s, shown)
        PROVE  Len(log) <= Len(log') /\ Len(log) \in Nat /\ Len(log') \in Nat /\ \A f \in 1..Len(log) : log'[f] = log[f]
    BY <1>2, Appended DEF IInv
  <1>3. log' = log \/ \E u \in Tickets, s \in CanonicalStates, shown \in BOOLEAN : Moved(u, s, shown)
    <2>1. ASSUME NEW u \in Tickets, Transition(u)
          PROVE  \E s \in CanonicalStates, shown \in BOOLEAN : Moved(u, s, shown)
      BY <2>1, AllowedAre DEF Transition, IInv, TypeOK
    <2>2. ASSUME NEW u \in Tickets, Recover(u)
          PROVE  \E s \in CanonicalStates, shown \in BOOLEAN : Moved(u, s, shown)
      BY <2>2 DEF Recover, CanonicalStates
    <2>3. QED
      BY <2>1, <2>2 DEF Next, TicksOnly, StartTick, ClaimNext, Step, Gate, Look, Unblock, Send, Ack, Release,
         Fail, Crash, OrphanEnds, Advance, vars
  <1>4. QED
    BY <1>1, <1>2, <1>3

\* Nothing settles a card but an acknowledgement: a new event leaves it open.
LEMMA SettledBefore ==
  ASSUME TicksOnly, IInv, [Next]_vars, NEW t \in Tickets, NEW e \in Events, Settled(t, e)'
  PROVE  /\ e \in Latest(t) /\ log'[e] = log[e]
         /\ Settled(t, e) \/ \E p \in Processes : Ack(p) /\ Owns(p) /\ e = event[p]
  <1>1. e \in 1..Len(log') /\ log'[e].ticket = t /\ ~Newer(e)' /\ row'[e].status = "acknowledged"
    BY DEF Settled, Latest
  <1>2. row[e].status = "acknowledged" \/ \E p \in Processes : Ack(p) /\ Owns(p) /\ e = event[p]
    BY <1>1, AcknowledgedBy
  <1>3. e \in 1..Len(log)
    <2>1. CASE row[e].status = "acknowledged"
      BY <2>1, BoundsAssumption DEF IInv, TypeOK, Recorded, Events
    <2>2. ASSUME NEW p \in Processes, Ack(p), e = event[p]
          PROVE  e \in 1..Len(log)
      BY <2>2 DEF IInv, Recorded, Handling, Ack
    <2>3. QED
      BY <1>2, <2>1, <2>2
  <1>4. Len(log) <= Len(log') /\ Len(log) \in Nat /\ Len(log') \in Nat /\ \A f \in 1..Len(log) : log'[f] = log[f]
    BY LogGrows
  <1>5. ~Newer(e)
    <2>1. ASSUME NEW f \in Events, f > e, f <= Len(log), log[f].ticket = log[e].ticket
          PROVE  FALSE
      <3>1. f \in 1..Len(log)
        BY <1>4, <2>1, BoundsAssumption DEF Events
      <3>2. f <= Len(log') /\ log'[f].ticket = log'[e].ticket
        BY <1>3, <1>4, <2>1, <3>1, BoundsAssumption DEF Events
      <3>3. QED
        BY <1>1, <2>1, <3>2 DEF Newer
    <2>2. QED
      BY <2>1 DEF Newer
  <1>6. QED
    BY <1>1, <1>2, <1>3, <1>4, <1>5 DEF Settled, Latest

\* Who writes to a card: a process behind the gate, or a client left alone.
LEMMA BoardWrites ==
  ASSUME TicksOnly, IInv, [Next]_vars, NEW t \in Tickets, board'[t] # board[t]
  PROVE  \/ \E p \in Processes : pc[p] \in {"unblock", "send"} /\ t = Card(p)
         \/ \E o \in orphan : t = o.ticket
  <1>1. \/ \E p \in Processes : Unblock(p) \/ Send(p) \/ Fail(p)
        \/ OrphanEnds
    BY DEF Next, TicksOnly, StartTick, ClaimNext, Step, Gate, Look, Ack, Release, Crash, Transition, Recover,
       Moved, Advance, vars
  <1>2. board \in [Tickets -> Columns]
    BY DEF IInv, TypeOK
  <1>3. CASE OrphanEnds
    BY <1>2, <1>3 DEF OrphanEnds
  <1>4. ASSUME NEW p \in Processes, Unblock(p) \/ Send(p) \/ Fail(p)
        PROVE  pc[p] \in {"unblock", "send"} /\ t = Card(p)
    <2>1. /\ pc[p] \in {"unblock", "send"}
          /\ \E c : board' = [board EXCEPT ![Card(p)] = c]
      BY <1>4 DEF Unblock, Send, Fail
    <2>2. QED
      BY <1>2, <2>1
  <1>5. QED
    BY <1>1, <1>3, <1>4

\* The latest event of a ticket is one.
LEMMA LatestIsOne ==
  ASSUME IInv, NEW t, NEW e \in Latest(t), NEW f \in Latest(t)
  PROVE  e = f
  <1>1. 1..Len(log) \subseteq Events /\ Len(log) \in Nat
    BY BoundsAssumption DEF IInv, TypeOK, Events
  <1>2. e \in 1..Len(log) /\ f \in 1..Len(log) /\ ~(f > e) /\ ~(e > f)
    BY <1>1 DEF Latest, Newer
  <1>3. QED
    BY <1>2

\* A step that changes where a process is, or what it holds, is a step of that
\* process.
LEMMA PcMoves ==
  ASSUME IInv, TicksOnly, [Next]_vars, NEW p \in Processes
  PROVE  \/ (pc'[p] = pc[p] /\ event'[p] = event[p])
         \/ pc'[p] \in {"idle", "claim", "gate"}
         \/ Step(p) \/ Fail(p)
  <1>1. pc \in [Processes -> Steps] /\ event \in [Processes -> Events \cup {NoEvent}]
    BY DEF IInv, TypeOK
  <1>2. CASE UNCHANGED processVars
    BY <1>2 DEF processVars
  <1>3. ASSUME NEW q \in Processes, Step(q) \/ Fail(q)
        PROVE  Step(p) \/ Fail(p) \/ (pc'[p] = pc[p] /\ event'[p] = event[p])
    <2>1. CASE q # p
      <3>1. CASE Step(q)
        BY <1>1, <2>1, <3>1 DEF Step, Gate, Look, Unblock, Send, Ack, Release, End, Forget, Goto
      <3>2. CASE Fail(q)
        BY <1>1, <2>1, <3>2 DEF Fail, Goto
      <3>3. QED
        BY <1>3, <3>1, <3>2
    <2>2. CASE q = p
      BY <1>3, <2>2
    <2>3. QED
      BY <2>1, <2>2
  <1>4. ASSUME NEW q \in Processes, Crash(q)
        PROVE  pc'[p] = "idle" \/ (pc'[p] = pc[p] /\ event'[p] = event[p])
    <2>1. pc' = [pc EXCEPT ![q] = "idle"] /\ event' = [event EXCEPT ![q] = NoEvent]
      BY <1>4 DEF Crash, Forget, Goto
    <2>2. pc'[p] = (IF p = q THEN "idle" ELSE pc[p])
      BY <1>1, <2>1
    <2>3. p # q => event'[p] = event[p]
      BY <1>1, <2>1
    <2>4. QED
      BY <2>2, <2>3
  <1>5. ASSUME NEW w \in Workers, StartTick(w)
        PROVE  pc'[p] = "claim" \/ (pc'[p] = pc[p] /\ event'[p] = event[p])
    <2>1. pc' = [pc EXCEPT ![w] = "claim"] /\ event' = event
      BY <1>5 DEF StartTick, Goto
    <2>2. QED
      BY <1>1, <2>1 DEF Processes
  <1>6. ASSUME NEW w \in Workers, ClaimNext(w)
        PROVE  pc'[p] \in {"idle", "gate"} \/ (pc'[p] = pc[p] /\ event'[p] = event[p])
    <2>1. \/ pc' = [pc EXCEPT ![w] = "idle"] /\ event' = [event EXCEPT ![w] = NoEvent]
          \/ pc' = [pc EXCEPT ![w] = "gate"] /\ \E e \in Events : event' = [event EXCEPT ![w] = e]
      BY <1>6 DEF ClaimNext, ClaimEvent, First, End, Forget, Goto
    <2>2. p # w => pc'[p] = pc[p] /\ event'[p] = event[p]
      BY <1>1, <2>1
    <2>3. w \in Processes /\ pc'[w] \in {"idle", "gate"}
      BY <1>1, <2>1 DEF Processes
    <2>4. QED
      BY <2>2, <2>3
  <1>7. ASSUME NEW t \in Tickets, Transition(t) \/ Recover(t)
        PROVE  UNCHANGED processVars
    BY <1>7 DEF Transition, Recover, Moved
  <1>8. CASE OrphanEnds \/ Advance
    BY <1>2, <1>8 DEF OrphanEnds, Advance
  <1>9. CASE UNCHANGED vars
    BY <1>2, <1>9 DEF vars
  <1>10. QED
    BY <1>2, <1>3, <1>4, <1>5, <1>6, <1>7, <1>8, <1>9 DEF Next, TicksOnly

\* Nobody else is alive when a process acknowledges, and when it goes on nothing is settled
\* that was not.
LEMMA BoardStays ==
  ASSUME TicksOnly, BoardInv, [Next]_vars
  PROVE  Unsettled' /\ BoardCurrent'
  <1>1. IInv /\ Exclusive /\ Unsettled /\ BoardCurrent /\ IInv' /\ Exclusive'
    BY EveryStep, ExclusiveStays DEF BoardInv
  <1>2. \A t : \A e \in Latest(t) : e \in 1..Len(log) /\ e \in Events /\ t = log[e].ticket /\ t \in Tickets
    BY <1>1, LogIs DEF Latest, IInv
  <1>3. \A p \in Processes : Handling(p) => Card(p) \in Tickets
    BY <1>1, LogIs DEF Card, IInv, Recorded
  <1>4. ASSUME NEW p \in Processes, Ack(p)
        PROVE  Unsettled' /\ BoardCurrent'
    <2>1. Alive(p) /\ pc[p] = "ack" /\ End(p) /\ UNCHANGED <<log, board, orphan>>
      BY <1>4 DEF Ack, Alive
    <2>2. orphan = {} /\ \A q \in Processes : pc'[q] = "idle"
      BY <1>1, <2>1, Alone DEF End, Forget, Goto, Alive, Exclusive, IInv, TypeOK
    <2>3. Unsettled'
      BY <2>1, <2>2 DEF Unsettled
    <2>4. ASSUME NEW t \in Tickets, NEW e \in Events, Settled(t, e)'
          PROVE  board[t] = Column(log[e].to)
      <3>1. CASE Settled(t, e)
        BY <1>1, <3>1 DEF BoardCurrent, Settled
      <3>2. ASSUME NEW q \in Processes, Ack(q), e = event[q]
            PROVE  board[t] = Column(log[e].to)
        <4>1. Alive(q) /\ pc[q] = "ack"
          BY <3>2 DEF Ack, Alive
        <4>2. t = Card(q)
          BY <1>1, <2>4, <3>2, SettledBefore DEF Card, Latest
        <4>3. QED
          BY <1>1, <3>2, <4>1, <4>2 DEF Unsettled, Target
      <3>3. QED
        BY <1>1, <2>4, <3>1, <3>2, SettledBefore
    <2>5. BoardCurrent'
      <3>1. \A t \in Tickets : \A e \in Latest(t)' : e \in Events
        BY <1>2, <2>1 DEF Latest, Newer
      <3>2. QED
        BY <2>1, <2>4, <3>1 DEF BoardCurrent, Settled
    <2>6. QED
      BY <2>3, <2>5
  <1>5. ASSUME \A p \in Processes : ~Ack(p)
        PROVE  Unsettled' /\ BoardCurrent'
    <2>1. \A t \in Tickets, e \in Events : Settled(t, e)' => Settled(t, e) /\ log'[e] = log[e]
      BY <1>1, <1>5, SettledBefore
    <2>2. BoardCurrent'
      <3>1. SUFFICES ASSUME NEW t \in Tickets, NEW e \in Latest(t)', row'[e].status = "acknowledged"
                     PROVE  board'[t] = Column(log'[e].to)
        BY DEF BoardCurrent
      <3>2. e \in Events
        <4>1. e \in 1..Len(log') /\ Len(log') \in Nat /\ Len(log') <= MaxEvents
          BY <1>1 DEF Latest, IInv, TypeOK
        <4>2. QED
          BY <4>1, BoundsAssumption DEF Events
      <3>3. Settled(t, e) /\ log'[e] = log[e]
        BY <2>1, <3>1, <3>2 DEF Settled
      <3>4. board'[t] = board[t]
        BY <1>1, <3>2, <3>3, BoardWrites DEF Unsettled
      <3>5. QED
        BY <1>1, <3>3, <3>4 DEF BoardCurrent, Settled
    <2>3. ASSUME NEW p \in Processes, pc'[p] \in {"look", "unblock", "send", "ack", "release"}
          PROVE  /\ pc[p] \in {"gate", "look", "unblock", "send"} \/ pc'[p] = pc[p]
                 /\ Card(p)' = Card(p) /\ Target(p)' = Target(p) /\ Card(p) \in Tickets
                 /\ \A e \in Events : ~Settled(Card(p), e)
      <3>1. /\ pc[p] \in {"gate", "look", "unblock", "send"} \/ pc'[p] = pc[p]
            /\ event'[p] = event[p]
        <4>1. \/ (pc'[p] = pc[p] /\ event'[p] = event[p])
              \/ Step(p) \/ Fail(p)
          BY <1>1, <2>3, PcMoves
        <4>2. CASE Step(p)
          BY <1>1, <1>5, <2>3, <4>2 DEF Step, Gate, Look, Unblock, Send, Release, End, Forget, Goto, IInv, TypeOK
        <4>3. CASE Fail(p)
          BY <2>3, <4>3 DEF Fail
        <4>4. QED
          BY <4>1, <4>2, <4>3
      <3>2. Handling(p)
        BY <2>3, <3>1 DEF Handling
      <3>3. event[p] \in 1..Len(log) /\ event[p] \in Events
        BY <1>1, <3>2, LogIs DEF IInv, Recorded
      <3>4. log'[event[p]] = log[event[p]]
        BY <1>1, <3>3, LogGrows
      <3>5. Card(p)' = Card(p) /\ Target(p)' = Target(p)
        BY <3>1, <3>4 DEF Card, Target
      <3>6. ASSUME NEW e \in Events, Settled(Card(p), e)
            PROVE  FALSE
        <4>1. pc[p] = "gate"
          BY <1>1, <2>3, <3>1, <3>6 DEF Unsettled
        <4>2. \E q \in Processes : Step(q) \/ Fail(q) \/ Crash(q)
          BY <2>3, <4>1, <1>1 DEF Next, TicksOnly, StartTick, ClaimNext, ClaimEvent, Forget, End, Goto, Transition,
             Recover, Moved, OrphanEnds, Advance, vars, IInv, TypeOK
        <4>3. Gate(p)
          BY <1>1, <2>3, <4>1, <4>2 DEF Step, Gate, Look, Unblock, Send, Ack, Release, Fail, Crash, Forget, End, Goto,
             IInv, TypeOK
        <4>4. Owns(p) /\ ~Newer(event[p])
          BY <1>1, <2>3, <4>1, <4>3 DEF Gate, End, Forget, Goto, IInv, TypeOK
        <4>5. event[p] \in Latest(Card(p)) /\ row[event[p]].status = "queued"
          BY <3>3, <4>4 DEF Latest, Card, Owns
        <4>6. QED
          BY <1>1, <3>6, <4>5, LatestIsOne DEF Settled
      <3>7. QED
        BY <1>1, <1>3, <3>1, <3>2, <3>5, <3>6
    <2>4. ASSUME NEW p \in Processes, pc'[p] = "ack"
          PROVE  board'[Card(p)] = Target(p)
      <3>1. Alive(p) /\ Alive(p)' /\ Card(p) \in Tickets
        BY <2>3, <2>4 DEF Alive
      <3>2. CASE pc[p] = "ack"
        <4>1. board'[Card(p)] = board[Card(p)]
          <5>1. \A e \in Processes : pc[e] \in {"unblock", "send"} => e = p
            BY <1>1, <3>1, Alone DEF Alive
          <5>2. orphan = {}
            BY <1>1, <3>1 DEF Exclusive
          <5>3. QED
            BY <1>1, <3>1, <3>2, <5>1, <5>2, BoardWrites
        <4>2. QED
          BY <1>1, <3>2, <4>1 DEF Unsettled
      <3>3. CASE pc[p] # "ack"
        <4>1. Look(p) \/ Send(p)
          <5>1. Step(p) \/ Fail(p)
            BY <1>1, <2>4, <3>3, PcMoves
          <5>2. ~Fail(p) /\ ~Gate(p) /\ ~Unblock(p) /\ ~Release(p) /\ ~Ack(p)
            BY <1>1, <2>4, <3>3 DEF Fail, Gate, Unblock, Release, Ack, End, Forget, Goto, IInv, TypeOK
          <5>3. QED
            BY <5>1, <5>2 DEF Step
        <4>2. CASE Look(p)
          BY <1>1, <2>4, <4>2 DEF Look, Goto, IInv, TypeOK
        <4>3. CASE Send(p)
          BY <1>1, <3>1, <4>3 DEF Send, IInv, TypeOK
        <4>4. QED
          BY <4>1, <4>2, <4>3
      <3>4. QED
        BY <3>2, <3>3
    <2>5. ASSUME NEW o \in orphan', NEW e \in Events
          PROVE  ~Settled(o.ticket, e)' /\ o.ticket \in Tickets
      <3>1. o.ticket \in Tickets
        BY <1>1 DEF IInv, TypeOK
      <3>2. CASE o \in orphan
        BY <1>1, <2>1, <3>1, <3>2 DEF Unsettled
      <3>3. CASE o \notin orphan
        <4>1. PICK p \in Processes : Crash(p)
          BY <3>3 DEF Next, TicksOnly, StartTick, ClaimNext, Step, Gate, Look, Unblock, Send, Ack, Release, Fail,
             Transition, Recover, Moved, OrphanEnds, Advance, vars
        <4>2. pc[p] \in {"unblock", "send"} /\ o.ticket = Card(p)
          BY <3>3, <4>1 DEF Crash
        <4>3. QED
          BY <1>1, <2>1, <3>1, <4>2 DEF Unsettled
      <3>4. QED
        BY <3>2, <3>3
    <2>6. Unsettled'
      <3>1. ASSUME NEW p \in Processes, pc'[p] \in {"look", "unblock", "send", "ack", "release"}, NEW e \in Events
            PROVE  ~Settled(Card(p), e)'
        <4>1. Card(p)' = Card(p) /\ Card(p) \in Tickets /\ ~Settled(Card(p), e)
          BY <2>3, <3>1
        <4>2. PICK t \in Tickets : t = Card(p)
          BY <4>1
        <4>3. ~Settled(t, e)'
          BY <2>1, <4>1, <4>2
        <4>4. QED
          BY <4>1, <4>2, <4>3 DEF Settled, Latest
      <3>2. \A p \in Processes : pc'[p] = "ack" => board'[Card(p)'] = Target(p)'
        BY <2>3, <2>4
      <3>3. QED
        BY <2>5, <3>1, <3>2 DEF Unsettled
    <2>7. QED
      BY <2>2, <2>6
  <1>6. QED
    BY <1>4, <1>5

LEMMA BoardInitially ==
  ASSUME Init
  PROVE  BoardInv
  <1>1. IInv
    BY Initially
  <1>2. Exclusive /\ Unsettled
    BY DEF Init, Exclusive, Unsettled, Alive
  <1>3. BoardCurrent
    <2>1. Len(log) = 0
      BY DEF Init
    <2>2. \A t \in Tickets : Latest(t) = {}
      BY <2>1 DEF Latest
    <2>3. QED
      BY <2>2 DEF BoardCurrent
  <1>4. QED
    BY <1>1, <1>2, <1>3 DEF BoardInv

\* When the intent of the latest event of a ticket is acknowledged the card shows that state,
\* as long as all projections run in ticks that end within their lease: however many
\* of them die, fail or leave a client running.
THEOREM BoardFollows ==
  ASSUME TicksOnly
  PROVE  Spec => []BoardCurrent
  <1>1. Init => BoardInv
    BY BoardInitially
  <1>2. BoardInv /\ [Next]_vars => BoardInv'
    BY BoardStays, EveryStep, ExclusiveStays DEF BoardInv
  <1>3. BoardInv => BoardCurrent
    BY DEF BoardInv
  <1>4. QED
    BY <1>1, <1>2, <1>3, PTL DEF Spec
=============================================================================
