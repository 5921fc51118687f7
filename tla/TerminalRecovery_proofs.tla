---------------------- MODULE TerminalRecovery_proofs ----------------------
(* What stays true of the notices of terminal failures, of the evidence a  *)
(* recovery removes and of the attempts of the ticket, for any number of   *)
(* ticks, attempts and failures, whichever ticks die or stall and whatever *)
(* the operator does meanwhile.  The attempts are those of an operator who *)
(* waits for escalations under way: Path is the invariant then.            *)
EXTENDS TerminalRecovery, FiniteSetTheorems, TLAPS

USE DEF ticketVars, callVars, noticeVars, recoveryVars, tickVars

\* The ticks that are about to hand a notice to the gateway, stalled ones included.
Senders(g) == {t \in Ticks : pc[t].at = "send" /\ pc[t].n = g}
Sending(g) == Cardinality(Senders(g))

\* The gateway has, or is about to get, the notice once less than it may.
Unsent(g) == sent[g] + Sending(g) <= retried[g]

Ticking ==
    /\ TickTypes
    /\ \A t \in Ticks :
          /\ pc[t].at \in {"send", "mark"} => pc[t].n \in Gens
          /\ Escalating(t) => pc[t].n \in Attempts /\ pc[t].src \in Sources

Failures ==
    terminal \in [n : 0..(MaxAttempts + MaxGens), src : Sources \cup {"none"},
                  why : {"none", "ok", "refused", "rejected", "timeout", "repair",
                         "unresolvable", "budget"},
                  gen : Nat, open : BOOLEAN]

\* The bound on the failures holds as long as nobody resolves one under an escalation.
Bounded ==
    Orderly =>
        /\ terminal.gen <= MaxGens
        /\ \A t \in Ticks : Escalating(t) => terminal.open \/ terminal.gen < MaxGens

\* What was sent, and what will be by the ticks on their way, was called for.
Accounted ==
    \A g \in Gens :
        /\ sent[g] + Sending(g) <= retried[g] + 1
        /\ notice[g].status \in {"none", "pending", "retryable"} => Unsent(g)

\* A delivery under way is known by its tick; a refusal sent nothing.
Delivering ==
    \A g \in Gens, t \in Ticks :
        notice[g].status = "delivering" /\ notice[g].owner = t =>
            /\ pc[t].at \in {"send", "mark"} /\ pc[t].n = g
            /\ pc[t].at = "mark" /\ pc[t].word = "refused" => Unsent(g)

\* The failures so far, and they only, have a notice.
Announced == \A g \in Gens : g > terminal.gen <=> notice[g].status = "none"

Evidence ==
    /\ route \in [Attempts -> {"none", "pass", "repair"} \cup Sources]
    /\ feedback \in [Attempts -> {"none"} \cup Sources]
    /\ DOMAIN archives = Gens /\ DOMAIN signed = Gens
    /\ answer \in [Attempts \X Sources -> {"none", "repair", "unresolvable"}]

IInv ==
    /\ Ticking /\ Failures /\ Bounded /\ NoticeTypes /\ Accounted /\ Delivering /\ Announced
    /\ QuietWhenResolved /\ Evidence

----------------------------------------------------------------------------
(* Counting the senders.                                                   *)

LEMMA SendersAreFinite == \A g : IsFiniteSet(Senders(g)) /\ Sending(g) \in Nat
  <1>1. \A g : Senders(g) \subseteq Ticks
    BY DEF Senders
  <1>2. QED
    BY <1>1, TicksAssumption, FS_Subset, FS_CardinalityType DEF Sending

LEMMA FewerSenders ==
  ASSUME NEW g,
         \A u \in Ticks : pc'[u].at = "send" /\ pc'[u].n = g => pc[u].at = "send" /\ pc[u].n = g
  PROVE  Sending(g)' <= Sending(g) /\ Sending(g)' \in Nat /\ Sending(g) \in Nat
  <1>1. Senders(g)' \subseteq Senders(g)
    BY DEF Senders
  <1>2. Sending(g)' = Cardinality(Senders(g)')
    BY DEF Sending
  <1>3. Cardinality(Senders(g)') <= Cardinality(Senders(g)) /\ IsFiniteSet(Senders(g)')
    BY <1>1, SendersAreFinite, FS_Subset
  <1>4. QED
    BY <1>2, <1>3, SendersAreFinite, FS_CardinalityType DEF Sending

LEMMA SenderLeaves ==
  ASSUME NEW g, NEW t \in Ticks, pc[t].at = "send", pc[t].n = g, pc'[t].at # "send",
         \A u \in Ticks \ {t} : pc'[u] = pc[u]
  PROVE  Sending(g)' = Sending(g) - 1 /\ Sending(g) \in Nat
  <1>1. Senders(g)' = Senders(g) \ {t} /\ t \in Senders(g)
    BY DEF Senders
  <1>2. Sending(g)' = Cardinality(Senders(g)')
    BY DEF Sending
  <1>3. QED
    BY <1>1, <1>2, SendersAreFinite, FS_RemoveElement DEF Sending

LEMMA SenderComes ==
  ASSUME NEW g, NEW t \in Ticks, pc[t].at # "send", pc'[t].at = "send", pc'[t].n = g,
         \A u \in Ticks \ {t} : pc'[u] = pc[u]
  PROVE  Sending(g)' = Sending(g) + 1 /\ Sending(g) \in Nat
  <1>1. Senders(g)' = Senders(g) \cup {t} /\ t \notin Senders(g)
    BY DEF Senders
  <1>2. Sending(g)' = Cardinality(Senders(g)')
    BY DEF Sending
  <1>3. QED
    BY <1>1, <1>2, SendersAreFinite, FS_AddElement DEF Sending

\* What is accounted for stays so when nobody starts to send and no account changes.
LEMMA AccountsStay ==
  ASSUME NEW g \in Gens, NoticeTypes, UNCHANGED <<sent, retried>>,
         \A u \in Ticks : pc'[u].at = "send" /\ pc'[u].n = g => pc[u].at = "send" /\ pc[u].n = g
  PROVE  /\ sent[g] + Sending(g) <= retried[g] + 1 => sent'[g] + Sending(g)' <= retried'[g] + 1
         /\ Unsent(g) => Unsent(g)'
  <1>1. Sending(g)' <= Sending(g) /\ Sending(g)' \in Nat /\ Sending(g) \in Nat
    BY FewerSenders
  <1>2. sent[g] \in Nat /\ retried[g] \in Nat
    BY DEF NoticeTypes
  <1>3. QED
    BY <1>1, <1>2 DEF Unsent

LEMMA IdleIs == Idle \in Positions
  BY BoundsAssumption DEF Idle, Positions

----------------------------------------------------------------------------
(* Steps that leave the notices alone.                                     *)

\* A tick that has nothing to do with a notice goes on, or ends.
LEMMA TickMoves ==
  ASSUME IInv, NEW t \in Ticks, NEW p \in Positions, pc' = [pc EXCEPT ![t] = p],
         lease' \in Ticks \cup {None}, UNCHANGED <<terminal, noticeVars>>, Evidence',
         pc[t].at \notin {"send", "mark"}, p.at \notin {"send", "mark"},
         p.at \in {"ask", "record"} => /\ Escalating(t) \/ terminal.gen < MaxGens
                                       /\ p.n \in Attempts /\ p.src \in Sources
  PROVE  IInv'
  <1>1. pc'[t] = p /\ \A u \in Ticks \ {t} : pc'[u] = pc[u]
    BY DEF IInv, Ticking, TickTypes
  <1>2. Ticking'
    BY <1>1 DEF IInv, Ticking, TickTypes, Escalating
  <1>3. Bounded'
    BY <1>1 DEF IInv, Bounded, Escalating
  <1>4. \A g \in Gens :
          /\ sent[g] + Sending(g) <= retried[g] + 1 => sent'[g] + Sending(g)' <= retried'[g] + 1
          /\ Unsent(g) => Unsent(g)'
    BY <1>1, AccountsStay DEF IInv
  <1>5. Accounted'
    BY <1>4 DEF IInv, Accounted
  <1>6. Delivering'
    BY <1>1, <1>4 DEF IInv, Delivering
  <1>7. Failures' /\ NoticeTypes' /\ Announced' /\ QuietWhenResolved'
    BY DEF IInv, Failures, NoticeTypes, Announced, QuietWhenResolved
  <1>8. QED
    BY <1>2, <1>3, <1>5, <1>6, <1>7 DEF IInv

\* Nothing of what the invariant is about changes.
LEMMA Unmoved ==
  ASSUME IInv, UNCHANGED <<terminal, noticeVars, tickVars, route, feedback, archives, signed,
                           answer>>
  PROVE  IInv'
  <1>1. \A g : Sending(g)' = Sending(g)
    BY DEF Sending, Senders
  <1>2. \A g \in Gens : Unsent(g)' <=> Unsent(g)
    BY <1>1 DEF Unsent
  <1>3. Accounted' /\ Delivering'
    BY <1>1, <1>2 DEF IInv, Accounted, Delivering
  <1>4. QED
    BY <1>3 DEF IInv, Ticking, TickTypes, Failures, Bounded, Escalating, NoticeTypes, Announced,
                QuietWhenResolved, Evidence

----------------------------------------------------------------------------
(* Ticks.                                                                  *)

LEMMA StartStep ==
  ASSUME IInv, NEW t \in Ticks, Start(t)
  PROVE  IInv'
  <1> DEFINE p == [Idle EXCEPT !.at = "notify"]
  <1>1. p \in Positions /\ p.at = "notify"
    BY IdleIs DEF Positions, Idle
  <1>2. pc' = [pc EXCEPT ![t] = p] /\ lease' = t /\ pc[t].at = "idle"
    BY DEF Start, At
  <1>3. UNCHANGED <<terminal, noticeVars>> /\ Evidence'
    BY DEF IInv, Start, Evidence
  <1> HIDE DEF p
  <1>4. QED
    BY <1>1, <1>2, <1>3, TickMoves

\* The tick ends where it had no notice in hand.
LEMMA Ends ==
  ASSUME IInv, NEW t \in Ticks, End(t), pc[t].at \notin {"send", "mark"},
         UNCHANGED <<terminal, noticeVars>>, Evidence'
  PROVE  IInv'
  <1>1. lease' \in Ticks \cup {None}
    BY DEF IInv, Ticking, TickTypes, End
  <1>2. Idle.at = "idle"
    BY DEF Idle
  <1>3. QED
    BY <1>1, <1>2, IdleIs, TickMoves DEF End

LEMMA StageStep ==
  ASSUME IInv, NEW t \in Ticks,
         Reconcile(t) \/ Validate(t) \/ Review(t) \/ WriteFeedback(t) \/ Route(t) \/ Rest(t)
  PROVE  IInv'
  <1>1. End(t) /\ pc[t].at = "stages" /\ UNCHANGED <<terminal, noticeVars, archives, signed, answer>>
    BY DEF Reconcile, Validate, Review, WriteFeedback, Route, Rest, Staged, At, Elsewhere
  <1>2. CASE UNCHANGED <<route, feedback>>
    BY <1>1, <1>2, Ends DEF IInv, Evidence
  <1>3. CASE WriteFeedback(t)
    <2>1. PICK n \in Attempts : Decision(n) \in Sources /\ feedback' = [feedback EXCEPT ![n] = Decision(n)]
      BY <1>3 DEF WriteFeedback
    <2>2. route' = route
      BY <1>3 DEF WriteFeedback
    <2>3. Evidence'
      BY <1>1, <2>1, <2>2 DEF IInv, Evidence
    <2>4. QED
      BY <1>1, <2>3, Ends
  <1>4. CASE Route(t)
    <2>1. PICK n \in Attempts : route' = [route EXCEPT ![n] = Decision(n)]
      BY <1>4 DEF Route
    <2>2. feedback' = feedback
      BY <1>4 DEF Route
    <2>3. Decision(n) \in {"none", "pass", "repair"} \cup Sources
      BY DEF Decision, Sources
    <2>4. Evidence'
      BY <1>1, <2>1, <2>2, <2>3 DEF IInv, Evidence
    <2>5. QED
      BY <1>1, <2>4, Ends
  <1>5. QED
    BY <1>2, <1>3, <1>4 DEF Reconcile, Validate, Review, Rest

LEMMA EscalateStep ==
  ASSUME IInv, NEW t \in Ticks, Escalate(t)
  PROVE  IInv'
  <1>1. PICK n \in Attempts :
          /\ Triaged(n) /\ terminal.gen < MaxGens
          /\ feedback' = [feedback EXCEPT ![n] = route[n]]
          /\ Goto(t, [Idle EXCEPT !.at = "ask", !.n = n, !.src = route[n]])
    BY DEF Escalate, Candidate, LastTriage
  <1> DEFINE p == [Idle EXCEPT !.at = "ask", !.n = n, !.src = route[n]]
  <1>2. route[n] \in Sources /\ n \in 0..(MaxAttempts + MaxGens)
    BY <1>1, BoundsAssumption DEF Triaged, Attempts
  <1>3. p \in Positions /\ p.at = "ask" /\ p.n \in Attempts /\ p.src \in Sources
    BY <1>2 DEF Idle, Positions
  <1>4. /\ pc' = [pc EXCEPT ![t] = p] /\ lease' = lease /\ pc[t].at = "stages"
        /\ UNCHANGED <<terminal, noticeVars, route, archives, signed, answer>>
    BY <1>1 DEF Escalate, Goto, At, Elsewhere
  <1>5. Evidence'
    BY <1>1, <1>2, <1>4 DEF IInv, Evidence
  <1>6. lease \in Ticks \cup {None}
    BY DEF IInv, Ticking, TickTypes
  <1> HIDE DEF p
  <1>7. QED
    BY <1>1, <1>3, <1>4, <1>5, <1>6, TickMoves

LEMMA AskStep ==
  ASSUME IInv, NEW t \in Ticks, Ask(t)
  PROVE  IInv'
  <1>1. /\ pc[t] \in Positions /\ pc[t].at = "ask" /\ lease \in Ticks \cup {None}
        /\ Escalating(t) /\ pc[t].n \in Attempts /\ pc[t].src \in Sources
    BY DEF IInv, Ticking, TickTypes, Ask, At, Escalating
  <1>2. UNCHANGED <<terminal, noticeVars, route, feedback, archives, signed>>
    BY DEF Ask
  <1> DEFINE key == <<pc[t].n, pc[t].src>>
  <1>3. \E word \in {"unresolvable", "repair", "budget"} :
          /\ Goto(t, [pc[t] EXCEPT !.at = "record", !.word = word])
          /\ \/ answer' = answer
             \/ word # "budget" /\ answer' = [answer EXCEPT ![key] = word]
    <2>1. answer[key] \in {"none", "repair", "unresolvable"}
      BY <1>1 DEF IInv, Evidence
    <2>2. CASE answer[key] # "none"
      BY <2>1, <2>2 DEF Ask
    <2>3. CASE answer[key] = "none" /\ calls > 0
      BY <2>3 DEF Ask
    <2>4. CASE answer[key] = "none" /\ calls = 0
      BY <2>4 DEF Ask
    <2>5. QED
      BY <2>2, <2>3, <2>4 DEF Ask
  <1>4. PICK word \in {"unresolvable", "repair", "budget"} :
          /\ Goto(t, [pc[t] EXCEPT !.at = "record", !.word = word])
          /\ \/ answer' = answer
             \/ word # "budget" /\ answer' = [answer EXCEPT ![key] = word]
    BY <1>3
  <1> DEFINE p == [pc[t] EXCEPT !.at = "record", !.word = word]
  <1>5. p \in Positions /\ p.at = "record" /\ p.n \in Attempts /\ p.src \in Sources
    BY <1>1 DEF Positions
  <1>6. pc' = [pc EXCEPT ![t] = p] /\ lease' = lease
    BY <1>4 DEF Goto
  <1> HIDE DEF p
  <1>7. Evidence'
    BY <1>1, <1>2, <1>4 DEF IInv, Evidence
  <1>8. QED
    BY <1>1, <1>2, <1>5, <1>6, <1>7, TickMoves

LEMMA RecordRepairStep ==
  ASSUME IInv, NEW t \in Ticks, RecordRepair(t)
  PROVE  IInv'
  BY Ends DEF RecordRepair, At, Elsewhere, IInv, Evidence

LEMMA RecordTerminalStep ==
  ASSUME IInv, NEW t \in Ticks, RecordTerminal(t)
  PROVE  IInv'
  <1>1. /\ End(t) /\ pc[t].at = "record" /\ pc[t] \in Positions /\ Escalating(t)
        /\ UNCHANGED <<route, feedback, archives, signed, answer, sent, retried, revived>>
    BY DEF RecordTerminal, At, IInv, Ticking, TickTypes, Escalating
  <1>2. Evidence'
    BY <1>1 DEF IInv, Evidence
  <1>3. CASE ~Blockable
    BY <1>1, <1>2, <1>3, Ends DEF RecordTerminal
  <1>4. CASE Blockable
    <2> DEFINE g == terminal.gen + 1
    <2>1. /\ terminal' = [n |-> pc[t].n, src |-> pc[t].src, why |-> pc[t].word, gen |-> g, open |-> TRUE]
          /\ notice' = [notice EXCEPT ![g] = [status |-> "pending", owner |-> None]]
          /\ ~terminal.open
      BY <1>4 DEF RecordTerminal, Blockable
    <2>2. /\ pc' = [pc EXCEPT ![t] = Idle] /\ Idle.at = "idle" /\ pc'[t] = Idle
          /\ \A u \in Ticks \ {t} : pc'[u] = pc[u]
      BY <1>1 DEF End, Idle, IInv, Ticking, TickTypes
    <2>3. terminal.gen \in Nat /\ g \in Nat /\ terminal'.gen = g /\ terminal'.open
      BY <2>1 DEF IInv, Failures
    <2>4. Ticking'
      BY <1>1, <2>2, IdleIs DEF IInv, Ticking, TickTypes, End, Escalating
    <2>5. Failures'
      BY <1>1, <2>1, <2>3 DEF Failures, Positions
    <2>6. Bounded'
      BY <1>1, <2>1, <2>2, <2>3, BoundsAssumption DEF IInv, Bounded
    <2> HIDE DEF g
    <2>7. /\ \A h \in Gens \ {g} : notice'[h] = notice[h]
          /\ g \in Gens => notice[g].status = "none" /\ notice'[g].status = "pending"
      <3>1. g \in Gens => notice[g].status = "none"
        BY <2>3 DEF g, IInv, Announced
      <3>2. QED
        BY <2>1, <3>1 DEF IInv, NoticeTypes
    <2>8. NoticeTypes'
      BY <1>1, <2>1 DEF IInv, NoticeTypes, Notices
    <2>9. \A h \in Gens :
            /\ sent[h] + Sending(h) <= retried[h] + 1 => sent'[h] + Sending(h)' <= retried'[h] + 1
            /\ Unsent(h) => Unsent(h)'
      BY <1>1, <2>2, AccountsStay DEF IInv
    <2>10. Accounted'
      BY <2>7, <2>9 DEF IInv, Accounted
    <2>11. Delivering'
      BY <1>1, <2>2, <2>7, <2>9 DEF IInv, Delivering
    <2>12. Announced'
      <3>1. \A h \in Gens : h \in Int
        BY DEF Gens
      <3>2. \A h \in Gens \ {g} : h > g <=> h > terminal.gen
        BY <2>3, <3>1 DEF g
      <3>3. QED
        BY <2>3, <2>7, <3>1, <3>2 DEF IInv, Announced
    <2>13. QuietWhenResolved'
      <3>1. ASSUME NEW h \in Gens \ revived, h < g
            PROVE  notice'[h].status \in Settled
        <4>1. h # g /\ (h < terminal.gen \/ h = terminal.gen)
          BY <2>3, <3>1 DEF g, Gens
        <4>2. QED
          BY <2>1, <2>7, <3>1, <4>1 DEF IInv, QuietWhenResolved
      <3>2. QED
        BY <1>1, <2>3, <3>1 DEF QuietWhenResolved
    <2>14. QED
      BY <1>2, <2>4, <2>5, <2>6, <2>8, <2>10, <2>11, <2>12, <2>13 DEF IInv
  <1>5. QED
    BY <1>3, <1>4

\* The tick dies: its deliveries have no owner any more.
LEMMA DieStep ==
  ASSUME IInv, NEW t \in Ticks, Die(t)
  PROVE  IInv'
  <1>1. /\ pc' = [pc EXCEPT ![t] = Idle] /\ Idle.at = "idle" /\ pc'[t] = Idle
        /\ \A u \in Ticks \ {t} : pc'[u] = pc[u]
        /\ lease' \in Ticks \cup {None}
        /\ UNCHANGED <<terminal, sent, retried, revived, route, feedback, archives, signed, answer>>
    BY DEF Die, End, Idle, IInv, Ticking, TickTypes
  <1>2. /\ notice' \in [Gens -> [status : Notices, owner : Ticks \cup {None}]]
        /\ \A g \in Gens : /\ notice'[g].status = notice[g].status
                           /\ notice'[g].owner = notice[g].owner \/ notice'[g].owner = None
                           /\ notice'[g].owner # t
    BY TicksAssumption DEF Die, IInv, NoticeTypes
  <1>3. Ticking' /\ Bounded'
    BY <1>1, IdleIs DEF IInv, Ticking, TickTypes, Bounded, Escalating
  <1>4. \A g \in Gens :
          /\ sent[g] + Sending(g) <= retried[g] + 1 => sent'[g] + Sending(g)' <= retried'[g] + 1
          /\ Unsent(g) => Unsent(g)'
    BY <1>1, AccountsStay DEF IInv
  <1>5. Accounted'
    BY <1>2, <1>4 DEF IInv, Accounted
  <1>6. Delivering'
    BY <1>1, <1>2, <1>4, TicksAssumption DEF IInv, Delivering
  <1>7. Failures' /\ NoticeTypes' /\ Announced' /\ QuietWhenResolved' /\ Evidence'
    BY <1>1, <1>2 DEF IInv, Failures, NoticeTypes, Announced, QuietWhenResolved, Evidence
  <1>8. QED
    BY <1>3, <1>5, <1>6, <1>7 DEF IInv

LEMMA StallStep ==
  ASSUME IInv, NEW t \in Ticks, Stall(t)
  PROVE  IInv'
  <1>1. \A g : Sending(g)' = Sending(g)
    BY DEF Stall, Sending, Senders
  <1>2. \A g \in Gens : Unsent(g)' <=> Unsent(g)
    BY <1>1 DEF Stall, Unsent
  <1>3. Accounted' /\ Delivering'
    BY <1>1, <1>2 DEF Stall, IInv, Accounted, Delivering
  <1>4. QED
    BY <1>3 DEF Stall, IInv, Ticking, TickTypes, Failures, Bounded, Escalating, NoticeTypes,
                Announced, QuietWhenResolved, Evidence

----------------------------------------------------------------------------
(* Delivery.                                                               *)

LEMMA RecoveredIs ==
  ASSUME NoticeTypes, NEW g \in Gens
  PROVE  /\ Recovered(g) \in [status : Notices, owner : Ticks \cup {None}]
         /\ \/ Recovered(g) = notice[g]
            \/ notice[g].status = "delivering" /\ Recovered(g).status = "delivery_unknown"
  BY DEF NoticeTypes, Recovered, Lapsed, Notices

LEMMA ClaimNoticeStep ==
  ASSUME IInv, NEW t \in Ticks, ClaimNotice(t)
  PROVE  IInv'
  <1> DEFINE now == [g \in Gens |-> Recovered(g)]
  <1>1. /\ pc[t].at = "notify" /\ pc[t] \in Positions /\ lease' = lease
        /\ lease \in Ticks \cup {None}
        /\ UNCHANGED <<terminal, sent, retried, revived, route, feedback, archives, signed, answer>>
    BY DEF ClaimNotice, At, Goto, IInv, Ticking, TickTypes
  <1>2. /\ now \in [Gens -> [status : Notices, owner : Ticks \cup {None}]]
        /\ \A g \in Gens : \/ now[g] = notice[g]
                           \/ notice[g].status = "delivering" /\ now[g].status = "delivery_unknown"
    BY RecoveredIs DEF IInv
  <1>3. \/ notice' = now /\ pc' = [pc EXCEPT ![t] = [Idle EXCEPT !.at = "stages"]]
        \/ \E g \in Gens :
             /\ now[g].status \in {"pending", "retryable"}
             /\ notice' = [now EXCEPT ![g] = [status |-> "delivering", owner |-> t]]
             /\ pc' = [pc EXCEPT ![t] = [Idle EXCEPT !.at = "send", !.n = g]]
    BY DEF ClaimNotice, Goto
  <1> HIDE DEF now
  <1>4. Evidence' /\ Failures'
    BY <1>1 DEF IInv, Evidence, Failures
  <1>5. CASE notice' = now /\ pc' = [pc EXCEPT ![t] = [Idle EXCEPT !.at = "stages"]]
    <2> DEFINE p == [Idle EXCEPT !.at = "stages"]
    <2>1. p \in Positions /\ p.at = "stages"
      BY IdleIs DEF Positions, Idle
    <2>2. pc' = [pc EXCEPT ![t] = p]
      BY <1>5
    <2> HIDE DEF p
    <2>3. pc'[t] = p /\ \A u \in Ticks \ {t} : pc'[u] = pc[u]
      BY <2>2 DEF IInv, Ticking, TickTypes
    <2>4. Ticking' /\ Bounded'
      BY <1>1, <2>1, <2>2, <2>3 DEF IInv, Ticking, TickTypes, Bounded, Escalating
    <2>5. \A g \in Gens :
            /\ sent[g] + Sending(g) <= retried[g] + 1 => sent'[g] + Sending(g)' <= retried'[g] + 1
            /\ Unsent(g) => Unsent(g)'
      BY <1>1, <2>1, <2>3, AccountsStay DEF IInv
    <2>6. Accounted'
      BY <1>2, <1>5, <2>5 DEF IInv, Accounted
    <2>7. Delivering'
      BY <1>1, <1>2, <1>5, <2>3, <2>5 DEF IInv, Delivering
    <2>8. NoticeTypes' /\ Announced' /\ QuietWhenResolved'
      BY <1>1, <1>2, <1>5 DEF IInv, NoticeTypes, Announced, QuietWhenResolved, Settled
    <2>9. QED
      BY <1>4, <2>4, <2>6, <2>7, <2>8 DEF IInv
  <1>6. CASE \E g \in Gens :
               /\ now[g].status \in {"pending", "retryable"}
               /\ notice' = [now EXCEPT ![g] = [status |-> "delivering", owner |-> t]]
               /\ pc' = [pc EXCEPT ![t] = [Idle EXCEPT !.at = "send", !.n = g]]
    <2>1. PICK g \in Gens :
               /\ now[g].status \in {"pending", "retryable"}
               /\ notice' = [now EXCEPT ![g] = [status |-> "delivering", owner |-> t]]
               /\ pc' = [pc EXCEPT ![t] = [Idle EXCEPT !.at = "send", !.n = g]]
      BY <1>6
    <2> DEFINE p == [Idle EXCEPT !.at = "send", !.n = g]
    <2>2. p \in Positions /\ p.at = "send" /\ p.n = g
      <3>1. g \in 0..(MaxAttempts + MaxGens)
        BY BoundsAssumption DEF Gens
      <3>2. QED
        BY <3>1 DEF Positions, Idle
    <2>3. pc' = [pc EXCEPT ![t] = p]
      BY <2>1
    <2> HIDE DEF p
    <2>4. pc'[t] = p /\ \A u \in Ticks \ {t} : pc'[u] = pc[u]
      BY <2>3 DEF IInv, Ticking, TickTypes
    <2>5. Ticking' /\ Bounded'
      BY <1>1, <2>2, <2>3, <2>4 DEF IInv, Ticking, TickTypes, Bounded, Escalating
    <2>6. /\ notice[g].status \in {"pending", "retryable"}
          /\ notice'[g].status = "delivering" /\ notice'[g].owner = t
          /\ \A h \in Gens \ {g} : notice'[h] = now[h]
      BY <1>2, <2>1
    <2>7. \A h \in Gens \ {g} :
            /\ sent[h] + Sending(h) <= retried[h] + 1 => sent'[h] + Sending(h)' <= retried'[h] + 1
            /\ Unsent(h) => Unsent(h)'
      BY <1>1, <2>2, <2>4, AccountsStay DEF IInv
    <2>8. sent'[g] + Sending(g)' <= retried'[g] + 1
      <3>1. Sending(g)' = Sending(g) + 1 /\ Sending(g) \in Nat
        BY <1>1, <2>2, <2>4, SenderComes
      <3>2. Unsent(g) /\ sent[g] \in Nat /\ retried[g] \in Nat
        BY <2>6 DEF IInv, Accounted, NoticeTypes
      <3>3. QED
        BY <1>1, <3>1, <3>2 DEF Unsent
    <2>9. Accounted'
      BY <1>2, <2>6, <2>7, <2>8 DEF IInv, Accounted
    <2>10. Delivering'
      <3>1. ASSUME NEW h \in Gens \ {g}, NEW u \in Ticks, notice'[h].status = "delivering",
                   notice'[h].owner = u
            PROVE  /\ pc'[u].at \in {"send", "mark"} /\ pc'[u].n = h
                   /\ pc'[u].at = "mark" /\ pc'[u].word = "refused" => Unsent(h)'
        <4>1. notice[h].status = "delivering" /\ notice[h].owner = u
          BY <1>2, <2>6, <3>1
        <4>2. u # t
          BY <1>1, <4>1 DEF IInv, Delivering
        <4>3. QED
          BY <2>4, <2>7, <4>1, <4>2 DEF IInv, Delivering
      <3>2. QED
        BY <2>2, <2>4, <2>6, <3>1 DEF Delivering
    <2>11. NoticeTypes'
      BY <1>1, <1>2, <2>1 DEF IInv, NoticeTypes, Notices
    <2>12. Announced' /\ QuietWhenResolved'
      BY <1>1, <1>2, <2>6 DEF IInv, Announced, QuietWhenResolved, Settled
    <2>13. QED
      BY <1>4, <2>5, <2>9, <2>10, <2>11, <2>12 DEF IInv
  <1>7. QED
    BY <1>3, <1>5, <1>6

LEMMA SendStep ==
  ASSUME IInv, NEW t \in Ticks, Send(t)
  PROVE  IInv'
  <1>0. PICK g \in Gens : g = pc[t].n
    BY DEF Send, At, IInv, Ticking
  <1>1. /\ pc[t].at = "send" /\ pc[t].n = g /\ pc[t] \in Positions /\ lease' = lease
        /\ lease \in Ticks \cup {None}
        /\ UNCHANGED <<terminal, notice, retried, revived, route, feedback, archives, signed, answer>>
    BY <1>0 DEF Send, At, Goto, IInv, Ticking, TickTypes
  <1>2. PICK word \in {"ok", "refused", "rejected", "timeout"}, taken \in {0, 1} :
          /\ word = "refused" => taken = 0
          /\ sent' = [sent EXCEPT ![g] = @ + taken]
          /\ pc' = [pc EXCEPT ![t] = [pc[t] EXCEPT !.at = "mark", !.word = word]]
    BY <1>0, BoundsAssumption DEF Send, Goto
  <1> DEFINE p == [pc[t] EXCEPT !.at = "mark", !.word = word]
  <1>3. p \in Positions /\ p.at = "mark" /\ p.n = g /\ p.word = word
    BY <1>1 DEF Positions
  <1>4. pc' = [pc EXCEPT ![t] = p]
    BY <1>2
  <1> HIDE DEF p
  <1>5. pc'[t] = p /\ \A u \in Ticks \ {t} : pc'[u] = pc[u]
    BY <1>4 DEF IInv, Ticking, TickTypes
  <1>6. Ticking' /\ Bounded'
    BY <1>1, <1>3, <1>4, <1>5 DEF IInv, Ticking, TickTypes, Bounded, Escalating
  <1>7. Evidence' /\ Failures'
    BY <1>1 DEF IInv, Evidence, Failures
  <1>8. /\ \A h \in Gens : sent[h] \in Nat /\ retried[h] \in Nat
        /\ sent'[g] = sent[g] + taken /\ \A h \in Gens \ {g} : sent'[h] = sent[h]
    BY <1>1, <1>2 DEF IInv, NoticeTypes
  <1>9. NoticeTypes'
    BY <1>1, <1>2, <1>8 DEF IInv, NoticeTypes
  <1>10. Sending(g)' = Sending(g) - 1 /\ Sending(g) \in Nat
    BY <1>1, <1>3, <1>5, SenderLeaves
  <1>11. \A h \in Gens \ {g} : Sending(h)' <= Sending(h) /\ Sending(h)' \in Nat /\ Sending(h) \in Nat
    BY <1>3, <1>5, FewerSenders
  <1>12. \A h \in Gens :
           /\ sent[h] + Sending(h) <= retried[h] + 1 => sent'[h] + Sending(h)' <= retried'[h] + 1
           /\ Unsent(h) => Unsent(h)'
    <2>1. ASSUME NEW h \in Gens
          PROVE  /\ sent'[h] + Sending(h)' <= sent[h] + Sending(h)
                 /\ Sending(h)' \in Int /\ Sending(h) \in Int /\ sent'[h] \in Int
      <3>1. CASE h = g
        <4>1. /\ Sending(h)' = Sending(h) - 1 /\ Sending(h) \in Nat
              /\ sent'[h] = sent[h] + taken /\ sent[h] \in Nat
          BY <1>8, <1>10, <3>1
        <4>2. QED
          BY <4>1
      <3>2. CASE h # g
        <4>1. /\ Sending(h)' <= Sending(h) /\ Sending(h)' \in Nat /\ Sending(h) \in Nat
              /\ sent'[h] = sent[h] /\ sent[h] \in Nat
          BY <1>8, <1>11, <3>2
        <4>2. QED
          BY <4>1
      <3>3. QED
        BY <3>1, <3>2
    <2>2. QED
      BY <1>1, <1>8, <2>1 DEF Unsent
  <1>13. Accounted'
    BY <1>1, <1>12 DEF IInv, Accounted
  <1>14. Delivering'
    <2>1. ASSUME NEW h \in Gens, NEW u \in Ticks \ {t}, notice[h].status = "delivering",
                 notice[h].owner = u
          PROVE  /\ pc'[u].at \in {"send", "mark"} /\ pc'[u].n = h
                 /\ pc'[u].at = "mark" /\ pc'[u].word = "refused" => Unsent(h)'
      BY <1>5, <1>12, <2>1 DEF IInv, Delivering
    <2>2. ASSUME NEW h \in Gens, notice[h].status = "delivering", notice[h].owner = t
          PROVE  /\ pc'[t].at = "mark" /\ pc'[t].n = h
                 /\ pc'[t].word = "refused" => Unsent(h)'
      <3>1. h = g
        BY <1>1, <2>2 DEF IInv, Delivering
      <3>2. word = "refused" => Unsent(g)'
        BY <1>1, <1>2, <1>8, <1>10 DEF IInv, Accounted, Unsent
      <3>3. QED
        BY <1>3, <1>5, <3>1, <3>2
    <2>3. QED
      BY <1>1, <2>1, <2>2 DEF Delivering
  <1>15. Announced' /\ QuietWhenResolved'
    BY <1>1 DEF IInv, Announced, QuietWhenResolved
  <1>16. QED
    BY <1>6, <1>7, <1>9, <1>13, <1>14, <1>15 DEF IInv

LEMMA MarkStep ==
  ASSUME IInv, NEW t \in Ticks, Mark(t)
  PROVE  IInv'
  <1>0. PICK g \in Gens : g = pc[t].n
    BY DEF Mark, At, IInv, Ticking
  <1>1. /\ pc[t].at = "mark" /\ pc[t].n = g
        /\ pc' = [pc EXCEPT ![t] = Idle] /\ Idle.at = "idle" /\ pc'[t] = Idle
        /\ \A u \in Ticks \ {t} : pc'[u] = pc[u]
        /\ lease' \in Ticks \cup {None}
        /\ UNCHANGED <<terminal, sent, retried, revived, route, feedback, archives, signed, answer>>
    BY <1>0 DEF Mark, At, End, Idle, IInv, Ticking, TickTypes
  <1>2. Ticking' /\ Bounded'
    BY <1>1, IdleIs DEF IInv, Ticking, TickTypes, Bounded, Escalating
  <1>3. Evidence' /\ Failures'
    BY <1>1 DEF IInv, Evidence, Failures
  <1>4. \A h \in Gens :
          /\ sent[h] + Sending(h) <= retried[h] + 1 => sent'[h] + Sending(h)' <= retried'[h] + 1
          /\ Unsent(h) => Unsent(h)'
    BY <1>1, AccountsStay DEF IInv
  <1>5. CASE notice[g].status = "delivering" /\ notice[g].owner = t
    <2>1. PICK s \in {"delivered", "retryable", "permanently_failed", "delivery_unknown"} :
            /\ s = "retryable" => pc[t].word = "refused"
            /\ notice' = [notice EXCEPT ![g] = [status |-> s, owner |-> None]]
      BY <1>0, <1>5 DEF Mark
    <2>2. notice'[g].status = s /\ \A h \in Gens \ {g} : notice'[h] = notice[h]
      BY <1>1, <2>1 DEF IInv, NoticeTypes
    <2>3. NoticeTypes'
      BY <1>1, <2>1 DEF IInv, NoticeTypes, Notices
    <2>4. s = "retryable" => Unsent(g)
      BY <1>1, <1>5, <2>1 DEF IInv, Delivering
    <2>5. Accounted'
      BY <1>1, <1>4, <2>2, <2>4 DEF IInv, Accounted
    <2>6. Delivering'
      BY <1>1, <1>4, <2>2 DEF IInv, Delivering
    <2>7. Announced' /\ QuietWhenResolved'
      BY <1>1, <1>5, <2>2 DEF IInv, Announced, QuietWhenResolved, Settled
    <2>8. QED
      BY <1>2, <1>3, <2>3, <2>5, <2>6, <2>7 DEF IInv
  <1>6. CASE ~(notice[g].status = "delivering" /\ notice[g].owner = t)
    <2>1. notice' = notice
      BY <1>0, <1>6 DEF Mark
    <2>2. Accounted'
      BY <1>4, <2>1 DEF IInv, Accounted
    <2>3. Delivering'
      BY <1>1, <1>4, <1>6, <2>1 DEF IInv, Delivering
    <2>4. NoticeTypes' /\ Announced' /\ QuietWhenResolved'
      BY <1>1, <2>1 DEF IInv, NoticeTypes, Announced, QuietWhenResolved
    <2>5. QED
      BY <1>2, <1>3, <2>2, <2>3, <2>4 DEF IInv
  <1>7. QED
    BY <1>5, <1>6


----------------------------------------------------------------------------
(* The operator.                                                           *)

LEMMA ResolveNoticeStep ==
  ASSUME IInv, ResolveNotice
  PROVE  IInv'
  <1>1. /\ pc' = pc /\ lease' = lease
        /\ UNCHANGED <<terminal, sent, route, feedback, archives, signed, answer>>
    BY DEF ResolveNotice
  <1>2. \A g : Sending(g)' = Sending(g) /\ Sending(g) \in Nat
    BY <1>1, SendersAreFinite DEF Sending, Senders
  <1>3. Ticking' /\ Failures' /\ Bounded' /\ Evidence'
    BY <1>1 DEF IInv, Ticking, TickTypes, Failures, Bounded, Escalating, Evidence
  <1>4. CASE \E g \in Gens : /\ notice[g].status = "delivery_unknown"
                             /\ notice' = [notice EXCEPT ![g].status = "delivered"]
                             /\ UNCHANGED <<retried, revived>>
    <2>1. PICK g \in Gens : /\ notice[g].status = "delivery_unknown"
                            /\ notice' = [notice EXCEPT ![g].status = "delivered"]
                            /\ UNCHANGED <<retried, revived>>
      BY <1>4
    <2>2. NoticeTypes'
      BY <1>1, <2>1 DEF IInv, NoticeTypes, Notices
    <2>3. notice'[g].status = "delivered" /\ \A h \in Gens \ {g} : notice'[h] = notice[h]
      BY <2>1 DEF IInv, NoticeTypes
    <2>4. \A h \in Gens : Unsent(h)' <=> Unsent(h)
      BY <1>1, <1>2, <2>1 DEF Unsent
    <2>5. Accounted' /\ Delivering'
      BY <1>1, <1>2, <2>1, <2>3, <2>4 DEF IInv, Accounted, Delivering
    <2>6. Announced' /\ QuietWhenResolved'
      BY <1>1, <2>1, <2>3 DEF IInv, Announced, QuietWhenResolved, Settled
    <2>7. QED
      BY <1>3, <2>2, <2>5, <2>6 DEF IInv
  <1>5. CASE \E g \in Gens :
               /\ notice[g].status \in Retriable
               /\ notice' = [notice EXCEPT ![g].status = "retryable"]
               /\ retried' = [retried EXCEPT ![g] = @ + 1]
               /\ revived' = IF g \notin Current \/ ~terminal.open THEN revived \cup {g} ELSE revived
    <2>1. PICK g \in Gens :
               /\ notice[g].status \in Retriable
               /\ notice' = [notice EXCEPT ![g].status = "retryable"]
               /\ retried' = [retried EXCEPT ![g] = @ + 1]
               /\ revived' = IF g \notin Current \/ ~terminal.open THEN revived \cup {g} ELSE revived
      BY <1>5
    <2>2. NoticeTypes'
      BY <1>1, <2>1 DEF IInv, NoticeTypes, Notices
    <2>3. /\ notice'[g].status = "retryable" /\ \A h \in Gens \ {g} : notice'[h] = notice[h]
          /\ retried'[g] = retried[g] + 1 /\ \A h \in Gens \ {g} : retried'[h] = retried[h]
          /\ \A h \in Gens : retried[h] \in Nat /\ sent[h] \in Nat
      BY <2>1 DEF IInv, NoticeTypes
    <2>4. \A h \in Gens \ {g} : Unsent(h)' <=> Unsent(h)
      BY <1>1, <1>2, <2>3 DEF Unsent
    <2>5. Unsent(g)' /\ sent'[g] + Sending(g)' <= retried'[g] + 1
      <3>1. /\ sent[g] + Sending(g) <= retried[g] + 1 /\ Sending(g)' = Sending(g)
            /\ Sending(g) \in Nat /\ sent' = sent
        BY <1>1, <1>2 DEF IInv, Accounted
      <3>2. QED
        BY <2>3, <3>1 DEF Unsent
    <2>6. Accounted'
      <3>1. \A h \in Gens \ {g} : /\ sent'[h] + Sending(h)' <= retried'[h] + 1
                                  /\ notice'[h].status \in {"none", "pending", "retryable"} => Unsent(h)'
        BY <1>1, <1>2, <2>3, <2>4 DEF IInv, Accounted
      <3>2. QED
        BY <2>5, <3>1 DEF Accounted
    <2>7. Delivering'
      BY <1>1, <2>3, <2>4 DEF IInv, Delivering
    <2>8. Announced'
      BY <1>1, <2>1, <2>3 DEF IInv, Announced, Retriable
    <2>9. QuietWhenResolved'
      <3>1. revived \subseteq revived'
        BY <2>1
      <3>2. CASE g \in revived'
        BY <1>1, <2>3, <3>1, <3>2 DEF IInv, QuietWhenResolved
      <3>3. CASE g \notin revived'
        <4>1. terminal.gen \in Nat /\ g \in Current /\ terminal.open
          BY <2>1, <3>3 DEF IInv, Failures
        <4>2. g = terminal.gen
          BY <4>1 DEF Current
        <4>3. ~(g < terminal.gen)
          BY <4>1, <4>2
        <4>4. QED
          BY <1>1, <2>3, <3>1, <4>1, <4>3 DEF IInv, QuietWhenResolved
      <3>4. QED
        BY <3>2, <3>3
    <2>10. QED
      BY <1>3, <2>2, <2>6, <2>7, <2>8, <2>9 DEF IInv
  <1>6. QED
    BY <1>4, <1>5 DEF ResolveNotice

\* A terminal failure is resolved while no delivery of its notice is under way or in doubt.
LEMMA ResolveStep ==
  ASSUME IInv, Resolve, Quiet, NoticeSafe, terminal.open, UNCHANGED tickVars, Evidence'
  PROVE  IInv'
  <1>1. /\ terminal' = [terminal EXCEPT !.open = FALSE] /\ notice' = [g \in Gens |-> Superseded(g)]
        /\ UNCHANGED <<sent, retried, revived>> /\ pc' = pc /\ lease' = lease
    BY DEF Resolve
  <1>2. terminal.gen \in Nat /\ terminal'.gen = terminal.gen /\ ~terminal'.open
    BY <1>1 DEF IInv, Failures
  <1>3. \A g : Sending(g)' = Sending(g)
    BY <1>1 DEF Sending, Senders
  <1>4. \A g \in Gens :
          /\ Unsent(g)' <=> Unsent(g)
          /\ \/ notice'[g] = notice[g] /\ ~(g \in Current /\ notice[g].status \in {"pending", "retryable"})
             \/ /\ notice[g].status \in {"pending", "retryable"}
                /\ notice'[g].status = "superseded" /\ notice'[g].owner = None
    BY <1>1, <1>3 DEF Unsent, Superseded
  <1>5. Ticking' /\ Failures'
    BY <1>1 DEF IInv, Ticking, TickTypes, Failures, Escalating
  <1>6. Bounded'
    BY <1>1, <1>2 DEF IInv, Bounded, Quiet, Escalating
  <1>7. NoticeTypes'
    BY <1>1 DEF IInv, NoticeTypes, Notices, Superseded
  <1>8. Accounted' /\ Delivering'
    BY <1>1, <1>3, <1>4, TicksAssumption DEF IInv, Accounted, Delivering
  <1>9. Announced'
    BY <1>2, <1>4 DEF IInv, Announced
  <1>10. QuietWhenResolved'
    <2>1. ASSUME NEW g \in Gens \ revived, g < terminal.gen
          PROVE  notice'[g].status \in Settled
      BY <1>4, <2>1 DEF IInv, QuietWhenResolved, Settled
    <2>2. ASSUME NEW g \in Gens \ revived, g = terminal.gen
          PROVE  notice'[g].status \in Settled
      <3>1. g \in Current /\ ~(g > terminal.gen)
        BY <1>2, <2>2 DEF Current, Gens
      <3>2. notice[g].status \in Notices \ {"none", "delivering", "delivery_unknown"}
        BY <3>1 DEF IInv, NoticeTypes, Announced, NoticeSafe, Unsafe
      <3>3. QED
        BY <1>4, <3>1, <3>2 DEF Notices, Settled
    <2>3. QED
      BY <1>1, <1>2, <2>1, <2>2 DEF QuietWhenResolved
  <1>11. QED
    BY <1>5, <1>6, <1>7, <1>8, <1>9, <1>10 DEF IInv

LEMMA ResolvingStep ==
  ASSUME IInv, AddLocalBudget \/ Reopen \/ AdoptTerminal
  PROVE  IInv'
  <1>1. /\ Resolve /\ Quiet /\ NoticeSafe /\ terminal.open /\ UNCHANGED tickVars
        /\ UNCHANGED <<route, feedback, archives, signed, answer>>
    BY DEF AddLocalBudget, Reopen, AdoptTerminal, AdoptAs, Resolvable
  <1>2. Evidence'
    BY <1>1 DEF IInv, Evidence
  <1>3. QED
    BY <1>1, <1>2, ResolveStep

LEMMA RecoverStep ==
  ASSUME IInv, Recover
  PROVE  IInv'
  <1>1. /\ Resolve /\ Quiet /\ NoticeSafe /\ terminal.open /\ UNCHANGED tickVars /\ answer' = answer
        /\ signed' = [signed EXCEPT ![terminal.gen] = issued]
        /\ archives' = [archives EXCEPT ![terminal.gen] = ArchivedAs(issued)]
        /\ route' = [route EXCEPT ![issued.n] = "none"]
        /\ feedback' = [feedback EXCEPT ![issued.n] = "none"]
    BY DEF Recover, Recoverable, FeedbackAfter
  <1>2. Evidence'
    BY <1>1 DEF IInv, Evidence
  <1>3. QED
    BY <1>1, <1>2, ResolveStep

LEMMA OperatorStep ==
  ASSUME IInv, Operator
  PROVE  IInv'
  <1>1. CASE Switch \/ ApproveCall \/ AuthorizeLocal \/ Drift \/ Revoke
    BY <1>1, Unmoved DEF Switch, ApproveCall, AuthorizeLocal, Drift, Revoke
  <1>2. CASE Issue
    BY <1>2, Unmoved DEF Issue
  <1>3. CASE Adopt
    BY <1>3, Unmoved DEF Adopt, AdoptAs
  <1>4. CASE ReconcileMarker
    BY <1>4, Unmoved DEF ReconcileMarker
  <1>5. QED
    BY <1>1, <1>2, <1>3, <1>4, ResolveNoticeStep, ResolvingStep, RecoverStep DEF Operator

----------------------------------------------------------------------------
(* The invariant.                                                          *)

LEMMA Initially == Init => IInv
  <1> SUFFICES ASSUME Init PROVE IInv
    OBVIOUS
  <1>1. /\ lease = None /\ pc = [t \in Ticks |-> Idle] /\ Idle.at = "idle"
        /\ terminal = [n |-> 0, src |-> "none", why |-> "none", gen |-> 0, open |-> FALSE]
        /\ notice = [g \in Gens |-> [status |-> "none", owner |-> None]]
        /\ sent = [g \in Gens |-> 0] /\ retried = [g \in Gens |-> 0] /\ revived = {}
    BY DEF Init, Idle
  <1>2. Ticking
    BY <1>1, IdleIs DEF Ticking, TickTypes, Escalating
  <1>3. Failures /\ Bounded
    BY <1>1, BoundsAssumption DEF Failures, Bounded, Escalating
  <1>4. NoticeTypes
    BY <1>1 DEF NoticeTypes, Notices
  <1>5. \A g : Senders(g) = {}
    BY <1>1 DEF Senders
  <1>6. \A g : Sending(g) = 0
    BY <1>5, FS_EmptySet DEF Sending
  <1>7. Accounted /\ Delivering
    BY <1>1, <1>6 DEF Accounted, Delivering, Unsent
  <1>8. Announced /\ QuietWhenResolved
    BY <1>1 DEF Announced, QuietWhenResolved, Gens
  <1>9. Evidence
    BY DEF Init, Evidence
  <1>10. QED
    BY <1>2, <1>3, <1>4, <1>7, <1>8, <1>9 DEF IInv

LEMMA EveryStep ==
  ASSUME IInv, [Next]_vars
  PROVE  IInv'
  <1>1. CASE \E t \in Ticks : Start(t) \/ Die(t) \/ Stall(t)
    BY <1>1, StartStep, DieStep, StallStep
  <1>2. CASE \E t \in Ticks : Step(t)
    BY <1>2, ClaimNoticeStep, SendStep, MarkStep, StageStep, EscalateStep, AskStep,
       RecordRepairStep, RecordTerminalStep DEF Step
  <1>3. CASE Operator
    BY <1>3, OperatorStep
  <1>4. CASE UNCHANGED vars
    BY <1>4, Unmoved DEF vars
  <1>5. QED
    BY <1>1, <1>2, <1>3, <1>4 DEF Next

LEMMA Invariance == Spec => []IInv
  <1>1. IInv /\ [Next]_vars => IInv'
    BY EveryStep
  <1>2. QED
    BY <1>1, Initially, PTL DEF Spec

\* The gateway takes a notice once, and once more for every retry the operator asks for:
\* for any number of ticks that die or stall around hermes send, and any answers of it.
THEOREM NoticesSentOnce == Spec => []SentOnce
  <1>1. IInv => SentOnce
    <2> SUFFICES ASSUME IInv, NEW g \in Gens PROVE sent[g] <= 1 + retried[g]
      BY DEF SentOnce
    <2>1. /\ sent[g] + Sending(g) <= retried[g] + 1
          /\ sent[g] \in Nat /\ retried[g] \in Nat
      BY DEF IInv, Accounted, NoticeTypes
    <2>2. Sending(g) \in Nat
      BY SendersAreFinite
    <2>3. QED
      BY <2>1, <2>2
  <1>2. QED
    BY <1>1, Invariance, PTL

\* Nothing announces a failure that is over, however its resolution races the tick that
\* claims, sends and marks the notice, and however many failures there were.
THEOREM ResolvedFailuresQuiet == Spec => []QuietWhenResolved
  <1>1. IInv => QuietWhenResolved
    BY DEF IInv
  <1>2. QED
    BY <1>1, Invariance, PTL

\* Evidence of a failure disappears only into the archives that the signed document of that
\* failure lists, for an operator who waits for escalations under way: else a failure more
\* may be recorded than the model bounds, and its archives are not in the model.
THEOREM EvidenceArchived ==
  ASSUME Orderly
  PROVE  Spec => ArchivedOnly
  <1> DEFINE Kept ==
        \A n \in Attempts :
          \/ route[n] \in Sources /\ route'[n] # route[n]
          \/ feedback[n] # "none" /\ feedback'[n] # feedback[n]
          => LET g == terminal.gen
             IN /\ signed'[g].n = n /\ archives'[g] = signed'[g].kinds
                /\ route[n] # route'[n] => "routing" \in archives'[g]
                /\ feedback[n] # feedback'[n] => "feedback" \in archives'[g]
  <1>1. ASSUME IInv, [Next]_vars
        PROVE  Kept
    <2>1. CASE UNCHANGED <<route, feedback>>
      BY <2>1
    <2>2. ASSUME NEW t \in Ticks, WriteFeedback(t)
          PROVE  Kept
      <3>1. PICK n \in Attempts : feedback[n] = "none" /\ feedback' = [feedback EXCEPT ![n] = Decision(n)]
        BY <2>2 DEF WriteFeedback
      <3>2. route' = route /\ \A m \in Attempts \ {n} : feedback'[m] = feedback[m]
        BY <1>1, <2>2, <3>1 DEF WriteFeedback, IInv, Evidence
      <3>3. QED
        BY <3>1, <3>2
    <2>3. ASSUME NEW t \in Ticks, Route(t)
          PROVE  Kept
      <3>1. PICK n \in Attempts : route[n] = "none" /\ route' = [route EXCEPT ![n] = Decision(n)]
        BY <2>3 DEF Route, Routable
      <3>2. feedback' = feedback /\ \A m \in Attempts \ {n} : route'[m] = route[m]
        BY <1>1, <2>3, <3>1 DEF Route, IInv, Evidence
      <3>3. QED
        BY <3>1, <3>2 DEF Sources
    <2>4. ASSUME NEW t \in Ticks, Escalate(t)
          PROVE  Kept
      <3>1. PICK n \in Attempts : /\ feedback[n] \in {"none", route[n]}
                                  /\ feedback' = [feedback EXCEPT ![n] = route[n]]
        BY <2>4 DEF Escalate
      <3>2. /\ route' = route /\ \A m \in Attempts \ {n} : feedback'[m] = feedback[m]
            /\ feedback'[n] = route[n]
        BY <1>1, <2>4, <3>1 DEF Escalate, IInv, Evidence
      <3>3. QED
        BY <3>1, <3>2
    <2>5. CASE Recover
      <3> DEFINE d == issued
                 g == terminal.gen
      <3>1. /\ Projected(d.n) /\ d = Projection(d.n)
            /\ signed' = [signed EXCEPT ![g] = d] /\ archives' = [archives EXCEPT ![g] = d.kinds]
            /\ route' = [route EXCEPT ![d.n] = "none"] /\ feedback' = [feedback EXCEPT ![d.n] = "none"]
        BY <2>5 DEF Recover, Recoverable, ArchivedAs, FeedbackAfter
      <3>2. g \in Gens
        BY <1>1, <3>1 DEF Projected, IInv, Bounded, Failures, Gens
      <3>3. signed'[g] = d /\ archives'[g] = d.kinds
        BY <1>1, <3>1, <3>2 DEF IInv, Evidence
      <3>4. /\ route[d.n] # "none" => "routing" \in d.kinds
            /\ feedback[d.n] # "none" => {"routing", "feedback"} \subseteq d.kinds
        BY <3>1 DEF Projected, Projection, Kinds
      <3>5. \A n \in Attempts : n # d.n => route'[n] = route[n] /\ feedback'[n] = feedback[n]
        BY <1>1, <3>1 DEF IInv, Evidence
      <3>6. ASSUME NEW n \in Attempts, n = d.n,
                   \/ route[n] \in Sources /\ route'[n] # route[n]
                   \/ feedback[n] # "none" /\ feedback'[n] # feedback[n]
            PROVE  /\ signed'[g].n = n /\ archives'[g] = signed'[g].kinds
                   /\ route[n] # route'[n] => "routing" \in archives'[g]
                   /\ feedback[n] # feedback'[n] => "feedback" \in archives'[g]
        <4>1. route'[n] = "none" /\ feedback'[n] = "none"
          BY <1>1, <3>1, <3>6 DEF IInv, Evidence
        <4>2. QED
          BY <3>3, <3>4, <3>6, <4>1
      <3>7. QED
        BY <3>5, <3>6
    <2>6. ASSUME NEW t \in Ticks, Start(t) \/ Die(t) \/ Stall(t) \/ ClaimNotice(t) \/ Send(t) \/ Mark(t)
          PROVE  Kept
      BY <2>1, <2>6 DEF Start, Die, Stall, ClaimNotice, Send, Mark
    <2>7. ASSUME NEW t \in Ticks, \/ Reconcile(t) \/ Validate(t) \/ Review(t) \/ Rest(t) \/ Ask(t)
                                  \/ RecordRepair(t) \/ RecordTerminal(t)
          PROVE  Kept
      BY <2>1, <2>7 DEF Reconcile, Validate, Review, Rest, Ask, RecordRepair, RecordTerminal
    <2>8. CASE Operator /\ ~Recover
      BY <2>1, <2>8 DEF Operator, Switch, ApproveCall, ResolveNotice, AddLocalBudget, Reopen,
           AuthorizeLocal, Adopt, AdoptTerminal, AdoptAs, Issue, Drift, Revoke, ReconcileMarker
    <2>9. CASE UNCHANGED vars
      BY <2>1, <2>9 DEF vars
    <2>10. QED
      BY <1>1, <2>2, <2>3, <2>4, <2>5, <2>6, <2>7, <2>8, <2>9 DEF Next, Step
  <1>2. IInv /\ [Next]_vars => [Kept]_vars
    BY <1>1
  <1>3. QED
    BY <1>2, Invariance, PTL DEF Spec, ArchivedOnly

----------------------------------------------------------------------------
(* The attempts of the ticket, for an operator who waits for escalations.  *)

PathTypes ==
    /\ paused \in BOOLEAN /\ faults \in 0..MaxFaults /\ TicketTypes /\ CallTypes /\ RecoveryTypes
    /\ terminal.n \in 0..MaxAttempts /\ terminal.why \in {"none", "unresolvable", "budget"}
    /\ terminal.gen > 0 => terminal.n \in Attempts /\ terminal.src \in Sources

Attempted == Latest \in Attempts /\ \A m \in Attempts : work[m] # "none" <=> m <= Latest

\* Each attempt but the latest was followed on one authority; the latest may have one for an
\* attempt to be adopted.
Authorized ==
    \A n \in Attempts :
        /\ n < Latest => \E a \in {"route", "paid", "granted", "slot"} : Authorizations(n) = {a}
        /\ n = Latest => Authorizations(n) = IF state = "ready_local" THEN {"slot"} ELSE {}
        /\ n > Latest => Authorizations(n) = {} /\ verdict[n] = "none"

\* Nothing is made of an attempt before it is validated.
Judging ==
    \A n \in Attempts :
        verdict[n] = "none" => route[n] = "none" /\ feedback[n] = "none" /\ review[n] = "none"

\* What the state says of the latest attempt, the terminal failure and the worktree.
Standing ==
    /\ state = "local_review" =>
          verdict[Latest] = "passed" /\ route[Latest] \notin Sources /\ feedback[Latest] # "validation"
    /\ state = "verifying" => verdict[Latest] = "failed"
    /\ state \in {"needs_triage", "blocked", "ready_local"} => route[Latest] \in Sources
    /\ terminal.open <=> state = "blocked"
    /\ terminal.open => terminal.n = Latest
    /\ drifted => state \in {"blocked", "needs_triage", "ready_local", "repairing"}

\* An escalation is about the ticket in triage, or was overtaken by one on the same request
\* that blocked it, or that had it repaired, and then has the same answer.
Asked(t) ==
    LET n == pc[t].n
        word == answer[<<n, pc[t].src>>]
    IN /\ route[n] = pc[t].src
       /\ \/ state = "needs_triage" /\ n = Latest
          \/ state = "blocked"
          \/ paid[n] # "none" /\ word = "repair"
       /\ At(t, "record") => \/ pc[t].word = "budget" /\ calls = 0 /\ word = "none"
                             \/ pc[t].word = word /\ word \in {"repair", "unresolvable"}
Asking == \A t \in Ticks : Escalating(t) => Asked(t)

Path == PathTypes /\ Attempted /\ Authorized /\ Judging /\ Standing /\ Asking

LEMMA AttemptsAre == \A n \in Attempts : n \in Nat /\ n >= 1 /\ n <= MaxAttempts
  BY BoundsAssumption DEF Attempts

LEMMA LatestIs ==
  ASSUME NEW w, NEW n \in Attempts, \A m \in Attempts : w[m] # "none" <=> m <= n
  PROVE  (CHOOSE k \in Attempts : w[k] # "none" /\ \A m \in Attempts : w[m] # "none" => m <= k) = n
  <1> DEFINE P(k) == w[k] # "none" /\ \A m \in Attempts : w[m] # "none" => m <= k
  <1>1. P(n)
    BY AttemptsAre
  <1>2. \A k \in Attempts : P(k) => k = n
    BY AttemptsAre
  <1>3. (CHOOSE k \in Attempts : P(k)) \in Attempts /\ P(CHOOSE k \in Attempts : P(k))
    BY <1>1
  <1>4. QED
    BY <1>2, <1>3

LEMMA LatestBecomes ==
  ASSUME NEW l \in Attempts, \A m \in Attempts : work'[m] # "none" <=> m <= l
  PROVE  Latest' = l
  BY LatestIs DEF Latest

LEMMA LatestStays ==
  ASSUME Attempted, \A m \in Attempts : work'[m] # "none" <=> work[m] # "none"
  PROVE  Latest' = Latest /\ Attempted'
  <1>1. \A m \in Attempts : work'[m] # "none" <=> m <= Latest
    BY DEF Attempted
  <1>2. Latest' = Latest
    BY <1>1, LatestBecomes DEF Attempted
  <1>3. QED
    BY <1>1, <1>2 DEF Attempted

LEMMA LatestMoves ==
  ASSUME Attempted, Latest < MaxAttempts, TicketTypes, NEW v \in {"open", "filled"},
         work' = [work EXCEPT ![Latest + 1] = v]
  PROVE  Latest' = Latest + 1 /\ Attempted'
  <1>1. Latest \in Attempts /\ Latest + 1 \in Attempts
    BY AttemptsAre, BoundsAssumption DEF Attempted, Attempts
  <1>2. ASSUME NEW m \in Attempts PROVE work'[m] # "none" <=> m <= Latest + 1
    <2>1. m \in Nat /\ Latest \in Nat /\ (work[m] # "none" <=> m <= Latest)
      BY <1>1, AttemptsAre DEF Attempted
    <2>2. CASE m = Latest + 1
      BY <1>1, <2>1, <2>2 DEF TicketTypes
    <2>3. CASE m # Latest + 1
      <3>1. work'[m] = work[m]
        BY <2>3 DEF TicketTypes
      <3>2. QED
        BY <2>1, <2>3, <3>1
    <2>4. QED
      BY <2>2, <2>3
  <1>3. Latest' = Latest + 1
    <2>1. PICK l \in Attempts : l = Latest + 1
      BY <1>1
    <2>2. \A m \in Attempts : work'[m] # "none" <=> m <= l
      BY <1>2, <2>1
    <2>3. Latest' = l
      BY <2>2, LatestBecomes
    <2>4. QED
      BY <2>1, <2>3
  <1>4. QED
    BY <1>1, <1>2, <1>3 DEF Attempted

LEMMA AuthorizedStays ==
  ASSUME Authorized, Latest' = Latest, state' = "ready_local" <=> state = "ready_local",
         UNCHANGED <<paid, granted, slot>>,
         \A n \in Attempts : /\ route'[n] = "repair" <=> route[n] = "repair"
                             /\ n > Latest => verdict'[n] = verdict[n]
  PROVE  Authorized'
  <1>1. \A n \in Attempts : Authorizations(n)' = Authorizations(n)
    BY DEF Authorizations
  <1>2. QED
    BY <1>1 DEF Authorized

LEMMA AuthorizedMoves ==
  ASSUME Authorized, Attempted, Latest' = Latest + 1, state' # "ready_local", UNCHANGED verdict,
         NEW a \in {"route", "paid", "granted", "slot"},
         NEW l \in Attempts, l = Latest, Authorizations(l)' = {a},
         \A n \in Attempts : n # Latest => Authorizations(n)' = Authorizations(n)
  PROVE  Authorized'
  <1> SUFFICES ASSUME NEW n \in Attempts
               PROVE  /\ n < Latest' => \E b \in {"route", "paid", "granted", "slot"} : Authorizations(n)' = {b}
                      /\ n = Latest' => Authorizations(n)' = {}
                      /\ n > Latest' => Authorizations(n)' = {} /\ verdict[n] = "none"
    BY DEF Authorized
  <1>1. n \in Nat /\ Latest \in Nat
    BY AttemptsAre DEF Attempted
  <1>2. CASE n = Latest
    BY <1>1, <1>2
  <1>3. CASE n # Latest
    BY <1>1, <1>3 DEF Authorized
  <1>4. QED
    BY <1>2, <1>3

\* What goes on elsewhere.
LEMMA PathStays ==
  ASSUME Path, UNCHANGED <<ticketVars, callVars, terminal, recoveryVars>>,
         paused' \in BOOLEAN, faults' \in 0..MaxFaults,
         \A u \in Ticks : Escalating(u)' => pc'[u] = pc[u]
  PROVE  Path'
  <1>1. Latest' = Latest /\ Attempted'
    BY LatestStays DEF Path
  <1>2. PathTypes'
    BY DEF Path, PathTypes, TicketTypes, CallTypes, RecoveryTypes
  <1>3. Authorized'
    BY <1>1, AuthorizedStays DEF Path
  <1>4. Judging' /\ Standing'
    BY <1>1 DEF Path, Judging, Standing
  <1>5. ASSUME NEW u \in Ticks, Escalating(u)' PROVE Asked(u)'
    <2>1. pc'[u] = pc[u] /\ Escalating(u)
      BY <1>5 DEF Escalating
    <2>2. Asked(u)
      BY <2>1 DEF Path, Asking
    <2>3. QED
      BY <1>1, <2>1, <2>2 DEF Asked, At
  <1>6. QED
    BY <1>1, <1>2, <1>3, <1>4, <1>5 DEF Path, Asking

\* An escalation holds through what others do: the answers there are stay, and the last call
\* of the budget is gone when one is answered for lack of it.
LEMMA AskedStays ==
  ASSUME IInv, Path, NEW u \in Ticks, Escalating(u)', pc'[u] = pc[u],
         calls = 0 => UNCHANGED callVars,
         \A k \in Attempts \X Sources : answer[k] # "none" => answer'[k] = answer[k],
         \A n \in Attempts : /\ route[n] \in Sources => route'[n] = route[n]
                             /\ paid[n] # "none" => paid'[n] = paid[n],
         (state = "needs_triage" /\ pc[u].n = Latest) \/ state = "blocked" =>
            \/ state' = "needs_triage" /\ pc[u].n = Latest'
            \/ state' = "blocked"
            \/ paid'[pc[u].n] # "none" /\ answer'[<<pc[u].n, pc[u].src>>] = "repair"
  PROVE  Asked(u)'
  <1>1. Escalating(u)
    BY DEF Escalating
  <1>2. /\ Asked(u) /\ pc[u].n \in Attempts /\ pc[u].src \in Sources
        /\ <<pc[u].n, pc[u].src>> \in Attempts \X Sources
    BY <1>1 DEF Path, Asking, IInv, Ticking
  <1>3. route'[pc[u].n] = pc[u].src
    BY <1>2 DEF Asked
  <1>4. \/ state' = "needs_triage" /\ pc[u].n = Latest'
        \/ state' = "blocked"
        \/ paid'[pc[u].n] # "none" /\ answer'[<<pc[u].n, pc[u].src>>] = "repair"
    BY <1>2 DEF Asked
  <1>5. pc[u].at = "record" =>
          \/ pc[u].word = "budget" /\ calls' = 0 /\ answer'[<<pc[u].n, pc[u].src>>] = "none"
          \/ /\ pc[u].word = answer'[<<pc[u].n, pc[u].src>>]
             /\ answer'[<<pc[u].n, pc[u].src>>] \in {"repair", "unresolvable"}
    BY <1>2 DEF Asked, At
  <1>6. QED
    BY <1>3, <1>4, <1>5 DEF Asked, At

LEMMA AskingStays ==
  ASSUME IInv, Path, UNCHANGED callVars,
         \A u \in Ticks : Escalating(u)' => pc'[u] = pc[u],
         \A n \in Attempts : /\ route[n] \in Sources => route'[n] = route[n]
                             /\ paid[n] # "none" => paid'[n] = paid[n],
         state \in {"needs_triage", "blocked"} => state' = state /\ Latest' = Latest
  PROVE  Asking'
  <1> SUFFICES ASSUME NEW u \in Ticks, Escalating(u)' PROVE Asked(u)'
    BY DEF Asking
  <1>1. QED
    BY AskedStays

\* The failure a ticket in triage was routed for last is that of its latest attempt.
LEMMA TriageIsLatest ==
  ASSUME Path, state = "needs_triage", NEW n \in Attempts, LastTriage(n)
  PROVE  n = Latest
  <1>1. Latest \in Attempts /\ Latest \in Nat /\ n \in Nat
    BY AttemptsAre DEF Path, Attempted
  <1>2. Latest <= n
    BY <1>1 DEF Path, Standing, LastTriage, Triaged
  <1>3. route[n] # "none"
    BY DEF LastTriage, Triaged, Sources
  <1>4. ~(n > Latest)
    BY <1>3 DEF Path, Judging, Authorized
  <1>5. QED
    BY <1>1, <1>2, <1>4

\* What is nobody's business but the ticket's.
LEMMA TicketStays ==
  ASSUME Path, UNCHANGED <<state, work, verdict, review, route, feedback, paid, granted, slot,
                           terminal, drifted>>
  PROVE  Latest' = Latest /\ Attempted' /\ Authorized' /\ Judging' /\ Standing'
  <1>1. Latest' = Latest /\ Attempted'
    BY LatestStays DEF Path
  <1>2. Authorized'
    BY <1>1, AuthorizedStays DEF Path
  <1>3. Judging' /\ Standing'
    BY <1>1 DEF Path, Judging, Standing
  <1>4. QED
    BY <1>1, <1>2, <1>3

LEMMA QuietTickStep ==
  ASSUME IInv, Path, NEW t \in Ticks,
         Start(t) \/ Die(t) \/ Stall(t) \/ ClaimNotice(t) \/ Send(t) \/ Mark(t) \/ Rest(t)
  PROVE  Path'
  <1>1. /\ UNCHANGED <<ticketVars, callVars, terminal, recoveryVars, paused>>
        /\ \A u \in Ticks \ {t} : pc'[u] = pc[u]
        /\ pc'[t] = pc[t] \/ pc'[t].at \in {"idle", "notify", "stages", "send", "mark"}
    <2>1. pc \in [Ticks -> Positions]
      BY DEF IInv, Ticking, TickTypes
    <2>2. CASE Start(t)
      BY <2>1, <2>2 DEF Start, Idle
    <2>3. CASE Die(t) \/ Stall(t)
      BY <2>1, <2>3 DEF Die, Stall, End, Idle
    <2>4. CASE ClaimNotice(t)
      BY <2>1, <2>4 DEF ClaimNotice, Goto, Idle
    <2>5. CASE Send(t)
      <3>1. PICK word \in Words : pc' = [pc EXCEPT ![t] = [pc[t] EXCEPT !.at = "mark", !.word = word]]
        BY <2>5 DEF Send, Goto
      <3>2. pc[t] \in Positions /\ UNCHANGED <<ticketVars, callVars, terminal, recoveryVars, paused>>
        BY <2>1, <2>5 DEF Send
      <3>3. pc'[t].at = "mark" /\ \A u \in Ticks \ {t} : pc'[u] = pc[u]
        BY <2>1, <3>1, <3>2 DEF Positions
      <3>4. QED
        BY <3>2, <3>3
    <2>6. CASE Mark(t)
      BY <2>1, <2>6 DEF Mark, End, Idle
    <2>7. CASE Rest(t)
      BY <2>1, <2>7 DEF Rest, Staged, Elsewhere, End, Idle
    <2>8. QED
      BY <2>2, <2>3, <2>4, <2>5, <2>6, <2>7
  <1>2. \A u \in Ticks : Escalating(u)' => pc'[u] = pc[u]
    BY <1>1 DEF Escalating
  <1>3. faults' \in 0..MaxFaults
    <2>1. \/ faults' = faults
          \/ faults < MaxFaults /\ faults' = faults + 1
      BY DEF Start, Die, Stall, ClaimNotice, Send, Mark, Rest, Elsewhere
    <2>2. QED
      BY <2>1, BoundsAssumption DEF Path, PathTypes
  <1>4. QED
    BY <1>1, <1>2, <1>3, PathStays DEF Path, PathTypes

\* A stage ends its tick.
LEMMA StagedIs ==
  ASSUME IInv, NEW t \in Ticks, Staged(t)
  PROVE  \A u \in Ticks : Escalating(u)' => pc'[u] = pc[u]
  BY DEF Staged, End, Idle, Escalating, IInv, Ticking, TickTypes

LEMMA ReconcileStep ==
  ASSUME IInv, Path, NEW t \in Ticks, Reconcile(t)
  PROVE  Path'
  <1>1. /\ state = "repairing" /\ work[Latest] = "open" /\ work' = [work EXCEPT ![Latest] = "filled"]
        /\ state' = "implementing" /\ built' \in {built, Latest} /\ drifted' = FALSE /\ Staged(t)
        /\ UNCHANGED <<limit, outcome, manual, marker, verdict, review, route, feedback, paid, granted, slot,
                       paused, callVars, terminal, noticeVars, archives, signed, issued, faults>>
    BY DEF Reconcile
  <1>2. Latest \in Attempts /\ Latest \in 0..MaxAttempts
    BY AttemptsAre, BoundsAssumption DEF Path, Attempted
  <1>3. \A m \in Attempts : work'[m] # "none" <=> work[m] # "none"
    BY <1>1, <1>2 DEF Path, PathTypes, TicketTypes
  <1>4. Latest' = Latest /\ Attempted'
    BY <1>3, LatestStays DEF Path
  <1>5. PathTypes'
    BY <1>1, <1>2 DEF Path, PathTypes, TicketTypes, CallTypes, RecoveryTypes
  <1>6. Authorized'
    BY <1>1, <1>4, AuthorizedStays DEF Path
  <1>7. Judging' /\ Standing'
    BY <1>1, <1>4 DEF Path, Judging, Standing
  <1>8. Asking'
    BY <1>1, StagedIs, AskingStays
  <1>9. QED
    BY <1>4, <1>5, <1>6, <1>7, <1>8 DEF Path

LEMMA ValidateStep ==
  ASSUME IInv, Path, NEW t \in Ticks, Validate(t)
  PROVE  Path'
  <1>1. /\ state = "implementing" /\ verdict[Latest] = "none" /\ Staged(t)
        /\ \E word \in {"passed", "failed"} :
              /\ verdict' = [verdict EXCEPT ![Latest] = word]
              /\ state' = IF word = "passed" THEN "local_review" ELSE "verifying"
        /\ marker' \in {marker, Latest}
        /\ UNCHANGED <<limit, work, outcome, manual, built, review, route, feedback, paid, granted,
                       slot, Elsewhere>>
    <2>1. \E passed \in BOOLEAN :
             /\ verdict' = [verdict EXCEPT ![Latest] = IF passed THEN "passed" ELSE "failed"]
             /\ state' = IF passed THEN "local_review" ELSE "verifying"
      BY DEF Validate
    <2>2. \E word \in {"passed", "failed"} :
              /\ verdict' = [verdict EXCEPT ![Latest] = word]
              /\ state' = IF word = "passed" THEN "local_review" ELSE "verifying"
      BY <2>1
    <2>3. QED
      BY <2>2 DEF Validate
  <1>2. PICK word \in {"passed", "failed"} :
              /\ verdict' = [verdict EXCEPT ![Latest] = word]
              /\ state' = IF word = "passed" THEN "local_review" ELSE "verifying"
    BY <1>1
  <1>3. Latest \in Attempts /\ Latest \in 0..MaxAttempts
    BY AttemptsAre, BoundsAssumption DEF Path, Attempted
  <1>4. Latest' = Latest /\ Attempted'
    BY <1>1, LatestStays DEF Path
  <1>5. /\ verdict'[Latest] = word /\ \A n \in Attempts : n # Latest => verdict'[n] = verdict[n]
        /\ verdict' \in [Attempts -> {"none", "failed", "passed"}]
    BY <1>2, <1>3 DEF Path, PathTypes, TicketTypes
  <1>6. PathTypes'
    BY <1>1, <1>2, <1>3, <1>5 DEF Path, PathTypes, TicketTypes, CallTypes, RecoveryTypes, Elsewhere
  <1>7. Authorized'
    <2>1. \A n \in Attempts : n > Latest => n # Latest
      BY <1>3, AttemptsAre
    <2>2. QED
      BY <1>1, <1>2, <1>4, <1>5, <2>1, AuthorizedStays DEF Path
  <1>8. Judging'
    BY <1>1, <1>5 DEF Path, Judging
  <1>9. Standing'
    <2>1. route[Latest] = "none" /\ feedback[Latest] = "none"
      BY <1>1, <1>3 DEF Path, Judging
    <2>2. QED
      BY <1>1, <1>2, <1>4, <1>5, <2>1 DEF Path, Standing, Sources, Elsewhere
  <1>10. Asking'
    BY <1>1, StagedIs, AskingStays DEF Elsewhere
  <1>11. QED
    BY <1>4, <1>6, <1>7, <1>8, <1>9, <1>10 DEF Path

LEMMA ReviewStep ==
  ASSUME IInv, Path, NEW t \in Ticks, Review(t)
  PROVE  Path'
  <1>1. /\ state = "local_review" /\ marker # 0 /\ verdict[marker] = "passed" /\ Staged(t)
        /\ \E word \in {"pass", "repair", "escalate"} : review' = [review EXCEPT ![marker] = word]
        /\ UNCHANGED <<state, limit, work, outcome, manual, built, marker, verdict, route, feedback, paid,
                       granted, slot, Elsewhere>>
    BY DEF Review
  <1>2. Latest' = Latest /\ Attempted'
    BY <1>1, LatestStays DEF Path
  <1>3. PICK word \in {"pass", "repair", "escalate"} : review' = [review EXCEPT ![marker] = word]
    BY <1>1
  <1>4. PathTypes'
    BY <1>1, <1>3 DEF Path, PathTypes, TicketTypes, CallTypes, RecoveryTypes, Elsewhere
  <1>5. Authorized'
    BY <1>1, <1>2, AuthorizedStays DEF Path
  <1>6. Judging' /\ Standing'
    BY <1>1, <1>2, <1>3 DEF Path, PathTypes, TicketTypes, Judging, Standing, Elsewhere
  <1>7. Asking'
    BY <1>1, <1>2, StagedIs, AskingStays DEF Elsewhere
  <1>8. QED
    BY <1>2, <1>4, <1>5, <1>6, <1>7 DEF Path

LEMMA WriteFeedbackStep ==
  ASSUME IInv, Path, NEW t \in Ticks, WriteFeedback(t)
  PROVE  Path'
  <1>1. PICK n \in Attempts :
          Routable(n) /\ Decision(n) \in Sources /\ feedback' = [feedback EXCEPT ![n] = Decision(n)]
    BY DEF WriteFeedback
  <1>2. /\ Staged(t)
        /\ UNCHANGED <<state, limit, work, outcome, manual, built, marker, verdict, review, route, paid,
                       granted, slot, Elsewhere>>
    BY DEF WriteFeedback
  <1>3. Latest' = Latest /\ Attempted'
    BY <1>2, LatestStays DEF Path
  <1>4. /\ feedback'[n] = Decision(n) /\ \A m \in Attempts : m # n => feedback'[m] = feedback[m]
        /\ feedback' \in [Attempts -> {"none"} \cup Sources]
    BY <1>1 DEF Path, PathTypes, TicketTypes
  <1>5. PathTypes'
    BY <1>2, <1>4 DEF Path, PathTypes, TicketTypes, CallTypes, RecoveryTypes, Elsewhere
  <1>6. Authorized'
    BY <1>2, <1>3, AuthorizedStays DEF Path
  <1>7. Judging'
    BY <1>1, <1>2, <1>4 DEF Path, Judging, Routable, Judged
  <1>8. Standing'
    <2>1. state = "local_review" => Decision(n) # "validation"
      BY DEF Decision
    <2>2. Latest \in Attempts
      BY DEF Path, Attempted
    <2>3. state = "local_review" => feedback'[Latest] # "validation"
      BY <1>4, <2>1, <2>2 DEF Path, Standing
    <2>4. QED
      BY <1>2, <1>3, <2>3 DEF Path, Standing, Elsewhere
  <1>9. Asking'
    BY <1>2, <1>3, StagedIs, AskingStays DEF Elsewhere
  <1>10. QED
    BY <1>3, <1>5, <1>6, <1>7, <1>8, <1>9 DEF Path

\* The attempt that is routed is the latest.
LEMMA RouteStep ==
  ASSUME IInv, Path, NEW t \in Ticks, Route(t)
  PROVE  Path'
  <1>1. PICK n \in Attempts :
          /\ Routable(n) /\ (Decision(n) = "repair" => n < MaxAttempts)
          /\ route' = [route EXCEPT ![n] = Decision(n)]
          /\ state' = IF Decision(n) = "repair" THEN "repairing"
                      ELSE IF Decision(n) = "pass" THEN state ELSE "needs_triage"
          /\ IF Decision(n) = "repair"
             THEN /\ work' = [work EXCEPT ![n + 1] = IF @ = "none" THEN "open" ELSE @]
                  /\ outcome' = [outcome EXCEPT ![n] = "repair_requested"]
             ELSE UNCHANGED <<work, outcome>>
    BY DEF Route
  <1>2. /\ Staged(t)
        /\ UNCHANGED <<limit, manual, built, marker, verdict, review, feedback, paid, granted, slot,
                       Elsewhere>>
    BY DEF Route
  <1>3. Latest \in Attempts /\ Latest \in Nat /\ n \in Nat
    BY AttemptsAre DEF Path, Attempted
  <1>4. n = Latest /\ state \in {"verifying", "local_review"} /\ route[n] = "none" /\ verdict[n] # "none"
    <2>1. state \in {"verifying", "local_review"} /\ route[n] = "none" /\ verdict[n] # "none"
      BY <1>1 DEF Routable, Judged
    <2>2. verdict[Latest] # "none"
      BY <2>1 DEF Path, Standing
    <2>3. ~(n > Latest)
      BY <2>1 DEF Path, Authorized
    <2>4. ~(Latest > n)
      BY <1>1, <1>3, <2>2 DEF Routable, Judged
    <2>5. QED
      BY <1>3, <2>1, <2>3, <2>4
  <1>5. /\ Decision(n) \in {"pass", "repair", "review", "validation"}
        /\ Decision(n) = "pass" => state = "local_review"
    BY <1>4 DEF Decision
  <1>6. /\ route'[n] = Decision(n) /\ \A m \in Attempts : m # n => route'[m] = route[m]
        /\ route' \in [Attempts -> {"none", "pass", "repair"} \cup Sources]
    BY <1>1, <1>5 DEF Path, PathTypes, TicketTypes, Sources
  <1>7. ~terminal.open /\ ~drifted
    BY <1>4 DEF Path, Standing
  <1>8. Judging'
    BY <1>2, <1>4, <1>6 DEF Path, Judging
  <1>9. CASE Decision(n) = "repair"
    <2>1. work[n + 1] = "none" /\ n + 1 \in Attempts
      <3>1. n + 1 \in Attempts
        BY <1>1, <1>3, <1>9, BoundsAssumption DEF Attempts
      <3>2. QED
        BY <1>3, <1>4, <3>1 DEF Path, Attempted
    <2>2. /\ work' = [work EXCEPT ![Latest + 1] = "open"] /\ Latest < MaxAttempts
          /\ outcome' = [outcome EXCEPT ![n] = "repair_requested"] /\ state' = "repairing"
      BY <1>1, <1>4, <1>9, <2>1
    <2>3. Latest' = Latest + 1 /\ Attempted'
      BY <2>2, LatestMoves DEF Path, PathTypes
    <2>4. PathTypes'
      BY <1>2, <1>6, <2>2 DEF Path, PathTypes, TicketTypes, CallTypes, RecoveryTypes, Elsewhere
    <2>5. Authorized'
      <3>1. \A m \in Attempts : m # Latest => Authorizations(m)' = Authorizations(m)
        BY <1>2, <1>4, <1>6 DEF Authorizations
      <3>2. Authorizations(n) = {}
        BY <1>4 DEF Path, Authorized
      <3>3. paid[n] = "none" /\ n \notin granted /\ n \notin slot
        BY <3>2 DEF Authorizations
      <3>4. Authorizations(n)' = {"route"}
        BY <1>2, <1>6, <1>9, <3>3 DEF Authorizations
      <3>5. QED
        BY <1>2, <1>4, <2>2, <2>3, <3>1, <3>4, AuthorizedMoves DEF Path
    <2>6. Standing'
      BY <1>2, <1>7, <2>2 DEF Standing, Elsewhere
    <2>7. Asking'
      BY <1>2, <1>4, <1>6, StagedIs, AskingStays DEF Elsewhere, Sources
    <2>8. QED
      BY <1>8, <2>3, <2>4, <2>5, <2>6, <2>7 DEF Path
  <1>10. CASE Decision(n) # "repair"
    <2>1. UNCHANGED <<work, outcome>> /\ state' \in {"local_review", "needs_triage"}
      BY <1>1, <1>5, <1>10
    <2>2. Latest' = Latest /\ Attempted'
      BY <2>1, LatestStays DEF Path
    <2>3. PathTypes'
      BY <1>2, <1>6, <2>1 DEF Path, PathTypes, TicketTypes, CallTypes, RecoveryTypes, Elsewhere
    <2>4. Authorized'
      BY <1>2, <1>4, <1>6, <1>10, <2>1, <2>2, AuthorizedStays DEF Path
    <2>5. Standing'
      <3>1. CASE Decision(n) = "pass"
        <4>1. state = "local_review" /\ state' = "local_review" /\ route'[Latest] = "pass"
          BY <1>1, <1>4, <1>5, <1>6, <3>1
        <4>2. QED
          BY <1>2, <1>7, <2>2, <4>1 DEF Path, Standing, Sources, Elsewhere
      <3>2. CASE Decision(n) # "pass"
        <4>1. state' = "needs_triage" /\ route'[Latest] \in Sources
          BY <1>1, <1>4, <1>5, <1>6, <1>10, <3>2 DEF Sources
        <4>2. QED
          BY <1>2, <1>7, <2>2, <4>1 DEF Standing, Elsewhere
      <3>3. QED
        BY <3>1, <3>2
    <2>6. Asking'
      BY <1>2, <1>4, <1>6, StagedIs, AskingStays DEF Elsewhere, Sources
    <2>7. QED
      BY <1>8, <2>2, <2>3, <2>4, <2>5, <2>6 DEF Path
  <1>11. QED
    BY <1>9, <1>10

----------------------------------------------------------------------------
(* An escalation, step by step.                                            *)

LEMMA EscalatePath ==
  ASSUME IInv, Path, NEW t \in Ticks, Escalate(t)
  PROVE  Path'
  <1>1. PICK n \in Attempts :
          /\ state = "needs_triage" /\ LastTriage(n) /\ route[n] \in Sources
          /\ feedback' = [feedback EXCEPT ![n] = route[n]]
          /\ pc' = [pc EXCEPT ![t] = [Idle EXCEPT !.at = "ask", !.n = n, !.src = route[n]]]
    BY DEF Escalate, Candidate, LastTriage, Triaged, Goto
  <1>2. UNCHANGED <<state, limit, work, outcome, manual, built, marker, verdict, review, route, paid,
                    granted, slot, Elsewhere>>
    BY DEF Escalate
  <1>3. n = Latest
    BY <1>1, TriageIsLatest
  <1>4. Latest' = Latest /\ Attempted'
    BY <1>2, LatestStays DEF Path
  <1>5. /\ pc'[t].at = "ask" /\ pc'[t].n = n /\ pc'[t].src = route[n]
        /\ \A u \in Ticks \ {t} : pc'[u] = pc[u]
    BY <1>1 DEF IInv, Ticking, TickTypes, Idle
  <1>6. PathTypes'
    BY <1>1, <1>2 DEF Path, PathTypes, TicketTypes, CallTypes, RecoveryTypes, Elsewhere
  <1>7. Authorized'
    BY <1>2, <1>4, AuthorizedStays DEF Path
  <1>8. Judging'
    <2>1. verdict[n] # "none"
      BY <1>1 DEF Path, Judging, Sources
    <2>2. \A m \in Attempts : m # n => feedback'[m] = feedback[m]
      BY <1>1 DEF Path, PathTypes, TicketTypes
    <2>3. QED
      BY <1>2, <2>1, <2>2 DEF Path, Judging
  <1>9. Standing'
    BY <1>1, <1>2, <1>4 DEF Path, Standing, Elsewhere
  <1>10. Asking'
    <2>1. Asked(t)'
      BY <1>1, <1>2, <1>3, <1>4, <1>5 DEF Asked, At
    <2>2. ASSUME NEW u \in Ticks \ {t}, Escalating(u)' PROVE Asked(u)'
      BY <1>2, <1>4, <1>5, <2>2, AskedStays DEF Elsewhere
    <2>3. QED
      BY <2>1, <2>2 DEF Asking
  <1>11. QED
    BY <1>4, <1>6, <1>7, <1>8, <1>9, <1>10 DEF Path

LEMMA AskPath ==
  ASSUME IInv, Path, NEW t \in Ticks, Ask(t)
  PROVE  Path'
  <1> DEFINE n == pc[t].n
             src == pc[t].src
             key == <<n, src>>
  <1>1. /\ pc[t] \in Positions /\ pc[t].at = "ask" /\ n \in Attempts /\ src \in Sources
        /\ key \in Attempts \X Sources /\ Asked(t)
    BY DEF Ask, At, Escalating, IInv, Ticking, TickTypes, Path, Asking
  <1>2. UNCHANGED <<paused, ticketVars, terminal, noticeVars, recoveryVars, faults>>
    BY DEF Ask
  <1>3. calls \in 0..MaxCalls /\ answer \in [Attempts \X Sources -> {"none", "repair", "unresolvable"}]
    BY DEF Path, PathTypes, CallTypes
  <1>4. \E word \in {"repair", "unresolvable", "budget"} :
          /\ pc' = [pc EXCEPT ![t] = [pc[t] EXCEPT !.at = "record", !.word = word]]
          /\ \/ answer[key] = word /\ UNCHANGED callVars
             \/ /\ word # "budget" /\ answer[key] = "none" /\ calls > 0 /\ calls' = calls - 1
                /\ answer' = [answer EXCEPT ![key] = word]
             \/ word = "budget" /\ answer[key] = "none" /\ calls = 0 /\ UNCHANGED callVars
    <2>1. CASE answer[key] # "none"
      <3>1. answer[key] \in {"repair", "unresolvable"}
        BY <1>1, <1>3, <2>1
      <3>2. QED
        BY <2>1, <3>1 DEF Ask, Goto
    <2>2. CASE answer[key] = "none" /\ calls > 0
      <3>1. calls # 0
        BY <1>3, <2>2
      <3>2. QED
        BY <2>2, <3>1 DEF Ask, Goto
    <2>3. CASE answer[key] = "none" /\ ~(calls > 0)
      BY <2>3 DEF Ask, Goto
    <2>4. QED
      BY <2>1, <2>2, <2>3
  <1>5. PICK word \in {"repair", "unresolvable", "budget"} :
          /\ pc' = [pc EXCEPT ![t] = [pc[t] EXCEPT !.at = "record", !.word = word]]
          /\ \/ answer[key] = word /\ UNCHANGED callVars
             \/ /\ word # "budget" /\ answer[key] = "none" /\ calls > 0 /\ calls' = calls - 1
                /\ answer' = [answer EXCEPT ![key] = word]
             \/ word = "budget" /\ answer[key] = "none" /\ calls = 0 /\ UNCHANGED callVars
    BY <1>4
  <1>6. /\ pc'[t].at = "record" /\ pc'[t].n = n /\ pc'[t].src = src /\ pc'[t].word = word
        /\ \A u \in Ticks \ {t} : pc'[u] = pc[u]
    BY <1>1, <1>5 DEF IInv, Ticking, TickTypes, Positions
  <1> HIDE DEF n, src
  <1>7. /\ Latest' = Latest /\ Attempted' /\ Authorized' /\ Judging' /\ Standing'
    BY <1>2, TicketStays
  <1>8. CallTypes'
    BY <1>1, <1>3, <1>5, BoundsAssumption DEF CallTypes
  <1>9. PathTypes'
    BY <1>2, <1>8 DEF Path, PathTypes, TicketTypes, RecoveryTypes
  <1>10. /\ \A k \in Attempts \X Sources : answer[k] # "none" => answer'[k] = answer[k]
         /\ calls = 0 => UNCHANGED callVars
    <2>1. CASE UNCHANGED callVars
      BY <2>1
    <2>2. CASE calls > 0 /\ answer[key] = "none" /\ answer' = [answer EXCEPT ![key] = word]
      <3>1. calls # 0
        BY <1>3, <2>2
      <3>2. QED
        BY <1>1, <1>3, <2>2, <3>1
    <2>3. QED
      BY <1>5, <2>1, <2>2
  <1>11. Asked(t)'
    <2>1. route'[n] = src
      BY <1>1, <1>2 DEF Asked, n, src
    <2>2. \/ state' = "needs_triage" /\ n = Latest'
          \/ state' = "blocked"
          \/ paid'[n] # "none" /\ answer'[key] = "repair"
      <3>1. \/ state = "needs_triage" /\ n = Latest
            \/ state = "blocked"
            \/ paid[n] # "none" /\ answer[key] = "repair"
        BY <1>1 DEF Asked, n, src
      <3>2. QED
        BY <1>1, <1>2, <1>7, <1>10, <3>1
    <2>3. \/ word = "budget" /\ calls' = 0 /\ answer'[key] = "none"
          \/ word = answer'[key] /\ answer'[key] \in {"repair", "unresolvable"}
      <3>1. answer[key] # "budget"
        BY <1>1, <1>3
      <3>2. QED
        BY <1>1, <1>3, <1>5, <3>1
    <2>4. QED
      BY <1>6, <2>1, <2>2, <2>3 DEF Asked, At
  <1>12. ASSUME NEW u \in Ticks \ {t}, Escalating(u)' PROVE Asked(u)'
    <2>1. pc'[u] = pc[u]
      BY <1>6
    <2>2. QED
      BY <1>2, <1>7, <1>10, <1>12, <2>1, AskedStays
  <1>13. QED
    BY <1>7, <1>9, <1>11, <1>12 DEF Path, Asking

\* The tick that records an answer ends; the others go on.
LEMMA RecordEnds ==
  ASSUME IInv, NEW t \in Ticks, At(t, "record"), End(t)
  PROVE  /\ pc[t].n \in Attempts /\ pc[t].src \in Sources /\ Escalating(t)
         /\ \A u \in Ticks : Escalating(u)' => pc'[u] = pc[u]
  BY DEF At, End, Idle, Escalating, IInv, Ticking, TickTypes

LEMMA RecordRepairPath ==
  ASSUME IInv, Path, NEW t \in Ticks, RecordRepair(t)
  PROVE  Path'
  <1>1. /\ pc[t].n \in Attempts /\ pc[t].src \in Sources /\ Asked(t) /\ pc[t].word = "repair" /\ pc[t].at = "record"
        /\ \A u \in Ticks : Escalating(u)' => pc'[u] = pc[u]
    BY RecordEnds DEF RecordRepair, Path, Asking, At
  <1>2. UNCHANGED <<limit, manual, built, marker, verdict, review, route, feedback, granted, slot, Elsewhere>>
    BY DEF RecordRepair
  <1>3. CASE ~Repairable(t)
    <2>1. UNCHANGED <<work, outcome, paid, state>>
      BY <1>3 DEF RecordRepair
    <2>2. paused' \in BOOLEAN /\ faults' \in 0..MaxFaults
      BY <1>2 DEF Path, PathTypes, Elsewhere
    <2>3. QED
      BY <1>1, <1>2, <2>1, <2>2, PathStays DEF Elsewhere
  <1>4. CASE Repairable(t)
    <2> PICK n \in Attempts, src \in Sources : n = pc[t].n /\ src = pc[t].src
      BY <1>1
    <2>1. /\ work' = [work EXCEPT ![n + 1] = "open"] /\ outcome' = [outcome EXCEPT ![n] = "repair_requested"]
          /\ paid' = [paid EXCEPT ![n] = src] /\ state' = "repairing"
          /\ paid[n] = "none" /\ state = "needs_triage" /\ route[n] = src /\ n < MaxAttempts
      BY <1>4 DEF RecordRepair, Repairable
    <2>2. n = Latest /\ answer[<<n, src>>] = "repair"
      BY <1>1, <2>1 DEF Asked, At
    <2>3. work' = [work EXCEPT ![Latest + 1] = "open"] /\ Latest < MaxAttempts
      BY <2>1, <2>2
    <2>4. Latest' = Latest + 1 /\ Attempted'
      BY <2>3, LatestMoves DEF Path, PathTypes
    <2>5. PathTypes'
      BY <1>1, <1>2, <2>1 DEF Path, PathTypes, TicketTypes, CallTypes, RecoveryTypes, Elsewhere
    <2>6. paid'[n] = src /\ \A m \in Attempts : m # n => paid'[m] = paid[m]
      BY <1>1, <2>1 DEF Path, PathTypes, TicketTypes
    <2>7. Authorized'
      <3>1. \A m \in Attempts : m # Latest => Authorizations(m)' = Authorizations(m)
        BY <1>2, <2>2, <2>6 DEF Authorizations
      <3>2. Authorizations(n) = {}
        BY <1>1, <2>1, <2>2 DEF Path, Authorized
      <3>3. route[n] # "repair" /\ n \notin granted /\ n \notin slot
        BY <3>2 DEF Authorizations
      <3>4. Authorizations(n)' = {"paid"}
        <4>1. src # "none"
          BY <1>1 DEF Sources
        <4>2. QED
          BY <1>2, <2>6, <3>3, <4>1 DEF Authorizations
      <3>5. QED
        BY <1>1, <1>2, <2>1, <2>2, <2>4, <3>1, <3>4, AuthorizedMoves DEF Path
    <2>8. Judging'
      BY <1>2 DEF Path, Judging
    <2>9. Standing'
      BY <1>2, <2>1 DEF Path, Standing, Elsewhere
    <2>10. ASSUME NEW u \in Ticks, Escalating(u)' PROVE Asked(u)'
      <3>1. pc'[u] = pc[u] /\ Asked(u)
        BY <1>1, <2>10 DEF Path, Asking, Escalating
      <3>2. CASE pc[u].n = n
        <4>1. pc[u].src = src
          BY <2>1, <3>1, <3>2 DEF Asked
        <4>2. paid'[pc[u].n] # "none" /\ answer'[<<pc[u].n, pc[u].src>>] = "repair"
          BY <1>1, <1>2, <2>2, <2>6, <3>2, <4>1 DEF Elsewhere, Sources
        <4>3. QED
          BY <1>2, <2>1, <2>6, <2>10, <3>1, <4>2, AskedStays DEF Elsewhere
      <3>3. CASE pc[u].n # n
        BY <1>2, <2>1, <2>2, <2>6, <2>10, <3>1, <3>3, AskedStays DEF Elsewhere
      <3>4. QED
        BY <3>2, <3>3
    <2>11. QED
      BY <2>4, <2>5, <2>7, <2>8, <2>9, <2>10 DEF Path, Asking
  <1>5. QED
    BY <1>3, <1>4

\* A failure is recorded of the latest attempt of a ticket in triage: an escalation that was
\* overtaken finds the ticket blocked, or has the answer that had it repaired.
LEMMA TerminalInTriage ==
  ASSUME IInv, Path, NEW t \in Ticks, RecordTerminal(t), Blockable
  PROVE  state = "needs_triage" /\ pc[t].n = Latest
  <1>1. Asked(t) /\ pc[t].word \in {"unresolvable", "budget"} /\ pc[t].at = "record"
    BY DEF RecordTerminal, At, Path, Asking, Escalating
  <1>2. state # "blocked"
    BY DEF Blockable, Path, Standing
  <1>3. answer[<<pc[t].n, pc[t].src>>] # "repair"
    BY <1>1 DEF Asked, At
  <1>4. QED
    BY <1>1, <1>2, <1>3 DEF Asked

LEMMA RecordTerminalPath ==
  ASSUME IInv, Path, NEW t \in Ticks, RecordTerminal(t)
  PROVE  Path'
  <1>1. /\ pc[t].n \in Attempts /\ pc[t].src \in Sources
        /\ \A u \in Ticks : Escalating(u)' => pc'[u] = pc[u]
    BY RecordEnds DEF RecordTerminal
  <1>2. UNCHANGED <<paused, limit, work, outcome, manual, built, marker, verdict, review, route,
                    feedback, paid,
                    granted, slot, callVars, recoveryVars, faults>>
    BY DEF RecordTerminal
  <1>3. paused' \in BOOLEAN /\ faults' \in 0..MaxFaults
    BY <1>2 DEF Path, PathTypes
  <1>4. CASE ~Blockable
    <2>1. UNCHANGED <<terminal, state>>
      BY <1>4 DEF RecordTerminal
    <2>2. QED
      BY <1>1, <1>2, <1>3, <2>1, PathStays
  <1>5. CASE Blockable
    <2>1. /\ terminal'.n = pc[t].n /\ terminal'.src = pc[t].src /\ terminal'.why \in {"unresolvable", "budget"}
          /\ terminal'.open /\ state' = "blocked"
      BY <1>5 DEF RecordTerminal
    <2>2. state = "needs_triage" /\ pc[t].n = Latest
      BY <1>5, TerminalInTriage
    <2>3. Latest' = Latest /\ Attempted'
      BY <1>2, LatestStays DEF Path
    <2>4. PathTypes'
      <3>1. terminal'.n \in 0..MaxAttempts
        BY <1>1, <2>1, AttemptsAre, BoundsAssumption
      <3>2. QED
        BY <1>1, <1>2, <2>1, <3>1 DEF Path, PathTypes, TicketTypes, CallTypes, RecoveryTypes
    <2>5. Authorized'
      BY <1>2, <2>1, <2>2, <2>3, AuthorizedStays DEF Path
    <2>6. Judging'
      BY <1>2 DEF Path, Judging
    <2>7. Standing'
      BY <1>2, <2>1, <2>2, <2>3 DEF Path, Standing
    <2>8. ASSUME NEW u \in Ticks, Escalating(u)' PROVE Asked(u)'
      BY <1>1, <1>2, <2>1, <2>8, AskedStays
    <2>9. QED
      BY <2>3, <2>4, <2>5, <2>6, <2>7, <2>8 DEF Path, Asking
  <1>6. QED
    BY <1>4, <1>5

----------------------------------------------------------------------------
(* The operator, who waits for escalations to end.                         *)

LEMMA QuietAsks ==
  ASSUME Orderly, Quiet, UNCHANGED tickVars
  PROVE  Asking'
  BY DEF Quiet, Asking, Escalating

\* What is resolved keeps its failure.
LEMMA ResolvedTypes ==
  ASSUME IInv, Path, Resolve
  PROVE  /\ ~terminal'.open
         /\ terminal'.n \in 0..MaxAttempts /\ terminal'.why \in {"none", "unresolvable", "budget"}
         /\ terminal'.gen > 0 => terminal'.n \in Attempts /\ terminal'.src \in Sources
  BY DEF Resolve, Path, PathTypes, IInv, Failures

\* A resolution of a blocked ticket finds its latest attempt without an authority.
LEMMA ResolvableIs ==
  ASSUME IInv, Path, Resolvable
  PROVE  /\ terminal.open /\ state = "blocked" /\ paused /\ Latest \in Attempts /\ Latest \in Nat
         /\ route[Latest] \in Sources /\ route[Latest] # "repair" /\ Authorizations(Latest) = {}
         /\ paid[Latest] = "none" /\ Latest \notin granted /\ Latest \notin slot
  <1>1. terminal.open /\ state = "blocked" /\ paused
    BY DEF Resolvable
  <1>2. Latest \in Attempts /\ Latest \in Nat
    BY AttemptsAre DEF Path, Attempted
  <1>3. route[Latest] \in Sources /\ route[Latest] # "repair"
    BY <1>1 DEF Path, Standing, Sources
  <1>4. Authorizations(Latest) = {}
    BY <1>1, <1>2 DEF Path, Authorized
  <1>5. QED
    BY <1>1, <1>2, <1>3, <1>4 DEF Authorizations

LEMMA AddLocalBudgetPath ==
  ASSUME Orderly, IInv, Path, AddLocalBudget
  PROVE  Path'
  <1> PICK n \in Attempts : n = Latest
    BY DEF Path, Attempted
  <1>1. /\ work' = [work EXCEPT ![n + 1] = "open"] /\ outcome' = [outcome EXCEPT ![n] = "repair_requested"]
        /\ granted' = granted \cup {n} /\ state' = "repairing" /\ Resolve /\ Quiet /\ n < MaxAttempts
        /\ limit' = (IF limit > n THEN limit ELSE n) + 1
        /\ UNCHANGED <<paused, manual, built, marker, verdict, review, route, feedback, paid, slot,
                       callVars, recoveryVars, tickVars, faults>>
    BY DEF AddLocalBudget, Resolvable
  <1>2. /\ state = "blocked" /\ n \in Nat
        /\ route[n] # "repair" /\ paid[n] = "none" /\ n \notin slot
    BY ResolvableIs DEF AddLocalBudget
  <1>3. work' = [work EXCEPT ![Latest + 1] = "open"] /\ Latest < MaxAttempts
    BY <1>1
  <1>4. Latest' = Latest + 1 /\ Attempted'
    BY <1>3, LatestMoves DEF Path, PathTypes
  <1>5. limit' \in Nat
    BY <1>1, <1>2 DEF Path, PathTypes, TicketTypes
  <1>6. PathTypes'
    BY <1>1, <1>5, ResolvedTypes DEF Path, PathTypes, TicketTypes, CallTypes, RecoveryTypes
  <1>7. Authorized'
    <2>1. \A m \in Attempts : m # Latest => Authorizations(m)' = Authorizations(m)
      BY <1>1 DEF Authorizations
    <2>2. Authorizations(n)' = {"granted"}
      BY <1>1, <1>2 DEF Authorizations
    <2>3. QED
      BY <1>1, <1>4, <2>1, <2>2, AuthorizedMoves DEF Path
  <1>8. Judging' /\ Standing'
    BY <1>1, ResolvedTypes DEF Path, Judging, Standing
  <1>9. Asking'
    BY <1>1, QuietAsks
  <1>10. QED
    BY <1>4, <1>6, <1>7, <1>8, <1>9 DEF Path

LEMMA ReopenPath ==
  ASSUME Orderly, IInv, Path, Reopen
  PROVE  Path'
  <1>1. /\ Resolve /\ Quiet /\ state = "blocked" /\ state' = "needs_triage"
        /\ UNCHANGED <<paused, limit, work, outcome, manual, built, marker, verdict, review, route,
                       feedback, paid, granted, slot, callVars, recoveryVars, tickVars, faults>>
    BY DEF Reopen, Resolvable
  <1>2. Latest' = Latest /\ Attempted'
    BY <1>1, LatestStays DEF Path
  <1>3. PathTypes'
    BY <1>1, ResolvedTypes DEF Path, PathTypes, TicketTypes, CallTypes, RecoveryTypes
  <1>4. Authorized'
    BY <1>1, <1>2, AuthorizedStays DEF Path
  <1>5. Judging' /\ Standing'
    BY <1>1, <1>2, ResolvedTypes DEF Path, Judging, Standing
  <1>6. Asking'
    BY <1>1, QuietAsks
  <1>7. QED
    BY <1>2, <1>3, <1>4, <1>5, <1>6 DEF Path

LEMMA AuthorizeLocalPath ==
  ASSUME Orderly, IInv, Path, AuthorizeLocal
  PROVE  Path'
  <1>1. PICK n \in Attempts :
          /\ Unfollowed(n) /\ slot' = slot \cup {n} /\ outcome' = [outcome EXCEPT ![n] = "failed_retired"]
          /\ limit' = (IF limit > n THEN limit ELSE n) + 1
    BY DEF AuthorizeLocal
  <1>2. /\ Quiet /\ state = "needs_triage" /\ state' = "ready_local"
        /\ UNCHANGED <<paused, work, manual, built, marker, verdict, review, route, feedback, paid,
                       granted, callVars, terminal, noticeVars, recoveryVars, tickVars, faults>>
    BY DEF AuthorizeLocal
  <1>3. n \in Nat /\ Latest \in Attempts /\ Latest \in Nat
    BY AttemptsAre DEF Path, Attempted
  <1>4. n = Latest
    <2>1. work[n] = "filled" /\ n < MaxAttempts /\ work[n + 1] = "none"
      BY <1>1 DEF Unfollowed
    <2>2. n + 1 \in Attempts
      BY <1>3, <2>1, BoundsAssumption DEF Attempts
    <2>3. n <= Latest /\ ~(n + 1 <= Latest)
      BY <2>1, <2>2 DEF Path, Attempted
    <2>4. QED
      BY <1>3, <2>3
  <1>5. Latest' = Latest /\ Attempted'
    BY <1>2, LatestStays DEF Path
  <1>6. limit' \in Nat
    BY <1>1, <1>3 DEF Path, PathTypes, TicketTypes
  <1>7. PathTypes'
    BY <1>1, <1>2, <1>6 DEF Path, PathTypes, TicketTypes, CallTypes, RecoveryTypes
  <1>8. Authorized'
    <2>1. \A m \in Attempts : m # n => Authorizations(m)' = Authorizations(m)
      BY <1>1, <1>2 DEF Authorizations
    <2>2. Authorizations(n) = {}
      BY <1>2, <1>4 DEF Path, Authorized
    <2>3. paid[n] = "none" /\ n \notin granted /\ route[n] # "repair"
      BY <2>2 DEF Authorizations
    <2>4. Authorizations(n)' = {"slot"}
      BY <1>1, <1>2, <2>3 DEF Authorizations
    <2>5. ASSUME NEW m \in Attempts
          PROVE  /\ m < Latest => \E b \in {"route", "paid", "granted", "slot"} : Authorizations(m)' = {b}
                 /\ m = Latest => Authorizations(m)' = {"slot"}
                 /\ m > Latest => Authorizations(m)' = {} /\ verdict[m] = "none"
      <3>1. m \in Nat
        BY AttemptsAre
      <3>2. CASE m = n
        BY <1>3, <1>4, <2>4, <3>2
      <3>3. CASE m # n
        BY <1>4, <2>1, <3>3 DEF Path, Authorized
      <3>4. QED
        BY <3>2, <3>3
    <2>6. QED
      BY <1>2, <1>5, <2>5 DEF Authorized
  <1>9. Judging' /\ Standing'
    BY <1>2, <1>5 DEF Path, Judging, Standing
  <1>10. Asking'
    BY <1>2, QuietAsks
  <1>11. QED
    BY <1>5, <1>7, <1>8, <1>9, <1>10 DEF Path

\* The attempt after the retired one exists at once.
LEMMA AdoptedPath ==
  ASSUME IInv, Path, NEW l \in Attempts, l = Latest, NEW ended, NEW retired,
         AdoptAs(l + 1, ended, retired), Asking',
         ended \in [Attempts -> {"none", "repair_requested", "failed_retired"}],
         limit' \in Nat, retired = slot \cup {l},
         route[l] # "repair", paid[l] = "none", l \notin granted,
         ~terminal'.open,
         terminal'.n \in 0..MaxAttempts, terminal'.why \in {"none", "unresolvable", "budget"},
         terminal'.gen > 0 => terminal'.n \in Attempts /\ terminal'.src \in Sources
  PROVE  Path'
  <1>1. /\ l + 1 <= MaxAttempts /\ work' = [work EXCEPT ![l + 1] = "filled"]
        /\ manual' = manual \cup {l + 1} /\ built' = l + 1 /\ outcome' = ended /\ slot' = retired
        /\ state' = "implementing" /\ drifted' = FALSE
        /\ UNCHANGED <<paused, marker, verdict, review, route, feedback, paid, granted, callVars,
                       archives, signed, issued, tickVars, faults>>
    BY DEF AdoptAs
  <1>2. l \in Nat /\ l + 1 \in Attempts /\ l + 1 \in 0..MaxAttempts
    BY <1>1, AttemptsAre, BoundsAssumption DEF Attempts
  <1>3. work' = [work EXCEPT ![Latest + 1] = "filled"] /\ Latest < MaxAttempts
    BY <1>1, <1>2, BoundsAssumption
  <1>4. Latest' = Latest + 1 /\ Attempted'
    BY <1>3, LatestMoves DEF Path, PathTypes
  <1>5. PathTypes'
    BY <1>1, <1>2 DEF Path, PathTypes, TicketTypes, CallTypes, RecoveryTypes
  <1>6. Authorized'
    <2>1. \A m \in Attempts : m # Latest => Authorizations(m)' = Authorizations(m)
      BY <1>1 DEF Authorizations
    <2>2. Authorizations(l)' = {"slot"}
      BY <1>1 DEF Authorizations
    <2>3. QED
      BY <1>1, <1>4, <2>1, <2>2, AuthorizedMoves DEF Path
  <1>7. Judging' /\ Standing'
    BY <1>1 DEF Path, Judging, Standing
  <1>8. QED
    BY <1>4, <1>5, <1>6, <1>7 DEF Path

LEMMA AdoptPath ==
  ASSUME Orderly, IInv, Path, Adopt
  PROVE  Path'
  <1> PICK l \in Attempts : l = Latest
    BY DEF Path, Attempted
  <1>1. /\ state = "ready_local" /\ UNCHANGED <<limit, terminal>>
        /\ AdoptAs((CHOOSE k \in slot : \A m \in slot : m <= k) + 1, outcome, slot)
    BY DEF Adopt
  <1>2. Authorizations(l) = {"slot"} /\ \A m \in Attempts : m > l => Authorizations(m) = {}
    BY <1>1 DEF Path, Authorized
  <1>3. /\ l \in slot /\ paid[l] = "none" /\ route[l] # "repair" /\ l \notin granted
        /\ \A m \in slot : m \in Attempts /\ m <= l
    <2>1. \A m \in slot : m \in Attempts
      BY DEF Path, PathTypes, TicketTypes
    <2>2. \A m \in slot : ~(m > l)
      BY <1>2, <2>1 DEF Authorizations
    <2>3. QED
      BY <1>2, <2>1, <2>2, AttemptsAre DEF Authorizations
  <1>4. (CHOOSE k \in slot : \A m \in slot : m <= k) = l
    <2> DEFINE r == CHOOSE k \in slot : \A m \in slot : m <= k
    <2>1. r \in slot /\ \A m \in slot : m <= r
      BY <1>3
    <2>2. r <= l /\ l <= r /\ r \in Nat /\ l \in Nat
      BY <1>3, <2>1, AttemptsAre
    <2> HIDE DEF r
    <2>3. r = l
      BY <2>2
    <2>4. QED
      BY <2>3 DEF r
  <1>5. AdoptAs(l + 1, outcome, slot)
    BY <1>1, <1>4
  <1>6. Asking'
    BY <1>1, <1>5, AskingStays DEF AdoptAs, Escalating
  <1>7. slot = slot \cup {l}
    BY <1>3
  <1>8. QED
    BY <1>1, <1>3, <1>5, <1>6, <1>7, AdoptedPath DEF Path, PathTypes, TicketTypes, Standing

LEMMA AdoptTerminalPath ==
  ASSUME Orderly, IInv, Path, AdoptTerminal
  PROVE  Path'
  <1> PICK l \in Attempts : l = Latest
    BY DEF Path, Attempted
  <1>1. /\ Resolvable /\ Resolve /\ Quiet /\ limit' = IF limit > l THEN limit ELSE l + 1
        /\ AdoptAs(l + 1, [outcome EXCEPT ![l] = "failed_retired"], slot \cup {l})
    BY DEF AdoptTerminal, Resolvable
  <1>2. limit' \in Nat
    BY <1>1, AttemptsAre DEF Path, PathTypes, TicketTypes
  <1>3. Asking'
    BY <1>1, QuietAsks DEF AdoptAs
  <1>4. [outcome EXCEPT ![l] = "failed_retired"] \in [Attempts -> {"none", "repair_requested", "failed_retired"}]
    BY DEF Path, PathTypes, TicketTypes
  <1>5. QED
    BY <1>1, <1>2, <1>3, <1>4, ResolvableIs, ResolvedTypes, AdoptedPath

LEMMA RecoverPath ==
  ASSUME Orderly, IInv, Path, Recover
  PROVE  Path'
  <1> PICK n \in Attempts : n = Latest
    BY DEF Path, Attempted
  <1>1. /\ Resolve /\ Quiet /\ state = "blocked" /\ terminal.open /\ ~drifted
        /\ issued # NoDoc /\ terminal.n = issued.n
    BY DEF Recover, Recoverable, Usable, Frozen, Projected
  <1>2. issued.n = n
    BY <1>1 DEF Path, Standing
  <1>3. /\ signed' = [signed EXCEPT ![terminal.gen] = issued]
        /\ archives' = [archives EXCEPT ![terminal.gen] = issued.kinds]
        /\ route' = [route EXCEPT ![n] = "none"] /\ feedback' = [feedback EXCEPT ![n] = "none"]
        /\ verdict' = [verdict EXCEPT ![n] = "passed"] /\ marker' = n /\ state' = "local_review"
        /\ issued' = NoDoc
        /\ UNCHANGED <<paused, limit, work, outcome, manual, built, review, paid, granted, slot,
                       callVars, drifted, tickVars, faults>>
    BY <1>2 DEF Recover, ArchivedAs, FeedbackAfter
  <1>4. issued \in Documents
    BY <1>1 DEF Path, PathTypes, RecoveryTypes
  <1>5. Latest' = Latest /\ Attempted'
    BY <1>3, LatestStays DEF Path
  <1>6. /\ route'[n] = "none" /\ feedback'[n] = "none" /\ verdict'[n] = "passed"
        /\ \A m \in Attempts : m # n => /\ route'[m] = route[m] /\ feedback'[m] = feedback[m]
                                       /\ verdict'[m] = verdict[m]
    BY <1>3 DEF Path, PathTypes, TicketTypes
  <1>7. PathTypes'
    <2>1. issued.kinds \in SUBSET ArchiveKinds
      BY <1>4 DEF Documents
    <2>2. n \in 0..MaxAttempts
      BY AttemptsAre, BoundsAssumption
    <2>3. RecoveryTypes'
      BY <1>3, <1>4, <2>1 DEF Path, PathTypes, RecoveryTypes
    <2>4. QED
      BY <1>1, <1>3, <2>2, <2>3, ResolvedTypes DEF Path, PathTypes, TicketTypes, CallTypes
  <1>8. Authorized'
    <2>1. route[n] # "repair"
      BY <1>1 DEF Path, Standing, Sources
    <2>2. \A m \in Attempts : m > Latest => m # n
      BY AttemptsAre
    <2>3. QED
      BY <1>1, <1>3, <1>5, <1>6, <2>1, <2>2, AuthorizedStays DEF Path
  <1>9. Judging'
    BY <1>3, <1>6 DEF Path, Judging
  <1>10. Standing'
    BY <1>1, <1>3, <1>5, <1>6, ResolvedTypes DEF Standing, Sources
  <1>11. Asking'
    BY <1>1, <1>3, QuietAsks
  <1>12. QED
    BY <1>5, <1>7, <1>8, <1>9, <1>10, <1>11 DEF Path

\* The document of a recovery is about an attempt and a failure of the ticket.
LEMMA IssuePath ==
  ASSUME Orderly, IInv, Path, Issue
  PROVE  Path'
  <1>1. PICK n \in Attempts : Projected(n) /\ issued' = Projection(n)
    BY DEF Issue, Approved
  <1>2. UNCHANGED <<paused, ticketVars, callVars, terminal, noticeVars, archives, signed,
                    drifted, tickVars, faults>>
    BY DEF Issue
  <1>3. terminal.gen \in Gens /\ terminal.src \in Sources /\ terminal.open \in BOOLEAN
    BY <1>1 DEF Projected, Gens, IInv, Bounded, Failures, Path, PathTypes
  <1>4. Kinds(n, terminal.gen) \in SUBSET ArchiveKinds
    BY <1>3 DEF Kinds, ArchiveKinds, Path, PathTypes, RecoveryTypes
  <1>5. issued' \in Documents
    BY <1>1, <1>3, <1>4 DEF Projection, Documents
  <1>6. PathTypes'
    BY <1>2, <1>5 DEF Path, PathTypes, TicketTypes, CallTypes, RecoveryTypes
  <1>7. Latest' = Latest /\ Attempted' /\ Authorized' /\ Judging' /\ Standing'
    BY <1>2, TicketStays
  <1>8. Asking'
    BY <1>2, <1>7, AskingStays DEF Escalating
  <1>9. QED
    BY <1>6, <1>7, <1>8 DEF Path

LEMMA OtherPath ==
  ASSUME Orderly, IInv, Path, Switch \/ ResolveNotice \/ ApproveCall \/ Drift \/ Revoke \/ ReconcileMarker
  PROVE  Path'
  <1>1. CASE Switch \/ ResolveNotice
    <2>1. /\ UNCHANGED <<ticketVars, callVars, terminal, recoveryVars, tickVars, faults>>
          /\ paused' \in BOOLEAN
      BY <1>1 DEF Switch, Pause, Resume, ResolveNotice, Path, PathTypes
    <2>2. QED
      BY <2>1, PathStays DEF Path, PathTypes
  <1>2. CASE ApproveCall
    <2>1. /\ Quiet /\ calls' = calls + 1 /\ calls < MaxCalls
          /\ UNCHANGED <<paused, ticketVars, answer, terminal, noticeVars, recoveryVars, tickVars, faults>>
      BY <1>2 DEF ApproveCall
    <2>2. calls' \in 0..MaxCalls
      BY <2>1, BoundsAssumption DEF Path, PathTypes, CallTypes
    <2>3. PathTypes'
      BY <2>1, <2>2 DEF Path, PathTypes, TicketTypes, CallTypes, RecoveryTypes
    <2>4. QED
      BY <2>1, <2>3, TicketStays, QuietAsks DEF Path
  <1>3. CASE Drift
    <2>1. /\ state = "blocked" /\ drifted' = TRUE /\ faults < MaxFaults /\ faults' = faults + 1
          /\ UNCHANGED <<paused, ticketVars, callVars, terminal, noticeVars, archives, signed, issued,
                         tickVars>>
      BY <1>3 DEF Drift
    <2>2. faults' \in 0..MaxFaults
      BY <2>1, BoundsAssumption DEF Path, PathTypes
    <2>3. PathTypes'
      BY <2>1, <2>2 DEF Path, PathTypes, TicketTypes, CallTypes, RecoveryTypes
    <2>4. Latest' = Latest /\ Attempted'
      BY <2>1, LatestStays DEF Path
    <2>5. Authorized'
      BY <2>1, <2>4, AuthorizedStays DEF Path
    <2>6. Judging' /\ Standing'
      BY <2>1, <2>4 DEF Path, Judging, Standing
    <2>7. Asking'
      BY <2>1, <2>4, AskingStays DEF Escalating
    <2>8. QED
      BY <2>3, <2>4, <2>5, <2>6, <2>7 DEF Path
  <1>4. CASE Revoke
    <2>1. /\ issued' = NoDoc
          /\ UNCHANGED <<paused, ticketVars, callVars, terminal, noticeVars, archives, signed, drifted,
                         tickVars, faults>>
      BY <1>4 DEF Revoke
    <2>2. PathTypes'
      BY <2>1 DEF Path, PathTypes, TicketTypes, CallTypes, RecoveryTypes
    <2>3. Latest' = Latest /\ Attempted' /\ Authorized' /\ Judging' /\ Standing'
      BY <2>1, TicketStays
    <2>4. Asking'
      BY <2>1, <2>3, AskingStays DEF Escalating
    <2>5. QED
      BY <2>2, <2>3, <2>4 DEF Path
  <1>5. CASE ReconcileMarker
    <2>1. PICK g \in Gens : signed[g] # NoDoc /\ marker' = signed[g].n
      BY <1>5 DEF ReconcileMarker
    <2>2. UNCHANGED <<paused, state, limit, work, outcome, manual, built, verdict, review, route,
                      feedback, paid, granted, slot, callVars, terminal, noticeVars, recoveryVars,
                      tickVars, faults>>
      BY <1>5 DEF ReconcileMarker
    <2>3. marker' \in 0..MaxAttempts
      <3>1. signed[g] \in Documents
        BY <2>1 DEF Path, PathTypes, RecoveryTypes
      <3>2. marker' \in Attempts
        BY <2>1, <3>1 DEF Documents
      <3>3. QED
        BY <3>2, AttemptsAre, BoundsAssumption
    <2>4. PathTypes'
      BY <2>2, <2>3 DEF Path, PathTypes, TicketTypes, CallTypes, RecoveryTypes
    <2>5. Latest' = Latest /\ Attempted' /\ Authorized' /\ Judging' /\ Standing'
      BY <2>2, TicketStays
    <2>6. Asking'
      BY <2>2, <2>5, AskingStays DEF Escalating
    <2>7. QED
      BY <2>4, <2>5, <2>6 DEF Path
  <1>6. QED
    BY <1>1, <1>2, <1>3, <1>4, <1>5

----------------------------------------------------------------------------
(* The attempts of every reachable state.                                  *)

LEMMA PathInitially == Init => Path
  <1> SUFFICES ASSUME Init PROVE Path
    OBVIOUS
  <1>1. 1 \in Attempts /\ \A m \in Attempts : m = 1 \/ (m \in Nat /\ m > 1)
    BY BoundsAssumption DEF Attempts
  <1>2. \A m \in Attempts : work[m] # "none" <=> m <= 1
    BY <1>1 DEF Init
  <1>3. Latest = 1 /\ Attempted
    <2>1. Latest = 1
      BY <1>1, <1>2, LatestIs DEF Latest
    <2>2. QED
      BY <1>1, <1>2, <2>1 DEF Attempted
  <1>4. PathTypes
    <2>1. TicketTypes
      <3>1. limit \in Nat /\ 1 \in 0..MaxAttempts /\ 0 \in 0..MaxAttempts
        BY BoundsAssumption DEF Init
      <3>2. QED
        BY <3>1 DEF Init, TicketTypes
    <2>2. CallTypes
      <3>1. calls \in 0..MaxCalls
        BY BoundsAssumption DEF Init
      <3>2. QED
        BY <3>1 DEF Init, CallTypes
    <2>3. RecoveryTypes
      BY DEF Init, RecoveryTypes
    <2>4. paused \in BOOLEAN /\ faults \in 0..MaxFaults
      <3>1. 0 \in 0..MaxFaults
        BY BoundsAssumption
      <3>2. paused = FALSE /\ faults = 0
        BY DEF Init
      <3>3. QED
        BY <3>1, <3>2
    <2>5. terminal.n = 0 /\ terminal.why = "none" /\ terminal.gen = 0
      BY DEF Init
    <2>6. terminal.n \in 0..MaxAttempts /\ ~(terminal.gen > 0)
      BY <2>5, BoundsAssumption
    <2>7. QED
      BY <2>1, <2>2, <2>3, <2>4, <2>5, <2>6 DEF PathTypes
  <1>5. Authorized
    <2>1. \A m \in Attempts : Authorizations(m) = {}
      BY DEF Init, Authorizations
    <2>2. QED
      BY <1>1, <1>3, <2>1 DEF Init, Authorized
  <1>6. Judging /\ Standing
    BY DEF Init, Judging, Standing
  <1>7. Asking
    BY DEF Init, Asking, Escalating, Idle
  <1>8. QED
    BY <1>3, <1>4, <1>5, <1>6, <1>7 DEF Path

LEMMA EveryPath ==
  ASSUME Orderly, IInv, Path, [Next]_vars
  PROVE  Path'
  <1>1. CASE \E t \in Ticks : Start(t) \/ Die(t) \/ Stall(t)
    BY <1>1, QuietTickStep
  <1>2. CASE \E t \in Ticks : Step(t)
    BY <1>2, QuietTickStep, ReconcileStep, ValidateStep, ReviewStep, WriteFeedbackStep, RouteStep,
       EscalatePath, AskPath, RecordRepairPath, RecordTerminalPath DEF Step
  <1>3. CASE Operator
    BY <1>3, AddLocalBudgetPath, ReopenPath, AuthorizeLocalPath, AdoptPath, AdoptTerminalPath,
       IssuePath, RecoverPath, OtherPath DEF Operator
  <1>4. CASE UNCHANGED vars
    BY <1>4, PathStays DEF vars, Path, PathTypes
  <1>5. QED
    BY <1>1, <1>2, <1>3, <1>4 DEF Next

LEMMA PathInvariance ==
  ASSUME Orderly
  PROVE  Spec => [](IInv /\ Path)
  <1>1. IInv /\ Path /\ [Next]_vars => (IInv /\ Path)'
    BY EveryStep, EveryPath
  <1>2. QED
    BY <1>1, Initially, PathInitially, PTL DEF Spec

\* Every variable keeps its type, and of the router, the paid model and the operator's two
\* ways to continue exactly one authorized each attempt: for any number of ticks that die or
\* stall anywhere, and an operator who waits for escalations under way.
THEOREM OneAuthority ==
  ASSUME Orderly
  PROVE  Spec => []Consistent
  <1>1. IInv /\ Path => TypeOK
    <2> SUFFICES ASSUME IInv, Path PROVE TypeOK
      OBVIOUS
    <2>1. TerminalTypes
      BY DEF IInv, Failures, Bounded, Path, PathTypes, TerminalTypes
    <2>2. QED
      BY <2>1 DEF TypeOK, IInv, Ticking, Path, PathTypes
  <1>2. IInv /\ Path => OneAuthorization
    <2> SUFFICES ASSUME IInv, Path, NEW n \in Attempts
                 PROVE  /\ Cardinality(Authorizations(n)) <= 1
                        /\ n < MaxAttempts /\ work[n + 1] # "none" => Authorizations(n) # {}
      BY DEF OneAuthorization
    <2>1. Authorizations(n) = {} \/ \E a : Authorizations(n) = {a}
      <3>1. n \in Nat /\ Latest \in Nat
        BY AttemptsAre DEF Path, Attempted
      <3>2. n < Latest \/ n = Latest \/ n > Latest
        BY <3>1
      <3>3. QED
        BY <3>2 DEF Path, Authorized
    <2>2. Cardinality(Authorizations(n)) <= 1
      <3>1. CASE Authorizations(n) = {}
        BY <3>1, FS_EmptySet
      <3>2. CASE \E a : Authorizations(n) = {a}
        <4>1. PICK a : Authorizations(n) = {a}
          BY <3>2
        <4>2. Cardinality({a}) = 1
          BY FS_Singleton
        <4>3. QED
          BY <4>1, <4>2
      <3>3. QED
        BY <2>1, <3>1, <3>2
    <2>3. ASSUME n < MaxAttempts, work[n + 1] # "none"
          PROVE  Authorizations(n) # {}
      <3>1. n \in Nat /\ Latest \in Nat /\ n + 1 \in Attempts
        BY <2>3, AttemptsAre, BoundsAssumption DEF Path, Attempted, Attempts
      <3>2. n + 1 <= Latest
        BY <2>3, <3>1 DEF Path, Attempted
      <3>3. QED
        BY <3>1, <3>2 DEF Path, Authorized
    <2>4. QED
      BY <2>2, <2>3
  <1>3. QED
    BY <1>1, <1>2, PathInvariance, PTL DEF Consistent

\* A ticket under local review passed the validation of its latest attempt, has no trace of a
\* failure that would be routed nor an open terminal failure, and its worktree is the one that
\* was validated, recovered or not.
THEOREM ReviewedIsClean ==
  ASSUME Orderly
  PROVE  Spec => []CleanUnderReview
  <1>1. Path => CleanUnderReview
    BY DEF Path, Standing, CleanUnderReview
  <1>2. QED
    BY <1>1, PathInvariance, PTL

\* A terminal failure is recorded of a ticket in triage only: no escalation that another one
\* overtook blocks a ticket that was repaired meanwhile.
THEOREM TriageOnly ==
  ASSUME Orderly
  PROVE  Spec => EscalatedInTriage
  <1>1. ASSUME IInv, Path, [Next]_vars, terminal'.gen # terminal.gen
        PROVE  state = "needs_triage"
    <2>1. ASSUME NEW t \in Ticks, RecordTerminal(t)
          PROVE  state = "needs_triage"
      <3>1. Blockable
        BY <1>1, <2>1 DEF RecordTerminal
      <3>2. QED
        BY <1>1, <2>1, <3>1, TerminalInTriage
    <2>2. ASSUME terminal' = terminal
          PROVE  FALSE
      BY <1>1, <2>2
    <2>3. ASSUME Resolve
          PROVE  FALSE
      BY <1>1, <2>3 DEF Resolve, IInv, Failures
    <2>4. CASE \E t \in Ticks : Start(t) \/ Die(t) \/ Stall(t)
      BY <2>2, <2>4 DEF Start, Die, Stall
    <2>5. ASSUME NEW t \in Ticks, Step(t)
          PROVE  state = "needs_triage"
      BY <2>1, <2>2, <2>5 DEF Step, ClaimNotice, Send, Mark, Reconcile, Validate, Review, WriteFeedback,
         Route, Rest, Escalate, Ask, RecordRepair, Elsewhere
    <2>6. CASE Operator
      BY <2>2, <2>3, <2>6 DEF Operator, Switch, ApproveCall, ResolveNotice, AddLocalBudget, Reopen,
         AuthorizeLocal, Adopt, AdoptTerminal, Issue, Drift, Revoke, Recover, ReconcileMarker
    <2>7. CASE UNCHANGED vars
      BY <2>2, <2>7 DEF vars
    <2>8. QED
      BY <1>1, <2>4, <2>5, <2>6, <2>7 DEF Next
  <1>2. IInv /\ Path /\ [Next]_vars => [terminal'.gen # terminal.gen => state = "needs_triage"]_vars
    BY <1>1
  <1>3. QED
    BY <1>2, PathInvariance, PTL DEF Spec, EscalatedInTriage
=============================================================================
