---------------------------- MODULE StageEffect ----------------------------
(***************************************************************************)
(* What a durable stage claim promises, whoever works on it: the stage is  *)
(* claimed once, its effect starts once, leaves one piece of evidence, and *)
(* the claim is completed with exactly that evidence, for good.  Leases,   *)
(* ticks, crashes and takeovers are invisible here.                        *)
(***************************************************************************)
CONSTANTS Claims, Evidence, NoEvidence

VARIABLES phase, evidence, outcome

svars == <<phase, evidence, outcome>>

Phases == {"absent", "claimed", "started", "done", "completed"}

Init ==
    /\ phase = [c \in Claims |-> "absent"]
    /\ evidence = [c \in Claims |-> NoEvidence]
    /\ outcome = [c \in Claims |-> NoEvidence]

Move(c, from, to) == phase[c] = from /\ phase' = [phase EXCEPT ![c] = to]

Claim(c) == Move(c, "absent", "claimed") /\ UNCHANGED <<evidence, outcome>>

Start(c) == Move(c, "claimed", "started") /\ UNCHANGED <<evidence, outcome>>

Leave(c) ==
    /\ phase[c] = "started"
    /\ evidence[c] = NoEvidence
    /\ \E e \in Evidence : evidence' = [evidence EXCEPT ![c] = e]
    /\ UNCHANGED <<phase, outcome>>

Adopt(c) ==
    /\ evidence[c] # NoEvidence
    /\ Move(c, "started", "done")
    /\ outcome' = [outcome EXCEPT ![c] = evidence[c]]
    /\ UNCHANGED evidence

Complete(c) == Move(c, "done", "completed") /\ UNCHANGED <<evidence, outcome>>

Next == \E c \in Claims : Claim(c) \/ Start(c) \/ Leave(c) \/ Adopt(c) \/ Complete(c)

Spec == Init /\ [][Next]_svars
=============================================================================
