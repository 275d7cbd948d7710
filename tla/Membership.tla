----------------------------- MODULE Membership -----------------------------
(***************************************************************************)
(* What a domain server promises about its clients, whatever the network   *)
(* does: a client arrives once, becomes a member at most once and only if  *)
(* it is eligible, has a body of its own from then on, and once gone never *)
(* comes back.  Any number of clients may leave at once.                   *)
(***************************************************************************)
CONSTANTS Clients, Bodies, NoBody, Eligible

VARIABLES
  phase,    \* client |-> "away", "visitor", "member" or "gone"
  body      \* client |-> its avatar while it is a member

vars == <<phase, body>>

Init ==
  /\ phase = [c \in Clients |-> "away"]
  /\ body = [c \in Clients |-> NoBody]

Arrive(c) ==
  /\ phase[c] = "away"
  /\ phase' = [phase EXCEPT ![c] = "visitor"]
  /\ UNCHANGED body

Admit(c) ==
  /\ phase[c] = "visitor" /\ c \in Eligible
  /\ phase' = [phase EXCEPT ![c] = "member"]
  /\ \E b \in Bodies : /\ \A d \in Clients : body[d] # b
                       /\ body' = [body EXCEPT ![c] = b]

Leave(leavers) ==
  /\ phase' = [c \in Clients |-> IF c \in leavers THEN "gone" ELSE phase[c]]
  /\ body' = [c \in Clients |-> IF c \in leavers THEN NoBody ELSE body[c]]

Next ==
  \/ \E c \in Clients : Arrive(c) \/ Admit(c)
  \/ \E leavers \in SUBSET Clients : Leave(leavers)

Spec == Init /\ [][Next]_vars
=============================================================================
