--------------------------- MODULE TrustRegistry ---------------------------
(***************************************************************************)
(* What the trust store promises when its operations do not overlap: one   *)
(* set of approved and one of waiting clients, changed atomically, and     *)
(* handshakes answered from what these sets hold.  TrustStore implements   *)
(* it (TrustStore!Registry).                                               *)
(***************************************************************************)
CONSTANTS Clients, Tasks, NoTarget

VARIABLES
  approved,  \* clients an administrator approved and did not revoke
  pending,   \* clients that wait for approval
  asking,    \* asking[t]: the client whose handshake task t serves
  answer     \* answer[t]: the HandshakeAck status t sent it

regVars == <<approved, pending, asking, answer>>

Init ==
  /\ approved = {}
  /\ pending = {}
  /\ asking = [t \in Tasks |-> NoTarget]
  /\ answer = [t \in Tasks |-> "None"]

Ask(t, c) ==
  /\ asking' = [asking EXCEPT ![t] = c]
  /\ answer' = [answer EXCEPT ![t] = "None"]
  /\ UNCHANGED <<approved, pending>>

(* Only the request of a client that asks is registered.                   *)
Register(t) ==
  /\ answer[t] = "None"
  /\ asking[t] \in Clients \ approved
  /\ pending' = pending \cup {asking[t]}
  /\ UNCHANGED <<approved, asking, answer>>

Answer(t) ==
  /\ answer[t] = "None"
  /\ \/ /\ asking[t] \in approved
        /\ answer' = [answer EXCEPT ![t] = "Approved"]
     \/ /\ asking[t] \in pending \ approved
        /\ answer' = [answer EXCEPT ![t] = "PendingApproval"]
  /\ UNCHANGED <<approved, pending, asking>>

Approve(c) ==
  /\ c \in pending
  /\ pending' = pending \ {c}
  /\ approved' = approved \cup {c}
  /\ UNCHANGED <<asking, answer>>

Revoke(c) ==
  /\ c \in approved
  /\ approved' = approved \ {c}
  /\ UNCHANGED <<pending, asking, answer>>

Next ==
  \/ \E t \in Tasks : (\E c \in Clients : Ask(t, c)) \/ Register(t) \/ Answer(t)
  \/ \E c \in Clients : Approve(c) \/ Revoke(c)

Spec == Init /\ [][Next]_regVars
=============================================================================
