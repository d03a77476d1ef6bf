----------------------------- MODULE EventRelay -----------------------------
(***************************************************************************)
(* What a client and a server promise about input events: the client sends *)
(* none before the server has granted it a device, and the server plays    *)
(* them in the order in which the controller produced them, each once and  *)
(* none made up.  When the connection breaks, playing just stops.          *)
(* ForwardingClient implements it over Iroh.                               *)
(***************************************************************************)
EXTENDS Naturals

VARIABLES
  granted,  \* the server has given the client a device
  sent,     \* number of the last event the client has sent
  played    \* number of the last event played on the virtual device

relayVars == <<granted, sent, played>>

Init == ~ granted /\ sent = 0 /\ played = 0

Grant ==
  /\ granted' = TRUE
  /\ UNCHANGED <<sent, played>>

Produce ==
  /\ granted
  /\ sent' = sent + 1
  /\ UNCHANGED <<granted, played>>

Play ==
  /\ granted /\ played < sent
  /\ played' = played + 1
  /\ UNCHANGED <<granted, sent>>

Next == Grant \/ Produce \/ Play

Spec == Init /\ [][Next]_relayVars
=============================================================================
