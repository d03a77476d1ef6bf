--------------------------- MODULE MCSessionServer ---------------------------
(* Instances of SessionServer for TLC: one device each of two clients whose *)
(* machines have the same host name, and a second controller that takes the *)
(* place (the device path) of the first.                                    *)
EXTENDS SessionServer, TLC

CONSTANTS p1, q1, h1, pad, wheel, udp, reaper

P1 == [client |-> "p", key |-> p1, host |-> h1, meta |-> pad]
Q1 == [client |-> "q", key |-> q1, host |-> h1, meta |-> pad]
P1Wheel == [P1 EXCEPT !.meta = wheel]

TwoClients == {P1, P1Wheel, Q1}
OneDevice == {P1}
Replaced == {P1, P1Wheel}
=============================================================================
