----------------------------- MODULE MCDirectUdp -----------------------------
(* Two runs of one client with one controller, the second one after the    *)
(* first has ended; datagrams of the first may still be under way then.    *)
EXTENDS DirectUdp, TLC

CONSTANTS a1, a2, p1, h1, pad

P1 == [client |-> "p", key |-> p1, host |-> h1, meta |-> pad]
OneDevice == {P1}
AnnounceP1 == [a \in Addrs |-> P1]
Restarted == (a1 :> {}) @@ (a2 :> {a1})
=============================================================================
