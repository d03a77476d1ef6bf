------------------------------ MODULE DirectUdp ------------------------------
(***************************************************************************)
(* Direct UDP clients (client.rs 390-581), the network, and the server     *)
(* (SessionServer, server.rs 211-416) together: what becomes of sessions   *)
(* and events when datagrams are lost or overtaken, answers come late,     *)
(* clients restart and the server restarts.                                *)
(*                                                                         *)
(* An address is one run of a client: its socket is bound at 0.0.0.0:0, so *)
(* a run has an address of its own; addresses are not used twice.  A tick  *)
(* is several minutes, so within one every client sends many Pings, which  *)
(* count as one, and every datagram arrives or is lost.  Left out, because *)
(* nothing changes by them: Pings before the handshake, which find no      *)
(* route, Pongs, and answers to a client that no longer waits for one: it  *)
(* reads and skips them.                                                   *)
(***************************************************************************)
EXTENDS Naturals, Sequences, FiniteSets

CONSTANTS
  Addrs, UdpTask, Reaper, Payloads, Hosts, Metas, None, IdleLimit,
  Announce,   \* Announce[a]: the payload the client at a shakes hands with
  After,      \* After[a]: runs that end before a starts
  MaxEvents   \* bound: events a run forwards

ASSUME AnnounceAssumption == Announce \in [Addrs -> Payloads]
ASSUME AfterAssumption == After \in [Addrs -> SUBSET Addrs]
ASSUME TickAssumption == IdleLimit \in Nat /\ IdleLimit > 1
ASSUME EventsAssumption == MaxEvents \in Nat

VARIABLES
  approved, pending, sessions, routes, queue, pc, hello, peer, acks, trusted,
  reaped,     \* of the server
  phase,      \* phase[a]: where the client at a is
  granted,    \* clients that have read Approved
  sent,       \* sent[a]: number of the last event it sent
  pinged,     \* clients that sent Pings since the last tick
  net,        \* datagrams under way
  serving,    \* the datagram the UDP task serves
  settled,    \* history: their events <<a, n>> played on a device, or lost
  cut         \* history: clients that had started when the server restarted,
              \* or all of whose Pings of a tick were lost

Server == INSTANCE SessionServer WITH Conns <- {}

(* What SessionServer assumes.                                             *)
ASSUME ServerAssumption ==
  /\ IsFiniteSet(Payloads)
  /\ \A p \in Payloads : p.host \in Hosts /\ p.meta \in Metas
  /\ \A p, q \in Payloads : p.key = q.key => p.client = q.client
  /\ UdpTask # Reaper
  /\ None \notin Server!Session \cup Server!Keys \cup Payloads

server == <<approved, pending, sessions, routes, queue, pc, hello, peer, acks,
            trusted, reaped>>
client == <<phase, granted, sent, pinged>>
fate == <<settled, cut>>
vars == <<server, client, net, serving, fate>>

Datagram(a, type, n) == [addr |-> a, type |-> type, n |-> n]
Handshake(a) == Datagram(a, "Handshake", 0)
Ping(a) == Datagram(a, "Ping", 0)
Event(a, n) == Datagram(a, "Events", n)
Ack(a, status) == Datagram(a, status, 0)
Answers == {"Approved", "PendingApproval", "Rejected"}

Up == UNION {{Handshake(a), Ping(a)} \cup {Event(a, n) : n \in 1 .. MaxEvents} : a \in Addrs}
Down == {Ack(a, s) : a \in Addrs, s \in Answers}

TypeOK ==
  /\ Server!TypeOK
  /\ phase \in [Addrs -> {"wait", "ack", "forward", "away", "exited"}]
  /\ sent \in [Addrs -> 0 .. MaxEvents]
  /\ net \subseteq Up \cup Down
  /\ serving \in Up \cup {Datagram(None, "None", 0)}
  /\ serving.type # "None" <=> pc[UdpTask] # "recv"
  /\ settled \subseteq Addrs \X (1 .. MaxEvents)
  /\ granted \subseteq Addrs /\ pinged \subseteq Addrs /\ cut \subseteq Addrs

Idle == Datagram(None, "None", 0)

Init ==
  /\ Server!Init
  /\ phase = [a \in Addrs |-> "wait"]
  /\ sent = [a \in Addrs |-> 0]
  /\ granted = {} /\ pinged = {} /\ net = {} /\ serving = Idle
  /\ settled = {} /\ cut = {}

-----------------------------------------------------------------------------
(* A client.                                                               *)

To(a, next) == phase' = [phase EXCEPT ![a] = next]
Send(m) == net' = net \cup {m}
Awaited(a) == {Ack(a, s) : s \in Answers}
UnchangedServer == UNCHANGED <<server, serving>>

(* Its controller is there: it sends its one handshake.                    *)
Shake(a) ==
  /\ phase[a] = "wait" /\ \A b \in After[a] : phase[b] = "exited"
  /\ To(a, "ack")
  /\ Send(Handshake(a))
  /\ UNCHANGED <<granted, sent, pinged, fate>> /\ UnchangedServer

ReadAnswer(a, status) ==
  /\ phase[a] = "ack" /\ Ack(a, status) \in net
  /\ net' = net \ {Ack(a, status)}
  /\ IF status = "Approved"
     THEN To(a, "forward") /\ granted' = granted \cup {a}
     ELSE To(a, "exited") /\ UNCHANGED granted
  /\ UNCHANGED <<sent, pinged, fate>> /\ UnchangedServer

(* After four seconds it goes on as if it were authorized.                 *)
TimeOut(a) ==
  /\ phase[a] = "ack"
  /\ To(a, "forward")
  /\ net' = net \ Awaited(a)
  /\ UNCHANGED <<granted, sent, pinged, fate>> /\ UnchangedServer

Produce(a) ==
  /\ phase[a] = "forward" /\ sent[a] < MaxEvents
  /\ sent' = [sent EXCEPT ![a] = @ + 1]
  /\ Send(Event(a, sent'[a]))
  /\ UNCHANGED <<phase, granted, pinged, fate>> /\ UnchangedServer

(* The controller disappears and returns.                                  *)
Away(a) ==
  /\ \/ phase[a] = "forward" /\ To(a, "away")
     \/ phase[a] = "away" /\ To(a, "forward")
  /\ UNCHANGED <<granted, sent, pinged, net, fate>> /\ UnchangedServer

(* Mutant: no Pings while the controller is away.                          *)
KeepaliveDuePlugged(a) == phase[a] = "forward" /\ a \notin pinged

KeepaliveDue(a) == phase[a] \in {"forward", "away"} /\ a \notin pinged

Keepalive(a) ==
  /\ KeepaliveDue(a)
  /\ Send(Ping(a))
  /\ pinged' = pinged \cup {a}
  /\ UNCHANGED <<phase, granted, sent, fate>> /\ UnchangedServer

(* Ctrl+C, or a send is refused because no server is running.              *)
Stop(a) ==
  /\ phase[a] # "exited"
  /\ To(a, "exited")
  /\ net' = net \ Awaited(a)
  /\ pinged' = pinged \ {a}
  /\ UNCHANGED <<granted, sent, fate>> /\ UnchangedServer

(* Only events of a client that has read Approved are told apart.          *)
Settle(m) == settled \cup ({<<m.addr, m.n>>} \cap (granted \X Nat))

Lose(m) ==
  /\ m \in net
  /\ net' = net \ {m}
  /\ settled' = IF m.type = "Events" THEN Settle(m) ELSE settled
  /\ cut' = IF m.type = "Ping" /\ m.addr \in granted THEN cut \cup {m.addr} ELSE cut
  /\ UNCHANGED client /\ UnchangedServer

-----------------------------------------------------------------------------
(* The UDP loop of the server.                                             *)

(* Without a route Events and Pings change nothing.                        *)
Receive(m) ==
  /\ m \in net \cap Up /\ pc[UdpTask] = "recv"
  /\ net' = net \ {m}
  /\ \/ /\ m = Handshake(m.addr)
        /\ Server!UdpHandshake(m.addr, Announce[m.addr])
        /\ serving' = m
     \/ /\ m # Handshake(m.addr) /\ Server!UdpMessage(m.addr)
        /\ serving' = m
     \/ /\ m # Handshake(m.addr) /\ routes[m.addr] = None
        /\ UnchangedServer
  /\ UNCHANGED <<client, fate>>

Serve ==
  /\ Server!UdpServe
  /\ UNCHANGED <<client, net, serving, fate>>

Reply ==
  /\ Server!UdpPend \/ Server!UdpReply
  /\ IF phase[peer] = "ack" THEN Send(Ack(peer, acks'[peer].status)) ELSE UNCHANGED net
  /\ serving' = Idle
  /\ UNCHANGED <<client, fate>>

(* The session is touched, and Events are played on its device.            *)
Touch ==
  /\ Server!UdpTouch
  /\ settled' = IF serving.type = "Events" /\ routes[peer] \in Server!Live
                THEN Settle(serving) ELSE settled
  /\ serving' = Idle
  /\ UNCHANGED <<client, net, cut>>

Reaping ==
  /\ Server!Wake \/ Server!Reap
  /\ UNCHANGED <<client, net, serving, fate>>

Administer ==
  /\ \E c \in Server!Clients : Server!Approve(c) \/ Server!Revoke(c)
  /\ UNCHANGED <<client, net, serving, fate>>

Restart ==
  /\ Server!Restart
  /\ serving' = Idle
  /\ cut' = {a \in Addrs : phase[a] # "wait"}
  /\ UNCHANGED <<client, net, settled>>

(* Minutes pass: no handshake takes that long, no datagram is still under  *)
(* way, and every client has sent its Pings.                               *)
Tick ==
  /\ net \cap Up = {} /\ pc[UdpTask] = "recv"
  /\ \A a \in Addrs : phase[a] # "ack" /\ ~ KeepaliveDue(a)
  /\ Server!Tick
  /\ pinged' = {}
  /\ UNCHANGED <<phase, granted, sent, net, serving, fate>>

-----------------------------------------------------------------------------
UdpLoop == (\E m \in net : Receive(m)) \/ Serve \/ Reply \/ Touch

Next ==
  \/ \E a \in Addrs : \/ Shake(a) \/ TimeOut(a) \/ Produce(a) \/ Away(a)
                      \/ Keepalive(a) \/ Stop(a)
                      \/ \E s \in Answers : ReadAnswer(a, s)
  \/ \E m \in net : Lose(m)
  \/ UdpLoop \/ Reaping \/ Administer \/ Restart \/ Tick

Spec == Init /\ [][Next]_vars

(* The two tasks run whenever they can, and time passes.                   *)
FairSpec == Spec /\ WF_vars(UdpLoop) /\ WF_vars(Reaping) /\ WF_vars(Tick)

-----------------------------------------------------------------------------
(* A client that has read Approved has its session and its route for as    *)
(* long as it runs, controller there or not, unless the server restarts or *)
(* every Ping of a tick is lost: no late datagram of an earlier run, round *)
(* of the reaper or revocation takes them away (client.rs 519-578).        *)
ServedWhileAlive ==
  \A a \in Addrs :
    a \in granted \ cut /\ phase[a] # "exited" =>
       routes[a] = Announce[a].key /\ Announce[a].key \in Server!Live

(* What such a client sends is played on its device unless the network     *)
(* loses it, whatever else the one UDP loop is busy with (server.rs 395).  *)
Delivered ==
  \A a \in Addrs, n \in 1 .. MaxEvents :
    sent[a] >= n /\ a \in granted ~> <<a, n>> \in settled \/ a \in cut

(* A device whose last client is gone is removed, though the clients do not*)
(* say good-bye, their last datagrams may still be under way and nothing   *)
(* removes their routes (server.rs 216-231).                               *)
AbandonedReaped ==
  \A k \in Server!Keys :
    (\A a \in Addrs : Announce[a].key = k => phase[a] = "exited")
      ~> k \notin Server!Live
=============================================================================
