---------------------------- MODULE DirectUdpProofs ----------------------------
(***************************************************************************)
(* A Direct UDP client that has read Approved keeps its route and session, *)
(* for any number of clients, devices, events and any idle limit above one *)
(* tick: ServedWhileAlive is an invariant of DirectUdp.                    *)
(*                                                                         *)
(* Routes are lost by handshakes only, and a client has shaken hands once  *)
(* and for all when an answer to it is under way (Once).  Sessions are     *)
(* lost by reaping only, and the session of such a client is at most a     *)
(* tick old: if it is, the Ping of this tick is still to come or under way *)
(* (Kept).                                                                 *)
(*                                                                         *)
(* The server among these clients is SessionServer (ServerRefined), with   *)
(* all that SessionServerProofs shows of it.                               *)
(***************************************************************************)
EXTENDS DirectUdp, FiniteSetTheorems, TLAPS

Key(a) == Announce[a].key
Age(a) == sessions[Key(a)].idle
Served(a) == routes[a] = Key(a) /\ Key(a) \in Server!Live

Table == [Server!Keys -> Server!Session \cup {None}]
Places == {"recv", "sleep", "reap", "pend", "serve", "ack", "reject", "touch"}
Phases == {"wait", "ack", "forward", "away", "exited"}

Types ==
  /\ phase \in [Addrs -> Phases]
  /\ routes \in [Addrs -> Server!Keys \cup {None}]
  /\ sessions \in Table
  /\ pc \in [{UdpTask, Reaper} -> Places]
  /\ hello \in [{UdpTask, Reaper} -> Payloads \cup {None}]
  /\ acks \in [Addrs -> [status : Server!Statuses, payload : Payloads \cup {None}]]
  /\ granted \subseteq Addrs

(* The UDP task answers the handshake it has taken from the socket, or     *)
(* touches the session of the message it has taken.                        *)
Answering == pc[UdpTask] \in {"serve", "pend", "ack", "reject"}

Control ==
  /\ pc[UdpTask] = "recv" => serving = Idle
  /\ Answering => /\ peer \in Addrs /\ hello[UdpTask] = Announce[peer]
                  /\ serving = Handshake(peer)
  /\ pc[UdpTask] = "touch" =>
       peer \in Addrs /\ (serving = Ping(peer) \/ \E n \in Nat : serving = Event(peer, n))
  /\ Answering \/ pc[UdpTask] \in {"recv", "touch"}

(* An answer to the client at a is under way.                              *)
Under(a) == \E s \in Answers : Ack(a, s) \in net

Once ==
  \A a \in Addrs :
    /\ phase[a] = "wait" => Handshake(a) \notin net /\ serving # Handshake(a)
    /\ Handshake(a) \in net => serving # Handshake(a)
    /\ Handshake(a) \in net \/ serving = Handshake(a) => ~ Under(a) /\ a \notin granted
    /\ Under(a) => phase[a] = "ack"
    /\ \A s, u \in Answers : Ack(a, s) \in net /\ Ack(a, u) \in net => s = u
    /\ a \in granted => phase[a] \in {"forward", "away", "exited"}

(* The Ping of the client at a has been dealt with in this tick.           *)
Settled(a) == a \in pinged /\ Ping(a) \notin net /\ serving # Ping(a)

Kept ==
  /\ pc[UdpTask] = "ack" => Served(peer) /\ Age(peer) = 0
  /\ \A a \in Addrs \ cut : Ack(a, "Approved") \in net => Served(a) /\ Age(a) = 0
  /\ \A a \in granted \ cut :
       phase[a] # "exited" => Served(a) /\ Age(a) <= 1 /\ (Settled(a) => Age(a) = 0)

Inv == Types /\ Control /\ Once /\ Kept

-----------------------------------------------------------------------------
(* Constants and datagrams.                                                *)

LEMMA KeyType ==
  /\ \A a \in Addrs : Announce[a] \in Payloads /\ Key(a) \in Server!Keys /\ Key(a) # None
  /\ None \notin Server!Keys /\ None \notin Server!Session /\ None \notin Payloads
BY AnnounceAssumption, ServerAssumption DEF Key, Server!Keys

LEMMA Distinct ==
  \A a, b :
    /\ Handshake(a) = Handshake(b) => a = b
    /\ Ping(a) = Ping(b) => a = b
    /\ Handshake(a) # Ping(b) /\ Handshake(a) # Idle /\ Ping(a) # Idle
    /\ \A n : Event(a, n) # Handshake(b) /\ Event(a, n) # Ping(b)
    /\ \A s \in Answers : Ack(a, s) # Handshake(b) /\ Ack(a, s) # Ping(b)
    /\ \A s \in Answers : \A n : Ack(a, s) # Event(b, n)
    /\ \A s, u \in Answers : Ack(a, s) = Ack(b, u) => a = b /\ s = u
BY DEF Handshake, Ping, Event, Ack, Idle, Datagram, Answers

(* What a client sends is a handshake, a Ping or an event of it.           *)
LEMMA UpForms ==
  ASSUME NEW m \in Up
  PROVE  /\ m.addr \in Addrs
         /\ m = Handshake(m.addr) \/ m = Ping(m.addr) \/ \E n \in Nat : m = Event(m.addr, n)
<1>1. PICK a \in Addrs : m \in {Handshake(a), Ping(a)} \cup {Event(a, n) : n \in 1 .. MaxEvents}
  BY DEF Up
<1>2. m.addr = a
  BY <1>1 DEF Handshake, Ping, Event, Datagram
<1>3. QED
  BY <1>1, <1>2, EventsAssumption

LEMMA Approving == "Approved" \in Answers
BY DEF Answers

LEMMA UpNoAck == \A a, s : s \in Answers => Ack(a, s) \notin Up
BY UpForms, Distinct

-----------------------------------------------------------------------------
(* Sessions.                                                               *)

LEMMA NewSession ==
  ASSUME NEW p \in Payloads
  PROVE  Server!NewSession(p) \in Server!Session /\ Server!NewSession(p).idle = 0
<1> DEFINE key == [q \in Payloads |-> q.key]
<1>1. key \in Surjection(Payloads, Server!Keys)
  BY DEF Surjection, Server!Keys
<1>2. IsFiniteSet(Server!Keys)
  BY <1>1, ServerAssumption, FS_Surjection
<1>3. Server!SameHost(p.host) \in SUBSET Server!Keys
  BY DEF Server!SameHost, Server!Live
<1>4. Cardinality(Server!SameHost(p.host)) \in Nat
  BY <1>2, <1>3, FS_Subset, FS_CardinalityType
<1>5. p.host \in Hosts /\ p.meta \in Metas
  BY ServerAssumption
<1>6. Cardinality(Server!SameHost(p.host)) = Server!Cardinality(Server!SameHost(p.host))
  BY DEF Cardinality, Server!Cardinality
<1>7. Server!Cardinality(Server!SameHost(p.host)) \in Nat
  BY <1>4, <1>6
<1> HIDE DEF key
<1>8. QED
  BY <1>5, <1>7, TickAssumption DEF Server!NewSession, Server!Session

LEMMA Untouched ==
  ASSUME UNCHANGED <<sessions, routes>>
  PROVE  \A a : (Served(a)' <=> Served(a)) /\ Age(a)' = Age(a)
BY DEF Served, Age, Key, Server!Live, Server!Keys

(* Touching or creating the session of one key does not disturb others.    *)
LEMMA Written ==
  ASSUME Types, NEW k \in Server!Keys, NEW s \in Server!Session, s.idle = 0,
         sessions' = [sessions EXCEPT ![k] = s]
  PROVE  /\ sessions' \in Table
         /\ Server!Live' = Server!Live \cup {k}
         /\ sessions'[k].idle = 0
         /\ \A l \in Server!Keys : l # k => sessions'[l] = sessions[l]
BY KeyType DEF Types, Table, Server!Live, Server!Keys

LEMMA Touched ==
  ASSUME Types, NEW k \in Server!Live, Server!Touch(k)
  PROVE  /\ sessions' \in Table
         /\ Server!Live' = Server!Live
         /\ sessions'[k].idle = 0
         /\ \A l \in Server!Keys : l # k => sessions'[l] = sessions[l]
<1> DEFINE s == [sessions[k] EXCEPT !.idle = 0]
<1>1. k \in Server!Keys /\ sessions[k] \in Server!Session
  BY DEF Server!Live, Types, Table
<1>2. s \in Server!Session /\ s.idle = 0
  BY <1>1, TickAssumption DEF Server!Session
<1>3. sessions' = [sessions EXCEPT ![k] = s]
  BY DEF Server!Touch
<1> HIDE DEF s
<1>4. QED
  BY <1>1, <1>2, <1>3, Written DEF Server!Live

-----------------------------------------------------------------------------
(* What carries over.                                                      *)

(* Unless a handshake is sent or taken or an answer sent.                  *)
LEMMA OnceStill ==
  ASSUME Once,
         \A b \in Addrs : phase'[b] = "wait" => phase[b] = "wait",
         \A b \in Addrs : Handshake(b) \in net' => Handshake(b) \in net,
         \A b \in Addrs : serving' = Handshake(b) => serving = Handshake(b),
         \A b \in Addrs, s \in Answers : Ack(b, s) \in net' => Ack(b, s) \in net,
         \A b \in Addrs : Under(b)' => phase'[b] = "ack",
         \A b \in granted' \cap Addrs : /\ b \in granted \/ Under(b)
                                      /\ phase'[b] \in {"forward", "away", "exited"}
  PROVE  Once'
<1>1. \A b \in Addrs : Under(b)' => Under(b)
  BY DEF Under
<1>2. QED
  BY <1>1 DEF Once

(* While no route, session or age changes.                                 *)
LEMMA KeptStill ==
  ASSUME Kept, UNCHANGED <<sessions, routes>>,
         pc'[UdpTask] = "ack" => pc[UdpTask] = "ack" /\ peer' = peer,
         \A b \in Addrs \ cut' :
           Ack(b, "Approved") \in net' => \/ Ack(b, "Approved") \in net /\ b \notin cut
                                          \/ Served(b) /\ Age(b) = 0,
         \A b \in granted' \ cut' : phase'[b] # "exited" =>
           \/ b \in granted \ cut /\ phase[b] # "exited" /\ (Settled(b)' => Settled(b))
           \/ b \in Addrs \ cut /\ Ack(b, "Approved") \in net
  PROVE  Kept'
<1>1. \A b : (Served(b)' <=> Served(b)) /\ Age(b)' = Age(b)
  BY Untouched
<1>2. (pc[UdpTask] = "ack" => Served(peer) /\ Age(peer) = 0)'
  BY <1>1 DEF Kept
<1>3. (\A b \in Addrs \ cut : Ack(b, "Approved") \in net => Served(b) /\ Age(b) = 0)'
  BY <1>1 DEF Kept
<1>4. ASSUME NEW b \in granted' \ cut', phase'[b] # "exited"
      PROVE  Served(b)' /\ Age(b)' <= 1 /\ (Settled(b)' => Age(b)' = 0)
  BY <1>1, <1>4 DEF Kept
<1>5. QED
  BY <1>2, <1>3, <1>4 DEF Kept

LEMMA ServerStill ==
  ASSUME Inv, UnchangedServer
  PROVE  /\ UNCHANGED <<sessions, routes, pc, peer, serving>>
         /\ Control'
         /\ phase' \in [Addrs -> Phases] /\ granted' \subseteq Addrs => Types'
BY DEF Inv, Types, Control, Answering, UnchangedServer, server

-----------------------------------------------------------------------------
(* Clients and the network.                                                *)

LEMMA ShakeStep ==
  ASSUME Inv, NEW a \in Addrs, Shake(a)
  PROVE  Inv'
<1>1. /\ phase[a] = "wait"
      /\ phase' = [phase EXCEPT ![a] = "ack"]
      /\ net' = net \cup {Handshake(a)}
      /\ UNCHANGED <<granted, pinged, cut>> /\ UnchangedServer
  BY DEF Shake, To, Send, fate
<1>2. Types' /\ Control' /\ UNCHANGED <<sessions, routes, pc, peer, serving>>
  <2>1. phase' \in [Addrs -> Phases] /\ granted' \subseteq Addrs
    BY <1>1 DEF Inv, Types, Phases
  <2>2. QED
    BY <1>1, <2>1, ServerStill
<1>3. \A b \in Addrs : /\ b # a => phase'[b] = phase[b]
                       /\ phase'[a] = "ack"
                       /\ Handshake(b) \in net' <=> Handshake(b) \in net \/ b = a
                       /\ Ping(b) \in net' <=> Ping(b) \in net
                       /\ \A s \in Answers : Ack(b, s) \in net' <=> Ack(b, s) \in net
  BY <1>1, Distinct DEF Inv, Types
<1>4. \A b : Under(b)' <=> Under(b)
  BY <1>1, Distinct DEF Under
<1>5. Once'
  BY <1>1, <1>2, <1>3, <1>4 DEF Inv, Once
<1>6. Kept'
  <2>1. \A b \in granted' \ cut' : phase'[b] # "exited" =>
          \/ b \in granted \ cut /\ phase[b] # "exited" /\ (Settled(b)' => Settled(b))
          \/ b \in Addrs \ cut /\ Ack(b, "Approved") \in net
    BY <1>1, <1>2, <1>3 DEF Inv, Types, Once, Settled
  <2>2. \A b \in Addrs \ cut' :
          Ack(b, "Approved") \in net' => \/ Ack(b, "Approved") \in net /\ b \notin cut
                                         \/ Served(b) /\ Age(b) = 0
    BY <1>1, <1>3, Approving
  <2>3. Kept /\ UNCHANGED <<sessions, routes>>
    BY <1>2 DEF Inv
  <2>4. pc'[UdpTask] = "ack" => pc[UdpTask] = "ack" /\ peer' = peer
    BY <1>2
  <2>5. QED
    BY <2>1, <2>2, <2>3, <2>4, KeptStill
<1>7. QED
  BY <1>2, <1>5, <1>6 DEF Inv

(* Every other step of a client sends a Ping or an event, or nothing; some *)
(* take the answers to it out of the network.                              *)
LEMMA ClientStep ==
  ASSUME Inv, UnchangedServer, cut' = cut, NEW a \in Addrs,
         phase' = [phase EXCEPT ![a] = phase'[a]],
         phase'[a] \in Phases, phase'[a] = "wait" => phase[a] = "wait",
         granted' = granted \/ (granted' = granted \cup {a} /\ phase'[a] = "forward"
                                  /\ Ack(a, "Approved") \in net),
         a \in granted => phase'[a] \in {"forward", "away", "exited"},
         phase[a] = "exited" => phase'[a] = "exited",
         pinged' \subseteq pinged \cup {a}, a \in pinged' \ pinged => Ping(a) \in net',
         \A b \in Addrs : Handshake(b) \in net' => Handshake(b) \in net,
         \A b \in Addrs : Ping(b) \in net => Ping(b) \in net',
         \A b \in Addrs, s \in Answers : Ack(b, s) \in net' => Ack(b, s) \in net,
         phase'[a] # "ack" => ~ Under(a)'
  PROVE  Inv'
<1>1. phase \in [Addrs -> Phases] /\ granted \subseteq Addrs
  BY DEF Inv, Types
<1>2. phase' \in [Addrs -> Phases] /\ granted' \subseteq Addrs
  BY <1>1
<1>3. Types' /\ Control' /\ UNCHANGED <<sessions, routes, pc, peer, serving>>
  BY <1>2, ServerStill
<1>4. \A b \in Addrs : b # a => phase'[b] = phase[b]
  BY <1>1
<1>5. \A b \in Addrs : Under(b)' => Under(b)
  BY DEF Under
<1>6. Ack(a, "Approved") \in net => Under(a)
  BY DEF Under, Answers
<1>7. Once'
  <2>1. \A b \in Addrs : Under(b)' => phase'[b] = "ack"
    BY <1>4, <1>5 DEF Inv, Once
  <2>2. \A b \in granted' \cap Addrs : /\ b \in granted \/ Under(b)
                                     /\ phase'[b] \in {"forward", "away", "exited"}
    BY <1>4, <1>6 DEF Inv, Once
  <2>3. \A b \in Addrs : phase'[b] = "wait" => phase[b] = "wait"
    BY <1>4
  <2>4. QED
    BY <1>3, <2>1, <2>2, <2>3, OnceStill DEF Inv
<1>8. Kept'
  <2>1. ASSUME NEW b \in granted' \ cut', phase'[b] # "exited"
        PROVE  \/ b \in granted \ cut /\ phase[b] # "exited" /\ (Settled(b)' => Settled(b))
               \/ b \in Addrs \ cut /\ Ack(b, "Approved") \in net
    BY <1>2, <1>3, <1>4, <2>1 DEF Settled
  <2>2. \A b \in Addrs \ cut' :
          Ack(b, "Approved") \in net' => \/ Ack(b, "Approved") \in net /\ b \notin cut
                                         \/ Served(b) /\ Age(b) = 0
    BY Approving
  <2>3. Kept /\ UNCHANGED <<sessions, routes>>
    BY <1>3 DEF Inv
  <2>4. pc'[UdpTask] = "ack" => pc[UdpTask] = "ack" /\ peer' = peer
    BY <1>3
  <2>5. \A b \in granted' \ cut' : phase'[b] # "exited" =>
          \/ b \in granted \ cut /\ phase[b] # "exited" /\ (Settled(b)' => Settled(b))
          \/ b \in Addrs \ cut /\ Ack(b, "Approved") \in net
    BY <2>1
  <2>6. QED
    BY <2>2, <2>3, <2>4, <2>5, KeptStill
<1>9. QED
  BY <1>3, <1>7, <1>8 DEF Inv

LEMMA AcksOut ==
  ASSUME NEW a, net' = net \ Awaited(a)
  PROVE  /\ ~ Under(a)'
         /\ \A b : Handshake(b) \in net' <=> Handshake(b) \in net
         /\ \A b : Ping(b) \in net' <=> Ping(b) \in net
         /\ \A b, s : Ack(b, s) \in net' => Ack(b, s) \in net
BY Distinct DEF Awaited, Under

LEMMA ReadStep ==
  ASSUME Inv, NEW a \in Addrs, NEW s \in Answers, ReadAnswer(a, s)
  PROVE  Inv'
<1>1. /\ phase[a] = "ack" /\ Ack(a, s) \in net /\ net' = net \ {Ack(a, s)}
      /\ UNCHANGED <<pinged, cut>> /\ UnchangedServer
  BY DEF ReadAnswer, fate
<1>2. \/ s = "Approved" /\ To(a, "forward") /\ granted' = granted \cup {a}
      \/ To(a, "exited") /\ granted' = granted
  BY DEF ReadAnswer
<1>3. phase \in [Addrs -> Phases]
  BY DEF Inv, Types
<1>4. phase' = [phase EXCEPT ![a] = phase'[a]] /\ phase'[a] \in {"forward", "exited"}
  BY <1>2, <1>3 DEF To
<1>5. granted' = granted \/ (granted' = granted \cup {a} /\ phase'[a] = "forward"
                               /\ Ack(a, "Approved") \in net)
  BY <1>1, <1>2, <1>3 DEF To
<1>6. /\ \A b \in Addrs : Handshake(b) \in net' => Handshake(b) \in net
      /\ \A b \in Addrs : Ping(b) \in net => Ping(b) \in net'
      /\ \A b \in Addrs, u \in Answers : Ack(b, u) \in net' => Ack(b, u) \in net
  BY <1>1, Distinct
<1>7. ~ Under(a)'
  <2>1. \A u \in Answers : Ack(a, u) \in net => u = s
    BY <1>1 DEF Inv, Once
  <2>2. QED
    BY <1>1, <2>1 DEF Under
<1>8. a \notin granted
  BY <1>1 DEF Inv, Once
<1>9. phase'[a] \in Phases /\ phase'[a] # "wait" /\ phase[a] # "exited"
  BY <1>1, <1>4 DEF Phases
<1>10. QED
  BY <1>1, <1>4, <1>5, <1>6, <1>7, <1>8, <1>9, ClientStep

LEMMA TimeOutStep ==
  ASSUME Inv, NEW a \in Addrs, TimeOut(a)
  PROVE  Inv'
<1>1. /\ phase[a] = "ack" /\ net' = net \ Awaited(a)
      /\ UNCHANGED <<granted, pinged, cut>> /\ UnchangedServer
  BY DEF TimeOut, fate
<1>2. phase' = [phase EXCEPT ![a] = phase'[a]] /\ phase'[a] = "forward"
  BY DEF TimeOut, To, Inv, Types
<1>3. phase'[a] \in Phases
  BY <1>2 DEF Phases
<1>4. QED
  BY <1>1, <1>2, <1>3, AcksOut, ClientStep

LEMMA ProduceStep ==
  ASSUME Inv, NEW a \in Addrs, Produce(a)
  PROVE  Inv'
<1>1. /\ phase[a] = "forward" /\ net' = net \cup {Event(a, sent'[a])}
      /\ UNCHANGED <<phase, granted, pinged, cut>> /\ UnchangedServer
  BY DEF Produce, Send, fate
<1>2. phase' = [phase EXCEPT ![a] = phase'[a]] /\ phase'[a] \in Phases
  BY <1>1 DEF Inv, Types
<1>3. /\ \A b \in Addrs : Handshake(b) \in net' => Handshake(b) \in net
      /\ \A b \in Addrs, u \in Answers : Ack(b, u) \in net' => Ack(b, u) \in net
  BY <1>1, Distinct
<1>4. ~ Under(a)'
  BY <1>1, <1>3 DEF Inv, Once, Under
<1>5. QED
  BY <1>1, <1>2, <1>3, <1>4, ClientStep

LEMMA AwayStep ==
  ASSUME Inv, NEW a \in Addrs, Away(a)
  PROVE  Inv'
<1>1. UNCHANGED <<granted, pinged, net, cut>> /\ UnchangedServer
  BY DEF Away, fate
<1>2. /\ phase[a] \in {"forward", "away"} /\ phase'[a] \in {"forward", "away"}
      /\ phase' = [phase EXCEPT ![a] = phase'[a]]
  BY DEF Away, To, Inv, Types
<1>3. phase'[a] \in Phases
  BY <1>2 DEF Phases
<1>4. ~ Under(a)'
  BY <1>1, <1>2 DEF Inv, Once, Under
<1>5. QED
  BY <1>1, <1>2, <1>3, <1>4, ClientStep

LEMMA KeepaliveStep ==
  ASSUME Inv, NEW a \in Addrs, Keepalive(a)
  PROVE  Inv'
<1>1. /\ phase[a] \in {"forward", "away"} /\ net' = net \cup {Ping(a)}
      /\ pinged' = pinged \cup {a}
      /\ UNCHANGED <<phase, granted, cut>> /\ UnchangedServer
  BY DEF Keepalive, KeepaliveDue, Send, fate
<1>2. phase' = [phase EXCEPT ![a] = phase'[a]] /\ phase'[a] \in Phases
  BY <1>1 DEF Inv, Types
<1>3. /\ \A b \in Addrs : Handshake(b) \in net' => Handshake(b) \in net
      /\ \A b \in Addrs, u \in Answers : Ack(b, u) \in net' => Ack(b, u) \in net
  BY <1>1, Distinct
<1>4. ~ Under(a)'
  BY <1>1, <1>3 DEF Inv, Once, Under
<1>5. QED
  BY <1>1, <1>2, <1>3, <1>4, ClientStep

LEMMA StopStep ==
  ASSUME Inv, NEW a \in Addrs, Stop(a)
  PROVE  Inv'
<1>1. /\ net' = net \ Awaited(a) /\ pinged' = pinged \ {a}
      /\ UNCHANGED <<granted, cut>> /\ UnchangedServer
  BY DEF Stop, fate
<1>2. phase' = [phase EXCEPT ![a] = phase'[a]] /\ phase'[a] = "exited"
  BY DEF Stop, To, Inv, Types
<1>3. phase'[a] \in Phases
  BY <1>2 DEF Phases
<1>4. QED
  BY <1>1, <1>2, <1>3, AcksOut, ClientStep

LEMMA LoseStep ==
  ASSUME Inv, NEW m \in net, Lose(m)
  PROVE  Inv'
<1>1. /\ net' = net \ {m} /\ UNCHANGED <<phase, granted, pinged>> /\ UnchangedServer
      /\ cut' = cut \/ cut' = cut \cup {m.addr}
  BY DEF Lose, client
<1>2. Types' /\ Control' /\ UNCHANGED <<sessions, routes, pc, peer, serving>>
  BY <1>1, ServerStill DEF Inv, Types
<1>3. \A b : Under(b)' => Under(b)
  BY <1>1 DEF Under
<1>4. Once'
  BY <1>1, <1>2, <1>3, OnceStill DEF Inv, Once
<1>5. \A b \in granted \ cut' : Ping(b) \in net => Ping(b) \in net'
  <2>1. SUFFICES ASSUME NEW b \in granted \ cut', m = Ping(b)
                 PROVE  FALSE
    BY <1>1
  <2>2. m.type = "Ping" /\ m.addr = b
    BY <2>1 DEF Ping, Datagram
  <2>3. QED
    BY <2>1, <2>2 DEF Lose
<1>6. Kept'
  <2>1. \A b \in granted' \ cut' : phase'[b] # "exited" =>
          \/ b \in granted \ cut /\ phase[b] # "exited" /\ (Settled(b)' => Settled(b))
          \/ b \in Addrs \ cut /\ Ack(b, "Approved") \in net
    BY <1>1, <1>2, <1>5 DEF Settled
  <2>2. \A b \in Addrs \ cut' :
          Ack(b, "Approved") \in net' => \/ Ack(b, "Approved") \in net /\ b \notin cut
                                         \/ Served(b) /\ Age(b) = 0
    BY <1>1
  <2>3. Kept /\ UNCHANGED <<sessions, routes>>
    BY <1>2 DEF Inv
  <2>4. pc'[UdpTask] = "ack" => pc[UdpTask] = "ack" /\ peer' = peer
    BY <1>2
  <2>5. QED
    BY <2>1, <2>2, <2>3, <2>4, KeptStill
<1>7. QED
  BY <1>2, <1>4, <1>6 DEF Inv

-----------------------------------------------------------------------------
(* The UDP loop.                                                           *)

LEMMA TakeHandshake ==
  ASSUME Inv, NEW a \in Addrs, Handshake(a) \in net, net' = net \ {Handshake(a)},
         Server!UdpHandshake(a, Announce[a]), serving' = Handshake(a), UNCHANGED <<client, fate>>
  PROVE  Inv'
<1>1. /\ pc[UdpTask] = "recv" /\ serving = Idle
      /\ routes' = [routes EXCEPT ![a] = None] /\ peer' = a
      /\ acks' = [acks EXCEPT ![a] = [status |-> "None", payload |-> Announce[a]]]
      /\ hello' = [hello EXCEPT ![UdpTask] = Announce[a]]
      /\ pc' = [pc EXCEPT ![UdpTask] = "serve"] \/ pc' = [pc EXCEPT ![UdpTask] = "pend"]
      /\ UNCHANGED <<sessions, phase, granted, pinged, cut>>
  BY DEF Inv, Control, Server!UdpHandshake, Server!Admit, Server!GoTo, client, fate
<1>2. Types'
  <2>1. [status |-> "None", payload |-> Announce[a]]
          \in [status : Server!Statuses, payload : Payloads \cup {None}]
    BY KeyType DEF Server!Statuses
  <2>2. QED
    BY <1>1, <2>1, KeyType DEF Inv, Types, Places
<1>3. pc'[UdpTask] \in {"serve", "pend"} /\ hello'[UdpTask] = Announce[a]
  BY <1>1 DEF Inv, Types
<1>4. Control'
  BY <1>1, <1>3 DEF Control, Answering
<1>5. \A b : /\ Handshake(b) \in net' <=> Handshake(b) \in net /\ b # a
             /\ Ping(b) \in net' <=> Ping(b) \in net
             /\ \A u \in Answers : Ack(b, u) \in net' <=> Ack(b, u) \in net
             /\ serving' = Handshake(b) <=> b = a
             /\ serving' # Ping(b) /\ serving # Ping(b)
  BY <1>1, Distinct
<1>6. \A b : Under(b)' <=> Under(b)
  BY <1>5 DEF Under
<1>7. Once'
  BY <1>1, <1>5, <1>6 DEF Inv, Once
<1>8. ~ Under(a) /\ a \notin granted
  BY DEF Inv, Once
<1>9. \A b \in Addrs : Age(b)' = Age(b) /\ (b # a => (Served(b)' <=> Served(b)))
  BY <1>1 DEF Age, Served, Key, Inv, Types, Server!Live, Server!Keys
<1>10. \A b : Settled(b)' <=> Settled(b)
  BY <1>1, <1>5 DEF Settled
<1>11. \A b \in Addrs : Ack(b, "Approved") \in net' => Ack(b, "Approved") \in net /\ b # a
  BY <1>5, <1>8, Approving DEF Under
<1>12. Kept'
  <2>1. (\A b \in Addrs \ cut : Ack(b, "Approved") \in net => Served(b) /\ Age(b) = 0)'
    BY <1>1, <1>9, <1>11 DEF Inv, Kept
  <2>2. (\A b \in granted \ cut :
          phase[b] # "exited" => Served(b) /\ Age(b) <= 1 /\ (Settled(b) => Age(b) = 0))'
    BY <1>1, <1>8, <1>9, <1>10 DEF Inv, Types, Kept
  <2>3. QED
    BY <1>3, <2>1, <2>2 DEF Kept
<1>13. QED
  BY <1>2, <1>4, <1>7, <1>12 DEF Inv

LEMMA TakeMessage ==
  ASSUME Inv, NEW a \in Addrs, NEW m \in net, net' = net \ {m},
         m = Ping(a) \/ \E n \in Nat : m = Event(a, n),
         Server!UdpMessage(a), serving' = m, UNCHANGED <<client, fate>>
  PROVE  Inv'
<1>1. /\ pc[UdpTask] = "recv" /\ serving = Idle /\ peer' = a
      /\ pc' = [pc EXCEPT ![UdpTask] = "touch"]
      /\ UNCHANGED <<sessions, routes, hello, acks, phase, granted, pinged, cut>>
  BY DEF Inv, Control, Server!UdpMessage, Server!GoTo, client, fate
<1>2. Types' /\ pc'[UdpTask] = "touch"
  BY <1>1 DEF Inv, Types, Places
<1>3. Control'
  BY <1>1, <1>2 DEF Control, Answering
<1>4. \A b : /\ serving' # Handshake(b) /\ serving # Ping(b)
             /\ Ping(b) \in net => Ping(b) \in net' \/ serving' = Ping(b)
  BY <1>1, Distinct
<1>5. Once'
  <2>1. \A b \in Addrs : Under(b)' => Under(b)
    BY DEF Under
  <2>2. QED
    BY <1>1, <1>4, <2>1, OnceStill DEF Inv, Once
<1>6. \A b : Settled(b)' => Settled(b)
  BY <1>1, <1>4 DEF Settled
<1>7. Kept'
  BY <1>1, <1>2, <1>6, KeptStill DEF Inv
<1>8. QED
  BY <1>2, <1>3, <1>5, <1>7 DEF Inv

(* A Ping or event from an address without a route.                        *)
LEMMA TakeStray ==
  ASSUME Inv, NEW a \in Addrs, NEW m \in net, net' = net \ {m},
         m = Ping(a) \/ \E n \in Nat : m = Event(a, n),
         routes[a] = None, UnchangedServer, UNCHANGED <<client, fate>>
  PROVE  Inv'
<1>1. UNCHANGED <<phase, granted, pinged, cut>>
  BY DEF client, fate
<1>2. Types' /\ Control' /\ UNCHANGED <<sessions, routes, pc, peer, serving>>
  BY <1>1, ServerStill DEF Inv, Types
<1>3. Once'
  <2>1. \A b \in Addrs : Under(b)' => Under(b)
    BY DEF Under
  <2>2. QED
    BY <1>1, <1>2, <2>1, OnceStill DEF Inv, Once
<1>4. \A b \in granted \ cut : phase[b] # "exited" => (Settled(b)' => Settled(b))
  <2>1. SUFFICES ASSUME NEW b \in granted \ cut, phase[b] # "exited", m = Ping(b)
                 PROVE  FALSE
    BY <1>1, <1>2 DEF Settled
  <2>2. b = a /\ b \in Addrs
    BY <2>1, Distinct DEF Inv, Types
  <2>3. QED
    BY <2>1, <2>2, KeyType DEF Inv, Kept, Served
<1>5. Kept'
  BY <1>1, <1>2, <1>4, KeptStill DEF Inv
<1>6. QED
  BY <1>2, <1>3, <1>5 DEF Inv

LEMMA ReceiveStep ==
  ASSUME Inv, NEW m \in net, Receive(m)
  PROVE  Inv'
<1> DEFINE a == m.addr
<1>1. m \in Up /\ net' = net \ {m} /\ UNCHANGED <<client, fate>>
  BY DEF Receive
<1>2. a \in Addrs /\ (m = Handshake(a) \/ m = Ping(a) \/ \E n \in Nat : m = Event(a, n))
  BY <1>1, UpForms
<1>3. CASE m = Handshake(a) /\ Server!UdpHandshake(a, Announce[a]) /\ serving' = m
  BY <1>1, <1>2, <1>3, TakeHandshake
<1>4. CASE m # Handshake(a) /\ Server!UdpMessage(a) /\ serving' = m
  BY <1>1, <1>2, <1>4, TakeMessage
<1>5. CASE m # Handshake(a) /\ routes[a] = None /\ UnchangedServer
  BY <1>1, <1>2, <1>5, TakeStray
<1>6. QED
  BY <1>3, <1>4, <1>5 DEF Receive

(* While it answers, or touches a session, or reaps, clients and datagrams *)
(* stay.                                                                   *)
LEMMA LoopOnce ==
  ASSUME Once, UNCHANGED <<client, net, fate>>, serving' = serving \/ serving' = Idle
  PROVE  Once'
<1>1. UNCHANGED <<phase, granted>>
  BY DEF client
<1>2. \A b : (serving' = Handshake(b) => serving = Handshake(b)) /\ (Under(b)' <=> Under(b))
  BY Distinct DEF Under
<1>3. QED
  BY <1>1, <1>2, OnceStill DEF Once

LEMMA ServeStep ==
  ASSUME Inv, Serve
  PROVE  Inv'
<1> DEFINE p == hello[UdpTask]
           k == Key(peer)
<1>1. /\ pc[UdpTask] = "serve"
      /\ peer \in Addrs /\ p = Announce[peer] /\ serving = Handshake(peer)
      /\ p \in Payloads /\ p.key = k /\ k \in Server!Keys
  BY KeyType DEF Serve, Server!UdpServe, Server!Serve, Inv, Control, Answering, Key
<1>2. /\ UNCHANGED <<hello, peer, acks, serving, net, phase, granted, pinged, cut>>
      /\ UNCHANGED <<client, fate>>
  BY DEF Serve, Server!UdpServe, Server!Serve, client, fate
<1>3. \/ pc' = [pc EXCEPT ![UdpTask] = "ack"]
      \/ pc' = [pc EXCEPT ![UdpTask] = "reject"] /\ sessions' = sessions
  BY DEF Serve, Server!UdpServe, Server!Serve, Server!GoTo
<1>4. pc'[UdpTask] \in {"ack", "reject"} /\ pc' \in [{UdpTask, Reaper} -> Places]
  BY <1>3 DEF Inv, Types, Places
<1>5. routes' = IF pc'[UdpTask] = "ack" THEN [routes EXCEPT ![peer] = k] ELSE routes
  BY <1>1 DEF Serve, Server!UdpServe
<1>6. Control'
  BY <1>1, <1>2, <1>4 DEF Control, Answering
<1>7. Once'
  BY <1>2, LoopOnce DEF Inv
<1>8. CASE pc'[UdpTask] = "ack"
  <2>1. /\ sessions' \in Table
        /\ Server!Live' = Server!Live \cup {k}
        /\ sessions'[k].idle = 0
        /\ \A l \in Server!Keys : l # k => sessions'[l] = sessions[l]
    <3>1. CASE k \in Server!Live /\ Server!Touch(k)
      BY <3>1, Touched DEF Inv
    <3>2. CASE sessions' = [sessions EXCEPT ![k] = Server!NewSession(p)]
      BY <1>1, <3>2, NewSession, Written DEF Inv
    <3>3. QED
      BY <1>1, <1>3, <1>8, <3>1, <3>2 DEF Serve, Server!UdpServe, Server!Serve, Server!GoTo, Inv, Types
  <2>2. routes' = [routes EXCEPT ![peer] = k]
    BY <1>5, <1>8
  <2>3. Types'
    BY <1>1, <1>2, <1>4, <2>1, <2>2 DEF Inv, Types
  <2>4. Served(peer)' /\ Age(peer)' = 0
    BY <1>1, <1>2, <2>1, <2>2 DEF Served, Age, Key, Inv, Types
  <2>5. \A b \in Addrs : Served(b) => /\ Served(b)'
                                      /\ Age(b)' = Age(b) \/ Age(b)' = 0
    BY <1>1, <2>1, <2>2, KeyType DEF Served, Age, Key, Inv, Types
  <2>6. \A b : Settled(b)' <=> Settled(b)
    BY <1>2 DEF Settled
  <2>7. Kept'
    <3>1. (\A b \in Addrs \ cut : Ack(b, "Approved") \in net => Served(b) /\ Age(b) = 0)'
      BY <1>2, <2>5 DEF Inv, Kept
    <3>2. (\A b \in granted \ cut :
            phase[b] # "exited" => Served(b) /\ Age(b) <= 1 /\ (Settled(b) => Age(b) = 0))'
      BY <1>2, <2>5, <2>6 DEF Inv, Types, Kept
    <3>3. QED
      BY <1>2, <2>4, <3>1, <3>2 DEF Kept
  <2>8. QED
    BY <1>6, <1>7, <2>3, <2>7 DEF Inv
<1>9. CASE pc'[UdpTask] # "ack"
  <2>1. UNCHANGED <<sessions, routes>>
    BY <1>3, <1>5, <1>9 DEF Inv, Types
  <2>2. Types'
    BY <1>2, <1>4, <2>1 DEF Inv, Types
  <2>3. \A b : Settled(b)' <=> Settled(b)
    BY <1>2 DEF Settled
  <2>4. Kept'
    BY <1>2, <1>9, <2>1, <2>3, KeptStill DEF Inv
  <2>5. QED
    BY <1>6, <1>7, <2>2, <2>4 DEF Inv
<1>10. QED
  BY <1>8, <1>9

LEMMA ReplyStep ==
  ASSUME Inv, Reply
  PROVE  Inv'
<1>1. PICK u \in Answers :
        /\ pc[UdpTask] \in {"pend", "ack", "reject"}
        /\ u = "Approved" => pc[UdpTask] = "ack"
        /\ pc' = [pc EXCEPT ![UdpTask] = "recv"]
        /\ acks' = [acks EXCEPT ![peer].status = u]
        /\ hello' = [hello EXCEPT ![UdpTask] = None]
        /\ UNCHANGED <<sessions, routes>>
  BY DEF Reply, Server!UdpPend, Server!UdpReply, Server!UdpAnswer, Server!GoTo, Answers
<1>2. serving' = Idle /\ UNCHANGED <<phase, granted, pinged, cut>>
  BY DEF Reply, client, fate
<1>3. peer \in Addrs /\ serving = Handshake(peer)
  BY <1>1 DEF Inv, Control, Answering
<1>4. Types'
  <2>1. u \in Server!Statuses
    BY DEF Answers, Server!Statuses
  <2>2. QED
    BY <1>1, <1>2, <1>3, <2>1 DEF Inv, Types, Places
<1>5. pc'[UdpTask] = "recv"
  BY <1>1 DEF Inv, Types
<1>6. Control'
  BY <1>2, <1>5 DEF Control, Answering
<1>7. acks'[peer].status = u
  BY <1>1, <1>3 DEF Inv, Types
<1>8. \/ net' = net
      \/ phase[peer] = "ack" /\ net' = net \cup {Ack(peer, u)}
  BY <1>7 DEF Reply, Send
<1>9. \A b : /\ Handshake(b) \in net' <=> Handshake(b) \in net
             /\ Ping(b) \in net' <=> Ping(b) \in net
             /\ \A v \in Answers : Ack(b, v) \in net' =>
                  Ack(b, v) \in net \/ (b = peer /\ v = u /\ phase[b] = "ack")
             /\ serving' # Handshake(b) /\ serving' # Ping(b) /\ serving # Ping(b)
  BY <1>2, <1>3, <1>8, Distinct
<1>10. \A b : Under(b)' => Under(b) \/ (b = peer /\ phase[b] = "ack")
  BY <1>9 DEF Under
<1>11. Handshake(peer) \notin net /\ ~ Under(peer)
  BY <1>3 DEF Inv, Once
<1>12. \A v \in Answers : Ack(peer, v) \notin net
  BY <1>11 DEF Under
<1>13. Once'
  BY <1>2, <1>9, <1>10, <1>11, <1>12 DEF Inv, Once
<1>14. \A b : Settled(b)' => Settled(b)
  BY <1>2, <1>9 DEF Settled
<1>15. \A b \in Addrs \ cut' :
         Ack(b, "Approved") \in net' => \/ Ack(b, "Approved") \in net /\ b \notin cut
                                        \/ Served(b) /\ Age(b) = 0
  BY <1>1, <1>2, <1>9, Approving DEF Inv, Kept
<1>16. Kept'
  BY <1>1, <1>2, <1>5, <1>14, <1>15, KeptStill DEF Inv
<1>17. QED
  BY <1>4, <1>6, <1>13, <1>16 DEF Inv

LEMMA TouchStep ==
  ASSUME Inv, Touch
  PROVE  Inv'
<1>1. /\ pc[UdpTask] = "touch" /\ pc' = [pc EXCEPT ![UdpTask] = "recv"]
      /\ IF routes[peer] \in Server!Live THEN Server!Touch(routes[peer]) ELSE sessions' = sessions
      /\ serving' = Idle
      /\ UNCHANGED <<routes, hello, acks, net, phase, granted, pinged, cut>>
  BY DEF Touch, Server!UdpTouch, Server!GoTo, client
<1>2. pc'[UdpTask] = "recv" /\ pc' \in [{UdpTask, Reaper} -> Places]
  BY <1>1 DEF Inv, Types, Places
<1>3. Control'
  BY <1>1, <1>2 DEF Control, Answering
<1>4. Once'
  <2>1. \A b : (serving' = Handshake(b) => serving = Handshake(b)) /\ (Under(b)' <=> Under(b))
    BY <1>1, Distinct DEF Under
  <2>2. QED
    BY <1>1, <2>1, OnceStill DEF Inv, Once
<1>5. /\ sessions' \in Table /\ Server!Live' = Server!Live
      /\ routes[peer] \in Server!Live => sessions'[routes[peer]].idle = 0
      /\ \A l \in Server!Keys : sessions'[l] = sessions[l] \/ sessions'[l].idle = 0
  <2>1. CASE routes[peer] \in Server!Live /\ Server!Touch(routes[peer])
    BY <2>1, Touched DEF Inv
  <2>2. CASE routes[peer] \notin Server!Live /\ sessions' = sessions
    BY <2>2 DEF Inv, Types, Server!Live, Server!Keys
  <2>3. QED
    BY <1>1, <2>1, <2>2
<1>6. Types'
  BY <1>1, <1>2, <1>5 DEF Inv, Types
<1>7. \A b \in Addrs : /\ Served(b)' <=> Served(b)
                       /\ Age(b)' = Age(b) \/ Age(b)' = 0
  BY <1>1, <1>5, KeyType DEF Served, Age, Key
<1>8. \A b \in Addrs : Served(b) /\ Settled(b)' => Settled(b) \/ Age(b)' = 0
  <2>1. SUFFICES ASSUME NEW b \in Addrs, Served(b), serving = Ping(b)
                 PROVE  Age(b)' = 0
    BY <1>1 DEF Settled
  <2>2. b = peer
    BY <1>1, <2>1, Distinct DEF Inv, Control
  <2>3. routes[peer] = Key(b) /\ Key(b) \in Server!Live
    BY <2>1, <2>2 DEF Served
  <2>4. QED
    BY <1>5, <2>3 DEF Age, Key
<1>9. Kept'
  <2>1. (\A b \in Addrs \ cut : Ack(b, "Approved") \in net => Served(b) /\ Age(b) = 0)'
    BY <1>1, <1>7 DEF Inv, Kept
  <2>2. (\A b \in granted \ cut :
          phase[b] # "exited" => Served(b) /\ Age(b) <= 1 /\ (Settled(b) => Age(b) = 0))'
    BY <1>1, <1>7, <1>8 DEF Inv, Types, Kept
  <2>3. QED
    BY <1>2, <2>1, <2>2 DEF Kept
<1>10. QED
  BY <1>3, <1>4, <1>6, <1>9 DEF Inv

-----------------------------------------------------------------------------
(* The reaper, administrators, restarts and time.                          *)

LEMMA ReapingStep ==
  ASSUME Inv, Reaping
  PROVE  Inv'
<1>1. /\ UNCHANGED <<routes, hello, peer, acks, net, serving, phase, granted, pinged, cut>>
      /\ pc' = [pc EXCEPT ![Reaper] = "reap"] \/ pc' = [pc EXCEPT ![Reaper] = "sleep"]
      /\ UNCHANGED <<client, fate>>
  BY DEF Reaping, Server!Wake, Server!Reap, Server!GoTo, Server!ConnVars, client, fate
<1>2. pc'[UdpTask] = pc[UdpTask] /\ pc' \in [{UdpTask, Reaper} -> Places]
  BY <1>1, ServerAssumption DEF Inv, Types, Places
<1>3. Control'
  BY <1>1, <1>2 DEF Inv, Control, Answering
<1>4. Once'
  BY <1>1, LoopOnce DEF Inv
<1>5. \/ sessions' = sessions
      \/ sessions' = [k \in Server!Keys |-> IF k \in Server!Expired THEN None ELSE sessions[k]]
  BY DEF Reaping, Server!Wake, Server!Reap
<1>6. Types'
  BY <1>1, <1>2, <1>5 DEF Inv, Types, Table
<1>7. \A b \in Addrs : Served(b) /\ Age(b) <= 1 => Served(b)' /\ Age(b)' = Age(b)
  <2>1. SUFFICES ASSUME NEW b \in Addrs, Served(b), Age(b) <= 1
                 PROVE  Served(b)' /\ Age(b)' = Age(b)
    OBVIOUS
  <2>2. Key(b) \in Server!Keys /\ sessions[Key(b)] \in Server!Session
    BY <2>1 DEF Served, Server!Live, Inv, Types, Table
  <2>3. Key(b) \notin Server!Expired
    BY <2>1, <2>2, TickAssumption DEF Age, Server!Expired, Server!Session
  <2>4. sessions'[Key(b)] = sessions[Key(b)]
    BY <1>5, <2>2, <2>3
  <2>5. QED
    BY <1>1, <2>1, <2>2, <2>4 DEF Served, Age, Key, Server!Live, Server!Keys
<1>8. \A b : Settled(b)' <=> Settled(b)
  BY <1>1 DEF Settled
<1>9. Kept'
  <2>1. (pc[UdpTask] = "ack" => Served(peer) /\ Age(peer) = 0)'
    BY <1>1, <1>2, <1>7 DEF Inv, Kept, Control, Answering
  <2>2. (\A b \in Addrs \ cut : Ack(b, "Approved") \in net => Served(b) /\ Age(b) = 0)'
    BY <1>1, <1>7 DEF Inv, Kept
  <2>3. (\A b \in granted \ cut :
          phase[b] # "exited" => Served(b) /\ Age(b) <= 1 /\ (Settled(b) => Age(b) = 0))'
    BY <1>1, <1>7, <1>8 DEF Inv, Types, Kept
  <2>4. QED
    BY <2>1, <2>2, <2>3 DEF Kept
<1>10. QED
  BY <1>3, <1>4, <1>6, <1>9 DEF Inv

LEMMA AdministerStep ==
  ASSUME Inv, Administer
  PROVE  Inv'
<1>1. /\ UNCHANGED <<sessions, routes, pc, hello, peer, acks, net, serving, client, fate>>
      /\ UNCHANGED <<phase, granted, pinged, cut>>
  BY DEF Administer, Server!Approve, Server!Revoke, Server!Daemon, client, fate
<1>2. Types' /\ Control'
  BY <1>1 DEF Inv, Types, Control, Answering
<1>3. \A b : Settled(b)' <=> Settled(b)
  BY <1>1 DEF Settled
<1>4. Once' /\ Kept'
  BY <1>1, <1>3, LoopOnce, KeptStill DEF Inv
<1>5. QED
  BY <1>2, <1>4 DEF Inv

LEMMA RestartStep ==
  ASSUME Inv, Restart
  PROVE  Inv'
<1>1. /\ sessions' = [k \in Server!Keys |-> None]
      /\ routes' = [a \in Addrs |-> None]
      /\ pc' = Server!Idling
      /\ hello' = [t \in Server!Threads |-> None]
      /\ acks' = [a \in Addrs |-> Server!NoAck]
      /\ serving' = Idle /\ cut' = {a \in Addrs : phase[a] # "wait"}
      /\ UNCHANGED <<net, phase, granted>>
  BY DEF Restart, Server!Restart, client
<1>2. Server!Threads = {UdpTask, Reaper}
  BY DEF Server!Threads
<1>3. pc'[UdpTask] = "recv" /\ pc' \in [{UdpTask, Reaper} -> Places]
  BY <1>1, <1>2, ServerAssumption DEF Server!Idling, Places
<1>4. Types'
  <2>1. Server!NoAck \in [status : Server!Statuses, payload : Payloads \cup {None}]
    BY DEF Server!NoAck, Server!Statuses
  <2>2. QED
    BY <1>1, <1>2, <1>3, <2>1 DEF Inv, Types, Table
<1>5. Control'
  BY <1>1, <1>3 DEF Control, Answering
<1>6. Once'
  <2>1. \A b : (serving' = Handshake(b) => serving = Handshake(b)) /\ (Under(b)' <=> Under(b))
    BY <1>1, Distinct DEF Under
  <2>2. QED
    BY <1>1, <2>1, OnceStill DEF Inv, Once
<1>7. Kept'
  <2>1. \A b \in Addrs : Ack(b, "Approved") \in net' => b \in cut'
    BY <1>1, Approving DEF Inv, Once, Under
  <2>2. granted' \subseteq cut'
    BY <1>1 DEF Inv, Types, Once
  <2>3. QED
    BY <1>3, <2>1, <2>2 DEF Kept
<1>8. QED
  BY <1>4, <1>5, <1>6, <1>7 DEF Inv

LEMMA TickStep ==
  ASSUME Inv, Tick
  PROVE  Inv'
<1>1. /\ net \cap Up = {} /\ pc[UdpTask] = "recv" /\ serving = Idle
      /\ \A a \in Addrs : phase[a] # "ack" /\ (phase[a] \in {"forward", "away"} => a \in pinged)
      /\ pinged' = {}
      /\ UNCHANGED <<routes, pc, hello, peer, acks, phase, granted, net, serving, cut>>
  BY DEF Tick, KeepaliveDue, Server!Tick, Server!ConnVars, fate, Inv, Control
<1>2. sessions' = [k \in Server!Keys |->
                     IF k \in Server!Live /\ sessions[k].idle < IdleLimit
                     THEN [sessions[k] EXCEPT !.idle = @ + 1]
                     ELSE sessions[k]]
  BY DEF Tick, Server!Tick
<1>3. \A k \in Server!Live : sessions[k] \in Server!Session
  BY DEF Inv, Types, Table, Server!Live
<1>4. ASSUME NEW k \in Server!Live, sessions[k].idle < IdleLimit
      PROVE  /\ [sessions[k] EXCEPT !.idle = @ + 1] \in Server!Session
             /\ [sessions[k] EXCEPT !.idle = @ + 1].idle = sessions[k].idle + 1
  BY <1>3, <1>4, TickAssumption DEF Server!Session
<1>5. sessions' \in Table
  BY <1>2, <1>4 DEF Inv, Types, Table
<1>6. Types' /\ Control'
  BY <1>1, <1>5 DEF Inv, Types, Control, Answering
<1>7. Once'
  <2>1. \A b : Under(b)' <=> Under(b)
    BY <1>1 DEF Under
  <2>2. QED
    BY <1>1, <2>1 DEF Inv, Once
<1>8. \A b \in Addrs : Ack(b, "Approved") \notin net
  BY <1>1, Approving DEF Inv, Once, Under
<1>9. ASSUME NEW b \in granted \ cut, phase[b] # "exited"
      PROVE  Served(b)' /\ Age(b)' <= 1 /\ ~ Settled(b)'
  <2>1. b \in Addrs /\ b \in pinged
    BY <1>1, <1>9 DEF Inv, Types, Once
  <2>2. Ping(b) \notin net
    BY <1>1, <2>1 DEF Up
  <2>3. Served(b) /\ Age(b) = 0
    BY <1>1, <1>9, <2>1, <2>2, Distinct DEF Inv, Kept, Settled
  <2>4. sessions[Key(b)].idle = 0 /\ Key(b) \in Server!Live /\ Key(b) \in Server!Keys
    BY <2>1, <2>3, KeyType DEF Served, Age
  <2>5. sessions'[Key(b)] = [sessions[Key(b)] EXCEPT !.idle = @ + 1]
    BY <1>2, <2>4, TickAssumption
  <2>6. sessions'[Key(b)] \in Server!Session /\ sessions'[Key(b)].idle = 1
    <3>1. sessions[Key(b)].idle < IdleLimit
      BY <2>4, TickAssumption
    <3>2. sessions'[Key(b)] \in Server!Session /\ sessions'[Key(b)].idle = sessions[Key(b)].idle + 1
      BY <1>4, <2>4, <2>5, <3>1
    <3>3. QED
      BY <2>4, <3>2
  <2>7. Served(b)' /\ Age(b)' = 1
    BY <1>1, <2>3, <2>4, <2>6, KeyType DEF Served, Age, Key, Server!Live, Server!Keys
  <2>8. QED
    BY <1>1, <2>7 DEF Settled
<1>10. Kept'
  BY <1>1, <1>8, <1>9 DEF Kept
<1>11. QED
  BY <1>6, <1>7, <1>10 DEF Inv

-----------------------------------------------------------------------------
LEMMA InitInv == Init => Inv
<1> SUFFICES ASSUME Init
             PROVE  Inv
  OBVIOUS
<1>1. /\ sessions = [k \in Server!Keys |-> None]
      /\ routes = [a \in Addrs |-> None]
      /\ pc = Server!Idling
      /\ hello = [t \in Server!Threads |-> None]
      /\ acks = [a \in Addrs |-> Server!NoAck]
      /\ phase = [a \in Addrs |-> "wait"]
      /\ serving = Idle /\ net = {} /\ granted = {}
  BY DEF Init, Server!Init
<1>2. Server!Threads = {UdpTask, Reaper}
  BY DEF Server!Threads
<1>3. pc[UdpTask] = "recv" /\ pc \in [{UdpTask, Reaper} -> Places]
  BY <1>1, <1>2, ServerAssumption DEF Server!Idling, Places
<1>4. Server!NoAck \in [status : Server!Statuses, payload : Payloads \cup {None}]
  BY DEF Server!NoAck, Server!Statuses
<1>5. Types
  BY <1>1, <1>2, <1>3, <1>4 DEF Types, Table, Phases
<1>6. Control /\ Once /\ Kept
  BY <1>1, <1>3, Distinct DEF Control, Answering, Once, Under, Kept
<1>7. QED
  BY <1>5, <1>6 DEF Inv

LEMMA NextInv == Inv /\ [Next]_vars => Inv'
<1> SUFFICES ASSUME Inv, [Next]_vars
             PROVE  Inv'
  OBVIOUS
<1>1. ASSUME NEW a \in Addrs,
             \/ Shake(a) \/ TimeOut(a) \/ Produce(a) \/ Away(a)
             \/ Keepalive(a) \/ Stop(a)
             \/ \E s \in Answers : ReadAnswer(a, s)
      PROVE  Inv'
  BY <1>1, ShakeStep, TimeOutStep, ProduceStep, AwayStep, KeepaliveStep, StopStep, ReadStep
<1>2. CASE \E m \in net : Lose(m)
  BY <1>2, LoseStep
<1>3. CASE UdpLoop
  BY <1>3, ReceiveStep, ServeStep, ReplyStep, TouchStep DEF UdpLoop
<1>4. CASE Reaping
  BY <1>4, ReapingStep
<1>5. CASE Administer
  BY <1>5, AdministerStep
<1>6. CASE Restart
  BY <1>6, RestartStep
<1>7. CASE Tick
  BY <1>7, TickStep
<1>8. CASE UNCHANGED vars
  <2>1. /\ UnchangedServer
        /\ UNCHANGED <<phase, granted, pinged, net, cut, sessions, routes, pc, peer>>
        /\ UNCHANGED <<client, fate>>
    BY <1>8 DEF vars, client, fate, UnchangedServer, server
  <2>2. \A b : Settled(b)' <=> Settled(b)
    BY <2>1 DEF Settled, UnchangedServer
  <2>3. Types' /\ Control'
    BY <2>1, ServerStill DEF Inv, Types
  <2>4. Once' /\ Kept'
    BY <2>1, <2>2, LoopOnce, KeptStill DEF Inv, UnchangedServer
  <2>5. QED
    BY <2>3, <2>4 DEF Inv
<1>9. QED
  BY <1>1, <1>2, <1>3, <1>4, <1>5, <1>6, <1>7, <1>8 DEF Next

(* A client that has read Approved keeps the route and the session its     *)
(* datagrams need, whatever becomes of other clients, the trust store and  *)
(* late datagrams, until the server restarts or the network loses all its  *)
(* Pings of a tick (client.rs 519-578, server.rs 211-416).                 *)
THEOREM ServedAlways == Spec => []ServedWhileAlive
<1>1. Inv => ServedWhileAlive
  BY DEF Inv, Types, Kept, Served, Key, ServedWhileAlive
<1>2. QED
  BY InitInv, NextInv, <1>1, PTL DEF Spec

-----------------------------------------------------------------------------
(* The server of DirectUdp is SessionServer without Iroh connections, so   *)
(* what is proved of that one holds here, in the company of real clients.  *)

LEMMA ServerStep == [Next]_vars => [Server!Next]_(Server!vars)
<1> SUFFICES ASSUME [Next]_vars PROVE Server!Next \/ UNCHANGED Server!vars
  OBVIOUS
<1>1. UNCHANGED server => UNCHANGED Server!vars
  BY DEF server, Server!vars
<1>2. ASSUME NEW a \in Addrs,
             \/ Shake(a) \/ TimeOut(a) \/ Produce(a) \/ Away(a)
             \/ Keepalive(a) \/ Stop(a)
             \/ \E s \in Answers : ReadAnswer(a, s)
      PROVE  UNCHANGED server
  BY <1>2 DEF Shake, TimeOut, Produce, Away, Keepalive, Stop, ReadAnswer, UnchangedServer
<1>3. ASSUME NEW m \in net, Lose(m) PROVE UNCHANGED server
  BY <1>3 DEF Lose, UnchangedServer
<1>4. ASSUME NEW m \in net, Receive(m) PROVE Server!Next \/ UNCHANGED server
  <2>1. m.addr \in Addrs /\ Announce[m.addr] \in Payloads
    BY <1>4, UpForms, AnnounceAssumption DEF Receive
  <2>2. \/ Server!UdpHandshake(m.addr, Announce[m.addr])
        \/ Server!UdpMessage(m.addr)
        \/ UNCHANGED server
    BY <1>4 DEF Receive, UnchangedServer
  <2>3. QED
    BY <2>1, <2>2 DEF Server!Next, Server!Input
<1>5. CASE Serve \/ Reply \/ Touch
  BY <1>5 DEF Serve, Reply, Touch, Server!Next, Server!UdpStep
<1>6. CASE Reaping
  BY <1>6 DEF Reaping, Server!Next
<1>7. CASE Administer
  BY <1>7 DEF Administer, Server!Next, Server!Input
<1>8. CASE Restart
  BY <1>8 DEF Restart, Server!Next
<1>9. CASE Tick
  BY <1>9 DEF Tick, Server!Next
<1>10. CASE UNCHANGED vars
  BY <1>1, <1>10 DEF vars
<1>11. QED
  BY <1>1, <1>2, <1>3, <1>4, <1>5, <1>6, <1>7, <1>8, <1>9, <1>10 DEF Next, UdpLoop

(* With clients and a network that drops, delays and reorders datagrams,   *)
(* the server does nothing that SessionServer does not allow: its open     *)
(* environment covers these clients (server.rs 211-416).                   *)
THEOREM ServerRefined == Spec => Server!Spec
<1>1. Init => Server!Init
  BY DEF Init
<1>2. QED
  BY <1>1, ServerStep, PTL DEF Spec, Server!Spec

(* The proofs about SessionServer are about another instance of it, which  *)
(* differs in the names of its definitions only.                           *)
Proved == INSTANCE SessionServerProofs WITH Conns <- {}

LEMMA ServerAssumptions ==
  /\ Proved!PayloadAssumption /\ Proved!IdleLimitAssumption
  /\ Proved!TaskAssumption /\ Proved!NoneAssumption
<1>1. Proved!PayloadAssumption
  BY ServerAssumption DEF Proved!PayloadAssumption, Proved!IsFiniteSet, IsFiniteSet
<1>2. Proved!IdleLimitAssumption
  BY TickAssumption DEF Proved!IdleLimitAssumption
<1>3. Proved!TaskAssumption
  BY ServerAssumption DEF Proved!TaskAssumption
<1>4. Proved!NoneAssumption
  BY ServerAssumption
     DEF Proved!NoneAssumption, Proved!Session, Proved!Keys, Server!Session, Server!Keys
<1>5. QED
  BY <1>1, <1>2, <1>3, <1>4

LEMMA SameServer == Spec => Proved!Spec
<1>1. Server!Init => Proved!Init
  BY DEF Server!Init, Proved!Init, Server!Keys, Proved!Keys, Server!Clients,
          Proved!Clients, Server!Threads, Proved!Threads, Server!Idling,
          Proved!Idling, Server!NoAck, Proved!NoAck
<1>2. [Server!Next]_(Server!vars) => [Proved!Next]_(Proved!vars)
  BY DEF Server!Keys, Proved!Keys, Server!Clients, Proved!Clients,
          Server!Threads, Proved!Threads, Server!Session, Proved!Session,
          Server!vars, Proved!vars, Server!trust, Proved!trust,
          Server!Statuses, Proved!Statuses, Server!Idling, Proved!Idling,
          Server!NoAck, Proved!NoAck, Server!Live, Proved!Live, Server!Holds,
          Proved!Holds, Server!Release, Proved!Release, Server!GoTo,
          Proved!GoTo, Server!Admit, Proved!Admit, Server!Register,
          Proved!Register, Server!SameHost, Proved!SameHost,
          Server!NewSession, Proved!NewSession, Server!Touch, Proved!Touch,
          Server!Serve, Proved!Serve, Server!UdpHandshake,
          Proved!UdpHandshake, Server!UdpAnswer, Proved!UdpAnswer,
          Server!UdpPend, Proved!UdpPend, Server!UdpServe, Proved!UdpServe,
          Server!UdpReply, Proved!UdpReply, Server!UdpMessage,
          Proved!UdpMessage, Server!UdpTouch, Proved!UdpTouch,
          Server!ConnVars, Proved!ConnVars, Server!Connect, Proved!Connect,
          Server!ConnHandshake, Proved!ConnHandshake, Server!Close,
          Proved!Close, Server!ConnPend, Proved!ConnPend, Server!ConnServe,
          Proved!ConnServe, Server!ConnReply, Proved!ConnReply,
          Server!ConnMessage, Proved!ConnMessage, Server!ConnTouch,
          Proved!ConnTouch, Server!ConnLost, Proved!ConnLost, Server!Wake,
          Proved!Wake, Server!Expired, Proved!Expired, Server!Reap,
          Proved!Reap, Server!Tick, Proved!Tick, Server!Daemon, Proved!Daemon,
          Server!Approve, Proved!Approve, Server!Revoke, Proved!Revoke,
          Server!Restart, Proved!Restart, Server!UdpStep, Proved!UdpStep,
          Server!ConnStep, Proved!ConnStep, Server!Input, Proved!Input,
          Server!Next, Proved!Next, Server!Cardinality, Proved!Cardinality
<1>3. QED
  BY <1>1, <1>2, ServerRefined, PTL DEF Server!Spec, Proved!Spec

LEMMA ServerTypes == Spec => []Server!TypeOK
<1>1. Proved!Spec => []Proved!TypeOK
  BY ServerAssumptions, Proved!TypeCorrect
<1>2. Proved!TypeOK => Server!TypeOK
  BY DEF Server!TypeOK, Proved!TypeOK, Server!Keys, Proved!Keys,
          Server!Clients, Proved!Clients, Server!Threads, Proved!Threads,
          Server!Session, Proved!Session, Server!Statuses, Proved!Statuses
<1>3. QED
  BY <1>1, <1>2, SameServer, PTL

(* Among clients whose datagrams are lost, late and overtaken, the server  *)
(* keeps what it promises: routes follow the last answer, only devices of  *)
(* approved clients exist, no two have one name, and they stay.            *)
THEOREM ServerSafe ==
  Spec => /\ [](Server!RoutesFollowAcks /\ Server!OnlyTrustedServed /\ Server!NamesDistinct)
          /\ Server!DevicesStay
<1>1. Proved!Spec => [](Proved!RoutesFollowAcks)
  BY ServerAssumptions, Proved!RoutesGranted
<1>2. Proved!Spec => [](Proved!OnlyTrustedServed)
  BY ServerAssumptions, Proved!NoStrangers
<1>3. Proved!Spec => [](Proved!NamesDistinct)
  BY ServerAssumptions, Proved!NamesUnique
<1>4. Proved!Spec => Proved!DevicesStay
  BY ServerAssumptions, Proved!DevicesPersist
<1>5. Proved!RoutesFollowAcks => Server!RoutesFollowAcks
  BY DEF Server!RoutesFollowAcks, Proved!RoutesFollowAcks
<1>6. Proved!OnlyTrustedServed => Server!OnlyTrustedServed
  BY DEF Server!OnlyTrustedServed, Proved!OnlyTrustedServed, Server!Live, Proved!Live,
         Server!Keys, Proved!Keys
<1>7. Proved!NamesDistinct => Server!NamesDistinct
  BY DEF Server!NamesDistinct, Proved!NamesDistinct, Server!Live, Proved!Live,
         Server!Keys, Proved!Keys
<1>8. Proved!DevicesStay => Server!DevicesStay
  BY DEF Server!DevicesStay, Proved!DevicesStay, Server!Restart,
          Proved!Restart, Server!Live, Proved!Live, Server!Keys, Proved!Keys,
          Server!Threads, Proved!Threads, Server!Idling, Proved!Idling,
          Server!NoAck, Proved!NoAck, Server!vars, Proved!vars, Server!trust,
          Proved!trust
<1>9. QED
  BY <1>1, <1>2, <1>3, <1>4, <1>5, <1>6, <1>7, <1>8, SameServer, PTL

-----------------------------------------------------------------------------
(* The types of the clients and of the network.                            *)
Rest ==
  /\ sent \in [Addrs -> 0 .. MaxEvents]
  /\ net \subseteq Up \cup Down
  /\ serving \in Up \cup {Idle}
  /\ settled \subseteq Addrs \X (1 .. MaxEvents)
  /\ pinged \subseteq Addrs /\ cut \subseteq Addrs

LEMMA SentUp ==
  ASSUME NEW a \in Addrs
  PROVE  /\ Handshake(a) \in Up /\ Ping(a) \in Up
         /\ \A n \in 1 .. MaxEvents : Event(a, n) \in Up
         /\ \A s \in Answers : Ack(a, s) \in Down
BY DEF Up, Down

LEMMA EventNumber == ASSUME NEW m \in Up, m.type = "Events" PROVE m.n \in 1 .. MaxEvents
<1>1. PICK a \in Addrs : m \in {Handshake(a), Ping(a)} \cup {Event(a, n) : n \in 1 .. MaxEvents}
  BY DEF Up
<1>2. QED
  BY <1>1 DEF Handshake, Ping, Event, Datagram

LEMMA DownType == ASSUME NEW m \in Down PROVE m.type \in Answers
BY DEF Down, Ack, Datagram

LEMMA SettleType ==
  ASSUME Rest, NEW m \in Up, m.type = "Events"
  PROVE  Settle(m) \subseteq Addrs \X (1 .. MaxEvents)
BY UpForms, EventNumber DEF Settle, Rest

LEMMA NextEvent == \A k \in 0 .. MaxEvents : k < MaxEvents => k + 1 \in 1 .. MaxEvents
BY EventsAssumption

LEMMA RestStart == Init => Rest
BY EventsAssumption DEF Init, Rest

LEMMA RestStep == Types /\ Control /\ Rest /\ [Next]_vars => Rest'
<1> SUFFICES ASSUME Types, Control, Rest, [Next]_vars PROVE Rest'
  OBVIOUS
<1>1. ASSUME NEW a \in Addrs, Shake(a) PROVE Rest'
  BY <1>1, SentUp DEF Shake, Send, UnchangedServer, fate, Rest
<1>2. ASSUME NEW a \in Addrs, NEW s \in Answers, ReadAnswer(a, s) PROVE Rest'
  BY <1>2 DEF ReadAnswer, UnchangedServer, fate, Rest
<1>3. ASSUME NEW a \in Addrs, TimeOut(a) \/ Away(a) PROVE Rest'
  BY <1>3 DEF TimeOut, Away, UnchangedServer, fate, Rest
<1>4. ASSUME NEW a \in Addrs, Produce(a) PROVE Rest'
  <2> DEFINE n == sent[a] + 1
  <2>1. /\ sent[a] < MaxEvents /\ sent' = [sent EXCEPT ![a] = n]
        /\ UNCHANGED <<pinged, settled, cut, serving>>
    BY <1>4 DEF Produce, fate, UnchangedServer
  <2>2. sent[a] \in 0 .. MaxEvents
    BY DEF Rest
  <2>3. n \in 1 .. MaxEvents /\ n \in 0 .. MaxEvents
    BY <2>1, <2>2, NextEvent, EventsAssumption
  <2> HIDE DEF n
  <2>4. sent'[a] = n /\ sent' \in [Addrs -> 0 .. MaxEvents]
    BY <2>1, <2>3 DEF Rest
  <2>5. net' = net \cup {Event(a, n)}
    BY <1>4, <2>4 DEF Produce, Send
  <2>6. Event(a, n) \in Up
    BY <2>3, SentUp
  <2>7. QED
    BY <2>1, <2>4, <2>5, <2>6 DEF Rest
<1>5. ASSUME NEW a \in Addrs, Keepalive(a) PROVE Rest'
  BY <1>5, SentUp DEF Keepalive, Send, UnchangedServer, fate, Rest
<1>6. ASSUME NEW a \in Addrs, Stop(a) PROVE Rest'
  BY <1>6 DEF Stop, UnchangedServer, fate, Rest
<1>7. ASSUME NEW m \in net, Lose(m) PROVE Rest'
  <2>1. /\ net' = net \ {m} /\ UNCHANGED <<sent, pinged, serving>>
        /\ settled' = IF m.type = "Events" THEN Settle(m) ELSE settled
        /\ cut' \subseteq cut \cup granted
    BY <1>7 DEF Lose, client, UnchangedServer
  <2>2. settled' \subseteq Addrs \X (1 .. MaxEvents)
    <3>1. CASE m.type = "Events"
      <4>1. m \in Up
        BY <3>1, DownType DEF Rest, Answers
      <4>2. QED
        BY <2>1, <3>1, <4>1, SettleType
    <3>2. CASE m.type # "Events"
      BY <2>1, <3>2 DEF Rest
    <3>3. QED
      BY <3>1, <3>2
  <2>3. QED
    BY <2>1, <2>2 DEF Rest, Types
<1>8. ASSUME NEW m \in net, Receive(m) PROVE Rest'
  <2>1. /\ m \in Up /\ net' = net \ {m} /\ (serving' = m \/ serving' = serving)
        /\ UNCHANGED <<sent, pinged, settled, cut>>
    BY <1>8 DEF Receive, client, fate, UnchangedServer
  <2>2. QED
    BY <2>1 DEF Rest
<1>9. CASE Serve
  BY <1>9 DEF Serve, client, fate, Rest
<1>10. CASE Reply
  <2>1. PICK u \in Answers : /\ pc[UdpTask] \in {"pend", "ack", "reject"}
                             /\ acks' = [acks EXCEPT ![peer].status = u]
    BY <1>10 DEF Reply, Server!UdpPend, Server!UdpReply, Server!UdpAnswer, Answers
  <2>2. peer \in Addrs
    BY <2>1 DEF Control, Answering
  <2>3. acks'[peer].status = u
    BY <2>1, <2>2 DEF Types
  <2>4. /\ (net' = net \/ net' = net \cup {Ack(peer, u)})
        /\ serving' = Idle /\ UNCHANGED <<sent, pinged, settled, cut>>
    BY <1>10, <2>3 DEF Reply, Send, client, fate
  <2>5. Ack(peer, u) \in Down
    BY <2>2, SentUp
  <2>6. QED
    BY <2>4, <2>5 DEF Rest
<1>11. CASE Touch
  <2>1. /\ UNCHANGED <<sent, pinged, net, cut>> /\ serving' = Idle
        /\ \/ settled' = settled
           \/ serving.type = "Events" /\ settled' = Settle(serving)
    BY <1>11 DEF Touch, client
  <2>2. serving.type = "Events" => serving \in Up
    BY DEF Rest, Idle, Datagram
  <2>3. settled' \subseteq Addrs \X (1 .. MaxEvents)
    BY <2>1, <2>2, SettleType DEF Rest
  <2>4. QED
    BY <2>1, <2>3 DEF Rest
<1>12. CASE Reaping \/ Administer
  BY <1>12 DEF Reaping, Administer, client, fate, Rest
<1>13. CASE Restart
  BY <1>13 DEF Restart, client, Rest
<1>14. CASE Tick
  BY <1>14 DEF Tick, fate, Rest
<1>15. CASE UNCHANGED vars
  BY <1>15 DEF vars, client, fate, Rest
<1>16. QED
  BY <1>1, <1>2, <1>3, <1>4, <1>5, <1>6, <1>7, <1>8, <1>9, <1>10, <1>11, <1>12, <1>13,
     <1>14, <1>15 DEF Next, UdpLoop

LEMMA ServingFits ==
  ASSUME Control
  PROVE  serving.type # "None" <=> pc[UdpTask] # "recv"
BY DEF Control, Answering, Idle, Handshake, Ping, Event, Datagram

(* Every variable stays in its range, and the server has a datagram in hand*)
(* just when its task is not waiting for one (client.rs 390-581, server.rs *)
(* 211-416).                                                               *)
THEOREM TypeCorrect == Spec => []TypeOK
<1>1. Inv /\ Rest /\ [Next]_vars => Inv' /\ Rest'
  BY NextInv, RestStep DEF Inv
<1>2. Init => Inv /\ Rest
  BY InitInv, RestStart
<1>3. Inv /\ Rest /\ Server!TypeOK => TypeOK
  BY ServingFits DEF Inv, Types, Rest, Idle, Phases, TypeOK
<1>4. QED
  BY <1>1, <1>2, <1>3, ServerTypes, PTL DEF Spec
=============================================================================
