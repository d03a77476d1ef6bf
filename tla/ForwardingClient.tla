-------------------------- MODULE ForwardingClient --------------------------
(***************************************************************************)
(* One run of JoycastClient (src/src/client.rs), over Direct UDP or Iroh:  *)
(* wait for a controller, shake hands, forward events, and keep the        *)
(* connection while the controller is away.  Controllers come and go and   *)
(* may return under another path.                                          *)
(*                                                                         *)
(* The server is what server.rs shows to one client: it answers a Ping, it *)
(* grants or refuses a handshake, it plays events while it has a device    *)
(* for the client, and it may lose that device (reaped, or restarted).     *)
(* An Iroh stream is two FIFO channels that break together; datagrams are  *)
(* lost and reordered.                                                     *)
(***************************************************************************)
EXTENDS Naturals, Sequences

CONSTANTS
  Paths,        \* /dev/input/event* nodes
  Controllers,  \* physical devices
  Identity,     \* Identity[c]: name and ids of c (DeviceIdentity)
  None,         \* no path, no controller
  Requested,    \* --device, or None to take the first one that appears
  MaxEvents,    \* bound: events produced by controllers
  MaxInFlight   \* bound: messages in a channel

ASSUME RequestedAssumption == Requested \in Paths \cup {None}
ASSUME NoneAssumption == None \notin Paths \cup Controllers
ASSUME BoundAssumption == MaxEvents \in Nat /\ MaxInFlight \in Nat \ {0}

VARIABLES
  transport,  \* "udp" or "iroh", chosen by the target address
  phase,      \* where the client is
  path,       \* requested_path, then preferred_path
  model,      \* the identity announced in the handshake
  first,      \* history: the controller that was announced
  source,     \* the controller whose event stream is open
  stream,     \* that stream: "none", "live", or "dead" once unplugged
  plugged,    \* plugged[p]: the controller behind path p
  sent,       \* number of the last event sent
  up, down,   \* messages to the server, to the client
  link,       \* "up", or "closed" (Iroh only)
  device,     \* the server has a virtual device for this client
  granted,    \* history: it had one at some time
  played      \* number of the last event played on it

env == <<plugged, link>>
server == <<device, granted, played>>
controller == <<path, model, first, source, stream>>
vars == <<transport, phase, controller, sent, up, down, env, server>>

Ping == [type |-> "Ping", n |-> 0]
Pong == [type |-> "Pong", n |-> 0]
Handshake == [type |-> "Handshake", n |-> 0]
Event(n) == [type |-> "Events", n |-> n]
Statuses == {"Approved", "PendingApproval", "Rejected"}
Ack(status) == [type |-> status, n |-> 0]

Upward == {Ping, Handshake} \cup {Event(n) : n \in 1 .. MaxEvents}
Downward == {Pong} \cup {Ack(s) : s \in Statuses}

TypeOK ==
  /\ transport \in {"udp", "iroh"}
  /\ phase \in {"wait", "pong", "ack", "forward", "exited"}
  /\ path \in Paths \cup {None}
  /\ model \in {Identity[c] : c \in Controllers} \cup {None}
  /\ first \in Controllers \cup {None} /\ source \in Controllers \cup {None}
  /\ stream \in {"none", "live", "dead"}
  /\ stream = "none" <=> source = None
  /\ plugged \in [Paths -> Controllers \cup {None}]
  /\ sent \in 0 .. MaxEvents /\ played \in 0 .. MaxEvents
  /\ up \in Seq(Upward) /\ Len(up) <= MaxInFlight
  /\ down \in Seq(Downward) /\ Len(down) <= MaxInFlight
  /\ link \in {"up", "closed"}
  /\ device \in BOOLEAN /\ granted \in BOOLEAN

Init ==
  /\ transport \in {"udp", "iroh"}
  /\ phase = "wait"
  /\ path = Requested
  /\ model = None /\ first = None /\ source = None
  /\ stream = "none"
  /\ plugged = [p \in Paths |-> None]
  /\ sent = 0 /\ played = 0
  /\ up = <<>> /\ down = <<>>
  /\ link = "up"
  /\ device = FALSE /\ granted = FALSE

-----------------------------------------------------------------------------
(* Channels and controllers.                                               *)

(* A stream delivers its first message, datagrams arrive in any order.     *)
Arriving(ch) == IF transport = "iroh" THEN {1} \cap DOMAIN ch ELSE DOMAIN ch
Without(ch, i) == SubSeq(ch, 1, i - 1) \o SubSeq(ch, i + 1, Len(ch))

SendUp(m) == Len(up) < MaxInFlight /\ up' = Append(up, m)
SendDown(m) == Len(down) < MaxInFlight /\ down' = Append(down, m)

Exit ==
  /\ phase' = "exited"
  /\ stream' = "none" /\ source' = None
  /\ UNCHANGED <<path, model, first>>

(* Mutant: any controller will do. *)
AnyController == {p \in Paths : plugged[p] # None}

(* The nodes of controllers that look like the announced one.              *)
Candidates == {p \in Paths : plugged[p] # None /\ Identity[plugged[p]] = model}

Plug(p, c) ==
  /\ plugged[p] = None
  /\ \A q \in Paths : plugged[q] # c
  /\ plugged' = [plugged EXCEPT ![p] = c]
  /\ UNCHANGED <<transport, phase, controller, sent, up, down, link, server>>

(* An open stream does not survive, even if the controller returns at once.*)
Unplug(p) ==
  /\ plugged[p] # None
  /\ plugged' = [plugged EXCEPT ![p] = None]
  /\ stream' = IF plugged[p] = source /\ stream = "live" THEN "dead" ELSE stream
  /\ UNCHANGED <<transport, phase, path, model, first, source, sent, up, down, link, server>>

-----------------------------------------------------------------------------
(* Before the handshake.                                                   *)

(* Mutant: the Pong is not waited for. *)
KeepaliveUnanswered ==
  /\ phase \in {"wait", "forward"}
  /\ link = "up"
  /\ SendUp(Ping)
  /\ UNCHANGED <<transport, phase, controller, sent, down, env, server>>

(* Over Iroh the client waits for the Pong before it does anything else.   *)
Keepalive ==
  /\ phase \in {"wait", "forward"}
  /\ link = "up"
  /\ SendUp(Ping)
  /\ phase' = IF phase = "wait" /\ transport = "iroh" THEN "pong" ELSE phase
  /\ UNCHANGED <<transport, controller, sent, down, env, server>>

AwaitPong ==
  /\ phase = "pong" /\ down # <<>>
  /\ down' = Tail(down)
  /\ IF Head(down) = Pong
     THEN phase' = "wait" /\ UNCHANGED controller
     ELSE Exit
  /\ UNCHANGED <<transport, sent, up, env, server>>

(* try_open_initial_device: the requested node, or any fitting one.        *)
Openable(p) == path \in {p, None} /\ plugged[p] # None

(* The retry timer finds a controller, and the handshake announces         *)
(* whatever is behind the node.                                            *)
Announce(p) ==
  /\ phase = "wait" /\ link = "up"
  /\ Openable(p)
  /\ path' = p
  /\ source' = plugged[p] /\ first' = plugged[p]
  /\ model' = Identity[plugged[p]]
  /\ stream' = "live"
  /\ SendUp(Handshake)
  /\ phase' = "ack"
  /\ UNCHANGED <<transport, sent, down, env, server>>

-----------------------------------------------------------------------------
(* The handshake.  Over UDP anything but an answer is skipped, and after   *)
(* four seconds without one the client goes on as if it were authorized.   *)

(* The client gives up if the device cannot be turned into a stream.       *)
StartForwarding == (phase' = "forward" /\ UNCHANGED controller) \/ Exit

(* Mutant: every answer is taken for an approval. *)
AcknowledgeAny(i) ==
  /\ phase = "ack" /\ i \in Arriving(down)
  /\ down' = Without(down, i)
  /\ StartForwarding
  /\ UNCHANGED <<transport, sent, up, env, server>>

Acknowledge(i) ==
  /\ phase = "ack" /\ i \in Arriving(down)
  /\ down' = Without(down, i)
  /\ \/ down[i] = Ack("Approved") /\ StartForwarding
     \/ down[i] \in {Ack("PendingApproval"), Ack("Rejected")} /\ Exit
     \/ down[i] = Pong /\ transport = "udp" /\ UNCHANGED <<phase, controller>>
     \/ down[i] = Pong /\ transport = "iroh" /\ Exit
  /\ UNCHANGED <<transport, sent, up, env, server>>

AckTimeout ==
  /\ phase = "ack" /\ transport = "udp"
  /\ StartForwarding
  /\ UNCHANGED <<transport, sent, up, down, env, server>>

-----------------------------------------------------------------------------
(* Forwarding.                                                             *)

Forward ==
  /\ phase = "forward" /\ stream = "live" /\ link = "up"
  /\ sent < MaxEvents
  /\ sent' = sent + 1
  /\ SendUp(Event(sent'))
  /\ UNCHANGED <<transport, phase, controller, down, env, server>>

(* The stream reports the disconnection; the connection is kept.           *)
StreamEnds ==
  /\ phase = "forward" /\ stream = "dead"
  /\ stream' = "none" /\ source' = None
  /\ UNCHANGED <<transport, phase, path, model, first, sent, up, down, env, server>>

(* Mutant: only the last node is tried. *)
ReopenSamePath(p) ==
  /\ phase = "forward" /\ stream = "none"
  /\ p = path /\ p \in Candidates
  /\ stream' = "live" /\ source' = plugged[p]
  /\ UNCHANGED <<transport, phase, path, model, first, sent, up, down, env, server>>

(* Mutant: the last node is taken whether anything is behind it or not. *)
ReopenBlindly(p) ==
  /\ phase = "forward" /\ stream = "none"
  /\ p = path
  /\ stream' = "live" /\ source' = plugged[p]
  /\ UNCHANGED <<transport, phase, path, model, first, sent, up, down, env, server>>

(* try_reopen prefers the last node.  It is remembered even if its stream  *)
(* cannot be opened.                                                       *)
Reopen(p) ==
  /\ phase = "forward" /\ stream = "none"
  /\ p \in Candidates /\ (path \in Candidates => p = path)
  /\ path' = p
  /\ stream' = "live" /\ source' = plugged[p]
  /\ UNCHANGED <<transport, phase, model, first, sent, up, down, env, server>>

ReopenFails(p) ==
  /\ phase = "forward" /\ stream = "none"
  /\ p \in Candidates /\ (path \in Candidates => p = path)
  /\ path' = p
  /\ UNCHANGED <<transport, phase, model, first, source, stream, sent, up, down, env, server>>

(* Whatever else the server sends is read and ignored.                     *)
Ignore(i) ==
  /\ \/ phase = "forward"
     \/ phase = "wait" /\ transport = "udp"
  /\ i \in Arriving(down)
  /\ down' = Without(down, i)
  /\ UNCHANGED <<transport, phase, controller, sent, up, env, server>>

(* Mutant: a broken stream is not noticed while the answer is awaited. *)
LinkLostUnread ==
  /\ transport = "iroh" /\ phase \notin {"ack", "exited"}
  /\ \/ link = "closed"
     \/ phase = "pong"
  /\ Exit
  /\ UNCHANGED <<transport, sent, up, down, env, server>>

(* The stream is read to its end, or breaks, or a Pong is late (5 s).      *)
LinkLost ==
  /\ transport = "iroh" /\ phase # "exited"
  /\ \/ link = "closed"
     \/ phase = "pong"
  /\ Exit
  /\ UNCHANGED <<transport, sent, up, down, env, server>>

(* A send or, awaiting the answer, a receive fails after a datagram was    *)
(* refused because no server was running.                                  *)
SendRefused ==
  /\ transport = "udp" /\ phase \in {"wait", "ack", "forward"} /\ ~ device
  /\ Exit
  /\ UNCHANGED <<transport, sent, up, down, env, server>>

-----------------------------------------------------------------------------
(* The server.                                                             *)

(* An Iroh handler whose session was reaped hangs up at the next message.  *)
Gone == transport = "iroh" /\ granted /\ ~ device

(* Pings are answered before the handshake and, over UDP, in any case.     *)
AnswerPing(i) ==
  /\ link = "up" /\ i \in Arriving(up) /\ up[i] = Ping
  /\ up' = Without(up, i)
  /\ IF Gone
     THEN link' = "closed" /\ UNCHANGED down
     ELSE SendDown(Pong) /\ UNCHANGED link
  /\ UNCHANGED <<transport, phase, controller, sent, plugged, server>>

(* A refused Iroh client is told, then (1 s later) the link is closed.     *)
AnswerHandshake(i, status) ==
  /\ link = "up" /\ i \in Arriving(up) /\ up[i] = Handshake
  /\ up' = Without(up, i)
  /\ SendDown(Ack(status))
  /\ device' = (status = "Approved")
  /\ granted' = (granted \/ device')
  /\ UNCHANGED <<transport, phase, controller, sent, env, played>>

PlayEvent(i) ==
  /\ link = "up" /\ i \in Arriving(up) /\ up[i].type = "Events"
  /\ up' = Without(up, i)
  /\ played' = IF device THEN up[i].n ELSE played
  /\ link' = IF Gone THEN "closed" ELSE link
  /\ UNCHANGED <<transport, phase, controller, sent, down, plugged, device, granted>>

(* The session is reaped, or the server restarts and closes its streams.   *)
LoseDevice ==
  /\ device
  /\ device' = FALSE
  /\ link' \in {link} \cup (IF transport = "iroh" THEN {"closed"} ELSE {})
  /\ UNCHANGED <<transport, phase, controller, sent, up, down, plugged, granted, played>>

CloseLink ==
  /\ transport = "iroh" /\ link = "up"
  /\ link' = "closed"
  /\ UNCHANGED <<transport, phase, controller, sent, up, down, plugged, server>>

LoseDatagram(i) ==
  /\ transport = "udp"
  /\ \/ i \in DOMAIN up /\ up' = Without(up, i) /\ UNCHANGED down
     \/ i \in DOMAIN down /\ down' = Without(down, i) /\ UNCHANGED up
  /\ UNCHANGED <<transport, phase, controller, sent, env, server>>

-----------------------------------------------------------------------------
Handles == 1 .. MaxInFlight

ServerStep ==
  \E i \in Handles : \/ AnswerPing(i) \/ PlayEvent(i)
                     \/ \E s \in Statuses : AnswerHandshake(i, s)

Next ==
  \/ Keepalive \/ AwaitPong \/ AckTimeout \/ Forward \/ StreamEnds
  \/ LinkLost \/ SendRefused
  \/ \E i \in Handles : Acknowledge(i) \/ Ignore(i) \/ LoseDatagram(i)
  \/ \E p \in Paths : \/ Unplug(p) \/ Announce(p) \/ Reopen(p) \/ ReopenFails(p)
                      \/ \E c \in Controllers : Plug(p, c)
  \/ ServerStep \/ LoseDevice \/ CloseLink

Spec == Init /\ [][Next]_vars

(* The server's loops run whenever they can.  The client reads its answer, *)
(* or its timer fires, or it notices that the link is gone; in the         *)
(* forwarding loop select! polls every branch, so the end of a stream is   *)
(* seen although pings and answers go on, and the retry timer keeps        *)
(* ticking (a stream does not fail to open for ever).                      *)
FairSpec ==
  /\ Spec
  /\ WF_vars(ServerStep)
  /\ WF_vars(\E i \in Handles : Acknowledge(i))
  /\ WF_vars(AckTimeout) /\ WF_vars(LinkLost)
  /\ WF_vars(StreamEnds) /\ WF_vars(\E p \in Paths : Reopen(p))

-----------------------------------------------------------------------------
(* When an Iroh client reads its answer, no Pong of the time it waited for *)
(* a controller is in the way or on its way: Ping and Pong alternate.      *)
PongsInStep ==
  transport = "iroh" /\ phase = "ack" =>
    /\ \A i \in DOMAIN up : up[i] # Ping
    /\ \A i \in DOMAIN down : down[i] # Pong

(* However often controllers are swapped, the events that are forwarded    *)
(* come from one like the controller announced to the server.              *)
ForwardsAnnouncedModel == stream # "none" => Identity[source] = model

(* "locate the same physical device" (client.rs 89): it is the announced   *)
(* controller whose events are forwarded.                                  *)
ForwardsSameDevice == phase = "forward" /\ stream = "live" => source = first

(* Over Iroh the events arrive as EventRelay promises.  (Over Direct UDP   *)
(* nothing is promised: the abstract state then stands still.)             *)
Iroh == transport = "iroh"
Relay == INSTANCE EventRelay WITH
  granted <- granted /\ Iroh,
  sent <- IF Iroh THEN sent ELSE 0,
  played <- IF Iroh THEN played ELSE 0

(* Events are played in order, each at most once, none before the grant    *)
(* (client.rs 584-781, server.rs 585-603).                                 *)
RelaysEvents == Relay!Spec

(* "automatically resumes forwarding when it reconnects (even if udev      *)
(* assigns a new event path)" (README.md 25).                              *)
Resumes ==
  phase = "forward" /\ stream # "live" /\ Candidates # {}
    ~> stream = "live" \/ Candidates = {} \/ phase = "exited"

(* A handshake never leaves the client waiting: it forwards or exits, also *)
(* when the handshake or its answer is lost or the server hangs up.        *)
HandshakeEnds == phase = "ack" ~> phase \in {"forward", "exited"}
=============================================================================
