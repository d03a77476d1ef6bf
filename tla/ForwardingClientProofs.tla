------------------------ MODULE ForwardingClientProofs ----------------------
(* Proofs about ForwardingClient for any number of nodes, controllers and   *)
(* events and any capacity of the channels.                                 *)
EXTENDS ForwardingClient, TLAPS

-----------------------------------------------------------------------------
(* Channels.                                                               *)

LEMMA ConcatLemma ==
  ASSUME NEW M, NEW s \in Seq(M), NEW t \in Seq(M)
  PROVE  s \o t \in Seq(M) /\ Len(s \o t) = Len(s) + Len(t)
  OBVIOUS

LEMMA WithoutLemma ==
  ASSUME NEW M, NEW ch \in Seq(M), NEW i \in DOMAIN ch
  PROVE  /\ Without(ch, i) \in Seq(M)
         /\ Len(Without(ch, i)) = Len(ch) - 1
<1>1. i \in 1 .. Len(ch) /\ Len(ch) \in Nat
  OBVIOUS
<1>2. SubSeq(ch, 1, i - 1) \in Seq(M) /\ Len(SubSeq(ch, 1, i - 1)) = i - 1
  BY <1>1
<1>3. /\ SubSeq(ch, i + 1, Len(ch)) \in Seq(M)
      /\ Len(SubSeq(ch, i + 1, Len(ch))) = Len(ch) - i
  BY <1>1
<1>4. Without(ch, i) \in Seq(M)
  BY <1>2, <1>3, ConcatLemma DEF Without
<1>5. Len(Without(ch, i)) = (i - 1) + (Len(ch) - i)
  BY <1>2, <1>3, ConcatLemma DEF Without
<1> QED
  BY <1>1, <1>4, <1>5

(* A stream gives up its first message.                                    *)
LEMMA WithoutFirst ==
  ASSUME NEW M, NEW ch \in Seq(M), 1 \in DOMAIN ch
  PROVE  /\ Len(Without(ch, 1)) = Len(ch) - 1
         /\ \A j \in 1 .. Len(ch) - 1 : Without(ch, 1)[j] = ch[j + 1]
<1>1. 1 \in 1 .. Len(ch) /\ Len(ch) \in Nat
  OBVIOUS
<1>2. SubSeq(ch, 1, 0) = <<>>
  BY <1>1
<1>3. /\ Len(SubSeq(ch, 2, Len(ch))) = Len(ch) - 1
      /\ \A j \in 1 .. Len(ch) - 1 : SubSeq(ch, 2, Len(ch))[j] = ch[j + 1]
      /\ SubSeq(ch, 2, Len(ch)) \in Seq(M)
  BY <1>1
<1>4. Without(ch, 1) = <<>> \o SubSeq(ch, 2, Len(ch))
  BY <1>1, <1>2 DEF Without
<1>5. Without(ch, 1) = SubSeq(ch, 2, Len(ch))
  BY <1>3, <1>4
<1> QED
  BY <1>3, <1>5

LEMMA ArrivingLemma == \A ch : \A i \in Arriving(ch) : i \in DOMAIN ch
  BY DEF Arriving

-----------------------------------------------------------------------------
(* Types.                                                                  *)

UpType == up \in Seq(Upward) /\ Len(up) <= MaxInFlight
DownType == down \in Seq(Downward) /\ Len(down) <= MaxInFlight

ClientType ==
  /\ phase \in {"wait", "pong", "ack", "forward", "exited"}
  /\ path \in Paths \cup {None}
  /\ model \in {Identity[c] : c \in Controllers} \cup {None}
  /\ first \in Controllers \cup {None} /\ source \in Controllers \cup {None}
  /\ stream \in {"none", "live", "dead"}
  /\ stream = "none" <=> source = None
  /\ sent \in 0 .. MaxEvents

WorldType ==
  /\ transport \in {"udp", "iroh"}
  /\ plugged \in [Paths -> Controllers \cup {None}]
  /\ played \in 0 .. MaxEvents
  /\ link \in {"up", "closed"}
  /\ device \in BOOLEAN /\ granted \in BOOLEAN

Typed == UpType /\ DownType /\ ClientType /\ WorldType

LEMMA TypeParts == TypeOK <=> Typed
  BY DEF TypeOK, Typed, UpType, DownType, ClientType, WorldType

LEMMA Messages ==
  /\ Ping \in Upward /\ Handshake \in Upward
  /\ \A n \in 1 .. MaxEvents : Event(n) \in Upward
  /\ Pong \in Downward /\ \A s \in Statuses : Ack(s) \in Downward
  BY DEF Upward, Downward

(* Messages of different kinds differ.                                     *)
LEMMA Kinds ==
  /\ \A m \in Upward : m.type = "Events" =>
       \E n \in 1 .. MaxEvents : m = Event(n) /\ m.n = n
  /\ \A n : Event(n) # Ping /\ Event(n) # Handshake
            /\ Event(n).type = "Events" /\ Event(n).n = n
  /\ Ping # Handshake /\ Ping.type # "Events" /\ Handshake.type # "Events"
  /\ \A s \in Statuses : Ack(s) # Pong
  /\ \A s, t \in Statuses : Ack(s) = Ack(t) => s = t
<1>1. \A m \in Upward : m.type = "Events" =>
        \E n \in 1 .. MaxEvents : m = Event(n) /\ m.n = n
  BY DEF Upward, Event, Ping, Handshake
<1>2. \A n : Event(n) # Ping /\ Event(n) # Handshake
             /\ Event(n).type = "Events" /\ Event(n).n = n
  BY DEF Event, Ping, Handshake
<1>3. Ping # Handshake /\ Ping.type # "Events" /\ Handshake.type # "Events"
  BY DEF Ping, Handshake
<1>4. \A s \in Statuses : Ack(s) # Pong
  BY DEF Ack, Pong, Statuses
<1>5. \A s, t \in Statuses : Ack(s) = Ack(t) => s = t
  BY DEF Ack, Statuses
<1> QED
  BY <1>1, <1>2, <1>3, <1>4, <1>5

LEMMA SendUpType == ASSUME UpType, NEW m \in Upward, SendUp(m) PROVE UpType'
  BY BoundAssumption DEF UpType, SendUp

LEMMA SendDownType == ASSUME DownType, NEW m \in Downward, SendDown(m) PROVE DownType'
  BY BoundAssumption DEF DownType, SendDown

LEMMA TakeUpType ==
  ASSUME UpType, NEW i \in DOMAIN up, up' = Without(up, i) PROVE UpType'
  BY WithoutLemma, BoundAssumption DEF UpType

LEMMA TakeDownType ==
  ASSUME DownType, NEW i \in DOMAIN down, down' = Without(down, i) PROVE DownType'
  BY WithoutLemma, BoundAssumption DEF DownType

LEMMA ExitType == ASSUME ClientType, Exit, UNCHANGED sent PROVE ClientType'
  BY DEF ClientType, Exit

LEMMA StartType == ASSUME ClientType, StartForwarding, UNCHANGED sent PROVE ClientType'
  BY ExitType DEF StartForwarding, ClientType, controller

LEMMA PluggedType ==
  ASSUME WorldType, NEW p \in Paths, plugged[p] # None
  PROVE  plugged[p] \in Controllers /\ plugged[p] # None
         /\ Identity[plugged[p]] \in {Identity[c] : c \in Controllers}
  BY DEF WorldType

LEMMA InitTyped == Init => Typed
<1> SUFFICES ASSUME Init PROVE Typed
  OBVIOUS
<1>1. UpType /\ DownType
  BY BoundAssumption DEF Init, UpType, DownType
<1>2. sent \in 0 .. MaxEvents /\ path \in Paths \cup {None}
  BY RequestedAssumption, BoundAssumption DEF Init
<1>3. ClientType
  BY <1>2 DEF Init, ClientType
<1>4. WorldType
  <2>1. plugged \in [Paths -> Controllers \cup {None}] /\ played \in 0 .. MaxEvents
    BY BoundAssumption DEF Init
  <2>2. transport \in {"udp", "iroh"} /\ link \in {"up", "closed"}
    BY DEF Init
  <2>3. device \in BOOLEAN /\ granted \in BOOLEAN
    BY DEF Init
  <2> QED
    BY <2>1, <2>2, <2>3 DEF WorldType
<1> QED
  BY <1>1, <1>3, <1>4 DEF Typed

LEMMA StepTyped == Typed /\ [Next]_vars => Typed'
<1> SUFFICES ASSUME Typed, [Next]_vars PROVE Typed'
  OBVIOUS
<1> USE Messages, ArrivingLemma DEF Typed
<1>1. CASE Keepalive
  <2>1. UpType'
    BY <1>1, SendUpType DEF Keepalive
  <2>2. ClientType'
    BY <1>1 DEF Keepalive, ClientType, controller
  <2> QED
    BY <1>1, <2>1, <2>2 DEF Keepalive, DownType, WorldType, env, server
<1>2. CASE AwaitPong
  <2>1. DownType'
    <3>1. down # <<>> /\ down' = Tail(down) /\ down \in Seq(Downward)
      BY <1>2 DEF AwaitPong, DownType
    <3>2. Tail(down) \in Seq(Downward) /\ Len(Tail(down)) = Len(down) - 1
      BY <3>1
    <3> QED
      BY <3>1, <3>2, BoundAssumption DEF DownType
  <2>2. ClientType'
    BY <1>2, ExitType DEF AwaitPong, ClientType, controller
  <2> QED
    BY <1>2, <2>1, <2>2 DEF AwaitPong, UpType, WorldType, env, server
<1>3. CASE AckTimeout
  BY <1>3, StartType DEF AckTimeout, UpType, DownType, WorldType, env, server
<1>4. CASE Forward
  <2>1. sent' \in 1 .. MaxEvents /\ Event(sent') \in Upward
    BY <1>4, BoundAssumption DEF Forward, ClientType
  <2>2. UpType'
    BY <1>4, <2>1, SendUpType DEF Forward
  <2>3. ClientType'
    BY <1>4, <2>1, BoundAssumption DEF Forward, ClientType, controller
  <2> QED
    BY <1>4, <2>2, <2>3 DEF Forward, DownType, WorldType, env, server
<1>5. CASE StreamEnds
  BY <1>5 DEF StreamEnds, ClientType, UpType, DownType, WorldType, env, server
<1>6. CASE LinkLost \/ SendRefused
  <2>1. Exit /\ UNCHANGED <<transport, sent, up, down, env, server>>
    BY <1>6 DEF LinkLost, SendRefused
  <2> QED
    BY <2>1, ExitType DEF UpType, DownType, WorldType, env, server
<1>7. ASSUME NEW i \in Handles, Acknowledge(i) PROVE Typed'
  <2>1. DownType'
    BY <1>7, TakeDownType DEF Acknowledge
  <2>2. ClientType'
    <3>1. CASE StartForwarding
      BY <1>7, <3>1, StartType DEF Acknowledge
    <3>2. CASE Exit
      BY <1>7, <3>2, ExitType DEF Acknowledge
    <3>3. CASE UNCHANGED <<phase, controller>>
      BY <1>7, <3>3 DEF Acknowledge, ClientType, controller
    <3> QED
      BY <1>7, <3>1, <3>2, <3>3 DEF Acknowledge
  <2> QED
    BY <1>7, <2>1, <2>2 DEF Acknowledge, UpType, WorldType, env, server
<1>8. ASSUME NEW i \in Handles, Ignore(i) PROVE Typed'
  <2>1. DownType'
    BY <1>8, TakeDownType DEF Ignore
  <2> QED
    BY <1>8, <2>1 DEF Ignore, ClientType, controller, UpType, WorldType, env, server
<1>9. ASSUME NEW i \in Handles, LoseDatagram(i) PROVE Typed'
  <2>1. UpType'
    BY <1>9, TakeUpType DEF LoseDatagram, UpType
  <2>2. DownType'
    BY <1>9, TakeDownType DEF LoseDatagram, DownType
  <2> QED
    BY <1>9, <2>1, <2>2 DEF LoseDatagram, ClientType, controller, WorldType, env, server
<1>10. ASSUME NEW p \in Paths, NEW c \in Controllers, Plug(p, c) PROVE Typed'
  BY <1>10 DEF Plug, ClientType, controller, UpType, DownType, WorldType, server
<1>11. ASSUME NEW p \in Paths, Unplug(p) PROVE Typed'
  <2>1. ClientType'
    BY <1>11 DEF Unplug, ClientType
  <2> QED
    BY <1>11, <2>1 DEF Unplug, UpType, DownType, WorldType, server
<1>12. ASSUME NEW p \in Paths, Announce(p) PROVE Typed'
  <2>1. UpType'
    BY <1>12, SendUpType DEF Announce
  <2>2. /\ plugged[p] \in Controllers /\ plugged[p] # None
        /\ Identity[plugged[p]] \in {Identity[c] : c \in Controllers}
    BY <1>12, PluggedType DEF Announce, Openable
  <2>3. ClientType'
    BY <1>12, <2>2 DEF Announce, ClientType
  <2> QED
    BY <1>12, <2>1, <2>3 DEF Announce, DownType, WorldType, env, server
<1>13. ASSUME NEW p \in Paths, Reopen(p) PROVE Typed'
  <2>1. plugged[p] \in Controllers /\ plugged[p] # None
    BY <1>13, PluggedType DEF Reopen, Candidates
  <2>2. ClientType'
    BY <1>13, <2>1 DEF Reopen, ClientType
  <2> QED
    BY <1>13, <2>2 DEF Reopen, UpType, DownType, WorldType, env, server
<1>14. ASSUME NEW p \in Paths, ReopenFails(p) PROVE Typed'
  BY <1>14 DEF ReopenFails, ClientType, UpType, DownType, WorldType, env, server
<1>15. ASSUME NEW i \in Handles, AnswerPing(i) PROVE Typed'
  <2>1. UpType'
    BY <1>15, TakeUpType DEF AnswerPing
  <2>2. DownType'
    BY <1>15, SendDownType DEF AnswerPing, DownType
  <2> QED
    BY <1>15, <2>1, <2>2 DEF AnswerPing, ClientType, controller, WorldType, server
<1>16. ASSUME NEW i \in Handles, NEW s \in Statuses, AnswerHandshake(i, s) PROVE Typed'
  <2>1. UpType'
    BY <1>16, TakeUpType DEF AnswerHandshake
  <2>2. DownType'
    BY <1>16, SendDownType DEF AnswerHandshake
  <2> QED
    BY <1>16, <2>1, <2>2 DEF AnswerHandshake, ClientType, controller, WorldType, env
<1>17. ASSUME NEW i \in Handles, PlayEvent(i) PROVE Typed'
  <2>1. UpType' /\ i \in DOMAIN up
    BY <1>17, TakeUpType DEF PlayEvent
  <2>2. up[i] \in Upward /\ up[i].type = "Events"
    BY <1>17, <2>1 DEF PlayEvent, UpType
  <2>3. up[i].n \in 1 .. MaxEvents
    BY <2>2, Kinds
  <2>4. played' \in 0 .. MaxEvents
    BY <1>17, <2>3 DEF PlayEvent, WorldType
  <2>5. WorldType'
    BY <1>17, <2>4 DEF PlayEvent, WorldType
  <2> QED
    BY <1>17, <2>1, <2>5 DEF PlayEvent, ClientType, controller, DownType
<1>18. CASE LoseDevice \/ CloseLink
  <2>1. WorldType'
    BY <1>18 DEF LoseDevice, CloseLink, WorldType, server
  <2> QED
    BY <1>18, <2>1 DEF LoseDevice, CloseLink, ClientType, controller, UpType, DownType
<1>19. CASE UNCHANGED vars
  BY <1>19 DEF vars, UpType, DownType, ClientType, WorldType, controller, env, server
<1> QED
  BY <1>1, <1>2, <1>3, <1>4, <1>5, <1>6, <1>7, <1>8, <1>9, <1>10, <1>11, <1>12,
     <1>13, <1>14, <1>15, <1>16, <1>17, <1>18, <1>19 DEF Next, ServerStep

LEMMA TypedAlways == Spec => []Typed
  BY InitTyped, StepTyped, PTL DEF Spec

(* Every variable stays in its range, and the client has a stream exactly  *)
(* when it has a controller to read it from (client.rs 511-580).           *)
THEOREM TypeCorrect == Spec => []TypeOK
  BY TypeParts, TypedAlways, PTL

-----------------------------------------------------------------------------
(* The announced model.                                                    *)

(* However many controllers come and go, at whatever nodes, what is        *)
(* forwarded looks like what was announced (client.rs 61-120).             *)
THEOREM AnnouncedOnly == Spec => []ForwardsAnnouncedModel
<1>1. Init => ForwardsAnnouncedModel
  BY DEF Init, ForwardsAnnouncedModel
<1>2. ForwardsAnnouncedModel /\ [Next]_vars => ForwardsAnnouncedModel'
  <2> SUFFICES ASSUME ForwardsAnnouncedModel, [Next]_vars
               PROVE  ForwardsAnnouncedModel'
    OBVIOUS
  <2> USE DEF ForwardsAnnouncedModel
  <2>1. CASE UNCHANGED controller
    BY <2>1 DEF controller
  <2>2. CASE Exit
    BY <2>2 DEF Exit
  <2>3. ASSUME NEW p \in Paths, Announce(p) PROVE ForwardsAnnouncedModel'
    BY <2>3 DEF Announce
  <2>4. ASSUME NEW p \in Paths, Reopen(p) PROVE ForwardsAnnouncedModel'
    BY <2>4 DEF Reopen, Candidates
  <2>5. ASSUME NEW p \in Paths, ReopenFails(p) \/ Unplug(p) PROVE ForwardsAnnouncedModel'
    BY <2>5 DEF ReopenFails, Unplug
  <2>6. CASE StreamEnds
    BY <2>6 DEF StreamEnds
  <2>7. CASE Keepalive \/ AwaitPong \/ AckTimeout \/ Forward \/ LinkLost \/ SendRefused
    BY <2>1, <2>2, <2>7
       DEF Keepalive, AwaitPong, AckTimeout, StartForwarding, Forward, LinkLost, SendRefused
  <2>8. ASSUME NEW i \in Handles, Acknowledge(i) \/ Ignore(i) \/ LoseDatagram(i)
        PROVE  ForwardsAnnouncedModel'
    BY <2>1, <2>2, <2>8 DEF Acknowledge, StartForwarding, Ignore, LoseDatagram
  <2>9. CASE ServerStep \/ LoseDevice \/ CloseLink
    BY <2>1, <2>9
       DEF ServerStep, AnswerPing, PlayEvent, AnswerHandshake, LoseDevice, CloseLink
  <2>10. ASSUME NEW p \in Paths, NEW c \in Controllers, Plug(p, c)
         PROVE  ForwardsAnnouncedModel'
    BY <2>1, <2>10 DEF Plug
  <2>11. CASE UNCHANGED vars
    BY <2>1, <2>11 DEF vars
  <2> QED
    BY <2>3, <2>4, <2>5, <2>6, <2>7, <2>8, <2>9, <2>10, <2>11 DEF Next
<1> QED
  BY <1>1, <1>2, PTL DEF Spec

-----------------------------------------------------------------------------
(* Ping and Pong.  Until the answer, an Iroh client has one message under  *)
(* way at most.                                                            *)

LEMMA WithoutOnly ==
  ASSUME NEW M, NEW ch \in Seq(M), Len(ch) = 1 PROVE Without(ch, 1) = <<>>
<1>1. 1 \in DOMAIN ch
  OBVIOUS
<1>2. Without(ch, 1) \in Seq(M) /\ Len(Without(ch, 1)) = 0
  BY <1>1, WithoutLemma
<1> QED
  BY <1>2

StepInv ==
  transport = "iroh" =>
    /\ phase = "wait" => up = <<>> /\ down = <<>>
    /\ phase = "pong" => \/ up = <<Ping>> /\ down = <<>>
                         \/ up = <<>> /\ down = <<Pong>>
    /\ phase = "ack" => \/ up = <<Handshake>> /\ down = <<>>
                        \/ up = <<>> /\ \E s \in Statuses : down = <<Ack(s)>>
    /\ phase \in {"wait", "pong"} => ~ granted

(* Nothing to show once the answer was read, or over Direct UDP.           *)
LEMMA StepDone ==
  ASSUME phase' \in {"forward", "exited"} \/ transport' # "iroh" PROVE StepInv'
  BY DEF StepInv

LEMMA StepStutter ==
  ASSUME StepInv, UNCHANGED <<transport, phase, up, down, granted>> PROVE StepInv'
  BY DEF StepInv

(* The one message of a stream.                                            *)
LEMMA OnlyArrival ==
  ASSUME NEW M, NEW m \in M, transport = "iroh", NEW i \in Arriving(<<m>>)
  PROVE  i = 1 /\ Without(<<m>>, i) = <<>> /\ <<m>>[i] = m
<1> DEFINE ch == <<m>>
<1>1. ch \in Seq(M) /\ Len(ch) = 1 /\ ch[1] = m
  OBVIOUS
<1>2. i = 1
  BY DEF Arriving
<1> HIDE DEF ch
<1>3. Without(ch, 1) = <<>>
  BY <1>1, WithoutOnly
<1> QED
  BY <1>1, <1>2, <1>3 DEF ch

LEMMA NoArrival == Arriving(<<>>) = {}
  BY DEF Arriving

LEMMA TransportStays == [Next]_vars => transport' = transport
  BY DEF Next, Keepalive, AwaitPong, AckTimeout, Forward, StreamEnds, LinkLost,
         SendRefused, Acknowledge, Ignore, LoseDatagram, Unplug, Announce, Reopen,
         ReopenFails, Plug, ServerStep, AnswerPing, PlayEvent, AnswerHandshake,
         LoseDevice, CloseLink, vars

LEMMA FirstArrives ==
  ASSUME NEW ch, transport = "iroh", NEW i \in Arriving(ch) PROVE i = 1 /\ 1 \in DOMAIN ch
  BY DEF Arriving

LEMMA StepStep == Typed /\ StepInv /\ [Next]_vars => StepInv'
<1> SUFFICES ASSUME Typed, StepInv, [Next]_vars PROVE StepInv'
  OBVIOUS
<1>0. transport' = transport
  BY TransportStays
<1>1. CASE transport # "iroh"
  BY <1>0, <1>1, StepDone
<1>2. CASE transport = "iroh"
  <2> USE <1>0, <1>2, Messages, Kinds
  <2>1. CASE Keepalive
    <3>1. CASE phase = "forward"
      BY <2>1, <3>1, StepDone DEF Keepalive
    <3>2. CASE phase = "wait"
      <4>1. up = <<>> /\ down = <<>> /\ ~ granted
        BY <3>2 DEF StepInv
      <4>2. up' = <<Ping>> /\ down' = <<>> /\ phase' = "pong" /\ granted' = granted
        BY <2>1, <3>2, <4>1 DEF Keepalive, SendUp, server
      <4> QED
        BY <4>1, <4>2 DEF StepInv
    <3> QED
      BY <2>1, <3>1, <3>2 DEF Keepalive
  <2>2. CASE AwaitPong
    <3>1. CASE Exit
      BY <3>1, StepDone DEF Exit
    <3>2. CASE phase' = "wait"
      <4>1. up = <<>> /\ down = <<Pong>> /\ ~ granted /\ down' = Tail(down)
            /\ up' = up /\ granted' = granted
        BY <2>2, <3>2 DEF AwaitPong, StepInv, server
      <4> QED
        BY <3>2, <4>1 DEF StepInv
    <3> QED
      BY <2>2, <3>1, <3>2 DEF AwaitPong
  <2>3. CASE AckTimeout \/ SendRefused
    BY <2>3 DEF AckTimeout, SendRefused
  <2>4. CASE Forward
    BY <2>4, StepDone DEF Forward
  <2>5. CASE LinkLost
    BY <2>5, StepDone DEF LinkLost, Exit
  <2>6. CASE StreamEnds
    BY <2>6, StepStutter DEF StreamEnds, server
  <2>7. ASSUME NEW i \in Handles, Acknowledge(i) PROVE StepInv'
    BY <2>7, StepDone DEF Acknowledge, StartForwarding, Exit
  <2>8. ASSUME NEW i \in Handles, Ignore(i) PROVE StepInv'
    BY <2>8, StepDone DEF Ignore
  <2>9. ASSUME NEW i \in Handles, LoseDatagram(i) PROVE StepInv'
    BY <2>9 DEF LoseDatagram
  <2>10. ASSUME NEW p \in Paths, Announce(p) PROVE StepInv'
    BY <2>10 DEF Announce, SendUp, StepInv, server
  <2>11. ASSUME NEW p \in Paths, Reopen(p) \/ ReopenFails(p) \/ Unplug(p) PROVE StepInv'
    BY <2>11, StepStutter DEF Reopen, ReopenFails, Unplug, server
  <2>12. ASSUME NEW p \in Paths, NEW c \in Controllers, Plug(p, c) PROVE StepInv'
    BY <2>12, StepStutter DEF Plug, server
  <2>13. ASSUME NEW i \in Handles, AnswerPing(i) PROVE StepInv'
    <3>1. CASE phase \in {"forward", "exited"}
      BY <2>13, <3>1, StepDone DEF AnswerPing
    <3>2. CASE phase \notin {"forward", "exited"}
      <4>1. i \in Arriving(up) /\ up[i] = Ping
        BY <2>13 DEF AnswerPing
      <4>2. phase = "pong" /\ up = <<Ping>> /\ down = <<>> /\ ~ granted
        BY <3>2, <4>1, NoArrival, OnlyArrival DEF StepInv, Typed, ClientType
      <4>3. up' = <<>> /\ down' = <<Pong>>
        BY <2>13, <4>1, <4>2, OnlyArrival DEF AnswerPing, Gone, SendDown
      <4>4. phase' = phase /\ granted' = granted
        BY <2>13 DEF AnswerPing, server
      <4> QED
        BY <4>2, <4>3, <4>4 DEF StepInv
    <3> QED
      BY <3>1, <3>2
  <2>14. ASSUME NEW i \in Handles, NEW s \in Statuses, AnswerHandshake(i, s) PROVE StepInv'
    <3>1. CASE phase \in {"forward", "exited"}
      BY <2>14, <3>1, StepDone DEF AnswerHandshake
    <3>2. CASE phase \notin {"forward", "exited"}
      <4>1. i \in Arriving(up) /\ up[i] = Handshake
        BY <2>14 DEF AnswerHandshake
      <4>2. phase = "ack" /\ up = <<Handshake>> /\ down = <<>>
        BY <3>2, <4>1, NoArrival, OnlyArrival DEF StepInv, Typed, ClientType
      <4>3. up' = <<>> /\ down' = <<Ack(s)>>
        BY <2>14, <4>1, <4>2, OnlyArrival DEF AnswerHandshake, SendDown
      <4>4. phase' = phase
        BY <2>14 DEF AnswerHandshake
      <4> QED
        BY <4>2, <4>3, <4>4 DEF StepInv
    <3> QED
      BY <3>1, <3>2
  <2>15. ASSUME NEW i \in Handles, PlayEvent(i) PROVE StepInv'
    <3>1. CASE phase \in {"forward", "exited"}
      BY <2>15, <3>1, StepDone DEF PlayEvent
    <3>2. CASE phase \notin {"forward", "exited"}
      <4>1. i \in Arriving(up) /\ up[i].type = "Events"
        BY <2>15 DEF PlayEvent
      <4> QED
        BY <3>2, <4>1, NoArrival, OnlyArrival DEF StepInv, Typed, ClientType
    <3> QED
      BY <3>1, <3>2
  <2>16. CASE LoseDevice \/ CloseLink
    BY <2>16, StepStutter DEF LoseDevice, CloseLink, server
  <2>17. CASE UNCHANGED vars
    BY <2>17, StepStutter DEF vars, server
  <2> QED
    BY <2>1, <2>2, <2>3, <2>4, <2>5, <2>6, <2>7, <2>8, <2>9, <2>10, <2>11, <2>12,
       <2>13, <2>14, <2>15, <2>16, <2>17 DEF Next, ServerStep
<1> QED
  BY <1>1, <1>2

LEMMA StepAlways == Spec => []StepInv
<1>1. Init => StepInv
  BY DEF Init, StepInv
<1> QED
  BY <1>1, StepStep, TypedAlways, PTL DEF Spec

(* Whatever the delays, an Iroh client that reads its answer never finds a *)
(* Pong of the time before in its place (client.rs 628-664, server.rs      *)
(* 472-478).                                                               *)
THEOREM AnswerReadFirst == Spec => []PongsInStep
<1>1. StepInv => PongsInStep
  BY Messages, Kinds DEF StepInv, PongsInStep
<1> QED
  BY <1>1, StepAlways, PTL

-----------------------------------------------------------------------------
(* Events over Iroh.  First: nothing is sent before the grant.             *)

Ok == Ack("Approved")

GrantInv ==
  transport = "iroh" /\
    (sent > 0 \/ phase = "forward" \/ (phase = "ack" /\ down = <<Ok>>)) => granted

Entitled == phase = "forward" \/ (phase = "ack" /\ down = <<Ok>>)

LEMMA GrantKeep ==
  ASSUME GrantInv, UNCHANGED <<transport, sent>>, granted => granted',
         Entitled' => Entitled \/ granted'
  PROVE  GrantInv'
<1>1. SUFFICES ASSUME transport = "iroh", sent > 0 \/ Entitled' PROVE granted'
  BY DEF GrantInv, Entitled
<1>2. CASE sent > 0 \/ Entitled
  <2>1. granted
    BY <1>1, <1>2 DEF GrantInv, Entitled
  <2> QED
    BY <2>1
<1> QED
  BY <1>1, <1>2

LEMMA GrantStutter ==
  ASSUME GrantInv, UNCHANGED <<transport, sent, phase, down>>, granted => granted'
  PROVE  GrantInv'
  BY GrantKeep DEF Entitled

LEMMA GrantStep == Typed /\ StepInv /\ GrantInv /\ [Next]_vars => GrantInv'
<1> SUFFICES ASSUME Typed, StepInv, GrantInv, [Next]_vars PROVE GrantInv'
  OBVIOUS
<1>1. CASE transport # "iroh"
  BY <1>1, TransportStays DEF GrantInv
<1>2. CASE transport = "iroh"
  <2> USE <1>2, Messages, Kinds
  <2>1. CASE Keepalive
    <3>1. UNCHANGED <<transport, sent, down, granted>> /\ (phase' = phase \/ phase' = "pong")
      BY <2>1 DEF Keepalive, server
    <3> QED
      BY <3>1, GrantKeep DEF Entitled
  <2>2. ASSUME Exit, UNCHANGED <<transport, sent, granted>> PROVE GrantInv'
    BY <2>2, GrantKeep DEF Exit, Entitled
  <2>3. CASE AwaitPong
    <3>1. UNCHANGED <<transport, sent, granted>> /\ (phase' = "wait" \/ Exit)
      BY <2>3 DEF AwaitPong, server
    <3>2. CASE phase' = "wait"
      BY <3>1, <3>2, GrantKeep DEF Entitled
    <3> QED
      BY <2>2, <3>1, <3>2
  <2>4. CASE AckTimeout \/ SendRefused
    BY <2>4 DEF AckTimeout, SendRefused
  <2>5. CASE Forward
    BY <2>5 DEF Forward, GrantInv, server
  <2>6. CASE LinkLost
    BY <2>2, <2>6 DEF LinkLost, server
  <2>7. CASE StreamEnds
    BY <2>7, GrantStutter DEF StreamEnds, server
  <2>8. ASSUME NEW i \in Handles, Acknowledge(i) PROVE GrantInv'
    <3>1. phase = "ack" /\ i \in Arriving(down) /\ UNCHANGED <<transport, sent, granted>>
      BY <2>8 DEF Acknowledge, server
    <3>2. PICK s \in Statuses : down = <<Ack(s)>>
      BY <3>1, NoArrival DEF StepInv
    <3>3. down[i] = Ack(s)
      BY <3>1, <3>2, OnlyArrival
    <3>4. CASE down[i] = Ok /\ StartForwarding
      <4>1. granted /\ granted' = granted
        BY <3>1, <3>2, <3>3, <3>4 DEF GrantInv, Ok
      <4> QED
        BY <4>1 DEF GrantInv
    <3> QED
      BY <2>2, <2>8, <3>1, <3>3, <3>4 DEF Acknowledge, Ok
  <2>9. ASSUME NEW i \in Handles, Ignore(i) PROVE GrantInv'
    <3>1. phase = "forward" /\ phase' = phase /\ UNCHANGED <<transport, sent, granted>>
      BY <2>9 DEF Ignore, server
    <3>2. Entitled
      BY <3>1 DEF Entitled
    <3>3. granted => granted'
      BY <3>1
    <3> QED
      BY <3>1, <3>2, <3>3, GrantKeep
  <2>10. ASSUME NEW i \in Handles, LoseDatagram(i) PROVE GrantInv'
    BY <2>10 DEF LoseDatagram
  <2>11. ASSUME NEW p \in Paths, Announce(p) PROVE GrantInv'
    <3>1. down' = <<>> /\ phase' = "ack" /\ UNCHANGED <<transport, sent, granted>>
      BY <2>11 DEF Announce, StepInv, server
    <3> QED
      BY <3>1, GrantKeep DEF Entitled
  <2>12. ASSUME NEW p \in Paths, Reopen(p) \/ ReopenFails(p) \/ Unplug(p) PROVE GrantInv'
    BY <2>12, GrantStutter DEF Reopen, ReopenFails, Unplug, server
  <2>13. ASSUME NEW p \in Paths, NEW c \in Controllers, Plug(p, c) PROVE GrantInv'
    BY <2>13, GrantStutter DEF Plug, server
  <2>14. ASSUME NEW i \in Handles, AnswerPing(i) PROVE GrantInv'
    <3>1. UNCHANGED <<transport, sent, phase, granted>>
      BY <2>14 DEF AnswerPing, server
    <3>2. CASE down' = down
      BY <3>1, <3>2, GrantStutter
    <3>3. CASE down' = Append(down, Pong)
      <4>1. down' # <<Ok>>
        <5>1. down \in Seq(Downward)
          BY DEF Typed, DownType
        <5>2. Pong # Ok
          BY DEF Ok, Statuses
        <5>3. down'[Len(down')] = Pong
          BY <3>3, <5>1
        <5>4. \A m : Len(<<m>>) = 1 /\ <<m>>[1] = m
          OBVIOUS
        <5> QED
          BY <5>2, <5>3, <5>4
      <4> QED
        BY <3>1, <4>1, GrantKeep DEF Entitled
    <3> QED
      BY <2>14, <3>2, <3>3 DEF AnswerPing, SendDown
  <2>15. ASSUME NEW i \in Handles, NEW s \in Statuses, AnswerHandshake(i, s) PROVE GrantInv'
    <3>1. UNCHANGED <<transport, sent, phase>> /\ (granted => granted')
      BY <2>15 DEF AnswerHandshake
    <3>2. CASE phase = "ack"
      <4>1. i \in Arriving(up) /\ up[i] = Handshake /\ down' = Append(down, Ack(s))
        BY <2>15 DEF AnswerHandshake, SendDown
      <4>2. down = <<>>
        BY <3>2, <4>1, NoArrival DEF StepInv
      <4>3. down' = <<Ok>> => s = "Approved"
        BY <4>1, <4>2 DEF Ok, Statuses
      <4>4. s = "Approved" => granted'
        BY <2>15 DEF AnswerHandshake
      <4>5. Entitled' => granted'
        BY <3>1, <3>2, <4>3, <4>4 DEF Entitled
      <4> QED
        BY <3>1, <4>5, GrantKeep
    <3>3. CASE phase # "ack"
      BY <3>1, <3>3, GrantKeep DEF Entitled
    <3> QED
      BY <3>2, <3>3
  <2>16. ASSUME NEW i \in Handles, PlayEvent(i) PROVE GrantInv'
    BY <2>16, GrantStutter DEF PlayEvent
  <2>17. CASE LoseDevice \/ CloseLink
    BY <2>17, GrantStutter DEF LoseDevice, CloseLink, server
  <2>18. CASE UNCHANGED vars
    BY <2>18, GrantStutter DEF vars, server
  <2> QED
    BY <2>1, <2>3, <2>4, <2>5, <2>6, <2>7, <2>8, <2>9, <2>10, <2>11, <2>12, <2>13,
       <2>14, <2>15, <2>16, <2>17, <2>18 DEF Next, ServerStep
<1> QED
  BY <1>1, <1>2

-----------------------------------------------------------------------------
(* Then: while the stream is up it holds the events that were sent and not *)
(* played, in order, among Pings.                                          *)

IsEvent(m) == m.type = "Events"

InOrder ==
  /\ played <= sent
  /\ \A i \in DOMAIN up : IsEvent(up[i]) => up[i].n \in played + 1 .. sent
  /\ \A i, j \in DOMAIN up :
       i < j /\ IsEvent(up[i]) /\ IsEvent(up[j]) => up[i].n < up[j].n
  /\ \A n \in played + 1 .. sent : \E i \in DOMAIN up : up[i] = Event(n)

OrderInv == transport = "iroh" /\ link = "up" => InOrder

LEMMA OrderAppend ==
  ASSUME Typed, InOrder, NEW m \in Upward, up' = Append(up, m), ~ IsEvent(m),
         UNCHANGED <<sent, played>>
  PROVE  InOrder'
<1>1. /\ Len(up) \in Nat /\ DOMAIN up = 1 .. Len(up) /\ DOMAIN up' = 1 .. Len(up) + 1
      /\ up'[Len(up) + 1] = m /\ \A i \in DOMAIN up : up'[i] = up[i]
  BY DEF Typed, UpType
<1>2. \A i \in DOMAIN up' : IsEvent(up'[i]) => i \in DOMAIN up /\ up'[i] = up[i]
  BY <1>1
<1>3. \A i \in DOMAIN up : i \in DOMAIN up'
  BY <1>1
<1> QED
  BY <1>1, <1>2, <1>3 DEF InOrder

LEMMA OrderForward ==
  ASSUME Typed, InOrder, up' = Append(up, Event(sent + 1)), sent' = sent + 1,
         sent < MaxEvents, UNCHANGED played
  PROVE  InOrder'
<1>1. /\ Len(up) \in Nat /\ DOMAIN up = 1 .. Len(up) /\ DOMAIN up' = 1 .. Len(up) + 1
      /\ up'[Len(up) + 1] = Event(sent + 1) /\ \A i \in DOMAIN up : up'[i] = up[i]
  BY DEF Typed, UpType
<1>2. sent \in Nat /\ played \in Nat /\ played <= sent
  BY BoundAssumption DEF Typed, ClientType, WorldType, InOrder
<1>3. ASSUME NEW i \in DOMAIN up', IsEvent(up'[i])
      PROVE  up'[i].n \in played' + 1 .. sent'
  <2>1. CASE i \in DOMAIN up
    BY <1>1, <1>2, <1>3, <2>1 DEF InOrder
  <2>2. CASE i = Len(up) + 1
    BY <1>1, <1>2, <2>2, Kinds
  <2> QED
    BY <1>1, <2>1, <2>2
<1>4. ASSUME NEW i \in DOMAIN up', NEW j \in DOMAIN up', i < j,
             IsEvent(up'[i]), IsEvent(up'[j])
      PROVE  up'[i].n < up'[j].n
  <2>1. i \in DOMAIN up
    BY <1>1, <1>4
  <2>2. CASE j \in DOMAIN up
    BY <1>1, <1>4, <2>1, <2>2 DEF InOrder
  <2>3. CASE j = Len(up) + 1
    <3>1. up'[j].n = sent + 1
      BY <1>1, <2>3, Kinds
    <3>2. up'[i].n \in played + 1 .. sent
      BY <1>1, <1>4, <2>1 DEF InOrder
    <3> QED
      BY <1>2, <3>1, <3>2
  <2> QED
    BY <1>1, <2>2, <2>3
<1>5. ASSUME NEW n \in played' + 1 .. sent'
      PROVE  \E i \in DOMAIN up' : up'[i] = Event(n)
  <2>1. CASE n \in played + 1 .. sent
    BY <1>1, <2>1 DEF InOrder
  <2>2. CASE n = sent + 1
    BY <1>1, <2>2
  <2> QED
    BY <1>2, <1>5, <2>1, <2>2
<1>6. played' <= sent'
  BY <1>2 DEF InOrder
<1> QED
  BY <1>3, <1>4, <1>5, <1>6 DEF InOrder

(* What is left when the stream has given up its first message.            *)
LEMMA Rest ==
  ASSUME Typed, 1 \in DOMAIN up, up' = Without(up, 1)
  PROVE  /\ \A i \in DOMAIN up' : i + 1 \in DOMAIN up /\ up'[i] = up[i + 1]
                                   /\ i \in Nat /\ i > 0
         /\ \A j \in DOMAIN up : j # 1 => j - 1 \in DOMAIN up' /\ up'[j - 1] = up[j]
                                          /\ j > 1 /\ j \in Nat
<1>1. up \in Seq(Upward)
  BY DEF Typed, UpType
<1>2. up' \in Seq(Upward) /\ Len(up') = Len(up) - 1
      /\ \A j \in 1 .. Len(up) - 1 : up'[j] = up[j + 1]
  BY <1>1, WithoutLemma, WithoutFirst
<1> QED
  BY <1>1, <1>2

LEMMA OrderTake ==
  ASSUME Typed, InOrder, 1 \in DOMAIN up, up' = Without(up, 1), ~ IsEvent(up[1]),
         UNCHANGED <<sent, played>>
  PROVE  InOrder'
<1>1. \A i \in DOMAIN up' : IsEvent(up'[i]) => up'[i].n \in played + 1 .. sent
  BY Rest DEF InOrder
<1>2. \A i, j \in DOMAIN up' :
        i < j /\ IsEvent(up'[i]) /\ IsEvent(up'[j]) => up'[i].n < up'[j].n
  BY Rest DEF InOrder
<1>3. ASSUME NEW n \in played + 1 .. sent PROVE \E i \in DOMAIN up' : up'[i] = Event(n)
  <2>1. PICK i \in DOMAIN up : up[i] = Event(n)
    BY <1>3 DEF InOrder
  <2>2. i # 1
    BY <2>1, Kinds DEF IsEvent
  <2> QED
    BY <2>1, <2>2, Rest
<1> QED
  BY <1>1, <1>2, <1>3 DEF InOrder

(* The first event in the stream is the next one to be played.             *)
LEMMA NextEvent ==
  ASSUME Typed, InOrder, 1 \in DOMAIN up, IsEvent(up[1])
  PROVE  up[1].n = played + 1 /\ played < sent
<1>1. sent \in Nat /\ played \in Nat
  BY BoundAssumption DEF Typed, ClientType, WorldType
<1>2. up[1].n \in played + 1 .. sent
  BY DEF InOrder
<1>3. PICK j \in DOMAIN up : up[j] = Event(played + 1)
  BY <1>1, <1>2 DEF InOrder
<1>4. IsEvent(up[j]) /\ up[j].n = played + 1
  BY <1>3, Kinds DEF IsEvent
<1>5. j = 1 \/ 1 < j
  BY DEF Typed, UpType
<1>6. 1 < j => up[1].n < up[j].n
  BY <1>4 DEF InOrder
<1> QED
  BY <1>1, <1>2, <1>4, <1>5, <1>6

LEMMA SomethingSent ==
  ASSUME Typed, InOrder, 1 \in DOMAIN up, IsEvent(up[1])
  PROVE  sent > 0
<1>1. sent \in Nat /\ played \in Nat
  BY BoundAssumption DEF Typed, ClientType, WorldType
<1> QED
  BY <1>1, NextEvent

LEMMA OrderPlay ==
  ASSUME Typed, InOrder, 1 \in DOMAIN up, IsEvent(up[1]), up' = Without(up, 1),
         played' = up[1].n, UNCHANGED sent
  PROVE  InOrder'
<1>1. /\ sent \in Nat /\ played \in Nat /\ played < sent
      /\ played' = played + 1 /\ up[1].n = played + 1
  BY BoundAssumption, NextEvent DEF Typed, ClientType, WorldType
<1>2. ASSUME NEW i \in DOMAIN up', IsEvent(up'[i]) PROVE up'[i].n \in played' + 1 .. sent
  <2>1. i + 1 \in DOMAIN up /\ up'[i] = up[i + 1] /\ 1 < i + 1
    BY Rest DEF Typed, UpType
  <2>2. up[i + 1].n \in played + 1 .. sent /\ up[1].n < up[i + 1].n
    BY <1>2, <2>1 DEF InOrder
  <2> QED
    BY <1>1, <2>1, <2>2
<1>3. \A i, j \in DOMAIN up' :
        i < j /\ IsEvent(up'[i]) /\ IsEvent(up'[j]) => up'[i].n < up'[j].n
  BY Rest DEF InOrder
<1>4. ASSUME NEW n \in played' + 1 .. sent PROVE \E i \in DOMAIN up' : up'[i] = Event(n)
  <2>1. PICK i \in DOMAIN up : up[i] = Event(n)
    BY <1>1, <1>4 DEF InOrder
  <2>2. i # 1
    BY <1>1, <1>4, <2>1, Kinds
  <2> QED
    BY <2>1, <2>2, Rest
<1>5. played' <= sent'
  BY <1>1
<1> QED
  BY <1>2, <1>3, <1>4, <1>5 DEF InOrder

LEMMA OrderStep ==
  Typed /\ StepInv /\ GrantInv /\ OrderInv /\ [Next]_vars => OrderInv'
<1> SUFFICES ASSUME Typed, StepInv, GrantInv, OrderInv, [Next]_vars,
                    transport' = "iroh", link' = "up"
             PROVE  InOrder'
  BY DEF OrderInv
<1>1. transport = "iroh"
  BY TransportStays
<1>2. link = "up"
  BY DEF Next, Keepalive, AwaitPong, AckTimeout, Forward, StreamEnds, LinkLost,
         SendRefused, Acknowledge, Ignore, LoseDatagram, Unplug, Announce, Reopen,
         ReopenFails, Plug, ServerStep, AnswerPing, PlayEvent, AnswerHandshake,
         LoseDevice, CloseLink, Gone, vars, env
<1>3. InOrder
  BY <1>1, <1>2 DEF OrderInv
<1>4. ASSUME UNCHANGED <<up, sent, played>> PROVE InOrder'
  BY <1>3, <1>4 DEF InOrder
<1>5. CASE Keepalive
  BY <1>3, <1>5, OrderAppend, Messages, Kinds DEF Keepalive, SendUp, server, IsEvent
<1>6. CASE Forward
  BY <1>3, <1>6, OrderForward DEF Forward, SendUp, server
<1>7. ASSUME NEW p \in Paths, Announce(p) PROVE InOrder'
  BY <1>3, <1>7, OrderAppend, Messages, Kinds DEF Announce, SendUp, server, IsEvent
<1>8. ASSUME NEW i \in Handles, AnswerPing(i) PROVE InOrder'
  <2>1. i = 1 /\ 1 \in DOMAIN up /\ up' = Without(up, 1) /\ up[1] = Ping
    BY <1>1, <1>8, FirstArrives DEF AnswerPing
  <2>2. UNCHANGED <<sent, played>>
    BY <1>8 DEF AnswerPing, server
  <2> QED
    BY <1>3, <2>1, <2>2, OrderTake, Kinds DEF IsEvent
<1>9. ASSUME NEW i \in Handles, NEW s \in Statuses, AnswerHandshake(i, s) PROVE InOrder'
  <2>1. i = 1 /\ 1 \in DOMAIN up /\ up' = Without(up, 1) /\ up[1] = Handshake
    BY <1>1, <1>9, FirstArrives DEF AnswerHandshake
  <2>2. UNCHANGED <<sent, played>>
    BY <1>9 DEF AnswerHandshake
  <2> QED
    BY <1>3, <2>1, <2>2, OrderTake, Kinds DEF IsEvent
<1>10. ASSUME NEW i \in Handles, PlayEvent(i) PROVE InOrder'
  <2>1. 1 \in DOMAIN up /\ IsEvent(up[1]) /\ i = 1
    BY <1>1, <1>10, FirstArrives DEF PlayEvent, IsEvent
  <2>2. device
    <3>1. granted
      BY <1>1, <1>3, <2>1, SomethingSent DEF GrantInv
    <3>2. ~ Gone
      BY <1>10 DEF PlayEvent
    <3> QED
      BY <1>1, <3>1, <3>2 DEF Gone
  <2>3. up' = Without(up, 1) /\ sent' = sent /\ played' = up[1].n
    BY <1>10, <2>1, <2>2 DEF PlayEvent
  <2> QED
    BY <1>3, <2>1, <2>3, OrderPlay
<1>11. CASE AwaitPong \/ AckTimeout \/ StreamEnds \/ LinkLost \/ SendRefused
  BY <1>4, <1>11 DEF AwaitPong, AckTimeout, StreamEnds, LinkLost, SendRefused, server
<1>12. ASSUME NEW i \in Handles, Acknowledge(i) \/ Ignore(i) PROVE InOrder'
  BY <1>4, <1>12 DEF Acknowledge, Ignore, server
<1>13. ASSUME NEW i \in Handles, LoseDatagram(i) PROVE InOrder'
  BY <1>1, <1>13 DEF LoseDatagram
<1>14. ASSUME NEW p \in Paths, Reopen(p) \/ ReopenFails(p) \/ Unplug(p) PROVE InOrder'
  BY <1>4, <1>14 DEF Reopen, ReopenFails, Unplug, server
<1>15. ASSUME NEW p \in Paths, NEW c \in Controllers, Plug(p, c) PROVE InOrder'
  BY <1>4, <1>15 DEF Plug, server
<1>16. CASE LoseDevice \/ CloseLink
  BY <1>4, <1>16 DEF LoseDevice, CloseLink, server
<1>17. CASE UNCHANGED vars
  BY <1>4, <1>17 DEF vars, server
<1> QED
  BY <1>5, <1>6, <1>7, <1>8, <1>9, <1>10, <1>11, <1>12, <1>13, <1>14, <1>15, <1>16,
     <1>17 DEF Next, ServerStep

(* A step of the client or the server is a step of the relay, or none.     *)
LEMMA RelayStep ==
  Typed /\ GrantInv /\ OrderInv /\ [Next]_vars => [Relay!Next]_(Relay!relayVars)
<1> SUFFICES ASSUME Typed, GrantInv, OrderInv, [Next]_vars
             PROVE  Relay!Next \/ UNCHANGED Relay!relayVars
  OBVIOUS
<1>0. transport' = transport
  BY TransportStays
<1>1. CASE transport # "iroh"
  BY <1>0, <1>1 DEF Relay!relayVars, Iroh
<1>2. CASE transport = "iroh"
  <2>1. Iroh /\ Iroh'
    BY <1>0, <1>2 DEF Iroh
  <2>2. ASSUME UNCHANGED <<granted, sent, played>> PROVE UNCHANGED Relay!relayVars
    BY <2>1, <2>2 DEF Relay!relayVars
  <2>3. CASE Forward
    <3>1. granted /\ granted' = granted /\ sent' = sent + 1 /\ played' = played
      BY <1>2, <2>3 DEF Forward, GrantInv, server
    <3>2. Relay!Produce
      BY <2>1, <3>1 DEF Relay!Produce
    <3> QED
      BY <3>2 DEF Relay!Next
  <2>4. ASSUME NEW i \in Handles, NEW s \in Statuses, AnswerHandshake(i, s)
        PROVE  Relay!Next \/ UNCHANGED Relay!relayVars
    <3>1. sent' = sent /\ played' = played
      BY <2>4 DEF AnswerHandshake
    <3>2. CASE s = "Approved"
      <4>1. granted' = TRUE
        BY <2>4, <3>2 DEF AnswerHandshake
      <4>2. Relay!Grant
        BY <2>1, <3>1, <4>1 DEF Relay!Grant
      <4> QED
        BY <4>2 DEF Relay!Next
    <3>3. CASE s # "Approved"
      <4>1. granted' = granted
        BY <2>4, <3>3 DEF AnswerHandshake, Typed, WorldType
      <4> QED
        BY <2>2, <3>1, <4>1
    <3> QED
      BY <3>2, <3>3
  <2>5. ASSUME NEW i \in Handles, PlayEvent(i)
        PROVE  Relay!Next \/ UNCHANGED Relay!relayVars
    <3>1. sent' = sent /\ granted' = granted
      BY <2>5 DEF PlayEvent
    <3>2. CASE device
      <4>1. 1 \in DOMAIN up /\ IsEvent(up[1]) /\ i = 1 /\ link = "up"
        BY <1>2, <2>5, FirstArrives DEF PlayEvent, IsEvent
      <4>2. InOrder
        BY <1>2, <4>1 DEF OrderInv
      <4>3. played' = up[1].n
        BY <2>5, <3>2, <4>1 DEF PlayEvent
      <4>4. played' = played + 1 /\ played < sent
        BY <4>1, <4>2, <4>3, NextEvent
      <4>5. granted
        BY <1>2, <4>1, <4>2, SomethingSent DEF GrantInv
      <4>6. Relay!Play
        BY <2>1, <3>1, <4>4, <4>5 DEF Relay!Play
      <4> QED
        BY <4>6 DEF Relay!Next
    <3>3. CASE ~ device
      BY <2>2, <2>5, <3>1, <3>3 DEF PlayEvent
    <3> QED
      BY <3>2, <3>3
  <2>6. CASE \/ Keepalive \/ AwaitPong \/ AckTimeout \/ StreamEnds \/ LinkLost
             \/ SendRefused \/ LoseDevice \/ CloseLink \/ UNCHANGED vars
    BY <2>2, <2>6 DEF Keepalive, AwaitPong, AckTimeout, StreamEnds, LinkLost,
                      SendRefused, LoseDevice, CloseLink, vars, server
  <2>7. ASSUME NEW i \in Handles,
               Acknowledge(i) \/ Ignore(i) \/ LoseDatagram(i) \/ AnswerPing(i)
        PROVE  UNCHANGED Relay!relayVars
    BY <2>2, <2>7 DEF Acknowledge, Ignore, LoseDatagram, AnswerPing, server
  <2>8. ASSUME NEW p \in Paths,
               Unplug(p) \/ Announce(p) \/ Reopen(p) \/ ReopenFails(p)
        PROVE  UNCHANGED Relay!relayVars
    BY <2>2, <2>8 DEF Unplug, Announce, Reopen, ReopenFails, server
  <2>9. ASSUME NEW p \in Paths, NEW c \in Controllers, Plug(p, c)
        PROVE  UNCHANGED Relay!relayVars
    BY <2>2, <2>9 DEF Plug, server
  <2> QED
    BY <2>3, <2>4, <2>5, <2>6, <2>7, <2>8, <2>9 DEF Next, ServerStep
<1> QED
  BY <1>1, <1>2

(* For any number of events and any channel bound: over Iroh the server    *)
(* plays what the client sent, in order, each event at most once, and      *)
(* nothing before the grant (client.rs 584-781, server.rs 585-603).        *)
THEOREM EventsRelayed == Spec => RelaysEvents
<1>1. Init => GrantInv /\ OrderInv /\ Relay!Init
  BY DEF Init, GrantInv, OrderInv, InOrder, Relay!Init, Iroh
<1>2. Spec => []GrantInv
  BY <1>1, GrantStep, TypedAlways, StepAlways, PTL DEF Spec
<1>3. Spec => []OrderInv
  BY <1>1, <1>2, OrderStep, TypedAlways, StepAlways, PTL DEF Spec
<1> QED
  BY <1>1, <1>2, <1>3, RelayStep, TypedAlways, PTL DEF Spec, RelaysEvents, Relay!Spec
=============================================================================
