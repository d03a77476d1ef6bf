---------------------------- MODULE SessionServer ----------------------------
(***************************************************************************)
(* The JoycastServer of src/src/server.rs: one task serves all Direct UDP  *)
(* datagrams, one task serves each Iroh connection, one task reaps idle    *)
(* sessions.  They share the table of sessions, whose entries own the      *)
(* virtual uinput devices, under one tokio mutex, which is held while a    *)
(* device is created and while the handshake is answered.  The mutex       *)
(* serves its waiters in order.                                            *)
(*                                                                         *)
(* The trust store is the TrustRegistry it implements: is_approved and     *)
(* register_pending are two atomic calls.  Pongs are left out: no lock is  *)
(* held while one is written, and a failed write ends the handler like a   *)
(* failed read.                                                            *)
(***************************************************************************)
EXTENDS Naturals, Sequences, FiniteSets

CONSTANTS
  Addrs,      \* source addresses of datagrams
  Conns,      \* Iroh connection handlers
  UdpTask,    \* the Direct UDP loop
  Reaper,     \* the reaper loop
  Payloads,   \* handshake payloads, see PayloadAssumption
  Hosts,      \* client host names
  Metas,      \* device metadata: name, ids, keys and axes
  None,       \* no session, no route, no handshake
  IdleLimit   \* ticks of inactivity after which a session is reaped (15 min)

(* Keys: session keys "<client_id>:<device_id or name>", of one client.    *)
Keys == {p.key : p \in Payloads}
Clients == {p.client : p \in Payloads}

ASSUME PayloadAssumption ==
  /\ IsFiniteSet(Payloads)
  /\ \A p \in Payloads : p.host \in Hosts /\ p.meta \in Metas
  /\ \A p, q \in Payloads : p.key = q.key => p.client = q.client
ASSUME IdleLimitAssumption == IdleLimit \in Nat \ {0}
ASSUME TaskAssumption ==
  UdpTask # Reaper /\ UdpTask \notin Conns /\ Reaper \notin Conns

Threads == {UdpTask, Reaper} \cup Conns

Session == [host : Hosts, number : Nat, meta : Metas, idle : 0 .. IdleLimit]
ASSUME NoneAssumption == None \notin Session \cup Keys \cup Payloads

VARIABLES
  approved,  \* the trust registry: approved clients
  pending,   \* the trust registry: clients waiting for approval
  sessions,  \* active_sessions: key -> SessionEntry
  routes,    \* client_sessions: address -> key
  queue,     \* holder (first) and waiters of the mutex on sessions
  pc,        \* pc[t]: what thread t does next
  hello,     \* hello[t]: the handshake payload thread t serves
  peer,      \* the address of the datagram the UDP task serves
  acks,      \* history: the last answer to each address and its handshake
  trusted,   \* history: every client that was approved at some time
  reaped     \* history: the reaper removed a session since the start

vars == <<approved, pending, sessions, routes, queue, pc, hello, peer, acks,
          trusted, reaped>>
trust == <<approved, pending, trusted>>

Statuses == {"None", "Approved", "PendingApproval", "Rejected"}

TypeOK ==
  /\ approved \subseteq Clients /\ pending \subseteq Clients /\ trusted \subseteq Clients
  /\ sessions \in [Keys -> Session \cup {None}]
  /\ routes \in [Addrs -> Keys \cup {None}]
  /\ queue \in Seq(Threads)
  /\ pc \in [Threads -> {"recv", "sleep", "reap", "closed", "hello", "pend",
                         "serve", "ack", "reject", "open", "touch"}]
  /\ hello \in [Threads -> Payloads \cup {None}]
  /\ peer \in Addrs \cup {None}
  /\ acks \in [Addrs -> [status : Statuses, payload : Payloads \cup {None}]]
  /\ reaped \in BOOLEAN

Idling == [t \in Threads |-> CASE t = UdpTask -> "recv"
                               [] t = Reaper -> "sleep"
                               [] OTHER -> "closed"]
NoAck == [status |-> "None", payload |-> None]

(* bind and run: whatever the daemon holds in memory is empty; the trust   *)
(* store holds what earlier daemons left.                                  *)
Init ==
  /\ approved \in SUBSET Clients /\ pending = {} /\ trusted = approved
  /\ sessions = [k \in Keys |-> None]
  /\ routes = [a \in Addrs |-> None]
  /\ queue = <<>>
  /\ pc = Idling
  /\ hello = [t \in Threads |-> None]
  /\ peer = None
  /\ acks = [a \in Addrs |-> NoAck]
  /\ reaped = FALSE

-----------------------------------------------------------------------------
(* The session table and its mutex.                                        *)

Live == {k \in Keys : sessions[k] # None}
Holds(t) == queue # <<>> /\ Head(queue) = t
Release == queue' = Tail(queue)
GoTo(t, step) == pc' = [pc EXCEPT ![t] = step]

(* Mutant: a client that is listed, approved or not, is served.            *)
AdmitListed(t, p) ==
  /\ hello' = [hello EXCEPT ![t] = p]
  /\ IF p.client \in approved \cup pending
     THEN GoTo(t, "serve") /\ queue' = Append(queue, t)
     ELSE GoTo(t, "pend") /\ UNCHANGED queue

(* An approved handshake asks for the mutex, any other is registered first.*)
Admit(t, p) ==
  /\ hello' = [hello EXCEPT ![t] = p]
  /\ IF p.client \in approved
     THEN GoTo(t, "serve") /\ queue' = Append(queue, t)
     ELSE GoTo(t, "pend") /\ UNCHANGED queue

(* TrustManager::register_pending, which finds the client approved or not. *)
Register(c) ==
  /\ pending' = IF c \in approved THEN pending ELSE pending \cup {c}
  /\ UNCHANGED <<approved, trusted>>

(* A device is named "<host>: <name>" if its host has no other one, else   *)
(* "<host> #<n>: <name>"; number 0 stands for the former.                  *)
SameHost(h) == {k \in Live : sessions[k].host = h}
(* Mutant: the second device of a host gets no number.                     *)
NewSessionOffByOne(p) ==
  LET count == Cardinality(SameHost(p.host))
  IN [host |-> p.host, number |-> IF count <= 1 THEN 0 ELSE count + 1,
      meta |-> p.meta, idle |-> 0]

NewSession(p) ==
  LET count == Cardinality(SameHost(p.host))
  IN [host |-> p.host, number |-> IF count = 0 THEN 0 ELSE count + 1,
      meta |-> p.meta, idle |-> 0]

(* last_active = now.                                                      *)
Touch(k) == sessions' = [sessions EXCEPT ![k].idle = 0]

(* Mutant: a device that could not be created is answered as if it were.   *)
ServeUnchecked(t) ==
  LET p == hello[t] IN
  /\ pc[t] = "serve" /\ Holds(t)
  /\ \/ p.key \in Live /\ Touch(p.key)
     \/ p.key \notin Live /\ sessions' = [sessions EXCEPT ![p.key] = NewSession(p)]
     \/ p.key \notin Live /\ UNCHANGED sessions
  /\ GoTo(t, "ack")
  /\ UNCHANGED <<trust, queue, hello, peer, acks, reaped>>

(* Mutant: the device is torn down and made anew when its client reconnects.*)
ServeAnew(t) ==
  LET p == hello[t] IN
  /\ pc[t] = "serve" /\ Holds(t)
  /\ sessions' = [sessions EXCEPT ![p.key] = NewSession(p)]
  /\ GoTo(t, "ack")
  /\ UNCHANGED <<trust, queue, hello, peer, acks, reaped>>

(* Under the mutex: reuse the session of the key, or create its device,    *)
(* which uinput may refuse.                                                *)
Serve(t) ==
  LET p == hello[t] IN
  /\ pc[t] = "serve" /\ Holds(t)
  /\ \/ p.key \in Live /\ Touch(p.key) /\ GoTo(t, "ack")
     \/ /\ p.key \notin Live
        /\ sessions' = [sessions EXCEPT ![p.key] = NewSession(p)]
        /\ GoTo(t, "ack")
     \/ p.key \notin Live /\ UNCHANGED sessions /\ GoTo(t, "reject")
  /\ UNCHANGED <<trust, queue, hello, peer, acks, reaped>>

-----------------------------------------------------------------------------
(* The Direct UDP loop.                                                    *)

(* Mutant: the route of an earlier handshake is not dropped.               *)
UdpHandshakeKeepsRoute(a, p) ==
  /\ pc[UdpTask] = "recv"
  /\ peer' = a
  /\ acks' = [acks EXCEPT ![a] = [status |-> "None", payload |-> p]]
  /\ Admit(UdpTask, p)
  /\ UNCHANGED <<trust, sessions, routes, reaped>>

(* A handshake drops the route of its address before anything else.        *)
UdpHandshake(a, p) ==
  /\ pc[UdpTask] = "recv"
  /\ routes' = [routes EXCEPT ![a] = None]
  /\ peer' = a
  /\ acks' = [acks EXCEPT ![a] = [status |-> "None", payload |-> p]]
  /\ Admit(UdpTask, p)
  /\ UNCHANGED <<trust, sessions, reaped>>

UdpAnswer(status) ==
  /\ GoTo(UdpTask, "recv")
  /\ acks' = [acks EXCEPT ![peer].status = status]
  /\ hello' = [hello EXCEPT ![UdpTask] = None]
  /\ peer' = None

UdpPend ==
  /\ pc[UdpTask] = "pend"
  /\ Register(hello[UdpTask].client)
  /\ UdpAnswer("PendingApproval")
  /\ UNCHANGED <<sessions, routes, queue, reaped>>

(* Mutant: only who gets a new device gets a route.                        *)
UdpServeNewRoute ==
  /\ Serve(UdpTask)
  /\ routes' = IF pc'[UdpTask] = "ack" /\ hello[UdpTask].key \notin Live
               THEN [routes EXCEPT ![peer] = hello[UdpTask].key]
               ELSE routes

UdpServe ==
  /\ Serve(UdpTask)
  /\ routes' = IF pc'[UdpTask] = "ack"
               THEN [routes EXCEPT ![peer] = hello[UdpTask].key]
               ELSE routes

(* Mutant: the guard outlives the answer.                                  *)
UdpReplyKeepsLock ==
  /\ \/ pc[UdpTask] = "ack" /\ UdpAnswer("Approved")
     \/ pc[UdpTask] = "reject" /\ UdpAnswer("Rejected")
  /\ UNCHANGED <<trust, sessions, routes, queue, reaped>>

(* The answer is sent, and only then the mutex released.                   *)
UdpReply ==
  /\ \/ pc[UdpTask] = "ack" /\ UdpAnswer("Approved")
     \/ pc[UdpTask] = "reject" /\ UdpAnswer("Rejected")
  /\ Release
  /\ UNCHANGED <<trust, sessions, routes, reaped>>

(* Events or a Ping; without a route Events are dropped and nothing changes.*)
UdpMessage(a) ==
  /\ pc[UdpTask] = "recv"
  /\ routes[a] # None
  /\ peer' = a
  /\ GoTo(UdpTask, "touch")
  /\ queue' = Append(queue, UdpTask)
  /\ UNCHANGED <<trust, sessions, routes, hello, acks, reaped>>

(* The session may have been reaped; its route stays.                      *)
UdpTouch ==
  /\ pc[UdpTask] = "touch" /\ Holds(UdpTask)
  /\ IF routes[peer] \in Live THEN Touch(routes[peer]) ELSE UNCHANGED sessions
  /\ GoTo(UdpTask, "recv")
  /\ peer' = None
  /\ Release
  /\ UNCHANGED <<trust, routes, hello, acks, reaped>>

-----------------------------------------------------------------------------
(* The handler of an Iroh connection.                                      *)

ConnVars == <<routes, peer, acks, reaped>>

Connect(c) ==
  /\ pc[c] = "closed"
  /\ GoTo(c, "hello")
  /\ UNCHANGED <<trust, sessions, queue, hello, ConnVars>>

ConnHandshake(c, p) ==
  /\ pc[c] = "hello"
  /\ Admit(c, p)
  /\ UNCHANGED <<trust, sessions, ConnVars>>

Close(c) == GoTo(c, "closed") /\ hello' = [hello EXCEPT ![c] = None]

(* PendingApproval is written, then the connection is dropped.             *)
ConnPend(c) ==
  /\ pc[c] = "pend"
  /\ Register(hello[c].client)
  /\ Close(c)
  /\ UNCHANGED <<sessions, queue, ConnVars>>

ConnServe(c) == Serve(c) /\ UNCHANGED routes

(* Mutant: the guard outlives a handler that gives up.                     *)
ConnReplyKeepsLock(c) ==
  /\ \/ pc[c] = "ack" /\ GoTo(c, "open") /\ UNCHANGED hello /\ Release
     \/ pc[c] \in {"ack", "reject"} /\ Close(c) /\ UNCHANGED queue
  /\ UNCHANGED <<trust, sessions, ConnVars>>

(* The answer is written under the mutex; when the write fails, or told    *)
(* Rejected, the handler returns and the session stays as it is.           *)
ConnReply(c) ==
  /\ \/ pc[c] = "ack" /\ GoTo(c, "open") /\ UNCHANGED hello
     \/ pc[c] \in {"ack", "reject"} /\ Close(c)
  /\ Release
  /\ UNCHANGED <<trust, sessions, ConnVars>>

(* Events or a Ping.                                                       *)
ConnMessage(c) ==
  /\ pc[c] = "open"
  /\ GoTo(c, "touch")
  /\ queue' = Append(queue, c)
  /\ UNCHANGED <<trust, sessions, hello, ConnVars>>

(* A handler that finds its session reaped hangs up.                       *)
ConnTouch(c) ==
  /\ pc[c] = "touch" /\ Holds(c)
  /\ IF hello[c].key \in Live
     THEN Touch(hello[c].key) /\ GoTo(c, "open") /\ UNCHANGED hello
     ELSE Close(c) /\ UNCHANGED sessions
  /\ Release
  /\ UNCHANGED <<trust, ConnVars>>

(* The stream ends or breaks, or its first message is no handshake.        *)
ConnLost(c) ==
  /\ pc[c] \in {"hello", "open"}
  /\ Close(c)
  /\ UNCHANGED <<trust, sessions, queue, ConnVars>>

-----------------------------------------------------------------------------
(* The reaper, time, administrators and restarts.                          *)

Wake ==
  /\ pc[Reaper] = "sleep"
  /\ GoTo(Reaper, "reap")
  /\ queue' = Append(queue, Reaper)
  /\ UNCHANGED <<trust, sessions, hello, ConnVars>>

(* Mutant: a session must be idle for longer than the limit.               *)
ExpiredLate == {k \in Live : sessions[k].idle > IdleLimit}

Expired == {k \in Live : sessions[k].idle >= IdleLimit}

Reap ==
  /\ pc[Reaper] = "reap" /\ Holds(Reaper)
  /\ sessions' = [k \in Keys |-> IF k \in Expired THEN None ELSE sessions[k]]
  /\ reaped' = (reaped \/ Expired # {})
  /\ GoTo(Reaper, "sleep")
  /\ Release
  /\ UNCHANGED <<trust, routes, hello, peer, acks>>

(* Mutant: ages past the limit.                                            *)
TickPast ==
  /\ \E k \in Live : sessions[k].idle <= IdleLimit
  /\ sessions' = [k \in Keys |->
                    IF k \in Live /\ sessions[k].idle <= IdleLimit
                    THEN [sessions[k] EXCEPT !.idle = @ + 1]
                    ELSE sessions[k]]
  /\ UNCHANGED <<trust, queue, pc, hello, ConnVars>>

(* A session that has expired ages no further.                             *)
Tick ==
  /\ \E k \in Live : sessions[k].idle < IdleLimit
  /\ sessions' = [k \in Keys |->
                    IF k \in Live /\ sessions[k].idle < IdleLimit
                    THEN [sessions[k] EXCEPT !.idle = @ + 1]
                    ELSE sessions[k]]
  /\ UNCHANGED <<trust, queue, pc, hello, ConnVars>>

Daemon == <<sessions, routes, queue, pc, hello, peer, acks, reaped>>

Approve(c) ==
  /\ c \in pending
  /\ approved' = approved \cup {c}
  /\ pending' = pending \ {c}
  /\ trusted' = trusted \cup {c}
  /\ UNCHANGED Daemon

Revoke(c) ==
  /\ c \in approved
  /\ approved' = approved \ {c}
  /\ UNCHANGED <<pending, trusted, Daemon>>

Restart ==
  /\ sessions' = [k \in Keys |-> None]
  /\ routes' = [a \in Addrs |-> None]
  /\ queue' = <<>>
  /\ pc' = Idling
  /\ hello' = [t \in Threads |-> None]
  /\ peer' = None
  /\ acks' = [a \in Addrs |-> NoAck]
  /\ reaped' = FALSE
  /\ UNCHANGED trust

-----------------------------------------------------------------------------
UdpStep == UdpPend \/ UdpServe \/ UdpReply \/ UdpTouch
ConnStep(c) == ConnPend(c) \/ ConnServe(c) \/ ConnReply(c) \/ ConnTouch(c)

(* What clients and administrators do.                                     *)
Input ==
  \/ \E a \in Addrs : UdpMessage(a) \/ \E p \in Payloads : UdpHandshake(a, p)
  \/ \E c \in Conns : \/ Connect(c) \/ ConnMessage(c) \/ ConnLost(c)
                      \/ \E p \in Payloads : ConnHandshake(c, p)
  \/ \E c \in Clients : Approve(c) \/ Revoke(c)

Next ==
  \/ Input
  \/ UdpStep
  \/ \E c \in Conns : ConnStep(c)
  \/ Wake \/ Reap \/ Tick
  \/ Restart

Spec == Init /\ [][Next]_vars

(* Tokio runs every task that can run, and a write to an Iroh stream ends, *)
(* well or not, when the peer reads, hangs up or times out.                *)
FairSpec ==
  /\ Spec
  /\ WF_vars(UdpStep) /\ WF_vars(Wake) /\ WF_vars(Reap)
  /\ \A c \in Conns : WF_vars(ConnStep(c))

-----------------------------------------------------------------------------
(* An address is routed to a device only if the last answer it got was     *)
(* Approved, or is about to be, for a handshake of that very device: a     *)
(* handshake that is refused leaves no older route behind (server.rs 298). *)
RoutesFollowAcks ==
  \A a \in Addrs : routes[a] # None =>
    /\ acks[a].payload # None /\ acks[a].payload.key = routes[a]
    /\ \/ acks[a].status = "Approved"
       \/ pc[UdpTask] = "ack" /\ peer = a

(* A device exists, and a connection is served, only for a client that an  *)
(* administrator has approved at some time, whatever was revoked since.    *)
OnlyTrustedServed ==
  /\ \A p \in Payloads : p.key \in Live => p.client \in trusted
  /\ \A c \in Conns : pc[c] \in {"serve", "ack", "open", "touch"} =>
                        hello[c].client \in trusted

(* Until a first session is reaped no two devices of a host have the same  *)
(* name: the number counts the devices there are (server.rs 316-335).      *)
NamesDistinct ==
  \A k, l \in Live :
    k # l /\ sessions[k].host = sessions[l].host /\ ~ reaped =>
      sessions[k].number # sessions[l].number

(* A connection that was told Approved has its device, unless it was       *)
(* reaped: no other handler's failure or hang-up takes it away.            *)
OpenHasDevice ==
  \A c \in Conns : pc[c] \in {"ack", "open", "touch"} /\ ~ reaped =>
                     hello[c].key \in Live

(* "Keeps virtual device attached across reconnects": a device goes only   *)
(* when it was idle for the whole limit or the daemon restarts, and one    *)
(* that stays is not renamed or replaced by whoever is served next.        *)
DevicesStay ==
  [][Restart \/ \A k \in Live :
       \/ /\ sessions'[k] # None
          /\ [sessions'[k] EXCEPT !.idle = 0] = [sessions[k] EXCEPT !.idle = 0]
       \/ sessions'[k] = None /\ sessions[k].idle = IdleLimit]_vars

(* Every datagram the loop has taken is dealt with: no connection's lock   *)
(* stops the one task that serves all Direct UDP clients for ever.         *)
UdpLoopReturns == pc[UdpTask] # "recv" ~> pc[UdpTask] = "recv"

(* A handshake waiting for the table is answered or its handler returns.   *)
ConnAnswered ==
  \A c \in Conns : pc[c] = "serve" ~> pc[c] \in {"open", "closed"}

(* A device nobody uses any more is removed.                               *)
IdleReaped ==
  \A k \in Keys :
    k \in Live /\ sessions[k].idle = IdleLimit
      ~> (k \notin Live \/ sessions[k].idle < IdleLimit)

(* The device a client's events are played on has the capabilities of the  *)
(* controller the client announced.                                        *)
MirrorsController ==
  \A c \in Conns : pc[c] = "open" /\ hello[c].key \in Live =>
                     sessions[hello[c].key].meta = hello[c].meta
=============================================================================
