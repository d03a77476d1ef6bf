------------------------- MODULE SessionServerProofs ------------------------
(* Proofs about SessionServer for any number of addresses, connections,     *)
(* clients and payloads.                                                    *)
EXTENDS SessionServer, FiniteSetTheorems, TLAPS

-----------------------------------------------------------------------------
(* Sessions.                                                               *)

LEMMA KeysFinite == IsFiniteSet(Keys)
<1> DEFINE key == [p \in Payloads |-> p.key]
<1>1. key \in Surjection(Payloads, Keys)
  BY DEF Surjection, Keys
<1> QED
  BY <1>1, FS_Surjection, PayloadAssumption

LEMMA SameHostFinite ==
  ASSUME NEW h
  PROVE  IsFiniteSet(SameHost(h)) /\ Cardinality(SameHost(h)) \in Nat
<1>1. SameHost(h) \in SUBSET Keys
  BY DEF SameHost, Live
<1> QED
  BY <1>1, KeysFinite, FS_Subset, FS_CardinalityType

LEMMA NewSessionType ==
  ASSUME NEW p \in Payloads
  PROVE  NewSession(p) \in Session
<1>1. Cardinality(SameHost(p.host)) \in Nat
  BY SameHostFinite
<1> QED
  BY <1>1, PayloadAssumption, IdleLimitAssumption DEF NewSession, Session

(* What is live is a session, and what is not live is none.                *)
LEMMA LiveType ==
  ASSUME sessions \in [Keys -> Session \cup {None}]
  PROVE  \A k \in Live : k \in Keys /\ sessions[k] \in Session
  BY DEF Live

LEMMA NoneIsNoSession == None \notin Session /\ None \notin Keys /\ None \notin Payloads
  BY NoneAssumption

(* Touching a session resets its age and nothing else.                     *)
LEMMA TouchLemma ==
  ASSUME sessions \in [Keys -> Session \cup {None}], NEW k \in Live, Touch(k)
  PROVE  /\ sessions' \in [Keys -> Session \cup {None}]
         /\ Live' = Live
         /\ \A l \in Keys \ {k} : sessions'[l] = sessions[l]
         /\ sessions'[k] = [sessions[k] EXCEPT !.idle = 0]
<1>1. k \in Keys /\ sessions[k] \in Session
  BY LiveType
<1>2. sessions'[k] = [sessions[k] EXCEPT !.idle = 0]
  BY <1>1 DEF Touch
<1>3. sessions'[k] \in Session
  BY <1>1, <1>2, IdleLimitAssumption DEF Session
<1>4. sessions' \in [Keys -> Session \cup {None}]
  BY <1>1, <1>2, <1>3 DEF Touch
<1>5. \A l \in Keys \ {k} : sessions'[l] = sessions[l]
  BY DEF Touch
<1>6. Live' = Live
  BY <1>1, <1>3, <1>5, NoneIsNoSession DEF Live
<1> QED
  BY <1>2, <1>4, <1>5, <1>6

(* Creating one adds its key to the live ones and leaves the others alone. *)
LEMMA CreateLemma ==
  ASSUME sessions \in [Keys -> Session \cup {None}], NEW p \in Payloads,
         sessions' = [sessions EXCEPT ![p.key] = NewSession(p)]
  PROVE  /\ sessions' \in [Keys -> Session \cup {None}]
         /\ Live' = Live \cup {p.key}
         /\ \A l \in Keys \ {p.key} : sessions'[l] = sessions[l]
         /\ sessions'[p.key] = NewSession(p)
<1>1. p.key \in Keys
  BY DEF Keys
<1>2. sessions'[p.key] = NewSession(p)
  BY <1>1
<1>3. \A l \in Keys \ {p.key} : sessions'[l] = sessions[l]
  OBVIOUS
<1>4. sessions' \in [Keys -> Session \cup {None}]
  BY <1>1, NewSessionType
<1>5. Live' = Live \cup {p.key}
  BY <1>1, <1>2, <1>3, NewSessionType, NoneIsNoSession DEF Live
<1> QED
  BY <1>2, <1>3, <1>4, <1>5

(* The reaper removes what has expired and leaves the others alone.        *)
LEMMA ReapLemma ==
  ASSUME sessions \in [Keys -> Session \cup {None}], Reap
  PROVE  /\ sessions' \in [Keys -> Session \cup {None}]
         /\ Live' = Live \ Expired
         /\ \A k \in Live' : sessions'[k] = sessions[k]
         /\ \A k \in Expired : sessions'[k] = None /\ sessions[k].idle = IdleLimit
<1>1. sessions' = [k \in Keys |-> IF k \in Expired THEN None ELSE sessions[k]]
  BY DEF Reap
<1>2. Expired \subseteq Keys
  BY DEF Expired, Live
<1>3. Live' = Live \ Expired
  BY <1>1 DEF Live
<1>4. \A k \in Expired : sessions[k].idle = IdleLimit
  BY LiveType, IdleLimitAssumption DEF Expired, Session
<1>5. \A k \in Live' : sessions'[k] = sessions[k]
  BY <1>1, <1>3, LiveType
<1> QED
  BY <1>1, <1>2, <1>3, <1>4, <1>5

(* Setting the age of a session changes nothing else.                      *)
LEMMA AgeLemma ==
  ASSUME NEW s \in Session, NEW n \in 0 .. IdleLimit
  PROVE  /\ [s EXCEPT !.idle = n] \in Session
         /\ [s EXCEPT !.idle = n].host = s.host
         /\ [s EXCEPT !.idle = n].number = s.number
         /\ [[s EXCEPT !.idle = n] EXCEPT !.idle = 0] = [s EXCEPT !.idle = 0]
<1>1. [s EXCEPT !.idle = n] \in Session
  BY DEF Session
<1>2. [s EXCEPT !.idle = n].host = s.host /\ [s EXCEPT !.idle = n].number = s.number
  BY DEF Session
<1>3. [[s EXCEPT !.idle = n] EXCEPT !.idle = 0] = [s EXCEPT !.idle = 0]
  BY DEF Session
<1> QED
  BY <1>1, <1>2, <1>3

(* Time passes for every session and changes nothing but ages.             *)
LEMMA TickLemma ==
  ASSUME sessions \in [Keys -> Session \cup {None}], Tick
  PROVE  /\ sessions' \in [Keys -> Session \cup {None}]
         /\ Live' = Live
         /\ \A k \in Live : /\ sessions'[k].host = sessions[k].host
                            /\ sessions'[k].number = sessions[k].number
                            /\ [sessions'[k] EXCEPT !.idle = 0]
                                 = [sessions[k] EXCEPT !.idle = 0]
<1>1. sessions' = [k \in Keys |->
                     IF k \in Live /\ sessions[k].idle < IdleLimit
                     THEN [sessions[k] EXCEPT !.idle = @ + 1]
                     ELSE sessions[k]]
  BY DEF Tick
<1>2. ASSUME NEW k \in Live
      PROVE  /\ sessions'[k] \in Session
             /\ sessions'[k].host = sessions[k].host
             /\ sessions'[k].number = sessions[k].number
             /\ [sessions'[k] EXCEPT !.idle = 0] = [sessions[k] EXCEPT !.idle = 0]
  <2>1. k \in Keys /\ sessions[k] \in Session
    BY LiveType
  <2>2. CASE sessions[k].idle < IdleLimit
    <3>1. sessions'[k] = [sessions[k] EXCEPT !.idle = sessions[k].idle + 1]
      BY <1>1, <2>1, <2>2
    <3>2. sessions[k].idle + 1 \in 0 .. IdleLimit
      BY <2>1, <2>2, IdleLimitAssumption DEF Session
    <3> DEFINE aged == [sessions[k] EXCEPT !.idle = sessions[k].idle + 1]
    <3>3. /\ aged \in Session
          /\ aged.host = sessions[k].host /\ aged.number = sessions[k].number
          /\ [aged EXCEPT !.idle = 0] = [sessions[k] EXCEPT !.idle = 0]
      BY <2>1, <3>2, AgeLemma
    <3>4. sessions'[k] = aged
      BY <3>1
    <3> HIDE DEF aged
    <3> QED
      BY <3>3, <3>4
  <2>3. CASE ~ (sessions[k].idle < IdleLimit)
    <3>1. sessions'[k] = sessions[k]
      BY <1>1, <2>1, <2>3
    <3> QED
      BY <2>1, <3>1
  <2> QED
    BY <2>2, <2>3
<1>3. \A k \in Keys \ Live : sessions'[k] = None
  BY <1>1 DEF Live
<1>4. sessions' \in [Keys -> Session \cup {None}]
  BY <1>1, <1>2, <1>3
<1>5. Live' = Live
  BY <1>2, <1>3, NoneIsNoSession DEF Live
<1> QED
  BY <1>2, <1>4, <1>5

-----------------------------------------------------------------------------
(* The mutex.  Whoever answers a handshake holds it.                       *)

Answering(t) == pc[t] \in {"ack", "reject"}
Locked == \A t \in Threads : Answering(t) => Holds(t)

LEMMA KeepLocked ==
  ASSUME Locked, UNCHANGED queue,
         \A t \in Threads : Answering(t)' => Answering(t) \/ Holds(t)
  PROVE  Locked'
  BY DEF Locked, Holds

LEMMA AppendLocked ==
  ASSUME Locked, queue \in Seq(Threads), NEW u \in Threads, queue' = Append(queue, u),
         \A t \in Threads : Answering(t)' => Answering(t)
  PROVE  Locked'
<1>1. ASSUME queue # <<>> PROVE queue' # <<>> /\ Head(queue') = Head(queue)
  BY <1>1
<1> QED
  BY <1>1 DEF Locked, Holds

LEMMA ReleaseLocked ==
  ASSUME Locked, NEW u \in Threads, Holds(u), ~ Answering(u)',
         \A t \in Threads \ {u} : pc'[t] = pc[t]
  PROVE  Locked'
  BY DEF Locked, Holds, Answering

-----------------------------------------------------------------------------
(* Types.  What a thread serves is known while it serves it.               *)

Busy == {"pend", "serve", "ack", "reject"}
Attached == {"serve", "ack", "open", "touch"}

Control ==
  /\ pc[UdpTask] \in {"recv", "touch"} \cup Busy
  /\ \A c \in Conns : pc[c] \in {"closed", "hello", "open", "touch"} \cup Busy
  /\ pc[UdpTask] \in Busy => hello[UdpTask] \in Payloads /\ peer \in Addrs
  /\ \A c \in Conns :
       pc[c] \in Busy \cup {"open", "touch"} => hello[c] \in Payloads

TypeInv == TypeOK /\ Control /\ Locked

LEMMA ThreadFacts ==
  /\ UdpTask \in Threads /\ Reaper \in Threads
  /\ \A c \in Conns : c \in Threads /\ c # UdpTask /\ c # Reaper
  /\ UdpTask # Reaper
  BY TaskAssumption DEF Threads

(* Serving reuses or creates the device of the handshake, or refuses it.   *)
LEMMA ServeLemma ==
  ASSUME sessions \in [Keys -> Session \cup {None}],
         NEW t, hello[t] \in Payloads, Serve(t)
  PROVE  /\ sessions' \in [Keys -> Session \cup {None}]
         /\ \/ pc' = [pc EXCEPT ![t] = "ack"] /\ Live' = Live \cup {hello[t].key}
            \/ pc' = [pc EXCEPT ![t] = "reject"] /\ Live' = Live
<1>1. CASE hello[t].key \in Live /\ Touch(hello[t].key) /\ GoTo(t, "ack")
  BY <1>1, TouchLemma DEF GoTo
<1>2. CASE sessions' = [sessions EXCEPT ![hello[t].key] = NewSession(hello[t])]
           /\ GoTo(t, "ack")
  BY <1>2, CreateLemma DEF GoTo
<1>3. CASE UNCHANGED sessions /\ GoTo(t, "reject")
  BY <1>3 DEF GoTo, Live
<1> QED
  BY <1>1, <1>2, <1>3 DEF Serve

(* A mutex that is held can be released.                                   *)
LEMMA TailType ==
  ASSUME TypeInv, NEW t \in Threads, Holds(t) \/ Answering(t), Release
  PROVE  queue' \in Seq(Threads)
  BY DEF Release, TypeInv, TypeOK, Locked, Holds

(* What bind leaves in memory.                                             *)
LEMMA EmptyType ==
  /\ Idling \in [Threads -> {"recv", "sleep", "reap", "closed", "hello", "pend",
                             "serve", "ack", "reject", "open", "touch"}]
  /\ Idling[UdpTask] = "recv" /\ \A c \in Conns : Idling[c] = "closed"
  /\ \A t \in Threads : Idling[t] \notin {"ack", "reject"}
  /\ NoAck \in [status : Statuses, payload : Payloads \cup {None}]
  /\ <<>> \in Seq(Threads)
<1>1. \A t \in Threads : Idling[t] \in {"recv", "sleep", "closed"}
  BY DEF Idling
<1>2. Idling \in [Threads -> {"recv", "sleep", "reap", "closed", "hello", "pend",
                              "serve", "ack", "reject", "open", "touch"}]
  BY <1>1 DEF Idling
<1>3. Idling[UdpTask] = "recv" /\ \A c \in Conns : Idling[c] = "closed"
  BY ThreadFacts DEF Idling
<1>4. NoAck \in [status : Statuses, payload : Payloads \cup {None}]
  BY DEF NoAck, Statuses
<1> QED
  BY <1>1, <1>2, <1>3, <1>4

LEMMA InitType == Init => TypeInv
<1> SUFFICES ASSUME Init PROVE TypeInv
  OBVIOUS
<1>1. TypeOK
  BY EmptyType DEF Init, TypeOK
<1>2. Control /\ Locked
  BY EmptyType DEF Init, Control, Locked, Answering, Busy
<1> QED
  BY <1>1, <1>2 DEF TypeInv

LEMMA StepLocked == TypeInv /\ [Next]_vars => Locked'
<1> SUFFICES ASSUME TypeInv, [Next]_vars PROVE Locked'
  OBVIOUS
<1> USE ThreadFacts
<1>0. Locked /\ queue \in Seq(Threads)
      /\ pc \in [Threads -> {"recv", "sleep", "reap", "closed", "hello", "pend",
                             "serve", "ack", "reject", "open", "touch"}]
  BY DEF TypeInv, TypeOK
<1>1. ASSUME NEW a \in Addrs, UdpMessage(a) PROVE Locked'
  BY <1>0, <1>1, AppendLocked DEF UdpMessage, GoTo, Answering
<1>2. ASSUME NEW t \in Threads, NEW p \in Payloads, Admit(t, p) PROVE Locked'
  <2>1. CASE p.client \in approved
    BY <1>0, <1>2, <2>1, AppendLocked DEF Admit, GoTo, Answering
  <2>2. CASE p.client \notin approved
    BY <1>0, <1>2, <2>2, KeepLocked DEF Admit, GoTo, Answering
  <2> QED
    BY <2>1, <2>2
<1>3. ASSUME NEW a \in Addrs, NEW p \in Payloads, UdpHandshake(a, p) PROVE Locked'
  BY <1>2, <1>3 DEF UdpHandshake
<1>4. ASSUME NEW c \in Conns, NEW p \in Payloads, ConnHandshake(c, p) PROVE Locked'
  BY <1>2, <1>4 DEF ConnHandshake
<1>5. ASSUME NEW c \in Conns, Connect(c) \/ ConnLost(c) \/ ConnPend(c) PROVE Locked'
  BY <1>0, <1>5, KeepLocked
     DEF Connect, ConnLost, ConnPend, Close, GoTo, Answering
<1>6. ASSUME NEW c \in Conns, ConnMessage(c) PROVE Locked'
  BY <1>0, <1>6, AppendLocked DEF ConnMessage, GoTo, Answering
<1>7. ASSUME NEW c \in Clients, Approve(c) \/ Revoke(c) PROVE Locked'
  BY <1>0, <1>7, KeepLocked DEF Approve, Revoke, Daemon, Answering
<1>8. CASE UdpPend
  BY <1>0, <1>8, KeepLocked DEF UdpPend, UdpAnswer, GoTo, Answering
<1>9. ASSUME NEW t \in Threads, Serve(t) PROVE Locked'
  <2>1. UNCHANGED queue /\ Holds(t)
    BY <1>9 DEF Serve
  <2>2. \A u \in Threads \ {t} : pc'[u] = pc[u]
    BY <1>0, <1>9 DEF Serve, GoTo
  <2> QED
    BY <1>0, <2>1, <2>2, KeepLocked DEF Answering
<1>10. CASE UdpReply
  <2>1. Holds(UdpTask)
    BY <1>0, <1>10 DEF UdpReply, Locked, Answering
  <2> QED
    BY <1>0, <1>10, <2>1, ReleaseLocked DEF UdpReply, UdpAnswer, GoTo, Answering
<1>11. CASE UdpTouch
  BY <1>0, <1>11, ReleaseLocked DEF UdpTouch, GoTo, Answering
<1>12. ASSUME NEW c \in Conns, ConnReply(c) PROVE Locked'
  <2>1. Holds(c)
    BY <1>0, <1>12 DEF ConnReply, Locked, Answering
  <2> QED
    BY <1>0, <1>12, <2>1, ReleaseLocked DEF ConnReply, Close, GoTo, Answering
<1>13. ASSUME NEW c \in Conns, ConnTouch(c) PROVE Locked'
  BY <1>0, <1>13, ReleaseLocked DEF ConnTouch, Close, GoTo, Answering
<1>14. CASE Wake
  BY <1>0, <1>14, AppendLocked DEF Wake, GoTo, Answering
<1>15. CASE Reap
  BY <1>0, <1>15, ReleaseLocked DEF Reap, GoTo, Answering
<1>16. CASE Tick
  BY <1>0, <1>16, KeepLocked DEF Tick, Answering
<1>17. CASE Restart
  BY <1>17, EmptyType DEF Restart, Locked, Answering
<1>18. CASE UNCHANGED vars
  BY <1>0, <1>18, KeepLocked DEF vars, Answering
<1> QED
  BY <1>1, <1>3, <1>4, <1>5, <1>6, <1>7, <1>8, <1>9, <1>10, <1>11, <1>12, <1>13,
     <1>14, <1>15, <1>16, <1>17, <1>18
     DEF Next, Input, UdpStep, ConnStep, UdpServe, ConnServe

LEMMA StepType == TypeInv /\ [Next]_vars => TypeInv'
<1> SUFFICES ASSUME TypeInv, [Next]_vars PROVE TypeInv'
  OBVIOUS
<1>0. Locked'
  BY StepLocked
<1> USE <1>0, ThreadFacts DEF TypeInv, Busy
<1>a. ASSUME NEW t \in Threads, NEW p \in Payloads, Admit(t, p)
      PROVE  queue' \in Seq(Threads)
  <2>1. CASE p.client \in approved
    BY <1>a, <2>1 DEF Admit, TypeOK
  <2>2. CASE p.client \notin approved
    BY <1>a, <2>2 DEF Admit, TypeOK
  <2> QED
    BY <2>1, <2>2
<1>1. ASSUME NEW a \in Addrs, UdpMessage(a) PROVE TypeInv'
  <2>1. TypeOK'
    BY <1>1 DEF UdpMessage, TypeOK, GoTo, trust
  <2>2. Control'
    BY <1>1 DEF UdpMessage, TypeOK, Control, GoTo
  <2> QED
    BY <2>1, <2>2
<1>2. ASSUME NEW a \in Addrs, NEW p \in Payloads, UdpHandshake(a, p) PROVE TypeInv'
  <2>1. pc' = [pc EXCEPT ![UdpTask] = pc'[UdpTask]] /\ pc'[UdpTask] \in {"serve", "pend"}
    BY <1>2 DEF UdpHandshake, Admit, GoTo, TypeOK
  <2>2. queue' \in Seq(Threads)
    BY <1>2, <1>a DEF UdpHandshake
  <2>3. hello' = [hello EXCEPT ![UdpTask] = p]
    BY <1>2 DEF UdpHandshake, Admit
  <2>4. acks' \in [Addrs -> [status : Statuses, payload : Payloads \cup {None}]]
    BY <1>2 DEF UdpHandshake, TypeOK, Statuses
  <2>5. routes' \in [Addrs -> Keys \cup {None}] /\ peer' \in Addrs
        /\ UNCHANGED <<trust, sessions, reaped>>
    BY <1>2 DEF UdpHandshake, TypeOK
  <2>6. TypeOK'
    BY <2>1, <2>2, <2>3, <2>4, <2>5 DEF TypeOK, trust
  <2>7. Control'
    BY <2>1, <2>3, <2>5 DEF TypeOK, Control
  <2> QED
    BY <2>6, <2>7
<1>3. ASSUME NEW c \in Conns, Connect(c) PROVE TypeInv'
  <2>1. TypeOK'
    BY <1>3 DEF Connect, TypeOK, GoTo, trust, ConnVars
  <2>2. Control'
    BY <1>3 DEF Connect, TypeOK, Control, GoTo, ConnVars
  <2> QED
    BY <2>1, <2>2
<1>4. ASSUME NEW c \in Conns, ConnMessage(c) PROVE TypeInv'
  <2>1. TypeOK'
    BY <1>4 DEF ConnMessage, TypeOK, GoTo, trust, ConnVars
  <2>2. Control'
    BY <1>4 DEF ConnMessage, TypeOK, Control, GoTo, ConnVars
  <2> QED
    BY <2>1, <2>2
<1>5. ASSUME NEW c \in Conns, ConnLost(c) PROVE TypeInv'
  <2>1. TypeOK'
    BY <1>5 DEF ConnLost, Close, TypeOK, GoTo, trust, ConnVars
  <2>2. Control'
    BY <1>5 DEF ConnLost, Close, TypeOK, Control, GoTo, ConnVars
  <2> QED
    BY <2>1, <2>2
<1>6. ASSUME NEW c \in Conns, NEW p \in Payloads, ConnHandshake(c, p) PROVE TypeInv'
  <2>1. pc' = [pc EXCEPT ![c] = pc'[c]] /\ pc'[c] \in {"serve", "pend"}
    BY <1>6 DEF ConnHandshake, Admit, GoTo, TypeOK
  <2>2. queue' \in Seq(Threads)
    BY <1>6, <1>a DEF ConnHandshake
  <2>3. hello' = [hello EXCEPT ![c] = p] /\ UNCHANGED <<trust, sessions, ConnVars>>
    BY <1>6 DEF ConnHandshake, Admit
  <2>4. TypeOK'
    BY <2>1, <2>2, <2>3 DEF TypeOK, trust, ConnVars
  <2>5. Control'
    BY <2>1, <2>3 DEF TypeOK, Control, ConnVars
  <2> QED
    BY <2>4, <2>5
<1>7. ASSUME NEW c \in Clients, Approve(c) \/ Revoke(c) PROVE TypeInv'
  <2>1. TypeOK'
    BY <1>7 DEF Approve, Revoke, Daemon, TypeOK
  <2>2. Control'
    BY <1>7 DEF Approve, Revoke, Daemon, Control
  <2> QED
    BY <2>1, <2>2
(* The UDP loop answers.                                                   *)
<1>8. ASSUME NEW s \in Statuses, pc[UdpTask] \in Busy, UdpAnswer(s)
      PROVE  /\ pc' \in [Threads -> {"recv", "sleep", "reap", "closed", "hello", "pend",
                                     "serve", "ack", "reject", "open", "touch"}]
             /\ hello' \in [Threads -> Payloads \cup {None}] /\ peer' = None
             /\ acks' \in [Addrs -> [status : Statuses, payload : Payloads \cup {None}]]
             /\ Control'
  <2>1. peer \in Addrs /\ acks[peer] \in [status : Statuses, payload : Payloads \cup {None}]
    BY <1>8 DEF Control, TypeOK
  <2>2. [acks[peer] EXCEPT !.status = s]
          \in [status : Statuses, payload : Payloads \cup {None}]
    BY <2>1
  <2>3. acks' \in [Addrs -> [status : Statuses, payload : Payloads \cup {None}]]
    BY <1>8, <2>1, <2>2 DEF UdpAnswer, TypeOK
  <2>4. Control'
    BY <1>8 DEF UdpAnswer, GoTo, Control, TypeOK
  <2> QED
    BY <1>8, <2>3, <2>4 DEF UdpAnswer, GoTo, TypeOK
<1>9. CASE UdpPend
  <2>1. pending' \subseteq Clients
    <3>1. hello[UdpTask] \in Payloads
      BY <1>9 DEF UdpPend, Control
    <3> QED
      BY <1>9, <3>1 DEF UdpPend, Register, TypeOK, Clients
  <2>2. "PendingApproval" \in Statuses /\ pc[UdpTask] \in Busy /\ UdpAnswer("PendingApproval")
    BY <1>9 DEF UdpPend, Statuses
  <2> QED
    BY <1>8, <1>9, <2>1, <2>2 DEF UdpPend, Register, TypeOK
<1>10. CASE UdpServe
  <2>1. hello[UdpTask] \in Payloads /\ peer \in Addrs /\ hello[UdpTask].key \in Keys
    BY <1>10 DEF UdpServe, Serve, Control, Keys
  <2>2. sessions' \in [Keys -> Session \cup {None}]
    BY <1>10, <2>1, ServeLemma DEF UdpServe, TypeOK
  <2>3. pc' \in {[pc EXCEPT ![UdpTask] = "ack"], [pc EXCEPT ![UdpTask] = "reject"]}
    BY <1>10, <2>1, ServeLemma DEF UdpServe, TypeOK
  <2>4. routes' \in [Addrs -> Keys \cup {None}]
    BY <1>10, <2>1 DEF UdpServe, TypeOK
  <2>5. UNCHANGED <<trust, queue, hello, peer, acks, reaped>>
    BY <1>10 DEF UdpServe, Serve
  <2>6. TypeOK'
    BY <2>2, <2>3, <2>4, <2>5 DEF TypeOK, trust
  <2>7. Control'
    BY <2>1, <2>3, <2>5 DEF TypeOK, Control
  <2> QED
    BY <2>6, <2>7
<1>11. CASE UdpReply
  <2>1. PICK s \in {"Approved", "Rejected"} : pc[UdpTask] \in Busy /\ UdpAnswer(s)
    BY <1>11 DEF UdpReply
  <2>2. s \in Statuses
    BY DEF Statuses
  <2>3. queue' \in Seq(Threads)
    BY <1>11, TailType DEF UdpReply, Answering
  <2> QED
    BY <1>8, <1>11, <2>1, <2>2, <2>3 DEF UdpReply, TypeOK, trust
<1>12. CASE UdpTouch
  <2>1. sessions' \in [Keys -> Session \cup {None}]
    BY <1>12, TouchLemma DEF UdpTouch, TypeOK
  <2>2. queue' \in Seq(Threads)
    BY <1>12, TailType DEF UdpTouch
  <2>3. TypeOK'
    BY <1>12, <2>1, <2>2 DEF UdpTouch, GoTo, TypeOK, trust
  <2>4. Control'
    BY <1>12 DEF UdpTouch, GoTo, TypeOK, Control
  <2> QED
    BY <2>3, <2>4
<1>13. ASSUME NEW c \in Conns, ConnPend(c) PROVE TypeInv'
  <2>1. hello[c] \in Payloads
    BY <1>13 DEF ConnPend, Control
  <2>2. TypeOK'
    BY <1>13, <2>1 DEF ConnPend, Register, Close, GoTo, TypeOK, Clients, ConnVars
  <2>3. Control'
    BY <1>13 DEF ConnPend, Close, GoTo, TypeOK, Control, ConnVars
  <2> QED
    BY <2>2, <2>3
<1>14. ASSUME NEW c \in Conns, ConnServe(c) PROVE TypeInv'
  <2>1. hello[c] \in Payloads
    BY <1>14 DEF ConnServe, Serve, Control
  <2>2. sessions' \in [Keys -> Session \cup {None}]
    BY <1>14, <2>1, ServeLemma DEF ConnServe, TypeOK
  <2>3. pc' \in {[pc EXCEPT ![c] = "ack"], [pc EXCEPT ![c] = "reject"]}
    BY <1>14, <2>1, ServeLemma DEF ConnServe, TypeOK
  <2>4. UNCHANGED <<trust, routes, queue, hello, peer, acks, reaped>>
    BY <1>14 DEF ConnServe, Serve
  <2>5. TypeOK'
    BY <2>2, <2>3, <2>4 DEF TypeOK, trust
  <2>6. Control'
    BY <2>1, <2>3, <2>4 DEF TypeOK, Control
  <2> QED
    BY <2>5, <2>6
<1>15. ASSUME NEW c \in Conns, ConnReply(c) PROVE TypeInv'
  <2>1. queue' \in Seq(Threads)
    BY <1>15, TailType DEF ConnReply, Answering
  <2>2. TypeOK'
    BY <1>15, <2>1 DEF ConnReply, Close, GoTo, TypeOK, trust, ConnVars
  <2>3. Control'
    BY <1>15 DEF ConnReply, Close, GoTo, TypeOK, Control, ConnVars
  <2> QED
    BY <2>2, <2>3
<1>16. ASSUME NEW c \in Conns, ConnTouch(c) PROVE TypeInv'
  <2>1. sessions' \in [Keys -> Session \cup {None}]
    BY <1>16, TouchLemma DEF ConnTouch, TypeOK
  <2>2. queue' \in Seq(Threads)
    BY <1>16, TailType DEF ConnTouch
  <2>3. TypeOK'
    BY <1>16, <2>1, <2>2 DEF ConnTouch, Close, GoTo, TypeOK, trust, ConnVars
  <2>4. Control'
    BY <1>16 DEF ConnTouch, Close, GoTo, TypeOK, Control, ConnVars
  <2> QED
    BY <2>3, <2>4
<1>17. CASE Wake
  <2>1. TypeOK'
    BY <1>17 DEF Wake, TypeOK, GoTo, trust, ConnVars
  <2>2. Control'
    BY <1>17 DEF Wake, TypeOK, Control, GoTo, ConnVars
  <2> QED
    BY <2>1, <2>2
<1>18. CASE Reap
  <2>1. sessions' \in [Keys -> Session \cup {None}] /\ reaped' \in BOOLEAN
    BY <1>18, ReapLemma DEF Reap, TypeOK
  <2>2. queue' \in Seq(Threads)
    BY <1>18, TailType DEF Reap
  <2>3. TypeOK'
    BY <1>18, <2>1, <2>2 DEF Reap, TypeOK, GoTo, trust
  <2>4. Control'
    BY <1>18 DEF Reap, TypeOK, Control, GoTo
  <2> QED
    BY <2>3, <2>4
<1>19. CASE Tick
  <2>1. sessions' \in [Keys -> Session \cup {None}]
    BY <1>19, TickLemma DEF TypeOK
  <2> QED
    BY <1>19, <2>1 DEF Tick, TypeOK, Control, trust, ConnVars
<1>20. CASE Restart
  <2>1. TypeOK'
    BY <1>20, EmptyType DEF Restart, TypeOK, trust
  <2>2. Control'
    BY <1>20, EmptyType DEF Restart, Control
  <2> QED
    BY <2>1, <2>2
<1>21. CASE UNCHANGED vars
  BY <1>21 DEF vars, TypeOK, Control
<1> QED
  BY <1>1, <1>2, <1>3, <1>4, <1>5, <1>6, <1>7, <1>9, <1>10, <1>11, <1>12, <1>13,
     <1>14, <1>15, <1>16, <1>17, <1>18, <1>19, <1>20, <1>21
     DEF Next, Input, UdpStep, ConnStep

LEMMA TypeAlways == Spec => []TypeInv
  BY InitType, StepType, PTL DEF Spec

(* Every variable stays in its range, and every thread knows what it       *)
(* serves (server.rs 42-53, 276-314, 460-582).                             *)
THEOREM TypeCorrect == Spec => []TypeOK
<1>1. TypeInv => TypeOK
  BY DEF TypeInv
<1> QED
  BY <1>1, TypeAlways, PTL

-----------------------------------------------------------------------------
(* What a step can do to the sessions.                                     *)

Create(t) ==
  /\ pc[t] = "serve" /\ hello[t] \in Payloads /\ hello[t].key \notin Live
  /\ sessions' = [sessions EXCEPT ![hello[t].key] = NewSession(hello[t])]

LEMMA SessionsStep ==
  ASSUME TypeInv, [Next]_vars
  PROVE  \/ UNCHANGED <<sessions, reaped>>
         \/ (\E k \in Live : Touch(k)) /\ UNCHANGED reaped
         \/ (\E t \in Conns \cup {UdpTask} : Create(t)) /\ UNCHANGED <<reaped, trusted>>
         \/ Tick /\ UNCHANGED reaped
         \/ Reap
         \/ Restart
<1> DEFINE Goal == \/ UNCHANGED <<sessions, reaped>>
                   \/ (\E k \in Live : Touch(k)) /\ UNCHANGED reaped
                   \/ (\E t \in Conns \cup {UdpTask} : Create(t))
                      /\ UNCHANGED <<reaped, trusted>>
                   \/ Tick /\ UNCHANGED reaped
                   \/ Reap
                   \/ Restart
<1>1. ASSUME NEW t \in Conns \cup {UdpTask}, Serve(t) PROVE Goal
  <2>1. hello[t] \in Payloads
    BY <1>1 DEF Serve, TypeInv, Control, Busy
  <2> QED
    BY <1>1, <2>1 DEF Serve, Create, trust
<1>2. CASE UdpServe \/ \E c \in Conns : ConnServe(c)
  BY <1>1, <1>2 DEF UdpServe, ConnServe
<1>3. CASE UdpTouch
  BY <1>3 DEF UdpTouch
<1>4. ASSUME NEW c \in Conns, ConnTouch(c) PROVE Goal
  BY <1>4 DEF ConnTouch, ConnVars
<1>5. CASE Input
  BY <1>5 DEF Input, UdpMessage, UdpHandshake, Connect, ConnMessage, ConnLost,
              ConnHandshake, Approve, Revoke, Daemon, ConnVars
<1>6. CASE UdpPend \/ UdpReply \/ Wake \/ UNCHANGED vars
  BY <1>6 DEF UdpPend, UdpReply, Wake, vars, ConnVars
<1>7. ASSUME NEW c \in Conns, ConnPend(c) \/ ConnReply(c) PROVE Goal
  BY <1>7 DEF ConnPend, ConnReply, ConnVars
<1>8. CASE Tick
  BY <1>8 DEF Tick, ConnVars
<1> QED
  BY <1>2, <1>3, <1>4, <1>5, <1>6, <1>7, <1>8 DEF Next, UdpStep, ConnStep

(* Touching changes neither the host nor the number of a session.          *)
LEMMA TouchKeepsName ==
  ASSUME TypeInv, NEW k \in Live, Touch(k)
  PROVE  /\ Live' = Live
         /\ \A l \in Live : /\ sessions'[l].host = sessions[l].host
                            /\ sessions'[l].number = sessions[l].number
                            /\ [sessions'[l] EXCEPT !.idle = 0]
                                 = [sessions[l] EXCEPT !.idle = 0]
<1>1. sessions \in [Keys -> Session \cup {None}]
  BY DEF TypeInv, TypeOK
<1>2. sessions[k] \in Session /\ 0 \in 0 .. IdleLimit /\ \A l \in Live : l \in Keys
  BY <1>1, LiveType, IdleLimitAssumption
<1> DEFINE touched == [sessions[k] EXCEPT !.idle = 0]
<1>3. /\ touched.host = sessions[k].host /\ touched.number = sessions[k].number
      /\ [touched EXCEPT !.idle = 0] = [sessions[k] EXCEPT !.idle = 0]
  BY <1>2, AgeLemma
<1>4. /\ sessions'[k] = touched /\ Live' = Live
      /\ \A l \in Keys \ {k} : sessions'[l] = sessions[l]
  BY <1>1, TouchLemma
<1> HIDE DEF touched
<1> QED
  BY <1>2, <1>3, <1>4

(* Devices stay under any interleaving: only the reaper, after the whole   *)
(* time of inactivity, and a restart take one away, and no other client's  *)
(* handshake renames or replaces it (server.rs 216-231, 517-582).          *)
THEOREM DevicesPersist == Spec => DevicesStay
<1> DEFINE Stays(k) ==
      \/ /\ sessions'[k] # None
         /\ [sessions'[k] EXCEPT !.idle = 0] = [sessions[k] EXCEPT !.idle = 0]
      \/ sessions'[k] = None /\ sessions[k].idle = IdleLimit
<1>1. ASSUME TypeInv, [Next]_vars PROVE [Restart \/ \A k \in Live : Stays(k)]_vars
  <2>1. sessions \in [Keys -> Session \cup {None}] /\ \A k \in Live : k \in Keys
    BY <1>1 DEF TypeInv, TypeOK, Live
  <2>2. CASE UNCHANGED sessions
    BY <2>2 DEF Live
  <2>3. CASE \E k \in Live : Touch(k)
    <3>1. PICK k \in Live : Touch(k)
      BY <2>3
    <3>2. \A l \in Live : sessions'[l] # None
      BY <1>1, <3>1, TouchKeepsName DEF Live
    <3> QED
      BY <1>1, <3>1, <3>2, TouchKeepsName
  <2>4. CASE \E t \in Conns \cup {UdpTask} : Create(t)
    <3>1. PICK t \in Conns \cup {UdpTask} : Create(t)
      BY <2>4
    <3>2. \A l \in Live : sessions'[l] = sessions[l] /\ sessions[l] # None
      BY <2>1, <3>1, CreateLemma DEF Create, Live
    <3> QED
      BY <3>2
  <2>5. CASE Tick
    <3>1. \A l \in Live : sessions'[l] # None
      BY <2>1, <2>5, TickLemma DEF Live
    <3> QED
      BY <2>1, <2>5, <3>1, TickLemma
  <2>6. CASE Reap
    <3>1. \A l \in Live : l \in Live' \/ l \in Expired
      BY <2>1, <2>6, ReapLemma
    <3>2. \A l \in Live' : sessions'[l] = sessions[l] /\ sessions'[l] # None
      BY <2>1, <2>6, ReapLemma DEF Live
    <3> QED
      BY <2>1, <2>6, <3>1, <3>2, ReapLemma
  <2> QED
    BY <1>1, <2>2, <2>3, <2>4, <2>5, <2>6, SessionsStep
<1> QED
  BY <1>1, TypeAlways, PTL DEF Spec, DevicesStay

-----------------------------------------------------------------------------
(* Only clients that were approved at some time.                           *)

Vetted(t) == hello[t].client \in trusted

TrustInv ==
  /\ OnlyTrustedServed
  /\ approved \subseteq trusted
  /\ pc[UdpTask] = "serve" => Vetted(UdpTask)

LEMMA KeyOwner ==
  ASSUME NEW p \in Payloads, NEW q \in Payloads, p.key = q.key
  PROVE  p.client = q.client
  BY PayloadAssumption

(* A step that serves nobody new and creates no device keeps TrustInv.     *)
LEMMA TrustFrame ==
  ASSUME TrustInv, Live' \subseteq Live, trusted \subseteq trusted',
         approved' \subseteq trusted',
         \A c \in Conns : pc'[c] \in Attached =>
           pc[c] \in Attached /\ hello'[c] = hello[c],
         pc'[UdpTask] = "serve" => pc[UdpTask] = "serve" /\ hello'[UdpTask] = hello[UdpTask]
  PROVE  TrustInv'
  BY DEF TrustInv, OnlyTrustedServed, Vetted, Attached

LEMMA LiveShrinks ==
  ASSUME TypeInv, [Next]_vars, ~ \E t \in Conns \cup {UdpTask} : Create(t)
  PROVE  Live' \subseteq Live
<1>1. sessions \in [Keys -> Session \cup {None}]
  BY DEF TypeInv, TypeOK
<1>2. CASE UNCHANGED sessions
  BY <1>2 DEF Live
<1>3. CASE Restart
  BY <1>3 DEF Restart, Live
<1> QED
  BY <1>1, <1>2, <1>3, SessionsStep, TouchLemma, TickLemma, ReapLemma

LEMMA TrustStep == TypeInv /\ TrustInv /\ [Next]_vars => TrustInv'
<1> SUFFICES ASSUME TypeInv, TrustInv, [Next]_vars PROVE TrustInv'
  OBVIOUS
<1> USE ThreadFacts
<1>0. /\ sessions \in [Keys -> Session \cup {None}]
      /\ pc \in [Threads -> {"recv", "sleep", "reap", "closed", "hello", "pend",
                             "serve", "ack", "reject", "open", "touch"}]
      /\ hello \in [Threads -> Payloads \cup {None}]
  BY DEF TypeInv, TypeOK
<1>1. approved \subseteq trusted
  BY DEF TrustInv
<1>2. ASSUME NEW t \in Conns \cup {UdpTask}, Serve(t) PROVE TrustInv'
  <2>0. pc[t] = "serve"
    BY <1>2 DEF Serve
  <2>1. hello[t] \in Payloads /\ Vetted(t)
    <3>1. CASE t = UdpTask
      BY <2>0, <3>1 DEF TypeInv, Control, Busy, TrustInv
    <3>2. CASE t \in Conns
      BY <2>0, <3>2 DEF TypeInv, Control, Busy, TrustInv, OnlyTrustedServed, Vetted
    <3> QED
      BY <3>1, <3>2
  <2>2. Live' \subseteq Live \cup {hello[t].key}
    BY <1>0, <1>2, <2>1, ServeLemma
  <2>3. ASSUME NEW p \in Payloads, p.key \in Live' PROVE p.client \in trusted
    BY <2>1, <2>2, <2>3, KeyOwner DEF TrustInv, OnlyTrustedServed, Vetted
  <2>4. UNCHANGED <<approved, trusted, hello>>
    BY <1>2 DEF Serve, trust
  <2>5. /\ \A u \in Threads \ {t} : pc'[u] = pc[u]
        /\ pc'[t] \in {"ack", "reject"}
    BY <1>0, <1>2 DEF Serve, GoTo
  <2>6. \A c \in Conns : pc'[c] \in Attached => hello'[c].client \in trusted'
    BY <2>1, <2>4, <2>5 DEF TrustInv, OnlyTrustedServed, Vetted, Attached
  <2>7. pc'[UdpTask] = "serve" => hello'[UdpTask].client \in trusted'
    BY <2>4, <2>5 DEF TrustInv, Vetted
  <2> QED
    BY <1>1, <2>3, <2>4, <2>6, <2>7 DEF TrustInv, OnlyTrustedServed, Vetted, Attached
<1>3. ASSUME NEW t \in Conns \cup {UdpTask}, NEW p \in Payloads, Admit(t, p),
             UNCHANGED <<trust, sessions>>
      PROVE  TrustInv'
  <2>1. UNCHANGED <<approved, trusted, Live>>
    BY <1>3 DEF trust, Live
  <2>2. hello'[t] = p /\ \A u \in Threads \ {t} : hello'[u] = hello[u] /\ pc'[u] = pc[u]
    BY <1>0, <1>3 DEF Admit, GoTo
  <2>3. (pc'[t] = "serve" /\ p.client \in approved) \/ pc'[t] = "pend"
    BY <1>0, <1>3 DEF Admit, GoTo
  <2>4. \A c \in Conns : pc'[c] \in Attached => hello'[c].client \in trusted'
    BY <1>1, <2>1, <2>2, <2>3 DEF TrustInv, OnlyTrustedServed, Attached
  <2>5. pc'[UdpTask] = "serve" => hello'[UdpTask].client \in trusted'
    BY <1>1, <2>1, <2>2, <2>3 DEF TrustInv, Vetted
  <2> QED
    BY <1>1, <2>1, <2>4, <2>5 DEF TrustInv, OnlyTrustedServed, Vetted, Attached
<1>4. CASE UdpServe \/ \E c \in Conns : ConnServe(c)
  BY <1>2, <1>4 DEF UdpServe, ConnServe
<1>5. CASE \/ \E a \in Addrs, p \in Payloads : UdpHandshake(a, p)
           \/ \E c \in Conns, p \in Payloads : ConnHandshake(c, p)
  BY <1>3, <1>5 DEF UdpHandshake, ConnHandshake
<1>6. CASE \/ \E a \in Addrs : UdpMessage(a)
           \/ \E c \in Conns : Connect(c) \/ ConnMessage(c) \/ ConnLost(c)
  <2>1. UNCHANGED <<approved, trusted, Live>>
    BY <1>6 DEF UdpMessage, Connect, ConnMessage, ConnLost, trust, Live
  <2>2. \A c \in Conns : pc'[c] \in Attached => pc[c] \in Attached /\ hello'[c] = hello[c]
    BY <1>0, <1>6 DEF UdpMessage, Connect, ConnMessage, ConnLost, Close, GoTo, Attached
  <2>3. pc'[UdpTask] = "serve" => pc[UdpTask] = "serve" /\ hello'[UdpTask] = hello[UdpTask]
    BY <1>0, <1>6 DEF UdpMessage, Connect, ConnMessage, ConnLost, Close, GoTo
  <2> QED
    BY <1>1, <2>1, <2>2, <2>3, TrustFrame
<1>7. CASE \E c \in Clients : Approve(c) \/ Revoke(c)
  BY <1>1, <1>7, TrustFrame DEF Approve, Revoke, Daemon, Live
<1>8. CASE UdpPend \/ UdpReply \/ UdpTouch
  <2>1. UNCHANGED <<approved, trusted>>
    BY <1>8 DEF UdpPend, UdpReply, UdpTouch, Register, trust
  <2>2. Live' \subseteq Live
    BY <1>0, <1>8, TouchLemma DEF UdpPend, UdpReply, UdpTouch, Live
  <2>3. \A c \in Conns : pc'[c] = pc[c] /\ hello'[c] = hello[c]
    BY <1>0, <1>8 DEF UdpPend, UdpReply, UdpTouch, UdpAnswer, GoTo
  <2>4. pc'[UdpTask] = "recv"
    BY <1>0, <1>8 DEF UdpPend, UdpReply, UdpTouch, UdpAnswer, GoTo
  <2> QED
    BY <1>1, <2>1, <2>2, <2>3, <2>4, TrustFrame
<1>9. ASSUME NEW c \in Conns, ConnPend(c) \/ ConnReply(c) \/ ConnTouch(c) PROVE TrustInv'
  <2>1. UNCHANGED <<approved, trusted>>
    BY <1>9 DEF ConnPend, ConnReply, ConnTouch, Register, trust
  <2>2. Live' \subseteq Live
    BY <1>0, <1>9, TouchLemma DEF ConnPend, ConnReply, ConnTouch, Live
  <2>3. \A d \in Threads \ {c} : pc'[d] = pc[d] /\ hello'[d] = hello[d]
    BY <1>0, <1>9 DEF ConnPend, ConnReply, ConnTouch, Close, GoTo
  <2>4. pc'[c] \in Attached => pc[c] \in Attached /\ hello'[c] = hello[c]
    BY <1>0, <1>9 DEF ConnPend, ConnReply, ConnTouch, Close, GoTo, Attached
  <2> QED
    BY <1>1, <2>1, <2>2, <2>3, <2>4, TrustFrame
<1>10. CASE Wake \/ Reap \/ Tick
  <2>1. UNCHANGED <<approved, trusted, hello>>
    BY <1>10 DEF Wake, Reap, Tick, trust
  <2>2. Live' \subseteq Live
    BY <1>0, <1>10, ReapLemma, TickLemma DEF Wake, Live
  <2>3. \A t \in Threads \ {Reaper} : pc'[t] = pc[t]
    BY <1>0, <1>10 DEF Wake, Reap, Tick, GoTo
  <2> QED
    BY <1>1, <2>1, <2>2, <2>3, TrustFrame
<1>11. CASE Restart
  <2>1. Live' = {} /\ UNCHANGED <<approved, trusted>> /\ pc' = Idling
    BY <1>11 DEF Restart, Live, trust
  <2> QED
    BY <1>1, <2>1, EmptyType, TrustFrame DEF Attached
<1>12. CASE UNCHANGED vars
  BY <1>1, <1>12, TrustFrame DEF vars, Live
<1> QED
  BY <1>4, <1>5, <1>6, <1>7, <1>8, <1>9, <1>10, <1>11, <1>12
     DEF Next, Input, UdpStep, ConnStep

(* Whatever is revoked, reaped or restarted meanwhile, nobody is given a   *)
(* device whom no administrator ever approved (server.rs 297-314, 487-511).*)
THEOREM NoStrangers == Spec => []OnlyTrustedServed
<1>1. Init => TrustInv
  BY EmptyType DEF Init, TrustInv, OnlyTrustedServed, Live, Attached
<1>2. TrustInv => OnlyTrustedServed
  BY DEF TrustInv
<1> QED
  BY <1>1, <1>2, TrustStep, TypeAlways, PTL DEF Spec

-----------------------------------------------------------------------------
(* Routes.                                                                 *)

RouteInv ==
  /\ RoutesFollowAcks
  /\ pc[UdpTask] \in Busy => acks[peer].payload = hello[UdpTask]
  /\ pc[UdpTask] \in {"pend", "serve", "reject"} => routes[peer] = None

RouteFrame == <<routes, acks, peer, pc[UdpTask], hello[UdpTask]>>

LEMMA RouteStutter == RouteInv /\ UNCHANGED RouteFrame => RouteInv'
  BY DEF RouteInv, RoutesFollowAcks, RouteFrame

LEMMA RouteStep == TypeInv /\ RouteInv /\ [Next]_vars => RouteInv'
<1> SUFFICES ASSUME TypeInv, RouteInv, [Next]_vars PROVE RouteInv'
  OBVIOUS
<1> USE ThreadFacts
<1>0. /\ pc \in [Threads -> {"recv", "sleep", "reap", "closed", "hello", "pend",
                             "serve", "ack", "reject", "open", "touch"}]
      /\ hello \in [Threads -> Payloads \cup {None}]
      /\ routes \in [Addrs -> Keys \cup {None}]
      /\ acks \in [Addrs -> [status : Statuses, payload : Payloads \cup {None}]]
      /\ pc[UdpTask] \in Busy => hello[UdpTask] \in Payloads /\ peer \in Addrs
  BY DEF TypeInv, TypeOK, Control
<1>1. ASSUME NEW a \in Addrs, NEW p \in Payloads, UdpHandshake(a, p) PROVE RouteInv'
  <2>1. pc[UdpTask] = "recv" /\ pc'[UdpTask] \in {"serve", "pend"}
    BY <1>0, <1>1 DEF UdpHandshake, Admit, GoTo
  <2>2. hello'[UdpTask] = p /\ peer' = a
    BY <1>0, <1>1 DEF UdpHandshake, Admit
  <2>3. /\ routes'[a] = None /\ acks'[a].payload = p
        /\ \A b \in Addrs \ {a} : routes'[b] = routes[b] /\ acks'[b] = acks[b]
    BY <1>0, <1>1 DEF UdpHandshake
  <2>4. RoutesFollowAcks'
    BY <2>1, <2>3 DEF RouteInv, RoutesFollowAcks
  <2> QED
    BY <2>1, <2>2, <2>3, <2>4 DEF RouteInv
<1>2. ASSUME NEW s \in Statuses, pc[UdpTask] \in Busy, UdpAnswer(s), UNCHANGED routes,
             s = "Approved" \/ pc[UdpTask] \in {"pend", "reject"}
      PROVE  RouteInv'
  <2>1. pc'[UdpTask] = "recv"
    BY <1>0, <1>2 DEF UdpAnswer, GoTo
  <2>2. /\ acks'[peer].payload = acks[peer].payload /\ acks'[peer].status = s
        /\ \A b \in Addrs \ {peer} : acks'[b] = acks[b]
    BY <1>0, <1>2 DEF UdpAnswer
  <2>3. ASSUME NEW a \in Addrs, routes[a] # None
        PROVE  /\ acks'[a].payload # None /\ acks'[a].payload.key = routes[a]
               /\ acks'[a].status = "Approved"
    <3>1. acks[a].payload # None /\ acks[a].payload.key = routes[a]
      BY <2>3 DEF RouteInv, RoutesFollowAcks
    <3>2. CASE a = peer
      BY <1>2, <2>2, <2>3, <3>1, <3>2 DEF RouteInv
    <3>3. CASE a # peer
      BY <2>2, <2>3, <3>1, <3>3 DEF RouteInv, RoutesFollowAcks
    <3> QED
      BY <3>2, <3>3
  <2> QED
    BY <1>2, <2>1, <2>3 DEF RouteInv, RoutesFollowAcks, Busy
<1>3. CASE UdpPend
  BY <1>2, <1>3 DEF UdpPend, Busy, Statuses
<1>4. CASE UdpReply
  <2>1. CASE pc[UdpTask] = "ack" /\ UdpAnswer("Approved")
    BY <1>2, <1>4, <2>1 DEF UdpReply, Busy, Statuses
  <2>2. CASE pc[UdpTask] = "reject" /\ UdpAnswer("Rejected")
    BY <1>2, <1>4, <2>2 DEF UdpReply, Busy, Statuses
  <2> QED
    BY <1>4, <2>1, <2>2 DEF UdpReply
<1>5. CASE UdpServe
  <2>1. /\ pc[UdpTask] = "serve" /\ pc'[UdpTask] \in {"ack", "reject"}
        /\ UNCHANGED <<hello, peer, acks>>
    BY <1>0, <1>5 DEF UdpServe, Serve, GoTo
  <2>2. /\ hello[UdpTask] \in Payloads /\ peer \in Addrs
        /\ acks[peer].payload = hello[UdpTask] /\ routes[peer] = None
    BY <1>0, <2>1 DEF RouteInv, Busy
  <2>3. CASE pc'[UdpTask] = "ack"
    <3>1. /\ routes'[peer] = hello[UdpTask].key
          /\ \A b \in Addrs \ {peer} : routes'[b] = routes[b]
      BY <1>0, <1>5, <2>2, <2>3 DEF UdpServe
    <3>2. RoutesFollowAcks'
      BY <2>1, <2>2, <2>3, <3>1, NoneIsNoSession DEF RouteInv, RoutesFollowAcks
    <3> QED
      BY <2>1, <2>2, <2>3, <3>2 DEF RouteInv
  <2>4. CASE pc'[UdpTask] = "reject"
    <3>1. UNCHANGED routes
      BY <1>5, <2>4 DEF UdpServe
    <3>2. RoutesFollowAcks'
      BY <2>1, <2>2, <3>1 DEF RouteInv, RoutesFollowAcks
    <3> QED
      BY <2>1, <2>2, <3>1, <3>2 DEF RouteInv
  <2> QED
    BY <2>1, <2>3, <2>4
<1>6. ASSUME NEW a \in Addrs, UdpMessage(a) PROVE RouteInv'
  <2>1. pc[UdpTask] = "recv" /\ pc'[UdpTask] = "touch" /\ UNCHANGED <<routes, acks>>
    BY <1>0, <1>6 DEF UdpMessage, GoTo
  <2> QED
    BY <2>1 DEF RouteInv, RoutesFollowAcks, Busy
<1>7. CASE UdpTouch
  <2>1. pc[UdpTask] = "touch" /\ pc'[UdpTask] = "recv" /\ UNCHANGED <<routes, acks>>
    BY <1>0, <1>7 DEF UdpTouch, GoTo
  <2> QED
    BY <2>1 DEF RouteInv, RoutesFollowAcks, Busy
<1>8. ASSUME NEW c \in Conns, Connect(c) \/ ConnMessage(c) \/ ConnLost(c)
      PROVE  UNCHANGED RouteFrame
  BY <1>0, <1>8 DEF Connect, ConnMessage, ConnLost, Close, GoTo, ConnVars, RouteFrame
<1>9. ASSUME NEW c \in Conns, NEW p \in Payloads, ConnHandshake(c, p)
      PROVE  UNCHANGED RouteFrame
  BY <1>0, <1>9 DEF ConnHandshake, Admit, GoTo, ConnVars, RouteFrame
<1>10. ASSUME NEW c \in Conns, ConnPend(c) \/ ConnReply(c) \/ ConnTouch(c)
       PROVE  UNCHANGED RouteFrame
  BY <1>0, <1>10 DEF ConnPend, ConnReply, ConnTouch, Close, GoTo, ConnVars, RouteFrame
<1>11. ASSUME NEW c \in Conns, ConnServe(c) PROVE UNCHANGED RouteFrame
  BY <1>0, <1>11 DEF ConnServe, Serve, GoTo, RouteFrame
<1>12. CASE \E c \in Clients : Approve(c) \/ Revoke(c)
  BY <1>12, RouteStutter DEF Approve, Revoke, Daemon, RouteFrame
<1>13. CASE Wake \/ Reap \/ Tick
  <2>1. UNCHANGED RouteFrame
    BY <1>0, <1>13 DEF Wake, Reap, Tick, GoTo, ConnVars, RouteFrame
  <2> QED
    BY <2>1, RouteStutter
<1>14. CASE Restart
  BY <1>14, EmptyType DEF Restart, RouteInv, RoutesFollowAcks, Busy
<1>15. CASE UNCHANGED vars
  BY <1>15, RouteStutter DEF vars, RouteFrame
<1> QED
  BY <1>1, <1>3, <1>4, <1>5, <1>6, <1>7, <1>8, <1>9, <1>10, <1>11, <1>12, <1>13,
     <1>14, <1>15, RouteStutter DEF Next, Input, UdpStep, ConnStep

(* An address keeps no route from before a handshake that was refused, and *)
(* its events reach no device but the one it was last granted              *)
(* (server.rs 297-314, 345-373).                                           *)
THEOREM RoutesGranted == Spec => []RoutesFollowAcks
<1>1. Init => RouteInv
  BY EmptyType DEF Init, RouteInv, RoutesFollowAcks, Busy
<1>2. RouteInv => RoutesFollowAcks
  BY DEF RouteInv
<1> QED
  BY <1>1, <1>2, RouteStep, TypeAlways, PTL DEF Spec

-----------------------------------------------------------------------------
(* Names.  As long as nothing was reaped no number exceeds the count.      *)

Numbered ==
  ~ reaped => \A h \in Hosts : \A k \in SameHost(h) :
                sessions[k].number <= Cardinality(SameHost(h))

NameInv == NamesDistinct /\ Numbered

LEMMA NameFrame ==
  ASSUME NameInv, Live' = Live, reaped' = reaped,
         \A k \in Live : /\ sessions'[k].host = sessions[k].host
                         /\ sessions'[k].number = sessions[k].number
  PROVE  NameInv'
<1>1. \A h : SameHost(h)' = SameHost(h)
  BY DEF SameHost
<1>2. NamesDistinct'
  BY DEF NameInv, NamesDistinct
<1>3. Numbered'
  BY <1>1 DEF NameInv, Numbered, SameHost
<1> QED
  BY <1>2, <1>3 DEF NameInv

LEMMA NameCreate ==
  ASSUME TypeInv, NameInv, reaped' = reaped, NEW p \in Payloads, p.key \notin Live,
         sessions' = [sessions EXCEPT ![p.key] = NewSession(p)]
  PROVE  NameInv'
<1> DEFINE n == Cardinality(SameHost(p.host))
<1>1. sessions \in [Keys -> Session \cup {None}] /\ p.host \in Hosts
      /\ \A k \in Live : sessions[k] \in Session
  BY LiveType, PayloadAssumption DEF TypeInv, TypeOK
<1>2. /\ Live' = Live \cup {p.key} /\ p.key \notin Live
      /\ \A k \in Live : sessions'[k] = sessions[k]
      /\ sessions'[p.key] = NewSession(p)
  BY <1>1, CreateLemma DEF Live
<1>3. n \in Nat /\ IsFiniteSet(SameHost(p.host))
  BY SameHostFinite
<1>4. /\ NewSession(p).host = p.host
      /\ NewSession(p).number = IF n = 0 THEN 0 ELSE n + 1
  BY DEF NewSession
<1>5. SameHost(p.host)' = SameHost(p.host) \cup {p.key}
  BY <1>2, <1>4 DEF SameHost
<1>6. Cardinality(SameHost(p.host)') = n + 1
  <2>1. p.key \notin SameHost(p.host)
    BY <1>2 DEF SameHost
  <2> QED
    BY <1>3, <1>5, <2>1, FS_AddElement
<1>7. \A h : h # p.host => SameHost(h)' = SameHost(h)
  BY <1>2, <1>4 DEF SameHost
<1> HIDE DEF n
<1>8. ASSUME ~ reaped, NEW k \in Live, sessions[k].host = p.host
      PROVE  sessions[k].number <= n /\ n # 0
  <2>1. sessions[k].number <= n
    BY <1>1, <1>8 DEF NameInv, Numbered, SameHost, n
  <2>2. n # 0
    BY <1>3, <1>8, FS_EmptySet DEF SameHost, n
  <2> QED
    BY <2>1, <2>2
<1>9. \A k \in Live : sessions[k].number \in Nat
  BY <1>1 DEF Session
<1>10. NamesDistinct'
  <2>1. SUFFICES ASSUME NEW k \in Live', NEW l \in Live', k # l,
                        sessions'[k].host = sessions'[l].host, ~ reaped
                 PROVE  sessions'[k].number # sessions'[l].number
    BY DEF NamesDistinct
  <2>2. CASE k \in Live /\ l \in Live
    BY <1>2, <2>1, <2>2 DEF NameInv, NamesDistinct
  <2>3. CASE k = p.key /\ l \in Live
    <3>1. sessions'[k].number = n + 1 /\ sessions'[l].number <= n
      BY <1>2, <1>4, <1>8, <2>1, <2>3
    <3> QED
      BY <1>2, <1>3, <1>9, <2>3, <3>1
  <2>4. CASE l = p.key /\ k \in Live
    <3>1. sessions'[l].number = n + 1 /\ sessions'[k].number <= n
      BY <1>2, <1>4, <1>8, <2>1, <2>4
    <3> QED
      BY <1>2, <1>3, <1>9, <2>4, <3>1
  <2> QED
    BY <1>2, <2>1, <2>2, <2>3, <2>4
<1>11. Numbered'
  <2>1. SUFFICES ASSUME ~ reaped, NEW h \in Hosts, NEW k \in SameHost(h)'
                 PROVE  sessions'[k].number <= Cardinality(SameHost(h)')
    BY DEF Numbered
  <2>2. CASE h = p.host
    <3>1. CASE k = p.key
      BY <1>2, <1>3, <1>4, <1>6, <2>2, <3>1
    <3>2. CASE k # p.key
      <4>1. k \in Live /\ sessions'[k] = sessions[k] /\ sessions[k].host = p.host
        BY <1>2, <1>5, <2>1, <2>2, <3>2 DEF SameHost
      <4>2. sessions[k].number <= n /\ sessions[k].number \in Nat
        BY <1>8, <1>9, <2>1, <4>1
      <4> QED
        BY <1>3, <1>6, <2>2, <4>1, <4>2
    <3> QED
      BY <3>1, <3>2
  <2>3. CASE h # p.host
    <3>1. SameHost(h)' = SameHost(h) /\ k \in SameHost(h)
      BY <1>7, <2>1, <2>3
    <3>2. sessions'[k] = sessions[k]
      BY <1>2, <3>1 DEF SameHost
    <3> QED
      BY <2>1, <3>1, <3>2 DEF NameInv, Numbered
  <2> QED
    BY <2>2, <2>3
<1> QED
  BY <1>10, <1>11 DEF NameInv

LEMMA NameStep == TypeInv /\ NameInv /\ [Next]_vars => NameInv'
<1> SUFFICES ASSUME TypeInv, NameInv, [Next]_vars PROVE NameInv'
  OBVIOUS
<1>0. sessions \in [Keys -> Session \cup {None}] /\ reaped \in BOOLEAN
  BY DEF TypeInv, TypeOK
<1>1. CASE UNCHANGED <<sessions, reaped>>
  BY <1>1, NameFrame DEF Live
<1>2. CASE (\E k \in Live : Touch(k)) /\ UNCHANGED reaped
  BY <1>2, NameFrame, TouchKeepsName
<1>3. CASE (\E t \in Conns \cup {UdpTask} : Create(t)) /\ UNCHANGED <<reaped, trusted>>
  <2>1. PICK t \in Conns \cup {UdpTask} : Create(t)
    BY <1>3
  <2>2. PICK p \in Payloads : p = hello[t]
    BY <2>1 DEF Create
  <2> QED
    BY <1>3, <2>1, <2>2, NameCreate DEF Create
<1>4. CASE Tick /\ UNCHANGED reaped
  BY <1>0, <1>4, NameFrame, TickLemma
<1>5. CASE Reap
  <2>1. CASE Expired = {}
    <3>1. Live' = Live /\ \A k \in Live : sessions'[k] = sessions[k]
      BY <1>0, <1>5, <2>1, ReapLemma
    <3>2. reaped' = reaped
      BY <1>0, <1>5, <2>1 DEF Reap
    <3> QED
      BY <3>1, <3>2, NameFrame
  <2>2. CASE Expired # {}
    <3>1. reaped'
      BY <1>0, <1>5, <2>2 DEF Reap
    <3> QED
      BY <3>1 DEF NameInv, NamesDistinct, Numbered
  <2> QED
    BY <2>1, <2>2
<1>6. CASE Restart
  <2>1. Live' = {}
    BY <1>6 DEF Restart, Live
  <2> QED
    BY <2>1 DEF NameInv, NamesDistinct, Numbered, SameHost
<1> QED
  BY <1>1, <1>2, <1>3, <1>4, <1>5, <1>6, SessionsStep

(* Any number of devices of a host, created and reused in any order, have  *)
(* different names until the first is reaped (server.rs 316-335).          *)
THEOREM NamesUnique == Spec => []NamesDistinct
<1>1. Init => NameInv
  <2>1. Init => Live = {}
    BY DEF Init, Live
  <2> QED
    BY <2>1 DEF NameInv, NamesDistinct, Numbered, SameHost
<1>2. NameInv => NamesDistinct
  BY DEF NameInv
<1> QED
  BY <1>1, <1>2, NameStep, TypeAlways, PTL DEF Spec

-----------------------------------------------------------------------------
(* Connections and their devices.                                          *)

LEMMA LiveGrows ==
  ASSUME TypeInv, [Next]_vars, ~ Restart, ~ reaped'
  PROVE  Live \subseteq Live' /\ ~ reaped
<1>0. sessions \in [Keys -> Session \cup {None}] /\ reaped \in BOOLEAN
  BY DEF TypeInv, TypeOK
<1>1. CASE UNCHANGED <<sessions, reaped>>
  BY <1>1 DEF Live
<1>2. CASE (\E k \in Live : Touch(k)) /\ UNCHANGED reaped
  BY <1>2, TouchKeepsName
<1>3. CASE (\E t \in Conns \cup {UdpTask} : Create(t)) /\ UNCHANGED <<reaped, trusted>>
  <2>1. PICK t \in Conns \cup {UdpTask} : Create(t)
    BY <1>3
  <2> QED
    BY <1>0, <1>3, <2>1, CreateLemma DEF Create
<1>4. CASE Tick /\ UNCHANGED reaped
  BY <1>0, <1>4, TickLemma
<1>5. CASE Reap
  <2>1. Expired = {} /\ ~ reaped
    BY <1>0, <1>5 DEF Reap
  <2> QED
    BY <1>0, <1>5, <2>1, ReapLemma
<1> QED
  BY <1>1, <1>2, <1>3, <1>4, <1>5, SessionsStep

Served == {"ack", "open", "touch"}

(* A connection begins to be served by Serve, or was served before.        *)
LEMMA ServedBy ==
  ASSUME TypeInv, [Next]_vars, NEW c \in Conns, pc'[c] \in Served
  PROVE  \/ pc[c] \in Served /\ hello'[c] = hello[c]
         \/ hello'[c].key \in Live'
<1> DEFINE Same == pc[c] \in Served /\ hello'[c] = hello[c]
<1> USE ThreadFacts
<1>0. /\ pc \in [Threads -> {"recv", "sleep", "reap", "closed", "hello", "pend",
                             "serve", "ack", "reject", "open", "touch"}]
      /\ hello \in [Threads -> Payloads \cup {None}]
      /\ sessions \in [Keys -> Session \cup {None}]
  BY DEF TypeInv, TypeOK
<1>1. CASE ConnServe(c)
  <2>1. hello[c] \in Payloads /\ hello' = hello
    BY <1>1 DEF ConnServe, Serve, TypeInv, Control, Busy
  <2>2. pc'[c] = "ack" /\ pc'[c] # "reject"
    BY <1>0, <1>1 DEF ConnServe, Serve, GoTo, Served
  <2>3. Live' = Live \cup {hello[c].key}
    BY <1>0, <1>1, <2>1, <2>2, ServeLemma DEF ConnServe
  <2> QED
    BY <2>1, <2>3
<1>2. ASSUME NEW d \in Threads \ {c}, Serve(d) PROVE Same
  BY <1>0, <1>2 DEF Serve, GoTo
<1>3. CASE Input
  <2>1. ASSUME NEW d \in Conns, NEW p \in Payloads, ConnHandshake(d, p) PROVE Same
    BY <1>0, <2>1 DEF ConnHandshake, Admit, GoTo, Served
  <2>2. ASSUME NEW a \in Addrs, NEW p \in Payloads, UdpHandshake(a, p) PROVE Same
    BY <1>0, <2>2 DEF UdpHandshake, Admit, GoTo
  <2>3. ASSUME NEW d \in Conns, Connect(d) \/ ConnMessage(d) \/ ConnLost(d) PROVE Same
    BY <1>0, <2>3 DEF Connect, ConnMessage, ConnLost, Close, GoTo, Served
  <2>4. ASSUME NEW a \in Addrs, UdpMessage(a) PROVE Same
    BY <1>0, <2>4 DEF UdpMessage, GoTo
  <2>5. ASSUME NEW d \in Clients, Approve(d) \/ Revoke(d) PROVE Same
    BY <2>5 DEF Approve, Revoke, Daemon
  <2> QED
    BY <1>3, <2>1, <2>2, <2>3, <2>4, <2>5 DEF Input
<1>4. CASE UdpPend \/ UdpReply \/ UdpTouch
  BY <1>0, <1>4 DEF UdpPend, UdpReply, UdpTouch, UdpAnswer, GoTo
<1>5. ASSUME NEW d \in Conns, ConnPend(d) \/ ConnReply(d) \/ ConnTouch(d) PROVE Same
  BY <1>0, <1>5 DEF ConnPend, ConnReply, ConnTouch, Close, GoTo, Served
<1>6. CASE Wake \/ Reap \/ Tick
  BY <1>0, <1>6 DEF Wake, Reap, Tick, GoTo
<1>7. ~ Restart
  BY EmptyType DEF Restart, Served
<1>8. CASE UNCHANGED vars
  BY <1>8 DEF vars
<1>9. ASSUME UdpServe \/ \E d \in Conns \ {c} : ConnServe(d) PROVE Same
  BY <1>2, <1>9 DEF UdpServe, ConnServe
<1> QED
  BY <1>1, <1>3, <1>4, <1>5, <1>6, <1>7, <1>8, <1>9 DEF Next, UdpStep, ConnStep

(* A connection that was told Approved keeps its device, whatever other    *)
(* handlers do, fail at or leave behind, unless it is reaped               *)
(* (server.rs 514-618).                                                    *)
THEOREM ServedHasDevice == Spec => []OpenHasDevice
<1>1. Init => OpenHasDevice
  BY EmptyType DEF Init, OpenHasDevice
<1>2. TypeInv /\ OpenHasDevice /\ [Next]_vars => OpenHasDevice'
  <2> SUFFICES ASSUME TypeInv, OpenHasDevice, [Next]_vars,
                      NEW c \in Conns, pc'[c] \in Served, ~ reaped'
               PROVE  hello'[c].key \in Live'
    BY DEF OpenHasDevice, Served
  <2>1. ~ Restart
    BY EmptyType DEF Restart, Served
  <2>2. Live \subseteq Live' /\ ~ reaped
    BY <2>1, LiveGrows
  <2>3. pc[c] \in Served => hello[c].key \in Live
    BY <2>2 DEF OpenHasDevice, Served
  <2> QED
    BY <2>2, <2>3, ServedBy
<1> QED
  BY <1>1, <1>2, TypeAlways, PTL DEF Spec
=============================================================================
