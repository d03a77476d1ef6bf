--------------------------- MODULE TrustSerialProofs ---------------------------
(***************************************************************************)
(* What the trust store does when operations do not overlap, for any       *)
(* number of clients, tasks, commands and prefixes: decisions stick, and   *)
(* the store is a TrustRegistry.                                           *)
(*                                                                         *)
(* The argument: the one thread at work applies its operation to what the  *)
(* file holds (FreshInv), so the store changes there and nowhere else; it  *)
(* is then the copy that is written, until it is in the file (Current).    *)
(***************************************************************************)
EXTENDS TrustStoreProofs

Idle(t) == pc[t] = "idle"
Unsaved == \A t \in Threads : ~ Saving(t)

(* Where the store is: nobody has started to save, or one thread has, and  *)
(* its file is empty from truncation to writing.  Before the first save    *)
(* every copy is empty, so that it does not matter that nothing is read.   *)
FileInv ==
  /\ file.state \in {"absent", "empty", "whole"}
  /\ file.state = "empty" => \E t \in Threads : pc[t] = "fill"
  /\ \A t \in Threads : pc[t] = "fill" => file.state = "empty"
  /\ file.state # "whole" => file.data = EmptyTrust
  /\ file.state = "absent" /\ Unsaved => \A o \in Processes : mem[o] = EmptyTrust

(* An operation is applied to what the file holds.                         *)
FreshInv ==
  \A t \in Threads :
    /\ pc[t] = "install" => file.state = "whole" /\ seen[t] = file.data
    /\ pc[t] = "apply" => mem[Owner(t)] = file.data

(* What a task knows of the client whose handshake it serves.              *)
TaskInv ==
  \A t \in Tasks : ~ Idle(t) =>
    /\ job[t].target \in Clients /\ reply[t] = "None"
    /\ job[t].due => job[t].op = "is_approved" /\ verdict[job[t].target] = "approved"
    /\ job[t].op = "register_pending" => job[t].target \notin Current.approved
    /\ Saving(t) => /\ job[t].op = "register_pending"
                    /\ mem[Daemon].pending[job[t].target] # 0

(* What a command saves is what it decided.                                *)
AdminInv ==
  \A a \in Admins : Saving(a) =>
    /\ job[a].target \in Clients /\ verdict[job[a].target] = "open"
    /\ IF job[a].op = "approve" THEN job[a].target \in mem[a].approved
                                ELSE job[a].target \notin mem[a].approved

(* A store agrees with every decision that was reported.                   *)
Agrees(data) ==
  \A c \in Clients : /\ verdict[c] = "revoked" => c \notin data.approved
                     /\ verdict[c] = "approved" => c \in data.approved

DecisionInv == Agrees(Current) /\ (file.state = "whole" => Agrees(file.data))

SerialInv ==
  /\ TypeOK /\ Serial /\ FileInv /\ FreshInv /\ TaskInv /\ AdminInv /\ DecisionInv
  /\ ApproveReflected

-----------------------------------------------------------------------------
(* One thread at a time: t is the only one that may be at work.            *)
Alone(t) == \A u \in Threads : u # t => Idle(u)

LEMMA AloneNow == ASSUME Serial, NEW t \in Threads, ~ Idle(t) PROVE Alone(t)
BY DEF Serial, Alone, Idle

(* The store, while t is the only thread at work.                          *)
LEMMA CurrentNow ==
  ASSUME NEW t \in Threads, Alone(t)
  PROVE  Current = IF Saving(t) THEN mem[Owner(t)] ELSE file.data
<1>1. \A u \in Threads : Saving(u) => u = t
  BY DEF Alone, Idle, Saving
<1>2. CASE Saving(t)
  <2>1. (CHOOSE u \in Threads : Saving(u)) = t
    BY <1>1, <1>2
  <2>2. QED
    BY <1>2, <2>1 DEF Current
<1>3. CASE ~ Saving(t)
  BY <1>1, <1>3 DEF Current
<1>4. QED
  BY <1>2, <1>3

LEMMA CurrentNext ==
  ASSUME NEW t \in Threads, Alone(t)'
  PROVE  Current' = IF Saving(t)' THEN mem'[Owner(t)] ELSE file'.data
<1>1. \A u \in Threads : Saving(u)' => u = t
  BY DEF Alone, Idle, Saving
<1>2. CASE Saving(t)'
  <2>1. (CHOOSE u \in Threads : Saving(u)') = t
    BY <1>1, <1>2
  <2>2. QED
    BY <1>2, <2>1 DEF Current
<1>3. CASE ~ Saving(t)'
  BY <1>1, <1>3 DEF Current
<1>4. QED
  BY <1>2, <1>3

(* A step that moves t on, or takes it from idle to its first step.        *)
LEMMA Turn ==
  ASSUME TypeOK, Serial, Serial', NEW t \in Threads, NEW s,
         pc' = [pc EXCEPT ![t] = s], ~ Idle(t) \/ s # "idle"
  PROVE  Alone(t) /\ Alone(t)' /\ pc'[t] = s
<1>1. pc'[t] = s /\ \A u \in Threads : u # t => pc'[u] = pc[u]
  BY DEF TypeOK
<1>2. QED
  BY <1>1 DEF Serial, Alone, Idle

(* What SerialInv says when t is the only thread at work.                  *)
LEMMA FileAlone ==
  ASSUME NEW t \in Threads, Alone(t),
         file.state \in {"absent", "empty", "whole"},
         file.state = "empty" <=> pc[t] = "fill",
         file.state # "whole" => file.data = EmptyTrust,
         file.state = "absent" /\ ~ Saving(t) => \A o \in Processes : mem[o] = EmptyTrust
  PROVE  FileInv
BY DEF FileInv, Alone, Idle, Unsaved

LEMMA Pieces ==
  ASSUME TypeOK, Serial, FileInv, FreshInv, TaskInv, AdminInv, DecisionInv, ApproveReflected
  PROVE  SerialInv
BY DEF SerialInv

-----------------------------------------------------------------------------
(* Each operation of a task, step by step, keeps the invariant, and is a   *)
(* step of the registry or none.                                           *)
LEMMA HandshakeSerial ==
  ASSUME SerialInv, TypeOK', Serial', NEW t \in Tasks, NEW c \in Clients, Handshake(t, c)
  PROVE  SerialInv' /\ Registry!Ask(t, c)
<1>0. TypeOK /\ Serial /\ t \in Threads
  BY DEF SerialInv, Threads
<1>1. /\ pc[t] = "idle" /\ pc' = [pc EXCEPT ![t] = "read"]
      /\ job' = [job EXCEPT ![t] = [op |-> "is_approved", target |-> c,
                                    due |-> verdict[c] = "approved"]]
      /\ reply' = [reply EXCEPT ![t] = "None"]
      /\ UNCHANGED <<file, mem, seen, now, verdict>>
  BY DEF Handshake
<1>2. Alone(t) /\ Alone(t)' /\ pc'[t] = "read"
  BY <1>0, <1>1, Turn
<1>3. Current = file.data /\ Current' = file.data
  BY <1>0, <1>1, <1>2, CurrentNow, CurrentNext DEF Saving
<1>4. FileInv'
  BY <1>0, <1>1, <1>2 DEF SerialInv, FileInv, Alone, Idle, Unsaved, Saving
<1>5. FreshInv'
  BY <1>0, <1>1, <1>2 DEF FreshInv, Alone, Idle
<1>6. TaskInv'
  BY <1>0, <1>1, <1>2 DEF TaskInv, Alone, Idle, Saving, TypeOK, Threads
<1>7. AdminInv'
  BY <1>0, <1>1, <1>2, DistinctProcesses DEF AdminInv, Alone, Idle, Saving, Threads
<1>8. DecisionInv'
  BY <1>1, <1>3 DEF SerialInv, DecisionInv, Agrees
<1>9. ApproveReflected'
  BY <1>0, <1>1 DEF SerialInv, ApproveReflected, TypeOK, Threads
<1>10. Registry!Ask(t, c)
  BY <1>0, <1>1, <1>3 DEF Registry!Ask, TypeOK, Threads
<1>11. QED
  BY <1>4, <1>5, <1>6, <1>7, <1>8, <1>9, <1>10 DEF SerialInv

LEMMA IsApprovedSerial ==
  ASSUME SerialInv, TypeOK', Serial', NEW t \in Tasks, IsApproved(t)
  PROVE  SerialInv' /\ (Registry!Answer(t) \/ UNCHANGED Registry!regVars)
<1>0. TypeOK /\ Serial /\ t \in Threads /\ Owner(t) = Daemon
  BY DEF SerialInv, Threads, Owner
<1>1. /\ pc[t] = "apply" /\ job[t].op = "is_approved"
      /\ UNCHANGED <<file, mem, seen, now, verdict>>
  BY DEF IsApproved, Applying
<1>2. Alone(t) /\ Alone(t)' /\ pc'[t] \in {"idle", "read"}
  BY <1>0, <1>1, Turn DEF IsApproved, Idle
<1>3. Current = file.data /\ Current' = file.data /\ mem[Daemon] = file.data
  BY <1>0, <1>1, <1>2, CurrentNow, CurrentNext DEF Saving, SerialInv, FreshInv
<1>4. FileInv'
  BY <1>0, <1>1, <1>2 DEF SerialInv, FileInv, Alone, Idle, Unsaved, Saving
<1>5. FreshInv'
  BY <1>0, <1>1, <1>2 DEF FreshInv, Alone, Idle
<1>6. AdminInv'
  BY <1>0, <1>1, <1>2, DistinctProcesses DEF AdminInv, Alone, Idle, Saving, Threads
<1>7. DecisionInv'
  BY <1>1, <1>3 DEF SerialInv, DecisionInv, Agrees
<1>8. /\ job[t].target \in Clients /\ reply[t] = "None"
      /\ job[t].due => verdict[job[t].target] = "approved"
  BY <1>1 DEF SerialInv, TaskInv, Idle
<1>9. job[t].due => job[t].target \in file.data.approved
  BY <1>3, <1>8 DEF SerialInv, DecisionInv, Agrees
<1>10. CASE job[t].target \in mem[Daemon].approved
  <2>1. /\ pc'[t] = "idle" /\ reply' = [reply EXCEPT ![t] = "Approved"] /\ job' = job
    BY <1>0, <1>10 DEF IsApproved, TypeOK
  <2>2. TaskInv'
    BY <1>0, <1>2, <2>1 DEF TaskInv, Alone, Idle, Threads
  <2>3. ApproveReflected'
    BY <1>0, <2>1 DEF SerialInv, ApproveReflected, TypeOK
  <2>4. Registry!Answer(t)
    BY <1>0, <1>3, <1>8, <1>10, <2>1 DEF Registry!Answer, TypeOK
  <2>5. QED
    BY <1>4, <1>5, <1>6, <1>7, <2>2, <2>3, <2>4 DEF SerialInv
<1>11. CASE job[t].target \notin mem[Daemon].approved
  <2>1. /\ pc'[t] = "read" /\ reply' = reply
        /\ job' = [job EXCEPT ![t].op = "register_pending"]
    BY <1>0, <1>11 DEF IsApproved, TypeOK
  <2>2. /\ job'[t].op = "register_pending" /\ job'[t].target = job[t].target
        /\ job'[t].due = job[t].due /\ \A u \in Threads : u # t => job'[u] = job[u]
    BY <1>0, <2>1 DEF TypeOK, Job
  <2>3. TaskInv'
    BY <1>0, <1>1, <1>2, <1>3, <1>8, <1>9, <1>11, <2>1, <2>2
       DEF TaskInv, Alone, Idle, Saving, Threads
  <2>4. ApproveReflected'
    BY <1>0, <1>8, <2>1, <2>2 DEF SerialInv, ApproveReflected, Threads
  <2>5. UNCHANGED Registry!regVars
    BY <1>0, <1>3, <2>1, <2>2 DEF Registry!regVars, Pending, Threads
  <2>6. QED
    BY <1>4, <1>5, <1>6, <1>7, <2>3, <2>4, <2>5 DEF SerialInv
<1>12. QED
  BY <1>10, <1>11

LEMMA RegisterSerial ==
  ASSUME SerialInv, TypeOK', Serial', NEW t \in Tasks, RegisterPending(t)
  PROVE  SerialInv' /\ Registry!Register(t)
<1>0. TypeOK /\ Serial /\ t \in Threads /\ Owner(t) = Daemon /\ Daemon \in Processes
  BY DEF SerialInv, Threads, Owner, Processes
<1>1. pc[t] = "apply" /\ job[t].op = "register_pending"
  BY DEF RegisterPending, Applying
<1>2. Alone(t)
  BY <1>0, <1>1, AloneNow DEF Idle
<1>3. Current = file.data /\ mem[Daemon] = file.data
  BY <1>0, <1>1, <1>2, CurrentNow DEF Saving, SerialInv, FreshInv
<1>4. /\ job[t].target \in Clients /\ reply[t] = "None" /\ ~ job[t].due
      /\ job[t].target \notin mem[Daemon].approved
  BY <1>1, <1>3 DEF SerialInv, TaskInv, Idle
<1>5. /\ mem' = [mem EXCEPT ![Daemon].pending[job[t].target] = now]
      /\ pc' = [pc EXCEPT ![t] = "truncate"]
      /\ UNCHANGED <<file, seen, job, reply, now, verdict>>
  BY <1>4 DEF RegisterPending
<1>6. Alone(t)' /\ pc'[t] = "truncate"
  BY <1>0, <1>5, Turn
<1>7. /\ mem'[Daemon].approved = mem[Daemon].approved
      /\ mem'[Daemon].pending = [mem[Daemon].pending EXCEPT ![job[t].target] = now]
      /\ mem[Daemon] \in TrustData
  BY <1>0, <1>5, CopyTypes DEF TypeOK, TrustData
<1>8. now # 0
  BY <1>0, MaxTimeAssumption DEF TypeOK
<1>9. Current' = mem'[Daemon]
  BY <1>0, <1>6, CurrentNext DEF Saving
<1>10. FileInv'
  BY <1>0, <1>1, <1>2, <1>5, <1>6 DEF SerialInv, FileInv, Alone, Idle, Unsaved, Saving
<1>11. FreshInv'
  BY <1>0, <1>6 DEF FreshInv, Alone, Idle
<1>12. TaskInv'
  <2>1. mem'[Daemon].pending[job[t].target] # 0
    BY <1>4, <1>7, <1>8 DEF TrustData
  <2>2. job' = job /\ reply' = reply /\ verdict' = verdict
    BY <1>5
  <2>3. QED
    BY <1>0, <1>1, <1>4, <1>6, <1>7, <1>9, <2>1, <2>2 DEF TaskInv, Alone, Idle, Threads
<1>13. AdminInv'
  BY <1>0, <1>6, DistinctProcesses DEF AdminInv, Alone, Idle, Saving, Threads
<1>14. DecisionInv'
  BY <1>3, <1>5, <1>7, <1>9 DEF SerialInv, DecisionInv, Agrees
<1>15. ApproveReflected'
  BY <1>5 DEF SerialInv, ApproveReflected
<1>16. Pending(Current)' = Pending(Current) \cup {job[t].target}
  BY <1>3, <1>4, <1>7, <1>8, <1>9 DEF Pending, TrustData
<1>17. Registry!Register(t)
  BY <1>3, <1>4, <1>5, <1>7, <1>9, <1>16 DEF Registry!Register
<1>18. QED
  BY <1>10, <1>11, <1>12, <1>13, <1>14, <1>15, <1>17 DEF SerialInv

-----------------------------------------------------------------------------
(* The operations of a command.                                            *)
LEMMA CommandSerial ==
  ASSUME SerialInv, TypeOK', Serial', NEW a \in Admins, NEW op \in {"approve", "revoke"},
         NEW p \in Prefixes, Command(a, op, p)
  PROVE  SerialInv' /\ UNCHANGED Registry!regVars
<1>0. TypeOK /\ Serial /\ a \in Threads /\ a \notin Tasks /\ Owner(a) = a
  BY DistinctProcesses DEF SerialInv, Threads, Owner
<1>1. /\ pc[a] = "idle" /\ pc' = [pc EXCEPT ![a] = "read"]
      /\ job' = [job EXCEPT ![a] = [op |-> op, target |-> p, due |-> FALSE]]
      /\ mem' = [mem EXCEPT ![a] = Load(file)]
      /\ UNCHANGED <<file, seen, reply, now, verdict>>
  BY DEF Command
<1>2. Alone(a) /\ Alone(a)' /\ pc'[a] = "read"
  BY <1>0, <1>1, Turn
<1>3. Current = file.data /\ Current' = file.data
  BY <1>0, <1>1, <1>2, CurrentNow, CurrentNext DEF Saving
<1>4. \A u \in Tasks : job'[u] = job[u]
  BY <1>0, <1>1 DEF TypeOK, Threads
<1>5. FileInv'
  <2>1. \A o \in Processes : mem'[o] \in {mem[o], Load(file)}
    BY <1>0, <1>1 DEF TypeOK
  <2>2. file.state = "absent" => Load(file) = EmptyTrust
    BY DEF Load
  <2>3. QED
    BY <1>0, <1>1, <1>2, <2>1, <2>2 DEF SerialInv, FileInv, Alone, Idle, Unsaved, Saving
<1>6. FreshInv'
  BY <1>0, <1>1, <1>2 DEF FreshInv, Alone, Idle
<1>7. TaskInv' /\ AdminInv'
  BY <1>0, <1>2 DEF TaskInv, AdminInv, Alone, Idle, Saving, Threads
<1>8. DecisionInv'
  BY <1>1, <1>3 DEF SerialInv, DecisionInv, Agrees
<1>9. ApproveReflected'
  BY <1>1, <1>4 DEF SerialInv, ApproveReflected
<1>10. UNCHANGED Registry!regVars
  BY <1>1, <1>3, <1>4 DEF Registry!regVars, Pending
<1>11. QED
  BY <1>5, <1>6, <1>7, <1>8, <1>9, <1>10 DEF SerialInv

(* A decision is taken on what the file holds.                             *)
LEMMA DecideSerial ==
  ASSUME SerialInv, TypeOK', Serial', NEW a \in Admins, pc[a] = "apply",
         NEW id \in Clients, NEW data, Decide(a, id, data),
         IF job[a].op = "approve" THEN id \in data.approved ELSE id \notin data.approved,
         \A c \in Clients \ {id} : c \in data.approved <=> c \in mem[a].approved,
         file.state = "whole"
  PROVE  /\ SerialInv' /\ Current = mem[a] /\ Current' = data /\ reply' = reply
         /\ \A u \in Tasks : job'[u].target = job[u].target
<1>0. TypeOK /\ Serial /\ a \in Threads /\ a \notin Tasks /\ Owner(a) = a /\ a \in Processes
  BY DistinctProcesses DEF SerialInv, Threads, Owner, Processes
<1>1. /\ mem' = [mem EXCEPT ![a] = data]
      /\ verdict' = [verdict EXCEPT ![id] = "open"]
      /\ pc' = [pc EXCEPT ![a] = "truncate"]
      /\ UNCHANGED <<file, seen, reply, now>>
  BY DEF Decide
<1>2. /\ job'[a].target = id /\ job'[a].op = job[a].op
      /\ \A u \in Threads : u # a => /\ job'[u].target = job[u].target
                                     /\ job'[u].due => job[u].due
  BY <1>0 DEF Decide, TypeOK, Job
<1>3. Alone(a) /\ Alone(a)' /\ pc'[a] = "truncate"
  BY <1>0, <1>1, Turn
<1>4. mem'[a] = data /\ mem[a] = file.data
  BY <1>0, <1>1 DEF TypeOK, SerialInv, FreshInv
<1>5. Current = file.data /\ Current' = data
  BY <1>0, <1>3, <1>4, CurrentNow, CurrentNext DEF Saving
<1>6. verdict'[id] = "open" /\ \A c \in Clients : c # id => verdict'[c] = verdict[c]
  BY <1>0, <1>1 DEF TypeOK
<1>7. FileInv'
  BY <1>0, <1>1, <1>3 DEF SerialInv, FileInv, Alone, Idle, Unsaved, Saving
<1>8. FreshInv' /\ TaskInv'
  BY <1>0, <1>3 DEF FreshInv, TaskInv, Alone, Idle, Saving, Threads
<1>9. AdminInv'
  BY <1>0, <1>2, <1>3, <1>4, <1>6 DEF AdminInv, Alone, Idle, Saving, Threads
<1>10. DecisionInv'
  <2>1. Agrees(file.data)
    BY DEF SerialInv, DecisionInv
  <2>2. Agrees(file.data)' /\ Agrees(data)'
    BY <1>1, <1>4, <1>6, <2>1 DEF Agrees
  <2>3. QED
    BY <1>1, <1>5, <2>2 DEF DecisionInv
<1>11. ApproveReflected'
  BY <1>0, <1>1, <1>2 DEF SerialInv, ApproveReflected, Threads
<1>12. QED
  BY <1>0, <1>1, <1>2, <1>4, <1>5, <1>7, <1>8, <1>9, <1>10, <1>11 DEF SerialInv, Threads

LEMMA ApproveSerial ==
  ASSUME SerialInv, TypeOK', Serial', NEW a \in Admins, Approve(a)
  PROVE  SerialInv' /\ \E c \in Clients : Registry!Approve(c)
<1> DEFINE data(id) == [approved |-> mem[a].approved \cup {id},
                        pending |-> [mem[a].pending EXCEPT ![id] = 0]]
<1>1. PICK id \in Matching(job[a].target, Pending(mem[a])) : Decide(a, id, data(id))
  BY DEF Approve
<1>2. id \in Clients /\ id \in Pending(mem[a])
  BY DEF Matching, Pending
<1>3. pc[a] = "apply" /\ job[a].op = "approve"
  BY DEF Approve, Applying
<1>4. mem[a] \in TrustData /\ mem[a] = file.data
  BY <1>3, DistinctProcesses DEF SerialInv, FreshInv, TypeOK, Threads, Owner, Processes
<1>5. file.state = "whole"
  BY <1>2, <1>4 DEF SerialInv, FileInv, Pending, EmptyTrust
<1>6. /\ data(id).approved = mem[a].approved \cup {id}
      /\ Pending(data(id)) = Pending(mem[a]) \ {id}
  BY <1>2, <1>4 DEF Pending, TrustData
<1>7. /\ SerialInv' /\ Current = mem[a] /\ Current' = data(id) /\ reply' = reply
      /\ \A u \in Tasks : job'[u].target = job[u].target
  <2> HIDE DEF data
  <2>1. QED
    BY <1>1, <1>2, <1>3, <1>5, <1>6, DecideSerial
<1>8. Registry!Approve(id)
  BY <1>2, <1>6, <1>7 DEF Registry!Approve, Pending
<1>9. QED
  BY <1>2, <1>7, <1>8

LEMMA RevokeSerial ==
  ASSUME SerialInv, TypeOK', Serial', NEW a \in Admins, Revoke(a)
  PROVE  SerialInv' /\ \E c \in Clients : Registry!Revoke(c)
<1> DEFINE data(id) == [mem[a] EXCEPT !.approved = @ \ {id}]
<1>1. PICK id \in Matching(job[a].target, mem[a].approved) : Decide(a, id, data(id))
  BY DEF Revoke
<1>2. pc[a] = "apply" /\ job[a].op = "revoke"
  BY DEF Revoke, Applying
<1>3. mem[a] \in TrustData /\ mem[a] = file.data
  BY <1>2, DistinctProcesses DEF SerialInv, FreshInv, TypeOK, Threads, Owner, Processes
<1>4. id \in Clients /\ id \in mem[a].approved
  BY <1>3 DEF Matching, TrustData
<1>5. file.state = "whole"
  BY <1>3, <1>4 DEF SerialInv, FileInv, EmptyTrust
<1>6. data(id).approved = mem[a].approved \ {id} /\ Pending(data(id)) = Pending(mem[a])
  BY <1>3 DEF Pending, TrustData
<1>7. /\ SerialInv' /\ Current = mem[a] /\ Current' = data(id) /\ reply' = reply
      /\ \A u \in Tasks : job'[u].target = job[u].target
  <2> HIDE DEF data
  <2>1. QED
    BY <1>1, <1>2, <1>4, <1>5, <1>6, DecideSerial
<1>8. Registry!Revoke(id)
  BY <1>4, <1>6, <1>7 DEF Registry!Revoke, Pending
<1>9. QED
  BY <1>4, <1>7, <1>8

LEMMA NoMatchSerial ==
  ASSUME SerialInv, TypeOK', Serial', NEW a \in Admins, NoMatch(a)
  PROVE  SerialInv' /\ UNCHANGED Registry!regVars
<1>0. TypeOK /\ Serial /\ a \in Threads /\ a \notin Tasks /\ Owner(a) = a
  BY DistinctProcesses DEF SerialInv, Threads, Owner
<1>1. /\ pc[a] = "apply" /\ pc' = [pc EXCEPT ![a] = "idle"]
      /\ mem' = [mem EXCEPT ![a] = EmptyTrust]
      /\ job' = [job EXCEPT ![a] = NoJob]
      /\ UNCHANGED <<file, seen, reply, now, verdict>>
  BY DEF NoMatch, Applying
<1>2. Alone(a) /\ Alone(a)' /\ pc'[a] = "idle"
  BY <1>0, <1>1, Turn DEF Idle
<1>3. Current = file.data /\ Current' = file.data
  BY <1>0, <1>1, <1>2, CurrentNow, CurrentNext DEF Saving
<1>4. \A u \in Tasks : job'[u] = job[u]
  BY <1>0, <1>1 DEF TypeOK, Threads
<1>5. FileInv'
  <2>1. \A o \in Processes : mem'[o] \in {mem[o], EmptyTrust}
    BY <1>0, <1>1 DEF TypeOK
  <2>2. QED
    BY <1>0, <1>1, <1>2, <2>1 DEF SerialInv, FileInv, Alone, Idle, Unsaved, Saving
<1>6. FreshInv'
  BY <1>0, <1>2 DEF FreshInv, Alone, Idle
<1>7. TaskInv' /\ AdminInv'
  BY <1>0, <1>2 DEF TaskInv, AdminInv, Alone, Idle, Saving, Threads
<1>8. DecisionInv'
  BY <1>1, <1>3 DEF SerialInv, DecisionInv, Agrees
<1>9. ApproveReflected'
  BY <1>1, <1>4 DEF SerialInv, ApproveReflected
<1>10. UNCHANGED Registry!regVars
  BY <1>1, <1>3, <1>4 DEF Registry!regVars, Pending
<1>11. QED
  BY <1>5, <1>6, <1>7, <1>8, <1>9, <1>10 DEF SerialInv

-----------------------------------------------------------------------------
(* Reading and saving, of either: the store changes only when an operation *)
(* is applied, and is what is written.                                     *)
LEMMA ReadSerial ==
  ASSUME SerialInv, TypeOK', Serial', NEW t \in Threads, ReadFile(t)
  PROVE  SerialInv' /\ UNCHANGED Registry!regVars
<1>0. TypeOK /\ Serial /\ Owner(t) \in Processes
  BY OwnerType DEF SerialInv
<1>1. pc[t] = "read" /\ UNCHANGED <<file, mem, job, reply, now, verdict>>
  BY DEF ReadFile
<1>2. Alone(t) /\ Alone(t)' /\ pc'[t] \in {"install", "apply"}
  BY <1>0, <1>1, Turn DEF ReadFile, Idle
<1>3. Current = file.data /\ Current' = file.data
  BY <1>0, <1>1, <1>2, CurrentNow, CurrentNext DEF Saving
<1>4. FileInv'
  BY <1>0, <1>1, <1>2 DEF SerialInv, FileInv, Alone, Idle, Unsaved, Saving
<1>5. FreshInv'
  <2>1. CASE file.state = "whole"
    <3>1. pc'[t] = "install" /\ seen'[t] = file.data
      BY <1>0, <2>1 DEF ReadFile, TypeOK
    <3>2. QED
      BY <1>1, <1>2, <2>1, <3>1 DEF FreshInv, Alone, Idle
  <2>2. CASE file.state # "whole"
    <3>1. file.state = "absent" /\ Unsaved
      BY <1>1, <1>2, <2>2 DEF SerialInv, FileInv, Alone, Idle, Unsaved, Saving
    <3>2. mem[Owner(t)] = file.data
      BY <1>0, <3>1 DEF SerialInv, FileInv
    <3>3. pc'[t] = "apply"
      BY <1>0, <2>2 DEF ReadFile, TypeOK
    <3>4. QED
      BY <1>1, <1>2, <3>2, <3>3 DEF FreshInv, Alone, Idle
  <2>3. QED
    BY <2>1, <2>2
<1>6. TaskInv'
  BY <1>1, <1>2, <1>3 DEF SerialInv, TaskInv, Alone, Idle, Saving, Threads
<1>7. AdminInv'
  BY <1>2 DEF AdminInv, Alone, Idle, Saving, Threads
<1>8. DecisionInv' /\ ApproveReflected'
  BY <1>1, <1>3 DEF SerialInv, DecisionInv, Agrees, ApproveReflected
<1>9. UNCHANGED Registry!regVars
  BY <1>1, <1>3 DEF Registry!regVars, Pending
<1>10. QED
  BY <1>4, <1>5, <1>6, <1>7, <1>8, <1>9 DEF SerialInv

LEMMA InstallSerial ==
  ASSUME SerialInv, TypeOK', Serial', NEW t \in Threads, Install(t)
  PROVE  SerialInv' /\ UNCHANGED Registry!regVars
<1>0. TypeOK /\ Serial /\ Owner(t) \in Processes
  BY OwnerType DEF SerialInv
<1>1. /\ pc[t] = "install" /\ pc' = [pc EXCEPT ![t] = "apply"]
      /\ mem' = [mem EXCEPT ![Owner(t)] = seen[t]]
      /\ UNCHANGED <<file, job, reply, now, verdict>>
  BY DEF Install
<1>2. Alone(t) /\ Alone(t)' /\ pc'[t] = "apply"
  BY <1>0, <1>1, Turn DEF Idle
<1>3. Current = file.data /\ Current' = file.data
  BY <1>0, <1>1, <1>2, CurrentNow, CurrentNext DEF Saving
<1>4. file.state = "whole" /\ seen[t] = file.data
  BY <1>1 DEF SerialInv, FreshInv
<1>5. FileInv'
  BY <1>1, <1>2, <1>4 DEF SerialInv, FileInv, Alone, Idle
<1>6. FreshInv'
  BY <1>0, <1>1, <1>2, <1>4 DEF FreshInv, Alone, Idle, TypeOK
<1>7. TaskInv'
  BY <1>1, <1>2, <1>3 DEF SerialInv, TaskInv, Alone, Idle, Saving, Threads
<1>8. AdminInv'
  BY <1>2 DEF AdminInv, Alone, Idle, Saving, Threads
<1>9. DecisionInv' /\ ApproveReflected'
  BY <1>1, <1>3 DEF SerialInv, DecisionInv, Agrees, ApproveReflected
<1>10. UNCHANGED Registry!regVars
  BY <1>1, <1>3 DEF Registry!regVars, Pending
<1>11. QED
  BY <1>5, <1>6, <1>7, <1>8, <1>9, <1>10 DEF SerialInv

LEMMA TruncateSerial ==
  ASSUME SerialInv, TypeOK', Serial', NEW t \in Threads, Truncate(t)
  PROVE  SerialInv' /\ UNCHANGED Registry!regVars
<1>0. TypeOK /\ Serial
  BY DEF SerialInv
<1>1. /\ pc[t] = "truncate" /\ pc' = [pc EXCEPT ![t] = "fill"]
      /\ file' = [state |-> "empty", data |-> EmptyTrust]
      /\ UNCHANGED <<mem, seen, job, reply, now, verdict>>
  BY DEF Truncate, Unreadable
<1>2. Alone(t) /\ Alone(t)' /\ pc'[t] = "fill"
  BY <1>0, <1>1, Turn DEF Idle
<1>3. Current = mem[Owner(t)] /\ Current' = mem[Owner(t)]
  BY <1>0, <1>1, <1>2, CurrentNow, CurrentNext DEF Saving
<1>4. FileInv'
  BY <1>1, <1>2 DEF FileInv, Alone, Idle
<1>5. FreshInv'
  BY <1>2 DEF FreshInv, Alone, Idle
<1>6. TaskInv'
  BY <1>1, <1>2, <1>3 DEF SerialInv, TaskInv, Alone, Idle, Saving, Threads
<1>7. AdminInv'
  BY <1>1, <1>2 DEF SerialInv, AdminInv, Alone, Idle, Saving, Threads
<1>8. DecisionInv' /\ ApproveReflected'
  BY <1>1, <1>3 DEF SerialInv, DecisionInv, Agrees, ApproveReflected
<1>9. UNCHANGED Registry!regVars
  BY <1>1, <1>3 DEF Registry!regVars, Pending
<1>10. QED
  BY <1>4, <1>5, <1>6, <1>7, <1>8, <1>9 DEF SerialInv

LEMMA FillSerial ==
  ASSUME SerialInv, TypeOK', Serial', NEW t \in Threads, Fill(t)
  PROVE  SerialInv' /\ (Registry!Next \/ UNCHANGED Registry!regVars)
<1>0. TypeOK /\ Serial
  BY DEF SerialInv
<1>1. pc[t] = "fill" /\ pc' = [pc EXCEPT ![t] = "idle"] /\ UNCHANGED <<seen, now>>
  BY DEF Fill, Finish
<1>2. Alone(t) /\ Alone(t)' /\ pc'[t] = "idle"
  BY <1>0, <1>1, Turn DEF Idle
<1>3. file' = [state |-> "whole", data |-> mem[Owner(t)]]
  BY <1>1 DEF Fill, Whole, SerialInv, FileInv
<1>4. Current = mem[Owner(t)] /\ Current' = mem[Owner(t)]
  BY <1>0, <1>1, <1>2, <1>3, CurrentNow, CurrentNext DEF Saving
<1>5. Agrees(mem[Owner(t)])
  BY <1>4 DEF SerialInv, DecisionInv
<1>6. FileInv' /\ FreshInv' /\ AdminInv'
  BY <1>2, <1>3 DEF FileInv, FreshInv, AdminInv, Alone, Idle, Saving, Threads
<1>7. TaskInv'
  BY <1>2 DEF TaskInv, Alone, Idle, Threads
<1>8. CASE t \in Tasks
  <2>1. /\ reply' = [reply EXCEPT ![t] = "PendingApproval"]
        /\ UNCHANGED <<mem, job, verdict>>
    BY <1>8 DEF Fill, Finish
  <2>2. /\ job[t].target \in Clients /\ reply[t] = "None" /\ ~ job[t].due
        /\ job[t].target \notin Current.approved
        /\ mem[Daemon].pending[job[t].target] # 0
    BY <1>1, <1>8 DEF SerialInv, TaskInv, Idle, Saving
  <2>3. DecisionInv'
    BY <1>3, <1>4, <1>5, <2>1 DEF DecisionInv, Agrees
  <2>4. ApproveReflected'
    BY <1>0, <2>1, <2>2 DEF SerialInv, ApproveReflected, TypeOK
  <2>5. job[t].target \in Pending(Current) \ Current.approved
    BY <1>4, <1>8, <2>2 DEF Pending, Owner
  <2>6. Registry!Answer(t)
    BY <1>4, <1>8, <2>1, <2>2, <2>5 DEF Registry!Answer, Pending
  <2>7. Registry!Next
    BY <1>8, <2>6 DEF Registry!Next
  <2>8. QED
    BY <1>6, <1>7, <2>3, <2>4, <2>7 DEF SerialInv
<1>9. CASE t \notin Tasks
  <2>1. /\ mem' = [mem EXCEPT ![t] = EmptyTrust] /\ job' = [job EXCEPT ![t] = NoJob]
        /\ verdict' = [verdict EXCEPT ![job[t].target] =
                         IF job[t].op = "approve" THEN "approved" ELSE "revoked"]
        /\ reply' = reply
    BY <1>9 DEF Fill, Finish
  <2>2. /\ t \in Admins /\ Owner(t) = t /\ job[t].target \in Clients
        /\ IF job[t].op = "approve" THEN job[t].target \in mem[t].approved
                                    ELSE job[t].target \notin mem[t].approved
    BY <1>1, <1>9 DEF SerialInv, AdminInv, Saving, Threads, Owner
  <2>3. \A u \in Tasks : job'[u] = job[u]
    BY <1>0, <1>9, <2>1 DEF TypeOK, Threads
  <2>4. /\ verdict'[job[t].target] = IF job[t].op = "approve" THEN "approved" ELSE "revoked"
        /\ \A c \in Clients : c # job[t].target => verdict'[c] = verdict[c]
    BY <1>0, <2>1, <2>2 DEF TypeOK
  <2>5. \A c \in Clients : /\ verdict'[c] = "revoked" => c \notin mem[t].approved
                           /\ verdict'[c] = "approved" => c \in mem[t].approved
    BY <1>5, <2>2, <2>4 DEF Agrees
  <2>6. DecisionInv'
    BY <1>3, <1>4, <2>2, <2>5 DEF DecisionInv, Agrees
  <2>7. ApproveReflected'
    BY <2>1, <2>3 DEF SerialInv, ApproveReflected
  <2>8. UNCHANGED Registry!regVars
    BY <1>4, <2>1, <2>3 DEF Registry!regVars, Pending
  <2>9. QED
    BY <1>6, <1>7, <2>6, <2>7, <2>8 DEF SerialInv
<1>10. QED
  BY <1>8, <1>9

(* Time passes, or nothing happens.                                        *)
LEMMA StillSerial ==
  ASSUME SerialInv, TypeOK', UNCHANGED <<file, mem, seen, pc, job, reply, verdict>>
  PROVE  SerialInv' /\ UNCHANGED Registry!regVars
<1>1. Current' = Current
  BY DEF Current, Saving, Owner
<1>2. Serial' /\ FileInv' /\ FreshInv'
  BY DEF SerialInv, Serial, FileInv, FreshInv, Unsaved, Saving, Owner
<1>3. TaskInv' /\ AdminInv'
  BY <1>1 DEF SerialInv, TaskInv, AdminInv, Idle, Saving
<1>4. DecisionInv' /\ ApproveReflected'
  BY <1>1 DEF SerialInv, DecisionInv, Agrees, ApproveReflected
<1>5. UNCHANGED Registry!regVars
  BY <1>1 DEF Registry!regVars, Pending
<1>6. QED
  BY <1>2, <1>3, <1>4, <1>5 DEF SerialInv

-----------------------------------------------------------------------------
LEMMA SerialStart == Init => SerialInv /\ Registry!Init
<1> SUFFICES ASSUME Init PROVE SerialInv /\ Registry!Init
  OBVIOUS
<1>1. TypeOK
  BY TypeStart
<1>2. \A t \in Threads : pc[t] = "idle"
  BY DEF Init
<1>3. Current = EmptyTrust /\ file = [state |-> "absent", data |-> EmptyTrust]
  BY <1>2 DEF Init, Current, Saving, Unreadable
<1>4. Serial /\ FreshInv /\ AdminInv /\ TaskInv
  BY <1>2 DEF Serial, FreshInv, AdminInv, TaskInv, Idle, Saving, Threads
<1>5. FileInv
  BY <1>2, <1>3 DEF Init, FileInv
<1>6. DecisionInv /\ ApproveReflected
  BY <1>3 DEF Init, DecisionInv, Agrees, ApproveReflected
<1>7. Registry!Init
  <2>1. [t \in Tasks |-> job[t].target] = [t \in Tasks |-> NoTarget]
    BY DEF Init, NoJob, Threads
  <2>2. QED
    BY <1>3, <2>1 DEF Init, Registry!Init, EmptyTrust, Pending
<1>8. QED
  BY <1>1, <1>4, <1>5, <1>6, <1>7 DEF SerialInv

LEMMA SerialStep ==
  SerialInv /\ [Step /\ Serial']_vars => SerialInv' /\ [Registry!Next]_Registry!regVars
<1> SUFFICES ASSUME SerialInv, [Step /\ Serial']_vars
             PROVE  SerialInv' /\ (Registry!Next \/ UNCHANGED Registry!regVars)
  OBVIOUS
<1>1. TypeOK'
  BY TypeStep DEF SerialInv, Next
<1>2. CASE UNCHANGED vars
  BY <1>1, <1>2, StillSerial DEF vars
<1>3. CASE Step /\ Serial'
  <2>1. ASSUME NEW t \in Tasks, NEW c \in Clients, Handshake(t, c)
        PROVE  SerialInv' /\ Registry!Next
    BY <1>1, <1>3, <2>1, HandshakeSerial DEF Registry!Next
  <2>2. ASSUME NEW t \in Tasks, IsApproved(t)
        PROVE  SerialInv' /\ (Registry!Next \/ UNCHANGED Registry!regVars)
    BY <1>1, <1>3, <2>2, IsApprovedSerial DEF Registry!Next
  <2>3. ASSUME NEW t \in Tasks, RegisterPending(t) PROVE SerialInv' /\ Registry!Next
    BY <1>1, <1>3, <2>3, RegisterSerial DEF Registry!Next
  <2>4. ASSUME NEW a \in Admins, NEW op \in {"approve", "revoke"}, NEW p \in Prefixes,
               Command(a, op, p)
        PROVE  SerialInv' /\ UNCHANGED Registry!regVars
    BY <1>1, <1>3, <2>4, CommandSerial
  <2>5. ASSUME NEW a \in Admins, Approve(a) PROVE SerialInv' /\ Registry!Next
    BY <1>1, <1>3, <2>5, ApproveSerial DEF Registry!Next
  <2>6. ASSUME NEW a \in Admins, Revoke(a) PROVE SerialInv' /\ Registry!Next
    BY <1>1, <1>3, <2>6, RevokeSerial DEF Registry!Next
  <2>7. ASSUME NEW a \in Admins, NoMatch(a) PROVE SerialInv' /\ UNCHANGED Registry!regVars
    BY <1>1, <1>3, <2>7, NoMatchSerial
  <2>8. ASSUME NEW t \in Threads, ReadFile(t) \/ Install(t) \/ Truncate(t) \/ Fill(t)
        PROVE  SerialInv' /\ (Registry!Next \/ UNCHANGED Registry!regVars)
    BY <1>1, <1>3, <2>8, ReadSerial, InstallSerial, TruncateSerial, FillSerial
  <2>9. CASE Tick
    BY <1>1, <2>9, StillSerial DEF Tick
  <2>10. QED
    BY <1>3, <2>1, <2>2, <2>3, <2>4, <2>5, <2>6, <2>7, <2>8, <2>9 DEF Step
<1>4. QED
  BY <1>2, <1>3

(* When operations do not overlap and nothing fails, what a command has    *)
(* reported holds in the store until the next decision on that client,     *)
(* for any number of tasks and commands (trust.rs 163-232): no store that  *)
(* can be read approves a client whose revocation was reported.            *)
THEOREM SerialRevoke == SerialSpec => []RevokeSticks
<1>1. SerialInv => RevokeSticks
  BY DEF SerialInv, DecisionInv, Agrees, RevokeSticks
<1>2. QED
  BY <1>1, SerialStart, SerialStep, PTL DEF SerialSpec

(* Nor does one miss a client whose approval was reported.                 *)
THEOREM SerialApprove == SerialSpec => []ApproveSticks
<1>1. SerialInv => ApproveSticks
  BY DEF SerialInv, DecisionInv, Agrees, ApproveSticks
<1>2. QED
  BY <1>1, SerialStart, SerialStep, PTL DEF SerialSpec

(* And the next handshake of that client is not told to wait: a running    *)
(* daemon sees what a command has written (trust.rs 88-133).               *)
THEOREM SerialReflected == SerialSpec => []ApproveReflected
<1>1. SerialInv => ApproveReflected
  BY DEF SerialInv
<1>2. QED
  BY <1>1, SerialStart, SerialStep, PTL DEF SerialSpec

(* The reload - apply - save sequences are then the atomic operations of   *)
(* TrustRegistry: the store changes when an operation is applied, and each *)
(* handshake gets the answer the registry gives.                           *)
THEOREM SerialImplements == SerialSpec => ImplementsRegistry
<1>1. SerialInv /\ [Step /\ Serial']_vars => [Registry!Next]_Registry!regVars
  BY SerialStep
<1>2. QED
  BY <1>1, SerialStart, SerialStep, PTL DEF SerialSpec, ImplementsRegistry, Registry!Spec
=============================================================================
