--------------------------- MODULE TrustStoreProofs -------------------------
(* Proofs about TrustStore for any number of clients, tasks and commands.  *)
EXTENDS TrustStore, TLAPS

(* What the file gives, and what is read and installed, is well formed.    *)
LEMMA EmptyTrustType == EmptyTrust \in TrustData
  BY MaxTimeAssumption DEF EmptyTrust, TrustData

LEMMA LoadType == ASSUME NEW f \in StoreFile PROVE Load(f) \in TrustData
  BY EmptyTrustType DEF Load, StoreFile

LEMMA UnreadableType ==
  ASSUME NEW s \in {"absent", "empty", "torn"} PROVE Unreadable(s) \in StoreFile
  BY EmptyTrustType DEF Unreadable, StoreFile

LEMMA NoJobType == NoJob \in Job
  BY DEF NoJob, Job, Ops

LEMMA OwnerType == \A t \in Threads : Owner(t) \in Processes
  BY DEF Threads, Owner, Processes

(* No step takes a variable out of its range.                              *)
LEMMA TypeStep == TypeOK /\ [Next]_vars => TypeOK'
<1> SUFFICES ASSUME TypeOK, [Next]_vars PROVE TypeOK'
  OBVIOUS
<1> USE EmptyTrustType, OwnerType, PrefixAssumption
<1>1. ASSUME NEW t \in Tasks, NEW c \in Clients, Handshake(t, c) PROVE TypeOK'
  BY <1>1 DEF Handshake, TypeOK, Threads, Job, Ops, Verdicts
<1>2. ASSUME NEW t \in Tasks, IsApproved(t) PROVE TypeOK'
  <2>1. [job[t] EXCEPT !.op = "register_pending"] \in Job
    BY DEF TypeOK, Threads, Job, Ops
  <2>2. job' \in [Threads -> Job]
    BY <1>2, <2>1 DEF IsApproved, TypeOK
  <2> QED
    BY <1>2, <2>2 DEF IsApproved, TypeOK, Threads
<1>3. ASSUME NEW t \in Tasks, RegisterPending(t) PROVE TypeOK'
  <2>1. mem[Daemon] \in TrustData /\ now \in 0 .. MaxTime
    BY MaxTimeAssumption DEF TypeOK, Processes
  <2>2. [mem[Daemon] EXCEPT !.pending[job[t].target] = now] \in TrustData
    BY <2>1 DEF TrustData
  <2>3. mem' \in [Processes -> TrustData]
    BY <1>3, <2>2 DEF RegisterPending, TypeOK, Processes
  <2> QED
    BY <1>3, <2>3 DEF RegisterPending, TypeOK, Threads
<1>4. ASSUME NEW a \in Admins, NEW op \in {"approve", "revoke"}, NEW p \in Prefixes,
             Command(a, op, p)
      PROVE  TypeOK'
  BY <1>4, LoadType DEF Command, TypeOK, Threads, Processes, Job, Ops, Verdicts
<1>5. ASSUME NEW a \in Admins, NEW id \in Clients, NEW data \in TrustData,
             Decide(a, id, data)
      PROVE  TypeOK'
  <2>1. \A j \in Job : /\ [j EXCEPT !.target = id] \in Job
                       /\ [j EXCEPT !.due = FALSE] \in Job
    BY DEF Job
  <2>2. job' \in [Threads -> Job]
    BY <1>5, <2>1 DEF Decide, TypeOK, Threads
  <2>3. mem' \in [Processes -> TrustData] /\ verdict' \in [Clients -> Verdicts]
    BY <1>5 DEF Decide, TypeOK, Processes, Verdicts
  <2>4. pc' \in [Threads -> {"idle", "read", "install", "apply", "truncate", "fill"}]
    BY <1>5 DEF Decide, TypeOK, Threads
  <2> QED
    BY <1>5, <2>2, <2>3, <2>4 DEF Decide, TypeOK
<1>6. ASSUME NEW a \in Admins, Approve(a) PROVE TypeOK'
  <2>1. PICK id \in Matching(job[a].target, Pending(mem[a])) :
          Decide(a, id, [approved |-> mem[a].approved \cup {id},
                         pending |-> [mem[a].pending EXCEPT ![id] = 0]])
    BY <1>6 DEF Approve
  <2>2. id \in Clients
    BY DEF Matching, Pending
  <2>3. mem[a] \in TrustData
    BY DEF TypeOK, Processes
  <2> QED
    BY <1>5, <2>1, <2>2, <2>3, MaxTimeAssumption DEF TrustData
<1>7. ASSUME NEW a \in Admins, Revoke(a) PROVE TypeOK'
  <2>1. PICK id \in Matching(job[a].target, mem[a].approved) :
          Decide(a, id, [mem[a] EXCEPT !.approved = @ \ {id}])
    BY <1>7 DEF Revoke
  <2>2. mem[a] \in TrustData
    BY DEF TypeOK, Processes
  <2>3. id \in Clients
    BY <2>2 DEF Matching, TrustData
  <2> QED
    BY <1>5, <2>1, <2>2, <2>3 DEF TrustData
<1>8. ASSUME NEW a \in Admins, NoMatch(a) PROVE TypeOK'
  BY <1>8 DEF NoMatch, TypeOK, Threads, Processes, NoJob, Job, Ops, Verdicts
<1>9. ASSUME NEW t \in Threads, ReadFile(t) PROVE TypeOK'
  BY <1>9 DEF ReadFile, TypeOK, StoreFile
<1>10. ASSUME NEW t \in Threads, Install(t) PROVE TypeOK'
  BY <1>10 DEF Install, TypeOK
<1>11. ASSUME NEW t \in Threads, Truncate(t) PROVE TypeOK'
  BY <1>11, UnreadableType DEF Truncate, TypeOK
<1>12. ASSUME NEW t \in Threads, Finish(t),
              file' \in StoreFile, verdict' \in [Clients -> Verdicts]
       PROVE  TypeOK'
  <2>1. CASE t \in Tasks
    BY <1>12, <2>1 DEF Finish, TypeOK
  <2>2. CASE t \notin Tasks
    <3>1. mem' \in [Processes -> TrustData]
      BY <1>12, <2>2 DEF Finish, TypeOK, Processes
    <3>2. job' \in [Threads -> Job]
      BY <1>12, <2>2, NoJobType DEF Finish, TypeOK
    <3> QED
      BY <1>12, <2>2, <3>1, <3>2 DEF Finish, TypeOK
  <2> QED
    BY <2>1, <2>2
<1>13. ASSUME NEW t \in Threads, Fill(t) PROVE TypeOK'
  <2>1. file' \in StoreFile
    BY <1>13, UnreadableType DEF Fill, Whole, StoreFile, TypeOK
  <2>2. verdict' \in [Clients -> Verdicts]
    BY <1>13 DEF Fill, TypeOK, Verdicts
  <2> QED
    BY <1>12, <1>13, <2>1, <2>2 DEF Fill
<1>14. ASSUME NEW t \in Threads, SaveFails(t) PROVE TypeOK'
  BY <1>12, <1>14 DEF SaveFails, TypeOK
<1>15. ASSUME NEW a \in Admins, KillCommand(a) PROVE TypeOK'
  BY <1>15 DEF KillCommand, TypeOK, Threads, Processes, NoJob, Job, Ops, Verdicts
<1>16. CASE RestartDaemon
  BY <1>16, LoadType DEF RestartDaemon, TypeOK, Threads, Processes, NoJob, Job, Ops
<1>17. CASE Tick
  BY <1>17, MaxTimeAssumption DEF Tick, TypeOK
<1>18. CASE UNCHANGED vars
  BY <1>18 DEF vars, TypeOK
<1> QED
  BY <1>1, <1>2, <1>3, <1>4, <1>6, <1>7, <1>8, <1>9, <1>10, <1>11, <1>13, <1>14,
     <1>15, <1>16, <1>17, <1>18 DEF Next, Step, Fault

(* So do the initial states (no file, no trust, nobody at work).           *)
LEMMA TypeStart == Init => TypeOK
  BY EmptyTrustType, UnreadableType, MaxTimeAssumption
     DEF Init, TypeOK, NoJob, Job, Ops, Verdicts

(* Every variable stays in its range (the types of trust.rs 10-40).        *)
THEOREM TypeCorrect == Spec => []TypeOK
BY TypeStart, TypeStep, PTL DEF Spec

-----------------------------------------------------------------------------
(* Types the step proofs below use again and again.                        *)
LEMMA CopyTypes ==
  ASSUME TypeOK
  PROVE  /\ file.data \in TrustData
         /\ \A o \in Processes : mem[o] \in TrustData
         /\ \A t \in Threads : seen[t] \in TrustData /\ mem[Owner(t)] \in TrustData
         /\ mem[Daemon] \in TrustData
  BY OwnerType DEF TypeOK, StoreFile, Processes

(* No step lets a copy say something new about a client except the three   *)
(* that apply an operation: every other one moves whole copies around.     *)
Kept == Copies' \subseteq Copies \cup {EmptyTrust}

Applies ==
  \/ \E t \in Tasks : RegisterPending(t)
  \/ \E a \in Admins : Approve(a) \/ Revoke(a)

LEMMA CopiesKept == ASSUME TypeOK, [Next]_vars, ~ Applies PROVE Kept
<1> USE OwnerType DEF Copies, Kept
<1>1. ASSUME NEW t \in Tasks, NEW c \in Clients, Handshake(t, c) PROVE Kept
  BY <1>1 DEF Handshake
<1>2. ASSUME NEW t \in Tasks, IsApproved(t) PROVE Kept
  BY <1>2 DEF IsApproved
<1>3. ASSUME NEW a \in Admins, NEW op \in {"approve", "revoke"}, NEW p \in Prefixes,
             Command(a, op, p)
      PROVE  Kept
  BY <1>3 DEF Command, Load, TypeOK
<1>4. ASSUME NEW a \in Admins, NoMatch(a) PROVE Kept
  BY <1>4 DEF NoMatch, TypeOK
<1>5. ASSUME NEW t \in Threads, ReadFile(t) PROVE Kept
  BY <1>5 DEF ReadFile, TypeOK
<1>6. ASSUME NEW t \in Threads, Install(t) PROVE Kept
  BY <1>6 DEF Install, TypeOK
<1>7. ASSUME NEW t \in Threads, Truncate(t) PROVE Kept
  BY <1>7 DEF Truncate, Unreadable
<1>8. ASSUME NEW t \in Threads, Finish(t), file'.data \in Copies \cup {EmptyTrust}
      PROVE  Kept
  BY <1>8 DEF Finish, TypeOK
<1>9. ASSUME NEW t \in Threads, Fill(t) PROVE Kept
  BY <1>8, <1>9 DEF Fill, Whole, Unreadable
<1>10. ASSUME NEW t \in Threads, SaveFails(t) PROVE Kept
  BY <1>8, <1>10 DEF SaveFails
<1>11. ASSUME NEW a \in Admins, KillCommand(a) PROVE Kept
  BY <1>11 DEF KillCommand, TypeOK
<1>12. CASE RestartDaemon
  BY <1>12 DEF RestartDaemon, Load, TypeOK
<1>13. CASE Tick
  BY <1>13 DEF Tick
<1>14. CASE UNCHANGED vars
  BY <1>14 DEF vars
<1> QED
  BY <1>1, <1>2, <1>3, <1>4, <1>5, <1>6, <1>7, <1>9, <1>10, <1>11, <1>12, <1>13, <1>14
     DEF Next, Step, Fault, Applies

(* The copy an operation is applied to is the only one that changes.       *)
LEMMA CopiesApplied ==
  ASSUME TypeOK, NEW o \in Processes, NEW d, mem' = [mem EXCEPT ![o] = d],
         file' = file, seen' = seen
  PROVE  Copies' \subseteq Copies \cup {d}
  BY DEF Copies, TypeOK

(* No copy, however stale, lists a client as approved and as waiting: what *)
(* approve and register_pending do to one copy (trust.rs 121-187) cannot   *)
(* be undone by writing whole copies over one another.                     *)
THEOREM NeverBoth == Spec => []ApprovedNotPending
<1>1. Init => ApprovedNotPending
  BY DEF Init, ApprovedNotPending, Copies, EmptyTrust, Unreadable
<1>2. TypeOK /\ ApprovedNotPending /\ [Next]_vars => ApprovedNotPending'
  <2> SUFFICES ASSUME TypeOK, ApprovedNotPending, [Next]_vars, NEW d \in Copies'
               PROVE  d.approved \cap Pending(d) = {}
    BY DEF ApprovedNotPending, Pending
  <2>1. ASSUME NEW t \in Tasks, RegisterPending(t) PROVE d.approved \cap Pending(d) = {}
    <3> DEFINE m == [mem[Daemon] EXCEPT !.pending[job[t].target] = now]
    <3>1. mem[Daemon] \in TrustData /\ mem[Daemon] \in Copies
      BY CopyTypes DEF Copies, Processes
    <3>2. CASE job[t].target \in mem[Daemon].approved
      BY <2>1, <3>2 DEF RegisterPending, Copies, ApprovedNotPending
    <3>3. CASE job[t].target \notin mem[Daemon].approved
      <4>1. m.approved \cap Pending(m) = {}
        BY <3>1, <3>3 DEF ApprovedNotPending, Pending, TrustData
      <4>2. mem' = [mem EXCEPT ![Daemon] = m]
        BY <2>1, <3>3 DEF RegisterPending
      <4>3. d \in Copies \cup {m}
        BY <2>1, <4>2, CopiesApplied DEF RegisterPending, Processes
      <4> QED
        BY <4>1, <4>3 DEF ApprovedNotPending
    <3> QED
      BY <3>2, <3>3
  <2>2. ASSUME NEW a \in Admins, Approve(a) PROVE d.approved \cap Pending(d) = {}
    <3>1. PICK id \in Matching(job[a].target, Pending(mem[a])) :
            Decide(a, id, [approved |-> mem[a].approved \cup {id},
                           pending |-> [mem[a].pending EXCEPT ![id] = 0]])
      BY <2>2 DEF Approve
    <3> DEFINE m == [approved |-> mem[a].approved \cup {id},
                     pending |-> [mem[a].pending EXCEPT ![id] = 0]]
    <3>2. mem[a] \in TrustData /\ mem[a] \in Copies
      BY CopyTypes DEF Copies, Processes
    <3>3. m.approved \cap Pending(m) = {}
      BY <3>2 DEF ApprovedNotPending, Pending, TrustData
    <3>4. d \in Copies \cup {m}
      BY <3>1, CopiesApplied DEF Decide, Processes
    <3> QED
      BY <3>3, <3>4 DEF ApprovedNotPending
  <2>3. ASSUME NEW a \in Admins, Revoke(a) PROVE d.approved \cap Pending(d) = {}
    <3>1. PICK id \in Matching(job[a].target, mem[a].approved) :
            Decide(a, id, [mem[a] EXCEPT !.approved = @ \ {id}])
      BY <2>3 DEF Revoke
    <3> DEFINE m == [mem[a] EXCEPT !.approved = @ \ {id}]
    <3>2. mem[a] \in TrustData /\ mem[a] \in Copies
      BY CopyTypes DEF Copies, Processes
    <3>3. m.approved \cap Pending(m) = {}
      BY <3>2 DEF ApprovedNotPending, Pending, TrustData
    <3>4. d \in Copies \cup {m}
      BY <3>1, CopiesApplied DEF Decide, Processes
    <3> QED
      BY <3>3, <3>4 DEF ApprovedNotPending
  <2>4. CASE ~ Applies
    <3>1. d \in Copies \/ d = EmptyTrust
      BY <2>4, CopiesKept DEF Kept
    <3> QED
      BY <3>1 DEF ApprovedNotPending, EmptyTrust
  <2> QED
    BY <2>1, <2>2, <2>3, <2>4 DEF Applies
<1> QED
  BY <1>1, <1>2, TypeCorrect, PTL DEF Spec
-----------------------------------------------------------------------------
(* Once an administrator has decided on a client it stays decided on.      *)
LEMMA VerdictKept ==
  ASSUME TypeOK, [Next]_vars, NEW c \in Clients, verdict[c] # "none"
  PROVE  verdict'[c] # "none"
<1>1. ASSUME NEW a \in Admins, NEW id, NEW data, Decide(a, id, data)
      PROVE  verdict'[c] # "none"
  BY <1>1 DEF Decide, TypeOK
<1>2. ASSUME NEW a \in Admins, Approve(a) \/ Revoke(a) PROVE verdict'[c] # "none"
  BY <1>1, <1>2 DEF Approve, Revoke
<1>3. ASSUME NEW t \in Threads, Fill(t) PROVE verdict'[c] # "none"
  BY <1>3 DEF Fill, TypeOK
<1> QED
  BY <1>2, <1>3
     DEF Next, Step, Fault, vars, Handshake, IsApproved, RegisterPending, Command,
         NoMatch, ReadFile, Install, Truncate, SaveFails, KillCommand, RestartDaemon, Tick

(* The client a task has answered stays the one it has answered about.     *)
LEMMA AnswerKept ==
  ASSUME TypeOK, [Next]_vars, NEW t \in Tasks, reply'[t] = "Approved"
  PROVE  \/ reply[t] = "Approved" /\ job'[t].target = job[t].target
         \/ job[t].target \in mem[Daemon].approved /\ job'[t].target = job[t].target
<1> DEFINE Goal == \/ reply[t] = "Approved" /\ job'[t].target = job[t].target
                   \/ /\ job[t].target \in mem[Daemon].approved
                      /\ job'[t].target = job[t].target
<1> USE DistinctProcesses DEF Threads
<1>1. ASSUME NEW u \in Tasks, NEW c \in Clients, Handshake(u, c) PROVE Goal
  BY <1>1 DEF Handshake, TypeOK
<1>2. ASSUME NEW u \in Tasks, IsApproved(u) PROVE Goal
  BY <1>2 DEF IsApproved, TypeOK, Job
<1>3. ASSUME NEW u \in Tasks, RegisterPending(u) PROVE Goal
  BY <1>3 DEF RegisterPending, TypeOK
<1>4. ASSUME NEW a \in Admins, NEW id, NEW data, Decide(a, id, data) PROVE Goal
  BY <1>4 DEF Decide, TypeOK, Job
<1>5. ASSUME NEW a \in Admins, Approve(a) \/ Revoke(a) PROVE Goal
  BY <1>4, <1>5 DEF Approve, Revoke
<1>6. ASSUME NEW a \in Admins, NEW op, NEW p, Command(a, op, p) PROVE Goal
  BY <1>6 DEF Command, TypeOK
<1>7. ASSUME NEW a \in Admins, NoMatch(a) \/ KillCommand(a) PROVE Goal
  BY <1>7 DEF NoMatch, KillCommand, TypeOK
<1>8. ASSUME NEW u \in Threads, Fill(u) \/ SaveFails(u) PROVE Goal
  BY <1>8 DEF Fill, SaveFails, Finish, TypeOK
<1>9. CASE RestartDaemon
  BY <1>9 DEF RestartDaemon
<1> QED
  BY <1>1, <1>2, <1>3, <1>5, <1>6, <1>7, <1>8, <1>9
     DEF Next, Step, Fault, vars, ReadFile, Install, Truncate, Tick

(* A served handshake is a client's (never a prefix's): with it the        *)
(* invariant below is inductive.                                           *)
ServedIsClient == \A t \in Tasks : reply[t] = "Approved" => job[t].target \in Clients

(* Whatever is lost, torn or restarted, a client is approved or served     *)
(* only if an administrator approved it at some time.                      *)
THEOREM NoSelfApproval == Spec => []OnlyAdminsApprove
<1> DEFINE Decided(d) == \A c \in d.approved : verdict[c] # "none"
<1>1. Init => OnlyAdminsApprove /\ ServedIsClient
  BY DEF Init, OnlyAdminsApprove, ServedIsClient, Copies, EmptyTrust, Unreadable
<1>2. TypeOK /\ OnlyAdminsApprove /\ ServedIsClient /\ [Next]_vars
      => OnlyAdminsApprove' /\ ServedIsClient'
  <2> SUFFICES ASSUME TypeOK, OnlyAdminsApprove, ServedIsClient, [Next]_vars
               PROVE  OnlyAdminsApprove' /\ ServedIsClient'
    OBVIOUS
  <2>1. \A d \in Copies : d.approved \subseteq Clients
    BY CopyTypes, OwnerType DEF Copies, TrustData
  <2>2. ASSUME NEW d \in Copies \cup {EmptyTrust}, NEW c \in d.approved
        PROVE  c \in Clients /\ verdict'[c] # "none"
    BY <2>1, VerdictKept DEF OnlyAdminsApprove, EmptyTrust
  <2>3. ASSUME NEW t \in Tasks, RegisterPending(t), NEW d \in Copies', NEW c \in d.approved
        PROVE  verdict'[c] # "none"
    <3> DEFINE m == [mem[Daemon] EXCEPT !.pending[job[t].target] = now]
    <3>1. mem[Daemon] \in TrustData /\ mem[Daemon] \in Copies
      BY CopyTypes DEF Copies, Processes
    <3>2. mem' = mem \/ mem' = [mem EXCEPT ![Daemon] = m]
      BY <2>3 DEF RegisterPending
    <3>3. d \in Copies \cup {m}
      BY <2>3, <3>2, CopiesApplied DEF RegisterPending, Processes, Copies
    <3>4. m.approved = mem[Daemon].approved
      BY <3>1 DEF TrustData
    <3> QED
      BY <2>2, <3>1, <3>3, <3>4
  <2>4. ASSUME NEW a \in Admins, Approve(a), NEW d \in Copies', NEW c \in d.approved
        PROVE  verdict'[c] # "none"
    <3>1. PICK id \in Matching(job[a].target, Pending(mem[a])) :
            Decide(a, id, [approved |-> mem[a].approved \cup {id},
                           pending |-> [mem[a].pending EXCEPT ![id] = 0]])
      BY <2>4 DEF Approve
    <3> DEFINE m == [approved |-> mem[a].approved \cup {id},
                     pending |-> [mem[a].pending EXCEPT ![id] = 0]]
    <3>2. mem[a] \in Copies /\ id \in Clients
      BY DEF Copies, Processes, Matching, Pending
    <3>3. d \in Copies \cup {m}
      BY <3>1, CopiesApplied DEF Decide, Processes
    <3>4. verdict'[id] = "open"
      BY <3>1, <3>2 DEF Decide, TypeOK
    <3> QED
      BY <2>2, <3>2, <3>3, <3>4
  <2>5. ASSUME NEW a \in Admins, Revoke(a), NEW d \in Copies', NEW c \in d.approved
        PROVE  verdict'[c] # "none"
    <3>1. PICK id \in Matching(job[a].target, mem[a].approved) :
            Decide(a, id, [mem[a] EXCEPT !.approved = @ \ {id}])
      BY <2>5 DEF Revoke
    <3> DEFINE m == [mem[a] EXCEPT !.approved = @ \ {id}]
    <3>2. mem[a] \in Copies /\ mem[a] \in TrustData
      BY CopyTypes DEF Copies, Processes
    <3>3. d \in Copies \cup {m}
      BY <3>1, CopiesApplied DEF Decide, Processes
    <3>4. m.approved \subseteq mem[a].approved
      BY <3>2 DEF TrustData
    <3> QED
      BY <2>2, <3>2, <3>3, <3>4
  <2>6. ASSUME NEW d \in Copies', NEW c \in d.approved PROVE verdict'[c] # "none"
    <3>1. CASE ~ Applies
      BY <2>2, <3>1, CopiesKept DEF Kept
    <3> QED
      BY <2>3, <2>4, <2>5, <3>1 DEF Applies
  <2>7. ASSUME NEW t \in Tasks, reply'[t] = "Approved"
        PROVE  job'[t].target \in Clients /\ verdict'[job'[t].target] # "none"
    <3>1. CASE reply[t] = "Approved" /\ job'[t].target = job[t].target
      BY <3>1, VerdictKept DEF OnlyAdminsApprove, ServedIsClient
    <3>2. CASE job[t].target \in mem[Daemon].approved /\ job'[t].target = job[t].target
      BY <2>2, <3>2 DEF Copies, Processes
    <3> QED
      BY <2>7, <3>1, <3>2, AnswerKept
  <2> QED
    BY <2>6, <2>7 DEF OnlyAdminsApprove, ServedIsClient
<1> QED
  BY <1>1, <1>2, TypeCorrect, PTL DEF Spec

-----------------------------------------------------------------------------
(* The strengthening of SavesItsRequest: at most one task of the daemon is *)
(* inside save() (the mutex of trust.rs 38), and it got there from         *)
(* register_pending with the id of a client.                               *)
OneSaver == \A t, u \in Tasks : Saving(t) /\ Saving(u) => t = u
ServesClient == \A t \in Tasks : pc[t] # "idle" => job[t].target \in Clients
SaverInv == OneSaver /\ ServesClient /\ SavesItsRequest

(* A step of an administrator's process leaves the daemon alone.           *)
LEMMA AdminStep ==
  ASSUME TypeOK, NEW a \in Admins,
         \/ \E op \in {"approve", "revoke"}, p \in Prefixes : Command(a, op, p)
         \/ Approve(a) \/ Revoke(a) \/ NoMatch(a) \/ KillCommand(a)
         \/ ReadFile(a) \/ Install(a) \/ Truncate(a) \/ Fill(a) \/ SaveFails(a)
  PROVE  /\ mem'[Daemon] = mem[Daemon]
         /\ \A t \in Tasks : pc'[t] = pc[t] /\ job'[t].target = job[t].target
<1> USE DistinctProcesses DEF Threads, Processes, Owner, TypeOK
<1>1. ASSUME NEW id, NEW data, Decide(a, id, data)
      PROVE  /\ mem'[Daemon] = mem[Daemon]
             /\ \A t \in Tasks : pc'[t] = pc[t] /\ job'[t].target = job[t].target
  BY <1>1 DEF Decide, Job
<1>2. CASE Approve(a) \/ Revoke(a)
  BY <1>1, <1>2 DEF Approve, Revoke
<1>3. CASE \E op \in {"approve", "revoke"}, p \in Prefixes : Command(a, op, p)
  BY <1>3 DEF Command
<1>4. CASE NoMatch(a) \/ KillCommand(a)
  BY <1>4 DEF NoMatch, KillCommand
<1>5. CASE ReadFile(a) \/ Install(a) \/ Truncate(a)
  BY <1>5 DEF ReadFile, Install, Truncate
<1>6. CASE Fill(a) \/ SaveFails(a)
  BY <1>6 DEF Fill, SaveFails, Finish
<1> QED
  BY <1>2, <1>3, <1>4, <1>5, <1>6

(* While a daemon task rewrites the file its request stays in the copy it  *)
(* writes: no other task reloads or registers in between.                  *)
THEOREM RequestSaved == Spec => []SavesItsRequest
<1>1. Init => SaverInv
  BY DEF Init, SaverInv, OneSaver, ServesClient, SavesItsRequest, Saving, Threads
<1>2. TypeOK /\ SaverInv /\ [Next]_vars => SaverInv'
  <2> SUFFICES ASSUME TypeOK, SaverInv, [Next]_vars PROVE SaverInv'
    OBVIOUS
  <2> USE DEF SaverInv, OneSaver, ServesClient, SavesItsRequest, Saving
  <2>1. ASSUME NEW t \in Tasks, NEW c \in Clients, Handshake(t, c) PROVE SaverInv'
    BY <2>1 DEF Handshake, TypeOK, Threads
  <2>2. ASSUME NEW t \in Tasks, IsApproved(t) PROVE SaverInv'
    BY <2>2 DEF IsApproved, Applying, TypeOK, Threads, Job
  <2>3. ASSUME NEW t \in Tasks, RegisterPending(t) PROVE SaverInv'
    <3>1. \A u \in Tasks : ~ Saving(u)
      BY <2>3 DEF RegisterPending, Applying, MutexFree, Threads, Owner
    <3>2. job[t].target \in Clients
      BY <2>3 DEF RegisterPending, Applying
    <3>3. CASE job[t].target \in mem[Daemon].approved
      BY <2>3, <3>3, <3>1 DEF RegisterPending, TypeOK, Threads
    <3>4. CASE job[t].target \notin mem[Daemon].approved
      <4>1. mem'[Daemon].pending[job[t].target] = now
        <5>1. mem'[Daemon] = [mem[Daemon] EXCEPT !.pending[job[t].target] = now]
          BY <2>3, <3>4 DEF RegisterPending, TypeOK, Processes
        <5>2. mem[Daemon] \in TrustData
          BY CopyTypes
        <5> QED
          BY <3>2, <5>1, <5>2 DEF TrustData
      <4>2. now # 0
        BY MaxTimeAssumption DEF TypeOK
      <4>3. \A u \in Tasks : u # t => pc'[u] = pc[u]
        BY <2>3, <3>4 DEF RegisterPending, TypeOK, Threads
      <4>4. job' = job /\ pc[t] # "idle"
        BY <2>3 DEF RegisterPending, Applying
      <4> QED
        BY <3>1, <4>1, <4>2, <4>3, <4>4
    <3> QED
      BY <3>3, <3>4
  <2>4. ASSUME NEW a \in Admins,
               \/ \E op \in {"approve", "revoke"}, p \in Prefixes : Command(a, op, p)
               \/ Approve(a) \/ Revoke(a) \/ NoMatch(a) \/ KillCommand(a)
               \/ ReadFile(a) \/ Install(a) \/ Truncate(a) \/ Fill(a) \/ SaveFails(a)
        PROVE  SaverInv'
    BY <2>4, AdminStep
  <2>5. ASSUME NEW t \in Tasks, ReadFile(t) PROVE SaverInv'
    BY <2>5 DEF ReadFile, TypeOK, Threads
  <2>6. ASSUME NEW t \in Tasks, Install(t) PROVE SaverInv'
    <3>1. \A u \in Tasks : ~ Saving(u)
      BY <2>6 DEF Install, MutexFree, Threads, Owner
    <3> QED
      BY <2>6, <3>1 DEF Install, TypeOK, Threads
  <2>7. ASSUME NEW t \in Tasks, Truncate(t) PROVE SaverInv'
    BY <2>7 DEF Truncate, TypeOK, Threads
  <2>8. ASSUME NEW t \in Tasks, Fill(t) \/ SaveFails(t) PROVE SaverInv'
    BY <2>8 DEF Fill, SaveFails, Finish, TypeOK, Threads
  <2>9. CASE RestartDaemon
    BY <2>9 DEF RestartDaemon, TypeOK, Threads
  <2>10. CASE Tick
    BY <2>10 DEF Tick
  <2>11. CASE UNCHANGED vars
    BY <2>11 DEF vars
  <2> QED
    BY <2>1, <2>2, <2>3, <2>4, <2>5, <2>6, <2>7, <2>8, <2>9, <2>10, <2>11
       DEF Next, Step, Fault, Threads
<1>3. SaverInv => SavesItsRequest
  BY DEF SaverInv
<1> QED
  BY <1>1, <1>2, <1>3, TypeCorrect, PTL DEF Spec
=============================================================================
