----------------------------- MODULE TrustStore -----------------------------
(***************************************************************************)
(* The TrustManager of src/src/trust.rs: which clients are approved and    *)
(* which wait for approval, kept in one JSON file that several processes   *)
(* share without a file lock.                                              *)
(*                                                                         *)
(* The daemon holds one TrustManager, cloned into the Direct UDP task and  *)
(* into one task per Iroh connection; the clones share the in-memory copy  *)
(* and its mutex.  Every `joycast server approve|revoke` is a process of   *)
(* its own with its own copy.  Every operation is the sequence the code    *)
(* runs: read the file, install what was read as the in-memory copy (under *)
(* the mutex), apply the operation to the copy and, still under the mutex, *)
(* rewrite the file, which fs::write does by truncating and then writing.  *)
(* Each of these is a step here, so steps of other threads fall in between.*)
(***************************************************************************)
EXTENDS Naturals

CONSTANTS
  Clients,     \* client identities (HandshakePayload.client_id)
  Tasks,       \* tasks of the daemon that serve handshakes
  Admins,      \* command line processes, one command at a time each
  Daemon,      \* the daemon process, owner of the tasks' shared copy
  Prefixes,    \* what can be typed as <CLIENT_ID>: an id or a prefix of ids
  StartsWith,  \* StartsWith[p]: the ids p is a prefix of
  NoTarget,    \* what a thread is about that runs no operation
  MaxTime      \* bound of the clock that stamps pending requests

ASSUME DistinctProcesses ==
  /\ Tasks \cap Admins = {}
  /\ Daemon \notin Admins
ASSUME PrefixAssumption ==
  /\ Clients \subseteq Prefixes
  /\ StartsWith \in [Prefixes -> SUBSET Clients]
ASSUME MaxTimeAssumption == MaxTime \in Nat \ {0}

VARIABLES
  file,     \* the JSON store on disk
  mem,      \* mem[o]: the in-memory TrustData of process o
  seen,     \* seen[t]: what thread t has read and not yet installed
  pc,       \* pc[t]: the next step of thread t
  job,      \* job[t]: the operation thread t runs
  reply,    \* reply[t]: the last HandshakeAck status of daemon task t
  now,      \* Utc::now()
  verdict   \* history: the last decision on a client that a command reported

vars == <<file, mem, seen, pc, job, reply, now, verdict>>

Threads == Tasks \cup Admins
Processes == {Daemon} \cup Admins
Owner(t) == IF t \in Tasks THEN Daemon ELSE t

(* A pending entry is its first_seen stamp; 0 says that there is no entry. *)
TrustData == [approved : SUBSET Clients, pending : [Clients -> 0 .. MaxTime]]
EmptyTrust == [approved |-> {}, pending |-> [c \in Clients |-> 0]]
Pending(d) == {c \in Clients : d.pending[c] # 0}

(* "empty": truncated and not written yet; "torn": a shorter document over *)
(* the head of a longer one, which serde_json rejects (trailing characters)*)
StoreFile == [state : {"absent", "empty", "torn", "whole"}, data : TrustData]
Unreadable(s) == [state |-> s, data |-> EmptyTrust]
Whole(d) == [state |-> "whole", data |-> d]

Ops == {"none", "is_approved", "register_pending", "approve", "revoke"}
Job == [op : Ops, target : Prefixes \cup {NoTarget}, due : BOOLEAN]
NoJob == [op |-> "none", target |-> NoTarget, due |-> FALSE]

Verdicts == {"none", "open", "approved", "revoked"}

TypeOK ==
  /\ file \in StoreFile
  /\ mem \in [Processes -> TrustData]
  /\ seen \in [Threads -> TrustData]
  /\ pc \in [Threads -> {"idle", "read", "install", "apply", "truncate", "fill"}]
  /\ job \in [Threads -> Job]
  /\ reply \in [Tasks -> {"None", "Approved", "PendingApproval"}]
  /\ now \in 1 .. MaxTime
  /\ verdict \in [Clients -> Verdicts]

(* TrustManager::new: an unreadable or unparsable file gives no trust.     *)
Load(f) == IF f.state = "whole" THEN f.data ELSE EmptyTrust

Init ==
  /\ file = Unreadable("absent")
  /\ mem = [o \in Processes |-> EmptyTrust]
  /\ seen = [t \in Threads |-> EmptyTrust]
  /\ pc = [t \in Threads |-> "idle"]
  /\ job = [t \in Threads |-> NoJob]
  /\ reply = [t \in Tasks |-> "None"]
  /\ now = 1
  /\ verdict = [c \in Clients |-> "none"]

-----------------------------------------------------------------------------
(* Starting an operation.                                                  *)

(* A handshake of client c reaches task t, which calls tm.is_approved.     *)
Handshake(t, c) ==
  /\ pc[t] = "idle"
  /\ pc' = [pc EXCEPT ![t] = "read"]
  /\ job' = [job EXCEPT ![t] = [op |-> "is_approved", target |-> c,
                                due |-> verdict[c] = "approved"]]
  /\ reply' = [reply EXCEPT ![t] = "None"]
  /\ UNCHANGED <<file, mem, seen, now, verdict>>

(* An administrator runs a command: TrustManager::new loads the file.      *)
Command(a, op, p) ==
  /\ pc[a] = "idle"
  /\ pc' = [pc EXCEPT ![a] = "read"]
  /\ job' = [job EXCEPT ![a] = [op |-> op, target |-> p, due |-> FALSE]]
  /\ mem' = [mem EXCEPT ![a] = Load(file)]
  /\ UNCHANGED <<file, seen, reply, now, verdict>>

-----------------------------------------------------------------------------
(* reload(): the file is read without the mutex, installed with it.        *)

(* Mutant: only commands reload, the daemon trusts what it loaded.         *)
ReadFileOnce(t) ==
  /\ pc[t] = "read"
  /\ IF file.state = "whole" /\ t \in Admins
     THEN /\ seen' = [seen EXCEPT ![t] = file.data]
          /\ pc' = [pc EXCEPT ![t] = "install"]
     ELSE /\ pc' = [pc EXCEPT ![t] = "apply"]
          /\ UNCHANGED seen
  /\ UNCHANGED <<file, mem, job, reply, now, verdict>>

ReadFile(t) ==
  /\ pc[t] = "read"
  /\ IF file.state = "whole"
     THEN /\ seen' = [seen EXCEPT ![t] = file.data]
          /\ pc' = [pc EXCEPT ![t] = "install"]
     ELSE /\ pc' = [pc EXCEPT ![t] = "apply"]
          /\ UNCHANGED seen
  /\ UNCHANGED <<file, mem, job, reply, now, verdict>>

(* The mutex of a process is held from "apply" until the file is written.  *)
Saving(t) == pc[t] \in {"truncate", "fill"}
MutexFree(o) == \A t \in Threads : Owner(t) = o => ~ Saving(t)

(* Mutant: the copy is replaced without taking its mutex.                  *)
InstallUnlocked(t) ==
  /\ pc[t] = "install"
  /\ mem' = [mem EXCEPT ![Owner(t)] = seen[t]]
  /\ seen' = [seen EXCEPT ![t] = EmptyTrust]
  /\ pc' = [pc EXCEPT ![t] = "apply"]
  /\ UNCHANGED <<file, job, reply, now, verdict>>

Install(t) ==
  /\ pc[t] = "install"
  /\ MutexFree(Owner(t))
  /\ mem' = [mem EXCEPT ![Owner(t)] = seen[t]]
  /\ seen' = [seen EXCEPT ![t] = EmptyTrust]
  /\ pc' = [pc EXCEPT ![t] = "apply"]
  /\ UNCHANGED <<file, job, reply, now, verdict>>

-----------------------------------------------------------------------------
(* Applying the operation to the in-memory copy.                           *)

Applying(t, op) == pc[t] = "apply" /\ job[t].op = op /\ MutexFree(Owner(t))

(* Mutant: any client the store lists is served.                           *)
IsKnown(t) ==
  /\ Applying(t, "is_approved")
  /\ IF job[t].target \in mem[Daemon].approved \cup Pending(mem[Daemon])
     THEN /\ pc' = [pc EXCEPT ![t] = "idle"]
          /\ reply' = [reply EXCEPT ![t] = "Approved"]
          /\ UNCHANGED job
     ELSE /\ pc' = [pc EXCEPT ![t] = "read"]
          /\ job' = [job EXCEPT ![t].op = "register_pending"]
          /\ UNCHANGED reply
  /\ UNCHANGED <<file, mem, seen, now, verdict>>

(* An approved client is served; for any other one the handler goes on to  *)
(* tm.register_pending, which reloads again.                               *)
IsApproved(t) ==
  /\ Applying(t, "is_approved")
  /\ IF job[t].target \in mem[Daemon].approved
     THEN /\ pc' = [pc EXCEPT ![t] = "idle"]
          /\ reply' = [reply EXCEPT ![t] = "Approved"]
          /\ UNCHANGED job
     ELSE /\ pc' = [pc EXCEPT ![t] = "read"]
          /\ job' = [job EXCEPT ![t].op = "register_pending"]
          /\ UNCHANGED reply
  /\ UNCHANGED <<file, mem, seen, now, verdict>>

(* Mutant: an approval that arrived since is_approved is not looked for.   *)
RegisterAlways(t) ==
  /\ Applying(t, "register_pending")
  /\ mem' = [mem EXCEPT ![Daemon].pending[job[t].target] = now]
  /\ pc' = [pc EXCEPT ![t] = "truncate"]
  /\ UNCHANGED <<file, seen, job, reply, now, verdict>>

RegisterPending(t) ==
  /\ Applying(t, "register_pending")
  /\ IF job[t].target \in mem[Daemon].approved
     THEN /\ pc' = [pc EXCEPT ![t] = "idle"]
          /\ reply' = [reply EXCEPT ![t] = "PendingApproval"]
          /\ UNCHANGED mem
     ELSE /\ mem' = [mem EXCEPT ![Daemon].pending[job[t].target] = now]
          /\ pc' = [pc EXCEPT ![t] = "truncate"]
          /\ UNCHANGED reply
  /\ UNCHANGED <<file, seen, job, now, verdict>>

(* Mutant: a fitting prefix is used in place of the id it stands for.      *)
MatchingTyped(p, ids) == IF StartsWith[p] \cap ids # {} THEN {p} ELSE {}

(* The id a command is about: the one typed, else any the prefix fits.     *)
Matching(p, ids) == IF p \in ids THEN {p} ELSE StartsWith[p] \cap ids

(* A command decides on id: its copy changes, its outcome is not reported  *)
(* yet, and no handshake is owed an "Approved" on the old decision.        *)
Decide(a, id, data) ==
  /\ mem' = [mem EXCEPT ![a] = data]
  /\ verdict' = [verdict EXCEPT ![id] = "open"]
  /\ job' = [t \in Threads |->
               IF t = a THEN [job[a] EXCEPT !.target = id]
               ELSE IF job[t].target = id THEN [job[t] EXCEPT !.due = FALSE]
               ELSE job[t]]
  /\ pc' = [pc EXCEPT ![a] = "truncate"]
  /\ UNCHANGED <<file, seen, reply, now>>

(* Mutant: the request is copied to the approved clients, not moved.       *)
ApproveCopies(a) ==
  /\ Applying(a, "approve")
  /\ \E id \in Matching(job[a].target, Pending(mem[a])) :
       Decide(a, id, [mem[a] EXCEPT !.approved = @ \cup {id}])

Approve(a) ==
  /\ Applying(a, "approve")
  /\ \E id \in Matching(job[a].target, Pending(mem[a])) :
       Decide(a, id, [approved |-> mem[a].approved \cup {id},
                      pending |-> [mem[a].pending EXCEPT ![id] = 0]])

(* Mutant: the entry is removed from the wrong map.                        *)
RevokePending(a) ==
  /\ Applying(a, "revoke")
  /\ \E id \in Matching(job[a].target, mem[a].approved) :
       Decide(a, id, [mem[a] EXCEPT !.pending[id] = 0])

Revoke(a) ==
  /\ Applying(a, "revoke")
  /\ \E id \in Matching(job[a].target, mem[a].approved) :
       Decide(a, id, [mem[a] EXCEPT !.approved = @ \ {id}])

(* Nothing matches: the command fails and changes nothing.                 *)
NoMatch(a) ==
  /\ \/ /\ Applying(a, "approve")
        /\ Matching(job[a].target, Pending(mem[a])) = {}
     \/ /\ Applying(a, "revoke")
        /\ Matching(job[a].target, mem[a].approved) = {}
  /\ pc' = [pc EXCEPT ![a] = "idle"]
  /\ mem' = [mem EXCEPT ![a] = EmptyTrust]
  /\ job' = [job EXCEPT ![a] = NoJob]
  /\ UNCHANGED <<file, seen, reply, now, verdict>>

-----------------------------------------------------------------------------
(* save(): fs::write truncates, then writes the whole document.            *)

Truncate(t) ==
  /\ pc[t] = "truncate"
  /\ file' = Unreadable("empty")
  /\ pc' = [pc EXCEPT ![t] = "fill"]
  /\ UNCHANGED <<mem, seen, job, reply, now, verdict>>

(* The operation is over: a task has answered PendingApproval (the result  *)
(* of save is dropped there), a command's process ends.                    *)
Finish(t) ==
  /\ pc' = [pc EXCEPT ![t] = "idle"]
  /\ IF t \in Tasks
     THEN /\ reply' = [reply EXCEPT ![t] = "PendingApproval"]
          /\ UNCHANGED <<mem, job>>
     ELSE /\ mem' = [mem EXCEPT ![t] = EmptyTrust]
          /\ job' = [job EXCEPT ![t] = NoJob]
          /\ UNCHANGED reply
  /\ UNCHANGED <<seen, now>>

(* Over a file another writer has filled since it was truncated, the       *)
(* document may be shorter than what is there: its tail then remains.      *)
Fill(t) ==
  /\ pc[t] = "fill"
  /\ \/ file' = Whole(mem[Owner(t)])
     \/ file.state # "empty" /\ file' = Unreadable("torn")
  /\ verdict' = IF t \in Tasks THEN verdict
                ELSE [verdict EXCEPT ![job[t].target] =
                        IF job[t].op = "approve" THEN "approved" ELSE "revoked"]
  /\ Finish(t)

-----------------------------------------------------------------------------
(* Failures.                                                               *)

(* The file cannot be opened, or the disk is full once it is truncated.    *)
SaveFails(t) ==
  /\ Saving(t)
  /\ Finish(t)
  /\ UNCHANGED <<file, verdict>>

(* A command is killed before it is done.                                  *)
KillCommand(a) ==
  /\ pc[a] # "idle"
  /\ pc' = [pc EXCEPT ![a] = "idle"]
  /\ mem' = [mem EXCEPT ![a] = EmptyTrust]
  /\ seen' = [seen EXCEPT ![a] = EmptyTrust]
  /\ job' = [job EXCEPT ![a] = NoJob]
  /\ UNCHANGED <<file, reply, now, verdict>>

(* The daemon dies, at any step of any task, and is started again.         *)
RestartDaemon ==
  /\ pc' = [t \in Threads |-> IF t \in Tasks THEN "idle" ELSE pc[t]]
  /\ reply' = [t \in Tasks |-> "None"]
  /\ seen' = [t \in Threads |-> IF t \in Tasks THEN EmptyTrust ELSE seen[t]]
  /\ job' = [t \in Threads |-> IF t \in Tasks THEN NoJob ELSE job[t]]
  /\ mem' = [mem EXCEPT ![Daemon] = Load(file)]
  /\ UNCHANGED <<file, now, verdict>>

Tick ==
  /\ now < MaxTime
  /\ now' = now + 1
  /\ UNCHANGED <<file, mem, seen, pc, job, reply, verdict>>

-----------------------------------------------------------------------------
Step ==
  \/ \E t \in Tasks : \/ \E c \in Clients : Handshake(t, c)
                      \/ IsApproved(t)
                      \/ RegisterPending(t)
  \/ \E a \in Admins : \/ \E op \in {"approve", "revoke"}, p \in Prefixes :
                            Command(a, op, p)
                       \/ Approve(a)
                       \/ Revoke(a)
                       \/ NoMatch(a)
  \/ \E t \in Threads : ReadFile(t) \/ Install(t) \/ Truncate(t) \/ Fill(t)
  \/ Tick

Fault ==
  \/ \E t \in Threads : SaveFails(t)
  \/ \E a \in Admins : KillCommand(a)
  \/ RestartDaemon

Next == Step \/ Fault

Spec == Init /\ [][Next]_vars

(* Nothing fails, but operations still overlap.                            *)
FaultlessSpec == Init /\ [][Step]_vars

(* Nothing fails and operations do not overlap.                            *)
Serial == \A t, u \in Threads : pc[t] # "idle" /\ pc[u] # "idle" => t = u
SerialSpec == Init /\ [][Step /\ Serial']_vars

-----------------------------------------------------------------------------
(* Properties under every interleaving and every failure.                  *)

Copies == {file.data} \cup {mem[o] : o \in Processes} \cup {seen[t] : t \in Threads}

(* However stale the copy a thread works on, no copy lists a client both   *)
(* as approved and as waiting: approve moves an entry (trust.rs 171-179)   *)
(* and register_pending refuses an approved one (131-133).                 *)
ApprovedNotPending == \A d \in Copies : d.approved \cap Pending(d) = {}

(* No loss of an update, torn file or restart makes a client approved that *)
(* no administrator ever approved, in the file or in any process, and no   *)
(* such client is served.                                                  *)
OnlyAdminsApprove ==
  /\ \A d \in Copies : \A c \in d.approved : verdict[c] # "none"
  /\ \A t \in Tasks : reply[t] = "Approved" => verdict[job[t].target] # "none"

(* The copy a daemon task is about to write still holds the request it     *)
(* registered: no other task's reload replaces the copy during a save.     *)
SavesItsRequest ==
  \A t \in Tasks : Saving(t) => mem[Daemon].pending[job[t].target] # 0

-----------------------------------------------------------------------------
(* Properties of operations that do not overlap; each fails when they do.  *)

(* A client whose revocation was reported is not approved in the store.    *)
RevokeSticks ==
  \A c \in Clients :
    verdict[c] = "revoked" /\ file.state = "whole" => c \notin file.data.approved

(* A client whose approval was reported is approved in the store.          *)
ApproveSticks ==
  \A c \in Clients :
    verdict[c] = "approved" /\ file.state = "whole" => c \in file.data.approved

(* A handshake that starts after the client's approval was reported, with  *)
(* no later decision on that client, is not answered PendingApproval.      *)
ApproveReflected ==
  \A t \in Tasks : reply[t] = "PendingApproval" => ~ job[t].due

(* What the operations add up to: the store is the file, or the copy of the *)
(* thread that is rewriting it.                                            *)
Current ==
  IF \E t \in Threads : Saving(t)
  THEN mem[Owner(CHOOSE t \in Threads : Saving(t))]
  ELSE file.data

Registry == INSTANCE TrustRegistry WITH
  approved <- Current.approved,
  pending <- Pending(Current),
  asking <- [t \in Tasks |-> job[t].target],
  answer <- reply

(* Run one at a time, the reload - apply - save sequences are the atomic   *)
(* operations of TrustRegistry and every handshake gets the answer the     *)
(* registry gives (trust.rs 88-232, server.rs 297-394).                    *)
ImplementsRegistry == Registry!Spec
=============================================================================
