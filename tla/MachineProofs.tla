---------------------------- MODULE MachineProofs ----------------------------
(***************************************************************************)
(* A machine is its clients and its servers side by side: every behaviour  *)
(* of Machine is one of ClientStart and one of DaemonStart, so what is     *)
(* proved of each holds of the machine.                                    *)
(***************************************************************************)
EXTENDS Machine, ClientStartProofs, DaemonStartProofs

LEMMA StepOfBoth ==
  ASSUME [Next]_vars
  PROVE  [ClientNext]_clientVars /\ [DaemonNext]_daemonVars
<1>1. CASE AsClient(ClientNext)
  BY <1>1 DEF AsClient
<1>2. CASE AsServer(DaemonNext)
  BY <1>2 DEF AsServer
<1>3. CASE UNCHANGED vars
  BY <1>3 DEF vars
<1>4. QED
  BY <1>1, <1>2, <1>3 DEF Next

(* Clients and servers share a configuration directory, and neither        *)
(* disturbs the other: a machine behaves as the clients alone, and as the  *)
(* servers alone.                                                          *)
THEOREM SideBySide == Spec => ClientSpec /\ DaemonSpec
<1>1. Init => ClientInit /\ DaemonInit
  BY DEF Init
<1>2. [Next]_vars => [ClientNext]_clientVars /\ [DaemonNext]_daemonVars
  BY StepOfBoth
<1>3. QED
  BY <1>1, <1>2, PTL DEF Spec, ClientSpec, DaemonSpec

(* The variables of a machine keep their types, for any number of clients, *)
(* servers, keys and connections.                                          *)
THEOREM MachineTypeCorrect == Spec => []TypeOK
<1>1. ClientTypeOK /\ DaemonTypeOK => TypeOK
  BY DEF TypeOK
<1>2. QED
  BY <1>1, SideBySide, ClientTypeCorrect, DaemonTypeCorrect, PTL

(* On a machine, while any number of clients and servers start, are killed *)
(* and start again: no server is listed twice, none is forgotten and a name*)
(* leads to where its server was last reached unless saves overlap or break*)
(* off, a user has one client id but for a race of first starts or a failed*)
(* save of it, a system unit keeps its Node ID, and so do all servers that *)
(* look for keys in the same places, unless one could not be saved, and a  *)
(* request that was saved is seen by who administers the server            *)
(* (history.rs 68-117, client.rs 124-220, server.rs 69-137, trust.rs 39-67)*)
THEOREM MachineSafe ==
  Spec => /\ [](/\ HistoryOrdered /\ HistoryKept /\ OneIdentity
                /\ NodeIdStatic /\ RequestsVisible)
          /\ ResolvesLatest
BY SideBySide, ListsAreOrdered, ConnectionsKept, SameIdentity, OneNodeId,
   SavedRequestsVisible, LatestResolved, PTL
=============================================================================
