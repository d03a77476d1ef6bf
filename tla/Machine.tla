------------------------------- MODULE Machine -------------------------------
(***************************************************************************)
(* The processes of one machine that start, find their files and their     *)
(* devices: clients (ClientStart) and servers (DaemonStart).  They share   *)
(* the configuration directory but no file in it, so they do not interfere *)
(* and it is enough to look at machines without servers, whose deployment  *)
(* is empty, and at machines without clients.                              *)
(***************************************************************************)
EXTENDS ClientStart, DaemonStart

vars == <<clientVars, daemonVars>>

Init == ClientInit /\ DaemonInit

TypeOK == ClientTypeOK /\ DaemonTypeOK

AsClient(A) == deployment = {} /\ A /\ UNCHANGED daemonVars
AsServer(A) == deployment # {} /\ A /\ UNCHANGED clientVars

Next == AsClient(ClientNext) \/ AsServer(DaemonNext)

Spec == Init /\ [][Next]_vars

(* A process that was started goes on, and systemd does what a unit says.  *)
FairSpec ==
  /\ Spec
  /\ \A x \in Contexts : WF_vars(AsServer(ServerStep(x)))
  /\ \A u \in Units : WF_vars(AsServer(SystemdLaunch(u)))
=============================================================================
