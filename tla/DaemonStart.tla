----------------------------- MODULE DaemonStart -----------------------------
(***************************************************************************)
(* How joycast servers come up on one machine (src/src/main.rs 168-234,    *)
(* trust.rs 41-86, server.rs 70-196, service.rs): each chooses the place of*)
(* its trust store, binds the UDP port, loads or creates the node key, and *)
(* serves.  Servers, and the commands that administer them, run in one of  *)
(* four contexts:                                                          *)
(*   "user"     a login shell of an ordinary user                          *)
(*   "sudo"     sudo of that user                                          *)
(*   "system"   the unit in /etc/systemd/system                            *)
(*   "service"  the unit in ~/.config/systemd/user                         *)
(* Any process may be killed at any point; a unit is restarted on failure  *)
(* and, if enabled, started at boot.  Options --secret-key, --key-file,    *)
(* --no-udp and --no-iroh are left out: they skip steps.                   *)
(***************************************************************************)
EXTENDS Naturals, Sequences, FiniteSets

CONSTANTS
  Deployments,  \* sets of contexts servers and commands run in on a machine
  MaxKeys       \* bound: keys told apart; further ones count as the last

Contexts == {"user", "sudo", "system", "service"}
Units == {"system", "service"}
Places == {"etc", "home"}

ASSUME DeploymentAssumption == Deployments \subseteq SUBSET Contexts
ASSUME MaxKeysAssumption == MaxKeys \in Nat \ {0, 1}

VARIABLES
  deployment, \* the contexts of this machine
  key,        \* key[p]: server.key in place p: {} or its content, 0 if empty
  store,      \* store[p]: there is a trusted_clients.json in place p
  at,         \* at[x]: what the server in context x does next
  place,      \* place[x]: where its trust store is
  node,       \* node[x]: the key it uses
  request,    \* request[x]: it answered a request, "" or "answered", "saved"
  unit,       \* unit[u]: the unit file, whether it is enabled and active
  keys,       \* number of keys generated, at most MaxKeys
  announced,  \* history: announced[x]: the Node IDs the server in context x came up with
  unsaved     \* history: a key could not be saved

daemonVars == <<deployment, key, store, at, place, node, request, unit, keys,
                announced, unsaved>>
disk == <<deployment, key, store>>

DaemonTypeOK ==
  /\ deployment \in Deployments
  /\ \A p \in Places : key[p] \subseteq 0 .. MaxKeys /\ Cardinality(key[p]) <= 1
  /\ store \in [Places -> BOOLEAN]
  /\ at \in [Contexts -> {"off", "bind", "key", "truncate", "fill", "up"}]
  /\ place \in [Contexts -> Places \cup {"none"}]
  /\ node \in [Contexts -> 0 .. MaxKeys]
  /\ request \in [Contexts -> {"", "answered", "saved"}]
  /\ unit \in [Units -> [file : BOOLEAN, enabled : BOOLEAN, active : BOOLEAN]]
  /\ keys \in 0 .. MaxKeys /\ announced \in [Contexts -> SUBSET (0 .. MaxKeys)]
  /\ unsaved \in BOOLEAN

NoUnit == [file |-> FALSE, enabled |-> FALSE, active |-> FALSE]

DaemonInit ==
  /\ deployment \in Deployments
  /\ key = [p \in Places |-> {}]
  /\ store = [p \in Places |-> FALSE]
  /\ at = [x \in Contexts |-> "off"]
  /\ place = [x \in Contexts |-> "none"]
  /\ node = [x \in Contexts |-> 0]
  /\ request = [x \in Contexts |-> ""]
  /\ unit = [u \in Units |-> NoUnit]
  /\ keys = 0 /\ announced = [x \in Contexts |-> {}] /\ unsaved = FALSE

-----------------------------------------------------------------------------
(* Where files are.                                                        *)

(* systemd sets JOURNAL_STREAM for user units also.                        *)
is_root_context(x) == x # "user"

MayWrite(x, p) == p = "etc" => x \in {"sudo", "system"}

(* Mutant: only who runs the process counts.                               *)
StorePlaceByContext(x) == IF is_root_context(x) THEN "etc" ELSE "home"

(* TrustManager::new, of a server and of a command alike.                  *)
StorePlace(x) ==
  IF store["etc"] \/ is_root_context(x) THEN "etc" ELSE "home"

(* Where a key is looked for; the configuration directory of root, which   *)
(* nothing is written to, is left out.                                     *)
Candidates(x) == IF x = "system" THEN <<"etc">> ELSE <<"etc", "home">>

(* The key in the first candidate that holds one: a set, maybe empty.      *)
Loadable(x) ==
  LET valid == {i \in DOMAIN Candidates(x) : key[Candidates(x)[i]] \notin {{}, {0}}}
  IN UNION {key[Candidates(x)[i]] : i \in {i \in valid : \A j \in valid : i <= j}}

(* A key file in /etc that holds no key is there all the same.             *)
KeyTarget(x) ==
  IF key["etc"] # {} \/ is_root_context(x) THEN "etc" ELSE "home"

-----------------------------------------------------------------------------
(* A server starts.                                                        *)

To(x, next) == at' = [at EXCEPT ![x] = next]

Announce(x, k) == announced' = [announced EXCEPT ![x] = @ \cup {k}]

(* main runs TrustManager::new before anything else.                       *)
Launch(x) ==
  /\ at[x] = "off"
  /\ place' = [place EXCEPT ![x] = StorePlace(x)]
  /\ To(x, "bind")
  /\ UNCHANGED <<disk, node, request, unit, keys, announced, unsaved>>

(* The process is gone.                                                    *)
Exit(x) ==
  /\ To(x, "off")
  /\ place' = [place EXCEPT ![x] = "none"]
  /\ node' = [node EXCEPT ![x] = 0]
  /\ request' = [request EXCEPT ![x] = ""]

(* Mutant: the port can be shared.                                         *)
PortShared == TRUE

PortFree == \A x \in Contexts : at[x] \in {"off", "bind"}

Bind(x) ==
  /\ at[x] = "bind"
  /\ IF PortFree
     THEN To(x, "key") /\ UNCHANGED <<place, node, request>>
     ELSE Exit(x)
  /\ UNCHANGED <<disk, unit, keys, announced, unsaved>>

(* load_or_create_secret_key.  With a key the endpoint is bound, and the   *)
(* server announces its Node ID.                                           *)
LoadKey(x) ==
  /\ at[x] = "key"
  /\ IF Loadable(x) # {}
     THEN \E k \in Loadable(x) :
            /\ node' = [node EXCEPT ![x] = k]
            /\ Announce(x, k)
            /\ To(x, "up")
            /\ UNCHANGED keys
     ELSE /\ keys' = IF keys < MaxKeys THEN keys + 1 ELSE keys
          /\ node' = [node EXCEPT ![x] = keys']
          /\ To(x, "truncate")
          /\ UNCHANGED announced
  /\ UNCHANGED <<disk, place, request, unit, unsaved>>

TruncateKey(x) ==
  /\ at[x] = "truncate"
  /\ MayWrite(x, KeyTarget(x))
  /\ key' = [key EXCEPT ![KeyTarget(x)] = {0}]
  /\ To(x, "fill")
  /\ UNCHANGED <<deployment, store, place, node, request, unit, keys, announced, unsaved>>

FillKey(x) ==
  /\ at[x] = "fill"
  /\ key' = [key EXCEPT ![KeyTarget(x)] = {node[x]}]
  /\ Announce(x, node[x])
  /\ To(x, "up")
  /\ UNCHANGED <<deployment, store, place, node, request, unit, keys, unsaved>>

(* Only a warning: the key is used all the same.                           *)
SaveKeyFails(x) ==
  /\ at[x] \in {"truncate", "fill"}
  /\ unsaved' = TRUE
  /\ Announce(x, node[x])
  /\ To(x, "up")
  /\ UNCHANGED <<disk, place, node, request, unit, keys>>

(* An unknown client shakes hands and is told PendingApproval, whether its *)
(* request can be saved or not; that a disk is full is left to TrustStore. *)
Register(x) ==
  /\ at[x] = "up"
  /\ IF MayWrite(x, place[x])
     THEN /\ store' = [store EXCEPT ![place[x]] = TRUE]
          /\ request' = [request EXCEPT ![x] = "saved"]
     ELSE /\ request' = [request EXCEPT ![x] = "answered"]
          /\ UNCHANGED store
  /\ UNCHANGED <<deployment, key, at, place, node, unit, keys, announced, unsaved>>

(* The process is killed or panics, or the endpoint cannot be bound.       *)
Crash(x) ==
  /\ at[x] # "off"
  /\ Exit(x)
  /\ UNCHANGED <<disk, unit, keys, announced, unsaved>>

ServerStep(x) == Bind(x) \/ LoadKey(x) \/ TruncateKey(x) \/ FillKey(x) \/ SaveKeyFails(x)

-----------------------------------------------------------------------------
(* ServiceManager and systemd.                                             *)

(* Enabling may fail, which is not looked at.                              *)
Install(u) ==
  /\ \E enabled \in {TRUE, unit[u].enabled} :
       unit' = [unit EXCEPT ![u].file = TRUE, ![u].enabled = enabled]
  /\ UNCHANGED <<disk, at, place, node, request, keys, announced, unsaved>>

(* service start, of a unit that is not active.                            *)
StartUnit(u) ==
  /\ unit[u].file /\ ~ unit[u].active
  /\ unit' = [unit EXCEPT ![u].active = TRUE]
  /\ UNCHANGED <<disk, at, place, node, request, keys, announced, unsaved>>

(* systemctl stop: the process is terminated.                              *)
StopUnit(u) ==
  /\ unit[u].active
  /\ unit' = [unit EXCEPT ![u].active = FALSE]
  /\ Exit(u)
  /\ UNCHANGED <<disk, keys, announced, unsaved>>

RestartUnit(u) ==
  /\ unit[u].file
  /\ unit' = [unit EXCEPT ![u].active = TRUE]
  /\ Exit(u)
  /\ UNCHANGED <<disk, keys, announced, unsaved>>

(* Stopped, disabled, removed.                                             *)
Uninstall(u) ==
  /\ unit[u].file
  /\ unit' = [unit EXCEPT ![u] = NoUnit]
  /\ Exit(u)
  /\ UNCHANGED <<disk, keys, announced, unsaved>>

(* Mutant: the unit file has no Restart=: a server is not started again.   *)
DueOnce(u) == at[u] = "off" /\ unit[u].active /\ announced[u] = {}

(* ExecStart, and after a failure Restart=on-failure.                      *)
Due(u) == at[u] = "off" /\ unit[u].active

SystemdLaunch(u) == Due(u) /\ Launch(u)

Reboot ==
  /\ at' = [x \in Contexts |-> "off"]
  /\ place' = [x \in Contexts |-> "none"]
  /\ node' = [x \in Contexts |-> 0]
  /\ request' = [x \in Contexts |-> ""]
  /\ unit' = [u \in Units |-> [unit[u] EXCEPT !.active = unit[u].enabled]]
  /\ UNCHANGED <<disk, keys, announced, unsaved>>

-----------------------------------------------------------------------------
Servers == deployment
Installable == Units \cap deployment

Interrupt ==
  \/ Reboot
  \/ \E x \in Servers : Crash(x)
  \/ \E u \in Installable : StopUnit(u) \/ RestartUnit(u) \/ Uninstall(u)

DaemonNext ==
  \/ \E x \in Servers \ Units : Launch(x)
  \/ \E x \in Servers : ServerStep(x) \/ Register(x)
  \/ \E u \in Installable : Install(u) \/ StartUnit(u) \/ SystemdLaunch(u)
  \/ Interrupt

DaemonSpec == DaemonInit /\ [][DaemonNext]_daemonVars

-----------------------------------------------------------------------------
(* A machine whose user runs a server, and that has a system unit.  The    *)
(* unit does not look for a key at home and saves one in /etc, which every *)
(* server tries first: so the Node ID of the user's server changes when it *)
(* is started again, though every key was saved (server.rs 82-98).         *)
TwoHomes == {"user", "system"} \subseteq deployment

NodeIds == UNION {announced[x] : x \in Contexts}

(* As long as every key could be saved, and wherever servers are killed,   *)
(* the system unit comes up with one Node ID, and on a machine without     *)
(* TwoHomes so do all servers, whoever starts them (server.rs 69-137).     *)
NodeIdStatic ==
  ~ unsaved => /\ Cardinality(announced["system"]) <= 1
               /\ ~ TwoHomes => Cardinality(NodeIds) <= 1

(* Who is told to run `joycast server pending` and `approve`.              *)
AdminsOf(x) == IF x \in {"sudo", "system"} THEN {"sudo", "user"} ELSE {"user"}

(* A request that a running server has saved is in the file a command of   *)
(* its administrators reads, unless the store in /etc has appeared since   *)
(* the server chose the one in the home directory (trust.rs 52-67).        *)
RequestsVisible ==
  \A x \in Contexts :
    request[x] = "saved" /\ ~ (place[x] = "home" /\ store["etc"]) =>
      \A admin \in AdminsOf(x) : StorePlace(admin) = place[x] /\ store[place[x]]

(* Every request a server has answered can be seen, and so approved: "so   *)
(* external CLI processes are reflected immediately in the running daemon".*)
CommandsReachDaemon ==
  \A x \in Contexts : request[x] # "" =>
    \A admin \in AdminsOf(x) : StorePlace(admin) = place[x] /\ store[place[x]]

(* A unit that was started is served again after any crash at any point of *)
(* its start, once interruptions cease, unless it is stopped or another    *)
(* server has the port (service.rs 34-73).                                 *)
ServiceComesBack ==
  (<>[][~ Interrupt]_daemonVars) =>
    \A u \in Units :
      at[u] = "off" /\ unit[u].active
        ~> \/ at[u] = "up" \/ ~ unit[u].active
           \/ \E x \in Contexts \ {u} : at[x] \notin {"off", "bind"}
=============================================================================
