--------------------------- MODULE DaemonStartProofs ---------------------------
(***************************************************************************)
(* The Node ID of a machine stays, for any number of keys and any set of   *)
(* machines, unless a key could not be saved or its user and its system    *)
(* unit look for keys in different places.                                 *)
(*                                                                         *)
(* The argument: the port admits one server at a time to the key file      *)
(* (Alone).  A Node ID is announced only when the key is in a file that    *)
(* every server of the machine reads (Held), or for the system unit in the *)
(* one file it reads, and a server makes a new key only if it finds none,  *)
(* so only before the first one is announced.                              *)
(*                                                                         *)
(* The second part: a request that a server has saved is in the store that *)
(* its administrator's commands read (Seen).                               *)
(***************************************************************************)
EXTENDS DaemonStart, FiniteSetTheorems, TLAPS

Stages == {"off", "bind", "key", "truncate", "fill", "up"}
Contents == {{}} \cup {{k} : k \in 0 .. MaxKeys}

Types ==
  /\ deployment \in Deployments
  /\ key \in [Places -> Contents]
  /\ at \in [Contexts -> Stages]
  /\ node \in [Contexts -> 0 .. MaxKeys]
  /\ keys \in 0 .. MaxKeys
  /\ unsaved \in BOOLEAN
  /\ announced \in [Contexts -> SUBSET (0 .. MaxKeys)]

(* Who runs belongs to the machine, and at most one has the port.          *)
Alone ==
  /\ \A x \in Contexts : at[x] # "off" => x \in deployment
  /\ \A x, y \in Contexts :
       at[x] \notin {"off", "bind"} /\ at[y] \notin {"off", "bind"} => x = y

(* Only a user's server writes a key in the home directory.                *)
HomeIsUsers == key["home"] # {} => "user" \in deployment

(* k is the key every server of this machine loads.                        *)
Blank == {{}, {0}}
Held(k) ==
  /\ k # 0
  /\ \/ key["etc"] = {k}
     \/ key["etc"] \in Blank /\ key["home"] = {k}

Making(x) == at[x] \in {"truncate", "fill"}

(* Nothing was announced yet that a new key would contradict.              *)
NewIds == (TwoHomes \/ NodeIds = {}) /\ announced["system"] = {}

Fresh == \A x \in Contexts : Making(x) => node[x] # 0 /\ (unsaved \/ NewIds)

OneId == TwoHomes \/ NodeIds = {} \/ \E k \in 1 .. MaxKeys : NodeIds = {k} /\ Held(k)

SystemId ==
  \/ announced["system"] = {}
  \/ \E k \in 1 .. MaxKeys : announced["system"] = {k} /\ key["etc"] = {k}

Static == unsaved \/ (OneId /\ SystemId)

Inv == Types /\ Alone /\ HomeIsUsers /\ Fresh /\ Static

-----------------------------------------------------------------------------
(* What load_or_create_secret_key finds: the key in /etc, or else, unless  *)
(* it runs as a system unit, the one in the home directory.                *)
LEMMA Found ==
  ASSUME NEW x \in Contexts
  PROVE  /\ key["etc"] \notin Blank => Loadable(x) = key["etc"]
         /\ key["etc"] \in Blank /\ x # "system" /\ key["home"] \notin Blank
              => Loadable(x) = key["home"]
         /\ key["etc"] \in Blank /\ (x = "system" \/ key["home"] \in Blank)
              => Loadable(x) = {}
<1> DEFINE c == Candidates(x)
           valid == {i \in DOMAIN c : key[c[i]] \notin Blank}
           first == {i \in valid : \A j \in valid : i <= j}
<1>1. Loadable(x) = UNION {key[c[i]] : i \in first}
  BY DEF Loadable, Blank
<1>2. CASE x = "system"
  <2>1. DOMAIN c = {1} /\ c[1] = "etc"
    BY <1>2 DEF Candidates
  <2>2. key["etc"] \notin Blank => first = {1}
    BY <2>1
  <2>3. key["etc"] \in Blank => first = {}
    BY <2>1
  <2> HIDE DEF first, c
  <2>4. QED
    BY <1>1, <1>2, <2>1, <2>2, <2>3
<1>3. CASE x # "system"
  <2>1. DOMAIN c = {1, 2} /\ c[1] = "etc" /\ c[2] = "home"
    BY <1>3 DEF Candidates
  <2>2. key["etc"] \notin Blank => first = {1}
    BY <2>1
  <2>3. key["etc"] \in Blank /\ key["home"] \notin Blank => first = {2}
    BY <2>1
  <2>4. key["etc"] \in Blank /\ key["home"] \in Blank => first = {}
    BY <2>1
  <2> HIDE DEF first, c
  <2>5. QED
    BY <1>1, <1>3, <2>1, <2>2, <2>3, <2>4
<1>4. QED
  BY <1>2, <1>3

(* Where it saves a new key: at home only for a user's server, and only if *)
(* there is no file in /etc.                                               *)
LEMMA Target ==
  ASSUME NEW x \in Contexts
  PROVE  \/ KeyTarget(x) = "etc"
         \/ KeyTarget(x) = "home" /\ x = "user" /\ key["etc"] = {}
BY DEF KeyTarget, is_root_context

(* Without TwoHomes every server finds a key that is held, and no other.   *)
LEMMA HeldIsFound ==
  ASSUME ~ TwoHomes, Types, HomeIsUsers,
         NEW x \in Contexts, x \in deployment, NEW k, Held(k)
  PROVE  Loadable(x) = {k}
<1>1. {k} \notin Blank
  BY DEF Held, Blank
<1>2. CASE key["etc"] = {k}
  BY <1>1, <1>2, Found
<1>3. CASE key["etc"] \in Blank /\ key["home"] = {k}
  <2>1. "user" \in deployment
    BY <1>3 DEF HomeIsUsers
  <2>2. x # "system"
    BY <2>1 DEF TwoHomes
  <2>3. QED
    BY <1>1, <1>3, <2>2, Found
<1>4. QED
  BY <1>2, <1>3 DEF Held

(* And what is found is held.                                              *)
LEMMA FoundIsHeld ==
  ASSUME Types, NEW x \in Contexts, NEW k \in Loadable(x)
  PROVE  k \in 1 .. MaxKeys /\ Held(k) /\ Loadable(x) = {k}
<1>1. /\ key["etc"] \in Contents /\ key["home"] \in Contents
  BY DEF Types, Places
<1>2. \A s \in Contents \ Blank : \A e \in s : s = {e} /\ e \in 1 .. MaxKeys
  BY MaxKeysAssumption DEF Contents, Blank
<1>3. CASE key["etc"] \notin Blank
  BY <1>1, <1>2, <1>3, Found DEF Held
<1>4. CASE key["etc"] \in Blank
  BY <1>1, <1>2, <1>4, Found DEF Held
<1>5. QED
  BY <1>3, <1>4

(* A server comes up with k.                                               *)
LEMMA Announced ==
  ASSUME announced \in [Contexts -> SUBSET (0 .. MaxKeys)],
         NEW x \in Contexts, NEW k \in 0 .. MaxKeys, Announce(x, k)
  PROVE  /\ announced' \in [Contexts -> SUBSET (0 .. MaxKeys)]
         /\ NodeIds' = NodeIds \cup {k}
         /\ announced'["system"] = announced["system"] \cup (IF x = "system" THEN {k} ELSE {})
<1>1. announced'[x] = announced[x] \cup {k} /\ \A y \in Contexts \ {x} : announced'[y] = announced[y]
  BY DEF Announce
<1>2. announced' \in [Contexts -> SUBSET (0 .. MaxKeys)]
  BY DEF Announce
<1>3. NodeIds' = NodeIds \cup {k}
  BY <1>1 DEF NodeIds
<1>4. "system" \in Contexts
  BY DEF Contexts
<1>5. QED
  BY <1>1, <1>2, <1>3, <1>4

LEMMA Bound == MaxKeys \in Nat /\ 0 \in 0 .. MaxKeys
BY MaxKeysAssumption

-----------------------------------------------------------------------------
LEMMA StaticStart == DaemonInit => Inv
<1> SUFFICES ASSUME DaemonInit PROVE Inv
  OBVIOUS
<1>1. Types
  <2>1. key \in [Places -> Contents]
    BY DEF DaemonInit, Contents
  <2>2. at \in [Contexts -> Stages]
    BY DEF DaemonInit, Stages
  <2>3. node \in [Contexts -> 0 .. MaxKeys]
    BY Bound DEF DaemonInit
  <2>4. announced \in [Contexts -> SUBSET (0 .. MaxKeys)]
    BY DEF DaemonInit
  <2>5. QED
    BY <2>1, <2>2, <2>3, <2>4, Bound DEF DaemonInit, Types
<1>2. Alone /\ HomeIsUsers /\ Fresh
  BY DEF DaemonInit, Alone, HomeIsUsers, Fresh, Making, Places
<1>3. Static
  <2>1. \A x \in Contexts : announced[x] = {}
    BY DEF DaemonInit
  <2>2. NodeIds = {} /\ announced["system"] = {}
    BY <2>1 DEF NodeIds, Contexts
  <2>3. QED
    BY <2>2 DEF Static, OneId, SystemId
<1>4. QED
  BY <1>1, <1>2, <1>3 DEF Inv

(* What was announced and where keys are does not change.                  *)
LEMMA KeptIds ==
  ASSUME UNCHANGED <<deployment, key, announced, unsaved>>
  PROVE  (Static => Static') /\ NewIds' = NewIds
BY DEF Static, OneId, SystemId, NewIds, NodeIds, TwoHomes, Held

(* Steps in which nobody touches a key file or announces anything: servers *)
(* are launched, get the port or end.                                      *)
LEMMA Quiet ==
  ASSUME Inv, UNCHANGED <<deployment, key, keys, announced, unsaved>>,
         at' \in [Contexts -> Stages], node' \in [Contexts -> 0 .. MaxKeys],
         \A x \in Contexts : at'[x] \in {at[x], "off"} \/ (at'[x] = "bind" /\ x \in deployment),
         \A x \in Contexts : at'[x] = at[x] => node'[x] = node[x] \/ at[x] \in {"off", "bind"}
  PROVE  Inv'
<1>1. Types'
  BY DEF Inv, Types
<1>2. Alone'
  BY DEF Inv, Alone
<1>3. HomeIsUsers' /\ Static'
  BY KeptIds DEF Inv, HomeIsUsers
<1>4. Fresh'
  BY KeptIds DEF Inv, Fresh, Making
<1>5. QED
  BY <1>1, <1>2, <1>3, <1>4 DEF Inv

LEMMA LaunchStep ==
  ASSUME Inv, NEW x \in Contexts, x \in deployment, Launch(x)
  PROVE  Inv'
<1>1. at' \in [Contexts -> Stages] /\ node' = node
  <2>1. at' = [at EXCEPT ![x] = "bind"] /\ node' = node
    BY DEF Launch, To
  <2>2. QED
    BY <2>1 DEF Inv, Types, Stages
<1>2. \A y \in Contexts : at'[y] \in {at[y], "off"} \/ (at'[y] = "bind" /\ y \in deployment)
  BY DEF Inv, Types, Launch, To
<1>3. UNCHANGED <<deployment, key, keys, announced, unsaved>>
  BY DEF Launch, disk
<1>4. QED
  BY <1>1, <1>2, <1>3, Quiet DEF Inv, Types

LEMMA ExitStep ==
  ASSUME Inv, NEW x \in Contexts, Exit(x),
         UNCHANGED <<deployment, key, keys, announced, unsaved>>
  PROVE  Inv'
<1>0. at' = [at EXCEPT ![x] = "off"] /\ node' = [node EXCEPT ![x] = 0]
  BY DEF Exit, To
<1>1. at' \in [Contexts -> Stages] /\ node' \in [Contexts -> 0 .. MaxKeys]
  BY <1>0, Bound DEF Inv, Types, Stages
<1>2. \A y \in Contexts : at'[y] \in {at[y], "off"} \/ (at'[y] = "bind" /\ y \in deployment)
  BY <1>0 DEF Inv, Types
<1>3. \A y \in Contexts : at'[y] = at[y] => node'[y] = node[y] \/ at[y] \in {"off", "bind"}
  BY <1>0 DEF Inv, Types
<1>4. QED
  BY <1>1, <1>2, <1>3, Quiet

LEMMA BindStep ==
  ASSUME Inv, NEW x \in Contexts, Bind(x)
  PROVE  Inv'
<1>1. UNCHANGED <<deployment, key, keys, announced, unsaved>>
  BY DEF Bind, disk
<1>2. CASE PortFree
  <2>1. at' = [at EXCEPT ![x] = "key"] /\ node' = node /\ at[x] = "bind"
    BY <1>2 DEF Bind, To
  <2>2. Types'
    BY <1>1, <2>1 DEF Inv, Types, Stages
  <2>3. Alone'
    BY <1>1, <1>2, <2>1 DEF Inv, Types, Alone, PortFree
  <2>4. HomeIsUsers' /\ Static'
    BY <1>1, KeptIds DEF Inv, HomeIsUsers
  <2>5. Fresh'
    BY <1>1, <2>1, KeptIds DEF Inv, Types, Fresh, Making
  <2>6. QED
    BY <2>2, <2>3, <2>4, <2>5 DEF Inv
<1>3. CASE ~ PortFree
  BY <1>1, <1>3, ExitStep DEF Bind
<1>4. QED
  BY <1>2, <1>3

(* A server that has the port goes on to the key files: whoever else is    *)
(* making a key is it.                                                     *)
LEMMA OnlyOne ==
  ASSUME Inv, NEW x \in Contexts, at[x] \notin {"off", "bind"}, NEW stage \in Stages,
         at' = [at EXCEPT ![x] = stage], UNCHANGED deployment
  PROVE  /\ Alone'
         /\ \A y \in Contexts : Making(y)' => y = x /\ stage \in {"truncate", "fill"}
<1>1. at \in [Contexts -> Stages]
  BY DEF Inv, Types
<1>2. \A y \in Contexts : y # x => at'[y] \in {"off", "bind"} /\ at'[y] = at[y]
  BY <1>1 DEF Inv, Alone
<1>3. at'[x] = stage
  BY <1>1
<1>4. Alone'
  BY <1>2, <1>3 DEF Inv, Alone
<1>5. QED
  BY <1>2, <1>3, <1>4 DEF Making

LEMMA LoadStep ==
  ASSUME Inv, NEW x \in Contexts, LoadKey(x)
  PROVE  Inv'
<1>1. at[x] = "key" /\ x \in deployment /\ UNCHANGED <<deployment, key, unsaved>>
  BY DEF LoadKey, disk, Inv, Alone
<1>2. HomeIsUsers' /\ TwoHomes' = TwoHomes
  BY <1>1 DEF Inv, HomeIsUsers, TwoHomes
<1>3. CASE Loadable(x) # {}
  <2>1. PICK k \in Loadable(x) :
          /\ node' = [node EXCEPT ![x] = k]
          /\ Announce(x, k)
          /\ at' = [at EXCEPT ![x] = "up"]
          /\ keys' = keys
    BY <1>3 DEF LoadKey, To
  <2>2. k \in 1 .. MaxKeys /\ Held(k) /\ Loadable(x) = {k}
    BY FoundIsHeld DEF Inv
  <2>3. /\ announced' \in [Contexts -> SUBSET (0 .. MaxKeys)]
        /\ NodeIds' = NodeIds \cup {k}
        /\ announced'["system"] = announced["system"] \cup (IF x = "system" THEN {k} ELSE {})
    <3>1. k \in 0 .. MaxKeys
      BY <2>2, MaxKeysAssumption
    <3>2. announced \in [Contexts -> SUBSET (0 .. MaxKeys)] /\ Announce(x, k)
      BY <2>1 DEF Inv, Types
    <3>3. QED
      BY <3>1, <3>2, Announced
  <2>4. Types'
    <3>1. k \in 0 .. MaxKeys
      BY <2>2, MaxKeysAssumption
    <3>2. node' \in [Contexts -> 0 .. MaxKeys]
      BY <2>1, <3>1 DEF Inv, Types
    <3>3. at' \in [Contexts -> Stages]
      BY <2>1 DEF Inv, Types, Stages
    <3>4. QED
      BY <1>1, <2>1, <2>3, <3>2, <3>3 DEF Inv, Types
  <2>5. Alone' /\ Fresh'
    BY <1>1, <2>1, OnlyOne DEF Fresh, Stages
  <2>6. ASSUME ~ unsaved PROVE OneId'
    <3>1. ~ TwoHomes => \A j : Held(j) => j = k
      BY <1>1, <2>2, HeldIsFound DEF Inv
    <3>2. TwoHomes \/ NodeIds' = {k}
      BY <2>3, <2>6, <3>1 DEF Inv, Static, OneId
    <3>3. QED
      BY <1>1, <1>2, <2>2, <3>2 DEF OneId, Held
  <2>7. ASSUME ~ unsaved PROVE SystemId'
    <3>1. SystemId
      BY <2>7 DEF Inv, Static
    <3>2. CASE x = "system"
      <4>1. key["etc"] = {k}
        BY <2>2, <3>2, Found
      <4>2. announced'["system"] = {k}
        BY <2>3, <3>1, <3>2, <4>1 DEF SystemId
      <4>3. QED
        BY <1>1, <2>2, <4>1, <4>2 DEF SystemId
    <3>3. CASE x # "system"
      <4>1. announced'["system"] = announced["system"]
        BY <2>3, <3>3
      <4>2. QED
        BY <1>1, <3>1, <4>1 DEF SystemId
    <3>4. QED
      BY <3>2, <3>3
  <2>8. QED
    BY <1>1, <1>2, <2>4, <2>5, <2>6, <2>7 DEF Inv, Static
<1>4. CASE Loadable(x) = {}
  <2>1. /\ keys' \in 1 .. MaxKeys
        /\ node' = [node EXCEPT ![x] = keys']
        /\ at' = [at EXCEPT ![x] = "truncate"]
        /\ announced' = announced
    BY <1>4, MaxKeysAssumption DEF LoadKey, To, Inv, Types
  <2>2. Types'
    BY <1>1, <2>1 DEF Inv, Types, Stages
  <2>3. Alone' /\ \A y \in Contexts : Making(y)' => y = x
    BY <1>1, <2>1, OnlyOne DEF Stages
  <2>4. ASSUME ~ unsaved PROVE NewIds
    <3>1. TwoHomes \/ NodeIds = {}
      BY <1>1, <1>4, <2>4, HeldIsFound DEF Inv, Static, OneId
    <3>2. key["etc"] \in Blank
      BY <1>4, Found DEF Blank
    <3>3. announced["system"] = {}
      BY <2>4, <3>2 DEF Inv, Static, SystemId, Blank
    <3>4. QED
      BY <3>1, <3>3 DEF NewIds
  <2>5. node'[x] # 0
    BY <2>1 DEF Inv, Types
  <2>6. Static' /\ NewIds' = NewIds
    BY <1>1, <2>1, KeptIds DEF Inv
  <2>7. Fresh'
    BY <1>1, <2>1, <2>3, <2>4, <2>5, <2>6 DEF Fresh
  <2>8. QED
    BY <1>2, <2>2, <2>3, <2>6, <2>7 DEF Inv
<1>5. QED
  BY <1>3, <1>4

(* What truncation and writing do to a key file.                           *)
LEMMA Written ==
  ASSUME Inv, NEW x \in Contexts, at[x] # "off", NEW k \in 0 .. MaxKeys,
         key' = [key EXCEPT ![KeyTarget(x)] = {k}], UNCHANGED deployment
  PROVE  /\ key' \in [Places -> Contents]
         /\ HomeIsUsers'
         /\ k # 0 => Held(k)'
         /\ x = "system" => key'["etc"] = {k}
<1>1. key \in [Places -> Contents] /\ {k} \in Contents
  BY DEF Inv, Types, Contents
<1>2. CASE KeyTarget(x) = "etc"
  <2>1. key'["etc"] = {k} /\ key'["home"] = key["home"]
    BY <1>1, <1>2 DEF Places
  <2>2. QED
    BY <1>1, <1>2, <2>1 DEF Inv, HomeIsUsers, Held
<1>3. CASE KeyTarget(x) = "home" /\ x = "user" /\ key["etc"] = {}
  <2>1. key'["home"] = {k} /\ key'["etc"] = {}
    BY <1>1, <1>3 DEF Places
  <2>2. "user" \in deployment
    BY <1>3 DEF Inv, Alone
  <2>3. QED
    BY <1>1, <1>3, <2>1, <2>2 DEF HomeIsUsers, Held, Blank
<1>4. QED
  BY <1>2, <1>3, Target

LEMMA TruncateStep ==
  ASSUME Inv, NEW x \in Contexts, TruncateKey(x)
  PROVE  Inv'
<1>1. /\ at[x] = "truncate"
      /\ key' = [key EXCEPT ![KeyTarget(x)] = {0}]
      /\ at' = [at EXCEPT ![x] = "fill"]
      /\ UNCHANGED <<deployment, node, keys, announced, unsaved>>
  BY DEF TruncateKey, To
<1>2. key' \in [Places -> Contents] /\ HomeIsUsers'
  <2>1. at[x] # "off" /\ 0 \in 0 .. MaxKeys
    BY <1>1, Bound
  <2>2. QED
    BY <1>1, <2>1, Written
<1>3. Types'
  BY <1>1, <1>2 DEF Inv, Types, Stages
<1>4. Alone' /\ \A y \in Contexts : Making(y)' => y = x
  BY <1>1, OnlyOne DEF Stages
<1>5. node[x] # 0 /\ (unsaved \/ NewIds)
  BY <1>1 DEF Inv, Fresh, Making
<1>6. NewIds' = NewIds /\ (NewIds => OneId' /\ SystemId')
  BY <1>1 DEF NewIds, NodeIds, TwoHomes, OneId, SystemId
<1>7. Fresh' /\ Static'
  BY <1>1, <1>4, <1>5, <1>6 DEF Fresh, Static
<1>8. QED
  BY <1>2, <1>3, <1>4, <1>7 DEF Inv

LEMMA FillStep ==
  ASSUME Inv, NEW x \in Contexts, FillKey(x)
  PROVE  Inv'
<1>1. /\ at[x] = "fill"
      /\ key' = [key EXCEPT ![KeyTarget(x)] = {node[x]}]
      /\ Announce(x, node[x])
      /\ at' = [at EXCEPT ![x] = "up"]
      /\ UNCHANGED <<deployment, node, keys, unsaved>>
  BY DEF FillKey, To
<1>2. node[x] \in 1 .. MaxKeys /\ (unsaved \/ NewIds)
  BY <1>1 DEF Inv, Types, Fresh, Making
<1>3. /\ key' \in [Places -> Contents] /\ HomeIsUsers' /\ Held(node[x])'
      /\ x = "system" => key'["etc"] = {node[x]}
  <2>1. at[x] # "off" /\ node[x] \in 0 .. MaxKeys /\ node[x] # 0
    BY <1>1, <1>2, Bound
  <2>2. QED
    BY <1>1, <2>1, Written
<1>4. /\ announced' \in [Contexts -> SUBSET (0 .. MaxKeys)]
      /\ NodeIds' = NodeIds \cup {node[x]}
      /\ announced'["system"] = announced["system"] \cup (IF x = "system" THEN {node[x]} ELSE {})
  BY <1>1, <1>2, Announced DEF Inv, Types
<1>5. Types'
  BY <1>1, <1>3, <1>4 DEF Inv, Types, Stages
<1>6. Alone' /\ Fresh'
  BY <1>1, OnlyOne DEF Fresh, Stages
<1>7. ASSUME NewIds PROVE OneId' /\ SystemId'
  <2>1. TwoHomes' = TwoHomes /\ node'[x] = node[x]
    BY <1>1 DEF TwoHomes
  <2>2. OneId'
    BY <1>2, <1>3, <1>4, <1>7, <2>1 DEF OneId, NewIds, Held
  <2>3. SystemId'
    BY <1>2, <1>3, <1>4, <1>7 DEF SystemId, NewIds
  <2>4. QED
    BY <2>2, <2>3
<1>8. Static'
  BY <1>1, <1>2, <1>7 DEF Static
<1>9. QED
  BY <1>3, <1>5, <1>6, <1>8 DEF Inv

LEMMA SaveFailsStep ==
  ASSUME Inv, NEW x \in Contexts, SaveKeyFails(x)
  PROVE  Inv'
<1>1. /\ Making(x) /\ unsaved' = TRUE
      /\ at' = [at EXCEPT ![x] = "up"]
      /\ UNCHANGED <<deployment, key, node, keys>>
      /\ Announce(x, node[x])
  BY DEF SaveKeyFails, To, disk, Making
<1>2. Types'
  <2>1. announced' \in [Contexts -> SUBSET (0 .. MaxKeys)]
    BY <1>1, Announced DEF Inv, Types
  <2>2. QED
    BY <1>1, <2>1 DEF Inv, Types, Stages
<1>3. Alone' /\ Fresh'
  BY <1>1, OnlyOne DEF Fresh, Making, Stages
<1>4. HomeIsUsers' /\ Static'
  BY <1>1 DEF Inv, HomeIsUsers, Static
<1>5. QED
  BY <1>2, <1>3, <1>4 DEF Inv

(* Steps that leave the servers and their keys alone.                      *)
LEMMA Still ==
  ASSUME Inv, UNCHANGED <<deployment, key, keys, announced, unsaved, at, node>>
  PROVE  Inv'
BY KeptIds DEF Inv, Types, Alone, HomeIsUsers, Fresh, Making

LEMMA RebootStep == ASSUME Inv, Reboot PROVE Inv'
<1>1. /\ at' \in [Contexts -> Stages] /\ node' \in [Contexts -> 0 .. MaxKeys]
      /\ \A x \in Contexts : at'[x] = "off"
  <2>1. /\ at' = [x \in Contexts |-> "off"] /\ node' = [x \in Contexts |-> 0]
    BY DEF Reboot
  <2>2. QED
    BY <2>1, Bound DEF Stages
<1>2. UNCHANGED <<deployment, key, keys, announced, unsaved>>
  BY DEF Reboot, disk
<1>3. \A x \in Contexts : at'[x] \in {at[x], "off"} \/ (at'[x] = "bind" /\ x \in deployment)
  BY <1>1
<1>4. \A x \in Contexts : at'[x] = at[x] => node'[x] = node[x] \/ at[x] \in {"off", "bind"}
  BY <1>1
<1>5. QED
  BY <1>1, <1>2, <1>3, <1>4, Quiet

LEMMA StaticStep ==
  ASSUME Inv, [DaemonNext]_daemonVars
  PROVE  Inv'
<1>1. deployment \subseteq Contexts /\ Units \subseteq Contexts
  BY DeploymentAssumption DEF Inv, Types, Units, Contexts
<1>2. CASE \E x \in Servers \ Units : Launch(x)
  BY <1>1, <1>2, LaunchStep DEF Servers
<1>3. CASE \E x \in Servers : ServerStep(x)
  BY <1>1, <1>3, BindStep, LoadStep, TruncateStep, FillStep, SaveFailsStep
     DEF Servers, ServerStep
<1>4. CASE \E x \in Servers : Register(x)
  BY <1>4, Still DEF Register
<1>5. CASE \E u \in Installable : Install(u) \/ StartUnit(u)
  BY <1>5, Still DEF Install, StartUnit, disk
<1>6. CASE \E u \in Installable : SystemdLaunch(u)
  BY <1>1, <1>6, LaunchStep DEF Installable, SystemdLaunch
<1>7. CASE Reboot
  BY <1>7, RebootStep
<1>8. CASE \E x \in Servers : Crash(x)
  BY <1>1, <1>8, ExitStep DEF Servers, Crash, disk
<1>9. CASE \E u \in Installable : StopUnit(u) \/ RestartUnit(u) \/ Uninstall(u)
  BY <1>1, <1>9, ExitStep DEF Installable, StopUnit, RestartUnit, Uninstall, disk
<1>10. CASE UNCHANGED daemonVars
  BY <1>10, Still DEF daemonVars
<1>11. QED
  BY <1>2, <1>3, <1>4, <1>5, <1>6, <1>7, <1>8, <1>9, <1>10 DEF DaemonNext, Interrupt

LEMMA InvStatic == Inv => NodeIdStatic
<1> SUFFICES ASSUME Inv, ~ unsaved
             PROVE  /\ Cardinality(announced["system"]) <= 1
                    /\ ~ TwoHomes => Cardinality(NodeIds) <= 1
  BY DEF NodeIdStatic
<1>1. ASSUME NEW s, s = {} \/ \E k \in 1 .. MaxKeys : s = {k}
      PROVE  Cardinality(s) <= 1
  <2>1. CASE s = {}
    BY <2>1, FS_EmptySet
  <2>2. CASE \E k \in 1 .. MaxKeys : s = {k}
    BY <2>2, FS_Singleton
  <2>3. QED
    BY <1>1, <2>1, <2>2
<1>2. QED
  BY <1>1 DEF Inv, Static, OneId, SystemId

(* The system unit of a machine comes up with one Node ID as long as every *)
(* key could be saved, and so do all servers of a machine that has no      *)
(* system unit beside a server of its user, wherever they are killed and   *)
(* however many keys are made (server.rs 69-137).                          *)
THEOREM OneNodeId == DaemonSpec => []NodeIdStatic
<1>1. Inv /\ [DaemonNext]_daemonVars => Inv'
  BY StaticStep
<1>2. QED
  BY <1>1, StaticStart, InvStatic, PTL DEF DaemonSpec

-----------------------------------------------------------------------------
(* What the server is told to save is seen by who administers it.          *)

Others ==
  /\ store \in [Places -> BOOLEAN]
  /\ place \in [Contexts -> Places \cup {"none"}]
  /\ request \in [Contexts -> {"", "answered", "saved"}]
  /\ unit \in [Units -> [file : BOOLEAN, enabled : BOOLEAN, active : BOOLEAN]]

(* A server that runs has chosen a place, at home only if it is a user's;  *)
(* what it has saved is there, and stays.                                  *)
Shown ==
  \A x \in Contexts :
    /\ at[x] # "off" => place[x] # "none"
    /\ place[x] = "home" => x = "user"
    /\ request[x] = "saved" => at[x] # "off" /\ store[place[x]]

Seen == Types /\ Others /\ Shown

LEMMA SeenAtStart == DaemonInit => Seen
<1> SUFFICES ASSUME DaemonInit PROVE Seen
  OBVIOUS
<1>1. Types
  BY StaticStart DEF Inv
<1>2. Others
  <2>1. unit \in [Units -> [file : BOOLEAN, enabled : BOOLEAN, active : BOOLEAN]]
    BY DEF DaemonInit, NoUnit
  <2>2. QED
    BY <2>1 DEF DaemonInit, Others
<1>3. Shown
  BY DEF DaemonInit, Shown
<1>4. QED
  BY <1>1, <1>2, <1>3 DEF Seen

LEMMA SeenLaunch ==
  ASSUME Seen, NEW x \in Contexts, Launch(x)
  PROVE  Seen'
<1>1. /\ at' = [at EXCEPT ![x] = "bind"]
      /\ place' = [place EXCEPT ![x] = StorePlace(x)]
      /\ at[x] = "off"
      /\ UNCHANGED <<deployment, key, store, node, request, unit, keys, announced, unsaved>>
  BY DEF Launch, To, disk
<1>2. StorePlace(x) \in Places /\ (StorePlace(x) = "home" => x = "user")
  BY DEF StorePlace, is_root_context, Places
<1>3. Types'
  BY <1>1 DEF Seen, Types, Stages
<1>4. Others'
  BY <1>1, <1>2 DEF Seen, Others
<1>5. Shown'
  BY <1>1, <1>2 DEF Seen, Types, Others, Shown, Places
<1>6. QED
  BY <1>3, <1>4, <1>5 DEF Seen

LEMMA SeenExit ==
  ASSUME Seen, NEW x \in Contexts, Exit(x),
         unit' \in [Units -> [file : BOOLEAN, enabled : BOOLEAN, active : BOOLEAN]],
         UNCHANGED <<deployment, key, store, keys, announced, unsaved>>
  PROVE  Seen'
<1>1. /\ at' = [at EXCEPT ![x] = "off"] /\ place' = [place EXCEPT ![x] = "none"]
      /\ node' = [node EXCEPT ![x] = 0] /\ request' = [request EXCEPT ![x] = ""]
  BY DEF Exit, To
<1>2. Types'
  BY <1>1, Bound DEF Seen, Types, Stages
<1>3. Others'
  BY <1>1 DEF Seen, Others
<1>4. Shown'
  BY <1>1 DEF Seen, Types, Others, Shown
<1>5. QED
  BY <1>2, <1>3, <1>4 DEF Seen

LEMMA SeenReboot == ASSUME Seen, Reboot PROVE Seen'
<1>1. /\ at' = [x \in Contexts |-> "off"] /\ place' = [x \in Contexts |-> "none"]
      /\ node' = [x \in Contexts |-> 0] /\ request' = [x \in Contexts |-> ""]
      /\ UNCHANGED <<deployment, key, store, keys, announced, unsaved>>
  BY DEF Reboot, disk
<1>2. unit' \in [Units -> [file : BOOLEAN, enabled : BOOLEAN, active : BOOLEAN]]
  BY DEF Reboot, Seen, Others
<1>3. Types'
  BY <1>1, Bound DEF Seen, Types, Stages
<1>4. Others'
  BY <1>1, <1>2 DEF Seen, Others
<1>5. Shown'
  BY <1>1 DEF Shown
<1>6. QED
  BY <1>3, <1>4, <1>5 DEF Seen

(* The steps of a server that has been launched: it stays where it is.     *)
LEMMA SeenOnward ==
  ASSUME Seen, NEW x \in Contexts, at[x] # "off", NEW stage \in Stages \ {"off"},
         at' = [at EXCEPT ![x] = stage],
         key' \in [Places -> Contents], node' \in [Contexts -> 0 .. MaxKeys],
         keys' \in 0 .. MaxKeys, unsaved' \in BOOLEAN, announced' \in [Contexts -> SUBSET (0 .. MaxKeys)],
         UNCHANGED <<deployment, store, place, request, unit>>
  PROVE  Seen'
<1>1. Types'
  BY DEF Seen, Types
<1>2. Others'
  BY DEF Seen, Others
<1>3. Shown'
  BY DEF Seen, Types, Shown
<1>4. QED
  BY <1>1, <1>2, <1>3 DEF Seen

LEMMA SeenServerStep ==
  ASSUME Seen, NEW x \in Contexts, ServerStep(x)
  PROVE  Seen'
<1>0. /\ key \in [Places -> Contents] /\ node \in [Contexts -> 0 .. MaxKeys]
      /\ keys \in 0 .. MaxKeys /\ unsaved \in BOOLEAN /\ announced \in [Contexts -> SUBSET (0 .. MaxKeys)]
      /\ unit \in [Units -> [file : BOOLEAN, enabled : BOOLEAN, active : BOOLEAN]]
  BY DEF Seen, Types, Others
<1>1. CASE Bind(x)
  <2>1. CASE PortFree
    BY <1>0, <1>1, <2>1, SeenOnward DEF Bind, To, disk, Stages
  <2>2. CASE ~ PortFree
    BY <1>0, <1>1, <2>2, SeenExit DEF Bind, disk
  <2>3. QED
    BY <2>1, <2>2
<1>2. CASE LoadKey(x)
  <2>1. at[x] = "key" /\ UNCHANGED <<deployment, key, store, place, request, unit, unsaved>>
    BY <1>2 DEF LoadKey, disk
  <2>2. CASE Loadable(x) # {}
    <3>1. PICK k \in Loadable(x) :
            /\ node' = [node EXCEPT ![x] = k]
            /\ Announce(x, k)
            /\ at' = [at EXCEPT ![x] = "up"]
            /\ keys' = keys
      BY <1>2, <2>2 DEF LoadKey, To
    <3>2. k \in 0 .. MaxKeys
      BY FoundIsHeld, Bound DEF Seen
    <3>3. node' \in [Contexts -> 0 .. MaxKeys] /\ announced' \in [Contexts -> SUBSET (0 .. MaxKeys)]
      BY <1>0, <3>1, <3>2, Announced
    <3>4. QED
      BY <1>0, <2>1, <3>1, <3>3, SeenOnward DEF Stages
  <2>3. CASE Loadable(x) = {}
    <3>1. /\ keys' \in 0 .. MaxKeys
          /\ node' = [node EXCEPT ![x] = keys']
          /\ at' = [at EXCEPT ![x] = "truncate"]
          /\ announced' = announced
      BY <1>0, <1>2, <2>3, MaxKeysAssumption DEF LoadKey, To
    <3>2. node' \in [Contexts -> 0 .. MaxKeys]
      BY <1>0, <3>1
    <3>3. QED
      BY <1>0, <2>1, <3>1, <3>2, SeenOnward DEF Stages
  <2>4. QED
    BY <2>2, <2>3
<1>3. CASE TruncateKey(x)
  <2>1. key' \in [Places -> Contents]
    BY <1>0, <1>3, Bound DEF TruncateKey, Contents
  <2>2. QED
    BY <1>0, <1>3, <2>1, SeenOnward DEF TruncateKey, To, Stages
<1>4. CASE FillKey(x)
  <2>1. key' \in [Places -> Contents]
    BY <1>0, <1>4 DEF FillKey, Contents
  <2>2. announced' \in [Contexts -> SUBSET (0 .. MaxKeys)]
    BY <1>0, <1>4, Announced DEF FillKey
  <2>3. QED
    BY <1>0, <1>4, <2>1, <2>2, SeenOnward DEF FillKey, To, Stages
<1>5. CASE SaveKeyFails(x)
  <2>1. announced' \in [Contexts -> SUBSET (0 .. MaxKeys)] /\ unsaved' \in BOOLEAN
    BY <1>0, <1>5, Announced DEF SaveKeyFails
  <2>2. QED
    BY <1>0, <1>5, <2>1, SeenOnward DEF SaveKeyFails, To, disk, Stages
<1>6. QED
  BY <1>1, <1>2, <1>3, <1>4, <1>5 DEF ServerStep

LEMMA SeenRegister ==
  ASSUME Seen, NEW x \in Contexts, Register(x)
  PROVE  Seen'
<1>1. /\ at[x] = "up" /\ place[x] \in Places
      /\ UNCHANGED <<deployment, key, at, place, node, unit, keys, announced, unsaved>>
  BY DEF Register, Seen, Others, Shown
<1>2. Types'
  BY <1>1 DEF Seen, Types
<1>3. CASE MayWrite(x, place[x])
  <2>1. /\ store' = [store EXCEPT ![place[x]] = TRUE]
        /\ request' = [request EXCEPT ![x] = "saved"]
    BY <1>3 DEF Register
  <2>2. Others'
    BY <1>1, <2>1 DEF Seen, Others
  <2>3. Shown'
    BY <1>1, <2>1 DEF Seen, Others, Shown
  <2>4. QED
    BY <1>2, <2>2, <2>3 DEF Seen
<1>4. CASE ~ MayWrite(x, place[x])
  <2>1. store' = store /\ request' = [request EXCEPT ![x] = "answered"]
    BY <1>4 DEF Register
  <2>2. Others'
    BY <1>1, <2>1 DEF Seen, Others
  <2>3. Shown'
    BY <1>1, <2>1 DEF Seen, Others, Shown
  <2>4. QED
    BY <1>2, <2>2, <2>3 DEF Seen
<1>5. QED
  BY <1>3, <1>4

LEMMA SeenUnit ==
  ASSUME Seen,
         unit' \in [Units -> [file : BOOLEAN, enabled : BOOLEAN, active : BOOLEAN]],
         UNCHANGED <<deployment, key, store, at, place, node, request, keys, announced, unsaved>>
  PROVE  Seen'
<1>1. Types' /\ Others'
  BY DEF Seen, Types, Others
<1>2. Shown'
  BY DEF Seen, Shown
<1>3. QED
  BY <1>1, <1>2 DEF Seen

LEMMA SeenStep ==
  ASSUME Seen, [DaemonNext]_daemonVars
  PROVE  Seen'
<1> DEFINE Unit == [file : BOOLEAN, enabled : BOOLEAN, active : BOOLEAN]
<1>1. /\ deployment \subseteq Contexts /\ Units \subseteq Contexts
      /\ unit \in [Units -> Unit] /\ NoUnit \in Unit
  BY DeploymentAssumption DEF Seen, Types, Others, Units, Contexts, NoUnit
<1>2. CASE \E x \in Servers : Launch(x) \/ ServerStep(x) \/ Register(x)
  BY <1>1, <1>2, SeenLaunch, SeenServerStep, SeenRegister DEF Servers
<1>3. CASE \E u \in Installable : Install(u) \/ StartUnit(u)
  <2>1. PICK u \in Units : Install(u) \/ StartUnit(u)
    BY <1>3 DEF Installable
  <2>2. CASE Install(u)
    <3>1. PICK e \in BOOLEAN : unit' = [unit EXCEPT ![u].file = TRUE, ![u].enabled = e]
      BY <1>1, <2>2 DEF Install
    <3>2. unit' \in [Units -> Unit]
      BY <1>1, <3>1
    <3>3. QED
      BY <2>2, <3>2, SeenUnit DEF Install, disk
  <2>3. CASE StartUnit(u)
    <3>1. unit' \in [Units -> Unit]
      BY <1>1, <2>3 DEF StartUnit
    <3>2. QED
      BY <2>3, <3>1, SeenUnit DEF StartUnit, disk
  <2>4. QED
    BY <2>1, <2>2, <2>3
<1>4. CASE \E u \in Installable : SystemdLaunch(u)
  BY <1>1, <1>4, SeenLaunch DEF Installable, SystemdLaunch
<1>5. CASE Reboot
  BY <1>5, SeenReboot
<1>6. CASE \E x \in Servers : Crash(x)
  BY <1>1, <1>6, SeenExit DEF Servers, Crash, disk
<1>7. CASE \E u \in Installable : StopUnit(u) \/ RestartUnit(u) \/ Uninstall(u)
  <2>1. unit' \in [Units -> Unit]
    BY <1>1, <1>7 DEF Installable, StopUnit, RestartUnit, Uninstall
  <2>2. QED
    BY <1>1, <1>7, <2>1, SeenExit DEF Installable, StopUnit, RestartUnit, Uninstall, disk
<1>8. CASE UNCHANGED daemonVars
  BY <1>1, <1>8, SeenUnit DEF daemonVars
<1>9. QED
  BY <1>2, <1>3, <1>4, <1>5, <1>6, <1>7, <1>8 DEF DaemonNext, Interrupt, Servers

(* Every variable of a machine that starts servers keeps its type: a key   *)
(* file holds at most one key, and that one of those made (main.rs 168-234,*)
(* server.rs 70-137).                                                      *)
THEOREM DaemonTypeCorrect == DaemonSpec => []DaemonTypeOK
<1>1. Seen => DaemonTypeOK
  <2>1. \A s \in Contents : s \subseteq 0 .. MaxKeys /\ Cardinality(s) <= 1
    BY FS_EmptySet, FS_Singleton DEF Contents
  <2>2. QED
    BY <2>1 DEF Seen, Types, Others, Stages, DaemonTypeOK
<1>2. Seen /\ [DaemonNext]_daemonVars => Seen'
  BY SeenStep
<1>3. QED
  BY <1>1, <1>2, SeenAtStart, PTL DEF DaemonSpec

(* A request that a running server has saved is in the file that the       *)
(* commands of its administrators read, whatever the machine, unless a     *)
(* store in /etc has appeared since (trust.rs 52-67).                      *)
THEOREM SavedRequestsVisible == DaemonSpec => []RequestsVisible
<1>1. Seen => RequestsVisible
  <2> SUFFICES ASSUME Seen, NEW x \in Contexts, request[x] = "saved",
                      ~ (place[x] = "home" /\ store["etc"]), NEW admin \in AdminsOf(x)
               PROVE  StorePlace(admin) = place[x] /\ store[place[x]]
    BY DEF RequestsVisible
  <2>1. store[place[x]] /\ place[x] \in Places /\ (place[x] = "home" => x = "user")
    BY DEF Seen, Others, Shown
  <2>2. CASE place[x] = "etc"
    BY <2>1, <2>2 DEF StorePlace
  <2>3. CASE place[x] = "home"
    BY <2>1, <2>3 DEF StorePlace, AdminsOf, is_root_context
  <2>4. QED
    BY <2>1, <2>2, <2>3 DEF Places
<1>2. Seen /\ [DaemonNext]_daemonVars => Seen'
  BY SeenStep
<1>3. QED
  BY <1>1, <1>2, SeenAtStart, PTL DEF DaemonSpec
=============================================================================
