----------------------------- MODULE ClientStart -----------------------------
(***************************************************************************)
(* Several `joycast client` processes of one user (src/src/main.rs 236,    *)
(* client.rs 124-321, history.rs, transport.rs): each resolves its target, *)
(* loads or creates the client id, chooses an input device, opens it, and  *)
(* when the server approves it records the connection.  They share the     *)
(* files client_id and known_servers.json, which fs::write first truncates *)
(* and then fills, and may be killed at any point.                         *)
(***************************************************************************)
EXTENDS DeviceScanner

CONSTANTS
  Clients,     \* client processes
  Hosts,       \* host names of servers
  Lower,       \* Lower[h]: h in lower case
  Texts,       \* what may be given as target, see TextAssumption
  Presences,   \* sets of input devices that may be present together
  OptionSets,  \* OptionSets[c]: --device (or <<>>) and the filters c may be given
  ClientHost,  \* phrases in the host name of this machine
  DefaultPort,
  MaxRecords,  \* bound: connections recorded
  MaxIds       \* bound: client ids generated

(* A text has one of the forms from_str tells apart.                       *)
ASSUME TextAssumption ==
  \A t \in Texts : t.form \in {"socket", "ip", "node", "name"}
(* Event nodes have numbers of their own.                                  *)
ASSUME PresenceAssumption ==
  \A s \in Presences : /\ IsFiniteSet(s)
                       /\ \A d \in s : d.path \in Seq(0 .. 9)
                       /\ \A d, e \in s : d.path = e.path => d = e
ASSUME HostAssumption == ~ is_noise_device(ClientHost)
ASSUME ClientBoundAssumption == MaxRecords \in Nat /\ MaxIds \in Nat \ {0}

VARIABLES
  history,   \* known_servers.json: its entries, none if there is no such file
  identity,  \* client_id: {} if there is no such file, {0} if it is empty
  step,      \* step[c]: what client c does next
  raw,       \* raw[c]: the text its target was parsed from
  ident,     \* ident[c]: its client id
  choice,    \* choice[c]: its options, and the node and device it uses
  copy,      \* copy[c]: the entries it loaded, then the ones it saves
  recorded,  \* history: all connections recorded, the first one first
  generated, \* number of client ids generated
  used,      \* history: the ids that were announced to a server
  mixed,     \* history: saves of known_servers.json overlapped or broke off
  twice      \* history: ids were created at once or could not be saved

clientVars == <<history, identity, step, raw, ident, choice, copy,
                recorded, generated, used, mixed, twice>>
files == <<history, recorded, mixed>>
shared == <<identity, generated, twice>>
ids == <<ident, shared>>

Nothing == [form |-> "nothing"]
NoChoice == [opt |-> Nothing, path |-> <<>>, device |-> Nothing]
Void == [torn |-> FALSE, entries |-> <<>>]
Requests == Texts \cup {[form |-> "index", value |-> i] : i \in 0 .. MaxRecords + 1}

(* KnownServerInfo; last_connected is the place in `recorded`.             *)
Entry(host, target, at) == [host |-> host, target |-> target, at |-> at]
Entries == {Entry(h, t, n) : h \in Hosts, t \in Texts, n \in 1 .. MaxRecords}

ClientTypeOK ==
  /\ history.torn \in BOOLEAN /\ history.entries \in Seq(Entries)
  /\ identity \subseteq 0 .. MaxIds /\ Cardinality(identity) <= 1
  /\ step \in [Clients -> {"off", "id", "truncate id", "fill id", "select", "open",
                           "shake", "record", "fill"}]
  /\ raw \in [Clients -> Texts \cup {Nothing}]
  /\ \A c \in Clients : copy[c] \in Seq(Entries)
  /\ ident \in [Clients -> 0 .. MaxIds] /\ generated \in 0 .. MaxIds
  /\ recorded \in Seq(Entries) /\ used \subseteq 0 .. MaxIds
  /\ mixed \in BOOLEAN /\ twice \in BOOLEAN

ClientInit ==
  /\ history = Void /\ identity = {}
  /\ step = [c \in Clients |-> "off"]
  /\ raw = [c \in Clients |-> Nothing]
  /\ ident = [c \in Clients |-> 0]
  /\ choice = [c \in Clients |-> NoChoice]
  /\ copy = [c \in Clients |-> <<>>]
  /\ recorded = <<>> /\ generated = 0 /\ used = {}
  /\ mixed = FALSE /\ twice = FALSE

-----------------------------------------------------------------------------
(* Targets and the history of servers.                                     *)

(* TargetAddress::from_str: a bare IP address gets the default port.       *)
Valid(t) == t.form \in {"socket", "ip", "node"}
from_str(t) ==
  CASE t.form = "socket" -> [via |-> "udp", to |-> t.name, port |-> t.port]
    [] t.form = "ip" -> [via |-> "udp", to |-> t.name, port |-> DefaultPort]
    [] t.form = "node" -> [via |-> "iroh", to |-> t.name, port |-> 0]

(* with_path: what cannot be read or parsed is an empty history.           *)
with_path == IF history.torn THEN <<>> ELSE history.entries

(* Mutant: the last match is taken.                                        *)
find_last_by_hostname(servers, name) ==
  LET found == {i \in DOMAIN servers : Lower[servers[i].host] = Lower[name]}
  IN {servers[i].target : i \in {i \in found : \A j \in found : j <= i}}

(* The first match; a set that is empty if there is none.                  *)
find_by_hostname(servers, name) ==
  LET found == {i \in DOMAIN servers : Lower[servers[i].host] = Lower[name]}
  IN {servers[i].target : i \in {i \in found : \A j \in found : i <= j}}

get_by_index(servers, i) == {servers[j].target : j \in {i} \cap DOMAIN servers}

(* resolve_target: the texts a request may be resolved to.                 *)
Resolve(request) ==
  CASE request.form = "index" -> get_by_index(with_path, request.value)
    [] request.form = "name" -> find_by_hostname(with_path, request.name)
    [] OTHER -> {request}

(* Vec::retain: the elements of s at the places in K, in their order.      *)
retain(s, K) ==
  LET rank(k) == Cardinality({j \in K : j <= k})
  IN [n \in 1 .. Cardinality(K) |-> s[CHOOSE k \in K : rank(k) = n]]

Unlike(servers, host, target) ==
  {i \in DOMAIN servers : servers[i].target # target /\ servers[i].host # host}

(* Mutant: only the entry of this very target is replaced.                 *)
RecordTarget(servers, host, target, now) ==
  <<Entry(host, target, now)>>
    \o retain(servers, {i \in DOMAIN servers : servers[i].target # target})

(* Mutant: the entry is put at the end.                                    *)
RecordLast(servers, host, target, now) ==
  Append(retain(servers, Unlike(servers, host, target)), Entry(host, target, now))

record_connection(servers, host, target, now) ==
  <<Entry(host, target, now)>> \o retain(servers, Unlike(servers, host, target))

-----------------------------------------------------------------------------
(* The start of a client.                                                  *)

Go(c, next) == step' = [step EXCEPT ![c] = next]

(* The client ends or forwards, which is ForwardingClient's matter.         *)
Leave(c) ==
  /\ Go(c, "off")
  /\ raw' = [raw EXCEPT ![c] = Nothing]
  /\ ident' = [ident EXCEPT ![c] = 0]
  /\ choice' = [choice EXCEPT ![c] = NoChoice]
  /\ copy' = [copy EXCEPT ![c] = <<>>]

(* A request that cannot be resolved ends the process before it did a thing.*)
Start(c, request) ==
  /\ step[c] = "off"
  /\ \E t \in Resolve(request) :
       /\ Valid(t)
       /\ raw' = [raw EXCEPT ![c] = t]
  /\ Go(c, "id")
  /\ UNCHANGED <<files, ids, choice, copy, used>>

Creating(c) == step[c] \in {"truncate id", "fill id"}

(* Mutant: a file that is there is taken as it is.                         *)
ReadIdAnyway(c) ==
  /\ step[c] = "id"
  /\ IF identity # {}
     THEN /\ \E id \in identity : ident' = [ident EXCEPT ![c] = id]
          /\ Go(c, "select")
          /\ UNCHANGED <<generated, twice>>
     ELSE /\ generated < MaxIds
          /\ generated' = generated + 1
          /\ ident' = [ident EXCEPT ![c] = generated']
          /\ twice' = (twice \/ \E other \in Clients : Creating(other))
          /\ Go(c, "truncate id")
  /\ UNCHANGED <<files, identity, raw, choice, copy, used>>

(* load_or_create_client_id reads the file, or generates an id and saves it;*)
(* whether that succeeds is not looked at.                                 *)
ReadId(c) ==
  /\ step[c] = "id"
  /\ IF identity \notin {{}, {0}}
     THEN /\ \E id \in identity : ident' = [ident EXCEPT ![c] = id]
          /\ Go(c, "select")
          /\ UNCHANGED <<generated, twice>>
     ELSE /\ generated < MaxIds
          /\ generated' = generated + 1
          /\ ident' = [ident EXCEPT ![c] = generated']
          /\ twice' = (twice \/ \E other \in Clients : Creating(other))
          /\ Go(c, "truncate id")
  /\ UNCHANGED <<files, identity, raw, choice, copy, used>>

TruncateId(c) ==
  /\ step[c] = "truncate id"
  /\ identity' = {0}
  /\ Go(c, "fill id")
  /\ UNCHANGED <<files, ident, generated, twice, raw, choice, copy, used>>

(* Mutant: the file is opened to append.                                   *)
FillIdAppends(c) ==
  /\ step[c] = "fill id"
  /\ identity' = identity \cup {ident[c]}
  /\ Go(c, "select")
  /\ UNCHANGED <<files, ident, generated, twice, raw, choice, copy, used>>

FillId(c) ==
  /\ step[c] = "fill id"
  /\ identity' = {ident[c]}
  /\ Go(c, "select")
  /\ UNCHANGED <<files, ident, generated, twice, raw, choice, copy, used>>

SaveIdFails(c) ==
  /\ Creating(c)
  /\ twice' = TRUE
  /\ Go(c, "select")
  /\ UNCHANGED <<files, identity, ident, generated, raw, choice, copy, used>>

(* new: the node given by --device, or else that of the only device, or of *)
(* the one whose number is typed, or none yet.                             *)
Select(c, opt, present) ==
  LET list == list_devices_filtered(present, opt.filter) IN
  /\ step[c] = "select"
  /\ Go(c, "open")
  /\ \/ /\ opt.device # <<>> \/ list = <<>>
        /\ choice' = [choice EXCEPT ![c].opt = opt, ![c].path = opt.device]
     \/ /\ opt.device = <<>>
        /\ \E i \in DOMAIN list :
             choice' = [choice EXCEPT ![c] =
                          [opt |-> opt, path |-> list[i].path, device |-> list[i]]]
  /\ UNCHANGED <<files, ids, raw, copy, used>>

(* Mutant: what the client was started for is forgotten while it waits.    *)
try_open_any_device(c, present) ==
  LET list == list_devices_filtered(present, [keyboard |-> TRUE, mouse |-> TRUE, all |-> TRUE])
  IN IF choice[c].path # <<>> THEN {d \in present : d.path = choice[c].path}
     ELSE {list[i] : i \in {1} \cap DOMAIN list}

(* The device that is opened, if it is there: the one at the chosen path,  *)
(* or the first in the list of those that are there by then.               *)
try_open_initial_device(c, present) ==
  LET list == list_devices_filtered(present, choice[c].opt.filter)
  IN IF choice[c].path # <<>> THEN {d \in present : d.path = choice[c].path}
     ELSE {list[i] : i \in {1} \cap DOMAIN list}

(* try_open_initial_device, at any later time; the handshake announces the *)
(* id and whatever device is at the chosen path by then.                   *)
Open(c, present) ==
  /\ step[c] = "open"
  /\ \E d \in try_open_initial_device(c, present) :
       choice' = [choice EXCEPT ![c] = [NoChoice EXCEPT !.device = d]]
  /\ used' = used \cup {ident[c]}
  /\ ident' = [ident EXCEPT ![c] = 0]
  /\ Go(c, "shake")
  /\ UNCHANGED <<files, identity, generated, twice, raw, copy>>

-----------------------------------------------------------------------------
(* The answer of the server.                                               *)

Saving(c) == step[c] \in {"record", "fill"}

(* Approved: the history is loaded anew.  The device no longer matters.    *)
Load(c) ==
  /\ step[c] = "shake"
  /\ copy' = [copy EXCEPT ![c] = with_path]
  /\ mixed' = (mixed \/ \E other \in Clients : Saving(other))
  /\ choice' = [choice EXCEPT ![c] = NoChoice]
  /\ Go(c, "record")
  /\ UNCHANGED <<history, recorded, ids, raw, used>>

(* The new entry is stamped, and fs::write truncates the file.             *)
Record(c, host) ==
  /\ step[c] = "record"
  /\ Len(recorded) < MaxRecords
  /\ recorded' = Append(recorded, Entry(host, raw[c], Len(recorded) + 1))
  /\ copy' = [copy EXCEPT ![c] =
                record_connection(copy[c], host, raw[c], Len(recorded'))]
  /\ history' = Void
  /\ raw' = [raw EXCEPT ![c] = Nothing]
  /\ Go(c, "fill")
  /\ UNCHANGED <<mixed, ids, choice, used>>

(* Of a longer document that another client wrote meanwhile the rest stays. *)
Fill(c) ==
  /\ step[c] = "fill"
  /\ \/ history' = [torn |-> FALSE, entries |-> copy[c]]
     \/ history # Void /\ history' = [torn |-> TRUE, entries |-> <<>>]
  /\ Leave(c)
  /\ UNCHANGED <<recorded, mixed, shared, used>>

(* The file cannot be opened, or not be written: the client forwards anyway.*)
SaveFails(c) ==
  /\ Saving(c)
  /\ Leave(c)
  /\ mixed' = (mixed \/ step[c] = "fill")
  /\ UNCHANGED <<history, recorded, shared, used>>

(* Over Direct UDP a client that gets no answer forwards all the same.     *)
NoAnswer(c) ==
  /\ step[c] = "shake"
  /\ from_str(raw[c]).via = "udp"
  /\ Leave(c)
  /\ UNCHANGED <<files, shared, used>>

(* A bad selection, PendingApproval, Rejected, a broken connection, Ctrl+C. *)
End(c) ==
  /\ step[c] # "off"
  /\ Leave(c)
  /\ mixed' = (mixed \/ step[c] = "fill")
  /\ UNCHANGED <<history, recorded, shared, used>>

ClientStep(c) ==
  \/ \E r \in Requests : Start(c, r)
  \/ ReadId(c) \/ TruncateId(c) \/ FillId(c) \/ SaveIdFails(c)
  \/ \E present \in Presences : \/ \E opt \in OptionSets[c] : Select(c, opt, present)
                                \/ Open(c, present)
  \/ Load(c) \/ (\E h \in Hosts : Record(c, h)) \/ Fill(c)
  \/ SaveFails(c) \/ NoAnswer(c) \/ End(c)

ClientNext == \E c \in Clients : ClientStep(c)
ClientSpec == ClientInit /\ [][ClientNext]_clientVars

-----------------------------------------------------------------------------
(* In the file and in every copy of it the most recent connection is first,*)
(* and no server or address is listed twice, however clients overlap.      *)
HistoryOrdered ==
  \A s \in {with_path} \cup {copy[c] : c \in Clients} :
    \A i, j \in DOMAIN s : i < j =>
      s[i].at > s[j].at /\ s[i].host # s[j].host /\ s[i].target # s[j].target

(* The recorded connections that no later one replaced, last one first.    *)
Remembered ==
  LET kept(e) == \A i \in e.at + 1 .. Len(recorded) :
                   recorded[i].host # e.host /\ recorded[i].target # e.target
      reversed == [i \in DOMAIN recorded |-> recorded[Len(recorded) + 1 - i]]
  IN retain(reversed, {i \in DOMAIN reversed : kept(reversed[i])})

(* A connection is forgotten only for a later one to the same server or    *)
(* address: known_servers.json lists all others, unless clients saved at   *)
(* the same time or a save broke off (history.rs 68-93).                   *)
HistoryKept ==
  ~ mixed /\ (\A c \in Clients : step[c] # "fill") => with_path = Remembered

(* The address at which a server of that name, or number, was last reached.*)
LastReached(request) ==
  LET known == Remembered
      named == {i \in DOMAIN known : Lower[known[i].host] = Lower[request.name]}
  IN IF request.form = "index" THEN known[request.value].target
     ELSE known[CHOOSE i \in named : \A j \in named : known[j].at <= known[i].at].target

(* A client that is given the name or the number of a server connects to   *)
(* the address at which that server was last reached (client.rs 153-220).  *)
ResolvesLatest ==
  [][\A c \in Clients, r \in Requests :
       ~ mixed /\ r.form \in {"name", "index"} /\ Start(c, r)
         => raw'[c] = LastReached(r)]_clientVars

(* A user has one client id, whatever is killed on the way: approvals and  *)
(* session keys hang on it (client.rs 124-150).                            *)
OneIdentity == 0 \notin used /\ (~ twice => Cardinality(used) <= 1)

(* What a client without --device may use under the options opt.           *)
Eligible(d, opt) ==
  \/ opt.all
  \/ d.kind = "controller"
  \/ d.kind = "keyboard" /\ opt.keyboard
  \/ d.kind = "mouse" /\ opt.mouse

(* What a device reports tells what it is, noise apart.                    *)
ToldByCodes ==
  \A s \in Presences : \A d \in s : ~ is_noise_device(d.name) =>
    /\ classify_device(d) \in {"Gamepad", "Joystick"} => d.kind = "controller"
    /\ classify_device(d) = "Keyboard" => d.kind = "keyboard"
    /\ classify_device(d) = "Mouse" => d.kind = "mouse"

(* Without --device a client takes a controller, or what its options ask   *)
(* for, and never the phantom nodes and sensors a pad or a desktop brings  *)
(* along, when it chooses at once and when there is nothing to choose at   *)
(* first and it waits for a device (device.rs 48-148, client.rs 223-321).  *)
PicksEligible ==
  [][\A c \in Clients :
       choice[c].path = <<>> /\ choice[c].device = Nothing /\ choice'[c].device # Nothing
         => LET opt == IF step[c] = "select" THEN choice'[c].opt ELSE choice[c].opt
            IN Eligible(choice'[c].device, opt.filter)]_clientVars

(* A device that reports relative axes has some.                           *)
Furnished == \A s \in Presences : \A d \in s : "REL" \in d.types => d.rel # {}

(* The virtual device the server makes of an announced controller is       *)
(* listed there as the controller was here: as the same type and under the *)
(* same options (CHANGELOG 0.4.2, device.rs 221-283).                      *)
MirrorListedAlike ==
  \A c \in Clients : step[c] = "shake" =>
    LET d == choice[c].device
        v == new_with_name(extract_metadata(d), ClientHost, d.path)
    IN /\ classify_device(v) = classify_device(d)
       /\ \A opt \in Options : Passes(v, opt) = Passes(d, opt)
=============================================================================
