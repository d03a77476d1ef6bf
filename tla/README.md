# Joycast in TLA+

Joycast forwards a game controller from a client machine to a server machine,
which plays the events on a virtual `uinput` device. This directory models the
program in `src/src/*.rs`: TLA+ modules translated from the source, TLC
configurations that check them on small instances, and theorems about them
checked by TLAPS for every value of the constants. `PROJECT.json` lists the
components, runs, mutants, hazards, findings and theorems, and maps each
definition to the lines it models.

    tlc -workers 2 -config Client.cfg MCForwardingClient     # a run
    tlapm ForwardingClientProofs.tla                         # a module's proofs

## 1. Inventory

| Component | Source | Model |
|---|---|---|
| Trust store | `trust.rs`, commands in `main.rs` | `TrustStore`, `TrustRegistry` |
| Session server | `server.rs` | `SessionServer`, `DirectUdp` |
| Client | `client.rs` | `ForwardingClient`, `EventRelay`, `ClientStart`, `DirectUdp` |
| Connection history | `history.rs` | `ClientStart` |
| Target address | `transport.rs` | `ClientStart` |
| Node identity, file locations | `server.rs`, `trust.rs`, `client.rs`, `history.rs` | `DaemonStart`, `ClientStart` |
| Service manager | `service.rs` | `DaemonStart` |
| Input devices | `device.rs` | partly: `DeviceScanner`; a device that cannot be created in `SessionServer` |
| Wire protocol | `protocol.rs` | partly: its messages are values of the models |
| Command line | `main.rs` | partly: starting servers and clients, `approve`, `revoke`, `service` |
| Vendored `noq-udp` | `patches/noq-udp` | none: a third-party socket layer |

**Trust store.** *State*: one JSON file with the approved and the pending
clients, and a copy of it in each process behind a mutex. *Operations*:
`reload`, `save`, `is_approved`, `register_pending`, `approve`, `revoke`, and two
listings. *Interactions*: the daemon's tasks call it for every handshake; each
`joycast server ...` command is a process of its own. The file is all they
share, and there is no file lock. *Hard*: the file is read outside the mutex;
`fs::write` truncates before it writes; every save rewrites the whole store;
results of saves are dropped; processes die between steps. *Correct when*: no
client is trusted unless an administrator said so, none is both approved and
pending, and decisions last and are seen.

**Session server.** *State*: the table of sessions (`<client_id>:<device>` to
virtual device, host and last activity) behind one tokio mutex, the UDP loop's
private table from addresses to session keys, and one stream per Iroh client.
*Operations*: handshake, events, ping and hang-up over both transports, and
reaping. *Interactions*: it calls the trust store and uinput; the mutex is
held while a device is created *and while the handshake is answered*. *Hard*:
all UDP clients share one task with everybody's mutex in its way; sessions
outlive connections; approval, creation and the answer are separate steps, each
of which may fail. *Correct when*: devices exist and are fed only for trusted
clients, stay across reconnects, have distinct names, are removed when unused,
and nobody waits for ever.

**Client.** *State*: where it is in its life (waiting for a controller, for a
Pong, for the answer; forwarding), the node it prefers, the identity it
announced, the open event stream. *Operations*: the retry timer, keepalive,
handshake, forwarding, loss and return of the controller. *Interactions*: the
server over datagrams or over a stream, and udev, which renames nodes. *Hard*:
lost and reordered datagrams, an answer that never comes, Pongs in the place of
answers, controllers of the same model, a controller that returns elsewhere, a
server that loses the session. *Correct when*: it never stays in the handshake,
forwards only what it announced, keeps the order, and resumes.

**Connection history.** *State*: a JSON list of servers, the last one connected
to first. *Operations*: load, record, save, look-ups by number and by name.
*Interactions*: every client loads it to resolve its target and loads it anew
to record an approval. *Hard*: clients that run at once overwrite each other,
`fs::write` truncates before it writes, a torn file is an empty history, names
are matched without case but replaced with it. *Correct when*: the order is that
of the connections, nothing is listed twice, and a name means where the server
was last reached.

**Node identity and file locations.** *State*: `server.key`, `client_id`, and the
place of `trusted_clients.json`. *Operations*: load or create; the choice
between `/etc/joycast` and the home directory by environment variables and by
what exists. *Hard*: first starts at once, kills in the middle of a write, files
that may not be written, and several contexts (a shell, `sudo`, a system unit, a
user unit) that should agree. *Correct when*: identities stay, and an
administrator's commands see the server's requests.

**Input devices and target addresses.** Pure functions: `is_noise_device`,
`classify_device`, the filters and the order of the list, the metadata of a
controller and the virtual device made of it; the forms of a target. *Correct
when*: phantom nodes are never chosen and a mirror is what its controller was.

**Service manager.** *State*: two unit files, enabled and active. *Operations*:
install, start, stop, restart, uninstall; systemd restarts what fails. *Correct
when*: a started service comes back after any crash.

The hazards of each, at their lines, are in `PROJECT.json` with the properties
that watch them, or the reason why none does.

## 2. Plan

| Step | Modules | State |
|---|---|---|
| A | `TrustRegistry` (abstract), `TrustStore`, `MCTrustStore`, `TrustStoreProofs` | done |
| B | `SessionServer`, `MCSessionServer`, `SessionServerProofs` | done |
| C | `EventRelay` (abstract), `ForwardingClient`, `MCForwardingClient`, `ForwardingClientProofs` | done |
| D | `DirectUdp`: `SessionServer` composed with Direct UDP clients and a network that loses and reorders, both sides restarting | done |
| E | `DeviceScanner`, `ClientStart`: devices, targets, history, client id | done |
| F | `DaemonStart`, `Machine`, `MCMachine`: key and trust files, contexts, units; both kinds of process | done |
| G | `DaemonStartProofs`: `NodeIdStatic`; `DirectUdpProofs`: `ServedWhileAlive` | done |
| H | `TrustSerialProofs`: serial executions and `TrustRegistry`; `ClientStartProofs`, `MachineProofs`: the clients' files, ids and devices; `DaemonStartProofs`: requests visible; `DirectUdpProofs`: the server among real clients | done |
| I | the frame reader of `client.rs` 707 | dropped: the read is one pinned future that is never dropped, and a model of that could only restate it |

D composes B with clients of its own; `SessionServer` already uses the trust store
through its abstract specification. `ForwardingClient` has a server of its own, and
that one is not shown to be an abstraction of `SessionServer`: this refinement is
what is left to prove.

## 3. Modules

### TrustStore and TrustRegistry

A *thread* is a task of the daemon (`Tasks`) or a command (`Admins`). The tasks
share `mem[Daemon]`; every command has `mem[a]`. An operation is the sequence
the code runs, one step per point where others can interfere:

| Step (`pc`) | Code |
|---|---|
| `Handshake`, `Command` | a handshake calls `is_approved`; a command calls `TrustManager::new` |
| `ReadFile` | `fs::read_to_string` in `reload`, without the mutex |
| `Install` | `*inner = data`, with the mutex |
| `IsApproved`, `RegisterPending`, `Approve`, `Revoke`, `NoMatch` | the operation on the copy; the mutex is held from here to the end of the save |
| `Truncate`, `Fill` | `fs::write`; a document that is shorter than what another writer left is `"torn"` |
| `SaveFails`, `KillCommand`, `RestartDaemon` | failures |

A prefix is a member of `Prefixes` with the set of ids it fits (`StartsWith`).
The clock stamps `first_seen` only. `verdict` and `job[t].due` are history: the
last decision on a client that was reported, and whether a handshake began
after an approval was reported.

`TrustRegistry` is what the operations promise when they do not overlap: two
sets that change atomically, and answers taken from them.

### SessionServer

Threads are `UdpTask`, `Reaper` and one per Iroh connection. `queue` is the
tokio mutex with its FIFO of waiters; its head holds it. A handshake is admitted
(`is_approved`), then either registered and told PendingApproval (`UdpPend`,
`ConnPend`), or it waits for the mutex, finds or creates its session (`Serve`,
which may fail), and is answered with the mutex held (`UdpReply`, `ConnReply`).
Events and pings touch the session (`UdpTouch`, `ConnTouch`); a handler whose
session is gone hangs up, while a UDP address keeps its dangling route. The
trust store is its abstraction here: two atomic calls with other threads' steps
in between. Times are ticks of inactivity; 15 minutes are `IdleLimit` ticks. A
device name is its host and number. `acks`, `trusted` and `reaped` are history.
Pongs are left out: no lock is held while one is written, and a failed write
ends the handler as a failed read does. Event values are left out. Initially any
set of clients is approved, as earlier daemons may have left it.

### ForwardingClient and EventRelay

One client run over either transport, with the world around it: controllers
plugged in and out at any node, two channels (datagrams that are lost and
reordered, or a stream that breaks) and the server as one client sees it: it
answers pings, grants or refuses, plays events while it has the device, and may
lose the device or restart. `phase` is the point in `run_udp_client` or
`run_iroh_client`; `source` and `stream` are the open `EventStream`. Events are
numbered. `first` and `granted` are history. What the two transports do
differently is explicit: only Iroh waits for each Pong, only UDP goes on after
four seconds without an answer.

`EventRelay` is what the client and the server promise together: no event
before the grant, then each at most once and in the order of production.

### DirectUdp

`SessionServer` (by `INSTANCE`, without Iroh connections) with the loop of
`run_udp_client`. An address is one run of a client: a socket bound to a port of
its own. `net` is the set of datagrams under way, from which any may be lost and
any may be read next; `Receive` takes one and is the server's `UdpHandshake` or
`UdpMessage`; `Serve`, `Reply`, `Touch` are its further steps. `phase` is the
point in the client: before the handshake, waiting for the answer, forwarding,
forwarding without a controller, exited. A tick is several minutes: every
running client has sent its Pings by then (one stands for all of a tick), and
no datagram is that slow. `granted` says who has read Approved; `settled` and
`cut` are history: events that were played or lost, and clients that a restart
or the loss of a whole tick's Pings has cut off. Left out, because nothing
changes by them: Pings before the handshake, Pongs, answers nobody waits for.

### DeviceScanner, ClientStart, DaemonStart, Machine

`DeviceScanner` has the pure functions of `device.rs` on records with a path, a
name (the set of phrases in it), event types and codes. Devices are classified, filtered,
and sorted by path as text: the device at place n of the list is the one that
all but n do not precede. `ClientStart!retain` is `Vec::retain`, likewise by the
rank of each place that is kept. Both are written without the recursive operators
of the libraries, so that the prover can reason about them; they are what
`SetToSortSeq` and `SelectSeq` would give.

`ClientStart` is several clients of one user. A client resolves its request
(`Start`), reads or makes the client id (`ReadId`, `TruncateId`, `FillId`), chooses
a device (`Select`), opens it at any later time, or the first that fits if none
was there to choose (`Open`, `try_open_initial_device`), and when it is approved
loads the history, records the connection and saves it (`Load`, `Record`, `Fill`).
`fs::write` is two steps, each of which may fail and between which others act.
`recorded`, `used`, `mixed` and `twice` are history.

`DaemonStart` is the servers of one machine. `Launch` chooses the place of the
trust store, `Bind` takes the port, `LoadKey`, `TruncateKey`, `FillKey` and
`SaveKeyFails` are `load_or_create_secret_key`, `Register` answers an unknown
client. `announced` is history: the Node IDs each context's server came up with. `Install`, `StartUnit`, `StopUnit`, `RestartUnit`, `Uninstall` are the
service commands with the effect of `systemctl`; `SystemdLaunch` is `ExecStart` and
`Restart=on-failure`. Which variables systemd and `sudo` set, and who may write to
`/etc/joycast`, is in `is_root_context` and `MayWrite`.

`Machine` joins the two. Clients and servers share no file, so a machine is
looked at either without servers or without clients.

## 4. Runs

| Run | Question | Bounds |
|---|---|---|
| `trust_overlap` | Do overlapping operations, failing saves, killed commands and restarts ever make the data inconsistent, or grant trust nobody gave? No. | 1 client, 2 tasks, 1 command at a time, 2 stamps: two tasks share a copy and a command overwrites the file. The properties speak of one client each. |
| `trust_serial` | Without overlap, is reload - apply - save the atomic registry? Yes. | 2 clients, 2 tasks, 1 command; two clients because an entry is lost only to another client's save |
| `revoke_lost` | Does a reported revocation stay? No (finding). | 2 clients, 1 task, no failures |
| `approve_not_reflected` | Is a reported approval seen by the next handshake? No (finding). | 1 client, 1 task, no failures |
| `session_safety` | Are only trusted clients served, routes current, names distinct, devices kept, under any interleaving? Yes. | 2 clients on hosts of the same name, a replaced controller, the UDP loop with 1 address, 1 Iroh handler, limit 2 |
| `session_liveness` | Does everyone get the session table in turn? Yes. | 1 handshake, 3 handlers and the reaper compete, limit 1 |
| `session_mirror` | Has a session's device the capabilities announced? Not always (finding). | 1 client with two controllers, 1 handler |
| `client` | Is the client right on both transports? Yes. | 2 controllers of different models, 2 nodes, 2 events, 2 messages per channel: enough to swap nodes, to reorder, and to leave a Pong before an answer |
| `direct_udp` | Does an authorized Direct UDP client keep its session and get its events played, and is its device removed when it is gone? Yes. | 2 runs of a client with one controller, the second after the first, 1 event each, limit 2: late datagrams of one run meet the session of the next, and missing Pings let it expire |
| `machine` | Do clients and servers that start, are killed and restart find their files and devices right? Yes. | 2 clients, 2 recorded connections, 2 ids, server names that differ in case, 7 devices among which pads, phantom nodes and a mouse; machines with a user's server and `sudo`, `sudo` and a system unit, or a user's server and a system unit, 2 keys: one for each home a key may have |
| `user_service_unreachable` | Can every request a server has answered be approved? Not with a user unit (finding). | a user's shell and a user unit |
| `client_twins` | Is it the same physical device that is forwarded? Not with two alike (finding). | 2 controllers of one model |

What the properties say:

- `ApprovedNotPending`, `OnlyAdminsApprove`, `SavesItsRequest`: about *every*
  copy of the data (the file, each process, and what a thread has read and not
  installed), so also about what a later save will write.
- `RevokeSticks`, `ApproveSticks`, `ApproveReflected`, `ImplementsRegistry`: hold
  when operations do not overlap. The two findings are the first and the third
  of them under overlap.
- `RoutesFollowAcks`: a UDP address feeds a device only on its last answer.
- `OnlyTrustedServed`: approval is checked before the wait for the mutex, so
  the property is that the client was approved at some time.
- `NamesDistinct`, `OpenHasDevice`: hold until a first session is reaped. After
  that the number of a device, a count, may be in use already, and a handler
  may lose its session; the code accepts both.
- `DevicesStay`: a device goes by restart or by reaping only.
- `UdpLoopReturns`, `ConnAnswered`, `IdleReaped`: liveness of the mutex.
- `ServedWhileAlive`, `Delivered`: of a client that has read Approved and that
  neither a server restart nor the loss of a tick's Pings has cut off. Without
  these exceptions they fail, because a client shakes hands once and is never
  told that its route is gone.
- `AbandonedReaped`: whatever is still under way when the last client exits.
- `HistoryOrdered`: of the file and every copy. `HistoryKept`, `ResolvesLatest`:
  until two saves overlap or one breaks off; then entries may be lost.
- `OneIdentity`: an empty id is never announced, and there is one id unless two
  first starts raced or an id could not be saved.
- `PicksEligible`, `MirrorListedAlike`: of the devices of the instance; the
  `kind` of a device is what it really is. `PicksEligible` is a property of the
  steps that take a device, both the choice in `new` and the one that is made at
  the open when the client had to wait for a device. One client chooses under
  each of three options, the other gives a path.
- `NodeIdStatic`: while every key could be saved, a system unit keeps its Node ID,
  and all servers of a machine have one, unless the machine has a system unit
  beside a server of its user. On such a machine (`TwoHomes`) each makes a key of
  its own, at home and in `/etc/joycast`, and as every server tries the one in
  `/etc` first, the user's server changes its Node ID when it is started again,
  though every key was saved and its own is still there: less than what
  `server.rs` 70 says ("so the Node ID remains static across restarts").
- `RequestsVisible`: unless a store in `/etc` appeared after the server had chosen
  the one at home.
- `ServiceComesBack`: once interruptions cease, unless it is stopped or another
  server has the port.
- `PongsInStep`, `ForwardsAnnouncedModel`, `RelaysEvents`, `Resumes`,
  `HandshakeEnds`: the client.

Deadlock is checked in every run. Every property of a passing run has a mutant
in `PROJECT.json`, a plausible bug under which the run fails. Some mutants are
of the kind that drops one line: the route that a handshake does not clear
(`UdpHandshakeKeepsRoute`), a guard that lives too long (`UdpReplyKeepsLock`), an
answer taken for granted (`AcknowledgeAny`). They are operators beside the
definition they replace, marked "Mutant", and used by no specification.

### Fairness

`TrustStore` has none: its properties are safety. `SessionServer!FairSpec` has
weak fairness of every task's own steps: tokio polls every task that is ready,
its mutex serves waiters in order, a write to an Iroh stream ends when the peer
reads, hangs up or times out, and the reaper's sleep ends. Clients, commands,
time and restarts are not fair. `ForwardingClient!FairSpec` has weak fairness
of the server's loop, of reading an answer, of the UDP timer and of noticing a
broken stream, each a branch of a `select!` or a read that is always pending
there; of the end of the controller's stream; and of reopening, because the
retry timer keeps ticking and a node that is there does not fail to open for
ever. `DirectUdp!FairSpec` has weak fairness of the UDP loop, of the reaper and of
time. Strong fairness is not needed: Pings of one tick are one datagram, and
time passes only when none is under way, so the loop is never kept busy by one
client for ever. `Machine!FairSpec` has weak fairness of the steps of a server's
start and of systemd's launching. Controllers, the network and the server's decisions are not fair:
`Resumes` holds while a fitting controller is there, and `HandshakeEnds` also if
the handshake or its answer is lost or the server hangs up.

## 5. Findings

1. **A reported revocation is undone** (`revoke_lost`). `register_pending` writes
   back what it reloaded; a revocation saved in between disappears.
2. **A reported approval is not reflected** (`approve_not_reflected`). By the
   same overwriting, or because an older read is installed over a newer one.
3. **A device that does not mirror its controller** (`session_mirror`). A session
   is found by client and device path and reused without comparing metadata.
4. **A daemon whose requests nobody can approve** (`user_service_unreachable`).
   `is_root_context` takes a user unit for root's, because systemd sets
   `JOURNAL_STREAM` for both; its store is in `/etc/joycast`, its user's commands
   read the one at home.
5. **The wrong one of two alike** (`client_twins`). A returning controller is
   recognised by name and ids; "the same physical device" is not.

## 6. Proofs

| Module | Theorem | States |
|---|---|---|
| `TrustStoreProofs` | `TypeCorrect`, `NeverBoth`, `NoSelfApproval`, `RequestSaved` | `TypeOK`, `ApprovedNotPending`, `OnlyAdminsApprove`, `SavesItsRequest` |
| `TrustSerialProofs` | `SerialRevoke`, `SerialApprove`, `SerialReflected`, `SerialImplements` | `RevokeSticks`, `ApproveSticks`, `ApproveReflected`, `ImplementsRegistry`, each of `SerialSpec` |
| `SessionServerProofs` | `TypeCorrect`, `DevicesPersist`, `NoStrangers`, `RoutesGranted`, `NamesUnique`, `ServedHasDevice` | `TypeOK`, `DevicesStay`, `OnlyTrustedServed`, `RoutesFollowAcks`, `NamesDistinct`, `OpenHasDevice` |
| `ForwardingClientProofs` | `TypeCorrect`, `AnnouncedOnly`, `AnswerReadFirst`, `EventsRelayed` | `TypeOK`, `ForwardsAnnouncedModel`, `PongsInStep`, `RelaysEvents` |
| `DirectUdpProofs` | `TypeCorrect`, `ServedAlways` | `TypeOK`, `ServedWhileAlive` |
| | `ServerRefined`, `ServerSafe` | `Server!Spec`, and the server's `RoutesFollowAcks`, `OnlyTrustedServed`, `NamesDistinct`, `DevicesStay` |
| `ClientStartProofs` | `ClientTypeCorrect`, `SameIdentity`, `ListsAreOrdered`, `ConnectionsKept`, `LatestResolved` | `ClientTypeOK`, `OneIdentity`, `HistoryOrdered`, `HistoryKept`, `ResolvesLatest` |
| | `PicksWhatIsAskedFor`, `MirrorsAlike` | `PicksEligible`, `MirrorListedAlike`, each under a hypothesis about the devices |
| `DaemonStartProofs` | `DaemonTypeCorrect`, `OneNodeId`, `SavedRequestsVisible` | `DaemonTypeOK`, `NodeIdStatic`, `RequestsVisible` |
| `MachineProofs` | `SideBySide`, `MachineTypeCorrect`, `MachineSafe` | `ClientSpec` and `DaemonSpec`, `TypeOK`, what was proved of clients and servers without a hypothesis |

All of them are for any sets of clients, tasks, commands, addresses,
connections, nodes and controllers and any bounds, from the modules' `ASSUME`s
only: processes and threads are distinct, the "nothing" values are not in the
sets they complete, a session key belongs to one client, and there are finitely
many payloads (devices are counted), and as many devices at a time, at nodes of
distinct numbers. `DirectUdp` assumes of its constants what
`SessionServer` does, and an idle limit of more than one tick. Two theorems have
a hypothesis of their own.
`PicksWhatIsAskedFor`: `ToldByCodes`, a device without a noise phrase in its name
is of the kind its codes show (the code has nothing else to go by, so what is
proved is that the filters, the order and the choice respect it). `MirrorsAlike`:
`Furnished`, a device that reports relative axes has some. TLC evaluates
both on the devices of `MCMachine`.

*Trust store.* A thread works on copies that others made long ago, so each
invariant is stated of every copy at once: then a step only moves a copy or
changes one entry of it. `OnlyAdminsApprove` needs that a client is told
Approved from the copy it was found in; `SavesItsRequest` needs that at most
one task of the daemon is between `apply` and the end of its save.

*Serial trust store.* `SerialSpec` lets one thread work at a time, and nothing
fails, because with failures or overlap the properties do not hold (findings 1 and
2). `SerialInv` adds to `TypeOK` where the store is: in the file, or, while that is
empty between truncation and writing, in the copy that is being written
(`FileInv`); that an operation is applied to what the file holds (`FreshInv`); and
what a task or a command knows of the client it works for (`TaskInv`, `AdminInv`).
Then `Current` changes in one step of an operation, the one that applies it, and
that step is one of `TrustRegistry`; reading, installing, truncating and writing
are stutters, and so are answers that `TrustRegistry` gives with the operation.

*Session server.* `TypeOK` is not inductive: `TypeInv` adds `Control` (which
places a task may be in, that it then has a payload and the UDP loop a peer)
and `Locked` (a task that is creating a device's answer is the head of the
queue, so it is the only one). On it rest `DevicesStay`; `OnlyTrustedServed`,
strengthened by the same for the UDP loop (`TrustInv`); `RoutesFollowAcks`, for
which the payload the loop is serving must be the one its peer's history
holds (`RouteInv`); and `OpenHasDevice`. `NamesDistinct` needs `Numbered`: as long
as nothing was reaped, no number on a host exceeds the number of its devices,
and a further one gets n + 1 of n.

*Client.* `TypeOK` is inductive. `PongsInStep` follows from `StepInv`: over Iroh there is at most one message
under way while the client awaits a Pong or an answer, and none between. For the refinement `Spec => RelaysEvents`: no event is
sent before the grant (`GrantInv`: who forwards, or has an approval to read, has
been granted a device), and while the stream is up it holds exactly the events
that were sent and not played, in order, among pings (`OrderInv`). So the first
event in the stream is the next one to be played, and a session that is lost
closes the stream before it could skip one.

*Direct UDP.* `ServedWhileAlive` is far from inductive. `Once`: a client shakes
hands once, so while its handshake is under way or being served there is no
answer to it and it has not been granted anything, and at most one answer ever
is; therefore no late handshake drops its route. `Kept`: the session of a granted
client is at most one tick old, and not even that once its Ping of this tick has
been dealt with; so time cannot pass twice without a touch, and the reaper never
finds it expired. An approval under way carries a session that is new, because
time does not pass while a client awaits its answer. `Control` ties the datagram
that is served to the place of the UDP task. `TypeOK` adds `Rest`, the types of the
clients. `ServerRefined` is step by step: a step of a client or of the network
leaves the server's variables alone or is one of `SessionServer`'s inputs. So the
theorems of `SessionServerProofs`, instantiated with no Iroh connections, hold among
these clients (`ServerSafe`).

*History.* A list is fixed by its elements once it is known to be ordered
by the time of connection (`SameList`), so nothing has to be computed by
induction over lists: `OrderInv` says it of the file and of every copy, and
`RecordRemembered` compares elements, those of the list after
`record_connection` with the connections that no later one replaced. `KeptInv`
carries it through the load, the record and the two steps of a save by a client
that is alone. `ResolvesLatest` is a property of steps and follows from `KeptInv`
in the state before. *Client id.* `IdInv`: an id that was announced is in the file,
or in the hands of the one client that is writing it. *Devices.* `DeviceInv`: a client
has nothing chosen before it selects, and what it announces was present. Then a
device is taken by `Select` or `Open` only (`PickStep`), from a list that was
filtered under the client's own options; the rest is about the operators (`ListProperties`: the sorted list has exactly the devices
that pass; `RankProperties`, by finite cardinality).

*Machine.* Its steps are steps of its clients that leave the servers alone, or the
other way round, so `Spec` implies both specifications.

*Node identity.* `OneNodeId` rests on `Alone` (the port admits one server at a
time to the key file), on `Static` and on `Fresh`. `Static` has two parts: without
`TwoHomes` the announced key is the one every server of the machine loads
(`OneId`), and the key the system unit announced is in `/etc` (`SystemId`). `Fresh`:
a server that is writing a key found none, so nothing has been announced yet that
the key would contradict, or a key could not be saved.
`SavedRequestsVisible` needs `Shown`: a running server has chosen a place, at home
only if it is its user's, and a request that is saved is in the store there.

TLC has checked all these strengthenings as invariants on the runs' instances.

Only model-checked: liveness (`UdpLoopReturns`, `ConnAnswered`, `IdleReaped`,
`Resumes`, `HandshakeEnds`, `Delivered`, `AbandonedReaped`, `ServiceComesBack`),
because the prover reasons about neither fairness nor ENABLED. Every invariant and
every action property that a passing run checks is also proved. The prover cannot
do induction over data either; no proof needs it, as the models define nothing by
recursion and the arguments about lists go by their elements.

## 7. Not modelled

- Encoding (postcard, JSON), wording, logs, printing: no property is about them.
- Cryptography and the inside of QUIC: an Iroh stream is a reliable FIFO that
  may break.
- The values of events, and so buttons that stay held when a release is lost or
  a controller disappears: the code does nothing about either and no document
  promises anything, so there is nothing to check.
- The frame reader: a frame is one message (step I).
- In `DirectUdp`: the reuse of an address, duplicated datagrams, two runs with one
  controller at the same time, and Pongs.
- `--secret-key` and `--key-file` (a key that is parsed), `--no-udp` and `--no-iroh`
  (steps that are skipped), root's own configuration directory (nothing writes
  to it), `find_first_gamepad` (no caller).
- A host name with a noise phrase in it, which hides its mirrors (`HostAssumption`).
- `noq-udp`, vendored and third-party.
- uinput and evdev: a device is created or not, a stream is open, dead or none.
- Invalid datagrams, which the UDP loop skips and which change nothing.
