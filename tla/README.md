# A TLA+ development of Drop

Drop is a desktop application that sends files from one device to another on a
local network: a Rust backend in a Tauri shell (`src-tauri/src`), a React
interface (`src`). A device discovers others, connects over TCP inside a Noise
channel, asks its user whom to trust and what to accept, and moves one batch of
files at a time. This directory holds specifications of that program, the
configurations TLC checks them with and the theorems TLAPS proves about them.

## The system

| Component | State it keeps | Operations | Talks to |
| --- | --- | --- | --- |
| Sender task (`transfer.rs`: `run_outgoing_with_events`, `send_files`, `monitor_remote`) | its phase, the file and frame it is at, what the monitor queued | hash, connect, request, await decision, stream, await result, cancel | the receiver by frames, `AppState` by locks, the interface by events |
| Receiver task (`handle_incoming`, `receive_incoming`, `receive_files`) | its phase, the file it is at, staged and finalized names | read request, ask the user, receive and verify, finalize, acknowledge, roll back | the sender, the destination folder, `AppState`, the interface |
| Lifecycle (`models.rs` `TransferPhase`, `transfer_events.rs` `TransferTracker`) | one phase per task | `transition`, `finish_error`, `progress` | the interface |
| Destination folder (`transfer_files.rs`, `platform.rs`) | `.part` files and final names | stage, finalize without overwriting, clean up, roll back | the filesystem |
| Admission (`models.rs` `AppState`) | the transfer slot, cancellation tokens, pending requests and trust prompts, connection permits, activity guards, the installation flag, the shutdown token | `try_begin_transfer`, `finish_transfer`, `cancel_transfer`, `resolve_*`, `try_begin_connection_activity`, `try_begin_updater_install`, `shutdown` | every task and command |
| Trust and remembered devices, settings (`models.rs`) | up to 64 devices, trusted or not, with endpoints; preferences; the settings file | `trust_peer`, `forget_trusted_device`, `remember_peer`, `update_preferences`, `persist` | tasks, discovery, commands, the disk |
| Peer registry and routing (`peer.rs`, `routing.rs`) | observations per source, reconciled endpoints with reachability | apply and remove observations, record route success and failure, expire | discovery, route race |
| Route race (`connect_to_peer`) | running attempts | staggered launch, first success wins, deadline | the registry, the sender |
| Discovery (`discovery.rs`) | per worker: candidates and when they were seen | mDNS, UDP fallback, Tailscale, remembered probes | the registry, activity guards |
| Manual connection (`lib.rs`, `connect_by_address`) | a source named after the endpoint the user typed | resolve, connect, report, remember, emit | the registry, activity guards, the trust store; its parts only, see below |
| Secure channel, protocol (`secure.rs`, `protocol.rs`) | cipher counters, partial frames | handshake, fragment, reassemble, encode, validate | both tasks |
| Updater (`updater-core.ts`, `updater.ts`) | candidate, downloaded flag, running operation | check, download, install, relaunch | the installation gate |
| Interface (`main.tsx`, `presentation.ts`) | active transfer, queue of batches, prompts | queue, start next, accept updates | commands and events |
| Identity, diagnostics, the rest of the platform glue, scripts | the key file; log lines | load or create a key; append and export | the disk; not modelled, see below |

What is hard in it: two processes and a network that fail independently; a
select over answers, timers, tokens and frames at every wait; a commit that
spans two devices with a single, unacknowledged acknowledgement; finalization
of a batch file by file with a rollback that can itself fail; a dozen pieces of
shared state, each behind its own lock, that commands, handlers, the updater
and shutdown change in any order.

What makes each part correct:

* **Transfer.** The sender reports success only for a batch the receiver keeps;
  the receiver publishes nothing before the whole batch is verified and its user
  agreed, and publishes all or nothing; each side's user sees the outcome that
  happened, with the right one to blame; both tasks end.
* **Admission.** One transfer at a time; no update installs under a session;
  every wait for a user can be answered, once; nothing outlives its task;
  shutdown drains.
* **Trust store.** Trust is granted and withdrawn by the user only; a decision
  that nothing overlapped lasts, whatever overlaps, fails or restarts afterwards:
  trust and the receive folder until they are decided about again, a withdrawal
  until trust is granted again.
* **Peer registry.** The list is what the sources vouch for now; an endpoint is
  reachable only if it was reached; a bound key stands while its device is
  listed; a late report changes nothing but what a reconciliation changes; a
  source takes back only what is its own.
* **Discovery.** Who answered is reported; a source that no longer answers is
  taken back, by the worker that reported it; the interface shows the current
  list.
* **Route race.** A working route wins, only the right device wins, and a route
  is not blamed for losing.
* **Secure channel.** What is delivered is a prefix of the frames that were
  sent, whatever the network does and wherever a read or write is given up.
* **Destination names.** Files of others are never touched; a completed batch
  is whole, a failed one is gone.
* **Updater.** It installs alone, installs what it offered, and gives the gate
  back on every path on which the backend takes it back.
* **Interface.** A queued batch is sent once or stays queued; a queue is never
  left without the panel it is started from.
* **Tokens.** No cancellation is lost on a waiter.

## Modules

| Module | What it is |
| --- | --- |
| `Handover` | The contract of a transfer without any protocol: agree, offer, place files, keep or drop the batch, complete or stop. |
| `Session` | One transfer: sender task and monitor, receiver task, the connection, the disk, users, crashes. Implements `Handover`. |
| `SessionProofs` | Every safety property of `Session` and the implementation of `Handover`, for any batch. |
| `Admission` | `AppState` as the point where tasks meet: every task reduced to the critical sections it enters. |
| `AdmissionProofs` | Theorems about `Admission` for any number of tasks. |
| `CancelToken` | `Cancellation`: the flag and the notification, one memory access at a time. |
| `TrustStore` | Remembered devices, trust, the receive folder and the settings file: memory, snapshots, saves, restarts. |
| `TrustStoreProofs` | Who may come to be trusted, and what of the user's decisions lasts. |
| `PeerDirectory` | What the registry promises: the list recomputed from all claims. |
| `PeerRegistry` | Observations per source and the list reconciled from them step by step. Implements `PeerDirectory`. |
| `Discovery` | Extends `PeerRegistry` by the workers that feed it: probing cycles, the mDNS session, what the interface was told. |
| `DiscoveryProofs` | Theorems about `PeerRegistry`; every behaviour of `Discovery` is one of it; what the workers vouch for and the interface shows is true. |
| `RouteRace` | `connect_to_peer`: staggered attempts over the ranked routes against timers and cancellation. |
| `RouteRaceProofs` | The properties of a race, for any number of routes and any times. |
| `SecureFraming` | Frames cut into encrypted records and put together again over a faulty network. |
| `SessionBasisProofs` | What `Session` takes for granted: frames arrive whole and in turn (`SecureFraming`), no wake-up is lost (`CancelToken`). |
| `Publication` | The names of a batch: promised, checked, moved and rolled back beside another program. |
| `PublicationProofs` | Others keep their files and a batch is whole or gone, for any batch and folder. |
| `Updater` | `UpdaterController` against the installation gate. |
| `Interface` | The main window: queue, shown transfer, prompts, against commands and events. |
| `WindowProofs` | The properties of `Interface` and of `Updater`, for any number of batches, offers and transfers. |
| `MCWindow` | `Interface` and `Updater` in one run. Neither reads the other's state, so each is explored while the other rests. |
| `MCSession`, `MCTrustStore`, `MCDiscovery`, `MCRouteRace`, `MCSecureFraming`, `MCPublication` | Instances for TLC. `Admission` takes its constants from its configuration. |

`Session` sees admission only as "busy, or not"; `Admission` sees a session
only as "works, then ends". Between them every wait of `Session` is one of the
waits whose registrations `Admission` tracks. `CancelToken` justifies the
Boolean token of both: a waiter eventually sees that it is set. `Session` takes
a published file for a name of its own; `Publication` is the part of it in
which names collide. `RouteRace` opens up the `connect` step of `Session`,
`SecureFraming` its connection. `Updater` and `Interface` carry the small part
of `Admission` they can see, a gate and a slot. `Discovery` is built on
`PeerRegistry` itself: its steps call the registry's actions, so that a run of
`Discovery` fires every action of `PeerRegistry`.

### Session and the code

The control points `sPc` are the awaits of `send_files` in order: `prepare`
(hashing), `connect`, `trust`, `request`, `decision`, `stream` (the checks
before a watched write and the reading of the source), `write` (the write
itself, which looks at nothing), `result`, `cancel` (`send_cancel`), `finish`
(`stop_remote_monitor`, `finish_error`, `finish_transfer`). The monitor is a
task of its own that reads one frame, queues a signal and exits. The control
points `rPc` are `request`, `trust`, `ask` (`wait_for_decision`), `decide`
(`write_decision` and the check of the destination), `receive`, `verify`,
`finalize` (once per file), `commit` (the last `check_cancelled`),
`acknowledge`, `complete`, and on errors `cleanup`, `rollback`, `report`
(`finish_incoming_error`).

A file is `Chunks` frames; a frame is known only by whether it is what was
hashed, since the digest comparison tells nothing else apart. SHA-256 is
assumed not to collide. The connection is a bounded queue towards the receiver
and an unbounded one back (the receiver writes at most three small frames). It
is `up`, `down` (both ends see it) or `silent` (packets vanish and nobody is
told); breaking loses any suffix in flight. A `select!` with several ready
branches may take any of them. Every bounded wait may time out at any moment,
which abstracts from all durations. The set `Stubborn` holds the files the
receiving filesystem may refuse to delete.

### Admission and the code

One step is one critical section of `models.rs`, so a state between two locks
is a state of the model. Send tasks go `check`, `admit` (`try_begin_transfer`
around its lock), `register`, `prepare`, `trust`, `work`, `release`, `clear`
(`finish_transfer`). Handlers take a permit, a guard, then `handshake`,
`trust`, `check`, `admit`, `register`, `offer`, `awaitUser`, `work` and the
same end, and drop both on `leave`. `shutdown()` is five steps. Identifiers
are the tasks themselves: the code draws a UUID per transfer.

### The stores and the code

`TrustStore` has memory (`remembered`, `destination`), the settings file
(`disk`) and for each caller a control point (`pc`), its operation (`op`), the
copy it would restore (`previous`) and the settings it is writing (`image`).
The operations of `models.rs` change memory under a lock, let it go and then
save a snapshot, so a caller passes `save`, `write` and, after a failed write
of a trust decision, `undo`, in steps of their own; `update_preferences` writes
first and changes memory at `apply`. Commands of the interface run one at a
time, on the thread `Ui`. A key stands for the fingerprint, a number for the
last-seen time. `Restart` kills the program at any point and is `load` followed
by the first save; a folder of `Removable` may be missing then, and is replaced
as `resolve_destination` does. `MaxOverlap` operations may be under way at once,
`MaxStarts` in a behaviour.

What two overlapping operations leave behind depends on the order in which
they lock and write, so the history variables record what the user may count
on. No guard reads them. `sole` is the operation that had the store to itself
from its start; it loses that when another starts. `owed` holds the keys whose
trust such an operation saved, `barred` those whose trust it withdrew, refused
to grant or found withdrawn, `savedTo` the folder it saved. An entry of `owed`
goes when trust of its device is decided about again, of `barred` when the user
confirms the key again, and `savedTo` when a save of preferences overlaps
another operation; `missed` says that this folder was missing at a start
since. `confirmed` and `forgotten` are all that the user ever said.

`Publication` stages each file under a promised name (`Stage`, which is
`available_destination_path`), and after `Verify` puts file by file in place:
`Move` where the platform has a move that never replaces, `Link` and `Unlink`
where it has not, `Collide` when another program's file came first. `CleanUp`
and `RollBack` follow a failure; every removal may fail. `fold` is what
`path_key` believes of the folder and `folds` what is true of it. Another
program creates files under any free name and removes its own.

### The registry, discovery, routes and the code

In `PeerRegistry`, `obs` is `source_observations` of all peers together, as
records; `endpoints` is the reconciled view; `peers` holds the metadata, of
which the key stands for all. Every method of `peer.rs` that changes state is
an action: it changes `obs` and then reconciles as the code does, for the
peers it touched only. `bound` and `proven` are history: the keys that secure
Hellos bound and the routes that were reached. A report carries the time it was
made, which may be one tick before the clock.

`Discovery` adds what answers at each address (`occupant`), and for each worker
its place in its cycle (`stage`), the candidates it has still to probe
(`todo`), what answered (`won`), and the sources of the last and of this cycle
(`previous`, `current`). A candidate has a source, an address and the device it
expects. The local fallback and the overlay worker expect `Anyone`, the
remembered endpoints one device each. The fallback names its sources after
addresses alone, as the run does; the overlay worker names them after a key and
an address. `Apply` and `Name` are two critical sections, as in
`apply_probe_successes`; a source is taken back in a step of its own
(`Forget`). A skipped probe, as during an installation, and a failed one are
the same to the registry and so to the model. `due`, `letter` and `shown`
follow `emit_state`: a thread that saw a visible change reads the list under
the lock and emits it afterwards; `alone` records whether another copy was
under way when the last one was read. The mDNS thread (`session`) resolves,
removes, purges, loses its daemon and retries, or never started. `Reports` is
what a transfer says of a route it tried.

`RouteRace` has a clock in units of the stagger. An attempt passes the stages
of `connect_and_identify`, each with its timer, and ends with a verdict that
the race collects; what is behind a route is drawn at the start and does not
change. `steady` says whether the process runs whenever something is ready; if
not, timers are late. After a failed race, `Retry` ranks the routes again with
what was learnt and with what discovery reported since: any set of routes may
have been named by newer reports, which replace their marks, as
`reconcile_endpoints` does. `lifted` counts the failures taken back so.

`SecureFraming` numbers bytes by frame and position. `WriteRecord` encrypts and
sends one record of `write_frame`, so that a timeout (`GiveUpWrite`) may fall
between any two; `Read` takes one record off the network, opens it and extends
the partial frame of `read_logical`, and `DropRead` is a read given up for the
user's answer. The network loses, repeats, swaps or alters records up to
`MaxFaults` times. `regular` says whether the writer is this program; one that
is not holds the session's keys but cuts and labels its records in any way.

### The interface, the updater and the code

JavaScript runs to its next await without interruption, so one action of
`Interface` and `Updater` is the code between two awaits. `Interface` orders
events among themselves and leaves the answers of commands unordered with
them; the user may act while a call is under way. A declined request is closed
when its command returns (`DeclineReturns`), so that the next request may be on
the screen by then. `Updater` keeps `work`, the
sessions and transfers that the backend's `gate` looks at, and the controller's
`candidate`, `downloaded` and `operation`, with the step its check or update is
at; `using` is the update `performUpdate` was called with, `open` the plugin
handles not closed, `fetched` history, `stranded` that an `endInstall` failed and
left the gate held. A failing `beginInstall` is a refusal.

## Runs

| Run | Instance | Shows |
| --- | --- | --- |
| `session` | 2 files of 1 frame, 1 frame in flight towards the receiver, a first file that may resist deletion | All safety properties and the implementation of `Handover`. Two files are the fewest for which a batch can be half finalized, mixed up in order or rolled back; one frame suffices to be wrong, missing or too many (the sender may send `Chunks + 1`). |
| `session_live` | 1 empty file, 1 frame in flight | Both tasks end under fairness. A window of one is where both sides block soonest. |
| `session_early_result` | 1 file of 1 frame, 2 frames in flight | The first divergence below. |
| `admission` | 1 send task, 2 handlers, 1 probe, 1 permit | All safety properties of the shared state, and that shutdown ends every task. Two handlers compete for the permit, three tasks for the slot and the trust prompt. |
| `trust` | 1 device with 2 keys and a legacy record, 2 routes of which 1 is kept, 2 folders of which 1 may be missing at a start, a task and the interface at once, 5 operations, no time passing, the keys interchangeable | Decisions last through overlapping operations, failed saves, missing folders and restarts. Two keys are what trust could pass between, two routes and a limit of one make trimming happen, two callers are what overlaps; five operations allow two decisions about a device and others that overlap after them. Nothing orders the two keys, so `EitherKey` is a symmetry. |
| `trust_forget_race` | 1 device with 2 keys, 2 tasks, 2 operations at once, 4 operations | The second divergence below. |
| `trust_missing_folder` | 1 device with 2 keys, 1 task, one operation at a time, 3 operations, a folder that may be missing | The third divergence below. |
| `discovery` | 2 devices, 1 address, a local fallback that takes whoever answers there, mDNS that advertises one device, age limit 0, clock to 1 | List, reachability, cycles, take-overs of the address between probe and use and between two cycles, expiry, loss of the mDNS session, and what the interface is told. Two devices and one address are the smallest take-over; one tick past an age limit of 0 is the smallest expiry. |
| `race` | 3 routes of 6 kinds each, 2 to a race, stage timers of 1, deadline 5, 2 races, reports between them | The peer is found or reached by the next race, only the peer wins, no working route is blamed. Three routes over a limit of two are the fewest that a race can leave untried. |
| `framing` | control frames of up to 3 bytes, data frames of up to 2, after a header of 2, records of 2, 2 frames, 2 faults; or up to 3 records of another make | Delivered frames are whole and in turn, and undisturbed ones arrive. A header alone, one full record, full and short records are the cases of the cut; sizes one past the limits are tried. |
| `publication` | 4 batches of 2 files over names that collide by case or suffix, 2 files of others | Names, publication and rollback. |
| `window` | 3 batches, a queue of 1, 2 incoming requests, 1 trust prompt, 4 of these together, where the prompt counts twice; 2 offers, 2 transfers or sessions | No batch is lost or sent twice, and a queue has its panel; the gate, the offer and the page of the updater. Three batches are one running, one queued and one too many, two requests are one that arrives while the answer to the other is under way, and a second offer is what could replace the first. |

`race` checks for deadlock, with an explicit step of rest after the last race.
The other runs do not: a finished task, a process that exits, a bounded clock
or a bounded user really stop.

**Properties of `Session`.** `CompletedMeansDelivered`,
`PublishedOnlyAsVerifiedBatch`, `DiskNeedsConsent`, `EndedBatchIsAllOrNothing`,
`OutcomeIsShown`, `BlameIsReal`, which also says that a rejection leaves no
trace (invariants), `CommitIsFinal` (no step takes a kept batch back),
`SenderEnds`, `ReceiverEnds` (liveness), `ImplementsHandover` (refinement: the
receiver has kept the batch from its last check of the tokens on).

**Properties of `Admission`.** `OneTransfer`, `InstallExcludesSessions`,
`SlotMatchesTask`, `WaitersAreReachable`, `TrustPromptsOneAtATime`,
`NothingLeftBehind` (invariants), `AnswerStands` (no step changes an answer),
`ShutdownDrains` (liveness). `IdleAfterShutdown` is proved together with
`SlotMatchesTask` and part of no run.

**Properties of the others** are stated at the end of each module with the
sentence they stand for. Of the registry's, `ListedIffVouched` and
`ReachableHasEvidence` are checked under `Discovery`; the remaining ones are
proved for every instance and part of no run, as is `NoLostWakeup` of
`CancelToken`. Liveness: `EveryFrameArrives`, `GateOpensAgain`,
`SilentSourceIsGivenUp`. Every safety property, action property
and refinement of a passing run is also proved.

Every property of a passing run has a mutant: an operator named `Bug...` next
to a definition of the code, which stands for a plausible mistake there and
makes the property fail.

### Where code and documents differ

| Run | What it shows |
| --- | --- |
| `session_early_result` | While the sender streams, it reports any early result as a receiver that "completed before the sender finished" and shows its user an invalid response. The receiver had failed, for instance because its disk was full, and had said so in that result. |
| `trust_forget_race` | A save of an older snapshot reaches the disk after the save of a forgotten device: after a restart it is trusted again. `WithdrawnStaysWithdrawn` is what remains true: what was forgotten with nothing in between stays forgotten. |
| `trust_missing_folder` | A start at which the saved receive folder is missing puts the default folder into the settings file, although the documents say that the saved one is retained (`docs/ARCHITECTURE.md`, `README.md`). `DecisionsLast` is what remains true: a folder that was present at each start stays. |

### Known limits of the code

These cases were met while reading the code. They are either outside the
instances above, or inside and left open by what a property says.

* When the list of 64 remembered devices is full, meeting another device drops
  the one seen longest ago, also a trusted one (`models.rs`, `remember_peer`).
  If the save after that fails, the file still trusts a device that memory no
  longer lists, and forgetting it finds nothing to save. `trust_peer` adds a
  65th device without dropping any, and the next start drops one. `trust` has
  room in the list, and `DecisionsAreKept` says so (`HasRoom`).
* `remember_peer` takes the identifier over that a known key comes with, of a
  trusted entry too. Where a key appeared under the identifier of another
  trusted device, one identifier would have two trusted keys. In `trust` each
  key names one device, and `TrustIsGranted` says so (`KeyNamesDevice`).
* Operations that overlap may undo each other. A save of trust that fails puts
  a list back that lacks what another task did meanwhile; a save of an older
  snapshot reaches the disk last, with a forgotten device (`trust_forget_race`)
  or with the previous receive folder, which returns at the next start. These
  happen in `trust`; its properties promise nothing of the operations that
  overlapped, and everything of the earlier ones that did not.
* A device that leaves the list and returns is listed with the key that
  discovery names, although another one was authenticated before (`peer.rs`).
  A transfer still proves the key; what is shown and ranked may be wrong.
* The local fallback names a source after the IP address alone and expects no
  particular device (`discovery.rs`, the probe of its targets). When another
  device takes the address over, the source stays current and the report of
  the departed device stays with it, listed and reachable, while anybody
  answers there; `README.md` says that workers remove stale endpoints. This
  happens in `discovery`: `OnlyWhoAnswered` admits it at sources that take
  anyone and only there, and `SilentSourceIsGivenUp` says that it ends when
  nobody answers. The overlay worker names its sources after a public key too.
* A failed route is a candidate again with any newer report, and reachable
  where a prober reached it or an older observation says so, since the failure
  is marked in the reconciled view only (`peer.rs`). Discovery reports every
  few seconds, so eight dead routes that it keeps reporting are tried each time
  and a ninth that works never is, although `docs/CONNECTIVITY.md` says that a
  stale endpoint does not prevent a working one from being used.
  `PersistenceFindsTheRoute` therefore counts what reports took back
  (`lifted`).
* A device that was added by its address is reported by a source of its own
  (`lib.rs`, `connect_by_address`), which nothing withdraws or expires; it stays
  listed until the program ends.
* When two threads read the list for the interface at once, the older copy may
  arrive last and stay until the next change (`discovery.rs`, `emit_state`);
  `ShownIsCurrent` leaves this case out.
* A refused batch returns to a queue that its user may have filled in between,
  which then holds one more than its limit (`main.tsx`).
* The interface is not told that a trust decision expired; the answer is
  refused and the prompt stays on the screen (`main.tsx`), in front of the panel
  from which the queue is started, until another prompt replaces it and is
  answered in time. This happens in `window`; `QueueCanContinue` is about the
  panel behind the prompt.
* A request that arrives between the answer to a declined one and the return of
  its command is cleared unseen, since `setIncoming(null)` closes whatever is
  shown (`main.tsx`). The sender then waits for the deadline. This happens in
  `window`.
* If `endInstall` fails, `performUpdate` goes on with the gate held, and no
  transfer starts until the program does (`updater-core.ts`); the command
  behind it cannot fail, but the call could. This happens in `window`
  (`stranded`).

## Fairness

`Session` assumes weak fairness of the sender task, its monitor and the
receiver task: tokio polls a woken task again, and every timer the code sets
fires. It assumes nothing of users, the network, crashes or the other side: a
frame need not arrive and an answer need not come. `Admission` assumes weak
fairness of each task's own steps and of `shutdown()`, and here not even of the
timers `TrustTimeout` and `RequestEnds`: tasks must end on shutdown because of
the token alone. That a task at work ends is what `session_live` shows.

`SecureFraming` assumes that a writer and a reader under way go on; the
network's deliveries are the reader's. `Discovery` assumes that each worker,
which is a loop on a thread of its own, goes on with its cycle; devices owe
nothing. `Updater` assumes that a call to the plugin or the backend ends, in
success or failure; the user and transfers owe nothing. The remaining modules
have no liveness properties and no fairness.

## Proofs

`AdmissionProofs` proves every safety property of `Admission` for arbitrary
sets of tasks and probes and any number of permits, from the assumptions that
send tasks, handlers and probes are different things, none of them `None`, and
that there is at least one permit.

* `TypeCorrect`: the type invariant is inductive; only the count of permits
  needs an argument (`PermitsMayOpen`, `PermitsMayClose`).
* `OneTransferAtATime`, `InstallIsExclusive`, `SlotIsFaithful` rest on
  `SlotInv`. None of its parts is inductive alone: a task may enter only when
  the slot is empty, which says something about other tasks only while
  `SlotMatchesTask` holds, and after `shutdown()` has emptied the slot under a
  running task it does not; there it is the second look at the shutdown token
  that keeps others out, for which `SlotInv` ties the token to the steps of
  `shutdown()`. All task steps but `Admit` and `Release` are `SlotIdle`, so the
  proof treats them in one lemma.
* `WaitersReachable` and `AnswersStand` rest on `WaitInv`, which adds that no
  answer exists before its request.
* `NothingIsLeftBehind` rests on `HoldInv`, the control points at which each
  resource may be held.

`SessionProofs` proves every safety property of `Session` and the refinement,
for a batch of any number of files of any length, any window and any set of
files that resist deletion.

* `IInv` is the types and what each control point implies: the phase and error
  its user sees (`SenderShows`, `ReceiverShows`), how far the sender is in the
  batch (`SenderStreams`), the answer of the receiving user (`Consent`) and the
  files staged and published (`Disk`). No property of a single side is
  inductive alone, because each side acts on what the other one said. So
  `ToReceiverIsTrue` and `ToSenderIsTrue` say of every frame in flight that it
  is true: a `Complete` was sent after the whole batch, a result with `success:
  true` by a receiver that keeps it, a refusal by one that has written nothing.
  `SenderIsToldTheTruth` says the same of what the monitor queued and of the
  outcome shown. Frames are only appended, taken or lost, and what they say is
  about states that are final (`EndIsFinal`, `SentIsFinal`, `CanceledIsFinal`).
* `RefinesHandover` maps every step. The user's yes is `Agree`, the write of
  `Complete` is `Offer`, each finalized file `Place`, a rollback `Withdraw`,
  the last check of the tokens `Keep`, any other end of the receiver `Drop`,
  the success result taken by the sender `Complete`, any other end of the
  sender `Stop`. All other steps stutter.

`SessionBasisProofs` proves the two things `Session` is built on.

* `WholeFramesInTurn`: `DeliversWhatWasSent` for any limits and any faults. A
  record names the frame and the offset of its bytes (`OnTheWire`), and the
  reader takes it only where it fits what it has (`BeingRead`). Nothing needs to
  be known about the order of records, so losses, repetitions and swaps need no
  argument of their own.
* `WakeupIsNeverLost`: `NoLostWakeup` for any sets of waiters and cancellers. It
  is inductive with one addition, `Registered`: from its registration on, until
  it is notified, a waiter is known to the notification.

`PublicationProofs` proves `OthersKeepTheirFiles` (`NeverOverwrites`) and
`BatchIsWholeOrGone` (`WholeOrGone`) for any batch, suffixes, case rules and
files of others. A rollback removes paths without asking whose file is there
now. It is safe because of `PathsAreOurs`: until a path is taken from the list
of what was finalized, the file there is the one the batch put there. This in
turn needs `NamesAreApart`, that no two files of the batch got one path.
`Progress` ties both to the place in the loops.

`RouteRaceProofs` proves `RaceFindsThePeer`, `WorkingRouteIsNotBlamed` and
`PersistenceFindsTheRoute` for any routes, ranks, limit and times. `OnTime`
bounds the clock of a process that is kept running: launches are a stagger
apart, an attempt has three stages, and the deadline is beyond their sum, so
such a race never meets it. `NoneIsLost` says that each launched route is under
way or has a verdict, `AttemptsAreFair` that a verdict is deserved.
`RacesAddUp` counts: before the routes run out, `n` races leave verdicts
against at least `n` times the limit, less those that reports took back
(`lifted`), since a race prefers what has none.

`DiscoveryProofs` has two parts. The first proves every property of
`PeerRegistry`, whether a run checks it or not, for arbitrary sets of devices,
keys, addresses and sources, any ranking of sources by numbers and any age
limit, from `RegistryAssumption`.

* The inductive invariant `IInv` is `TypeOK`, `ListedIffVouched`,
  `RouteIsBacked`, `BoundKeyStands`, `ReachableHasEvidence` and two additions.
  `ProvenWhenSaid` says that an observation that claims reachability was made
  by a source that completes handshakes, and its device and address are among
  the proven ones: without it a reconciliation could bring a reachability back
  that nobody earned. `DatedAlike` says that all observations one source made
  of one device have the same time, which is what makes "older than what the
  source has said" a well-defined thing.
* `SelectedIsBest` and `EndpointIsBacked` are about choosing an endpoint among
  claims: a best rank exists (`LeastExists`) and so does the latest claim of
  that rank (`LatestExists`).
* `Reconciling` describes the list after a reconciliation of some of the
  devices and `ReconcilingKeeps` that the invariant survives it; both
  `Observe` (`ObserveKeeps`) and every removal (`RetainKeeps`) rest on them. The
  code reconciles only the devices it touched, which is right because the
  others' endpoints already agree with observations that did not change.
* `LateReportsOnlyReconcile`: a report older than what its source already said
  leaves the observations, the metadata and the times of all routes as they
  are. It still reconciles, and the theorem says exactly what that may do: a
  route whose failure was marked becomes reachable again if an observation
  says so. `ExpiryDelistsTheSilent`: after an expiry a device is listed exactly
  if another discovery, or a report that is not too old, speaks for it.
* `RegistryImplementsDirectory`: by the invariant in the next state the list is
  recomputed (`ListsAreRecomputed`); a report replaces the claims of its source
  for its device (`ObserveReports`) and a removal only takes claims away
  (`RetainWithdraws`).

The second part is about any workers, candidates, devices and threads.

* `DiscoveryUsesRegistry`: `DiscoverySpec` implies the registry's `Spec`, so
  that the theorems about the registry are theorems about the program in which
  the workers of `discovery.rs` and the transfers call it (`ListIsRight`). What
  a worker holds between its critical sections, such as a candidate that
  answered or a source to take back, is something the registry knows (`Typed`);
  each step is then a call of the registry or leaves it unchanged.
* `OnlyAnswersAreKept`: after a cycle a worker vouches for all that answered in
  it, at no source that was silent, and for nobody else except at a source that
  takes anyone. In the middle of a cycle this is false, so `Vouching` speaks of
  the sources of the last and of this cycle: those of this one have answered,
  the others are still to be taken back. It holds for each worker, whomever its
  candidates expect and whatever the others do.
* `InterfaceIsCurrent`: while lists are read one at a time, the only one under
  way is the current one unless some thread has a change still to tell
  (`Telling`).

`WindowProofs` proves `QueuedBatchIsKept` (`NoBatchIsLost`) and
`QueueCanContinue` (`QueueGoesOn`) of `Interface`, and `GateBelongsToUpdate`
(`GateIsReleased`) and `InstallsTheOffer` (`OfferIsInstalled`) of `Updater`.

* A batch is in the queue, in a call or sent, never in two of these
  (`InOnePlace`). A full queue that nobody looks at would wait forever;
  `GoesOn` says that a view is there or that something under way will bring
  one: an update, or the refusal of a queued batch. `EndIsComing` says that a
  request on the screen belongs to a transfer whose end is still to be
  delivered, so that no dead one covers the panel.
* The updater relies on JavaScript's turns instead of a lock: at most one of its
  two coroutines is suspended (`Suspended`), the gate is held exactly between
  its grant and its release, or after a release that failed (`GateIsExclusive`),
  and unless the controller was
  disposed of, nobody replaces the candidate under an operation (`OfferIsKept`).

`TrustStoreProofs` is about any devices, keys, routes and legacy records.

* `TrustIsConfirmed` and `TrustIsGranted`: memory and the file trust only keys
  the user confirmed, one for each device, and nobody without a key.
  `Confirmed` extends that to all copies a caller holds, the one to restore and
  the one to write, so that no order of saves and restorations matters. One key
  for each device needs keys that name one device (`KeyNamesDevice`).
* The other two speak of the operations that had the store to themselves and
  hold for any number that overlap before or after. `Basis` adds to `Confirmed`
  that such an operation is the only one (`Alone`).
* `ForgettingLasts` (`WithdrawnStaysWithdrawn`) rests on `Barring`: no list that
  there is, that is being written or that may be put back trusts a key that was
  withdrawn. A copy taken later is sound because memory is, and none was taken
  earlier because nothing overlapped the withdrawal. It needs no assumption.
* `DecisionsAreKept` (`DecisionsLast`) holds while the list has room (`HasRoom`).
  `Owes` is the counterpart of `Barring`: what is owed is trusted in the file,
  in every copy to restore and in every snapshot, but for what the operation
  under way is deciding about (`Undecided`). `Fits` keeps a start from
  truncating the file, and `Folders` says how memory, the file and the
  snapshots agree on the receive folder.
* A filtered and a sorted list are given by their elements and their order
  (`Arranged`); that such a list exists is shown by the smallest counterexample
  (`LastExists`, `EnumerationExists`), since induction is not available.

**Only model-checked**: liveness (`SenderEnds`, `ReceiverEnds`,
`ShutdownDrains`, `EveryFrameArrives`, `SilentSourceIsGivenUp`,
`GateOpensAgain`), which is out of the prover's reach (it does not handle fairness
and ENABLED), and the three divergences above, which are counterexamples.

## Assumptions worth knowing

* The last conjunct of `BatchIsWholeOrGone` holds where `path_key` folds names
  whenever the folder does; a folder that folds on a platform where the program
  does not expect it makes two files of a batch compete, and the second gets a
  suffixed name.
* Other programs in `Publication` add and remove files of their own; they do
  not replace a file that Drop published.
* `TrustStore` replaces the settings file in one step, which the code gets from
  an atomic rename. Two of its theorems assume more than `StoreAssumption`:
  `TrustIsGranted` that a key always comes with the same identifier
  (`KeyNamesDevice`), `DecisionsAreKept` that the list has room (`HasRoom`). The
  run `trust` satisfies the first, and every behaviour of it the second. Records
  from before there were keys are not trusted, as no key could have been
  confirmed.
* `PublicationProofs` needs names and suffixes as the code makes them
  (`NamesAssumption`), `WindowProofs` that nothing shown is taken for an empty
  view (`InterfaceAssumption`). TLC evaluates every assumption of a constant
  in the runs.
* A relaunch of the updater that succeeds ends the process.
* `RaceFindsThePeer` needs finitely many routes and the deadline to exceed the
  last launch by all stage timers (`RaceAssumption`), which the constants of
  `transfer.rs` and `connectivity.rs` give.

## Not modelled

Progress numbers, event payloads, log lines, redaction, formatting of messages;
the Noise handshake and encryption (a library); JSON encoding and the
validation of message fields; names, themes and the other preferences; mDNS,
UDP and Tailscale parsing; route history and the counters of the diagnostics;
the rendering of the interface and of the settings page; release scripts and
the test harness. Of `connect_by_address` there are the parts only: its activity
guard as that of a probe in `Admission`, each of its calls as an action of
`PeerRegistry`, `remember_peer` in `TrustStore`; the command itself, its source
and its emission of the list, which follow no worker's cycle, are in no module. The identity is one key file that one thread reads and writes
once at each start, and the log is read by nobody in the program: both are left
out for that reason. In `Session`, clean-up and rollback are one step each, so
a crash in the middle of either is not seen; a crash before or between them is.
After a crash no transfer is resumed: Drop keeps no transfer state on disk. A
transfer retried by the user is a new session with a new identifier. A panic in
a task is nowhere modelled.

## Plan

Every safety property, action property and refinement that a run checks is also
proved. What could still be added:

1. `TrustStore`: what an eviction from a full list leaves of `DecisionsLast`.
2. An abstract slot that is taken and given back, implemented by `Admission`,
   and seen by `Interface` and `Updater` as `Admission` gives it.
3. An abstract channel of frames, implemented by `SecureFraming` and used by
   `Session`.
4. `connect_by_address` as a further thread of `Discovery`, with a source that
   nothing takes back.
