# Formal model of the fork-alert subsystem

This directory holds TLA+ specifications of the fork-alert path of this AlephBFT
consensus crate. It contains TLC configurations that model-check them and TLAPS
proofs of their central safety invariant. The code modelled is:

- `src/consensus/src/alerts/mod.rs`: the `Alerter` handler.
- `src/consensus/src/alerts/service.rs`: the alert `Service` task.
- `src/consensus/src/runway/backup.rs`: the `BackupSaver` task, the data it
  persists, and the `BackupLoader` that reads the data back at start-up.
- `src/consensus/src/network.rs`: the `NetworkHub` task.
- `alerts::run` in `alerts/mod.rs`: the legacy alerter loop without a backup.

`service.rs` calls an `alerts::handler::Handler`, and that module is not in
this snapshot of the repository. Its methods have the names and outcomes of
the `Alerter` methods in `mod.rs`. Spec 4.1 describes both in the same terms.
The handler is therefore modelled from `Alerter`.

## The system

A node that sees two different units of one creator in one round raises a
**fork alert**. An alert carries the fork proof and the units the accused node
had legitimised ("legit units"). Alerts are spread by reliable multicast (RMC).
When the RMC for an alert's hash completes with a multisignature, consensus may
take in the legit units. Consensus ("the runway") learns of forkers through
`ForkingNotification::Forker` and gets units through `ForkingNotification::Units`.

The parts, and how they interact:

| Part | Code | Role |
|---|---|---|
| Alerter (handler) | `alerts/mod.rs` 150-386 | `known_forkers`, `known_alerts`, `known_rmcs[(sender, forker)]`. Checks proofs and commitments, and decides what to answer. |
| Service | `alerts/service.rs` | The `select!` loop over the network, the runway, the RMC engine, backup echoes and exit. It parks every durable consequence in a pending table keyed by alert hash. |
| BackupSaver | `runway/backup.rs` 267-351 | Writes and flushes each unit and each `AlertData` record, then echoes it to the runway or the service. |
| BackupLoader | `runway/backup.rs` 103-262 | Reads the backup at start-up and chooses the starting round. |
| RMC engine | `aleph_bft_rmc` (not in `src/`) | Signs hashes it is told to start, and emits `NewMultisigned` once per hash. |
| Legacy loop | `alerts/mod.rs` 389-492 | `alerts::run`: drives the `Alerter` directly and acts on every response at once. |
| Network hub | `consensus/src/network.rs` 71-186 | Sends the outgoing unit and alert messages, and routes each incoming message to consensus or the alerter by its kind. |

The central discipline is **write-ahead**. The service first updates the
handler. It then parks what it owes: a broadcast, `StartRmc`, or a
notification. It sends a record (`OwnAlert`, `NetworkAlert` or
`MultisignedHash`) to the saver. Only when the saver's echo comes back does it
act. The tasks run concurrently, so the handler's state runs ahead of the
backup. RMC traffic for a hash can arrive, and a multisignature can complete,
before the record of the alert is on disk.

## Modules

- **`AlertHandler`**: the `Alerter` state and its decisions as operators that
  the service composes into its actions.
  - An alert is the record `[sender, forker, proofOk, legitOk, id]` and is its
    own hash. `proofOk` abstracts `who_is_forking` (mod.rs 223-256) and
    `legitOk` abstracts `correct_commitment` (mod.rs 195-221).
  - `known_forkers` is a set of nodes, `known_alerts` a set of alerts, and
    `known_rmcs` a function from `Nodes \X Nodes` to an alert or `NoAlert`.
  - `on_network_alert` splits into three operators, matching its three exits:
    `AlertRejected`, `AlertOfDrivenPair` (the pair already has an RMC, so the
    alert is only cached; mod.rs 305-308) and `AcceptNetworkAlert`.
  - The `RmcMessage` branch of `on_message` has three outcomes:
    `RmcForUnknownAlert`, `RmcPassedOn` (the known hash of the pair, or a
    complete multisignature) and `RmcStale`.
  - `AlertConfirmed` is `alert_confirmed`.
- **`AlertService`**: the service, the saver and the RMC contract. Each action
  is one iteration of a `select!` loop:
  - `HandleAlertFromRunway`, `HandleForkAlert`, `HandleRmcMessage`,
    `HandleAlertRequest`: the network and runway branches, each including the
    handler call and the backup send.
  - `HandleMultisigned`: `handle_multisigned` after the engine completes a
    hash.
  - `RmcMessageToNetwork`: rebroadcasts of our signature or of the
    multisignature.
  - `HandleDataFromBackup`: the three echo kinds. A missing pending entry is
    only logged, as in the code.
  - `ServiceExit`: exit or a closed stream. The loop breaks and the buffered
    echoes are dropped.
  - `BackupSaveItem`, `BackupSaveFails`, `SaverExit`: the saver's
    `data_from_alerter` branch, a failed `save_item`, and its exit.
  - Channels are sequences. `backup` is the sequence of records written. The
    network is the set `messages_for_network` of messages handed to it, which
    models any loss, delay, duplication or reordering by the network.
- **`AlertsRunLoop`**: the legacy `alerts::run` loop over the same
  `AlertHandler`, with one action per `select!` branch:
  - `LoopForkAlert`: an accepted alert starts RMC and notifies a new forker in
    the same step.
  - `LoopOwnAlert`: broadcast and start RMC.
  - `LoopRmcMessage`, `LoopAlertRequest`, `LoopRmcOut`, `LoopMultisigned`.
  - `LoopExit`: exit, a closed stream, or a failed send.

  `MC_AlertsRunLoop` runs it with four alerts: our own, a double commitment of
  `n1` in which both commitments are correct, and a bad proof.
- **`MC_AlertService`**: the instance TLC runs on. It has three nodes: `n0` is
  us, `n2` forks, and `n1` is a peer that sends requests and RMC traffic. There
  are up to four alerts: our own about `n2`; two of `n1` about `n2` (a double
  commitment), the second with an incorrect commitment; and one whose proof
  fails.
  - `MCView` hides the point-to-point requests and answers. They never enable
    a step and no property reads them.
- **`AlertServiceProofs`**: the TLAPS theorems on types and write-ahead, and
  the lemmas on `Range` after `Append` and `Tail`.
- **`NoMissingResponseProofs`** (extends `AlertServiceProofs`): the proof of
  `NoMissingResponse`, with the lemmas on injective sequences.
- **`ForkerBeforeUnitsProofs`** (extends `NoMissingResponseProofs`): the proof
  of `ForkerBeforeUnits`, with the lemmas on concatenated channels.
- **`UnitBackup`**: our own units through the saver, a crash, and the loader
  on restart.
  - A unit is `[round, creator, parents, session, inc]`, and `inc` counts our
    restarts. Rounds are `0 .. 2^W - 1`, the `u16` of `Round` at width `W`.
  - The runway is not in `src/`, so it is modelled from spec 4.3 and marked
    `spec_modelled`:
    - `CreateUnit` builds our unit of `next_round` on the parents in the DAG
      and sends it to the saver;
    - `ReceivePeerUnit` sends a peer's unit to the saver;
    - `HandleSaved` adds an echoed unit to the DAG and broadcasts it if it is
      ours (write-ahead).
  - `SaveUnit` is the `units_from_runway` branch of `BackupSaver::run`.
    `SaveUnitFails` is its failing `save_item`. `write_all` may have written
    nothing, part of the item (the model value `Torn`) or all of it before
    the error. The saver then breaks.
  - `Crash` clears every channel and the DAG. The file survives.
  - `Restart` is `BackupLoader::run` in one step. Nothing else runs until the
    loader answers. Its result is `LoaderOutcome(file, build, collection,
    channelOk)`, one early return per branch, in the code's order:
    1. decode;
    2. `verify_units` (`VerifyUnits`, with `ParentRound` = `round - 1` mod
       `2^W`);
    3. the `round + 1` of `next_round_backup` (`NextRoundBackup`, with
       `NextRoundPanics` for the overflow panic of a debug build);
    4. the two oneshot channels;
    5. the comparison with `next_round_collection`.

    `build` is chosen once at `Init`. No profile in the workspace sets
    `overflow-checks`, so debug builds panic and release builds wrap. The
    collection round is any round a peer may infer from what we broadcast.
- **`UnitBackupAbstract`**: what the unit backup promises (spec 4.3), with
  no file, channels, loader or crashes. It has two variables: `backup`, the
  persisted units, and `sent`, our units handed to the network. It has two
  actions. `Persist(u)` adds a unit, and a unit of ours only in a round no
  persisted unit of ours holds. `Broadcast(u)` sends a persisted unit of ours.
  `UnitBackup` instantiates it as `Abstract`, mapping `backup` to the whole
  units of `file` and `sent` to `broadcast`. `BackupRefinement` is
  `Abstract!AbsSpec`.
- **`UnitBackupProofs`**: the proofs of `NoEquivocation`, of `BackupIInv` and
  of the refinement.
- **`AlertsRunLoopProofs`**: the proof of `LoopForkerBeforeUnits`.
- **`LoaderProofs`**: the proof of `RefusedOnlyOnTornBackup`, on top of
  `UnitBackupProofs`.
- **`MC_VerifyUnits`**: `VerifyUnits` against the consistency rule of spec 4.3
  (`SpecConsistent`). It checks every backup of at most two units over two
  creators, rounds 0-3 and two sessions.
- **`NetworkHub`**: the hub task.
  - Each `select!` branch of `NetworkHub::run` is an action:
    - `HubSendUnit` and `HubSendAlert`, with their `None` arms
      `HubUnitsClosed` and `HubAlertsClosed`;
    - `HubIncoming`, which runs `handle_incoming`, and its `None` arm
      `HubNetworkStopped`;
    - `HubExit`.
  - The transport is `wire`, the set of every packet sent. `next_event` may
    return any packet addressed to us, again or never (spec 6).
  - The environment queues messages, drops channel ends, sends as a peer,
    stops the transport and fires the exit.

## Runs

| Run | Config | Checks | Result |
|---|---|---|---|
| service_safety | `MC_AlertService_safety.cfg` | `WriteAhead`, `NoMissingResponse`, `ForkerBeforeUnits` | pass, about 390k distinct states |
| service_inductive | `MC_AlertService_inductive.cfg` | `IInv`, `ResponsesIInv`, `ForkerIInv` | pass, about 390k distinct states |
| service_liveness | `MC_AlertService_liveness.cfg` | `ParkedActionsCompleted` under `FairSpec` | pass |
| service_durability | `MC_AlertService_durability.cfg` | `UnitsAlertDurable` | **violated** |
| service_recorded | `MC_AlertService_recorded.cfg` | `MultisignedRecorded` | **violated** |
| loop_safety | `MC_AlertsRunLoop.cfg` | `LoopForkerBeforeUnits` | pass, 8590 distinct states |
| unit_backup_safety | `MC_UnitBackup.cfg` | `NoEquivocation`, `RefusedOnlyOnTornBackup`, `BackupRefinement` | pass, about 71k distinct states |
| unit_backup_inductive | `MC_UnitBackup_inductive.cfg` | `BackupIInv`, `LoaderIInv` | pass, about 71k distinct states |
| unit_torn | `MC_UnitBackup_torn.cfg` | `RestartsAfterCrash` | **violated** |
| unit_round_wrap | `MC_UnitBackup_wrap.cfg` | `NoEquivocation` | **violated** |
| verify_units_reference | `MC_VerifyUnits.cfg` | `VerifyUnitsAsSpecified` | **violated** |
| hub | `MC_NetworkHub.cfg` | `QueuedAlertsSent` under `HubSpec` | pass, about 1.5M distinct states in 2 minutes |

What each property says:

- **`WriteAhead`**: nothing that has a durable consequence precedes its
  record (spec 4.3, 8.1, 8.2):
  - our own alert is broadcast only after `OwnAlert` is written;
  - our signature on a hash goes out only after that alert's record is written;
  - `Units` is released only after `MultisignedHash` is written.

  The eager mutant, which starts RMC on acceptance as the legacy loop
  `alerts::run` does, breaks it.
- **`NoMissingResponse`**: every record in flight finds its pending entry when
  it comes back, and no record travels twice. This depends on the
  `known_rmcs` check in `on_network_alert`. Without that check, a duplicated
  `ForkAlert` would overwrite a pending entry.
- **`ForkerBeforeUnits`** (action property): when `Units` of an alert is
  released, consensus already knows the forker. It knows either from our own
  alert or from a `Forker` notification. This holds because the saver is FIFO,
  and the `NetworkAlert` echo precedes the `MultisignedHash` echo of the same
  alert.
- **`ParkedActionsCompleted`**: every parked action is eventually done, unless
  the service or the saver has stopped.
- **`UnitsAlertDurable`** (violated): an alert whose units were released is in
  the backup. See the findings below.
- **`MultisignedRecorded`** (violated): every completed RMC has its
  `MultisignedHash` record written or on its way to the saver.
- **`LoopForkerBeforeUnits`**: the same forker-before-units rule for the legacy
  loop. Here it holds because the `Forker` notification goes out in the step
  that accepts the alert. Dropping it breaks the property.
- **`NoEquivocation`**: no two of our units that a peer may hold share a
  round. That covers units broadcast in any incarnation, and units in the
  backup file. It holds because:
  - a unit is broadcast only after it is saved;
  - the loader resumes at the backup's round, which is at least the
    collection's.

  Starting from the collection round instead breaks it. A saved unit that
  was never broadcast is then created again.
- **`RefusedOnlyOnTornBackup`**: on a log that our own saver wrote, the loader
  refuses only a file with a torn item, or a failed channel. `verify_units`,
  the round arithmetic and the behind-collection check never refuse.
  Checking parents at the unit's own round breaks it.
- **`BackupRefinement`**: `UnitBackup` implements `UnitBackupAbstract`.
  Every step maps to a `Persist`, a `Broadcast` or a stutter:
  - `SaveUnit`, and a `SaveUnitFails` that wrote the whole item, persist the
    head of the channel.
  - `HandleSaved` broadcasts a unit the file holds.
  - A crash or a restart leaves the file and the broadcast units alone, so
    no persisted unit is lost.

  A saver that echoes a unit whose write failed (`SaveUnitFailsEchoes`)
  breaks it. The runway then broadcasts a unit the backup lacks.
- **`RestartsAfterCrash`** (violated): a node that crashed always starts
  again, unless a channel fails.
- **`VerifyUnitsAsSpecified`** (violated): `verify_units` accepts exactly the
  consistent backups and never panics.
- **`QueuedAlertsSent`**: every alert message queued for the hub reaches the
  transport, unless the hub stops first. A branch that takes a message
  without sending it breaks this.

Bounds. Three nodes are the fewest that give a sender, a forker and us, and one
peer exercises every network branch. The four alerts cover every outcome of
`on_network_alert` and `alert_confirmed`:

- accept a new forker or a known one;
- cache the alert of a driven pair;
- reject a bad proof;
- a correct or an incorrect commitment.

The runway raises at most one own alert per forker, as it does in the code.
Nothing else is bounded: the channels are bounded by the finite number of
decisions.

For `UnitBackup`:

- Two nodes, `W = 2` (rounds 0-3) and up to two crashes.
- The pass run caps the runway at round 2, below the last round. The wrap
  run lets it reach round 3 = `2^W - 1`, where `round + 1` overflows. That is
  `u16::MAX` in the code.
- Two crashes allow a failed save, a restart, and a second crash of the new
  incarnation.

For `NetworkHub`:

- Two nodes, one unit message and one alert message.
- Outgoing channels of one message.
- At most two delivered messages per incoming channel, so the same packet
  can be delivered twice.

Fairness. `FairSpec` assumes weak fairness of `BackupSaveItem` and
`HandleDataFromBackup` only. `futures::select!` polls the ready branches in
random order, so a ready channel is not starved forever. Nothing is assumed
about the network or the RMC engine. `HubSpec` makes the alerts branch of
the hub's `select!` weakly fair, for the same reason. The environment, the
transport and the exit get no fairness. `UnitBackup` checks only safety.

## Findings

**The alert behind released units is not persisted.** The `service_durability` run finds that `UnitsAlertDurable` fails. The trace
has these steps:

1. `n1` sends two alerts about `n2`, and we accept the first.
2. The second alert reaches `on_network_alert` while the pair is driven. It is
   cached in `known_alerts` with no backup record (mod.rs 305-308).
3. A complete multisignature of that second alert passes the stale check
   through `is_complete()` (mod.rs 342).
4. `alert_confirmed` answers with its `Units`, and `handle_multisigned` writes
   only a `MultisignedHash` record before releasing them.

After a crash, the backup holds the multisignature of an alert that the node
never persisted. Spec 4.3 and 8.6 ask that such a decision be recoverable from
the backup.

**A completion with an incorrect commitment leaves no record.** The
`service_recorded` run finds that `MultisignedRecorded` fails:

1. `alert_confirmed` makes the completed hash canonical for its pair.
2. The commitment is incorrect, so `alert_confirmed` returns no `Units`.
3. On that `Err`, `handle_multisigned` only logs (service.rs 220), and no
   `MultisignedHash` record is sent.

Spec section 9, open question (b), says that the multisignature is still recorded in
the backup.

**A torn write makes the node refuse to start for good.** `unit_torn`:

1. Our unit of round 0 (creator `n0`, which the cfg makes `Self`) goes to the saver.
2. `write_all` fails halfway (backup.rs 293), and the saver breaks (311-314)
   with the torn bytes left in the file.
3. The node crashes.
4. On restart, `load` fails to decode the tail (125-126) and `run` answers
   `None` (177-183). The same happens on every later restart.

Spec 4.3 says partial writes must not happen, and a backup exists so that a
restarted node can resume.

**The starting round wraps to 0 at the last round.** In `unit_round_wrap`, a
release build saves and broadcasts our units up to round `2^W - 1`, and then
crashes. On restart, `round + 1` wraps to 0 (backup.rs 203). The collection
also reports 0, so the check at 236 passes and the loader answers `Some(0)`.
The node then creates a second round-0 unit, which is a self-fork. Nothing in
`src/` caps rounds below `u16::MAX`. A debug build panics at line 203 instead.

**`verify_units` panics on a round-0 unit with parents.** `verify_units_reference`
shows that `coord.round() - 1` (backup.rs 153) panics in a debug build instead
of returning `InconsistentData`. Spec 7 asks the loader to refuse and to signal
`None`. In a release build, the same unit is checked against a parent at the
last round. Only a corrupted or foreign backup file contains such a unit.

## Proofs (`AlertServiceProofs`, checked by `tlapm`)

- `TypeCorrect`: `Spec => []TypeOK`.
- `IInvariant`: `Spec => []IInv`.
- `WriteAheadHolds`: `Spec => []WriteAhead`.

The proofs hold for every set of nodes and alerts that satisfies
`HandlerAssumption` and `ServiceAssumption`. `WriteAhead` is not inductive on
its own:

- A step that echoes a record could echo one that is not written.
- `HandleDataFromBackup` could then start RMC for an alert whose record is not
  on disk.

`IInv` strengthens it with two facts:

- `EchoesDurable`: every echoed record is already in the backup.
- `StartedDurable`: every hash given to `StartRmc` has its alert's record in
  the backup.

`IInv` holds because `BackupSaveItem` appends a record to `backup` in the same
step that echoes it. `StartRmc` happens only when an echo is handled. A
signature is sent only for a started hash.

The proof has one step per action. Most actions leave the backup, the echoes
and the outputs alone, and they are discharged by a shared lemma. The lemmas
`RangeAppend` and `RangeTail` give the range of a sequence after `Append` and
`Tail`.

TLC checks `IInv` on the instance, and a mutant saver that echoes without
writing breaks it.

`service_inductive` checks every inductive invariant of this section and the
two below on the instance of `service_safety`. They were checked there before
they were proved.

## Proofs (`NoMissingResponseProofs`)

`NoMissingResponseHolds` proves `Spec => []NoMissingResponse` under the same
assumptions. It goes through `ResponsesIInv`, which keeps these facts about
the saver's two channels (`data_for_backup` and `responses_from_backup`):

- no record appears twice in them, and the two share none;
- every record in them is pending: its entry in `own_alert_responses`,
  `network_alert_responses` or `multisigned_notifications` is still there;
- every record in them was submitted (`Submitted`). Its forker was alerted
  by the runway, its pair has an entry in `known_rmcs`, or its hash is
  multisigned.

`Submitted` is the conjunct that needs the strengthening. When
`on_network_alert` accepts an alert, `known_rmcs` has no entry for its pair.
So no `NetworkAlert` record in flight is about that alert, and the new one
neither duplicates a record nor overwrites a pending entry. The
`AcceptNetworkAlertUnchecked` mutant drops that check, and TLC then finds
`ResponsesIInv` violated.

The lemmas `InjectiveAppend`, `InjectiveTail` and `InjectiveConcat` say how
`IsInjective` behaves under the channel operations. `ResponsesIInvHolds`
states `Spec => []ResponsesIInv` as a theorem of its own.

## Proofs (`ForkerBeforeUnitsProofs`)

`ForkerBeforeUnitsHolds` proves the action property `Spec => ForkerBeforeUnits`
for every committee and set of alerts. The argument follows the records in
the order the service reads them: `Queue` is the echoes followed by the
records the saver still holds. `ForkerHeard(f, i)` says that consensus knows
`f` already, or that a record before position `i` is a network alert about
`f` whose `Forker` notification is pending. `ForkerIInv` conjoins:

- `ResponsesIInv`;
- `KnownAlertsForkers`: the forker of every known alert is known, and
  `known_rmcs` maps a pair only to a known alert of that pair;
- `QueueAnnouncesForkers`: every `MultisignedHash` record at position `i`
  has its forker heard of before `i`;
- `KnownForkersHeard`: while both tasks run, every known forker is heard of
  before the end of the queue.

How each step keeps these facts:

- Accepting a network alert that makes a forker known sets its pending
  notification to `TRUE` and queues its record last. That is the record that
  announces the forker. The `NewForkerAfterInsert` mutant asks `is_forker`
  after the insert. TLC then finds `ForkerIInv` violated, and
  `ForkerBeforeUnits` as well.
- `handle_multisigned` queues a record about a known alert. By
  `KnownAlertsForkers` its forker is known, and by `KnownForkersHeard` it
  is heard of.
- `handle_data_from_backup` reads the head of the queue, and every record
  moves up one place (`HeardShift`). If the head announced a forker, it
  hands the `Forker` notification to consensus in the same step.
- The saver's steps keep the queue (`ConcatMove`), or cut it to the echoes,
  a prefix, and stop the saver.

A `Units` notification is therefore released only for the head record,
whose forker `QueueAnnouncesForkers` at position 1 says consensus knows.
`ForkerIInvHolds` states `Spec => []ForkerIInv` as a theorem of its own.

## Proofs (`UnitBackupProofs`)

`NoEquivocationHolds` proves `Spec => []NoEquivocation` for every committee,
width `W`, `MaxRound` and number of crashes, under one hypothesis:
`RunwayBelowLastRound`, that is `MaxRound < 2^W - 1`. The hypothesis is
needed. `unit_round_wrap` shows that a runway reaching `u16::MAX` wraps
`next_round_backup` to 0 and forks itself. The theorem says the saver and
the loader are safe below that bound.

`TornAssumption` (a torn item decodes to no unit) is also assumed. TLC
evaluates it on every `UnitBackup` run.

The inductive invariant `BackupIInv` says:

- every echoed unit is in the file, and every broadcast unit of ours is
  in it whole;
- our units in the file or on their way to it (`OwnUnitsSent`) have
  pairwise distinct rounds, were created, and lie below `next_round` while
  the node runs;
- a file without a torn item that holds one of our units has a newest own
  round (`HasNewest`).

The last conjunct is there for the provers. `NextRoundBackup` picks the
newest round with `CHOOSE`, and no installed prover can show that a finite
set of numbers has a maximum without an induction that takes an operator
parameter. The invariant therefore carries the maximum, and `NewestAppend`
maintains it across each append. On restart, the loader's round is one
past that maximum, so it is above every own unit in the file. It is at
least the collection round, so the runway resumes above every round it
used. `BackupIInvHolds` states `Spec => []BackupIInv` as a theorem of its
own.

`BackupRefinementHolds` proves `Spec => BackupRefinement` under the same
hypothesis. It follows the standard pattern:

- `Init` maps to `AbsInit`: the file is empty and nothing is broadcast.
- `RefinementStep` maps each step, under `BackupIInv`, to an abstract step
  or a stutter:
  - `PersistHead`: appending the head of `units_to_save` is `Persist`. The
    head is in `OwnUnitsSent`, so `BackupIInv` gives the round guard.
  - `HandleSaved` is `Broadcast`. The echoed unit is in the file because
    `BackupIInv` puts every echo there.
  - A torn or empty failed write, a crash and a restart change neither the
    whole units of the file nor `broadcast`, so they are stutters.
- PTL combines `[]BackupIInv` with the step and `Init` facts.

The refinement therefore states durability, write-ahead and the round
guard in one formula, for every step.

## Proofs (`LoaderProofs`)

`RefusedOnlyOnTornBackupHolds` proves `Spec => []RefusedOnlyOnTornBackup`
under the same hypothesis, `RunwayBelowLastRound`, for every committee,
width `W`, `MaxRound` and number of crashes. The hypothesis is needed here
too. At the last round a debug build panics in `next_round_backup`, and a
release build wraps to 0 and falls behind the collection.

The argument has one idea: the saver writes a unit only after its parents.
The inductive invariant `LoaderIInv` is `BackupIInv` plus four conjuncts
(`LoaderExtra`):

- `RefusedOnlyOnTornBackup` itself;
- the DAG holds only units of the file;
- `FileConsistent`: every unit at position `i` of the file has its parents
  (`ParentsSaved`) among positions `1 .. i - 1`, at the round below its
  own. A round-0 unit has no parents;
- `QueuedConsistent`: every unit queued for the saver has its parents
  anywhere in the file.

`CreateUnit` and `ReceivePeerUnit` queue a unit whose parents are in the
DAG (`DagParents`), and so in the file. `SaveUnit` appends the head of the
queue, and `SaveUnitFails` may append a torn item. Both keep the earlier
positions (`FileAppend`, `ParentsSavedGrow`). A crash keeps the file and
empties the DAG and the channels.

On `Restart`, `LoaderOutcomeOk` shows the loader's answer is "decode",
"channel" or "start":

- A file without a torn item is a sequence of units (`WholeFile`), and
  `VerifyOk` turns `FileConsistent` into `verify_units` accepting it.
- `NewestBounded` with the hypothesis keeps `next_round_backup` from
  panicking or wrapping. `ModShift` does the `% 2^W` arithmetic.
- `BackupIInv` puts every unit we broadcast in the file. The backup round
  is one past the newest own unit of the file, so it is at least every
  collection round, and the loader never answers "behind".

TLC checks `LoaderIInv` on `unit_backup_inductive`. Checking parents at the
unit's own round (`ParentRoundSame`) violates it there. `LoaderIInvHolds`
states `Spec => []LoaderIInv` under `RunwayBelowLastRound`.

## Proofs (`AlertsRunLoopProofs`)

`LoopForkerBeforeUnitsHolds` proves `LoopSpec => LoopForkerBeforeUnits`
under `HandlerAssumption` and `LoopAssumption`, for every committee, set of
alerts and set of peers.

The step that releases `Units` (`LoopMultisigned`) knows nothing about
earlier notifications. The proof therefore goes through the inductive
invariant `LoopIInv` (in `AlertsRunLoop`), which has two parts:

- `LoopHandlerInv`, about the `Alerter` caches. Every cached alert has a
  known forker. `AlertOfDrivenPair` caches an alert only for a pair whose
  driven alert already made its forker known. The hash driven for a pair is
  a cached alert of that pair.
- `ForkersAnnounced`: every known forker was announced to consensus, by
  our own alert or by a `Forker` notification. `LoopForkAlert` makes a
  forker known and notifies it in the same step. `LoopOwnAlert` records it
  in `runway_alerted`. Announcements only grow (`KnownGrows`).

`UnitsOnlyOfCached` shows that only `LoopMultisigned(h)` adds a `Units`
notification, and only for `h`. `AlertConfirmed` requires `h` to be cached,
so its forker is known and announced.

`LoopIInv` is not a property of the `loop_safety` run. With
`INVARIANT LoopIInv` in `MC_AlertsRunLoop.cfg`, TLC finds no violation in the
8590 states of that instance.

## Only model-checked

- `ParkedActionsCompleted` and `QueuedAlertsSent` are liveness under
  fairness. Their proofs need `ENABLED` and the fairness of `FairSpec` and
  `HubSpec`, which the provers here do not handle.
- Both liveness properties excuse a stopped task, as the code does.
  - `ParkedActionsCompleted` holds once the saver has stopped, so it does
    not catch a parked action lost to a failed send (service.rs 193).
  - `QueuedAlertsSent` holds once the hub has stopped, so it does not catch
    alerts dropped when the units stream closes (network.rs 139).
  - The weak fairness of the hub's alerts branch assumes that `select!`
    does not starve a ready branch. It is not checked.

## Not modelled, and the plan

- **Several nodes with quorum RMC**: a protocol module that checks spec
  invariant 3 (at most one canonical alert per pair). This matters because
  `alert_confirmed` lets any complete multisignature overwrite `known_rmcs`.
- **Crash and restart with replay of the backup**. `ServiceExit` drops echoes
  that were not handled, and spec 5 says to drain them.
- **An abstract write-ahead specification** that `AlertService` refines.
- The runway itself is not in this snapshot. `UnitBackup` models only what
  spec 4.3 says of it: write-ahead of our units, and resuming at the loader's
  round.
- Power loss. `flush` is not `fsync`, and the `BackupWriter` is supplied by
  the user. The model's crash keeps every flushed byte.
- The `AlertData` partition that the loader hands to the alerter, and its
  replay.
- The SCALE codec, the example TCP network, and the mock keychain and
  spawner. These are I/O or plain data, with no state of their own.
  `NetworkData` is a record tagged with its kind.
- Signatures and hashing. They are abstracted to the booleans of an alert, and
  an alert is its own hash.
