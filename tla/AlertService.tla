---------------------------- MODULE AlertService ----------------------------
(***************************************************************************)
(* The alert service of one node (consensus/src/alerts/service.rs) with    *)
(* the handler it drives (AlertHandler), the backup saver task that        *)
(* persists its decisions (BackupSaver, consensus/src/runway/backup.rs)    *)
(* and the reliable-multicast engine, of which only the contract the       *)
(* service relies on is modelled.                                          *)
(*                                                                         *)
(* Every durable decision goes the same way: the service updates the       *)
(* handler, parks the action it owes in a pending table keyed by the alert *)
(* hash, and sends a record to the saver over an unbounded channel; the    *)
(* saver writes and flushes the record and echoes it back; only when the   *)
(* echo arrives does the service broadcast, start RMC or notify consensus. *)
(* The tasks interleave at their select! points; each step below is one    *)
(* iteration of one select! loop.                                          *)
(***************************************************************************)
EXTENDS AlertHandler, Sequences, Functions

CONSTANTS
    Peers,      \* the nodes whose requests and RMC messages reach us
    Everyone,   \* Recipient::Everyone
    NoEntry     \* absent key of network_alert_responses

ASSUME ServiceAssumption ==
    /\ Peers \subseteq Nodes \ {Self}
    /\ Everyone \notin Nodes
    /\ NoEntry \notin BOOLEAN

VARIABLES
    own_alert_responses,        \* hashes whose own-alert actions wait for the backup
    network_alert_responses,    \* hash -> does a Forker notification wait (or NoEntry)
    multisigned_notifications,  \* hashes whose Units notification waits for the backup
    data_for_backup,            \* channel service -> saver
    responses_from_backup,      \* channel saver -> service
    backup,                     \* the records written and flushed, in file order
    messages_for_network,       \* every message handed to the network
    notifications_for_units,    \* ForkingNotifications sent to consensus, in order
    rmc_started,                \* hashes RMC was told to StartRmc (it signs them)
    rmc_heard,                  \* hashes the RMC engine has received anything about
    rmc_multisigned,            \* hashes for which RMC emitted NewMultisigned
    service_running,            \* the service's select! loop has not broken
    saver_running,              \* the saver's select! loop has not broken
    runway_alerted              \* forkers the runway raised an own alert about

service_vars == <<own_alert_responses, network_alert_responses,
                  multisigned_notifications, messages_for_network,
                  notifications_for_units, service_running>>
backup_vars == <<data_for_backup, responses_from_backup, backup, saver_running>>
rmc_vars == <<rmc_started, rmc_heard, rmc_multisigned>>
vars == <<handler_vars, service_vars, backup_vars, rmc_vars, runway_alerted>>

-----------------------------------------------------------------------------
BackupKinds == {"OwnAlert", "NetworkAlert", "MultisignedHash"}

\* AlertData::OwnAlert(alert), ::NetworkAlert(alert), ::MultisignedHash(ms)
Record(k, a) == [kind |-> k, alert |-> a]
Records == [kind : BackupKinds, alert : Alerts]

\* ForkingNotification::Forker(proof of a) and ::Units(legit units of a)
Notification(k, a) == [kind |-> k, alert |-> a]
Notifications == [kind : {"Forker", "Units"}, alert : Alerts]

\* AlertMessage::ForkAlert, ::AlertRequest and the two RmcHash variants, with
\* the recipient they are handed to the network with.
Message(t, a, to) == [type |-> t, alert |-> a, to |-> to]
Messages == [type : {"ForkAlert", "AlertRequest", "SignedHash", "Multisigned"},
             alert : Alerts, to : Nodes \cup {Everyone}]

\* The alerts the runway may raise itself: signed by us, with a fork it has
\* already verified.
OwnAlerts == {a \in Alerts : a.sender = Self /\ WhoIsForking(a)}

Durable(k, a) == Record(k, a) \in Range(backup)

TypeOK ==
    /\ HandlerTypeOK
    /\ own_alert_responses \subseteq Alerts
    /\ network_alert_responses \in [Alerts -> BOOLEAN \cup {NoEntry}]
    /\ multisigned_notifications \subseteq Alerts
    /\ data_for_backup \in Seq(Records)
    /\ responses_from_backup \in Seq(Records)
    /\ backup \in Seq(Records)
    /\ messages_for_network \subseteq Messages
    /\ notifications_for_units \in Seq(Notifications)
    /\ rmc_started \subseteq Alerts
    /\ rmc_heard \subseteq Alerts
    /\ rmc_multisigned \subseteq Alerts
    /\ service_running \in BOOLEAN
    /\ saver_running \in BOOLEAN
    /\ runway_alerted \subseteq Nodes

Init ==
    /\ HandlerInit
    /\ own_alert_responses = {}
    /\ network_alert_responses = [a \in Alerts |-> NoEntry]
    /\ multisigned_notifications = {}
    /\ data_for_backup = <<>>
    /\ responses_from_backup = <<>>
    /\ backup = <<>>
    /\ messages_for_network = {}
    /\ notifications_for_units = <<>>
    /\ rmc_started = {}
    /\ rmc_heard = {}
    /\ rmc_multisigned = {}
    /\ service_running = TRUE
    /\ saver_running = TRUE
    /\ runway_alerted = {}

-----------------------------------------------------------------------------
(* Helpers of the service.                                                 *)

\* data_for_backup.unbounded_send(r): lost (only logged) once the saver has
\* stopped and dropped its receiver.
SendToBackup(r) ==
    data_for_backup' = IF saver_running THEN Append(data_for_backup, r)
                                        ELSE data_for_backup

\* send_message_for_network(message, recipient)
SendToNetwork(m) == messages_for_network' = messages_for_network \cup {m}

\* send_message_to_rmc(StartRmc(hash)): the engine signs and drives hash.
StartRmc(h) ==
    /\ rmc_started' = rmc_started \cup {h}
    /\ rmc_heard' = rmc_heard \cup {h}

\* send_notification_for_units(notification)
Notify(n) == notifications_for_units' = Append(notifications_for_units, n)

-----------------------------------------------------------------------------
(* The service's select! branches.                                         *)

\* Mutant: the own alert is parked but its record never sent to the saver.
HandleAlertFromRunwayNoBackup(a) ==
    /\ service_running
    /\ Forker(a) \notin runway_alerted
    /\ runway_alerted' = runway_alerted \cup {Forker(a)}
    /\ OnOwnAlert(a)
    /\ own_alert_responses' = own_alert_responses \cup {a}
    /\ UNCHANGED <<network_alert_responses, multisigned_notifications,
                   messages_for_network, notifications_for_units,
                   service_running, backup_vars, rmc_vars>>

\* alerts_from_units: handle_alert_from_runway(alert).  The runway raises
\* one own alert per forker.
HandleAlertFromRunway(a) ==
    /\ service_running
    /\ Forker(a) \notin runway_alerted
    /\ runway_alerted' = runway_alerted \cup {Forker(a)}
    /\ OnOwnAlert(a)
    /\ own_alert_responses' = own_alert_responses \cup {a}
    /\ SendToBackup(Record("OwnAlert", a))
    /\ UNCHANGED <<network_alert_responses, multisigned_notifications,
                   messages_for_network, notifications_for_units,
                   service_running, responses_from_backup, backup,
                   saver_running, rmc_vars>>

\* Mutant: RMC started on an accepted network alert at once, as the run
\* loop of alerts/mod.rs does, instead of after the backup echo.
HandleForkAlertEagerRmc(a) ==
    /\ service_running
    /\ \/ /\ AlertRejected(a)
          /\ UNCHANGED vars
       \/ /\ AlertOfDrivenPair(a)
          /\ UNCHANGED <<service_vars, backup_vars, rmc_vars, runway_alerted>>
       \/ /\ AcceptNetworkAlert(a)
          /\ network_alert_responses' =
                [network_alert_responses EXCEPT ![a] = NewForker(a)]
          /\ SendToBackup(Record("NetworkAlert", a))
          /\ StartRmc(a)
          /\ UNCHANGED <<own_alert_responses, multisigned_notifications,
                         messages_for_network, notifications_for_units,
                         service_running, responses_from_backup, backup,
                         saver_running, rmc_multisigned, runway_alerted>>

\* messages_from_network: ForkAlert(alert).
HandleForkAlert(a) ==
    /\ service_running
    /\ \/ /\ AlertRejected(a)
          /\ UNCHANGED vars
       \/ /\ AlertOfDrivenPair(a)
          /\ UNCHANGED <<service_vars, backup_vars, rmc_vars, runway_alerted>>
       \/ /\ AcceptNetworkAlert(a)
          /\ network_alert_responses' =
                [network_alert_responses EXCEPT ![a] = NewForker(a)]
          /\ SendToBackup(Record("NetworkAlert", a))
          /\ UNCHANGED <<own_alert_responses, multisigned_notifications,
                         messages_for_network, notifications_for_units,
                         service_running, responses_from_backup, backup,
                         saver_running, rmc_vars, runway_alerted>>

\* messages_from_network: RmcHash(sender, message) about hash h; complete
\* says whether message.is_complete().  A complete multisignature needs a
\* quorum of signers, so only an alert with a valid proof can have one.
HandleRmcMessage(sender, h, complete) ==
    /\ service_running
    /\ complete => WhoIsForking(h)
    /\ \/ /\ RmcForUnknownAlert(h)
          /\ SendToNetwork(Message("AlertRequest", h, sender))
          /\ UNCHANGED <<handler_vars, own_alert_responses,
                         network_alert_responses, multisigned_notifications,
                         notifications_for_units, service_running,
                         backup_vars, rmc_vars, runway_alerted>>
       \/ /\ RmcPassedOn(h, complete)
          /\ rmc_heard' = rmc_heard \cup {h}
          /\ UNCHANGED <<handler_vars, service_vars, backup_vars,
                         rmc_started, rmc_multisigned, runway_alerted>>
       \/ /\ RmcStale(h, complete)
          /\ UNCHANGED vars

\* messages_from_network: AlertRequest(node, hash).
HandleAlertRequest(node, h) ==
    /\ service_running
    /\ \/ /\ AlertRequestAnswered(h)
          /\ SendToNetwork(Message("ForkAlert", h, node))
          /\ UNCHANGED <<handler_vars, own_alert_responses,
                         network_alert_responses, multisigned_notifications,
                         notifications_for_units, service_running,
                         backup_vars, rmc_vars, runway_alerted>>
       \/ /\ ~AlertRequestAnswered(h)
          /\ UNCHANGED vars

\* rmc_service.run() / rmc_io.receive(): the engine completes hash h (from
\* a received multisignature or a quorum of partial signatures) and emits
\* NewMultisigned once; handle_multisigned(multisigned) follows.
HandleMultisigned(h) ==
    /\ service_running
    /\ h \in rmc_heard \ rmc_multisigned
    /\ rmc_multisigned' = rmc_multisigned \cup {h}
    /\ AlertConfirmed(h)
    /\ \/ /\ CorrectCommitment(h)
          /\ multisigned_notifications' = multisigned_notifications \cup {h}
          /\ SendToBackup(Record("MultisignedHash", h))
       \/ /\ ~CorrectCommitment(h)
          /\ UNCHANGED <<multisigned_notifications, data_for_backup>>
    /\ UNCHANGED <<own_alert_responses, network_alert_responses,
                   messages_for_network, notifications_for_units,
                   service_running, responses_from_backup, backup,
                   saver_running, rmc_started, rmc_heard, runway_alerted>>

\* rmc_io.receive(): RmcOutgoingMessage::RmcHash, rebroadcast by the
\* engine's scheduler: our partial signature on a hash it drives and has
\* not completed, or the multisignature of a completed one.
RmcMessageToNetwork(h) ==
    /\ service_running
    /\ \/ /\ h \in rmc_started \ rmc_multisigned
          /\ SendToNetwork(Message("SignedHash", h, Everyone))
       \/ /\ h \in rmc_multisigned
          /\ SendToNetwork(Message("Multisigned", h, Everyone))
    /\ UNCHANGED <<handler_vars, own_alert_responses, network_alert_responses,
                   multisigned_notifications, notifications_for_units,
                   service_running, backup_vars, rmc_vars, runway_alerted>>

\* responses_from_backup: handle_data_from_backup(data).  A record whose
\* pending entry is missing is only logged.
HandleDataFromBackup ==
    /\ service_running
    /\ responses_from_backup # <<>>
    /\ responses_from_backup' = Tail(responses_from_backup)
    /\ LET r == Head(responses_from_backup)
           a == r.alert
       IN \/ /\ r.kind = "OwnAlert"
             /\ IF a \in own_alert_responses
                THEN /\ own_alert_responses' = own_alert_responses \ {a}
                     /\ SendToNetwork(Message("ForkAlert", a, Everyone))
                     /\ StartRmc(a)
                ELSE UNCHANGED <<own_alert_responses, messages_for_network,
                                 rmc_started, rmc_heard>>
             /\ UNCHANGED <<network_alert_responses, multisigned_notifications,
                            notifications_for_units>>
          \/ /\ r.kind = "NetworkAlert"
             /\ IF network_alert_responses[a] # NoEntry
                THEN /\ network_alert_responses' =
                            [network_alert_responses EXCEPT ![a] = NoEntry]
                     /\ StartRmc(a)
                     /\ IF network_alert_responses[a]
                        THEN Notify(Notification("Forker", a))
                        ELSE UNCHANGED notifications_for_units
                ELSE UNCHANGED <<network_alert_responses, rmc_started,
                                 rmc_heard, notifications_for_units>>
             /\ UNCHANGED <<own_alert_responses, multisigned_notifications,
                            messages_for_network>>
          \/ /\ r.kind = "MultisignedHash"
             /\ IF a \in multisigned_notifications
                THEN /\ multisigned_notifications' =
                            multisigned_notifications \ {a}
                     /\ Notify(Notification("Units", a))
                ELSE UNCHANGED <<multisigned_notifications,
                                 notifications_for_units>>
             /\ UNCHANGED <<own_alert_responses, network_alert_responses,
                            messages_for_network, rmc_started, rmc_heard>>
    /\ UNCHANGED <<handler_vars, service_running, data_for_backup, backup,
                   saver_running, rmc_multisigned, runway_alerted>>

\* The loop breaks: exit signal, or one of its input streams closed.  Its
\* receivers are dropped with whatever they buffered.
ServiceExit ==
    /\ service_running
    /\ service_running' = FALSE
    /\ responses_from_backup' = <<>>
    /\ UNCHANGED <<handler_vars, own_alert_responses, network_alert_responses,
                   multisigned_notifications, messages_for_network,
                   notifications_for_units, data_for_backup, backup,
                   saver_running, rmc_vars, runway_alerted>>

-----------------------------------------------------------------------------
(* The backup saver's select! branches (BackupSaver::run).                *)

\* Mutant: the record is echoed although save_item wrote nothing.
BackupSaveItemUnwritten ==
    /\ saver_running
    /\ data_for_backup # <<>>
    /\ data_for_backup' = Tail(data_for_backup)
    /\ IF service_running
       THEN /\ responses_from_backup' =
                   Append(responses_from_backup, Head(data_for_backup))
            /\ UNCHANGED saver_running
       ELSE /\ saver_running' = FALSE
            /\ UNCHANGED responses_from_backup
    /\ UNCHANGED <<handler_vars, service_vars, rmc_vars, runway_alerted, backup>>

\* data_from_alerter: save_item writes and flushes, then the record is
\* echoed to the service; if the service has dropped its receiver the
\* saver breaks.
BackupSaveItem ==
    /\ saver_running
    /\ data_for_backup # <<>>
    /\ backup' = Append(backup, Head(data_for_backup))
    /\ data_for_backup' = Tail(data_for_backup)
    /\ IF service_running
       THEN /\ responses_from_backup' =
                   Append(responses_from_backup, Head(data_for_backup))
            /\ UNCHANGED saver_running
       ELSE /\ saver_running' = FALSE
            /\ UNCHANGED responses_from_backup
    /\ UNCHANGED <<handler_vars, service_vars, rmc_vars, runway_alerted>>

\* save_item fails: the saver breaks and its receiver drops what it holds.
BackupSaveFails ==
    /\ saver_running
    /\ data_for_backup # <<>>
    /\ saver_running' = FALSE
    /\ data_for_backup' = <<>>
    /\ UNCHANGED <<handler_vars, service_vars, rmc_vars, runway_alerted,
                   responses_from_backup, backup>>

\* The saver's loop breaks on its exit signal or a closed input stream.
SaverExit ==
    /\ saver_running
    /\ saver_running' = FALSE
    /\ data_for_backup' = <<>>
    /\ UNCHANGED <<handler_vars, service_vars, rmc_vars, runway_alerted,
                   responses_from_backup, backup>>

-----------------------------------------------------------------------------
Next ==
    \/ \E a \in OwnAlerts : HandleAlertFromRunway(a)
    \/ \E a \in Alerts : HandleForkAlert(a)
    \/ \E s \in Peers, h \in Alerts, c \in BOOLEAN :
          HandleRmcMessage(s, h, c)
    \/ \E n \in Peers, h \in Alerts : HandleAlertRequest(n, h)
    \/ \E h \in Alerts : HandleMultisigned(h)
    \/ \E h \in Alerts : RmcMessageToNetwork(h)
    \/ HandleDataFromBackup
    \/ ServiceExit
    \/ BackupSaveItem
    \/ BackupSaveFails
    \/ SaverExit

\* futures::select! polls every ready branch in random order, so neither
\* task starves a ready input: the saver eventually saves what it was sent
\* and the service eventually reads what the saver echoed.
Fairness ==
    /\ WF_vars(BackupSaveItem)
    /\ WF_vars(HandleDataFromBackup)

Spec == Init /\ [][Next]_vars
FairSpec == Spec /\ Fairness

-----------------------------------------------------------------------------
(* Properties.                                                             *)

\* The pending action an acknowledged record is matched with.
Pending(r) ==
    \/ r.kind = "OwnAlert" /\ r.alert \in own_alert_responses
    \/ r.kind = "NetworkAlert" /\ network_alert_responses[r.alert] # NoEntry
    \/ r.kind = "MultisignedHash" /\ r.alert \in multisigned_notifications

\* Write-ahead (spec 4.3, 8.1, 8.2): nothing with a durable consequence
\* leaves the node before its record is written and flushed.  The own alert
\* is broadcast only after OwnAlert(alert) is in the backup; the node's
\* partial signature on a hash (the RMC engine signs on StartRmc) goes out
\* only after the alert of that hash is in the backup, so a restarted node
\* cannot sign a second alert of the same pair; Units is released only after
\* the MultisignedHash record of its alert.
WriteAhead ==
    /\ \A a \in Alerts :
          Message("ForkAlert", a, Everyone) \in messages_for_network
             => Durable("OwnAlert", a)
    /\ \A a \in Alerts :
          Message("SignedHash", a, Everyone) \in messages_for_network
             => Durable("OwnAlert", a) \/ Durable("NetworkAlert", a)
    /\ \A a \in Alerts :
          Notification("Units", a) \in Range(notifications_for_units)
             => Durable("MultisignedHash", a)

\* Every record on its way through the saver finds its pending action when
\* it comes back (handle_data_from_backup logs a missing entry as a bug),
\* and no record travels twice: each decision is submitted once.
NoMissingResponse ==
    LET q == responses_from_backup \o data_for_backup
    IN  \A i \in DOMAIN q :
           /\ Pending(q[i])
           /\ \A j \in DOMAIN q : i # j => q[i] # q[j]

\* Consensus learns of a forker before it receives legit units of that
\* forker: when the service releases Units of an alert, the runway has
\* either raised its own alert about the forker or already received the
\* Forker notification of some alert about it.
ForkerKnownToConsensus(f) ==
    \/ f \in runway_alerted
    \/ \E b \in Alerts :
          /\ Forker(b) = f
          /\ Notification("Forker", b) \in Range(notifications_for_units)

ForkerBeforeUnits ==
    [][\A a \in Alerts :
          Notification("Units", a) \in Range(notifications_for_units')
                                       \ Range(notifications_for_units)
             => ForkerKnownToConsensus(Forker(a))]_vars

\* Every action parked for the backup is eventually carried out (or
\* found missing), unless the service or the saver has stopped.
Parked(a) ==
    \/ a \in own_alert_responses
    \/ network_alert_responses[a] # NoEntry
    \/ a \in multisigned_notifications

ParkedActionsCompleted ==
    \A a \in Alerts :
       Parked(a) ~> (~Parked(a) \/ ~service_running \/ ~saver_running)

\* The inductive invariant behind WriteAhead: every echoed record is in the
\* backup (the saver echoes only after save_item), and every hash the RMC
\* engine was told to sign has its alert in the backup.
EchoesDurable == Range(responses_from_backup) \subseteq Range(backup)

StartedDurable ==
    \A h \in rmc_started : Durable("OwnAlert", h) \/ Durable("NetworkAlert", h)

IInv == TypeOK /\ EchoesDurable /\ StartedDurable /\ WriteAhead

\* The inductive invariant behind NoMissingResponse.  A record in flight
\* (in either channel of the saver) still has its pending entry, and the
\* decision that submitted it can never be taken again: the runway raised
\* its alert for that forker, the pair has an RMC entry (known_rmcs is never
\* reset), or RMC has already completed the hash.  The two channels hold
\* no record twice and none in common, and the service's end of the echo
\* channel is empty once the service has stopped, so a saver that finds
\* the service gone drops only the record it took.
InFlight == Range(responses_from_backup) \cup Range(data_for_backup)

Submitted(r) ==
    \/ r.kind = "OwnAlert" /\ Forker(r.alert) \in runway_alerted
    \/ r.kind = "NetworkAlert" /\ known_rmcs[Pair(r.alert)] # NoAlert
    \/ r.kind = "MultisignedHash" /\ r.alert \in rmc_multisigned

ResponsesIInv ==
    /\ TypeOK
    /\ ~service_running => responses_from_backup = <<>>
    /\ IsInjective(responses_from_backup)
    /\ IsInjective(data_for_backup)
    /\ Range(responses_from_backup) \cap Range(data_for_backup) = {}
    /\ \A r \in InFlight : Pending(r) /\ Submitted(r)

\* The records the service will read, in the order it will read them.
Queue == responses_from_backup \o data_for_backup

\* Forker f is known to consensus, or a Forker notification about it waits
\* in the record at a position of Queue before i.
ForkerHeard(f, i) ==
    \/ ForkerKnownToConsensus(f)
    \/ \E j \in 1 .. i - 1 :
          /\ Queue[j].kind = "NetworkAlert"
          /\ Forker(Queue[j].alert) = f
          /\ network_alert_responses[Queue[j].alert] = TRUE

\* The inductive invariant behind ForkerBeforeUnits, in three parts.
\* Every alert the handler knows has a known forker, and the hash it drives
\* RMC on for a pair is a known alert of that pair.
KnownAlertsForkers ==
    /\ \A a \in known_alerts : Forker(a) \in known_forkers
    /\ \A p \in Pairs : known_rmcs[p] # NoAlert =>
          known_rmcs[p] \in known_alerts /\ Pair(known_rmcs[p]) = p

\* While the service runs, every multisigned record in the saver's channels
\* has its forker heard of by a record ahead of it, so the Forker
\* notification comes first (the channels are FIFO).
QueueAnnouncesForkers ==
    service_running =>
       \A i \in DOMAIN Queue :
          Queue[i].kind = "MultisignedHash" => ForkerHeard(Forker(Queue[i].alert), i)

\* While the service and the saver run, every known forker is heard of:
\* known to consensus or announced by a record in the saver's channels.
KnownForkersHeard ==
    service_running /\ saver_running =>
       \A f \in known_forkers : ForkerHeard(f, Len(Queue) + 1)

ForkerIInv ==
    /\ ResponsesIInv
    /\ KnownAlertsForkers
    /\ QueueAnnouncesForkers
    /\ KnownForkersHeard

\* Spec 4.3: the backup holds every decision whose loss could cause a
\* premature unit release or a refusal to progress, and 8.6: replaying it
\* reproduces what the node did.  So the alert whose legit units were
\* released must itself be in the backup, not only its MultisignedHash.
UnitsAlertDurable ==
    \A a \in Alerts :
       Notification("Units", a) \in Range(notifications_for_units)
          => Durable("OwnAlert", a) \/ Durable("NetworkAlert", a)

\* Spec section 9 (open question b): when the legit units of a multisigned alert
\* fail validation, no Units notification is emitted but "the multisignature
\* is still recorded in backup".  So every hash whose RMC completed has its
\* MultisignedHash record written or on its way to the saver, as long as the
\* saver runs (handle_multisigned, alert_confirmed).
MultisignedRecorded ==
    \A h \in rmc_multisigned :
       saver_running =>
          \/ Durable("MultisignedHash", h)
          \/ Record("MultisignedHash", h) \in Range(data_for_backup)
=============================================================================
