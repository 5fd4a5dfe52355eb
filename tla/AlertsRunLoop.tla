---------------------------- MODULE AlertsRunLoop ----------------------------
(***************************************************************************)
(* The legacy alerter task alerts::run (consensus/src/alerts/mod.rs): one  *)
(* select! loop that drives the same Alerter (AlertHandler) with no backup *)
(* in between.  Every response of the handler is acted on in the step that *)
(* produced it: an accepted network alert starts RMC and, for a new forker,*)
(* notifies consensus at once; an own alert is broadcast and its RMC       *)
(* started at once.  The RMC engine is its contract, as in AlertService.   *)
(***************************************************************************)
EXTENDS AlertHandler, Sequences, Functions

CONSTANTS
    Peers,      \* the nodes whose requests and RMC messages reach us
    Everyone    \* Recipient::Everyone

ASSUME LoopAssumption ==
    /\ Peers \subseteq Nodes \ {Self}
    /\ Everyone \notin Nodes

VARIABLES
    messages_for_network,     \* every message handed to the network
    notifications_for_units,  \* ForkingNotifications sent to consensus
    rmc_started,              \* hashes io.rmc.start_rmc was called on
    rmc_heard,                \* hashes the RMC has received anything about
    rmc_multisigned,          \* hashes next_multisigned_hash has yielded
    running,                  \* the loop has not broken (!alerter.exiting)
    runway_alerted            \* forkers the runway raised an own alert about

loop_vars == <<messages_for_network, notifications_for_units, running,
               runway_alerted>>
rmc_vars == <<rmc_started, rmc_heard, rmc_multisigned>>
vars == <<handler_vars, loop_vars, rmc_vars>>

Message(t, a, to) == [type |-> t, alert |-> a, to |-> to]
Messages == [type : {"ForkAlert", "AlertRequest", "SignedHash", "Multisigned"},
             alert : Alerts, to : Nodes \cup {Everyone}]
Notification(k, a) == [kind |-> k, alert |-> a]
Notifications == [kind : {"Forker", "Units"}, alert : Alerts]

OwnAlerts == {a \in Alerts : a.sender = Self /\ WhoIsForking(a)}

LoopTypeOK ==
    /\ HandlerTypeOK
    /\ messages_for_network \subseteq Messages
    /\ notifications_for_units \in Seq(Notifications)
    /\ rmc_started \subseteq Alerts
    /\ rmc_heard \subseteq Alerts
    /\ rmc_multisigned \subseteq Alerts
    /\ running \in BOOLEAN
    /\ runway_alerted \subseteq Nodes

LoopInit ==
    /\ HandlerInit
    /\ messages_for_network = {}
    /\ notifications_for_units = <<>>
    /\ rmc_started = {}
    /\ rmc_heard = {}
    /\ rmc_multisigned = {}
    /\ running = TRUE
    /\ runway_alerted = {}

\* io.send_message_for_network, io.rmc.start_rmc, io.send_notification_for_units
SendToNetwork(m) == messages_for_network' = messages_for_network \cup {m}
StartRmc(h) ==
    /\ rmc_started' = rmc_started \cup {h}
    /\ rmc_heard' = rmc_heard \cup {h}
Notify(n) == notifications_for_units' = Append(notifications_for_units, n)

-----------------------------------------------------------------------------
\* Mutant: the ForkResponse branch starts RMC but drops the notification.
LoopForkAlertNoForker(a) ==
    /\ running
    /\ \/ /\ AlertRejected(a)
          /\ UNCHANGED vars
       \/ /\ AlertOfDrivenPair(a)
          /\ UNCHANGED <<loop_vars, rmc_vars>>
       \/ /\ AcceptNetworkAlert(a)
          /\ StartRmc(a)
          /\ UNCHANGED <<messages_for_network, notifications_for_units,
                         running, runway_alerted, rmc_multisigned>>

\* messages_from_network: ForkAlert(alert).  on_network_alert answers None
\* or ForkResponse(notification if the forker is new, hash); the loop
\* starts RMC on the hash and forwards the notification.
LoopForkAlert(a) ==
    /\ running
    /\ \/ /\ AlertRejected(a)
          /\ UNCHANGED vars
       \/ /\ AlertOfDrivenPair(a)
          /\ UNCHANGED <<loop_vars, rmc_vars>>
       \/ /\ AcceptNetworkAlert(a)
          /\ StartRmc(a)
          /\ IF NewForker(a) THEN Notify(Notification("Forker", a))
                             ELSE UNCHANGED notifications_for_units
          /\ UNCHANGED <<messages_for_network, running, runway_alerted,
                         rmc_multisigned>>

\* messages_from_network: RmcMessage(sender, message) about hash h.
LoopRmcMessage(sender, h, complete) ==
    /\ running
    /\ complete => WhoIsForking(h)
    /\ \/ /\ RmcForUnknownAlert(h)
          /\ SendToNetwork(Message("AlertRequest", h, sender))
          /\ UNCHANGED <<handler_vars, notifications_for_units, running,
                         runway_alerted, rmc_vars>>
       \/ /\ RmcPassedOn(h, complete)
          /\ rmc_heard' = rmc_heard \cup {h}
          /\ UNCHANGED <<handler_vars, loop_vars, rmc_started, rmc_multisigned>>
       \/ /\ RmcStale(h, complete)
          /\ UNCHANGED vars

\* messages_from_network: AlertRequest(node, hash).
LoopAlertRequest(node, h) ==
    /\ running
    /\ \/ /\ AlertRequestAnswered(h)
          /\ SendToNetwork(Message("ForkAlert", h, node))
          /\ UNCHANGED <<handler_vars, notifications_for_units, running,
                         runway_alerted, rmc_vars>>
       \/ /\ ~AlertRequestAnswered(h)
          /\ UNCHANGED vars

\* alerts_from_units: on_own_alert, broadcast, start_rmc.  The runway
\* raises one own alert per forker.
LoopOwnAlert(a) ==
    /\ running
    /\ Forker(a) \notin runway_alerted
    /\ runway_alerted' = runway_alerted \cup {Forker(a)}
    /\ OnOwnAlert(a)
    /\ SendToNetwork(Message("ForkAlert", a, Everyone))
    /\ StartRmc(a)
    /\ UNCHANGED <<notifications_for_units, running, rmc_multisigned>>

\* messages_from_rmc: rmc_message_to_network, our signature on a hash we
\* drive or the multisignature of a completed one.
LoopRmcOut(h) ==
    /\ running
    /\ \/ /\ h \in rmc_started \ rmc_multisigned
          /\ SendToNetwork(Message("SignedHash", h, Everyone))
       \/ /\ h \in rmc_multisigned
          /\ SendToNetwork(Message("Multisigned", h, Everyone))
    /\ UNCHANGED <<handler_vars, notifications_for_units, running,
                   runway_alerted, rmc_vars>>

\* rmc.next_multisigned_hash(): alert_confirmed, Units if the commitment
\* is correct.
LoopMultisigned(h) ==
    /\ running
    /\ h \in rmc_heard \ rmc_multisigned
    /\ rmc_multisigned' = rmc_multisigned \cup {h}
    /\ AlertConfirmed(h)
    /\ IF CorrectCommitment(h) THEN Notify(Notification("Units", h))
                               ELSE UNCHANGED notifications_for_units
    /\ UNCHANGED <<messages_for_network, running, runway_alerted,
                   rmc_started, rmc_heard>>

\* The exit signal, a closed stream or a failed send: the loop breaks.
LoopExit ==
    /\ running
    /\ running' = FALSE
    /\ UNCHANGED <<handler_vars, messages_for_network, notifications_for_units,
                   runway_alerted, rmc_vars>>

LoopNext ==
    \/ \E a \in Alerts : LoopForkAlert(a)
    \/ \E s \in Peers, h \in Alerts, c \in BOOLEAN : LoopRmcMessage(s, h, c)
    \/ \E n \in Peers, h \in Alerts : LoopAlertRequest(n, h)
    \/ \E a \in OwnAlerts : LoopOwnAlert(a)
    \/ \E h \in Alerts : LoopRmcOut(h)
    \/ \E h \in Alerts : LoopMultisigned(h)
    \/ LoopExit

LoopSpec == LoopInit /\ [][LoopNext]_vars

-----------------------------------------------------------------------------
\* Consensus hears of a forker (our own alert about it, or a Forker
\* notification of some alert about it) before it receives legit units of
\* that forker: on_network_alert notifies only a new forker, so a Units
\* release of a cached or later alert relies on an earlier alert of the
\* same forker having notified it in its own ForkResponse step.
LoopForkerKnown(f) ==
    \/ f \in runway_alerted
    \/ \E b \in Alerts :
          /\ Forker(b) = f
          /\ Notification("Forker", b) \in Range(notifications_for_units)

LoopForkerBeforeUnits ==
    [][\A a \in Alerts :
          Notification("Units", a) \in Range(notifications_for_units')
                                       \ Range(notifications_for_units)
             => LoopForkerKnown(Forker(a))]_vars
\* The inductive strengthening of LoopForkerBeforeUnits.  Every cached
\* alert has a known forker (AlertOfDrivenPair caches one only for a pair
\* whose driven alert made its forker known), the hash driven for a pair is
\* a cached alert of that pair, and every known forker was announced to
\* consensus in the step that made it known: by the runway's own alert, or
\* by the Forker notification of the first accepted alert about it.
LoopIInv ==
    /\ LoopTypeOK
    /\ \A a \in known_alerts : Forker(a) \in known_forkers
    /\ \A p \in Pairs : known_rmcs[p] # NoAlert =>
          known_rmcs[p] \in known_alerts /\ Pair(known_rmcs[p]) = p
    /\ \A f \in known_forkers : LoopForkerKnown(f)
=============================================================================
