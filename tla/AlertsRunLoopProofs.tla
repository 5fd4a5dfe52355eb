------------------------- MODULE AlertsRunLoopProofs -------------------------
(***************************************************************************)
(* Proof that the legacy loop (alerts::run) tells consensus of a forker    *)
(* before it releases legit units of it, for every committee, set of       *)
(* alerts and set of peers that satisfy the modules' assumptions.          *)
(***************************************************************************)
EXTENDS AlertsRunLoop, SequenceTheorems, TLAPS

USE HandlerAssumption, LoopAssumption

\* The handler part of LoopIInv: the caches of Alerter agree.
LoopHandlerInv ==
    /\ \A a \in known_alerts : Forker(a) \in known_forkers
    /\ \A p \in Pairs : known_rmcs[p] # NoAlert =>
          known_rmcs[p] \in known_alerts /\ Pair(known_rmcs[p]) = p

\* The loop part of LoopIInv: every known forker was announced.
ForkersAnnounced == \A f \in known_forkers : LoopForkerKnown(f)

LEMMA LoopIInvSplit == LoopIInv <=> LoopTypeOK /\ LoopHandlerInv /\ ForkersAnnounced
    BY DEF LoopIInv, LoopHandlerInv, ForkersAnnounced

-----------------------------------------------------------------------------
(* Lemmas on the operators of the model.                                   *)

\* Notify appends: the notifications sent so far stay sent.
LEMMA RangeAppend ==
    ASSUME NEW S, NEW s \in Seq(S), NEW x \in S
    PROVE  Range(Append(s, x)) = Range(s) \cup {x}
<1> DEFINE t == Append(s, x)
<1>1. Len(t) = Len(s) + 1 /\ t[Len(s) + 1] = x
      /\ \A i \in 1 .. Len(s) : t[i] = s[i]
      /\ DOMAIN t = 1 .. Len(s) + 1 /\ DOMAIN s = 1 .. Len(s)
    BY AppendProperties, LenProperties
<1>2. QED
    BY <1>1 DEF Range

\* A forker once announced stays announced while the runway's alerts and
\* the notifications only grow.
LEMMA KnownGrows ==
    ASSUME NEW f, LoopForkerKnown(f),
           runway_alerted \subseteq runway_alerted',
           Range(notifications_for_units) \subseteq Range(notifications_for_units')
    PROVE  LoopForkerKnown(f)'
    BY DEF LoopForkerKnown

\* rmc_alert(forker, alert) on a known forker keeps the caches in agreement.
LEMMA RmcAlertAgrees ==
    ASSUME HandlerTypeOK, LoopHandlerInv, NEW a \in Alerts,
           known_forkers' = known_forkers \cup {Forker(a)}, RmcAlert(a)
    PROVE  LoopHandlerInv'
<1>1. Pair(a) \in Pairs
    BY DEF Pair, Forker, Pairs
<1>2. \A p \in Pairs : known_rmcs'[p] = IF p = Pair(a) THEN a ELSE known_rmcs[p]
    BY <1>1 DEF RmcAlert, HandlerTypeOK
<1>3. QED
    BY <1>2 DEF RmcAlert, LoopHandlerInv

\* Notify of a notification about an alert keeps the notifications typed
\* and only adds to them.
LEMMA NotifyFacts ==
    ASSUME LoopTypeOK, NEW k \in {"Forker", "Units"}, NEW a \in Alerts,
           Notify(Notification(k, a))
    PROVE  /\ notifications_for_units' \in Seq(Notifications)
           /\ Range(notifications_for_units') =
                 Range(notifications_for_units) \cup {Notification(k, a)}
<1>1. Notification(k, a) \in Notifications
    BY DEF Notification, Notifications
<1>2. QED
    BY <1>1, RangeAppend, AppendProperties DEF Notify, LoopTypeOK

\* A step that leaves the handler, the runway's alerts and the
\* notifications alone, and keeps the types, keeps LoopIInv.
LEMMA QuietKeeps ==
    ASSUME LoopIInv, LoopTypeOK',
           UNCHANGED <<handler_vars, notifications_for_units, runway_alerted>>
    PROVE  LoopIInv'
    BY DEF LoopIInv, LoopForkerKnown, handler_vars

-----------------------------------------------------------------------------
(* One lemma per step of the loop.                                         *)

\* ForkAlert: a rejected alert changes nothing, a cached one has a known
\* forker, and an accepted one of a new forker is announced in its step.
LEMMA ForkAlertStep ==
    ASSUME LoopIInv, NEW a \in Alerts, LoopForkAlert(a)
    PROVE  LoopIInv'
<1>1. LoopTypeOK /\ LoopHandlerInv /\ ForkersAnnounced
    BY LoopIInvSplit
<1>2. CASE AlertRejected(a) /\ UNCHANGED vars
    <2>1. UNCHANGED <<handler_vars, notifications_for_units, runway_alerted>>
          /\ UNCHANGED <<messages_for_network, running, rmc_vars>>
        BY <1>2 DEF vars, loop_vars
    <2>2. LoopTypeOK'
        BY <1>1, <2>1 DEF LoopTypeOK, HandlerTypeOK, handler_vars, rmc_vars
    <2>3. QED
        BY <2>1, <2>2, QuietKeeps
<1>3. CASE AlertOfDrivenPair(a) /\ UNCHANGED <<loop_vars, rmc_vars>>
    <2>1. Pair(a) \in Pairs
        BY DEF Pair, Forker, Pairs
    <2>2. PICK c \in known_alerts : c = known_rmcs[Pair(a)] /\ Pair(c) = Pair(a)
        BY <1>1, <1>3, <2>1 DEF AlertOfDrivenPair, LoopHandlerInv
    <2>3. Forker(a) \in known_forkers
        BY <1>1, <2>2 DEF LoopHandlerInv, Pair
    <2>4. LoopHandlerInv'
        BY <1>1, <1>3, <2>3 DEF AlertOfDrivenPair, LoopHandlerInv
    <2>5. LoopTypeOK'
        BY <1>1, <1>3 DEF AlertOfDrivenPair, LoopTypeOK, HandlerTypeOK, loop_vars,
                          rmc_vars
    <2>6. ForkersAnnounced'
        BY <1>1, <1>3 DEF AlertOfDrivenPair, ForkersAnnounced, LoopForkerKnown,
                          loop_vars
    <2>7. QED
        BY <2>4, <2>5, <2>6 DEF LoopIInv, LoopHandlerInv, ForkersAnnounced
<1>4. CASE /\ AcceptNetworkAlert(a)
           /\ StartRmc(a)
           /\ IF NewForker(a) THEN Notify(Notification("Forker", a))
                              ELSE UNCHANGED notifications_for_units
           /\ UNCHANGED <<messages_for_network, running, runway_alerted,
                          rmc_multisigned>>
    <2>1. /\ notifications_for_units' \in Seq(Notifications)
          /\ Range(notifications_for_units) \subseteq Range(notifications_for_units')
          /\ NewForker(a) => Notification("Forker", a) \in Range(notifications_for_units')
        <3>1. CASE NewForker(a)
            BY <1>1, <1>4, <3>1, NotifyFacts
        <3>2. CASE ~NewForker(a)
            BY <1>1, <1>4, <3>2 DEF LoopTypeOK
        <3>3. QED
            BY <3>1, <3>2
    <2>2. LoopHandlerInv'
        BY <1>1, <1>4, RmcAlertAgrees DEF AcceptNetworkAlert, LoopTypeOK
    <2>3. LoopTypeOK'
        <3>1. Pair(a) \in Pairs
            BY DEF Pair, Forker, Pairs
        <3>2. HandlerTypeOK'
            BY <1>1, <1>4, <3>1 DEF AcceptNetworkAlert, RmcAlert, LoopTypeOK,
                                    HandlerTypeOK, Forker
        <3>3. QED
            BY <1>1, <1>4, <2>1, <3>2 DEF StartRmc, LoopTypeOK
    <2>4. ASSUME NEW f \in known_forkers' PROVE LoopForkerKnown(f)'
        <3>1. CASE f \in known_forkers
            BY <1>1, <1>4, <2>1, <3>1, KnownGrows DEF ForkersAnnounced
        <3>2. CASE f \notin known_forkers
            <4>1. f = Forker(a) /\ NewForker(a)
                BY <1>4, <3>2 DEF AcceptNetworkAlert, NewForker
            <4>2. QED
                BY <2>1, <4>1 DEF LoopForkerKnown
        <3>3. QED
            BY <3>1, <3>2
    <2>5. QED
        BY <2>2, <2>3, <2>4 DEF LoopIInv, LoopHandlerInv
<1>5. QED
    BY <1>2, <1>3, <1>4 DEF LoopForkAlert

\* A message handed to the network is one of the model's messages.
LEMMA SendTyped ==
    ASSUME LoopTypeOK, NEW t \in {"ForkAlert", "AlertRequest", "SignedHash", "Multisigned"},
           NEW h \in Alerts, NEW to \in Nodes \cup {Everyone},
           SendToNetwork(Message(t, h, to))
    PROVE  messages_for_network' \subseteq Messages
    BY DEF SendToNetwork, Message, Messages, LoopTypeOK

\* The RMC messages, the requests, RMC's own output and the exit touch
\* neither the handler's forkers nor the notifications.
LEMMA QuietSteps ==
    ASSUME LoopIInv,
           \/ \E s \in Peers, h \in Alerts, c \in BOOLEAN : LoopRmcMessage(s, h, c)
           \/ \E n \in Peers, h \in Alerts : LoopAlertRequest(n, h)
           \/ \E h \in Alerts : LoopRmcOut(h)
           \/ LoopExit
    PROVE  LoopIInv'
<1>1. LoopTypeOK
    BY DEF LoopIInv
<1>2. CASE \E s \in Peers, h \in Alerts, c \in BOOLEAN : LoopRmcMessage(s, h, c)
    <2>1. PICK s \in Peers, h \in Alerts, c \in BOOLEAN : LoopRmcMessage(s, h, c)
        BY <1>2
    <2>2. s \in Nodes
        BY LoopAssumption
    <2>3. CASE RmcForUnknownAlert(h)
               /\ SendToNetwork(Message("AlertRequest", h, s))
               /\ UNCHANGED <<handler_vars, notifications_for_units, running,
                              runway_alerted, rmc_vars>>
        <3>1. messages_for_network' \subseteq Messages
            BY <1>1, <2>2, <2>3, SendTyped
        <3>2. QED
            BY <1>1, <2>3, <3>1, QuietKeeps DEF LoopTypeOK, HandlerTypeOK,
               handler_vars, rmc_vars
    <2>4. CASE RmcPassedOn(h, c)
               /\ rmc_heard' = rmc_heard \cup {h}
               /\ UNCHANGED <<handler_vars, loop_vars, rmc_started, rmc_multisigned>>
        BY <1>1, <2>4, QuietKeeps DEF LoopTypeOK, HandlerTypeOK, handler_vars, loop_vars
    <2>5. CASE RmcStale(h, c) /\ UNCHANGED vars
        BY <1>1, <2>5, QuietKeeps DEF LoopTypeOK, HandlerTypeOK, handler_vars,
           loop_vars, rmc_vars, vars
    <2>6. QED
        BY <2>1, <2>3, <2>4, <2>5 DEF LoopRmcMessage
<1>3. CASE \E n \in Peers, h \in Alerts : LoopAlertRequest(n, h)
    <2>1. PICK n \in Peers, h \in Alerts : LoopAlertRequest(n, h)
        BY <1>3
    <2>2. n \in Nodes
        BY LoopAssumption
    <2>3. CASE AlertRequestAnswered(h)
               /\ SendToNetwork(Message("ForkAlert", h, n))
               /\ UNCHANGED <<handler_vars, notifications_for_units, running,
                              runway_alerted, rmc_vars>>
        <3>1. messages_for_network' \subseteq Messages
            BY <1>1, <2>2, <2>3, SendTyped
        <3>2. QED
            BY <1>1, <2>3, <3>1, QuietKeeps DEF LoopTypeOK, HandlerTypeOK,
               handler_vars, rmc_vars
    <2>4. CASE ~AlertRequestAnswered(h) /\ UNCHANGED vars
        BY <1>1, <2>4, QuietKeeps DEF LoopTypeOK, HandlerTypeOK, handler_vars,
           loop_vars, rmc_vars, vars
    <2>5. QED
        BY <2>1, <2>3, <2>4 DEF LoopAlertRequest
<1>4. CASE \E h \in Alerts : LoopRmcOut(h)
    <2>1. PICK h \in Alerts : LoopRmcOut(h)
        BY <1>4
    <2>2. messages_for_network' \subseteq Messages
        <3>1. CASE SendToNetwork(Message("SignedHash", h, Everyone))
            BY <1>1, <3>1, SendTyped
        <3>2. CASE SendToNetwork(Message("Multisigned", h, Everyone))
            BY <1>1, <3>2, SendTyped
        <3>3. QED
            BY <2>1, <3>1, <3>2 DEF LoopRmcOut
    <2>3. QED
        BY <1>1, <2>1, <2>2, QuietKeeps DEF LoopRmcOut, LoopTypeOK, HandlerTypeOK,
           handler_vars, rmc_vars
<1>5. CASE LoopExit
    BY <1>1, <1>5, QuietKeeps DEF LoopExit, LoopTypeOK, HandlerTypeOK,
       handler_vars, rmc_vars
<1>6. QED
    BY <1>2, <1>3, <1>4, <1>5

\* The runway's own alert: its forker is announced by the alert itself.
LEMMA OwnAlertStep ==
    ASSUME LoopIInv, NEW a \in OwnAlerts, LoopOwnAlert(a)
    PROVE  LoopIInv'
<1>1. LoopTypeOK /\ LoopHandlerInv /\ ForkersAnnounced /\ a \in Alerts
    BY LoopIInvSplit DEF OwnAlerts
<1>2. LoopHandlerInv'
    BY <1>1, RmcAlertAgrees DEF LoopOwnAlert, OnOwnAlert, LoopTypeOK
<1>3. LoopTypeOK'
    <2>1. Pair(a) \in Pairs /\ Forker(a) \in Nodes
        BY <1>1 DEF Pair, Forker, Pairs
    <2>2. HandlerTypeOK'
        BY <1>1, <2>1 DEF LoopOwnAlert, OnOwnAlert, RmcAlert, LoopTypeOK, HandlerTypeOK
    <2>3. messages_for_network' \subseteq Messages
        BY <1>1, SendTyped DEF LoopOwnAlert
    <2>4. QED
        BY <1>1, <2>1, <2>2, <2>3 DEF LoopOwnAlert, StartRmc, LoopTypeOK
<1>4. ForkersAnnounced'
    <2>1. ASSUME NEW f \in known_forkers' PROVE LoopForkerKnown(f)'
        <3>1. CASE f \in known_forkers
            BY <1>1, <3>1, KnownGrows DEF LoopOwnAlert, ForkersAnnounced
        <3>2. CASE f = Forker(a)
            BY <3>2 DEF LoopOwnAlert, LoopForkerKnown
        <3>3. QED
            BY <3>1, <3>2 DEF LoopOwnAlert, OnOwnAlert
    <2>2. QED
        BY <2>1 DEF ForkersAnnounced
<1>5. QED
    BY <1>2, <1>3, <1>4 DEF LoopIInv, LoopHandlerInv, ForkersAnnounced

\* A completed RMC: the hash was a cached alert, so its forker is known and,
\* by ForkersAnnounced, announced.
LEMMA MultisignedStep ==
    ASSUME LoopIInv, NEW h \in Alerts, LoopMultisigned(h)
    PROVE  LoopIInv'
<1>1. LoopTypeOK /\ LoopHandlerInv /\ ForkersAnnounced
    BY LoopIInvSplit
<1>2. Pair(h) \in Pairs /\ h \in known_alerts
    BY DEF Pair, Forker, Pairs, LoopMultisigned, AlertConfirmed
<1>3. \A p \in Pairs : known_rmcs'[p] = IF p = Pair(h) THEN h ELSE known_rmcs[p]
    BY <1>1, <1>2 DEF LoopMultisigned, AlertConfirmed, LoopTypeOK, HandlerTypeOK
<1>4. LoopHandlerInv'
    BY <1>1, <1>2, <1>3 DEF LoopMultisigned, AlertConfirmed, LoopHandlerInv
<1>5. /\ notifications_for_units' \in Seq(Notifications)
      /\ Range(notifications_for_units) \subseteq Range(notifications_for_units')
    <2>1. CASE CorrectCommitment(h)
        BY <1>1, <2>1, NotifyFacts DEF LoopMultisigned
    <2>2. CASE ~CorrectCommitment(h)
        BY <1>1, <2>2 DEF LoopMultisigned, LoopTypeOK
    <2>3. QED
        BY <2>1, <2>2
<1>6. LoopTypeOK'
    <2>1. HandlerTypeOK'
        BY <1>1, <1>2, <1>3 DEF LoopMultisigned, AlertConfirmed, LoopTypeOK,
                                HandlerTypeOK
    <2>2. QED
        BY <1>1, <1>5, <2>1 DEF LoopMultisigned, LoopTypeOK
<1>7. ForkersAnnounced'
    BY <1>1, <1>5, KnownGrows DEF LoopMultisigned, AlertConfirmed, ForkersAnnounced
<1>8. QED
    BY <1>4, <1>6, <1>7 DEF LoopIInv, LoopHandlerInv, ForkersAnnounced
-----------------------------------------------------------------------------
(* The theorem.                                                            *)

\* Every step of the loop preserves LoopIInv.
LEMMA LoopIInvStep == LoopIInv /\ [LoopNext]_vars => LoopIInv'
<1> SUFFICES ASSUME LoopIInv, [LoopNext]_vars PROVE LoopIInv'
    OBVIOUS
<1>1. CASE \E a \in Alerts : LoopForkAlert(a)
    BY <1>1, ForkAlertStep
<1>2. CASE \E a \in OwnAlerts : LoopOwnAlert(a)
    BY <1>2, OwnAlertStep
<1>3. CASE \E h \in Alerts : LoopMultisigned(h)
    BY <1>3, MultisignedStep
<1>4. CASE UNCHANGED vars
    <2>1. UNCHANGED <<handler_vars, notifications_for_units, runway_alerted>>
          /\ UNCHANGED <<messages_for_network, running, rmc_vars>>
        BY <1>4 DEF vars, loop_vars
    <2>2. LoopTypeOK'
        BY <2>1 DEF LoopIInv, LoopTypeOK, HandlerTypeOK, handler_vars, rmc_vars
    <2>3. QED
        BY <2>1, <2>2, QuietKeeps
<1>5. QED
    BY <1>1, <1>2, <1>3, <1>4, QuietSteps DEF LoopNext

\* The loop starts with empty caches and nothing sent.
LEMMA LoopIInvInit == LoopInit => LoopIInv
<1> SUFFICES ASSUME LoopInit PROVE LoopIInv
    OBVIOUS
<1>1. << >> \in Seq(Notifications)
    OBVIOUS
<1>2. QED
    BY <1>1 DEF LoopInit, HandlerInit, LoopIInv, LoopTypeOK, HandlerTypeOK

\* A step that adds a Units notification about a is LoopMultisigned on
\* a, and a is then a cached alert.
LEMMA UnitsOnlyOfCached ==
    ASSUME LoopIInv, [LoopNext]_vars, NEW a \in Alerts,
           Notification("Units", a) \in Range(notifications_for_units')
                                        \ Range(notifications_for_units)
    PROVE  a \in known_alerts
<1>1. LoopTypeOK
    BY DEF LoopIInv
<1>2. CASE \E b \in Alerts : LoopForkAlert(b)
    <2>1. PICK b \in Alerts : LoopForkAlert(b)
        BY <1>2
    <2>2. Range(notifications_for_units') \subseteq
             Range(notifications_for_units) \cup {Notification("Forker", b)}
        <3>1. CASE AcceptNetworkAlert(b) /\ NewForker(b)
            <4>1. Notify(Notification("Forker", b))
                BY <2>1, <3>1 DEF LoopForkAlert, AcceptNetworkAlert, AlertRejected,
                                  AlertOfDrivenPair
            <4>2. QED
                BY <1>1, <4>1, NotifyFacts
        <3>2. CASE ~(AcceptNetworkAlert(b) /\ NewForker(b))
            BY <2>1, <3>2 DEF LoopForkAlert, vars, loop_vars
        <3>3. QED
            BY <3>1, <3>2
    <2>3. Notification("Units", a) # Notification("Forker", b)
        BY DEF Notification
    <2>4. QED
        BY <2>2, <2>3
<1>3. CASE \E h \in Alerts : LoopMultisigned(h)
    <2>1. PICK h \in Alerts : LoopMultisigned(h)
        BY <1>3
    <2>2. CorrectCommitment(h)
        BY <2>1 DEF LoopMultisigned
    <2>3. Range(notifications_for_units') =
             Range(notifications_for_units) \cup {Notification("Units", h)}
        BY <1>1, <2>1, <2>2, NotifyFacts DEF LoopMultisigned
    <2>4. a = h
        BY <2>3 DEF Notification
    <2>5. QED
        BY <2>1, <2>4 DEF LoopMultisigned, AlertConfirmed
<1>4. CASE \/ \E s \in Peers, h \in Alerts, c \in BOOLEAN : LoopRmcMessage(s, h, c)
           \/ \E n \in Peers, h \in Alerts : LoopAlertRequest(n, h)
           \/ \E a2 \in OwnAlerts : LoopOwnAlert(a2)
           \/ \E h \in Alerts : LoopRmcOut(h)
           \/ LoopExit
           \/ UNCHANGED vars
    <2>1. UNCHANGED notifications_for_units
        BY <1>4 DEF LoopRmcMessage, LoopAlertRequest, LoopOwnAlert, LoopRmcOut,
                    LoopExit, vars, loop_vars
    <2>2. QED
        BY <2>1
<1>5. QED
    BY <1>2, <1>3, <1>4 DEF LoopNext

\* LoopForkerBeforeUnits (alerts::run, mod.rs): a Units notification of
\* alert a is sent to consensus only after consensus heard of Forker(a),
\* from the runway's own alert or a Forker notification, for every
\* committee, set of alerts and set of peers.  The loop notifies only a
\* new forker in on_network_alert; the Units of a cached or later alert of
\* the same forker rely on the earlier announcement.
THEOREM LoopForkerBeforeUnitsHolds == LoopSpec => LoopForkerBeforeUnits
<1>1. LoopSpec => []LoopIInv
    BY LoopIInvInit, LoopIInvStep, PTL DEF LoopSpec
<1>2. LoopIInv /\ [LoopNext]_vars =>
         [\A a \in Alerts :
             Notification("Units", a) \in Range(notifications_for_units')
                                          \ Range(notifications_for_units)
             => LoopForkerKnown(Forker(a))]_vars
    <2> SUFFICES ASSUME LoopIInv, [LoopNext]_vars, NEW a \in Alerts,
                        Notification("Units", a) \in Range(notifications_for_units')
                                                     \ Range(notifications_for_units)
                 PROVE  LoopForkerKnown(Forker(a))
        OBVIOUS
    <2>1. a \in known_alerts
        BY UnitsOnlyOfCached
    <2>2. QED
        BY <2>1 DEF LoopIInv
<1>3. QED
    BY <1>1, <1>2, PTL DEF LoopSpec, LoopForkerBeforeUnits
=============================================================================
