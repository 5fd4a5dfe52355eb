----------------------- MODULE ForkerBeforeUnitsProofs -----------------------
(***************************************************************************)
(* ForkerBeforeUnits for every committee and set of alerts: the service    *)
(* releases legit units of an alert to consensus only after consensus has *)
(* learnt that its creator forks.  The argument is the FIFO order of the   *)
(* saver's channels: the record that announces a forker is sent before    *)
(* the record of a multisigned alert about it, so it is read first.        *)
(***************************************************************************)
EXTENDS NoMissingResponseProofs

USE HandlerAssumption, ServiceAssumption

-----------------------------------------------------------------------------
(* Lemmas on what the saver's two channels hold in the order the service  *)
(* reads them.                                                             *)

\* The service sends one more record: it is read last.
LEMMA ConcatAppendRight ==
    ASSUME NEW S, NEW s \in Seq(S), NEW t \in Seq(S), NEW x \in S
    PROVE  s \o Append(t, x) = Append(s \o t, x)
<1>1. Append(t, x) = t \o <<x>> /\ Append(s \o t, x) = (s \o t) \o <<x>>
    BY AppendIsConcat, ConcatProperties
<1>2. <<x>> \in Seq(S)
    OBVIOUS
<1>3. QED
    BY <1>1, <1>2, ConcatAssociative

\* The service reads the head of the echoes: the rest is read in order.
LEMMA ConcatTailLeft ==
    ASSUME NEW S, NEW s \in Seq(S), NEW t \in Seq(S), s # << >>
    PROVE  /\ Tail(s) \o t = Tail(s \o t)
           /\ Head(s) = (s \o t)[1]
<1>1. /\ Tail(s) \in Seq(S) /\ Len(Tail(s)) = Len(s) - 1
      /\ \A i \in 1 .. Len(Tail(s)) : Tail(s)[i] = s[i + 1]
      /\ Len(s) \in Nat \ {0} /\ Head(s) = s[1]
    BY HeadTailProperties, LenProperties
<1>2. /\ s \o t \in Seq(S) /\ Len(s \o t) = Len(s) + Len(t)
      /\ \A i \in 1 .. Len(s) + Len(t) :
            (s \o t)[i] = IF i <= Len(s) THEN s[i] ELSE t[i - Len(s)]
      /\ Len(t) \in Nat
    BY ConcatProperties
<1>3. s \o t # << >>
    BY <1>1, <1>2
<1>4. /\ Tail(s \o t) \in Seq(S) /\ Len(Tail(s \o t)) = Len(s \o t) - 1
      /\ \A i \in 1 .. Len(Tail(s \o t)) : Tail(s \o t)[i] = (s \o t)[i + 1]
    BY <1>2, <1>3, HeadTailProperties
<1>5. /\ Tail(s) \o t \in Seq(S) /\ Len(Tail(s) \o t) = Len(Tail(s)) + Len(t)
      /\ \A i \in 1 .. Len(Tail(s)) + Len(t) :
            (Tail(s) \o t)[i] = IF i <= Len(Tail(s)) THEN Tail(s)[i]
                                ELSE t[i - Len(Tail(s))]
    BY <1>1, ConcatProperties
<1>6. Tail(s) \o t = Tail(s \o t)
    BY <1>1, <1>2, <1>4, <1>5, SeqEqual
<1>7. QED
    BY <1>1, <1>2, <1>6

\* The saver moves the head of its queue to the end of the echoes: the
\* service reads the same records in the same order.
LEMMA ConcatMove ==
    ASSUME NEW S, NEW s \in Seq(S), NEW t \in Seq(S), t # << >>
    PROVE  Append(s, Head(t)) \o Tail(t) = s \o t
<1>1. /\ Tail(t) \in Seq(S) /\ Len(Tail(t)) = Len(t) - 1
      /\ \A i \in 1 .. Len(Tail(t)) : Tail(t)[i] = t[i + 1]
      /\ Len(t) \in Nat \ {0} /\ Head(t) = t[1] /\ Head(t) \in S
    BY HeadTailProperties, LenProperties
<1>2. /\ Append(s, Head(t)) \in Seq(S) /\ Len(Append(s, Head(t))) = Len(s) + 1
      /\ \A i \in 1 .. Len(s) : Append(s, Head(t))[i] = s[i]
      /\ Append(s, Head(t))[Len(s) + 1] = Head(t)
      /\ Len(s) \in Nat
    BY <1>1, AppendProperties
<1>3. /\ Append(s, Head(t)) \o Tail(t) \in Seq(S)
      /\ Len(Append(s, Head(t)) \o Tail(t)) = Len(s) + 1 + Len(t) - 1
      /\ \A i \in 1 .. Len(s) + 1 + Len(t) - 1 :
            (Append(s, Head(t)) \o Tail(t))[i] =
               IF i <= Len(s) + 1 THEN Append(s, Head(t))[i]
               ELSE Tail(t)[i - (Len(s) + 1)]
    BY <1>1, <1>2, ConcatProperties
<1>4. /\ s \o t \in Seq(S) /\ Len(s \o t) = Len(s) + Len(t)
      /\ \A i \in 1 .. Len(s) + Len(t) :
            (s \o t)[i] = IF i <= Len(s) THEN s[i] ELSE t[i - Len(s)]
    BY ConcatProperties
<1>5. QED
    BY <1>1, <1>2, <1>3, <1>4, SeqEqual

-----------------------------------------------------------------------------
(* The handler knows the forker of every alert it knows.                   *)

\* rmc_alert after adding the alert's forker keeps KnownAlertsForkers.
LEMMA RmcAlertKeeps ==
    ASSUME HandlerTypeOK, KnownAlertsForkers, NEW a \in Alerts,
           known_forkers' = known_forkers \cup {Forker(a)}, RmcAlert(a)
    PROVE  KnownAlertsForkers'
<1>1. Pair(a) \in Pairs
    BY DEF Pair, Forker, Pairs
<1>2. \A p \in Pairs : known_rmcs'[p] = IF p = Pair(a) THEN a ELSE known_rmcs[p]
    BY <1>1 DEF RmcAlert, HandlerTypeOK
<1>3. QED
    BY <1>2 DEF RmcAlert, KnownAlertsForkers

LEMMA KnownAlertsStep ==
    ASSUME ForkerIInv, [Next]_vars
    PROVE  KnownAlertsForkers'
<1>1. HandlerTypeOK
    BY DEF ForkerIInv, ResponsesIInv, TypeOK
<1>2. CASE \E a \in OwnAlerts : HandleAlertFromRunway(a)
    <2>1. PICK a \in OwnAlerts : HandleAlertFromRunway(a)
        BY <1>2
    <2>2. QED
        BY <1>1, <2>1, RmcAlertKeeps
        DEF HandleAlertFromRunway, OnOwnAlert, OwnAlerts, ForkerIInv
<1>3. CASE \E a \in Alerts : HandleForkAlert(a)
    <2>1. PICK a \in Alerts : HandleForkAlert(a)
        BY <1>3
    <2>2. CASE AlertRejected(a) /\ UNCHANGED vars
        BY <2>2 DEF vars, handler_vars, ForkerIInv, KnownAlertsForkers
    <2>3. CASE AlertOfDrivenPair(a)
        <3>1. Pair(a) \in Pairs
            BY DEF Pair, Forker, Pairs
        <3>2. PICK c \in known_alerts : c = known_rmcs[Pair(a)] /\ Pair(c) = Pair(a)
            BY <2>3, <3>1 DEF AlertOfDrivenPair, ForkerIInv, KnownAlertsForkers
        <3>3. Forker(a) \in known_forkers
            BY <3>2 DEF ForkerIInv, KnownAlertsForkers, Pair
        <3>4. QED
            BY <2>3, <3>3 DEF AlertOfDrivenPair, ForkerIInv, KnownAlertsForkers
    <2>4. CASE AcceptNetworkAlert(a)
        BY <1>1, <2>4, RmcAlertKeeps DEF AcceptNetworkAlert, ForkerIInv
    <2>5. QED
        BY <2>1, <2>2, <2>3, <2>4 DEF HandleForkAlert
<1>4. CASE \E h \in Alerts : HandleMultisigned(h)
    <2>1. PICK h \in Alerts : HandleMultisigned(h)
        BY <1>4
    <2>2. Pair(h) \in Pairs /\ h \in known_alerts
        BY <2>1 DEF Pair, Forker, Pairs, HandleMultisigned, AlertConfirmed
    <2>3. \A p \in Pairs : known_rmcs'[p] = IF p = Pair(h) THEN h ELSE known_rmcs[p]
        BY <1>1, <2>1, <2>2 DEF HandleMultisigned, AlertConfirmed, HandlerTypeOK
    <2>4. QED
        BY <2>1, <2>2, <2>3
        DEF HandleMultisigned, AlertConfirmed, ForkerIInv, KnownAlertsForkers
<1>5. CASE \/ \E s \in Peers, h \in Alerts, c \in BOOLEAN : HandleRmcMessage(s, h, c)
           \/ \E n \in Peers, h \in Alerts : HandleAlertRequest(n, h)
           \/ \E h \in Alerts : RmcMessageToNetwork(h)
           \/ HandleDataFromBackup \/ ServiceExit \/ BackupSaveItem
           \/ BackupSaveFails \/ SaverExit \/ UNCHANGED vars
    <2>1. UNCHANGED handler_vars
        <3>1. CASE \E s \in Peers, h \in Alerts, c \in BOOLEAN : HandleRmcMessage(s, h, c)
            BY <3>1, Zenon DEF HandleRmcMessage, vars
        <3>2. CASE \E n \in Peers, h \in Alerts : HandleAlertRequest(n, h)
            BY <3>2, Zenon DEF HandleAlertRequest, vars
        <3>3. CASE \E h \in Alerts : RmcMessageToNetwork(h)
            BY <3>3 DEF RmcMessageToNetwork
        <3>4. CASE HandleDataFromBackup \/ ServiceExit \/ BackupSaveItem
                   \/ BackupSaveFails \/ SaverExit \/ UNCHANGED vars
            BY <3>4 DEF HandleDataFromBackup, ServiceExit, BackupSaveItem,
                        BackupSaveFails, SaverExit, vars
        <3>5. QED
            BY <1>5, <3>1, <3>2, <3>3, <3>4
    <2>2. QED
        BY <2>1 DEF handler_vars, ForkerIInv, KnownAlertsForkers
<1>6. QED
    BY <1>2, <1>3, <1>4, <1>5 DEF Next

-----------------------------------------------------------------------------
(* A forker heard of stays heard of.                                       *)

\* Consensus never forgets a forker: the runway's alerted forkers and the
\* notifications it received only grow.
KnownKept ==
    /\ runway_alerted \subseteq runway_alerted'
    /\ Range(notifications_for_units) \subseteq Range(notifications_for_units')

\* The pending Forker notification of a network alert in the queue is kept.
NarKept(j) ==
    Queue[j].kind = "NetworkAlert" =>
       network_alert_responses'[Queue[j].alert] = network_alert_responses[Queue[j].alert]

\* The queue is a sequence of distinct records, each of them in flight.
LEMMA QueueFacts ==
    ASSUME ResponsesIInv
    PROVE  /\ Queue \in Seq(Records)
           /\ DOMAIN Queue = 1 .. Len(Queue)
           /\ IsInjective(Queue)
           /\ \A j \in 1 .. Len(Queue) : Queue[j] \in InFlight
<1>1. responses_from_backup \in Seq(Records) /\ data_for_backup \in Seq(Records)
    BY DEF ResponsesIInv, TypeOK
<1>2. Queue \in Seq(Records)
    BY <1>1, ConcatProperties DEF Queue
<1>3. DOMAIN Queue = 1 .. Len(Queue)
    BY <1>2, LenProperties
<1>4. QED
    BY <1>1, <1>2, <1>3, InjectiveConcat DEF ResponsesIInv, Queue, InFlight

LEMMA KnownMonotone ==
    ASSUME KnownKept, NEW f, ForkerKnownToConsensus(f)
    PROVE  ForkerKnownToConsensus(f)'
    BY DEF KnownKept, ForkerKnownToConsensus

\* A step that keeps the queue's first i - 1 records and their pending
\* Forker notifications keeps every forker they announce heard of.
LEMMA HeardPrefix ==
    ASSUME KnownKept, NEW f, NEW i \in Nat,
           \A j \in 1 .. i - 1 : Queue'[j] = Queue[j] /\ NarKept(j),
           ForkerHeard(f, i)
    PROVE  ForkerHeard(f, i)'
<1>1. CASE ForkerKnownToConsensus(f)
    BY <1>1, KnownMonotone DEF ForkerHeard
<1>2. CASE ~ForkerKnownToConsensus(f)
    <2>1. PICK j \in 1 .. i - 1 :
             /\ Queue[j].kind = "NetworkAlert"
             /\ Forker(Queue[j].alert) = f
             /\ network_alert_responses[Queue[j].alert] = TRUE
        BY <1>2 DEF ForkerHeard
    <2>2. QED
        BY <2>1 DEF ForkerHeard, NarKept
<1>3. QED
    BY <1>1, <1>2

\* The service reads the head of the queue: the others move one place up,
\* and the forker the head announces is now known to consensus.
LEMMA HeardShift ==
    ASSUME KnownKept, NEW f, NEW i \in Nat \ {0},
           \A j \in 2 .. i - 1 : Queue'[j - 1] = Queue[j] /\ NarKept(j),
           1 < i /\ Queue[1].kind = "NetworkAlert"
              /\ network_alert_responses[Queue[1].alert] = TRUE
              /\ Forker(Queue[1].alert) = f
              => ForkerKnownToConsensus(f)',
           ForkerHeard(f, i)
    PROVE  ForkerHeard(f, i - 1)'
<1>1. CASE ForkerKnownToConsensus(f)
    BY <1>1, KnownMonotone DEF ForkerHeard
<1>2. CASE ~ForkerKnownToConsensus(f)
    <2>1. PICK j \in 1 .. i - 1 :
             /\ Queue[j].kind = "NetworkAlert"
             /\ Forker(Queue[j].alert) = f
             /\ network_alert_responses[Queue[j].alert] = TRUE
        BY <1>2 DEF ForkerHeard
    <2>2. CASE j = 1
        BY <2>1, <2>2 DEF ForkerHeard
    <2>3. CASE j # 1
        <3>1. j - 1 \in 1 .. (i - 1) - 1 /\ Queue'[j - 1] = Queue[j] /\ NarKept(j)
            BY <2>1, <2>3
        <3>2. QED
            BY <2>1, <3>1 DEF ForkerHeard, NarKept
    <2>4. QED
        BY <2>2, <2>3
<1>3. QED
    BY <1>1, <1>2

-----------------------------------------------------------------------------
(* The queue invariant, for the steps that leave the queue alone and for  *)
(* the steps that send one record.                                         *)

QueueInv == QueueAnnouncesForkers /\ KnownForkersHeard

\* A step that keeps the queue's records in their places, and adds at most
\* one, keeps the queue invariant if it keeps the pending Forker
\* notifications of the records queued, if the record added, when a
\* multisigned one, is about a known forker, and if every forker it makes
\* known is heard of after the queue.
LEMMA QueueExtend ==
    ASSUME ForkerIInv, KnownKept, NEW k \in {0, 1},
           Queue' \in Seq(Records), Len(Queue') = Len(Queue) + k,
           \A j \in 1 .. Len(Queue) : Queue'[j] = Queue[j] /\ NarKept(j),
           service_running' => service_running,
           saver_running' => saver_running,
           k = 1 => /\ saver_running
                    /\ Queue'[Len(Queue) + 1].kind = "MultisignedHash" =>
                          Forker(Queue'[Len(Queue) + 1].alert) \in known_forkers,
           \A f \in known_forkers' \ known_forkers :
              service_running' /\ saver_running' => (ForkerHeard(f, Len(Queue) + 1))'
    PROVE  QueueInv'
<1>1. Queue \in Seq(Records) /\ DOMAIN Queue = 1 .. Len(Queue) /\ Len(Queue) \in Nat
    BY QueueFacts DEF ForkerIInv
<1>2. DOMAIN Queue' = 1 .. Len(Queue')
    OBVIOUS
<1>3. ASSUME NEW f, NEW i \in 1 .. Len(Queue) + 1, ForkerHeard(f, i)
      PROVE  ForkerHeard(f, i)'
    <2>1. \A j \in 1 .. i - 1 : Queue'[j] = Queue[j] /\ NarKept(j)
        BY <1>1
    <2>2. QED
        BY <1>3, <2>1, HeardPrefix
<1>4. QueueAnnouncesForkers'
    <2> SUFFICES ASSUME service_running', NEW i \in DOMAIN Queue',
                        Queue'[i].kind = "MultisignedHash"
                 PROVE  (ForkerHeard(Forker(Queue[i].alert), i))'
        BY DEF QueueAnnouncesForkers
    <2>1. PICK g : g = Forker(Queue'[i].alert)
        OBVIOUS
    <2>2. i \in 1 .. Len(Queue) + 1
        BY <1>1, <1>2
    <2>3. ForkerHeard(g, i)
        <3>1. CASE i \in 1 .. Len(Queue)
            BY <1>1, <2>1, <3>1 DEF ForkerIInv, QueueAnnouncesForkers
        <3>2. CASE i = Len(Queue) + 1
            <4>1. k = 1 /\ saver_running /\ g \in known_forkers
                BY <1>1, <1>2, <2>1, <3>2
            <4>2. QED
                BY <3>2, <4>1 DEF ForkerIInv, KnownForkersHeard
        <3>3. QED
            BY <2>2, <3>1, <3>2, <1>1
    <2>4. ForkerHeard(g, i)'
        BY <2>2, <2>3, <1>3
    <2>5. QED
        BY <2>1, <2>4 DEF ForkerHeard
<1>5. KnownForkersHeard'
    <2> SUFFICES ASSUME service_running', saver_running', NEW f \in known_forkers'
                 PROVE  (ForkerHeard(f, Len(Queue) + 1))'
        BY DEF KnownForkersHeard
    <2>1. CASE f \in known_forkers
        <3>0. PICK m : m = Len(Queue) + 1
            OBVIOUS
        <3>1. ForkerHeard(f, m)
            BY <2>1, <3>0 DEF ForkerIInv, KnownForkersHeard
        <3>2. ForkerHeard(f, m)'
            BY <1>1, <1>3, <3>0, <3>1
        <3>3. m \in Nat /\ Len(Queue') \in Nat /\ m <= Len(Queue') + 1
            BY <1>1, <3>0
        <3>4. \A j \in 1 .. m - 1 : j \in 1 .. (Len(Queue') + 1) - 1
            BY <3>3
        <3>5. QED
            BY <3>2, <3>4 DEF ForkerHeard
    <2>2. QED
        BY <2>1
<1>6. QED
    BY <1>4, <1>5 DEF QueueInv

\* A step that leaves the channels, the tasks, the known forkers and the
\* pending Forker notifications alone keeps the queue invariant.
LEMMA QueueQuiet ==
    ASSUME ForkerIInv, KnownKept,
           UNCHANGED <<responses_from_backup, data_for_backup, service_running,
                       saver_running, known_forkers, network_alert_responses>>
    PROVE  QueueInv'
<1>1. Queue' = Queue /\ Queue \in Seq(Records)
    BY QueueFacts DEF Queue, ForkerIInv
<1>2. \A j \in 1 .. Len(Queue) : NarKept(j)
    BY DEF NarKept
<1>3. QED
    BY <1>1, <1>2, QueueExtend

\* A step that sends the saver one record n keeps the queue invariant under
\* the conditions of QueueExtend.
LEMMA QueueSend ==
    ASSUME ForkerIInv, KnownKept, NEW n \in Records, SendToBackup(n),
           UNCHANGED <<responses_from_backup, service_running, saver_running>>,
           \A j \in 1 .. Len(Queue) : NarKept(j),
           n.kind = "MultisignedHash" => Forker(n.alert) \in known_forkers,
           \A f \in known_forkers' \ known_forkers :
              service_running /\ saver_running => (ForkerHeard(f, Len(Queue) + 1))'
    PROVE  QueueInv'
<1>1. Queue \in Seq(Records)
    BY QueueFacts DEF ForkerIInv
<1>2. responses_from_backup \in Seq(Records) /\ data_for_backup \in Seq(Records)
    BY DEF ForkerIInv, ResponsesIInv, TypeOK
<1>3. CASE saver_running
    <2>1. Queue' = Append(Queue, n)
        BY <1>2, <1>3, ConcatAppendRight DEF SendToBackup, Queue
    <2>2. /\ Queue' \in Seq(Records) /\ Len(Queue') = Len(Queue) + 1
          /\ \A j \in 1 .. Len(Queue) : Queue'[j] = Queue[j]
          /\ Queue'[Len(Queue) + 1] = n
        BY <1>1, <2>1, AppendProperties
    <2>3. QED
        BY <1>3, <2>2, QueueExtend
<1>4. CASE ~saver_running
    <2>1. Queue' = Queue
        BY <1>4 DEF SendToBackup, Queue
    <2>2. QED
        BY <1>1, <1>4, <2>1, QueueExtend
<1>5. QED
    BY <1>3, <1>4

-----------------------------------------------------------------------------
(* The queue invariant, action by action.                                  *)

\* No step of the service or the saver makes consensus forget a forker.
LEMMA KnownKeptStep ==
    ASSUME TypeOK, [Next]_vars
    PROVE  KnownKept
<1>1. CASE HandleDataFromBackup
    <2> DEFINE a == Head(responses_from_backup).alert
    <2>0. Head(responses_from_backup) \in Records
        BY <1>1, HeadTailProperties DEF HandleDataFromBackup, TypeOK
    <2>1. a \in Alerts
        BY <2>0 DEF Records
    <2>2. \/ notifications_for_units' = notifications_for_units
          \/ notifications_for_units' = Append(notifications_for_units, Notification("Forker", a))
          \/ notifications_for_units' = Append(notifications_for_units, Notification("Units", a))
        BY <1>1, Zenon DEF HandleDataFromBackup, Notify
    <2>3. Notification("Forker", a) \in Notifications /\ Notification("Units", a) \in Notifications
        BY <2>1 DEF Notification, Notifications
    <2>4. Range(notifications_for_units) \subseteq Range(notifications_for_units')
        <3>1. notifications_for_units \in Seq(Notifications)
            BY DEF TypeOK
        <3>2. \A n \in Notifications :
                 Range(notifications_for_units) \subseteq Range(Append(notifications_for_units, n))
            BY <3>1, RangeAppend
        <3>3. QED
            BY <2>2, <2>3, <3>2
    <2>5. QED
        BY <1>1, <2>4 DEF HandleDataFromBackup, KnownKept
<1>2. CASE \E a \in OwnAlerts : HandleAlertFromRunway(a)
    BY <1>2 DEF HandleAlertFromRunway, KnownKept
<1>3. CASE ~HandleDataFromBackup /\ ~\E a \in OwnAlerts : HandleAlertFromRunway(a)
    <2>1. UNCHANGED <<runway_alerted, notifications_for_units>>
        BY <1>3 DEF Next, vars, service_vars, HandleForkAlert, HandleRmcMessage,
           HandleAlertRequest, HandleMultisigned, RmcMessageToNetwork,
           ServiceExit, BackupSaveItem, BackupSaveFails, SaverExit
    <2>2. QED
        BY <2>1 DEF KnownKept
<1>4. QED
    BY <1>1, <1>2, <1>3

\* The steps that touch neither channel, task, known forker nor pending
\* Forker notification.
LEMMA QuietQueueStep ==
    ASSUME ForkerIInv, KnownKept,
           \/ \E s \in Peers, h \in Alerts, c \in BOOLEAN : HandleRmcMessage(s, h, c)
           \/ \E n \in Peers, h \in Alerts : HandleAlertRequest(n, h)
           \/ \E h \in Alerts : RmcMessageToNetwork(h)
           \/ \E a \in Alerts : AlertRejected(a) /\ UNCHANGED vars
           \/ \E a \in Alerts : /\ AlertOfDrivenPair(a)
                               /\ UNCHANGED <<service_vars, backup_vars,
                                              rmc_vars, runway_alerted>>
           \/ UNCHANGED vars
    PROVE  QueueInv'
<1>1. UNCHANGED <<responses_from_backup, data_for_backup, service_running,
                  saver_running, known_forkers, network_alert_responses>>
    BY Zenon DEF HandleRmcMessage, HandleAlertRequest, RmcMessageToNetwork,
       AlertOfDrivenPair, vars, handler_vars, service_vars, backup_vars
<1>2. QED
    BY <1>1, QueueQuiet

\* handle_multisigned: the record of a correct commitment is about an alert
\* we know, so about a known forker.
LEMMA MultisignedQueueStep ==
    ASSUME ForkerIInv, KnownKept, NEW h \in Alerts, HandleMultisigned(h)
    PROVE  QueueInv'
<1>1. UNCHANGED <<responses_from_backup, service_running, saver_running,
                  known_forkers, network_alert_responses>>
    BY DEF HandleMultisigned, AlertConfirmed
<1>2. CASE ~CorrectCommitment(h) /\ UNCHANGED data_for_backup
    BY <1>1, <1>2, QueueQuiet
<1>3. CASE CorrectCommitment(h) /\ SendToBackup(Record("MultisignedHash", h))
    <2>1. Record("MultisignedHash", h) \in Records
        BY RecordType DEF BackupKinds
    <2>2. Forker(h) \in known_forkers
        BY DEF HandleMultisigned, AlertConfirmed, ForkerIInv, KnownAlertsForkers
    <2>3. \A j \in 1 .. Len(Queue) : NarKept(j)
        BY <1>1 DEF NarKept
    <2>4. QED
        BY <1>1, <1>3, <2>1, <2>2, <2>3, QueueSend DEF Record
<1>4. QED
    BY <1>2, <1>3 DEF HandleMultisigned

\* What the queue is after a send: one record longer while the saver runs.
LEMMA SendShape ==
    ASSUME ResponsesIInv, NEW n \in Records, SendToBackup(n),
           UNCHANGED <<responses_from_backup, saver_running>>, saver_running
    PROVE  /\ Queue' \in Seq(Records) /\ Len(Queue') = Len(Queue) + 1
           /\ Queue'[Len(Queue) + 1] = n /\ Len(Queue) \in Nat
<1>1. Queue \in Seq(Records)
    BY QueueFacts
<1>2. Queue' = Append(Queue, n)
    BY ConcatAppendRight DEF SendToBackup, Queue, ResponsesIInv, TypeOK
<1>3. QED
    BY <1>1, <1>2, AppendProperties

\* handle_alert_from_runway: the forker it makes known is the runway's own.
LEMMA RunwayQueueStep ==
    ASSUME ForkerIInv, KnownKept, NEW a \in OwnAlerts, HandleAlertFromRunway(a)
    PROVE  QueueInv'
<1>1. Record("OwnAlert", a) \in Records
    BY RecordType DEF BackupKinds, OwnAlerts
<1>2. \A f \in known_forkers' \ known_forkers : ForkerKnownToConsensus(f)'
    BY DEF HandleAlertFromRunway, OnOwnAlert, ForkerKnownToConsensus
<1>3. \A f \in known_forkers' \ known_forkers : (ForkerHeard(f, Len(Queue) + 1))'
    BY <1>2 DEF ForkerHeard
<1>4. \A j \in 1 .. Len(Queue) : NarKept(j)
    BY DEF HandleAlertFromRunway, NarKept
<1>5. QED
    BY <1>1, <1>3, <1>4, QueueSend DEF HandleAlertFromRunway, Record

\* on_network_alert accepts a: a new pair, so no queued network record is
\* about a, and when a's forker is new the record sent for a announces it.
LEMMA AcceptQueueStep ==
    ASSUME ForkerIInv, KnownKept, NEW a \in Alerts,
           /\ AcceptNetworkAlert(a)
           /\ network_alert_responses' =
                 [network_alert_responses EXCEPT ![a] = NewForker(a)]
           /\ SendToBackup(Record("NetworkAlert", a))
           /\ UNCHANGED <<service_running, responses_from_backup, saver_running,
                          runway_alerted, notifications_for_units>>
    PROVE  QueueInv'
<1> DEFINE n == Record("NetworkAlert", a)
<1>1. n \in Records /\ n.kind = "NetworkAlert" /\ n.alert = a
    BY RecordType DEF BackupKinds, Record
<1>2. network_alert_responses \in [Alerts -> BOOLEAN \cup {NoEntry}]
      /\ Pair(a) \in Pairs
    BY DEF ForkerIInv, ResponsesIInv, TypeOK, Pair, Forker, Pairs
<1>3. \A j \in 1 .. Len(Queue) : NarKept(j)
    <2> SUFFICES ASSUME NEW j \in 1 .. Len(Queue), Queue[j].kind = "NetworkAlert"
                 PROVE  network_alert_responses'[Queue[j].alert]
                           = network_alert_responses[Queue[j].alert]
        BY DEF NarKept
    <2>1. Queue[j] \in InFlight /\ Queue[j] \in Records
        BY QueueFacts DEF ForkerIInv, InFlight, ResponsesIInv, TypeOK
    <2>2. known_rmcs[Pair(Queue[j].alert)] # NoAlert
        BY <2>1 DEF ForkerIInv, ResponsesIInv, Submitted
    <2>3. Queue[j].alert # a
        BY <2>2 DEF AcceptNetworkAlert
    <2>4. QED
        BY <1>2, <2>1, <2>3 DEF Records
<1>4. ASSUME NEW f \in known_forkers' \ known_forkers, saver_running
      PROVE  (ForkerHeard(f, Len(Queue) + 1))'
    <2>1. f = Forker(a) /\ NewForker(a)
        BY <1>4 DEF AcceptNetworkAlert, NewForker
    <2>2. network_alert_responses'[a] = TRUE
        BY <1>2, <2>1
    <2>3. Queue' \in Seq(Records) /\ Len(Queue') = Len(Queue) + 1
          /\ Queue'[Len(Queue) + 1] = n /\ Len(Queue) \in Nat
        BY <1>1, <1>4, SendShape DEF ForkerIInv
    <2>4. QED
        BY <1>1, <2>1, <2>2, <2>3 DEF ForkerHeard
<1>5. QED
    BY <1>1, <1>3, <1>4, QueueSend

\* handle_data_from_backup reads the head of the queue: every record moves
\* one place up, and a network record whose Forker notification waits
\* hands it to consensus in the same step.
LEMMA EchoQueueStep ==
    ASSUME ForkerIInv, KnownKept, HandleDataFromBackup
    PROVE  QueueInv'
<1>1. /\ Queue \in Seq(Records) /\ DOMAIN Queue = 1 .. Len(Queue)
      /\ IsInjective(Queue) /\ Len(Queue) \in Nat
    BY QueueFacts DEF ForkerIInv
<1>2. responses_from_backup \in Seq(Records) /\ data_for_backup \in Seq(Records)
      /\ responses_from_backup # << >>
    BY DEF ForkerIInv, ResponsesIInv, TypeOK, HandleDataFromBackup
<1>3. Queue' = Tail(Queue) /\ Head(responses_from_backup) = Queue[1]
    BY <1>2, ConcatTailLeft DEF HandleDataFromBackup, Queue
<1>4. /\ Queue # << >> /\ Len(Queue) >= 1
      /\ Queue' \in Seq(Records) /\ Len(Queue') = Len(Queue) - 1
      /\ \A i \in 1 .. Len(Queue') : Queue'[i] = Queue[i + 1]
    <2>1. Queue # << >>
        BY <1>2, ConcatProperties DEF Queue
    <2>2. QED
        BY <1>1, <1>3, <2>1, HeadTailProperties, LenProperties
<1>5. UNCHANGED <<service_running, saver_running, known_forkers>>
    BY DEF HandleDataFromBackup, handler_vars
<1> DEFINE r == Queue[1]
<1>6. /\ r \in Records
      /\ network_alert_responses \in [Alerts -> BOOLEAN \cup {NoEntry}]
    BY <1>1, <1>4 DEF ForkerIInv, ResponsesIInv, TypeOK
<1>7. \/ network_alert_responses' = network_alert_responses
      \/ /\ r.kind = "NetworkAlert"
         /\ network_alert_responses' =
               [network_alert_responses EXCEPT ![r.alert] = NoEntry]
    BY <1>3, Zenon DEF HandleDataFromBackup
<1>8. \A j \in 2 .. Len(Queue) : NarKept(j)
    <2> SUFFICES ASSUME NEW j \in 2 .. Len(Queue), Queue[j].kind = "NetworkAlert"
                 PROVE  network_alert_responses'[Queue[j].alert]
                           = network_alert_responses[Queue[j].alert]
        BY DEF NarKept
    <2>1. Queue[j] # r /\ Queue[j] \in Records
        BY <1>1 DEF IsInjective
    <2>2. r.kind = "NetworkAlert" => Queue[j].alert # r.alert
        BY <1>6, <2>1 DEF Records
    <2>3. QED
        BY <1>6, <1>7, <2>1, <2>2 DEF Records
<1>9. ASSUME NEW f,
             r.kind = "NetworkAlert", network_alert_responses[r.alert] = TRUE,
             Forker(r.alert) = f
      PROVE  ForkerKnownToConsensus(f)'
    <2>1. notifications_for_units' =
             Append(notifications_for_units, Notification("Forker", r.alert))
        <3>1. network_alert_responses[r.alert] # NoEntry
            BY <1>9
        <3>2. QED
            BY <1>3, <1>9, <3>1 DEF HandleDataFromBackup, Notify
    <2>2. r.alert \in Alerts /\ notifications_for_units \in Seq(Notifications)
        BY <1>6 DEF Records, ForkerIInv, ResponsesIInv, TypeOK
    <2>3. Notification("Forker", r.alert) \in Range(notifications_for_units')
        BY <2>1, <2>2, NotificationType, RangeAppend
    <2>4. QED
        BY <1>9, <2>2, <2>3 DEF ForkerKnownToConsensus
<1>10. ASSUME NEW f, NEW i \in 1 .. Len(Queue) + 1, ForkerHeard(f, i)
       PROVE  ForkerHeard(f, i - 1)'
    <2>1. \A j \in 2 .. i - 1 : Queue'[j - 1] = Queue[j] /\ NarKept(j)
        BY <1>4, <1>8
    <2>2. 1 < i /\ Queue[1].kind = "NetworkAlert"
             /\ network_alert_responses[Queue[1].alert] = TRUE
             /\ Forker(Queue[1].alert) = f
             => ForkerKnownToConsensus(f)'
        BY <1>9
    <2>3. i \in Nat \ {0}
        BY <1>1
    <2>4. QED
        BY <1>10, <2>1, <2>2, <2>3, HeardShift
<1>11. QueueAnnouncesForkers'
    <2> SUFFICES ASSUME service_running', NEW i \in DOMAIN Queue',
                        Queue'[i].kind = "MultisignedHash"
                 PROVE  (ForkerHeard(Forker(Queue[i].alert), i))'
        BY DEF QueueAnnouncesForkers
    <2>1. PICK g : g = Forker(Queue'[i].alert)
        OBVIOUS
    <2>2. i \in 1 .. Len(Queue') /\ i + 1 \in DOMAIN Queue /\ Queue'[i] = Queue[i + 1]
        BY <1>1, <1>4
    <2>3. ForkerHeard(g, i + 1)
        BY <1>5, <2>1, <2>2 DEF ForkerIInv, QueueAnnouncesForkers
    <2>4. ForkerHeard(g, (i + 1) - 1)'
        BY <1>1, <2>2, <2>3, <1>10
    <2>5. QED
        BY <2>1, <2>2, <2>4
<1>12. KnownForkersHeard'
    <2> SUFFICES ASSUME service_running', saver_running', NEW f \in known_forkers'
                 PROVE  (ForkerHeard(f, Len(Queue) + 1))'
        BY DEF KnownForkersHeard
    <2>1. PICK m : m = Len(Queue) + 1
        OBVIOUS
    <2>2. ForkerHeard(f, m)
        BY <1>5, <2>1 DEF ForkerIInv, KnownForkersHeard
    <2>3. ForkerHeard(f, m - 1)'
        BY <1>1, <2>1, <2>2, <1>10
    <2>4. m - 1 = Len(Queue') + 1
        BY <1>1, <1>4, <2>1
    <2>5. QED
        BY <2>3, <2>4
<1>13. QED
    BY <1>11, <1>12 DEF QueueInv

\* Once the service has stopped, neither queue conjunct constrains anything.
LEMMA StoppedQueue ==
    ASSUME ~service_running'
    PROVE  QueueInv'
    BY DEF QueueInv, QueueAnnouncesForkers, KnownForkersHeard

\* The saver writes the head of its input and echoes it: the record moves
\* from one channel to the other, and the queue stays as it was.
LEMMA SaveItemQueueStep ==
    ASSUME ForkerIInv, KnownKept, BackupSaveItem
    PROVE  QueueInv'
<1>1. CASE service_running
    <2>1. responses_from_backup \in Seq(Records) /\ data_for_backup \in Seq(Records)
          /\ data_for_backup # << >>
        BY DEF ForkerIInv, ResponsesIInv, TypeOK, BackupSaveItem
    <2>2. Queue' = Queue
        BY <1>1, <2>1, ConcatMove DEF BackupSaveItem, Queue
    <2>3. Queue \in Seq(Records)
        BY QueueFacts DEF ForkerIInv
    <2>4. UNCHANGED <<service_running, saver_running, known_forkers,
                      network_alert_responses>>
        BY <1>1 DEF BackupSaveItem, handler_vars, service_vars
    <2>5. \A j \in 1 .. Len(Queue) : NarKept(j)
        BY <2>4 DEF NarKept
    <2>6. QED
        BY <2>2, <2>3, <2>4, <2>5, QueueExtend
<1>2. CASE ~service_running
    BY <1>2, StoppedQueue DEF BackupSaveItem, service_vars
<1>3. QED
    BY <1>1, <1>2

\* The saver stops, dropping its input: the echoes already sent stay in
\* the queue, in order, and no forker needs to be heard of after them.
LEMMA DropQueueStep ==
    ASSUME ForkerIInv, KnownKept, BackupSaveFails \/ SaverExit
    PROVE  QueueInv'
<1>1. /\ ~saver_running' /\ data_for_backup' = << >>
      /\ UNCHANGED <<responses_from_backup, service_running, known_forkers,
                     network_alert_responses>>
    BY DEF BackupSaveFails, SaverExit, handler_vars, service_vars
<1>2. /\ Queue \in Seq(Records) /\ DOMAIN Queue = 1 .. Len(Queue)
      /\ responses_from_backup \in Seq(Records) /\ data_for_backup \in Seq(Records)
    BY QueueFacts DEF ForkerIInv, ResponsesIInv, TypeOK
<1>3. /\ Queue' = responses_from_backup
      /\ DOMAIN Queue' = 1 .. Len(responses_from_backup)
      /\ \A j \in 1 .. Len(responses_from_backup) : Queue'[j] = Queue[j]
      /\ Len(responses_from_backup) <= Len(Queue)
    BY <1>1, <1>2, ConcatProperties, ConcatEmptySeq DEF Queue
<1>4. QueueAnnouncesForkers'
    <2> SUFFICES ASSUME service_running', NEW i \in DOMAIN Queue',
                        Queue'[i].kind = "MultisignedHash"
                 PROVE  (ForkerHeard(Forker(Queue[i].alert), i))'
        BY DEF QueueAnnouncesForkers
    <2>1. PICK g : g = Forker(Queue'[i].alert)
        OBVIOUS
    <2>2. i \in 1 .. Len(Queue) /\ Queue'[i] = Queue[i]
        BY <1>2, <1>3
    <2>3. ForkerHeard(g, i)
        BY <1>1, <2>1, <2>2 DEF ForkerIInv, QueueAnnouncesForkers
    <2>4. \A j \in 1 .. i - 1 : Queue'[j] = Queue[j] /\ NarKept(j)
        BY <1>1, <1>2, <1>3, <2>2 DEF NarKept
    <2>5. ForkerHeard(g, i)'
        BY <2>2, <2>3, <2>4, HeardPrefix
    <2>6. QED
        BY <2>1, <2>5
<1>5. QED
    BY <1>1, <1>4 DEF QueueInv, KnownForkersHeard

-----------------------------------------------------------------------------
(* ForkerIInv is inductive, and it gives ForkerBeforeUnits.                *)

\* Every step keeps the queue invariant.
LEMMA QueueStep ==
    ASSUME ForkerIInv, [Next]_vars
    PROVE  QueueInv'
<1>1. KnownKept
    BY KnownKeptStep DEF ForkerIInv, ResponsesIInv
<1>2. CASE \E a \in OwnAlerts : HandleAlertFromRunway(a)
    BY <1>1, <1>2, RunwayQueueStep
<1>3. CASE \E a \in Alerts : HandleForkAlert(a)
    <2>1. PICK a \in Alerts : HandleForkAlert(a)
        BY <1>3
    <2>2. CASE AlertRejected(a) /\ UNCHANGED vars
        BY <1>1, <2>2, QuietQueueStep
    <2>3. CASE AlertOfDrivenPair(a)
               /\ UNCHANGED <<service_vars, backup_vars, rmc_vars, runway_alerted>>
        BY <1>1, <2>3, QuietQueueStep
    <2>4. CASE /\ AcceptNetworkAlert(a)
               /\ network_alert_responses' =
                     [network_alert_responses EXCEPT ![a] = NewForker(a)]
               /\ SendToBackup(Record("NetworkAlert", a))
               /\ UNCHANGED <<own_alert_responses, multisigned_notifications,
                              messages_for_network, notifications_for_units,
                              service_running, responses_from_backup, backup,
                              saver_running, rmc_vars, runway_alerted>>
        BY <1>1, <2>4, AcceptQueueStep
    <2>5. QED
        BY <2>1, <2>2, <2>3, <2>4 DEF HandleForkAlert
<1>4. CASE \/ \E s \in Peers, h \in Alerts, c \in BOOLEAN : HandleRmcMessage(s, h, c)
           \/ \E n \in Peers, h \in Alerts : HandleAlertRequest(n, h)
           \/ \E h \in Alerts : RmcMessageToNetwork(h)
           \/ UNCHANGED vars
    BY <1>1, <1>4, QuietQueueStep
<1>5. CASE \E h \in Alerts : HandleMultisigned(h)
    BY <1>1, <1>5, MultisignedQueueStep
<1>6. CASE HandleDataFromBackup
    BY <1>1, <1>6, EchoQueueStep
<1>7. CASE ServiceExit
    BY <1>7, StoppedQueue DEF ServiceExit
<1>8. CASE BackupSaveItem
    BY <1>1, <1>8, SaveItemQueueStep
<1>9. CASE BackupSaveFails \/ SaverExit
    BY <1>1, <1>9, DropQueueStep
<1>10. QED
    BY <1>2, <1>3, <1>4, <1>5, <1>6, <1>7, <1>8, <1>9 DEF Next

LEMMA ForkerIInvStep == ForkerIInv /\ [Next]_vars => ForkerIInv'
<1> SUFFICES ASSUME ForkerIInv, [Next]_vars PROVE ForkerIInv'
    OBVIOUS
<1>1. ResponsesIInv'
    BY ResponsesIInvStep DEF ForkerIInv
<1>2. KnownAlertsForkers'
    BY KnownAlertsStep
<1>3. QueueInv'
    BY QueueStep
<1>4. QED
    BY <1>1, <1>2, <1>3 DEF ForkerIInv, QueueInv

LEMMA ForkerIInvInit == Init => ForkerIInv
<1> SUFFICES ASSUME Init PROVE ForkerIInv
    OBVIOUS
<1>1. ResponsesIInv
    BY ResponsesIInvInit
<1>2. KnownAlertsForkers
    BY HandlerAssumption DEF Init, HandlerInit, KnownAlertsForkers
<1>3. Queue = << >>
    BY DEF Init, Queue
<1>4. QED
    BY <1>1, <1>2, <1>3 DEF Init, HandlerInit, ForkerIInv, QueueAnnouncesForkers,
                            KnownForkersHeard

\* A step adds a Units notification only for the alert of the record at
\* the head of the queue, whose forker the queue invariant says is known.
LEMMA UnitsStep ==
    ASSUME ForkerIInv, [Next]_vars, NEW a \in Alerts,
           Notification("Units", a) \in Range(notifications_for_units')
                                          \ Range(notifications_for_units)
    PROVE  ForkerKnownToConsensus(Forker(a))
<1>1. notifications_for_units \in Seq(Notifications)
    BY DEF ForkerIInv, ResponsesIInv, TypeOK
<1>2. HandleDataFromBackup
    BY DEF Next, vars, service_vars, HandleAlertFromRunway, HandleForkAlert,
       HandleRmcMessage, HandleAlertRequest, HandleMultisigned,
       RmcMessageToNetwork, ServiceExit, BackupSaveItem, BackupSaveFails,
       SaverExit
<1> DEFINE r == Queue[1]
<1>3. /\ Queue \in Seq(Records) /\ DOMAIN Queue = 1 .. Len(Queue)
      /\ Head(responses_from_backup) = r /\ 1 \in DOMAIN Queue
    <2>1. responses_from_backup \in Seq(Records) /\ data_for_backup \in Seq(Records)
          /\ responses_from_backup # << >>
        BY <1>2 DEF ForkerIInv, ResponsesIInv, TypeOK, HandleDataFromBackup
    <2>2. Len(Queue) >= 1
        BY <2>1, ConcatProperties DEF Queue
    <2>3. Head(responses_from_backup) = (responses_from_backup \o data_for_backup)[1]
        BY <2>1, ConcatTailLeft
    <2>4. Queue \in Seq(Records) /\ DOMAIN Queue = 1 .. Len(Queue)
        BY QueueFacts DEF ForkerIInv
    <2>5. 1 \in DOMAIN Queue
        BY <2>2, <2>4
    <2>6. Head(responses_from_backup) = r
        BY <2>3 DEF Queue
    <2>7. QED
        BY <2>4, <2>5, <2>6
<1>4. \/ notifications_for_units' = notifications_for_units
      \/ notifications_for_units' = Append(notifications_for_units, Notification("Forker", r.alert))
      \/ /\ r.kind = "MultisignedHash"
         /\ notifications_for_units' = Append(notifications_for_units, Notification("Units", r.alert))
    BY <1>2, <1>3, Zenon DEF HandleDataFromBackup, Notify
<1>5. r \in Records
    BY <1>3
<1> DEFINE F == Notification("Forker", r.alert)
            U == Notification("Units", r.alert)
<1>6. F \in Notifications /\ U \in Notifications /\ F # Notification("Units", a)
    BY <1>5, NotificationType DEF Records, Notification
<1>7. \A x \in Notifications :
         Range(Append(notifications_for_units, x)) = Range(notifications_for_units) \cup {x}
    BY <1>1, RangeAppend
<1>8. r.kind = "MultisignedHash" /\ notifications_for_units' = Append(notifications_for_units, U)
    <2>1. notifications_for_units' # notifications_for_units
        OBVIOUS
    <2>2. Range(Append(notifications_for_units, F)) = Range(notifications_for_units) \cup {F}
        BY <1>6, <1>7
    <2>3. notifications_for_units' # Append(notifications_for_units, F)
        BY <1>6, <2>2
    <2>4. QED
        BY <1>4, <2>1, <2>3
<1>9. Notification("Units", a) = U
    BY <1>6, <1>7, <1>8
<1>10. r.alert = a
    BY <1>9 DEF Notification
<1>11. ForkerHeard(Forker(a), 1)
    BY <1>2, <1>3, <1>8, <1>10 DEF ForkerIInv, QueueAnnouncesForkers, HandleDataFromBackup
<1>12. QED
    BY <1>11 DEF ForkerHeard

\* Every alert the handler knows has a known forker; while the service
\* runs, every multisigned record in the saver's channels (echoes first,
\* then data) has its forker known to consensus or announced by a record
\* ahead of it; and while the saver runs too, every known forker is known
\* to consensus or announced by a queued record: ForkerIInv holds in every
\* reachable state of the service, for every committee and set of alerts.
THEOREM ForkerIInvHolds == Spec => []ForkerIInv
BY ForkerIInvInit, ForkerIInvStep, PTL DEF Spec

\* ForkerBeforeUnits: a Units notification of alert a reaches consensus
\* (handle_data_from_backup on a multisigned record, service.rs) only after
\* consensus learnt that Forker(a) forks, whatever the committee and alerts.
THEOREM ForkerBeforeUnitsHolds == Spec => ForkerBeforeUnits
<1>1. Spec => []ForkerIInv
    BY ForkerIInvHolds
<1>2. ForkerIInv /\ [Next]_vars =>
         [\A a \in Alerts :
             Notification("Units", a) \in Range(notifications_for_units')
                                            \ Range(notifications_for_units)
             => ForkerKnownToConsensus(Forker(a))]_vars
    BY UnitsStep
<1>3. QED
    BY <1>1, <1>2, PTL DEF Spec, ForkerBeforeUnits

=============================================================================
