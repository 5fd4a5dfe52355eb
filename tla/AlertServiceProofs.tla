------------------------- MODULE AlertServiceProofs -------------------------
(***************************************************************************)
(* Proofs about the alert service, for every committee, every set of       *)
(* alerts and every choice of peers that satisfy the modules' assumptions. *)
(***************************************************************************)
EXTENDS AlertService, SequenceTheorems, TLAPS

USE HandlerAssumption, ServiceAssumption

-----------------------------------------------------------------------------
(* Lemmas on the operators the channels and the backup file are built     *)
(* from.                                                                   *)

\* Appending to a channel or to the backup file adds exactly the new item
\* to what it holds.
LEMMA RangeAppend ==
    ASSUME NEW S, NEW s \in Seq(S), NEW x \in S
    PROVE  Range(Append(s, x)) = Range(s) \cup {x}
<1> DEFINE t == Append(s, x)
<1>1. t \in Seq(S) /\ Len(t) = Len(s) + 1 /\ t[Len(s) + 1] = x
      /\ \A i \in 1 .. Len(s) : t[i] = s[i]
    BY AppendProperties
<1>2. DOMAIN t = 1 .. Len(s) + 1 /\ DOMAIN s = 1 .. Len(s)
    BY <1>1, LenProperties
<1>3. Range(t) = {t[i] : i \in 1 .. Len(s) + 1} /\ Range(s) = {s[i] : i \in 1 .. Len(s)}
    BY <1>2 DEF Range
<1>4. QED
    BY <1>1, <1>2, <1>3

\* Receiving from a channel takes its head, and what remains was in it.
LEMMA RangeTail ==
    ASSUME NEW S, NEW s \in Seq(S), s # << >>
    PROVE  /\ Head(s) \in Range(s)
           /\ Range(Tail(s)) \subseteq Range(s)
<1> DEFINE t == Tail(s)
<1>1. t \in Seq(S) /\ Len(t) = Len(s) - 1 /\ \A i \in 1 .. Len(t) : t[i] = s[i + 1]
      /\ Head(s) = s[1] /\ Len(s) \in Nat \ {0}
    BY HeadTailProperties, LenProperties
<1>2. DOMAIN t = 1 .. Len(t) /\ DOMAIN s = 1 .. Len(s)
    BY <1>1, LenProperties
<1>3. Head(s) \in Range(s)
    BY <1>1, <1>2 DEF Range
<1>4. ASSUME NEW y \in Range(t) PROVE y \in Range(s)
    <2>1. PICK i \in 1 .. Len(t) : y = t[i]
        BY <1>2 DEF Range
    <2>2. i + 1 \in DOMAIN s
        BY <1>1, <1>2
    <2>3. QED
        BY <1>1, <2>1, <2>2 DEF Range
<1>5. QED
    BY <1>3, <1>4

\* The constructors of backup records, network messages and notifications
\* build members of their types.
LEMMA RecordType ==
    ASSUME NEW k \in BackupKinds, NEW a \in Alerts
    PROVE  Record(k, a) \in Records
    BY DEF Record, Records

LEMMA MessageType ==
    ASSUME NEW t \in {"ForkAlert", "AlertRequest", "SignedHash", "Multisigned"},
           NEW a \in Alerts, NEW to \in Nodes \cup {Everyone}
    PROVE  Message(t, a, to) \in Messages
    BY DEF Message, Messages

LEMMA NotificationType ==
    ASSUME NEW k \in {"Forker", "Units"}, NEW a \in Alerts
    PROVE  Notification(k, a) \in Notifications
    BY DEF Notification, Notifications

\* unbounded_send to the saver keeps its channel a sequence of records.
LEMMA SendToBackupType ==
    ASSUME NEW r \in Records, data_for_backup \in Seq(Records), SendToBackup(r)
    PROVE  data_for_backup' \in Seq(Records)
    BY AppendProperties DEF SendToBackup

-----------------------------------------------------------------------------
(* Type correctness.                                                       *)

\* Every pending table, channel, output and RMC set stays within its type:
\* each select! branch of the service and of the saver keeps them so.
LEMMA TypeOKStep == TypeOK /\ [Next]_vars => TypeOK'
<1>1. ASSUME TypeOK, NEW a \in OwnAlerts, HandleAlertFromRunway(a)
      PROVE  TypeOK'
    <2>1. a \in Alerts /\ Forker(a) \in Nodes /\ Pair(a) \in Pairs
        BY DEF OwnAlerts, Forker, Pair, Pairs
    <2>2. HandlerTypeOK'
        BY <1>1, <2>1 DEF HandleAlertFromRunway, OnOwnAlert, RmcAlert,
                         TypeOK, HandlerTypeOK
    <2>3. data_for_backup' \in Seq(Records)
        BY <1>1, <2>1, RecordType, SendToBackupType
        DEF HandleAlertFromRunway, BackupKinds, TypeOK
    <2>4. QED
        BY <1>1, <2>1, <2>2, <2>3, Zenon
        DEF HandleAlertFromRunway, TypeOK, rmc_vars
<1>2. ASSUME TypeOK, NEW a \in Alerts, HandleForkAlert(a)
      PROVE  TypeOK'
    <2>1. Forker(a) \in Nodes /\ Pair(a) \in Pairs
        BY DEF Forker, Pair, Pairs
    <2>2. CASE AlertRejected(a) /\ UNCHANGED vars
        BY <1>2, <2>2, Zenon DEF TypeOK, HandlerTypeOK, vars, handler_vars,
                                service_vars, backup_vars, rmc_vars
    <2>3. CASE AlertOfDrivenPair(a)
               /\ UNCHANGED <<service_vars, backup_vars, rmc_vars, runway_alerted>>
        <3>1. HandlerTypeOK'
            BY <1>2, <2>3 DEF AlertOfDrivenPair, TypeOK, HandlerTypeOK
        <3>2. QED
            BY <1>2, <2>3, <3>1, Zenon DEF TypeOK, service_vars, backup_vars,
                                          rmc_vars
    <2>4. CASE AcceptNetworkAlert(a)
               /\ network_alert_responses' =
                     [network_alert_responses EXCEPT ![a] = NewForker(a)]
               /\ SendToBackup(Record("NetworkAlert", a))
               /\ UNCHANGED <<own_alert_responses, multisigned_notifications,
                              messages_for_network, notifications_for_units,
                              service_running, responses_from_backup, backup,
                              saver_running, rmc_vars, runway_alerted>>
        <3>1. HandlerTypeOK'
            BY <1>2, <2>1, <2>4 DEF AcceptNetworkAlert, RmcAlert, TypeOK,
                                   HandlerTypeOK
        <3>2. network_alert_responses' \in [Alerts -> BOOLEAN \cup {NoEntry}]
            BY <1>2, <2>4 DEF NewForker, TypeOK
        <3>3. data_for_backup' \in Seq(Records)
            BY <1>2, <2>4, RecordType, SendToBackupType DEF BackupKinds, TypeOK
        <3>4. QED
            BY <1>2, <2>4, <3>1, <3>2, <3>3, Zenon DEF TypeOK, rmc_vars
    <2>5. QED
        BY <1>2, <2>2, <2>3, <2>4, Zenon DEF HandleForkAlert
<1>3. ASSUME TypeOK, NEW s \in Peers, NEW h \in Alerts, NEW c \in BOOLEAN,
             HandleRmcMessage(s, h, c)
      PROVE  TypeOK'
    <2>1. s \in Nodes
        OBVIOUS
    <2>2. Message("AlertRequest", h, s) \in Messages
        BY <2>1, MessageType
    <2>3. \/ messages_for_network' = messages_for_network
          \/ messages_for_network' =
                messages_for_network \cup {Message("AlertRequest", h, s)}
        BY <1>3, Zenon DEF HandleRmcMessage, SendToNetwork, vars, service_vars
    <2>4. rmc_heard' = rmc_heard \/ rmc_heard' = rmc_heard \cup {h}
        BY <1>3, Zenon DEF HandleRmcMessage, vars, rmc_vars
    <2>6. messages_for_network' \subseteq Messages /\ rmc_heard' \subseteq Alerts
        BY <1>3, <2>2, <2>3, <2>4 DEF TypeOK
    <2>5. QED
        BY <1>3, <2>6, Zenon DEF HandleRmcMessage, TypeOK, HandlerTypeOK, vars,
                                handler_vars, service_vars, backup_vars, rmc_vars
<1>4. ASSUME TypeOK, NEW n \in Peers, NEW h \in Alerts, HandleAlertRequest(n, h)
      PROVE  TypeOK'
    <2>1. Message("ForkAlert", h, n) \in Messages
        BY MessageType, n \in Nodes
    <2>2. \/ messages_for_network' = messages_for_network
          \/ messages_for_network' =
                messages_for_network \cup {Message("ForkAlert", h, n)}
        BY <1>4, Zenon DEF HandleAlertRequest, SendToNetwork, vars, service_vars
    <2>4. messages_for_network' \subseteq Messages
        BY <1>4, <2>1, <2>2 DEF TypeOK
    <2>3. QED
        BY <1>4, <2>4, Zenon DEF HandleAlertRequest, TypeOK, HandlerTypeOK, vars,
                                handler_vars, service_vars, backup_vars, rmc_vars
<1>5. ASSUME TypeOK, NEW h \in Alerts, HandleMultisigned(h)
      PROVE  TypeOK'
    <2>1. data_for_backup' \in Seq(Records)
        BY <1>5, RecordType, SendToBackupType
        DEF HandleMultisigned, BackupKinds, TypeOK
    <2>2. Pair(h) \in Pairs
        BY DEF Pair, Forker, Pairs
    <2>3. HandlerTypeOK'
        BY <1>5, <2>2 DEF HandleMultisigned, AlertConfirmed, TypeOK,
                         HandlerTypeOK
    <2>4. multisigned_notifications' \subseteq Alerts
          /\ rmc_multisigned' \subseteq Alerts
        BY <1>5 DEF HandleMultisigned, TypeOK
    <2>5. QED
        BY <1>5, <2>1, <2>3, <2>4, Zenon DEF HandleMultisigned, TypeOK
<1>6. ASSUME TypeOK, NEW h \in Alerts, RmcMessageToNetwork(h)
      PROVE  TypeOK'
    <2>1. messages_for_network' \subseteq Messages
        BY <1>6, MessageType DEF RmcMessageToNetwork, SendToNetwork, TypeOK
    <2>2. QED
        BY <1>6, <2>1, Zenon DEF RmcMessageToNetwork, TypeOK, HandlerTypeOK,
                                handler_vars, backup_vars, rmc_vars
<1>7. ASSUME TypeOK, HandleDataFromBackup
      PROVE  TypeOK'
    <2> DEFINE r == Head(responses_from_backup)
    <2>1. r \in Records /\ Tail(responses_from_backup) \in Seq(Records)
        BY <1>7, HeadTailProperties DEF HandleDataFromBackup, TypeOK
    <2>2. r.alert \in Alerts
        BY <2>1 DEF Records
    <2>3. messages_for_network' \subseteq Messages
        BY <1>7, <2>2, MessageType DEF HandleDataFromBackup, SendToNetwork,
                                      TypeOK
    <2>4. notifications_for_units' \in Seq(Notifications)
        <3>1. Notification("Forker", r.alert) \in Notifications
              /\ Notification("Units", r.alert) \in Notifications
            BY <2>2, NotificationType
        <3>2. Append(notifications_for_units, Notification("Forker", r.alert))
                 \in Seq(Notifications)
              /\ Append(notifications_for_units, Notification("Units", r.alert))
                 \in Seq(Notifications)
            BY <1>7, <3>1, AppendProperties DEF TypeOK
        <3>3. \/ notifications_for_units' = notifications_for_units
              \/ notifications_for_units' =
                    Append(notifications_for_units, Notification("Forker", r.alert))
              \/ notifications_for_units' =
                    Append(notifications_for_units, Notification("Units", r.alert))
            BY <1>7, Zenon DEF HandleDataFromBackup, Notify
        <3>4. QED
            BY <1>7, <3>2, <3>3, Zenon DEF TypeOK
    <2>5. network_alert_responses' \in [Alerts -> BOOLEAN \cup {NoEntry}]
        BY <1>7, <2>2 DEF HandleDataFromBackup, TypeOK
    <2>6. rmc_started' \subseteq Alerts /\ rmc_heard' \subseteq Alerts
        BY <1>7, <2>2 DEF HandleDataFromBackup, StartRmc, TypeOK
    <2>7. own_alert_responses' \subseteq Alerts
          /\ multisigned_notifications' \subseteq Alerts
        BY <1>7 DEF HandleDataFromBackup, TypeOK
    <2>8. QED
        BY <1>7, <2>1, <2>3, <2>4, <2>5, <2>6, <2>7, Zenon
        DEF HandleDataFromBackup, TypeOK, HandlerTypeOK, handler_vars
<1>8. ASSUME TypeOK, ServiceExit
      PROVE  TypeOK'
    <2>1. responses_from_backup' \in Seq(Records)
        BY <1>8 DEF ServiceExit
    <2>2. QED
        BY <1>8, <2>1, Zenon DEF ServiceExit, TypeOK, HandlerTypeOK,
                                handler_vars, rmc_vars
<1>9. ASSUME TypeOK, BackupSaveItem
      PROVE  TypeOK'
    <2>1. Head(data_for_backup) \in Records /\ Tail(data_for_backup) \in Seq(Records)
        BY <1>9, HeadTailProperties DEF BackupSaveItem, TypeOK
    <2>2. backup' \in Seq(Records) /\ responses_from_backup' \in Seq(Records)
        <3>1. Append(backup, Head(data_for_backup)) \in Seq(Records)
              /\ Append(responses_from_backup, Head(data_for_backup))
                    \in Seq(Records)
            BY <1>9, <2>1, AppendProperties DEF TypeOK
        <3>2. \/ responses_from_backup' = responses_from_backup
              \/ responses_from_backup' =
                    Append(responses_from_backup, Head(data_for_backup))
            BY <1>9, Zenon DEF BackupSaveItem
        <3>3. QED
            BY <1>9, <3>1, <3>2, Zenon DEF BackupSaveItem, TypeOK
    <2>3. QED
        BY <1>9, <2>1, <2>2, Zenon DEF BackupSaveItem, TypeOK, HandlerTypeOK,
                                      handler_vars, service_vars, rmc_vars
<1>10. ASSUME TypeOK, BackupSaveFails
       PROVE  TypeOK'
    <2>1. data_for_backup' \in Seq(Records)
        BY <1>10 DEF BackupSaveFails
    <2>2. QED
        BY <1>10, <2>1, Zenon DEF BackupSaveFails, TypeOK, HandlerTypeOK,
                                 handler_vars, service_vars, rmc_vars
<1>11. ASSUME TypeOK, SaverExit
       PROVE  TypeOK'
    <2>1. data_for_backup' \in Seq(Records)
        BY <1>11 DEF SaverExit
    <2>2. QED
        BY <1>11, <2>1, Zenon DEF SaverExit, TypeOK, HandlerTypeOK,
                                 handler_vars, service_vars, rmc_vars
<1>12. ASSUME TypeOK, UNCHANGED vars
       PROVE  TypeOK'
    BY <1>12, Zenon DEF TypeOK, HandlerTypeOK, vars, handler_vars, service_vars,
                       backup_vars, rmc_vars
<1>13. QED
    BY <1>1, <1>2, <1>3, <1>4, <1>5, <1>6, <1>7, <1>8, <1>9, <1>10, <1>11,
       <1>12 DEF Next

\* The service, the handler it drives and the saver never leave their
\* types (TypeOK is checked by the inductive run, through IInv).
THEOREM TypeCorrect == Spec => []TypeOK
<1>1. Init => TypeOK
    BY DEF Init, HandlerInit, TypeOK, HandlerTypeOK
<1>2. QED
    BY <1>1, TypeOKStep, PTL DEF Spec

-----------------------------------------------------------------------------
(* The write-ahead invariant.                                              *)
(*                                                                         *)
(* WriteAhead alone is not inductive: a step that broadcasts, signs or     *)
(* notifies on a backup echo needs to know that the echo is in the backup, *)
(* and a rebroadcast of our partial signature needs to know that the hash  *)
(* was started only on a durable alert.  IInv adds exactly these two       *)
(* facts (EchoesDurable, StartedDurable) and the type invariant.          *)

\* A step that loses nothing from the backup, echoes only what the backup
\* holds, does not touch the RMC engine's started hashes or the
\* notifications, and sends neither our alert nor our signature preserves
\* IInv.
LEMMA QuietStep ==
    ASSUME IInv, TypeOK',
           Range(backup) \subseteq Range(backup'),
           Range(responses_from_backup') \subseteq Range(backup'),
           notifications_for_units' = notifications_for_units,
           rmc_started' = rmc_started,
           \A a \in Alerts :
              Message("ForkAlert", a, Everyone) \in messages_for_network'
                 => Message("ForkAlert", a, Everyone) \in messages_for_network,
           \A a \in Alerts :
              Message("SignedHash", a, Everyone) \in messages_for_network'
                 => Message("SignedHash", a, Everyone) \in messages_for_network
    PROVE  IInv'
    BY DEF IInv, EchoesDurable, StartedDurable, WriteAhead, Durable

\* Each select! branch of the service and of the saver preserves IInv.
LEMMA IInvStep == IInv /\ [Next]_vars => IInv'
<1> SUFFICES ASSUME IInv, [Next]_vars PROVE IInv'
    OBVIOUS
<1>1. TypeOK'
    BY TypeOKStep DEF IInv
<1>2. CASE \E a \in OwnAlerts : HandleAlertFromRunway(a)
    <2>1. PICK a \in OwnAlerts : HandleAlertFromRunway(a)
        BY <1>2
    <2>2. QED
        BY <1>1, <2>1, QuietStep, Zenon
        DEF HandleAlertFromRunway, rmc_vars, IInv, EchoesDurable
<1>3. CASE \E a \in Alerts : HandleForkAlert(a)
    <2>1. PICK a \in Alerts : HandleForkAlert(a)
        BY <1>3
    <2>2. QED
        BY <1>1, <2>1, QuietStep, Zenon
        DEF HandleForkAlert, vars, service_vars, backup_vars, rmc_vars, IInv,
            EchoesDurable
<1>4. CASE \E s \in Peers, h \in Alerts, c \in BOOLEAN :
              HandleRmcMessage(s, h, c)
    <2>1. PICK s \in Peers, h \in Alerts, c \in BOOLEAN : HandleRmcMessage(s, h, c)
        BY <1>4
    <2>2. messages_for_network' \subseteq
              messages_for_network \cup {Message("AlertRequest", h, s)}
        BY <2>1, Zenon DEF HandleRmcMessage, SendToNetwork, vars, service_vars
    <2>3. \A a \in Alerts :
             /\ Message("ForkAlert", a, Everyone) # Message("AlertRequest", h, s)
             /\ Message("SignedHash", a, Everyone) # Message("AlertRequest", h, s)
        BY DEF Message
    <2>4. QED
        BY <1>1, <2>1, <2>2, <2>3, QuietStep, Zenon
        DEF HandleRmcMessage, vars, service_vars, backup_vars, rmc_vars, IInv,
            EchoesDurable
<1>5. CASE \E n \in Peers, h \in Alerts : HandleAlertRequest(n, h)
    <2>1. PICK n \in Peers, h \in Alerts : HandleAlertRequest(n, h)
        BY <1>5
    <2>2. messages_for_network' \subseteq
              messages_for_network \cup {Message("ForkAlert", h, n)}
        BY <2>1, Zenon DEF HandleAlertRequest, SendToNetwork, vars, service_vars
    <2>3. \A a \in Alerts :
             /\ Message("ForkAlert", a, Everyone) # Message("ForkAlert", h, n)
             /\ Message("SignedHash", a, Everyone) # Message("ForkAlert", h, n)
        BY n \in Nodes DEF Message
    <2>4. QED
        BY <1>1, <2>1, <2>2, <2>3, QuietStep, Zenon
        DEF HandleAlertRequest, vars, service_vars, backup_vars, rmc_vars,
            IInv, EchoesDurable
<1>6. CASE \E h \in Alerts : HandleMultisigned(h)
    <2>1. PICK h \in Alerts : HandleMultisigned(h)
        BY <1>6
    <2>2. QED
        BY <1>1, <2>1, QuietStep, Zenon
        DEF HandleMultisigned, IInv, EchoesDurable
<1>7. CASE BackupSaveFails
    BY <1>1, <1>7, QuietStep, Zenon
    DEF BackupSaveFails, service_vars, rmc_vars, IInv, EchoesDurable
<1>8. CASE SaverExit
    BY <1>1, <1>8, QuietStep, Zenon
    DEF SaverExit, service_vars, rmc_vars, IInv, EchoesDurable
<1>9. CASE UNCHANGED vars
    BY <1>1, <1>9, QuietStep, Zenon
    DEF vars, service_vars, backup_vars, rmc_vars, IInv, EchoesDurable
<1>10. CASE ServiceExit
    <2>1. Range(responses_from_backup') = {}
        BY <1>10 DEF ServiceExit, Range
    <2>2. QED
        BY <1>1, <1>10, <2>1, QuietStep, Zenon DEF ServiceExit, rmc_vars
<1>11. CASE BackupSaveItem
    <2> DEFINE x == Head(data_for_backup)
    <2>1. x \in Records
        BY <1>11, HeadTailProperties DEF BackupSaveItem, IInv, TypeOK
    <2>2. Range(backup') = Range(backup) \cup {x}
        BY <1>11, <2>1, RangeAppend DEF BackupSaveItem, IInv, TypeOK
    <2>3. \/ responses_from_backup' = responses_from_backup
          \/ responses_from_backup' = Append(responses_from_backup, x)
        BY <1>11, Zenon DEF BackupSaveItem
    <2>4. Range(Append(responses_from_backup, x)) =
              Range(responses_from_backup) \cup {x}
        BY <2>1, RangeAppend DEF IInv, TypeOK
    <2>5. Range(responses_from_backup') \subseteq Range(backup')
        BY <2>2, <2>3, <2>4 DEF IInv, EchoesDurable
    <2>6. QED
        BY <1>1, <1>11, <2>2, <2>5, QuietStep, Zenon
        DEF BackupSaveItem, service_vars, rmc_vars
<1>12. CASE \E h \in Alerts : RmcMessageToNetwork(h)
    <2>1. PICK h \in Alerts : RmcMessageToNetwork(h)
        BY <1>12
    <2>2. \/ /\ h \in rmc_started
             /\ messages_for_network' =
                   messages_for_network \cup {Message("SignedHash", h, Everyone)}
          \/ messages_for_network' =
                messages_for_network \cup {Message("Multisigned", h, Everyone)}
        BY <2>1, Zenon DEF RmcMessageToNetwork, SendToNetwork
    <2>3. UNCHANGED <<backup, responses_from_backup, notifications_for_units,
                     rmc_started>>
        BY <2>1, Zenon DEF RmcMessageToNetwork, backup_vars, rmc_vars
    <2>4. TypeOK' /\ EchoesDurable' /\ StartedDurable'
        BY <1>1, <2>3 DEF IInv, EchoesDurable, StartedDurable, Durable
    <2>5. WriteAhead'
        <3>1. \A a \in Alerts :
                 /\ Message("ForkAlert", a, Everyone) # Message("SignedHash", h, Everyone)
                 /\ Message("ForkAlert", a, Everyone) # Message("Multisigned", h, Everyone)
                 /\ Message("SignedHash", a, Everyone) # Message("Multisigned", h, Everyone)
                 /\ Message("SignedHash", a, Everyone) = Message("SignedHash", h, Everyone)
                       => a = h
            BY DEF Message
        <3>2. QED
            BY <2>2, <2>3, <3>1 DEF IInv, WriteAhead, StartedDurable, Durable
    <2>6. QED
        BY <2>4, <2>5 DEF IInv
<1>13. CASE HandleDataFromBackup
    <2> DEFINE r == Head(responses_from_backup)
               a == r.alert
    <2>1. responses_from_backup # << >> /\ responses_from_backup \in Seq(Records)
        BY <1>13 DEF HandleDataFromBackup, IInv, TypeOK
    <2>2. r \in Records /\ r \in Range(responses_from_backup)
          /\ Range(Tail(responses_from_backup)) \subseteq Range(responses_from_backup)
        BY <2>1, RangeTail, HeadTailProperties
    <2>3. r = Record(r.kind, a) /\ a \in Alerts
        BY <2>2 DEF Record, Records
    \* The echo being acted on is in the backup.
    <2>4. Durable(r.kind, a)
        BY <2>2, <2>3 DEF IInv, EchoesDurable, Durable
    <2>5. /\ backup' = backup
          /\ responses_from_backup' = Tail(responses_from_backup)
        BY <1>13 DEF HandleDataFromBackup
    <2>6. \/ rmc_started' = rmc_started
          \/ /\ rmc_started' = rmc_started \cup {a}
             /\ r.kind \in {"OwnAlert", "NetworkAlert"}
        BY <1>13, Zenon DEF HandleDataFromBackup, StartRmc
    <2>7. \/ messages_for_network' = messages_for_network
          \/ /\ messages_for_network' =
                   messages_for_network \cup {Message("ForkAlert", a, Everyone)}
             /\ r.kind = "OwnAlert"
        BY <1>13, Zenon DEF HandleDataFromBackup, SendToNetwork
    <2>8. \/ notifications_for_units' = notifications_for_units
          \/ notifications_for_units' =
                Append(notifications_for_units, Notification("Forker", a))
          \/ /\ notifications_for_units' =
                   Append(notifications_for_units, Notification("Units", a))
             /\ r.kind = "MultisignedHash"
        BY <1>13, Zenon DEF HandleDataFromBackup, Notify
    <2>9. EchoesDurable'
        BY <2>2, <2>5 DEF IInv, EchoesDurable
    <2>10. StartedDurable'
        BY <2>4, <2>5, <2>6 DEF IInv, StartedDurable, Durable
    <2>11. WriteAhead'
        <3>1. \A b \in Alerts :
                 /\ Message("ForkAlert", b, Everyone) = Message("ForkAlert", a, Everyone)
                       => b = a
                 /\ Message("SignedHash", b, Everyone) # Message("ForkAlert", a, Everyone)
            BY DEF Message
        <3>2. \A b \in Alerts :
                 /\ Notification("Units", b) # Notification("Forker", a)
                 /\ Notification("Units", b) = Notification("Units", a) => b = a
            BY DEF Notification
        <3>3. /\ Notification("Forker", a) \in Notifications
              /\ Notification("Units", a) \in Notifications
            BY <2>3, NotificationType
        <3>4. /\ Range(Append(notifications_for_units, Notification("Forker", a)))
                    = Range(notifications_for_units) \cup {Notification("Forker", a)}
              /\ Range(Append(notifications_for_units, Notification("Units", a)))
                    = Range(notifications_for_units) \cup {Notification("Units", a)}
            BY <3>3, RangeAppend DEF IInv, TypeOK
        <3>5. QED
            BY <2>4, <2>5, <2>6, <2>7, <2>8, <3>1, <3>2, <3>4
            DEF IInv, WriteAhead, StartedDurable, Durable
    <2>12. QED
        BY <1>1, <2>9, <2>10, <2>11 DEF IInv
<1>99. QED
    BY <1>2, <1>3, <1>4, <1>5, <1>6, <1>7, <1>8, <1>9, <1>10, <1>11, <1>12,
       <1>13 DEF Next

\* IInv holds in every reachable state: the saver echoes only what it has
\* written, the RMC engine signs only hashes of written alerts, and
\* WriteAhead holds.
THEOREM IInvariant == Spec => []IInv
<1>1. Init => IInv
    <2>1. Init => TypeOK
        BY DEF Init, HandlerInit, TypeOK, HandlerTypeOK
    <2>2. Init => Range(responses_from_backup) = {} /\ Range(backup) = {}
                  /\ Range(notifications_for_units) = {}
        BY DEF Init, Range
    <2>3. QED
        BY <2>1, <2>2 DEF Init, IInv, EchoesDurable, StartedDurable, WriteAhead,
                         Durable
<1>2. QED
    BY <1>1, IInvStep, PTL DEF Spec

\* Write-ahead (spec 4.3): in every reachable state of the service and the
\* saver, our own alert is broadcast, our signature on a hash is sent, and
\* legit units are released to consensus only after the record that
\* justifies them is written and flushed to the backup.
THEOREM WriteAheadHolds == Spec => []WriteAhead
    BY IInvariant, PTL DEF IInv

=============================================================================
