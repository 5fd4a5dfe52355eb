----------------------- MODULE NoMissingResponseProofs -----------------------
(***************************************************************************)
(* NoMissingResponse for every committee and set of alerts: every record  *)
(* that travels through the backup saver finds its pending action when it  *)
(* is echoed back to the service, and no record travels twice.            *)
(***************************************************************************)
EXTENDS AlertServiceProofs

USE HandlerAssumption, ServiceAssumption

-----------------------------------------------------------------------------
(* Lemmas on channels that never hold an element twice.                   *)

LEMMA InjectiveEmpty ==
    ASSUME NEW S
    PROVE  IsInjective(<< >>) /\ Range(<< >>) = {}
    BY DEF IsInjective, Range

\* unbounded_send of an element the channel does not hold.
LEMMA InjectiveAppend ==
    ASSUME NEW S, NEW s \in Seq(S), NEW x \in S, IsInjective(s), x \notin Range(s)
    PROVE  IsInjective(Append(s, x))
<1> DEFINE t == Append(s, x)
<1>1. /\ Len(t) = Len(s) + 1 /\ t[Len(s) + 1] = x
      /\ \A i \in 1 .. Len(s) : t[i] = s[i]
      /\ DOMAIN t = 1 .. Len(s) + 1 /\ DOMAIN s = 1 .. Len(s)
    BY AppendProperties, LenProperties
<1>2. \A i \in 1 .. Len(s) : s[i] # x
    BY <1>1 DEF Range
<1>3. QED
    BY <1>1, <1>2 DEF IsInjective

\* next() on a channel: what remains holds no element twice, and not the
\* element just taken.
LEMMA InjectiveTail ==
    ASSUME NEW S, NEW s \in Seq(S), s # << >>, IsInjective(s)
    PROVE  /\ IsInjective(Tail(s))
           /\ Head(s) \notin Range(Tail(s))
<1> DEFINE t == Tail(s)
<1>1. /\ Len(s) \in Nat \ {0} /\ Len(t) = Len(s) - 1 /\ Head(s) = s[1]
      /\ \A i \in 1 .. Len(t) : t[i] = s[i + 1]
      /\ DOMAIN t = 1 .. Len(t) /\ DOMAIN s = 1 .. Len(s)
    BY HeadTailProperties, LenProperties
<1>2. IsInjective(t)
    BY <1>1 DEF IsInjective
<1>3. Head(s) \notin Range(t)
    BY <1>1 DEF IsInjective, Range
<1>4. QED
    BY <1>2, <1>3

\* What the saver's two channels hold, read in order, holds no record
\* twice if neither channel does and they share none.
LEMMA InjectiveConcat ==
    ASSUME NEW S, NEW s \in Seq(S), NEW t \in Seq(S),
           IsInjective(s), IsInjective(t), Range(s) \cap Range(t) = {}
    PROVE  /\ IsInjective(s \o t)
           /\ \A i \in DOMAIN (s \o t) : (s \o t)[i] \in Range(s) \cup Range(t)
<1> DEFINE q == s \o t
<1>1. /\ Len(q) = Len(s) + Len(t)
      /\ \A i \in 1 .. Len(s) : q[i] = s[i]
      /\ \A i \in Len(s) + 1 .. Len(s) + Len(t) : q[i] = t[i - Len(s)]
      /\ DOMAIN q = 1 .. Len(q) /\ DOMAIN s = 1 .. Len(s) /\ DOMAIN t = 1 .. Len(t)
      /\ Len(s) \in Nat /\ Len(t) \in Nat
    BY ConcatProperties, LenProperties
<1>2. \A i \in DOMAIN q : q[i] \in Range(s) \cup Range(t)
    <2> SUFFICES ASSUME NEW i \in DOMAIN q PROVE q[i] \in Range(s) \cup Range(t)
        OBVIOUS
    <2>1. CASE i \in 1 .. Len(s)
        BY <1>1, <2>1 DEF Range
    <2>2. CASE i \notin 1 .. Len(s)
        <3>1. i - Len(s) \in 1 .. Len(t) /\ q[i] = t[i - Len(s)]
            BY <1>1, <2>2
        <3>2. QED
            BY <1>1, <3>1 DEF Range
    <2>3. QED
        BY <2>1, <2>2
<1>3. IsInjective(q)
    <2> SUFFICES ASSUME NEW i \in DOMAIN q, NEW j \in DOMAIN q, q[i] = q[j]
                 PROVE  i = j
        BY DEF IsInjective
    <2>1. CASE i \in 1 .. Len(s) /\ j \in 1 .. Len(s)
        BY <1>1, <2>1 DEF IsInjective
    <2>2. CASE i \notin 1 .. Len(s) /\ j \notin 1 .. Len(s)
        <3>1. i - Len(s) \in 1 .. Len(t) /\ j - Len(s) \in 1 .. Len(t)
              /\ q[i] = t[i - Len(s)] /\ q[j] = t[j - Len(s)]
            BY <1>1, <2>2
        <3>2. t[i - Len(s)] = t[j - Len(s)]
            BY <3>1
        <3>4. i - Len(s) = j - Len(s)
            BY <1>1, <3>1, <3>2 DEF IsInjective
        <3>3. QED
            BY <1>1, <3>4
    <2>3. CASE i \in 1 .. Len(s) /\ j \notin 1 .. Len(s)
        <3>1. j - Len(s) \in 1 .. Len(t) /\ q[j] = t[j - Len(s)] /\ q[i] = s[i]
            BY <1>1, <2>3
        <3>2. q[i] \in Range(s) /\ q[j] \in Range(t)
            BY <1>1, <2>3, <3>1 DEF Range
        <3>3. QED
            BY <3>2
    <2>4. CASE i \notin 1 .. Len(s) /\ j \in 1 .. Len(s)
        <3>1. i - Len(s) \in 1 .. Len(t) /\ q[i] = t[i - Len(s)] /\ q[j] = s[j]
            BY <1>1, <2>4
        <3>2. q[j] \in Range(s) /\ q[i] \in Range(t)
            BY <1>1, <2>4, <3>1 DEF Range
        <3>3. QED
            BY <3>2
    <2>5. QED
        BY <2>1, <2>2, <2>3, <2>4
<1>4. QED
    BY <1>2, <1>3

\* Two backup records of the same kind about the same alert are one record.
LEMMA RecordEq ==
    ASSUME NEW x \in Records, NEW y \in Records,
           x.kind = y.kind, x.alert = y.alert
    PROVE  x = y
    BY DEF Records

-----------------------------------------------------------------------------
(* The facts a step must keep.  A step keeps every pending action it does  *)
(* not answer (PendingKept), and never forgets that an alert was raised,   *)
(* accepted or multisigned (SubmittedKept): the runway's alerted forkers,  *)
(* the RMC engine's multisigned hashes and the non-empty entries of        *)
(* known_rmcs only grow.                                                   *)

PendingKept ==
    /\ own_alert_responses \subseteq own_alert_responses'
    /\ multisigned_notifications \subseteq multisigned_notifications'
    /\ \A a \in Alerts : network_alert_responses[a] # NoEntry
                            => network_alert_responses'[a] # NoEntry

SubmittedKept ==
    /\ runway_alerted \subseteq runway_alerted'
    /\ rmc_multisigned \subseteq rmc_multisigned'
    /\ \A p \in Pairs : known_rmcs[p] # NoAlert => known_rmcs'[p] # NoAlert

\* A record submitted before such a step still is after it.
LEMMA KeptRecordSubmitted ==
    ASSUME SubmittedKept, NEW r \in Records, Submitted(r)
    PROVE  Submitted(r)'
<1>1. r.alert \in Alerts /\ Pair(r.alert) \in Pairs
    BY DEF Records, Pair, Forker, Pairs
<1>2. QED
    BY <1>1 DEF SubmittedKept, Submitted

\* A record pending and submitted before such a step still is after it.
LEMMA KeptRecord ==
    ASSUME TypeOK, PendingKept, SubmittedKept,
           NEW r \in Records, Pending(r), Submitted(r)
    PROVE  Pending(r)' /\ Submitted(r)'
<1>1. r.alert \in Alerts /\ Pair(r.alert) \in Pairs
    BY DEF Records, Pair, Forker, Pairs
<1>2. Pending(r)'
    BY <1>1 DEF PendingKept, Pending
<1>3. Submitted(r)'
    BY <1>1 DEF SubmittedKept, Submitted
<1>4. QED
    BY <1>2, <1>3

\* A step that leaves both channels and the service's liveness alone
\* preserves ResponsesIInv if it keeps pending and submitted records.
LEMMA ChannelsQuiet ==
    ASSUME ResponsesIInv, TypeOK', PendingKept, SubmittedKept,
           responses_from_backup' = responses_from_backup,
           data_for_backup' = data_for_backup,
           service_running' = service_running
    PROVE  ResponsesIInv'
<1>1. InFlight' = InFlight
    BY DEF InFlight
<1>2. InFlight \subseteq Records
    BY DEF ResponsesIInv, TypeOK, InFlight, Range
<1>3. \A r \in InFlight' : Pending(r)' /\ Submitted(r)'
    BY <1>1, <1>2, KeptRecord DEF ResponsesIInv
<1>4. QED
    BY <1>3 DEF ResponsesIInv, InFlight

\* A step that sends the service's saver a new record n, pending and
\* submitted after the step, preserves ResponsesIInv.  The record is new
\* because the caller's guard (a forker not alerted yet, a pair without an
\* RMC, a hash not multisigned yet) rules out every record in flight.
LEMMA SendStep ==
    ASSUME ResponsesIInv, TypeOK', PendingKept, SubmittedKept,
           NEW n \in Records, n \notin InFlight, Pending(n)', Submitted(n)',
           SendToBackup(n),
           responses_from_backup' = responses_from_backup,
           service_running' = service_running
    PROVE  ResponsesIInv'
<1>1. CASE ~saver_running
    BY <1>1, ChannelsQuiet DEF SendToBackup
<1>2. CASE saver_running
    <2>1. data_for_backup' = Append(data_for_backup, n)
        BY <1>2 DEF SendToBackup
    <2>2. data_for_backup \in Seq(Records) /\ responses_from_backup \in Seq(Records)
        BY DEF ResponsesIInv, TypeOK
    <2>3. Range(data_for_backup') = Range(data_for_backup) \cup {n}
        BY <2>1, <2>2, RangeAppend
    <2>4. n \notin Range(data_for_backup) /\ n \notin Range(responses_from_backup)
        BY DEF InFlight
    <2>5. IsInjective(data_for_backup')
        BY <2>1, <2>2, <2>4, InjectiveAppend DEF ResponsesIInv
    <2>6. Range(responses_from_backup') \cap Range(data_for_backup') = {}
        BY <2>3, <2>4 DEF ResponsesIInv
    <2>7. InFlight' = InFlight \cup {n}
        BY <2>3 DEF InFlight
    <2>8. InFlight \subseteq Records
        BY <2>2 DEF InFlight, Range
    <2>9. \A r \in InFlight' : Pending(r)' /\ Submitted(r)'
        BY <2>7, <2>8, KeptRecord DEF ResponsesIInv
    <2>10. QED
        BY <2>5, <2>6, <2>9 DEF ResponsesIInv
<1>3. QED
    BY <1>1, <1>2

-----------------------------------------------------------------------------
(* The service's branches that do not read the saver's echoes.            *)

\* handle_alert_from_runway sends a record about a forker the runway had
\* not alerted about yet, so no record in flight is that one.
LEMMA RunwayStep ==
    ASSUME ResponsesIInv, TypeOK', NEW a \in OwnAlerts, HandleAlertFromRunway(a)
    PROVE  ResponsesIInv'
<1> DEFINE n == Record("OwnAlert", a)
<1>1. a \in Alerts /\ Pair(a) \in Pairs
    BY DEF OwnAlerts, Pair, Forker, Pairs
<1>2. n \in Records
    BY <1>1, RecordType DEF BackupKinds
<1>3. n \notin InFlight
    BY DEF HandleAlertFromRunway, ResponsesIInv, Submitted, Record
<1>4. PendingKept
    BY DEF HandleAlertFromRunway, PendingKept
<1>5. SubmittedKept
    BY <1>1, HandlerAssumption
    DEF HandleAlertFromRunway, OnOwnAlert, RmcAlert, rmc_vars, SubmittedKept
<1>6. Pending(n)' /\ Submitted(n)'
    BY DEF HandleAlertFromRunway, Pending, Submitted, Record
<1>7. QED
    BY <1>2, <1>3, <1>4, <1>5, <1>6, SendStep DEF HandleAlertFromRunway

\* handle_fork_alert sends a record only when the handler accepts the
\* alert, which it does only for a pair it drives no RMC on; every network
\* record in flight is about a pair with an RMC.
LEMMA ForkAlertStep ==
    ASSUME ResponsesIInv, TypeOK', NEW a \in Alerts, HandleForkAlert(a)
    PROVE  ResponsesIInv'
<1>1. Pair(a) \in Pairs
    BY DEF Pair, Forker, Pairs
<1>2. CASE AlertRejected(a) /\ UNCHANGED vars
    <2>1. PendingKept /\ SubmittedKept
        BY <1>2 DEF vars, handler_vars, service_vars, rmc_vars, PendingKept,
                    SubmittedKept
    <2>2. QED
        BY <1>2, <2>1, ChannelsQuiet DEF vars, service_vars, backup_vars
<1>3. CASE AlertOfDrivenPair(a)
           /\ UNCHANGED <<service_vars, backup_vars, rmc_vars, runway_alerted>>
    <2>1. PendingKept /\ SubmittedKept
        BY <1>3 DEF AlertOfDrivenPair, service_vars, rmc_vars, PendingKept,
                    SubmittedKept
    <2>2. QED
        BY <1>3, <2>1, ChannelsQuiet DEF service_vars, backup_vars
<1>4. CASE /\ AcceptNetworkAlert(a)
           /\ network_alert_responses' =
                 [network_alert_responses EXCEPT ![a] = NewForker(a)]
           /\ SendToBackup(Record("NetworkAlert", a))
           /\ UNCHANGED <<own_alert_responses, multisigned_notifications,
                          messages_for_network, notifications_for_units,
                          service_running, responses_from_backup, backup,
                          saver_running, rmc_vars, runway_alerted>>
    <2> DEFINE n == Record("NetworkAlert", a)
    <2>1. n \in Records
        BY RecordType DEF BackupKinds
    <2>2. n \notin InFlight
        BY <1>4 DEF AcceptNetworkAlert, ResponsesIInv, Submitted, Record
    <2>3. PendingKept
        BY <1>4, ServiceAssumption DEF ResponsesIInv, TypeOK, PendingKept, NewForker
    <2>4. SubmittedKept
        BY <1>1, <1>4, HandlerAssumption
        DEF AcceptNetworkAlert, RmcAlert, rmc_vars, SubmittedKept
    <2>5. Pending(n)'
        BY <1>4, ServiceAssumption DEF ResponsesIInv, TypeOK, Pending, Record,
                                       NewForker
    <2>6. Submitted(n)'
        BY <1>1, <1>4, HandlerAssumption
        DEF AcceptNetworkAlert, RmcAlert, Submitted, Record, ResponsesIInv,
            TypeOK, HandlerTypeOK
    <2>7. QED
        BY <1>4, <2>1, <2>2, <2>3, <2>4, <2>5, <2>6, SendStep
<1>5. QED
    BY <1>2, <1>3, <1>4 DEF HandleForkAlert

\* The multisigned hash is sent to the saver once: RMC completes a hash
\* only once, and every multisigned record in flight is of a completed hash.
LEMMA MultisignedStep ==
    ASSUME ResponsesIInv, TypeOK', NEW h \in Alerts, HandleMultisigned(h)
    PROVE  ResponsesIInv'
<1>1. Pair(h) \in Pairs
    BY DEF Pair, Forker, Pairs
<1>2. SubmittedKept
    BY <1>1, HandlerAssumption DEF HandleMultisigned, AlertConfirmed, SubmittedKept
<1>3. CASE CorrectCommitment(h)
    <2> DEFINE n == Record("MultisignedHash", h)
    <2>1. n \in Records
        BY RecordType DEF BackupKinds
    <2>2. n \notin InFlight
        BY DEF HandleMultisigned, ResponsesIInv, Submitted, Record
    <2>3. PendingKept
        BY <1>3 DEF HandleMultisigned, PendingKept
    <2>4. Pending(n)' /\ Submitted(n)'
        BY <1>3 DEF HandleMultisigned, Pending, Submitted, Record
    <2>5. QED
        BY <1>2, <1>3, <2>1, <2>2, <2>3, <2>4, SendStep DEF HandleMultisigned
<1>4. CASE ~CorrectCommitment(h)
    <2>1. PendingKept
        BY <1>4 DEF HandleMultisigned, PendingKept
    <2>2. QED
        BY <1>2, <1>4, <2>1, ChannelsQuiet DEF HandleMultisigned
<1>5. QED
    BY <1>3, <1>4

\* RMC messages, alert requests and RMC's own broadcasts touch neither the
\* pending tables nor what was submitted.
LEMMA NetworkQuietStep ==
    ASSUME ResponsesIInv, TypeOK',
           \/ \E s \in Peers, h \in Alerts, c \in BOOLEAN : HandleRmcMessage(s, h, c)
           \/ \E n \in Peers, h \in Alerts : HandleAlertRequest(n, h)
           \/ \E h \in Alerts : RmcMessageToNetwork(h)
           \/ UNCHANGED vars
    PROVE  ResponsesIInv'
<1>1. /\ UNCHANGED <<handler_vars, own_alert_responses, network_alert_responses,
                     multisigned_notifications, service_running, backup_vars,
                     rmc_multisigned, runway_alerted>>
    BY Zenon DEF HandleRmcMessage, HandleAlertRequest, RmcMessageToNetwork,
                 vars, service_vars, rmc_vars
<1>2. PendingKept /\ SubmittedKept
    BY <1>1 DEF PendingKept, SubmittedKept, handler_vars
<1>3. QED
    BY <1>1, <1>2, ChannelsQuiet DEF backup_vars

-----------------------------------------------------------------------------
(* The steps that move, answer or drop records in flight.                  *)

\* The saver writes the head of its queue and echoes it to a running
\* service, or, when the service is gone, drops it and stops.
LEMMA SaveItemStep ==
    ASSUME ResponsesIInv, TypeOK', BackupSaveItem
    PROVE  ResponsesIInv'
<1> DEFINE R == responses_from_backup
           D == data_for_backup
<1>1. R \in Seq(Records) /\ D \in Seq(Records) /\ D # << >>
      /\ D' = Tail(D)
    BY DEF ResponsesIInv, TypeOK, BackupSaveItem
<1>2. /\ IsInjective(D') /\ Head(D) \notin Range(D')
      /\ Head(D) \in Range(D) /\ Range(D') \subseteq Range(D)
    BY <1>1, InjectiveTail, RangeTail DEF ResponsesIInv
<1>3. PendingKept /\ SubmittedKept
    BY DEF BackupSaveItem, service_vars, rmc_vars, handler_vars, PendingKept,
           SubmittedKept
<1>4. InFlight \subseteq Records
    BY <1>1 DEF InFlight, Range
<1>5. CASE service_running
    <2>1. R' = Append(R, Head(D)) /\ service_running'
        BY <1>5 DEF BackupSaveItem, service_vars
    <2>2. Head(D) \in Records
        BY <1>1, <1>2 DEF Range
    <2>3. Range(R') = Range(R) \cup {Head(D)}
        BY <1>1, <2>1, <2>2, RangeAppend
    <2>4. IsInjective(R')
        BY <1>1, <1>2, <2>1, <2>2, InjectiveAppend DEF ResponsesIInv
    <2>5. Range(R') \cap Range(D') = {}
        BY <1>2, <2>3 DEF ResponsesIInv
    <2>6. InFlight' \subseteq InFlight
        BY <1>2, <2>3 DEF InFlight
    <2>7. \A r \in InFlight' : Pending(r)' /\ Submitted(r)'
        BY <1>3, <1>4, <2>6, KeptRecord DEF ResponsesIInv
    <2>8. QED
        BY <1>2, <2>1, <2>4, <2>5, <2>7 DEF ResponsesIInv
<1>6. CASE ~service_running
    <2>1. R' = R /\ R = << >> /\ ~service_running'
        BY <1>6 DEF BackupSaveItem, service_vars, ResponsesIInv
    <2>2. InFlight' \subseteq InFlight
        BY <1>2, <2>1 DEF InFlight
    <2>3. \A r \in InFlight' : Pending(r)' /\ Submitted(r)'
        BY <1>3, <1>4, <2>2, KeptRecord DEF ResponsesIInv
    <2>4. QED
        BY <1>2, <2>1, <2>3, InjectiveEmpty DEF ResponsesIInv
<1>7. QED
    BY <1>5, <1>6

\* A failed write or an exit of the saver drops its whole queue; the
\* service's exit drops the echoes it has not read.
LEMMA DropStep ==
    ASSUME ResponsesIInv, TypeOK', BackupSaveFails \/ SaverExit \/ ServiceExit
    PROVE  ResponsesIInv'
<1>1. PendingKept /\ SubmittedKept
    BY Zenon DEF BackupSaveFails, SaverExit, ServiceExit, service_vars, rmc_vars,
                 handler_vars, PendingKept, SubmittedKept
<1>2. InFlight \subseteq Records
    BY DEF ResponsesIInv, TypeOK, InFlight, Range
<1>3. CASE BackupSaveFails \/ SaverExit
    <2>1. data_for_backup' = << >> /\ UNCHANGED <<responses_from_backup, service_running>>
        BY <1>3 DEF BackupSaveFails, SaverExit, service_vars
    <2>2. InFlight' \subseteq InFlight
        BY <2>1, InjectiveEmpty DEF InFlight
    <2>3. QED
        BY <1>1, <1>2, <2>1, <2>2, InjectiveEmpty, KeptRecord DEF ResponsesIInv
<1>4. CASE ServiceExit
    <2>1. responses_from_backup' = << >> /\ UNCHANGED data_for_backup
        BY <1>4 DEF ServiceExit
    <2>2. InFlight' \subseteq InFlight
        BY <2>1, InjectiveEmpty DEF InFlight
    <2>3. QED
        BY <1>1, <1>2, <2>1, <2>2, InjectiveEmpty, KeptRecord DEF ResponsesIInv
<1>5. QED
    BY <1>3, <1>4

\* The service reads one echo and answers the pending action of that record
\* only; every other record in flight is a different record (the channels
\* hold none twice and share none), so its pending action stays.
LEMMA EchoStep ==
    ASSUME ResponsesIInv, TypeOK', HandleDataFromBackup
    PROVE  ResponsesIInv'
<1> DEFINE R == responses_from_backup
           D == data_for_backup
           r0 == Head(R)
           a == r0.alert
<1>1. R \in Seq(Records) /\ D \in Seq(Records) /\ R # << >> /\ R' = Tail(R)
      /\ D' = D /\ service_running' = service_running
    BY DEF ResponsesIInv, TypeOK, HandleDataFromBackup
<1>2. /\ IsInjective(R') /\ r0 \notin Range(R')
      /\ r0 \in Range(R) /\ Range(R') \subseteq Range(R)
    BY <1>1, InjectiveTail, RangeTail DEF ResponsesIInv
<1>3. r0 \in Records /\ a \in Alerts
    <2>1. r0 \in Records
        BY <1>1, HeadTailProperties
    <2>2. QED
        BY <2>1 DEF Records
<1>4. InFlight' \subseteq InFlight \ {r0}
    BY <1>1, <1>2 DEF InFlight, ResponsesIInv
<1>5. InFlight \subseteq Records
    BY <1>1 DEF InFlight, Range
<1>6. SubmittedKept
    BY DEF HandleDataFromBackup, handler_vars, SubmittedKept
<1>7. ASSUME NEW r \in Records, r # r0, Pending(r)
      PROVE  Pending(r)'
    <2>1. r.kind = r0.kind => r.alert # a
        BY <1>3, <1>7, RecordEq
    <2>2. r.alert \in Alerts
        BY DEF Records
    <2>3. CASE r0.kind = "OwnAlert"
        <3>1. own_alert_responses' \in {own_alert_responses,
                                        own_alert_responses \ {a}}
              /\ UNCHANGED <<network_alert_responses, multisigned_notifications>>
            BY <2>3 DEF HandleDataFromBackup
        <3>2. QED
            BY <1>7, <2>1, <2>3, <3>1 DEF Pending
    <2>4. CASE r0.kind = "NetworkAlert"
        <3>1. /\ \/ network_alert_responses' = network_alert_responses
                 \/ network_alert_responses' =
                        [network_alert_responses EXCEPT ![a] = NoEntry]
              /\ UNCHANGED <<own_alert_responses, multisigned_notifications>>
            BY <2>4 DEF HandleDataFromBackup
        <3>2. QED
            BY <1>7, <2>1, <2>2, <2>4, <3>1 DEF Pending, ResponsesIInv, TypeOK
    <2>5. CASE r0.kind = "MultisignedHash"
        <3>1. multisigned_notifications' \in {multisigned_notifications,
                                              multisigned_notifications \ {a}}
              /\ UNCHANGED <<own_alert_responses, network_alert_responses>>
            BY <2>5 DEF HandleDataFromBackup
        <3>2. QED
            BY <1>7, <2>1, <2>5, <3>1 DEF Pending
    <2>6. QED
        BY <1>3, <2>3, <2>4, <2>5 DEF Records, BackupKinds
<1>8. ASSUME NEW r \in InFlight' PROVE Pending(r)' /\ Submitted(r)'
    <2>1. r \in InFlight /\ r # r0 /\ r \in Records
        BY <1>4, <1>5
    <2>2. Pending(r) /\ Submitted(r)
        BY <2>1 DEF ResponsesIInv
    <2>3. Pending(r)'
        BY <1>7, <2>1, <2>2
    <2>4. Submitted(r)'
        BY <1>6, <2>1, <2>2, KeptRecordSubmitted
    <2>5. QED
        BY <2>3, <2>4
<1>9. QED
    BY <1>1, <1>2, <1>8 DEF ResponsesIInv, HandleDataFromBackup

-----------------------------------------------------------------------------
(* The invariant.                                                          *)

\* Every select! branch of the service and of the saver preserves
\* ResponsesIInv.
LEMMA ResponsesIInvStep == ResponsesIInv /\ [Next]_vars => ResponsesIInv'
<1> SUFFICES ASSUME ResponsesIInv, [Next]_vars PROVE ResponsesIInv'
    OBVIOUS
<1>1. TypeOK'
    BY TypeOKStep DEF ResponsesIInv
<1>2. CASE \E a \in OwnAlerts : HandleAlertFromRunway(a)
    BY <1>1, <1>2, RunwayStep
<1>3. CASE \E a \in Alerts : HandleForkAlert(a)
    BY <1>1, <1>3, ForkAlertStep
<1>4. CASE \E h \in Alerts : HandleMultisigned(h)
    BY <1>1, <1>4, MultisignedStep
<1>5. CASE \/ \E s \in Peers, h \in Alerts, c \in BOOLEAN : HandleRmcMessage(s, h, c)
           \/ \E n \in Peers, h \in Alerts : HandleAlertRequest(n, h)
           \/ \E h \in Alerts : RmcMessageToNetwork(h)
           \/ UNCHANGED vars
    BY <1>1, <1>5, NetworkQuietStep
<1>6. CASE HandleDataFromBackup
    BY <1>1, <1>6, EchoStep
<1>7. CASE BackupSaveItem
    BY <1>1, <1>7, SaveItemStep
<1>8. CASE BackupSaveFails \/ SaverExit \/ ServiceExit
    BY <1>1, <1>8, DropStep
<1>9. QED
    BY <1>2, <1>3, <1>4, <1>5, <1>6, <1>7, <1>8 DEF Next

\* The saver's channels are empty at start.
LEMMA ResponsesIInvInit == Init => ResponsesIInv
<1>1. Init => TypeOK
    BY DEF Init, HandlerInit, TypeOK, HandlerTypeOK
<1>2. Init => InFlight = {}
    BY DEF Init, InFlight, Range
<1>3. QED
    BY <1>1, <1>2, InjectiveEmpty DEF Init, ResponsesIInv

\* ResponsesIInv, read over the two channels in the order the service
\* will receive their records, is NoMissingResponse.
LEMMA ResponsesIInvImplies == ResponsesIInv => NoMissingResponse
<1> SUFFICES ASSUME ResponsesIInv PROVE NoMissingResponse
    OBVIOUS
<1>1. /\ IsInjective(responses_from_backup \o data_for_backup)
      /\ \A i \in DOMAIN (responses_from_backup \o data_for_backup) :
            (responses_from_backup \o data_for_backup)[i] \in InFlight
    BY InjectiveConcat DEF ResponsesIInv, TypeOK, InFlight
<1> DEFINE q == responses_from_backup \o data_for_backup
<1>2. ASSUME NEW i \in DOMAIN q PROVE Pending(q[i])
    BY <1>1 DEF ResponsesIInv
<1>3. ASSUME NEW i \in DOMAIN q, NEW j \in DOMAIN q PROVE i # j => q[i] # q[j]
    BY <1>1 DEF IsInjective
<1>4. QED
    BY <1>2, <1>3 DEF NoMissingResponse

\* Every record in either of the saver's channels still has its pending
\* entry, and the decision that submitted it cannot be taken again; no
\* record is in the channels twice; the echo channel is empty once the
\* service has stopped: ResponsesIInv holds in every reachable state of
\* the service, for every committee and set of alerts.
THEOREM ResponsesIInvHolds == Spec => []ResponsesIInv
BY ResponsesIInvInit, ResponsesIInvStep, PTL DEF Spec

\* No missing response (spec 4.3, service.rs handle_data_from_backup): in
\* every reachable state, every record the saver still holds or has echoed
\* and the service has not read finds its pending action when the service
\* reads it, and no record travels the saver's channels twice, for every
\* committee and set of alerts.
THEOREM NoMissingResponseHolds == Spec => []NoMissingResponse
BY ResponsesIInvHolds, ResponsesIInvImplies, PTL

=============================================================================
