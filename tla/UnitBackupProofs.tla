-------------------------- MODULE UnitBackupProofs --------------------------
(***************************************************************************)
(* No self-fork across restarts, for every committee, every width of       *)
(* Round and every number of crashes, provided the runway stops below the  *)
(* last round Round can hold.  Without that hypothesis the property is     *)
(* false: next_round_backup wraps to 0 in a release build (the run         *)
(* unit_round_wrap shows the fork).                                        *)
(***************************************************************************)
EXTENDS UnitBackup, SequenceTheorems, TLAPS

USE UnitBackupAssumption, TornAssumption

\* The runway never creates a unit in the last round of Round, so that
\* next_round_backup = newest own round + 1 does not wrap.
RunwayBelowLastRound == MaxRound < RoundModulus - 1

-----------------------------------------------------------------------------
(* Lemmas on the file, the channels and the rounds read from the file.     *)

LEMMA ModulusPositive == RoundModulus \in Nat \ {0}
    BY DEF RoundModulus

LEMMA ItemsEmpty == ItemsOf(<< >>) = {}
    BY DEF ItemsOf

\* The file and the channels hold items of their type.
LEMMA ItemsType ==
    ASSUME NEW S, NEW s \in Seq(S)
    PROVE  ItemsOf(s) \subseteq S
<1>1. s \in [1 .. Len(s) -> S]
    BY LenProperties
<1>2. QED
    BY <1>1 DEF ItemsOf

\* Appending to the file or a channel adds exactly the new item.
LEMMA ItemsAppend ==
    ASSUME NEW S, NEW s \in Seq(S), NEW x \in S
    PROVE  ItemsOf(Append(s, x)) = ItemsOf(s) \cup {x}
<1> DEFINE t == Append(s, x)
<1>1. Len(t) = Len(s) + 1 /\ t[Len(s) + 1] = x
      /\ \A i \in 1 .. Len(s) : t[i] = s[i]
      /\ DOMAIN t = 1 .. Len(s) + 1 /\ DOMAIN s = 1 .. Len(s)
    BY AppendProperties, LenProperties
<1>2. QED
    BY <1>1 DEF ItemsOf

\* Receiving from a channel takes its head, and what remains was in it.
LEMMA ItemsTail ==
    ASSUME NEW S, NEW s \in Seq(S), s # << >>
    PROVE  /\ Head(s) \in ItemsOf(s)
           /\ ItemsOf(Tail(s)) \subseteq ItemsOf(s)
<1> DEFINE t == Tail(s)
<1>1. /\ Len(s) \in Nat \ {0} /\ Len(t) = Len(s) - 1 /\ Head(s) = s[1]
      /\ \A i \in 1 .. Len(t) : t[i] = s[i + 1]
      /\ DOMAIN t = 1 .. Len(t) /\ DOMAIN s = 1 .. Len(s)
    BY HeadTailProperties, LenProperties
<1>2. Head(s) \in ItemsOf(s)
    BY <1>1 DEF ItemsOf
<1>3. ASSUME NEW y \in ItemsOf(t) PROVE y \in ItemsOf(s)
    <2>1. PICK i \in 1 .. Len(t) : y = t[i]
        BY <1>1 DEF ItemsOf
    <2>2. QED
        BY <1>1, <2>1 DEF ItemsOf
<1>4. QED
    BY <1>2, <1>3

\* next_round_backup reads the rounds of our units in the file.
LEMMA OwnRoundsItems ==
    ASSUME NEW f
    PROVE  OwnRounds(f) = {u.round : u \in {v \in ItemsOf(f) : v.creator = Self}}
    BY DEF OwnRounds, ItemsOf

\* When our rounds in the file have a maximum, NewestOwnRound is it.
LEMMA NewestIsMax ==
    ASSUME NEW f,
           \E m \in OwnRounds(f) : \A x \in OwnRounds(f) : x <= m
    PROVE  /\ NewestOwnRound(f) \in OwnRounds(f)
           /\ \A x \in OwnRounds(f) : x <= NewestOwnRound(f)
    BY Zenon DEF NewestOwnRound

\* The loader lets the node start only on a file without a torn item, and
\* every other outcome is a reason of on_shutdown.
LEMMA LoaderOutcomeType ==
    ASSUME NEW f, NEW b, NEW col, NEW ok
    PROVE  /\ LoaderOutcome(f, b, col, ok) \in Refusals \cup {"start"}
           /\ LoaderOutcome(f, b, col, ok) # "none"
           /\ LoaderOutcome(f, b, col, ok) = "start" => Torn \notin ItemsOf(f)
    BY DEF LoaderOutcome, Refusals

\* A file without a torn item has a newest own round.
HasNewest(f) ==
    Torn \notin ItemsOf(f) /\ OwnRounds(f) # {} =>
       \E m \in OwnRounds(f) : \A x \in OwnRounds(f) : x <= m

\* Writing one more item (a unit or a torn one) keeps it so.
LEMMA NewestAppend ==
    ASSUME NEW f \in Seq(Units \cup {Torn}), HasNewest(f),
           NEW x \in Units \cup {Torn}
    PROVE  HasNewest(Append(f, x))
<1> DEFINE g == Append(f, x)
           Own(h) == {v \in ItemsOf(h) : v.creator = Self}
<1> SUFFICES ASSUME Torn \notin ItemsOf(g), OwnRounds(g) # {}
             PROVE  \E m \in OwnRounds(g) : \A y \in OwnRounds(g) : y <= m
    BY DEF HasNewest
<1>1. ItemsOf(g) = ItemsOf(f) \cup {x}
    BY ItemsAppend
<1>2. x \in Units /\ Torn \notin ItemsOf(f) /\ ItemsOf(f) \subseteq Units \cup {Torn}
    BY <1>1, ItemsType
<1>3. ItemsOf(f) \subseteq Units
    BY <1>2
<1>4. OwnRounds(g) = {u.round : u \in Own(g)} /\ OwnRounds(f) = {u.round : u \in Own(f)}
    BY OwnRoundsItems
<1>5. \A u \in ItemsOf(g) : u.round \in Nat
    BY <1>1, <1>2, <1>3 DEF Units, Rounds
<1>6. CASE x.creator # Self
    <2>1. Own(g) = Own(f)
        BY <1>1, <1>6
    <2>2. QED
        BY <1>2, <1>4, <2>1 DEF HasNewest
<1>7. CASE x.creator = Self /\ OwnRounds(f) = {}
    <2>1. OwnRounds(g) = {x.round}
        BY <1>1, <1>4, <1>7
    <2>2. QED
        BY <1>5, <1>1, <2>1
<1>8. CASE x.creator = Self /\ OwnRounds(f) # {}
    <2>1. PICK m \in OwnRounds(f) : \A y \in OwnRounds(f) : y <= m
        BY <1>2, <1>8 DEF HasNewest
    <2>2. OwnRounds(g) = OwnRounds(f) \cup {x.round}
        BY <1>1, <1>4, <1>8
    <2>3. m \in Nat /\ x.round \in Nat /\ OwnRounds(f) \subseteq Nat
        BY <1>1, <1>4, <1>5
    <2>4. QED
        BY <2>1, <2>2, <2>3
<1>9. QED
    BY <1>6, <1>7, <1>8

\* The units the runway creates and receives are units.
LEMMA CreatedUnitType ==
    ASSUME dag \subseteq Units, NEW r \in 0 .. MaxRound,
           incarnation \in 0 .. MaxCrashes
    PROVE  Unit(r, Self, ParentsIn(dag, r), Session, incarnation) \in Units
<1>1. ParentsIn(dag, r) \subseteq Nodes
    BY DEF ParentsIn, Units
<1>2. r \in Rounds
    BY DEF Rounds, RoundModulus
<1>3. QED
    BY <1>1, <1>2 DEF Unit, Units

LEMMA PeerUnitType ==
    ASSUME NEW c \in Nodes, NEW r \in 0 .. MaxRound
    PROVE  PeerUnit(c, r) \in Units
<1>1. r \in Rounds
    BY DEF Rounds, RoundModulus
<1>2. QED
    BY <1>1 DEF PeerUnit, Unit, Units

-----------------------------------------------------------------------------
(* The inductive invariant, step by step.                                  *)

\* A step that keeps the node's state and next round, forgets none of the
\* created units and sends no new unit of ours towards the file preserves
\* the facts about our units, and BackupIInv if it preserves the others.
LEMMA OwnFrame ==
    ASSUME BackupIInv, TypeOK',
           OwnUnitsSent' \subseteq OwnUnitsSent, created \subseteq created',
           node' = node, next_round' = next_round,
           ItemsOf(responses') \subseteq ItemsOf(file'),
           broadcast' \subseteq {u \in ItemsOf(file') \ {Torn} : u.creator = Self},
           node' # "running" => units_to_save' = <<>> /\ responses' = <<>>,
           HasNewest(file')
    PROVE  BackupIInv'
    BY DEF BackupIInv, HasNewest

\* A peer's unit enters the saver's queue: it is not ours.
LEMMA PeerStep ==
    ASSUME BackupIInv, NEW c \in Nodes \ {Self}, NEW r \in 0 .. MaxRound,
           ReceivePeerUnit(c, r)
    PROVE  BackupIInv'
<1> DEFINE u == PeerUnit(c, r)
<1>1. u \in Units /\ u.creator # Self
    BY PeerUnitType DEF PeerUnit, Unit
<1>2. units_to_save \in Seq(Units)
    BY DEF BackupIInv, TypeOK
<1>3. units_to_save' \in Seq(Units)
      /\ ItemsOf(units_to_save') \subseteq ItemsOf(units_to_save) \cup {u}
    BY <1>1, <1>2, ItemsAppend, AppendProperties DEF ReceivePeerUnit, SendToSaver
<1>4. OwnUnitsSent' \subseteq OwnUnitsSent
    BY <1>1, <1>3 DEF ReceivePeerUnit, OwnUnitsSent
<1>5. TypeOK'
    BY <1>3 DEF ReceivePeerUnit, BackupIInv, TypeOK
<1>6. QED
    BY <1>4, <1>5, OwnFrame DEF ReceivePeerUnit, BackupIInv, HasNewest

\* The runway creates our unit of round next_round: every unit of ours on
\* its way to the file is of an earlier round.
LEMMA CreateStep ==
    ASSUME BackupIInv, CreateUnit
    PROVE  BackupIInv'
<1> DEFINE r == next_round
           u == Unit(r, Self, ParentsIn(dag, r), Session, incarnation)
<1>1. node = "running" /\ r \in 0 .. MaxRound
    BY DEF CreateUnit, BackupIInv
<1>2. u \in Units /\ u.creator = Self /\ u.round = r
    BY <1>1, CreatedUnitType DEF BackupIInv, TypeOK, Unit
<1>3. units_to_save' \in Seq(Units)
      /\ ItemsOf(units_to_save') \subseteq ItemsOf(units_to_save) \cup {u}
    BY <1>2, ItemsAppend, AppendProperties
    DEF CreateUnit, SendToSaver, BackupIInv, TypeOK
<1>4. OwnUnitsSent' \subseteq OwnUnitsSent \cup {u}
    BY <1>3 DEF CreateUnit, OwnUnitsSent
<1>5. \A v \in OwnUnitsSent : v.round < r /\ v.round \in Nat
    BY <1>1 DEF BackupIInv, OwnUnitsSent, TypeOK, Units, Rounds
<1>6. TypeOK'
    BY <1>1, <1>2, <1>3 DEF CreateUnit, BackupIInv, TypeOK
<1>7. \A v, w \in OwnUnitsSent' : v.round = w.round => v = w
    BY <1>2, <1>4, <1>5 DEF BackupIInv
<1>8. OwnUnitsSent' \subseteq created' /\ \A v \in OwnUnitsSent' : v.round <= MaxRound
    BY <1>1, <1>2, <1>4 DEF CreateUnit, BackupIInv
<1>9. \A v \in OwnUnitsSent' : v.round < next_round'
    BY <1>1, <1>2, <1>4, <1>5 DEF CreateUnit
<1>10. QED
    BY <1>1, <1>6, <1>7, <1>8, <1>9 DEF CreateUnit, BackupIInv, HasNewest

\* The runway takes an echo: the unit was written, so what it broadcasts
\* is persisted.
LEMMA SavedStep ==
    ASSUME BackupIInv, HandleSaved
    PROVE  BackupIInv'
<1> DEFINE h == Head(responses)
<1>1. responses \in Seq(Units) /\ responses # << >>
    BY DEF BackupIInv, TypeOK, HandleSaved
<1>2. h \in ItemsOf(responses) /\ ItemsOf(responses') \subseteq ItemsOf(responses)
      /\ h \in Units /\ responses' \in Seq(Units)
    BY <1>1, ItemsTail, HeadTailProperties DEF HandleSaved
<1>3. h \in ItemsOf(file) /\ h # Torn
    BY <1>2 DEF BackupIInv
<1>4. OwnUnitsSent' \subseteq OwnUnitsSent
    BY <1>2 DEF HandleSaved, OwnUnitsSent
<1>5. h.creator = Self => h \in created
    BY <1>2, <1>3 DEF BackupIInv, OwnUnitsSent
<1>6. TypeOK'
    BY <1>2, <1>5 DEF HandleSaved, BackupIInv, TypeOK
<1>7. broadcast' \subseteq {u \in ItemsOf(file') \ {Torn} : u.creator = Self}
    BY <1>3 DEF HandleSaved, BackupIInv
<1>8. QED
    BY <1>2, <1>4, <1>6, <1>7, OwnFrame DEF HandleSaved, BackupIInv, HasNewest

\* save_item succeeds: the head of the queue moves to the file and to the
\* echo channel at once.
LEMMA SaveStep ==
    ASSUME BackupIInv, SaveUnit
    PROVE  BackupIInv'
<1> DEFINE h == Head(units_to_save)
<1>1. units_to_save \in Seq(Units) /\ units_to_save # << >>
      /\ file \in Seq(Units \cup {Torn}) /\ responses \in Seq(Units)
    BY DEF BackupIInv, TypeOK, SaveUnit
<1>2. h \in ItemsOf(units_to_save) /\ h \in Units /\ units_to_save' \in Seq(Units)
      /\ ItemsOf(units_to_save') \subseteq ItemsOf(units_to_save)
    BY <1>1, ItemsTail, HeadTailProperties DEF SaveUnit
<1>3. /\ ItemsOf(file') = ItemsOf(file) \cup {h}
      /\ ItemsOf(responses') = ItemsOf(responses) \cup {h}
      /\ file' \in Seq(Units \cup {Torn}) /\ responses' \in Seq(Units)
    <2>1. h \in Units \cup {Torn} /\ file' = Append(file, h)
        BY <1>2 DEF SaveUnit
    <2>2. ItemsOf(file') = ItemsOf(file) \cup {h} /\ file' \in Seq(Units \cup {Torn})
        <3> DEFINE S == Units \cup {Torn}
        <3>1. file \in Seq(S) /\ h \in S
            BY <1>1, <2>1
        <3>2. ItemsOf(Append(file, h)) = ItemsOf(file) \cup {h}
            BY <3>1, ItemsAppend
        <3>3. Append(file, h) \in Seq(S)
            BY <3>1, AppendProperties
        <3>4. QED
            BY <2>1, <3>2, <3>3
    <2>3. ItemsOf(responses') = ItemsOf(responses) \cup {h} /\ responses' \in Seq(Units)
        BY <1>1, <1>2, ItemsAppend, AppendProperties DEF SaveUnit
    <2>4. QED
        BY <2>2, <2>3
<1>4. OwnUnitsSent' \subseteq OwnUnitsSent
    BY <1>2, <1>3 DEF SaveUnit, OwnUnitsSent
<1>5. TypeOK'
    BY <1>2, <1>3 DEF SaveUnit, BackupIInv, TypeOK
<1>6. HasNewest(file')
    <2>1. h \in Units \cup {Torn} /\ file' = Append(file, h) /\ HasNewest(file)
        BY <1>2 DEF SaveUnit, BackupIInv, HasNewest
    <2>2. QED
        BY <1>1, <2>1, NewestAppend
<1>7. QED
    BY <1>3, <1>4, <1>5, <1>6, OwnFrame DEF SaveUnit, BackupIInv

\* save_item fails: the file gains nothing, a torn item or the whole
\* head, and the saver drops its queue.
LEMMA SaveFailsStep ==
    ASSUME BackupIInv, SaveUnitFails
    PROVE  BackupIInv'
<1> DEFINE h == Head(units_to_save)
<1>1. units_to_save \in Seq(Units) /\ units_to_save # << >>
      /\ file \in Seq(Units \cup {Torn})
    BY DEF BackupIInv, TypeOK, SaveUnitFails
<1>2. h \in ItemsOf(units_to_save) /\ h \in Units
    BY <1>1, ItemsTail, HeadTailProperties
<1>3. PICK x \in {Torn, h} : file' = file \/ file' = Append(file, x)
    <2>1. PICK written \in {<< >>, <<Torn>>, <<h>>} : file' = file \o written
        BY DEF SaveUnitFails
    <2>2. CASE written = << >>
        BY <1>1, <2>1, <2>2, ConcatEmptySeq
    <2>3. CASE written = <<Torn>>
        BY <1>1, <2>1, <2>3, AppendIsConcat
    <2>4. CASE written = <<h>>
        BY <1>1, <1>2, <2>1, <2>4, AppendIsConcat
    <2>5. QED
        BY <2>1, <2>2, <2>3, <2>4
<1>4. x \in Units \cup {Torn}
    BY <1>2
<1>5. /\ ItemsOf(file') \subseteq ItemsOf(file) \cup {x}
      /\ ItemsOf(file) \subseteq ItemsOf(file')
      /\ file' \in Seq(Units \cup {Torn})
      /\ HasNewest(file')
    <2>1. HasNewest(file)
        BY DEF BackupIInv, HasNewest
    <2>2. CASE file' = file
        BY <1>1, <2>1, <2>2
    <2>3. CASE file' = Append(file, x)
        <3>1. ItemsOf(file') = ItemsOf(file) \cup {x} /\ file' \in Seq(Units \cup {Torn})
            BY <1>1, <1>4, <2>3, ItemsAppend, AppendProperties
        <3>2. HasNewest(file')
            BY <1>1, <1>4, <2>1, <2>3, NewestAppend
        <3>3. QED
            BY <3>1, <3>2
    <2>4. QED
        BY <1>3, <2>2, <2>3
<1>6. ItemsOf(units_to_save') = {}
    BY ItemsEmpty DEF SaveUnitFails
<1>7. OwnUnitsSent' \subseteq OwnUnitsSent
    BY <1>2, <1>5, <1>6 DEF SaveUnitFails, OwnUnitsSent
<1>8. TypeOK'
    BY <1>5, EmptySeq DEF SaveUnitFails, BackupIInv, TypeOK
<1>9. QED
    BY <1>5, <1>7, <1>8, OwnFrame DEF SaveUnitFails, BackupIInv

\* The process dies: every channel and the DAG are gone, the file stays.
LEMMA CrashStep ==
    ASSUME BackupIInv, Crash
    PROVE  BackupIInv'
<1>1. ItemsOf(units_to_save') = {} /\ ItemsOf(responses') = {}
    BY ItemsEmpty DEF Crash
<1>2. OwnUnitsSent' \subseteq OwnUnitsSent
    BY <1>1 DEF Crash, OwnUnitsSent
<1>3. TypeOK'
    BY EmptySeq DEF Crash, BackupIInv, TypeOK
<1>4. QED
    BY <1>1, <1>2, <1>3 DEF Crash, BackupIInv, HasNewest

\* The restarted node resumes one past the newest unit of ours in the file:
\* every unit of ours in the file is of an earlier round.  This is the step
\* that needs the runway to stop below the last round: the + 1 of
\* next_round_backup does not wrap.
LEMMA RestartStep ==
    ASSUME RunwayBelowLastRound, BackupIInv, Restart
    PROVE  BackupIInv'
<1> DEFINE OwnFile == {u \in ItemsOf(file) \ {Torn} : u.creator = Self}
<1>1. node = "down" /\ units_to_save = << >> /\ responses = << >>
    BY DEF Restart, BackupIInv
<1>2. OwnUnitsSent = OwnFile /\ OwnUnitsSent' = OwnUnitsSent
    BY <1>1, ItemsEmpty DEF OwnUnitsSent, Restart
<1>3. PICK col \in CollectionRounds, ok \in BOOLEAN :
         LET o == LoaderOutcome(file, build, col, ok)
         IN  IF o = "start"
             THEN /\ node' = "running"
                  /\ dag' = ItemsOf(file)
                  /\ next_round' = StartingRound(NextRoundBackup(file), col)
                  /\ UNCHANGED refusal
             ELSE Refuse(o)
    BY DEF Restart
<1> DEFINE o == LoaderOutcome(file, build, col, ok)
<1>4. o \in Refusals \cup {"start"} /\ o # "none" /\ (o = "start" => Torn \notin ItemsOf(file))
    BY LoaderOutcomeType
<1>5. CASE o # "start"
    <2>1. node' = "refused" /\ refusal' = o /\ UNCHANGED <<dag, next_round>>
        BY <1>3, <1>5 DEF Refuse
    <2>2. TypeOK'
        <3>1. refusal' \in Refusals /\ node' \in {"running", "down", "refused"}
            BY <1>4, <1>5, <2>1
        <3>2. QED
            BY <2>1, <3>1, Zenon DEF Restart, BackupIInv, TypeOK
    <2>3. QED
        BY <1>1, <1>2, <2>1, <2>2 DEF Restart, BackupIInv, HasNewest
<1>6. CASE o = "start"
    <2> DEFINE nrb == NextRoundBackup(file)
    <2>1. node' = "running" /\ dag' = ItemsOf(file) /\ next_round' = nrb
          /\ UNCHANGED refusal
        BY <1>3, <1>6 DEF StartingRound
    <2>2. Torn \notin ItemsOf(file) /\ ItemsOf(file) \subseteq Units
        <3>1. ItemsOf(file) \subseteq Units \cup {Torn}
            BY ItemsType DEF BackupIInv, TypeOK
        <3>2. QED
            BY <1>4, <1>6, <3>1
    <2>3. OwnRounds(file) = {u.round : u \in OwnFile}
        BY <2>2, OwnRoundsItems
    <2>4. nrb \in 0 .. MaxRound + 1 /\ \A u \in OwnFile : u.round < nrb
        <3>1. CASE OwnRounds(file) = {}
            BY <2>3, <3>1 DEF NextRoundBackup
        <3>2. CASE OwnRounds(file) # {}
            <4> DEFINE N == NewestOwnRound(file)
            <4>1. N \in OwnRounds(file) /\ \A x \in OwnRounds(file) : x <= N
                BY <2>2, <3>2, NewestIsMax DEF BackupIInv, HasNewest
            <4>2. \A u \in OwnFile : u.round \in Nat /\ u.round <= MaxRound
                BY <1>2, <2>2 DEF BackupIInv, Units, Rounds
            <4>3. N \in 0 .. MaxRound
                BY <2>3, <4>1, <4>2
            <4>4. N + 1 \in 0 .. RoundModulus - 1
                BY <4>3, ModulusPositive DEF RunwayBelowLastRound
            <4>5. nrb = N + 1
                BY <3>2, <4>4, ModulusPositive DEF NextRoundBackup
            <4>6. QED
                BY <2>3, <4>1, <4>2, <4>3, <4>5
        <3>3. QED
            BY <3>1, <3>2
    <2>5. TypeOK'
        BY <2>1, <2>2, <2>4 DEF Restart, BackupIInv, TypeOK
    <2>6. QED
        BY <1>2, <2>1, <2>4, <2>5 DEF Restart, BackupIInv, HasNewest
<1>7. QED
    BY <1>5, <1>6

\* Every step of the runway, the saver, a crash and a restart preserves
\* BackupIInv.
LEMMA BackupIInvStep ==
    ASSUME RunwayBelowLastRound
    PROVE  BackupIInv /\ [Next]_vars => BackupIInv'
<1> SUFFICES ASSUME BackupIInv, [Next]_vars PROVE BackupIInv'
    OBVIOUS
<1>1. CASE CreateUnit
    BY <1>1, CreateStep
<1>2. CASE \E c \in Nodes \ {Self}, r \in 0 .. MaxRound : ReceivePeerUnit(c, r)
    BY <1>2, PeerStep
<1>3. CASE HandleSaved
    BY <1>3, SavedStep
<1>4. CASE SaveUnit
    BY <1>4, SaveStep
<1>5. CASE SaveUnitFails
    BY <1>5, SaveFailsStep
<1>6. CASE Crash
    BY <1>6, CrashStep
<1>7. CASE Restart
    BY <1>7, RestartStep
<1>8. CASE UNCHANGED vars
    BY <1>8 DEF vars, BackupIInv, TypeOK, OwnUnitsSent, HasNewest
<1>9. QED
    BY <1>1, <1>2, <1>3, <1>4, <1>5, <1>6, <1>7, <1>8 DEF Next

\* A fresh node has an empty file, empty channels and no units.
LEMMA BackupIInvInit == Init => BackupIInv
<1> SUFFICES ASSUME Init PROVE BackupIInv
    OBVIOUS
<1>1. ItemsOf(file) = {} /\ OwnUnitsSent = {} /\ OwnRounds(file) = {}
    BY ItemsEmpty DEF Init, OwnUnitsSent, OwnRounds
<1>2. TypeOK
    BY EmptySeq DEF Init, TypeOK, Refusals
<1>3. QED
    BY <1>1, <1>2, ItemsEmpty DEF Init, BackupIInv

\* NoEquivocation follows: every unit of ours a peer may hold or a
\* restart will load is on its way to the file or in it.
LEMMA BackupIInvImplies == BackupIInv => NoEquivocation
    BY DEF BackupIInv, NoEquivocation, ObservableOwn, OwnUnitsSent

\* If the runway stops below the last round of Round, then in every
\* reachable state the broadcast units of ours are whole in the file, our
\* units in the file or the saver's channels have distinct rounds below the
\* runway's next round, and a file without a torn item has a newest round
\* of ours: BackupIInv holds for every committee, width and crash count.
THEOREM BackupIInvHolds ==
    ASSUME RunwayBelowLastRound
    PROVE  Spec => []BackupIInv
BY BackupIInvInit, BackupIInvStep, PTL DEF Spec

\* No self-fork across restarts (spec 4.3): if the runway stops below the
\* last round of Round, then for every committee, width of Round and number
\* of crashes, two different units of ours of one round are never both
\* broadcast or persisted.  The proof rests on the runway broadcasting only
\* echoed units, the saver echoing only written units, and the loader
\* resuming one past the newest unit of ours in the file.
THEOREM NoEquivocationHolds ==
    ASSUME RunwayBelowLastRound
    PROVE  Spec => []NoEquivocation
<1>1. Spec => []BackupIInv
    BY BackupIInvHolds
<1>2. QED
    BY <1>1, BackupIInvImplies, PTL

-----------------------------------------------------------------------------
(* Refinement of UnitBackupAbstract under Abstract's mapping: the whole    *)
(* units of the file are the backup, broadcast is what was sent.           *)

\* Appending a unit the saver took from its channel persists it: if it is
\* ours, no other unit of ours in the file has its round.
LEMMA PersistHead ==
    ASSUME BackupIInv, units_to_save # << >>,
           file' = Append(file, Head(units_to_save)), broadcast' = broadcast
    PROVE  /\ Head(units_to_save) \in Units
           /\ Abstract!Persist(Head(units_to_save))
<1> DEFINE h == Head(units_to_save)
<1>1. units_to_save \in Seq(Units) /\ file \in Seq(Units \cup {Torn})
    BY DEF BackupIInv, TypeOK
<1>2. h \in ItemsOf(units_to_save) /\ h \in Units /\ h # Torn
    BY <1>1, ItemsTail, HeadTailProperties, TornAssumption
<1>3. ItemsOf(file') = ItemsOf(file) \cup {h}
    BY <1>1, <1>2, ItemsAppend
<1>4. (ItemsOf(file) \ {Torn})' = (ItemsOf(file) \ {Torn}) \cup {h}
    BY <1>2, <1>3
<1>5. ASSUME h.creator = Self, NEW v \in ItemsOf(file) \ {Torn},
             v.creator = Self, v.round = h.round
      PROVE  v = h
    <2>1. v \in OwnUnitsSent /\ h \in OwnUnitsSent
        BY <1>2, <1>5 DEF OwnUnitsSent
    <2>2. QED
        BY <1>5, <2>1 DEF BackupIInv
<1>6. QED
    BY <1>2, <1>4, <1>5 DEF Abstract!Persist

\* Each step of the saver, the runway, a crash or a restart is a step of
\* the abstract backup or leaves the persisted and the sent units alone.
LEMMA RefinementStep ==
    BackupIInv /\ [Next]_vars => [Abstract!AbsNext]_Abstract!avars
<1> SUFFICES ASSUME BackupIInv, [Next]_vars
             PROVE  [Abstract!AbsNext]_Abstract!avars
    OBVIOUS
<1> DEFINE stutter == UNCHANGED <<file, broadcast>>
<1>1. stutter => UNCHANGED Abstract!avars
    BY DEF Abstract!avars
<1>2. CASE CreateUnit \/ Crash \/ Restart \/ UNCHANGED vars
          \/ \E c \in Nodes \ {Self}, r \in 0 .. MaxRound : ReceivePeerUnit(c, r)
    BY <1>1, <1>2 DEF CreateUnit, Crash, Restart, ReceivePeerUnit, vars
<1>3. CASE HandleSaved
    <2> DEFINE h == Head(responses)
    <2>1. responses \in Seq(Units) /\ responses # << >>
        BY <1>3 DEF BackupIInv, TypeOK, HandleSaved
    <2>2. h \in Units /\ h \in ItemsOf(file) /\ h # Torn
        BY <2>1, ItemsTail, HeadTailProperties, TornAssumption DEF BackupIInv
    <2>3. CASE h.creator = Self
        <3>1. Abstract!Broadcast(h)
            BY <1>3, <2>2, <2>3 DEF HandleSaved, Abstract!Broadcast
        <3>2. QED
            BY <2>2, <3>1 DEF Abstract!AbsNext
    <2>4. CASE h.creator # Self
        BY <1>1, <1>3, <2>4 DEF HandleSaved
    <2>5. QED
        BY <2>3, <2>4
<1>4. CASE SaveUnit
    <2>1. Head(units_to_save) \in Units /\ Abstract!Persist(Head(units_to_save))
        BY <1>4, PersistHead DEF SaveUnit
    <2>2. QED
        BY <2>1 DEF Abstract!AbsNext
<1>5. CASE SaveUnitFails
    <2> DEFINE h == Head(units_to_save)
    <2>1. file \in Seq(Units \cup {Torn}) /\ units_to_save # << >>
          /\ broadcast' = broadcast
        BY <1>5 DEF BackupIInv, TypeOK, SaveUnitFails
    <2>2. PICK written \in {<< >>, <<Torn>>, <<h>>} : file' = file \o written
        BY <1>5 DEF SaveUnitFails
    <2>3. CASE written = << >>
        BY <1>1, <2>1, <2>2, <2>3, ConcatEmptySeq
    <2>4. CASE written = <<Torn>>
        <3>1. file' = Append(file, Torn)
            BY <2>1, <2>2, <2>4, AppendIsConcat
        <3>2. ItemsOf(file') = ItemsOf(file) \cup {Torn}
            BY <2>1, <3>1, ItemsAppend
        <3>3. QED
            BY <2>1, <3>2 DEF Abstract!avars
    <2>5. CASE written = <<h>>
        <3>1. file' = Append(file, h)
            BY <2>1, <2>2, <2>5, AppendIsConcat
        <3>2. h \in Units /\ Abstract!Persist(h)
            BY <2>1, <3>1, PersistHead
        <3>3. QED
            BY <3>2 DEF Abstract!AbsNext
    <2>6. QED
        BY <2>2, <2>3, <2>4, <2>5
<1>6. QED
    BY <1>2, <1>3, <1>4, <1>5 DEF Next

\* The unit backup implements its specification (spec 4.3): if the runway
\* stops below the last round of Round, then for every committee, width of
\* Round and number of crashes, the file never loses a whole unit, the
\* runway broadcasts only units of ours save_item wrote, and the saver
\* never persists a unit of ours in a round another one of ours holds.
THEOREM BackupRefinementHolds ==
    ASSUME RunwayBelowLastRound
    PROVE  Spec => BackupRefinement
<1>1. Spec => []BackupIInv
    BY BackupIInvHolds
<1>2. Init => Abstract!AbsInit
    BY ItemsEmpty DEF Init, Abstract!AbsInit
<1>3. QED
    BY <1>1, <1>2, RefinementStep, PTL
    DEF Spec, BackupRefinement, Abstract!AbsSpec

=============================================================================
