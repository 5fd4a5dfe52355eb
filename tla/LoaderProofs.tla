----------------------------- MODULE LoaderProofs -----------------------------
(***************************************************************************)
(* The loader never refuses a backup our own saver wrote, for every        *)
(* committee, width of Round and number of crashes, provided the runway    *)
(* stops below the last round of Round: verify_units accepts the file,     *)
(* next_round_backup does not overflow, and the backup is never behind the *)
(* collection.  Only a torn item (decode) or a dropped channel stops it.  *)
(***************************************************************************)
EXTENDS UnitBackupProofs

USE UnitBackupAssumption, TornAssumption

-----------------------------------------------------------------------------
(* What the loader computes from a file our saver wrote.                   *)

\* The u16 subtraction of verify_units does not wrap above round 0.
LEMMA ModShift ==
    ASSUME NEW M \in Nat \ {0}, NEW x \in 0 .. M - 1
    PROVE  (x + M) % M = x
<1>1. x + M = x + 1 * M /\ x % M = x
    OBVIOUS
<1>2. QED
    BY <1>1, Z3

\* A unit whose parents are among the first n items has them among the
\* first m of any file that keeps those n items.
LEMMA ParentsSavedGrow ==
    ASSUME NEW u, NEW f, NEW g, NEW n \in Nat, NEW m \in Nat, n <= m,
           \A j \in 1 .. n : g[j] = f[j],
           ParentsSaved(u, f, n)
    PROVE  ParentsSaved(u, g, m)
<1>1. \A j \in 1 .. n : j \in 1 .. m
    OBVIOUS
<1>2. QED
    BY <1>1 DEF ParentsSaved

\* verify_units: on a file of whole units each of which has its parents
\* before it, no unit is of another session, misses a parent, or has
\* parents at round 0; the answer is "ok" in both builds.
LEMMA VerifyOk ==
    ASSUME NEW f \in Seq(Units), NEW b,
           \A i \in DOMAIN f : ParentsSaved(f[i], f, i - 1)
    PROVE  VerifyUnits(f, b) = "ok"
<1>1. DOMAIN f = 1 .. Len(f)
    BY LenProperties
<1>2. ASSUME NEW i \in DOMAIN f
      PROVE  /\ f[i].session = Session
             /\ \A p \in f[i].parents :
                   \E j \in 1 .. i - 1 : /\ f[j].round = ParentRound(f[i].round)
                                         /\ f[j].creator = p
             /\ ~(f[i].round = 0 /\ f[i].parents # {})
    <2>1. f[i] \in Units /\ f[i].round \in Rounds
        <3>1. f[i] \in Units
            BY <1>1, ElementOfSeq
        <3>2. QED
            BY <3>1 DEF Units
    <2>2. f[i].session = Session
        BY <2>1 DEF Units
    <2>3. ASSUME NEW p \in f[i].parents
          PROVE  \E j \in 1 .. i - 1 : /\ f[j].round = ParentRound(f[i].round)
                                       /\ f[j].creator = p
        <3>1. PICK j \in 1 .. i - 1 :
                 f[j] \in Units /\ f[j].creator = p /\ f[j].round + 1 = f[i].round
            BY <1>2, <2>3 DEF ParentsSaved
        <3>2. f[j].round \in Rounds
            BY <3>1 DEF Units
        <3>3. f[j].round = ParentRound(f[i].round)
            <4>1. f[j].round \in 0 .. RoundModulus - 1 /\ f[i].round = f[j].round + 1
                BY <3>1, <3>2 DEF Rounds
            <4>2. (f[j].round + RoundModulus) % RoundModulus = f[j].round
                BY <4>1, ModulusPositive, ModShift
            <4>3. QED
                BY <4>1, <4>2 DEF ParentRound
        <3>4. QED
            BY <3>1, <3>3
    <2>4. ~(f[i].round = 0 /\ f[i].parents # {})
        BY <1>2 DEF ParentsSaved
    <2>5. QED
        BY <2>2, <2>3, <2>4
<1>3. \A i \in DOMAIN f :
         /\ ~(f[i].session # Session)
         /\ ~\E p \in f[i].parents :
               ~\E j \in 1 .. i - 1 : /\ f[j].round = ParentRound(f[i].round)
                                      /\ f[j].creator = p
         /\ ~(f[i].round = 0 /\ f[i].parents # {} /\ b = "debug")
    BY <1>2, Zenon
<1>4. {i \in DOMAIN f :
         \/ f[i].session # Session
         \/ \E p \in f[i].parents :
               ~\E j \in 1 .. i - 1 : /\ f[j].round = ParentRound(f[i].round)
                                      /\ f[j].creator = p
         \/ (f[i].round = 0 /\ f[i].parents # {} /\ b = "debug")} = {}
    BY <1>3, Zenon
<1>5. QED
    BY <1>4, Zenon DEF VerifyUnits

\* Our units of a file without a torn item are the ones BackupIInv bounds:
\* its own rounds have a newest one, at most MaxRound.
LEMMA NewestBounded ==
    ASSUME BackupIInv, Torn \notin ItemsOf(file), OwnRounds(file) # {}
    PROVE  /\ NewestOwnRound(file) \in 0 .. MaxRound
           /\ \A u \in ItemsOf(file) : u.creator = Self => u.round <= NewestOwnRound(file)
<1>1. NewestOwnRound(file) \in OwnRounds(file)
      /\ \A x \in OwnRounds(file) : x <= NewestOwnRound(file)
    BY NewestIsMax DEF BackupIInv
<1>2. ItemsOf(file) \subseteq Units
    <2>1. ItemsOf(file) \subseteq Units \cup {Torn}
        BY ItemsType DEF BackupIInv, TypeOK
    <2>2. QED
        BY <2>1
<1>3. OwnRounds(file) = {u.round : u \in {v \in ItemsOf(file) : v.creator = Self}}
    BY OwnRoundsItems
<1>4. \A u \in ItemsOf(file) : u.creator = Self => u.round \in 0 .. MaxRound
    BY <1>2 DEF BackupIInv, OwnUnitsSent, Units, Rounds
<1>5. QED
    BY <1>1, <1>3, <1>4

\* A file without a torn item is a sequence of units.
LEMMA WholeFile ==
    ASSUME NEW f \in Seq(Units \cup {Torn}), Torn \notin ItemsOf(f)
    PROVE  f \in Seq(Units)
<1>1. \A i \in 1 .. Len(f) : f[i] \in ItemsOf(f) /\ f[i] \in Units \cup {Torn}
    BY LenProperties, ElementOfSeq DEF ItemsOf
<1>2. f \in [1 .. Len(f) -> Units]
    BY <1>1, LenProperties
<1>3. QED
    BY <1>2, LenProperties, IsASeq

\* BackupLoader::run on a file our saver wrote: verify_units, the + 1 of
\* next_round_backup and the comparison with the collection never refuse,
\* so the loader starts the node unless the file has a torn item or the
\* runway's channel is gone.
LEMMA LoaderOutcomeOk ==
    ASSUME RunwayBelowLastRound, LoaderIInv,
           NEW col \in CollectionRounds, NEW ok \in BOOLEAN
    PROVE  LoaderOutcome(file, build, col, ok) \in {"decode", "channel", "start"}
<1>1. CASE Torn \in ItemsOf(file)
    BY <1>1 DEF LoaderOutcome
<1>2. CASE Torn \notin ItemsOf(file)
    <2>1. file \in Seq(Units) /\ DOMAIN file = 1 .. Len(file)
        BY <1>2, WholeFile, LenProperties DEF LoaderIInv, BackupIInv, TypeOK
    <2>2. \A i \in DOMAIN file : ParentsSaved(file[i], file, i - 1)
        BY <2>1, ElementOfSeq DEF LoaderIInv
    <2>3. VerifyUnits(file, build) = "ok"
        BY <2>1, <2>2, VerifyOk
    <2>4. BackupIInv
        BY DEF LoaderIInv
    <2>5. OwnRounds(file) # {} =>
             /\ NewestOwnRound(file) \in 0 .. MaxRound
             /\ \A u \in ItemsOf(file) : u.creator = Self => u.round <= NewestOwnRound(file)
        BY <1>2, <2>4, NewestBounded
    <2>6. ~NextRoundPanics(file, build)
        BY <2>5, ModulusPositive DEF NextRoundPanics, RunwayBelowLastRound
    <2>7. ~(NextRoundBackup(file) < col)
        <3>1. broadcast \subseteq {u \in ItemsOf(file) : u.creator = Self}
            BY <2>4 DEF BackupIInv
        <3>2. \A u \in broadcast : u.round \in 0 .. MaxRound
            BY <2>4 DEF BackupIInv, OwnUnitsSent, TypeOK, Units, Rounds
        <3>3. CASE col = 0
            <4>1. NextRoundBackup(file) \in Nat
                BY <2>5, ModulusPositive DEF NextRoundBackup
            <4>2. QED
                BY <3>3, <4>1
        <3>4. CASE col # 0
            <4>1. PICK u \in broadcast : col = (u.round + 1) % RoundModulus
                BY <3>4 DEF CollectionRounds
            <4>2. col = u.round + 1
                BY <3>2, <4>1, ModulusPositive DEF RunwayBelowLastRound
            <4>3. u.round \in OwnRounds(file)
                BY <3>1, <4>1, OwnRoundsItems
            <4>4. NextRoundBackup(file) = NewestOwnRound(file) + 1
                BY <2>5, <4>3, ModulusPositive DEF NextRoundBackup, RunwayBelowLastRound
            <4>5. QED
                BY <2>5, <3>1, <3>2, <4>2, <4>3, <4>4
        <3>5. QED
            BY <3>3, <3>4
    <2>8. QED
        BY <1>2, <2>3, <2>6, <2>7 DEF LoaderOutcome
<1>3. QED
    BY <1>1, <1>2

-----------------------------------------------------------------------------
(* LoaderIInv is inductive.                                                *)

\* Every whole item of file f has its parents before it.
FileConsistent(f) == \A i \in DOMAIN f : f[i] \in Units => ParentsSaved(f[i], f, i - 1)

\* Every unit queued for the saver has its parents in file f.
QueuedConsistent(q, f) == \A u \in ItemsOf(q) : ParentsSaved(u, f, Len(f))

\* The conjuncts LoaderIInv adds to BackupIInv.
LoaderExtra ==
    /\ RefusedOnlyOnTornBackup
    /\ dag \subseteq ItemsOf(file)
    /\ FileConsistent(file)
    /\ QueuedConsistent(units_to_save, file)

LEMMA LoaderIInvSplit == LoaderIInv <=> BackupIInv /\ LoaderExtra
    BY DEF LoaderIInv, LoaderExtra, FileConsistent, QueuedConsistent

\* A unit the runway builds on the DAG has its parents in the file.
LEMMA DagParents ==
    ASSUME LoaderIInv, NEW r \in Nat, NEW u, u.round = r,
           u.parents \subseteq ParentsIn(dag, r)
    PROVE  ParentsSaved(u, file, Len(file))
<1>1. dag \subseteq Units /\ dag \subseteq ItemsOf(file)
      /\ file \in Seq(Units \cup {Torn})
    BY DEF LoaderIInv, BackupIInv, TypeOK
<1>2. CASE r = 0
    BY <1>2 DEF ParentsIn, ParentsSaved
<1>3. CASE r # 0
    <2>1. ASSUME NEW p \in u.parents
          PROVE  \E j \in 1 .. Len(file) :
                    file[j] \in Units /\ file[j].creator = p /\ file[j].round + 1 = u.round
        <3>1. PICK y \in dag : y.round = r - 1 /\ y.creator = p
            BY <1>3, <2>1 DEF ParentsIn
        <3>2. PICK j \in DOMAIN file : file[j] = y
            BY <1>1, <3>1 DEF ItemsOf
        <3>3. DOMAIN file = 1 .. Len(file) /\ y \in Units
            BY <1>1, <3>1, LenProperties
        <3>4. y.round + 1 = r
            BY <1>3, <3>1
        <3>5. QED
            BY <3>1, <3>2, <3>3, <3>4
    <2>2. QED
        BY <1>3, <2>1 DEF ParentsSaved
<1>4. QED
    BY <1>2, <1>3

\* Appending an item to the file keeps it consistent if the item, when a
\* whole unit, has its parents in the file; and what had its parents in
\* the file still has them.
LEMMA FileAppend ==
    ASSUME NEW f \in Seq(Units \cup {Torn}), NEW x \in Units \cup {Torn},
           FileConsistent(f), x \in Units => ParentsSaved(x, f, Len(f))
    PROVE  /\ FileConsistent(Append(f, x))
           /\ ItemsOf(f) \subseteq ItemsOf(Append(f, x))
           /\ \A v : ParentsSaved(v, f, Len(f)) => ParentsSaved(v, Append(f, x), Len(Append(f, x)))
<1> DEFINE g == Append(f, x)
<1>1. /\ g \in Seq(Units \cup {Torn}) /\ Len(g) = Len(f) + 1 /\ g[Len(f) + 1] = x
      /\ \A j \in 1 .. Len(f) : g[j] = f[j]
      /\ DOMAIN g = 1 .. Len(f) + 1 /\ DOMAIN f = 1 .. Len(f) /\ Len(f) \in Nat
    BY AppendProperties, LenProperties
<1>2. FileConsistent(g)
    <2> SUFFICES ASSUME NEW i \in DOMAIN g, g[i] \in Units
                 PROVE  ParentsSaved(g[i], g, i - 1)
        BY DEF FileConsistent
    <2>1. CASE i \in 1 .. Len(f)
        <3>1. ParentsSaved(f[i], f, i - 1)
            BY <1>1, <2>1 DEF FileConsistent
        <3>2. \A j \in 1 .. i - 1 : g[j] = f[j]
            BY <1>1, <2>1
        <3>3. g[i] = f[i] /\ i - 1 \in Nat
            BY <1>1, <2>1
        <3>4. ParentsSaved(f[i], g, i - 1)
            BY <3>1, <3>2 DEF ParentsSaved
        <3>5. QED
            BY <3>3, <3>4
    <2>2. CASE i = Len(f) + 1
        <3>1. g[i] = x /\ x \in Units /\ i - 1 = Len(f)
            BY <1>1, <2>2
        <3>2. ParentsSaved(x, f, Len(f))
            BY <3>1
        <3>3. ParentsSaved(x, g, Len(f))
            BY <1>1, <3>2 DEF ParentsSaved
        <3>4. QED
            BY <3>1, <3>3
    <2>3. QED
        BY <1>1, <2>1, <2>2
<1>3. ItemsOf(f) \subseteq ItemsOf(g)
    BY ItemsAppend
<1>4. \A v : ParentsSaved(v, f, Len(f)) => ParentsSaved(v, g, Len(g))
    <2> SUFFICES ASSUME NEW v, ParentsSaved(v, f, Len(f)) PROVE ParentsSaved(v, g, Len(g))
        OBVIOUS
    <2>1. Len(f) <= Len(g) /\ Len(g) \in Nat
        BY <1>1
    <2>2. QED
        BY <1>1, <2>1, ParentsSavedGrow
<1>5. QED
    BY <1>2, <1>3, <1>4

\* A step that leaves the file, the DAG, the saver's input, the node and
\* its refusal alone keeps LoaderExtra.
LEMMA ExtraQuiet ==
    ASSUME LoaderIInv, UNCHANGED <<file, dag, units_to_save, node, refusal>>
    PROVE  LoaderExtra'
    BY LoaderIInvSplit DEF LoaderExtra, RefusedOnlyOnTornBackup, FileConsistent,
       QueuedConsistent

\* The runway hands the saver a unit built on its DAG (CreateUnit and
\* ReceivePeerUnit): the unit has its parents in the file.
LEMMA ExtraSend ==
    ASSUME LoaderIInv, NEW u \in Units, ParentsSaved(u, file, Len(file)),
           SendToSaver(u), UNCHANGED <<file, dag, node, refusal>>
    PROVE  LoaderExtra'
<1>1. units_to_save \in Seq(Units)
    BY DEF LoaderIInv, BackupIInv, TypeOK
<1>2. ItemsOf(units_to_save') \subseteq ItemsOf(units_to_save) \cup {u}
    <2>1. CASE saver_running
        BY <1>1, <2>1, ItemsAppend DEF SendToSaver
    <2>2. CASE ~saver_running
        BY <2>2 DEF SendToSaver
    <2>3. QED
        BY <2>1, <2>2
<1>3. QED
    BY <1>2, LoaderIInvSplit DEF LoaderExtra, RefusedOnlyOnTornBackup,
       QueuedConsistent

LEMMA ExtraCreate ==
    ASSUME LoaderIInv, CreateUnit
    PROVE  LoaderExtra'
<1> DEFINE r == next_round
           u == Unit(r, Self, ParentsIn(dag, r), Session, incarnation)
<1>1. r \in 0 .. MaxRound /\ dag \subseteq Units /\ incarnation \in 0 .. MaxCrashes
    BY DEF CreateUnit, LoaderIInv, BackupIInv, TypeOK
<1>2. u \in Units
    BY <1>1, CreatedUnitType
<1>3. ParentsSaved(u, file, Len(file))
    BY <1>1, DagParents DEF Unit
<1>4. QED
    BY <1>2, <1>3, ExtraSend DEF CreateUnit

LEMMA ExtraPeer ==
    ASSUME LoaderIInv, NEW c \in Nodes \ {Self}, NEW r \in 0 .. MaxRound,
           ReceivePeerUnit(c, r)
    PROVE  LoaderExtra'
<1> DEFINE u == PeerUnit(c, r)
<1>1. u \in Units
    BY PeerUnitType
<1>2. u.round = r /\ u.parents \subseteq ParentsIn(dag, r)
    BY DEF ReceivePeerUnit, PeerUnit, Unit
<1>3. ParentsSaved(u, file, Len(file))
    BY <1>2, DagParents
<1>4. QED
    BY <1>1, <1>3, ExtraSend DEF ReceivePeerUnit

\* The runway adds an echoed unit to its DAG: the saver wrote it.
LEMMA ExtraSaved ==
    ASSUME LoaderIInv, HandleSaved
    PROVE  LoaderExtra'
<1>1. responses \in Seq(Units) /\ responses # << >>
      /\ ItemsOf(responses) \subseteq ItemsOf(file)
    BY DEF HandleSaved, LoaderIInv, BackupIInv, TypeOK
<1>2. Head(responses) \in ItemsOf(file)
    BY <1>1, ItemsTail
<1>3. QED
    BY <1>2, LoaderIInvSplit DEF HandleSaved, LoaderExtra, RefusedOnlyOnTornBackup,
       FileConsistent, QueuedConsistent

\* save_item writes the head of the saver's input after everything it
\* builds on; the rest of the input still has its parents in the file.
LEMMA ExtraSave ==
    ASSUME LoaderIInv, SaveUnit
    PROVE  LoaderExtra'
<1> DEFINE h == Head(units_to_save)
<1>1. units_to_save \in Seq(Units) /\ units_to_save # << >>
      /\ file \in Seq(Units \cup {Torn})
    BY DEF SaveUnit, LoaderIInv, BackupIInv, TypeOK
<1>2. h \in ItemsOf(units_to_save) /\ ItemsOf(Tail(units_to_save)) \subseteq ItemsOf(units_to_save)
      /\ h \in Units
    BY <1>1, ItemsTail, HeadTailProperties
<1>3. ParentsSaved(h, file, Len(file)) /\ FileConsistent(file)
      /\ QueuedConsistent(units_to_save, file)
    <2>1. FileConsistent(file) /\ QueuedConsistent(units_to_save, file)
        BY LoaderIInvSplit DEF LoaderExtra
    <2>2. QED
        BY <1>2, <2>1 DEF QueuedConsistent
<1>4. /\ FileConsistent(Append(file, h))
      /\ ItemsOf(file) \subseteq ItemsOf(Append(file, h))
      /\ \A v : ParentsSaved(v, file, Len(file))
                  => ParentsSaved(v, Append(file, h), Len(Append(file, h)))
    BY <1>1, <1>2, <1>3, FileAppend
<1>5. QueuedConsistent(Tail(units_to_save), Append(file, h))
    BY <1>2, <1>3, <1>4 DEF QueuedConsistent
<1>6. QED
    BY <1>4, <1>5, LoaderIInvSplit
    DEF SaveUnit, LoaderExtra, RefusedOnlyOnTornBackup

\* save_item fails having written nothing, a torn item or the whole item;
\* the saver drops its input.
LEMMA ExtraSaveFails ==
    ASSUME LoaderIInv, SaveUnitFails
    PROVE  LoaderExtra'
<1> DEFINE h == Head(units_to_save)
<1>1. units_to_save \in Seq(Units) /\ units_to_save # << >>
      /\ file \in Seq(Units \cup {Torn})
    BY DEF SaveUnitFails, LoaderIInv, BackupIInv, TypeOK
<1>2. h \in ItemsOf(units_to_save) /\ h \in Units
    BY <1>1, ItemsTail, HeadTailProperties
<1>3. ParentsSaved(h, file, Len(file)) /\ FileConsistent(file)
      /\ dag \subseteq ItemsOf(file)
    BY <1>2, LoaderIInvSplit DEF LoaderExtra, QueuedConsistent
<1>4. QueuedConsistent(units_to_save', file')
    BY ItemsEmpty DEF SaveUnitFails, QueuedConsistent
<1>5. FileConsistent(file') /\ ItemsOf(file) \subseteq ItemsOf(file')
    <2>1. PICK w \in {<< >>, << Torn >>, << h >>} : file' = file \o w
        BY DEF SaveUnitFails
    <2>2. CASE w = << >>
        BY <1>1, <1>3, <2>1, <2>2, ConcatEmptySeq
    <2>3. CASE w = << Torn >>
        <3>1. file' = Append(file, Torn)
            BY <1>1, <2>1, <2>3, AppendIsConcat
        <3>2. QED
            BY <1>1, <1>3, <3>1, FileAppend
    <2>4. CASE w = << h >>
        <3>1. file' = Append(file, h)
            BY <1>1, <1>2, <2>1, <2>4, AppendIsConcat
        <3>2. QED
            BY <1>1, <1>2, <1>3, <3>1, FileAppend
    <2>5. QED
        BY <2>1, <2>2, <2>3, <2>4
<1>6. QED
    BY <1>3, <1>4, <1>5, LoaderIInvSplit
    DEF SaveUnitFails, LoaderExtra, RefusedOnlyOnTornBackup

\* A crash empties the DAG and the channels and leaves the file.
LEMMA ExtraCrash ==
    ASSUME LoaderIInv, Crash
    PROVE  LoaderExtra'
    BY ItemsEmpty, LoaderIInvSplit
    DEF Crash, LoaderExtra, RefusedOnlyOnTornBackup, FileConsistent, QueuedConsistent

\* The loader answers: it starts the node with the file as its DAG, or
\* refuses, and then only for a torn item or a dropped channel.
LEMMA ExtraRestart ==
    ASSUME RunwayBelowLastRound, LoaderIInv, Restart
    PROVE  LoaderExtra'
<1>1. PICK col \in CollectionRounds, ok \in BOOLEAN :
         LET o == LoaderOutcome(file, build, col, ok)
         IN  IF o = "start"
             THEN /\ node' = "running"
                  /\ dag' = ItemsOf(file)
                  /\ next_round' = StartingRound(NextRoundBackup(file), col)
                  /\ UNCHANGED refusal
             ELSE Refuse(o)
    BY DEF Restart
<1> DEFINE o == LoaderOutcome(file, build, col, ok)
<1>2. o \in {"decode", "channel", "start"}
    BY LoaderOutcomeOk
<1>3. UNCHANGED <<file, units_to_save>>
    BY DEF Restart
<1>4. FileConsistent(file) /\ QueuedConsistent(units_to_save, file)
      /\ dag \subseteq ItemsOf(file)
    BY LoaderIInvSplit DEF LoaderExtra
<1>5. CASE o = "start"
    BY <1>1, <1>3, <1>4, <1>5
    DEF LoaderExtra, RefusedOnlyOnTornBackup, FileConsistent, QueuedConsistent
<1>6. CASE o # "start"
    <2>1. node' = "refused" /\ refusal' = o /\ dag' = dag
        BY <1>1, <1>6 DEF Refuse
    <2>2. QED
        BY <1>2, <1>3, <1>4, <1>6, <2>1
        DEF LoaderExtra, RefusedOnlyOnTornBackup, FileConsistent, QueuedConsistent
<1>7. QED
    BY <1>5, <1>6

-----------------------------------------------------------------------------
(* The theorem.                                                            *)

\* Every step of the runway, the saver, a crash and a restart preserves
\* LoaderIInv.
LEMMA LoaderIInvStep ==
    ASSUME RunwayBelowLastRound
    PROVE  LoaderIInv /\ [Next]_vars => LoaderIInv'
<1> SUFFICES ASSUME LoaderIInv, [Next]_vars PROVE LoaderIInv'
    OBVIOUS
<1>1. BackupIInv'
    BY BackupIInvStep DEF LoaderIInv
<1>2. LoaderExtra'
    <2>1. CASE CreateUnit
        BY <2>1, ExtraCreate
    <2>2. CASE \E c \in Nodes \ {Self}, r \in 0 .. MaxRound : ReceivePeerUnit(c, r)
        BY <2>2, ExtraPeer
    <2>3. CASE HandleSaved
        BY <2>3, ExtraSaved
    <2>4. CASE SaveUnit
        BY <2>4, ExtraSave
    <2>5. CASE SaveUnitFails
        BY <2>5, ExtraSaveFails
    <2>6. CASE Crash
        BY <2>6, ExtraCrash
    <2>7. CASE Restart
        BY <2>7, ExtraRestart
    <2>8. CASE UNCHANGED vars
        BY <2>8, ExtraQuiet DEF vars
    <2>9. QED
        BY <2>1, <2>2, <2>3, <2>4, <2>5, <2>6, <2>7, <2>8 DEF Next
<1>3. QED
    BY <1>1, <1>2 DEF LoaderIInv, LoaderExtra, FileConsistent, QueuedConsistent

LEMMA LoaderIInvInit == Init => LoaderIInv
<1> SUFFICES ASSUME Init PROVE LoaderIInv
    OBVIOUS
<1>1. BackupIInv
    BY BackupIInvInit
<1>2. ItemsOf(file) = {} /\ ItemsOf(units_to_save) = {} /\ DOMAIN file = {}
    BY ItemsEmpty DEF Init
<1>3. LoaderExtra
    BY <1>2 DEF Init, LoaderExtra, RefusedOnlyOnTornBackup, FileConsistent,
       QueuedConsistent
<1>4. QED
    BY <1>1, <1>3, LoaderIInvSplit

\* If the runway stops below the last round of Round, then in every
\* reachable state every whole unit of the file has its parents before it,
\* every unit queued for the saver has its parents in the file, and the
\* DAG holds only units of the file: LoaderIInv holds for every committee,
\* width and crash count.
THEOREM LoaderIInvHolds ==
    ASSUME RunwayBelowLastRound
    PROVE  Spec => []LoaderIInv
BY LoaderIInvInit, LoaderIInvStep, PTL DEF Spec

\* The loader refuses to start the node (BackupLoader::run, on_shutdown)
\* only on a torn item or a dropped channel: if the runway stops below the
\* last round of Round, then for every committee, width of Round and number
\* of crashes, verify_units, next_round_backup and the comparison with the
\* collection never reject a backup our saver wrote.
THEOREM RefusedOnlyOnTornBackupHolds ==
    ASSUME RunwayBelowLastRound
    PROVE  Spec => []RefusedOnlyOnTornBackup
<1>1. Spec => []LoaderIInv
    BY LoaderIInvHolds
<1>2. LoaderIInv => RefusedOnlyOnTornBackup
    BY DEF LoaderIInv
<1>3. QED
    BY <1>1, <1>2, PTL

=============================================================================
