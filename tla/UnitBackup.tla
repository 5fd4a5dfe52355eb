----------------------------- MODULE UnitBackup -----------------------------
(***************************************************************************)
(* The unit half of the backup (consensus/src/runway/backup.rs) across     *)
(* process crashes: the BackupSaver's units_from_runway branch writes each *)
(* unit the runway hands it and echoes it back; after a crash the          *)
(* BackupLoader reads the file, verifies it, computes the round to resume  *)
(* from and compares it with the round the unit collection learnt from     *)
(* peers.                                                                  *)
(*                                                                         *)
(* The runway (unit creation and the DAG) is not in this repository; it   *)
(* is modelled from the spec (4.3 and 5): a unit enters the DAG, and our   *)
(* own unit goes to the network, only after the saver echoed it.          *)
(*                                                                         *)
(* Rounds are Round = u16 (types/src/lib.rs); the model keeps the width as *)
(* the constant W.  The loader's arithmetic panics on overflow in a debug  *)
(* build and wraps in a release build; the build is chosen at Init.        *)
(***************************************************************************)
EXTENDS Naturals, Sequences, FiniteSets

CONSTANTS
    Nodes,        \* the committee
    Self,         \* this node's index
    Session,      \* the current session id
    W,            \* bits of Round
    MaxRound,     \* the last round the runway creates a unit in
    MaxCrashes,   \* how many process crashes a behaviour may contain
    Torn,         \* the bytes of an item whose write_all failed half way
    NoRound       \* starting_round = None

ASSUME UnitBackupAssumption ==
    /\ Self \in Nodes
    /\ W \in Nat \ {0}
    /\ MaxRound \in 0 .. 2^W - 1
    /\ MaxCrashes \in Nat
    /\ NoRound \notin Nat

\* Round = u16, of width W.
RoundModulus == 2^W
Rounds == 0 .. RoundModulus - 1

\* BackupItem::Unit(unit): the coordinates and the parents mask of a unit,
\* its session, and the incarnation of the node that created it, which
\* stands for the data and signature that tell two units of one round apart.
Unit(r, c, p, s, i) ==
    [round |-> r, creator |-> c, parents |-> p, session |-> s, inc |-> i]
Units == [round : Rounds, creator : Nodes, parents : SUBSET Nodes,
          session : {Session}, inc : 0 .. MaxCrashes]

\* The bytes a failed write_all leaves decode to no unit.
ASSUME TornAssumption == Torn \notin Units

VARIABLES
    file,             \* the backup file: the items written, in order
    units_to_save,    \* channel runway -> saver (units_from_runway)
    responses,        \* channel saver -> runway (responses_for_runway)
    saver_running,    \* the saver's loop has not broken
    dag,              \* units the runway holds: echoed or loaded
    next_round,       \* the round of our next unit, NoRound when down
    node,             \* "running", "down" (crashed) or "refused"
    refusal,          \* why the loader refused to start, or "none"
    incarnation,      \* crashes so far
    build,            \* "debug" or "release"
    created,          \* every unit of ours the runway ever created
    broadcast         \* our units handed to the network

vars == <<file, units_to_save, responses, saver_running, dag, next_round,
          node, refusal, incarnation, build, created, broadcast>>

Refusals == {"none", "decode", "verify", "panic", "behind", "channel"}

TypeOK ==
    /\ file \in Seq(Units \cup {Torn})
    /\ units_to_save \in Seq(Units)
    /\ responses \in Seq(Units)
    /\ saver_running \in BOOLEAN
    /\ dag \subseteq Units
    /\ next_round \in (0 .. MaxRound + 1) \cup {NoRound}
    /\ node \in {"running", "down", "refused"}
    /\ refusal \in Refusals
    /\ incarnation \in 0 .. MaxCrashes
    /\ build \in {"debug", "release"}
    /\ created \subseteq Units
    /\ broadcast \subseteq created

Init ==
    /\ file = <<>>
    /\ units_to_save = <<>>
    /\ responses = <<>>
    /\ saver_running = TRUE
    /\ dag = {}
    /\ next_round = 0
    /\ node = "running"
    /\ refusal = "none"
    /\ incarnation = 0
    /\ build \in {"debug", "release"}
    /\ created = {}
    /\ broadcast = {}

ItemsOf(s) == {s[i] : i \in DOMAIN s}

-----------------------------------------------------------------------------
(* The loader's pure steps.                                                *)

\* verify_units: every unit of the current session, and every parent in
\* its mask loaded before it at round coord.round() - 1.  The subtraction
\* is u16: at round 0 it panics (debug) or wraps to the last round
\* (release).  The result: "ok", "inconsistent", "wrong_session", "panic".
\* Mutant: the parent looked up in the unit's own round.
ParentRoundSame(r) == r

ParentRound(r) == (r - 1 + RoundModulus) % RoundModulus

VerifyUnits(units, b) ==
    LET Bad(i) ==
          \/ units[i].session # Session
          \/ \E p \in units[i].parents :
                ~\E j \in 1 .. i - 1 : /\ units[j].round = ParentRound(units[i].round)
                                       /\ units[j].creator = p
        Panics(i) == units[i].round = 0 /\ units[i].parents # {} /\ b = "debug"
        first == {i \in DOMAIN units : Bad(i) \/ Panics(i)}
    IN  IF first = {} THEN "ok"
        ELSE LET i == CHOOSE k \in first : \A m \in first : k <= m
             IN  IF units[i].session # Session THEN "wrong_session"
                 ELSE IF Panics(i) THEN "panic" ELSE "inconsistent"

\* next_round_backup: one past our newest unit, 0 if none.  The + 1 is
\* u16: at the last round it wraps to 0 in a release build ...
OwnRounds(units) ==
    {units[i].round : i \in {k \in DOMAIN units : units[k].creator = Self}}

NewestOwnRound(units) ==
    CHOOSE m \in OwnRounds(units) : \A x \in OwnRounds(units) : x <= m

NextRoundBackup(units) ==
    IF OwnRounds(units) = {} THEN 0
    ELSE (NewestOwnRound(units) + 1) % RoundModulus

\* ... and panics in a debug build.
NextRoundPanics(units, b) ==
    /\ b = "debug"
    /\ OwnRounds(units) # {}
    /\ NewestOwnRound(units) = RoundModulus - 1

\* The values next_round_collection may take: derived from peers, it is
\* one past the newest of our units some quorum had seen (u16 as well),
\* so it may miss units that reached only some peers.
CollectionRounds ==
    {0} \cup {(u.round + 1) % RoundModulus : u \in broadcast}

\* Mutant: the loader answers with the collection's round instead.
StartingRoundCollection(nrb, col) == col

\* starting_round.send(Some(next_round_backup)): the round we resume from.
StartingRound(nrb, col) == nrb

\* on_shutdown: starting_round receives None and the node does not start.
Refuse(why) ==
    /\ node' = "refused"
    /\ refusal' = why
    /\ UNCHANGED <<dag, next_round>>

-----------------------------------------------------------------------------
(* The runway, from the spec.                                              *)

\* units_from_runway.unbounded_send(unit): lost once the saver has broken
\* and dropped its receiver.
SendToSaver(u) ==
    units_to_save' = IF saver_running THEN Append(units_to_save, u)
                                      ELSE units_to_save

\* The parents of a unit of round r: every creator of a round r - 1 unit
\* in the DAG.
ParentsIn(d, r) == IF r = 0 THEN {} ELSE {x.creator : x \in {y \in d : y.round = r - 1}}

\* Create our unit of round next_round on top of our previous one, and
\* hand it to the saver.
CreateUnit ==
    LET r == next_round
        u == Unit(r, Self, ParentsIn(dag, r), Session, incarnation)
    IN  /\ node = "running"
        /\ r <= MaxRound
        /\ r = 0 \/ Self \in ParentsIn(dag, r)
        /\ created' = created \cup {u}
        /\ next_round' = r + 1
        /\ SendToSaver(u)
        /\ UNCHANGED <<file, responses, saver_running, dag, node, refusal,
                       incarnation, build, broadcast>>

\* A peer c's unit of round r arrives with all its parents in our DAG; the
\* runway hands it to the saver.  Peers are honest: one unit per round.
PeerUnit(c, r) == Unit(r, c, IF r = 0 THEN {} ELSE Nodes, Session, 0)

ReceivePeerUnit(c, r) ==
    LET u == PeerUnit(c, r)
    IN  /\ node = "running"
        /\ u.parents \subseteq ParentsIn(dag, r)
        /\ u \notin dag \cup ItemsOf(units_to_save) \cup ItemsOf(responses)
        /\ SendToSaver(u)
        /\ UNCHANGED <<file, responses, saver_running, dag, next_round, node,
                       refusal, incarnation, build, created, broadcast>>

\* responses_for_runway: the saved unit enters the DAG; ours goes out.
HandleSaved ==
    /\ node = "running"
    /\ responses # <<>>
    /\ dag' = dag \cup {Head(responses)}
    /\ broadcast' = IF Head(responses).creator = Self
                     THEN broadcast \cup {Head(responses)} ELSE broadcast
    /\ responses' = Tail(responses)
    /\ UNCHANGED <<file, units_to_save, saver_running, next_round, node,
                   refusal, incarnation, build, created>>

-----------------------------------------------------------------------------
(* The saver's units_from_runway branch (BackupSaver::run, save_item).     *)

\* save_item succeeds: write_all and flush, then echo.
SaveUnit ==
    /\ node = "running"
    /\ saver_running
    /\ units_to_save # <<>>
    /\ file' = Append(file, Head(units_to_save))
    /\ responses' = Append(responses, Head(units_to_save))
    /\ units_to_save' = Tail(units_to_save)
    /\ UNCHANGED <<saver_running, dag, next_round, node, refusal,
                   incarnation, build, created, broadcast>>

\* Mutant: the saver echoes the unit before save_item, so that a failed
\* write still reaches the runway.
SaveUnitFailsEchoes ==
    /\ node = "running"
    /\ saver_running
    /\ units_to_save # <<>>
    /\ \E written \in {<<>>, <<Torn>>, <<Head(units_to_save)>>} :
          file' = file \o written
    /\ saver_running' = FALSE
    /\ units_to_save' = <<>>
    /\ responses' = Append(responses, Head(units_to_save))
    /\ UNCHANGED <<dag, next_round, node, refusal, incarnation,
                   build, created, broadcast>>

\* save_item fails: write_all wrote nothing or a prefix of the item, or
\* flush failed after the whole item; the saver breaks and drops its
\* receiver with whatever it buffered.
SaveUnitFails ==
    /\ node = "running"
    /\ saver_running
    /\ units_to_save # <<>>
    /\ \E written \in {<<>>, <<Torn>>, <<Head(units_to_save)>>} :
          file' = file \o written
    /\ saver_running' = FALSE
    /\ units_to_save' = <<>>
    /\ UNCHANGED <<responses, dag, next_round, node, refusal, incarnation,
                   build, created, broadcast>>

-----------------------------------------------------------------------------
(* Crash and restart.                                                      *)

\* The process dies: every task and channel is gone, the file stays.
Crash ==
    /\ node = "running"
    /\ incarnation < MaxCrashes
    /\ node' = "down"
    /\ incarnation' = incarnation + 1
    /\ units_to_save' = <<>>
    /\ responses' = <<>>
    /\ saver_running' = TRUE
    /\ dag' = {}
    /\ next_round' = NoRound
    /\ UNCHANGED <<file, refusal, build, created, broadcast>>

\* BackupLoader::run as the outcome of its early returns, in code order:
\* load (a torn item does not decode), verify_units, next_round_backup,
\* handing the units to the runway and awaiting next_round_collection
\* (these fail only if the runway dropped its end: channelOk), and the
\* comparison.  "start" is the only outcome that is not on_shutdown.
LoaderOutcome(f, b, col, channelOk) ==
    LET v == VerifyUnits(f, b)
    IN  IF Torn \in ItemsOf(f) THEN "decode"
        ELSE IF v \in {"inconsistent", "wrong_session"} THEN "verify"
        ELSE IF v = "panic" \/ NextRoundPanics(f, b) THEN "panic"
        ELSE IF ~channelOk THEN "channel"
        ELSE IF NextRoundBackup(f) < col THEN "behind"
        ELSE "start"

\* The restarted node runs the loader on its file; the runway resumes at
\* the starting round with every loaded unit in its DAG.
Restart ==
    /\ node = "down"
    /\ \E col \in CollectionRounds, channelOk \in BOOLEAN :
          LET o == LoaderOutcome(file, build, col, channelOk)
          IN  IF o = "start"
              THEN /\ node' = "running"
                   /\ dag' = ItemsOf(file)
                   /\ next_round' = StartingRound(NextRoundBackup(file), col)
                   /\ UNCHANGED refusal
              ELSE Refuse(o)
    /\ UNCHANGED <<file, units_to_save, responses, saver_running,
                   incarnation, build, created, broadcast>>

Next ==
    \/ CreateUnit
    \/ \E c \in Nodes \ {Self}, r \in 0 .. MaxRound : ReceivePeerUnit(c, r)
    \/ HandleSaved
    \/ SaveUnit
    \/ SaveUnitFails
    \/ Crash
    \/ Restart

Spec == Init /\ [][Next]_vars

-----------------------------------------------------------------------------
(* Properties.                                                             *)

\* Our units that a peer may hold or a restart will load: the broadcast
\* ones and the ones in the file.
ObservableOwn ==
    broadcast \cup {u \in ItemsOf(file) \ {Torn} : u.creator = Self}

\* No self-fork across restarts (spec 4.3: resume consistent with what any
\* peer may have observed): two different units of ours of one round are
\* never both broadcast or persisted.  It rests on the runway broadcasting
\* only saved units, on next_round_backup being one past the newest
\* persisted unit, and on the loader resuming from it.
NoEquivocation ==
    \A u, v \in ObservableOwn : u.round = v.round => u = v

\* A backup this saver wrote after a process crash is never rejected by
\* verify_units, never behind the unit collection and never overflows
\* next_round_backup: the loader refuses only on a torn item (decode) or
\* when the runway's end of its channels is gone.
RefusedOnlyOnTornBackup ==
    node = "refused" => refusal \in {"decode", "channel"}

\* Our units the saver holds, has echoed, or has written whole.
OwnUnitsSent ==
    {u \in (ItemsOf(file) \ {Torn}) \cup ItemsOf(units_to_save)
             \cup ItemsOf(responses) : u.creator = Self}

\* The inductive strengthening of NoEquivocation.  The runway broadcasts
\* only units the saver has echoed, and the saver echoes only what it has
\* written, so the broadcast units are persisted.  Our units on their way
\* to the file have distinct rounds, all below the round a running runway
\* creates next, and within the runway's bound; they are units the runway
\* created.  A node that is not running has no channels.  A file without a
\* torn item has a newest own round, which next_round_backup reads.
BackupIInv ==
    /\ TypeOK
    /\ ItemsOf(responses) \subseteq ItemsOf(file)
    /\ broadcast \subseteq {u \in ItemsOf(file) \ {Torn} : u.creator = Self}
    /\ node # "running" => units_to_save = <<>> /\ responses = <<>>
    /\ node = "running" => next_round \in Nat
    /\ \A u, v \in OwnUnitsSent : u.round = v.round => u = v
    /\ OwnUnitsSent \subseteq created
    /\ \A u \in OwnUnitsSent : u.round <= MaxRound
    /\ node = "running" => \A u \in OwnUnitsSent : u.round < next_round
    /\ Torn \notin ItemsOf(file) /\ OwnRounds(file) # {} =>
          \E m \in OwnRounds(file) : \A x \in OwnRounds(file) : x <= m

\* Unit u has each of its parents among the first n items of file f: a
\* unit of the round below by that creator.  A unit of round 0 has none.
ParentsSaved(u, f, n) ==
    /\ u.round = 0 => u.parents = {}
    /\ \A p \in u.parents :
          \E j \in 1 .. n : f[j] \in Units /\ f[j].creator = p /\ f[j].round + 1 = u.round

\* The inductive strengthening of RefusedOnlyOnTornBackup.  The runway's
\* DAG holds only units of the file, so a unit the runway builds or
\* accepts on top of it has its parents in the file already, and the saver
\* appends it after them: every whole item of the file has its parents
\* before it, which is what verify_units asks.
LoaderIInv ==
    /\ BackupIInv
    /\ RefusedOnlyOnTornBackup
    /\ dag \subseteq ItemsOf(file)
    /\ \A i \in DOMAIN file : file[i] \in Units => ParentsSaved(file[i], file, i - 1)
    /\ \A u \in ItemsOf(units_to_save) : ParentsSaved(u, file, Len(file))

\* The backup as spec 4.3 describes it: the whole units of the file are
\* the persisted set, and the network sees the units HandleSaved broadcast.
Abstract == INSTANCE UnitBackupAbstract
               WITH backup <- ItemsOf(file) \ {Torn}, sent <- broadcast

\* The saver, the runway and the loader together implement the backup's
\* promise: no step, crash or restart included, loses a persisted unit;
\* HandleSaved broadcasts only units save_item wrote; and SaveUnit never
\* persists a unit of ours in a round another persisted unit of ours holds.
BackupRefinement == Abstract!AbsSpec

\* Spec 4.3 and 7: a backup write never leaves a partial record and the
\* backup exists so that the node never refuses to progress: after a
\* crash, the node's own backup never stops it from starting.
RestartsAfterCrash ==
    node = "refused" => refusal = "channel"
=============================================================================
