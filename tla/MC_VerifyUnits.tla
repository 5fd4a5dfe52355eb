-------------------------- MODULE MC_VerifyUnits --------------------------
(***************************************************************************)
(* verify_units against the load contract of the spec (4.3, step 3), on   *)
(* every backup of at most two units over two creators, rounds 0 .. 3 and *)
(* two sessions, in both builds.                                          *)
(***************************************************************************)
EXTENDS MC_UnitBackup

CONSTANTS s1

VARIABLE log

AnyUnits == [round : Rounds, creator : MCNodes, parents : SUBSET MCNodes,
             session : {Session, s1}, inc : {0}]

Logs == {<<>>} \cup {<<u>> : u \in AnyUnits} \cup {<<u, v>> : u, v \in AnyUnits}

\* Spec 4.3, step 3: every unit is of the current session, and for every
\* parent in its mask a unit of that creator one round lower appears
\* earlier in the log; a unit of round 0 has no lower round.
SpecConsistent(units) ==
    \A i \in DOMAIN units :
       /\ units[i].session = Session
       /\ \A p \in units[i].parents :
             \E j \in 1 .. i - 1 : /\ units[i].round > 0
                                   /\ units[j].round = units[i].round - 1
                                   /\ units[j].creator = p

RefSpec == Init /\ log \in Logs /\ [][FALSE]_<<vars, log>>

\* verify_units accepts exactly the backups the spec calls consistent, and
\* rejects the others with an error rather than a panic, whichever the
\* build.
VerifyUnitsAsSpecified ==
    /\ VerifyUnits(log, build) # "panic"
    /\ (VerifyUnits(log, build) = "ok") <=> SpecConsistent(log)
=============================================================================
