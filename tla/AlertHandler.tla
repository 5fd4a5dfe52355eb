---------------------------- MODULE AlertHandler ----------------------------
(***************************************************************************)
(* The alert handler of one node (struct Alerter, consensus/src/alerts/   *)
(* mod.rs): the pure decision logic of fork alerts.  It keeps three maps   *)
(* and offers one operator per method; the alert service (AlertService)   *)
(* calls them inside its own steps, exactly as service.rs calls the        *)
(* handler.                                                                *)
(*                                                                         *)
(* Data abstraction.  An alert is a record of the facts the handler tells  *)
(* apart: its sender, the forker named by its proof, whether the proof     *)
(* and signature check (who_is_forking), whether its legit units form a    *)
(* correct commitment, and an id that separates two alerts of the same     *)
(* (sender, forker) pair (a double committer).  Alert hashes are           *)
(* collision free, so an alert stands for its own hash in every map keyed  *)
(* by hash.                                                                *)
(***************************************************************************)
EXTENDS Naturals, FiniteSets

CONSTANTS
    Nodes,      \* node indices of the committee
    Self,       \* the index of this node (keychain.index())
    Alerts,     \* the alerts that can exist in a run
    NoAlert     \* "no entry" in known_rmcs

ASSUME HandlerAssumption ==
    /\ Self \in Nodes
    /\ \A a \in Alerts :
          /\ a.sender \in Nodes
          /\ a.forker \in Nodes
          /\ a.proofOk \in BOOLEAN
          /\ a.legitOk \in BOOLEAN
    /\ NoAlert \notin Alerts

VARIABLES
    known_forkers,  \* keys of known_forkers: creators proven to fork
    known_alerts,   \* known_alerts: the alerts cached by hash
    known_rmcs      \* known_rmcs: (sender, forker) -> hash we drive RMC on

handler_vars == <<known_forkers, known_alerts, known_rmcs>>

Pairs == Nodes \X Nodes

\* Alert::forker(): the creator of the first unit of the proof.
Forker(a) == a.forker

\* The (sender, forker) key of an alert in known_rmcs.
Pair(a) == <<a.sender, Forker(a)>>

\* alert.check() and who_is_forking(proof) both succeed: signed by the
\* sender, two distinct units of one creator, one round, this session.
WhoIsForking(a) == a.proofOk

\* correct_commitment(forker, legit_units): units signed, by the forker,
\* with pairwise distinct rounds.
CorrectCommitment(a) == a.legitOk

HandlerTypeOK ==
    /\ known_forkers \subseteq Nodes
    /\ known_alerts \subseteq Alerts
    /\ known_rmcs \in [Pairs -> Alerts \cup {NoAlert}]

HandlerInit ==
    /\ known_forkers = {}
    /\ known_alerts = {}
    /\ known_rmcs = [p \in Pairs |-> NoAlert]

\* rmc_alert(forker, alert): register the alert as the one we drive RMC on
\* for its pair, and cache it under its hash.
RmcAlert(a) ==
    /\ known_rmcs' = [known_rmcs EXCEPT ![Pair(a)] = a]
    /\ known_alerts' = known_alerts \cup {a}

\* on_own_alert(alert): record the forker, sign, register for RMC.
OnOwnAlert(a) ==
    /\ known_forkers' = known_forkers \cup {Forker(a)}
    /\ RmcAlert(a)

(***************************************************************************)
(* on_network_alert(alert) has three outcomes, one operator each.          *)
(***************************************************************************)
\* The signature or the fork proof does not check: dropped with a warning.
AlertRejected(a) == ~WhoIsForking(a)

\* We already drive RMC on some alert of this pair: cache this one, answer
\* None.
AlertOfDrivenPair(a) ==
    /\ WhoIsForking(a)
    /\ known_rmcs[Pair(a)] # NoAlert
    /\ known_alerts' = known_alerts \cup {a}
    /\ UNCHANGED <<known_forkers, known_rmcs>>

\* Mutant: the known_rmcs check of on_network_alert dropped.
AcceptNetworkAlertUnchecked(a) ==
    /\ WhoIsForking(a)
    /\ known_forkers' = known_forkers \cup {Forker(a)}
    /\ RmcAlert(a)

\* A new pair: learn the forker (if new) and register the alert for RMC.
\* The caller reads NewForker(a) in the same step to decide whether a
\* ForkingNotification::Forker is propagated.
AcceptNetworkAlert(a) ==
    /\ WhoIsForking(a)
    /\ known_rmcs[Pair(a)] = NoAlert
    /\ known_forkers' = known_forkers \cup {Forker(a)}
    /\ RmcAlert(a)

\* Mutant: is_forker asked after on_new_forker_detected has inserted it.
NewForkerAfterInsert(a) == Forker(a) \notin known_forkers'

NewForker(a) == Forker(a) \notin known_forkers

(***************************************************************************)
(* on_message(RmcMessage(sender, message)): the three outcomes as state    *)
(* predicates of the hash h the message concerns.                          *)
(***************************************************************************)
\* Unknown hash: answer AlertRequest(hash, Node(sender)).
RmcForUnknownAlert(h) == h \notin known_alerts

\* Known and canonical for its pair, or a complete multisignature: pass on.
RmcPassedOn(h, complete) ==
    /\ h \in known_alerts
    /\ known_rmcs[Pair(h)] = h \/ complete

\* Known, superseded, and not complete: dropped silently.
RmcStale(h, complete) ==
    /\ h \in known_alerts
    /\ known_rmcs[Pair(h)] # h
    /\ ~complete

\* on_message(AlertRequest(node, hash)): answered iff the alert is cached.
AlertRequestAnswered(h) == h \in known_alerts

(***************************************************************************)
(* alert_confirmed(multisigned): the completed hash becomes the canonical  *)
(* one of its pair; the caller then reads CorrectCommitment(h) to decide   *)
(* whether Units(legit_units) is returned.  The unknown-hash error branch  *)
(* is unreachable from the service: RMC completes only hashes it started  *)
(* or was passed, and both are known alerts.                               *)
(***************************************************************************)
AlertConfirmed(h) ==
    /\ h \in known_alerts
    /\ known_rmcs' = [known_rmcs EXCEPT ![Pair(h)] = h]
    /\ UNCHANGED <<known_forkers, known_alerts>>
=============================================================================
