------------------------- MODULE UnitBackupAbstract -------------------------
(***************************************************************************)
(* What the unit backup promises (spec 4.3), without the file, the         *)
(* channels, the loader or the crashes that implement it.                  *)
(*                                                                         *)
(* The backup is a set of units that only grows: a unit once persisted     *)
(* survives every crash.  A unit of ours reaches the network only once it  *)
(* is persisted (the write contract).  A unit of ours is persisted only in *)
(* a round no other unit of ours already took: what the loader resumes     *)
(* from is consistent with what any peer may have seen (the load           *)
(* contract).                                                              *)
(***************************************************************************)
CONSTANTS
    Units,     \* the units a backup may hold
    Self       \* this node's index

VARIABLES
    backup,    \* the units persisted so far
    sent       \* our units handed to the network

avars == <<backup, sent>>

AbsInit ==
    /\ backup = {}
    /\ sent = {}

\* Persist u.  If u is ours, its round is one no other persisted unit of
\* ours holds.
Persist(u) ==
    /\ u.creator = Self =>
          \A v \in backup : v.creator = Self /\ v.round = u.round => v = u
    /\ backup' = backup \cup {u}
    /\ UNCHANGED sent

\* Broadcast a unit of ours that is persisted.
Broadcast(u) ==
    /\ u \in backup
    /\ u.creator = Self
    /\ sent' = sent \cup {u}
    /\ UNCHANGED backup

AbsNext == \E u \in Units : Persist(u) \/ Broadcast(u)

AbsSpec == AbsInit /\ [][AbsNext]_avars
=============================================================================
