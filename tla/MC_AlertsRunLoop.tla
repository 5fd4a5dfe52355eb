-------------------------- MODULE MC_AlertsRunLoop --------------------------
(***************************************************************************)
(* The legacy loop on n0 among three nodes: n2 forks, n1 is the peer.  The *)
(* alerts: our own about n2, two of n1 about n2 (n1 commits twice, both    *)
(* with correct commitments, so either may be released), and one of n1   *)
(* whose proof does not check.                                             *)
(***************************************************************************)
EXTENDS AlertsRunLoop, TLC

CONSTANTS n0, n1, n2

MCNodes == {n0, n1, n2}

MCPeers == {n1}

MCAlerts ==
    { [sender |-> n0, forker |-> n2, proofOk |-> TRUE,  legitOk |-> TRUE,  id |-> 0],
      [sender |-> n1, forker |-> n2, proofOk |-> TRUE,  legitOk |-> TRUE,  id |-> 1],
      [sender |-> n1, forker |-> n2, proofOk |-> TRUE,  legitOk |-> TRUE,  id |-> 2],
      [sender |-> n1, forker |-> n1, proofOk |-> FALSE, legitOk |-> TRUE,  id |-> 3] }

\* Requests and answers to a single node never enable or disable a step and
\* no property reads them; TLC identifies states that differ only in them.
BroadcastMessages == {m \in messages_for_network : m.to = Everyone}

MCView == <<handler_vars, BroadcastMessages, notifications_for_units,
            running, runway_alerted, rmc_vars>>
=============================================================================
