-------------------------- MODULE MC_AlertService --------------------------
(***************************************************************************)
(* A node n0 among three; n2 forks; n1 is the peer whose requests and    *)
(* RMC messages reach n0.  The alerts: our own about n2; two alerts of n1  *)
(* about n2 (n1 commits twice), the second with legit units that are not  *)
(* a correct commitment; and one whose fork proof does not check.         *)
(***************************************************************************)
EXTENDS AlertService, TLC

CONSTANTS n0, n1, n2

MCNodes == {n0, n1, n2}

MCPeers == {n1}

MCAlerts ==
    { [sender |-> n0, forker |-> n2, proofOk |-> TRUE,  legitOk |-> TRUE,  id |-> 0],
      [sender |-> n1, forker |-> n2, proofOk |-> TRUE,  legitOk |-> TRUE,  id |-> 1],
      [sender |-> n1, forker |-> n2, proofOk |-> TRUE,  legitOk |-> FALSE, id |-> 2],
      [sender |-> n1, forker |-> n1, proofOk |-> FALSE, legitOk |-> TRUE,  id |-> 3] }

\* The same node when n1's two alerts both carry correct commitments.
MCAlertsDoubleCommit ==
    { [sender |-> n0, forker |-> n2, proofOk |-> TRUE,  legitOk |-> TRUE,  id |-> 0],
      [sender |-> n1, forker |-> n2, proofOk |-> TRUE,  legitOk |-> TRUE,  id |-> 1],
      [sender |-> n1, forker |-> n2, proofOk |-> TRUE,  legitOk |-> TRUE,  id |-> 2] }

\* Our own alert and one of n1, both about n2: one decision of each kind.
MCAlertsSmall ==
    { [sender |-> n0, forker |-> n2, proofOk |-> TRUE,  legitOk |-> TRUE,  id |-> 0],
      [sender |-> n1, forker |-> n2, proofOk |-> TRUE,  legitOk |-> TRUE,  id |-> 1] }

\* The requests and answers n0 hands to the network (AlertRequest, and
\* ForkAlert to a single node) never enable or disable a step and no
\* property reads them; TLC identifies states that differ only in them.
DurableMessages ==
    {m \in messages_for_network :
        m.type \in {"SignedHash", "Multisigned"} \/ m.to = Everyone}

MCView == <<handler_vars, own_alert_responses, network_alert_responses,
            multisigned_notifications, DurableMessages, notifications_for_units,
            service_running, backup_vars, rmc_vars, runway_alerted>>
=============================================================================
