----------------------------- MODULE NetworkHub -----------------------------
(***************************************************************************)
(* The network hub of consensus/src/network.rs: one task that multiplexes  *)
(* the outgoing unit and alert channels onto the transport and routes each *)
(* incoming NetworkData to the units or the alerts receiver by its kind.   *)
(* The transport is best effort (spec 6): what was sent is a set from      *)
(* which next_event may return any element addressed to us, any number of  *)
(* times (reordering and duplication) or never (loss).  The producers and  *)
(* consumers of the hub's channels, the peers and the exit signal are the  *)
(* environment.                                                            *)
(***************************************************************************)
EXTENDS Naturals, Sequences

CONSTANTS
    Nodes,          \* NodeIndex of the committee
    Self,           \* our index
    Everyone,       \* Recipient::Everyone
    UnitMessages,   \* UnitMessage values
    AlertMessages,  \* AlertMessage values
    MaxQueue,       \* bound on each outgoing channel
    MaxReceived     \* bound on what each incoming channel holds

ASSUME HubAssumption ==
    /\ Self \in Nodes
    /\ Everyone \notin Nodes
    /\ UnitMessages \cap AlertMessages = {}
    /\ MaxQueue \in Nat \ {0}
    /\ MaxReceived \in Nat \ {0}

VARIABLES
    units_to_send,     \* Receiver<(UnitMessage, Recipient)>
    alerts_to_send,    \* Receiver<(AlertMessage, Recipient)>
    units_tx_open,     \* the producer of units_to_send still holds its sender
    alerts_tx_open,    \* the producer of alerts_to_send still holds its sender
    units_received,    \* Sender<UnitMessage> to consensus
    alerts_received,   \* Sender<AlertMessage> to the alerter
    units_rx_open,     \* consensus still holds the receiver
    alerts_rx_open,    \* the alerter still holds the receiver
    wire,              \* everything handed to network.send, by anyone
    network_up,        \* next_event has not returned None
    exit_fired,        \* the exit oneshot has completed
    running,           \* NetworkHub::run has not broken out of its loop
    alerts_queued      \* history: every (message, recipient) the alerter queued

vars == <<units_to_send, alerts_to_send, units_tx_open, alerts_tx_open,
          units_received, alerts_received, units_rx_open, alerts_rx_open,
          wire, network_up, exit_fired, running, alerts_queued>>

Recipients == (Nodes \ {Self}) \cup {Everyone}
Item(m, to) == [msg |-> m, to |-> to]
\* NetworkData(NetworkDataInner::Units(m)) and NetworkData(Alert(m)).
NetworkData(kind, m) == [kind |-> kind, msg |-> m]
Datas == {NetworkData("Units", m) : m \in UnitMessages}
            \cup {NetworkData("Alert", m) : m \in AlertMessages}
Packet(d, from, to) == [data |-> d, from |-> from, to |-> to]

HubTypeOK ==
    /\ units_to_send \in Seq([msg : UnitMessages, to : Recipients])
    /\ alerts_to_send \in Seq([msg : AlertMessages, to : Recipients])
    /\ units_received \in Seq(UnitMessages)
    /\ alerts_received \in Seq(AlertMessages)
    /\ wire \subseteq [data : Datas, from : Nodes, to : Nodes \cup {Everyone}]
    /\ {units_tx_open, alerts_tx_open, units_rx_open, alerts_rx_open,
        network_up, exit_fired, running} \subseteq BOOLEAN
    /\ alerts_queued \subseteq [msg : AlertMessages, to : Recipients]

HubInit ==
    /\ units_to_send = <<>>
    /\ alerts_to_send = <<>>
    /\ units_received = <<>>
    /\ alerts_received = <<>>
    /\ wire = {}
    /\ units_tx_open = TRUE
    /\ alerts_tx_open = TRUE
    /\ units_rx_open = TRUE
    /\ alerts_rx_open = TRUE
    /\ network_up = TRUE
    /\ exit_fired = FALSE
    /\ running = TRUE
    /\ alerts_queued = {}

-----------------------------------------------------------------------------
(* The hub.                                                                *)

\* NetworkHub::send: network.send(data, recipient).
Send(d, to) == wire' = wire \cup {Packet(d, Self, to)}

\* A packet next_event may return to us.
Deliverable(p) == p.to = Self \/ (p.to = Everyone /\ p.from # Self)

\* handle_incoming: route by kind; a failed unbounded_send to a dropped
\* receiver is only logged.
HandleIncoming(d) ==
    IF d.kind = "Units"
    THEN /\ IF units_rx_open THEN units_received' = Append(units_received, d.msg)
                             ELSE UNCHANGED units_received
         /\ UNCHANGED alerts_received
    ELSE /\ IF alerts_rx_open THEN alerts_received' = Append(alerts_received, d.msg)
                              ELSE UNCHANGED alerts_received
         /\ UNCHANGED units_received

\* select! branch units_to_send.next(): Some((m, r)) is sent as Units.
HubSendUnit ==
    /\ running
    /\ units_to_send # <<>>
    /\ Send(NetworkData("Units", Head(units_to_send).msg), Head(units_to_send).to)
    /\ units_to_send' = Tail(units_to_send)
    /\ UNCHANGED <<alerts_to_send, units_tx_open, alerts_tx_open, units_received,
                   alerts_received, units_rx_open, alerts_rx_open, network_up,
                   exit_fired, running, alerts_queued>>

\* The same branch on None: the stream is closed and drained; break.
HubUnitsClosed ==
    /\ running
    /\ units_to_send = <<>>
    /\ ~units_tx_open
    /\ running' = FALSE
    /\ UNCHANGED <<units_to_send, alerts_to_send, units_tx_open, alerts_tx_open,
                   units_received, alerts_received, units_rx_open,
                   alerts_rx_open, wire, network_up, exit_fired, alerts_queued>>

\* Mutant: the alerts branch takes the message off the channel and drops it.
HubSendAlertLost ==
    /\ running
    /\ alerts_to_send # <<>>
    /\ alerts_to_send' = Tail(alerts_to_send)
    /\ UNCHANGED <<units_to_send, units_tx_open, alerts_tx_open, units_received,
                   alerts_received, units_rx_open, alerts_rx_open, wire,
                   network_up, exit_fired, running, alerts_queued>>

\* select! branch alerts_to_send.next(): Some((m, r)) is sent as Alert.
HubSendAlert ==
    /\ running
    /\ alerts_to_send # <<>>
    /\ Send(NetworkData("Alert", Head(alerts_to_send).msg), Head(alerts_to_send).to)
    /\ alerts_to_send' = Tail(alerts_to_send)
    /\ UNCHANGED <<units_to_send, units_tx_open, alerts_tx_open, units_received,
                   alerts_received, units_rx_open, alerts_rx_open, network_up,
                   exit_fired, running, alerts_queued>>

\* The same branch on None: break.
HubAlertsClosed ==
    /\ running
    /\ alerts_to_send = <<>>
    /\ ~alerts_tx_open
    /\ running' = FALSE
    /\ UNCHANGED <<units_to_send, alerts_to_send, units_tx_open, alerts_tx_open,
                   units_received, alerts_received, units_rx_open,
                   alerts_rx_open, wire, network_up, exit_fired, alerts_queued>>

\* select! branch network.next_event(): Some(data) goes to handle_incoming.
\* Any packet addressed to us, again or never: the transport is best effort.
HubIncoming(p) ==
    /\ running
    /\ network_up
    /\ Deliverable(p)
    /\ Len(units_received) < MaxReceived
    /\ Len(alerts_received) < MaxReceived
    /\ HandleIncoming(p.data)
    /\ UNCHANGED <<units_to_send, alerts_to_send, units_tx_open, alerts_tx_open,
                   units_rx_open, alerts_rx_open, wire, network_up, exit_fired,
                   running, alerts_queued>>

\* The same branch on None ("Network stopped working."): break.
HubNetworkStopped ==
    /\ running
    /\ ~network_up
    /\ running' = FALSE
    /\ UNCHANGED <<units_to_send, alerts_to_send, units_tx_open, alerts_tx_open,
                   units_received, alerts_received, units_rx_open,
                   alerts_rx_open, wire, network_up, exit_fired, alerts_queued>>

\* select! branch `_ = &mut exit => break`, whatever is still queued.
HubExit ==
    /\ running
    /\ exit_fired
    /\ running' = FALSE
    /\ UNCHANGED <<units_to_send, alerts_to_send, units_tx_open, alerts_tx_open,
                   units_received, alerts_received, units_rx_open,
                   alerts_rx_open, wire, network_up, exit_fired, alerts_queued>>

-----------------------------------------------------------------------------
(* The environment: the producers and consumers of the hub's channels, the *)
(* peers, the transport and the exit signal.                               *)

\* Consensus queues a unit message (UnboundedSender::unbounded_send).
QueueUnit(m, to) ==
    /\ units_tx_open
    /\ Len(units_to_send) < MaxQueue
    /\ units_to_send' = Append(units_to_send, Item(m, to))
    /\ UNCHANGED <<alerts_to_send, units_tx_open, alerts_tx_open, units_received,
                   alerts_received, units_rx_open, alerts_rx_open, wire,
                   network_up, exit_fired, running, alerts_queued>>

\* The alerter queues an alert message.
QueueAlert(m, to) ==
    /\ alerts_tx_open
    /\ Len(alerts_to_send) < MaxQueue
    /\ alerts_to_send' = Append(alerts_to_send, Item(m, to))
    /\ alerts_queued' = alerts_queued \cup {Item(m, to)}
    /\ UNCHANGED <<units_to_send, units_tx_open, alerts_tx_open, units_received,
                   alerts_received, units_rx_open, alerts_rx_open, wire,
                   network_up, exit_fired, running>>

\* A task ends and drops its end of one of the hub's four channels.
DropChannelEnd ==
    \/ /\ units_tx_open
       /\ units_tx_open' = FALSE
       /\ UNCHANGED <<alerts_tx_open, units_rx_open, alerts_rx_open>>
    \/ /\ alerts_tx_open
       /\ alerts_tx_open' = FALSE
       /\ UNCHANGED <<units_tx_open, units_rx_open, alerts_rx_open>>
    \/ /\ units_rx_open
       /\ units_rx_open' = FALSE
       /\ UNCHANGED <<units_tx_open, alerts_tx_open, alerts_rx_open>>
    \/ /\ alerts_rx_open
       /\ alerts_rx_open' = FALSE
       /\ UNCHANGED <<units_tx_open, alerts_tx_open, units_rx_open>>

DropChannel ==
    /\ DropChannelEnd
    /\ UNCHANGED <<units_to_send, alerts_to_send, units_received, alerts_received,
                   wire, network_up, exit_fired, running, alerts_queued>>

\* A peer sends us, or everyone, a message.
PeerSend(p, d, to) ==
    /\ wire' = wire \cup {Packet(d, p, to)}
    /\ UNCHANGED <<units_to_send, alerts_to_send, units_tx_open, alerts_tx_open,
                   units_received, alerts_received, units_rx_open,
                   alerts_rx_open, network_up, exit_fired, running, alerts_queued>>

\* The transport stops: next_event returns None from now on.
NetworkFails ==
    /\ network_up
    /\ network_up' = FALSE
    /\ UNCHANGED <<units_to_send, alerts_to_send, units_tx_open, alerts_tx_open,
                   units_received, alerts_received, units_rx_open,
                   alerts_rx_open, wire, exit_fired, running, alerts_queued>>

\* The member fires (or drops) the exit oneshot.
FireExit ==
    /\ ~exit_fired
    /\ exit_fired' = TRUE
    /\ UNCHANGED <<units_to_send, alerts_to_send, units_tx_open, alerts_tx_open,
                   units_received, alerts_received, units_rx_open,
                   alerts_rx_open, wire, network_up, running, alerts_queued>>

-----------------------------------------------------------------------------
\* NetworkHub::run: one select! branch per step.
HubStep ==
    \/ HubSendUnit
    \/ HubUnitsClosed
    \/ HubSendAlert
    \/ HubAlertsClosed
    \/ \E p \in wire : HubIncoming(p)
    \/ HubNetworkStopped
    \/ HubExit

Environment ==
    \/ \E m \in UnitMessages, to \in Recipients : QueueUnit(m, to)
    \/ \E m \in AlertMessages, to \in Recipients : QueueAlert(m, to)
    \/ DropChannel
    \/ \E p \in Nodes \ {Self}, d \in Datas, to \in {Self, Everyone} :
          PeerSend(p, d, to)
    \/ NetworkFails
    \/ FireExit

HubNext == HubStep \/ Environment

\* select! polls its ready branches in a random order, so a branch that
\* stays ready is taken eventually: the alerts branch is weakly fair.
HubFairness == WF_vars(HubSendAlert \/ HubAlertsClosed)

HubSpec == HubInit /\ [][HubNext]_vars /\ HubFairness

-----------------------------------------------------------------------------
\* Every alert message the alerter queues is handed to the transport for
\* its recipient, unless the hub has stopped first (exit, a closed channel
\* or a stopped network; spec 7 makes each of them stop the task).
QueuedAlertsSent ==
    \A m \in AlertMessages, to \in Recipients :
       Item(m, to) \in alerts_queued
          ~> \/ Packet(NetworkData("Alert", m), Self, to) \in wire
             \/ ~running
=============================================================================
