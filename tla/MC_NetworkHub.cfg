CONSTANTS
    n0 = n0
    n1 = n1
    u1 = u1
    a1 = a1
    a2 = a2
    Nodes <- MCNodes
    Self = n0
    Everyone = Everyone
    UnitMessages <- MCUnitMessages
    AlertMessages <- MCAlertMessages
    MaxQueue = 1
    MaxReceived = 2
SPECIFICATION HubSpec
\* A stopped hub, a full incoming channel and the end of the environment's
\* finite moves are all states the system may rest in.
CHECK_DEADLOCK FALSE
PROPERTY QueuedAlertsSent
