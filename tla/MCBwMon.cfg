SPECIFICATION Spec
CONSTANTS
    eth0 = eth0
    eth1 = eth1
    rx = rx
    Interfaces = {eth0, eth1}
    Counters = {rx}
    History = 3
    Width = 4
    Readings = {0, 1, 5}
INVARIANTS
    TypeOK
PROPERTIES
    ImplementsHistory
