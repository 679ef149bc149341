CONSTANTS
    n1 = n1
    n2 = n2
    n3 = n3
    a1 = a1
    a2 = a2
    a3 = a3
    Nodes = {n1, n2, n3}
    Attempts = {a1, a2, a3}
    From <- StarFrom
    To <- StarTo
    After <- StarAfter
    Servers = {n1, n2, n3}
    Mortal = {n2}
    MaxFaults = 1
    None = None
SPECIFICATION Spec
INVARIANTS TablesAgree
PROPERTIES  DeadConnectionIsRemoved DestructorReturns
CHECK_DEADLOCK FALSE
