SPECIFICATION FairSpec
CONSTANTS
    n1 = n1
    n2 = n2
    a = a
    b = b
    c = c
    Nodes = {n1, n2}
    Executors = {a, b, c}
    Owner <- TwoAndOne
    Initial <- BothAtOne
    Users = {n2}
    MaxCalls = 1
    MaxStreams = 2
INVARIANTS
    
    NoDuplicates
    RoundIsFair

    
