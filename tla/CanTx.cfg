SPECIFICATION FairSpec
CONSTANTS
    can = can
    btn1 = btn1
    btn2 = btn2
    None = None
    Writer = {can, btn1, btn2}
    Prio <- MCPrio
    SndBoxNumber = 3
INVARIANTS
    TypeOK
    NoLostCompletion
    BoxesReturn
PROPERTIES
    WritesReturn
    ImplementsChannel
