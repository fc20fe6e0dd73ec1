SPECIFICATION Spec
CONSTANTS
    Input <- MCInput
    Expire <- MCExpire
    Delay <- MCDelay
    Sid <- MCSid
    Payer = {"p", "q"}
    FirstAuth <- MCFirstAuth
    Window = 1
    Arrival = {1, 2, 3}
    TrxOf <- MCTrxOf
    Worlds <- MCWorlds
    MaxTime = 4
    MaxBlocks = 3
    None = None
INVARIANT OncePerChain AnsweredOnce AcceptedKept RamMatches
CHECK_DEADLOCK FALSE
