SPECIFICATION ProducersSpec
CONSTANTS
    SystemAccount = "eosio"
    NoCall = none
    Repetitions = 1
    MaxTracked = 3
    ConfirmRange = 4
    Networks <- PassingNetworks
    LoopSettings <- PassingSettings
INVARIANTS
    ProducersAgree
    HeadersSound
    LoopSound
PROPERTY HandlersSound
