SPECIFICATION ProducersSpec
CONSTANTS
    SystemAccount = "eosio"
    NoCall = none
    Repetitions = 1
    MaxTracked = 3
    ConfirmRange = 4
    Networks <- StillNetworks
    LoopSettings <- FeatureSettings
PROPERTY FeaturesKept
