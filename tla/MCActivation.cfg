\* Two runs that may overlap, two faults: three key sets are what two dead runs and one more need.
SPECIFICATION ApartActivationSpec
CONSTANTS
    main = main
    again = again
    alice = alice
    bob = bob
    k1 = k1
    k2 = k2
    k3 = k3
    None = None
    Absent = Absent
    Torn = Torn
    AtSigns = {alice, bob}
    Processes = {main, again}
    KeySets = {k1, k2, k3}
    MaxFaults = 2
INVARIANTS
    ActivationTypeOK
    SecretGoneMeansUsable
    SecretFits
    GivesUpAfterRetries
PROPERTIES
    OwnedOnce
    UsableUnlessRefused
CHECK_DEADLOCK FALSE
