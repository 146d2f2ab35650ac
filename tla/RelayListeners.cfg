SPECIFICATION ListenersSpec
CONSTANTS
    Default = d
    Extra = x
    Relay = {d, x}
    Link <- TwoToDefault
    COMMAND_CHANNEL_CAPACITY = 2
INVARIANTS
    TypeOK
    SettingsApplied
    LanOnlyIsQuiet
    GuardedListeners
PROPERTY
    DefaultReserves
