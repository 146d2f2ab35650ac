SPECIFICATION FairSpec
CONSTANTS
    Default = d
    Extra = x
    Relay = {d, x}
    Link <- OneLinkEach
    COMMAND_CHANNEL_CAPACITY = 1
PROPERTIES
    DiscoverySettles
    BootstrapReturns
