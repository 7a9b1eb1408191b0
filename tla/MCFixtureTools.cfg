CONSTANTS
    Half = 4
    UniPool = 11
    Usdc = 1
    Weth = 2
    AaveV2Pool = 12
    AaveV3Pool = 13
    Whitelist <- MCWhitelist
    Log <- MCLog
    FromBlock = 1
    ToBlock = 3
    Version = "aave_v2"
    PageCap = 2
    MaxRetries = 2
    MinRows = 2
    MinTypes = 2
    SampleSize = 2
    Gate = 3
SPECIFICATION ToolsSpec
INVARIANTS ExtractionComplete VerdictsHold SourcesAgree
PROPERTY ExtractionEnds
CHECK_DEADLOCK FALSE
