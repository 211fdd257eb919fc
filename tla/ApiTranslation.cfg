SPECIFICATION ApiSpec
CONSTANTS
    BodyPairs <- MCBodyPairs
    EnvCreateTimeout = 60
    AddrBits = 2
    MaxPort = 65535
    MaxTrafficRules = 1
    DefaultRulePriority = 2
    MaxRulePriority = 3
    MaxStorageMb = 4
    Scenarios <- MCScenarios
    FuncSpecs <- MCFuncSpecs
    MaxMeta = 2
    SSHSource = "/ssh"
    MaxFile = 2
    Overhead = 1
INVARIANTS
    SandboxBodyKeepsMeaning
    AgentBodyKeepsMeaning
\* Every request ends.
CHECK_DEADLOCK FALSE
