\* One code, one login, a server set to one product or to all.
SPECIFICATION AuthFairSpec
CONSTANTS
    Codes = {c1}
    Logins = {l1}
    Humans = {h1}
    Roles = {"member"}
    Configs <- TwoConfigs
    All = All
    a = a
    Capacity = 1
    MaxAttempts = 2
    MaxInterval = 2
    FlowTTL = 1
    SessionTTL = 2
    CodeTTL = 3
    Grace = 1
    MaxRequests = 2
    OtherPollers = TRUE
INVARIANTS
    OneAgentPerCode
    AgentWithinApproval
PROPERTIES
    CodesEnd
