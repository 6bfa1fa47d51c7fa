\* A classification returns; its behaviours end.
CONSTANTS
    ScopeFiles <- MCScopeFiles
    Universe <- MCUniverse
    MinutesPerDay = 4
    Policies <- MCPolicies
    Requests <- MCRequests
    URLs <- MCURLs
    Records <- MCRecords
    Histories <- MCHistories
    Schemas <- MCSchemas
    MaxInput = 4
SPECIFICATION Spec
INVARIANTS TypeOK SentAuthorized SeedPortsAuthorized AcceptedAuthorized SharesWithinBudget EvidenceOrderFree
PROPERTIES StartsPermitted EvidenceNeverLowers
CHECK_DEADLOCK FALSE
