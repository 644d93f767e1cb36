SPECIFICATION Spec
CONSTANTS
    u1 = u1
    Users = {u1}
    Tasks = {t1, t2}
    Requests = {h1}
    Nobody = Nobody
    NoTask = NoTask
    Person <- MCPerson
    QuerySources <- MCQuerySources
    FeedSources <- MCFeedSources
    Board <- MCBoard
    SourceCap = 4
    MAX_DEMAND_QUERIES = 1
    Limit = 2
    Workers = 2
    Dropped <- MCDropped
    Regimes <- MCRegimes
    MaxEvents = 2
    Seniority <- MCSeniority
    GenericRole <- MCGenericRole
    Acronym <- MCAcronym
    PhraseIn <- MCPhraseIn
    AutoSubmits <- MCAutoSubmits
    Unit = 12000
    MIN_MATCH_SCORE = 6600
    MAX_MATCHES_PER_COMPANY = 1
    MAX_JOBS_CONSIDERED = 10
    ScanFloor = 10
INVARIANTS SourcingTypeOK RolesBounded MarkersTrue
PROPERTIES FairShare HardFilter Reached
CHECK_DEADLOCK FALSE
