SPECIFICATION Spec
CONSTANTS
    Club = Club
    Team = Team
    teams = teams
    reserves = reserves
    c1 = c1
    t1 = t1
    t2 = t2
    Entity = {Club, Team}
    Instance = {c1, t1, t2}
    entityOf <- MCEntityOf
    Association = {teams, reserves}
    ownerOf <- MCOwnerOf
    targetOf <- MCTargetOf
    Batched = {teams, reserves}
    Bidirectional = {teams}
    DynamicLabels = {}
    NoEntity = NoEntity
INVARIANTS
    TypeOK
    NodesCreatedOnce
    RelationshipsComplete
    PostInsertFired
CHECK_DEADLOCK FALSE
