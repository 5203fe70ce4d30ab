\* A container, its database and its volume, replaced at most once, one fault and one late
\* request to InfraAction.
SPECIFICATION FairSpec
CONSTANTS
    container = container
    database = database
    volume = volume
    file = file
    Container = {container}
    Database = {database}
    Volume = {volume}
    File = {}
    MaxBorn = 2
    MaxFaults = 1
    MaxInfra = 1
INVARIANTS OnlyReviewed GoneIsComplete PlanFirst
PROPERTIES ImplementsDeletion PurgeFinishes
