\* A request to InfraAction that overtakes a purge.
SPECIFICATION FairSpec
CONSTANTS
    container = container
    database = database
    volume = volume
    file = file
    Container = {container}
    Database = {database}
    Volume = {volume}
    File = {}
    MaxBorn = 1
    MaxFaults = 1
    MaxInfra = 1
PROPERTIES InfraBlocked
