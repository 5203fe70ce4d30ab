\* One database, created up to three times, three faults, three acts of administrators.
SPECIFICATION Spec
CONSTANTS
    orders = orders
    None = None
    Database = {orders}
    MaxSecrets = 3
    MaxFaults = 3
    MaxOutside = 3
INVARIANTS CredentialKept BoundIsServed
PROPERTIES DropIsJustified NoEmptyStart PurgeEnds
