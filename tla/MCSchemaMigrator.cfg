CONSTANTS
    Migrators = {p1, p2}
    Databases <- MCDatabases
    TrackingOrder <- MCTrackingOrder
    DDL <- MCDDL
SPECIFICATION FairSpec
INVARIANTS
    MarkersAreTrue
    NeverAdopts
    GateIsSound
PROPERTIES
    CompleteIsStable
    FreshInstallCompletes
