CONSTANTS
    Places <- MCPlaces
    Services <- MCServices
    TlsPorts <- MCTlsPorts
    MaxProbes = 2
SPECIFICATION Spec
INVARIANTS ScoreNeverFlatters WeaknessIsReported BillIsComplete
PROPERTIES WeaknessNeverPays SilenceOpensNothing
CHECK_DEADLOCK FALSE
