SPECIFICATION Spec
CONSTANTS
    a = a
    b = b
    none = none
    Anonymous = none
    Retries = 1
    Paced = TRUE
    Plans <- MCPlans
    Sites <- MCSites
INVARIANTS CoverageIsTrue
PROPERTIES NothingAfterRefusal ImplementsFetch
