SPECIFICATION Spec
CONSTANTS
    Parts = {"newest", "cheapest"}
    MaxCommands = 3
    Ceiling = 5
    Second = 1
    Half = 16
    Commands <- MCCommands
    Held <- MCHeld
    Target <- MCTarget
    Inside <- MCInside
INVARIANTS CacheHoldsWholeAnswers LossIsReported RequestsStayLinear
