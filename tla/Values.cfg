SPECIFICATION Spec
INVARIANTS AnswersAreComplete RecencyIsItsOwn PlansHold WaitsAreSound
    RequestsAreSound CapturesAreUsedWell PagesAreUnderstood
