CONSTANTS
    h1 = h1  h2 = h2
    Payload <- CheckAndComment
    Handlers <- TwoHandlers
    MaxDelivery = 2
    PageSize = 1
    MaxHooks = 2
    BackoffMax = 2
    MaxErrors = 1
    MaxBoots = 2
SPECIFICATION Spec
INVARIANTS CursorTrailsAttempts PurgedUnlessFailed OneHookPerFailure
SYMMETRY Alike
