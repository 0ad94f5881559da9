SPECIFICATION Spec
CONSTANTS
    Handlers = {h1, h2}
    Boot = {}
    Sizes <- Growing
    Least = 1
    Largest = 2
    MaxRestarts = 0
    MaxFails = 0
INVARIANT OwnLoadAwaited
CHECK_DEADLOCK FALSE
