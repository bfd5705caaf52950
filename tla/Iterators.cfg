CONSTANTS
    Family <- Families
    Key <- Keys
    Target <- Targets
    Before = Before
    After = After
    MaxPast = 0

SPECIFICATION Spec

INVARIANTS TypeOK
PROPERTIES PebbleIsCursor MockIsCursor
