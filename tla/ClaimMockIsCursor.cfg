\* One move beyond an end.
CONSTANTS
    Family <- Families
    Key <- Keys
    Target <- Targets
    Before = Before
    After = After
    MaxPast = 1

SPECIFICATION Spec

PROPERTY MockIsCursor
