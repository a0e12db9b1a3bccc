\* One run with --recreate, over a broker set up by an earlier edition.
SPECIFICATION Spec
CONSTANTS
    Runs = {r1}
    Specs <- AllEditions
    MaxReadings = 0
INVARIANTS
    RecreateSettlesAnyChange
