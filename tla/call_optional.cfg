SPECIFICATION Spec
CONSTANTS
    Calls <- OptionalBodies
    Places <- MCPlaces
    BodyLimit = 40
INVARIANT OptionalBodyIsOptional
CHECK_DEADLOCK FALSE
