SPECIFICATION Spec
CONSTANTS
    Calls <- DeepForms
    Places <- MCPlaces
    BodyLimit = 40
INVARIANT FormMembersArrive
CHECK_DEADLOCK FALSE
