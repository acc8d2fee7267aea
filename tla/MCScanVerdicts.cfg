SPECIFICATION VerdictSpec
CONSTANT Selections <- MCSelections
INVARIANT OwnListingFails
CHECK_DEADLOCK FALSE
