SPECIFICATION SearchSpec
INVARIANT SearchCorrect
CHECK_DEADLOCK FALSE
