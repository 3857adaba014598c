\* The NRI goroutine with the code's maxAttempts: reconnections count
\* against the limit as much as failures do.
CONSTANT MaxAttempts = 5
SPECIFICATION Spec
INVARIANT FatalOnlyAfterPersistentFailure
CHECK_DEADLOCK FALSE
