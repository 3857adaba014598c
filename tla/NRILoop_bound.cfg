\* The NRI goroutine with the code's maxAttempts, under every interleaving
\* of failures, disconnections and cancellation.
CONSTANT MaxAttempts = 5
SPECIFICATION Spec
INVARIANT TypeOK
\* The goroutine ends, by return or by Fatalf: a final state is not a deadlock.
CHECK_DEADLOCK FALSE
