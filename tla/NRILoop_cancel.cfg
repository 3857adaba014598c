\* The NRI goroutine with the code's maxAttempts: a shutdown that arrives
\* after the last select took default ends the process in Fatalf.
CONSTANT MaxAttempts = 5
SPECIFICATION Spec
PROPERTY CancelledLoopExits
CHECK_DEADLOCK FALSE
