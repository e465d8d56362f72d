\* Three calls, of a context with the user's buffers or of one that allocates.
\* The model ends after MaxCalls calls.
CONSTANT MaxCalls = 3
SPECIFICATION Spec
INVARIANTS BuffersReturned SuccessMeansSent
CHECK_DEADLOCK FALSE
