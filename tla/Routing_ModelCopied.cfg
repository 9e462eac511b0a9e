CONSTANT MaxChunks = 2
SPECIFICATION Spec
INVARIANT ModelCopied
CHECK_DEADLOCK FALSE
