SPECIFICATION Spec
CONSTANT Runners = {"key_tool"}
INVARIANT OverflowFailsClosed
CHECK_DEADLOCK FALSE
