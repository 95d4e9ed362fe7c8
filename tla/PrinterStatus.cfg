SPECIFICATION Spec
INVARIANT JudgedByAnswer
CHECK_DEADLOCK FALSE
