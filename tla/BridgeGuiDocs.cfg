SPECIFICATION Spec
CONSTANT MaxErrors = 1
INVARIANT OwnersExclusive
