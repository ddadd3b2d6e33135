\* The three examples, whose programs end: deadlock is their normal outcome.
SPECIFICATION Spec
CHECK_DEADLOCK FALSE
INVARIANTS
    EqualOnceExchanged
    EndsAsPrinted
