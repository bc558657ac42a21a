SPECIFICATION Spec
CONSTANTS
    a = a
    b = b
    stepA = stepA
    stepB = stepB
    None = None
    Attempts = {a, b}
    StepOf <- StepsOfAttempts
INVARIANTS
    StepsWriteAlone
