SPECIFICATION CalculationSpec
CONSTANTS
    MaxNumber = 1500
    Inputs <- MCNumbers
INVARIANTS CalculationInv VerdictCorrect
PROPERTY Termination
CHECK_DEADLOCK FALSE
