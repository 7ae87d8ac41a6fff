\* Three runners and two transmissions: six uses of a limit of 3.
SPECIFICATION BudgetSpec
CONSTANTS
    Runner = {r1, r2, r3}
    Sends = 2
    Limit = 3
SYMMETRY MCSymmetry
INVARIANTS BudgetTypeOK CostInv
