\* One call over two names, two registrations accepted.
SPECIFICATION Spec
CONSTANTS
    Calls = {c1}
    Names = {n1, n2}
    Specs <- MCSpecs
    Args <- MCArgs
    None = None
    Tries = {t1, t2}
    MaxRegistrations = 2
    number = number
    other = other
    service = service
    key = key
SYMMETRY Symmetry
CHECK_DEADLOCK FALSE
INVARIANT ArgumentWins
