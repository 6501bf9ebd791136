\* Calls share nothing but the map: one call, two names, three registrations.
SPECIFICATION Spec
CONSTANTS
    Calls = {c1}
    Names = {n1, n2}
    Specs <- MCSpecs
    Args <- MCArgs
    None = None
    Tries = {t1, t2}
    MaxRegistrations = 3
    number = number
    other = other
    service = service
    key = key
SYMMETRY Symmetry
CHECK_DEADLOCK FALSE
INVARIANTS
    NoStaleProfile
    NotFoundMeansNever
    ValidatedAtRegistration
    ReportedTruly
