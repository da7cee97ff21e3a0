SPECIFICATION Spec
CONSTANTS
    Threads = {t1, t2}
    Names = {n1, n2}
    Passwords = {p1, Empty}
    Empty = Empty
    None = None
SYMMETRY Symmetry
INVARIANTS OnePassword RegistrationCounts
