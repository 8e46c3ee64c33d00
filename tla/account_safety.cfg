\* Two users, two calls and three ids: two clients, or one and its retries.
SPECIFICATION Spec
CONSTANTS
    Names = {n1, n2}
    TGNames = {t1, t2}
    Clients = {a1, a2}
    IDs = {i1, i2, i3}
    Calls = {c1, c2}
    None = None
SYMMETRY AccountSymmetry
INVARIANTS
    TypeOK
    IssuedServed
PROPERTY
    ImplementsRegistry
