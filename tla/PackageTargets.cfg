SPECIFICATION Spec
CONSTANTS
    s1 = s1
    s2 = s2
    h = h
    m1 = m1
    m2 = m2
    st = st
    Bad = Bad
    None = None
    Functions = {s1, s2, h}
    Modules = {m1, m2}
    Structs = {st}
    ModuleOf <- MCModuleOf
    Sources <- MCSources
INVARIANTS SpecsFiled VerifiedAsDeclared
