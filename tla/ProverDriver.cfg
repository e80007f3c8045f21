SPECIFICATION MCSpec
CONSTANTS
    s1 = s1
    s2 = s2
    m1 = m1
    m2 = m2
    None = None
    Specs = {s1, s2}
    Modules = {m1, m2}
    ModuleOf <- MCModuleOf
    RunOptions <- MCOptions
    Packages <- MCPackages
INVARIANTS VerdictSound AllDiagsWritten
PROPERTIES RunEnds
