CONSTANTS
    Code <- MCCode
    Specs <- MCSpecs
    Vars = {v}
    None = None
    Packages <- MCPackages
    f = f
    g = g
    h = h
    fs = fs
    gs = gs
    v = v
    m1 = m1
    m2 = m2
    lib = lib
SPECIFICATION BSpec
INVARIANTS SpecStands NamesDeclared RecursionSound EverySpecProved NoAbortChecked
PROPERTY PipelineEnds
