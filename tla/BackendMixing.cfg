SPECIFICATION FairSpec
CONSTANTS
    spec = spec
    tgt = tgt
    g = g
    h = h
    other = other
    None = None
    Functions = {spec, tgt, g, h, other}
    Programs <- MCPrograms
INVARIANTS ReportsExact
PROPERTIES SearchEnds
