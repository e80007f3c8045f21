CONSTANTS
    StructFields <- MCStructFields
    EnumVariants <- MCEnumVariants
    Temps <- MCTemps
    MaxFold = 12
    AssertsFn = "asserts"
    Corpus <- MCCorpus
    Samples <- MCSamples
    ValuesOf <- MCValuesOf
    MIN_TOTAL = 50
    CHUNK = 25
    MIN_TAIL = 12
    SUBST_MAX = 30
    MULTI_USE_SUBST_MAX = 1
    ATOM_MIN = 6
SPECIFICATION Spec
INVARIANTS
    Closed
    ValueKept
    AbortsExact
    ObligationsExact
