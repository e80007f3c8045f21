SPECIFICATION Spec
CONSTANTS
    StructFields <- MCStructFields
    EnumVariants <- MCEnumVariants
    Functions <- MCFunctions
    Cases <- MCCases
INVARIANTS
    FailuresReported
    TraceFaithful
    CallTraceReal
