CONSTANTS
    StructFields <- MCNone
    EnumVariants <- MCNone
    Packages <- MCPackages
SPECIFICATION Spec
INVARIANTS
    ContractsHold
    VerdictExact
