CONSTANTS
    StructFields <- MCStructFields
    EnumVariants <- MCEnumVariants
    Corpus <- MCCorpus
    Samples <- MCSamples
SPECIFICATION Spec
INVARIANTS
    MeaningKept
    NoPanic
    PureExact
