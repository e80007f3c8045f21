SPECIFICATION Spec
CONSTANTS
    w1 = w1
    w2 = w2
    Workers <- MCWorkers
    Packages <- MCPackages
PROPERTIES
    ReportKept
    TestsEnd
