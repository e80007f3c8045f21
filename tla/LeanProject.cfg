SPECIFICATION Spec
CONSTANTS
    Programs <- MCPrograms
    UserStarts <- MCUserStarts
    Worked <- MCWorked
    UserPackage <- MCUserPackage
    UserEdits <- MCUserEdits
    Alphabet <- MCAlphabet
    MaxRuns = 2
INVARIANTS ProjectBuilds OutputFresh FacesStated GoalsOnTarget
PROPERTIES UserFilesKept
CHECK_DEADLOCK FALSE
