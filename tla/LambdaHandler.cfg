SPECIFICATION Spec
CONSTANTS
    Instances = {i1, i2}
    t1 = t1
    t2 = t2
    o1 = o1
    o2 = o2
    Texts = {t1, t2}
    Options = {o1, o2}
    Sent <- Distinct
    MaxLines = 1
    Cap = 1
    Cleanups = {TRUE, FALSE}
    MaxRequests = 2
    None = None
INVARIANTS ReplyProvenance VerdictsWereComputed NoStrayProcess
PROPERTIES RequestsAnswered
CHECK_DEADLOCK FALSE
