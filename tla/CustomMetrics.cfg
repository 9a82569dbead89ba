SPECIFICATION MCSpec
CONSTANTS
    Requests = {r1, r2}
    Pods = {pod1, pod2}
    Keys = {users, projects}
    Values = {1}
    Nothing = Nothing
    FirstRequest = r1
    FirstPod = pod1
INVARIANTS
    NoContentionInPod
    CachedAnswerIsEarned
    AloneTakesEffect
PROPERTIES
    OtherKeySurvives
    EveryRequestAnswered
CHECK_DEADLOCK FALSE
