SPECIFICATION Spec
CONSTANTS
    Requests = {r1, r2}
    Pods = {pod1, pod2}
    Keys = {enabled, mock}
    Values = {yes}
    EnabledKey = enabled
    MockKey = mock
    Yes = yes
    Nothing = Nothing
    MaxEdits = 2
INVARIANTS
    TypeOK
PROPERTIES
    RequestsAreAtomic
CHECK_DEADLOCK FALSE
