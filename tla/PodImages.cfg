SPECIFICATION Spec
CONSTANTS
    Pods = {p1, p2}
    Namespaces = {ns1, ns2}
    Images = {app, sidecar, unpulled}
    NoDigest = {unpulled}
    ReleaseImages = {app, unpulled}
    ReportAll = FALSE
    MaxChanges = 3
    MaxCrashes = 1
    Idle = Idle
PROPERTIES
    ImagesConverge
