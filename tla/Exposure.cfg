SPECIFICATION ExposureSpec
CONSTANTS
    Ports = {web, metrics}
    Slices = {s1, s2}
INVARIANTS ReadyIsUsable UsableIsReady
