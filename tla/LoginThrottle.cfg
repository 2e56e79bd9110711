SPECIFICATION Spec
CONSTANTS
    i1 = i1
    i2 = i2
    i3 = i3
    Ip <- MCIp
    Window = 2
    MaxAttempts = 2
    MaxTracked = 2
    MaxNow = 3
    MaxVerifying = 2
INVARIANTS CapKept OverrunIsInFlight RefusedForCause
PROPERTY RefusalLasts
SYMMETRY Symmetry
