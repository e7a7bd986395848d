SPECIFICATION Spec
CONSTANTS
    a = a
    b = b
    c = c
    d = d
    n1 = n1
    NoNode = NoNode
    Pods = {a, b, c, d}
    Nodes = {n1}
    Preemptors = {c, d}
    SystemPods = {}
    Trusted = {}
    Cpu <- MCCpu
    Priority <- MCPriority
    Allocatable <- MCAllocatable
    Quota <- AllButOne
INVARIANTS
    SharesSafe
    EndedOnceIsExact
PROPERTY
    PreemptionServesPriority
CHECK_DEADLOCK FALSE
