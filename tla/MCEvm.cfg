CONSTANTS
    GasLimit = 21000
    StackLimit = 3
    MaxCode = 12
    PlainOps <- MCPlainOps
    PushData <- MCPushData
SPECIFICATION Spec
INVARIANT NoRuntimePanic
CHECK_DEADLOCK FALSE
