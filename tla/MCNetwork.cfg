\* cmd/nogochain: Start once, with RPC enabled (the default config).
CONSTANTS
    None = None
    Peers = {p1}
    MaxStarts = 1
    RpcEnabled = TRUE
    JwtEnabled = FALSE
SPECIFICATION Spec
INVARIANTS ListenerLives
CHECK_DEADLOCK FALSE
