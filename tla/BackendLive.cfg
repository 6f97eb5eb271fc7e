CONSTANTS
    Dialers = {d1}
    Updaters = {}
    Closers = {}
    Procs = {p1, p2}
    Conns = {c1, c2}
    MaxRetries = 2
    SshMaxRetries = 1
    AutoStartEC2 = FALSE
    Keepalive = TRUE
    Faults = {"drop", "remote_close", "ssh", "stall"}
    MaxFaults = 1
    None = None
    d1 = d1  d2 = d2  u1 = u1  k1 = k1  p1 = p1  p2 = p2  p3 = p3  c1 = c1  c2 = c2  c3 = c3
SPECIFICATION FairSpec
INVARIANTS ActiveHasClient NoStraySession
PROPERTIES Settles DeadTunnelIsNoticed
CHECK_DEADLOCK FALSE
