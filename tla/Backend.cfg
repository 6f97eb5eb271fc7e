CONSTANTS
    Dialers = {d1, d2}
    Updaters = {u1}
    Closers = {k1}
    Procs = {p1, p2}
    Conns = {c1, c2}
    MaxRetries = 2
    SshMaxRetries = 2
    AutoStartEC2 = TRUE
    Keepalive = TRUE
    Faults = {}
    MaxFaults = 0
    None = None
    d1 = d1  d2 = d2  u1 = u1  k1 = k1  p1 = p1  p2 = p2  p3 = p3  c1 = c1  c2 = c2  c3 = c3
SPECIFICATION Spec
SYMMETRY BackendSymmetry
INVARIANTS TypeOK OneConnector
CHECK_DEADLOCK FALSE
