---------------------------- MODULE ProxyManager ----------------------------
(***************************************************************************)
(* The proxy manager: start-up from the merged configuration, the lazy AWS *)
(* initialisation that the first proxied connection triggers, the idle     *)
(* timer that suspends the instance again, and Stop (proxy/manager.go and  *)
(* proxy/idle_tracker.go, with the EC2 calls of ec2/instance.go).          *)
(*                                                                         *)
(* Channels and backends are numbered: initDone is the number of the       *)
(* channel the field holds, closed the channels that are closed.  backend  *)
(* is m.backend (0 is nil) and served the reference that the dialers of    *)
(* the SOCKS5 and the HTTP server hold, which are always set together.     *)
(* Between two steps of a goroutine any other may run; awsInitMu is mu.    *)
(* The idle timeout is taken to be longer than the instructions from       *)
(* SetBackend to ClearSuspended: a timer that a Dial starts in between is  *)
(* "fresh" and does not fire before ClearSuspended.                        *)
(***************************************************************************)
EXTENDS Routing, FiniteSets

CONSTANTS
    Dialers,  \* connections, each with the goroutine it may start
    Fires,    \* callbacks of the idle timer that can run at a time
    Layers,   \* records of defaults d, profile p and flags c
    Main,     \* the goroutine that runs Start
    None

ASSUME ActorsAssumption ==
    /\ Dialers \cap Fires = {} /\ Main \notin Dialers
    /\ None \notin Dialers \cup Fires /\ IsFiniteSet(Dialers)

\* The switches of a profile are plain booleans, and DNS rules are an array of
\* records (config.go).
ASSUME LayersAssumption ==
    /\ Unset \notin BOOLEAN
    /\ \A l \in Layers :
        /\ {l.p.autoStart, l.p.autoStop} \subseteq BOOLEAN
        /\ \A rules \in {l.d.routing.dns, l.p.routing.dns} :
            /\ Len(rules) \in Nat
            /\ rules = [i \in 1 .. Len(rules) |-> [servers  |-> rules[i].servers,
                                                   patterns |-> rules[i].patterns]]

VARIABLES
    phase, layers, cfg,
    mu, awsInitialized, initDone, closed, initErr,
    backend, made, open, active, served,
    ipc,               \* where a goroutine is in EnsureInitialized or Start
    timer, suspended, fire,
    ec2, client, byIdle

configVars  == <<phase, layers, cfg>>
latchVars   == <<awsInitialized, initDone, closed, initErr>>
backendVars == <<backend, made, open, active, served>>
idleVars    == <<timer, suspended, fire>>
ec2Vars     == <<ec2, client, byIdle>>
managerVars == <<configVars, mu, latchVars, backendVars, ipc, idleVars, ec2Vars>>

ManagerInit ==
    /\ phase = "flags" /\ layers \in Layers /\ cfg = None
    /\ mu = None
    /\ awsInitialized = FALSE /\ initDone = 1 /\ closed = {} /\ initErr = FALSE
    /\ backend = 0 /\ made = 0 /\ open = {} /\ active = {} /\ served = 0
    /\ ipc = [p \in Dialers \cup {Main} |-> "none"]
    /\ timer = "off" /\ suspended = FALSE /\ fire = [f \in Fires |-> "none"]
    /\ ec2 \in {"running", "stopped"} /\ client = FALSE /\ byIdle = FALSE

Alive == phase \notin {"exited", "failed"}

HasTracker         == NeedsProxy(cfg) /\ cfg.idle # Off
HasLazyInitializer == NeedsProxy(cfg) /\ (cfg.lazy \/ cfg.idle # Off)

-----------------------------------------------------------------------------
(* Start.                                                                  *)

\* The command line reads the file and the flags, merges them and checks the
\* result: the profile, the SSH key, the DNS rules and the platform.
LoadConfig ==
    /\ phase = "flags"
    /\ \/ phase' = "merged" /\ cfg' = Merge(layers.d, layers.p, CLIFlags(layers.c))
       \/ phase' = "failed" /\ UNCHANGED cfg
    /\ UNCHANGED <<layers, mu, latchVars, backendVars, ipc, idleVars, ec2Vars>>

\* The VM that Start needs cannot be started or its agent does not connect.
StartVMFails ==
    /\ phase = "merged" /\ NeedsVM(cfg) /\ phase' = "failed" /\ layers' = None
    /\ UNCHANGED <<cfg, mu, latchVars, backendVars, ipc, idleVars, ec2Vars>>

\* Start creates the router and the VM, if it needs one, and then either runs
\* initializeProxy or goes on to the servers.
Start ==
    /\ phase = "merged" /\ layers' = None
    /\ IF NeedsProxy(cfg) /\ ~cfg.lazy
       THEN phase' = "eager" /\ ipc' = [ipc EXCEPT ![Main] = "init"]
       ELSE phase' = "serving" /\ UNCHANGED ipc
    /\ UNCHANGED <<cfg, mu, latchVars, backendVars, idleVars, ec2Vars>>

\* The eager path: it closes initDone and starts the idle timer, but does not
\* set awsInitialized.
StartServers ==
    /\ ipc[Main] = "publish" /\ ipc' = [ipc EXCEPT ![Main] = "none"]
    /\ phase = "eager" /\ phase' = "serving"
    /\ closed' = closed \cup {initDone}
    /\ timer' = IF HasTracker THEN "armed" ELSE timer
    /\ served' = backend
    /\ UNCHANGED <<layers, cfg, mu, awsInitialized, initDone, initErr, backend, made, open, active,
                   suspended, fire, ec2Vars>>

-----------------------------------------------------------------------------
(* initializeProxy, run by Start or by an EnsureInitialized.               *)

GetInstanceState == ec2

\* StopInstances; it may also fail, which is logged only.
StopInstances == ec2' = IF ec2 = "running" THEN "stopping" ELSE ec2

\* The credentials, the clients and, with AutoStart, the instance's state.
InitDescribe(p) ==
    /\ ipc[p] = "init"
    /\ client' = TRUE
    /\ ipc' = [ipc EXCEPT ![p] = IF cfg.autoStart /\ GetInstanceState # "running"
                                   THEN GetInstanceState ELSE "backend"]
    /\ UNCHANGED <<configVars, mu, latchVars, backendVars, idleVars, ec2, byIdle>>

InitAwaitStopped(p) ==
    /\ ipc[p] = "stopping" /\ GetInstanceState = "stopped"
    /\ ipc' = [ipc EXCEPT ![p] = "stopped"]
    /\ UNCHANGED <<configVars, mu, latchVars, backendVars, idleVars, ec2Vars>>

\* StartInstances and the wait for the instance.
InitStartInstance(p) ==
    /\ ipc[p] = "stopped" /\ ec2 # "stopping"
    /\ ec2' = "running" /\ byIdle' = FALSE
    /\ ipc' = [ipc EXCEPT ![p] = "agent"]
    /\ UNCHANGED <<configVars, mu, latchVars, backendVars, idleVars, client>>

InitAwaitAgent(p) ==
    /\ ipc[p] = "agent" /\ ec2 = "running"
    /\ ipc' = [ipc EXCEPT ![p] = "backend"]
    /\ UNCHANGED <<configVars, mu, latchVars, backendVars, idleVars, ec2Vars>>

InitBackend(p) ==
    /\ ipc[p] = "backend"
    /\ made' = made + 1 /\ backend' = made + 1 /\ open' = open \cup {made + 1}
    /\ ipc' = [ipc EXCEPT ![p] = "publish"]
    /\ UNCHANGED <<configVars, mu, latchVars, active, served, idleVars, ec2Vars>>

\* Any of the calls fails or times out; Start then gives up.
InitFails(p) ==
    /\ ipc[p] \in {"init", "stopping", "stopped", "agent", "backend"}
    /\ ipc' = [ipc EXCEPT ![p] = IF p = Main THEN "none" ELSE "fail"]
    /\ phase' = IF p = Main THEN "failed" ELSE phase
    /\ UNCHANGED <<layers, cfg, mu, latchVars, backendVars, idleVars, ec2Vars>>

InitializeProxy(p) ==
    \/ InitDescribe(p) \/ InitAwaitStopped(p) \/ InitStartInstance(p) \/ InitAwaitAgent(p)
    \/ InitBackend(p) \/ InitFails(p)

-----------------------------------------------------------------------------
(* EnsureInitialized, in a goroutine of its own for each waiting dialer.   *)

\* Mutant: a resume does not switch auto-start on.
EnsureLock_NoAutoStart(d) ==
    /\ ipc[d] = "spawned" /\ mu = None
    /\ IF awsInitialized
       THEN ipc' = [ipc EXCEPT ![d] = "none"] /\ UNCHANGED <<cfg, mu>>
       ELSE ipc' = [ipc EXCEPT ![d] = "init"] /\ mu' = d /\ UNCHANGED cfg
    /\ UNCHANGED <<phase, layers, latchVars, backendVars, idleVars, ec2Vars>>

\* Mutant: an earlier initialisation is not noticed.
EnsureLock_NoCheck(d) ==
    /\ ipc[d] = "spawned" /\ mu = None
    /\ ipc' = [ipc EXCEPT ![d] = "init"] /\ mu' = d
    /\ cfg' = [cfg EXCEPT !.autoStart = @ \/ suspended]
    /\ UNCHANGED <<phase, layers, latchVars, backendVars, idleVars, ec2Vars>>

EnsureLock(d) ==
    /\ ipc[d] = "spawned" /\ mu = None
    /\ IF awsInitialized
       THEN ipc' = [ipc EXCEPT ![d] = "none"] /\ UNCHANGED <<cfg, mu>>
       ELSE /\ ipc' = [ipc EXCEPT ![d] = "init"] /\ mu' = d
            /\ cfg' = [cfg EXCEPT !.autoStart = @ \/ suspended]
    /\ UNCHANGED <<phase, layers, latchVars, backendVars, idleVars, ec2Vars>>

EnsurePublish(d) ==
    /\ ipc[d] = "publish" /\ ipc' = [ipc EXCEPT ![d] = "finish"]
    /\ served' = backend
    /\ UNCHANGED <<configVars, mu, latchVars, backend, made, open, active, idleVars, ec2Vars>>

EnsureFinish(d) ==
    /\ ipc[d] = "finish" /\ ipc' = [ipc EXCEPT ![d] = "none"]
    /\ awsInitialized' = TRUE /\ initErr' = FALSE /\ closed' = closed \cup {initDone}
    /\ suspended' = FALSE /\ timer' = IF timer = "fresh" THEN "armed" ELSE timer
    /\ mu' = None
    /\ UNCHANGED <<configVars, initDone, backendVars, fire, ec2Vars>>

\* Mutant: a failed attempt replaces the channel without closing it.
EnsureFailClose_NotClosed(d) ==
    /\ ipc[d] = "fail" /\ ipc' = [ipc EXCEPT ![d] = "replace"]
    /\ initErr' = TRUE
    /\ UNCHANGED <<configVars, mu, awsInitialized, initDone, closed, backendVars, idleVars, ec2Vars>>

\* A failed attempt closes the channel and then puts a new one in its place:
\* in between isInitialized finds the closed one.
EnsureFailClose(d) ==
    /\ ipc[d] = "fail" /\ ipc' = [ipc EXCEPT ![d] = "replace"]
    /\ initErr' = TRUE /\ closed' = closed \cup {initDone}
    /\ UNCHANGED <<configVars, mu, awsInitialized, initDone, backendVars, idleVars, ec2Vars>>

EnsureFailReplace(d) ==
    /\ ipc[d] = "replace" /\ ipc' = [ipc EXCEPT ![d] = "none"]
    /\ initDone' = initDone + 1 /\ mu' = None
    /\ UNCHANGED <<configVars, awsInitialized, closed, initErr, backendVars, idleVars, ec2Vars>>

EnsureInitialized(d) ==
    \/ EnsureLock(d) \/ InitializeProxy(d) \/ EnsurePublish(d) \/ EnsureFinish(d)
    \/ EnsureFailClose(d) \/ EnsureFailReplace(d)

-----------------------------------------------------------------------------
(* The idle tracker and suspend.                                           *)

Touch ==
    timer' = IF ~HasTracker THEN timer
             ELSE IF \E d \in Dialers : ipc[d] = "finish" THEN "fresh" ELSE "armed"

IdleFires(f) ==
    /\ timer = "armed" /\ timer' = "off"
    /\ suspended' = TRUE
    /\ fire[f] = "none" /\ fire' = [fire EXCEPT ![f] = "lock"]
    /\ UNCHANGED <<configVars, mu, latchVars, backendVars, ipc, ec2Vars>>

\* Mutant: suspend looks for the flag of a suspend, which the timer has set.
SuspendLock_Suspended(f) ==
    /\ fire[f] = "lock" /\ mu = None
    /\ IF suspended
       THEN fire' = [fire EXCEPT ![f] = "none"] /\ UNCHANGED <<mu, latchVars>>
       ELSE /\ fire' = [fire EXCEPT ![f] = "close"] /\ mu' = f
            /\ awsInitialized' = FALSE /\ initErr' = FALSE /\ initDone' = initDone + 1
            /\ UNCHANGED closed
    /\ UNCHANGED <<configVars, backendVars, ipc, timer, suspended, ec2Vars>>

SuspendLock(f) ==
    /\ fire[f] = "lock" /\ mu = None
    /\ IF ~awsInitialized
       THEN fire' = [fire EXCEPT ![f] = "none"] /\ UNCHANGED <<mu, latchVars>>
       ELSE /\ fire' = [fire EXCEPT ![f] = "close"] /\ mu' = f
            /\ awsInitialized' = FALSE /\ initErr' = FALSE /\ initDone' = initDone + 1
            /\ UNCHANGED closed
    /\ UNCHANGED <<configVars, backendVars, ipc, timer, suspended, ec2Vars>>

\* Mutant: the backend is dropped and not closed.
SuspendClose_NotClosed(f) ==
    /\ fire[f] = "close" /\ fire' = [fire EXCEPT ![f] = "stop"]
    /\ backend' = 0 /\ UNCHANGED <<open, made, active, served>>
    /\ UNCHANGED <<configVars, mu, latchVars, ipc, timer, suspended, ec2Vars>>

\* Close leaves the state that Ready reads as it is.
SuspendClose(f) ==
    /\ fire[f] = "close" /\ fire' = [fire EXCEPT ![f] = "stop"]
    /\ open' = open \ {backend} /\ backend' = 0
    /\ UNCHANGED <<configVars, mu, latchVars, made, active, served, ipc, timer, suspended, ec2Vars>>

SuspendStop(f) ==
    /\ fire[f] = "stop" /\ fire' = [fire EXCEPT ![f] = "none"]
    /\ \/ StopInstances /\ byIdle' = TRUE
       \/ UNCHANGED <<ec2, byIdle>>
    /\ mu' = None
    /\ UNCHANGED <<configVars, latchVars, backendVars, ipc, timer, suspended, client>>

Suspend(f) == SuspendLock(f) \/ SuspendClose(f) \/ SuspendStop(f)

-----------------------------------------------------------------------------
(* Stop, run by the signal handler without awsInitMu.  Closing the         *)
(* listeners makes Start and main return, so the process may be gone       *)
(* before the rest is done.  A signal that comes before the servers listen *)
(* is left out: Stop then runs beside the rest of Start.                   *)

StopServers ==
    /\ phase = "serving" /\ phase' = "stopping"
    /\ timer' = "off"
    /\ UNCHANGED <<layers, cfg, mu, latchVars, backendVars, ipc, suspended, fire, ec2Vars>>

StopBackend ==
    /\ phase = "stopping" /\ phase' = "closing"
    /\ open' = open \ {backend}
    /\ UNCHANGED <<layers, cfg, mu, latchVars, backend, made, active, served, ipc, idleVars, ec2Vars>>

\* With AutoStop the instance is stopped if its identifier and a client exist.
StopInstance ==
    /\ phase = "closing" /\ phase' = "stopped"
    /\ \/ cfg.autoStop /\ NeedsProxy(cfg) /\ client /\ StopInstances
       \/ UNCHANGED ec2
    /\ UNCHANGED <<layers, cfg, mu, latchVars, backendVars, ipc, idleVars, client, byIdle>>

Exit ==
    /\ phase \in {"stopping", "closing", "stopped"} /\ phase' = "exited"
    /\ UNCHANGED <<layers, cfg, mu, latchVars, backendVars, ipc, idleVars, ec2Vars>>

Stop == StopServers \/ StopBackend \/ StopInstance \/ Exit

-----------------------------------------------------------------------------
(* EC2 and the tunnel.                                                     *)

InstanceStops ==
    /\ ec2 = "stopping" /\ ec2' = "stopped"
    /\ UNCHANGED <<configVars, mu, latchVars, backendVars, ipc, idleVars, client, byIdle>>

\* The tunnel of a backend breaks, or is up again.
TunnelChanges ==
    /\ \E b \in open : active' = IF b \in active THEN active \ {b} ELSE active \cup {b}
    /\ UNCHANGED <<configVars, mu, latchVars, backend, made, open, served, ipc, idleVars, ec2Vars>>

ManagerNext ==
    \/ LoadConfig \/ StartVMFails \/ Start \/ StartServers \/ InitializeProxy(Main)
    \/ \E d \in Dialers : EnsureInitialized(d)
    \/ \E f \in Fires : IdleFires(f) \/ Suspend(f)
    \/ Stop \/ InstanceStops \/ TunnelChanges

=============================================================================
