----------------------------- MODULE ProxyDialer -----------------------------
(***************************************************************************)
(* The dialers of the SOCKS5 and the HTTP server over the proxy manager    *)
(* (proxy/dialer.go): the route of a connection, the gate that holds it    *)
(* while AWS is initialised, the dial over the backend and the fallback.   *)
(* DNS resolution on the way is module DnsResolver.  Each d in Dialers is  *)
(* one Dial, whose context has no deadline (both servers pass background   *)
(* contexts).                                                              *)
(***************************************************************************)
EXTENDS ProxyManager

CONSTANT Hosts

VARIABLES
    dpc,     \* where Dial is
    host,    \* the host that the client asked for
    seen,    \* the channel that isInitialized looked at, 0 if it was closed
    waitCh,  \* the channel that the select waits on
    be,      \* the backend that is being dialed
    path,    \* the way the connection leaves, "" until then
    why      \* the step of Dial that chose it

dialerVars == <<dpc, host, seen, waitCh, be, path, why>>
vars       == <<managerVars, dialerVars>>

DialerInit ==
    /\ dpc = [d \in Dialers |-> "idle"] /\ host = [d \in Dialers |-> None]
    /\ seen = [d \in Dialers |-> 0] /\ waitCh = [d \in Dialers |-> 0]
    /\ be = [d \in Dialers |-> 0]
    /\ path = [d \in Dialers |-> ""] /\ why = [d \in Dialers |-> ""]

Goto(d, l) == dpc' = [dpc EXCEPT ![d] = l]

\* Dial returns: a connection over way, chosen by reason, or an error.
Return(d, way, reason) ==
    Goto(d, "done") /\ path' = [path EXCEPT ![d] = way] /\ why' = [why EXCEPT ![d] = reason]

Router == NewRouter(cfg)

Proxied(h) == Route(Router, h) \notin {"direct", "vm-direct"}

IsInitialized == HasLazyInitializer => initDone \in closed

\* A nil backend reports no state and counts as ready.
BackendReady == served = 0 \/ served \in active

-----------------------------------------------------------------------------

\* Dial, direct and vm-direct routes.
DialByRule(d, h) ==
    /\ phase = "serving" /\ dpc[d] = "idle" /\ ~Proxied(h)
    /\ host' = [host EXCEPT ![d] = h]
    /\ Return(d, Route(Router, h), "rule")
    /\ UNCHANGED <<managerVars, seen, waitCh, be>>

\* Dial, proxy route: the pre-connect route of the mapped host if the backend
\* is not active, otherwise the wait for an initialisation that it triggers.
DialGate(d, h) ==
    /\ phase = "serving" /\ dpc[d] = "idle" /\ Proxied(h)
    /\ host' = [host EXCEPT ![d] = h]
    /\ seen' = [seen EXCEPT ![d] = IF IsInitialized THEN 0 ELSE initDone]
    /\ ipc' = [ipc EXCEPT ![d] = IF IsInitialized THEN @ ELSE "spawned"]
    /\ LET pre == RoutePreConnect(Router, ResolveHost(Router, h))
       IN  IF ~(IsInitialized /\ BackendReady) /\ pre # NoRoute
           THEN Return(d, pre, "pre-connect")
           ELSE /\ Goto(d, IF IsInitialized THEN "dial" ELSE "fetch")
                /\ why' = [why EXCEPT ![d] = IF IsInitialized /\ initErr THEN "failed" ELSE ""]
                /\ UNCHANGED path
    /\ UNCHANGED <<configVars, mu, latchVars, backendVars, idleVars, ec2Vars, waitCh, be>>

\* The select takes the channel that InitDone returns by then.
DialFetch(d) ==
    /\ dpc[d] = "fetch" /\ Goto(d, "wait")
    /\ waitCh' = [waitCh EXCEPT ![d] = initDone]
    /\ UNCHANGED <<managerVars, host, seen, be, path, why>>

\* Mutant: the error of the initialisation is not looked at.
DialWoken_NoError(d) ==
    /\ dpc[d] = "wait" /\ waitCh[d] \in closed
    /\ Goto(d, "dial") /\ UNCHANGED <<path, why>>
    /\ UNCHANGED <<managerVars, host, seen, waitCh, be>>

DialWoken(d) ==
    /\ dpc[d] = "wait" /\ waitCh[d] \in closed
    /\ IF initErr THEN Return(d, "error", "init") ELSE Goto(d, "dial") /\ UNCHANGED <<path, why>>
    /\ UNCHANGED <<managerVars, host, seen, waitCh, be>>

\* Mutant: dialProxy does not look for a nil backend.
DialProxy_NoNilCheck(d) ==
    /\ dpc[d] = "dial"
    /\ Goto(d, "dialing") /\ be' = [be EXCEPT ![d] = served] /\ UNCHANGED <<path, why>>
    /\ UNCHANGED <<managerVars, host, seen, waitCh>>

\* dialProxy: without a backend it dials from the host.
DialProxy(d) ==
    /\ dpc[d] = "dial"
    /\ IF served = 0
       THEN /\ Return(d, "direct", IF why[d] = "failed" THEN "failed" ELSE "no backend")
            /\ UNCHANGED be
       ELSE Goto(d, "dialing") /\ be' = [be EXCEPT ![d] = served] /\ UNCHANGED <<path, why>>
    /\ UNCHANGED <<managerVars, host, seen, waitCh>>

\* The backend has connected itself, if it had to, and reached the host.
DialSucceeds(d) ==
    /\ dpc[d] = "dialing" /\ be[d] \in open /\ ec2 = "running"
    /\ active' = active \cup {be[d]}
    /\ Goto(d, "touch")
    /\ UNCHANGED <<configVars, mu, latchVars, backend, made, open, served, ipc, idleVars, ec2Vars,
                   host, seen, waitCh, be, path, why>>

DialTouch(d) ==
    /\ dpc[d] = "touch" /\ Touch
    /\ Return(d, "proxy", "proxy")
    /\ UNCHANGED <<configVars, mu, latchVars, backendVars, ipc, suspended, fire, ec2Vars,
                   host, seen, waitCh, be>>

\* The backend fails, or the host cannot be reached through it and the
\* fallback route is taken.  A closed backend gives no such error.
DialFails(d) ==
    /\ dpc[d] = "dialing"
    /\ \E err \in IF be[d] \in open THEN DialErrors ELSE {"other"} :
        LET alternative == FallbackRoute(Router, Route(Router, host[d]))
        IN  IF IsFallbackableError(err) /\ alternative # NoRoute
            THEN Return(d, alternative, "fallback") ELSE Return(d, "error", "backend")
    /\ UNCHANGED <<managerVars, host, seen, waitCh, be>>

DialProceeds(d) ==
    DialFetch(d) \/ DialWoken(d) \/ DialProxy(d) \/ DialSucceeds(d) \/ DialTouch(d) \/ DialFails(d)

-----------------------------------------------------------------------------

Init == ManagerInit /\ DialerInit

Next ==
    /\ Alive
    /\ \/ ManagerNext /\ UNCHANGED dialerVars
       \/ \E d \in Dialers, h \in Hosts : DialByRule(d, h) \/ DialGate(d, h)
       \/ \E d \in Dialers : DialProceeds(d)

Spec == Init /\ [][Next]_vars

(***************************************************************************)
(* Goroutines are scheduled, AWS calls and backend dials end (they have    *)
(* timeouts), and a mutex is handed on.  Nothing makes a client connect,   *)
(* the idle timer fire or the process stop.                                *)
(***************************************************************************)
Fairness ==
    /\ \A d \in Dialers :
        /\ WF_vars(Alive /\ EnsureInitialized(d) /\ UNCHANGED dialerVars)
        /\ WF_vars(Alive /\ DialProceeds(d))
    /\ \A f \in Fires : WF_vars(Alive /\ Suspend(f) /\ UNCHANGED dialerVars)

FairSpec == Spec /\ Fairness

-----------------------------------------------------------------------------

DialSteps == {"idle", "fetch", "wait", "dial", "dialing", "touch", "done"}

\* A Dial that triggers an initialisation accounts for one new channel at most:
\* the one after its failure or after the suspend that follows its success.
Channels == 0 .. Cardinality(Dialers) + 1

TypeOK ==
    /\ phase \in {"flags", "merged", "eager", "serving", "stopping", "closing", "stopped",
                  "failed", "exited"}
    /\ mu \in Dialers \cup Fires \cup {None}
    /\ {awsInitialized, initErr, suspended, client, byIdle} \subseteq BOOLEAN
    /\ initDone \in Channels /\ closed \subseteq Channels
    /\ made \in 0 .. Cardinality(Dialers) + 1 /\ {backend, served} \subseteq 0 .. made
    /\ open \subseteq 1 .. made /\ active \subseteq 1 .. made
    /\ ipc \in [Dialers \cup {Main} -> {"none", "spawned", "init", "stopping", "stopped", "agent", "backend",
                                        "publish", "finish", "fail", "replace"}]
    /\ timer \in {"off", "fresh", "armed"} /\ fire \in [Fires -> {"none", "lock", "close", "stop"}]
    /\ ec2 \in {"running", "stopping", "stopped"}
    /\ dpc \in [Dialers -> DialSteps]
    /\ host \in [Dialers -> Hosts \cup {None}]
    /\ seen \in [Dialers -> Channels] /\ waitCh \in [Dialers -> Channels]
    /\ be \in [Dialers -> 0 .. made]
    /\ \A d \in Dialers : dpc[d] \in {"dialing", "touch"} => be[d] # 0
    /\ path \in [Dialers -> {"", "direct", "vm-direct", "proxy", "error"}]

\* A proxied connection leaves from the host's own network only by choice: by
\* a pre-connect rule, as the fallback of the direct mode (in VM mode both
\* routes stay trusted, router.go:190), or without an instance.  dialProxy's
\* nil backend never lets one out, except one whose isInitialized ran between
\* the two steps of a failing EnsureInitialized and found the channel closed.
OnlyByChoice ==
    \A d \in Dialers :
        /\ path[d] = "direct" /\ why[d] = "fallback"   => ~VMMode(cfg)
        /\ path[d] = "direct" /\ why[d] = "no backend" => ~NeedsProxy(cfg)

\* Whenever AWS is initialised the dialers hold the manager's backend and it
\* is open, across suspend and resume (EnsureInitialized, suspend).
DialersHoldBackend ==
    awsInitialized /\ phase = "serving" => served = backend /\ backend \in open

\* No backend stays open behind the manager's back, with its tunnel and its
\* keepalives: there is one at most and m.backend refers to it.
NoLostBackend == open \subseteq {backend}

\* Both: dialers, manager and open backends agree, whatever connections, idle
\* timers and failures interleave.
BackendsInStep == DialersHoldBackend /\ NoLostBackend

\* close(initDone) never meets a closed channel, which would panic, and a
\* channel is closed before it is replaced, so that nobody waits on a channel
\* that was dropped open.
ChannelsCloseOnce ==
    /\ \A d \in Dialers : ipc[d] \in {"finish", "fail"} => initDone \notin closed
    /\ \A c \in 1 .. initDone - 1 : c \in closed

-----------------------------------------------------------------------------
(* What the last three need to be inductive.                               *)

Initialising == {"init", "stopping", "stopped", "agent", "backend", "fail", "replace"}
Publishing   == {"publish", "finish"}

\* Who holds awsInitMu, and that nobody initialises behind Start's back.
MutexInv ==
    /\ ipc \in [Dialers \cup {Main} -> Initialising \cup Publishing \cup {"none", "spawned"}]
    /\ fire \in [Fires -> {"none", "lock", "close", "stop"}] /\ dpc \in [Dialers -> DialSteps]
    /\ mu \in Dialers \cup Fires \cup {None} /\ ec2 \in {"running", "stopping", "stopped"}
    /\ \A d \in Dialers : ipc[d] \in Initialising \cup Publishing <=> mu = d
    /\ \A f \in Fires : fire[f] \in {"close", "stop"} <=> mu = f
    /\ \A d \in Dialers : dpc[d] = "idle" => ipc[d] = "none"
    /\ ipc[Main] # "none" => phase = "eager" /\ ipc[Main] \notin {"finish", "fail", "replace", "spawned"}
    /\ phase \in {"flags", "merged", "eager"} =>
        /\ initDone = 1 /\ closed = {} /\ ~awsInitialized /\ timer = "off"
        /\ \A d \in Dialers : dpc[d] = "idle"
        /\ \A f \in Fires : fire[f] = "none"

\* The channel is closed after an initialisation, for a moment after a failed
\* one, and for good after the eager one, which leaves nobody to initialise.
LatchInv ==
    /\ initDone \in Nat \ {0} /\ closed \subseteq 1 .. initDone
    /\ \A c \in 1 .. initDone - 1 : c \in closed
    /\ awsInitialized => initDone \in closed /\ mu = None
    /\ \A d \in Dialers : ipc[d] = "replace" => initDone \in closed
    /\ initDone \in closed =>
        \/ awsInitialized
        \/ \E d \in Dialers : ipc[d] = "replace"
        \/ \A d \in Dialers : ipc[d] = "none"

\* An open backend is the manager's, and only an initialisation makes one.
BackendInv ==
    /\ NoLostBackend
    /\ \A p \in Dialers \cup {Main} :
        /\ ipc[p] \in Initialising => open = {}
        /\ ipc[p] \in Publishing /\ phase \in {"eager", "serving"} => backend \in open
        /\ ipc[p] = "finish" /\ phase = "serving" => served = backend
    /\ \A f \in Fires : fire[f] = "stop" => open = {}
    /\ (mu = None /\ ipc[Main] = "none" /\ initDone \notin closed) => open = {}
    /\ DialersHoldBackend

IndInv == MutexInv /\ LatchInv /\ BackendInv

-----------------------------------------------------------------------------

\* An instance that the idle timer stopped is started again by the next
\* initialisation, even without --auto-start (suspend, EnsureInitialized).
ResumeStartsInstance == byIdle => suspended \/ cfg.autoStart

\* A held connection is released, by success or error, if the channel it waits
\* on is the one that isInitialized found open.  (One that takes its channel
\* later waits for the next attempt, which nothing else may start.)
HeldIsReleased ==
    \A d \in Dialers : (dpc[d] = "wait" /\ waitCh[d] = seen[d]) ~> (dpc[d] # "wait" \/ ~Alive)

\* In lazy mode an idle timeout takes the backend down, even if it fires while
\* an initialisation holds the lock.  (In eager mode suspend does nothing.)
IdleSuspends ==
    \A f \in Fires : (fire[f] = "lock" /\ cfg.lazy) ~> (backend = 0 \/ ~Alive)

\* The first of the values, from the highest layer down, that is not blank.
Highest(values, blank) ==
    IF \A i \in DOMAIN values : values[i] = blank THEN blank
    ELSE values[CHOOSE i \in DOMAIN values :
                    values[i] # blank /\ \A j \in DOMAIN values : values[j] # blank => i <= j]

\* What the comment of Merge says of the layers d, p and c: the highest layer
\* that sets a value gives it, CLI over profile over defaults over built-in
\* (merge.go:88), where a section of an upstream proxy is one value that flags
\* change in part; patterns accumulate, hosts are overridden one by one and
\* --dns-server goes into every rule.
Documented(d, p, c, merged) ==
    LET section == Highest(<<p.upstream, d.upstream>>, Unset)
        Of(l)   == d.routing[l] \cup p.routing[l]
                   \cup (IF l \in DOMAIN c.routing THEN c.routing[l] ELSE {})
    IN  /\ \A f \in Scalars : merged[f] = Highest(<<c[f], p[f], d[f], BuiltIn[f]>>, Unset)
        /\ merged.autoStart = Highest(<<c.autoStart, p.autoStart>>, Unset)
        /\ merged.autoStop = Highest(<<c.autoStop, p.autoStop>>, Unset)
        /\ \A l \in Lists : merged.routing[l] = Of(l)
        /\ merged.routing.default =
            Highest(<<c.routing.default, p.routing.default, d.routing.default>>, NoRoute)
        /\ merged.upstream.url =
            IF section = Unset THEN c.upstream.url ELSE Highest(<<c.upstream.url, section.url>>, Unset)
        /\ \A h \in Hosts : ResolveHost(NewRouter(merged), h) =
               IF h \in DOMAIN p.routing.hosts THEN p.routing.hosts[h]
               ELSE IF h \in DOMAIN d.routing.hosts THEN d.routing.hosts[h] ELSE h
        /\ c.routing.servers # << >> =>
            /\ merged.routing.dns # << >>
            /\ \A i \in DOMAIN merged.routing.dns : merged.routing.dns[i].servers = c.routing.servers

\* The program runs with the documented configuration.
MergedAsDocumented == phase = "merged" => Documented(layers.d, layers.p, CLIFlags(layers.c), cfg)

=============================================================================
