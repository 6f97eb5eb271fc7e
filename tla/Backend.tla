-------------------------------- MODULE Backend --------------------------------
(***************************************************************************)
(* The connection state machine of internal/backend/ssm/backend.go.  Dial  *)
(* calls, credential updates, connect goroutines, connection monitors,     *)
(* DataChannel disconnect callbacks and Close run concurrently on one      *)
(* Backend.  b.state and b.sshClient are atomics, b.bridge is guarded by   *)
(* bridgeMu, b.dataChannel is a plain pointer: each access of one of them  *)
(* is a step of its own.                                                   *)
(*                                                                         *)
(* AWS, the SSH server and the network are external: what they answer is a *)
(* choice.  A connection attempt is identified by an element of Conns; the *)
(* net.Pipe bridge of its n-th SSH handshake, and the ssh.Client that runs *)
(* over that pipe, by <<c, n>>.  Identifiers nothing refers to are reused. *)
(***************************************************************************)
EXTENDS Naturals, FiniteSets

CONSTANTS
    Dialers,        \* callers of Backend.Dial
    Updaters,       \* callers of Backend.OnCredentialUpdate
    Closers,        \* callers of Backend.Close
    Procs,          \* bound: connect, monitor and callback goroutines at a time
    Conns,          \* bound: connection attempts referred to at a time
    MaxRetries,     \* maxRetries in connect
    SshMaxRetries,  \* sshMaxRetries
    AutoStartEC2,   \* config.AutoStartEC2, with an EC2 client
    Keepalive,      \* config.SSHKeepaliveInterval > 0
    Faults,         \* what fails: "drop", "remote_close", "ssh" and "stall", see below
    MaxFaults,      \* bound: how many of them
    None            \* nil

ASSUME BackendAssumption ==
    /\ MaxRetries \in Nat \ {0, 1}      \* it is 12: there is a pause between attempts
    /\ SshMaxRetries \in Nat \ {0} /\ MaxFaults \in Nat
    /\ AutoStartEC2 \in BOOLEAN /\ Keepalive \in BOOLEAN
    /\ Faults \subseteq {"drop", "remote_close", "ssh", "stall"}
    /\ None \notin Conns /\ None \notin Conns \X (1 .. SshMaxRetries)
    /\ Dialers \cap Updaters = {} /\ Closers \cap (Dialers \cup Updaters) = {}
    /\ Procs \cap (Dialers \cup Updaters \cup Closers) = {}

VARIABLES
    state,        \* b.state
    pc,           \* where each goroutine is
    after,        \* where it goes on after setState's broadcast
    woken,        \* the notification channel a waiting Dial holds is closed
    seen,         \* the state a caller has loaded
    conn,         \* dc of tryConnect, of a callback, and the one cleanup captured
    tun,          \* the bridge connectSSH works on; the client a monitor watches
    try,          \* attempt in connect
    ssh,          \* attempt in connectSSH
    dc,           \* each DataChannel: "new", "open", "broken" or "closed"
    dataChannel,  \* b.dataChannel
    bridge,       \* b.bridge
    pipes,        \* the bridges whose net.Pipe is open
    sshClient,    \* b.sshClient
    sessions,     \* SSM sessions of attempts that have not become active
    ctxDone,      \* b.ctx is cancelled
    faults,
    early         \* who was stabilizing when the pause of a connect began

vars == <<state, pc, after, woken, seen, conn, tun, try, ssh, dc, dataChannel,
          bridge, pipes, sshClient, sessions, ctxDone, faults, early>>

callVars == <<woken, seen>>
procVars == <<conn, tun, try, ssh>>
connVars == <<dc, dataChannel, bridge, pipes, sshClient, sessions>>
envVars  == <<ctxDone, faults, early>>

Callers == Dialers \cup Updaters
Actors  == Callers \cup Closers \cup Procs
Tunnels == Conns \X (1 .. SshMaxRetries)
States  == {"idle", "starting_ec2", "connecting", "handshaking", "active",
            "reconnecting", "error"}

Init ==
    /\ state = "idle"
    /\ pc = [a \in Actors |-> IF a \in Procs THEN "free" ELSE "ready"]
    /\ after = [a \in Actors |-> None]
    /\ woken = [d \in Dialers |-> FALSE]
    /\ seen = [a \in Callers |-> None]
    /\ conn = [a \in Procs \cup Closers |-> None]
    /\ tun = [p \in Procs |-> None]
    /\ try = [p \in Procs |-> 0] /\ ssh = [p \in Procs |-> 0]
    /\ dc = [c \in Conns |-> "new"]
    /\ dataChannel = None /\ bridge = None /\ pipes = {} /\ sshClient = None
    /\ sessions = {}
    /\ ctxDone = FALSE /\ faults = 0
    /\ early = [p \in Procs |-> {}]

-----------------------------------------------------------------------------
(* Helpers.                                                                *)

Goto(a, l) == pc' = [pc EXCEPT ![a] = l] /\ UNCHANGED after

\* A goroutine that returns; its locals go with it.
Return(p) ==
    /\ Goto(p, "free")
    /\ conn' = [conn EXCEPT ![p] = None] /\ tun' = [tun EXCEPT ![p] = None]
    /\ try' = [try EXCEPT ![p] = 0] /\ ssh' = [ssh EXCEPT ![p] = 0]

\* setState stores the state and then, under stateMu, replaces the
\* notification channel and closes the old one (Broadcast).
SetState(a, s, l) ==
    /\ state' = s
    /\ pc' = [pc EXCEPT ![a] = "broadcast"]
    /\ after' = [after EXCEPT ![a] = l]

Broadcast(a) ==
    /\ pc[a] = "broadcast"
    /\ woken' = [d \in Dialers |-> woken[d] \/ pc[d] = "wait"]
    /\ pc' = [pc EXCEPT ![a] = after[a]]
    /\ after' = [after EXCEPT ![a] = None]
    /\ UNCHANGED <<state, seen, procVars, connVars, envVars>>

\* clearBridge, and setBridge within installBridge.
ClearBridge  == bridge' = None /\ pipes' = pipes \ {bridge}
SetBridge(t) == bridge' = t /\ pipes' = (pipes \ {bridge}) \cup {t}

\* DataChannel.Close has no effect before Open.
Closed(c) == [dc EXCEPT ![c] = IF @ = "new" THEN "new" ELSE "closed"]

\* DataChannel.IsOpen: its context derives from b.ctx.
IsOpen(c) == dc[c] = "open" /\ ~ctxDone

\* The ssh.Client on tunnel t still has its pipe.
ClientUp(t) == t \in pipes

InUse(c) ==
    \/ dataChannel = c \/ dc[c] = "open"
    \/ \E a \in Procs \cup Closers : conn[a] = c
    \/ \E n \in 1 .. SshMaxRetries :
         \/ <<c, n>> \in pipes \cup {bridge, sshClient}
         \/ \E p \in Procs : tun[p] = <<c, n>>

-----------------------------------------------------------------------------
(* Dial and OnCredentialUpdate.                                            *)

LoadState(a) ==
    /\ pc[a] = "ready"
    /\ \/ /\ state = "idle" \/ (state = "error" /\ a \in Dialers)
          /\ seen' = [seen EXCEPT ![a] = state]
          /\ Goto(a, "cas")
       \/ /\ a \in Dialers
          /\ state \notin {"idle", "error"}
          /\ Goto(a, IF state = "active" THEN "load" ELSE "check")
          /\ UNCHANGED seen
    /\ UNCHANGED <<state, woken, procVars, connVars, envVars>>

\* Mutant: the state is stored without comparing it again.
CompareAndSwap_NoCompare(a) ==
    /\ pc[a] = "cas"
    /\ state' = "connecting"
    /\ seen' = [seen EXCEPT ![a] = None]
    /\ Goto(a, "won")
    /\ UNCHANGED <<woken, procVars, connVars, envVars>>

CompareAndSwap(a) ==
    /\ pc[a] = "cas"
    /\ IF state = seen[a]
       THEN state' = "connecting" /\ Goto(a, "won")
       ELSE UNCHANGED state /\ Goto(a, IF a \in Dialers THEN "check" ELSE "ready")
    /\ seen' = [seen EXCEPT ![a] = None]
    /\ UNCHANGED <<woken, procVars, connVars, envVars>>

AnnounceConnecting(a) ==
    /\ pc[a] = "won"
    /\ SetState(a, "connecting", "spawn")
    /\ UNCHANGED <<callVars, procVars, connVars, envVars>>

\* go b.connectWithEC2Start() from Dial, go b.connect() from OnCredentialUpdate
SpawnConnect(a, p) ==
    /\ pc[a] = "spawn" /\ pc[p] = "free"
    /\ pc' = [pc EXCEPT ![a] = IF a \in Dialers THEN "check" ELSE "ready",
                        ![p] = IF a \in Dialers /\ AutoStartEC2 THEN "ec2" ELSE "try"]
    /\ try' = [try EXCEPT ![p] = 1]
    /\ UNCHANGED <<state, after, callVars, conn, tun, ssh, connVars, envVars>>

\* The loop of waitForActiveWithTimeout: the state is loaded first, ...
CheckState(d) ==
    /\ pc[d] = "check"
    /\ Goto(d, IF state = "active" THEN "load" ELSE IF state = "error" THEN "ready" ELSE "get_chan")
    /\ UNCHANGED <<state, callVars, procVars, connVars, envVars>>

\* ... then the current notification channel is taken under stateMu.
GetWaitChan(d) ==
    /\ pc[d] = "get_chan"
    /\ woken' = [woken EXCEPT ![d] = FALSE]
    /\ Goto(d, "wait")
    /\ UNCHANGED <<state, seen, procVars, connVars, envVars>>

Wake(d) ==
    /\ pc[d] = "wait" /\ woken[d]
    /\ woken' = [woken EXCEPT ![d] = FALSE]
    /\ Goto(d, "check")
    /\ UNCHANGED <<state, seen, procVars, connVars, envVars>>

\* The timeout of six minutes, or the caller's context.
GiveUp(d) ==
    /\ pc[d] = "wait"
    /\ woken' = [woken EXCEPT ![d] = FALSE]
    /\ Goto(d, "ready")
    /\ UNCHANGED <<state, seen, procVars, connVars, envVars>>

\* Dial loads the client, fails if there is none, and otherwise dials over it
\* and returns; neither changes the backend.
UseClient(d) ==
    /\ pc[d] = "load"
    /\ Goto(d, "ready")
    /\ UNCHANGED <<state, callVars, procVars, connVars, envVars>>

-----------------------------------------------------------------------------
(* connectWithEC2Start.                                                    *)

StartEC2(p) ==
    /\ pc[p] = "ec2"
    /\ SetState(p, "starting_ec2", "instance")
    /\ UNCHANGED <<callVars, procVars, connVars, envVars>>

\* GetInstanceState, and StartAndWait for a stopped instance
InstanceStarted(p) ==
    /\ pc[p] = "instance"
    /\ \/ ~ctxDone /\ SetState(p, "connecting", "agent")
       \/ SetState(p, "error", "exit")
    /\ UNCHANGED <<callVars, procVars, connVars, envVars>>

WaitForSSMAgent(p) ==
    /\ pc[p] = "agent"
    /\ \/ ~ctxDone /\ Goto(p, "try") /\ UNCHANGED state
       \/ SetState(p, "error", "exit")
    /\ UNCHANGED <<callVars, procVars, connVars, envVars>>

Exit(p) ==
    /\ pc[p] = "exit"
    /\ Return(p)
    /\ UNCHANGED <<state, callVars, connVars, envVars>>

-----------------------------------------------------------------------------
(* connect and tryConnect.                                                 *)

StartSession(p) ==
    /\ pc[p] = "try"
    /\ \/ \E c \in Conns :
            /\ ~ctxDone /\ ~InUse(c)
            /\ conn' = [conn EXCEPT ![p] = c]
            /\ dc' = [dc EXCEPT ![c] = "new"]
            /\ sessions' = sessions \cup {c}
            /\ SetState(p, "handshaking", "assign")
       \/ Goto(p, "failed") /\ UNCHANGED <<state, conn, dc, sessions>>
    /\ UNCHANGED <<callVars, tun, try, ssh, dataChannel, bridge, pipes, sshClient, envVars>>

AssignDataChannel(p) ==
    /\ pc[p] = "assign"
    /\ dataChannel' = conn[p]
    /\ Goto(p, "open")
    /\ UNCHANGED <<state, callVars, procVars, dc, bridge, pipes, sshClient, sessions, envVars>>

\* Mutant: the session of a failed Open is forgotten.
OpenChannel_NoTerminate(p) ==
    /\ pc[p] = "open"
    /\ \/ /\ ~ctxDone
          /\ dc' = [dc EXCEPT ![conn[p]] = "open"]
          /\ Goto(p, "handshake")
       \/ Goto(p, "failed") /\ UNCHANGED dc
    /\ UNCHANGED <<state, callVars, procVars, dataChannel, bridge, pipes, sshClient, sessions,
                   envVars>>

\* dc.Open
OpenChannel(p) ==
    /\ pc[p] = "open"
    /\ \/ /\ ~ctxDone
          /\ dc' = [dc EXCEPT ![conn[p]] = "open"]
          /\ Goto(p, "handshake")
       \/ Goto(p, "terminate") /\ UNCHANGED dc
    /\ UNCHANGED <<state, callVars, procVars, dataChannel, bridge, pipes, sshClient, sessions,
                   envVars>>

\* SendJSON, then handshakeDone against the timeout and b.ctx.  A completed
\* handshake may be older than a break of the channel.
AwaitHandshake(p) ==
    /\ pc[p] = "handshake"
    /\ \/ Goto(p, "install") /\ ssh' = [ssh EXCEPT ![p] = 1]
       \/ Goto(p, "hang_up") /\ UNCHANGED ssh
    /\ UNCHANGED <<state, callVars, conn, tun, try, connVars, envVars>>

\* installBridge, first by tryConnect and then by each retry of connectSSH
InstallBridge(p) ==
    /\ pc[p] = "install"
    /\ SetBridge(<<conn[p], ssh[p]>>)
    /\ Goto(p, "get_bridge")
    /\ UNCHANGED <<state, callVars, procVars, dc, dataChannel, sshClient, sessions, envVars>>

\* connectSSH hands whatever is the current bridge to the SSH handshake.
GetBridge(p) ==
    /\ pc[p] = "get_bridge"
    /\ tun' = [tun EXCEPT ![p] = bridge]
    /\ Goto(p, IF bridge = None THEN "abandon" ELSE "shake")
    /\ UNCHANGED <<state, callVars, conn, try, ssh, connVars, envVars>>

\* ssh.NewClientConn succeeds on an open pipe to an open channel that no other
\* goroutine is using.
ShakeHands(p) ==
    /\ pc[p] = "shake"
    /\ tun[p] \in pipes /\ dc[tun[p][1]] = "open"
    /\ \A q \in Procs \ {p} : tun[q] # tun[p]
    /\ Goto(p, "shaken")
    /\ UNCHANGED <<state, callVars, procVars, connVars, envVars>>

StoreClient(p) ==
    /\ pc[p] = "shaken"
    /\ sshClient' = tun[p]
    /\ Goto(p, "stabilize")
    /\ UNCHANGED <<state, callVars, procVars, dc, dataChannel, bridge, pipes, sessions, envVars>>

\* The handshake fails, its timer fires (the current bridge is cleared) or
\* b.ctx is done (cleared too, and connectSSH returns).
ShakeFails(p) ==
    /\ pc[p] \in {"shake", "shaken"}
    /\ \/ pc[p] = "shake" /\ Goto(p, "retry") /\ UNCHANGED <<bridge, pipes>>
       \/ Goto(p, "retry") /\ ClearBridge
       \/ ctxDone /\ Goto(p, "abandon") /\ ClearBridge
    /\ tun' = [tun EXCEPT ![p] = None]
    /\ UNCHANGED <<state, callVars, conn, try, ssh, dc, dataChannel, sshClient, sessions, envVars>>

\* Mutant: one handshake too many.
RetrySSH_OffByOne(p) ==
    /\ pc[p] = "retry"
    /\ IF ssh[p] <= SshMaxRetries /\ IsOpen(conn[p])
       THEN /\ ssh' = [ssh EXCEPT ![p] = @ + 1]
            /\ Goto(p, "install")
            /\ UNCHANGED <<bridge, pipes>>
       ELSE /\ Goto(p, "abandon")
            /\ ClearBridge
            /\ UNCHANGED ssh
    /\ UNCHANGED <<state, callVars, conn, tun, try, dc, dataChannel, sshClient, sessions, envVars>>

RetrySSH(p) ==
    /\ pc[p] = "retry"
    /\ IF ssh[p] < SshMaxRetries /\ IsOpen(conn[p])
       THEN /\ ssh' = [ssh EXCEPT ![p] = @ + 1]
            /\ Goto(p, "install")
            /\ UNCHANGED <<bridge, pipes>>
       ELSE /\ Goto(p, "abandon")
            /\ ClearBridge
            /\ UNCHANGED ssh
    /\ UNCHANGED <<state, callVars, conn, tun, try, dc, dataChannel, sshClient, sessions, envVars>>

\* How an attempt ends that fails: clearBridge once there was one, dc.Close
\* once it was open, terminateSSMSession.
AbandonAttempt(p) ==
    /\ pc[p] = "abandon"
    /\ ClearBridge
    /\ Goto(p, "hang_up")
    /\ UNCHANGED <<state, callVars, procVars, dc, dataChannel, sshClient, sessions, envVars>>

HangUp(p) ==
    /\ pc[p] = "hang_up"
    /\ dc' = Closed(conn[p])
    /\ Goto(p, "terminate")
    /\ UNCHANGED <<state, callVars, procVars, dataChannel, bridge, pipes, sshClient, sessions,
                   envVars>>

TerminateSession(p) ==
    /\ pc[p] = "terminate"
    /\ sessions' = sessions \ {conn[p]}
    /\ Goto(p, "failed")
    /\ UNCHANGED <<state, callVars, procVars, dc, dataChannel, bridge, pipes, sshClient, envVars>>

Stabilizing(p) == {q \in Procs \ {p} : pc[q] = "stabilize"}

\* Mutant: connect gives up without saying so.
AttemptFailed_NoError(p) ==
    /\ pc[p] = "failed"
    /\ tun' = [tun EXCEPT ![p] = None]
    /\ conn' = [conn EXCEPT ![p] = None]
    /\ ssh' = [ssh EXCEPT ![p] = 0]
    /\ IF try[p] < MaxRetries
       THEN Goto(p, "pause") /\ early' = [early EXCEPT ![p] = Stabilizing(p)]
       ELSE Goto(p, "exit") /\ UNCHANGED early
    /\ UNCHANGED <<state, callVars, try, connVars, ctxDone, faults>>

\* connect pauses after an attempt that has failed, but for the last one.
AttemptFailed(p) ==
    /\ pc[p] = "failed"
    /\ tun' = [tun EXCEPT ![p] = None]
    /\ conn' = [conn EXCEPT ![p] = None]
    /\ ssh' = [ssh EXCEPT ![p] = 0]
    /\ IF try[p] < MaxRetries
       THEN Goto(p, "pause") /\ early' = [early EXCEPT ![p] = Stabilizing(p)] /\ UNCHANGED state
       ELSE SetState(p, "error", "exit") /\ UNCHANGED early
    /\ UNCHANGED <<callVars, try, connVars, ctxDone, faults>>

\* Its ten seconds outlast the half second of those that were in theirs.
NextAttempt(p) ==
    /\ pc[p] = "pause" /\ early[p] = {}
    /\ try' = [try EXCEPT ![p] = @ + 1]
    /\ Goto(p, "try")
    /\ UNCHANGED <<state, callVars, conn, tun, ssh, connVars, envVars>>

\* After the pause that lets SSM stabilize; then go b.monitorConnection().
BecomeActive(p) ==
    /\ pc[p] = "stabilize"
    /\ SetState(p, "active", "monitor")
    /\ sessions' = sessions \ {conn[p]}
    /\ early' = [q \in Procs |-> early[q] \ {p}]
    /\ UNCHANGED <<callVars, procVars, dc, dataChannel, bridge, pipes, sshClient, ctxDone, faults>>

-----------------------------------------------------------------------------
(* monitorConnection, handleDisconnect and triggerReconnect.               *)

\* The monitor watches the client that it finds; without one it returns.
LoadClient(p) ==
    /\ pc[p] = "monitor"
    /\ IF sshClient = None
       THEN Return(p)
       ELSE /\ tun' = [tun EXCEPT ![p] = sshClient]
            /\ conn' = [conn EXCEPT ![p] = None]
            /\ try' = [try EXCEPT ![p] = 0] /\ ssh' = [ssh EXCEPT ![p] = 0]
            /\ Goto(p, "watch")
    /\ UNCHANGED <<state, callVars, connVars, envVars>>

\* Mutant: only client.Wait is watched, keepalives are not sent.
MonitorSees_NoKeepalive(p) ==
    /\ pc[p] = "watch"
    /\ \/ /\ ~ClientUp(tun[p])
          /\ Goto(p, "trigger")
          /\ tun' = [tun EXCEPT ![p] = None]
          /\ UNCHANGED <<conn, try, ssh>>
       \/ ctxDone /\ Return(p)
    /\ UNCHANGED <<state, callVars, connVars, envVars>>

\* client.Wait returns once the pipe is closed; a keepalive goes unanswered
\* over a channel that is no longer open.  A done b.ctx may win the select.
MonitorSees(p) ==
    /\ pc[p] = "watch"
    /\ \/ /\ ~ClientUp(tun[p]) \/ (Keepalive /\ dc[tun[p][1]] # "open")
          /\ Goto(p, "trigger")
          /\ tun' = [tun EXCEPT ![p] = None]
          /\ UNCHANGED <<conn, try, ssh>>
       \/ ctxDone /\ Return(p)
    /\ UNCHANGED <<state, callVars, connVars, envVars>>

\* The receive goroutine after StartReceiving has returned: a closed channel,
\* or one whose context is done, was closed intentionally.
CheckIntentional(p) ==
    /\ pc[p] = "dropped"
    /\ IF dc[conn[p]] = "broken" /\ ~ctxDone
       THEN Goto(p, "handle") /\ conn' = [conn EXCEPT ![p] = None] /\ UNCHANGED <<tun, try, ssh>>
       ELSE Return(p)
    /\ UNCHANGED <<state, callVars, connVars, envVars>>

HandleDisconnect(p) ==
    /\ pc[p] = "handle"
    /\ IF state \in {"handshaking", "active"}
       THEN Goto(p, IF state = "active" THEN "trigger" ELSE "hangup") /\ UNCHANGED procVars
       ELSE Return(p)
    /\ UNCHANGED <<state, callVars, connVars, envVars>>

\* Mutant: the client is dropped as well, as cleanup would.
HangUpBridge_DropsClient(p) ==
    /\ pc[p] = "hangup"
    /\ ClearBridge
    /\ sshClient' = None
    /\ Goto(p, "hangup_dc")
    /\ UNCHANGED <<state, callVars, procVars, dc, dataChannel, sessions, envVars>>

\* During the SSH handshake: clearBridge, then Close of b.dataChannel.
HangUpBridge(p) ==
    /\ pc[p] = "hangup"
    /\ ClearBridge
    /\ Goto(p, "hangup_dc")
    /\ UNCHANGED <<state, callVars, procVars, dc, dataChannel, sshClient, sessions, envVars>>

HangUpChannel(p) ==
    /\ pc[p] = "hangup_dc"
    /\ dc' = IF dataChannel = None THEN dc ELSE Closed(dataChannel)
    /\ Return(p)
    /\ UNCHANGED <<state, callVars, dataChannel, bridge, pipes, sshClient, sessions, envVars>>

TriggerReconnect(p) ==
    /\ pc[p] = "trigger"
    /\ IF state \in {"reconnecting", "connecting"} THEN Return(p)
       ELSE Goto(p, "reset") /\ UNCHANGED procVars
    /\ UNCHANGED <<state, callVars, connVars, envVars>>

ResetState(p) ==
    /\ pc[p] = "reset"
    /\ SetState(p, "reconnecting", "swap_client")
    /\ UNCHANGED <<callVars, procVars, connVars, envVars>>

Reconnect(p) ==
    /\ pc[p] = "reconnect"
    /\ SetState(p, "connecting", "try")
    /\ try' = [try EXCEPT ![p] = 1]
    /\ UNCHANGED <<callVars, conn, tun, ssh, connVars, envVars>>

-----------------------------------------------------------------------------
(* cleanup, by triggerReconnect and by Close; Close.                       *)

Close(a) ==
    /\ pc[a] = "ready"
    /\ ctxDone' = TRUE
    /\ Goto(a, "swap_client")
    /\ UNCHANGED <<state, callVars, procVars, connVars, faults, early>>

SwapClient(a) ==
    /\ pc[a] = "swap_client"
    /\ sshClient' = None
    /\ pipes' = pipes \ {sshClient}
    /\ Goto(a, "clear_bridge")
    /\ UNCHANGED <<state, callVars, procVars, dc, dataChannel, bridge, sessions, envVars>>

CleanBridge(a) ==
    /\ pc[a] = "clear_bridge"
    /\ ClearBridge
    /\ Goto(a, "load_dc")
    /\ UNCHANGED <<state, callVars, procVars, dc, dataChannel, sshClient, sessions, envVars>>

LoadDataChannel(a) ==
    /\ pc[a] = "load_dc"
    /\ conn' = [conn EXCEPT ![a] = dataChannel]
    /\ Goto(a, IF dataChannel # None THEN "close_dc" ELSE IF a \in Procs THEN "reconnect" ELSE "done")
    /\ UNCHANGED <<state, callVars, tun, try, ssh, connVars, envVars>>

CloseDataChannel(a) ==
    /\ pc[a] = "close_dc"
    /\ dataChannel' = None
    /\ dc' = Closed(conn[a])
    /\ conn' = [conn EXCEPT ![a] = None]
    /\ Goto(a, IF a \in Procs THEN "reconnect" ELSE "done")
    /\ UNCHANGED <<state, callVars, tun, try, ssh, bridge, pipes, sshClient, sessions, envVars>>

-----------------------------------------------------------------------------
(* What fails: a WebSocket that drops, a session that the service closes, an *)
(* SSH connection that ends (its mux closes the pipe), a keepalive that gets *)
(* no answer although the channel is open.                                   *)

Drop(c, p) ==
    /\ "drop" \in Faults /\ faults < MaxFaults
    /\ dc[c] = "open" /\ pc[p] = "free"
    /\ dc' = [dc EXCEPT ![c] = "broken"]
    /\ conn' = [conn EXCEPT ![p] = c]
    /\ Goto(p, "dropped")
    /\ faults' = faults + 1
    /\ UNCHANGED <<state, callVars, tun, try, ssh, dataChannel, bridge, pipes, sshClient,
                   sessions, ctxDone, early>>

\* The channel_closed message: the DataChannel closes itself.
RemoteClose(c) ==
    /\ "remote_close" \in Faults /\ faults < MaxFaults
    /\ dc[c] = "open"
    /\ dc' = [dc EXCEPT ![c] = "closed"]
    /\ faults' = faults + 1
    /\ UNCHANGED <<state, pc, after, callVars, procVars, dataChannel, bridge, pipes, sshClient,
                   sessions, ctxDone, early>>

SshEnds(t) ==
    /\ "ssh" \in Faults /\ faults < MaxFaults
    /\ t = sshClient /\ t \in pipes
    /\ pipes' = pipes \ {t}
    /\ faults' = faults + 1
    /\ UNCHANGED <<state, pc, after, callVars, procVars, dc, dataChannel, bridge, sshClient,
                   sessions, ctxDone, early>>

KeepaliveStalls(p) ==
    /\ "stall" \in Faults /\ faults < MaxFaults
    /\ Keepalive /\ pc[p] = "watch"
    /\ Goto(p, "trigger")
    /\ tun' = [tun EXCEPT ![p] = None]
    /\ faults' = faults + 1
    /\ UNCHANGED <<state, callVars, conn, try, ssh, connVars, ctxDone, early>>

-----------------------------------------------------------------------------

Caller(a) ==
    \/ LoadState(a) \/ CompareAndSwap(a) \/ AnnounceConnecting(a)
    \/ \E p \in Procs : SpawnConnect(a, p)

Dialer(d) == CheckState(d) \/ GetWaitChan(d) \/ Wake(d) \/ GiveUp(d) \/ UseClient(d)

Connector(p) ==
    \/ StartEC2(p) \/ InstanceStarted(p) \/ WaitForSSMAgent(p) \/ Exit(p)
    \/ StartSession(p) \/ AssignDataChannel(p) \/ OpenChannel(p) \/ AwaitHandshake(p)
    \/ InstallBridge(p) \/ GetBridge(p) \/ ShakeHands(p) \/ StoreClient(p)
    \/ ShakeFails(p) \/ RetrySSH(p) \/ AbandonAttempt(p) \/ HangUp(p) \/ TerminateSession(p)
    \/ AttemptFailed(p) \/ NextAttempt(p) \/ BecomeActive(p)

Monitor(p) == LoadClient(p) \/ MonitorSees(p)

Callback(p) ==
    CheckIntentional(p) \/ HandleDisconnect(p) \/ HangUpBridge(p) \/ HangUpChannel(p)

Trigger(p) == TriggerReconnect(p) \/ ResetState(p) \/ Reconnect(p)

Cleanup(a) == SwapClient(a) \/ CleanBridge(a) \/ LoadDataChannel(a) \/ CloseDataChannel(a)

Proc(p) == Connector(p) \/ Monitor(p) \/ Callback(p) \/ Trigger(p) \/ Cleanup(p)

Network ==
    \/ \E c \in Conns : RemoteClose(c) \/ \E p \in Procs : Drop(c, p)
    \/ \E t \in Tunnels : SshEnds(t)
    \/ \E p \in Procs : KeepaliveStalls(p)

Next ==
    \/ \E a \in Actors : Broadcast(a)
    \/ \E a \in Callers : Caller(a)
    \/ \E d \in Dialers : Dialer(d)
    \/ \E p \in Procs : Proc(p)
    \/ \E a \in Closers : Close(a) \/ Cleanup(a)
    \/ Network

Spec == Init /\ [][Next]_vars

\* Runnable goroutines run, and every wait inside tryConnect, connectSSH and a
\* Dial has a timeout; nobody has to call Dial, OnCredentialUpdate or Close.
Fairness ==
    /\ \A p \in Procs : WF_vars(Broadcast(p) \/ Proc(p))
    /\ \A a \in Callers : WF_vars(Broadcast(a) \/ (pc[a] # "ready" /\ Caller(a)))
    /\ \A d \in Dialers : WF_vars(Dialer(d))
    /\ \A a \in Closers : WF_vars(Cleanup(a))

FairSpec == Spec /\ Fairness

-----------------------------------------------------------------------------
(* Properties.                                                             *)

\* Every variable keeps the type of the Go field or local it stands for.
TypeOK ==
    /\ state \in States
    /\ DOMAIN pc = Actors /\ DOMAIN after = Actors
    /\ woken \in [Dialers -> BOOLEAN]
    /\ seen \in [Callers -> States \cup {None}]
    /\ conn \in [Procs \cup Closers -> Conns \cup {None}]
    /\ tun \in [Procs -> Tunnels \cup {None}]
    /\ try \in [Procs -> 0 .. MaxRetries] /\ ssh \in [Procs -> 0 .. SshMaxRetries]
    /\ dc \in [Conns -> {"new", "open", "broken", "closed"}]
    /\ dataChannel \in Conns \cup {None}
    /\ bridge \in Tunnels \cup {None} /\ sshClient \in Tunnels \cup {None}
    /\ pipes \subseteq Tunnels
    /\ sessions \subseteq Conns
    /\ ctxDone \in BOOLEAN /\ faults \in 0 .. MaxFaults
    /\ early \in [Procs -> SUBSET Procs]

ConnectLabels ==
    {"ec2", "instance", "agent", "try", "assign", "open", "handshake", "install", "get_bridge",
     "shake", "shaken", "retry", "abandon", "hang_up", "terminate", "failed", "pause", "stabilize"}

\* p is a connect goroutine that has not reached its verdict yet.
Connecting(p) ==
    pc[p] \in ConnectLabels \/ (pc[p] = "broadcast" /\ after[p] \in ConnectLabels)

\* "Uses CAS to ensure only one goroutine transitions" (triggerReconnect, and
\* likewise Dial and OnCredentialUpdate): two goroutines never establish a
\* connection at the same time, since they share b.dataChannel, b.bridge and
\* b.sshClient.
OneConnector ==
    \A p, q \in Procs : Connecting(p) /\ Connecting(q) => p = q

\* A goroutine is about to replace the connection, or is doing so.
Repairing(p) ==
    \/ Connecting(p)
    \/ pc[p] \in {"reset", "swap_client", "clear_bridge", "load_dc", "close_dc", "reconnect"}
    \/ pc[p] = "broadcast" /\ after[p] = "swap_client"

\* Dial relies on it: an active backend has an SSH client, unless it was
\* closed or a goroutine is on its way to a new one.
ActiveHasClient ==
    state = "active" => sshClient # None \/ ctxDone \/ \E p \in Procs : Repairing(p)

\* Every way out of tryConnect terminates the session of the attempt it gives
\* up, so that no session is left to contend with the next one.
NoStraySession ==
    \A c \in sessions : \E p \in Procs : Connecting(p) /\ conn[p] = c

\* Every connection attempt ends: the backend comes to rest as active or as
\* failed, whatever the order of disconnects, monitors and retries.
Settles ==
    state \notin {"idle", "active", "error"} ~> state \in {"active", "error"}

\* A tunnel that has died under an active backend is noticed, also when it
\* died before the backend announced it as active.
DeadTunnelIsNoticed ==
    (state = "active" /\ sshClient # None /\ ~ctxDone
       /\ (sshClient \notin pipes \/ dc[sshClient[1]] # "open"))
    ~> (state # "active" \/ ctxDone \/ (sshClient \in pipes /\ dc[sshClient[1]] = "open"))

=============================================================================
