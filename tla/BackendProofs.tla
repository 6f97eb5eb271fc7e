---------------------------- MODULE BackendProofs ----------------------------
(* Proofs about the connection state machine, for any number of callers and  *)
(* goroutines, of attempts and of faults.                                    *)
EXTENDS Backend, TLAPS

USE DEF Actors, Callers

-----------------------------------------------------------------------------
(* The inductive invariants.                                                 *)

\* Where a goroutine is, whether or not it has to close the notification
\* channel of its setState first.
At(a) == IF pc[a] = "broadcast" THEN after[a] ELSE pc[a]

\* From the session of an attempt to its end; those of connectSSH.
SSHLabels     == {"install", "get_bridge", "shake", "shaken", "retry"}
AttemptLabels == SSHLabels \cup {"assign", "open", "handshake", "abandon", "hang_up", "terminate"}

TypeInv ==
    /\ TypeOK
    /\ \A p \in Procs :
        /\ pc[p] = "broadcast" => after[p] \in {"instance", "agent", "exit", "assign", "monitor",
                                                "swap_client", "try"}
        /\ At(p) \in AttemptLabels => conn[p] \in Conns
        /\ pc[p] \in SSHLabels => ssh[p] \in 1 .. SshMaxRetries
        /\ pc[p] = "shaken" => tun[p] \in Tunnels
        /\ pc[p] = "pause" => try[p] < MaxRetries

\* A goroutine that has no attempt under way holds no session.
SessionInv ==
    /\ NoStraySession
    /\ \A p \in Procs : At(p) \in {"free", "ec2", "instance", "agent", "try", "failed", "pause", "exit", "reconnect"}
                            => conn[p] \notin sessions

\* p replaces the client and has not found one yet.
CleanupLabels == {"swap_client", "clear_bridge", "load_dc", "close_dc", "reconnect"}
Fixing(p) == At(p) \in AttemptLabels \cup CleanupLabels \cup {"try", "failed", "pause"}

\* p will not give up before q, which stabilizes, has announced its connection:
\* it has a pause ahead of it, or is in one that began after q's.
Patient(p, q) ==
    /\ Fixing(p)
    /\ \/ At(p) \in CleanupLabels
       \/ pc[p] # "pause" /\ try[p] < MaxRetries
       \/ pc[p] = "pause" /\ q \in early[p]

\* A goroutine that is about to announce a connection has put a client there,
\* and only one that will replace it, patiently, or Close takes it away.
ClientInv ==
    /\ state = "active" => sshClient # None \/ ctxDone \/ \E p \in Procs : Fixing(p)
    /\ \A q \in Procs :
        pc[q] = "stabilize" => sshClient # None \/ ctxDone \/ \E p \in Procs : Patient(p, q)
    /\ \A a \in Closers : pc[a] # "ready" => ctxDone

\* The right to start or repair the connection: a caller has it that has won
\* the compare-and-swap, then the connect goroutine, then the monitor.
InCharge(a) ==
    \/ a \in Callers /\ At(a) \in {"won", "spawn"}
    \/ a \in Procs /\ At(a) \in ConnectLabels \cup
         {"monitor", "watch", "trigger", "reset", "swap_client", "clear_bridge", "load_dc", "close_dc",
          "reconnect"}

\* One of them has it at most, and none while a caller may take it.
ChargeInv ==
    /\ \A a, b \in Callers \cup Procs : InCharge(a) /\ InCharge(b) => a = b
    /\ \A a \in Callers \cup Procs : InCharge(a) => state \notin {"idle", "error"}
    /\ \A a \in Callers :
        /\ pc[a] = "broadcast" => after[a] = "spawn"
        /\ pc[a] = "cas" => seen[a] \in {"idle", "error"}
    /\ \A p \in Procs : pc[p] \notin {"dropped", "handle", "hangup", "hangup_dc"}

-----------------------------------------------------------------------------
(* Every step preserves them.                                                *)

LEMMA TypeInit == Init => TypeInv
<1> SUFFICES ASSUME Init PROVE TypeInv
  OBVIOUS
<1>1. TypeOK
  <2>1. /\ try \in [Procs -> 0 .. MaxRetries] /\ ssh \in [Procs -> 0 .. SshMaxRetries]
        /\ faults \in 0 .. MaxFaults
    BY BackendAssumption DEF Init
  <2>2. /\ state \in States /\ seen \in [Callers -> States \cup {None}]
        /\ DOMAIN pc = Actors /\ DOMAIN after = Actors /\ woken \in [Dialers -> BOOLEAN]
    BY DEF Init, States
  <2> QED
    BY <2>1, <2>2 DEF Init, TypeOK
<1>2. ASSUME NEW p \in Procs PROVE pc[p] = "free" /\ At(p) = "free"
  BY DEF Init, At
<1> QED
  BY <1>1, <1>2 DEF TypeInv, AttemptLabels, SSHLabels

LEMMA TypeStep == TypeInv /\ [Next]_vars => TypeInv'
<1> SUFFICES ASSUME TypeInv, [Next]_vars PROVE TypeInv'
  OBVIOUS
<1> USE BackendAssumption
    DEF TypeInv, TypeOK, At, States, AttemptLabels, SSHLabels, Tunnels, Goto, Return, SetState, Closed,
        ClearBridge, SetBridge, callVars, procVars, connVars, envVars
<1>1. ASSUME NEW a \in Actors, Broadcast(a) PROVE TypeInv'
  BY <1>1 DEF Broadcast
<1>2. ASSUME NEW a \in Callers, Caller(a) PROVE TypeInv'
  <2>1. CASE LoadState(a)
    BY <2>1 DEF LoadState
  <2>2. CASE CompareAndSwap(a)
    BY <2>2 DEF CompareAndSwap
  <2>3. CASE AnnounceConnecting(a)
    BY <2>3 DEF AnnounceConnecting
  <2>4. ASSUME NEW p \in Procs, SpawnConnect(a, p) PROVE TypeInv'
    BY <2>4 DEF SpawnConnect
  <2> QED
    BY <1>2, <2>1, <2>2, <2>3, <2>4 DEF Caller
<1>3. ASSUME NEW d \in Dialers, Dialer(d) PROVE TypeInv'
  <2>1. CASE CheckState(d)
    BY <2>1 DEF CheckState
  <2>2. CASE GetWaitChan(d)
    BY <2>2 DEF GetWaitChan
  <2>3. CASE Wake(d)
    BY <2>3 DEF Wake
  <2>4. CASE GiveUp(d)
    BY <2>4 DEF GiveUp
  <2>5. CASE UseClient(d)
    BY <2>5 DEF UseClient
  <2> QED
    BY <1>3, <2>1, <2>2, <2>3, <2>4, <2>5 DEF Dialer
<1>4. ASSUME NEW a \in Procs \cup Closers, Cleanup(a) PROVE TypeInv'
  <2>1. CASE SwapClient(a)
    BY <2>1 DEF SwapClient
  <2>2. CASE CleanBridge(a)
    BY <2>2 DEF CleanBridge
  <2>3. CASE LoadDataChannel(a)
    BY <2>3 DEF LoadDataChannel
  <2>4. CASE CloseDataChannel(a)
    <3>1. TypeOK'
      BY <2>4 DEF CloseDataChannel
    <3>2. \A p \in Procs \ {a} : /\ pc'[p] = pc[p] /\ after'[p] = after[p]
                                 /\ conn'[p] = conn[p] /\ ssh'[p] = ssh[p] /\ tun'[p] = tun[p]
                                 /\ try'[p] = try[p]
      BY <2>4 DEF CloseDataChannel
    <3>3. a \in Procs => pc'[a] = "reconnect"
      BY <2>4 DEF CloseDataChannel
    <3> QED
      BY <3>1, <3>2, <3>3
  <2> QED
    BY <1>4, <2>1, <2>2, <2>3, <2>4 DEF Cleanup
<1>5. ASSUME NEW p \in Procs, Connector(p) PROVE TypeInv'
  <2>1. CASE StartEC2(p)
    BY <2>1 DEF StartEC2
  <2>2. CASE InstanceStarted(p)
    BY <2>2 DEF InstanceStarted
  <2>3. CASE WaitForSSMAgent(p)
    BY <2>3 DEF WaitForSSMAgent
  <2>4. CASE Exit(p)
    BY <2>4 DEF Exit
  <2>5. CASE StartSession(p)
    <3>1. CASE \E c \in Conns : conn' = [conn EXCEPT ![p] = c] /\ dc' = [dc EXCEPT ![c] = "new"]
                               /\ sessions' = sessions \cup {c} /\ SetState(p, "handshaking", "assign")
      BY <2>5, <3>1 DEF StartSession
    <3>2. CASE Goto(p, "failed") /\ UNCHANGED <<state, conn, dc, sessions>>
      BY <2>5, <3>2 DEF StartSession
    <3> QED
      BY <2>5, <3>1, <3>2 DEF StartSession
  <2>6. CASE AssignDataChannel(p)
    BY <2>6 DEF AssignDataChannel
  <2>7. CASE OpenChannel(p)
    BY <2>7 DEF OpenChannel
  <2>8. CASE AwaitHandshake(p)
    BY <2>8 DEF AwaitHandshake
  <2>9. CASE InstallBridge(p)
    BY <2>9 DEF InstallBridge
  <2>10. CASE GetBridge(p)
    BY <2>10 DEF GetBridge
  <2>11. CASE ShakeHands(p)
    BY <2>11 DEF ShakeHands
  <2>12. CASE StoreClient(p)
    BY <2>12 DEF StoreClient
  <2>13. CASE ShakeFails(p)
    BY <2>13 DEF ShakeFails
  <2>14. CASE RetrySSH(p)
    BY <2>14 DEF RetrySSH
  <2>15. CASE AbandonAttempt(p)
    BY <2>15 DEF AbandonAttempt
  <2>16. CASE HangUp(p)
    BY <2>16 DEF HangUp
  <2>17. CASE TerminateSession(p)
    BY <2>17 DEF TerminateSession
  <2>18. CASE AttemptFailed(p)
    <3>1. TypeOK'
      BY <2>18 DEF AttemptFailed, Stabilizing
    <3>2. try' = try
      BY <2>18 DEF AttemptFailed
    <3> QED
      BY <2>18, <3>1, <3>2 DEF AttemptFailed
  <2>19. CASE NextAttempt(p)
    BY <2>19 DEF NextAttempt
  <2>20. CASE BecomeActive(p)
    BY <2>20 DEF BecomeActive
  <2> QED
    BY <1>5, <2>1, <2>2, <2>3, <2>4, <2>5, <2>6, <2>7, <2>8, <2>9, <2>10,
       <2>11, <2>12, <2>13, <2>14, <2>15, <2>16, <2>17, <2>18, <2>19, <2>20 DEF Connector
<1>6. ASSUME NEW p \in Procs, Monitor(p) \/ Callback(p) \/ Trigger(p) PROVE TypeInv'
  <2>1. CASE LoadClient(p)
    <3>1. CASE sshClient = None
      BY <2>1, <3>1 DEF LoadClient
    <3>2. CASE sshClient # None
      BY <2>1, <3>2 DEF LoadClient
    <3> QED
      BY <3>1, <3>2
  <2>2. CASE MonitorSees(p)
    BY <2>2 DEF MonitorSees
  <2>3. CASE CheckIntentional(p)
    BY <2>3 DEF CheckIntentional
  <2>4. CASE HandleDisconnect(p)
    BY <2>4 DEF HandleDisconnect
  <2>5. CASE HangUpBridge(p)
    BY <2>5 DEF HangUpBridge
  <2>6. CASE HangUpChannel(p)
    BY <2>6 DEF HangUpChannel
  <2>7. CASE TriggerReconnect(p)
    BY <2>7 DEF TriggerReconnect
  <2>8. CASE ResetState(p)
    BY <2>8 DEF ResetState
  <2>9. CASE Reconnect(p)
    BY <2>9 DEF Reconnect
  <2> QED
    BY <1>6, <2>1, <2>2, <2>3, <2>4, <2>5, <2>6, <2>7, <2>8, <2>9 DEF Monitor, Callback, Trigger
<1>7. ASSUME NEW a \in Closers, Close(a) PROVE TypeInv'
  BY <1>7 DEF Close
<1>8. ASSUME NEW c \in Conns, RemoteClose(c) PROVE TypeInv'
  BY <1>8 DEF RemoteClose
<1>9. ASSUME NEW c \in Conns, NEW p \in Procs, Drop(c, p) PROVE TypeInv'
  BY <1>9 DEF Drop
<1>10. ASSUME NEW t \in Tunnels, SshEnds(t) PROVE TypeInv'
  BY <1>10 DEF SshEnds
<1>11. ASSUME NEW p \in Procs, KeepaliveStalls(p) PROVE TypeInv'
  BY <1>11 DEF KeepaliveStalls
<1>12. CASE UNCHANGED vars
  BY <1>12 DEF vars
<1> QED
  BY <1>1, <1>2, <1>3, <1>4, <1>5, <1>6, <1>7, <1>8, <1>9, <1>10, <1>11, <1>12 DEF Next, Proc, Network

\* A session ends with its attempt; StartSession picks one that nobody uses.
LEMMA SessionStep == TypeInv /\ SessionInv /\ [Next]_vars => SessionInv'
<1> SUFFICES ASSUME TypeInv, SessionInv, [Next]_vars PROVE SessionInv'
  OBVIOUS
<1> USE BackendAssumption
    DEF TypeInv, TypeOK, SessionInv, NoStraySession, Connecting, ConnectLabels, At,
        Goto, Return, SetState, Closed, ClearBridge, SetBridge, callVars, procVars, connVars, envVars
<1>1. ASSUME NEW a \in Actors, Broadcast(a) PROVE SessionInv'
  BY <1>1 DEF Broadcast
<1>2. ASSUME NEW a \in Callers, Caller(a) PROVE SessionInv'
  <2>1. CASE LoadState(a)
    BY <2>1 DEF LoadState
  <2>2. CASE CompareAndSwap(a)
    BY <2>2 DEF CompareAndSwap
  <2>3. CASE AnnounceConnecting(a)
    BY <2>3 DEF AnnounceConnecting
  <2>4. ASSUME NEW p \in Procs, SpawnConnect(a, p) PROVE SessionInv'
    BY <2>4 DEF SpawnConnect
  <2> QED
    BY <1>2, <2>1, <2>2, <2>3, <2>4 DEF Caller
<1>3. ASSUME NEW d \in Dialers, Dialer(d) PROVE SessionInv'
  BY <1>3 DEF Dialer, CheckState, GetWaitChan, Wake, GiveUp, UseClient
<1>4. ASSUME NEW a \in Procs \cup Closers, Cleanup(a) PROVE SessionInv'
  <2>1. CASE SwapClient(a)
    BY <2>1 DEF SwapClient
  <2>2. CASE CleanBridge(a)
    BY <2>2 DEF CleanBridge
  <2>3. CASE LoadDataChannel(a)
    BY <2>3 DEF LoadDataChannel
  <2>4. CASE CloseDataChannel(a)
    BY <2>4 DEF CloseDataChannel
  <2> QED
    BY <1>4, <2>1, <2>2, <2>3, <2>4 DEF Cleanup
<1>5. ASSUME NEW p \in Procs, Connector(p) PROVE SessionInv'
  <2>1. CASE StartEC2(p)
    BY <2>1 DEF StartEC2
  <2>2. CASE InstanceStarted(p)
    BY <2>2 DEF InstanceStarted
  <2>3. CASE WaitForSSMAgent(p)
    BY <2>3 DEF WaitForSSMAgent
  <2>4. CASE Exit(p)
    BY <2>4 DEF Exit
  <2>5. CASE StartSession(p)
    <3>1. ASSUME NEW c \in Conns, ~InUse(c), conn' = [conn EXCEPT ![p] = c], dc' = [dc EXCEPT ![c] = "new"],
                 sessions' = sessions \cup {c}, SetState(p, "handshaking", "assign")
          PROVE  SessionInv'
      <4>1. \A q \in Procs : conn[q] # c
        BY <3>1 DEF InUse
      <4> QED
        BY <2>5, <3>1, <4>1 DEF StartSession
    <3>2. CASE Goto(p, "failed") /\ UNCHANGED <<state, conn, dc, sessions>>
      BY <2>5, <3>2 DEF StartSession
    <3> QED
      BY <2>5, <3>1, <3>2 DEF StartSession
  <2>6. CASE AssignDataChannel(p)
    BY <2>6 DEF AssignDataChannel
  <2>7. CASE OpenChannel(p)
    BY <2>7 DEF OpenChannel
  <2>8. CASE AwaitHandshake(p)
    BY <2>8 DEF AwaitHandshake
  <2>9. CASE InstallBridge(p)
    BY <2>9 DEF InstallBridge
  <2>10. CASE GetBridge(p)
    BY <2>10 DEF GetBridge
  <2>11. CASE ShakeHands(p)
    BY <2>11 DEF ShakeHands
  <2>12. CASE StoreClient(p)
    BY <2>12 DEF StoreClient
  <2>13. CASE ShakeFails(p)
    BY <2>13 DEF ShakeFails
  <2>14. CASE RetrySSH(p)
    BY <2>14 DEF RetrySSH
  <2>15. CASE AbandonAttempt(p)
    BY <2>15 DEF AbandonAttempt
  <2>16. CASE HangUp(p)
    BY <2>16 DEF HangUp
  <2>17. CASE TerminateSession(p)
    BY <2>17 DEF TerminateSession
  <2>18. CASE AttemptFailed(p)
    BY <2>18 DEF AttemptFailed
  <2>19. CASE NextAttempt(p)
    BY <2>19 DEF NextAttempt
  <2>20. CASE BecomeActive(p)
    BY <2>20 DEF BecomeActive
  <2> QED
    BY <1>5, <2>1, <2>2, <2>3, <2>4, <2>5, <2>6, <2>7, <2>8, <2>9, <2>10,
       <2>11, <2>12, <2>13, <2>14, <2>15, <2>16, <2>17, <2>18, <2>19, <2>20 DEF Connector
<1>6. ASSUME NEW p \in Procs, Monitor(p) \/ Callback(p) \/ Trigger(p) PROVE SessionInv'
  <2>1. CASE LoadClient(p)
    BY <2>1 DEF LoadClient
  <2>2. CASE MonitorSees(p)
    BY <2>2 DEF MonitorSees
  <2>3. CASE CheckIntentional(p)
    BY <2>3 DEF CheckIntentional
  <2>4. CASE HandleDisconnect(p)
    BY <2>4 DEF HandleDisconnect
  <2>5. CASE HangUpBridge(p)
    BY <2>5 DEF HangUpBridge
  <2>6. CASE HangUpChannel(p)
    BY <2>6 DEF HangUpChannel
  <2>7. CASE TriggerReconnect(p)
    BY <2>7 DEF TriggerReconnect
  <2>8. CASE ResetState(p)
    BY <2>8 DEF ResetState
  <2>9. CASE Reconnect(p)
    BY <2>9 DEF Reconnect
  <2> QED
    BY <1>6, <2>1, <2>2, <2>3, <2>4, <2>5, <2>6, <2>7, <2>8, <2>9 DEF Monitor, Callback, Trigger
<1>7. ASSUME NEW a \in Closers, Close(a) PROVE SessionInv'
  BY <1>7 DEF Close
<1>8. ASSUME NEW c \in Conns, RemoteClose(c) PROVE SessionInv'
  BY <1>8 DEF RemoteClose
<1>9. ASSUME NEW c \in Conns, NEW p \in Procs, Drop(c, p) PROVE SessionInv'
  BY <1>9 DEF Drop
<1>10. ASSUME NEW t \in Tunnels, SshEnds(t) PROVE SessionInv'
  BY <1>10 DEF SshEnds
<1>11. ASSUME NEW p \in Procs, KeepaliveStalls(p) PROVE SessionInv'
  BY <1>11 DEF KeepaliveStalls
<1>12. CASE UNCHANGED vars
  BY <1>12 DEF vars
<1> QED
  BY <1>1, <1>2, <1>3, <1>4, <1>5, <1>6, <1>7, <1>8, <1>9, <1>10, <1>11, <1>12 DEF Next, Proc, Network

\* Whoever takes the client away from a goroutine that stabilizes pauses at
\* least once before it gives up, and by then the other has announced itself.
LEMMA ClientStep == TypeInv /\ ClientInv /\ [Next]_vars => ClientInv'
<1> SUFFICES ASSUME TypeInv, ClientInv, [Next]_vars PROVE ClientInv'
  OBVIOUS
<1> USE BackendAssumption
    DEF TypeInv, TypeOK, ClientInv, Fixing, Patient, CleanupLabels, At, AttemptLabels, SSHLabels, Stabilizing,
        Goto, Return, SetState, Closed, ClearBridge, SetBridge, callVars, procVars, connVars, envVars
<1>1. ASSUME NEW a \in Actors, Broadcast(a) PROVE ClientInv'
  BY <1>1 DEF Broadcast
<1>2. ASSUME NEW a \in Callers, Caller(a) PROVE ClientInv'
  <2>1. CASE LoadState(a)
    BY <2>1 DEF LoadState
  <2>2. CASE CompareAndSwap(a)
    BY <2>2 DEF CompareAndSwap
  <2>3. CASE AnnounceConnecting(a)
    BY <2>3 DEF AnnounceConnecting
  <2>4. ASSUME NEW p \in Procs, SpawnConnect(a, p) PROVE ClientInv'
    BY <2>4 DEF SpawnConnect
  <2> QED
    BY <1>2, <2>1, <2>2, <2>3, <2>4 DEF Caller
<1>3. ASSUME NEW d \in Dialers, Dialer(d) PROVE ClientInv'
  BY <1>3 DEF Dialer, CheckState, GetWaitChan, Wake, GiveUp, UseClient
<1>4. ASSUME NEW a \in Procs \cup Closers, Cleanup(a) PROVE ClientInv'
  <2>1. CASE SwapClient(a)
    BY <2>1 DEF SwapClient
  <2>2. CASE CleanBridge(a)
    BY <2>2 DEF CleanBridge
  <2>3. CASE LoadDataChannel(a)
    BY <2>3 DEF LoadDataChannel
  <2>4. CASE CloseDataChannel(a)
    BY <2>4 DEF CloseDataChannel
  <2> QED
    BY <1>4, <2>1, <2>2, <2>3, <2>4 DEF Cleanup
<1>5. ASSUME NEW p \in Procs, Connector(p) PROVE ClientInv'
  <2>1. CASE StartEC2(p)
    BY <2>1 DEF StartEC2
  <2>2. CASE InstanceStarted(p)
    BY <2>2 DEF InstanceStarted
  <2>3. CASE WaitForSSMAgent(p)
    BY <2>3 DEF WaitForSSMAgent
  <2>4. CASE Exit(p)
    BY <2>4 DEF Exit
  <2>5. CASE StartSession(p)
    BY <2>5 DEF StartSession
  <2>6. CASE AssignDataChannel(p)
    BY <2>6 DEF AssignDataChannel
  <2>7. CASE OpenChannel(p)
    BY <2>7 DEF OpenChannel
  <2>8. CASE AwaitHandshake(p)
    BY <2>8 DEF AwaitHandshake
  <2>9. CASE InstallBridge(p)
    BY <2>9 DEF InstallBridge
  <2>10. CASE GetBridge(p)
    BY <2>10 DEF GetBridge
  <2>11. CASE ShakeHands(p)
    BY <2>11 DEF ShakeHands
  <2>12. CASE StoreClient(p)
    <3>1. tun[p] # None
      BY <2>12 DEF StoreClient, Tunnels
    <3> QED
      BY <2>12, <3>1 DEF StoreClient
  <2>13. CASE ShakeFails(p)
    BY <2>13 DEF ShakeFails
  <2>14. CASE RetrySSH(p)
    BY <2>14 DEF RetrySSH
  <2>15. CASE AbandonAttempt(p)
    BY <2>15 DEF AbandonAttempt
  <2>16. CASE HangUp(p)
    BY <2>16 DEF HangUp
  <2>17. CASE TerminateSession(p)
    BY <2>17 DEF TerminateSession
  <2>18. CASE AttemptFailed(p)
    BY <2>18 DEF AttemptFailed
  <2>19. CASE NextAttempt(p)
    BY <2>19 DEF NextAttempt
  <2>20. CASE BecomeActive(p)
    BY <2>20 DEF BecomeActive
  <2> QED
    BY <1>5, <2>1, <2>2, <2>3, <2>4, <2>5, <2>6, <2>7, <2>8, <2>9, <2>10,
       <2>11, <2>12, <2>13, <2>14, <2>15, <2>16, <2>17, <2>18, <2>19, <2>20 DEF Connector
<1>6. ASSUME NEW p \in Procs, Monitor(p) \/ Callback(p) \/ Trigger(p) PROVE ClientInv'
  <2>1. CASE LoadClient(p)
    <3>1. CASE sshClient = None
      BY <2>1, <3>1 DEF LoadClient
    <3>2. CASE sshClient # None
      BY <2>1, <3>2 DEF LoadClient
    <3> QED
      BY <3>1, <3>2
  <2>2. CASE MonitorSees(p)
    BY <2>2 DEF MonitorSees
  <2>3. CASE CheckIntentional(p)
    BY <2>3 DEF CheckIntentional
  <2>4. CASE HandleDisconnect(p)
    BY <2>4 DEF HandleDisconnect
  <2>5. CASE HangUpBridge(p)
    BY <2>5 DEF HangUpBridge
  <2>6. CASE HangUpChannel(p)
    BY <2>6 DEF HangUpChannel
  <2>7. CASE TriggerReconnect(p)
    BY <2>7 DEF TriggerReconnect
  <2>8. CASE ResetState(p)
    BY <2>8 DEF ResetState
  <2>9. CASE Reconnect(p)
    BY <2>9 DEF Reconnect
  <2> QED
    BY <1>6, <2>1, <2>2, <2>3, <2>4, <2>5, <2>6, <2>7, <2>8, <2>9 DEF Monitor, Callback, Trigger
<1>7. ASSUME NEW a \in Closers, Close(a) PROVE ClientInv'
  BY <1>7 DEF Close
<1>8. ASSUME NEW c \in Conns, RemoteClose(c) PROVE ClientInv'
  BY <1>8 DEF RemoteClose
<1>9. ASSUME NEW c \in Conns, NEW p \in Procs, Drop(c, p) PROVE ClientInv'
  BY <1>9 DEF Drop
<1>10. ASSUME NEW t \in Tunnels, SshEnds(t) PROVE ClientInv'
  BY <1>10 DEF SshEnds
<1>11. ASSUME NEW p \in Procs, KeepaliveStalls(p) PROVE ClientInv'
  BY <1>11 DEF KeepaliveStalls
<1>12. CASE UNCHANGED vars
  BY <1>12 DEF vars
<1> QED
  BY <1>1, <1>2, <1>3, <1>4, <1>5, <1>6, <1>7, <1>8, <1>9, <1>10, <1>11, <1>12 DEF Next, Proc, Network

\* Without the callback of a dropped WebSocket the right to connect is handed
\* on and never taken twice.
LEMMA ChargeStep == "drop" \notin Faults /\ TypeInv /\ ChargeInv /\ [Next]_vars => ChargeInv'
<1> SUFFICES ASSUME "drop" \notin Faults, TypeInv, ChargeInv, [Next]_vars PROVE ChargeInv'
  OBVIOUS
<1> USE BackendAssumption
    DEF TypeInv, TypeOK, ChargeInv, InCharge, ConnectLabels, At, States,
        Goto, Return, SetState, Closed, ClearBridge, SetBridge, callVars, procVars, connVars, envVars
<1>1. ASSUME NEW a \in Actors, Broadcast(a) PROVE ChargeInv'
  BY <1>1 DEF Broadcast
<1>2. ASSUME NEW a \in Callers, Caller(a) PROVE ChargeInv'
  <2>1. CASE LoadState(a)
    BY <2>1 DEF LoadState
  <2>2. CASE CompareAndSwap(a)
    BY <2>2 DEF CompareAndSwap
  <2>3. CASE AnnounceConnecting(a)
    BY <2>3 DEF AnnounceConnecting
  <2>4. ASSUME NEW p \in Procs, SpawnConnect(a, p) PROVE ChargeInv'
    BY <2>4 DEF SpawnConnect
  <2> QED
    BY <1>2, <2>1, <2>2, <2>3, <2>4 DEF Caller
<1>3. ASSUME NEW d \in Dialers, Dialer(d) PROVE ChargeInv'
  BY <1>3 DEF Dialer, CheckState, GetWaitChan, Wake, GiveUp, UseClient
<1>4. ASSUME NEW a \in Procs \cup Closers, Cleanup(a) PROVE ChargeInv'
  <2>1. CASE SwapClient(a)
    BY <2>1 DEF SwapClient
  <2>2. CASE CleanBridge(a)
    BY <2>2 DEF CleanBridge
  <2>3. CASE LoadDataChannel(a)
    BY <2>3 DEF LoadDataChannel
  <2>4. CASE CloseDataChannel(a)
    BY <2>4 DEF CloseDataChannel
  <2> QED
    BY <1>4, <2>1, <2>2, <2>3, <2>4 DEF Cleanup
<1>5. ASSUME NEW p \in Procs, Connector(p) PROVE ChargeInv'
  <2>1. CASE StartEC2(p)
    BY <2>1 DEF StartEC2
  <2>2. CASE InstanceStarted(p)
    BY <2>2 DEF InstanceStarted
  <2>3. CASE WaitForSSMAgent(p)
    BY <2>3 DEF WaitForSSMAgent
  <2>4. CASE Exit(p)
    BY <2>4 DEF Exit
  <2>5. CASE StartSession(p)
    BY <2>5 DEF StartSession
  <2>6. CASE AssignDataChannel(p)
    BY <2>6 DEF AssignDataChannel
  <2>7. CASE OpenChannel(p)
    BY <2>7 DEF OpenChannel
  <2>8. CASE AwaitHandshake(p)
    BY <2>8 DEF AwaitHandshake
  <2>9. CASE InstallBridge(p)
    BY <2>9 DEF InstallBridge
  <2>10. CASE GetBridge(p)
    BY <2>10 DEF GetBridge
  <2>11. CASE ShakeHands(p)
    BY <2>11 DEF ShakeHands
  <2>12. CASE StoreClient(p)
    BY <2>12 DEF StoreClient
  <2>13. CASE ShakeFails(p)
    BY <2>13 DEF ShakeFails
  <2>14. CASE RetrySSH(p)
    BY <2>14 DEF RetrySSH
  <2>15. CASE AbandonAttempt(p)
    BY <2>15 DEF AbandonAttempt
  <2>16. CASE HangUp(p)
    BY <2>16 DEF HangUp
  <2>17. CASE TerminateSession(p)
    BY <2>17 DEF TerminateSession
  <2>18. CASE AttemptFailed(p)
    <3>1. CASE try[p] < MaxRetries
      BY <2>18, <3>1 DEF AttemptFailed
    <3>2. CASE ~(try[p] < MaxRetries)
      BY <2>18, <3>2 DEF AttemptFailed
    <3> QED
      BY <3>1, <3>2
  <2>19. CASE NextAttempt(p)
    BY <2>19 DEF NextAttempt
  <2>20. CASE BecomeActive(p)
    BY <2>20 DEF BecomeActive
  <2> QED
    BY <1>5, <2>1, <2>2, <2>3, <2>4, <2>5, <2>6, <2>7, <2>8, <2>9, <2>10,
       <2>11, <2>12, <2>13, <2>14, <2>15, <2>16, <2>17, <2>18, <2>19, <2>20 DEF Connector
<1>6. ASSUME NEW p \in Procs, Monitor(p) \/ Callback(p) \/ Trigger(p) PROVE ChargeInv'
  <2>1. CASE LoadClient(p)
    BY <2>1 DEF LoadClient
  <2>2. CASE MonitorSees(p)
    BY <2>2 DEF MonitorSees
  <2>3. CASE CheckIntentional(p)
    BY <2>3 DEF CheckIntentional
  <2>4. CASE HandleDisconnect(p)
    BY <2>4 DEF HandleDisconnect
  <2>5. CASE HangUpBridge(p)
    BY <2>5 DEF HangUpBridge
  <2>6. CASE HangUpChannel(p)
    BY <2>6 DEF HangUpChannel
  <2>7. CASE TriggerReconnect(p)
    BY <2>7 DEF TriggerReconnect
  <2>8. CASE ResetState(p)
    BY <2>8 DEF ResetState
  <2>9. CASE Reconnect(p)
    BY <2>9 DEF Reconnect
  <2> QED
    BY <1>6, <2>1, <2>2, <2>3, <2>4, <2>5, <2>6, <2>7, <2>8, <2>9 DEF Monitor, Callback, Trigger
<1>7. ASSUME NEW a \in Closers, Close(a) PROVE ChargeInv'
  BY <1>7 DEF Close
<1>8. ASSUME NEW c \in Conns, RemoteClose(c) PROVE ChargeInv'
  BY <1>8 DEF RemoteClose
<1>9. ASSUME NEW c \in Conns, NEW p \in Procs, Drop(c, p) PROVE ChargeInv'
  BY <1>9 DEF Drop
<1>10. ASSUME NEW t \in Tunnels, SshEnds(t) PROVE ChargeInv'
  BY <1>10 DEF SshEnds
<1>11. ASSUME NEW p \in Procs, KeepaliveStalls(p) PROVE ChargeInv'
  BY <1>11 DEF KeepaliveStalls
<1>12. CASE UNCHANGED vars
  BY <1>12 DEF vars
<1> QED
  BY <1>1, <1>2, <1>3, <1>4, <1>5, <1>6, <1>7, <1>8, <1>9, <1>10, <1>11, <1>12 DEF Next, Proc, Network

-----------------------------------------------------------------------------

LEMMA AllInit == Init => SessionInv /\ ClientInv /\ ChargeInv
<1> SUFFICES ASSUME Init PROVE SessionInv /\ ClientInv /\ ChargeInv
  OBVIOUS
<1>1. \A a \in Actors : pc[a] = IF a \in Procs THEN "free" ELSE "ready"
  BY DEF Init
<1>2. SessionInv
  BY DEF Init, SessionInv, NoStraySession
<1>3. ClientInv
  BY <1>1, BackendAssumption DEF Init, ClientInv
<1>4. \A a \in Callers \cup Procs : ~InCharge(a)
  BY <1>1, BackendAssumption DEF InCharge, At, ConnectLabels
<1>5. ChargeInv
  BY <1>1, <1>4, BackendAssumption DEF Init, ChargeInv
<1> QED
  BY <1>2, <1>3, <1>5

LEMMA Inductive == Spec => [](TypeInv /\ SessionInv /\ ClientInv)
<1> QED
  BY TypeInit, AllInit, TypeStep, SessionStep, ClientStep, PTL DEF Spec

\* Whatever the order of calls, disconnects, monitors and retries, the fields
\* of Backend and the locals of its goroutines keep their types; each attempt
\* of connectSSH works on a bridge of its own session (tryConnect, connectSSH).
THEOREM TypeCorrect == Spec => []TypeOK
<1> QED
  BY Inductive, PTL DEF TypeInv

\* Every way out of tryConnect terminates the session of the attempt that it
\* gives up: no session outlives the goroutine that started it, unless it has
\* become the active connection (tryConnect, backend.go:648).
THEOREM SessionsEnd == Spec => []NoStraySession
<1> QED
  BY Inductive, PTL DEF SessionInv

\* A backend in state active has an SSH client or will get one, however many
\* goroutines connect at the same time, disconnect or clean up (Dial,
\* triggerReconnect, cleanup).
THEOREM ClientThere == Spec => []ActiveHasClient
<1>1. ASSUME TypeInv, NEW p \in Procs, Fixing(p) PROVE Repairing(p)
  BY <1>1 DEF TypeInv, Fixing, CleanupLabels, Repairing, Connecting, ConnectLabels, AttemptLabels, SSHLabels, At
<1>2. TypeInv /\ ClientInv => ActiveHasClient
  BY <1>1 DEF ClientInv, ActiveHasClient
<1> QED
  BY <1>2, Inductive, PTL

\* Two goroutines connect at the same time only after the callback of a
\* WebSocket that dropped: dials, credential updates, monitors, Close and
\* sessions that the service closes never make it happen (Dial,
\* OnCredentialUpdate, triggerReconnect).
THEOREM OneAtATime == ASSUME "drop" \notin Faults PROVE Spec => []OneConnector
<1>1. ChargeInv => OneConnector
  BY DEF ChargeInv, InCharge, OneConnector, Connecting, ConnectLabels, At
<1>2. TypeInv /\ ChargeInv /\ [Next]_vars => ChargeInv'
  BY ChargeStep
<1> QED
  BY <1>1, <1>2, TypeInit, AllInit, TypeStep, PTL DEF Spec

=============================================================================
