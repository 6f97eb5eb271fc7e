---------------------------- MODULE ProxyProofs ----------------------------
(* Proofs about the proxy manager and its dialers, for any number of         *)
(* connections and of callbacks of the idle timer.                           *)
EXTENDS ProxyDialer, FiniteSetTheorems, TLAPS

LEMMA InitInv == Init => IndInv
<1> SUFFICES ASSUME Init PROVE IndInv
  OBVIOUS
<1>1. MutexInv
  BY ActorsAssumption DEF Init, ManagerInit, DialerInit, DialSteps, MutexInv, Initialising, Publishing
<1>2. LatchInv
  <2>1. initDone = 1 /\ closed = {}
    BY DEF Init, ManagerInit
  <2>2. initDone \in Nat \ {0} /\ closed \subseteq 1 .. initDone /\ \A c \in 1 .. initDone - 1 : c \in closed
    BY <2>1
  <2>3. ~awsInitialized /\ initDone \notin closed /\ \A d \in Dialers : ipc[d] # "replace"
    BY DEF Init, ManagerInit
  <2> QED
    BY <2>2, <2>3 DEF LatchInv
<1>3. BackendInv
  BY DEF Init, ManagerInit, BackendInv, NoLostBackend, DialersHoldBackend, Initialising, Publishing
<1> QED
  BY <1>1, <1>2, <1>3 DEF IndInv

LEMMA LoadConfigInv == ASSUME IndInv, LoadConfig, UNCHANGED dialerVars PROVE IndInv'
<1> USE ActorsAssumption DEF IndInv, LoadConfig, configVars, latchVars, backendVars, idleVars, ec2Vars, dialerVars
<1>1. MutexInv'
  BY DEF MutexInv, LatchInv, Initialising, Publishing
<1>2. LatchInv'
  BY DEF MutexInv, LatchInv, Initialising, Publishing
<1>3. BackendInv'
  BY DEF MutexInv, LatchInv, BackendInv, NoLostBackend, DialersHoldBackend, Initialising, Publishing
<1> QED
  BY <1>1, <1>2, <1>3

LEMMA StartVMFailsInv == ASSUME IndInv, StartVMFails, UNCHANGED dialerVars PROVE IndInv'
<1> USE ActorsAssumption DEF IndInv, StartVMFails, configVars, latchVars, backendVars, idleVars, ec2Vars, dialerVars
<1>1. MutexInv'
  BY DEF MutexInv, LatchInv, Initialising, Publishing
<1>2. LatchInv'
  BY DEF MutexInv, LatchInv, Initialising, Publishing
<1>3. BackendInv'
  BY DEF MutexInv, LatchInv, BackendInv, NoLostBackend, DialersHoldBackend, Initialising, Publishing
<1> QED
  BY <1>1, <1>2, <1>3

LEMMA StartInv == ASSUME IndInv, Start, UNCHANGED dialerVars PROVE IndInv'
<1> USE ActorsAssumption DEF IndInv, Start, configVars, latchVars, backendVars, idleVars, ec2Vars, dialerVars
<1>1. MutexInv'
  BY DEF MutexInv, LatchInv, Initialising, Publishing
<1>2. LatchInv'
  BY DEF MutexInv, LatchInv, Initialising, Publishing
<1>3. BackendInv'
  BY DEF MutexInv, LatchInv, BackendInv, NoLostBackend, DialersHoldBackend, Initialising, Publishing
<1> QED
  BY <1>1, <1>2, <1>3

LEMMA StartServersInv == ASSUME IndInv, StartServers, UNCHANGED dialerVars PROVE IndInv'
<1> USE ActorsAssumption DEF IndInv, StartServers, configVars, latchVars, backendVars, idleVars, ec2Vars, dialerVars
<1>1. MutexInv'
  BY DEF MutexInv, LatchInv, Initialising, Publishing
<1>2. LatchInv'
  <2>1. initDone = 1 /\ closed = {} /\ ~awsInitialized /\ \A d \in Dialers : ipc[d] = "none"
    BY DEF MutexInv
  <2>2. initDone' = 1 /\ closed' = {1} /\ ~awsInitialized'
    BY <2>1
  <2>3. \A d \in Dialers : ipc'[d] = "none"
    BY <2>1 DEF MutexInv
  <2>4. initDone' \in Nat \ {0} /\ closed' \subseteq 1 .. initDone' /\ \A c \in 1 .. initDone' - 1 : c \in closed'
    BY <2>2
  <2> QED
    BY <2>2, <2>3, <2>4 DEF LatchInv
<1>3. BackendInv'
  BY DEF MutexInv, LatchInv, BackendInv, NoLostBackend, DialersHoldBackend, Initialising, Publishing
<1> QED
  BY <1>1, <1>2, <1>3

LEMMA InitDescribeInv == ASSUME IndInv, NEW p \in Dialers \cup {Main}, InitDescribe(p), UNCHANGED dialerVars PROVE IndInv'
<1> USE ActorsAssumption DEF IndInv, InitDescribe, configVars, latchVars, backendVars, idleVars, ec2Vars, dialerVars, GetInstanceState
<1>0. PICK x \in {"stopping", "stopped", "backend"} : ipc' = [ipc EXCEPT ![p] = x]
  BY DEF MutexInv, Initialising
<1> HIDE DEF InitDescribe
<1>a. ipc[p] = "init" /\ UNCHANGED <<configVars, mu, latchVars, backendVars, idleVars, ec2, byIdle>>
  BY DEF InitDescribe
<1>1. MutexInv'
  BY <1>0, <1>a DEF MutexInv, LatchInv, Initialising, Publishing
<1>2. LatchInv'
  BY <1>0, <1>a DEF MutexInv, LatchInv, Initialising, Publishing
<1>3. BackendInv'
  BY <1>0, <1>a DEF MutexInv, LatchInv, BackendInv, NoLostBackend, DialersHoldBackend, Initialising, Publishing
<1> QED
  BY <1>1, <1>2, <1>3

LEMMA InitAwaitStoppedInv == ASSUME IndInv, NEW p \in Dialers \cup {Main}, InitAwaitStopped(p), UNCHANGED dialerVars PROVE IndInv'
<1> USE ActorsAssumption DEF IndInv, InitAwaitStopped, configVars, latchVars, backendVars, idleVars, ec2Vars, dialerVars, GetInstanceState
<1>1. MutexInv'
  BY DEF MutexInv, LatchInv, Initialising, Publishing
<1>2. LatchInv'
  BY DEF MutexInv, LatchInv, Initialising, Publishing
<1>3. BackendInv'
  BY DEF MutexInv, LatchInv, BackendInv, NoLostBackend, DialersHoldBackend, Initialising, Publishing
<1> QED
  BY <1>1, <1>2, <1>3

LEMMA InitStartInstanceInv == ASSUME IndInv, NEW p \in Dialers \cup {Main}, InitStartInstance(p), UNCHANGED dialerVars PROVE IndInv'
<1> USE ActorsAssumption DEF IndInv, InitStartInstance, configVars, latchVars, backendVars, idleVars, ec2Vars, dialerVars
<1>1. MutexInv'
  BY DEF MutexInv, LatchInv, Initialising, Publishing
<1>2. LatchInv'
  BY DEF MutexInv, LatchInv, Initialising, Publishing
<1>3. BackendInv'
  BY DEF MutexInv, LatchInv, BackendInv, NoLostBackend, DialersHoldBackend, Initialising, Publishing
<1> QED
  BY <1>1, <1>2, <1>3

LEMMA InitAwaitAgentInv == ASSUME IndInv, NEW p \in Dialers \cup {Main}, InitAwaitAgent(p), UNCHANGED dialerVars PROVE IndInv'
<1> USE ActorsAssumption DEF IndInv, InitAwaitAgent, configVars, latchVars, backendVars, idleVars, ec2Vars, dialerVars
<1>1. MutexInv'
  BY DEF MutexInv, LatchInv, Initialising, Publishing
<1>2. LatchInv'
  BY DEF MutexInv, LatchInv, Initialising, Publishing
<1>3. BackendInv'
  BY DEF MutexInv, LatchInv, BackendInv, NoLostBackend, DialersHoldBackend, Initialising, Publishing
<1> QED
  BY <1>1, <1>2, <1>3

LEMMA InitBackendInv == ASSUME IndInv, NEW p \in Dialers \cup {Main}, InitBackend(p), UNCHANGED dialerVars PROVE IndInv'
<1> USE ActorsAssumption DEF IndInv, InitBackend, configVars, latchVars, backendVars, idleVars, ec2Vars, dialerVars
<1>1. MutexInv'
  BY DEF MutexInv, LatchInv, Initialising, Publishing
<1>2. LatchInv'
  BY DEF MutexInv, LatchInv, Initialising, Publishing
<1>3. BackendInv'
  BY DEF MutexInv, LatchInv, BackendInv, NoLostBackend, DialersHoldBackend, Initialising, Publishing
<1> QED
  BY <1>1, <1>2, <1>3

LEMMA InitFailsInv == ASSUME IndInv, NEW p \in Dialers \cup {Main}, InitFails(p), UNCHANGED dialerVars PROVE IndInv'
<1> USE ActorsAssumption DEF IndInv, InitFails, configVars, latchVars, backendVars, idleVars, ec2Vars, dialerVars
<1>1. MutexInv'
  BY DEF MutexInv, LatchInv, Initialising, Publishing
<1>2. LatchInv'
  BY DEF MutexInv, LatchInv, Initialising, Publishing
<1>3. BackendInv'
  BY DEF MutexInv, LatchInv, BackendInv, NoLostBackend, DialersHoldBackend, Initialising, Publishing
<1> QED
  BY <1>1, <1>2, <1>3

LEMMA EnsureLockInv == ASSUME IndInv, NEW d \in Dialers, EnsureLock(d), UNCHANGED dialerVars PROVE IndInv'
<1> USE ActorsAssumption DEF IndInv, EnsureLock, configVars, latchVars, backendVars, idleVars, ec2Vars, dialerVars
<1>1. MutexInv'
  BY DEF MutexInv, LatchInv, Initialising, Publishing
<1>2. LatchInv'
  BY DEF MutexInv, LatchInv, Initialising, Publishing
<1>3. BackendInv'
  BY DEF MutexInv, LatchInv, BackendInv, NoLostBackend, DialersHoldBackend, Initialising, Publishing
<1> QED
  BY <1>1, <1>2, <1>3

LEMMA EnsurePublishInv == ASSUME IndInv, NEW d \in Dialers, EnsurePublish(d), UNCHANGED dialerVars PROVE IndInv'
<1> USE ActorsAssumption DEF IndInv, EnsurePublish, configVars, latchVars, backendVars, idleVars, ec2Vars, dialerVars
<1>1. MutexInv'
  BY DEF MutexInv, LatchInv, Initialising, Publishing
<1>2. LatchInv'
  BY DEF MutexInv, LatchInv, Initialising, Publishing
<1>3. BackendInv'
  BY DEF MutexInv, LatchInv, BackendInv, NoLostBackend, DialersHoldBackend, Initialising, Publishing
<1> QED
  BY <1>1, <1>2, <1>3

LEMMA EnsureFinishInv == ASSUME IndInv, NEW d \in Dialers, EnsureFinish(d), UNCHANGED dialerVars PROVE IndInv'
<1> USE ActorsAssumption DEF IndInv, EnsureFinish, configVars, latchVars, backendVars, idleVars, ec2Vars, dialerVars
<1>1. MutexInv'
  BY DEF MutexInv, LatchInv, Initialising, Publishing
<1>2. LatchInv'
  BY DEF MutexInv, LatchInv, Initialising, Publishing
<1>3. BackendInv'
  BY DEF MutexInv, LatchInv, BackendInv, NoLostBackend, DialersHoldBackend, Initialising, Publishing
<1> QED
  BY <1>1, <1>2, <1>3

LEMMA EnsureFailCloseInv == ASSUME IndInv, NEW d \in Dialers, EnsureFailClose(d), UNCHANGED dialerVars PROVE IndInv'
<1> USE ActorsAssumption DEF IndInv, EnsureFailClose, configVars, latchVars, backendVars, idleVars, ec2Vars, dialerVars
<1>1. MutexInv'
  BY DEF MutexInv, LatchInv, Initialising, Publishing
<1>2. LatchInv'
  BY DEF MutexInv, LatchInv, Initialising, Publishing
<1>3. BackendInv'
  BY DEF MutexInv, LatchInv, BackendInv, NoLostBackend, DialersHoldBackend, Initialising, Publishing
<1> QED
  BY <1>1, <1>2, <1>3

LEMMA EnsureFailReplaceInv == ASSUME IndInv, NEW d \in Dialers, EnsureFailReplace(d), UNCHANGED dialerVars PROVE IndInv'
<1> USE ActorsAssumption DEF IndInv, EnsureFailReplace, configVars, latchVars, backendVars, idleVars, ec2Vars, dialerVars
<1>1. MutexInv'
  BY DEF MutexInv, LatchInv, Initialising, Publishing
<1>2. LatchInv'
  BY DEF MutexInv, LatchInv, Initialising, Publishing
<1>3. BackendInv'
  BY DEF MutexInv, LatchInv, BackendInv, NoLostBackend, DialersHoldBackend, Initialising, Publishing
<1> QED
  BY <1>1, <1>2, <1>3

LEMMA IdleFiresInv == ASSUME IndInv, NEW f \in Fires, IdleFires(f), UNCHANGED dialerVars PROVE IndInv'
<1> USE ActorsAssumption DEF IndInv, IdleFires, configVars, latchVars, backendVars, idleVars, ec2Vars, dialerVars
<1>1. MutexInv'
  BY DEF MutexInv, LatchInv, Initialising, Publishing
<1>2. LatchInv'
  BY DEF MutexInv, LatchInv, Initialising, Publishing
<1>3. BackendInv'
  BY DEF MutexInv, LatchInv, BackendInv, NoLostBackend, DialersHoldBackend, Initialising, Publishing
<1> QED
  BY <1>1, <1>2, <1>3

LEMMA SuspendLockInv == ASSUME IndInv, NEW f \in Fires, SuspendLock(f), UNCHANGED dialerVars PROVE IndInv'
<1> USE ActorsAssumption DEF IndInv, SuspendLock, configVars, latchVars, backendVars, idleVars, ec2Vars, dialerVars
<1>1. MutexInv'
  BY DEF MutexInv, LatchInv, Initialising, Publishing
<1>2. LatchInv'
  <2>1. CASE ~awsInitialized
    <3>1. initDone' = initDone /\ closed' = closed /\ awsInitialized' = awsInitialized /\ ipc' = ipc /\ mu' = mu
      BY <2>1
    <3> QED
      BY <3>1 DEF LatchInv
  <2>2. CASE awsInitialized
    <3>1. initDone \in closed /\ initDone \in Nat \ {0} /\ closed \subseteq 1 .. initDone
      BY <2>2 DEF LatchInv
    <3>2. initDone' = initDone + 1 /\ closed' = closed /\ ~awsInitialized' /\ ipc' = ipc
      BY <2>2
    <3>3. initDone' \notin closed'
      BY <3>1, <3>2
    <3>4. \A d \in Dialers : ipc[d] # "replace"
      BY DEF MutexInv, Initialising
    <3>5. \A c \in 1 .. initDone' - 1 : c \in closed'
      BY <3>1, <3>2 DEF LatchInv
    <3>6. initDone' \in Nat \ {0} /\ closed' \subseteq 1 .. initDone'
      BY <3>1, <3>2
    <3> QED
      BY <3>2, <3>3, <3>4, <3>5, <3>6 DEF LatchInv
  <2> QED
    BY <2>1, <2>2
<1>3. BackendInv'
  BY DEF MutexInv, LatchInv, BackendInv, NoLostBackend, DialersHoldBackend, Initialising, Publishing
<1> QED
  BY <1>1, <1>2, <1>3

LEMMA SuspendCloseInv == ASSUME IndInv, NEW f \in Fires, SuspendClose(f), UNCHANGED dialerVars PROVE IndInv'
<1> USE ActorsAssumption DEF IndInv, SuspendClose, configVars, latchVars, backendVars, idleVars, ec2Vars, dialerVars
<1>1. MutexInv'
  BY DEF MutexInv, LatchInv, Initialising, Publishing
<1>2. LatchInv'
  BY DEF MutexInv, LatchInv, Initialising, Publishing
<1>3. BackendInv'
  BY DEF MutexInv, LatchInv, BackendInv, NoLostBackend, DialersHoldBackend, Initialising, Publishing
<1> QED
  BY <1>1, <1>2, <1>3

LEMMA SuspendStopInv == ASSUME IndInv, NEW f \in Fires, SuspendStop(f), UNCHANGED dialerVars PROVE IndInv'
<1> USE ActorsAssumption DEF IndInv, SuspendStop, configVars, latchVars, backendVars, idleVars, ec2Vars, dialerVars, StopInstances
<1>1. MutexInv'
  BY DEF MutexInv, LatchInv, Initialising, Publishing
<1>2. LatchInv'
  BY DEF MutexInv, LatchInv, Initialising, Publishing
<1>3. BackendInv'
  BY DEF MutexInv, LatchInv, BackendInv, NoLostBackend, DialersHoldBackend, Initialising, Publishing
<1> QED
  BY <1>1, <1>2, <1>3

LEMMA StopServersInv == ASSUME IndInv, StopServers, UNCHANGED dialerVars PROVE IndInv'
<1> USE ActorsAssumption DEF IndInv, StopServers, configVars, latchVars, backendVars, idleVars, ec2Vars, dialerVars
<1>1. MutexInv'
  BY DEF MutexInv, LatchInv, Initialising, Publishing
<1>2. LatchInv'
  BY DEF MutexInv, LatchInv, Initialising, Publishing
<1>3. BackendInv'
  BY DEF MutexInv, LatchInv, BackendInv, NoLostBackend, DialersHoldBackend, Initialising, Publishing
<1> QED
  BY <1>1, <1>2, <1>3

LEMMA StopBackendInv == ASSUME IndInv, StopBackend, UNCHANGED dialerVars PROVE IndInv'
<1> USE ActorsAssumption DEF IndInv, StopBackend, configVars, latchVars, backendVars, idleVars, ec2Vars, dialerVars
<1>1. MutexInv'
  BY DEF MutexInv, LatchInv, Initialising, Publishing
<1>2. LatchInv'
  BY DEF MutexInv, LatchInv, Initialising, Publishing
<1>3. BackendInv'
  BY DEF MutexInv, LatchInv, BackendInv, NoLostBackend, DialersHoldBackend, Initialising, Publishing
<1> QED
  BY <1>1, <1>2, <1>3

LEMMA StopInstanceInv == ASSUME IndInv, StopInstance, UNCHANGED dialerVars PROVE IndInv'
<1> USE ActorsAssumption DEF IndInv, StopInstance, configVars, latchVars, backendVars, idleVars, ec2Vars, dialerVars, StopInstances
<1>1. MutexInv'
  BY DEF MutexInv, LatchInv, Initialising, Publishing
<1>2. LatchInv'
  BY DEF MutexInv, LatchInv, Initialising, Publishing
<1>3. BackendInv'
  BY DEF MutexInv, LatchInv, BackendInv, NoLostBackend, DialersHoldBackend, Initialising, Publishing
<1> QED
  BY <1>1, <1>2, <1>3

LEMMA ExitInv == ASSUME IndInv, Exit, UNCHANGED dialerVars PROVE IndInv'
<1> USE ActorsAssumption DEF IndInv, Exit, configVars, latchVars, backendVars, idleVars, ec2Vars, dialerVars
<1>1. MutexInv'
  BY DEF MutexInv, LatchInv, Initialising, Publishing
<1>2. LatchInv'
  BY DEF MutexInv, LatchInv, Initialising, Publishing
<1>3. BackendInv'
  BY DEF MutexInv, LatchInv, BackendInv, NoLostBackend, DialersHoldBackend, Initialising, Publishing
<1> QED
  BY <1>1, <1>2, <1>3

LEMMA InstanceStopsInv == ASSUME IndInv, InstanceStops, UNCHANGED dialerVars PROVE IndInv'
<1> USE ActorsAssumption DEF IndInv, InstanceStops, configVars, latchVars, backendVars, idleVars, ec2Vars, dialerVars
<1>1. MutexInv'
  BY DEF MutexInv, LatchInv, Initialising, Publishing
<1>2. LatchInv'
  BY DEF MutexInv, LatchInv, Initialising, Publishing
<1>3. BackendInv'
  BY DEF MutexInv, LatchInv, BackendInv, NoLostBackend, DialersHoldBackend, Initialising, Publishing
<1> QED
  BY <1>1, <1>2, <1>3

LEMMA TunnelChangesInv == ASSUME IndInv, TunnelChanges, UNCHANGED dialerVars PROVE IndInv'
<1> USE ActorsAssumption DEF IndInv, TunnelChanges, configVars, latchVars, backendVars, idleVars, ec2Vars, dialerVars
<1>1. MutexInv'
  BY DEF MutexInv, LatchInv, Initialising, Publishing
<1>2. LatchInv'
  BY DEF MutexInv, LatchInv, Initialising, Publishing
<1>3. BackendInv'
  BY DEF MutexInv, LatchInv, BackendInv, NoLostBackend, DialersHoldBackend, Initialising, Publishing
<1> QED
  BY <1>1, <1>2, <1>3


LEMMA DialGateInv == ASSUME IndInv, NEW d \in Dialers, NEW h \in Hosts, DialGate(d, h) PROVE IndInv'
<1> DEFINE to == IF IsInitialized THEN ipc[d] ELSE "spawned"
<1>1. ipc' = [ipc EXCEPT ![d] = to] /\ phase = "serving" /\ dpc[d] = "idle"
  BY DEF DialGate
<1>2. UNCHANGED <<configVars, mu, latchVars, backendVars, idleVars, ec2Vars>>
  BY DEF DialGate
<1>3. PICK l \in {"done", "dial", "fetch"} : dpc' = [dpc EXCEPT ![d] = l]
  BY DEF DialGate, Return, Goto
<1>4. ipc[d] = "none" /\ ipc' \in [Dialers \cup {Main} -> Initialising \cup Publishing \cup {"none", "spawned"}]
  BY <1>1, ActorsAssumption DEF IndInv, MutexInv
<1>a. to = ipc[d] \/ (to = "spawned" /\ ~IsInitialized)
  BY Zenon
<1> HIDE DEF to
<1>5. \A p \in Dialers \cup {Main} :
        ipc'[p] = ipc[p] \/ (p = d /\ ipc'[p] = "spawned" /\ ~IsInitialized)
  BY <1>1, <1>a DEF IndInv, MutexInv
<1>6. ipc'[Main] = ipc[Main]
  BY <1>5, ActorsAssumption
<1>8. MutexInv'
  BY <1>1, <1>2, <1>3, <1>4, <1>5, <1>6, ActorsAssumption
  DEF IndInv, MutexInv, DialSteps, Initialising, Publishing, configVars, latchVars, backendVars, idleVars, ec2Vars
<1>9. LatchInv'
  BY <1>1, <1>2, <1>4, <1>5
  DEF IndInv, MutexInv, LatchInv, IsInitialized, configVars, latchVars, backendVars, idleVars, ec2Vars
<1>10. BackendInv'
  BY <1>1, <1>2, <1>4, <1>5, <1>6
  DEF IndInv, BackendInv, NoLostBackend, DialersHoldBackend, Initialising, Publishing,
      configVars, latchVars, backendVars, idleVars, ec2Vars
<1> QED
  BY <1>8, <1>9, <1>10 DEF IndInv

\* A step that leaves the manager as it is, but for the idle timer and the
\* state of the tunnel, and no dialer idle again.
LEMMA DialerStepInv ==
  ASSUME IndInv,
         UNCHANGED <<phase, mu, latchVars, backend, open, served, ipc, fire, ec2>>,
         phase \in {"flags", "merged", "eager"} => timer' = timer /\ dpc' = dpc,
         dpc' \in [Dialers -> DialSteps],
         \A d \in Dialers : dpc'[d] = "idle" => dpc[d] = "idle"
  PROVE  IndInv'
<1>1. MutexInv'
  BY DEF IndInv, MutexInv, latchVars
<1>2. LatchInv'
  BY DEF IndInv, LatchInv, latchVars
<1>3. BackendInv'
  BY DEF IndInv, BackendInv, NoLostBackend, DialersHoldBackend, latchVars
<1> QED
  BY <1>1, <1>2, <1>3 DEF IndInv

LEMMA DialProceedsInv == ASSUME IndInv, NEW d \in Dialers, DialProceeds(d) PROVE IndInv'
<1>1. dpc[d] # "idle"
  BY DEF DialProceeds, DialFetch, DialWoken, DialProxy, DialSucceeds, DialTouch, DialFails
<1>2. phase \notin {"flags", "merged", "eager"}
  BY <1>1 DEF IndInv, MutexInv
<1>3. PICK l \in {"wait", "dial", "dialing", "touch", "done"} : dpc' = [dpc EXCEPT ![d] = l]
  <2>1. CASE DialFetch(d)
    BY <2>1 DEF DialFetch, Goto
  <2>2. CASE DialWoken(d)
    BY <2>2 DEF DialWoken, Goto, Return
  <2>3. CASE DialProxy(d)
    BY <2>3 DEF DialProxy, Goto, Return
  <2>4. CASE DialSucceeds(d)
    BY <2>4 DEF DialSucceeds, Goto
  <2>5. CASE DialTouch(d)
    BY <2>5 DEF DialTouch, Goto, Return
  <2>6. CASE DialFails(d)
    BY <2>6 DEF DialFails, Goto, Return
  <2> QED
    BY <2>1, <2>2, <2>3, <2>4, <2>5, <2>6 DEF DialProceeds
<1>4. UNCHANGED <<phase, mu, latchVars, backend, open, served, ipc, fire, ec2>>
  BY DEF DialProceeds, DialFetch, DialWoken, DialProxy, DialSucceeds, DialTouch, DialFails,
         managerVars, configVars, latchVars, backendVars, idleVars, ec2Vars
<1>5. dpc' \in [Dialers -> DialSteps] /\ \A c \in Dialers : dpc'[c] = "idle" => dpc[c] = "idle"
  BY <1>3 DEF IndInv, MutexInv, DialSteps
<1> QED
  BY <1>2, <1>4, <1>5, DialerStepInv

LEMMA DialByRuleInv == ASSUME IndInv, NEW d \in Dialers, NEW h \in Hosts, DialByRule(d, h) PROVE IndInv'
<1>1. dpc' = [dpc EXCEPT ![d] = "done"] /\ phase = "serving"
  BY DEF DialByRule, Return, Goto
<1>2. UNCHANGED <<phase, mu, latchVars, backend, open, served, ipc, fire, ec2>>
  BY DEF DialByRule, managerVars, configVars, latchVars, backendVars, idleVars, ec2Vars
<1>3. dpc' \in [Dialers -> DialSteps] /\ \A c \in Dialers : dpc'[c] = "idle" => dpc[c] = "idle"
  BY <1>1 DEF IndInv, MutexInv, DialSteps
<1> QED
  BY <1>1, <1>2, <1>3, DialerStepInv

LEMMA StepInv == IndInv /\ [Next]_vars => IndInv'
<1> SUFFICES ASSUME IndInv, [Next]_vars PROVE IndInv'
  OBVIOUS
<1>1. ASSUME NEW p \in Dialers \cup {Main}, InitializeProxy(p), UNCHANGED dialerVars PROVE IndInv'
  BY <1>1, InitDescribeInv, InitAwaitStoppedInv, InitStartInstanceInv, InitAwaitAgentInv,
     InitBackendInv, InitFailsInv DEF InitializeProxy
<1>2. ASSUME NEW d \in Dialers, EnsureInitialized(d), UNCHANGED dialerVars PROVE IndInv'
  BY <1>1, <1>2, EnsureLockInv, EnsurePublishInv, EnsureFinishInv, EnsureFailCloseInv,
     EnsureFailReplaceInv DEF EnsureInitialized
<1>3. ASSUME NEW f \in Fires, IdleFires(f) \/ Suspend(f), UNCHANGED dialerVars PROVE IndInv'
  BY <1>3, IdleFiresInv, SuspendLockInv, SuspendCloseInv, SuspendStopInv DEF Suspend
<1>4. ASSUME Stop, UNCHANGED dialerVars PROVE IndInv'
  BY <1>4, StopServersInv, StopBackendInv, StopInstanceInv, ExitInv DEF Stop
<1>5. CASE ManagerNext /\ UNCHANGED dialerVars
  BY <1>1, <1>2, <1>3, <1>4, <1>5, LoadConfigInv, StartVMFailsInv, StartInv, StartServersInv,
     InstanceStopsInv, TunnelChangesInv DEF ManagerNext
<1>6. CASE \E d \in Dialers, h \in Hosts : DialByRule(d, h) \/ DialGate(d, h)
  BY <1>6, DialByRuleInv, DialGateInv
<1>7. CASE \E d \in Dialers : DialProceeds(d)
  BY <1>7, DialProceedsInv
<1>8. CASE UNCHANGED vars
  BY <1>8, DialerStepInv DEF IndInv, MutexInv, vars, managerVars, configVars, latchVars, backendVars, idleVars, ec2Vars, dialerVars
<1> QED
  BY <1>5, <1>6, <1>7, <1>8 DEF Next

-----------------------------------------------------------------------------

\* Through start-up, initialisation, suspend, resume and Stop, awsInitMu, the
\* channel and the backend stay in step (EnsureInitialized, suspend, Stop).
THEOREM Inductive == Spec => []IndInv
<1> QED
  BY InitInv, StepInv, PTL DEF Spec

\* Whenever AWS is initialised the dialers hold the manager's backend and it
\* is open, and no other backend is (EnsureInitialized, suspend,
\* manager.go:453, 541).
THEOREM InStep == Spec => []BackendsInStep
<1>1. IndInv => BackendsInStep
  BY DEF IndInv, BackendInv, BackendsInStep
<1> QED
  BY <1>1, Inductive, PTL

\* EnsureInitialized never closes a channel twice, and none is replaced open
\* (manager.go:489, 506, 560).
THEOREM CloseOnce == Spec => []ChannelsCloseOnce
<1>1. IndInv => ChannelsCloseOnce
  <2> SUFFICES ASSUME IndInv PROVE ChannelsCloseOnce
    OBVIOUS
  <2>1. \A d \in Dialers : ipc[d] \in {"finish", "fail"} => mu = d
    BY DEF IndInv, MutexInv, Initialising, Publishing
  <2>2. ASSUME NEW d \in Dialers, ipc[d] \in {"finish", "fail"} PROVE initDone \notin closed
    <3>1. mu = d /\ \A e \in Dialers : ipc[e] = "replace" => e = d
      BY <2>1, <2>2 DEF IndInv, MutexInv, Initialising, Publishing
    <3> QED
      BY <2>2, <3>1, ActorsAssumption DEF IndInv, LatchInv
  <2> QED
    BY <2>2 DEF IndInv, LatchInv, ChannelsCloseOnce
<1> QED
  BY <1>1, Inductive, PTL

-----------------------------------------------------------------------------
(* A second invariant, which rests on the first: what the state is made of,  *)
(* that connections go out only by choice, and that resumes start instances. *)

Phases == {"flags", "merged", "eager", "serving", "stopping", "closing", "stopped", "failed", "exited"}
Early  == {"flags", "merged", "eager"}

Reasons == {"", "rule", "pre-connect", "failed", "init", "no backend", "proxy", "fallback", "backend"}

TypeInv ==
    /\ phase \in Phases
    /\ awsInitialized \in BOOLEAN /\ initErr \in BOOLEAN /\ suspended \in BOOLEAN
    /\ client \in BOOLEAN /\ byIdle \in BOOLEAN
    /\ made \in Nat /\ backend \in 0 .. made /\ served \in 0 .. made
    /\ open \subseteq 1 .. made /\ active \subseteq 1 .. made
    /\ timer \in {"off", "fresh", "armed"}
    /\ host \in [Dialers -> Hosts \cup {None}]
    /\ seen \in [Dialers -> 0 .. initDone] /\ waitCh \in [Dialers -> 0 .. initDone]
    /\ be \in [Dialers -> 0 .. served]
    /\ path \in [Dialers -> {"", "direct", "vm-direct", "proxy", "error"}]
    /\ why \in [Dialers -> Reasons]
    /\ \A d \in Dialers : dpc[d] \in {"dialing", "touch"} => be[d] # 0
    /\ \A d \in Dialers : dpc[d] = "idle" => path[d] = ""
    /\ phase \in Early => ~byIdle /\ ~suspended
    /\ phase \notin {"flags", "failed"} =>
        {"instance", "network", "lazy", "idle", "autoStart", "routing"} \subseteq DOMAIN cfg

\* From the first success on, the dialers hold a backend, which a Dial has got
\* past the gate for, unless there is none by configuration or an
\* initialisation has just failed.
ServedInv ==
    /\ \A p \in Dialers \cup {Main} : ipc[p] = "publish" => served < backend
    /\ (\E d \in Dialers : ipc[d] = "finish") \/ awsInitialized => served # 0
    /\ closed # {} => served # 0 \/ initErr
    /\ phase \notin Early \cup {"failed"} /\ NeedsProxy(cfg) /\ ~cfg.lazy => served # 0
    /\ \A d \in Dialers : dpc[d] = "dial" => served # 0 \/ why[d] = "failed" \/ ~NeedsProxy(cfg)

\* An initialisation by a Dial is under way or possible.
Cold == initDone \notin closed \/ \E d \in Dialers : ipc[d] = "replace"

Finishing == \E d \in Dialers : ipc[d] = "finish"

\* No connection has been up since the last initialisation, or this is it.
Quiet ==
    /\ \A f \in Fires : fire[f] = "none"
    /\ timer # "armed"
    /\ \A d \in Dialers : dpc[d] = "touch" => Finishing

\* Before the first suspend nothing can be suspended, and from the suspend on
\* the flag stays until a Dial has switched auto-start on.
ResumeInv ==
    /\ ResumeStartsInstance
    /\ timer = "fresh" => Finishing
    /\ Alive /\ phase # "flags" /\ ~awsInitialized /\ ~suspended /\ ~cfg.autoStart /\ Cold => Quiet
    /\ \A d \in Dialers : ipc[d] \in Initialising \cup Publishing /\ suspended => cfg.autoStart
    /\ \A f \in Fires : fire[f] \in {"close", "stop"} \/ (fire[f] = "lock" /\ awsInitialized)
                            => suspended \/ cfg.autoStart

\* The Dials that are through with EnsureInitialized, if they had to run it,
\* and those that do not make a backend any more.
Spent   == {d \in Dialers : dpc[d] # "idle" /\ ipc[d] = "none"}
Settled == {d \in Dialers : dpc[d] # "idle" /\ ipc[d] \in {"none", "publish", "finish", "fail", "replace"}}

StartsBackend == ~(phase \in {"flags", "merged"} \/ ipc[Main] \in Initialising)

Increment(b) == IF b THEN 1 ELSE 0

\* Each accounts for a channel and for a backend at most, and Start for one.
BoundInv ==
    /\ initDone + Increment(awsInitialized) <= 1 + Cardinality(Spent)
    /\ made <= Cardinality(Settled) + Increment(StartsBackend)

SecondInv == TypeInv /\ ServedInv /\ OnlyByChoice /\ ResumeInv /\ BoundInv

-----------------------------------------------------------------------------
(* The types.                                                                *)

\* The fields of a configuration that the manager reads (Merge).
LEMMA MergeFields ==
  ASSUME NEW d, NEW p, NEW c
  PROVE  {"instance", "network", "lazy", "idle", "autoStart", "routing"} \subseteq DOMAIN Merge(d, p, c)
BY DEF Merge, Join, Scalars

\* A larger bound.
LEMMA Wider ==
  ASSUME NEW m \in Nat, NEW n \in Nat, m <= n
  PROVE  /\ 0 .. m \subseteq 0 .. n /\ 1 .. m \subseteq 1 .. n
         /\ \A S : \A f \in [S -> 0 .. m] : f \in [S -> 0 .. n]
<1>1. 0 .. m \subseteq 0 .. n /\ 1 .. m \subseteq 1 .. n
  OBVIOUS
<1>2. ASSUME NEW S, NEW T, NEW U, T \subseteq U, NEW f \in [S -> T] PROVE f \in [S -> U]
  BY <1>2
<1> QED
  BY <1>1, <1>2

\* The numbers of backends and of channels.
LEMMA Numbers ==
  ASSUME IndInv, TypeInv
  PROVE  /\ made \in Nat /\ backend \in Nat /\ served \in Nat /\ initDone \in Nat
         /\ backend <= made /\ served <= made /\ open \subseteq 1 .. made /\ active \subseteq 1 .. made
         /\ be \in [Dialers -> 0 .. served]
         /\ seen \in [Dialers -> 0 .. initDone] /\ waitCh \in [Dialers -> 0 .. initDone]
<1>1. made \in Nat /\ backend \in 0 .. made /\ served \in 0 .. made
  BY DEF TypeInv
<1>2. initDone \in Nat
  BY DEF IndInv, LatchInv
<1>3. /\ open \subseteq 1 .. made /\ active \subseteq 1 .. made
      /\ be \in [Dialers -> 0 .. served]
      /\ seen \in [Dialers -> 0 .. initDone] /\ waitCh \in [Dialers -> 0 .. initDone]
  BY DEF TypeInv
<1> QED
  BY <1>1, <1>2, <1>3

\* The start-up is over once the timer runs or a dialer or a callback does
\* something.
LEMMA Running ==
  ASSUME IndInv
  PROVE  /\ timer # "off" => phase \notin Early
         /\ \A d \in Dialers : dpc[d] # "idle" \/ ipc[d] # "none" => phase \notin Early
         /\ \A f \in Fires : fire[f] # "none" => phase \notin Early
BY DEF IndInv, MutexInv, Early

\* The steps of the manager keep the types.
LEMMA ManagerType ==
  ASSUME IndInv, SecondInv, Alive, ManagerNext, UNCHANGED dialerVars
  PROVE  TypeInv'
<1> USE ActorsAssumption
      DEF SecondInv, configVars, latchVars, backendVars, idleVars, ec2Vars, dialerVars
<1>1. CASE LoadConfig
  <2>1. CASE phase' = "merged" /\ cfg' = Merge(layers.d, layers.p, CLIFlags(layers.c))
    <3>1. {"instance", "network", "lazy", "idle", "autoStart", "routing"} \subseteq DOMAIN cfg'
      BY <2>1, MergeFields
    <3>2. phase' \in Early /\ phase \in Early
      BY <1>1, <2>1 DEF LoadConfig, Early
    <3> QED
      BY <1>1, <2>1, <3>1, <3>2 DEF LoadConfig, TypeInv, Phases
  <2>2. CASE phase' = "failed" /\ UNCHANGED cfg
    BY <1>1, <2>2 DEF LoadConfig, TypeInv, Early, Phases
  <2> QED
    BY <1>1, <2>1, <2>2 DEF LoadConfig
<1>2. CASE StartVMFails
  BY <1>2 DEF StartVMFails, TypeInv, Early, Phases
<1>3. CASE Start
  BY <1>3 DEF Start, TypeInv, Early, Phases
<1>4. CASE StartServers
  <2>1. served < backend /\ ipc[Main] = "publish"
    BY <1>4 DEF StartServers, ServedInv
  <2>2. be' \in [Dialers -> 0 .. served']
    <3>1. served \in Nat /\ served' \in Nat /\ served <= served'
      BY <1>4, <2>1, Numbers DEF StartServers
    <3>2. be' = be /\ be \in [Dialers -> 0 .. served]
      BY DEF TypeInv
    <3> QED
      BY <3>1, <3>2, Wider
  <2> QED
    BY <1>4, <2>2 DEF StartServers, TypeInv, Early, Phases
<1>5. ASSUME NEW p \in Dialers \cup {Main}, InitDescribe(p) PROVE TypeInv'
  BY <1>5 DEF InitDescribe, TypeInv, Early, Phases
<1>6. ASSUME NEW p \in Dialers \cup {Main}, InitAwaitStopped(p) PROVE TypeInv'
  BY <1>6 DEF InitAwaitStopped, TypeInv, Early, Phases
<1>7. ASSUME NEW p \in Dialers \cup {Main}, InitStartInstance(p) PROVE TypeInv'
  BY <1>7 DEF InitStartInstance, TypeInv, Early, Phases
<1>8. ASSUME NEW p \in Dialers \cup {Main}, InitAwaitAgent(p) PROVE TypeInv'
  BY <1>8 DEF InitAwaitAgent, TypeInv, Early, Phases
<1>9. ASSUME NEW p \in Dialers \cup {Main}, InitBackend(p) PROVE TypeInv'
  <2>0. made' = made + 1 /\ backend' = made + 1 /\ served' = served /\ active' = active
        /\ open' = open \cup {made + 1}
    BY <1>9 DEF InitBackend
  <2>1. made' \in Nat /\ backend' \in 0 .. made' /\ served' \in 0 .. made'
    BY <2>0, Numbers
  <2>2. open' \subseteq 1 .. made' /\ active' \subseteq 1 .. made'
    BY <2>0, Numbers
  <2> QED
    BY <1>9, <2>1, <2>2 DEF InitBackend, TypeInv
<1>10. ASSUME NEW p \in Dialers \cup {Main}, InitFails(p) PROVE TypeInv'
  BY <1>10 DEF InitFails, TypeInv, Early, Phases
<1>11. ASSUME NEW d \in Dialers, EnsureLock(d) PROVE TypeInv'
  <2>1. phase \notin Early
    BY <1>11, Running DEF EnsureLock
  <2>2. {"instance", "network", "lazy", "idle", "autoStart", "routing"} \subseteq DOMAIN cfg'
    BY <1>11, <2>1 DEF EnsureLock, TypeInv, Early, Alive
  <2>3. UNCHANGED <<phase, awsInitialized, initDone, initErr, suspended, client, byIdle, made, backend, served,
                    open, active, timer, host, seen, waitCh, be, path, why, dpc>>
    BY <1>11 DEF EnsureLock
  <2> QED
    BY <2>2, <2>3 DEF TypeInv
<1>12. ASSUME NEW d \in Dialers, EnsurePublish(d) PROVE TypeInv'
  <2>1. served < backend
    BY <1>12 DEF EnsurePublish, ServedInv
  <2>2. be' \in [Dialers -> 0 .. served']
    <3>1. served \in Nat /\ served' \in Nat /\ served <= served'
      BY <1>12, <2>1, Numbers DEF EnsurePublish
    <3>2. be' = be /\ be \in [Dialers -> 0 .. served]
      BY DEF TypeInv
    <3> QED
      BY <3>1, <3>2, Wider
  <2> QED
    BY <1>12, <2>2 DEF EnsurePublish, TypeInv, Early, Phases
<1>13. ASSUME NEW d \in Dialers, EnsureFinish(d) PROVE TypeInv'
  BY <1>13 DEF EnsureFinish, TypeInv, Early, Phases
<1>14. ASSUME NEW d \in Dialers, EnsureFailClose(d) PROVE TypeInv'
  BY <1>14 DEF EnsureFailClose, TypeInv, Early, Phases
<1>15. ASSUME NEW d \in Dialers, EnsureFailReplace(d) PROVE TypeInv'
  <2>1. initDone \in Nat /\ initDone' = initDone + 1
    BY <1>15 DEF EnsureFailReplace, IndInv, LatchInv
  <2>2. seen' \in [Dialers -> 0 .. initDone'] /\ waitCh' \in [Dialers -> 0 .. initDone']
    BY <1>15, <2>1, Wider, Numbers DEF EnsureFailReplace
  <2>3. UNCHANGED <<phase, cfg, awsInitialized, initErr, suspended, client, byIdle, made, backend, served, open,
                    active, timer, host, be, path, why, dpc>>
    BY <1>15 DEF EnsureFailReplace
  <2> QED
    BY <2>2, <2>3 DEF TypeInv
<1>16. ASSUME NEW f \in Fires, IdleFires(f) PROVE TypeInv'
  BY <1>16, Running DEF IdleFires, TypeInv, Phases
<1>17. ASSUME NEW f \in Fires, SuspendLock(f) PROVE TypeInv'
  <2>1. phase \notin Early
    BY <1>17, Running DEF SuspendLock
  <2>2. initDone \in Nat /\ initDone' \in {initDone, initDone + 1}
    BY <1>17 DEF SuspendLock, IndInv, LatchInv
  <2>3. seen' \in [Dialers -> 0 .. initDone'] /\ waitCh' \in [Dialers -> 0 .. initDone']
    BY <1>17, <2>2, Wider, Numbers DEF SuspendLock
  <2> QED
    BY <1>17, <2>1, <2>3 DEF SuspendLock, TypeInv, Phases
<1>18. ASSUME NEW f \in Fires, SuspendClose(f) PROVE TypeInv'
  <2>1. phase \notin Early
    BY <1>18, Running DEF SuspendClose
  <2>2. open' \subseteq 1 .. made /\ backend' \in 0 .. made
    BY <1>18, Numbers DEF SuspendClose
  <2>3. UNCHANGED <<phase, cfg, awsInitialized, initDone, initErr, suspended, client, byIdle, made, served,
                    active, timer, host, seen, waitCh, be, path, why, dpc>>
    BY <1>18 DEF SuspendClose
  <2> QED
    BY <2>1, <2>2, <2>3 DEF TypeInv
<1>19. ASSUME NEW f \in Fires, SuspendStop(f) PROVE TypeInv'
  <2>1. phase \notin Early
    BY <1>19, Running DEF SuspendStop
  <2>2. byIdle' \in BOOLEAN
    BY <1>19 DEF SuspendStop, TypeInv
  <2>3. UNCHANGED <<phase, cfg, awsInitialized, initDone, initErr, suspended, client, made, backend, served, open,
                    active, timer, host, seen, waitCh, be, path, why, dpc>>
    BY <1>19 DEF SuspendStop
  <2> QED
    BY <2>1, <2>2, <2>3 DEF TypeInv
<1>20. CASE StopServers
  BY <1>20 DEF StopServers, TypeInv, Early, Phases
<1>21. CASE StopBackend
  BY <1>21 DEF StopBackend, TypeInv, Early, Phases
<1>22. CASE StopInstance
  BY <1>22 DEF StopInstance, TypeInv, Early, Phases
<1>23. CASE Exit
  BY <1>23 DEF Exit, TypeInv, Early, Phases
<1>24. CASE InstanceStops
  BY <1>24 DEF InstanceStops, TypeInv, Early, Phases
<1>25. CASE TunnelChanges
  BY <1>25 DEF TunnelChanges, TypeInv, Early, Phases
<1> QED
  BY <1>1, <1>2, <1>3, <1>4, <1>5, <1>6, <1>7, <1>8, <1>9, <1>10, <1>11, <1>12,
     <1>13, <1>14, <1>15, <1>16, <1>17, <1>18, <1>19, <1>20, <1>21, <1>22, <1>23, <1>24, <1>25
  DEF ManagerNext, InitializeProxy, EnsureInitialized, Suspend, Stop

\* The routes that connections leave by (RoutePreConnect, FallbackRoute, Dial).
LEMMA Routes ==
  /\ \A h : ~Proxied(h) => Route(Router, h) \in {"direct", "vm-direct"}
  /\ \A h : RoutePreConnect(Router, h) \in {"direct", "vm-direct", NoRoute}
  /\ \A current : FallbackRoute(Router, current) \in {"direct", "vm-direct", "proxy", NoRoute}
BY DEF Proxied, RoutePreConnect, FallbackRoute

\* In VM mode nothing falls back to the host's network (FallbackRoute).
LEMMA FallbackTrusted ==
  ASSUME NEW h, FallbackRoute(Router, Route(Router, h)) = "direct"
  PROVE  ~VMMode(cfg)
<1>1. Router.vmMode = VMMode(cfg)
  BY DEF Router, NewRouter, Join
<1>2. ~Router.vmMode
  <2> DEFINE r == Router   current == Route(Router, h)
  <2>1. FallbackRoute(r, current) = "direct"
    OBVIOUS
  <2> HIDE DEF r, current
  <2> QED
    BY <2>1 DEF FallbackRoute, NoRoute
<1> QED
  BY <1>1, <1>2

\* A step of a dialer changes nothing of the other dialers, and of the manager
\* at most the idle timer, the tunnel's state and whether its own
\* EnsureInitialized is to run.
DialerStep(d) == DialProceeds(d) \/ \E h \in Hosts : DialByRule(d, h) \/ DialGate(d, h)

LEMMA DialerFrame ==
  ASSUME IndInv, SecondInv, NEW d \in Dialers, DialerStep(d)
  PROVE  /\ dpc' = [dpc EXCEPT ![d] = dpc'[d]] /\ path' = [path EXCEPT ![d] = path'[d]]
         /\ why' = [why EXCEPT ![d] = why'[d]] /\ host' = [host EXCEPT ![d] = host'[d]]
         /\ seen' = [seen EXCEPT ![d] = seen'[d]] /\ waitCh' = [waitCh EXCEPT ![d] = waitCh'[d]]
         /\ be' = [be EXCEPT ![d] = be'[d]] /\ ipc' = [ipc EXCEPT ![d] = ipc'[d]]
         /\ UNCHANGED <<configVars, mu, latchVars, backend, made, open, served, suspended, fire, ec2Vars>>
<1> USE DEF SecondInv, managerVars, configVars, latchVars, backendVars, idleVars, ec2Vars
<1>a. /\ dpc \in [Dialers -> DialSteps] /\ path \in [Dialers -> {"", "direct", "vm-direct", "proxy", "error"}]
      /\ why \in [Dialers -> Reasons] /\ host \in [Dialers -> Hosts \cup {None}]
      /\ seen \in [Dialers -> 0 .. initDone] /\ waitCh \in [Dialers -> 0 .. initDone]
      /\ be \in [Dialers -> 0 .. served]
      /\ ipc \in [Dialers \cup {Main} -> Initialising \cup Publishing \cup {"none", "spawned"}]
  BY DEF TypeInv, IndInv, MutexInv
<1>b. /\ dpc = [dpc EXCEPT ![d] = dpc[d]] /\ path = [path EXCEPT ![d] = path[d]]
      /\ why = [why EXCEPT ![d] = why[d]] /\ host = [host EXCEPT ![d] = host[d]]
      /\ seen = [seen EXCEPT ![d] = seen[d]] /\ waitCh = [waitCh EXCEPT ![d] = waitCh[d]]
      /\ be = [be EXCEPT ![d] = be[d]] /\ ipc = [ipc EXCEPT ![d] = ipc[d]]
  BY <1>a
<1>1. CASE DialFetch(d)
  BY <1>1, <1>a, <1>b DEF DialFetch, Goto
<1>2. CASE DialWoken(d)
  <2>1. PICK l : dpc' = [dpc EXCEPT ![d] = l]
    BY <1>2 DEF DialWoken, Goto, Return
  <2>2. \/ path' = path /\ why' = why
        \/ \E way, r : path' = [path EXCEPT ![d] = way] /\ why' = [why EXCEPT ![d] = r]
    BY <1>2 DEF DialWoken, Return
  <2>3. UNCHANGED <<managerVars, host, seen, waitCh, be>>
    BY <1>2 DEF DialWoken
  <2> QED
    BY <1>a, <1>b, <2>1, <2>2, <2>3
<1>3. CASE DialProxy(d)
  <2>1. PICK l : dpc' = [dpc EXCEPT ![d] = l]
    BY <1>3 DEF DialProxy, Goto, Return
  <2>2. \/ path' = path /\ why' = why
        \/ \E way, r : path' = [path EXCEPT ![d] = way] /\ why' = [why EXCEPT ![d] = r]
    BY <1>3 DEF DialProxy, Return
  <2>3. be' = be \/ \E b : be' = [be EXCEPT ![d] = b]
    BY <1>3 DEF DialProxy
  <2>4. UNCHANGED <<managerVars, host, seen, waitCh>>
    BY <1>3 DEF DialProxy
  <2> QED
    BY <1>a, <1>b, <2>1, <2>2, <2>3, <2>4
<1>4. CASE DialSucceeds(d)
  BY <1>4, <1>a, <1>b DEF DialSucceeds, Goto
<1>5. CASE DialTouch(d)
  BY <1>5, <1>a, <1>b DEF DialTouch, Goto, Return
<1>6. CASE DialFails(d)
  <2>1. PICK way, reason : Return(d, way, reason)
    BY <1>6 DEF DialFails
  <2>2. UNCHANGED <<managerVars, host, seen, waitCh, be>>
    BY <1>6 DEF DialFails
  <2> QED
    BY <1>a, <1>b, <2>1, <2>2 DEF Goto, Return
<1>7. ASSUME NEW h \in Hosts, DialByRule(d, h)
      PROVE  /\ dpc' = [dpc EXCEPT ![d] = dpc'[d]] /\ path' = [path EXCEPT ![d] = path'[d]]
             /\ why' = [why EXCEPT ![d] = why'[d]] /\ host' = [host EXCEPT ![d] = host'[d]]
             /\ seen' = [seen EXCEPT ![d] = seen'[d]] /\ waitCh' = [waitCh EXCEPT ![d] = waitCh'[d]]
             /\ be' = [be EXCEPT ![d] = be'[d]] /\ ipc' = [ipc EXCEPT ![d] = ipc'[d]]
             /\ UNCHANGED <<configVars, mu, latchVars, backend, made, open, served, suspended, fire, ec2Vars>>
  BY <1>7, <1>a, <1>b DEF DialByRule, Goto, Return
<1>8. ASSUME NEW h \in Hosts, DialGate(d, h)
      PROVE  /\ dpc' = [dpc EXCEPT ![d] = dpc'[d]] /\ path' = [path EXCEPT ![d] = path'[d]]
             /\ why' = [why EXCEPT ![d] = why'[d]] /\ host' = [host EXCEPT ![d] = host'[d]]
             /\ seen' = [seen EXCEPT ![d] = seen'[d]] /\ waitCh' = [waitCh EXCEPT ![d] = waitCh'[d]]
             /\ be' = [be EXCEPT ![d] = be'[d]] /\ ipc' = [ipc EXCEPT ![d] = ipc'[d]]
             /\ UNCHANGED <<configVars, mu, latchVars, backend, made, open, served, suspended, fire, ec2Vars>>
  <2>1. PICK n, s : /\ host' = [host EXCEPT ![d] = h]
                    /\ seen' = [seen EXCEPT ![d] = n] /\ ipc' = [ipc EXCEPT ![d] = s]
    BY <1>8 DEF DialGate
  <2>2. PICK l, r : dpc' = [dpc EXCEPT ![d] = l] /\ why' = [why EXCEPT ![d] = r]
    BY <1>8 DEF DialGate, Goto, Return
  <2>3. \/ path' = path
        \/ \E way : path' = [path EXCEPT ![d] = way]
    BY <1>8 DEF DialGate, Return
  <2>4. waitCh' = waitCh /\ be' = be
        /\ UNCHANGED <<configVars, mu, latchVars, backend, made, open, served, suspended, fire, ec2Vars>>
    BY <1>8 DEF DialGate
  <2> QED
    BY <1>a, <1>b, <2>1, <2>2, <2>3, <2>4
<1> QED
  BY <1>1, <1>2, <1>3, <1>4, <1>5, <1>6, <1>7, <1>8 DEF DialerStep, DialProceeds

LEMMA DialerValues ==
  ASSUME IndInv, SecondInv, NEW d \in Dialers, DialerStep(d)
  PROVE  /\ dpc'[d] \in DialSteps \ {"idle"} /\ path'[d] \in {"", "direct", "vm-direct", "proxy", "error"}
         /\ why'[d] \in Reasons /\ host'[d] \in Hosts \cup {None}
         /\ seen'[d] \in 0 .. initDone /\ waitCh'[d] \in 0 .. initDone /\ be'[d] \in 0 .. served
         /\ dpc'[d] \in {"dialing", "touch"} => be'[d] # 0
         /\ timer' \in {"off", "fresh", "armed"} /\ active' \subseteq 1 .. made
<1> USE DEF SecondInv, managerVars, configVars, latchVars, backendVars, idleVars, ec2Vars, DialSteps, Reasons
<1>a. /\ dpc \in [Dialers -> DialSteps] /\ path \in [Dialers -> {"", "direct", "vm-direct", "proxy", "error"}]
      /\ why \in [Dialers -> Reasons] /\ host \in [Dialers -> Hosts \cup {None}]
      /\ timer \in {"off", "fresh", "armed"}
  BY DEF TypeInv, IndInv, MutexInv
<1>b. /\ seen \in [Dialers -> 0 .. initDone] /\ waitCh \in [Dialers -> 0 .. initDone]
      /\ be \in [Dialers -> 0 .. served] /\ initDone \in 0 .. initDone /\ 0 \in 0 .. initDone
      /\ served \in 0 .. served /\ active \subseteq 1 .. made
      /\ \A b \in 0 .. served : b # 0 => b \in 1 .. made
  BY Numbers
<1>c. dpc[d] = "dialing" => be[d] # 0
  BY DEF TypeInv
<1>1. CASE DialFetch(d)
  BY <1>1, <1>a, <1>b DEF DialFetch, Goto
<1>2. CASE DialWoken(d)
  BY <1>2, <1>a, <1>b DEF DialWoken, Goto, Return
<1>3. CASE DialProxy(d)
  BY <1>3, <1>a, <1>b DEF DialProxy, Goto, Return
<1>4. CASE DialSucceeds(d)
  <2>1. be[d] \in 1 .. made
    BY <1>4, <1>b, <1>c DEF DialSucceeds
  <2>2. active' \subseteq 1 .. made /\ be'[d] # 0
    <3>1. active' = active \cup {be[d]} /\ be' = be /\ be[d] # 0
      BY <1>4, <1>c DEF DialSucceeds
    <3> QED
      BY <1>b, <2>1, <3>1
  <2> QED
    BY <1>4, <1>a, <1>b, <2>2 DEF DialSucceeds, Goto
<1>5. CASE DialTouch(d)
  BY <1>5, <1>a, <1>b DEF DialTouch, Goto, Return, Touch
<1>6. CASE DialFails(d)
  <2>1. PICK way \in {"direct", "vm-direct", "proxy"} : Return(d, way, "fallback") \/ Return(d, "error", "backend")
    BY <1>6, Routes DEF DialFails
  <2>2. UNCHANGED <<managerVars, host, seen, waitCh, be>>
    BY <1>6 DEF DialFails
  <2> QED
    BY <1>a, <1>b, <2>1, <2>2 DEF Goto, Return
<1>7. ASSUME NEW h \in Hosts, DialByRule(d, h)
      PROVE  /\ dpc'[d] \in DialSteps \ {"idle"} /\ path'[d] \in {"", "direct", "vm-direct", "proxy", "error"}
             /\ why'[d] \in Reasons /\ host'[d] \in Hosts \cup {None}
             /\ seen'[d] \in 0 .. initDone /\ waitCh'[d] \in 0 .. initDone /\ be'[d] \in 0 .. served
             /\ dpc'[d] \in {"dialing", "touch"} => be'[d] # 0
             /\ timer' \in {"off", "fresh", "armed"} /\ active' \subseteq 1 .. made
  BY <1>7, <1>a, <1>b, Routes DEF DialByRule, Goto, Return
<1>8. ASSUME NEW h \in Hosts, DialGate(d, h)
      PROVE  /\ dpc'[d] \in DialSteps \ {"idle"} /\ path'[d] \in {"", "direct", "vm-direct", "proxy", "error"}
             /\ why'[d] \in Reasons /\ host'[d] \in Hosts \cup {None}
             /\ seen'[d] \in 0 .. initDone /\ waitCh'[d] \in 0 .. initDone /\ be'[d] \in 0 .. served
             /\ dpc'[d] \in {"dialing", "touch"} => be'[d] # 0
             /\ timer' \in {"off", "fresh", "armed"} /\ active' \subseteq 1 .. made
  <2>1. RoutePreConnect(Router, ResolveHost(Router, h)) \in {"direct", "vm-direct", NoRoute}
    BY Routes
  <2>2. \/ \E way \in {"direct", "vm-direct"} : Return(d, way, "pre-connect")
        \/ /\ \E l \in {"dial", "fetch"} : Goto(d, l)
           /\ \E r \in {"failed", ""} : why' = [why EXCEPT ![d] = r]
           /\ UNCHANGED path
    BY <1>8, <2>1 DEF DialGate
  <2>3. /\ host' = [host EXCEPT ![d] = h] /\ waitCh' = waitCh /\ be' = be /\ active' = active /\ timer' = timer
        /\ \E n \in {0, initDone} : seen' = [seen EXCEPT ![d] = n]
    BY <1>8 DEF DialGate
  <2>4. /\ dpc'[d] \in DialSteps \ {"idle", "dialing", "touch"} /\ why'[d] \in Reasons
        /\ path'[d] \in {"", "direct", "vm-direct", "proxy", "error"}
    BY <1>a, <1>b, <2>2 DEF Goto, Return
  <2> QED
    BY <1>a, <1>b, <2>3, <2>4
<1> QED
  BY <1>1, <1>2, <1>3, <1>4, <1>5, <1>6, <1>7, <1>8 DEF DialerStep, DialProceeds

\* The steps of the dialers keep the types.
LEMMA DialerType ==
  ASSUME IndInv, SecondInv, NEW d \in Dialers, DialerStep(d)
  PROVE  TypeInv'
<1> USE DEF SecondInv
<1>1. /\ dpc \in [Dialers -> DialSteps]
      /\ UNCHANGED <<phase, cfg, awsInitialized, initErr, suspended, client, byIdle, made, backend,
                     served, open, initDone>>
  BY DialerFrame DEF IndInv, MutexInv, configVars, latchVars, ec2Vars
<1>2. \A c \in Dialers : dpc'[c] = (IF c = d THEN dpc'[d] ELSE dpc[c])
                         /\ path'[c] = (IF c = d THEN path'[d] ELSE path[c])
                         /\ be'[c] = (IF c = d THEN be'[d] ELSE be[c])
  <2>1. DOMAIN dpc = Dialers /\ DOMAIN path = Dialers /\ DOMAIN be = Dialers
    BY <1>1 DEF TypeInv
  <2> QED
    BY <2>1, DialerFrame
<1>3. /\ path' \in [Dialers -> {"", "direct", "vm-direct", "proxy", "error"}]
      /\ why' \in [Dialers -> Reasons] /\ host' \in [Dialers -> Hosts \cup {None}]
  <2>1. path' = [path EXCEPT ![d] = path'[d]] /\ path'[d] \in {"", "direct", "vm-direct", "proxy", "error"}
    BY DialerFrame, DialerValues
  <2>2. why' = [why EXCEPT ![d] = why'[d]] /\ why'[d] \in Reasons
    BY DialerFrame, DialerValues
  <2>3. host' = [host EXCEPT ![d] = host'[d]] /\ host'[d] \in Hosts \cup {None}
    BY DialerFrame, DialerValues
  <2>4. why \in [Dialers -> Reasons] /\ host \in [Dialers -> Hosts \cup {None}]
        /\ path \in [Dialers -> {"", "direct", "vm-direct", "proxy", "error"}]
    BY DEF TypeInv
  <2> QED
    BY <2>1, <2>2, <2>3, <2>4
<1>4. /\ seen' \in [Dialers -> 0 .. initDone'] /\ waitCh' \in [Dialers -> 0 .. initDone']
      /\ be' \in [Dialers -> 0 .. served']
  <2>1. seen' = [seen EXCEPT ![d] = seen'[d]] /\ seen'[d] \in 0 .. initDone
    BY DialerFrame, DialerValues
  <2>2. waitCh' = [waitCh EXCEPT ![d] = waitCh'[d]] /\ waitCh'[d] \in 0 .. initDone
    BY DialerFrame, DialerValues
  <2>3. be' = [be EXCEPT ![d] = be'[d]] /\ be'[d] \in 0 .. served
    BY DialerFrame, DialerValues
  <2>4. seen \in [Dialers -> 0 .. initDone] /\ waitCh \in [Dialers -> 0 .. initDone]
        /\ be \in [Dialers -> 0 .. served]
    BY DEF TypeInv
  <2> QED
    BY <1>1, <2>1, <2>2, <2>3, <2>4
<1>5. /\ \A c \in Dialers : dpc'[c] \in {"dialing", "touch"} => be'[c] # 0
      /\ \A c \in Dialers : dpc'[c] = "idle" => path'[c] = ""
  BY <1>2, DialerValues DEF TypeInv
<1> QED
  BY <1>1, <1>3, <1>4, <1>5, DialerValues DEF TypeInv

-----------------------------------------------------------------------------
(* The backend that the dialers hold, and the ways connections leave by.     *)

\* One initialisation runs at a time, Start's or a Dial's, and only while AWS
\* is not initialised.
LEMMA OneInitialises ==
  ASSUME IndInv, NEW p \in Dialers \cup {Main}, ipc[p] \in Initialising \cup Publishing
  PROVE  /\ \A q \in Dialers \cup {Main} : ipc[q] \in Initialising \cup Publishing => q = p
         /\ ~awsInitialized
         /\ p = Main => phase = "eager" /\ ipc[p] \notin {"finish", "fail", "replace"}
         /\ p # Main => mu = p /\ phase \notin Early
<1>1. CASE p = Main
  <2>1. phase = "eager" /\ \A d \in Dialers : ipc[d] = "none"
    BY <1>1 DEF IndInv, MutexInv, Initialising, Publishing
  <2> QED
    BY <1>1, <2>1 DEF IndInv, MutexInv, Initialising, Publishing
<1>2. CASE p # Main
  <2>1. p \in Dialers /\ mu = p
    BY <1>2 DEF IndInv, MutexInv
  <2>2. mu # None
    BY <2>1, ActorsAssumption
  <2>3. ~awsInitialized
    BY <2>2 DEF IndInv, LatchInv
  <2>4. ipc[p] # "none"
    BY DEF Initialising, Publishing
  <2>5. dpc[p] # "idle" /\ phase \notin Early
    BY <2>1, <2>4 DEF IndInv, MutexInv, Early
  <2>6. ipc[Main] = "none"
    BY <2>5 DEF IndInv, MutexInv, Early
  <2> QED
    BY <1>2, <2>1, <2>3, <2>5, <2>6 DEF IndInv, MutexInv, Initialising, Publishing
<1> QED
  BY <1>1, <1>2

\* EnsureInitialized switches auto-start on and leaves the rest of the
\* configuration.
LEMMA ConfigKept ==
  ASSUME IndInv, SecondInv, Alive, NEW d \in Dialers, EnsureLock(d)
  PROVE  /\ NeedsProxy(cfg') = NeedsProxy(cfg) /\ VMMode(cfg') = VMMode(cfg) /\ cfg'.lazy = cfg.lazy
         /\ cfg'.autoStart <=> cfg.autoStart \/ (~awsInitialized /\ suspended)
<1>1. phase \notin Early
  BY Running DEF EnsureLock
<1>2. {"instance", "network", "lazy", "idle", "autoStart", "routing"} \subseteq DOMAIN cfg
  BY <1>1 DEF SecondInv, TypeInv, Alive, Early
<1>3. cfg' = (IF awsInitialized THEN cfg ELSE [cfg EXCEPT !.autoStart = cfg.autoStart \/ suspended])
  BY DEF EnsureLock
<1>4. /\ cfg'.instance = cfg.instance /\ cfg'.network = cfg.network /\ cfg'.routing = cfg.routing
      /\ cfg'.lazy = cfg.lazy
  BY <1>2, <1>3
<1>5. cfg'.autoStart <=> cfg.autoStart \/ (~awsInitialized /\ suspended)
  BY <1>2, <1>3
<1> QED
  BY <1>4, <1>5 DEF NeedsProxy, VMMode

\* The steps of the manager keep the dialers' backend.
LEMMA ManagerServed ==
  ASSUME IndInv, SecondInv, Alive, ManagerNext, UNCHANGED dialerVars
  PROVE  ServedInv'
<1> USE ActorsAssumption
      DEF SecondInv, configVars, latchVars, backendVars, idleVars, ec2Vars, dialerVars
<1>1. CASE LoadConfig
  BY <1>1 DEF LoadConfig, ServedInv, TypeInv, IndInv, MutexInv, Early, Initialising, Publishing, Alive
<1>2. CASE StartVMFails
  BY <1>2 DEF StartVMFails, ServedInv, TypeInv, IndInv, MutexInv, Early, Initialising, Publishing, Alive
<1>3. CASE Start
  <2>1. closed = {} /\ ~awsInitialized /\ \A d \in Dialers : ipc[d] = "none" /\ dpc[d] = "idle"
    BY <1>3 DEF Start, IndInv, MutexInv
  <2>2. \A p \in Dialers \cup {Main} : ipc'[p] # "publish" /\ (p # Main => ipc'[p] # "finish")
    BY <1>3, <2>1 DEF Start, IndInv, MutexInv
  <2>3. phase' \notin Early /\ NeedsProxy(cfg) => cfg.lazy
    BY <1>3 DEF Start, Early
  <2> QED
    BY <1>3, <2>1, <2>2, <2>3 DEF Start, ServedInv
<1>4. CASE StartServers
  <2>1. served < backend /\ ipc[Main] = "publish"
    BY <1>4 DEF StartServers, ServedInv
  <2>2. served' # 0
    BY <1>4, <2>1, Numbers DEF StartServers
  <2>3. \A d \in Dialers : ipc[d] = "none"
    BY <1>4 DEF StartServers, IndInv, MutexInv
  <2>4. \A p \in Dialers \cup {Main} : ipc'[p] # "publish"
    BY <1>4, <2>3 DEF StartServers, IndInv, MutexInv
  <2> QED
    BY <1>4, <2>2, <2>4 DEF StartServers, ServedInv
<1>5. ASSUME NEW p \in Dialers \cup {Main}, InitDescribe(p) PROVE ServedInv'
  <2>1. PICK x \in {"stopping", "stopped", "backend", "running"} : ipc' = [ipc EXCEPT ![p] = x]
    BY <1>5 DEF InitDescribe, GetInstanceState, IndInv, MutexInv
  <2>2. \A q \in Dialers \cup {Main} :
          (ipc'[q] = "publish" => ipc[q] = "publish") /\ (ipc'[q] = "finish" => ipc[q] = "finish")
    BY <2>1 DEF IndInv, MutexInv
  <2> QED
    BY <1>5, <2>2 DEF InitDescribe, ServedInv
<1>6. ASSUME NEW p \in Dialers \cup {Main}, InitAwaitStopped(p) PROVE ServedInv'
  BY <1>6
  DEF InitAwaitStopped, ServedInv, TypeInv, IndInv, MutexInv, Early, Initialising, Publishing, Alive
<1>7. ASSUME NEW p \in Dialers \cup {Main}, InitStartInstance(p) PROVE ServedInv'
  BY <1>7
  DEF InitStartInstance, ServedInv, TypeInv, IndInv, MutexInv, Early, Initialising, Publishing, Alive
<1>8. ASSUME NEW p \in Dialers \cup {Main}, InitAwaitAgent(p) PROVE ServedInv'
  BY <1>8
  DEF InitAwaitAgent, ServedInv, TypeInv, IndInv, MutexInv, Early, Initialising, Publishing, Alive
<1>9. ASSUME NEW p \in Dialers \cup {Main}, InitBackend(p) PROVE ServedInv'
  <2>1. \A q \in Dialers \cup {Main} : ipc[q] \in Initialising \cup Publishing => q = p
    BY <1>9, OneInitialises DEF InitBackend, Initialising
  <2>2. \A q \in Dialers \cup {Main} : ipc'[q] # "finish" /\ (q # p => ipc'[q] # "publish")
    BY <1>9, <2>1 DEF InitBackend, IndInv, MutexInv, Publishing
  <2>3. served < backend'
    BY <1>9, Numbers DEF InitBackend
  <2> QED
    BY <1>9, <2>2, <2>3 DEF InitBackend, ServedInv
<1>10. ASSUME NEW p \in Dialers \cup {Main}, InitFails(p) PROVE ServedInv'
  BY <1>10 DEF InitFails, ServedInv, TypeInv, IndInv, MutexInv, Early, Initialising, Publishing, Alive
<1>11. ASSUME NEW d \in Dialers, EnsureLock(d) PROVE ServedInv'
  <2>1. \A q \in Dialers \cup {Main} :
          (ipc'[q] = "publish" => ipc[q] = "publish") /\ (ipc'[q] = "finish" => ipc[q] = "finish")
    BY <1>11 DEF EnsureLock, IndInv, MutexInv
  <2>2. UNCHANGED <<phase, awsInitialized, closed, initErr, backend, served, dpc, why>>
    BY <1>11 DEF EnsureLock
  <2> QED
    BY <1>11, <2>1, <2>2, ConfigKept DEF ServedInv
<1>12. ASSUME NEW d \in Dialers, EnsurePublish(d) PROVE ServedInv'
  <2>1. served < backend
    BY <1>12 DEF EnsurePublish, ServedInv
  <2>2. served' # 0
    BY <1>12, <2>1, Numbers DEF EnsurePublish
  <2>3. \A q \in Dialers \cup {Main} : ipc[q] \in Initialising \cup Publishing => q = d
    BY <1>12, OneInitialises DEF EnsurePublish, Publishing
  <2>4. \A q \in Dialers \cup {Main} : ipc'[q] # "publish"
    BY <1>12, <2>3 DEF EnsurePublish, IndInv, MutexInv, Publishing
  <2> QED
    BY <1>12, <2>2, <2>4 DEF EnsurePublish, ServedInv
<1>13. ASSUME NEW d \in Dialers, EnsureFinish(d) PROVE ServedInv'
  BY <1>13
  DEF EnsureFinish, ServedInv, TypeInv, IndInv, MutexInv, Early, Initialising, Publishing, Alive
<1>14. ASSUME NEW d \in Dialers, EnsureFailClose(d) PROVE ServedInv'
  BY <1>14
  DEF EnsureFailClose, ServedInv, TypeInv, IndInv, MutexInv, Early, Initialising, Publishing, Alive
<1>15. ASSUME NEW d \in Dialers, EnsureFailReplace(d) PROVE ServedInv'
  BY <1>15
  DEF EnsureFailReplace, ServedInv, TypeInv, IndInv, MutexInv, Early, Initialising, Publishing, Alive
<1>16. ASSUME NEW f \in Fires, IdleFires(f) PROVE ServedInv'
  BY <1>16 DEF IdleFires, ServedInv, TypeInv, IndInv, MutexInv, Early, Initialising, Publishing, Alive
<1>17. ASSUME NEW f \in Fires, SuspendLock(f) PROVE ServedInv'
  BY <1>17 DEF SuspendLock, ServedInv, TypeInv, IndInv, MutexInv, Early, Initialising, Publishing, Alive
<1>18. ASSUME NEW f \in Fires, SuspendClose(f) PROVE ServedInv'
  <2>1. UNCHANGED <<phase, cfg, awsInitialized, closed, initErr, served, ipc, dpc, why>> /\ fire[f] = "close"
    BY <1>18 DEF SuspendClose
  <2>2. mu = f /\ \A q \in Dialers \cup {Main} : ipc'[q] # "publish"
    <3>1. mu = f /\ phase \notin Early
      BY <2>1, Running DEF IndInv, MutexInv
    <3> QED
      BY <2>1, <3>1 DEF IndInv, MutexInv, Initialising, Publishing, Early
  <2> QED
    BY <2>1, <2>2 DEF ServedInv
<1>19. ASSUME NEW f \in Fires, SuspendStop(f) PROVE ServedInv'
  BY <1>19 DEF SuspendStop, ServedInv, TypeInv, IndInv, MutexInv, Early, Initialising, Publishing, Alive
<1>20. CASE StopServers
  BY <1>20 DEF StopServers, ServedInv, TypeInv, IndInv, MutexInv, Early, Initialising, Publishing, Alive
<1>21. CASE StopBackend
  BY <1>21 DEF StopBackend, ServedInv, TypeInv, IndInv, MutexInv, Early, Initialising, Publishing, Alive
<1>22. CASE StopInstance
  BY <1>22
  DEF StopInstance, ServedInv, TypeInv, IndInv, MutexInv, Early, Initialising, Publishing, Alive
<1>23. CASE Exit
  BY <1>23 DEF Exit, ServedInv, TypeInv, IndInv, MutexInv, Early, Initialising, Publishing, Alive
<1>24. CASE InstanceStops
  BY <1>24
  DEF InstanceStops, ServedInv, TypeInv, IndInv, MutexInv, Early, Initialising, Publishing, Alive
<1>25. CASE TunnelChanges
  BY <1>25
  DEF TunnelChanges, ServedInv, TypeInv, IndInv, MutexInv, Early, Initialising, Publishing, Alive
<1> QED
  BY <1>1, <1>2, <1>3, <1>4, <1>5, <1>6, <1>7, <1>8, <1>9, <1>10, <1>11, <1>12,
     <1>13, <1>14, <1>15, <1>16, <1>17, <1>18, <1>19, <1>20, <1>21, <1>22, <1>23, <1>24, <1>25
  DEF ManagerNext, InitializeProxy, EnsureInitialized, Suspend, Stop

\* The steps of the manager do not make a choice wrong.
LEMMA ManagerChoice ==
  ASSUME IndInv, SecondInv, Alive, ManagerNext, UNCHANGED dialerVars
  PROVE  OnlyByChoice'
<1> USE ActorsAssumption
      DEF SecondInv, configVars, latchVars, backendVars, idleVars, ec2Vars, dialerVars
<1>1. CASE LoadConfig
  <2>1. \A d \in Dialers : path'[d] = ""
    BY <1>1 DEF LoadConfig, TypeInv, IndInv, MutexInv
  <2> QED
    BY <2>1 DEF OnlyByChoice
<1>2. CASE StartVMFails
  BY <1>2 DEF StartVMFails, OnlyByChoice
<1>3. CASE Start
  BY <1>3 DEF Start, OnlyByChoice
<1>4. CASE StartServers
  BY <1>4 DEF StartServers, OnlyByChoice
<1>5. ASSUME NEW p \in Dialers \cup {Main}, InitDescribe(p) PROVE OnlyByChoice'
  BY <1>5 DEF InitDescribe, OnlyByChoice
<1>6. ASSUME NEW p \in Dialers \cup {Main}, InitAwaitStopped(p) PROVE OnlyByChoice'
  BY <1>6 DEF InitAwaitStopped, OnlyByChoice
<1>7. ASSUME NEW p \in Dialers \cup {Main}, InitStartInstance(p) PROVE OnlyByChoice'
  BY <1>7 DEF InitStartInstance, OnlyByChoice
<1>8. ASSUME NEW p \in Dialers \cup {Main}, InitAwaitAgent(p) PROVE OnlyByChoice'
  BY <1>8 DEF InitAwaitAgent, OnlyByChoice
<1>9. ASSUME NEW p \in Dialers \cup {Main}, InitBackend(p) PROVE OnlyByChoice'
  BY <1>9 DEF InitBackend, OnlyByChoice
<1>10. ASSUME NEW p \in Dialers \cup {Main}, InitFails(p) PROVE OnlyByChoice'
  BY <1>10 DEF InitFails, OnlyByChoice
<1>11. ASSUME NEW d \in Dialers, EnsureLock(d) PROVE OnlyByChoice'
  BY <1>11, ConfigKept DEF EnsureLock, OnlyByChoice
<1>12. ASSUME NEW d \in Dialers, EnsurePublish(d) PROVE OnlyByChoice'
  BY <1>12 DEF EnsurePublish, OnlyByChoice
<1>13. ASSUME NEW d \in Dialers, EnsureFinish(d) PROVE OnlyByChoice'
  BY <1>13 DEF EnsureFinish, OnlyByChoice
<1>14. ASSUME NEW d \in Dialers, EnsureFailClose(d) PROVE OnlyByChoice'
  BY <1>14 DEF EnsureFailClose, OnlyByChoice
<1>15. ASSUME NEW d \in Dialers, EnsureFailReplace(d) PROVE OnlyByChoice'
  BY <1>15 DEF EnsureFailReplace, OnlyByChoice
<1>16. ASSUME NEW f \in Fires, IdleFires(f) PROVE OnlyByChoice'
  BY <1>16 DEF IdleFires, OnlyByChoice
<1>17. ASSUME NEW f \in Fires, SuspendLock(f) PROVE OnlyByChoice'
  BY <1>17 DEF SuspendLock, OnlyByChoice
<1>18. ASSUME NEW f \in Fires, SuspendClose(f) PROVE OnlyByChoice'
  BY <1>18 DEF SuspendClose, OnlyByChoice
<1>19. ASSUME NEW f \in Fires, SuspendStop(f) PROVE OnlyByChoice'
  BY <1>19 DEF SuspendStop, OnlyByChoice
<1>20. CASE StopServers
  BY <1>20 DEF StopServers, OnlyByChoice
<1>21. CASE StopBackend
  BY <1>21 DEF StopBackend, OnlyByChoice
<1>22. CASE StopInstance
  BY <1>22 DEF StopInstance, OnlyByChoice
<1>23. CASE Exit
  BY <1>23 DEF Exit, OnlyByChoice
<1>24. CASE InstanceStops
  BY <1>24 DEF InstanceStops, OnlyByChoice
<1>25. CASE TunnelChanges
  BY <1>25 DEF TunnelChanges, OnlyByChoice
<1> QED
  BY <1>1, <1>2, <1>3, <1>4, <1>5, <1>6, <1>7, <1>8, <1>9, <1>10, <1>11, <1>12,
     <1>13, <1>14, <1>15, <1>16, <1>17, <1>18, <1>19, <1>20, <1>21, <1>22, <1>23, <1>24, <1>25
  DEF ManagerNext, InitializeProxy, EnsureInitialized, Suspend, Stop

\* A Dial may ask for an EnsureInitialized, nothing else.
LEMMA DialerAsks ==
  ASSUME IndInv, SecondInv, NEW d \in Dialers, DialerStep(d)
  PROVE  /\ \A p \in Dialers \cup {Main} :
              ipc'[p] = ipc[p] \/ (p = d /\ ipc[p] = "none" /\ ipc'[p] = "spawned" /\ initDone \notin closed)
         /\ \A c \in Dialers \ {d} : dpc'[c] = dpc[c] /\ why'[c] = why[c] /\ path'[c] = path[c]
         /\ ipc[d] = "none" /\ dpc[d] # "idle" => ipc'[d] = "none"
         /\ dpc'[d] # "idle"
         /\ UNCHANGED <<configVars, mu, latchVars, backend, made, open, served, suspended, fire, ec2Vars>>
<1>1. /\ dpc \in [Dialers -> DialSteps] /\ DOMAIN why = Dialers /\ DOMAIN path = Dialers
      /\ ipc \in [Dialers \cup {Main} -> Initialising \cup Publishing \cup {"none", "spawned"}]
  BY DEF IndInv, SecondInv, TypeInv, MutexInv
<1>2. DialProceeds(d) \/ (\E h \in Hosts : DialByRule(d, h)) => ipc' = ipc
  BY DEF DialProceeds, DialFetch, DialWoken, DialProxy, DialSucceeds, DialTouch, DialFails, DialByRule,
         managerVars
<1>3. ASSUME NEW h \in Hosts, DialGate(d, h)
      PROVE  /\ dpc[d] = "idle" /\ ipc[d] = "none"
             /\ ipc' = ipc \/ (ipc' = [ipc EXCEPT ![d] = "spawned"] /\ initDone \notin closed)
  <2>1. dpc[d] = "idle" /\ ipc[d] = "none"
    BY <1>3 DEF DialGate, IndInv, MutexInv
  <2>2. ipc' = [ipc EXCEPT ![d] = IF IsInitialized THEN ipc[d] ELSE "spawned"]
    BY <1>3 DEF DialGate
  <2>3. ~IsInitialized => initDone \notin closed
    BY DEF IsInitialized
  <2>4. ipc = [ipc EXCEPT ![d] = ipc[d]]
    BY <1>1
  <2>5. CASE IsInitialized
    BY <2>1, <2>2, <2>4, <2>5
  <2>6. CASE ~IsInitialized
    BY <2>1, <2>2, <2>3, <2>6
  <2> QED
    BY <2>5, <2>6
<1>4. \A p \in Dialers \cup {Main} :
        ipc'[p] = ipc[p] \/ (p = d /\ ipc[p] = "none" /\ ipc'[p] = "spawned" /\ initDone \notin closed)
  BY <1>1, <1>2, <1>3 DEF DialerStep
<1>5. ipc[d] = "none" /\ dpc[d] # "idle" => ipc'[d] = "none"
  BY <1>2, <1>3 DEF DialerStep
<1>6. \A c \in Dialers \ {d} : dpc'[c] = dpc[c] /\ why'[c] = why[c] /\ path'[c] = path[c]
  BY <1>1, DialerFrame
<1> QED
  BY <1>4, <1>5, <1>6, DialerFrame, DialerValues

\* Who is about to dial has a backend, or knows why not.
LEMMA DialHasBackend ==
  ASSUME IndInv, SecondInv, NEW d \in Dialers, DialerStep(d), dpc'[d] = "dial"
  PROVE  served # 0 \/ why'[d] = "failed" \/ ~NeedsProxy(cfg)
<1> USE DEF SecondInv
<1>0. DOMAIN dpc = Dialers /\ DOMAIN why = Dialers
  BY DEF IndInv, MutexInv, TypeInv
<1>1. CASE DialFetch(d)
  BY <1>0, <1>1 DEF DialFetch, Goto
<1>2. CASE DialWoken(d)
  <2>1. waitCh[d] \in closed /\ ~initErr
    BY <1>0, <1>2 DEF DialWoken, Goto, Return
  <2> QED
    BY <2>1 DEF ServedInv
<1>3. CASE DialProxy(d)
  BY <1>0, <1>3 DEF DialProxy, Goto, Return
<1>4. CASE DialSucceeds(d)
  BY <1>0, <1>4 DEF DialSucceeds, Goto
<1>5. CASE DialTouch(d)
  BY <1>0, <1>5 DEF DialTouch, Goto, Return
<1>6. CASE DialFails(d)
  BY <1>0, <1>6 DEF DialFails, Goto, Return
<1>7. ASSUME NEW h \in Hosts, DialByRule(d, h)
      PROVE  FALSE
  BY <1>0, <1>7 DEF DialByRule, Goto, Return
<1>8. ASSUME NEW h \in Hosts, DialGate(d, h)
      PROVE  served # 0 \/ why'[d] = "failed" \/ ~NeedsProxy(cfg)
  <2>1. /\ phase = "serving" /\ IsInitialized
        /\ why' = [why EXCEPT ![d] = IF IsInitialized /\ initErr THEN "failed" ELSE ""]
    BY <1>0, <1>8 DEF DialGate, Goto, Return
  <2>2. CASE HasLazyInitializer
    <3>1. closed # {}
      BY <2>1, <2>2 DEF IsInitialized
    <3>2. served # 0 \/ initErr
      BY <3>1 DEF ServedInv
    <3>3. initErr => why'[d] = "failed"
      BY <1>0, <2>1
    <3> QED
      BY <3>2, <3>3
  <2>3. CASE ~HasLazyInitializer
    <3>1. ~NeedsProxy(cfg) \/ ~cfg.lazy
      BY <2>3 DEF HasLazyInitializer
    <3> QED
      BY <2>1, <3>1 DEF ServedInv, Early
  <2> QED
    BY <2>2, <2>3
<1> QED
  BY <1>1, <1>2, <1>3, <1>4, <1>5, <1>6, <1>7, <1>8 DEF DialerStep, DialProceeds

LEMMA DialerServed ==
  ASSUME IndInv, SecondInv, NEW d \in Dialers, DialerStep(d)
  PROVE  ServedInv'
<1> USE DEF SecondInv
<1>1. /\ UNCHANGED <<phase, cfg, awsInitialized, closed, initErr, backend, served>>
      /\ \A p \in Dialers \cup {Main} : ipc'[p] \in {"publish", "finish"} => ipc[p] = ipc'[p]
      /\ \A c \in Dialers \ {d} : dpc'[c] = dpc[c] /\ why'[c] = why[c]
  BY DialerAsks DEF configVars, latchVars
<1>2. \A c \in Dialers : dpc'[c] = "dial" => served' # 0 \/ why'[c] = "failed" \/ ~NeedsProxy(cfg')
  BY <1>1, DialHasBackend DEF ServedInv
<1> QED
  BY <1>1, <1>2 DEF ServedInv, Early

LEMMA DialerChoice ==
  ASSUME IndInv, SecondInv, NEW d \in Dialers, DialerStep(d)
  PROVE  OnlyByChoice'
<1> USE DEF SecondInv
<1>1. DOMAIN why = Dialers /\ DOMAIN path = Dialers
  BY DEF TypeInv
<1>2. cfg' = cfg /\ \A c \in Dialers \ {d} : why'[c] = why[c] /\ path'[c] = path[c]
  BY DialerAsks DEF configVars
\* The new choice, if there is one.
<1>3. /\ path'[d] = "direct" /\ why'[d] = "fallback" => ~VMMode(cfg)
      /\ path'[d] = "direct" /\ why'[d] = "no backend" => ~NeedsProxy(cfg)
  <2>1. CASE DialFetch(d)
    BY <2>1 DEF DialFetch, OnlyByChoice
  <2>2. CASE DialWoken(d)
    BY <1>1, <2>2 DEF DialWoken, Return, OnlyByChoice
  <2>3. CASE DialProxy(d)
    <3>1. CASE served # 0
      BY <2>3, <3>1 DEF DialProxy, OnlyByChoice
    <3>2. CASE served = 0
      <4>1. dpc[d] = "dial" /\ why'[d] = IF why[d] = "failed" THEN "failed" ELSE "no backend"
        BY <1>1, <2>3, <3>2 DEF DialProxy, Return
      <4> QED
        BY <3>2, <4>1 DEF ServedInv
    <3> QED
      BY <3>1, <3>2
  <2>4. CASE DialSucceeds(d)
    BY <2>4 DEF DialSucceeds, OnlyByChoice
  <2>5. CASE DialTouch(d)
    BY <1>1, <2>5 DEF DialTouch, Return
  <2>6. CASE DialFails(d)
    <3>1. PICK way : /\ Return(d, way, "fallback") \/ Return(d, "error", "backend")
                     /\ way = FallbackRoute(Router, Route(Router, host[d]))
      BY <2>6 DEF DialFails
    <3>2. why'[d] # "no backend"
      BY <1>1, <3>1 DEF Return
    <3>3. path'[d] = "direct" => way = "direct"
      BY <1>1, <3>1 DEF Return
    <3> QED
      BY <3>1, <3>2, <3>3, FallbackTrusted
  <2>7. ASSUME NEW h \in Hosts, DialByRule(d, h)
        PROVE  why'[d] = "rule"
    BY <1>1, <2>7 DEF DialByRule, Return
  <2>8. ASSUME NEW h \in Hosts, DialGate(d, h)
        PROVE  why'[d] \in {"pre-connect", "failed", ""}
    BY <1>1, <2>8 DEF DialGate, Return
  <2> QED
    BY <2>1, <2>2, <2>3, <2>4, <2>5, <2>6, <2>7, <2>8 DEF DialerStep, DialProceeds
<1> QED
  BY <1>2, <1>3 DEF OnlyByChoice

-----------------------------------------------------------------------------
(* Suspend and resume.                                                       *)

\* Whoever initialises may do so.
LEMMA BusyIsCold ==
  ASSUME IndInv, NEW d \in Dialers, ipc[d] \in Initialising \cup Publishing
  PROVE  Cold /\ ~awsInitialized
<1>1. ~awsInitialized
  BY OneInitialises
<1>2. ipc[d] # "none"
  BY DEF Initialising, Publishing
<1> QED
  BY <1>1, <1>2 DEF IndInv, LatchInv, Cold

\* The steps of the manager, suspend and resume among them.
LEMMA ManagerResume ==
  ASSUME IndInv, SecondInv, Alive, ManagerNext, UNCHANGED dialerVars
  PROVE  ResumeInv'
<1> USE ActorsAssumption
      DEF SecondInv, configVars, latchVars, backendVars, idleVars, ec2Vars, dialerVars
<1>1. CASE LoadConfig
  BY <1>1
  DEF LoadConfig, ResumeInv, ResumeStartsInstance, Cold, Finishing, Quiet, Alive, TypeInv, IndInv,
      MutexInv, Early, Initialising, Publishing
<1>2. CASE StartVMFails
  BY <1>2
  DEF StartVMFails, ResumeInv, ResumeStartsInstance, Cold, Finishing, Quiet, Alive, TypeInv, IndInv,
      MutexInv, Early, Initialising, Publishing
<1>3. CASE Start
  BY <1>3
  DEF Start, ResumeInv, ResumeStartsInstance, Cold, Finishing, Quiet, Alive, TypeInv, IndInv,
      MutexInv, Early, Initialising, Publishing
<1>4. CASE StartServers
  BY <1>4
  DEF StartServers, ResumeInv, ResumeStartsInstance, Cold, Finishing, Quiet, Alive, TypeInv, IndInv,
      MutexInv, Early, Initialising, Publishing
<1>5. ASSUME NEW p \in Dialers \cup {Main}, InitDescribe(p) PROVE ResumeInv'
  BY <1>5
  DEF InitDescribe, ResumeInv, ResumeStartsInstance, Cold, Finishing, Quiet, Alive, TypeInv, IndInv,
      MutexInv, Early, Initialising, Publishing
<1>6. ASSUME NEW p \in Dialers \cup {Main}, InitAwaitStopped(p) PROVE ResumeInv'
  BY <1>6
  DEF InitAwaitStopped, ResumeInv, ResumeStartsInstance, Cold, Finishing, Quiet, Alive, TypeInv,
      IndInv, MutexInv, Early, Initialising, Publishing
<1>7. ASSUME NEW p \in Dialers \cup {Main}, InitStartInstance(p) PROVE ResumeInv'
  BY <1>7
  DEF InitStartInstance, ResumeInv, ResumeStartsInstance, Cold, Finishing, Quiet, Alive, TypeInv,
      IndInv, MutexInv, Early, Initialising, Publishing
<1>8. ASSUME NEW p \in Dialers \cup {Main}, InitAwaitAgent(p) PROVE ResumeInv'
  BY <1>8
  DEF InitAwaitAgent, ResumeInv, ResumeStartsInstance, Cold, Finishing, Quiet, Alive, TypeInv, IndInv,
      MutexInv, Early, Initialising, Publishing
<1>9. ASSUME NEW p \in Dialers \cup {Main}, InitBackend(p) PROVE ResumeInv'
  BY <1>9
  DEF InitBackend, ResumeInv, ResumeStartsInstance, Cold, Finishing, Quiet, Alive, TypeInv, IndInv,
      MutexInv, Early, Initialising, Publishing
<1>10. ASSUME NEW p \in Dialers \cup {Main}, InitFails(p) PROVE ResumeInv'
  BY <1>10
  DEF InitFails, ResumeInv, ResumeStartsInstance, Cold, Finishing, Quiet, Alive, TypeInv, IndInv,
      MutexInv, Early, Initialising, Publishing
<1>11. ASSUME NEW d \in Dialers, EnsureLock(d) PROVE ResumeInv'
  <2>1. /\ cfg'.autoStart <=> cfg.autoStart \/ (~awsInitialized /\ suspended)
        /\ UNCHANGED <<phase, awsInitialized, initDone, closed, timer, suspended, fire, dpc, byIdle>>
    BY <1>11, ConfigKept DEF EnsureLock
  <2>2. \A q \in Dialers : /\ ipc'[q] = "finish" <=> ipc[q] = "finish"
                           /\ ipc'[q] = "replace" <=> ipc[q] = "replace"
                           /\ ipc'[q] \in Initialising \cup Publishing =>
                                ipc[q] \in Initialising \cup Publishing \/ ~awsInitialized
    BY <1>11 DEF EnsureLock, IndInv, MutexInv, Initialising, Publishing
  <2>3. (Finishing' <=> Finishing) /\ (Cold' <=> Cold)
    BY <2>1, <2>2 DEF Finishing, Cold
  <2>4. Quiet => Quiet'
    BY <2>1, <2>3 DEF Quiet
  <2>5. \A q \in Dialers : ipc'[q] \in Initialising \cup Publishing /\ suspended' => cfg'.autoStart
    BY <2>1, <2>2 DEF ResumeInv
  <2> QED
    BY <2>1, <2>3, <2>4, <2>5 DEF ResumeInv, ResumeStartsInstance, Alive
<1>12. ASSUME NEW d \in Dialers, EnsurePublish(d) PROVE ResumeInv'
  BY <1>12
  DEF EnsurePublish, ResumeInv, ResumeStartsInstance, Cold, Finishing, Quiet, Alive, TypeInv, IndInv,
      MutexInv, Early, Initialising, Publishing
<1>13. ASSUME NEW d \in Dialers, EnsureFinish(d) PROVE ResumeInv'
  <2>1. ipc[d] \in Initialising \cup Publishing
    BY <1>13 DEF EnsureFinish, Publishing
  <2>2. Cold /\ ~awsInitialized /\ mu = d /\ phase \notin Early
        /\ \A q \in Dialers : ipc[q] \in Initialising \cup Publishing => q = d
    BY <2>1, BusyIsCold, OneInitialises
  <2>3. cfg.autoStart \/ ~suspended
    BY <2>1 DEF ResumeInv
  <2>4. cfg.autoStart \/ \A f \in Fires : fire[f] = "none"
    BY <2>2, <2>3 DEF ResumeInv, Quiet, Early
  <2>5. \A f \in Fires : fire[f] \notin {"close", "stop"}
    BY <2>2 DEF IndInv, MutexInv
  <2>6. \A q \in Dialers : ipc'[q] \notin Initialising \cup Publishing
    BY <1>13, <2>2 DEF EnsureFinish, IndInv, MutexInv, Initialising, Publishing
  <2>7. byIdle' => cfg'.autoStart
    BY <1>13, <2>3 DEF EnsureFinish, ResumeInv, ResumeStartsInstance
  <2>8. awsInitialized' /\ timer' # "fresh" /\ UNCHANGED <<cfg, fire>>
    BY <1>13 DEF EnsureFinish, TypeInv
  <2> QED
    BY <2>4, <2>5, <2>6, <2>7, <2>8 DEF ResumeInv, ResumeStartsInstance
<1>14. ASSUME NEW d \in Dialers, EnsureFailClose(d) PROVE ResumeInv'
  <2>1. ipc[d] \in Initialising \cup Publishing
    BY <1>14 DEF EnsureFailClose, Initialising
  <2>2. Cold /\ \A q \in Dialers : ipc[q] \in Initialising \cup Publishing => q = d
    BY <2>1, BusyIsCold, OneInitialises
  <2>3. \A q \in Dialers : /\ ipc'[q] = "finish" <=> ipc[q] = "finish"
                           /\ ipc'[q] \in Initialising \cup Publishing => q = d
    BY <1>14, <2>2 DEF EnsureFailClose, IndInv, MutexInv, Initialising, Publishing
  <2>4. UNCHANGED <<phase, cfg, awsInitialized, timer, suspended, fire, dpc, byIdle>>
    BY <1>14 DEF EnsureFailClose
  <2>5. (Finishing' <=> Finishing) /\ (Quiet => Quiet')
    BY <2>3, <2>4 DEF Finishing, Quiet
  <2>6. suspended' => cfg'.autoStart
    BY <2>1, <2>4 DEF ResumeInv
  <2> QED
    BY <2>2, <2>3, <2>4, <2>5, <2>6 DEF ResumeInv, ResumeStartsInstance, Alive
<1>15. ASSUME NEW d \in Dialers, EnsureFailReplace(d) PROVE ResumeInv'
  BY <1>15
  DEF EnsureFailReplace, ResumeInv, ResumeStartsInstance, Cold, Finishing, Quiet, Alive, TypeInv,
      IndInv, MutexInv, Early, Initialising, Publishing
<1>16. ASSUME NEW f \in Fires, IdleFires(f) PROVE ResumeInv'
  <2>1. /\ suspended' /\ timer' = "off" /\ timer = "armed"
        /\ UNCHANGED <<phase, cfg, awsInitialized, ipc>>
    BY <1>16 DEF IdleFires
  <2>2. phase \notin Early
    BY <2>1, Running
  <2>3. ASSUME NEW d \in Dialers, ipc[d] \in Initialising \cup Publishing PROVE cfg.autoStart
    <3>1. Cold /\ ~awsInitialized
      BY <2>3, BusyIsCold
    <3>2. suspended => cfg.autoStart
      BY <2>3 DEF ResumeInv
    <3> QED
      BY <2>1, <2>2, <3>1, <3>2 DEF ResumeInv, Quiet, Early
  <2> QED
    BY <2>1, <2>3 DEF ResumeInv, ResumeStartsInstance
<1>17. ASSUME NEW f \in Fires, SuspendLock(f) PROVE ResumeInv'
  <2>1. /\ UNCHANGED <<phase, cfg, timer, suspended, dpc, ipc, byIdle>>
        /\ ~awsInitialized => UNCHANGED <<awsInitialized, initDone, closed>>
        /\ \A g \in Fires : fire'[g] = IF g # f THEN fire[g] ELSE IF awsInitialized THEN "close" ELSE "none"
        /\ fire[f] = "lock" /\ ~awsInitialized'
    BY <1>17 DEF SuspendLock, IndInv, MutexInv
  <2>2. awsInitialized => suspended \/ cfg.autoStart
    BY <2>1 DEF ResumeInv
  <2>3. ~awsInitialized => (Cold' <=> Cold) /\ (Quiet => Quiet')
    BY <2>1 DEF Cold, Quiet, Finishing
  <2>4. (Finishing' <=> Finishing) /\ ResumeStartsInstance'
    BY <2>1 DEF Finishing, ResumeInv, ResumeStartsInstance
  <2>5. \A g \in Fires : fire'[g] \in {"close", "stop"} => suspended' \/ cfg'.autoStart
    BY <2>1, <2>2 DEF ResumeInv
  <2>6. Alive' /\ phase' # "flags" /\ ~awsInitialized' /\ ~suspended' /\ ~cfg'.autoStart /\ Cold' => Quiet'
    BY <2>1, <2>2, <2>3 DEF ResumeInv, Alive
  <2> QED
    BY <2>1, <2>4, <2>5, <2>6 DEF ResumeInv
<1>18. ASSUME NEW f \in Fires, SuspendClose(f) PROVE ResumeInv'
  BY <1>18
  DEF SuspendClose, ResumeInv, ResumeStartsInstance, Cold, Finishing, Quiet, Alive, TypeInv, IndInv,
      MutexInv, Early, Initialising, Publishing
<1>19. ASSUME NEW f \in Fires, SuspendStop(f) PROVE ResumeInv'
  BY <1>19
  DEF SuspendStop, ResumeInv, ResumeStartsInstance, Cold, Finishing, Quiet, Alive, TypeInv, IndInv,
      MutexInv, Early, Initialising, Publishing
<1>20. CASE StopServers
  BY <1>20
  DEF StopServers, ResumeInv, ResumeStartsInstance, Cold, Finishing, Quiet, Alive, TypeInv, IndInv,
      MutexInv, Early, Initialising, Publishing
<1>21. CASE StopBackend
  BY <1>21
  DEF StopBackend, ResumeInv, ResumeStartsInstance, Cold, Finishing, Quiet, Alive, TypeInv, IndInv,
      MutexInv, Early, Initialising, Publishing
<1>22. CASE StopInstance
  BY <1>22
  DEF StopInstance, ResumeInv, ResumeStartsInstance, Cold, Finishing, Quiet, Alive, TypeInv, IndInv,
      MutexInv, Early, Initialising, Publishing
<1>23. CASE Exit
  BY <1>23
  DEF Exit, ResumeInv, ResumeStartsInstance, Cold, Finishing, Quiet, Alive, TypeInv, IndInv, MutexInv,
      Early, Initialising, Publishing
<1>24. CASE InstanceStops
  BY <1>24
  DEF InstanceStops, ResumeInv, ResumeStartsInstance, Cold, Finishing, Quiet, Alive, TypeInv, IndInv,
      MutexInv, Early, Initialising, Publishing
<1>25. CASE TunnelChanges
  BY <1>25
  DEF TunnelChanges, ResumeInv, ResumeStartsInstance, Cold, Finishing, Quiet, Alive, TypeInv, IndInv,
      MutexInv, Early, Initialising, Publishing
<1> QED
  BY <1>1, <1>2, <1>3, <1>4, <1>5, <1>6, <1>7, <1>8, <1>9, <1>10, <1>11, <1>12,
     <1>13, <1>14, <1>15, <1>16, <1>17, <1>18, <1>19, <1>20, <1>21, <1>22, <1>23, <1>24, <1>25
  DEF ManagerNext, InitializeProxy, EnsureInitialized, Suspend, Stop

\* Before the first suspend no connection comes through a backend unless the
\* initialisation that made it is finishing.
LEMMA EarlyBird ==
  ASSUME IndInv, SecondInv, NEW d \in Dialers, dpc[d] = "dialing", be[d] \in open,
         Alive, ~awsInitialized, ~suspended, ~cfg.autoStart, Cold
  PROVE  Finishing
<1> USE DEF SecondInv
<1>1. phase \notin Early /\ ipc[Main] = "none"
  <2>1. phase \notin Early
    BY Running
  <2> QED
    BY <2>1 DEF IndInv, MutexInv, Early
<1>2. ~(served < backend)
  <2>1. be[d] = backend
    BY DEF IndInv, BackendInv, NoLostBackend
  <2>2. be[d] \in 0 .. served /\ served \in Nat
    BY Numbers
  <2> QED
    BY <2>1, <2>2
<1>3. \A e \in Dialers : ipc[e] \notin Initialising
  BY DEF IndInv, BackendInv
<1>4. initDone \notin closed
  BY <1>3 DEF Cold, Initialising
<1>5. mu # None
  BY <1>1, <1>4 DEF IndInv, BackendInv
<1>6. mu \notin Fires
  BY DEF ResumeInv, IndInv, MutexInv
<1>7. mu \in Dialers /\ ipc[mu] \in Initialising \cup Publishing
  BY <1>5, <1>6 DEF IndInv, MutexInv
<1>8. ipc[mu] # "publish"
  BY <1>2, <1>7 DEF ServedInv
<1> QED
  BY <1>3, <1>7, <1>8 DEF Finishing, Publishing

LEMMA DialerResume ==
  ASSUME IndInv, SecondInv, Alive, NEW d \in Dialers, DialerStep(d)
  PROVE  ResumeInv'
<1> USE DEF SecondInv
<1>1. /\ UNCHANGED <<phase, cfg, awsInitialized, initDone, closed, suspended, fire, byIdle>>
      /\ \A c \in Dialers : /\ ipc'[c] = ipc[c] \/ (ipc[c] = "none" /\ ipc'[c] = "spawned")
                            /\ c # d => dpc'[c] = dpc[c]
  BY DialerAsks DEF configVars, latchVars, ec2Vars
<1>2. (Finishing' <=> Finishing) /\ (Cold' <=> Cold)
  BY <1>1 DEF Finishing, Cold
<1>3. \A c \in Dialers : ipc'[c] \in Initialising \cup Publishing => ipc[c] \in Initialising \cup Publishing
  BY <1>1 DEF Initialising, Publishing
<1>4. timer' = timer
      \/ (dpc[d] = "touch" /\ timer' \in {"fresh", "armed"} /\ (timer' = "fresh" <=> Finishing))
  <2>1. DialTouch(d) => dpc[d] = "touch" /\ Touch
    BY DEF DialTouch
  <2>2. ~DialTouch(d) => timer' = timer
    BY DEF DialerStep, DialProceeds, DialFetch, DialWoken, DialProxy, DialSucceeds, DialFails,
           DialByRule, DialGate, managerVars, idleVars
  <2> QED
    BY <2>1, <2>2 DEF Touch, Finishing
<1>5. dpc'[d] = "touch" => dpc[d] = "dialing" /\ be[d] \in open
  <2>1. DOMAIN dpc = Dialers
    BY DEF IndInv, MutexInv
  <2>2. DialSucceeds(d) => dpc[d] = "dialing" /\ be[d] \in open
    BY DEF DialSucceeds
  <2>3. ~DialSucceeds(d) => dpc'[d] # "touch"
    BY <2>1 DEF DialerStep, DialProceeds, DialFetch, DialWoken, DialProxy, DialTouch, DialFails,
                DialByRule, DialGate, Goto, Return
  <2> QED
    BY <2>2, <2>3
<1>6. ASSUME Alive', phase' # "flags", ~awsInitialized', ~suspended', ~cfg'.autoStart, Cold'
      PROVE  Quiet'
  <2>1. Quiet /\ ~awsInitialized /\ ~suspended /\ ~cfg.autoStart /\ Cold
    BY <1>1, <1>2, <1>6 DEF ResumeInv
  <2>2. timer' # "armed"
    BY <1>4, <2>1 DEF Quiet
  <2>3. dpc'[d] = "touch" => Finishing
    BY <1>5, <2>1, EarlyBird
  <2> QED
    BY <1>1, <1>2, <2>1, <2>2, <2>3 DEF Quiet
<1>7. timer' = "fresh" => Finishing'
  BY <1>2, <1>4 DEF ResumeInv
<1> QED
  BY <1>1, <1>3, <1>6, <1>7 DEF ResumeInv, ResumeStartsInstance

-----------------------------------------------------------------------------
(* How many channels and backends there can be.                              *)

\* More dialers are through.
LEMMA Grows ==
  ASSUME NEW S, NEW T \in SUBSET Dialers, S \subseteq T
  PROVE  /\ Cardinality(S) \in Nat /\ Cardinality(T) \in Nat
         /\ Cardinality(S) <= Cardinality(T)
         /\ \A d \in T : d \notin S => Cardinality(S) + 1 <= Cardinality(T)
<1>1. IsFiniteSet(Dialers)
  BY ActorsAssumption
<1>2. IsFiniteSet(T)
  BY <1>1, FS_Subset
<1>3. IsFiniteSet(S) /\ Cardinality(S) <= Cardinality(T)
  BY <1>2, FS_Subset
<1>4. Cardinality(S) \in Nat /\ Cardinality(T) \in Nat
  BY <1>2, <1>3, FS_CardinalityType
<1>5. ASSUME NEW d \in T, d \notin S PROVE Cardinality(S) + 1 <= Cardinality(T)
  <2>1. S \cup {d} \in SUBSET T
    BY <1>5
  <2>2. Cardinality(S \cup {d}) <= Cardinality(T)
    BY <1>2, <2>1, FS_Subset
  <2>3. Cardinality(S \cup {d}) = Cardinality(S) + 1
    BY <1>3, <1>5, FS_AddElement
  <2> QED
    BY <2>2, <2>3
<1> QED
  BY <1>3, <1>4, <1>5


\* No Dial has to start over.
Onwards == Spent \subseteq Spent' /\ Settled \subseteq Settled' /\ (StartsBackend => StartsBackend')

\* What is left of the bounds when dialers get through.
LEMMA Room ==
  ASSUME IndInv, SecondInv, Onwards
  PROVE  /\ initDone + Increment(awsInitialized) <= 1 + Cardinality(Spent')
         /\ \A d \in Spent' : d \notin Spent =>
              initDone + Increment(awsInitialized) <= Cardinality(Spent')
         /\ made <= Cardinality(Settled') + Increment(StartsBackend')
         /\ \A d \in Settled' : d \notin Settled =>
              made + 1 <= Cardinality(Settled') + Increment(StartsBackend')
         /\ StartsBackend' /\ ~StartsBackend =>
              made + 1 <= Cardinality(Settled') + Increment(StartsBackend')
<1>1. Spent' \in SUBSET Dialers /\ Settled' \in SUBSET Dialers
  BY DEF Spent, Settled
<1>2. /\ Cardinality(Spent) \in Nat /\ Cardinality(Spent') \in Nat
      /\ Cardinality(Spent) <= Cardinality(Spent')
      /\ \A d \in Spent' : d \notin Spent => Cardinality(Spent) + 1 <= Cardinality(Spent')
  BY <1>1, Grows DEF Onwards
<1>3. /\ Cardinality(Settled) \in Nat /\ Cardinality(Settled') \in Nat
      /\ Cardinality(Settled) <= Cardinality(Settled')
      /\ \A d \in Settled' : d \notin Settled => Cardinality(Settled) + 1 <= Cardinality(Settled')
  BY <1>1, Grows DEF Onwards
<1>4. /\ initDone + Increment(awsInitialized) <= 1 + Cardinality(Spent)
      /\ made <= Cardinality(Settled) + Increment(StartsBackend)
  BY DEF SecondInv, BoundInv
<1>5. initDone \in Nat /\ made \in Nat /\ Increment(awsInitialized) \in {0, 1}
  BY Numbers DEF SecondInv, Increment
<1>6. \/ Increment(StartsBackend) = 0 /\ Increment(StartsBackend') \in {0, 1}
         /\ (StartsBackend' /\ ~StartsBackend => Increment(StartsBackend') = 1)
      \/ Increment(StartsBackend) = 1 /\ Increment(StartsBackend') = 1 /\ StartsBackend
  BY DEF Onwards, Increment
<1>7. /\ initDone + Increment(awsInitialized) <= 1 + Cardinality(Spent')
      /\ \A d \in Spent' : d \notin Spent => initDone + Increment(awsInitialized) <= Cardinality(Spent')
  BY <1>2, <1>4, <1>5
<1> QED
  BY <1>3, <1>4, <1>5, <1>6, <1>7

\* A step that makes no channel and no backend.
LEMMA BoundFrame ==
  ASSUME IndInv, SecondInv, Onwards, UNCHANGED <<initDone, awsInitialized, made>>
  PROVE  BoundInv'
<1>1. /\ initDone + Increment(awsInitialized) <= 1 + Cardinality(Spent')
      /\ made <= Cardinality(Settled') + Increment(StartsBackend')
  BY Room
<1> QED
  BY <1>1 DEF BoundInv

\* The steps of the manager only get dialers through.
LEMMA ManagerThrough ==
  ASSUME IndInv, SecondInv, Alive, ManagerNext, UNCHANGED dialerVars
  PROVE  Onwards
<1> USE ActorsAssumption
      DEF SecondInv, configVars, latchVars, backendVars, idleVars, ec2Vars, dialerVars
<1>1. CASE LoadConfig
  BY <1>1 DEF LoadConfig, Onwards, Spent, Settled, StartsBackend, IndInv, MutexInv, Initialising,
         Publishing
<1>2. CASE StartVMFails
  BY <1>2 DEF StartVMFails, Onwards, Spent, Settled, StartsBackend, IndInv, MutexInv, Initialising,
         Publishing
<1>3. CASE Start
  BY <1>3 DEF Start, Onwards, Spent, Settled, StartsBackend, IndInv, MutexInv, Initialising,
         Publishing
<1>4. CASE StartServers
  BY <1>4 DEF StartServers, Onwards, Spent, Settled, StartsBackend, IndInv, MutexInv, Initialising,
         Publishing
<1>5. ASSUME NEW p \in Dialers \cup {Main}, InitDescribe(p) PROVE Onwards
  <2>1. PICK x \in {"stopping", "stopped", "backend", "running"} : ipc' = [ipc EXCEPT ![p] = x]
    BY <1>5 DEF InitDescribe, GetInstanceState, IndInv, MutexInv
  <2>2. \A q \in Dialers \cup {Main} : ipc'[q] = ipc[q] \/ (q = p /\ ipc[q] = "init")
    BY <1>5, <2>1 DEF InitDescribe, IndInv, MutexInv
  <2> QED
    BY <1>5, <2>2 DEF InitDescribe, Onwards, Spent, Settled, StartsBackend, Initialising
<1>6. ASSUME NEW p \in Dialers \cup {Main}, InitAwaitStopped(p) PROVE Onwards
  BY <1>6 DEF InitAwaitStopped, Onwards, Spent, Settled, StartsBackend, IndInv, MutexInv, Initialising,
         Publishing
<1>7. ASSUME NEW p \in Dialers \cup {Main}, InitStartInstance(p) PROVE Onwards
  BY <1>7 DEF InitStartInstance, Onwards, Spent, Settled, StartsBackend, IndInv, MutexInv, Initialising,
         Publishing
<1>8. ASSUME NEW p \in Dialers \cup {Main}, InitAwaitAgent(p) PROVE Onwards
  BY <1>8 DEF InitAwaitAgent, Onwards, Spent, Settled, StartsBackend, IndInv, MutexInv, Initialising,
         Publishing
<1>9. ASSUME NEW p \in Dialers \cup {Main}, InitBackend(p) PROVE Onwards
  BY <1>9 DEF InitBackend, Onwards, Spent, Settled, StartsBackend, IndInv, MutexInv, Initialising,
         Publishing
<1>10. ASSUME NEW p \in Dialers \cup {Main}, InitFails(p) PROVE Onwards
  BY <1>10 DEF InitFails, Onwards, Spent, Settled, StartsBackend, IndInv, MutexInv, Initialising,
         Publishing
<1>11. ASSUME NEW d \in Dialers, EnsureLock(d) PROVE Onwards
  BY <1>11 DEF EnsureLock, Onwards, Spent, Settled, StartsBackend, IndInv, MutexInv, Initialising,
         Publishing
<1>12. ASSUME NEW d \in Dialers, EnsurePublish(d) PROVE Onwards
  BY <1>12 DEF EnsurePublish, Onwards, Spent, Settled, StartsBackend, IndInv, MutexInv, Initialising,
         Publishing
<1>13. ASSUME NEW d \in Dialers, EnsureFinish(d) PROVE Onwards
  BY <1>13 DEF EnsureFinish, Onwards, Spent, Settled, StartsBackend, IndInv, MutexInv, Initialising,
         Publishing
<1>14. ASSUME NEW d \in Dialers, EnsureFailClose(d) PROVE Onwards
  BY <1>14 DEF EnsureFailClose, Onwards, Spent, Settled, StartsBackend, IndInv, MutexInv, Initialising,
         Publishing
<1>15. ASSUME NEW d \in Dialers, EnsureFailReplace(d) PROVE Onwards
  BY <1>15
  DEF EnsureFailReplace, Onwards, Spent, Settled, StartsBackend, IndInv, MutexInv, Initialising,
         Publishing
<1>16. ASSUME NEW f \in Fires, IdleFires(f) PROVE Onwards
  BY <1>16 DEF IdleFires, Onwards, Spent, Settled, StartsBackend, IndInv, MutexInv, Initialising,
         Publishing
<1>17. ASSUME NEW f \in Fires, SuspendLock(f) PROVE Onwards
  BY <1>17 DEF SuspendLock, Onwards, Spent, Settled, StartsBackend, IndInv, MutexInv, Initialising,
         Publishing
<1>18. ASSUME NEW f \in Fires, SuspendClose(f) PROVE Onwards
  BY <1>18 DEF SuspendClose, Onwards, Spent, Settled, StartsBackend, IndInv, MutexInv, Initialising,
         Publishing
<1>19. ASSUME NEW f \in Fires, SuspendStop(f) PROVE Onwards
  BY <1>19 DEF SuspendStop, Onwards, Spent, Settled, StartsBackend, IndInv, MutexInv, Initialising,
         Publishing
<1>20. CASE StopServers
  BY <1>20 DEF StopServers, Onwards, Spent, Settled, StartsBackend, IndInv, MutexInv, Initialising,
         Publishing
<1>21. CASE StopBackend
  BY <1>21 DEF StopBackend, Onwards, Spent, Settled, StartsBackend, IndInv, MutexInv, Initialising,
         Publishing
<1>22. CASE StopInstance
  BY <1>22 DEF StopInstance, Onwards, Spent, Settled, StartsBackend, IndInv, MutexInv, Initialising,
         Publishing
<1>23. CASE Exit
  BY <1>23 DEF Exit, Onwards, Spent, Settled, StartsBackend, IndInv, MutexInv, Initialising,
         Publishing
<1>24. CASE InstanceStops
  BY <1>24 DEF InstanceStops, Onwards, Spent, Settled, StartsBackend, IndInv, MutexInv, Initialising,
         Publishing
<1>25. CASE TunnelChanges
  BY <1>25 DEF TunnelChanges, Onwards, Spent, Settled, StartsBackend, IndInv, MutexInv, Initialising,
         Publishing
<1> QED
  BY <1>1, <1>2, <1>3, <1>4, <1>5, <1>6, <1>7, <1>8, <1>9, <1>10, <1>11, <1>12,
     <1>13, <1>14, <1>15, <1>16, <1>17, <1>18, <1>19, <1>20, <1>21, <1>22, <1>23, <1>24, <1>25
  DEF ManagerNext, InitializeProxy, EnsureInitialized, Suspend, Stop

\* The steps of the manager that make channels and backends.
LEMMA ManagerBound ==
  ASSUME IndInv, SecondInv, Alive, ManagerNext, UNCHANGED dialerVars
  PROVE  BoundInv'
<1> USE ActorsAssumption
      DEF SecondInv, configVars, latchVars, backendVars, idleVars, ec2Vars, dialerVars
<1>1. CASE LoadConfig
  BY <1>1, ManagerThrough, BoundFrame DEF LoadConfig
<1>2. CASE StartVMFails
  BY <1>2, ManagerThrough, BoundFrame DEF StartVMFails
<1>3. CASE Start
  BY <1>3, ManagerThrough, BoundFrame DEF Start
<1>4. CASE StartServers
  BY <1>4, ManagerThrough, BoundFrame DEF StartServers
<1>5. ASSUME NEW p \in Dialers \cup {Main}, InitDescribe(p) PROVE BoundInv'
  BY <1>5, ManagerThrough, BoundFrame DEF InitDescribe
<1>6. ASSUME NEW p \in Dialers \cup {Main}, InitAwaitStopped(p) PROVE BoundInv'
  BY <1>6, ManagerThrough, BoundFrame DEF InitAwaitStopped
<1>7. ASSUME NEW p \in Dialers \cup {Main}, InitStartInstance(p) PROVE BoundInv'
  BY <1>7, ManagerThrough, BoundFrame DEF InitStartInstance
<1>8. ASSUME NEW p \in Dialers \cup {Main}, InitAwaitAgent(p) PROVE BoundInv'
  BY <1>8, ManagerThrough, BoundFrame DEF InitAwaitAgent
<1>9. ASSUME NEW p \in Dialers \cup {Main}, InitBackend(p) PROVE BoundInv'
  <2>1. \/ p \in Dialers /\ p \in Settled' /\ p \notin Settled
        \/ StartsBackend' /\ ~StartsBackend
    BY <1>9 DEF InitBackend, Settled, StartsBackend, IndInv, MutexInv, Initialising
  <2>2. made + 1 <= Cardinality(Settled') + Increment(StartsBackend')
    BY <2>1, ManagerThrough, Room
  <2>3. initDone + Increment(awsInitialized) <= 1 + Cardinality(Spent')
    BY ManagerThrough, Room
  <2>4. UNCHANGED <<initDone, awsInitialized>> /\ made' = made + 1
    BY <1>9 DEF InitBackend
  <2> QED
    BY <2>2, <2>3, <2>4 DEF BoundInv
<1>10. ASSUME NEW p \in Dialers \cup {Main}, InitFails(p) PROVE BoundInv'
  BY <1>10, ManagerThrough, BoundFrame DEF InitFails
<1>11. ASSUME NEW d \in Dialers, EnsureLock(d) PROVE BoundInv'
  BY <1>11, ManagerThrough, BoundFrame DEF EnsureLock
<1>12. ASSUME NEW d \in Dialers, EnsurePublish(d) PROVE BoundInv'
  BY <1>12, ManagerThrough, BoundFrame DEF EnsurePublish
<1>13. ASSUME NEW d \in Dialers, EnsureFinish(d) PROVE BoundInv'
  <2>1. d \in Spent' /\ d \notin Spent
    BY <1>13 DEF EnsureFinish, Spent, IndInv, MutexInv
  <2>2. /\ initDone + Increment(awsInitialized) <= Cardinality(Spent')
        /\ made <= Cardinality(Settled') + Increment(StartsBackend')
    BY <2>1, ManagerThrough, Room
  <2>3. UNCHANGED <<initDone, made>> /\ Increment(awsInitialized') = 1
    BY <1>13 DEF EnsureFinish, Increment
  <2>4. ~awsInitialized
    BY <1>13, BusyIsCold DEF EnsureFinish, Publishing
  <2>5. initDone + 1 <= 1 + Cardinality(Spent')
    <3>1. Increment(awsInitialized) = 0 /\ initDone \in Nat
      BY <2>4, Numbers DEF Increment
    <3>2. Cardinality(Spent') \in Nat
      BY ActorsAssumption, FS_Subset, FS_CardinalityType DEF Spent
    <3> QED
      BY <2>2, <3>1, <3>2
  <2> QED
    BY <2>2, <2>3, <2>5 DEF BoundInv
<1>14. ASSUME NEW d \in Dialers, EnsureFailClose(d) PROVE BoundInv'
  BY <1>14, ManagerThrough, BoundFrame DEF EnsureFailClose
<1>15. ASSUME NEW d \in Dialers, EnsureFailReplace(d) PROVE BoundInv'
  <2>1. d \in Spent' /\ d \notin Spent
    BY <1>15 DEF EnsureFailReplace, Spent, IndInv, MutexInv
  <2>2. /\ initDone + Increment(awsInitialized) <= Cardinality(Spent')
        /\ made <= Cardinality(Settled') + Increment(StartsBackend')
    BY <2>1, ManagerThrough, Room
  <2>3. UNCHANGED <<awsInitialized, made>> /\ initDone' = initDone + 1
    BY <1>15 DEF EnsureFailReplace
  <2>4. initDone + 1 + Increment(awsInitialized) <= 1 + Cardinality(Spent')
    <3>1. initDone \in Nat /\ Increment(awsInitialized) \in {0, 1}
      BY Numbers DEF Increment
    <3>2. Cardinality(Spent') \in Nat
      BY ActorsAssumption, FS_Subset, FS_CardinalityType DEF Spent
    <3> QED
      BY <2>2, <3>1, <3>2
  <2> QED
    BY <2>2, <2>3, <2>4 DEF BoundInv
<1>16. ASSUME NEW f \in Fires, IdleFires(f) PROVE BoundInv'
  BY <1>16, ManagerThrough, BoundFrame DEF IdleFires
<1>17. ASSUME NEW f \in Fires, SuspendLock(f) PROVE BoundInv'
  <2>1. CASE ~awsInitialized
    BY <1>17, <2>1, ManagerThrough, BoundFrame DEF SuspendLock
  <2>2. CASE awsInitialized
    <3>1. UNCHANGED made /\ initDone' = initDone + 1 /\ ~awsInitialized'
      BY <1>17, <2>2 DEF SuspendLock
    <3>2. /\ initDone + Increment(awsInitialized) <= 1 + Cardinality(Spent')
          /\ made <= Cardinality(Settled') + Increment(StartsBackend')
      BY ManagerThrough, Room
    <3>3. initDone' + Increment(awsInitialized') = initDone + Increment(awsInitialized)
      BY <2>2, <3>1, Numbers DEF Increment
    <3> QED
      BY <3>1, <3>2, <3>3 DEF BoundInv
  <2> QED
    BY <2>1, <2>2
<1>18. ASSUME NEW f \in Fires, SuspendClose(f) PROVE BoundInv'
  BY <1>18, ManagerThrough, BoundFrame DEF SuspendClose
<1>19. ASSUME NEW f \in Fires, SuspendStop(f) PROVE BoundInv'
  BY <1>19, ManagerThrough, BoundFrame DEF SuspendStop
<1>20. CASE StopServers
  BY <1>20, ManagerThrough, BoundFrame DEF StopServers
<1>21. CASE StopBackend
  BY <1>21, ManagerThrough, BoundFrame DEF StopBackend
<1>22. CASE StopInstance
  BY <1>22, ManagerThrough, BoundFrame DEF StopInstance
<1>23. CASE Exit
  BY <1>23, ManagerThrough, BoundFrame DEF Exit
<1>24. CASE InstanceStops
  BY <1>24, ManagerThrough, BoundFrame DEF InstanceStops
<1>25. CASE TunnelChanges
  BY <1>25, ManagerThrough, BoundFrame DEF TunnelChanges
<1> QED
  BY <1>1, <1>2, <1>3, <1>4, <1>5, <1>6, <1>7, <1>8, <1>9, <1>10, <1>11, <1>12,
     <1>13, <1>14, <1>15, <1>16, <1>17, <1>18, <1>19, <1>20, <1>21, <1>22, <1>23, <1>24, <1>25
  DEF ManagerNext, InitializeProxy, EnsureInitialized, Suspend, Stop

LEMMA DialerBound ==
  ASSUME IndInv, SecondInv, NEW d \in Dialers, DialerStep(d)
  PROVE  BoundInv'
<1>1. UNCHANGED <<phase, initDone, awsInitialized, made>>
  BY DialerAsks DEF configVars, latchVars
<1>2. \A p \in Dialers \cup {Main} :
        ipc'[p] = ipc[p] \/ (p = d /\ ipc[p] = "none" /\ ipc'[p] = "spawned")
  BY DialerAsks
<1>3. \A c \in Dialers : /\ dpc[c] # "idle" => dpc'[c] # "idle"
                         /\ ipc'[c] = ipc[c] \/ dpc[c] = "idle"
  BY DialerAsks
<1>4. ipc'[Main] = ipc[Main]
  BY <1>2, ActorsAssumption
<1>5. Onwards
  BY <1>1, <1>3, <1>4 DEF Onwards, Spent, Settled, StartsBackend
<1> QED
  BY <1>1, <1>5, BoundFrame

-----------------------------------------------------------------------------
(* The second invariant.                                                     *)

LEMMA InitSecond == Init => SecondInv
<1> SUFFICES ASSUME Init PROVE SecondInv
  OBVIOUS
<1> USE DEF Init, ManagerInit, DialerInit
<1>1. TypeInv
  <2>0. open = {} /\ active = {} /\ made = 0 /\ backend = 0 /\ served = 0 /\ initDone = 1
    OBVIOUS
  <2>1. open \subseteq 1 .. made /\ active \subseteq 1 .. made /\ made \in Nat /\ {backend, served} \subseteq 0 .. made
    <3> HIDE DEF Init, ManagerInit, DialerInit
    <3> QED
      BY <2>0
  <2>2. 0 \in 0 .. initDone /\ 0 \in 0 .. served
    <3> HIDE DEF Init, ManagerInit, DialerInit
    <3> QED
      BY <2>0
  <2>3. seen \in [Dialers -> 0 .. initDone] /\ waitCh \in [Dialers -> 0 .. initDone] /\ be \in [Dialers -> 0 .. served]
    BY <2>2
  <2>4. \A d \in Dialers : dpc[d] = "idle" /\ path[d] = ""
    OBVIOUS
  <2>5. /\ host \in [Dialers -> Hosts \cup {None}]
        /\ path \in [Dialers -> {"", "direct", "vm-direct", "proxy", "error"}]
        /\ why \in [Dialers -> Reasons]
    BY DEF Reasons
  <2>6. /\ phase = "flags" /\ timer = "off"
        /\ awsInitialized \in BOOLEAN /\ initErr \in BOOLEAN /\ suspended \in BOOLEAN
        /\ client \in BOOLEAN /\ byIdle \in BOOLEAN /\ ~byIdle /\ ~suspended
    OBVIOUS
  <2> HIDE DEF Init, ManagerInit, DialerInit
  <2> QED
    BY <2>1, <2>3, <2>4, <2>5, <2>6 DEF TypeInv, Phases
<1>2. ServedInv
  BY DEF ServedInv, Early
<1>3. OnlyByChoice
  BY DEF OnlyByChoice
<1>4. ResumeInv
  BY DEF ResumeInv, ResumeStartsInstance, Initialising, Publishing
<1>5. BoundInv
  <2>1. IsFiniteSet(Spent) /\ IsFiniteSet(Settled)
    BY ActorsAssumption, FS_Subset DEF Spent, Settled
  <2>2. Cardinality(Spent) \in Nat /\ Cardinality(Settled) \in Nat
    BY <2>1, FS_CardinalityType
  <2>3. initDone = 1 /\ made = 0 /\ Increment(awsInitialized) = 0 /\ Increment(StartsBackend) \in {0, 1}
    BY DEF Increment
  <2> HIDE DEF Init, ManagerInit, DialerInit
  <2> QED
    BY <2>2, <2>3 DEF BoundInv
<1> QED
  BY <1>1, <1>2, <1>3, <1>4, <1>5 DEF SecondInv

LEMMA StepSecond == IndInv /\ SecondInv /\ [Next]_vars => SecondInv'
<1> SUFFICES ASSUME IndInv, SecondInv, [Next]_vars PROVE SecondInv'
  OBVIOUS
<1>1. CASE Alive /\ ManagerNext /\ UNCHANGED dialerVars
  BY <1>1, ManagerType, ManagerServed, ManagerChoice, ManagerResume, ManagerBound DEF SecondInv
<1>2. ASSUME Alive, NEW d \in Dialers, DialerStep(d) PROVE SecondInv'
  BY <1>2, DialerType, DialerServed, DialerChoice, DialerResume, DialerBound DEF SecondInv
<1>3. CASE UNCHANGED vars
  <2> USE <1>3
  DEF SecondInv, vars, managerVars, configVars, latchVars, backendVars, idleVars, ec2Vars, dialerVars
  <2>1. TypeInv'
    BY DEF TypeInv
  <2>2. ServedInv'
    BY DEF ServedInv
  <2>3. OnlyByChoice'
    BY DEF OnlyByChoice
  <2>4. ResumeInv'
    BY DEF ResumeInv, ResumeStartsInstance, Quiet, Cold, Finishing, Alive
  <2>5. BoundInv'
    BY DEF BoundInv, Spent, Settled, StartsBackend
  <2> QED
    BY <2>1, <2>2, <2>3, <2>4, <2>5
<1>4. CASE Next
  <2>1. Alive
    BY <1>4 DEF Next
  <2>2. CASE ManagerNext /\ UNCHANGED dialerVars
    BY <1>1, <2>1, <2>2
  <2>3. CASE \E d \in Dialers : DialerStep(d)
    BY <1>2, <2>1, <2>3
  <2> QED
    BY <1>4, <2>2, <2>3 DEF Next, DialerStep
<1> QED
  BY <1>3, <1>4

\* Both invariants, in every behaviour of the manager and its dialers: what the
\* next three theorems rest on (EnsureInitialized, suspend, Dial).
THEOREM InductiveToo == Spec => [](IndInv /\ SecondInv)
<1>1. Init => IndInv /\ SecondInv
  BY InitInv, InitSecond
<1>2. IndInv /\ SecondInv /\ [Next]_vars => (IndInv /\ SecondInv)'
  BY StepInv, StepSecond
<1> QED
  BY <1>1, <1>2, PTL DEF Spec

\* The types; and that the Dials, each of which may run EnsureInitialized
\* once, account for all the channels and backends that the manager makes,
\* however failures, suspends and resumes follow each other (manager.go:453,
\* 541).
THEOREM TypeCorrect == Spec => []TypeOK
<1>1. IndInv /\ SecondInv => TypeOK
  <2> SUFFICES ASSUME IndInv, SecondInv PROVE TypeOK
    OBVIOUS
  <2> DEFINE n == Cardinality(Dialers)
  <2>1. n \in Nat /\ Cardinality(Spent) \in 0 .. n /\ Cardinality(Settled) \in 0 .. n
    <3>1. Cardinality(Spent) \in Nat /\ Cardinality(Spent) <= n /\ n \in Nat
      BY Grows DEF Spent
    <3>2. Cardinality(Settled) \in Nat /\ Cardinality(Settled) <= n
      BY Grows DEF Settled
    <3> HIDE DEF n
    <3> QED
      BY <3>1, <3>2
  <2>2. /\ initDone \in Nat /\ made \in Nat /\ backend \in Nat /\ served \in Nat
        /\ backend <= made /\ served <= made
    BY Numbers DEF SecondInv
  <2>3. initDone <= n + 1 /\ made <= n + 1
    <3>1. /\ initDone + Increment(awsInitialized) <= 1 + Cardinality(Spent)
          /\ made <= Cardinality(Settled) + Increment(StartsBackend)
      BY DEF SecondInv, BoundInv
    <3>2. Increment(awsInitialized) \in {0, 1} /\ Increment(StartsBackend) \in {0, 1}
      BY DEF Increment
    <3> HIDE DEF n
    <3> QED
      BY <2>1, <2>2, <3>1, <3>2
  <2>4. Channels = 0 .. n + 1
    BY DEF Channels
  <2>5. /\ initDone \in Channels /\ closed \subseteq Channels
        /\ seen \in [Dialers -> Channels] /\ waitCh \in [Dialers -> Channels]
    <3>1. 0 .. initDone \subseteq 0 .. n + 1 /\ initDone \in 0 .. n + 1
      <4> HIDE DEF n
      <4> QED
        BY <2>1, <2>2, <2>3
    <3>2. closed \subseteq 0 .. initDone
      BY <2>2 DEF IndInv, LatchInv
    <3>3. seen \in [Dialers -> 0 .. initDone] /\ waitCh \in [Dialers -> 0 .. initDone]
      BY DEF SecondInv, TypeInv
    <3> HIDE DEF n
    <3> QED
      BY <2>4, <3>1, <3>2, <3>3
  <2>6. made \in 0 .. n + 1 /\ {backend, served} \subseteq 0 .. made /\ be \in [Dialers -> 0 .. made]
    <3>1. made \in 0 .. n + 1
      <4> HIDE DEF n
      <4> QED
        BY <2>1, <2>2, <2>3
    <3>2. be \in [Dialers -> 0 .. served]
      BY DEF SecondInv, TypeInv
    <3> HIDE DEF n
    <3> QED
      BY <2>2, <3>1, <3>2, Wider
  <2>7. /\ ipc \in [Dialers \cup {Main} -> {"none", "spawned", "init", "stopping", "stopped", "agent", "backend",
                                            "publish", "finish", "fail", "replace"}]
        /\ fire \in [Fires -> {"none", "lock", "close", "stop"}] /\ dpc \in [Dialers -> DialSteps]
        /\ mu \in Dialers \cup Fires \cup {None} /\ ec2 \in {"running", "stopping", "stopped"}
    <3>1. Initialising \cup Publishing \cup {"none", "spawned"}
            = {"none", "spawned", "init", "stopping", "stopped", "agent", "backend",
               "publish", "finish", "fail", "replace"}
      BY DEF Initialising, Publishing
    <3> QED
      BY <3>1 DEF IndInv, MutexInv
  <2>8. {awsInitialized, initErr, suspended, client, byIdle} \subseteq BOOLEAN
    BY DEF SecondInv, TypeInv
  <2> QED
    BY <2>5, <2>6, <2>7, <2>8 DEF TypeOK, SecondInv, TypeInv, Phases
<1> QED
  BY <1>1, InductiveToo, PTL

\* A proxied connection leaves from the host's own network only by choice:
\* the gate of Dial, dialProxy's nil check and FallbackRoute let no other out,
\* in whatever order initialisations fail, finish and are suspended
\* (dialer.go:72, router.go:190).
THEOREM ChoiceKept == Spec => []OnlyByChoice
<1>1. SecondInv => OnlyByChoice
  BY DEF SecondInv
<1> QED
  BY <1>1, InductiveToo, PTL

\* The instance that an idle suspend stopped is started again by the next
\* initialisation: the flag that suspend's callback sets is not lost before a
\* Dial has switched auto-start on (manager.go:453, idle_tracker.go).
THEOREM ResumeStarts == Spec => []ResumeStartsInstance
<1>1. SecondInv => ResumeStartsInstance
  BY DEF SecondInv, ResumeInv
<1> QED
  BY <1>1, InductiveToo, PTL

=============================================================================
