------------------------------- MODULE VMAgent -------------------------------
(***************************************************************************)
(* The agent inside the VM (internal/agent/agent.go): Run handles one host *)
(* message at a time, each connect request is dialled by a goroutine of    *)
(* its own, and each connection has a readLoop goroutine.  The targets     *)
(* that the agent connects to are external.                                *)
(***************************************************************************)
EXTENDS MuxProtocol

VARIABLES
    connections,  \* keys of a.connections
    apc,          \* per id: where its goroutine is in dialAndConnect and readLoop
    target,       \* per id: the agent's socket to the target
    sentChunks,   \* per id: how many chunks of the target were read
    gotChunks,    \* per id: the chunks that were written to the target
    agentCtx      \* a.ctx is cancelled

agentVars == <<connections, apc, target, sentChunks, gotChunks, agentCtx>>

AgentInit ==
    /\ connections = {}
    /\ apc = [i \in Ids |-> "none"]
    /\ target = [i \in Ids |-> "none"]
    /\ sentChunks = [i \in Ids |-> 0] /\ gotChunks = [i \in Ids |-> <<>>]
    /\ agentCtx = FALSE

\* Mutant: the host is not told.
ConnectionClose_NotSent(i) ==
    /\ target' = IF target[i] = "open" THEN [target EXCEPT ![i] = "closed"] ELSE target
    /\ UNCHANGED agentOut

\* Connection.Close, once: the socket is closed and the host is told.  The
\* code closes the socket before the write, which may wait for room; here both
\* happen when there is room.
ConnectionClose(i) ==
    IF target[i] = "open"
    THEN target' = [target EXCEPT ![i] = "closed"] /\ AgentWrite(Message("close", i))
    ELSE UNCHANGED <<target, agentOut>>

-----------------------------------------------------------------------------
(* Run: ReadMessage and handleMessage.                                     *)

NextIs(t) == link = "up" /\ hostOut # <<>> /\ Head(hostOut).type = t

AgentHandleConnect ==
    /\ NextIs("connect")
    /\ hostOut' = Tail(hostOut)
    /\ apc' = [apc EXCEPT ![Head(hostOut).id] = "dial"]
    /\ UNCHANGED <<link, agentOut, connections, target, sentChunks, gotChunks, agentCtx>>

\* Data for an unknown or closed connection is reported and dropped.
AgentHandleData ==
    LET i == Head(hostOut).id
    IN  /\ NextIs("data")
        /\ hostOut' = Tail(hostOut)
        /\ gotChunks' = IF i \in connections /\ target[i] = "open"
                        THEN [gotChunks EXCEPT ![i] = Append(@, Head(hostOut).chunk)]
                        ELSE gotChunks
        /\ UNCHANGED <<link, agentOut, connections, apc, target, sentChunks, agentCtx>>

AgentHandleClose ==
    LET i == Head(hostOut).id
    IN  /\ NextIs("close")
        /\ hostOut' = Tail(hostOut)
        /\ connections' = connections \ {i}
        /\ IF i \in connections THEN ConnectionClose(i) ELSE UNCHANGED <<target, agentOut>>
        /\ UNCHANGED <<link, apc, sentChunks, gotChunks, agentCtx>>

AgentHandlePing ==
    /\ NextIs("ping")
    /\ hostOut' = Tail(hostOut)
    /\ AgentWrite(Message("pong", 0))
    /\ UNCHANGED <<link, agentVars>>

AgentHandleShutdown ==
    /\ NextIs("shutdown")
    /\ hostOut' = Tail(hostOut)
    /\ agentCtx' = TRUE
    /\ UNCHANGED <<link, agentOut, connections, apc, target, sentChunks, gotChunks>>

-----------------------------------------------------------------------------
(* dialAndConnect.                                                         *)

\* The dial succeeds, and the connection is stored before the ack is sent, ...
DialTarget(i) ==
    /\ apc[i] = "dial" /\ ~agentCtx
    /\ target' = [target EXCEPT ![i] = "open"]
    /\ connections' = connections \cup {i}
    /\ apc' = [apc EXCEPT ![i] = "ack"]
    /\ UNCHANGED <<linkVars, sentChunks, gotChunks, agentCtx>>

\* ... or it fails or is cancelled.
DialTargetFails(i) ==
    /\ apc[i] = "dial"
    /\ AgentWrite(Message("error", i))
    /\ apc' = [apc EXCEPT ![i] = "exit"]
    /\ UNCHANGED <<link, hostOut, connections, target, sentChunks, gotChunks, agentCtx>>

\* readLoop looks at the context before each read.
ReadOrClose == IF agentCtx THEN "close" ELSE "read"

\* Without a link the ack fails; the socket is closed and the entry stays.
SendAck(i) ==
    /\ apc[i] = "ack"
    /\ AgentWrite(Message("ack", i))
    /\ apc' = [apc EXCEPT ![i] = IF link = "down" THEN "exit" ELSE ReadOrClose]
    /\ target' = IF link = "down" THEN [target EXCEPT ![i] = "closed"] ELSE target
    /\ UNCHANGED <<link, hostOut, connections, sentChunks, gotChunks, agentCtx>>

-----------------------------------------------------------------------------
(* Connection.readLoop.                                                    *)

ReadTarget(i) ==
    /\ i \in Busy /\ apc[i] = "read" /\ target[i] = "open"
    /\ sentChunks[i] < MaxData
    /\ sentChunks' = [sentChunks EXCEPT ![i] = @ + 1]
    /\ apc' = [apc EXCEPT ![i] = "send"]
    /\ UNCHANGED <<linkVars, connections, target, gotChunks, agentCtx>>

\* The target ends the stream, is silent for a minute, or handleClose has
\* closed the socket.
ReadTargetFails(i) ==
    /\ apc[i] = "read" /\ (i \in Busy \/ target[i] = "closed")
    /\ apc' = [apc EXCEPT ![i] = "close"]
    /\ UNCHANGED <<linkVars, connections, target, sentChunks, gotChunks, agentCtx>>

SendData(i) ==
    /\ apc[i] = "send"
    /\ AgentWrite(Data(i, sentChunks[i]))
    /\ apc' = [apc EXCEPT ![i] = IF link = "down" THEN "close" ELSE ReadOrClose]
    /\ UNCHANGED <<link, hostOut, connections, target, sentChunks, gotChunks, agentCtx>>

\* The deferred Close; the entry of a.connections stays.
RelayEnds(i) ==
    /\ apc[i] = "close"
    /\ apc' = [apc EXCEPT ![i] = "exit"]
    /\ ConnectionClose(i)
    /\ UNCHANGED <<link, hostOut, connections, sentChunks, gotChunks, agentCtx>>

-----------------------------------------------------------------------------

AgentRun ==
    \/ AgentHandleConnect \/ AgentHandleData \/ AgentHandleClose
    \/ AgentHandlePing \/ AgentHandleShutdown

AgentConn(i) ==
    \/ DialTarget(i) \/ DialTargetFails(i) \/ SendAck(i)
    \/ ReadTarget(i) \/ ReadTargetFails(i) \/ SendData(i) \/ RelayEnds(i)

AgentNext == AgentRun \/ \E i \in Ids : AgentConn(i)

AgentTypeOK ==
    /\ connections \subseteq Ids
    /\ apc \in [Ids -> {"none", "dial", "ack", "read", "send", "close", "exit"}]
    /\ target \in [Ids -> {"none", "open", "closed"}]
    /\ sentChunks \in [Ids -> 0 .. MaxData] 
    /\ \A i \in Ids : Len(gotChunks[i]) <= MaxWrites
    /\ agentCtx \in BOOLEAN

=============================================================================
