------------------------------- MODULE AgentMux -------------------------------
(***************************************************************************)
(* The host's end of the VM link (internal/mux/agent_mux.go): Dial calls,  *)
(* the read loop, the ping loop, and the clients that read, write and      *)
(* close the logical connections, all on one AgentMux.  pendingMu and      *)
(* connsMu are released between a lookup and what follows from it, so a    *)
(* handler of the read loop is several steps.                              *)
(***************************************************************************)
EXTENDS MuxProtocol

VARIABLES
    nextConnID,  \* m.nextConnID
    pending,     \* keys of m.pending
    resp,        \* per id: content of its respCh, "none", "conn" or "err"
    dpc,         \* per id: where its Dial is
    conns,       \* keys of m.conns
    mconn,       \* per id: its MuxConn: "none", "open" or "closed"
    readBuf,     \* per id: chunks in MuxConn.readBuf
    rd,          \* per id: where its client is in MuxConn.Read
    wr, wrote,   \* per id: where its client is in Write; chunks written
    cl,          \* per id: how far its client's Close is
    rl, rmsg,    \* the read loop: place, and the message it handles
    pl,          \* the ping loop: place
    pong,        \* pongCh holds a token
    muxCtx,      \* m.ctx is cancelled
    stop,        \* how far Manager.Stop is
    got          \* history, per id: chunks its client has read

muxVars == <<nextConnID, pending, resp, dpc, conns, mconn, readBuf, rd, wr,
             wrote, cl, rl, rmsg, pl, pong, muxCtx, stop, got>>

dialVars   == <<nextConnID, pending, resp, dpc>>
connVars   == <<conns, mconn, readBuf>>
clientVars == <<rd, wr, wrote, cl, got>>
loopVars   == <<rl, rmsg, pl, pong>>
ctxVars    == <<muxCtx, stop>>

NoMessage == Message("none", 0)

MuxInit ==
    /\ nextConnID = 0 /\ pending = {}
    /\ resp = [i \in Ids |-> "none"]
    /\ dpc = [i \in Ids |-> "none"]
    /\ conns = {} /\ mconn = [i \in Ids |-> "none"]
    /\ readBuf = [i \in Ids |-> <<>>]
    /\ rd = [i \in Ids |-> "idle"]
    /\ wr = [i \in Ids |-> "idle"] /\ wrote = [i \in Ids |-> 0]
    /\ cl = [i \in Ids |-> "no"]
    /\ rl = "read" /\ rmsg = NoMessage /\ pl = "tick" /\ pong = FALSE
    /\ muxCtx = FALSE /\ stop = "no"
    /\ got = [i \in Ids |-> <<>>]

-----------------------------------------------------------------------------
(* Dial.                                                                   *)

DialRegister ==
    /\ ~muxCtx /\ nextConnID < MaxDials
    /\ nextConnID' = nextConnID + 1
    /\ pending' = pending \cup {nextConnID + 1}
    /\ dpc' = [dpc EXCEPT ![nextConnID + 1] = "send"]
    /\ UNCHANGED <<linkVars, resp, connVars, clientVars, loopVars, ctxVars>>

DialSend(i) ==
    /\ dpc[i] = "send"
    /\ HostWrite(Message("connect", i))
    /\ dpc' = [dpc EXCEPT ![i] = IF link = "down" THEN "failed" ELSE "wait"]
    /\ pending' = IF link = "down" THEN pending \ {i} ELSE pending
    /\ UNCHANGED <<link, agentOut, nextConnID, resp, connVars, clientVars, loopVars, ctxVars>>

DialAnswered(i) ==
    /\ dpc[i] = "wait" /\ resp[i] # "none"
    /\ dpc' = [dpc EXCEPT ![i] = IF resp[i] = "conn" THEN "open" ELSE "failed"]
    /\ resp' = [resp EXCEPT ![i] = "none"]
    /\ pending' = pending \ {i}
    /\ UNCHANGED <<linkVars, nextConnID, connVars, clientVars, loopVars, ctxVars>>

DialMuxClosed(i) ==
    /\ dpc[i] = "wait" /\ muxCtx
    /\ dpc' = [dpc EXCEPT ![i] = "failed"]
    /\ pending' = pending \ {i}
    /\ UNCHANGED <<linkVars, nextConnID, resp, connVars, clientVars, loopVars, ctxVars>>

\* The caller's context.
DialCancelled(i) ==
    /\ "cancel" \in Events /\ dpc[i] = "wait"
    /\ dpc' = [dpc EXCEPT ![i] = "failed"]
    /\ pending' = pending \ {i}
    /\ UNCHANGED <<linkVars, nextConnID, resp, connVars, clientVars, loopVars, ctxVars>>

-----------------------------------------------------------------------------
(* closeFromRemote, and declareDead by the read loop or the ping loop.  A   *)
(* closeFromRemote that meets a Close by the client waits in closeOnce     *)
(* until SendClose is over; here it does not wait.                         *)

\* The connections S are marked closed and leave the map.
CloseFromRemote(S) ==
    /\ mconn' = [i \in Ids |-> IF i \in S THEN "closed" ELSE mconn[i]]
    /\ conns' = conns \ S

\* Every pending Dial is answered with an error, unless it has an answer.
FailPending ==
    resp' = [i \in Ids |-> IF i \in pending /\ resp[i] = "none" THEN "err" ELSE resp[i]]

\* m.cancel() and m.conn.Close()
Teardown == muxCtx' = TRUE /\ LinkDown

-----------------------------------------------------------------------------
(* readLoop.                                                               *)

ReadLoopStep(next, m) == rl' = next /\ rmsg' = m /\ UNCHANGED <<pl, pong>>

\* One message, looked up in m.pending or m.conns.
ReadLoopReceive ==
    LET m == Head(agentOut)
    IN  /\ rl = "read" /\ link = "up" /\ agentOut # <<>>
        /\ agentOut' = Tail(agentOut)
        /\ \/ /\ m.type = "ack" /\ m.id \in pending
              /\ ReadLoopStep("register", m) /\ UNCHANGED connVars
           \/ /\ m.type = "data" /\ m.id \in conns
              /\ ReadLoopStep("deliver", m) /\ UNCHANGED connVars
           \/ /\ m.type = "error"
              /\ ReadLoopStep(IF m.id \in pending THEN "refuse" ELSE "close", m)
              /\ UNCHANGED connVars
           \/ /\ m.type = "close"
              /\ ReadLoopStep("close", m) /\ UNCHANGED connVars
           \/ /\ m.type = "pong"
              /\ pong' = TRUE /\ UNCHANGED <<rl, rmsg, pl, connVars>>
           \/ /\ \/ m.type = "ack" /\ m.id \notin pending
                 \/ m.type = "data" /\ m.id \notin conns
              /\ UNCHANGED <<loopVars, connVars>>
        /\ UNCHANGED <<link, hostOut, dialVars, clientVars, ctxVars>>

\* handleConnectAck: the MuxConn is registered, then given to respCh.
RegisterConn ==
    /\ rl = "register"
    /\ conns' = conns \cup {rmsg.id}
    /\ mconn' = [mconn EXCEPT ![rmsg.id] = "open"]
    /\ ReadLoopStep("respond", rmsg)
    /\ UNCHANGED <<linkVars, dialVars, readBuf, clientVars, ctxVars>>

\* respCh has room for one answer; declareDead may have taken it.
RespondConn ==
    /\ rl = "respond" /\ resp[rmsg.id] = "none"
    /\ resp' = [resp EXCEPT ![rmsg.id] = "conn"]
    /\ ReadLoopStep("read", NoMessage)
    /\ UNCHANGED <<linkVars, nextConnID, pending, dpc, connVars, clientVars, ctxVars>>

\* handleError: the Dial is answered; a connection with that id is closed.
RefuseConn ==
    /\ rl = "refuse" /\ resp[rmsg.id] = "none"
    /\ resp' = [resp EXCEPT ![rmsg.id] = "err"]
    /\ ReadLoopStep("close", rmsg)
    /\ UNCHANGED <<linkVars, nextConnID, pending, dpc, connVars, clientVars, ctxVars>>

CloseConn ==
    /\ rl = "close"
    /\ CloseFromRemote({rmsg.id} \cap conns)
    /\ ReadLoopStep("read", NoMessage)
    /\ UNCHANGED <<linkVars, dialVars, readBuf, clientVars, ctxVars>>

\* Mutant: a chunk that does not fit is dropped.
DeliverData_DropsWhenFull ==
    /\ rl = "deliver"
    /\ readBuf' = IF Len(readBuf[rmsg.id]) < BufCap /\ mconn[rmsg.id] = "open"
                  THEN [readBuf EXCEPT ![rmsg.id] = Append(@, rmsg.chunk)] ELSE readBuf
    /\ ReadLoopStep("read", NoMessage)
    /\ UNCHANGED <<linkVars, dialVars, conns, mconn, clientVars, ctxVars>>

\* Mutant: the buffer grows instead of making the read loop wait.
DeliverData_Unbounded ==
    /\ rl = "deliver"
    /\ readBuf' = [readBuf EXCEPT ![rmsg.id] = Append(@, rmsg.chunk)]
    /\ ReadLoopStep("read", NoMessage)
    /\ UNCHANGED <<linkVars, dialVars, conns, mconn, clientVars, ctxVars>>

\* handleData waits for room, for the end of the connection or of the mux;
\* if several are the case, select takes any.
DeliverData ==
    /\ rl = "deliver"
    /\ \/ /\ Len(readBuf[rmsg.id]) < BufCap
          /\ readBuf' = [readBuf EXCEPT ![rmsg.id] = Append(@, rmsg.chunk)]
       \/ /\ mconn[rmsg.id] = "closed" \/ muxCtx
          /\ UNCHANGED readBuf
    /\ ReadLoopStep("read", NoMessage)
    /\ UNCHANGED <<linkVars, dialVars, conns, mconn, clientVars, ctxVars>>

\* ReadMessage fails on a broken link; a mux that was closed meanwhile is left
\* alone.  A frame that was read before may still be handled afterwards.
ReadLoopFails ==
    /\ rl = "read" /\ (link = "down" \/ muxCtx)
    /\ ReadLoopStep(IF muxCtx THEN "exit" ELSE "dead_pending", NoMessage)
    /\ UNCHANGED <<linkVars, dialVars, connVars, clientVars, ctxVars>>

ReadLoopDeclareDead ==
    \/ /\ rl = "dead_pending"
       /\ FailPending
       /\ ReadLoopStep("dead_conns", NoMessage)
       /\ UNCHANGED <<linkVars, nextConnID, pending, dpc, connVars, clientVars, ctxVars>>
    \/ /\ rl = "dead_conns"
       /\ CloseFromRemote(conns)
       /\ ReadLoopStep("dead_cancel", NoMessage)
       /\ UNCHANGED <<linkVars, dialVars, readBuf, clientVars, ctxVars>>
    \/ /\ rl = "dead_cancel"
       /\ Teardown
       /\ ReadLoopStep("exit", NoMessage)
       /\ UNCHANGED <<dialVars, connVars, clientVars, stop>>

-----------------------------------------------------------------------------
(* pingLoop.                                                               *)

PingLoopStep(next) == pl' = next /\ UNCHANGED <<rl, rmsg>>

\* A stale pong is drained before the ping is written.
SendPing ==
    /\ pl = "tick" /\ ~muxCtx
    /\ pong' = FALSE
    /\ HostWrite(Message("ping", 0))
    /\ PingLoopStep(IF link = "down" THEN "dead_pending" ELSE "await")
    /\ UNCHANGED <<link, agentOut, dialVars, connVars, clientVars, ctxVars>>

ReceivePong ==
    /\ pl = "await" /\ pong
    /\ pong' = FALSE
    /\ PingLoopStep("tick")
    /\ UNCHANGED <<linkVars, dialVars, connVars, clientVars, ctxVars>>

\* Mutant: an unanswered ping only ends the ping loop.
PongTimeout_NotDeclared ==
    /\ pl = "await" /\ ~muxCtx
    /\ PingLoopStep("exit")
    /\ UNCHANGED <<linkVars, dialVars, connVars, clientVars, pong, ctxVars>>

PongTimeout ==
    /\ pl = "await" /\ ~muxCtx
    /\ PingLoopStep("dead_pending")
    /\ UNCHANGED <<linkVars, dialVars, connVars, clientVars, pong, ctxVars>>

PingLoopStops ==
    /\ pl \in {"tick", "await"} /\ muxCtx
    /\ PingLoopStep("exit")
    /\ UNCHANGED <<linkVars, dialVars, connVars, clientVars, pong, ctxVars>>

PingLoopDeclareDead ==
    /\ \/ /\ pl = "dead_pending"
          /\ FailPending
          /\ PingLoopStep("dead_conns")
          /\ UNCHANGED <<linkVars, nextConnID, pending, dpc, connVars, ctxVars>>
       \/ /\ pl = "dead_conns"
          /\ CloseFromRemote(conns)
          /\ PingLoopStep("dead_cancel")
          /\ UNCHANGED <<linkVars, dialVars, readBuf, ctxVars>>
       \/ /\ pl = "dead_cancel"
          /\ Teardown
          /\ PingLoopStep("exit")
          /\ UNCHANGED <<dialVars, connVars, stop>>
    /\ UNCHANGED <<clientVars, pong>>

-----------------------------------------------------------------------------
(* The client of a connection: Read, Write and Close of MuxConn.           *)

Take(i) ==
    /\ readBuf[i] # <<>>
    /\ got' = [got EXCEPT ![i] = Append(@, Head(readBuf[i]))]
    /\ readBuf' = [readBuf EXCEPT ![i] = Tail(@)]

\* Buffered data first, without waiting; ...
ReadBuffered(i) ==
    /\ "read" \in Events /\ dpc[i] = "open" /\ rd[i] = "idle"
    /\ IF readBuf[i] # <<>>
       THEN Take(i) /\ UNCHANGED rd
       ELSE rd' = [rd EXCEPT ![i] = "block"] /\ UNCHANGED <<got, readBuf>>
    /\ UNCHANGED <<linkVars, dialVars, conns, mconn, wr, wrote, cl, loopVars, ctxVars>>

\* ... then data, the end of the connection or a minute, in any order.
ReadBlocked(i) ==
    /\ rd[i] = "block"
    /\ \/ Take(i) /\ rd' = [rd EXCEPT ![i] = "idle"]
       \/ /\ mconn[i] = "closed"
          /\ rd' = [rd EXCEPT ![i] = "eof"]
          /\ UNCHANGED <<got, readBuf>>
       \/ /\ readBuf[i] = <<>> /\ mconn[i] = "open"
          /\ rd' = [rd EXCEPT ![i] = "timeout"]
          /\ UNCHANGED <<got, readBuf>>
    /\ UNCHANGED <<linkVars, dialVars, conns, mconn, wr, wrote, cl, loopVars, ctxVars>>

\* Write looks at closed under c.mu, then writes under writeMu.
ConnWrite(i) ==
    /\ \/ /\ i \in Busy /\ dpc[i] = "open" /\ mconn[i] = "open"
          /\ wr[i] = "idle" /\ wrote[i] < MaxWrites
          /\ wr' = [wr EXCEPT ![i] = "send"]
          /\ UNCHANGED <<wrote, hostOut>>
       \/ /\ wr[i] = "send"
          /\ HostWrite(Data(i, wrote[i] + 1))
          /\ wrote' = [wrote EXCEPT ![i] = @ + 1]
          /\ wr' = [wr EXCEPT ![i] = "idle"]
    /\ UNCHANGED <<link, agentOut, dialVars, connVars, rd, cl, got, loopVars, ctxVars>>

\* closeOnce: nothing is left to do for a connection that was closed already.
ConnClose(i) ==
    /\ "close" \in Events /\ i \in Busy /\ dpc[i] = "open" /\ cl[i] = "no"
    /\ CloseFromRemote({i})
    /\ cl' = [cl EXCEPT ![i] = IF mconn[i] = "open" THEN "send" ELSE "done"]
    /\ UNCHANGED <<linkVars, dialVars, readBuf, rd, wr, wrote, got, loopVars, ctxVars>>

\* Mutant: the agent is not told.
SendClose_NotSent(i) ==
    /\ cl[i] = "send"
    /\ cl' = [cl EXCEPT ![i] = "done"]
    /\ UNCHANGED <<linkVars, dialVars, connVars, rd, wr, wrote, got, loopVars, ctxVars>>

SendClose(i) ==
    /\ cl[i] = "send"
    /\ HostWrite(Message("close", i))
    /\ cl' = [cl EXCEPT ![i] = "done"]
    /\ UNCHANGED <<link, agentOut, dialVars, connVars, rd, wr, wrote, got, loopVars, ctxVars>>

-----------------------------------------------------------------------------
(* SendShutdown and Close, in the order of Manager.Stop.                   *)

SendShutdown ==
    /\ "stop" \in Events /\ stop = "no"
    /\ stop' = "shutdown"
    /\ HostWrite(Message("shutdown", 0))
    /\ UNCHANGED <<link, agentOut, dialVars, connVars, clientVars, loopVars, muxCtx>>

MuxClose ==
    /\ stop = "shutdown" /\ stop' = "closed"
    /\ Teardown
    /\ UNCHANGED <<dialVars, connVars, clientVars, loopVars>>

-----------------------------------------------------------------------------

\* The steps of a Dial that do not depend on its caller.
DialSteps(i) == DialSend(i) \/ DialAnswered(i) \/ DialMuxClosed(i)

ReadLoop ==
    \/ ReadLoopReceive \/ RegisterConn \/ RespondConn \/ RefuseConn \/ CloseConn
    \/ DeliverData \/ ReadLoopFails \/ ReadLoopDeclareDead

PingLoop == SendPing \/ ReceivePong \/ PongTimeout \/ PingLoopStops \/ PingLoopDeclareDead

Client(i) ==
    \/ ReadBuffered(i) \/ ReadBlocked(i) \/ ConnWrite(i)
    \/ ConnClose(i) \/ SendClose(i)

MuxNext ==
    \/ DialRegister \/ ReadLoop \/ PingLoop \/ SendShutdown \/ MuxClose
    \/ \E i \in Ids : DialSteps(i) \/ DialCancelled(i) \/ Client(i)

MuxTypeOK ==
    /\ nextConnID \in 0 .. MaxDials /\ pending \subseteq Ids
    /\ resp \in [Ids -> {"none", "conn", "err"}]
    /\ dpc \in [Ids -> {"none", "send", "wait", "open", "failed"}]
    /\ conns \subseteq Ids
    /\ mconn \in [Ids -> {"none", "open", "closed"}]
    /\ \A i \in Ids : Len(readBuf[i]) <= BufCap /\ Len(got[i]) <= MaxData
    /\ rd \in [Ids -> {"idle", "block", "eof", "timeout"}]
    /\ wrote \in [Ids -> 0 .. MaxWrites]
    /\ rl \in {"read", "register", "respond", "refuse", "close", "deliver",
               "dead_pending", "dead_conns", "dead_cancel", "exit"}
    /\ pl \in {"tick", "await", "dead_pending", "dead_conns", "dead_cancel", "exit"}
    /\ pong \in BOOLEAN /\ muxCtx \in BOOLEAN
    /\ wr \in [Ids -> {"idle", "send"}]
    /\ cl \in [Ids -> {"no", "send", "done"}]
    /\ stop \in {"no", "shutdown", "closed"}

=============================================================================
