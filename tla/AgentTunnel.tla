----------------------------- MODULE AgentTunnel -----------------------------
(***************************************************************************)
(* The VM tunnel as a whole: AgentMux on the host and the agent in the VM, *)
(* talking over one link that can break or wedge.                          *)
(***************************************************************************)
EXTENDS AgentMux, VMAgent

vars == <<linkVars, muxVars, agentVars>>

Init == LinkInit /\ MuxInit /\ AgentInit

Next ==
    \/ MuxNext /\ UNCHANGED agentVars
    \/ AgentNext /\ UNCHANGED muxVars
    \/ (Cut \/ Wedge) /\ UNCHANGED <<muxVars, agentVars>>

Spec == Init /\ [][Next]_vars

(***************************************************************************)
(* The host's goroutines are scheduled, Manager.Stop goes on to Close after *)
(* SendShutdown, and the agent's goroutines finish a dial (DialContext has *)
(* a 2 minute limit).  Nothing is assumed of the                           *)
(* agent's main loop, of the clients, of Dial's callers or of the link:    *)
(* the ping loop is there to do without them.                              *)
(***************************************************************************)
HostFairness ==
    /\ WF_vars(ReadLoop /\ UNCHANGED agentVars)
    /\ WF_vars(PingLoop /\ UNCHANGED agentVars)
    /\ WF_vars(MuxClose /\ UNCHANGED agentVars)
    /\ \A i \in Ids :
        /\ WF_vars(DialSteps(i) /\ UNCHANGED agentVars)
        /\ WF_vars(SendClose(i) /\ UNCHANGED agentVars)
        /\ WF_vars((DialTarget(i) \/ DialTargetFails(i) \/ SendAck(i)) /\ UNCHANGED muxVars)

HostSpec == Spec /\ HostFairness

-----------------------------------------------------------------------------

\* The values every variable of the link, the mux and the agent can take;
\* readBuf never exceeds its capacity and the link its buffer.
TypeOK == LinkTypeOK /\ MuxTypeOK /\ AgentTypeOK

IsPrefix123(s) == \A k \in 1 .. Len(s) : s[k] = k

\* What a client reads is the beginning of what the target sent, and what the
\* target receives the beginning of what the client wrote: no chunk is
\* dropped, repeated or overtaken inside a stream, whatever closes, times out
\* or dies meanwhile (handleData waits rather than drops, agent_mux.go:326).
NoGap == \A i \in Ids : IsPrefix123(got[i]) /\ IsPrefix123(gotChunks[i])

\* A connection that is over in the VM is not left open on the host: its close
\* is still in transit or being handled (Connection.Close, handleClose of the
\* mux, and the order of acks, data and closes on the link).
ClosedIsAnnounced ==
    \A i \in Ids : (dpc[i] = "open" /\ mconn[i] = "open" /\ target[i] = "closed" /\ link # "down")
        => \/ \E k \in DOMAIN agentOut : agentOut[k] = Message("close", i)
           \/ rl = "close" /\ rmsg.id = i

\* Dial returns, even if the agent answers nothing, the link breaks or wedges,
\* or the client of another connection does not read and stalls the only read
\* loop: its caller need not cancel (Dial, declareDead, pingLoop).  A Dial that
\* never returned would make this false from some moment on.
DialReturns == []<>(\A i \in Ids : dpc[i] \notin {"send", "wait"})

\* A connection that its client closed does not stay open in the VM while the
\* link works (MuxConn.Close, handleClose of the agent).
CloseReachesTarget ==
    \A i \in Busy : cl[i] # "no" ~> (target[i] # "open" \/ link # "up")

\* A wedged link is noticed (the comment of pingLoop).
WedgeIsNoticed == (link = "wedged") ~> muxCtx

=============================================================================
