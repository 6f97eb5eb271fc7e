----------------------------- MODULE MuxProtocol -----------------------------
(***************************************************************************)
(* What the host's AgentMux and the agent in the VM share: the messages of *)
(* internal/protocol and the one vsock connection that carries them, a     *)
(* FIFO in each direction.  WriteMessage hands a whole frame to one Write, *)
(* so frames of concurrent writers do not mix, and a writer waits while    *)
(* the send buffer is full.  The connection itself is external: it can     *)
(* break, and it can wedge (stay open and move nothing).                   *)
(***************************************************************************)
EXTENDS Naturals, Sequences, FiniteSets

CONSTANTS
    MaxDials,   \* bound: connections dialled in all
    Busy,       \* bound: the connections that carry data and that a client or
                \* a target closes; the others are only dialled
    MaxData,    \* bound: chunks each target sends
    MaxWrites,  \* bound: chunks the client of each connection writes
    BufCap,     \* capacity of MuxConn.readBuf
    LinkCap,    \* frames each direction of the link buffers
    Events      \* what else may happen: "cut" and "wedge" of the link, "cancel"
                \* by a caller of Dial, "read" and "close" by a client, "stop"
                \* of the proxy manager

ASSUME MuxAssumption ==
    /\ MaxDials \in Nat /\ Busy \subseteq 1 .. MaxDials /\ MaxData \in Nat /\ MaxWrites \in Nat
    /\ BufCap \in Nat \ {0} /\ LinkCap \in Nat \ {0}
    /\ Events \subseteq {"cut", "wedge", "cancel", "read", "close", "stop"}

Ids == 1 .. MaxDials

Message(t, i) == [type |-> t, id |-> i, chunk |-> 0]
Data(i, k)    == [type |-> "data", id |-> i, chunk |-> k]

VARIABLES
    link,      \* "up", "wedged" or "down"
    hostOut,   \* frames from the host to the agent
    agentOut   \* frames from the agent to the host

linkVars == <<link, hostOut, agentOut>>

LinkInit == link = "up" /\ hostOut = <<>> /\ agentOut = <<>>

\* WriteMessage fails on a broken connection and has no deadline otherwise.
HostWrite(m) ==
    /\ link = "down" \/ Len(hostOut) < LinkCap
    /\ hostOut' = IF link = "down" THEN hostOut ELSE Append(hostOut, m)

AgentWrite(m) ==
    /\ link = "down" \/ Len(agentOut) < LinkCap
    /\ agentOut' = IF link = "down" THEN agentOut ELSE Append(agentOut, m)

-----------------------------------------------------------------------------
(* The faults of the link.                                                 *)

\* Nothing that is in transit on a broken link is ever read.
LinkDown == link' = "down" /\ hostOut' = <<>> /\ agentOut' = <<>>

Cut == "cut" \in Events /\ link # "down" /\ LinkDown

Wedge ==
    /\ "wedge" \in Events /\ link = "up"
    /\ link' = "wedged" /\ UNCHANGED <<hostOut, agentOut>>

LinkTypeOK ==
    /\ link \in {"up", "wedged", "down"}
    /\ Len(hostOut) <= LinkCap /\ Len(agentOut) <= LinkCap

=============================================================================
