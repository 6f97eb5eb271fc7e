--------------------------- MODULE DataChannelSend ---------------------------
(***************************************************************************)
(* The sending half of internal/backend/ssm/datachannel (channel.go): the  *)
(* goroutines that send input data, the resend scheduler, and the receive  *)
(* goroutine while it processes acknowledgements.  They share sendSeqNum   *)
(* and pendingMessages (under d.mu) and outgoingBuffer (under              *)
(* d.outgoingMu), and every unlock between two critical sections is a      *)
(* point where another goroutine may run, hence an action boundary.        *)
(*                                                                         *)
(* A message is identified by its sequence number: MessageID is a fresh    *)
(* UUID per message, and a message is never given a second number.  The    *)
(* SSM service and the agent behind the WebSocket are external: they may   *)
(* lose and reorder messages (that is what the resend scheduler is for)    *)
(* and the agent acknowledges every input message it receives.             *)
(***************************************************************************)
EXTENDS Naturals, Sequences, FiniteSets

CONSTANTS
    Senders,     \* goroutines inside SendInputData or sendHandshakeResponse
    MaxSeq,      \* bound: how many messages are sent in all
    Capacity,    \* OutgoingMessageBufferCapacity (config.go)
    MaxAttempt,  \* ResendMaxAttempt (config.go)
    MaxDrops,    \* bound: how many messages and acks the network loses
    None         \* "no message"

ASSUME SendAssumption ==
    /\ MaxSeq \in Nat
    /\ Capacity \in Nat \ {0}
    /\ MaxAttempt \in Nat
    /\ MaxDrops \in Nat
    /\ None \notin Nat

VARIABLES
    sendSeqNum,       \* next sequence number (d.sendSeqNum)
    pc,               \* where each sender is in sendMessage
    mine,             \* the sequence number each sender was given
    pendingMessages,  \* messages awaiting an acknowledgement
    outgoingBuffer,   \* list of [seq, attempt], oldest first
    rpc, rmsg,        \* resend scheduler: place, and its copy of the front
    apc, amsg,        \* receive goroutine: place, and the message acked
    wsOpen,           \* the WebSocket accepts writes
    ctxDone,          \* d.ctx cancelled by Close
    toAgent, acks,    \* copies of each message and of its acknowledgement in flight
    drops,            \* how many of those the network has lost
    agentGot,         \* messages that reached the agent
    \* history of what the properties talk about
    written,          \* times each message was written to the WebSocket
    evicted           \* messages pushed out of a full outgoingBuffer

vars == <<sendSeqNum, pc, mine, pendingMessages, outgoingBuffer, rpc, rmsg,
          apc, amsg, wsOpen, ctxDone, toAgent, acks, drops, agentGot,
          written, evicted>>

senderVars == <<sendSeqNum, pc, mine>>
resendVars == <<rpc, rmsg>>
ackVars    == <<apc, amsg>>
netVars    == <<toAgent, acks, drops, agentGot>>

Seqs  == 0 .. MaxSeq - 1
Entry == [seq : Seqs, attempt : 0 .. MaxAttempt]

Buffered == {outgoingBuffer[i].seq : i \in 1 .. Len(outgoingBuffer)}

Init ==
    /\ sendSeqNum = 0
    /\ pc = [s \in Senders |-> "idle"]
    /\ mine = [s \in Senders |-> None]
    /\ pendingMessages = {}
    /\ outgoingBuffer = <<>>
    /\ rpc = "idle" /\ rmsg = None
    /\ apc = "idle" /\ amsg = None
    /\ wsOpen = TRUE /\ ctxDone = FALSE
    /\ toAgent = [m \in Seqs |-> 0] /\ acks = [m \in Seqs |-> 0]
    /\ drops = 0 /\ agentGot = {}
    /\ written = [m \in Seqs |-> 0]
    /\ evicted = {}

-----------------------------------------------------------------------------
(* One write to the WebSocket; it succeeds exactly while the socket is up. *)

WsSendMessage(m) ==
    IF wsOpen
    THEN /\ toAgent' = [toAgent EXCEPT ![m] = @ + 1]
         /\ written' = [written EXCEPT ![m] = @ + 1]
    ELSE UNCHANGED <<toAgent, written>>

-----------------------------------------------------------------------------
(* Senders: SendInputData, and sendHandshakeResponse on the same path.     *)

\* The number is taken and advanced under d.mu, which is then released.
AssignSeqNum(s) ==
    /\ pc[s] = "idle"
    /\ sendSeqNum < MaxSeq
    /\ mine' = [mine EXCEPT ![s] = sendSeqNum]
    /\ sendSeqNum' = sendSeqNum + 1
    /\ pc' = [pc EXCEPT ![s] = "assigned"]
    /\ UNCHANGED <<pendingMessages, outgoingBuffer, resendVars, ackVars, wsOpen,
                   ctxDone, netVars, written, evicted>>

TrackPending(s) ==
    /\ pc[s] = "assigned"
    /\ pendingMessages' = pendingMessages \cup {mine[s]}
    /\ pc' = [pc EXCEPT ![s] = "pended"]
    /\ UNCHANGED <<sendSeqNum, mine, outgoingBuffer, resendVars, ackVars, wsOpen,
                   ctxDone, netVars, written, evicted>>

\* Mutant: the message is sent first and never entered in the buffer.
AddToOutgoingBuffer_NotPushed(s) ==
    /\ pc[s] = "pended"
    /\ pc' = [pc EXCEPT ![s] = "buffered"]
    /\ UNCHANGED <<sendSeqNum, mine, pendingMessages, outgoingBuffer, resendVars, ackVars,
                   wsOpen, ctxDone, netVars, written, evicted>>

\* A full buffer loses its oldest entry, acknowledged or not.
AddToOutgoingBuffer(s) ==
    LET full == Len(outgoingBuffer) >= Capacity
        kept == IF full THEN Tail(outgoingBuffer) ELSE outgoingBuffer
    IN  /\ pc[s] = "pended"
        /\ outgoingBuffer' = Append(kept, [seq |-> mine[s], attempt |-> 0])
        /\ evicted' = IF full THEN evicted \cup {Head(outgoingBuffer).seq} ELSE evicted
        /\ pc' = [pc EXCEPT ![s] = "buffered"]
        /\ UNCHANGED <<sendSeqNum, mine, pendingMessages, resendVars, ackVars, wsOpen,
                       ctxDone, netVars, written>>

\* A failed write is reported to the caller; the message stays buffered.
FirstSend(s) ==
    /\ pc[s] = "buffered"
    /\ WsSendMessage(mine[s])
    /\ pc' = [pc EXCEPT ![s] = "idle"]
    /\ UNCHANGED <<sendSeqNum, mine, pendingMessages, outgoingBuffer, resendVars, ackVars,
                   wsOpen, ctxDone, acks, drops, agentGot, evicted>>

-----------------------------------------------------------------------------
(* The receive goroutine inside processAcknowledge.                        *)

ProcessAckPending(m) ==
    /\ apc = "idle" /\ wsOpen
    /\ acks[m] > 0
    /\ acks' = [acks EXCEPT ![m] = @ - 1]
    /\ pendingMessages' = pendingMessages \ {m}
    /\ apc' = "remove" /\ amsg' = m
    /\ UNCHANGED <<senderVars, outgoingBuffer, resendVars, wsOpen, ctxDone, toAgent,
                   drops, agentGot, written, evicted>>

\* list.Remove of the entry at position i
Without(buf, i) == [j \in 1 .. Len(buf) - 1 |-> IF j < i THEN buf[j] ELSE buf[j + 1]]

\* The first entry with that MessageID goes.
ProcessAckBuffer ==
    /\ apc = "remove"
    /\ \/ \E i \in 1 .. Len(outgoingBuffer) :
            /\ outgoingBuffer[i].seq = amsg
            /\ \A j \in 1 .. i - 1 : outgoingBuffer[j].seq # amsg
            /\ outgoingBuffer' = Without(outgoingBuffer, i)
       \/ /\ amsg \notin Buffered
          /\ UNCHANGED outgoingBuffer
    /\ apc' = "idle" /\ amsg' = None
    /\ UNCHANGED <<senderVars, pendingMessages, resendVars, wsOpen, ctxDone, netVars,
                   written, evicted>>

-----------------------------------------------------------------------------
(* The resend scheduler: checkAndResend.                                   *)

\* Mutant: off by one at the attempt limit.
CheckFront_OffByOne ==
    /\ rpc = "idle" /\ ~ctxDone
    /\ outgoingBuffer # <<>>
    /\ Head(outgoingBuffer).attempt <= MaxAttempt
    /\ rmsg' = Head(outgoingBuffer)
    /\ rpc' = "resend"
    /\ UNCHANGED <<senderVars, pendingMessages, outgoingBuffer, ackVars, wsOpen, ctxDone,
                   netVars, written, evicted>>

\* Under outgoingMu it copies the front entry.  The step stands for a tick
\* at which the front's timeout has elapsed; a tick before that returns
\* without effect, and so does one that finds the attempts used up (the
\* backend registers no onResendTimeout callback).
CheckFront ==
    /\ rpc = "idle" /\ ~ctxDone
    /\ outgoingBuffer # <<>>
    /\ Head(outgoingBuffer).attempt < MaxAttempt
    /\ rmsg' = Head(outgoingBuffer)
    /\ rpc' = "resend"
    /\ UNCHANGED <<senderVars, pendingMessages, outgoingBuffer, ackVars, wsOpen, ctxDone,
                   netVars, written, evicted>>

\* No lock is held while the copy is written.
Resend ==
    /\ rpc = "resend"
    /\ WsSendMessage(rmsg.seq)
    /\ IF wsOpen
       THEN rpc' = "update" /\ UNCHANGED rmsg
       ELSE rpc' = "idle" /\ rmsg' = None
    /\ UNCHANGED <<senderVars, pendingMessages, outgoingBuffer, ackVars, wsOpen, ctxDone,
                   acks, drops, agentGot, evicted>>

\* Mutant: the scheduler's stale copy is written back to whatever is in front.
ResendUpdate_NoCompare ==
    /\ rpc = "update"
    /\ outgoingBuffer' =
         IF outgoingBuffer # <<>>
         THEN [outgoingBuffer EXCEPT ![1] = [rmsg EXCEPT !.attempt = @ + 1]]
         ELSE outgoingBuffer
    /\ rpc' = "idle" /\ rmsg' = None
    /\ UNCHANGED <<senderVars, pendingMessages, ackVars, wsOpen, ctxDone, netVars,
                   written, evicted>>

\* The front is looked up again: it may have been acknowledged or evicted.
ResendUpdate ==
    /\ rpc = "update"
    /\ outgoingBuffer' =
         IF outgoingBuffer # <<>> /\ Head(outgoingBuffer).seq = rmsg.seq
         THEN [outgoingBuffer EXCEPT ![1].attempt = @ + 1]
         ELSE outgoingBuffer
    /\ rpc' = "idle" /\ rmsg' = None
    /\ UNCHANGED <<senderVars, pendingMessages, ackVars, wsOpen, ctxDone, netVars,
                   written, evicted>>

-----------------------------------------------------------------------------
(* Close, the peer closing the socket, and the external network and agent. *)

Close ==
    /\ ~ctxDone
    /\ ctxDone' = TRUE /\ wsOpen' = FALSE
    /\ UNCHANGED <<senderVars, pendingMessages, outgoingBuffer, resendVars, ackVars,
                   netVars, written, evicted>>

WsFail ==
    /\ wsOpen
    /\ wsOpen' = FALSE
    /\ UNCHANGED <<senderVars, pendingMessages, outgoingBuffer, resendVars, ackVars,
                   ctxDone, netVars, written, evicted>>

AgentReceive(m) ==
    /\ toAgent[m] > 0
    /\ toAgent' = [toAgent EXCEPT ![m] = @ - 1]
    /\ agentGot' = agentGot \cup {m}
    /\ acks' = [acks EXCEPT ![m] = @ + 1]
    /\ UNCHANGED <<senderVars, pendingMessages, outgoingBuffer, resendVars, ackVars, wsOpen,
                   ctxDone, drops, written, evicted>>

Lose(m) ==
    /\ drops < MaxDrops
    /\ \/ /\ toAgent[m] > 0
          /\ toAgent' = [toAgent EXCEPT ![m] = @ - 1]
          /\ UNCHANGED acks
       \/ /\ acks[m] > 0
          /\ acks' = [acks EXCEPT ![m] = @ - 1]
          /\ UNCHANGED toAgent
    /\ drops' = drops + 1
    /\ UNCHANGED <<senderVars, pendingMessages, outgoingBuffer, resendVars, ackVars, wsOpen,
                   ctxDone, agentGot, written, evicted>>

-----------------------------------------------------------------------------

Sender(s) == AssignSeqNum(s) \/ TrackPending(s) \/ AddToOutgoingBuffer(s) \/ FirstSend(s)
Receiver  == (\E m \in Seqs : ProcessAckPending(m)) \/ ProcessAckBuffer
Scheduler == CheckFront \/ Resend \/ ResendUpdate
Network   == \E m \in Seqs : AgentReceive(m) \/ Lose(m)

Next ==
    \/ \E s \in Senders : Sender(s)
    \/ Receiver
    \/ Scheduler
    \/ Close
    \/ WsFail
    \/ Network

Spec == Init /\ [][Next]_vars

\* The runtime keeps scheduling runnable goroutines, the scheduler's ticker
\* keeps firing, and the network delivers what it does not lose.
Fairness ==
    /\ \A s \in Senders : WF_vars(TrackPending(s) \/ AddToOutgoingBuffer(s) \/ FirstSend(s))
    /\ WF_vars(ProcessAckBuffer)
    /\ \A m \in Seqs : WF_vars(ProcessAckPending(m))
    /\ WF_vars(Scheduler)
    /\ \A m \in Seqs : WF_vars(AgentReceive(m))

FairSpec == Spec /\ Fairness

-----------------------------------------------------------------------------
(* Properties.                                                             *)

\* Every variable keeps the type of the Go field or local it stands for.
TypeOK ==
    /\ sendSeqNum \in 0 .. MaxSeq
    /\ pc \in [Senders -> {"idle", "assigned", "pended", "buffered"}]
    /\ mine \in [Senders -> Seqs \cup {None}]
    /\ pendingMessages \subseteq Seqs
    /\ outgoingBuffer \in Seq(Entry)
    /\ rpc \in {"idle", "resend", "update"} /\ rmsg \in Entry \cup {None}
    /\ apc \in {"idle", "remove"} /\ amsg \in Seqs \cup {None}
    /\ wsOpen \in BOOLEAN /\ ctxDone \in BOOLEAN
    /\ toAgent \in [Seqs -> Nat] /\ acks \in [Seqs -> Nat]
    /\ drops \in 0 .. MaxDrops /\ agentGot \subseteq Seqs
    /\ written \in [Seqs -> Nat]
    /\ evicted \subseteq Seqs

\* A message that was written and not acknowledged can still be resent: it is
\* in the outgoing buffer, unless the buffer was full and evicted it.  What
\* threatens this is checkAndResend writing to the buffer from a copy that it
\* took before it released outgoingMu.
UnackedIsBuffered ==
    \A m \in pendingMessages : written[m] > 0 => m \in Buffered \cup evicted

\* An acknowledged message leaves the buffer for good: apart from the one that
\* processAcknowledge is about to remove, every buffered entry is still
\* pending, so that a resend that races with the acknowledgement never brings
\* the entry back.
AckedIsForgotten ==
    \A m \in Buffered : m \in pendingMessages \/ (apc = "remove" /\ amsg = m)

\* The buffer follows the pending messages through every resend,
\* acknowledgement and eviction: it holds what is pending and was written, and
\* nothing else (checkAndResend, processAcknowledge, addToOutgoingBuffer).
BufferIsPending == UnackedIsBuffered /\ AckedIsForgotten

\* No message is written more often than its first send and ResendMaxAttempt
\* resends, although the attempt is counted in a later critical section than
\* the one that compares it with the limit.
BoundedResends ==
    \A m \in Seqs : written[m] <= MaxAttempt + 1

\* As long as the WebSocket is up, a message that sendMessage has registered
\* is acknowledged in the end unless a full buffer evicts it, losses of
\* messages and acknowledgements and two senders that enter the buffer out of
\* order notwithstanding.
EventuallyAcked ==
    \A m \in Seqs :
        m \in pendingMessages ~> (m \notin pendingMessages \/ m \in evicted \/ ~wsOpen)

=============================================================================
