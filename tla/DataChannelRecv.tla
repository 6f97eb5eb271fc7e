--------------------------- MODULE DataChannelRecv ---------------------------
(***************************************************************************)
(* The receiving half of internal/backend/ssm/datachannel: the goroutine   *)
(* that runs WebSocketChannel.StartReceiving and, inside it, the handlers  *)
(* of the messages the agent sends (channel.go, ProcessMessage), with the  *)
(* handshake, the reordering buffer and the callbacks.  d.mu is released   *)
(* between the acknowledgement, the reordering and the delivery of each    *)
(* message, so these are separate steps, and the backend's goroutine       *)
(* registers the output handler concurrently with them.                    *)
(*                                                                         *)
(* The agent is external.  It numbers its messages 0, 1, 2, ...: the       *)
(* handshake request, the handshake complete once it has the response, and *)
(* then data, and it repeats a message until it sees the acknowledgement.  *)
(***************************************************************************)
EXTENDS Naturals, Sequences, FiniteSets

CONSTANTS
    MaxSeq,      \* bound: how many messages the agent sends
    InputSeqs,   \* data that comes as input_stream_data instead of output
    Unreliable,  \* kinds of message the network loses, repeats or overtakes
    MaxRepeats,  \* bound: how many messages the agent repeats too early
    MaxLosses,   \* bound: how many messages and acknowledgements are lost
    None         \* "no message"

Kinds == {"request", "complete", "output", "input"}

ASSUME RecvAssumption ==
    /\ MaxSeq \in Nat /\ MaxRepeats \in Nat /\ MaxLosses \in Nat
    /\ InputSeqs \subseteq Nat
    /\ Unreliable \subseteq Kinds
    /\ None \notin Nat

VARIABLES
    expectedSeqNum,     \* d.expectedSeqNum
    incomingBuffer,     \* keys of d.incomingBuffer
    handshakeComplete,  \* d.handshakeComplete
    handler,            \* d.onOutputData is registered
    pc,                 \* where the receive goroutine is
    cur,                \* the message it is processing
    toDeliver,          \* the messages it has collected for delivery
    wsOpen, ctxDone,    \* the WebSocket is up; d.ctx is cancelled
    notified,           \* onDisconnect was called
    \* the agent and the network
    agentNext,          \* number of the agent's next message
    agentUnacked,       \* sent by the agent, acknowledgement not seen
    toHost, toAgent,    \* messages, and acknowledgements, in flight
    response,           \* the handshake response: "none", "sent", "got"
    closeMsg,           \* the agent's channel_closed: "none", "sent", "seen"
    repeats, losses,
    \* history of what the properties talk about
    acked,              \* messages acknowledged by the host
    delivered,          \* output messages given to deliverMessage, in order
    discarded,          \* those that found no handler registered
    direct              \* input_stream_data passed to the handler unordered

vars == <<expectedSeqNum, incomingBuffer, handshakeComplete, handler, pc, cur,
          toDeliver, wsOpen, ctxDone, notified, agentNext, agentUnacked, toHost,
          toAgent, response, closeMsg, repeats, losses, acked, delivered,
          discarded, direct>>

orderVars  == <<expectedSeqNum, incomingBuffer, handshakeComplete>>
closeVars  == <<wsOpen, ctxDone, notified>>
agentVars  == <<agentNext, agentUnacked, toAgent, closeMsg, repeats, losses>>
outputVars == <<delivered, discarded, direct>>

Seqs == 0 .. MaxSeq - 1

Kind(n) ==
    CASE n = 0 -> "request"
      [] n = 1 -> "complete"
      [] n > 1 /\ n \in InputSeqs -> "input"
      [] OTHER -> "output"

FirstData == 2

Init ==
    /\ expectedSeqNum = 0 /\ incomingBuffer = {} /\ handshakeComplete = FALSE
    /\ handler = FALSE
    /\ pc = "read" /\ cur = None /\ toDeliver = <<>>
    /\ wsOpen = TRUE /\ ctxDone = FALSE /\ notified = FALSE
    /\ agentNext = 0 /\ agentUnacked = {}
    /\ toHost = {} /\ toAgent = {}
    /\ response = "none" /\ closeMsg = "none"
    /\ repeats = 0 /\ losses = 0
    /\ acked = {} /\ delivered = <<>> /\ discarded = {} /\ direct = {}

-----------------------------------------------------------------------------
(* The receive goroutine.                                                  *)

\* ReadMessage returns the agent's message n.  Only an unreliable message can
\* be overtaken by a later one.
Receive(n) ==
    /\ pc = "read" /\ wsOpen
    /\ n \in toHost
    /\ \A k \in toHost : k < n => Kind(k) \in Unreliable
    /\ toHost' = toHost \ {n}
    /\ cur' = n
    /\ pc' = "ack"
    /\ UNCHANGED <<orderVars, handler, toDeliver, closeVars, agentVars, response, acked,
                   outputVars>>

\* The acknowledgement comes first; if it cannot be written the message is
\* not processed.
SendAcknowledge ==
    /\ pc = "ack"
    /\ IF wsOpen
       THEN /\ toAgent' = toAgent \cup {cur}
            /\ acked' = acked \cup {cur}
            /\ pc' = "process"
            /\ UNCHANGED cur
       ELSE /\ pc' = "read" /\ cur' = None
            /\ UNCHANGED <<toAgent, acked>>
    /\ UNCHANGED <<orderVars, handler, toDeliver, closeVars, agentNext, agentUnacked, toHost,
                   response, closeMsg, repeats, losses, outputVars>>

\* The response goes out through the sending half (DataChannelSend).  A
\* repeated request is answered again.
HandleHandshakeRequest ==
    /\ pc = "process" /\ Kind(cur) = "request"
    /\ response' = IF wsOpen /\ response = "none" THEN "sent" ELSE response
    /\ pc' = "read" /\ cur' = None
    /\ UNCHANGED <<orderVars, handler, toDeliver, closeVars, agentVars, toHost, acked, outputVars>>

\* The expected number is set from the message, whatever it was before.
HandleHandshakeComplete ==
    /\ pc = "process" /\ Kind(cur) = "complete"
    /\ handshakeComplete' = TRUE
    /\ expectedSeqNum' = cur + 1
    /\ pc' = "read" /\ cur' = None
    /\ UNCHANGED <<incomingBuffer, handler, toDeliver, closeVars, agentVars, toHost, response,
                   acked, outputVars>>

\* Mutant: the buffered messages that follow are not collected.
ProcessInOrder_NoDrain ==
    /\ pc = "process" /\ Kind(cur) = "output"
    /\ cur = expectedSeqNum
    /\ toDeliver' = <<cur>>
    /\ expectedSeqNum' = cur + 1
    /\ pc' = "deliver" /\ cur' = None
    /\ UNCHANGED <<incomingBuffer, handshakeComplete, handler, closeVars, agentVars, toHost,
                   response, acked, outputVars>>

\* Mutant: the loop appends what it looked up before it tests that it is there.
ProcessInOrder_CollectsNil ==
    /\ pc = "process" /\ Kind(cur) = "output"
    /\ cur = expectedSeqNum
    /\ \E next \in cur + 1 .. MaxSeq :
         /\ \A k \in cur + 1 .. next - 1 : k \in incomingBuffer
         /\ next \notin incomingBuffer
         /\ toDeliver' = Append([i \in 1 .. next - cur |-> cur + i - 1], None)
         /\ incomingBuffer' = incomingBuffer \ (cur + 1 .. next - 1)
         /\ expectedSeqNum' = next
    /\ pc' = "deliver" /\ cur' = None
    /\ UNCHANGED <<handshakeComplete, handler, closeVars, agentVars, toHost, response, acked,
                   outputVars>>

\* In order: the message and the run of buffered ones that follows it are
\* collected, and expectedSeqNum moves past them, up to next.
ProcessInOrder ==
    /\ pc = "process" /\ Kind(cur) = "output"
    /\ cur = expectedSeqNum
    /\ \E next \in cur + 1 .. MaxSeq :
         /\ \A k \in cur + 1 .. next - 1 : k \in incomingBuffer
         /\ next \notin incomingBuffer
         /\ toDeliver' = [i \in 1 .. next - cur |-> cur + i - 1]
         /\ incomingBuffer' = incomingBuffer \ (cur + 1 .. next - 1)
         /\ expectedSeqNum' = next
    /\ pc' = "deliver" /\ cur' = None
    /\ UNCHANGED <<handshakeComplete, handler, closeVars, agentVars, toHost, response, acked,
                   outputVars>>

\* Mutant: an early message is acknowledged and dropped.
ProcessEarly_Dropped ==
    /\ pc = "process" /\ Kind(cur) = "output"
    /\ cur > expectedSeqNum
    /\ pc' = "read" /\ cur' = None
    /\ UNCHANGED <<orderVars, handler, toDeliver, closeVars, agentVars, toHost, response, acked,
                   outputVars>>

\* Early: kept until its turn.
ProcessEarly ==
    /\ pc = "process" /\ Kind(cur) = "output"
    /\ cur > expectedSeqNum
    /\ incomingBuffer' = incomingBuffer \cup {cur}
    /\ pc' = "read" /\ cur' = None
    /\ UNCHANGED <<expectedSeqNum, handshakeComplete, handler, toDeliver, closeVars, agentVars,
                   toHost, response, acked, outputVars>>

\* Mutant: a message that was already delivered is delivered again.
ProcessDuplicate_Delivered ==
    /\ pc = "process" /\ Kind(cur) = "output"
    /\ cur < expectedSeqNum
    /\ toDeliver' = <<cur>>
    /\ pc' = "deliver" /\ cur' = None
    /\ UNCHANGED <<orderVars, handler, closeVars, agentVars, toHost, response, acked, outputVars>>

\* Late: a duplicate, ignored.
ProcessDuplicate ==
    /\ pc = "process" /\ Kind(cur) = "output"
    /\ cur < expectedSeqNum
    /\ pc' = "read" /\ cur' = None
    /\ UNCHANGED <<orderVars, handler, toDeliver, closeVars, agentVars, toHost, response, acked,
                   outputVars>>

\* deliverMessage, one collected message at a time, without d.mu: without a
\* registered handler the message is gone.
DeliverMessage ==
    /\ pc = "deliver"
    /\ delivered' = Append(delivered, Head(toDeliver))
    /\ discarded' = IF handler THEN discarded ELSE discarded \cup {Head(toDeliver)}
    /\ toDeliver' = Tail(toDeliver)
    /\ pc' = IF Tail(toDeliver) = <<>> THEN "read" ELSE "deliver"
    /\ UNCHANGED <<orderVars, handler, cur, closeVars, agentVars, toHost, response, acked, direct>>

\* processInputMessage passes data on as it comes.
ProcessInputData ==
    /\ pc = "process" /\ Kind(cur) = "input"
    /\ direct' = IF handler THEN direct \cup {cur} ELSE direct
    /\ pc' = "read" /\ cur' = None
    /\ UNCHANGED <<orderVars, handler, toDeliver, closeVars, agentVars, toHost, response, acked,
                   delivered, discarded>>

\* channel_closed is answered with d.Close(): cancel, then close the socket.
ProcessChannelClosed ==
    /\ pc = "read" /\ wsOpen
    /\ closeMsg = "sent"
    /\ closeMsg' = "seen"
    /\ ctxDone' = TRUE /\ wsOpen' = FALSE
    /\ UNCHANGED <<orderVars, handler, pc, cur, toDeliver, notified, agentNext, agentUnacked,
                   toHost, toAgent, response, repeats, losses, acked, outputVars>>

\* Mutant: the disconnect is reported only when the close was intended.
StopReceiving_Inverted ==
    /\ pc = "read" /\ ~wsOpen
    /\ pc' = "exited"
    /\ notified' = ctxDone
    /\ UNCHANGED <<orderVars, handler, cur, toDeliver, wsOpen, ctxDone, agentVars, toHost,
                   response, acked, outputVars>>

\* StartReceiving returns; a cancelled context counts as an intended close.
StopReceiving ==
    /\ pc = "read" /\ ~wsOpen
    /\ pc' = "exited"
    /\ notified' = ~ctxDone
    /\ UNCHANGED <<orderVars, handler, cur, toDeliver, wsOpen, ctxDone, agentVars, toHost,
                   response, acked, outputVars>>

-----------------------------------------------------------------------------
(* The backend's goroutine, and the WebSocket.                             *)

\* tryConnect installs the bridge, and with it the handler, after it has been
\* woken by onHandshakeComplete.
SetOnOutputData ==
    /\ handshakeComplete /\ ~handler
    /\ handler' = TRUE
    /\ UNCHANGED <<orderVars, pc, cur, toDeliver, closeVars, agentVars, toHost, response, acked,
                   outputVars>>

Close ==
    /\ ~ctxDone
    /\ ctxDone' = TRUE /\ wsOpen' = FALSE
    /\ UNCHANGED <<orderVars, handler, pc, cur, toDeliver, notified, agentVars, toHost, response,
                   acked, outputVars>>

WsFail ==
    /\ wsOpen
    /\ wsOpen' = FALSE
    /\ UNCHANGED <<orderVars, handler, pc, cur, toDeliver, ctxDone, notified, agentVars, toHost,
                   response, acked, outputVars>>

-----------------------------------------------------------------------------
(* External: the agent and the network.                                    *)

AgentSend ==
    /\ agentNext < MaxSeq
    /\ agentNext >= 1 => response = "got"
    /\ toHost' = toHost \cup {agentNext}
    /\ agentUnacked' = agentUnacked \cup {agentNext}
    /\ agentNext' = agentNext + 1
    /\ UNCHANGED <<orderVars, handler, pc, cur, toDeliver, closeVars, toAgent, response, closeMsg,
                   repeats, losses, acked, outputVars>>

\* A message, or its acknowledgement, that was lost is repeated in the end;
\* repeats that only come too early are bounded.
AgentRepeat(n) ==
    LET lost == n \notin toAgent /\ n # cur
    IN  /\ n \in agentUnacked /\ Kind(n) \in Unreliable
        /\ n \notin toHost
        /\ lost \/ repeats < MaxRepeats
        /\ toHost' = toHost \cup {n}
        /\ repeats' = IF lost THEN repeats ELSE repeats + 1
        /\ UNCHANGED <<orderVars, handler, pc, cur, toDeliver, closeVars, agentNext, agentUnacked,
                       toAgent, response, closeMsg, losses, acked, outputVars>>

AgentReceiveAck(n) ==
    /\ n \in toAgent
    /\ toAgent' = toAgent \ {n}
    /\ agentUnacked' = agentUnacked \ {n}
    /\ UNCHANGED <<orderVars, handler, pc, cur, toDeliver, closeVars, agentNext, toHost, response,
                   closeMsg, repeats, losses, acked, outputVars>>

AgentReceiveResponse ==
    /\ response = "sent"
    /\ response' = "got"
    /\ UNCHANGED <<orderVars, handler, pc, cur, toDeliver, closeVars, agentVars, toHost, acked,
                   outputVars>>

AgentCloseChannel ==
    /\ closeMsg = "none"
    /\ closeMsg' = "sent"
    /\ UNCHANGED <<orderVars, handler, pc, cur, toDeliver, closeVars, agentNext, agentUnacked,
                   toAgent, toHost, response, repeats, losses, acked, outputVars>>

Lose(n) ==
    /\ losses < MaxLosses
    /\ Kind(n) \in Unreliable
    /\ \/ n \in toHost /\ toHost' = toHost \ {n} /\ UNCHANGED toAgent
       \/ n \in toAgent /\ toAgent' = toAgent \ {n} /\ UNCHANGED toHost
    /\ losses' = losses + 1
    /\ UNCHANGED <<orderVars, handler, pc, cur, toDeliver, closeVars, agentNext, agentUnacked,
                   response, closeMsg, repeats, acked, outputVars>>

-----------------------------------------------------------------------------

ProcessMessage ==
    \/ HandleHandshakeRequest
    \/ HandleHandshakeComplete
    \/ ProcessInOrder
    \/ ProcessEarly
    \/ ProcessDuplicate
    \/ ProcessInputData

Receiver ==
    \/ \E n \in Seqs : Receive(n)
    \/ SendAcknowledge
    \/ ProcessMessage
    \/ DeliverMessage
    \/ ProcessChannelClosed
    \/ StopReceiving

Agent ==
    \/ AgentSend
    \/ AgentReceiveResponse
    \/ AgentCloseChannel
    \/ \E n \in Seqs : AgentRepeat(n) \/ AgentReceiveAck(n) \/ Lose(n)

Next == Receiver \/ SetOnOutputData \/ Close \/ WsFail \/ Agent

Spec == Init /\ [][Next]_vars

\* The receive goroutine keeps running, every message in flight is read in
\* the end, and the agent sends, and repeats what is not acknowledged.
Fairness ==
    /\ WF_vars(Receiver)
    /\ \A n \in Seqs : SF_vars(Receive(n))
    /\ WF_vars(ProcessChannelClosed)
    /\ WF_vars(AgentReceiveResponse)
    /\ \A n \in Seqs : WF_vars(AgentRepeat(n))

FairSpec == Spec /\ Fairness

-----------------------------------------------------------------------------
(* Properties.                                                             *)

\* Every variable keeps the type of the Go field or local it stands for.
TypeOK ==
    /\ expectedSeqNum \in 0 .. MaxSeq
    /\ incomingBuffer \subseteq Seqs
    /\ handshakeComplete \in BOOLEAN /\ handler \in BOOLEAN
    /\ pc \in {"read", "ack", "process", "deliver", "exited"}
    /\ cur \in Seqs \cup {None}
    /\ toDeliver \in Seq(Seqs)
    /\ wsOpen \in BOOLEAN /\ ctxDone \in BOOLEAN /\ notified \in BOOLEAN
    /\ agentNext \in 0 .. MaxSeq
    /\ agentUnacked \subseteq Seqs /\ toHost \subseteq Seqs /\ toAgent \subseteq Seqs
    /\ response \in {"none", "sent", "got"} /\ closeMsg \in {"none", "sent", "seen"}
    /\ repeats \in 0 .. MaxRepeats /\ losses \in 0 .. MaxLosses
    /\ acked \subseteq Seqs /\ discarded \subseteq Seqs /\ direct \subseteq Seqs
    /\ delivered \in Seq(Seqs)

\* deliverMessage gets the agent's output in order, without a gap and without a
\* repetition, however the messages were reordered and repeated on the way.
\* (What it does without a handler is the subject of NothingDiscarded.)
DeliveredInOrder ==
    \A i \in 1 .. Len(delivered) : delivered[i] = FirstData + i - 1

\* The agent forgets what it saw acknowledged, so an acknowledged output
\* message has reached deliverMessage, or is kept by the host: in the reordering
\* buffer, in the messages collected for delivery, or in processOutputMessage.
AckedIsKept ==
    \A n \in acked :
        Kind(n) = "output" =>
            \/ \E i \in 1 .. Len(delivered) : delivered[i] = n
            \/ \E i \in 1 .. Len(toDeliver) : toDeliver[i] = n
            \/ n \in incomingBuffer
            \/ pc = "process" /\ n = cur

\* The next expected message never waits in the buffer: nothing would ever
\* take it out again, since only the arrival of that same message drains it.
HeadIsNotBuffered == expectedSeqNum \notin incomingBuffer

\* If the WebSocket breaks and nobody has closed the channel, onDisconnect is
\* called, which is how the backend learns that it has to reconnect.
BreakIsNotified == (~wsOpen /\ ~ctxDone) ~> (notified \/ ctxDone)

\* The end of the output that the agent has sent.  Nothing that comes after
\* input_stream_data would be delivered, since that does not advance
\* expectedSeqNum: it can only come last.
InputComesLast == InputSeqs \subseteq {MaxSeq - 1}

OutputEnd == IF agentNext - 1 \in InputSeqs THEN agentNext - 1 ELSE agentNext

\* The data channel implements an ordered stream: an output message is an
\* item, and deliverMessage consumes it.
Stream == INSTANCE OrderedStream WITH
    produced <- IF OutputEnd > FirstData THEN OutputEnd - FirstData ELSE 0,
    consumed <- [i \in 1 .. Len(delivered) |-> delivered[i] - FirstData + 1],
    closed   <- ~wsOpen

ImplementsStream == Stream!Spec
StreamSafety     == Stream!Safety

\* "deliverMessage delivers a message to the output handler": no message that
\* reached deliverMessage is thrown away for want of a handler.
NothingDiscarded == discarded = {}

=============================================================================
