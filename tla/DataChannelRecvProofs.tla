------------------------ MODULE DataChannelRecvProofs ------------------------
(***************************************************************************)
(* Proofs about the receiving half of the data channel, for any number of  *)
(* messages, repeats and losses, under the one assumption that the         *)
(* handshake complete is neither repeated nor overtaken.                   *)
(***************************************************************************)
EXTENDS DataChannelRecv, Integers, TLAPS

\* The receive goroutine holds a message exactly while it processes one, and
\* collected messages exactly while it delivers them.
LoopInv ==
    /\ (pc = "deliver") <=> (toDeliver # <<>>)
    /\ (pc \in {"ack", "process"}) <=> (cur # None)

\* The host knows only messages that the agent has sent.
SentInv ==
    /\ \A n \in toHost \cup agentUnacked \cup incomingBuffer : n < agentNext
    /\ cur # None => cur < agentNext
    /\ expectedSeqNum <= agentNext

\* Until the handshake complete is processed no data message is read: the
\* complete is not sent yet, or in flight, or being processed, or the socket
\* broke.  It comes once.
HandshakeInv ==
    /\ ~handshakeComplete =>
         /\ expectedSeqNum = 0 /\ incomingBuffer = {}
         /\ toDeliver = <<>> /\ delivered = <<>>
         /\ cur # None => cur \in {0, 1}
         /\ agentNext <= 1 \/ 1 \in toHost \/ cur = 1 \/ ~wsOpen
    /\ cur = 1 => 1 \notin toHost /\ ~handshakeComplete
    /\ handshakeComplete => 1 \notin toHost /\ agentNext >= 2

\* What was delivered and what is collected for delivery are the output
\* messages below expectedSeqNum, in order; the buffer is beyond it.
OrderInv ==
    /\ handshakeComplete => Len(delivered) + Len(toDeliver) + FirstData = expectedSeqNum
    /\ \A i \in 1 .. Len(delivered) : delivered[i] = FirstData + i - 1
    /\ \A i \in 1 .. Len(toDeliver) : toDeliver[i] = FirstData + Len(delivered) + i - 1
    /\ \A n \in incomingBuffer : n > expectedSeqNum

\* An acknowledged output message is behind expectedSeqNum, or buffered, or
\* being processed.
KeptInv ==
    \A n \in acked :
        Kind(n) = "output" =>
            \/ n < expectedSeqNum
            \/ n \in incomingBuffer
            \/ pc = "process" /\ n = cur

\* The inductive invariant: none of DeliveredInOrder, HeadIsNotBuffered and
\* AckedIsKept is preserved by a step on its own.
IndInv == TypeOK /\ LoopInv /\ SentInv /\ HandshakeInv /\ OrderInv /\ KeptInv

CompleteIsReliable == "complete" \notin Unreliable

-----------------------------------------------------------------------------

\* Which message is which: Kind decides by the number alone.
LEMMA KindFacts ==
    /\ Kind(1) = "complete"
    /\ \A n \in Nat : Kind(n) = "complete" => n = 1
    /\ \A n \in Nat : Kind(n) \in {"output", "input"} => n >= 2
    /\ \A n \in Nat : Kind(n) = "request" => n = 0
BY DEF Kind

\* The initial state satisfies the inductive invariant.
LEMMA InitInv == Init => IndInv
<1> SUFFICES ASSUME Init PROVE IndInv
  OBVIOUS
<1> USE RecvAssumption DEF RecvAssumption
<1>1. TypeOK
  <2>1. /\ handshakeComplete \in BOOLEAN /\ handler \in BOOLEAN
        /\ wsOpen \in BOOLEAN /\ ctxDone \in BOOLEAN /\ notified \in BOOLEAN
    BY Zenon DEF Init
  <2>2. toDeliver \in Seq(Seqs) /\ delivered \in Seq(Seqs)
    BY DEF Init
  <2>. QED
    BY <2>1, <2>2 DEF Init, TypeOK, Seqs
<1>2. LoopInv /\ SentInv /\ HandshakeInv /\ KeptInv
  <2>1. LoopInv BY DEF Init, LoopInv
  <2>2. SentInv BY DEF Init, SentInv
  <2>3. HandshakeInv BY DEF Init, HandshakeInv
  <2>4. KeptInv BY DEF Init, KeptInv
  <2>. QED BY <2>1, <2>2, <2>3, <2>4
<1>3. OrderInv
  BY DEF Init, OrderInv
<1>. QED
  BY <1>1, <1>2, <1>3 DEF IndInv

\* Every step of the receive goroutine, the backend, the network and the
\* agent preserves the inductive invariant.
LEMMA NextInv ==
    ASSUME CompleteIsReliable, IndInv, [Next]_vars
    PROVE  IndInv'
<1> USE RecvAssumption DEF RecvAssumption
<1>1. CASE \E n \in Seqs : Receive(n)
  <2>. PICK n \in Seqs : Receive(n)
    BY <1>1
  <2>1. ~handshakeComplete => n \in {0, 1}
    BY KindFacts DEF Receive, IndInv, TypeOK, LoopInv, SentInv, HandshakeInv,
       CompleteIsReliable, Seqs
  <2>. QED
    BY <2>1 DEF Receive, IndInv, TypeOK, LoopInv, SentInv, HandshakeInv, OrderInv, KeptInv,
       orderVars, closeVars, agentVars, outputVars, Seqs, FirstData
<1>2. CASE SendAcknowledge
  <2>1. CASE wsOpen
    <3>1. TypeOK'
      <4>1. /\ cur \in Seqs /\ acked' = acked \cup {cur} /\ toAgent' = toAgent \cup {cur}
            /\ pc' = "process"
        BY <1>2, <2>1 DEF SendAcknowledge, IndInv, TypeOK, LoopInv
      <4>2. UNCHANGED <<orderVars, handler, cur, toDeliver, closeVars, agentNext, agentUnacked,
                        toHost, response, closeMsg, repeats, losses, outputVars>>
        BY <1>2, <2>1 DEF SendAcknowledge
      <4>. QED
        BY <4>1, <4>2 DEF IndInv, TypeOK, orderVars, closeVars, outputVars
    <3>2. LoopInv'
      BY <1>2, <2>1 DEF SendAcknowledge, IndInv, TypeOK, LoopInv,
         orderVars, closeVars, agentVars, outputVars
    <3>3. SentInv'
      BY <1>2, <2>1 DEF SendAcknowledge, IndInv, TypeOK, SentInv,
         orderVars, closeVars, agentVars, outputVars, Seqs, FirstData
    <3>4. HandshakeInv'
      BY <1>2, <2>1 DEF SendAcknowledge, IndInv, TypeOK, HandshakeInv,
         orderVars, closeVars, agentVars, outputVars, Seqs, FirstData
    <3>5. OrderInv'
      BY <1>2, <2>1 DEF SendAcknowledge, IndInv, TypeOK, OrderInv,
         orderVars, closeVars, agentVars, outputVars, Seqs, FirstData
    <3>6. KeptInv'
      BY <1>2, <2>1 DEF SendAcknowledge, IndInv, TypeOK, KeptInv,
         orderVars, closeVars, agentVars, outputVars, Seqs, FirstData
    <3>. QED
      BY <3>1, <3>2, <3>3, <3>4, <3>5, <3>6 DEF IndInv
  <2>2. CASE ~wsOpen
    <3>1. TypeOK' BY <1>2, <2>2 DEF SendAcknowledge, IndInv, TypeOK, orderVars, closeVars, agentVars, outputVars
    <3>2. LoopInv' BY <1>2, <2>2 DEF SendAcknowledge, IndInv, TypeOK, LoopInv, orderVars, closeVars, agentVars, outputVars
    <3>3. SentInv' BY <1>2, <2>2 DEF SendAcknowledge, IndInv, TypeOK, SentInv, orderVars, closeVars, agentVars, outputVars
    <3>4. HandshakeInv' BY <1>2, <2>2 DEF SendAcknowledge, IndInv, TypeOK, HandshakeInv, orderVars, closeVars, agentVars, outputVars
    <3>5. OrderInv' BY <1>2, <2>2 DEF SendAcknowledge, IndInv, TypeOK, OrderInv, orderVars, closeVars, agentVars, outputVars
    <3>6. KeptInv' BY <1>2, <2>2 DEF SendAcknowledge, IndInv, TypeOK, KeptInv, orderVars, closeVars, agentVars, outputVars
    <3>. QED BY <3>1, <3>2, <3>3, <3>4, <3>5, <3>6 DEF IndInv
  <2>. QED BY <2>1, <2>2
<1>3. CASE HandleHandshakeRequest
  <2>1. TypeOK'
    BY <1>3, KindFacts DEF HandleHandshakeRequest, IndInv, TypeOK,
       orderVars, closeVars, agentVars, outputVars, Seqs, FirstData
  <2>2. LoopInv'
    BY <1>3, KindFacts DEF HandleHandshakeRequest, IndInv, TypeOK, LoopInv,
       orderVars, closeVars, agentVars, outputVars
  <2>3. SentInv'
    BY <1>3, KindFacts DEF HandleHandshakeRequest, IndInv, TypeOK, SentInv,
       orderVars, closeVars, agentVars, outputVars, Seqs, FirstData
  <2>4. HandshakeInv'
    BY <1>3, KindFacts DEF HandleHandshakeRequest, IndInv, TypeOK, HandshakeInv,
       orderVars, closeVars, agentVars, outputVars, Seqs, FirstData
  <2>5. OrderInv'
    BY <1>3, KindFacts DEF HandleHandshakeRequest, IndInv, TypeOK, OrderInv,
       orderVars, closeVars, agentVars, outputVars, Seqs, FirstData
  <2>6. KeptInv'
    BY <1>3, KindFacts DEF HandleHandshakeRequest, IndInv, TypeOK, KeptInv,
       orderVars, closeVars, agentVars, outputVars, Seqs, FirstData
  <2>. QED
    BY <2>1, <2>2, <2>3, <2>4, <2>5, <2>6 DEF IndInv
<1>4. CASE HandleHandshakeComplete
  <2>1. /\ pc = "process" /\ cur \in Seqs /\ cur \in Nat /\ Kind(cur) = "complete"
        /\ handshakeComplete' = TRUE /\ expectedSeqNum' = cur + 1
        /\ pc' = "read" /\ cur' = None
    BY <1>4 DEF HandleHandshakeComplete, IndInv, TypeOK, LoopInv, Seqs
  <2>2. UNCHANGED <<incomingBuffer, handler, toDeliver, closeVars, agentVars, toHost, response,
                    acked, outputVars>>
    BY <1>4 DEF HandleHandshakeComplete
  <2>3. cur = 1
    BY <2>1, KindFacts
  <2>4. /\ ~handshakeComplete /\ 1 \notin toHost /\ incomingBuffer = {}
        /\ toDeliver = <<>> /\ delivered = <<>>
    BY <2>3 DEF IndInv, HandshakeInv
  <2>5. expectedSeqNum' = 2 /\ 1 \in Seqs /\ 2 \in 0 .. MaxSeq
    BY <2>1, <2>3 DEF Seqs
  <2>6. agentNext \in Nat /\ agentNext >= 2
    BY <2>1, <2>3 DEF IndInv, TypeOK, LoopInv, SentInv
  <2>7. TypeOK'
    BY <2>1, <2>2, <2>5 DEF IndInv, TypeOK, closeVars, agentVars, outputVars
  <2>8. LoopInv'
    BY <2>1, <2>2, <2>4 DEF LoopInv
  <2>9. SentInv'
    BY <2>1, <2>2, <2>4, <2>5, <2>6 DEF IndInv, SentInv, agentVars
  <2>10. HandshakeInv'
    BY ONLY RecvAssumption, <2>1, <2>2, <2>4, <2>6 DEF RecvAssumption, HandshakeInv, agentVars
  <2>11. OrderInv'
    BY <2>2, <2>4, <2>5 DEF OrderInv, outputVars, FirstData
  <2>12. KeptInv'
    <3> SUFFICES ASSUME NEW n \in acked', Kind(n) = "output"
                 PROVE  n < expectedSeqNum' \/ n \in incomingBuffer' \/ (pc' = "process" /\ n = cur')
      BY DEF KeptInv
    <3>1. n \in acked
      BY <2>2
    <3>2. n < expectedSeqNum \/ n \in incomingBuffer \/ (pc = "process" /\ n = cur)
      BY <3>1 DEF IndInv, KeptInv
    <3>3. n # cur
      BY <2>1
    <3>4. expectedSeqNum = 0 /\ n \in Nat
      BY <2>4, <3>1 DEF IndInv, HandshakeInv, TypeOK, Seqs
    <3>. QED
      BY <2>4, <3>2, <3>3, <3>4
  <2>. QED
    BY <2>7, <2>8, <2>9, <2>10, <2>11, <2>12 DEF IndInv
<1>5. CASE ProcessInOrder
  <2>. PICK next \in cur + 1 .. MaxSeq :
         /\ \A k \in cur + 1 .. next - 1 : k \in incomingBuffer
         /\ next \notin incomingBuffer
         /\ toDeliver' = [i \in 1 .. next - cur |-> cur + i - 1]
         /\ incomingBuffer' = incomingBuffer \ (cur + 1 .. next - 1)
         /\ expectedSeqNum' = next
    BY <1>5 DEF ProcessInOrder
  <2>1. /\ cur \in Nat /\ cur >= 2 /\ cur < MaxSeq /\ cur = expectedSeqNum
        /\ next \in Nat /\ next > cur /\ next <= MaxSeq
        /\ handshakeComplete /\ toDeliver = <<>> /\ pc = "process"
        /\ Len(delivered) + 2 = cur
    BY <1>5, KindFacts DEF ProcessInOrder, IndInv, TypeOK, LoopInv, HandshakeInv, OrderInv, Seqs,
       FirstData
  <2>2. /\ toDeliver' \in Seq(Seqs) /\ Len(toDeliver') = next - cur
        /\ \A i \in 1 .. next - cur : toDeliver'[i] = cur + i - 1
    BY <2>1 DEF Seqs
  <2>3. toDeliver' # <<>>
    BY <2>1, <2>2
  <2>4. next <= agentNext
    <3>1. CASE next = cur + 1
      BY <1>5, <2>1, <3>1 DEF ProcessInOrder, IndInv, TypeOK, SentInv, LoopInv
    <3>2. CASE next - 1 \in cur + 1 .. next - 1
      BY <2>1, <3>2 DEF IndInv, TypeOK, SentInv
    <3>. QED
      BY <2>1, <3>1, <3>2
  <2>5. \A n \in incomingBuffer' : n > next
    BY <2>1 DEF IndInv, TypeOK, OrderInv, Seqs
  <2>6. TypeOK'
    BY <1>5, <2>1, <2>2 DEF ProcessInOrder, IndInv, TypeOK, closeVars, agentVars, outputVars, Seqs
  <2>7. LoopInv' /\ SentInv'
    BY <1>5, <2>1, <2>3, <2>4 DEF ProcessInOrder, IndInv, TypeOK, LoopInv, SentInv, agentVars
  <2>8. HandshakeInv'
    BY <1>5, <2>1 DEF ProcessInOrder, IndInv, TypeOK, HandshakeInv, agentVars
  <2>9. OrderInv'
    <3>1. delivered' = delivered /\ handshakeComplete' = handshakeComplete /\ Len(delivered) \in Nat
      BY <1>5 DEF ProcessInOrder, IndInv, TypeOK, outputVars
    <3>2. \A i \in 1 .. Len(toDeliver') : toDeliver'[i] = 2 + Len(delivered') + i - 1
      BY SMTT(60), <2>1, <2>2, <3>1
    <3>3. Len(delivered') + Len(toDeliver') + 2 = expectedSeqNum'
      BY <2>1, <2>2, <3>1
    <3>. QED
      BY <2>5, <3>1, <3>2, <3>3 DEF IndInv, OrderInv, FirstData
  <2>10. KeptInv'
    <3> SUFFICES ASSUME NEW n \in acked, Kind(n) = "output"
                 PROVE  n < next \/ n \in incomingBuffer'
      BY <1>5 DEF ProcessInOrder, KeptInv
    <3>1. n \in Nat /\ (n <= cur \/ n \in incomingBuffer)
      BY <2>1 DEF IndInv, TypeOK, KeptInv, Seqs
    <3>. QED
      BY <2>1, <3>1
  <2>. QED
    BY <2>6, <2>7, <2>8, <2>9, <2>10 DEF IndInv
<1>6. CASE ProcessEarly
  BY <1>6, KindFacts DEF ProcessEarly, IndInv, TypeOK, LoopInv, SentInv, HandshakeInv,
     OrderInv, KeptInv, orderVars, closeVars, agentVars, outputVars, Seqs, FirstData
<1>7. CASE ProcessDuplicate
  BY SMTT(60), <1>7, KindFacts DEF ProcessDuplicate, IndInv, TypeOK, LoopInv, SentInv, HandshakeInv,
     OrderInv, KeptInv, orderVars, closeVars, agentVars, outputVars, Seqs, FirstData
<1>8. CASE ProcessInputData
  BY <1>8, KindFacts DEF ProcessInputData, IndInv, TypeOK, LoopInv, SentInv, HandshakeInv,
     OrderInv, KeptInv, orderVars, closeVars, agentVars, outputVars, Seqs, FirstData
<1>9. CASE DeliverMessage
  <2>1. /\ toDeliver # <<>> /\ toDeliver \in Seq(Seqs) /\ delivered \in Seq(Seqs)
        /\ handshakeComplete /\ cur = None
    BY <1>9 DEF DeliverMessage, IndInv, TypeOK, LoopInv, HandshakeInv
  <2>2. /\ Head(toDeliver) = toDeliver[1] /\ Head(toDeliver) \in Seqs
        /\ Tail(toDeliver) \in Seq(Seqs) /\ Len(Tail(toDeliver)) = Len(toDeliver) - 1
        /\ \A i \in 1 .. Len(toDeliver) - 1 : Tail(toDeliver)[i] = toDeliver[i + 1]
        /\ Len(toDeliver) \in Nat /\ Len(toDeliver) >= 1
    BY <2>1
  <2>3. /\ delivered' \in Seq(Seqs) /\ Len(delivered') = Len(delivered) + 1
        /\ Len(delivered) \in Nat
        /\ \A i \in 1 .. Len(delivered) : delivered'[i] = delivered[i]
        /\ delivered'[Len(delivered) + 1] = Head(toDeliver)
    BY <1>9, <2>1, <2>2 DEF DeliverMessage
  <2>4. TypeOK'
    BY <1>9, <2>2, <2>3 DEF DeliverMessage, IndInv, TypeOK, orderVars, closeVars, agentVars
  <2>5. LoopInv' /\ SentInv'
    BY <1>9, <2>1 DEF DeliverMessage, IndInv, TypeOK, LoopInv, SentInv, orderVars, agentVars
  <2>6. HandshakeInv'
    BY <1>9, <2>1 DEF DeliverMessage, IndInv, TypeOK, HandshakeInv, orderVars, agentVars
  <2>7. OrderInv'
    BY SMTT(60), <1>9, <2>1, <2>2, <2>3 DEF DeliverMessage, IndInv, TypeOK, OrderInv, orderVars, FirstData
  <2>8. KeptInv'
    BY <1>9, <2>1 DEF DeliverMessage, IndInv, KeptInv, orderVars
  <2>. QED
    BY <2>4, <2>5, <2>6, <2>7, <2>8 DEF IndInv
<1>10. CASE ProcessChannelClosed
  <2>1. TypeOK'
    BY <1>10 DEF ProcessChannelClosed, IndInv, TypeOK,
       orderVars, closeVars, agentVars, outputVars, Seqs, FirstData
  <2>2. LoopInv'
    BY <1>10 DEF ProcessChannelClosed, IndInv, TypeOK, LoopInv,
       orderVars, closeVars, agentVars, outputVars
  <2>3. SentInv'
    BY <1>10 DEF ProcessChannelClosed, IndInv, TypeOK, SentInv,
       orderVars, closeVars, agentVars, outputVars, Seqs, FirstData
  <2>4. HandshakeInv'
    BY <1>10 DEF ProcessChannelClosed, IndInv, TypeOK, HandshakeInv,
       orderVars, closeVars, agentVars, outputVars, Seqs, FirstData
  <2>5. OrderInv'
    BY <1>10 DEF ProcessChannelClosed, IndInv, TypeOK, OrderInv,
       orderVars, closeVars, agentVars, outputVars, Seqs, FirstData
  <2>6. KeptInv'
    BY <1>10 DEF ProcessChannelClosed, IndInv, TypeOK, KeptInv,
       orderVars, closeVars, agentVars, outputVars, Seqs, FirstData
  <2>. QED
    BY <2>1, <2>2, <2>3, <2>4, <2>5, <2>6 DEF IndInv
<1>11. CASE StopReceiving
  <2>1. TypeOK'
    BY <1>11 DEF StopReceiving, IndInv, TypeOK,
       orderVars, closeVars, agentVars, outputVars, Seqs, FirstData
  <2>2. LoopInv'
    BY <1>11 DEF StopReceiving, IndInv, TypeOK, LoopInv,
       orderVars, closeVars, agentVars, outputVars
  <2>3. SentInv'
    BY <1>11 DEF StopReceiving, IndInv, TypeOK, SentInv,
       orderVars, closeVars, agentVars, outputVars, Seqs, FirstData
  <2>4. HandshakeInv'
    BY <1>11 DEF StopReceiving, IndInv, TypeOK, HandshakeInv,
       orderVars, closeVars, agentVars, outputVars, Seqs, FirstData
  <2>5. OrderInv'
    BY <1>11 DEF StopReceiving, IndInv, TypeOK, OrderInv,
       orderVars, closeVars, agentVars, outputVars, Seqs, FirstData
  <2>6. KeptInv'
    BY <1>11 DEF StopReceiving, IndInv, TypeOK, KeptInv,
       orderVars, closeVars, agentVars, outputVars, Seqs, FirstData
  <2>. QED
    BY <2>1, <2>2, <2>3, <2>4, <2>5, <2>6 DEF IndInv
<1>12. CASE SetOnOutputData
  <2>1. TypeOK'
    BY <1>12 DEF SetOnOutputData, IndInv, TypeOK,
       orderVars, closeVars, agentVars, outputVars, Seqs, FirstData
  <2>2. LoopInv'
    BY <1>12 DEF SetOnOutputData, IndInv, TypeOK, LoopInv,
       orderVars, closeVars, agentVars, outputVars
  <2>3. SentInv'
    BY <1>12 DEF SetOnOutputData, IndInv, TypeOK, SentInv,
       orderVars, closeVars, agentVars, outputVars, Seqs, FirstData
  <2>4. HandshakeInv'
    BY <1>12 DEF SetOnOutputData, IndInv, TypeOK, HandshakeInv,
       orderVars, closeVars, agentVars, outputVars, Seqs, FirstData
  <2>5. OrderInv'
    BY <1>12 DEF SetOnOutputData, IndInv, TypeOK, OrderInv,
       orderVars, closeVars, agentVars, outputVars, Seqs, FirstData
  <2>6. KeptInv'
    BY <1>12 DEF SetOnOutputData, IndInv, TypeOK, KeptInv,
       orderVars, closeVars, agentVars, outputVars, Seqs, FirstData
  <2>. QED
    BY <2>1, <2>2, <2>3, <2>4, <2>5, <2>6 DEF IndInv
<1>12a. CASE Close
  <2>1. TypeOK'
    BY <1>12a DEF Close, IndInv, TypeOK,
       orderVars, closeVars, agentVars, outputVars, Seqs, FirstData
  <2>2. LoopInv'
    BY <1>12a DEF Close, IndInv, TypeOK, LoopInv,
       orderVars, closeVars, agentVars, outputVars
  <2>3. SentInv'
    BY <1>12a DEF Close, IndInv, TypeOK, SentInv,
       orderVars, closeVars, agentVars, outputVars, Seqs, FirstData
  <2>4. HandshakeInv'
    BY <1>12a DEF Close, IndInv, TypeOK, HandshakeInv,
       orderVars, closeVars, agentVars, outputVars, Seqs, FirstData
  <2>5. OrderInv'
    BY <1>12a DEF Close, IndInv, TypeOK, OrderInv,
       orderVars, closeVars, agentVars, outputVars, Seqs, FirstData
  <2>6. KeptInv'
    BY <1>12a DEF Close, IndInv, TypeOK, KeptInv,
       orderVars, closeVars, agentVars, outputVars, Seqs, FirstData
  <2>. QED
    BY <2>1, <2>2, <2>3, <2>4, <2>5, <2>6 DEF IndInv
<1>12b. CASE WsFail
  <2>1. TypeOK'
    <3>1. wsOpen' \in BOOLEAN
      BY <1>12b DEF WsFail
    <3>2. UNCHANGED <<orderVars, handler, pc, cur, toDeliver, ctxDone, notified, agentVars, toHost,
                      response, acked, outputVars>>
      BY <1>12b DEF WsFail
    <3>. QED
      BY <3>1, <3>2 DEF IndInv, TypeOK, orderVars, agentVars, outputVars
  <2>2. LoopInv'
    BY <1>12b DEF WsFail, IndInv, TypeOK, LoopInv,
       orderVars, closeVars, agentVars, outputVars
  <2>3. SentInv'
    BY <1>12b DEF WsFail, IndInv, TypeOK, SentInv,
       orderVars, closeVars, agentVars, outputVars, Seqs, FirstData
  <2>4. HandshakeInv'
    BY <1>12b DEF WsFail, IndInv, TypeOK, HandshakeInv,
       orderVars, closeVars, agentVars, outputVars, Seqs, FirstData
  <2>5. OrderInv'
    BY <1>12b DEF WsFail, IndInv, TypeOK, OrderInv,
       orderVars, closeVars, agentVars, outputVars, Seqs, FirstData
  <2>6. KeptInv'
    BY <1>12b DEF WsFail, IndInv, TypeOK, KeptInv,
       orderVars, closeVars, agentVars, outputVars, Seqs, FirstData
  <2>. QED
    BY <2>1, <2>2, <2>3, <2>4, <2>5, <2>6 DEF IndInv
<1>13. CASE AgentSend
  <2>1. TypeOK'
    BY <1>13 DEF AgentSend, IndInv, TypeOK,
       orderVars, closeVars, agentVars, outputVars, Seqs, FirstData
  <2>2. LoopInv'
    BY <1>13 DEF AgentSend, IndInv, TypeOK, LoopInv,
       orderVars, closeVars, agentVars, outputVars
  <2>3. SentInv'
    BY <1>13 DEF AgentSend, IndInv, TypeOK, SentInv,
       orderVars, closeVars, agentVars, outputVars, Seqs, FirstData
  <2>4. HandshakeInv'
    <3>1. /\ agentNext \in Nat /\ agentNext' = agentNext + 1
          /\ toHost' = toHost \cup {agentNext}
      BY <1>13 DEF AgentSend, IndInv, TypeOK
    <3>2. UNCHANGED <<orderVars, cur, toDeliver, closeVars, outputVars>>
      BY <1>13 DEF AgentSend
    <3>3. cur = 1 => agentNext # 1
      BY <3>1 DEF IndInv, SentInv
    <3>. QED
      BY <3>1, <3>2, <3>3 DEF IndInv, HandshakeInv, orderVars, closeVars, outputVars
  <2>5. OrderInv'
    BY <1>13 DEF AgentSend, IndInv, TypeOK, OrderInv,
       orderVars, closeVars, agentVars, outputVars, Seqs, FirstData
  <2>6. KeptInv'
    BY <1>13 DEF AgentSend, IndInv, TypeOK, KeptInv,
       orderVars, closeVars, agentVars, outputVars, Seqs, FirstData
  <2>. QED
    BY <2>1, <2>2, <2>3, <2>4, <2>5, <2>6 DEF IndInv
<1>14. CASE AgentReceiveResponse
  <2>1. TypeOK'
    BY <1>14 DEF AgentReceiveResponse, IndInv, TypeOK,
       orderVars, closeVars, agentVars, outputVars, Seqs, FirstData
  <2>2. LoopInv'
    BY <1>14 DEF AgentReceiveResponse, IndInv, TypeOK, LoopInv,
       orderVars, closeVars, agentVars, outputVars
  <2>3. SentInv'
    BY <1>14 DEF AgentReceiveResponse, IndInv, TypeOK, SentInv,
       orderVars, closeVars, agentVars, outputVars, Seqs, FirstData
  <2>4. HandshakeInv'
    BY <1>14 DEF AgentReceiveResponse, IndInv, TypeOK, HandshakeInv,
       orderVars, closeVars, agentVars, outputVars, Seqs, FirstData
  <2>5. OrderInv'
    BY <1>14 DEF AgentReceiveResponse, IndInv, TypeOK, OrderInv,
       orderVars, closeVars, agentVars, outputVars, Seqs, FirstData
  <2>6. KeptInv'
    BY <1>14 DEF AgentReceiveResponse, IndInv, TypeOK, KeptInv,
       orderVars, closeVars, agentVars, outputVars, Seqs, FirstData
  <2>. QED
    BY <2>1, <2>2, <2>3, <2>4, <2>5, <2>6 DEF IndInv
<1>14a. CASE AgentCloseChannel
  <2>1. TypeOK'
    BY <1>14a DEF AgentCloseChannel, IndInv, TypeOK,
       orderVars, closeVars, agentVars, outputVars, Seqs, FirstData
  <2>2. LoopInv'
    BY <1>14a DEF AgentCloseChannel, IndInv, TypeOK, LoopInv,
       orderVars, closeVars, agentVars, outputVars
  <2>3. SentInv'
    BY <1>14a DEF AgentCloseChannel, IndInv, TypeOK, SentInv,
       orderVars, closeVars, agentVars, outputVars, Seqs, FirstData
  <2>4. HandshakeInv'
    BY <1>14a DEF AgentCloseChannel, IndInv, TypeOK, HandshakeInv,
       orderVars, closeVars, agentVars, outputVars, Seqs, FirstData
  <2>5. OrderInv'
    BY <1>14a DEF AgentCloseChannel, IndInv, TypeOK, OrderInv,
       orderVars, closeVars, agentVars, outputVars, Seqs, FirstData
  <2>6. KeptInv'
    BY <1>14a DEF AgentCloseChannel, IndInv, TypeOK, KeptInv,
       orderVars, closeVars, agentVars, outputVars, Seqs, FirstData
  <2>. QED
    BY <2>1, <2>2, <2>3, <2>4, <2>5, <2>6 DEF IndInv
<1>15. CASE \E n \in Seqs : AgentRepeat(n)
  <2>1. TypeOK'
    BY <1>15, KindFacts DEF AgentRepeat, IndInv, TypeOK,
       orderVars, closeVars, agentVars, outputVars, Seqs, FirstData, CompleteIsReliable
  <2>2. LoopInv'
    BY <1>15, KindFacts DEF AgentRepeat, IndInv, TypeOK, LoopInv,
       orderVars, closeVars, agentVars, outputVars, CompleteIsReliable
  <2>3. SentInv'
    BY <1>15, KindFacts DEF AgentRepeat, IndInv, TypeOK, SentInv,
       orderVars, closeVars, agentVars, outputVars, Seqs, FirstData, CompleteIsReliable
  <2>4. HandshakeInv'
    BY <1>15, KindFacts DEF AgentRepeat, IndInv, TypeOK, HandshakeInv,
       orderVars, closeVars, agentVars, outputVars, Seqs, FirstData, CompleteIsReliable
  <2>5. OrderInv'
    BY <1>15, KindFacts DEF AgentRepeat, IndInv, TypeOK, OrderInv,
       orderVars, closeVars, agentVars, outputVars, Seqs, FirstData, CompleteIsReliable
  <2>6. KeptInv'
    BY <1>15, KindFacts DEF AgentRepeat, IndInv, TypeOK, KeptInv,
       orderVars, closeVars, agentVars, outputVars, Seqs, FirstData, CompleteIsReliable
  <2>. QED
    BY <2>1, <2>2, <2>3, <2>4, <2>5, <2>6 DEF IndInv
<1>16. CASE \E n \in Seqs : AgentReceiveAck(n)
  <2>1. TypeOK'
    BY <1>16 DEF AgentReceiveAck, IndInv, TypeOK,
       orderVars, closeVars, agentVars, outputVars, Seqs, FirstData
  <2>2. LoopInv'
    BY <1>16 DEF AgentReceiveAck, IndInv, TypeOK, LoopInv,
       orderVars, closeVars, agentVars, outputVars
  <2>3. SentInv'
    BY <1>16 DEF AgentReceiveAck, IndInv, TypeOK, SentInv,
       orderVars, closeVars, agentVars, outputVars, Seqs, FirstData
  <2>4. HandshakeInv'
    BY <1>16 DEF AgentReceiveAck, IndInv, TypeOK, HandshakeInv,
       orderVars, closeVars, agentVars, outputVars, Seqs, FirstData
  <2>5. OrderInv'
    BY <1>16 DEF AgentReceiveAck, IndInv, TypeOK, OrderInv,
       orderVars, closeVars, agentVars, outputVars, Seqs, FirstData
  <2>6. KeptInv'
    BY <1>16 DEF AgentReceiveAck, IndInv, TypeOK, KeptInv,
       orderVars, closeVars, agentVars, outputVars, Seqs, FirstData
  <2>. QED
    BY <2>1, <2>2, <2>3, <2>4, <2>5, <2>6 DEF IndInv
<1>17. CASE \E n \in Seqs : Lose(n)
  <2>. PICK n \in Seqs : Lose(n)
    BY <1>17
  <2>1. n # 1
    BY KindFacts DEF Lose, CompleteIsReliable
  <2>2. /\ toHost' \subseteq toHost /\ toAgent' \subseteq toAgent
        /\ 1 \in toHost => 1 \in toHost'
        /\ losses' \in 0 .. MaxLosses
    BY <2>1 DEF Lose, IndInv, TypeOK
  <2>. QED
  BY <2>2 DEF Lose, IndInv, TypeOK, LoopInv, SentInv, HandshakeInv,
     OrderInv, KeptInv, orderVars, closeVars, agentVars, outputVars, Seqs, FirstData,
     CompleteIsReliable
<1>18. CASE UNCHANGED vars
  BY <1>18 DEF vars, IndInv, TypeOK, LoopInv, SentInv, HandshakeInv, OrderInv, KeptInv,
     Seqs, FirstData
<1>. QED
  BY <1>1, <1>2, <1>3, <1>4, <1>5, <1>6, <1>7, <1>8, <1>9, <1>10, <1>11, <1>12, <1>12a, <1>12b,
     <1>13, <1>14, <1>14a, <1>15, <1>16, <1>17, <1>18
     DEF Next, Receiver, ProcessMessage, Agent

-----------------------------------------------------------------------------
(* The theorems.                                                           *)

\* The inductive invariant holds in every reachable state.
LEMMA Invariance == CompleteIsReliable => (Spec => []IndInv)
<1> SUFFICES ASSUME CompleteIsReliable PROVE Spec => []IndInv
  OBVIOUS
<1>1. IndInv /\ [Next]_vars => IndInv'
  BY NextInv
<1>. QED
  BY InitInv, <1>1, PTL DEF Spec

\* Every variable keeps its type in every reachable state.
THEOREM TypeCorrect == CompleteIsReliable => (Spec => []TypeOK)
BY Invariance, PTL DEF IndInv

\* Output reaches deliverMessage in the agent's order, without gap or repetition,
\* for any number of messages, losses and repeats.
THEOREM InOrder == CompleteIsReliable => (Spec => []DeliveredInOrder)
<1>1. IndInv => DeliveredInOrder
  BY DEF IndInv, OrderInv, DeliveredInOrder
<1>. QED
  BY Invariance, <1>1, PTL

\* The message that is expected next is never stuck in the buffer.
THEOREM NoStuckHead == CompleteIsReliable => (Spec => []HeadIsNotBuffered)
<1>1. IndInv => HeadIsNotBuffered
  BY DEF IndInv, TypeOK, OrderInv, HeadIsNotBuffered
<1>. QED
  BY Invariance, <1>1, PTL

\* What the agent has seen acknowledged, and will not send again, the host
\* still has or has given to deliverMessage.
THEOREM NoAckedLoss == CompleteIsReliable => (Spec => []AckedIsKept)
<1>1. IndInv => AckedIsKept
  <2> SUFFICES ASSUME IndInv, NEW n \in acked, Kind(n) = "output",
                      n \notin incomingBuffer, ~(pc = "process" /\ n = cur)
               PROVE  \/ \E i \in 1 .. Len(delivered) : delivered[i] = n
                      \/ \E i \in 1 .. Len(toDeliver) : toDeliver[i] = n
    BY DEF AckedIsKept
  <2>1. n \in Nat /\ n >= 2 /\ n < expectedSeqNum /\ expectedSeqNum \in Nat
    BY KindFacts, RecvAssumption DEF RecvAssumption, IndInv, TypeOK, KeptInv, Seqs
  <2>2. /\ Len(delivered) \in Nat /\ Len(toDeliver) \in Nat
        /\ Len(delivered) + Len(toDeliver) + 2 = expectedSeqNum
    BY <2>1 DEF IndInv, TypeOK, HandshakeInv, OrderInv, FirstData
  <2>3. CASE n - 1 <= Len(delivered)
    <3>1. n - 1 \in 1 .. Len(delivered) /\ delivered[n - 1] = n
      BY <2>1, <2>2, <2>3 DEF IndInv, OrderInv, FirstData
    <3>. QED
      BY <3>1
  <2>4. CASE n - 1 > Len(delivered)
    <3> DEFINE j == n - 1 - Len(delivered)
    <3>1. j \in 1 .. Len(toDeliver) /\ toDeliver[j] = n
      BY <2>1, <2>2, <2>4 DEF IndInv, OrderInv, FirstData
    <3>. QED
      BY <3>1
  <2>. QED
    BY <2>1, <2>2, <2>3, <2>4
<1>. QED
  BY Invariance, <1>1, PTL

\* Only output messages are buffered and collected for delivery.
OutputInv ==
    /\ \A n \in incomingBuffer : Kind(n) = "output"
    /\ \A i \in 1 .. Len(toDeliver) : Kind(toDeliver[i]) = "output"

\* processOutputMessage is the only one to put messages there.
LEMMA OutputOnly == CompleteIsReliable => (Spec => []OutputInv)
<1> SUFFICES ASSUME CompleteIsReliable PROVE Spec => []OutputInv
  OBVIOUS
<1>1. Init => OutputInv
  BY DEF Init, OutputInv
<1>2. ASSUME IndInv, OutputInv, [Next]_vars PROVE OutputInv'
  <2> USE <1>2, RecvAssumption DEF RecvAssumption
  <2>1. CASE ProcessInOrder
    <3>1. PICK next \in cur + 1 .. MaxSeq :
            /\ \A k \in cur + 1 .. next - 1 : k \in incomingBuffer
            /\ toDeliver' = [i \in 1 .. next - cur |-> cur + i - 1]
            /\ incomingBuffer' = incomingBuffer \ (cur + 1 .. next - 1)
      BY <2>1 DEF ProcessInOrder
    <3>2. cur \in Nat /\ Kind(cur) = "output"
      BY <2>1 DEF ProcessInOrder, IndInv, TypeOK
    <3>3. \A k \in cur .. next - 1 : Kind(k) = "output"
      BY <3>1, <3>2 DEF OutputInv
    <3>4. ASSUME NEW i \in 1 .. Len(toDeliver') PROVE Kind(toDeliver'[i]) = "output"
      <4>1. i \in 1 .. next - cur /\ toDeliver'[i] = cur + i - 1
        BY <3>1, <3>2, <3>4
      <4>. QED
        BY <3>2, <3>3, <4>1
    <3>. QED
      BY <3>1, <3>4 DEF OutputInv
  <2>2. CASE ProcessEarly
    BY <2>2 DEF ProcessEarly, OutputInv
  <2>3. CASE DeliverMessage
    <3>1. toDeliver \in Seq(Seqs) /\ toDeliver # <<>> /\ toDeliver' = Tail(toDeliver)
          /\ incomingBuffer' = incomingBuffer
      BY <2>3 DEF DeliverMessage, IndInv, TypeOK, LoopInv, orderVars
    <3>2. ASSUME NEW i \in 1 .. Len(toDeliver') PROVE Kind(toDeliver'[i]) = "output"
      <4>1. i + 1 \in 1 .. Len(toDeliver) /\ toDeliver'[i] = toDeliver[i + 1]
        BY <3>1, <3>2
      <4>. QED
        BY <4>1 DEF OutputInv
    <3>. QED
      BY <3>1, <3>2 DEF OutputInv
  <2>4. CASE UNCHANGED <<incomingBuffer, toDeliver>>
    BY <2>4 DEF OutputInv
  <2>. QED
    BY <2>1, <2>2, <2>3, <2>4 DEF Next, Receiver, ProcessMessage, Agent, vars, Receive,
       SendAcknowledge, HandleHandshakeRequest, HandleHandshakeComplete, ProcessDuplicate,
       ProcessInputData, ProcessChannelClosed, StopReceiving, SetOnOutputData, Close, WsFail,
       AgentSend, AgentReceiveResponse, AgentCloseChannel, AgentRepeat, AgentReceiveAck, Lose,
       orderVars
<1>. QED
  BY Invariance, <1>1, <1>2, PTL DEF Spec

\* The stream's items as seen through the refinement mapping.
Produced == IF OutputEnd > FirstData THEN OutputEnd - FirstData ELSE 0
Consumed == [i \in 1 .. Len(delivered) |-> delivered[i] - FirstData + 1]

\* The receiving half implements the safety part of OrderedStream: the agent's
\* data messages are produced, deliverMessage consumes them, and any other
\* step closes the stream or leaves it alone.
THEOREM RefinesStream ==
    CompleteIsReliable /\ InputComesLast => (Spec => StreamSafety)
<1> SUFFICES ASSUME CompleteIsReliable, InputComesLast PROVE Spec => StreamSafety
  OBVIOUS
<1> USE DEF StreamSafety, Stream!Safety, Stream!streamVars
<1>1. Init => Stream!Init
  <2> SUFFICES ASSUME Init PROVE Stream!Init
    OBVIOUS
  <2>1. ~(OutputEnd > FirstData)
    BY DEF Init, OutputEnd, FirstData
  <2>. QED
    BY <2>1 DEF Init, Stream!Init
<1>2. IndInv /\ OutputInv /\ [Next]_vars => [Stream!Next]_(Stream!streamVars)
  <2> SUFFICES ASSUME IndInv, OutputInv, [Next]_vars
               PROVE  Stream!Next \/ UNCHANGED Stream!streamVars
    OBVIOUS
  <2>1. CASE AgentSend
    <3>1. /\ agentNext \in Nat /\ agentNext < MaxSeq /\ agentNext' = agentNext + 1
          /\ wsOpen' = wsOpen /\ delivered' = delivered
      BY <2>1 DEF AgentSend, IndInv, TypeOK, outputVars, closeVars
    <3>2. OutputEnd = agentNext
      BY <3>1, RecvAssumption DEF OutputEnd, InputComesLast, RecvAssumption
    <3>3. OutputEnd' = agentNext \/ OutputEnd' = agentNext + 1
      BY <3>1 DEF OutputEnd
    <3>. QED
      BY <3>1, <3>2, <3>3 DEF Stream!Next, Stream!Produce, FirstData
  <2>2. CASE DeliverMessage
    <3> DEFINE L == Len(delivered)
    <3>1. /\ delivered \in Seq(Seqs) /\ toDeliver \in Seq(Seqs) /\ toDeliver # <<>>
          /\ L \in Nat /\ Len(toDeliver) >= 1 /\ Head(toDeliver) = toDeliver[1]
          /\ handshakeComplete /\ agentNext \in Nat
      BY <2>2 DEF DeliverMessage, IndInv, TypeOK, LoopInv, HandshakeInv
    <3>2. /\ Head(toDeliver) = L + 2
          /\ L + 2 < OutputEnd
      <4>1. Head(toDeliver) = L + 2 /\ L + 2 < agentNext /\ agentNext <= MaxSeq
        BY <3>1, RecvAssumption DEF IndInv, TypeOK, OrderInv, SentInv, FirstData, RecvAssumption
      <4>2. L + 2 \notin InputSeqs
        BY <3>1, <4>1 DEF OutputInv, Kind
      <4>. QED
        BY <3>1, <4>1, <4>2, RecvAssumption DEF OutputEnd, InputComesLast, RecvAssumption
    <3>3. /\ Len(delivered') = L + 1
          /\ delivered'[L + 1] = L + 2
          /\ \A i \in 1 .. L : delivered'[i] = delivered[i]
      BY <2>2, <3>1, <3>2 DEF DeliverMessage
    <3>4. Consumed \in Seq(Int) /\ Len(Consumed) = L
      <4>1. \A i \in 1 .. L : delivered[i] - FirstData + 1 = i
        BY <3>1 DEF IndInv, OrderInv, FirstData
      <4>2. Consumed = [i \in 1 .. L |-> i]
        BY <4>1 DEF Consumed
      <4>. QED
        BY <3>1, <4>2
    <3>5. Consumed' = Append(Consumed, L + 1)
      <4>1. Consumed' = [i \in 1 .. L + 1 |-> delivered'[i] - FirstData + 1]
        BY <3>3 DEF Consumed
      <4>2. /\ Append(Consumed, L + 1) \in Seq(Int)
            /\ Len(Append(Consumed, L + 1)) = L + 1
            /\ Append(Consumed, L + 1)[L + 1] = L + 1
            /\ \A i \in 1 .. L : Append(Consumed, L + 1)[i] = delivered[i] - FirstData + 1
        BY <3>1, <3>4 DEF Consumed
      <4>3. \A i \in 1 .. L + 1 : Append(Consumed, L + 1)[i] = Consumed'[i]
        BY <3>1, <3>3, <4>1, <4>2 DEF FirstData
      <4>. QED
        BY <3>1, <4>1, <4>2, <4>3
    <3>6. L < Produced /\ Produced' = Produced /\ wsOpen' = wsOpen
      BY <2>2, <3>1, <3>2 DEF DeliverMessage, agentVars, closeVars, Produced, OutputEnd, FirstData
    <3>7. Stream!Consume
      BY <3>4, <3>5, <3>6 DEF Stream!Consume, Consumed, Produced
    <3>. QED
      BY <3>7 DEF Stream!Next
  <2>3. CASE Close \/ WsFail \/ ProcessChannelClosed
    BY <2>3 DEF Close, WsFail, ProcessChannelClosed, agentVars, outputVars, OutputEnd, Stream!Next,
       Stream!Close
  <2>4. CASE UNCHANGED <<agentNext, delivered, wsOpen>>
    BY <2>4 DEF OutputEnd
  <2>. QED
    BY <2>1, <2>2, <2>3, <2>4 DEF Next, Receiver, ProcessMessage, Agent, vars, Receive,
       SendAcknowledge, HandleHandshakeRequest, HandleHandshakeComplete, ProcessInOrder,
       ProcessEarly, ProcessDuplicate, ProcessInputData, StopReceiving, SetOnOutputData,
       AgentReceiveResponse, AgentCloseChannel, AgentRepeat, AgentReceiveAck, Lose,
       agentVars, outputVars, closeVars
<1>. QED
  BY Invariance, OutputOnly, <1>1, <1>2, PTL DEF Spec

=============================================================================
