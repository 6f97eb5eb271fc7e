------------------------ MODULE DataChannelSendProofs ------------------------
(***************************************************************************)
(* Proofs about the sending half of the data channel, for any number of    *)
(* senders and messages, any buffer capacity and any attempt limit.        *)
(***************************************************************************)
EXTENDS DataChannelSend, TLAPS

\* Nothing in the channel or the network knows message m yet.
Untouched(m) ==
    /\ m \notin Buffered /\ m \notin evicted
    /\ written[m] = 0 /\ toAgent[m] = 0 /\ acks[m] = 0
    /\ amsg # m
    /\ rpc # "idle" => rmsg.seq # m

\* Each sender works on a number of its own, and until it has entered the
\* message in the buffer nothing else knows it.
OwnerInv ==
    /\ \A s \in Senders :
         pc[s] # "idle" => mine[s] \in Seqs /\ mine[s] < sendSeqNum
    /\ \A s, t \in Senders :
         s # t /\ pc[s] # "idle" /\ pc[t] # "idle" => mine[s] # mine[t]
    /\ \A s \in Senders :
         /\ pc[s] = "assigned" => mine[s] \notin pendingMessages /\ Untouched(mine[s])
         /\ pc[s] = "pended" => mine[s] \in pendingMessages /\ Untouched(mine[s])
    /\ \A m \in Seqs : m >= sendSeqNum => m \notin pendingMessages /\ Untouched(m)

\* The locals of the scheduler and of the receive goroutine, and what the
\* front that the scheduler copied can have become in the meantime: it is
\* still the front with the same attempt, or it has left the buffer.
LocalInv ==
    /\ rpc # "idle" =>
         /\ rmsg \in Entry /\ rmsg.attempt < MaxAttempt
         /\ \A i \in 1 .. Len(outgoingBuffer) :
              outgoingBuffer[i].seq = rmsg.seq =>
                i = 1 /\ outgoingBuffer[i].attempt = rmsg.attempt
    /\ apc = "remove" => amsg \in Seqs /\ amsg \notin pendingMessages
    /\ apc = "idle" => amsg = None

\* No message is in the buffer twice; a pending message is buffered, was
\* evicted, or is on its way into the buffer; a buffered one is pending unless
\* it is being removed.
BufferInv ==
    /\ \A i, j \in 1 .. Len(outgoingBuffer) :
         i # j => outgoingBuffer[i].seq # outgoingBuffer[j].seq
    /\ \A m \in pendingMessages :
         \/ m \in Buffered \cup evicted
         \/ \E s \in Senders : pc[s] = "pended" /\ mine[s] = m
    /\ AckedIsForgotten

\* One write is still to come from a sender that has only buffered m, one is
\* done but not counted while the scheduler is between write and update.
ToWrite      == {m \in Seqs : \E s \in Senders : pc[s] = "buffered" /\ mine[s] = m}
Owed(m)      == IF m \in ToWrite THEN 1 ELSE 0
Uncounted(m) == IF rpc = "update" /\ rmsg.seq = m THEN 1 ELSE 0

\* The attempts recorded in the buffer account for the writes.
CountInv ==
    /\ \A i \in 1 .. Len(outgoingBuffer) :
         LET e == outgoingBuffer[i]
         IN  written[e.seq] + Owed(e.seq) <= 1 + e.attempt + Uncounted(e.seq)
    /\ rpc = "resend" => written[rmsg.seq] + Owed(rmsg.seq) <= 1 + rmsg.attempt
    /\ \A m \in Seqs : written[m] + Owed(m) <= MaxAttempt + 1

\* The inductive invariant: UnackedIsBuffered, AckedIsForgotten and
\* BoundedResends each depend on what the goroutines hold in their locals.
IndInv == TypeOK /\ OwnerInv /\ LocalInv /\ BufferInv /\ CountInv

-----------------------------------------------------------------------------

\* The initial state satisfies the inductive invariant.
LEMMA InitInv == Init => IndInv
<1> SUFFICES ASSUME Init PROVE IndInv
  OBVIOUS
<1> USE SendAssumption DEF SendAssumption
<1>1. wsOpen \in BOOLEAN /\ ctxDone \in BOOLEAN
  BY Zenon DEF Init
<1>2. outgoingBuffer = <<>> /\ Len(outgoingBuffer) = 0 /\ Buffered = {}
  BY DEF Init, Buffered
<1>3. TypeOK
  BY <1>1, <1>2 DEF Init, TypeOK, Seqs
<1>4. OwnerInv
  BY <1>2 DEF Init, OwnerInv, Untouched, Seqs
<1>5. LocalInv
  BY DEF Init, LocalInv
<1>6. BufferInv
  BY <1>2 DEF Init, BufferInv, AckedIsForgotten
<1>7. CountInv
  BY <1>2 DEF Init, CountInv, Owed, ToWrite, Uncounted, Seqs
<1>. QED
  BY <1>3, <1>4, <1>5, <1>6, <1>7 DEF IndInv

\* What the bound on the numbers says about them.
LEMMA SeqsFacts == \A m : m \in Seqs <=> m \in Nat /\ m < MaxSeq
BY SendAssumption DEF SendAssumption, Seqs

\* A number below the bound is a sequence number.
LEMMA NextIsSeq ==
    ASSUME NEW n \in 0 .. MaxSeq, n < MaxSeq
    PROVE  n \in Seqs /\ n \in Nat
BY SendAssumption DEF SendAssumption, Seqs

\* A place in a shifted sequence that is not the last is one of the old sequence.
LEMMA ShiftFacts ==
    ASSUME NEW n \in Nat, NEW k \in Nat, k <= n,
           NEW i \in 1 .. n - k + 1, i # n - k + 1
    PROVE  i \in 1 .. n - k /\ i + k \in 1 .. n
OBVIOUS

\* Two steps of arithmetic, stated once.
LEMMA SumLe ==
    ASSUME NEW a \in Nat, NEW b \in Nat, NEW c \in Nat, NEW d \in Nat, NEW e \in Nat, NEW f \in Nat,
           a + b <= c + d, c + d <= 1 + e + f
    PROVE  a + b <= 1 + e + f
OBVIOUS

\* Adding zero changes nothing.
LEMMA PlusZero == ASSUME NEW a \in Nat, NEW b, b = 0 PROVE a = a + b
OBVIOUS

\* What the buffer holds.
LEMMA EntryFacts ==
    ASSUME TypeOK
    PROVE  \A i \in 1 .. Len(outgoingBuffer) :
             /\ outgoingBuffer[i] \in Entry
             /\ outgoingBuffer[i].seq \in Seqs
             /\ outgoingBuffer[i].attempt \in Nat
             /\ outgoingBuffer[i].attempt <= MaxAttempt
<1>1. \A i \in 1 .. Len(outgoingBuffer) : outgoingBuffer[i] \in Entry
  BY DEF TypeOK
<1>2. \A e \in Entry : e.seq \in Seqs /\ e.attempt \in Nat /\ e.attempt <= MaxAttempt
  BY SendAssumption DEF SendAssumption, Entry
<1>. QED
  BY <1>1, <1>2

\* A write changes the counters of the written message only, by at most one.
LEMMA WriteFacts ==
    ASSUME TypeOK, NEW m \in Seqs, WsSendMessage(m)
    PROVE  /\ toAgent' \in [Seqs -> Nat] /\ written' \in [Seqs -> Nat]
           /\ \A k \in Seqs : k # m => written'[k] = written[k] /\ toAgent'[k] = toAgent[k]
           /\ wsOpen => written'[m] = written[m] + 1
           /\ ~wsOpen => written'[m] = written[m]
           /\ written'[m] <= written[m] + 1
<1> USE DEF TypeOK, WsSendMessage
<1>1. CASE wsOpen
  <2>1. /\ toAgent' = [toAgent EXCEPT ![m] = @ + 1]
        /\ written' = [written EXCEPT ![m] = @ + 1]
    BY <1>1
  <2>. QED
    BY <1>1, <2>1
<1>2. CASE ~wsOpen
  <2>1. toAgent' = toAgent /\ written' = written
    BY <1>2
  <2>. QED
    BY <1>2, <2>1
<1>. QED
  BY <1>1, <1>2

\* Owed and Uncounted are 0 or 1.
LEMMA SmallFacts == \A m : Owed(m) \in {0, 1} /\ Uncounted(m) \in {0, 1}
BY DEF Owed, Uncounted

\* Taking a number preserves the invariant: the number was untouched.
LEMMA AssignSeqNumInv ==
    ASSUME IndInv, NEW s \in Senders, AssignSeqNum(s)
    PROVE  IndInv'
<1> USE SendAssumption DEF SendAssumption, IndInv, TypeOK, senderVars, resendVars, ackVars, netVars
<1>0. /\ sendSeqNum \in Seqs /\ sendSeqNum' = sendSeqNum + 1 /\ sendSeqNum \in Nat
      /\ Buffered' = Buffered /\ ToWrite' = ToWrite
  <2>1. sendSeqNum \in Seqs /\ sendSeqNum' = sendSeqNum + 1 /\ sendSeqNum \in Nat
    <3>1. sendSeqNum \in 0 .. MaxSeq /\ sendSeqNum < MaxSeq /\ sendSeqNum' = sendSeqNum + 1
      BY DEF AssignSeqNum
    <3>. QED
      BY <3>1, NextIsSeq
  <2>2. Buffered' = Buffered
    BY DEF AssignSeqNum, Buffered
  <2>3. \A t \in Senders : (pc'[t] = "buffered" <=> pc[t] = "buffered")
                           /\ (pc[t] = "buffered" => mine'[t] = mine[t])
    BY DEF AssignSeqNum
  <2>4. ToWrite' = ToWrite
    BY <2>3 DEF ToWrite
  <2>. QED
    BY <2>1, <2>2, <2>4
<1>a. \A m \in Seqs : Untouched(m)' <=> Untouched(m)
  BY <1>0 DEF AssignSeqNum, Untouched
<1>1. TypeOK'
  <2>1. sendSeqNum' \in 0 .. MaxSeq
    BY DEF AssignSeqNum
  <2>2. pc' \in [Senders -> {"idle", "assigned", "pended", "buffered"}]
    BY DEF AssignSeqNum
  <2>3. mine' \in [Senders -> Seqs \cup {None}]
    BY <1>0 DEF AssignSeqNum
  <2>. QED
    BY <2>1, <2>2, <2>3 DEF AssignSeqNum
<1>2. OwnerInv'
  <2> USE DEF AssignSeqNum, OwnerInv
  <2>1. \A t \in Senders : pc'[t] # "idle" => mine'[t] \in Seqs /\ mine'[t] < sendSeqNum'
    BY SMTT(60), <1>0, SeqsFacts
  <2>2. \A t, u \in Senders :
          t # u /\ pc'[t] # "idle" /\ pc'[u] # "idle" => mine'[t] # mine'[u]
    BY SMTT(60), <1>0, SeqsFacts
  <2>3. \A t \in Senders :
          /\ pc'[t] = "assigned" => mine'[t] \notin pendingMessages /\ Untouched(mine'[t])
          /\ pc'[t] = "pended" => mine'[t] \in pendingMessages /\ Untouched(mine'[t])
    BY <1>0, SeqsFacts
  <2>4. \A m \in Seqs : m >= sendSeqNum' => m \notin pendingMessages /\ Untouched(m)
    BY <1>0, SeqsFacts
  <2>. QED
    BY <1>a, <2>1, <2>2, <2>3, <2>4
<1>3. LocalInv'
  BY DEF AssignSeqNum, LocalInv
<1>4. BufferInv'
  BY <1>0 DEF AssignSeqNum, BufferInv, AckedIsForgotten
<1>5. CountInv'
  BY <1>0 DEF AssignSeqNum, CountInv, Owed, Uncounted
<1>. QED
  BY <1>1, <1>2, <1>3, <1>4, <1>5 DEF IndInv

\* Registering a pending message preserves the invariant.
LEMMA TrackPendingInv ==
    ASSUME IndInv, NEW s \in Senders, TrackPending(s)
    PROVE  IndInv'
<1> USE SendAssumption DEF SendAssumption, IndInv, TypeOK, senderVars, resendVars, ackVars, netVars
<1>0. /\ mine[s] \in Seqs /\ Untouched(mine[s]) /\ mine[s] < sendSeqNum
      /\ Buffered' = Buffered /\ ToWrite' = ToWrite
  BY DEF TrackPending, OwnerInv, Buffered, ToWrite
<1>a. \A m \in Seqs : Untouched(m)' <=> Untouched(m)
  BY <1>0 DEF TrackPending, Untouched
<1>1. TypeOK'
  <2>1. pc' \in [Senders -> {"idle", "assigned", "pended", "buffered"}]
    BY DEF TrackPending
  <2>. QED
    BY <1>0, <2>1 DEF TrackPending
<1>2. OwnerInv'
  BY <1>0, <1>a, SeqsFacts DEF TrackPending, OwnerInv
<1>3. LocalInv'
  BY <1>0 DEF TrackPending, LocalInv, Untouched
<1>4. BufferInv'
  <2>1. \A i, j \in 1 .. Len(outgoingBuffer') :
           i # j => outgoingBuffer'[i].seq # outgoingBuffer'[j].seq
    BY DEF TrackPending, BufferInv
  <2>2. ASSUME NEW m \in pendingMessages'
        PROVE  \/ m \in (Buffered \cup evicted)'
               \/ \E t \in Senders : pc'[t] = "pended" /\ mine'[t] = m
    <3>1. CASE m = mine[s]
      <4>1. pc'[s] = "pended" /\ mine'[s] = m
        BY <3>1 DEF TrackPending
      <4>. QED
        BY <4>1
    <3>2. CASE m # mine[s]
      <4>1. m \in pendingMessages
        BY <2>2, <3>2 DEF TrackPending
      <4>2. CASE m \in Buffered \cup evicted
        BY <4>2, <1>0 DEF TrackPending
      <4>3. CASE \E t \in Senders : pc[t] = "pended" /\ mine[t] = m
        <5>1. PICK t \in Senders : pc[t] = "pended" /\ mine[t] = m
          BY <4>3
        <5>2. pc'[t] = "pended" /\ mine'[t] = m
          BY <5>1 DEF TrackPending
        <5>. QED
          BY <5>2
      <4>. QED
        BY <4>1, <4>2, <4>3 DEF BufferInv
    <3>. QED
      BY <3>1, <3>2
  <2>3. AckedIsForgotten'
    BY <1>0 DEF TrackPending, BufferInv, AckedIsForgotten
  <2>. QED
    BY <2>1, <2>2, <2>3 DEF BufferInv
<1>5. CountInv'
  BY <1>0 DEF TrackPending, CountInv, Owed, Uncounted
<1>. QED
  BY <1>1, <1>2, <1>3, <1>4, <1>5 DEF IndInv

\* The first write preserves the invariant: it was owed.
LEMMA FirstSendInv ==
    ASSUME IndInv, NEW s \in Senders, FirstSend(s)
    PROVE  IndInv'
<1> USE SendAssumption DEF SendAssumption, IndInv, TypeOK, senderVars, resendVars, ackVars, netVars
<1>0. mine[s] \in Seqs /\ Buffered' = Buffered /\ mine[s] < sendSeqNum
  BY DEF FirstSend, OwnerInv, Buffered
<1>a. \A m \in Seqs : m # mine[s] /\ Untouched(m) => Untouched(m)'
  BY <1>0 DEF FirstSend, WsSendMessage, Untouched
<1>b. ToWrite' = ToWrite \ {mine[s]} /\ mine[s] \in ToWrite
  BY <1>0 DEF FirstSend, ToWrite, OwnerInv
<1>w. WsSendMessage(mine[s])
  BY DEF FirstSend
<1>c. \A m \in Seqs : written'[m] + Owed(m)' <= written[m] + Owed(m)
  BY SMTT(60), <1>0, <1>b, <1>w, WriteFacts DEF Owed
<1>d. \A m \in Seqs :
        /\ written[m] \in Nat /\ written'[m] \in Nat
        /\ Owed(m) \in Nat /\ Owed(m)' \in Nat
  <2>1. \A m \in Seqs : written[m] \in Nat /\ written'[m] \in Nat
    BY <1>0, <1>w, WriteFacts
  <2>2. \A m : Owed(m) \in Nat /\ Owed(m)' \in Nat
    BY DEF Owed
  <2>. QED
    BY <2>1, <2>2
<1>1. TypeOK'
  <2>1. pc' \in [Senders -> {"idle", "assigned", "pended", "buffered"}]
    BY DEF FirstSend
  <2>2. toAgent' \in [Seqs -> Nat] /\ written' \in [Seqs -> Nat]
    BY <1>0, <1>w, WriteFacts
  <2>. QED
    BY <2>1, <2>2 DEF FirstSend
<1>2. OwnerInv'
  <2>1. pc' = [pc EXCEPT ![s] = "idle"] /\ pc[s] = "buffered"
        /\ UNCHANGED <<mine, sendSeqNum, pendingMessages>>
    BY DEF FirstSend
  <2>2. \A t \in Senders :
          pc'[t] # "idle" => t # s /\ pc'[t] = pc[t] /\ mine[t] # mine[s] /\ mine[t] \in Seqs
    BY <2>1 DEF OwnerInv
  <2>3. \A m \in Seqs : m >= sendSeqNum => m # mine[s]
    BY <1>0, SeqsFacts
  <2>. QED
    BY <1>a, <2>1, <2>2, <2>3 DEF OwnerInv
<1>3. LocalInv'
  BY DEF FirstSend, LocalInv
<1>4. BufferInv'
  BY <1>0 DEF FirstSend, BufferInv, AckedIsForgotten
<1>5. CountInv'
  <2>1. \A i \in 1 .. Len(outgoingBuffer) :
          outgoingBuffer[i].seq \in Seqs /\ outgoingBuffer[i].attempt \in Nat
    BY EntryFacts
  <2>2. /\ outgoingBuffer' = outgoingBuffer /\ rpc' = rpc /\ rmsg' = rmsg
        /\ \A m \in Seqs : Uncounted(m)' = Uncounted(m) /\ Uncounted(m) \in Nat
    BY DEF FirstSend, Uncounted
  <2>3. rpc = "resend" => rmsg.seq \in Seqs /\ rmsg.attempt \in Nat
    BY DEF LocalInv, Entry
  <2>4. \A i \in 1 .. Len(outgoingBuffer) : \A q \in Seqs :
          q = outgoingBuffer[i].seq =>
            written'[q] + Owed(q)' <= 1 + outgoingBuffer[i].attempt + Uncounted(q)
    <3> SUFFICES ASSUME NEW i \in 1 .. Len(outgoingBuffer), NEW q \in Seqs,
                        q = outgoingBuffer[i].seq
                 PROVE  written'[q] + Owed(q)' <= 1 + outgoingBuffer[i].attempt + Uncounted(q)
      OBVIOUS
    <3>1. written[q] + Owed(q) <= 1 + outgoingBuffer[i].attempt + Uncounted(q)
      BY DEF CountInv
    <3>2. Uncounted(q) \in Nat /\ outgoingBuffer[i].attempt \in Nat
      BY <2>1, <2>2
    <3>3. /\ written[q] \in Nat /\ written'[q] \in Nat
          /\ Owed(q) \in Nat /\ Owed(q)' \in Nat
          /\ written'[q] + Owed(q)' <= written[q] + Owed(q)
      BY <1>c, <1>d
    <3>. QED
      BY ONLY ZenonT(60), <3>1, <3>2, <3>3, SumLe
  <2>5. rpc = "resend" => written'[rmsg.seq] + Owed(rmsg.seq)' <= 1 + rmsg.attempt
    <3> SUFFICES ASSUME rpc = "resend" PROVE written'[rmsg.seq] + Owed(rmsg.seq)' <= 1 + rmsg.attempt
      OBVIOUS
    <3> PICK q \in Seqs : q = rmsg.seq
      BY <2>3
    <3>1. written[q] + Owed(q) <= 1 + rmsg.attempt
      BY DEF CountInv
    <3>2. /\ written[q] \in Nat /\ written'[q] \in Nat
          /\ Owed(q) \in Nat /\ Owed(q)' \in Nat
          /\ written'[q] + Owed(q)' <= written[q] + Owed(q)
      BY <1>c, <1>d
    <3>3. written'[q] + Owed(q)' <= 1 + rmsg.attempt
      BY <2>3, <3>1, <3>2
    <3>. QED
      BY <2>2, <3>3 DEF Owed
  <2>6. \A m \in Seqs : written'[m] + Owed(m)' <= MaxAttempt + 1
    BY SMTT(60), <1>c, <1>d DEF CountInv
  <2>. QED
    BY <2>1, <2>2, <2>3, <2>4, <2>5, <2>6 DEF CountInv
<1>. QED
  BY <1>1, <1>2, <1>3, <1>4, <1>5 DEF IndInv

\* The first half of an acknowledgement preserves the invariant.
LEMMA ProcessAckPendingInv ==
    ASSUME IndInv, NEW m \in Seqs, ProcessAckPending(m)
    PROVE  IndInv'
<1> USE SendAssumption DEF SendAssumption, IndInv, TypeOK, senderVars, resendVars, ackVars, netVars
<1>0. Buffered' = Buffered /\ ToWrite' = ToWrite
  BY DEF ProcessAckPending, Buffered, ToWrite
<1>a. \A k \in Seqs : Untouched(k) => k # m
  BY DEF ProcessAckPending, Untouched
<1>b. \A k \in Seqs : Untouched(k) => Untouched(k)'
  BY <1>0, <1>a DEF ProcessAckPending, Untouched
<1>1. TypeOK'
  <2>1. acks' \in [Seqs -> Nat]
    BY DEF ProcessAckPending
  <2>. QED
    BY <2>1 DEF ProcessAckPending
<1>2. OwnerInv'
  BY <1>a, <1>b, SeqsFacts DEF ProcessAckPending, OwnerInv
<1>3. LocalInv'
  BY DEF ProcessAckPending, LocalInv
<1>4. BufferInv'
  BY SMTT(60), <1>0 DEF ProcessAckPending, BufferInv, AckedIsForgotten, LocalInv
<1>5. CountInv'
  BY <1>0 DEF ProcessAckPending, CountInv, Owed, Uncounted
<1>. QED
  BY <1>1, <1>2, <1>3, <1>4, <1>5 DEF IndInv

\* Copying the front preserves the invariant.
LEMMA CheckFrontInv ==
    ASSUME IndInv, CheckFront
    PROVE  IndInv'
<1> USE SendAssumption DEF SendAssumption, IndInv, TypeOK, senderVars, resendVars, ackVars, netVars
<1>0. Buffered' = Buffered /\ ToWrite' = ToWrite
  BY DEF CheckFront, Buffered, ToWrite
<1>a. /\ outgoingBuffer \in Seq(Entry) /\ 1 \in 1 .. Len(outgoingBuffer)
      /\ Len(outgoingBuffer) \in Nat
      /\ rmsg' = outgoingBuffer[1] /\ rmsg' \in Entry /\ rmsg'.attempt < MaxAttempt
      /\ rmsg'.seq \in Buffered /\ rmsg'.seq \in Seqs /\ rmsg'.attempt \in Nat
  <2>1. outgoingBuffer \in Seq(Entry) /\ outgoingBuffer # <<>>
    BY DEF CheckFront
  <2>2. Len(outgoingBuffer) \in Nat /\ Len(outgoingBuffer) >= 1 /\ outgoingBuffer[1] \in Entry
        /\ Head(outgoingBuffer) = outgoingBuffer[1]
    BY <2>1
  <2>. QED
    BY SMTT(60), <2>1, <2>2 DEF CheckFront, Buffered, Entry
<1>b. \A k \in Seqs : Untouched(k) => Untouched(k)'
  BY <1>0, <1>a DEF CheckFront, Untouched
<1>1. TypeOK'
  BY <1>a DEF CheckFront
<1>2. OwnerInv'
  BY <1>b DEF CheckFront, OwnerInv
<1>3. LocalInv'
  BY <1>a DEF CheckFront, LocalInv, BufferInv
<1>4. BufferInv'
  BY <1>0 DEF CheckFront, BufferInv, AckedIsForgotten
<1>5. CountInv'
  <2>1. /\ outgoingBuffer' = outgoingBuffer /\ written' = written
        /\ \A m \in Seqs : Owed(m)' = Owed(m)
        /\ \A m : Uncounted(m)' = 0 /\ Uncounted(m) = 0
    BY <1>0 DEF CheckFront, Owed, Uncounted
  <2>2. \A i \in 1 .. Len(outgoingBuffer) :
          outgoingBuffer[i].seq \in Seqs /\ outgoingBuffer[i].attempt \in Nat
    BY EntryFacts
  <2>3. \A i \in 1 .. Len(outgoingBuffer) :
          written[outgoingBuffer[i].seq] + Owed(outgoingBuffer[i].seq)
            <= 1 + outgoingBuffer[i].attempt
    BY <2>1, <2>2, SmallFacts DEF CountInv
  <2>4. written[rmsg'.seq] + Owed(rmsg'.seq) <= 1 + rmsg'.attempt
    BY <1>a, <2>3
  <2>. QED
    BY SMTT(60), <1>a, <2>1, <2>2, <2>3, <2>4 DEF CountInv
<1>. QED
  BY <1>1, <1>2, <1>3, <1>4, <1>5 DEF IndInv

\* Writing the copy preserves the invariant: the write is uncounted.
LEMMA ResendInv ==
    ASSUME IndInv, Resend
    PROVE  IndInv'
<1> USE SendAssumption DEF SendAssumption, IndInv, TypeOK, senderVars, resendVars, ackVars, netVars
<1>0. /\ Buffered' = Buffered /\ ToWrite' = ToWrite
      /\ rmsg \in Entry /\ rmsg.seq \in Seqs /\ rmsg.attempt \in Nat /\ rmsg.attempt < MaxAttempt
      /\ outgoingBuffer' = outgoingBuffer
  BY DEF Resend, Buffered, ToWrite, LocalInv, Entry
<1>b. \A k \in Seqs : Untouched(k) => Untouched(k)'
  BY <1>0 DEF Resend, WsSendMessage, Untouched
<1>1. TypeOK'
  <2>1. toAgent' \in [Seqs -> Nat] /\ written' \in [Seqs -> Nat]
    BY <1>0, WriteFacts DEF Resend
  <2>2. rpc' \in {"idle", "resend", "update"} /\ rmsg' \in Entry \cup {None}
    BY DEF Resend
  <2>. QED
    BY <2>1, <2>2 DEF Resend
<1>2. OwnerInv'
  BY <1>b DEF Resend, OwnerInv
<1>3. LocalInv'
  BY DEF Resend, LocalInv
<1>4. BufferInv'
  BY <1>0 DEF Resend, BufferInv, AckedIsForgotten
<1>5. CountInv'
  <2>1. \A m \in Seqs : Owed(m)' = Owed(m) /\ Owed(m) \in Nat
    BY <1>0 DEF Owed
  <2>2. \A i \in 1 .. Len(outgoingBuffer) :
          outgoingBuffer[i].seq \in Seqs /\ outgoingBuffer[i].attempt \in Nat
    BY EntryFacts
  <2>3. CASE wsOpen
    <3>1. /\ rpc' = "update" /\ rmsg' = rmsg
          /\ written' = [written EXCEPT ![rmsg.seq] = @ + 1]
      BY <2>3 DEF Resend, WsSendMessage
    <3>2. \A m \in Seqs :
            /\ Uncounted(m) = 0 /\ Uncounted(m)' = IF m = rmsg.seq THEN 1 ELSE 0
            /\ written[m] \in Nat
            /\ written'[m] = written[m] + IF m = rmsg.seq THEN 1 ELSE 0
      BY <1>0, <3>1 DEF Resend, Uncounted
    <3>3. written'[rmsg.seq] + Owed(rmsg.seq) <= 2 + rmsg.attempt
      BY SMTT(60), <1>0, <2>1, <3>2 DEF CountInv, Resend
    <3>4. \A m \in Seqs : written'[m] + Owed(m) <= MaxAttempt + 1
      <4> SUFFICES ASSUME NEW m \in Seqs PROVE written'[m] + Owed(m) <= MaxAttempt + 1
        OBVIOUS
      <4>1. CASE m = rmsg.seq
        BY SMTT(60), <1>0, <2>1, <3>2, <3>3, <4>1
      <4>2. CASE m # rmsg.seq
        BY <2>1, <3>2, <4>2 DEF CountInv
      <4>. QED
        BY <4>1, <4>2
    <3>5. \A i \in 1 .. Len(outgoingBuffer) : \A q \in Seqs :
            q = outgoingBuffer[i].seq =>
              written'[q] + Owed(q)' <= 1 + outgoingBuffer[i].attempt + Uncounted(q)'
      <4> SUFFICES ASSUME NEW i \in 1 .. Len(outgoingBuffer), NEW q \in Seqs,
                          q = outgoingBuffer[i].seq
                   PROVE  written'[q] + Owed(q)' <= 1 + outgoingBuffer[i].attempt + Uncounted(q)'
        OBVIOUS
      <4>1. written[q] + Owed(q) <= 1 + outgoingBuffer[i].attempt + Uncounted(q)
        BY DEF CountInv
      <4>2. Owed(q) \in Nat /\ Owed(q)' = Owed(q) /\ outgoingBuffer[i].attempt \in Nat
        BY <2>1, <2>2
      <4>3. CASE q = rmsg.seq
        <5>1. /\ written[q] \in Nat /\ written'[q] = written[q] + 1
              /\ Uncounted(q) = 0 /\ Uncounted(q)' = 1
          BY <4>3, <3>2
        <5>. QED
          BY SMTT(60), <4>1, <4>2, <5>1
      <4>4. CASE q # rmsg.seq
        BY SMTT(60), <4>1, <4>2, <4>4, <3>2
      <4>. QED
        BY <4>3, <4>4
    <3>. QED
      BY <1>0, <2>1, <2>2, <3>1, <3>4, <3>5 DEF CountInv
  <2>4. CASE ~wsOpen
    <3>1. rpc' = "idle" /\ written' = written
      BY <2>4 DEF Resend, WsSendMessage
    <3>2. \A m : Uncounted(m) = 0 /\ Uncounted(m)' = 0
      BY <3>1 DEF Resend, Uncounted
    <3>. QED
      <4>1. \A i \in 1 .. Len(outgoingBuffer) : \A q \in Seqs :
              q = outgoingBuffer[i].seq =>
                written'[q] + Owed(q)' <= 1 + outgoingBuffer[i].attempt + Uncounted(q)'
        <5> SUFFICES ASSUME NEW i \in 1 .. Len(outgoingBuffer), NEW q \in Seqs,
                            q = outgoingBuffer[i].seq
                     PROVE  written'[q] + Owed(q)' <= 1 + outgoingBuffer[i].attempt + Uncounted(q)'
          OBVIOUS
        <5>1. written[q] + Owed(q) <= 1 + outgoingBuffer[i].attempt + Uncounted(q)
          BY DEF CountInv
        <5>2. written'[q] = written[q] /\ Owed(q)' = Owed(q) /\ Uncounted(q)' = Uncounted(q)
          BY <2>1, <3>1, <3>2
        <5>. QED
          BY <5>1, <5>2
      <4>2. \A m \in Seqs : written'[m] + Owed(m)' <= MaxAttempt + 1
        <5> SUFFICES ASSUME NEW m \in Seqs PROVE written'[m] + Owed(m)' <= MaxAttempt + 1
          OBVIOUS
        <5>1. written[m] + Owed(m) <= MaxAttempt + 1
          BY DEF CountInv
        <5>. QED
          BY <2>1, <3>1, <5>1
      <4>. QED
        BY <1>0, <2>1, <2>2, <3>1, <4>1, <4>2 DEF CountInv
  <2>. QED
    BY <2>3, <2>4
<1>. QED
  BY <1>1, <1>2, <1>3, <1>4, <1>5 DEF IndInv

\* Close only stops the goroutines.
LEMMA CloseInv ==
    ASSUME IndInv, Close
    PROVE  IndInv'
<1> USE SendAssumption DEF SendAssumption, IndInv, TypeOK, senderVars, resendVars, ackVars, netVars
<1>0. /\ outgoingBuffer' = outgoingBuffer /\ Buffered' = Buffered /\ ToWrite' = ToWrite
      /\ UNCHANGED <<sendSeqNum, pc, mine, pendingMessages, rpc, rmsg, apc, amsg, written, evicted>>
  BY DEF Close, Buffered, ToWrite
<1>b. \A k \in Seqs : Untouched(k) => Untouched(k)'
  BY <1>0 DEF Close, Untouched
<1>1. TypeOK'
  BY DEF Close
<1>2. OwnerInv'
  BY <1>0, <1>b DEF OwnerInv
<1>3. LocalInv'
  BY <1>0 DEF LocalInv
<1>4. BufferInv'
  BY <1>0 DEF BufferInv, AckedIsForgotten
<1>5. CountInv'
  BY <1>0 DEF CountInv, Owed, Uncounted
<1>. QED
  BY <1>1, <1>2, <1>3, <1>4, <1>5 DEF IndInv

\* A broken socket only makes writes fail.
LEMMA WsFailInv ==
    ASSUME IndInv, WsFail
    PROVE  IndInv'
<1> USE SendAssumption DEF SendAssumption, IndInv, TypeOK, senderVars, resendVars, ackVars, netVars
<1>0. /\ outgoingBuffer' = outgoingBuffer /\ Buffered' = Buffered /\ ToWrite' = ToWrite
      /\ UNCHANGED <<sendSeqNum, pc, mine, pendingMessages, rpc, rmsg, apc, amsg, written, evicted>>
  BY DEF WsFail, Buffered, ToWrite
<1>b. \A k \in Seqs : Untouched(k) => Untouched(k)'
  BY <1>0 DEF WsFail, Untouched
<1>1. TypeOK'
  BY DEF WsFail
<1>2. OwnerInv'
  BY <1>0, <1>b DEF OwnerInv
<1>3. LocalInv'
  BY <1>0 DEF LocalInv
<1>4. BufferInv'
  BY <1>0 DEF BufferInv, AckedIsForgotten
<1>5. CountInv'
  BY <1>0 DEF CountInv, Owed, Uncounted
<1>. QED
  BY <1>1, <1>2, <1>3, <1>4, <1>5 DEF IndInv

\* The agent acknowledges only what was written.
LEMMA AgentReceiveInv ==
    ASSUME IndInv, NEW m \in Seqs, AgentReceive(m)
    PROVE  IndInv'
<1> USE SendAssumption DEF SendAssumption, IndInv, TypeOK, senderVars, resendVars, ackVars, netVars
<1>0. /\ outgoingBuffer' = outgoingBuffer /\ Buffered' = Buffered /\ ToWrite' = ToWrite
      /\ UNCHANGED <<sendSeqNum, pc, mine, pendingMessages, rpc, rmsg, apc, amsg, written, evicted>>
  BY DEF AgentReceive, Buffered, ToWrite
<1>b. \A k \in Seqs : Untouched(k) => Untouched(k)'
  BY <1>0 DEF AgentReceive, Untouched
<1>1. TypeOK'
  <2>1. toAgent' \in [Seqs -> Nat] /\ acks' \in [Seqs -> Nat]
    BY DEF AgentReceive
  <2>. QED
    BY <2>1 DEF AgentReceive
<1>2. OwnerInv'
  BY <1>0, <1>b DEF OwnerInv
<1>3. LocalInv'
  BY <1>0 DEF LocalInv
<1>4. BufferInv'
  BY <1>0 DEF BufferInv, AckedIsForgotten
<1>5. CountInv'
  BY <1>0 DEF CountInv, Owed, Uncounted
<1>. QED
  BY <1>1, <1>2, <1>3, <1>4, <1>5 DEF IndInv

\* A loss changes only what is in flight.
LEMMA LoseInv ==
    ASSUME IndInv, NEW m \in Seqs, Lose(m)
    PROVE  IndInv'
<1> USE SendAssumption DEF SendAssumption, IndInv, TypeOK, senderVars, resendVars, ackVars, netVars
<1>0. /\ outgoingBuffer' = outgoingBuffer /\ Buffered' = Buffered /\ ToWrite' = ToWrite
      /\ UNCHANGED <<sendSeqNum, pc, mine, pendingMessages, rpc, rmsg, apc, amsg, written, evicted>>
  BY DEF Lose, Buffered, ToWrite
<1>b. \A k \in Seqs : Untouched(k) => Untouched(k)'
  BY <1>0 DEF Lose, Untouched
<1>1. TypeOK'
  <2>1. toAgent' \in [Seqs -> Nat] /\ acks' \in [Seqs -> Nat]
    <3>1. CASE toAgent[m] > 0 /\ toAgent' = [toAgent EXCEPT ![m] = @ - 1] /\ acks' = acks
      BY <3>1
    <3>2. CASE acks[m] > 0 /\ acks' = [acks EXCEPT ![m] = @ - 1] /\ toAgent' = toAgent
      BY <3>2
    <3>. QED
      BY <3>1, <3>2 DEF Lose
  <2>2. drops' \in 0 .. MaxDrops
    BY DEF Lose
  <2>. QED
    BY <2>1, <2>2 DEF Lose
<1>2. OwnerInv'
  BY <1>0, <1>b DEF OwnerInv
<1>3. LocalInv'
  BY <1>0 DEF LocalInv
<1>4. BufferInv'
  BY <1>0 DEF BufferInv, AckedIsForgotten
<1>5. CountInv'
  BY <1>0 DEF CountInv, Owed, Uncounted
<1>. QED
  BY <1>1, <1>2, <1>3, <1>4, <1>5 DEF IndInv

\* Counting the attempt preserves the invariant: it replaces the uncounted write.
LEMMA ResendUpdateInv ==
    ASSUME IndInv, ResendUpdate
    PROVE  IndInv'
<1> USE SendAssumption DEF SendAssumption, IndInv, TypeOK, senderVars, resendVars, ackVars, netVars
<1> DEFINE B == outgoingBuffer
<1>0. /\ UNCHANGED <<sendSeqNum, pc, mine, pendingMessages, apc, amsg, toAgent, acks, written, evicted>>
      /\ rpc = "update" /\ rpc' = "idle" /\ rmsg' = None /\ ToWrite' = ToWrite
      /\ rmsg \in Entry /\ rmsg.seq \in Seqs /\ rmsg.attempt \in Nat /\ rmsg.attempt < MaxAttempt
  BY DEF ResendUpdate, ToWrite, LocalInv, Entry
<1>e. /\ B \in Seq(Entry) /\ Len(B) \in Nat
      /\ \A i \in 1 .. Len(B) : B[i] \in Entry /\ B[i].seq \in Seqs /\ B[i].attempt \in Nat
  BY EntryFacts
\* Position by position: only the front's attempt can change, and only if
\* the front is the message that was resent.
<1>f. /\ outgoingBuffer' \in Seq(Entry) /\ Len(outgoingBuffer') = Len(B)
      /\ \A i \in 1 .. Len(B) :
           /\ outgoingBuffer'[i].seq = B[i].seq
           /\ outgoingBuffer'[i].attempt = B[i].attempt + Uncounted(B[i].seq)
  <2>1. CASE B # <<>> /\ Head(B).seq = rmsg.seq
    <3>1. 1 \in 1 .. Len(B) /\ Head(B) = B[1] /\ B[1] \in Entry
      BY <1>e, <2>1
    <3>2. B[1].attempt = rmsg.attempt
      BY <1>0, <2>1, <3>1 DEF LocalInv
    <3>3. outgoingBuffer' = [B EXCEPT ![1] = [B[1] EXCEPT !.attempt = @ + 1]]
      BY <2>1 DEF ResendUpdate
    <3>4. [B[1] EXCEPT !.attempt = @ + 1] \in Entry
      <4>1. B[1].attempt + 1 \in 0 .. MaxAttempt
        BY <1>0, <3>2
      <4>. QED
        BY <3>1, <4>1 DEF Entry
    <3>5. outgoingBuffer' \in Seq(Entry) /\ Len(outgoingBuffer') = Len(B)
          /\ outgoingBuffer'[1] = [B[1] EXCEPT !.attempt = @ + 1]
          /\ \A i \in 1 .. Len(B) : i # 1 => outgoingBuffer'[i] = B[i]
      BY SMTT(60), <1>e, <3>1, <3>3, <3>4
    <3>6. outgoingBuffer'[1].seq = B[1].seq /\ outgoingBuffer'[1].attempt = B[1].attempt + 1
      BY <3>1, <3>5 DEF Entry
    <3>7. \A i \in 1 .. Len(B) : i # 1 => Uncounted(B[i].seq) = 0
      BY <1>0 DEF Uncounted, LocalInv
    <3>8. Uncounted(B[1].seq) = 1
      BY <1>0, <2>1, <3>1 DEF Uncounted
    <3>. QED
      <4>1. ASSUME NEW i \in 1 .. Len(B)
            PROVE  /\ outgoingBuffer'[i].seq = B[i].seq
                   /\ outgoingBuffer'[i].attempt = B[i].attempt + Uncounted(B[i].seq)
        <5>1. CASE i = 1
          BY <3>6, <3>8, <5>1
        <5>2. CASE i # 1
          <6>1. outgoingBuffer'[i] = B[i] /\ Uncounted(B[i].seq) = 0 /\ B[i].attempt \in Nat
            BY <1>e, <3>5, <3>7, <5>2
          <6>. QED
            BY <6>1
        <5>. QED
          BY <5>1, <5>2
      <4>. QED
        BY <3>5, <4>1
  <2>2. CASE ~(B # <<>> /\ Head(B).seq = rmsg.seq)
    <3>1. outgoingBuffer' = B
      BY <2>2 DEF ResendUpdate
    <3>2. \A i \in 1 .. Len(B) : B[i].seq # rmsg.seq
      <4> SUFFICES ASSUME NEW i \in 1 .. Len(B), B[i].seq = rmsg.seq PROVE FALSE
        OBVIOUS
      <4>1. i = 1
        BY <1>0 DEF LocalInv
      <4>2. B # <<>> /\ Head(B) = B[1]
        BY <1>e, <4>1
      <4>. QED
        BY <2>2, <4>1, <4>2
    <3>3. \A i \in 1 .. Len(B) : Uncounted(B[i].seq) = 0
      BY <3>2 DEF Uncounted
    <3>. QED
      <4>1. \A i \in 1 .. Len(B) : B[i].attempt = B[i].attempt + Uncounted(B[i].seq)
        BY <1>e, <3>3, PlusZero
      <4>. QED
        BY <1>e, <3>1, <4>1
  <2>. QED
    BY <2>1, <2>2
<1>g. Buffered' = Buffered
  BY <1>f DEF Buffered
<1>b. \A k \in Seqs : Untouched(k) => Untouched(k)'
  BY <1>0, <1>g DEF Untouched
<1>1. TypeOK'
  BY <1>0, <1>f DEF ResendUpdate
<1>2. OwnerInv'
  BY <1>0, <1>b DEF OwnerInv
<1>3. LocalInv'
  BY <1>0 DEF LocalInv
<1>4. BufferInv'
  BY <1>0, <1>f, <1>g DEF BufferInv, AckedIsForgotten
<1>5. CountInv'
  <2>1. \A m : Uncounted(m)' = 0 /\ Owed(m)' = Owed(m)
    BY <1>0 DEF Uncounted, Owed
  <2>2. \A i \in 1 .. Len(B) : \A q \in Seqs :
          q = B[i].seq => written[q] + Owed(q) <= 1 + B[i].attempt + Uncounted(q)
    BY DEF CountInv
  <2>3. \A i \in 1 .. Len(B) : \A q \in Seqs :
          q = outgoingBuffer'[i].seq => written'[q] + Owed(q)' <= 1 + outgoingBuffer'[i].attempt + 0
    <3> SUFFICES ASSUME NEW i \in 1 .. Len(B), NEW q \in Seqs, q = outgoingBuffer'[i].seq
                 PROVE  written'[q] + Owed(q)' <= 1 + outgoingBuffer'[i].attempt + 0
      OBVIOUS
    <3>1. q = B[i].seq /\ outgoingBuffer'[i].attempt = B[i].attempt + Uncounted(q)
      BY <1>f
    <3>2. B[i].attempt \in Nat /\ Uncounted(q) \in {0, 1}
      BY <1>e, SmallFacts
    <3>3. written[q] + Owed(q) <= 1 + B[i].attempt + Uncounted(q)
      BY <2>2, <3>1
    <3>4. written'[q] = written[q] /\ Owed(q)' = Owed(q)
      BY <1>0, <2>1
    <3>. QED
      BY <3>1, <3>2, <3>3, <3>4
  <2>4. \A i \in 1 .. Len(B) : outgoingBuffer'[i].seq \in Seqs
    BY <1>e, <1>f
  <2>5. \A m \in Seqs : written'[m] + Owed(m)' <= MaxAttempt + 1
    BY <1>0, <2>1 DEF CountInv
  <2>. QED
    BY <1>0, <1>f, <2>1, <2>3, <2>4, <2>5 DEF CountInv
<1>. QED
  BY <1>1, <1>2, <1>3, <1>4, <1>5 DEF IndInv

\* Entering a message in the buffer preserves the invariant, eviction included.
LEMMA AddToOutgoingBufferInv ==
    ASSUME IndInv, NEW s \in Senders, AddToOutgoingBuffer(s)
    PROVE  IndInv'
<1> USE SendAssumption DEF SendAssumption, IndInv, TypeOK, senderVars, resendVars, ackVars, netVars
<1> DEFINE B    == outgoingBuffer
           full == Len(B) >= Capacity
           new  == [seq |-> mine[s], attempt |-> 0]
           d    == IF full THEN 1 ELSE 0
<1>0. /\ UNCHANGED <<sendSeqNum, mine, pendingMessages, rpc, rmsg, apc, amsg, toAgent, acks, written>>
      /\ pc[s] = "pended" /\ pc' = [pc EXCEPT ![s] = "buffered"]
      /\ mine[s] \in Seqs /\ mine[s] \in pendingMessages /\ mine[s] < sendSeqNum
      /\ Untouched(mine[s])
  BY DEF AddToOutgoingBuffer, OwnerInv
<1>e. /\ B \in Seq(Entry) /\ Len(B) \in Nat
      /\ \A i \in 1 .. Len(B) : B[i] \in Entry /\ B[i].seq \in Seqs /\ B[i].attempt \in Nat
  BY EntryFacts
<1>n. new \in Entry /\ new.seq = mine[s] /\ new.attempt = 0
  BY <1>0 DEF Entry
\* The new buffer is the old one, shifted by one if it was full, and the
\* new entry; what is shifted out is recorded as evicted.
<1>f. /\ outgoingBuffer' \in Seq(Entry) /\ Len(outgoingBuffer') = Len(B) - d + 1
      /\ d \in {0, 1} /\ d <= Len(B)
      /\ outgoingBuffer'[Len(B) - d + 1] = new
      /\ \A i \in 1 .. Len(B) - d : outgoingBuffer'[i] = B[i + d]
      /\ d = 1 => evicted' = evicted \cup {B[1].seq}
      /\ d = 0 => evicted' = evicted
  <2>1. CASE full
    <3>1. /\ outgoingBuffer' = Append(Tail(B), new) /\ B # <<>> /\ Len(B) >= 1
          /\ evicted' = evicted \cup {Head(B).seq}
      BY <1>e, <2>1 DEF AddToOutgoingBuffer
    <3>2. /\ Tail(B) \in Seq(Entry) /\ Len(Tail(B)) = Len(B) - 1 /\ Head(B) = B[1]
          /\ \A i \in 1 .. Len(B) - 1 : Tail(B)[i] = B[i + 1]
      BY <1>e, <3>1
    <3>. QED
      BY <1>e, <1>n, <2>1, <3>1, <3>2
  <2>2. CASE ~full
    <3>1. outgoingBuffer' = Append(B, new) /\ evicted' = evicted
      BY <2>2 DEF AddToOutgoingBuffer
    <3>. QED
      BY <1>e, <1>n, <2>2, <3>1
  <2>. QED
    BY <2>1, <2>2
<1> HIDE DEF d, new, full
\* Every entry of the new buffer is the new one or an old one further back.
<1>g. \A i \in 1 .. Len(outgoingBuffer') :
        \/ i = Len(outgoingBuffer') /\ outgoingBuffer'[i] = new
        \/ i + d \in 1 .. Len(B) /\ outgoingBuffer'[i] = B[i + d]
  <2> SUFFICES ASSUME NEW i \in 1 .. Len(outgoingBuffer')
               PROVE  \/ i = Len(outgoingBuffer') /\ outgoingBuffer'[i] = new
                      \/ i + d \in 1 .. Len(B) /\ outgoingBuffer'[i] = B[i + d]
    OBVIOUS
  <2>1. /\ Len(B) \in Nat /\ d \in Nat /\ d <= Len(B) /\ Len(outgoingBuffer') = Len(B) - d + 1
    BY <1>e, <1>f
  <2>2. CASE i = Len(B) - d + 1
    BY <1>f, <2>2
  <2>3. CASE i # Len(B) - d + 1
    <3>1. i \in 1 .. Len(B) - d /\ i + d \in 1 .. Len(B)
      <4>1. i \in 1 .. Len(B) - d + 1
        BY <2>1
      <4>. QED
        BY <2>1, <2>3, <4>1, ShiftFacts
    <3>. QED
      BY <1>f, <3>1
  <2>. QED
    BY <2>2, <2>3
<1>h. \A i \in 1 .. Len(B) : B[i].seq # mine[s]
  BY <1>0 DEF Untouched, Buffered
<1>i. /\ mine[s] \in Buffered'
      /\ Buffered' \subseteq Buffered \cup {mine[s]}
      /\ Buffered \subseteq Buffered' \cup evicted'
      /\ evicted \subseteq evicted'
      /\ evicted' \subseteq evicted \cup Buffered
  <2>1. Len(outgoingBuffer') \in 1 .. Len(outgoingBuffer')
    BY <1>e, <1>f
  <2>2. mine[s] \in Buffered'
    BY <1>f, <1>n, <2>1 DEF Buffered
  <2>3. Buffered' \subseteq Buffered \cup {mine[s]}
    <3>1. ASSUME NEW i \in 1 .. Len(outgoingBuffer')
          PROVE  outgoingBuffer'[i].seq \in Buffered \cup {mine[s]}
      <4>1. CASE outgoingBuffer'[i] = new
        BY <1>n, <4>1
      <4>2. CASE i + d \in 1 .. Len(B) /\ outgoingBuffer'[i] = B[i + d]
        BY <4>2 DEF Buffered
      <4>. QED
        BY <1>g, <4>1, <4>2
    <3>. QED
      BY <3>1 DEF Buffered
  <2>4. \A i \in 1 .. Len(B) : B[i].seq \in Buffered' \cup evicted'
    <3> SUFFICES ASSUME NEW i \in 1 .. Len(B) PROVE B[i].seq \in Buffered' \cup evicted'
      OBVIOUS
    <3>1. CASE i - d >= 1
      <4>1. i - d \in 1 .. Len(outgoingBuffer') /\ outgoingBuffer'[i - d] = B[i]
        BY <1>e, <1>f, <3>1
      <4>. QED
        BY <4>1 DEF Buffered
    <3>2. CASE d = 1 /\ i = 1
      BY <1>f, <3>2
    <3>. QED
      BY <1>f, <3>1, <3>2
  <2>5. evicted \subseteq evicted' /\ evicted' \subseteq evicted \cup Buffered
    BY <1>e, <1>f DEF Buffered
  <2>. QED
    BY <2>2, <2>3, <2>4, <2>5 DEF Buffered
<1>b. \A k \in Seqs : k # mine[s] /\ Untouched(k) => Untouched(k)'
  BY <1>0, <1>i DEF Untouched
<1>1. TypeOK'
  <2>1. pc' \in [Senders -> {"idle", "assigned", "pended", "buffered"}]
    BY <1>0
  <2>2. evicted' \subseteq Seqs
    BY SMTT(60), <1>e, <1>i DEF Buffered
  <2>. QED
    BY <1>0, <1>f, <2>1, <2>2 DEF AddToOutgoingBuffer
<1>2. OwnerInv'
  <2>1. \A t \in Senders :
          pc'[t] \in {"assigned", "pended"} =>
            t # s /\ pc'[t] = pc[t] /\ mine[t] # mine[s] /\ mine[t] \in Seqs
    BY <1>0 DEF OwnerInv
  <2>2. \A m \in Seqs : m >= sendSeqNum => m # mine[s]
    BY <1>0, SeqsFacts
  <2>3. \A t \in Senders : pc'[t] # "idle" => pc[t] # "idle"
    BY <1>0
  <2>. QED
    BY <1>0, <1>b, <2>1, <2>2, <2>3 DEF OwnerInv
<1>3. LocalInv'
  <2>1. ASSUME rpc # "idle", NEW i \in 1 .. Len(outgoingBuffer'),
               outgoingBuffer'[i].seq = rmsg.seq
        PROVE  i = 1 /\ outgoingBuffer'[i].attempt = rmsg.attempt
    <3>1. rmsg.seq # mine[s]
      BY <1>0, <2>1 DEF Untouched
    <3>2. i + d \in 1 .. Len(B) /\ outgoingBuffer'[i] = B[i + d]
      BY <1>g, <1>n, <2>1, <3>1
    <3>3. i + d = 1 /\ B[i + d].attempt = rmsg.attempt
      BY <2>1, <3>2 DEF LocalInv
    <3>. QED
      BY <1>f, <2>1, <3>2, <3>3
  <2>. QED
    BY <1>0, <2>1 DEF LocalInv
<1>4. BufferInv'
  <2>1. ASSUME NEW i \in 1 .. Len(outgoingBuffer'), NEW j \in 1 .. Len(outgoingBuffer'), i # j
        PROVE  outgoingBuffer'[i].seq # outgoingBuffer'[j].seq
    <3>1. CASE i + d \in 1 .. Len(B) /\ outgoingBuffer'[i] = B[i + d]
               /\ j + d \in 1 .. Len(B) /\ outgoingBuffer'[j] = B[j + d]
      <4>1. i + d # j + d
        BY <1>f, <2>1
      <4>. QED
        BY <3>1, <4>1 DEF BufferInv
    <3>2. CASE i + d \in 1 .. Len(B) /\ outgoingBuffer'[i] = B[i + d] /\ outgoingBuffer'[j] = new
      BY <1>h, <1>n, <3>2
    <3>3. CASE j + d \in 1 .. Len(B) /\ outgoingBuffer'[j] = B[j + d] /\ outgoingBuffer'[i] = new
      BY <1>h, <1>n, <3>3
    <3>. QED
      BY <1>g, <2>1, <3>1, <3>2, <3>3
  <2>2. ASSUME NEW m \in pendingMessages
        PROVE  m \in Buffered' \cup evicted' \/ \E t \in Senders : pc'[t] = "pended" /\ mine[t] = m
    BY <1>0, <1>i DEF BufferInv
  <2>3. AckedIsForgotten'
    BY <1>0, <1>i DEF BufferInv, AckedIsForgotten
  <2>. QED
    BY <1>0, <2>1, <2>2, <2>3 DEF BufferInv
<1>5. CountInv'
  <2>1. ToWrite' = ToWrite \cup {mine[s]}
    BY <1>0 DEF ToWrite
  <2>2. \A q \in Seqs : /\ q # mine[s] => Owed(q)' = Owed(q)
                       /\ Owed(q)' \in {0, 1}
                       /\ Uncounted(q)' = Uncounted(q) /\ written'[q] = written[q]
                       /\ Owed(q) \in Nat /\ Uncounted(q) \in Nat /\ written[q] \in Nat
    BY <1>0, <2>1 DEF Owed, Uncounted
  <2>3. written[mine[s]] = 0
    BY <1>0 DEF Untouched
  <2>4. ASSUME NEW i \in 1 .. Len(outgoingBuffer'), NEW q \in Seqs, q = outgoingBuffer'[i].seq
        PROVE  written'[q] + Owed(q)' <= 1 + outgoingBuffer'[i].attempt + Uncounted(q)'
    <3>1. CASE i + d \in 1 .. Len(B) /\ outgoingBuffer'[i] = B[i + d]
      <4>1. q # mine[s]
        BY <1>h, <2>4, <3>1
      <4>2. written[q] + Owed(q) <= 1 + B[i + d].attempt + Uncounted(q)
        BY <2>4, <3>1 DEF CountInv
      <4>. QED
        BY <2>2, <3>1, <4>1, <4>2
    <3>2. CASE outgoingBuffer'[i] = new
      <4>1. q = mine[s] /\ outgoingBuffer'[i].attempt = 0
        BY <1>n, <2>4, <3>2
      <4>2. written'[q] = 0 /\ Owed(q)' \in {0, 1} /\ Uncounted(q)' \in Nat
        BY <2>2, <2>3, <4>1
      <4>. QED
        BY SMTT(60), <4>1, <4>2
    <3>. QED
      BY <1>g, <3>1, <3>2
  <2>5. rpc = "resend" => rmsg.seq \in Seqs /\ rmsg.seq # mine[s]
    BY <1>0 DEF LocalInv, Entry, Untouched
  <2>6. \A m \in Seqs : written'[m] + Owed(m)' <= MaxAttempt + 1
    <3> SUFFICES ASSUME NEW m \in Seqs PROVE written'[m] + Owed(m)' <= MaxAttempt + 1
      OBVIOUS
    <3>1. CASE m = mine[s]
      <4>1. written'[m] = 0 /\ Owed(m)' \in {0, 1} /\ MaxAttempt \in Nat
        BY <2>2, <2>3, <3>1
      <4>. QED
        BY ONLY <4>1
    <3>2. CASE m # mine[s]
      BY <2>2, <3>2 DEF CountInv
    <3>. QED
      BY <3>1, <3>2
  <2>7. \A i \in 1 .. Len(outgoingBuffer') : outgoingBuffer'[i].seq \in Seqs
    BY <1>0, <1>e, <1>g, <1>n
  <2>. QED
    BY <1>0, <2>2, <2>4, <2>5, <2>6, <2>7 DEF CountInv
<1>. QED
  BY <1>1, <1>2, <1>3, <1>4, <1>5 DEF IndInv

\* Removing the acknowledged entry preserves the invariant.
LEMMA ProcessAckBufferInv ==
    ASSUME IndInv, ProcessAckBuffer
    PROVE  IndInv'
<1> USE SendAssumption DEF SendAssumption, IndInv, TypeOK, senderVars, resendVars, ackVars, netVars
<1> DEFINE B == outgoingBuffer
<1>0. /\ UNCHANGED <<sendSeqNum, pc, mine, pendingMessages, rpc, rmsg, wsOpen, ctxDone, toAgent,
                     acks, drops, agentGot, written, evicted>>
      /\ apc = "remove" /\ apc' = "idle" /\ amsg' = None
      /\ amsg \in Seqs /\ amsg \notin pendingMessages /\ None \notin Seqs
  BY SeqsFacts DEF ProcessAckBuffer, LocalInv
<1>e. /\ B \in Seq(Entry) /\ Len(B) \in Nat
      /\ \A i \in 1 .. Len(B) : B[i] \in Entry /\ B[i].seq \in Seqs /\ B[i].attempt \in Nat
  BY EntryFacts
\* Every entry of the new buffer is an old one, at its place or one further
\* back, and none of them is the acknowledged one.
<1>f. /\ outgoingBuffer' \in Seq(Entry)
      /\ \A i \in 1 .. Len(outgoingBuffer') :
           \E k \in 1 .. Len(B) :
             outgoingBuffer'[i] = B[k] /\ k >= i /\ B[k].seq # amsg
      /\ \A k \in 1 .. Len(B) : B[k].seq # amsg =>
           \E i \in 1 .. Len(outgoingBuffer') : outgoingBuffer'[i] = B[k]
      /\ \A i, j \in 1 .. Len(outgoingBuffer') :
           i # j => outgoingBuffer'[i].seq # outgoingBuffer'[j].seq
  <2>1. CASE amsg \notin Buffered /\ UNCHANGED outgoingBuffer
    <3>1. \A k \in 1 .. Len(B) : B[k].seq # amsg
      BY <2>1 DEF Buffered
    <3>. QED
      BY <1>e, <2>1, <3>1 DEF BufferInv
  <2>2. CASE \E p \in 1 .. Len(B) :
               /\ B[p].seq = amsg
               /\ outgoingBuffer' = Without(B, p)
    <3> PICK p \in 1 .. Len(B) :
               /\ B[p].seq = amsg
               /\ outgoingBuffer' = Without(B, p)
      BY <2>2
    <3> DEFINE at(i) == IF i < p THEN i ELSE i + 1
    <3>1. \A i \in 1 .. Len(B) - 1 : at(i) \in 1 .. Len(B) /\ at(i) >= i /\ at(i) # p
      BY <1>e
    <3>2. outgoingBuffer' = [i \in 1 .. Len(B) - 1 |-> B[at(i)]]
      BY <1>e DEF Without
    <3>3. \A i, j \in 1 .. Len(B) - 1 : i # j => at(i) # at(j)
      BY <1>e
    <3>4. \A k \in 1 .. Len(B) : k # p => \E i \in 1 .. Len(B) - 1 : at(i) = k
      <4> SUFFICES ASSUME NEW k \in 1 .. Len(B), k # p
                   PROVE  \E i \in 1 .. Len(B) - 1 : at(i) = k
        OBVIOUS
      <4>1. CASE k < p
        <5>1. k \in 1 .. Len(B) - 1 /\ at(k) = k
          BY <1>e, <4>1
        <5>. QED
          BY <5>1
      <4>2. CASE k > p
        <5>1. k - 1 \in 1 .. Len(B) - 1 /\ at(k - 1) = k
          BY <1>e, <4>2
        <5>. QED
          BY <5>1
      <4>. QED
        BY <1>e, <4>1, <4>2
    <3> HIDE DEF at
    <3>5. outgoingBuffer' \in Seq(Entry) /\ Len(outgoingBuffer') = Len(B) - 1
      <4>1. Len(B) - 1 \in Nat
        BY <1>e
      <4>2. outgoingBuffer' \in [1 .. Len(B) - 1 -> Entry]
        BY <1>e, <3>1, <3>2
      <4>3. ASSUME NEW n \in Nat, NEW f \in [1 .. n -> Entry]
            PROVE  f \in Seq(Entry) /\ Len(f) = n
        OBVIOUS
      <4>. QED
        BY <4>1, <4>2, <4>3
    <3>6. \A i \in 1 .. Len(outgoingBuffer') : outgoingBuffer'[i] = B[at(i)]
      BY <3>2, <3>5
    <3>7. \A i \in 1 .. Len(outgoingBuffer') :
            at(i) \in 1 .. Len(B) /\ at(i) >= i /\ B[at(i)].seq # amsg
      BY <3>1, <3>5 DEF BufferInv
    <3>8. \A i, j \in 1 .. Len(outgoingBuffer') :
            i # j => outgoingBuffer'[i].seq # outgoingBuffer'[j].seq
      BY SMTT(60), <3>1, <3>3, <3>5, <3>6 DEF BufferInv
    <3>9. \A k \in 1 .. Len(B) : B[k].seq # amsg =>
            \E i \in 1 .. Len(outgoingBuffer') : outgoingBuffer'[i] = B[k]
      <4> SUFFICES ASSUME NEW k \in 1 .. Len(B), B[k].seq # amsg
                   PROVE  \E i \in 1 .. Len(outgoingBuffer') : outgoingBuffer'[i] = B[k]
        OBVIOUS
      <4>1. k # p
        OBVIOUS
      <4> PICK i \in 1 .. Len(B) - 1 : at(i) = k
        BY <3>4, <4>1
      <4>2. i \in 1 .. Len(outgoingBuffer') /\ outgoingBuffer'[i] = B[k]
        BY <3>5, <3>6
      <4>. QED
        BY <4>2
    <3>. QED
      BY <3>5, <3>6, <3>7, <3>8, <3>9
  <2>. QED
    BY <2>1, <2>2 DEF ProcessAckBuffer
<1>i. Buffered' = Buffered \ {amsg}
  <2>1. \A i \in 1 .. Len(outgoingBuffer') : outgoingBuffer'[i].seq \in Buffered \ {amsg}
    BY <1>f DEF Buffered
  <2>2. \A k \in 1 .. Len(B) : B[k].seq # amsg => B[k].seq \in Buffered'
    BY <1>f DEF Buffered
  <2>3. Buffered' \subseteq Buffered \ {amsg}
    BY ONLY <2>1 DEF Buffered
  <2>4. Buffered \ {amsg} \subseteq Buffered'
    BY ONLY <2>2 DEF Buffered
  <2>. QED
    BY ONLY <2>3, <2>4
<1>b. \A k \in Seqs : Untouched(k) => Untouched(k)'
  BY <1>0, <1>i DEF Untouched
<1>1. TypeOK'
  BY <1>0, <1>f
<1>2. OwnerInv'
  BY <1>0, <1>b DEF OwnerInv
<1>3. LocalInv'
  <2>1. ASSUME rpc # "idle", NEW i \in 1 .. Len(outgoingBuffer'),
               outgoingBuffer'[i].seq = rmsg.seq
        PROVE  i = 1 /\ outgoingBuffer'[i].attempt = rmsg.attempt
    <3> PICK k \in 1 .. Len(B) : outgoingBuffer'[i] = B[k] /\ k >= i
      BY <1>f
    <3>1. k = 1 /\ B[k].attempt = rmsg.attempt
      BY <2>1 DEF LocalInv
    <3>. QED
      BY <3>1
  <2>. QED
    BY <1>0, <2>1 DEF LocalInv
<1>4. BufferInv'
  <2>1. \A m \in pendingMessages : m # amsg
    BY <1>0
  <2>2. AckedIsForgotten'
    BY <1>0, <1>i DEF BufferInv, AckedIsForgotten
  <2>. QED
    BY <1>0, <1>f, <1>i, <2>1, <2>2 DEF BufferInv
<1>5. CountInv'
  <2>1. \A m : Uncounted(m)' = Uncounted(m) /\ Owed(m)' = Owed(m)
    BY <1>0 DEF Uncounted, Owed, ToWrite
  <2>2. ASSUME NEW i \in 1 .. Len(outgoingBuffer')
        PROVE  LET e == outgoingBuffer'[i]
               IN  written[e.seq] + Owed(e.seq) <= 1 + e.attempt + Uncounted(e.seq)
    <3> PICK k \in 1 .. Len(B) : outgoingBuffer'[i] = B[k]
      BY <1>f
    <3>. QED
      BY DEF CountInv
  <2>. QED
    BY <1>0, <2>1, <2>2 DEF CountInv
<1>. QED
  BY <1>1, <1>2, <1>3, <1>4, <1>5 DEF IndInv

-----------------------------------------------------------------------------

\* Every step preserves the inductive invariant.
LEMMA NextInv == IndInv /\ [Next]_vars => IndInv'
<1> SUFFICES ASSUME IndInv, [Next]_vars PROVE IndInv'
  OBVIOUS
<1>1. ASSUME NEW s \in Senders, Sender(s) PROVE IndInv'
  BY <1>1, AssignSeqNumInv, TrackPendingInv, AddToOutgoingBufferInv, FirstSendInv DEF Sender
<1>2. CASE Receiver
  BY <1>2, ProcessAckPendingInv, ProcessAckBufferInv DEF Receiver
<1>3. CASE Scheduler
  BY <1>3, CheckFrontInv, ResendInv, ResendUpdateInv DEF Scheduler
<1>4. CASE Close
  BY <1>4, CloseInv
<1>5. CASE WsFail
  BY <1>5, WsFailInv
<1>6. CASE Network
  BY <1>6, AgentReceiveInv, LoseInv DEF Network
<1>7. CASE UNCHANGED vars
  <2>1. Buffered' = Buffered /\ ToWrite' = ToWrite
    BY <1>7 DEF vars, Buffered, ToWrite
  <2>2. \A m \in Seqs : Untouched(m)' <=> Untouched(m)
    BY <1>7, <2>1 DEF vars, Untouched
  <2>3. TypeOK'
    BY <1>7 DEF vars, IndInv, TypeOK
  <2>4. OwnerInv'
    BY <1>7, <2>2 DEF vars, IndInv, OwnerInv
  <2>5. LocalInv'
    BY <1>7 DEF vars, IndInv, LocalInv
  <2>6. BufferInv'
    BY <1>7, <2>1 DEF vars, IndInv, BufferInv, AckedIsForgotten
  <2>7. CountInv'
    BY <1>7, <2>1 DEF vars, IndInv, CountInv, Owed, Uncounted
  <2>. QED
    BY <2>3, <2>4, <2>5, <2>6, <2>7 DEF IndInv
<1>. QED
  BY <1>1, <1>2, <1>3, <1>4, <1>5, <1>6, <1>7 DEF Next

\* The inductive invariant holds in every reachable state.
THEOREM Invariance == Spec => []IndInv
BY InitInv, NextInv, PTL DEF Spec

\* Every variable keeps its type, whatever the number of senders.
THEOREM TypeCorrect == Spec => []TypeOK
<1>1. IndInv => TypeOK
  BY DEF IndInv
<1>. QED
  BY <1>1, Invariance, PTL

\* A written message without an acknowledgement is in the outgoing buffer or
\* was evicted from it, and a resend that races with the acknowledgement never
\* brings the acknowledged entry back, for every capacity and number of senders.
THEOREM Retained == Spec => []BufferIsPending
<1>1. IndInv => UnackedIsBuffered
  BY DEF IndInv, BufferInv, UnackedIsBuffered, OwnerInv, Untouched, TypeOK
<1>2. IndInv => AckedIsForgotten
  BY DEF IndInv, BufferInv
<1>3. IndInv => BufferIsPending
  BY <1>1, <1>2 DEF BufferIsPending
<1>. QED
  BY <1>3, Invariance, PTL

\* No message is written more than ResendMaxAttempt + 1 times.
THEOREM Bounded == Spec => []BoundedResends
<1>1. IndInv => BoundedResends
  <2> SUFFICES ASSUME IndInv, NEW m \in Seqs PROVE written[m] <= MaxAttempt + 1
    BY DEF BoundedResends
  <2>1. written[m] \in Nat /\ Owed(m) \in {0, 1} /\ MaxAttempt \in Nat
    BY SmallFacts, SendAssumption DEF SendAssumption, IndInv, TypeOK
  <2>2. written[m] + Owed(m) <= MaxAttempt + 1
    BY DEF IndInv, CountInv
  <2>. QED
    BY ONLY <2>1, <2>2
<1>. QED
  BY <1>1, Invariance, PTL

=============================================================================
