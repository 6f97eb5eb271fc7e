-------------------------- MODULE AgentTunnelProofs --------------------------
(* Proofs about the VM tunnel, for any number of connections and chunks and  *)
(* any buffer sizes, while clients close, Dials are cancelled and the link   *)
(* breaks or wedges.                                                         *)
EXTENDS AgentTunnel, SequenceTheorems, TLAPS

-----------------------------------------------------------------------------
(* What is said of the frames that one direction of the link buffers.        *)

Has(q, t, i) == \E k \in 1 .. Len(q) : q[k].type = t /\ q[k].id = i

HasChunk(q, i, c) == \E k \in 1 .. Len(q) : q[k].type = "data" /\ q[k].id = i /\ q[k].chunk = c

\* The data frames of i carry chunks from lo to hi, in increasing order.
Window(q, i, lo, hi) ==
    /\ \A k \in 1 .. Len(q) : q[k].type = "data" /\ q[k].id = i => q[k].chunk \in lo .. hi
    /\ \A j, k \in 1 .. Len(q) :
        /\ q[j].type = "data" /\ q[j].id = i /\ q[k].type = "data" /\ q[k].id = i /\ j < k
        => q[j].chunk < q[k].chunk

\* i has one frame of type t, and none of the types in later precedes it.
First(q, i, t, later) ==
    \A j, k \in 1 .. Len(q) :
        q[j].type = t /\ q[j].id = i /\ q[k].type \in later \cup {t} /\ q[k].id = i => j <= k

-----------------------------------------------------------------------------
(* The inductive invariant.                                                  *)

HostFrames ==
    [type : {"connect", "close"}, id : Ids, chunk : {0}]
    \cup [type : {"data"}, id : Ids, chunk : Nat]
    \cup [type : {"ping", "shutdown"}, id : {0}, chunk : {0}]

AgentFrames ==
    [type : {"ack", "close", "error"}, id : Ids, chunk : {0}]
    \cup [type : {"data"}, id : Ids, chunk : Nat]
    \cup [type : {"pong"}, id : {0}, chunk : {0}]

LinkType ==
    /\ link \in {"up", "wedged", "down"}
    /\ hostOut \in Seq(HostFrames) /\ Len(hostOut) <= LinkCap
    /\ agentOut \in Seq(AgentFrames) /\ Len(agentOut) <= LinkCap

MuxType ==
    /\ nextConnID \in 0 .. MaxDials /\ pending \subseteq Ids
    /\ resp \in [Ids -> {"none", "conn", "err"}]
    /\ dpc \in [Ids -> {"none", "send", "wait", "open", "failed"}]
    /\ conns \subseteq Ids
    /\ mconn \in [Ids -> {"none", "open", "closed"}]
    /\ readBuf \in [Ids -> Seq(Nat)] /\ \A i \in Ids : Len(readBuf[i]) <= BufCap
    /\ got \in [Ids -> Seq(Nat)]
    /\ rd \in [Ids -> {"idle", "block", "eof", "timeout"}]
    /\ wr \in [Ids -> {"idle", "send"}] /\ wrote \in [Ids -> 0 .. MaxWrites]
    /\ \A i \in Ids : wr[i] = "send" => wrote[i] < MaxWrites
    /\ cl \in [Ids -> {"no", "send", "done"}]
    /\ rl \in {"read", "register", "respond", "refuse", "close", "deliver",
               "dead_pending", "dead_conns", "dead_cancel", "exit"}
    /\ rl \in {"register", "respond", "refuse", "close", "deliver"} => rmsg.id \in Ids
    /\ rl = "deliver" => rmsg.chunk \in Nat
    /\ pl \in {"tick", "await", "dead_pending", "dead_conns", "dead_cancel", "exit"}
    /\ pong \in BOOLEAN /\ muxCtx \in BOOLEAN
    /\ stop \in {"no", "shutdown", "closed"}

AgentType ==
    /\ connections \subseteq Ids
    /\ apc \in [Ids -> {"none", "dial", "ack", "read", "send", "close", "exit"}]
    /\ target \in [Ids -> {"none", "open", "closed"}]
    /\ sentChunks \in [Ids -> 0 .. MaxData]
    /\ gotChunks \in [Ids -> Seq(Nat)]
    /\ agentCtx \in BOOLEAN

TypeInv == LinkType /\ MuxType /\ AgentType

Handles(steps, i) == rl \in steps /\ rmsg.id = i

\* How far the Dial of i is: one connect request, one dial in the VM, one ack,
\* one MuxConn, in that order.
StageInv(i) ==
    /\ dpc[i] # "none" <=> i <= nextConnID
    /\ dpc[i] \in {"none", "send"} => apc[i] = "none" /\ ~Has(hostOut, "connect", i)
    /\ First(hostOut, i, "connect", {})
    /\ Has(hostOut, "connect", i) => apc[i] = "none"
    /\ apc[i] \in {"none", "dial"} => target[i] = "none"
    /\ apc[i] = "ack" => target[i] = "open"
    /\ apc[i] \in {"read", "send", "close"} => target[i] # "none"
    /\ apc[i] \in {"none", "dial", "ack"} =>
        /\ sentChunks[i] = 0 /\ mconn[i] = "none" /\ ~Handles({"register", "close"}, i)
        /\ ~Has(agentOut, "ack", i) /\ ~Has(agentOut, "data", i) /\ ~Has(agentOut, "close", i)
    /\ apc[i] = "send" => sentChunks[i] > 0
    /\ First(agentOut, i, "ack", {"data", "close"})
    /\ Has(agentOut, "ack", i) => mconn[i] = "none" /\ ~Handles({"register"}, i) /\ target[i] # "none"
    /\ Handles({"register"}, i) => mconn[i] = "none" /\ target[i] # "none"
    /\ Handles({"respond", "deliver"}, i) \/ resp[i] = "conn" \/ dpc[i] = "open" => mconn[i] # "none"
    /\ mconn[i] # "none" => target[i] # "none"
    /\ i \in conns <=> mconn[i] = "open"
    /\ target[i] = "open" => i \in connections
    /\ wr[i] = "send" \/ wrote[i] > 0 \/ cl[i] # "no" => dpc[i] = "open"
    /\ cl[i] # "no" \/ Has(hostOut, "close", i) => mconn[i] = "closed"
    /\ Has(agentOut, "error", i) \/ Handles({"refuse"}, i) => apc[i] = "exit" /\ target[i] = "none"
    /\ muxCtx => link = "down"

\* The chunks of the client: those that the target received, then those on
\* the link; none is missing as long as the target may receive more.
UpInv(i) ==
    LET n == Len(gotChunks[i])
    IN  /\ \A k \in 1 .. n : gotChunks[i][k] = k
        /\ n <= wrote[i]
        /\ Window(hostOut, i, n + 1, wrote[i])
        /\ link # "down" /\ target[i] # "closed" => \A c \in n + 1 .. wrote[i] : HasChunk(hostOut, i, c)

\* The host has registered the connection or is going to.
Registered(i) == mconn[i] = "open" \/ Handles({"register"}, i) \/ Has(agentOut, "ack", i)

\* The chunks of the target that are read but not on the link yet ...
Relayed(i) == IF apc[i] = "send" THEN sentChunks[i] - 1 ELSE sentChunks[i]

\* ... and those that left it: read by the client, in its buffer, in the hands
\* of the read loop.
Buffered(i) == Len(got[i]) + Len(readBuf[i])
Arrived(i)  == Buffered(i) + (IF Handles({"deliver"}, i) THEN 1 ELSE 0)

\* The chunks of the target, likewise.
DownInv(i) ==
    /\ \A k \in 1 .. Len(got[i]) : got[i][k] = k
    /\ \A k \in 1 .. Len(readBuf[i]) : readBuf[i][k] = Len(got[i]) + k
    /\ Handles({"deliver"}, i) => rmsg.chunk = Arrived(i)
    /\ Arrived(i) <= Relayed(i)
    /\ Window(agentOut, i, Arrived(i) + 1, Relayed(i))
    /\ link # "down" /\ Registered(i) =>
        \A c \in Arrived(i) + 1 .. Relayed(i) : HasChunk(agentOut, i, c)

\* The close of a connection follows its ack, and is not lost before it reaches
\* the MuxConn.
CloseInv(i) ==
    /\ Handles({"close"}, i) /\ target[i] # "none" => ~Has(agentOut, "ack", i)
    /\ link # "down" /\ target[i] = "closed" /\ Registered(i) =>
        Has(agentOut, "close", i) \/ Handles({"close"}, i)

StreamInv == \A i \in Ids : StageInv(i) /\ UpInv(i) /\ DownInv(i) /\ CloseInv(i)

-----------------------------------------------------------------------------
(* The same, after a frame is put on the link or taken from it.              *)

LEMMA EmptyQueue ==
  ASSUME NEW i, NEW lo, NEW hi, NEW t, NEW later
  PROVE  /\ ~Has(<< >>, t, i) /\ First(<< >>, i, t, later)
         /\ Window(<< >>, i, lo, hi)
  BY DEF Has, First, Window

LEMMA AppendQueue ==
  ASSUME NEW S, NEW q \in Seq(S), NEW m \in S
  PROVE  LET r == Append(q, m)
         IN  /\ r \in Seq(S) /\ Len(r) = Len(q) + 1
             /\ \A k \in 1 .. Len(r) : r[k] = IF k <= Len(q) THEN q[k] ELSE m
             /\ \A k \in 1 .. Len(q) : k \in 1 .. Len(r) /\ r[k] = q[k]
             /\ Len(r) \in 1 .. Len(r) /\ r[Len(r)] = m
  BY AppendProperties

\* What HostWrite and AgentWrite do to the frames of i.
LEMMA AppendFrame ==
  ASSUME NEW S, NEW q \in Seq(S), NEW m \in S, NEW i
  PROVE  LET r == Append(q, m)
             IsData == m.type = "data" /\ m.id = i
         IN  /\ \A t : Has(r, t, i) <=> Has(q, t, i) \/ (m.type = t /\ m.id = i)
             /\ \A c : HasChunk(q, i, c) \/ (IsData /\ m.chunk = c) => HasChunk(r, i, c)
             /\ \A lo, hi : Window(q, i, lo, hi) /\ ~IsData => Window(r, i, lo, hi)
             /\ \A lo, hi \in Nat : Window(q, i, lo, hi) /\ IsData /\ m.chunk = hi + 1 /\ lo <= hi + 1
                    => Window(r, i, lo, hi + 1)
             /\ \A t, later :
                    First(q, i, t, later)
                      /\ (m.type = t /\ m.id = i => \A u \in later \cup {t} : ~Has(q, u, i))
                    => First(r, i, t, later)
<1> DEFINE r == Append(q, m)
           IsData == m.type = "data" /\ m.id = i
<1>1. /\ Len(q) \in Nat /\ Len(r) = Len(q) + 1
      /\ \A k \in 1 .. Len(r) : r[k] = IF k <= Len(q) THEN q[k] ELSE m
      /\ \A k \in 1 .. Len(q) : k \in 1 .. Len(r) /\ r[k] = q[k]
      /\ Len(r) \in 1 .. Len(r) /\ r[Len(r)] = m
  BY AppendQueue
<1> HIDE DEF r
<1>2. ASSUME NEW t PROVE Has(r, t, i) <=> Has(q, t, i) \/ (m.type = t /\ m.id = i)
  BY <1>1 DEF Has
<1>3. ASSUME NEW c, HasChunk(q, i, c) \/ (IsData /\ m.chunk = c) PROVE HasChunk(r, i, c)
  BY <1>1, <1>3 DEF HasChunk
<1>4. ASSUME NEW lo, NEW hi, Window(q, i, lo, hi), ~IsData PROVE Window(r, i, lo, hi)
  BY <1>1, <1>4 DEF Window
<1>5. ASSUME NEW lo \in Nat, NEW hi \in Nat, Window(q, i, lo, hi), IsData, m.chunk = hi + 1, lo <= hi + 1
      PROVE  Window(r, i, lo, hi + 1)
  <2>1. ASSUME NEW k \in 1 .. Len(q), q[k].type = "data", q[k].id = i PROVE q[k].chunk \in lo .. hi
    BY <1>5, <2>1 DEF Window
  <2>2. ASSUME NEW k \in 1 .. Len(r), r[k].type = "data", r[k].id = i
        PROVE  r[k].chunk \in lo .. hi + 1 /\ (k <= Len(q) => r[k].chunk < hi + 1)
    <3>1. CASE k <= Len(q)
      <4>1. k \in 1 .. Len(q) /\ r[k] = q[k]
        BY <1>1, <3>1
      <4>2. r[k].chunk \in lo .. hi
        BY <2>1, <2>2, <4>1
      <4> QED
        BY <4>2
    <3>2. CASE ~(k <= Len(q))
      BY <1>1, <1>5, <3>2
    <3> QED
      BY <3>1, <3>2
  <2>3. ASSUME NEW j \in 1 .. Len(r), NEW k \in 1 .. Len(r), r[j].type = "data", r[j].id = i,
               r[k].type = "data", r[k].id = i, j < k
        PROVE  r[j].chunk < r[k].chunk
    <3>1. j \in 1 .. Len(q) /\ r[j] = q[j] /\ j <= Len(q)
      BY <1>1, <2>3
    <3>2. CASE k <= Len(q)
      <4>1. k \in 1 .. Len(q) /\ r[k] = q[k]
        BY <1>1, <3>2
      <4> QED
        BY <1>5, <2>3, <3>1, <4>1 DEF Window
    <3>3. CASE ~(k <= Len(q))
      <4>1. r[k] = m
        BY <1>1, <3>3
      <4> QED
        BY <1>5, <2>2, <2>3, <3>1, <4>1
    <3> QED
      BY <3>2, <3>3
  <2> QED
    BY <2>2, <2>3 DEF Window
<1>6. ASSUME NEW t, NEW later, First(q, i, t, later),
             m.type = t /\ m.id = i => \A u \in later \cup {t} : ~Has(q, u, i)
      PROVE  First(r, i, t, later)
  <2> SUFFICES ASSUME NEW j \in 1 .. Len(r), NEW k \in 1 .. Len(r), r[j].type = t, r[j].id = i,
                      r[k].type \in later \cup {t}, r[k].id = i, k < j
               PROVE  FALSE
    BY <1>1 DEF First
  <2>1. k \in 1 .. Len(q) /\ r[k] = q[k]
    BY <1>1
  <2>2. CASE j <= Len(q)
    BY <1>1, <1>6, <2>1, <2>2 DEF First
  <2>3. CASE j > Len(q)
    BY <1>1, <1>6, <2>1, <2>3 DEF Has
  <2> QED
    BY <1>1, <2>2, <2>3
<1> QED
  BY <1>2, <1>3, <1>4, <1>5, <1>6 DEF r

\* What ReadLoopReceive and the agent's Run do to the frames of i.
LEMMA TailFrame ==
  ASSUME NEW S, NEW q \in Seq(S), q # << >>, NEW i
  PROVE  LET r == Tail(q)
             m == Head(q)
             IsData == m.type = "data" /\ m.id = i
         IN  /\ r \in Seq(S) /\ m \in S /\ Len(r) = Len(q) - 1
             /\ \A t : Has(q, t, i) <=> Has(r, t, i) \/ (m.type = t /\ m.id = i)
             /\ \A c : HasChunk(q, i, c) => HasChunk(r, i, c) \/ (IsData /\ m.chunk = c)
             /\ \A lo, hi : Window(q, i, lo, hi) => Window(r, i, lo, hi)
             /\ \A lo, hi \in Nat : Window(q, i, lo, hi) /\ IsData =>
                    /\ m.chunk \in lo .. hi /\ Window(r, i, m.chunk + 1, hi)
                    /\ HasChunk(q, i, lo) => m.chunk = lo
             /\ \A t, later : First(q, i, t, later) =>
                    /\ First(r, i, t, later)
                    /\ m.type \in later \cup {t} /\ m.id = i => ~Has(r, t, i)
<1> DEFINE r == Tail(q)
           m == Head(q)
           IsData == m.type = "data" /\ m.id = i
<1>1. /\ Len(q) \in Nat /\ Len(q) > 0 /\ r \in Seq(S) /\ m \in S /\ Len(r) = Len(q) - 1
      /\ m = q[1] /\ \A k \in 1 .. Len(r) : k + 1 \in 1 .. Len(q) /\ r[k] = q[k + 1]
  BY HeadTailProperties
<1>a. ASSUME NEW k \in 1 .. Len(q) PROVE k = 1 \/ (k - 1 \in 1 .. Len(r) /\ r[k - 1] = q[k])
  BY <1>1
<1> HIDE DEF r, m
<1>2. ASSUME NEW t PROVE Has(q, t, i) <=> Has(r, t, i) \/ (m.type = t /\ m.id = i)
  <2>1. ASSUME Has(q, t, i) PROVE Has(r, t, i) \/ (m.type = t /\ m.id = i)
    <3>1. PICK k \in 1 .. Len(q) : q[k].type = t /\ q[k].id = i
      BY <2>1 DEF Has
    <3> QED
      BY <1>1, <1>a, <3>1 DEF Has
  <2>2. ASSUME Has(r, t, i) PROVE Has(q, t, i)
    <3>1. PICK k \in 1 .. Len(r) : r[k].type = t /\ r[k].id = i
      BY <2>2 DEF Has
    <3>2. k + 1 \in 1 .. Len(q) /\ q[k + 1] = r[k]
      BY <1>1
    <3> QED
      BY <3>1, <3>2 DEF Has
  <2>3. ASSUME m.type = t /\ m.id = i PROVE Has(q, t, i)
    <3>1. 1 \in 1 .. Len(q) /\ q[1] = m
      BY <1>1
    <3> QED
      BY <2>3, <3>1 DEF Has
  <2> QED
    BY <2>1, <2>2, <2>3
<1>3. ASSUME NEW c, HasChunk(q, i, c) PROVE HasChunk(r, i, c) \/ (IsData /\ m.chunk = c)
  BY <1>1, <1>a, <1>3 DEF HasChunk
<1>4. ASSUME NEW lo, NEW hi, Window(q, i, lo, hi) PROVE Window(r, i, lo, hi)
  <2>1. ASSUME NEW k \in 1 .. Len(r), r[k].type = "data", r[k].id = i PROVE r[k].chunk \in lo .. hi
    <3>1. k + 1 \in 1 .. Len(q) /\ q[k + 1] = r[k]
      BY <1>1
    <3> QED
      BY <1>4, <2>1, <3>1 DEF Window
  <2>2. ASSUME NEW j \in 1 .. Len(r), NEW k \in 1 .. Len(r), r[j].type = "data", r[j].id = i,
               r[k].type = "data", r[k].id = i, j < k
        PROVE  r[j].chunk < r[k].chunk
    <3>1. /\ j + 1 \in 1 .. Len(q) /\ q[j + 1] = r[j] /\ k + 1 \in 1 .. Len(q) /\ q[k + 1] = r[k]
          /\ j + 1 < k + 1
      BY <1>1, <2>2
    <3> QED
      BY <1>4, <2>2, <3>1 DEF Window
  <2> QED
    BY <2>1, <2>2 DEF Window
<1>5. ASSUME NEW lo \in Nat, NEW hi \in Nat, Window(q, i, lo, hi), IsData
      PROVE  /\ m.chunk \in lo .. hi /\ Window(r, i, m.chunk + 1, hi)
             /\ HasChunk(q, i, lo) => m.chunk = lo
  <2>1. m.chunk \in lo .. hi
    BY <1>1, <1>5 DEF Window
  <2>2. ASSUME NEW k \in 1 .. Len(r), r[k].type = "data", r[k].id = i
        PROVE  r[k].chunk \in m.chunk + 1 .. hi
    <3>1. 1 \in 1 .. Len(q) /\ k + 1 \in 1 .. Len(q) /\ q[k + 1] = r[k] /\ q[1] = m /\ 1 < k + 1
      BY <1>1
    <3>2. r[k].chunk \in lo .. hi /\ m.chunk < r[k].chunk
      BY <1>5, <2>2, <3>1 DEF Window
    <3> QED
      BY <2>1, <3>2
  <2>3. ASSUME HasChunk(q, i, lo) PROVE m.chunk = lo
    <3>1. PICK k \in 1 .. Len(q) : q[k].type = "data" /\ q[k].id = i /\ q[k].chunk = lo
      BY <2>3 DEF HasChunk
    <3>2. k = 1 \/ m.chunk < lo
      BY <1>1, <1>5, <3>1 DEF Window
    <3> QED
      BY <1>1, <2>1, <3>1, <3>2
  <2> QED
    BY <1>4, <1>5, <2>1, <2>2, <2>3 DEF Window
<1>6. ASSUME NEW t, NEW later, First(q, i, t, later)
      PROVE  /\ First(r, i, t, later)
             /\ m.type \in later \cup {t} /\ m.id = i => ~Has(r, t, i)
  <2>1. ASSUME NEW j \in 1 .. Len(r), NEW k \in 1 .. Len(r), r[j].type = t, r[j].id = i,
               r[k].type \in later \cup {t}, r[k].id = i
        PROVE  j <= k
    <3>1. /\ j + 1 \in 1 .. Len(q) /\ q[j + 1] = r[j] /\ k + 1 \in 1 .. Len(q) /\ q[k + 1] = r[k]
          /\ (j + 1 <= k + 1 => j <= k)
      BY <1>1
    <3> QED
      BY <1>6, <2>1, <3>1 DEF First
  <2>2. ASSUME m.type \in later \cup {t}, m.id = i, NEW j \in 1 .. Len(r), r[j].type = t, r[j].id = i
        PROVE  FALSE
    <3>1. 1 \in 1 .. Len(q) /\ q[1] = m /\ j + 1 \in 1 .. Len(q) /\ q[j + 1] = r[j] /\ ~(j + 1 <= 1)
      BY <1>1
    <3> QED
      BY <1>6, <2>2, <3>1 DEF First
  <2> QED
    BY <2>1, <2>2 DEF First, Has
<1> QED
  BY <1>1, <1>2, <1>3, <1>4, <1>5, <1>6 DEF r, m

-----------------------------------------------------------------------------
(* Types.                                                                    *)

LEMMA HostWriteType ==
  ASSUME TypeInv, NEW m \in HostFrames, HostWrite(m)
  PROVE  hostOut' \in Seq(HostFrames) /\ Len(hostOut') <= LinkCap
  BY AppendQueue, MuxAssumption DEF TypeInv, LinkType, HostWrite

LEMMA AgentWriteType ==
  ASSUME TypeInv, NEW m \in AgentFrames, AgentWrite(m)
  PROVE  agentOut' \in Seq(AgentFrames) /\ Len(agentOut') <= LinkCap
  BY AppendQueue, MuxAssumption DEF TypeInv, LinkType, AgentWrite

LEMMA LinkDownType == LinkDown => LinkType'
  BY MuxAssumption DEF LinkDown, LinkType

LEMMA HeadType ==
  /\ TypeInv /\ hostOut # << >> =>
       Head(hostOut) \in HostFrames /\ Tail(hostOut) \in Seq(HostFrames) /\ Len(Tail(hostOut)) <= LinkCap
  /\ TypeInv /\ agentOut # << >> =>
       Head(agentOut) \in AgentFrames /\ Tail(agentOut) \in Seq(AgentFrames) /\ Len(Tail(agentOut)) <= LinkCap
  BY HeadTailProperties, LenProperties, MuxAssumption DEF TypeInv, LinkType

LEMMA TakeType ==
  ASSUME MuxType, NEW i \in Ids, Take(i)
  PROVE  /\ readBuf' \in [Ids -> Seq(Nat)] /\ got' \in [Ids -> Seq(Nat)]
         /\ \A j \in Ids : Len(readBuf'[j]) <= BufCap
<1>1. /\ Tail(readBuf[i]) \in Seq(Nat) /\ Len(Tail(readBuf[i])) = Len(readBuf[i]) - 1
      /\ Head(readBuf[i]) \in Nat /\ Len(readBuf[i]) \in Nat
  BY HeadTailProperties DEF MuxType, Take
<1>2. Append(got[i], Head(readBuf[i])) \in Seq(Nat)
  BY <1>1, AppendProperties DEF MuxType
<1> QED
  BY <1>1, <1>2, MuxAssumption DEF MuxType, Take

LEMMA FrameTypes ==
  /\ \A i \in Ids : Message("connect", i) \in HostFrames /\ Message("close", i) \in HostFrames
  /\ \A i \in Ids, k \in Nat : Data(i, k) \in HostFrames /\ Data(i, k) \in AgentFrames
  /\ \A i \in Ids, type \in {"ack", "close", "error"} : Message(type, i) \in AgentFrames
  /\ Message("ping", 0) \in HostFrames /\ Message("shutdown", 0) \in HostFrames
  /\ Message("pong", 0) \in AgentFrames
  BY DEF Message, Data, HostFrames, AgentFrames

LEMMA CountTypes == TypeInv => \A i \in Ids : wrote[i] \in Nat /\ wrote[i] + 1 \in Nat
  BY MuxAssumption DEF TypeInv, MuxType

LEMMA TypeStep == TypeInv /\ [Next]_vars => TypeInv'
<1> SUFFICES ASSUME TypeInv, [Next]_vars PROVE TypeInv'
  OBVIOUS
<1> USE MuxAssumption
    DEF TypeInv, ReadLoopStep, PingLoopStep, CloseFromRemote, FailPending, Teardown, LinkDown,
        linkVars, muxVars, agentVars, dialVars, connVars, clientVars, loopVars, ctxVars
<1>1. CASE ReadLoop /\ UNCHANGED agentVars
  <2>1. CASE ReadLoopReceive
    <3>1. LinkType' /\ Head(agentOut) \in AgentFrames
      BY <2>1, HeadType DEF ReadLoopReceive, LinkType
    <3>2. /\ Head(agentOut).type \in {"ack", "data", "error", "close"} => Head(agentOut).id \in Ids
          /\ Head(agentOut).chunk \in Nat
      BY <3>1 DEF AgentFrames
    <3>3. MuxType'
      <4>1. UNCHANGED <<dialVars, connVars, clientVars, ctxVars, pl>>
        BY <2>1 DEF ReadLoopReceive
      <4>2. /\ rl' \in {"read", "register", "respond", "refuse", "close", "deliver",
                        "dead_pending", "dead_conns", "dead_cancel", "exit"}
            /\ rl' \in {"register", "respond", "refuse", "close", "deliver"} => rmsg'.id \in Ids
            /\ rl' = "deliver" => rmsg'.chunk \in Nat
        BY <2>1, <3>2 DEF ReadLoopReceive
      <4>3. pong' \in BOOLEAN
        BY <2>1 DEF ReadLoopReceive, MuxType
      <4> QED
        BY <4>1, <4>2, <4>3 DEF MuxType
    <3> QED
      BY <1>1, <3>1, <3>3 DEF AgentType
  <2>2. CASE RegisterConn
    BY <2>2, <1>1 DEF RegisterConn, LinkType, MuxType, AgentType
  <2>3. CASE RespondConn
    BY <2>3, <1>1 DEF RespondConn, LinkType, MuxType, AgentType
  <2>4. CASE RefuseConn
    BY <2>4, <1>1 DEF RefuseConn, LinkType, MuxType, AgentType
  <2>5. CASE CloseConn
    <3>1. UNCHANGED <<linkVars, dialVars, readBuf, clientVars, ctxVars, pl, pong, agentVars>>
      BY <2>5, <1>1 DEF CloseConn
    <3>2. rl' = "read" /\ conns' \subseteq Ids /\ mconn' \in [Ids -> {"none", "open", "closed"}]
      BY <2>5 DEF CloseConn, MuxType
    <3>3. MuxType'
      BY <3>1, <3>2 DEF MuxType
    <3> QED
      BY <3>1, <3>3 DEF LinkType, AgentType
  <2>6. CASE DeliverData
    <3>1. rmsg.id \in Ids /\ rmsg.chunk \in Nat /\ readBuf[rmsg.id] \in Seq(Nat)
      BY <2>6 DEF DeliverData, MuxType
    <3>a. /\ Append(readBuf[rmsg.id], rmsg.chunk) \in Seq(Nat)
          /\ Len(Append(readBuf[rmsg.id], rmsg.chunk)) = Len(readBuf[rmsg.id]) + 1
          /\ Len(readBuf[rmsg.id]) \in Nat
      BY <3>1, AppendProperties
    <3>2. readBuf' \in [Ids -> Seq(Nat)] /\ \A i \in Ids : Len(readBuf'[i]) <= BufCap
      <4>1. CASE Len(readBuf[rmsg.id]) < BufCap /\ readBuf' = [readBuf EXCEPT ![rmsg.id] = Append(@, rmsg.chunk)]
        BY <4>1, <3>1, <3>a DEF MuxType
      <4>2. CASE UNCHANGED readBuf
        BY <4>2 DEF MuxType
      <4> QED
        BY <2>6, <4>1, <4>2 DEF DeliverData
    <3>3. MuxType'
      BY <2>6, <3>2 DEF DeliverData, MuxType
    <3> QED
      BY <2>6, <1>1, <3>3 DEF DeliverData, LinkType, AgentType
  <2>7. CASE ReadLoopFails
    BY <2>7, <1>1 DEF ReadLoopFails, LinkType, MuxType, AgentType
  <2>8. CASE ReadLoopDeclareDead
    <3>1. CASE rl = "dead_pending"
      BY <2>8, <1>1, <3>1 DEF ReadLoopDeclareDead, LinkType, MuxType, AgentType
    <3>2. CASE rl = "dead_conns"
      BY <2>8, <1>1, <3>2 DEF ReadLoopDeclareDead, LinkType, MuxType, AgentType
    <3>3. CASE rl = "dead_cancel"
      <4>1. LinkType'
        BY <2>8, <3>3, LinkDownType DEF ReadLoopDeclareDead
      <4> QED
        BY <2>8, <1>1, <3>3, <4>1 DEF ReadLoopDeclareDead, MuxType, AgentType
    <3> QED
      BY <2>8, <3>1, <3>2, <3>3 DEF ReadLoopDeclareDead
  <2> QED
    BY <1>1, <2>1, <2>2, <2>3, <2>4, <2>5, <2>6, <2>7, <2>8 DEF ReadLoop
<1>2. CASE PingLoop /\ UNCHANGED agentVars
  <2>1. CASE SendPing
    <3>1. LinkType'
      BY <2>1, <1>2, HostWriteType, FrameTypes DEF SendPing, LinkType
    <3>2. MuxType'
      BY <2>1, <1>2 DEF SendPing, MuxType
    <3> QED
      BY <2>1, <1>2, <3>1, <3>2 DEF SendPing, AgentType
  <2>2. CASE ReceivePong
    <3>1. UNCHANGED <<linkVars, dialVars, connVars, clientVars, ctxVars, rl, rmsg, agentVars>>
      BY <2>2, <1>2 DEF ReceivePong
    <3>2. pl' = "tick" /\ pong' = FALSE
      BY <2>2 DEF ReceivePong
    <3>3. MuxType'
      BY <3>1, <3>2 DEF MuxType
    <3> QED
      BY <3>1, <3>3 DEF LinkType, AgentType
  <2>3. CASE PongTimeout
    BY <2>3, <1>2 DEF PongTimeout, LinkType, MuxType, AgentType
  <2>4. CASE PingLoopStops
    BY <2>4, <1>2 DEF PingLoopStops, LinkType, MuxType, AgentType
  <2>5. CASE PingLoopDeclareDead
    <3>1. CASE pl = "dead_pending"
      BY <2>5, <1>2, <3>1 DEF PingLoopDeclareDead, LinkType, MuxType, AgentType
    <3>2. CASE pl = "dead_conns"
      BY <2>5, <1>2, <3>2 DEF PingLoopDeclareDead, LinkType, MuxType, AgentType
    <3>3. CASE pl = "dead_cancel"
      <4>1. LinkType'
        BY <2>5, <3>3, LinkDownType DEF PingLoopDeclareDead
      <4> QED
        BY <2>5, <1>2, <3>3, <4>1 DEF PingLoopDeclareDead, MuxType, AgentType
    <3> QED
      BY <2>5, <3>1, <3>2, <3>3 DEF PingLoopDeclareDead
  <2> QED
    BY <1>2, <2>1, <2>2, <2>3, <2>4, <2>5 DEF PingLoop
<1>3. ASSUME NEW j \in Ids, DialSteps(j) \/ DialCancelled(j), UNCHANGED agentVars PROVE TypeInv'
  <2>1. CASE DialSend(j)
    <3>1. LinkType'
      BY <2>1, <1>3, HostWriteType, FrameTypes DEF DialSend, LinkType
    <3>2. MuxType'
      BY <2>1, <1>3 DEF DialSend, MuxType
    <3> QED
      BY <2>1, <1>3, <3>1, <3>2 DEF DialSend, AgentType
  <2>2. CASE DialAnswered(j)
    BY <2>2, <1>3 DEF DialAnswered, LinkType, MuxType, AgentType
  <2>3. CASE DialMuxClosed(j)
    BY <2>3, <1>3 DEF DialMuxClosed, LinkType, MuxType, AgentType
  <2>4. CASE DialCancelled(j)
    BY <2>4, <1>3 DEF DialCancelled, LinkType, MuxType, AgentType
  <2> QED
    BY <1>3, <2>1, <2>2, <2>3, <2>4 DEF DialSteps
<1>4. ASSUME NEW j \in Ids, Client(j), UNCHANGED agentVars PROVE TypeInv'
  <2>1. CASE ReadBuffered(j)
    <3>1. readBuf' \in [Ids -> Seq(Nat)] /\ got' \in [Ids -> Seq(Nat)]
          /\ \A i \in Ids : Len(readBuf'[i]) <= BufCap
      BY <2>1, TakeType DEF ReadBuffered, MuxType
    <3>a. UNCHANGED <<dialVars, conns, mconn, wr, wrote, cl, loopVars, ctxVars>>
      BY <2>1 DEF ReadBuffered
    <3>b. rd' \in [Ids -> {"idle", "block", "eof", "timeout"}]
      BY <2>1 DEF ReadBuffered, MuxType
    <3>2. MuxType'
      BY <3>1, <3>a, <3>b DEF MuxType
    <3> QED
      BY <2>1, <1>4, <3>2 DEF ReadBuffered, LinkType, AgentType
  <2>2. CASE ReadBlocked(j)
    <3>1. readBuf' \in [Ids -> Seq(Nat)] /\ got' \in [Ids -> Seq(Nat)]
          /\ \A i \in Ids : Len(readBuf'[i]) <= BufCap
      BY <2>2, TakeType DEF ReadBlocked, MuxType
    <3>a. rd' \in [Ids -> {"idle", "block", "eof", "timeout"}]
      <4>1. PICK s \in {"idle", "eof", "timeout"} : rd' = [rd EXCEPT ![j] = s]
        BY <2>2 DEF ReadBlocked
      <4> QED
        BY <4>1 DEF MuxType
    <3>2. MuxType'
      <4>1. UNCHANGED <<dialVars, conns, mconn, wr, wrote, cl, loopVars, ctxVars>>
        BY <2>2 DEF ReadBlocked
      <4> QED
        BY <3>1, <3>a, <4>1 DEF MuxType
    <3> QED
      BY <2>2, <1>4, <3>2 DEF ReadBlocked, LinkType, AgentType
  <2>3. CASE ConnWrite(j)
    <3>1. LinkType'
      <4>1. Data(j, wrote[j] + 1) \in HostFrames
        BY FrameTypes DEF MuxType
      <4> QED
        BY <2>3, <4>1, HostWriteType DEF ConnWrite, LinkType
    <3>2. MuxType'
      <4>1. \A i \in Ids \ {j} : wr'[i] = wr[i] /\ wrote'[i] = wrote[i]
        BY <2>3 DEF ConnWrite, MuxType
      <4>2. /\ wr' \in [Ids -> {"idle", "send"}] /\ wrote' \in [Ids -> 0 .. MaxWrites]
            /\ wr'[j] = "send" => wrote'[j] < MaxWrites
        <5>1. CASE wr[j] = "send"
          <6>1. wr' = [wr EXCEPT ![j] = "idle"] /\ wrote' = [wrote EXCEPT ![j] = @ + 1]
            BY <2>3, <5>1 DEF ConnWrite
          <6>2. wrote[j] \in Nat /\ wrote[j] < MaxWrites
            BY <5>1 DEF MuxType
          <6> QED
            BY <6>1, <6>2 DEF MuxType
        <5>2. CASE wr[j] = "idle"
          BY <2>3, <5>2 DEF ConnWrite, MuxType
        <5> QED
          BY <5>1, <5>2 DEF MuxType
      <4> QED
        <5>1. UNCHANGED <<dialVars, connVars, rd, cl, got, loopVars, ctxVars>>
          BY <2>3 DEF ConnWrite
        <5>2. \A i \in Ids : wr'[i] = "send" => wrote'[i] < MaxWrites
          BY <4>1, <4>2 DEF MuxType
        <5> QED
          BY <4>2, <5>1, <5>2 DEF MuxType
    <3> QED
      BY <1>4, <3>1, <3>2 DEF AgentType
  <2>4. CASE ConnClose(j)
    <3>1. UNCHANGED <<linkVars, dialVars, readBuf, rd, wr, wrote, got, loopVars, ctxVars, agentVars>>
      BY <2>4, <1>4 DEF ConnClose
    <3>2. mconn' \in [Ids -> {"none", "open", "closed"}] /\ conns' \subseteq Ids
      BY <2>4 DEF ConnClose, CloseFromRemote, MuxType
    <3>3. cl' \in [Ids -> {"no", "send", "done"}]
      BY <2>4 DEF ConnClose, MuxType
    <3> QED
      BY <3>1, <3>2, <3>3 DEF LinkType, MuxType, AgentType
  <2>5. CASE SendClose(j)
    <3>1. LinkType'
      BY <2>5, <1>4, HostWriteType, FrameTypes DEF SendClose, LinkType
    <3>2. MuxType'
      BY <2>5, <1>4 DEF SendClose, MuxType
    <3> QED
      BY <2>5, <1>4, <3>1, <3>2 DEF SendClose, AgentType
  <2> QED
    BY <1>4, <2>1, <2>2, <2>3, <2>4, <2>5 DEF Client
<1>5. CASE (DialRegister \/ SendShutdown \/ MuxClose) /\ UNCHANGED agentVars
  <2>1. CASE DialRegister
    <3>1. nextConnID + 1 \in Ids /\ nextConnID + 1 \in 0 .. MaxDials
      BY <2>1 DEF DialRegister, MuxType, Ids
    <3> QED
      BY <2>1, <1>5, <3>1 DEF DialRegister, LinkType, MuxType, AgentType
  <2>2. CASE SendShutdown
    <3>1. LinkType'
      BY <2>2, <1>5, HostWriteType, FrameTypes DEF SendShutdown, LinkType
    <3>2. MuxType'
      BY <2>2, <1>5 DEF SendShutdown, MuxType
    <3> QED
      BY <2>2, <1>5, <3>1, <3>2 DEF SendShutdown, AgentType
  <2>3. CASE MuxClose
    <3>1. LinkType'
      BY <2>3, LinkDownType DEF MuxClose
    <3> QED
      BY <2>3, <1>5, <3>1 DEF MuxClose, MuxType, AgentType
  <2> QED
    BY <1>5, <2>1, <2>2, <2>3
<1>6. CASE AgentRun /\ UNCHANGED muxVars
  <2>1. CASE AgentHandleConnect
    <3>1. Head(hostOut) \in HostFrames /\ LinkType'
      BY <2>1, HeadType DEF AgentHandleConnect, NextIs, LinkType
    <3>2. AgentType'
      BY <2>1, <3>1 DEF AgentHandleConnect, AgentType
    <3> QED
      BY <1>6, <3>1, <3>2 DEF MuxType
  <2>2. CASE AgentHandleData
    <3>1. Head(hostOut) \in HostFrames /\ LinkType'
      BY <2>2, HeadType DEF AgentHandleData, NextIs, LinkType
    <3>2. Head(hostOut).id \in Ids /\ Head(hostOut).chunk \in Nat
      BY <2>2, <3>1 DEF AgentHandleData, NextIs, HostFrames
    <3>3. gotChunks' \in [Ids -> Seq(Nat)]
      BY <2>2, <3>2, AppendProperties DEF AgentHandleData, AgentType
    <3>4. AgentType'
      BY <2>2, <3>3 DEF AgentHandleData, AgentType
    <3> QED
      BY <1>6, <3>1, <3>4 DEF MuxType
  <2>3. CASE AgentHandleClose
    <3>1. Tail(hostOut) \in Seq(HostFrames) /\ Len(Tail(hostOut)) <= LinkCap /\ Head(hostOut).id \in Ids
      BY <2>3, HeadType DEF AgentHandleClose, NextIs, HostFrames
    <3>2. agentOut' \in Seq(AgentFrames) /\ Len(agentOut') <= LinkCap
      BY <2>3, <3>1, AgentWriteType, FrameTypes DEF AgentHandleClose, ConnectionClose, LinkType
    <3>3. LinkType'
      BY <2>3, <3>1, <3>2 DEF AgentHandleClose, LinkType
    <3>4. AgentType'
      BY <2>3, <3>1 DEF AgentHandleClose, ConnectionClose, AgentType
    <3> QED
      BY <1>6, <3>3, <3>4 DEF MuxType
  <2>4. CASE AgentHandlePing
    <3>1. LinkType'
      BY <2>4, HeadType, AgentWriteType, FrameTypes DEF AgentHandlePing, NextIs, LinkType
    <3> QED
      BY <2>4, <1>6, <3>1 DEF AgentHandlePing, MuxType, AgentType
  <2>5. CASE AgentHandleShutdown
    <3>1. LinkType'
      BY <2>5, HeadType DEF AgentHandleShutdown, NextIs, LinkType
    <3> QED
      BY <2>5, <1>6, <3>1 DEF AgentHandleShutdown, MuxType, AgentType
  <2> QED
    BY <1>6, <2>1, <2>2, <2>3, <2>4, <2>5 DEF AgentRun
<1>7. ASSUME NEW j \in Ids, AgentConn(j), UNCHANGED muxVars PROVE TypeInv'
  <2>1. CASE DialTarget(j)
    BY <2>1, <1>7 DEF DialTarget, LinkType, MuxType, AgentType
  <2>2. CASE DialTargetFails(j)
    <3>1. LinkType'
      BY <2>2, <1>7, AgentWriteType, FrameTypes DEF DialTargetFails, LinkType
    <3>2. AgentType'
      BY <2>2, <1>7 DEF DialTargetFails, AgentType
    <3> QED
      BY <2>2, <1>7, <3>1, <3>2 DEF DialTargetFails, MuxType
  <2>3. CASE SendAck(j)
    <3>1. LinkType'
      BY <2>3, <1>7, AgentWriteType, FrameTypes DEF SendAck, ReadOrClose, LinkType
    <3>2. AgentType'
      BY <2>3, <1>7 DEF SendAck, ReadOrClose, AgentType
    <3> QED
      BY <2>3, <1>7, <3>1, <3>2 DEF SendAck, MuxType
  <2>4. CASE ReadTarget(j)
    <3>1. UNCHANGED <<linkVars, muxVars, connections, target, gotChunks, agentCtx>>
      BY <2>4, <1>7 DEF ReadTarget
    <3>2. sentChunks' \in [Ids -> 0 .. MaxData]
      <4>1. sentChunks[j] + 1 \in 0 .. MaxData
        BY <2>4 DEF ReadTarget, AgentType
      <4> QED
        BY <2>4, <4>1 DEF ReadTarget, AgentType
    <3>3. apc' \in [Ids -> {"none", "dial", "ack", "read", "send", "close", "exit"}]
      BY <2>4 DEF ReadTarget, AgentType
    <3>4. AgentType'
      BY <3>1, <3>2, <3>3 DEF AgentType
    <3> QED
      BY <3>1, <3>4 DEF LinkType, MuxType
  <2>5. CASE ReadTargetFails(j)
    BY <2>5, <1>7 DEF ReadTargetFails, LinkType, MuxType, AgentType
  <2>6. CASE SendData(j)
    <3>1. LinkType'
      <4>1. Data(j, sentChunks[j]) \in AgentFrames
        BY FrameTypes DEF AgentType
      <4> QED
        BY <2>6, <4>1, AgentWriteType DEF SendData, LinkType
    <3>2. AgentType'
      BY <2>6 DEF SendData, ReadOrClose, AgentType
    <3> QED
      BY <1>7, <3>1, <3>2 DEF MuxType
  <2>7. CASE RelayEnds(j)
    <3>1. LinkType'
      BY <2>7, <1>7, AgentWriteType, FrameTypes DEF RelayEnds, ConnectionClose, LinkType
    <3>2. AgentType'
      BY <2>7, <1>7 DEF RelayEnds, ConnectionClose, AgentType
    <3> QED
      BY <2>7, <1>7, <3>1, <3>2 DEF RelayEnds, MuxType
  <2> QED
    BY <1>7, <2>1, <2>2, <2>3, <2>4, <2>5, <2>6, <2>7 DEF AgentConn
<1>8. CASE (Cut \/ Wedge) /\ UNCHANGED <<muxVars, agentVars>>
  <2>1. LinkType'
    BY <1>8, LinkDownType DEF Cut, Wedge, LinkType
  <2> QED
    BY <1>8, <2>1 DEF MuxType, AgentType
<1>9. CASE UNCHANGED vars
  BY <1>9 DEF vars, LinkType, MuxType, AgentType
<1> QED
  BY <1>1, <1>2, <1>3, <1>4, <1>5, <1>6, <1>7, <1>8, <1>9 DEF Next, MuxNext, AgentNext

-----------------------------------------------------------------------------
(* What the steps do to the frames of one connection.                        *)

LEMMA HostWriteFrames ==
  ASSUME TypeInv, NEW m \in HostFrames, HostWrite(m), NEW i
  PROVE  LET IsData == m.type = "data" /\ m.id = i
         IN  /\ \A t : Has(hostOut', t, i) => Has(hostOut, t, i) \/ (m.type = t /\ m.id = i)
             /\ First(hostOut, i, "connect", {}) /\ (m.type = "connect" /\ m.id = i => ~Has(hostOut, "connect", i))
                  => First(hostOut', i, "connect", {})
             /\ \A lo, hi : Window(hostOut, i, lo, hi) /\ ~IsData => Window(hostOut', i, lo, hi)
             /\ \A lo, hi \in Nat : Window(hostOut, i, lo, hi) /\ IsData /\ m.chunk = hi + 1 /\ lo <= hi + 1
                    => Window(hostOut', i, lo, hi + 1)
             /\ link # "down" => \A c : HasChunk(hostOut, i, c) \/ (IsData /\ m.chunk = c) => HasChunk(hostOut', i, c)
<1>1. CASE link = "down"
  <2>1. ASSUME NEW lo \in Nat, NEW hi \in Nat, Window(hostOut, i, lo, hi) PROVE Window(hostOut, i, lo, hi + 1)
    BY <2>1 DEF Window
  <2> QED
    BY <1>1, <2>1 DEF HostWrite
<1>2. CASE link # "down"
  <2>1. hostOut \in Seq(HostFrames) /\ hostOut' = Append(hostOut, m)
    BY <1>2 DEF HostWrite, TypeInv, LinkType
  <2>2. First(hostOut, i, "connect", {}) /\ (m.type = "connect" /\ m.id = i => ~Has(hostOut, "connect", i))
        => First(hostOut', i, "connect", {})
    <3>1. \A u \in {} \cup {"connect"} : u = "connect"
      OBVIOUS
    <3> QED
      BY <2>1, <3>1, AppendFrame
  <2>3. \A t : Has(hostOut', t, i) <=> Has(hostOut, t, i) \/ (m.type = t /\ m.id = i)
    BY <2>1, AppendFrame
  <2>4. \A c : HasChunk(hostOut, i, c) \/ (m.type = "data" /\ m.id = i /\ m.chunk = c) => HasChunk(hostOut', i, c)
    BY <2>1, AppendFrame
  <2>5. \A lo, hi : Window(hostOut, i, lo, hi) /\ ~(m.type = "data" /\ m.id = i) => Window(hostOut', i, lo, hi)
    BY <2>1, AppendFrame
  <2>6. \A lo, hi \in Nat :
            Window(hostOut, i, lo, hi) /\ m.type = "data" /\ m.id = i /\ m.chunk = hi + 1 /\ lo <= hi + 1
            => Window(hostOut', i, lo, hi + 1)
    BY <2>1, AppendFrame
  <2> QED
    BY <2>2, <2>3, <2>4, <2>5, <2>6
<1> QED
  BY <1>1, <1>2

LEMMA AgentWriteFrames ==
  ASSUME TypeInv, NEW m \in AgentFrames, AgentWrite(m), NEW i
  PROVE  LET IsData == m.type = "data" /\ m.id = i
         IN  /\ \A t : Has(agentOut', t, i) => Has(agentOut, t, i) \/ (m.type = t /\ m.id = i)
             /\ link # "down" => \A t : Has(agentOut, t, i) \/ (m.type = t /\ m.id = i) => Has(agentOut', t, i)
             /\ /\ First(agentOut, i, "ack", {"data", "close"})
                /\ m.type = "ack" /\ m.id = i =>
                     ~Has(agentOut, "ack", i) /\ ~Has(agentOut, "data", i) /\ ~Has(agentOut, "close", i)
                => First(agentOut', i, "ack", {"data", "close"})
             /\ \A lo, hi : Window(agentOut, i, lo, hi) /\ ~IsData => Window(agentOut', i, lo, hi)
             /\ \A lo, hi \in Nat : Window(agentOut, i, lo, hi) /\ IsData /\ m.chunk = hi + 1 /\ lo <= hi + 1
                    => Window(agentOut', i, lo, hi + 1)
             /\ link # "down" => \A c : HasChunk(agentOut, i, c) \/ (IsData /\ m.chunk = c) => HasChunk(agentOut', i, c)
<1>1. CASE link = "down"
  <2>1. ASSUME NEW lo \in Nat, NEW hi \in Nat, Window(agentOut, i, lo, hi) PROVE Window(agentOut, i, lo, hi + 1)
    BY <2>1 DEF Window
  <2> QED
    BY <1>1, <2>1 DEF AgentWrite
<1>2. CASE link # "down"
  <2>1. agentOut \in Seq(AgentFrames) /\ agentOut' = Append(agentOut, m)
    BY <1>2 DEF AgentWrite, TypeInv, LinkType
  <2>2. First(agentOut, i, "ack", {"data", "close"})
           /\ (m.type = "ack" /\ m.id = i => \A u \in {"data", "close"} \cup {"ack"} : ~Has(agentOut, u, i))
        => First(agentOut', i, "ack", {"data", "close"})
    BY <2>1, AppendFrame
  <2>3. \A t : Has(agentOut', t, i) <=> Has(agentOut, t, i) \/ (m.type = t /\ m.id = i)
    BY <2>1, AppendFrame
  <2>4. \A c : HasChunk(agentOut, i, c) \/ (m.type = "data" /\ m.id = i /\ m.chunk = c) => HasChunk(agentOut', i, c)
    BY <2>1, AppendFrame
  <2>5. \A lo, hi : Window(agentOut, i, lo, hi) /\ ~(m.type = "data" /\ m.id = i) => Window(agentOut', i, lo, hi)
    BY <2>1, AppendFrame
  <2>6. \A lo, hi \in Nat :
            Window(agentOut, i, lo, hi) /\ m.type = "data" /\ m.id = i /\ m.chunk = hi + 1 /\ lo <= hi + 1
            => Window(agentOut', i, lo, hi + 1)
    BY <2>1, AppendFrame
  <2> QED
    BY <2>2, <2>3, <2>4, <2>5, <2>6
<1> QED
  BY <1>1, <1>2


LEMMA HostReadFrames ==
  ASSUME TypeInv, hostOut # << >>, hostOut' = Tail(hostOut), NEW i
  PROVE  LET m == Head(hostOut)
             IsData == m.type = "data" /\ m.id = i
         IN  /\ m \in HostFrames
             /\ \A t : Has(hostOut, t, i) <=> Has(hostOut', t, i) \/ (m.type = t /\ m.id = i)
             /\ First(hostOut, i, "connect", {}) =>
                  /\ First(hostOut', i, "connect", {})
                  /\ m.type = "connect" /\ m.id = i => ~Has(hostOut', "connect", i)
             /\ \A lo, hi : Window(hostOut, i, lo, hi) => Window(hostOut', i, lo, hi)
             /\ \A lo, hi \in Nat : Window(hostOut, i, lo, hi) /\ IsData =>
                    /\ m.chunk \in lo .. hi /\ Window(hostOut', i, m.chunk + 1, hi)
                    /\ HasChunk(hostOut, i, lo) => m.chunk = lo
             /\ \A c : HasChunk(hostOut, i, c) => HasChunk(hostOut', i, c) \/ (IsData /\ m.chunk = c)
<1>1. hostOut \in Seq(HostFrames)
  BY DEF TypeInv, LinkType
<1> DEFINE m == Head(hostOut)
           IsData == m.type = "data" /\ m.id = i
<1>2. m \in HostFrames /\ \A t : Has(hostOut, t, i) <=> Has(hostOut', t, i) \/ (m.type = t /\ m.id = i)
  BY <1>1, TailFrame
<1>3. First(hostOut, i, "connect", {}) =>
        /\ First(hostOut', i, "connect", {})
        /\ m.type \in {} \cup {"connect"} /\ m.id = i => ~Has(hostOut', "connect", i)
  BY <1>1, TailFrame
<1>4. \A lo, hi : Window(hostOut, i, lo, hi) => Window(hostOut', i, lo, hi)
  BY <1>1, TailFrame
<1>5. \A lo, hi \in Nat : Window(hostOut, i, lo, hi) /\ IsData =>
        /\ m.chunk \in lo .. hi /\ Window(hostOut', i, m.chunk + 1, hi)
        /\ HasChunk(hostOut, i, lo) => m.chunk = lo
  BY <1>1, TailFrame
<1>6. \A c : HasChunk(hostOut, i, c) => HasChunk(hostOut', i, c) \/ (IsData /\ m.chunk = c)
  BY <1>1, TailFrame
<1> QED
  BY <1>2, <1>3, <1>4, <1>5, <1>6

LEMMA AgentReadFrames ==
  ASSUME TypeInv, agentOut # << >>, agentOut' = Tail(agentOut), NEW i
  PROVE  LET m == Head(agentOut)
             IsData == m.type = "data" /\ m.id = i
         IN  /\ m \in AgentFrames
             /\ \A t : Has(agentOut, t, i) <=> Has(agentOut', t, i) \/ (m.type = t /\ m.id = i)
             /\ First(agentOut, i, "ack", {"data", "close"}) =>
                  /\ First(agentOut', i, "ack", {"data", "close"})
                  /\ m.type \in {"ack", "data", "close"} /\ m.id = i => ~Has(agentOut', "ack", i)
             /\ \A lo, hi : Window(agentOut, i, lo, hi) => Window(agentOut', i, lo, hi)
             /\ \A lo, hi \in Nat : Window(agentOut, i, lo, hi) /\ IsData =>
                    /\ m.chunk \in lo .. hi /\ Window(agentOut', i, m.chunk + 1, hi)
                    /\ HasChunk(agentOut, i, lo) => m.chunk = lo
             /\ \A c : HasChunk(agentOut, i, c) => HasChunk(agentOut', i, c) \/ (IsData /\ m.chunk = c)
<1>1. agentOut \in Seq(AgentFrames)
  BY DEF TypeInv, LinkType
<1> DEFINE m == Head(agentOut)
           IsData == m.type = "data" /\ m.id = i
<1>2. m \in AgentFrames /\ \A t : Has(agentOut, t, i) <=> Has(agentOut', t, i) \/ (m.type = t /\ m.id = i)
  BY <1>1, TailFrame
<1>3. First(agentOut, i, "ack", {"data", "close"}) =>
        /\ First(agentOut', i, "ack", {"data", "close"})
        /\ m.type \in {"data", "close"} \cup {"ack"} /\ m.id = i => ~Has(agentOut', "ack", i)
  BY <1>1, TailFrame
<1>4. \A lo, hi : Window(agentOut, i, lo, hi) => Window(agentOut', i, lo, hi)
  BY <1>1, TailFrame
<1>5. \A lo, hi \in Nat : Window(agentOut, i, lo, hi) /\ IsData =>
        /\ m.chunk \in lo .. hi /\ Window(agentOut', i, m.chunk + 1, hi)
        /\ HasChunk(agentOut, i, lo) => m.chunk = lo
  BY <1>1, TailFrame
<1>6. \A c : HasChunk(agentOut, i, c) => HasChunk(agentOut', i, c) \/ (IsData /\ m.chunk = c)
  BY <1>1, TailFrame
<1> QED
  BY <1>2, <1>3, <1>4, <1>5, <1>6

LEMMA LinkDownFrames ==
  ASSUME LinkDown, NEW i
  PROVE  /\ link' = "down"
         /\ \A t : ~Has(hostOut', t, i) /\ ~Has(agentOut', t, i)
         /\ First(hostOut', i, "connect", {}) /\ First(agentOut', i, "ack", {"data", "close"})
         /\ \A lo, hi : Window(hostOut', i, lo, hi) /\ Window(agentOut', i, lo, hi)
  BY EmptyQueue DEF LinkDown

LEMMA StageStep ==
  ASSUME TypeInv, TypeInv', [Next]_vars, NEW i \in Ids, StageInv(i)
  PROVE  StageInv(i)'
<1> USE MuxAssumption
    DEF StageInv, Handles, ReadLoopStep, PingLoopStep, CloseFromRemote, FailPending, Teardown, LinkDown,
        linkVars, muxVars, agentVars, dialVars, connVars, clientVars, loopVars, ctxVars, Message, Data
<1>1. CASE ReadLoop /\ UNCHANGED agentVars
  <2>1. CASE ReadLoopReceive
    <3> DEFINE m == Head(agentOut)
    <3>1. m \in AgentFrames
      BY <2>1, AgentReadFrames DEF ReadLoopReceive
    <3>2. \A u \in {"ack", "data", "close", "error"} :
            Has(agentOut, u, i) <=> Has(agentOut', u, i) \/ (m.type = u /\ m.id = i)
      BY <2>1, AgentReadFrames DEF ReadLoopReceive
    <3>3. /\ First(agentOut', i, "ack", {"data", "close"})
          /\ m.type \in {"ack", "data", "close"} /\ m.id = i => ~Has(agentOut', "ack", i)
      BY <2>1, AgentReadFrames DEF ReadLoopReceive
    <3>4. UNCHANGED <<link, hostOut, dialVars, clientVars, connVars, ctxVars, agentVars>>
      BY <2>1, <1>1 DEF ReadLoopReceive
    <3>5. \/ m.type = "ack" /\ rl' = "register" /\ rmsg' = m
          \/ m.type = "data" /\ m.id \in conns /\ rl' = "deliver" /\ rmsg' = m
          \/ m.type = "error" /\ rl' \in {"refuse", "close"} /\ rmsg' = m
          \/ m.type = "close" /\ rl' = "close" /\ rmsg' = m
          \/ rl' = rl /\ rmsg' = rmsg
      BY <2>1 DEF ReadLoopReceive
    <3>6. rl = "read"
      BY <2>1 DEF ReadLoopReceive
    <3> HIDE DEF m
    <3> QED
      BY <3>2, <3>3, <3>4, <3>5, <3>6
  <2>2. CASE RegisterConn
    <3>1. UNCHANGED <<linkVars, dialVars, clientVars, ctxVars, agentVars>>
      BY <2>2, <1>1 DEF RegisterConn
    <3>2. rl = "register" /\ rl' = "respond" /\ rmsg' = rmsg
      BY <2>2 DEF RegisterConn
    <3>3. /\ mconn'[i] = IF i = rmsg.id THEN "open" ELSE mconn[i]
          /\ i \in conns' <=> i \in conns \/ i = rmsg.id
      BY <2>2 DEF RegisterConn, TypeInv, MuxType
    <3> QED
      BY <3>1, <3>2, <3>3
  <2>3. CASE RespondConn
    BY <2>3, <1>1 DEF RespondConn, TypeInv, LinkType, MuxType, AgentType
  <2>4. CASE RefuseConn
    BY <2>4, <1>1 DEF RefuseConn, TypeInv, LinkType, MuxType, AgentType
  <2>5. CASE CloseConn
    BY <2>5, <1>1 DEF CloseConn, TypeInv, LinkType, MuxType, AgentType
  <2>6. CASE DeliverData
    BY <2>6, <1>1 DEF DeliverData, TypeInv, LinkType, MuxType, AgentType
  <2>7. CASE ReadLoopFails
    BY <2>7, <1>1 DEF ReadLoopFails, TypeInv, LinkType, MuxType, AgentType
  <2>8. CASE ReadLoopDeclareDead
    <3>1. CASE rl = "dead_pending"
      BY <2>8, <1>1, <3>1 DEF ReadLoopDeclareDead, TypeInv, MuxType
    <3>2. CASE rl = "dead_conns"
      <4>1. mconn'[i] = (IF i \in conns THEN "closed" ELSE mconn[i]) /\ conns' = conns \ conns
        BY <2>8, <3>2 DEF ReadLoopDeclareDead
      <4> QED
        BY <2>8, <1>1, <3>2, <4>1 DEF ReadLoopDeclareDead, TypeInv, MuxType
    <3>3. CASE rl = "dead_cancel"
      <4>1. /\ LinkDown /\ UNCHANGED <<dialVars, connVars, clientVars, agentVars>>
            /\ rl' = "exit"
        BY <2>8, <1>1, <3>3 DEF ReadLoopDeclareDead
      <4> QED
        BY <4>1, LinkDownFrames
    <3> QED
      BY <2>8, <3>1, <3>2, <3>3 DEF ReadLoopDeclareDead
  <2> QED
    BY <1>1, <2>1, <2>2, <2>3, <2>4, <2>5, <2>6, <2>7, <2>8 DEF ReadLoop
<1>2. CASE PingLoop /\ UNCHANGED agentVars
  <2>1. CASE SendPing
    <3>1. Message("ping", 0) \in HostFrames
      BY FrameTypes DEF Message, Data, HostFrames, TypeInv, MuxType
    <3>2. /\ Has(hostOut', "connect", i) => Has(hostOut, "connect", i)
          /\ Has(hostOut', "close", i) => Has(hostOut, "close", i)
          /\ First(hostOut', i, "connect", {})
      BY <2>1, <3>1, HostWriteFrames DEF SendPing
    <3> QED
      BY <2>1, <1>2, <3>2 DEF SendPing, TypeInv, LinkType, MuxType, AgentType
  <2>2. CASE ReceivePong
    BY <2>2, <1>2 DEF ReceivePong, TypeInv, LinkType, MuxType, AgentType
  <2>3. CASE PongTimeout
    BY <2>3, <1>2 DEF PongTimeout, TypeInv, LinkType, MuxType, AgentType
  <2>4. CASE PingLoopStops
    BY <2>4, <1>2 DEF PingLoopStops, TypeInv, LinkType, MuxType, AgentType
  <2>5. CASE PingLoopDeclareDead
    <3>1. CASE pl = "dead_pending"
      BY <2>5, <1>2, <3>1 DEF PingLoopDeclareDead, TypeInv, MuxType
    <3>2. CASE pl = "dead_conns"
      <4>1. mconn'[i] = (IF i \in conns THEN "closed" ELSE mconn[i]) /\ conns' = conns \ conns
        BY <2>5, <3>2 DEF PingLoopDeclareDead
      <4> QED
        BY <2>5, <1>2, <3>2, <4>1 DEF PingLoopDeclareDead, TypeInv, MuxType
    <3>3. CASE pl = "dead_cancel"
      <4>1. /\ LinkDown /\ UNCHANGED <<dialVars, connVars, clientVars, agentVars>>
            /\ UNCHANGED <<rl, rmsg>>
        BY <2>5, <1>2, <3>3 DEF PingLoopDeclareDead
      <4> QED
        BY <4>1, LinkDownFrames
    <3> QED
      BY <2>5, <3>1, <3>2, <3>3 DEF PingLoopDeclareDead
  <2> QED
    BY <1>2, <2>1, <2>2, <2>3, <2>4, <2>5 DEF PingLoop
<1>3. ASSUME NEW j \in Ids, DialSteps(j) \/ DialCancelled(j), UNCHANGED agentVars PROVE StageInv(i)'
  <2>1. CASE DialSend(j)
    <3>1. Message("connect", j) \in HostFrames
      BY FrameTypes DEF Message, Data, HostFrames, TypeInv, MuxType
    <3>2. /\ Has(hostOut', "connect", i) => Has(hostOut, "connect", i) \/ j = i
          /\ Has(hostOut', "close", i) => Has(hostOut, "close", i)
          /\ (j = i => ~Has(hostOut, "connect", i)) => First(hostOut', i, "connect", {})
      BY <2>1, <3>1, HostWriteFrames DEF DialSend
    <3>3. UNCHANGED <<link, agentOut, nextConnID, resp, connVars, clientVars, loopVars, ctxVars, agentVars>>
      BY <2>1, <1>3 DEF DialSend
    <3>4. dpc[j] = "send" /\ dpc'[i] \in (IF i = j THEN {"failed", "wait"} ELSE {dpc[i]})
      BY <2>1 DEF DialSend, TypeInv, MuxType
    <3> QED
      BY <3>2, <3>3, <3>4
  <2>2. CASE DialAnswered(j)
    <3>1. UNCHANGED <<linkVars, nextConnID, connVars, clientVars, loopVars, ctxVars, agentVars>>
      BY <2>2, <1>3 DEF DialAnswered
    <3>2. dpc[j] = "wait" /\ dpc'[i] = IF i = j THEN (IF resp[i] = "conn" THEN "open" ELSE "failed") ELSE dpc[i]
      BY <2>2 DEF DialAnswered, TypeInv, MuxType
    <3>3. resp'[i] = IF i = j THEN "none" ELSE resp[i]
      BY <2>2 DEF DialAnswered, TypeInv, MuxType
    <3> QED
      BY <3>1, <3>2, <3>3
  <2>3. CASE DialMuxClosed(j)
    <3>1. UNCHANGED <<linkVars, nextConnID, connVars, clientVars, loopVars, ctxVars, agentVars>> /\ UNCHANGED resp
      BY <2>3, <1>3 DEF DialMuxClosed
    <3>2. dpc[j] = "wait" /\ dpc'[i] = IF i = j THEN "failed" ELSE dpc[i]
      BY <2>3 DEF DialMuxClosed, TypeInv, MuxType
    <3> QED
      BY <3>1, <3>2
  <2>4. CASE DialCancelled(j)
    <3>1. UNCHANGED <<linkVars, nextConnID, connVars, clientVars, loopVars, ctxVars, agentVars>> /\ UNCHANGED resp
      BY <2>4, <1>3 DEF DialCancelled
    <3>2. dpc[j] = "wait" /\ dpc'[i] = IF i = j THEN "failed" ELSE dpc[i]
      BY <2>4 DEF DialCancelled, TypeInv, MuxType
    <3> QED
      BY <3>1, <3>2
  <2> QED
    BY <1>3, <2>1, <2>2, <2>3, <2>4 DEF DialSteps
<1>4. ASSUME NEW j \in Ids, Client(j), UNCHANGED agentVars PROVE StageInv(i)'
  <2>1. CASE ReadBuffered(j)
    BY <2>1, <1>4 DEF ReadBuffered, Take, TypeInv, LinkType, MuxType, AgentType
  <2>2. CASE ReadBlocked(j)
    BY <2>2, <1>4 DEF ReadBlocked, Take, TypeInv, LinkType, MuxType, AgentType
  <2>3. CASE ConnWrite(j)
    <3>1. CASE wr[j] = "idle" /\ dpc[j] = "open" /\ wr' = [wr EXCEPT ![j] = "send"] /\ UNCHANGED <<wrote, hostOut>>
      BY <2>3, <1>4, <3>1 DEF ConnWrite, TypeInv, LinkType, MuxType, AgentType
    <3>2. CASE wr[j] = "send" /\ wr' = [wr EXCEPT ![j] = "idle"] /\ wrote' = [wrote EXCEPT ![j] = @ + 1]
               /\ HostWrite(Data(j, wrote[j] + 1))
      <4>1. Data(j, wrote[j] + 1) \in HostFrames
        BY CountTypes DEF HostFrames
      <4>2. /\ Has(hostOut', "connect", i) => Has(hostOut, "connect", i)
            /\ Has(hostOut', "close", i) => Has(hostOut, "close", i)
            /\ First(hostOut', i, "connect", {})
        BY <3>2, <4>1, HostWriteFrames
      <4>3. (i = j => dpc[i] = "open") /\ wr'[i] = (IF i = j THEN "idle" ELSE wr[i]) 
            /\ wrote'[i] = (IF i = j THEN wrote[i] + 1 ELSE wrote[i])
        <5>1. wr \in [Ids -> {"idle", "send"}] /\ wrote \in [Ids -> 0 .. MaxWrites]
          BY DEF TypeInv, MuxType
        <5>2. wr[j] = "send" => dpc[j] = "open" \/ i # j
          OBVIOUS
        <5> QED
          BY <3>2, <5>1, <5>2
      <4> QED
        BY <2>3, <1>4, <3>2, <4>2, <4>3 DEF ConnWrite
    <3> QED
      BY <2>3, <3>1, <3>2 DEF ConnWrite
  <2>4. CASE ConnClose(j)
    <3>1. /\ mconn'[i] = (IF i = j THEN "closed" ELSE mconn[i]) /\ conns' = conns \ {j}
          /\ cl'[i] # "no" => cl[i] # "no" \/ i = j
      BY <2>4 DEF ConnClose, TypeInv, MuxType
    <3>2. dpc[j] = "open"
      BY <2>4 DEF ConnClose
    <3>3. i = j => mconn[i] # "none"
      BY <3>2
    <3> QED
      BY <2>4, <1>4, <3>1, <3>2, <3>3 DEF ConnClose, TypeInv, MuxType
  <2>5. CASE SendClose(j)
    <3>1. Message("close", j) \in HostFrames
      BY DEF HostFrames
    <3>2. /\ Has(hostOut', "connect", i) => Has(hostOut, "connect", i)
          /\ Has(hostOut', "close", i) => Has(hostOut, "close", i) \/ j = i
          /\ First(hostOut', i, "connect", {})
      BY <2>5, <3>1, HostWriteFrames DEF SendClose
    <3>3. /\ cl'[i] # "no" => cl[i] # "no"
          /\ i = j => cl[i] # "no"
      BY <2>5 DEF SendClose, TypeInv, MuxType
    <3> QED
      BY <2>5, <1>4, <3>2, <3>3 DEF SendClose
  <2> QED
    BY <1>4, <2>1, <2>2, <2>3, <2>4, <2>5 DEF Client
<1>5. CASE (DialRegister \/ SendShutdown \/ MuxClose) /\ UNCHANGED agentVars
  <2>1. CASE DialRegister
    <3>1. /\ nextConnID + 1 \in Ids /\ nextConnID' = nextConnID + 1 /\ nextConnID \in Nat /\ i \in Nat
          /\ dpc' = [dpc EXCEPT ![nextConnID + 1] = "send"]
      BY <2>1 DEF DialRegister, TypeInv, MuxType, Ids
    <3>2. UNCHANGED <<linkVars, resp, connVars, clientVars, loopVars, ctxVars, agentVars>>
      BY <2>1, <1>5 DEF DialRegister
    <3>3. CASE i = nextConnID + 1
      <4>1. dpc[i] = "none" /\ dpc'[i] = "send" /\ i <= nextConnID'
        BY <3>1, <3>3 DEF TypeInv, MuxType
      <4> QED
        BY <3>2, <4>1
    <3>4. CASE i # nextConnID + 1
      <4>1. dpc'[i] = dpc[i] /\ (i <= nextConnID' <=> i <= nextConnID)
        BY <3>1, <3>4 DEF TypeInv, MuxType
      <4> QED
        BY <3>2, <4>1
    <3> QED
      BY <3>3, <3>4
  <2>2. CASE SendShutdown
    <3>1. Message("shutdown", 0) \in HostFrames
      BY FrameTypes DEF Message, Data, HostFrames, TypeInv, MuxType
    <3>2. /\ Has(hostOut', "connect", i) => Has(hostOut, "connect", i)
          /\ Has(hostOut', "close", i) => Has(hostOut, "close", i)
          /\ First(hostOut', i, "connect", {})
      BY <2>2, <3>1, HostWriteFrames DEF SendShutdown
    <3> QED
      BY <2>2, <1>5, <3>2 DEF SendShutdown, TypeInv, LinkType, MuxType, AgentType
  <2>3. CASE MuxClose
    BY <2>3, <1>5, LinkDownFrames DEF MuxClose
  <2> QED
    BY <1>5, <2>1, <2>2, <2>3
<1>6. CASE AgentRun /\ UNCHANGED muxVars
  <2>1. CASE AgentHandleConnect
    <3>1. /\ Head(hostOut) \in HostFrames /\ Head(hostOut).type = "connect" /\ Has(hostOut, "connect", Head(hostOut).id)
          /\ Has(hostOut', "connect", i) => Has(hostOut, "connect", i) /\ Head(hostOut).id # i
          /\ Has(hostOut', "close", i) => Has(hostOut, "close", i)
          /\ First(hostOut', i, "connect", {})
      BY <2>1, HostReadFrames DEF AgentHandleConnect, NextIs
    <3>2. Head(hostOut).id = i => Has(hostOut, "connect", i)
      BY <3>1
    <3>3. apc'[i] = IF Head(hostOut).id = i THEN "dial" ELSE apc[i]
      BY <2>1, <3>1 DEF AgentHandleConnect, TypeInv, AgentType, HostFrames
    <3>4. UNCHANGED <<link, agentOut, connections, target, sentChunks, muxVars>>
      BY <2>1, <1>6 DEF AgentHandleConnect
    <3> QED
      BY <3>1, <3>2, <3>3, <3>4
  <2>2. CASE AgentHandleData
    <3>1. /\ Has(hostOut', "connect", i) => Has(hostOut, "connect", i)
          /\ Has(hostOut', "close", i) => Has(hostOut, "close", i)
          /\ First(hostOut', i, "connect", {})
      BY <2>2, HostReadFrames DEF AgentHandleData, NextIs
    <3>2. UNCHANGED <<link, agentOut, connections, apc, target, sentChunks, muxVars>>
      BY <2>2, <1>6 DEF AgentHandleData
    <3> QED
      BY <3>1, <3>2
  <2>3. CASE AgentHandleClose
    <3> DEFINE h == Head(hostOut).id
    <3>1. /\ h \in Ids /\ Has(hostOut, "close", h)
          /\ Has(hostOut', "connect", i) => Has(hostOut, "connect", i)
          /\ Has(hostOut', "close", i) => Has(hostOut, "close", i)
          /\ First(hostOut', i, "connect", {})
      BY <2>3, HostReadFrames DEF AgentHandleClose, NextIs, HostFrames
    <3>2. target' = [target EXCEPT ![h] = IF target[h] = "open" /\ h \in connections THEN "closed" ELSE target[h]]
      BY <2>3 DEF AgentHandleClose, ConnectionClose, TypeInv, AgentType
    <3>3. /\ Has(agentOut', "ack", i) => Has(agentOut, "ack", i)
          /\ Has(agentOut', "data", i) => Has(agentOut, "data", i)
          /\ Has(agentOut', "error", i) => Has(agentOut, "error", i)
          /\ Has(agentOut', "close", i) => Has(agentOut, "close", i) \/ h = i
          /\ First(agentOut', i, "ack", {"data", "close"})
      <4>1. Message("close", h) \in AgentFrames
        BY <3>1, FrameTypes
      <4>2. CASE target[h] = "open" /\ h \in connections
        BY <2>3, <4>1, <4>2, AgentWriteFrames DEF AgentHandleClose, ConnectionClose
      <4> QED
        BY <2>3, <4>2 DEF AgentHandleClose, ConnectionClose
    <3> HIDE DEF h
    <3>4. connections' = connections \ {h} /\ UNCHANGED <<link, apc, sentChunks, muxVars>>
      BY <2>3, <1>6 DEF AgentHandleClose, h
    <3>5. target'[i] = IF i = h /\ target[i] = "open" /\ h \in connections THEN "closed" ELSE target[i]
      BY <3>1, <3>2 DEF TypeInv, AgentType
    <3>6. i = h => mconn[i] = "closed"
      BY <3>1
    <3> QED
      BY <3>1, <3>3, <3>4, <3>5, <3>6 DEF TypeInv, AgentType
  <2>4. CASE AgentHandlePing
    <3>1. /\ Has(hostOut', "connect", i) => Has(hostOut, "connect", i)
          /\ Has(hostOut', "close", i) => Has(hostOut, "close", i)
          /\ First(hostOut', i, "connect", {})
      BY <2>4, HostReadFrames DEF AgentHandlePing, NextIs
    <3>2. /\ Has(agentOut', "ack", i) => Has(agentOut, "ack", i)
          /\ Has(agentOut', "data", i) => Has(agentOut, "data", i)
          /\ Has(agentOut', "error", i) => Has(agentOut, "error", i)
          /\ Has(agentOut', "close", i) => Has(agentOut, "close", i)
          /\ First(agentOut', i, "ack", {"data", "close"})
      BY <2>4, FrameTypes, AgentWriteFrames DEF AgentHandlePing
    <3> QED
      BY <2>4, <1>6, <3>1, <3>2 DEF AgentHandlePing, TypeInv, LinkType, MuxType, AgentType
  <2>5. CASE AgentHandleShutdown
    <3>1. /\ Has(hostOut', "connect", i) => Has(hostOut, "connect", i)
          /\ Has(hostOut', "close", i) => Has(hostOut, "close", i)
          /\ First(hostOut', i, "connect", {})
      BY <2>5, HostReadFrames DEF AgentHandleShutdown, NextIs
    <3>2. UNCHANGED <<link, agentOut, connections, apc, target, sentChunks, muxVars>>
      BY <2>5, <1>6 DEF AgentHandleShutdown
    <3> QED
      BY <3>1, <3>2
  <2> QED
    BY <1>6, <2>1, <2>2, <2>3, <2>4, <2>5 DEF AgentRun
<1>7. ASSUME NEW j \in Ids, AgentConn(j), UNCHANGED muxVars PROVE StageInv(i)'
  <2>1. CASE DialTarget(j)
    BY <2>1, <1>7 DEF DialTarget, TypeInv, LinkType, MuxType, AgentType
  <2>2. CASE DialTargetFails(j)
    <3>1. Message("error", j) \in AgentFrames
      BY FrameTypes DEF Message, Data, AgentFrames, TypeInv, AgentType
    <3>2. /\ Has(agentOut', "ack", i) => Has(agentOut, "ack", i)
          /\ Has(agentOut', "data", i) => Has(agentOut, "data", i)
          /\ Has(agentOut', "close", i) => Has(agentOut, "close", i)
          /\ Has(agentOut', "error", i) => Has(agentOut, "error", i) \/ j = i
          /\ First(agentOut', i, "ack", {"data", "close"})
      BY <2>2, <3>1, AgentWriteFrames DEF DialTargetFails
    <3>3. UNCHANGED <<link, hostOut, connections, muxVars>> /\ UNCHANGED <<target, sentChunks>>
      BY <2>2, <1>7 DEF DialTargetFails
    <3>4. apc[j] = "dial" /\ apc'[i] = IF i = j THEN "exit" ELSE apc[i]
      BY <2>2 DEF DialTargetFails, TypeInv, AgentType
    <3> QED
      BY <3>2, <3>3, <3>4
  <2>3. CASE SendAck(j)
    <3>1. Message("ack", j) \in AgentFrames
      BY FrameTypes DEF Message, Data, AgentFrames, TypeInv, AgentType
    <3>2. /\ Has(agentOut', "ack", i) => Has(agentOut, "ack", i) \/ j = i
          /\ Has(agentOut', "data", i) => Has(agentOut, "data", i)
          /\ Has(agentOut', "close", i) => Has(agentOut, "close", i)
          /\ Has(agentOut', "error", i) => Has(agentOut, "error", i)
          /\ (j = i => ~Has(agentOut, "ack", i) /\ ~Has(agentOut, "data", i) /\ ~Has(agentOut, "close", i))
               => First(agentOut', i, "ack", {"data", "close"})
      BY <2>3, <3>1, AgentWriteFrames DEF SendAck
    <3>3. UNCHANGED <<link, hostOut, connections, muxVars>> /\ UNCHANGED sentChunks
      BY <2>3, <1>7 DEF SendAck
    <3>4. apc[j] = "ack" /\ apc'[i] \in (IF i = j THEN {"exit", "close", "read"} ELSE {apc[i]})
      BY <2>3 DEF SendAck, ReadOrClose, TypeInv, AgentType
    <3>5. target'[i] = IF i = j /\ link = "down" THEN "closed" ELSE target[i]
      BY <2>3 DEF SendAck, TypeInv, AgentType
    <3> QED
      BY <3>2, <3>3, <3>4, <3>5
  <2>4. CASE ReadTarget(j)
    <3>1. UNCHANGED <<link, hostOut, connections, muxVars>> /\ UNCHANGED <<target, agentOut>>
      BY <2>4, <1>7 DEF ReadTarget
    <3>2. apc[j] = "read" /\ apc'[i] = IF i = j THEN "send" ELSE apc[i]
      BY <2>4 DEF ReadTarget, TypeInv, AgentType
    <3>3. sentChunks'[i] = IF i = j THEN sentChunks[i] + 1 ELSE sentChunks[i]
      BY <2>4 DEF ReadTarget, TypeInv, AgentType
    <3>4. sentChunks[i] \in Nat
      BY DEF TypeInv, AgentType
    <3> QED
      BY <3>1, <3>2, <3>3, <3>4
  <2>5. CASE ReadTargetFails(j)
    BY <2>5, <1>7 DEF ReadTargetFails, TypeInv, LinkType, MuxType, AgentType
  <2>6. CASE SendData(j)
    <3>1. Data(j, sentChunks[j]) \in AgentFrames
      BY FrameTypes DEF Message, Data, AgentFrames, TypeInv, AgentType
    <3>2. /\ Has(agentOut', "ack", i) => Has(agentOut, "ack", i)
          /\ Has(agentOut', "data", i) => Has(agentOut, "data", i) \/ j = i
          /\ Has(agentOut', "close", i) => Has(agentOut, "close", i)
          /\ Has(agentOut', "error", i) => Has(agentOut, "error", i)
          /\ First(agentOut', i, "ack", {"data", "close"})
      BY <2>6, <3>1, AgentWriteFrames DEF SendData
    <3>3. UNCHANGED <<link, hostOut, connections, muxVars>> /\ UNCHANGED <<target, sentChunks>>
      BY <2>6, <1>7 DEF SendData
    <3>4. apc[j] = "send" /\ apc'[i] \in (IF i = j THEN {"close", "read"} ELSE {apc[i]})
      BY <2>6 DEF SendData, ReadOrClose, TypeInv, AgentType
    <3> QED
      BY <3>2, <3>3, <3>4
  <2>7. CASE RelayEnds(j)
    <3>1. /\ Has(agentOut', "ack", i) => Has(agentOut, "ack", i)
          /\ Has(agentOut', "data", i) => Has(agentOut, "data", i)
          /\ Has(agentOut', "error", i) => Has(agentOut, "error", i)
          /\ Has(agentOut', "close", i) => Has(agentOut, "close", i) \/ (j = i /\ target[i] = "open")
          /\ First(agentOut', i, "ack", {"data", "close"})
      <4>1. Message("close", j) \in AgentFrames
        BY FrameTypes
      <4>2. CASE target[j] = "open"
        BY <2>7, <4>1, <4>2, AgentWriteFrames DEF RelayEnds, ConnectionClose
      <4> QED
        BY <2>7, <4>2 DEF RelayEnds, ConnectionClose
    <3>2. target' = [target EXCEPT ![j] = IF target[j] = "open" THEN "closed" ELSE target[j]]
      BY <2>7 DEF RelayEnds, ConnectionClose, TypeInv, AgentType
    <3>3. UNCHANGED <<link, hostOut, connections, muxVars>> /\ UNCHANGED sentChunks
      BY <2>7, <1>7 DEF RelayEnds
    <3>4. apc[j] = "close" /\ apc'[i] = IF i = j THEN "exit" ELSE apc[i]
      BY <2>7 DEF RelayEnds, TypeInv, AgentType
    <3>5. target'[i] = IF i = j /\ target[i] = "open" THEN "closed" ELSE target[i]
      BY <3>2 DEF TypeInv, AgentType
    <3> QED
      BY <3>1, <3>3, <3>4, <3>5
  <2> QED
    BY <1>7, <2>1, <2>2, <2>3, <2>4, <2>5, <2>6, <2>7 DEF AgentConn
<1>8. CASE (Cut \/ Wedge) /\ UNCHANGED <<muxVars, agentVars>>
  <2>1. CASE link' = "down"
    BY <1>8, <2>1, LinkDownFrames DEF Cut, Wedge
  <2>2. CASE link' # "down"
    BY <1>8, <2>2 DEF Cut, Wedge, TypeInv, LinkType
  <2> QED
    BY <2>1, <2>2
<1>9. CASE UNCHANGED vars
  BY <1>9 DEF vars
<1> QED
  BY <1>1, <1>2, <1>3, <1>4, <1>5, <1>6, <1>7, <1>8, <1>9 DEF Next, MuxNext, AgentNext

-----------------------------------------------------------------------------
(* The stream from the client to the target.                                 *)

\* Steps that do not touch the chunks of i, but may end its stream.
LEMMA UpKept ==
  ASSUME NEW i \in Ids, UpInv(i), gotChunks'[i] = gotChunks[i], wrote'[i] = wrote[i],
         \A lo, hi : Window(hostOut, i, lo, hi) => Window(hostOut', i, lo, hi),
         link' # "down" /\ target'[i] # "closed" =>
            /\ link # "down" /\ target[i] # "closed"
            /\ \A c : HasChunk(hostOut, i, c) => HasChunk(hostOut', i, c)
  PROVE  UpInv(i)'
  BY DEF UpInv

LEMMA UpWrite ==
  ASSUME TypeInv, NEW m \in HostFrames, m.type # "data", HostWrite(m), NEW i \in Ids, UpInv(i),
         UNCHANGED <<link, wrote, gotChunks>>, target'[i] = target[i]
  PROVE  UpInv(i)'
<1>1. /\ \A lo, hi : Window(hostOut, i, lo, hi) => Window(hostOut', i, lo, hi)
      /\ link # "down" => \A c : HasChunk(hostOut, i, c) => HasChunk(hostOut', i, c)
  BY HostWriteFrames
<1> QED
  BY <1>1, UpKept

LEMMA UpRead ==
  ASSUME TypeInv, hostOut # << >>, hostOut' = Tail(hostOut), NEW i \in Ids, UpInv(i),
         Head(hostOut).type # "data" \/ Head(hostOut).id # i,
         link' = link, wrote'[i] = wrote[i], gotChunks'[i] = gotChunks[i],
         target'[i] \in {target[i], "closed"}
  PROVE  UpInv(i)'
<1>1. /\ \A lo, hi : Window(hostOut, i, lo, hi) => Window(hostOut', i, lo, hi)
      /\ \A c : HasChunk(hostOut, i, c) => HasChunk(hostOut', i, c)
  BY HostReadFrames
<1> QED
  BY <1>1, UpKept

LEMMA UpStep ==
  ASSUME TypeInv, TypeInv', [Next]_vars, NEW i \in Ids, StageInv(i), UpInv(i)
  PROVE  UpInv(i)'
<1> USE DEF ReadLoopStep, PingLoopStep, CloseFromRemote, FailPending, Teardown,
        linkVars, muxVars, agentVars, dialVars, connVars, clientVars, loopVars, ctxVars
<1>1. ASSUME UNCHANGED <<gotChunks, wrote>>, target'[i] = target[i], LinkDown \/ UNCHANGED <<link, hostOut>>
      PROVE  UpInv(i)'
  BY <1>1, UpKept, LinkDownFrames
<1>2. CASE ReadLoop /\ UNCHANGED agentVars
  <2>1. LinkDown \/ UNCHANGED <<link, hostOut>>
    BY <1>2 DEF ReadLoop, ReadLoopReceive, RegisterConn, RespondConn, RefuseConn, CloseConn,
                DeliverData, ReadLoopFails, ReadLoopDeclareDead
  <2>2. UNCHANGED wrote
    BY <1>2 DEF ReadLoop, ReadLoopReceive, RegisterConn, RespondConn, RefuseConn, CloseConn,
                DeliverData, ReadLoopFails, ReadLoopDeclareDead
  <2> QED
    BY <1>1, <1>2, <2>1, <2>2
<1>3. CASE PingLoop /\ UNCHANGED agentVars
  <2>1. CASE SendPing
    BY <1>3, <2>1, UpWrite, FrameTypes DEF SendPing, Message
  <2>2. CASE ~SendPing
    <3>1. UNCHANGED wrote /\ (LinkDown \/ UNCHANGED <<link, hostOut>>)
      BY <1>3, <2>2 DEF PingLoop, ReceivePong, PongTimeout, PingLoopStops, PingLoopDeclareDead
    <3> QED
      BY <1>1, <1>3, <3>1
  <2> QED
    BY <2>1, <2>2
<1>4. ASSUME NEW j \in Ids, DialSteps(j) \/ DialCancelled(j) \/ DialRegister, UNCHANGED agentVars PROVE UpInv(i)'
  <2>1. CASE DialSend(j)
    BY <1>4, <2>1, UpWrite, FrameTypes DEF DialSend, Message
  <2>2. CASE ~DialSend(j)
    <3>1. UNCHANGED <<wrote, link, hostOut>>
      BY <1>4, <2>2 DEF DialSteps, DialAnswered, DialMuxClosed, DialCancelled, DialRegister
    <3> QED
      BY <1>1, <1>4, <3>1
  <2> QED
    BY <2>1, <2>2
<1>5. ASSUME NEW j \in Ids, Client(j), UNCHANGED agentVars PROVE UpInv(i)'
  <2>1. CASE wr[j] = "send" /\ HostWrite(Data(j, wrote[j] + 1)) /\ wrote' = [wrote EXCEPT ![j] = @ + 1] /\ UNCHANGED link
    <3> DEFINE n == Len(gotChunks[i])
               m == Data(j, wrote[j] + 1)
    <3>0. n \in Nat /\ Window(hostOut, i, n + 1, wrote[i]) /\ n <= wrote[i]
      BY DEF TypeInv, AgentType, UpInv
    <3>1. /\ n \in Nat /\ wrote[i] \in Nat /\ wrote'[i] = (IF j = i THEN wrote[i] + 1 ELSE wrote[i])
          /\ Window(hostOut, i, n + 1, wrote[i]) /\ n <= wrote[i]
      <4>1. wrote \in [Ids -> 0 .. MaxWrites]
        BY DEF TypeInv, MuxType
      <4> HIDE DEF n
      <4> QED
        BY <2>1, <3>0, <4>1, CountTypes
    <3>2. m \in HostFrames /\ m.type = "data" /\ m.id = j /\ m.chunk = wrote[j] + 1
      BY CountTypes, FrameTypes DEF Data
    <3> HIDE DEF n, m
    <3>3. HostWrite(m)
      BY <2>1 DEF m
    <3>4. Window(hostOut', i, n + 1, wrote'[i])
      <4>1. CASE j = i
        <5>1. n + 1 \in Nat /\ m.chunk = wrote[i] + 1 /\ n + 1 <= wrote[i] + 1 /\ wrote'[i] = wrote[i] + 1
          BY <3>1, <3>2, <4>1
        <5> QED
          BY <3>1, <3>2, <3>3, <4>1, <5>1, HostWriteFrames
      <4>2. CASE j # i
        BY <3>1, <3>2, <3>3, <4>2, HostWriteFrames
      <4> QED
        BY <4>1, <4>2
    <3>5. link # "down" => \A c : HasChunk(hostOut, i, c) \/ (j = i /\ c = wrote[i] + 1) => HasChunk(hostOut', i, c)
      BY <3>2, <3>3, HostWriteFrames
    <3>6. \A c \in n + 1 .. wrote'[i] : c \in n + 1 .. wrote[i] \/ (j = i /\ c = wrote[i] + 1)
      BY <3>1
    <3> QED
      BY <1>5, <2>1, <3>1, <3>4, <3>5, <3>6 DEF UpInv, n
  <2>2. CASE SendClose(j)
    BY <1>5, <2>2, UpWrite, FrameTypes DEF SendClose, Message
  <2>3. CASE UNCHANGED <<wrote, link, hostOut>>
    BY <1>1, <1>5, <2>3
  <2> QED
    BY <1>5, <2>1, <2>2, <2>3 DEF Client, ReadBuffered, ReadBlocked, ConnWrite, ConnClose
<1>6. CASE SendShutdown /\ UNCHANGED agentVars
  BY <1>6, UpWrite, FrameTypes DEF SendShutdown, Message
<1>7. CASE MuxClose /\ UNCHANGED agentVars
  BY <1>1, <1>7 DEF MuxClose
<1>8. CASE AgentRun /\ UNCHANGED muxVars
  <2>1. CASE AgentHandleData /\ Head(hostOut).id = i
    <3> DEFINE n == Len(gotChunks[i])
               m == Head(hostOut)
    <3>1. /\ n \in Nat /\ wrote[i] \in Nat /\ Window(hostOut, i, n + 1, wrote[i])
          /\ gotChunks[i] \in Seq(Nat) /\ \A k \in 1 .. n : gotChunks[i][k] = k
          /\ target[i] # "closed" => \A c \in n + 1 .. wrote[i] : HasChunk(hostOut, i, c)
      BY <2>1, CountTypes DEF TypeInv, MuxType, AgentType, UpInv, AgentHandleData, NextIs
    <3>2. /\ m \in HostFrames /\ m.type = "data" /\ hostOut # << >> /\ hostOut' = Tail(hostOut) /\ link = "up"
          /\ UNCHANGED <<link, target, wrote>>
      BY <2>1, <1>8, HostReadFrames DEF AgentHandleData, NextIs
    <3>3. /\ m.chunk \in n + 1 .. wrote[i] /\ Window(hostOut', i, m.chunk + 1, wrote[i])
          /\ HasChunk(hostOut, i, n + 1) => m.chunk = n + 1
      <4>1. n + 1 \in Nat
        BY <3>1
      <4> QED
        <5>1. \A lo, hi \in Nat : Window(hostOut, i, lo, hi) =>
                /\ m.chunk \in lo .. hi /\ Window(hostOut', i, m.chunk + 1, hi)
                /\ HasChunk(hostOut, i, lo) => m.chunk = lo
          BY <2>1, <3>2, HostReadFrames
        <5> HIDE DEF n, m
        <5> QED
          BY <3>1, <4>1, <5>1
    <3>4. CASE i \in connections /\ target[i] = "open"
      <4>1. m.chunk = n + 1
        BY <3>1, <3>3, <3>4
      <4>2. gotChunks'[i] = Append(gotChunks[i], n + 1)
        BY <2>1, <3>4, <4>1 DEF AgentHandleData, TypeInv, AgentType
      <4>3. Len(gotChunks'[i]) = n + 1 /\ \A k \in 1 .. n + 1 : gotChunks'[i][k] = k
        BY <3>1, <4>2, AppendProperties
      <4>4. \A c : HasChunk(hostOut, i, c) => HasChunk(hostOut', i, c) \/ c = n + 1
        BY <3>2, <4>1, HostReadFrames
      <4>5. /\ n + 1 <= wrote[i] /\ n + 1 + 1 = n + 2
            /\ \A c \in n + 2 .. wrote[i] : c \in n + 1 .. wrote[i] /\ c # n + 1
        BY <3>1, <3>3, <4>1
      <4> HIDE DEF n
      <4>6. /\ wrote'[i] = wrote[i] /\ Window(hostOut', i, n + 1 + 1, wrote[i])
            /\ target'[i] # "closed" => \A c \in n + 1 + 1 .. wrote[i] : HasChunk(hostOut', i, c)
        BY <3>1, <3>2, <3>3, <3>4, <4>1, <4>4, <4>5
      <4> QED
        BY <4>3, <4>5, <4>6 DEF UpInv
    <3>5. CASE ~(i \in connections /\ target[i] = "open")
      <4>1. gotChunks' = gotChunks
        BY <2>1, <3>5 DEF AgentHandleData
      <4>2. target[i] # "none" => target[i] = "closed"
        BY <3>5 DEF StageInv, TypeInv, AgentType
      <4>3. target[i] = "none" => wrote[i] = 0
        BY <3>1 DEF StageInv
      <4>4. wrote[i] # 0
        BY <3>1, <3>3
      <4>5. target[i] = "closed"
        BY <4>2, <4>3, <4>4
      <4>6. \A lo, hi : Window(hostOut, i, lo, hi) => Window(hostOut', i, lo, hi)
        BY <3>2, HostReadFrames
      <4> QED
        BY <3>2, <4>1, <4>5, <4>6, UpKept
    <3> QED
      BY <3>4, <3>5
  <2>2. CASE AgentHandleData /\ Head(hostOut).id # i
    <3>1. gotChunks'[i] = gotChunks[i] /\ hostOut # << >> /\ hostOut' = Tail(hostOut) /\ UNCHANGED <<link, wrote, target>>
      BY <2>2, <1>8, HeadType DEF AgentHandleData, NextIs, TypeInv, AgentType
    <3> QED
      BY <2>2, <3>1, UpRead
  <2>3. CASE ~AgentHandleData
    <3>1. /\ hostOut # << >> /\ hostOut' = Tail(hostOut) /\ Head(hostOut).type # "data"
          /\ UNCHANGED <<link, wrote, gotChunks>>
      BY <2>3, <1>8 DEF AgentRun, AgentHandleConnect, AgentHandleClose, AgentHandlePing, AgentHandleShutdown, NextIs
    <3>2. target'[i] \in {target[i], "closed"}
      BY <2>3, <1>8 DEF AgentRun, AgentHandleConnect, AgentHandleClose, AgentHandlePing, AgentHandleShutdown,
                        ConnectionClose, TypeInv, AgentType
    <3> QED
      BY <3>1, <3>2, UpRead
  <2> QED
    BY <2>1, <2>2, <2>3
<1>9. ASSUME NEW j \in Ids, AgentConn(j), UNCHANGED muxVars PROVE UpInv(i)'
  <2>1. UNCHANGED <<link, hostOut, gotChunks, wrote>>
    BY <1>9 DEF AgentConn, DialTarget, DialTargetFails, SendAck, ReadTarget, ReadTargetFails, SendData, RelayEnds
  <2>2. target'[i] # "closed" => target[i] # "closed"
    <3>1. apc[j] = "dial" => target[j] = "none" \/ j # i
      BY DEF StageInv
    <3> QED
      BY <1>9, <3>1 DEF AgentConn, DialTarget, DialTargetFails, SendAck, ReadTarget, ReadTargetFails, SendData, RelayEnds,
                 ConnectionClose, TypeInv, AgentType
  <2> QED
    BY <2>1, <2>2, UpKept
<1>10. CASE (Cut \/ Wedge) /\ UNCHANGED <<muxVars, agentVars>>
  <2>1. CASE LinkDown
    BY <1>1, <1>10, <2>1
  <2>2. CASE ~LinkDown
    BY <1>10, <2>2, UpKept DEF Cut, Wedge
  <2> QED
    BY <2>1, <2>2
<1>11. CASE UNCHANGED vars
  BY <1>1, <1>11 DEF vars
<1> QED
  BY <1>2, <1>3, <1>4, <1>5, <1>6, <1>7, <1>8, <1>9, <1>10, <1>11 DEF Next, MuxNext, AgentNext

-----------------------------------------------------------------------------
(* The stream from the target to the client.                                 *)

LEMMA Sum == \A a, b \in Nat : a + b \in Nat /\ a <= a + b
  OBVIOUS

LEMMA AppendNext ==
  ASSUME NEW s \in Seq(Nat), NEW g \in Nat, \A k \in 1 .. Len(s) : s[k] = g + k, NEW c \in Nat, c = g + (Len(s) + 1)
  PROVE  /\ Len(Append(s, c)) = Len(s) + 1
         /\ \A k \in 1 .. Len(s) + 1 : Append(s, c)[k] = g + k
<1>1. /\ Len(s) \in Nat /\ Len(Append(s, c)) = Len(s) + 1
      /\ \A k \in 1 .. Len(s) + 1 : Append(s, c)[k] = IF k <= Len(s) THEN s[k] ELSE c
  BY AppendProperties
<1>2. ASSUME NEW k \in 1 .. Len(s) + 1 PROVE Append(s, c)[k] = g + k
  <2>1. CASE k <= Len(s)
    BY <1>1, <2>1
  <2>2. CASE k = Len(s) + 1
    BY <1>1, <2>2
  <2> QED
    BY <1>1, <2>1, <2>2
<1> QED
  BY <1>1, <1>2

LEMMA DownTypes ==
  ASSUME TypeInv, NEW i \in Ids
  PROVE  /\ Len(got[i]) \in Nat /\ Len(readBuf[i]) \in Nat /\ Buffered(i) \in Nat /\ Arrived(i) \in Nat
         /\ sentChunks[i] \in Nat
<1>1. got[i] \in Seq(Nat) /\ readBuf[i] \in Seq(Nat) /\ sentChunks[i] \in 0 .. MaxData
  BY DEF TypeInv, MuxType, AgentType
<1>2. Len(got[i]) \in Nat /\ Len(readBuf[i]) \in Nat
  BY <1>1
<1>3. Buffered(i) \in Nat
  BY <1>2, Sum DEF Buffered
<1>4. Arrived(i) \in Nat
  BY <1>3 DEF Arrived
<1> QED
  BY <1>1, <1>2, <1>3, <1>4, MuxAssumption

\* Steps that do not touch the chunks of i, but may end its stream.
LEMMA DownKept ==
  ASSUME NEW i \in Ids, DownInv(i), got'[i] = got[i], readBuf'[i] = readBuf[i],
         Handles({"deliver"}, i)' <=> Handles({"deliver"}, i),
         Handles({"deliver"}, i)' => rmsg'.chunk = rmsg.chunk,
         Relayed(i)' = Relayed(i),
         \A lo, hi : Window(agentOut, i, lo, hi) => Window(agentOut', i, lo, hi),
         link' # "down" /\ Registered(i)' =>
            /\ link # "down" /\ Registered(i)
            /\ \A c : HasChunk(agentOut, i, c) => HasChunk(agentOut', i, c)
  PROVE  DownInv(i)'
<1>1. Arrived(i)' = Arrived(i)
  BY DEF Arrived, Buffered
<1> QED
  BY <1>1 DEF DownInv

LEMMA DownWrite ==
  ASSUME TypeInv, NEW m \in AgentFrames, m.type \notin {"data", "ack"}, AgentWrite(m), NEW i \in Ids, DownInv(i),
         UNCHANGED <<link, muxVars>>, Relayed(i)' = Relayed(i)
  PROVE  DownInv(i)'
<1>1. /\ \A lo, hi : Window(agentOut, i, lo, hi) => Window(agentOut', i, lo, hi)
      /\ link # "down" => \A c : HasChunk(agentOut, i, c) => HasChunk(agentOut', i, c)
      /\ Has(agentOut', "ack", i) => Has(agentOut, "ack", i)
  BY AgentWriteFrames
<1>2. Registered(i)' => Registered(i)
  BY <1>1 DEF Registered, Handles, muxVars
<1> QED
  BY <1>1, <1>2, DownKept DEF Handles, muxVars

LEMMA DownTake ==
  ASSUME TypeInv, NEW i \in Ids, DownInv(i), Take(i),
         UNCHANGED <<link, agentOut, rl, rmsg, mconn, apc, sentChunks>>
  PROVE  DownInv(i)'
<1> DEFINE g == Len(got[i])
           b == Len(readBuf[i])
<1>1. /\ got[i] \in Seq(Nat) /\ readBuf[i] \in Seq(Nat) /\ g \in Nat /\ b \in Nat /\ b > 0
      /\ got'[i] = Append(got[i], Head(readBuf[i])) /\ readBuf'[i] = Tail(readBuf[i])
      /\ Head(readBuf[i]) \in Nat
  BY DEF Take, TypeInv, MuxType
<1>2. /\ \A k \in 1 .. g : got[i][k] = k
      /\ \A k \in 1 .. b : readBuf[i][k] = g + k
  BY DEF DownInv
<1>3. Head(readBuf[i]) = g + 1
  BY <1>1, <1>2
<1>4. Len(got'[i]) = g + 1 /\ \A k \in 1 .. g + 1 : got'[i][k] = k
  BY <1>1, <1>2, <1>3, AppendProperties
<1>5. Len(readBuf'[i]) = b - 1 /\ \A k \in 1 .. b - 1 : readBuf'[i][k] = g + 1 + k
  <2>1. Len(readBuf'[i]) = b - 1 /\ \A k \in 1 .. b - 1 : readBuf'[i][k] = readBuf[i][k + 1]
    BY <1>1, HeadTailProperties
  <2> QED
    BY <1>1, <1>2, <2>1
<1> HIDE DEF g, b
<1>6. Buffered(i)' = Buffered(i)
  <2>1. Buffered(i) = g + b
    BY DEF Buffered, g, b
  <2>2. Buffered(i)' = g + 1 + (b - 1)
    BY <1>4, <1>5 DEF Buffered
  <2> QED
    BY <1>1, <2>1, <2>2
<1>7. /\ Arrived(i)' = Arrived(i) /\ Relayed(i)' = Relayed(i)
      /\ Registered(i)' = Registered(i) /\ (Handles({"deliver"}, i)' <=> Handles({"deliver"}, i))
  BY <1>6 DEF Arrived, Relayed, Registered, Handles
<1> QED
  BY <1>4, <1>5, <1>7 DEF DownInv

LEMMA DownStep ==
  ASSUME TypeInv, TypeInv', [Next]_vars, NEW i \in Ids, StageInv(i), StageInv(i)', DownInv(i)
  PROVE  DownInv(i)'
<1> USE DEF ReadLoopStep, PingLoopStep, CloseFromRemote, FailPending, Teardown,
        linkVars, muxVars, agentVars, dialVars, connVars, clientVars, loopVars, ctxVars
<1>0. ASSUME got'[i] = got[i], readBuf'[i] = readBuf[i], Relayed(i)' = Relayed(i),
             UNCHANGED <<link, agentOut>>,
             Handles({"deliver"}, i)' <=> Handles({"deliver"}, i),
             Handles({"deliver"}, i)' => rmsg'.chunk = rmsg.chunk,
             Registered(i)' => Registered(i)
      PROVE  DownInv(i)'
  BY <1>0, DownKept
<1>1. ASSUME LinkDown, UNCHANGED <<got, readBuf>>, Relayed(i)' = Relayed(i),
             Handles({"deliver"}, i)' <=> Handles({"deliver"}, i),
             Handles({"deliver"}, i)' => rmsg'.chunk = rmsg.chunk
      PROVE  DownInv(i)'
  BY <1>1, DownKept, LinkDownFrames
<1>2. ASSUME UNCHANGED <<link, agentOut, rl, rmsg, got, readBuf>>, Relayed(i)' = Relayed(i),
             mconn'[i] = "open" => mconn[i] = "open"
      PROVE  DownInv(i)'
  BY <1>0, <1>2 DEF Registered, Handles
<1>3. CASE ReadLoop /\ UNCHANGED agentVars
  <2>0. Relayed(i)' = Relayed(i)
    BY <1>3 DEF Relayed
  <2>1. CASE ReadLoopReceive
    <3> DEFINE m == Head(agentOut)
    <3>1. /\ Has(agentOut, "ack", i) <=> Has(agentOut', "ack", i) \/ (m.type = "ack" /\ m.id = i)
          /\ \A lo, hi : Window(agentOut, i, lo, hi) => Window(agentOut', i, lo, hi)
          /\ \A c : HasChunk(agentOut, i, c) =>
                HasChunk(agentOut', i, c) \/ (m.type = "data" /\ m.id = i /\ m.chunk = c)
          /\ \A lo, hi \in Nat : Window(agentOut, i, lo, hi) /\ m.type = "data" /\ m.id = i =>
                /\ m.chunk \in lo .. hi /\ Window(agentOut', i, m.chunk + 1, hi)
                /\ HasChunk(agentOut, i, lo) => m.chunk = lo
      BY <2>1, AgentReadFrames DEF ReadLoopReceive
    <3>2. m.type \in {"ack", "data", "close"} /\ m.id = i => ~Has(agentOut', "ack", i)
      BY <2>1, AgentReadFrames DEF ReadLoopReceive, StageInv
    <3>3. UNCHANGED <<link, mconn, got, readBuf>> /\ rl = "read" /\ link = "up"
      BY <2>1, <1>3 DEF ReadLoopReceive
    <3>4. /\ rl' = "deliver" => m.type = "data" /\ m.id \in conns /\ rmsg' = m
          /\ m.type = "data" => rl' = "deliver" \/ m.id \notin conns
          /\ rl' = "register" => m.type = "ack" /\ rmsg' = m
      BY <2>1 DEF ReadLoopReceive
    <3> HIDE DEF m
    <3>5. ~Handles({"deliver"}, i) /\ ~Handles({"register"}, i)
      BY <3>3 DEF Handles
    <3>6. Registered(i)' => Registered(i)
      BY <3>1, <3>3, <3>4 DEF Registered, Handles
    <3>7. CASE m.type = "data" /\ m.id = i /\ i \in conns
      <4>1. Handles({"deliver"}, i)' /\ rmsg' = m
        BY <3>4, <3>7 DEF Handles
      <4>2. mconn[i] = "open" /\ Registered(i)
        BY <3>7 DEF StageInv, Registered
      <4> DEFINE a == Arrived(i)
                 r == Relayed(i)
      <4>3. a \in Nat /\ r \in Nat /\ a <= r /\ Window(agentOut, i, a + 1, r)
        <5>1. a \in Nat /\ sentChunks[i] \in Nat /\ a <= r /\ Window(agentOut, i, a + 1, r)
          BY DownTypes DEF DownInv
        <5>2. r \in Nat
          BY <5>1 DEF Relayed, StageInv
        <5> QED
          BY <5>1, <5>2
      <4>4. \A c \in a + 1 .. r : HasChunk(agentOut, i, c)
        BY <3>3, <4>2 DEF DownInv
      <4>5. Arrived(i)' = a + 1
        BY <3>3, <3>5, <4>1, DownTypes DEF Arrived, Buffered
      <4>6. /\ \A k \in 1 .. Len(got'[i]) : got'[i][k] = k
            /\ \A k \in 1 .. Len(readBuf'[i]) : readBuf'[i][k] = Len(got'[i]) + k
        BY <3>3 DEF DownInv
      <4>a. Relayed(i)' = r
        BY <2>0
      <4> HIDE DEF a, r
      <4>7. a + 1 \in Nat
        BY <4>3
      <4>8. m.chunk \in a + 1 .. r /\ Window(agentOut', i, m.chunk + 1, r)
        BY <3>1, <3>7, <4>3, <4>7
      <4>9. HasChunk(agentOut, i, a + 1)
        BY <4>3, <4>4, <4>8
      <4>10. m.chunk = a + 1
        BY <3>1, <3>7, <4>3, <4>7, <4>9
      <4>11. \A c \in a + 1 + 1 .. r : c \in a + 1 .. r /\ c # a + 1
        BY <4>3
      <4>12. \A c \in a + 1 + 1 .. r : HasChunk(agentOut', i, c)
        BY <3>1, <4>4, <4>10, <4>11
      <4>13. a + 1 <= r
        BY <4>3, <4>8
      <4> QED
        BY <4>1, <4>5, <4>6, <4>8, <4>10, <4>12, <4>13, <4>a DEF DownInv
    <3>8. CASE m.type = "data" /\ m.id = i /\ i \notin conns
      <4>1. ~Handles({"deliver"}, i)'
        BY <3>4, <3>8 DEF Handles
      <4>2. mconn[i] # "open"
        BY <3>8 DEF StageInv
      <4>3. ~Handles({"register"}, i)'
        BY <3>4, <3>8 DEF Handles
      <4>4. ~Registered(i)'
        BY <3>2, <3>3, <3>8, <4>2, <4>3 DEF Registered
      <4> QED
        BY <2>0, <3>1, <3>3, <3>5, <4>1, <4>4, DownKept
    <3>9. CASE ~(m.type = "data" /\ m.id = i)
      <4>1. ~Handles({"deliver"}, i)'
        BY <3>4, <3>9 DEF Handles
      <4> QED
        BY <2>0, <3>1, <3>3, <3>5, <3>6, <3>9, <4>1, DownKept
    <3> QED
      BY <3>7, <3>8, <3>9
  <2>2. CASE RegisterConn
    <3>1. UNCHANGED <<link, agentOut, got, readBuf>> /\ ~Handles({"deliver"}, i) /\ ~Handles({"deliver"}, i)'
      BY <2>2, <1>3 DEF RegisterConn, Handles
    <3>2. Registered(i)' => Registered(i)
      BY <2>2, <3>1 DEF RegisterConn, Registered, Handles, TypeInv, MuxType
    <3> QED
      BY <1>0, <2>0, <3>1, <3>2
  <2>3. CASE DeliverData /\ rmsg.id = i
    <3>1. /\ UNCHANGED <<link, agentOut, got, mconn>> /\ Handles({"deliver"}, i) /\ ~Handles({"deliver"}, i)'
          /\ ~Handles({"register"}, i)'
      BY <2>3, <1>3 DEF DeliverData, Handles
    <3> DEFINE g == Len(got[i])
               b == Len(readBuf[i])
    <3>2. /\ g \in Nat /\ b \in Nat /\ Arrived(i) = g + b + 1 /\ rmsg.chunk = g + b + 1 /\ rmsg.chunk \in Nat
          /\ readBuf[i] \in Seq(Nat) /\ \A k \in 1 .. b : readBuf[i][k] = g + k
          /\ g + b \in Nat /\ g + b < Arrived(i) /\ Buffered(i) = g + b
      <4>1. Arrived(i) = g + b + 1 /\ g \in Nat /\ b \in Nat
        BY <3>1, DownTypes DEF Arrived, Buffered
      <4>2. readBuf[i] \in Seq(Nat)
        BY DEF TypeInv, MuxType
      <4>3. rmsg.chunk = Arrived(i) /\ \A k \in 1 .. b : readBuf[i][k] = g + k
        BY <3>1 DEF DownInv
      <4>4. Buffered(i) = g + b
        BY DEF Buffered
      <4> HIDE DEF g, b
      <4> QED
        BY <4>1, <4>2, <4>3, <4>4
    <3>3. CASE readBuf' = [readBuf EXCEPT ![i] = Append(@, rmsg.chunk)]
      <4>1. readBuf'[i] = Append(readBuf[i], rmsg.chunk)
        BY <3>3 DEF TypeInv, MuxType
      <4>2. Len(readBuf'[i]) = b + 1 /\ \A k \in 1 .. b + 1 : readBuf'[i][k] = g + k
        <5>1. rmsg.chunk = g + (b + 1)
          <6> HIDE DEF g, b
          <6> QED
            BY <3>2
        <5> DEFINE s == readBuf[i]
                   c == rmsg.chunk
        <5>2. /\ s \in Seq(Nat) /\ b = Len(s) /\ g \in Nat /\ rmsg.chunk \in Nat
              /\ \A k \in 1 .. Len(s) : s[k] = g + k
          BY <3>2
        <5>3. readBuf'[i] = Append(s, c) /\ c = g + (Len(s) + 1)
          BY <4>1, <5>1
        <5> HIDE DEF s, c, g, b
        <5>4. Len(Append(s, c)) = Len(s) + 1 /\ \A k \in 1 .. Len(s) + 1 : Append(s, c)[k] = g + k
          <6>1. c \in Nat
            BY <5>2 DEF c
          <6> QED
            BY <5>2, <5>3, <6>1, AppendNext
        <5> QED
          BY <5>2, <5>3, <5>4
      <4>3. Arrived(i)' = Arrived(i)
        <5>1. Arrived(i)' = Buffered(i)' + 0
          BY <3>1 DEF Arrived
        <5>2. Buffered(i)' = g + (b + 1)
          BY <3>1, <4>2 DEF Buffered
        <5> HIDE DEF g, b
        <5> QED
          BY <3>2, <5>1, <5>2
      <4>4. Registered(i)' => Registered(i)
        BY <3>1 DEF Registered
      <4> QED
        BY <2>0, <3>1, <4>2, <4>3, <4>4 DEF DownInv
    <3>4. CASE UNCHANGED readBuf /\ (mconn[i] = "closed" \/ muxCtx)
      <4>1. link # "down" => ~Registered(i)'
        BY <3>1, <3>4 DEF Registered, StageInv
      <4>2. Arrived(i)' = g + b /\ g + b < Arrived(i)
        <5>1. Arrived(i)' = Buffered(i)' + 0
          BY <3>1 DEF Arrived
        <5>2. Buffered(i)' = g + b
          BY <3>1, <3>4 DEF Buffered
        <5> HIDE DEF g, b
        <5> QED
          BY <3>2, <5>1, <5>2
      <4>3. Arrived(i) <= Relayed(i) /\ Window(agentOut, i, Arrived(i) + 1, Relayed(i)) /\ Relayed(i) \in Int
        BY DownTypes DEF DownInv, Relayed
      <4> HIDE DEF g, b
      <4>4. g + b <= Relayed(i) /\ Window(agentOut, i, g + b + 1, Relayed(i))
        BY <3>2, <4>2, <4>3 DEF Window
      <4>5. /\ \A k \in 1 .. Len(got'[i]) : got'[i][k] = k
            /\ \A k \in 1 .. Len(readBuf'[i]) : readBuf'[i][k] = Len(got'[i]) + k
        BY <3>1, <3>4 DEF DownInv
      <4> QED
        BY <2>0, <3>1, <4>1, <4>2, <4>4, <4>5 DEF DownInv
    <3> QED
      BY <2>3, <3>3, <3>4 DEF DeliverData
  <2>4. CASE DeliverData /\ rmsg.id # i
    <3>1. /\ UNCHANGED <<link, agentOut, got, mconn>> /\ rl' = "read" /\ ~Handles({"deliver"}, i)
          /\ readBuf'[i] = readBuf[i]
      BY <2>4, <1>3 DEF DeliverData, Handles, TypeInv, MuxType
    <3>2. Registered(i)' => Registered(i)
      BY <3>1 DEF Registered, Handles
    <3> QED
      BY <1>0, <2>0, <3>1, <3>2 DEF Handles
  <2>5. CASE RespondConn \/ RefuseConn \/ CloseConn \/ ReadLoopFails
    <3>1. UNCHANGED <<link, agentOut, got, readBuf>> /\ rl # "deliver" /\ rl' \notin {"deliver", "register"}
      BY <2>5, <1>3 DEF RespondConn, RefuseConn, CloseConn, ReadLoopFails
    <3>2. mconn'[i] = "open" => mconn[i] = "open"
      BY <2>5 DEF RespondConn, RefuseConn, CloseConn, ReadLoopFails
    <3>3. Registered(i)' => Registered(i)
      BY <3>1, <3>2 DEF Registered, Handles
    <3> QED
      BY <1>0, <2>0, <3>1, <3>3 DEF Handles
  <2>6. CASE ReadLoopDeclareDead
    <3>1. /\ UNCHANGED <<got, readBuf>> /\ rl # "deliver" /\ rl' \notin {"deliver", "register"}
          /\ mconn'[i] = "open" => mconn[i] = "open"
      BY <2>6, <1>3 DEF ReadLoopDeclareDead
    <3>2. LinkDown \/ UNCHANGED <<link, agentOut>>
      BY <2>6 DEF ReadLoopDeclareDead
    <3>3. UNCHANGED agentOut => (Registered(i)' => Registered(i))
      BY <3>1 DEF Registered, Handles
    <3> QED
      BY <1>0, <1>1, <2>0, <3>1, <3>2, <3>3 DEF Handles
  <2> QED
    BY <1>3, <2>1, <2>2, <2>3, <2>4, <2>5, <2>6 DEF ReadLoop
<1>4. CASE PingLoop /\ UNCHANGED agentVars
  <2>1. UNCHANGED <<rl, rmsg, got, readBuf>> /\ (mconn'[i] = "open" => mconn[i] = "open")
    BY <1>4 DEF PingLoop, SendPing, ReceivePong, PongTimeout, PingLoopStops, PingLoopDeclareDead
  <2>2. LinkDown \/ UNCHANGED <<link, agentOut>>
    BY <1>4 DEF PingLoop, SendPing, ReceivePong, PongTimeout, PingLoopStops, PingLoopDeclareDead
  <2> QED
    BY <1>1, <1>2, <1>4, <2>1, <2>2 DEF Handles, Relayed
<1>5. ASSUME NEW j \in Ids, DialSteps(j) \/ DialCancelled(j) \/ DialRegister, UNCHANGED agentVars PROVE DownInv(i)'
  <2>1. UNCHANGED <<rl, rmsg, mconn, got, readBuf, link, agentOut>>
    BY <1>5 DEF DialSteps, DialSend, DialAnswered, DialMuxClosed, DialCancelled, DialRegister
  <2> QED
    BY <1>2, <1>5, <2>1 DEF Relayed
<1>6. ASSUME NEW j \in Ids, Client(j), UNCHANGED agentVars PROVE DownInv(i)'
  <2>1. UNCHANGED <<rl, rmsg, link, agentOut>> /\ (mconn'[i] = "open" => mconn[i] = "open")
    BY <1>6 DEF Client, ReadBuffered, ReadBlocked, ConnWrite, ConnClose, SendClose
  <2>2. CASE Take(j)
    <3>1. mconn' = mconn
      BY <1>6, <2>2 DEF Client, ReadBuffered, ReadBlocked, ConnWrite, ConnClose, SendClose, Take,
                        TypeInv, MuxType
    <3>2. CASE j = i
      BY <1>6, <2>1, <2>2, <3>1, <3>2, DownTake
    <3>3. CASE j # i
      <4>1. got'[i] = got[i] /\ readBuf'[i] = readBuf[i]
        BY <2>2, <3>3 DEF Take, TypeInv, MuxType
      <4> QED
        BY <1>0, <1>6, <2>1, <3>1, <4>1 DEF Registered, Handles, Relayed
    <3> QED
      BY <3>2, <3>3
  <2>3. CASE ~Take(j)
    <3>1. UNCHANGED <<got, readBuf>>
      BY <1>6, <2>3 DEF Client, ReadBuffered, ReadBlocked, ConnWrite, ConnClose, SendClose
    <3> QED
      BY <1>2, <1>6, <2>1, <3>1 DEF Relayed
  <2> QED
    BY <2>2, <2>3
<1>7. CASE SendShutdown /\ UNCHANGED agentVars
  BY <1>2, <1>7 DEF SendShutdown, Relayed
<1>8. CASE MuxClose /\ UNCHANGED agentVars
  BY <1>1, <1>8 DEF MuxClose, Handles, Relayed
<1>9. CASE AgentRun /\ UNCHANGED muxVars
  <2>1. Relayed(i)' = Relayed(i) /\ UNCHANGED link
    <3>1. CASE AgentHandleConnect
      <4>1. /\ Head(hostOut) \in HostFrames /\ Head(hostOut).type = "connect" /\ Has(hostOut, "connect", Head(hostOut).id)
            /\ UNCHANGED <<link, sentChunks>>
        BY <3>1, HostReadFrames DEF AgentHandleConnect, NextIs
      <4>2. Head(hostOut).id = i => apc[i] = "none"
        BY <4>1 DEF StageInv
      <4>3. apc'[i] = "send" <=> apc[i] = "send"
        BY <3>1, <4>1, <4>2 DEF AgentHandleConnect, TypeInv, AgentType
      <4> QED
        BY <4>1, <4>3 DEF Relayed
    <3>2. CASE ~AgentHandleConnect
      BY <1>9, <3>2 DEF AgentRun, AgentHandleData, AgentHandleClose, AgentHandlePing, AgentHandleShutdown, Relayed
    <3> QED
      BY <3>1, <3>2
  <2>2. CASE UNCHANGED agentOut
    BY <1>2, <1>9, <2>1, <2>2
  <2>3. CASE ~UNCHANGED agentOut
    <3>1. \E m \in AgentFrames : m.type \notin {"data", "ack"} /\ AgentWrite(m)
      <4>1. CASE AgentHandlePing
        BY <4>1, FrameTypes DEF AgentHandlePing, Message
      <4>2. CASE AgentHandleClose
        <5>1. Head(hostOut).id \in Ids
          BY <4>2, HeadType DEF AgentHandleClose, NextIs, HostFrames
        <5> QED
          BY <2>3, <4>2, <5>1, FrameTypes DEF AgentHandleClose, ConnectionClose, Message
      <4> QED
        BY <1>9, <2>3, <4>1, <4>2 DEF AgentRun, AgentHandleConnect, AgentHandleData, AgentHandleShutdown
    <3> QED
      BY <1>9, <2>1, <3>1, DownWrite
  <2> QED
    BY <2>2, <2>3
<1>10. ASSUME NEW j \in Ids, AgentConn(j), UNCHANGED muxVars PROVE DownInv(i)'
  <2>0. UNCHANGED link /\ apc \in [Ids -> {"none", "dial", "ack", "read", "send", "close", "exit"}]
    BY <1>10 DEF AgentConn, DialTarget, DialTargetFails, SendAck, ReadTarget, ReadTargetFails, SendData, RelayEnds,
                 TypeInv, AgentType
  <2>1. CASE DialTarget(j) \/ ReadTargetFails(j)
    <3>1. UNCHANGED <<agentOut, sentChunks>> /\ (apc'[i] = "send" <=> apc[i] = "send")
      BY <2>0, <2>1 DEF DialTarget, ReadTargetFails
    <3> QED
      BY <1>2, <1>10, <2>0, <3>1 DEF Relayed
  <2>2. CASE ReadTarget(j)
    <3>1. UNCHANGED agentOut /\ Relayed(i)' = Relayed(i)
      <4>1. agentOut' = agentOut /\ (i # j => apc'[i] = apc[i] /\ sentChunks'[i] = sentChunks[i])
        BY <2>0, <2>2 DEF ReadTarget, TypeInv, AgentType
      <4>2. i = j => apc[i] = "read" /\ apc'[i] = "send" /\ sentChunks'[i] = sentChunks[i] + 1 /\ sentChunks[i] \in Nat
        BY <2>0, <2>2, DownTypes DEF ReadTarget, TypeInv, AgentType
      <4> QED
        BY <4>1, <4>2 DEF Relayed
    <3> QED
      BY <1>2, <1>10, <2>0, <3>1
  <2>3. CASE DialTargetFails(j) \/ RelayEnds(j)
    <3>1. sentChunks' = sentChunks /\ (apc'[i] = "send" <=> apc[i] = "send")
      BY <2>0, <2>3 DEF DialTargetFails, RelayEnds
    <3>2. CASE UNCHANGED agentOut
      BY <1>2, <1>10, <2>0, <3>1, <3>2 DEF Relayed
    <3>3. CASE ~UNCHANGED agentOut
      <4>1. \E m \in AgentFrames : m.type \notin {"data", "ack"} /\ AgentWrite(m)
        BY <2>3, <3>3, FrameTypes DEF DialTargetFails, RelayEnds, ConnectionClose, Message
      <4> QED
        BY <1>10, <2>0, <3>1, <4>1, DownWrite DEF Relayed
    <3> QED
      BY <3>2, <3>3
  <2>4. CASE SendAck(j)
    <3>1. /\ AgentWrite(Message("ack", j)) /\ Message("ack", j) \in AgentFrames /\ apc[j] = "ack"
          /\ sentChunks' = sentChunks /\ (apc'[i] = "send" <=> apc[i] = "send")
      BY <2>0, <2>4, FrameTypes DEF SendAck, ReadOrClose
    <3>2. /\ \A lo, hi : Window(agentOut, i, lo, hi) => Window(agentOut', i, lo, hi)
          /\ link # "down" => \A c : HasChunk(agentOut, i, c) => HasChunk(agentOut', i, c)
          /\ Has(agentOut', "ack", i) => Has(agentOut, "ack", i) \/ i = j
      BY <3>1, AgentWriteFrames DEF Message
    <3>3. Relayed(i)' = Relayed(i)
      BY <3>1 DEF Relayed
    <3>4. CASE i # j
      <4>1. Registered(i)' => Registered(i)
        BY <1>10, <3>2, <3>4 DEF Registered, Handles
      <4> QED
        BY <1>10, <2>0, <3>2, <3>3, <4>1, DownKept DEF Handles
    <3>5. CASE i = j
      <4>1. Relayed(i) = 0
        BY <3>1, <3>5 DEF StageInv, Relayed
      <4>2. Arrived(i)' = Arrived(i) /\ Arrived(i) = 0
        <5>1. Arrived(i)' = Arrived(i)
          BY <1>10 DEF Arrived, Buffered, Handles
        <5> QED
          BY <4>1, <5>1, DownTypes DEF DownInv
      <4>3. Arrived(i)' + 1 .. Relayed(i)' = {}
        BY <3>3, <4>1, <4>2
      <4> QED
        BY <1>10, <3>2, <3>3, <4>2, <4>3 DEF DownInv, Handles
    <3> QED
      BY <3>4, <3>5
  <2>5. CASE SendData(j)
    <3> DEFINE m == Data(j, sentChunks[j])
    <3>1. /\ AgentWrite(m) /\ m \in AgentFrames /\ m.type = "data" /\ m.id = j /\ m.chunk = sentChunks[j]
          /\ apc[j] = "send" /\ sentChunks' = sentChunks /\ apc'[j] # "send" /\ (i # j => apc'[i] = apc[i])
      BY <2>0, <2>5, FrameTypes, MuxAssumption DEF SendData, ReadOrClose, Data, TypeInv, AgentType
    <3> HIDE DEF m
    <3>2. /\ link # "down" => \A c : HasChunk(agentOut, i, c) \/ (j = i /\ c = sentChunks[i]) => HasChunk(agentOut', i, c)
          /\ Has(agentOut', "ack", i) => Has(agentOut, "ack", i)
      BY <3>1, AgentWriteFrames
    <3>3. Registered(i)' => Registered(i)
      BY <1>10, <3>2 DEF Registered, Handles
    <3>4. CASE i # j
      <4>1. \A lo, hi : Window(agentOut, i, lo, hi) => Window(agentOut', i, lo, hi)
        BY <3>1, <3>4, AgentWriteFrames
      <4>2. Relayed(i)' = Relayed(i)
        BY <3>1, <3>4 DEF Relayed
      <4> QED
        BY <1>10, <2>0, <3>2, <3>3, <4>1, <4>2, DownKept DEF Handles
    <3>5. CASE i = j
      <4> DEFINE a == Arrived(i)
                 r == Relayed(i)
      <4>1. /\ sentChunks[i] > 0 /\ sentChunks[i] \in Nat /\ r = sentChunks[i] - 1 /\ a \in Nat
            /\ Relayed(i)' = r + 1 /\ a <= r /\ r \in Nat /\ m.chunk = r + 1
        BY <3>1, <3>5, DownTypes DEF StageInv, Relayed, DownInv
      <4>2. Arrived(i)' = a
        BY <1>10 DEF Arrived, Buffered, Handles
      <4>3. Window(agentOut, i, a + 1, r) /\ (link # "down" /\ Registered(i) => \A c \in a + 1 .. r : HasChunk(agentOut, i, c))
        BY DEF DownInv
      <4> HIDE DEF a, r
      <4>4. a + 1 \in Nat /\ a + 1 <= r + 1 /\ r + 1 = sentChunks[i]
        BY <4>1
      <4>5. Window(agentOut', i, a + 1, r + 1)
        BY <3>1, <3>5, <4>1, <4>3, <4>4, AgentWriteFrames
      <4>6. \A c \in a + 1 .. r + 1 : c \in a + 1 .. r \/ c = r + 1
        BY <4>1
      <4>7. link # "down" /\ Registered(i) => \A c \in a + 1 .. r + 1 : HasChunk(agentOut', i, c)
        BY <3>2, <3>5, <4>3, <4>4, <4>6
      <4>8. a <= r + 1
        BY <4>1
      <4>9. /\ \A k \in 1 .. Len(got'[i]) : got'[i][k] = k
            /\ \A k \in 1 .. Len(readBuf'[i]) : readBuf'[i][k] = Len(got'[i]) + k
            /\ Handles({"deliver"}, i)' => rmsg'.chunk = a
        BY <1>10 DEF DownInv, Handles, a
      <4> QED
        BY <2>0, <3>3, <4>1, <4>2, <4>5, <4>7, <4>8, <4>9 DEF DownInv
    <3> QED
      BY <3>4, <3>5
  <2> QED
    BY <1>10, <2>1, <2>2, <2>3, <2>4, <2>5 DEF AgentConn
<1>11. CASE (Cut \/ Wedge) /\ UNCHANGED <<muxVars, agentVars>>
  <2>1. CASE LinkDown
    BY <1>1, <1>11, <2>1 DEF Handles, Relayed
  <2>2. CASE ~LinkDown
    <3>1. UNCHANGED <<agentOut, muxVars, apc, sentChunks>> /\ link # "down"
      BY <1>11, <2>2 DEF Cut, Wedge
    <3> QED
      BY <3>1, DownKept DEF Registered, Handles, Relayed
  <2> QED
    BY <2>1, <2>2
<1>12. CASE UNCHANGED vars
  BY <1>2, <1>12 DEF vars, Relayed
<1> QED
  BY <1>3, <1>4, <1>5, <1>6, <1>7, <1>8, <1>9, <1>10, <1>11, <1>12 DEF Next, MuxNext, AgentNext

-----------------------------------------------------------------------------
(* The close of a connection.                                                *)

LEMMA CloseStep ==
  ASSUME TypeInv, TypeInv', [Next]_vars, NEW i \in Ids, StageInv(i), StageInv(i)', CloseInv(i)
  PROVE  CloseInv(i)'
<1> USE DEF ReadLoopStep, PingLoopStep, CloseFromRemote, FailPending, Teardown,
        linkVars, muxVars, agentVars, dialVars, connVars, clientVars, loopVars, ctxVars
\* Steps that neither open the connection nor handle a frame of its.
<1>0. ASSUME Handles({"close"}, i)' => Handles({"close"}, i), target'[i] # "none" => target[i] # "none",
             Has(agentOut', "ack", i) => Has(agentOut, "ack", i),
             link' # "down" /\ target'[i] = "closed" /\ Registered(i)' =>
                /\ link # "down" /\ target[i] = "closed" /\ Registered(i)
                /\ Has(agentOut, "close", i) => Has(agentOut', "close", i)
                /\ Handles({"close"}, i) => Handles({"close"}, i)'
      PROVE  CloseInv(i)'
  BY <1>0 DEF CloseInv
<1>1. ASSUME LinkDown, UNCHANGED target, Handles({"close"}, i)' => Handles({"close"}, i) PROVE CloseInv(i)'
  BY <1>0, <1>1, LinkDownFrames
<1>2. ASSUME UNCHANGED <<link, agentOut, rl, rmsg, target>>,
             mconn'[i] = "open" => mconn[i] = "open"
      PROVE  CloseInv(i)'
  BY <1>0, <1>2 DEF Registered, Handles
<1>3. CASE ReadLoop /\ UNCHANGED agentVars
  <2>1. CASE ReadLoopReceive
    <3> DEFINE m == Head(agentOut)
    <3>1. \A u \in {"ack", "data", "close", "error"} :
            Has(agentOut, u, i) <=> Has(agentOut', u, i) \/ (m.type = u /\ m.id = i)
      BY <2>1, AgentReadFrames DEF ReadLoopReceive
    <3>2. m.type \in {"ack", "data", "close"} /\ m.id = i => ~Has(agentOut', "ack", i)
      BY <2>1, AgentReadFrames DEF ReadLoopReceive, StageInv
    <3>3. UNCHANGED <<link, mconn, target>> /\ rl = "read"
      BY <2>1, <1>3 DEF ReadLoopReceive
    <3>4. \/ m.type = "error" /\ rl' \in {"refuse", "close"} /\ rmsg' = m
          \/ m.type = "close" /\ rl' = "close" /\ rmsg' = m
          \/ m.type = "ack" /\ rl' = "register" /\ rmsg' = m
          \/ m.type \notin {"error", "close"} /\ rl' \notin {"register", "close"}
      BY <2>1 DEF ReadLoopReceive
    <3> HIDE DEF m
    <3>5. Has(agentOut, "error", i) => target[i] = "none"
      BY DEF StageInv
    <3>6. ~Handles({"close"}, i) /\ ~Handles({"register"}, i)
      BY <3>3 DEF Handles
    <3>7. Handles({"close"}, i)' => m.id = i /\ m.type \in {"error", "close"}
      BY <3>4 DEF Handles
    <3>8. m.type = "close" /\ m.id = i => Handles({"close"}, i)'
      BY <3>4 DEF Handles
    <3>9. Registered(i)' => Registered(i)
      BY <3>1, <3>3, <3>4 DEF Registered, Handles
    <3> QED
      BY <3>1, <3>2, <3>3, <3>5, <3>6, <3>7, <3>8, <3>9 DEF CloseInv
  <2>2. CASE RegisterConn
    <3>1. UNCHANGED <<link, agentOut, target>> /\ ~Handles({"close"}, i) /\ ~Handles({"close"}, i)'
      BY <2>2, <1>3 DEF RegisterConn, Handles
    <3>2. Registered(i)' => Registered(i)
      BY <2>2, <3>1 DEF RegisterConn, Registered, Handles, TypeInv, MuxType
    <3> QED
      BY <3>1, <3>2, <1>0
  <2>3. CASE RespondConn
    <3>1. UNCHANGED <<link, agentOut, target, mconn>> /\ ~Handles({"close"}, i) /\ ~Handles({"close"}, i)'
      BY <2>3, <1>3 DEF RespondConn, Handles
    <3>2. Registered(i)' => Registered(i)
      BY <2>3, <3>1 DEF RespondConn, Registered, Handles
    <3> QED
      BY <3>1, <3>2, <1>0
  <2>4. CASE RefuseConn
    <3>1. UNCHANGED <<link, agentOut, target, mconn>> /\ ~Handles({"close"}, i)
      BY <2>4, <1>3 DEF RefuseConn, Handles
    <3>2. Handles({"close"}, i)' => target[i] = "none"
      BY <2>4 DEF RefuseConn, Handles, StageInv
    <3>3. Registered(i)' => Registered(i)
      BY <2>4, <3>1 DEF RefuseConn, Registered, Handles
    <3> QED
      BY <3>1, <3>2, <3>3 DEF CloseInv
  <2>5. CASE CloseConn
    <3>1. /\ UNCHANGED <<link, agentOut, target>> /\ ~Handles({"close"}, i)' /\ ~Handles({"register"}, i)'
          /\ mconn'[i] = IF rmsg.id = i /\ i \in conns THEN "closed" ELSE mconn[i]
          /\ Handles({"close"}, i) <=> rmsg.id = i
      BY <2>5, <1>3 DEF CloseConn, Handles
    <3>2. CASE rmsg.id = i
      <4>1. mconn'[i] # "open"
        BY <3>1, <3>2 DEF StageInv
      <4>2. target[i] # "none" => ~Has(agentOut, "ack", i)
        BY <3>1, <3>2 DEF CloseInv
      <4> QED
        BY <3>1, <4>1, <4>2 DEF CloseInv, Registered
    <3>3. CASE rmsg.id # i
      BY <3>1, <3>3, <1>0 DEF Registered
    <3> QED
      BY <3>2, <3>3
  <2>6. CASE DeliverData \/ ReadLoopFails
    <3>1. UNCHANGED <<link, agentOut, target, mconn>> /\ ~Handles({"close"}, i) /\ ~Handles({"close", "register"}, i)'
      BY <2>6, <1>3 DEF DeliverData, ReadLoopFails, Handles
    <3>2. Registered(i)' => Registered(i)
      BY <3>1 DEF Registered, Handles
    <3> QED
      BY <3>1, <3>2, <1>0 DEF Handles
  <2>7. CASE ReadLoopDeclareDead
    <3>1. ~Handles({"close"}, i) /\ ~Handles({"close", "register"}, i)'
      BY <2>7 DEF ReadLoopDeclareDead, Handles
    <3>2. CASE LinkDown
      BY <1>1, <1>3, <3>1, <3>2 DEF Handles
    <3>3. CASE ~LinkDown
      <4>1. UNCHANGED <<link, agentOut, target>> /\ (mconn'[i] = "open" => mconn[i] = "open")
        BY <2>7, <1>3, <3>3 DEF ReadLoopDeclareDead
      <4>2. Registered(i)' => Registered(i)
        BY <3>1, <4>1 DEF Registered, Handles
      <4> QED
        BY <3>1, <4>1, <4>2, <1>0 DEF Handles
    <3> QED
      BY <3>2, <3>3
  <2> QED
    BY <1>3, <2>1, <2>2, <2>3, <2>4, <2>5, <2>6, <2>7 DEF ReadLoop
<1>4. CASE PingLoop /\ UNCHANGED agentVars
  <2>1. UNCHANGED <<rl, rmsg>> /\ (mconn'[i] = "open" => mconn[i] = "open")
    BY <1>4 DEF PingLoop, SendPing, ReceivePong, PongTimeout, PingLoopStops, PingLoopDeclareDead
  <2>2. LinkDown \/ UNCHANGED <<link, agentOut>>
    BY <1>4 DEF PingLoop, SendPing, ReceivePong, PongTimeout, PingLoopStops, PingLoopDeclareDead
  <2> QED
    BY <1>1, <1>2, <1>4, <2>1, <2>2 DEF Handles
<1>5. ASSUME NEW j \in Ids, DialSteps(j) \/ DialCancelled(j) \/ DialRegister, UNCHANGED agentVars PROVE CloseInv(i)'
  <2>1. UNCHANGED <<rl, rmsg, mconn, link, agentOut>>
    BY <1>5 DEF DialSteps, DialSend, DialAnswered, DialMuxClosed, DialCancelled, DialRegister
  <2> QED
    BY <1>2, <1>5, <2>1
<1>6. ASSUME NEW j \in Ids, Client(j), UNCHANGED agentVars PROVE CloseInv(i)'
  <2>1. UNCHANGED <<rl, rmsg, link, agentOut>> /\ (mconn'[i] = "open" => mconn[i] = "open")
    BY <1>6 DEF Client, ReadBuffered, ReadBlocked, ConnWrite, ConnClose, SendClose
  <2> QED
    BY <1>2, <1>6, <2>1
<1>7. CASE SendShutdown /\ UNCHANGED agentVars
  BY <1>2, <1>7 DEF SendShutdown
<1>8. CASE MuxClose /\ UNCHANGED agentVars
  BY <1>1, <1>8 DEF MuxClose, Handles
<1>9. CASE AgentRun /\ UNCHANGED muxVars
  <2>1. CASE AgentHandleClose
    <3> DEFINE h == Head(hostOut).id
    <3>1. h \in Ids /\ Message("close", h) \in AgentFrames
      BY <2>1, HeadType, FrameTypes DEF AgentHandleClose, NextIs, HostFrames
    <3>2. UNCHANGED <<link, rl, rmsg, mconn>> /\ link = "up"
      BY <2>1, <1>9 DEF AgentHandleClose, NextIs
    <3>3. CASE target[h] = "open" /\ h \in connections
      <4>1. AgentWrite(Message("close", h)) /\ target' = [target EXCEPT ![h] = "closed"]
        BY <2>1, <3>3 DEF AgentHandleClose, ConnectionClose
      <4>2. target'[i] = IF h = i THEN "closed" ELSE target[i]
        BY <3>1, <4>1 DEF TypeInv, AgentType
      <4>3. /\ Has(agentOut', "ack", i) => Has(agentOut, "ack", i)
            /\ Has(agentOut, "close", i) \/ h = i => Has(agentOut', "close", i)
        BY <3>1, <3>2, <4>1, AgentWriteFrames DEF Message
      <4>4. Registered(i)' => Registered(i)
        BY <3>2, <4>3 DEF Registered, Handles
      <4>5. Handles({"close"}, i)' <=> Handles({"close"}, i)
        BY <3>2 DEF Handles
      <4> HIDE DEF h
      <4> QED
        BY <3>2, <3>3, <4>2, <4>3, <4>4, <4>5 DEF CloseInv
    <3>4. CASE ~(target[h] = "open" /\ h \in connections)
      <4>1. UNCHANGED <<agentOut, target>>
        BY <2>1, <3>4 DEF AgentHandleClose, ConnectionClose
      <4> QED
        BY <1>2, <3>2, <4>1
    <3> QED
      BY <3>3, <3>4
  <2>2. CASE AgentHandlePing
    <3>1. UNCHANGED <<link, rl, rmsg, mconn, target>> /\ AgentWrite(Message("pong", 0)) /\ link = "up"
      BY <2>2, <1>9 DEF AgentHandlePing, NextIs
    <3>2. /\ Has(agentOut', "ack", i) => Has(agentOut, "ack", i)
          /\ Has(agentOut, "close", i) => Has(agentOut', "close", i)
      BY <3>1, FrameTypes, AgentWriteFrames DEF Message
    <3>3. Registered(i)' => Registered(i)
      BY <3>1, <3>2 DEF Registered, Handles
    <3> QED
      BY <1>0, <3>1, <3>2, <3>3 DEF Handles
  <2>3. CASE ~AgentHandleClose /\ ~AgentHandlePing
    <3>1. UNCHANGED <<link, agentOut, target>>
      BY <2>3, <1>9 DEF AgentRun, AgentHandleConnect, AgentHandleData, AgentHandleShutdown
    <3> QED
      BY <1>2, <1>9, <3>1
  <2> QED
    BY <2>1, <2>2, <2>3
<1>10. ASSUME NEW j \in Ids, AgentConn(j), UNCHANGED muxVars PROVE CloseInv(i)'
  <2>1. UNCHANGED <<link, rl, rmsg, mconn>>
    BY <1>10 DEF AgentConn, DialTarget, DialTargetFails, SendAck, ReadTarget, ReadTargetFails, SendData, RelayEnds
  <2>2. CASE DialTarget(j)
    <3>1. agentOut' = agentOut /\ target'[i] = IF i = j THEN "open" ELSE target[i]
      BY <2>2 DEF DialTarget, TypeInv, AgentType
    <3>2. i = j => ~Has(agentOut, "ack", i)
      BY <2>2 DEF DialTarget, StageInv
    <3> QED
      BY <2>1, <3>1, <3>2 DEF CloseInv, Registered, Handles
  <2>3. CASE SendAck(j)
    <3>1. /\ AgentWrite(Message("ack", j)) /\ Message("ack", j) \in AgentFrames
          /\ apc[j] = "ack" /\ (target'[i] = target[i] \/ (i = j /\ link = "down" /\ target'[i] = "closed"))
      BY <2>3, FrameTypes DEF SendAck, TypeInv, AgentType
    <3>2. /\ Has(agentOut', "ack", i) => Has(agentOut, "ack", i) \/ i = j
          /\ link # "down" /\ Has(agentOut, "close", i) => Has(agentOut', "close", i)
      BY <3>1, AgentWriteFrames DEF Message
    <3>3. i = j => ~Handles({"close"}, i) /\ target[i] = "open"
      BY <3>1 DEF StageInv, Handles
    <3>4. i # j => (Registered(i)' => Registered(i))
      BY <2>1, <3>2 DEF Registered, Handles
    <3>5. Handles({"close"}, i)' <=> Handles({"close"}, i)
      BY <2>1 DEF Handles
    <3> QED
      BY <2>1, <3>1, <3>2, <3>3, <3>4, <3>5 DEF CloseInv
  <2>4. CASE RelayEnds(j) /\ target[j] = "open"
    <3>1. /\ AgentWrite(Message("close", j)) /\ Message("close", j) \in AgentFrames
          /\ target'[i] = IF i = j THEN "closed" ELSE target[i]
      BY <2>4, FrameTypes DEF RelayEnds, ConnectionClose, TypeInv, AgentType
    <3>2. /\ Has(agentOut', "ack", i) => Has(agentOut, "ack", i)
          /\ link # "down" /\ (Has(agentOut, "close", i) \/ i = j) => Has(agentOut', "close", i)
      BY <3>1, AgentWriteFrames DEF Message
    <3>3. Registered(i)' => Registered(i)
      BY <2>1, <3>2 DEF Registered, Handles
    <3>4. Handles({"close"}, i)' <=> Handles({"close"}, i)
      BY <2>1 DEF Handles
    <3> QED
      BY <2>1, <2>4, <3>1, <3>2, <3>3, <3>4 DEF CloseInv
  <2>5. CASE DialTargetFails(j) \/ SendData(j)
    <3>1. /\ target' = target
          /\ \E m \in AgentFrames : m.type \in {"error", "data"} /\ AgentWrite(m)
      <4>1. Message("error", j) \in AgentFrames /\ Message("error", j).type = "error"
        BY FrameTypes DEF Message
      <4>2. Data(j, sentChunks[j]) \in AgentFrames /\ Data(j, sentChunks[j]).type = "data"
        BY FrameTypes, MuxAssumption DEF Data, TypeInv, AgentType
      <4> QED
        BY <2>5, <4>1, <4>2 DEF DialTargetFails, SendData
    <3>2. /\ Has(agentOut', "ack", i) => Has(agentOut, "ack", i)
          /\ link # "down" /\ Has(agentOut, "close", i) => Has(agentOut', "close", i)
      BY <3>1, AgentWriteFrames
    <3>3. Registered(i)' => Registered(i)
      BY <2>1, <3>2 DEF Registered, Handles
    <3> QED
      BY <1>0, <2>1, <3>1, <3>2, <3>3 DEF Handles
  <2>6. CASE UNCHANGED <<agentOut, target>>
    BY <1>2, <2>1, <2>6
  <2> QED
    BY <1>10, <2>2, <2>3, <2>4, <2>5, <2>6 DEF AgentConn, ReadTarget, ReadTargetFails, RelayEnds, ConnectionClose
<1>11. CASE (Cut \/ Wedge) /\ UNCHANGED <<muxVars, agentVars>>
  <2>1. CASE LinkDown
    BY <1>1, <1>11, <2>1 DEF Handles
  <2>2. CASE ~LinkDown
    <3>1. UNCHANGED <<agentOut, rl, rmsg, mconn, target>> /\ link # "down"
      BY <1>11, <2>2 DEF Cut, Wedge
    <3> QED
      BY <1>0, <3>1 DEF Registered, Handles
  <2> QED
    BY <2>1, <2>2
<1>12. CASE UNCHANGED vars
  BY <1>2, <1>12 DEF vars
<1> QED
  BY <1>3, <1>4, <1>5, <1>6, <1>7, <1>8, <1>9, <1>10, <1>11, <1>12 DEF Next, MuxNext, AgentNext

-----------------------------------------------------------------------------
(* The invariant holds.                                                      *)

Inv == TypeInv /\ StreamInv

LEMMA InitInv == Init => Inv
<1> SUFFICES ASSUME Init PROVE Inv
  OBVIOUS
<1> USE MuxAssumption DEF Init, LinkInit, MuxInit, AgentInit
<1>1. TypeInv
  <2>1. LinkType
    BY DEF LinkType
  <2>2. MuxType
    <3>1. /\ readBuf \in [Ids -> Seq(Nat)] /\ \A i \in Ids : Len(readBuf[i]) <= BufCap
          /\ got \in [Ids -> Seq(Nat)]
      BY EmptySeq
    <3>2. /\ dpc \in [Ids -> {"none", "send", "wait", "open", "failed"}] /\ wrote \in [Ids -> 0 .. MaxWrites]
          /\ nextConnID \in 0 .. MaxDials
      OBVIOUS
    <3> QED
      BY <3>1, <3>2 DEF MuxType
  <2>3. AgentType
    <3>1. gotChunks \in [Ids -> Seq(Nat)]
      BY EmptySeq
    <3>2. /\ apc \in [Ids -> {"none", "dial", "ack", "read", "send", "close", "exit"}]
          /\ target \in [Ids -> {"none", "open", "closed"}]
      OBVIOUS
    <3>3. sentChunks \in [Ids -> 0 .. MaxData]
      OBVIOUS
    <3>4. connections \subseteq Ids /\ agentCtx \in BOOLEAN
      OBVIOUS
    <3> QED
      BY <3>1, <3>2, <3>3, <3>4 DEF AgentType
  <2> QED
    BY <2>1, <2>2, <2>3 DEF TypeInv
<1>2. ASSUME NEW i \in Ids PROVE StageInv(i) /\ UpInv(i) /\ DownInv(i) /\ CloseInv(i)
  <2>1. /\ \A u : ~Has(hostOut, u, i) /\ ~Has(agentOut, u, i)
        /\ \A u, later : First(hostOut, i, u, later) /\ First(agentOut, i, u, later)
        /\ \A lo, hi : Window(hostOut, i, lo, hi) /\ Window(agentOut, i, lo, hi)
    BY EmptyQueue
  <2>2. ~Registered(i) /\ \A steps : "read" \notin steps => ~Handles(steps, i)
    BY <2>1 DEF Registered, Handles
  <2>3. StageInv(i)
    <3>1. ~(i <= nextConnID)
      BY DEF Ids
    <3> QED
      BY <2>1, <2>2, <3>1 DEF StageInv
  <2>4. UpInv(i)
    BY <2>1 DEF UpInv
  <2>5. Arrived(i) = 0 /\ Relayed(i) = 0 /\ Len(got[i]) = 0 /\ Len(readBuf[i]) = 0
    BY <2>2 DEF Arrived, Relayed, Buffered
  <2>6. DownInv(i)
    BY <2>1, <2>2, <2>5 DEF DownInv
  <2> QED
    BY <2>2, <2>3, <2>4, <2>6 DEF CloseInv
<1> QED
  BY <1>1, <1>2 DEF Inv, StreamInv

LEMMA InvStep == Inv /\ [Next]_vars => Inv'
<1> SUFFICES ASSUME Inv, [Next]_vars PROVE Inv'
  OBVIOUS
<1>1. TypeInv /\ TypeInv'
  BY TypeStep DEF Inv
<1>2. ASSUME NEW i \in Ids PROVE StageInv(i)' /\ UpInv(i)' /\ DownInv(i)' /\ CloseInv(i)'
  <2>1. StageInv(i) /\ UpInv(i) /\ DownInv(i) /\ CloseInv(i)
    BY DEF Inv, StreamInv
  <2>2. StageInv(i)'
    BY <1>1, <2>1, StageStep
  <2> QED
    BY <1>1, <2>1, <2>2, UpStep, DownStep, CloseStep
<1> QED
  BY <1>1, <1>2 DEF Inv, StreamInv, Ids

LEMMA Inductive == Spec => []Inv
  BY InitInv, InvStep, PTL DEF Spec

-----------------------------------------------------------------------------

\* The buffers of the link and of each MuxConn never hold more than their
\* capacity, and neither side gets more chunks than the other side sent
\* (AgentMux, MuxConn, Agent).
THEOREM TypeCorrect == Spec => []TypeOK
<1>1. Inv => TypeOK
  <2> SUFFICES ASSUME Inv PROVE TypeOK
    OBVIOUS
  <2>1. ASSUME NEW i \in Ids PROVE Len(got[i]) <= MaxData /\ Len(gotChunks[i]) <= MaxWrites
    <3>1. TypeInv /\ StageInv(i) /\ UpInv(i) /\ DownInv(i)
      BY DEF Inv, StreamInv
    <3>2. Len(got[i]) <= Arrived(i) /\ Len(got[i]) \in Nat /\ Arrived(i) \in Nat
      <4>1. Buffered(i) \in Nat /\ Buffered(i) <= Arrived(i) /\ Len(got[i]) \in Nat /\ Len(readBuf[i]) \in Nat
        BY <3>1, DownTypes DEF Arrived
      <4>2. Len(got[i]) <= Buffered(i)
        BY <4>1, Sum DEF Buffered
      <4> QED
        BY <3>1, <4>1, <4>2, DownTypes
    <3>3. sentChunks[i] \in 0 .. MaxData /\ wrote[i] \in 0 .. MaxWrites
      BY <3>1 DEF TypeInv, MuxType, AgentType
    <3>4. Relayed(i) <= MaxData /\ Relayed(i) \in Int
      BY <3>3, MuxAssumption DEF Relayed
    <3>5. Len(got[i]) <= MaxData
      BY <3>1, <3>2, <3>4, MuxAssumption DEF DownInv
    <3>6. gotChunks[i] \in Seq(Nat) /\ Len(gotChunks[i]) <= wrote[i]
      BY <3>1 DEF TypeInv, AgentType, UpInv
    <3>7. Len(gotChunks[i]) <= MaxWrites
      BY <3>3, <3>6, MuxAssumption
    <3> QED
      BY <3>5, <3>7
  <2> QED
    BY <2>1 DEF Inv, TypeInv, LinkType, MuxType, AgentType, TypeOK, LinkTypeOK, MuxTypeOK, AgentTypeOK
<1> QED
  BY <1>1, Inductive, PTL

\* What a client has read is a prefix of what its target sent, and the other
\* way round, whoever closes, times out or dies meanwhile: handleData waits
\* for room instead of dropping, and both ends keep the order of the link.
THEOREM StreamsAreWhole == Spec => []NoGap
<1>1. Inv => NoGap
  BY DEF Inv, StreamInv, UpInv, DownInv, NoGap, IsPrefix123
<1> QED
  BY <1>1, Inductive, PTL

\* While the link works, a connection that is over in the VM and open on the
\* host has its close on the link or in the hands of the read loop
\* (Connection.Close of the agent, handleClose of the mux).
THEOREM ClosesAreAnnounced == Spec => []ClosedIsAnnounced
<1>1. Inv => ClosedIsAnnounced
  <2> SUFFICES ASSUME Inv, NEW i \in Ids, mconn[i] = "open", target[i] = "closed", link # "down",
                      ~(rl = "close" /\ rmsg.id = i)
               PROVE  \E k \in DOMAIN agentOut : agentOut[k] = Message("close", i)
    BY DEF ClosedIsAnnounced
  <2>1. PICK k \in 1 .. Len(agentOut) : agentOut[k].type = "close" /\ agentOut[k].id = i
    BY DEF Inv, StreamInv, CloseInv, Registered, Handles, Has
  <2>2. agentOut[k] \in AgentFrames
    BY DEF Inv, TypeInv, LinkType
  <2>3. agentOut[k] = Message("close", i)
    BY <2>1, <2>2 DEF AgentFrames, Message
  <2> QED
    BY <2>3
<1> QED
  BY <1>1, Inductive, PTL

=============================================================================
