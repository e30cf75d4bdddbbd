--------------------------- MODULE ForwarderProofs ---------------------------
(***************************************************************************)
(* Theorems about the packet forwarder, for any packets, any size of the   *)
(* buffer and whatever the buffer held before.                             *)
(***************************************************************************)
EXTENDS Forwarder, SumProofs

-----------------------------------------------------------------------------
(***************************************************************************)
(* Packets and their bytes.                                                *)
(***************************************************************************)
LEMMA PacketType ==
  ASSUME NEW p \in Packet
  PROVE  /\ p.n \in Nat /\ p.n <= BufSize
         /\ p.fill \in Byte
         /\ p.msgs \in Seq(Message)
         /\ DOMAIN p.msgs = 1 .. Len(p.msgs) /\ Len(p.msgs) \in Nat
         /\ \A k \in DOMAIN p.msgs : p.msgs[k].at \in Nat /\ p.msgs[k].len \in Length
         /\ Length \subseteq Nat
<1>1. p.n \in Captured /\ p.fill \in Byte /\ p.msgs \in Seq(Message)
  BY DEF Packet
<1>2. \A l \in Message : l.at \in Nat /\ l.len \in Length
  BY DEF Message
<1>3. \A k \in DOMAIN p.msgs : p.msgs[k] \in Message
  BY <1>1
<1>4. p.n \in Nat /\ p.n <= BufSize
  BY <1>1, ForwarderAssumption DEF Captured
<1>5. Length \subseteq Nat
  BY DEF Length
<1> QED
  BY <1>1, <1>2, <1>3, <1>4, <1>5

LEMMA PacketsKnown == NoPacket \in Packet /\ Packets \subseteq Packet
<1>1. 0 \in Captured /\ 0 \in Byte
  BY ForwarderAssumption DEF Captured, Byte
<1>2. <<>> \in Seq(Message)
  OBVIOUS
<1> QED
  BY <1>1, <1>2, ForwarderAssumption DEF NoPacket, Packet

\* Every byte of a packet is one.
LEMMA ByteType ==
  ASSUME NEW p \in Packet, NEW x \in Int
  PROVE  ByteOf(p, x) \in Byte
<1>1. \A k \in DOMAIN p.msgs : p.msgs[k].len \in Length
  BY PacketType
<1>2. ASSUME NEW l \in Length
      PROVE  l \div 256 \in Byte /\ l % 256 \in Byte
  <2>1. l \in Int /\ 0 <= l /\ l <= 65535
    BY DEF Length
  <2>2. /\ l \div 256 \in Int /\ 0 <= l \div 256 /\ l \div 256 <= 255
        /\ l % 256 \in Int /\ 0 <= l % 256 /\ l % 256 <= 255
    BY <2>1
  <2> QED
    BY <2>2 DEF Byte
<1>3. High(p, x) \subseteq DOMAIN p.msgs /\ Low(p, x) \subseteq DOMAIN p.msgs
  BY DEF High, Low
<1>4. CASE High(p, x) # {}
  <2> DEFINE h == CHOOSE k \in High(p, x) : TRUE
  <2>1. h \in DOMAIN p.msgs
    BY <1>3, <1>4
  <2>2. ByteOf(p, x) = p.msgs[h].len \div 256
    BY <1>4 DEF ByteOf
  <2> QED
    BY <1>1, <1>2, <2>1, <2>2
<1>5. CASE High(p, x) = {} /\ Low(p, x) # {}
  <2> DEFINE h == CHOOSE k \in Low(p, x) : TRUE
  <2>1. h \in DOMAIN p.msgs
    BY <1>3, <1>5
  <2>2. ByteOf(p, x) = p.msgs[h].len % 256
    BY <1>5 DEF ByteOf
  <2> QED
    BY <1>1, <1>2, <2>1, <2>2
<1>6. CASE High(p, x) = {} /\ Low(p, x) = {}
  <2>1. ByteOf(p, x) = p.fill
    BY <1>6 DEF ByteOf
  <2> QED
    BY <2>1, PacketType
<1> QED
  BY <1>4, <1>5, <1>6

\* In a framed packet a message starts where an earlier one has ended, or after.
LEMMA FramedOrder ==
  ASSUME NEW p \in Packet, Framed(p),
         NEW i \in DOMAIN p.msgs, NEW j \in DOMAIN p.msgs, i < j
  PROVE  p.msgs[i].at + Header + p.msgs[i].len <= p.msgs[j].at
<1> DEFINE At(k) == p.msgs[k].at
           End(k) == p.msgs[k].at + Header + p.msgs[k].len
           last == Len(p.msgs)
<1>1. /\ \A k \in 1 .. last : At(k) \in Nat /\ End(k) \in Nat /\ End(k) > At(k)
      /\ i \in 1 .. last /\ j \in 1 .. last /\ last \in Nat
  <2>1. \A k \in DOMAIN p.msgs : At(k) \in Nat /\ p.msgs[k].len \in Nat
    BY PacketType
  <2>2. \A k \in DOMAIN p.msgs : At(k) \in Nat /\ End(k) \in Nat /\ End(k) > At(k)
    BY <2>1 DEF Header
  <2> QED
    BY <2>2, PacketType
<1>2. \A k \in 2 .. last : At(k) = End(k - 1)
  BY DEF Framed
<1> HIDE DEF At, End, last
<1> DEFINE Early == {k \in 1 .. last : i < k /\ At(k) < End(i)}
<1>3. ASSUME Early # {} PROVE FALSE
  <2>1. Early \subseteq Nat
    BY <1>1
  <2>2. PICK k \in Early : \A e \in Early : k <= e
    <3> HIDE DEF Early
    <3> QED
      BY <1>3, <2>1, LeastNumber
  <2>3. /\ k \in 2 .. last /\ k - 1 \in 1 .. last /\ i < k /\ At(k) < End(i)
        /\ i # k - 1
    BY <1>1, <1>2, <2>2
  <2>4. k - 1 \notin Early
    BY <1>1, <2>2, <2>3
  <2>5. At(k - 1) >= End(i)
    BY <1>1, <2>3, <2>4
  <2> QED
    BY <1>1, <1>2, <2>3, <2>5
<1>4. End(i) <= At(j)
  BY <1>1, <1>3
<1> QED
  BY <1>4 DEF At, End

\* The length bytes of a message are its own: no other message overlaps it.
LEMMA FramedBytes ==
  ASSUME NEW p \in Packet, Framed(p), NEW m \in DOMAIN p.msgs
  PROVE  /\ ByteOf(p, p.msgs[m].at + 6) = p.msgs[m].len \div 256
         /\ ByteOf(p, p.msgs[m].at + 7) = p.msgs[m].len % 256
<1>1. /\ \A k \in DOMAIN p.msgs : p.msgs[k].at \in Nat /\ p.msgs[k].len \in Nat
      /\ DOMAIN p.msgs \subseteq Nat
  BY PacketType
<1>2. \A k \in DOMAIN p.msgs :
        k # m => \/ p.msgs[k].at + 8 <= p.msgs[m].at
                 \/ p.msgs[m].at + 8 <= p.msgs[k].at
  <2> TAKE k \in DOMAIN p.msgs
  <2>1. CASE k < m
    BY <1>1, <2>1, FramedOrder DEF Header
  <2>2. CASE k > m
    BY <1>1, <2>2, FramedOrder DEF Header
  <2> QED
    BY <1>1, <2>1, <2>2
<1>3. High(p, p.msgs[m].at + 6) = {m}
  BY <1>1, <1>2 DEF High
<1>4. High(p, p.msgs[m].at + 7) = {} /\ Low(p, p.msgs[m].at + 7) = {m}
  BY <1>1, <1>2 DEF High, Low
<1>5. (CHOOSE k \in {m} : TRUE) = m
  OBVIOUS
<1>6. ByteOf(p, p.msgs[m].at + 6) = p.msgs[m].len \div 256
  BY <1>3, <1>5 DEF ByteOf
<1>7. ByteOf(p, p.msgs[m].at + 7) = p.msgs[m].len % 256
  BY <1>4, <1>5 DEF ByteOf
<1> QED
  BY <1>6, <1>7

\* The messages of a framed packet lie within what was captured of it, and only
\* the last ends where that does.
LEMMA FramedEnds ==
  ASSUME NEW p \in Packet, Framed(p), NEW m \in DOMAIN p.msgs
  PROVE  IF m = Len(p.msgs)
         THEN p.msgs[m].at + Header + p.msgs[m].len = p.n
         ELSE /\ m + 1 \in DOMAIN p.msgs
              /\ p.msgs[m].at + Header + p.msgs[m].len = p.msgs[m + 1].at
              /\ p.msgs[m + 1].at < p.n
<1> DEFINE At(k) == p.msgs[k].at
           End(k) == p.msgs[k].at + Header + p.msgs[k].len
           last == Len(p.msgs)
<1>1. /\ \A k \in 1 .. last : At(k) \in Nat /\ End(k) \in Nat /\ End(k) > At(k)
      /\ m \in 1 .. last /\ last \in 1 .. last /\ last \in Nat
      /\ DOMAIN p.msgs = 1 .. last
  <2>1. \A k \in DOMAIN p.msgs : At(k) \in Nat /\ p.msgs[k].len \in Nat
    BY PacketType
  <2>2. \A k \in DOMAIN p.msgs : At(k) \in Nat /\ End(k) \in Nat /\ End(k) > At(k)
    BY <2>1 DEF Header
  <2> QED
    BY <2>2, PacketType
<1>2. /\ \A k \in 2 .. last : At(k) = End(k - 1)
      /\ End(last) = p.n
  BY DEF Framed
<1>3. \A a, b \in 1 .. last : a < b => End(a) <= At(b)
  <2> TAKE a, b \in 1 .. last
  <2> QED
    BY <1>1, FramedOrder
<1> HIDE DEF At, End, last
<1>4. CASE m # last
  <2>1. m + 1 \in 2 .. last /\ (m + 1) - 1 = m
    BY <1>1, <1>4
  <2>2. At(m + 1) = End(m)
    BY <1>2, <2>1
  <2>3. m + 1 = last \/ End(m + 1) <= At(last)
    BY <1>1, <1>3, <2>1
  <2>4. m + 1 \in 1 .. last /\ At(m + 1) < p.n
    BY <1>1, <1>2, <2>1, <2>3
  <2> QED
    BY <1>1, <1>4, <2>2, <2>4 DEF At, End, last
<1> QED
  BY <1>2, <1>4 DEF At, End, last

LEMMA MessageWithin ==
  ASSUME NEW p \in Packet, Framed(p), NEW m \in DOMAIN p.msgs
  PROVE  p.msgs[m].at + Header + p.msgs[m].len <= p.n
<1> DEFINE end == p.msgs[m].at + Header + p.msgs[m].len
<1>1. p.msgs[m].at \in Nat /\ p.msgs[m].len \in Nat /\ p.n \in Nat
  BY PacketType
<1>2. end \in Nat
  BY <1>1 DEF Header
<1>3. end = p.n \/ end < p.n
  BY FramedEnds
<1> HIDE DEF end
<1>4. end <= p.n
  BY <1>1, <1>2, <1>3
<1> QED
  BY <1>4 DEF end

-----------------------------------------------------------------------------
(***************************************************************************)
(* Types.  The length is read from a signed char, and Forward is taken     *)
(* only if what it adds to the cursor is not negative.                     *)
(***************************************************************************)
LEMMA SizeType ==
  ASSUME buffer \in [Offsets -> Byte], packet.n \in Nat, packet.n <= BufSize,
         cur \in Nat, cur < packet.n
  PROVE  /\ Size(cur) \in Int /\ LengthInt(cur) \in Int
         /\ Size(cur) = 0 => buffer[cur + 6] = 0 /\ buffer[cur + 7] = 248
<1>1. cur + 6 \in Offsets /\ cur + 7 \in Offsets
  BY ForwarderAssumption DEF Offsets, Header
<1> DEFINE high == buffer[cur + 6]
           low == buffer[cur + 7]
<1>2. high \in Int /\ 0 <= high /\ high <= 255
      /\ low \in Int /\ 0 <= low /\ low <= 255
  <2>1. high \in Byte /\ low \in Byte
    BY <1>1
  <2> QED
    BY <2>1 DEF Byte
<1>3. LengthInt(cur) = 256 * SignedChar(high) + SignedChar(low)
  BY DEF LengthInt
<1> HIDE DEF high, low
<1>4. LengthInt(cur) \in Int
  BY <1>2, <1>3 DEF SignedChar
<1>5. LengthInt(cur) = -8 => high = 0 /\ low = 248
  BY <1>2, <1>3 DEF SignedChar
<1>6. Size(cur) = 8 + LengthInt(cur)
  BY DEF Size, Header
<1> QED
  BY <1>4, <1>5, <1>6 DEF high, low

LEMMA PacketInBuffer ==
  ASSUME ForwarderTypeOK
  PROVE  packet \in Packet /\ packet.n \in Nat /\ packet.n <= BufSize
<1>1. packet \in Packet
  BY PacketsKnown DEF ForwarderTypeOK
<1> QED
  BY <1>1, PacketType

LEMMA ForwarderTypeStep ==
  ForwarderTypeOK /\ [ForwarderNext]_forwarderVars => ForwarderTypeOK'
<1> SUFFICES ASSUME ForwarderTypeOK, [ForwarderNext]_forwarderVars
             PROVE  ForwarderTypeOK'
  OBVIOUS
<1> USE DEF ForwarderTypeOK
<1>1. CASE OpenSockets
  BY <1>1, ForwarderAssumption DEF OpenSockets
<1>2. ASSUME NEW p \in Packets, Receive(p) PROVE ForwarderTypeOK'
  <2>1. \A x \in Offsets : ByteOf(p, x) \in Byte
    BY PacketsKnown, ByteType DEF Offsets
  <2>2. buffer' \in [Offsets -> Byte]
    BY <1>2, <2>1 DEF Receive
  <2>3. <<>> \in Seq(Written)
    OBVIOUS
  <2>4. wire' \in Seq(Written)
    BY <1>2, <2>3 DEF Receive
  <2>5. packet' \in Packets /\ gpc' \in {"recv", "loop"} /\ cur' = 0 /\ full' = FALSE
    BY <1>2 DEF Receive
  <2> QED
    BY <2>2, <2>4, <2>5
<1>3. CASE Forward
  <2>1. Size(cur) \in Int /\ Size(cur) >= 0
    BY <1>3, PacketInBuffer, SizeType DEF Forward
  <2>2. cur' \in Nat
    BY <1>3, <2>1 DEF Forward
  <2>3. wire' \in Seq(Written)
    <3>1. CASE Size(cur) = 0
      BY <1>3, <3>1 DEF Forward
    <3>2. CASE Size(cur) # 0
      <4>1. Size(cur) \in Nat \ {0}
        BY <2>1, <3>2
      <4>2. \A b \in BOOLEAN :
              [at |-> cur, size |-> Size(cur), whole |-> b] \in Written
        BY <4>1 DEF Written
      <4>3. PICK b \in BOOLEAN :
              wire' = Append(wire, [at |-> cur, size |-> Size(cur), whole |-> b])
        BY <1>3, <3>2 DEF Forward
      <4> QED
        BY <4>2, <4>3
    <3> QED
      BY <3>1, <3>2
  <2> QED
    BY <1>3, <2>2, <2>3 DEF Forward
<1>4. CASE GiveUp \/ WriteFails \/ PacketDone
  BY <1>4 DEF GiveUp, WriteFails, PacketDone
<1>5. CASE UNCHANGED forwarderVars
  BY <1>5 DEF forwarderVars
<1> QED
  BY <1>1, <1>2, <1>3, <1>4, <1>5 DEF ForwarderNext

LEMMA ForwarderTypeInit == ForwarderInit => ForwarderTypeOK
<1> SUFFICES ASSUME ForwarderInit PROVE ForwarderTypeOK
  OBVIOUS
<1>1. 0 \in Byte
  BY DEF Byte
<1>2. buffer \in [Offsets -> Byte]
  BY <1>1 DEF ForwarderInit
<1>3. <<>> \in Seq(Written)
  OBVIOUS
<1>4. wire \in Seq(Written)
  BY <1>3 DEF ForwarderInit
<1> QED
  BY <1>2, <1>4 DEF ForwarderInit, ForwarderTypeOK

\* For any packets: the offsets stay natural numbers although lengths may be
\* negative, and the length bytes are read within the buffer and Header past it.
THEOREM ForwarderTypeCorrect == ForwarderSpec => []ForwarderTypeOK
BY ForwarderTypeInit, ForwarderTypeStep, PTL DEF ForwarderSpec

\* A turn of the loop that changes anything moves the cursor on, so that a packet
\* of n bytes takes n turns at most.
THEOREM CursorAdvances == ForwarderSpec => LoopAdvances
<1>1. ForwarderTypeOK /\ [ForwarderNext]_forwarderVars =>
        [gpc = "loop" /\ gpc' = "loop" => cur' > cur]_forwarderVars
  <2> SUFFICES ASSUME ForwarderTypeOK, ForwarderNext,
                      gpc = "loop", gpc' = "loop"
               PROVE  cur' > cur \/ UNCHANGED forwarderVars
    OBVIOUS
  <2>1. Forward
    BY DEF ForwarderNext, OpenSockets, Receive, GiveUp, WriteFails, PacketDone
  <2>2. Size(cur) \in Int /\ cur \in Nat /\ Size(cur) >= 0
    BY <2>1, PacketInBuffer, SizeType DEF Forward, ForwarderTypeOK
  <2>3. CASE Size(cur) = 0
    BY <2>1, <2>2, <2>3 DEF Forward, forwarderVars
  <2>4. CASE Size(cur) > 0
    BY <2>1, <2>2, <2>4 DEF Forward
  <2> QED
    BY <2>2, <2>3, <2>4
<1> QED
  BY <1>1, ForwarderTypeCorrect, PTL DEF ForwarderSpec, LoopAdvances

\* The one packet the loop never leaves holds a length of 248, which a signed
\* char makes -8 (my_grub.c:90).
THEOREM OnlyOneSpin == ForwarderSpec => []StuckAt248
<1>1. ForwarderTypeOK => StuckAt248
  BY PacketInBuffer, SizeType DEF ForwarderTypeOK, StuckAt248
<1> QED
  BY <1>1, ForwarderTypeCorrect, PTL

-----------------------------------------------------------------------------
(***************************************************************************)
(* CutAsFramed is not inductive: that the next write is the next message   *)
(* needs the cursor to be where that message starts, and the bytes it      *)
(* reads to be those of the packet, not those of an earlier one.           *)
(***************************************************************************)
BufferInv == \A x \in Offsets : x < packet.n => buffer[x] = ByteOf(packet, x)

CursorInv ==
  gpc = "loop" /\ Framed(packet) =>
    /\ ~full
    /\ IF Len(wire) < Len(packet.msgs)
       THEN cur = packet.msgs[Len(wire) + 1].at
       ELSE cur = packet.n

ForwarderInv ==
  /\ ForwarderTypeOK
  /\ gpc = "off" => packet = NoPacket
  /\ BufferInv /\ CursorInv /\ CutAsFramed

LEMMA NothingFramed == ~Framed(NoPacket)
BY DEF NoPacket, Framed

\* At the start of a message the code reads its length.
LEMMA LengthRead ==
  ASSUME ForwarderTypeOK, BufferInv, Framed(packet),
         NEW m \in DOMAIN packet.msgs, cur = packet.msgs[m].at
  PROVE  Size(cur) = Header + packet.msgs[m].len
<1> DEFINE len == packet.msgs[m].len
<1>1. packet \in Packet /\ packet.n \in Nat /\ packet.n <= BufSize
  BY PacketInBuffer
<1>2. len \in Length /\ cur \in Nat
  BY <1>1, PacketType
<1>3. len \in Nat /\ len <= 65535
  <2>1. \A l \in Length : l \in Nat /\ l <= 65535
    BY DEF Length
  <2> QED
    BY <1>2, <2>1
<1>4. cur + Header + len <= packet.n
  BY <1>1, MessageWithin
<1>5. len % 256 < 128 /\ len \div 256 < 128
  BY DEF Framed
<1>6. /\ ByteOf(packet, cur + 6) = len \div 256
      /\ ByteOf(packet, cur + 7) = len % 256
  BY <1>1, FramedBytes
<1> HIDE DEF len
<1>7. /\ cur + 6 \in Offsets /\ cur + 6 < packet.n
      /\ cur + 7 \in Offsets /\ cur + 7 < packet.n
  BY <1>1, <1>2, <1>3, <1>4, ForwarderAssumption DEF Offsets, Header
<1>8. /\ buffer[cur + 6] = len \div 256
      /\ buffer[cur + 7] = len % 256
  BY <1>6, <1>7 DEF BufferInv
<1>9. LengthInt(cur) = 256 * (len \div 256) + (len % 256)
  BY <1>5, <1>8 DEF LengthInt, SignedChar
<1>10. LengthInt(cur) = len
  BY <1>3, <1>9
<1> QED
  BY <1>10 DEF Size, len

LEMMA ForwarderStarts == ForwarderInit => ForwarderInv
<1> SUFFICES ASSUME ForwarderInit PROVE ForwarderInv
  OBVIOUS
<1>1. packet = NoPacket /\ gpc = "off" /\ packet.n = 0
  BY DEF ForwarderInit, NoPacket
<1>2. BufferInv
  BY <1>1, ForwarderAssumption DEF BufferInv, Offsets, Header
<1> QED
  BY <1>1, <1>2, ForwarderTypeInit, NothingFramed
     DEF ForwarderInv, CursorInv, CutAsFramed

LEMMA CutReceive ==
  ASSUME ForwarderInv, NEW p \in Packets, Receive(p)
  PROVE  BufferInv' /\ CursorInv' /\ CutAsFramed'
<1>1. p \in Packet /\ packet' = p /\ wire' = <<>> /\ cur' = 0 /\ full' = FALSE
  BY PacketsKnown DEF Receive
<1>2. BufferInv'
  BY DEF Receive, BufferInv
<1>3. Len(wire') = 0 /\ DOMAIN wire' = {}
  BY <1>1
<1>4. Framed(p) => 0 < Len(p.msgs) /\ p.msgs[1].at = 0
  BY <1>1, PacketType DEF Framed
<1>5. CursorInv'
  BY <1>1, <1>3, <1>4 DEF CursorInv
<1>6. CutAsFramed'
  BY <1>1, <1>3, <1>4 DEF CutAsFramed
<1> QED
  BY <1>2, <1>5, <1>6

LEMMA CutForward ==
  ASSUME ForwarderInv, Forward
  PROVE  CursorInv' /\ CutAsFramed'
<1> SUFFICES ASSUME Framed(packet) PROVE CursorInv' /\ CutAsFramed'
  BY DEF Forward, CursorInv, CutAsFramed
<1> DEFINE msgs == packet.msgs
           n == packet.n
           m == Len(wire) + 1
<1>1. /\ packet' = packet /\ gpc = "loop" /\ gpc' = "loop" /\ full' = full
      /\ cur < n /\ ~full /\ n \in Nat
      /\ wire \in Seq(Written) /\ Len(wire) \in Nat
      /\ packet \in Packet /\ DOMAIN msgs = 1 .. Len(msgs) /\ Len(msgs) \in Nat
  BY PacketInBuffer, PacketType
     DEF Forward, ForwarderInv, ForwarderTypeOK, CursorInv
<1>2. Len(wire) < Len(msgs) /\ cur = msgs[m].at /\ m \in DOMAIN msgs
  BY <1>1 DEF ForwarderInv, CursorInv, CutAsFramed
<1>3. Size(cur) = Header + msgs[m].len
  BY <1>2, LengthRead DEF ForwarderInv
<1>4. msgs[m].len \in Nat
  BY <1>1, <1>2, PacketType
<1>5. Size(cur) # 0 /\ cur' = cur + Size(cur)
  BY <1>3, <1>4 DEF Forward, Header
<1> DEFINE Write(b) == [at |-> cur, size |-> Size(cur), whole |-> b]
<1>taken. PICK b \in BOOLEAN : wire' = Append(wire, Write(b))
  BY <1>5 DEF Forward
<1> HIDE DEF Write
<1>6. Len(wire') = m /\ DOMAIN wire' = 1 .. m /\ DOMAIN wire = 1 .. Len(wire)
  BY <1>1, <1>taken
<1>7. /\ \A k \in DOMAIN wire : wire'[k] = wire[k]
      /\ wire'[m].at = cur /\ wire'[m].size = Size(cur)
  <2>1. /\ \A k \in DOMAIN wire : wire'[k] = wire[k]
        /\ wire'[m] = Write(b)
    BY <1>1, <1>taken
  <2>2. Write(b).at = cur /\ Write(b).size = Size(cur)
    BY DEF Write
  <2> QED
    BY <2>1, <2>2
<1>8. IF m = Len(msgs) THEN cur' = n
      ELSE m + 1 \in DOMAIN msgs /\ cur' = msgs[m + 1].at
  <2>1. IF m = Len(msgs) THEN msgs[m].at + Header + msgs[m].len = n
        ELSE /\ m + 1 \in DOMAIN msgs
             /\ msgs[m].at + Header + msgs[m].len = msgs[m + 1].at
    BY <1>1, <1>2, FramedEnds
  <2>2. msgs[m].at \in Nat
    BY <1>1, <1>2, PacketType
  <2>3. cur' = msgs[m].at + Header + msgs[m].len
    <3>1. cur' = msgs[m].at + (8 + msgs[m].len)
      BY <1>2, <1>3, <1>5 DEF Header
    <3> DEFINE a == msgs[m].at
               l == msgs[m].len
    <3>2. a \in Nat /\ l \in Nat /\ cur' = a + (8 + l)
      BY <1>4, <2>2, <3>1
    <3> HIDE DEF a, l
    <3>3. cur' = a + 8 + l
      BY <3>2
    <3> QED
      BY <3>3 DEF a, l, Header
  <2> QED
    BY <2>1, <2>3
<1>9. CursorInv'
  BY <1>1, <1>2, <1>6, <1>8 DEF CursorInv
<1>10. \A k \in DOMAIN wire' :
         /\ wire'[k].at = msgs[k].at
         /\ wire'[k].size = Header + msgs[k].len
  <2> TAKE k \in DOMAIN wire'
  <2>1. CASE k = m
    BY <1>2, <1>3, <1>7, <2>1
  <2>2. CASE k # m
    <3>1. k \in DOMAIN wire
      BY <1>1, <1>6, <2>2
    <3> QED
      BY <1>1, <1>7, <3>1 DEF ForwarderInv, CutAsFramed
  <2> QED
    BY <2>1, <2>2
<1>11. CutAsFramed'
  BY <1>1, <1>2, <1>6, <1>10 DEF CutAsFramed
<1> QED
  BY <1>9, <1>11

LEMMA ForwarderInductive ==
  ForwarderInv /\ [ForwarderNext]_forwarderVars => ForwarderInv'
<1> SUFFICES ASSUME ForwarderInv, [ForwarderNext]_forwarderVars
             PROVE  ForwarderInv'
  OBVIOUS
<1>1. ForwarderTypeOK'
  BY ForwarderTypeStep DEF ForwarderInv
<1>2. CASE OpenSockets
  <2>1. packet = NoPacket /\ packet' = NoPacket /\ gpc' # "off" /\ packet.n = 0
    BY <1>2 DEF OpenSockets, ForwarderInv, NoPacket
  <2>2. BufferInv'
    BY <2>1, ForwarderAssumption DEF BufferInv, Offsets, Header
  <2> QED
    BY <1>1, <2>1, <2>2, NothingFramed DEF ForwarderInv, CursorInv, CutAsFramed
<1>3. ASSUME NEW p \in Packets, Receive(p) PROVE ForwarderInv'
  BY <1>1, <1>3, CutReceive DEF ForwarderInv, Receive
<1>4. CASE Forward
  BY <1>1, <1>4, CutForward DEF ForwarderInv, Forward, BufferInv
<1>5. CASE GiveUp \/ WriteFails
  BY <1>1, <1>5
     DEF ForwarderInv, GiveUp, WriteFails, BufferInv, CursorInv, CutAsFramed
<1>6. CASE PacketDone
  <2>1. /\ UNCHANGED <<buffer, packet, cur, wire, full>>
        /\ gpc = "loop" /\ gpc' = "recv" /\ cur >= packet.n
    BY <1>6 DEF PacketDone
  <2>2. ASSUME Framed(packet) PROVE Len(wire) = Len(packet.msgs)
    <3>1. /\ packet \in Packet /\ packet.n \in Nat
          /\ DOMAIN packet.msgs = 1 .. Len(packet.msgs)
          /\ Len(packet.msgs) \in Nat /\ Len(wire) \in Nat
          /\ Len(wire) <= Len(packet.msgs)
      BY <2>1, <2>2, PacketInBuffer, PacketType
         DEF ForwarderInv, ForwarderTypeOK, CutAsFramed
    <3>2. ASSUME Len(wire) < Len(packet.msgs) PROVE FALSE
      <4> DEFINE m == Len(wire) + 1
      <4>1. m \in DOMAIN packet.msgs /\ cur = packet.msgs[m].at
        BY <2>1, <2>2, <3>1, <3>2 DEF ForwarderInv, CursorInv
      <4>2. packet.msgs[m].at + Header + packet.msgs[m].len <= packet.n
        BY <2>2, <3>1, <4>1, MessageWithin
      <4>3. packet.msgs[m].at \in Nat /\ packet.msgs[m].len \in Nat
        BY <3>1, <4>1, PacketType
      <4> QED
        BY <2>1, <3>1, <4>1, <4>2, <4>3 DEF Header
    <3> QED
      BY <3>1, <3>2
  <2> QED
    BY <1>1, <2>1, <2>2 DEF ForwarderInv, BufferInv, CursorInv, CutAsFramed
<1>7. CASE UNCHANGED forwarderVars
  BY <1>1, <1>7
     DEF forwarderVars, ForwarderInv, BufferInv, CursorInv, CutAsFramed
<1> QED
  BY <1>2, <1>3, <1>4, <1>5, <1>6, <1>7 DEF ForwarderNext

\* For any packets, in any order: what the forwarder asks to be written of a
\* framed packet are its messages, in order, none left out and each in its full
\* size, up to where the connection was full (my_grub.c:89-102), whatever an
\* earlier packet has left in the buffer.
THEOREM CutCorrect == ForwarderSpec => []CutAsFramed
<1>1. ForwarderInv => CutAsFramed
  BY DEF ForwarderInv
<1> QED
  BY <1>1, ForwarderStarts, ForwarderInductive, PTL DEF ForwarderSpec
=============================================================================
