------------------------------ MODULE Forwarder ------------------------------
(***************************************************************************)
(* The packet forwarder (my_grub.c).  It captures the packets of a network *)
(* card, and of each that is sent to port 9527 from elsewhere it takes the *)
(* messages of the payload apart and writes each to the distributor, over  *)
(* a connection that does not block.                                       *)
(*                                                                         *)
(* A message is a header of Header bytes, the last two of which hold the   *)
(* length of what follows.  Offsets count from byte 54 of the packet,      *)
(* where the code takes the payload to begin.                              *)
(***************************************************************************)
EXTENDS Integers, Sequences

CONSTANTS
  Packets,  \* the packets that may be captured
  BufSize,  \* bytes of buffer that a packet may fill
  Garbage   \* bytes the buffer, which is not initialized, may start with

Header == 8

(***************************************************************************)
(* A packet: own, it comes from 127.x; ours, it is a plain IPv4 packet to  *)
(* port 9527; someip_len, the length of its payload by its own headers;    *)
(* n, the bytes captured; msgs, its messages, each from an offset and of a *)
(* length, the last of which may go on in a later packet; fill, the value  *)
(* of all bytes but the length bytes.  TCP options put the first message   *)
(* past offset 0, and padding puts n past the end of the last.             *)
(***************************************************************************)
Byte == 0 .. 255
Length == 0 .. 65535
Message == [at : Nat, len : Length]
Captured == 0 .. BufSize

Packet ==
  [own : BOOLEAN, ours : BOOLEAN, someip_len : Int, n : Captured,
   msgs : Seq(Message), fill : Byte]

ASSUME ForwarderAssumption ==
  /\ BufSize \in Nat
  /\ Packets \subseteq Packet
  /\ Garbage \subseteq Byte /\ Garbage # {}

VARIABLES
  gpc,     \* where the program is
  buffer,  \* the buffer, which keeps the tail of earlier packets
  packet,  \* the packet in it: n, and for the properties the rest
  cur,     \* the offset of the message to write next
  wire,    \* history: the writes made for the packet, in order
  full     \* history: a write for the packet met a full connection

forwarderVars == <<gpc, buffer, packet, cur, wire, full>>

NoPacket ==
  [own |-> TRUE, ours |-> FALSE, someip_len |-> 0, n |-> 0,
   msgs |-> <<>>, fill |-> 0]

\* cur[6] and cur[7] may be read past n.
Offsets == 0 .. BufSize + Header - 1

\* A write: where the message starts, the size asked for, and whether the
\* connection took all of it.
Written == [at : Nat, size : Nat \ {0}, whole : BOOLEAN]

ForwarderTypeOK ==
  /\ gpc \in {"off", "recv", "loop", "exited"}
  /\ buffer \in [Offsets -> Byte]
  /\ packet \in Packets \cup {NoPacket}
  /\ cur \in Nat
  /\ wire \in Seq(Written)
  /\ full \in BOOLEAN

ForwarderInit ==
  /\ gpc = "off"
  /\ buffer = [x \in Offsets |-> 0]
  /\ packet = NoPacket
  /\ cur = 0
  /\ wire = <<>>
  /\ full = FALSE

\* The messages that have the high, and the low, byte of their length at x.
High(p, x) == {k \in DOMAIN p.msgs : p.msgs[k].at + 6 = x}
Low(p, x) == {k \in DOMAIN p.msgs : p.msgs[k].at + 7 = x}

ByteOf(p, x) ==
  IF High(p, x) # {} THEN p.msgs[CHOOSE k \in High(p, x) : TRUE].len \div 256
  ELSE IF Low(p, x) # {} THEN p.msgs[CHOOSE k \in Low(p, x) : TRUE].len % 256
  ELSE p.fill

\* A char is signed.
SignedChar(b) == IF b < 128 THEN b ELSE b - 256

LengthInt(x) == 256 * SignedChar(buffer[x + 6]) + SignedChar(buffer[x + 7])

\* Mutant: the header is forgotten.
SizeOfRest(x) == LengthInt(x)

Size(x) == Header + LengthInt(x)

\* The connection to the distributor and the capturing socket are set up; any
\* failure ends the program.  The buffer holds whatever the stack held.
OpenSockets ==
  /\ gpc = "off"
  /\ gpc' \in {"recv", "exited"}
  /\ \E b \in Garbage : buffer' = [x \in Offsets |-> b]
  /\ UNCHANGED <<packet, cur, wire, full>>

\* recvfrom() overwrites the buffer from its start.  Packets that are not
\* meant are skipped.
Receive(p) ==
  /\ gpc = "recv"
  /\ buffer' = [x \in Offsets |-> IF x < p.n THEN ByteOf(p, x) ELSE buffer[x]]
  /\ packet' = p
  /\ gpc' = IF ~p.own /\ p.ours /\ p.someip_len > 0 THEN "loop" ELSE "recv"
  /\ cur' = 0
  /\ wire' = <<>>
  /\ full' = FALSE

\* write() takes the message, or a part of it if there is room for no more.  The
\* loop tells the two apart by nothing: it moves on by the size it asked for, so
\* that the rest of the message is lost and the next one follows its first part.
\* A write of no bytes succeeds and moves nothing.
Forward ==
  /\ gpc = "loop" /\ cur < packet.n /\ Size(cur) >= 0
  /\ \/ Size(cur) = 0 /\ UNCHANGED wire
     \/ \E whole \in BOOLEAN :
          /\ Size(cur) > 0 /\ (Size(cur) = 1 => whole)
          /\ wire' = Append(wire, [at |-> cur, size |-> Size(cur),
                                   whole |-> whole])
  /\ cur' = cur + Size(cur)
  /\ UNCHANGED <<gpc, buffer, packet, full>>

\* Mutant: the message is given up, and not the packet.
SkipMessage ==
  /\ gpc = "loop" /\ cur < packet.n /\ Size(cur) > 0
  /\ cur' = cur + Size(cur)
  /\ full' = TRUE
  /\ UNCHANGED <<gpc, buffer, packet, wire>>

\* EAGAIN: the rest of the packet is given up.
GiveUp ==
  /\ gpc = "loop" /\ cur < packet.n /\ Size(cur) > 0
  /\ gpc' = "recv"
  /\ full' = TRUE
  /\ UNCHANGED <<buffer, packet, cur, wire>>

\* Any other error of write() ends the program: the distributor is gone, or
\* the size is negative, or reaches past the stack.
WriteFails ==
  /\ gpc = "loop" /\ cur < packet.n
  /\ gpc' = "exited"
  /\ UNCHANGED <<buffer, packet, cur, wire, full>>

PacketDone ==
  /\ gpc = "loop" /\ cur >= packet.n
  /\ gpc' = "recv"
  /\ UNCHANGED <<buffer, packet, cur, wire, full>>

ForwarderNext ==
  \/ OpenSockets
  \/ \E p \in Packets : Receive(p)
  \/ Forward \/ GiveUp \/ WriteFails \/ PacketDone

ForwarderSpec == ForwarderInit /\ [][ForwarderNext]_forwarderVars

\* The loop over a packet goes on; nothing makes a packet arrive, and nothing
\* makes the write of no bytes fail.
ForwarderFairness ==
  WF_forwarderVars(\/ Forward \/ GiveUp \/ PacketDone
                   \/ WriteFails /\ Size(cur) # 0)
-----------------------------------------------------------------------------
\* A packet whose messages fill its payload, from offset 0 on, and whose length
\* bytes a signed char can hold.
Framed(p) ==
  LET End(k) == p.msgs[k].at + Header + p.msgs[k].len
  IN  /\ p.msgs # <<>> /\ p.msgs[1].at = 0 /\ End(Len(p.msgs)) = p.n
      /\ \A k \in 2 .. Len(p.msgs) : p.msgs[k].at = End(k - 1)
      /\ \A k \in DOMAIN p.msgs :
           p.msgs[k].len % 256 < 128 /\ p.msgs[k].len \div 256 < 128

\* Of such a packet the messages are asked to be written in order, none left out
\* and each in its full size, up to the point where the connection was full;
\* after that none is.  (How much of a message was taken is not looked at, by
\* this property or by the code: see whole.)
CutAsFramed ==
  Framed(packet) /\ gpc \in {"recv", "loop"} =>
    /\ Len(wire) <= Len(packet.msgs)
    /\ \A k \in DOMAIN wire :
         /\ wire[k].at = packet.msgs[k].at
         /\ wire[k].size = Header + packet.msgs[k].len
    /\ gpc = "recv" /\ ~full /\ wire # <<>> => Len(wire) = Len(packet.msgs)

\* A turn of the loop that changes anything moves the cursor towards the end of
\* the packet, whatever the length bytes are.
LoopAdvances == [][gpc = "loop" /\ gpc' = "loop" => cur' > cur]_forwarderVars

\* A turn that changes nothing has met a length of 248.
StuckAt248 ==
  gpc = "loop" /\ cur < packet.n /\ Size(cur) = 0 =>
    <<buffer[cur + 6], buffer[cur + 7]>> = <<0, 248>>

\* The loop over a packet ends whatever its bytes are, unless it meets a length
\* of 248, which the signed char makes -8: the cursor then stays where it is.
PacketEnds ==
  LET Spinning == /\ cur < packet.n
                  /\ <<buffer[cur + 6], buffer[cur + 7]>> = <<0, 248>>
  IN  gpc = "loop" ~> gpc # "loop" \/ Spinning
=============================================================================
