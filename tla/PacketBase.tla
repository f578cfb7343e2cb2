------------------------------ MODULE PacketBase ------------------------------
(***************************************************************************)
(* The buffer of a packet: class PacketBase of Server/Packet.h, of which   *)
(* DataPacketBase in Server/Data_PacketBase.h is a copy.  A packet is the  *)
(* bytes of m_strBuf up to m_nPacketSize, the position m_nBufPos of the    *)
(* next read, and m_isCheckCode of an output packet.  The rest of m_strBuf *)
(* is zero and is never looked at.                                         *)
(*                                                                         *)
(* Numbers are two's complement, of n bytes with the most significant one  *)
(* first; writes and reads that do not fit change nothing, and a read that *)
(* fails leaves its result at -1.                                          *)
(***************************************************************************)
EXTENDS Integers, SequencesExt

CONSTANT BufferSize   \* PACKET_BUFFER_SIZE, 8192 in the code

HeaderSize == 9       \* PACKET_HEADER_SIZE, sizeof(TPkgHeader)

\* A buffer has room for the header and one short.
ASSUME BufferAssumption == BufferSize \in Nat /\ BufferSize >= HeaderSize + 2

ShortSize == 2        \* sizeof(short)
IntSize == 4          \* sizeof(int)

\* The header: the length of what follows it, 'B' 'Y', the version and the
\* subversion, the command, and the check code.
LengthAt == 0
MagicAt == 2
VersionAt == 4
CmdAt == 6
CodeAt == 8
Magic == <<66, 89>>
Version == <<1, 1>>

-----------------------------------------------------------------------------
(* Numbers in memory                                                       *)

Bytes(v, n) == [i \in 1..n |-> (v \div 256^(n - i)) % 256]

Number(bytes) ==
  FoldLeft(LAMBDA v, b : 256 * v + b, IF bytes[1] >= 128 THEN -1 ELSE 0, bytes)

\* The same number in an unsigned variable of two bytes.
Unsigned(bytes) == Number(<<0>> \o bytes)

\* What remains of an int in a short.
ToShort(v) == Number(Bytes(v, ShortSize))

-----------------------------------------------------------------------------
(* The methods of PacketBase                                               *)

Reset == [buf |-> [i \in 1..HeaderSize |-> 0], pos |-> HeaderSize, coded |-> FALSE]

\* Mutant: the position is reset before the length is looked at.
CopyResets(p, bytes) ==
  [p EXCEPT !.buf = IF Len(bytes) > BufferSize THEN @ ELSE bytes, !.pos = HeaderSize]

\* Of a packet that is too long nothing is copied, and the old one stays.
Copy(p, bytes) ==
  IF Len(bytes) > BufferSize THEN p
  ELSE [p EXCEPT !.buf = bytes, !.pos = HeaderSize]

ReadHeader(p, n, at) == SubSeq(p.buf, at + 1, at + n)

WriteHeader(p, bytes, at) ==
  [p EXCEPT !.buf = SubSeq(@, 1, at) \o bytes \o SubSeq(@, at + Len(bytes) + 1, Len(@))]

Write(p, bytes) ==
  IF Len(p.buf) + Len(bytes) > BufferSize THEN p ELSE [p EXCEPT !.buf = @ \o bytes]

Readable(p, n) == p.pos + n <= Len(p.buf)

\* The bytes a read of n bytes takes, and the packet afterwards.
Peek(p, n) == SubSeq(p.buf, p.pos + 1, p.pos + n)
Skip(p, n) == [p EXCEPT !.pos = @ + n]
=============================================================================
