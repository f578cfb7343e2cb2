------------------------------ MODULE DataPacket ------------------------------
(***************************************************************************)
(* DataNETInputPacket and DataNETOutputPacket of Server/Data_PacketBase.h, *)
(* the packets of the link to the TJ server: the buffer of PacketBase with *)
(* every number as it lies in memory, least significant byte first on the  *)
(* machines the server is built for.                                       *)
(***************************************************************************)
EXTENDS PacketBase

HostBytes(v, n) == Reverse(Bytes(v, n))
HostNumber(bytes) == Number(Reverse(bytes))

DataBegin(cmd) ==
  WriteHeader(WriteHeader(WriteHeader(Reset, Magic, MagicAt), Version, VersionAt),
              HostBytes(cmd, ShortSize), CmdAt)

DataEnd(p) ==
  WriteHeader(WriteHeader(p, HostBytes(Len(p.buf) - ShortSize, ShortSize), LengthAt),
              <<0>>, CodeAt)

\* Mutant: a number that does not fit is cut.
DataWriteCut(p, v, n) ==
  LET room == BufferSize - Len(p.buf)
  IN  Write(p, SubSeq(HostBytes(v, n), 1, IF n < room THEN n ELSE room))

\* WriteInt and WriteShort
DataWrite(p, v, n) == Write(p, HostBytes(v, n))

\* ReadInt and ReadShort
DataRead(p, n) ==
  IF Readable(p, n) THEN [v |-> HostNumber(Peek(p, n)), p |-> Skip(p, n)]
  ELSE [v |-> -1, p |-> p]

DataGetCmdType(p) == HostNumber(ReadHeader(p, ShortSize, CmdAt))
DataGetBodyLength(p) == HostNumber(ReadHeader(p, ShortSize, LengthAt))
=============================================================================
