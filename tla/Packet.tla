-------------------------------- MODULE Packet --------------------------------
(***************************************************************************)
(* InputPacket and OutputPacket of Server/Packet.h and Server/Packet.cpp:  *)
(* fields in network byte order, strings and binaries with their length in *)
(* front, and the substitution of the bytes of a body with a check code    *)
(* that makes their sum zero.                                              *)
(*                                                                         *)
(* A read returns its value v and the packet p afterwards.                 *)
(***************************************************************************)
EXTENDS PacketBase

CONSTANT TempSize   \* sizeof(szTemp), 10240 in the code

NoLength == -1
NoBinary == <<-1>>   \* the error of ReadBinary

-----------------------------------------------------------------------------
(* OutputPacket                                                            *)

Begin(cmd) ==
  WriteHeader(WriteHeader(WriteHeader(Reset, Magic, MagicAt), Version, VersionAt),
              Bytes(cmd, ShortSize), CmdAt)

\* The length does not count the two bytes that hold it.
End(p) ==
  WriteHeader(WriteHeader([p EXCEPT !.coded = FALSE],
                          Bytes(Len(p.buf) - ShortSize, ShortSize), LengthAt), <<0>>, CodeAt)

WriteInt(p, v) == Write(p, Bytes(v, IntSize))
WriteShort(p, v) == Write(p, Bytes(v, ShortSize))

\* The body is written even if its length was not, and the other way round.
WriteBinary(p, bytes) == Write(WriteInt(p, Len(bytes)), bytes)

\* A string is counted and written with the zero that ends it.  The zero is
\* written only after the characters.
WriteString(p, chars) ==
  LET q == WriteInt(p, Len(chars) + 1)
  IN  IF Len(q.buf) + Len(chars) > BufferSize THEN q ELSE Write(Write(q, chars), <<0>>)

-----------------------------------------------------------------------------
(* InputPacket                                                             *)

ReadNumber(p, n) ==
  IF Readable(p, n) THEN [v |-> Number(Peek(p, n)), p |-> Skip(p, n)]
  ELSE [v |-> -1, p |-> p]

ReadInt(p) == ReadNumber(p, IntSize)
ReadShort(p) == ReadNumber(p, ShortSize)

\* The bytes that follow a length that has been read, or none.
ReadBody(r, n) ==
  IF Readable(r.p, n) THEN [v |-> Peek(r.p, n), p |-> Skip(r.p, n)]
  ELSE [v |-> <<>>, p |-> r.p]

\* ReadBinary into a buffer of TempSize bytes: an error is told from an empty
\* binary, but a body that is not there is an empty binary.
ReadBinary(p) ==
  LET r == ReadInt(p)
  IN  IF r.v = NoLength THEN [v |-> NoBinary, p |-> r.p]
      ELSE IF r.v > TempSize THEN [v |-> NoBinary, p |-> p]
      ELSE ReadBody(r, r.v)

\* ReadString: the characters in front of the first zero.
ReadString(p) ==
  LET r == ReadInt(p)
      chars == SubSeq(r.p.buf, r.p.pos + 1, Len(r.p.buf)) \o <<0>>
  IN  IF r.v = NoLength \/ ~Readable(r.p, r.v) THEN [v |-> <<>>, p |-> r.p]
      ELSE [v |-> SubSeq(chars, 1, SelectInSeq(chars, LAMBDA c : c = 0) - 1),
            p |-> Skip(r.p, r.v)]

GetCmdType(p) == Number(ReadHeader(p, ShortSize, CmdAt))
GetBodyLength(p) == Number(ReadHeader(p, ShortSize, LengthAt))
GetcbCheckCode(p) == p.buf[CodeAt + 1]

-----------------------------------------------------------------------------
(* The substitution of bytes                                               *)

RecvByteMap == <<
    81, 161, 158, 176, 30, 131, 28, 45, 233, 119, 61, 19, 147, 16, 69, 255,
    109, 201, 32, 47, 27, 130, 26, 125, 245, 207, 82, 168, 210, 164, 180, 11,
    49, 151, 87, 25, 52, 223, 91, 65, 88, 73, 170, 95, 10, 239, 136, 1,
    220, 149, 212, 175, 123, 227, 17, 142, 157, 22, 97, 140, 132, 60, 31, 90,
    2, 79, 57, 254, 4, 7, 92, 139, 238, 102, 51, 196, 200, 89, 181, 93,
    194, 108, 246, 77, 251, 174, 74, 75, 243, 53, 44, 202, 33, 120, 59, 3,
    253, 36, 189, 37, 55, 41, 172, 78, 249, 146, 58, 50, 76, 218, 6, 94,
    0, 148, 96, 236, 23, 152, 215, 62, 203, 106, 169, 217, 156, 187, 8, 143,
    64, 160, 111, 85, 103, 135, 84, 128, 178, 54, 71, 34, 68, 99, 5, 107,
    240, 15, 199, 144, 197, 101, 226, 100, 250, 213, 219, 18, 122, 14, 216, 126,
    153, 209, 232, 214, 134, 39, 191, 193, 110, 222, 154, 9, 13, 171, 225, 145,
    86, 205, 179, 118, 12, 195, 211, 159, 66, 182, 155, 229, 35, 167, 173, 24,
    198, 244, 184, 190, 21, 67, 112, 224, 231, 188, 241, 186, 165, 166, 83, 117,
    228, 235, 230, 133, 20, 72, 221, 56, 42, 204, 127, 177, 192, 113, 150, 248,
    63, 40, 242, 105, 116, 104, 183, 163, 80, 208, 121, 29, 252, 206, 138, 141,
    46, 98, 48, 234, 237, 43, 38, 185, 129, 124, 70, 137, 115, 162, 247, 114 >>

SendByteMap == <<
    112, 47, 64, 95, 68, 142, 110, 69, 126, 171, 44, 31, 180, 172, 157, 145,
    13, 54, 155, 11, 212, 196, 57, 116, 191, 35, 22, 20, 6, 235, 4, 62,
    18, 92, 139, 188, 97, 99, 246, 165, 225, 101, 216, 245, 90, 7, 240, 19,
    242, 32, 107, 74, 36, 89, 137, 100, 215, 66, 106, 94, 61, 10, 119, 224,
    128, 39, 184, 197, 140, 14, 250, 138, 213, 41, 86, 87, 108, 83, 103, 65,
    232, 0, 26, 206, 134, 131, 176, 34, 40, 77, 63, 38, 70, 79, 111, 43,
    114, 58, 241, 141, 151, 149, 73, 132, 229, 227, 121, 143, 81, 16, 168, 130,
    198, 221, 255, 252, 228, 207, 179, 9, 93, 234, 156, 52, 249, 23, 159, 218,
    135, 248, 21, 5, 60, 211, 164, 133, 46, 251, 238, 71, 59, 239, 55, 127,
    147, 175, 105, 12, 113, 49, 222, 33, 117, 160, 170, 186, 124, 56, 2, 183,
    129, 1, 253, 231, 29, 204, 205, 189, 27, 122, 42, 173, 102, 190, 85, 51,
    3, 219, 136, 178, 30, 78, 185, 230, 194, 247, 203, 125, 201, 98, 195, 166,
    220, 167, 80, 181, 75, 148, 192, 146, 76, 17, 91, 120, 217, 177, 237, 25,
    233, 161, 28, 182, 50, 153, 163, 118, 158, 123, 109, 154, 48, 214, 169, 37,
    199, 174, 150, 53, 208, 187, 210, 200, 162, 8, 243, 209, 115, 244, 72, 45,
    144, 202, 226, 88, 193, 24, 82, 254, 223, 104, 152, 84, 236, 96, 67, 15 >>

\* The bytes of the body, by the length in the header.
DataSize(p) == GetBodyLength(p) - HeaderSize + ShortSize

\* Mutant: the sums leave out the last byte.
BodyButLast(p) == SubSeq(p.buf, HeaderSize + 1, HeaderSize + DataSize(p) - 1)

Body(p) == SubSeq(p.buf, HeaderSize + 1, HeaderSize + DataSize(p))
Sum256(bytes) == FoldLeft(LAMBDA s, b : (s + b) % 256, 0, bytes)

Substitute(p, map) ==
  [p EXCEPT !.buf = [i \in DOMAIN @ |->
     IF i > HeaderSize /\ i <= HeaderSize + DataSize(p) THEN map[@[i] + 1] ELSE @[i]]]

\* Nothing is done to a packet that has its check code.
EncryptBuffer(p) ==
  IF p.coded THEN p
  ELSE [WriteHeader(Substitute(p, SendByteMap), <<(-Sum256(Body(p))) % 256>>, CodeAt)
          EXCEPT !.coded = TRUE]

CrevasseBuffer(p) == Substitute(p, RecvByteMap)

\* CrevasseBuffer returns an error unless the sum with the check code is zero.
SumIsZero(p) == (GetcbCheckCode(p) + Sum256(Body(p))) % 256 = 0
=============================================================================
