------------------------------ MODULE PacketFlow ------------------------------
(***************************************************************************)
(* What the packets say: halls send requests of their users and of their   *)
(* own, the TJ server sends the totals of the levels and reads the reports *)
(* of this server, all of it byte by byte (Server/ClientHandler.cpp,       *)
(* Server/CBackServer.cpp, Server/Options.cpp).                            *)
(*                                                                         *)
(* The peers are external; they build and read packets with the same       *)
(* classes.  An exchange is one step: a packet, its handler, and what the  *)
(* peer reads of the answer.  Which user sits where is UserServer's        *)
(* matter: here a request for a user finds anything.                       *)
(***************************************************************************)
EXTENDS Packet, DataPacket

CONSTANTS
  Requests,    \* lists of levels that a user may ask for
  Totals,      \* what the TJ server may send: [rows, more], lists of <<level, play,
               \* look>> and of fields behind them that ProcessSynData does not read
  Stats,       \* what CStat may hold: [levels, types], lists of rows
  Tables,      \* what a user may be found at: [tid, ip, port, level]
  Uids, Svids, \* users and halls
  Draws,       \* what GetRand may return, one after the other
  AddCount,    \* m_nAddCount
  ServerId,    \* Options::server_id
  Garbles,     \* what may be added to one byte of a user's request
  Trailers     \* what a hall may put behind the fields that a handler reads

ASSUME FlowAssumption ==
  /\ \A d \in Draws : \A n \in 1..256 : d[n] \in Nat
  /\ AddCount \in Int /\ Garbles \subseteq 1..255
  /\ Uids \subseteq Nat \ {0} /\ Svids \subseteq Nat /\ TempSize >= BufferSize

VARIABLES
  pPacket,     \* ClientHandler::pPacket, which lives as long as the connection
  backPacket,  \* CBackServer::pPacket, which lives as long as the process
  levelTotal,  \* Options::m_LevelTotalMgr: the players of the levels
  last         \* the last exchange: what was asked, drawn and read (for properties)

vars == <<pPacket, backPacket, levelTotal, last>>

CLIENT_PACKET == 1
CLIENT_PACKET2 == 4
SYS_GET_USER_TABLE == 32
GET_USER_HALLID == 161
CMD_GET_ROOM_LEVER_NUM == 785
SYS_SYN_DATA == 1293

NoAnswer == <<>>
NoTable == [tid |-> 0, ip |-> <<>>, port |-> 0, level |-> -1]

-----------------------------------------------------------------------------
(* Rows of fields, each a value with its size                              *)

WriteFields(p, fields) == FoldLeft(LAMBDA q, f : Write(q, Bytes(f[1], f[2])), p, fields)
DataWriteFields(p, fields) == FoldLeft(LAMBDA q, f : DataWrite(q, f[1], f[2]), p, fields)

ReadFields(p, sizes) ==
  FoldLeft(LAMBDA r, n : LET x == ReadNumber(r.p, n) IN [v |-> Append(r.v, x.v), p |-> x.p],
           [v |-> <<>>, p |-> p], sizes)
DataReadFields(p, sizes) ==
  FoldLeft(LAMBDA r, n : LET x == DataRead(r.p, n) IN [v |-> Append(r.v, x.v), p |-> x.p],
           [v |-> <<>>, p |-> p], sizes)

\* The same sizes n times; not once for a count of -1.
Times(n, sizes) == IF n < 1 THEN <<>> ELSE FlattenSeq([i \in 1..n |-> sizes])

\* The values of a list of rows as fields of the given sizes, and back.
AsFields(rows, sizes) ==
  FlattenSeq([i \in DOMAIN rows |-> [j \in DOMAIN sizes |-> <<rows[i][j], sizes[j]>>]])
AsRows(values, k) ==
  [i \in 1..Len(values) \div k |-> SubSeq(values, k * (i - 1) + 1, k * i)]

-----------------------------------------------------------------------------
(* What arrives                                                            *)

\* The decoders cut a stream by the length in the header.
GetPacketLen(bytes) == ShortSize + Unsigned(SubSeq(bytes, 1, ShortSize))
DataGetPacketLen(bytes) == ShortSize + HostNumber(SubSeq(bytes, 1, ShortSize))

\* A packet in a packet: its head is there and its length is right.
CheckPacketComplete(bytes) ==
  /\ Len(bytes) >= HeaderSize
  /\ GetPacketLen(bytes) <= BufferSize
  /\ Len(bytes) = GetPacketLen(bytes)

\* ProcessSubPacket up to the inner packet, which is NoBinary if there is none.
ReadSubPacket(p) ==
  LET r == ReadFields(p, IF GetCmdType(p) = CLIENT_PACKET THEN <<IntSize, IntSize>>
                         ELSE <<IntSize, IntSize, IntSize, ShortSize>>)
      b == ReadBinary(r.p)
  IN  [uid |-> r.v[1], svid |-> r.v[2], inner |-> b.v, p |-> b.p]

\* The packet of the user, if it passes every check.
Decoded(inner) == CrevasseBuffer(Copy(Reset, inner))
Acceptable(inner) ==
  inner # NoBinary /\ CheckPacketComplete(inner) /\ SumIsZero(Decoded(inner))

-----------------------------------------------------------------------------
(* The handlers' answers                                                   *)

SendClientPacket(uid, svid, p) ==
  End(WriteBinary(WriteFields(Begin(CLIENT_PACKET), <<<<uid, IntSize>>, <<svid, IntSize>>>>),
                  EncryptBuffer(p).buf))

GetLevelCount(level) ==
  IF level \in DOMAIN levelTotal THEN levelTotal[level].play ELSE 0

\* For every level its number of players, with something added at random.  The
\* number is an int that is sent as a short.
ProcessGetRoomLevelNum(sub, rand) ==
  LET n == ReadShort(Decoded(sub.inner))
      asked == ReadFields(n.p, Times(n.v, <<ShortSize>>)).v
      rows == [i \in 1..n.v |-> <<asked[i],
                 ToShort(GetLevelCount(asked[i]) + rand[i] + AddCount)>>]
  IN  SendClientPacket(sub.uid, sub.svid,
        End(WriteFields(WriteShort(Begin(CMD_GET_ROOM_LEVER_NUM), n.v),
                        AsFields(rows, <<ShortSize, ShortSize>>))))

\* The two answers of ProcessGetUserTable: to a user at a table where its server
\* is, to any other what it has asked for.
GetUserTableReply(v, t) ==
  IF t.tid > 0
  THEN WriteFields(
         WriteString(WriteFields(Begin(SYS_GET_USER_TABLE),
                       <<<<v[1], IntSize>>, <<v[2], IntSize>>, <<1, IntSize>>,
                         <<t.tid, IntSize>>, <<ToShort(t.tid \div 65536), ShortSize>>>>),
                     t.ip),
         <<<<t.port, IntSize>>, <<t.level, ShortSize>>>>)
  ELSE WriteFields(Begin(SYS_GET_USER_TABLE),
         <<<<v[1], IntSize>>, <<v[2], IntSize>>, <<0, IntSize>>,
           <<v[3], ShortSize>>, <<v[4], IntSize>>>>)

ProcessGetUserHallID(uid, hall) ==
  End(WriteFields(Begin(GET_USER_HALLID), <<<<uid, IntSize>>, <<hall, IntSize>>>>))

-----------------------------------------------------------------------------
(* ProcessPacket: what is sent for the packet p, and p afterwards, where    *)
(* rand is drawn and the user of a request is found at t and in that hall.  *)
(* No user has a number that is not positive.                               *)

TableSizes == <<IntSize, IntSize, ShortSize, IntSize>>

ProcessSubPacket(sub, rand) ==
  [out |-> IF Acceptable(sub.inner) /\ GetCmdType(Decoded(sub.inner)) = CMD_GET_ROOM_LEVER_NUM
           THEN <<ProcessGetRoomLevelNum(sub, rand).buf>> ELSE <<>>,
   p |-> sub.p]

ProcessGetUserTable(r, t) ==
  [out |-> <<End(GetUserTableReply(r.v, IF r.v[1] > 0 THEN t ELSE NoTable)).buf>>, p |-> r.p]

HallIDAnswer(r, hall) ==
  [out |-> <<ProcessGetUserHallID(r.v, IF r.v > 0 THEN hall ELSE -1).buf>>, p |-> r.p]

ProcessPacket(p, rand, t, hall) ==
  CASE GetCmdType(p) \in {CLIENT_PACKET, CLIENT_PACKET2} ->
         ProcessSubPacket(ReadSubPacket(p), rand)
    [] GetCmdType(p) = SYS_GET_USER_TABLE -> ProcessGetUserTable(ReadFields(p, TableSizes), t)
    [] GetCmdType(p) = GET_USER_HALLID -> HallIDAnswer(ReadInt(p), hall)
    [] OTHER -> [out |-> <<>>, p |-> p]

-----------------------------------------------------------------------------
(* The peers (external)                                                    *)

UserRequest(levels) ==
  EncryptBuffer(End(WriteFields(Begin(CMD_GET_ROOM_LEVER_NUM),
    <<<<Len(levels), ShortSize>>>> \o [i \in DOMAIN levels |-> <<levels[i], ShortSize>>]))).buf

\* A packet of a hall may say more than its handler reads, if there is room.
HallPacket(p, trailer) == End(Write(p, trailer)).buf

SubPacket(cmd, uid, svid, inner) ==
  LET head == <<<<uid, IntSize>>, <<svid, IntSize>>>>
              \o (IF cmd = CLIENT_PACKET THEN <<>> ELSE <<<<0, IntSize>>, <<0, ShortSize>>>>)
  IN  WriteBinary(WriteFields(Begin(cmd), head), inner)

\* A packet that the decoders let through and no buffer holds.
TooLong == [i \in 1..BufferSize + 1 |-> 0]

\* What a user reads of the answer: it gets the packet in the packet if that is
\* complete and its sum is right.
UserReads(sub) ==
  IF ~Acceptable(sub.inner) THEN NoAnswer
  ELSE LET n == ReadShort(Decoded(sub.inner))
       IN  <<sub.uid, sub.svid, n.v,
             AsRows(ReadFields(n.p, Times(n.v, <<ShortSize, ShortSize>>)).v, 2)>>

HallReadsTable(p) ==
  LET r == ReadFields(p, <<IntSize, IntSize, IntSize>>)
      at == ReadFields(r.p, <<IntSize, ShortSize>>)
      ip == ReadString(at.p)
  IN  IF r.v[3] = 1
      THEN r.v \o at.v \o <<ip.v>> \o ReadFields(ip.p, <<IntSize, ShortSize>>).v
      ELSE r.v \o ReadFields(r.p, <<ShortSize, IntSize>>).v

\* A hall reads the packets that the decoder cuts out of what was sent.
HallReads(out) ==
  IF out = <<>> \/ GetPacketLen(out[1]) # Len(out[1]) THEN NoAnswer
  ELSE LET p == Copy(Reset, out[1])
       IN  CASE GetCmdType(p) = CLIENT_PACKET -> UserReads(ReadSubPacket(p))
             [] GetCmdType(p) = SYS_GET_USER_TABLE -> HallReadsTable(p)
             [] GetCmdType(p) = GET_USER_HALLID -> ReadFields(p, <<IntSize, IntSize>>).v

-----------------------------------------------------------------------------
(* The link to the TJ server                                               *)

RowSizes == <<ShortSize, IntSize, IntSize>>
TypeSizes == <<ShortSize, IntSize, IntSize, IntSize>>

SynData(stat) ==
  DataEnd(DataWriteFields(DataBegin(SYS_SYN_DATA),
    <<<<ServerId, IntSize>>, <<Len(stat.levels), IntSize>>>> \o AsFields(stat.levels, RowSizes)
    \o <<<<Len(stat.types), IntSize>>>> \o AsFields(stat.types, TypeSizes))).buf

\* The TJ server reads the report (external).
TJReads(bytes) ==
  IF DataGetPacketLen(bytes) # Len(bytes) THEN NoAnswer
  ELSE LET r == DataReadFields(Copy(Reset, bytes), <<IntSize, IntSize>>)
           l == DataReadFields(r.p, Times(r.v[2], RowSizes))
           n == DataRead(l.p, IntSize)
           t == DataReadFields(n.p, Times(n.v, TypeSizes))
       IN  <<r.v[1], AsRows(l.v, 3), AsRows(t.v, 4)>>

\* The TJ server sends totals (external).
TJPacket(total) ==
  DataEnd(DataWriteFields(DataBegin(SYS_SYN_DATA),
    <<<<Len(total.rows), IntSize>>>> \o AsFields(total.rows, RowSizes) \o total.more)).buf

\* Mutant: the two numbers are swapped.
SetLevelCountSwapped(total, row) ==
  [l \in DOMAIN total \cup {row[1]} |->
     IF l = row[1] THEN [play |-> row[3], look |-> row[2]] ELSE total[l]]

SetLevelCount(total, row) ==
  [l \in DOMAIN total \cup {row[1]} |->
     IF l = row[1] THEN [play |-> row[2], look |-> row[3]] ELSE total[l]]

\* ProcessSynData: the totals afterwards, and the packet.
ProcessSynData(p) ==
  LET n == DataRead(p, IntSize)
      r == DataReadFields(n.p, Times(n.v, RowSizes))
  IN  [total |-> FoldLeft(SetLevelCount, levelTotal, AsRows(r.v, 3)), p |-> r.p]

\* CBackServer::ProcessPacket: any other command is passed over.
BackProcessPacket(p) ==
  IF DataGetCmdType(p) = SYS_SYN_DATA THEN ProcessSynData(p)
  ELSE [total |-> levelTotal, p |-> p]

-----------------------------------------------------------------------------
\* What the memory of a new pPacket may hold is in Reactor (Leftovers); here it
\* holds no command.
Init ==
  /\ pPacket = Reset /\ backPacket = Reset
  /\ levelTotal = <<>>
  /\ last = [kind |-> "none"]

\* OnPacketComplete: copies the packet, if it fits, and handles what is there.
OnPacketComplete(bytes, exchange, rand, t, hall) ==
  /\ \E r \in {ProcessPacket(Copy(pPacket, bytes), rand, t, hall)} :
       /\ pPacket' = r.p
       /\ last' = [read |-> HallReads(r.out)] @@ exchange
  /\ UNCHANGED <<backPacket, levelTotal>>

\* Bound: one request at a time, and maybe a packet that does not fit; then a new
\* connection.  A second request finds the same totals and overwrites pPacket.
Idle == last.kind \in {"none", "totals", "toolong"}

NewConnection ==
  /\ ~Idle
  /\ pPacket' = Reset /\ last' = [kind |-> "none"]
  /\ UNCHANGED <<backPacket, levelTotal>>

\* A user asks how many play at the levels.
AskLevels ==
  /\ Idle
  /\ \E levels \in Requests, cmd \in {CLIENT_PACKET, CLIENT_PACKET2},
        uid \in Uids, svid \in Svids, rand \in Draws, trailer \in Trailers :
       OnPacketComplete(HallPacket(SubPacket(cmd, uid, svid, UserRequest(levels)), trailer),
         [kind |-> "levels", cmd |-> cmd, uid |-> uid, svid |-> svid, levels |-> levels,
          rand |-> rand], rand, NoTable, -1)

\* The same with byte i of the user's packet changed on its way.
AskGarbled ==
  /\ Idle
  /\ \E levels \in Requests, uid \in Uids, svid \in Svids, rand \in Draws, d \in Garbles :
       \E i \in 1..Len(UserRequest(levels)) :
         OnPacketComplete(
           HallPacket(SubPacket(CLIENT_PACKET, uid, svid,
                                [UserRequest(levels) EXCEPT ![i] = (@ + d) % 256]), <<>>),
           [kind |-> "garbled", byte |-> i, cmd |-> CLIENT_PACKET, uid |-> uid,
            svid |-> svid, levels |-> levels, rand |-> rand], rand, NoTable, -1)

\* A hall asks for the table of a user, and for the hall of a user.
AskTable ==
  /\ Idle
  /\ \E uid \in Uids, svid \in Svids, t \in Tables \cup {NoTable}, trailer \in Trailers :
       OnPacketComplete(
         HallPacket(WriteFields(Begin(SYS_GET_USER_TABLE),
           <<<<uid, IntSize>>, <<svid, IntSize>>, <<1, ShortSize>>, <<2, IntSize>>>>), trailer),
         [kind |-> "table", uid |-> uid, svid |-> svid, table |-> t], <<>>, t, -1)

AskHall ==
  /\ Idle
  /\ \E uid \in Uids, hall \in Svids \cup {-1}, trailer \in Trailers :
       OnPacketComplete(HallPacket(WriteInt(Begin(GET_USER_HALLID), uid), trailer),
         [kind |-> "hall", uid |-> uid, hall |-> hall], <<>>, NoTable, hall)

Unread(p) == SubSeq(p.buf, p.pos + 1, Len(p.buf))

\* A packet that the buffer does not hold: the last one is handled again.
Oversized ==
  /\ last.kind \notin {"oversized", "report"}
  /\ \E t \in Tables, hall \in Svids, rand \in Draws :
       OnPacketComplete(TooLong,
         [kind |-> "oversized", unread |-> Unread(pPacket)], rand, t, hall)

\* CBackServer::OnPacketComplete: totals arrive from the TJ server, or a packet
\* that does not fit.
BackOnPacketComplete(bytes, exchange) ==
  /\ Idle
  /\ \E r \in {BackProcessPacket(Copy(backPacket, bytes))} :
       levelTotal' = r.total /\ backPacket' = r.p
  /\ last' = exchange
  /\ UNCHANGED pPacket

ReceiveTotals ==
  \E total \in Totals :
    BackOnPacketComplete(TJPacket(total), [kind |-> "totals", rows |-> total.rows])

ReceiveOversized == BackOnPacketComplete(TooLong, [kind |-> "toolong"])

\* A report goes to the TJ server.
Report ==
  /\ Idle
  /\ \E stat \in Stats :
       last' = [kind |-> "report", stat |-> stat, read |-> TJReads(SynData(stat))]
  /\ UNCHANGED <<pPacket, backPacket, levelTotal>>

Next == \/ NewConnection \/ AskLevels \/ AskGarbled \/ AskTable \/ AskHall
        \/ Oversized \/ ReceiveTotals \/ ReceiveOversized \/ Report

Spec == Init /\ [][Next]_vars
-----------------------------------------------------------------------------
(* What is to be read.  The sizes say how much fits in a buffer.            *)

HallHead(cmd) == HeaderSize + 3 * IntSize + IF cmd = CLIENT_PACKET THEN 0 ELSE IntSize + ShortSize
RequestSize(n) == HeaderSize + ShortSize * (n + 1)
AnswerSize(n) == HeaderSize + ShortSize * (2 * n + 1)

Answerable(cmd, n) ==
  /\ HallHead(cmd) + RequestSize(n) <= BufferSize
  /\ HallHead(CLIENT_PACKET) + AnswerSize(n) <= BufferSize

\* A user reads exactly the levels it asked for, in its order, each with the
\* players the TJ server last reported and what was drawn, as far as a short
\* holds them; through the packet in the packet, the substitution of bytes and
\* the check code, both ways.  If the request or the answer is too long for the
\* packet around it (ClientHandler.cpp:490) the user reads nothing at all, and
\* never a part of the list.
LevelsRead ==
  LET n == Len(last.levels)
  IN  IF ~Answerable(last.cmd, n) THEN last.read = NoAnswer
      ELSE /\ last.read # NoAnswer
           /\ SubSeq(last.read, 1, 3) = <<last.uid, last.svid, n>>
           /\ Len(last.read[4]) = n
           /\ \A i \in 1..n :
                /\ last.read[4][i][1] = last.levels[i]
                /\ last.read[4][i][2] \in -32768..32767
                /\ (last.read[4][i][2] - GetLevelCount(last.levels[i])
                     - last.rand[i] - AddCount) % 65536 = 0

LevelsAnswered == last.kind = "levels" => LevelsRead

\* The flag and the version of a user's packet: a wrong flag is logged and no
\* more, the version is not looked at (ClientHandler.cpp:109).
UnheededBytes == MagicAt + 1..MagicAt + 4

\* A user's packet with any one byte changed is not answered, as its length, its
\* command or its sum is wrong (the substitution is one to one, Packet.cpp:52),
\* unless it is a byte nobody heeds: then it is answered like a sound one.
GarbledRefused ==
  last.kind = "garbled" =>
    IF last.byte \in UnheededBytes THEN LevelsRead ELSE last.read = NoAnswer

\* A hall reads of a user at a table its table, the server of that table, where
\* it is and its level; of any other what was asked for; and the hall of a user
\* or -1, with strings and numbers of both sizes and signs side by side.
HallsAnswered ==
  /\ last.kind = "table" =>
       last.read = IF last.table = NoTable
                   THEN <<last.uid, last.svid, 0, 1, 2>>
                   ELSE <<last.uid, last.svid, 1, last.table.tid, last.table.tid \div 65536,
                          last.table.ip, last.table.port, last.table.level>>
  /\ last.kind = "hall" => last.read = <<last.uid, last.hall>>

\* Every request of a user or a hall is answered with what was asked for, and a
\* damaged one with nothing, or as if it were sound if the damage is in its flag
\* or version.
RequestsAnswered == LevelsAnswered /\ GarbledRefused /\ HallsAnswered

\* A packet that does not fit in pPacket has the packet before it handled again
\* (ClientHandler.cpp:267), read on from where its handler stopped.  Of a packet
\* that was read to its end nothing is left that names a user; one that said more
\* is answered for the user whose number comes next in it, and for nobody else.
OversizedReadsOn ==
  last.kind = "oversized" =>
    \/ last.read = NoAnswer
    \/ last.unread = <<>> /\ last.read \in {<<-1, -1, 0, -1, -1>>, <<-1, -1>>}
    \/ Len(last.unread) >= IntSize /\ last.read[1] = Number(SubSeq(last.unread, 1, IntSize))

\* Which rows of k bytes fit behind h bytes.
WholeRows(h, k) == (BufferSize - h) \div k

\* Row r, read as x, is as it was sent, or, if its packet had no room for it, has
\* -1 for what did not fit.
ReadAs(x, r, whole) ==
  IF whole THEN x = r ELSE \A j \in DOMAIN r : x[j] \in {r[j], -1}

\* The TJ server reads a report as it was written.  At the limit of the buffer
\* SynData goes on after a write that failed, and later, smaller fields may still
\* fit; the reader then fails at the same fields, so that it reads -1 for what is
\* missing and never one field for another (Data_PacketBase.h:145).
ReportsReadBack ==
  last.kind = "report" =>
    LET s == last.stat
        n == Len(s.levels)
        behind == HeaderSize + 3 * IntSize + 10 * n
    IN  /\ last.read[1] = ServerId
        /\ Len(last.read[2]) = n
        /\ \A i \in 1..n :
             ReadAs(last.read[2][i], s.levels[i], i <= WholeRows(HeaderSize + 2 * IntSize, 10))
        /\ Len(last.read[3]) = IF behind <= BufferSize THEN Len(s.types) ELSE 0
        /\ \A i \in DOMAIN last.read[3] :
             ReadAs(last.read[3][i], s.types[i], i <= WholeRows(behind, 14))

Row(total, l) == <<l, total[l].play, total[l].look>>

\* The players of a level are what the TJ server sent last: a row that arrived
\* whole is kept as it is, levels that are not in the packet keep their row, and
\* a list too long for the packet gives -1 for what it lost and mixes no level up
\* with another (CBackServer.cpp:158), but for level -1, for which rows without a
\* level are taken.  A packet that does not fit has the one before it handled again
\* (CBackServer.cpp:58), which changes something only if that one said more than
\* was read of it; nothing else changes the totals.
TotalsFollow ==
  [][/\ last'.kind = "totals" =>
          LET rows == last'.rows
              whole == WholeRows(HeaderSize + IntSize, 10)
              Replaced(i) == \/ \E j \in DOMAIN rows : j > i /\ rows[j][1] = rows[i][1]
                             \/ rows[i][1] = -1 /\ Len(rows) > whole
          IN  /\ \A i \in DOMAIN rows : i <= whole /\ ~Replaced(i) =>
                   rows[i][1] \in DOMAIN levelTotal' /\ Row(levelTotal', rows[i][1]) = rows[i]
              /\ \A l \in DOMAIN levelTotal' :
                   \/ l \in DOMAIN levelTotal /\ Row(levelTotal', l) = Row(levelTotal, l)
                   \/ \E i \in DOMAIN rows : ReadAs(Row(levelTotal', l), rows[i], i <= whole)
     /\ last'.kind = "toolong" /\ Len(Unread(backPacket)) < IntSize
          => levelTotal' = levelTotal
     /\ last'.kind \notin {"totals", "toolong"} => levelTotal' = levelTotal]_vars
=============================================================================
