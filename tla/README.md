# Verification of the Teenpatti user server

The user server is a single-threaded process around an epoll reactor. Hall
servers and game servers connect to it and report what their users do; it keeps
one record per user in shared memory, counts users per terminal type and per room
level, and sends the counts to a statistics ("TJ") server. This directory holds
TLA+ models of it, configurations for TLC and proofs for TLAPS. Source paths below
are relative to the repository; `PROJECT.json` maps every definition to its lines.
The sources are GBK encoded; quotations are given in UTF-8.

## Inventory

| Component | State | Operations | Interacts with | What makes it correct |
|---|---|---|---|---|
| Handlers, `Server/ClientHandler.cpp` | none of its own (last packet) | login, close, hall core, enter, leave, stand, stand-leave, game server core, get table, get hall, players of levels, clear server info, TJ switch | table, statistics, offline and server lists, level totals | each packet moves the record and every counter together; answers say what was asked |
| `Options`, `Server/Options.cpp` | server list, offline list, level totals, timers | offline check, flush check, report, memcached lookups | table, statistics, TJ link | users without a hall are dropped in time, nobody else is |
| `CStat`, `Server/Stat.cpp` | counters per terminal and per level | `UpdateTerminalInfo`, `UpdateLevelInfo` | called by handlers, checks and start | counters equal what the table holds |
| User table, `Server/GameUserSHM.cpp` | none | find, set, insert, delete, visit | shared memory map | a map |
| Shared memory map, `Server/ShmHashMap.hpp`, `HashMapImp.hpp`, `ChunkAlloc.cpp`, `SVShm.cpp` | buckets, nodes, free list, add list, chunks | the same, and init, open, verify | survives the process | a bounded map, also for the next process |
| Process, `Server/Main.cpp` | - | start order, recount, signals | all | a restart loses nothing that is in the table |
| TJ link, `Server/CBackServer.cpp` | connection flag, timer | connect, report, receive totals, reconnect | socket handler, timer, statistics | the TJ server learns the counters, and this server the totals |
| Socket handler, `src/CCSocketHandler.cpp` | stage, descriptor, input and output buffer | connect, send, input, output and hangup notifications, reset | poller, decoder | whole packets in order; no use of a dead descriptor |
| Poller and reactor, `src/core/poller.cpp`, `src/CCReactor.cpp` | slots with sequence numbers | attach, detach, apply, dispatch | all handlers | an event reaches the object it was meant for |
| Timers, `src/core/timerlist.cpp`, `include/ICC_Timer_Handler.h` | a list per interval | start, stop, expire | reactor | a started timer fires once per start, early or late only by what explains it (the clock, the handlers); the checks go on |
| Packets and decoder, `Server/Packet*`, `Data_PacketBase.h`, `BoyaaDecoder.h` | one packet | parse, read, write, substitute bytes, check code | socket handler, handlers, TJ link | framing; fields are read as they were written; a user's packet with a wrong length, command or sum not at all, flag and version are not heeded |
| Buffers, `src/core/cache.cpp`, `mempool.cpp` | bytes | append, skip | socket handler | a queue of bytes |
| Memcached client (external library) | - | get | `Options` | may fail at any time |
| Logs, `src/core/log.cpp`, `Server/clib_log.cpp` | a ring of files, a row of renamed files | write, rotate | all | the newest messages are kept, in order |
| Configuration, `Server/IniFile.cpp` | the text of the file | get, set | process, `Options` | a key is found in its section, whole, or not at all |
| XML, locks, atomics, tasks | - | - | - | unused |

What is hard here. Nothing runs concurrently inside the process, so a callback is
atomic; what can be wrong is the *sequence* of callbacks: packets of different
halls and game servers in any order, checks between them, memcached answering or
not, the process dying and starting on the old table. Inside one callback two
things are not atomic with respect to the outside: the assignments to shared
memory, which a kill can interrupt, and the nested callbacks of socket handlers,
which close, reset or delete the very object whose method is running.
`PROJECT.json` lists the hazards, each at its line.

## Modules

- `Stat` - the operations of `CStat` as pure operators on the two maps. Handlers
  that loop over users apply an operation n times; "decrement if positive" n times
  is truncated subtraction (`Monus`).
- `UserServer` - the core: `shm` (the table as a bounded map), `terminalStat`,
  `levelMgr`, `offline`, `serverList`, the two check timers and the time since the
  start. One action per packet that changes state, one per check, `Tick` and
  `Restart`. A login is split as the code splits it: `ReLogin`/`FirstLogin`, then
  `StoreLogin`.
- `UserServerProofs` - theorems about `UserServer`: types, the offline list, the
  counters.
- `ProofBasics` - lemmas about numbers, sequences, finite sets, sums and loops that the
  proofs of the other components share.
- `UserTable` - what the shared memory map promises: a map that refuses a record
  exactly when nodes or chunks do not suffice.
- `Pool` - memory and *runs*: a piece of code is the sequence of memories it
  produces, one per assignment. The last one is its effect, the others are what a
  killed process leaves.
- `ChunkAlloc`, `HashMap` - `CChunkAllocator` and `CHashMap`, method by method, as
  operators on runs.
- `ShmHashMap` - the calls of `CShmHashMap`, start, stop and crash of processes on
  one segment; shown to implement `UserTable`. `ShmHashMapProofs` holds its theorems.
- `BackServer` - the TJ link: `CBackServer` with the parts of `CCSocketHandler`,
  `CCTimer` and the poller that act on it. Each method is an operator from object
  state to object state, so the nesting of the calls is that of the code. The TJ
  server (external) cuts the bytes it reads into packets by length. Attaching the link to
  the poller may fail, for want of a slot or in `epoll_ctl` (`Attaches`), and nobody
  looks: the link then counts as connected though no event of it is delivered.
  `BackServerProofs` holds its theorems.
- `Reactor` - the connections of halls and game servers: slots of the poller, the
  listening socket, and one `ClientHandler` with its socket per connection. A method
  is an operator on its surroundings `s`: the object `s.o`, its socket `s.k`, the
  poller unit `s.u`, and what the kernel will do with its calls (`s.room`, `s.fuse`).
  One action takes a batch of events from epoll, one serves one event of it; between
  them the peers (external) connect, send, read, close and reset. The loops of the code,
  over the pieces of one `recv` and over the accepted connections, are functions from the
  number of turns to what they have done. `ReactorProofs` holds its theorems.
- `MemPool`, `RawCache` - `CMemPool` as operators on the pool; `CRawCache`, the input
  and output buffers of connections, as a specification over it.
- `ByteQueue` - what the buffers promise: queues of bytes. `RawCache` implements it.
  `RawCacheProofs` holds the theorems about pool and buffers.
- `TimerList` - the timers of the process: the chain of lists, one per interval, the
  `CCTimer` objects on them, and the loop of the reactor in its three phases (wait,
  events, expired timers). One step runs one callback, so that a callback which
  changes the lists does it between two steps of `CheckExpired`. An expiry is kept as
  its distance from the clock (`objexp`) and, for the properties, in true time (`due`);
  they differ once the clock is set back or forward. `TimerListProofs` holds its theorems.
- `IniFile` - the searches of the configuration reader as operators on a text, a
  sequence of symbols (a name is one symbol, everything else one per character).
- `LogFile` - the files of the two logs as operators. A ring file is created when
  `write_log` comes to it; a position that was never reached has none.
- `ServerConfig` - the process that reads the one and writes the other: start, new
  reading by packet, messages, an administrator (external) who edits the file and
  removes logs. `ServerConfigProofs` holds the theorems about the logs.
- `PacketBase`, `Packet`, `DataPacket` - the packet buffer and the two families of
  packet classes over it, byte by byte: network and host order, strings and binaries,
  header, check code and the two substitution tables.
- `PacketFlow` - the handlers that answer and the two directions of the TJ link, on
  those bytes: an exchange is a packet, its handler, and what the peer (external, with
  the same classes) reads of the answer. Which user sits where is left to `UserServer`.
- `MCUserServer`, `MCShmHashMap`, `MCBackServer`, `MCRawCache`, `MCServerConfig`,
  `MCPacketFlow` - what the configurations need.

Definitions marked `Mutant` are plausible mistakes; put in place of the definition
that follows them, each makes a property of a run fail.

Abstractions. A table id stands for its game server (`tid >> 16`), positive
ids only. Times are ages; the age of a record stops at the largest limit, as the
code only compares it. A game server record of memcached with level -1 is treated
like no record. The zero entry that `operator[]` creates in the terminal map and a
missing one behave alike. In the hash map, `flag_` and the access statistics of a
node are left out (nothing reads them), and a record is cut into pieces of which
one fits in a chunk; a chunk that is being copied to holds `Scrap`, which stands for any
mixture of bytes and is no piece of a record. `hash<int>` is the identity. In the link, a report is `Pieces`
pieces, since only where a partial send may stop matters; its content is the number
of changes made to the counters so far. The initial descriptor 0 of the object is
written as none, as the first connect replaces it before anything uses it.

In the reactor a packet is a head and a body, of one of six kinds: without
reply (`note`), with one (`ask`), a login that kicks the old session and thus sends
three packets (`kick`), one longer than the packet buffer but not too long for the
decoder (`big`), an invalid head (`bad`), a flash policy request (`policy`). The
kernel takes some number of whole replies; partial packets on the output side are
the subject of `RawCache` and `BackServer`. `epoll_ctl` fails only when a descriptor
is added, and descriptors suffice. An object that is used after it was
deleted keeps its emptied buffers; a virtual call of its `OnClose` ends the process
(the method is not in the table of the base class that the destructors leave). A new
`ClientHandler` may lie where a deleted one was, and its packet buffer, which no
constructor clears, then holds the old packet (`Leftovers`). Block sizes of the pool
are scaled down with their order kept: unit < `Slot1` < `Slot2` < largest block,
allocation capacity < water mark < limit. Bytes that belong to no buffer are not told
apart.

In the timers only differences of times matter; a millisecond is `Precision` time
stamps, so that rounding to milliseconds is seen. The pending list is left out, as
nobody calls `AttachZeroTimer`. The expiry of the link's timer is forgotten when the
timer is stopped, as it is not read before it is set again.

In the configuration a longer name that contains a key is a sequence of symbols, so
that the tests of what stands before and behind a key matter. The reader has no
comments, and takes a key behind a blank in a value, or behind itself, for the key:
such lines (`OddLines`) are in the model, and the agreement with a reading line by line
is asked of files without them. Values are not cut at 99 characters. The interval of the report,
`INTEVAL` in `conf/config.ini`, is not among the keys: `Options::InitBackServer`
reads `SWITCH` twice and never reads it. A message of a log is a number and a length.
The log starts a new set of files under the name of the started server; a second
process has another pid in its names and so other files.

In the packets a buffer of 57 bytes stands for 8192. Left out are the methods that
nobody calls: insertions, reads that remove, `SetBegin`, `oldEnd`, bytes, unsigned
longs, and `ReadString` into a buffer. Lengths inside packets are those a peer with the
same classes writes; halls and the TJ server may put further fields behind those that
a handler reads (`Trailers`, `more`), as no handler asks whether a packet is at its end.

Undefined behaviour: a new `CCSocketHandler` reads `_decode` before it is assigned; the
model takes it to be NULL, as it is in fresh memory and where a deleted handler was, which
clears the field. `clib_log::check_file` looks at a size that `stat` did not fill in
when the file does not exist; what it finds is chosen freely (`garbage`).
`CShmHashMap::Init` reads an uninitialised flag when the segment
exists (`Server/ShmHashMap.hpp:144`). `UserServer` and `ShmHashMap` choose its value
freely (`Restart(down, wiped)`, `InitFlags`). `shmhashmap_crash` takes it to be false,
as a start that formats the segment keeps nothing a crash could have spared.

## Runs

Passing:

- `userserver_counters` - two users who fit in the table, two terminals, all timers,
  one restart. `OnlineCounted`: the online counters equal the table, through
  terminal changes, drops and recounts. `PlayNeverOver`: never more players than
  users at a table. `PlayGapOnlyAtRecovery`: a player goes missing from the
  counters only when a new user is put back at a table by memcached after a start.
- `userserver_levels` - a server that may change its level between lookups.
  `LevelErrorOnlyAtLogin`: the count of a level departs from the records only at a
  login of a user at a table. `LevelOnlyAtTable`: a level is recorded only for a
  user at a table, so the correction in `ProcessFlushCheck` for users without one
  never applies.
- `userserver_offline` - two users, a table with room for one, two halls, spectators,
  checks with different periods. `OnlineCounted`: the online counters never
  fall below the table; a refused user stays counted, as the result of
  `SetValue` is not read. `OfflineDetached`:
  the list names only users of the table without a hall. `OfflineBounded`: no entry
  outlives the limit by a period. `OnlyRestartUnwatches`: nobody loses his entry
  but by a restart. `DetachedResolved` (liveness): a user without a hall does not
  stay for ever unless his record is renewed for ever.
- `shmhashmap_table` - three keys, two nodes, three chunks, records of one and two
  chunks: every list and counter is sound after every call (`PoolSound`), and the
  calls implement `UserTable` (`ImplementsTable`). The flag of an existing segment has
  any value, so that a used segment may be formatted: the new table then sees nothing
  of the old nodes and chunks.
- `shmhashmap_crash` - a kill between any two assignments of any call or of the
  formatting, or while a record is copied, with room for three records and two contents,
  so that the old record of a user differs from the new one and from another's.
  `CrashKeepsOthers`: at most the record worked on changes; a deleted one may be gone, a
  new one is there whole or not at all, but one that is replaced is written over in place
  and may be left torn, part old and part new. The next start does not see that, and the
  record is served as it is. `CrashLeavesWalkable`: the free list, the list of free chunks
  and the add list do not become circular, nothing free is in use, and the add list misses
  at most one user.
- `backserver_link` - every failure of connection, connect, attaching and send.
  `LinkConsistent`: flag, descriptor, timer and output events agree, and a connected link is
  watched unless the last attempt to attach it failed. `ReportsInOrder` (whole packets,
  in order, across partial sends and reconnects), `GivenUpOnlyByReconnect`, and
  `CatchesUp` (liveness): also a link that epoll does not watch catches up, as every
  report sends what waits, and one that found no slot is attached by a later report. A link
  whose registration epoll refused keeps its slot over every reconnect (`DetachPoller`
  fails as well) and is never watched again; it hears nothing of the TJ server.
- `reactor_clients` - two connections for one free slot, two packets in all, of any
  kinds. `PollerSound`: object, slot, registration and free list agree after every
  event. `NoStaleEvent`: no callback changes another connection's slot, so
  `VerifyEvents` never refuses an event; it guards against a case that
  does not arise. `RepliesInOrder`. `HealthyKept`: a connection is closed only for a
  reason, one of which is a defect: when input and output come in one event, the
  replies to the input may empty the output buffer, and `handle_output` called with an
  empty buffer reports a fatal error. `DiesOnlyWithPeerGone`: the process ends only
  when a peer has gone while several replies are sent to it. `OneLostPerInterrupt`: an
  interrupted `accept` loses at most one connection, which then has a descriptor
  and no handler. `Served` (liveness).
- `rawcache_queue` - an input and an output buffer on one pool, blocks of
  all four size ranges, successful and failing purges. `CachesAreQueues` (refinement of
  `ByteQueue`), `BlocksSound` (no block in two places, all accounted for),
  `PoolBounded`.

- `timers` - the report, one fixed check and the link's timer on up to four lists, while
  handlers take time, the link is lost and comes back, the clock is set back and forward
  and a packet changes the report interval. `ListsSound`: the chain and the
  lists, and the order in them, survive callbacks that put lists in front and move timers. `NotLate`: a
  timer with a positive interval is overdue by two rounds of handlers, the delay of
  `epoll_wait` and what the clock lost at most. `NotEarly`: a callback runs before its
  interval has passed by no more than what the clock was set forward, as the expiries are
  wall clock times; another exception is a clock that is set back by the whole interval
  between the moment `now` is taken and the start of the timer, which then expires
  before that `now` and runs in the same round. `ChecksGoOn` (liveness): every check runs again and again, unless the
  report interval is set to 0; then `CheckExpired` never ends, as `AttachTimer` leaves
  the expiry of a timer on the list for 0 in the past.
- `serverconfig` - every file of three lines out of eleven usual and four odd ones, then
  five messages. `ConfigRead`: the searches in the text agree with a reading line by
  line, sections are kept apart also in files with odd lines, and a replaced value is
  read back with every other one unchanged. `LogKeepsRecent`: the
  ring holds the newest messages without a gap and no less than all its files but one.
  `DebugInOrder`: the renamed files are in order, also when any of them was removed.
  The division in `GetRand` ends the process when the limit is 0, which by `ConfigRead`
  it is only when the file says so.
- `packets` - requests for zero to thirteen levels and for each possible byte, with
  every byte of the user's packet, header included, damaged in turn; tables and halls;
  packets that say more than is read of them; totals and reports up to and beyond the
  buffer. `RequestsAnswered`: the user reads every level with its number modulo 65536
  (an int is sent as a short), or, when a packet has no room for the inner one, nothing
  at all; a request with a damaged byte is not answered, unless the byte is in the flag
  or the version, which nobody heeds: then it is answered like a sound one; a hall reads
  where a user sits. `OversizedReadsOn`: a packet the buffer does not hold makes the one
  before it be handled again, from where its handler stopped: if it was read to its end
  the answer names nobody, and otherwise the user whose number its unread bytes begin
  with. `ReportsReadBack`, `TotalsFollow`: at the limit of the buffer a field is read as
  it was written or as -1, never as another. Level -1 is excepted in the totals, as rows
  that were lost are stored for it; and a packet too long for the link changes the totals
  only if the one before it said more than was read of it.

Violation, a disagreement between code and what the repository says of it
(`findings` quotes the lines):

- `userserver_level_drained` - a level keeps players when the table is empty. A user
  is counted on a level, logs in again while memcached has no record of the server,
  gets level -1, and the corrections of the checks find nothing to correct.

What else the models show of the code, without a run of its own: the link is never
connected again when the first connect fails, or when the report that `OnConnected`
sends fails (`OnClose` starts the timer and `OnConnected` then stops it) -
`GivenUpOnlyByReconnect` and `CatchesUp` state these exceptions; a pool damaged by a
kill may pass `verify_pool_data`, which compares totals only (status `damaged` is
reachable in `shmhashmap_crash`); a start may format a used segment (action `Format` of
`UserTable`).

Bounds. Two users meet every interaction of the handlers: counters are sums over
users, lists are per user, and only a full table couples users, for which one free
node is enough. Two terminals and two levels give a move between two; two
halls a close and a login on different ones. Limits and periods of 1 to 3 ticks are
chosen so that checks come both before and after limits are reached. `MaxCount`,
`MaxLook`, `MaxRestarts`, `StatBound` and `QueueBound` are bounds of the model only
and stand in guards. Three keys on two buckets give lists with a first, a middle
and a last node. Symmetry of users, of the buffers and of the contents of records is
used in runs without liveness. In the
reactor one free slot makes the second connection reuse the slot of the first or find
none, two packets of at most three replies fill an output buffer in all ways, and
three accepts per round exceed the backlog. In the pool two buffers of at most eight bytes
reach every
block size, and the limit of 32 makes some purges free enough and others not. Of the
timers three are enough for two on one list, a list in front and one behind; `MaxWork`,
`Overrun` and `ClockBound` of one time stamp are half a millisecond, less than any
interval. Three lines give a header, a key and a line before, between or behind them;
five messages fill the ring and the row of files and start over. In the packets the
buffer is chosen so that a request, its answer, the packet around each, a report and
the totals all meet its end, with a part of a row fitting.

Deadlock is checked except in the crash configurations, where a process whose `Init`
refuses the segment gives up and a damaged pool is not followed further, in the run of the
reactor, where all connections end or the process does, and in that of the buffers,
where a throw ends the process, and in that of the configuration, where the messages are
bounded.

Fairness. `UserServer`: weak fairness of `Tick` and of the two checks - the event
loop wakes at least once a second (`CCReactor::RunEventLoop`) and runs what expired
before it waits again. Packets and restarts are not fair. `BackServer`: weak fairness
of the timer, the periodic report, output events and the notice of a dead connection,
which epoll reports until it is handled. Of a link that is not watched only the sends of
reports tell anything: on a connection whose peer has gone they fail sooner or later (TCP
resets it or gives up), and while the peer reads they find room sooner or later. `calm` marks the moment from which
the environment stops failing; liveness claims nothing before it. `Reactor`: the loop
goes on waiting and serving (`[]<>(batch = {})`: a batch only shrinks until it is served),
and a peer with an open connection reads what was sent to it. `TimerList`: weak fairness of
the loop, in which nothing blocks, and strong fairness of a wait in which time passes,
as time does whenever the loop comes to wait.

## Proofs

Every theorem is `Spec => []P`, an action property or a refinement, for all values of
the constants that the named assumptions of the modules allow. Each rests on an
inductive invariant, with one lemma per operation and one step per action.

`UserServerProofs` (`StatAssumption`, `UserServerAssumption`, `NotFoundAssumption`;
users and terminals are finitely many):

- `TypeCorrect` - `TypeOK`. The substance is that no counter becomes negative and no
  record gets a field out of range.
- `OfflineAreDetached`, `OfflineAgeBounded`, `LevelNeedsTable` - from
  `OfflineInv == TypeOK /\ OfflineDetached /\ OfflineBounded /\ LevelOnlyAtTable`.
  `OfflineBounded` says `age + time to the next check <= limit + period - 1`: the sum is
  constant under `Tick`, and the check removes the entries for which restarting the
  timer would break it; the plain bound on the age is not inductive. `OfflineDetached`
  needs the case split of close (at a table: attached becomes detached and listed;
  otherwise removed with the entry).

- `OnlineIsCounted`, `PlayIsNeverOver` - from `CounterInv == TypeOK` and `Counted(t)` for
  every terminal: the counter against the cardinality of the set of stored users of the
  terminal. A handler changes the set by one user, a check or a recount by a set of
  them, and the truncated subtractions of `CStat` by as much as the set loses.
- `WatchedUntilRestart`, `LevelWrongOnlyByLogin` - action properties, the second from the
  distance between the count of a level and the cardinality of the users recorded on it.
- `PlayGapAlways` - an action property about a sum over the terminals, the users at a
  table whom `CStat` does not count. A step changes the gap of one terminal, or of two
  when a user comes back on another one; each lemma says by how much, and the sum lemmas
  of `ProofBasics` (`SumIs` and those below it) carry that over. When a user moves, the
  gap he leaves behind is at most the one he takes away.

`BackServerProofs` (`LinkAssumption`), from `LinkInv == TypeOK /\ Settled(link) /\
Stream(link, stat)`:

- `LinkIsConsistent`, `LinkGivenUpOnlyByReconnect` - `Settled`: after a callback the link
  is live and without a timer, and watched unless the last attempt to attach it failed, or
  down, without an open descriptor and empty, with a timer that loops or none. Inside a callback neither holds; the lemmas follow the nested calls.
- `ReportsAreInOrder` - `Stream`: what the TJ server has read of a packet, followed by the
  output buffer, is a sequence of whole packets with ascending contents, none older than
  the last one read. It is kept by a send that stops anywhere, as the part of a packet
  that is sent and the one that is queued add up.

`RawCacheProofs` (`MemPoolAssumption`, `RawCacheAssumption`, which asks
that a buffer's data be smaller than the largest block), from `RawInv`: each buffer
holds a block in use of its own, the blocks in use are those the buffers hold, the pool's
counter is the number of bytes of its blocks and within the limit.

- `BlocksAreSound`, `PoolIsBounded` - through purges, which release free blocks size by
  size until enough are gone; what the loop keeps is proved by induction on its turns.
- `CachesImplementQueues` - `RawCache` implements `ByteQueue`: the window of a block between
  head and length is the queue, kept when data moves to the front or to a larger block.
  That blocks are distinct makes a step of one buffer leave the other queues alone.

`TimerListProofs` (`TimerAssumption`), from `TimerInv`:

- `TimerListsAreSound` - each list is ordered by the true expiry, since timers of one
  interval are appended with the same span and all age alike; the expiries by the clock
  are in the same order as long as the clock is not set back (`InOrder`): set forward, it
  brings all of them nearer by the same amount.
- `TimersAreNotLate` - the plain bound is not inductive. `TimerInv` says in addition that
  in the middle of `CheckExpired` no timer on a list that has been passed was due when
  `now` was taken (`Passed`), for which it must be known that the chain only grows in
  front of the list the walk is at (`Grown`, `Rest`), and that the head of a list is due
  first. After the round every timer is overdue by one round of handlers at most, the
  wait goes past no head, and the next round adds its own handlers.
- `TimersAreNotEarly` - a timer was started before `now` was taken, and then its true
  expiry is behind the one that is compared by no more than what the clock gained, or
  since, and then the comparison succeeds only if the clock lost the whole span
  (`Timely`). The attempt to prove the
  property without this exception led to the counterexample described under `timers`.

`ReactorProofs` (`ReactorAssumption`: any connections, slots, accepts per round and
packets), all from `IInv == Typed /\ SlotsOK /\ (\A c : Answers(c)) /\ (proc = "running" =>
Running) /\ ...`, where for a dead process the batch is empty and some peer is gone:

- `PollerSoundAlways`, `NoStaleEventAlways` - `Running`: every slot is free once, the
  listener's, or one live connection's (`Owners`); handler, registration and output agree
  (`ConnOK`); every event of the batch carries the number its slot still has (`EventOK`),
  and no two events are of one slot (`OnePerSlot`), so that serving one leaves the others
  as they were. Inside a callback none of this holds for the object that runs. The lemmas
  about the methods say instead how the surroundings are *held* before, and either still
  are or were *removed* after, once by each nested call; a further call on a removed object
  ends the process. `Dispatch` then has an outcome in which the object stands as before or
  is gone with its slot free.
- `RepliesInOrderAlways` - `Answers(c)`: what the peer has got, followed by the output
  buffer, is in order. While the handler lives, it also ends before the packet that is
  next in the input (`Serving`), so that the replies to that one may follow; each send
  keeps this wherever it stops.
- `DiesOnlyWithPeerGoneAlways`, `HealthyKeptAlways` - what the methods may do when no send
  fails: a removal needs an error of the decoder, a notification with nothing to send, or
  a peer that is gone.
- `OneLostPerInterruptAlways` - a round of `accept` in which one call was interrupted
  leaves one entry behind the number it goes by, and no other round leaves any: the entries
  that are missed are counted by call, and each stands for one connection.

`ServerConfigProofs` (`ConfigAssumption`: any limits, any finite set of lengths, any
lines; a line is a sequence of symbols):

- `DebugInOrderAlways` - from `DebugInv`. The renaming loop of `check_file` moves each file
  up by one where there is a file below it (`RotateIs`). The row is in order whatever was
  removed (`Row`). If nothing was removed, there are *k* old files, the first *k*, all of them
  full, and nothing was dropped unless *k* is `MaxFile` (`Whole`): the plain statement says
  nothing of a row that is not yet complete and is not inductive.
- `LogKeepsRecentAlways` - from `RingInv`. The *age* of a position is how many steps
  `write_log` has gone on since it left it, modulo the number of files. By age the files
  hold consecutive messages (`Ordered`), all but the newest are at their limit (`Files`),
  and the positions that exist are those up to the present one, with every message, or
  all. The step that goes on to the next position drops the oldest file once the ring is
  closed; the sum of the others is bounded from below by `SumAtLeast`. The limits come from the
  configuration, so the proof also follows the reader on an arbitrary text: wherever it
  stops, a section, a key, or nothing (`LocateSectionIs`, `LocateKeyIs`), the number it
  returns is a natural number (`ReadIntIs`, `AtolIs`), and `init_log` leaves limits that are
  positive (`RenamedIs`).

`ShmHashMapProofs` (`ChunkAssumption`, `HashAssumption`, `ShmAssumption`: any numbers of
nodes, buckets and chunks, any keys, records of any lengths above zero, none of which is the
answer `NotFound`):

- `PoolSoundAlways` - from `PoolInv`: whenever a process has the pool, or left it
  between calls, the pool is `Whole` and holds a table (`Holding`, for the next theorem).
  `PoolSound` speaks of chains, which are computed; the invariant instead has a function from the nodes to the lists they are on (`place`), one
  from the chunks to the nodes that own them (`own`), and sequences without repetition
  that the links spell (`Leads`, `DListOf`). A counter is the cardinality of a set of
  these functions. In the middle of a call a node is on no list (`HELD`) and chunks belong to
  a node that is not in use yet; one lemma per method says which parts it keeps, which it
  changes, and how (`NodeStep`, `AddStep`, `ChunkStep`, `DataStep`). The loops of `malloc`,
  `free`, `split` and of the initialisation are followed turn by turn. `ChainIs` then
  shows that the chain which the model computes, cut at the number of elements, is the
  sequence, and `WholeIsSound` that the whole pool is sound and accepted by the next start.
  Formatting is shown to lead from any memory at all to an empty whole pool
  (`PoolOpened`), as the flag that is read unassigned allows it for every pool.
- `ImplementsTableAlways` - the refinement: every step of the map is a step of `UserTable`
  or leaves its table as it is. `Whole` says nothing of what the nodes and chunks contain;
  `Content` adds it: the nodes in use have different keys, and the chunks of a node, in the
  order of its chain, hold the pieces of the record of its key (`ChainHolds`). Each call
  is followed with the data (`RecordInserted`, `RecordUpdated` with more or fewer chunks,
  `RecordReplaced`, `RecordDeleted`) to the table it leaves, and `RecordFound` shows
  that a search returns the record, or `NotFound` exactly where there is none. What is left
  is that a call refuses a record only when `UserTable` does. That is counted: the nodes in
  use are as many as the keys (`KeysHeld`), the chunks that are not free are the sum of what
  the records need (`SizesHeld`, by the sums over disjoint sets of `ProofBasics`), so an
  allocation that stops half way has met exactly the case in which the records do not fit
  (`RefusedIs`), and a call that refuses has put back all it took (`AllKept`).

Induction. The induction theorems of the library cannot be instantiated, so
`ProofBasics` derives induction over sets of numbers from the well-foundedness of
the strict subset relation (`SetInduction`), and from it what a loop computes and keeps
(`LoopExists`, `LoopInvariant`), also when each turn has its own function and its own set
of states (`StepsExist`, `StepInvariant`). With that a recursive function of a model is
equal to the function the lemmas speak of, and a sum is one of its elements plus the
sum of the others.

Only model-checked: liveness and fairness (`DetachedResolved`, `CatchesUp`,
`ChecksGoOn`, `Served`), out of the prover's reach; what a killed process leaves in the
shared memory map (`CrashLeavesWalkable`, `CrashKeepsOthers`), which is about every
memory inside a call; `ConfigRead`, which compares two
readings of a text symbol by symbol; the packets (`RequestsAnswered`,
`OversizedReadsOn`, `ReportsReadBack`, `TotalsFollow`), whose properties are about
bytes computed by folds.

## Not modelled, and the plan

Not modelled: the XML parser and the second configuration reader (`src/core/MarkupSTL.cpp`,
`config.cpp`), locks, atomics and tasks, none of which the server uses; the text of
log messages, the levels that suppress them and the access log; command line and
daemon; the set-up of sockets and the lack of descriptors; the memcached library
(its answers are chosen freely); the packet methods and maintenance helpers of the
hash map that nobody calls.

Work that is left:

1. The halls with their queues, composed with `UserServer`: a close that arrives
   after the login on another hall. The packet does not say which session it closes, so
   the rule to check has to be found first.
2. Proofs about the crashes of the shared memory map, from an invariant of the memories
   between the ones that the lemmas about methods start from and end in.
