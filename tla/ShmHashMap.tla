----------------------------- MODULE ShmHashMap -----------------------------
(***************************************************************************)
(* CShmHashMap (Server/ShmHashMap.hpp) over its shared memory segment      *)
(* (Server/SVShm.cpp), across the lives of the process that uses it: the   *)
(* segment is created by the first start, calls work on it, the process    *)
(* may die between calls (Stop) or inside one (Crash: SIGTERM and SIGKILL  *)
(* are not caught), and the next start opens the segment it left.          *)
(***************************************************************************)
EXTENDS HashMap

CONSTANTS
  Keys,       \* user ids
  Data,       \* records
  NotFound,   \* reply of Find for a key that is not there
  Torn,       \* reply of Find for a record that was not written as a whole
  InitFlags   \* what Init's variable init may hold if nothing was assigned to it

ASSUME ShmAssumption ==
  /\ Keys \subseteq Nat
  /\ InitFlags \subseteq BOOLEAN
  /\ \A d \in Data : DataLen(d) \in Nat \ {0}
  /\ NotFound \notin Data

VARIABLES
  pool,    \* the segment
  status,  \* "new": no segment yet; "down": no process; "up"; "refused": Init
           \* failed, main gives up; "damaged": up with a pool that is not sound
  reply    \* what the last call returned, or the call in which the process died

vars == <<pool, status, reply>>

-----------------------------------------------------------------------------
(* What a pool holds                                                       *)

Value(m, n) ==
  LET ps == merge(m, m.chunk_head[n], m.chunk_len[n])
      whole == {d \in Data : ps = Pieces(d)}
  IN  IF whole = {} THEN Torn ELSE CHOOSE d \in whole : TRUE

Lookup(m, k) ==
  LET n == node_of(m, k) IN IF n = INVALID THEN NotFound ELSE Value(m, n)

Linked(m) == {n \in Nodes : \E b \in Buckets : n \in ToSet(bucket_list(m, b))}
FreeNodes(m) == ToSet(Chain(m.node_next, m.map.free_list))
AddList(m) == Chain(m.add_next, m.map.add_head)
ChunksOf(m, n) == Chain(m.next, m.chunk_head[n])
FreeChunks(m) == Chain(m.next, m.chunk.free_list)

\* Every node is either on the list of its bucket or free.
NodesSound(m) ==
  /\ \A b \in Buckets :
       LET l == bucket_list(m, b)
       IN  /\ IsInjective(l)
           /\ \A i \in DOMAIN l :
                /\ get_bucket_id(m.key[l[i]]) = b
                /\ m.node_prev[l[i]] = IF i = 1 THEN INVALID ELSE l[i - 1]
  /\ IsList(m.node_next, m.map.free_list)
  /\ FreeNodes(m) = Nodes \ Linked(m)
  /\ m.map.used_node_num = Cardinality(Linked(m))
  /\ m.map.used_bucket_num = Cardinality({b \in Buckets : bucket_list(m, b) # <<>>})

\* The add list holds the nodes in use, once each, linked in both directions.
AddListSound(m) ==
  LET l == AddList(m)
  IN  /\ IsInjective(l) /\ ToSet(l) = Linked(m)
      /\ m.map.add_tail = IF l = <<>> THEN INVALID ELSE Last(l)
      /\ \A i \in DOMAIN l : m.add_prev[l[i]] = IF i = 1 THEN INVALID ELSE l[i - 1]

\* Every chunk belongs to one record or is free, none to two.
ChunksSound(m) ==
  LET owned == [n \in Linked(m) |-> ToSet(ChunksOf(m, n))]
  IN  /\ \A n \in Linked(m) :
           /\ IsInjective(ChunksOf(m, n))
           /\ Len(ChunksOf(m, n)) = get_chunk_num(m.chunk_len[n])
           /\ \A o \in Linked(m) \ {n} : owned[n] \cap owned[o] = {}
      /\ IsInjective(FreeChunks(m))
      /\ ToSet(FreeChunks(m)) = ChunkNodes \ UNION {owned[n] : n \in Linked(m)}
      /\ m.chunk.free_total = Len(FreeChunks(m))

Sound(m) == NodesSound(m) /\ AddListSound(m) /\ ChunksSound(m)

-----------------------------------------------------------------------------
(* Calls: the run a call takes the pool through, and its result            *)

FindRun(k) == find_node(<<pool>>, k)
FindReply(k) == Lookup(pool, k)

SetValueRun(k, d) == replace_node(<<pool>>, k, d)
SetValueReply(k, d) ==
  LET n == node_of(pool, k)
      fails == IF n = INVALID THEN insert_fails(pool, d) ELSE update_fails(pool, n, d)
  IN  IF fails THEN -1 ELSE 0

DeleteRun(k) ==
  LET n == node_of(pool, k)
  IN  IF n = INVALID THEN <<pool>> ELSE delete_node(find_node(<<pool>>, k), n)
DeleteReply(k) == IF node_of(pool, k) = INVALID THEN -1 ELSE 0

Done(run, res) ==
  /\ status = "up"
  /\ pool' = Last(run)
  /\ reply' = res
  /\ UNCHANGED status

Find(k) == Done(FindRun(k), FindReply(k))
SetValue(k, d) == Done(SetValueRun(k, d), SetValueReply(k, d))
Delete(k) == Done(DeleteRun(k), DeleteReply(k))

-----------------------------------------------------------------------------
(* Lives of the process                                                    *)

\* CShmHashMap::Init.  For a new segment init is set; for one that exists it
\* is used without having been assigned.
Start(flag) ==
  /\ \/ status = "new" /\ flag
     \/ status = "down" /\ flag \in InitFlags
  /\ pool' = IF flag THEN Last(open_init(<<pool>>)) ELSE pool
  /\ status' = IF ~flag /\ ~open_verify(pool) THEN "refused"
               ELSE IF Sound(pool') THEN "up" ELSE "damaged"
  /\ UNCHANGED reply

\* The process ends between two calls.
Stop ==
  /\ status = "up"
  /\ status' = "down"
  /\ UNCHANGED <<pool, reply>>

\* The process ends somewhere inside a call, or inside the initialisation.
Crash(run, call) ==
  /\ \E i \in 1..(Len(run) - 1) : pool' = run[i]
  /\ status' = "down"
  /\ reply' = call

CrashInCall ==
  /\ status = "up"
  /\ \E k \in Keys : \/ Crash(FindRun(k), "Find")
                     \/ \E d \in Data : Crash(SetValueRun(k, d), "SetValue")
                     \/ Crash(DeleteRun(k), "Delete")

CrashInInit ==
  /\ status = "new" \/ (status = "down" /\ TRUE \in InitFlags)
  /\ Crash(open_init(<<pool>>), "Init")

\* The fresh segment is all zeroes.
Init ==
  /\ pool = ZeroPool
  /\ status = "new"
  /\ reply = 0

Call == \E k \in Keys : \/ Find(k)
                        \/ \E d \in Data : SetValue(k, d)
                        \/ Delete(k)

Life == Stop \/ \E flag \in BOOLEAN : Start(flag)

\* A process that is never interrupted inside a call.
Next == Call \/ Life
Spec == Init /\ [][Next]_vars

\* A process that may die at any point.
CrashNext == Next \/ CrashInCall \/ CrashInInit
CrashSpec == Init /\ [][CrashNext]_vars

-----------------------------------------------------------------------------
(* Properties                                                              *)

\* After every call the lists, the counters and the chunks of the pool agree
\* with each other, so an uninterrupted process always leaves a pool that the
\* next start accepts.
PoolSound ==
  /\ status \in {"up", "down"} => Sound(pool) /\ open_verify(pool)
  /\ status \notin {"refused", "damaged"}

\* The calls implement a bounded map: lookups see exactly what was stored, and
\* only what cannot fit is refused.  A start keeps every record or, when the
\* flag it did not assign happens to be set, leaves an empty table that is as
\* good as a new one.
Table == [k \in Keys |-> IF status = "new" THEN NotFound ELSE Lookup(pool, k)]
record_chunks(d) == get_chunk_num(DataLen(d))
Abstract == INSTANCE UserTable WITH table <- Table, Chunks <- record_chunks
ImplementsTable == Abstract!Spec

\* Wherever a process dies inside a call, no record but the one it worked on is
\* found changed.  That one is gone if it was to be deleted, the new one if one
\* was to be stored or, if the new one was to replace it, a mixture of both: a new
\* record is never found torn, and one that is replaced is never lost.
CrashKeepsOthers ==
  [][status = "up" /\ status' = "down" =>
       LET found == {[key |-> k, old |-> Lookup(pool, k), new |-> Lookup(pool', k)] : k \in Keys}
       IN  \A f, g \in {h \in found : h.new # h.old} :
             /\ f.key = g.key
             /\ \/ f.new = NotFound /\ reply' = "Delete"
                \/ f.new \in Data /\ reply' = "SetValue"
                \/ f.new = Torn /\ f.old # NotFound /\ reply' = "SetValue"]_vars

\* Both parts of the segment have been initialised once.
Formatted(m) == m.map.node_total = NodeTotal /\ m.chunk.chunk_total = ChunkTotal

\* A process that died inside a call never leaves a list that the next start
\* would walk for ever, a free node or chunk that is still in use, or an add
\* list that is off by more than one user: what ReportStartTJData counts is the
\* number of users who can be found, or one less.
CrashLeavesWalkable ==
  status = "down" /\ Formatted(pool) =>
    /\ IsList(pool.node_next, pool.map.free_list)
    /\ IsInjective(FreeChunks(pool))
    /\ FreeNodes(pool) \cap Linked(pool) = {}
    /\ \A n \in Linked(pool) :
         ToSet(ChunksOf(pool, n)) \cap ToSet(FreeChunks(pool)) = {}
    /\ IsInjective(AddList(pool))
    /\ ToSet(AddList(pool)) \subseteq Linked(pool)
    /\ Cardinality(Linked(pool) \ ToSet(AddList(pool))) <= 1
=============================================================================
