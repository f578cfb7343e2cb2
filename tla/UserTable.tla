------------------------------ MODULE UserTable ------------------------------
(***************************************************************************)
(* What the shared memory table promises to its users (the interface of    *)
(* CShmHashMap as Server/GameUserSHM.cpp uses it): a map from keys to      *)
(* records of bounded size.  A record that does not fit is refused and     *)
(* changes nothing; every other call has its effect and says so.  A start  *)
(* may lose the records, but then all of them.                             *)
(***************************************************************************)
EXTENDS Integers, FiniteSets, Functions

CONSTANTS
  Keys,        \* user ids
  Data,        \* records
  Chunks(_),   \* number of chunks that a record needs
  NodeTotal,   \* how many records fit
  ChunkTotal,  \* how many chunks they may need together
  NotFound     \* reply of Find for a key that is not in the table

VARIABLES
  table,       \* the record of each key, or NotFound
  reply        \* what the last call returned

vars == <<table, reply>>

Held(t) == {k \in Keys : t[k] # NotFound}

Fits(t) ==
  /\ Cardinality(Held(t)) <= NodeTotal
  /\ SumFunction([k \in Held(t) |-> Chunks(t[k])]) <= ChunkTotal

Empty == [k \in Keys |-> NotFound]

Init == table = Empty /\ reply = 0

Find(k) ==
  /\ reply' = table[k]
  /\ UNCHANGED table

SetValue(k, d) ==
  LET t == [table EXCEPT ![k] = d]
  IN  \/ Fits(t) /\ table' = t /\ reply' = 0
      \/ ~Fits(t) /\ UNCHANGED table /\ reply' = -1

Delete(k) ==
  /\ reply' = IF table[k] = NotFound THEN -1 ELSE 0
  /\ table' = [table EXCEPT ![k] = NotFound]

\* A start that formats the segment loses all records, never some of them.
Format ==
  /\ table' = Empty
  /\ UNCHANGED reply

Next ==
  \/ Format
  \/ \E k \in Keys : \/ Find(k)
                     \/ \E d \in Data : SetValue(k, d)
                     \/ Delete(k)

Spec == Init /\ [][Next]_vars
=============================================================================
