------------------------------ MODULE LogFile ------------------------------
(***************************************************************************)
(* The two logs of the server.  write_log (src/core/log.cpp) goes round a  *)
(* ring of files and empties the one it comes to; clib_log (Server/        *)
(* clib_log.cpp) renames its files, .1 being the newest of the old ones.   *)
(* A message is a record of its number and its length, a file a sequence   *)
(* of messages; what the text of a message says is left out.               *)
(***************************************************************************)
EXTENDS Integers, SequencesExt

Missing == <<[n |-> 0, len |-> 0]>>   \* there is no such file

NoFiles == [p \in {} |-> <<>>]       \* a directory without files

\* st_size of a file.
Size(file) ==
  LET sum[i \in 0..Len(file)] == IF i = 0 THEN 0 ELSE sum[i - 1] + file[i].len
  IN  sum[Len(file)]

-----------------------------------------------------------------------------
(* The ring: pos is cur_file_pos, num max_file_num, size max_file_size      *)

\* init_log: limits below 1 leave the old ones.
init_log(log, app, max_num, max_size) ==
  [log EXCEPT !.app = app,
              !.num = IF max_num > 0 THEN max_num ELSE @,
              !.size = IF max_size > 0 THEN max_size ELSE @]

\* open creates a file that is not there.
File(log) == IF log.pos \in DOMAIN log.files THEN log.files[log.pos] ELSE <<>>

Put(log, pos, file) ==
  [log EXCEPT !.pos = pos,
              !.files = [p \in DOMAIN @ \cup {pos} |-> IF p = pos THEN file ELSE @[p]]]

\* Mutant: the file the ring comes to is not emptied.
write_log_append(log, m) ==
  LET full == Size(File(log)) >= log.size
      pos == IF full THEN (log.pos + 1) % log.num ELSE log.pos
  IN  Put(log, pos, Append(File([log EXCEPT !.pos = pos]), m))

\* write_log: a full file is left for the next one, which is opened with O_TRUNC.
\* Without a name (before the first init_log) nothing is written.
write_log(log, m) ==
  IF log.app = "" THEN log
  ELSE IF Size(File(log)) >= log.size THEN Put(log, (log.pos + 1) % log.num, <<m>>)
  ELSE Put(log, log.pos, Append(File(log), m))

-----------------------------------------------------------------------------
(* The renamed files: 0 is the file itself, i the file with the suffix .i   *)

rename(files, old, new) ==
  IF files[old] = Missing THEN files
  ELSE [files EXCEPT ![new] = files[old], ![old] = Missing]

\* Mutant: the files are renamed from the newest on.
rotate_upwards(files, maxfile) ==
  LET after[k \in 0..maxfile] ==
        IF k = 0 THEN files ELSE rename(after[k - 1], k - 1, k)
  IN  after[maxfile]

\* check_file renames from the oldest on; renaming a file that does not exist
\* does nothing.
rotate(files, maxfile) ==
  LET after[k \in 0..maxfile] ==
        IF k = 0 THEN files ELSE rename(after[k - 1], maxfile - k, maxfile - k + 1)
  IN  after[maxfile]

\* check_file: if the file does not exist, the size that is looked at was never
\* read, and anything may be found there (garbage).
check_file(files, maxfile, maxsize, garbage) ==
  IF maxfile > 0 /\ maxsize > 0
     /\ (IF files[0] = Missing THEN garbage ELSE Size(files[0]) > maxsize)
  THEN rotate(files, maxfile) ELSE files

\* clib_log::write, clib_log_write: check, then append, creating the file.
clib_write(files, maxfile, maxsize, garbage, m) ==
  LET f == check_file(files, maxfile, maxsize, garbage)
  IN  [f EXCEPT ![0] = IF @ = Missing THEN <<m>> ELSE Append(@, m)]
=============================================================================
