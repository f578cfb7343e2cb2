------------------------------ MODULE IniFile ------------------------------
(***************************************************************************)
(* The reader of configuration files (Server/IniFile.cpp).  It works on    *)
(* the text of the file, without dividing it into lines.                   *)
(*                                                                         *)
(* A text is a sequence of symbols: a section header in brackets and a key *)
(* name are one symbol each, other letters, digits, blanks, "=" and the    *)
(* end of a line are symbols of their own.  A longer name that contains a  *)
(* key, such as xLOGNUM, is the sequence <<"x", "LOGNUM">>.  Positions     *)
(* count from 1; a pointer behind the text is Len(text) + 1, where the     *)
(* terminating NUL is.                                                     *)
(***************************************************************************)
EXTENDS Integers, SequencesExt

NL == "nl"
NUL == "nul"
Blanks == {" ", "tab"}
Headers == {"[log]", "[levelcount]"}
NotFound == [found |-> FALSE]

\* ToLower: names are spelled in capitals or in small letters.
ToLower(c) == CASE c = "[LOG]"        -> "[log]"
                [] c = "[LEVELCOUNT]" -> "[levelcount]"
                [] c = "LOGNUM"       -> "lognum"
                [] c = "LOGSIZE"      -> "logsize"
                [] c = "RANDCOUNT"    -> "randcount"
                [] OTHER              -> c

At(text, p) == IF p <= Len(text) THEN text[p] ELSE NUL

\* The first position from p on, before end, whose symbol is not skipped.
SkipWhile(text, p, end, skip) ==
  LET stops == {q \in p..(end - 1) : text[q] \notin skip}
  IN  IF p >= end \/ stops = {} THEN (IF p > end THEN p ELSE end) ELSE Min(stops)

SkipTo(text, p, end, stop) ==
  LET stops == {q \in p..(end - 1) : text[q] \in stop}
  IN  IF p >= end \/ stops = {} THEN (IF p > end THEN p ELSE end) ELSE Min(stops)

\* Mutant: what stands before the word is not looked at.
SearchSuffix(text, begin, word) ==
  {p \in begin..Len(text) :
     /\ ToLower(text[p]) = word
     /\ At(text, p + 1) \in Blanks \cup {"=", NL}}

\* SearchMarchStr: the places where the word stands alone, with a blank or the
\* end of a line before it and one of these or "=" behind it.  The search goes
\* on behind a place it rejects, and there nothing before the word counts.
SearchMarchStr(text, begin, word) ==
  {p \in begin..Len(text) :
     /\ ToLower(text[p]) = word
     /\ \/ p = begin
        \/ text[p - 1] \in Blanks \cup {NL}
        \/ ToLower(text[p - 1]) = word
     /\ At(text, p + 1) \in Blanks \cup {"=", NL}}

\* The first of them, if it is within the range; 0 otherwise.
FirstBefore(end, found) ==
  IF found = {} THEN 0 ELSE IF Min(found) + 1 > end THEN 0 ELSE Min(found)

LocateStr(text, word, begin, end) ==
  IF begin >= end THEN 0 ELSE FirstBefore(end, SearchMarchStr(text, begin, word))

\* The header that ends a section is the first symbol of its line that is not
\* blank.
FirstOnLine(text, begin, p) ==
  \A q \in begin..(p - 1) :
    text[q] \in Blanks \cup {NL} \/ \E r \in q..(p - 1) : text[r] = NL

\* LocateSection: from the line behind the header to the next header.
LocateSection(text, header) ==
  LET n == Len(text) + 1
      p == LocateStr(text, header, 1, n)
      begin == SkipWhile(text, SkipTo(text, p + 1, n, {NL}), n, {NL})
      ends == {q \in begin..Len(text) :
                 ToLower(text[q]) \in Headers /\ FirstOnLine(text, begin, q)}
  IN  IF p = 0 THEN NotFound
      ELSE [found |-> TRUE, begin |-> begin,
            end |-> IF ends = {} THEN n ELSE Min(ends)]

\* The common part of LocateKeyValue and LocateKeyRange: the first place of the
\* key that is followed by "="; the search goes on where the "=" was missed.
LocateKey(text, key, begin, end) ==
  LET search[b \in Nat] ==
        LET p == LocateStr(text, key, b, end)
            q == SkipWhile(text, p + 1, end, Blanks)
        IN  IF p = 0 THEN NotFound
            ELSE IF At(text, q) = "=" THEN [found |-> TRUE, begin |-> p, eq |-> q]
            ELSE search[q]
  IN  search[begin]

\* LocateKeyValue: from the first symbol behind "=" that is not blank to a tab
\* or the end of the line.  An empty value counts as not found.
LocateKeyValue(text, key, section) ==
  LET k == LocateKey(text, key, section.begin, section.end)
      begin == SkipWhile(text, k.eq + 1, section.end, Blanks)
      end == SkipTo(text, begin, section.end, {"tab", NL})
  IN  IF ~k.found THEN NotFound
      ELSE IF end > begin THEN [found |-> TRUE, begin |-> begin, end |-> end]
      ELSE NotFound

\* LocateKeyRange: from the key to the start of the next line that is not empty.
LocateKeyRange(text, key, section) ==
  LET k == LocateKey(text, key, section.begin, section.end)
      eol == SkipTo(text, k.eq + 1, section.end, {NL})
  IN  IF ~k.found THEN NotFound
      ELSE [found |-> TRUE, begin |-> k.begin,
            end |-> SkipWhile(text, eol, section.end, {NL})]

\* GetItemValue, as the symbols of the value; <<>> if there is none.
Part(text, value) ==
  IF value.found THEN SubSeq(text, value.begin, value.end - 1) ELSE <<>>

GetItemValue(text, header, key) ==
  LET section == LocateSection(text, header)
  IN  IF section.found THEN Part(text, LocateKeyValue(text, key, section)) ELSE <<>>

\* atol: the digits at the beginning (external).
Digits == [c \in {"0", "1", "2", "3"} |->
             CASE c = "0" -> 0 [] c = "1" -> 1 [] c = "2" -> 2 [] c = "3" -> 3]

atol(value) ==
  LET n == SkipWhile(value, 1, Len(value) + 1, DOMAIN Digits) - 1
      number[i \in 0..n] ==
        IF i = 0 THEN 0 ELSE 10 * number[i - 1] + Digits[value[i]]
  IN  number[n]

Read(value, default) == IF value = <<>> THEN default ELSE atol(value)

ReadInt(text, header, key, default) == Read(GetItemValue(text, header, key), default)

\* SetItemValue: the line of the key is replaced, or one is added at the top of
\* the section; without the section nothing happens.
SetItemValue(text, header, key, value) ==
  LET section == LocateSection(text, header)
      range == LocateKeyRange(text, key, section)
      line == <<key, " ", "=", " ">> \o value \o <<NL>>
      begin == IF range.found THEN range.begin ELSE section.begin
      end == IF range.found THEN range.end ELSE section.begin
  IN  IF ~section.found THEN text
      ELSE SubSeq(text, 1, begin - 1) \o line \o SubSeq(text, end, Len(text))
=============================================================================
