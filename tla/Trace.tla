------------------------------- MODULE Trace -------------------------------
(***************************************************************************)
(* Trace files as text, and compare_trace_files.  A record formats to one  *)
(* line, and different records to different lines; of the line only two    *)
(* pieces matter, an opening all lines share and the rest, so that a file  *)
(* can end inside a line as well as just before or after its newline.      *)
(***************************************************************************)
EXTENDS Integers, Sequences, SequencesExt, FiniteSetsExt

Newline == <<"newline">>
format_trace_record(r) == <<<<"opening">>, <<"rest", r>>>>

(* What JsonlTraceWriter::append writes for a sequence of records: of each *)
(* record the two pieces of its line, and the newline.                     *)
Text(records) ==
  LET pieces(i) == format_trace_record(records[i]) \o <<Newline>>
  IN [k \in 1..3 * Len(records) |-> pieces((k + 2) \div 3)[((k + 2) % 3) + 1]]

(* The lines std::getline reads off a text end before a newline, or at the *)
(* end of the text: what follows the last newline is a line only if it is  *)
(* not empty.  Line k lies between the stops k - 1 and k, counted from 0.  *)
Stops(text) ==
  LET n == Len(text)
      newlines == {i \in 1..n : text[i] = Newline}
  IN {0} \cup newlines \cup (IF n > 0 /\ text[n] # Newline THEN {n + 1} ELSE {})
Stop(stops, k) == CHOOSE e \in stops : Cardinality({d \in stops : d < e}) = k
Lines(text) ==
  LET stops == Stops(text)
  IN [k \in 1..Cardinality(stops)-1 |->
        SubSeq(text, Stop(stops, k - 1) + 1, Stop(stops, k) - 1)]

(* compare_trace_files: the number of the first line that differs or that  *)
(* only one side has, if any.                                              *)
compare_trace_files_until_shorter_ends(left, right) ==
  LET l == Lines(left)
      r == Lines(right)
      differ == {k \in DOMAIN l \cap DOMAIN r : l[k] # r[k]}
  IN IF differ = {} THEN {} ELSE {Min(differ)}

compare_trace_files(left, right) ==
  LET l == Lines(left)
      r == Lines(right)
      same == {k \in DOMAIN l \cap DOMAIN r : l[k] = r[k]}
      differ == (DOMAIN l \cup DOMAIN r) \ same
  IN IF differ = {} THEN {} ELSE {Min(differ)}
=============================================================================
