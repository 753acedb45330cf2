-------------------------------- MODULE JsonlLog --------------------------------
(***************************************************************************)
(* The content of one JSONL file as JsonlProposalStore and                  *)
(* JsonlVersionRegistry (src/src/loomground_solver/addons/metacognition)    *)
(* write and read it.  A file is a sequence of lines as str.splitlines      *)
(* finds them; a line is the record it encodes, or Garbage when it does not *)
(* parse.  open: nothing that ends the line has been written after it yet.  *)
(***************************************************************************)
EXTENDS Naturals, Sequences, SequencesExt

CONSTANTS Garbage   \* a line that json.loads refuses

Line(text, open) == [text |-> text, open |-> open]

(* The lines that writing rec, or rec without its newline, leaves behind.   *)
(* json.dumps(ensure_ascii=False) keeps U+2028, U+2029 and U+0085 as they   *)
(* are, and splitlines ends a line at each of them: split tells whether the *)
(* record's text holds one.                                                 *)
Lines(rec, split, ended) ==
    IF split THEN <<Line(Garbage, FALSE), Line(Garbage, ~ended)>>
    ELSE <<Line(rec, ~ended)>>

(* Opened with mode "a": the write continues a line that was left open.     *)
Joined(file, lines) ==
    IF lines = <<>> THEN file
    ELSE IF file # <<>> /\ Last(file).open
         THEN Front(file) \o <<[Head(lines) EXCEPT !.text = Garbage]>> \o Tail(lines)
         ELSE file \o lines

Appended(file, rec, split) == Joined(file, Lines(rec, split, TRUE))

(* What a process that dies during the write may leave: nothing, a part of  *)
(* the first line, or everything but the newline.                           *)
Torn(file, rec, split) ==
    {Joined(file, part) : part \in {<<>>, <<Line(Garbage, TRUE)>>, Lines(rec, split, FALSE)}}

(* json.loads accepts every line, so that load returns.                     *)
Loads(file) == \A i \in 1..Len(file) : file[i].text # Garbage

Contents(file) == [i \in 1..Len(file) |-> file[i].text]
=============================================================================
