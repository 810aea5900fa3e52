------------------------------ MODULE CommandLine ------------------------------
(***************************************************************************)
(* How lab4/cw3/interpreter.c and lab3/cw2/main.c read a line of commands  *)
(* and split it.  Characters are strings of length one, NUL ends a C       *)
(* string; the buffer is one array for all lines, so what fgets does not   *)
(* overwrite is still there.                                               *)
(***************************************************************************)
EXTENDS Integers, SequencesExt, FiniteSetsExt

CONSTANT MaxLength   \* MAX_LENGTH, the size of line and of the strings

ASSUME CommandLineAssumption == MaxLength \in Nat \ {0}

NUL == "0"
Isspace(c) == c \in {" ", "\n"}
Index == 1 .. MaxLength    \* line[k] is line[k - 1] of the code

First(S) == Min(S \cup {MaxLength + 1})

(* fgets: up to a newline, or as much as the buffer holds. *)
FgetsLength(text) ==
  Min({MaxLength - 1, Len(text)} \cup {k \in DOMAIN text : text[k] = "\n"})
Fgets(line, text) ==
  LET n == FgetsLength(text)
  IN  SubSeq(text, 1, n) \o <<NUL>> \o SubSeq(line, n + 2, MaxLength)

\* The C string in line[from .. to - 1].
CString(line, from, to) ==
  SubSeq(line, from, Min({to} \cup {k \in from .. to - 1 : line[k] = NUL}) - 1)

\* The first white space from inc on ends the name of the executable ...
NameEnd(line, inc) == First({k \in Index : k >= inc /\ Isspace(line[k])})

\* ... and the end of the line, or a '|', its argument.
LineEnd(line, k) ==
  line[k] = NUL \/ (line[k] = "\n" /\ k < MaxLength /\ line[k + 1] = NUL)
ArgumentsEnd(line, name) ==
  First({k \in Index : k > name /\ (line[k] = "|" \/ LineEnd(line, k))})

\* The '|' promises another command, and the space before it is dropped.
Piped(line, end) == end <= MaxLength /\ line[end] = "|"
Trimmed_KeepsSpace(line, name, end) == end
Trimmed(line, name, end) ==
  IF Piped(line, end) /\ end > name + 1 /\ line[end - 1] = " " THEN end - 1 ELSE end

(* create: the command between inc and end. *)
Create(line, inc, name, end) ==
  [executable |-> CString(line, inc, name),
   arguments  |-> CString(line, name + 1, Trimmed(line, name, end))]
===============================================================================
