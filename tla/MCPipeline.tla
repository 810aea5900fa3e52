------------------------------ MODULE MCPipeline ------------------------------
EXTENDS Pipeline

Plain(name)  == [executable |-> <<name>>, arguments |-> <<>>]
With(name)   == [executable |-> <<name>>, arguments |-> <<"x">>]
FivePlain    == [k \in 1 .. 5 |-> Plain(<<"a", "b", "c", "d", "e">>[k])]
FiveWith     == [k \in 1 .. 5 |-> With(<<"f", "g", "h", "i", "j">>[k])]

\* A command as it is written in a file, and the file of some lines of them.
Show(c) == c.executable \o IF c.arguments = <<>> THEN <<>> ELSE <<" ">> \o c.arguments
Line(l) == FlattenSeq([k \in DOMAIN l |->
             Show(l[k]) \o IF k < Len(l) THEN <<" ", "|", " ">> ELSE <<"\n">>])
Lines(ls, newline) ==
  LET text == FlattenSeq([k \in DOMAIN ls |-> Line(ls[k])])
  IN  [text |-> IF newline THEN text ELSE Front(text), lines |-> ls]

\* Three full lines, which use up the descriptors; lines with too few and too
\* many commands; and last lines without a newline.
Files == {
  Lines(<<FiveWith, FivePlain, FivePlain>>, TRUE),
  Lines(<<FivePlain, <<With("a"), Plain("b")>>, FivePlain>>, TRUE),
  Lines(<<FivePlain \o <<With("f")>>>>, TRUE),
  Lines(<<FiveWith, <<With("a")>>>>, FALSE),
  Lines(<<FiveWith, <<Plain("a")>>>>, FALSE)}
===============================================================================
