--------------------------- MODULE MCDirectoryList ---------------------------
EXTENDS DirectoryList

\* r holds a directory, a file, a directory with a subdirectory, and a link.
Tree == [r |-> <<".", "a", "p", "b", "l">>, a |-> <<".", "q">>, b |-> <<"c", "s">>, c |-> <<"t">>]

Instance(op, late, early, closed, ahead) ==
  [operator |-> op, unreadable |-> closed, chunk |-> ahead,
   mtime |-> [n \in Node |-> IF n \in late THEN 2 ELSE IF n \in early THEN 0 ELSE 1]]

\* Everything meets the condition, with entries read one by one, in pairs, or
\* all at once; then each operator, entries that meet it or not, directories
\* that cannot be read.
SmallInstances ==
  {Instance("=", {}, {}, {}, c) : c \in {1, 2, 5}}
  \cup {Instance("other", {"a", "p"}, {"b"}, u, 5) : u \in {{"a"}, {"b", "c"}}}
  \cup {Instance("=", {"p"}, {}, {}, 5), Instance(">", {"r", "a", "q", "t"}, {"b"}, {}, 5),
        Instance("<", {"b", "c"}, {"r", "a", "q", "s", "t"}, {"c"}, 5)}
===============================================================================
