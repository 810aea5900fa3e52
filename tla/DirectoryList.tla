---------------------------- MODULE DirectoryList ----------------------------
(***************************************************************************)
(* The three programs that list the entries of a directory tree which were *)
(* modified before, after or at a given time:                              *)
(*   lab2/cw2a  reads directories itself and calls itself for each one;    *)
(*   lab2/cw2b  leaves the walk to nftw, whose callback can end it;        *)
(*   lab3/cw1   is lab2/cw2a with a fork for each directory: the child     *)
(*              lists it, and then goes on with the loops of its parent.   *)
(*                                                                         *)
(* readdir reads chunk entries of the directory ahead into the process; a  *)
(* fork copies what was read ahead, but the offset of the open directory   *)
(* is shared.  A step is one readdir or one entry of a directory.  Not     *)
(* modelled: what is printed of an entry, the length of paths, a tree that *)
(* changes meanwhile, and output that is still buffered at a fork.         *)
(***************************************************************************)
EXTENDS Integers, SequencesExt, FiniteSetsExt

CONSTANTS
  Directory, Link, Plain,   \* the entries of the tree, by d_type
  Dots,         \* the entries "." and ".."
  Root,         \* the directory to list
  Entries,      \* the entries of each directory, in the order of readdir
  Instances,    \* the arguments, file systems and states of the tree to look at
  TimeToFilter,
  MaxProcesses  \* bound: the process numbers the system gives

Node == Directory \cup Link \cup Plain

ASSUME DirectoryListAssumption ==
  /\ Root \in Directory /\ IsFiniteSet(Node)
  /\ Entries \in [Directory -> Seq(Node \cup Dots)]
  /\ \A x \in Instances :
       /\ x.operator \in {"=", ">", "<", "other"}
       /\ DOMAIN x.mtime = Node /\ \A n \in Node : x.mtime[n] \in Nat
       /\ x.unreadable \subseteq Directory \ {Root} /\ x.chunk \in Nat \ {0}
  /\ TimeToFilter \in Nat /\ MaxProcesses \in Nat \ {0}

\* The tree: an entry is in one place of one directory, and directories are
\* nested, but not deeper than the bound.
ASSUME TreeAssumption ==
  /\ Dots \cap Node = {} /\ Directory \cap Link = {} /\ Directory \cap Plain = {} /\ Link \cap Plain = {}
  /\ \A d, e \in Directory : \A j \in DOMAIN Entries[d], k \in DOMAIN Entries[e] :
       Entries[d][j] \in Node /\ Entries[d][j] = Entries[e][k] => d = e /\ j = k
  /\ \A d \in Directory : Root \notin Range(Entries[d])
  /\ \E height \in [Directory -> 0 .. MaxProcesses - 1] :
       \A d \in Directory : \A n \in Range(Entries[d]) \cap Directory : height[n] < height[d]

VARIABLES
  program,    \* which of the three
  operator,   \* its second argument
  mtime, unreadable,   \* modification times, and the directories it may not read
  chunk,      \* how many entries readdir reads ahead
  calls,      \* per process, the directories it is in the loop of, innermost last
  offset,     \* how many entries were read from each open directory
  forks,      \* how many processes there were
  listed,     \* how often each entry was printed
  failed      \* history: did a fork fail?

instance == <<program, operator, mtime, unreadable, chunk>>
listVars == <<instance, calls, offset, forks, listed, failed>>

Process == 1 .. MaxProcesses
Call(dir, stream) == [dir |-> dir, stream |-> stream, ahead |-> <<>>]

(* fileMeetRequirements; an operator it does not know accepts everything. *)
MeetsTime(n) ==
  CASE operator = "=" -> mtime[n] = TimeToFilter
    [] operator = ">" -> mtime[n] > TimeToFilter
    [] operator = "<" -> mtime[n] < TimeToFilter
    [] OTHER -> TRUE
Meets(n) == n \notin Link /\ MeetsTime(n)
\* nftw starts with the root itself, list with what is in it.
ListInit ==
  /\ program \in {"lab2/cw2a", "lab2/cw2b", "lab3/cw1"}
  /\ \E x \in Instances : /\ operator = x.operator /\ mtime = x.mtime
                          /\ unreadable = x.unreadable /\ chunk = x.chunk
  /\ calls = [p \in Process |-> IF p = 1 /\ (program = "lab2/cw2b" => Meets(Root))
                                THEN <<Call(Root, 1)>> ELSE <<>>]
  /\ offset = [s \in Process |-> 0]
  /\ forks = 1
  /\ listed = [n \in Node |-> IF n = Root /\ program = "lab2/cw2b" /\ Meets(n) THEN 1 ELSE 0]
  /\ failed = FALSE

-------------------------------------------------------------------------------
Running(p) == calls[p] # <<>>
Top(p) == Last(calls[p])
Unread(p) == Len(Entries[Top(p).dir]) - offset[Top(p).stream]

Readdir(p) ==
  /\ Running(p) /\ Top(p).ahead = <<>> /\ Unread(p) > 0
  /\ LET s == Top(p).stream
         n == Min({chunk, Unread(p)})
     IN  /\ calls' = [calls EXCEPT ![p][Len(calls[p])].ahead =
                        SubSeq(Entries[Top(p).dir], offset[s] + 1, offset[s] + n)]
         /\ offset' = [offset EXCEPT ![s] = @ + n]
  /\ UNCHANGED <<instance, forks, listed, failed>>

\* list returns, to the loop it was called from or was forked in.
Closedir(p) ==
  /\ Running(p) /\ Top(p).ahead = <<>> /\ Unread(p) = 0
  /\ calls' = [calls EXCEPT ![p] = Front(@)]
  /\ UNCHANGED <<instance, offset, forks, listed, failed>>

\* The calls of p without the entry it looks at, and with a call of list for it.
Entry(p) == Head(Top(p).ahead)
Rest(p)  == [calls[p] EXCEPT ![Len(calls[p])].ahead = Tail(@)]
Listing(p, stream) == Append(Rest(p), Call(Entry(p), stream))

HasEntry(p, programs) == program \in programs /\ Running(p) /\ Top(p).ahead # <<>>
PrintIf(n, yes) == listed' = IF yes THEN [listed EXCEPT ![n] = @ + 1] ELSE listed

SkipDots(p) ==
  /\ HasEntry(p, {"lab2/cw2a", "lab2/cw2b", "lab3/cw1"}) /\ Entry(p) \in Dots
  /\ calls' = [calls EXCEPT ![p] = Rest(p)]
  /\ UNCHANGED <<instance, offset, forks, listed, failed>>

\* opendir fails for an unreadable directory, and list returns at once.
Opens(n) == n \in Directory \ unreadable

(* lab2/cw2a: list *)
ListEntry_OnlyMatching(p) ==
  /\ HasEntry(p, {"lab2/cw2a"}) /\ Entry(p) \notin Dots
  /\ PrintIf(Entry(p), Meets(Entry(p)))
  /\ LET s == Len(calls[p]) + 1 IN
       IF Meets(Entry(p)) /\ Opens(Entry(p))
       THEN /\ calls' = [calls EXCEPT ![p] = Listing(p, s)]
            /\ offset' = [offset EXCEPT ![s] = 0]
       ELSE calls' = [calls EXCEPT ![p] = Rest(p)] /\ UNCHANGED offset
  /\ UNCHANGED <<instance, forks, failed>>
ListEntry(p) ==
  /\ HasEntry(p, {"lab2/cw2a"}) /\ Entry(p) \notin Dots
  /\ PrintIf(Entry(p), Meets(Entry(p)))
  /\ LET s == Len(calls[p]) + 1 IN
       IF Opens(Entry(p))
       THEN /\ calls' = [calls EXCEPT ![p] = Listing(p, s)]
            /\ offset' = [offset EXCEPT ![s] = 0]
       ELSE calls' = [calls EXCEPT ![p] = Rest(p)] /\ UNCHANGED offset
  /\ UNCHANGED <<instance, forks, failed>>

(* lab2/cw2b: nftw calls display_info; a result other than 0 ends the walk. *)
DisplayInfo_GoesOn(p) ==
  /\ HasEntry(p, {"lab2/cw2b"}) /\ Entry(p) \notin Dots
  /\ PrintIf(Entry(p), Meets(Entry(p)))
  /\ LET s == Len(calls[p]) + 1 IN
       IF Opens(Entry(p))
       THEN /\ calls' = [calls EXCEPT ![p] = Listing(p, s)]
            /\ offset' = [offset EXCEPT ![s] = 0]
       ELSE calls' = [calls EXCEPT ![p] = Rest(p)] /\ UNCHANGED offset
  /\ UNCHANGED <<instance, forks, failed>>
DisplayInfo(p) ==
  /\ HasEntry(p, {"lab2/cw2b"}) /\ Entry(p) \notin Dots
  /\ PrintIf(Entry(p), Meets(Entry(p)))
  /\ LET s == Len(calls[p]) + 1 IN
       IF Meets(Entry(p)) /\ Opens(Entry(p))
       THEN /\ calls' = [calls EXCEPT ![p] = Listing(p, s)]
            /\ offset' = [offset EXCEPT ![s] = 0]
       ELSE /\ calls' = [calls EXCEPT ![p] = IF Meets(Entry(p)) THEN Rest(p) ELSE <<>>]
            /\ UNCHANGED offset
  /\ UNCHANGED <<instance, forks, failed>>

(* lab3/cw1: list *)
ListLeaf(p) ==
  /\ HasEntry(p, {"lab3/cw1"}) /\ Entry(p) \in Link \cup Plain
  /\ PrintIf(Entry(p), Meets(Entry(p)))
  /\ calls' = [calls EXCEPT ![p] = Rest(p)]
  /\ UNCHANGED <<instance, offset, forks, failed>>

Forked_ChildEnds(p, c) ==
  [calls EXCEPT ![p] = Rest(p),
                ![c] = IF Opens(Entry(p)) THEN <<Call(Entry(p), c)>> ELSE <<>>]
Forked(p, c) == [calls EXCEPT ![p] = Rest(p),
                              ![c] = IF Opens(Entry(p)) THEN Listing(p, c) ELSE Rest(p)]
ForkForDirectory(p) ==
  /\ HasEntry(p, {"lab3/cw1"}) /\ Entry(p) \in Directory
  /\ forks < MaxProcesses /\ forks' = forks + 1
  /\ PrintIf(Entry(p), Meets(Entry(p)))
  /\ calls' = Forked(p, forks + 1)
  /\ UNCHANGED <<instance, offset, failed>>

\* The result -1 is taken for the child's number, and the directory left out.
\* Bound: one fork fails.
ForkFails(p) ==
  /\ HasEntry(p, {"lab3/cw1"}) /\ Entry(p) \in Directory /\ ~failed
  /\ PrintIf(Entry(p), Meets(Entry(p)))
  /\ calls' = [calls EXCEPT ![p] = Rest(p)]
  /\ failed' = TRUE
  /\ UNCHANGED <<instance, offset, forks>>

Step(p) ==
  \/ Readdir(p) \/ Closedir(p) \/ SkipDots(p) \/ ListEntry(p) \/ DisplayInfo(p)
  \/ ListLeaf(p) \/ ForkForDirectory(p) \/ ForkFails(p)

ListNext == \E p \in Process : Step(p)

ListSpec == ListInit /\ [][ListNext]_listVars
-------------------------------------------------------------------------------
\* Type correctness: nobody is in the loop of something that is no directory,
\* and no offset passes the end of its directory.
ListTypeOK ==
  /\ \A p \in Process : \A k \in DOMAIN calls[p] :
       /\ calls[p][k].dir \in Directory /\ calls[p][k].stream \in Process
       /\ Len(calls[p][k].ahead) <= chunk
  /\ \A s \in Process : offset[s] \in 0 .. Max({Len(Entries[d]) : d \in Directory})
  /\ forks \in Process
  /\ listed \in [Node -> Nat] /\ failed \in BOOLEAN

Done == \A p \in Process : ~Running(p)

\* The entries below a directory that can be reached, in the order of a walk.
Below(n, walk) ==
  CASE n \in Dots -> <<>>
    [] Opens(n)   -> <<n>> \o walk[n]
    [] OTHER      -> <<n>>
Walk[d \in Directory] == FlattenSeq([k \in DOMAIN Entries[d] |-> Below(Entries[d][k], Walk)])
Reached == Range(Walk[Root])

\* lab2/cw2a prints every entry that can be reached and meets the condition
\* exactly once, and nothing else.
ListsEachOnce ==
  program = "lab2/cw2a" /\ Done =>
    \A n \in Node : listed[n] = IF n \in Reached /\ Meets(n) THEN 1 ELSE 0

\* lab2/cw2b prints the entries of a walk up to the first that is a link or
\* does not meet the condition: everything after it is left out.
StopsAtFirst ==
  program = "lab2/cw2b" /\ Done =>
    LET walk == <<Root>> \o Walk[Root] IN
    \A k \in DOMAIN walk :
      listed[walk[k]] = IF \A j \in 1 .. k : Meets(walk[j]) THEN 1 ELSE 0

\* How many processes come out of a call of list for each one that goes in,
\* and how many of them go past the first k entries.
Past(d, k, out) ==
  FoldLeft(LAMBDA n, e : IF e \in Directory THEN n * (1 + out[e]) ELSE n,
           1, SubSeq(Entries[d], 1, k))
Out[d \in Directory] == IF Opens(d) THEN Past(d, Len(Entries[d]), Out) ELSE 1

\* How many processes enter a directory of the tree, and print an entry of it.
Enter[d \in Directory] ==
  IF d = Root THEN 1
  ELSE LET up == CHOOSE u \in Directory : d \in Range(Entries[u])
       IN  Enter[up] * Past(up, SelectInSeq(Entries[up], LAMBDA e : e = d) - 1, Out)
Copies(d, k) == Enter[d] * Past(d, k - 1, Out)

\* lab3/cw1 prints an entry once for every process that goes past it, that is
\* 1 + Out[e] times as often for every directory e before it.  Where the shared
\* offset makes the processes divide a directory between them it is less, but
\* no entry is missed, unless a fork failed.
CopiesAgree ==
  program = "lab3/cw1" /\ Done /\ ~failed =>
    \A d \in Directory : \A k \in DOMAIN Entries[d] :
      LET n == Entries[d][k] IN
      n \in Reached /\ Meets(n) =>
        /\ listed[n] \in 1 .. Copies(d, k)
        /\ (\A u \in Directory : chunk >= Len(Entries[u])) => listed[n] = Copies(d, k)

\* Every process stays inside its directories, and prints what it goes past.
WalkInv == ListTypeOK /\ CopiesAgree

===============================================================================
