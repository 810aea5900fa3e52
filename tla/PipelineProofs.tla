----------------------------- MODULE PipelineProofs -----------------------------
(***************************************************************************)
(* Theorems about Pipeline, for every file, every LENGTH_OF_EXECUTABLE,    *)
(* every number of descriptors and every size of a pipe.                   *)
(***************************************************************************)
EXTENDS Pipeline, TLAPS, WellFoundedInduction, FiniteSetTheorems

\* A set of numbers has a least one.
LEMMA NatMin ==
  ASSUME NEW T \in SUBSET Nat, T # {}
  PROVE  \E x \in T : \A y \in T : x <= y
<1> DEFINE R == {s \in Nat \X Nat : s[1] < s[2]}
<1>1. IsWellFoundedOn(R, Nat)
  BY NatLessThanWellFounded DEF OpToRel
<1>2. PICK x \in T : \A y \in T : <<y, x>> \notin R
  BY <1>1, WFMin
<1>3. ASSUME NEW y \in T PROVE x <= y
  <2>1. x \in Nat /\ y \in Nat /\ ~ (y < x)
    BY <1>2
  <2> QED
    BY <2>1
<1> QED
  BY <1>3

LEMMA MinIs ==
  ASSUME NEW T \in SUBSET Nat, T # {}
  PROVE  Min(T) \in T /\ Min(T) \in Nat /\ \A y \in T : Min(T) <= y
<1>1. \E x \in T : \A y \in T : x <= y
  BY NatMin
<1>2. Min(T) \in T /\ \A y \in T : Min(T) <= y
  BY <1>1 DEF Min
<1> QED
  BY <1>2
-------------------------------------------------------------------------------
(* How a line is read and split. *)
Character  == STRING \cup {NUL}
CommandSet == [executable : Seq(Character), arguments : Seq(Character)]
IsLine(l)  == l \in Seq(Character) /\ Len(l) = MaxLength

LEMMA SeqGrows ==
  ASSUME NEW A, NEW B, A \subseteq B, NEW s \in Seq(A)
  PROVE  s \in Seq(B)
<1>1. Len(s) \in Nat /\ s \in [1 .. Len(s) -> A]
  OBVIOUS
<1>2. s \in [1 .. Len(s) -> B]
  BY <1>1
<1> QED
  BY <1>1, <1>2

LEMMA FgetsLengthIs ==
  ASSUME NEW text \in Seq(Character)
  PROVE  /\ FgetsLength(text) \in Nat /\ FgetsLength(text) <= MaxLength - 1
         /\ FgetsLength(text) <= Len(text)
<1> DEFINE T == {MaxLength - 1, Len(text)} \cup {k \in DOMAIN text : text[k] = "\n"}
<1>1. MaxLength \in Nat \ {0} /\ Len(text) \in Nat /\ DOMAIN text = 1 .. Len(text)
  BY CommandLineAssumption
<1>2. T \in SUBSET Nat /\ MaxLength - 1 \in T /\ Len(text) \in T
  BY <1>1
<1>3. FgetsLength(text) = Min(T)
  BY DEF FgetsLength
<1> HIDE DEF T
<1>4. Min(T) \in Nat /\ \A y \in T : Min(T) <= y
  BY <1>2, MinIs
<1> QED
  BY <1>2, <1>3, <1>4

LEMMA FgetsIs ==
  ASSUME NEW l, IsLine(l), NEW text \in Seq(Character)
  PROVE  IsLine(Fgets(l, text))
<1>0. PICK n : n = FgetsLength(text)
  OBVIOUS
<1>1. n \in Nat /\ n <= MaxLength - 1 /\ n <= Len(text) /\ MaxLength \in Nat \ {0}
  BY <1>0, FgetsLengthIs, CommandLineAssumption
<1>2. l \in Seq(Character) /\ Len(l) = MaxLength
  BY DEF IsLine
<1> DEFINE a == SubSeq(text, 1, n)
           c == SubSeq(l, n + 2, MaxLength)
<1>3. a \in Seq(Character) /\ Len(a) = n
  BY <1>1
<1>4. c \in Seq(Character) /\ Len(c) = MaxLength - n - 1
  BY <1>1, <1>2
<1>5. <<NUL>> \in Seq(Character) /\ Len(<<NUL>>) = 1
  <2>1. NUL \in Character
    BY DEF Character
  <2> QED
    BY <2>1
<1>6. Fgets(l, text) = a \o <<NUL>> \o c
  BY <1>0 DEF Fgets
<1> HIDE DEF a, c
<1>7. a \o <<NUL>> \in Seq(Character) /\ Len(a \o <<NUL>>) = n + 1
  BY <1>1, <1>3, <1>5
<1>8. a \o <<NUL>> \o c \in Seq(Character) /\ Len(a \o <<NUL>> \o c) = n + 1 + (MaxLength - n - 1)
  BY <1>1, <1>4, <1>7
<1>9. n + 1 + (MaxLength - n - 1) = MaxLength
  BY <1>1
<1> QED
  BY <1>6, <1>8, <1>9 DEF IsLine

\* The least of some positions of a line, or the number behind its end.
LEMMA FirstIs ==
  ASSUME NEW T \in SUBSET Index
  PROVE  First(T) \in 1 .. MaxLength + 1 /\ (First(T) \in T \/ First(T) = MaxLength + 1)
<1>1. MaxLength \in Nat \ {0}
  BY CommandLineAssumption
<1>2. T \cup {MaxLength + 1} \in SUBSET (1 .. MaxLength + 1)
  BY <1>1 DEF Index
<1>3. T \cup {MaxLength + 1} \in SUBSET Nat /\ T \cup {MaxLength + 1} # {}
  BY <1>1, <1>2
<1>4. Min(T \cup {MaxLength + 1}) \in T \cup {MaxLength + 1}
  BY <1>3, MinIs
<1> QED
  BY <1>2, <1>4 DEF First

LEMMA CStringIs ==
  ASSUME NEW l, IsLine(l), NEW from \in Nat \ {0}, NEW to \in Nat, to <= MaxLength + 1
  PROVE  CString(l, from, to) \in Seq(Character)
<1> DEFINE T == {to} \cup {k \in from .. to - 1 : l[k] = NUL}
<1>1. MaxLength \in Nat \ {0}
  BY CommandLineAssumption
<1>2. T \in SUBSET Nat /\ T # {} /\ to \in T
  OBVIOUS
<1>3. PICK m : m = Min(T) - 1
  OBVIOUS
<1>4. CString(l, from, to) = SubSeq(l, from, m)
  BY <1>3 DEF CString
<1> HIDE DEF T
<1>5. Min(T) \in Nat /\ Min(T) <= to
  BY <1>2, MinIs
<1>6. m \in Int /\ m <= MaxLength
  BY <1>1, <1>3, <1>5
<1>7. l \in Seq(Character) /\ Len(l) = MaxLength
  BY DEF IsLine
<1>8. SubSeq(l, from, m) \in Seq(Character)
  BY <1>1, <1>6, <1>7
<1> QED
  BY <1>4, <1>8

LEMMA CreateIs ==
  ASSUME NEW l, IsLine(l), NEW k \in Nat \ {0}
  PROVE  LET name == NameEnd(l, k)  end == ArgumentsEnd(l, name)
         IN  end \in Nat /\ Create(l, k, name, end) \in CommandSet
<1>0. PICK name : name = NameEnd(l, k)
  OBVIOUS
<1>00. PICK end : end = ArgumentsEnd(l, name)
  OBVIOUS
<1>1. MaxLength \in Nat \ {0}
  BY CommandLineAssumption
<1>2. name \in 1 .. MaxLength + 1
  <2>1. {j \in Index : j >= k /\ Isspace(l[j])} \in SUBSET Index
    OBVIOUS
  <2> QED
    BY <1>0, <2>1, FirstIs DEF NameEnd
<1>3. end \in 1 .. MaxLength + 1 /\ (end = MaxLength + 1 \/ end > name)
  <2>1. {j \in Index : j > name /\ (l[j] = "|" \/ LineEnd(l, j))} \in SUBSET Index
    OBVIOUS
  <2>2. /\ end \in 1 .. MaxLength + 1
        /\ \/ end \in {j \in Index : j > name /\ (l[j] = "|" \/ LineEnd(l, j))}
           \/ end = MaxLength + 1
    BY <1>00, <2>1, FirstIs DEF ArgumentsEnd
  <2> QED
    BY <2>2
<1>4. Trimmed(l, name, end) \in Nat /\ Trimmed(l, name, end) <= MaxLength + 1
  <2>1. Trimmed(l, name, end) \in {end - 1, end}
    BY DEF Trimmed
  <2> QED
    BY <1>1, <1>3, <2>1
<1>5. CString(l, k, name) \in Seq(Character)
  BY <1>1, <1>2, CStringIs
<1>6. CString(l, name + 1, Trimmed(l, name, end)) \in Seq(Character)
  BY <1>1, <1>2, <1>4, CStringIs
<1>7. Create(l, k, name, end) \in CommandSet
  BY <1>5, <1>6 DEF Create, CommandSet
<1>8. end \in Nat
  BY <1>1, <1>3
<1> QED
  BY <1>0, <1>00, <1>7, <1>8
-------------------------------------------------------------------------------
(* What a descriptor may be when k pipes were made. *)
Ends(k)  == {Closed, Tty, <<0, "file">>} \cup ((1 .. k) \X {"read", "write"})
Tables(k) == [Fd -> Ends(k)]

LineType ==
  /\ file \in File /\ unread \in Seq(Character) /\ IsLine(line) /\ inc \in Nat \ {0}
  /\ commands \in Seq(CommandSet) /\ Len(commands) <= LengthOfExecutable
ControlType ==
  /\ pc \in {"fgets", "create", "pipe", "fork", "close", "wait"}
  /\ i \in 0 .. LengthOfExecutable - 1
  /\ outcome \in {"running", "ended", "stopped", "crashed"}
  /\ childStatus \in {"unset", "zero", "fail"}
  /\ sound \in BOOLEAN /\ skipped \in BOOLEAN
ShellType ==
  fd \in Tables(Len(pipes)) /\ fd1 \in Fd \X Fd /\ fd2 \in Fd \X Fd
CommandType ==
  /\ child \in {"none", "forked", "runs", "zombie"} /\ childFd \in Tables(Len(pipes))
  /\ reads \in BOOLEAN /\ writes \in 0 .. MaxWrites
  /\ status \in {"none", "ok", "fail", "signal"}
TypeInv ==
  LineType /\ ControlType /\ pipes \in Seq(0 .. Capacity) /\ ShellType /\ CommandType

\* The pairs of descriptors that fd1 and fd2 hold.
LEMMA PairsIs ==
  TypeInv => /\ fd1[1] \in Fd /\ fd1[2] \in Fd /\ fd2[1] \in Fd /\ fd2[2] \in Fd
             /\ Own[1] \in Fd /\ Own[2] \in Fd /\ Other[1] \in Fd /\ Other[2] \in Fd
<1> SUFFICES ASSUME TypeInv
             PROVE  /\ fd1[1] \in Fd /\ fd1[2] \in Fd /\ fd2[1] \in Fd /\ fd2[2] \in Fd
                    /\ Own[1] \in Fd /\ Own[2] \in Fd /\ Other[1] \in Fd /\ Other[2] \in Fd
  OBVIOUS
<1>1. fd1 \in Fd \X Fd /\ fd2 \in Fd \X Fd
  BY DEF TypeInv, ShellType
<1>2. \A x \in Fd \X Fd : x[1] \in Fd /\ x[2] \in Fd
  OBVIOUS
<1>3. fd1[1] \in Fd /\ fd1[2] \in Fd /\ fd2[1] \in Fd /\ fd2[2] \in Fd
  BY <1>1, <1>2
<1> QED
  BY <1>3 DEF Own, Other

LEMMA TypeIsTypeOK == TypeInv => TypeOK
<1> SUFFICES ASSUME TypeInv PROVE TypeOK
  OBVIOUS
<1>1. DOMAIN pipes = 1 .. Len(pipes) /\ \A p \in DOMAIN pipes : pipes[p] \in 0 .. Capacity
  <2>1. \A S : \A x \in Seq(S) : DOMAIN x = 1 .. Len(x) /\ \A p \in DOMAIN x : x[p] \in S
    OBVIOUS
  <2>2. pipes \in Seq(0 .. Capacity)
    BY DEF TypeInv
  <2> QED
    BY <2>1, <2>2
<1>2. \A table \in {fd, childFd} : \A n \in Fd :
        table[n] \in {Closed, Tty, <<0, "file">>} \cup ((DOMAIN pipes) \X {"read", "write"})
  BY <1>1 DEF TypeInv, ShellType, CommandType, Tables, Ends
<1>3. {fd1[1], fd1[2], fd2[1], fd2[2]} \subseteq Fd
  BY PairsIs
<1>4. Len(line) = MaxLength /\ inc \in Nat
  BY DEF TypeInv, LineType, IsLine
<1> QED
  BY <1>1, <1>2, <1>3, <1>4 DEF TypeInv, LineType, ControlType, ShellType, CommandType, TypeOK

LEMMA FdIs == NoFd \in Fd /\ 0 \in Fd /\ 1 \in Fd /\ 2 \in Fd /\ FdLimit \in Nat
  BY PipelineAssumption DEF Fd, NoFd

LEMMA TypeInit == Init => TypeInv
<1> SUFFICES ASSUME Init PROVE TypeInv
  OBVIOUS
<1>1. MaxLength \in Nat \ {0}
  BY CommandLineAssumption
<1>2. IsLine(line)
  <2>1. NUL \in Character
    BY DEF Character
  <2>2. line = [k \in 1 .. MaxLength |-> NUL]
    BY DEF Init, Index
  <2>3. line \in Seq(Character) /\ Len(line) = MaxLength
    BY <1>1, <2>1, <2>2
  <2> QED
    BY <2>3 DEF IsLine
<1>3. file \in File /\ unread \in Seq(Character)
  <2>1. file \in File /\ unread \in Seq(STRING)
    BY PipelineAssumption DEF Init
  <2>2. STRING \subseteq Character
    BY DEF Character
  <2> QED
    BY <2>1, <2>2, SeqGrows
<1>4. commands \in Seq(CommandSet) /\ Len(commands) <= LengthOfExecutable
  BY PipelineAssumption DEF Init
<1>5. i \in 0 .. LengthOfExecutable - 1
  BY PipelineAssumption DEF Init
<1>6. pipes \in Seq(0 .. Capacity) /\ Len(pipes) = 0
  BY DEF Init
<1>7. fd \in Tables(Len(pipes)) /\ childFd \in Tables(Len(pipes))
  <2>1. \A n \in Fd : (IF n <= 2 THEN Tty ELSE IF n = 3 THEN <<0, "file">> ELSE Closed) \in Ends(Len(pipes))
    BY DEF Ends
  <2> QED
    BY <2>1 DEF Init, Tables
<1>8. fd1 \in Fd \X Fd /\ fd2 \in Fd \X Fd
  BY FdIs DEF Init
<1>9. writes \in 0 .. MaxWrites
  BY PipelineAssumption DEF Init
<1>10. LineType
  BY <1>2, <1>3, <1>4 DEF Init, LineType
<1>11. ControlType
  BY <1>5 DEF Init, ControlType
<1>12. ShellType /\ CommandType
  BY <1>7, <1>8, <1>9 DEF Init, ShellType, CommandType
<1> QED
  BY <1>6, <1>10, <1>11, <1>12 DEF TypeInv

\* More pipes, more descriptors.
LEMMA TablesGrow ==
  ASSUME NEW k \in Nat, NEW t \in Tables(k)
  PROVE  t \in Tables(k + 1)
<1>1. Ends(k) \subseteq Ends(k + 1)
  BY DEF Ends
<1> QED
  BY <1>1 DEF Tables

\* The tables of a process that closes descriptors, and of the command that runs.
LEMMA ClosedIs ==
  ASSUME NEW k, NEW t \in Tables(k), NEW m \in Fd, NEW n \in Fd
  PROVE  /\ Close(t, m, n) \in Tables(k)
         /\ \A x \in Fd : Close(t, m, n)[x] = IF x \in {m, n} THEN Closed ELSE t[x]
         /\ [t EXCEPT ![m] = Closed] \in Tables(k)
  BY DEF Close, Tables, Ends

LEMMA CloseAt ==
  ASSUME NEW k, NEW m \in Fd, NEW n \in Fd
  PROVE  \A t \in Tables(k) : \A x \in Fd :
           Close(t, m, n)[x] = IF x \in {m, n} THEN Closed ELSE t[x]
<1> SUFFICES ASSUME NEW t \in Tables(k), NEW x \in Fd
             PROVE  Close(t, m, n)[x] = IF x \in {m, n} THEN Closed ELSE t[x]
  OBVIOUS
<1>1. PICK S : t \in [Fd -> S]
  BY DEF Tables
<1> QED
  BY <1>1 DEF Close

LEMMA CloseLastIs ==
  ASSUME TypeInv, NEW k, NEW t \in Tables(k)
  PROVE  CloseLast(t) \in Tables(k)
<1>1. PICK m, n \in Fd : m = fd1[2] /\ n = fd2[2]
  BY PairsIs
<1>2. Close(t, m, n) \in Tables(k)
  BY ClosedIs
<1> QED
  BY <1>1, <1>2 DEF CloseLast

LEMMA Dup2Is ==
  ASSUME NEW k, NEW t \in Tables(k), NEW m \in Fd, NEW n \in Fd
  PROVE  /\ Dup2(t, m, n) \in Tables(k)
         /\ \A x \in Fd : Dup2(t, m, n)[x] =
              IF x = n /\ t[m] # Closed THEN t[m] ELSE t[x]
  BY DEF Dup2, Tables

LEMMA WiredIs == ASSUME TypeInv PROVE Wired \in Tables(Len(pipes))
<1>0. PICK k : k = Len(pipes)
  OBVIOUS
<1>1. /\ Own[1] \in Fd /\ Own[2] \in Fd /\ Other[1] \in Fd /\ Other[2] \in Fd
  BY PairsIs
<1>2. CloseLast(childFd) \in Tables(k)
  <2>1. childFd \in Tables(k)
    BY <1>0 DEF TypeInv, CommandType
  <2> QED
    BY <2>1, CloseLastIs
<1>3. [Dup2(CloseLast(childFd), Other[1], 0) EXCEPT ![Other[2]] = Closed] \in Tables(k)
  <2>1. Dup2(CloseLast(childFd), Other[1], 0) \in Tables(k)
    BY <1>1, <1>2, Dup2Is, FdIs
  <2> QED
    BY <1>1, <2>1, ClosedIs
<1> DEFINE in == IF i = 0 THEN CloseLast(childFd)
                 ELSE [Dup2(CloseLast(childFd), Other[1], 0) EXCEPT ![Other[2]] = Closed]
<1>4. in \in Tables(k)
  BY <1>2, <1>3
<1>5. Wired = [Dup2(in, Own[2], 1) EXCEPT ![Own[1]] = Closed]
  BY DEF Wired
<1> HIDE DEF in
<1>6. Dup2(in, Own[2], 1) \in Tables(k)
  BY <1>1, <1>4, Dup2Is, FdIs
<1> QED
  BY <1>0, <1>1, <1>5, <1>6, ClosedIs
-------------------------------------------------------------------------------
(* The numbers that pipe takes, and how much the pipes hold. *)
LEMMA FreeIs ==
  ASSUME Cardinality(Free) >= 2
  PROVE  /\ Min(Free) \in Free /\ Min(Free \ {Min(Free)}) \in Free
         /\ Min(Free \ {Min(Free)}) # Min(Free)
<1>1. FdLimit \in Nat
  BY FdIs
<1>2. Free \subseteq 0 .. FdLimit
  BY DEF Free, Fd
<1>3. IsFiniteSet(Free)
  <2>1. IsFiniteSet(0 .. FdLimit)
    BY <1>1, FS_Interval
  <2> QED
    BY <1>2, <2>1, FS_Subset
<1>4. Free \in SUBSET Nat
  BY <1>1, <1>2
<1>5. Free # {}
  <2>1. Cardinality({}) = 0
    BY FS_EmptySet
  <2> QED
    BY <2>1
<1>6. PICK r : r = Min(Free)
  OBVIOUS
<1>7. r \in Free
  BY <1>4, <1>5, <1>6, MinIs
<1>8. Free \ {r} \in SUBSET Nat /\ Free \ {r} # {}
  <2>1. Cardinality(Free \ {r}) = Cardinality(Free) - 1
    BY <1>3, <1>7, FS_RemoveElement
  <2>2. Cardinality({}) = 0
    BY FS_EmptySet
  <2>3. Cardinality(Free) \in Nat
    BY <1>3, FS_CardinalityType
  <2>4. Cardinality(Free \ {r}) # 0
    BY <2>1, <2>3
  <2>5. Free \ {r} # {}
    BY <2>2, <2>4
  <2> QED
    BY <1>4, <2>5
<1>9. Min(Free \ {r}) \in Free \ {r}
  BY <1>8, MinIs
<1> QED
  BY <1>6, <1>7, <1>9

LEMMA PipesIs ==
  ASSUME TypeInv
  PROVE  /\ Len(pipes) \in Nat /\ DOMAIN pipes = 1 .. Len(pipes)
         /\ pipes \in [1 .. Len(pipes) -> 0 .. Capacity]
         /\ Append(Kept, 0) \in Seq(0 .. Capacity)
         /\ Len(Append(Kept, 0)) = Len(pipes) + 1
<1>0. PICK S : S = 0 .. Capacity
  OBVIOUS
<1>1. pipes \in Seq(S)
  BY <1>0 DEF TypeInv
<1>2. 0 \in S
  BY <1>0, PipelineAssumption
<1>3. Len(pipes) \in Nat /\ pipes \in [1 .. Len(pipes) -> S] /\ DOMAIN pipes = 1 .. Len(pipes)
  BY <1>1
<1>4. Kept \in [1 .. Len(pipes) -> S]
  BY <1>2, <1>3 DEF Kept
<1>5. Kept \in Seq(S) /\ Len(Kept) = Len(pipes)
  BY <1>3, <1>4
<1>6. Append(Kept, 0) \in Seq(S) /\ Len(Append(Kept, 0)) = Len(pipes) + 1
  BY <1>2, <1>5
<1> QED
  BY <1>0, <1>3, <1>6

LEMMA LineKept ==
  ASSUME LineType, UNCHANGED input PROVE LineType'
  BY DEF input, LineType

LEMMA CommandKept ==
  ASSUME CommandType, UNCHANGED <<command, pipes>> PROVE CommandType'
  BY DEF command, CommandType

LEMMA ShellKept ==
  ASSUME ShellType, UNCHANGED <<shell, pipes>> PROVE ShellType'
  BY DEF shell, ShellType

LEMMA ReadLineType ==
  ASSUME TypeInv, ReadLine PROVE TypeInv'
<1>0. PICK n : n = FgetsLength(unread)
  OBVIOUS
<1>1. /\ unread \in Seq(Character) /\ IsLine(line)
  BY DEF TypeInv, LineType
<1>2. n \in Nat /\ n <= Len(unread) /\ Len(unread) \in Nat
  BY <1>0, <1>1, FgetsLengthIs
<1>3. SubSeq(unread, n + 1, Len(unread)) \in Seq(Character)
  BY <1>1, <1>2
<1>4. LineType'
  <2>1. IsLine(Fgets(line, unread))
    BY <1>1, FgetsIs
  <2>2. IsLine(line)'
    BY <2>1 DEF ReadLine, IsLine
  <2>3. commands' \in Seq(CommandSet) /\ Len(commands') <= LengthOfExecutable
    BY PipelineAssumption DEF ReadLine
  <2>4. file' \in File /\ inc' \in Nat \ {0} /\ unread' \in Seq(Character)
    BY <1>0, <1>3 DEF ReadLine, TypeInv, LineType
  <2> QED
    BY <2>2, <2>3, <2>4 DEF LineType
<1>5. ControlType'
  BY DEF ReadLine, TypeInv, ControlType, history
<1>6. ShellType' /\ CommandType' /\ pipes' \in Seq(0 .. Capacity)
  BY ShellKept, CommandKept DEF ReadLine, TypeInv
<1> QED
  BY <1>4, <1>5, <1>6 DEF TypeInv

LEMMA CreateType ==
  ASSUME TypeInv, CreateCommand PROVE TypeInv'
<1>1. IsLine(line) /\ inc \in Nat \ {0} /\ commands \in Seq(CommandSet)
  BY DEF TypeInv, LineType
<1>2. PICK name, end :
        /\ name = NameEnd(line, inc) /\ end = ArgumentsEnd(line, name)
        /\ commands' = Append(commands, Create(line, inc, name, end))
        /\ inc' = end + 2
        /\ \/ UNCHANGED <<pc, fd2>>
           \/ pc' = "pipe" /\ fd2' \in {<<NoFd, NoFd>>, <<0, 0>>, fd2}
  BY DEF CreateCommand
<1>3. end \in Nat /\ Create(line, inc, name, end) \in CommandSet
  BY <1>1, <1>2, CreateIs
<1>4. LineType'
  <2>1. /\ commands' \in Seq(CommandSet) /\ Len(commands') = Len(commands) + 1
        /\ Len(commands) \in Nat
    BY <1>1, <1>2, <1>3
  <2>2. Len(commands') <= LengthOfExecutable
    BY <2>1, PipelineAssumption DEF CreateCommand
  <2>3. inc' \in Nat \ {0}
    BY <1>2, <1>3
  <2>4. UNCHANGED <<file, unread, line>>
    BY DEF CreateCommand
  <2> QED
    BY <2>1, <2>2, <2>3, <2>4 DEF TypeInv, LineType, IsLine
<1>5. ControlType'
  <2>1. i' \in 0 .. LengthOfExecutable - 1
    BY PipelineAssumption DEF CreateCommand
  <2>2. pc' \in {"fgets", "create", "pipe", "fork", "close", "wait"}
    BY <1>2 DEF TypeInv, ControlType
  <2> QED
    BY <2>1, <2>2 DEF CreateCommand, TypeInv, ControlType, history
<1>6. ShellType'
  <2>1. fd2' \in {<<NoFd, NoFd>>, <<0, 0>>, fd2}
    BY <1>2
  <2>2. fd2' \in Fd \X Fd
    BY <2>1, FdIs DEF TypeInv, ShellType
  <2> QED
    BY <2>2 DEF CreateCommand, TypeInv, ShellType
<1>7. CommandType' /\ pipes' \in Seq(0 .. Capacity)
  BY CommandKept DEF CreateCommand, TypeInv
<1> QED
  BY <1>4, <1>5, <1>6, <1>7 DEF TypeInv

LEMMA PipeType ==
  ASSUME TypeInv, MakePipe \/ PipeFails PROVE TypeInv'
<1>0. PICK k : k = Len(pipes)
  OBVIOUS
<1>1. k \in Nat /\ pipes' \in Seq(0 .. Capacity) /\ Len(pipes') = k + 1
  BY <1>0, PipesIs DEF MakePipe, PipeFails
<1>2. LineType'
  BY LineKept DEF MakePipe, PipeFails, TypeInv
<1>3. ControlType'
  BY DEF MakePipe, PipeFails, TypeInv, ControlType, history
<1>4. CommandType'
  <2>1. childFd \in Tables(k)
    BY <1>0 DEF TypeInv, CommandType
  <2>2. childFd \in Tables(k + 1)
    BY <1>1, <2>1, TablesGrow
  <2> QED
    BY <1>1, <2>2 DEF MakePipe, PipeFails, TypeInv, CommandType, command
<1>5. fd \in Tables(k) /\ fd \in Tables(k + 1)
  BY <1>0, <1>1, TablesGrow DEF TypeInv, ShellType
<1>6. CASE PipeFails
  BY <1>1, <1>2, <1>3, <1>4, <1>5, <1>6 DEF PipeFails, TypeInv, ShellType, shell
<1>7. CASE MakePipe
  <2>1. PICK r, w \in Free :
          /\ fd' = [fd EXCEPT ![r] = <<k + 1, "read">>, ![w] = <<k + 1, "write">>]
          /\ fd1' = IF Even THEN <<r, w>> ELSE fd1
          /\ fd2' = IF Even THEN fd2 ELSE <<r, w>>
    BY <1>0, <1>7, FreeIs DEF MakePipe
  <2>2. r \in Fd /\ w \in Fd
    BY DEF Free
  <2>3. <<k + 1, "read">> \in Ends(k + 1) /\ <<k + 1, "write">> \in Ends(k + 1)
    BY <1>1 DEF Ends
  <2>4. fd' \in Tables(k + 1)
    BY <1>5, <2>1, <2>2, <2>3 DEF Tables
  <2>5. fd1' \in Fd \X Fd /\ fd2' \in Fd \X Fd
    BY <2>1, <2>2 DEF TypeInv, ShellType
  <2> QED
    BY <1>1, <1>2, <1>3, <1>4, <2>4, <2>5 DEF TypeInv, ShellType
<1> QED
  BY <1>6, <1>7

LEMMA CloseType ==
  ASSUME TypeInv, CloseOther PROVE TypeInv'
<1>0. PICK k : k = Len(pipes)
  OBVIOUS
<1>1. LineType' /\ CommandType' /\ pipes' \in Seq(0 .. Capacity)
  BY LineKept, CommandKept DEF CloseOther, TypeInv
<1>2. ShellType'
  <2>1. PICK m, n \in Fd : m = Other[1] /\ n = Other[2]
    BY PairsIs
  <2>2. fd \in Tables(k)
    BY <1>0 DEF TypeInv, ShellType
  <2>3. CloseLast(fd) \in Tables(k)
    BY <2>2, CloseLastIs
  <2>4. Close(CloseLast(fd), m, n) \in Tables(k)
    BY <2>3, ClosedIs
  <2>5. fd' \in Tables(k)
    BY <2>1, <2>4 DEF CloseOther
  <2> QED
    BY <1>0, <2>5 DEF CloseOther, TypeInv, ShellType
<1>3. ControlType'
  <2>1. sound' \in BOOLEAN
    <3>1. sound \in BOOLEAN
      BY DEF TypeInv, ControlType
    <3> QED
      BY <3>1 DEF CloseOther
  <2> QED
    BY <2>1 DEF CloseOther, TypeInv, ControlType
<1> QED
  BY <1>1, <1>2, <1>3 DEF TypeInv

LEMMA WaitType ==
  ASSUME TypeInv, Waitpid PROVE TypeInv'
<1>1. LineType' /\ ShellType' /\ pipes' \in Seq(0 .. Capacity)
  BY LineKept, ShellKept DEF Waitpid, TypeInv
<1>2. CommandType'
  BY DEF Waitpid, TypeInv, CommandType
<1>3. ControlType'
  <2>1. i' \in 0 .. LengthOfExecutable - 1 /\ pc' \in {"fgets", "pipe"}
    BY PipelineAssumption DEF Waitpid, IsLast, TypeInv, ControlType
  <2>2. childStatus' \in {"unset", "zero", "fail"}
    BY DEF Waitpid, TypeInv, ControlType
  <2>3. outcome' \in {"running", "stopped"}
    BY <2>2 DEF Waitpid
  <2> QED
    BY <2>1, <2>2, <2>3 DEF Waitpid, TypeInv, ControlType, history
<1> QED
  BY <1>1, <1>2, <1>3 DEF TypeInv

\* The other steps of the shell only change its control, or fork the command.
LEMMA ShellStepType ==
  ASSUME TypeInv, ShellStep PROVE TypeInv'
<1>1. CASE EndOfFile \/ CreateOverflow \/ MissingCommand \/ ForkFails
  <2>1. LineType' /\ ShellType' /\ CommandType' /\ pipes' \in Seq(0 .. Capacity)
    BY <1>1, LineKept, ShellKept, CommandKept
       DEF EndOfFile, CreateOverflow, MissingCommand, ForkFails, TypeInv
  <2>2. ControlType'
    BY <1>1 DEF EndOfFile, CreateOverflow, MissingCommand, ForkFails, TypeInv, ControlType, history
  <2> QED
    BY <2>1, <2>2 DEF TypeInv
<1>2. CASE Fork
  <2>1. LineType' /\ ShellType' /\ pipes' \in Seq(0 .. Capacity)
    BY <1>2, LineKept, ShellKept DEF Fork, TypeInv
  <2>2. ControlType'
    BY <1>2 DEF Fork, TypeInv, ControlType
  <2>3. CommandType'
    BY <1>2 DEF Fork, TypeInv, CommandType, ShellType
  <2> QED
    BY <2>1, <2>2, <2>3 DEF TypeInv
<1> QED
  BY <1>1, <1>2, ReadLineType, CreateType, PipeType, CloseType, WaitType DEF ShellStep

LEMMA EndType ==
  ASSUME TypeInv, NEW how \in {"ok", "fail", "signal"}, End(how), UNCHANGED pipes
  PROVE  CommandType'
<1>1. NoneOpen \in Tables(Len(pipes))
  BY DEF NoneOpen, Tables, Ends
<1>2. 0 \in 0 .. MaxWrites
  BY PipelineAssumption
<1> QED
  BY <1>1, <1>2 DEF End, CommandType

LEMMA CommandStepType ==
  ASSUME TypeInv, CommandStep PROVE TypeInv'
<1>1. LineType' /\ ControlType'
  BY LineKept DEF CommandStep, Exec, Read, Write, Finish, TypeInv, ControlType, control, history
<1>2. UNCHANGED shell
  BY DEF CommandStep, Exec, Read, Write, Finish
<1>3. PICK k : k = Len(pipes) /\ k \in Nat /\ pipes \in [1 .. k -> 0 .. Capacity]
  BY PipesIs
<1>4. ASSUME NEW n \in Fd, NEW e, childFd[n][2] = e, e \in {"read", "write"}
      PROVE  childFd[n][1] \in 1 .. k
  <2>1. childFd[n] \in Ends(k)
    BY <1>3 DEF TypeInv, CommandType, Tables
  <2>2. childFd[n] \in (1 .. k) \X {"read", "write"}
    BY <1>4, <2>1 DEF Ends, Closed, Tty
  <2> QED
    BY <2>2
<1>5. CASE UNCHANGED pipes /\ CommandType'
  BY <1>1, <1>2, <1>5, ShellKept DEF TypeInv
<1>6. CASE Exec
  <2>1. UNCHANGED pipes
    BY <1>6 DEF Exec
  <2>2. CASE End("fail")
    BY <1>5, <2>1, <2>2, EndType
  <2>3. CASE /\ childFd' = Wired /\ child' = "runs"
             /\ reads' \in BOOLEAN /\ writes' \in 0 .. MaxWrites
             /\ UNCHANGED status
    <3>1. CommandType'
      BY <2>1, <2>3, WiredIs DEF TypeInv, CommandType
    <3> QED
      BY <1>5, <2>1, <3>1
  <2> QED
    BY <1>6, <2>2, <2>3 DEF Exec
<1>7. ASSUME NEW x \in 1 .. k, NEW v \in 0 .. Capacity, pipes' = [pipes EXCEPT ![x] = v],
             UNCHANGED <<child, childFd, status>>, reads' \in BOOLEAN, writes' \in 0 .. MaxWrites
      PROVE  TypeInv'
  <2>1. pipes' \in [1 .. k -> 0 .. Capacity]
    BY <1>3, <1>7
  <2>2. pipes' \in Seq(0 .. Capacity) /\ Len(pipes') = k
    <3>1. k \in Nat
      BY <1>3
    <3>2. \A S : \A f \in [1 .. k -> S] : f \in Seq(S) /\ Len(f) = k
      BY <3>1
    <3> QED
      BY <2>1, <3>2
  <2>3. ShellType' /\ CommandType'
    BY <1>2, <1>3, <1>7, <2>2 DEF TypeInv, ShellType, CommandType, shell
  <2> QED
    BY <1>1, <2>2, <2>3 DEF TypeInv
<1>8. CASE Read
  <2>1. UNCHANGED <<child, childFd, writes, status>>
    BY <1>8 DEF Read
  <2>2. CASE Stdin[2] = "read" /\ pipes[Stdin[1]] > 0
    <3>1. Stdin[1] \in 1 .. k
      BY <1>4, <2>2, FdIs DEF Stdin
    <3>2. pipes[Stdin[1]] - 1 \in 0 .. Capacity
      BY <1>3, <2>2, <3>1, PipelineAssumption
    <3>3. pipes' = [pipes EXCEPT ![Stdin[1]] = pipes[Stdin[1]] - 1] /\ UNCHANGED reads
      BY <1>8, <2>2 DEF Read
    <3> QED
      BY <1>7, <2>1, <3>1, <3>2, <3>3 DEF TypeInv, CommandType
  <2>3. CASE ~ (Stdin[2] = "read" /\ pipes[Stdin[1]] > 0)
    <3>1. reads' = FALSE /\ UNCHANGED pipes
      BY <1>8, <2>3 DEF Read
    <3>2. CommandType'
      BY <2>1, <3>1 DEF TypeInv, CommandType
    <3> QED
      BY <1>5, <3>1, <3>2
  <2> QED
    BY <2>2, <2>3
<1>9. CASE Write
  <2>1. CASE Stdout[2] # "write"
    <3>1. writes' = 0 /\ UNCHANGED <<pipes, child, childFd, reads, status>>
      BY <1>9, <2>1 DEF Write
    <3>2. CommandType'
      BY <3>1, PipelineAssumption DEF TypeInv, CommandType
    <3> QED
      BY <1>5, <3>1, <3>2
  <2>2. CASE Stdout[2] = "write" /\ ~ Open(Stdout[1], "read")
    <3>1. End("signal") /\ UNCHANGED pipes
      BY <1>9, <2>2 DEF Write
    <3> QED
      BY <1>5, <3>1, EndType
  <2>3. CASE Stdout[2] = "write" /\ Open(Stdout[1], "read")
    <3>1. Stdout[1] \in 1 .. k
      BY <1>4, <2>3, FdIs DEF Stdout
    <3>2. /\ pipes[Stdout[1]] < Capacity
          /\ pipes' = [pipes EXCEPT ![Stdout[1]] = pipes[Stdout[1]] + 1]
          /\ writes' = writes - 1 /\ UNCHANGED <<child, childFd, reads, status>>
      BY <1>9, <2>3 DEF Write
    <3>3. pipes[Stdout[1]] + 1 \in 0 .. Capacity
      BY <1>3, <3>1, <3>2, PipelineAssumption
    <3>4. writes' \in 0 .. MaxWrites
      BY <1>9, <3>2, PipelineAssumption DEF Write, Writing, TypeInv, CommandType
    <3> QED
      BY <1>7, <3>1, <3>2, <3>3, <3>4 DEF TypeInv, CommandType
  <2> QED
    BY <2>1, <2>2, <2>3
<1>10. CASE Finish
  BY <1>5, <1>10, EndType DEF Finish
<1> QED
  BY <1>6, <1>8, <1>9, <1>10 DEF CommandStep

LEMMA TypeStep == TypeInv /\ [Next]_vars => TypeInv'
<1>1. TypeInv /\ Next => TypeInv'
  BY ShellStepType, CommandStepType DEF Next
<1>2. TypeInv /\ UNCHANGED vars => TypeInv'
  <2> SUFFICES ASSUME TypeInv, UNCHANGED vars PROVE TypeInv'
    OBVIOUS
  <2>1. LineType' /\ ShellType' /\ CommandType' /\ pipes' \in Seq(0 .. Capacity)
    BY LineKept, ShellKept, CommandKept DEF vars, TypeInv
  <2>2. ControlType'
    BY DEF vars, control, history, TypeInv, ControlType
  <2> QED
    BY <2>1, <2>2 DEF TypeInv
<1> QED
  BY <1>1, <1>2

\* TypeOK: whatever the file and the commands are, i, the descriptors and the
\* pipes stay in their range; no command is stored behind arrayOfExecutable.
THEOREM TypeCorrect == Spec => []TypeOK
<1>1. Spec => []TypeInv
  BY TypeInit, TypeStep, PTL DEF Spec
<1> QED
  BY <1>1, TypeIsTypeOK, PTL
-------------------------------------------------------------------------------
(* Where the descriptors lead.  From pipe to fork the shell holds both ends of *)
(* the pipe of this command and of the one before; the command that is forked  *)
(* takes them over; afterwards the shell holds what the next command reads.    *)
Made         == Len(pipes)
Holds(t, x, k) == t[x[1]] = <<k, "read">> /\ t[x[2]] = <<k, "write">>
StdTty(t)    == \A m \in 0 .. 2 : t[m] = Tty
TwoPairs(t)  == /\ StdTty(t) /\ Holds(t, Own, Made)
                /\ i > 0 => Holds(t, Other, Made - 1)

OneAtATime == child # "none" => pc \in {"close", "wait"}
ShellWired ==
  /\ StdTty(fd)
  /\ pc = "pipe" /\ i > 0 => Holds(fd, Other, Made)
  /\ pc \in {"fork", "close"} => TwoPairs(fd)
  /\ pc = "wait" => /\ fd[Own[1]] = <<Made, "read">>
                    /\ ~ IsLast => fd[Own[2]] = <<Made, "write">>
CommandWired ==
  /\ child = "forked" => TwoPairs(childFd)
  /\ child = "runs" => /\ Stdin = IF i = 0 THEN Tty ELSE <<Made - 1, "read">>
                       /\ Stdout = IF IsLast THEN Tty ELSE <<Made, "write">>
WireInv == OneAtATime /\ (sound => ShellWired /\ CommandWired)

LEMMA ThreeAreTty == 0 \in 0 .. 2 /\ 1 \in 0 .. 2 /\ \A m \in 0 .. 2 : m \in Fd
  BY PipelineAssumption DEF Fd

LEMMA WireInit == Init => WireInv
<1> SUFFICES ASSUME Init PROVE WireInv
  OBVIOUS
<1>1. StdTty(fd)
  BY ThreeAreTty DEF Init, StdTty
<1> QED
  BY <1>1 DEF Init, WireInv, OneAtATime, ShellWired, CommandWired

LEMMA CloseLastAt ==
  ASSUME TypeInv, NEW k, NEW t \in Tables(k), NEW x \in Fd
  PROVE  CloseLast(t)[x] = IF IsLast /\ x \in {Own[2], Other[2]} THEN Closed ELSE t[x]
<1>1. PICK m, n \in Fd : m = fd1[2] /\ n = fd2[2]
  BY PairsIs
<1>2. Close(t, m, n)[x] = IF x \in {m, n} THEN Closed ELSE t[x]
  <2>1. \A y \in Fd : Close(t, m, n)[y] = IF y \in {m, n} THEN Closed ELSE t[y]
    BY ClosedIs
  <2> QED
    BY <2>1
<1>3. {m, n} = {Own[2], Other[2]}
  BY <1>1 DEF Own, Other
<1> QED
  BY <1>1, <1>2, <1>3 DEF CloseLast

\* The four descriptors of two pairs are different, and none is a standard one.
LEMMA Different ==
  ASSUME TypeInv, NEW t, TwoPairs(t), NEW a, NEW b, NEW c, NEW d,
         a = Own[1], b = Own[2], c = Other[1], d = Other[2]
  PROVE  /\ t[a] = <<Made, "read">> /\ t[b] = <<Made, "write">>
         /\ a # b /\ a \notin 0 .. 2 /\ b \notin 0 .. 2
         /\ i > 0 => /\ t[c] = <<Made - 1, "read">> /\ t[d] = <<Made - 1, "write">>
                     /\ {c, d} \cap {a, b} = {} /\ c # d
                     /\ c \notin 0 .. 2 /\ d \notin 0 .. 2
<1>1. Made \in Nat
  BY PipesIs DEF Made
<1>2. /\ t[a] = <<Made, "read">> /\ t[b] = <<Made, "write">>
      /\ i > 0 => t[c] = <<Made - 1, "read">> /\ t[d] = <<Made - 1, "write">>
  BY DEF TwoPairs, Holds
<1>3. \A m \in 0 .. 2 : t[m] = <<0, "tty">>
  BY DEF TwoPairs, StdTty, Tty
<1>4. \A x, y, n : <<x, "read">> # <<y, "write">> /\ <<x, "read">> # <<0, "tty">>
                   /\ <<x, "write">> # <<0, "tty">>
  OBVIOUS
<1>5. \A e : <<Made, e>> # <<Made - 1, e>>
  BY <1>1
<1>6. a # b /\ a \notin 0 .. 2 /\ b \notin 0 .. 2
  BY <1>2, <1>3, <1>4
<1>7. ASSUME i > 0
      PROVE  {c, d} \cap {a, b} = {} /\ c # d /\ c \notin 0 .. 2 /\ d \notin 0 .. 2
  BY <1>2, <1>3, <1>4, <1>5, <1>7
<1> QED
  BY <1>2, <1>6, <1>7

\* What the command reads and writes once it has called dup2 and close.
LEMMA WiredEnds ==
  ASSUME TypeInv, TwoPairs(childFd), i > 0 \/ ~ IsLast
  PROVE  /\ Wired[0] = IF i = 0 THEN Tty ELSE <<Made - 1, "read">>
         /\ Wired[1] = IF IsLast THEN Tty ELSE <<Made, "write">>
<1>0. PICK k : k = Len(pipes)
  OBVIOUS
<1>00. PICK a, b, c, d \in Fd : a = Own[1] /\ b = Own[2] /\ c = Other[1] /\ d = Other[2]
  BY PairsIs
<1>1. /\ childFd[a] = <<Made, "read">> /\ childFd[b] = <<Made, "write">>
      /\ a # b /\ a \notin 0 .. 2 /\ b \notin 0 .. 2
      /\ i > 0 => /\ childFd[c] = <<Made - 1, "read">> /\ childFd[d] = <<Made - 1, "write">>
                  /\ {c, d} \cap {a, b} = {} /\ c # d
                  /\ c \notin 0 .. 2 /\ d \notin 0 .. 2
  BY <1>00, Different
<1>2. childFd[0] = Tty /\ childFd[1] = Tty
  BY ThreeAreTty DEF TwoPairs, StdTty
<1>3. i \in Nat
  BY DEF TypeInv, ControlType
<1>4. childFd \in Tables(k)
  BY <1>0 DEF TypeInv, CommandType
<1>5. /\ CloseLast(childFd) \in Tables(k)
      /\ \A x \in Fd : CloseLast(childFd)[x] =
           IF IsLast /\ x \in {b, d} THEN Closed ELSE childFd[x]
  BY <1>00, <1>4, CloseLastIs, CloseLastAt
<1>6. <<Made - 1, "read">> # Closed /\ <<Made, "write">> # Closed
  BY DEF Closed
<1> DEFINE in == IF i = 0 THEN CloseLast(childFd)
                 ELSE [Dup2(CloseLast(childFd), Other[1], 0) EXCEPT ![Other[2]] = Closed]
<1>7. /\ in \in Tables(k)
      /\ in[0] = IF i = 0 THEN Tty ELSE <<Made - 1, "read">>
      /\ in[1] = Tty
      /\ in[b] = IF IsLast THEN Closed ELSE <<Made, "write">>
  <2>1. CASE i = 0
    BY <1>1, <1>2, <1>5, <2>1, FdIs
  <2>2. CASE i # 0
    <3>0. i > 0
      BY <1>3, <2>2
    <3>1. in = [Dup2(CloseLast(childFd), c, 0) EXCEPT ![d] = Closed]
      BY <1>00, <2>2
    <3> HIDE DEF in
    <3>2. /\ Dup2(CloseLast(childFd), c, 0) \in Tables(k)
          /\ \A x \in Fd : Dup2(CloseLast(childFd), c, 0)[x] =
               IF x = 0 /\ CloseLast(childFd)[c] # Closed THEN CloseLast(childFd)[c]
               ELSE CloseLast(childFd)[x]
      BY <1>5, Dup2Is, FdIs
    <3>3. CloseLast(childFd)[c] = <<Made - 1, "read">>
      BY <1>1, <1>5, <3>0
    <3>4. /\ in \in Tables(k)
          /\ \A x \in Fd : in[x] = IF x = d THEN Closed
                                   ELSE Dup2(CloseLast(childFd), c, 0)[x]
      BY <3>1, <3>2 DEF Tables, Ends
    <3>5. 0 # d /\ 1 # d /\ b # d /\ b # 0 /\ b # 1
      BY <1>1, <3>0, ThreeAreTty
    <3>6. in[0] = <<Made - 1, "read">>
      BY <1>6, <3>2, <3>3, <3>4, <3>5, FdIs
    <3>7. in[1] = Tty
      <4>1. CloseLast(childFd)[1] = Tty
        BY <1>2, <1>5, <3>5, FdIs
      <4> QED
        BY <3>2, <3>4, <3>5, <4>1, FdIs
    <3>8. in[b] = IF IsLast THEN Closed ELSE <<Made, "write">>
      BY <1>1, <1>5, <3>2, <3>4, <3>5
    <3> QED
      BY <2>2, <3>4, <3>6, <3>7, <3>8
  <2> QED
    BY <2>1, <2>2
<1>8. Wired = [Dup2(in, b, 1) EXCEPT ![a] = Closed]
  BY <1>00 DEF Wired
<1> HIDE DEF in
<1>9. /\ Dup2(in, b, 1) \in Tables(k)
      /\ \A x \in Fd : Dup2(in, b, 1)[x] = IF x = 1 /\ in[b] # Closed THEN in[b] ELSE in[x]
  <2>1. in \in Tables(k) /\ 1 \in Fd
    BY <1>7, FdIs
  <2> QED
    BY ONLY b \in Fd, <2>1, Dup2Is
<1>10. \A x \in Fd : Wired[x] = IF x = a THEN Closed ELSE Dup2(in, b, 1)[x]
  BY <1>8, <1>9 DEF Tables
<1>11. 0 # a /\ 1 # a
  BY <1>1, ThreeAreTty
<1>12. Wired[0] = in[0]
  BY <1>9, <1>10, <1>11, FdIs
<1>13. Wired[1] = IF in[b] # Closed THEN in[b] ELSE in[1]
  BY <1>9, <1>10, <1>11, FdIs
<1> QED
  BY <1>6, <1>7, <1>12, <1>13

\* A pipe is made: the command that is next gets it, next to the one before.
LEMMA WirePipe ==
  ASSUME TypeInv, WireInv, MakePipe PROVE WireInv'
<1>0. PICK k : k = Len(pipes)
  OBVIOUS
<1>00. PICK a, b \in Fd : a = Other[1] /\ b = Other[2]
  BY PairsIs
<1>1. k \in Nat /\ Len(pipes') = k + 1
  BY <1>0, PipesIs DEF MakePipe
<1>2. PICK r, w \in Free :
        /\ r # w
        /\ fd' = [fd EXCEPT ![r] = <<k + 1, "read">>, ![w] = <<k + 1, "write">>]
        /\ fd1' = IF Even THEN <<r, w>> ELSE fd1
        /\ fd2' = IF Even THEN fd2 ELSE <<r, w>>
  BY <1>0, FreeIs DEF MakePipe
<1>3. /\ pc = "pipe" /\ pc' = "fork" /\ UNCHANGED <<i, child, childFd>>
      /\ UNCHANGED sound
  BY DEF MakePipe, At, command, history
<1>4. child = "none"
  BY <1>3 DEF WireInv, OneAtATime
<1>5. OneAtATime' /\ CommandWired'
  BY <1>3, <1>4 DEF OneAtATime, CommandWired
<1>6. ASSUME sound PROVE ShellWired'
  <2>1. StdTty(fd) /\ (i > 0 => fd[a] = <<k, "read">> /\ fd[b] = <<k, "write">>)
    BY <1>0, <1>00, <1>3, <1>6 DEF WireInv, ShellWired, Holds, Made
  <2>2. fd[r] = Closed /\ fd[w] = Closed /\ r \in Fd /\ w \in Fd
    BY DEF Free
  <2>3. \A x \in Fd : fd'[x] = IF x = w THEN <<k + 1, "write">>
                               ELSE IF x = r THEN <<k + 1, "read">> ELSE fd[x]
    BY <1>0, <1>2, <2>2 DEF TypeInv, ShellType, Tables
  <2>4. \A m \in 0 .. 2 : fd'[m] = Tty
    <3>1. \A m \in 0 .. 2 : m # r /\ m # w
      BY <2>1, <2>2 DEF StdTty, Closed, Tty
    <3> QED
      BY <2>1, <2>3, <3>1, ThreeAreTty DEF StdTty
  <2>5. i > 0 => fd'[a] = <<k, "read">> /\ fd'[b] = <<k, "write">>
    BY <2>1, <2>2, <2>3 DEF Closed
  <2>6. Even' = Even
    BY <1>3 DEF Even
  <2>7. Own' = <<r, w>> /\ Other' = Other
    BY <1>2, <2>6 DEF Own, Other
  <2>8. TwoPairs(fd)'
    <3>1. Made' = k + 1 /\ Made' - 1 = k
      BY <1>1 DEF Made
    <3>2. Holds(fd, Own, Made)'
      BY <1>2, <2>2, <2>3, <2>7, <3>1 DEF Holds
    <3>3. i > 0 => Holds(fd, Other, Made - 1)'
      BY <1>00, <2>5, <2>7, <3>1 DEF Holds
    <3> QED
      BY <1>3, <2>4, <3>2, <3>3 DEF TwoPairs, StdTty
  <2> QED
    BY <1>3, <2>8 DEF ShellWired, TwoPairs
<1> QED
  BY <1>3, <1>5, <1>6 DEF WireInv

\* The shell closes what it does not need any more.
LEMMA WireClose ==
  ASSUME TypeInv, WireInv, CloseOther, LengthOfExecutable > 1 PROVE WireInv'
<1>0. PICK k : k = Len(pipes)
  OBVIOUS
<1>00. PICK a, b, c, d \in Fd : a = Own[1] /\ b = Own[2] /\ c = Other[1] /\ d = Other[2]
  BY PairsIs
<1>1. /\ pc = "close" /\ pc' = "wait" /\ UNCHANGED <<i, fd1, fd2, pipes, child, childFd>>
      /\ fd' = Close(CloseLast(fd), c, d)
      /\ sound' => sound /\ (i = 0 => fd[fd2[1]] = Closed /\ fd[fd2[2]] = Closed)
  BY <1>00 DEF CloseOther, At, command
<1>2. Own' = Own /\ Other' = Other /\ Made' = Made /\ (IsLast' <=> IsLast) /\ Even' = Even
  BY <1>1 DEF Own, Other, Made, IsLast, Even
<1>3. OneAtATime'
  BY <1>1 DEF OneAtATime
<1>4. sound => CommandWired'
  <2>1. sound => CommandWired
    BY DEF WireInv
  <2>2. TwoPairs(childFd)' <=> TwoPairs(childFd)
    BY <1>1, <1>2 DEF TwoPairs, Holds, StdTty
  <2>3. Stdin' = Stdin /\ Stdout' = Stdout
    BY <1>1 DEF Stdin, Stdout
  <2> QED
    BY <1>1, <1>2, <2>1, <2>2, <2>3 DEF CommandWired
<1>5. ASSUME sound' PROVE ShellWired'
  <2>1. TwoPairs(fd)
    BY <1>1, <1>5 DEF WireInv, ShellWired
  <2>2. /\ fd[a] = <<Made, "read">> /\ fd[b] = <<Made, "write">>
        /\ a # b /\ a \notin 0 .. 2 /\ b \notin 0 .. 2
        /\ i > 0 => /\ fd[c] = <<Made - 1, "read">> /\ fd[d] = <<Made - 1, "write">>
                    /\ {c, d} \cap {a, b} = {} /\ c # d
                    /\ c \notin 0 .. 2 /\ d \notin 0 .. 2
    BY <1>00, <2>1, Different
  <2>3. i \in Nat /\ fd \in Tables(k)
    BY <1>0 DEF TypeInv, ControlType, ShellType
  <2>4. /\ CloseLast(fd) \in Tables(k)
        /\ \A x \in Fd : CloseLast(fd)[x] =
             IF IsLast /\ x \in {b, d} THEN Closed ELSE fd[x]
    BY <1>00, <2>3, CloseLastIs, CloseLastAt
  <2>5. \A x \in Fd : fd'[x] = IF x \in {c, d} THEN Closed ELSE CloseLast(fd)[x]
    <3>1. CloseLast(fd) \in Tables(k)
      BY <2>4
    <3>2. \A t \in Tables(k) : \A x \in Fd :
            Close(t, c, d)[x] = IF x \in {c, d} THEN Closed ELSE t[x]
      BY ONLY c \in Fd, d \in Fd, CloseAt
    <3>3. \A x \in Fd : Close(CloseLast(fd), c, d)[x]
                          = IF x \in {c, d} THEN Closed ELSE CloseLast(fd)[x]
      BY <3>1, <3>2
    <3>4. fd' = Close(CloseLast(fd), c, d)
      BY <1>1
    <3> QED
      BY ONLY <3>3, <3>4
  <2>6. /\ \A m \in 0 .. 2 : fd'[m] = fd[m]
        /\ fd'[a] = fd[a]
        /\ ~ IsLast => fd'[b] = fd[b]
    <3>1. CASE i = 0
      <4>1. ~ IsLast
        BY <3>1 DEF IsLast
      <4>2. Even
        BY <3>1 DEF Even
      <4>3. fd[c] = Closed /\ fd[d] = Closed
        BY <1>00, <1>1, <1>5, <3>1, <4>2 DEF Other
      <4>4. \A x \in Fd : fd'[x] = fd[x]
        BY <2>4, <2>5, <4>1, <4>3
      <4> QED
        BY <4>4, ThreeAreTty
    <3>2. CASE i # 0
      <4>1. i > 0
        BY <2>3, <3>2
      <4>2. a \notin {b, c, d} /\ b \notin {c, d}
        BY <2>2, <4>1
      <4>3. \A m \in 0 .. 2 : m \notin {b, c, d}
        BY <2>2, <4>1
      <4> QED
        BY <2>4, <2>5, <4>2, <4>3, ThreeAreTty
    <3> QED
      BY <3>1, <3>2
  <2>7. StdTty(fd)'
    BY <2>1, <2>6 DEF TwoPairs, StdTty
  <2>8. fd'[Own'[1]] = <<Made', "read">> /\ (~ IsLast' => fd'[Own'[2]] = <<Made', "write">>)
    BY <1>00, <1>2, <2>2, <2>6
  <2> QED
    BY <1>1, <2>7, <2>8 DEF ShellWired
<1> QED
  BY <1>1, <1>3, <1>4, <1>5 DEF WireInv

\* The next command reads the pipe of this one.
LEMMA WireWait ==
  ASSUME TypeInv, WireInv, Waitpid PROVE WireInv'
<1>1. /\ pc = "wait" /\ UNCHANGED <<shell, pipes, sound>> /\ child' = "none"
      /\ \/ IsLast /\ pc' = "fgets"
         \/ ~ IsLast /\ pc' = "pipe" /\ i' = i + 1
  BY DEF Waitpid, At, history
<1>2. OneAtATime' /\ CommandWired'
  BY <1>1 DEF OneAtATime, CommandWired
<1>3. ASSUME sound PROVE ShellWired'
  <2>1. StdTty(fd)' /\ (~ IsLast => Holds(fd, Own, Made))
    BY <1>1, <1>3 DEF WireInv, ShellWired, shell, StdTty, Holds
  <2>2. CASE pc' = "fgets"
    BY <2>1, <2>2 DEF ShellWired
  <2>3. CASE ~ IsLast /\ pc' = "pipe" /\ i' = i + 1
    <3>1. Even' = ~ Even
      <4>1. i \in Nat
        BY DEF TypeInv, ControlType
      <4>2. ((i + 1) % 2 = 0) <=> ~ ((i % 2) = 0)
        BY <4>1
      <4> QED
        BY <2>3, <4>2 DEF Even
    <3>2. Other' = Own
      BY <1>1, <3>1 DEF Other, Own, shell
    <3>3. Holds(fd, Other, Made)'
      BY <1>1, <2>1, <2>3, <3>2 DEF Holds, Made, shell
    <3> QED
      BY <2>1, <2>3, <3>3 DEF ShellWired
  <2> QED
    BY <1>1, <2>2, <2>3
<1> QED
  BY <1>1, <1>2, <1>3 DEF WireInv

\* Every step keeps the descriptors in order.
LEMMA WireShell ==
  ASSUME TypeInv, WireInv, ShellStep, LengthOfExecutable > 1 PROVE WireInv'
<1>1. CASE EndOfFile \/ CreateOverflow \/ MissingCommand \/ ReadLine \/ CreateCommand
  <2>1. CASE EndOfFile \/ CreateOverflow \/ MissingCommand
    <3>1. UNCHANGED <<fd, fd1, fd2, i, pc, pipes, child, childFd, sound>>
      BY <2>1 DEF EndOfFile, CreateOverflow, MissingCommand, shell, command, history
    <3>2. Own' = Own /\ Other' = Other /\ Made' = Made /\ (IsLast' <=> IsLast)
      BY <3>1 DEF Own, Other, Made, IsLast, Even
    <3>3. /\ TwoPairs(fd)' <=> TwoPairs(fd)
          /\ TwoPairs(childFd)' <=> TwoPairs(childFd)
          /\ Holds(fd, Other, Made)' <=> Holds(fd, Other, Made)
      BY <3>1, <3>2 DEF TwoPairs, Holds, StdTty
    <3> QED
      BY <3>1, <3>2, <3>3
         DEF WireInv, OneAtATime, ShellWired, CommandWired, StdTty, Stdin, Stdout
  <2>2. CASE ReadLine \/ CreateCommand
    <3>1. /\ pc \in {"fgets", "create"} /\ UNCHANGED <<fd, child, sound>>
          /\ pc' \in {"create", "pipe"} /\ (pc' = "pipe" => i' = 0)
      BY <2>2 DEF ReadLine, CreateCommand, At, shell, command, history
    <3>2. child = "none"
      BY <3>1 DEF WireInv, OneAtATime
    <3>3. sound => StdTty(fd)'
      BY <3>1 DEF WireInv, ShellWired, StdTty
    <3> QED
      BY <3>1, <3>2, <3>3 DEF WireInv, OneAtATime, ShellWired, CommandWired
  <2> QED
    BY <1>1, <2>1, <2>2
<1>2. CASE PipeFails
  <2>1. sound' = FALSE /\ pc = "pipe" /\ UNCHANGED child
    BY <1>2 DEF PipeFails, At, command
  <2> QED
    BY <2>1 DEF WireInv, OneAtATime
<1>3. CASE Fork \/ ForkFails
  <2>1. /\ pc = "fork" /\ pc' = "close" /\ UNCHANGED <<fd, fd1, fd2, i, pipes, sound>>
        /\ \/ child' = "forked" /\ childFd' = fd
           \/ UNCHANGED <<child, childFd>>
    BY <1>3 DEF Fork, ForkFails, At, shell, command
  <2>2. Own' = Own /\ Other' = Other /\ Made' = Made /\ (IsLast' <=> IsLast)
    BY <2>1 DEF Own, Other, Made, IsLast, Even
  <2>3. child = "none"
    BY <2>1 DEF WireInv, OneAtATime
  <2>4. sound => TwoPairs(fd) /\ StdTty(fd)
    BY <2>1 DEF WireInv, ShellWired
  <2>5. sound => TwoPairs(fd)' /\ StdTty(fd)'
    BY <2>1, <2>2, <2>4 DEF TwoPairs, Holds, StdTty
  <2>6. child' = "forked" => childFd' = fd'
    BY <2>1, <2>3
  <2>7. sound /\ child' = "forked" => TwoPairs(childFd)'
    BY <2>5, <2>6 DEF TwoPairs, Holds, StdTty
  <2> QED
    BY <2>1, <2>3, <2>5, <2>7 DEF WireInv, OneAtATime, ShellWired, CommandWired
<1> QED
  BY <1>1, <1>2, <1>3, WirePipe, WireClose, WireWait DEF ShellStep

\* A command makes no pipe.
LEMMA CommandMakesNone == ASSUME TypeInv, CommandStep PROVE Made' = Made
<1>1. UNCHANGED pipes \/ \E x, v : pipes' = [pipes EXCEPT ![x] = v]
  BY DEF CommandStep, Exec, Read, Write, Finish
<1>2. DOMAIN pipes' = DOMAIN pipes
  BY <1>1
<1>3. DOMAIN pipes = 1 .. Len(pipes) /\ Len(pipes) \in Nat
  BY PipesIs
<1>4. TypeInv'
  BY CommandStepType
<1>5. \A S : \A s \in Seq(S) : DOMAIN s = 1 .. Len(s) /\ Len(s) \in Nat
  OBVIOUS
<1>6. DOMAIN pipes' = 1 .. Len(pipes') /\ Len(pipes') \in Nat
  BY <1>4, <1>5 DEF TypeInv
<1> QED
  BY <1>2, <1>3, <1>6 DEF Made

LEMMA WireCommand ==
  ASSUME TypeInv, WireInv, CommandStep, LengthOfExecutable > 1 PROVE WireInv'
<1>1. /\ UNCHANGED <<fd, fd1, fd2, i, pc, sound>> /\ child # "none"
      /\ Made' = Made
  BY CommandMakesNone DEF CommandStep, Exec, Read, Write, Writing, Finish, control, shell, history
<1>2. Own' = Own /\ Other' = Other /\ (IsLast' <=> IsLast)
  BY <1>1 DEF Own, Other, IsLast, Even
<1>3. OneAtATime'
  BY <1>1 DEF WireInv, OneAtATime
<1>4. sound => ShellWired'
  <2>1. /\ TwoPairs(fd)' <=> TwoPairs(fd)
        /\ Holds(fd, Other, Made)' <=> Holds(fd, Other, Made)
        /\ StdTty(fd)' <=> StdTty(fd)
    BY <1>1, <1>2 DEF TwoPairs, Holds, StdTty
  <2> QED
    BY <1>1, <1>2, <2>1 DEF WireInv, ShellWired
<1>5. ASSUME sound PROVE CommandWired'
  <2>1. CASE child' = "zombie"
    BY <2>1 DEF CommandWired
  <2>2. CASE child = "runs" /\ UNCHANGED <<child, childFd>>
    BY <1>1, <1>2, <1>5, <2>2 DEF WireInv, CommandWired, Stdin, Stdout
  <2>3. CASE child = "forked" /\ child' = "runs" /\ childFd' = Wired
    <3>1. TwoPairs(childFd)
      BY <1>5, <2>3 DEF WireInv, CommandWired
    <3>2. i > 0 \/ ~ IsLast
      <4>1. i \in Nat /\ LengthOfExecutable \in Nat
        BY PipelineAssumption DEF TypeInv, ControlType
      <4> QED
        BY <4>1 DEF IsLast
    <3>3. /\ Wired[0] = IF i = 0 THEN Tty ELSE <<Made - 1, "read">>
          /\ Wired[1] = IF IsLast THEN Tty ELSE <<Made, "write">>
      BY <3>1, <3>2, WiredEnds
    <3>4. Stdin' = Wired[0] /\ Stdout' = Wired[1]
      BY <2>3 DEF Stdin, Stdout
    <3> QED
      BY <1>1, <1>2, <2>3, <3>3, <3>4 DEF CommandWired
  <2> QED
    BY <2>1, <2>2, <2>3 DEF CommandStep, Exec, Read, Write, Writing, Finish, End
<1> QED
  BY <1>1, <1>3, <1>4, <1>5 DEF WireInv

LEMMA WireStep ==
  ASSUME LengthOfExecutable > 1 PROVE TypeInv /\ WireInv /\ [Next]_vars => WireInv'
<1> SUFFICES ASSUME TypeInv, WireInv, [Next]_vars PROVE WireInv'
  OBVIOUS
<1>1. CASE UNCHANGED vars
  BY <1>1 DEF vars, input, control, shell, command, history, WireInv, OneAtATime,
              ShellWired, CommandWired, TwoPairs, Holds, StdTty, Own, Other, Made,
              IsLast, Even, Stdin, Stdout
<1> QED
  BY <1>1, WireShell, WireCommand DEF Next

\* A command of a pipeline reads the pipe that the command before it wrote and
\* writes the pipe that the next one reads, the first reading and the last
\* writing the terminal (runProcess), for every number of commands but one:
\* with one command only, the last would be the first too, and the shell would
\* close through the undefined fd2.  It holds as long as the undefined fd2
\* named no open descriptor and no pipe failed.
THEOREM WiredInOrderHolds ==
  ASSUME LengthOfExecutable > 1 PROVE Spec => []WiredInOrder
<1>1. Init => TypeInv /\ WireInv
  BY TypeInit, WireInit
<1>2. TypeInv /\ WireInv /\ [Next]_vars => TypeInv' /\ WireInv'
  BY TypeStep, WireStep
<1>3. WireInv => WiredInOrder
  BY DEF WireInv, CommandWired, WiredInOrder, Made
<1> QED
  BY <1>1, <1>2, <1>3, PTL DEF Spec
-------------------------------------------------------------------------------
(* How many descriptors are open.  The pipes of the lines before, counted, and *)
(* the place in this line say how many there have to be.                       *)
OpenOf(t) == {n \in Fd : t[n] # Closed}
Begun ==
  IF pc \in {"fgets", "create"} THEN 0 ELSE IF pc = "pipe" THEN i ELSE i + 1
HeldHere ==
  IF pc \in {"fgets", "create"} THEN 0
  ELSE IF pc = "pipe" THEN (IF i = 0 THEN 0 ELSE 2)
  ELSE IF pc = "wait" THEN (IF IsLast THEN 1 ELSE 2)
  ELSE IF i = 0 THEN 2 ELSE 4
Counted(q) ==
  /\ Made = q * LengthOfExecutable + Begun
  /\ sound => Cardinality(OpenOf(fd)) = 4 + q + HeldHere
CountInv == \E q \in Nat : Counted(q)

LEMMA OpenFinite == ASSUME NEW t PROVE IsFiniteSet(OpenOf(t)) /\ Cardinality(OpenOf(t)) \in Nat
<1>1. IsFiniteSet(0 .. FdLimit)
  BY FdIs, FS_Interval
<1>2. OpenOf(t) \in SUBSET (0 .. FdLimit)
  BY DEF OpenOf, Fd
<1>3. IsFiniteSet(OpenOf(t))
  BY <1>1, <1>2, FS_Subset
<1> QED
  BY <1>3, FS_CardinalityType

LEMMA EndsAreOpen == \A n : <<n, "read">> # Closed /\ <<n, "write">> # Closed
  BY DEF Closed

LEMMA OpenTwo ==
  ASSUME NEW t, NEW u, NEW x \in Fd, NEW y \in Fd, x # y, t[x] = Closed, t[y] = Closed,
         u[x] # Closed, u[y] # Closed, \A n \in Fd : n \notin {x, y} => u[n] = t[n]
  PROVE  Cardinality(OpenOf(u)) = Cardinality(OpenOf(t)) + 2
<1>0. PICK S : S = OpenOf(t)
  OBVIOUS
<1>1. IsFiniteSet(S) /\ Cardinality(S) \in Nat /\ x \notin S /\ y \notin S
  BY <1>0, OpenFinite DEF OpenOf
<1>2. IsFiniteSet(S \cup {x}) /\ Cardinality(S \cup {x}) = Cardinality(S) + 1
  BY <1>1, FS_AddElement
<1>3. y \notin S \cup {x}
  BY <1>1
<1>4. Cardinality((S \cup {x}) \cup {y}) = Cardinality(S \cup {x}) + 1
  BY <1>2, <1>3, FS_AddElement
<1>5. OpenOf(u) = (S \cup {x}) \cup {y}
  BY <1>0 DEF OpenOf
<1> QED
  BY <1>0, <1>1, <1>2, <1>4, <1>5

LEMMA CloseOne ==
  ASSUME NEW t, NEW u, NEW x \in Fd, t[x] # Closed, u[x] = Closed,
         \A n \in Fd : n # x => u[n] = t[n]
  PROVE  Cardinality(OpenOf(u)) = Cardinality(OpenOf(t)) - 1
<1>0. PICK S : S = OpenOf(t)
  OBVIOUS
<1>1. IsFiniteSet(S) /\ x \in S
  BY <1>0, OpenFinite DEF OpenOf
<1>2. Cardinality(S \ {x}) = Cardinality(S) - 1
  BY <1>1, FS_RemoveElement
<1>3. OpenOf(u) = S \ {x}
  BY <1>0 DEF OpenOf
<1> QED
  BY <1>0, <1>2, <1>3

LEMMA SameOpen ==
  ASSUME NEW t, NEW u, \A n \in Fd : u[n] = t[n]
  PROVE  OpenOf(u) = OpenOf(t)
  BY DEF OpenOf

LEMMA CountInit == Init => CountInv
<1> SUFFICES ASSUME Init PROVE CountInv
  OBVIOUS
<1>1. Made = 0
  BY DEF Init, Made
<1>2. \A n \in Fd : fd[n] = IF n <= 2 THEN Tty ELSE IF n = 3 THEN <<0, "file">> ELSE Closed
  BY DEF Init
<1>3. Tty # Closed /\ <<0, "file">> # Closed
  BY DEF Tty, Closed
<1>4. FdLimit \in Nat /\ FdLimit > 4
  BY PipelineAssumption
<1>5. \A n \in Fd : fd[n] # Closed <=> n \in 0 .. 3
  BY <1>2, <1>3, <1>4 DEF Fd
<1>6. 0 .. 3 \subseteq Fd
  BY <1>4 DEF Fd
<1>7. OpenOf(fd) = 0 .. 3
  BY <1>5, <1>6 DEF OpenOf
<1>8. Cardinality(0 .. 3) = 4
  <2>1. PICK x, y \in Int : x = 0 /\ y = 3
    OBVIOUS
  <2>2. Cardinality(x .. y) = IF x > y THEN 0 ELSE y - x + 1
    BY FS_Interval
  <2> QED
    BY <2>1, <2>2
<1>9. Begun = 0 /\ HeldHere = 0
  BY DEF Init, Begun, HeldHere
<1>10. Made = 0 * LengthOfExecutable + Begun
  BY <1>1, <1>9, PipelineAssumption
<1>11. Counted(0)
  BY <1>7, <1>8, <1>9, <1>10 DEF Counted
<1> QED
  BY <1>11 DEF CountInv

\* A line begins, or the shell goes on at the same place.
LEMMA CountStays ==
  ASSUME TypeInv, CountInv, Made' = Made, sound' => sound, Begun' = Begun,
         sound' => /\ HeldHere' = HeldHere
                   /\ Cardinality(OpenOf(fd))' = Cardinality(OpenOf(fd))
  PROVE  CountInv'
<1>1. PICK q \in Nat : Counted(q)
  BY DEF CountInv
<1>2. Counted(q)'
  BY <1>1 DEF Counted
<1> QED
  BY <1>2 DEF CountInv

LEMMA CountPipe ==
  ASSUME TypeInv, WireInv, CountInv, MakePipe PROVE CountInv'
<1>0. PICK k : k = Len(pipes)
  OBVIOUS
<1>1. k \in Nat /\ Made = k /\ Made' = k + 1
  BY <1>0, PipesIs DEF MakePipe, Made
<1>2. PICK r, w \in Free :
        r # w /\ fd' = [fd EXCEPT ![r] = <<k + 1, "read">>, ![w] = <<k + 1, "write">>]
  BY <1>0, FreeIs DEF MakePipe
<1>3. pc = "pipe" /\ pc' = "fork" /\ UNCHANGED <<i, sound>>
  BY DEF MakePipe, At, history
<1>4. fd[r] = Closed /\ fd[w] = Closed /\ r \in Fd /\ w \in Fd
  BY DEF Free
<1>5. \A x \in Fd : fd'[x] = IF x = w THEN <<k + 1, "write">>
                             ELSE IF x = r THEN <<k + 1, "read">> ELSE fd[x]
  BY <1>0, <1>2, <1>4 DEF TypeInv, ShellType, Tables
<1>7. PICK u : u = fd'
  OBVIOUS
<1>6. u[r] # Closed /\ u[w] # Closed /\ \A x \in Fd : x \notin {r, w} => u[x] = fd[x]
  BY <1>2, <1>4, <1>5, <1>7, EndsAreOpen
<1>8. Cardinality(OpenOf(u)) = Cardinality(OpenOf(fd)) + 2
  <2>1. r # w
    BY <1>2
  <2> QED
    BY ONLY <1>4, <1>6, <2>1, OpenTwo
<1>9. PICK q \in Nat : Counted(q)
  BY DEF CountInv
<1>10. i \in Nat /\ LengthOfExecutable \in Nat
  BY PipelineAssumption DEF TypeInv, ControlType
<1>11. Begun = i /\ Begun' = i + 1 /\ HeldHere = (IF i = 0 THEN 0 ELSE 2)
       /\ HeldHere' = IF i = 0 THEN 2 ELSE 4
  BY <1>3 DEF Begun, HeldHere
<1>12. OpenOf(fd)' = OpenOf(u)
  BY <1>7 DEF OpenOf
<1>13. PICK m : m = q * LengthOfExecutable
  OBVIOUS
<1>14. m \in Nat /\ Made = m + i
  BY <1>9, <1>10, <1>11, <1>13 DEF Counted
<1>15. Made' = m + (i + 1)
  BY <1>1, <1>10, <1>14
<1>16. sound => Cardinality(OpenOf(u)) = 4 + q + HeldHere'
  <2>1. sound => Cardinality(OpenOf(fd)) = 4 + q + HeldHere
    BY <1>9 DEF Counted
  <2> QED
    BY <1>8, <1>11, <2>1
<1>17. Counted(q)'
  BY <1>3, <1>11, <1>12, <1>13, <1>15, <1>16 DEF Counted
<1> QED
  BY <1>17 DEF CountInv

LEMMA CountClose ==
  ASSUME TypeInv, WireInv, CountInv, CloseOther, LengthOfExecutable > 1 PROVE CountInv'
<1>0. PICK k : k = Len(pipes)
  OBVIOUS
<1>00. PICK a, b, c, d \in Fd : a = Own[1] /\ b = Own[2] /\ c = Other[1] /\ d = Other[2]
  BY PairsIs
<1>1. /\ pc = "close" /\ pc' = "wait" /\ UNCHANGED <<i, pipes>>
      /\ fd' = Close(CloseLast(fd), c, d)
      /\ sound' => sound /\ (i = 0 => fd[fd2[1]] = Closed /\ fd[fd2[2]] = Closed)
  BY <1>00 DEF CloseOther, At
<1>2. Made' = Made /\ (IsLast' <=> IsLast) /\ Begun' = Begun
      /\ HeldHere = (IF i = 0 THEN 2 ELSE 4) /\ HeldHere' = IF IsLast THEN 1 ELSE 2
  BY <1>1 DEF Made, IsLast, Begun, HeldHere
<1>3. PICK q \in Nat : Counted(q)
  BY DEF CountInv
<1>4. i \in Nat /\ LengthOfExecutable \in Nat /\ fd \in Tables(k)
  BY <1>0, PipelineAssumption DEF TypeInv, ControlType, ShellType
<1>5. PICK s : s = CloseLast(fd)
  OBVIOUS
<1>6. s \in Tables(k) /\ \A x \in Fd : s[x] = IF IsLast /\ x \in {b, d} THEN Closed ELSE fd[x]
  BY <1>00, <1>4, <1>5, CloseLastIs, CloseLastAt
<1>7. PICK u : u = Close(s, c, d)
  OBVIOUS
<1>8. \A x \in Fd : u[x] = IF x \in {c, d} THEN Closed ELSE s[x]
  <2>1. \A t \in Tables(k) : \A x \in Fd :
          Close(t, c, d)[x] = IF x \in {c, d} THEN Closed ELSE t[x]
    BY ONLY c \in Fd, d \in Fd, CloseAt
  <2> QED
    BY <1>6, <1>7, <2>1
<1>9. fd' = u
  BY <1>1, <1>5, <1>7
<1>10. ASSUME sound' PROVE Cardinality(OpenOf(u)) = 4 + q + HeldHere'
  <2>1. TwoPairs(fd)
    BY <1>1, <1>10 DEF WireInv, ShellWired
  <2>2. /\ fd[a] = <<Made, "read">> /\ fd[b] = <<Made, "write">>
        /\ a # b /\ a \notin 0 .. 2 /\ b \notin 0 .. 2
        /\ i > 0 => /\ fd[c] = <<Made - 1, "read">> /\ fd[d] = <<Made - 1, "write">>
                    /\ {c, d} \cap {a, b} = {} /\ c # d
                    /\ c \notin 0 .. 2 /\ d \notin 0 .. 2
    BY <1>00, <2>1, Different
  <2>3. Cardinality(OpenOf(fd)) = 4 + q + HeldHere
    BY <1>1, <1>3, <1>10 DEF Counted
  <2>4. CASE i = 0
    <3>1. ~ IsLast
      BY <1>4, <2>4 DEF IsLast
    <3>2. Even
      BY <2>4 DEF Even
    <3>3. fd[c] = Closed /\ fd[d] = Closed
      BY <1>00, <1>1, <1>10, <2>4, <3>2 DEF Other
    <3>4. \A x \in Fd : u[x] = fd[x]
      BY <1>6, <1>8, <3>1, <3>3
    <3>5. OpenOf(u) = OpenOf(fd)
      BY ONLY <3>4, SameOpen
    <3> QED
      BY <1>2, <2>3, <2>4, <3>1, <3>5
  <2>5. CASE i # 0
    <3>1. i > 0
      BY <1>4, <2>5
    <3>2. /\ c # d /\ b # c /\ b # d
          /\ fd[b] # Closed /\ fd[c] # Closed /\ fd[d] # Closed
      BY <2>2, <3>1, EndsAreOpen
    <3>3. PICK v : v = [fd EXCEPT ![c] = Closed]
      OBVIOUS
    <3>4. \A x \in Fd : v[x] = IF x = c THEN Closed ELSE fd[x]
      BY <1>4, <3>3 DEF Tables
    <3>5. Cardinality(OpenOf(v)) = Cardinality(OpenOf(fd)) - 1
      <4>1. v[c] = Closed /\ \A x \in Fd : x # c => v[x] = fd[x]
        BY <3>4
      <4> QED
        BY ONLY c \in Fd, <3>2, <4>1, CloseOne
    <3>6. PICK y : y = [x \in Fd |-> IF x \in {c, d} THEN Closed ELSE fd[x]]
      OBVIOUS
    <3>7. \A x \in Fd : y[x] = IF x \in {c, d} THEN Closed ELSE fd[x]
      BY <3>6
    <3>8. Cardinality(OpenOf(y)) = Cardinality(OpenOf(v)) - 1
      <4>1. v[d] # Closed /\ y[d] = Closed /\ \A x \in Fd : x # d => y[x] = v[x]
        BY <3>2, <3>4, <3>7
      <4> QED
        BY ONLY d \in Fd, <4>1, CloseOne
    <3>9. CASE ~ IsLast
      <4>1. \A x \in Fd : u[x] = y[x]
        BY <1>6, <1>8, <3>7, <3>9
      <4>2. OpenOf(u) = OpenOf(y)
        BY ONLY <4>1, SameOpen
      <4> QED
        BY <1>2, <2>3, <2>5, <3>5, <3>8, <3>9, <4>2
    <3>10. CASE IsLast
      <4>1. y[b] # Closed /\ u[b] = Closed /\ \A x \in Fd : x # b => u[x] = y[x]
        BY <1>6, <1>8, <3>2, <3>7, <3>10
      <4>2. Cardinality(OpenOf(u)) = Cardinality(OpenOf(y)) - 1
        BY ONLY b \in Fd, <4>1, CloseOne
      <4> QED
        BY <1>2, <2>3, <2>5, <3>5, <3>8, <3>10, <4>2
    <3> QED
      BY <3>9, <3>10
  <2> QED
    BY <2>4, <2>5
<1>11. OpenOf(fd)' = OpenOf(u)
  BY <1>9 DEF OpenOf
<1>12. Counted(q)'
  BY <1>2, <1>3, <1>10, <1>11 DEF Counted
<1> QED
  BY <1>12 DEF CountInv

\* The next command, or the end of the line and with it one more pipe to count.
LEMMA CountWait ==
  ASSUME TypeInv, CountInv, Waitpid PROVE CountInv'
<1>1. /\ pc = "wait" /\ UNCHANGED <<fd, pipes, sound>>
      /\ \/ IsLast /\ pc' = "fgets" /\ i' = i
         \/ ~ IsLast /\ pc' = "pipe" /\ i' = i + 1
  BY DEF Waitpid, At, history, shell
<1>2. PICK q \in Nat : Counted(q)
  BY DEF CountInv
<1>3. i \in Nat /\ LengthOfExecutable \in Nat
  BY PipelineAssumption DEF TypeInv, ControlType
<1>4. Made' = Made /\ OpenOf(fd)' = OpenOf(fd) /\ Begun = i + 1
  BY <1>1 DEF Made, OpenOf, Begun
<1>5. CASE ~ IsLast /\ pc' = "pipe" /\ i' = i + 1
  <2>1. Begun' = Begun
    BY <1>4, <1>5 DEF Begun
  <2>2. HeldHere' = HeldHere
    BY <1>1, <1>3, <1>5 DEF HeldHere
  <2> QED
    BY <1>1, <1>4, <2>1, <2>2, CountStays
<1>6. CASE IsLast /\ pc' = "fgets"
  <2>1. Begun = LengthOfExecutable /\ Begun' = 0 /\ HeldHere = 1 /\ HeldHere' = 0
    BY <1>1, <1>3, <1>4, <1>6 DEF Begun, HeldHere, IsLast
  <2>2. (q + 1) * LengthOfExecutable = q * LengthOfExecutable + LengthOfExecutable
    BY <1>3
  <2>3. Made' = (q + 1) * LengthOfExecutable + Begun'
    BY <1>2, <1>3, <1>4, <2>1, <2>2 DEF Counted
  <2>4. sound => Cardinality(OpenOf(fd)) = 4 + (q + 1) + HeldHere'
    BY <1>2, <2>1 DEF Counted
  <2>5. Counted(q + 1)'
    BY <1>1, <1>4, <2>3, <2>4 DEF Counted
  <2> QED
    BY <2>5 DEF CountInv
<1> QED
  BY <1>1, <1>5, <1>6

LEMMA CountStep ==
  ASSUME LengthOfExecutable > 1
  PROVE  TypeInv /\ WireInv /\ CountInv /\ [Next]_vars => CountInv'
<1> SUFFICES ASSUME TypeInv, WireInv, CountInv, [Next]_vars PROVE CountInv'
  OBVIOUS
<1>1. CASE \/ EndOfFile \/ CreateOverflow \/ MissingCommand \/ CommandStep
           \/ UNCHANGED vars
  <2>1. UNCHANGED <<fd, i, pc, sound>>
    BY <1>1 DEF EndOfFile, CreateOverflow, MissingCommand, CommandStep, Exec, Read, Write,
                Finish, vars, shell, control, history
  <2>2. Made' = Made
    <3>1. CASE CommandStep
      BY <3>1, CommandMakesNone
    <3>2. CASE EndOfFile \/ CreateOverflow \/ MissingCommand \/ UNCHANGED vars
      BY <3>2 DEF EndOfFile, CreateOverflow, MissingCommand, vars, Made
    <3> QED
      BY <1>1, <3>1, <3>2
  <2>3. Begun' = Begun /\ HeldHere' = HeldHere /\ OpenOf(fd)' = OpenOf(fd)
    BY <2>1 DEF Begun, HeldHere, IsLast, OpenOf
  <2> QED
    BY <2>1, <2>2, <2>3, CountStays
<1>2. CASE ReadLine \/ CreateCommand
  <2>1. /\ UNCHANGED <<fd, pipes, sound>> /\ pc \in {"fgets", "create"}
        /\ pc' \in {"create", "pipe"} /\ (pc' = "pipe" => i' = 0)
    BY <1>2 DEF ReadLine, CreateCommand, At, shell, history
  <2>2. Made' = Made /\ OpenOf(fd)' = OpenOf(fd) /\ Begun' = Begun /\ HeldHere' = HeldHere
    BY <2>1 DEF Made, OpenOf, Begun, HeldHere
  <2> QED
    BY <2>1, <2>2, CountStays
<1>3. CASE PipeFails
  <2>1. sound' = FALSE /\ pc = "pipe" /\ pc' = "fork" /\ i' = i /\ Made' = Made + 1
    BY <1>3, PipesIs DEF PipeFails, At, Made
  <2>2. Begun = i /\ Begun' = i + 1
    BY <2>1 DEF Begun
  <2>3. PICK q \in Nat : Counted(q)
    BY DEF CountInv
  <2>4. i \in Nat /\ LengthOfExecutable \in Nat
    BY PipelineAssumption DEF TypeInv, ControlType
  <2>5. PICK m \in Nat : m = q * LengthOfExecutable
    BY <2>4
  <2>6. Made = m + i
    BY <2>2, <2>3, <2>5 DEF Counted
  <2>7. Made' = m + (i + 1)
    BY <2>1, <2>4, <2>6
  <2>8. Counted(q)'
    BY <2>1, <2>2, <2>5, <2>7 DEF Counted
  <2> QED
    BY <2>8 DEF CountInv
<1>4. CASE Fork \/ ForkFails
  <2>1. /\ UNCHANGED <<fd, i, pipes, sound>> /\ pc = "fork" /\ pc' = "close"
    BY <1>4 DEF Fork, ForkFails, At, shell
  <2>2. Made' = Made /\ OpenOf(fd)' = OpenOf(fd) /\ Begun' = Begun /\ HeldHere' = HeldHere
    BY <2>1 DEF Made, OpenOf, Begun, HeldHere
  <2> QED
    BY <2>1, <2>2, CountStays
<1> QED
  BY <1>1, <1>2, <1>3, <1>4, CountPipe, CountClose, CountWait DEF Next, ShellStep

\* Between two lines the shell holds the terminal, the file, and one descriptor
\* for every line it ran, the end for reading of the last pipe, which nobody
\* closes (runProcess): no other descriptor is lost, whatever the commands did.
\* And each is of a pipe that was made, the file or the terminal.  One command
\* only is left out for the reason of the theorem before.
THEOREM DescriptorsInvHolds ==
  ASSUME LengthOfExecutable > 1 PROVE Spec => []DescriptorsInv
<1>1. Init => TypeInv /\ WireInv /\ CountInv
  BY TypeInit, WireInit, CountInit
<1>2. TypeInv /\ WireInv /\ CountInv /\ [Next]_vars => TypeInv' /\ WireInv' /\ CountInv'
  BY TypeStep, WireStep, CountStep
<1>3. TypeInv /\ CountInv => DescriptorsInv
  <2> SUFFICES ASSUME TypeInv, CountInv, sound, pc = "fgets" PROVE LeaksOnePerLine
    BY TypeIsTypeOK DEF DescriptorsInv, LeaksOnePerLine
  <2>1. PICK q \in Nat : Counted(q)
    BY DEF CountInv
  <2>2. LengthOfExecutable \in Nat /\ LengthOfExecutable > 0
    BY PipelineAssumption
  <2>3. Begun = 0 /\ HeldHere = 0
    BY DEF Begun, HeldHere
  <2>4. (q * LengthOfExecutable) \div LengthOfExecutable = q
    BY <2>2
  <2>5. Len(pipes) = q * LengthOfExecutable
    BY <2>1, <2>2, <2>3 DEF Counted, Made
  <2>6. Cardinality(OpenOf(fd)) = 4 + q
    BY <2>1, <2>3 DEF Counted
  <2> QED
    BY <2>4, <2>5, <2>6 DEF LeaksOnePerLine, OpenOf
<1> QED
  BY <1>1, <1>2, <1>3, PTL DEF Spec
===============================================================================
