------------------------------- MODULE Lab2Proofs -------------------------------
(***************************************************************************)
(* Theorems about the programs on files: about Records, for every set of   *)
(* calls, records of any length, any number of them and any files; and,    *)
(* below, about DirectoryList, for every tree of directories and every     *)
(* number of entries that readdir reads ahead.                             *)
(***************************************************************************)
EXTENDS Records, DirectoryList, SequenceTheorems, FiniteSetTheorems, WellFoundedInduction, TLAPS

-------------------------------------------------------------------------------
(* Numbers: the smaller and the larger of two, and blocks of w bytes         *)

\* What Min and Max return for two numbers.
LEMMA MinTwo ==
  ASSUME NEW x \in Int, NEW y \in Int
  PROVE  Min({x, y}) = IF x <= y THEN x ELSE y
<1>1. \E m \in {x, y} : \A n \in {x, y} : m <= n
  OBVIOUS
<1>2. Min({x, y}) \in {x, y} /\ \A n \in {x, y} : Min({x, y}) <= n
  BY <1>1 DEF Min
<1> QED
  BY <1>2

LEMMA MaxTwo ==
  ASSUME NEW x \in Int, NEW y \in Int
  PROVE  Max({x, y}) = IF x >= y THEN x ELSE y
<1>1. \E m \in {x, y} : \A n \in {x, y} : m >= n
  OBVIOUS
<1>2. Max({x, y}) \in {x, y} /\ \A n \in {x, y} : Max({x, y}) >= n
  BY <1>1 DEF Max
<1> QED
  BY <1>2

\* A block ends before the next one begins.
LEMMA BlockAfter ==
  ASSUME NEW w \in Nat \ {0}, NEW m \in Int, NEW n \in Int, m < n
  PROVE  (m * w) \in Int /\ (n * w) \in Int /\ (m * w) + w <= n * w
<1>1. PICK d \in Nat : n = m + 1 + d
  <2> DEFINE d == n - m - 1
  <2>1. d \in Nat /\ n = m + 1 + d
    OBVIOUS
  <2> QED
    BY <2>1
<1>2. n * w = (m * w) + w + (d * w)
  BY <1>1
<1>3. d * w \in Nat
  OBVIOUS
<1>4. m * w \in Int
  OBVIOUS
<1> QED
  BY <1>2, <1>3, <1>4

\* The whole blocks that n bytes hold.
LEMMA BlocksIn ==
  ASSUME NEW w \in Nat \ {0}, NEW n \in Nat
  PROVE  /\ (n \div w) \in Nat
         /\ \A k \in Nat : k <= (n \div w) <=> (k * w) <= n
<1>1. PICK q \in Nat, r \in 0 .. w - 1 : n = (q * w) + r /\ n \div w = q
  <2>1. (n \div w) \in Nat /\ (n % w) \in 0 .. w - 1 /\ n = (w * (n \div w)) + (n % w)
    OBVIOUS
  <2> QED
    BY <2>1
<1>2. ASSUME NEW k \in Nat
      PROVE  k <= q <=> (k * w) <= n
  <2>1. CASE k < q
    BY <2>1, <1>1, BlockAfter
  <2>2. CASE k = q
    BY <2>2, <1>1
  <2>3. CASE q < k
    BY <2>3, <1>1, BlockAfter
  <2> QED
    BY <2>1, <2>2, <2>3
<1> QED
  BY <1>1, <1>2

\* A multiple of w is that many blocks.
LEMMA WholeBlocks ==
  ASSUME NEW w \in Nat \ {0}, NEW n \in Nat
  PROVE  (n % w = 0) <=> ((n \div w) * w = n)
<1>1. n = (w * (n \div w)) + (n % w) /\ (n % w) \in 0 .. w - 1 /\ (n \div w) \in Nat
  OBVIOUS
<1>2. (w * (n \div w)) = (n \div w) * w
  BY <1>1
<1>3. ((n \div w) * w) \in Nat
  BY <1>1
<1> QED
  BY <1>1, <1>2, <1>3

LEMMA Multiple ==
  ASSUME NEW w \in Nat \ {0}, NEW k \in Nat
  PROVE  ((k * w) \in Nat) /\ ((k * w) \div w = k) /\ ((k * w) % w = 0)
<1>1. (k * w) \in Nat
  OBVIOUS
<1>2. \A m \in Nat : m <= ((k * w) \div w) <=> (m * w) <= (k * w)
  BY <1>1, BlocksIn
<1>3. ((k * w) \div w) \in Nat
  BY <1>1, BlocksIn
<1>4. k <= ((k * w) \div w)
  BY <1>2, <1>1
<1>5. ~ (k + 1 <= ((k * w) \div w))
  <2>1. (k * w) + w <= (k + 1) * w
    BY BlockAfter, k + 1 \in Int, k < k + 1
  <2>2. ~ (((k + 1) * w) <= k * w)
    BY <2>1, <1>1
  <2> QED
    BY <2>2, <1>2, k + 1 \in Nat
<1>6. (k * w) \div w = k
  BY <1>3, <1>4, <1>5
<1> QED
  BY <1>1, <1>6, WholeBlocks

-------------------------------------------------------------------------------
(* Files and buffers                                                         *)

Value == Byte \cup {Undefined}      \* what a byte of a file or a buffer may be
Buffer(w, S) == [1 .. w -> S]

\* A buffer is a sequence of its length.
LEMMA BufferIsSeq ==
  ASSUME NEW w \in Nat, NEW S, NEW buffer \in Buffer(w, S)
  PROVE  buffer \in Seq(S) /\ Len(buffer) = w
  BY DEF Buffer

\* A read fills the buffer as far as the file goes and leaves the rest.
LEMMA ReadIs ==
  ASSUME NEW S, width \in Nat \ {0}, NEW file \in Seq(S), NEW pos \in Nat,
         NEW buffer \in Buffer(width, S)
  PROVE  /\ ReadAt(file, pos, buffer) \in Buffer(width, S)
         /\ \A j \in 1 .. width :
              ReadAt(file, pos, buffer)[j] =
                IF pos + j <= Len(file) THEN file[pos + j] ELSE buffer[j]
<1>1. PICK w \in Nat \ {0} : w = width
  OBVIOUS
<1>2. PICK n \in Nat : n = Len(file)
  OBVIOUS
<1>3. PICK e \in Nat : e = Min({pos + w, n}) /\ e = IF pos + w <= n THEN pos + w ELSE n
  BY <1>1, <1>2, MinTwo
<1>4. PICK b \in Nat : b = Max({n - pos, 0}) /\ b = IF n - pos >= 0 THEN n - pos ELSE 0
  BY <1>2, MaxTwo
<1>5. PICK s : s = SubSeq(file, pos + 1, e)
  OBVIOUS
<1>6. PICK t : t = SubSeq(buffer, b + 1, w)
  OBVIOUS
<1>7. /\ s \in Seq(S) /\ Len(s) = IF pos + 1 <= e THEN e - pos ELSE 0
      /\ \A j \in 1 .. e - pos : s[j] = file[pos + j]
  <2>1. \A k \in pos + 1 .. e : file[k] \in S
    BY <1>2, <1>3, ElementOfSeq
  <2>2. /\ SubSeq(file, pos + 1, e) \in Seq(S)
        /\ Len(SubSeq(file, pos + 1, e)) = IF pos + 1 <= e THEN e - (pos + 1) + 1 ELSE 0
        /\ \A j \in 1 .. e - (pos + 1) + 1 : SubSeq(file, pos + 1, e)[j] = file[pos + 1 + j - 1]
    BY <2>1, SubSeqProperties, pos + 1 \in Int, e \in Int
  <2>3. s \in Seq(S) /\ Len(s) = IF pos + 1 <= e THEN e - pos ELSE 0
    <3>1. e - (pos + 1) + 1 = e - pos
      BY <1>3
    <3> QED
      BY ONLY <3>1, <2>2, <1>5
  <2>4. ASSUME NEW j \in 1 .. e - pos
        PROVE  s[j] = file[pos + j]
    <3>1. j \in 1 .. e - (pos + 1) + 1 /\ pos + 1 + j - 1 = pos + j
      BY <1>3
    <3> QED
      BY ONLY <3>1, <2>2, <1>5
  <2> QED
    BY <2>3, <2>4
<1>8. /\ t \in Seq(S) /\ Len(t) = IF b + 1 <= w THEN w - b ELSE 0
      /\ \A j \in 1 .. w - b : t[j] = buffer[b + j]
  <2>1. \A k \in b + 1 .. w : buffer[k] \in S
    BY <1>1, <1>4 DEF Buffer
  <2>2. /\ SubSeq(buffer, b + 1, w) \in Seq(S)
        /\ Len(SubSeq(buffer, b + 1, w)) = IF b + 1 <= w THEN w - (b + 1) + 1 ELSE 0
        /\ \A j \in 1 .. w - (b + 1) + 1 : SubSeq(buffer, b + 1, w)[j] = buffer[b + 1 + j - 1]
    BY <2>1, SubSeqProperties, b + 1 \in Int, w \in Int
  <2>3. t \in Seq(S) /\ Len(t) = IF b + 1 <= w THEN w - b ELSE 0
    <3>1. w - (b + 1) + 1 = w - b
      BY <1>1, <1>4
    <3> QED
      BY ONLY <3>1, <2>2, <1>6
  <2>4. ASSUME NEW j \in 1 .. w - b
        PROVE  t[j] = buffer[b + j]
    <3>1. j \in 1 .. w - (b + 1) + 1 /\ b + 1 + j - 1 = b + j
      BY <1>1, <1>4
    <3> QED
      BY ONLY <3>1, <2>2, <1>6
  <2> QED
    BY <2>3, <2>4
<1>9. /\ s \o t \in Seq(S) /\ Len(s \o t) = Len(s) + Len(t)
      /\ \A j \in 1 .. Len(s) + Len(t) :
           (s \o t)[j] = IF j <= Len(s) THEN s[j] ELSE t[j - Len(s)]
  BY <1>7, <1>8, ConcatProperties
<1>10. Len(s) + Len(t) = w
  <2>s. s \in Seq(S) /\ t \in Seq(S)
    BY <1>7, <1>8
  <2>x. PICK x \in Nat : x = Len(s)
    BY <2>s
  <2>y. PICK y \in Nat : y = Len(t)
    BY <2>s
  <2>1. x = Len(s) /\ y = Len(t)
    BY <2>x, <2>y
  <2>2. x = (IF pos + 1 <= e THEN e - pos ELSE 0) /\ y = (IF b + 1 <= w THEN w - b ELSE 0)
    BY <2>1, <1>7, <1>8
  <2>3. e = (IF pos + w <= n THEN pos + w ELSE n) /\ b = (IF n - pos >= 0 THEN n - pos ELSE 0)
    BY <1>3, <1>4
  <2>4. x + y = w
    BY ONLY <2>2, <2>3, x \in Nat, y \in Nat, e \in Nat, b \in Nat, n \in Nat, w \in Nat, pos \in Nat
  <2> QED
    BY <2>1, <2>4
<1>11. ReadAt(file, pos, buffer) = s \o t
  BY <1>1, <1>2, <1>3, <1>4, <1>5, <1>6 DEF ReadAt
<1>12. s \o t \in [1 .. w -> S]
  BY <1>9, <1>10, LenProperties
<1>13. ASSUME NEW j \in 1 .. w
       PROVE  (s \o t)[j] = IF pos + j <= n THEN file[pos + j] ELSE buffer[j]
  <2>1. CASE pos + j <= n
    <3>1. j \in 1 .. e - pos /\ j <= Len(s)
      BY <2>1, <1>3, <1>7
    <3> QED
      BY <3>1, <2>1, <1>7, <1>9, <1>10
  <2>2. CASE ~ (pos + j <= n)
    <3>1. ~ (j <= Len(s)) /\ Len(s) \in Nat /\ Len(s) = b
      <4>1. e = n
        BY <2>2, <1>3
      <4>2. Len(s) = b
        BY <4>1, <1>7, <1>4
      <4> QED
        BY <4>2, <2>2, <1>4
    <3>2. j - b \in 1 .. w - b
      BY <3>1
    <3>3. t[j - b] = buffer[b + (j - b)] /\ b + (j - b) = j
      BY <3>2, <1>8
    <3> QED
      BY <3>1, <3>3, <2>2, <1>9, <1>10
  <2> QED
    BY <2>1, <2>2
<1> QED
  BY <1>1, <1>2, <1>11, <1>12, <1>13 DEF Buffer

(* A write puts the buffer where it is told, lengthens the file if it ends   *)
(* before, and changes no other byte.                                        *)
Overwritten(w, file, pos, buffer, new) ==
  /\ Len(file) >= pos + w => Len(new) = Len(file)
  /\ Len(file) < pos + w => Len(new) = pos + w
  /\ \A k \in 1 .. Len(new) : k \in pos + 1 .. pos + w => new[k] = buffer[k - pos]
  /\ \A k \in 1 .. Len(new) : k \notin pos + 1 .. pos + w /\ k <= Len(file) => new[k] = file[k]

LEMMA WriteIs ==
  ASSUME NEW S, 0 \in S, NEW w \in Nat \ {0}, w = width, NEW file \in Seq(S), NEW pos \in Nat,
         NEW buffer \in Buffer(w, S), NEW new, new = WriteAt(file, pos, buffer)
  PROVE  new \in Seq(S) /\ Overwritten(w, file, pos, buffer, new)
<1>2. PICK n \in Nat : n = Len(file)
  OBVIOUS
<1>3. PICK m \in Nat : m = Max({n, pos + w}) /\ m = IF n >= pos + w THEN n ELSE pos + w
  BY <1>2, MaxTwo
<1> DEFINE at(k) == IF k \in pos + 1 .. pos + w THEN buffer[k - pos]
                    ELSE IF k <= n THEN file[k] ELSE 0
<1>4. new = [k \in 1 .. m |-> at(k)]
  BY <1>2, <1>3 DEF WriteAt
<1>6. ASSUME NEW k \in 1 .. m
      PROVE  at(k) \in S
  <2>1. k \in pos + 1 .. pos + w => k - pos \in 1 .. w
    OBVIOUS
  <2>2. k <= n => file[k] \in S
    BY <1>2, ElementOfSeq
  <2> QED
    BY <2>1, <2>2 DEF Buffer
<1>7. new \in [1 .. m -> S]
  BY <1>4, <1>6
<1>8. new \in Seq(S) /\ Len(new) = m
  BY <1>7
<1> QED
  BY <1>2, <1>3, <1>4, <1>8 DEF Overwritten

-------------------------------------------------------------------------------
(* Type correctness                                                          *)

SortPC == {"outer", "inner", "compare", "swap"}

(* A file that is sorted has numbers in it, so its records can be compared;  *)
(* a name that is used is there.                                             *)
FileTypes ==
  /\ \A n \in DOMAIN files : files[n] \in Seq(Value)
  /\ job.method = "sort" => \A n \in DOMAIN files : files[n] \in Seq(Byte)
  /\ pc = "open" => files = job.files
  /\ pc \in {"generate", "copy"} \cup SortPC => job.name \in DOMAIN files
  /\ pc = "copy" => job.from \in DOMAIN files
  /\ DOMAIN job.files \subseteq DOMAIN files

BufferTypes ==
  /\ first \in Buffer(width, Value) /\ second \in Buffer(width, Byte)
  /\ pc \in SortPC => first \in Buffer(width, Byte)

\* Where the loops are: inside the inner one, posFirst is posSecond + 1.
LoopTypes ==
  /\ i \in Nat /\ i <= Max({1, job.size}) /\ readPos \in Nat
  /\ posFirst \in 0 .. job.size /\ posSecond \in -1 .. job.size
  /\ pc = "open" => i = 0 /\ readPos = 0
  /\ pc = "generate" => job.method = "generate" /\ i <= job.size
  /\ pc = "copy" => job.method = "copy" /\ i <= job.size
  /\ pc \in SortPC => job.method = "sort" /\ i > 0
  /\ pc \in {"inner", "compare", "swap"} =>
       i < job.size /\ posFirst = posSecond + 1 /\ posFirst <= i
  /\ pc \in {"compare", "swap"} => posSecond >= 0

Control ==
  /\ job \in Job
  /\ pc \in {"open", "generate", "copy", "done"} \cup SortPC

TypeInv == Control /\ FileTypes /\ BufferTypes /\ LoopTypes

\* What the assumption says of the call that is looked at.
LEMMA JobIs ==
  ASSUME job \in Job
  PROVE  /\ width \in Nat \ {0} /\ job.size \in Nat
         /\ job.method \in {"generate", "copy", "sort"} /\ job.sys \in BOOLEAN
         /\ \A n \in DOMAIN job.files : job.files[n] \in Seq(Byte)
  BY RecordsAssumption DEF width

\* Bytes are bytes or undefined ones, and 0 is one.
LEMMA ByteIs ==
  /\ 0 \in Byte /\ 0 \in Value /\ Byte \subseteq Value /\ Byte \subseteq Nat
  /\ \A w : Buffer(w, Byte) \subseteq Buffer(w, Value)
  /\ Seq(Byte) \subseteq Seq(Value)
<1>1. 0 \in Byte /\ 0 \in Value /\ Byte \subseteq Value /\ Byte \subseteq Nat
  BY RecordsAssumption DEF Value
<1>2. \A w : Buffer(w, Byte) \subseteq Buffer(w, Value)
  BY <1>1 DEF Buffer
<1>3. \A S, T : S \subseteq T => Seq(S) \subseteq Seq(T)
  OBVIOUS
<1>4. Seq(Byte) \subseteq Seq(Value)
  BY <1>1, <1>3
<1> QED
  BY <1>1, <1>2, <1>4

\* A write changes one file, and no file is made or lost.
LEMMA PutIs ==
  ASSUME NEW S, 0 \in S, width \in Nat \ {0}, job.name \in DOMAIN files,
         \A n \in DOMAIN files : files[n] \in Seq(S),
         NEW pos \in Nat, NEW buffer \in Buffer(width, S), Put(pos, buffer)
  PROVE  /\ DOMAIN files' = DOMAIN files
         /\ \A n \in DOMAIN files : files'[n] \in Seq(S)
         /\ files'[job.name] = WriteAt(files[job.name], pos, buffer)
         /\ \A n \in DOMAIN files : n # job.name => files'[n] = files[n]
<1>1. PICK new : new = WriteAt(files[job.name], pos, buffer)
  OBVIOUS
<1>2. new \in Seq(S)
  <2>1. PICK w \in Nat \ {0} : w = width /\ buffer \in Buffer(w, S)
    OBVIOUS
  <2> QED
    BY <1>1, <2>1, WriteIs
<1>3. files' = [files EXCEPT ![job.name] = new]
  BY <1>1 DEF Put, File
<1> QED
  BY <1>1, <1>2, <1>3

\* Opening a file for writing may make or empty that file and no other.
LEMMA OpenedIs ==
  ASSUME NEW S, \A n \in DOMAIN files : files[n] \in Seq(S), NEW name
  PROVE  /\ DOMAIN Opened(name) = DOMAIN files \cup {name}
         /\ \A n \in DOMAIN Opened(name) : Opened(name)[n] \in Seq(S)
         /\ \A n \in DOMAIN files : n # name \/ job.sys => Opened(name)[n] = files[n]
         /\ name \notin DOMAIN files \/ ~job.sys => Opened(name)[name] = <<>>
<1>1. \A n \in DOMAIN files \cup {name} :
        Opened(name)[n] = IF n \notin DOMAIN files \/ (n = name /\ ~job.sys) THEN <<>> ELSE files[n]
  BY DEF Opened
<1>2. <<>> \in Seq(S)
  OBVIOUS
<1>3. DOMAIN Opened(name) = DOMAIN files \cup {name}
  BY DEF Opened
<1>4. ASSUME NEW n \in DOMAIN Opened(name)
      PROVE  Opened(name)[n] \in Seq(S)
  BY <1>1, <1>2, <1>3
<1> QED
  BY <1>1, <1>3, <1>4

LEMMA InitType ==
  ASSUME Init
  PROVE  TypeInv
<1>1. Control
  BY DEF Init, Control
<1>2. /\ width \in Nat \ {0} /\ job.size \in Nat
      /\ \A n \in DOMAIN job.files : job.files[n] \in Seq(Byte)
  BY JobIs DEF Init
<1>3. FileTypes
  BY <1>2, ByteIs DEF Init, FileTypes, SortPC
<1>4. BufferTypes
  BY <1>2, ByteIs DEF Init, BufferTypes, SortPC, Filled, Buffer, Value
<1>5. LoopTypes
  <2>1. PICK m : m = Max({1, job.size}) /\ m \in Nat
    BY <1>2, MaxTwo
  <2> QED
    BY <1>2, <2>1 DEF Init, LoopTypes, SortPC
<1> QED
  BY <1>1, <1>3, <1>4, <1>5 DEF TypeInv

LEMMA NextType ==
  ASSUME TypeInv, [Next]_vars
  PROVE  TypeInv'
<1> USE DEF TypeInv
<1>j. /\ width \in Nat \ {0} /\ job.size \in Nat
      /\ job.method \in {"generate", "copy", "sort"}
      /\ \A n \in DOMAIN job.files : job.files[n] \in Seq(Byte)
  BY JobIs DEF Control
<1>m. PICK m \in Nat : m = Max({1, job.size}) /\ m >= 1 /\ m >= job.size
  BY <1>j, MaxTwo
<1>1. CASE GenerateOpen
  <2>1. Control'
    BY <1>1 DEF GenerateOpen, Control, SortPC
  <2>2. /\ DOMAIN files' = DOMAIN files \cup {job.name}
        /\ \A n \in DOMAIN files' : files'[n] \in Seq(Value)
    BY <1>1, OpenedIs DEF GenerateOpen, FileTypes
  <2>3. FileTypes'
    BY <1>1, <2>2 DEF GenerateOpen, FileTypes, SortPC
  <2>4. BufferTypes'
    BY <1>1 DEF GenerateOpen, BufferTypes, SortPC, sorting, width
  <2>5. LoopTypes'
    BY <1>1, <1>j, <1>m DEF GenerateOpen, LoopTypes, SortPC, sorting
  <2> QED
    BY <2>1, <2>3, <2>4, <2>5
<1>2. CASE GenerateRecord
  <2>1. Control'
    BY <1>2 DEF GenerateRecord, Control, SortPC
  <2>2. PICK record \in [1 .. width -> Byte \ {Max(Byte)}] : Put(i * width, record)
    BY <1>2 DEF GenerateRecord
  <2>3. record \in Buffer(width, Value) /\ i * width \in Nat /\ job.name \in DOMAIN files
    BY <1>2, <1>j DEF GenerateRecord, Buffer, Value, LoopTypes, FileTypes
  <2>4. /\ DOMAIN files' = DOMAIN files
        /\ \A n \in DOMAIN files : files'[n] \in Seq(Value)
    BY <1>j, <2>2, <2>3, PutIs, ByteIs DEF FileTypes
  <2>5. job' = job /\ pc = "generate" /\ pc' = pc /\ job.method = "generate"
    BY <1>2 DEF GenerateRecord, LoopTypes
  <2>6. FileTypes'
    BY <2>3, <2>4, <2>5 DEF FileTypes, SortPC
  <2>7. BufferTypes'
    BY <1>2 DEF GenerateRecord, BufferTypes, SortPC, sorting, width
  <2>8. LoopTypes'
    BY <1>2, <1>j, <1>m DEF GenerateRecord, LoopTypes, SortPC, sorting
  <2> QED
    BY <2>1, <2>6, <2>7, <2>8
<1>3. CASE NoSource
  <2>1. Control' /\ FileTypes' /\ BufferTypes'
    BY <1>3 DEF NoSource, Control, FileTypes, BufferTypes, SortPC, sorting, width
  <2>2. LoopTypes'
    BY <1>3, <1>m DEF NoSource, LoopTypes, SortPC, sorting
  <2> QED
    BY <2>1, <2>2
<1>4. CASE CopyOpen
  <2>1. Control'
    BY <1>4 DEF CopyOpen, Control, SortPC
  <2>2. /\ DOMAIN files' = DOMAIN files \cup {job.name}
        /\ \A n \in DOMAIN files' : files'[n] \in Seq(Value)
    BY <1>4, OpenedIs DEF CopyOpen, FileTypes
  <2>3. FileTypes'
    BY <1>4, <2>2 DEF CopyOpen, FileTypes, SortPC
  <2>4. BufferTypes'
    BY <1>4 DEF CopyOpen, BufferTypes, SortPC, sorting, width
  <2>5. LoopTypes'
    BY <1>4, <1>j, <1>m DEF CopyOpen, LoopTypes, SortPC, sorting
  <2> QED
    BY <2>1, <2>3, <2>4, <2>5
<1>5. CASE CopyRecord
  <2>1. Control'
    BY <1>5 DEF CopyRecord, Control, SortPC
  <2>2. /\ job.name \in DOMAIN files /\ job.from \in DOMAIN files
        /\ files[job.from] \in Seq(Value) /\ first \in Buffer(width, Value)
        /\ i * width \in Nat /\ readPos \in Nat
    BY <1>5, <1>j DEF CopyRecord, LoopTypes, FileTypes, BufferTypes
  <2>3. first' \in Buffer(width, Value)
    BY <1>5, <1>j, <2>2, ReadIs DEF CopyRecord
  <2>4. PICK b : b = first'
    OBVIOUS
  <2>5. Put(i * width, b)
    BY <1>5, <2>4 DEF CopyRecord
  <2>6. /\ DOMAIN files' = DOMAIN files
        /\ \A n \in DOMAIN files : files'[n] \in Seq(Value)
    BY <1>j, <2>2, <2>3, <2>4, <2>5, PutIs, ByteIs DEF FileTypes
  <2>7. job' = job /\ pc = "copy" /\ pc' = pc /\ job.method = "copy" /\ width' = width
    BY <1>5 DEF CopyRecord, LoopTypes, width
  <2>8. FileTypes'
    BY <2>2, <2>6, <2>7 DEF FileTypes, SortPC
  <2>9. BufferTypes'
    BY <2>3, <2>7, <1>5 DEF CopyRecord, BufferTypes, SortPC, sorting
  <2>10. readPos' \in Nat
    <3>1. PICK a \in Nat : a = readPos + width
      BY <2>2, <1>j
    <3>2. PICK c \in Nat : c = Len(files[job.from])
      BY <2>2
    <3>3. readPos' = Min({a, c})
      BY <1>5, <3>1, <3>2 DEF CopyRecord
    <3> QED
      BY <3>1, <3>2, <3>3, MinTwo
  <2>11. LoopTypes'
    BY <1>5, <1>j, <1>m, <2>10 DEF CopyRecord, LoopTypes, SortPC, sorting
  <2> QED
    BY <2>1, <2>8, <2>9, <2>11
<1>6. CASE LoopEnds
  <2>1. Control' /\ FileTypes' /\ BufferTypes'
    BY <1>6 DEF LoopEnds, Control, FileTypes, BufferTypes, SortPC, sorting, width
  <2>2. LoopTypes'
    BY <1>6, <1>m DEF LoopEnds, LoopTypes, SortPC, sorting
  <2> QED
    BY <2>1, <2>2
<1>7. CASE SortOpen
  <2>1. Control' /\ FileTypes'
    BY <1>7 DEF SortOpen, Control, FileTypes, SortPC, sorting
  <2>2. BufferTypes'
    BY <1>7, <1>j, ByteIs DEF SortOpen, BufferTypes, SortPC, sorting, width, Filled, Buffer
  <2>3. LoopTypes'
    BY <1>7, <1>m DEF SortOpen, LoopTypes, SortPC, sorting
  <2> QED
    BY <2>1, <2>2, <2>3
<1>8. CASE ReadFirst
  <2>1. Control' /\ FileTypes'
    BY <1>8 DEF ReadFirst, Control, FileTypes, SortPC
  <2>2. /\ files[job.name] \in Seq(Byte) /\ first \in Buffer(width, Byte) /\ i * width \in Nat
    BY <1>8, <1>j DEF ReadFirst, LoopTypes, FileTypes, BufferTypes, SortPC
  <2>3. first' \in Buffer(width, Byte)
    BY <1>8, <1>j, <2>2, ReadIs DEF ReadFirst, File
  <2>4. BufferTypes'
    BY <1>8, <2>3, ByteIs DEF ReadFirst, BufferTypes, SortPC, width
  <2>5. LoopTypes'
    BY <1>8, <1>j, <1>m DEF ReadFirst, LoopTypes, SortPC
  <2> QED
    BY <2>1, <2>4, <2>5
<1>9. CASE ReadSecond
  <2>1. Control' /\ FileTypes'
    BY <1>9 DEF ReadSecond, Control, FileTypes, SortPC
  <2>2. /\ files[job.name] \in Seq(Byte) /\ second \in Buffer(width, Byte)
        /\ posSecond \in Nat /\ posSecond * width \in Nat
    <3>1. posSecond \in Nat
      BY <1>9, <1>j DEF ReadSecond, LoopTypes
    <3> QED
      BY <3>1, <1>9, <1>j DEF ReadSecond, LoopTypes, FileTypes, BufferTypes, SortPC
  <2>3. second' \in Buffer(width, Byte)
    BY <1>9, <1>j, <2>2, ReadIs DEF ReadSecond, File
  <2>4. BufferTypes'
    BY <1>9, <2>3, ByteIs DEF ReadSecond, BufferTypes, SortPC, width
  <2>5. LoopTypes'
    BY <1>9, <1>j, <1>m DEF ReadSecond, LoopTypes, SortPC
  <2> QED
    BY <2>1, <2>4, <2>5
<1>10. CASE WriteFirst
  <2>1. Control' /\ BufferTypes'
    BY <1>10 DEF WriteFirst, Control, BufferTypes, SortPC, sorting, width
  <2>2. /\ \A n \in DOMAIN files : files[n] \in Seq(Byte) /\ first \in Buffer(width, Byte)
        /\ job.name \in DOMAIN files /\ posSecond \in Nat
    BY <1>10, <1>j DEF WriteFirst, LoopTypes, FileTypes, BufferTypes, SortPC
  <2>3. posSecond * width \in Nat
    BY <2>2, <1>j
  <2>4. /\ DOMAIN files' = DOMAIN files
        /\ \A n \in DOMAIN files : files'[n] \in Seq(Byte)
    BY <1>10, <1>j, <2>2, <2>3, PutIs, ByteIs DEF WriteFirst
  <2>5. FileTypes'
    BY <1>10, <2>2, <2>4, ByteIs DEF WriteFirst, FileTypes, SortPC
  <2>6. LoopTypes'
    BY <1>10, <1>m DEF WriteFirst, LoopTypes, SortPC, sorting
  <2> QED
    BY <2>1, <2>5, <2>6
<1>11. CASE WriteSecond
  <2>1. Control' /\ BufferTypes'
    BY <1>11 DEF WriteSecond, Control, BufferTypes, SortPC, width
  <2>2. /\ \A n \in DOMAIN files : files[n] \in Seq(Byte) /\ second \in Buffer(width, Byte)
        /\ job.name \in DOMAIN files /\ posFirst \in Nat
    BY <1>11, <1>j DEF WriteSecond, LoopTypes, FileTypes, BufferTypes, SortPC
  <2>3. posFirst * width \in Nat
    BY <2>2, <1>j
  <2>4. /\ DOMAIN files' = DOMAIN files
        /\ \A n \in DOMAIN files : files'[n] \in Seq(Byte)
    BY <1>11, <1>j, <2>2, <2>3, PutIs, ByteIs DEF WriteSecond
  <2>5. FileTypes'
    BY <1>11, <2>2, <2>4, ByteIs DEF WriteSecond, FileTypes, SortPC
  <2>6. LoopTypes'
    BY <1>11, <1>j, <1>m DEF WriteSecond, LoopTypes, SortPC
  <2> QED
    BY <2>1, <2>5, <2>6
<1>12. CASE InnerEnds
  <2>1. Control' /\ FileTypes' /\ BufferTypes'
    BY <1>12 DEF InnerEnds, Control, FileTypes, BufferTypes, SortPC, sorting, width
  <2>2. LoopTypes'
    BY <1>12, <1>j, <1>m DEF InnerEnds, LoopTypes, SortPC, sorting
  <2> QED
    BY <2>1, <2>2
<1>13. CASE UNCHANGED vars
  BY <1>13 DEF vars, Control, FileTypes, BufferTypes, LoopTypes, width
<1> QED
  BY <1>1, <1>2, <1>3, <1>4, <1>5, <1>6, <1>7, <1>8, <1>9, <1>10, <1>11, <1>12, <1>13 DEF Next

LEMMA TypesHold == Spec => []TypeInv
<1>1. Init => TypeInv
  BY InitType
<1>2. TypeInv /\ [Next]_vars => TypeInv'
  BY NextType
<1> QED
  BY <1>1, <1>2, PTL DEF Spec

LEMMA TypeInvGivesTypeOK ==
  ASSUME TypeInv
  PROVE  TypeOK
<1>j. width \in Nat \ {0} /\ job.size \in Nat
  BY JobIs DEF TypeInv, Control
<1>1. PICK m \in Nat : m = Max({1, job.size})
  BY <1>j, MaxTwo
<1>2. i \in 0 .. Max({1, job.size})
  BY <1>1 DEF TypeInv, LoopTypes
<1>3. Len(first) = width /\ Len(second) = width
  <2>1. \A buffer \in Buffer(width, Value) : Len(buffer) = width
    BY <1>j, BufferIsSeq
  <2> QED
    BY <2>1, ByteIs DEF TypeInv, BufferTypes
<1>4. ASSUME NEW n \in DOMAIN files
      PROVE  Range(files[n]) \subseteq Byte \cup {Undefined}
  <2>1. files[n] \in Seq(Value)
    BY DEF TypeInv, FileTypes
  <2>2. \A x \in DOMAIN files[n] : files[n][x] \in Value
    BY <2>1
  <2> QED
    BY <2>2 DEF Range, Value
<1> QED
  BY <1>2, <1>3, <1>4 DEF TypeOK, TypeInv, Control, SortPC, LoopTypes

\* Type correctness: whatever is read, written or sorted, the files hold
\* bytes, the buffers keep their length and the loops stay in their bounds.
THEOREM TypeOKHolds == Spec => []TypeOK
  BY TypesHold, TypeInvGivesTypeOK, PTL

-------------------------------------------------------------------------------
(* The source of a copy                                                      *)

(* A copy onto itself writes back what it has read: it is never ahead of, or *)
(* behind, the place it reads.                                               *)
Spared == job.from # job.name \/ (job.sys /\ Len(job.files[job.from]) % width = 0)
SourceInv ==
  job.method = "copy" /\ job.from \in DOMAIN job.files /\ Spared =>
    /\ files[job.from] = job.files[job.from]
    /\ pc = "copy" /\ job.from = job.name => readPos = i * width

\* Two sequences with the same bytes are the same.
LEMMA SameBytes ==
  ASSUME NEW S, NEW f \in Seq(S), NEW g \in Seq(S), Len(f) = Len(g),
         \A k \in 1 .. Len(f) : f[k] = g[k]
  PROVE  f = g
  OBVIOUS

\* In a file of whole records a record begins at m * w, or nothing does.
LEMMA RecordAt ==
  ASSUME NEW w \in Nat \ {0}, NEW n \in Nat, n % w = 0, NEW m \in Nat, (m * w) < n
  PROVE  (m * w) \in Nat /\ (m * w) + w <= n /\ (m + 1) * w = (m * w) + w
<1>1. PICK q \in Nat : q = n \div w /\ q * w = n
  BY WholeBlocks, BlocksIn
<1>2. m < q
  <2>1. CASE q < m
    BY <2>1, <1>1, BlockAfter
  <2>2. CASE q = m
    BY <2>2, <1>1
  <2> QED
    BY <2>1, <2>2, <1>1
<1>3. (m * w) + w <= q * w
  BY <1>1, <1>2, BlockAfter
<1>4. (m * w) \in Nat
  OBVIOUS
<1>5. (m + 1) * w = (m * w) + w
  OBVIOUS
<1> QED
  BY <1>1, <1>3, <1>4, <1>5

LEMMA NextSource ==
  ASSUME TypeInv, SourceInv, [Next]_vars
  PROVE  SourceInv'
<1> SUFFICES ASSUME job'.method = "copy", job'.from \in DOMAIN job'.files, Spared'
             PROVE  /\ files'[job'.from] = job'.files[job'.from]
                    /\ pc' = "copy" /\ job'.from = job'.name => readPos' = i' * width'
  BY DEF SourceInv
<1>0. job' = job /\ width' = width
  BY DEF Next, vars, GenerateOpen, GenerateRecord, NoSource, CopyOpen, CopyRecord, LoopEnds,
         SortOpen, ReadFirst, ReadSecond, WriteFirst, WriteSecond, InnerEnds, width
<1>j. /\ width \in Nat \ {0} /\ job.size \in Nat
      /\ \A n \in DOMAIN job.files : job.files[n] \in Seq(Byte)
  BY JobIs DEF TypeInv, Control
<1>s. /\ Spared /\ files[job.from] = job.files[job.from]
      /\ pc = "copy" /\ job.from = job.name => readPos = i * width
      /\ job.method = "copy" /\ job.from \in DOMAIN job.files
  BY <1>0 DEF SourceInv, Spared
<1>f. /\ \A n \in DOMAIN files : files[n] \in Seq(Value)
      /\ job.from \in DOMAIN files /\ files[job.from] \in Seq(Value)
  BY <1>s DEF TypeInv, FileTypes
<1>1. CASE CopyOpen
  <2>1. files'[job.from] = files[job.from]
    <3>1. job.from # job.name \/ job.sys
      BY <1>s DEF Spared
    <3> QED
      BY <1>1, <1>f, <3>1, OpenedIs DEF CopyOpen
  <2>2. readPos' = i' * width'
    <3>1. i = 0 /\ readPos = 0 /\ i' = i /\ readPos' = readPos
      BY <1>1 DEF CopyOpen, TypeInv, LoopTypes
    <3>2. 0 * width = 0
      BY <1>j
    <3> QED
      BY <3>1, <3>2, <1>0
  <2> QED
    BY <1>0, <1>s, <2>1, <2>2
<1>2. CASE CopyRecord
  <2>1. /\ job.name \in DOMAIN files /\ first \in Buffer(width, Value)
        /\ i \in Nat /\ readPos \in Nat
    BY <1>2 DEF CopyRecord, TypeInv, LoopTypes, FileTypes, BufferTypes
  <2>2. PICK b : b = first' /\ b = ReadAt(files[job.from], readPos, first) /\ Put(i * width, b)
    BY <1>2 DEF CopyRecord
  <2>3. /\ b \in Buffer(width, Value)
        /\ \A j \in 1 .. width :
             b[j] = IF readPos + j <= Len(files[job.from]) THEN files[job.from][readPos + j] ELSE first[j]
    BY <2>1, <2>2, <1>f, <1>j, ReadIs
  <2>4. /\ files'[job.name] = WriteAt(files[job.name], i * width, b)
        /\ \A n \in DOMAIN files : n # job.name => files'[n] = files[n]
    <3>1. i * width \in Nat
      BY <2>1, <1>j
    <3> QED
      BY <3>1, <2>1, <2>2, <2>3, <1>f, <1>j, ByteIs, PutIs
  <2>5. CASE job.from # job.name
    BY <2>4, <2>5, <1>0, <1>s, <1>f
  <2>6. CASE job.from = job.name
    <3>1. PICK w \in Nat \ {0}, f \in Seq(Value) : w = width /\ f = files[job.from]
      BY <1>j, <1>f
    <3>2. PICK p \in Nat : p = i * w
      BY <3>1, <2>1
    <3>3. readPos = p /\ p < Len(f) /\ Len(f) % w = 0 /\ Len(f) \in Nat
      <4>1. Len(files[job.from]) % width = 0
        BY <1>s, <2>6 DEF Spared
      <4>2. readPos = i * width /\ readPos < Len(files[job.from])
        BY <1>s, <2>6, <1>2 DEF CopyRecord
      <4>3. Len(f) \in Nat
        BY <3>1
      <4> QED
        BY <4>1, <4>2, <4>3, <3>1, <3>2
    <3>4. p + w <= Len(f) /\ (i + 1) * w = p + w
      BY <3>2, <3>3, <2>1, RecordAt
    <3>5. PICK g : g = WriteAt(f, p, b)
      OBVIOUS
    <3>6. /\ g \in Seq(Value) /\ Len(g) = Len(f)
          /\ \A k \in 1 .. Len(g) : k \in p + 1 .. p + w => g[k] = b[k - p]
          /\ \A k \in 1 .. Len(g) : k \notin p + 1 .. p + w /\ k <= Len(f) => g[k] = f[k]
      <4>1. 0 \in Value /\ w \in Nat \ {0} /\ b \in Buffer(w, Value) /\ w = width
        BY ByteIs, <1>j, <2>3, <3>1
      <4>2. Len(f) >= p + w
        BY <3>3, <3>4
      <4>3. g \in Seq(Value) /\ Overwritten(w, f, p, b, g)
        BY <4>1, <3>1, <3>2, <3>5, WriteIs
      <4> QED
        BY <4>2, <4>3 DEF Overwritten
    <3>7. ASSUME NEW k \in 1 .. Len(g)
          PROVE  g[k] = f[k]
      <4>1. CASE k \in p + 1 .. p + w
        <5>1. k - p \in 1 .. w /\ p + (k - p) = k
          BY <4>1
        <5>2. b[k - p] = IF p + (k - p) <= Len(f) THEN f[p + (k - p)] ELSE first[k - p]
          BY <5>1, <2>3, <3>1, <3>3
        <5> QED
          BY <4>1, <5>1, <5>2, <3>4, <3>6, <3>3
      <4>2. CASE ~ (k \in p + 1 .. p + w)
        BY <4>2, <3>6
      <4> QED
        BY <4>1, <4>2
    <3>8. g = f
      BY <3>1, <3>6, <3>7, SameBytes
    <3>9. files'[job.from] = files[job.from]
      BY <2>4, <2>6, <3>1, <3>2, <3>5, <3>8
    <3>10. readPos' = i' * width'
      <4>1. readPos' = Min({p + w, Len(f)}) /\ i' = i + 1
        BY <1>2, <3>1, <3>3 DEF CopyRecord
      <4>2. Min({p + w, Len(f)}) = p + w
        BY <3>3, <3>4, MinTwo
      <4> QED
        BY <4>1, <4>2, <3>4, <3>1, <1>0
    <3> QED
      BY <3>9, <3>10, <1>0, <1>s
  <2> QED
    BY <2>5, <2>6
<1>3. CASE GenerateOpen \/ GenerateRecord \/ SortOpen
  BY <1>3, <1>s DEF GenerateOpen, GenerateRecord, SortOpen, TypeInv, LoopTypes
<1>4. CASE NoSource \/ LoopEnds
  BY <1>4, <1>s, <1>0 DEF NoSource, LoopEnds
<1>5. CASE ReadFirst \/ ReadSecond \/ WriteFirst \/ WriteSecond \/ InnerEnds
  BY <1>5, <1>s DEF ReadFirst, ReadSecond, WriteFirst, WriteSecond, InnerEnds, TypeInv, LoopTypes, SortPC
<1>6. CASE UNCHANGED vars
  BY <1>6, <1>0, <1>s DEF vars
<1> QED
  BY <1>1, <1>2, <1>3, <1>4, <1>5, <1>6 DEF Next

LEMMA SourceHolds == Spec => []SourceInv
<1>1. Init => SourceInv
  BY DEF Init, SourceInv
<1>2. TypeInv /\ SourceInv /\ [Next]_vars => SourceInv'
  BY NextSource
<1> QED
  BY <1>1, <1>2, TypesHold, PTL DEF Spec

\* copy does not change its source, unless it is also its target and is
\* emptied or has a short last record.
THEOREM SourceSurvivesHolds == Spec => []SourceSurvives
<1>1. SourceInv => SourceSurvives
  BY DEF SourceInv, SourceSurvives, Spared
<1>2. TypeInv => job.sys \in BOOLEAN
  BY JobIs DEF TypeInv, Control
<1> QED
  BY <1>1, SourceHolds, PTL

-------------------------------------------------------------------------------
(* Records                                                                   *)

\* The k-th record, counted from 1, of a file with records of w bytes.
Rec(w, file, k) == [j \in 1 .. w |-> file[(k - 1) * w + j]]

\* A record begins where the one before it ends.
LEMMA RecordBounds ==
  ASSUME NEW w \in Nat \ {0}, NEW k \in Nat \ {0}
  PROVE  (k - 1) * w \in Nat /\ k * w \in Nat /\ ((k - 1) * w) + w = k * w
<1>1. PICK m \in Nat : m = k - 1 /\ k = m + 1
  OBVIOUS
<1>2. (m + 1) * w = (m * w) + w
  OBVIOUS
<1>3. m * w \in Nat
  OBVIOUS
<1> QED
  BY <1>1, <1>2, <1>3

LEMMA NextPlace ==
  ASSUME NEW w \in Nat \ {0}, NEW n \in Nat
  PROVE  n * w \in Nat /\ (n + 1) * w \in Nat /\ (n + 1) * w = (n * w) + w
<1>1. n * w \in Nat /\ (n + 1) * w = (n * w) + w
  OBVIOUS
<1> QED
  BY <1>1

\* A record that is there is read as a whole.
LEMMA ReadRecord ==
  ASSUME NEW S, NEW w \in Nat \ {0}, w = width, NEW file \in Seq(S),
         NEW k \in Nat \ {0}, k * w <= Len(file), NEW buffer \in Buffer(w, S),
         NEW pos, pos = (k - 1) * w
  PROVE  ReadAt(file, pos, buffer) = Rec(w, file, k)
<1>1. pos \in Nat /\ pos + w <= Len(file) /\ Len(file) \in Nat
  BY RecordBounds
<1>2. PICK b : b = ReadAt(file, pos, buffer)
  OBVIOUS
<1>3. /\ b \in Buffer(width, S)
      /\ \A j \in 1 .. width :
           b[j] = IF pos + j <= Len(file) THEN file[pos + j] ELSE buffer[j]
  <2>1. width \in Nat \ {0} /\ pos \in Nat /\ file \in Seq(S) /\ buffer \in Buffer(width, S)
    BY <1>1
  <2>2. ReadAt(file, pos, buffer) \in Buffer(width, S)
    BY ONLY <2>1, ReadIs
  <2>3. \A j \in 1 .. width :
          ReadAt(file, pos, buffer)[j] = IF pos + j <= Len(file) THEN file[pos + j] ELSE buffer[j]
    BY ONLY <2>1, ReadIs
  <2> QED
    BY ONLY <2>2, <2>3, <1>2
<1>4. b = [j \in 1 .. w |-> b[j]]
  BY <1>3 DEF Buffer
<1>5. ASSUME NEW j \in 1 .. w
      PROVE  b[j] = file[pos + j]
  <2>1. PICK l \in Nat : l = Len(file)
    BY <1>1
  <2>2. j \in Nat /\ j <= w /\ pos + w <= l
    BY <1>1, <2>1
  <2>3. pos + j <= l
    BY ONLY <2>2, <1>1, w \in Nat, l \in Nat
  <2> QED
    BY <2>1, <2>3, <1>3
<1> QED
  BY <1>2, <1>4, <1>5 DEF Rec

(* A record is written over; the others, and the bytes behind it, are as     *)
(* they were.                                                                *)
Replaced(w, file, k, buffer, new) ==
  /\ Len(file) >= k * w => Len(new) = Len(file)
  /\ Len(file) < k * w => Len(new) = k * w
  /\ Rec(w, new, k) = buffer
  /\ \A m \in Nat \ {0} : m # k /\ m * w <= Len(file) => Rec(w, new, m) = Rec(w, file, m)
  /\ \A x \in k * w + 1 .. Len(file) : new[x] = file[x]

LEMMA WriteRecord ==
  ASSUME NEW S, 0 \in S, NEW w \in Nat \ {0}, w = width, NEW file \in Seq(S),
         NEW k \in Nat \ {0}, NEW buffer \in Buffer(w, S),
         NEW pos, pos = (k - 1) * w, NEW new, new = WriteAt(file, pos, buffer)
  PROVE  new \in Seq(S) /\ Replaced(w, file, k, buffer, new)
<1>1. PICK e \in Nat : e = k * w /\ pos \in Nat /\ pos + w = e
  BY RecordBounds
<1>2. new \in Seq(S) /\ Overwritten(w, file, pos, buffer, new)
  BY <1>1, WriteIs
<1>3. PICK n \in Nat : n = Len(file)
  OBVIOUS
<1>4. PICK l \in Nat : l = Len(new) /\ l = IF n >= e THEN n ELSE e
  BY <1>1, <1>2, <1>3 DEF Overwritten
<1>5. /\ \A x \in 1 .. l : x \in pos + 1 .. e => new[x] = buffer[x - pos]
      /\ \A x \in 1 .. l : x \notin pos + 1 .. e /\ x <= n => new[x] = file[x]
  BY <1>1, <1>2, <1>3, <1>4 DEF Overwritten
<1>6. Rec(w, new, k) = buffer
  <2>1. ASSUME NEW j \in 1 .. w
        PROVE  new[pos + j] = buffer[j]
    <3>1. pos + j \in 1 .. l /\ pos + j \in pos + 1 .. e /\ (pos + j) - pos = j
      BY <1>1, <1>4
    <3> QED
      BY <3>1, <1>5
  <2>2. buffer = [j \in 1 .. w |-> buffer[j]]
    BY DEF Buffer
  <2>3. Rec(w, new, k) = [j \in 1 .. w |-> new[pos + j]]
    BY DEF Rec
  <2> QED
    BY <2>1, <2>2, <2>3
<1>7. ASSUME NEW m \in Nat \ {0}, m # k, m * w <= n
      PROVE  Rec(w, new, m) = Rec(w, file, m)
  <2>1. PICK o \in Nat : o = (m - 1) * w /\ o + w = m * w
    BY RecordBounds
  <2>2. o + w <= pos \/ e <= o
    <3>1. CASE m < k
      <4>1. ((m - 1) * w) + w <= (k - 1) * w
        BY <3>1, BlockAfter, m - 1 \in Int, k - 1 \in Int, m - 1 < k - 1
      <4> QED
        BY <4>1, <2>1
    <3>2. CASE k < m
      <4>1. ((k - 1) * w) + w <= (m - 1) * w
        BY <3>2, BlockAfter, m - 1 \in Int, k - 1 \in Int, k - 1 < m - 1
      <4> QED
        BY <4>1, <2>1, <1>1
    <3> QED
      BY <1>7, <3>1, <3>2
  <2>3. ASSUME NEW j \in 1 .. w
        PROVE  new[o + j] = file[o + j]
    <3>1. o + j \in 1 .. l /\ o + j \notin pos + 1 .. e /\ o + j <= n
      BY <1>1, <1>3, <1>4, <1>7, <2>1, <2>2
    <3> QED
      BY <3>1, <1>5
  <2> QED
    BY <2>1, <2>3 DEF Rec
<1>8. ASSUME NEW x \in e + 1 .. n
      PROVE  new[x] = file[x]
  <2>1. x \in 1 .. l /\ x \notin pos + 1 .. e /\ x <= n
    BY <1>1, <1>3, <1>4
  <2> QED
    BY <2>1, <1>5
<1> QED
  BY <1>1, <1>2, <1>3, <1>4, <1>6, <1>7, <1>8 DEF Replaced

\* RecordsOf lists the records that are there.
LEMMA RecordsOfIs ==
  ASSUME NEW S, NEW w \in Nat \ {0}, w = width, NEW file \in Seq(S)
  PROVE  /\ DOMAIN RecordsOf(file) = 1 .. (Len(file) \div w)
         /\ (Len(file) \div w) \in Nat
         /\ \A k \in 1 .. (Len(file) \div w) : RecordsOf(file)[k] = Rec(w, file, k)
<1>0. PICK l \in Nat : l = Len(file)
  OBVIOUS
<1>1. PICK n \in Nat : n = Len(file) \div w /\ \A k \in Nat : k <= n <=> (k * w) <= Len(file)
  <2>1. (l \div w) \in Nat /\ \A k \in Nat : k <= (l \div w) <=> (k * w) <= l
    BY BlocksIn
  <2> QED
    BY <1>0, <2>1
<1>2. RecordsOf(file) = [k \in 1 .. n |-> SubSeq(file, (k - 1) * w + 1, k * w)]
  BY <1>1 DEF RecordsOf
<1>3. ASSUME NEW k \in 1 .. n
      PROVE  SubSeq(file, (k - 1) * w + 1, k * w) = Rec(w, file, k)
  <2>1. PICK pos \in Nat, e \in Nat : pos = (k - 1) * w /\ e = k * w /\ pos + w = e
    BY RecordBounds
  <2>2. e <= Len(file) /\ Len(file) \in Nat
    BY <1>1, <2>1
  <2>3. PICK s : s = SubSeq(file, pos + 1, e)
    OBVIOUS
  <2>4. /\ s \in Seq(S) /\ Len(s) = w
        /\ \A j \in 1 .. w : s[j] = file[pos + j]
    <3>1. \A x \in pos + 1 .. e : file[x] \in S
      BY <2>2, ElementOfSeq
    <3>2. /\ SubSeq(file, pos + 1, e) \in Seq(S)
          /\ Len(SubSeq(file, pos + 1, e)) = IF pos + 1 <= e THEN e - (pos + 1) + 1 ELSE 0
          /\ \A j \in 1 .. e - (pos + 1) + 1 : SubSeq(file, pos + 1, e)[j] = file[pos + 1 + j - 1]
      BY <3>1, SubSeqProperties, pos + 1 \in Int, e \in Int
    <3>3. e - (pos + 1) + 1 = w /\ pos + 1 <= e
      BY <2>1
    <3> QED
      BY <3>2, <3>3, <2>3
  <2>5. s = [j \in 1 .. w |-> s[j]]
    BY <2>4, LenProperties
  <2> QED
    BY <2>1, <2>3, <2>4, <2>5 DEF Rec
<1> QED
  BY <1>1, <1>2, <1>3

-------------------------------------------------------------------------------
(* The inner loop of sort                                                    *)

(* The buffers hold the records they were read from, if there is such a      *)
(* record; between the two writes first is in the file twice.                *)
BufferInv ==
  /\ pc \in {"inner", "compare"} /\ (posFirst + 1) * width <= Len(File) =>
       first = Rec(width, File, posFirst + 1)
  /\ pc = "compare" /\ (posSecond + 1) * width <= Len(File) =>
       second = Rec(width, File, posSecond + 1)
  /\ pc = "swap" =>
       (posSecond + 1) * width <= Len(File) /\ first = Rec(width, File, posSecond + 1)

\* The steps of sort change a call neither in its arguments nor in its width.
LEMMA SameJob ==
  ASSUME [Next]_vars
  PROVE  job' = job /\ width' = width
  BY DEF Next, vars, GenerateOpen, GenerateRecord, NoSource, CopyOpen, CopyRecord, LoopEnds,
         SortOpen, ReadFirst, ReadSecond, WriteFirst, WriteSecond, InnerEnds, width

\* What a step of the inner loop can rely on.
LEMMA LoopFacts ==
  ASSUME TypeInv, pc \in SortPC
  PROVE  /\ width \in Nat \ {0} /\ 0 \in Byte
         /\ job.name \in DOMAIN files /\ File \in Seq(Byte)
         /\ first \in Buffer(width, Byte) /\ second \in Buffer(width, Byte)
         /\ i \in Nat /\ posFirst \in Nat /\ posSecond \in Int /\ job.size \in Nat
         /\ pc \in {"compare", "swap"} => posSecond \in Nat /\ posFirst = posSecond + 1
         /\ pc \in {"inner", "compare", "swap"} => i < job.size /\ posFirst = posSecond + 1 /\ posFirst <= i
<1>1. width \in Nat \ {0} /\ job.size \in Nat
  BY JobIs DEF TypeInv, Control
<1>2. posFirst \in Nat /\ posSecond \in Int
  BY <1>1 DEF TypeInv, LoopTypes
<1>3. job.name \in DOMAIN files /\ File \in Seq(Byte)
  BY DEF TypeInv, FileTypes, LoopTypes, File
<1> QED
  BY <1>1, <1>2, <1>3, ByteIs DEF TypeInv, BufferTypes, LoopTypes

LEMMA NextBuffer ==
  ASSUME TypeInv, BufferInv, [Next]_vars
  PROVE  BufferInv'
<1>0. job' = job /\ width' = width
  BY SameJob
<1>1. CASE ReadFirst
  <2>1. /\ width \in Nat \ {0} /\ File \in Seq(Byte) /\ first \in Buffer(width, Byte) /\ i \in Nat
    BY <1>1, LoopFacts DEF ReadFirst, SortPC
  <2>2. File' = File /\ pc' = "inner" /\ posFirst' = i /\ first' = ReadAt(File, i * width, first)
    BY <1>1 DEF ReadFirst, File
  <2>3. PICK w \in Nat \ {0}, f \in Seq(Byte), k \in Nat \ {0} : w = width /\ f = File /\ k = i + 1
    BY <2>1
  <2>4. i * width = (k - 1) * w
    BY <2>1, <2>3
  <2>5. k * w <= Len(f) => first' = Rec(w, f, k)
    BY <2>1, <2>2, <2>3, <2>4, ReadRecord
  <2> QED
    BY <1>0, <2>2, <2>3, <2>5 DEF BufferInv
<1>2. CASE ReadSecond
  <2>1. /\ width \in Nat \ {0} /\ File \in Seq(Byte) /\ second \in Buffer(width, Byte)
        /\ posSecond \in Nat /\ pc = "inner"
    BY <1>2, LoopFacts DEF ReadSecond, SortPC
  <2>2. /\ File' = File /\ pc' = "compare" /\ posFirst' = posFirst /\ posSecond' = posSecond
        /\ first' = first /\ second' = ReadAt(File, posSecond * width, second)
    BY <1>2 DEF ReadSecond, File
  <2>3. PICK w \in Nat \ {0}, f \in Seq(Byte), k \in Nat \ {0} : w = width /\ f = File /\ k = posSecond + 1
    BY <2>1
  <2>4. posSecond * width = (k - 1) * w
    BY <2>1, <2>3
  <2>5. k * w <= Len(f) => second' = Rec(w, f, k)
    BY <2>1, <2>2, <2>3, <2>4, ReadRecord
  <2> QED
    BY <1>0, <2>1, <2>2, <2>3, <2>5 DEF BufferInv
<1>3. CASE WriteFirst
  <2>1. /\ width \in Nat \ {0} /\ File \in Seq(Byte) /\ first \in Buffer(width, Byte)
        /\ posSecond \in Nat /\ job.name \in DOMAIN files /\ 0 \in Byte
    BY <1>3, LoopFacts DEF WriteFirst, SortPC
  <2>2. /\ File' = WriteAt(File, posSecond * width, first) /\ pc' = "swap"
        /\ posSecond' = posSecond /\ first' = first
    BY <1>3, <1>0, <2>1 DEF WriteFirst, Put, File, sorting
  <2>3. PICK w \in Nat \ {0}, f \in Seq(Byte), k \in Nat \ {0} : w = width /\ f = File /\ k = posSecond + 1
    BY <2>1
  <2>4. posSecond * width = (k - 1) * w
    BY <2>1, <2>3
  <2>5. PICK g : g = File'
    OBVIOUS
  <2>6. Replaced(w, f, k, first, g)
    BY <2>1, <2>2, <2>3, <2>4, <2>5, WriteRecord
  <2>7. k * w <= Len(g) /\ first = Rec(w, g, k)
    <3>1. k * w \in Nat
      BY <2>3
    <3> QED
      BY <2>3, <2>6, <3>1 DEF Replaced
  <2> QED
    BY <1>0, <2>2, <2>3, <2>5, <2>7 DEF BufferInv
<1>4. CASE WriteSecond
  <2>1. /\ width \in Nat \ {0} /\ File \in Seq(Byte) /\ second \in Buffer(width, Byte)
        /\ posSecond \in Nat /\ posFirst = posSecond + 1 /\ job.name \in DOMAIN files /\ 0 \in Byte
    BY <1>4, LoopFacts DEF WriteSecond, SortPC
  <2>2. /\ File' = WriteAt(File, posFirst * width, second) /\ pc' = "inner"
        /\ posFirst' = posFirst - 1 /\ first' = first
    BY <1>4, <1>0, <2>1 DEF WriteSecond, Put, File
  <2>3. PICK w \in Nat \ {0}, f \in Seq(Byte), k \in Nat \ {0} : w = width /\ f = File /\ k = posSecond + 1
    BY <2>1
  <2>4. posFirst * width = ((k + 1) - 1) * w /\ k + 1 \in Nat \ {0}
    BY <2>1, <2>3
  <2>5. PICK g : g = File'
    OBVIOUS
  <2>6. Replaced(w, f, k + 1, second, g)
    BY <2>1, <2>2, <2>3, <2>4, <2>5, WriteRecord
  <2>7. k * w <= Len(f) /\ first = Rec(w, f, k)
    BY <1>4, <2>3 DEF BufferInv, WriteSecond
  <2>8. first = Rec(w, g, k)
    BY <2>6, <2>7 DEF Replaced
  <2>9. posFirst' + 1 = k
    BY <2>1, <2>2, <2>3
  <2> QED
    BY <1>0, <2>2, <2>3, <2>5, <2>8, <2>9 DEF BufferInv
<1>5. CASE GenerateOpen \/ GenerateRecord \/ NoSource \/ CopyOpen \/ CopyRecord
  BY <1>5 DEF GenerateOpen, GenerateRecord, NoSource, CopyOpen, CopyRecord, BufferInv
<1>6. CASE LoopEnds \/ SortOpen \/ InnerEnds
  BY <1>6 DEF LoopEnds, SortOpen, InnerEnds, BufferInv
<1>7. CASE UNCHANGED vars
  BY <1>0, <1>7 DEF vars, BufferInv, File
<1> QED
  BY <1>1, <1>2, <1>3, <1>4, <1>5, <1>6, <1>7 DEF Next

LEMMA BuffersHold == Spec => []BufferInv
<1>1. Init => BufferInv
  BY DEF Init, BufferInv
<1>2. TypeInv /\ BufferInv /\ [Next]_vars => BufferInv'
  BY NextBuffer
<1> QED
  BY <1>1, <1>2, TypesHold, PTL DEF Spec

(* The file as it is when the second write of a swap is done.                *)
Whole == IF pc = "swap" THEN WriteAt(File, posFirst * width, second) ELSE After

(* Two neighbours are exchanged: r and s are now records q and q + 1.        *)
Exchanged(w, file, q, r, s, new) ==
  /\ Len(file) >= (q + 1) * w => Len(new) = Len(file)
  /\ Len(file) < (q + 1) * w => Len(new) = (q + 1) * w
  /\ Rec(w, new, q) = r /\ Rec(w, new, q + 1) = s
  /\ \A m \in Nat \ {0} : m \notin {q, q + 1} /\ m * w <= Len(file) => Rec(w, new, m) = Rec(w, file, m)
  /\ \A x \in (q + 1) * w + 1 .. Len(file) : new[x] = file[x]

(* That is what the first write of a swap leads to; r and s are the records  *)
(* that were there, in the other order, as far as the file goes.             *)
LEMMA WholeExchanged ==
  ASSUME TypeInv, BufferInv, WriteFirst, NEW w, w = width, NEW q, q = posSecond + 1,
         NEW v, v = Whole'
  PROVE  /\ w \in Nat \ {0} /\ q \in Nat \ {0} /\ Whole = File /\ File \in Seq(Byte)
         /\ v \in Seq(Byte) /\ Exchanged(w, File, q, first, second, v)
         /\ (q + 1) * w <= Len(File) => first = Rec(w, File, q + 1)
         /\ q * w <= Len(File) => second = Rec(w, File, q)
<1>1. /\ width \in Nat \ {0} /\ File \in Seq(Byte) /\ first \in Buffer(width, Byte)
      /\ second \in Buffer(width, Byte) /\ pc = "compare" /\ job.name \in DOMAIN files
      /\ posSecond \in Nat /\ posFirst = posSecond + 1 /\ 0 \in Byte
  BY LoopFacts DEF WriteFirst, SortPC
<1>2. PICK f \in Seq(Byte) : f = File
  BY <1>1
<1>3. PICK g : g = File'
  OBVIOUS
<1>4. w \in Nat \ {0} /\ q \in Nat \ {0} /\ q + 1 \in Nat \ {0} /\ posFirst = q
  BY <1>1
<1>5. posSecond * width = (q - 1) * w /\ posFirst * width = ((q + 1) - 1) * w
  BY <1>1, <1>4
<1>6. g = WriteAt(f, posSecond * width, first)
  BY <1>1, <1>2, <1>3 DEF WriteFirst, Put, File
<1>7. g \in Seq(Byte) /\ Replaced(w, f, q, first, g)
  BY <1>1, <1>4, <1>5, <1>6, WriteRecord
<1>8. v = WriteAt(g, posFirst * width, second)
  <2>1. /\ pc' = "swap" /\ posFirst' = posFirst /\ second' = second /\ job' = job
    BY DEF WriteFirst, sorting
  <2>2. v = WriteAt(File, posFirst * width, second)'
    BY <2>1 DEF Whole
  <2> QED
    BY <2>1, <2>2, <1>3 DEF WriteAt, width
<1>9. v \in Seq(Byte) /\ Replaced(w, g, q + 1, second, v)
  BY <1>1, <1>4, <1>5, <1>7, <1>8, WriteRecord
<1>10. Exchanged(w, f, q, first, second, v)
  <2>1. PICK e \in Nat, d \in Nat : e = q * w /\ d = (q + 1) * w /\ e < d
    BY <1>4, RecordBounds
  <2>2. PICK n \in Nat, l \in Nat : n = Len(f) /\ l = Len(g)
    BY <1>7
  <2>3. n <= l /\ (n >= e => l = n) /\ (n < e => l = e)
    BY <1>7, <2>1, <2>2 DEF Replaced
  <2>4. (l >= d => Len(v) = l) /\ (l < d => Len(v) = d)
    BY <1>9, <2>1, <2>2 DEF Replaced
  <2>5. (n >= d => Len(v) = n) /\ (n < d => Len(v) = d)
    BY <2>1, <2>3, <2>4
  <2>6. Rec(w, v, q + 1) = second
    BY <1>9 DEF Replaced
  <2>7. Rec(w, v, q) = first
    <3>1. Rec(w, g, q) = first
      BY <1>7 DEF Replaced
    <3>2. q * w <= Len(g)
      <4>1. e <= l
        BY <2>3
      <4> QED
        BY <4>1, <2>1, <2>2
    <3> QED
      BY <3>1, <3>2, <1>4, <1>9 DEF Replaced
  <2>8. ASSUME NEW m \in Nat \ {0}, m \notin {q, q + 1}, m * w <= Len(f)
        PROVE  Rec(w, v, m) = Rec(w, f, m)
    <3>1. Rec(w, g, m) = Rec(w, f, m)
      BY <1>7, <2>8 DEF Replaced
    <3>2. m * w <= Len(g)
      <4>1. m * w \in Nat
        BY <1>4
      <4> QED
        BY <4>1, <2>2, <2>3, <2>8
    <3> QED
      BY <3>1, <3>2, <2>8, <1>9 DEF Replaced
  <2>9. ASSUME NEW x \in d + 1 .. n
        PROVE  v[x] = f[x]
    <3>1. x \in e + 1 .. n /\ x \in d + 1 .. l
      BY <2>1, <2>2, <2>3
    <3>2. g[x] = f[x]
      BY <3>1, <1>7, <2>1, <2>2 DEF Replaced
    <3>3. v[x] = g[x]
      BY <3>1, <1>9, <2>1, <2>2 DEF Replaced
    <3> QED
      BY <3>2, <3>3
  <2> QED
    BY <2>1, <2>2, <2>5, <2>6, <2>7, <2>8, <2>9 DEF Exchanged
<1>11. /\ (q + 1) * w <= Len(File) => first = Rec(w, File, q + 1)
       /\ q * w <= Len(File) => second = Rec(w, File, q)
  BY <1>1, <1>4 DEF BufferInv
<1>12. Whole = File
  BY <1>1 DEF Whole, After
<1> QED
  BY <1>1, <1>2, <1>4, <1>9, <1>10, <1>11, <1>12

(* Every other step of sort leaves the whole file as it is.                  *)
LEMMA WholeKept ==
  ASSUME TypeInv, job.method = "sort", [Next]_vars, ~WriteFirst
  PROVE  Whole' = Whole /\ Before' = Before
<1>1. job' = job /\ width' = width
  BY SameJob
<1>2. Before' = Before
  BY <1>1 DEF Before
<1>3. CASE WriteSecond
  <2>1. /\ job.name \in DOMAIN files /\ pc = "swap"
    BY <1>3, LoopFacts DEF WriteSecond, SortPC
  <2>2. /\ pc' = "inner" /\ files' = [files EXCEPT ![job.name] = WriteAt(File, posFirst * width, second)]
    BY <1>3 DEF WriteSecond, Put
  <2>3. Whole = WriteAt(File, posFirst * width, second)
    BY <2>1 DEF Whole
  <2>4. Whole' = files'[job.name]
    BY <1>1, <2>1, <2>2 DEF Whole, After, File
  <2> QED
    BY <1>2, <2>1, <2>2, <2>3, <2>4
<1>4. CASE NoSource \/ LoopEnds \/ SortOpen \/ ReadFirst \/ ReadSecond \/ InnerEnds
  <2>1. files' = files /\ pc # "swap" /\ pc' # "swap"
    BY <1>4 DEF NoSource, LoopEnds, SortOpen, ReadFirst, ReadSecond, InnerEnds
  <2> QED
    BY <1>1, <1>2, <2>1 DEF Whole, After, File
<1>5. CASE GenerateOpen \/ GenerateRecord \/ CopyOpen \/ CopyRecord
  BY <1>5 DEF GenerateOpen, GenerateRecord, CopyOpen, CopyRecord, TypeInv, LoopTypes
<1>6. CASE UNCHANGED vars
  <2>1. pc' = pc /\ files' = files /\ posFirst' = posFirst /\ second' = second /\ job' = job
    BY <1>6 DEF vars
  <2> QED
    BY <1>2, <2>1 DEF Whole, After, File, WriteAt, width
<1> QED
  BY <1>3, <1>4, <1>5, <1>6 DEF Next

\* Before the call, and at each step of sort, the file is a sequence of bytes.
LEMMA WholeIsSeq ==
  ASSUME TypeInv, job.method = "sort"
  PROVE  Before \in Seq(Byte) /\ After \in Seq(Byte) /\ Whole \in Seq(Byte)
<1>1. Before \in Seq(Byte)
  BY JobIs DEF Before, TypeInv, Control
<1>2. After \in Seq(Byte)
  BY DEF After, File, TypeInv, FileTypes
<1>3. Whole \in Seq(Byte)
  <2>1. CASE pc = "swap"
    <3>1. /\ width \in Nat \ {0} /\ File \in Seq(Byte) /\ second \in Buffer(width, Byte)
          /\ posFirst \in Nat /\ 0 \in Byte
      BY <2>1, LoopFacts DEF SortPC
    <3>2. PICK w \in Nat \ {0}, k \in Nat \ {0} : w = width /\ k = posFirst + 1
      BY <3>1
    <3>3. posFirst * width = (k - 1) * w
      BY <3>1, <3>2
    <3>4. Whole = WriteAt(File, posFirst * width, second)
      BY <2>1 DEF Whole
    <3> QED
      BY <3>1, <3>2, <3>3, <3>4, WriteRecord
  <2>2. CASE pc # "swap"
    BY <2>2, <1>2 DEF Whole
  <2> QED
    BY <2>1, <2>2
<1> QED
  BY <1>1, <1>2, <1>3

-------------------------------------------------------------------------------
(* No record is lost                                                         *)

\* Each record of old has a place of its own in new.
Keeps(w, old, new) ==
  \E place \in Injection(1 .. (Len(old) \div w), 1 .. (Len(new) \div w)) :
    \A k \in 1 .. (Len(old) \div w) : Rec(w, new, place[k]) = Rec(w, old, k)

KeptInv ==
  job.method = "sort" /\ Len(Before) % width = 0 =>
    Len(Whole) % width = 0 /\ Keeps(width, Before, Whole)

\* Where record m goes when q and its successor are exchanged.
Other(q, m) == IF m = q THEN q + 1 ELSE IF m = q + 1 THEN q ELSE m

LEMMA OtherIs ==
  ASSUME NEW q \in Nat \ {0}
  PROVE  /\ \A m \in Nat \ {0} : Other(q, m) \in Nat \ {0} /\ Other(q, Other(q, m)) = m
         /\ \A m, o \in Nat \ {0} : Other(q, m) = Other(q, o) => m = o
  BY DEF Other

\* The length after an exchange is a multiple of w if it was before.
LEMMA ExchangeKeepsWhole ==
  ASSUME NEW S, NEW w \in Nat \ {0}, NEW q \in Nat \ {0}, NEW file \in Seq(S), NEW new \in Seq(S),
         NEW r, NEW s, Exchanged(w, file, q, r, s, new), Len(file) % w = 0
  PROVE  Len(new) % w = 0
<1>1. PICK d \in Nat : d = (q + 1) * w /\ d % w = 0
  BY Multiple, q + 1 \in Nat
<1>2. Len(new) = Len(file) \/ Len(new) = d
  <2>1. PICK n \in Nat : n = Len(file)
    OBVIOUS
  <2>2. n >= d \/ n < d
    BY <2>1, <1>1
  <2> QED
    BY <2>1, <2>2, <1>1 DEF Exchanged
<1> QED
  BY <1>1, <1>2

\* An exchange of the records read only gives them another place.
LEMMA ExchangeKeeps ==
  ASSUME NEW S, NEW w \in Nat \ {0}, NEW q \in Nat \ {0}, NEW old \in Seq(S),
         NEW file \in Seq(S), NEW new \in Seq(S), NEW r, NEW s,
         Exchanged(w, file, q, r, s, new), Len(file) % w = 0,
         (q + 1) * w <= Len(file) => r = Rec(w, file, q + 1),
         q * w <= Len(file) => s = Rec(w, file, q),
         Keeps(w, old, file)
  PROVE  Keeps(w, old, new)
<1>n. PICK n \in Nat : n = Len(old) \div w
  <2>1. PICK x \in Nat : x = Len(old)
    OBVIOUS
  <2> QED
    BY <2>1, BlocksIn
<1>f. PICK lf \in Nat : lf = Len(file)
  OBVIOUS
<1>v. PICK lv \in Nat : lv = Len(new)
  OBVIOUS
<1>1. PICK nf \in Nat : nf = lf \div w /\ \A k \in Nat : k <= nf <=> (k * w) <= lf
  BY BlocksIn
<1>2. PICK nv \in Nat : nv = lv \div w /\ \A k \in Nat : k <= nv <=> (k * w) <= lv
  BY BlocksIn
<1>3. PICK place \in Injection(1 .. n, 1 .. nf) :
         \A k \in 1 .. n : Rec(w, file, place[k]) = Rec(w, old, k)
  BY <1>n, <1>f, <1>1 DEF Keeps
<1>4. place \in [1 .. n -> 1 .. nf] /\ \A j, k \in 1 .. n : place[j] = place[k] => j = k
  BY <1>3 DEF Injection, IsInjective
<1>5. nf <= nv /\ q + 1 <= nv
  <2>1. PICK d \in Nat : d = (q + 1) * w
    OBVIOUS
  <2>2. (lf >= d => lv = lf) /\ (lf < d => lv = d)
    BY <1>f, <1>v, <2>1 DEF Exchanged
  <2>3. lf <= lv /\ d <= lv
    BY <2>2
  <2>4. q + 1 <= nv
    BY <2>1, <2>3, <1>2, q + 1 \in Nat
  <2>5. nf * w <= lf /\ nf * w \in Nat
    <3>1. nf * w \in Nat
      OBVIOUS
    <3> QED
      BY <1>1, <3>1
  <2>6. nf <= nv
    BY <2>3, <2>5, <1>2
  <2> QED
    BY <2>4, <2>6
<1>6. ASSUME NEW m \in 1 .. nf
      PROVE  Other(q, m) \in 1 .. nv /\ Rec(w, new, Other(q, m)) = Rec(w, file, m)
  <2>1. m \in Nat \ {0} /\ m * w <= lf
    <3>1. m \in Nat /\ m # 0 /\ m <= nf
      OBVIOUS
    <3> QED
      BY <3>1, <1>1
  <2>2. CASE m = q
    BY <2>1, <2>2, <1>5, <1>f DEF Other, Exchanged
  <2>3. CASE m = q + 1
    BY <2>1, <2>3, <1>5, <1>f DEF Other, Exchanged
  <2>4. CASE m \notin {q, q + 1}
    BY <2>1, <2>4, <1>5, <1>f DEF Other, Exchanged
  <2> QED
    BY <2>2, <2>3, <2>4
<1>7. PICK there : there = [k \in 1 .. n |-> Other(q, place[k])]
  OBVIOUS
<1>8. there \in Injection(1 .. n, 1 .. nv)
  <2>1. there \in [1 .. n -> 1 .. nv]
    BY <1>4, <1>6, <1>7
  <2>2. ASSUME NEW j \in 1 .. n, NEW k \in 1 .. n, there[j] = there[k]
        PROVE  j = k
    <3>a. place[j] \in 1 .. nf /\ place[k] \in 1 .. nf
      BY <1>4
    <3>b. place[j] \in Nat \ {0} /\ place[k] \in Nat \ {0}
      BY ONLY <3>a, nf \in Nat
    <3>c. there[j] = Other(q, place[j]) /\ there[k] = Other(q, place[k])
      BY <1>7
    <3>1. place[j] \in Nat \ {0} /\ place[k] \in Nat \ {0} /\ Other(q, place[j]) = Other(q, place[k])
      BY <3>b, <3>c, <2>2
    <3>2. place[j] = place[k]
      BY <3>1, OtherIs
    <3> QED
      BY <3>2, <1>4
  <2> QED
    BY <2>1, <2>2 DEF Injection, IsInjective
<1>9. \A k \in 1 .. n : Rec(w, new, there[k]) = Rec(w, old, k)
  BY <1>3, <1>4, <1>6, <1>7
<1> QED
  BY <1>8, <1>9, <1>n, <1>v, <1>2 DEF Keeps

LEMMA NextKept ==
  ASSUME TypeInv, BufferInv, KeptInv, [Next]_vars
  PROVE  KeptInv'
<1>0. job' = job /\ width' = width
  BY SameJob
<1> SUFFICES ASSUME job.method = "sort", Len(Before') % width = 0
             PROVE  Len(Whole') % width = 0 /\ Keeps(width, Before', Whole')
  BY <1>0 DEF KeptInv
<1>1. Before' = Before
  BY <1>0 DEF Before
<1>2. Len(Whole) % width = 0 /\ Keeps(width, Before, Whole)
  BY <1>1 DEF KeptInv
<1>3. CASE WriteFirst
  <2>1. PICK w, q, v : w = width /\ q = posSecond + 1 /\ v = Whole'
    OBVIOUS
  <2>2. /\ w \in Nat \ {0} /\ q \in Nat \ {0} /\ Whole = File /\ File \in Seq(Byte)
        /\ v \in Seq(Byte) /\ Exchanged(w, File, q, first, second, v)
        /\ (q + 1) * w <= Len(File) => first = Rec(w, File, q + 1)
        /\ q * w <= Len(File) => second = Rec(w, File, q)
    BY <1>3, <2>1, WholeExchanged
  <2>3. Len(File) % w = 0 /\ Keeps(w, Before, File) /\ Before \in Seq(Byte)
    BY <1>2, <2>1, <2>2, WholeIsSeq
  <2>4. Len(v) % w = 0
    BY <2>2, <2>3, ExchangeKeepsWhole
  <2>5. Keeps(w, Before, v)
    BY <2>2, <2>3, ExchangeKeeps
  <2> QED
    BY <2>1, <2>4, <2>5, <1>1
<1>4. CASE ~WriteFirst
  BY <1>1, <1>2, <1>4, WholeKept
<1> QED
  BY <1>3, <1>4

\* A file keeps its own records.
LEMMA KeepsItself ==
  ASSUME NEW w, NEW file
  PROVE  Keeps(w, file, file)
<1>1. PICK S : S = 1 .. (Len(file) \div w)
  OBVIOUS
<1>2. [k \in S |-> k] \in Injection(S, S)
  BY DEF Injection, IsInjective
<1> QED
  BY <1>1, <1>2 DEF Keeps

LEMMA RecordsKept == Spec => []KeptInv
<1>1. Init => KeptInv
  <2> SUFFICES ASSUME Init
               PROVE  KeptInv
    OBVIOUS
  <2>1. Whole = Before
    BY DEF Init, Whole, After, Before, File
  <2> QED
    BY <2>1, KeepsItself DEF KeptInv
<1>2. TypeInv /\ BufferInv /\ KeptInv /\ [Next]_vars => KeptInv'
  BY NextKept
<1> QED
  BY <1>1, <1>2, TypesHold, BuffersHold, PTL DEF Spec

\* Where the record r is in a file, and how Count counts these places.
PlacesOf(w, file, r) == {k \in 1 .. (Len(file) \div w) : Rec(w, file, k) = r}

LEMMA CountIs ==
  ASSUME NEW S, NEW w \in Nat \ {0}, w = width, NEW file \in Seq(S), NEW r
  PROVE  /\ Count(r, file) = Cardinality(PlacesOf(w, file, r))
         /\ IsFiniteSet(PlacesOf(w, file, r)) /\ Count(r, file) \in Nat
<1>1. /\ DOMAIN RecordsOf(file) = 1 .. (Len(file) \div w)
      /\ (Len(file) \div w) \in Nat
      /\ \A k \in 1 .. (Len(file) \div w) : RecordsOf(file)[k] = Rec(w, file, k)
  BY RecordsOfIs
<1>2. {k \in DOMAIN RecordsOf(file) : RecordsOf(file)[k] = r} = PlacesOf(w, file, r)
  BY <1>1 DEF PlacesOf
<1>3. IsFiniteSet(PlacesOf(w, file, r))
  <2>1. IsFiniteSet(1 .. (Len(file) \div w))
    BY <1>1, FS_Interval, 1 \in Int
  <2>2. PlacesOf(w, file, r) \in SUBSET (1 .. (Len(file) \div w))
    BY DEF PlacesOf
  <2> QED
    BY <2>1, <2>2, FS_Subset
<1>4. Cardinality(PlacesOf(w, file, r)) \in Nat
  BY <1>3, FS_CardinalityType
<1> QED
  BY <1>2, <1>3, <1>4 DEF Count

\* What is kept is not there less often.
LEMMA KeepsCount ==
  ASSUME NEW S, NEW w \in Nat \ {0}, w = width, NEW old \in Seq(S), NEW new \in Seq(S), NEW r,
         Keeps(w, old, new)
  PROVE  Cardinality(PlacesOf(w, old, r)) <= Cardinality(PlacesOf(w, new, r))
<1>1. PICK A, B : A = 1 .. (Len(old) \div w) /\ B = 1 .. (Len(new) \div w)
  OBVIOUS
<1>2. PICK place \in Injection(A, B) : \A k \in A : Rec(w, new, place[k]) = Rec(w, old, k)
  BY <1>1 DEF Keeps
<1>3. place \in [A -> B] /\ \A j, k \in A : place[j] = place[k] => j = k
  BY <1>2 DEF Injection, IsInjective
<1>4. PICK P, Q : P = PlacesOf(w, old, r) /\ Q = PlacesOf(w, new, r)
  OBVIOUS
<1>5. P \subseteq A /\ \A k \in P : place[k] \in Q
  BY <1>1, <1>2, <1>3, <1>4 DEF PlacesOf
<1>6. [k \in P |-> place[k]] \in Injection(P, Q)
  <2>1. PICK g : g = [k \in P |-> place[k]]
    OBVIOUS
  <2>2. g \in [P -> Q]
    BY <1>5, <2>1
  <2>3. \A j, k \in DOMAIN g : g[j] = g[k] => j = k
    BY <1>3, <1>5, <2>1
  <2> QED
    BY <2>1, <2>2, <2>3 DEF Injection, IsInjective
<1>7. IsFiniteSet(Q)
  BY <1>4, CountIs
<1>8. Cardinality(P) <= Cardinality(Q)
  BY <1>6, <1>7, FS_Injection
<1> QED
  BY <1>4, <1>8

(* In the middle of a swap the file itself has all of the whole file but one *)
(* copy of second.                                                           *)
LEMMA FileKeepsCount ==
  ASSUME TypeInv, BufferInv, pc = "swap", NEW w \in Nat \ {0}, w = width, NEW r
  PROVE  Cardinality(PlacesOf(w, Whole, r)) <=
           Cardinality(PlacesOf(w, File, r)) + (IF r = second THEN 1 ELSE 0)
<1>1. /\ File \in Seq(Byte) /\ second \in Buffer(w, Byte)
      /\ posSecond \in Nat /\ posFirst = posSecond + 1 /\ 0 \in Byte
  BY LoopFacts DEF SortPC
<1>2. PICK f, v, q : f = File /\ v = Whole /\ q = posFirst + 1
  OBVIOUS
<1>a. f \in Seq(Byte) /\ q \in Nat \ {0}
  BY <1>1, <1>2
<1>3. posFirst * width = (q - 1) * w
  BY <1>1, <1>2, <1>a
<1>4. v \in Seq(Byte) /\ Replaced(w, f, q, second, v)
  BY <1>1, <1>2, <1>a, <1>3, WriteRecord DEF Whole
<1>5. PICK lf \in Nat, lv \in Nat : lf = Len(f) /\ lv = Len(v)
  BY <1>a, <1>4
<1>6. PICK nf \in Nat : nf = lf \div w /\ \A k \in Nat : k <= nf <=> (k * w) <= lf
  BY BlocksIn
<1>7. PICK nv \in Nat : nv = lv \div w /\ \A k \in Nat : k <= nv <=> (k * w) <= lv
  BY BlocksIn
<1>8. q - 1 <= nf
  <2>1. (posSecond + 1) * width <= Len(File)
    BY DEF BufferInv
  <2>2. (q - 1) * w <= lf /\ q - 1 \in Nat
    BY <1>1, <1>2, <1>a, <1>5, <2>1
  <2> QED
    BY <2>2, <1>6
<1>9. ASSUME NEW k \in 1 .. nv, k # q
      PROVE  k \in 1 .. nf
  <2>1. PICK d \in Nat : d = q * w
    BY <1>a
  <2>2. (lf >= d => lv = lf) /\ (lf < d => lv = d)
    BY <1>a, <1>2, <1>4, <1>5, <2>1 DEF Replaced
  <2>3. CASE lf >= d
    BY <2>2, <2>3, <1>6, <1>7
  <2>4. CASE lf < d
    <3>1. lv \div w = q
      BY <2>1, <2>2, <2>4, Multiple, <1>a
    <3> QED
      BY <3>1, <1>7, <1>8, <1>9
  <2> QED
    BY <2>3, <2>4
<1>10. ASSUME NEW k \in PlacesOf(w, v, r)
       PROVE  k \in PlacesOf(w, f, r) \/ (k = q /\ r = second)
  <2>1. k \in 1 .. nv /\ Rec(w, v, k) = r
    BY <1>5, <1>7 DEF PlacesOf
  <2>2. CASE k = q
    BY <2>1, <2>2, <1>4 DEF Replaced
  <2>3. CASE k # q
    <3>1. k \in 1 .. nf
      BY <1>9, <2>1, <2>3
    <3>2. k \in Nat \ {0} /\ (k * w) <= Len(f)
      <4>1. k \in Nat /\ k # 0 /\ k <= nf
        BY <3>1
      <4> QED
        BY <4>1, <1>5, <1>6
    <3>3. Rec(w, v, k) = Rec(w, f, k)
      BY <2>3, <3>2, <1>4 DEF Replaced
    <3> QED
      BY <2>1, <3>1, <3>3, <1>5, <1>6 DEF PlacesOf
  <2> QED
    BY <2>2, <2>3
<1>11. PICK P, Q : P = PlacesOf(w, v, r) /\ Q = PlacesOf(w, f, r)
  OBVIOUS
<1>12. IsFiniteSet(Q) /\ IsFiniteSet(P) /\ Cardinality(Q) \in Nat /\ Cardinality(P) \in Nat
  <2>1. /\ IsFiniteSet(PlacesOf(w, f, r)) /\ IsFiniteSet(PlacesOf(w, v, r))
    BY <1>4, <1>a, CountIs
  <2> QED
    BY <2>1, <1>11, FS_CardinalityType
<1>13. CASE r = second
  <2>1. P \subseteq Q \cup {q}
    BY <1>10, <1>11
  <2>2. IsFiniteSet(Q \cup {q}) /\ Cardinality(Q \cup {q}) <= Cardinality(Q) + 1
    <3>1. /\ IsFiniteSet(Q \cup {q})
          /\ Cardinality(Q \cup {q}) = IF q \in Q THEN Cardinality(Q) ELSE Cardinality(Q) + 1
      BY <1>12, FS_AddElement
    <3>2. CASE q \in Q
      BY <3>1, <3>2, <1>12
    <3>3. CASE q \notin Q
      BY <3>1, <3>3, <1>12
    <3> QED
      BY <3>2, <3>3
  <2>3. Cardinality(P) <= Cardinality(Q \cup {q})
    BY <2>1, <2>2, FS_Subset
  <2>4. Cardinality(Q \cup {q}) \in Nat
    BY <2>2, FS_CardinalityType
  <2>5. Cardinality(P) <= Cardinality(Q) + 1
    BY <1>12, <2>2, <2>3, <2>4
  <2> QED
    BY <1>2, <1>11, <1>13, <2>5
<1>14. CASE r # second
  <2>1. P \subseteq Q
    BY <1>10, <1>11, <1>14
  <2>2. Cardinality(P) <= Cardinality(Q)
    BY <2>1, <1>12, FS_Subset
  <2> QED
    BY <1>2, <1>11, <1>12, <1>14, <2>2
<1> QED
  BY <1>13, <1>14

LEMMA KeptIsEnough ==
  ASSUME TypeInv, BufferInv, KeptInv
  PROVE  LosesAtMostOne
<1> SUFFICES ASSUME job.method = "sort", Len(Before) % width = 0, NEW r
             PROVE  Count(r, Before) <= Count(r, After) + (IF pc = "swap" /\ r = second THEN 1 ELSE 0)
  BY DEF LosesAtMostOne
<1>1. PICK w \in Nat \ {0} : w = width
  BY JobIs DEF TypeInv, Control
<1>2. PICK old \in Seq(Byte), f \in Seq(Byte), v \in Seq(Byte) : old = Before /\ f = After /\ v = Whole
  BY WholeIsSeq
<1>3. Cardinality(PlacesOf(w, old, r)) <= Cardinality(PlacesOf(w, v, r))
  <2>1. Keeps(w, old, v)
    BY <1>1, <1>2 DEF KeptInv
  <2> QED
    BY <1>1, <1>2, <2>1, KeepsCount
<1>4. /\ Count(r, old) = Cardinality(PlacesOf(w, old, r)) /\ Count(r, old) \in Nat
      /\ Count(r, f) = Cardinality(PlacesOf(w, f, r)) /\ Count(r, f) \in Nat
      /\ Count(r, v) = Cardinality(PlacesOf(w, v, r)) /\ Count(r, v) \in Nat
  BY <1>1, <1>2, CountIs
<1>5. CASE pc = "swap"
  <2>1. File = After
    BY <1>5, LoopFacts DEF After, SortPC
  <2>2. Cardinality(PlacesOf(w, v, r)) <=
          Cardinality(PlacesOf(w, f, r)) + (IF r = second THEN 1 ELSE 0)
    BY <1>1, <1>2, <1>5, <2>1, FileKeepsCount
  <2>3. Count(r, old) <= Count(r, f) + (IF r = second THEN 1 ELSE 0)
    BY <2>2, <1>3, <1>4
  <2> QED
    BY <2>3, <1>2, <1>5
<1>6. CASE pc # "swap"
  <2>1. v = f
    BY <1>2, <1>6 DEF Whole
  <2> QED
    BY <2>1, <1>2, <1>3, <1>4, <1>6
<1> QED
  BY <1>5, <1>6

\* Wherever sort is stopped, whatever the number of records and the order they
\* are in, every record is still in the file, except the one about to be
\* written back.
THEOREM LosesAtMostOneHolds == Spec => []LosesAtMostOne
  BY RecordsKept, TypesHold, BuffersHold, KeptIsEnough, PTL

\* No file loses a record that is not in the program's memory.
THEOREM FilesInvHolds == Spec => []FilesInv
<1>1. TypeOK /\ LosesAtMostOne /\ SourceSurvives => FilesInv
  BY DEF FilesInv
<1> QED
  BY <1>1, TypeOKHolds, LosesAtMostOneHolds, SourceSurvivesHolds, PTL

-------------------------------------------------------------------------------
(* sort sorts, and is stable                                                 *)

\* Record j belongs before record k: by the key, then by the place it had.
Ordered(w, file, place, j, k) ==
  \/ Rec(w, file, j)[1] < Rec(w, file, k)[1]
  \/ Rec(w, file, j)[1] = Rec(w, file, k)[1] /\ place[j] < place[k]

\* Record k of new is record place[k] of old.
Arranged(w, n, old, new, place) ==
  /\ place \in Bijection(1 .. n, 1 .. n)
  /\ \A k \in 1 .. n : Rec(w, new, k) = Rec(w, old, place[k])

(* The first "bound" records are in order, but for the one at "hole", which  *)
(* was the last of them; the others have not moved.                          *)
InOrder(w, n, file, place, bound, hole) ==
  /\ \A k \in 1 .. n : k > bound => place[k] = k
  /\ hole # 0 => place[hole] = bound
  /\ \A j, k \in 1 .. n : j < k /\ k <= bound /\ k # hole => Ordered(w, file, place, j, k)

Bound == IF pc \in {"inner", "compare", "swap"} THEN i + 1 ELSE IF pc = "done" THEN job.size ELSE i
Hole == IF pc \in {"inner", "compare"} THEN posFirst + 1
        ELSE IF pc = "swap" THEN posSecond + 1 ELSE 0

SortedInv ==
  job.method = "sort" /\ pc # "open" /\ job.size * width <= Len(Before) =>
    /\ Len(Whole) = Len(Before)
    /\ \A x \in job.size * width + 1 .. Len(Before) : Whole[x] = Before[x]
    /\ \E place : /\ Arranged(width, job.size, Before, Whole, place)
                  /\ InOrder(width, job.size, Whole, place, Bound, Hole)

\* What a bijection of a set with itself is.
LEMMA BijectionIs ==
  ASSUME NEW S, NEW f
  PROVE  f \in Bijection(S, S) <=>
           /\ f \in [S -> S] /\ \A x, y \in S : f[x] = f[y] => x = y
           /\ \A y \in S : \E x \in S : f[x] = y
  BY DEF Bijection, Injection, Surjection, IsInjective

\* The key of a record that is there is a number.
LEMMA KeyIs ==
  ASSUME NEW w \in Nat \ {0}, NEW file \in Seq(Byte), NEW n \in Nat, n * w <= Len(file)
  PROVE  \A k \in 1 .. n : k * w <= Len(file) /\ Rec(w, file, k)[1] \in Nat
<1> SUFFICES ASSUME NEW k \in 1 .. n
             PROVE  k * w <= Len(file) /\ Rec(w, file, k)[1] \in Nat
  OBVIOUS
<1>1. PICK pos \in Nat, e \in Nat : pos = (k - 1) * w /\ e = k * w /\ pos + w = e
  BY RecordBounds
<1>2. e <= Len(file)
  <2>1. PICK d \in Nat : d = n * w
    OBVIOUS
  <2>2. CASE k = n
    BY <1>1, <2>2
  <2>3. CASE k < n
    <3>1. (k * w) + w <= n * w
      BY <2>3, BlockAfter
    <3> QED
      BY <3>1, <2>1, <1>1
  <2> QED
    BY <2>2, <2>3
<1>3. file[pos + 1] \in Byte
  BY <1>1, <1>2, ElementOfSeq
<1>4. Rec(w, file, k)[1] = file[pos + 1]
  BY <1>1 DEF Rec
<1> QED
  BY <1>1, <1>2, <1>3, <1>4, ByteIs

(* An exchange of the hole with a larger neighbour moves the hole one place  *)
(* down.                                                                     *)
LEMMA ExchangeSorts ==
  ASSUME NEW w \in Nat \ {0}, NEW n \in Nat, NEW q \in Nat \ {0}, NEW bound \in Nat,
         q + 1 <= bound, bound <= n,
         NEW old, NEW file \in Seq(Byte), n * w <= Len(file), NEW new, NEW place,
         Arranged(w, n, old, file, place), InOrder(w, n, file, place, bound, q + 1),
         Exchanged(w, file, q, Rec(w, file, q + 1), Rec(w, file, q), new),
         Rec(w, file, q + 1)[1] < Rec(w, file, q)[1]
  PROVE  \E there : Arranged(w, n, old, new, there) /\ InOrder(w, n, new, there, bound, q)
<1>1. /\ place \in [1 .. n -> 1 .. n] /\ \A x, y \in 1 .. n : place[x] = place[y] => x = y
      /\ \A y \in 1 .. n : \E x \in 1 .. n : place[x] = y
  BY BijectionIs DEF Arranged
<1>2. \A k \in 1 .. n : Other(q, k) \in 1 .. n /\ Other(q, Other(q, k)) = k
  BY DEF Other
<1>3. ASSUME NEW k \in 1 .. n
      PROVE  Rec(w, new, k) = Rec(w, file, Other(q, k))
  <2>1. CASE k = q
    BY <2>1 DEF Other, Exchanged
  <2>2. CASE k = q + 1
    BY <2>2 DEF Other, Exchanged
  <2>3. CASE k \notin {q, q + 1}
    <3>1. k * w <= Len(file)
      BY KeyIs
    <3>2. k \in Nat \ {0} /\ Other(q, k) = k
      BY <2>3 DEF Other
    <3> QED
      BY <2>3, <3>1, <3>2 DEF Exchanged
  <2> QED
    BY <2>1, <2>2, <2>3
<1>4. PICK there : there = [k \in 1 .. n |-> place[Other(q, k)]]
  OBVIOUS
<1>5. there \in Bijection(1 .. n, 1 .. n)
  <2>1. there \in [1 .. n -> 1 .. n]
    BY <1>1, <1>2, <1>4
  <2>2. ASSUME NEW x \in 1 .. n, NEW y \in 1 .. n, there[x] = there[y]
        PROVE  x = y
    <3>1. Other(q, x) = Other(q, y)
      BY <2>2, <1>1, <1>2, <1>4
    <3> QED
      BY <3>1, <1>2
  <2>3. ASSUME NEW y \in 1 .. n
        PROVE  \E x \in 1 .. n : there[x] = y
    <3>1. PICK x \in 1 .. n : place[x] = y
      BY <1>1
    <3>2. Other(q, x) \in 1 .. n /\ there[Other(q, x)] = y
      BY <3>1, <1>2, <1>4
    <3> QED
      BY <3>2
  <2> QED
    BY <2>1, <2>2, <2>3, BijectionIs
<1>6. Arranged(w, n, old, new, there)
  <2>1. \A k \in 1 .. n : Rec(w, new, k) = Rec(w, old, there[k])
    BY <1>2, <1>3, <1>4 DEF Arranged
  <2> QED
    BY <2>1, <1>5 DEF Arranged
<1>7. /\ \A k \in 1 .. n : k > bound => place[k] = k
      /\ place[q + 1] = bound
      /\ \A j, k \in 1 .. n : j < k /\ k <= bound /\ k # q + 1 => Ordered(w, file, place, j, k)
  BY DEF InOrder
<1>8. \A k \in 1 .. n : k > bound => there[k] = k
  BY <1>4, <1>7 DEF Other
<1>9. there[q] = bound
  <2>1. q \in 1 .. n /\ Other(q, q) = q + 1
    BY DEF Other
  <2> QED
    BY <2>1, <1>4, <1>7
<1>10. ASSUME NEW j \in 1 .. n, NEW k \in 1 .. n, j < k, k <= bound, k # q
       PROVE  Ordered(w, new, there, j, k)
  <2>1. CASE j = q /\ k = q + 1
    <3>1. Rec(w, new, j) = Rec(w, file, q + 1) /\ Rec(w, new, k) = Rec(w, file, q)
      BY <2>1, <1>3 DEF Other
    <3> QED
      BY <3>1 DEF Ordered
  <2>2. CASE ~(j = q /\ k = q + 1)
    <3>1. PICK a, b : a = Other(q, j) /\ b = Other(q, k)
      OBVIOUS
    <3>2. a \in 1 .. n /\ b \in 1 .. n /\ a < b /\ b <= bound /\ b # q + 1
      BY <2>2, <1>10, <3>1 DEF Other
    <3>3. Ordered(w, file, place, a, b)
      BY <3>2, <1>7
    <3>4. /\ Rec(w, new, j) = Rec(w, file, a) /\ Rec(w, new, k) = Rec(w, file, b)
          /\ there[j] = place[a] /\ there[k] = place[b]
      BY <3>1, <1>3, <1>4
    <3> QED
      BY <3>3, <3>4 DEF Ordered
  <2> QED
    BY <2>1, <2>2
<1>11. InOrder(w, n, new, there, bound, q)
  BY <1>8, <1>9, <1>10 DEF InOrder
<1> QED
  BY <1>6, <1>11

(* Where the neighbour is not larger, the hole is in its place.              *)
LEMMA HoleInPlace ==
  ASSUME NEW w \in Nat \ {0}, NEW n \in Nat, NEW q \in Nat \ {0}, NEW bound \in Nat,
         q + 1 <= bound, bound <= n,
         NEW old, NEW file \in Seq(Byte), n * w <= Len(file), NEW place,
         Arranged(w, n, old, file, place), InOrder(w, n, file, place, bound, q + 1),
         ~(Rec(w, file, q + 1)[1] < Rec(w, file, q)[1])
  PROVE  InOrder(w, n, file, place, bound, 0)
<1>1. /\ place \in [1 .. n -> 1 .. n] /\ \A x, y \in 1 .. n : place[x] = place[y] => x = y
  BY BijectionIs DEF Arranged
<1>2. /\ \A k \in 1 .. n : k > bound => place[k] = k
      /\ place[q + 1] = bound
      /\ \A j, k \in 1 .. n : j < k /\ k <= bound /\ k # q + 1 => Ordered(w, file, place, j, k)
  BY DEF InOrder
<1>3. q \in 1 .. n /\ q + 1 \in 1 .. n /\ q # q + 1
  OBVIOUS
<1>4. place[q] < place[q + 1]
  <2>1. place[q] # bound
    BY <1>1, <1>2, <1>3
  <2>2. ~(place[q] > bound)
    <3> SUFFICES ASSUME place[q] > bound
                 PROVE  FALSE
      OBVIOUS
    <3>1. PICK x : x = place[q] /\ x \in 1 .. n
      BY <1>1, <1>3
    <3>2. place[x] = place[q]
      BY <3>1, <1>2
    <3>3. x = q
      BY <3>1, <3>2, <1>1, <1>3
    <3> QED
      BY <3>1, <3>3
  <2> QED
    BY <2>1, <2>2, <1>1, <1>2, <1>3
<1>5. \A k \in 1 .. n : Rec(w, file, k)[1] \in Nat
  BY KeyIs
<1>6. Ordered(w, file, place, q, q + 1)
  <2>1. Rec(w, file, q)[1] <= Rec(w, file, q + 1)[1]
    BY <1>3, <1>5
  <2> QED
    BY <2>1, <1>3, <1>4, <1>5 DEF Ordered
<1>7. ASSUME NEW j \in 1 .. n, j < q
      PROVE  Ordered(w, file, place, j, q + 1)
  <2>1. Ordered(w, file, place, j, q)
    BY <1>2, <1>3, <1>7
  <2>2. \A k \in 1 .. n : place[k] \in Nat
    <3>1. \A k \in 1 .. n : place[k] \in 1 .. n
      BY <1>1
    <3>2. \A x \in 1 .. n : x \in Nat
      OBVIOUS
    <3> QED
      BY <3>1, <3>2
  <2>3. PICK a, b, c : a = Rec(w, file, j)[1] /\ b = Rec(w, file, q)[1] /\ c = Rec(w, file, q + 1)[1]
    OBVIOUS
  <2>4. a \in Nat /\ b \in Nat /\ c \in Nat
    BY <2>3, <1>3, <1>5
  <2>5. (a < b \/ (a = b /\ place[j] < place[q])) /\ (b < c \/ (b = c /\ place[q] < place[q + 1]))
    BY <2>1, <2>3, <1>6 DEF Ordered
  <2>6. a < c \/ (a = c /\ place[j] < place[q + 1])
    BY <2>2, <2>4, <2>5, <1>3
  <2> QED
    BY <2>3, <2>6 DEF Ordered
<1>8. ASSUME NEW j \in 1 .. n, NEW k \in 1 .. n, j < k, k <= bound
      PROVE  Ordered(w, file, place, j, k)
  <2>1. CASE k # q + 1
    BY <2>1, <1>2, <1>8
  <2>2. CASE k = q + 1
    BY <2>2, <1>6, <1>7, <1>8
  <2> QED
    BY <2>1, <2>2
<1> QED
  BY <1>2, <1>8 DEF InOrder

\* Parts of SortedInv that the steps lead from and to.
LEMMA SortedFrom ==
  ASSUME TypeInv, job.method = "sort", job.size * width <= Len(Before), SortedInv, pc # "open",
         NEW w, w = width, NEW n, n = job.size, NEW f, f = Whole
  PROVE  /\ w \in Nat \ {0} /\ n \in Nat /\ f \in Seq(Byte) /\ Before \in Seq(Byte)
         /\ Len(f) = Len(Before) /\ n * w <= Len(f)
         /\ \A x \in n * w + 1 .. Len(Before) : f[x] = Before[x]
         /\ \E place : Arranged(w, n, Before, f, place) /\ InOrder(w, n, f, place, Bound, Hole)
<1>1. width \in Nat \ {0} /\ job.size \in Nat
  BY JobIs DEF TypeInv, Control
<1>2. f \in Seq(Byte) /\ Before \in Seq(Byte)
  BY WholeIsSeq
<1> QED
  BY <1>1, <1>2 DEF SortedInv

LEMMA SortedTo ==
  ASSUME [Next]_vars, NEW w, w = width, NEW n, n = job.size, NEW f, f = Whole',
         Len(f) = Len(Before), \A x \in n * w + 1 .. Len(Before) : f[x] = Before[x],
         NEW place, Arranged(w, n, Before, f, place), InOrder(w, n, f, place, Bound', Hole')
  PROVE  SortedInv'
<1>1. job' = job /\ width' = width
  BY SameJob
<1>2. Before' = Before
  BY <1>1 DEF Before
<1> QED
  BY <1>1, <1>2 DEF SortedInv

\* In a file that nothing has happened to, every record has its place.
LEMMA ArrangedItself ==
  ASSUME NEW w, NEW n \in Nat, NEW file
  PROVE  LET place == [k \in 1 .. n |-> k] IN
         /\ Arranged(w, n, file, file, place)
         /\ InOrder(w, n, file, place, 1, 0)
<1>1. PICK place : place = [k \in 1 .. n |-> k]
  OBVIOUS
<1>2. place \in Bijection(1 .. n, 1 .. n)
  BY <1>1, BijectionIs
<1>3. \A j, k \in 1 .. n : j < k => ~(k <= 1)
  OBVIOUS
<1> QED
  BY <1>1, <1>2, <1>3 DEF Arranged, InOrder

\* Sorting steps that leave the whole file alone.
LEMMA SortedKept ==
  ASSUME TypeInv, BufferInv, SortedInv, job.method = "sort", job.size * width <= Len(Before),
         pc # "open", [Next]_vars, ~WriteFirst
  PROVE  SortedInv'
<1>1. Whole' = Whole /\ Before' = Before
  BY WholeKept
<1>2. PICK w, n, f : w = width /\ n = job.size /\ f = Whole
  OBVIOUS
<1>3. /\ w \in Nat \ {0} /\ n \in Nat /\ f \in Seq(Byte) /\ Before \in Seq(Byte)
      /\ Len(f) = Len(Before) /\ n * w <= Len(f)
      /\ \A x \in n * w + 1 .. Len(Before) : f[x] = Before[x]
      /\ \E place : Arranged(w, n, Before, f, place) /\ InOrder(w, n, f, place, Bound, Hole)
  BY <1>2, SortedFrom
<1>4. PICK place : Arranged(w, n, Before, f, place) /\ InOrder(w, n, f, place, Bound, Hole)
  BY <1>3
<1> SUFFICES InOrder(w, n, f, place, Bound', Hole')
  BY <1>1, <1>2, <1>3, <1>4, SortedTo
<1>5. CASE ReadFirst
  <2>1. i \in Nat /\ Bound = i /\ Hole = 0 /\ Bound' = i + 1 /\ Hole' = i + 1 /\ i < n
    BY <1>2, <1>5, LoopFacts DEF ReadFirst, SortPC, Bound, Hole
  <2>2. /\ \A k \in 1 .. n : k > i => place[k] = k
        /\ \A j, k \in 1 .. n : j < k /\ k <= i /\ k # 0 => Ordered(w, f, place, j, k)
    BY <1>4, <2>1 DEF InOrder
  <2>3. /\ \A k \in 1 .. n : k > i + 1 => place[k] = k
        /\ place[i + 1] = i + 1
        /\ \A j, k \in 1 .. n : j < k /\ k <= i + 1 /\ k # i + 1 => Ordered(w, f, place, j, k)
    BY <2>1, <2>2, <1>3
  <2> QED
    BY <2>1, <2>3 DEF InOrder
<1>6. CASE ReadSecond
  <2>1. Bound' = Bound /\ Hole' = Hole
    BY <1>6 DEF ReadSecond, Bound, Hole
  <2> QED
    BY <2>1, <1>4
<1>7. CASE WriteSecond
  <2>1. posFirst = posSecond + 1 /\ posSecond \in Nat
    BY <1>7, LoopFacts DEF WriteSecond, SortPC
  <2>2. Bound' = Bound /\ Hole' = Hole
    BY <1>7, <2>1 DEF WriteSecond, Bound, Hole
  <2> QED
    BY <2>2, <1>4
<1>8. CASE InnerEnds
  <2>1. /\ i \in Nat /\ posFirst = posSecond + 1 /\ i < n /\ posFirst <= i /\ posFirst \in Nat
        /\ Bound = i + 1 /\ Bound' = i + 1 /\ Hole = posFirst + 1 /\ Hole' = 0
    <3>1. pc \in {"inner", "compare"} /\ pc' = "outer" /\ i' = i + 1
      BY <1>8 DEF InnerEnds
    <3>2. i \in Nat /\ posFirst = posSecond + 1 /\ i < n /\ posFirst <= i /\ posFirst \in Nat
      BY <3>1, <1>2, LoopFacts DEF SortPC
    <3> QED
      BY <3>1, <3>2 DEF Bound, Hole
  <2>2. CASE pc = "inner" /\ posSecond < 0
    <3>1. posFirst = 0
      <4>1. posSecond \in -1 .. job.size /\ job.size \in Nat
        BY <2>2, LoopFacts DEF SortPC, TypeInv, LoopTypes
      <4> QED
        BY <4>1, <2>1, <2>2
    <3>2. /\ \A k \in 1 .. n : k > i + 1 => place[k] = k
          /\ \A j, k \in 1 .. n : j < k /\ k <= i + 1 /\ k # 1 => Ordered(w, f, place, j, k)
      BY <3>1, <2>1, <1>4 DEF InOrder
    <3>3. \A j, k \in 1 .. n : j < k => k # 1
      OBVIOUS
    <3> QED
      BY <3>2, <3>3, <2>1 DEF InOrder
  <2>3. CASE pc = "compare" /\ ~Less
    <3>1. PICK q : q = posSecond + 1
      OBVIOUS
    <3>2. q \in Nat \ {0} /\ Hole = q + 1 /\ q + 1 <= i + 1 /\ i + 1 <= n /\ i + 1 \in Nat
      <4>1. posSecond \in Nat /\ n \in Nat
        BY <2>3, <1>3, LoopFacts DEF SortPC
      <4> QED
        BY ONLY <2>1, <3>1, <4>1
    <3>3. File = f
      BY <1>2, <2>3, LoopFacts DEF Whole, After, SortPC
    <3>4. q * w <= Len(f) /\ (q + 1) * w <= Len(f)
      <4>1. q \in 1 .. n /\ q + 1 \in 1 .. n
        BY <3>2, <1>3
      <4>2. \A k \in 1 .. n : k * w <= Len(f)
        BY <1>3, KeyIs
      <4> QED
        BY <4>1, <4>2
    <3>5. first = Rec(w, f, q + 1) /\ second = Rec(w, f, q)
      BY <1>2, <2>1, <2>3, <3>1, <3>3, <3>4 DEF BufferInv
    <3>6. ~(Rec(w, f, q + 1)[1] < Rec(w, f, q)[1])
      BY <2>3, <3>5 DEF Less
    <3>7. InOrder(w, n, f, place, i + 1, 0)
      BY <1>3, <1>4, <2>1, <3>2, <3>6, HoleInPlace
    <3> QED
      BY <3>7, <2>1
  <2> QED
    BY <1>8, <2>2, <2>3 DEF InnerEnds
<1>9. CASE LoopEnds
  <2>1. i \in Nat /\ Bound = i /\ Hole = 0 /\ Bound' = n /\ Hole' = 0 /\ i >= n
    <3>1. pc = "outer" /\ i >= job.size /\ pc' = "done" /\ job' = job
      BY <1>9 DEF LoopEnds, TypeInv, LoopTypes
    <3>2. i \in Nat
      BY DEF TypeInv, LoopTypes
    <3> QED
      BY <3>1, <3>2, <1>2 DEF Bound, Hole
  <2>2. \A j, k \in 1 .. n : j < k /\ k <= i /\ k # 0 => Ordered(w, f, place, j, k)
    BY <1>4, <2>1 DEF InOrder
  <2>3. \A k \in 1 .. n : k <= i /\ k # 0 /\ ~(k > n)
    BY <2>1, <1>3
  <2> QED
    BY <2>1, <2>2, <2>3 DEF InOrder
<1>10. CASE UNCHANGED vars
  <2>1. Bound' = Bound /\ Hole' = Hole
    BY <1>10 DEF vars, Bound, Hole
  <2> QED
    BY <2>1, <1>4
<1>11. CASE NoSource \/ SortOpen
  BY <1>11 DEF NoSource, SortOpen
<1>12. CASE GenerateOpen \/ GenerateRecord \/ CopyOpen \/ CopyRecord
  BY <1>12 DEF GenerateOpen, GenerateRecord, CopyOpen, CopyRecord, TypeInv, LoopTypes
<1> QED
  BY <1>5, <1>6, <1>7, <1>8, <1>9, <1>10, <1>11, <1>12 DEF Next

LEMMA NextSorted ==
  ASSUME TypeInv, BufferInv, SortedInv, [Next]_vars
  PROVE  SortedInv'
<1>0. job' = job /\ width' = width
  BY SameJob
<1>b. Before' = Before
  BY <1>0 DEF Before
<1> SUFFICES ASSUME job.method = "sort", pc' # "open", job.size * width <= Len(Before)
             PROVE  SortedInv'
  BY <1>0, <1>b DEF SortedInv
<1>1. CASE WriteFirst
  <2>1. PICK w, n, f, q, v :
          w = width /\ n = job.size /\ f = Whole /\ q = posSecond + 1 /\ v = Whole'
    OBVIOUS
  <2>2. pc = "compare" /\ pc' = "swap" /\ Less /\ UNCHANGED <<i, first, sorting>>
    BY <1>1 DEF WriteFirst
  <2>3. /\ w \in Nat \ {0} /\ n \in Nat /\ f \in Seq(Byte) /\ Before \in Seq(Byte)
        /\ Len(f) = Len(Before) /\ n * w <= Len(f)
        /\ \A x \in n * w + 1 .. Len(Before) : f[x] = Before[x]
        /\ \E place : Arranged(w, n, Before, f, place) /\ InOrder(w, n, f, place, Bound, Hole)
    BY <2>1, <2>2, SortedFrom
  <2>4. PICK place : Arranged(w, n, Before, f, place) /\ InOrder(w, n, f, place, Bound, Hole)
    BY <2>3
  <2>5. /\ q \in Nat \ {0} /\ i \in Nat /\ q + 1 <= i + 1 /\ i + 1 <= n
        /\ Bound = i + 1 /\ Hole = q + 1 /\ Bound' = i + 1 /\ Hole' = q
    BY <2>1, <2>2, LoopFacts DEF SortPC, Bound, Hole, sorting
  <2>6. /\ f = File /\ Exchanged(w, f, q, first, second, v)
        /\ (q + 1) * w <= Len(f) => first = Rec(w, f, q + 1)
        /\ q * w <= Len(f) => second = Rec(w, f, q)
    BY <1>1, <2>1, WholeExchanged
  <2>7. q * w <= Len(f) /\ (q + 1) * w <= Len(f)
    <3>1. q \in 1 .. n /\ q + 1 \in 1 .. n
      BY <2>3, <2>5
    <3>2. \A k \in 1 .. n : k * w <= Len(f)
      BY <2>3, KeyIs
    <3> QED
      BY <3>1, <3>2
  <2>8. PICK bound \in Nat : bound = i + 1 /\ q + 1 <= bound /\ bound <= n
    BY <2>5
  <2>9. /\ Exchanged(w, f, q, Rec(w, f, q + 1), Rec(w, f, q), v)
        /\ Rec(w, f, q + 1)[1] < Rec(w, f, q)[1]
    BY <2>2, <2>6, <2>7 DEF Less
  <2>10. PICK there : Arranged(w, n, Before, v, there) /\ InOrder(w, n, v, there, bound, q)
    <3>1. InOrder(w, n, f, place, bound, q + 1)
      BY <2>4, <2>5, <2>8
    <3> QED
      BY <2>3, <2>4, <2>5, <2>8, <2>9, <3>1, ExchangeSorts
  <2>11. Len(v) = Len(Before)
    BY <2>3, <2>6, <2>7 DEF Exchanged
  <2>12. \A x \in n * w + 1 .. Len(Before) : v[x] = Before[x]
    <3> SUFFICES ASSUME NEW x \in n * w + 1 .. Len(Before)
                 PROVE  v[x] = Before[x]
      OBVIOUS
    <3>1. PICK d \in Nat, e \in Nat : d = (q + 1) * w /\ e = n * w
      BY <2>3, <2>5
    <3>2. d <= e
      <4>1. CASE q + 1 = n
        BY <3>1, <4>1
      <4>2. CASE q + 1 < n
        <5>1. ((q + 1) * w) + w <= n * w
          BY <2>3, <2>5, <4>2, BlockAfter
        <5> QED
          BY <5>1, <3>1, <2>3
      <4> QED
        BY <4>1, <4>2, <2>3, <2>5
    <3>3. x \in d + 1 .. Len(f)
      BY <3>1, <3>2, <2>3
    <3>4. v[x] = f[x]
      BY <3>1, <3>3, <2>6 DEF Exchanged
    <3> QED
      BY <3>4, <2>3
  <2>13. InOrder(w, n, v, there, Bound', Hole')
    BY <2>5, <2>8, <2>10
  <2> QED
    BY <2>1, <2>10, <2>11, <2>12, <2>13, SortedTo
<1>2. CASE pc = "open" /\ ~WriteFirst
  <2>1. PICK w, n, f : w = width /\ n = job.size /\ f = Whole'
    OBVIOUS
  <2>2. w \in Nat \ {0} /\ n \in Nat
    BY <2>1, JobIs DEF TypeInv, Control
  <2>3. f = Before
    <3>1. Whole = Before
      <4>1. files = job.files
        BY <1>2 DEF TypeInv, FileTypes
      <4> QED
        BY <4>1, <1>2 DEF Whole, After, Before, File
    <3> QED
      BY <3>1, <2>1, <1>2, WholeKept
  <2>4. PICK place : /\ Arranged(w, n, Before, f, place)
                     /\ InOrder(w, n, f, place, 1, 0)
    BY <2>2, <2>3, ArrangedItself
  <2>5. (Bound' = 1 /\ Hole' = 0) \/ (n = 0 /\ Hole' = 0)
    <3>1. CASE SortOpen
      BY <3>1 DEF SortOpen, Bound, Hole
    <3>2. CASE NoSource
      <4>1. job.name \notin DOMAIN files
        BY <3>2 DEF NoSource
      <4>2. Before = <<>>
        BY <4>1 DEF Before, TypeInv, FileTypes
      <4>3. n * w <= 0
        BY <4>2, <2>1
      <4>4. n = 0
        <5>1. CASE 0 < n
          <6>1. PICK z \in Int : z = 0
            OBVIOUS
          <6>2. (z * w) + w <= n * w
            BY <5>1, <6>1, <2>2, BlockAfter
          <6>3. z * w = 0
            BY <6>1, <2>2
          <6>4. PICK e \in Int : e = n * w
            BY <2>2
          <6> QED
            BY <6>2, <6>3, <6>4, <4>3, <2>2
        <5> QED
          BY <5>1, <2>2
      <4>5. Hole' = 0
        BY <3>2 DEF NoSource, Hole
      <4> QED
        BY <4>4, <4>5
    <3> QED
      BY <1>2, <3>1, <3>2 DEF Next, vars, GenerateOpen, GenerateRecord, CopyOpen, CopyRecord, LoopEnds,
             ReadFirst, ReadSecond, WriteSecond, InnerEnds
  <2>6. InOrder(w, n, f, place, Bound', Hole')
    <3>1. CASE Bound' = 1 /\ Hole' = 0
      BY <3>1, <2>4
    <3>2. CASE n = 0 /\ Hole' = 0
      BY <3>2 DEF InOrder
    <3> QED
      BY <2>5, <3>1, <3>2
  <2> QED
    BY <2>1, <2>3, <2>4, <2>6, SortedTo
<1>3. CASE pc # "open" /\ ~WriteFirst
  BY <1>3, SortedKept
<1> QED
  BY <1>1, <1>2, <1>3

LEMMA SortedHolds == Spec => []SortedInv
<1>1. Init => SortedInv
  BY DEF Init, SortedInv
<1>2. TypeInv /\ BufferInv /\ SortedInv /\ [Next]_vars => SortedInv'
  BY NextSorted
<1> QED
  BY <1>1, <1>2, TypesHold, BuffersHold, PTL DEF Spec

LEMMA SortedIsEnough ==
  ASSUME TypeInv, SortedInv
  PROVE  SortsStably
<1> SUFFICES ASSUME Finished("sort"), job.size * width <= Len(Before)
             PROVE  /\ \E place \in Bijection(1 .. job.size, 1 .. job.size) :
                         /\ \A k \in 1 .. job.size : RecordsOf(After)[k] = RecordsOf(Before)[place[k]]
                         /\ \A j, k \in 1 .. job.size : j < k =>
                              \/ RecordsOf(After)[j][1] < RecordsOf(After)[k][1]
                              \/ RecordsOf(After)[j][1] = RecordsOf(After)[k][1] /\ place[j] < place[k]
                    /\ Len(After) = Len(Before)
                    /\ \A k \in job.size * width + 1 .. Len(After) : After[k] = Before[k]
  BY DEF SortsStably
<1>1. job.method = "sort" /\ pc = "done"
  BY DEF Finished
<1>2. PICK w, n, f : w = width /\ n = job.size /\ f = Whole
  OBVIOUS
<1>3. /\ w \in Nat \ {0} /\ n \in Nat /\ f \in Seq(Byte) /\ Before \in Seq(Byte)
      /\ Len(f) = Len(Before) /\ n * w <= Len(f)
      /\ \A x \in n * w + 1 .. Len(Before) : f[x] = Before[x]
      /\ \E place : Arranged(w, n, Before, f, place) /\ InOrder(w, n, f, place, Bound, Hole)
  BY <1>1, <1>2, SortedFrom
<1>4. f = After /\ Bound = n /\ Hole = 0
  BY <1>1, <1>2 DEF Whole, Bound, Hole
<1>5. PICK place : Arranged(w, n, Before, f, place) /\ InOrder(w, n, f, place, n, 0)
  BY <1>3, <1>4
<1>6. PICK m \in Nat : /\ n <= m
                       /\ \A k \in 1 .. m : RecordsOf(f)[k] = Rec(w, f, k)
                       /\ \A k \in 1 .. m : RecordsOf(Before)[k] = Rec(w, Before, k)
  <2>1. PICK l \in Nat : l = Len(f) /\ l = Len(Before)
    BY <1>3
  <2>2. n <= (l \div w) /\ (l \div w) \in Nat
    BY <2>1, <1>3, BlocksIn
  <2>3. \A k \in 1 .. (l \div w) : RecordsOf(f)[k] = Rec(w, f, k)
    BY <2>1, <1>2, <1>3, RecordsOfIs
  <2>4. \A k \in 1 .. (l \div w) : RecordsOf(Before)[k] = Rec(w, Before, k)
    BY <2>1, <1>2, <1>3, RecordsOfIs
  <2> QED
    BY <2>2, <2>3, <2>4
<1>7. /\ place \in Bijection(1 .. n, 1 .. n) /\ place \in [1 .. n -> 1 .. n]
      /\ \A k \in 1 .. n : Rec(w, f, k) = Rec(w, Before, place[k])
  BY <1>5, BijectionIs DEF Arranged
<1>8. \A k \in 1 .. n : k \in 1 .. m /\ place[k] \in 1 .. m
  BY <1>3, <1>6, <1>7
<1>9. \A k \in 1 .. n : RecordsOf(f)[k] = RecordsOf(Before)[place[k]]
  BY <1>6, <1>7, <1>8
<1>10. ASSUME NEW j \in 1 .. n, NEW k \in 1 .. n, j < k
       PROVE  \/ RecordsOf(f)[j][1] < RecordsOf(f)[k][1]
              \/ RecordsOf(f)[j][1] = RecordsOf(f)[k][1] /\ place[j] < place[k]
  <2>1. Ordered(w, f, place, j, k)
    BY <1>5, <1>10, <1>3 DEF InOrder
  <2> QED
    BY <2>1, <1>6, <1>8 DEF Ordered
<1>11. Len(f) = Len(Before) /\ \A k \in n * w + 1 .. Len(f) : f[k] = Before[k]
  BY <1>3
<1>12. \E p \in Bijection(1 .. n, 1 .. n) :
         /\ \A k \in 1 .. n : RecordsOf(f)[k] = RecordsOf(Before)[p[k]]
         /\ \A j, k \in 1 .. n : j < k =>
              \/ RecordsOf(f)[j][1] < RecordsOf(f)[k][1]
              \/ RecordsOf(f)[j][1] = RecordsOf(f)[k][1] /\ p[j] < p[k]
  BY <1>7, <1>9, <1>10
<1>13. After = f /\ job.size = n /\ width = w
  BY <1>2, <1>4
<1> QED
  BY <1>11, <1>12, <1>13

\* sort puts the first size records in the order of their first byte, keeps
\* those with the same first byte in their order, and leaves the rest of the
\* file alone: for any number of records of any length.
THEOREM SortsStablyHolds == Spec => []SortsStably
  BY SortedHolds, TypesHold, SortedIsEnough, PTL

-------------------------------------------------------------------------------
(* What copy and generate write                                              *)

\* Behind the first n records the new file is the old one.
KeptEnd(w, n, old, new) ==
  /\ n * w <= Len(old) => Len(new) = Len(old)
  /\ Len(old) < n * w => Len(new) = n * w
  /\ \A k \in n * w + 1 .. Len(new) : new[k] = old[k]

\* What the file had that is written to, unless it was emptied.
OldFile == IF job.sys THEN Before ELSE <<>>

\* One more record is written behind those that are there.
Extended(w, p, file, buffer, new) ==
  /\ \A k \in 1 .. p : new[k] = file[k]
  /\ \A j \in 1 .. w : new[p + j] = buffer[j]

LEMMA WriteNext ==
  ASSUME NEW w \in Nat \ {0}, NEW n \in Nat, NEW S, NEW old \in Seq(S), NEW file \in Seq(S),
         NEW new \in Seq(S), NEW buffer, KeptEnd(w, n, old, file), NEW p, p = n * w,
         Overwritten(w, file, p, buffer, new)
  PROVE  KeptEnd(w, n + 1, old, new) /\ Extended(w, p, file, buffer, new)
<1>1. PICK e \in Nat : e = (n + 1) * w /\ p = n * w /\ p \in Nat /\ e = p + w
  BY NextPlace
<1>2. PICK lo \in Nat, lf \in Nat, ln \in Nat : lo = Len(old) /\ lf = Len(file) /\ ln = Len(new)
  OBVIOUS
<1>3. /\ p <= lo => lf = lo
      /\ lo < p => lf = p
      /\ \A k \in p + 1 .. lf : file[k] = old[k]
  BY <1>1, <1>2 DEF KeptEnd
<1>4. /\ lf >= p + w => ln = lf
      /\ lf < p + w => ln = p + w
      /\ \A k \in 1 .. ln : k \in p + 1 .. p + w => new[k] = buffer[k - p]
      /\ \A k \in 1 .. ln : k \notin p + 1 .. p + w /\ k <= lf => new[k] = file[k]
  BY <1>1, <1>2 DEF Overwritten
<1>l. /\ p <= lo => lf = lo
      /\ lo < p => lf = p
      /\ lf >= p + w => ln = lf
      /\ lf < p + w => ln = p + w
  BY <1>3, <1>4
<1>5. (e <= lo => ln = lo) /\ (lo < e => ln = e)
  <2>1. e = p + w /\ p \in Nat /\ e \in Nat
    BY <1>1
  <2> QED
    BY ONLY <2>1, <1>l, w \in Nat, lo \in Nat, lf \in Nat, ln \in Nat
<1>6. ASSUME NEW k \in e + 1 .. ln
      PROVE  new[k] = old[k]
  <2>1. lf = ln /\ lf = lo
    <3>1. e = p + w /\ p \in Nat /\ e \in Nat /\ e < ln
      BY <1>1
    <3> QED
      BY ONLY <3>1, <1>l, w \in Nat, lo \in Nat, lf \in Nat, ln \in Nat
  <2>2. k \in 1 .. ln /\ k \notin p + 1 .. p + w /\ k <= lf /\ k \in p + 1 .. lf
    BY <1>1, <2>1
  <2> QED
    BY <2>2, <1>3, <1>4
<1>7. KeptEnd(w, n + 1, old, new)
  BY <1>1, <1>2, <1>5, <1>6 DEF KeptEnd
<1>8. ASSUME NEW k \in 1 .. p
      PROVE  new[k] = file[k]
  <2>1. k \in 1 .. ln /\ k \notin p + 1 .. p + w /\ k <= lf
    BY <1>1, <1>3, <1>4
  <2> QED
    BY <2>1, <1>4
<1>9. ASSUME NEW j \in 1 .. w
      PROVE  new[p + j] = buffer[j]
  <2>1. p + j \in 1 .. ln /\ p + j \in p + 1 .. p + w /\ (p + j) - p = j
    BY <1>1, <1>3, <1>4
  <2> QED
    BY <2>1, <1>4
<1> QED
  BY <1>1, <1>2, <1>7, <1>8, <1>9 DEF Extended

\* A sequence with the bytes of the end of another one is a suffix of it.
LEMMA SuffixIs ==
  ASSUME NEW S, NEW s \in Seq(S), NEW t \in Seq(S), Len(s) <= Len(t),
         \A k \in 1 .. Len(s) : s[k] = t[(Len(t) - Len(s)) + k]
  PROVE  IsSuffix(s, t)
<1>1. PICK m \in Nat, n \in Nat : m = Len(s) /\ n = Len(t) /\ m <= n
  OBVIOUS
<1>2. PICK a, b : a = Reverse(s) /\ b = Reverse(t)
  OBVIOUS
<1>3. a = [k \in 1 .. m |-> s[(m - k) + 1]] /\ b = [k \in 1 .. n |-> t[(n - k) + 1]]
  BY <1>1, <1>2 DEF Reverse
<1>4. a \in [1 .. m -> S] /\ b \in [1 .. n -> S]
  <2>1. \A k \in 1 .. m : s[(m - k) + 1] \in S
    BY <1>1, ElementOfSeq
  <2>2. \A k \in 1 .. n : t[(n - k) + 1] \in S
    BY <1>1, ElementOfSeq
  <2> QED
    BY <2>1, <2>2, <1>3
<1>5. a \in Seq(S) /\ b \in Seq(S) /\ Len(a) = m /\ Len(b) = n
  <2>1. a \in Buffer(m, S) /\ b \in Buffer(n, S)
    BY <1>4 DEF Buffer
  <2> QED
    BY <2>1, <1>1, BufferIsSeq
<1>6. ASSUME NEW k \in 1 .. m
      PROVE  a[k] = b[k]
  <2>1. (m - k) + 1 \in 1 .. m /\ (n - m) + ((m - k) + 1) = (n - k) + 1 /\ k \in 1 .. n
    BY <1>1
  <2>2. s[(m - k) + 1] = t[(n - k) + 1]
    BY <2>1, <1>1
  <2> QED
    BY <2>1, <2>2, <1>3
<1>7. PICK c, d : c = SubSeq(a, 1, m) /\ d = SubSeq(b, 1, m)
  OBVIOUS
<1>8. c \in Seq(S) /\ Len(c) = m /\ \A k \in 1 .. m : c[k] = a[k]
  <2>1. \A k \in 1 .. m : a[k] \in S
    BY <1>4
  <2>2. /\ SubSeq(a, 1, m) \in Seq(S)
        /\ Len(SubSeq(a, 1, m)) = IF 1 <= m THEN m - 1 + 1 ELSE 0
        /\ \A k \in 1 .. m - 1 + 1 : SubSeq(a, 1, m)[k] = a[1 + k - 1]
    BY <2>1, SubSeqProperties, 1 \in Int, m \in Int
  <2> QED
    BY <2>2, <1>1, <1>7
<1>9. d \in Seq(S) /\ Len(d) = m /\ \A k \in 1 .. m : d[k] = b[k]
  <2>1. \A k \in 1 .. m : b[k] \in S
    <3>1. \A k \in 1 .. m : k \in 1 .. n
      BY <1>1
    <3> QED
      BY <3>1, <1>4
  <2>2. /\ SubSeq(b, 1, m) \in Seq(S)
        /\ Len(SubSeq(b, 1, m)) = IF 1 <= m THEN m - 1 + 1 ELSE 0
        /\ \A k \in 1 .. m - 1 + 1 : SubSeq(b, 1, m)[k] = b[1 + k - 1]
    BY <2>1, SubSeqProperties, 1 \in Int, m \in Int
  <2> QED
    BY <2>2, <1>1, <1>7
<1>10. c = d
  BY <1>6, <1>8, <1>9, SameBytes
<1> QED
  BY <1>1, <1>2, <1>5, <1>7, <1>10 DEF IsSuffix, IsPrefix

\* The old end of a file is a suffix of the new one, behind p bytes.
EndsWith(p, rest, new) == Len(new) = p + Len(rest) /\ IsSuffix(rest, new)

LEMMA EndIsSuffix ==
  ASSUME NEW w \in Nat \ {0}, NEW n \in Nat, NEW p \in Nat, p = n * w,
         NEW S, NEW old \in Seq(S), NEW new \in Seq(S),
         KeptEnd(w, n, old, new), NEW rest, rest = SubSeq(old, p + 1, Len(old))
  PROVE  EndsWith(p, rest, new)
<1>1. p = n * w
  OBVIOUS
<1>2. PICK lo \in Nat, ln \in Nat : lo = Len(old) /\ ln = Len(new)
  OBVIOUS
<1>3. (p <= lo => ln = lo) /\ (lo < p => ln = p) /\ \A k \in p + 1 .. ln : new[k] = old[k]
  BY <1>1, <1>2 DEF KeptEnd
<1>4. /\ rest \in Seq(S)
      /\ p + 1 <= lo => Len(rest) = lo - p
      /\ ~(p + 1 <= lo) => Len(rest) = 0
      /\ \A k \in 1 .. lo - p : rest[k] = old[p + k]
  <2>1. \A k \in p + 1 .. lo : old[k] \in S
    BY <1>2, ElementOfSeq
  <2>2. /\ SubSeq(old, p + 1, lo) \in Seq(S)
        /\ Len(SubSeq(old, p + 1, lo)) = IF p + 1 <= lo THEN lo - (p + 1) + 1 ELSE 0
        /\ \A k \in 1 .. lo - (p + 1) + 1 : SubSeq(old, p + 1, lo)[k] = old[p + 1 + k - 1]
    BY <2>1, SubSeqProperties, p + 1 \in Int, lo \in Int
  <2>3. rest = SubSeq(old, p + 1, lo)
    BY <1>1, <1>2
  <2>4. lo - (p + 1) + 1 = lo - p /\ \A k \in 1 .. lo - p : p + 1 + k - 1 = p + k
    BY <1>1, <1>2
  <2> QED
    BY <2>2, <2>3, <2>4
<1>5. PICK lr \in Nat : lr = Len(rest)
  <2>1. \A s \in Seq(S) : Len(s) \in Nat
    OBVIOUS
  <2> QED
    BY <2>1, <1>4
<1>6. ln = p + lr
  <2>1. CASE p + 1 <= lo
    BY <2>1, <1>1, <1>2, <1>3, <1>4, <1>5
  <2>2. CASE ~(p + 1 <= lo)
    <3>1. lr = 0 /\ ln = p
      BY <2>2, <1>1, <1>2, <1>3, <1>4, <1>5
    <3> QED
      BY <3>1
  <2> QED
    BY <2>1, <2>2
<1>7. ASSUME NEW k \in 1 .. lr
      PROVE  rest[k] = new[(ln - lr) + k]
  <2>1. p + 1 <= lo /\ lr = lo - p
    <3>1. lr # 0
      OBVIOUS
    <3>2. p + 1 <= lo
      BY <3>1, <1>4, <1>5
    <3> QED
      BY <3>2, <1>4, <1>5
  <2>2. k \in 1 .. lo - p /\ p + k \in p + 1 .. ln /\ (ln - lr) + k = p + k
    BY <2>1, <1>6
  <2> QED
    BY <2>2, <1>3, <1>4
<1>8. IsSuffix(rest, new)
  <2>1. lr <= ln
    BY <1>6
  <2> QED
    BY <2>1, <1>2, <1>4, <1>5, <1>7, SuffixIs
<1> QED
  BY <1>1, <1>2, <1>5, <1>6, <1>8 DEF EndsWith

\* What an emptied, or kept, target holds when it has been opened.
LEMMA OpenedTarget ==
  ASSUME TypeInv, pc = "open"
  PROVE  /\ job.name \in DOMAIN Opened(job.name)
         /\ Opened(job.name)[job.name] = OldFile
         /\ \A n \in DOMAIN files : n # job.name => Opened(job.name)[n] = files[n]
         /\ DOMAIN Opened(job.name) = DOMAIN files \cup {job.name}
<1>1. files = job.files /\ \A n \in DOMAIN files : files[n] \in Seq(Value)
  BY DEF TypeInv, FileTypes
<1>2. job.sys \in BOOLEAN
  BY JobIs DEF TypeInv, Control
<1>3. /\ DOMAIN Opened(job.name) = DOMAIN files \cup {job.name}
      /\ \A n \in DOMAIN files : n # job.name \/ job.sys => Opened(job.name)[n] = files[n]
      /\ job.name \notin DOMAIN files \/ ~job.sys => Opened(job.name)[job.name] = <<>>
  BY <1>1, OpenedIs
<1>4. Opened(job.name)[job.name] = OldFile
  <2>1. CASE job.name \in DOMAIN files /\ job.sys
    BY <2>1, <1>1, <1>3 DEF OldFile, Before
  <2>2. CASE job.name \notin DOMAIN files \/ ~job.sys
    BY <2>2, <1>1, <1>3 DEF OldFile, Before
  <2> QED
    BY <2>1, <2>2
<1> QED
  BY <1>3, <1>4

\* The old file is a sequence, and nothing has been written over it yet.
LEMMA OldFileIs ==
  ASSUME job \in Job
  PROVE  OldFile \in Seq(Value) /\ \A w \in Nat \ {0} : KeptEnd(w, 0, OldFile, OldFile)
<1>1. Before \in Seq(Byte)
  BY JobIs DEF Before
<1>2. OldFile \in Seq(Value)
  BY <1>1, ByteIs DEF OldFile
<1>3. ASSUME NEW w \in Nat \ {0}
      PROVE  KeptEnd(w, 0, OldFile, OldFile)
  <2>1. PICK z \in Nat : z = 0
    OBVIOUS
  <2>2. z * w = 0
    BY <2>1
  <2>3. PICK l \in Nat : l = Len(OldFile)
    BY <1>2
  <2> QED
    BY <2>1, <2>2, <2>3 DEF KeptEnd
<1> QED
  BY <1>2, <1>3

\* The target so far: i records, or all of them.
GenerateInv ==
  job.method = "generate" =>
    /\ pc = "generate" => KeptEnd(width, i, OldFile, File)
    /\ pc = "done" => job.name \in DOMAIN files /\ KeptEnd(width, job.size, OldFile, File)

LEMMA NextGenerate ==
  ASSUME TypeInv, GenerateInv, [Next]_vars
  PROVE  GenerateInv'
<1>0. job' = job /\ width' = width
  BY SameJob
<1>o. OldFile' = OldFile
  BY <1>0 DEF OldFile, Before
<1> SUFFICES ASSUME job.method = "generate"
             PROVE  /\ pc' = "generate" => KeptEnd(width, i', OldFile, File')
                    /\ pc' = "done" => /\ job.name \in DOMAIN files'
                                       /\ KeptEnd(width, job.size, OldFile, File')
  BY <1>0, <1>o DEF GenerateInv
<1>j. width \in Nat \ {0} /\ job.size \in Nat /\ OldFile \in Seq(Value)
  BY JobIs, OldFileIs DEF TypeInv, Control
<1>1. CASE GenerateOpen
  <2>1. pc = "open" /\ pc' = "generate" /\ files' = Opened(job.name) /\ i' = 0
    BY <1>1 DEF GenerateOpen, TypeInv, LoopTypes
  <2>2. File' = OldFile
    BY <1>0, <2>1, OpenedTarget DEF File
  <2> QED
    BY <2>1, <2>2, <1>j, OldFileIs DEF TypeInv, Control
<1>2. CASE GenerateRecord
  <2>1. pc = "generate" /\ pc' = "generate" /\ i' = i + 1 /\ i \in Nat
    BY <1>2 DEF GenerateRecord, TypeInv, LoopTypes
  <2>2. PICK record \in [1 .. width -> Byte \ {Max(Byte)}] : Put(i * width, record)
    BY <1>2 DEF GenerateRecord
  <2>3. PICK w \in Nat \ {0}, n \in Nat : w = width /\ n = i
    BY <1>j, <2>1
  <2>4. PICK f, g : f = File /\ g = File'
    OBVIOUS
  <2>5. job.name \in DOMAIN files /\ f \in Seq(Value) /\ record \in Buffer(w, Value)
    BY <2>1, <2>3, <2>4 DEF TypeInv, FileTypes, File, Buffer, Value
  <2>6. g = WriteAt(f, n * w, record)
    BY <1>0, <2>2, <2>3, <2>4, <2>5 DEF Put, File
  <2>7. PICK p \in Nat : p = n * w
    BY <2>3, NextPlace
  <2>8. g \in Seq(Value) /\ Overwritten(w, f, p, record, g)
    BY <2>3, <2>5, <2>6, <2>7, ByteIs, WriteIs
  <2>9. KeptEnd(w, n, OldFile, f)
    BY <2>1, <2>3, <2>4 DEF GenerateInv
  <2>10. KeptEnd(w, n + 1, OldFile, g)
    BY <1>j, <2>3, <2>5, <2>7, <2>8, <2>9, WriteNext
  <2> QED
    BY <2>1, <2>3, <2>4, <2>10
<1>3. CASE LoopEnds
  <2>1. pc = "generate" /\ pc' = "done" /\ i = job.size /\ files' = files
    <3>1. pc = "generate" /\ i >= job.size /\ pc' = "done" /\ files' = files
      BY <1>3 DEF LoopEnds, TypeInv, LoopTypes, SortPC
    <3>2. i \in Nat /\ i <= job.size
      BY <3>1 DEF TypeInv, LoopTypes
    <3> QED
      BY <3>1, <3>2, <1>j
  <2>2. job.name \in DOMAIN files
    BY <2>1 DEF TypeInv, FileTypes
  <2> QED
    BY <2>1, <2>2, <1>0 DEF GenerateInv, File
<1>4. CASE NoSource \/ CopyOpen \/ CopyRecord \/ SortOpen
  BY <1>4 DEF NoSource, CopyOpen, CopyRecord, SortOpen, TypeInv, LoopTypes
<1>5. CASE ReadFirst \/ ReadSecond \/ WriteFirst \/ WriteSecond \/ InnerEnds
  BY <1>5 DEF ReadFirst, ReadSecond, WriteFirst, WriteSecond, InnerEnds, TypeInv, LoopTypes, SortPC
<1>6. CASE UNCHANGED vars
  BY <1>0, <1>6 DEF vars, GenerateInv, File
<1> QED
  BY <1>1, <1>2, <1>3, <1>4, <1>5, <1>6 DEF Next

LEMMA GenerateHolds == Spec => []GenerateInv
<1>1. Init => GenerateInv
  BY DEF Init, GenerateInv
<1>2. TypeInv /\ GenerateInv /\ [Next]_vars => GenerateInv'
  BY NextGenerate
<1> QED
  BY <1>1, <1>2, TypesHold, PTL DEF Spec

\* What the old end is in the two ways of opening the target.
LEMMA RestIs ==
  ASSUME NEW w \in Nat \ {0}, NEW n \in Nat, NEW p \in Nat, p = n * w,
         job \in Job, NEW new \in Seq(Value), KeptEnd(w, n, OldFile, new), NEW rest,
         rest = IF job.sys THEN SubSeq(Before, p + 1, Len(Before)) ELSE <<>>
  PROVE  EndsWith(p, rest, new)
<1>1. OldFile \in Seq(Value)
  BY OldFileIs
<1>2. rest = SubSeq(OldFile, p + 1, Len(OldFile))
  <2>1. CASE job.sys
    BY <2>1 DEF OldFile
  <2>2. CASE ~job.sys
    <3>1. OldFile = <<>> /\ rest = <<>> /\ Len(OldFile) = 0
      BY <2>2 DEF OldFile
    <3>2. SubSeq(OldFile, p + 1, 0) = <<>>
      BY SubSeqEmpty, p + 1 \in Int, 0 \in Int, 0 < p + 1
    <3> QED
      BY <3>1, <3>2
  <2> QED
    BY <2>1, <2>2
<1>3. PICK old \in Seq(Value) : old = OldFile
  BY <1>1
<1>4. KeptEnd(w, n, old, new) /\ rest = SubSeq(old, p + 1, Len(old))
  BY <1>2, <1>3
<1> QED
  BY <1>3, <1>4, EndIsSuffix

LEMMA GenerateIsEnough ==
  ASSUME TypeInv, GenerateInv
  PROVE  GeneratesRecords
<1> SUFFICES ASSUME Finished("generate")
             PROVE  GeneratesRecords
  BY DEF GeneratesRecords
<1>1. job.method = "generate" /\ pc = "done"
  BY DEF Finished
<1>2. job \in Job /\ width \in Nat \ {0} /\ job.size \in Nat
  BY JobIs DEF TypeInv, Control
<1>3. job.name \in DOMAIN files /\ KeptEnd(width, job.size, OldFile, After)
  BY <1>1 DEF GenerateInv, After
<1>4. After \in Seq(Value)
  BY <1>3 DEF After, File, TypeInv, FileTypes
<1>5. PICK w \in Nat \ {0}, n \in Nat : w = width /\ n = job.size
  BY <1>2
<1>6. PICK new \in Seq(Value) : new = After
  BY <1>4
<1>7. PICK p \in Nat : p = n * w
  OBVIOUS
<1>8. PICK rest : rest = IF job.sys THEN SubSeq(Before, p + 1, Len(Before)) ELSE <<>>
  OBVIOUS
<1>9. EndsWith(p, rest, new)
  BY <1>2, <1>3, <1>5, <1>6, <1>7, <1>8, RestIs
<1> QED
  BY <1>5, <1>6, <1>7, <1>8, <1>9 DEF GeneratesRecords, EndsWith

\* Byte k of a copy: a short last record is filled up from the one before it.
Copied(w, source, k) ==
  IF k <= Len(source) THEN source[k] ELSE IF k > w THEN source[k - w] ELSE Undefined

\* n records have been copied, next is where the source is read next.
Copying(w, n, source, old, file, buffer, next) ==
  /\ n * w <= Len(source) => next = n * w
  /\ Len(source) < n * w => next = Len(source)
  /\ n > 0 => (n - 1) * w < Len(source)
  /\ KeptEnd(w, n, old, file)
  /\ \A k \in 1 .. n * w : file[k] = Copied(w, source, k)
  /\ \A j \in 1 .. w :
       /\ n = 0 => buffer[j] = Undefined
       /\ n > 0 => buffer[j] = Copied(w, source, (n - 1) * w + j)

\* The records copied: size, or as many as the source has, a short one too.
CopiedOf(w, source, size) == Min({size, (Len(source) + w - 1) \div w})

CopyInv ==
  job.method = "copy" =>
    /\ pc = "open" => first = Filled(Undefined)
    /\ job.from \in DOMAIN files /\ job.from # job.name =>
         LET source == job.files[job.from]
             n == CopiedOf(width, source, job.size)
         IN  /\ job.from \in DOMAIN job.files
             /\ pc = "copy" => Copying(width, i, source, OldFile, File, first, readPos)
             /\ pc = "done" =>
                  /\ job.name \in DOMAIN files /\ KeptEnd(width, n, OldFile, File)
                  /\ \A k \in 1 .. n * width : File[k] = Copied(width, source, k)

\* One record more, read and written.
LEMMA CopyOne ==
  ASSUME NEW w \in Nat \ {0}, NEW n \in Nat, NEW S, NEW source \in Seq(S), NEW old \in Seq(S),
         NEW file \in Seq(S), NEW new \in Seq(S), NEW buffer, NEW b, NEW next \in Nat,
         Copying(w, n, source, old, file, buffer, next), next < Len(source),
         \A j \in 1 .. w : b[j] = IF next + j <= Len(source) THEN source[next + j] ELSE buffer[j],
         Overwritten(w, file, n * w, b, new), NEW after,
         after = IF next + w <= Len(source) THEN next + w ELSE Len(source)
  PROVE  Copying(w, n + 1, source, old, new, b, after)
<1>1. PICK p \in Nat, e \in Nat : p = n * w /\ e = (n + 1) * w /\ e = p + w
  BY NextPlace
<1>2. PICK l \in Nat : l = Len(source)
  OBVIOUS
<1>3. next = p /\ p < l
  <2>1. (p <= l => next = p) /\ (l < p => next = l)
    BY <1>1, <1>2 DEF Copying
  <2> QED
    BY <2>1, <1>1, <1>2
<1>4. /\ KeptEnd(w, n + 1, old, new)
      /\ \A k \in 1 .. p : new[k] = file[k]
      /\ \A j \in 1 .. w : new[p + j] = b[j]
  <2>1. KeptEnd(w, n, old, file)
    BY DEF Copying
  <2>2. KeptEnd(w, n + 1, old, new) /\ Extended(w, p, file, b, new)
    BY <2>1, <1>1, WriteNext
  <2> QED
    BY <2>2 DEF Extended
<1>5. ASSUME NEW j \in 1 .. w
      PROVE  b[j] = Copied(w, source, p + j)
  <2>1. CASE p + j <= l
    BY <2>1, <1>2, <1>3 DEF Copied
  <2>2. CASE ~(p + j <= l)
    <3>1. b[j] = buffer[j]
      BY <2>2, <1>2, <1>3
    <3>2. CASE n = 0
      <4>1. p = 0
        BY <3>2, <1>1
      <4>2. buffer[j] = Undefined
        BY <3>2 DEF Copying
      <4>3. Copied(w, source, p + j) = Undefined
        <5>1. ~(p + j > w)
          BY <4>1
        <5> QED
          BY <5>1, <2>2, <1>2 DEF Copied
      <4> QED
        BY <3>1, <4>2, <4>3
    <3>3. CASE n > 0
      <4>1. PICK o \in Nat : o = (n - 1) * w /\ o + w = p
        <5>1. n \in Nat \ {0}
          BY <3>3
        <5>2. (n - 1) * w \in Nat /\ ((n - 1) * w) + w = n * w
          BY <5>1, RecordBounds
        <5> QED
          BY <5>2, <1>1
      <4>2. buffer[j] = Copied(w, source, o + j)
        BY <3>3, <4>1 DEF Copying
      <4>3. o + j <= l /\ (p + j) - w = o + j /\ p + j > w
        <5>1. j \in Nat /\ 1 <= j /\ j <= w
          OBVIOUS
        <5>2. o + j <= l
          BY ONLY <5>1, <4>1, <1>1, <1>2, <1>3, w \in Nat
        <5>3. (p + j) - w = o + j
          BY ONLY <5>1, <4>1, <1>1, w \in Nat
        <5>4. p + j > w
          BY ONLY <5>1, <4>1, <1>1, w \in Nat
        <5> QED
          BY <5>2, <5>3, <5>4
      <4>4. Copied(w, source, o + j) = source[o + j]
        BY <4>3, <1>2 DEF Copied
      <4>5. Copied(w, source, p + j) = source[o + j]
        BY <4>3, <2>2, <1>2 DEF Copied
      <4> QED
        BY <3>1, <4>2, <4>4, <4>5
    <3> QED
      BY <3>2, <3>3
  <2> QED
    BY <2>1, <2>2
<1>6. ASSUME NEW k \in 1 .. e
      PROVE  new[k] = Copied(w, source, k)
  <2>1. CASE k <= p
    <3>1. file[k] = Copied(w, source, k)
      BY <2>1, <1>1 DEF Copying
    <3> QED
      BY <2>1, <3>1, <1>4
  <2>2. CASE k > p
    <3>1. k - p \in 1 .. w /\ p + (k - p) = k
      BY <2>2, <1>1
    <3> QED
      BY <3>1, <1>4, <1>5
  <2> QED
    BY <2>1, <2>2, <1>1
<1>7. (e <= l => after = e) /\ (l < e => after = l)
  BY <1>1, <1>2, <1>3
<1>8. (n + 1) - 1 = n /\ n + 1 > 0 /\ n + 1 # 0
  OBVIOUS
<1> QED
  BY <1>1, <1>2, <1>3, <1>4, <1>5, <1>6, <1>7, <1>8 DEF Copying

\* Where the loop ends, n is the number of records asked for or there.
LEMMA CopyEnds ==
  ASSUME NEW w \in Nat \ {0}, NEW n \in Nat, NEW size \in Nat, n <= size,
         NEW S, NEW source \in Seq(S), NEW old, NEW file, NEW buffer, NEW next \in Nat,
         Copying(w, n, source, old, file, buffer, next),
         n >= size \/ next >= Len(source)
  PROVE  CopiedOf(w, source, size) = n
<1>1. PICK l \in Nat : l = Len(source)
  OBVIOUS
<1>2. PICK c \in Nat : c = (l + w - 1) \div w /\ \A k \in Nat : k <= c <=> (k * w) <= l + w - 1
  <2>1. PICK x \in Nat : x = l + w - 1
    OBVIOUS
  <2> QED
    BY <2>1, BlocksIn
<1>3. n <= c
  <2>1. CASE n = 0
    BY <2>1
  <2>2. CASE n > 0
    <3>1. PICK o \in Nat : o = (n - 1) * w /\ o + w = n * w
      BY <2>2, RecordBounds
    <3>2. o < l
      BY <2>2, <3>1, <1>1 DEF Copying
    <3>3. n * w <= l + w - 1
      BY <3>1, <3>2
    <3> QED
      BY <3>3, <1>2
  <2> QED
    BY <2>1, <2>2
<1>4. next >= l => c <= n
  <2> SUFFICES ASSUME next >= l
               PROVE  c <= n
    OBVIOUS
  <2>1. PICK p \in Nat, e \in Nat : p = n * w /\ e = (n + 1) * w /\ e = p + w
    BY NextPlace
  <2>2. l <= p
    BY <2>1, <1>1 DEF Copying
  <2>3. ~(e <= l + w - 1)
    BY <2>1, <2>2, <1>1
  <2>4. ~(n + 1 <= c)
    BY <2>1, <2>3, <1>2, n + 1 \in Nat
  <2> QED
    BY <2>4, <1>2
<1>5. CopiedOf(w, source, size) = IF size <= c THEN size ELSE c
  <2>1. CopiedOf(w, source, size) = Min({size, c})
    BY <1>1, <1>2 DEF CopiedOf
  <2> QED
    BY <2>1, <1>2, MinTwo
<1>6. CASE n >= size
  BY <1>3, <1>5, <1>6
<1>7. CASE next >= Len(source)
  <2>1. c = n
    BY <1>1, <1>2, <1>3, <1>4, <1>7
  <2> QED
    BY <2>1, <1>5
<1> QED
  BY <1>6, <1>7

\* Nothing is copied where copy has just opened its files.
LEMMA CopyStarts ==
  ASSUME NEW w \in Nat \ {0}, NEW S, NEW source \in Seq(S), NEW old, KeptEnd(w, 0, old, old),
         NEW buffer, \A j \in 1 .. w : buffer[j] = Undefined
  PROVE  Copying(w, 0, source, old, old, buffer, 0)
<1>1. PICK z \in Nat : z = 0 * w /\ z = 0
  OBVIOUS
<1>2. PICK l \in Nat : l = Len(source)
  OBVIOUS
<1>3. (z <= l => 0 = z) /\ (l < z => 0 = l)
  BY <1>1
<1>4. \A k \in 1 .. z : old[k] = Copied(w, source, k)
  BY <1>1
<1> QED
  BY <1>1, <1>2, <1>3, <1>4 DEF Copying

\* The source is there, and as it was.
LEMMA CopySource ==
  ASSUME TypeInv, SourceInv, job.method = "copy", job.from \in DOMAIN job.files,
         job.from # job.name
  PROVE  /\ job.from \in DOMAIN files /\ files[job.from] = job.files[job.from]
         /\ job.files[job.from] \in Seq(Value)
<1>1. files[job.from] = job.files[job.from]
  BY DEF SourceInv, Spared
<1>2. job.from \in DOMAIN files
  BY DEF TypeInv, FileTypes
<1> QED
  BY <1>1, <1>2 DEF TypeInv, FileTypes

LEMMA NextCopy ==
  ASSUME TypeInv, SourceInv, CopyInv, [Next]_vars
  PROVE  CopyInv'
<1>0. job' = job /\ width' = width
  BY SameJob
<1>o. OldFile' = OldFile
  BY <1>0 DEF OldFile, Before
<1>j. width \in Nat \ {0} /\ job.size \in Nat /\ OldFile \in Seq(Value)
  BY JobIs, OldFileIs DEF TypeInv, Control
<1> DEFINE source == job.files[job.from]
           Made(n, file) ==
             /\ KeptEnd(width, n, OldFile, file)
             /\ \A k \in 1 .. n * width : file[k] = Copied(width, source, k)
<1> SUFFICES ASSUME job.method = "copy"
             PROVE  /\ pc' = "open" => first' = Filled(Undefined)
                    /\ job.from \in DOMAIN files' /\ job.from # job.name =>
                         /\ job.from \in DOMAIN job.files
                         /\ pc' = "copy" => Copying(width, i', source, OldFile, File', first', readPos')
                         /\ pc' = "done" =>
                              /\ job.name \in DOMAIN files'
                              /\ Made(CopiedOf(width, source, job.size), File')
  BY <1>0, <1>o DEF CopyInv, Filled
<1>1. CASE CopyOpen
  <2> SUFFICES ASSUME job.from # job.name
               PROVE  /\ job.from \in DOMAIN job.files
                      /\ Copying(width, i', source, OldFile, File', first', readPos')
    BY <1>1 DEF CopyOpen
  <2>1. /\ pc = "open" /\ files' = Opened(job.name) /\ first' = first
        /\ i' = 0 /\ readPos' = 0 /\ job.from \in DOMAIN files /\ files = job.files
    BY <1>1 DEF CopyOpen, TypeInv, LoopTypes, FileTypes
  <2>2. File' = OldFile
    BY <1>0, <2>1, OpenedTarget DEF File
  <2>3. KeptEnd(width, 0, OldFile, OldFile)
    BY <1>j, OldFileIs DEF TypeInv, Control
  <2>4. \A k \in 1 .. width : first[k] = Undefined
    BY <2>1 DEF CopyInv, Filled
  <2>5. source \in Seq(Value)
    BY <2>1 DEF TypeInv, FileTypes
  <2>6. PICK w \in Nat \ {0}, s \in Seq(Value) : w = width /\ s = source
    BY <1>j, <2>5
  <2>7. Copying(w, 0, s, OldFile, OldFile, first, 0)
    BY <2>3, <2>4, <2>6, CopyStarts
  <2> QED
    BY <2>1, <2>2, <2>6, <2>7
<1>2. CASE CopyRecord
  <2>1. /\ pc = "copy" /\ pc' = "copy" /\ i' = i + 1 /\ i \in Nat /\ i < job.size
        /\ first' = ReadAt(files[job.from], readPos, first) /\ readPos \in Nat
        /\ readPos < Len(files[job.from])
        /\ readPos' = Min({readPos + width, Len(files[job.from])})
        /\ Put(i * width, first') /\ job.name \in DOMAIN files
        /\ File \in Seq(Value) /\ first \in Buffer(width, Value)
    BY <1>2 DEF CopyRecord, TypeInv, LoopTypes, FileTypes, BufferTypes, File
  <2>2. DOMAIN files' = DOMAIN files
    BY <2>1 DEF Put
  <2> SUFFICES ASSUME job.from \in DOMAIN files, job.from # job.name
               PROVE  /\ job.from \in DOMAIN job.files
                      /\ Copying(width, i', source, OldFile, File', first', readPos')
    BY <2>1, <2>2
  <2>3. /\ job.from \in DOMAIN job.files
        /\ Copying(width, i, source, OldFile, File, first, readPos)
    BY <2>1 DEF CopyInv
  <2>4. files[job.from] = source /\ source \in Seq(Value)
    BY <2>3, CopySource
  <2>5. PICK w \in Nat \ {0}, n \in Nat : w = width /\ n = i
    BY <1>j, <2>1
  <2>6. PICK s \in Seq(Value) : s = source
    BY <2>4
  <2>7. PICK f, g, a, b : f = File /\ g = File' /\ a = first /\ b = first'
    OBVIOUS
  <2>8. PICK next, after : next = readPos /\ after = readPos' /\ next \in Nat
    BY <2>1
  <2>9. PICK l \in Nat : l = Len(s)
    OBVIOUS
  <2>10. PICK p \in Nat : p = n * w
    OBVIOUS
  <2>11. f \in Seq(Value) /\ a \in Buffer(w, Value)
    BY <2>1, <2>5, <2>7
  <2>12. next < Len(s) /\ after = Min({next + w, l})
    BY <2>1, <2>4, <2>5, <2>6, <2>8, <2>9
  <2>13. after = IF next + w <= Len(s) THEN next + w ELSE Len(s)
    BY <2>8, <2>9, <2>12, MinTwo, next + w \in Int, l \in Int
  <2>14. b = ReadAt(s, next, a)
    BY <2>1, <2>4, <2>6, <2>7, <2>8
  <2>15. /\ b \in Buffer(w, Value)
         /\ \A j \in 1 .. w : b[j] = IF next + j <= Len(s) THEN s[next + j] ELSE a[j]
    <3>1. width \in Nat \ {0} /\ w = width /\ next \in Nat /\ s \in Seq(Value) /\ a \in Buffer(width, Value)
      BY <1>j, <2>5, <2>8, <2>11
    <3>2. ReadAt(s, next, a) \in Buffer(width, Value)
      BY ONLY <3>1, ReadIs
    <3>3. \A j \in 1 .. width :
            ReadAt(s, next, a)[j] = IF next + j <= Len(s) THEN s[next + j] ELSE a[j]
      BY ONLY <3>1, ReadIs
    <3> QED
      BY ONLY <3>1, <3>2, <3>3, <2>14
  <2>16. g = WriteAt(f, p, b)
    BY <1>0, <2>1, <2>5, <2>7, <2>10 DEF Put, File
  <2>17. g \in Seq(Value) /\ Overwritten(w, f, n * w, b, g)
    BY <2>5, <2>10, <2>11, <2>15, <2>16, ByteIs, WriteIs
  <2>18. Copying(w, n, s, OldFile, f, a, next)
    BY <2>3, <2>5, <2>6, <2>7, <2>8
  <2>19. PICK old \in Seq(Value) : old = OldFile
    BY <1>j
  <2>20. Copying(w, n, s, old, f, a, next)
    BY <2>18, <2>19
  <2>21. Copying(w, n + 1, s, old, g, b, after)
    BY <2>8, <2>11, <2>12, <2>13, <2>15, <2>17, <2>20, CopyOne
  <2> QED
    BY <2>1, <2>3, <2>5, <2>6, <2>7, <2>8, <2>19, <2>21
<1>3. CASE LoopEnds
  <2>1. /\ pc = "copy" /\ pc' = "done" /\ files' = files /\ File' = File
        /\ i >= job.size \/ readPos >= Len(files[job.from])
    BY <1>0, <1>3 DEF LoopEnds, TypeInv, LoopTypes, SortPC, File
  <2>2. i \in Nat /\ i <= job.size /\ readPos \in Nat /\ job.name \in DOMAIN files
    BY <2>1 DEF TypeInv, LoopTypes, FileTypes
  <2> SUFFICES ASSUME job.from \in DOMAIN files, job.from # job.name
               PROVE  /\ job.from \in DOMAIN job.files
                      /\ Made(CopiedOf(width, source, job.size), File)
    BY <2>1, <2>2
  <2>3. /\ job.from \in DOMAIN job.files
        /\ Copying(width, i, source, OldFile, File, first, readPos)
    BY <2>1 DEF CopyInv
  <2>4. files[job.from] = source /\ source \in Seq(Value)
    BY <2>3, CopySource
  <2>5. PICK w \in Nat \ {0}, n \in Nat, size \in Nat : w = width /\ n = i /\ size = job.size
    BY <1>j, <2>2
  <2>6. PICK s \in Seq(Value), next \in Nat : s = source /\ next = readPos
    BY <2>2, <2>4
  <2>7. Copying(w, n, s, OldFile, File, first, next)
    BY <2>3, <2>5, <2>6
  <2>8. n <= size /\ (n >= size \/ next >= Len(s))
    BY <2>1, <2>2, <2>4, <2>5, <2>6
  <2>9. CopiedOf(w, s, size) = n
    BY <2>7, <2>8, CopyEnds
  <2>10. Made(n, File)
    BY <2>5, <2>6, <2>7 DEF Copying
  <2> QED
    BY <2>3, <2>5, <2>6, <2>9, <2>10
<1>4. CASE NoSource
  <2>1. pc = "open" /\ pc' = "done" /\ files' = files /\ job.from \notin DOMAIN files
    BY <1>4 DEF NoSource
  <2> QED
    BY <2>1
<1>5. CASE GenerateOpen \/ GenerateRecord \/ SortOpen
  BY <1>5 DEF GenerateOpen, GenerateRecord, SortOpen, TypeInv, LoopTypes
<1>6. CASE ReadFirst \/ ReadSecond \/ WriteFirst \/ WriteSecond \/ InnerEnds
  BY <1>6 DEF ReadFirst, ReadSecond, WriteFirst, WriteSecond, InnerEnds, TypeInv, LoopTypes, SortPC
<1>7. CASE UNCHANGED vars
  BY <1>0, <1>7 DEF vars, CopyInv, File
<1> QED
  BY <1>1, <1>2, <1>3, <1>4, <1>5, <1>6, <1>7 DEF Next

LEMMA CopyHolds == Spec => []CopyInv
<1>1. Init => CopyInv
  BY DEF Init, CopyInv
<1>2. TypeInv /\ SourceInv /\ CopyInv /\ [Next]_vars => CopyInv'
  BY NextCopy
<1> QED
  BY <1>1, <1>2, TypesHold, SourceHolds, PTL DEF Spec

LEMMA CopyIsEnough ==
  ASSUME TypeInv, SourceInv, CopyInv
  PROVE  CopiesRecords
<1> SUFFICES ASSUME Finished("copy"), job.from # job.name, job.from \in DOMAIN files
             PROVE  CopiesRecords
  BY DEF CopiesRecords
<1>1. job.method = "copy" /\ pc = "done"
  BY DEF Finished
<1>2. job \in Job /\ width \in Nat \ {0} /\ job.size \in Nat
  BY JobIs DEF TypeInv, Control
<1>3. PICK source : source = job.files[job.from]
  OBVIOUS
<1>4. PICK n : n = CopiedOf(width, source, job.size)
  OBVIOUS
<1>5. /\ job.from \in DOMAIN job.files /\ job.name \in DOMAIN files
      /\ KeptEnd(width, n, OldFile, After)
      /\ \A k \in 1 .. n * width : After[k] = Copied(width, source, k)
  BY <1>1, <1>3, <1>4 DEF CopyInv, After
<1>6. files[job.from] = source /\ source \in Seq(Value)
  BY <1>1, <1>3, <1>5, CopySource
<1>7. n \in Nat /\ n = Min({job.size, (Len(source) + width - 1) \div width})
  <2>w. PICK w \in Nat \ {0} : w = width
    BY <1>2
  <2>l. PICK l \in Nat : l = Len(source)
    BY <1>6
  <2>x. PICK x \in Nat : x = l + w - 1
    OBVIOUS
  <2>1. w = width /\ l = Len(source) /\ x = l + w - 1
    BY <2>w, <2>l, <2>x
  <2>2. x \div w \in Nat
    BY <2>1
  <2> QED
    BY <1>2, <1>4, <2>1, <2>2, MinTwo DEF CopiedOf
<1>8. After \in Seq(Value)
  BY <1>5 DEF After, File, TypeInv, FileTypes
<1>9. PICK w \in Nat \ {0} : w = width
  BY <1>2
<1>10. PICK new \in Seq(Value) : new = After
  BY <1>8
<1>11. PICK p \in Nat : p = n * w
  BY <1>7
<1>12. PICK rest : rest = IF job.sys THEN SubSeq(Before, p + 1, Len(Before)) ELSE <<>>
  OBVIOUS
<1>13. EndsWith(p, rest, new)
  BY <1>2, <1>5, <1>7, <1>9, <1>10, <1>11, <1>12, RestIs
<1>14. \A k \in 1 .. p :
         new[k] = IF k <= Len(source) THEN source[k]
                  ELSE IF k > width THEN source[k - width] ELSE Undefined
  BY <1>5, <1>9, <1>10, <1>11 DEF Copied
<1> QED
  BY <1>6, <1>7, <1>9, <1>10, <1>11, <1>12, <1>13, <1>14 DEF CopiesRecords, EndsWith

(* copy and generate write the records they were asked for, the last one of  *)
(* a copy filled up with what the buffer held, and keep the end of a longer  *)
(* file only if it was opened without O_TRUNC.                               *)
THEOREM WritesRecordsHolds == Spec => []WritesRecords
<1>1. TypeInv /\ SourceInv /\ GenerateInv /\ CopyInv => WritesRecords
  BY GenerateIsEnough, CopyIsEnough DEF WritesRecords
<1> QED
  BY <1>1, TypesHold, SourceHolds, GenerateHolds, CopyHolds, PTL

-------------------------------------------------------------------------------
(* DirectoryList: the walk of a tree as a sequence, where the entries below  *)
(* each entry lie in it, and which part of it the loops of a process have    *)
(* passed.                                                                   *)

\* Induction: a set of numbers that 0 is in, and with a number the next one,
\* has all of them.
LEMMA AllNumbers ==
  ASSUME NEW T, 0 \in T, \A n \in Nat : n \in T => n + 1 \in T
  PROVE  \A n \in Nat : n \in T
<1> DEFINE R == {s \in Nat \X Nat : s[1] < s[2]}
           Missing == {n \in Nat : n \notin T}
<1>1. IsWellFoundedOn(R, Nat)
  BY NatLessThanWellFounded DEF OpToRel
<1> SUFFICES ASSUME Missing # {} PROVE FALSE
  OBVIOUS
<1> HIDE DEF R
<1>2. PICK x \in Missing : \A y \in Missing : <<y, x>> \notin R
  <2>1. Missing \subseteq Nat
    OBVIOUS
  <2> HIDE DEF Missing
  <2> QED
    BY <1>1, <2>1, WFMin
<1>3. x \in Nat /\ x \notin T /\ x # 0
  OBVIOUS
<1>4. x - 1 \in Nat /\ (x - 1) + 1 = x /\ x - 1 < x
  BY <1>3
<1>5. x - 1 \notin Missing
  <2>1. <<x - 1, x>> \in R
    BY <1>3, <1>4 DEF R
  <2> QED
    BY <1>2, <2>1
<1> QED
  BY <1>3, <1>4, <1>5

\* The same up to some number.
LEMMA NumbersTo ==
  ASSUME NEW T, NEW m \in Nat, 0 \in T, \A n \in Nat : n < m /\ n \in T => n + 1 \in T
  PROVE  \A n \in 0 .. m : n \in T
<1> DEFINE U == T \cup {n \in Nat : n > m}
<1>1. 0 \in U
  OBVIOUS
<1>2. ASSUME NEW n \in Nat, n \in U PROVE n + 1 \in U
  BY <1>2
<1> HIDE DEF U
<1>3. \A n \in Nat : n \in U
  BY <1>1, <1>2, AllNumbers
<1> QED
  BY <1>3 DEF U

-------------------------------------------------------------------------------
(* FlattenSeq joins its pieces: piece k lies from start[k - 1] to start[k].  *)
Joins(pieces, start, joined) ==
  /\ start \in [0 .. Len(pieces) -> Nat] /\ start[0] = 0
  /\ Len(joined) = start[Len(pieces)]
  /\ \A k \in 1 .. Len(pieces) :
       /\ start[k] = start[k - 1] + Len(pieces[k])
       /\ \A j \in 1 .. Len(pieces[k]) : joined[start[k - 1] + j] = pieces[k][j]
  /\ \A x \in 1 .. Len(joined) : \E k \in 1 .. Len(pieces) : start[k - 1] < x /\ x <= start[k]

\* What the function that FlattenSeq is made of satisfies.
Flattening(seqs, flatten) ==
  flatten = [k \in 1 .. Len(seqs) |-> IF k = 1 THEN seqs[k] ELSE flatten[k - 1] \o seqs[k]]

LEMMA FlatteningExists ==
  ASSUME NEW S, NEW pieces \in Seq(Seq(S)), Len(pieces) > 0
  PROVE  \E flatten : Flattening(pieces, flatten) /\ FlattenSeq(pieces) = flatten[Len(pieces)]
<1> DEFINE m == Len(pieces)
           Up(n, f) == f = [k \in 1 .. n |-> IF k = 1 THEN pieces[k] ELSE f[k - 1] \o pieces[k]]
           T == {n \in Nat : \E f : Up(n, f)}
<1>1. 0 \in T
  <2>1. Up(0, <<>>)
    OBVIOUS
  <2> QED
    BY <2>1
<1>2. ASSUME NEW n \in Nat, n \in T
      PROVE  n + 1 \in T
  <2>1. PICK f : Up(n, f)
    BY <1>2
  <2> DEFINE g == [k \in 1 .. n + 1 |-> IF k = 1 THEN pieces[k] ELSE f[k - 1] \o pieces[k]]
  <2>2. \A k \in 1 .. n : g[k] = f[k]
    <3>1. \A k \in 1 .. n : f[k] = IF k = 1 THEN pieces[k] ELSE f[k - 1] \o pieces[k]
      BY <2>1
    <3>2. \A k \in 1 .. n : g[k] = IF k = 1 THEN pieces[k] ELSE f[k - 1] \o pieces[k]
      OBVIOUS
    <3> QED
      BY <3>1, <3>2
  <2>3. \A k \in 1 .. n + 1 : k # 1 => g[k - 1] = f[k - 1]
    <3> HIDE DEF g
    <3>1. \A k \in 1 .. n + 1 : k # 1 => k - 1 \in 1 .. n
      OBVIOUS
    <3> QED
      BY <3>1, <2>2
  <2>4. g = [k \in 1 .. n + 1 |-> IF k = 1 THEN pieces[k] ELSE g[k - 1] \o pieces[k]]
    BY <2>3
  <2>5. Up(n + 1, g)
    BY <2>4
  <2> HIDE DEF Up, g
  <2>6. n + 1 \in Nat /\ \E h : Up(n + 1, h)
    BY <2>5
  <2> QED
    BY <2>6
<1>3. m \in T
  <2> HIDE DEF T
  <2>1. m \in Nat
    OBVIOUS
  <2> QED
    BY <1>1, <1>2, <2>1, AllNumbers
<1>4. \E f : Flattening(pieces, f)
  BY <1>3 DEF Flattening
<1> DEFINE F == CHOOSE flatten : flatten = [k \in 1 .. Len(pieces) |-> IF k = 1 THEN pieces[k] ELSE flatten[k - 1] \o pieces[k]]
<1>5. Flattening(pieces, F)
  BY <1>4 DEF Flattening
<1>6. FlattenSeq(pieces) = F[Len(pieces)]
  <2>1. Len(pieces) # 0
    OBVIOUS
  <2> QED
    BY <2>1 DEF FlattenSeq
<1> QED
  BY <1>5, <1>6

\* A sequence and another behind it.
IsJoin(c, a, b) ==
  /\ Len(c) = Len(a) + Len(b)
  /\ \A j \in 1 .. Len(a) : c[j] = a[j]
  /\ \A j \in 1 .. Len(b) : c[Len(a) + j] = b[j]

LEMMA JoinIs ==
  ASSUME NEW S, NEW a \in Seq(S), NEW b \in Seq(S)
  PROVE  a \o b \in Seq(S) /\ IsJoin(a \o b, a, b)
<1>a. PICK la \in Nat : la = Len(a)
  OBVIOUS
<1>b. PICK lb \in Nat : lb = Len(b)
  OBVIOUS
<1>1. la = Len(a) /\ lb = Len(b) /\ la \in Nat /\ lb \in Nat
  BY <1>a, <1>b
<1>2. /\ a \o b \in Seq(S) /\ Len(a \o b) = la + lb
      /\ \A k \in 1 .. la + lb : (a \o b)[k] = IF k <= la THEN a[k] ELSE b[k - la]
  BY <1>1, ConcatProperties
<1>3. ASSUME NEW j \in 1 .. la
      PROVE  (a \o b)[j] = a[j]
  <2>1. j \in 1 .. la + lb /\ j <= la
    BY <1>1
  <2> QED
    BY <1>2, <2>1
<1>4. ASSUME NEW j \in 1 .. lb
      PROVE  (a \o b)[la + j] = b[j]
  <2>1. la + j \in 1 .. la + lb /\ ~(la + j <= la) /\ (la + j) - la = j
    BY <1>1
  <2> QED
    BY <1>2, <2>1
<1> QED
  BY <1>1, <1>2, <1>3, <1>4 DEF IsJoin

\* The pieces up to k: where each of them is in what has been joined.
JoinsTo(k, pieces, start, joined) ==
  /\ Len(joined) = start[k]
  /\ \A x \in 1 .. k :
       /\ start[x] = start[x - 1] + Len(pieces[x]) /\ start[x] <= start[k]
       /\ \A j \in 1 .. Len(pieces[x]) : joined[start[x - 1] + j] = pieces[x][j]
  /\ \A x \in 1 .. Len(joined) : \E y \in 1 .. k : start[y - 1] < x /\ x <= start[y]

LEMMA JoinStep ==
  ASSUME NEW S, NEW pieces \in Seq(Seq(S)), NEW k \in Nat, k < Len(pieces),
         NEW start \in [0 .. Len(pieces) -> Nat], start[k + 1] = start[k] + Len(pieces[k + 1]),
         NEW a \in Seq(S), JoinsTo(k, pieces, start, a), NEW b, b = a \o pieces[k + 1]
  PROVE  JoinsTo(k + 1, pieces, start, b)
<1>m. PICK m \in Nat : m = Len(pieces)
  OBVIOUS
<1>1. m = Len(pieces) /\ m \in Nat /\ k + 1 \in 1 .. m /\ k \in 0 .. m /\ k + 1 \in 0 .. m
  BY <1>m
<1>2. PICK piece \in Seq(S) : piece = pieces[k + 1]
  BY <1>1
<1>s. PICK s \in Nat : s = start[k]
  BY <1>1
<1>t. PICK t \in Nat : t = start[k + 1]
  BY <1>1
<1>l. PICK l \in Nat : l = Len(piece)
  BY <1>2
<1>3. s = start[k] /\ t = start[k + 1] /\ l = Len(piece) /\ s \in Nat /\ t \in Nat /\ l \in Nat
  BY <1>s, <1>t, <1>l
<1>4. t = s + l /\ Len(a) = s
  BY <1>2, <1>3 DEF JoinsTo
<1>5. /\ b \in Seq(S) /\ Len(b) = t
      /\ \A j \in 1 .. s : b[j] = a[j]
      /\ \A j \in 1 .. l : b[s + j] = piece[j]
  <2>1. b \in Seq(S) /\ IsJoin(b, a, piece)
    BY <1>2, JoinIs
  <2> QED
    BY ONLY <2>1, <1>3, <1>4 DEF IsJoin
<1>6. ASSUME NEW x \in 1 .. k
      PROVE  /\ start[x] = start[x - 1] + Len(pieces[x]) /\ start[x] <= t
             /\ \A j \in 1 .. Len(pieces[x]) : b[start[x - 1] + j] = pieces[x][j]
  <2>a. x - 1 \in 0 .. m /\ x \in 0 .. m /\ x \in 1 .. m
    BY <1>1
  <2>b. pieces[x] \in Seq(S)
    BY <2>a, <1>1
  <2>u. PICK u \in Nat : u = start[x - 1]
    BY <2>a, <1>1
  <2>v. PICK v \in Nat : v = start[x]
    BY <2>a, <1>1
  <2>w. PICK w \in Nat : w = Len(pieces[x])
    BY <2>b
  <2>1. u = start[x - 1] /\ v = start[x] /\ w = Len(pieces[x]) /\ u \in Nat /\ v \in Nat /\ w \in Nat
    BY <2>u, <2>v, <2>w
  <2>2. v = u + w /\ v <= s /\ \A j \in 1 .. w : a[u + j] = pieces[x][j]
    BY <2>1, <1>3 DEF JoinsTo
  <2>3. ASSUME NEW j \in 1 .. w
        PROVE  b[u + j] = pieces[x][j]
    <3>j. j \in Nat /\ 1 <= j /\ j <= w
      BY <2>w
    <3>1. u + j \in Nat /\ 1 <= u + j
      BY ONLY <3>j, u \in Nat
    <3>v. v = u + w /\ v <= s /\ u \in Nat /\ v \in Nat /\ w \in Nat /\ s \in Nat
      BY <2>1, <2>2, <1>3
    <3>2. u + j <= s
      BY ONLY <3>j, <3>v
    <3>3. u + j \in 1 .. s
      BY <3>1, <3>2, <1>3
    <3> QED
      BY <3>3, <2>2, <1>5
  <2>4. v <= t
    <3>1. v <= s /\ t = s + l
      BY <2>2, <1>4
    <3> QED
      BY ONLY <3>1, v \in Nat, s \in Nat, t \in Nat, l \in Nat
  <2> QED
    BY <2>1, <2>2, <2>3, <2>4
<1>7. ASSUME NEW x \in 1 .. Len(b)
      PROVE  \E y \in 1 .. k + 1 : start[y - 1] < x /\ x <= start[y]
  <2>1. CASE x <= s
    <3>1. x \in 1 .. Len(a)
      BY <2>1, <1>3, <1>4, <1>5
    <3>2. PICK y \in 1 .. k : start[y - 1] < x /\ x <= start[y]
      BY <3>1 DEF JoinsTo
    <3>3. y \in 1 .. k + 1
      OBVIOUS
    <3> QED
      BY <3>2, <3>3
  <2>2. CASE ~(x <= s)
    <3>1. k + 1 \in 1 .. k + 1 /\ (k + 1) - 1 = k /\ s < x /\ x <= t
      BY <2>2, <1>3, <1>4, <1>5
    <3> QED
      BY <3>1, <1>3
  <2> QED
    BY <2>1, <2>2
<1>8. /\ start[k + 1] = start[(k + 1) - 1] + Len(pieces[k + 1]) /\ start[k + 1] <= t
      /\ \A j \in 1 .. Len(pieces[k + 1]) : b[start[(k + 1) - 1] + j] = pieces[k + 1][j]
  <2>1. (k + 1) - 1 = k
    OBVIOUS
  <2>2. t = s + Len(piece) /\ t <= t /\ \A j \in 1 .. Len(piece) : b[s + j] = piece[j]
    <3>1. \A j \in 1 .. Len(piece) : b[s + j] = piece[j]
      BY <1>5, <1>l
    <3>2. t = s + Len(piece)
      BY <1>4, <1>l
    <3>3. t <= t
      BY <1>3
    <3> QED
      BY <3>1, <3>2, <3>3
  <2>3. /\ start[k + 1] = start[k] + Len(pieces[k + 1]) /\ start[k + 1] <= t
        /\ \A j \in 1 .. Len(pieces[k + 1]) : b[start[k] + j] = pieces[k + 1][j]
    BY ONLY <2>2, <1>2, <1>3
  <2> QED
    BY ONLY <2>1, <2>3
<1>9. \A x \in 1 .. k + 1 : x \in 1 .. k \/ x = k + 1
  OBVIOUS
<1> QED
  BY <1>3, <1>5, <1>6, <1>7, <1>8, <1>9 DEF JoinsTo

LEMMA FlattenIs ==
  ASSUME NEW S, NEW pieces \in Seq(Seq(S))
  PROVE  FlattenSeq(pieces) \in Seq(S) /\ \E start : Joins(pieces, start, FlattenSeq(pieces))
<1>1. CASE Len(pieces) = 0
  <2>1. pieces = <<>> /\ FlattenSeq(pieces) = <<>>
    BY <1>1 DEF FlattenSeq
  <2>2. PICK start : start = [k \in 0 .. 0 |-> 0]
    OBVIOUS
  <2>3. Joins(<<>>, start, <<>>)
    BY <2>2 DEF Joins
  <2>4. <<>> \in Seq(S)
    OBVIOUS
  <2> QED
    BY <2>1, <2>3, <2>4
<1>2. CASE Len(pieces) > 0
  <2>m. PICK m \in Nat : m = Len(pieces)
    OBVIOUS
  <2>1. m = Len(pieces) /\ m \in Nat \ {0} /\ \A k \in 1 .. m : pieces[k] \in Seq(S)
    BY <1>2, <2>m
  <2>2. PICK flatten : Flattening(pieces, flatten) /\ FlattenSeq(pieces) = flatten[m]
    BY <1>2, <2>1, FlatteningExists
  <2>3. PICK acc : acc = [k \in 0 .. m |-> IF k = 0 THEN <<>> ELSE flatten[k]]
    OBVIOUS
  <2>4. acc[0] = <<>> /\ FlattenSeq(pieces) = acc[m]
    BY <2>1, <2>2, <2>3
  <2>5. ASSUME NEW k \in 0 .. m - 1, acc[k] \in Seq(S)
        PROVE  acc[k + 1] = acc[k] \o pieces[k + 1] /\ acc[k + 1] \in Seq(S)
    <3>1. k + 1 \in 1 .. m /\ (k + 1) - 1 = k /\ k \in 0 .. m /\ k + 1 \in 0 .. m
      BY <2>1
    <3>2. flatten[k + 1] = IF k + 1 = 1 THEN pieces[k + 1] ELSE flatten[(k + 1) - 1] \o pieces[k + 1]
      BY <3>1, <2>1, <2>2 DEF Flattening
    <3>3. pieces[k + 1] \in Seq(S) /\ acc[k + 1] = flatten[k + 1]
      BY <3>1, <2>1, <2>3
    <3>4. acc[k + 1] = acc[k] \o pieces[k + 1]
      <4>1. CASE k = 0
        <5>1. <<>> \o pieces[k + 1] = pieces[k + 1]
          BY <3>3, ConcatEmptySeq
        <5> QED
          BY <5>1, <4>1, <3>2, <3>3, <2>4
      <4>2. CASE k # 0
        <5>1. acc[k] = flatten[k] /\ k + 1 # 1
          BY <4>2, <3>1, <2>3
        <5> QED
          BY <5>1, <3>1, <3>2, <3>3
      <4> QED
        BY <4>1, <4>2
    <3>5. acc[k] \o pieces[k + 1] \in Seq(S)
      BY <2>5, <3>3
    <3> QED
      BY <3>4, <3>5
  <2>6. \A k \in 0 .. m : acc[k] \in Seq(S)
    <3> DEFINE T == {k \in Nat : k <= m => acc[k] \in Seq(S)}
    <3>1. 0 \in T
      <4>1. <<>> \in Seq(S)
        OBVIOUS
      <4> QED
        BY <4>1, <2>4
    <3>2. ASSUME NEW n \in Nat, n < m, n \in T
          PROVE  n + 1 \in T
      <4>1. n \in 0 .. m - 1 /\ acc[n] \in Seq(S)
        BY <3>2, <2>1
      <4>2. acc[n + 1] \in Seq(S)
        BY <4>1, <2>5
      <4> QED
        BY <4>2
    <3> HIDE DEF T
    <3>3. \A n \in 0 .. m : n \in T
      BY <3>1, <3>2, <2>1, NumbersTo
    <3> QED
      BY <3>3 DEF T
  <2>7. PICK start : start = [k \in 0 .. m |-> Len(acc[k])]
    OBVIOUS
  <2>8. start \in [0 .. m -> Nat] /\ start[0] = 0
    <3>1. \A s \in Seq(S) : Len(s) \in Nat
      OBVIOUS
    <3>2. start[0] = 0
      BY <2>1, <2>4, <2>7
    <3> QED
      BY <3>1, <3>2, <2>6, <2>7
  <2>9. \A k \in 0 .. m : JoinsTo(k, pieces, start, acc[k])
    <3> DEFINE T == {k \in Nat : k <= m => JoinsTo(k, pieces, start, acc[k])}
    <3>1. 0 \in T
      <4>1. Len(acc[0]) = 0
        BY <2>4
      <4> QED
        BY <4>1, <2>8 DEF JoinsTo
    <3>2. ASSUME NEW n \in Nat, n < m, n \in T
          PROVE  n + 1 \in T
      <4>1. n \in 0 .. m - 1 /\ n \in 0 .. m /\ n + 1 \in 0 .. m /\ n + 1 \in 1 .. m
        BY <3>2, <2>1
      <4>2. JoinsTo(n, pieces, start, acc[n]) /\ acc[n] \in Seq(S) /\ pieces[n + 1] \in Seq(S)
        BY <3>2, <4>1, <2>1, <2>6
      <4>3. acc[n + 1] = acc[n] \o pieces[n + 1]
        BY <4>1, <4>2, <2>5
      <4>4. start[n + 1] = start[n] + Len(pieces[n + 1])
        <5>1. Len(acc[n] \o pieces[n + 1]) = Len(acc[n]) + Len(pieces[n + 1])
          BY ONLY <4>2, JoinIs DEF IsJoin
        <5> QED
          BY <5>1, <4>1, <4>3, <2>7
      <4>5. JoinsTo(n + 1, pieces, start, acc[n + 1])
        BY <3>2, <4>2, <4>3, <4>4, <2>1, <2>8, JoinStep
      <4> QED
        BY <4>5
    <3> HIDE DEF T
    <3>3. \A n \in 0 .. m : n \in T
      BY <3>1, <3>2, <2>1, NumbersTo
    <3> QED
      BY <3>3 DEF T
  <2>10. JoinsTo(m, pieces, start, acc[m])
    BY <2>1, <2>9
  <2>11. Joins(pieces, start, acc[m])
    BY <2>1, <2>8, <2>10 DEF Joins, JoinsTo
  <2> QED
    BY <2>1, <2>4, <2>6, <2>11
<1> QED
  BY <1>1, <1>2

-------------------------------------------------------------------------------
(* The walk through a tree, when the directories in u cannot be read: it is  *)
(* made of a piece for each entry.                                           *)

BelowIn(u, walk, n) ==
  CASE n \in Dots -> <<>>
    [] n \in Directory \ u -> <<n>> \o walk[n]
    [] OTHER -> <<n>>
Pieces(u, walk, d) == [k \in DOMAIN Entries[d] |-> BelowIn(u, walk, Entries[d][k])]
WalkOf(u) == CHOOSE walk : walk = [d \in Directory |-> FlattenSeq(Pieces(u, walk, d))]

LEMMA WalkIs == Walk = WalkOf(unreadable)
  BY DEF Walk, WalkOf, Pieces, BelowIn, Below, Opens

IsHeight(height) ==
  /\ height \in [Directory -> 0 .. MaxProcesses - 1]
  /\ \A d \in Directory : \A k \in DOMAIN Entries[d] :
       Entries[d][k] \in Directory => height[Entries[d][k]] < height[d]

LEMMA HeightExists == \E height : IsHeight(height)
<1>1. PICK height \in [Directory -> 0 .. MaxProcesses - 1] :
        \A d \in Directory : \A n \in Range(Entries[d]) \cap Directory : height[n] < height[d]
  BY TreeAssumption
<1>2. ASSUME NEW d \in Directory, NEW k \in DOMAIN Entries[d], Entries[d][k] \in Directory
      PROVE  height[Entries[d][k]] < height[d]
  BY <1>1, <1>2 DEF Range
<1> QED
  BY <1>1, <1>2 DEF IsHeight

LEMMA EntriesAre ==
  ASSUME NEW d \in Directory
  PROVE  /\ Entries[d] \in Seq(Node \cup Dots) /\ Len(Entries[d]) \in Nat
         /\ DOMAIN Entries[d] = 1 .. Len(Entries[d])
         /\ \A k \in 1 .. Len(Entries[d]) : Entries[d][k] \in Node \cup Dots
  BY DirectoryListAssumption

LEMMA HeightIs ==
  ASSUME NEW height, IsHeight(height)
  PROVE  MaxProcesses \in Nat /\ \A d \in Directory : height[d] \in Nat /\ height[d] < MaxProcesses
<1>1. PICK m \in Nat : m = MaxProcesses
  BY DirectoryListAssumption
<1>2. ASSUME NEW d \in Directory
      PROVE  height[d] \in Nat /\ height[d] < m
  BY <1>1 DEF IsHeight
<1> QED
  BY <1>1, <1>2

\* There is such a walk: it is put together from the lowest directories up.
LEMMA WalkExists ==
  ASSUME NEW u
  PROVE  WalkOf(u) = [d \in Directory |-> FlattenSeq(Pieces(u, WalkOf(u), d))]
<1>1. PICK height : IsHeight(height)
  BY HeightExists
<1>2. PICK m : m = MaxProcesses /\ m \in Nat /\ \A d \in Directory : height[d] \in Nat /\ height[d] < m
  BY <1>1, HeightIs
<1> DEFINE Low(n) == {d \in Directory : height[d] < n}
           Up(n, walk) == walk = [d \in Low(n) |-> FlattenSeq(Pieces(u, walk, d))]
           T == {n \in Nat : \E walk : Up(n, walk)}
<1>3. 0 \in T
  <2>1. Low(0) = {}
    BY <1>2
  <2>2. Up(0, [d \in {} |-> 0])
    BY <2>1
  <2> QED
    BY <2>2
<1>4. ASSUME NEW n \in Nat, n \in T
      PROVE  n + 1 \in T
  <2>1. PICK walk : Up(n, walk)
    BY <1>4
  <2> DEFINE more == [d \in Low(n + 1) |-> FlattenSeq(Pieces(u, walk, d))]
  <2>2. ASSUME NEW d \in Low(n)
        PROVE  more[d] = walk[d]
    <3>1. d \in Low(n + 1)
      BY <1>2
    <3>2. walk[d] = FlattenSeq(Pieces(u, walk, d))
      BY <2>1
    <3> QED
      BY <3>1, <3>2
  <2>3. ASSUME NEW d \in Low(n + 1)
        PROVE  Pieces(u, more, d) = Pieces(u, walk, d)
    <3>1. ASSUME NEW k \in DOMAIN Entries[d]
          PROVE  BelowIn(u, more, Entries[d][k]) = BelowIn(u, walk, Entries[d][k])
      <4>1. CASE Entries[d][k] \in Directory
        <5>1. height[Entries[d][k]] < height[d]
          BY <1>1, <4>1 DEF IsHeight
        <5>2. Entries[d][k] \in Low(n)
          BY <5>1, <1>2, <4>1
        <5>3. more[Entries[d][k]] = walk[Entries[d][k]]
          BY <5>2, <2>2
        <5> HIDE DEF more
        <5> QED
          BY <5>3 DEF BelowIn
      <4>2. CASE Entries[d][k] \notin Directory
        BY <4>2 DEF BelowIn
      <4> QED
        BY <4>1, <4>2
    <3> HIDE DEF more
    <3> QED
      BY <3>1 DEF Pieces
  <2>4. Up(n + 1, more)
    <3>1. \A d \in Low(n + 1) : FlattenSeq(Pieces(u, more, d)) = FlattenSeq(Pieces(u, walk, d))
      BY <2>3
    <3>2. PICK g : g = more
      OBVIOUS
    <3>3. g = [d \in Low(n + 1) |-> FlattenSeq(Pieces(u, walk, d))]
      BY <3>2
    <3>4. \A d \in Low(n + 1) : FlattenSeq(Pieces(u, g, d)) = FlattenSeq(Pieces(u, walk, d))
      BY <3>1, <3>2
    <3> HIDE DEF more, Low
    <3>5. Up(n + 1, g)
      BY <3>3, <3>4
    <3> QED
      BY <3>2, <3>5
  <2> HIDE DEF Up, more
  <2>5. n + 1 \in Nat /\ \E g : Up(n + 1, g)
    BY <2>4
  <2> QED
    BY <2>5
<1>5. m \in T
  <2> HIDE DEF T
  <2>1. \A n \in Nat : n \in T
    BY <1>3, <1>4, AllNumbers
  <2> QED
    BY <1>2, <2>1
<1>6. Low(m) = Directory
  BY <1>2
<1>7. \E walk : walk = [d \in Directory |-> FlattenSeq(Pieces(u, walk, d))]
  <2>1. PICK walk : walk = [d \in Low(m) |-> FlattenSeq(Pieces(u, walk, d))]
    BY <1>5
  <2> HIDE DEF Low
  <2> QED
    BY <2>1, <1>6
<1> QED
  BY <1>7 DEF WalkOf

\* The walk consists of entries of the tree, and its pieces lie one behind the
\* other.
StartOf(u, d) == CHOOSE start : Joins(Pieces(u, WalkOf(u), d), start, WalkOf(u)[d])

LEMMA PiecesJoin ==
  ASSUME NEW u, NEW d \in Directory,
         \A k \in DOMAIN Entries[d] :
           Entries[d][k] \in Directory => WalkOf(u)[Entries[d][k]] \in Seq(Node)
  PROVE  /\ WalkOf(u)[d] \in Seq(Node)
         /\ Joins(Pieces(u, WalkOf(u), d), StartOf(u, d), WalkOf(u)[d])
<1>1. PICK w : w = WalkOf(u)
  OBVIOUS
<1>m. PICK m \in Nat : m = Len(Entries[d])
  BY EntriesAre
<1>2. m \in Nat /\ DOMAIN Entries[d] = 1 .. m /\ \A k \in 1 .. m : Entries[d][k] \in Node \cup Dots
  BY <1>m, EntriesAre
<1>3. ASSUME NEW k \in 1 .. m
      PROVE  BelowIn(u, w, Entries[d][k]) \in Seq(Node)
  <2>1. PICK e : e = Entries[d][k] /\ e \in Node \cup Dots
    BY <1>2
  <2>2. e \in Directory => w[e] \in Seq(Node)
    BY <2>1, <1>1, <1>2
  <2>3. <<>> \in Seq(Node)
    OBVIOUS
  <2>4. e \in Node => <<e>> \in Seq(Node)
    OBVIOUS
  <2>5. CASE e \in Dots
    <3>1. BelowIn(u, w, e) = <<>>
      <4>1. e \notin Directory
        BY <2>5, TreeAssumption DEF Node
      <4> QED
        BY <2>5, <4>1 DEF BelowIn
    <3> QED
      BY <3>1, <2>1, <2>3
  <2>6. CASE e \notin Dots /\ e \in Directory \ u
    <3>1. BelowIn(u, w, e) = <<e>> \o w[e]
      BY <2>6 DEF BelowIn
    <3>2. <<e>> \o w[e] \in Seq(Node)
      BY <2>1, <2>2, <2>4, <2>6
    <3> QED
      BY <3>1, <3>2, <2>1
  <2>7. CASE e \notin Dots /\ e \notin Directory \ u
    <3>1. BelowIn(u, w, e) = <<e>>
      BY <2>7 DEF BelowIn
    <3> QED
      BY <3>1, <2>1, <2>4, <2>7
  <2> QED
    BY <2>5, <2>6, <2>7
<1>4. Pieces(u, w, d) \in Seq(Seq(Node))
  <2>1. Pieces(u, w, d) = [k \in 1 .. m |-> BelowIn(u, w, Entries[d][k])]
    BY <1>2 DEF Pieces
  <2>2. \A g : g = [k \in 1 .. m |-> BelowIn(u, w, Entries[d][k])] => g \in [1 .. m -> Seq(Node)]
    BY <1>3
  <2>3. Pieces(u, w, d) \in [1 .. m -> Seq(Node)]
    BY <2>1, <2>2
  <2> QED
    BY <2>3, <1>2
<1>5. w[d] = FlattenSeq(Pieces(u, w, d))
  <2>1. w = [e \in Directory |-> FlattenSeq(Pieces(u, w, e))]
    BY <1>1, WalkExists
  <2> QED
    BY <2>1
<1>6. w[d] \in Seq(Node) /\ \E start : Joins(Pieces(u, w, d), start, w[d])
  BY <1>4, <1>5, FlattenIs
<1> QED
  BY <1>1, <1>6 DEF StartOf

LEMMA WalkTypes ==
  ASSUME NEW u
  PROVE  \A d \in Directory : WalkOf(u)[d] \in Seq(Node)
<1>1. PICK height : IsHeight(height)
  BY HeightExists
<1>2. PICK m : m = MaxProcesses /\ m \in Nat /\ \A d \in Directory : height[d] \in Nat /\ height[d] < m
  BY <1>1, HeightIs
<1> DEFINE T == {n \in Nat : \A d \in Directory : height[d] < n => WalkOf(u)[d] \in Seq(Node)}
<1>3. 0 \in T
  BY <1>2
<1>4. ASSUME NEW n \in Nat, n \in T
      PROVE  n + 1 \in T
  <2> SUFFICES ASSUME NEW d \in Directory, height[d] < n + 1
               PROVE  WalkOf(u)[d] \in Seq(Node)
    OBVIOUS
  <2>1. ASSUME NEW k \in DOMAIN Entries[d], Entries[d][k] \in Directory
        PROVE  WalkOf(u)[Entries[d][k]] \in Seq(Node)
    <3>1. PICK e \in Directory : e = Entries[d][k]
      BY <2>1
    <3>2. height[e] < height[d]
      BY <3>1, <1>1 DEF IsHeight
    <3>3. height[e] < n
      <4>1. PICK a \in Nat : a = height[e]
        BY <1>2
      <4>2. PICK b \in Nat : b = height[d]
        BY <1>2
      <4> QED
        BY <4>1, <4>2, <3>2
    <3> QED
      BY <3>1, <3>3, <1>4
  <2> QED
    BY <2>1, PiecesJoin
<1>5. m \in T
  <2> HIDE DEF T
  <2>1. \A n \in Nat : n \in T
    BY <1>3, <1>4, AllNumbers
  <2> QED
    BY <1>2, <2>1
<1> QED
  BY <1>5, <1>2

\* The piece of entry n in the walk through a directory, from a to b.
PieceAt(u, walk, n, whole, a, b) ==
  /\ n \in Dots => b = a
  /\ n \notin Dots => whole[a + 1] = n
  /\ n \notin Dots /\ n \notin Directory \ u => b = a + 1
  /\ n \in Directory \ u =>
       /\ b = a + 1 + Len(walk[n])
       /\ \A j \in 1 .. Len(walk[n]) : whole[a + 1 + j] = walk[n][j]

LaidOut(u, walk, d, start) ==
  /\ start \in [0 .. Len(Entries[d]) -> Nat] /\ start[0] = 0
  /\ Len(walk[d]) = start[Len(Entries[d])]
  /\ \A k \in 1 .. Len(Entries[d]) :
       PieceAt(u, walk, Entries[d][k], walk[d], start[k - 1], start[k])
  /\ \A x \in 1 .. Len(walk[d]) : \E k \in 1 .. Len(Entries[d]) : start[k - 1] < x /\ x <= start[k]

LEMMA PieceIs ==
  ASSUME NEW u, NEW walk, NEW n \in Node \cup Dots, n \in Directory => walk[n] \in Seq(Node),
         NEW whole, NEW a \in Nat, NEW b, NEW piece, piece = BelowIn(u, walk, n),
         b = a + Len(piece), \A j \in 1 .. Len(piece) : whole[a + j] = piece[j]
  PROVE  PieceAt(u, walk, n, whole, a, b)
<1>1. CASE n \in Dots
  <2>1. n \notin Directory
    BY <1>1, TreeAssumption DEF Node
  <2>2. piece = <<>>
    BY <1>1, <2>1 DEF BelowIn
  <2>3. b = a
    BY <2>2
  <2> QED
    BY ONLY <1>1, <2>1, <2>3 DEF PieceAt
<1>2. CASE n \notin Dots /\ n \notin Directory \ u
  <2>1. piece = <<n>>
    BY <1>2 DEF BelowIn
  <2>2. Len(piece) = 1 /\ piece[1] = n
    <3>1. Len(<<n>>) = 1 /\ <<n>>[1] = n
      OBVIOUS
    <3> QED
      BY <2>1, <3>1
  <2>3. b = a + 1 /\ whole[a + 1] = n
    BY <2>2
  <2> QED
    BY <1>2, <2>3 DEF PieceAt
<1>3. CASE n \notin Dots /\ n \in Directory \ u
  <2>1. piece = <<n>> \o walk[n] /\ <<n>> \in Seq(Node) /\ walk[n] \in Seq(Node)
    BY <1>3 DEF BelowIn, Node
  <2>l. Len(walk[n]) \in Nat
    BY ONLY <2>1
  <2>2. PICK l \in Nat : l = Len(walk[n])
    BY <2>l
  <2>3. IsJoin(piece, <<n>>, walk[n])
    BY <2>1, JoinIs
  <2>4. Len(<<n>>) = 1 /\ <<n>>[1] = n
    OBVIOUS
  <2>5. /\ Len(piece) = 1 + l /\ piece[1] = n
        /\ \A j \in 1 .. l : piece[1 + j] = walk[n][j]
    BY ONLY <2>2, <2>3, <2>4 DEF IsJoin
  <2>6. b = a + 1 + l
    <3>1. b = a + Len(piece) /\ a \in Nat /\ l \in Nat
      OBVIOUS
    <3>2. b = a + (1 + l)
      BY ONLY <3>1, <2>5
    <3> QED
      BY ONLY <3>2, a \in Nat, l \in Nat
  <2>7. whole[a + 1] = n
    <3>1. 1 \in 1 .. Len(piece)
      BY <2>5, <2>2
    <3> QED
      BY <3>1, <2>5
  <2>8. ASSUME NEW j \in 1 .. l
        PROVE  whole[a + 1 + j] = walk[n][j]
    <3>1. 1 + j \in 1 .. Len(piece) /\ a + (1 + j) = a + 1 + j
      BY <2>5, <2>2
    <3>2. whole[a + (1 + j)] = piece[1 + j]
      BY <3>1
    <3> QED
      BY <3>1, <3>2, <2>5
  <2> QED
    BY <1>3, <2>2, <2>6, <2>7, <2>8 DEF PieceAt
<1> QED
  BY <1>1, <1>2, <1>3

LEMMA WalkIsLaidOut ==
  ASSUME NEW u, NEW d \in Directory
  PROVE  LaidOut(u, WalkOf(u), d, StartOf(u, d))
<1>1. PICK w : w = WalkOf(u)
  OBVIOUS
<1>2. PICK start : start = StartOf(u, d)
  OBVIOUS
<1>m. PICK m \in Nat : m = Len(Entries[d])
  BY EntriesAre
<1>3. m \in Nat /\ DOMAIN Entries[d] = 1 .. m /\ \A k \in 1 .. m : Entries[d][k] \in Node \cup Dots
  BY <1>m, EntriesAre
<1>4. \A e \in Directory : w[e] \in Seq(Node)
  BY <1>1, WalkTypes
<1>5. Joins(Pieces(u, w, d), start, w[d])
  BY <1>1, <1>2, <1>4, PiecesJoin
<1>6. PICK pieces : pieces = Pieces(u, w, d)
  OBVIOUS
<1>7. Len(pieces) = m /\ \A k \in 1 .. m : pieces[k] = BelowIn(u, w, Entries[d][k])
  <2>1. pieces = [k \in 1 .. m |-> BelowIn(u, w, Entries[d][k])]
    BY <1>6, <1>3 DEF Pieces
  <2> QED
    BY <2>1, <1>3
<1>8. /\ start \in [0 .. m -> Nat] /\ start[0] = 0 /\ Len(w[d]) = start[m]
      /\ \A k \in 1 .. m : /\ start[k] = start[k - 1] + Len(pieces[k])
                           /\ \A j \in 1 .. Len(pieces[k]) : w[d][start[k - 1] + j] = pieces[k][j]
      /\ \A x \in 1 .. Len(w[d]) : \E k \in 1 .. m : start[k - 1] < x /\ x <= start[k]
  BY <1>5, <1>6, <1>7 DEF Joins
<1>9. ASSUME NEW k \in 1 .. m
      PROVE  PieceAt(u, w, Entries[d][k], w[d], start[k - 1], start[k])
  <2>1. PICK n \in Node \cup Dots : n = Entries[d][k]
    BY <1>3
  <2>2. k - 1 \in 0 .. m
    BY <1>3
  <2>3. PICK a \in Nat : a = start[k - 1]
    BY <2>2, <1>8
  <2>4. PICK piece : piece = pieces[k]
    OBVIOUS
  <2>5. start[k] = a + Len(piece) /\ \A j \in 1 .. Len(piece) : w[d][a + j] = piece[j]
    BY <2>3, <2>4, <1>8
  <2>6. piece = BelowIn(u, w, n)
    BY <2>1, <2>4, <1>7
  <2>7. n \in Directory => w[n] \in Seq(Node)
    BY <1>4
  <2>8. PieceAt(u, w, n, w[d], a, start[k])
    BY ONLY <2>5, <2>6, <2>7, PieceIs, n \in Node \cup Dots, a \in Nat
  <2> QED
    BY <2>1, <2>3, <2>8
<1> QED
  BY <1>1, <1>2, <1>m, <1>8, <1>9 DEF LaidOut

\* Node n is in the walk through directory d; it is the entry e or below it.
Holds(u, d, n) == \E x \in 1 .. Len(WalkOf(u)[d]) : WalkOf(u)[d][x] = n
Within(u, e, n) == n = e \/ (e \in Directory \ u /\ Holds(u, e, n))

\* Place x of a walk through d belongs to entry k: to itself, or to a place in
\* the walk through it.
InPiece(u, d, k, x, a) ==
  /\ StartOf(u, d)[k - 1] = a /\ a < x /\ x <= StartOf(u, d)[k] /\ Entries[d][k] \in Node
  /\ \/ x = a + 1 /\ WalkOf(u)[d][x] = Entries[d][k]
     \/ /\ Entries[d][k] \in Directory \ u
        /\ x - a - 1 \in 1 .. Len(WalkOf(u)[Entries[d][k]])
        /\ WalkOf(u)[d][x] = WalkOf(u)[Entries[d][k]][x - a - 1]

LEMMA WalkLength ==
  ASSUME NEW u, NEW d \in Directory
  PROVE  Len(WalkOf(u)[d]) \in Nat /\ \A x \in 1 .. Len(WalkOf(u)[d]) : WalkOf(u)[d][x] \in Node
<1>1. PICK w \in Seq(Node) : w = WalkOf(u)[d]
  BY WalkTypes
<1>2. Len(w) \in Nat /\ \A x \in 1 .. Len(w) : w[x] \in Node
  OBVIOUS
<1> QED
  BY <1>1, <1>2

LEMMA PieceOf ==
  ASSUME NEW u, NEW d \in Directory, NEW x \in 1 .. Len(WalkOf(u)[d])
  PROVE  \E k \in 1 .. Len(Entries[d]) : \E a \in Nat : InPiece(u, d, k, x, a)
<1>m. PICK m \in Nat : m = Len(Entries[d])
  BY EntriesAre
<1>1. PICK w : w = WalkOf(u)
  OBVIOUS
<1>2. PICK start : start = StartOf(u, d)
  OBVIOUS
<1>3. LaidOut(u, w, d, start)
  BY <1>1, <1>2, WalkIsLaidOut
<1>4. PICK k \in 1 .. m : start[k - 1] < x /\ x <= start[k]
  BY <1>1, <1>3, <1>m DEF LaidOut
<1>5. k - 1 \in 0 .. m /\ k \in 0 .. m
  BY <1>m
<1>6. PICK a \in Nat : a = start[k - 1]
  BY <1>5, <1>m, <1>3 DEF LaidOut
<1>7. PICK b \in Nat : b = start[k]
  BY <1>5, <1>m, <1>3 DEF LaidOut
<1>8. PICK e \in Node \cup Dots : e = Entries[d][k]
  BY <1>m, EntriesAre
<1>9. PieceAt(u, w, e, w[d], a, b)
  BY <1>3, <1>m, <1>6, <1>7, <1>8 DEF LaidOut
<1>10. x \in Nat /\ a < x /\ x <= b
  <2>1. Len(w[d]) \in Nat
    BY <1>1, WalkLength
  <2> QED
    BY <2>1, <1>1, <1>4, <1>6, <1>7
<1>11. e \notin Dots /\ e \in Node
  <2>1. b # a
    BY <1>10
  <2> QED
    BY <2>1, <1>9 DEF PieceAt
<1>12. CASE x = a + 1
  <2>1. w[d][x] = e
    BY <1>12, <1>11, <1>9 DEF PieceAt
  <2>2. InPiece(u, d, k, x, a)
    BY <2>1, <1>12, <1>1, <1>2, <1>6, <1>7, <1>8, <1>10, <1>11 DEF InPiece
  <2> QED
    BY <2>2, <1>m
<1>13. CASE x # a + 1
  <2>1. e \in Directory \ u
    <3>1. b # a + 1
      BY <1>13, <1>10
    <3> QED
      BY <3>1, <1>9, <1>11 DEF PieceAt
  <2>2. PICK l \in Nat : l = Len(w[e])
    BY <2>1, <1>1, WalkLength
  <2>3. b = a + 1 + l /\ \A j \in 1 .. l : w[d][a + 1 + j] = w[e][j]
    BY <2>1, <2>2, <1>9 DEF PieceAt
  <2>4. x - a - 1 \in 1 .. l /\ a + 1 + (x - a - 1) = x
    BY <2>3, <1>10, <1>13
  <2>5. w[d][x] = w[e][x - a - 1]
    BY <2>3, <2>4
  <2>6. InPiece(u, d, k, x, a)
    BY <2>1, <2>2, <2>4, <2>5, <1>1, <1>2, <1>6, <1>7, <1>8, <1>10, <1>11 DEF InPiece
  <2> QED
    BY <2>6, <1>m
<1> QED
  BY <1>12, <1>13

\* Where entry k of a directory, and what follows it, begins.
StartTypes(m, start, length) ==
  /\ \A k \in 0 .. m : start[k] \in Nat /\ start[k] <= length
  /\ \A j, k \in 0 .. m : j <= k => start[j] <= start[k]

LEMMA StartsGrow ==
  ASSUME NEW u, NEW d \in Directory
  PROVE  StartTypes(Len(Entries[d]), StartOf(u, d), Len(WalkOf(u)[d]))
<1>m. PICK m \in Nat : m = Len(Entries[d])
  BY EntriesAre
<1>1. PICK w : w = WalkOf(u)
  OBVIOUS
<1>2. PICK start : start = StartOf(u, d)
  OBVIOUS
<1>3. LaidOut(u, w, d, start)
  BY <1>1, <1>2, WalkIsLaidOut
<1>4. start \in [0 .. m -> Nat] /\ start[m] = Len(w[d])
  BY <1>3, <1>m DEF LaidOut
<1>5. ASSUME NEW n \in Nat, n < m
      PROVE  start[n] <= start[n + 1]
  <2>1. n + 1 \in 1 .. m /\ (n + 1) - 1 = n /\ n \in 0 .. m /\ n + 1 \in 0 .. m
    BY <1>5
  <2>2. PICK e \in Node \cup Dots : e = Entries[d][n + 1]
    BY <2>1, <1>m, EntriesAre
  <2>a. PICK a \in Nat : a = start[n]
    BY <2>1, <1>4
  <2>b. PICK b \in Nat : b = start[n + 1]
    BY <2>1, <1>4
  <2>3. PieceAt(u, w, e, w[d], a, b)
    BY <2>1, <2>2, <2>a, <2>b, <1>3, <1>m DEF LaidOut
  <2>4. CASE e \in Directory \ u
    <3>1. PICK l \in Nat : l = Len(w[e])
      BY <2>4, <1>1, WalkLength
    <3>2. b = a + 1 + l
      BY <2>3, <2>4, <3>1 DEF PieceAt
    <3> QED
      BY <3>2, <2>a, <2>b
  <2>5. CASE e \notin Directory \ u
    <3>1. b = a \/ b = a + 1
      BY <2>3, <2>5 DEF PieceAt
    <3> QED
      BY <3>1, <2>a, <2>b
  <2> QED
    BY <2>4, <2>5
<1>6. ASSUME NEW j \in 0 .. m
      PROVE  \A n \in 0 .. m : j <= n => start[j] <= start[n]
  <2>a. PICK a \in Nat : a = start[j]
    BY <1>4
  <2> DEFINE T == {n \in Nat : n <= m /\ j <= n => a <= start[n]}
  <2>1. 0 \in T
    BY <2>a
  <2>2. ASSUME NEW n \in Nat, n < m, n \in T
        PROVE  n + 1 \in T
    <3>1. n \in 0 .. m /\ n + 1 \in 0 .. m
      BY <2>2
    <3>b. PICK b \in Nat : b = start[n]
      BY <3>1, <1>4
    <3>c. PICK c \in Nat : c = start[n + 1]
      BY <3>1, <1>4
    <3>2. b <= c
      BY <2>2, <3>b, <3>c, <1>5
    <3>3. j <= n + 1 => a <= c
      <4>1. CASE j <= n
        <5>1. a <= b
          BY <2>2, <4>1, <3>b
        <5> QED
          BY <5>1, <3>2
      <4>2. CASE j = n + 1
        BY <4>2, <2>a, <3>c
      <4> QED
        BY <4>1, <4>2
    <3> QED
      BY <3>3, <3>c
  <2> HIDE DEF T
  <2>3. \A n \in 0 .. m : n \in T
    BY <2>1, <2>2, NumbersTo
  <2> QED
    BY <2>3, <2>a DEF T
<1>7. \A k \in 0 .. m : start[k] \in Nat /\ start[k] <= start[m]
  BY <1>4, <1>6
<1> QED
  BY <1>1, <1>2, <1>m, <1>4, <1>6, <1>7 DEF StartTypes

\* What is below an entry is below its directory.
LEMMA BelowEntry ==
  ASSUME NEW u, NEW d \in Directory, NEW k \in 1 .. Len(Entries[d]),
         Entries[d][k] \in Node, NEW n, Within(u, Entries[d][k], n)
  PROVE  Holds(u, d, n)
<1>m. PICK m \in Nat : m = Len(Entries[d])
  BY EntriesAre
<1>1. PICK w : w = WalkOf(u)
  OBVIOUS
<1>2. PICK start : start = StartOf(u, d)
  OBVIOUS
<1>3. LaidOut(u, w, d, start)
  BY <1>1, <1>2, WalkIsLaidOut
<1>8. PICK e \in Node : e = Entries[d][k]
  OBVIOUS
<1>e. e \notin Dots
  BY TreeAssumption
<1>p. w[d] \in Seq(Node) /\ Len(w[d]) \in Nat
  BY <1>1, WalkTypes
<1>q. PieceAt(u, w, e, w[d], start[k - 1], start[k])
  BY <1>3, <1>8 DEF LaidOut
<1>a. PICK a \in Nat : a = start[k - 1]
  BY <1>2, <1>m, StartsGrow DEF StartTypes
<1>b. PICK b \in Nat : b = start[k]
  BY <1>2, <1>m, StartsGrow DEF StartTypes
<1>r. b <= Len(w[d])
  BY <1>1, <1>2, <1>m, <1>b, StartsGrow DEF StartTypes
<1>4. CASE e = n
  <2>1. w[d][a + 1] = e
    BY <1>q, <1>a, <1>e DEF PieceAt
  <2>2. b >= a + 1
    <3>1. CASE e \in Directory \ u
      <4>1. PICK l \in Nat : l = Len(w[e])
        BY <3>1, <1>1, WalkLength
      <4>2. b = a + 1 + l
        BY <1>q, <1>a, <1>b, <3>1, <4>1 DEF PieceAt
      <4> QED
        BY <4>2
    <3>2. CASE e \notin Directory \ u
      <4>1. b = a + 1
        BY <1>q, <1>a, <1>b, <1>e, <3>2 DEF PieceAt
      <4> QED
        BY <4>1
    <3> QED
      BY <3>1, <3>2
  <2>3. a + 1 \in 1 .. Len(w[d])
    BY <2>2, <1>r, <1>p
  <2> QED
    BY <2>1, <2>3, <1>1, <1>4 DEF Holds
<1>5. CASE e \in Directory \ u /\ Holds(u, e, n)
  <2>1. PICK l \in Nat : l = Len(w[e])
    BY <1>5, <1>1, WalkLength
  <2>2. PICK x \in 1 .. l : w[e][x] = n
    BY <1>5, <1>1, <2>1 DEF Holds
  <2>3. b = a + 1 + l /\ w[d][a + 1 + x] = n
    BY <1>q, <1>a, <1>b, <1>5, <2>1, <2>2 DEF PieceAt
  <2>4. a + 1 + x \in 1 .. Len(w[d])
    BY <2>3, <1>r, <1>p
  <2> QED
    BY <2>3, <2>4, <1>1 DEF Holds
<1> QED
  BY <1>4, <1>5, <1>8 DEF Within

\* A directory that n is an entry of, of which there is one at most.
ParentOf(e, n) == e \in Directory /\ n \in Node /\ \E k \in 1 .. Len(Entries[e]) : Entries[e][k] = n

LEMMA OneParent ==
  ASSUME NEW e, NEW f, NEW n, ParentOf(e, n), ParentOf(f, n)
  PROVE  e = f /\ n # Root /\ (\A height : IsHeight(height) /\ n \in Directory => height[n] < height[e])
<1>1. e \in Directory /\ f \in Directory /\ n \in Node
  BY DEF ParentOf
<1>2. PICK j \in DOMAIN Entries[e] : Entries[e][j] = n
  BY EntriesAre DEF ParentOf
<1>3. PICK k \in DOMAIN Entries[f] : Entries[f][k] = n
  BY EntriesAre DEF ParentOf
<1>4. e = f
  BY <1>1, <1>2, <1>3, TreeAssumption
<1>5. n # Root
  BY <1>1, <1>2, TreeAssumption DEF Range
<1>6. ASSUME NEW height, IsHeight(height), n \in Directory
      PROVE  height[n] < height[e]
  BY <1>1, <1>2, <1>6 DEF IsHeight
<1> QED
  BY <1>4, <1>5, <1>6

\* What is below a directory is in it or in a directory below it, and lower.
Found(u, height, d, n) ==
  /\ \E e : ParentOf(e, n) /\ (e = d \/ Holds(u, d, e))
  /\ n \in Directory => height[n] < height[d]

LEMMA BelowIsFound ==
  ASSUME NEW u, NEW height, IsHeight(height), NEW d \in Directory, NEW n, Holds(u, d, n)
  PROVE  Found(u, height, d, n)
<1>1. PICK m : m = MaxProcesses /\ m \in Nat /\ \A e \in Directory : height[e] \in Nat /\ height[e] < m
  BY HeightIs
<1> DEFINE T == {h \in Nat : \A e \in Directory : height[e] < h => \A o : Holds(u, e, o) => Found(u, height, e, o)}
<1>2. 0 \in T
  BY <1>1
<1>3. ASSUME NEW h \in Nat, h \in T
      PROVE  h + 1 \in T
  <2> SUFFICES ASSUME NEW e \in Directory, height[e] < h + 1, NEW o, Holds(u, e, o)
               PROVE  Found(u, height, e, o)
    OBVIOUS
  <2>1. PICK x \in 1 .. Len(WalkOf(u)[e]) : WalkOf(u)[e][x] = o
    BY DEF Holds
  <2>2. PICK k \in 1 .. Len(Entries[e]) : \E a \in Nat : InPiece(u, e, k, x, a)
    BY <2>1, PieceOf
  <2>3. PICK c : c = Entries[e][k]
    OBVIOUS
  <2>4. ParentOf(e, c) /\ Within(u, c, o)
    <3>1. PICK a \in Nat : InPiece(u, e, k, x, a)
      BY <2>2
    <3>2. c \in Node
      BY <3>1, <2>3 DEF InPiece
    <3>3. ParentOf(e, c)
      BY <3>2, <2>3 DEF ParentOf
    <3>4. o = c \/ /\ c \in Directory \ u
                   /\ x - a - 1 \in 1 .. Len(WalkOf(u)[c])
                   /\ o = WalkOf(u)[c][x - a - 1]
      BY <3>1, <2>1, <2>3 DEF InPiece
    <3>5. Within(u, c, o)
      <4> SUFFICES ASSUME o # c
                   PROVE  c \in Directory \ u /\ Holds(u, c, o)
        BY DEF Within
      <4> QED
        BY <3>4 DEF Holds
    <3> QED
      BY <3>3, <3>5
  <2>5. CASE o = c
    <3>1. o \in Directory => height[o] < height[e]
      BY <2>4, <2>5, OneParent
    <3> QED
      BY <3>1, <2>4, <2>5 DEF Found
  <2>6. CASE o # c
    <3>1. c \in Directory \ u /\ Holds(u, c, o)
      BY <2>4, <2>6 DEF Within
    <3>2. height[c] < height[e]
      BY <2>4, <3>1, OneParent
    <3>a. PICK a \in Nat : a = height[c]
      BY <3>1, <1>1
    <3>b. PICK b \in Nat : b = height[e]
      BY <1>1
    <3>3. Found(u, height, c, o)
      <4>1. height[c] < h
        BY <3>a, <3>b, <3>2
      <4> QED
        BY <4>1, <3>1, <1>3
    <3>4. PICK f : ParentOf(f, o) /\ (f = c \/ Holds(u, c, f))
      BY <3>3 DEF Found
    <3>5. Holds(u, e, f)
      <4>1. Within(u, c, f)
        BY <3>1, <3>4 DEF Within
      <4>2. c \in Node
        BY <2>4 DEF ParentOf
      <4> QED
        BY <4>1, <4>2, <2>3, BelowEntry
    <3>6. o \in Directory => height[o] < height[e]
      <4> SUFFICES ASSUME o \in Directory
                   PROVE  height[o] < height[e]
        OBVIOUS
      <4>1. PICK g \in Nat : g = height[o]
        BY <1>1
      <4>2. g < a
        BY <4>1, <3>a, <3>3 DEF Found
      <4> QED
        BY <4>1, <4>2, <3>a, <3>b, <3>2
    <3> QED
      BY <3>4, <3>5, <3>6 DEF Found
  <2> QED
    BY <2>5, <2>6
<1>4. m \in T
  <2> HIDE DEF T
  <2>1. \A h \in Nat : h \in T
    BY <1>2, <1>3, AllNumbers
  <2> QED
    BY <1>1, <2>1
<1> QED
  BY <1>4, <1>1

LEMMA WithinIsFound ==
  ASSUME NEW u, NEW c \in Node, NEW n, n # c, Within(u, c, n)
  PROVE  /\ \E f : ParentOf(f, n) /\ Within(u, c, f)
         /\ \A height : IsHeight(height) /\ n \in Directory => height[n] < height[c]
<1>1. c \in Directory \ u /\ Holds(u, c, n)
  BY DEF Within
<1>2. \A height : IsHeight(height) => Found(u, height, c, n)
  BY <1>1, BelowIsFound
<1>3. PICK height : IsHeight(height)
  BY HeightExists
<1>4. PICK f : ParentOf(f, n) /\ (f = c \/ Holds(u, c, f))
  BY <1>2, <1>3 DEF Found
<1>5. Within(u, c, f)
  BY <1>1, <1>4 DEF Within
<1> QED
  BY <1>2, <1>4, <1>5 DEF Found

\* Nothing is below two entries of one directory: going up from it, one would
\* come to both of them.
LEMMA EntriesApart ==
  ASSUME NEW u, NEW d, NEW a, NEW b, ParentOf(d, a), ParentOf(d, b), a # b,
         NEW n, Within(u, a, n)
  PROVE  ~Within(u, b, n)
<1>h. PICK height : IsHeight(height)
  BY HeightExists
<1>1. PICK m : m = MaxProcesses /\ m \in Nat /\ \A e \in Directory : height[e] \in Nat /\ height[e] < m
  BY <1>h, HeightIs
<1>2. d \in Directory /\ a \in Node /\ b \in Node
  BY DEF ParentOf
\* One of the two is not below the other.
<1>3. ~Within(u, b, a) /\ ~Within(u, a, b)
  <2>1. ASSUME NEW x \in Node, NEW y \in Node, ParentOf(d, x), ParentOf(d, y), x # y, Within(u, y, x)
        PROVE  FALSE
    <3>1. PICK f : ParentOf(f, x) /\ Within(u, y, f)
      BY <2>1, WithinIsFound
    <3>2. f = d
      BY <2>1, <3>1, OneParent
    <3>3. d # y /\ height[y] < height[d]
      <4>1. y \in Directory
        BY <2>1 DEF Within
      <4>2. height[y] < height[d]
        BY <2>1, <4>1, <1>h, OneParent
      <4>3. PICK g \in Nat : g = height[d]
        BY <1>1, <1>2
      <4> QED
        BY <4>2, <4>3
    <3>4. height[d] < height[y]
      BY <3>1, <3>2, <3>3, <1>2, <1>h, WithinIsFound
    <3>5. height[d] \in Nat /\ height[y] \in Nat
      <4>1. y \in Directory
        BY <2>1 DEF Within
      <4> QED
        BY <4>1, <1>1, <1>2
    <3> QED
      BY <3>3, <3>4, <3>5
  <2> QED
    BY <2>1, <1>2
\* What is below both has a directory that is below both.
<1>4. ASSUME NEW o, Within(u, a, o), Within(u, b, o)
      PROVE  \E f \in Directory : /\ Within(u, a, f) /\ Within(u, b, f)
                                  /\ o \in Directory => height[o] < height[f]
  <2>1. o # a /\ o # b
    BY <1>3, <1>4
  <2>2. PICK f : ParentOf(f, o) /\ Within(u, a, f)
    BY <1>2, <1>4, <2>1, WithinIsFound
  <2>3. PICK g : ParentOf(g, o) /\ Within(u, b, g)
    BY <1>2, <1>4, <2>1, WithinIsFound
  <2>4. f = g /\ (o \in Directory => height[o] < height[f])
    BY <2>2, <2>3, <1>h, OneParent
  <2>5. f \in Directory
    BY <2>2 DEF ParentOf
  <2> QED
    BY <2>2, <2>3, <2>4, <2>5
<1> DEFINE T == {h \in Nat : \A e \in Directory : height[e] + h >= m => ~(Within(u, a, e) /\ Within(u, b, e))}
<1>5. 0 \in T
  <2> SUFFICES ASSUME NEW e \in Directory, height[e] + 0 >= m
               PROVE  FALSE
    OBVIOUS
  <2>1. PICK g \in Nat : g = height[e] /\ g < m
    BY <1>1
  <2> QED
    BY <2>1, <1>1
<1>6. ASSUME NEW h \in Nat, h \in T
      PROVE  h + 1 \in T
  <2> SUFFICES ASSUME NEW e \in Directory, height[e] + (h + 1) >= m, Within(u, a, e), Within(u, b, e)
               PROVE  FALSE
    OBVIOUS
  <2>1. PICK f \in Directory : Within(u, a, f) /\ Within(u, b, f) /\ height[e] < height[f]
    BY <1>4
  <2>2. PICK x \in Nat : x = height[e]
    BY <1>1
  <2>3. PICK y \in Nat : y = height[f]
    BY <1>1
  <2>4. y + h >= m
    BY <2>1, <2>2, <2>3, <1>1
  <2> QED
    BY <2>1, <2>3, <2>4, <1>6
<1>7. m \in T
  <2> HIDE DEF T
  <2>1. \A h \in Nat : h \in T
    BY <1>5, <1>6, AllNumbers
  <2> QED
    BY <1>1, <2>1
<1> SUFFICES ASSUME Within(u, b, n)
             PROVE  FALSE
  OBVIOUS
<1>8. PICK f \in Directory : Within(u, a, f) /\ Within(u, b, f)
  BY <1>4
<1>9. height[f] + m >= m
  <2>1. PICK y \in Nat : y = height[f]
    BY <1>1
  <2> QED
    BY <2>1, <1>1
<1> QED
  BY <1>7, <1>8, <1>9

LEMMA InPieceIs ==
  ASSUME NEW u, NEW d \in Directory, NEW x \in 1 .. Len(WalkOf(u)[d]),
         NEW k \in 1 .. Len(Entries[d]), NEW a \in Nat, InPiece(u, d, k, x, a)
  PROVE  ParentOf(d, Entries[d][k]) /\ Within(u, Entries[d][k], WalkOf(u)[d][x])
<1>1. PICK c : c = Entries[d][k]
  OBVIOUS
<1>2. c \in Node
  BY <1>1 DEF InPiece
<1>3. ParentOf(d, c)
  BY <1>1, <1>2 DEF ParentOf
<1>4. PICK o : o = WalkOf(u)[d][x]
  OBVIOUS
<1>5. o = c \/ (c \in Directory \ u /\ x - a - 1 \in 1 .. Len(WalkOf(u)[c]) /\ o = WalkOf(u)[c][x - a - 1])
  BY <1>1, <1>4 DEF InPiece
<1>6. Within(u, c, o)
  <2> SUFFICES ASSUME o # c
               PROVE  c \in Directory \ u /\ Holds(u, c, o)
    BY DEF Within
  <2> QED
    BY <1>5 DEF Holds
<1> QED
  BY <1>1, <1>3, <1>4, <1>6

\* Nothing is twice in a walk.
LEMMA OnceInWalk ==
  ASSUME NEW u, NEW d \in Directory,
         NEW x \in 1 .. Len(WalkOf(u)[d]), NEW y \in 1 .. Len(WalkOf(u)[d]), WalkOf(u)[d][x] = WalkOf(u)[d][y]
  PROVE  x = y
<1>h. PICK height : IsHeight(height)
  BY HeightExists
<1>1. PICK m : m = MaxProcesses /\ m \in Nat /\ \A e \in Directory : height[e] \in Nat /\ height[e] < m
  BY <1>h, HeightIs
<1>2. PICK w : w = WalkOf(u)
  OBVIOUS
<1> DEFINE T == {h \in Nat : \A e \in Directory : height[e] < h =>
                   \A j, k \in 1 .. Len(w[e]) : w[e][j] = w[e][k] => j = k}
<1>3. 0 \in T
  BY <1>1
<1>4. ASSUME NEW h \in Nat, h \in T
      PROVE  h + 1 \in T
  <2> SUFFICES ASSUME NEW e \in Directory, height[e] < h + 1,
                      NEW p \in 1 .. Len(w[e]), NEW q \in 1 .. Len(w[e]), w[e][p] = w[e][q]
               PROVE  p = q
    OBVIOUS
  <2>0. p \in Nat /\ q \in Nat
    <3>1. Len(w[e]) \in Nat
      BY <1>2, WalkLength
    <3> QED
      BY <3>1
  <2>1. PICK j \in 1 .. Len(Entries[e]) : \E a \in Nat : InPiece(u, e, j, p, a)
    BY <1>2, PieceOf
  <2>2. PICK k \in 1 .. Len(Entries[e]) : \E b \in Nat : InPiece(u, e, k, q, b)
    BY <1>2, PieceOf
  <2>3. PICK a \in Nat : InPiece(u, e, j, p, a)
    BY <2>1
  <2>4. PICK b \in Nat : InPiece(u, e, k, q, b)
    BY <2>2
  <2>5. PICK c : c = Entries[e][j]
    OBVIOUS
  <2>6. PICK g : g = Entries[e][k]
    OBVIOUS
  <2>7. ParentOf(e, c) /\ Within(u, c, w[e][p])
    BY <2>3, <2>5, <1>2, InPieceIs
  <2>8. ParentOf(e, g) /\ Within(u, g, w[e][p])
    BY <2>4, <2>6, <1>2, InPieceIs
  <2>9. c = g
    BY <2>7, <2>8, EntriesApart
  <2>10. j = k
    <3>1. c \in Node /\ j \in DOMAIN Entries[e] /\ k \in DOMAIN Entries[e]
      BY <2>7, EntriesAre DEF ParentOf
    <3> QED
      BY <3>1, <2>5, <2>6, <2>9, TreeAssumption
  <2>11. a = b
    BY <2>3, <2>4, <2>10 DEF InPiece
  <2>12. \/ p = a + 1 /\ w[e][p] = c
         \/ /\ c \in Directory /\ p - a - 1 \in 1 .. Len(w[c])
            /\ w[e][p] = w[c][p - a - 1]
    BY <2>3, <2>5, <1>2 DEF InPiece
  <2>13. \/ q = a + 1 /\ w[e][q] = c
         \/ /\ c \in Directory /\ q - a - 1 \in 1 .. Len(w[c])
            /\ w[e][q] = w[c][q - a - 1]
    BY <2>4, <2>6, <2>9, <2>11, <1>2 DEF InPiece
  \* A directory is not below itself.
  <2>14. c \in Directory => ~Holds(u, c, c)
    <3> SUFFICES ASSUME c \in Directory, Holds(u, c, c)
                 PROVE  FALSE
      OBVIOUS
    <3>1. height[c] < height[c]
      BY <1>h, BelowIsFound DEF Found
    <3>2. PICK r \in Nat : r = height[c]
      BY <1>1
    <3> QED
      BY <3>1, <3>2
  <2>15. CASE p = a + 1 /\ q = a + 1
    BY <2>15
  <2>16. CASE p = a + 1 /\ q # a + 1
    <3>1. c \in Directory /\ q - a - 1 \in 1 .. Len(w[c]) /\ w[c][q - a - 1] = w[e][q]
      BY <2>13, <2>16
    <3>2. w[e][p] = c
      <4> SUFFICES ASSUME p - a - 1 \in 1 .. Len(w[c])
                   PROVE  FALSE
        BY <2>12
      <4> QED
        BY <2>16, <2>0
    <3>3. Holds(u, c, c)
      BY <3>1, <3>2, <1>2 DEF Holds
    <3> QED
      BY <3>1, <3>3, <2>14
  <2>17. CASE p # a + 1 /\ q = a + 1
    <3>1. c \in Directory /\ p - a - 1 \in 1 .. Len(w[c]) /\ w[c][p - a - 1] = w[e][p]
      BY <2>12, <2>17
    <3>2. w[e][q] = c
      <4> SUFFICES ASSUME q - a - 1 \in 1 .. Len(w[c])
                   PROVE  FALSE
        BY <2>13
      <4> QED
        BY <2>17, <2>0
    <3>3. Holds(u, c, c)
      BY <3>1, <3>2, <1>2 DEF Holds
    <3> QED
      BY <3>1, <3>3, <2>14
  <2>18. CASE p # a + 1 /\ q # a + 1
    <3>1. /\ c \in Directory /\ p - a - 1 \in 1 .. Len(w[c]) /\ q - a - 1 \in 1 .. Len(w[c])
          /\ w[c][p - a - 1] = w[c][q - a - 1]
      BY <2>12, <2>13, <2>18
    <3>2. height[c] < height[e]
      BY <3>1, <2>7, <1>h, OneParent
    <3>3. height[c] < h
      <4>1. PICK r \in Nat : r = height[c]
        BY <3>1, <1>1
      <4>2. PICK s \in Nat : s = height[e]
        BY <1>1
      <4> QED
        BY <4>1, <4>2, <3>2
    <3>4. p - a - 1 = q - a - 1
      BY <3>1, <3>3, <1>4
    <3> QED
      BY <3>4, <2>0
  <2> QED
    BY <2>15, <2>16, <2>17, <2>18
<1>5. m \in T
  <2> HIDE DEF T
  <2>1. \A h \in Nat : h \in T
    BY <1>3, <1>4, AllNumbers
  <2> QED
    BY <1>1, <2>1
<1> QED
  BY <1>5, <1>1, <1>2

\* The root is in no walk, and in no directory.
LEMMA RootIsAbove ==
  ASSUME NEW u, NEW d \in Directory
  PROVE  ~Holds(u, d, Root)
<1> SUFFICES ASSUME Holds(u, d, Root)
             PROVE  FALSE
  OBVIOUS
<1>1. PICK height : IsHeight(height)
  BY HeightExists
<1>2. PICK e : ParentOf(e, Root)
  BY <1>1, BelowIsFound DEF Found
<1> QED
  BY <1>2, OneParent

-------------------------------------------------------------------------------
(* Where a walk is: n directories inside each other, how many entries of     *)
(* each have been passed, and where the walk through each lies in the one    *)
(* through the root.                                                         *)

LiesAt(u, b, d) ==
  /\ b + Len(WalkOf(u)[d]) <= Len(WalkOf(u)[Root])
  /\ \A x \in 1 .. Len(WalkOf(u)[d]) : WalkOf(u)[Root][b + x] = WalkOf(u)[d][x]

PathAt(u, k, d, p, b) ==
  /\ d \in Directory /\ p \in Nat /\ p <= Len(Entries[d]) /\ b \in Nat /\ LiesAt(u, b, d)
  /\ \A height : IsHeight(height) => height[d] + k <= MaxProcesses

Enters(u, d, p, b, below, base) ==
  /\ p > 0 /\ Entries[d][p] = below /\ below \notin u
  /\ base = b + StartOf(u, d)[p - 1] + 1

Path(u, n, dir, pos, base) ==
  /\ \A k \in 1 .. n : PathAt(u, k, dir[k], pos[k], base[k])
  /\ n > 0 => dir[1] = Root
  /\ \A k \in 1 .. n - 1 : Enters(u, dir[k], pos[k], base[k], dir[k + 1], base[k + 1])

\* How much of the walk is behind it.
Passed(u, n, d, p, b) == IF n = 0 THEN Len(WalkOf(u)[Root]) ELSE b + StartOf(u, d)[p]

\* Passing an entry, from x to y.
Passes(u, e, x, y) ==
  /\ x \in Nat /\ y \in Nat /\ y <= Len(WalkOf(u)[Root])
  /\ e \in Dots => y = x
  /\ e \notin Dots => y = x + 1 /\ WalkOf(u)[Root][x + 1] = e

LEMMA PassedIs ==
  ASSUME NEW u, NEW n \in Nat, NEW k, NEW d, NEW p, NEW b, n > 0 => PathAt(u, k, d, p, b)
  PROVE  Passed(u, n, d, p, b) \in Nat /\ Passed(u, n, d, p, b) <= Len(WalkOf(u)[Root])
<1>1. Root \in Directory
  BY DirectoryListAssumption
<1>2. PICK l \in Nat : l = Len(WalkOf(u)[Root])
  BY <1>1, WalkLength
<1>3. CASE n = 0
  BY <1>2, <1>3 DEF Passed
<1>4. CASE n # 0
  <2>1. d \in Directory /\ p \in Nat /\ p <= Len(Entries[d]) /\ b \in Nat /\ LiesAt(u, b, d)
    BY <1>4 DEF PathAt
  <2>2. PICK m \in Nat : m = Len(WalkOf(u)[d])
    BY <2>1, WalkLength
  <2>3. p \in 0 .. Len(Entries[d])
    BY <2>1, EntriesAre
  <2>4. PICK s \in Nat : s = StartOf(u, d)[p] /\ s <= m
    BY <2>1, <2>2, <2>3, StartsGrow DEF StartTypes
  <2>5. b + m <= l
    BY <2>1, <2>2, <1>2 DEF LiesAt
  <2> QED
    BY <2>1, <2>4, <2>5, <1>2, <1>4 DEF Passed
<1> QED
  BY <1>3, <1>4

\* Passing an entry that is not entered, or the line of one that is.
LEMMA PassEntry ==
  ASSUME NEW u, NEW n \in Nat \ {0}, NEW d, NEW p, NEW b, PathAt(u, n, d, p, b), p < Len(Entries[d]),
         NEW e, e = Entries[d][p + 1]
  PROVE  /\ e \in Node \cup Dots
         /\ e \notin Directory \ u => Passes(u, e, Passed(u, n, d, p, b), Passed(u, n, d, p + 1, b))
         /\ e \in Directory \ u => Passes(u, e, Passed(u, n, d, p, b), Passed(u, n, d, p, b) + 1)
<1>1. d \in Directory /\ p \in Nat /\ b \in Nat /\ LiesAt(u, b, d)
  BY DEF PathAt
<1>m. PICK m \in Nat : m = Len(Entries[d])
  BY <1>1, EntriesAre
<1>w. PICK w : w = WalkOf(u)
  OBVIOUS
<1>l. PICK l \in Nat : l = Len(w[Root])
  BY <1>w, WalkLength, DirectoryListAssumption
<1>v. PICK v \in Nat : v = Len(w[d])
  BY <1>1, <1>w, WalkLength
<1>s. PICK start : start = StartOf(u, d)
  OBVIOUS
<1>2. p + 1 \in 1 .. m /\ p \in 0 .. m /\ p + 1 \in 0 .. m /\ (p + 1) - 1 = p
  BY <1>1, <1>m
<1>3. e \in Node \cup Dots
  BY <1>1, <1>2, <1>m, EntriesAre
<1>4. PICK x \in Nat : x = start[p]
  BY <1>1, <1>2, <1>m, <1>s, StartsGrow DEF StartTypes
<1>5. PICK y \in Nat : y = start[p + 1] /\ y <= v
  BY <1>1, <1>2, <1>m, <1>s, <1>v, <1>w, StartsGrow DEF StartTypes
<1>6. PieceAt(u, w, e, w[d], x, y)
  <2>1. LaidOut(u, w, d, start)
    BY <1>1, <1>s, <1>w, WalkIsLaidOut
  <2>2. PieceAt(u, w, Entries[d][p + 1], w[d], start[(p + 1) - 1], start[p + 1])
    BY <2>1, <1>2, <1>m DEF LaidOut
  <2> QED
    BY <2>2, <1>2, <1>4, <1>5
<1>7. b + v <= l /\ \A j \in 1 .. v : w[Root][b + j] = w[d][j]
  BY <1>1, <1>l, <1>v, <1>w DEF LiesAt
<1>8. Passed(u, n, d, p, b) = b + x /\ Passed(u, n, d, p + 1, b) = b + y
  BY <1>4, <1>5, <1>s DEF Passed
<1>9. e \notin Dots => x + 1 <= y /\ w[d][x + 1] = e
  <2> SUFFICES ASSUME e \notin Dots
               PROVE  x + 1 <= y /\ w[d][x + 1] = e
    OBVIOUS
  <2>1. CASE e \in Directory \ u
    <3>1. PICK r \in Nat : r = Len(w[e])
      BY <2>1, <1>w, WalkLength
    <3>2. y = x + 1 + r
      BY <2>1, <3>1, <1>6 DEF PieceAt
    <3> QED
      BY <3>2, <1>6 DEF PieceAt
  <2>2. CASE e \notin Directory \ u
    <3>1. y = x + 1
      BY <2>2, <1>6 DEF PieceAt
    <3> QED
      BY <3>1, <1>6 DEF PieceAt
  <2> QED
    BY <2>1, <2>2
<1>10. e \notin Dots => b + x + 1 <= l /\ w[Root][b + x + 1] = e
  <2> SUFFICES ASSUME e \notin Dots
               PROVE  b + x + 1 <= l /\ w[Root][b + x + 1] = e
    OBVIOUS
  <2>1. x + 1 \in 1 .. v /\ b + (x + 1) = b + x + 1
    BY <1>1, <1>5, <1>9
  <2>2. w[Root][b + (x + 1)] = e
    BY <2>1, <1>7, <1>9
  <2>3. b + x + 1 <= l
    BY <2>1, <1>1, <1>7
  <2> QED
    BY <2>1, <2>2, <2>3
<1>11. ASSUME e \notin Directory \ u
       PROVE  Passes(u, e, b + x, b + y)
  <2>1. e \in Dots => b + y = b + x
    BY <1>6 DEF PieceAt
  <2>2. e \notin Dots => b + y = b + x + 1
    <3>1. e \notin Dots => y = x + 1
      BY <1>6, <1>11 DEF PieceAt
    <3> QED
      BY <3>1, <1>1
  <2>3. b + x \in Nat /\ b + y \in Nat /\ b + y <= l
    BY <1>1, <1>5, <1>7
  <2> QED
    BY <2>1, <2>2, <2>3, <1>10, <1>l, <1>w DEF Passes
<1>12. ASSUME e \in Directory \ u
       PROVE  Passes(u, e, b + x, b + x + 1)
  <2>1. e \notin Dots
    BY <1>12, TreeAssumption DEF Node
  <2>2. b + x \in Nat /\ b + x + 1 \in Nat
    BY <1>1
  <2> QED
    BY <2>1, <2>2, <1>10, <1>l, <1>w DEF Passes
<1> QED
  BY <1>3, <1>8, <1>11, <1>12

LEMMA EnterEntry ==
  ASSUME NEW u, NEW n \in Nat \ {0}, NEW d, NEW p, NEW b, PathAt(u, n, d, p, b), p < Len(Entries[d]),
         NEW e, e = Entries[d][p + 1], e \in Directory \ u, NEW c, c = Passed(u, n, d, p, b) + 1
  PROVE  /\ PathAt(u, n + 1, e, 0, c) /\ Enters(u, d, p + 1, b, e, c)
         /\ Passed(u, n + 1, e, 0, c) = c
<1>1. d \in Directory /\ p \in Nat /\ b \in Nat /\ LiesAt(u, b, d)
  BY DEF PathAt
<1>m. PICK m \in Nat : m = Len(Entries[d])
  BY <1>1, EntriesAre
<1>w. PICK w : w = WalkOf(u)
  OBVIOUS
<1>l. PICK l \in Nat : l = Len(w[Root])
  BY <1>w, WalkLength, DirectoryListAssumption
<1>v. PICK v \in Nat : v = Len(w[d])
  BY <1>1, <1>w, WalkLength
<1>r. PICK r \in Nat : r = Len(w[e])
  BY <1>w, WalkLength
<1>s. PICK start : start = StartOf(u, d)
  OBVIOUS
<1>2. p + 1 \in 1 .. m /\ p \in 0 .. m /\ p + 1 \in 0 .. m /\ (p + 1) - 1 = p
  BY <1>1, <1>m
<1>4. PICK x \in Nat : x = start[p]
  BY <1>1, <1>2, <1>m, <1>s, StartsGrow DEF StartTypes
<1>5. PICK y \in Nat : y = start[p + 1] /\ y <= v
  BY <1>1, <1>2, <1>m, <1>s, <1>v, <1>w, StartsGrow DEF StartTypes
<1>6. PieceAt(u, w, e, w[d], x, y)
  <2>1. LaidOut(u, w, d, start)
    BY <1>1, <1>s, <1>w, WalkIsLaidOut
  <2>2. PieceAt(u, w, Entries[d][p + 1], w[d], start[(p + 1) - 1], start[p + 1])
    BY <2>1, <1>2, <1>m DEF LaidOut
  <2> QED
    BY <2>2, <1>2, <1>4, <1>5
<1>7. b + v <= l /\ \A j \in 1 .. v : w[Root][b + j] = w[d][j]
  BY <1>1, <1>l, <1>v, <1>w DEF LiesAt
<1>8. c = b + x + 1 /\ c \in Nat
  <2>1. Passed(u, n, d, p, b) = b + x
    BY <1>4, <1>s DEF Passed
  <2> QED
    BY <2>1, <1>1
<1>9. y = x + 1 + r /\ \A j \in 1 .. r : w[d][x + 1 + j] = w[e][j]
  BY <1>6, <1>r DEF PieceAt
<1>10. c + r <= l
  BY <1>1, <1>5, <1>7, <1>8, <1>9
<1>11. ASSUME NEW j \in 1 .. r
       PROVE  w[Root][c + j] = w[e][j]
  <2>1. x + 1 + j \in 1 .. v /\ b + (x + 1 + j) = c + j
    BY <1>1, <1>5, <1>8, <1>9
  <2>2. w[Root][b + (x + 1 + j)] = w[d][x + 1 + j]
    BY <2>1, <1>7
  <2> QED
    BY <2>1, <2>2, <1>9
<1>12. LiesAt(u, c, e)
  BY <1>10, <1>11, <1>l, <1>r, <1>w DEF LiesAt
<1>13. ASSUME NEW height, IsHeight(height)
       PROVE  height[e] + (n + 1) <= MaxProcesses
  <2>1. ParentOf(d, e)
    BY <1>1, <1>2, <1>m DEF ParentOf, Node
  <2>2. height[e] < height[d] /\ height[d] + n <= MaxProcesses
    BY <2>1, <1>13, OneParent DEF PathAt
  <2>3. PICK g \in Nat : g = height[d]
    BY <1>1, <1>13, HeightIs
  <2>4. PICK h \in Nat : h = height[e]
    BY <1>13, HeightIs
  <2>5. PICK o \in Nat : o = MaxProcesses
    BY DirectoryListAssumption
  <2>6. h < g /\ g + n <= o
    BY <2>2, <2>3, <2>4, <2>5
  <2>7. h + (n + 1) <= o
    BY ONLY <2>6, h \in Nat, g \in Nat, o \in Nat, n \in Nat
  <2> QED
    BY <2>4, <2>5, <2>7
<1>14. PathAt(u, n + 1, e, 0, c)
  <2>1. 0 <= Len(Entries[e]) /\ e \in Directory
    BY EntriesAre
  <2> QED
    BY <2>1, <1>8, <1>12, <1>13 DEF PathAt
<1>15. Enters(u, d, p + 1, b, e, c)
  <2>1. p + 1 > 0
    BY <1>1
  <2> QED
    BY <2>1, <1>2, <1>4, <1>8, <1>s DEF Enters
<1>16. Passed(u, n + 1, e, 0, c) = c
  <2>1. StartOf(u, e)[0] = 0
    BY WalkIsLaidOut DEF LaidOut
  <2> QED
    BY <2>1, <1>8 DEF Passed
<1> QED
  BY <1>14, <1>15, <1>16

\* At its end a directory has passed all of it, and returns behind it.
LEMMA LeaveDirectory ==
  ASSUME NEW u, NEW n \in Nat \ {0}, NEW e, NEW q, NEW c, PathAt(u, n, e, q, c), q = Len(Entries[e]),
         n = 1 => e = Root,
         NEW d, NEW p, NEW b, n > 1 => PathAt(u, n - 1, d, p, b) /\ Enters(u, d, p, b, e, c)
  PROVE  Passed(u, n, e, q, c) = Passed(u, n - 1, d, p, b)
<1>1. e \in Directory /\ c \in Nat /\ LiesAt(u, c, e)
  BY DEF PathAt
<1>w. PICK w : w = WalkOf(u)
  OBVIOUS
<1>r. PICK r \in Nat : r = Len(w[e])
  BY <1>1, <1>w, WalkLength
<1>2. Passed(u, n, e, q, c) = c + r
  <2>1. StartOf(u, e)[q] = r
    BY <1>1, <1>r, <1>w, WalkIsLaidOut DEF LaidOut
  <2> QED
    BY <2>1 DEF Passed
<1>3. CASE n = 1
  <2>1. c + r <= r
    BY <1>1, <1>3, <1>r, <1>w DEF LiesAt
  <2>2. c + r = r
    BY <2>1, <1>1
  <2>3. Passed(u, n - 1, d, p, b) = r
    <3>1. n - 1 = 0
      BY <1>3
    <3> QED
      BY <3>1, <1>3, <1>r, <1>w DEF Passed
  <2> QED
    BY <2>2, <2>3, <1>2
<1>4. CASE n > 1
  <2>1. d \in Directory /\ p \in Nat /\ p <= Len(Entries[d]) /\ b \in Nat
    BY <1>4 DEF PathAt
  <2>2. p > 0 /\ Entries[d][p] = e /\ e \notin u /\ c = b + StartOf(u, d)[p - 1] + 1
    BY <1>4 DEF Enters
  <2>m. PICK m \in Nat : m = Len(Entries[d])
    BY <2>1, EntriesAre
  <2>3. p \in 1 .. m /\ p - 1 \in 0 .. m /\ p \in 0 .. m
    BY <2>1, <2>2, <2>m
  <2>s. PICK start : start = StartOf(u, d)
    OBVIOUS
  <2>4. PICK x \in Nat : x = start[p - 1]
    BY <2>1, <2>3, <2>m, <2>s, StartsGrow DEF StartTypes
  <2>5. PICK y \in Nat : y = start[p]
    BY <2>1, <2>3, <2>m, <2>s, StartsGrow DEF StartTypes
  <2>6. PieceAt(u, w, e, w[d], x, y)
    <3>1. LaidOut(u, w, d, start)
      BY <2>1, <2>s, <1>w, WalkIsLaidOut
    <3> QED
      BY <3>1, <2>2, <2>3, <2>4, <2>5, <2>m DEF LaidOut
  <2>7. y = x + 1 + r
    BY <2>6, <2>2, <1>1, <1>r DEF PieceAt
  <2>8. c = b + x + 1
    BY <2>2, <2>4, <2>s
  <2>9. Passed(u, n - 1, d, p, b) = b + y
    <3>1. n - 1 # 0
      BY <1>4
    <3> QED
      BY <3>1, <2>5, <2>s DEF Passed
  <2>10. c + r = b + y
    BY <2>1, <2>7, <2>8
  <2> QED
    BY <2>9, <2>10, <1>2
<1> QED
  BY <1>3, <1>4

-------------------------------------------------------------------------------
(* The calls of list that are on such a path: what is read ahead are the     *)
(* entries that were read and not passed.                                    *)

Frame == [dir : Directory, stream : Process, ahead : Seq(Node \cup Dots)]

FrameAt(f, k, d, p, o, ch) ==
  /\ f = [dir |-> d, stream |-> k, ahead |-> SubSeq(Entries[d], p + 1, o)]
  /\ o \in Nat /\ p <= o /\ o <= Len(Entries[d]) /\ o - p <= ch

WalkingBy(u, ch, stack, off, dir, pos, base) ==
  /\ stack \in Seq(Frame) /\ off \in [Process -> Nat]
  /\ Path(u, Len(stack), dir, pos, base)
  /\ \A k \in 1 .. Len(stack) : FrameAt(stack[k], k, dir[k], pos[k], off[k], ch)

Walking(u, ch, stack, off, passed) ==
  \E dir, pos, base :
    /\ WalkingBy(u, ch, stack, off, dir, pos, base)
    /\ passed = Passed(u, Len(stack), dir[Len(stack)], pos[Len(stack)], base[Len(stack)])

AheadAt(ahead, d, p, o) ==
  /\ ahead \in Seq(Node \cup Dots) /\ Len(ahead) = o - p
  /\ ahead = <<>> <=> p = o
  /\ p < o => /\ Head(ahead) = Entries[d][p + 1]
              /\ Tail(ahead) = SubSeq(Entries[d], (p + 1) + 1, o)

LEMMA AheadIs ==
  ASSUME NEW d \in Directory, NEW p \in Nat, NEW o \in Nat, p <= o, o <= Len(Entries[d]),
         NEW ahead, ahead = SubSeq(Entries[d], p + 1, o)
  PROVE  AheadAt(ahead, d, p, o)
<1>1. PICK m \in Nat : m = Len(Entries[d])
  BY EntriesAre
<1>2. Entries[d] \in Seq(Node \cup Dots) /\ \A k \in 1 .. m : Entries[d][k] \in Node \cup Dots
  BY <1>1, EntriesAre
<1>3. \A k \in p + 1 .. o : Entries[d][k] \in Node \cup Dots
  <2>1. \A k \in p + 1 .. o : k \in 1 .. m
    BY <1>1
  <2> QED
    BY <2>1, <1>2
<1>4. /\ ahead \in Seq(Node \cup Dots)
      /\ Len(ahead) = IF p + 1 <= o THEN o - (p + 1) + 1 ELSE 0
  <2>1. p + 1 \in Int /\ o \in Int
    OBVIOUS
  <2> QED
    BY <2>1, <1>3, SubSeqProperties
<1>5. Len(ahead) = o - p
  BY <1>4
<1>6. ahead = <<>> <=> p = o
  <2>1. ahead = <<>> <=> Len(ahead) = 0
    BY <1>4
  <2> QED
    BY <2>1, <1>5
<1>7. ASSUME p < o
      PROVE  /\ Head(ahead) = Entries[d][p + 1]
             /\ Tail(ahead) = SubSeq(Entries[d], (p + 1) + 1, o)
  <2>1. p + 1 \in 1 .. Len(Entries[d]) /\ o \in p + 1 .. Len(Entries[d])
    BY <1>1, <1>7
  <2> QED
    BY <2>1, <1>2, HeadTailOfSubSeq
<1> QED
  BY <1>4, <1>5, <1>6, <1>7 DEF AheadAt

\* What the innermost call is like.
TopAt(u, ch, f, n, o, d, p, b) ==
  /\ n \in Process /\ PathAt(u, n, d, p, b) /\ FrameAt(f, n, d, p, o, ch)
  /\ d \in Directory /\ p \in Nat /\ o \in Nat
  /\ f.dir = d /\ f.stream = n
  /\ AheadAt(f.ahead, d, p, o) /\ (p < o => p < Len(Entries[d]))

LEMMA FrameIs ==
  ASSUME NEW u, NEW ch, NEW f, NEW n \in Nat \ {0}, NEW o, NEW d, NEW p, NEW b,
         PathAt(u, n, d, p, b), FrameAt(f, n, d, p, o, ch)
  PROVE  TopAt(u, ch, f, n, o, d, p, b)
<1>1. d \in Directory /\ p \in Nat /\ p <= Len(Entries[d])
  BY DEF PathAt
<1>2. o \in Nat /\ p <= o /\ o <= Len(Entries[d])
  BY DEF FrameAt
<1>3. f.dir = d /\ f.stream = n /\ f.ahead = SubSeq(Entries[d], p + 1, o)
  BY DEF FrameAt
<1>4. AheadAt(f.ahead, d, p, o)
  BY <1>1, <1>2, <1>3, AheadIs
<1>5. p < o => p < Len(Entries[d])
  <2>1. PICK m \in Nat : m = Len(Entries[d])
    BY <1>1, EntriesAre
  <2> QED
    BY <2>1, <1>1, <1>2
<1>6. n \in Process
  <2>1. PICK height : IsHeight(height)
    BY HeightExists
  <2>2. PICK h \in Nat : h = height[d]
    BY <1>1, <2>1, HeightIs
  <2>3. PICK m \in Nat : m = MaxProcesses
    BY DirectoryListAssumption
  <2>4. h + n <= m
    BY <2>1, <2>2, <2>3 DEF PathAt
  <2> QED
    BY <2>3, <2>4 DEF Process
<1> QED
  BY <1>1, <1>2, <1>3, <1>4, <1>5, <1>6 DEF TopAt

LEMMA TopIs ==
  ASSUME NEW u, NEW ch, NEW stack, NEW off, NEW dir, NEW pos, NEW base,
         WalkingBy(u, ch, stack, off, dir, pos, base), Len(stack) > 0
  PROVE  /\ Len(stack) \in Nat \ {0}
         /\ TopAt(u, ch, stack[Len(stack)], Len(stack), off[Len(stack)],
                  dir[Len(stack)], pos[Len(stack)], base[Len(stack)])
<1>1. PICK n \in Nat : n = Len(stack)
  BY DEF WalkingBy
<1>2. n \in 1 .. n /\ n \in Nat \ {0}
  BY <1>1
<1>3. PathAt(u, n, dir[n], pos[n], base[n]) /\ FrameAt(stack[n], n, dir[n], pos[n], off[n], ch)
  BY <1>1, <1>2 DEF WalkingBy, Path
<1> QED
  BY <1>1, <1>2, <1>3, FrameIs

\* How much has been passed is a number, and all of it in the end.
LEMMA WalkingIs ==
  ASSUME NEW u, NEW ch, NEW stack, NEW off, NEW passed, Walking(u, ch, stack, off, passed)
  PROVE  /\ stack \in Seq(Frame) /\ off \in [Process -> Nat]
         /\ passed \in Nat /\ passed <= Len(WalkOf(u)[Root])
         /\ Len(stack) = 0 => passed = Len(WalkOf(u)[Root])
<1>1. PICK dir, pos, base :
        /\ WalkingBy(u, ch, stack, off, dir, pos, base)
        /\ passed = Passed(u, Len(stack), dir[Len(stack)], pos[Len(stack)], base[Len(stack)])
  BY DEF Walking
<1>2. PICK n \in Nat : n = Len(stack)
  BY <1>1 DEF WalkingBy
<1>3. n > 0 => PathAt(u, n, dir[n], pos[n], base[n])
  BY <1>1, <1>2, TopIs DEF TopAt
<1>4. passed \in Nat /\ passed <= Len(WalkOf(u)[Root])
  BY <1>1, <1>2, <1>3, PassedIs
<1>5. n = 0 => passed = Len(WalkOf(u)[Root])
  BY <1>1, <1>2 DEF Passed
<1> QED
  BY <1>1, <1>2, <1>4, <1>5 DEF WalkingBy

\* The innermost call has become f, the others have stayed.
TopReplaced(new, stack, f) ==
  /\ new \in Seq(Frame) /\ Len(new) = Len(stack)
  /\ \A k \in 1 .. Len(stack) : new[k] = IF k = Len(stack) THEN f ELSE stack[k]

\* The innermost call passes entries or reads ahead.
Advances(u, ch, n, stack, off, dir, pos, base, new, off2, pos2) ==
  /\ n = Len(stack) /\ TopReplaced(new, stack, new[n])
  /\ off2[n] \in Nat /\ off2 = [off EXCEPT ![n] = off2[n]]
  /\ \A k \in 1 .. n : k # n => pos2[k] = pos[k]
  /\ FrameAt(new[n], n, dir[n], pos2[n], off2[n], ch) /\ PathAt(u, n, dir[n], pos2[n], base[n])

LEMMA WalkingOn ==
  ASSUME NEW u, NEW ch, NEW stack, NEW off, NEW dir, NEW pos, NEW base,
         WalkingBy(u, ch, stack, off, dir, pos, base), NEW n \in Nat \ {0},
         NEW new, NEW off2, NEW pos2, Advances(u, ch, n, stack, off, dir, pos, base, new, off2, pos2)
  PROVE  WalkingBy(u, ch, new, off2, dir, pos2, base)
<1>0. /\ n = Len(stack) /\ TopReplaced(new, stack, new[n])
      /\ off2[n] \in Nat /\ off2 = [off EXCEPT ![n] = off2[n]]
      /\ \A k \in 1 .. n : k # n => pos2[k] = pos[k]
      /\ FrameAt(new[n], n, dir[n], pos2[n], off2[n], ch) /\ PathAt(u, n, dir[n], pos2[n], base[n])
  BY DEF Advances
<1>1. n \in Process
  BY <1>0, TopIs DEF TopAt
<1>2. off \in [Process -> Nat] /\ off2 \in [Process -> Nat]
  <2>1. off \in [Process -> Nat]
    BY DEF WalkingBy
  <2>2. PICK o \in Nat : o = off2[n]
    BY <1>0
  <2> QED
    BY <2>1, <2>2, <1>0, <1>1
<1>3. \A k \in 1 .. n : k # n => off2[k] = off[k]
  <2>1. PICK o : o = off2[n]
    OBVIOUS
  <2>2. off2 = [off EXCEPT ![n] = o]
    BY <2>1, <1>0
  <2>3. \A k \in Process : k # n => off2[k] = off[k]
    BY ONLY <2>2, <1>2
  <2>4. \A k \in 1 .. n : k \in Process
    <3>1. n <= MaxProcesses /\ MaxProcesses \in Nat
      BY <1>1, DirectoryListAssumption DEF Process
    <3> QED
      BY <3>1 DEF Process
  <2> QED
    BY <2>3, <2>4
<1>4. Len(new) = n /\ \A k \in 1 .. n : k # n => new[k] = stack[k]
  BY <1>0 DEF TopReplaced
<1>6. /\ \A k \in 1 .. n : PathAt(u, k, dir[k], pos[k], base[k])
      /\ \A k \in 1 .. n : FrameAt(stack[k], k, dir[k], pos[k], off[k], ch)
      /\ dir[1] = Root
      /\ \A k \in 1 .. n - 1 : Enters(u, dir[k], pos[k], base[k], dir[k + 1], base[k + 1])
  <2>1. n = Len(stack) /\ n > 0
    BY <1>0
  <2> QED
    BY <2>1 DEF WalkingBy, Path
<1>7. ASSUME NEW k \in 1 .. n
      PROVE  PathAt(u, k, dir[k], pos2[k], base[k]) /\ FrameAt(new[k], k, dir[k], pos2[k], off2[k], ch)
  <2>1. CASE k = n
    BY <2>1, <1>0
  <2>2. CASE k # n
    BY <2>2, <1>0, <1>3, <1>4, <1>6
  <2> QED
    BY <2>1, <2>2
<1>8. ASSUME NEW k \in 1 .. n - 1
      PROVE  Enters(u, dir[k], pos2[k], base[k], dir[k + 1], base[k + 1])
  <2>1. k \in 1 .. n /\ k # n
    OBVIOUS
  <2> QED
    BY <2>1, <1>0, <1>6
<1>9. Path(u, n, dir, pos2, base)
  BY <1>6, <1>7, <1>8 DEF Path
<1>10. new \in Seq(Frame)
  BY <1>0 DEF TopReplaced
<1> QED
  BY <1>2, <1>4, <1>7, <1>9, <1>10 DEF WalkingBy

\* readdir reads c entries ahead: nothing more is passed.
LEMMA WalkingReads ==
  ASSUME NEW u, NEW ch \in Nat, NEW stack, NEW off, NEW passed, Walking(u, ch, stack, off, passed),
         NEW n, n = Len(stack), n > 0, stack[n].ahead = <<>>,
         NEW c \in Nat, c <= ch, off[n] + c <= Len(Entries[stack[n].dir]),
         NEW new, NEW f, TopReplaced(new, stack, f),
         f = [dir |-> stack[n].dir, stream |-> stack[n].stream,
              ahead |-> SubSeq(Entries[stack[n].dir], off[n] + 1, off[n] + c)]
  PROVE  Walking(u, ch, new, [off EXCEPT ![n] = off[n] + c], passed)
<1>1. PICK dir, pos, base :
        /\ WalkingBy(u, ch, stack, off, dir, pos, base)
        /\ passed = Passed(u, Len(stack), dir[Len(stack)], pos[Len(stack)], base[Len(stack)])
  BY DEF Walking
<1>2. n \in Nat \ {0} /\ TopAt(u, ch, stack[n], n, off[n], dir[n], pos[n], base[n])
  BY <1>1, TopIs
<1>3. PICK p : p = pos[n]
  OBVIOUS
<1>4. /\ PathAt(u, n, dir[n], p, base[n]) /\ stack[n].dir = dir[n] /\ stack[n].stream = n
      /\ p \in Nat /\ off[n] \in Nat /\ p = off[n]
  BY <1>2, <1>3 DEF TopAt, AheadAt
<1>5. PICK o \in Nat : o = p + c
  BY <1>4
<1>6. FrameAt(f, n, dir[n], p, o, ch)
  <2>1. f = [dir |-> dir[n], stream |-> n, ahead |-> SubSeq(Entries[dir[n]], p + 1, o)]
    BY <1>4, <1>5
  <2>2. p <= o /\ o <= Len(Entries[dir[n]]) /\ o - p <= ch
    <3>1. o - p = c /\ p <= o
      BY <1>4, <1>5
    <3> QED
      BY <3>1, <1>4, <1>5
  <2> QED
    BY <2>1, <2>2 DEF FrameAt
<1>7. PICK pos2 : pos2 = [k \in 1 .. n |-> IF k = n THEN p ELSE pos[k]]
  OBVIOUS
<1>8. PICK off2 : off2 = [off EXCEPT ![n] = o]
  OBVIOUS
<1>9. WalkingBy(u, ch, new, off2, dir, pos2, base)
  <2>a. n \in 1 .. Len(stack)
    BY <1>2
  <2>1. n = Len(stack) /\ TopReplaced(new, stack, f) /\ new[n] = f /\ n \in Nat \ {0}
    BY <2>a, <1>2 DEF TopReplaced
  <2>2. pos2[n] = p /\ \A k \in 1 .. n : k # n => pos2[k] = pos[k]
    BY <2>1, <1>7
  <2>3. off2[n] = o
    BY <1>1, <1>2, <1>8 DEF WalkingBy, TopAt
  <2>4. Advances(u, ch, n, stack, off, dir, pos, base, new, off2, pos2)
    BY <2>1, <2>2, <2>3, <1>4, <1>6, <1>8 DEF Advances
  <2> QED
    BY ONLY <2>1, <2>4, <1>1, WalkingOn
<1>10. Len(new) = n /\ pos2[n] = pos[n]
  BY <1>2, <1>3, <1>7 DEF TopReplaced
<1> QED
  BY <1>1, <1>4, <1>5, <1>8, <1>9, <1>10 DEF Walking

\* The innermost call passes an entry it does not enter.
LEMMA WalkingPasses ==
  ASSUME NEW u, NEW ch \in Nat, NEW stack, NEW off, NEW passed, Walking(u, ch, stack, off, passed),
         NEW n, n = Len(stack), n > 0, stack[n].ahead # <<>>,
         NEW e, e = Head(stack[n].ahead), e \notin Directory \ u,
         NEW new, NEW f, TopReplaced(new, stack, f),
         f = [dir |-> stack[n].dir, stream |-> stack[n].stream, ahead |-> Tail(stack[n].ahead)]
  PROVE  \E next : Walking(u, ch, new, off, next) /\ Passes(u, e, passed, next)
<1>1. PICK dir, pos, base :
        /\ WalkingBy(u, ch, stack, off, dir, pos, base)
        /\ passed = Passed(u, Len(stack), dir[Len(stack)], pos[Len(stack)], base[Len(stack)])
  BY DEF Walking
<1>2. n \in Nat \ {0} /\ TopAt(u, ch, stack[n], n, off[n], dir[n], pos[n], base[n])
  BY <1>1, TopIs
<1>3. PICK p \in Nat : p = pos[n]
  BY <1>2 DEF TopAt
<1>4. PICK o \in Nat : o = off[n]
  BY <1>2 DEF TopAt
<1>5. PICK d : d = dir[n]
  OBVIOUS
<1>6. PICK b : b = base[n]
  OBVIOUS
<1>7. /\ PathAt(u, n, d, p, b) /\ stack[n].dir = d /\ stack[n].stream = n
      /\ FrameAt(stack[n], n, d, p, o, ch) /\ p # o
      /\ p < o => /\ p < Len(Entries[d]) /\ Head(stack[n].ahead) = Entries[d][p + 1]
                  /\ Tail(stack[n].ahead) = SubSeq(Entries[d], (p + 1) + 1, o)
  BY <1>2, <1>3, <1>4, <1>5, <1>6 DEF TopAt, AheadAt
<1>8. p < o /\ o <= Len(Entries[d]) /\ o - p <= ch
  BY <1>7 DEF FrameAt
<1>9. Passes(u, e, Passed(u, n, d, p, b), Passed(u, n, d, p + 1, b))
  BY <1>2, <1>7, <1>8, PassEntry
<1>10. PathAt(u, n, d, p + 1, b)
  <2>1. PICK m \in Nat : m = Len(Entries[d])
    BY <1>7, EntriesAre DEF PathAt
  <2>a. p < m
    BY <2>1, <1>7, <1>8
  <2>b. p + 1 \in Nat /\ p + 1 <= m
    BY ONLY <2>a, p \in Nat, m \in Nat
  <2>2. p + 1 \in Nat /\ p + 1 <= Len(Entries[d])
    BY ONLY <2>1, <2>b
  <2> QED
    BY <2>2, <1>7 DEF PathAt
<1>11. FrameAt(f, n, d, p + 1, o, ch)
  <2>1. f = [dir |-> d, stream |-> n, ahead |-> SubSeq(Entries[d], (p + 1) + 1, o)]
    <3>1. PICK t : t = SubSeq(Entries[d], (p + 1) + 1, o)
      OBVIOUS
    <3>2. Tail(stack[n].ahead) = t
      BY <3>1, <1>7, <1>8
    <3>3. f = [dir |-> d, stream |-> n, ahead |-> t]
      BY <3>2, <1>7
    <3> QED
      BY <3>1, <3>3
  <2>2. p + 1 <= o
    BY <1>8
  <2>3. o - (p + 1) <= ch
    BY <1>8
  <2> QED
    BY <2>1, <2>2, <2>3, <1>8 DEF FrameAt
<1>12. PICK pos2 : pos2 = [k \in 1 .. n |-> IF k = n THEN p + 1 ELSE pos[k]]
  OBVIOUS
<1>13. off = [off EXCEPT ![n] = o]
  BY <1>1, <1>4 DEF WalkingBy
<1>14. WalkingBy(u, ch, new, off, dir, pos2, base)
  <2>a. n \in 1 .. Len(stack)
    BY <1>2
  <2>1. n = Len(stack) /\ TopReplaced(new, stack, f) /\ new[n] = f /\ n \in Nat \ {0}
    BY <2>a, <1>2 DEF TopReplaced
  <2>2. pos2[n] = p + 1 /\ \A k \in 1 .. n : k # n => pos2[k] = pos[k]
    BY <2>1, <1>12
  <2>4. Advances(u, ch, n, stack, off, dir, pos, base, new, off, pos2)
    BY <2>1, <2>2, <1>4, <1>5, <1>6, <1>10, <1>11, <1>13 DEF Advances
  <2> QED
    BY ONLY <2>1, <2>4, <1>1, WalkingOn
<1>15. Len(new) = n /\ pos2[n] = p + 1
  BY <1>2, <1>12 DEF TopReplaced
<1>16. Walking(u, ch, new, off, Passed(u, n, d, p + 1, b))
  BY <1>5, <1>6, <1>14, <1>15 DEF Walking
<1> QED
  BY <1>1, <1>3, <1>5, <1>6, <1>9, <1>16

\* A call of list for an entry: its line in the walk is passed.
LEMMA WalkingEnters ==
  ASSUME NEW u, NEW ch \in Nat, NEW stack, NEW off, NEW passed, Walking(u, ch, stack, off, passed),
         NEW n, n = Len(stack), n > 0, stack[n].ahead # <<>>,
         NEW e, e = Head(stack[n].ahead), e \in Directory \ u,
         NEW rest, NEW f, TopReplaced(rest, stack, f),
         f = [dir |-> stack[n].dir, stream |-> stack[n].stream, ahead |-> Tail(stack[n].ahead)],
         NEW new, new = Append(rest, Call(e, n + 1))
  PROVE  /\ Walking(u, ch, new, [off EXCEPT ![n + 1] = 0], passed + 1) /\ n + 1 \in Process
         /\ Passes(u, e, passed, passed + 1)
<1>1. PICK dir, pos, base :
        /\ WalkingBy(u, ch, stack, off, dir, pos, base)
        /\ passed = Passed(u, Len(stack), dir[Len(stack)], pos[Len(stack)], base[Len(stack)])
  BY DEF Walking
<1>2. n \in Nat \ {0} /\ TopAt(u, ch, stack[n], n, off[n], dir[n], pos[n], base[n])
  BY <1>1, TopIs
<1>3. PICK p \in Nat : p = pos[n]
  BY <1>2 DEF TopAt
<1>4. PICK o \in Nat : o = off[n]
  BY <1>2 DEF TopAt
<1>5. PICK d : d = dir[n]
  OBVIOUS
<1>6. PICK b : b = base[n]
  OBVIOUS
<1>7. /\ PathAt(u, n, d, p, b) /\ stack[n].dir = d /\ stack[n].stream = n
      /\ FrameAt(stack[n], n, d, p, o, ch) /\ p # o
      /\ p < o => /\ p < Len(Entries[d]) /\ Head(stack[n].ahead) = Entries[d][p + 1]
                  /\ Tail(stack[n].ahead) = SubSeq(Entries[d], (p + 1) + 1, o)
  BY <1>2, <1>3, <1>4, <1>5, <1>6 DEF TopAt, AheadAt
<1>8. p < o /\ o <= Len(Entries[d]) /\ o - p <= ch
  BY <1>7 DEF FrameAt
<1>9. Passes(u, e, passed, passed + 1)
  <2>1. Passes(u, e, Passed(u, n, d, p, b), Passed(u, n, d, p, b) + 1)
    BY <1>2, <1>7, <1>8, PassEntry
  <2> QED
    BY <2>1, <1>1, <1>3, <1>5, <1>6
<1>c. PICK c \in Nat : c = passed + 1
  BY <1>9 DEF Passes
<1>10. /\ PathAt(u, n + 1, e, 0, c) /\ Enters(u, d, p + 1, b, e, c)
       /\ Passed(u, n + 1, e, 0, c) = c
  <2>1. e = Entries[d][p + 1] /\ p < Len(Entries[d]) /\ c = Passed(u, n, d, p, b) + 1
    BY <1>1, <1>3, <1>5, <1>6, <1>7, <1>8, <1>c
  <2> QED
    <3>1. /\ n \in Nat \ {0} /\ PathAt(u, n, d, p, b) /\ p < Len(Entries[d])
          /\ e = Entries[d][p + 1] /\ e \in Directory \ u /\ c = Passed(u, n, d, p, b) + 1
      BY <2>1, <1>2, <1>7
    <3> QED
      BY ONLY <3>1, EnterEntry
<1>11. PathAt(u, n, d, p + 1, b)
  <2>1. PICK m \in Nat : m = Len(Entries[d])
    BY <1>7, EntriesAre DEF PathAt
  <2>a. p < m
    BY <2>1, <1>7, <1>8
  <2>b. p + 1 \in Nat /\ p + 1 <= m
    BY ONLY <2>a, p \in Nat, m \in Nat
  <2>2. p + 1 \in Nat /\ p + 1 <= Len(Entries[d])
    BY ONLY <2>1, <2>b
  <2> QED
    BY <2>2, <1>7 DEF PathAt
<1>12. FrameAt(f, n, d, p + 1, o, ch)
  <2>1. f = [dir |-> d, stream |-> n, ahead |-> SubSeq(Entries[d], (p + 1) + 1, o)]
    <3>1. PICK t : t = SubSeq(Entries[d], (p + 1) + 1, o)
      OBVIOUS
    <3>2. Tail(stack[n].ahead) = t
      BY <3>1, <1>7, <1>8
    <3>3. f = [dir |-> d, stream |-> n, ahead |-> t]
      BY <3>2, <1>7
    <3> QED
      BY <3>1, <3>3
  <2>2. p + 1 <= o
    BY <1>8
  <2>3. o - (p + 1) <= ch
    BY <1>8
  <2> QED
    BY <2>1, <2>2, <2>3, <1>8 DEF FrameAt
<1>13. FrameAt(Call(e, n + 1), n + 1, e, 0, 0, ch)
  <2>1. SubSeq(Entries[e], 0 + 1, 0) = <<>>
    BY SubSeqEmpty
  <2>2. Call(e, n + 1) = [dir |-> e, stream |-> n + 1, ahead |-> SubSeq(Entries[e], 0 + 1, 0)]
    BY <2>1 DEF Call
  <2>3. 0 <= Len(Entries[e]) /\ 0 - 0 <= ch
    BY EntriesAre
  <2> QED
    BY <2>2, <2>3 DEF FrameAt
<1>14. n + 1 \in Process
  <2>1. n + 1 \in Nat \ {0}
    BY <1>2
  <2> QED
    BY <2>1, <1>10, <1>13, FrameIs DEF TopAt
<1>15. Call(e, n + 1) \in Frame
  <2>1. <<>> \in Seq(Node \cup Dots)
    OBVIOUS
  <2> QED
    BY <2>1, <1>14 DEF Call, Frame
<1>16. /\ new \in Seq(Frame) /\ Len(new) = n + 1 /\ new[n + 1] = Call(e, n + 1)
       /\ \A k \in 1 .. n : new[k] = IF k = n THEN f ELSE stack[k]
  <2>1. rest \in Seq(Frame) /\ Len(rest) = n /\ \A k \in 1 .. n : rest[k] = IF k = n THEN f ELSE stack[k]
    BY DEF TopReplaced
  <2>2. /\ new \in Seq(Frame) /\ Len(new) = Len(rest) + 1 /\ new[Len(rest) + 1] = Call(e, n + 1)
        /\ \A k \in 1 .. Len(rest) : new[k] = rest[k]
    BY <2>1, <1>15, AppendProperties
  <2> QED
    BY <2>1, <2>2
<1>17. PICK off2 : off2 = [off EXCEPT ![n + 1] = 0]
  OBVIOUS
<1>18. off2 \in [Process -> Nat] /\ off2[n + 1] = 0 /\ off2[n] = o /\ \A k \in 1 .. n : off2[k] = off[k]
  <2>1. off \in [Process -> Nat]
    BY <1>1 DEF WalkingBy
  <2>2. \A k \in 1 .. n : k \in Process /\ k # n + 1
    <3>1. n + 1 <= MaxProcesses /\ MaxProcesses \in Nat
      BY <1>14, DirectoryListAssumption DEF Process
    <3> QED
      BY <3>1, <1>2 DEF Process
  <2>3. \A k \in 1 .. n : off2[k] = off[k]
    BY <2>1, <2>2, <1>17
  <2>4. n \in 1 .. n
    BY <1>2
  <2> QED
    BY <2>1, <2>3, <2>4, <1>4, <1>14, <1>17
<1>19. PICK dir2 : dir2 = [k \in 1 .. n + 1 |-> IF k = n + 1 THEN e ELSE dir[k]]
  OBVIOUS
<1>20. PICK base2 : base2 = [k \in 1 .. n + 1 |-> IF k = n + 1 THEN c ELSE base[k]]
  OBVIOUS
<1>21. PICK pos2 : pos2 = [k \in 1 .. n + 1 |-> IF k = n + 1 THEN 0 ELSE IF k = n THEN p + 1 ELSE pos[k]]
  OBVIOUS
<1>22. /\ dir2[n + 1] = e /\ base2[n + 1] = c /\ pos2[n + 1] = 0
       /\ dir2[n] = d /\ base2[n] = b /\ pos2[n] = p + 1
       /\ \A k \in 1 .. n - 1 : dir2[k] = dir[k] /\ base2[k] = base[k] /\ pos2[k] = pos[k]
  <2>1. n + 1 \in 1 .. n + 1 /\ n \in 1 .. n + 1 /\ n # n + 1
    BY <1>2
  <2>2. \A k \in 1 .. n - 1 : k \in 1 .. n + 1 /\ k # n + 1 /\ k # n
    BY <1>2
  <2> QED
    BY <2>1, <2>2, <1>5, <1>6, <1>19, <1>20, <1>21
<1>23. /\ \A k \in 1 .. n : PathAt(u, k, dir[k], pos[k], base[k])
       /\ \A k \in 1 .. n : FrameAt(stack[k], k, dir[k], pos[k], off[k], ch)
       /\ dir[1] = Root
       /\ \A k \in 1 .. n - 1 : Enters(u, dir[k], pos[k], base[k], dir[k + 1], base[k + 1])
  BY <1>1 DEF WalkingBy, Path
<1>24. ASSUME NEW k \in 1 .. n + 1
       PROVE  /\ PathAt(u, k, dir2[k], pos2[k], base2[k])
              /\ FrameAt(new[k], k, dir2[k], pos2[k], off2[k], ch)
  <2>1. CASE k = n + 1
    BY <2>1, <1>10, <1>13, <1>16, <1>18, <1>22
  <2>2. CASE k = n
    <3>1. n \in 1 .. n
      BY <1>2
    <3>2. new[n] = f
      BY <3>1, <1>16
    <3> QED
      BY <2>2, <3>2, <1>11, <1>12, <1>18, <1>22
  <2>3. CASE k # n /\ k # n + 1
    <3>1. k \in 1 .. n - 1 /\ k \in 1 .. n
      BY <2>3, <1>2
    <3>2. new[k] = stack[k] /\ off2[k] = off[k]
      BY <2>3, <3>1, <1>16, <1>18
    <3> QED
      BY <3>1, <3>2, <1>22, <1>23
  <2> QED
    BY <2>1, <2>2, <2>3
<1>25. ASSUME NEW k \in 1 .. n
       PROVE  Enters(u, dir2[k], pos2[k], base2[k], dir2[k + 1], base2[k + 1])
  <2>1. CASE k = n
    BY <2>1, <1>10, <1>22
  <2>2. CASE k # n
    <3>1. k \in 1 .. n - 1
      BY <2>2, <1>2
    <3>2. dir2[k + 1] = dir[k + 1] /\ base2[k + 1] = base[k + 1]
      <4>1. CASE k + 1 = n
        BY <4>1, <1>5, <1>6, <1>22
      <4>2. CASE k + 1 # n
        <5>1. k + 1 \in 1 .. n - 1
          BY <3>1, <4>2, <1>2
        <5> QED
          BY <5>1, <1>22
      <4> QED
        BY <4>1, <4>2
    <3> QED
      BY <3>1, <3>2, <1>22, <1>23
  <2> QED
    BY <2>1, <2>2
<1>26. dir2[1] = Root
  <2>1. CASE n = 1
    BY <2>1, <1>5, <1>22, <1>23
  <2>2. CASE n # 1
    <3>1. 1 \in 1 .. n - 1
      BY <2>2, <1>2
    <3> QED
      BY <3>1, <1>22, <1>23
  <2> QED
    BY <2>1, <2>2
<1>27. Path(u, n + 1, dir2, pos2, base2)
  <2>1. (n + 1) - 1 = n
    BY <1>2
  <2> QED
    BY <2>1, <1>24, <1>25, <1>26 DEF Path
<1>28. WalkingBy(u, ch, new, off2, dir2, pos2, base2)
  BY <1>16, <1>18, <1>24, <1>27 DEF WalkingBy
<1>29. passed + 1 = Passed(u, Len(new), dir2[Len(new)], pos2[Len(new)], base2[Len(new)])
  BY <1>10, <1>16, <1>22, <1>c
<1> QED
  BY <1>9, <1>14, <1>17, <1>28, <1>29 DEF Walking

\* list returns from the end of a directory: nothing more is passed.
LEMMA WalkingLeaves ==
  ASSUME NEW u, NEW ch \in Nat, NEW stack, NEW off, NEW passed, Walking(u, ch, stack, off, passed),
         NEW n, n = Len(stack), n > 0, stack[n].ahead = <<>>,
         off[n] = Len(Entries[stack[n].dir]), NEW new, new = Front(stack)
  PROVE  Walking(u, ch, new, off, passed)
<1>1. PICK dir, pos, base :
        /\ WalkingBy(u, ch, stack, off, dir, pos, base)
        /\ passed = Passed(u, Len(stack), dir[Len(stack)], pos[Len(stack)], base[Len(stack)])
  BY DEF Walking
<1>2. n \in Nat \ {0} /\ TopAt(u, ch, stack[n], n, off[n], dir[n], pos[n], base[n])
  BY <1>1, TopIs
<1>3. PathAt(u, n, dir[n], pos[n], base[n]) /\ pos[n] = Len(Entries[dir[n]])
  BY <1>2 DEF TopAt, AheadAt
<1>4. PICK m \in Nat : m = n - 1 /\ n = m + 1 /\ m \in 0 .. n
  BY <1>2
<1>5. /\ stack \in Seq(Frame) /\ off \in [Process -> Nat]
      /\ \A k \in 1 .. n : PathAt(u, k, dir[k], pos[k], base[k])
      /\ \A k \in 1 .. n : FrameAt(stack[k], k, dir[k], pos[k], off[k], ch)
      /\ dir[1] = Root
      /\ \A k \in 1 .. n - 1 : Enters(u, dir[k], pos[k], base[k], dir[k + 1], base[k + 1])
  BY <1>1, <1>2 DEF WalkingBy, Path
<1>6. new \in Seq(Frame) /\ Len(new) = m /\ \A k \in 1 .. m : new[k] = stack[k]
  <2>1. new = SubSeq(stack, 1, m)
    BY <1>4 DEF Front
  <2>2. \A k \in 1 .. m : stack[k] \in Frame
    BY <1>4, <1>5
  <2>3. /\ new \in Seq(Frame) /\ Len(new) = IF 1 <= m THEN m - 1 + 1 ELSE 0
        /\ \A k \in 1 .. m - 1 + 1 : new[k] = stack[1 + k - 1]
    BY <2>1, <2>2, 1 \in Int, m \in Int, SubSeqProperties
  <2>4. \A k \in 1 .. m : k \in 1 .. m - 1 + 1 /\ 1 + k - 1 = k
    OBVIOUS
  <2>5. Len(new) = m
    BY <2>3
  <2> QED
    BY <2>3, <2>4, <2>5
<1>7. Path(u, m, dir, pos, base)
  <2>1. \A k \in 1 .. m : k \in 1 .. n
    BY <1>4
  <2>2. \A k \in 1 .. m - 1 : k \in 1 .. n - 1
    BY <1>4
  <2> QED
    BY <2>1, <2>2, <1>5 DEF Path
<1>8. WalkingBy(u, ch, new, off, dir, pos, base)
  <2>1. \A k \in 1 .. m : k \in 1 .. n
    BY <1>4
  <2> QED
    BY <2>1, <1>5, <1>6, <1>7 DEF WalkingBy
<1>9. Passed(u, n, dir[n], pos[n], base[n]) = Passed(u, n - 1, dir[m], pos[m], base[m])
  <2>1. n = 1 => dir[n] = Root
    BY <1>5
  <2>2. n > 1 => /\ PathAt(u, n - 1, dir[m], pos[m], base[m])
                 /\ Enters(u, dir[m], pos[m], base[m], dir[n], base[n])
    <3>1. n > 1 => m \in 1 .. n /\ m \in 1 .. n - 1 /\ m + 1 = n
      BY <1>4
    <3> QED
      BY <3>1, <1>4, <1>5
  <2> QED
    <3>1. PICK e : e = dir[n]
      OBVIOUS
    <3>2. PICK q : q = pos[n]
      OBVIOUS
    <3>3. PICK c : c = base[n]
      OBVIOUS
    <3>4. PICK d : d = dir[m]
      OBVIOUS
    <3>5. PICK p : p = pos[m]
      OBVIOUS
    <3>6. PICK b : b = base[m]
      OBVIOUS
    <3>7. /\ n \in Nat \ {0} /\ PathAt(u, n, e, q, c) /\ q = Len(Entries[e]) /\ (n = 1 => e = Root)
          /\ n > 1 => PathAt(u, n - 1, d, p, b) /\ Enters(u, d, p, b, e, c)
      BY <2>1, <2>2, <1>2, <1>3, <3>1, <3>2, <3>3, <3>4, <3>5, <3>6
    <3>8. Passed(u, n, e, q, c) = Passed(u, n - 1, d, p, b)
      BY ONLY <3>7, LeaveDirectory
    <3> QED
      BY <3>1, <3>2, <3>3, <3>4, <3>5, <3>6, <3>8
<1>10. passed = Passed(u, Len(new), dir[Len(new)], pos[Len(new)], base[Len(new)])
  BY <1>1, <1>4, <1>6, <1>9
<1> QED
  BY <1>8, <1>10 DEF Walking

-------------------------------------------------------------------------------
(* What has been printed when the first entries of the walk are passed: by   *)
(* lab2/cw2a the good ones of them; by lab2/cw2b all of them, for it would   *)
(* have stopped at another.                                                  *)

Seen(u, passed, n) == \E x \in 1 .. passed : WalkOf(u)[Root][x] = n

Printed(prog, u, good, passed, ls) ==
  /\ ls \in [Node -> Nat]
  /\ prog = "lab2/cw2a" =>
       \A n \in Node : ls[n] = IF n \in good /\ Seen(u, passed, n) THEN 1 ELSE 0
  /\ prog = "lab2/cw2b" =>
       /\ Root \in good /\ \A n \in Node : Seen(u, passed, n) => n \in good
       /\ \A n \in Node : ls[n] = IF n = Root \/ Seen(u, passed, n) THEN 1 ELSE 0

Stopped(u, good, ls) ==
  /\ ls[Root] = IF Root \in good THEN 1 ELSE 0
  /\ \A x \in 1 .. Len(WalkOf(u)[Root]) :
       ls[WalkOf(u)[Root][x]] =
         IF Root \in good /\ \A j \in 1 .. x : WalkOf(u)[Root][j] \in good THEN 1 ELSE 0

\* An entry is seen when it is passed, and was not before.
LEMMA SeenNext ==
  ASSUME NEW u, NEW e, NEW x, NEW y, Passes(u, e, x, y), e \notin Dots
  PROVE  /\ e \in Node /\ e # Root /\ ~Seen(u, x, e)
         /\ \A n : Seen(u, y, n) <=> Seen(u, x, n) \/ n = e
<1>w. PICK w : w = WalkOf(u)[Root]
  OBVIOUS
<1>l. PICK l \in Nat : l = Len(w)
  BY <1>w, WalkLength, DirectoryListAssumption
<1>1. x \in Nat /\ y \in Nat /\ y <= l /\ y = x + 1 /\ w[x + 1] = e
  BY <1>w, <1>l DEF Passes
<1>2. x + 1 \in 1 .. l
  BY <1>1
<1>3. \A j, k \in 1 .. l : w[j] = w[k] => j = k
  BY <1>w, <1>l, OnceInWalk, DirectoryListAssumption
<1>4. e \in Node
  BY <1>1, <1>2, <1>w, <1>l, WalkLength, DirectoryListAssumption
<1>5. e # Root
  <2>1. Holds(u, Root, e)
    BY <1>1, <1>2, <1>w, <1>l DEF Holds
  <2> QED
    BY <2>1, RootIsAbove, DirectoryListAssumption
<1>6. ~Seen(u, x, e)
  <2> SUFFICES ASSUME NEW k \in 1 .. x, w[k] = e
               PROVE  FALSE
    BY <1>w DEF Seen
  <2>1. k \in 1 .. l /\ k # x + 1
    BY <1>1
  <2> QED
    BY <2>1, <1>1, <1>2, <1>3
<1>7. ASSUME NEW n
      PROVE  Seen(u, y, n) <=> Seen(u, x, n) \/ n = e
  <2>1. \A k \in 1 .. y : k \in 1 .. x \/ k = x + 1
    BY <1>1
  <2>2. \A k \in 1 .. x : k \in 1 .. y
    BY <1>1
  <2>3. x + 1 \in 1 .. y
    BY <1>1
  <2> QED
    BY <2>1, <2>2, <2>3, <1>1, <1>w DEF Seen
<1> QED
  BY <1>4, <1>5, <1>6, <1>7

LEMMA PrintedSkips ==
  ASSUME NEW prog, NEW u, NEW good, NEW x, NEW y, NEW ls, Printed(prog, u, good, x, ls),
         NEW e \in Dots, Passes(u, e, x, y)
  PROVE  Printed(prog, u, good, y, ls)
  BY DEF Passes

LEMMA PrintedNext ==
  ASSUME NEW prog, NEW u, NEW good, NEW x, NEW y, NEW ls, Printed(prog, u, good, x, ls),
         NEW e, e \notin Dots, Passes(u, e, x, y), prog = "lab2/cw2b" => e \in good,
         NEW ls2, ls2 = IF e \in good THEN [ls EXCEPT ![e] = @ + 1] ELSE ls
  PROVE  Printed(prog, u, good, y, ls2)
<1>1. /\ e \in Node /\ e # Root /\ ~Seen(u, x, e)
      /\ \A n : Seen(u, y, n) <=> Seen(u, x, n) \/ n = e
  BY SeenNext
<1>2. ls \in [Node -> Nat]
  BY DEF Printed
<1>3. /\ ls2 \in [Node -> Nat]
      /\ ls2[e] = IF e \in good THEN ls[e] + 1 ELSE ls[e]
      /\ \A n \in Node : n # e => ls2[n] = ls[n]
  BY <1>1, <1>2
<1>4. ASSUME prog = "lab2/cw2a", NEW n \in Node
      PROVE  ls2[n] = IF n \in good /\ Seen(u, y, n) THEN 1 ELSE 0
  <2>1. ls[n] = IF n \in good /\ Seen(u, x, n) THEN 1 ELSE 0
    BY <1>4 DEF Printed
  <2>2. CASE n = e
    BY <2>1, <2>2, <1>1, <1>3
  <2>3. CASE n # e
    BY <2>1, <2>3, <1>1, <1>3
  <2> QED
    BY <2>2, <2>3
<1>5. ASSUME prog = "lab2/cw2b"
      PROVE  /\ Root \in good /\ \A n \in Node : Seen(u, y, n) => n \in good
             /\ \A n \in Node : ls2[n] = IF n = Root \/ Seen(u, y, n) THEN 1 ELSE 0
  <2>1. e \in good
    BY <1>5
  <2>2. Root \in good /\ \A n \in Node : Seen(u, x, n) => n \in good
    BY <1>5 DEF Printed
  <2>3. \A n \in Node : ls[n] = IF n = Root \/ Seen(u, x, n) THEN 1 ELSE 0
    BY <1>5 DEF Printed
  <2>4. ASSUME NEW n \in Node
        PROVE  ls2[n] = IF n = Root \/ Seen(u, y, n) THEN 1 ELSE 0
    <3>1. CASE n = e
      BY <2>1, <2>3, <3>1, <1>1, <1>3
    <3>2. CASE n # e
      BY <2>3, <3>2, <1>1, <1>3
    <3> QED
      BY <3>1, <3>2
  <2> QED
    BY <2>1, <2>2, <2>4, <1>1
<1> QED
  BY <1>3, <1>4, <1>5 DEF Printed

\* lab2/cw2b at its end, after x entries of which the next is not a good one.
LEMMA PrintedStops ==
  ASSUME NEW u, NEW good, NEW x \in Nat, NEW ls, Printed("lab2/cw2b", u, good, x, ls),
         x <= Len(WalkOf(u)[Root]), x < Len(WalkOf(u)[Root]) => WalkOf(u)[Root][x + 1] \notin good
  PROVE  Stopped(u, good, ls)
<1>w. PICK w : w = WalkOf(u)[Root]
  OBVIOUS
<1>l. PICK l \in Nat : l = Len(w) /\ \A k \in 1 .. l : w[k] \in Node
  BY <1>w, WalkLength, DirectoryListAssumption
<1>1. /\ Root \in good /\ \A n \in Node : Seen(u, x, n) => n \in good
      /\ \A n \in Node : ls[n] = IF n = Root \/ Seen(u, x, n) THEN 1 ELSE 0
  BY DEF Printed
<1>2. Root \in Node
  BY DirectoryListAssumption DEF Node
<1>3. ASSUME NEW k \in 1 .. l
      PROVE  ls[w[k]] = IF Root \in good /\ \A j \in 1 .. k : w[j] \in good THEN 1 ELSE 0
  <2>1. w[k] \in Node
    BY <1>l
  <2>2. CASE k <= x
    <3>1. \A j \in 1 .. k : j \in 1 .. x /\ j \in 1 .. l
      BY <2>2
    <3>2. \A j \in 1 .. k : Seen(u, x, w[j])
      BY <3>1, <1>w DEF Seen
    <3>3. \A j \in 1 .. k : w[j] \in good
      BY <3>1, <3>2, <1>1, <1>l
    <3>4. Seen(u, x, w[k])
      <4>1. k \in 1 .. k
        OBVIOUS
      <4> QED
        BY <4>1, <3>2
    <3> QED
      BY <3>3, <3>4, <2>1, <1>1
  <2>3. CASE x < k
    <3>1. x + 1 \in 1 .. k /\ x < l
      BY <2>3, <1>l
    <3>2. w[x + 1] \notin good
      BY <3>1, <1>w, <1>l
    <3>3. ~Seen(u, x, w[k])
      <4> SUFFICES ASSUME NEW j \in 1 .. x, w[j] = w[k]
                   PROVE  FALSE
        BY <1>w DEF Seen
      <4>1. j \in 1 .. l /\ j # k
        BY <2>3, <3>1
      <4> QED
        BY <4>1, <1>w, <1>l, OnceInWalk, DirectoryListAssumption
    <3>4. w[k] # Root
      <4>1. Holds(u, Root, w[k])
        BY <1>w, <1>l DEF Holds
      <4> QED
        BY <4>1, RootIsAbove, DirectoryListAssumption
    <3> QED
      BY <3>1, <3>2, <3>3, <3>4, <2>1, <1>1
  <2> QED
    BY <2>2, <2>3
<1> QED
  BY <1>1, <1>2, <1>3, <1>w, <1>l DEF Stopped

-------------------------------------------------------------------------------
(* lab2/cw2a and lab2/cw2b                                                   *)

Good == {n \in Node : Meets(n)}

WalkedInv ==
  program # "lab3/cw1" =>
    /\ program \in {"lab2/cw2a", "lab2/cw2b"} /\ chunk \in Nat \ {0}
    /\ calls \in [Process -> Seq(Frame)] /\ \A p \in Process : p # 1 => calls[p] = <<>>
    /\ program = "lab2/cw2a" \/ Running(1) =>
         \E passed : /\ Walking(unreadable, chunk, calls[1], offset, passed)
                     /\ Printed(program, unreadable, Good, passed, listed)
    /\ program = "lab2/cw2b" /\ ~Running(1) => Stopped(unreadable, Good, listed)

LEMMA FirstIs == 1 \in Process /\ Root \in Directory /\ Root \in Node
  BY DirectoryListAssumption DEF Process, Node

LEMMA WalkingStarts ==
  ASSUME NEW u, NEW ch \in Nat, NEW off \in [Process -> Nat], off[1] = 0
  PROVE  <<Call(Root, 1)>> \in Seq(Frame) /\ Walking(u, ch, <<Call(Root, 1)>>, off, 0)
<1>1. PICK stack : stack = <<Call(Root, 1)>>
  OBVIOUS
<1>2. Call(Root, 1) \in Frame
  <2>1. <<>> \in Seq(Node \cup Dots)
    OBVIOUS
  <2> QED
    BY <2>1, FirstIs DEF Call, Frame
<1>3. stack \in Seq(Frame) /\ Len(stack) = 1 /\ stack[1] = Call(Root, 1)
  BY <1>1, <1>2
<1>4. PICK l \in Nat : l = Len(WalkOf(u)[Root])
  BY FirstIs, WalkLength
<1>5. PathAt(u, 1, Root, 0, 0)
  <2>1. LiesAt(u, 0, Root)
    <3>1. \A x \in 1 .. l : 0 + x = x
      OBVIOUS
    <3>2. 0 + l <= l
      OBVIOUS
    <3> QED
      BY <3>1, <3>2, <1>4 DEF LiesAt
  <2>2. ASSUME NEW height, IsHeight(height)
        PROVE  height[Root] + 1 <= MaxProcesses
    <3>1. PICK h \in Nat : h = height[Root] /\ h < MaxProcesses
      BY <2>2, FirstIs, HeightIs
    <3>2. MaxProcesses \in Nat
      BY DirectoryListAssumption
    <3> QED
      BY <3>1, <3>2
  <2>3. 0 <= Len(Entries[Root])
    BY FirstIs, EntriesAre
  <2> QED
    BY <2>1, <2>2, <2>3, FirstIs DEF PathAt
<1>6. FrameAt(Call(Root, 1), 1, Root, 0, 0, ch)
  <2>1. SubSeq(Entries[Root], 0 + 1, 0) = <<>>
    BY SubSeqEmpty
  <2>2. Call(Root, 1) = [dir |-> Root, stream |-> 1, ahead |-> SubSeq(Entries[Root], 0 + 1, 0)]
    BY <2>1 DEF Call
  <2>3. 0 <= Len(Entries[Root]) /\ 0 - 0 <= ch
    BY FirstIs, EntriesAre
  <2> QED
    BY <2>2, <2>3 DEF FrameAt
<1>7. PICK dir : dir = [k \in {1} |-> Root]
  OBVIOUS
<1>8. PICK pos : pos = [k \in {1} |-> 0]
  OBVIOUS
<1>9. dir[1] = Root /\ pos[1] = 0
  BY <1>7, <1>8
<1>10. WalkingBy(u, ch, stack, off, dir, pos, pos)
  <2>1. \A k \in 1 .. 1 : k = 1
    OBVIOUS
  <2>2. Path(u, 1, dir, pos, pos)
    BY <2>1, <1>5, <1>9 DEF Path
  <2> QED
    BY <2>1, <2>2, <1>3, <1>6, <1>9 DEF WalkingBy
<1>11. Passed(u, 1, dir[1], pos[1], pos[1]) = 0
  <2>1. StartOf(u, Root)[0] = 0
    BY FirstIs, WalkIsLaidOut DEF LaidOut
  <2> QED
    BY <2>1, <1>9 DEF Passed
<1>12. Walking(u, ch, stack, off, 0)
  BY <1>3, <1>10, <1>11 DEF Walking
<1> QED
  BY <1>1, <1>3, <1>12

LEMMA InstanceIs ==
  ASSUME ListInit
  PROVE  chunk \in Nat \ {0} /\ unreadable \subseteq Directory
  BY DirectoryListAssumption DEF ListInit

LEMMA InitWalked ==
  ASSUME ListInit
  PROVE  WalkedInv
<1> SUFFICES ASSUME program # "lab3/cw1"
             PROVE  /\ program \in {"lab2/cw2a", "lab2/cw2b"} /\ chunk \in Nat \ {0}
                    /\ calls \in [Process -> Seq(Frame)] /\ \A p \in Process : p # 1 => calls[p] = <<>>
                    /\ program = "lab2/cw2a" \/ Running(1) =>
                         \E passed : /\ Walking(unreadable, chunk, calls[1], offset, passed)
                                     /\ Printed(program, unreadable, Good, passed, listed)
                    /\ program = "lab2/cw2b" /\ ~Running(1) => Stopped(unreadable, Good, listed)
  BY DEF WalkedInv
<1>1. program \in {"lab2/cw2a", "lab2/cw2b"} /\ chunk \in Nat \ {0}
  BY InstanceIs DEF ListInit
<1>2. PICK stack : stack = <<Call(Root, 1)>>
  OBVIOUS
<1>3. offset \in [Process -> Nat] /\ offset[1] = 0
  BY FirstIs DEF ListInit
<1>4. stack \in Seq(Frame) /\ Walking(unreadable, chunk, stack, offset, 0)
  <2>1. chunk \in Nat
    BY <1>1
  <2> QED
    BY <2>1, <1>2, <1>3, WalkingStarts
<1>5. calls = [p \in Process |-> IF p = 1 /\ (program = "lab2/cw2b" => Meets(Root)) THEN stack ELSE <<>>]
  BY <1>2 DEF ListInit
<1>6. calls \in [Process -> Seq(Frame)]
  <2>1. <<>> \in Seq(Frame)
    OBVIOUS
  <2> QED
    BY <2>1, <1>4, <1>5
<1>7. \A p \in Process : p # 1 => calls[p] = <<>>
  BY <1>5
<1>8. calls[1] = IF program = "lab2/cw2b" => Meets(Root) THEN stack ELSE <<>>
  BY <1>5, FirstIs
<1>9. /\ listed \in [Node -> Nat]
      /\ \A n \in Node : listed[n] = IF n = Root /\ program = "lab2/cw2b" /\ Meets(n) THEN 1 ELSE 0
  BY DEF ListInit
<1>10. \A n : ~Seen(unreadable, 0, n)
  BY DEF Seen
<1>11. ASSUME program = "lab2/cw2b" => Meets(Root)
       PROVE  Printed(program, unreadable, Good, 0, listed)
  <2>1. program = "lab2/cw2b" => Root \in Good
    BY <1>11, FirstIs DEF Good
  <2> QED
    BY <2>1, <1>9, <1>10, <1>11 DEF Printed
<1>12. ASSUME program = "lab2/cw2b", ~Meets(Root)
       PROVE  Stopped(unreadable, Good, listed)
  <2>1. Root \notin Good /\ \A n \in Node : listed[n] = 0
    BY <1>9, <1>12 DEF Good
  <2> QED
    BY <2>1, FirstIs, WalkLength DEF Stopped
<1>13. stack # <<>>
  BY <1>2
<1>14. program = "lab2/cw2a" \/ Running(1) =>
         \E passed : /\ Walking(unreadable, chunk, calls[1], offset, passed)
                     /\ Printed(program, unreadable, Good, passed, listed)
  BY <1>4, <1>8, <1>11 DEF Running
<1>15. program = "lab2/cw2b" /\ ~Running(1) => Stopped(unreadable, Good, listed)
  BY <1>8, <1>12, <1>13 DEF Running
<1> QED
  BY <1>1, <1>6, <1>7, <1>14, <1>15

\* How the two assignments to calls[p] look that replace its innermost call.
LEMMA TopIsReplaced ==
  ASSUME NEW stack \in Seq(Frame), NEW n \in Nat \ {0}, n = Len(stack), NEW f \in Frame,
         NEW new, new = [stack EXCEPT ![n] = f]
  PROVE  TopReplaced(new, stack, f)
<1>1. stack \in [1 .. n -> Frame]
  OBVIOUS
<1>2. new \in [1 .. n -> Frame] /\ \A k \in 1 .. n : new[k] = IF k = n THEN f ELSE stack[k]
  BY <1>1
<1>3. new \in Seq(Frame) /\ Len(new) = n
  BY <1>2
<1> QED
  BY <1>2, <1>3 DEF TopReplaced

LEMMA AheadReplaced ==
  ASSUME NEW g \in Frame, NEW t
  PROVE  [g EXCEPT !.ahead = t] = [dir |-> g.dir, stream |-> g.stream, ahead |-> t]
<1>1. PICK d, s, a : g = [dir |-> d, stream |-> s, ahead |-> a]
  BY DEF Frame
<1> QED
  BY <1>1

TopOf(p, stack, n) ==
  /\ stack = calls[p] /\ stack \in Seq(Frame) /\ n = Len(stack) /\ n \in Nat \ {0}
  /\ Top(p) = stack[n] /\ stack[n] \in Frame

LEMMA RunningHasTop ==
  ASSUME NEW p \in Process, calls[p] \in Seq(Frame), Running(p)
  PROVE  TopOf(p, calls[p], Len(calls[p]))
<1>1. PICK stack \in Seq(Frame) : stack = calls[p]
  OBVIOUS
<1>2. PICK n \in Nat : n = Len(stack)
  OBVIOUS
<1>3. n # 0
  BY <1>1, <1>2 DEF Running
<1>4. stack[n] \in Frame
  <2>1. n \in 1 .. Len(stack)
    BY <1>2, <1>3
  <2> QED
    BY <2>1
<1>5. Top(p) = stack[n]
  BY <1>1, <1>2 DEF Top, Last
<1> QED
  BY <1>1, <1>2, <1>3, <1>4, <1>5 DEF TopOf

LEMMA RestOfTopIs ==
  ASSUME NEW p \in Process, calls[p] \in Seq(Frame), Running(p), Top(p).ahead # <<>>,
         NEW stack, NEW n, TopOf(p, stack, n)
  PROVE  /\ Entry(p) = Head(stack[n].ahead) /\ Entry(p) \in Node \cup Dots
         /\ TopReplaced(Rest(p), stack, [dir |-> stack[n].dir, stream |-> stack[n].stream,
                                         ahead |-> Tail(stack[n].ahead)])
<1>1. PICK g : g = stack[n]
  OBVIOUS
<1>2. g \in Frame /\ g.ahead # <<>> /\ stack \in Seq(Frame) /\ n \in Nat \ {0} /\ n = Len(stack)
  BY <1>1 DEF TopOf
<1>3. g.ahead \in Seq(Node \cup Dots)
  BY <1>2 DEF Frame
<1>4. Head(g.ahead) \in Node \cup Dots /\ Tail(g.ahead) \in Seq(Node \cup Dots)
  BY <1>2, <1>3, HeadTailProperties
<1>5. PICK f : f = [dir |-> g.dir, stream |-> g.stream, ahead |-> Tail(g.ahead)]
  OBVIOUS
<1>6. f \in Frame
  BY <1>2, <1>4, <1>5 DEF Frame
<1>7. [g EXCEPT !.ahead = Tail(g.ahead)] = f
  BY <1>2, <1>5, AheadReplaced
<1>8. Rest(p) = [stack EXCEPT ![n] = f]
  <2>1. Rest(p) = [stack EXCEPT ![n] = [stack[n] EXCEPT !.ahead = Tail(stack[n].ahead)]]
    BY DEF Rest, TopOf
  <2> QED
    BY <2>1, <1>1, <1>7
<1>9. TopReplaced(Rest(p), stack, f)
  BY <1>2, <1>6, <1>8, TopIsReplaced
<1>10. Entry(p) = Head(g.ahead)
  BY <1>1 DEF Entry, TopOf
<1> QED
  BY <1>1, <1>4, <1>5, <1>9, <1>10

LEMMA ReadAheadIs ==
  ASSUME NEW p \in Process, calls \in [Process -> Seq(Frame)], Running(p),
         NEW stack, NEW n, TopOf(p, stack, n), NEW ahead \in Seq(Node \cup Dots),
         NEW new, new = [calls EXCEPT ![p][Len(calls[p])].ahead = ahead]
  PROVE  \E top : /\ new = [calls EXCEPT ![p] = top]
                  /\ TopReplaced(top, stack, [dir |-> stack[n].dir, stream |-> stack[n].stream, ahead |-> ahead])
<1>1. PICK g : g = stack[n]
  OBVIOUS
<1>2. g \in Frame /\ stack \in Seq(Frame) /\ n \in Nat \ {0} /\ n = Len(stack)
  BY <1>1 DEF TopOf
<1>5. PICK f : f = [dir |-> g.dir, stream |-> g.stream, ahead |-> ahead]
  OBVIOUS
<1>6. f \in Frame
  BY <1>2, <1>5 DEF Frame
<1>7. [g EXCEPT !.ahead = ahead] = f
  BY <1>2, <1>5, AheadReplaced
<1>8. PICK top : top = [stack EXCEPT ![n] = f]
  OBVIOUS
<1>9. TopReplaced(top, stack, f)
  BY <1>2, <1>6, <1>8, TopIsReplaced
<1>10. new = [calls EXCEPT ![p] = top]
  <2>1. new = [calls EXCEPT ![p] = [stack EXCEPT ![n] = [stack[n] EXCEPT !.ahead = ahead]]]
    BY DEF TopOf
  <2> QED
    BY <2>1, <1>1, <1>7, <1>8
<1> QED
  BY <1>1, <1>5, <1>9, <1>10

LEMMA SameInstance ==
  ASSUME UNCHANGED instance
  PROVE  program' = program /\ chunk' = chunk /\ unreadable' = unreadable /\ Good' = Good
<1>1. program' = program /\ chunk' = chunk /\ unreadable' = unreadable /\ mtime' = mtime /\ operator' = operator
  BY DEF instance
<1>2. \A n : Meets(n)' <=> Meets(n)
  BY <1>1 DEF Meets, MeetsTime
<1> QED
  BY <1>1, <1>2 DEF Good

\* The only process goes from its calls to those in top.
LEMMA WalkedStep ==
  ASSUME WalkedInv, program # "lab3/cw1", UNCHANGED instance,
         NEW top \in Seq(Frame), calls' = [calls EXCEPT ![1] = top],
         program = "lab2/cw2a" \/ top # <<>> =>
           \E passed : /\ Walking(unreadable, chunk, top, offset', passed)
                       /\ Printed(program, unreadable, Good, passed, listed'),
         program = "lab2/cw2b" /\ top = <<>> => Stopped(unreadable, Good, listed')
  PROVE  WalkedInv'
<1>1. program' = program /\ chunk' = chunk /\ unreadable' = unreadable /\ Good' = Good
  BY SameInstance
<1>2. /\ program \in {"lab2/cw2a", "lab2/cw2b"} /\ chunk \in Nat \ {0}
      /\ calls \in [Process -> Seq(Frame)] /\ \A p \in Process : p # 1 => calls[p] = <<>>
  BY DEF WalkedInv
<1>3. /\ calls' \in [Process -> Seq(Frame)] /\ calls'[1] = top
      /\ \A p \in Process : p # 1 => calls'[p] = <<>>
  BY <1>2, FirstIs
<1>4. Running(1)' <=> top # <<>>
  BY <1>3 DEF Running
<1>5. program' = "lab2/cw2a" \/ Running(1)' =>
        \E passed : /\ Walking(unreadable', chunk', calls'[1], offset', passed)
                    /\ Printed(program', unreadable', Good', passed, listed')
  BY <1>1, <1>3, <1>4
<1>6. program' = "lab2/cw2b" /\ ~Running(1)' => Stopped(unreadable', Good', listed')
  BY <1>1, <1>4
<1> QED
  BY <1>1, <1>2, <1>3, <1>5, <1>6 DEF WalkedInv

\* What the only process can rely on.
WalkedBy(stack, n, passed) ==
  /\ program \in {"lab2/cw2a", "lab2/cw2b"} /\ chunk \in Nat /\ chunk \in Nat \ {0}
  /\ calls \in [Process -> Seq(Frame)] /\ TopOf(1, stack, n)
  /\ Walking(unreadable, chunk, stack, offset, passed)
  /\ Printed(program, unreadable, Good, passed, listed)

LEMMA OneProcess ==
  ASSUME WalkedInv, program # "lab3/cw1", NEW p \in Process, Running(p)
  PROVE  p = 1 /\ \E stack, n, passed : WalkedBy(stack, n, passed)
<1>1. p = 1
  BY DEF WalkedInv, Running
<1>2. /\ program \in {"lab2/cw2a", "lab2/cw2b"} /\ chunk \in Nat \ {0}
      /\ calls \in [Process -> Seq(Frame)]
  BY DEF WalkedInv
<1>3. PICK passed : /\ Walking(unreadable, chunk, calls[1], offset, passed)
                    /\ Printed(program, unreadable, Good, passed, listed)
  BY <1>1 DEF WalkedInv
<1>4. TopOf(1, calls[1], Len(calls[1]))
  BY <1>1, <1>2, RunningHasTop
<1>5. chunk \in Nat
  BY <1>2
<1>6. WalkedBy(calls[1], Len(calls[1]), passed)
  BY <1>2, <1>3, <1>4, <1>5 DEF WalkedBy
<1> QED
  BY <1>1, <1>6

\* At the end of the walk of lab2/cw2b every entry of it has been printed.
LEMMA WalkEnds ==
  ASSUME NEW passed, NEW top, Len(top) = 0, Walking(unreadable, chunk, top, offset, passed),
         Printed("lab2/cw2b", unreadable, Good, passed, listed)
  PROVE  Stopped(unreadable, Good, listed)
<1>1. PICK l \in Nat : l = Len(WalkOf(unreadable)[Root])
  BY FirstIs, WalkLength
<1>2. passed = l
  BY <1>1, WalkingIs
<1>3. passed \in Nat /\ passed <= l /\ ~(passed < l)
  BY <1>1, <1>2
<1> QED
  BY <1>1, <1>3, PrintedStops

LEMMA ReaddirWalks ==
  ASSUME WalkedInv, program # "lab3/cw1", NEW p \in Process, Readdir(p)
  PROVE  WalkedInv'
<1>1. p = 1 /\ \E stack, n, passed : WalkedBy(stack, n, passed)
  BY OneProcess DEF Readdir
<1>2. PICK stack, n, passed : WalkedBy(stack, n, passed)
  BY <1>1
<1>3. /\ TopOf(1, stack, n) /\ Walking(unreadable, chunk, stack, offset, passed) /\ chunk \in Nat \ {0}
      /\ Printed(program, unreadable, Good, passed, listed) /\ calls \in [Process -> Seq(Frame)]
  BY <1>2 DEF WalkedBy
<1>4. /\ n \in Nat \ {0} /\ n = Len(stack) /\ stack \in Seq(Frame) /\ stack[n] \in Frame
      /\ Top(1) = stack[n]
  BY <1>3 DEF TopOf
<1>5. PICK dir, pos, base : WalkingBy(unreadable, chunk, stack, offset, dir, pos, base)
  BY <1>3 DEF Walking
<1>6. TopAt(unreadable, chunk, stack[n], n, offset[n], dir[n], pos[n], base[n])
  BY <1>4, <1>5, TopIs
<1>7. stack[n].stream = n /\ stack[n].dir \in Directory /\ offset[n] \in Nat /\ n \in Process
  BY <1>6 DEF TopAt
<1>d. PICK d \in Directory : d = stack[n].dir
  BY <1>7
<1>m. PICK m \in Nat : m = Len(Entries[d])
  BY EntriesAre
<1>o. PICK o \in Nat : o = offset[n]
  BY <1>7
<1>8. Unread(1) = m - o /\ Unread(1) > 0 /\ stack[n].ahead = <<>> /\ Running(1)
  BY <1>1, <1>4, <1>7, <1>d, <1>m, <1>o DEF Unread, Readdir
<1>9. PICK c : c = Min({chunk, Unread(1)})
  OBVIOUS
<1>10. c \in Nat /\ c <= chunk /\ c <= m - o
  <2>1. PICK a \in Nat : a = chunk
    BY <1>3
  <2>2. PICK b \in Nat : b = m - o
    BY <1>8
  <2>3. Min({a, b}) = IF a <= b THEN a ELSE b
    <3>1. Min({a, b}) = CHOOSE x \in {a, b} : \A y \in {a, b} : x <= y
      BY DEF Min
    <3> QED
      BY <3>1
  <2>4. c = Min({a, b})
    BY <2>1, <2>2, <1>8, <1>9
  <2>5. c = IF a <= b THEN a ELSE b
    BY <2>3, <2>4
  <2>6. c \in Nat /\ c <= a /\ c <= b
    BY ONLY <2>5, a \in Nat, b \in Nat
  <2> QED
    BY <2>1, <2>2, <2>6
<1>11. PICK ahead : ahead = SubSeq(Entries[d], o + 1, o + c)
  OBVIOUS
<1>12. ahead \in Seq(Node \cup Dots)
  <2>1. PICK e \in Nat : e = o + c
    BY <1>10
  <2>2. o <= e /\ e <= Len(Entries[d])
    BY <1>10, <1>m, <2>1
  <2>3. AheadAt(ahead, d, o, e)
    BY <1>11, <2>1, <2>2, AheadIs
  <2> QED
    BY <2>3 DEF AheadAt
<1>13. /\ calls' = [calls EXCEPT ![1][Len(calls[1])].ahead = ahead]
       /\ offset' = [offset EXCEPT ![n] = o + c]
       /\ UNCHANGED <<instance, forks, listed, failed>>
  BY <1>1, <1>4, <1>7, <1>d, <1>o, <1>9, <1>11 DEF Readdir
<1>14. PICK top : /\ calls' = [calls EXCEPT ![1] = top]
                  /\ TopReplaced(top, stack, [dir |-> stack[n].dir, stream |-> stack[n].stream, ahead |-> ahead])
  <2>1. 1 \in Process
    BY FirstIs
  <2> QED
    BY <2>1, <1>3, <1>8, <1>12, <1>13, ReadAheadIs
<1>15. Walking(unreadable, chunk, top, [offset EXCEPT ![n] = offset[n] + c], passed)
  <2>1. PICK f : f = [dir |-> stack[n].dir, stream |-> stack[n].stream,
                      ahead |-> SubSeq(Entries[stack[n].dir], offset[n] + 1, offset[n] + c)]
    OBVIOUS
  <2>2. TopReplaced(top, stack, f)
    BY <2>1, <1>14, <1>11, <1>d, <1>o
  <2>3. chunk \in Nat /\ c \in Nat /\ c <= chunk /\ offset[n] + c <= Len(Entries[stack[n].dir]) /\ n > 0
    <3>1. o + c <= m
      BY ONLY <1>10, m \in Nat, o \in Nat
    <3>2. n > 0 /\ chunk \in Nat
      BY <1>3, <1>4
    <3> QED
      BY <3>1, <3>2, <1>10, <1>d, <1>m, <1>o
  <2> QED
    BY <2>1, <2>2, <2>3, <1>3, <1>4, <1>8, WalkingReads
<1>16. top \in Seq(Frame) /\ top # <<>>
  <2>1. top \in Seq(Frame) /\ Len(top) = n
    BY <1>4, <1>14 DEF TopReplaced
  <2> QED
    BY <2>1, <1>4
<1>17. Walking(unreadable, chunk, top, offset', passed) /\ Printed(program, unreadable, Good, passed, listed')
  BY <1>3, <1>13, <1>15, <1>o
<1> QED
  BY <1>13, <1>14, <1>16, <1>17, WalkedStep

LEMMA ClosedirWalks ==
  ASSUME WalkedInv, program # "lab3/cw1", NEW p \in Process, Closedir(p)
  PROVE  WalkedInv'
<1>1. p = 1 /\ \E stack, n, passed : WalkedBy(stack, n, passed)
  BY OneProcess DEF Closedir
<1>2. PICK stack, n, passed : WalkedBy(stack, n, passed)
  BY <1>1
<1>3. /\ TopOf(1, stack, n) /\ Walking(unreadable, chunk, stack, offset, passed) /\ chunk \in Nat
      /\ Printed(program, unreadable, Good, passed, listed) /\ program \in {"lab2/cw2a", "lab2/cw2b"}
  BY <1>2 DEF WalkedBy
<1>4. /\ n \in Nat \ {0} /\ n = Len(stack) /\ stack \in Seq(Frame) /\ stack[n] \in Frame
      /\ Top(1) = stack[n] /\ stack = calls[1]
  BY <1>3 DEF TopOf
<1>5. PICK dir, pos, base : WalkingBy(unreadable, chunk, stack, offset, dir, pos, base)
  BY <1>3 DEF Walking
<1>6. TopAt(unreadable, chunk, stack[n], n, offset[n], dir[n], pos[n], base[n])
  BY <1>4, <1>5, TopIs
<1>7. stack[n].stream = n /\ stack[n].dir \in Directory /\ offset[n] \in Nat
  BY <1>6 DEF TopAt
<1>d. PICK d \in Directory : d = stack[n].dir
  BY <1>7
<1>m. PICK m \in Nat : m = Len(Entries[d])
  BY EntriesAre
<1>o. PICK o \in Nat : o = offset[n]
  BY <1>7
<1>8. m - o = 0 /\ stack[n].ahead = <<>>
  BY <1>1, <1>4, <1>7, <1>d, <1>m, <1>o DEF Unread, Closedir
<1>9. PICK top : top = Front(stack)
  OBVIOUS
<1>10. calls' = [calls EXCEPT ![1] = top] /\ UNCHANGED <<instance, offset, forks, listed, failed>>
  BY <1>1, <1>4, <1>9 DEF Closedir
<1>11. Walking(unreadable, chunk, top, offset, passed)
  <2>1. offset[n] = Len(Entries[stack[n].dir]) /\ n > 0
    BY <1>4, <1>8, <1>d, <1>m, <1>o
  <2> QED
    BY <2>1, <1>3, <1>4, <1>8, <1>9, WalkingLeaves
<1>12. top \in Seq(Frame)
  BY <1>11, WalkingIs
<1>13. Walking(unreadable, chunk, top, offset', passed) /\ Printed(program, unreadable, Good, passed, listed')
  BY <1>3, <1>10, <1>11
<1>14. ASSUME program = "lab2/cw2b", top = <<>>
       PROVE  Stopped(unreadable, Good, listed')
  <2>1. Len(top) = 0
    BY <1>14
  <2>2. Printed("lab2/cw2b", unreadable, Good, passed, listed)
    BY <1>3, <1>14
  <2>3. Stopped(unreadable, Good, listed)
    BY <2>1, <2>2, <1>11, WalkEnds
  <2> QED
    BY <2>3, <1>10
<1> QED
  BY <1>10, <1>12, <1>13, <1>14, WalkedStep

\* The only process has an entry to look at.
LooksAt(stack, n, passed, e, rest, f) ==
  /\ WalkedBy(stack, n, passed)
  /\ stack[n].ahead # <<>> /\ e = Head(stack[n].ahead) /\ e = Entry(1) /\ e \in Node \cup Dots
  /\ rest = Rest(1) /\ TopReplaced(rest, stack, f)
  /\ f = [dir |-> stack[n].dir, stream |-> stack[n].stream, ahead |-> Tail(stack[n].ahead)]
  /\ n \in Nat \ {0} /\ n = Len(stack) /\ stack = calls[1]

LEMMA EntryWalked ==
  ASSUME WalkedInv, program # "lab3/cw1", NEW p \in Process, Running(p), Top(p).ahead # <<>>
  PROVE  p = 1 /\ \E stack, n, passed, e, rest, f : LooksAt(stack, n, passed, e, rest, f)
<1>1. p = 1 /\ \E stack, n, passed : WalkedBy(stack, n, passed)
  BY OneProcess
<1>2. PICK stack, n, passed : WalkedBy(stack, n, passed)
  BY <1>1
<1>3. TopOf(1, stack, n) /\ calls \in [Process -> Seq(Frame)]
  BY <1>2 DEF WalkedBy
<1>4. /\ n \in Nat \ {0} /\ n = Len(stack) /\ stack = calls[1] /\ Top(1) = stack[n]
  BY <1>3 DEF TopOf
<1>5. /\ Entry(1) = Head(stack[n].ahead) /\ Entry(1) \in Node \cup Dots
      /\ TopReplaced(Rest(1), stack, [dir |-> stack[n].dir, stream |-> stack[n].stream,
                                      ahead |-> Tail(stack[n].ahead)])
  <2>1. 1 \in Process /\ calls[1] \in Seq(Frame) /\ Running(1) /\ Top(1).ahead # <<>>
    BY <1>1, <1>3
  <2> QED
    BY <2>1, <1>3, RestOfTopIs
<1>6. stack[n].ahead # <<>>
  BY <1>1, <1>4
<1>7. LooksAt(stack, n, passed, Entry(1), Rest(1),
              [dir |-> stack[n].dir, stream |-> stack[n].stream, ahead |-> Tail(stack[n].ahead)])
  BY <1>2, <1>4, <1>5, <1>6 DEF LooksAt
<1> QED
  BY <1>1, <1>7

\* It passes the entry without entering it.
LEMMA EntryPassed ==
  ASSUME NEW stack, NEW n, NEW passed, NEW e, NEW rest, NEW f, LooksAt(stack, n, passed, e, rest, f),
         e \notin Directory \ unreadable
  PROVE  /\ rest \in Seq(Frame) /\ rest # <<>>
         /\ \E next : Walking(unreadable, chunk, rest, offset, next) /\ Passes(unreadable, e, passed, next)
<1>1. /\ Walking(unreadable, chunk, stack, offset, passed) /\ chunk \in Nat
      /\ n = Len(stack) /\ n \in Nat \ {0} /\ stack[n].ahead # <<>> /\ e = Head(stack[n].ahead)
      /\ TopReplaced(rest, stack, f)
      /\ f = [dir |-> stack[n].dir, stream |-> stack[n].stream, ahead |-> Tail(stack[n].ahead)]
  BY DEF LooksAt, WalkedBy
<1>2. n > 0
  BY <1>1
<1>3. \E next : Walking(unreadable, chunk, rest, offset, next) /\ Passes(unreadable, e, passed, next)
  BY <1>1, <1>2, WalkingPasses
<1>4. rest \in Seq(Frame) /\ Len(rest) = n
  BY <1>1 DEF TopReplaced
<1>5. rest # <<>>
  BY <1>1, <1>4
<1> QED
  BY <1>3, <1>4, <1>5

\* It enters the entry, and passes its line.
LEMMA EntryEntered ==
  ASSUME NEW stack, NEW n, NEW passed, NEW e, NEW rest, NEW f, LooksAt(stack, n, passed, e, rest, f),
         e \in Directory \ unreadable, NEW top, top = Append(rest, Call(e, n + 1))
  PROVE  /\ top \in Seq(Frame) /\ top # <<>>
         /\ \E next : /\ Walking(unreadable, chunk, top, [offset EXCEPT ![n + 1] = 0], next)
                      /\ Passes(unreadable, e, passed, next)
<1>1. /\ Walking(unreadable, chunk, stack, offset, passed) /\ chunk \in Nat
      /\ n = Len(stack) /\ n \in Nat \ {0} /\ stack[n].ahead # <<>> /\ e = Head(stack[n].ahead)
      /\ TopReplaced(rest, stack, f)
      /\ f = [dir |-> stack[n].dir, stream |-> stack[n].stream, ahead |-> Tail(stack[n].ahead)]
  BY DEF LooksAt, WalkedBy
<1>2. n > 0
  BY <1>1
<1>3. /\ Walking(unreadable, chunk, top, [offset EXCEPT ![n + 1] = 0], passed + 1)
      /\ Passes(unreadable, e, passed, passed + 1)
  BY <1>1, <1>2, WalkingEnters
<1>4. rest \in Seq(Frame) /\ Len(rest) = n
  BY <1>1 DEF TopReplaced
<1>5. top \in Seq(Frame)
  BY <1>3, WalkingIs
<1>6. top # <<>>
  <2>1. Len(top) = n + 1
    BY <1>4
  <2> QED
    BY <2>1, <1>1
<1> QED
  BY <1>3, <1>5, <1>6

LEMMA SkipDotsWalks ==
  ASSUME WalkedInv, program # "lab3/cw1", NEW p \in Process, SkipDots(p)
  PROVE  WalkedInv'
<1>1. p = 1 /\ \E stack, n, passed, e, rest, f : LooksAt(stack, n, passed, e, rest, f)
  BY EntryWalked DEF SkipDots, HasEntry
<1>2. PICK stack, n, passed, e, rest, f : LooksAt(stack, n, passed, e, rest, f)
  BY <1>1
<1>3. /\ e = Entry(1) /\ rest = Rest(1) /\ Printed(program, unreadable, Good, passed, listed)
  BY <1>2 DEF LooksAt, WalkedBy
<1>4. e \in Dots /\ calls' = [calls EXCEPT ![1] = rest] /\ UNCHANGED <<instance, offset, forks, listed, failed>>
  BY <1>1, <1>3 DEF SkipDots
<1>5. e \notin Directory \ unreadable
  BY <1>4, TreeAssumption DEF Node
<1>6. /\ rest \in Seq(Frame) /\ rest # <<>>
      /\ \E next : Walking(unreadable, chunk, rest, offset, next) /\ Passes(unreadable, e, passed, next)
  BY <1>2, <1>5, EntryPassed
<1>7. PICK next : Walking(unreadable, chunk, rest, offset, next) /\ Passes(unreadable, e, passed, next)
  BY <1>6
<1>8. Printed(program, unreadable, Good, next, listed)
  BY <1>3, <1>4, <1>7, PrintedSkips
<1>9. Walking(unreadable, chunk, rest, offset', next) /\ Printed(program, unreadable, Good, next, listed')
  BY <1>4, <1>7, <1>8
<1> QED
  BY <1>4, <1>6, <1>9, WalkedStep

\* An entry that is not a dot: it is printed if it is good, and passed.
LEMMA EntryPrinted ==
  ASSUME NEW stack, NEW n, NEW passed, NEW e, NEW rest, NEW f, LooksAt(stack, n, passed, e, rest, f),
         e \notin Dots, PrintIf(e, Meets(e)), NEW next, Passes(unreadable, e, passed, next),
         program = "lab2/cw2b" => Meets(e)
  PROVE  Printed(program, unreadable, Good, next, listed')
<1>1. Printed(program, unreadable, Good, passed, listed) /\ e \in Node
  BY DEF LooksAt, WalkedBy
<1>2. e \in Good <=> Meets(e)
  BY <1>1 DEF Good
<1>3. listed' = IF e \in Good THEN [listed EXCEPT ![e] = @ + 1] ELSE listed
  BY <1>2 DEF PrintIf
<1>4. program = "lab2/cw2b" => e \in Good
  BY <1>2
<1> QED
  BY <1>1, <1>3, <1>4, PrintedNext

\* Either way of going on from there.
LEMMA EntryLeft ==
  ASSUME WalkedInv, program # "lab3/cw1", UNCHANGED instance,
         NEW stack, NEW n, NEW passed, NEW e, NEW rest, NEW f, LooksAt(stack, n, passed, e, rest, f),
         e \notin Dots, PrintIf(e, Meets(e)), program = "lab2/cw2b" => Meets(e),
         ~Opens(e), calls' = [calls EXCEPT ![1] = rest], UNCHANGED offset
  PROVE  WalkedInv'
<1>1. e \notin Directory \ unreadable
  BY DEF Opens
<1>2. /\ rest \in Seq(Frame) /\ rest # <<>>
      /\ \E next : Walking(unreadable, chunk, rest, offset, next) /\ Passes(unreadable, e, passed, next)
  BY <1>1, EntryPassed
<1>3. PICK next : Walking(unreadable, chunk, rest, offset, next) /\ Passes(unreadable, e, passed, next)
  BY <1>2
<1>4. Printed(program, unreadable, Good, next, listed')
  BY <1>3, EntryPrinted
<1>5. Walking(unreadable, chunk, rest, offset', next)
  BY <1>3
<1> QED
  BY <1>2, <1>4, <1>5, WalkedStep

LEMMA EntryListed ==
  ASSUME WalkedInv, program # "lab3/cw1", UNCHANGED instance,
         NEW stack, NEW n, NEW passed, NEW e, NEW rest, NEW f, LooksAt(stack, n, passed, e, rest, f),
         e \notin Dots, PrintIf(e, Meets(e)), program = "lab2/cw2b" => Meets(e),
         Opens(e), calls' = [calls EXCEPT ![1] = Listing(1, n + 1)], offset' = [offset EXCEPT ![n + 1] = 0]
  PROVE  WalkedInv'
<1>1. e \in Directory \ unreadable
  BY DEF Opens
<1>2. PICK top : top = Append(rest, Call(e, n + 1))
  OBVIOUS
<1>3. Listing(1, n + 1) = top
  BY <1>2 DEF Listing, LooksAt
<1>4. /\ top \in Seq(Frame) /\ top # <<>>
      /\ \E next : /\ Walking(unreadable, chunk, top, [offset EXCEPT ![n + 1] = 0], next)
                   /\ Passes(unreadable, e, passed, next)
  BY <1>1, <1>2, EntryEntered
<1>5. PICK next : /\ Walking(unreadable, chunk, top, [offset EXCEPT ![n + 1] = 0], next)
                  /\ Passes(unreadable, e, passed, next)
  BY <1>4
<1>6. Printed(program, unreadable, Good, next, listed')
  BY <1>5, EntryPrinted
<1>7. Walking(unreadable, chunk, top, offset', next)
  BY <1>5
<1>8. calls' = [calls EXCEPT ![1] = top]
  BY <1>3
<1> QED
  BY <1>4, <1>6, <1>7, <1>8, WalkedStep

LEMMA ListEntryWalks ==
  ASSUME WalkedInv, program # "lab3/cw1", NEW p \in Process, ListEntry(p)
  PROVE  WalkedInv'
<1>1. p = 1 /\ \E stack, n, passed, e, rest, f : LooksAt(stack, n, passed, e, rest, f)
  BY EntryWalked DEF ListEntry, HasEntry
<1>2. PICK stack, n, passed, e, rest, f : LooksAt(stack, n, passed, e, rest, f)
  BY <1>1
<1>3. e = Entry(1) /\ rest = Rest(1) /\ n = Len(calls[1])
  BY <1>2 DEF LooksAt
<1>4. /\ program = "lab2/cw2a" /\ e \notin Dots /\ PrintIf(e, Meets(e)) /\ UNCHANGED instance
      /\ IF Opens(e) THEN /\ calls' = [calls EXCEPT ![1] = Listing(1, n + 1)]
                          /\ offset' = [offset EXCEPT ![n + 1] = 0]
         ELSE calls' = [calls EXCEPT ![1] = rest] /\ UNCHANGED offset
  BY <1>1, <1>3 DEF ListEntry, HasEntry
<1>5. program = "lab2/cw2b" => Meets(e)
  BY <1>4
<1>6. CASE Opens(e)
  BY <1>2, <1>4, <1>5, <1>6, EntryListed
<1>7. CASE ~Opens(e)
  BY <1>2, <1>4, <1>5, <1>7, EntryLeft
<1> QED
  BY <1>6, <1>7

LEMMA DisplayInfoWalks ==
  ASSUME WalkedInv, program # "lab3/cw1", NEW p \in Process, DisplayInfo(p)
  PROVE  WalkedInv'
<1>1. p = 1 /\ \E stack, n, passed, e, rest, f : LooksAt(stack, n, passed, e, rest, f)
  BY EntryWalked DEF DisplayInfo, HasEntry
<1>2. PICK stack, n, passed, e, rest, f : LooksAt(stack, n, passed, e, rest, f)
  BY <1>1
<1>3. /\ e = Entry(1) /\ rest = Rest(1) /\ n = Len(calls[1]) /\ e \in Node \cup Dots
      /\ Walking(unreadable, chunk, stack, offset, passed)
      /\ Printed(program, unreadable, Good, passed, listed)
  BY <1>2 DEF LooksAt, WalkedBy
<1>4. /\ program = "lab2/cw2b" /\ e \notin Dots /\ PrintIf(e, Meets(e)) /\ UNCHANGED instance
      /\ IF Meets(e) /\ Opens(e)
         THEN /\ calls' = [calls EXCEPT ![1] = Listing(1, n + 1)]
              /\ offset' = [offset EXCEPT ![n + 1] = 0]
         ELSE calls' = [calls EXCEPT ![1] = IF Meets(e) THEN rest ELSE <<>>] /\ UNCHANGED offset
  BY <1>1, <1>3 DEF DisplayInfo, HasEntry
<1>5. CASE Meets(e) /\ Opens(e)
  BY <1>2, <1>4, <1>5, EntryListed
<1>6. CASE Meets(e) /\ ~Opens(e)
  BY <1>2, <1>4, <1>6, EntryLeft
<1>7. CASE ~Meets(e)
  <2>1. calls' = [calls EXCEPT ![1] = <<>>] /\ listed' = listed
    BY <1>4, <1>7 DEF PrintIf
  <2>2. \E next : Passes(unreadable, e, passed, next)
    <3>1. CASE e \in Directory \ unreadable
      BY <3>1, <1>2, EntryEntered
    <3>2. CASE e \notin Directory \ unreadable
      BY <3>2, <1>2, EntryPassed
    <3> QED
      BY <3>1, <3>2
  <2>3. WalkOf(unreadable)[Root][passed + 1] = e
    BY <2>2, <1>4 DEF Passes
  <2>4. e \notin Good
    BY <1>7 DEF Good
  <2>5. passed \in Nat /\ passed <= Len(WalkOf(unreadable)[Root])
    BY <1>3, WalkingIs
  <2>6. Printed("lab2/cw2b", unreadable, Good, passed, listed)
    BY <1>3, <1>4
  <2>7. Stopped(unreadable, Good, listed)
    BY <2>3, <2>4, <2>5, <2>6, PrintedStops
  <2>8. PICK top : top = <<>> /\ top \in Seq(Frame)
    <3>1. <<>> \in Seq(Frame)
      OBVIOUS
    <3> QED
      BY <3>1
  <2>9. Stopped(unreadable, Good, listed') /\ calls' = [calls EXCEPT ![1] = top]
    BY <2>1, <2>7, <2>8
  <2> QED
    BY <2>8, <2>9, <1>4, WalkedStep
<1> QED
  BY <1>5, <1>6, <1>7

LEMMA NextWalked ==
  ASSUME WalkedInv, [ListNext]_listVars
  PROVE  WalkedInv'
<1>1. CASE program = "lab3/cw1"
  <2>1. program' = program
    BY DEF ListNext, Step, Readdir, Closedir, SkipDots, ListEntry, DisplayInfo, ListLeaf,
           ForkForDirectory, ForkFails, listVars, instance
  <2> QED
    BY <2>1, <1>1 DEF WalkedInv
<1>2. CASE program # "lab3/cw1" /\ UNCHANGED listVars
  <2>1. UNCHANGED instance /\ calls' = calls /\ offset' = offset /\ listed' = listed
    BY <1>2 DEF listVars
  <2>2. program' = program /\ chunk' = chunk /\ unreadable' = unreadable /\ Good' = Good
    BY <2>1, SameInstance
  <2>3. Running(1)' <=> Running(1)
    BY <2>1 DEF Running
  <2> QED
    BY <2>1, <2>2, <2>3 DEF WalkedInv
<1>3. CASE program # "lab3/cw1" /\ ListNext
  <2>1. PICK p \in Process : Step(p)
    BY <1>3 DEF ListNext
  <2>2. ~ListLeaf(p) /\ ~ForkForDirectory(p) /\ ~ForkFails(p)
    BY <1>3 DEF ListLeaf, ForkForDirectory, ForkFails, HasEntry
  <2> QED
    BY <2>1, <2>2, <1>3, ReaddirWalks, ClosedirWalks, SkipDotsWalks, ListEntryWalks, DisplayInfoWalks DEF Step
<1> QED
  BY <1>1, <1>2, <1>3

\* While lab2/cw2a or lab2/cw2b runs, its calls lie on a path of the tree, and
\* what was printed is what the walk has passed.
LEMMA WalkedHolds == ListSpec => []WalkedInv
<1>1. ListInit => WalkedInv
  BY InitWalked
<1>2. WalkedInv /\ [ListNext]_listVars => WalkedInv'
  BY NextWalked
<1> QED
  BY <1>1, <1>2, PTL DEF ListSpec

-------------------------------------------------------------------------------
(* What WalkedInv says of the properties.                                    *)

LEMMA DoneListsEachOnce ==
  ASSUME WalkedInv
  PROVE  ListsEachOnce
<1> SUFFICES ASSUME program = "lab2/cw2a", Done
             PROVE  \A n \in Node : listed[n] = IF n \in Reached /\ Meets(n) THEN 1 ELSE 0
  BY DEF ListsEachOnce
<1>w. PICK w : w = WalkOf(unreadable)[Root]
  OBVIOUS
<1>1. PICK passed : /\ Walking(unreadable, chunk, calls[1], offset, passed)
                    /\ Printed("lab2/cw2a", unreadable, Good, passed, listed)
  BY DEF WalkedInv
<1>2. calls[1] = <<>>
  BY FirstIs DEF Done, Running
<1>3. Len(calls[1]) = 0
  BY <1>2
<1>4. passed = Len(w)
  BY <1>1, <1>3, <1>w, WalkingIs
<1>5. w \in Seq(Node)
  BY <1>w, FirstIs, WalkTypes
<1>6. Reached = {w[x] : x \in 1 .. Len(w)}
  <2>1. Walk[Root] = w
    BY <1>w, WalkIs
  <2>2. DOMAIN w = 1 .. Len(w)
    BY <1>5
  <2> QED
    BY <2>1, <2>2 DEF Reached, Range
<1>7. \A n : Seen(unreadable, passed, n) <=> n \in Reached
  BY <1>4, <1>6, <1>w DEF Seen
<1>8. \A n \in Node : listed[n] = IF n \in Good /\ Seen(unreadable, passed, n) THEN 1 ELSE 0
  BY <1>1 DEF Printed
<1>9. \A n \in Node : n \in Good <=> Meets(n)
  BY DEF Good
<1> QED
  BY <1>7, <1>8, <1>9

LEMMA DoneStopsAtFirst ==
  ASSUME WalkedInv
  PROVE  StopsAtFirst
<1>w. PICK w : w = WalkOf(unreadable)[Root]
  OBVIOUS
<1>5. w \in Seq(Node)
  BY <1>w, FirstIs, WalkTypes
<1>l. PICK l \in Nat : l = Len(w)
  BY <1>5
<1>v. PICK walk : walk = <<Root>> \o w
  OBVIOUS
<1>6. Walk[Root] = w
  BY <1>w, WalkIs
<1> SUFFICES ASSUME program = "lab2/cw2b", Done, NEW k \in DOMAIN walk
             PROVE  listed[walk[k]] = IF \A j \in 1 .. k : Meets(walk[j]) THEN 1 ELSE 0
  BY <1>6, <1>v DEF StopsAtFirst
<1>1. Stopped(unreadable, Good, listed)
  BY FirstIs DEF WalkedInv, Done
<1>2. /\ DOMAIN walk = 1 .. l + 1 /\ walk[1] = Root
      /\ \A j \in 1 .. l : walk[j + 1] = w[j]
  <2>1. PICK r : r = <<Root>> /\ r \in Seq(Node) /\ Len(r) = 1 /\ r[1] = Root
    <3>1. <<Root>> \in Seq(Node) /\ Len(<<Root>>) = 1 /\ <<Root>>[1] = Root
      BY FirstIs
    <3> QED
      BY <3>1
  <2>2. walk = r \o w
    BY <2>1, <1>v
  <2>3. /\ Len(walk) = 1 + l /\ walk \in Seq(Node)
        /\ \A j \in 1 .. 1 + l : walk[j] = IF j <= 1 THEN r[j] ELSE w[j - 1]
    BY <2>1, <2>2, <1>5, <1>l, ConcatProperties
  <2>4. DOMAIN walk = 1 .. l + 1
    BY <2>3
  <2>5. 1 \in 1 .. 1 + l
    OBVIOUS
  <2>6. walk[1] = Root
    BY <2>1, <2>3, <2>5
  <2>7. ASSUME NEW j \in 1 .. l
        PROVE  walk[j + 1] = w[j]
    <3>1. PICK at \in 1 .. 1 + l : at = j + 1 /\ ~(at <= 1) /\ at - 1 = j
      OBVIOUS
    <3> QED
      BY <3>1, <2>3
  <2> QED
    BY <2>4, <2>6, <2>7
<1>3. \A n \in Node : n \in Good <=> Meets(n)
  BY DEF Good
<1>4. \A j \in 1 .. l : w[j] \in Node
  BY <1>5, <1>l
<1>7. listed[Root] = IF Root \in Good THEN 1 ELSE 0
  BY <1>1 DEF Stopped
<1>8. \A x \in 1 .. l : listed[w[x]] = IF Root \in Good /\ \A j \in 1 .. x : w[j] \in Good THEN 1 ELSE 0
  BY <1>1, <1>w, <1>l DEF Stopped
<1>9. CASE k = 1
  <2>1. (\A j \in 1 .. 1 : Meets(walk[j])) <=> Root \in Good
    BY <1>2, <1>3, FirstIs
  <2> QED
    BY <2>1, <1>2, <1>7, <1>9
<1>10. CASE k # 1
  <2>1. PICK x \in 1 .. l : k = x + 1
    <3>1. k \in 1 .. l + 1
      BY <1>2
    <3>2. k - 1 \in 1 .. l /\ k = (k - 1) + 1
      BY <3>1, <1>10
    <3> QED
      BY <3>2
  <2>2. walk[k] = w[x]
    BY <2>1, <1>2
  <2>3. ASSUME Root \in Good, \A j \in 1 .. x : w[j] \in Good, NEW j \in 1 .. k
        PROVE  Meets(walk[j])
    <3>1. CASE j = 1
      BY <3>1, <2>3, <1>2, <1>3, FirstIs
    <3>2. CASE j # 1
      <4>1. PICK at \in 1 .. x : j = at + 1
        <5>1. j - 1 \in 1 .. x /\ j = (j - 1) + 1
          BY <3>2, <2>1
        <5> QED
          BY <5>1
      <4>2. at \in 1 .. l
        BY <2>1
      <4>3. walk[j] = w[at] /\ w[at] \in Node /\ w[at] \in Good
        BY <4>1, <4>2, <2>3, <1>2, <1>4
      <4> QED
        BY <4>3, <1>3
    <3> QED
      BY <3>1, <3>2
  <2>4. ASSUME \A j \in 1 .. k : Meets(walk[j])
        PROVE  Root \in Good /\ \A j \in 1 .. x : w[j] \in Good
    <3>1. 1 \in 1 .. k
      BY <2>1
    <3>2. Root \in Good
      BY <3>1, <2>4, <1>2, <1>3, FirstIs
    <3>3. ASSUME NEW j \in 1 .. x
          PROVE  w[j] \in Good
      <4>1. PICK at \in 1 .. k : at = j + 1
        BY <2>1
      <4>2. j \in 1 .. l
        BY <2>1
      <4>3. walk[at] = w[j] /\ w[j] \in Node
        BY <4>1, <4>2, <1>2, <1>4
      <4> QED
        BY <4>1, <4>3, <2>4, <1>3
    <3> QED
      BY <3>2, <3>3
  <2>5. (\A j \in 1 .. k : Meets(walk[j])) <=> (Root \in Good /\ \A j \in 1 .. x : w[j] \in Good)
    BY <2>3, <2>4
  <2> QED
    BY <2>1, <2>2, <2>5, <1>8
<1> QED
  BY <1>9, <1>10

\* lab2/cw2a prints every entry below the root that it can reach and that meets
\* the condition once, and nothing else: its loops pass the entries in the order
\* of the walk, and no entry is in a walk twice.
THEOREM ListsEachOnceHolds == ListSpec => []ListsEachOnce
<1>1. WalkedInv => ListsEachOnce
  BY DoneListsEachOnce
<1> QED
  BY <1>1, WalkedHolds, PTL

\* lab2/cw2b prints the entries of the walk from the root on, and nothing from
\* the first on that is a link or does not meet the condition.
THEOREM StopsAtFirstHolds == ListSpec => []StopsAtFirst
<1>1. WalkedInv => StopsAtFirst
  BY DoneStopsAtFirst
<1> QED
  BY <1>1, WalkedHolds, PTL

-------------------------------------------------------------------------------
(* Types, of all three programs.                                             *)

\* Offsets need no relation to what else is open: readdir reads no further than
\* the directory it was called for goes.
Short(ch) == {f \in Frame : Len(f.ahead) <= ch}
Longest == Max({Len(Entries[d]) : d \in Directory})
ListTypeInv ==
  /\ chunk \in Nat \ {0} /\ calls \in [Process -> Seq(Short(chunk))]
  /\ offset \in [Process -> 0 .. Longest]
  /\ forks \in Process /\ listed \in [Node -> Nat] /\ failed \in BOOLEAN

\* There are finitely many directories, so one of them is longest.
LEMMA LongestIs ==
  Longest \in Nat /\ \A d \in Directory : Len(Entries[d]) <= Longest
<1>1. Directory \subseteq Node
  BY DEF Node
<1>2. IsFiniteSet(Directory)
  BY <1>1, FS_Subset, DirectoryListAssumption
<1>3. PICK n \in Nat : ExistsSurjection(1 .. n, Directory)
  BY <1>2, FS_NatSurjection
<1>4. PICK f : f \in [1 .. n -> Directory] /\ \A d \in Directory : \E j \in 1 .. n : f[j] = d
  BY <1>3 DEF ExistsSurjection, Surjection
<1>5. PICK length : length \in [1 .. n -> Nat] /\ \A j \in 1 .. n : length[j] = Len(Entries[f[j]])
  <2>1. \A j \in 1 .. n : Len(Entries[f[j]]) \in Nat
    BY <1>4, EntriesAre
  <2>2. PICK g : g = [j \in 1 .. n |-> Len(Entries[f[j]])]
    OBVIOUS
  <2>3. g \in [1 .. n -> Nat] /\ \A j \in 1 .. n : g[j] = Len(Entries[f[j]])
    BY <2>1, <2>2
  <2> QED
    BY <2>3
<1> DEFINE T == {k \in Nat : k = 0 \/ \E j \in 1 .. k : \A x \in 1 .. k : length[x] <= length[j]}
<1>6. 0 \in T
  OBVIOUS
<1>7. ASSUME NEW k \in Nat, k < n, k \in T
      PROVE  k + 1 \in T
  <2>1. PICK q \in 1 .. n : q = k + 1
    BY <1>7
  <2>2. PICK a \in Nat : a = length[q]
    BY <1>5, <2>1
  <2>3. CASE k = 0
    <3>1. \A x \in 1 .. q : x = q
      BY <2>1, <2>3
    <3>2. \A x \in 1 .. q : length[x] <= length[q]
      BY <3>1, <2>2
    <3>3. q \in 1 .. q
      BY <2>1
    <3> QED
      BY <3>2, <3>3, <2>1
  <2>4. CASE k # 0
    <3>1. PICK j \in 1 .. k : \A x \in 1 .. k : length[x] <= length[j]
      BY <1>7, <2>4
    <3>2. PICK b \in Nat : b = length[j]
      BY <1>5, <1>7, <3>1
    <3>3. \A x \in 1 .. q : x = q \/ x \in 1 .. k
      BY <2>1
    <3>4. \A x \in 1 .. k : length[x] \in Nat /\ length[x] <= b
      BY <1>5, <1>7, <3>1, <3>2
    <3>5. CASE a <= b
      <4>1. \A x \in 1 .. q : length[x] <= length[j]
        BY <3>2, <3>3, <3>4, <3>5, <2>2
      <4>2. j \in 1 .. q
        BY <2>1, <3>1
      <4> QED
        BY <4>1, <4>2, <2>1
    <3>6. CASE ~(a <= b)
      <4>1. b <= a
        BY <3>2, <3>6, <2>2
      <4>2. \A x \in 1 .. k : length[x] <= a
        BY ONLY <3>4, <4>1, a \in Nat, b \in Nat
      <4>3. \A x \in 1 .. q : length[x] <= length[q]
        BY <3>3, <4>2, <2>2
      <4>4. q \in 1 .. q
        BY <2>1
      <4> QED
        BY <4>3, <4>4, <2>1
    <3> QED
      BY <3>5, <3>6
  <2> QED
    BY <2>3, <2>4
<1> HIDE DEF T
<1>8. n \in T
  <2>1. \A k \in 0 .. n : k \in T
    BY <1>6, <1>7, NumbersTo
  <2> QED
    BY <2>1
<1>9. n # 0
  BY <1>4, FirstIs
<1>10. PICK j \in 1 .. n : \A x \in 1 .. n : length[x] <= length[j]
  BY <1>8, <1>9 DEF T
<1>11. \A d \in Directory : Len(Entries[d]) <= length[j]
  BY <1>4, <1>5, <1>10
<1>12. PICK S : S = {Len(Entries[d]) : d \in Directory}
  OBVIOUS
<1>13. S \subseteq Nat
  BY <1>12, EntriesAre
<1>14. length[j] \in S
  <2>1. length[j] = Len(Entries[f[j]]) /\ f[j] \in Directory
    BY <1>4, <1>5, <1>10
  <2> QED
    BY <2>1, <1>12
<1>15. PICK a \in S : a = length[j]
  BY <1>14
<1>16. \A y \in S : a >= y
  <2>1. \A d \in Directory : Len(Entries[d]) \in Nat /\ Len(Entries[d]) <= a
    BY <1>11, <1>15, EntriesAre
  <2>2. a \in Nat
    BY <1>13
  <2> QED
    BY <2>1, <2>2, <1>12
<1>17. PICK m : m = Longest /\ m \in S /\ \A y \in S : m >= y
  <2>1. Longest = CHOOSE x \in S : \A y \in S : x >= y
    BY <1>12 DEF Longest, Max
  <2> QED
    BY <2>1, <1>16
<1>18. m \in Nat
  BY <1>13, <1>17
<1>19. \A d \in Directory : Len(Entries[d]) \in Nat /\ m >= Len(Entries[d])
  BY <1>12, <1>17, EntriesAre
<1>20. \A d \in Directory : Len(Entries[d]) <= m
  BY <1>18, <1>19
<1> QED
  BY <1>17, <1>18, <1>20

LEMMA RetypedSeq ==
  ASSUME NEW A, NEW B, NEW s \in Seq(A), \A k \in 1 .. Len(s) : s[k] \in B
  PROVE  s \in Seq(B)
<1>1. PICK n \in Nat : n = Len(s)
  OBVIOUS
<1>2. s \in [1 .. n -> B]
  BY <1>1
<1> QED
  BY <1>2

\* A call of which the innermost frame is replaced by another short one.
LEMMA ShortTop ==
  ASSUME NEW ch, NEW stack \in Seq(Short(ch)), NEW top, NEW f \in Short(ch), TopReplaced(top, stack, f)
  PROVE  top \in Seq(Short(ch))
<1>1. PICK n \in Nat : n = Len(stack)
  OBVIOUS
<1>2. /\ top \in Seq(Frame) /\ Len(top) = n
      /\ \A k \in 1 .. n : top[k] = IF k = n THEN f ELSE stack[k]
  BY <1>1 DEF TopReplaced
<1>3. \A k \in 1 .. n : stack[k] \in Short(ch)
  BY <1>1
<1>4. \A k \in 1 .. Len(top) : top[k] \in Short(ch)
  BY <1>2, <1>3
<1> QED
  BY <1>2, <1>4, RetypedSeq

\* The calls of a running process.
LEMMA ShortIsFrame ==
  ASSUME ListTypeInv
  PROVE  calls \in [Process -> Seq(Frame)]
<1>1. \A s \in Seq(Short(chunk)) : s \in Seq(Frame)
  BY DEF Short
<1> QED
  BY <1>1 DEF ListTypeInv

LEMMA ShortEntry ==
  ASSUME ListTypeInv, NEW p \in Process, Running(p), Top(p).ahead # <<>>
  PROVE  Entry(p) \in Node \cup Dots /\ Rest(p) \in Seq(Short(chunk))
<1>1. PICK stack : stack = calls[p] /\ stack \in Seq(Short(chunk)) /\ stack \in Seq(Frame)
  BY ShortIsFrame DEF ListTypeInv
<1>2. PICK n \in Nat : n = Len(stack)
  BY <1>1
<1>3. TopOf(p, stack, n)
  BY <1>1, <1>2, RunningHasTop
<1>4. PICK f : f = [dir |-> stack[n].dir, stream |-> stack[n].stream, ahead |-> Tail(stack[n].ahead)]
  OBVIOUS
<1>5. Entry(p) \in Node \cup Dots /\ TopReplaced(Rest(p), stack, f)
  BY <1>1, <1>3, <1>4, RestOfTopIs
<1>6. PICK g : g = stack[n] /\ g \in Short(chunk)
  <2>1. n \in 1 .. Len(stack)
    BY <1>2, <1>3 DEF TopOf
  <2>2. stack[n] \in Short(chunk)
    BY <2>1, <1>1
  <2> QED
    BY <2>2
<1>7. g \in Frame /\ g.ahead \in Seq(Node \cup Dots) /\ Len(g.ahead) <= chunk
  BY <1>6 DEF Short, Frame
<1>8. g.ahead # <<>>
  BY <1>3, <1>6 DEF TopOf
<1>9. PICK rest : rest = Tail(g.ahead) /\ rest \in Seq(Node \cup Dots) /\ Len(rest) <= chunk
  <2>1. /\ Tail(g.ahead) \in Seq(Node \cup Dots) /\ Len(Tail(g.ahead)) = Len(g.ahead) - 1
        /\ Len(g.ahead) \in Nat
    BY <1>7, <1>8, HeadTailProperties
  <2>2. chunk \in Nat
    BY DEF ListTypeInv
  <2>3. Len(Tail(g.ahead)) <= chunk
    BY <2>1, <2>2, <1>7
  <2> QED
    BY <2>1, <2>3
<1>10. f = [dir |-> g.dir, stream |-> g.stream, ahead |-> rest]
  BY <1>4, <1>6, <1>9
<1>11. f \in Frame /\ f.ahead = rest
  BY <1>7, <1>9, <1>10 DEF Frame
<1>12. f \in Short(chunk)
  BY <1>9, <1>11 DEF Short
<1> QED
  BY <1>1, <1>5, <1>12, ShortTop

LEMMA InitListType ==
  ASSUME ListInit
  PROVE  ListTypeInv
<1>1. chunk \in Nat \ {0} /\ chunk \in Nat
  BY InstanceIs
<1>2. <<Call(Root, 1)>> \in Seq(Short(chunk)) /\ <<>> \in Seq(Short(chunk))
  <2>1. PICK c : c = Call(Root, 1) /\ c.ahead = <<>> /\ c \in Frame
    <3>1. <<>> \in Seq(Node \cup Dots)
      OBVIOUS
    <3>2. Call(Root, 1) \in Frame /\ Call(Root, 1).ahead = <<>>
      BY <3>1, FirstIs DEF Call, Frame
    <3> QED
      BY <3>2
  <2>2. c \in Short(chunk)
    BY <1>1, <2>1 DEF Short
  <2> QED
    BY <2>1, <2>2
<1>3. calls \in [Process -> Seq(Short(chunk))]
  <2>1. PICK stack \in Seq(Short(chunk)) : stack = <<Call(Root, 1)>>
    BY <1>2
  <2>2. calls = [p \in Process |-> IF p = 1 /\ (program = "lab2/cw2b" => Meets(Root)) THEN stack ELSE <<>>]
    BY <2>1 DEF ListInit
  <2> QED
    BY <1>2, <2>2
<1>4. offset \in [Process -> 0 .. Longest]
  <2>1. 0 \in 0 .. Longest
    BY LongestIs
  <2> QED
    BY <2>1 DEF ListInit
<1>5. forks \in Process /\ listed \in [Node -> Nat] /\ failed \in BOOLEAN
  BY FirstIs DEF ListInit
<1> QED
  BY <1>1, <1>3, <1>4, <1>5 DEF ListTypeInv

LEMMA ReaddirTypes ==
  ASSUME ListTypeInv, NEW p \in Process, Readdir(p)
  PROVE  calls' \in [Process -> Seq(Short(chunk))] /\ offset' \in [Process -> 0 .. Longest]
<1>1. PICK stack : stack = calls[p] /\ stack \in Seq(Short(chunk)) /\ stack \in Seq(Frame)
  BY ShortIsFrame DEF ListTypeInv
<1>2. PICK n \in Nat : n = Len(stack)
  BY <1>1
<1>3. TopOf(p, stack, n)
  BY <1>1, <1>2, RunningHasTop DEF Readdir
<1>4. PICK g \in Frame : g = stack[n] /\ g = Top(p)
  BY <1>3 DEF TopOf
<1>5. PICK d \in Directory, s \in Process : d = g.dir /\ s = g.stream
  BY <1>4 DEF Frame
<1>m. PICK m \in Nat : m = Len(Entries[d]) /\ m <= Longest
  BY EntriesAre, LongestIs
<1>o. PICK o \in Nat : o = offset[s]
  <2>1. offset[s] \in 0 .. Longest
    BY DEF ListTypeInv
  <2> QED
    BY <2>1, LongestIs
<1>6. Unread(p) = m - o /\ Unread(p) > 0
  BY <1>4, <1>5, <1>m, <1>o DEF Readdir, Unread
<1>9. PICK c : c = Min({chunk, Unread(p)})
  OBVIOUS
<1>10. c \in Nat /\ c <= chunk /\ c <= m - o
  <2>1. PICK a \in Nat : a = chunk
    BY DEF ListTypeInv
  <2>2. PICK b \in Nat : b = m - o
    BY <1>6
  <2>3. Min({a, b}) = IF a <= b THEN a ELSE b
    <3>1. Min({a, b}) = CHOOSE x \in {a, b} : \A y \in {a, b} : x <= y
      BY DEF Min
    <3> QED
      BY <3>1
  <2>4. c = Min({a, b})
    BY <2>1, <2>2, <1>6, <1>9
  <2>5. c = IF a <= b THEN a ELSE b
    BY <2>3, <2>4
  <2>6. c \in Nat /\ c <= a /\ c <= b
    BY ONLY <2>5, a \in Nat, b \in Nat
  <2> QED
    BY <2>1, <2>2, <2>6
<1>11. PICK ahead : ahead = SubSeq(Entries[d], o + 1, o + c)
  OBVIOUS
<1>12. ahead \in Seq(Node \cup Dots) /\ Len(ahead) <= chunk
  <2>1. PICK e \in Nat : e = o + c
    BY <1>10
  <2>2. o <= e /\ e <= Len(Entries[d])
    BY <1>10, <1>m, <2>1
  <2>3. AheadAt(ahead, d, o, e)
    BY <1>11, <2>1, <2>2, AheadIs
  <2>4. ahead \in Seq(Node \cup Dots) /\ Len(ahead) = e - o
    BY <2>3 DEF AheadAt
  <2> QED
    BY <2>1, <2>4, <1>10
<1>13. /\ calls' = [calls EXCEPT ![p][Len(calls[p])].ahead = ahead]
       /\ offset' = [offset EXCEPT ![s] = o + c]
  BY <1>4, <1>5, <1>o, <1>9, <1>11 DEF Readdir
<1>14. PICK f : f = [dir |-> stack[n].dir, stream |-> stack[n].stream, ahead |-> ahead]
  OBVIOUS
<1>15. PICK top : calls' = [calls EXCEPT ![p] = top] /\ TopReplaced(top, stack, f)
  <2>1. calls \in [Process -> Seq(Frame)] /\ Running(p)
    BY ShortIsFrame DEF Readdir
  <2>2. \E top : calls' = [calls EXCEPT ![p] = top] /\ TopReplaced(top, stack, f)
    BY <2>1, <1>3, <1>12, <1>13, <1>14, ReadAheadIs
  <2> QED
    BY <2>2
<1>16. f \in Short(chunk)
  <2>1. f = [dir |-> d, stream |-> s, ahead |-> ahead]
    BY <1>4, <1>5, <1>14
  <2>2. f \in Frame /\ f.ahead = ahead
    BY <2>1, <1>12 DEF Frame
  <2> QED
    BY <2>2, <1>12 DEF Short
<1>17. top \in Seq(Short(chunk))
  BY <1>1, <1>15, <1>16, ShortTop
<1>18. calls' \in [Process -> Seq(Short(chunk))]
  BY <1>15, <1>17 DEF ListTypeInv
<1>19. o + c \in 0 .. Longest
  <2>1. PICK l \in Nat : l = Longest
    BY LongestIs
  <2>2. o + c \in 0 .. l
    BY <2>1, <1>m, <1>10
  <2> QED
    BY <2>1, <2>2
<1>20. offset' \in [Process -> 0 .. Longest]
  BY <1>13, <1>19 DEF ListTypeInv
<1> QED
  BY <1>18, <1>20

LEMMA ClosedirTypes ==
  ASSUME ListTypeInv, NEW p \in Process, Closedir(p)
  PROVE  calls' \in [Process -> Seq(Short(chunk))]
<1>1. PICK stack : stack = calls[p] /\ stack \in Seq(Short(chunk)) /\ stack # <<>>
  BY DEF ListTypeInv, Closedir, Running
<1>2. Front(stack) \in Seq(Short(chunk))
  <2>1. PICK n \in Nat : n = Len(stack)
    BY <1>1
  <2>2. n # 0
    BY <1>1, <2>1
  <2>3. Front(stack) = SubSeq(stack, 1, n - 1)
    BY <2>1 DEF Front
  <2>4. \A k \in 1 .. n - 1 : stack[k] \in Short(chunk)
    BY <1>1, <2>1
  <2>5. 1 \in Int /\ n - 1 \in Int
    BY <2>1
  <2> QED
    BY <2>3, <2>4, <2>5, SubSeqProperties
<1>3. PICK top \in Seq(Short(chunk)) : top = Front(stack)
  BY <1>2
<1>4. calls' = [calls EXCEPT ![p] = top]
  BY <1>1, <1>3 DEF Closedir
<1> QED
  BY <1>4 DEF ListTypeInv

\* A new call of list in a process, after those it had.
LEMMA ShortListing ==
  ASSUME ListTypeInv, NEW p \in Process, Running(p), Top(p).ahead # <<>>,
         Opens(Entry(p)), NEW c \in Process
  PROVE  Call(Entry(p), c) \in Short(chunk) /\ Listing(p, c) \in Seq(Short(chunk))
<1>1. Rest(p) \in Seq(Short(chunk))
  BY ShortEntry
<1>2. PICK e \in Directory : e = Entry(p)
  BY DEF Opens
<1>3. Call(e, c) \in Frame /\ Call(e, c).ahead = <<>>
  <2>1. <<>> \in Seq(Node \cup Dots)
    OBVIOUS
  <2> QED
    BY <2>1 DEF Call, Frame
<1>4. Call(e, c) \in Short(chunk)
  <2>1. chunk \in Nat /\ Len(Call(e, c).ahead) = 0
    BY <1>3 DEF ListTypeInv
  <2> QED
    BY <2>1, <1>3 DEF Short
<1>5. PICK rest, new : rest = Rest(p) /\ new = Call(e, c) /\ new \in Short(chunk) /\ rest \in Seq(Short(chunk))
  BY <1>1, <1>4
<1>6. Append(rest, new) \in Seq(Short(chunk))
  BY <1>5
<1> QED
  BY <1>2, <1>4, <1>5, <1>6 DEF Listing

LEMMA PrintTypes ==
  ASSUME listed \in [Node -> Nat], NEW n \in Node, PrintIf(n, Meets(n))
  PROVE  listed' \in [Node -> Nat]
<1>1. listed' = [listed EXCEPT ![n] = @ + 1] \/ listed' = listed
  BY DEF PrintIf
<1>2. listed[n] + 1 \in Nat
  OBVIOUS
<1> QED
  BY <1>1, <1>2

\* The next stream of the only process is one of those there are, for the
\* directories are not nested deeper.
LEMMA NextStream ==
  ASSUME WalkedInv, program # "lab3/cw1", NEW p \in Process, Running(p), Top(p).ahead # <<>>,
         Opens(Entry(p))
  PROVE  Len(calls[p]) + 1 \in Process
<1>1. p = 1 /\ \E stack, n, passed, e, rest, f : LooksAt(stack, n, passed, e, rest, f)
  BY EntryWalked
<1>2. PICK stack, n, passed, e, rest, f : LooksAt(stack, n, passed, e, rest, f)
  BY <1>1
<1>3. e = Entry(1) /\ n \in Nat /\ n = Len(calls[1])
  BY <1>2 DEF LooksAt
<1>4. e \in Directory \ unreadable
  BY <1>1, <1>3 DEF Opens
<1>5. PICK call : call = Call(e, n + 1)
  OBVIOUS
<1>6. PICK top : top = Append(rest, call)
  OBVIOUS
<1>7. top \in Seq(Frame)
  BY <1>2, <1>4, <1>5, <1>6, EntryEntered
<1>8. rest \in Seq(Frame)
  BY <1>2 DEF LooksAt, TopReplaced
<1>9. PICK l \in Nat : l = Len(rest)
  BY <1>8
<1>10. PICK A : A = Frame \cup {call}
  OBVIOUS
<1>11. l + 1 \in 1 .. Len(top) /\ top[l + 1] = call
  <2>1. \A k \in 1 .. Len(rest) : rest[k] \in A
    BY <1>8, <1>10
  <2>2. rest \in Seq(A) /\ call \in A
    BY <2>1, <1>8, <1>10, RetypedSeq
  <2>3. Len(top) = Len(rest) + 1 /\ top[Len(rest) + 1] = call
    BY <2>2, <1>6, AppendProperties
  <2> QED
    BY <2>3, <1>9
<1>12. call \in Frame
  BY <1>7, <1>11
<1>13. call.stream \in Process
  BY <1>12 DEF Frame
<1> QED
  BY <1>1, <1>3, <1>5, <1>13 DEF Call

\* What lab2/cw2a and lab2/cw2b do with an entry.
LEMMA ListTypes ==
  ASSUME ListTypeInv, WalkedInv, program # "lab3/cw1", NEW p \in Process, Running(p), Top(p).ahead # <<>>,
         NEW s, s = Len(calls[p]) + 1, NEW enters \in BOOLEAN, enters => Opens(Entry(p)), NEW goes \in BOOLEAN,
         IF enters THEN calls' = [calls EXCEPT ![p] = Listing(p, s)] /\ offset' = [offset EXCEPT ![s] = 0]
         ELSE calls' = [calls EXCEPT ![p] = IF goes THEN Rest(p) ELSE <<>>] /\ UNCHANGED offset
  PROVE  calls' \in [Process -> Seq(Short(chunk))] /\ offset' \in [Process -> 0 .. Longest]
<1>1. calls \in [Process -> Seq(Short(chunk))] /\ offset \in [Process -> 0 .. Longest]
  BY DEF ListTypeInv
<1>2. CASE enters
  <2>1. s \in Process
    BY <1>2, NextStream
  <2>2. PICK top \in Seq(Short(chunk)) : top = Listing(p, s)
    BY <2>1, <1>2, ShortListing
  <2>3. 0 \in 0 .. Longest
    BY LongestIs
  <2>4. calls' = [calls EXCEPT ![p] = top] /\ offset' = [offset EXCEPT ![s] = 0]
    BY <1>2, <2>2
  <2> QED
    BY <2>1, <2>3, <2>4, <1>1
<1>3. CASE ~enters
  <2>1. <<>> \in Seq(Short(chunk)) /\ Rest(p) \in Seq(Short(chunk))
    BY ShortEntry
  <2>2. PICK top : top = (IF goes THEN Rest(p) ELSE <<>>) /\ top \in Seq(Short(chunk))
    BY <2>1
  <2>3. calls' = [calls EXCEPT ![p] = top] /\ offset' = offset
    BY <1>3, <2>2
  <2> QED
    BY <2>2, <2>3, <1>1
<1> QED
  BY <1>2, <1>3

\* What lab3/cw1 does with a directory when fork succeeds.
LEMMA ForkTypes ==
  ASSUME ListTypeInv, NEW p \in Process, ForkForDirectory(p)
  PROVE  calls' \in [Process -> Seq(Short(chunk))] /\ forks' \in Process
<1>1. PICK m \in Nat : m = MaxProcesses
  BY DirectoryListAssumption
<1>2. forks \in 1 .. m /\ forks < m /\ forks' = forks + 1
  BY <1>1 DEF ListTypeInv, ForkForDirectory, Process
<1>3. forks + 1 \in Process
  BY <1>1, <1>2 DEF Process
<1>4. Running(p) /\ Top(p).ahead # <<>>
  BY DEF ForkForDirectory, HasEntry
<1>5. PICK c \in Process : c = forks + 1
  BY <1>3
<1>6. PICK rest \in Seq(Short(chunk)) : rest = Rest(p)
  BY <1>4, ShortEntry
<1>7. PICK child \in Seq(Short(chunk)) : child = IF Opens(Entry(p)) THEN Listing(p, c) ELSE Rest(p)
  BY <1>4, <1>6, ShortListing
<1>8. calls' = [calls EXCEPT ![p] = rest, ![c] = child]
  BY <1>5, <1>6, <1>7 DEF ForkForDirectory, Forked
<1>9. calls' \in [Process -> Seq(Short(chunk))]
  BY <1>8 DEF ListTypeInv
<1> QED
  BY <1>2, <1>3, <1>9

LEMMA StepTypes ==
  ASSUME ListTypeInv, WalkedInv, NEW p \in Process, Step(p)
  PROVE  ListTypeInv'
<1>1. chunk' = chunk
  BY DEF Step, Readdir, Closedir, SkipDots, ListEntry, DisplayInfo, ListLeaf, ForkForDirectory, ForkFails, instance
<1>2. /\ calls \in [Process -> Seq(Short(chunk))] /\ offset \in [Process -> 0 .. Longest]
      /\ forks \in Process /\ listed \in [Node -> Nat] /\ failed \in BOOLEAN /\ chunk \in Nat \ {0}
  BY DEF ListTypeInv
<1> SUFFICES /\ calls' \in [Process -> Seq(Short(chunk))] /\ offset' \in [Process -> 0 .. Longest]
             /\ forks' \in Process /\ listed' \in [Node -> Nat] /\ failed' \in BOOLEAN
  <2>1. Longest' = Longest
    BY DEF Longest
  <2> QED
    BY <2>1, <1>1, <1>2 DEF ListTypeInv
<1>3. CASE Readdir(p)
  <2>1. forks' = forks /\ listed' = listed /\ failed' = failed
    BY <1>3 DEF Readdir
  <2> QED
    BY <2>1, <1>2, <1>3, ReaddirTypes
<1>4. CASE Closedir(p)
  <2>1. forks' = forks /\ listed' = listed /\ failed' = failed /\ offset' = offset
    BY <1>4 DEF Closedir
  <2> QED
    BY <2>1, <1>2, <1>4, ClosedirTypes
<1>5. CASE SkipDots(p)
  <2>1. forks' = forks /\ listed' = listed /\ failed' = failed /\ offset' = offset
    BY <1>5 DEF SkipDots
  <2>2. PICK rest \in Seq(Short(chunk)) : rest = Rest(p)
    BY <1>5, ShortEntry DEF SkipDots, HasEntry
  <2>3. calls' = [calls EXCEPT ![p] = rest]
    BY <2>2, <1>5 DEF SkipDots
  <2> QED
    BY <2>1, <2>3, <1>2
<1>6. CASE ListEntry(p)
  <2>1. /\ forks' = forks /\ failed' = failed /\ Running(p) /\ Top(p).ahead # <<>> /\ program # "lab3/cw1"
        /\ Entry(p) \notin Dots /\ PrintIf(Entry(p), Meets(Entry(p)))
    BY <1>6 DEF ListEntry, HasEntry
  <2>2. listed' \in [Node -> Nat]
    BY <2>1, <1>2, ShortEntry, PrintTypes
  <2>3. PICK s, enters, goes : s = Len(calls[p]) + 1 /\ enters = Opens(Entry(p)) /\ goes = TRUE
    OBVIOUS
  <2>4. /\ enters \in BOOLEAN /\ (enters => Opens(Entry(p))) /\ goes \in BOOLEAN
        /\ IF enters THEN calls' = [calls EXCEPT ![p] = Listing(p, s)] /\ offset' = [offset EXCEPT ![s] = 0]
           ELSE calls' = [calls EXCEPT ![p] = IF goes THEN Rest(p) ELSE <<>>] /\ UNCHANGED offset
    <3>1. CASE Opens(Entry(p))
      BY <3>1, <2>3, <1>6 DEF ListEntry
    <3>2. CASE ~Opens(Entry(p))
      <4>1. calls' = [calls EXCEPT ![p] = Rest(p)] /\ UNCHANGED offset
        BY <3>2, <1>6 DEF ListEntry
      <4>2. Opens(Entry(p)) \in BOOLEAN
        BY DEF Opens
      <4>3. ~enters /\ enters \in BOOLEAN
        BY <4>2, <3>2, <2>3
      <4>4. goes = TRUE
        BY <2>3
      <4> QED
        BY <4>1, <4>3, <4>4
    <3> QED
      BY <3>1, <3>2
  <2>5. calls' \in [Process -> Seq(Short(chunk))] /\ offset' \in [Process -> 0 .. Longest]
    BY <2>1, <2>3, <2>4, ListTypes
  <2> QED
    BY <2>1, <2>2, <2>5, <1>2
<1>7. CASE DisplayInfo(p)
  <2>1. /\ forks' = forks /\ failed' = failed /\ Running(p) /\ Top(p).ahead # <<>> /\ program # "lab3/cw1"
        /\ Entry(p) \notin Dots /\ PrintIf(Entry(p), Meets(Entry(p)))
    BY <1>7 DEF DisplayInfo, HasEntry
  <2>2. listed' \in [Node -> Nat]
    BY <2>1, <1>2, ShortEntry, PrintTypes
  <2>3. PICK s, enters, goes : /\ s = Len(calls[p]) + 1 /\ enters = (Meets(Entry(p)) /\ Opens(Entry(p)))
                               /\ goes = Meets(Entry(p))
    OBVIOUS
  <2>4. /\ enters \in BOOLEAN /\ (enters => Opens(Entry(p))) /\ goes \in BOOLEAN
        /\ IF enters THEN calls' = [calls EXCEPT ![p] = Listing(p, s)] /\ offset' = [offset EXCEPT ![s] = 0]
           ELSE calls' = [calls EXCEPT ![p] = IF goes THEN Rest(p) ELSE <<>>] /\ UNCHANGED offset
    BY <2>3, <1>7 DEF DisplayInfo, Opens, Meets
  <2>5. calls' \in [Process -> Seq(Short(chunk))] /\ offset' \in [Process -> 0 .. Longest]
    BY <2>1, <2>3, <2>4, ListTypes
  <2> QED
    BY <2>1, <2>2, <2>5, <1>2
<1>8. CASE ListLeaf(p) \/ ForkFails(p)
  <2>1. /\ forks' = forks /\ failed' \in BOOLEAN /\ offset' = offset /\ Running(p) /\ Top(p).ahead # <<>>
        /\ Entry(p) \in Node /\ PrintIf(Entry(p), Meets(Entry(p))) /\ calls' = [calls EXCEPT ![p] = Rest(p)]
    BY <1>2, <1>8 DEF ListLeaf, ForkFails, HasEntry, Node
  <2>2. listed' \in [Node -> Nat]
    BY <2>1, <1>2, PrintTypes
  <2>3. PICK rest \in Seq(Short(chunk)) : rest = Rest(p)
    BY <2>1, ShortEntry
  <2> QED
    BY <2>1, <2>2, <2>3, <1>2
<1>9. CASE ForkForDirectory(p)
  <2>1. /\ failed' = failed /\ offset' = offset
        /\ Entry(p) \in Node /\ PrintIf(Entry(p), Meets(Entry(p)))
    BY <1>9 DEF ForkForDirectory, Node
  <2>2. listed' \in [Node -> Nat]
    BY <2>1, <1>2, PrintTypes
  <2> QED
    BY <2>1, <2>2, <1>2, <1>9, ForkTypes
<1> QED
  BY <1>3, <1>4, <1>5, <1>6, <1>7, <1>8, <1>9 DEF Step

LEMMA ListTypeInvGivesTypeOK ==
  ASSUME ListTypeInv
  PROVE  ListTypeOK
<1>1. ASSUME NEW p \in Process, NEW k \in DOMAIN calls[p]
      PROVE  /\ calls[p][k].dir \in Directory /\ calls[p][k].stream \in Process
             /\ Len(calls[p][k].ahead) <= chunk
  <2>1. PICK stack \in Seq(Short(chunk)) : stack = calls[p]
    BY DEF ListTypeInv
  <2>2. PICK f \in Short(chunk) : f = calls[p][k]
    BY <2>1
  <2> QED
    BY <2>2 DEF Short, Frame
<1>2. /\ \A s \in Process : offset[s] \in 0 .. Max({Len(Entries[d]) : d \in Directory})
      /\ forks \in Process /\ listed \in [Node -> Nat] /\ failed \in BOOLEAN
  BY DEF ListTypeInv, Longest
<1> QED
  BY <1>1, <1>2 DEF ListTypeOK

\* In all three programs nobody is in the loop of something that is no
\* directory, no directory stream is used that was not opened, no more is read
\* ahead than fits, and no offset passes the end of the longest directory.
THEOREM ListTypeOKHolds == ListSpec => []ListTypeOK
<1>1. ListInit => ListTypeInv
  BY InitListType
<1>2. ListTypeInv /\ WalkedInv /\ [ListNext]_listVars => ListTypeInv'
  <2> SUFFICES ASSUME ListTypeInv, WalkedInv, [ListNext]_listVars
               PROVE  ListTypeInv'
    OBVIOUS
  <2>1. CASE UNCHANGED listVars
    <3>1. Longest' = Longest
      BY DEF Longest
    <3> QED
      BY <2>1, <3>1 DEF ListTypeInv, listVars, instance
  <2>2. CASE ListNext
    BY <2>2, StepTypes DEF ListNext
  <2> QED
    BY <2>1, <2>2
<1>3. ListTypeInv => ListTypeOK
  BY ListTypeInvGivesTypeOK
<1> QED
  BY <1>1, <1>2, <1>3, WalkedHolds, PTL DEF ListSpec
===============================================================================
