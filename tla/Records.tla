-------------------------------- MODULE Records --------------------------------
(***************************************************************************)
(* lab2/cw1: generate, copy and sort files of records of sizeOfBuffer      *)
(* bytes, by the C library ("lib") or by system calls ("sys").             *)
(*                                                                         *)
(* A file is the sequence of its bytes.  A step is one read or write with  *)
(* the seek before it, and the record buffers keep what a short read does  *)
(* not overwrite.  The library's own buffers are not modelled: each seek,  *)
(* and the end of the program, writes them out.  The arguments are numbers *)
(* and the record has at least one byte; not modelled: what is printed.    *)
(***************************************************************************)
EXTENDS Integers, SequencesExt, FiniteSetsExt

CONSTANTS
  Byte,     \* the values of a byte
  Undefined,   \* a byte of an array that was not initialised
  Name,     \* the names of files
  Job       \* the calls of the program to look at, each with the files it meets

ASSUME RecordsAssumption ==
  /\ Byte \subseteq Nat /\ 0 \in Byte /\ Undefined \notin Byte
  /\ \A j \in Job :
       /\ j.method \in {"generate", "copy", "sort"} /\ j.sys \in BOOLEAN
       /\ j.size \in Nat /\ j.sizeOfBuffer \in Nat \ {0}
       /\ j.from \in Name /\ j.name \in Name
       /\ DOMAIN j.files \subseteq Name /\ \A n \in DOMAIN j.files : j.files[n] \in Seq(Byte)

VARIABLES
  job,       \* the arguments, and the files before the call
  files,     \* the content of each file that exists
  pc,        \* control
  i,         \* the record of the outer loop
  posFirst, posSecond,   \* the records the inner loop of sort compares
  first, second,         \* the buffers; first is also "record"
  readPos    \* where copy reads next

vars == <<job, files, pc, i, posFirst, posSecond, first, second, readPos>>
sorting == <<posFirst, posSecond, second>>

width == job.sizeOfBuffer
Filled(b) == [k \in 1 .. width |-> b]

Init ==
  /\ job \in Job /\ files = job.files
  /\ pc = "open" /\ i = 0 /\ posFirst = 0 /\ posSecond = 0 /\ readPos = 0
  /\ first = Filled(Undefined) /\ second = Filled(0)

ReadAt(file, pos, buffer) ==
  SubSeq(file, pos + 1, Min({pos + width, Len(file)}))
    \o SubSeq(buffer, Max({Len(file) - pos, 0}) + 1, width)
\* A write behind the end of the file leaves zeros before it.
WriteAt(file, pos, buffer) ==
  [k \in 1 .. Max({Len(file), pos + width}) |->
     IF k \in pos + 1 .. pos + width THEN buffer[k - pos]
     ELSE IF k <= Len(file) THEN file[k] ELSE 0]

\* fopen(name, "w") empties the file; open(name, O_WRONLY | O_CREAT) keeps it.
Opened(name) ==
  [n \in DOMAIN files \cup {name} |->
     IF n \notin DOMAIN files \/ (n = name /\ ~job.sys) THEN <<>> ELSE files[n]]
File == files[job.name]
Put(pos, buffer) == files' = [files EXCEPT ![job.name] = WriteAt(File, pos, buffer)]
-------------------------------------------------------------------------------
(* generateByLib, generateBySys *)
GenerateOpen ==
  /\ pc = "open" /\ job.method = "generate"
  /\ files' = Opened(job.name) /\ pc' = "generate"
  /\ UNCHANGED <<job, i, first, readPos, sorting>>

\* randomRecord never makes the largest byte: rand() % 255.
GenerateRecord ==
  /\ pc = "generate" /\ i < job.size
  /\ \E record \in [1 .. width -> Byte \ {Max(Byte)}] : Put(i * width, record)
  /\ i' = i + 1
  /\ UNCHANGED <<job, pc, first, readPos, sorting>>

(* copyLib, copySys *)
NoSource ==
  /\ pc = "open" /\ job.method \in {"copy", "sort"}
  /\ (IF job.method = "copy" THEN job.from ELSE job.name) \notin DOMAIN files
  /\ pc' = "done"
  /\ UNCHANGED <<job, files, i, first, readPos, sorting>>

CopyOpen ==
  /\ pc = "open" /\ job.method = "copy" /\ job.from \in DOMAIN files
  /\ files' = Opened(job.name) /\ pc' = "copy"
  /\ UNCHANGED <<job, i, first, readPos, sorting>>

CopyRecord ==
  /\ pc = "copy" /\ i < job.size /\ readPos < Len(files[job.from])
  /\ first' = ReadAt(files[job.from], readPos, first)
  /\ readPos' = Min({readPos + width, Len(files[job.from])})
  /\ Put(i * width, first')
  /\ i' = i + 1
  /\ UNCHANGED <<job, pc, sorting>>

LoopEnds_ShortRead ==
  /\ \/ pc = "generate" /\ i >= job.size
     \/ pc = "copy" /\ (i >= job.size \/ readPos + width > Len(files[job.from]))
     \/ pc = "outer" /\ i >= job.size
  /\ pc' = "done"
  /\ UNCHANGED <<job, files, i, first, readPos, sorting>>
LoopEnds ==
  /\ \/ pc = "generate" /\ i >= job.size
     \/ pc = "copy" /\ (i >= job.size \/ readPos >= Len(files[job.from]))
     \/ pc = "outer" /\ i >= job.size
  /\ pc' = "done"
  /\ UNCHANGED <<job, files, i, first, readPos, sorting>>

(* sortLib, sortSys *)
SortOpen ==
  /\ pc = "open" /\ job.method = "sort" /\ job.name \in DOMAIN files
  /\ first' = Filled(0) /\ i' = 1 /\ pc' = "outer"
  /\ UNCHANGED <<job, files, readPos, sorting>>

ReadFirst ==
  /\ pc = "outer" /\ i < job.size
  /\ first' = ReadAt(File, i * width, first)
  /\ posFirst' = i /\ posSecond' = i - 1 /\ pc' = "inner"
  /\ UNCHANGED <<job, files, i, second, readPos>>

ReadSecond ==
  /\ pc = "inner" /\ posSecond >= 0
  /\ second' = ReadAt(File, posSecond * width, second)
  /\ pc' = "compare"
  /\ UNCHANGED <<job, files, i, posFirst, posSecond, first, readPos>>

Less_OrEqual == first[1] <= second[1]
\* The records are compared by their first byte alone.
Less == first[1] < second[1]
WriteFirst ==
  /\ pc = "compare" /\ Less
  /\ Put(posSecond * width, first)
  /\ pc' = "swap"
  /\ UNCHANGED <<job, i, first, readPos, sorting>>

WriteSecond_WrongBuffer ==
  /\ pc = "swap"
  /\ Put(posFirst * width, first)
  /\ posFirst' = posFirst - 1 /\ posSecond' = posSecond - 1 /\ pc' = "inner"
  /\ UNCHANGED <<job, i, first, second, readPos>>
WriteSecond ==
  /\ pc = "swap"
  /\ Put(posFirst * width, second)
  /\ posFirst' = posFirst - 1 /\ posSecond' = posSecond - 1 /\ pc' = "inner"
  /\ UNCHANGED <<job, i, first, second, readPos>>

InnerEnds ==
  /\ (pc = "inner" /\ posSecond < 0) \/ (pc = "compare" /\ ~Less)
  /\ i' = i + 1 /\ pc' = "outer"
  /\ UNCHANGED <<job, files, first, readPos, sorting>>

Next ==
  \/ GenerateOpen \/ GenerateRecord \/ NoSource \/ CopyOpen \/ CopyRecord \/ LoopEnds
  \/ SortOpen \/ ReadFirst \/ ReadSecond \/ WriteFirst \/ WriteSecond \/ InnerEnds

Spec == Init /\ [][Next]_vars
-------------------------------------------------------------------------------
\* Type correctness: i never passes the number of records, and reads neither
\* shorten the buffers nor leave the file with anything but bytes.
TypeOK ==
  /\ pc \in {"open", "generate", "copy", "outer", "inner", "compare", "swap", "done"}
  /\ i \in 0 .. Max({1, job.size}) /\ readPos \in Nat
  /\ posFirst \in 0 .. job.size /\ posSecond \in -1 .. job.size
  /\ Len(first) = width /\ Len(second) = width
  /\ \A n \in DOMAIN files : Range(files[n]) \subseteq Byte \cup {Undefined}

\* The whole records in a file, and how often r is one of them.
RecordsOf(file) == [k \in 1 .. Len(file) \div width |-> SubSeq(file, (k - 1) * width + 1, k * width)]
Count(r, file) == Cardinality({k \in DOMAIN RecordsOf(file) : RecordsOf(file)[k] = r})

Before == IF job.name \in DOMAIN job.files THEN job.files[job.name] ELSE <<>>
After  == IF job.name \in DOMAIN files THEN File ELSE <<>>
Finished(method) == pc = "done" /\ job.method = method

\* sort puts the first size records in the order of their first byte, keeps
\* those with the same first byte in their order, and leaves the rest alone,
\* if the file has that many records.
SortsStably ==
  Finished("sort") /\ job.size * width <= Len(Before) =>
    LET old == RecordsOf(Before)
        new == RecordsOf(After)
    IN  /\ \E place \in Bijection(1 .. job.size, 1 .. job.size) :
             /\ \A k \in 1 .. job.size : new[k] = old[place[k]]
             /\ \A j, k \in 1 .. job.size : j < k =>
                  new[j][1] < new[k][1] \/ (new[j][1] = new[k][1] /\ place[j] < place[k])
        /\ Len(After) = Len(Before)
        /\ \A k \in job.size * width + 1 .. Len(After) : After[k] = Before[k]

\* Wherever sort is stopped, every record is still in the file, except the
\* one it was about to write back; even if there are fewer than size records.
LosesAtMostOne ==
  job.method = "sort" /\ Len(Before) % width = 0 =>
    \A r \in Range(RecordsOf(Before)) :
      Count(r, Before) <= Count(r, After) + (IF pc = "swap" /\ r = second THEN 1 ELSE 0)

\* copy copies the first size records, filling up the last one if it is short;
\* it is filled with the end of the record before.  What was in the file after
\* them is still there if it was opened without O_TRUNC.
CopiesRecords ==
  Finished("copy") /\ job.from # job.name /\ job.from \in DOMAIN files =>
    LET source == files[job.from]
        blocks == Min({job.size, (Len(source) + width - 1) \div width})
        rest   == IF job.sys THEN SubSeq(Before, blocks * width + 1, Len(Before)) ELSE <<>>
    IN  /\ Len(After) = blocks * width + Len(rest)
        /\ \A k \in 1 .. blocks * width :
             After[k] = IF k <= Len(source) THEN source[k]
                        ELSE IF k > width THEN source[k - width] ELSE Undefined
        /\ IsSuffix(rest, After)

\* copy does not change its source, unless that is also the target and is
\* emptied ("lib") or its last record is short.
SourceSurvives ==
  job.method = "copy" /\ job.from \in DOMAIN job.files =>
    \/ files[job.from] = job.files[job.from]
    \/ job.from = job.name /\ (~job.sys \/ Len(job.files[job.from]) % width # 0)

\* No file loses a record that is not in the program's memory: neither the one
\* that is sorted, nor the source of a copy, wherever the program is stopped.
FilesInv == TypeOK /\ LosesAtMostOne /\ SourceSurvives

\* generate writes size records; a longer file keeps its old end only if it
\* was opened without O_TRUNC.
GeneratesRecords ==
  Finished("generate") =>
    LET rest == IF job.sys THEN SubSeq(Before, job.size * width + 1, Len(Before)) ELSE <<>>
    IN  Len(After) = job.size * width + Len(rest) /\ IsSuffix(rest, After)

\* copy and generate write the records they were asked for.
WritesRecords == CopiesRecords /\ GeneratesRecords

===============================================================================
