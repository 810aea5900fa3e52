------------------------------- MODULE MCRecords -------------------------------
EXTENDS Records

CONSTANTS a, b

Bytes == 0 .. 3
Call(method, sys, size, w, from, name, fs) ==
  [method |-> method, sys |-> sys, size |-> size, sizeOfBuffer |-> w,
   from |-> from, name |-> name, files |-> fs]

\* Records of a key and the number they have in the file.
Numbered(keys) == FlattenSeq([k \in DOMAIN keys |-> <<keys[k], k - 1>>])

Sorts ==
  {Call("sort", sys, size, 2, a, a, a :> Numbered(keys)) :
     sys \in BOOLEAN, size \in 0 .. 6, keys \in [1 .. 4 -> 0 .. 2]}
  \cup {Call("sort", sys, 4, w, a, a, a :> <<2, 0, 1, 0, 3>>) :
     sys \in BOOLEAN, w \in 1 .. 3}

Contents == {<<>>, <<1>>, <<1, 2, 3>>, <<3, 1, 2, 0>>, <<0, 1, 2, 3, 0>>}
Copies ==
  {Call("copy", sys, size, w, from, b, fs) :
     sys \in BOOLEAN, size \in 0 .. 4, w \in 1 .. 3, from \in {a, b},
     fs \in {a :> x @@ b :> y : x \in Contents, y \in Contents} \cup {a :> x : x \in Contents}}

Generates ==
  {Call("generate", sys, size, 2, a, a, fs) :
     sys \in BOOLEAN, size \in 0 .. 2, fs \in {a :> <<1, 2, 3, 0, 1>>, b :> <<>>}}

Jobs == Sorts \cup Copies \cup Generates
===============================================================================
