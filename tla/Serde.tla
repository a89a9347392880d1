------------------------------- MODULE Serde -------------------------------
(***************************************************************************)
(* Serialisation of Lua values (serde.go): ltask.pack() writes its         *)
(* arguments to a buffer, ltask.unpack() reads them back in another state. *)
(* A table that is met again is written as a reference: to one of the      *)
(* tables it is inside of, by depth, or to any other one by number, and    *)
(* then the tag of that table is changed to a marked one in the buffer.    *)
(*                                                                         *)
(* A program builds tables, packs and unpacks.  The two functions are      *)
(* recursive; each passes on a record with what serde.go keeps in a        *)
(* writeBlock or readBlock, and the Lua stack as a sequence, since         *)
(* ancestors are kept as stack positions.                                  *)
(***************************************************************************)
EXTENDS Integers, SequencesExt

CONSTANTS
  MaxItem, MaxArg,      \* bounds: entries and arguments, arguments alone
  Leaf,                 \* the values other than tables that tables hold
  Key,                  \* the keys outside the array part that are no tables
  Scalar,               \* the values other than tables that are arguments
  TableKey,             \* whether a table may be a key
  Radix,                \* the values of a byte, 256
  MaxCookie,            \* maxCookie, 32
  MaxDepth,             \* maxDepth, 31
  SmallBuffer           \* the first capacity of a bytes.Buffer, 64

ASSUME SerdeAssumption ==
  /\ {MaxItem, MaxArg, MaxDepth, SmallBuffer} \subseteq Nat \ {0}
  /\ Radix \in {2 * n : n \in 1 .. 128}
  /\ MaxCookie \in 2 .. 32 /\ MaxDepth <= MaxCookie - 1
  /\ TableKey \in BOOLEAN

Type == [boolean |-> 0, number |-> 1, userdata |-> 2, shortString |-> 3,
         longString |-> 4, table |-> 5, tableMark |-> 6, ref |-> 7]
Boolean == [nil |-> 0, false |-> 1, true |-> 2]
Userdata == [pointer |-> 0, cfunc |-> 1]
Number == [zero |-> 0, byte |-> 1, word |-> 2, dword |-> 4, qword |-> 6, real |-> 8]
extendNumber == MaxCookie - 1

VARIABLES
  heap,         \* the tables of the program: their array part and the rest
  args,         \* the arguments of pack()
  buf,          \* the packed bytes
  result,       \* what unpack() made of them
  stage         \* "build", "packed" or "unpacked"

vars == <<heap, args, buf, result, stage>>

Nil == [k |-> "nil"]
Bool(b) == [k |-> "bool", b |-> b]
Num(n) == [k |-> "int", n |-> n]
Str(s) == [k |-> "str", s |-> s]
Raw(k, s) == [k |-> k, s |-> s]         \* "real", "pointer" or "cfunc": eight bytes
Tab(t) == [k |-> "tab", t |-> t]
IsTable(v) == v.k = "tab"

----------------------------------------------------------------------------
(* Writing *)

combineType(t, v) == t + 8 * v

newWriteBlock == [data |-> <<>>, cap |-> SmallBuffer, moves |-> 0, depth |-> 0,
                  ancestor |-> <<>>, object |-> <<>>, address |-> <<>>]

\* A buffer that is full is moved to a larger one
Write(w, bytes) ==
  LET n == Len(w.data) + Len(bytes) IN
  [w EXCEPT !.data = @ \o bytes,
            !.cap = IF n <= @ THEN @ ELSE IF n > 2 * @ THEN n ELSE 2 * @,
            !.moves = IF n <= w.cap THEN @ ELSE @ + 1]
WriteTag(w, t, v) == Write(w, <<combineType(t, v)>>)

\* mutant of Digits: the bytes are not masked
WholeDigits(v, n) == [i \in 1 .. n |-> v \div Radix ^ (i - 1)]

\* A number in n bytes, the lowest first, and back
Digits(v, n) == [i \in 1 .. n |-> (v \div Radix ^ (i - 1)) % Radix]
Unsigned(s) ==
  FoldFunction(+, 0, [i \in DOMAIN s |-> s[i] * Radix ^ (i - 1)])
Signed(s) ==
  IF s # <<>> /\ s[Len(s)] >= Radix \div 2
  THEN Unsigned(s) - Radix ^ Len(s) ELSE Unsigned(s)

\* mutant of writeInteger: the sign bit of four bytes is not left free
writeIntegerUnsigned(w, v) ==
  LET As(cookie, n) == Write(WriteTag(w, Type.number, cookie), Digits(v, n)) IN
  IF v = 0 THEN WriteTag(w, Type.number, Number.zero)
  ELSE IF v \in -(Radix ^ 4 \div 2) .. Radix ^ 4 - 1 THEN As(Number.dword, 4)
  ELSE As(Number.qword, 8)

writeInteger(w, v) ==
  LET max == Radix ^ 4 \div 2
      As(cookie, n) == Write(WriteTag(w, Type.number, cookie), Digits(v, n))
  IN
  CASE v = 0 -> WriteTag(w, Type.number, Number.zero)
    [] v < -max \/ v >= max -> As(Number.qword, 8)
    [] v \in -max .. -1 -> As(Number.dword, 4)
    [] v \in 1 .. Radix - 1 -> As(Number.byte, 1)
    [] v \in Radix .. Radix ^ 2 - 1 -> As(Number.word, 2)
    [] v \in Radix ^ 2 .. max - 1 -> As(Number.dword, 4)

writeString(w, s) ==
  LET n == Len(s)
      As(cookie) == Write(WriteTag(w, Type.longString, cookie), Digits(n, cookie))
  IN
  Write(IF n < MaxCookie THEN WriteTag(w, Type.shortString, n)
        ELSE IF n < Radix ^ 2 THEN As(2) ELSE As(4), s)

\* markTable.  The address is that of the last byte before the tag.
MarkTable(w, t) ==
  [w EXCEPT !.object = Append(@, t),
            !.address = Append(@, [at |-> Len(w.data), moves |-> w.moves])]

\* changeMark, by way of an address taken before the buffer moved
ChangeMark(w, a) ==
  IF a.at = 0 \/ a.moves # w.moves THEN w
  ELSE [w EXCEPT !.data[a.at] = combineType(Type.tableMark, @ \div 8)]

NoAddress == [at |-> 0, moves |-> 0]
RefObject(w, id) ==
  LET marked == [ChangeMark(w, w.address[id]) EXCEPT !.address[id] = NoAddress]
  IN writeInteger(WriteTag(marked, Type.ref, extendNumber), id)

\* mutant of Ancestors: the innermost table is not looked at
AncestorsOuter(w, L, t) ==
  {i \in 0 .. w.depth - 2 :
     w.ancestor[i + 1] <= Len(L) /\ L[w.ancestor[i + 1]] = Tab(t)}

\* The ancestors that are table t now: their places on the stack may hold
\* other values by now
Ancestors(w, L, t) ==
  IF w.depth >= MaxDepth THEN {}
  ELSE {i \in 0 .. w.depth - 1 :
          /\ w.ancestor[i + 1] <= Len(L)
          /\ L[w.ancestor[i + 1]] = Tab(t)}

\* What packTable pushes to pack its items, and at which place each is
Items(L, tab) ==
  [i \in DOMAIN tab.array |-> [L |-> Append(L, tab.array[i]), i |-> Len(L) + 1]]
    \o FlattenSeq([i \in DOMAIN tab.hash |->
         [j \in 1 .. 2 |-> [L |-> L \o tab.hash[i], i |-> Len(L) + j]]])

RECURSIVE packOne(_, _, _), PackAll(_, _)

packTable(w, L, i) ==
  LET tab == heap[L[i].t]
      n == Len(tab.array)
      marked == MarkTable(w, L[i].t)
      sized == IF n >= extendNumber
               THEN writeInteger(WriteTag(marked, Type.table, extendNumber), n)
               ELSE WriteTag(marked, Type.table, n)
  IN WriteTag(PackAll(sized, Items(L, tab)), Type.boolean, Boolean.nil)

\* packOne for the value at place i of stack L
packOne(w, L, i) ==
  LET v == L[i] IN
  CASE v.k = "nil" -> WriteTag(w, Type.boolean, Boolean.nil)
    [] v.k = "bool" ->
         WriteTag(w, Type.boolean, IF v.b THEN Boolean.true ELSE Boolean.false)
    [] v.k = "int" -> writeInteger(w, v.n)
    [] v.k = "real" -> Write(WriteTag(w, Type.number, Number.real), v.s)
    [] v.k \in DOMAIN Userdata ->
         Write(WriteTag(w, Type.userdata, Userdata[v.k]), v.s)
    [] v.k = "str" -> writeString(w, v.s)
    [] v.k = "tab" ->
         IF Ancestors(w, L, v.t) # {}
         THEN WriteTag(w, Type.ref, Max(Ancestors(w, L, v.t)))
         ELSE IF Contains(w.object, v.t)
         THEN RefObject(w, SelectInSeq(w.object, LAMBDA t : t = v.t))
         ELSE [packTable([w EXCEPT !.depth = @ + 1,
                                   !.ancestor = IF w.depth < MaxDepth
                                                THEN Append(@, i) ELSE @], L, i)
               EXCEPT !.depth = w.depth]

PackAll(w, items) ==
  IF items = <<>> THEN w
  ELSE PackAll(packOne(w, Head(items).L, Head(items).i), Tail(items))

\* packFrom: the arguments, and two places for large numbers of references
packFrom(values) ==
  PackAll(newWriteBlock,
          [i \in DOMAIN values |-> [L |-> values \o <<Nil, Nil>>, i |-> i]]).data

alignUp(n, align) == ((n + align - 1) \div align) * align

\* The bytes with their number in front, in memory of a multiple of 8 bytes
LuaSerdePack(values) ==
  LET data == packFrom(values)
      bytes == Digits(Len(data), 4) \o data
  IN bytes \o [i \in 1 .. alignUp(Len(bytes), 8) - Len(bytes) |-> 0]

----------------------------------------------------------------------------
(* Reading *)

newReadBlock(data) == [data |-> data, ptr |-> 0, status |-> "ok", depth |-> 0,
                 ancestor |-> <<>>, objectID |-> 0, refs |-> <<>>,
                 heap |-> <<>>, L |-> <<Nil>>]

Fails(r, status) == [r EXCEPT !.status = status]
Push(r, v) == [r EXCEPT !.L = Append(@, v)]
Pop(r) == [r EXCEPT !.L = Front(@)]

\* read: the next n bytes, if there are as many
Has(r, n) == r.ptr + n <= Len(r.data)
Peek(r, n) == SubSeq(r.data, r.ptr + 1, r.ptr + n)
Skip(r, n) == [r EXCEPT !.ptr = @ + n]
Typ(r) == Peek(r, 1)[1] % 8
Cookie(r) == Peek(r, 1)[1] \div 8

\* getInteger: how many bytes, and what they say
Width(cookie) ==
  CASE cookie = Number.zero -> 0 [] cookie = Number.byte -> 1
    [] cookie = Number.word -> 2 [] cookie = Number.dword -> 4
    [] cookie = Number.qword -> 8 [] OTHER -> -1
IntegerAt(r, cookie) ==
  LET s == Peek(r, Width(cookie)) IN
  IF cookie \in {Number.dword, Number.qword} THEN Signed(s) ELSE Unsigned(s)
HasInteger(r, cookie) == Width(cookie) >= 0 /\ Has(r, Width(cookie))

\* getExtendInteger: a number with its tag
HasExtended(r) ==
  /\ Has(r, 1) /\ Typ(r) = Type.number /\ HasInteger(Skip(r, 1), Cookie(r))
Extended(r) == IntegerAt(Skip(r, 1), Cookie(r))
SkipExtended(r) == Skip(r, 1 + Width(Cookie(r)))

\* A value of n bytes
PushBytes(r, k, n) ==
  IF Has(r, n) THEN Skip(Push(r, Raw(k, Peek(r, n))), n) ELSE Fails(r, "error")

unpackRef(r, ref) ==
  IF ref = extendNumber
  THEN IF HasExtended(r) /\ Extended(r) \in DOMAIN r.refs
       THEN Push(SkipExtended(r), Tab(r.refs[Extended(r)]))
       ELSE Fails(r, "error")
  ELSE IF ref >= r.depth THEN Fails(r, "error")
  ELSE IF ref >= Len(r.ancestor) THEN Fails(r, "panic")
  ELSE LET i == r.ancestor[ref + 1] IN
       Push(r, IF i <= Len(r.L) THEN r.L[i] ELSE Nil)

RawSet(r, t, key, v) ==
  [r EXCEPT !.heap[t] = {p \in @ : p[1] # key}
                          \cup IF v = Nil THEN {} ELSE {<<key, v>>}]

RECURSIVE pushValue(_, _, _), ReadArray(_, _, _, _), ReadHash(_, _)

unpackOne(r) ==
  IF r.status # "ok" THEN r
  ELSE IF ~Has(r, 1) THEN Fails(r, "error")
  ELSE pushValue(Skip(r, 1), Typ(r), Cookie(r))

\* The table is made and marked, then its array part read
NewTable(r, typ) ==
  LET t == Len(r.heap) + 1
      id == r.objectID + 1
      top == Len(r.L) + 1
  IN [r EXCEPT !.heap = Append(@, {}), !.objectID = id,
               !.L = Append(@, Tab(t)),
               !.refs = IF typ = Type.tableMark THEN (id :> t) @@ @ ELSE @,
               !.ancestor = IF r.depth < MaxDepth THEN Append(@, top) ELSE @,
               !.depth = @ + 1]

LeaveArray(r) ==
  LET d == r.depth - 1 IN
  [r EXCEPT !.depth = d,
            !.ancestor = IF d < Len(@) THEN SubSeq(@, 1, d) ELSE @]

unpackTable(r, size, typ) ==
  IF size = extendNumber /\ ~HasExtended(r) THEN Fails(r, "error")
  ELSE LET n == IF size = extendNumber THEN Extended(r) ELSE size
           s == IF size = extendNumber THEN SkipExtended(r) ELSE r
           t == Len(s.heap) + 1
           read == ReadArray(NewTable(s, typ), t, 1, n)
       IN IF read.status = "ok" THEN ReadHash(LeaveArray(read), t) ELSE read

ReadArray(r, t, i, n) ==
  IF i > n THEN r
  ELSE LET s == unpackOne(r) IN
       IF s.status # "ok" THEN s
       ELSE ReadArray(Pop(RawSet(s, t, Num(i), Last(s.L))), t, i + 1, n)

\* The keys are read at the depth of the table, the values one deeper
ReadHash(r, t) ==
  LET key == unpackOne(r) IN
  IF key.status # "ok" THEN key
  ELSE IF Last(key.L) = Nil THEN Pop(key)
  ELSE LET v == unpackOne([key EXCEPT !.depth = @ + 1]) IN
       IF v.status # "ok" THEN v
       ELSE ReadHash(Pop(Pop(RawSet([v EXCEPT !.depth = @ - 1], t,
                                    Last(key.L), Last(v.L)))), t)

pushValue(r, typ, cookie) ==
  CASE typ = Type.boolean ->
         IF cookie = Boolean.nil THEN Push(r, Nil)
         ELSE IF cookie \in {Boolean.false, Boolean.true}
         THEN Push(r, Bool(cookie = Boolean.true)) ELSE Fails(r, "error")
    [] typ = Type.number ->
         IF cookie = Number.real THEN PushBytes(r, "real", 8)
         ELSE IF HasInteger(r, cookie)
         THEN Push(Skip(r, Width(cookie)), Num(IntegerAt(r, cookie)))
         ELSE Fails(r, "error")
    [] typ = Type.userdata ->
         IF cookie = Userdata.pointer THEN PushBytes(r, "pointer", 8)
         ELSE IF cookie = Userdata.cfunc THEN PushBytes(r, "cfunc", 8)
         ELSE Fails(r, "error")
    [] typ = Type.shortString -> PushBytes(r, "str", cookie)
    [] typ = Type.longString ->
         IF cookie \in {2, 4} /\ Has(r, cookie)
         THEN PushBytes(Skip(r, cookie), "str", Unsigned(Peek(r, cookie)))
         ELSE Fails(r, "error")
    [] typ \in {Type.table, Type.tableMark} -> unpackTable(r, cookie, typ)
    [] typ = Type.ref -> unpackRef(r, cookie)

RECURSIVE UnpackAll(_)
UnpackAll(r) ==
  IF r.status = "ok" /\ Has(r, 1) THEN UnpackAll(unpackOne(r)) ELSE r

\* serdeUnpack: below the values there is a place for the references
serdeUnpack(data) ==
  LET r == UnpackAll(newReadBlock(data)) IN
  [status |-> r.status, heap |-> r.heap, values |-> Tail(r.L)]

LuaSerdeUnpack(bytes) ==
  serdeUnpack(SubSeq(bytes, 5, 4 + Unsigned(SubSeq(bytes, 1, 4))))

----------------------------------------------------------------------------
(* A program that builds tables, packs and unpacks *)

Size(t) == Len(heap[t].array) + Len(heap[t].hash)
Entries == FoldFunction(+, 0, [t \in DOMAIN heap |-> Size(t)])
More == stage = "build" /\ Len(args) + Entries < MaxItem

\* The tables there are, and one to be made
Known == {Tab(t) : t \in DOMAIN heap}
Fresh == Tab(Len(heap) + 1)
Grown(v) == IF v = Fresh THEN Append(heap, [array |-> <<>>, hash |-> <<>>]) ELSE heap

Init ==
  /\ heap = <<>> /\ args = <<>> /\ buf = <<>>
  /\ result = [status |-> "none"]
  /\ stage = "build"

\* t[#t + 1] = v
Add(t, v) ==
  /\ More
  /\ heap' = [Grown(v) EXCEPT ![t].array = Append(@, v)]
  /\ UNCHANGED <<args, buf, result, stage>>

\* t[key] = v
Set(t, key, v) ==
  /\ More
  /\ \A i \in DOMAIN heap[t].hash : heap[t].hash[i][1] # key
  /\ heap' = [Grown(v) EXCEPT ![t].hash = Append(@, <<key, v>>)]
  /\ UNCHANGED <<args, buf, result, stage>>

Argument(v) ==
  /\ More /\ Len(args) < MaxArg
  /\ args' = Append(args, v)
  /\ heap' = Grown(v)
  /\ UNCHANGED <<buf, result, stage>>

Pack ==
  /\ stage = "build" /\ args # <<>>
  /\ buf' = LuaSerdePack(args)
  /\ stage' = "packed"
  /\ UNCHANGED <<heap, args, result>>

Unpack ==
  /\ stage = "packed"
  /\ result' = LuaSerdeUnpack(buf)
  /\ stage' = "unpacked"
  /\ UNCHANGED <<heap, args, buf>>

Step ==
  \/ \E t \in DOMAIN heap, v \in Leaf \cup Known \cup {Fresh} :
       \/ Add(t, v)
       \/ \E key \in Key \cup (IF TableKey THEN Known ELSE {}) : Set(t, key, v)
  \/ \E v \in Scalar \cup Known \cup {Fresh} : Argument(v)
  \/ Pack \/ Unpack

Spec == Init /\ [][Step]_vars

----------------------------------------------------------------------------

\* The tables of the program as unpack() builds them: sets of keys and values
Pairs(tab) == {<<Num(i), tab.array[i]>> : i \in DOMAIN tab.array}
                \cup {tab.hash[i] : i \in DOMAIN tab.hash}
\* ... with tables renamed by f
Renamed(f, v) == IF IsTable(v) THEN Tab(f[v.t]) ELSE v

Inside(t) == {u \in DOMAIN heap : \E p \in Pairs(heap[t]) : Tab(u) \in {p[1], p[2]}}
RECURSIVE Reach(_)
Reach(S) == LET next == S \cup UNION {Inside(t) : t \in S} IN
            IF next = S THEN S ELSE Reach(next)
Reached == Reach({v.t : v \in {x \in Range(args) : IsTable(x)}})

\* What unpack() gives is what pack() got, up to the names of the tables
Same ==
  /\ result.status = "ok" /\ Len(result.values) = Len(args)
  /\ Len(result.heap) = Cardinality(Reached)
  /\ \E f \in Injection(Reached, DOMAIN result.heap) :
       /\ \A i \in DOMAIN args : result.values[i] = Renamed(f, args[i])
       /\ \A t \in Reached :
            result.heap[f[t]] =
              {<<Renamed(f, p[1]), Renamed(f, p[2])>> : p \in Pairs(heap[t])}

\* Whatever is packed, the tags and the digits are bytes (serde.go:49-51), and
\* a program's entries and arguments are values it has.
Value == Leaf \cup Scalar \cup Known
TypeOK ==
  /\ stage \in {"build", "packed", "unpacked"}
  /\ args \in Seq(Value) /\ buf \in Seq(0 .. 255)
  /\ \A t \in DOMAIN heap :
       /\ heap[t].array \in Seq(Value)
       /\ heap[t].hash \in Seq((Key \cup Known) \X Value)
  /\ result.status \in {"none", "ok", "error", "panic"}

\* How often a table is met
Met(t) ==
  Cardinality({i \in DOMAIN args : args[i] = Tab(t)})
    + Cardinality({e \in UNION {{u} \X Pairs(heap[u]) \X {1, 2} : u \in Reached} :
                     e[2][e[3]] = Tab(t)})

\* Values and tables, nested to any depth, no table met twice
Nested == \A t \in Reached : Met(t) = 1

\* The tables are all in the array parts or all in the hash parts
OneKind ==
  \/ \A t \in Reached : \A p \in Range(heap[t].hash) : ~IsTable(p[1]) /\ ~IsTable(p[2])
  \/ \A t \in Reached : \A p \in Pairs(heap[t]) :
       ~IsTable(p[1]) /\ (IsTable(p[2]) => p[1].k # "int")

\* Values of all kinds and sizes and nested tables, all in the array parts or
\* all in the hash parts of the tables they are inside of, come out of unpack()
\* as they went into pack(): each format is read by the rules it was written by
\* (serde.go:121-195, 303-338, 537-646).
TreeRoundTrip == stage = "unpacked" /\ Nested /\ OneKind => Same

\* ... and so does any nesting (the tests unpack nested tables and find them
\* as they were: serde_test.go:137-188).
NestedRoundTrip == stage = "unpacked" /\ Nested => Same

\* Tables each inside of the one before, less than MaxDepth of them, that hold
\* the tables they are inside of: these come back as references to themselves
\* (refAncestor, unpackRef).  With a second argument, a second table inside of
\* one or a reference in the hash part they may not: see the findings.
Spine ==
  /\ args = <<Tab(1)>> /\ Cardinality(Reached) < MaxDepth
  /\ \A t \in Reached :
       /\ heap[t].hash = <<>>
       /\ \A v \in {x \in Range(heap[t].array) : IsTable(x)} : v.t <= t + 1
       /\ Len(SelectSeq(heap[t].array, LAMBDA v : v = Tab(t + 1))) <= 1
AncestorRoundTrip == stage = "unpacked" /\ Spine => Same
=============================================================================
