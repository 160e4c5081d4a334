------------------------------ MODULE PeLookup ------------------------------
(***************************************************************************)
(* What is looked up in a PE image: exported functions (wine/pe_image.c),  *)
(* resources (wine/pe_resource.c) and the strings among them               *)
(* (wine/resource.c); and the fixups of an image that is not at its base.  *)
(* They are operators on an image, compared with what they should return.  *)
(*                                                                         *)
(* The export table of an image is [base, functions, names]: a function is *)
(* None, <<"code", address>> or <<"forward", module, name>>, and the names   *)
(* are pairs of a name, a number in the order of strcmp, and an index into *)
(* the functions, from 0.  A resource directory is [named, ids], sequences *)
(* of pairs of a name or id and a directory, or data on the third level.   *)
(* A requested name is <<"id", n>>, <<"hash", n>> for "#n" or <<"text", t>>.*)
(***************************************************************************)
EXTENDS Integers, Sequences, FiniteSets

CONSTANTS None, Half  \* the values of a short: 2^16

Elements(s) == {s[i] : i \in 1..Len(s)}

-----------------------------------------------------------------------------
(* Exports *)

\* Bisection of names[min..max], indices from 0 as in the code: the position or -1.  A round
\* halves the range until the name is in its middle or nothing is left of it.
Middle(range) == (range[1] + range[2]) \div 2
Halve(names, wanted, range) ==
  LET pos == Middle(range) IN
  IF range[1] > range[2] \/ names[pos + 1][1] = wanted THEN range
  ELSE IF names[pos + 1][1] > wanted THEN <<range[1], pos - 1>> ELSE <<pos + 1, range[2]>>
Bisect(names, wanted) ==
  LET n == Len(names)
      range[k \in 0..n] == IF k = 0 THEN <<0, n - 1>> ELSE Halve(names, wanted, range[k - 1]) IN
  IF range[n][1] <= range[n][2] THEN Middle(range[n]) ELSE -1

\* Mutant: the bisection alone, without the linear search of unsorted names.
SortedOnly(names, wanted) ==
  LET pos == Bisect(names, wanted) IN IF pos = -1 THEN -1 ELSE names[pos + 1][2]

\* The index of a name's function: found by bisection, else by searching all names.
IndexOfName(names, wanted) ==
  LET pos == Bisect(names, wanted)
      at == {i \in 1..Len(names) : names[i][1] = wanted} IN
  IF pos # -1 THEN names[pos + 1][2]
  ELSE IF at = {} THEN -1 ELSE names[CHOOSE i \in at : \A j \in at : i <= j][2]

\* By name or by ordinal; an index below 0 or beyond the table is refused.
PE_FindExportedFunction(exports, asked) ==
  LET i == IF asked[1] = "name" THEN IndexOfName(exports.names, asked[2]) ELSE asked[2] - exports.base IN
  IF i < 0 \/ i >= Len(exports.functions) THEN None
  ELSE exports.functions[i + 1]

\* A forward is followed into a loaded module, by name only; forwards that go round
\* never end, so that follows counts the steps that are left.
Forwards(table) == {e \in Elements(table.functions) : e # None /\ e[1] = "forward"}
MODULE_GetProcAddress(loaded, module, asked, follows) ==
  LET asks == {asked} \cup UNION {{<<"name", e[3]>> : e \in Forwards(loaded[k])} : k \in DOMAIN loaded}
      found[n \in 0..follows] ==
        [p \in (DOMAIN loaded) \X asks |->
           LET e == PE_FindExportedFunction(loaded[p[1]], p[2]) IN
           IF e = None \/ e[1] # "forward" THEN e
           ELSE IF e[2] \notin DOMAIN loaded \/ n = 0 THEN None
           ELSE found[n - 1][<<e[2], <<"name", e[3]>>>>]] IN
  IF module \in DOMAIN loaded THEN found[follows][<<module, asked>>] ELSE None

-----------------------------------------------------------------------------
(* Resources *)

First(s, key) ==
  LET at == {i \in 1..Len(s) : s[i][1] = key} IN
  IF at = {} THEN None ELSE s[CHOOSE i \in at : \A j \in at : i <= j][2]

\* One level down, by id or by name; "#n" is the id n.  If asked to, id 0 stands for
\* the first entry.  In what was not found, nothing is.
GetResDirEntryW(dir, name, allowdefault) ==
  IF dir = None THEN None
  ELSE IF name[1] = "text" THEN First(dir.named, name[2])
  ELSE IF name[2] \in {e[1] : e \in Elements(dir.ids)} THEN First(dir.ids, name[2])
  ELSE IF allowdefault /\ name = <<"id", 0>> /\ dir.ids # <<>> THEN dir.ids[1][2]
  ELSE None

\* A narrow name is widened, searched for and freed.
GetResDirEntryA(dir, name, allowdefault) == GetResDirEntryW(dir, name, allowdefault)

\* Type, name and language; the neutral language or any if there is no such.
PE_FindResourceExW(root, name, type, lang) ==
  LET langs == GetResDirEntryW(GetResDirEntryW(root, type, FALSE), name, FALSE)
      exact == GetResDirEntryW(langs, <<"id", lang>>, FALSE) IN
  IF exact # None THEN exact ELSE GetResDirEntryW(langs, <<"id", 0>>, TRUE)

\* A module that is not loaded, or has no resources, has none of them.
RES_FindResource2(modules, module, type, name, lang) ==
  IF module \notin DOMAIN modules THEN None
  ELSE IF modules[module] = None THEN None
  ELSE PE_FindResourceExW(modules[module], name, type, lang)

\* What was found is a handle: an entry of data, [offset, size], or None, the null handle.
\* Nothing makes handles of 16 bits, which are refused.
\* The size is taken from the entry, of whatever module, even one that is not loaded.
RES_SizeofResource(module, res) == IF module = None \/ res = None THEN 0 ELSE res.size

\* The memory is that of the module named, which must be loaded.
RES_LoadResource(modules, module, res) ==
  IF module \in DOMAIN modules /\ res # None THEN <<module, res.offset>> ELSE None

\* The handle of the memory is its address; nothing is locked, and what frees it keeps it.
RES_LockResource(memory) == memory
RES_FreeResource(memory) == memory # None

\* No file is opened for any resource.
RES_AccessResource(module, res) == None

\* The names of a level, string entries first, until the callback has enough.  A
\* string is handed over with the word before it, its length.
Enumerate(dir, enough) ==
  IF dir = None THEN <<>> ELSE
  LET all == [i \in 1..Len(dir.named) |-> <<"counted", dir.named[i][1]>>]
               \o [i \in 1..Len(dir.ids) |-> <<"id", dir.ids[i][1]>>] IN
  SubSeq(all, 1, IF enough < Len(all) THEN enough ELSE Len(all))

PE_EnumResourceTypesA(root, enough) == Enumerate(root, enough)
PE_EnumResourceTypesW(root, enough) == Enumerate(root, enough)
PE_EnumResourceNamesA(root, type, enough) == Enumerate(GetResDirEntryA(root, type, FALSE), enough)
PE_EnumResourceNamesW(root, type, enough) == Enumerate(GetResDirEntryW(root, type, FALSE), enough)
PE_EnumResourceLanguagesA(root, type, name, enough) ==
  Enumerate(GetResDirEntryA(GetResDirEntryA(root, type, FALSE), name, FALSE), enough)
PE_EnumResourceLanguagesW(root, type, name, enough) ==
  Enumerate(GetResDirEntryW(GetResDirEntryW(root, type, FALSE), name, FALSE), enough)

-----------------------------------------------------------------------------
(* Strings: a string table has one resource for sixteen ids, numbered from 1; *)
(* a string is a sequence of characters, of which 0 ends it.                  *)

RT_STRING == 6
StringNo(id) == (id % 16) + 1
Table(root, id) == PE_FindResourceExW(root, <<"id", (id \div 16) + 1>>, <<"id", RT_STRING>>, 1033)
Least(a, b) == IF a <= b THEN a ELSE b

\* Of a table's string: the length, if there is no buffer; else what is written,
\* which a buffer of one character never is.
Wide(table, no, buflen) ==
  IF table = None THEN [answer |-> 0, buffer |-> <<>>]
  ELSE IF buflen = 0 THEN [answer |-> Len(table[no]), buffer |-> <<>>]
  ELSE LET i == Least(buflen - 1, Len(table[no])) IN
       [answer |-> i, buffer |-> IF buflen > 1 THEN Append(SubSeq(table[no], 1, i), 0) ELSE <<>>]
LoadStringW(root, id, buflen) == Wide(Table(root, id), StringNo(id), buflen)

\* A zero among the characters after the first ends what is converted.
UpToZero(s) ==
  LET ends == {i \in 2..Len(s) : s[i] = 0} IN
  IF ends = {} THEN s ELSE SubSeq(s, 1, (CHOOSE i \in ends : \A j \in ends : i <= j) - 1)

\* Converted through a wide copy, and cut to the buffer.
Narrow(wide, buflen) ==
  IF wide.answer = 0 THEN [answer |-> 0, buffer |-> IF buflen > 0 THEN <<0>> ELSE <<>>]
  ELSE LET narrow == UpToZero(SubSeq(wide.buffer, 1, wide.answer)) IN
       IF buflen = 0 THEN [answer |-> Len(narrow), buffer |-> <<>>]
       ELSE LET n == Least(Len(narrow), buflen - 1) IN
            [answer |-> n, buffer |-> Append(SubSeq(narrow, 1, n), 0)]
LoadStringA(root, id, buflen) ==
  Narrow(LoadStringW(root, id, LoadStringW(root, id, 0).answer + 1), buflen)

\* Without a destination the answer is 1.  Half the room is used, of a size that is too;
\* the answer counts one character more than there are if no zero ended them.
MultiByteToWideChar(s, siz1, buffer, siz2) ==
  LET most == Least(siz1, siz2 \div 2)
      zeros == {i \in 1..most : s[i] = 0} IN
  IF ~buffer THEN [answer |-> 1, written |-> <<>>]
  ELSE IF zeros # {} THEN LET i == CHOOSE i \in zeros : \A j \in zeros : i <= j IN [answer |-> i, written |-> SubSeq(s, 1, i)]
  ELSE [answer |-> IF most < 0 THEN 1 ELSE most + 1, written |-> SubSeq(s, 1, most)]

\* Messages: blocks [low, high, entries] of a table, an entry [length, text] whose
\* length counts its header.
LoadMessageA(blocks, id, buflen) ==
  LET at == {b \in 1..Len(blocks) : id >= blocks[b].low /\ id <= blocks[b].high}
      block == blocks[CHOOSE b \in at : \A c \in at : b <= c]
      walked == SubSeq(block.entries, 1, id - block.low)
      n == block.entries[id - block.low + 1].length IN
  IF at = {} \/ \E e \in Elements(walked) : e.length = 0 THEN 0
  ELSE IF buflen = 0 THEN n ELSE Least(buflen - 1, n)
-----------------------------------------------------------------------------
(* Fixups.  The memory of an image is its shorts, a pointer two of them, the lower   *)
(* one first; a block is [page, fixups], a fixup <<offset, type>>, both in shorts.    *)

Pointer(memory, at) == memory[at] + Half * memory[at + 1]

\* Each half is added to on its own: a carry out of the low one is lost.  What pads a
\* block changes nothing, like the types that are only reported.
Fixup(memory, at, type, delta) ==
  CASE type = "HIGH" -> [memory EXCEPT ![at] = (@ + delta \div Half) % Half]
    [] type = "LOW" -> [memory EXCEPT ![at] = (@ + (delta % Half)) % Half]
    [] type = "HIGHLOW" ->
         LET p == (Pointer(memory, at) + delta) % (Half * Half) IN
         [memory EXCEPT ![at] = p % Half, ![at + 1] = p \div Half]
    [] OTHER -> memory

Delta(image, load_addr) == (load_addr - image.base) % (Half * Half)

\* The blocks up to one of page 0.
Used(blocks) ==
  LET ends == {i \in 1..Len(blocks) : blocks[i].page = 0} IN
  IF ends = {} THEN blocks ELSE SubSeq(blocks, 1, (CHOOSE i \in ends : \A j \in ends : i <= j) - 1)

FixBlock(memory, block, delta) ==
  LET after[k \in 0..Len(block.fixups)] ==
        IF k = 0 THEN memory
        ELSE Fixup(after[k - 1], block.page + block.fixups[k][1], block.fixups[k][2], delta) IN
  after[Len(block.fixups)]

do_relocations(image, load_addr) ==
  LET used == Used(image.blocks)
      delta == Delta(image, load_addr)
      after[b \in 0..Len(used)] == IF b = 0 THEN image.memory ELSE FixBlock(after[b - 1], used[b], delta) IN
  IF delta = 0 THEN image.memory ELSE after[Len(used)]
-----------------------------------------------------------------------------
(* What they should return *)

\* The function of a name that occurs once is the one of its index, of a forward the
\* one it leads to: sorted or not, at every position.
ExportsAgree(tables, forwards) ==
  /\ \A t \in tables : \A i \in 1..Len(t.names) :
       (\A j \in 1..Len(t.names) : t.names[j][1] = t.names[i][1] => j = i) =>
         LET k == t.names[i][2] + 1 IN
         /\ PE_FindExportedFunction(t, <<"name", t.names[i][1]>>)
              = IF k \in 1..Len(t.functions) THEN t.functions[k] ELSE None
         /\ k \in 1..Len(t.functions) =>
              PE_FindExportedFunction(t, <<"name", t.names[i][1]>>)
                = PE_FindExportedFunction(t, <<"ordinal", t.base + k - 1>>)
  /\ \A t \in tables, n \in 0..9 :
       n \notin {e[1] : e \in Elements(t.names)} => PE_FindExportedFunction(t, <<"name", n>>) = None
  /\ \A m \in DOMAIN forwards : \A e \in Elements(forwards[m].names) :
       LET f == MODULE_GetProcAddress(forwards, m, <<"name", e[1]>>, 3) IN f = None \/ f[1] = "code"

\* A resource that is found is of the type and name asked for, in the language if
\* there is one in it; one that is there is found; and every id that is enumerated
\* can be found, also when written "#n".
ResourcesAgree(roots) ==
  \A root \in roots : \A type \in Elements(root.ids) : \A name \in Elements(type[2].ids) :
    /\ \A lang \in 0..3 :
         LET r == PE_FindResourceExW(root, <<"id", name[1]>>, <<"id", type[1]>>, lang)
             of(l) == {e[2] : e \in {x \in Elements(name[2].ids) : x[1] = l}} IN
         IF of(lang) # {} THEN r \in of(lang) ELSE IF of(0) # {} THEN r \in of(0)
         ELSE IF name[2].ids = <<>> THEN r = None ELSE r = name[2].ids[1][2]
    /\ \A enough \in 0..9 :
         /\ \A e \in Elements(PE_EnumResourceNamesW(root, <<"hash", type[1]>>, enough)) :
              e[1] = "id" => \E n \in Elements(type[2].ids) : n[1] = e[2]
         /\ PE_EnumResourceNamesA(root, <<"hash", type[1]>>, enough)
              = PE_EnumResourceNamesW(root, <<"id", type[1]>>, enough)
    /\ LET all == Len(root.named) + Len(root.ids) IN
       \E e \in Elements(PE_EnumResourceTypesA(root, all)) : e = <<"id", type[1]>>

\* A resource that is found can be loaded, locked and freed in the module it was found in,
\* and its size is its own; what was not found has no memory and no size.
DataAgree(modules, types, names) ==
  \A m \in DOMAIN modules \cup {None}, type \in types, name \in names :
    LET res == RES_FindResource2(modules, m, <<"id", type>>, <<"id", name>>, 1033)
        memory == RES_LockResource(RES_LoadResource(modules, m, res)) IN
    /\ res # None => memory = <<m, res.offset>> /\ RES_SizeofResource(m, res) = res.size
    /\ res = None => memory = None /\ RES_SizeofResource(m, res) = 0
    /\ RES_FreeResource(memory) <=> res # None
    /\ RES_AccessResource(m, res) = None

\* A string is the prefix of the resource's that the buffer has room for with its
\* zero, and never more than the buffer.  What is widened again fits too, and its length
\* is told if a zero ends it.
StringsAgree(roots, ids, most) ==
  \A root \in roots, id \in ids, n \in 1..most :
    /\ \A w \in {LoadStringW(root, id, n).buffer} : Len(w) <= n
    /\ \A a \in {LoadStringA(root, id, n)}, table \in {Table(root, id)} :
         /\ a.buffer # <<>> /\ Len(a.buffer) <= n /\ a.buffer[Len(a.buffer)] = 0
         /\ table # None => SubSeq(a.buffer, 1, a.answer) = SubSeq(table[StringNo(id)], 1, a.answer)
         /\ table # None => \A siz1 \in -1..Len(table[StringNo(id)]) :
              LET s == table[StringNo(id)]  w == MultiByteToWideChar(s, siz1, TRUE, n) IN
              /\ 2 * Len(w.written) <= n /\ w.written = SubSeq(s, 1, Len(w.written))
              /\ w.answer <= Len(w.written) + 1
              /\ w.answer = Len(w.written) <=> w.written # <<>> /\ w.written[Len(w.written)] = 0

\* Wherever an image is put, each pointer with a fixup moves with it, and nothing else
\* changes.  A pointer whose halves are fixed one by one is short by a carry: it is right
\* at every address only if images move by whole halves, but mmap chooses any page.
RelocationsAgree(images) ==
  \A image \in images, load_addr \in 0..(Half * Half - 1) :
    LET moved == do_relocations(image, load_addr)
        delta == Delta(image, load_addr)
        types(at) == UNION {{f[2] : f \in {g \in Elements(b.fixups) : b.page + g[1] = at}} : b \in Elements(Used(image.blocks))}
        right(at) == Pointer(moved, at) = (Pointer(image.memory, at) + delta) % (Half * Half) IN
    \A at \in DOMAIN image.memory :
      /\ "HIGHLOW" \in types(at) => right(at)
      /\ "LOW" \in types(at) /\ "HIGH" \in types(at + 1) =>
           (right(at) <=> image.memory[at] + (delta % Half) < Half)
      /\ types(at) \subseteq {"ABSOLUTE"} /\ "HIGHLOW" \notin types(at - 1) => moved[at] = image.memory[at]
=============================================================================
