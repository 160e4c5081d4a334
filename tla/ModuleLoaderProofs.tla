-------------------------- MODULE ModuleLoaderProofs --------------------------
(***************************************************************************)
(* Proofs about ModuleLoader, for every set of DLLs, whatever their entry  *)
(* points load, and every finite set of codecs, when the calls into the    *)
(* loader are serialized, as its comments assume: the types, the agreement *)
(* of the module list with what is mapped and attached between calls, that *)
(* the last counted codec leaves nothing mapped, and that an open codec    *)
(* keeps its DLLs.                                                         *)
(***************************************************************************)
EXTENDS ModuleLoader, FiniteSetTheorems, SequenceTheorems, TLAPS

\* The entry points that are loading another DLL, in the calls s of one codec.
Outer(s) == {s[i].mod : i \in 2..Len(s)}
Injective(s) == \A i, j \in 1..Len(s) : s[i] = s[j] => i = j

InRelease(c) == InLoader(c) /\ Top(c).for = "release"

\* The types, without the count of codecs.
Types ==
  /\ list \in Seq(Module) /\ attached \in Seq(Module)
  /\ image \subseteq Module /\ heap \subseteq Module
  /\ phase \in [Codec -> Phases]
  /\ handles \in [Codec -> Seq(Module)]
  /\ stack \in [Codec -> Seq(Frame)]

\* One codec at a time is in the loader.
Alone == \A c, d \in Codec : InLoader(c) /\ InLoader(d) => c = d

\* Which calls there are: below the innermost one only entry points that load, each of
\* a module of its own; and what the innermost one has, by where it is.
CallsOf(s) ==
  /\ \A i \in 2..Len(s) : s[i].at = "attach" /\ s[i].for = "load" /\ s[i].mod \in Module
  /\ \A i, j \in 2..Len(s) : s[i].mod = s[j].mod => i = j
TopOf(t, s) ==
  /\ t.for # "load" => Len(s) = 1
  /\ t.at \in {"find", "map", "push", "attach"} => t.for = "load"
  /\ t.at = "loop" => t.for = "release"
  /\ t.at \in {"find", "map"} => t.dll \in Dll
  /\ t.at \in {"push", "attach", "detach", "unload", "remove"} => t.mod \in Module \ Outer(s)
PhaseOf(for) == CASE for = "load" -> "opening" [] for = "free" -> "open" [] for = "release" -> "closing"
Calls ==
  \A c \in Codec : InLoader(c) =>
    CallsOf(stack[c]) /\ TopOf(Top(c), stack[c]) /\ phase[c] = PhaseOf(Top(c).for)

\* What a codec holds in each phase.
Held ==
  \A c \in Codec :
    /\ phase[c] \in {"closed", "closing"} => handles[c] = <<>>
    /\ phase[c] = "opening" => Len(handles[c]) < Len(Needs[c])
    /\ phase[c] = "closing" => Counted(c)

\* Where a call is, the list and what is attached differ from what is mapped by the
\* module it is about, and by the modules whose entry points are waiting.
Unlisted(t) == IF t.at = "push" THEN {t.mod} ELSE {}
Unmapped(t) == IF t.at = "remove" THEN {t.mod} ELSE {}
Unattached(t) ==
  IF t.at \in {"push", "attach", "unload"} \/ (t.at = "detach" /\ t.for = "load") THEN {t.mod} ELSE {}
ModulesOf(t, s) ==
  /\ Elements(list) = (image \ Unlisted(t)) \cup Unmapped(t)
  /\ Elements(attached) = image \ (Outer(s) \cup Unattached(t))
  /\ Outer(s) \subseteq image
  /\ t.at \in {"push", "attach", "detach", "unload"} => t.mod \in image
  /\ t.at = "remove" => t.mod \notin image
  /\ t.at = "map" => \A m \in image : m[1] # t.dll
Modules ==
  /\ NoCall => Elements(list) = image /\ Elements(attached) = image
  /\ \A c \in Codec : InLoader(c) => ModulesOf(Top(c), stack[c])

Lists == Injective(list) /\ Injective(attached) /\ Elements(list) \subseteq heap

\* The count is of the codecs that are open, until the release that counted down.
Open == {c \in Codec : Counted(c) /\ phase[c] # "closed" /\ ~InRelease(c)}
Count == acounter = Cardinality(Open)

Safe == Types /\ Alone /\ Calls /\ Held /\ Modules /\ Lists
IInv == Safe /\ Count

-----------------------------------------------------------------------------
(* Sequences *)

\* A sequence that is not empty has one element, or more.
LEMMA LengthOf ==
  ASSUME NEW S, NEW s \in Seq(S)
  PROVE  /\ Len(s) > 0 => s # <<>>
         /\ s # <<>> => Len(s) > 1 \/ Len(s) = 1
  OBVIOUS

\* A call is pushed on the others.
LEMMA Pushed ==
  ASSUME NEW S, NEW s \in Seq(S), NEW x \in S, NEW t, t = <<x>> \o s
  PROVE  /\ t \in Seq(S) /\ t # <<>> /\ Len(t) = Len(s) + 1
         /\ t[1] = x /\ Head(t) = x
         /\ \A i \in 2..Len(t) : t[i] = s[i - 1]
  OBVIOUS

\* The innermost call is over.
LEMMA Popped ==
  ASSUME NEW S, NEW s \in Seq(S), s # <<>>, NEW t, t = Tail(s)
  PROVE  /\ t \in Seq(S) /\ Len(t) = Len(s) - 1
         /\ \A i \in 1..Len(t) : t[i] = s[i + 1]
         /\ t # <<>> => Head(t) = s[2]
  OBVIOUS

\* A call that is the only one leaves none.
LEMMA TailOfOne ==
  ASSUME NEW S, NEW s \in Seq(S), Len(s) = 1
  PROVE  Tail(s) = <<>>
<1>1. s # <<>>
  BY LengthOf
<1>2. Tail(s) \in Seq(S) /\ Len(Tail(s)) = Len(s) - 1
  BY <1>1, HeadTailProperties
<1>3. Len(Tail(s)) = 0
  BY <1>2
<1>4. Len(Tail(s)) \notin Nat \ {0}
  BY <1>3
<1> QED
  BY <1>2, <1>4, EmptySeq, Zenon

\* The innermost call goes on.
LEMMA Replaced ==
  ASSUME NEW S, NEW s \in Seq(S), s # <<>>, NEW x \in S, NEW t, t = [s EXCEPT ![1] = x]
  PROVE  /\ t \in Seq(S) /\ t # <<>> /\ Len(t) = Len(s)
         /\ Head(t) = x
         /\ \A i \in 2..Len(t) : t[i] = s[i]
<1>1. 1 \in 1..Len(s)
  OBVIOUS
<1>2. t \in Seq(S) /\ Len(t) = Len(s) /\ \A i \in 1..Len(s) : t[i] = IF i = 1 THEN x ELSE s[i]
  BY <1>1, ExceptSeq
<1> QED
  BY <1>1, <1>2

\* Without m, a list without repetitions has the other modules, each once.
LEMMA WithoutOne ==
  ASSUME NEW S, NEW s \in Seq(S), Injective(s), NEW m
  PROVE  /\ Without(s, m) \in Seq(S) /\ Injective(Without(s, m))
         /\ Elements(Without(s, m)) = Elements(s) \ {m}
<1>1. CASE m \notin Elements(s)
  BY <1>1 DEF Without, Elements
<1>2. CASE m \in Elements(s)
  <2> DEFINE P(i) == s[i] = m /\ \A j \in 1..(i - 1) : s[j] # m
             k == CHOOSE i \in 1..Len(s) : P(i)
             t == [i \in 1..(Len(s) - 1) |-> IF i < k THEN s[i] ELSE s[i + 1]]
  <2>1. PICK n \in 1..Len(s) : s[n] = m
    BY <1>2 DEF Elements
  <2>2. P(n)
    BY <2>1 DEF Injective
  <2>3. k \in 1..Len(s) /\ P(k)
    BY <2>2
  <2>4. Without(s, m) = t
    BY <1>2 DEF Without
  <2> HIDE DEF k
  <2>5. Len(s) - 1 \in Nat
    BY <2>1
  <2>6. t \in Seq(S) /\ Len(t) = Len(s) - 1
    BY <2>3, <2>5
  <2>7. Injective(t)
    BY <2>3, <2>5, <2>6 DEF Injective
  <2>8. Elements(t) \subseteq Elements(s) \ {m}
    BY <2>3, <2>5, <2>6 DEF Injective, Elements
  <2>9. ASSUME NEW x \in Elements(s) \ {m} PROVE x \in Elements(t)
    <3>1. PICK i \in 1..Len(s) : s[i] = x
      BY DEF Elements
    <3>2. i # k
      BY <3>1, <2>3
    <3>3. CASE i < k
      BY <3>1, <3>3, <2>3, <2>5, <2>6 DEF Elements
    <3>4. CASE i > k
      <4>1. i - 1 \in 1..Len(t) /\ t[i - 1] = s[i]
        BY <3>1, <3>4, <2>3, <2>5, <2>6
      <4> QED
        BY <4>1, <3>1 DEF Elements
    <3> QED
      BY <3>2, <3>3, <3>4, <2>3
  <2> QED
    BY <2>4, <2>6, <2>7, <2>8, <2>9
<1> QED
  BY <1>1, <1>2

\* A module is put before the others: the list has it too, and each once.
LEMMA PushedElements ==
  ASSUME NEW S, NEW s \in Seq(S), NEW x \in S, x \notin Elements(s), Injective(s)
  PROVE  Elements(<<x>> \o s) = Elements(s) \cup {x} /\ Injective(<<x>> \o s)
<1>1. <<x>> \o s \in Seq(S) /\ Len(<<x>> \o s) = Len(s) + 1 /\ (<<x>> \o s)[1] = x
      /\ \A i \in 2..(Len(s) + 1) : (<<x>> \o s)[i] = s[i - 1]
  BY Pushed
<1>2. x \in Elements(<<x>> \o s)
  BY <1>1 DEF Elements
<1>3. ASSUME NEW y \in Elements(s) PROVE y \in Elements(<<x>> \o s)
  <2>1. PICK i \in 1..Len(s) : s[i] = y
    BY DEF Elements
  <2>2. i + 1 \in 1..Len(<<x>> \o s) /\ (<<x>> \o s)[i + 1] = y
    BY <1>1, <2>1
  <2> QED
    BY <2>2 DEF Elements
<1>4. Elements(<<x>> \o s) \subseteq Elements(s) \cup {x}
  BY <1>1 DEF Elements
<1>5. Injective(<<x>> \o s)
  BY <1>1 DEF Injective, Elements
<1> QED
  BY <1>2, <1>3, <1>4, <1>5

\* A module is put behind the others: the list has it too, and each once.
LEMMA AppendedElements ==
  ASSUME NEW S, NEW s \in Seq(S), NEW x \in S, x \notin Elements(s), Injective(s)
  PROVE  Elements(Append(s, x)) = Elements(s) \cup {x} /\ Injective(Append(s, x))
<1>1. Append(s, x) \in Seq(S) /\ Len(Append(s, x)) = Len(s) + 1 /\ Append(s, x)[Len(s) + 1] = x
      /\ \A i \in 1..Len(s) : Append(s, x)[i] = s[i]
  OBVIOUS
<1>2. Elements(Append(s, x)) = Elements(s) \cup {x}
  BY <1>1 DEF Elements
<1>3. Injective(Append(s, x))
  BY <1>1 DEF Injective, Elements
<1> QED
  BY <1>2, <1>3

-----------------------------------------------------------------------------
(* One codec in the loader *)

\* What is to be known of the codec that is in the loader, or just was.
Goal(c) ==
  /\ InLoader(c) => /\ CallsOf(stack[c]) /\ TopOf(Top(c), stack[c]) /\ phase[c] = PhaseOf(Top(c).for)
                    /\ ModulesOf(Top(c), stack[c])
  /\ ~InLoader(c) => Elements(list) = image /\ Elements(attached) = image
  /\ phase[c] \in {"closed", "closing"} => handles[c] = <<>>
  /\ phase[c] = "opening" => Len(handles[c]) < Len(Needs[c])
  /\ phase[c] = "closing" => Counted(c)

\* The others are not in the loader, and stay as they are.
OthersOut(c) ==
  \A d \in Codec \ {c} :
    ~InLoader(d) /\ stack'[d] = stack[d] /\ phase'[d] = phase[d] /\ handles'[d] = handles[d]

\* When one codec alone is concerned, the invariant is what it says of that codec.
LEMMA OneCodec ==
  ASSUME Held, NEW c \in Codec, OthersOut(c), Types', Lists', Goal(c)'
  PROVE  Safe'
<1>1. \A d \in Codec \ {c} : ~InLoader(d)'
  BY DEF OthersOut, InLoader
<1>2. Alone'
  BY <1>1 DEF Alone
<1>3. Calls'
  BY <1>1 DEF Calls, Goal
<1>4. Modules'
  <2>1. NoCall' => ~InLoader(c)'
    BY DEF NoCall
  <2> QED
    BY <1>1, <2>1 DEF Modules, Goal
<1>5. Held'
  BY DEF Held, Goal, OthersOut
<1> QED
  BY <1>2, <1>3, <1>4, <1>5 DEF Safe

\* What is known when c is in the loader, and when it may call.
LEMMA Inside ==
  ASSUME Safe, NEW c \in Codec, InLoader(c)
  PROVE  /\ stack[c] \in Seq(Frame) /\ stack[c] # <<>> /\ Top(c) \in Frame /\ Top(c) = stack[c][1]
         /\ Len(stack[c]) \in Nat /\ Len(stack[c]) > 0
         /\ \A d \in Codec \ {c} : ~InLoader(d)
         /\ CallsOf(stack[c]) /\ TopOf(Top(c), stack[c]) /\ phase[c] = PhaseOf(Top(c).for)
         /\ ModulesOf(Top(c), stack[c])
<1>1. stack[c] \in Seq(Frame) /\ stack[c] # <<>>
  BY DEF Safe, Types, InLoader
<1>2. Top(c) \in Frame /\ Top(c) = stack[c][1] /\ Len(stack[c]) \in Nat /\ Len(stack[c]) > 0
  BY <1>1 DEF Top
<1> QED
  BY <1>1, <1>2 DEF Safe, Alone, Calls, Modules

\* When a codec may call, nobody is in the loader and the lists are exact.
LEMMA Outside ==
  ASSUME Safe, Serialized, NEW c \in Codec, MayCall(c)
  PROVE  /\ stack[c] = <<>> /\ \A d \in Codec : ~InLoader(d)
         /\ Elements(list) = image /\ Elements(attached) = image
<1>1. NoCall /\ stack[c] = <<>>
  BY DEF MayCall, NoCall, InLoader
<1> QED
  BY <1>1 DEF NoCall, Safe, Modules

-----------------------------------------------------------------------------
(* Calls, steps within a call, and returns *)

\* The innermost call goes on, at another place or about another module.
LEMMA Goes ==
  ASSUME Safe, NEW c \in Codec, InLoader(c),
         NEW t \in Frame, t.for = Top(c).for,
         stack' = [stack EXCEPT ![c] = [@ EXCEPT ![1] = t]], UNCHANGED <<phase, handles>>,
         TopOf(t, stack[c]), ModulesOf(t, stack[c])'
  PROVE  OthersOut(c) /\ Goal(c)' /\ stack' \in [Codec -> Seq(Frame)]
<1>1. stack[c] \in Seq(Frame) /\ stack[c] # <<>>
  BY Inside
<1>2. stack'[c] = [stack[c] EXCEPT ![1] = t] /\ \A d \in Codec \ {c} : stack'[d] = stack[d]
  BY DEF Safe, Types
<1>3. /\ stack'[c] \in Seq(Frame) /\ stack'[c] # <<>> /\ Len(stack'[c]) = Len(stack[c])
      /\ Head(stack'[c]) = t
      /\ \A i \in 2..Len(stack'[c]) : stack'[c][i] = stack[c][i]
  BY <1>1, <1>2, Replaced
<1>4. stack' \in [Codec -> Seq(Frame)]
  BY <1>2, <1>3 DEF Safe, Types
<1>5. OthersOut(c)
  BY <1>2, Inside DEF OthersOut
<1>6. Outer(stack'[c]) = Outer(stack[c])
  BY <1>3 DEF Outer
<1>7. CallsOf(stack'[c])
  BY <1>3, Inside DEF CallsOf
<1>8. TopOf(t, stack'[c])
  BY <1>3, <1>6 DEF TopOf
<1>9. ModulesOf(t, stack[c])' = ModulesOf(Top(c), stack[c])'
  BY <1>3 DEF Top
<1>10. phase'[c] = PhaseOf(t.for)
  BY Inside
<1>11. Goal(c)'
  BY <1>3, <1>7, <1>8, <1>9, <1>10 DEF Goal, InLoader, Top, Safe, Held
<1> QED
  BY <1>4, <1>5, <1>11

\* What the innermost call does leaves the waiting entry points alone.
LEMMA OuterKept ==
  ASSUME Safe, NEW c \in Codec, InLoader(c), NEW t \in Frame,
         stack' = [stack EXCEPT ![c] = [@ EXCEPT ![1] = t]]
  PROVE  Outer(stack[c])' = Outer(stack[c])
  BY Inside DEF Outer, Safe, Types

\* A codec that is in no call begins one.
LEMMA Enters ==
  ASSUME Safe, NEW c \in Codec, stack[c] = <<>>, \A d \in Codec : ~InLoader(d),
         NEW t \in Frame, phase[c] = PhaseOf(t.for),
         Call(c, t), UNCHANGED <<phase, handles>>,
         TopOf(t, <<t>>), ModulesOf(t, <<t>>)'
  PROVE  OthersOut(c) /\ Goal(c)' /\ stack' \in [Codec -> Seq(Frame)]
<1>1. stack'[c] = <<t>> /\ \A d \in Codec \ {c} : stack'[d] = stack[d]
  BY DEF Safe, Types, Call
<1>2. <<t>> \in Seq(Frame) /\ Len(<<t>>) = 1 /\ <<t>> # <<>> /\ Head(<<t>>) = t
  OBVIOUS
<1>3. stack' \in [Codec -> Seq(Frame)]
  BY <1>2 DEF Safe, Types, Call
<1>4. OthersOut(c)
  BY <1>1 DEF OthersOut
<1>5. CallsOf(<<t>>)
  BY <1>2 DEF CallsOf
<1>6. Goal(c)'
  BY <1>1, <1>2, <1>5 DEF Goal, InLoader, Top, Safe, Held
<1> QED
  BY <1>3, <1>4, <1>6

\* LoadLibrary returns, to an entry point or to the wrapper.
LEMMA Returns ==
  ASSUME Safe, NEW c \in Codec, InLoader(c), Top(c).for = "load",
         NEW h \in Module \cup {None}, Return(c, h),
         Elements(list)' = image', Elements(attached)' = image' \ Outer(stack[c]),
         Outer(stack[c]) \subseteq image'
  PROVE  /\ OthersOut(c) /\ Goal(c)' /\ stack' \in [Codec -> Seq(Frame)]
         /\ phase' \in [Codec -> Phases] /\ handles' \in [Codec -> Seq(Module)]
<1> DEFINE s == stack[c]
           u == Tail(s)
<1>1. s \in Seq(Frame) /\ s # <<>> /\ Len(s) \in Nat /\ Len(s) > 0 /\ CallsOf(s) /\ phase[c] = "opening"
  BY Inside DEF PhaseOf
<1>2. /\ u \in Seq(Frame) /\ Len(u) = Len(s) - 1
      /\ \A i \in 1..Len(u) : u[i] = s[i + 1]
      /\ u # <<>> => Head(u) = s[2]
  BY <1>1, Popped
<1>3. stack'[c] = u /\ \A d \in Codec \ {c} : stack'[d] = stack[d]
  BY DEF Safe, Types, Return
<1>4. stack' \in [Codec -> Seq(Frame)]
  BY <1>2 DEF Safe, Types, Return
<1>5. Len(handles[c]) < Len(Needs[c]) /\ Len(handles[c]) \in Nat /\ Len(Needs[c]) \in Nat
  BY <1>1, CodecAssumption DEF Safe, Held, Types
<1>6. CASE Len(s) > 1
  <2>1. UNCHANGED <<phase, handles>>
    BY <1>6 DEF Return
  <2>2. u # <<>> /\ 2 \in 2..Len(s)
    <3>1. Len(s) \in Nat /\ Len(u) > 0
      BY <1>1, <1>2, <1>6
    <3>2. u # <<>>
      BY <1>2, <3>1, LengthOf
    <3> QED
      BY <1>6, <3>1, <3>2
  <2>3. s[2].at = "attach" /\ s[2].for = "load" /\ s[2].mod \in Module
    BY <1>1, <2>2 DEF CallsOf
  <2>4. CallsOf(u)
    <3>1. ASSUME NEW i \in 2..Len(u) PROVE u[i] = s[i + 1] /\ i + 1 \in 2..Len(s)
      BY <1>1, <1>2
    <3> QED
      BY <1>1, <1>2, <3>1 DEF CallsOf
  <2>5. s[2].mod \notin Outer(u)
    <3>1. ASSUME NEW i \in 2..Len(u), u[i].mod = s[2].mod PROVE FALSE
      <4>1. u[i] = s[i + 1] /\ i + 1 \in 2..Len(s) /\ i + 1 # 2
        BY <1>1, <1>2
      <4> QED
        BY <4>1, <3>1, <2>2, <1>1 DEF CallsOf
    <3> QED
      BY <3>1 DEF Outer
  <2>6. Outer(s) = Outer(u) \cup {s[2].mod}
    <3>1. ASSUME NEW i \in 2..Len(u) PROVE u[i].mod \in Outer(s)
      <4>1. u[i] = s[i + 1] /\ i + 1 \in 2..Len(s)
        BY <1>1, <1>2
      <4> QED
        BY <4>1 DEF Outer
    <3>2. s[2].mod \in Outer(s)
      BY <2>2 DEF Outer
    <3>3. ASSUME NEW i \in 2..Len(s), i # 2 PROVE s[i].mod \in Outer(u)
      <4>1. u[i - 1] = s[i] /\ i - 1 \in 2..Len(u)
        BY <1>1, <1>2, <3>3
      <4> QED
        BY <4>1 DEF Outer
    <3>4. Outer(u) \subseteq Outer(s)
      BY <3>1 DEF Outer
    <3>5. Outer(s) \subseteq Outer(u) \cup {s[2].mod}
      BY <3>3 DEF Outer
    <3> QED
      BY <3>2, <3>4, <3>5
  <2>7. TopOf(s[2], u)
    BY <2>3, <2>5 DEF TopOf
  <2>8. Top(c)' = s[2] /\ InLoader(c)'
    BY <1>2, <1>3, <2>2 DEF Top, InLoader
  <2>9. ModulesOf(Top(c), stack[c])'
    <3>1. Outer(stack'[c]) = Outer(u)
      BY <1>3
    <3>2. Unlisted(Top(c))' = {} /\ Unmapped(Top(c))' = {} /\ Unattached(Top(c))' = {s[2].mod}
      BY <2>3, <2>8 DEF Unlisted, Unmapped, Unattached
    <3> QED
      BY <2>3, <2>6, <2>8, <3>1, <3>2 DEF ModulesOf
  <2>10. Goal(c)'
    BY <1>1, <1>3, <1>5, <2>1, <2>3, <2>4, <2>7, <2>8, <2>9 DEF Goal, PhaseOf
  <2>11. OthersOut(c)
    BY <1>3, <2>1, Inside DEF OthersOut
  <2> QED
    BY <1>4, <2>1, <2>10, <2>11 DEF Safe, Types
<1>7. CASE Len(s) = 1
  <2>1. u = <<>> /\ Outer(s) = {}
    BY <1>2, <1>7 DEF Outer
  <2>2. ~InLoader(c)' /\ Elements(list)' = image' /\ Elements(attached)' = image'
    BY <1>3, <2>1 DEF InLoader
  <2>3. CASE h = None
    <3>1. /\ phase' = [phase EXCEPT ![c] = IF Counted(c) THEN "closing" ELSE "closed"]
          /\ handles' = [handles EXCEPT ![c] = <<>>]
      BY <1>7, <2>3 DEF Return
    <3>2. phase' \in [Codec -> Phases] /\ handles' \in [Codec -> Seq(Module)]
      BY <3>1 DEF Safe, Types, Phases
    <3>3. handles'[c] = <<>> /\ phase'[c] = IF Counted(c) THEN "closing" ELSE "closed"
      BY <3>1 DEF Safe, Types
    <3>4. Goal(c)'
      BY <2>2, <3>3 DEF Goal, Counted
    <3>5. OthersOut(c)
      BY <1>3, <3>1, Inside DEF OthersOut, Safe, Types
    <3> QED
      BY <1>4, <3>2, <3>4, <3>5
  <2>4. CASE h # None
    <3>1. /\ handles' = [handles EXCEPT ![c] = Append(@, h)]
          /\ phase' = [phase EXCEPT ![c] =
                         IF Len(handles[c]) + 1 = Len(Needs[c]) THEN "open" ELSE "opening"]
      BY <1>7, <2>4 DEF Return
    <3>2. h \in Module /\ handles[c] \in Seq(Module)
      BY <2>4 DEF Safe, Types
    <3>3. Append(handles[c], h) \in Seq(Module) /\ Len(Append(handles[c], h)) = Len(handles[c]) + 1
      BY <3>2
    <3>4. phase' \in [Codec -> Phases] /\ handles' \in [Codec -> Seq(Module)]
      BY <3>1, <3>3 DEF Safe, Types, Phases
    <3>5. /\ handles'[c] = Append(handles[c], h)
          /\ phase'[c] = IF Len(handles[c]) + 1 = Len(Needs[c]) THEN "open" ELSE "opening"
      BY <3>1 DEF Safe, Types
    <3>6. Goal(c)'
      BY <1>5, <2>2, <3>3, <3>5 DEF Goal
    <3>7. OthersOut(c)
      BY <1>3, <3>1, Inside DEF OthersOut, Safe, Types
    <3> QED
      BY <1>4, <3>4, <3>6, <3>7
  <2> QED
    BY <2>3, <2>4
<1>8. Len(s) > 1 \/ Len(s) = 1
  <2>1. s \in Seq(Frame) /\ s # <<>>
    BY <1>1
  <2> QED
    BY <2>1, LengthOf
<1> QED
  BY <1>6, <1>7, <1>8

\* A codec is in no call any more, and is closed or has its release to come.
LEMMA Leaves ==
  ASSUME Safe, NEW c \in Codec, \A d \in Codec \ {c} : ~InLoader(d),
         stack' \in [Codec -> Seq(Frame)], stack'[c] = <<>>,
         \A d \in Codec \ {c} : stack'[d] = stack[d],
         NEW p \in {"closed", "closing"}, p = "closing" => Counted(c),
         ClosedTo(c, p),
         Elements(list)' = image', Elements(attached)' = image'
  PROVE  /\ OthersOut(c) /\ Goal(c)'
         /\ phase' \in [Codec -> Phases] /\ handles' \in [Codec -> Seq(Module)]
<1>1. phase' \in [Codec -> Phases] /\ handles' \in [Codec -> Seq(Module)]
  BY DEF ClosedTo, Safe, Types, Phases
<1>2. phase'[c] = p /\ handles'[c] = <<>>
  BY DEF ClosedTo, Safe, Types
<1>3. OthersOut(c)
  BY DEF OthersOut, ClosedTo, Safe, Types
<1>4. Goal(c)'
  BY <1>2 DEF Goal, InLoader, Counted
<1> QED
  BY <1>1, <1>3, <1>4

\* A codec that is in no call changes what it is and holds, whoever is in the loader.
LEMMA Elsewhere ==
  ASSUME Safe, NEW c \in Codec, ~InLoader(c), UNCHANGED <<modules, stack>>,
         phase' \in [Codec -> Phases], handles' \in [Codec -> Seq(Module)],
         \A d \in Codec \ {c} : phase'[d] = phase[d] /\ handles'[d] = handles[d],
         phase'[c] \in {"closed", "closing"} => handles'[c] = <<>>,
         phase'[c] = "opening" => Len(handles'[c]) < Len(Needs[c]),
         phase'[c] = "closing" => Counted(c)
  PROVE  Safe'
<1>1. Types' /\ Lists'
  BY DEF Safe, Types, Lists, modules
<1>2. \A d \in Codec : /\ InLoader(d)' = InLoader(d) /\ Top(d)' = Top(d)
                       /\ CallsOf(stack[d])' = CallsOf(stack[d])
                       /\ TopOf(Top(d), stack[d])' = TopOf(Top(d), stack[d])
                       /\ ModulesOf(Top(d), stack[d])' = ModulesOf(Top(d), stack[d])
  BY DEF InLoader, Top, modules, ModulesOf
<1>3. Alone' /\ (NoCall' = NoCall)
  BY <1>2 DEF Safe, Alone, NoCall
<1>4. Calls'
  BY <1>2 DEF Safe, Calls
<1>5. Held'
  BY DEF Safe, Held
<1>6. Modules'
  BY <1>2, <1>3 DEF Safe, Modules, modules
<1> QED
  BY <1>1, <1>3, <1>4, <1>5, <1>6 DEF Safe

-----------------------------------------------------------------------------
(* The steps *)

\* CodecAlloc runs beside any call of another codec.
LEMMA SafeOpenCodec ==
  ASSUME Safe, NEW c \in Codec, OpenCodec(c)
  PROVE  Safe'
<1>1. ~InLoader(c)
  <2>1. PhaseOf("load") # "closed" /\ PhaseOf("free") # "closed" /\ PhaseOf("release") # "closed"
    BY DEF PhaseOf
  <2>2. InLoader(c) => Top(c).for \in {"load", "free", "release"}
    BY Inside DEF Frame
  <2> QED
    BY <2>1, <2>2, Inside DEF OpenCodec
<1>2. phase'[c] = "opening" /\ phase' \in [Codec -> Phases]
      /\ \A d \in Codec \ {c} : phase'[d] = phase[d]
  BY DEF OpenCodec, Safe, Types, Phases
<1>3. handles'[c] = <<>> /\ Len(handles'[c]) < Len(Needs[c])
  BY CodecAssumption DEF OpenCodec, Safe, Held
<1> QED
  BY <1>1, <1>2, <1>3, Elsewhere DEF OpenCodec, Safe, Types, modules

\* So does the close of a DMO, which leaves its DLL on the list.
LEMMA SafeCloseDmo ==
  ASSUME Safe, NEW c \in Codec, CloseDmo(c)
  PROVE  Safe'
<1>1. /\ phase'[c] = "closing" /\ handles'[c] = <<>>
      /\ phase' \in [Codec -> Phases] /\ handles' \in [Codec -> Seq(Module)]
      /\ \A d \in Codec \ {c} : phase'[d] = phase[d] /\ handles'[d] = handles[d]
  BY DEF CloseDmo, ClosedTo, Safe, Types, Phases
<1>2. Counted(c)
  BY DEF CloseDmo, FreesItsDll, Counted
<1> QED
  BY <1>1, <1>2, Elsewhere DEF CloseDmo

\* A wrapper calls LoadLibraryA.
LEMMA SafeLoadLibrary ==
  ASSUME Safe, Serialized, NEW c \in Codec, LoadLibrary(c)
  PROVE  Safe'
<1> DEFINE d == Needs[c][Len(handles[c]) + 1]
           f == [at |-> "find", for |-> "load", dll |-> d, mod |-> None]
<1>1. Len(handles[c]) < Len(Needs[c]) /\ Len(handles[c]) \in Nat /\ Needs[c] \in Seq(Dll)
  BY CodecAssumption DEF LoadLibrary, Safe, Held, Types
<1>2. d \in Dll
  BY <1>1
<1>3. PICK t \in Frame : t = f
  BY <1>2 DEF Frame, Locations
<1>4. /\ stack[c] = <<>> /\ \A e \in Codec : ~InLoader(e)
      /\ Elements(list) = image /\ Elements(attached) = image
  BY Outside DEF LoadLibrary
<1>5. Call(c, t) /\ UNCHANGED <<modules, phase, handles>>
  BY <1>3 DEF LoadLibrary
<1>6. phase[c] = PhaseOf(t.for)
  BY <1>3 DEF LoadLibrary, PhaseOf
<1>7. TopOf(t, <<t>>)
  BY <1>2, <1>3 DEF TopOf
<1>8. ModulesOf(t, <<t>>)'
  BY <1>3, <1>4, <1>5 DEF ModulesOf, Outer, Unlisted, Unmapped, Unattached, modules
<1>9. OthersOut(c) /\ Goal(c)' /\ stack' \in [Codec -> Seq(Frame)]
  BY <1>4, <1>5, <1>6, <1>7, <1>8, Enters
<1>10. Types' /\ Lists'
  BY <1>5, <1>9 DEF modules, Safe, Types, Lists
<1> QED
  BY <1>9, <1>10, OneCodec DEF Safe

\* While a DLL is looked for, mapped or attached, what is listed is what is mapped.
LEMMA AtFind ==
  ASSUME Safe, NEW c \in Codec, At(c, "find") \/ At(c, "map")
  PROVE  /\ InLoader(c) /\ Top(c).for = "load" /\ Top(c).dll \in Dll
         /\ Elements(list) = image /\ Elements(attached) = image \ Outer(stack[c])
         /\ Outer(stack[c]) \subseteq image
<1>1. InLoader(c) /\ Top(c).at \in {"find", "map"}
  BY DEF At, Top
<1> QED
  BY <1>1, Inside DEF TopOf, ModulesOf, Unlisted, Unmapped, Unattached

\* MODULE_FindModule returns a listed module, or the file is to be mapped.
LEMMA SafeFindModule ==
  ASSUME Safe, Serialized, NEW c \in Codec, FindModule(c)
  PROVE  Safe'
<1>1. At(c, "find") /\ UNCHANGED modules
  BY DEF FindModule
<1>2. /\ InLoader(c) /\ Top(c).for = "load" /\ Top(c).dll \in Dll
      /\ Elements(list) = image /\ Elements(attached) = image \ Outer(stack[c])
      /\ Outer(stack[c]) \subseteq image
  BY <1>1, AtFind
<1>3. CASE NodesOf(Top(c).dll) = {}
  <2>1. PICK t \in Frame : t = [Top(c) EXCEPT !.at = "map"]
    <3>1. Top(c) \in Frame
      BY <1>2, Inside
    <3> QED
      BY <3>1 DEF Frame, Locations
  <2>2. stack' = [stack EXCEPT ![c] = [@ EXCEPT ![1] = t]] /\ UNCHANGED <<phase, handles>>
    BY <1>2, <1>3, <2>1, Inside DEF FindModule, Continue
  <2>3. t.at = "map" /\ t.for = "load" /\ t.dll = Top(c).dll
    BY <1>2, <2>1, Inside DEF Frame
  <2>4. TopOf(t, stack[c])
    BY <1>2, <2>3 DEF TopOf
  <2>5. \A m \in image : m[1] # t.dll
    BY <1>2, <1>3, <2>3 DEF NodesOf, Elements
  <2>6. ModulesOf(t, stack[c])'
    <3>1. Outer(stack[c])' = Outer(stack[c])
      BY <1>2, <2>2, OuterKept
    <3> QED
      BY <1>1, <1>2, <2>3, <2>5, <3>1 DEF ModulesOf, modules, Unlisted, Unmapped, Unattached
  <2>7. OthersOut(c) /\ Goal(c)' /\ stack' \in [Codec -> Seq(Frame)]
    BY <1>2, <2>2, <2>3, <2>4, <2>6, Goes
  <2>8. Types' /\ Lists'
    BY <1>1, <2>2, <2>7 DEF modules, Safe, Types, Lists
  <2> QED
    BY <2>7, <2>8, OneCodec DEF Safe
<1>4. CASE NodesOf(Top(c).dll) # {}
  <2>1. PICK i \in NodesOf(Top(c).dll) : Return(c, list[i])
    BY <1>4 DEF FindModule
  <2>2. list[i] \in Module
    BY DEF NodesOf, Safe, Types
  <2>3. PICK h \in Module \cup {None} : h = list[i]
    BY <2>2
  <2>4. /\ OthersOut(c) /\ Goal(c)' /\ stack' \in [Codec -> Seq(Frame)]
        /\ phase' \in [Codec -> Phases] /\ handles' \in [Codec -> Seq(Module)]
    <3>1. Return(c, h)
      BY <2>1, <2>3
    <3> QED
      BY <1>1, <1>2, <3>1, Returns DEF modules
  <2>5. Types' /\ Lists'
    BY <1>1, <2>4 DEF modules, Safe, Types, Lists
  <2> QED
    BY <2>4, <2>5, OneCodec DEF Safe
<1> QED
  BY <1>3, <1>4

\* Nothing is mapped, and LoadLibrary returns null.
LEMMA SafeMapFails ==
  ASSUME Safe, Serialized, NEW c \in Codec, MapFails(c)
  PROVE  Safe'
<1>1. At(c, "map") /\ UNCHANGED modules /\ Return(c, None)
  BY DEF MapFails
<1>2. /\ InLoader(c) /\ Top(c).for = "load"
      /\ Elements(list) = image /\ Elements(attached) = image \ Outer(stack[c])
      /\ Outer(stack[c]) \subseteq image
  BY <1>1, AtFind
<1>3. /\ OthersOut(c) /\ Goal(c)' /\ stack' \in [Codec -> Seq(Frame)]
      /\ phase' \in [Codec -> Phases] /\ handles' \in [Codec -> Seq(Module)]
  BY <1>1, <1>2, Returns DEF modules
<1>4. Types' /\ Lists'
  BY <1>1, <1>3 DEF modules, Safe, Types, Lists
<1> QED
  BY <1>3, <1>4, OneCodec DEF Safe

\* The image is mapped: it was not, as no listed module is of this DLL.
LEMMA SafeMapImage ==
  ASSUME Safe, Serialized, NEW c \in Codec, MapImage(c)
  PROVE  Safe'
<1>1. At(c, "map") /\ UNCHANGED <<list, attached, heap, acounter, phase, handles>>
  BY DEF MapImage
<1>2. /\ InLoader(c) /\ Top(c).for = "load" /\ Top(c).dll \in Dll
      /\ Elements(list) = image /\ Elements(attached) = image \ Outer(stack[c])
      /\ Outer(stack[c]) \subseteq image
  BY <1>1, AtFind
<1>3. \A m \in image : m[1] # Top(c).dll
  BY <1>1, <1>2, Inside DEF ModulesOf, At, Top
<1>4. PICK m \in Module : /\ m = <<Top(c).dll, 1>> /\ m \notin image
                          /\ image' = image \cup {m} /\ ContinueWith(c, "push", m)
  <2>1. <<Top(c).dll, 1>> \notin image
    BY <1>3
  <2>2. Base(Top(c).dll) = <<Top(c).dll, 1>> /\ Base(Top(c).dll) \in Module
    BY <1>2, <2>1 DEF Base, Module
  <2> QED
    BY <2>1, <2>2 DEF MapImage, Loadable
<1>5. PICK t \in Frame : t = [Top(c) EXCEPT !.at = "push", !.mod = m]
  <2>1. Top(c) \in Frame
    BY <1>2, Inside
  <2> QED
    BY <2>1 DEF Frame, Locations
<1>6. stack' = [stack EXCEPT ![c] = [@ EXCEPT ![1] = t]]
  <2>1. stack[c][1] = Top(c) /\ stack[c] \in Seq(Frame) /\ stack[c] # <<>>
    BY <1>2, <1>4, <1>5, Inside
  <2> QED
    BY <1>2, <1>4, <1>5, <2>1 DEF ContinueWith
<1>7. t.at = "push" /\ t.for = "load" /\ t.mod = m
  BY <1>2, <1>5, Inside DEF Frame
<1>8. TopOf(t, stack[c])
  BY <1>2, <1>4, <1>7 DEF TopOf
<1>9. ModulesOf(t, stack[c])'
  <2>1. Outer(stack[c])' = Outer(stack[c])
    BY <1>2, <1>6, OuterKept
  <2>2. Elements(list)' = Elements(list) /\ Elements(attached)' = Elements(attached)
    BY <1>1
  <2> QED
    BY <1>2, <1>4, <1>7, <2>1, <2>2 DEF ModulesOf, Unlisted, Unmapped, Unattached
<1>10. OthersOut(c) /\ Goal(c)' /\ stack' \in [Codec -> Seq(Frame)]
  BY <1>1, <1>2, <1>6, <1>7, <1>8, <1>9, Goes
<1>11. Types' /\ Lists'
  BY <1>1, <1>4, <1>10 DEF Safe, Types, Lists
<1> QED
  BY <1>10, <1>11, OneCodec DEF Safe

\* The mapped image is put on the list, whatever else is being attached.
LEMMA SafePushModule ==
  ASSUME Safe, Serialized, NEW c \in Codec, PushModule(c)
  PROVE  Safe'
<1>1. /\ InLoader(c) /\ Top(c).at = "push"
      /\ UNCHANGED <<image, attached, acounter, phase, handles>>
  BY DEF PushModule, At, Top
<1>2. PICK m \in Module : m = Top(c).mod
  BY <1>1, Inside DEF TopOf
<1>3. /\ Top(c).for = "load" /\ m \notin Outer(stack[c]) /\ m \in image
      /\ Elements(list) = image \ {m} /\ Elements(attached) = image \ (Outer(stack[c]) \cup {m})
      /\ Outer(stack[c]) \subseteq image
  BY <1>1, <1>2, Inside DEF TopOf, ModulesOf, Unlisted, Unmapped, Unattached
<1>4. list' = <<m>> \o list /\ heap' = heap \cup {m}
  BY <1>2 DEF PushModule
<1>5. list' \in Seq(Module) /\ Elements(list') = image /\ Injective(list')
  <2>1. list \in Seq(Module) /\ Injective(list) /\ m \notin Elements(list)
    BY <1>3 DEF Safe, Types, Lists
  <2>2. Elements(list') = Elements(list) \cup {m} /\ Injective(list')
    BY <1>4, <2>1, PushedElements
  <2>3. list' \in Seq(Module)
    BY <1>4, <2>1
  <2> QED
    BY <1>3, <2>2, <2>3
<1>6. PICK t \in Frame : t = [Top(c) EXCEPT !.at = "attach"]
  <2>1. Top(c) \in Frame
    BY <1>1, Inside
  <2> QED
    BY <2>1 DEF Frame, Locations
<1>7. stack' = [stack EXCEPT ![c] = [@ EXCEPT ![1] = t]]
  <2>1. stack[c][1] = Top(c) /\ stack[c] \in Seq(Frame) /\ stack[c] # <<>>
    BY <1>1, <1>6, Inside
  <2> QED
    BY <1>1, <1>6, <2>1 DEF PushModule, Continue
<1>8. t.at = "attach" /\ t.for = "load" /\ t.mod = m
  BY <1>1, <1>2, <1>3, <1>6, Inside DEF Frame
<1>9. TopOf(t, stack[c])
  BY <1>3, <1>8 DEF TopOf
<1>10. ModulesOf(t, stack[c])'
  <2>1. Outer(stack[c])' = Outer(stack[c])
    BY <1>1, <1>7, OuterKept
  <2>2. Elements(list)' = image /\ Elements(attached)' = Elements(attached)
    BY <1>1, <1>5
  <2> QED
    BY <1>1, <1>3, <1>8, <2>1, <2>2 DEF ModulesOf, Unlisted, Unmapped, Unattached
<1>11. OthersOut(c) /\ Goal(c)' /\ stack' \in [Codec -> Seq(Frame)]
  BY <1>1, <1>3, <1>7, <1>8, <1>9, <1>10, Goes
<1>12. Lists'
  BY <1>1, <1>3, <1>4, <1>5 DEF Safe, Lists
<1>13. Types'
  BY <1>1, <1>4, <1>5, <1>11 DEF Safe, Types
<1> QED
  BY <1>11, <1>12, <1>13, OneCodec DEF Safe

\* While an entry point runs, its module is the one that is mapped and not attached.
LEMMA AtAttach ==
  ASSUME Safe, NEW c \in Codec, At(c, "attach")
  PROVE  /\ InLoader(c) /\ Top(c).at = "attach" /\ Top(c).for = "load"
         /\ Top(c).mod \in Module /\ Top(c).mod \notin Outer(stack[c]) /\ Top(c).mod \in image
         /\ Elements(list) = image
         /\ Elements(attached) = image \ (Outer(stack[c]) \cup {Top(c).mod})
         /\ Outer(stack[c]) \subseteq image
<1>1. InLoader(c) /\ Top(c).at = "attach"
  BY DEF At, Top
<1>2. TopOf(Top(c), stack[c]) /\ ModulesOf(Top(c), stack[c])
  BY <1>1, Inside
<1>3. Top(c).for = "load" /\ Top(c).mod \in Module /\ Top(c).mod \notin Outer(stack[c])
  BY <1>1, <1>2 DEF TopOf
<1> QED
  BY <1>1, <1>2, <1>3 DEF ModulesOf, Unlisted, Unmapped, Unattached

\* An entry point calls LoadLibraryA: its module joins those that wait.
LEMMA SafeAttachLoadsAnother ==
  ASSUME Safe, Serialized, NEW c \in Codec, AttachLoadsAnother(c)
  PROVE  Safe'
<1>1. At(c, "attach") /\ UNCHANGED <<modules, acounter, phase, handles>>
  BY DEF AttachLoadsAnother
<1>2. PICK s \in Seq(Frame) : s = stack[c] /\ s # <<>> /\ s[1] = Top(c)
  BY <1>1, AtAttach, Inside
<1>3. PICK d \in Dll :
        Call(c, [at |-> "find", for |-> "load", dll |-> d, mod |-> None])
  <2>1. Top(c).mod[1] \in Dll
    BY <1>1, AtAttach DEF Module
  <2>2. AttachLoads[Top(c).mod[1]] \subseteq Dll
    BY <2>1, DllAssumption
  <2> QED
    BY <2>2 DEF AttachLoadsAnother
<1>4. PICK f \in Frame : f = [at |-> "find", for |-> "load", dll |-> d, mod |-> None]
  BY DEF Frame, Locations
<1>5. PICK u : u = <<f>> \o s
  OBVIOUS
<1>6. /\ u \in Seq(Frame) /\ u # <<>> /\ Len(u) = Len(s) + 1 /\ Head(u) = f
      /\ \A i \in 2..Len(u) : u[i] = s[i - 1]
  BY <1>5, Pushed
<1>7. stack'[c] = u /\ \A e \in Codec \ {c} : stack'[e] = stack[e]
  BY <1>2, <1>3, <1>4, <1>5 DEF Call, Safe, Types
<1>8. stack' \in [Codec -> Seq(Frame)]
  BY <1>2, <1>3, <1>4, <1>5, <1>6 DEF Call, Safe, Types
<1>9. Outer(u) = Outer(s) \cup {s[1].mod}
  <2>1. ASSUME NEW i \in 2..Len(u) PROVE u[i].mod \in Outer(s) \cup {s[1].mod}
    <3>1. CASE i = 2
      BY <1>6, <3>1
    <3>2. CASE i > 2
      <4>1. i - 1 \in 2..Len(s) /\ u[i] = s[i - 1]
        BY <1>6, <3>2
      <4> QED
        BY <4>1 DEF Outer
    <3> QED
      BY <3>1, <3>2
  <2>2. ASSUME NEW i \in 2..Len(s) PROVE s[i].mod \in Outer(u)
    <3>1. i + 1 \in 2..Len(u) /\ u[i + 1] = s[i]
      BY <1>6
    <3> QED
      BY <3>1 DEF Outer
  <2>3. s[1].mod \in Outer(u)
    <3>1. 2 \in 2..Len(u) /\ u[2] = s[1]
      BY <1>2, <1>6
    <3> QED
      BY <3>1 DEF Outer
  <2>4. Outer(u) \subseteq Outer(s) \cup {s[1].mod}
    BY <2>1 DEF Outer
  <2>5. Outer(s) \subseteq Outer(u)
    BY <2>2 DEF Outer
  <2> QED
    BY <2>3, <2>4, <2>5
<1>10. CallsOf(u)
  <2>1. CallsOf(s) /\ s[1].mod \in Module \ Outer(s) /\ s[1].at = "attach" /\ s[1].for = "load"
    BY <1>1, <1>2, AtAttach, Inside
  <2>2. ASSUME NEW i \in 2..Len(u)
        PROVE u[i].at = "attach" /\ u[i].for = "load" /\ u[i].mod \in Module
    <3>1. u[i] = s[i - 1] /\ (i - 1 = 1 \/ i - 1 \in 2..Len(s))
      BY <1>6
    <3> QED
      BY <2>1, <3>1 DEF CallsOf
  <2>3. ASSUME NEW i \in 2..Len(u), NEW j \in 2..Len(u), u[i].mod = u[j].mod
        PROVE i = j
    <3>1. /\ u[i] = s[i - 1] /\ (i - 1 = 1 \/ i - 1 \in 2..Len(s))
          /\ u[j] = s[j - 1] /\ (j - 1 = 1 \/ j - 1 \in 2..Len(s))
      BY <1>6
    <3>2. \A k \in 2..Len(s) : s[k].mod # s[1].mod
      BY <2>1 DEF Outer
    <3>3. i - 1 = j - 1
      BY <2>1, <2>3, <3>1, <3>2 DEF CallsOf
    <3> QED
      BY <3>3
  <2> QED
    BY <2>2, <2>3 DEF CallsOf
<1>11. TopOf(f, u)
  BY <1>4 DEF TopOf
<1>12. Top(c)' = f /\ InLoader(c)'
  BY <1>6, <1>7 DEF Top, InLoader
<1>13. ModulesOf(Top(c), stack[c])'
  <2>1. Outer(stack[c])' = Outer(stack[c]) \cup {Top(c).mod}
    BY <1>2, <1>7, <1>9
  <2>2. UNCHANGED <<list, attached, image>>
    BY <1>1 DEF modules
  <2>3. Unlisted(Top(c))' = {} /\ Unmapped(Top(c))' = {} /\ Unattached(Top(c))' = {}
    BY <1>4, <1>12 DEF Unlisted, Unmapped, Unattached
  <2>4. Top(c)'.at = "find"
    BY <1>4, <1>12
  <2> QED
    BY <1>1, <2>1, <2>2, <2>3, <2>4, AtAttach DEF ModulesOf
<1>14. phase'[c] = PhaseOf(f.for)
  BY <1>1, <1>4, AtAttach, Inside
<1>15. Goal(c)'
  BY <1>1, <1>7, <1>10, <1>11, <1>12, <1>13, <1>14 DEF Goal, Safe, Held
<1>16. OthersOut(c)
  BY <1>1, <1>7, AtAttach, Inside DEF OthersOut
<1>17. Types' /\ Lists'
  BY <1>1, <1>8 DEF modules, Safe, Types, Lists
<1> QED
  BY <1>15, <1>16, <1>17, OneCodec DEF Safe

\* An entry point returned TRUE: its module is attached.
LEMMA SafeAttachReturns ==
  ASSUME Safe, Serialized, NEW c \in Codec, AttachReturns(c)
  PROVE  Safe'
<1>1. At(c, "attach") /\ UNCHANGED <<list, image, heap, acounter>>
  BY DEF AttachReturns
<1>2. PICK m \in Module : m = Top(c).mod
  BY <1>1, AtAttach
<1>3. attached' = Append(attached, m)
  BY <1>2 DEF AttachReturns
<1>4. PICK h \in Module \cup {None} : Return(c, h)
  BY <1>2 DEF AttachReturns
<1>5. attached' \in Seq(Module) /\ Injective(attached')
      /\ Elements(attached') = image \ Outer(stack[c])
  <2>1. attached \in Seq(Module) /\ Injective(attached) /\ m \notin Elements(attached)
    BY <1>1, <1>2, AtAttach DEF Safe, Types, Lists
  <2>2. Elements(attached') = Elements(attached) \cup {m} /\ Injective(attached')
    <3>1. Elements(Append(attached, m)) = Elements(attached) \cup {m} /\ Injective(Append(attached, m))
      BY <2>1, AppendedElements
    <3> QED
      BY <1>3, <3>1
  <2>3. attached' \in Seq(Module)
    BY <1>3, <2>1
  <2> QED
    BY <1>1, <1>2, <2>2, <2>3, AtAttach
<1>6. /\ OthersOut(c) /\ Goal(c)' /\ stack' \in [Codec -> Seq(Frame)]
      /\ phase' \in [Codec -> Phases] /\ handles' \in [Codec -> Seq(Module)]
  <2>1. Elements(list)' = image' /\ Elements(attached)' = image' \ Outer(stack[c])
        /\ Outer(stack[c]) \subseteq image' /\ InLoader(c) /\ Top(c).for = "load"
    BY <1>1, <1>5, AtAttach
  <2> QED
    BY <1>4, <2>1, Returns
<1>7. Types' /\ Lists'
  BY <1>1, <1>5, <1>6 DEF Safe, Types, Lists
<1> QED
  BY <1>6, <1>7, OneCodec DEF Safe

\* An entry point returned FALSE: its module is listed, mapped and not attached.
LEMMA SafeAttachFails ==
  ASSUME Safe, Serialized, NEW c \in Codec, AttachFails(c)
  PROVE  Safe'
<1>1. At(c, "attach") /\ UNCHANGED <<modules, acounter, phase, handles>>
  BY DEF AttachFails
<1>2. PICK t \in Frame : t = [Top(c) EXCEPT !.at = "detach"]
  <2>1. Top(c) \in Frame
    BY <1>1, AtAttach, Inside
  <2> QED
    BY <2>1 DEF Frame, Locations
<1>3. stack' = [stack EXCEPT ![c] = [@ EXCEPT ![1] = t]]
  <2>1. stack[c][1] = Top(c) /\ stack[c] \in Seq(Frame) /\ stack[c] # <<>>
    BY <1>1, <1>2, AtAttach, Inside
  <2> QED
    BY <1>1, <1>2, <2>1 DEF AttachFails, Continue
<1>4. t.at = "detach" /\ t.for = "load" /\ t.mod = Top(c).mod
  BY <1>1, <1>2, AtAttach, Inside DEF Frame
<1>5. TopOf(t, stack[c])
  BY <1>1, <1>4, AtAttach DEF TopOf
<1>6. ModulesOf(t, stack[c])'
  <2>1. Outer(stack[c])' = Outer(stack[c])
    BY <1>1, <1>3, AtAttach, OuterKept
  <2>2. UNCHANGED <<list, attached, image>>
    BY <1>1 DEF modules
  <2> QED
    BY <1>1, <1>4, <2>1, <2>2, AtAttach DEF ModulesOf, Unlisted, Unmapped, Unattached
<1>7. OthersOut(c) /\ Goal(c)' /\ stack' \in [Codec -> Seq(Frame)]
  BY <1>1, <1>3, <1>4, <1>5, <1>6, AtAttach, Goes
<1>8. Types' /\ Lists'
  BY <1>1, <1>7 DEF modules, Safe, Types, Lists
<1> QED
  BY <1>7, <1>8, OneCodec DEF Safe

\* A module is told that it goes; one whose attach failed was never attached.
LEMMA SafeDetach ==
  ASSUME Safe, Serialized, NEW c \in Codec, Detach(c)
  PROVE  Safe'
<1>1. /\ InLoader(c) /\ Top(c).at = "detach"
      /\ UNCHANGED <<list, image, heap, acounter, phase, handles>>
  BY DEF Detach, At, Top
<1>2. PICK m \in Module : m = Top(c).mod
  BY <1>1, Inside DEF TopOf
<1>3. /\ m \notin Outer(stack[c]) /\ m \in image /\ Elements(list) = image
      /\ Elements(attached) \ {m} = image \ (Outer(stack[c]) \cup {m})
      /\ Outer(stack[c]) \subseteq image
  <2>1. TopOf(Top(c), stack[c]) /\ ModulesOf(Top(c), stack[c])
    BY <1>1, Inside
  <2>2. m \notin Outer(stack[c])
    BY <1>1, <1>2, <2>1 DEF TopOf
  <2> QED
    BY <1>1, <1>2, <2>1, <2>2 DEF ModulesOf, Unlisted, Unmapped, Unattached
<1>4. attached' \in Seq(Module) /\ Injective(attached') /\ Elements(attached') = Elements(attached) \ {m}
  <2>1. attached \in Seq(Module) /\ Injective(attached)
    BY DEF Safe, Types, Lists
  <2>2. attached' = Without(attached, m)
    BY <1>2 DEF Detach
  <2> QED
    BY <2>1, <2>2, WithoutOne
<1>5. PICK t \in Frame : t = [Top(c) EXCEPT !.at = "unload"]
  <2>1. Top(c) \in Frame
    BY <1>1, Inside
  <2> QED
    BY <2>1 DEF Frame, Locations
<1>6. stack' = [stack EXCEPT ![c] = [@ EXCEPT ![1] = t]]
  <2>1. stack[c][1] = Top(c) /\ stack[c] \in Seq(Frame) /\ stack[c] # <<>>
    BY <1>1, <1>5, Inside
  <2> QED
    BY <1>1, <1>5, <2>1 DEF Detach, Continue
<1>7. t.at = "unload" /\ t.for = Top(c).for /\ t.mod = m
  BY <1>1, <1>2, <1>5, Inside DEF Frame
<1>8. TopOf(t, stack[c])
  BY <1>1, <1>3, <1>7, Inside DEF TopOf
<1>9. ModulesOf(t, stack[c])'
  <2>1. Outer(stack[c])' = Outer(stack[c])
    BY <1>1, <1>6, OuterKept
  <2>2. Elements(list)' = image /\ Elements(attached)' = image \ (Outer(stack[c]) \cup {m})
    BY <1>1, <1>3, <1>4
  <2> QED
    BY <1>1, <1>3, <1>7, <2>1, <2>2 DEF ModulesOf, Unlisted, Unmapped, Unattached
<1>10. OthersOut(c) /\ Goal(c)' /\ stack' \in [Codec -> Seq(Frame)]
  BY <1>1, <1>6, <1>7, <1>8, <1>9, Goes
<1>11. Types' /\ Lists'
  BY <1>1, <1>4, <1>10 DEF Safe, Types, Lists
<1> QED
  BY <1>10, <1>11, OneCodec DEF Safe

\* The image of a module goes while it is still listed.
LEMMA SafeUnload ==
  ASSUME Safe, Serialized, NEW c \in Codec, Unload(c)
  PROVE  Safe'
<1>1. /\ InLoader(c) /\ Top(c).at = "unload"
      /\ UNCHANGED <<list, attached, heap, acounter, phase, handles>>
  BY DEF Unload, At, Top
<1>2. PICK m \in Module : m = Top(c).mod
  BY <1>1, Inside DEF TopOf
<1>3. /\ m \notin Outer(stack[c]) /\ m \in image /\ Elements(list) = image
      /\ Elements(attached) = image \ (Outer(stack[c]) \cup {m})
      /\ Outer(stack[c]) \subseteq image
  <2>1. TopOf(Top(c), stack[c]) /\ ModulesOf(Top(c), stack[c])
    BY <1>1, Inside
  <2>2. m \notin Outer(stack[c])
    BY <1>1, <1>2, <2>1 DEF TopOf
  <2> QED
    BY <1>1, <1>2, <2>1, <2>2 DEF ModulesOf, Unlisted, Unmapped, Unattached
<1>4. image' = image \ {m}
  BY <1>2 DEF Unload
<1>5. PICK t \in Frame : t = [Top(c) EXCEPT !.at = "remove"]
  <2>1. Top(c) \in Frame
    BY <1>1, Inside
  <2> QED
    BY <2>1 DEF Frame, Locations
<1>6. stack' = [stack EXCEPT ![c] = [@ EXCEPT ![1] = t]]
  <2>1. stack[c][1] = Top(c) /\ stack[c] \in Seq(Frame) /\ stack[c] # <<>>
    BY <1>1, <1>5, Inside
  <2> QED
    BY <1>1, <1>5, <2>1 DEF Unload, Continue
<1>7. t.at = "remove" /\ t.for = Top(c).for /\ t.mod = m
  BY <1>1, <1>2, <1>5, Inside DEF Frame
<1>8. TopOf(t, stack[c])
  BY <1>1, <1>3, <1>7, Inside DEF TopOf
<1>9. ModulesOf(t, stack[c])'
  <2>1. Outer(stack[c])' = Outer(stack[c])
    BY <1>1, <1>6, OuterKept
  <2>2. Elements(list)' = Elements(list) /\ Elements(attached)' = Elements(attached)
    BY <1>1
  <2> QED
    BY <1>3, <1>4, <1>7, <2>1, <2>2 DEF ModulesOf, Unlisted, Unmapped, Unattached
<1>10. OthersOut(c) /\ Goal(c)' /\ stack' \in [Codec -> Seq(Frame)]
  BY <1>1, <1>6, <1>7, <1>8, <1>9, Goes
<1>11. Types' /\ Lists'
  BY <1>1, <1>4, <1>10 DEF Safe, Types, Lists
<1> QED
  BY <1>10, <1>11, OneCodec DEF Safe

\* A call that is alone returns: the codec is in no call.
LEMMA ReturnsAlone ==
  ASSUME Safe, NEW c \in Codec, InLoader(c), Top(c).for # "load",
         stack' = [stack EXCEPT ![c] = Tail(@)]
  PROVE  /\ stack' \in [Codec -> Seq(Frame)] /\ stack'[c] = <<>> /\ Outer(stack[c]) = {}
         /\ \A d \in Codec \ {c} : stack'[d] = stack[d] /\ ~InLoader(d)
<1>1. stack[c] \in Seq(Frame) /\ stack[c] # <<>> /\ Len(stack[c]) = 1
  BY Inside DEF TopOf
<1>2. Tail(stack[c]) = <<>>
  BY <1>1, TailOfOne
<1>3. Outer(stack[c]) = {}
  BY <1>1 DEF Outer
<1>4. stack' \in [Codec -> Seq(Frame)] /\ stack'[c] = <<>>
  <2>1. <<>> \in Seq(Frame)
    OBVIOUS
  <2>2. stack' = [stack EXCEPT ![c] = <<>>]
    BY <1>2
  <2> QED
    BY <2>1, <2>2 DEF Safe, Types
<1> QED
  BY <1>3, <1>4, Inside DEF Safe, Types

\* The module is off the list; the heap is collected only when the list is empty.
LEMMA SafeRemove ==
  ASSUME Safe, Serialized, NEW c \in Codec, Remove(c)
  PROVE  Safe'
<1>1. /\ InLoader(c) /\ Top(c).at = "remove" /\ AfterRemove(c)
      /\ UNCHANGED <<image, attached, acounter>>
  BY DEF Remove, At, Top
<1>2. PICK m \in Module : m = Top(c).mod
  BY <1>1, Inside DEF TopOf
<1>3. /\ m \notin image /\ Elements(list) = image \cup {m}
      /\ Elements(attached) = image \ Outer(stack[c]) /\ Outer(stack[c]) \subseteq image
  BY <1>1, <1>2, Inside DEF TopOf, ModulesOf, Unlisted, Unmapped, Unattached
<1>4. list' \in Seq(Module) /\ Injective(list') /\ Elements(list') = image
  <2>1. list \in Seq(Module) /\ Injective(list)
    BY DEF Safe, Types, Lists
  <2>2. CASE Len(list) = 1
    <3>1. list' = <<>>
      BY <2>2 DEF Remove, ListWithout
    <3>2. Elements(list) = {list[1]}
      BY <2>2 DEF Elements
    <3>3. image = {}
      BY <1>3, <3>2
    <3> QED
      BY <3>1, <3>3 DEF Injective, Elements
  <2>3. CASE Len(list) # 1
    <3>1. list' = Without(list, m)
      BY <1>2, <2>3 DEF Remove, ListWithout
    <3>2. Without(list, m) \in Seq(Module) /\ Injective(Without(list, m))
          /\ Elements(Without(list, m)) = Elements(list) \ {m}
      BY <2>1, WithoutOne
    <3> QED
      BY <1>3, <3>1, <3>2
  <2> QED
    BY <2>2, <2>3
<1>5. heap' \subseteq heap /\ Elements(list') \subseteq heap'
  <2>1. CASE list' = <<>> /\ Top(c).for # "load"
    BY <2>1 DEF Remove, Elements
  <2>2. CASE ~(list' = <<>> /\ Top(c).for # "load")
    <3>1. heap' = heap
      BY <2>2 DEF Remove
    <3> QED
      BY <1>3, <1>4, <3>1 DEF Safe, Lists
  <2> QED
    BY <2>1, <2>2
<1>6. Lists'
  BY <1>1, <1>4, <1>5 DEF Safe, Lists
<1>7. CASE Top(c).for = "load"
  <2>1. PICK h \in Module \cup {None} : h = None /\ Return(c, h)
    BY <1>1, <1>7 DEF AfterRemove
  <2>2. /\ OthersOut(c) /\ Goal(c)' /\ stack' \in [Codec -> Seq(Frame)]
        /\ phase' \in [Codec -> Phases] /\ handles' \in [Codec -> Seq(Module)]
    <3>1. Elements(list)' = image' /\ Elements(attached)' = image' \ Outer(stack[c])
          /\ Outer(stack[c]) \subseteq image'
      BY <1>1, <1>3, <1>4
    <3> QED
      BY <1>1, <1>7, <2>1, <3>1, Returns
  <2>3. Types'
    BY <1>1, <1>4, <1>5, <2>2 DEF Safe, Types
  <2> QED
    BY <1>6, <2>2, <2>3, OneCodec DEF Safe
<1>8. CASE Top(c).for = "free"
  <2>1. stack' = [stack EXCEPT ![c] = Tail(@)] /\ ClosedTo(c, AfterFree(c))
    BY <1>1, <1>8 DEF AfterRemove
  <2>2. /\ stack' \in [Codec -> Seq(Frame)] /\ stack'[c] = <<>> /\ Outer(stack[c]) = {}
        /\ \A d \in Codec \ {c} : stack'[d] = stack[d] /\ ~InLoader(d)
    BY <1>1, <1>8, <2>1, ReturnsAlone
  <2>3. AfterFree(c) \in {"closed", "closing"} /\ (AfterFree(c) = "closing" => Counted(c))
    BY DEF AfterFree
  <2>4. PICK p \in {"closed", "closing"} : p = AfterFree(c)
    BY <2>3
  <2>5. /\ OthersOut(c) /\ Goal(c)'
        /\ phase' \in [Codec -> Phases] /\ handles' \in [Codec -> Seq(Module)]
    <3>1. Elements(list)' = image' /\ Elements(attached)' = image'
      BY <1>1, <1>3, <1>4, <2>2
    <3>2. ClosedTo(c, p) /\ (p = "closing" => Counted(c))
      BY <2>1, <2>3, <2>4
    <3> QED
      BY <2>2, <3>1, <3>2, Leaves
  <2>6. Types'
    BY <1>1, <1>4, <1>5, <2>2, <2>5 DEF Safe, Types
  <2> QED
    BY <1>6, <2>5, <2>6, OneCodec DEF Safe
<1>9. CASE Top(c).for = "release"
  <2>1. Continue(c, "loop") /\ UNCHANGED <<phase, handles>>
    BY <1>1, <1>9 DEF AfterRemove
  <2>2. PICK t \in Frame : t = [Top(c) EXCEPT !.at = "loop"]
    <3>1. Top(c) \in Frame
      BY <1>1, Inside
    <3> QED
      BY <3>1 DEF Frame, Locations
  <2>3. stack' = [stack EXCEPT ![c] = [@ EXCEPT ![1] = t]]
    <3>1. stack[c][1] = Top(c) /\ stack[c] \in Seq(Frame) /\ stack[c] # <<>>
      BY <1>1, <2>1, <2>2, Inside
    <3> QED
      BY <1>1, <2>1, <2>2, <3>1 DEF Continue
  <2>4. t.at = "loop" /\ t.for = "release"
    BY <1>1, <1>9, <2>2, Inside DEF Frame
  <2>5. TopOf(t, stack[c])
    BY <1>1, <1>9, <2>4, Inside DEF TopOf
  <2>6. ModulesOf(t, stack[c])'
    <3>1. Outer(stack[c])' = Outer(stack[c])
      BY <1>1, <2>3, OuterKept
    <3>2. Elements(list)' = image /\ Elements(attached)' = Elements(attached) /\ image' = image
      BY <1>1, <1>4
    <3> QED
      BY <1>3, <2>4, <3>1, <3>2 DEF ModulesOf, Unlisted, Unmapped, Unattached
  <2>7. OthersOut(c) /\ Goal(c)' /\ stack' \in [Codec -> Seq(Frame)]
    BY <1>1, <1>9, <2>1, <2>3, <2>4, <2>5, <2>6, Goes
  <2>8. Types'
    BY <1>1, <1>4, <1>5, <2>1, <2>7 DEF Safe, Types
  <2> QED
    BY <1>6, <2>7, <2>8, OneCodec DEF Safe
<1> QED
  BY <1>1, <1>7, <1>8, <1>9, Inside DEF Frame

\* A wrapper frees its DLL, which may be off the list already.
LEMMA SafeFreeLibrary ==
  ASSUME Safe, Serialized, NEW c \in Codec, FreeLibrary(c)
  PROVE  Safe'
<1>1. phase[c] = "open" /\ FreesItsDll(c) /\ MayCall(c) /\ UNCHANGED <<modules, acounter>>
  BY DEF FreeLibrary
<1>2. /\ stack[c] = <<>> /\ \A e \in Codec : ~InLoader(e)
      /\ Elements(list) = image /\ Elements(attached) = image
  BY <1>1, Outside
<1> DEFINE h == handles[c][Len(handles[c])]
<1>3. CASE LookupHMODULE(h)
  <2>1. PICK m \in Module : m = h /\ m \in image
    BY <1>2, <1>3 DEF LookupHMODULE, Safe, Types
  <2>2. PICK t \in Frame : t = [at |-> "detach", for |-> "free", dll |-> None, mod |-> m]
    BY DEF Frame, Locations
  <2>3. Call(c, t) /\ UNCHANGED <<phase, handles>>
    BY <1>3, <2>1, <2>2 DEF FreeLibrary
  <2>4. phase[c] = PhaseOf(t.for)
    BY <1>1, <2>2 DEF PhaseOf
  <2>5. TopOf(t, <<t>>)
    BY <2>2 DEF TopOf, Outer
  <2>6. ModulesOf(t, <<t>>)'
    BY <1>1, <1>2, <2>1, <2>2 DEF modules, ModulesOf, Outer, Unlisted, Unmapped, Unattached
  <2>7. OthersOut(c) /\ Goal(c)' /\ stack' \in [Codec -> Seq(Frame)]
    BY <1>2, <2>3, <2>4, <2>5, <2>6, Enters
  <2>8. Types' /\ Lists'
    BY <1>1, <2>3, <2>7 DEF modules, Safe, Types, Lists
  <2> QED
    BY <2>7, <2>8, OneCodec DEF Safe
<1>4. CASE ~LookupHMODULE(h)
  <2>1. ClosedTo(c, AfterFree(c)) /\ UNCHANGED stack
    BY <1>4 DEF FreeLibrary
  <2>2. PICK p \in {"closed", "closing"} : p = AfterFree(c) /\ (p = "closing" => Counted(c))
    BY DEF AfterFree
  <2>3. /\ OthersOut(c) /\ Goal(c)'
        /\ phase' \in [Codec -> Phases] /\ handles' \in [Codec -> Seq(Module)]
    <3>1. Elements(list)' = image' /\ Elements(attached)' = image'
      BY <1>1, <1>2 DEF modules
    <3>2. stack' \in [Codec -> Seq(Frame)] /\ stack'[c] = <<>>
      BY <1>2, <2>1 DEF Safe, Types
    <3> QED
      BY <1>2, <2>1, <2>2, <3>1, <3>2, Leaves
  <2>4. Types' /\ Lists'
    BY <1>1, <2>1, <2>3 DEF modules, Safe, Types, Lists
  <2> QED
    BY <2>3, <2>4, OneCodec DEF Safe
<1> QED
  BY <1>3, <1>4

\* The release that counts down to zero starts to unload; the others just close.
LEMMA SafeCodecRelease ==
  ASSUME Safe, Serialized, NEW c \in Codec, CodecRelease(c)
  PROVE  Safe'
<1>1. phase[c] = "closing" /\ MayCall(c) /\ UNCHANGED <<modules, handles>> /\ handles[c] = <<>>
  BY DEF CodecRelease, Safe, Held
<1>2. /\ stack[c] = <<>> /\ \A e \in Codec : ~InLoader(e)
      /\ Elements(list) = image /\ Elements(attached) = image
  BY <1>1, Outside
<1>3. CASE acounter' = 0
  <2>1. PICK t \in Frame : t = [at |-> "loop", for |-> "release", dll |-> None, mod |-> None]
    BY DEF Frame, Locations
  <2>2. Call(c, t) /\ UNCHANGED <<phase, handles>>
    BY <1>3, <2>1 DEF CodecRelease
  <2>3. phase[c] = PhaseOf(t.for)
    BY <1>1, <2>1 DEF PhaseOf
  <2>4. TopOf(t, <<t>>)
    BY <2>1 DEF TopOf
  <2>5. ModulesOf(t, <<t>>)'
    BY <1>1, <1>2, <2>1 DEF modules, ModulesOf, Outer, Unlisted, Unmapped, Unattached
  <2>6. OthersOut(c) /\ Goal(c)' /\ stack' \in [Codec -> Seq(Frame)]
    BY <1>2, <2>2, <2>3, <2>4, <2>5, Enters
  <2>7. Types' /\ Lists'
    BY <1>1, <2>2, <2>6 DEF modules, Safe, Types, Lists
  <2> QED
    BY <2>6, <2>7, OneCodec DEF Safe
<1>4. CASE acounter' # 0
  <2>1. phase' = [phase EXCEPT ![c] = "closed"] /\ UNCHANGED stack
    BY <1>4 DEF CodecRelease
  <2>2. ClosedTo(c, "closed")
    BY <1>1, <2>1 DEF ClosedTo, Safe, Types
  <2>3. /\ OthersOut(c) /\ Goal(c)'
        /\ phase' \in [Codec -> Phases] /\ handles' \in [Codec -> Seq(Module)]
    <3>1. Elements(list)' = image' /\ Elements(attached)' = image'
      BY <1>1, <1>2 DEF modules
    <3>2. stack' \in [Codec -> Seq(Frame)] /\ stack'[c] = <<>>
      BY <1>2, <2>1 DEF Safe, Types
    <3> QED
      BY <1>2, <2>1, <2>2, <3>1, <3>2, Leaves
  <2>4. Types' /\ Lists'
    BY <1>1, <2>1, <2>3 DEF modules, Safe, Types, Lists
  <2> QED
    BY <2>3, <2>4, OneCodec DEF Safe
<1> QED
  BY <1>3, <1>4

\* The last release takes the newest module, or ends with an empty list.
LEMMA SafeReleaseNext ==
  ASSUME Safe, Serialized, NEW c \in Codec, ReleaseNext(c)
  PROVE  Safe'
<1>1. /\ InLoader(c) /\ Top(c).at = "loop" /\ Top(c).for = "release"
      /\ UNCHANGED <<modules, acounter, handles>>
  <2>1. InLoader(c) /\ Top(c).at = "loop" /\ UNCHANGED <<modules, acounter, handles>>
    BY DEF ReleaseNext, At, Top
  <2> QED
    BY <2>1, Inside DEF TopOf
<1>2. /\ Elements(list) = image /\ Elements(attached) = image \ Outer(stack[c])
      /\ Outer(stack[c]) \subseteq image
  BY <1>1, Inside DEF ModulesOf, Unlisted, Unmapped, Unattached
<1>3. handles[c] = <<>>
  BY <1>1, Inside DEF PhaseOf, Safe, Held
<1>4. CASE list = <<>>
  <2>1. stack' = [stack EXCEPT ![c] = Tail(@)] /\ phase' = [phase EXCEPT ![c] = "closed"]
    BY <1>4 DEF ReleaseNext
  <2>2. /\ stack' \in [Codec -> Seq(Frame)] /\ stack'[c] = <<>> /\ Outer(stack[c]) = {}
        /\ \A d \in Codec \ {c} : stack'[d] = stack[d] /\ ~InLoader(d)
    BY <1>1, <2>1, ReturnsAlone
  <2>3. ClosedTo(c, "closed")
    BY <1>1, <1>3, <2>1 DEF ClosedTo, Safe, Types
  <2>4. /\ OthersOut(c) /\ Goal(c)'
        /\ phase' \in [Codec -> Phases] /\ handles' \in [Codec -> Seq(Module)]
    <3>1. Elements(list)' = image' /\ Elements(attached)' = image'
      BY <1>1, <1>2, <2>2 DEF modules
    <3> QED
      BY <2>2, <2>3, <3>1, Leaves
  <2>5. Types' /\ Lists'
    BY <1>1, <2>2, <2>4 DEF modules, Safe, Types, Lists
  <2> QED
    BY <2>4, <2>5, OneCodec DEF Safe
<1>5. CASE list # <<>>
  <2>1. PICK m \in Module : m = Head(list) /\ m \in image
    <3>1. list \in Seq(Module) /\ 1 \in 1..Len(list) /\ Head(list) = list[1]
      BY <1>5 DEF Safe, Types
    <3> QED
      BY <1>2, <3>1 DEF Elements
  <2>2. ContinueWith(c, "detach", m) /\ UNCHANGED phase
    BY <1>5, <2>1 DEF ReleaseNext
  <2>3. PICK t \in Frame : t = [Top(c) EXCEPT !.at = "detach", !.mod = m]
    <3>1. Top(c) \in Frame
      BY <1>1, Inside
    <3> QED
      BY <3>1 DEF Frame, Locations
  <2>4. stack' = [stack EXCEPT ![c] = [@ EXCEPT ![1] = t]]
    <3>1. stack[c][1] = Top(c) /\ stack[c] \in Seq(Frame) /\ stack[c] # <<>>
      BY <1>1, <2>2, <2>3, Inside
    <3> QED
      BY <1>1, <2>2, <2>3, <3>1 DEF ContinueWith
  <2>5. t.at = "detach" /\ t.for = "release" /\ t.mod = m
    BY <1>1, <2>3, Inside DEF Frame
  <2>6. Len(stack[c]) = 1 /\ Outer(stack[c]) = {}
    <3>1. Len(stack[c]) = 1
      BY <1>1, Inside DEF TopOf
    <3> QED
      BY <3>1 DEF Outer
  <2>7. TopOf(t, stack[c])
    BY <2>1, <2>5, <2>6 DEF TopOf
  <2>8. ModulesOf(t, stack[c])'
    <3>1. Outer(stack[c])' = Outer(stack[c])
      BY <1>1, <2>4, OuterKept
    <3> QED
      BY <1>1, <1>2, <2>1, <2>5, <3>1 DEF modules, ModulesOf, Unlisted, Unmapped, Unattached
  <2>9. OthersOut(c) /\ Goal(c)' /\ stack' \in [Codec -> Seq(Frame)]
    BY <1>1, <2>2, <2>4, <2>5, <2>7, <2>8, Goes
  <2>10. Types' /\ Lists'
    BY <1>1, <2>2, <2>9 DEF modules, Safe, Types, Lists
  <2> QED
    BY <2>9, <2>10, OneCodec DEF Safe
<1> QED
  BY <1>4, <1>5

\* Nothing is loaded at first.
LEMMA SafeInit == Init => Safe
<1> SUFFICES ASSUME Init PROVE Safe
  OBVIOUS
<1>1. Types
  BY DEF Init, Types, Phases
<1>2. \A c \in Codec : ~InLoader(c)
  BY DEF Init, InLoader
<1>3. Alone /\ Calls
  BY <1>2 DEF Alone, Calls
<1>4. Held
  BY DEF Init, Held
<1>5. Modules /\ Lists
  BY <1>2 DEF Init, Modules, Lists, Elements, Injective
<1> QED
  BY <1>1, <1>3, <1>4, <1>5 DEF Safe

\* Every step keeps the invariant, but for the count.
LEMMA SafeStep ==
  ASSUME Safe, Serialized, [Next]_vars
  PROVE  Safe'
<1>1. ASSUME NEW c \in Codec, WrapperStep(c)
      PROVE  Safe'
  BY <1>1, SafeOpenCodec, SafeLoadLibrary, SafeFreeLibrary, SafeCloseDmo, SafeCodecRelease
     DEF WrapperStep
<1>2. ASSUME NEW c \in Codec, LoaderStep(c)
      PROVE  Safe'
  BY <1>2, SafeFindModule, SafeMapFails, SafeMapImage, SafePushModule, SafeAttachReturns,
     SafeAttachFails, SafeDetach, SafeUnload, SafeRemove, SafeReleaseNext
     DEF LoaderStep
<1>3. CASE UNCHANGED vars
  <2>1. Types' /\ Alone' /\ Held' /\ Lists'
    BY <1>3 DEF vars, Safe, Types, Alone, InLoader, Held, Lists
  <2>2. Calls' /\ Modules'
    BY <1>3 DEF vars, Safe, Calls, Modules, InLoader, Top, NoCall, ModulesOf
  <2> QED
    BY <2>1, <2>2 DEF Safe
<1> QED
  BY <1>1, <1>2, <1>3, SafeAttachLoadsAnother DEF Next

-----------------------------------------------------------------------------
(* The count of open codecs *)

Counts(c) == phase[c] # "closed" /\ ~InRelease(c)

\* What every step but the counting ones does: which codecs count stays, and a release
\* goes on until nothing is mapped.
Kept(c) ==
  /\ UNCHANGED acounter
  /\ \A d \in Codec \ {c} : phase'[d] = phase[d] /\ stack'[d] = stack[d]
  /\ Counted(c) => (Counts(c)' <=> Counts(c))
  /\ InRelease(c) => InRelease(c)' \/ image' = {}

\* A call that goes on is for what it was for.
LEMMA ContinueFor ==
  ASSUME Safe, NEW c \in Codec, InLoader(c), NEW l \in Locations, Continue(c, l)
  PROVE  \E t \in Frame :
           stack' = [stack EXCEPT ![c] = [@ EXCEPT ![1] = t]] /\ t.for = Top(c).for
<1>1. PICK t \in Frame : t = [Top(c) EXCEPT !.at = l]
  BY Inside DEF Frame
<1>2. t.for = Top(c).for
  BY <1>1, Inside DEF Frame
<1>3. stack' = [stack EXCEPT ![c] = [@ EXCEPT ![1] = t]]
  <2>1. stack[c][1] = Top(c) /\ stack[c] \in Seq(Frame) /\ stack[c] # <<>>
    BY <1>1, Inside
  <2> QED
    BY <1>1, <2>1 DEF Continue
<1> QED
  BY <1>2, <1>3

\* So it is when it goes on with another module.
LEMMA ContinueWithFor ==
  ASSUME Safe, NEW c \in Codec, InLoader(c), NEW l \in Locations, NEW m \in Module,
         ContinueWith(c, l, m)
  PROVE  \E t \in Frame :
           stack' = [stack EXCEPT ![c] = [@ EXCEPT ![1] = t]] /\ t.for = Top(c).for
<1>1. PICK t \in Frame : t = [Top(c) EXCEPT !.at = l, !.mod = m]
  BY Inside DEF Frame
<1>2. t.for = Top(c).for
  BY <1>1, Inside DEF Frame
<1>3. stack' = [stack EXCEPT ![c] = [@ EXCEPT ![1] = t]]
  <2>1. stack[c][1] = Top(c) /\ stack[c] \in Seq(Frame) /\ stack[c] # <<>>
    BY <1>1, Inside
  <2> QED
    BY <1>1, <2>1 DEF ContinueWith
<1> QED
  BY <1>2, <1>3

\* A call that goes on is a release if and only if it was one.
LEMMA ForKept ==
  ASSUME Safe, NEW c \in Codec, InLoader(c), NEW l \in Locations,
         Continue(c, l) \/ \E m \in Module : ContinueWith(c, l, m)
  PROVE  /\ InRelease(c)' = InRelease(c)
         /\ \A d \in Codec \ {c} : stack'[d] = stack[d]
<1>1. PICK t \in Frame :
        stack' = [stack EXCEPT ![c] = [@ EXCEPT ![1] = t]] /\ t.for = Top(c).for
  BY ContinueFor, ContinueWithFor
<1>2. stack[c] \in Seq(Frame) /\ stack[c] # <<>>
  BY Inside
<1>3. stack'[c] = [stack[c] EXCEPT ![1] = t] /\ \A d \in Codec \ {c} : stack'[d] = stack[d]
  BY <1>1 DEF Safe, Types
<1>4. stack'[c] # <<>> /\ Head(stack'[c]) = t
  BY <1>2, <1>3, Replaced
<1> QED
  BY <1>1, <1>3, <1>4 DEF InRelease, InLoader, Top

\* A LoadLibrary that returns leaves a counted codec open, or with its release to come.
LEMMA ReturnKept ==
  ASSUME Safe, NEW c \in Codec, InLoader(c), Top(c).for = "load",
         NEW h \in Module \cup {None}, Return(c, h), UNCHANGED acounter
  PROVE  Kept(c)
<1>1. /\ stack[c] \in Seq(Frame) /\ stack[c] # <<>> /\ CallsOf(stack[c])
      /\ phase[c] = "opening" /\ ~InRelease(c)
  BY Inside DEF PhaseOf, InRelease
<1>2. stack'[c] = Tail(stack[c]) /\ \A d \in Codec \ {c} : stack'[d] = stack[d]
  BY DEF Safe, Types, Return
<1>3. \A d \in Codec \ {c} : phase'[d] = phase[d]
  BY DEF Safe, Types, Return
<1>4. Counted(c) => phase'[c] # "closed"
  BY <1>1 DEF Safe, Types, Return
<1>5. ~InRelease(c)'
  <2>1. CASE Tail(stack[c]) = <<>>
    BY <1>2, <2>1 DEF InRelease, InLoader
  <2>2. CASE Tail(stack[c]) # <<>>
    <3>1. Head(Tail(stack[c])) = stack[c][2]
      BY <1>1, <2>2, Popped
    <3>2. 2 \in 2..Len(stack[c])
      <4>1. Len(stack[c]) \in Nat /\ (Len(stack[c]) > 1 \/ Len(stack[c]) = 1)
        BY <1>1, LengthOf, LenProperties
      <4>2. Len(stack[c]) # 1
        BY <1>1, <2>2, TailOfOne
      <4> QED
        BY <4>1, <4>2
    <3>3. stack[c][2].for = "load"
      BY <1>1, <3>2 DEF CallsOf
    <3> QED
      BY <1>2, <3>1, <3>3 DEF InRelease, Top
  <2> QED
    BY <2>1, <2>2
<1> QED
  BY <1>1, <1>2, <1>3, <1>4, <1>5 DEF Kept, Counts

\* A call that goes on leaves the codecs that count as they are.
LEMMA GoesKept ==
  ASSUME Safe, NEW c \in Codec, InLoader(c), NEW l \in Locations,
         Continue(c, l) \/ \E m \in Module : ContinueWith(c, l, m),
         UNCHANGED <<acounter, phase>>
  PROVE  Kept(c)
<1>1. InRelease(c)' = InRelease(c) /\ \A d \in Codec \ {c} : stack'[d] = stack[d]
  BY ForKept
<1> QED
  BY <1>1 DEF Kept, Counts

\* A call begins, of another kind than a release.
LEMMA CallKept ==
  ASSUME Safe, NEW c \in Codec, ~InRelease(c), NEW t \in Frame, t.for # "release",
         Call(c, t), UNCHANGED <<acounter, phase>>
  PROVE  Kept(c)
<1>1. stack[c] \in Seq(Frame) /\ stack'[c] = <<t>> \o stack[c]
      /\ \A d \in Codec \ {c} : stack'[d] = stack[d]
  BY DEF Safe, Types, Call
<1>2. Head(stack'[c]) = t
  BY <1>1, Pushed
<1>3. ~InRelease(c)'
  BY <1>2 DEF InRelease, Top
<1> QED
  BY <1>1, <1>3 DEF Kept, Counts

\* The wrappers' calls, but for the counting ones, leave the codecs that count as they are.
LEMMA WrapperKept ==
  ASSUME Safe, Serialized, NEW c \in Codec,
         LoadLibrary(c) \/ FreeLibrary(c) \/ CloseDmo(c) \/ AttachLoadsAnother(c)
  PROVE  Kept(c)
<1>1. CASE LoadLibrary(c)
  <2>1. PICK d : d = Needs[c][Len(handles[c]) + 1]
    OBVIOUS
  <2>2. Len(handles[c]) < Len(Needs[c]) /\ Len(handles[c]) \in Nat /\ Needs[c] \in Seq(Dll)
    BY <1>1, CodecAssumption DEF LoadLibrary, Safe, Held, Types
  <2>3. d \in Dll
    BY <2>1, <2>2
  <2>4. PICK t \in Frame : t = [at |-> "find", for |-> "load", dll |-> d, mod |-> None]
    BY <2>3 DEF Frame, Locations
  <2>5. ~InRelease(c)
    BY <1>1 DEF LoadLibrary, MayCall, InRelease
  <2>6. Call(c, t) /\ t.for # "release" /\ UNCHANGED <<acounter, phase, image>>
    BY <1>1, <2>1, <2>4 DEF LoadLibrary, modules
  <2> QED
    BY <2>5, <2>6, CallKept
<1>2. CASE AttachLoadsAnother(c)
  <2>1. At(c, "attach")
    BY <1>2 DEF AttachLoadsAnother
  <2>2. PICK d \in Dll :
          Call(c, [at |-> "find", for |-> "load", dll |-> d, mod |-> None])
    <3>1. Top(c).mod[1] \in Dll
      BY <2>1, AtAttach DEF Module
    <3>2. AttachLoads[Top(c).mod[1]] \subseteq Dll
      BY <3>1, DllAssumption
    <3> QED
      BY <1>2, <3>2 DEF AttachLoadsAnother
  <2>3. PICK t \in Frame : t = [at |-> "find", for |-> "load", dll |-> d, mod |-> None]
    BY DEF Frame, Locations
  <2>4. ~InRelease(c)
    BY <2>1, AtAttach DEF InRelease
  <2>5. Call(c, t) /\ t.for # "release" /\ UNCHANGED <<acounter, phase, image>>
    BY <1>2, <2>2, <2>3 DEF AttachLoadsAnother, modules
  <2> QED
    BY <2>4, <2>5, CallKept
<1>3. CASE FreeLibrary(c)
  <2>1. /\ ~InRelease(c) /\ phase[c] = "open" /\ stack[c] = <<>>
        /\ UNCHANGED <<acounter, image>> /\ \A e \in Codec : ~InLoader(e)
        /\ Elements(list) = image
    BY <1>3, Outside DEF FreeLibrary, MayCall, InRelease, modules
  <2>2. PICK h : h = handles[c][Len(handles[c])]
    OBVIOUS
  <2>3. CASE LookupHMODULE(h)
    <3>1. h \in Module
      BY <2>1, <2>3 DEF LookupHMODULE, Safe, Types
    <3>2. PICK t \in Frame : t = [at |-> "detach", for |-> "free", dll |-> None, mod |-> h]
      BY <3>1 DEF Frame, Locations
    <3>3. Call(c, t) /\ UNCHANGED phase /\ t.for # "release"
      BY <1>3, <2>2, <2>3, <3>2 DEF FreeLibrary
    <3> QED
      BY <2>1, <3>3, CallKept
  <2>4. CASE ~LookupHMODULE(h)
    <3>1. phase' = [phase EXCEPT ![c] = AfterFree(c)] /\ UNCHANGED stack
      BY <1>3, <2>2, <2>4 DEF FreeLibrary, ClosedTo
    <3>2. Counted(c) => phase'[c] = "closing"
      BY <3>1 DEF AfterFree, Safe, Types
    <3>3. \A d \in Codec \ {c} : phase'[d] = phase[d]
      BY <3>1 DEF Safe, Types
    <3>4. ~InRelease(c)'
      BY <2>1, <3>1 DEF InRelease, InLoader
    <3> QED
      BY <2>1, <3>1, <3>2, <3>3, <3>4 DEF Kept, Counts
  <2> QED
    BY <2>3, <2>4
<1>4. CASE CloseDmo(c)
  <2>1. ~InLoader(c) /\ ~InRelease(c) /\ phase[c] = "open" /\ UNCHANGED <<stack, acounter, image>>
    BY <1>4 DEF CloseDmo, InRelease, modules
  <2>2. phase'[c] = "closing" /\ \A d \in Codec \ {c} : phase'[d] = phase[d]
    BY <1>4 DEF CloseDmo, ClosedTo, Safe, Types
  <2>3. ~InRelease(c)'
    BY <2>1 DEF InRelease, InLoader
  <2> QED
    BY <2>1, <2>2, <2>3 DEF Kept, Counts
<1> QED
  BY <1>1, <1>2, <1>3, <1>4

\* So do the loader's own steps.
LEMMA LoaderKept ==
  ASSUME Safe, Serialized, NEW c \in Codec, LoaderStep(c)
  PROVE  Kept(c)
<1>1. CASE FindModule(c)
  <2>1. At(c, "find") /\ UNCHANGED <<image, acounter>>
    BY <1>1 DEF FindModule, modules
  <2>2. InLoader(c) /\ Top(c).for = "load"
    BY <2>1, AtFind
  <2>3. CASE NodesOf(Top(c).dll) = {}
    <3>1. Continue(c, "map") /\ UNCHANGED phase
      BY <1>1, <2>3 DEF FindModule
    <3> QED
      BY <2>1, <2>2, <3>1, GoesKept DEF Locations
  <2>4. CASE NodesOf(Top(c).dll) # {}
    <3>1. PICK i \in NodesOf(Top(c).dll) : Return(c, list[i])
      BY <1>1, <2>4 DEF FindModule
    <3>2. PICK h \in Module \cup {None} : h = list[i]
      BY DEF NodesOf, Safe, Types
    <3>3. Return(c, h)
      BY <3>1, <3>2
    <3> QED
      BY <2>1, <2>2, <3>3, ReturnKept
  <2> QED
    BY <2>3, <2>4
<1>2. CASE MapFails(c)
  <2>1. At(c, "map") /\ Return(c, None) /\ UNCHANGED <<image, acounter>>
    BY <1>2 DEF MapFails, modules
  <2>2. InLoader(c) /\ Top(c).for = "load"
    BY <2>1, AtFind
  <2> QED
    BY <2>1, <2>2, ReturnKept
<1>3. CASE MapImage(c)
  <2>1. At(c, "map") /\ UNCHANGED <<acounter, phase>>
    BY <1>3 DEF MapImage
  <2>2. InLoader(c) /\ Top(c).for = "load" /\ Top(c).dll \in Dll
    BY <2>1, AtFind
  <2>3. Base(Top(c).dll) \in Module
    BY <2>2 DEF Base, Module
  <2>4. \E m \in Module : ContinueWith(c, "push", m)
    BY <1>3, <2>3 DEF MapImage, Loadable
  <2> QED
    BY <2>1, <2>2, <2>4, GoesKept DEF Locations
<1>4. CASE PushModule(c)
  <2>1. InLoader(c) /\ Continue(c, "attach") /\ UNCHANGED <<image, acounter, phase>>
    BY <1>4 DEF PushModule, At
  <2> QED
    BY <2>1, GoesKept DEF Locations
<1>5. CASE AttachReturns(c)
  <2>1. At(c, "attach") /\ UNCHANGED <<image, acounter>>
    BY <1>5 DEF AttachReturns
  <2>2. PICK h \in Module \cup {None} : Return(c, h)
    BY <1>5, <2>1, AtAttach DEF AttachReturns
  <2> QED
    BY <2>1, <2>2, AtAttach, ReturnKept
<1>6. CASE AttachFails(c)
  <2>1. InLoader(c) /\ Continue(c, "detach") /\ UNCHANGED <<image, acounter, phase>>
    BY <1>6 DEF AttachFails, At, modules
  <2> QED
    BY <2>1, GoesKept DEF Locations
<1>7. CASE Detach(c)
  <2>1. InLoader(c) /\ Continue(c, "unload") /\ UNCHANGED <<image, acounter, phase>>
    BY <1>7 DEF Detach, At
  <2> QED
    BY <2>1, GoesKept DEF Locations
<1>8. CASE Unload(c)
  <2>1. InLoader(c) /\ Continue(c, "remove") /\ UNCHANGED <<acounter, phase>> /\ image' \subseteq image
    BY <1>8 DEF Unload, At
  <2> QED
    BY <2>1, GoesKept DEF Locations
<1>9. CASE Remove(c)
  <2>1. InLoader(c) /\ AfterRemove(c) /\ UNCHANGED <<image, acounter>> /\ Top(c) \in Frame
    BY <1>9, Inside DEF Remove, At
  <2>2. CASE Top(c).for = "load"
    <3>1. PICK h \in Module \cup {None} : Return(c, h)
      BY <2>1, <2>2 DEF AfterRemove
    <3> QED
      BY <2>1, <2>2, <3>1, ReturnKept
  <2>3. CASE Top(c).for = "free"
    <3>1. stack' = [stack EXCEPT ![c] = Tail(@)] /\ phase' = [phase EXCEPT ![c] = AfterFree(c)]
      BY <2>1, <2>3 DEF AfterRemove, ClosedTo
    <3>2. stack'[c] = <<>> /\ \A d \in Codec \ {c} : stack'[d] = stack[d]
      BY <2>1, <2>3, <3>1, ReturnsAlone
    <3>3. phase[c] = "open" /\ ~InRelease(c)
      BY <2>1, <2>3, Inside DEF PhaseOf, InRelease
    <3>4. ~InRelease(c)'
      BY <3>2 DEF InRelease, InLoader
    <3>5. (Counted(c) => phase'[c] = "closing") /\ \A d \in Codec \ {c} : phase'[d] = phase[d]
      BY <3>1 DEF AfterFree, Safe, Types
    <3> QED
      BY <2>1, <3>2, <3>3, <3>4, <3>5 DEF Kept, Counts
  <2>4. CASE Top(c).for = "release"
    <3>1. Continue(c, "loop") /\ UNCHANGED phase
      BY <2>1, <2>4 DEF AfterRemove
    <3> QED
      BY <2>1, <3>1, GoesKept DEF Locations
  <2> QED
    BY <2>1, <2>2, <2>3, <2>4 DEF Frame
<1>10. CASE ReleaseNext(c)
  <2>1. /\ InLoader(c) /\ Top(c).at = "loop" /\ Top(c).for = "release"
        /\ UNCHANGED <<image, acounter>>
    <3>1. InLoader(c) /\ Top(c).at = "loop" /\ UNCHANGED <<image, acounter>>
      BY <1>10 DEF ReleaseNext, At, Top, modules
    <3> QED
      BY <3>1, Inside DEF TopOf
  <2>2. CASE list = <<>>
    <3>1. stack' = [stack EXCEPT ![c] = Tail(@)] /\ phase' = [phase EXCEPT ![c] = "closed"]
      BY <1>10, <2>2 DEF ReleaseNext
    <3>2. stack'[c] = <<>> /\ \A d \in Codec \ {c} : stack'[d] = stack[d]
      BY <2>1, <3>1, ReturnsAlone
    <3>3. image' = {}
      BY <2>1, <2>2, Inside DEF ModulesOf, Unlisted, Unmapped, Elements
    <3>4. InRelease(c)
      BY <2>1 DEF InRelease
    <3>5. phase'[c] = "closed" /\ \A d \in Codec \ {c} : phase'[d] = phase[d]
      BY <3>1 DEF Safe, Types
    <3> QED
      BY <2>1, <3>2, <3>3, <3>4, <3>5 DEF Kept, Counts
  <2>3. CASE list # <<>>
    <3>1. Head(list) \in Module
      BY <2>3 DEF Safe, Types
    <3>2. ContinueWith(c, "detach", Head(list)) /\ UNCHANGED phase
      BY <1>10, <2>3 DEF ReleaseNext
    <3> QED
      BY <2>1, <3>1, <3>2, GoesKept DEF Locations
  <2> QED
    BY <2>2, <2>3
<1> QED
  BY <1>1, <1>2, <1>3, <1>4, <1>5, <1>6, <1>7, <1>8, <1>9, <1>10 DEF LoaderStep

\* A step that leaves the counted codecs alone keeps the count.
LEMMA KeptCount ==
  ASSUME Safe, Count, NEW c \in Codec, Kept(c)
  PROVE  Count'
<1>1. \A d \in Codec \ {c} : InRelease(d)' = InRelease(d)
  BY DEF Kept, InRelease, InLoader, Top
<1>2. Open' = Open
  BY <1>1 DEF Open, Kept, Counts
<1> QED
  BY <1>2 DEF Count, Kept

\* CodecAlloc counts the codec that opens.
LEMMA OpenCount ==
  ASSUME Safe, Count, IsFiniteSet(Codec), NEW c \in Codec, OpenCodec(c)
  PROVE  Count'
<1>1. phase[c] = "closed" /\ phase'[c] = "opening" /\ \A d \in Codec \ {c} : phase'[d] = phase[d]
  BY DEF OpenCodec, Safe, Types
<1>2. UNCHANGED <<stack, image>> /\ \A d \in Codec : InRelease(d)' = InRelease(d)
  BY DEF OpenCodec, modules, InRelease, InLoader, Top
<1>3. ~InRelease(c)
  BY <1>1, Inside DEF InRelease, PhaseOf
<1>4. IsFiniteSet(Open) /\ c \notin Open
  BY <1>1, FS_Subset DEF Open
<1>5. CASE Counted(c)
  <2>1. Open' = Open \cup {c}
    BY <1>1, <1>2, <1>3, <1>5 DEF Open, Counted
  <2>2. Cardinality(Open') = Cardinality(Open) + 1 /\ Cardinality(Open) \in Nat
    BY <1>4, <2>1, FS_AddElement, FS_CardinalityType
  <2>3. acounter' = acounter + 1
    BY <1>5 DEF OpenCodec
  <2> QED
    BY <2>2, <2>3 DEF Count
<1>6. CASE ~Counted(c)
  <2>1. Open' = Open /\ acounter' = acounter
    BY <1>1, <1>2, <1>6 DEF Open, Counted, OpenCodec
  <2> QED
    BY <2>1 DEF Count
<1> QED
  BY <1>5, <1>6

\* CodecRelease counts the codec off, and unloads when it is the last.
LEMMA ReleaseCount ==
  ASSUME Safe, Count, Serialized, IsFiniteSet(Codec), NEW c \in Codec, CodecRelease(c)
  PROVE  Count'
<1>1. /\ phase[c] = "closing" /\ Counted(c) /\ stack[c] = <<>> /\ ~InRelease(c)
      /\ UNCHANGED image /\ acounter' = acounter - 1
  BY Outside DEF CodecRelease, Safe, Held, InRelease, modules
<1>2. IsFiniteSet(Open) /\ c \in Open
  BY <1>1, FS_Subset DEF Open
<1>3. acounter' = 0 => InRelease(c)'
  <2>1. ASSUME acounter' = 0 PROVE InRelease(c)'
    <3>1. PICK t \in Frame : t = [at |-> "loop", for |-> "release", dll |-> None, mod |-> None]
      BY DEF Frame, Locations
    <3>2. stack'[c] = <<t>> \o stack[c]
      BY <2>1, <3>1 DEF CodecRelease, Call, Safe, Types
    <3>3. stack'[c] # <<>> /\ Head(stack'[c]) = t
      BY <3>2, Pushed DEF Safe, Types
    <3> QED
      BY <3>1, <3>3 DEF InRelease, InLoader, Top
  <2> QED
    BY <2>1
<1>4. /\ acounter' # 0 => phase'[c] = "closed"
      /\ \A d \in Codec \ {c} : phase'[d] = phase[d] /\ stack'[d] = stack[d]
  BY DEF CodecRelease, Call, Safe, Types
<1>5. Open' = Open \ {c}
  <2>1. \A d \in Codec \ {c} : InRelease(d)' = InRelease(d)
    BY <1>4 DEF InRelease, InLoader, Top
  <2>2. c \notin Open'
    BY <1>3, <1>4 DEF Open
  <2>3. ASSUME NEW d \in Codec \ {c} PROVE d \in Open' <=> d \in Open
    BY <1>4, <2>1 DEF Open, Counted
  <2>4. Open' \subseteq Codec /\ Open \subseteq Codec
    BY DEF Open
  <2> QED
    BY <2>2, <2>3, <2>4
<1>6. Cardinality(Open') = Cardinality(Open) - 1 /\ Cardinality(Open) \in Nat
  BY <1>2, <1>5, FS_RemoveElement, FS_CardinalityType
<1> QED
  BY <1>1, <1>6 DEF Count

\* The invariant is inductive.
LEMMA IInvStep ==
  ASSUME IInv, Serialized, IsFiniteSet(Codec), [Next]_vars
  PROVE  IInv'
<1> USE DEF IInv
<1>1. Safe'
  BY SafeStep
<1>2. ASSUME NEW c \in Codec, WrapperStep(c) PROVE Count'
  BY <1>2, OpenCount, ReleaseCount, WrapperKept, KeptCount DEF WrapperStep
<1>3. ASSUME NEW c \in Codec, LoaderStep(c) PROVE Count'
  BY <1>3, LoaderKept, KeptCount
<1>4. ASSUME NEW c \in Codec, AttachLoadsAnother(c) PROVE Count'
  BY <1>4, WrapperKept, KeptCount
<1>5. CASE UNCHANGED vars
  <2>1. Open' = Open /\ \A d \in Codec : InRelease(d)' = InRelease(d)
    BY <1>5 DEF vars, Open, InRelease, InLoader, Top
  <2> QED
    BY <1>1, <1>5, <2>1 DEF vars, Count
<1> QED
  BY <1>1, <1>2, <1>3, <1>4, <1>5 DEF Next

\* The invariant holds at first.
LEMMA IInvInit ==
  ASSUME IsFiniteSet(Codec)
  PROVE  Init => IInv
<1> SUFFICES ASSUME Init PROVE IInv
  OBVIOUS
<1>1. Open = {}
  BY DEF Init, Open
<1>2. Count
  BY <1>1, FS_EmptySet DEF Init, Count
<1> QED
  BY <1>2, SafeInit DEF IInv

\* While the calls are serialized the inductive invariant holds.
THEOREM InductiveInvariant ==
  ASSUME Serialized, IsFiniteSet(Codec)
  PROVE  Spec => []IInv
<1>1. Init => IInv
  BY IInvInit
<1>2. IInv /\ [Next]_vars => IInv'
  BY IInvStep
<1> QED
  BY <1>1, <1>2, PTL DEF Spec

\* Every variable keeps its type; in particular the count of open codecs is never negative,
\* whatever the entry points load and whichever loads fail.
THEOREM TypeCorrect ==
  ASSUME Serialized, IsFiniteSet(Codec)
  PROVE  Spec => []TypeOK
<1>1. IInv => TypeOK
  <2>1. IsFiniteSet(Open)
    BY FS_Subset DEF Open
  <2> QED
    BY <2>1, FS_CardinalityType DEF IInv, Safe, Types, Count, TypeOK
<1> QED
  BY <1>1, InductiveInvariant, PTL

\* Between calls the module list, the images that are mapped and the modules that were
\* attached are the same, and what is attached keeps its heap.
THEOREM ListIsImageAlways ==
  ASSUME Serialized, IsFiniteSet(Codec)
  PROVE  Spec => []ListIsImage
<1>1. IInv => ListIsImage
  <2> SUFFICES ASSUME IInv PROVE ListIsImage
    OBVIOUS
  <2>1. Elements(attached) \subseteq heap
    <3>1. CASE NoCall
      BY <3>1 DEF IInv, Safe, Modules, Lists
    <3>2. ASSUME NEW c \in Codec, InLoader(c) PROVE Elements(attached) \subseteq heap
      <4>1. Elements(attached) \subseteq Elements(list)
        BY <3>2, Inside DEF IInv, ModulesOf, Unlisted, Unmapped, Unattached
      <4> QED
        BY <4>1 DEF IInv, Safe, Lists
    <3> QED
      BY <3>1, <3>2 DEF NoCall
  <2>2. NoCall => Elements(list) = image /\ Elements(attached) = image
    BY DEF IInv, Safe, Modules
  <2>3. \A i, j \in 1..Len(list) : list[i] = list[j] => i = j
    BY DEF IInv, Safe, Lists, Injective
  <2> QED
    BY <2>1, <2>2, <2>3 DEF ListIsImage
<1> QED
  BY <1>1, InductiveInvariant, PTL

\* A counted codec is closed by a release that finds others open, or at the end of one
\* that has unmapped everything.
LEMMA ReleaseCloses ==
  ASSUME IInv, Safe', Serialized, IsFiniteSet(Codec), [Next]_vars, NEW c \in Codec,
         Counted(c), phase[c] = "closing", phase'[c] = "closed",
         \A d \in Codec \ {c} : Counted(d) => phase[d] = "closed"
  PROVE  image' = {}
<1>1. ~InRelease(c)' /\ Safe /\ Count
  <2>1. InLoader(c)' => phase'[c] = PhaseOf(Top(c).for)'
    BY DEF Safe, Calls
  <2> QED
    BY <2>1 DEF InRelease, PhaseOf, IInv
<1>2. PICK e \in Codec : WrapperStep(e) \/ LoaderStep(e) \/ AttachLoadsAnother(e)
  BY DEF Next, vars
<1>3. CASE Kept(e)
  <2>1. e = c
    BY <1>3 DEF Kept
  <2>2. Counts(c)' <=> Counts(c)
    BY <1>3, <2>1 DEF Kept
  <2>3. InRelease(c)
    BY <2>2 DEF Counts
  <2> QED
    BY <1>1, <1>3, <2>1, <2>3 DEF Kept
<1>4. CASE OpenCodec(e)
  <2>1. phase'[c] = "opening" \/ phase'[c] = phase[c]
    BY <1>4 DEF OpenCodec, IInv, Safe, Types
  <2> QED
    BY <2>1
<1>5. CASE CodecRelease(e)
  <2>1. phase' = phase \/ phase' = [phase EXCEPT ![e] = "closed"]
    BY <1>5 DEF CodecRelease
  <2>2. e = c
    BY <2>1 DEF IInv, Safe, Types
  <2>3. stack[c] = <<>> /\ ~InRelease(c)
    BY <1>1, <1>5, <2>2, Outside DEF CodecRelease, InRelease
  <2>4. Open = {c}
    BY <2>3 DEF Open
  <2>5. acounter = 1
    BY <1>1, <2>4, FS_Singleton DEF Count
  <2>6. phase'[c] = phase[c]
    BY <1>5, <2>2, <2>5 DEF CodecRelease
  <2> QED
    BY <2>6
<1> QED
  BY <1>1, <1>2, <1>3, <1>4, <1>5, WrapperKept, LoaderKept DEF WrapperStep

\* The close of the last counted codec leaves nothing mapped, whatever the entry points
\* load, whichever loads fail, and whatever an uncounted codec still has open.
THEOREM LastReleaseUnloadsAlways ==
  ASSUME Serialized, IsFiniteSet(Codec)
  PROVE  Spec => LastReleaseUnloads
<1>1. IInv /\ IInv' /\ [Next]_vars =>
        [\A c \in Codec :
           Counted(c) /\ phase[c] = "closing" /\ phase'[c] = "closed"
             /\ (\A d \in Codec \ {c} : Counted(d) => phase[d] = "closed")
           => image' = {}]_vars
  BY ReleaseCloses DEF IInv
<1> QED
  BY <1>1, InductiveInvariant, PTL DEF Spec, LastReleaseUnloads

-----------------------------------------------------------------------------
(* The handles of codecs *)

\* The outermost of the calls s.
Bottom(s) == s[Len(s)]

\* What a codec's handles are of: the DLLs that its wrapper has loaded so far; and its
\* outermost call is about the next one, or the last.
NamedOf(c) ==
  /\ Len(handles[c]) <= Len(Needs[c])
  /\ \A i \in 1..Len(handles[c]) : handles[c][i][1] = Needs[c][i]
  /\ phase[c] = "open" => Len(handles[c]) = Len(Needs[c])
CallOf(c) ==
  InLoader(c) =>
    LET b == Bottom(stack[c]) IN
    /\ b.for = "load" /\ b.at \in {"find", "map"} => b.dll = Needs[c][Len(handles[c]) + 1]
    /\ b.for = "load" /\ b.at \in {"push", "attach"} => b.mod[1] = Needs[c][Len(handles[c]) + 1]
    /\ b.for = "free" => FreesItsDll(c) /\ b.mod[1] = Needs[c][Len(Needs[c])]
Named == \A c \in Codec : NamedOf(c) /\ CallOf(c)

\* A release runs when no codec that is counted has a handle.
Emptied ==
  \A d \in Codec : InRelease(d) => \A c \in Codec : Counted(c) => handles[c] = <<>>

\* What a codec holds is attached, unless it is exposed or frees it itself.
InFree(c) == InLoader(c) /\ Top(c).for = "free"
Keeps ==
  \A c \in Codec : ~Exposed(c) /\ ~InFree(c) => Elements(handles[c]) \subseteq Elements(attached)

HInv == Named /\ Emptied /\ Keeps

\* The outermost call stays where the innermost one changes.
LEMMA BottomReplaced ==
  ASSUME NEW S, NEW s \in Seq(S), s # <<>>, NEW x \in S, NEW t, t = [s EXCEPT ![1] = x]
  PROVE  Bottom(t) = IF Len(s) = 1 THEN x ELSE Bottom(s)
<1>1. Len(s) \in Nat /\ Len(s) > 0
  OBVIOUS
<1> QED
  BY <1>1 DEF Bottom

\* It stays where another begins.
LEMMA BottomPushed ==
  ASSUME NEW S, NEW s \in Seq(S), s # <<>>, NEW x \in S, NEW t, t = <<x>> \o s
  PROVE  Bottom(t) = Bottom(s)
<1>1. Len(s) \in Nat /\ Len(s) > 0
  OBVIOUS
<1>2. Len(t) = Len(s) + 1 /\ t[Len(s) + 1] = s[Len(s)]
  BY <1>1
<1> QED
  BY <1>2 DEF Bottom

\* It stays where one returns into another, which it finds there.
LEMMA BottomPopped ==
  ASSUME NEW S, NEW s \in Seq(S), Len(s) > 1, NEW t, t = Tail(s)
  PROVE  Bottom(t) = Bottom(s) /\ t # <<>> /\ Head(t) = s[2] /\ 2 \in 2..Len(s)
<1>1. Len(s) \in Nat /\ s # <<>>
  OBVIOUS
<1>2. Bottom(t) = Bottom(s)
  BY <1>1 DEF Bottom
<1>3. t \in Seq(S) /\ Len(t) = Len(s) - 1 /\ (t # <<>> => Head(t) = s[2])
  BY <1>1, Popped
<1>4. t # <<>> /\ 2 \in 2..Len(s)
  BY <1>1, <1>3
<1> QED
  BY <1>2, <1>3, <1>4

-----------------------------------------------------------------------------

\* The innermost call goes on; it may be the outermost as well.
LEMMA BottomGoes ==
  ASSUME Safe, NEW c \in Codec, InLoader(c), NEW t \in Frame,
         stack' = [stack EXCEPT ![c] = [@ EXCEPT ![1] = t]]
  PROVE  /\ InLoader(c)' /\ Top(c)' = t
         /\ Bottom(stack[c])' = IF Len(stack[c]) = 1 THEN t ELSE Bottom(stack[c])
         /\ \A d \in Codec \ {c} : stack'[d] = stack[d] /\ ~InLoader(d)
<1>1. stack[c] \in Seq(Frame) /\ stack[c] # <<>> /\ \A d \in Codec \ {c} : ~InLoader(d)
  BY Inside
<1>2. stack'[c] = [stack[c] EXCEPT ![1] = t] /\ \A d \in Codec \ {c} : stack'[d] = stack[d]
  BY DEF Safe, Types
<1>3. stack'[c] # <<>> /\ Head(stack'[c]) = t
  BY <1>1, <1>2, Replaced
<1>4. Bottom(stack'[c]) = IF Len(stack[c]) = 1 THEN t ELSE Bottom(stack[c])
  BY <1>1, <1>2, BottomReplaced
<1> QED
  BY <1>1, <1>2, <1>3, <1>4 DEF InLoader, Top

\* A call begins within others, which stay.
LEMMA BottomCalls ==
  ASSUME Safe, NEW c \in Codec, InLoader(c), NEW t \in Frame, Call(c, t)
  PROVE  /\ InLoader(c)' /\ Top(c)' = t /\ Bottom(stack[c])' = Bottom(stack[c])
         /\ \A d \in Codec \ {c} : stack'[d] = stack[d] /\ ~InLoader(d)
<1>1. stack[c] \in Seq(Frame) /\ stack[c] # <<>> /\ \A d \in Codec \ {c} : ~InLoader(d)
  BY Inside
<1>2. stack'[c] = <<t>> \o stack[c] /\ \A d \in Codec \ {c} : stack'[d] = stack[d]
  BY DEF Safe, Types, Call
<1>3. stack'[c] # <<>> /\ Head(stack'[c]) = t
  BY <1>1, <1>2, Pushed
<1>4. Bottom(stack'[c]) = Bottom(stack[c])
  BY <1>1, <1>2, BottomPushed
<1> QED
  BY <1>1, <1>2, <1>3, <1>4 DEF InLoader, Top

\* A call returns into others, which stay.
LEMMA BottomReturns ==
  ASSUME Safe, NEW c \in Codec, InLoader(c), stack' = [stack EXCEPT ![c] = Tail(@)]
  PROVE  /\ Len(stack[c]) > 1 => InLoader(c)' /\ Bottom(stack[c])' = Bottom(stack[c]) /\ Top(c)'.for = "load"
         /\ ~(Len(stack[c]) > 1) => ~InLoader(c)' /\ Bottom(stack[c]) = Top(c)
         /\ \A d \in Codec \ {c} : stack'[d] = stack[d] /\ ~InLoader(d)
<1>1. /\ stack[c] \in Seq(Frame) /\ stack[c] # <<>> /\ Len(stack[c]) \in Nat /\ Len(stack[c]) > 0
      /\ Top(c) = stack[c][1] /\ CallsOf(stack[c]) /\ \A d \in Codec \ {c} : ~InLoader(d)
  BY Inside
<1>2. stack'[c] = Tail(stack[c]) /\ \A d \in Codec \ {c} : stack'[d] = stack[d]
  BY DEF Safe, Types
<1>3. CASE Len(stack[c]) > 1
  <2>1. Bottom(stack'[c]) = Bottom(stack[c]) /\ stack'[c] # <<>> /\ Head(stack'[c]) = stack[c][2]
        /\ 2 \in 2..Len(stack[c])
    BY <1>1, <1>2, <1>3, BottomPopped
  <2>2. stack[c][2].for = "load"
    BY <1>1, <2>1 DEF CallsOf
  <2> QED
    BY <1>1, <1>2, <1>3, <2>1, <2>2 DEF InLoader, Top
<1>4. CASE ~(Len(stack[c]) > 1)
  <2>1. Len(stack[c]) = 1
    BY <1>1, <1>4, LengthOf
  <2>2. Tail(stack[c]) = <<>>
    BY <1>1, <2>1, TailOfOne
  <2> QED
    BY <1>1, <1>2, <1>4, <2>1, <2>2 DEF Bottom, InLoader
<1> QED
  BY <1>3, <1>4

-----------------------------------------------------------------------------

\* A call that goes on is about the DLL or the module it was about.
LEMMA NamedGoes ==
  ASSUME Safe, NEW c \in Codec, NamedOf(c), CallOf(c), InLoader(c), UNCHANGED <<phase, handles>>,
         NEW t \in Frame, stack' = [stack EXCEPT ![c] = [@ EXCEPT ![1] = t]], t.for = Top(c).for,
         t.for = "load" /\ t.at \in {"find", "map"} => Top(c).at \in {"find", "map"} /\ t.dll = Top(c).dll,
         t.for = "load" /\ t.at \in {"push", "attach"} =>
           \/ Top(c).at \in {"find", "map"} /\ t.mod[1] = Top(c).dll
           \/ Top(c).at \in {"push", "attach"} /\ t.mod = Top(c).mod,
         t.for = "free" => t.mod = Top(c).mod
  PROVE  NamedOf(c)' /\ CallOf(c)'
<1>1. InLoader(c)' /\ Bottom(stack[c])' = IF Len(stack[c]) = 1 THEN t ELSE Bottom(stack[c])
  BY BottomGoes
<1>2. Len(stack[c]) = 1 => Bottom(stack[c]) = Top(c)
  BY Inside DEF Bottom
<1>3. NamedOf(c)'
  BY DEF NamedOf
<1>4. CallOf(c)'
  <2>1. CASE Len(stack[c]) = 1
    BY <1>1, <1>2, <2>1 DEF CallOf
  <2>2. CASE Len(stack[c]) # 1
    BY <1>1, <2>2 DEF CallOf
  <2> QED
    BY <2>1, <2>2
<1> QED
  BY <1>3, <1>4

\* A load returns the module that was asked for, or none.
LEMMA NamedReturns ==
  ASSUME Safe, NEW c \in Codec, NamedOf(c), CallOf(c), InLoader(c), Top(c).for = "load",
         NEW h \in Module \cup {None}, Return(c, h),
         h # None => \/ Top(c).at \in {"find", "map"} /\ h[1] = Top(c).dll
                     \/ Top(c).at \in {"push", "attach"} /\ h = Top(c).mod
  PROVE  NamedOf(c)' /\ CallOf(c)'
<1>1. stack' = [stack EXCEPT ![c] = Tail(@)]
  BY DEF Return
<1>2. CASE Len(stack[c]) > 1
  <2>1. UNCHANGED <<phase, handles>>
    BY <1>2 DEF Return
  <2>2. Bottom(stack[c])' = Bottom(stack[c])
    BY <1>1, <1>2, BottomReturns
  <2> QED
    BY <2>1, <2>2 DEF NamedOf, CallOf
<1>3. CASE ~(Len(stack[c]) > 1)
  <2>1. ~InLoader(c)' /\ Bottom(stack[c]) = Top(c)
    BY <1>1, <1>3, BottomReturns
  <2>2. CallOf(c)'
    BY <2>1 DEF CallOf
  <2>3. handles[c] \in Seq(Module) /\ Len(handles[c]) \in Nat /\ Needs[c] \in Seq(Dll) /\ Len(Needs[c]) \in Nat
        /\ Len(Needs[c]) > 0
    <3>1. handles[c] \in Seq(Module) /\ Needs[c] \in Seq(Dll)
      BY CodecAssumption DEF Safe, Types
    <3>2. Len(Needs[c]) \in {1, 2}
      BY CodecAssumption
    <3>3. Len(Needs[c]) \in Nat /\ Len(Needs[c]) > 0
      <4>1. \A n \in {1, 2} : n \in Nat /\ n > 0
        OBVIOUS
      <4> QED
        BY <3>2, <4>1, Zenon
    <3> QED
      BY <3>1, <3>3, LenProperties
  <2>4. CASE h = None
    <3>1. handles'[c] = <<>> /\ phase'[c] # "open"
      BY <1>3, <2>4 DEF Return, Safe, Types
    <3>2. Len(handles'[c]) = 0
      BY <3>1
    <3> QED
      BY <2>2, <2>3, <3>1, <3>2 DEF NamedOf
  <2>5. CASE h # None
    <3>1. h \in Module /\ h[1] = Needs[c][Len(handles[c]) + 1]
      BY <2>1, <2>5 DEF CallOf
    <3>2. handles'[c] = Append(handles[c], h)
          /\ phase'[c] = IF Len(handles[c]) + 1 = Len(Needs[c]) THEN "open" ELSE "opening"
      BY <1>3, <2>5 DEF Return, Safe, Types
    <3>3. Len(handles[c]) < Len(Needs[c])
      BY Inside DEF PhaseOf, Safe, Held
    <3>4. Len(handles'[c]) = Len(handles[c]) + 1 /\ handles'[c][Len(handles[c]) + 1] = h
          /\ \A i \in 1..Len(handles[c]) : handles'[c][i] = handles[c][i]
      BY <2>3, <3>1, <3>2
    <3>5. ASSUME NEW i \in 1..Len(handles'[c]) PROVE handles'[c][i][1] = Needs[c][i]
      <4>1. i \in 1..Len(handles[c]) \/ i = Len(handles[c]) + 1
        BY <2>3, <3>4
      <4> QED
        BY <3>1, <3>4, <4>1 DEF NamedOf
    <3>6. Len(handles'[c]) <= Len(Needs[c]) /\ (phase'[c] = "open" => Len(handles'[c]) = Len(Needs[c]))
      BY <2>3, <3>2, <3>3, <3>4
    <3> QED
      BY <2>2, <3>5, <3>6 DEF NamedOf
  <2> QED
    BY <2>4, <2>5
<1> QED
  BY <1>2, <1>3

\* A codec without handles: none are as many as its wrapper loads.
LEMMA NoHandles ==
  ASSUME NEW c \in Codec, NEW s, s = <<>>
  PROVE  Len(s) = 0 /\ 0 <= Len(Needs[c])
<1>1. Len(s) = 0
  OBVIOUS
<1>2. Len(Needs[c]) \in {1, 2}
  BY CodecAssumption
<1>3. \A n \in {1, 2} : 0 <= n
  OBVIOUS
<1> QED
  BY <1>1, <1>2, <1>3, Zenon

\* A call that is not within others has none around it.
LEMMA OuterOfOne ==
  ASSUME Safe, NEW c \in Codec, InLoader(c), ~(Len(stack[c]) > 1)
  PROVE  Outer(stack[c]) = {}
<1>1. Len(stack[c]) = 1
  BY Inside, LengthOf
<1> QED
  BY <1>1 DEF Outer

-----------------------------------------------------------------------------
(* The handles through the steps *)

\* A call goes on: what is detached is no handle of a codec that keeps its DLLs.
LEMMA KeepsGoes ==
  ASSUME Safe, HInv, NEW c \in Codec, InLoader(c), UNCHANGED <<phase, handles>>,
         NEW t \in Frame, stack' = [stack EXCEPT ![c] = [@ EXCEPT ![1] = t]], t.for = Top(c).for,
         t.for = "load" /\ t.at \in {"find", "map"} => Top(c).at \in {"find", "map"} /\ t.dll = Top(c).dll,
         t.for = "load" /\ t.at \in {"push", "attach"} =>
           \/ Top(c).at \in {"find", "map"} /\ t.mod[1] = Top(c).dll
           \/ Top(c).at \in {"push", "attach"} /\ t.mod = Top(c).mod,
         t.for = "free" => t.mod = Top(c).mod,
         \A m \in Elements(attached) \ Elements(attached)' : Top(c).at = "detach" /\ m = Top(c).mod
  PROVE  HInv'
<1>1. /\ InLoader(c)' /\ Top(c)' = t
      /\ \A d \in Codec \ {c} : stack'[d] = stack[d] /\ ~InLoader(d)
  BY BottomGoes
<1>2. Named'
  <2>1. NamedOf(c)' /\ CallOf(c)'
    BY NamedGoes DEF HInv, Named
  <2>2. ASSUME NEW d \in Codec \ {c} PROVE NamedOf(d)' /\ CallOf(d)'
    BY <1>1 DEF HInv, Named, NamedOf, CallOf, InLoader
  <2> QED
    BY <2>1, <2>2 DEF Named
<1>3. \A d \in Codec : InRelease(d)' = InRelease(d) /\ InFree(d)' = InFree(d)
  <2>1. InRelease(c)' = InRelease(c) /\ InFree(c)' = InFree(c)
    BY <1>1 DEF InRelease, InFree
  <2>2. ASSUME NEW d \in Codec \ {c} PROVE InRelease(d)' = InRelease(d) /\ InFree(d)' = InFree(d)
    BY <1>1 DEF InRelease, InFree, InLoader
  <2> QED
    BY <2>1, <2>2
<1>4. Emptied'
  BY <1>3 DEF HInv, Emptied, Counted
<1>5. ASSUME NEW d \in Codec, ~Exposed(d), ~InFree(d), NEW m \in Elements(handles[d]), m \notin Elements(attached)'
      PROVE  FALSE
  <2>1. m \in Elements(attached) /\ Top(c).at = "detach" /\ m = Top(c).mod
    BY <1>5 DEF HInv, Keeps
  <2>2. Top(c).for \in {"load", "free", "release"} /\ TopOf(Top(c), stack[c]) /\ ModulesOf(Top(c), stack[c])
        /\ phase[c] = PhaseOf(Top(c).for)
    BY Inside DEF Frame
  <2>3. CASE Top(c).for = "load"
    BY <2>1, <2>2, <2>3 DEF ModulesOf, Unattached
  <2>4. CASE Top(c).for = "free"
    <3>1. c # d
      BY <1>5, <2>4 DEF InFree
    <3>2. Bottom(stack[c]) = Top(c)
      BY <2>2, <2>4, Inside DEF TopOf, Bottom
    <3>3. FreesItsDll(c) /\ m[1] = Needs[c][Len(Needs[c])]
      BY <2>1, <2>4, <3>2 DEF HInv, Named, CallOf
    <3>4. m[1] \in Elements(Needs[d])
      <4>1. PICK i \in 1..Len(handles[d]) : m = handles[d][i]
        BY DEF Elements
      <4>2. m[1] = Needs[d][i] /\ Len(handles[d]) <= Len(Needs[d])
        BY <4>1 DEF HInv, Named, NamedOf
      <4>3. Len(handles[d]) \in Nat /\ Len(Needs[d]) \in Nat
        BY CodecAssumption DEF Safe, Types
      <4>4. i \in 1..Len(Needs[d])
        BY <4>2, <4>3
      <4> QED
        BY <4>2, <4>4 DEF Elements
    <3> QED
      BY <1>5, <3>1, <3>3, <3>4 DEF Exposed
  <2>5. CASE Top(c).for = "release"
    <3>1. Counted(c)
      BY <2>2, <2>5 DEF PhaseOf, Safe, Held
    <3>2. Counted(d)
      BY <1>5, <3>1 DEF Exposed
    <3>3. handles[d] = <<>>
      BY <2>5, <3>2 DEF HInv, Emptied, InRelease
    <3> QED
      BY <3>3 DEF Elements
  <2> QED
    BY <2>2, <2>3, <2>4, <2>5
<1>6. Keeps'
  <2> SUFFICES ASSUME NEW d \in Codec, ~Exposed(d)', ~InFree(d)'
               PROVE  Elements(handles[d])' \subseteq Elements(attached)'
    BY DEF Keeps
  <2>1. ~Exposed(d) /\ ~InFree(d)
    BY <1>3 DEF Exposed, Counted, FreesItsDll
  <2> QED
    BY <1>5, <2>1
<1> QED
  BY <1>2, <1>4, <1>6 DEF HInv

\* LoadLibrary returns: a wrapper gets a handle of a module that is attached.
LEMMA KeepsReturns ==
  ASSUME Safe, HInv, NEW c \in Codec, InLoader(c), Top(c).for = "load",
         NEW h \in Module \cup {None}, Return(c, h),
         h # None => \/ Top(c).at \in {"find", "map"} /\ h[1] = Top(c).dll
                     \/ Top(c).at \in {"push", "attach"} /\ h = Top(c).mod,
         Elements(attached) \subseteq Elements(attached)',
         h # None /\ ~(Len(stack[c]) > 1) => h \in Elements(attached)'
  PROVE  HInv'
<1>1. stack' = [stack EXCEPT ![c] = Tail(@)]
  BY DEF Return
<1>2. /\ Len(stack[c]) > 1 => InLoader(c)' /\ Top(c)'.for = "load"
      /\ ~(Len(stack[c]) > 1) => ~InLoader(c)'
      /\ \A d \in Codec \ {c} : stack'[d] = stack[d] /\ ~InLoader(d)
  BY <1>1, BottomReturns
<1>3. \A d \in Codec \ {c} : phase'[d] = phase[d] /\ handles'[d] = handles[d]
  BY DEF Return, Safe, Types
<1>4. \A d \in Codec : ~InRelease(d)' /\ ~InFree(d)' /\ ~InFree(d)
  <2>1. ~InRelease(c)' /\ ~InFree(c)' /\ ~InFree(c)
    BY <1>2 DEF InRelease, InFree
  <2>2. ASSUME NEW d \in Codec \ {c} PROVE ~InRelease(d)' /\ ~InFree(d)' /\ ~InFree(d)
    BY <1>2 DEF InRelease, InFree, InLoader
  <2> QED
    BY <2>1, <2>2
<1>5. Named'
  <2>1. NamedOf(c)' /\ CallOf(c)'
    BY NamedReturns DEF HInv, Named
  <2>2. ASSUME NEW d \in Codec \ {c} PROVE NamedOf(d)' /\ CallOf(d)'
    BY <1>2, <1>3 DEF HInv, Named, NamedOf, CallOf, InLoader
  <2> QED
    BY <2>1, <2>2 DEF Named
<1>6. Emptied'
  BY <1>4 DEF Emptied
<1>7. Keeps'
  <2> SUFFICES ASSUME NEW d \in Codec, ~Exposed(d)'
               PROVE  Elements(handles[d])' \subseteq Elements(attached)'
    BY DEF Keeps
  <2>1. ~Exposed(d)
    BY DEF Exposed, Counted, FreesItsDll
  <2>2. Elements(handles[d]) \subseteq Elements(attached)
    BY <1>4, <2>1 DEF HInv, Keeps
  <2>3. CASE handles'[d] = handles[d]
    BY <2>2, <2>3
  <2>4. CASE handles'[d] = <<>>
    BY <2>4 DEF Elements
  <2>5. CASE d = c /\ ~(Len(stack[c]) > 1) /\ h # None
    <3>1. handles'[c] = Append(handles[c], h) /\ handles[c] \in Seq(Module) /\ h \in Module
      BY <2>5 DEF Return, Safe, Types
    <3>2. Elements(handles'[c]) \subseteq Elements(handles[c]) \cup {h}
      BY <3>1 DEF Elements
    <3> QED
      BY <2>2, <2>5, <3>2
  <2>6. handles'[c] = handles[c] \/ handles'[c] = <<>> \/ (~(Len(stack[c]) > 1) /\ h # None)
    BY DEF Return, Safe, Types
  <2> QED
    BY <1>3, <2>3, <2>4, <2>5, <2>6
<1> QED
  BY <1>5, <1>6, <1>7 DEF HInv

\* A codec closes: it has no handles any more.
LEMMA KeepsCloses ==
  ASSUME Safe, HInv, NEW c \in Codec, NEW p \in {"closed", "closing"}, ClosedTo(c, p),
         \A d \in Codec \ {c} : stack'[d] = stack[d], ~InLoader(c)',
         Elements(attached)' = Elements(attached)
  PROVE  HInv'
<1>1. /\ phase'[c] = p /\ handles'[c] = <<>>
      /\ \A d \in Codec \ {c} : phase'[d] = phase[d] /\ handles'[d] = handles[d]
  BY DEF ClosedTo, Safe, Types
<1>2. ASSUME NEW d \in Codec \ {c}
      PROVE  InRelease(d)' = InRelease(d) /\ InFree(d)' = InFree(d)
  BY DEF InRelease, InFree, InLoader, Top
<1>3. Named'
  <2>1. NamedOf(c)' /\ CallOf(c)'
    <3>1. Len(handles'[c]) = 0 /\ 0 <= Len(Needs[c])
      BY <1>1, NoHandles
    <3>2. phase'[c] # "open" /\ 1..0 = {}
      BY <1>1
    <3>3. NamedOf(c)'
      BY <3>1, <3>2 DEF NamedOf
    <3>4. CallOf(c)'
      BY DEF CallOf
    <3> QED
      BY <3>3, <3>4
  <2>2. ASSUME NEW d \in Codec \ {c} PROVE NamedOf(d)' /\ CallOf(d)'
    <3>1. NamedOf(d) /\ CallOf(d)
      BY DEF HInv, Named
    <3>2. handles'[d] = handles[d] /\ phase'[d] = phase[d] /\ stack'[d] = stack[d]
      BY <1>1
    <3>3. NamedOf(d)'
      BY <3>1, <3>2 DEF NamedOf
    <3>4. CallOf(d)'
      BY <3>1, <3>2 DEF CallOf, InLoader
    <3> QED
      BY <3>3, <3>4
  <2> QED
    BY <2>1, <2>2 DEF Named
<1>4. Emptied'
  <2> SUFFICES ASSUME NEW d \in Codec, InRelease(d)', NEW e \in Codec, Counted(e)
               PROVE  handles'[e] = <<>>
    BY DEF Emptied, Counted
  <2>1. d # c /\ InRelease(d)
    BY <1>2 DEF InRelease
  <2> QED
    BY <1>1, <2>1 DEF HInv, Emptied
<1>5. Keeps'
  <2> SUFFICES ASSUME NEW d \in Codec, ~Exposed(d)', ~InFree(d)'
               PROVE  Elements(handles[d])' \subseteq Elements(attached)'
    BY DEF Keeps
  <2>1. ~Exposed(d)
    BY DEF Exposed, Counted, FreesItsDll
  <2>2. CASE d = c
    <3>1. handles'[d] = <<>>
      BY <1>1, <2>2
    <3> QED
      BY <3>1 DEF Elements
  <2>3. CASE d # c
    BY <1>1, <1>2, <2>1, <2>3 DEF HInv, Keeps
  <2> QED
    BY <2>2, <2>3
<1> QED
  BY <1>3, <1>4, <1>5 DEF HInv

\* A wrapper calls the loader, when nobody is in it.
LEMMA KeepsBegins ==
  ASSUME Safe, HInv, NEW c \in Codec, stack[c] = <<>>, \A d \in Codec : ~InLoader(d),
         NEW t \in Frame, Call(c, t), UNCHANGED <<phase, handles, attached>>,
         t.for = "load" => t.at = "find" /\ t.dll = Needs[c][Len(handles[c]) + 1],
         t.for = "free" => FreesItsDll(c) /\ t.mod[1] = Needs[c][Len(Needs[c])],
         t.for = "release" => \A d \in Codec : Counted(d) => handles[d] = <<>>
  PROVE  HInv'
<1>1. stack'[c] = <<t>> /\ \A d \in Codec \ {c} : stack'[d] = stack[d]
  BY DEF Safe, Types, Call
<1>2. <<t>> # <<>> /\ Head(<<t>>) = t /\ Bottom(<<t>>) = t
  BY DEF Bottom
<1>3. \A d \in Codec \ {c} : ~InLoader(d)'
  BY <1>1 DEF InLoader
<1>4. Named'
  <2>1. \A d \in Codec : NamedOf(d)'
    BY DEF HInv, Named, NamedOf
  <2>2. CallOf(c)'
    BY <1>1, <1>2 DEF CallOf
  <2>3. \A d \in Codec \ {c} : CallOf(d)'
    BY <1>3 DEF CallOf
  <2> QED
    BY <2>1, <2>2, <2>3 DEF Named
<1>5. Emptied'
  <2> SUFFICES ASSUME NEW d \in Codec, InRelease(d)', NEW e \in Codec, Counted(e)
               PROVE  handles'[e] = <<>>
    BY DEF Emptied, Counted
  <2>1. d = c
    BY <1>3 DEF InRelease
  <2>2. t.for = "release"
    BY <1>1, <1>2, <2>1 DEF InRelease, Top
  <2> QED
    BY <2>2
<1>6. Keeps'
  <2> SUFFICES ASSUME NEW d \in Codec, ~Exposed(d)'
               PROVE  Elements(handles[d])' \subseteq Elements(attached)'
    BY DEF Keeps
  <2>1. ~Exposed(d) /\ ~InFree(d)
    BY DEF Exposed, Counted, FreesItsDll, InFree
  <2> QED
    BY <2>1 DEF HInv, Keeps
<1> QED
  BY <1>4, <1>5, <1>6 DEF HInv

\* An entry point calls LoadLibraryA.
LEMMA KeepsNested ==
  ASSUME Safe, HInv, NEW c \in Codec, InLoader(c), Top(c).for = "load",
         NEW t \in Frame, t.for = "load", Call(c, t), UNCHANGED <<phase, handles, attached>>
  PROVE  HInv'
<1>1. /\ InLoader(c)' /\ Top(c)' = t /\ Bottom(stack[c])' = Bottom(stack[c])
      /\ \A d \in Codec \ {c} : stack'[d] = stack[d] /\ ~InLoader(d)
  BY BottomCalls
<1>2. \A d \in Codec : ~InRelease(d)' /\ ~InFree(d)
  <2>1. ~InRelease(c)' /\ ~InFree(c)
    BY <1>1 DEF InRelease, InFree
  <2>2. \A d \in Codec \ {c} : ~InRelease(d)' /\ ~InFree(d)
    BY <1>1 DEF InRelease, InFree, InLoader
  <2> QED
    BY <2>1, <2>2
<1>3. Named'
  <2>1. \A d \in Codec : NamedOf(d)'
    BY DEF HInv, Named, NamedOf
  <2>2. CallOf(c)'
    BY <1>1 DEF HInv, Named, CallOf
  <2>3. \A d \in Codec \ {c} : CallOf(d)'
    BY <1>1 DEF CallOf, InLoader
  <2> QED
    BY <2>1, <2>2, <2>3 DEF Named
<1>4. Emptied'
  BY <1>2 DEF Emptied
<1>5. Keeps'
  <2> SUFFICES ASSUME NEW d \in Codec, ~Exposed(d)'
               PROVE  Elements(handles[d])' \subseteq Elements(attached)'
    BY DEF Keeps
  <2>1. ~Exposed(d)
    BY DEF Exposed, Counted, FreesItsDll
  <2> QED
    BY <1>2, <2>1 DEF HInv, Keeps
<1> QED
  BY <1>3, <1>4, <1>5 DEF HInv

\* CodecAlloc, whoever is in the loader: the codec has no handles yet.
LEMMA KeepsOpenCodec ==
  ASSUME Safe, HInv, NEW c \in Codec, OpenCodec(c)
  PROVE  HInv'
<1>1. UNCHANGED <<handles, stack, attached>> /\ phase' = [phase EXCEPT ![c] = "opening"]
  BY DEF OpenCodec, modules
<1>2. Named'
  <2>1. ASSUME NEW d \in Codec PROVE NamedOf(d)' /\ CallOf(d)'
    <3>1. phase'[d] = "open" => phase[d] = "open"
      BY <1>1 DEF Safe, Types
    <3> QED
      BY <1>1, <3>1 DEF HInv, Named, NamedOf, CallOf, InLoader
  <2> QED
    BY <2>1 DEF Named
<1>3. Emptied' /\ Keeps'
  BY <1>1 DEF HInv, Emptied, Keeps, InRelease, InFree, InLoader, Top, Exposed, Counted, FreesItsDll
<1> QED
  BY <1>2, <1>3 DEF HInv

-----------------------------------------------------------------------------

\* CodecRelease: when it counts down to zero, no counted codec has a handle.
LEMMA KeepsCodecRelease ==
  ASSUME IInv, HInv, IInv', Serialized, IsFiniteSet(Codec), NEW c \in Codec, CodecRelease(c)
  PROVE  HInv'
<1>1. /\ phase[c] = "closing" /\ MayCall(c) /\ UNCHANGED <<attached, handles>> /\ handles[c] = <<>> /\ Safe
  BY DEF CodecRelease, IInv, Safe, Held, modules
<1>2. stack[c] = <<>> /\ \A d \in Codec : ~InLoader(d)
  BY <1>1, Outside
<1>3. CASE acounter' = 0
  <2>1. PICK t \in Frame : t = [at |-> "loop", for |-> "release", dll |-> None, mod |-> None]
    BY DEF Frame, Locations
  <2>2. Call(c, t) /\ UNCHANGED phase
    BY <1>3, <2>1 DEF CodecRelease
  <2>3. ASSUME NEW d \in Codec, Counted(d) PROVE handles[d] = <<>>
    <3>1. Open' = {}
      <4>1. IsFiniteSet(Open')
        BY FS_Subset DEF Open
      <4> QED
        BY <1>3, <4>1, FS_EmptySet DEF IInv, Count
    <3>2. phase'[d] = "closed" \/ InRelease(d)'
      BY <2>3, <3>1 DEF Open, Counted
    <3>3. InRelease(d)' => phase'[d] = "closing"
      BY DEF IInv, Safe, Calls, InRelease, PhaseOf
    <3>4. handles'[d] = <<>>
      BY <3>2, <3>3 DEF IInv, Safe, Held
    <3> QED
      BY <1>1, <3>4
  <2> QED
    BY <1>1, <1>2, <2>1, <2>2, <2>3, KeepsBegins
<1>4. CASE acounter' # 0
  <2>1. phase' = [phase EXCEPT ![c] = "closed"] /\ UNCHANGED stack
    BY <1>4 DEF CodecRelease
  <2>2. ClosedTo(c, "closed")
    BY <1>1, <2>1 DEF ClosedTo, Safe, Types
  <2>3. ~InLoader(c)'
    BY <1>2, <2>1 DEF InLoader
  <2> QED
    BY <1>1, <2>1, <2>2, <2>3, KeepsCloses
<1> QED
  BY <1>3, <1>4

\* A wrapper calls LoadLibraryA for its next DLL.
LEMMA KeepsLoadLibrary ==
  ASSUME Safe, HInv, Serialized, NEW c \in Codec, LoadLibrary(c)
  PROVE  HInv'
<1> DEFINE d == Needs[c][Len(handles[c]) + 1]
<1>1. /\ phase[c] = "opening" /\ MayCall(c) /\ UNCHANGED <<attached, phase, handles>>
      /\ Call(c, [at |-> "find", for |-> "load", dll |-> d, mod |-> None])
  BY DEF LoadLibrary, modules
<1>2. stack[c] = <<>> /\ \A e \in Codec : ~InLoader(e)
  BY <1>1, Outside
<1>3. d \in Dll
  <2>1. Len(handles[c]) < Len(Needs[c]) /\ Len(handles[c]) \in Nat /\ Needs[c] \in Seq(Dll)
    BY <1>1, CodecAssumption DEF Safe, Types, Held
  <2> QED
    BY <2>1
<1>4. PICK t \in Frame : t = [at |-> "find", for |-> "load", dll |-> d, mod |-> None]
  BY <1>3 DEF Frame, Locations
<1>5. Call(c, t) /\ t.for = "load" /\ t.at = "find" /\ t.dll = d
  BY <1>1, <1>4
<1> QED
  BY <1>1, <1>2, <1>5, KeepsBegins

\* A wrapper frees the DLL it loaded last.
LEMMA KeepsFreeLibrary ==
  ASSUME Safe, HInv, Serialized, NEW c \in Codec, FreeLibrary(c)
  PROVE  HInv'
<1> DEFINE h == handles[c][Len(handles[c])]
<1>1. phase[c] = "open" /\ FreesItsDll(c) /\ MayCall(c) /\ UNCHANGED attached
  BY DEF FreeLibrary, modules
<1>2. stack[c] = <<>> /\ \A e \in Codec : ~InLoader(e)
  BY <1>1, Outside
<1>3. h \in Module /\ h[1] = Needs[c][Len(Needs[c])]
  <2>1. handles[c] \in Seq(Module) /\ Len(handles[c]) = Len(Needs[c]) /\ Len(Needs[c]) \in {1, 2}
        /\ \A i \in 1..Len(handles[c]) : handles[c][i][1] = Needs[c][i]
    BY <1>1, CodecAssumption DEF Safe, Types, HInv, Named, NamedOf
  <2>2. Len(handles[c]) \in 1..Len(handles[c])
    <3>1. \A n \in {1, 2} : n \in 1..n
      OBVIOUS
    <3> QED
      BY <2>1, <3>1, Zenon
  <2> QED
    BY <2>1, <2>2
<1>4. CASE LookupHMODULE(h)
  <2>1. PICK t \in Frame : t = [at |-> "detach", for |-> "free", dll |-> None, mod |-> h]
    BY <1>3 DEF Frame, Locations
  <2>2. Call(c, t) /\ UNCHANGED <<phase, handles>>
    BY <1>4, <2>1 DEF FreeLibrary
  <2>3. t.for = "free" /\ t.mod = h
    BY <2>1
  <2> QED
    BY <1>1, <1>2, <1>3, <2>2, <2>3, KeepsBegins
<1>5. CASE ~LookupHMODULE(h)
  <2>1. ClosedTo(c, AfterFree(c)) /\ UNCHANGED stack
    BY <1>5 DEF FreeLibrary
  <2>2. PICK p \in {"closed", "closing"} : p = AfterFree(c)
    BY DEF AfterFree
  <2>3. ~InLoader(c)'
    BY <1>2, <2>1 DEF InLoader
  <2> QED
    BY <1>1, <2>1, <2>2, <2>3, KeepsCloses
<1> QED
  BY <1>4, <1>5

\* A DMO closes and leaves its DLL on the list.
LEMMA KeepsCloseDmo ==
  ASSUME Safe, HInv, NEW c \in Codec, CloseDmo(c)
  PROVE  HInv'
<1>1. ClosedTo(c, "closing") /\ UNCHANGED <<attached, stack>> /\ ~InLoader(c)'
  BY DEF CloseDmo, modules, InLoader
<1> QED
  BY <1>1, KeepsCloses

\* The innermost call goes on at another place.
LEMMA FrameOfContinue ==
  ASSUME Safe, NEW c \in Codec, InLoader(c), NEW l \in Locations, Continue(c, l)
  PROVE  \E t \in Frame : /\ t.at = l /\ t.for = Top(c).for /\ t.dll = Top(c).dll /\ t.mod = Top(c).mod
                          /\ stack' = [stack EXCEPT ![c] = [@ EXCEPT ![1] = t]]
<1>1. Top(c) \in Frame /\ stack[c][1] = Top(c) /\ stack[c] \in Seq(Frame) /\ stack[c] # <<>>
  BY Inside
<1>2. PICK t \in Frame : t = [Top(c) EXCEPT !.at = l]
  BY <1>1 DEF Frame
<1>3. t.at = l /\ t.for = Top(c).for /\ t.dll = Top(c).dll /\ t.mod = Top(c).mod
  BY <1>1, <1>2 DEF Frame
<1>4. stack' = [stack EXCEPT ![c] = [@ EXCEPT ![1] = t]]
  BY <1>1, <1>2 DEF Continue
<1> QED
  BY <1>3, <1>4

\* It goes on about another module.
LEMMA FrameOfContinueWith ==
  ASSUME Safe, NEW c \in Codec, InLoader(c), NEW l \in Locations, NEW m \in Module, ContinueWith(c, l, m)
  PROVE  \E t \in Frame : /\ t.at = l /\ t.for = Top(c).for /\ t.mod = m
                          /\ stack' = [stack EXCEPT ![c] = [@ EXCEPT ![1] = t]]
<1>1. Top(c) \in Frame /\ stack[c][1] = Top(c) /\ stack[c] \in Seq(Frame) /\ stack[c] # <<>>
  BY Inside
<1>2. PICK t \in Frame : t = [Top(c) EXCEPT !.at = l, !.mod = m]
  BY <1>1 DEF Frame
<1>3. t.at = l /\ t.for = Top(c).for /\ t.mod = m
  BY <1>1, <1>2 DEF Frame
<1>4. stack' = [stack EXCEPT ![c] = [@ EXCEPT ![1] = t]]
  BY <1>1, <1>2 DEF ContinueWith
<1> QED
  BY <1>3, <1>4

\* MODULE_FindModule returns the DLL that was asked for, which is attached unless it waits.
LEMMA KeepsFindModule ==
  ASSUME Safe, HInv, NEW c \in Codec, FindModule(c)
  PROVE  HInv'
<1>1. At(c, "find") /\ UNCHANGED <<list, attached>> /\ Top(c).at = "find"
  BY DEF FindModule, modules, At, Top
<1>2. /\ InLoader(c) /\ Top(c).for = "load" /\ Top(c).dll \in Dll
      /\ Elements(list) = image /\ Elements(attached) = image \ Outer(stack[c])
  BY <1>1, AtFind
<1>3. CASE NodesOf(Top(c).dll) = {}
  <2>1. Continue(c, "map") /\ UNCHANGED <<phase, handles>> /\ "map" \in Locations
    BY <1>3 DEF FindModule, Locations
  <2>2. PICK t \in Frame : /\ t.at = "map" /\ t.for = Top(c).for /\ t.dll = Top(c).dll
                           /\ stack' = [stack EXCEPT ![c] = [@ EXCEPT ![1] = t]]
    BY <1>2, <2>1, FrameOfContinue
  <2> QED
    BY <1>1, <1>2, <2>1, <2>2, KeepsGoes
<1>4. CASE NodesOf(Top(c).dll) # {}
  <2>1. PICK i \in NodesOf(Top(c).dll) : Return(c, list[i])
    BY <1>4 DEF FindModule
  <2>2. PICK h \in Module \cup {None} : h = list[i] /\ h[1] = Top(c).dll /\ h \in Elements(list) /\ Return(c, h)
    BY <2>1 DEF NodesOf, Elements, Safe, Types
  <2>3. ~(Len(stack[c]) > 1) => h \in Elements(attached)'
    <3>1. ~(Len(stack[c]) > 1) => Outer(stack[c]) = {}
      BY <1>2, OuterOfOne
    <3> QED
      BY <1>1, <1>2, <2>2, <3>1
  <2> QED
    BY <1>1, <1>2, <2>2, <2>3, KeepsReturns
<1> QED
  BY <1>3, <1>4

\* Nothing is mapped, and LoadLibrary returns null.
LEMMA KeepsMapFails ==
  ASSUME Safe, HInv, NEW c \in Codec, MapFails(c)
  PROVE  HInv'
<1>1. At(c, "map") /\ Return(c, None) /\ UNCHANGED attached
  BY DEF MapFails, modules
<1>2. InLoader(c) /\ Top(c).for = "load"
  BY <1>1, AtFind
<1>3. PICK h \in Module \cup {None} : h = None
  OBVIOUS
<1> QED
  BY <1>1, <1>2, <1>3, KeepsReturns

\* The DLL that was asked for is mapped.
LEMMA KeepsMapImage ==
  ASSUME Safe, HInv, NEW c \in Codec, MapImage(c)
  PROVE  HInv'
<1>1. At(c, "map") /\ UNCHANGED <<attached, phase, handles>> /\ Top(c).at = "map"
  BY DEF MapImage, At, Top
<1>2. InLoader(c) /\ Top(c).for = "load" /\ Top(c).dll \in Dll
  BY <1>1, AtFind
<1>3. PICK m \in Module : m[1] = Top(c).dll /\ ContinueWith(c, "push", m)
  BY <1>2 DEF MapImage, Loadable, Base, Module
<1>4. PICK t \in Frame : /\ t.at = "push" /\ t.for = Top(c).for /\ t.mod = m
                         /\ stack' = [stack EXCEPT ![c] = [@ EXCEPT ![1] = t]]
  <2>1. "push" \in Locations
    BY DEF Locations
  <2> QED
    BY <1>2, <1>3, <2>1, FrameOfContinueWith
<1> QED
  BY <1>1, <1>2, <1>3, <1>4, KeepsGoes

\* The module in hand stays the same until its entry point has returned, or is removed.
LEMMA KeepsOn ==
  ASSUME Safe, HInv, NEW c \in Codec,
         \/ PushModule(c) \/ AttachFails(c) \/ Unload(c)
         \/ Remove(c) /\ Top(c).for = "release"
  PROVE  HInv'
<1>1. PICK l \in {"attach", "detach", "remove", "loop"} :
        /\ InLoader(c) /\ Continue(c, l) /\ UNCHANGED <<phase, handles, attached>>
        /\ l = "attach" => Top(c).at = "push"
  BY DEF PushModule, AttachFails, Unload, Remove, AfterRemove, modules, At, Top
<1>2. PICK t \in Frame : /\ t.at = l /\ t.for = Top(c).for /\ t.mod = Top(c).mod
                         /\ stack' = [stack EXCEPT ![c] = [@ EXCEPT ![1] = t]]
  <2>1. l \in Locations
    BY DEF Locations
  <2> QED
    BY <1>1, <2>1, FrameOfContinue
<1> QED
  BY <1>1, <1>2, KeepsGoes

\* A module is told that it goes.
LEMMA KeepsDetach ==
  ASSUME Safe, HInv, NEW c \in Codec, Detach(c)
  PROVE  HInv'
<1>1. InLoader(c) /\ Top(c).at = "detach" /\ UNCHANGED <<phase, handles>> /\ Continue(c, "unload")
      /\ "unload" \in Locations
  BY DEF Detach, At, Top, Locations
<1>2. PICK t \in Frame : /\ t.at = "unload" /\ t.for = Top(c).for /\ t.mod = Top(c).mod
                         /\ stack' = [stack EXCEPT ![c] = [@ EXCEPT ![1] = t]]
  BY <1>1, FrameOfContinue
<1>3. Elements(attached)' = Elements(attached) \ {Top(c).mod}
  <2>1. attached \in Seq(Module) /\ Injective(attached)
    BY DEF Safe, Types, Lists
  <2>2. attached' = Without(attached, Top(c).mod)
    BY DEF Detach
  <2> QED
    BY <2>1, <2>2, WithoutOne
<1> QED
  BY <1>1, <1>2, <1>3, KeepsGoes

\* An entry point returned TRUE: its module is attached, and is the one that was asked for.
LEMMA KeepsAttachReturns ==
  ASSUME Safe, HInv, NEW c \in Codec, AttachReturns(c)
  PROVE  HInv'
<1>1. At(c, "attach") /\ attached' = Append(attached, Top(c).mod)
  BY DEF AttachReturns
<1>2. InLoader(c) /\ Top(c).at = "attach" /\ Top(c).for = "load" /\ Top(c).mod \in Module
  BY <1>1, AtAttach
<1>3. PICK h \in Module \cup {None} : Return(c, h) /\ (h # None => h = Top(c).mod)
  BY <1>2 DEF AttachReturns
<1>4. Elements(attached)' = Elements(attached) \cup {Top(c).mod}
  <2>1. attached \in Seq(Module) /\ Injective(attached) /\ Top(c).mod \notin Elements(attached)
    BY <1>1, AtAttach DEF Safe, Types, Lists
  <2> QED
    BY <1>1, <1>2, <2>1, AppendedElements
<1> QED
  BY <1>2, <1>3, <1>4, KeepsReturns

\* A call that is alone is over, and its codec closes.
LEMMA KeepsOver ==
  ASSUME Safe, HInv, NEW c \in Codec, InLoader(c), Top(c).for # "load",
         stack' = [stack EXCEPT ![c] = Tail(@)],
         NEW p \in {"closed", "closing"}, ClosedTo(c, p), UNCHANGED attached
  PROVE  HInv'
<1>1. stack'[c] = <<>> /\ \A d \in Codec \ {c} : stack'[d] = stack[d]
  BY ReturnsAlone
<1> QED
  BY <1>1, KeepsCloses DEF InLoader

\* A module is off the list.
LEMMA KeepsRemove ==
  ASSUME Safe, HInv, NEW c \in Codec, Remove(c)
  PROVE  HInv'
<1>1. InLoader(c) /\ Top(c).at = "remove" /\ AfterRemove(c) /\ UNCHANGED attached
  BY DEF Remove, At, Top
<1>2. CASE Top(c).for = "load"
  <2>1. PICK h \in Module \cup {None} : h = None /\ Return(c, h)
    BY <1>1, <1>2 DEF AfterRemove
  <2> QED
    BY <1>1, <1>2, <2>1, KeepsReturns
<1>3. CASE Top(c).for = "free"
  <2>1. stack' = [stack EXCEPT ![c] = Tail(@)] /\ ClosedTo(c, AfterFree(c))
    BY <1>1, <1>3 DEF AfterRemove
  <2>2. PICK p \in {"closed", "closing"} : p = AfterFree(c)
    BY DEF AfterFree
  <2> QED
    BY <1>1, <1>3, <2>1, <2>2, KeepsOver
<1>4. CASE Top(c).for = "release"
  BY <1>4, KeepsOn
<1> QED
  BY <1>1, <1>2, <1>3, <1>4, Inside DEF Frame

\* The last release takes the next module, or is over.
LEMMA KeepsReleaseNext ==
  ASSUME Safe, HInv, NEW c \in Codec, ReleaseNext(c)
  PROVE  HInv'
<1>1. InLoader(c) /\ Top(c).for = "release" /\ UNCHANGED <<attached, handles>> /\ handles[c] = <<>>
  <2>1. InLoader(c) /\ Top(c).at = "loop" /\ UNCHANGED <<attached, handles>>
    BY DEF ReleaseNext, At, Top, modules
  <2>2. Top(c).for = "release" /\ phase[c] = "closing"
    BY <2>1, Inside DEF TopOf, PhaseOf
  <2> QED
    BY <2>1, <2>2 DEF Safe, Held
<1>2. CASE list = <<>>
  <2>1. stack' = [stack EXCEPT ![c] = Tail(@)] /\ phase' = [phase EXCEPT ![c] = "closed"]
    BY <1>2 DEF ReleaseNext
  <2>2. ClosedTo(c, "closed")
    BY <1>1, <2>1 DEF ClosedTo, Safe, Types
  <2> QED
    BY <1>1, <2>1, <2>2, KeepsOver
<1>3. CASE list # <<>>
  <2>1. PICK m \in Module : m = Head(list)
    BY <1>3 DEF Safe, Types
  <2>2. ContinueWith(c, "detach", m) /\ UNCHANGED phase /\ "detach" \in Locations
    BY <1>3, <2>1 DEF ReleaseNext, Locations
  <2>3. PICK t \in Frame : /\ t.at = "detach" /\ t.for = Top(c).for
                           /\ stack' = [stack EXCEPT ![c] = [@ EXCEPT ![1] = t]]
    BY <1>1, <2>2, FrameOfContinueWith
  <2> QED
    BY <1>1, <2>2, <2>3, KeepsGoes
<1> QED
  BY <1>2, <1>3

\* An entry point calls LoadLibraryA.
LEMMA KeepsAttachLoadsAnother ==
  ASSUME Safe, HInv, NEW c \in Codec, AttachLoadsAnother(c)
  PROVE  HInv'
<1>1. At(c, "attach") /\ UNCHANGED <<attached, phase, handles>>
  BY DEF AttachLoadsAnother, modules
<1>2. InLoader(c) /\ Top(c).for = "load" /\ Top(c).mod \in Module
  BY <1>1, AtAttach
<1>3. PICK d \in Dll : Call(c, [at |-> "find", for |-> "load", dll |-> d, mod |-> None])
  <2>1. Top(c).mod[1] \in Dll
    BY <1>2 DEF Module
  <2> QED
    BY <2>1, DllAssumption DEF AttachLoadsAnother
<1>4. PICK t \in Frame : t = [at |-> "find", for |-> "load", dll |-> d, mod |-> None]
  BY DEF Frame, Locations
<1> QED
  BY <1>1, <1>2, <1>3, <1>4, KeepsNested

\* Every step keeps what is known of the handles.
LEMMA KeepsStep ==
  ASSUME IInv, HInv, IInv', Serialized, IsFiniteSet(Codec), [Next]_vars
  PROVE  HInv'
<1>1. Safe
  BY DEF IInv
<1>2. ASSUME NEW c \in Codec, WrapperStep(c) PROVE HInv'
  BY <1>1, <1>2, KeepsOpenCodec, KeepsLoadLibrary, KeepsFreeLibrary, KeepsCloseDmo, KeepsCodecRelease
     DEF WrapperStep
<1>3. ASSUME NEW c \in Codec, LoaderStep(c) PROVE HInv'
  BY <1>1, <1>3, KeepsFindModule, KeepsMapFails, KeepsMapImage, KeepsOn, KeepsAttachReturns,
     KeepsDetach, KeepsRemove, KeepsReleaseNext
     DEF LoaderStep
<1>4. CASE UNCHANGED vars
  BY <1>4 DEF vars, HInv, Named, NamedOf, CallOf, Emptied, Keeps, InRelease, InFree, InLoader, Top,
              Exposed, Counted, FreesItsDll
<1> QED
  BY <1>1, <1>2, <1>3, <1>4, KeepsAttachLoadsAnother DEF Next

\* Every DLL of an open codec stays mapped until it closes, unless another codec frees a DLL
\* that it loads, or it is not counted while another one is: whatever else is loaded, fails to
\* load or is unloaded meanwhile, and however the opens and closes are interleaved.
THEOREM OpenCodecKeepsDllsAlways ==
  ASSUME Serialized, IsFiniteSet(Codec)
  PROVE  Spec => []OpenCodecKeepsDlls
<1>1. Init => HInv
  <2> SUFFICES ASSUME Init PROVE HInv
    OBVIOUS
  <2>1. \A c \in Codec : handles[c] = <<>> /\ phase[c] = "closed" /\ ~InLoader(c)
    BY DEF Init, InLoader
  <2>2. ASSUME NEW c \in Codec PROVE NamedOf(c) /\ CallOf(c)
    <3>1. Len(handles[c]) = 0 /\ 0 <= Len(Needs[c])
      BY <2>1, NoHandles
    <3> QED
      BY <2>1, <3>1 DEF NamedOf, CallOf
  <2>3. Emptied /\ Keeps
    BY <2>1 DEF Emptied, InRelease, Keeps, Elements
  <2> QED
    BY <2>2, <2>3 DEF HInv, Named
<1>2. IInv /\ HInv /\ [Next]_vars /\ IInv' => HInv'
  BY KeepsStep
<1>3. IInv /\ HInv => OpenCodecKeepsDlls
  <2> SUFFICES ASSUME IInv, HInv, NEW c \in Codec, ~InLoader(c), ~Exposed(c)
               PROVE  Elements(handles[c]) \subseteq image
    BY DEF OpenCodecKeepsDlls
  <2>1. Elements(handles[c]) \subseteq Elements(attached)
    BY DEF HInv, Keeps, InFree
  <2>2. Elements(attached) \subseteq image
    <3>1. CASE NoCall
      BY <3>1 DEF IInv, Safe, Modules
    <3>2. ASSUME NEW d \in Codec, InLoader(d) PROVE Elements(attached) \subseteq image
      BY <3>2, Inside DEF IInv, ModulesOf
    <3> QED
      BY <3>1, <3>2 DEF NoCall
  <2> QED
    BY <2>1, <2>2
<1> QED
  BY <1>1, <1>2, <1>3, InductiveInvariant, PTL DEF Spec
=============================================================================
