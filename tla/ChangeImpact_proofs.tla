------------------------ MODULE ChangeImpact_proofs ------------------------
(***************************************************************************)
(* The change impact of an analysis is exact: the diff parser maps the         *)
(* symbols with a changed line and no other, and the walk over the graph,      *)
(* while it meets no limit of nodes, selects what lies within its depth, at    *)
(* its distance, with every reason and the best score of them; truncated, it   *)
(* is still a result that explains itself.  For every repository, diff, graph, *)
(* order of the edges and limit.                                              *)
(*                                                                            *)
(* The walk keeps two things: SoundOK, nothing is in the result that the       *)
(* graph does not give, and ThoroughOK, until a node is refused nothing that   *)
(* has been looked at is missing and no node is farther than it could be.     *)
(* At its end, when nothing waits, they meet (OverFacts, ResultExact).         *)
(***************************************************************************)
EXTENDS ChangeImpact, FiniteSetTheorems, SequenceTheorems, WellFoundedInduction, TLAPS

\* A set of numbers has a smallest one.
LEMMA Smallest ==
  ASSUME NEW T, T \subseteq Nat, T # {}
  PROVE  \E n \in T : \A m \in T : ~(m < n)
<1>1. PICK n \in T : \A m \in T : <<m, n>> \notin OpToRel(<, Nat)
  BY Zenon, WFMin, NatLessThanWellFounded
<1>2. \A m \in T : ~(m < n)
  BY <1>1 DEF OpToRel
<1> QED  BY <1>2

-----------------------------------------------------------------------------
(* The diff. *)

\* The lowest and the highest of a bounded set of numbers are in it.
LEMMA Lowest ==
  ASSUME NEW S, S \subseteq Nat, S # {}
  PROVE  ImpactLowest(S) \in S /\ \A x \in S : ImpactLowest(S) <= x
<1>1. PICK n \in S : \A m \in S : ~(m < n)  BY Smallest
<1>2. \A x \in S : n <= x  BY <1>1
<1> QED  BY <1>2 DEF ImpactLowest

LEMMA Highest ==
  ASSUME NEW S, S \subseteq Nat, S # {}, NEW b \in Nat, \A x \in S : x <= b
  PROVE  ImpactHighest(S) \in S /\ \A x \in S : x <= ImpactHighest(S)
<1> DEFINE Bounds == {m \in Nat : \A x \in S : x <= m}
<1>1. PICK m \in Bounds : \A k \in Bounds : ~(k < m)
  <2>1. Bounds \subseteq Nat /\ Bounds # {}  OBVIOUS
  <2> HIDE DEF Bounds
  <2> QED  BY <2>1, Smallest
<1>2. m \in Nat /\ \A x \in S : x <= m  BY <1>1
<1>3. m \in S
  <2> SUFFICES ASSUME m \notin S PROVE FALSE  OBVIOUS
  <2>1. \A x \in S : x \in Nat /\ x < m  BY <1>2
  <2>2. m - 1 \in Bounds
    <3>1. PICK x \in S : TRUE  OBVIOUS
    <3>2. m - 1 \in Nat  BY <1>2, <2>1, <3>1
    <3>3. \A y \in S : y <= m - 1  BY <1>2, <2>1
    <3> QED  BY <3>2, <3>3
  <2> QED  BY <1>1, <1>2, <2>2
<1> QED  BY <1>2, <1>3 DEF ImpactHighest

\* The number of a line grows by one with each line of its file.
LEMMA NumberStep ==
  ASSUME NEW n \in Nat, NEW s \in [1..n -> Line], NEW side
  PROVE  /\ \A i \in 0..n : Number(s, side, i) \in Nat
         /\ \A i \in 1..n : Number(s, side, i) = Number(s, side, i - 1) + IF s[i].mark # side THEN 1 ELSE 0
<1> DEFINE upTo(i) == {k \in In(s, side) : k <= i}
<1>1. \A i \in 0..n : IsFiniteSet(upTo(i))
  <2>1. IsFiniteSet(1..n)  BY FS_Interval
  <2>2. \A i \in 0..n : upTo(i) \in SUBSET (1..n)  BY DEF In
  <2> HIDE DEF upTo
  <2> QED  BY <2>1, <2>2, FS_Subset
<1>2. ASSUME NEW i \in 0..n PROVE Number(s, side, i) = Cardinality(upTo(i))
  BY DEF Number
<1>3. ASSUME NEW i \in 0..n PROVE Number(s, side, i) \in Nat
  <2> HIDE DEF upTo
  <2> QED  BY <1>1, <1>2, FS_CardinalityType
<1>4. ASSUME NEW i \in 1..n
      PROVE  Number(s, side, i) = Number(s, side, i - 1) + IF s[i].mark # side THEN 1 ELSE 0
  <2>1. i - 1 \in 0..n /\ i \in 0..n  OBVIOUS
  <2>2. i \notin upTo(i - 1)  OBVIOUS
  <2>3. CASE s[i].mark # side
    <3>1. upTo(i) = upTo(i - 1) \cup {i}  BY <2>3 DEF In
    <3> HIDE DEF upTo
    <3> QED  BY <1>1, <1>2, <1>3, <2>1, <2>2, <2>3, <3>1, FS_AddElement
  <2>4. CASE s[i].mark = side
    <3>1. upTo(i) = upTo(i - 1)  BY <2>4 DEF In
    <3> HIDE DEF upTo
    <3> QED  BY <1>2, <1>3, <2>1, <2>4, <3>1
  <2> QED  BY <2>3, <2>4
<1> QED  BY <1>3, <1>4

\* Numbers never fall, and later lines have larger ones.
LEMMA NumbersGrow ==
  ASSUME NEW n \in Nat, NEW s \in [1..n -> Line], NEW side, NEW i \in 0..n, NEW k \in i..n
  PROVE  Number(s, side, i) <= Number(s, side, k)
<1> DEFINE Bad == {m \in Nat : m \in i..n /\ ~(Number(s, side, i) <= Number(s, side, m))}
<1>1. \A m \in 0..n : Number(s, side, m) \in Nat  BY NumberStep
<1>2. Bad = {}
  <2> SUFFICES ASSUME Bad # {} PROVE FALSE  OBVIOUS
  <2>1. PICK m \in Bad : \A x \in Bad : ~(x < m)
    <3>1. Bad \subseteq Nat  OBVIOUS
    <3> HIDE DEF Bad
    <3> QED  BY <3>1, Smallest
  <2>2. m \in Nat /\ m \in i..n /\ ~(Number(s, side, i) <= Number(s, side, m))  BY <2>1
  <2>3. m # i  BY <1>1, <2>2
  <2>4. m \in 1..n /\ m - 1 \in i..n /\ m - 1 \in Nat /\ m - 1 \in 0..n  BY <2>2, <2>3
  <2>5. Number(s, side, i) <= Number(s, side, m - 1)  BY <2>1, <2>4
  <2>6. Number(s, side, m - 1) <= Number(s, side, m)  BY <1>1, <2>4, NumberStep
  <2> QED  BY <1>1, <2>2, <2>4, <2>5, <2>6
<1>3. k \in Nat  OBVIOUS
<1> QED  BY <1>2, <1>3

LEMMA NumbersAscend ==
  ASSUME NEW n \in Nat, NEW s \in [1..n -> Line], NEW side,
         NEW i \in 0..n, NEW k \in In(s, side), i < k
  PROVE  Number(s, side, i) < Number(s, side, k)
<1>1. k \in 1..n /\ s[k].mark # side  BY DEF In
<1>2. k - 1 \in i..n /\ k - 1 \in 0..n /\ k \in 0..n  BY <1>1
<1>3. Number(s, side, i) <= Number(s, side, k - 1)  BY <1>2, NumbersGrow
<1>4. Number(s, side, k) = Number(s, side, k - 1) + 1  BY <1>1, NumberStep
<1>5. \A m \in 0..n : Number(s, side, m) \in Nat  BY NumberStep
<1> QED  BY <1>2, <1>3, <1>4, <1>5

\* A line of a file lies in the range of the symbol it belongs to and of no other.
LEMMA RangeTellsOwner ==
  ASSUME NEW n \in Nat, NEW s \in [1..n -> Line], NEW side, Contiguous(s, side),
         NEW j \in In(s, side), NEW d \in Decl
  PROVE  (d \in Symbols(s, side) /\ ImpactLowest(Lines(s, side, d)) <= Number(s, side, j)
            /\ Number(s, side, j) <= ImpactHighest(Lines(s, side, d)))
         <=> s[j].owner = d
<1> DEFINE own == {k \in In(s, side) : s[k].owner = d}
<1>0. In(s, side) \subseteq 1..n  BY DEF In
<1>1. Lines(s, side, d) = {Number(s, side, i) : i \in own}  BY DEF Lines
<1>2. \A i \in 1..n : Number(s, side, i) \in Nat
  <2>1. \A i \in 0..n : Number(s, side, i) \in Nat  BY NumberStep
  <2> QED  BY <2>1
<1>3. \A i, k \in In(s, side) : i < k => Number(s, side, i) < Number(s, side, k)
  BY <1>0, NumbersAscend
<1>4. Lines(s, side, d) \subseteq Nat  BY <1>0, <1>1, <1>2
<1>5. \A x \in Lines(s, side, d) : x <= Number(s, side, n)
  <2>1. \A i \in own : i \in 0..n /\ n \in i..n  BY <1>0
  <2>2. \A i \in own : Number(s, side, i) <= Number(s, side, n)  BY <2>1, NumbersGrow
  <2> QED  BY <1>1, <2>2
<1>6. n \in 0..n  OBVIOUS
<1>7. Number(s, side, n) \in Nat  BY <1>6, NumberStep
<1>8. ASSUME s[j].owner = d
      PROVE  d \in Symbols(s, side) /\ ImpactLowest(Lines(s, side, d)) <= Number(s, side, j)
             /\ Number(s, side, j) <= ImpactHighest(Lines(s, side, d))
  <2>1. Number(s, side, j) \in Lines(s, side, d)  BY <1>1, <1>8
  <2> QED  BY <1>4, <1>5, <1>7, <2>1, Lowest, Highest DEF Symbols
<1>9. ASSUME d \in Symbols(s, side), ImpactLowest(Lines(s, side, d)) <= Number(s, side, j),
             Number(s, side, j) <= ImpactHighest(Lines(s, side, d))
      PROVE  s[j].owner = d
  <2>1. Lines(s, side, d) # {}  BY <1>9 DEF Symbols
  <2>2. PICK i \in own : Number(s, side, i) = ImpactLowest(Lines(s, side, d))
    BY <1>1, <1>4, <2>1, Lowest
  <2>3. PICK k \in own : Number(s, side, k) = ImpactHighest(Lines(s, side, d))
    BY <1>1, <1>4, <1>5, <1>7, <2>1, Highest
  <2>4. i \in 1..n /\ j \in 1..n /\ k \in 1..n  BY <1>0
  <2>5. ~(j < i) /\ ~(k < j)  BY <1>2, <1>3, <1>9, <2>2, <2>3, <2>4
  <2>6. d # 0  BY ImpactAssumption, LenProperties DEF Decl
  <2>7. CASE j = i \/ j = k  BY <2>7
  <2>8. CASE i < j /\ j < k
    BY <2>6, <2>8 DEF Contiguous
  <2> QED  BY <2>4, <2>5, <2>7, <2>8
<1> QED  BY <1>8, <1>9

\* A function on the first n numbers is a sequence of that length.
LEMMA AsSequence ==
  ASSUME NEW S, NEW n \in Nat, NEW s \in [1..n -> S]
  PROVE  s \in Seq(S) /\ Len(s) = n /\ DOMAIN s = 1..n
<1>1. s \in Seq(S)  OBVIOUS
<1> QED  BY <1>1

\* What the parser has after k lines of a hunk that starts with line i.
Parsed(s, i, k) ==
    [old |-> Number(s, Before, i - 1 + k) + 1, new |-> Number(s, After, i - 1 + k) + 1,
     removed |-> {Number(s, Before, j) : j \in {x \in i..(i + k - 1) : s[x].mark = "-"}},
     added |-> {Number(s, After, j) : j \in {x \in i..(i + k - 1) : s[x].mark = "+"}}]

LEMMA ParseStep ==
  ASSUME NEW n \in Nat, NEW s \in [1..n -> Line], NEW i \in 1..n, NEW k \in Nat \ {0}, i + k - 1 \in 1..n
  PROVE  ParseLine(Parsed(s, i, k - 1), s[i + k - 1].mark) = Parsed(s, i, k)
<1> DEFINE at == i + k - 1
           m == s[at].mark
           removed(y) == {Number(s, Before, j) : j \in {x \in i..y : s[x].mark = "-"}}
           added(y) == {Number(s, After, j) : j \in {x \in i..y : s[x].mark = "+"}}
<1>1. at \in 1..n /\ at - 1 \in 0..n /\ at \in 0..n /\ at \in Int  OBVIOUS
<1>2. i - 1 + (k - 1) = at - 1 /\ i + (k - 1) - 1 = at - 1 /\ i - 1 + k = at  OBVIOUS
<1>3. m \in {"=", "-", "+"}  BY <1>1 DEF Line
<1>4. Parsed(s, i, k - 1) = [old |-> Number(s, Before, at - 1) + 1, new |-> Number(s, After, at - 1) + 1,
                             removed |-> removed(at - 1), added |-> added(at - 1)]
  BY <1>2 DEF Parsed
<1>5. Parsed(s, i, k) = [old |-> Number(s, Before, at) + 1, new |-> Number(s, After, at) + 1,
                         removed |-> removed(at), added |-> added(at)]
  BY <1>2 DEF Parsed
<1>6. /\ Number(s, Before, at) = Number(s, Before, at - 1) + IF m # "+" THEN 1 ELSE 0
      /\ Number(s, After, at) = Number(s, After, at - 1) + IF m # "-" THEN 1 ELSE 0
      /\ Number(s, Before, at - 1) \in Nat /\ Number(s, After, at - 1) \in Nat
  BY <1>1, NumberStep DEF Before, After
<1>7. i..at = (i..(at - 1)) \cup {at}  OBVIOUS
<1>8. /\ removed(at) = IF m = "-" THEN removed(at - 1) \cup {Number(s, Before, at)} ELSE removed(at - 1)
      /\ added(at) = IF m = "+" THEN added(at - 1) \cup {Number(s, After, at)} ELSE added(at - 1)
  <2> HIDE DEF at
  <2> QED  BY <1>7
<1> HIDE DEF at, m, removed, added
<1> DEFINE o == Number(s, Before, at - 1) + 1
           w == Number(s, After, at - 1) + 1
<1>9. ParseLine(Parsed(s, i, k - 1), m)
      = [old |-> IF m # "+" THEN o + 1 ELSE o, new |-> IF m # "-" THEN w + 1 ELSE w,
         removed |-> IF m = "-" THEN removed(at - 1) \cup {o} ELSE removed(at - 1),
         added |-> IF m = "+" THEN added(at - 1) \cup {w} ELSE added(at - 1)]
  <2>1. Parsed(s, i, k - 1) = [old |-> o, new |-> w, removed |-> removed(at - 1), added |-> added(at - 1)]
    BY <1>4
  <2> HIDE DEF o, w
  <2>2. ParseLine([old |-> o, new |-> w, removed |-> removed(at - 1), added |-> added(at - 1)], m)
        = [old |-> IF m # "+" THEN o + 1 ELSE o, new |-> IF m # "-" THEN w + 1 ELSE w,
           removed |-> IF m = "-" THEN removed(at - 1) \cup {o} ELSE removed(at - 1),
           added |-> IF m = "+" THEN added(at - 1) \cup {w} ELSE added(at - 1)]
    <3> HIDE DEF o, w
    <3>1. CASE m = "+"  BY <3>1 DEF ParseLine
    <3>2. CASE m = "-"  BY <3>2 DEF ParseLine
    <3>3. CASE m = "="  BY <3>3 DEF ParseLine
    <3> QED  BY <1>3, <3>1, <3>2, <3>3
  <2> QED  BY <2>1, <2>2
<1>10. /\ Number(s, Before, at) + 1 = IF m # "+" THEN o + 1 ELSE o
       /\ Number(s, After, at) + 1 = IF m # "-" THEN w + 1 ELSE w
       /\ m = "-" => Number(s, Before, at) = o
       /\ m = "+" => Number(s, After, at) = w
  BY <1>6
<1> HIDE DEF o, w
<1>11. removed(at) = IF m = "-" THEN removed(at - 1) \cup {o} ELSE removed(at - 1)
  BY <1>8, <1>10
<1>12. added(at) = IF m = "+" THEN added(at - 1) \cup {w} ELSE added(at - 1)
  BY <1>8, <1>10
<1>13. ParseLine(Parsed(s, i, k - 1), m) = Parsed(s, i, k)
  BY <1>5, <1>9, <1>10, <1>11, <1>12
<1> QED  BY <1>13 DEF m, at

\* The parser numbers the lines that a hunk removes or adds as they are numbered
\* in the file before and after.
LEMMA HunkParsed ==
  ASSUME NEW n \in Nat, NEW s \in [1..n -> Line], NEW i \in HunkStarts(s)
  PROVE  \E last \in i..n :
            /\ \A k \in i..last : k \in Shown(s)
            /\ last + 1 \notin Shown(s)
            /\ ParseHunk(Hunk(s, i)) = Parsed(s, i, last - i + 1)
<1>0. Len(s) = n /\ DOMAIN s = 1..n  BY AsSequence
<1>1. Shown(s) \subseteq 1..n  BY <1>0 DEF Shown
<1>2. i \in 1..n /\ i \in Shown(s)  BY <1>1 DEF HunkStarts
<1> DEFINE ends == {k \in i..n : k + 1 \notin Shown(s)}
           last == ImpactLowest(ends)
           len == last - i + 1
           Step(f, h) == [k \in 0..Len(h.marks) |->
              IF k = 0 THEN [old |-> h.old, new |-> h.new, removed |-> {}, added |-> {}]
              ELSE ParseLine(f[k - 1], h.marks[k])]
           At(h) == CHOOSE f : f = Step(f, h)
<1>3. last \in ends /\ \A x \in ends : last <= x
  <2>1. ends \subseteq Nat  BY <1>2
  <2>2. n \in ends  BY <1>1, <1>2
  <2> HIDE DEF ends
  <2> QED  BY <2>1, <2>2, Lowest
<1>4. last \in i..n /\ last + 1 \notin Shown(s)  BY <1>3
<1>5. \A k \in i..last : k \in Shown(s)
  <2> SUFFICES ASSUME NEW k \in i..last, k \notin Shown(s) PROVE FALSE  OBVIOUS
  <2>1. k # i  BY <1>2
  <2>2. k - 1 \in ends  BY <1>2, <1>4, <2>1
  <2>3. last <= k - 1  BY <1>3, <2>2
  <2> QED  BY <1>2, <1>4, <2>3
<1>6. len \in Nat /\ len \in 1..n  BY <1>2, <1>4
<1>7. Hunk(s, i) = [old |-> Number(s, Before, i - 1) + 1, new |-> Number(s, After, i - 1) + 1,
                     marks |-> [k \in 1..len |-> s[i + k - 1].mark]]
  BY <1>0 DEF Hunk
<1> HIDE DEF last, len
<1>8. PICK h : h = Hunk(s, i)  OBVIOUS
<1>9. Len(h.marks) = len /\ \A k \in 1..len : h.marks[k] = s[i + k - 1].mark
  <2> DEFINE marks == [k \in 1..len |-> s[i + k - 1].mark]
  <2>1. \A k \in 1..len : s[i + k - 1].mark \in {"=", "-", "+"}
    <3>1. \A k \in 1..len : i + k - 1 \in 1..n  BY <1>2, <1>4 DEF len
    <3> QED  BY <3>1 DEF Line
  <2>2. marks \in [1..len -> {"=", "-", "+"}]  BY <2>1
  <2>3. h.marks = marks  BY <1>7, <1>8
  <2>4. Len(marks) = len
    <3> HIDE DEF marks
    <3> QED  BY <1>6, <2>2, AsSequence
  <2> QED  BY <2>3, <2>4
<1>10. Parsed(s, i, 0) = [old |-> h.old, new |-> h.new, removed |-> {}, added |-> {}]
  <2>1. i - 1 + 0 = i - 1 /\ i..(i + 0 - 1) = {}  BY <1>2
  <2>2. Parsed(s, i, 0) = [old |-> Number(s, Before, i - 1) + 1, new |-> Number(s, After, i - 1) + 1,
                           removed |-> {}, added |-> {}]
    BY <2>1 DEF Parsed
  <2> QED  BY <1>7, <1>8, <2>2
<1>a. ParseHunk(h) = At(h)[len]
  BY <1>9 DEF ParseHunk
<1>11. \A k \in 1..len : ParseLine(Parsed(s, i, k - 1), h.marks[k]) = Parsed(s, i, k)
  <2> SUFFICES ASSUME NEW k \in 1..len PROVE ParseLine(Parsed(s, i, k - 1), h.marks[k]) = Parsed(s, i, k)
    OBVIOUS
  <2>1. k \in Nat \ {0} /\ i + k - 1 \in 1..n  BY <1>2, <1>4 DEF len
  <2> QED  BY <1>2, <1>9, <2>1, ParseStep
<1>12. \E f : f = Step(f, h)
  <2> DEFINE g == [k \in 0..len |-> Parsed(s, i, k)]
  <2>1. \A k \in 0..len : k # 0 => k - 1 \in 0..len /\ k \in 1..len  BY <1>6
  <2>2. \A k \in 0..len : g[k] = IF k = 0 THEN Parsed(s, i, 0) ELSE ParseLine(g[k - 1], h.marks[k])
    BY <1>11, <2>1
  <2>3. g = Step(g, h)  BY <1>9, <1>10, <2>2
  <2> QED  BY <2>3
<1>13. At(h) = Step(At(h), h)  BY <1>12
<1> HIDE DEF At
<1>14. \A k \in 0..len : At(h)[k] = IF k = 0 THEN Parsed(s, i, 0) ELSE ParseLine(At(h)[k - 1], h.marks[k])
  BY <1>9, <1>10, <1>13
<1> DEFINE Bad == {k \in Nat : k \in 0..len /\ At(h)[k] # Parsed(s, i, k)}
<1>15. Bad = {}
  <2> SUFFICES ASSUME Bad # {} PROVE FALSE  OBVIOUS
  <2>1. PICK k \in Bad : \A x \in Bad : ~(x < k)
    <3>1. Bad \subseteq Nat  OBVIOUS
    <3> HIDE DEF Bad
    <3> QED  BY <3>1, Smallest
  <2>2. k \in 0..len /\ At(h)[k] # Parsed(s, i, k)  BY <2>1
  <2>3. k # 0  BY <1>14, <2>2
  <2>4. k - 1 \in Nat /\ k - 1 \in 0..len /\ k \in 1..len  BY <1>6, <2>2, <2>3
  <2>5. At(h)[k - 1] = Parsed(s, i, k - 1)  BY <2>1, <2>4
  <2> QED  BY <1>11, <1>14, <2>2, <2>3, <2>4, <2>5
<1>16. At(h)[len] = Parsed(s, i, len)  BY <1>6, <1>15
<1> QED  BY <1>4, <1>5, <1>8, <1>a, <1>16 DEF len

\* The hunks hold every line that is removed or added, and number it as its file does.
LEMMA ChangedLines ==
  ASSUME NEW n \in Nat, NEW s \in [1..n -> Line]
  PROVE  /\ ParseChangedLines(s).old = {Number(s, Before, j) : j \in {x \in 1..n : s[x].mark = "-"}}
         /\ ParseChangedLines(s).new = {Number(s, After, j) : j \in {x \in 1..n : s[x].mark = "+"}}
<1>0. Len(s) = n /\ DOMAIN s = 1..n  BY AsSequence
<1>1. Shown(s) \subseteq 1..n /\ HunkStarts(s) \subseteq Shown(s)  BY <1>0 DEF Shown, HunkStarts
<1> DEFINE removed(i, last) == {Number(s, Before, j) : j \in {x \in i..last : s[x].mark = "-"}}
           added(i, last) == {Number(s, After, j) : j \in {x \in i..last : s[x].mark = "+"}}
<1>2. ASSUME NEW i \in HunkStarts(s)
      PROVE  \E last \in i..n :
                /\ last + 1 \notin Shown(s)
                /\ ParseHunk(Hunk(s, i)).removed = removed(i, last)
                /\ ParseHunk(Hunk(s, i)).added = added(i, last)
  <2>1. PICK last \in i..n : /\ last + 1 \notin Shown(s)
                             /\ ParseHunk(Hunk(s, i)) = Parsed(s, i, last - i + 1)
    BY HunkParsed
  <2>2. i + (last - i + 1) - 1 = last  BY <1>1
  <2> QED  BY <2>1, <2>2 DEF Parsed
\* The hunk of a line that is shown.
<1>3. ASSUME NEW j \in Shown(s)
      PROVE  \E i \in HunkStarts(s) : i <= j /\ \A last \in i..n : last + 1 \notin Shown(s) => j <= last
  <2> DEFINE starts == {i \in Nat : i \in 1..j /\ \A k \in i..j : k \in Shown(s)}
  <2>1. PICK i \in starts : \A x \in starts : ~(x < i)
    <3>1. starts \subseteq Nat /\ j \in starts  BY <1>1
    <3> HIDE DEF starts
    <3> QED  BY <3>1, Smallest
  <2>2. i \in 1..j /\ \A k \in i..j : k \in Shown(s)  BY <2>1
  <2>3. i - 1 \notin Shown(s)
    <3> SUFFICES ASSUME i - 1 \in Shown(s) PROVE FALSE  OBVIOUS
    <3>1. i - 1 \in Nat /\ i - 1 \in 1..j  BY <1>1, <2>2
    <3>2. \A k \in (i - 1)..j : k = i - 1 \/ k \in i..j  BY <2>2
    <3>3. i - 1 \in starts  BY <2>2, <3>1, <3>2
    <3> QED  BY <2>1, <2>2, <3>3
  <2>4. i \in HunkStarts(s)  BY <1>1, <2>2, <2>3 DEF HunkStarts
  <2>5. ASSUME NEW last \in i..n, last + 1 \notin Shown(s) PROVE j <= last
    BY <1>1, <2>2, <2>5
  <2> QED  BY <1>1, <2>2, <2>4, <2>5
<1>4. \A j \in 1..n : s[j].mark # "=" => j \in Shown(s)
  BY <1>0 DEF Shown
<1>5. ParseChangedLines(s) = [old |-> UNION {ParseHunk(Hunk(s, i)).removed : i \in HunkStarts(s)},
                              new |-> UNION {ParseHunk(Hunk(s, i)).added : i \in HunkStarts(s)}]
  BY DEF ParseChangedLines
<1>6. ASSUME NEW x PROVE x \in removed(1, n) <=> x \in ParseChangedLines(s).old
  <2>1. ASSUME NEW j \in 1..n, s[j].mark = "-", x = Number(s, Before, j)
        PROVE  x \in ParseChangedLines(s).old
    <3>1. j \in Shown(s)  BY <1>4, <2>1
    <3>2. PICK i \in HunkStarts(s) : i <= j /\ \A last \in i..n : last + 1 \notin Shown(s) => j <= last
      BY <1>3, <3>1
    <3>3. x \in ParseHunk(Hunk(s, i)).removed
      <4>1. PICK last \in i..n : last + 1 \notin Shown(s) /\ ParseHunk(Hunk(s, i)).removed = removed(i, last)
        BY <1>2
      <4>2. j \in i..last  BY <1>1, <3>2, <4>1
      <4> QED  BY <2>1, <4>1, <4>2
    <3> QED  BY <1>5, <3>3
  <2>2. ASSUME NEW i \in HunkStarts(s), x \in ParseHunk(Hunk(s, i)).removed
        PROVE  x \in removed(1, n)
    <3>1. PICK last \in i..n : ParseHunk(Hunk(s, i)).removed = removed(i, last)  BY <1>2
    <3>2. \A j \in i..last : j \in 1..n  BY <1>1, <3>1
    <3> QED  BY <2>2, <3>1, <3>2
  <2> QED  BY <1>5, <2>1, <2>2
<1>7. ASSUME NEW x PROVE x \in added(1, n) <=> x \in ParseChangedLines(s).new
  <2>1. ASSUME NEW j \in 1..n, s[j].mark = "+", x = Number(s, After, j)
        PROVE  x \in ParseChangedLines(s).new
    <3>1. j \in Shown(s)  BY <1>4, <2>1
    <3>2. PICK i \in HunkStarts(s) : i <= j /\ \A last \in i..n : last + 1 \notin Shown(s) => j <= last
      BY <1>3, <3>1
    <3>3. x \in ParseHunk(Hunk(s, i)).added
      <4>1. PICK last \in i..n : last + 1 \notin Shown(s) /\ ParseHunk(Hunk(s, i)).added = added(i, last)
        BY <1>2
      <4>2. j \in i..last  BY <1>1, <3>2, <4>1
      <4> QED  BY <2>1, <4>1, <4>2
    <3> QED  BY <1>5, <3>3
  <2>2. ASSUME NEW i \in HunkStarts(s), x \in ParseHunk(Hunk(s, i)).added
        PROVE  x \in added(1, n)
    <3>1. PICK last \in i..n : ParseHunk(Hunk(s, i)).added = added(i, last)  BY <1>2
    <3>2. \A j \in i..last : j \in 1..n  BY <1>1, <3>1
    <3> QED  BY <2>2, <3>1, <3>2
  <2> QED  BY <1>5, <2>1, <2>2
<1>8. removed(1, n) = ParseChangedLines(s).old  BY <1>6
<1>9. added(1, n) = ParseChangedLines(s).new  BY <1>7
<1> QED  BY <1>8, <1>9

\* The symbols with a line removed or added, and no other, are mapped.
LEMMA SymbolsMapped ==
  ASSUME NEW s \in Scripts
  PROVE  MapChangedSymbols(s) = {[symbol |-> d, type |-> ChangeType(s, d)] :
            d \in {s[i].owner : i \in {k \in DOMAIN s : s[k].mark # "="}} \ {0}}
<1>1. PICK n \in Nat : s \in [1..n -> Line]
  <2>1. PICK n \in 1..LineBound : s \in [1..n -> Line]  BY DEF Scripts
  <2> QED  BY <2>1
<1>2. Contiguous(s, Before) /\ Contiguous(s, After)  BY DEF Scripts
<1>3. DOMAIN s = 1..n  BY <1>1
<1>4. \A i \in 1..n : s[i].mark \in {"=", "-", "+"} /\ s[i].owner \in {0} \cup Decl  BY <1>1 DEF Line
<1>5. 0 \notin Decl  BY ImpactAssumption, LenProperties DEF Decl
<1> DEFINE lines == ParseChangedLines(s)
           hit == HitSymbols(s, Before, lines.old) \cup HitSymbols(s, After, lines.new)
           touched == {s[i].owner : i \in {k \in DOMAIN s : s[k].mark # "="}} \ {0}
<1>6. ASSUME NEW d \in Decl PROVE d \in HitSymbols(s, Before, lines.old) <=> \E j \in 1..n : s[j].mark = "-" /\ s[j].owner = d
  <2>1. \A j \in 1..n : s[j].mark = "-" => j \in In(s, Before)  BY <1>3 DEF In, Before
  <2>2. \A j \in In(s, Before) :
           (d \in Symbols(s, Before) /\ ImpactLowest(Lines(s, Before, d)) <= Number(s, Before, j)
              /\ Number(s, Before, j) <= ImpactHighest(Lines(s, Before, d)))
           <=> s[j].owner = d
    BY <1>1, <1>2, RangeTellsOwner
  <2>3. lines.old = {Number(s, Before, j) : j \in {x \in 1..n : s[x].mark = "-"}}  BY <1>1, ChangedLines
  <2> QED  BY <2>1, <2>2, <2>3 DEF HitSymbols
<1>7. ASSUME NEW d \in Decl PROVE d \in HitSymbols(s, After, lines.new) <=> \E j \in 1..n : s[j].mark = "+" /\ s[j].owner = d
  <2>1. \A j \in 1..n : s[j].mark = "+" => j \in In(s, After)  BY <1>3 DEF In, After
  <2>2. \A j \in In(s, After) :
           (d \in Symbols(s, After) /\ ImpactLowest(Lines(s, After, d)) <= Number(s, After, j)
              /\ Number(s, After, j) <= ImpactHighest(Lines(s, After, d)))
           <=> s[j].owner = d
    BY <1>1, <1>2, RangeTellsOwner
  <2>3. lines.new = {Number(s, After, j) : j \in {x \in 1..n : s[x].mark = "+"}}  BY <1>1, ChangedLines
  <2> QED  BY <2>1, <2>2, <2>3 DEF HitSymbols
<1>8. hit \subseteq Decl  BY DEF HitSymbols, Symbols
<1>9. touched \subseteq Decl  BY <1>3, <1>4
<1>10. \A d \in Decl : d \in hit <=> d \in touched
  <2> HIDE DEF lines
  <2>1. \A d \in Decl : d \in touched <=> \E j \in 1..n : s[j].mark \in {"-", "+"} /\ s[j].owner = d
    BY <1>3, <1>4, <1>5
  <2> QED  BY <1>6, <1>7, <2>1
<1>11. hit = touched  BY <1>8, <1>9, <1>10
<1>12. MapChangedSymbols(s) = {[symbol |-> d, type |-> ChangeType(s, d)] : d \in hit}
  BY DEF MapChangedSymbols
<1> QED  BY <1>11, <1>12

-----------------------------------------------------------------------------
(* The walk. *)

Nodes == GraphNodes(source.nodes)
Relations == {"CALLS", "USES_TYPE", "IMPLEMENTS"}
Reasons == {"CALLER", "CALLEE", "INTERFACE_IMPLEMENTATION", "TYPE_USAGE", "EXISTING_TEST"}

\* The graph connects two declarations of the source; the nodes that joined it
\* are changed symbols without a match.
Linked(links, nodes) == \A e \in links :
    /\ e = [from |-> e.from, to |-> e.to, relation |-> e.relation]
    /\ e.from \in nodes /\ e.to \in nodes /\ e.from # e.to /\ e.relation \in Relations
GraphOK ==
    /\ source.nodes \subseteq Decl /\ source.calls \subseteq CallSites(source.nodes, graph.mode)
    /\ limits \in [depth : Nat \ {0}, nodes : Nat \ {0}]
    /\ graph = [mode |-> graph.mode, nodes |-> graph.nodes, edges |-> graph.edges]
    /\ graph.mode \in Modes
    /\ graph.edges = GraphEdges(graph.mode, source)
    /\ Linked(graph.edges, Nodes)
    /\ Nodes \subseteq graph.nodes /\ graph.nodes \subseteq Nodes \cup Unmatched

Entry == [depth : 0..limits.depth, score : 10..100, reasons : SUBSET (Reasons \cup {"DIRECT_CHANGE"}), direct : BOOLEAN]
EntriesOK ==
    /\ selected \in [DOMAIN selected -> Entry]
    /\ DOMAIN selected \subseteq Nodes \cup Unmatched
    /\ Cardinality(DOMAIN selected) <= limits.nodes
    /\ \A n \in DOMAIN selected :
         /\ selected[n].direct <=> selected[n].depth = 0
         /\ selected[n].direct <=> "DIRECT_CHANGE" \in selected[n].reasons
         /\ selected[n].direct => selected[n].score = 100 /\ n \in ChangedNodes \cup Unmatched
         /\ selected[n].reasons # {}
         /\ n \in Unmatched => selected[n] = DirectNode

\* A node that is walked from, and one that waits for it.
Near(m) == m \in DOMAIN selected /\ selected[m].depth < limits.depth
Waiting(m) == \E i \in 1..Len(queue) : queue[i] = m

\* Nearer nodes come first, and what is queued differs by one step at most.
QueueOK ==
    /\ todo \subseteq Changed
    /\ queue \in Seq(DOMAIN selected)
    /\ \A i, j \in 1..Len(queue) : i <= j =>
         selected[queue[i]].depth <= selected[queue[j]].depth /\ selected[queue[j]].depth <= selected[queue[i]].depth + 1
    /\ todo # {} => pending = {} /\ edges = << >> /\ \A n \in DOMAIN selected : selected[n] = DirectNode
    /\ pending # {} => queue # << >> /\ pending \subseteq EdgesAt(Head(queue)) /\ Near(Head(queue))
    /\ phase = "done" => todo = {} /\ pending = {} /\ queue = << >>

\* An edge over which a node was, or can be, seen from another.
Seen(e, n) == e \in EdgesAt(n) /\ n \in DOMAIN selected /\ Near(Neighbor(e, n))
ScoreOf(e, n) == ImpactScore(ReasonForEdge(e, n), selected[Neighbor(e, n)].depth + 1)
Key(e, n) == <<e.from, e.to, ReasonForEdge(e, n)>>

\* Nothing is in the result that the graph does not give.
SoundOK ==
    /\ \A n \in DOMAIN selected \ Unmatched : n \in Within[selected[n].depth]
    /\ \A n \in DOMAIN selected : \A r \in selected[n].reasons \ {"DIRECT_CHANGE"} :
         \E e \in graph.edges : Seen(e, n) /\ r = ReasonForEdge(e, n)
    /\ \A n \in DOMAIN selected : ~selected[n].direct =>
         /\ \E e \in graph.edges : Seen(e, n) /\ selected[n].score = ScoreOf(e, n)
         /\ \E e \in graph.edges : Seen(e, n) /\ Key(e, n) \in DOMAIN edges /\ selected[Neighbor(e, n)].depth = selected[n].depth - 1
    /\ \A k \in DOMAIN edges :
         /\ edges[k].depth \in 1..limits.depth /\ edges[k].score \in 0..100
         /\ \E n \in DOMAIN selected : \E e \in graph.edges : Seen(e, n) /\ k = Key(e, n)

\* Until a node is refused for the limit of nodes, nothing that has been looked
\* at is missing, and every node is as near as it can be.
Complete == Cardinality(DOMAIN selected) < limits.nodes \/ Untruncated(Within)
Walked(m, e) ==
    /\ Near(m) /\ e \in EdgesAt(m)
    /\ ~Waiting(m) \/ (pending # {} /\ m = Head(queue) /\ e \notin pending)
Recorded(e, n) ==
    /\ n \in DOMAIN selected
    /\ ReasonForEdge(e, n) \in selected[n].reasons /\ selected[n].score >= ScoreOf(e, n)
    /\ Key(e, n) \in DOMAIN edges
FoundOK ==
    /\ \A d \in Changed \ todo : \A n \in Matched(d) : n \in DOMAIN selected /\ selected[n].direct
    /\ \A d \in Unmatched \ todo : \E n \in Unmatched \cap DOMAIN selected : Namesakes(n, d)
AllWalked == \A e \in graph.edges : \A m \in {e.from, e.to} : Walked(m, e) => Recorded(e, Neighbor(e, m))
Nearest == \A n \in DOMAIN selected \ Unmatched : \A k \in 0..(selected[n].depth - 1) : n \notin Within[k]
ThoroughOK == Complete => FoundOK /\ AllWalked /\ Nearest

WalkOK == GraphOK /\ EntriesOK /\ QueueOK /\ SoundOK /\ ThoroughOK

-----------------------------------------------------------------------------
(* The graph. *)

\* The facts of a source are about its declarations.
LEMMA FactsTyped ==
  ASSUME NEW nodes, NEW mode, NEW facts \in FactSets(nodes, mode)
  PROVE  facts \subseteq Facts(nodes, mode)
<1>1. CASE facts = {}  BY <1>1
<1>2. CASE facts # {}
  <2>1. PICK f \in [1..SourceBound -> Facts(nodes, mode)] : facts = {f[i] : i \in 1..SourceBound}
    BY <1>2 DEF FactSets
  <2> DEFINE I == 1..SourceBound
  <2>2. f \in [I -> Facts(nodes, mode)] /\ facts = {f[i] : i \in I}  BY <2>1
  <2> HIDE DEF I
  <2> QED  BY <2>2
<1> QED  BY <1>1, <1>2

LEMMA SourceTyped ==
  ASSUME NEW nodes, NEW mode, NEW src \in SourceTrees(nodes, mode)
  PROVE  /\ src.nodes = nodes
         /\ src.calls \subseteq CallSites(nodes, mode)
         /\ src.uses \subseteq TypeUses(nodes, mode)
         /\ src.implements \subseteq Implements(nodes)
<1>1. PICK facts \in FactSets(nodes, mode) :
        src = [nodes |-> nodes,
               calls |-> {f.of : f \in {x \in facts : x.is = "call"}},
               uses |-> {f.of : f \in {x \in facts : x.is = "use"}},
               implements |-> {f.of : f \in {x \in facts : x.is = "implements"}}]
  BY DEF SourceTrees
<1>2. facts \subseteq Facts(nodes, mode)  BY FactsTyped
<1>3. \A f \in facts : /\ f.is = "call" => f.of \in CallSites(nodes, mode)
                       /\ f.is = "use" => f.of \in TypeUses(nodes, mode)
                       /\ f.is = "implements" => f.of \in Implements(nodes)
  BY <1>2 DEF Facts
<1> QED  BY <1>1, <1>3

LEMMA EdgesLinked ==
  ASSUME NEW pairs, NEW nodes, NEW relation \in Relations,
         \A p \in pairs : p[1] \in nodes /\ p[2] \in nodes
  PROVE  Linked(Edges(pairs, relation), nodes)
BY DEF Linked, Edges

LEMMA LinkedUnion ==
  ASSUME NEW a, NEW b, NEW nodes, Linked(a, nodes), Linked(b, nodes)
  PROVE  Linked(a \cup b, nodes)
BY DEF Linked

\* Both graphs connect functions and types of the source.
LEMMA GraphsLinked ==
  ASSUME NEW nodes \in SUBSET Decl, NEW mode \in Modes, NEW src \in SourceTrees(nodes, mode)
  PROVE  Linked(GraphEdges(mode, src), GraphNodes(nodes))
<1> DEFINE N == GraphNodes(nodes)
<1>1. /\ src.nodes = nodes
      /\ src.calls \subseteq CallSites(nodes, mode)
      /\ src.uses \subseteq TypeUses(nodes, mode)
      /\ src.implements \subseteq Implements(nodes)
  BY SourceTyped
<1>2. \A d \in nodes : Declarations[d].kind \in {"function", "method", "test", "struct", "interface", "type"} => d \in N
  BY DEF GraphNodes, Functions, Types, KindsOfType
<1>3. \A c \in src.calls : /\ c[1] \in N /\ c[2] \in nodes
                           /\ Declarations[c[2]].kind # "interface" => c[2] \in N
  <2>1. \A c \in CallSites(nodes, mode) : c[1] \in nodes \cap Functions /\
           (c[2] \in nodes \cap Functions \/ (c[2] \in nodes /\ Declarations[c[2]].kind = "interface"))
    BY DEF CallSites
  <2>2. nodes \cap Functions \subseteq N  BY DEF GraphNodes
  <2> QED  BY <1>1, <2>1, <2>2
<1>4. \A u \in src.uses : u[1] \in N /\ u[2] \in N
  BY <1>1 DEF TypeUses, GraphNodes
<1>5. \A i \in src.implements : i[1] \in N /\ i[2] \in N
  <2>1. \A i \in Implements(nodes) : /\ i[1] \in nodes /\ Declarations[i[1]].kind = "struct"
                                     /\ i[2] \in nodes /\ Declarations[i[2]].kind = "interface"
    BY DEF Implements
  <2> QED  BY <1>1, <1>2, <2>1
<1>6. \A c \in src.calls : Callees(src, c) \subseteq N
  <2>1. \A t, name : MethodsOf(nodes, t, name) \subseteq N  BY <1>2 DEF MethodsOf
  <2> HIDE DEF N
  <2> QED  BY <1>1, <1>3, <2>1 DEF Callees
<1>7. \A c \in src.calls : NamedBy(src, c) \subseteq N  BY <1>1 DEF NamedBy
<1> HIDE DEF N
<1>8. Linked(Edges(UNION {{c[1]} \X Callees(src, c) : c \in {x \in src.calls : x[3] = "keyed"}}, "CALLS"), N)
  <2> DEFINE pairs == UNION {{c[1]} \X Callees(src, c) : c \in {x \in src.calls : x[3] = "keyed"}}
  <2>1. \A p \in pairs : p[1] \in N /\ p[2] \in N  BY <1>3, <1>6
  <2>2. Linked(Edges(pairs, "CALLS"), N)
    <3> HIDE DEF pairs
    <3> QED  BY <2>1, EdgesLinked DEF Relations
  <2> QED  BY <2>2
<1>9. Linked(Edges(UNION {{c[1]} \X NamedBy(src, c) : c \in src.calls}, "CALLS"), N)
  <2> DEFINE pairs == UNION {{c[1]} \X NamedBy(src, c) : c \in src.calls}
  <2>1. \A p \in pairs : p[1] \in N /\ p[2] \in N  BY <1>3, <1>7
  <2>2. Linked(Edges(pairs, "CALLS"), N)
    <3> HIDE DEF pairs
    <3> QED  BY <2>1, EdgesLinked DEF Relations
  <2> QED  BY <2>2
<1>10. ASSUME NEW uses \in SUBSET src.uses
       PROVE  Linked(Edges(uses, "USES_TYPE"), N)
  BY <1>4, EdgesLinked DEF Relations
<1>11. Linked(Edges(src.implements, "IMPLEMENTS"), N)
  BY <1>5, EdgesLinked DEF Relations
<1>12. Linked(TypedGraph(src), N)
  BY <1>8, <1>10, <1>11, LinkedUnion DEF TypedGraph
<1>13. Linked(AstGraph(src), N)
  <2>1. {u \in src.uses : SamePackage(u[1], u[2])} \in SUBSET src.uses  OBVIOUS
  <2> QED  BY <1>9, <1>10, <2>1, LinkedUnion DEF AstGraph
<1> QED  BY <1>12, <1>13 DEF N, GraphEdges

-----------------------------------------------------------------------------
(* The distance from what changed. *)

\* The recursion has a solution.
LEMMA ReachExists ==
  ASSUME NEW start, NEW links, NEW depth \in Nat
  PROVE  \E f : f = [k \in 0..depth |-> IF k = 0 THEN start ELSE Nearby(links, f[k - 1])]
<1> DEFINE Solves(f, n) == f = [k \in 0..n |-> IF k = 0 THEN start ELSE Nearby(links, f[k - 1])]
           Bad == {n \in Nat : ~ \E f : Solves(f, n)}
<1>1. SUFFICES ASSUME Bad # {} PROVE FALSE  OBVIOUS
<1>2. PICK n \in Bad : \A m \in Bad : ~(m < n)
  <2>1. Bad \subseteq Nat  OBVIOUS
  <2> HIDE DEF Bad
  <2> QED  BY <1>1, <2>1, Smallest
<1>a. n \in Nat /\ (n - 1 \in Nat => n - 1 \notin Bad)
  <2>1. n \in Nat  BY <1>2
  <2> HIDE DEF Bad
  <2> QED  BY <1>2, <2>1
<1>3. CASE n = 0
  <2> DEFINE g == [k \in 0..0 |-> start]
  <2>1. g = [k \in 0..0 |-> IF k = 0 THEN start ELSE Nearby(links, g[k - 1])]  OBVIOUS
  <2> QED  BY <1>2, <1>3, <2>1
<1>4. CASE n # 0
  <2>1. n - 1 \in Nat /\ n - 1 \notin Bad  BY <1>a, <1>4
  <2>2. PICK g : Solves(g, n - 1)  BY <2>1
  <2> DEFINE h == [k \in 0..n |-> IF k = 0 THEN start ELSE Nearby(links, g[k - 1])]
  <2>3. \A k \in 0..(n - 1) : k \in 0..n /\ h[k] = g[k]  BY <2>1, <2>2
  <2>4. \A k \in 0..n : k # 0 => k - 1 \in 0..(n - 1)  BY <2>1
  <2>5. \A k \in 0..n : h[k] = IF k = 0 THEN start ELSE Nearby(links, h[k - 1])  BY <2>3, <2>4
  <2> HIDE DEF h
  <2>6. h = [k \in 0..n |-> h[k]]  BY DEF h
  <2>7. Solves(h, n)  BY <2>5, <2>6
  <2> QED  BY <1>2, <2>7
<1> QED  BY <1>3, <1>4

LEMMA ReachStep ==
  ASSUME NEW start, NEW links, NEW depth \in Nat
  PROVE  /\ DOMAIN Reach(start, links, depth) = 0..depth
         /\ \A k \in 0..depth : Reach(start, links, depth)[k]
              = IF k = 0 THEN start ELSE Nearby(links, Reach(start, links, depth)[k - 1])
<1> DEFINE ring == CHOOSE f : f = [k \in 0..depth |-> IF k = 0 THEN start ELSE Nearby(links, f[k - 1])]
<1>1. Reach(start, links, depth) = ring  BY DEF Reach
<1>2. ring = [k \in 0..depth |-> IF k = 0 THEN start ELSE Nearby(links, ring[k - 1])]
  BY ReachExists
<1> HIDE DEF ring
<1> QED  BY <1>1, <1>2

\* What is within k steps is within more, and a declaration if what changed is.
LEMMA ReachGrows ==
  ASSUME NEW start, NEW links, NEW depth \in Nat, NEW i \in 0..depth, NEW k \in i..depth
  PROVE  Reach(start, links, depth)[i] \subseteq Reach(start, links, depth)[k]
<1> DEFINE R == Reach(start, links, depth)
           Bad == {m \in Nat : m \in i..depth /\ ~(R[i] \subseteq R[m])}
<1>1. Bad = {}
  <2> SUFFICES ASSUME Bad # {} PROVE FALSE  OBVIOUS
  <2>1. PICK m \in Bad : \A x \in Bad : ~(x < m)
    <3>1. Bad \subseteq Nat  OBVIOUS
    <3> HIDE DEF Bad
    <3> QED  BY <3>1, Smallest
  <2>2. m \in Nat /\ m \in i..depth /\ ~(R[i] \subseteq R[m])  BY <2>1
  <2>3. m # i  BY <2>2
  <2>4. m - 1 \in Nat /\ m - 1 \in i..depth /\ m \in 0..depth /\ m # 0  BY <2>2, <2>3
  <2>5. R[i] \subseteq R[m - 1]  BY <2>1, <2>4
  <2>6. R[m] = Nearby(links, R[m - 1])  BY <2>4, ReachStep
  <2>7. R[m - 1] \subseteq R[m]  BY <2>6 DEF Nearby
  <2> QED  BY <2>2, <2>5, <2>7
<1>2. k \in Nat  OBVIOUS
<1> QED  BY <1>1, <1>2

LEMMA ReachTyped ==
  ASSUME NEW nodes \in SUBSET Decl, NEW start \in SUBSET nodes, NEW links, Linked(links, nodes),
         NEW depth \in Nat, NEW k \in 0..depth
  PROVE  Reach(start, links, depth)[k] \subseteq nodes
<1> DEFINE R == Reach(start, links, depth)
           Bad == {m \in Nat : m \in 0..depth /\ ~(R[m] \subseteq nodes)}
<1>1. Bad = {}
  <2> SUFFICES ASSUME Bad # {} PROVE FALSE  OBVIOUS
  <2>1. PICK m \in Bad : \A x \in Bad : ~(x < m)
    <3>1. Bad \subseteq Nat  OBVIOUS
    <3> HIDE DEF Bad
    <3> QED  BY <3>1, Smallest
  <2>2. m \in Nat /\ m \in 0..depth /\ ~(R[m] \subseteq nodes)  BY <2>1
  <2>3. m # 0  BY <2>2, ReachStep
  <2>4. m - 1 \in Nat /\ m - 1 \in 0..depth  BY <2>2, <2>3
  <2>5. R[m - 1] \subseteq nodes  BY <2>1, <2>4
  <2>6. R[m] = Nearby(links, R[m - 1])  BY <2>2, <2>3, ReachStep
  <2>7. R[m] \subseteq nodes  BY <2>5, <2>6 DEF Nearby, Linked
  <2> QED  BY <2>2, <2>7
<1>2. k \in Nat  OBVIOUS
<1> QED  BY <1>1, <1>2

-----------------------------------------------------------------------------
(* What the steps of the walk rest on. *)

LEMMA HighestOfTwo ==
  ASSUME NEW a \in Int, NEW b \in Int
  PROVE  ImpactHighest({a, b}) = IF a < b THEN b ELSE a
<1>1. PICK h : h = IF a < b THEN b ELSE a  OBVIOUS
<1>2. h \in {a, b} /\ \A y \in {a, b} : y <= h  BY <1>1
<1>3. \A x \in {a, b} : (\A y \in {a, b} : y <= x) => x = h  BY <1>1
<1> QED  BY <1>1, <1>2, <1>3 DEF ImpactHighest

LEMMA ReasonTyped ==
  ASSUME NEW e, e.relation \in Relations, NEW n
  PROVE  ReasonForEdge(e, n) \in Reasons
<1>1. CASE e.relation = "IMPLEMENTS"  BY <1>1 DEF ReasonForEdge, Reasons
<1>2. CASE e.relation = "USES_TYPE"  BY <1>2 DEF ReasonForEdge, Reasons
<1>3. CASE e.relation = "CALLS" /\ IsTest(n)  BY <1>3 DEF ReasonForEdge, Reasons
<1>4. CASE e.relation = "CALLS" /\ ~IsTest(n)  BY <1>4 DEF ReasonForEdge, Reasons
<1> QED  BY <1>1, <1>2, <1>3, <1>4 DEF Relations

LEMMA ScoreTyped ==
  ASSUME NEW r \in Reasons, NEW d \in Nat \ {0}
  PROVE  ImpactScore(r, d) \in 10..100
<1>1. Base[r] \in 74..92  BY DEF Base, Reasons
<1>2. PICK b \in Int : b = Base[r] - 12 * (d - 1) /\ b <= 92  BY <1>1
<1>3. ImpactScore(r, d) = IF 10 < b THEN b ELSE 10  BY <1>2, HighestOfTwo DEF ImpactScore
<1> QED  BY <1>2, <1>3

\* An edge at a node leads to another one, and back.
LEMMA EdgeLeads ==
  ASSUME GraphOK, NEW n, NEW e \in EdgesAt(n)
  PROVE  /\ e \in graph.edges /\ e.relation \in Relations
         /\ n \in Nodes /\ Neighbor(e, n) \in Nodes /\ Neighbor(e, n) # n
         /\ n \in {e.from, e.to} /\ Neighbor(e, n) \in {e.from, e.to}
         /\ e \in EdgesAt(Neighbor(e, n)) /\ Neighbor(e, Neighbor(e, n)) = n
         /\ \A m \in {e.from, e.to} : m = n \/ m = Neighbor(e, n)
         /\ ReasonForEdge(e, n) \in Reasons /\ ReasonForEdge(e, Neighbor(e, n)) \in Reasons
<1>1. e \in graph.edges /\ n \in {e.from, e.to}  BY DEF EdgesAt
<1>2. /\ e.from \in Nodes /\ e.to \in Nodes /\ e.from # e.to /\ e.relation \in Relations
  BY <1>1 DEF GraphOK, Linked
<1> QED  BY <1>1, <1>2, ReasonTyped DEF EdgesAt, Neighbor

LEMMA DeclFinite == IsFiniteSet(Decl) /\ \E n \in Nat : Decl = 1..n
<1>1. Len(Declarations) \in Nat /\ Decl = 1..Len(Declarations)  BY ImpactAssumption, LenProperties DEF Decl
<1> QED  BY <1>1, FS_Interval

DirectOK == direct \subseteq [symbol : Decl, type : {"added", "deleted", "modified"}]

\* What changed is in the graph, or has no match there.
LEMMA NodesApart ==
  ASSUME GraphOK, DirectOK
  PROVE  /\ Nodes \in SUBSET Decl /\ ChangedNodes \subseteq Nodes /\ ChangedNodes \in SUBSET Nodes
         /\ Changed \subseteq Decl /\ Unmatched \subseteq Changed
         /\ Unmatched \cap Nodes = {}
         /\ IsFiniteSet(Nodes \cup Unmatched)
<1>1. Nodes \in SUBSET Decl  BY DEF GraphOK, Nodes, GraphNodes
<1>2. ChangedNodes \subseteq Nodes  BY DEF ChangedNodes, Matched, MatchingNodes, Nodes
<1>3. Changed \subseteq Decl /\ Unmatched \subseteq Changed  BY DEF DirectOK, Changed, Unmatched
<1>4. \A d : d \in Nodes => d \in Matched(d)
  BY DEF Matched, MatchingNodes, Namesakes, Nodes
<1>5. Unmatched \cap Nodes = {}  BY <1>4 DEF Unmatched
<1>6. Nodes \cup Unmatched \in SUBSET Decl  BY <1>1, <1>3
<1>7. IsFiniteSet(Nodes \cup Unmatched)  BY <1>6, DeclFinite, FS_Subset
<1> QED  BY <1>1, <1>2, <1>3, <1>5, <1>7

LEMMA WithinFacts ==
  ASSUME GraphOK, DirectOK
  PROVE  /\ DOMAIN Within = 0..limits.depth
         /\ Within[0] = ChangedNodes
         /\ \A k \in 0..limits.depth : Within[k] \subseteq Nodes
         /\ \A k \in 1..limits.depth : Within[k] = Nearby(graph.edges, Within[k - 1])
         /\ \A i, k \in 0..limits.depth : i <= k => Within[i] \subseteq Within[k]
<1>0. limits.depth \in Nat /\ Linked(graph.edges, Nodes)  BY DEF GraphOK
<1>1. Nodes \in SUBSET Decl /\ ChangedNodes \in SUBSET Nodes  BY NodesApart
<1>2. Within = Reach(ChangedNodes, graph.edges, limits.depth)  BY DEF Within
<1>3. \A k \in 0..limits.depth : Within[k] \subseteq Nodes  BY <1>0, <1>1, <1>2, ReachTyped
<1>4. \A i \in 0..limits.depth : \A k \in i..limits.depth : Within[i] \subseteq Within[k]
  BY <1>0, <1>2, ReachGrows
<1>5. /\ DOMAIN Within = 0..limits.depth
      /\ \A k \in 0..limits.depth : Within[k] = IF k = 0 THEN ChangedNodes ELSE Nearby(graph.edges, Within[k - 1])
  BY <1>0, <1>2, ReachStep
<1>6. \A i, k \in 0..limits.depth : i <= k => k \in i..limits.depth  BY <1>0
<1> QED  BY <1>0, <1>3, <1>4, <1>5, <1>6

\* What the graph and the diff give does not change with the walk.
Static == UNCHANGED <<direct, source, limits>> /\ graph'.edges = graph.edges
LEMMA StaticKeeps ==
  ASSUME Static
  PROVE  /\ Nodes' = Nodes /\ Changed' = Changed /\ Unmatched' = Unmatched /\ ChangedNodes' = ChangedNodes
         /\ Within' = Within
         /\ \A d : Matched(d)' = Matched(d)
         /\ \A n : EdgesAt(n)' = EdgesAt(n)
         /\ DirectOK' = DirectOK
         /\ Entry' = Entry
<1>1. direct' = direct /\ source' = source /\ limits' = limits /\ graph'.edges = graph.edges  BY DEF Static
<1>2. Nodes' = Nodes /\ Changed' = Changed  BY <1>1 DEF Nodes, Changed
<1>3. \A d : Matched(d)' = Matched(d)  BY <1>1 DEF Matched
<1>4. Unmatched' = Unmatched /\ ChangedNodes' = ChangedNodes
  BY <1>2, <1>3 DEF Unmatched, ChangedNodes
<1>5. Within' = Within  BY <1>1, <1>4 DEF Within
<1>6. \A n : EdgesAt(n)' = EdgesAt(n)  BY <1>1 DEF EdgesAt
<1>7. DirectOK' = DirectOK  BY <1>1 DEF DirectOK
<1>8. Entry' = Entry  BY <1>1 DEF Entry
<1> QED  BY <1>2, <1>3, <1>4, <1>5, <1>6, <1>7, <1>8

LEMMA GraphKept ==
  ASSUME GraphOK, Static, UNCHANGED graph
  PROVE  GraphOK'
<1>1. Nodes' = Nodes /\ Unmatched' = Unmatched  BY StaticKeeps
<1>2. graph' = graph /\ source' = source /\ limits' = limits  BY DEF Static
<1> QED  BY <1>1, <1>2 DEF GraphOK

\* What is selected is finitely much, and lies within the depth.
LEMMA SelectedFinite ==
  ASSUME GraphOK, DirectOK, EntriesOK
  PROVE  IsFiniteSet(DOMAIN selected) /\ Cardinality(DOMAIN selected) \in Nat
<1>1. DOMAIN selected \in SUBSET (Nodes \cup Unmatched)  BY DEF EntriesOK
<1>2. IsFiniteSet(DOMAIN selected)  BY <1>1, NodesApart, FS_Subset
<1> QED  BY <1>2, FS_CardinalityType

LEMMA SelectedWithin ==
  ASSUME GraphOK, DirectOK, EntriesOK, SoundOK
  PROVE  DOMAIN selected \subseteq Within[limits.depth] \cup Unmatched
<1>1. ASSUME NEW n \in DOMAIN selected, n \notin Unmatched PROVE n \in Within[limits.depth]
  <2>1. n \in Within[selected[n].depth]  BY <1>1 DEF SoundOK
  <2>2. selected[n].depth \in 0..limits.depth  BY DEF EntriesOK, Entry
  <2>3. limits.depth \in 0..limits.depth  BY DEF GraphOK
  <2> QED  BY <2>1, <2>2, <2>3, WithinFacts
<1> QED  BY <1>1

\* While nothing was refused there is room for what lies within the depth.
LEMMA RoomLeft ==
  ASSUME GraphOK, DirectOK, Untruncated(Within),
         NEW S, S \subseteq Within[limits.depth] \cup Unmatched,
         NEW n \in Within[limits.depth] \cup Unmatched, n \notin S
  PROVE  Cardinality(S) < limits.nodes
<1> DEFINE all == Within[limits.depth] \cup Unmatched
<1>1. limits.depth \in 0..limits.depth /\ limits.nodes \in Nat  BY DEF GraphOK
<1>2. all \in SUBSET (Nodes \cup Unmatched)  BY <1>1, WithinFacts
<1>3. IsFiniteSet(all) /\ Cardinality(all) \in Nat
  <2> HIDE DEF all
  <2>1. IsFiniteSet(all)  BY <1>2, NodesApart, FS_Subset
  <2> QED  BY <2>1, FS_CardinalityType
<1>4. Cardinality(all) <= limits.nodes  BY DEF Untruncated
<1>5. S \in SUBSET all /\ S # all  OBVIOUS
<1> HIDE DEF all
<1>6. IsFiniteSet(S) /\ Cardinality(S) <= Cardinality(all) /\ Cardinality(all) # Cardinality(S)
  BY <1>3, <1>5, FS_Subset
<1>7. Cardinality(S) \in Nat  BY <1>6, FS_CardinalityType
<1> QED  BY <1>1, <1>3, <1>4, <1>6, <1>7

\* With nothing nearer left to walk from, what lies within k steps is selected.
LEMMA Covered ==
  ASSUME GraphOK, DirectOK, EntriesOK, FoundOK, AllWalked, Nearest, todo = {},
         NEW k \in 0..limits.depth,
         \A m \in DOMAIN selected : selected[m].depth < k => ~Waiting(m)
  PROVE  \A n \in Within[k] : n \in DOMAIN selected /\ selected[n].depth <= k
<1> DEFINE Bad == {j \in Nat : j \in 0..k /\ ~(Within[j] \subseteq DOMAIN selected)}
<1>0. limits.depth \in Nat /\ k \in Nat /\ 0..k \subseteq 0..limits.depth  BY DEF GraphOK
<1>1. ASSUME NEW j \in 0..k, NEW n \in Within[j], n \in DOMAIN selected PROVE selected[n].depth <= j
  <2>1. n \notin Unmatched  BY <1>0, <1>1, WithinFacts, NodesApart
  <2>2. selected[n].depth \in 0..limits.depth  BY <1>1 DEF EntriesOK, Entry
  <2>3. j \notin 0..(selected[n].depth - 1)  BY <1>1, <2>1 DEF Nearest
  <2> QED  BY <1>0, <2>2, <2>3
<1>2. Bad = {}
  <2> SUFFICES ASSUME Bad # {} PROVE FALSE  OBVIOUS
  <2>1. PICK j \in Bad : \A x \in Bad : ~(x < j)
    <3>1. Bad \subseteq Nat  OBVIOUS
    <3> HIDE DEF Bad
    <3> QED  BY <3>1, Smallest
  <2>2. j \in 0..k /\ ~(Within[j] \subseteq DOMAIN selected)  BY <2>1
  <2>3. PICK n \in Within[j] : n \notin DOMAIN selected  BY <2>2
  <2>4. CASE j = 0
    <3>1. n \in ChangedNodes  BY <2>3, <2>4, WithinFacts
    <3>2. PICK x \in Changed : n \in Matched(x)  BY <3>1 DEF ChangedNodes
    <3> QED  BY <2>3, <3>2 DEF FoundOK
  <2>5. CASE j # 0
    <3>1. j - 1 \in Nat /\ j - 1 \in 0..k /\ j \in 1..limits.depth /\ j - 1 < k  BY <1>0, <2>2, <2>5
    <3>2. Within[j - 1] \subseteq DOMAIN selected  BY <2>1, <3>1
    <3>3. Within[j] = Nearby(graph.edges, Within[j - 1])  BY <3>1, WithinFacts
    <3>4. PICK e \in graph.edges : n \in {e.from, e.to} /\ Neighbor(e, n) \in Within[j - 1]
      BY <2>3, <3>2, <3>3 DEF Nearby
    <3>5. PICK m : m = Neighbor(e, n)  OBVIOUS
    <3>6. m \in DOMAIN selected /\ selected[m].depth <= j - 1  BY <1>1, <3>1, <3>2, <3>4, <3>5
    <3>7. e \in EdgesAt(n)  BY <3>4 DEF EdgesAt
    <3>8. e \in EdgesAt(m) /\ Neighbor(e, m) = n /\ m \in {e.from, e.to}  BY <3>5, <3>7, EdgeLeads
    <3>9. selected[m].depth \in 0..limits.depth  BY <3>6 DEF EntriesOK, Entry
    <3>10. selected[m].depth < k  BY <1>0, <3>1, <3>6, <3>9
    <3>11. Walked(m, e)  BY <1>0, <3>6, <3>8, <3>9, <3>10 DEF Walked, Near
    <3>12. Recorded(e, n)  BY <3>4, <3>8, <3>11 DEF AllWalked
    <3> QED  BY <2>3, <3>12 DEF Recorded
  <2> QED  BY <2>4, <2>5
<1>3. k \in 0..k /\ k \notin Bad  BY <1>0, <1>2
<1>4. Within[k] \subseteq DOMAIN selected  BY <1>0, <1>3
<1> QED  BY <1>1, <1>3, <1>4

-----------------------------------------------------------------------------
(* One edge is walked. *)

\* What the step from at to n over the edge e starts from.
Moves(e, at, n, d, r, sc) ==
    /\ e \in pending /\ pending' = pending \ {e}
    /\ queue # << >> /\ at = Head(queue) /\ Near(at)
    /\ at \in Nodes /\ n \in Nodes /\ n # at
    /\ e \in graph.edges /\ e \in EdgesAt(at) /\ e \in EdgesAt(n) /\ Neighbor(e, at) = n /\ Neighbor(e, n) = at
    /\ d = selected[at].depth + 1 /\ d \in 1..limits.depth
    /\ r = ReasonForEdge(e, n) /\ r \in Reasons
    /\ sc = ImpactScore(r, d) /\ sc \in 10..100
    /\ todo = {} /\ todo' = {} /\ phase' = phase /\ Static /\ graph' = graph
    /\ queue' = LET rest == IF pending' = {} THEN Tail(queue) ELSE queue
                IN  IF n \in DOMAIN selected \/ Full THEN rest ELSE Append(rest, n)
\* What it leaves.
Grows(e, n, d, r, sc) ==
    /\ n \notin DOMAIN selected /\ Full => selected' = selected /\ edges' = edges
    /\ n \in DOMAIN selected \/ ~Full =>
         /\ selected' = [x \in DOMAIN selected \cup {n} |-> selected'[x]]
         /\ edges' = [k \in DOMAIN edges \cup {<<e.from, e.to, r>>} |-> edges'[k]]
         /\ edges'[<<e.from, e.to, r>>] = [depth |-> d, score |-> sc]
         /\ \A k \in DOMAIN edges : k # <<e.from, e.to, r>> => edges'[k] = edges[k]
    /\ \A x \in DOMAIN selected : x # n => selected'[x] = selected[x]
    /\ n \in DOMAIN selected => selected'[n] =
         [depth |-> selected[n].depth, score |-> IF selected[n].score < sc THEN sc ELSE selected[n].score,
          reasons |-> selected[n].reasons \cup {r}, direct |-> selected[n].direct]
    /\ n \notin DOMAIN selected /\ ~Full => selected'[n] =
         [depth |-> d, score |-> sc, reasons |-> {r}, direct |-> FALSE]

LEMMA WalkMoves ==
  ASSUME GraphOK, DirectOK, EntriesOK, QueueOK, NEW e \in pending, Walk(e)
  PROVE  \E at, n, d, r, sc : Moves(e, at, n, d, r, sc) /\ Grows(e, n, d, r, sc)
<1>1. PICK at : at = Head(queue)  OBVIOUS
<1>2. PICK n : n = Neighbor(e, at)  OBVIOUS
<1>3. PICK d : d = selected[at].depth + 1  OBVIOUS
<1>4. PICK r : r = ReasonForEdge(e, n)  OBVIOUS
<1>5. PICK sc : sc = ImpactScore(r, d)  OBVIOUS
<1>6. queue # << >> /\ e \in EdgesAt(at) /\ Near(at) /\ todo = {}  BY <1>1 DEF QueueOK
<1>7. /\ e \in graph.edges /\ e \in EdgesAt(n) /\ Neighbor(e, n) = at
      /\ at \in Nodes /\ n \in Nodes /\ n # at
  BY <1>2, <1>6, EdgeLeads
<1>8. r \in Reasons  BY <1>2, <1>4, <1>6, EdgeLeads
<1>9. d \in 1..limits.depth
  <2>1. selected[at].depth \in 0..limits.depth /\ limits.depth \in Nat  BY <1>6 DEF EntriesOK, Entry, Near, GraphOK
  <2> QED  BY <1>3, <1>6, <2>1 DEF Near
<1>10. sc \in 10..100
  <2>1. d \in Nat \ {0}  BY <1>9
  <2> QED  BY <1>5, <1>8, <2>1, ScoreTyped
<1>11. pending' = pending \ {e} /\ UNCHANGED <<phase, direct, source, graph, limits, todo>>  BY DEF Walk
<1>a. queue' = LET rest == IF pending' = {} THEN Tail(queue) ELSE queue
               IN  IF n \in DOMAIN selected \/ Full THEN rest ELSE Append(rest, n)
  BY <1>1, <1>2 DEF Walk
<1>12. Moves(e, at, n, d, r, sc)
  BY <1>1, <1>2, <1>3, <1>4, <1>5, <1>6, <1>7, <1>8, <1>9, <1>10, <1>11, <1>a DEF Moves, Static
<1>13. selected' =
             IF n \in DOMAIN selected THEN [selected EXCEPT ![n] = Merge(selected[n], r, sc)]
             ELSE IF Full THEN selected
             ELSE [x \in DOMAIN selected \cup {n} |-> IF x \in DOMAIN selected THEN selected[x]
                     ELSE [depth |-> d, score |-> sc, reasons |-> {r}, direct |-> FALSE]]
  BY <1>1, <1>2, <1>3, <1>4, <1>5 DEF Walk
<1>14. edges' = IF n \notin DOMAIN selected /\ Full THEN edges
                ELSE [k \in DOMAIN edges \cup {<<e.from, e.to, r>>} |->
                        IF k = <<e.from, e.to, r>> THEN [depth |-> d, score |-> sc] ELSE edges[k]]
  BY <1>1, <1>2, <1>3, <1>4, <1>5 DEF Walk
<1>15. ASSUME n \in DOMAIN selected
       PROVE  Merge(selected[n], r, sc) =
         [depth |-> selected[n].depth, score |-> IF selected[n].score < sc THEN sc ELSE selected[n].score,
          reasons |-> selected[n].reasons \cup {r}, direct |-> selected[n].direct]
  <2>1. selected[n] \in Entry  BY <1>15 DEF EntriesOK
  <2>2. PICK x \in Entry : x = selected[n]  BY <2>1
  <2>3. x.score \in Int /\ sc \in Int  BY <1>10 DEF Entry
  <2>4. ImpactHighest({x.score, sc}) = IF x.score < sc THEN sc ELSE x.score  BY <2>3, HighestOfTwo
  <2>5. Merge(x, r, sc) = [depth |-> x.depth, score |-> ImpactHighest({x.score, sc}),
                           reasons |-> x.reasons \cup {r}, direct |-> x.direct]
    <3>1. PICK h : h = ImpactHighest({x.score, sc})  OBVIOUS
    <3>2. PICK a, b, c, f : x = [depth |-> a, score |-> b, reasons |-> c, direct |-> f]  BY DEF Entry
    <3>3. [x EXCEPT !.reasons = x.reasons \cup {r}, !.score = h]
          = [depth |-> a, score |-> h, reasons |-> x.reasons \cup {r}, direct |-> f]
      <4>1. PICK y : y = [x EXCEPT !.reasons = x.reasons \cup {r}]  OBVIOUS
      <4>2. y = [depth |-> a, score |-> b, reasons |-> x.reasons \cup {r}, direct |-> f]  BY <3>2, <4>1
      <4>3. [y EXCEPT !.score = h] = [depth |-> a, score |-> h, reasons |-> x.reasons \cup {r}, direct |-> f]
        BY <4>2
      <4>4. [x EXCEPT !.reasons = x.reasons \cup {r}, !.score = h] = [y EXCEPT !.score = h]  BY <4>1
      <4> QED  BY <4>3, <4>4
    <3> QED  BY <3>1, <3>2, <3>3 DEF Merge
  <2> QED  BY <2>2, <2>4, <2>5
<1>16. selected = [x \in DOMAIN selected |-> selected[x]]  BY DEF EntriesOK
<1>17. Grows(e, n, d, r, sc)
  <2>1. CASE n \in DOMAIN selected
    <3>1. DOMAIN selected \cup {n} = DOMAIN selected  BY <2>1
    <3>2. /\ selected' = [x \in DOMAIN selected \cup {n} |-> selected'[x]]
          /\ \A x \in DOMAIN selected : x # n => selected'[x] = selected[x]
          /\ selected'[n] = Merge(selected[n], r, sc)
      BY <1>13, <1>16, <2>1, <3>1
    <3> QED  BY <1>14, <1>15, <2>1, <3>2 DEF Grows
  <2>2. CASE n \notin DOMAIN selected /\ Full
    <3>1. selected' = selected /\ edges' = edges  BY <1>13, <1>14, <2>2
    <3> QED  BY <2>2, <3>1 DEF Grows
  <2>3. CASE n \notin DOMAIN selected /\ ~Full
    <3>1. /\ selected' = [x \in DOMAIN selected \cup {n} |-> selected'[x]]
          /\ \A x \in DOMAIN selected : x # n => selected'[x] = selected[x]
          /\ selected'[n] = [depth |-> d, score |-> sc, reasons |-> {r}, direct |-> FALSE]
      BY <1>13, <2>3
    <3> QED  BY <1>14, <2>3, <3>1 DEF Grows
  <2> QED  BY <2>1, <2>2, <2>3
<1> QED  BY <1>12, <1>17

\* What holds of a node keeps holding: it stays, as near and as direct, with more
\* reasons and no less of a score.
Kept ==
    /\ DOMAIN selected \subseteq DOMAIN selected' /\ DOMAIN edges \subseteq DOMAIN edges'
    /\ \A x \in DOMAIN selected :
         /\ selected'[x].depth = selected[x].depth /\ selected'[x].direct = selected[x].direct
         /\ selected[x].reasons \subseteq selected'[x].reasons /\ selected'[x].score >= selected[x].score

LEMMA WalkKeeps ==
  ASSUME EntriesOK, NEW e, NEW at, NEW n, NEW d, NEW r, NEW sc,
         Moves(e, at, n, d, r, sc), Grows(e, n, d, r, sc)
  PROVE  /\ Kept
         /\ DOMAIN selected' = IF n \notin DOMAIN selected /\ Full THEN DOMAIN selected ELSE DOMAIN selected \cup {n}
         /\ DOMAIN edges' = IF n \notin DOMAIN selected /\ Full THEN DOMAIN edges
                            ELSE DOMAIN edges \cup {<<e.from, e.to, r>>}
<1>1. /\ DOMAIN selected' = IF n \notin DOMAIN selected /\ Full THEN DOMAIN selected ELSE DOMAIN selected \cup {n}
      /\ DOMAIN edges' = IF n \notin DOMAIN selected /\ Full THEN DOMAIN edges
                         ELSE DOMAIN edges \cup {<<e.from, e.to, r>>}
  <2>1. CASE n \notin DOMAIN selected /\ Full  BY <2>1 DEF Grows
  <2>2. CASE n \in DOMAIN selected \/ ~Full
    <3>1. PICK f : f = selected'  OBVIOUS
    <3>2. PICK g : g = edges'  OBVIOUS
    <3>3. f = [x \in DOMAIN selected \cup {n} |-> f[x]] /\ g = [k \in DOMAIN edges \cup {<<e.from, e.to, r>>} |-> g[k]]
      BY <2>2, <3>1, <3>2 DEF Grows
    <3>4. DOMAIN f = DOMAIN selected \cup {n} /\ DOMAIN g = DOMAIN edges \cup {<<e.from, e.to, r>>}
      BY <3>3
    <3> QED  BY <2>2, <3>1, <3>2, <3>4
  <2> QED  BY <2>1, <2>2
<1>2. ASSUME NEW x \in DOMAIN selected
      PROVE  /\ selected'[x].depth = selected[x].depth /\ selected'[x].direct = selected[x].direct
             /\ selected[x].reasons \subseteq selected'[x].reasons /\ selected'[x].score >= selected[x].score
  <2>1. selected[x].score \in Int  BY DEF EntriesOK, Entry
  <2>2. CASE x # n
    <3>1. selected'[x] = selected[x]  BY <2>2 DEF Grows
    <3> QED  BY <2>1, <3>1
  <2>3. CASE x = n
    <3>1. selected'[n] =
         [depth |-> selected[n].depth, score |-> IF selected[n].score < sc THEN sc ELSE selected[n].score,
          reasons |-> selected[n].reasons \cup {r}, direct |-> selected[n].direct]
      BY <2>3 DEF Grows
    <3>2. sc \in Int  BY DEF Moves
    <3> QED  BY <2>1, <2>3, <3>1, <3>2
  <2> QED  BY <2>2, <2>3
<1> QED  BY <1>1, <1>2 DEF Kept

LEMMA WalkTyped ==
  ASSUME GraphOK, DirectOK, EntriesOK, NEW e, NEW at, NEW n, NEW d, NEW r, NEW sc,
         Moves(e, at, n, d, r, sc), Grows(e, n, d, r, sc)
  PROVE  GraphOK' /\ DirectOK' /\ EntriesOK'
<1>0. Static /\ graph' = graph  BY DEF Moves
<1>1. GraphOK' /\ DirectOK'  BY <1>0, GraphKept, StaticKeeps
<1>2. Entry' = Entry /\ Nodes' = Nodes /\ Unmatched' = Unmatched /\ ChangedNodes' = ChangedNodes /\ limits' = limits
  BY <1>0, StaticKeeps DEF Static
<1>3. n \notin Unmatched /\ n \in Nodes  BY NodesApart DEF Moves
<1>4. DOMAIN selected' = IF n \notin DOMAIN selected /\ Full THEN DOMAIN selected ELSE DOMAIN selected \cup {n}
  BY WalkKeeps
<1>5. DOMAIN selected' \subseteq Nodes \cup Unmatched  BY <1>3, <1>4 DEF EntriesOK
<1>6. Cardinality(DOMAIN selected') <= limits.nodes
  <2>1. CASE DOMAIN selected' = DOMAIN selected  BY <2>1 DEF EntriesOK
  <2>2. CASE DOMAIN selected' # DOMAIN selected
    <3>1. n \notin DOMAIN selected /\ ~Full /\ DOMAIN selected' = DOMAIN selected \cup {n}  BY <1>4, <2>2
    <3>2. Cardinality(DOMAIN selected') = Cardinality(DOMAIN selected) + 1
      BY <3>1, SelectedFinite, FS_AddElement
    <3>3. limits.nodes \in Nat /\ Cardinality(DOMAIN selected) \in Nat  BY SelectedFinite DEF GraphOK
    <3> QED  BY <3>1, <3>2, <3>3 DEF Full
  <2> QED  BY <2>1, <2>2
<1>7. \A x \in DOMAIN selected : selected[x] \in Entry  BY DEF EntriesOK
<1>8. d \in 1..limits.depth /\ r \in Reasons /\ sc \in 10..100 /\ limits.depth \in Nat  BY DEF Moves, GraphOK
<1>9. "DIRECT_CHANGE" \notin Reasons  BY DEF Reasons
<1>10. ASSUME NEW x \in DOMAIN selected'
       PROVE  /\ selected'[x] \in Entry
              /\ selected'[x].direct <=> selected'[x].depth = 0
              /\ selected'[x].direct <=> "DIRECT_CHANGE" \in selected'[x].reasons
              /\ selected'[x].direct => selected'[x].score = 100 /\ x \in ChangedNodes \cup Unmatched
              /\ selected'[x].reasons # {}
              /\ x \in Unmatched => selected'[x] = DirectNode
  <2>1. CASE x # n
    <3>1. x \in DOMAIN selected /\ selected'[x] = selected[x]  BY <1>4, <2>1 DEF Grows
    <3> QED  BY <1>7, <3>1 DEF EntriesOK
  <2>2. CASE x = n /\ n \in DOMAIN selected
    <3>1. PICK y \in Entry : y = selected[n]  BY <1>7, <2>2
    <3>2. selected'[n] = [depth |-> y.depth, score |-> IF y.score < sc THEN sc ELSE y.score,
                          reasons |-> y.reasons \cup {r}, direct |-> y.direct]
      BY <2>2, <3>1 DEF Grows
    <3>3. /\ y.direct <=> y.depth = 0
          /\ y.direct <=> "DIRECT_CHANGE" \in y.reasons
          /\ y.direct => y.score = 100 /\ n \in ChangedNodes \cup Unmatched
      BY <2>2, <3>1 DEF EntriesOK
    <3>4. y.score \in 10..100 /\ y.depth \in 0..limits.depth /\ y.direct \in BOOLEAN
          /\ y.reasons \in SUBSET (Reasons \cup {"DIRECT_CHANGE"})
      BY DEF Entry
    <3>5. PICK h \in 10..100 : h = IF y.score < sc THEN sc ELSE y.score  BY <1>8, <3>4
    <3>6. selected'[n] = [depth |-> y.depth, score |-> h, reasons |-> y.reasons \cup {r}, direct |-> y.direct]
      BY <3>2, <3>5
    <3>7. selected'[n] \in Entry  BY <1>8, <3>4, <3>6 DEF Entry
    <3>8. y.direct => h = 100  BY <1>8, <3>3, <3>5
    <3> QED  BY <1>3, <1>8, <1>9, <2>2, <3>3, <3>6, <3>7, <3>8
  <2>3. CASE x = n /\ n \notin DOMAIN selected
    <3>1. selected'[n] = [depth |-> d, score |-> sc, reasons |-> {r}, direct |-> FALSE]
      BY <1>4, <2>3 DEF Grows
    <3>2. selected'[n] \in Entry  BY <1>8, <3>1 DEF Entry
    <3> QED  BY <1>3, <1>8, <1>9, <2>3, <3>1, <3>2
  <2> QED  BY <2>1, <2>2, <2>3
<1>11. selected' \in [DOMAIN selected' -> Entry]
  <2>1. PICK f : f = selected'  OBVIOUS
  <2>2. f = [x \in DOMAIN f |-> f[x]]
    <3>1. CASE n \notin DOMAIN selected /\ Full
      <4>1. f = selected  BY <2>1, <3>1 DEF Grows
      <4> QED  BY <4>1 DEF EntriesOK
    <3>2. CASE n \in DOMAIN selected \/ ~Full
      <4>1. f = [x \in DOMAIN selected \cup {n} |-> f[x]]  BY <2>1, <3>2 DEF Grows
      <4> QED  BY <4>1
    <3> QED  BY <3>1, <3>2
  <2>3. \A x \in DOMAIN f : f[x] \in Entry  BY <1>10, <2>1
  <2>4. f \in [DOMAIN f -> Entry]  BY <2>2, <2>3
  <2> QED  BY <2>1, <2>4
<1>12. EntriesOK'  BY <1>2, <1>5, <1>6, <1>10, <1>11 DEF EntriesOK
<1> QED  BY <1>1, <1>12

\* The queue of a step: what waited still waits, the first only while it has edges
\* left, and a node that is new waits behind it.
LEMMA WalkQueues ==
  ASSUME EntriesOK, QueueOK, NEW e, NEW at, NEW n, NEW d, NEW r, NEW sc,
         Moves(e, at, n, d, r, sc), Grows(e, n, d, r, sc)
  PROVE  /\ queue' \in Seq(DOMAIN selected')
         /\ \E shift \in {0, 1} :
              /\ shift = 0 <=> pending' # {}
              /\ \A i \in 1..Len(queue') :
                   \/ i + shift \in 1..Len(queue) /\ queue'[i] = queue[i + shift]
                   \/ i = Len(queue') /\ queue'[i] = n /\ n \notin DOMAIN selected /\ ~Full
         /\ \A m : Waiting(m) /\ (m # at \/ pending' # {}) => Waiting(m)'
         /\ n \notin DOMAIN selected /\ ~Full => Waiting(n)'
         /\ pending' # {} => queue' # << >> /\ Head(queue') = at
         /\ at = queue[1] /\ 1 \in 1..Len(queue)
<1> DEFINE rest == IF pending' = {} THEN Tail(queue) ELSE queue
           shift == IF pending' = {} THEN 1 ELSE 0
<1>1. queue \in Seq(DOMAIN selected) /\ queue # << >> /\ at = Head(queue)  BY DEF QueueOK, Moves
<1>2. Len(queue) \in Nat /\ Len(queue) > 0 /\ at = queue[1]  BY <1>1
<1>3. rest \in Seq(DOMAIN selected) /\ Len(rest) = Len(queue) - shift
      /\ \A i \in 1..Len(rest) : i + shift \in 1..Len(queue) /\ rest[i] = queue[i + shift]
  <2>1. CASE pending' = {}  BY <1>1, <1>2, <2>1
  <2>2. CASE pending' # {}  BY <1>1, <1>2, <2>2
  <2> QED  BY <2>1, <2>2
<1>4. queue' = IF n \in DOMAIN selected \/ Full THEN rest ELSE Append(rest, n)  BY DEF Moves
<1>5. DOMAIN selected' = IF n \notin DOMAIN selected /\ Full THEN DOMAIN selected ELSE DOMAIN selected \cup {n}
  BY WalkKeeps
<1>6. shift \in {0, 1} /\ (shift = 0 <=> pending' # {})  OBVIOUS
<1>7. pending' # {} => rest = queue  OBVIOUS
<1>8. \A k \in 1..Len(queue) : k # 1 \/ shift = 0 => k - shift \in 1..Len(rest) /\ rest[k - shift] = queue[k]
  <2> SUFFICES ASSUME NEW k \in 1..Len(queue), k # 1 \/ shift = 0
               PROVE  k - shift \in 1..Len(rest) /\ rest[k - shift] = queue[k]
    OBVIOUS
  <2> HIDE DEF rest, shift
  <2>1. k - shift \in 1..Len(rest)  BY <1>2, <1>3, <1>6
  <2>2. (k - shift) + shift = k  BY <1>6
  <2> QED  BY <1>3, <2>1, <2>2
<1> HIDE DEF rest, shift
<1>9. PICK q : q = queue'  OBVIOUS
<1>10. CASE n \in DOMAIN selected \/ Full
  <2>1. q = rest  BY <1>4, <1>9, <1>10
  <2>2. DOMAIN selected' = DOMAIN selected  BY <1>5, <1>10
  <2>3. ASSUME NEW m, Waiting(m), m # at \/ pending' # {} PROVE Waiting(m)'
    <3>1. PICK k \in 1..Len(queue) : queue[k] = m  BY <2>3 DEF Waiting
    <3>2. k # 1 \/ shift = 0  BY <1>2, <1>6, <2>3, <3>1
    <3>3. k - shift \in 1..Len(q) /\ q[k - shift] = m  BY <1>8, <2>1, <3>1, <3>2
    <3> QED  BY <1>9, <3>3 DEF Waiting
  <2>4. pending' # {} => q = queue  BY <1>7, <2>1
  <2>5. \A i \in 1..Len(q) : i + shift \in 1..Len(queue) /\ q[i] = queue[i + shift]  BY <1>3, <2>1
  <2>6. q \in Seq(DOMAIN selected')  BY <1>3, <2>1, <2>2
  <2>7. \E by \in {0, 1} :
           /\ by = 0 <=> pending' # {}
           /\ \A i \in 1..Len(queue') :
                \/ i + by \in 1..Len(queue) /\ queue'[i] = queue[i + by]
                \/ i = Len(queue') /\ queue'[i] = n /\ n \notin DOMAIN selected /\ ~Full
    BY <1>6, <1>9, <2>5
  <2>8. pending' # {} => queue' # << >> /\ Head(queue') = at  BY <1>1, <1>9, <2>4
  <2>9. at = queue[1] /\ 1 \in 1..Len(queue)  BY <1>2
  <2>10. queue' \in Seq(DOMAIN selected')  BY <1>9, <2>6
  <2> QED  BY <1>10, <2>3, <2>7, <2>8, <2>9, <2>10
<1>11. CASE n \notin DOMAIN selected /\ ~Full
  <2>1. q = Append(rest, n)  BY <1>4, <1>9, <1>11
  <2>2. DOMAIN selected' = DOMAIN selected \cup {n}  BY <1>5, <1>11
  <2>a. PICK S : S = DOMAIN selected \cup {n}  OBVIOUS
  <2>b. rest \in Seq(S) /\ n \in S  BY <1>3, <2>a
  <2>3. /\ q \in Seq(S) /\ Len(q) = Len(rest) + 1 /\ Len(rest) \in Nat
        /\ q[Len(q)] = n /\ \A i \in 1..Len(rest) : q[i] = rest[i]
    BY <2>1, <2>b
  <2>4. ASSUME NEW m, Waiting(m), m # at \/ pending' # {} PROVE Waiting(m)'
    <3>1. PICK k \in 1..Len(queue) : queue[k] = m  BY <2>4 DEF Waiting
    <3>2. k # 1 \/ shift = 0  BY <1>2, <1>6, <2>4, <3>1
    <3>3. k - shift \in 1..Len(rest) /\ rest[k - shift] = m  BY <1>8, <3>1, <3>2
    <3>4. k - shift \in 1..Len(q) /\ q[k - shift] = m  BY <2>3, <3>3
    <3> QED  BY <1>9, <3>4 DEF Waiting
  <2>5. Waiting(n)'
    <3>1. Len(q) \in 1..Len(q)  BY <2>3
    <3> QED  BY <1>9, <2>3, <3>1 DEF Waiting
  <2>6. ASSUME pending' # {} PROVE q # << >> /\ Head(q) = at
    <3>1. rest = queue  BY <1>7, <2>6
    <3>2. 1 \in 1..Len(rest) /\ q[1] = at  BY <1>2, <2>3, <3>1
    <3>3. q # << >> /\ Head(q) = q[1]  BY <2>3
    <3> QED  BY <3>2, <3>3
  <2>7. ASSUME NEW i \in 1..Len(q)
        PROVE  \/ i + shift \in 1..Len(queue) /\ q[i] = queue[i + shift]
               \/ i = Len(q) /\ q[i] = n /\ n \notin DOMAIN selected /\ ~Full
    <3>1. i \in 1..Len(rest) \/ i = Len(q)  BY <2>3
    <3> QED  BY <1>3, <1>11, <2>3, <3>1
  <2>8. q \in Seq(DOMAIN selected')  BY <2>2, <2>3, <2>a
  <2>9. \E by \in {0, 1} :
           /\ by = 0 <=> pending' # {}
           /\ \A i \in 1..Len(queue') :
                \/ i + by \in 1..Len(queue) /\ queue'[i] = queue[i + by]
                \/ i = Len(queue') /\ queue'[i] = n /\ n \notin DOMAIN selected /\ ~Full
    BY <1>6, <1>9, <2>7
  <2>10. pending' # {} => queue' # << >> /\ Head(queue') = at  BY <1>9, <2>6
  <2>11. at = queue[1] /\ 1 \in 1..Len(queue)  BY <1>2
  <2>12. queue' \in Seq(DOMAIN selected')  BY <1>9, <2>8
  <2> QED  BY <2>4, <2>5, <2>9, <2>10, <2>11, <2>12
<1> QED  BY <1>10, <1>11

LEMMA WalkOrders ==
  ASSUME GraphOK, DirectOK, EntriesOK, QueueOK, phase = "walk",
         NEW e, NEW at, NEW n, NEW d, NEW r, NEW sc, Moves(e, at, n, d, r, sc), Grows(e, n, d, r, sc)
  PROVE  QueueOK'
<1>1. todo' = {} /\ phase' = "walk"  BY DEF Moves
<1>2. Kept  BY WalkKeeps
<1>3. queue' \in Seq(DOMAIN selected')  BY WalkQueues
<1>4. queue \in Seq(DOMAIN selected)  BY DEF QueueOK
<1>5. PICK shift \in {0, 1} :
         \A i \in 1..Len(queue') :
            \/ i + shift \in 1..Len(queue) /\ queue'[i] = queue[i + shift]
            \/ i = Len(queue') /\ queue'[i] = n /\ n \notin DOMAIN selected /\ ~Full
  BY WalkQueues
<1> DEFINE depth(i) == selected[queue[i]].depth
           depth2(i) == selected'[queue'[i]].depth
<1>6. \A i \in 1..Len(queue) : depth(i) \in Nat
  <2>1. \A x \in DOMAIN selected : selected[x].depth \in 0..limits.depth  BY DEF EntriesOK, Entry
  <2>2. \A i \in 1..Len(queue) : queue[i] \in DOMAIN selected  BY <1>4
  <2> QED  BY <2>1, <2>2
<1>7. \A i, j \in 1..Len(queue) : i <= j => depth(i) <= depth(j) /\ depth(j) <= depth(i) + 1  BY DEF QueueOK
<1>8. d = depth(1) + 1 /\ 1 \in 1..Len(queue)
  <2>1. queue # << >> /\ at = Head(queue) /\ d = selected[at].depth + 1  BY DEF Moves
  <2>2. Head(queue) = queue[1] /\ 1 \in 1..Len(queue)  BY <1>4, <2>1
  <2> QED  BY <2>1, <2>2
<1>9. ASSUME NEW i \in 1..Len(queue')
      PROVE  \/ i + shift \in 1..Len(queue) /\ depth2(i) = depth(i + shift)
             \/ i = Len(queue') /\ depth2(i) = d
  <2>1. CASE i + shift \in 1..Len(queue) /\ queue'[i] = queue[i + shift]
    <3>1. queue[i + shift] \in DOMAIN selected  BY <1>4, <2>1
    <3> QED  BY <1>2, <2>1, <3>1 DEF Kept
  <2>2. CASE i = Len(queue') /\ queue'[i] = n /\ n \notin DOMAIN selected /\ ~Full
    <3>1. selected'[n] = [depth |-> d, score |-> sc, reasons |-> {r}, direct |-> FALSE]  BY <2>2 DEF Grows
    <3> QED  BY <2>2, <3>1
  <2> QED  BY <1>5, <2>1, <2>2
<1>10. Len(queue') \in Nat /\ Len(queue) \in Nat  BY <1>3, <1>4
<1>11. ASSUME NEW i \in 1..Len(queue'), NEW j \in 1..Len(queue'), i <= j
       PROVE  depth2(i) <= depth2(j) /\ depth2(j) <= depth2(i) + 1
  <2>a. PICK f : f = [k \in 1..Len(queue) |-> depth(k)]  OBVIOUS
  <2>b. \A k \in 1..Len(queue) : f[k] = depth(k)  BY <2>a
  <2>c. PICK di, dj : di = depth2(i) /\ dj = depth2(j)  OBVIOUS
  <2>1. /\ (i + shift \in 1..Len(queue) /\ di = f[i + shift]) \/ (i = Len(queue') /\ di = d)
        /\ (j + shift \in 1..Len(queue) /\ dj = f[j + shift]) \/ (j = Len(queue') /\ dj = d)
    BY <1>9, <2>b, <2>c
  <2>2. \A k, l \in 1..Len(queue) : k <= l => f[k] <= f[l] /\ f[l] <= f[k] + 1  BY <1>7, <2>b
  <2>3. \A k \in 1..Len(queue) : f[k] \in Nat  BY <1>6, <2>b
  <2>4. d = f[1] + 1 /\ 1 \in 1..Len(queue)  BY <1>8, <2>b
  <2> HIDE DEF depth, depth2
  <2>5. di <= dj /\ dj <= di + 1
    <3>1. CASE (i + shift \in 1..Len(queue) /\ di = f[i + shift]) /\ (j + shift \in 1..Len(queue) /\ dj = f[j + shift])
      <4>1. i + shift <= j + shift  BY <1>5, <1>10, <1>11
      <4> QED  BY <2>2, <3>1, <4>1
    <3>2. CASE (i + shift \in 1..Len(queue) /\ di = f[i + shift]) /\ (j = Len(queue') /\ dj = d)
      <4>1. 1 <= i + shift  BY <3>2
      <4>2. f[1] <= di /\ di <= f[1] + 1  BY <2>2, <2>4, <3>2, <4>1
      <4>3. di \in Nat /\ f[1] \in Nat  BY <2>3, <2>4, <3>2
      <4> QED  BY <2>4, <3>2, <4>2, <4>3
    <3>3. CASE i = Len(queue') /\ di = d /\ ~(j = Len(queue') /\ dj = d)
      <4>1. j = Len(queue')  BY <1>10, <1>11, <3>3
      <4>2. i = j  BY <3>3, <4>1
      <4> QED  BY <2>c, <3>3, <4>1, <4>2
    <3>4. CASE i = Len(queue') /\ di = d /\ j = Len(queue') /\ dj = d
      <4>1. d \in Nat  BY <2>3, <2>4
      <4> QED  BY <3>4, <4>1
    <3> QED  BY <2>1, <3>1, <3>2, <3>3, <3>4
  <2> QED  BY <2>5, <2>c
<1>12. ASSUME pending' # {} PROVE queue' # << >> /\ pending' \subseteq (EdgesAt(Head(queue)))' /\ Near(Head(queue))'
  <2>1. queue' # << >> /\ Head(queue') = at  BY <1>12, WalkQueues
  <2>2. pending' \subseteq EdgesAt(at)
    <3>1. pending' \subseteq pending /\ pending # {} /\ at = Head(queue)  BY DEF Moves
    <3> QED  BY <3>1 DEF QueueOK
  <2>3. graph' = graph /\ limits' = limits /\ Near(at)  BY DEF Moves, Static
  <2>4. pending' \subseteq EdgesAt(at)'  BY <2>2, <2>3 DEF EdgesAt
  <2>5. Near(at)'  BY <1>2, <2>3 DEF Near, Kept
  <2> QED  BY <2>1, <2>4, <2>5 DEF EdgesAt, Near
<1>13. todo' \subseteq Changed'  BY <1>1
<1> QED  BY <1>1, <1>3, <1>11, <1>12, <1>13 DEF QueueOK

LEMMA SeenKept ==
  ASSUME Static, Kept, NEW e, NEW n, Seen(e, n)
  PROVE  Seen(e, n)' /\ ScoreOf(e, n)' = ScoreOf(e, n)
<1>1. /\ e \in EdgesAt(n) /\ n \in DOMAIN selected
      /\ Neighbor(e, n) \in DOMAIN selected /\ selected[Neighbor(e, n)].depth < limits.depth
  BY DEF Seen, Near
<1>2. e \in EdgesAt(n)'  BY <1>1, StaticKeeps
<1>3. limits' = limits  BY DEF Static
<1>4. selected'[Neighbor(e, n)].depth = selected[Neighbor(e, n)].depth  BY <1>1 DEF Kept
<1>5. n \in DOMAIN selected' /\ Neighbor(e, n) \in DOMAIN selected'  BY <1>1 DEF Kept
<1>6. Near(Neighbor(e, n))'  BY <1>1, <1>3, <1>4, <1>5 DEF Near
<1> QED  BY <1>2, <1>4, <1>5, <1>6 DEF Seen, ScoreOf

LEMMA WalkSound ==
  ASSUME GraphOK, DirectOK, EntriesOK, QueueOK, SoundOK,
         NEW e, NEW at, NEW n, NEW d, NEW r, NEW sc, Moves(e, at, n, d, r, sc), Grows(e, n, d, r, sc)
  PROVE  SoundOK'
<1>0. Static /\ Kept
  <2>1. Static  BY DEF Moves
  <2>2. Kept  BY WalkKeeps
  <2> QED  BY <2>1, <2>2
<1>1. /\ graph' = graph /\ limits' = limits /\ Within' = Within /\ Unmatched' = Unmatched
  BY <1>0, StaticKeeps DEF Moves, Static
<1>2. /\ at \in DOMAIN selected /\ selected[at].depth = d - 1 /\ d \in 1..limits.depth
      /\ e \in graph.edges /\ e \in EdgesAt(n) /\ Neighbor(e, n) = at /\ r = ReasonForEdge(e, n)
      /\ sc = ImpactScore(r, d) /\ sc \in 10..100 /\ n \in Nodes
  <2>1. at \in DOMAIN selected /\ d = selected[at].depth + 1  BY DEF Moves, Near
  <2>2. selected[at].depth \in Int  BY <2>1 DEF EntriesOK, Entry
  <2>3. selected[at].depth = d - 1  BY <2>1, <2>2
  <2> QED  BY <2>1, <2>3 DEF Moves
<1>3. /\ DOMAIN selected' = IF n \notin DOMAIN selected /\ Full THEN DOMAIN selected ELSE DOMAIN selected \cup {n}
      /\ DOMAIN edges' = IF n \notin DOMAIN selected /\ Full THEN DOMAIN edges
                         ELSE DOMAIN edges \cup {<<e.from, e.to, r>>}
  BY WalkKeeps
<1>4. \A x, y : Seen(x, y) => Seen(x, y)' /\ ScoreOf(x, y)' = ScoreOf(x, y)  BY <1>0, SeenKept
<1>5. ASSUME n \in DOMAIN selected'
      PROVE  /\ Seen(e, n)' /\ ScoreOf(e, n)' = sc /\ Key(e, n) \in DOMAIN edges' /\ Key(e, n) = <<e.from, e.to, r>>
             /\ selected'[at].depth = d - 1
  <2>1. at \in DOMAIN selected' /\ selected'[at].depth = d - 1  BY <1>0, <1>2 DEF Kept
  <2>2. e \in EdgesAt(n)'  BY <1>1, <1>2 DEF EdgesAt
  <2>3. d - 1 < limits.depth  BY <1>2 DEF GraphOK
  <2>4. Near(at)'  BY <1>1, <2>1, <2>3 DEF Near
  <2>5. Seen(e, n)'  BY <1>2, <1>5, <2>2, <2>4 DEF Seen
  <2>6. (d - 1) + 1 = d  BY <1>2
  <2>7. ScoreOf(e, n)' = sc  BY <1>2, <2>1, <2>6 DEF ScoreOf
  <2>8. Key(e, n) = <<e.from, e.to, r>>  BY <1>2 DEF Key
  <2>9. Key(e, n) \in DOMAIN edges'  BY <1>3, <1>5, <2>8
  <2> QED  BY <2>1, <2>5, <2>7, <2>8, <2>9
<1>6. ASSUME NEW x \in DOMAIN selected' \ Unmatched' PROVE x \in Within'[selected'[x].depth]
  <2>1. CASE x \in DOMAIN selected
    <3>1. x \in Within[selected[x].depth]  BY <1>1, <1>6, <2>1 DEF SoundOK
    <3> QED  BY <1>0, <1>1, <2>1, <3>1 DEF Kept
  <2>2. CASE x \notin DOMAIN selected
    <3>1. x = n /\ n \notin DOMAIN selected /\ ~Full  BY <1>3, <1>6, <2>2
    <3>2. selected'[n] = [depth |-> d, score |-> sc, reasons |-> {r}, direct |-> FALSE]  BY <3>1 DEF Grows
    <3>3. at \in Within[d - 1]
      <4>1. at \notin Unmatched  BY NodesApart DEF Moves
      <4> QED  BY <1>2, <4>1 DEF SoundOK
    <3>4. Within[d] = Nearby(graph.edges, Within[d - 1])  BY <1>2, WithinFacts
    <3>5. n \in Decl  BY <1>2, NodesApart
    <3>6. n \in {e.from, e.to}  BY <1>2 DEF EdgesAt
    <3>7. n \in Within[d]  BY <1>2, <3>3, <3>4, <3>5, <3>6 DEF Nearby
    <3> QED  BY <1>1, <3>1, <3>2, <3>7
  <2> QED  BY <2>1, <2>2
<1>7. ASSUME NEW x \in DOMAIN selected', NEW q \in selected'[x].reasons \ {"DIRECT_CHANGE"}
      PROVE  \E y \in graph'.edges : Seen(y, x)' /\ q = ReasonForEdge(y, x)
  <2>1. CASE x \in DOMAIN selected /\ q \in selected[x].reasons
    <3>1. PICK y \in graph.edges : Seen(y, x) /\ q = ReasonForEdge(y, x)  BY <1>7, <2>1 DEF SoundOK
    <3> QED  BY <1>1, <1>4, <3>1
  <2>2. CASE ~(x \in DOMAIN selected /\ q \in selected[x].reasons)
    <3>1. x = n /\ q = r
      <4>1. CASE x \notin DOMAIN selected
        <5>1. x = n /\ n \notin DOMAIN selected /\ ~Full  BY <1>3, <4>1
        <5>2. selected'[n] = [depth |-> d, score |-> sc, reasons |-> {r}, direct |-> FALSE]  BY <5>1 DEF Grows
        <5> QED  BY <1>7, <5>1, <5>2
      <4>2. CASE x \in DOMAIN selected
        <5>1. x = n  BY <1>7, <2>2, <4>2 DEF Grows
        <5>2. selected'[n].reasons = selected[n].reasons \cup {r}  BY <4>2, <5>1 DEF Grows
        <5> QED  BY <1>7, <2>2, <4>2, <5>1, <5>2
      <4> QED  BY <4>1, <4>2
    <3> QED  BY <1>1, <1>2, <1>5, <3>1
  <2> QED  BY <2>1, <2>2
<1>8. ASSUME NEW x \in DOMAIN selected', ~selected'[x].direct
      PROVE  /\ \E y \in graph'.edges : Seen(y, x)' /\ selected'[x].score = ScoreOf(y, x)'
             /\ \E y \in graph'.edges : Seen(y, x)' /\ Key(y, x) \in DOMAIN edges'
                                        /\ selected'[Neighbor(y, x)].depth = selected'[x].depth - 1
  <2>1. CASE x \in DOMAIN selected
    <3>1. ~selected[x].direct  BY <1>0, <1>8, <2>1 DEF Kept
    <3>2. PICK y \in graph.edges : Seen(y, x) /\ selected[x].score = ScoreOf(y, x)
      BY <2>1, <3>1 DEF SoundOK
    <3>3. PICK z \in graph.edges : Seen(z, x) /\ Key(z, x) \in DOMAIN edges
                                   /\ selected[Neighbor(z, x)].depth = selected[x].depth - 1
      BY <2>1, <3>1 DEF SoundOK
    <3>4. /\ Seen(z, x)' /\ Key(z, x) \in DOMAIN edges'
          /\ selected'[Neighbor(z, x)].depth = selected'[x].depth - 1
      <4>1. Neighbor(z, x) \in DOMAIN selected  BY <3>3 DEF Seen, Near
      <4> QED  BY <1>0, <1>4, <2>1, <3>3, <4>1 DEF Kept
    <3>5. \E w \in graph.edges : Seen(w, x)' /\ selected'[x].score = ScoreOf(w, x)'
      <4>1. CASE selected'[x].score = selected[x].score  BY <1>4, <3>2, <4>1
      <4>2. CASE selected'[x].score # selected[x].score
        <5>1. x = n  BY <2>1, <4>2 DEF Grows
        <5>2. selected'[n].score = IF selected[n].score < sc THEN sc ELSE selected[n].score
          BY <2>1, <5>1 DEF Grows
        <5>3. selected'[x].score = sc  BY <4>2, <5>1, <5>2
        <5> QED  BY <1>2, <1>5, <5>1, <5>3
      <4> QED  BY <4>1, <4>2
    <3> QED  BY <1>1, <3>4, <3>5
  <2>2. CASE x \notin DOMAIN selected
    <3>1. x = n /\ n \notin DOMAIN selected /\ ~Full  BY <1>3, <2>2
    <3>2. selected'[n] = [depth |-> d, score |-> sc, reasons |-> {r}, direct |-> FALSE]  BY <3>1 DEF Grows
    <3> QED  BY <1>1, <1>2, <1>5, <3>1, <3>2
  <2> QED  BY <2>1, <2>2
<1>9. ASSUME NEW k \in DOMAIN edges'
      PROVE  /\ edges'[k].depth \in 1..limits'.depth /\ edges'[k].score \in 0..100
             /\ \E x \in DOMAIN selected' : \E y \in graph'.edges : Seen(y, x)' /\ k = Key(y, x)
  <2>1. CASE n \in DOMAIN selected' /\ k = <<e.from, e.to, r>>
    <3>1. n \in DOMAIN selected \/ ~Full  BY <1>3, <2>1
    <3>2. edges'[k] = [depth |-> d, score |-> sc]  BY <2>1, <3>1 DEF Grows
    <3> QED  BY <1>1, <1>2, <1>5, <2>1, <3>2
  <2>2. CASE ~(n \in DOMAIN selected' /\ k = <<e.from, e.to, r>>)
    <3>1. k \in DOMAIN edges /\ edges'[k] = edges[k]
      <4>1. CASE n \notin DOMAIN selected /\ Full  BY <1>9, <4>1 DEF Grows
      <4>2. CASE n \in DOMAIN selected \/ ~Full
        <5>1. k # <<e.from, e.to, r>>  BY <1>3, <2>2, <4>2
        <5>2. k \in DOMAIN edges  BY <1>3, <1>9, <4>2, <5>1
        <5> QED  BY <4>2, <5>1, <5>2 DEF Grows
      <4> QED  BY <4>1, <4>2
    <3>2. /\ edges[k].depth \in 1..limits.depth /\ edges[k].score \in 0..100
          /\ \E x \in DOMAIN selected : \E y \in graph.edges : Seen(y, x) /\ k = Key(y, x)
      BY <3>1 DEF SoundOK
    <3>3. PICK x \in DOMAIN selected, y \in graph.edges : Seen(y, x) /\ k = Key(y, x)  BY <3>2
    <3>4. x \in DOMAIN selected' /\ Seen(y, x)'  BY <1>0, <1>4, <3>3 DEF Kept
    <3> QED  BY <1>1, <3>1, <3>2, <3>3, <3>4
  <2> QED  BY <2>1, <2>2
<1>10. \A y, x : Key(y, x)' = Key(y, x) /\ ReasonForEdge(y, x)' = ReasonForEdge(y, x) /\ Neighbor(y, x)' = Neighbor(y, x)
  BY DEF Key
<1> QED  BY <1>1, <1>6, <1>7, <1>8, <1>9, <1>10 DEF SoundOK

LEMMA CompleteBefore ==
  ASSUME GraphOK, DirectOK, EntriesOK, Static, Kept, EntriesOK', GraphOK', DirectOK', Complete'
  PROVE  Complete
<1>1. IsFiniteSet(DOMAIN selected') /\ Cardinality(DOMAIN selected') \in Nat
  <2>1. DOMAIN selected' \subseteq Nodes' \cup Unmatched'  BY DEF EntriesOK
  <2>2. Nodes' = Nodes /\ Unmatched' = Unmatched  BY StaticKeeps
  <2>3. IsFiniteSet(DOMAIN selected')
    <3>1. DOMAIN selected' \in SUBSET (Nodes \cup Unmatched)  BY <2>1, <2>2
    <3> QED  BY <3>1, NodesApart, FS_Subset
  <2> QED  BY <2>3, FS_CardinalityType
<1>2. Cardinality(DOMAIN selected) \in Nat  BY SelectedFinite
<1>3. Cardinality(DOMAIN selected) <= Cardinality(DOMAIN selected')
  <2>1. DOMAIN selected \in SUBSET (DOMAIN selected')  BY DEF Kept
  <2> QED  BY <1>1, <2>1, FS_Subset
<1>4. limits' = limits /\ Within' = Within /\ Unmatched' = Unmatched  BY StaticKeeps DEF Static
<1>5. limits.nodes \in Nat  BY DEF GraphOK
<1>6. CASE Cardinality(DOMAIN selected') < limits'.nodes
  BY <1>1, <1>2, <1>3, <1>4, <1>5, <1>6 DEF Complete
<1>7. CASE Untruncated(Within)'
  <2>1. Untruncated(Within)  BY <1>4, <1>7 DEF Untruncated
  <2> QED  BY <2>1 DEF Complete
<1> QED  BY <1>6, <1>7 DEF Complete

LEMMA RecordedKept ==
  ASSUME GraphOK, Static, Kept, EntriesOK, EntriesOK',
         NEW n, NEW e \in EdgesAt(n), Recorded(e, n), Near(Neighbor(e, n))
  PROVE  Recorded(e, n)'
<1>1. n \in DOMAIN selected /\ n \in DOMAIN selected' /\ Neighbor(e, n) \in DOMAIN selected
  BY DEF Recorded, Near, Kept
<1>2. ScoreOf(e, n)' = ScoreOf(e, n)  BY <1>1 DEF ScoreOf, Kept
<1>3. selected[n].score \in Int /\ selected'[n].score \in Int  BY <1>1 DEF EntriesOK, Entry
<1>4. selected[n].score >= ScoreOf(e, n) /\ selected'[n].score >= selected[n].score
  BY <1>1 DEF Recorded, Kept
<1>5. selected'[n].score >= ScoreOf(e, n)
  <2>1. ReasonForEdge(e, n) \in Reasons  BY EdgeLeads
  <2>2. selected[Neighbor(e, n)].depth + 1 \in Nat \ {0}  BY <1>1 DEF EntriesOK, Entry
  <2>3. ScoreOf(e, n) \in Int  BY <2>1, <2>2, ScoreTyped DEF ScoreOf
  <2> QED  BY <1>3, <1>4, <2>3
<1>6. Key(e, n)' = Key(e, n) /\ ReasonForEdge(e, n)' = ReasonForEdge(e, n)  BY DEF Key
<1> QED  BY <1>1, <1>2, <1>5, <1>6 DEF Recorded, Kept

LEMMA FoundKept ==
  ASSUME Static, Kept, UNCHANGED todo, FoundOK
  PROVE  FoundOK'
<1>1. /\ Changed' = Changed /\ Unmatched' = Unmatched /\ todo' = todo /\ \A d : Matched(d)' = Matched(d)
  BY StaticKeeps
<1>2. \A x \in DOMAIN selected : x \in DOMAIN selected' /\ selected'[x].direct = selected[x].direct  BY DEF Kept
<1> QED  BY <1>1, <1>2 DEF FoundOK

LEMMA WalkThorough ==
  ASSUME GraphOK, DirectOK, EntriesOK, QueueOK, SoundOK, ThoroughOK, Complete',
         NEW e, NEW at, NEW n, NEW d, NEW r, NEW sc, Moves(e, at, n, d, r, sc), Grows(e, n, d, r, sc)
  PROVE  FoundOK' /\ AllWalked' /\ Nearest'
<1>0. Static /\ Kept /\ GraphOK' /\ DirectOK' /\ EntriesOK' /\ SoundOK'
  <2>1. Static  BY DEF Moves
  <2>2. Kept  BY WalkKeeps
  <2>3. GraphOK' /\ DirectOK' /\ EntriesOK'  BY WalkTyped
  <2>4. SoundOK'  BY WalkSound
  <2> QED  BY <2>1, <2>2, <2>3, <2>4
<1>1. FoundOK /\ AllWalked /\ Nearest  BY <1>0, CompleteBefore DEF ThoroughOK
<1>2. /\ graph' = graph /\ limits' = limits /\ Within' = Within /\ Unmatched' = Unmatched /\ Nodes' = Nodes
      /\ todo' = todo /\ todo = {} /\ pending' = pending \ {e}
  BY <1>0, StaticKeeps DEF Moves, Static
<1>3. /\ at \in DOMAIN selected /\ selected[at].depth = d - 1 /\ d \in 1..limits.depth /\ limits.depth \in Nat
      /\ at = Head(queue) /\ pending # {} /\ e \in pending
  <2>1. at \in DOMAIN selected /\ d = selected[at].depth + 1  BY DEF Moves, Near
  <2>2. selected[at].depth \in Int  BY <2>1 DEF EntriesOK, Entry
  <2>3. selected[at].depth = d - 1  BY <2>1, <2>2
  <2> QED  BY <2>1, <2>3 DEF Moves, GraphOK
<1>4. /\ e \in EdgesAt(n) /\ Neighbor(e, n) = at /\ Neighbor(e, at) = n /\ n # at /\ n \in Nodes /\ at \in Nodes
      /\ r = ReasonForEdge(e, n) /\ sc = ImpactScore(r, d) /\ sc \in 10..100
  BY DEF Moves
<1>5. /\ DOMAIN selected' = IF n \notin DOMAIN selected /\ Full THEN DOMAIN selected ELSE DOMAIN selected \cup {n}
      /\ DOMAIN edges' = IF n \notin DOMAIN selected /\ Full THEN DOMAIN edges
                         ELSE DOMAIN edges \cup {<<e.from, e.to, r>>}
  BY WalkKeeps
<1>6. n \in DOMAIN selected \/ ~Full
  <2> SUFFICES ASSUME n \notin DOMAIN selected, Full PROVE FALSE  OBVIOUS
  <2>1. selected' = selected  BY DEF Grows
  <2>2. Cardinality(DOMAIN selected) \in Nat /\ limits.nodes \in Nat  BY SelectedFinite DEF GraphOK
  <2>3. Untruncated(Within)' = Untruncated(Within)  BY <1>2 DEF Untruncated
  <2>4. Untruncated(Within)  BY <1>2, <2>1, <2>2, <2>3 DEF Complete, Full
  <2>5. at \notin Unmatched  BY <1>4, NodesApart
  <2>6. at \in Within[d - 1]  BY <1>3, <2>5 DEF SoundOK
  <2>7. Within[d] = Nearby(graph.edges, Within[d - 1])  BY <1>3, WithinFacts
  <2>8. n \in Decl /\ e \in graph.edges /\ n \in {e.from, e.to}  BY <1>4, NodesApart DEF EdgesAt
  <2>9. n \in Within[d]  BY <1>4, <2>6, <2>7, <2>8 DEF Nearby
  <2>10. n \in Within[limits.depth]
    <3>1. d \in 0..limits.depth /\ limits.depth \in 0..limits.depth /\ d <= limits.depth  BY <1>3
    <3> QED  BY <2>9, <3>1, WithinFacts
  <2>11. DOMAIN selected \subseteq Within[limits.depth] \cup Unmatched  BY SelectedWithin
  <2>12. Cardinality(DOMAIN selected) < limits.nodes  BY <2>4, <2>10, <2>11, RoomLeft
  <2> QED  BY <2>2, <2>12 DEF Full
<1>7. FoundOK'  BY <1>0, <1>1, <1>2, FoundKept
<1>8. Recorded(e, n)'
  <2>1. n \in DOMAIN selected' /\ <<e.from, e.to, r>> \in DOMAIN edges'  BY <1>5, <1>6
  <2>2. (d - 1) + 1 = d  BY <1>3
  <2>3. ScoreOf(e, n)' = sc  BY <1>0, <1>3, <1>4, <2>2 DEF ScoreOf, Kept
  <2>4. r \in selected'[n].reasons /\ selected'[n].score >= sc
    <3>1. CASE n \in DOMAIN selected
      <4>1. selected'[n] =
         [depth |-> selected[n].depth, score |-> IF selected[n].score < sc THEN sc ELSE selected[n].score,
          reasons |-> selected[n].reasons \cup {r}, direct |-> selected[n].direct]
        BY <3>1 DEF Grows
      <4>2. selected[n].score \in Int /\ sc \in Int  BY <1>4, <3>1 DEF EntriesOK, Entry
      <4> QED  BY <4>1, <4>2
    <3>2. CASE n \notin DOMAIN selected
      <4>1. selected'[n] = [depth |-> d, score |-> sc, reasons |-> {r}, direct |-> FALSE]  BY <1>6, <3>2 DEF Grows
      <4> QED  BY <1>4, <4>1
    <3> QED  BY <3>1, <3>2
  <2>5. Key(e, n)' = <<e.from, e.to, r>> /\ ReasonForEdge(e, n)' = r  BY <1>4 DEF Key
  <2> QED  BY <2>1, <2>3, <2>4, <2>5 DEF Recorded
<1>9. ASSUME NEW x \in graph.edges, NEW m \in {x.from, x.to}, Walked(m, x)' PROVE Recorded(x, Neighbor(x, m))'
  <2>1. /\ m \in DOMAIN selected' /\ selected'[m].depth < limits.depth /\ x \in EdgesAt(m)
        /\ ~Waiting(m)' \/ (pending' # {} /\ m = Head(queue') /\ x \notin pending')
    BY <1>2, <1>9 DEF Walked, Near, EdgesAt
  <2>2. ASSUME m \in DOMAIN selected, Walked(m, x) PROVE Recorded(x, Neighbor(x, m))'
    <3>1. Recorded(x, Neighbor(x, m))  BY <1>1, <1>9, <2>2 DEF AllWalked
    <3>2. Near(Neighbor(x, Neighbor(x, m)))
      <4>1. Neighbor(x, Neighbor(x, m)) = m  BY <2>1, EdgeLeads
      <4> QED  BY <2>2, <4>1 DEF Walked
    <3>3. x \in EdgesAt(Neighbor(x, m))  BY <2>1, EdgeLeads
    <3> QED  BY <1>0, <3>1, <3>2, <3>3, RecordedKept
  <2>3. m \in DOMAIN selected => Near(m)  BY <1>0, <2>1 DEF Near, Kept
  <2>4. CASE m = at
    <3>1. CASE x = e  BY <1>4, <1>8, <2>4, <3>1
    <3>2. CASE x # e
      <4>1. x \notin pending
        <5>1. CASE pending' = {}  BY <1>2, <3>2, <5>1
        <5>2. CASE pending' # {}
          <6>1. Waiting(at)'
            <7>1. Waiting(at)
              <8>1. at = queue[1] /\ 1 \in 1..Len(queue)  BY WalkQueues
              <8> QED  BY <8>1 DEF Waiting
            <7> QED  BY <5>2, <7>1, WalkQueues
          <6> QED  BY <1>2, <2>1, <2>4, <3>2, <6>1
        <5> QED  BY <5>1, <5>2
      <4>2. Walked(m, x)  BY <1>3, <2>1, <2>3, <2>4, <4>1 DEF Walked
      <4> QED  BY <1>3, <2>2, <2>4, <4>2
    <3> QED  BY <3>1, <3>2
  <2>5. CASE m # at
    <3>1. ~Waiting(m)'
      <4>1. pending' # {} => Head(queue') = at  BY WalkQueues
      <4> QED  BY <2>1, <2>5, <4>1
    <3>2. ~Waiting(m)  BY <2>5, <3>1, WalkQueues
    <3>3. m \in DOMAIN selected
      <4>1. n \notin DOMAIN selected /\ ~Full => Waiting(n)'  BY WalkQueues
      <4> QED  BY <1>5, <2>1, <3>1, <4>1
    <3>4. Walked(m, x)  BY <2>1, <2>3, <3>2, <3>3 DEF Walked
    <3> QED  BY <2>2, <3>3, <3>4
  <2> QED  BY <2>4, <2>5
<1>10. AllWalked'
  <2>1. \A x, m : Neighbor(x, m)' = Neighbor(x, m)  OBVIOUS
  <2> QED  BY <1>2, <1>9, <2>1 DEF AllWalked
<1>11. ASSUME NEW x \in DOMAIN selected' \ Unmatched', NEW k \in 0..(selected'[x].depth - 1)
       PROVE  x \notin Within'[k]
  <2>1. CASE x \in DOMAIN selected
    <3>1. k \in 0..(selected[x].depth - 1)  BY <1>0, <1>11, <2>1 DEF Kept
    <3> QED  BY <1>1, <1>2, <1>11, <2>1, <3>1 DEF Nearest
  <2>2. CASE x \notin DOMAIN selected
    <3>1. x = n /\ n \notin DOMAIN selected  BY <1>5, <1>11, <2>2
    <3>2. selected'[n] = [depth |-> d, score |-> sc, reasons |-> {r}, direct |-> FALSE]
      BY <1>6, <3>1 DEF Grows
    <3>3. k \in 0..(d - 1) /\ k \in 0..limits.depth /\ d - 1 \in 0..limits.depth /\ k <= d - 1
      BY <1>3, <1>11, <3>1, <3>2
    <3>4. \A m \in DOMAIN selected : selected[m].depth < d - 1 => ~Waiting(m)
      <4> SUFFICES ASSUME NEW m \in DOMAIN selected, selected[m].depth < d - 1, Waiting(m) PROVE FALSE
        OBVIOUS
      <4>1. PICK i \in 1..Len(queue) : queue[i] = m  BY DEF Waiting
      <4>2. at = queue[1] /\ 1 \in 1..Len(queue) /\ 1 <= i  BY WalkQueues
      <4>3. selected[queue[1]].depth <= selected[queue[i]].depth  BY <4>2 DEF QueueOK
      <4>4. selected[m].depth \in Int  BY DEF EntriesOK, Entry
      <4> QED  BY <1>3, <4>1, <4>2, <4>3, <4>4
    <3>5. \A y \in Within[d - 1] : y \in DOMAIN selected
      BY <1>1, <1>2, <3>3, <3>4, Covered
    <3>6. Within[k] \subseteq Within[d - 1]  BY <3>3, WithinFacts
    <3> QED  BY <1>2, <3>1, <3>5, <3>6
  <2> QED  BY <2>1, <2>2
<1>12. Nearest'  BY <1>11 DEF Nearest
<1> QED  BY <1>7, <1>10, <1>12

-----------------------------------------------------------------------------
(* A changed symbol is found in the graph. *)

\* Where a changed symbol is found, and what of it there is room for.
Matches(d) == IF MatchingNodes(graph.nodes, d) = {} THEN {d} ELSE MatchingNodes(graph.nodes, d)
Smaller(M, n) == {m \in M : m < n}
Room(M) == {n \in M : Cardinality(DOMAIN selected \cup Smaller(M, n)) < limits.nodes}

LEMMA MatchesTyped ==
  ASSUME GraphOK, DirectOK, QueueOK, NEW d \in todo
  PROVE  /\ Matches(d) \subseteq ChangedNodes \cup Unmatched /\ Matches(d) # {} /\ Matched(d) \subseteq Matches(d)
         /\ Matches(d) \subseteq Nodes \cup Unmatched /\ Matches(d) \subseteq Nat /\ IsFiniteSet(Matches(d))
         /\ \A n \in Matches(d) : Namesakes(n, d) /\ (d \in Unmatched => n \in Unmatched)
<1>1. d \in Changed  BY DEF QueueOK
<1>2. Matched(d) \subseteq MatchingNodes(graph.nodes, d)
  BY DEF GraphOK, Matched, MatchingNodes, Nodes
<1>3. MatchingNodes(graph.nodes, d) = {} => d \in Unmatched  BY <1>1, <1>2 DEF Unmatched
<1>4. \A n \in MatchingNodes(graph.nodes, d) : Namesakes(n, d) /\ n \in Nodes \cup Unmatched
  BY DEF MatchingNodes, GraphOK
<1>5. \A n \in Nodes : Namesakes(n, d) => n \in Matched(d)  BY DEF Matched, MatchingNodes, Nodes
<1>6. Matched(d) \subseteq ChangedNodes  BY <1>1 DEF ChangedNodes
<1>7. Namesakes(d, d)  BY DEF Namesakes
<1>8. d \in Unmatched => Matched(d) = {}  BY DEF Unmatched
<1>9. \A n \in Matches(d) : Namesakes(n, d) /\ n \in Nodes \cup Unmatched  BY <1>3, <1>4, <1>7 DEF Matches
<1>10. \A n \in Matches(d) : n \in ChangedNodes \cup Unmatched /\ (d \in Unmatched => n \in Unmatched)
  BY <1>5, <1>6, <1>8, <1>9
<1>11. Matches(d) # {} /\ Matched(d) \subseteq Matches(d)  BY <1>2 DEF Matches
<1>12. Matches(d) \in SUBSET (Nodes \cup Unmatched)  BY <1>9
<1>13. IsFiniteSet(Matches(d))  BY <1>12, NodesApart, FS_Subset
<1>14. Matches(d) \subseteq Nat  BY <1>12, NodesApart, DeclFinite
<1> QED  BY <1>9, <1>10, <1>11, <1>12, <1>13, <1>14

\* What the step is, by these names.
Finds(d) ==
    /\ todo' = todo \ {d} /\ Static /\ UNCHANGED <<phase, pending, edges>>
    /\ graph' = [mode |-> graph.mode, nodes |-> graph.nodes \cup Matches(d), edges |-> graph.edges]
    /\ queue' \in Seq(DOMAIN selected')
    /\ \A m : Waiting(m)' <=> Waiting(m) \/ m \in Room(Matches(d))
    /\ selected' = [n \in DOMAIN selected \cup Room(Matches(d)) |-> DirectNode]

LEMMA DirectFinds ==
  ASSUME GraphOK, DirectOK, EntriesOK, QueueOK, NEW d \in todo, SelectDirect(d)
  PROVE  Finds(d)
<1>1. PICK M : M = Matches(d)  OBVIOUS
<1>2. PICK T : T = Room(M)  OBVIOUS
<1>3. /\ graph' = [graph EXCEPT !.nodes = graph.nodes \cup M]
      /\ \E sorted \in InOrder(T) : queue' = queue \o sorted
      /\ selected' = [n \in DOMAIN selected \cup T |-> DirectNode]
      /\ todo' = todo \ {d} /\ UNCHANGED <<phase, direct, source, limits, pending, edges>>
  BY <1>1, <1>2 DEF SelectDirect, Matches, Room, Smaller
<1>5. graph' = [mode |-> graph.mode, nodes |-> graph.nodes \cup M, edges |-> graph.edges]
  BY <1>3 DEF GraphOK
<1>6. PICK sorted \in InOrder(T) : queue' = queue \o sorted  BY <1>3
<1>7. IsFiniteSet(T) /\ Cardinality(T) \in Nat
  <2>1. T \in SUBSET M  BY <1>2 DEF Room
  <2>2. IsFiniteSet(T)  BY <1>1, <2>1, MatchesTyped, FS_Subset
  <2> QED  BY <2>2, FS_CardinalityType
<1>8. sorted \in [1..Cardinality(T) -> T] /\ {sorted[i] : i \in DOMAIN sorted} = T
  BY DEF InOrder, ToSet
<1>9. sorted \in Seq(T) /\ DOMAIN sorted = 1..Len(sorted)  BY <1>7, <1>8, AsSequence
<1>10. PICK S : S = DOMAIN selected \cup T  OBVIOUS
<1>11. queue \in Seq(S) /\ sorted \in Seq(S)
  <2>1. queue \in Seq(DOMAIN selected)  BY DEF QueueOK
  <2> QED  BY <1>9, <1>10, <2>1
<1>12. PICK q : q = queue'  OBVIOUS
<1>13. q \in Seq(S) /\ Len(q) = Len(queue) + Len(sorted)
       /\ \A i \in 1..Len(q) : q[i] = IF i <= Len(queue) THEN queue[i] ELSE sorted[i - Len(queue)]
  BY <1>6, <1>11, <1>12
<1>14. Len(queue) \in Nat /\ Len(sorted) \in Nat  BY <1>11
<1>15. ASSUME NEW m PROVE Waiting(m)' <=> Waiting(m) \/ m \in T
  <2>1. ASSUME NEW i \in 1..Len(queue), queue[i] = m PROVE Waiting(m)'
    <3>1. i \in 1..Len(q) /\ q[i] = m  BY <1>13, <1>14, <2>1
    <3> QED  BY <1>12, <3>1 DEF Waiting
  <2>2. ASSUME m \in T PROVE Waiting(m)'
    <3>1. PICK i \in 1..Len(sorted) : sorted[i] = m  BY <1>8, <1>9, <2>2
    <3>2. Len(queue) + i \in 1..Len(q) /\ ~(Len(queue) + i <= Len(queue)) /\ Len(queue) + i - Len(queue) = i
      BY <1>13, <1>14
    <3>3. q[Len(queue) + i] = m  BY <1>13, <3>1, <3>2
    <3> QED  BY <1>12, <3>2, <3>3 DEF Waiting
  <2>3. ASSUME NEW i \in 1..Len(q), q[i] = m PROVE Waiting(m) \/ m \in T
    <3>1. CASE i <= Len(queue)
      <4>1. i \in 1..Len(queue) /\ queue[i] = m  BY <1>13, <1>14, <2>3, <3>1
      <4> QED  BY <4>1 DEF Waiting
    <3>2. CASE ~(i <= Len(queue))
      <4>1. i - Len(queue) \in 1..Len(sorted) /\ sorted[i - Len(queue)] = m  BY <1>13, <1>14, <2>3, <3>2
      <4> QED  BY <1>9, <4>1
    <3> QED  BY <3>1, <3>2
  <2> QED  BY <1>12, <2>1, <2>2, <2>3 DEF Waiting
<1>16. DOMAIN selected' = S  BY <1>3, <1>10
<1>17. Static  BY <1>3, <1>5 DEF Static
<1> QED  BY <1>1, <1>2, <1>3, <1>5, <1>12, <1>13, <1>15, <1>16, <1>17 DEF Finds

\* The node limit holds also for what is found.
LEMMA RoomKept ==
  ASSUME GraphOK, DirectOK, EntriesOK, QueueOK, NEW d \in todo
  PROVE  Cardinality(DOMAIN selected \cup Room(Matches(d))) <= limits.nodes
<1>1. PICK M : M = Matches(d)  OBVIOUS
<1>2. PICK T : T = Room(M)  OBVIOUS
<1>3. T \subseteq M /\ M \subseteq Nat /\ IsFiniteSet(M)  BY <1>1, <1>2, MatchesTyped DEF Room
<1>4. limits.nodes \in Nat /\ IsFiniteSet(DOMAIN selected)  BY SelectedFinite DEF GraphOK
<1>5. CASE T \subseteq DOMAIN selected
  <2>1. DOMAIN selected \cup T = DOMAIN selected  BY <1>5
  <2> QED  BY <1>1, <1>2, <2>1 DEF EntriesOK
<1>6. CASE ~(T \subseteq DOMAIN selected)
  <2>1. PICK b \in Nat : Decl = 1..b  BY DeclFinite
  <2>2. M \subseteq 1..b  BY <1>1, <2>1, MatchesTyped, NodesApart
  <2>3. PICK new : new = T \ DOMAIN selected  OBVIOUS
  <2>4. new \subseteq Nat /\ new # {} /\ \A x \in new : x <= b
    <3>1. new \subseteq Nat /\ new # {}  BY <1>3, <1>6, <2>3
    <3>2. \A x \in 1..b : x <= b  BY <2>1
    <3>3. new \subseteq 1..b  BY <1>3, <2>2, <2>3
    <3> QED  BY <3>1, <3>2, <3>3
  <2>5. PICK h \in new : \A x \in new : x <= h  BY <2>4, Highest
  <2>6. PICK S : S = DOMAIN selected \cup Smaller(M, h)  OBVIOUS
  <2>7. Cardinality(S) < limits.nodes  BY <1>2, <2>3, <2>5, <2>6 DEF Room
  <2>8. IsFiniteSet(S) /\ Cardinality(S) \in Nat
    <3>1. Smaller(M, h) \in SUBSET M  BY DEF Smaller
    <3>2. IsFiniteSet(Smaller(M, h))  BY <1>3, <3>1, FS_Subset
    <3>3. IsFiniteSet(S)  BY <1>4, <2>6, <3>2, FS_Union
    <3> QED  BY <3>3, FS_CardinalityType
  <2>9. DOMAIN selected \cup T \subseteq S \cup {h}
    <3> SUFFICES ASSUME NEW x \in T, x \notin DOMAIN selected, x # h PROVE x \in S  BY <2>6
    <3>1. x \in new /\ x \in M /\ x \in Nat /\ h \in Nat  BY <1>3, <2>3, <2>4, <2>5
    <3>2. x < h  BY <2>5, <3>1
    <3> QED  BY <2>6, <3>1, <3>2 DEF Smaller
  <2>10. IsFiniteSet(S \cup {h}) /\ Cardinality(S \cup {h}) <= Cardinality(S) + 1
    <3>1. IsFiniteSet(S)  BY <2>8
    <3>2. IsFiniteSet(S \cup {h}) /\ Cardinality(S \cup {h}) = IF h \in S THEN Cardinality(S) ELSE Cardinality(S) + 1
      BY <3>1, FS_AddElement, Zenon
    <3>3. Cardinality(S) \in Nat  BY <2>8
    <3>4. Cardinality(S \cup {h}) <= Cardinality(S) + 1  BY <3>2, <3>3, SMT
    <3> QED  BY <3>2, <3>4
  <2>11. Cardinality(S \cup {h}) \in Nat  BY <2>10, FS_CardinalityType
  <2>12. PICK U : U = DOMAIN selected \cup T  OBVIOUS
  <2>13. U \in SUBSET (S \cup {h})  BY <2>9, <2>12
  <2>14. IsFiniteSet(U) /\ Cardinality(U) <= Cardinality(S \cup {h})  BY <2>10, <2>13, FS_Subset
  <2>15. Cardinality(U) \in Nat  BY <2>14, FS_CardinalityType
  <2>16. Cardinality(U) <= limits.nodes  BY <1>4, <2>7, <2>8, <2>10, <2>11, <2>14, <2>15
  <2> QED  BY <1>1, <1>2, <2>12, <2>16
<1> QED  BY <1>5, <1>6

\* What is found is kept by the invariant.
LEMMA FindTyped ==
  ASSUME GraphOK, DirectOK, EntriesOK, QueueOK, phase = "walk", NEW d \in todo, Finds(d)
  PROVE  /\ GraphOK' /\ DirectOK' /\ EntriesOK' /\ QueueOK' /\ SoundOK' /\ Kept
         /\ \A n \in DOMAIN selected' : selected'[n] = DirectNode
         /\ DOMAIN selected' = DOMAIN selected \cup Room(Matches(d))
<1>1. PICK M : M = Matches(d)  OBVIOUS
<1>2. PICK T : T = Room(M)  OBVIOUS
<1>3. /\ todo' = todo \ {d} /\ Static /\ UNCHANGED <<phase, pending, edges>>
      /\ graph' = [mode |-> graph.mode, nodes |-> graph.nodes \cup M, edges |-> graph.edges]
      /\ queue' \in Seq(DOMAIN selected')
      /\ selected' = [n \in DOMAIN selected \cup T |-> DirectNode]
  BY <1>1, <1>2 DEF Finds
<1>4. /\ Nodes' = Nodes /\ Unmatched' = Unmatched /\ ChangedNodes' = ChangedNodes /\ Changed' = Changed
      /\ Within' = Within /\ Entry' = Entry /\ DirectOK'
      /\ direct' = direct /\ source' = source /\ limits' = limits /\ graph'.edges = graph.edges
  BY <1>3, StaticKeeps DEF Static
<1>5. M \subseteq ChangedNodes \cup Unmatched /\ M \subseteq Nodes \cup Unmatched /\ T \subseteq M
  BY <1>1, <1>2, MatchesTyped DEF Room
<1>6. GraphOK'
  <2>1. /\ graph'.mode = graph.mode /\ graph'.nodes = graph.nodes \cup M /\ graph'.edges = graph.edges  BY <1>3
  <2>2. graph' = [mode |-> graph'.mode, nodes |-> graph'.nodes, edges |-> graph'.edges]  BY <1>3, <2>1
  <2> QED  BY <1>4, <1>5, <2>1, <2>2 DEF GraphOK
<1>7. DOMAIN selected' = DOMAIN selected \cup T /\ \A n \in DOMAIN selected' : selected'[n] = DirectNode
  BY <1>3
<1>8. todo # {} /\ pending = {} /\ edges = << >> /\ \A n \in DOMAIN selected : selected[n] = DirectNode
  BY DEF QueueOK
<1>9. DirectNode \in Entry
  BY DEF DirectNode, Entry, GraphOK
<1>10. DirectNode.depth = 0 /\ DirectNode.direct = TRUE /\ DirectNode.reasons = {"DIRECT_CHANGE"} /\ DirectNode.score = 100
  BY DEF DirectNode
<1>11. DOMAIN selected \subseteq ChangedNodes \cup Unmatched /\ DOMAIN selected \subseteq Nodes \cup Unmatched
  BY <1>8, <1>10 DEF EntriesOK
<1>12. EntriesOK'
  <2>1. Cardinality(DOMAIN selected') <= limits.nodes  BY <1>1, <1>2, <1>7, RoomKept
  <2>2. selected' \in [DOMAIN selected' -> Entry]  BY <1>3, <1>7, <1>9
  <2>3. \A n \in DOMAIN selected' : n \in ChangedNodes \cup Unmatched /\ n \in Nodes \cup Unmatched
    BY <1>5, <1>7, <1>11
  <2>4. \A n \in DOMAIN selected' :
         /\ selected'[n].direct <=> selected'[n].depth = 0
         /\ selected'[n].direct <=> "DIRECT_CHANGE" \in selected'[n].reasons
         /\ selected'[n].direct => selected'[n].score = 100
         /\ selected'[n].reasons # {}
    BY <1>7, <1>10
  <2>5. DirectNode' = DirectNode  BY DEF DirectNode
  <2> QED  BY <1>4, <1>7, <2>1, <2>2, <2>3, <2>4, <2>5 DEF EntriesOK
<1>13. QueueOK'
  <2>1. \A i \in 1..Len(queue') : selected'[queue'[i]] = DirectNode
    <3>1. PICK q : q = queue'  OBVIOUS
    <3>2. PICK S : S = DOMAIN selected'  OBVIOUS
    <3>3. \A i \in 1..Len(q) : q[i] \in S  BY <1>3, <3>1, <3>2
    <3> QED  BY <1>7, <3>1, <3>2, <3>3
  <2>2. \A i, j \in 1..Len(queue') : /\ selected'[queue'[i]].depth <= selected'[queue'[j]].depth
                                    /\ selected'[queue'[j]].depth <= selected'[queue'[i]].depth + 1
    BY <1>10, <2>1
  <2>3. todo' \subseteq Changed' /\ pending' = {} /\ edges' = << >> /\ phase' = "walk"
    BY <1>3, <1>4, <1>8 DEF QueueOK
  <2>4. DirectNode' = DirectNode  BY DEF DirectNode
  <2> QED  BY <1>3, <1>7, <2>2, <2>3, <2>4 DEF QueueOK
<1>14. SoundOK'
  <2>1. ASSUME NEW n \in DOMAIN selected' \ Unmatched' PROVE n \in Within'[selected'[n].depth]
    <3>1. n \in ChangedNodes /\ selected'[n].depth = 0  BY <1>4, <1>5, <1>7, <1>10, <1>11, <2>1
    <3> QED  BY <1>4, <3>1, WithinFacts
  <2>2. \A n \in DOMAIN selected' : selected'[n].reasons \ {"DIRECT_CHANGE"} = {} /\ selected'[n].direct
    BY <1>7, <1>10
  <2>3. DOMAIN edges' = {}
    <3>1. edges' = << >>  BY <1>3, <1>8
    <3> QED  BY <3>1
  <2> QED  BY <2>1, <2>2, <2>3 DEF SoundOK
<1>15. Kept
  <2>1. DOMAIN selected \subseteq DOMAIN selected' /\ DOMAIN edges \subseteq DOMAIN edges'  BY <1>3, <1>7
  <2>2. \A x \in DOMAIN selected : selected'[x] = selected[x] /\ selected[x].score = 100
    BY <1>7, <1>8, <1>10
  <2> QED  BY <2>1, <2>2 DEF Kept
<1> QED  BY <1>1, <1>2, <1>4, <1>6, <1>7, <1>12, <1>13, <1>14, <1>15

LEMMA FindThorough ==
  ASSUME GraphOK, DirectOK, EntriesOK, QueueOK, ThoroughOK, phase = "walk", NEW d \in todo, Finds(d), Complete'
  PROVE  FoundOK' /\ AllWalked' /\ Nearest'
<1>0. /\ GraphOK' /\ DirectOK' /\ EntriesOK' /\ Kept /\ Static
      /\ \A n \in DOMAIN selected' : selected'[n] = DirectNode
  <2>1. Static  BY DEF Finds
  <2> QED  BY <2>1, FindTyped
<1>1. FoundOK /\ AllWalked /\ Nearest  BY <1>0, CompleteBefore DEF ThoroughOK
<1>2. PICK M : M = Matches(d)  OBVIOUS
<1>3. PICK T : T = Room(M)  OBVIOUS
<1>4. DOMAIN selected' = DOMAIN selected \cup T /\ T \subseteq M  BY <1>2, <1>3, FindTyped DEF Room
<1>5. /\ Matched(d) \subseteq M /\ M # {} /\ M \subseteq Nat /\ IsFiniteSet(M) /\ M \subseteq ChangedNodes \cup Unmatched
      /\ \A n \in M : Namesakes(n, d) /\ (d \in Unmatched => n \in Unmatched)
  BY <1>2, MatchesTyped
<1>6. /\ Changed' = Changed /\ Unmatched' = Unmatched /\ ChangedNodes' = ChangedNodes /\ Within' = Within
      /\ limits' = limits /\ graph'.edges = graph.edges
      /\ \A x : Matched(x)' = Matched(x)
      /\ \A x : EdgesAt(x)' = EdgesAt(x)
  BY <1>0, StaticKeeps DEF Static
<1>7. todo' = todo \ {d} /\ pending' = {} /\ edges = << >> /\ \A n \in DOMAIN selected : selected[n] = DirectNode
  BY DEF QueueOK, Finds
<1>8. DOMAIN selected' \subseteq ChangedNodes \cup Unmatched
  <2>1. DirectNode.direct = TRUE  BY DEF DirectNode
  <2> QED  BY <1>4, <1>5, <1>7, <2>1 DEF EntriesOK
<1>9. M \subseteq DOMAIN selected'
  <2> SUFFICES ASSUME ~(M \subseteq DOMAIN selected') PROVE FALSE  OBVIOUS
  <2>1. PICK left : left = M \ DOMAIN selected'  OBVIOUS
  <2>2. PICK h \in left : \A x \in left : ~(x < h)  BY <1>5, <2>1, Smallest
  <2>3. PICK S : S = DOMAIN selected \cup Smaller(M, h)  OBVIOUS
  <2>4. h \in M /\ h \notin DOMAIN selected' /\ h \notin T /\ h \in Nat  BY <1>4, <1>5, <2>1, <2>2
  <2>5. ~(Cardinality(S) < limits.nodes)  BY <1>3, <2>3, <2>4 DEF Room
  <2>6. S \subseteq DOMAIN selected'
    <3>1. \A m \in Smaller(M, h) : m \in M /\ m < h /\ m \notin left  BY <2>2 DEF Smaller
    <3> QED  BY <1>4, <2>1, <2>3, <3>1
  <2>7. h \notin S  BY <2>4, <2>6
  <2>8. Untruncated(Within)
    <3>1. IsFiniteSet(DOMAIN selected')
      <4>1. DOMAIN selected' \subseteq Nodes \cup Unmatched  BY <1>8, NodesApart
      <4>2. DOMAIN selected' \in SUBSET (Nodes \cup Unmatched)  BY <4>1
      <4> QED  BY <4>2, NodesApart, FS_Subset
    <3>2. S \in SUBSET (DOMAIN selected')  BY <2>6
    <3>3. IsFiniteSet(S) /\ Cardinality(S) <= Cardinality(DOMAIN selected')  BY <3>1, <3>2, FS_Subset
    <3>4. Cardinality(S) \in Nat /\ Cardinality(DOMAIN selected') \in Nat /\ limits.nodes \in Nat
      BY <3>1, <3>3, FS_CardinalityType DEF GraphOK
    <3>5. ~(Cardinality(DOMAIN selected') < limits'.nodes)  BY <1>6, <2>5, <3>3, <3>4
    <3>6. Untruncated(Within)'  BY <3>5 DEF Complete
    <3> QED  BY <1>6, <3>6 DEF Untruncated
  <2>9. ChangedNodes \subseteq Within[limits.depth]
    <3>1. 0 \in 0..limits.depth /\ limits.depth \in 0..limits.depth /\ 0 <= limits.depth  BY DEF GraphOK
    <3> QED  BY <3>1, WithinFacts
  <2>10. S \subseteq Within[limits.depth] \cup Unmatched /\ h \in Within[limits.depth] \cup Unmatched
    BY <1>5, <1>8, <2>4, <2>6, <2>9
  <2> QED  BY <2>5, <2>7, <2>8, <2>10, RoomLeft
<1>10. DirectNode.direct = TRUE /\ DirectNode.depth = 0  BY DEF DirectNode
<1>11. FoundOK'
  <2>1. \A x \in Changed \ todo' : x = d \/ x \in Changed \ todo  BY <1>7
  <2>2. \A x \in Unmatched \ todo' : x = d \/ x \in Unmatched \ todo  BY <1>7
  <2>3. ASSUME NEW x \in Changed \ todo', NEW n \in Matched(x)
        PROVE  n \in DOMAIN selected' /\ selected'[n].direct
    <3>1. n \in DOMAIN selected'
      <4>1. CASE x = d  BY <1>5, <1>9, <2>3, <4>1
      <4>2. CASE x \in Changed \ todo  BY <1>1, <1>4, <2>3, <4>2 DEF FoundOK
      <4> QED  BY <2>1, <4>1, <4>2
    <3> QED  BY <1>0, <1>10, <3>1
  <2>4. ASSUME NEW x \in Unmatched \ todo'
        PROVE  \E n \in Unmatched \cap DOMAIN selected' : Namesakes(n, x)
    <3>1. CASE x = d
      <4>1. PICK n \in M : TRUE  BY <1>5
      <4> QED  BY <1>5, <1>9, <2>4, <3>1, <4>1
    <3>2. CASE x \in Unmatched \ todo  BY <1>1, <1>4, <3>2 DEF FoundOK
    <3> QED  BY <2>2, <3>1, <3>2
  <2> QED  BY <1>6, <2>3, <2>4 DEF FoundOK
<1>12. AllWalked'
  <2>1. ASSUME NEW e \in graph.edges, NEW m \in {e.from, e.to}, Walked(m, e)' PROVE FALSE
    <3>1. /\ m \in DOMAIN selected' /\ selected'[m].depth < limits.depth /\ e \in EdgesAt(m) /\ ~Waiting(m)'
      BY <1>6, <1>7, <2>1 DEF Walked, Near
    <3>2. m \notin T /\ ~Waiting(m)  BY <1>2, <1>3, <3>1 DEF Finds
    <3>3. m \in DOMAIN selected  BY <1>4, <3>1, <3>2
    <3>4. Near(m)  BY <1>0, <3>1, <3>3 DEF Near, Kept
    <3>5. Walked(m, e)  BY <3>1, <3>2, <3>4 DEF Walked
    <3>6. Recorded(e, Neighbor(e, m))  BY <1>1, <2>1, <3>5 DEF AllWalked
    <3>7. DOMAIN edges = {}  BY <1>7
    <3> QED  BY <3>6, <3>7 DEF Recorded
  <2> QED  BY <1>6, <2>1 DEF AllWalked
<1>13. Nearest'
  <2>1. \A n \in DOMAIN selected' : 0..(selected'[n].depth - 1) = {}  BY <1>0, <1>10
  <2> QED  BY <2>1 DEF Nearest
<1> QED  BY <1>11, <1>12, <1>13

-----------------------------------------------------------------------------
(* The other steps. *)

LEMMA Unmoved ==
  ASSUME UNCHANGED <<direct, source, graph, limits, todo, selected, edges>>
  PROVE  /\ Static
         /\ GraphOK => GraphOK'
         /\ EntriesOK => EntriesOK'
         /\ SoundOK => SoundOK'
         /\ FoundOK => FoundOK'
         /\ Nearest => Nearest'
         /\ Complete' => Complete
         /\ \A m : Near(m)' <=> Near(m)
         /\ \A e, n : Recorded(e, n) => Recorded(e, n)'
<1>1. Static  BY DEF Static
<1>2. /\ Nodes' = Nodes /\ Unmatched' = Unmatched /\ ChangedNodes' = ChangedNodes /\ Changed' = Changed
      /\ Within' = Within /\ Entry' = Entry
      /\ \A d : Matched(d)' = Matched(d)
      /\ \A n : EdgesAt(n)' = EdgesAt(n)
  BY <1>1, StaticKeeps
<1>3. /\ direct' = direct /\ source' = source /\ graph' = graph /\ limits' = limits /\ todo' = todo
      /\ selected' = selected /\ edges' = edges
  OBVIOUS
<1>4. GraphOK => GraphOK'  BY <1>1, GraphKept
<1>5. DirectNode' = DirectNode /\ \A e, n : Key(e, n)' = Key(e, n)  BY DEF DirectNode, Key
<1>6. EntriesOK => EntriesOK'  BY <1>2, <1>3, <1>5 DEF EntriesOK
<1>7. \A m : Near(m)' <=> Near(m)  BY <1>3 DEF Near
<1>8. \A e, n : (Seen(e, n)' <=> Seen(e, n)) /\ ScoreOf(e, n)' = ScoreOf(e, n)
  BY <1>2, <1>3, <1>7 DEF Seen, ScoreOf
<1>9. SoundOK => SoundOK'  BY <1>2, <1>3, <1>5, <1>8 DEF SoundOK
<1>10. FoundOK => FoundOK'  BY <1>2, <1>3 DEF FoundOK
<1>11. Nearest => Nearest'  BY <1>2, <1>3 DEF Nearest
<1>12. Complete' => Complete  BY <1>2, <1>3 DEF Complete, Untruncated
<1>13. \A e, n : Recorded(e, n) => Recorded(e, n)'  BY <1>3, <1>5, <1>8 DEF Recorded
<1> QED  BY <1>1, <1>4, <1>6, <1>7, <1>9, <1>10, <1>11, <1>12, <1>13

LEMMA VisitKeeps ==
  ASSUME WalkOK, DirectOK, Visit
  PROVE  WalkOK'
<1>1. GraphOK /\ EntriesOK /\ QueueOK /\ SoundOK /\ ThoroughOK  BY DEF WalkOK
<1>2. /\ phase = "walk" /\ todo = {} /\ pending = {} /\ queue # << >>
      /\ UNCHANGED <<phase, script, direct, source, graph, limits, todo, selected, edges>>
  BY DEF Visit
<1>3. GraphOK' /\ EntriesOK' /\ SoundOK' /\ \A m : Near(m)' <=> Near(m)
  BY <1>1, <1>2, Unmoved
<1>4. \A n : EdgesAt(n)' = EdgesAt(n)  BY <1>2 DEF EdgesAt
<1>5. PICK at : at = Head(queue)  OBVIOUS
<1>6. queue \in Seq(DOMAIN selected) /\ at \in DOMAIN selected /\ at = queue[1] /\ Len(queue) \in Nat /\ Len(queue) > 0
  BY <1>1, <1>2, <1>5 DEF QueueOK
\* Either the edges of the node are taken up, or there is nothing to be done there.
<1>7. \/ queue' = queue /\ pending' = EdgesAt(at) /\ EdgesAt(at) # {} /\ Near(at)
      \/ queue' = Tail(queue) /\ pending' = {} /\ ~(Near(at) /\ EdgesAt(at) # {})
  BY <1>2, <1>5, <1>6 DEF Visit, Near
<1>8. QueueOK'
  <2>1. CASE queue' = queue /\ pending' = EdgesAt(at) /\ EdgesAt(at) # {} /\ Near(at)
    <3>1. Near(at)' /\ pending' \subseteq EdgesAt(at)'  BY <1>3, <1>4, <2>1
    <3>2. Head(queue') = at  BY <1>5, <2>1
    <3>3. todo' \subseteq Changed'  BY <1>2
    <3>4. pending' # {} => queue' # << >> /\ pending' \subseteq EdgesAt(Head(queue))' /\ Near(Head(queue))'
      BY <1>2, <2>1, <3>1, <3>2 DEF EdgesAt, Near
    <3>5. \A i, j \in 1..Len(queue') : i <= j =>
            /\ selected'[queue'[i]].depth <= selected'[queue'[j]].depth
            /\ selected'[queue'[j]].depth <= selected'[queue'[i]].depth + 1
      BY <1>1, <1>2, <2>1 DEF QueueOK
    <3> QED  BY <1>2, <1>6, <2>1, <3>3, <3>4, <3>5 DEF QueueOK, EdgesAt, Near
  <2>2. CASE queue' = Tail(queue) /\ pending' = {}
    <3>1. PICK q : q = queue'  OBVIOUS
    <3>2. q \in Seq(DOMAIN selected) /\ Len(q) = Len(queue) - 1 /\ \A i \in 1..Len(q) : i + 1 \in 1..Len(queue) /\ q[i] = queue[i + 1]
      BY <1>6, <2>2, <3>1
    <3>3. \A i, j \in 1..Len(q) : i <= j =>
            /\ selected[q[i]].depth <= selected[q[j]].depth
            /\ selected[q[j]].depth <= selected[q[i]].depth + 1
      <4> SUFFICES ASSUME NEW i \in 1..Len(q), NEW j \in 1..Len(q), i <= j
                   PROVE  /\ selected[q[i]].depth <= selected[q[j]].depth
                          /\ selected[q[j]].depth <= selected[q[i]].depth + 1
        OBVIOUS
      <4>1. i + 1 \in 1..Len(queue) /\ j + 1 \in 1..Len(queue) /\ i + 1 <= j + 1  BY <1>6, <3>2
      <4>2. q[i] = queue[i + 1] /\ q[j] = queue[j + 1]  BY <3>2
      <4> QED  BY <1>1, <4>1, <4>2 DEF QueueOK
    <3>4. todo' \subseteq Changed'  BY <1>2
    <3> QED  BY <1>2, <2>2, <3>1, <3>2, <3>3, <3>4 DEF QueueOK
  <2> QED  BY <1>7, <2>1, <2>2
<1>9. ASSUME Complete' PROVE FoundOK' /\ AllWalked' /\ Nearest'
  <2>1. FoundOK /\ AllWalked /\ Nearest  BY <1>1, <1>2, <1>9, Unmoved DEF ThoroughOK
  <2>2. FoundOK' /\ Nearest' /\ \A e, n : Recorded(e, n) => Recorded(e, n)'  BY <1>2, <2>1, Unmoved
  <2>3. ASSUME NEW e \in graph.edges, NEW m \in {e.from, e.to}, Walked(m, e)' PROVE Recorded(e, Neighbor(e, m))'
    <3>1. /\ Near(m) /\ e \in EdgesAt(m)
          /\ ~Waiting(m)' \/ (pending' # {} /\ m = Head(queue') /\ e \notin pending')
      BY <1>3, <1>4, <2>3 DEF Walked
    <3>2. ~Waiting(m)
      <4> SUFFICES ASSUME Waiting(m) PROVE FALSE  OBVIOUS
      <4>1. CASE queue' = queue /\ pending' = EdgesAt(at)
        <5>1. Waiting(m)'  BY <4>1 DEF Waiting
        <5>2. m = at  BY <1>5, <3>1, <4>1, <5>1
        <5> QED  BY <3>1, <4>1, <5>1, <5>2
      <4>2. CASE queue' = Tail(queue) /\ pending' = {} /\ ~(Near(at) /\ EdgesAt(at) # {})
        <5>1. m # at  BY <3>1, <4>2
        <5>2. PICK i \in 1..Len(queue) : queue[i] = m  BY DEF Waiting
        <5>3. i # 1  BY <1>6, <5>1, <5>2
        <5>4. PICK q : q = queue'  OBVIOUS
        <5>5. i - 1 \in 1..Len(q) /\ q[i - 1] = m  BY <1>6, <4>2, <5>2, <5>3, <5>4
        <5>6. Waiting(m)'  BY <5>4, <5>5 DEF Waiting
        <5> QED  BY <3>1, <4>2, <5>6
      <4> QED  BY <1>7, <4>1, <4>2
    <3>3. Walked(m, e)  BY <3>1, <3>2 DEF Walked
    <3>4. Recorded(e, Neighbor(e, m))  BY <2>1, <2>3, <3>3 DEF AllWalked
    <3> QED  BY <2>2, <3>4
  <2>4. AllWalked'  BY <1>2, <2>3 DEF AllWalked
  <2> QED  BY <2>2, <2>4
<1> QED  BY <1>3, <1>8, <1>9 DEF WalkOK, ThoroughOK

LEMMA SelectedKeeps ==
  ASSUME WalkOK, DirectOK, Selected
  PROVE  WalkOK'
<1>1. GraphOK /\ EntriesOK /\ QueueOK /\ SoundOK /\ ThoroughOK  BY DEF WalkOK
<1>2. /\ todo = {} /\ pending = {} /\ queue = << >> /\ phase' = "done"
      /\ UNCHANGED <<script, direct, source, graph, limits, todo, selected, queue, pending, edges>>
  BY DEF Selected
<1>3. GraphOK' /\ EntriesOK' /\ SoundOK' /\ \A m : Near(m)' <=> Near(m)
  BY <1>1, <1>2, Unmoved
<1>4. QueueOK'  BY <1>1, <1>2 DEF QueueOK, Changed, EdgesAt, Near
<1>5. ASSUME Complete' PROVE FoundOK' /\ AllWalked' /\ Nearest'
  <2>1. FoundOK /\ AllWalked /\ Nearest  BY <1>1, <1>2, <1>5, Unmoved DEF ThoroughOK
  <2>2. FoundOK' /\ Nearest' /\ \A e, n : Recorded(e, n) => Recorded(e, n)'  BY <1>2, <2>1, Unmoved
  <2>3. \A m, e : Walked(m, e)' => Walked(m, e)  BY <1>2, <1>3 DEF Walked, Waiting, EdgesAt
  <2>4. AllWalked'  BY <1>2, <2>1, <2>2, <2>3 DEF AllWalked
  <2> QED  BY <2>2, <2>4
<1> QED  BY <1>3, <1>4, <1>5 DEF WalkOK, ThoroughOK

LEMMA AnalyzeStarts ==
  ASSUME DirectOK, selected = << >>, queue = << >>, pending = {}, edges = << >>, AnalyzeDirectory
  PROVE  WalkOK'
<1>0. PICK mode \in Modes :
         /\ source' \in SourceTrees(Decl \ Deleted, mode)
         /\ graph' = [mode |-> mode, nodes |-> GraphNodes(source'.nodes), edges |-> GraphEdges(mode, source')]
  BY DEF AnalyzeDirectory
<1>1. /\ limits' \in [depth : Depths, nodes : Sizes]
      /\ todo' = Changed /\ phase' = "walk"
      /\ direct' = direct /\ selected' = << >> /\ queue' = << >> /\ pending' = {} /\ edges' = << >>
  BY DEF AnalyzeDirectory
<1>2. Decl \ Deleted \in SUBSET Decl  OBVIOUS
<1>3. source'.nodes = Decl \ Deleted /\ source'.calls \subseteq CallSites(source'.nodes, mode)
  BY <1>0, SourceTyped
<1>4. Linked(GraphEdges(mode, source'), GraphNodes(source'.nodes))
  BY <1>0, <1>2, <1>3, GraphsLinked
<1>5. limits' \in [depth : Nat \ {0}, nodes : Nat \ {0}]  BY <1>1, ImpactAssumption
<1>6. /\ graph' = [mode |-> graph'.mode, nodes |-> graph'.nodes, edges |-> graph'.edges]
      /\ graph'.mode = mode /\ graph'.nodes = GraphNodes(source'.nodes)
      /\ graph'.edges = GraphEdges(mode, source')
  BY <1>0
<1>7. GraphOK'
  <2>1. Nodes' = GraphNodes(source'.nodes)  BY DEF Nodes
  <2>2. Linked(graph'.edges, Nodes')  BY <1>4, <1>6, <2>1
  <2>3. (GraphEdges(graph.mode, source))' = GraphEdges(graph'.mode, source')  OBVIOUS
  <2>4. source'.nodes \subseteq Decl  BY <1>3
  <2> QED  BY <1>3, <1>5, <1>6, <2>1, <2>2, <2>4 DEF GraphOK
<1>8. DOMAIN selected' = {} /\ DOMAIN edges' = {} /\ Changed' = Changed  BY <1>1 DEF Changed
<1>9. EntriesOK'
  <2>1. Cardinality(DOMAIN selected') = 0  BY <1>8, FS_EmptySet
  <2>2. selected' \in [DOMAIN selected' -> Entry']  BY <1>1
  <2>3. limits'.nodes \in Nat  BY <1>5
  <2> QED  BY <1>8, <2>1, <2>2, <2>3 DEF EntriesOK
<1>10. QueueOK'  BY <1>1, <1>8 DEF QueueOK
<1>11. SoundOK'  BY <1>8 DEF SoundOK
<1>12. FoundOK' /\ AllWalked' /\ Nearest'
  <2>1. Unmatched' \subseteq Changed'  BY DEF Unmatched
  <2>2. FoundOK'  BY <1>1, <1>8, <2>1 DEF FoundOK
  <2>3. AllWalked'  BY <1>8 DEF AllWalked, Walked, Near
  <2>4. Nearest'  BY <1>8 DEF Nearest
  <2> QED  BY <2>2, <2>3, <2>4
<1> QED  BY <1>7, <1>9, <1>10, <1>11, <1>12 DEF WalkOK, ThoroughOK

\* Every step of the impact keeps the invariant.
Impact == DirectOK /\ DirectIsExact
          /\ (phase \in {"diff", "mapped", "fetched"} => selected = << >> /\ queue = << >> /\ pending = {} /\ edges = << >>)
          /\ (phase \in {"walk", "done"} => WalkOK)

LEMMA ImpactStep ==
  ASSUME Impact, ImpactNext
  PROVE  Impact'
<1> USE DEF Impact
<1>1. CASE MapSymbols
  <2>1. /\ phase = "diff" /\ script' \in Scripts /\ direct' = MapChangedSymbols(script') /\ phase' = "mapped"
        /\ UNCHANGED <<source, graph, limits, todo, selected, queue, pending, edges>>
    BY <1>1 DEF MapSymbols
  <2>2. PICK s \in Scripts : s = script'  BY <2>1
  <2>3. MapChangedSymbols(s) = {[symbol |-> d, type |-> ChangeType(s, d)] :
            d \in {s[i].owner : i \in {k \in DOMAIN s : s[k].mark # "="}} \ {0}}
    BY SymbolsMapped
  <2>4. DirectIsExact'
    <3>1. TouchedSymbols' = {s[i].owner : i \in {k \in DOMAIN s : s[k].mark # "="}} \ {0}
      BY <2>2 DEF TouchedSymbols
    <3>2. direct' = MapChangedSymbols(s)  BY <2>1, <2>2
    <3>3. \A d : ChangeType(script', d) = ChangeType(s, d)  BY <2>2
    <3>4. direct' = {[symbol |-> d, type |-> ChangeType(s, d)] : d \in TouchedSymbols'}  BY <2>3, <3>1, <3>2
    <3> QED  BY <2>2, <3>4 DEF DirectIsExact
  <2>5. DirectOK'
    <3>1. \A d : ChangeType(s, d) \in {"added", "deleted", "modified"}  BY Zenon DEF ChangeType
    <3>2. HitSymbols(s, Before, ParseChangedLines(s).old) \cup HitSymbols(s, After, ParseChangedLines(s).new) \subseteq Decl
      BY DEF HitSymbols, Symbols
    <3>3. MapChangedSymbols(s) \subseteq [symbol : Decl, type : {"added", "deleted", "modified"}]  BY <3>1, <3>2 DEF MapChangedSymbols
    <3> QED  BY <2>1, <2>2, <3>3 DEF DirectOK
  <2>6. selected' = << >> /\ queue' = << >> /\ pending' = {} /\ edges' = << >>  BY <2>1
  <2> QED  BY <2>1, <2>4, <2>5, <2>6
<1>2. CASE DiffUnavailable
  <2>1. phase' = "failed" /\ direct' = direct  BY <1>2 DEF DiffUnavailable
  <2> QED  BY <2>1 DEF DirectOK, DirectIsExact
<1>3. CASE Materialize
  <2>1. /\ phase = "mapped" /\ phase' \in {"fetched", "failed"}
        /\ UNCHANGED <<direct, selected, queue, pending, edges>>
    BY <1>3 DEF Materialize
  <2> QED  BY <2>1 DEF DirectOK, DirectIsExact
<1>4. CASE AnalyzeDirectory
  <2>1. phase = "fetched" /\ phase' = "walk" /\ direct' = direct  BY <1>4 DEF AnalyzeDirectory
  <2>2. WalkOK'  BY <1>4, <2>1, AnalyzeStarts
  <2> QED  BY <2>1, <2>2 DEF DirectOK, DirectIsExact
<1>5. CASE NoGraphAtAll
  <2>1. phase' = "failed" /\ direct' = direct  BY <1>5 DEF NoGraphAtAll
  <2> QED  BY <2>1 DEF DirectOK, DirectIsExact
<1>6. ASSUME NEW d \in todo, SelectDirect(d) PROVE Impact'
  <2>1. phase = "walk"  BY <1>6 DEF SelectDirect
  <2>2. GraphOK /\ EntriesOK /\ QueueOK /\ SoundOK /\ ThoroughOK /\ DirectOK  BY <2>1 DEF WalkOK
  <2>3. Finds(d)  BY <1>6, <2>2, DirectFinds
  <2>4. phase' = "walk"  BY <2>1, <2>3 DEF Finds
  <2>5. GraphOK' /\ DirectOK' /\ EntriesOK' /\ QueueOK' /\ SoundOK'  BY <1>6, <2>1, <2>2, <2>3, FindTyped
  <2>6. ThoroughOK'
    <3>1. Complete' => FoundOK' /\ AllWalked' /\ Nearest'  BY <1>6, <2>1, <2>2, <2>3, FindThorough
    <3> QED  BY <3>1 DEF ThoroughOK
  <2> QED  BY <2>4, <2>5, <2>6 DEF DirectIsExact, WalkOK
<1>7. CASE Visit
  <2>1. phase = "walk" /\ phase' = "walk" /\ direct' = direct  BY <1>7 DEF Visit
  <2>2. WalkOK'  BY <1>7, <2>1, VisitKeeps
  <2> QED  BY <2>1, <2>2 DEF DirectOK, DirectIsExact
<1>8. ASSUME NEW e \in pending, Walk(e) PROVE Impact'
  <2>1. CASE phase = "walk"
    <3>1. GraphOK /\ EntriesOK /\ QueueOK /\ SoundOK /\ ThoroughOK /\ DirectOK  BY <2>1 DEF WalkOK
    <3>2. PICK at, n, d, r, sc : Moves(e, at, n, d, r, sc) /\ Grows(e, n, d, r, sc)
      BY <1>8, <3>1, WalkMoves
    <3>3. GraphOK' /\ DirectOK' /\ EntriesOK'  BY <3>1, <3>2, WalkTyped
    <3>4. QueueOK'  BY <2>1, <3>1, <3>2, WalkOrders
    <3>5. SoundOK'  BY <3>1, <3>2, WalkSound
    <3>6. Complete' => FoundOK' /\ AllWalked' /\ Nearest'  BY <3>1, <3>2, WalkThorough
    <3>7. phase' = "walk"  BY <2>1, <3>2 DEF Moves
    <3> QED  BY <3>3, <3>4, <3>5, <3>6, <3>7 DEF DirectIsExact, WalkOK, ThoroughOK
  <2>2. CASE phase = "done"
    <3>1. pending = {}  BY <2>2 DEF WalkOK, QueueOK
    <3> QED  BY <1>8, <3>1
  <2>3. CASE phase \in {"diff", "mapped", "fetched"}  BY <1>8, <2>3
  <2>4. CASE phase \notin {"diff", "mapped", "fetched", "walk", "done"}
    <3>1. phase' = phase /\ direct' = direct  BY <1>8 DEF Walk
    <3> QED  BY <2>4, <3>1 DEF DirectOK, DirectIsExact
  <2> QED  BY <2>1, <2>2, <2>3, <2>4
<1>9. CASE Selected
  <2>1. phase = "walk" /\ phase' = "done" /\ direct' = direct  BY <1>9 DEF Selected
  <2>2. WalkOK'  BY <1>9, <2>1, SelectedKeeps
  <2> QED  BY <2>1, <2>2 DEF DirectOK, DirectIsExact
<1>10. CASE SaveAnalysis
  <2>1. phase' \in {"saved", "failed"} /\ direct' = direct  BY <1>10 DEF SaveAnalysis
  <2> QED  BY <2>1 DEF DirectOK, DirectIsExact
<1> QED  BY <1>1, <1>2, <1>3, <1>4, <1>5, <1>6, <1>7, <1>8, <1>9, <1>10 DEF ImpactNext

LEMMA ImpactStutter ==
  ASSUME Impact, UNCHANGED impactVars
  PROVE  Impact'
<1>1. /\ phase' = phase /\ script' = script /\ direct' = direct
      /\ UNCHANGED <<source, graph, limits, todo, selected, queue, pending, edges>>
  BY DEF impactVars
<1>2. DirectOK' /\ DirectIsExact'
  <2>1. TouchedSymbols' = TouchedSymbols  BY <1>1 DEF TouchedSymbols
  <2> QED  BY <1>1, <2>1 DEF Impact, DirectOK, DirectIsExact
<1>3. ASSUME WalkOK, DirectOK PROVE WalkOK'
  <2>1. GraphOK /\ EntriesOK /\ QueueOK /\ SoundOK /\ ThoroughOK  BY <1>3 DEF WalkOK
  <2>2. GraphOK' /\ EntriesOK' /\ SoundOK' /\ \A m : Near(m)' <=> Near(m)  BY <1>1, <2>1, Unmoved
  <2>3. QueueOK'  BY <1>1, <2>1 DEF QueueOK, Changed, EdgesAt, Near
  <2>4. ASSUME Complete' PROVE FoundOK' /\ AllWalked' /\ Nearest'
    <3>1. FoundOK /\ AllWalked /\ Nearest  BY <1>1, <2>1, <2>4, Unmoved DEF ThoroughOK
    <3>2. FoundOK' /\ Nearest' /\ \A e, n : Recorded(e, n) => Recorded(e, n)'  BY <1>1, <3>1, Unmoved
    <3>3. \A m, e : Walked(m, e)' => Walked(m, e)  BY <1>1, <2>2 DEF Walked, Waiting, EdgesAt
    <3>4. AllWalked'  BY <1>1, <3>1, <3>2, <3>3 DEF AllWalked
    <3> QED  BY <3>2, <3>4
  <2> QED  BY <2>2, <2>3, <2>4 DEF WalkOK, ThoroughOK
<1> QED  BY <1>1, <1>2, <1>3 DEF Impact

LEMMA ImpactStart ==
  ASSUME ImpactInit
  PROVE  Impact
BY DEF ImpactInit, Impact, DirectOK, DirectIsExact

-----------------------------------------------------------------------------
(* The result. *)

LEMMA HighestIs ==
  ASSUME NEW S, S \subseteq Int, NEW h \in S, \A x \in S : x <= h
  PROVE  ImpactHighest(S) = h
<1>1. \A x \in S : (\A y \in S : y <= x) => x = h  OBVIOUS
<1> QED  BY <1>1 DEF ImpactHighest

\* The walk is over: everything that is near enough was walked from.
Over == GraphOK /\ DirectOK /\ EntriesOK /\ SoundOK /\ FoundOK /\ AllWalked /\ Nearest
        /\ todo = {} /\ pending = {} /\ queue = << >>

LEMMA OverFacts ==
  ASSUME Over
  PROVE  /\ limits.depth \in Nat /\ limits.depth \in 0..limits.depth /\ limits.depth - 1 \in 0..limits.depth
         /\ Within[limits.depth] = DOMAIN selected \ Unmatched
         /\ \A n \in Within[limits.depth] : Distance(Within, n) = selected[n].depth
         /\ \A m \in Nodes : m \in Within[limits.depth - 1] <=> Near(m)
         /\ \A m, e : Near(m) /\ e \in EdgesAt(m) => Recorded(e, Neighbor(e, m))
<1> USE DEF Over
<1>1. limits.depth \in Nat /\ limits.depth \in 0..limits.depth /\ limits.depth - 1 \in 0..limits.depth
  BY DEF GraphOK
<1>2. \A m : ~Waiting(m)  BY DEF Waiting
<1>3. \A n \in Within[limits.depth] : n \in DOMAIN selected /\ selected[n].depth <= limits.depth
  BY <1>1, <1>2, Covered
<1>4. Within[limits.depth] \subseteq Nodes /\ Unmatched \cap Nodes = {}  BY <1>1, WithinFacts, NodesApart
<1>5. Within[limits.depth] = DOMAIN selected \ Unmatched  BY <1>3, <1>4, SelectedWithin
<1>6. ASSUME NEW n \in Within[limits.depth]
      PROVE  /\ selected[n].depth \in 0..limits.depth /\ n \in Within[selected[n].depth]
             /\ \A k \in 0..limits.depth : n \in Within[k] => selected[n].depth <= k
  <2>1. n \in DOMAIN selected \ Unmatched  BY <1>5
  <2>2. selected[n].depth \in 0..limits.depth  BY <2>1 DEF EntriesOK, Entry
  <2>3. n \in Within[selected[n].depth]  BY <2>1 DEF SoundOK
  <2>4. \A k \in 0..(selected[n].depth - 1) : n \notin Within[k]  BY <2>1 DEF Nearest
  <2>5. \A k \in 0..limits.depth : n \in Within[k] => selected[n].depth <= k
    BY <1>1, <2>2, <2>4
  <2> QED  BY <2>2, <2>3, <2>5
<1>7. ASSUME NEW n \in Within[limits.depth] PROVE Distance(Within, n) = selected[n].depth
  <2>1. PICK S : S = {k \in DOMAIN Within : n \in Within[k]}  OBVIOUS
  <2>2. S = {k \in 0..limits.depth : n \in Within[k]}  BY <2>1, WithinFacts
  <2>3. S \subseteq Nat /\ selected[n].depth \in S /\ \A k \in S : selected[n].depth <= k  BY <1>6, <2>2
  <2>4. ImpactLowest(S) \in S /\ \A x \in S : ImpactLowest(S) <= x  BY <2>3, Lowest
  <2>5. ImpactLowest(S) = selected[n].depth
    <3>1. PICK a, b : a = ImpactLowest(S) /\ b = selected[n].depth  OBVIOUS
    <3>2. a \in Nat /\ b \in Nat /\ a <= b /\ b <= a  BY <2>3, <2>4, <3>1
    <3> QED  BY <3>1, <3>2
  <2> QED  BY <2>1, <2>5 DEF Distance
<1>8. ASSUME NEW m \in Nodes PROVE m \in Within[limits.depth - 1] <=> Near(m)
  <2>1. ASSUME m \in Within[limits.depth - 1] PROVE Near(m)
    <3>1. m \in Within[limits.depth]
      <4>1. limits.depth - 1 <= limits.depth  BY <1>1
      <4> QED  BY <1>1, <2>1, <4>1, WithinFacts
    <3>2. selected[m].depth <= limits.depth - 1 /\ selected[m].depth \in 0..limits.depth  BY <1>1, <1>6, <2>1, <3>1
    <3> QED  BY <1>1, <1>3, <3>1, <3>2 DEF Near
  <2>2. ASSUME Near(m) PROVE m \in Within[limits.depth - 1]
    <3>1. m \in DOMAIN selected /\ selected[m].depth < limits.depth  BY <2>2 DEF Near
    <3>2. m \in Within[limits.depth]  BY <1>4, <1>5, <3>1
    <3>3. selected[m].depth \in 0..limits.depth /\ m \in Within[selected[m].depth]  BY <1>6, <3>2
    <3>4. selected[m].depth <= limits.depth - 1  BY <1>1, <3>1, <3>3
    <3> QED  BY <1>1, <3>3, <3>4, WithinFacts
  <2> QED  BY <2>1, <2>2
<1>9. ASSUME NEW m, NEW e, Near(m), e \in EdgesAt(m) PROVE Recorded(e, Neighbor(e, m))
  <2>1. Walked(m, e)  BY <1>2, <1>9 DEF Walked
  <2>2. e \in graph.edges /\ m \in {e.from, e.to}  BY <1>9, EdgeLeads
  <2> QED  BY <2>1, <2>2 DEF AllWalked
<1> QED  BY <1>1, <1>5, <1>7, <1>8, <1>9

LEMMA ResultExact ==
  ASSUME Over
  PROVE  LET within == Within
             found == within[limits.depth]
             Sightings(n) == {e \in EdgesAt(n) : Neighbor(e, n) \in within[limits.depth - 1]}
             Score(e, n) == ImpactScore(ReasonForEdge(e, n), Distance(within, Neighbor(e, n)) + 1)
         IN  /\ found = DOMAIN selected \ Unmatched
             /\ \A d \in Unmatched : \E n \in Unmatched \cap DOMAIN selected : Namesakes(n, d) /\ selected[n] = DirectNode
             /\ DOMAIN edges = UNION {{<<e.from, e.to, ReasonForEdge(e, n)>> : e \in Sightings(n)} : n \in found}
             /\ \A n \in found :
                  LET seen == {[reason |-> ReasonForEdge(e, n), score |-> Score(e, n)] : e \in Sightings(n)}
                      all == seen \cup (IF n \in ChangedNodes THEN {[reason |-> "DIRECT_CHANGE", score |-> 100]} ELSE {})
                  IN  selected[n] = [depth |-> Distance(within, n), direct |-> n \in ChangedNodes,
                                     reasons |-> {x.reason : x \in all}, score |-> ImpactHighest({x.score : x \in all})]
<1> DEFINE within == Within
           found == within[limits.depth]
           Sightings(n) == {e \in EdgesAt(n) : Neighbor(e, n) \in within[limits.depth - 1]}
           Score(e, n) == ImpactScore(ReasonForEdge(e, n), Distance(within, Neighbor(e, n)) + 1)
           seen(n) == {[reason |-> ReasonForEdge(e, n), score |-> Score(e, n)] : e \in Sightings(n)}
           all(n) == seen(n) \cup (IF n \in ChangedNodes THEN {[reason |-> "DIRECT_CHANGE", score |-> 100]} ELSE {})
<1>0. GraphOK /\ DirectOK /\ EntriesOK /\ SoundOK /\ FoundOK /\ todo = {}  BY DEF Over
<1>1. found = DOMAIN selected \ Unmatched  BY OverFacts
<1>2. found \subseteq Nodes /\ Unmatched \cap Nodes = {} /\ found \subseteq DOMAIN selected
  BY <1>0, <1>1, NodesApart DEF EntriesOK
<1>3. \A d \in Unmatched : \E n \in Unmatched \cap DOMAIN selected : Namesakes(n, d) /\ selected[n] = DirectNode
  BY <1>0 DEF FoundOK, EntriesOK
\* What an edge shows of a node is what the walk recorded.
<1>4. ASSUME NEW n \in found, NEW e \in EdgesAt(n)
      PROVE  /\ e \in Sightings(n) <=> Seen(e, n)
             /\ e \in Sightings(n) => Recorded(e, n) /\ Score(e, n) = ScoreOf(e, n) /\ ScoreOf(e, n) \in 10..100
  <2>1. PICK m : m = Neighbor(e, n)  OBVIOUS
  <2>2. m \in Nodes /\ e \in EdgesAt(m) /\ Neighbor(e, m) = n /\ ReasonForEdge(e, n) \in Reasons
    BY <1>0, <2>1, EdgeLeads
  <2>3. m \in within[limits.depth - 1] <=> Near(m)  BY <2>2, OverFacts
  <2>4. e \in Sightings(n) <=> Near(m)  BY <2>1, <2>3
  <2>5. Seen(e, n) <=> Near(m)  BY <1>2, <2>1 DEF Seen
  <2>6. ASSUME Near(m) PROVE Recorded(e, n) /\ Score(e, n) = ScoreOf(e, n) /\ ScoreOf(e, n) \in 10..100
    <3>1. Recorded(e, n)  BY <2>2, <2>6, OverFacts
    <3>2. m \in found  BY <1>1, <1>2, <2>2, <2>6 DEF Near
    <3>3. Distance(within, m) = selected[m].depth  BY <3>2, OverFacts
    <3>4. selected[m].depth + 1 \in Nat \ {0}  BY <1>0, <2>6 DEF Near, EntriesOK, Entry
    <3>5. ScoreOf(e, n) \in 10..100  BY <2>1, <2>2, <3>4, ScoreTyped DEF ScoreOf
    <3> QED  BY <2>1, <3>1, <3>3, <3>5 DEF ScoreOf
  <2> QED  BY <2>4, <2>5, <2>6
<1> HIDE DEF within, found, Sightings, Score
<1>5. \A n, e : e \in Sightings(n) => e \in EdgesAt(n)  BY DEF Sightings
<1>6. \A e, n : Seen(e, n) => e \in EdgesAt(n) /\ n \in found
  <2>1. \A e, n : Seen(e, n) => e \in EdgesAt(n) /\ n \in Nodes /\ n \in DOMAIN selected  BY <1>0, EdgeLeads DEF Seen
  <2> QED  BY <1>1, <1>2, <2>1
<1>7. DOMAIN edges = UNION {{<<e.from, e.to, ReasonForEdge(e, n)>> : e \in Sightings(n)} : n \in found}
  <2>1. ASSUME NEW k \in DOMAIN edges
        PROVE  \E n \in found : \E e \in Sightings(n) : k = <<e.from, e.to, ReasonForEdge(e, n)>>
    <3>1. PICK n \in DOMAIN selected, e \in graph.edges : Seen(e, n) /\ k = Key(e, n)  BY <1>0 DEF SoundOK
    <3>2. n \in found /\ e \in Sightings(n)  BY <1>4, <1>6, <3>1
    <3> QED  BY <3>1, <3>2 DEF Key
  <2>2. ASSUME NEW n \in found, NEW e \in Sightings(n)
        PROVE  <<e.from, e.to, ReasonForEdge(e, n)>> \in DOMAIN edges
    BY <1>4, <1>5 DEF Recorded, Key
  <2> QED  BY <2>1, <2>2
<1>8. ASSUME NEW n \in found
      PROVE  selected[n] = [depth |-> Distance(within, n), direct |-> n \in ChangedNodes,
                            reasons |-> {x.reason : x \in all(n)}, score |-> ImpactHighest({x.score : x \in all(n)})]
  <2>1. PICK y \in Entry : y = selected[n]  BY <1>0, <1>2 DEF EntriesOK
  <2>2. n \in DOMAIN selected /\ n \notin Unmatched  BY <1>1
  <2>3. y.depth = Distance(within, n)  BY <2>1, OverFacts DEF within, found
  <2>4. y.direct <=> n \in ChangedNodes
    <3>1. y.direct => n \in ChangedNodes  BY <1>0, <2>1, <2>2 DEF EntriesOK
    <3>2. ASSUME n \in ChangedNodes PROVE y.direct
      <4>1. PICK d \in Changed : n \in Matched(d)  BY <3>2 DEF ChangedNodes
      <4> QED  BY <1>0, <2>1, <4>1 DEF FoundOK
    <3> QED  BY <3>1, <3>2
  <2>5. /\ y.direct => y.score = 100
        /\ y.direct <=> "DIRECT_CHANGE" \in y.reasons
        /\ y.score \in 10..100 /\ y.direct \in BOOLEAN
    BY <1>0, <2>1, <2>2 DEF EntriesOK, Entry
  <2>6. /\ \A r \in y.reasons \ {"DIRECT_CHANGE"} : \E e \in Sightings(n) : r = ReasonForEdge(e, n)
        /\ ~y.direct => \E e \in Sightings(n) : y.score = Score(e, n)
    <3>1. ASSUME NEW r \in y.reasons \ {"DIRECT_CHANGE"} PROVE \E e \in Sightings(n) : r = ReasonForEdge(e, n)
      <4>1. PICK e \in graph.edges : Seen(e, n) /\ r = ReasonForEdge(e, n)  BY <1>0, <2>1, <2>2 DEF SoundOK
      <4> QED  BY <1>4, <1>6, <4>1
    <3>2. ASSUME ~y.direct PROVE \E e \in Sightings(n) : y.score = Score(e, n)
      <4>1. PICK e \in graph.edges : Seen(e, n) /\ y.score = ScoreOf(e, n)  BY <1>0, <2>1, <2>2, <3>2 DEF SoundOK
      <4> QED  BY <1>4, <1>6, <4>1
    <3> QED  BY <3>1, <3>2
  <2>7. \A e \in Sightings(n) : ReasonForEdge(e, n) \in y.reasons /\ Score(e, n) <= y.score /\ Score(e, n) \in 10..100
    <3>1. ASSUME NEW e \in Sightings(n)
          PROVE  ReasonForEdge(e, n) \in y.reasons /\ Score(e, n) <= y.score /\ Score(e, n) \in 10..100
      <4>1. Recorded(e, n) /\ Score(e, n) = ScoreOf(e, n) /\ ScoreOf(e, n) \in 10..100  BY <1>4, <1>5
      <4>2. ReasonForEdge(e, n) \in y.reasons /\ y.score >= ScoreOf(e, n)  BY <2>1, <4>1 DEF Recorded
      <4> QED  BY <2>5, <4>1, <4>2
    <3> QED  BY <3>1
  <2>8. {x.reason : x \in all(n)} = y.reasons
    <3>1. \A x \in all(n) : x.reason \in y.reasons  BY <2>4, <2>5, <2>7
    <3>2. ASSUME NEW r \in y.reasons PROVE \E x \in all(n) : x.reason = r
      <4>1. CASE r = "DIRECT_CHANGE"
        <5>1. n \in ChangedNodes  BY <2>4, <2>5, <3>2, <4>1
        <5>2. [reason |-> "DIRECT_CHANGE", score |-> 100] \in all(n)  BY <5>1
        <5> QED  BY <4>1, <5>2
      <4>2. CASE r # "DIRECT_CHANGE"
        <5>1. PICK e \in Sightings(n) : r = ReasonForEdge(e, n)  BY <2>6, <3>2, <4>2
        <5>2. [reason |-> r, score |-> Score(e, n)] \in all(n)  BY <5>1
        <5> QED  BY <5>2
      <4> QED  BY <4>1, <4>2
    <3> QED  BY <3>1, <3>2
  <2>9. ImpactHighest({x.score : x \in all(n)}) = y.score
    <3>1. PICK S : S = {x.score : x \in all(n)}  OBVIOUS
    <3>2. \A x \in all(n) : x.score \in 10..100 /\ x.score <= y.score  BY <2>4, <2>5, <2>7
    <3>3. \E x \in all(n) : x.score = y.score
      <4>1. CASE y.direct
        <5>1. [reason |-> "DIRECT_CHANGE", score |-> 100] \in all(n)  BY <2>4, <4>1
        <5>2. y.score = 100  BY <2>5, <4>1
        <5> HIDE DEF all
        <5> QED  BY <5>1, <5>2
      <4>2. CASE ~y.direct
        <5>1. PICK e \in Sightings(n) : y.score = Score(e, n)  BY <2>6, <4>2
        <5>2. [reason |-> ReasonForEdge(e, n), score |-> Score(e, n)] \in all(n)  OBVIOUS
        <5> QED  BY <5>1, <5>2
      <4> QED  BY <4>1, <4>2
    <3> HIDE DEF all
    <3>4. S \subseteq Int /\ y.score \in S /\ \A x \in S : x <= y.score  BY <3>1, <3>2, <3>3
    <3>5. ImpactHighest(S) = y.score  BY <3>4, HighestIs
    <3> QED  BY <3>1, <3>5
  <2> HIDE DEF all
  <2>10. y = [depth |-> y.depth, score |-> y.score, reasons |-> y.reasons, direct |-> y.direct]  BY DEF Entry
  <2>11. y.direct = (n \in ChangedNodes)  BY <2>4, <2>5
  <2> QED  BY <2>1, <2>3, <2>8, <2>9, <2>10, <2>11
<1> QED  BY <1>1, <1>3, <1>7, <1>8 DEF within, found, Sightings, Score

LEMMA ResultExplained ==
  ASSUME GraphOK, DirectOK, EntriesOK, SoundOK
  PROVE  /\ ValidResult
         /\ Cardinality(DOMAIN selected) <= limits.nodes
         /\ \A n \in DOMAIN selected : ~selected[n].direct => \E k \in DOMAIN edges :
              n \in {k[1], k[2]} /\ \E m \in {k[1], k[2]} : selected[m].depth = selected[n].depth - 1
<1>1. ASSUME NEW e, NEW n, Seen(e, n)
      PROVE  /\ Key(e, n)[1] = e.from /\ Key(e, n)[2] = e.to /\ Key(e, n)[3] \in Reasons
             /\ {e.from, e.to} \subseteq DOMAIN selected
             /\ n \in {e.from, e.to} /\ Neighbor(e, n) \in {e.from, e.to}
  <2>1. e \in EdgesAt(n) /\ n \in DOMAIN selected /\ Neighbor(e, n) \in DOMAIN selected  BY <1>1 DEF Seen, Near
  <2>2. /\ n \in {e.from, e.to} /\ Neighbor(e, n) \in {e.from, e.to}
        /\ \A m \in {e.from, e.to} : m = n \/ m = Neighbor(e, n)
        /\ ReasonForEdge(e, n) \in Reasons
    BY <2>1, EdgeLeads
  <2> QED  BY <2>1, <2>2 DEF Key
<1>2. ValidResult
  <2>1. graph.mode \in {"SSA", "AST_FALLBACK"}  BY DEF GraphOK, Modes
  <2>2. ASSUME NEW n \in DOMAIN selected
        PROVE  selected[n].depth >= 0 /\ selected[n].score \in 0..100 /\ selected[n].reasons # {}
    <3>1. selected[n].depth \in 0..limits.depth /\ selected[n].score \in 10..100  BY DEF EntriesOK, Entry
    <3>2. selected[n].reasons # {}  BY DEF EntriesOK
    <3> QED  BY <3>1, <3>2 DEF GraphOK, Modes
  <2>3. ASSUME NEW k \in DOMAIN edges
        PROVE  /\ {k[1], k[2]} \subseteq DOMAIN selected /\ k[3] \in DOMAIN Base
               /\ edges[k].depth \in 1..limits.depth /\ edges[k].score \in 0..100
    <3>1. PICK n \in DOMAIN selected, e \in graph.edges : Seen(e, n) /\ k = Key(e, n)  BY DEF SoundOK
    <3>2. Reasons = DOMAIN Base  BY DEF Reasons, Base
    <3> QED  BY <1>1, <3>1, <3>2 DEF SoundOK
  <2> QED  BY <2>1, <2>2, <2>3 DEF ValidResult, Modes
<1>3. ASSUME NEW n \in DOMAIN selected, ~selected[n].direct
      PROVE  \E k \in DOMAIN edges : n \in {k[1], k[2]} /\ \E m \in {k[1], k[2]} : selected[m].depth = selected[n].depth - 1
  <2>1. PICK e \in graph.edges : Seen(e, n) /\ Key(e, n) \in DOMAIN edges
                                 /\ selected[Neighbor(e, n)].depth = selected[n].depth - 1
    BY <1>3 DEF SoundOK
  <2> QED  BY <1>1, <2>1
<1> QED  BY <1>2, <1>3 DEF EntriesOK

LEMMA CallersFound ==
  ASSUME Over, NEW c \in source.calls, c[2] \in ChangedNodes \cap Functions,
         KnownCall(c)
  PROVE  c[1] \in DOMAIN selected
<1>1. GraphOK /\ DirectOK /\ EntriesOK /\ FoundOK /\ todo = {}  BY DEF Over
<1>2. c[2] \in DOMAIN selected /\ selected[c[2]].direct
  <2>1. PICK d \in Changed : c[2] \in Matched(d)  BY DEF ChangedNodes
  <2> QED  BY <1>1, <2>1 DEF FoundOK
<1>3. CASE c[1] = c[2]  BY <1>2, <1>3
<1>4. CASE c[1] # c[2]
  <2>1. PICK a, b : a = c[1] /\ b = c[2]  OBVIOUS
  <2>2. b \in Functions /\ Declarations[b].kind # "interface" /\ Declarations[b].kind \notin KindsOfType
    <3>1. Declarations[b].kind \in {"function", "method", "test"}  BY <2>1 DEF Functions
    <3> QED  BY <2>1, <3>1 DEF KindsOfType
  <2>3. PICK e : e = [from |-> a, to |-> b, relation |-> "CALLS"]  OBVIOUS
  <2>4. e.from = a /\ e.to = b  BY <2>3
  <2>5. \A pairs : <<a, b>> \in pairs => e \in Edges(pairs, "CALLS")
    <3> SUFFICES ASSUME NEW pairs, <<a, b>> \in pairs PROVE e \in Edges(pairs, "CALLS")  OBVIOUS
    <3>1. PICK p : p = <<a, b>>  OBVIOUS
    <3>2. p \in pairs /\ p[1] = a /\ p[2] = b /\ p[1] # p[2]  BY <1>4, <2>1, <3>1
    <3> QED  BY <2>3, <3>2 DEF Edges
  <2>6. graph.mode = "SSA" => e \in TypedGraph(source)
    <3> SUFFICES ASSUME graph.mode = "SSA" PROVE e \in TypedGraph(source)  OBVIOUS
    <3>0. c \in {x \in source.calls : x[3] = "keyed"}  BY DEF KnownCall
    <3>1. b \in Callees(source, c)  BY <2>1, <2>2 DEF Callees
    <3>2. <<a, b>> \in {c[1]} \X Callees(source, c)  BY <2>1, <3>1
    <3>3. <<a, b>> \in UNION {{x[1]} \X Callees(source, x) : x \in {y \in source.calls : y[3] = "keyed"}}
      BY <3>0, <3>2
    <3> QED  BY <2>5, <3>3 DEF TypedGraph
  <2>7. graph.mode # "SSA" => e \in AstGraph(source)
    <3> SUFFICES ASSUME graph.mode # "SSA" PROVE e \in AstGraph(source)  OBVIOUS
    <3>1. b \in Nodes  BY <1>1, <2>1, NodesApart
    <3>3. Declarations[b].pkg = c[3]  BY <2>1 DEF KnownCall
    <3>4. Declarations[b].name = Called(c[2])  BY <2>1, <2>2 DEF Called
    <3>5. b \in NamedBy(source, c)  BY <3>1, <3>3, <3>4 DEF NamedBy, Nodes
    <3>6. <<a, b>> \in {c[1]} \X NamedBy(source, c)  BY <2>1, <3>5
    <3>7. <<a, b>> \in UNION {{x[1]} \X NamedBy(source, x) : x \in source.calls}  BY <3>6
    <3> QED  BY <2>5, <3>7 DEF AstGraph
  <2>8. e \in EdgesAt(b)  BY <1>1, <2>4, <2>6, <2>7 DEF GraphOK, GraphEdges, EdgesAt
  <2>9. Neighbor(e, b) = a  BY <1>4, <2>1, <2>4 DEF Neighbor
  <2>10. Near(b)
    <3>1. selected[b].depth = 0  BY <1>1, <1>2, <2>1 DEF EntriesOK
    <3> QED  BY <1>1, <1>2, <2>1, <3>1 DEF Near, GraphOK
  <2>11. Recorded(e, a)  BY <2>8, <2>9, <2>10, OverFacts
  <2> QED  BY <2>1, <2>11 DEF Recorded
<1> QED  BY <1>3, <1>4

\* The impact of a change is computed from exactly what the diff touches; without
\* a truncation it holds what lies within the depth, and with one it is explained.
LEMMA ImpactConcluded ==
  ASSUME Impact
  PROVE  ImpactIsExact
<1>1. DirectIsExact /\ DirectOK  BY DEF Impact
<1>2. ASSUME phase = "done"
      PROVE  /\ GraphOK /\ DirectOK /\ EntriesOK /\ SoundOK
             /\ Complete => Over
  BY <1>1, <1>2 DEF Impact, WalkOK, QueueOK, ThoroughOK, Over
<1>3. SelectionIsExact
  <2>1. ASSUME phase = "done", Untruncated(Within) PROVE Over
    BY <1>2, <2>1 DEF Complete
  <2> QED  BY <2>1, ResultExact DEF SelectionIsExact
<1>4. ResultIsExplained
  BY <1>2, ResultExplained DEF ResultIsExplained
<1>5. CallersAreSelected
  <2>1. ASSUME phase = "done", Cardinality(DOMAIN selected) < limits.nodes PROVE Over
    BY <1>2, <2>1 DEF Complete
  <2> QED  BY <2>1, CallersFound DEF CallersAreSelected
<1> QED  BY <1>1, <1>3, <1>4, <1>5 DEF ImpactIsExact

\* Whatever the repository, the diff, the limits and the order in which the walk
\* meets the edges, the impact is exact (diff parser, both graphs, selectImpact).
THEOREM ImpactExact == ImpactSpec => []ImpactIsExact
<1>1. ImpactInit => Impact  BY ImpactStart
<1>2. Impact /\ [ImpactNext]_impactVars => Impact'  BY ImpactStep, ImpactStutter
<1>3. Impact => ImpactIsExact  BY ImpactConcluded
<1> QED  BY <1>1, <1>2, <1>3, PTL DEF ImpactSpec
=============================================================================
