--------------------------- MODULE Process_proofs ---------------------------
(***************************************************************************)
(* What holds of the processes for every metric flag and any                *)
(* number of streams, and of the sidecar for every set of adapters:         *)
(*   - the parser of the metric flags refuses what is malformed, and only   *)
(*     that (MetricSpec), so that run reads its flags right;                *)
(*   - an exit with 0 was asked for and cut no stream (ExitInv);            *)
(*   - the sidecar touches only the adapters its file lists (SidecarInv).   *)
(***************************************************************************)
EXTENDS Process, LoraSidecar, FiniteSetTheorems, WellFoundedInduction, TLAPS

-----------------------------------------------------------------------------
(* The metric flags.  Positions in them are numbers, and a set of numbers   *)
(* has a first one: this is all the induction the parser needs.             *)

\* A non-empty set of positions has a first one, and Min is it.
LEMMA FirstPosition ==
    ASSUME NEW T, T \subseteq Nat, T # {}
    PROVE  Min(T) \in T /\ \A m \in T : Min(T) <= m
<1>1. PICK R : /\ IsWellFoundedOn(R, Nat)
               /\ R = {ss \in Nat \X Nat : ss[1] < ss[2]}
  BY NatLessThanWellFounded, Zenon DEF OpToRel
<1>2. PICK x \in T : \A y \in T : <<y, x>> \notin R
  BY <1>1, WFMin
<1>3. \A y \in T : ~(y < x)
  BY <1>1, <1>2
<1>4. \E n \in T : \A m \in T : n <= m
  BY <1>2, <1>3
<1>. QED BY <1>4 DEF Min

\* A non-empty set of positions of a string has a last one, and Max is it.
LEMMA LastPosition ==
    ASSUME NEW n \in Nat, NEW T, T \subseteq 0..n, T # {}
    PROVE  Max(T) \in T /\ \A m \in T : Max(T) >= m
<1> DEFINE U == {n - i : i \in T}
<1>1. U \subseteq Nat /\ U # {}
  OBVIOUS
<1>2. Min(U) \in U /\ \A m \in U : Min(U) <= m
  <2> HIDE DEF U
  <2>. QED BY <1>1, FirstPosition
<1>3. PICK u \in U : \A m \in U : u <= m
  BY <1>2
<1>4. PICK x \in T : u = n - x
  BY <1>3
<1>5. \A m \in T : x >= m
  BY <1>3, <1>4
<1>6. \E y \in T : \A m \in T : y >= m
  BY <1>4, <1>5
<1>. QED BY <1>6 DEF Max

\* The positions of a string, and which of them hold ink.
LEMMA StringFacts ==
    ASSUME NEW s \in Seq(Symbol)
    PROVE  /\ Len(s) \in Nat /\ DOMAIN s = 1..Len(s)
           /\ \A i \in 1..Len(s) : s[i] \in Symbol
           /\ Ink(s) = {i \in 1..Len(s) : s[i] # "blank"}
<1>1. /\ Len(s) \in Nat /\ DOMAIN s = 1..Len(s)
      /\ \A i \in 1..Len(s) : s[i] \in Symbol
  OBVIOUS
<1>. QED BY <1>1 DEF Ink, Positions

\* The positions of one symbol.
LEMMA PositionsOf ==
    ASSUME NEW s \in Seq(Symbol), NEW c \in Symbol
    PROVE  /\ Positions(s, {c}) = {i \in 1..Len(s) : s[i] = c}
           /\ Positions(s, {c}) \subseteq Nat \ {0}
           /\ c # "blank" => Positions(s, {c}) \subseteq Ink(s)
<1>1. Positions(s, {c}) = {i \in 1..Len(s) : s[i] = c}
  BY DEF Positions
<1>2. \A k \in Positions(s, {c}) : k \in Nat /\ k # 0 /\ k \in 1..Len(s) /\ s[k] = c
  BY <1>1
<1>. QED BY <1>1, <1>2, StringFacts

\* The positions of a slice.
LEMMA WithinFacts ==
    ASSUME NEW i \in Nat, NEW j \in Nat
    PROVE  /\ <<i, j>> \in Slice
           /\ \A k \in Nat : k \in Within(<<i, j>>) <=> i < k /\ k < j
           /\ Within(<<i, j>>) \subseteq Nat
<1>1. Within(<<i, j>>) = (i + 1)..(j - 1)
  BY DEF Within
<1>. QED BY <1>1 DEF Slice

\* What TrimSpace returns of the text between i and j: text between two
\* positions that leaves out no ink, begins and ends with ink, and is empty
\* only if there is none.
LEMMA TrimFacts ==
    ASSUME NEW s \in Seq(Symbol), NEW i \in Nat, NEW j \in Nat, i < j
    PROVE  \E a, b \in Nat :
              /\ TrimSpace(s)[<<i, j>>] = <<a, b>>
              /\ i <= a /\ a < b /\ b <= j
              /\ \A k \in Ink(s) : i < k /\ k < j => a < k /\ k < b
              /\ Within(<<a, b>>) = {} <=> Blank(s, i, j)
              /\ ~Blank(s, i, j) => a + 1 \in Ink(s) /\ b - 1 \in Ink(s)
<1> DEFINE ink == Ink(s) \cap Within(<<i, j>>)
<1>1. /\ <<i, j>> \in Slice
      /\ \A k \in Nat : k \in Within(<<i, j>>) <=> i < k /\ k < j
      /\ Within(<<i, j>>) \subseteq Nat
  BY WithinFacts
<1>2. TrimSpace(s)[<<i, j>>] = IF ink = {} THEN <<i, i + 1>> ELSE <<Min(ink) - 1, Max(ink) + 1>>
  BY <1>1 DEF TrimSpace
<1>3. Ink(s) \subseteq Nat
  BY StringFacts
<1> HIDE DEF ink
<1>4. \A k \in Nat : k \in ink <=> k \in Ink(s) /\ i < k /\ k < j
  BY <1>1, <1>3 DEF ink
<1>5. ink \subseteq 0..j /\ ink \subseteq Nat
  <2>1. \A k \in ink : k \in Nat
    BY <1>3 DEF ink
  <2>. QED BY <1>4, <2>1
<1>6. ink = {} <=> Blank(s, i, j)
  BY <1>3, <1>4, <1>5 DEF Blank
<1>7. CASE ink = {}
  <2>1. Within(<<i, i + 1>>) = {}
    BY DEF Within
  <2>2. TrimSpace(s)[<<i, j>>] = <<i, i + 1>>
    BY <1>2, <1>7
  <2>3. \A k \in Ink(s) : ~(i < k /\ k < j)
    BY <1>3, <1>4, <1>7
  <2>4. i + 1 \in Nat /\ i <= i /\ i < i + 1 /\ i + 1 <= j
    OBVIOUS
  <2>5. Blank(s, i, j)
    BY <1>6, <1>7
  <2>. QED BY <2>1, <2>2, <2>3, <2>4, <2>5
<1>8. CASE ink # {}
  <2>1. Min(ink) \in ink /\ \A m \in ink : Min(ink) <= m
    BY <1>5, <1>8, FirstPosition
  <2>2. Max(ink) \in ink /\ \A m \in ink : Max(ink) >= m
    BY <1>5, <1>8, LastPosition
  <2>3. PICK lo \in ink, hi \in ink : lo = Min(ink) /\ hi = Max(ink)
    BY <2>1, <2>2
  <2>4. lo \in Nat /\ hi \in Nat /\ \A m \in ink : lo <= m /\ m <= hi
    BY <1>5, <2>1, <2>2, <2>3
  <2>5. lo \in Ink(s) /\ hi \in Ink(s) /\ i < lo /\ lo <= hi /\ hi < j
    BY <1>4, <2>4
  <2>6. lo - 1 \in Nat /\ hi + 1 \in Nat /\ i <= lo - 1 /\ lo - 1 < hi + 1 /\ hi + 1 <= j
    BY <2>4, <2>5
  <2>7. TrimSpace(s)[<<i, j>>] = <<lo - 1, hi + 1>>
    BY <1>2, <1>8, <2>3
  <2>8. \A k \in Ink(s) : i < k /\ k < j => lo - 1 < k /\ k < hi + 1
    BY <1>3, <1>4, <2>4
  <2>9. Within(<<lo - 1, hi + 1>>) # {}
    BY <2>4, <2>5, <2>6, WithinFacts
  <2>10. (lo - 1) + 1 \in Ink(s) /\ (hi + 1) - 1 \in Ink(s)
    BY <2>4, <2>5
  <2>. QED BY <1>6, <1>8, <2>6, <2>7, <2>8, <2>9, <2>10
<1>. QED BY <1>7, <1>8

\* Text is trimmed to nothing exactly if it is blank.
LEMMA EmptyTrim ==
    ASSUME NEW s \in Seq(Symbol), NEW i \in Nat, NEW j \in Nat, i < j
    PROVE  Within(TrimSpace(s)[<<i, j>>]) = {} <=> Blank(s, i, j)
<1>1. PICK t : TrimSpace(s)[<<i, j>>] = t /\ (Within(t) = {} <=> Blank(s, i, j))
  BY TrimFacts, Zenon
<1>. QED BY <1>1, Zenon

IsIndex(s, c, i, j, pos) ==
    /\ pos \in Nat
    /\ pos = 0 => \A k \in Positions(s, {c}) : k <= i \/ k >= j
    /\ pos # 0 => /\ pos \in Positions(s, {c}) /\ i < pos /\ pos < j
                  /\ \A k \in Positions(s, {c}) : k <= i \/ k >= pos

\* What Index returns: the first position of the symbol, or 0.
LEMMA IndexFacts ==
    ASSUME NEW s \in Seq(Symbol), NEW i \in Nat, NEW j \in Nat, NEW c \in Symbol
    PROVE  IsIndex(s, c, i, j, Index(s, c)[<<i, j>>])
<1>. PICK pos : pos = Index(s, c)[<<i, j>>]
  OBVIOUS
<1> DEFINE found == Positions(s, {c}) \cap Within(<<i, j>>)
<1>1. /\ <<i, j>> \in Slice
      /\ \A k \in Nat : k \in Within(<<i, j>>) <=> i < k /\ k < j
      /\ Within(<<i, j>>) \subseteq Nat
  BY WithinFacts
<1>2. Index(s, c)[<<i, j>>] = IF found = {} THEN 0 ELSE Min(found)
  BY <1>1 DEF Index
<1>3. Positions(s, {c}) \subseteq Nat \ {0}
  BY PositionsOf
<1> HIDE DEF found
<1>4. found \subseteq Nat /\ \A k \in Nat : k \in found <=> k \in Positions(s, {c}) /\ i < k /\ k < j
  BY <1>1, <1>3 DEF found
<1>5. CASE found = {}
  <2>1. pos = 0
    BY <1>2, <1>5
  <2>2. pos \in Nat
    BY <2>1
  <2>3. ASSUME NEW k \in Positions(s, {c}) PROVE k <= i \/ k >= j
    <3>1. k \in Nat
      BY <1>3
    <3>2. ~(i < k /\ k < j)
      BY <1>4, <1>5, <3>1, Zenon
    <3>. QED BY <3>1, <3>2
  <2>. QED BY <2>1, <2>2, <2>3, Zenon DEF IsIndex
<1>6. CASE found # {}
  <2>1. PICK lo \in found : lo = Min(found) /\ \A m \in found : lo <= m
    BY <1>4, <1>6, FirstPosition
  <2>2. pos = lo
    BY <1>2, <1>6, <2>1
  <2>3. lo \in Positions(s, {c}) /\ i < lo /\ lo < j /\ lo \in Nat \ {0}
    BY <1>3, <1>4, <2>1
  <2>4. ASSUME NEW k \in Positions(s, {c}) PROVE k <= i \/ k >= lo
    <3>1. k \in Nat /\ (i < k /\ k < j => lo <= k)
      BY <1>3, <1>4, <2>1
    <3>. QED BY <2>3, <3>1
  <2>5. lo # 0 /\ lo \in Nat
    BY <2>3
  <2>. QED BY <2>2, <2>3, <2>4, <2>5, Zenon DEF IsIndex
<1>. QED BY <1>5, <1>6

CutsIn(s, c, i, j) == {i} \cup {k \in Positions(s, {c}) : i < k /\ k < j}
IsSplit(parts, cuts, j) ==
    /\ DOMAIN parts = cuts /\ cuts \subseteq Nat
    /\ \A k \in cuts : \E m \in cuts \cup {j} :
          /\ parts[k] = <<k, m>> /\ k < m
          /\ \A n \in cuts \cup {j} : n <= k \/ n >= m

\* What Split returns: one part behind each cut, up to the next cut or the end.
LEMMA SplitFacts ==
    ASSUME NEW s \in Seq(Symbol), NEW i \in Nat, NEW j \in Nat, i < j, NEW c \in Symbol
    PROVE  IsSplit(Split(s, c)[<<i, j>>], CutsIn(s, c, i, j), j)
<1>. PICK cuts : cuts = {i} \cup {k \in Positions(s, {c}) : i < k /\ k < j}
  OBVIOUS
<1>1. /\ <<i, j>> \in Slice
      /\ \A k \in Nat : k \in Within(<<i, j>>) <=> i < k /\ k < j
      /\ Within(<<i, j>>) \subseteq Nat
  BY WithinFacts
<1>2. Positions(s, {c}) \subseteq Nat
  BY PositionsOf
<1>3. cuts = {i} \cup (Positions(s, {c}) \cap Within(<<i, j>>))
  BY <1>1, <1>2
<1>4. Split(s, c)[<<i, j>>] = [k \in cuts |-> <<k, Min({m \in cuts \cup {j} : k < m})>>]
  BY <1>1, <1>3 DEF Split
<1>5. ASSUME NEW k \in cuts
      PROVE  \E m \in cuts \cup {j} :
                /\ Split(s, c)[<<i, j>>][k] = <<k, m>> /\ k < m
                /\ \A n \in cuts \cup {j} : n <= k \/ n >= m
  <2> DEFINE later == {m \in cuts \cup {j} : k < m}
  <2>1. j \in later /\ later \subseteq Nat
    BY <1>2
  <2>2. Split(s, c)[<<i, j>>][k] = <<k, Min(later)>>
    BY <1>4
  <2>3. k \in Nat /\ \A n \in cuts \cup {j} : n \in Nat
    BY <1>2
  <2>4. \A n : n \in later <=> n \in cuts \cup {j} /\ k < n
    OBVIOUS
  <2> HIDE DEF later
  <2>5. PICK m \in later : m = Min(later) /\ \A n \in later : m <= n
    BY <2>1, FirstPosition
  <2>6. m \in cuts \cup {j} /\ k < m /\ m \in Nat
    BY <2>1, <2>4, <2>5
  <2>7. ASSUME NEW n \in cuts \cup {j} PROVE n <= k \/ n >= m
    <3>1. n \in Nat /\ (k < n => m <= n)
      BY <2>3, <2>4, <2>5
    <3>. QED BY <2>3, <2>6, <3>1
  <2>. QED BY <2>2, <2>5, <2>6, <2>7
<1>6. cuts \subseteq Nat
  BY <1>2
<1>7. CutsIn(s, c, i, j) = cuts
  BY Zenon DEF CutsIn
<1>. QED BY <1>4, <1>5, <1>6, <1>7 DEF IsSplit

\* Two different things are a set of two.
LEMMA PairSize == ASSUME NEW a, NEW e, a # e PROVE Cardinality({a, e}) = 2
<1>1. IsFiniteSet({e}) /\ Cardinality({e}) = 1
  BY FS_Singleton
<1>2. Cardinality({e} \cup {a}) = 2
  BY <1>1, FS_AddElement
<1>3. {e} \cup {a} = {a, e}
  OBVIOUS
<1>. QED BY <1>2, <1>3

\* A set of two with a member left out is a set of one.
LEMMA SecondOfPair ==
    ASSUME NEW a, NEW E, IsFiniteSet(E), a \notin E, Cardinality({a} \cup E) = 2
    PROVE  \E e : E = {e}
<1>1. Cardinality(E \cup {a}) = Cardinality(E) + 1 /\ Cardinality(E) \in Nat
  BY FS_AddElement, FS_CardinalityType
<1>2. E \cup {a} = {a} \cup E
  OBVIOUS
<1>3. Cardinality(E) = 1
  BY <1>1, <1>2
<1>. QED BY <1>3, FS_Singleton

\* Some of the positions between two of them are finitely many.
LEMMA IntervalPart ==
    ASSUME NEW i \in Nat, NEW j \in Nat, NEW E, E \subseteq (i + 1)..(j - 1)
    PROVE  IsFiniteSet(E)
<1>1. i + 1 \in Int /\ j - 1 \in Int
  OBVIOUS
<1>2. IsFiniteSet((i + 1)..(j - 1))
  BY <1>1, FS_Interval
<1>. QED BY <1>2, FS_Subset

\* A pair of labels is accepted exactly if the text between the marks is one
\* label, one equals sign and one value.
LEMMA PairIsField ==
    ASSUME NEW s \in Seq(Symbol), NEW i \in Nat, NEW j \in Nat, i < j, j <= Len(s) + 1
    PROVE  IsPair(labelParts(s)[<<i, j>>]) <=> IsField(s, i, j)
<1>1. PICK a, b \in Nat :
        /\ TrimSpace(s)[<<i, j>>] = <<a, b>>
        /\ i <= a /\ a < b /\ b <= j
        /\ \A k \in Ink(s) : i < k /\ k < j => a < k /\ k < b
        /\ Within(<<a, b>>) = {} <=> Blank(s, i, j)
        /\ ~Blank(s, i, j) => a + 1 \in Ink(s) /\ b - 1 \in Ink(s)
  BY TrimFacts, Zenon
<1>1a. /\ i <= a /\ a < b /\ b <= j
       /\ \A k \in Ink(s) : i < k /\ k < j => a < k /\ k < b
  BY <1>1, Zenon
<1> DEFINE E == {k \in Positions(s, {"equals"}) : a < k /\ k < b}
           cuts == {a} \cup E
           parts == Split(s, "equals")[<<a, b>>]
<1>2. "equals" \in Symbol /\ "equals" # "blank"
  BY DEF Symbol
<1>3. /\ DOMAIN parts = cuts /\ cuts \subseteq Nat
      /\ \A k \in cuts : \E m \in cuts \cup {b} :
            /\ parts[k] = <<k, m>> /\ k < m
            /\ \A n \in cuts \cup {b} : n <= k \/ n >= m
  <2>1. IsSplit(parts, CutsIn(s, "equals", a, b), b)
    BY <1>1a, <1>2, SplitFacts
  <2>2. CutsIn(s, "equals", a, b) = cuts
    BY DEF CutsIn
  <2>. QED BY <2>1, <2>2, Zenon DEF IsSplit
<1>4. labelParts(s)[<<i, j>>] = [k \in cuts |-> TrimSpace(s)[parts[k]]]
  BY <1>1, <1>3, WithinFacts DEF labelParts
<1>5. E = {k \in (i + 1)..(j - 1) : s[k] = "equals"}
  <2>1. Positions(s, {"equals"}) = {k \in 1..Len(s) : s[k] = "equals"} /\ Len(s) \in Nat
    BY <1>2, PositionsOf, StringFacts
  <2>2. Positions(s, {"equals"}) \subseteq Ink(s)
    BY <1>2, PositionsOf
  <2>3. ASSUME NEW k \in E PROVE k \in (i + 1)..(j - 1) /\ s[k] = "equals"
    BY <1>1, <2>1
  <2>4. ASSUME NEW k \in (i + 1)..(j - 1), s[k] = "equals" PROVE k \in E
    <3>1. k \in Positions(s, {"equals"}) /\ i < k /\ k < j
      BY <2>1, <2>4
    <3>. QED BY <1>1, <2>2, <3>1
  <2>. QED BY <2>3, <2>4
<1>6. \A k \in Ink(s) : k \in Nat
  BY StringFacts
<1> HIDE DEF parts, E
<1>7. ASSUME NEW e, E = {e} PROVE IsPair(labelParts(s)[<<i, j>>]) <=> IsField(s, i, j)
  <2>1. e \in Nat /\ a < e /\ e < b /\ e \in (i + 1)..(j - 1)
    BY <1>1, <1>3, <1>5, <1>7 DEF E
  <2>2. Cardinality(cuts) = 2
    <3>1. cuts = {a, e} /\ a # e
      BY <1>7, <2>1
    <3>2. Cardinality({a, e}) = 2
      BY <3>1, PairSize
    <3>. QED BY <3>1, <3>2
  <2>3. parts[a] = <<a, e>> /\ parts[e] = <<e, b>>
    <3>1. cuts \cup {b} = {a, e, b}
      BY <1>7
    <3>2. PICK m \in {a, e, b} : parts[a] = <<a, m>> /\ a < m /\ \A n \in {a, e, b} : n <= a \/ n >= m
      BY <1>3, <3>1
    <3>3. PICK n \in {a, e, b} : parts[e] = <<e, n>> /\ e < n
      BY <1>3, <1>7, <3>1
    <3>. QED BY <2>1, <3>2, <3>3
  <2>4. Within(TrimSpace(s)[<<a, e>>]) = {} <=> Blank(s, a, e)
    BY <2>1, EmptyTrim
  <2>5. Within(TrimSpace(s)[<<e, b>>]) = {} <=> Blank(s, e, b)
    BY <2>1, EmptyTrim
  <2>6. Blank(s, a, e) <=> Blank(s, i, e)
    BY <1>1a, <1>6, <2>1 DEF Blank
  <2>7. Blank(s, e, b) <=> Blank(s, e, j)
    BY <1>1a, <1>6, <2>1 DEF Blank
  <2>8. IsPair(labelParts(s)[<<i, j>>]) <=> ~Blank(s, i, e) /\ ~Blank(s, e, j)
    <3> DEFINE L == [k \in cuts |-> TrimSpace(s)[parts[k]]]
    <3>1. DOMAIN L = {a, e} /\ L[a] = TrimSpace(s)[<<a, e>>] /\ L[e] = TrimSpace(s)[<<e, b>>]
      BY <1>7, <2>3
    <3>2. Cardinality(DOMAIN L) = 2
      BY <2>2
    <3> HIDE DEF L
    <3>3. IsPair(L) <=> Within(L[a]) # {} /\ Within(L[e]) # {}
      BY <3>1, <3>2, Zenon DEF IsPair
    <3>. QED BY <1>4, <2>4, <2>5, <2>6, <2>7, <3>1, <3>3, Zenon DEF L
  <2>9. IsField(s, i, j) <=> ~Blank(s, i, e) /\ ~Blank(s, e, j)
    <3>1. \A k \in (i + 1)..(j - 1) : s[k] = "equals" <=> k = e
      BY <1>5, <1>7
    <3>. QED BY <2>1, <3>1, Zenon DEF IsField
  <2>. QED BY <2>8, <2>9
<1>8. ASSUME \A e : E # {e} PROVE ~IsPair(labelParts(s)[<<i, j>>]) /\ ~IsField(s, i, j)
  <2>1. ASSUME IsPair(labelParts(s)[<<i, j>>]) PROVE FALSE
    <3>1. Cardinality({a} \cup E) = 2
      BY <1>4, <2>1 DEF IsPair
    <3>2. IsFiniteSet(E)
      BY <1>5, IntervalPart
    <3>3. a \notin E
      BY <1>1 DEF E
    <3>4. PICK e : E = {e}
      BY <3>1, <3>2, <3>3, SecondOfPair
    <3>. QED BY <1>8, <3>4
  <2>2. ASSUME NEW e \in (i + 1)..(j - 1), \A k \in (i + 1)..(j - 1) : s[k] = "equals" <=> k = e
        PROVE  FALSE
    <3>1. E = {e}
      BY <1>5, <2>2
    <3>. QED BY <1>8, <3>1
  <2>. QED BY <2>1, <2>2, Zenon DEF IsField
<1>. QED BY <1>7, <1>8

Fields(s, open, close) ==
    LET marks == {open, close} \cup {k \in open..close : s[k] = "comma"}
    IN  \A i, j \in marks :
          (i < j /\ \A k \in marks : k <= i \/ k >= j) => IsField(s, i, j)

\* The pairs of a label section are all accepted exactly if there is a label
\* and a value between any mark and the next.
LEMMA FieldsArePairs ==
    ASSUME NEW s \in Seq(Symbol), NEW open \in Nat, NEW close \in Nat,
           open < close, 0 < open, close <= Len(s), s[open] = "open", s[close] = "close",
           NEW parts, parts = Split(s, "comma")[<<open, close>>]
    PROVE  (\A k \in DOMAIN parts : IsPair(labelParts(s)[parts[k]])) <=> Fields(s, open, close)
<1> DEFINE cuts == CutsIn(s, "comma", open, close)
           marks == {open, close} \cup {k \in open..close : s[k] = "comma"}
<1>1. "comma" \in Symbol /\ "comma" # "open" /\ "comma" # "close"
  BY DEF Symbol
<1>2. IsSplit(parts, cuts, close)
  BY <1>1, SplitFacts
<1>3. /\ DOMAIN parts = cuts /\ cuts \subseteq Nat
      /\ \A k \in cuts : \E m \in cuts \cup {close} :
            /\ parts[k] = <<k, m>> /\ k < m
            /\ \A n \in cuts \cup {close} : n <= k \/ n >= m
  BY <1>2, Zenon DEF IsSplit
<1>4. Positions(s, {"comma"}) = {k \in 1..Len(s) : s[k] = "comma"} /\ Len(s) \in Nat
  BY <1>1, PositionsOf, StringFacts
<1>5. \A k \in cuts \cup {close} : k \in Nat /\ k <= close /\ k <= Len(s) + 1
  BY <1>3, <1>4 DEF CutsIn
<1>6. cuts \cup {close} = marks
  <2>1. ASSUME NEW k \in cuts PROVE k \in marks
    BY <1>4 DEF CutsIn
  <2>2. ASSUME NEW k \in marks PROVE k \in cuts \cup {close}
    BY <1>1, <1>4 DEF CutsIn
  <2>. QED BY <2>1, <2>2
<1> HIDE DEF cuts, marks
<1>7. ASSUME NEW k \in cuts, NEW m \in marks, k < m
      PROVE  IsPair(labelParts(s)[<<k, m>>]) <=> IsField(s, k, m)
  <2>1. k \in Nat /\ m \in Nat /\ m <= Len(s) + 1
    BY <1>5, <1>6
  <2>. QED BY <1>7, <2>1, PairIsField
<1>8. ASSUME \A k \in cuts : IsPair(labelParts(s)[parts[k]]),
             NEW i \in marks, NEW j \in marks, i < j, \A k \in marks : k <= i \/ k >= j
      PROVE  IsField(s, i, j)
  <2>1. i \in cuts
    BY <1>5, <1>6, <1>8
  <2>2. PICK m \in marks : parts[i] = <<i, m>> /\ i < m /\ \A n \in marks : n <= i \/ n >= m
    BY <1>3, <1>6, <2>1, Zenon
  <2>3. m = j
    <3>1. i \in Nat /\ j \in Nat /\ m \in Nat
      BY <1>5, <1>6
    <3>2. (m <= i \/ m >= j) /\ (j <= i \/ j >= m)
      BY <1>8, <2>2, Zenon
    <3>. QED BY <1>8, <2>2, <3>1, <3>2
  <2>. QED BY <1>7, <1>8, <2>1, <2>2, <2>3, Zenon
<1>9. ASSUME Fields(s, open, close), NEW k \in cuts PROVE IsPair(labelParts(s)[parts[k]])
  <2>1. PICK m \in marks : parts[k] = <<k, m>> /\ k < m /\ \A n \in marks : n <= k \/ n >= m
    BY <1>3, <1>6, Zenon
  <2>2. k \in marks
    BY <1>6
  <2>3. IsField(s, k, m)
    BY <1>9, <2>1, <2>2, Zenon DEF Fields, marks
  <2>. QED BY <1>7, <2>1, <2>3, Zenon
<1>10. (\A k \in cuts : IsPair(labelParts(s)[parts[k]])) => Fields(s, open, close)
  BY <1>8, Zenon DEF Fields, marks
<1>. QED BY <1>3, <1>9, <1>10, Zenon

\* What the parser knows of the trimmed flag and of its two braces.
Ends(s, a, b) ==
    /\ TrimSpace(s)[Whole(s)] = <<a, b>> /\ a < b /\ b <= Len(s) + 1
    /\ \A k \in Ink(s) : k \in Nat /\ 0 < k /\ a < k /\ k < b
    /\ Within(<<a, b>>) = {} <=> Ink(s) = {}
    /\ Ink(s) # {} => a + 1 \in Ink(s) /\ b - 1 \in Ink(s)
FirstOf(s, c, pos) ==
    /\ pos = 0 => Positions(s, {c}) = {}
    /\ pos # 0 => pos \in Positions(s, {c}) /\ \A k \in Positions(s, {c}) : k >= pos

\* Trimmed, a flag still has all its ink.
LEMMA EndsOf == ASSUME NEW s \in Seq(Symbol) PROVE \E a, b \in Nat : Ends(s, a, b)
<1>1. Len(s) \in Nat /\ 0 \in Nat /\ Len(s) + 1 \in Nat /\ 0 < Len(s) + 1
  BY StringFacts
<1>2. PICK a, b \in Nat :
        /\ TrimSpace(s)[<<0, Len(s) + 1>>] = <<a, b>>
        /\ 0 <= a /\ a < b /\ b <= Len(s) + 1
        /\ \A k \in Ink(s) : 0 < k /\ k < Len(s) + 1 => a < k /\ k < b
        /\ Within(<<a, b>>) = {} <=> Blank(s, 0, Len(s) + 1)
        /\ ~Blank(s, 0, Len(s) + 1) => a + 1 \in Ink(s) /\ b - 1 \in Ink(s)
  BY <1>1, TrimFacts, Zenon
<1>3. \A k \in Ink(s) : k \in Nat /\ 0 < k /\ k < Len(s) + 1
  BY <1>1, StringFacts
<1>4. Blank(s, 0, Len(s) + 1) <=> Ink(s) = {}
  BY <1>1, <1>3 DEF Blank
<1>5. \A k \in Ink(s) : a < k /\ k < b
  BY <1>2, <1>3, Zenon
<1>. QED BY <1>2, <1>3, <1>4, <1>5, Zenon DEF Ends, Whole

\* A brace is looked for in the trimmed flag and found where it is first in the flag.
LEMMA FirstOfBrace ==
    ASSUME NEW s \in Seq(Symbol), NEW a \in Nat, NEW b \in Nat, Ends(s, a, b),
           NEW c \in {"open", "close"}, NEW pos, pos = Index(s, c)[<<a, b>>]
    PROVE  pos \in Nat /\ FirstOf(s, c, pos)
<1>1. c \in Symbol /\ c # "blank"
  BY DEF Symbol
<1>2. \A k \in Positions(s, {c}) : k \in Nat /\ a < k /\ k < b
  BY <1>1, PositionsOf DEF Ends
<1>3. /\ pos \in Nat
      /\ pos = 0 => \A k \in Positions(s, {c}) : k <= a \/ k >= b
      /\ pos # 0 => /\ pos \in Positions(s, {c}) /\ a < pos /\ pos < b
                    /\ \A k \in Positions(s, {c}) : k <= a \/ k >= pos
  <2>1. IsIndex(s, c, a, b, Index(s, c)[<<a, b>>])
    BY <1>1, IndexFacts
  <2>. QED BY <2>1, Zenon DEF IsIndex
<1>4. ASSUME pos = 0, NEW k \in Positions(s, {c}) PROVE FALSE
  <2>1. k <= a \/ k >= b
    BY <1>3, <1>4, Zenon
  <2>2. k \in Nat /\ a < k /\ k < b
    BY <1>2, Zenon
  <2>. QED BY <2>1, <2>2
<1>5. ASSUME pos # 0, NEW k \in Positions(s, {c}) PROVE k >= pos
  <2>1. k <= a \/ k >= pos
    BY <1>3, <1>5, Zenon
  <2>2. k \in Nat /\ a < k
    BY <1>2, Zenon
  <2>. QED BY <2>1, <2>2
<1>. QED BY <1>3, <1>4, <1>5, Zenon DEF FirstOf

Labelled(s, open, close) ==
    /\ s[open] = "open" /\ s[close] = "close" /\ open < close
    /\ Positions(s, {"close"}) = {close}
    /\ \A k \in Positions(s, {"open"}) : open <= k
    /\ ~Blank(s, 0, open) /\ Blank(s, close, Len(s) + 1)
    /\ Fields(s, open, close)

\* The documented forms of a flag: a name, or a name with labels.
LEMMA WellFormedForms ==
    ASSUME NEW s
    PROVE  WellFormed(s) <=> \/ Positions(s, Braces) = {} /\ Ink(s) # {}
                             \/ \E open, close \in DOMAIN s : Labelled(s, open, close)
BY Zenon DEF WellFormed, Labelled, Fields

Refused(s, a, b, start, end) ==
    \/ (start # 0 \/ end # 0) /\ (start = 0 \/ end <= start + 1)
    \/ /\ start # 0 \/ end # 0
       /\ \E k \in DOMAIN Split(s, "comma")[<<start, end>>] :
             ~IsPair(labelParts(s)[Split(s, "comma")[<<start, end>>][k]])
    \/ (start # 0 \/ end # 0) /\ end # b - 1
    \/ Within(IF start = 0 THEN <<a, b>> ELSE TrimSpace(s)[<<a, start>>]) = {}

\* stringToMetricSpec returns an error exactly if one of its checks fails.
LEMMA RefusedFlag ==
    ASSUME NEW s \in Seq(Symbol), s # <<>>, NEW a \in Nat, NEW b \in Nat,
           TrimSpace(s)[Whole(s)] = <<a, b>>,
           NEW start \in Nat, start = Index(s, "open")[<<a, b>>],
           NEW end \in Nat, end = Index(s, "close")[<<a, b>>]
    PROVE  stringToMetricSpec(s).status = "invalid" <=> Refused(s, a, b, start, end)
<1> DEFINE split == Split(s, "comma")[<<start, end>>]
           labelPairs == [k \in DOMAIN split |-> labelParts(s)[split[k]]]
           braced == start # 0 \/ end # 0
           metricName == IF start = 0 THEN <<a, b>> ELSE TrimSpace(s)[<<a, start>>]
           refused == \/ braced /\ (start = 0 \/ end <= start + 1)
                      \/ braced /\ \E k \in DOMAIN labelPairs : ~IsPair(labelPairs[k])
                      \/ braced /\ Trailing(<<a, b>>, end)
                      \/ Within(metricName) = {}
<1>1. <<a, b>>[1] = a /\ <<a, b>>[2] = b
  OBVIOUS
<1>2. \E name, labels : stringToMetricSpec(s) =
        IF refused THEN Invalid ELSE [status |-> "ok", name |-> name, labels |-> labels]
  BY <1>1, Zenon DEF stringToMetricSpec
<1>3. refused <=> Refused(s, a, b, start, end)
  <2>1. (\E k \in DOMAIN labelPairs : ~IsPair(labelPairs[k]))
          <=> \E k \in DOMAIN split : ~IsPair(labelParts(s)[split[k]])
    <3> HIDE DEF split
    <3>. QED OBVIOUS
  <2>2. Trailing(<<a, b>>, end) <=> end # b - 1
    BY DEF Trailing
  <2>. QED BY <2>1, <2>2, Zenon DEF Refused
<1> HIDE DEF refused
<1>4. stringToMetricSpec(s).status = "invalid" <=> refused
  <2>1. PICK name, labels : stringToMetricSpec(s) =
          IF refused THEN Invalid ELSE [status |-> "ok", name |-> name, labels |-> labels]
    BY <1>2
  <2>. QED BY <2>1 DEF Invalid
<1>. QED BY <1>3, <1>4

\* stringToMetricSpec refuses a flag exactly if it has not the documented form.
LEMMA RefusedIsMalformed ==
    ASSUME NEW s \in Seq(Symbol), s # <<>>
    PROVE  stringToMetricSpec(s).status = "invalid" <=> ~WellFormed(s)
<1>1. PICK a, b \in Nat : Ends(s, a, b)
  BY EndsOf
<1>2. PICK start \in Nat : start = Index(s, "open")[<<a, b>>] /\ FirstOf(s, "open", start)
  BY <1>1, FirstOfBrace
<1>3. PICK end \in Nat : end = Index(s, "close")[<<a, b>>] /\ FirstOf(s, "close", end)
  BY <1>1, FirstOfBrace
<1>4. stringToMetricSpec(s).status = "invalid" <=> Refused(s, a, b, start, end)
  <2>1. TrimSpace(s)[Whole(s)] = <<a, b>>
    BY <1>1, Zenon DEF Ends
  <2>. QED BY <1>2, <1>3, <2>1, RefusedFlag
<1>5. /\ Len(s) \in Nat /\ DOMAIN s = 1..Len(s)
      /\ Positions(s, {"open"}) = {k \in 1..Len(s) : s[k] = "open"}
      /\ Positions(s, {"close"}) = {k \in 1..Len(s) : s[k] = "close"}
      /\ Positions(s, Braces) = Positions(s, {"open"}) \cup Positions(s, {"close"})
      /\ Positions(s, {"close"}) \subseteq Ink(s)
  <2>1. "open" \in Symbol /\ "close" \in Symbol /\ "close" # "blank"
    BY DEF Symbol
  <2>2. Len(s) \in Nat /\ DOMAIN s = 1..Len(s)
    BY StringFacts
  <2>3. Positions(s, Braces) = Positions(s, {"open"}) \cup Positions(s, {"close"})
    BY Zenon DEF Positions, Braces
  <2>. QED BY <2>1, <2>2, <2>3, PositionsOf
<1>6. ASSUME NEW open \in DOMAIN s, NEW close \in DOMAIN s, Labelled(s, open, close)
      PROVE  start = open /\ end = close /\ start + 1 < end
  <2>1. /\ open \in Positions(s, {"open"}) /\ Positions(s, {"close"}) = {close}
        /\ \A k \in Positions(s, {"open"}) : open <= k
    BY <1>5, <1>6 DEF Labelled
  <2>2. start # 0 /\ start \in Positions(s, {"open"}) /\ \A k \in Positions(s, {"open"}) : k >= start
    BY <1>2, <2>1, Zenon DEF FirstOf
  <2>3. end # 0 /\ end \in Positions(s, {"close"})
    BY <1>3, <2>1, Zenon DEF FirstOf
  <2>4. end = close
    BY <2>1, <2>3, Zenon
  <2>5. start >= open /\ open >= start
    BY <1>5, <2>1, <2>2
  <2>6. open \in Nat /\ close \in Nat /\ open < close /\ Fields(s, open, close)
    BY <1>5, <1>6 DEF Labelled
  <2>7. open + 1 # close
    <3>1. SUFFICES ASSUME open + 1 = close PROVE FALSE
      OBVIOUS
    <3>2. IsField(s, open, close)
      <4>1. \A k \in {open, close} \cup {n \in open..close : s[n] = "comma"} : k <= open \/ k >= close
        BY <2>6, <3>1
      <4>. QED BY <2>6, <4>1 DEF Fields
    <3>3. (open + 1)..(close - 1) = {}
      BY <2>6, <3>1
    <3>. QED BY <3>2, <3>3, Zenon DEF IsField
  <2>. QED BY <2>4, <2>5, <2>6, <2>7
<1>7. CASE start = 0 /\ end = 0
  <2>1. Positions(s, {"open"}) = {} /\ Positions(s, {"close"}) = {}
    BY <1>2, <1>3, <1>7, Zenon DEF FirstOf
  <2>2. Refused(s, a, b, start, end) <=> Ink(s) = {}
    <3>1. Within(<<a, b>>) = {} <=> Ink(s) = {}
      BY <1>1, Zenon DEF Ends
    <3>. QED BY <1>7, <3>1, Zenon DEF Refused
  <2>3. WellFormed(s) <=> Ink(s) # {}
    <3>1. Positions(s, Braces) = {}
      BY <1>5, <2>1
    <3>2. ~\E open, close \in DOMAIN s : Labelled(s, open, close)
      BY <1>6, <1>7
    <3>. QED BY <3>1, <3>2, WellFormedForms
  <2>. QED BY <1>4, <2>2, <2>3
<1>8. CASE (start # 0 \/ end # 0) /\ (start = 0 \/ end <= start + 1)
  <2>1. Refused(s, a, b, start, end)
    BY <1>8, Zenon DEF Refused
  <2>2. Positions(s, Braces) # {}
    BY <1>2, <1>3, <1>5, <1>8, Zenon DEF FirstOf
  <2>3. ~\E open, close \in DOMAIN s : Labelled(s, open, close)
    BY <1>6, <1>8, <1>5
  <2>. QED BY <1>4, <2>1, <2>2, <2>3, WellFormedForms
<1>9. CASE start # 0 /\ ~(end <= start + 1)
  <2>1. /\ start \in Positions(s, {"open"}) /\ \A k \in Positions(s, {"open"}) : k >= start
        /\ end \in Positions(s, {"close"}) /\ \A k \in Positions(s, {"close"}) : k >= end
    <3>1. end # 0
      BY <1>9
    <3>. QED BY <1>2, <1>3, <1>9, <3>1, Zenon DEF FirstOf
  <2>2. /\ start \in 1..Len(s) /\ end \in 1..Len(s) /\ s[start] = "open" /\ s[end] = "close"
        /\ start < end /\ 0 < start /\ end # 0
    BY <1>5, <1>9, <2>1
  <2>3. /\ a < b /\ b <= Len(s) + 1 /\ b - 1 \in Ink(s)
        /\ \A k \in Ink(s) : k \in Nat /\ 0 < k /\ a < k /\ k < b
    <3>1. Ink(s) # {}
      BY <1>5, <2>1
    <3>. QED BY <1>1, <3>1, Zenon DEF Ends
  <2> DEFINE split == Split(s, "comma")[<<start, end>>]
  <2>4. (\E k \in DOMAIN split : ~IsPair(labelParts(s)[split[k]])) <=> ~Fields(s, start, end)
    <3>1. PICK parts : parts = split
      OBVIOUS
    <3>2. (\A k \in DOMAIN parts : IsPair(labelParts(s)[parts[k]])) <=> Fields(s, start, end)
      <4>1. start < end /\ 0 < start /\ end <= Len(s) /\ s[start] = "open" /\ s[end] = "close"
        BY <1>5, <2>2
      <4>. QED BY <3>1, <4>1, FieldsArePairs, Zenon
    <3>. QED BY <3>1, <3>2, Zenon
  <2>5. Within(TrimSpace(s)[<<a, start>>]) = {} <=> Blank(s, 0, start)
    <3>1. a < start
      <4>1. start \in Ink(s)
        BY <2>1, PositionsOf DEF Symbol
      <4>. QED BY <2>3, <4>1
    <3>2. Blank(s, a, start) <=> Blank(s, 0, start)
      BY <2>3, <3>1 DEF Blank
    <3>. QED BY <3>1, <3>2, EmptyTrim
  <2>6. end = b - 1 <=> Positions(s, {"close"}) = {end} /\ Blank(s, end, Len(s) + 1)
    <3>1. end \in Ink(s) /\ end < b
      BY <1>5, <2>1, <2>3
    <3>2. ASSUME end = b - 1 PROVE Positions(s, {"close"}) = {end} /\ Blank(s, end, Len(s) + 1)
      <4>1. \A k \in Ink(s) : k <= end
        BY <2>3, <3>2
      <4>2. \A k \in Positions(s, {"close"}) : k \in Nat /\ k >= end /\ k <= end
        BY <1>5, <2>1, <4>1
      <4>3. Positions(s, {"close"}) = {end}
        <5>1. \A k \in Positions(s, {"close"}) : k = end
          BY <4>2
        <5>. QED BY <2>1, <5>1, Zenon
      <4>4. Blank(s, end, Len(s) + 1)
        BY <4>1, Zenon DEF Blank
      <4>. QED BY <4>3, <4>4
    <3>3. ASSUME Blank(s, end, Len(s) + 1) PROVE end = b - 1
      <4>1. b - 1 <= end \/ b - 1 >= Len(s) + 1
        BY <2>3, <3>3, Zenon DEF Blank
      <4>. QED BY <1>5, <2>3, <3>1, <4>1
    <3>. QED BY <3>2, <3>3
  <2>7. Refused(s, a, b, start, end)
          <=> ~Fields(s, start, end) \/ end # b - 1 \/ Blank(s, 0, start)
    BY <1>9, <2>2, <2>4, <2>5, Zenon DEF Refused
  <2>8. Labelled(s, start, end) <=> Fields(s, start, end) /\ end = b - 1 /\ ~Blank(s, 0, start)
    <3>1. \A k \in Positions(s, {"open"}) : start <= k
      BY <1>5, <2>1
    <3>. QED BY <2>2, <2>6, <3>1, Zenon DEF Labelled
  <2>9. WellFormed(s) <=> Labelled(s, start, end)
    <3>1. Positions(s, Braces) # {}
      BY <1>5, <2>1
    <3>2. start \in DOMAIN s /\ end \in DOMAIN s
      BY <1>5, <2>2
    <3>3. (\E open, close \in DOMAIN s : Labelled(s, open, close)) <=> Labelled(s, start, end)
      BY <1>6, <3>2, Zenon
    <3>. QED BY <3>1, <3>3, WellFormedForms, Zenon
  <2>. QED BY <1>4, <2>7, <2>8, <2>9, Zenon
<1>. QED BY <1>7, <1>8, <1>9

\* What stringToMetricSpec takes for the name: text without braces that begins
\* and ends with ink and leaves out no ink before the first brace.
IsName(s, i, j) ==
    /\ i + 1 \in Ink(s) /\ j - 1 \in Ink(s)
    /\ \A k \in Positions(s, Braces) : k >= j
    /\ \A k \in Ink(s) : (\A m \in Positions(s, {"open"}) : k < m) => i < k /\ k < j

ReadsAs(s, x) ==
    stringToMetricSpec(s).status = "ok" /\ stringToMetricSpec(s).name = Text(s, x)

\* A flag that is not refused yields the trimmed text before the first brace.
LEMMA ReadFlag ==
    ASSUME NEW s \in Seq(Symbol), s # <<>>, NEW a \in Nat, NEW b \in Nat,
           TrimSpace(s)[Whole(s)] = <<a, b>>,
           NEW start \in Nat, start = Index(s, "open")[<<a, b>>],
           NEW end \in Nat, end = Index(s, "close")[<<a, b>>],
           stringToMetricSpec(s).status # "invalid"
    PROVE  /\ start = 0 => ReadsAs(s, <<a, b>>)
           /\ start # 0 => ReadsAs(s, TrimSpace(s)[<<a, start>>])
<1> DEFINE metricName == IF start = 0 THEN <<a, b>> ELSE TrimSpace(s)[<<a, start>>]
<1>1. <<a, b>>[1] = a /\ <<a, b>>[2] = b
  OBVIOUS
<1>2. \E labels : \/ stringToMetricSpec(s) = Invalid
                  \/ stringToMetricSpec(s) =
                        [status |-> "ok", name |-> Text(s, metricName), labels |-> labels]
  BY <1>1, Zenon DEF stringToMetricSpec
<1>3. Invalid.status = "invalid"
  BY DEF Invalid
<1> DEFINE text == Text(s, metricName)
<1> HIDE DEF text
<1>4. PICK labels : stringToMetricSpec(s) = [status |-> "ok", name |-> text, labels |-> labels]
  BY <1>2, <1>3, Zenon DEF text
<1>5. stringToMetricSpec(s).status = "ok" /\ stringToMetricSpec(s).name = text
  BY <1>4
<1>6. ReadsAs(s, metricName)
  BY <1>5, Zenon DEF text, ReadsAs
<1>. QED BY <1>6, Zenon

\* A flag the parser turns down: neither empty nor of the documented form.
Malformed(s) == s # <<>> /\ ~WellFormed(s)

\* stringToMetricSpec returns an error exactly for a malformed flag.
LEMMA InvalidIsMalformed ==
    ASSUME NEW s \in Seq(Symbol)
    PROVE  stringToMetricSpec(s).status = "invalid" <=> Malformed(s)
<1>1. CASE s = <<>>
  <2>1. stringToMetricSpec(s) = Nil
    BY <1>1, Zenon DEF stringToMetricSpec
  <2>. QED BY <1>1, <2>1 DEF Nil, Malformed
<1>2. CASE s # <<>>
  BY <1>2, RefusedIsMalformed, Zenon DEF Malformed
<1>. QED BY <1>1, <1>2

\* A plain name is not malformed.
LEMMA NameIsRead == <<"letter">> \in Seq(Symbol) /\ ~Malformed(<<"letter">>)
<1> DEFINE s == <<"letter">>
<1>1. s \in Seq(Symbol) /\ s # <<>> /\ DOMAIN s = {1} /\ s[1] = "letter"
  BY DEF Symbol
<1>2. Positions(s, Braces) = {}
  BY <1>1 DEF Positions, Braces
<1>3. 1 \in Ink(s)
  BY <1>1 DEF Ink, Positions, Symbol
<1> HIDE DEF s
<1>4. WellFormed(s)
  BY <1>2, <1>3 DEF WellFormed
<1>5. s \in Seq(Symbol) /\ ~Malformed(s)
  BY <1>1, <1>4, Zenon DEF Malformed
<1>. QED BY <1>5 DEF s

\* NewMetricMapping refuses the three metric flags exactly if one of them is
\* malformed, whatever their length and however the others are.
THEOREM MalformedRefused ==
    ASSUME NEW queued \in Seq(Symbol), NEW usage \in Seq(Symbol), NEW lora \in Seq(Symbol)
    PROVE  NewMetricMapping(queued, usage, lora).status = "invalid"
              <=> Malformed(queued) \/ Malformed(usage) \/ Malformed(lora)
<1> DEFINE specs == [TotalQueuedRequests |-> stringToMetricSpec(queued),
                     KVCacheUtilization |-> stringToMetricSpec(usage),
                     LoraRequestInfo |-> stringToMetricSpec(lora)]
<1>1. NewMetricMapping(queued, usage, lora) =
        IF \E m \in DOMAIN specs : specs[m].status = "invalid"
        THEN Invalid ELSE [status |-> "ok", specs |-> specs]
  BY Zenon DEF NewMetricMapping
<1>2. (\E m \in DOMAIN specs : specs[m].status = "invalid")
        <=> Malformed(queued) \/ Malformed(usage) \/ Malformed(lora)
  <2>1. /\ DOMAIN specs = {"TotalQueuedRequests", "KVCacheUtilization", "LoraRequestInfo"}
        /\ specs["TotalQueuedRequests"] = stringToMetricSpec(queued)
        /\ specs["KVCacheUtilization"] = stringToMetricSpec(usage)
        /\ specs["LoraRequestInfo"] = stringToMetricSpec(lora)
    OBVIOUS
  <2> HIDE DEF specs
  <2>. QED BY <2>1, InvalidIsMalformed, Zenon
<1> HIDE DEF specs
<1>3. CASE \E m \in DOMAIN specs : specs[m].status = "invalid"
  BY <1>1, <1>2, <1>3 DEF Invalid
<1>4. CASE ~\E m \in DOMAIN specs : specs[m].status = "invalid"
  <2>1. NewMetricMapping(queued, usage, lora) = [status |-> "ok", specs |-> specs]
    BY <1>1, <1>4, Zenon
  <2>2. NewMetricMapping(queued, usage, lora).status = "ok"
    BY <2>1
  <2>. QED BY <1>2, <1>4, <2>2
<1>. QED BY <1>3, <1>4

\* A flag of the documented form is not only accepted: the name that
\* stringToMetricSpec returns is all of the flag before the braces, without the
\* blanks around it.
THEOREM NameRead ==
    ASSUME NEW s \in Seq(Symbol), s # <<>>, WellFormed(s)
    PROVE  \E i, j \in Nat : /\ IsName(s, i, j)
                             /\ stringToMetricSpec(s).status = "ok"
                             /\ stringToMetricSpec(s).name = Text(s, <<i, j>>)
<1>0. SUFFICES \E i, j \in Nat : IsName(s, i, j) /\ ReadsAs(s, <<i, j>>)
  BY Zenon DEF ReadsAs
<1>1. PICK a, b \in Nat : Ends(s, a, b)
  BY EndsOf
<1>2. PICK start \in Nat : start = Index(s, "open")[<<a, b>>] /\ FirstOf(s, "open", start)
  BY <1>1, FirstOfBrace
<1>3. PICK end \in Nat : end = Index(s, "close")[<<a, b>>]
  BY <1>1, FirstOfBrace
<1>4. /\ start = 0 => ReadsAs(s, <<a, b>>)
      /\ start # 0 => ReadsAs(s, TrimSpace(s)[<<a, start>>])
  <2>1. TrimSpace(s)[Whole(s)] = <<a, b>>
    BY <1>1, Zenon DEF Ends
  <2>2. stringToMetricSpec(s).status # "invalid"
    BY RefusedIsMalformed, Zenon
  <2>. QED BY <1>2, <1>3, <2>1, <2>2, ReadFlag, Zenon
<1>5. /\ DOMAIN s = 1..Len(s) /\ Len(s) \in Nat
      /\ Positions(s, {"open"}) = {k \in 1..Len(s) : s[k] = "open"}
      /\ Positions(s, {"open"}) \subseteq Ink(s)
      /\ Positions(s, Braces) = Positions(s, {"open"}) \cup Positions(s, {"close"})
  <2>1. "open" \in Symbol /\ "open" # "blank"
    BY DEF Symbol
  <2>2. Positions(s, Braces) = Positions(s, {"open"}) \cup Positions(s, {"close"})
    BY Zenon DEF Positions, Braces
  <2>3. DOMAIN s = 1..Len(s) /\ Len(s) \in Nat
    BY StringFacts
  <2>. QED BY <2>1, <2>2, <2>3, PositionsOf
<1>6. \A k \in Ink(s) : k \in Nat /\ a < k /\ k < b
  BY <1>1, Zenon DEF Ends
<1>7. CASE start = 0
  <2>1. Positions(s, {"open"}) = {}
    BY <1>2, <1>7, Zenon DEF FirstOf
  <2>2. Positions(s, Braces) = {} /\ Ink(s) # {}
    <3>1. ~\E open, close \in DOMAIN s : Labelled(s, open, close)
      BY <1>5, <2>1, Zenon DEF Labelled
    <3>. QED BY <3>1, WellFormedForms, Zenon
  <2>3. IsName(s, a, b)
    BY <1>1, <1>6, <2>2, Zenon DEF IsName, Ends
  <2>. QED BY <1>4, <1>7, <2>3, Zenon
<1>8. CASE start # 0
  <2>1. start \in Positions(s, {"open"}) /\ \A k \in Positions(s, {"open"}) : k >= start
    BY <1>2, <1>8, Zenon DEF FirstOf
  <2>2. PICK open, close \in DOMAIN s : Labelled(s, open, close)
    <3>1. Positions(s, Braces) # {}
      BY <1>5, <2>1, Zenon
    <3>. QED BY <3>1, WellFormedForms, Zenon
  <2>3. /\ open \in Nat /\ close \in Nat /\ open < close /\ Positions(s, {"close"}) = {close}
        /\ open \in Positions(s, {"open"}) /\ ~Blank(s, 0, open)
        /\ \A k \in Positions(s, {"open"}) : open <= k
    <3>1. open \in Nat /\ close \in Nat
      BY <1>5
    <3>2. open \in Positions(s, {"open"})
      BY <1>5, <2>2, Zenon DEF Labelled
    <3>. QED BY <2>2, <3>1, <3>2, Zenon DEF Labelled
  <2>4. open = start
    BY <2>1, <2>3
  <2>5. a < start
    BY <1>5, <1>6, <2>1, Zenon
  <2>6. ~Blank(s, a, start)
    <3>1. PICK k \in Ink(s) : ~(k <= 0 \/ k >= open)
      BY <2>3, Zenon DEF Blank
    <3>2. ~(k <= a \/ k >= start)
      BY <1>6, <2>4, <3>1
    <3>. QED BY <3>2, Zenon DEF Blank
  <2>7. PICK i, j \in Nat :
          /\ TrimSpace(s)[<<a, start>>] = <<i, j>>
          /\ a <= i /\ i < j /\ j <= start
          /\ \A k \in Ink(s) : a < k /\ k < start => i < k /\ k < j
          /\ Within(<<i, j>>) = {} <=> Blank(s, a, start)
          /\ ~Blank(s, a, start) => i + 1 \in Ink(s) /\ j - 1 \in Ink(s)
    BY <2>5, TrimFacts, Zenon
  <2>8. \A k \in Positions(s, Braces) : k >= j
    <3>1. ASSUME NEW k \in Positions(s, {"open"}) PROVE k >= j
      <4>1. k >= start /\ k \in Nat
        BY <1>5, <1>6, <2>1, Zenon
      <4>. QED BY <2>7, <4>1
    <3>2. close >= j
      BY <2>3, <2>4, <2>7
    <3>. QED BY <1>5, <2>3, <3>1, <3>2, Zenon
  <2>9. IsName(s, i, j)
    <3>1. ASSUME NEW k \in Ink(s), \A m \in Positions(s, {"open"}) : k < m PROVE i < k /\ k < j
      BY <1>6, <2>1, <2>7, <3>1, Zenon
    <3>. QED BY <2>6, <2>7, <2>8, <3>1, Zenon DEF IsName
  <2>. QED BY <1>4, <1>8, <2>7, <2>9, Zenon
<1>. QED BY <1>7, <1>8

-----------------------------------------------------------------------------
(* Every step of the process keeps the flag or has done with it.            *)

FlagInv == flag \in Seq(Symbol)

\* A step of the set-up keeps the flag until it is read; an exit drops it.
LEMMA SetUpKeepsFlag ==
    ASSUME \/ ValidateFlags \/ GetConfig \/ NewManager \/ SetUpMapping
           \/ SetupWithManager \/ registerHealthServer \/ AddExtProc \/ registerMetricsHandler
    PROVE  flag' = flag \/ flag' = <<>>
<1>1. ValidateFlags \/ GetConfig \/ NewManager => flag' = flag \/ flag' = <<>>
  BY Zenon DEF ValidateFlags, GetConfig, NewManager, GivesUp, Exit
<1>2. SetUpMapping => flag' = flag \/ flag' = <<>>
  BY Zenon DEF SetUpMapping, GivesUp, Exit
<1>3. \A pos, next : Adds(pos, next) => flag' = flag \/ flag' = <<>>
  BY Zenon DEF Adds, GivesUp, Exit
<1>. QED BY <1>1, <1>2, <1>3, Zenon
     DEF SetupWithManager, registerHealthServer, AddExtProc, registerMetricsHandler

\* So does every other step: the manager and the runnables do not
\* touch it.
LEMMA NextKeepsFlag == [Next]_vars => flag' = flag \/ flag' = <<>>
<1>1. CASE Steps
  <2>1. StartGroup \/ Select \/ CancelGroup \/ GroupReturned => flag' = flag
    BY Zenon DEF StartGroup, Select, CancelGroup, GroupReturned, run
  <2>2. StartReturns => flag' = <<>>
    BY Zenon DEF StartReturns, Exit
  <2>. QED BY <1>1, <2>1, <2>2, SetUpKeepsFlag, Zenon DEF Steps
<1>2. CASE Serving
  <2>1. AsRunnable \/ RouterAsRunnable => flag' = flag
    BY Zenon DEF AsRunnable, RouterAsRunnable, run
  <2>2. \A s : Listen(s) \/ Serve(s) \/ WatchContext(s) \/ GracefulStop(s) \/ ServeReturns(s)
                 => flag' = flag
    BY Zenon DEF Listen, Serve, WatchContext, GracefulStop, ServeReturns, run
  <2>3. \A r : RunnableEnds(r) => flag' = flag
    BY Zenon DEF RunnableEnds, run
  <2>. QED BY <1>2, <2>1, <2>2, <2>3, Zenon DEF Serving
<1>3. CASE Signal \/ GraceExpires
  BY <1>3, Zenon DEF Signal, GraceExpires, Exit
<1>4. CASE (\E s \in GRPC : ServeFails(s)) \/ (\E r \in Runnables : RunnableFails(r))
  BY <1>4, Zenon DEF ServeFails, RunnableFails, run
<1>5. CASE StreamOpens \/ StreamEnds \/ Reconcile
  BY <1>5, Zenon DEF StreamOpens, StreamEnds, Reconcile, run
<1>6. CASE Exited \/ UNCHANGED vars
  BY <1>6, Zenon DEF Exited, vars, run
<1>. QED BY <1>1, <1>2, <1>3, <1>4, <1>5, <1>6, Zenon DEF Next

\* Whatever a metric flag is set to, NewMetricMapping refuses it exactly if it
\* is neither empty nor of the form name{label=value,...} of the comment on
\* stringToMetricSpec: the process never starts with a flag it misreads, and
\* never turns down one it documents.
THEOREM FlagsReadRightCorrect == Spec => []FlagsReadRight
<1>1. Init => FlagInv
  <2>1. <<>> \in Seq(Symbol)
    OBVIOUS
  <2>. QED BY <2>1, ProcessAssumption, Zenon DEF Init, FlagInv
<1>2. FlagInv /\ [Next]_vars => FlagInv'
  <2>1. <<>> \in Seq(Symbol)
    OBVIOUS
  <2>. QED BY <2>1, NextKeepsFlag, Zenon DEF FlagInv
<1>3. FlagInv => FlagsReadRight
  <2>1. SUFFICES ASSUME FlagInv PROVE FlagsReadRight
    OBVIOUS
  <2>2. PICK s \in Seq(Symbol) : s = flag
    BY <2>1 DEF FlagInv
  <2>3. NewMetricMapping(s, <<"letter">>, <<"letter">>).status = "invalid"
          <=> s # <<>> /\ ~WellFormed(s)
    BY MalformedRefused, NameIsRead, Zenon DEF Malformed
  <2>. QED BY <2>2, <2>3, Zenon DEF FlagsReadRight
<1>. QED BY <1>1, <1>2, <1>3, PTL DEF Spec

-----------------------------------------------------------------------------
(* The end of a process.                                                    *)

SetUpSteps == {"flags", "config", "manager", "mapping", "controllers", "health",
               "ext-proc", "metrics"}
States == {"off", "start", "listen", "serve", "serving", "ended", "failed"}

ProcessTypes ==
    /\ step \in SetUpSteps \cup {"starting", "running", "stopping", "exited"}
    /\ signals \in 0..2 /\ group \in 1..4 /\ streams \in 0..MaxStreams
    /\ pc \in [Runnables -> States]
    /\ watcher \in [GRPC -> {"off", "watching", "stopping", "gone"}]
    /\ stopped \in [GRPC -> BOOLEAN]

\* Until its group is started the ext-proc runnable has done nothing; from then
\* on it is not off any more.
NotStarted ==
    step \in SetUpSteps \/ (step = "starting" /\ group <= 2) =>
        pc["ext-proc"] = "off" /\ watcher["ext-proc"] = "off" /\ streams = 0
Started ==
    step \in {"running", "stopping"} \/ (step = "starting" /\ group > 2) =>
        pc["ext-proc"] # "off"
IsAdded == step \in {"metrics", "starting", "running", "stopping"} => "ext-proc" \in added
GroupInv == (step \in SetUpSteps \cup {"running"} => group = 1)
            /\ (step = "starting" => group <= 3)

\* Streams are open only while Serve runs or after it failed.
StreamsInv == streams > 0 => pc["ext-proc"] \in {"serving", "failed"}

\* A watcher that is gone saw Serve return, or GracefulStop has drained the streams.
WatcherInv ==
    /\ watcher["ext-proc"] = "stopping" => stopped["ext-proc"]
    /\ watcher["ext-proc"] = "gone" =>
        \/ pc["ext-proc"] \in {"ended", "failed"}
        \/ stopped["ext-proc"] /\ streams = 0

\* The group of the servers is passed only when ext-proc has returned.
StoppedInv == step = "stopping" /\ group > 1 => pc["ext-proc"] \in {"ended", "failed"}

\* The manager returns nil only for a signal, and a second one ends the process.
SignalInv ==
    /\ step # "exited" => signals < 2 /\ code = "none"
    /\ step = "stopping" /\ result = "nil" => signals = 1

ExitInv ==
    /\ ProcessTypes /\ NotStarted /\ Started /\ IsAdded /\ GroupInv
    /\ StreamsInv /\ WatcherInv /\ StoppedInv /\ SignalInv /\ CleanExit

\* The variables the invariant is about.
exitVars == <<step, signals, code, added, group, result, pc, watcher, stopped, streams>>

\* A step that leaves them alone preserves the invariant.
LEMMA ExitFrame == ASSUME ExitInv, UNCHANGED exitVars PROVE ExitInv'
<1>1. UNCHANGED <<step, signals, code, added, group, result, pc, watcher, stopped, streams>>
  BY Zenon DEF exitVars
<1>. QED BY <1>1 DEF ExitInv, ProcessTypes, NotStarted, Started, IsAdded, GroupInv, StreamsInv,
                     WatcherInv, StoppedInv, SignalInv, CleanExit

\* A process that has just begun.
LEMMA ExitInvInit == Init => ExitInv
<1> SUFFICES ASSUME Init PROVE ExitInv
  OBVIOUS
<1>1. /\ step = "flags" /\ signals = 0 /\ code = "none" /\ group = 1 /\ streams = 0
      /\ pc = [r \in Runnables |-> "off"] /\ watcher = [s \in GRPC |-> "off"]
      /\ stopped = [s \in GRPC |-> FALSE]
  BY Zenon DEF Init
<1>2. stopped \in [GRPC -> BOOLEAN]
  BY <1>1, Zenon
<1>3. ProcessTypes
  BY <1>1, <1>2, ProcessAssumption DEF ProcessTypes, SetUpSteps, States
<1>4. pc["ext-proc"] = "off" /\ watcher["ext-proc"] = "off"
  BY <1>1 DEF Runnables, GRPC
<1>5. step = "flags" /\ signals = 0 /\ code = "none" /\ group = 1 /\ streams = 0
  BY <1>1
<1>6. NotStarted /\ Started /\ IsAdded /\ GroupInv /\ StreamsInv /\ StoppedInv /\ SignalInv /\ CleanExit
  BY <1>4, <1>5 DEF NotStarted, Started, IsAdded, GroupInv, StreamsInv, StoppedInv, SignalInv, CleanExit,
     SetUpSteps
<1>7. WatcherInv
  BY <1>4 DEF WatcherInv
<1>. QED BY <1>3, <1>6, <1>7 DEF ExitInv

\* An exit keeps what it left of the ext-proc streams.
LEMMA ExitStep ==
    ASSUME ExitInv, NEW c, Exit(c), signals' \in 0..2,
           c = "0" => signals' = 1 /\ (streams = 0 \/ pc["ext-proc"] = "failed")
    PROVE  ExitInv'
<1>1. /\ step' = "exited" /\ code' = c /\ group' = 1 /\ streams' = streams
      /\ pc' = [r \in Runnables |-> IF r = "ext-proc" THEN pc[r] ELSE "off"]
      /\ watcher' = [s \in GRPC |-> "off"] /\ stopped' = [s \in GRPC |-> FALSE]
  BY Zenon DEF Exit
<1>2. pc \in [Runnables -> States] /\ streams \in 0..MaxStreams /\ StreamsInv
  BY DEF ExitInv, ProcessTypes
<1>3. stopped' \in [GRPC -> BOOLEAN]
  BY <1>1, Zenon
<1>4. pc' \in [Runnables -> States]
  BY <1>1, <1>2 DEF States
<1>5. ProcessTypes'
  BY <1>1, <1>2, <1>3, <1>4 DEF ProcessTypes
<1>6. pc'["ext-proc"] = pc["ext-proc"] /\ watcher'["ext-proc"] = "off"
  BY <1>1 DEF Runnables, GRPC
<1>7. /\ NotStarted' /\ Started' /\ IsAdded' /\ GroupInv' /\ StoppedInv' /\ SignalInv'
  BY <1>1 DEF NotStarted, Started, IsAdded, GroupInv, StoppedInv, SignalInv, SetUpSteps
<1>8. StreamsInv' /\ CleanExit'
  BY <1>1, <1>2, <1>6 DEF StreamsInv, CleanExit
<1>9. WatcherInv'
  BY <1>6 DEF WatcherInv
<1>. QED BY <1>5, <1>7, <1>8, <1>9 DEF ExitInv

\* A step of run that fails ends the process with 1.
LEMMA GivesUpStep == ASSUME ExitInv, NEW place, GivesUp(place) PROVE ExitInv'
<1>1. Exit("1") /\ signals' = signals
  BY DEF GivesUp
<1>2. signals' \in 0..2
  BY <1>1 DEF ExitInv, ProcessTypes
<1>. QED BY <1>1, <1>2, ExitStep

\* A step of run that succeeds leads to the next and starts nothing.
LEMMA SetUpStep ==
    ASSUME ExitInv, NEW place \in SetUpSteps, NEW next \in SetUpSteps \cup {"starting"},
           SetUp(place, next), UNCHANGED <<group, result>>,
           next \in {"metrics", "starting"} => "ext-proc" \in added'
    PROVE  ExitInv'
<1>1. /\ step = place /\ step' = next
      /\ UNCHANGED <<signals, code, group, pc, watcher, stopped, streams>>
  BY Zenon DEF SetUp, GoOn, servers
<1>2. /\ ProcessTypes /\ pc["ext-proc"] = "off" /\ watcher["ext-proc"] = "off" /\ streams = 0
      /\ group = 1 /\ signals < 2 /\ code = "none"
  BY <1>1 DEF ExitInv, NotStarted, GroupInv, SignalInv, SetUpSteps
<1>3. ProcessTypes'
  BY <1>1, <1>2 DEF ProcessTypes, SetUpSteps
<1>4. /\ NotStarted' /\ Started' /\ IsAdded' /\ GroupInv' /\ StoppedInv' /\ SignalInv'
      /\ StreamsInv' /\ CleanExit'
  BY <1>1, <1>2 DEF NotStarted, Started, IsAdded, GroupInv, StoppedInv, SignalInv, SetUpSteps,
     StreamsInv, CleanExit
<1>5. WatcherInv'
  BY <1>1, <1>2 DEF WatcherInv
<1>. QED BY <1>3, <1>4, <1>5 DEF ExitInv

\* The steps of run up to mgr.Start.
LEMMA RunStep ==
    ASSUME ExitInv,
           \/ ValidateFlags \/ GetConfig \/ NewManager \/ SetUpMapping
           \/ SetupWithManager \/ registerHealthServer \/ AddExtProc \/ registerMetricsHandler
    PROVE  ExitInv'
<1>1. CASE \E place : GivesUp(place)
  BY <1>1, GivesUpStep
<1>2. ASSUME NEW place \in SetUpSteps \ {"ext-proc", "metrics"},
             NEW next \in SetUpSteps \ {"metrics"},
             SetUp(place, next), UNCHANGED <<group, result>>
      PROVE  ExitInv'
  BY <1>2, SetUpStep DEF SetUpSteps
<1>3. ValidateFlags \/ GetConfig => ExitInv'
  <2>1. ASSUME SetUp("flags", "config") \/ SetUp("config", "manager"), UNCHANGED manager
        PROVE  ExitInv'
    BY <2>1, <1>2 DEF manager, SetUpSteps
  <2>. QED BY <1>1, <2>1 DEF ValidateFlags, GetConfig
<1>4. NewManager => ExitInv'
  <2>1. ASSUME NEW next \in {"mapping", "health"}, SetUp("manager", next), UNCHANGED manager
        PROVE  ExitInv'
    BY <2>1, <1>2 DEF manager, SetUpSteps
  <2>. QED BY <1>1, <2>1 DEF NewManager
<1>5. SetUpMapping => ExitInv'
  <2>1. ASSUME SetUp("mapping", "controllers"), UNCHANGED manager PROVE ExitInv'
    BY <2>1, <1>2 DEF manager, SetUpSteps
  <2>2. SetUpMapping => GivesUp("mapping") \/ (SetUp("mapping", "controllers") /\ UNCHANGED manager)
    BY Zenon DEF SetUpMapping
  <2>. QED BY <1>1, <2>1, <2>2
<1>6. ASSUME NEW place, NEW next, Adds(place, next)
      PROVE  \/ GivesUp(place)
             \/ SetUp(place, next) /\ added' = added \cup {place} /\ UNCHANGED <<group, result>>
  BY <1>6, Zenon DEF Adds
<1>7. SetupWithManager \/ registerHealthServer => ExitInv'
  BY <1>1, <1>2, <1>6, Zenon DEF SetupWithManager, registerHealthServer, SetUpSteps
<1>8. AddExtProc => ExitInv'
  BY <1>1, <1>6, SetUpStep DEF AddExtProc, SetUpSteps
<1>9. registerMetricsHandler => ExitInv'
  <2>1. SetUp("metrics", "starting") => "ext-proc" \in added
    BY DEF SetUp, ExitInv, IsAdded
  <2>. QED BY <1>1, <1>6, <2>1, SetUpStep DEF registerMetricsHandler, SetUpSteps
<1>. QED BY <1>3, <1>4, <1>5, <1>7, <1>8, <1>9

\* A signal is noted, or ends the process.
LEMMA SignalStep == ASSUME ExitInv, Signal PROVE ExitInv'
<1>1. CASE \E c \in {"killed", "1"} : Exit(c) /\ signals' \in {signals, 2}
  <2>1. signals' \in 0..2
    BY <1>1 DEF ExitInv, ProcessTypes
  <2>. QED BY <1>1, <2>1, ExitStep
<1>2. CASE /\ step # "exited" /\ signals = 0 /\ signals' = 1
           /\ UNCHANGED <<step, code, added, group, result, pc, watcher, stopped, streams>>
  <2>1. ProcessTypes'
    BY <1>2 DEF ExitInv, ProcessTypes
  <2>2. /\ NotStarted' /\ Started' /\ IsAdded' /\ GroupInv' /\ StoppedInv' /\ StreamsInv'
        /\ SignalInv' /\ CleanExit'
    BY <1>2 DEF ExitInv, NotStarted, Started, IsAdded, GroupInv, StoppedInv, SignalInv,
       StreamsInv, CleanExit
  <2>3. WatcherInv'
    BY <1>2 DEF ExitInv, WatcherInv
  <2>. QED BY <2>1, <2>2, <2>3 DEF ExitInv
<1>3. \/ \E c \in {"killed", "1"} : Exit(c) /\ signals' \in {signals, 2}
      \/ /\ step # "exited" /\ signals = 0 /\ signals' = 1
         /\ UNCHANGED <<step, code, added, group, result, pc, watcher, stopped, streams>>
  BY Zenon DEF Signal, manager, servers
<1>. QED BY <1>1, <1>2, <1>3

\* The second group to start is that of the servers, and so is the first to stop.
LEMMA GroupOrders ==
    /\ StartOrder[1] # "Others" /\ StartOrder[2] = "Others" /\ StartOrder[3] # "Others"
    /\ StopOrder[1] = "Others" /\ GroupOf("ext-proc") = "Others" /\ "ext-proc" \in GRPC
<1>1. GroupOf("ext-proc") = "Others"
  BY Zenon DEF GroupOf, GRPC
<1>. QED BY <1>1 DEF StartOrder, StopOrder, GRPC

\* The manager starts a group.
LEMMA StartGroupStep == ASSUME ExitInv, StartGroup PROVE ExitInv'
<1>1. /\ step = "starting" /\ UNCHANGED <<signals, code, added, result, watcher, stopped, streams>>
      /\ pc' = [r \in Runnables |->
                  IF r \notin added \/ GroupOf(r) # StartOrder[group] THEN pc[r]
                  ELSE IF r \in GRPC THEN "start" ELSE "serving"]
      /\ \/ group = 3 /\ step' = "running" /\ group' = 1
         \/ group # 3 /\ step' = "starting" /\ group' = group + 1
  BY Zenon DEF StartGroup, GoOn
<1>2. /\ ProcessTypes /\ "ext-proc" \in added /\ group \in 1..3 /\ signals < 2 /\ code = "none"
      /\ StreamsInv /\ WatcherInv
  BY <1>1 DEF ExitInv, ProcessTypes, IsAdded, GroupInv, SignalInv
<1>3. pc'["ext-proc"] = IF group = 2 THEN "start" ELSE pc["ext-proc"]
  BY <1>1, <1>2, GroupOrders DEF Runnables
<1>4. pc' \in [Runnables -> States]
  BY <1>1, <1>2 DEF ProcessTypes, States
<1>5. group' \in 1..4 /\ (step' = "starting" => group' <= 3)
  BY <1>1, <1>2
<1>6. ProcessTypes'
  BY <1>1, <1>2, <1>4, <1>5 DEF ProcessTypes, SetUpSteps
<1>7. group <= 2 => pc["ext-proc"] = "off" /\ watcher["ext-proc"] = "off" /\ streams = 0
  BY <1>1 DEF ExitInv, NotStarted
<1>8. group > 2 => pc["ext-proc"] # "off"
  BY <1>1 DEF ExitInv, Started
<1>9. NotStarted' /\ Started' /\ IsAdded' /\ GroupInv' /\ StoppedInv' /\ SignalInv' /\ CleanExit'
  BY <1>1, <1>2, <1>3, <1>5, <1>7, <1>8
  DEF NotStarted, Started, IsAdded, GroupInv, StoppedInv, SignalInv, CleanExit, SetUpSteps
<1>10. StreamsInv'
  BY <1>1, <1>2, <1>3, <1>7 DEF StreamsInv
<1>11. WatcherInv'
  BY <1>1, <1>2, <1>3, <1>7 DEF WatcherInv
<1>. QED BY <1>6, <1>9, <1>10, <1>11 DEF ExitInv

\* The wait in mgr.Start ends.
LEMMA SelectStep == ASSUME ExitInv, Select PROVE ExitInv'
<1>1. /\ step = "running" /\ step' = "stopping"
      /\ UNCHANGED <<signals, code, added, group, pc, watcher, stopped, streams>>
      /\ (signals > 0 /\ result' = "nil") \/ result' = "error"
  BY Zenon DEF Select, GoOn, servers
<1>2. ProcessTypes'
  BY <1>1 DEF ExitInv, ProcessTypes
<1>3. /\ NotStarted' /\ Started' /\ IsAdded' /\ GroupInv' /\ StoppedInv' /\ StreamsInv' /\ CleanExit'
  BY <1>1 DEF ExitInv, NotStarted, Started, IsAdded, GroupInv, StoppedInv, StreamsInv, CleanExit,
     SetUpSteps
<1>4. SignalInv'
  BY <1>1 DEF ExitInv, ProcessTypes, SignalInv
<1>5. WatcherInv'
  BY <1>1 DEF ExitInv, WatcherInv
<1>. QED BY <1>2, <1>3, <1>4, <1>5 DEF ExitInv

\* A group has stopped.
LEMMA GroupReturnedStep == ASSUME ExitInv, GroupReturned PROVE ExitInv'
<1>1. /\ step = "stopping" /\ group <= 3 /\ group' = group + 1
      /\ UNCHANGED <<step, signals, code, added, result, pc, watcher, stopped, streams>>
      /\ \A r \in added : GroupOf(r) = StopOrder[group] => Returned(r)
  BY Zenon DEF GroupReturned, run, servers
<1>2. ProcessTypes'
  BY <1>1 DEF ExitInv, ProcessTypes
<1>3. pc["ext-proc"] \in {"ended", "failed"}
  <2>1. "ext-proc" \in added /\ pc["ext-proc"] # "off" /\ group \in 1..4
    BY <1>1 DEF ExitInv, IsAdded, Started, ProcessTypes
  <2>2. CASE group = 1
    BY <1>1, <2>1, <2>2, GroupOrders DEF Returned
  <2>3. CASE group > 1
    BY <1>1, <2>3 DEF ExitInv, StoppedInv
  <2>. QED BY <2>1, <2>2, <2>3
<1>4. /\ NotStarted' /\ Started' /\ IsAdded' /\ GroupInv' /\ StoppedInv' /\ StreamsInv' /\ CleanExit'
      /\ SignalInv'
  BY <1>1, <1>3 DEF ExitInv, NotStarted, Started, IsAdded, GroupInv, StoppedInv, StreamsInv, CleanExit,
     SignalInv, SetUpSteps
<1>5. WatcherInv'
  BY <1>1 DEF ExitInv, WatcherInv
<1>. QED BY <1>2, <1>4, <1>5 DEF ExitInv

\* mgr.Start returns: with nil after a signal, and with ext-proc returned, so
\* that its streams are over unless Serve failed.
LEMMA StartReturnsStep == ASSUME ExitInv, StartReturns \/ GraceExpires PROVE ExitInv'
<1>1. signals' = signals /\ signals' \in 0..2
  BY DEF StartReturns, GraceExpires, ExitInv, ProcessTypes
<1>2. CASE GraceExpires
  BY <1>1, <1>2, ExitStep DEF GraceExpires
<1>3. CASE StartReturns
  <2>1. step = "stopping" /\ group = 4
    BY <1>3 DEF StartReturns
  <2>2. pc["ext-proc"] \in {"ended", "failed"}
    BY <2>1 DEF ExitInv, StoppedInv
  <2>3. streams = 0 \/ pc["ext-proc"] = "failed"
    BY <2>2 DEF ExitInv, ProcessTypes, StreamsInv
  <2>4. result = "nil" => signals = 1
    BY <2>1 DEF ExitInv, SignalInv
  <2>5. PICK c : Exit(c) /\ (c = "0" => result = "nil")
    BY <1>3 DEF StartReturns
  <2>. QED BY <1>1, <2>3, <2>4, <2>5, ExitStep
<1>. QED BY <1>2, <1>3

\* A step of the runnables while the manager runs: ext-proc does not begin by
\* itself and does not come back once it has returned.
LEMMA ServerStep ==
    ASSUME ExitInv, Running, UNCHANGED <<step, signals, code, added, group, result>>,
           pc' \in [Runnables -> States], stopped' \in [GRPC -> BOOLEAN],
           watcher' \in [GRPC -> {"off", "watching", "stopping", "gone"}],
           streams' \in 0..MaxStreams,
           pc["ext-proc"] = "off" =>
               pc'["ext-proc"] = "off" /\ watcher'["ext-proc"] = "off" /\ streams' = 0,
           pc["ext-proc"] # "off" => pc'["ext-proc"] # "off",
           pc["ext-proc"] \in {"ended", "failed"} => pc'["ext-proc"] = pc["ext-proc"],
           StreamsInv', WatcherInv'
    PROVE  ExitInv'
<1>1. ProcessTypes'
  BY DEF ExitInv, ProcessTypes
<1>2. NotStarted' /\ Started' /\ IsAdded' /\ GroupInv' /\ StoppedInv' /\ SignalInv'
  BY DEF ExitInv, NotStarted, Started, IsAdded, GroupInv, StoppedInv, SignalInv, SetUpSteps
<1>3. CleanExit'
  BY DEF ExitInv, SignalInv, CleanExit, Running
<1>. QED BY <1>1, <1>2, <1>3 DEF ExitInv

\* What is known of ext-proc while the manager runs.
LEMMA ServerFacts ==
    ASSUME ExitInv, Running
    PROVE  /\ pc \in [Runnables -> States] /\ stopped \in [GRPC -> BOOLEAN]
           /\ watcher \in [GRPC -> {"off", "watching", "stopping", "gone"}]
           /\ streams \in 0..MaxStreams /\ StreamsInv /\ WatcherInv
           /\ pc["ext-proc"] = "off" => watcher["ext-proc"] = "off" /\ streams = 0
           /\ "ext-proc" \in GRPC /\ GRPC \subseteq Runnables
<1>1. \/ step \in {"running", "stopping"} \/ (step = "starting" /\ group > 2)
      \/ step = "starting" /\ group <= 2
  BY DEF Running, ExitInv, ProcessTypes
<1>. QED BY <1>1 DEF ExitInv, ProcessTypes, NotStarted, Started, GRPC, Runnables

\* A runnable other than ext-proc moves on by itself.
LEMMA OtherMoves ==
    ASSUME ExitInv, Running, UNCHANGED <<step, signals, code, added, group, result, streams>>,
           NEW r \in Runnables \ {"ext-proc"}, NEW s \in States \ {"off"},
           pc' = [pc EXCEPT ![r] = s],
           UNCHANGED <<watcher, stopped>>
    PROVE  ExitInv'
<1>1. pc'["ext-proc"] = pc["ext-proc"] /\ pc' \in [Runnables -> States]
  BY ServerFacts
<1>2. StreamsInv' /\ WatcherInv'
  BY <1>1, ServerFacts DEF StreamsInv, WatcherInv
<1>. QED BY <1>1, <1>2, ServerFacts, ServerStep

\* Serve of ext-proc is not running before or after the step.
LEMMA ExtProcMoves ==
    ASSUME ExitInv, Running, UNCHANGED <<step, signals, code, added, group, result, streams>>,
           pc["ext-proc"] \in {"start", "listen", "serve"},
           NEW s \in {"listen", "serve", "serving", "ended", "failed"},
           pc' = [pc EXCEPT !["ext-proc"] = s],
           UNCHANGED stopped,
           UNCHANGED watcher \/ watcher' = [watcher EXCEPT !["ext-proc"] = "watching"]
    PROVE  ExitInv'
<1>1. pc'["ext-proc"] = s /\ pc' \in [Runnables -> States]
  BY ServerFacts DEF States
<1>2. watcher' \in [GRPC -> {"off", "watching", "stopping", "gone"}]
  BY ServerFacts
<1>3. streams = 0
  BY ServerFacts DEF StreamsInv
<1>4. StreamsInv'
  BY <1>3 DEF StreamsInv
<1>5. WatcherInv'
  <2>1. watcher'["ext-proc"] \in {watcher["ext-proc"], "watching"}
    BY ServerFacts
  <2>2. watcher["ext-proc"] \in {"stopping", "gone"} => stopped["ext-proc"]
    BY ServerFacts DEF WatcherInv
  <2>. QED BY <1>3, <2>1, <2>2 DEF WatcherInv
<1>. QED BY <1>1, <1>2, <1>3, <1>4, <1>5, ServerFacts, ServerStep

\* The ext-proc runnables of the two processes begin.
LEMMA AsRunnableStep == ASSUME ExitInv, AsRunnable \/ RouterAsRunnable PROVE ExitInv'
<1>1. /\ Running /\ pc["ext-proc"] = "start"
      /\ UNCHANGED <<step, signals, code, added, group, result, watcher, stopped, streams>>
      /\ \E s \in {"listen", "failed"} : pc' = [pc EXCEPT !["ext-proc"] = s]
  BY Zenon DEF AsRunnable, RouterAsRunnable, CreateSelfSignedTLSCertificate, Becomes, Fails, run
<1>. QED BY <1>1, ExtProcMoves

\* A server listens and begins to watch its context.
LEMMA ListenStep == ASSUME ExitInv, NEW s \in GRPC, Listen(s) PROVE ExitInv'
<1>1. /\ Running /\ pc[s] \in {"start", "listen"}
      /\ UNCHANGED <<step, signals, code, added, group, result, stopped, streams>>
      /\ \E to \in {"serve", "failed"} : pc' = [pc EXCEPT ![s] = to]
      /\ UNCHANGED watcher \/ watcher' = [watcher EXCEPT ![s] = "watching"]
  BY Zenon DEF Listen, Becomes, Fails, run
<1>2. CASE s = "ext-proc"
  BY <1>1, <1>2, ExtProcMoves
<1>3. CASE s # "ext-proc"
  <2>1. /\ pc'["ext-proc"] = pc["ext-proc"] /\ pc' \in [Runnables -> States]
        /\ watcher'["ext-proc"] = watcher["ext-proc"]
        /\ watcher' \in [GRPC -> {"off", "watching", "stopping", "gone"}]
    BY <1>1, <1>3, ServerFacts DEF States
  <2>2. StreamsInv' /\ WatcherInv'
    BY <1>1, <2>1, ServerFacts DEF StreamsInv, WatcherInv
  <2>. QED BY <1>1, <2>1, <2>2, ServerFacts, ServerStep
<1>. QED BY <1>2, <1>3

\* Serve begins, unless the server was stopped before.
LEMMA ServeStep == ASSUME ExitInv, NEW s \in GRPC, Serve(s) PROVE ExitInv'
<1>1. /\ Running /\ pc[s] = "serve"
      /\ UNCHANGED <<step, signals, code, added, group, result, watcher, stopped, streams>>
      /\ \E to \in {"ended", "serving"} : pc' = [pc EXCEPT ![s] = to]
  BY Zenon DEF Serve, Becomes, run
<1>2. CASE s = "ext-proc"
  BY <1>1, <1>2, ExtProcMoves
<1>3. CASE s # "ext-proc"
  BY <1>1, <1>3, OtherMoves DEF States, Runnables
<1>. QED BY <1>2, <1>3

\* Serve fails, or returns after GracefulStop, when its streams are over.
LEMMA ServeEndsStep ==
    ASSUME ExitInv, NEW s \in GRPC, ServeFails(s) \/ ServeReturns(s) PROVE ExitInv'
<1>1. /\ Running /\ pc[s] = "serving"
      /\ UNCHANGED <<step, signals, code, added, group, result, watcher, stopped, streams>>
      /\ \/ pc' = [pc EXCEPT ![s] = "failed"]
         \/ pc' = [pc EXCEPT ![s] = "ended"] /\ watcher[s] = "gone"
  BY Zenon DEF ServeFails, ServeReturns, Becomes, Fails, run
<1>2. CASE s = "ext-proc"
  <2>1. pc' \in [Runnables -> States] /\ pc'["ext-proc"] \in {"ended", "failed"}
    BY <1>1, <1>2, ServerFacts DEF States
  <2>2. pc'["ext-proc"] = "ended" => streams = 0
    BY <1>1, <1>2, ServerFacts DEF WatcherInv
  <2>3. StreamsInv'
    BY <1>1, <2>1, <2>2, ServerFacts DEF StreamsInv
  <2>4. WatcherInv'
    BY <1>1, <2>1, ServerFacts DEF WatcherInv
  <2>. QED BY <1>1, <1>2, <2>1, <2>3, <2>4, ServerFacts, ServerStep
<1>3. CASE s # "ext-proc"
  BY <1>1, <1>3, OtherMoves DEF States, Runnables
<1>. QED BY <1>2, <1>3

\* The watcher wakes, and GracefulStop waits for the streams.
LEMMA WatcherStep ==
    ASSUME ExitInv, NEW s \in GRPC, WatchContext(s) \/ GracefulStop(s) PROVE ExitInv'
<1>1. /\ Running
      /\ UNCHANGED <<step, signals, code, added, group, result, pc, streams>>
      /\ \/ /\ watcher[s] = "watching" /\ watcher' = [watcher EXCEPT ![s] = "stopping"]
            /\ stopped' = [stopped EXCEPT ![s] = TRUE]
         \/ /\ watcher[s] = "watching" /\ watcher' = [watcher EXCEPT ![s] = "gone"]
            /\ Returned(s) /\ UNCHANGED stopped
         \/ /\ watcher[s] = "stopping" /\ watcher' = [watcher EXCEPT ![s] = "gone"]
            /\ s = "ext-proc" => streams = 0
            /\ UNCHANGED stopped
  BY Zenon DEF WatchContext, GracefulStop, run, manager
<1>2. /\ watcher' \in [GRPC -> {"off", "watching", "stopping", "gone"}]
      /\ pc' \in [Runnables -> States] /\ StreamsInv'
  BY <1>1, ServerFacts DEF StreamsInv
<1>3. stopped' \in [GRPC -> BOOLEAN]
  BY <1>1, ServerFacts
<1>4. pc["ext-proc"] = "off" => watcher'["ext-proc"] = "off" /\ streams' = 0
  BY <1>1, ServerFacts
<1>5. WatcherInv'
  <2>1. CASE s # "ext-proc"
    <3>1. watcher'["ext-proc"] = watcher["ext-proc"] /\ stopped'["ext-proc"] = stopped["ext-proc"]
      BY <1>1, <2>1, ServerFacts
    <3>. QED BY <1>1, <3>1, ServerFacts DEF WatcherInv
  <2>2. CASE s = "ext-proc"
    <3>1. CASE watcher["ext-proc"] = "watching" /\ watcher' = [watcher EXCEPT !["ext-proc"] = "stopping"]
               /\ stopped' = [stopped EXCEPT !["ext-proc"] = TRUE]
      BY <3>1, ServerFacts, <1>1 DEF WatcherInv
    <3>2. CASE Returned("ext-proc") /\ watcher' = [watcher EXCEPT !["ext-proc"] = "gone"]
               /\ watcher["ext-proc"] = "watching"
      BY <1>1, <3>2, ServerFacts DEF WatcherInv, Returned
    <3>3. CASE watcher["ext-proc"] = "stopping" /\ watcher' = [watcher EXCEPT !["ext-proc"] = "gone"]
               /\ streams = 0 /\ UNCHANGED stopped
      BY <1>1, <3>3, ServerFacts DEF WatcherInv
    <3>. QED BY <1>1, <2>2, <3>1, <3>2, <3>3
  <2>. QED BY <2>1, <2>2
<1>. QED BY <1>1, <1>2, <1>3, <1>4, <1>5, ServerFacts, ServerStep

\* A stream opens only while ext-proc serves and is not stopped.
LEMMA StreamStep == ASSUME ExitInv, StreamOpens \/ StreamEnds PROVE ExitInv'
<1>1. /\ Running
      /\ UNCHANGED <<step, signals, code, added, group, result, pc, watcher, stopped>>
      /\ \/ /\ pc["ext-proc"] = "serving" /\ ~stopped["ext-proc"]
            /\ streams < MaxStreams /\ streams' = streams + 1
         \/ streams > 0 /\ streams' = streams - 1
  BY Zenon DEF StreamOpens, StreamEnds, run, manager
<1>2. streams' \in 0..MaxStreams
  BY <1>1, ServerFacts, ProcessAssumption
<1>3. StreamsInv'
  BY <1>1, ServerFacts DEF StreamsInv
<1>4. WatcherInv'
  <2>1. CASE ~stopped["ext-proc"] /\ pc["ext-proc"] = "serving"
    BY <1>1, <2>1, ServerFacts DEF WatcherInv
  <2>2. CASE streams > 0 /\ streams' = streams - 1
    BY <1>1, <2>2, ServerFacts DEF WatcherInv
  <2>. QED BY <1>1, <2>1, <2>2
<1>5. pc["ext-proc"] = "off" => streams' = 0 /\ watcher'["ext-proc"] = "off"
  BY <1>1, ServerFacts
<1>. QED BY <1>1, <1>2, <1>3, <1>4, <1>5, ServerFacts, ServerStep

\* The metrics server and the reconcilers fail or end.
LEMMA RunnableStep ==
    ASSUME ExitInv, NEW r \in Runnables, RunnableFails(r) \/ RunnableEnds(r) PROVE ExitInv'
<1>1. /\ Running /\ r \notin GRPC
      /\ UNCHANGED <<step, signals, code, added, group, result, watcher, stopped, streams>>
      /\ \E to \in {"failed", "ended"} : pc' = [pc EXCEPT ![r] = to]
  BY Zenon DEF RunnableFails, RunnableEnds, Becomes, Fails, run
<1>. QED BY <1>1, OtherMoves DEF States, GRPC

\* The inductive invariant of the end of a process.
THEOREM ExitInvCorrect == Spec => []ExitInv
<1>1. ASSUME ExitInv, Next PROVE ExitInv'
  <2>1. CASE Steps
    <3>1. CancelGroup => UNCHANGED exitVars
      BY Zenon DEF CancelGroup, exitVars, run, servers
    <3>. QED BY <1>1, <2>1, <3>1, ExitFrame, RunStep, StartGroupStep, SelectStep, GroupReturnedStep,
                StartReturnsStep DEF Steps
  <2>2. CASE Serving
    BY <1>1, <2>2, AsRunnableStep, ListenStep, ServeStep, WatcherStep, ServeEndsStep, RunnableStep
    DEF Serving
  <2>3. CASE Signal \/ GraceExpires \/ StreamOpens \/ StreamEnds
    BY <1>1, <2>3, SignalStep, StartReturnsStep, StreamStep
  <2>4. CASE (\E s \in GRPC : ServeFails(s)) \/ (\E r \in Runnables : RunnableFails(r))
    BY <1>1, <2>4, ServeEndsStep, RunnableStep
  <2>5. CASE Reconcile \/ Exited
    <3>1. UNCHANGED exitVars
      BY <2>5, Zenon DEF Reconcile, Exited, exitVars, vars, run, manager, servers
    <3>. QED BY <1>1, <3>1, ExitFrame
  <2>. QED BY <1>1, <2>1, <2>2, <2>3, <2>4, <2>5 DEF Next
<1>2. UNCHANGED vars => UNCHANGED exitVars
  BY Zenon DEF vars, exitVars, run, manager, servers
<1>3. ExitInv /\ [Next]_vars => ExitInv'
  BY <1>1, <1>2, ExitFrame
<1>. QED BY <1>3, ExitInvInit, PTL DEF Spec

\* In every order of signals, failures, starts and stops, a process that exits
\* with 0 had one signal and cut no stream of a server that was serving.
THEOREM CleanExitCorrect == Spec => []CleanExit
<1>1. ExitInv => CleanExit
  BY DEF ExitInv
<1>. QED BY <1>1, ExitInvCorrect, PTL

-----------------------------------------------------------------------------
(* The sidecar.                                                             *)

\* The list whose adapters a thread may touch in the loop it is in.
Touchable(t) == IF phase[t] = "load" THEN listed.exist ELSE listed.notExist

\* What a thread holds of a list, of whatever version of the file, was listed.
HeldListed ==
    /\ config.exist \subseteq listed.exist /\ config.notExist \subseteq listed.notExist
    /\ \A t \in Thread :
        /\ at[t] = "drop" => kept[t] \subseteq Touchable(t)
        /\ at[t] \in {"next", "post"} => todo[t] \subseteq Touchable(t)
        /\ at[t] = "post" => item[t] \in Touchable(t)

SidecarInv == TypeOK /\ HeldListed

\* A step touches only listed adapters while the server is up.
Touches ==
    up => /\ registered' \ registered \subseteq listed.exist
          /\ up' => registered \ registered' \subseteq listed.notExist

\* A new container and a server without adapters.
LEMMA SidecarInvInit == SidecarInit => SidecarInv
<1> SUFFICES ASSUME SidecarInit PROVE SidecarInv
  OBVIOUS
<1>1. TypeOK
  <2>1. up \in BOOLEAN /\ watching \in BOOLEAN /\ event \in BOOLEAN
    BY Zenon DEF SidecarInit
  <2>. QED BY <2>1, SidecarAssumption DEF SidecarInit, TypeOK, All, Thread, Config, ToLoad
<1>2. HeldListed
  BY DEF SidecarInit, HeldListed, All, Thread
<1>. QED BY <1>1, <1>2 DEF SidecarInv

\* A new version of the file only adds to what was ever listed.
LEMMA ConfigChangesStep == ASSUME SidecarInv, ConfigChanges PROVE SidecarInv' /\ Touches
<1>1. /\ config' \in Config
      /\ UNCHANGED <<registered, up, at, phase, kept, todo, item, watching, faults>>
      /\ changes < MaxChanges /\ changes' = changes + 1 /\ event' = watching
      /\ wanted' = wanted \cup ToLoad(config')
      /\ listed' = [exist |-> listed.exist \cup config'.exist,
                    notExist |-> listed.notExist \cup config'.notExist]
  BY DEF ConfigChanges, server, thread
<1>2. /\ listed.exist \subseteq listed'.exist /\ listed.notExist \subseteq listed'.notExist
      /\ config'.exist \subseteq listed'.exist /\ config'.notExist \subseteq listed'.notExist
  BY <1>1
<1>3. TypeOK'
  <2>1. listed' \in Config /\ wanted' \subseteq Adapter
    BY <1>1 DEF SidecarInv, TypeOK, Config, ToLoad
  <2>2. changes' \in 0..MaxChanges
    <3>1. changes \in 0..MaxChanges /\ MaxChanges \in Nat
      BY SidecarAssumption DEF SidecarInv, TypeOK
    <3>2. changes < MaxChanges /\ changes' = changes + 1
      BY <1>1, Zenon
    <3>. QED BY <3>1, <3>2
  <2>3. up' \in BOOLEAN /\ watching' \in BOOLEAN /\ event' \in BOOLEAN
    BY <1>1, Zenon DEF SidecarInv, TypeOK
  <2>. QED BY <1>1, <2>1, <2>2, <2>3 DEF SidecarInv, TypeOK
<1>4. \A t \in Thread : Touchable(t) \subseteq Touchable(t)'
  BY <1>1, <1>2 DEF Touchable
<1>5. HeldListed'
  BY <1>1, <1>2, <1>4 DEF SidecarInv, HeldListed
<1>. QED BY <1>1, <1>3, <1>5 DEF SidecarInv, Touches

\* The server and the container start and stop; a restarted sidecar has read nothing.
LEMMA RestartsStep ==
    ASSUME SidecarInv, ServerStarts \/ ServerCrashes \/ SidecarRestarts
    PROVE  SidecarInv' /\ Touches
<1>1. CASE ServerStarts \/ ServerCrashes
  <2>1. /\ UNCHANGED <<config, at, phase, kept, todo, item, watching, event, changes, wanted, listed>>
        /\ up' \in BOOLEAN /\ (registered' = registered \/ (registered' = {} /\ ~up'))
        /\ (UNCHANGED faults) \/ (faults < MaxFaults /\ faults' = faults + 1)
    BY <1>1, Zenon DEF ServerStarts, ServerCrashes, Fault, thread, history
  <2>2. faults' \in 0..MaxFaults
    BY <2>1, SidecarAssumption DEF SidecarInv, TypeOK
  <2>3. TypeOK'
    BY <2>1, <2>2 DEF SidecarInv, TypeOK
  <2>4. HeldListed'
    BY <2>1 DEF SidecarInv, HeldListed, Touchable
  <2>5. Touches
    BY <2>1 DEF Touches
  <2>. QED BY <2>3, <2>4, <2>5 DEF SidecarInv
<1>2. CASE SidecarRestarts
  <2>1. /\ UNCHANGED <<config, registered, up, changes, wanted, listed>>
        /\ faults < MaxFaults /\ faults' = faults + 1
        /\ at' = All("idle") /\ phase' = All("load") /\ kept' = All({})
        /\ todo' = All({}) /\ item' = All(NoAdapter)
        /\ watching' = FALSE /\ event' = FALSE
    BY <1>2, Zenon DEF SidecarRestarts, Fault, server, history
  <2>2. faults' \in 0..MaxFaults
    <3>1. faults \in 0..MaxFaults /\ MaxFaults \in Nat
      BY SidecarAssumption DEF SidecarInv, TypeOK
    <3>2. faults < MaxFaults /\ faults' = faults + 1
      BY <2>1, Zenon
    <3>. QED BY <3>1, <3>2
  <2>3. watching' \in BOOLEAN /\ event' \in BOOLEAN
    BY <2>1, Zenon
  <2>4. TypeOK'
    BY <2>1, <2>2, <2>3, SidecarAssumption DEF SidecarInv, TypeOK, All
  <2>5. HeldListed'
    BY <2>1 DEF SidecarInv, HeldListed, All
  <2>. QED BY <2>1, <2>4, <2>5 DEF SidecarInv, Touches
<1>. QED BY <1>1, <1>2

\* A call of reconcile begins with no list in hand.
LEMMA BeginStep == ASSUME SidecarInv, NEW t \in Thread, Begin(t) PROVE SidecarInv' /\ Touches
<1>1. /\ UNCHANGED <<config, registered, up, kept, todo, item, changes, faults, wanted, listed>>
      /\ at[t] = "idle"
      /\ \/ at' = [at EXCEPT ![t] = "keep"] /\ phase' = [phase EXCEPT ![t] = "load"]
         \/ UNCHANGED <<at, phase>>
      /\ watching' = watching \/ watching' = TRUE
      /\ event' = event \/ event' = FALSE
  BY Zenon DEF Begin, Goto, server, history
<1>2. watching' \in BOOLEAN /\ event' \in BOOLEAN /\ up' \in BOOLEAN
  BY <1>1, Zenon DEF SidecarInv, TypeOK
<1>3. TypeOK'
  BY <1>1, <1>2 DEF SidecarInv, TypeOK
<1>4. HeldListed'
  BY <1>1 DEF SidecarInv, TypeOK, HeldListed, Touchable
<1>. QED BY <1>1, <1>3, <1>4 DEF SidecarInv, Touches

\* A read of a list finds what the file has now, or nothing.
LEMMA ReadsListed ==
    ASSUME SidecarInv, NEW S \in SUBSET Adapter, NEW got, Reads(S, got)
    PROVE  got \subseteq S /\ faults' \in 0..MaxFaults
BY SidecarAssumption DEF Reads, Fault, SidecarInv, TypeOK

\* The first read of a loop.
LEMMA ReadKeptStep == ASSUME SidecarInv, NEW t \in Thread, ReadKept(t) PROVE SidecarInv' /\ Touches
<1>1. /\ UNCHANGED <<config, registered, up, phase, todo, item, watching, event, changes, wanted, listed>>
      /\ at[t] = "keep" /\ at' = [at EXCEPT ![t] = "drop"]
  BY Zenon DEF ReadKept, Goto, server, history
<1> DEFINE S == IF phase[t] = "load" THEN config.exist ELSE config.notExist
<1>2. PICK got \in SUBSET Adapter : Reads(S, got) /\ kept' = [kept EXCEPT ![t] = got]
  BY DEF ReadKept
<1>3. S \in SUBSET Adapter /\ S \subseteq Touchable(t)
  BY DEF SidecarInv, TypeOK, Config, HeldListed, Touchable
<1>4. got \subseteq Touchable(t) /\ faults' \in 0..MaxFaults
  BY <1>2, <1>3, ReadsListed
<1>5. TypeOK'
  BY <1>1, <1>2, <1>4 DEF SidecarInv, TypeOK
<1>6. HeldListed'
  BY <1>1, <1>2, <1>4 DEF SidecarInv, TypeOK, HeldListed, Touchable
<1>. QED BY <1>1, <1>5, <1>6 DEF SidecarInv, Touches

\* The second read only takes away from the first.
LEMMA ReadDroppedStep ==
    ASSUME SidecarInv, NEW t \in Thread, ReadDropped(t) PROVE SidecarInv' /\ Touches
<1>1. /\ UNCHANGED <<config, registered, up, phase, item, watching, event, changes, wanted, listed>>
      /\ at[t] = "drop" /\ at' = [at EXCEPT ![t] = "next"] /\ kept' = [kept EXCEPT ![t] = {}]
  BY Zenon DEF ReadDropped, Goto, server, history
<1> DEFINE S == IF phase[t] = "load" THEN config.notExist ELSE config.exist
<1>2. PICK got \in SUBSET Adapter :
          Reads(S, got) /\ todo' = [todo EXCEPT ![t] = kept[t] \ got]
  BY DEF ReadDropped
<1>3. S \in SUBSET Adapter
  BY DEF SidecarInv, TypeOK, Config
<1>4. faults' \in 0..MaxFaults
  BY <1>2, <1>3, ReadsListed
<1>5. TypeOK'
  BY <1>1, <1>2, <1>4 DEF SidecarInv, TypeOK
<1>6. HeldListed'
  BY <1>1, <1>2 DEF SidecarInv, TypeOK, HeldListed, Touchable
<1>. QED BY <1>1, <1>5, <1>6 DEF SidecarInv, Touches

\* An adapter of the loop is passed over or taken up.
LEMMA CheckRegisteredStep ==
    ASSUME SidecarInv, NEW t \in Thread, CheckRegistered(t) PROVE SidecarInv' /\ Touches
<1>1. /\ UNCHANGED <<config, registered, up, phase, kept, watching, event, changes, wanted, listed>>
      /\ at[t] = "next"
  BY Zenon DEF CheckRegistered, server, history
<1>2. PICK a \in todo[t], got \in {registered, {}} :
          /\ Reads(IF up THEN registered ELSE {}, got)
          /\ todo' = [todo EXCEPT ![t] = @ \ {a}]
          /\ \/ UNCHANGED <<at, item>>
             \/ at' = [at EXCEPT ![t] = "post"] /\ item' = [item EXCEPT ![t] = a]
  BY Zenon DEF CheckRegistered, Goto
<1>3. faults' \in 0..MaxFaults
  <2>1. (IF up THEN registered ELSE {}) \in SUBSET Adapter
    BY DEF SidecarInv, TypeOK
  <2>. QED BY <1>2, <2>1, ReadsListed
<1>4. a \in Adapter /\ a \in Touchable(t)
  BY <1>1, <1>2 DEF SidecarInv, TypeOK, HeldListed
<1>5. TypeOK'
  <2>1. up' \in BOOLEAN /\ watching' \in BOOLEAN /\ event' \in BOOLEAN
    BY <1>1, Zenon DEF SidecarInv, TypeOK
  <2>2. todo' \in [Thread -> SUBSET Adapter]
    BY <1>2 DEF SidecarInv, TypeOK
  <2>3. /\ at' \in [Thread -> {"idle", "keep", "drop", "next", "post", "dead"}]
        /\ item' \in [Thread -> Adapter \cup {NoAdapter}]
    BY <1>2, <1>4 DEF SidecarInv, TypeOK
  <2>4. \A u \in Thread : /\ item'[u] = NoAdapter <=> at'[u] # "post"
                          /\ at'[u] \in {"next", "post"} \/ todo'[u] = {}
    <3>1. a # NoAdapter
      BY <1>4, SidecarAssumption
    <3>2. ASSUME NEW u \in Thread
          PROVE  /\ item'[u] = NoAdapter <=> at'[u] # "post"
                 /\ at'[u] \in {"next", "post"} \/ todo'[u] = {}
      <4>1. CASE u = t
        <5>1. /\ at \in [Thread -> {"idle", "keep", "drop", "next", "post", "dead"}]
              /\ item \in [Thread -> Adapter \cup {NoAdapter}]
              /\ item[t] = NoAdapter <=> at[t] # "post"
          BY Zenon DEF SidecarInv, TypeOK
        <5>2. \/ at'[t] = "next" /\ item'[t] = NoAdapter
              \/ at'[t] = "post" /\ item'[t] = a
          BY <1>1, <1>2, <5>1
        <5>. QED BY <3>1, <4>1, <5>2
      <4>2. CASE u # t
        BY <1>1, <1>2, <4>2 DEF SidecarInv, TypeOK
      <4>. QED BY <4>1, <4>2
    <3>. QED BY <3>2, Zenon
  <2>. QED BY <1>1, <1>3, <2>1, <2>2, <2>3, <2>4 DEF SidecarInv, TypeOK
<1>6. HeldListed'
  <2>1. \A u \in Thread : Touchable(u)' = Touchable(u)
    BY <1>1, Zenon DEF Touchable
  <2>2. ASSUME NEW u \in Thread
        PROVE  /\ at'[u] = "drop" => kept'[u] \subseteq Touchable(u)
               /\ at'[u] \in {"next", "post"} => todo'[u] \subseteq Touchable(u)
               /\ at'[u] = "post" => item'[u] \in Touchable(u)
    <3>1. CASE u = t
      BY <1>1, <1>2, <1>4, <3>1 DEF SidecarInv, TypeOK, HeldListed
    <3>2. CASE u # t
      BY <1>1, <1>2, <3>2 DEF SidecarInv, TypeOK, HeldListed
    <3>. QED BY <3>1, <3>2
  <2>. QED BY <1>1, <2>1, <2>2 DEF SidecarInv, HeldListed
<1>. QED BY <1>1, <1>5, <1>6 DEF SidecarInv, Touches

\* The watcher's thread ends and holds nothing any more.
LEMMA WatcherDiesStep == ASSUME SidecarInv, WatcherDies PROVE SidecarInv' /\ Touches
<1>1. /\ UNCHANGED <<config, registered, up, phase, kept, item, watching, event, changes, wanted, listed>>
      /\ at["watch"] = "next" /\ at' = [at EXCEPT !["watch"] = "dead"]
      /\ todo' = [todo EXCEPT !["watch"] = {}]
      /\ faults < MaxFaults /\ faults' = faults + 1
  BY Zenon DEF WatcherDies, Goto, Fault, server, history
<1>2. faults' \in 0..MaxFaults
  <2>1. faults \in 0..MaxFaults /\ MaxFaults \in Nat
    BY SidecarAssumption, Zenon DEF SidecarInv, TypeOK
  <2>. QED BY <1>1, <2>1
<1>3. TypeOK'
  BY <1>1, <1>2 DEF SidecarInv, TypeOK, Thread
<1>4. HeldListed'
  BY <1>1 DEF SidecarInv, TypeOK, HeldListed, Touchable, Thread
<1>. QED BY <1>1, <1>3, <1>4 DEF SidecarInv, Touches

\* The request loads or unloads the adapter in hand.
LEMMA PostAdapterStep ==
    ASSUME SidecarInv, NEW t \in Thread, Post(t) PROVE SidecarInv' /\ Touches
<1>1. /\ UNCHANGED <<config, up, phase, kept, todo, watching, event, changes, wanted, listed>>
      /\ at[t] = "post" /\ at' = [at EXCEPT ![t] = "next"] /\ item' = [item EXCEPT ![t] = NoAdapter]
      /\ \/ /\ registered' = IF phase[t] = "load" THEN registered \cup {item[t]}
                             ELSE registered \ {item[t]}
            /\ UNCHANGED faults
         \/ UNCHANGED <<registered, faults>>
         \/ faults < MaxFaults /\ faults' = faults + 1 /\ UNCHANGED registered
  BY Zenon DEF Post, Goto, Fault, history
<1>2. item[t] \in Adapter /\ item[t] \in Touchable(t)
  BY <1>1 DEF SidecarInv, TypeOK, HeldListed
<1>3. faults' \in 0..MaxFaults
  <2>1. faults \in 0..MaxFaults /\ MaxFaults \in Nat
    BY SidecarAssumption, Zenon DEF SidecarInv, TypeOK
  <2>2. faults' = faults \/ (faults < MaxFaults /\ faults' = faults + 1)
    BY <1>1, Zenon
  <2>. QED BY <2>1, <2>2
<1>4. TypeOK'
  <2>1. registered' \subseteq Adapter
    BY <1>1, <1>2 DEF SidecarInv, TypeOK
  <2>. QED BY <1>1, <1>3, <2>1 DEF SidecarInv, TypeOK
<1>5. HeldListed'
  BY <1>1 DEF SidecarInv, TypeOK, HeldListed, Touchable
<1>6. Touches
  BY <1>1, <1>2 DEF Touches, Touchable
<1>. QED BY <1>4, <1>5, <1>6 DEF SidecarInv

\* The end of a loop, with nothing in hand.
LEMMA LoopEndsStep == ASSUME SidecarInv, NEW t \in Thread, LoopEnds(t) PROVE SidecarInv' /\ Touches
<1>1. /\ UNCHANGED <<config, registered, up, kept, todo, item, event, changes, faults, wanted, listed>>
      /\ at[t] = "next" /\ todo[t] = {}
      /\ \/ at' = [at EXCEPT ![t] = "keep"] /\ phase' = [phase EXCEPT ![t] = "unload"]
         \/ at' = [at EXCEPT ![t] = "idle"] /\ UNCHANGED phase
      /\ watching' = watching \/ watching' = TRUE
  BY Zenon DEF LoopEnds, Goto, server, history
<1>2. watching' \in BOOLEAN /\ event' \in BOOLEAN /\ up' \in BOOLEAN
  BY <1>1, Zenon DEF SidecarInv, TypeOK
<1>3. TypeOK'
  BY <1>1, <1>2 DEF SidecarInv, TypeOK
<1>4. HeldListed'
  BY <1>1 DEF SidecarInv, TypeOK, HeldListed, Touchable
<1>. QED BY <1>1, <1>3, <1>4 DEF SidecarInv, Touches

\* Every step preserves the invariant and touches only listed adapters.
LEMMA SidecarStep == ASSUME SidecarInv, SidecarNext PROVE SidecarInv' /\ Touches
BY ConfigChangesStep, RestartsStep, BeginStep, ReadKeptStep, ReadDroppedStep,
   CheckRegisteredStep, WatcherDiesStep, PostAdapterStep, LoopEndsStep
DEF SidecarNext, reconcile

\* The inductive invariant: what the two threads hold was listed.
THEOREM SidecarInvCorrect == SidecarSpec => []SidecarInv
<1>1. ASSUME SidecarInv, UNCHANGED sidecarVars PROVE SidecarInv'
  <2>1. UNCHANGED <<config, registered, up, at, phase, kept, todo, item, watching, event,
                    changes, faults, wanted, listed>>
    BY <1>1, Zenon DEF sidecarVars, server, thread, history
  <2>. QED BY <1>1, <2>1 DEF SidecarInv, TypeOK, HeldListed, Touchable
<1>2. SidecarInv /\ [SidecarNext]_sidecarVars => SidecarInv'
  BY <1>1, SidecarStep
<1>. QED BY <1>2, SidecarInvInit, PTL DEF SidecarSpec

\* For any adapters, changes of the file, failures and restarts: reconcile loads
\* only what ensureExist has held and unloads only what ensureNotExist has held.
THEOREM TouchesOnlyListedCorrect == SidecarSpec => TouchesOnlyListed
<1>1. SidecarInv /\ [SidecarNext]_sidecarVars =>
          [up => /\ registered' \ registered \subseteq listed.exist
                 /\ up' => registered \ registered' \subseteq listed.notExist]_sidecarVars
  BY SidecarStep DEF Touches
<1>. QED BY <1>1, SidecarInvCorrect, PTL DEF SidecarSpec, TouchesOnlyListed
=============================================================================
