--------------------------- MODULE VolumeIDProofs ---------------------------
(***************************************************************************)
(* Proofs about VolumeID, for volumes of any names and storage classes     *)
(* with any source and subDir: strings of any length and any tokens.       *)
(***************************************************************************)
EXTENDS VolumeID, Integers, FiniteSetTheorems, SequenceTheorems, WellFoundedInduction,
        TLAPS

Strings == Seq(Tokens)

-----------------------------------------------------------------------------
(* Every set of natural numbers has a least element. *)
LEMMA Least ==
  ASSUME NEW T \in SUBSET Nat, T # {}
  PROVE  \E x \in T : \A y \in T : x <= y
<1> DEFINE R == {ss \in Nat \X Nat : ss[1] < ss[2]}
<1>1. IsWellFoundedOn(R, Nat)
  BY NatLessThanWellFounded DEF OpToRel
<1>2. \E x \in T : \A y \in T : ~ (<<y, x>> \in R)
  <2> HIDE DEF R
  <2> QED BY <1>1, WFMin, Zenon
<1>3. PICK x \in T : \A y \in T : ~ (<<y, x>> \in R)
  BY <1>2
<1>4. ASSUME NEW y \in T PROVE x <= y
  <2>1. ~(y < x)
    BY <1>3
  <2> QED BY <2>1
<1> QED BY <1>4

(* Every bounded one has a greatest element. *)
LEMMA Greatest ==
  ASSUME NEW n \in Nat, NEW T \in SUBSET (1..n), T # {}
  PROVE  \E x \in T : \A y \in T : x >= y
<1> DEFINE U == {n - x : x \in T}
<1>1. \A x \in T : x \in Nat /\ n - x \in Nat
  OBVIOUS
<1>2. U \in SUBSET Nat /\ U # {}
  BY <1>1
<1>3. PICK u \in U : \A y \in U : u <= y
  <2> HIDE DEF U
  <2> QED BY <1>2, Least
<1>4. PICK x \in T : u = n - x
  OBVIOUS
<1>5. ASSUME NEW y \in T PROVE x >= y
  <2>1. n - y \in U
    OBVIOUS
  <2>2. n - x <= n - y
    BY <1>3, <1>4, <2>1
  <2> QED BY <1>1, <2>2
<1> QED BY <1>5

(* Min and Max are what their names say. *)
LEMMA MinMax ==
  ASSUME NEW n \in Nat, NEW T \in SUBSET (1..n), T # {}
  PROVE  /\ Min(T) \in T /\ \A y \in T : Min(T) <= y
         /\ Max(T) \in T /\ \A y \in T : Max(T) >= y
<1>1. \E x \in T : \A y \in T : x <= y
  BY Least
<1>2. \E x \in T : \A y \in T : x >= y
  BY Greatest
<1> QED BY <1>1, <1>2 DEF Min, Max

-----------------------------------------------------------------------------
(* A string without its separator is a segment of its own, and a segment   *)
(* never contains the separator.                                           *)
LEMMA BeforeHasNoSeparator ==
  ASSUME NEW s \in Strings, NEW sep \in Tokens
  PROVE  /\ Before(s, sep) \in Strings
         /\ After(s, sep) \in Strings
         /\ sep \notin ToSet(Before(s, sep))
         /\ sep \notin ToSet(s) => Before(s, sep) = s
<1> USE DEF Strings
<1>1. CASE sep \notin ToSet(s)
  <2>1. Cut(s, sep) = Len(s) + 1
    BY <1>1 DEF Cut
  <2>2. Before(s, sep) = s /\ After(s, sep) = <<>>
    BY <2>1 DEF Before, After
  <2> QED BY <1>1, <2>2
<1>2. CASE sep \in ToSet(s)
  <2> DEFINE T == {i \in DOMAIN s : s[i] = sep}
  <2>1. T \in SUBSET (1..Len(s)) /\ T # {}
    BY <1>2 DEF ToSet
  <2>2. Min(T) \in T /\ \A y \in T : Min(T) <= y
    <3>1. Len(s) \in Nat
      OBVIOUS
    <3> HIDE DEF T
    <3> QED BY <2>1, <3>1, MinMax, Zenon
  <2>3. Cut(s, sep) = Min(T)
    BY <1>2 DEF Cut
  <2>4. /\ Cut(s, sep) \in 1..Len(s)
        /\ \A i \in 1..Len(s) : i < Cut(s, sep) => s[i] # sep
    <3>1. \A i \in 1..Len(s) : s[i] = sep => i \in T
      OBVIOUS
    <3>2. \A i \in T : i \in 1..Len(s)
      OBVIOUS
    <3> HIDE DEF T
    <3>3. Cut(s, sep) \in 1..Len(s)
      BY <2>2, <2>3, <3>2
    <3>4. ASSUME NEW i \in 1..Len(s), i < Cut(s, sep), s[i] = sep PROVE FALSE
      <4>1. Cut(s, sep) <= i
        BY <3>1, <3>4, <2>2, <2>3
      <4> QED BY <4>1, <3>3, <3>4
    <3> QED BY <3>3, <3>4
  <2> HIDE DEF T
  <2>5. Before(s, sep) \in Strings /\ After(s, sep) \in Strings
    BY <2>4 DEF Before, After
  <2>6. sep \notin ToSet(Before(s, sep))
    BY <2>4 DEF Before, ToSet
  <2> QED BY <1>2, <2>5, <2>6
<1> QED BY <1>1, <1>2

(* The first separator of a \o sep \o b is the one after a, if a has none. *)
LEMMA CutAtSeparator ==
  ASSUME NEW a \in Strings, NEW b \in Strings, NEW sep \in Tokens, sep \notin ToSet(a)
  PROVE  /\ Before(a \o (<<sep>> \o b), sep) = a
         /\ After(a \o (<<sep>> \o b), sep) = b
<1> USE DEF Strings
<1> DEFINE s == a \o (<<sep>> \o b)
           T == {i \in DOMAIN s : s[i] = sep}
<1>1. s \in Strings /\ Len(s) = Len(a) + 1 + Len(b)
  OBVIOUS
<1>2. /\ \A i \in 1..Len(a) : s[i] = a[i] /\ s[i] # sep
      /\ s[Len(a) + 1] = sep
      /\ \A i \in 1..Len(b) : s[Len(a) + 1 + i] = b[i]
  <2>1. \A i \in 1..Len(a) : a[i] # sep
    BY DEF ToSet
  <2>2. /\ <<sep>> \o b \in Strings
        /\ Len(<<sep>> \o b) = 1 + Len(b)
        /\ (<<sep>> \o b)[1] = sep
        /\ \A i \in 1..Len(b) : (<<sep>> \o b)[1 + i] = b[i]
    OBVIOUS
  <2> DEFINE t == <<sep>> \o b
  <2> HIDE DEF t
  <2>3. /\ \A i \in 1..Len(a) : (a \o t)[i] = a[i]
        /\ \A i \in 1..Len(t) : (a \o t)[Len(a) + i] = t[i]
    BY <2>2 DEF t
  <2>4. s = a \o t
    BY DEF t
  <2>5. t \in Strings /\ Len(t) = 1 + Len(b) /\ t[1] = sep /\ \A i \in 1..Len(b) : t[1 + i] = b[i]
    BY <2>2 DEF t
  <2>6. ASSUME NEW i \in 1..Len(b) PROVE s[Len(a) + 1 + i] = b[i]
    <3>1. 1 + i \in 1..Len(t) /\ Len(a) + 1 + i = Len(a) + (1 + i)
      BY <2>5
    <3> QED BY <2>3, <2>4, <2>5, <3>1
  <2> HIDE DEF s
  <2> QED BY <2>1, <2>3, <2>4, <2>5, <2>6
<1> HIDE DEF s
<1>3. T \in SUBSET (1..Len(s)) /\ Len(a) + 1 \in T /\ sep \in ToSet(s)
  BY <1>1, <1>2 DEF ToSet
<1>4. Min(T) \in T /\ \A y \in T : Min(T) <= y
  <2>1. Len(s) \in Nat /\ T # {}
    BY <1>1, <1>3
  <2> HIDE DEF T
  <2> QED BY <1>3, <2>1, MinMax, Zenon
<1>5. Min(T) = Len(a) + 1
  <2>1. Min(T) \in 1..Len(s) /\ s[Min(T)] = sep /\ Min(T) <= Len(a) + 1
    <3>1. \A i \in T : i \in 1..Len(s) /\ s[i] = sep
      BY <1>1
    <3> HIDE DEF T
    <3> QED BY <1>3, <1>4, <3>1
  <2> HIDE DEF T
  <2> QED BY <2>1, <1>2, <1>1
<1>6. Cut(s, sep) = Len(a) + 1
  BY <1>3, <1>5 DEF Cut
<1>7. Before(s, sep) = a
  BY <1>1, <1>2, <1>6 DEF Before
<1>8. After(s, sep) = b
  <2>1. After(s, sep) = SubSeq(s, Len(a) + 2, Len(s))
    BY <1>1, <1>6 DEF After
  <2>2. /\ Len(After(s, sep)) = Len(b) /\ After(s, sep) \in Strings
        /\ \A i \in 1..Len(b) : After(s, sep)[i] = s[Len(a) + 1 + i]
    BY <1>1, <2>1
  <2> QED BY <1>2, <2>2
<1> QED BY <1>7, <1>8 DEF s

-----------------------------------------------------------------------------
(* s is t with nothing but slashes around it, d of them before it. *)
Shift(s, t, d) ==
  /\ d + Len(t) <= Len(s)
  /\ \A i \in 1..Len(t) : t[i] = s[i + d]
  /\ \A i \in 1..Len(s) : s[i] # "/" => i - d \in 1..Len(t)

Trimmed(t) == Len(t) > 0 => t[1] # "/" /\ t[Len(t)] # "/"

(* Trim leaves the string without the slashes around it. *)
LEMMA TrimShift ==
  ASSUME NEW s \in Strings
  PROVE  /\ Trim(s, "/") \in Strings
         /\ Trimmed(Trim(s, "/"))
         /\ \E d \in Nat : Shift(s, Trim(s, "/"), d)
<1> USE DEF Strings
<1> DEFINE kept == {i \in DOMAIN s : s[i] # "/"}
<1>1. CASE kept = {}
  <2>1. Trim(s, "/") = <<>>
    BY <1>1 DEF Trim
  <2>2. \A i \in 1..Len(s) : s[i] = "/"
    BY <1>1
  <2>3. Shift(s, <<>>, 0)
    BY <2>2 DEF Shift
  <2>4. <<>> \in Strings /\ Trimmed(<<>>)
    BY DEF Trimmed
  <2> QED BY <2>1, <2>3, <2>4
<1>2. CASE kept # {}
  <2>1. kept \in SUBSET (1..Len(s)) /\ Len(s) \in Nat
    OBVIOUS
  <2>2. /\ Min(kept) \in kept /\ \A y \in kept : Min(kept) <= y
        /\ Max(kept) \in kept /\ \A y \in kept : Max(kept) >= y
    <3> HIDE DEF kept
    <3> QED BY <1>2, <2>1, MinMax, Zenon
  <2>3. PICK lo \in 1..Len(s), hi \in 1..Len(s) : lo = Min(kept) /\ hi = Max(kept)
    <3> HIDE DEF kept
    <3> QED BY <2>1, <2>2
  <2>4. /\ s[lo] # "/" /\ s[hi] # "/" /\ lo <= hi
        /\ \A i \in 1..Len(s) : s[i] # "/" => lo <= i /\ i <= hi
    <3>1. lo \in kept /\ hi \in kept
      BY <2>2, <2>3
    <3>2. \A i \in kept : lo <= i /\ i <= hi
      BY <2>2, <2>3
    <3> QED BY <3>1, <3>2
  <2> DEFINE t == SubSeq(s, lo, hi)
  <2>5. Trim(s, "/") = t
    BY <1>2, <2>3 DEF Trim
  <2>6. t \in Strings /\ Len(t) = hi - lo + 1 /\ \A i \in 1..Len(t) : t[i] = s[i + (lo - 1)]
    BY <2>4
  <2> HIDE DEF t, kept
  <2>7. Trimmed(t)
    <3>1. 1 \in 1..Len(t) /\ Len(t) \in 1..Len(t) /\ 1 + (lo - 1) = lo /\ Len(t) + (lo - 1) = hi
      BY <2>4, <2>6
    <3> QED BY <2>4, <2>6, <3>1 DEF Trimmed
  <2>8. Shift(s, t, lo - 1) /\ lo - 1 \in Nat
    BY <2>4, <2>6 DEF Shift
  <2> QED BY <2>5, <2>6, <2>7, <2>8
<1> QED BY <1>1, <1>2

(* There is only one such string. *)
LEMMA TrimUnique ==
  ASSUME NEW s \in Strings, NEW t \in Strings, NEW d \in Nat, Shift(s, t, d), Trimmed(t)
  PROVE  Trim(s, "/") = t
<1> USE DEF Strings
<1>1. PICK e \in Nat : Shift(s, Trim(s, "/"), e)
  BY TrimShift
<1> DEFINE r == Trim(s, "/")
<1>2. r \in Strings /\ Trimmed(r) /\ Shift(s, r, e)
  BY <1>1, TrimShift
<1> HIDE DEF r
<1>3. CASE Len(t) = 0
  <2>1. Len(r) = 0
    <3>1. SUFFICES ASSUME Len(r) > 0 PROVE FALSE
      BY <1>2
    <3>2. 1 \in 1..Len(r) /\ 1 + e \in 1..Len(s) /\ s[1 + e] # "/"
      BY <1>2, <3>1 DEF Shift, Trimmed
    <3> QED BY <3>2, <1>3 DEF Shift
  <2> QED BY <1>2, <1>3, <2>1 DEF r
<1>4. CASE Len(t) > 0
  <2>1. 1 + d \in 1..Len(s) /\ s[1 + d] # "/" /\ Len(t) + d \in 1..Len(s) /\ s[Len(t) + d] # "/"
    BY <1>4 DEF Shift, Trimmed
  <2>2. 1 + d - e \in 1..Len(r) /\ Len(t) + d - e \in 1..Len(r)
    BY <1>2, <2>1 DEF Shift
  <2>3. 1 + e \in 1..Len(s) /\ s[1 + e] # "/" /\ Len(r) + e \in 1..Len(s) /\ s[Len(r) + e] # "/"
    <3>1. 1 \in 1..Len(r) /\ Len(r) \in 1..Len(r) /\ r[1] # "/" /\ r[Len(r)] # "/"
      BY <1>2, <2>2 DEF Trimmed
    <3>2. r[1] = s[1 + e] /\ r[Len(r)] = s[Len(r) + e]
      BY <1>2, <3>1 DEF Shift
    <3>3. 1 + e \in 1..Len(s) /\ Len(r) + e \in 1..Len(s)
      BY <1>2, <3>1 DEF Shift
    <3> QED BY <3>1, <3>2, <3>3
  <2>4. 1 + e - d \in 1..Len(t) /\ Len(r) + e - d \in 1..Len(t)
    BY <2>3 DEF Shift
  <2>5. e = d /\ Len(r) = Len(t)
    BY <1>2, <2>2, <2>4
  <2> QED BY <1>2, <2>5 DEF Shift, r
<1> QED BY <1>3, <1>4

(* An element of a path is the same in a longer string, if nothing is      *)
(* appended to it.                                                         *)
LEMMA ElementBelow ==
  ASSUME NEW s \in Strings, NEW t \in Strings, NEW d \in Nat,
         d + Len(t) <= Len(s),
         \A i \in 1..Len(t) : t[i] = s[i + d],
         \A i \in 1..Len(s) : i > d /\ s[i] # "/" => i - d \in 1..Len(t),
         NEW i \in 1..Len(t)
  PROVE  Element(t, i) = Element(s, i + d)
<1> USE DEF Strings
<1> DEFINE Run(u, p) == {k \in DOMAIN u : \A j \in p .. p + k - 1 : j \in DOMAIN u /\ u[j] # "/"}
<1>1. ASSUME NEW k \in Run(t, i) PROVE k \in Run(s, i + d) /\ t[i + k - 1] = s[i + d + k - 1]
  <2>1. k \in 1..Len(s)
    BY <1>1
  <2>2. ASSUME NEW j \in i + d .. i + d + k - 1 PROVE j \in 1..Len(s) /\ s[j] # "/"
    <3>1. j - d \in i .. i + k - 1
      BY <2>1, <2>2
    <3>2. j - d \in 1..Len(t) /\ t[j - d] # "/"
      BY <1>1, <3>1
    <3> QED BY <2>1, <2>2, <3>2
  <2>3. i + k - 1 \in i .. i + k - 1
    BY <2>1
  <2>4. i + k - 1 \in 1..Len(t)
    BY <1>1, <2>3
  <2>5. t[i + k - 1] = s[i + d + k - 1]
    <3>1. (i + k - 1) + d = i + d + k - 1
      BY <2>1
    <3> QED BY <2>4, <3>1
  <2> QED BY <2>1, <2>2, <2>5
<1>2. ASSUME NEW k \in Run(s, i + d) PROVE k \in Run(t, i)
  <2>1. k \in 1..Len(s)
    OBVIOUS
  <2>2. ASSUME NEW j \in i .. i + k - 1 PROVE j \in 1..Len(t) /\ t[j] # "/"
    <3>1. j + d \in i + d .. i + d + k - 1
      BY <2>1, <2>2
    <3>2. j + d \in 1..Len(s) /\ s[j + d] # "/"
      BY <1>2, <3>1
    <3>3. j + d - d \in 1..Len(t) /\ j + d - d = j
      BY <2>1, <2>2, <3>2
    <3> QED BY <3>2, <3>3
  <2>3. i + k - 1 \in 1..Len(t)
    BY <2>1, <2>2
  <2> QED BY <2>1, <2>2, <2>3
<1>3. Run(t, i) = Run(s, i + d)
  BY <1>1, <1>2
<1>4. Element(t, i) = [k \in Run(t, i) |-> t[i + k - 1]]
  BY DEF Element
<1>5. Element(s, i + d) = [k \in Run(s, i + d) |-> s[i + d + k - 1]]
  BY DEF Element
<1> HIDE DEF Run
<1> QED BY <1>1, <1>3, <1>4, <1>5

(* The elements of a path are where they were before the slashes. *)
LEMMA ElementShift ==
  ASSUME NEW s \in Strings, NEW t \in Strings, NEW d \in Nat, Shift(s, t, d),
         NEW i \in 1..Len(t)
  PROVE  Element(t, i) = Element(s, i + d)
<1>1. /\ d + Len(t) <= Len(s)
      /\ \A k \in 1..Len(t) : t[k] = s[k + d]
      /\ \A k \in 1..Len(s) : k > d /\ s[k] # "/" => k - d \in 1..Len(t)
  BY DEF Shift
<1> QED BY <1>1, ElementBelow

(* So are the places where they start. *)
LEMMA StartsShift ==
  ASSUME NEW s \in Strings, NEW t \in Strings, NEW d \in Nat, Shift(s, t, d)
  PROVE  /\ \A i \in Starts(t) : i + d \in Starts(s)
         /\ \A i \in Starts(s) : i - d \in Starts(t)
<1> USE DEF Strings
<1>1. ASSUME NEW i \in 1..Len(t), t[i] # "/"
      PROVE  (i = 1 \/ t[i - 1] = "/") <=> (i + d = 1 \/ s[i + d - 1] = "/")
  <2>1. CASE i > 1
    <3>1. i - 1 \in 1..Len(t) /\ i - 1 + d = i + d - 1
      BY <2>1
    <3>2. t[i - 1] = s[i + d - 1]
      BY <3>1 DEF Shift
    <3> QED BY <2>1, <3>2
  <2>2. CASE i = 1
    <3>1. CASE d = 0
      BY <2>2, <3>1
    <3>2. CASE d > 0
      <4>1. d \in 1..Len(s) /\ ~(d - d \in 1..Len(t))
        BY <3>2 DEF Shift
      <4>2. s[d] = "/"
        BY <4>1 DEF Shift
      <4> QED BY <2>2, <3>2, <4>2
    <3> QED BY <3>1, <3>2
  <2> QED BY <2>1, <2>2
<1>2. ASSUME NEW i \in Starts(t) PROVE i + d \in Starts(s)
  <2>1. i \in 1..Len(t) /\ t[i] # "/" /\ (i = 1 \/ t[i - 1] = "/") /\ Element(t, i) # <<".">>
    BY DEF Starts
  <2>2. i + d \in 1..Len(s) /\ s[i + d] = t[i]
    BY <2>1 DEF Shift
  <2>3. Element(s, i + d) = Element(t, i)
    BY <2>1, ElementShift
  <2> QED BY <1>1, <2>1, <2>2, <2>3 DEF Starts
<1>3. ASSUME NEW i \in Starts(s) PROVE i - d \in Starts(t)
  <2>1. i \in 1..Len(s) /\ s[i] # "/" /\ (i = 1 \/ s[i - 1] = "/") /\ Element(s, i) # <<".">>
    BY DEF Starts
  <2>2. i - d \in 1..Len(t) /\ i - d + d = i
    BY <2>1 DEF Shift
  <2>3. t[i - d] = s[i]
    BY <2>2 DEF Shift
  <2>4. Element(t, i - d) = Element(s, i)
    BY <2>2, ElementShift
  <2> QED BY <1>1, <2>1, <2>2, <2>3, <2>4 DEF Starts
<1> QED BY <1>2, <1>3

(* There are finitely many elements, and the depth tells them apart. *)
LEMMA StartsFinite ==
  ASSUME NEW s \in Strings
  PROVE  /\ IsFiniteSet(Starts(s))
         /\ Starts(s) \subseteq 1..Len(s)
         /\ \A i \in Nat : IsFiniteSet({j \in Starts(s) : j <= i})
         /\ \A i \in Nat : Depth(s, i) \in Nat /\ Depth(s, i) <= Cardinality(Starts(s))
<1>1. Starts(s) \in SUBSET (1..Len(s)) /\ Len(s) \in Nat
  BY DEF Starts, Strings
<1>2. IsFiniteSet(1..Len(s))
  BY <1>1, FS_Interval
<1>3. IsFiniteSet(Starts(s))
  BY <1>1, <1>2, FS_Subset
<1>4. ASSUME NEW i \in Nat
      PROVE  /\ IsFiniteSet({j \in Starts(s) : j <= i})
             /\ Depth(s, i) \in Nat
             /\ Depth(s, i) <= Cardinality(Starts(s))
  <2> DEFINE T == {j \in Starts(s) : j <= i}
  <2>1. T \in SUBSET Starts(s)
    OBVIOUS
  <2>2. Depth(s, i) = Cardinality(T)
    BY DEF Depth
  <2> HIDE DEF T
  <2>3. IsFiniteSet(T) /\ Cardinality(T) <= Cardinality(Starts(s))
    BY <1>3, <2>1, FS_Subset
  <2>4. Cardinality(T) \in Nat
    BY <2>3, FS_CardinalityType
  <2> QED BY <2>2, <2>3, <2>4 DEF T
<1> QED BY <1>1, <1>3, <1>4

(* Of two elements the later one is deeper. *)
LEMMA DepthGrows ==
  ASSUME NEW s \in Strings, NEW i \in Starts(s), NEW j \in Starts(s), i < j
  PROVE  Depth(s, i) < Depth(s, j)
<1> DEFINE A == {k \in Starts(s) : k <= i}
           B == {k \in Starts(s) : k <= j}
<1>1. Starts(s) \subseteq Nat
  BY StartsFinite DEF Strings
<1>2. IsFiniteSet(A) /\ IsFiniteSet(B) /\ Cardinality(A) \in Nat /\ Cardinality(B) \in Nat
  BY <1>1, StartsFinite, FS_CardinalityType
<1>3. A \in SUBSET B
  BY <1>1
<1>4. j \in B /\ j \notin A
  BY <1>1
<1>5. Depth(s, i) = Cardinality(A) /\ Depth(s, j) = Cardinality(B)
  BY DEF Depth
<1> HIDE DEF A, B
<1>6. Cardinality(A) <= Cardinality(B) /\ (Cardinality(B) = Cardinality(A) => B = A)
  BY <1>2, <1>3, FS_Subset
<1>7. Cardinality(A) # Cardinality(B)
  BY <1>4, <1>6
<1> QED BY <1>2, <1>5, <1>6, <1>7

(* Slashes around a path do not change the depth of its elements. *)
LEMMA DepthShift ==
  ASSUME NEW s \in Strings, NEW t \in Strings, NEW d \in Nat, Shift(s, t, d), NEW i \in Starts(t)
  PROVE  Depth(t, i) = Depth(s, i + d)
<1> DEFINE A == {j \in Starts(t) : j <= i}
           B == {j \in Starts(s) : j <= i + d}
           f == [j \in A |-> j + d]
<1>1. /\ \A j \in Starts(t) : j \in Nat /\ j + d \in Starts(s)
      /\ \A j \in Starts(s) : j \in Nat /\ j - d \in Starts(t)
  <2>1. Starts(s) \subseteq 1..Len(s) /\ Starts(t) \subseteq 1..Len(t)
    BY StartsFinite
  <2> QED BY <2>1, StartsShift
<1>2. IsFiniteSet(A)
  BY <1>1, StartsFinite
<1>3. f \in [A -> B]
  BY <1>1
<1>4. \A j, k \in A : f[j] = f[k] => j = k
  BY <1>1
<1>5. ASSUME NEW k \in B PROVE \E j \in A : f[j] = k
  <2>1. k - d \in A /\ k - d + d = k
    BY <1>1
  <2> QED BY <2>1
<1>6. Depth(t, i) = Cardinality(A) /\ Depth(s, i + d) = Cardinality(B)
  BY DEF Depth
<1> HIDE DEF A, B, f
<1>7. f \in Bijection(A, B)
  BY <1>3, <1>4, <1>5 DEF Bijection, Injection, Surjection, IsInjective
<1>8. Cardinality(B) = Cardinality(A)
  BY <1>2, <1>7, FS_Bijection DEF ExistsBijection
<1> QED BY <1>6, <1>8

(* Slashes around a path change neither its elements nor its validity. *)
LEMMA ElementsShift ==
  ASSUME NEW s \in Strings, NEW t \in Strings, NEW d \in Nat, Shift(s, t, d)
  PROVE  Elements(t) = Elements(s) /\ (ValidPath(t) <=> ValidPath(s))
<1>1. /\ \A i \in Starts(t) : i + d \in Starts(s) /\ i \in 1..Len(t)
      /\ \A i \in Starts(s) : i - d \in Starts(t) /\ i \in Nat /\ i - d + d = i
  <2>1. Starts(s) \subseteq 1..Len(s) /\ Starts(t) \subseteq 1..Len(t)
    BY StartsFinite
  <2> QED BY <2>1, StartsShift
<1>2. \A i \in Starts(t) : Element(t, i) = Element(s, i + d) /\ Depth(t, i) = Depth(s, i + d)
  BY <1>1, ElementShift, DepthShift
<1>3. Elements(t) \subseteq Elements(s)
  BY <1>1, <1>2 DEF Elements
<1>4. Elements(s) \subseteq Elements(t)
  <2>1. ASSUME NEW i \in Starts(s) PROVE <<Depth(s, i), Element(s, i)>> \in Elements(t)
    <3>1. Element(t, i - d) = Element(s, i) /\ Depth(t, i - d) = Depth(s, i) /\ i - d \in Starts(t)
      BY <1>1, <1>2
    <3> QED BY <3>1 DEF Elements
  <2> QED BY <2>1 DEF Elements
<1>5. ValidPath(t) => ValidPath(s)
  BY <1>1, <1>2 DEF ValidPath
<1>6. ValidPath(s) => ValidPath(t)
  BY <1>1, <1>2 DEF ValidPath
<1> QED BY <1>3, <1>4, <1>5, <1>6

(* The path of a directory can be trimmed. *)
LEMMA ElementsTrim ==
  ASSUME NEW s \in Strings
  PROVE  /\ Elements(Trim(s, "/")) = Elements(s)
         /\ ValidPath(Trim(s, "/")) <=> ValidPath(s)
BY TrimShift, ElementsShift

-----------------------------------------------------------------------------
(* A token that is no slash is in an element, which is kept unless it is a *)
(* lone ".".                                                               *)
LEMMA ElementOf ==
  ASSUME NEW s \in Strings, NEW k \in 1..Len(s), s[k] # "/", s[k] # "."
  PROVE  \E i \in Starts(s) :
            /\ i <= k
            /\ k - i + 1 \in DOMAIN Element(s, i)
            /\ Element(s, i)[k - i + 1] = s[k]
<1> USE DEF Strings
<1> DEFINE T == {i \in 1..k : \A j \in i..k : s[j] # "/"}
<1>1. T \in SUBSET Nat /\ k \in T
  OBVIOUS
<1>2. PICK i \in T : \A y \in T : i <= y
  <2> HIDE DEF T
  <2> QED BY <1>1, Least
<1>3. i \in 1..k /\ \A j \in i..k : s[j] # "/"
  OBVIOUS
<1>4. i = 1 \/ s[i - 1] = "/"
  <2> SUFFICES ASSUME i # 1, s[i - 1] # "/" PROVE FALSE
    OBVIOUS
  <2>1. i - 1 \in 1..k /\ \A j \in (i - 1)..k : j = i - 1 \/ j \in i..k
    BY <1>3
  <2>2. i - 1 \in T
    BY <1>3, <2>1
  <2> HIDE DEF T
  <2> QED BY <1>2, <1>3, <2>2
<1>5. k - i + 1 \in DOMAIN Element(s, i) /\ Element(s, i)[k - i + 1] = s[k]
  <2>1. k - i + 1 \in 1..Len(s) /\ i + (k - i + 1) - 1 = k
    BY <1>3
  <2>2. \A j \in i .. i + (k - i + 1) - 1 : j \in 1..Len(s) /\ s[j] # "/"
    BY <1>3, <2>1
  <2> QED BY <2>1, <2>2 DEF Element
<1>6. Element(s, i) # <<".">>
  <2> SUFFICES ASSUME Element(s, i) = <<".">> PROVE FALSE
    OBVIOUS
  <2>1. k - i + 1 \in 1..1 /\ <<".">>[1] = "."
    BY <1>5
  <2> QED BY <1>3, <1>5, <2>1
<1>7. i \in Starts(s)
  BY <1>3, <1>4, <1>6 DEF Starts
<1> QED BY <1>3, <1>5, <1>7

(* A path that is a single token. *)
LEMMA SingleElement ==
  ASSUME NEW x \in Tokens, x # "/", x # "."
  PROVE  /\ <<x>> \in Strings
         /\ Trim(<<x>>, "/") = <<x>>
         /\ Elements(<<x>>) = {<<1, <<x>> >>}
         /\ x # ".." => ValidPath(<<x>>)
<1> DEFINE s == <<x>>
<1>1. s \in Strings /\ Len(s) = 1 /\ s[1] = x
  BY DEF Strings
<1>2. Element(s, 1) = s
  <2>1. ASSUME NEW k \in {1} PROVE \A j \in 1 .. 1 + k - 1 : j \in DOMAIN s /\ s[j] # "/"
    OBVIOUS
  <2>2. {k \in DOMAIN s : \A j \in 1 .. 1 + k - 1 : j \in DOMAIN s /\ s[j] # "/"} = {1}
    OBVIOUS
  <2>3. Element(s, 1) = [k \in {1} |-> s[1 + k - 1]]
    BY <2>2 DEF Element
  <2> QED BY <2>3
<1>3. s # <<".">>
  OBVIOUS
<1>4. Starts(s) = {1}
  BY <1>1, <1>2, <1>3 DEF Starts
<1>5. Depth(s, 1) = 1
  <2>1. {j \in Starts(s) : j <= 1} = {1}
    BY <1>4
  <2> QED BY <2>1, FS_Singleton DEF Depth
<1>6. Elements(s) = {<<1, s>>}
  BY <1>2, <1>4, <1>5 DEF Elements
<1>7. x # ".." => ValidPath(s)
  BY <1>2, <1>4 DEF ValidPath
<1>8. Trim(s, "/") = s
  <2>1. Shift(s, s, 0) /\ Trimmed(s)
    BY <1>1 DEF Shift, Trimmed
  <2> HIDE DEF s
  <2> QED BY <1>1, <2>1, TrimUnique
<1> QED BY <1>1, <1>6, <1>7, <1>8

(* The elements of a path have no other tokens than the path. *)
LEMMA ElementTokens ==
  ASSUME NEW s \in Strings, NEW i \in Starts(s), NEW k \in DOMAIN Element(s, i)
  PROVE  Element(s, i)[k] \in ToSet(s)
<1>1. k \in 1..Len(s) /\ i \in 1..Len(s)
  BY DEF Element, Starts, Strings
<1>2. i + k - 1 \in i .. i + k - 1
  BY <1>1 DEF Strings
<1>3. i + k - 1 \in DOMAIN s /\ Element(s, i)[k] = s[i + k - 1]
  BY <1>1, <1>2 DEF Element
<1> QED BY <1>3 DEF ToSet

(* Trim removes no token but slashes. *)
LEMMA TrimKeepsTokens ==
  ASSUME NEW s \in Strings, NEW x, x # "/"
  PROVE  x \in ToSet(Trim(s, "/")) <=> x \in ToSet(s)
<1> DEFINE t == Trim(s, "/")
<1>1. PICK d \in Nat : t \in Strings /\ Shift(s, t, d)
  BY TrimShift
<1> HIDE DEF t
<1>2. ASSUME NEW i \in 1..Len(t) PROVE i + d \in 1..Len(s) /\ t[i] = s[i + d]
  BY <1>1 DEF Shift, Strings
<1>3. ASSUME NEW i \in 1..Len(s), s[i] = x PROVE i - d \in 1..Len(t) /\ t[i - d] = x
  <2>1. i - d \in 1..Len(t) /\ i - d + d = i
    BY <1>1, <1>3 DEF Shift, Strings
  <2> QED BY <1>2, <1>3, <2>1
<1>4. DOMAIN s = 1..Len(s) /\ DOMAIN t = 1..Len(t)
  BY <1>1 DEF Strings
<1> QED BY <1>2, <1>3, <1>4 DEF ToSet, t

-----------------------------------------------------------------------------
(* Concatenation: types and brackets. *)
LEMMA ConcatStrings ==
  ASSUME NEW x \in Strings, NEW y \in Strings
  PROVE  x \o y \in Strings /\ \A z \in Strings : (x \o y) \o z = x \o (y \o z)
<1>1. x \o y \in Strings
  BY ConcatProperties DEF Strings
<1>2. ASSUME NEW z \in Strings PROVE (x \o y) \o z = x \o (y \o z)
  BY ConcatAssociative DEF Strings
<1> QED BY <1>1, <1>2

(* Concatenation: length and tokens. *)
LEMMA ConcatTokens ==
  ASSUME NEW x \in Strings, NEW y \in Strings
  PROVE  /\ x \o y \in Strings /\ Len(x) \in Nat /\ Len(y) \in Nat
         /\ Len(x \o y) = Len(x) + Len(y)
         /\ \A i \in 1..Len(x) : (x \o y)[i] = x[i]
         /\ \A i \in 1..Len(y) : (x \o y)[Len(x) + i] = y[i]
BY DEF Strings

(* Concatenation as an operator the provers do not rewrite. *)
Cat(x, y) == x \o y

(* The brackets of a concatenation can be moved. *)
LEMMA CatAssociates ==
  ASSUME NEW x \in Strings, NEW y \in Strings, NEW z \in Strings
  PROVE  Cat(x, y) \in Strings /\ Cat(Cat(x, y), z) = Cat(x, Cat(y, z))
<1>1. x \o y \in Strings /\ (x \o y) \o z = x \o (y \o z)
  BY ConcatStrings
<1> QED BY <1>1 DEF Cat

(* The ID, bracketed from the right. *)
LEMMA IDShape ==
  ASSUME NEW a \in Strings, NEW b \in Strings, NEW u \in Strings, NEW p \in Strings,
         NEW cut \in Strings
  PROVE  Cat(Cat(Cat(Cat(Cat(Cat(a, cut), b), cut), u), cut), p)
           = Cat(a, Cat(cut, Cat(b, Cat(cut, Cat(u, Cat(cut, p))))))
<1> DEFINE A1 == Cat(a, cut)
           A2 == Cat(A1, b)
           A3 == Cat(A2, cut)
           A4 == Cat(A3, u)
           B4 == Cat(cut, p)
           B3 == Cat(u, B4)
           B2 == Cat(cut, B3)
           B1 == Cat(b, B2)
<1>1. A1 \in Strings /\ B4 \in Strings
  BY CatAssociates
<1> HIDE DEF A1, B4
<1>2. A2 \in Strings /\ B3 \in Strings
  BY <1>1, CatAssociates
<1> HIDE DEF A2, B3
<1>3. A3 \in Strings /\ B2 \in Strings
  BY <1>2, CatAssociates
<1> HIDE DEF A3, B2
<1>4. A4 \in Strings /\ B1 \in Strings
  BY <1>3, CatAssociates
<1> HIDE DEF A4, B1
<1>5. Cat(Cat(A4, cut), p) = Cat(A4, B4)
  BY <1>4, CatAssociates DEF B4
<1>6. Cat(A4, B4) = Cat(A3, B3)
  BY <1>1, <1>3, CatAssociates DEF A4, B3
<1>7. Cat(A3, B3) = Cat(A2, B2)
  BY <1>2, CatAssociates DEF A3, B2
<1>8. Cat(A2, B2) = Cat(A1, B1)
  BY <1>1, <1>3, CatAssociates DEF A2, B1
<1>9. Cat(A1, B1) = Cat(a, Cat(cut, B1))
  BY <1>4, CatAssociates DEF A1
<1>10. Cat(Cat(A4, cut), p) = Cat(a, Cat(cut, B1))
  BY <1>5, <1>6, <1>7, <1>8, <1>9
<1> QED BY <1>10 DEF A1, A2, A3, A4, B1, B2, B3, B4

(* The policy as the ID has it. *)
Policy(vol) == IF vol.onDelete \in {"retain", "archive"} THEN <<vol.onDelete>> ELSE <<>>

(* The fields of an accepted volume. *)
LEMMA VolumeShape ==
  ASSUME NEW n \in Names, NEW cls \in Classes,
         NEW vol, vol = newSMBVolume(n, cls), vol.status = "ok"
  PROVE  /\ vol.source = cls.source /\ vol.source \in Strings
         /\ vol.subDir = (IF cls.subDir = <<>> THEN <<n>> ELSE Replace(cls.subDir, n))
         /\ vol.subDir \in Strings
         /\ vol.uuid = (IF cls.subDir = <<>> THEN <<>> ELSE <<n>>)
         /\ vol.uuid \in Strings
         /\ vol.onDelete = cls.onDelete
         /\ vol.onDelete \in {"", "delete", "retain", "archive"}
         /\ Policy(vol) \in Strings /\ "#" \notin ToSet(Policy(vol))
         /\ ValidPath(vol.source) /\ ValidPath(vol.subDir)
         /\ cls.subDir \in Strings
         /\ n \in Tokens /\ n # "/" /\ n # "#" /\ n # "." /\ n # ".."
<1>1. n \in Tokens /\ n # "/" /\ n # "#" /\ n # "." /\ n # ".."
  BY NamesAssumption
<1>2. cls.source \in Strings /\ cls.subDir \in Strings
  BY ClassAssumption DEF Classes, Strings
<1>3. /\ vol.source = cls.source
      /\ vol.subDir = (IF cls.subDir = <<>> THEN <<n>> ELSE Replace(cls.subDir, n))
      /\ vol.uuid = (IF cls.subDir = <<>> THEN <<>> ELSE <<n>>)
      /\ vol.onDelete = cls.onDelete
      /\ vol.onDelete \in {"", "delete", "retain", "archive"}
      /\ ValidPath(vol.source) /\ ValidPath(vol.subDir)
  BY DEF newSMBVolume, Rejected
<1>4. Replace(cls.subDir, n) \in Strings
  BY <1>1, <1>2 DEF Replace, Strings
<1>5. <<n>> \in Strings /\ <<>> \in Strings
  BY <1>1 DEF Strings
<1>6. Policy(vol) \in Strings /\ "#" \notin ToSet(Policy(vol))
  <2>1. CASE vol.onDelete \in {"retain", "archive"}
    <3>1. Policy(vol) = <<vol.onDelete>>
      BY <2>1 DEF Policy
    <3>2. "retain" \in Tokens /\ "archive" \in Tokens
      BY ClassAssumption
    <3>3. vol.onDelete \in Tokens /\ vol.onDelete # "#"
      BY <2>1, <3>2
    <3> QED BY <3>1, <3>3 DEF Strings, ToSet
  <2>2. CASE vol.onDelete \notin {"retain", "archive"}
    <3>1. Policy(vol) = <<>>
      BY <2>2 DEF Policy
    <3> QED BY <3>1 DEF Strings, ToSet
  <2> QED BY <2>1, <2>2
<1> QED BY <1>1, <1>2, <1>3, <1>4, <1>5, <1>6

(* The policy of an accepted volume is that of the class. *)
LEMMA OnDeleteOfClass ==
  ASSUME NEW n \in Names, NEW cls \in Classes,
         NEW vol, vol = newSMBVolume(n, cls), vol.status = "ok"
  PROVE  vol.onDelete = cls.onDelete
BY VolumeShape

(* The ID of a volume from its parts. *)
ID(a, b, u, p) == a \o <<"#">> \o b \o <<"#">> \o u \o <<"#">> \o p

(* The segments of the ID, as far as nothing before them has a separator. *)
LEMMA IDSegments ==
  ASSUME NEW a \in Strings, NEW b \in Strings, NEW u \in Strings, NEW p \in Strings,
         NEW id, id = ID(a, b, u, p)
  PROVE  /\ id \in Strings /\ "#" \in ToSet(id)
         /\ "#" \notin ToSet(a) =>
              /\ Before(id, "#") = a
              /\ "#" \notin ToSet(b) =>
                   /\ Before(After(id, "#"), "#") = b
                   /\ "#" \notin ToSet(u) =>
                        /\ Before(After(After(id, "#"), "#"), "#") = u
                        /\ After(After(After(id, "#"), "#"), "#") = p
<1> DEFINE cut == <<"#">>
           R2 == u \o (cut \o p)
           R1 == b \o (cut \o R2)
<1>1. cut \in Strings /\ "#" \in Tokens
  BY ClassAssumption DEF Strings
<1>2. id = a \o (cut \o R1)
  <2>0. id = a \o cut \o b \o cut \o u \o cut \o p
    BY DEF ID
  <2> HIDE DEF cut
  <2>1. Cat(Cat(Cat(Cat(Cat(Cat(a, cut), b), cut), u), cut), p)
          = Cat(a, Cat(cut, Cat(b, Cat(cut, Cat(u, Cat(cut, p))))))
    BY <1>1, IDShape
  <2> QED BY <2>0, <2>1 DEF Cat
<1>3. R2 \in Strings
  <2> HIDE DEF cut
  <2>1. cut \o p \in Strings
    BY <1>1, ConcatStrings
  <2> QED BY <2>1, ConcatStrings
<1>4. R1 \in Strings
  <2> HIDE DEF cut, R2
  <2>1. cut \o R2 \in Strings
    BY <1>1, <1>3, ConcatStrings
  <2> QED BY <2>1, ConcatStrings
<1> HIDE DEF R1
<1>5. id \in Strings /\ "#" \in ToSet(id)
  <2>1. /\ cut \o R1 \in Strings /\ Len(cut \o R1) = 1 + Len(R1) /\ (cut \o R1)[1] = "#"
    BY <1>1, <1>4 DEF Strings
  <2>2. /\ id \in Strings /\ Len(id) = Len(a) + (1 + Len(R1)) /\ id[Len(a) + 1] = "#"
    <3> DEFINE t == cut \o R1
    <3>1. t \in Strings /\ Len(t) = 1 + Len(R1) /\ t[1] = "#" /\ id = a \o t
      BY <1>2, <2>1
    <3> HIDE DEF t
    <3>2. 1 \in 1..Len(t)
      BY <3>1, <1>4 DEF Strings
    <3>3. /\ a \o t \in Strings /\ Len(a \o t) = Len(a) + Len(t)
          /\ \A i \in 1..Len(t) : (a \o t)[Len(a) + i] = t[i]
      <4>1. t \in Strings
        BY <3>1
      <4> QED BY <4>1, ConcatTokens
    <3>4. (a \o t)[Len(a) + 1] = t[1]
      BY <3>2, <3>3
    <3> QED BY <3>1, <3>3, <3>4
  <2>3. Len(a) + 1 \in DOMAIN id
    BY <2>2, <1>4 DEF Strings
  <2> QED BY <2>2, <2>3 DEF ToSet
<1>6. ASSUME "#" \notin ToSet(a) PROVE Before(id, "#") = a /\ After(id, "#") = R1
  BY <1>1, <1>2, <1>4, <1>6, CutAtSeparator
<1>7. ASSUME "#" \notin ToSet(b) PROVE Before(R1, "#") = b /\ After(R1, "#") = R2
  <2> HIDE DEF R2
  <2> QED BY <1>1, <1>3, <1>7, CutAtSeparator DEF R1
<1>8. ASSUME "#" \notin ToSet(u) PROVE Before(R2, "#") = u /\ After(R2, "#") = p
  BY <1>1, <1>8, CutAtSeparator
<1> HIDE DEF R2
<1> QED BY <1>5, <1>6, <1>7, <1>8

(* The share is the same with the two slashes getSmbVolFromID puts back. *)
LEMMA SourceSlashes ==
  ASSUME NEW a \in Strings, Trimmed(a)
  PROVE  /\ ~IsPrefix(<<"/", "/">>, a)
         /\ Trim(<<"/", "/">> \o a, "/") = a
<1> DEFINE sl == <<"/", "/">>
           s == sl \o a
<1>1. sl \in Strings /\ Len(sl) = 2 /\ sl[1] = "/" /\ sl[2] = "/"
  BY ClassAssumption DEF Strings
<1> HIDE DEF sl
<1>2. ~IsPrefix(sl, a)
  <2> SUFFICES ASSUME IsPrefix(sl, a) PROVE FALSE
    OBVIOUS
  <2>1. 2 <= Len(a) /\ SubSeq(sl, 1, 2) = SubSeq(a, 1, 2)
    BY <1>1 DEF IsPrefix
  <2>2. SubSeq(sl, 1, 2)[1] = sl[1] /\ SubSeq(a, 1, 2)[1] = a[1]
    BY <1>1, <2>1 DEF Strings
  <2> QED BY <1>1, <2>1, <2>2 DEF Trimmed
<1>3. /\ s \in Strings /\ Len(s) = 2 + Len(a)
      /\ s[1] = "/" /\ s[2] = "/" /\ \A i \in 1..Len(a) : a[i] = s[i + 2]
  <2>1. s \in Strings /\ Len(s) = Len(sl) + Len(a)
    BY <1>1, ConcatTokens
  <2>2. \A i \in 1..Len(sl) : s[i] = sl[i]
    BY <1>1, ConcatTokens
  <2>3. \A i \in 1..Len(a) : s[Len(sl) + i] = a[i]
    BY <1>1, ConcatTokens
  <2>4. \A i \in 1..Len(a) : Len(sl) + i = i + 2
    BY <1>1
  <2> QED BY <1>1, <2>1, <2>2, <2>3, <2>4
<1> HIDE DEF s
<1>4. Shift(s, a, 2)
  BY <1>3 DEF Shift
<1>5. Trim(s, "/") = a
  BY <1>3, <1>4, TrimUnique
<1> QED BY <1>2, <1>5 DEF s, sl

-----------------------------------------------------------------------------
(* Putting the name in for the placeholder adds or removes no other token. *)
LEMMA ReplaceTokens ==
  ASSUME NEW s \in Strings, NEW n, NEW x, x # n, x # "$pv"
  PROVE  x \in ToSet(Replace(s, n)) <=> x \in ToSet(s)
BY DEF Replace, ToSet, Strings

(* The tokens of a string of at most one token. *)
LEMMA SingletonToSet ==
  ASSUME NEW x, NEW y, y # x
  PROVE  y \notin ToSet(<<x>>) /\ y \notin ToSet(<<>>)
<1>1. DOMAIN <<x>> = {1} /\ <<x>>[1] = x /\ DOMAIN <<>> = {}
  OBVIOUS
<1> QED BY <1>1 DEF ToSet

(* The tokens of a concatenation. *)
LEMMA ConcatToSet ==
  ASSUME NEW x \in Strings, NEW y \in Strings, NEW c
  PROVE  c \in ToSet(x \o y) <=> c \in ToSet(x) \/ c \in ToSet(y)
<1> DEFINE z == x \o y
<1>1. /\ z \in Strings /\ Len(x) \in Nat /\ Len(y) \in Nat
      /\ Len(z) = Len(x) + Len(y)
      /\ \A i \in 1..Len(x) : z[i] = x[i]
      /\ \A i \in 1..Len(y) : z[Len(x) + i] = y[i]
  BY ConcatTokens
<1> HIDE DEF z
<1>2. DOMAIN x = 1..Len(x) /\ DOMAIN y = 1..Len(y) /\ DOMAIN z = 1..Len(z)
  BY <1>1 DEF Strings
<1>3. ASSUME NEW i \in 1..Len(x) PROVE i \in 1..Len(z) /\ z[i] = x[i]
  BY <1>1
<1>4. ASSUME NEW i \in 1..Len(y) PROVE Len(x) + i \in 1..Len(z) /\ z[Len(x) + i] = y[i]
  BY <1>1
<1>5. ASSUME NEW i \in 1..Len(z)
      PROVE  \/ i \in 1..Len(x) /\ z[i] = x[i]
             \/ i - Len(x) \in 1..Len(y) /\ z[i] = y[i - Len(x)]
  <2>1. CASE i <= Len(x)
    BY <1>1, <2>1
  <2>2. CASE i > Len(x)
    <3>1. i - Len(x) \in 1..Len(y) /\ Len(x) + (i - Len(x)) = i
      BY <1>1, <2>2
    <3> QED BY <1>1, <3>1
  <2> QED BY <1>1, <2>1, <2>2
<1>6. c \in ToSet(x) => c \in ToSet(z)
  BY <1>2, <1>3 DEF ToSet
<1>7. c \in ToSet(y) => c \in ToSet(z)
  BY <1>2, <1>4 DEF ToSet
<1>8. c \in ToSet(z) => c \in ToSet(x) \/ c \in ToSet(y)
  BY <1>2, <1>5 DEF ToSet
<1> QED BY <1>6, <1>7, <1>8 DEF z

(* What getSmbVolFromID makes of the ID of a volume. *)
LEMMA Parsed ==
  ASSUME NEW n \in Names, NEW cls \in Classes,
         NEW vol, vol = newSMBVolume(n, cls), vol.status = "ok",
         NEW id, id = getVolumeIDFromSmbVol(vol),
         NEW d, d = getSmbVolFromID(id)
  PROVE  /\ id = ID(Trim(vol.source, "/"), Trim(vol.subDir, "/"), vol.uuid, Policy(vol))
         /\ id \in Strings /\ "#" \in ToSet(id)
         /\ \/ d = Rejected
            \/ /\ d.status = "ok"
               /\ d.source \in {Before(id, "#"), <<"/", "/">> \o Before(id, "#")}
               /\ d.subDir = Before(After(id, "#"), "#")
         /\ Before(id, "#") \in Strings /\ "#" \notin ToSet(Before(id, "#"))
         /\ Before(After(id, "#"), "#") \in Strings
         /\ "#" \notin ToSet(Before(After(id, "#"), "#"))
<1>1. id = ID(Trim(vol.source, "/"), Trim(vol.subDir, "/"), vol.uuid, Policy(vol))
  BY DEF getVolumeIDFromSmbVol, ID, Policy
<1>2. /\ vol.source \in Strings /\ vol.subDir \in Strings /\ vol.uuid \in Strings
      /\ Policy(vol) \in Strings
  BY VolumeShape
<1>3. Trim(vol.source, "/") \in Strings /\ Trim(vol.subDir, "/") \in Strings
  BY <1>2, TrimShift
<1>4. id \in Strings /\ "#" \in ToSet(id)
  BY <1>1, <1>2, <1>3, IDSegments
<1>5. "#" \in Tokens
  BY ClassAssumption
<1>6. /\ Before(id, "#") \in Strings /\ "#" \notin ToSet(Before(id, "#"))
      /\ After(id, "#") \in Strings
  BY <1>4, <1>5, BeforeHasNoSeparator
<1>7. /\ Before(After(id, "#"), "#") \in Strings
      /\ "#" \notin ToSet(Before(After(id, "#"), "#"))
  BY <1>5, <1>6, BeforeHasNoSeparator
<1>8. \/ d = Rejected
      \/ /\ d.status = "ok"
         /\ d.source \in {Before(id, "#"), <<"/", "/">> \o Before(id, "#")}
         /\ d.subDir = Before(After(id, "#"), "#")
  BY DEF getSmbVolFromID
<1> QED BY <1>1, <1>4, <1>6, <1>7, <1>8

(* Without a '#' in the storage class, the volume comes back. *)
LEMMA RoundTrip ==
  ASSUME NEW n \in Names, NEW cls \in Classes,
         NEW vol, vol = newSMBVolume(n, cls), vol.status = "ok",
         "#" \notin ToSet(cls.source), "#" \notin ToSet(cls.subDir),
         NEW d, d = getSmbVolFromID(getVolumeIDFromSmbVol(vol))
  PROVE  /\ d # Rejected
         /\ d.subDir = Trim(vol.subDir, "/")
         /\ Meaning(d) = Meaning(vol)
<1> DEFINE id == getVolumeIDFromSmbVol(vol)
           a == Trim(vol.source, "/")
           b == Trim(vol.subDir, "/")
           u == vol.uuid
           p == Policy(vol)
<1>1. /\ vol.source = cls.source /\ vol.source \in Strings
      /\ vol.subDir = (IF cls.subDir = <<>> THEN <<n>> ELSE Replace(cls.subDir, n))
      /\ vol.subDir \in Strings
      /\ vol.uuid = (IF cls.subDir = <<>> THEN <<>> ELSE <<n>>)
      /\ u \in Strings
      /\ vol.onDelete \in {"", "delete", "retain", "archive"}
      /\ p \in Strings /\ "#" \notin ToSet(p)
      /\ ValidPath(vol.subDir)
      /\ cls.subDir \in Strings
      /\ n \in Tokens /\ n # "/" /\ n # "#" /\ n # "." /\ n # ".."
  BY VolumeShape
<1>2. id = ID(a, b, u, p)
  BY Parsed
<1>3. a \in Strings /\ b \in Strings /\ Trimmed(a)
  BY <1>1, TrimShift
<1>4. "#" \notin ToSet(a)
  BY <1>1, TrimKeepsTokens
<1>5. "#" \notin ToSet(b)
  <2>1. "#" \notin ToSet(vol.subDir)
    <3>1. CASE cls.subDir = <<>>
      BY <1>1, <3>1, SingletonToSet
    <3>2. CASE cls.subDir # <<>>
      BY <1>1, <3>2, ReplaceTokens
    <3> QED BY <3>1, <3>2
  <2> QED BY <1>1, <2>1, TrimKeepsTokens
<1>6. "#" \notin ToSet(u) /\ ValidPath(u)
  <2>1. CASE cls.subDir = <<>>
    <3>1. u = <<>>
      BY <1>1, <2>1
    <3> QED BY <3>1 DEF ToSet, ValidPath, Starts
  <2>2. CASE cls.subDir # <<>>
    <3>1. u = <<n>>
      BY <1>1, <2>2
    <3>2. ValidPath(<<n>>)
      BY <1>1, SingleElement
    <3> QED BY <1>1, <3>1, <3>2, SingletonToSet
  <2> QED BY <2>1, <2>2
<1>7. Elements(b) = Elements(vol.subDir) /\ ValidPath(b)
  BY <1>1, ElementsTrim
<1> HIDE DEF id, a, b, u, p
<1>8. /\ id \in Strings /\ "#" \in ToSet(id)
      /\ Before(id, "#") = a
      /\ Before(After(id, "#"), "#") = b
      /\ Before(After(After(id, "#"), "#"), "#") = u
      /\ After(After(After(id, "#"), "#"), "#") = p
  <2>1. u \in Strings /\ p \in Strings
    BY <1>1
  <2>2. /\ id \in Strings /\ "#" \in ToSet(id)
        /\ "#" \notin ToSet(a) =>
             /\ Before(id, "#") = a
             /\ "#" \notin ToSet(b) =>
                  /\ Before(After(id, "#"), "#") = b
                  /\ "#" \notin ToSet(u) =>
                       /\ Before(After(After(id, "#"), "#"), "#") = u
                       /\ After(After(After(id, "#"), "#"), "#") = p
    BY <1>2, <1>3, <2>1, IDSegments
  <2> QED BY <1>4, <1>5, <1>6, <2>2
<1>9. Before(p, "#") = p
  <2>1. "#" \in Tokens
    BY ClassAssumption
  <2> QED BY <1>1, <2>1, BeforeHasNoSeparator
<1>10. ~IsPrefix(<<"/", "/">>, a) /\ Trim(<<"/", "/">> \o a, "/") = a
  BY <1>3, SourceSlashes
<1>11. /\ d.status = "ok" /\ d.source = <<"/", "/">> \o a /\ d.subDir = b /\ d.uuid = u
       /\ d.onDelete = (IF Len(p) = 1 THEN p[1] ELSE "")
  <2> DEFINE src == IF IsPrefix(<<"/", "/">>, a) THEN a ELSE <<"/", "/">> \o a
             pol == IF Len(p) = 1 THEN p[1] ELSE ""
  <2>1. d = getSmbVolFromID(id)
    BY DEF id
  <2>2. d = [status |-> "ok", source |-> src, subDir |-> b, uuid |-> u, onDelete |-> pol]
    BY <2>1, <1>6, <1>7, <1>8, <1>9 DEF getSmbVolFromID
  <2>3. src = <<"/", "/">> \o a
    BY <1>10
  <2> HIDE DEF src, pol
  <2>4. d.status = "ok" /\ d.source = src /\ d.subDir = b /\ d.uuid = u /\ d.onDelete = pol
    BY <2>2
  <2> QED BY <2>3, <2>4 DEF pol
<1>12. d # Rejected /\ Trim(d.source, "/") = a
  <2>1. Rejected.status = "rejected"
    BY DEF Rejected
  <2> QED BY <1>10, <1>11, <2>1
<1>13. (IF d.onDelete \in {"retain", "archive"} THEN d.onDelete ELSE "delete")
         = (IF vol.onDelete \in {"retain", "archive"} THEN vol.onDelete ELSE "delete")
  <2>1. CASE vol.onDelete \in {"retain", "archive"}
    <3>1. p = <<vol.onDelete>>
      BY <2>1 DEF p, Policy
    <3>2. d.onDelete = vol.onDelete
      BY <1>11, <3>1
    <3> QED BY <3>2
  <2>2. CASE vol.onDelete \notin {"retain", "archive"}
    <3>1. p = <<>>
      BY <2>2 DEF p, Policy
    <3>2. Len(p) # 1
      BY <3>1
    <3>3. d.onDelete = ""
      BY <1>11, <3>2
    <3> QED BY <2>2, <3>3
  <2> QED BY <2>1, <2>2
<1>14. getInternalMountPath(d) = getInternalMountPath(vol)
  BY <1>7, <1>11 DEF getInternalMountPath, u
<1>15. VolumeDir(d) = VolumeDir(vol)
  BY <1>7, <1>11 DEF VolumeDir
<1>16. Meaning(d) = Meaning(vol)
  BY <1>12, <1>13, <1>14, <1>15 DEF Meaning, a
<1> QED BY <1>11, <1>12, <1>16 DEF b

(* With one, it never does. *)
LEMMA NoRoundTrip ==
  ASSUME NEW n \in Names, NEW cls \in Classes,
         NEW vol, vol = newSMBVolume(n, cls), vol.status = "ok",
         "#" \in ToSet(cls.source) \/ "#" \in ToSet(cls.subDir),
         NEW d, d = getSmbVolFromID(getVolumeIDFromSmbVol(vol)), d # Rejected
  PROVE  Meaning(d) # Meaning(vol)
<1> DEFINE id == getVolumeIDFromSmbVol(vol)
           src == Before(id, "#")
           dir == Before(After(id, "#"), "#")
<1>1. /\ vol.source = cls.source /\ vol.source \in Strings
      /\ vol.subDir = (IF cls.subDir = <<>> THEN <<n>> ELSE Replace(cls.subDir, n))
      /\ vol.subDir \in Strings
      /\ cls.subDir \in Strings
      /\ n # "#"
  BY VolumeShape
<1>2. /\ d.source \in {src, <<"/", "/">> \o src} /\ d.subDir = dir
      /\ src \in Strings /\ "#" \notin ToSet(src)
      /\ dir \in Strings /\ "#" \notin ToSet(dir)
  BY Parsed
<1> HIDE DEF src, dir, id
<1>3. CASE "#" \in ToSet(cls.source)
  <2>1. "#" \in ToSet(Trim(vol.source, "/"))
    BY <1>1, <1>3, TrimKeepsTokens
  <2>2. d.source \in Strings /\ "#" \notin ToSet(d.source)
    <3> DEFINE sl == <<"/", "/">>
    <3>1. sl \in Strings /\ "#" \notin ToSet(sl)
      BY ClassAssumption DEF ToSet, Strings
    <3> HIDE DEF sl
    <3>2. sl \o src \in Strings /\ "#" \notin ToSet(sl \o src)
      BY <1>2, <3>1, ConcatTokens, ConcatToSet
    <3>3. d.source = src \/ d.source = sl \o src
      BY <1>2 DEF sl
    <3> QED BY <1>2, <3>2, <3>3
  <2>3. "#" \notin ToSet(Trim(d.source, "/"))
    BY <2>2, TrimKeepsTokens
  <2>4. Trim(d.source, "/") # Trim(vol.source, "/")
    BY <2>1, <2>3
  <2> QED BY <2>4 DEF Meaning
<1>4. CASE "#" \in ToSet(cls.subDir)
  <2>1. cls.subDir # <<>>
    BY <1>4 DEF ToSet
  <2>2. "#" \in ToSet(vol.subDir)
    BY <1>1, <1>4, <2>1, ReplaceTokens
  <2>3. PICK k \in 1..Len(vol.subDir) : vol.subDir[k] = "#"
    BY <1>1, <2>2 DEF ToSet, Strings
  <2>4. PICK i \in Starts(vol.subDir) : /\ k - i + 1 \in DOMAIN Element(vol.subDir, i)
                                        /\ Element(vol.subDir, i)[k - i + 1] = "#"
    BY <1>1, <2>3, ElementOf
  <2>5. <<Depth(vol.subDir, i), Element(vol.subDir, i)>> \in Elements(vol.subDir)
    BY DEF Elements
  <2>6. ASSUME Elements(dir) = Elements(vol.subDir) PROVE FALSE
    <3>1. PICK j \in Starts(dir) : Element(dir, j) = Element(vol.subDir, i)
      BY <2>5, <2>6 DEF Elements
    <3>2. Element(dir, j)[k - i + 1] \in ToSet(dir)
      BY <1>2, <2>4, <3>1, ElementTokens
    <3> QED BY <1>2, <2>4, <3>1, <3>2
  <2>7. VolumeDir(d) # VolumeDir(vol)
    BY <1>2, <2>6 DEF VolumeDir
  <2> QED BY <2>7 DEF Meaning
<1> QED BY <1>3, <1>4

-----------------------------------------------------------------------------
(* What the volumes are at every moment: what CreateVolume makes of the    *)
(* storage class, and what DeleteVolume makes of their IDs.                *)
VolumesInv ==
  /\ class \in Classes
  /\ created \in [Names -> {Pending} \cup {newSMBVolume(n, class) : n \in Names}]
  /\ DOMAIN deleted = Names
  /\ \A n \in Names :
       /\ created[n] # Pending => created[n] = newSMBVolume(n, class)
       /\ deleted[n] # Pending =>
            /\ created[n].status = "ok"
            /\ deleted[n] = getSmbVolFromID(getVolumeIDFromSmbVol(created[n]))

(* It is inductive. *)
LEMMA VolumesInvInductive == Spec => []VolumesInv
<1>1. Init => VolumesInv
  BY DEF Init, VolumesInv
<1>2. VolumesInv /\ [Next]_vars => VolumesInv'
  <2> SUFFICES ASSUME VolumesInv, [Next]_vars PROVE VolumesInv'
    OBVIOUS
  <2>1. ASSUME NEW n \in Names, CreateVolume(n) PROVE VolumesInv'
    <3>1. Pending.status # "ok"
      BY DEF Pending
    <3> QED BY <2>1, <3>1 DEF VolumesInv, CreateVolume
  <2>2. ASSUME NEW n \in Names, DeleteVolume(n) PROVE VolumesInv'
    BY <2>2 DEF VolumesInv, DeleteVolume
  <2>3. CASE UNCHANGED vars
    BY <2>3 DEF VolumesInv, vars
  <2> QED BY <2>1, <2>2, <2>3 DEF Next
<1> QED BY <1>1, <1>2, PTL DEF Spec

(* An accepted volume is the one newSMBVolume makes of the class. *)
LEMMA CreatedVolume ==
  ASSUME VolumesInv, NEW n \in Names, created[n].status = "ok"
  PROVE  created[n] = newSMBVolume(n, class) /\ class \in Classes
<1>1. Pending.status # "ok"
  BY DEF Pending
<1> QED BY <1>1 DEF VolumesInv

(* DeleteVolume finds in the ID the volume that CreateVolume made of the   *)
(* storage class, or one of the class's parameters has a '#' in it.        *)
THEOREM IDRoundTrip == Spec => []IDParsesBack
<1>1. VolumesInv => IDParsesBack
  <2> SUFFICES ASSUME VolumesInv, NEW n \in Names, deleted[n] # Pending
               PROVE  HasSeparator <=>
                        (deleted[n] = Rejected \/ Meaning(deleted[n]) # Meaning(created[n]))
    BY DEF IDParsesBack
  <2>1. /\ created[n].status = "ok"
        /\ deleted[n] = getSmbVolFromID(getVolumeIDFromSmbVol(created[n]))
    BY DEF VolumesInv
  <2>2. created[n] = newSMBVolume(n, class) /\ class \in Classes
    BY <2>1, CreatedVolume
  <2>3. class.source \in Strings /\ class.subDir \in Strings
    BY <2>2, ClassAssumption DEF Classes, Strings
  <2>4. HasSeparator <=> "#" \in ToSet(class.source) \/ "#" \in ToSet(class.subDir)
    BY <2>3, ConcatToSet DEF HasSeparator
  <2>5. ASSUME ~HasSeparator
        PROVE  deleted[n] # Rejected /\ Meaning(deleted[n]) = Meaning(created[n])
    BY <2>1, <2>2, <2>4, <2>5, RoundTrip
  <2>6. ASSUME HasSeparator, deleted[n] # Rejected
        PROVE  Meaning(deleted[n]) # Meaning(created[n])
    BY <2>1, <2>2, <2>4, <2>6, NoRoundTrip
  <2> QED BY <2>5, <2>6
<1> QED BY <1>1, VolumesInvInductive, PTL

-----------------------------------------------------------------------------
(* Strings whose first parts are as long are equal part by part. *)
LEMMA CatInjective ==
  ASSUME NEW x \in Strings, NEW y \in Strings, NEW v \in Strings, NEW w \in Strings,
         Len(x) = Len(v), Cat(x, y) = Cat(v, w)
  PROVE  x = v /\ y = w
<1> DEFINE z == x \o y
<1>1. /\ Len(x) \in Nat /\ Len(y) \in Nat
      /\ Len(z) = Len(x) + Len(y)
      /\ \A i \in 1..Len(x) : z[i] = x[i]
      /\ \A i \in 1..Len(y) : z[Len(x) + i] = y[i]
  BY ConcatTokens
<1>2. /\ Len(v) \in Nat /\ Len(w) \in Nat
      /\ Len(z) = Len(v) + Len(w)
      /\ \A i \in 1..Len(v) : z[i] = v[i]
      /\ \A i \in 1..Len(w) : z[Len(v) + i] = w[i]
  <2>1. z = v \o w
    BY DEF Cat
  <2> QED BY <2>1, ConcatTokens
<1> HIDE DEF z
<1>3. Len(y) = Len(w)
  BY <1>1, <1>2
<1>4. \A i \in 1..Len(x) : x[i] = v[i]
  BY <1>1, <1>2
<1>5. \A i \in 1..Len(y) : y[i] = w[i]
  BY <1>1, <1>2, <1>3
<1>6. x = v
  BY <1>4, SeqEqual DEF Strings
<1>7. y = w
  BY <1>3, <1>5, SeqEqual DEF Strings
<1> QED BY <1>6, <1>7

(* Equal IDs of equal source have equal parts. *)
LEMMA IDInjective ==
  ASSUME NEW a \in Strings, NEW p \in Strings,
         NEW b \in Strings, NEW u \in Strings, NEW c \in Strings, NEW v \in Strings,
         Len(b) = Len(c), Len(u) = Len(v), ID(a, b, u, p) = ID(a, c, v, p)
  PROVE  b = c /\ u = v
<1> DEFINE cut == <<"#">>
           Tail2(y) == Cat(y, Cat(cut, p))
           Tail1(x, y) == Cat(x, Cat(cut, Tail2(y)))
           Tail0(x, y) == Cat(cut, Tail1(x, y))
<1>1. cut \in Strings
  BY ClassAssumption DEF Strings
<1>2. /\ ID(a, b, u, p) = Cat(Cat(Cat(Cat(Cat(Cat(a, cut), b), cut), u), cut), p)
      /\ ID(a, c, v, p) = Cat(Cat(Cat(Cat(Cat(Cat(a, cut), c), cut), v), cut), p)
  BY DEF ID, Cat
<1> HIDE DEF cut
<1>3. Cat(cut, p) \in Strings
  BY <1>1, CatAssociates
<1>4. Tail2(u) \in Strings /\ Tail2(v) \in Strings
  BY <1>3, CatAssociates
<1>5. Cat(a, Tail0(b, u)) = Cat(a, Tail0(c, v))
  <2>1. ASSUME NEW x \in Strings, NEW y \in Strings
        PROVE  Cat(Cat(Cat(Cat(Cat(Cat(a, cut), x), cut), y), cut), p)
                 = Cat(a, Cat(cut, Cat(x, Cat(cut, Cat(y, Cat(cut, p))))))
    BY <1>1, IDShape
  <2> QED BY <1>2, <2>1
<1> HIDE DEF Tail2
<1>6. Cat(cut, Tail2(u)) \in Strings /\ Cat(cut, Tail2(v)) \in Strings
  BY <1>1, <1>4, CatAssociates
<1>7. Tail1(b, u) \in Strings /\ Tail1(c, v) \in Strings
  BY <1>6, CatAssociates
<1> HIDE DEF Tail1
<1>8. Tail0(b, u) \in Strings /\ Tail0(c, v) \in Strings
  BY <1>1, <1>7, CatAssociates
<1> HIDE DEF Tail0
<1>9. Tail0(b, u) = Tail0(c, v)
  BY <1>5, <1>8, CatInjective
<1>10. Tail1(b, u) = Tail1(c, v)
  BY <1>1, <1>7, <1>9, CatInjective DEF Tail0
<1>11. b = c /\ Cat(cut, Tail2(u)) = Cat(cut, Tail2(v))
  BY <1>6, <1>10, CatInjective DEF Tail1
<1>12. Tail2(u) = Tail2(v)
  BY <1>1, <1>4, <1>11, CatInjective
<1>13. u = v
  BY <1>3, <1>12, CatInjective DEF Tail2
<1> QED BY <1>11, <1>13

(* The slashes around a subDir are the same for every volume. *)
LEMMA TrimReplace ==
  ASSUME NEW s \in Strings, NEW n \in Tokens, n # "/"
  PROVE  /\ Replace(s, n) \in Strings
         /\ Trim(Replace(s, n), "/") = Replace(Trim(s, "/"), n)
<1> DEFINE t == Trim(s, "/")
<1>1. PICK d \in Nat : t \in Strings /\ Trimmed(t) /\ Shift(s, t, d)
  BY TrimShift
<1> HIDE DEF t
<1> DEFINE rs == Replace(s, n)
           rt == Replace(t, n)
<1>2. /\ rs \in Strings /\ Len(rs) = Len(s)
      /\ \A i \in 1..Len(s) : rs[i] = (IF s[i] = "$pv" THEN n ELSE s[i])
  BY DEF Replace, Strings
<1>3. /\ rt \in Strings /\ Len(rt) = Len(t)
      /\ \A i \in 1..Len(t) : rt[i] = (IF t[i] = "$pv" THEN n ELSE t[i])
  BY <1>1 DEF Replace, Strings
<1> HIDE DEF rs, rt
<1>4. Trimmed(rt)
  <2> SUFFICES ASSUME Len(rt) > 0 PROVE rt[1] # "/" /\ rt[Len(rt)] # "/"
    BY DEF Trimmed
  <2>1. 1 \in 1..Len(t) /\ Len(t) \in 1..Len(t)
    BY <1>1, <1>3 DEF Strings
  <2> QED BY <1>1, <1>3, <2>1 DEF Trimmed
<1>5. Shift(rs, rt, d)
  <2>1. d + Len(rt) <= Len(rs)
    BY <1>1, <1>2, <1>3 DEF Shift
  <2>2. ASSUME NEW i \in 1..Len(rt) PROVE rt[i] = rs[i + d]
    <3>1. i \in 1..Len(t) /\ i + d \in 1..Len(s) /\ t[i] = s[i + d]
      BY <1>1, <1>3 DEF Shift, Strings
    <3> QED BY <1>2, <1>3, <3>1
  <2>3. ASSUME NEW i \in 1..Len(rs), rs[i] # "/" PROVE i - d \in 1..Len(rt)
    <3>1. i \in 1..Len(s) /\ s[i] # "/"
      BY <1>2, <2>3
    <3> QED BY <1>1, <1>3, <3>1 DEF Shift
  <2> QED BY <2>1, <2>2, <2>3 DEF Shift
<1>6. Trim(rs, "/") = rt
  BY <1>2, <1>3, <1>4, <1>5, TrimUnique
<1> QED BY <1>2, <1>6 DEF rs, rt, t

(* The subDir of a volume without the slashes around it is that of the     *)
(* storage class with the name put in; without one, it is the name.        *)
Pattern(cls) == IF cls.subDir = <<>> THEN <<"$pv">> ELSE Trim(cls.subDir, "/")

(* The directory of a volume is its pattern with the name put in. *)
LEMMA SubDirPattern ==
  ASSUME NEW n \in Names, NEW cls \in Classes,
         NEW vol, vol = newSMBVolume(n, cls), vol.status = "ok"
  PROVE  /\ Pattern(cls) \in Strings /\ Trimmed(Pattern(cls))
         /\ Replace(Pattern(cls), n) \in Strings
         /\ Trim(vol.subDir, "/") = Replace(Pattern(cls), n)
<1>1. /\ vol.subDir = (IF cls.subDir = <<>> THEN <<n>> ELSE Replace(cls.subDir, n))
      /\ cls.subDir \in Strings
      /\ n \in Tokens /\ n # "/" /\ n # "."
  BY VolumeShape
<1>2. CASE cls.subDir = <<>>
  <2>1. Pattern(cls) = <<"$pv">> /\ vol.subDir = <<n>>
    BY <1>1, <1>2 DEF Pattern
  <2>2. Replace(<<"$pv">>, n) = <<n>>
    BY DEF Replace
  <2>3. <<"$pv">> \in Strings /\ Trimmed(<<"$pv">>)
    BY ClassAssumption DEF Strings, Trimmed
  <2>4. Trim(<<n>>, "/") = <<n>> /\ <<n>> \in Strings
    BY <1>1, SingleElement
  <2> QED BY <2>1, <2>2, <2>3, <2>4
<1>3. CASE cls.subDir # <<>>
  <2>1. Pattern(cls) = Trim(cls.subDir, "/") /\ vol.subDir = Replace(cls.subDir, n)
    BY <1>1, <1>3 DEF Pattern
  <2>2. Trim(cls.subDir, "/") \in Strings /\ Trimmed(Trim(cls.subDir, "/"))
    BY <1>1, TrimShift
  <2>3. Trim(Replace(cls.subDir, n), "/") = Replace(Trim(cls.subDir, "/"), n)
    BY <1>1, TrimReplace
  <2>4. Replace(Trim(cls.subDir, "/"), n) \in Strings
    BY <1>1, <2>2, TrimReplace
  <2> QED BY <2>1, <2>2, <2>3, <2>4
<1> QED BY <1>2, <1>3

(* "make volume id unique if subDir is provided": no two volumes of a      *)
(* storage class have the same ID or the same mount in CreateVolume,       *)
(* whatever its subDir makes of their names, nor, unless a '#' in the      *)
(* class cuts the ID, the same mount in DeleteVolume.                      *)
THEOREM DistinctVolumes == Spec => []VolumesApart
<1>1. VolumesInv => VolumesApart
  <2> SUFFICES ASSUME VolumesInv, NEW m \in Ok, NEW n \in Ok, m # n
               PROVE  /\ getVolumeIDFromSmbVol(created[m]) # getVolumeIDFromSmbVol(created[n])
                      /\ getInternalMountPath(created[m]) # getInternalMountPath(created[n])
                      /\ ~HasSeparator /\ deleted[m] # Pending /\ deleted[n] # Pending =>
                           getInternalMountPath(deleted[m]) # getInternalMountPath(deleted[n])
    BY DEF VolumesApart
  <2>1. m \in Names /\ created[m].status = "ok" /\ n \in Names /\ created[n].status = "ok"
    BY DEF Ok
  <2>2. /\ class \in Classes
        /\ created[m] = newSMBVolume(m, class) /\ created[n] = newSMBVolume(n, class)
    BY <2>1, CreatedVolume
  <2> DEFINE Vol(k) == created[k]
             Dir(k) == Trim(created[k].subDir, "/")
  <2>3. ASSUME NEW k \in {m, n}
        PROVE  /\ getVolumeIDFromSmbVol(Vol(k))
                    = ID(Trim(class.source, "/"), Dir(k), Vol(k).uuid, Policy(Vol(m)))
               /\ Dir(k) = Replace(Pattern(class), k) /\ Dir(k) \in Strings
               /\ Vol(k).uuid = (IF class.subDir = <<>> THEN <<>> ELSE <<k>>)
               /\ Vol(k).uuid \in Strings
               /\ Vol(k).subDir = (IF class.subDir = <<>> THEN <<k>> ELSE Replace(class.subDir, k))
               /\ k \in Tokens /\ k # "/" /\ k # "."
    <3>1. k \in Names /\ Vol(k).status = "ok" /\ Vol(k) = newSMBVolume(k, class)
      BY <2>1, <2>2
    <3>2. /\ m \in Names /\ class \in Classes
          /\ Vol(m).status = "ok" /\ Vol(m) = newSMBVolume(m, class)
      BY <2>1, <2>2
    <3> HIDE DEF Vol
    <3>3. Policy(Vol(k)) = Policy(Vol(m))
      <4>1. Vol(k).onDelete = class.onDelete
        BY <3>1, <3>2, OnDeleteOfClass
      <4>2. Vol(m).onDelete = class.onDelete
        BY <3>2, OnDeleteOfClass
      <4> QED BY <4>1, <4>2 DEF Policy
    <3>4. /\ Vol(k).source = class.source
          /\ Vol(k).uuid = (IF class.subDir = <<>> THEN <<>> ELSE <<k>>)
          /\ Vol(k).uuid \in Strings
          /\ Vol(k).subDir = (IF class.subDir = <<>> THEN <<k>> ELSE Replace(class.subDir, k))
          /\ k \in Tokens /\ k # "/" /\ k # "."
      BY <2>2, <3>1, VolumeShape
    <3>5. /\ Trim(Vol(k).subDir, "/") = Replace(Pattern(class), k)
          /\ Replace(Pattern(class), k) \in Strings
      BY <2>2, <3>1, SubDirPattern
    <3>6. getVolumeIDFromSmbVol(Vol(k))
            = ID(Trim(Vol(k).source, "/"), Trim(Vol(k).subDir, "/"), Vol(k).uuid, Policy(Vol(k)))
      BY <2>2, <3>1, Parsed
    <3> QED BY <3>3, <3>4, <3>5, <3>6 DEF Vol
  <2>4. /\ Trim(class.source, "/") \in Strings /\ Policy(Vol(m)) \in Strings
        /\ Pattern(class) \in Strings
    <3>0. Vol(m).status = "ok" /\ Vol(m) = newSMBVolume(m, class)
      BY <2>1, <2>2
    <3> HIDE DEF Vol
    <3>1. Vol(m).source = class.source /\ Vol(m).source \in Strings /\ Policy(Vol(m)) \in Strings
      BY <2>1, <2>2, <3>0, VolumeShape
    <3>2. Pattern(class) \in Strings
      BY <2>1, <2>2, <3>0, SubDirPattern
    <3> QED BY <3>1, <3>2, TrimShift
  <2>5. getVolumeIDFromSmbVol(Vol(m)) # getVolumeIDFromSmbVol(Vol(n))
    <3> SUFFICES ASSUME getVolumeIDFromSmbVol(Vol(m)) = getVolumeIDFromSmbVol(Vol(n)) PROVE FALSE
      OBVIOUS
    <3>1. Len(Dir(m)) = Len(Dir(n))
      BY <2>3, <2>4 DEF Replace, Strings
    <3>2. Len(Vol(m).uuid) = Len(Vol(n).uuid)
      BY <2>3
    <3> HIDE DEF Vol, Dir
    <3>3. Dir(m) = Dir(n) /\ Vol(m).uuid = Vol(n).uuid
      <4>1. /\ ID(Trim(class.source, "/"), Dir(m), Vol(m).uuid, Policy(Vol(m)))
                 = ID(Trim(class.source, "/"), Dir(n), Vol(n).uuid, Policy(Vol(m)))
            /\ Dir(m) \in Strings /\ Dir(n) \in Strings
            /\ Vol(m).uuid \in Strings /\ Vol(n).uuid \in Strings
        BY <2>3
      <4> QED BY <2>4, <3>1, <3>2, <4>1, IDInjective
    <3>4. CASE class.subDir = <<>>
      <4>1. Pattern(class) = <<"$pv">>
        BY <3>4 DEF Pattern
      <4>2. Dir(m) = <<m>> /\ Dir(n) = <<n>>
        BY <2>3, <4>1 DEF Replace
      <4>3. <<m>>[1] = m /\ <<n>>[1] = n
        OBVIOUS
      <4> QED BY <3>3, <4>2, <4>3
    <3>5. CASE class.subDir # <<>>
      <4>1. Vol(m).uuid = <<m>> /\ Vol(n).uuid = <<n>>
        BY <2>3, <3>5
      <4>2. <<m>>[1] = m /\ <<n>>[1] = n
        OBVIOUS
      <4> QED BY <3>3, <4>1, <4>2
    <3> QED BY <3>4, <3>5
  <2>6. ASSUME NEW k \in {m, n} PROVE getInternalMountPath(Vol(k)) = {<<1, <<k>> >>}
    <3>1. Elements(<<k>>) = {<<1, <<k>> >>}
      BY <2>3, SingleElement
    <3> QED BY <2>3, <3>1 DEF getInternalMountPath
  <2>7. getInternalMountPath(Vol(m)) # getInternalMountPath(Vol(n))
    <3> SUFFICES ASSUME {<<1, <<m>> >>} = {<<1, <<n>> >>} PROVE FALSE
      BY <2>6
    <3>1. <<1, <<m>> >> = <<1, <<n>> >>
      OBVIOUS
    <3>2. <<m>> = <<n>>
      BY <3>1
    <3>3. <<m>>[1] = m /\ <<n>>[1] = n
      OBVIOUS
    <3> QED BY <3>2, <3>3
  <2>8. ASSUME NEW k \in {m, n}, ~HasSeparator, deleted[k] # Pending
        PROVE  getInternalMountPath(deleted[k]) = getInternalMountPath(created[k])
    <3>1. deleted[k] = getSmbVolFromID(getVolumeIDFromSmbVol(created[k])) /\ k \in Names
      BY <2>1, <2>8 DEF VolumesInv
    <3>2. class.source \in Strings /\ class.subDir \in Strings
      BY <2>2, ClassAssumption DEF Classes, Strings
    <3>3. "#" \notin ToSet(class.source) /\ "#" \notin ToSet(class.subDir)
      BY <2>8, <3>2, ConcatToSet DEF HasSeparator
    <3>4. created[k].status = "ok" /\ created[k] = newSMBVolume(k, class)
      BY <2>1, <2>2
    <3>5. Meaning(deleted[k]) = Meaning(created[k])
      BY <2>2, <3>1, <3>3, <3>4, RoundTrip
    <3> QED BY <3>5 DEF Meaning
  <2> QED BY <2>5, <2>7, <2>8
<1> QED BY <1>1, VolumesInvInductive, PTL

-----------------------------------------------------------------------------
(* The names of volumes change the elements of a path, not where they are. *)
LEMMA ElementReplace ==
  ASSUME NEW t \in Strings, NEW n \in Tokens, n # "/", n # "."
  PROVE  /\ Starts(Replace(t, n)) = Starts(t)
         /\ \A i \in 1..Len(t) : Element(Replace(t, n), i) = Replace(Element(t, i), n)
         /\ \A i : Depth(Replace(t, n), i) = Depth(t, i)
<1> USE DEF Strings
<1> DEFINE r == Replace(t, n)
           Run(u, p) == {k \in DOMAIN u : \A j \in p .. p + k - 1 : j \in DOMAIN u /\ u[j] # "/"}
<1>1. /\ r \in Strings /\ Len(r) = Len(t) /\ DOMAIN r = 1..Len(t) /\ DOMAIN t = 1..Len(t)
      /\ \A i \in 1..Len(t) : r[i] = (IF t[i] = "$pv" THEN n ELSE t[i])
  BY DEF Replace
<1>2. \A i \in 1..Len(t) : r[i] = "/" <=> t[i] = "/"
  BY <1>1
<1> HIDE DEF r
<1>3. ASSUME NEW i \in 1..Len(t) PROVE Element(r, i) = Replace(Element(t, i), n)
  <2>1. Run(r, i) = Run(t, i)
    BY <1>1, <1>2
  <2>2. ASSUME NEW k \in Run(t, i) PROVE i + k - 1 \in 1..Len(t)
    <3>1. i + k - 1 \in i .. i + k - 1
      BY <1>1
    <3> QED BY <1>1, <3>1
  <2>3. Element(r, i) = [k \in Run(r, i) |-> r[i + k - 1]]
    BY DEF Element
  <2>4. Element(t, i) = [k \in Run(t, i) |-> t[i + k - 1]]
    BY DEF Element
  <2> HIDE DEF Run
  <2>5. Replace(Element(t, i), n)
          = [k \in Run(t, i) |-> IF t[i + k - 1] = "$pv" THEN n ELSE t[i + k - 1]]
    BY <2>4 DEF Replace
  <2>6. \A k \in Run(t, i) :
          r[i + k - 1] = (IF t[i + k - 1] = "$pv" THEN n ELSE t[i + k - 1])
    BY <1>1, <2>2
  <2> QED BY <2>1, <2>3, <2>5, <2>6
<1>4. ASSUME NEW i \in 1..Len(t) PROVE Element(r, i) = <<".">> <=> Element(t, i) = <<".">>
  <2> DEFINE e == Element(t, i)
  <2>1. /\ DOMAIN Replace(e, n) = DOMAIN e
        /\ \A k \in DOMAIN e : Replace(e, n)[k] = (IF e[k] = "$pv" THEN n ELSE e[k])
    BY DEF Replace
  <2>2. e = [k \in DOMAIN e |-> e[k]] /\ Replace(e, n) = [k \in DOMAIN e |-> Replace(e, n)[k]]
    BY DEF Element, Replace
  <2> HIDE DEF e
  <2>3. DOMAIN <<".">> = {1} /\ <<".">>[1] = "." /\ <<".">> = [k \in {1} |-> "."]
    OBVIOUS
  <2>4. e = <<".">> <=> DOMAIN e = {1} /\ e[1] = "."
    BY <2>2, <2>3
  <2>5. Replace(e, n) = <<".">> <=> DOMAIN e = {1} /\ Replace(e, n)[1] = "."
    BY <2>1, <2>2, <2>3
  <2>6. DOMAIN e = {1} => (Replace(e, n)[1] = "." <=> e[1] = ".")
    BY <2>1
  <2> QED BY <1>3, <2>4, <2>5, <2>6 DEF e
<1>5. Starts(r) = Starts(t)
  <2>1. ASSUME NEW i \in 1..Len(t), i # 1 PROVE i - 1 \in 1..Len(t)
    BY <2>1
  <2> QED BY <1>1, <1>2, <1>4, <2>1 DEF Starts
<1>6. \A i : Depth(r, i) = Depth(t, i)
  BY <1>5 DEF Depth
<1> QED BY <1>3, <1>5, <1>6 DEF r

(* Of two elements with the same depth there is only one. *)
LEMMA DepthUnique ==
  ASSUME NEW s \in Strings, NEW i \in Starts(s), NEW j \in Starts(s), Depth(s, i) = Depth(s, j)
  PROVE  i = j
<1>1. i \in Nat /\ j \in Nat
  BY StartsFinite DEF Strings
<1>2. Depth(s, i) \in Nat
  BY <1>1, StartsFinite
<1>3. ~(i < j) /\ ~(j < i)
  BY <1>2, DepthGrows
<1> QED BY <1>1, <1>3

(* b is what is left of t when it is cut at its first '#', all of t if it  *)
(* has none.                                                               *)
CutOff(b, t) ==
  /\ Len(b) <= Len(t)
  /\ \A i \in 1..Len(b) : b[i] = t[i]
  /\ "#" \notin ToSet(b)
  /\ Len(b) < Len(t) => t[Len(b) + 1] = "#"

(* The elements before a slash that is left are left as they are. *)
LEMMA CutOffElement ==
  ASSUME NEW b \in Strings, NEW t \in Strings, CutOff(b, t),
         NEW c \in 1..Len(b), b[c] = "/", NEW i \in 1..c
  PROVE  Element(b, i) = Element(t, i) /\ (i \in Starts(b) <=> i \in Starts(t))
<1> USE DEF Strings
<1> DEFINE Run(u, p) == {k \in DOMAIN u : \A j \in p .. p + k - 1 : j \in DOMAIN u /\ u[j] # "/"}
<1>1. /\ Len(b) \in Nat /\ Len(t) \in Nat /\ Len(b) <= Len(t)
      /\ DOMAIN b = 1..Len(b) /\ DOMAIN t = 1..Len(t)
      /\ \A j \in 1..Len(b) : b[j] = t[j]
  BY DEF CutOff
<1>2. ASSUME NEW k \in Run(b, i) PROVE k \in Run(t, i) /\ b[i + k - 1] = t[i + k - 1]
  <2>1. k \in 1..Len(b) /\ \A j \in i .. i + k - 1 : j \in 1..Len(b) /\ b[j] # "/"
    BY <1>1
  <2>2. i + k - 1 \in i .. i + k - 1
    BY <2>1
  <2>3. \A j \in i .. i + k - 1 : j \in 1..Len(t) /\ t[j] # "/"
    BY <1>1, <2>1
  <2> QED BY <1>1, <2>1, <2>2, <2>3
<1>3. ASSUME NEW k \in Run(t, i) PROVE k \in Run(b, i)
  <2>1. k \in 1..Len(t) /\ \A j \in i .. i + k - 1 : j \in 1..Len(t) /\ t[j] # "/"
    BY <1>1
  <2>2. c \notin i .. i + k - 1
    BY <1>1, <2>1
  <2>3. i + k - 1 < c
    BY <1>1, <2>1, <2>2
  <2>4. k \in 1..Len(b) /\ \A j \in i .. i + k - 1 : j \in 1..Len(b)
    BY <1>1, <2>1, <2>3
  <2> QED BY <1>1, <2>1, <2>4
<1>4. Run(b, i) = Run(t, i)
  BY <1>2, <1>3
<1>5. Element(b, i) = [k \in Run(b, i) |-> b[i + k - 1]]
  BY DEF Element
<1>6. Element(t, i) = [k \in Run(t, i) |-> t[i + k - 1]]
  BY DEF Element
<1>7. Element(b, i) = Element(t, i)
  <2> HIDE DEF Run
  <2> QED BY <1>2, <1>4, <1>5, <1>6
<1>8. i \in 1..Len(b) /\ i \in 1..Len(t) /\ (i # 1 => i - 1 \in 1..Len(b))
  BY <1>1
<1> QED BY <1>1, <1>7, <1>8 DEF Starts

(* Up to a start of t right after what is left, the starts are the same.   *)
LEMMA CutOffStarts ==
  ASSUME NEW b \in Strings, NEW t \in Strings, CutOff(b, t),
         NEW i \in Starts(t), i <= Len(b) + 1
  PROVE  /\ i # 1 => i - 1 \in 1..Len(b) /\ b[i - 1] = "/"
         /\ {j \in Starts(b) : j < i} = {j \in Starts(t) : j < i}
<1>0. Starts(b) \subseteq 1..Len(b) /\ Starts(t) \subseteq 1..Len(t)
  BY StartsFinite
<1>1. /\ Len(b) \in Nat /\ Len(t) \in Nat /\ i \in 1..Len(t)
      /\ Starts(b) \subseteq 1..Len(b) /\ Starts(t) \subseteq 1..Len(t)
  BY <1>0 DEF Strings
<1>2. i = 1 \/ t[i - 1] = "/"
  BY DEF Starts
<1>3. CASE i = 1
  <2>1. \A j \in Starts(b) \cup Starts(t) : j >= 1
    BY <1>1
  <2>2. {j \in Starts(b) : j < i} = {} /\ {j \in Starts(t) : j < i} = {}
    BY <1>1, <1>3, <2>1
  <2> QED BY <1>3, <2>2
<1>4. CASE i # 1
  <2>1. i - 1 \in 1..Len(b) /\ b[i - 1] = "/"
    BY <1>1, <1>2, <1>4 DEF CutOff
  <2>2. \A j \in 1 .. i - 1 : j \in Starts(b) <=> j \in Starts(t)
    BY <2>1, CutOffElement
  <2>3. \A j \in Starts(b) \cup Starts(t) : j < i => j \in 1 .. i - 1
    BY <1>1
  <2> QED BY <2>1, <2>2, <2>3
<1> QED BY <1>3, <1>4

LEMMA CutOffDepth ==
  ASSUME NEW b \in Strings, NEW t \in Strings, CutOff(b, t),
         NEW i \in Starts(t), i \in Starts(b)
  PROVE  Depth(b, i) = Depth(t, i)
<1>0. Starts(b) \subseteq 1..Len(b) /\ Starts(t) \subseteq 1..Len(t)
  BY StartsFinite
<1>1. /\ Starts(b) \subseteq 1..Len(b) /\ Starts(t) \subseteq 1..Len(t)
      /\ Len(b) \in Nat /\ Len(t) \in Nat
  BY <1>0 DEF Strings
<1>2. i <= Len(b) + 1
  BY <1>1
<1>3. {j \in Starts(b) : j < i} = {j \in Starts(t) : j < i}
  BY <1>2, CutOffStarts
<1>4. {j \in Starts(b) : j <= i} = {j \in Starts(t) : j <= i}
  BY <1>1, <1>3
<1> QED BY <1>4 DEF Depth

(* If what is left of the pattern has the name in it, no path of one       *)
(* volume is at or above that of another.                                  *)
LEMMA RemovedApart ==
  ASSUME NEW b \in Strings, NEW t \in Strings, CutOff(b, t),
         "$pv" \in ToSet(b), NEW m \in Names, NEW n \in Names, m # n
  PROVE  ~(Elements(Replace(b, m)) \subseteq Elements(Replace(t, n)))
<1> DEFINE r == Replace(b, m)
           s == Replace(t, n)
<1>1. /\ m \in Tokens /\ m # "/" /\ m # "." /\ n \in Tokens /\ n # "/" /\ n # "."
  BY NamesAssumption
<1>2. PICK k \in 1..Len(b) : b[k] = "$pv"
  BY DEF ToSet, Strings
<1>3. PICK i \in Starts(b) : /\ k - i + 1 \in DOMAIN Element(b, i)
                             /\ Element(b, i)[k - i + 1] = "$pv"
  BY <1>2, ElementOf
<1>4. i \in 1..Len(b) /\ Len(b) \in Nat /\ Len(b) <= Len(t) /\ Len(t) \in Nat
  <2>1. i \in 1..Len(b)
    BY StartsFinite
  <2> QED BY <2>1 DEF Strings, CutOff
<1>5. k - i + 1 \in DOMAIN Element(t, i) /\ Element(t, i)[k - i + 1] = "$pv"
  <2>1. /\ DOMAIN b = 1..Len(b) /\ DOMAIN t = 1..Len(t)
        /\ \A j \in 1..Len(b) : b[j] = t[j]
    BY DEF Strings, CutOff
  <2>2. /\ k - i + 1 \in 1..Len(b)
        /\ \A j \in i .. i + (k - i + 1) - 1 : j \in 1..Len(b) /\ b[j] # "/"
    BY <1>3, <2>1 DEF Element
  <2>3. /\ k - i + 1 \in 1..Len(t)
        /\ \A j \in i .. i + (k - i + 1) - 1 : j \in 1..Len(t) /\ t[j] # "/"
    BY <1>4, <2>1, <2>2
  <2>4. i + (k - i + 1) - 1 = k /\ t[k] = "$pv"
    BY <1>2, <1>4, <2>1
  <2> QED BY <2>1, <2>3, <2>4 DEF Element
<1>6. i \in Starts(t)
  <2>1. Element(t, i) # <<".">>
    <3>1. DOMAIN <<".">> = {1} /\ <<".">>[1] = "."
      OBVIOUS
    <3> QED BY <1>5, <3>1
  <2>2. /\ i \in 1..Len(t) /\ t[i] # "/" /\ (i = 1 \/ t[i - 1] = "/")
    BY <1>4 DEF Starts, CutOff, Strings
  <2> QED BY <2>1, <2>2 DEF Starts, Strings
<1>7. Depth(b, i) = Depth(t, i) /\ i \in 1..Len(t)
  BY <1>4, <1>6, CutOffDepth
<1>8. /\ Starts(r) = Starts(b) /\ Depth(r, i) = Depth(b, i)
      /\ Element(r, i) = Replace(Element(b, i), m)
  BY <1>1, <1>4, ElementReplace
<1>9. /\ Starts(s) = Starts(t) /\ \A j : Depth(s, j) = Depth(t, j)
      /\ Element(s, i) = Replace(Element(t, i), n)
  BY <1>1, <1>7, ElementReplace
<1>10. Element(r, i)[k - i + 1] = m /\ Element(s, i)[k - i + 1] = n
  BY <1>3, <1>5, <1>8, <1>9 DEF Replace
<1> HIDE DEF r, s
<1>11. <<Depth(r, i), Element(r, i)>> \in Elements(r)
  BY <1>3, <1>8 DEF Elements
<1>12. ASSUME <<Depth(r, i), Element(r, i)>> \in Elements(s) PROVE FALSE
  <2>1. PICK j \in Starts(s) : Depth(s, j) = Depth(r, i) /\ Element(s, j) = Element(r, i)
    BY <1>12 DEF Elements
  <2>2. j \in Starts(t) /\ Depth(t, j) = Depth(t, i)
    BY <1>7, <1>8, <1>9, <2>1
  <2>3. i = j
    BY <1>6, <2>2, DepthUnique
  <2> QED BY <1>10, <2>1, <2>3
<1> QED BY <1>11, <1>12 DEF r, s

-----------------------------------------------------------------------------
(* The element a path begins with has depth 1. *)
LEMMA DepthFirst ==
  ASSUME NEW s \in Strings, 1 \in Starts(s)
  PROVE  Depth(s, 1) = 1
<1>1. \A j \in Starts(s) : j \in Nat /\ j >= 1
  BY StartsFinite DEF Strings
<1>2. {j \in Starts(s) : j <= 1} = {1}
  BY <1>1
<1> QED BY <1>2, FS_Singleton DEF Depth

Archived(r) == <<"archived-">> \o r

(* The path of the archived directory is that of the volume one token      *)
(* later.  The prefix becomes part of its first element, or takes the      *)
(* place of a leading "." or "/".                                          *)
LEMMA ArchivedShape ==
  ASSUME NEW r \in Strings
  PROVE  /\ Archived(r) \in Strings /\ Len(Archived(r)) = Len(r) + 1 /\ Len(r) \in Nat
         /\ Archived(r)[1] = "archived-"
         /\ \A i \in 1..Len(r) : /\ Archived(r)[i + 1] = r[i]
                                 /\ Element(Archived(r), i + 1) = Element(r, i)
         /\ 1 \in Starts(Archived(r))
         /\ \A i \in Starts(r) : i # 1 => i + 1 \in Starts(Archived(r))
         /\ \A i \in Starts(Archived(r)) : i # 1 => i - 1 \in Starts(r) /\ i - 1 # 1
<1> DEFINE arch == <<"archived-">>
           U == Archived(r)
<1>6. arch \in Strings /\ Len(arch) = 1 /\ arch[1] = "archived-"
  BY ClassAssumption DEF Strings
<1> HIDE DEF arch
<1>7. /\ U \in Strings /\ Len(U) = Len(r) + 1 /\ Len(r) \in Nat
      /\ U[1] = "archived-"
      /\ \A i \in 1..Len(r) : r[i] = U[i + 1]
  <2>0. U = arch \o r
    BY DEF Archived, arch
  <2>1. /\ arch \o r \in Strings /\ Len(arch \o r) = Len(arch) + Len(r) /\ Len(r) \in Nat
        /\ \A i \in 1..Len(arch) : (arch \o r)[i] = arch[i]
        /\ \A i \in 1..Len(r) : (arch \o r)[Len(arch) + i] = r[i]
    BY <1>6, ConcatTokens
  <2>2. \A i \in 1..Len(r) : Len(arch) + i = i + 1
    BY <1>6, <2>1
  <2> HIDE DEF U
  <2> QED BY <1>6, <2>0, <2>1, <2>2
<1> HIDE DEF U
<1>8. DOMAIN U = 1..Len(U) /\ DOMAIN r = 1..Len(r)
  BY <1>7 DEF Strings
<1>9. ASSUME NEW i \in 1..Len(r) PROVE Element(r, i) = Element(U, i + 1)
  <2>1. \A k \in 1..Len(U) : k > 1 /\ U[k] # "/" => k - 1 \in 1..Len(r)
    BY <1>7
  <2>2. 1 + Len(r) <= Len(U)
    BY <1>7
  <2> QED BY <1>7, <2>1, <2>2, ElementBelow
<1>10. 1 \in DOMAIN Element(U, 1) /\ Element(U, 1)[1] = "archived-"
  BY <1>7, <1>8 DEF Element
<1>11. 1 \in Starts(U)
  <2>1. Element(U, 1) # <<".">>
    BY <1>10
  <2> QED BY <1>7, <1>8, <2>1 DEF Starts
<1>12. ASSUME NEW i \in Starts(r), i # 1 PROVE i + 1 \in Starts(U)
  <2>1. /\ i \in 1..Len(r) /\ r[i] # "/" /\ r[i - 1] = "/" /\ Element(r, i) # <<".">>
    BY <1>8, <1>12 DEF Starts
  <2>2. i - 1 \in 1..Len(r) /\ (i - 1) + 1 = i /\ i + 1 \in 1..Len(U) /\ (i + 1) - 1 = i
    BY <1>7, <1>12, <2>1
  <2>3. U[i + 1] = r[i] /\ U[(i + 1) - 1] = "/"
    BY <1>7, <2>1, <2>2
  <2> QED BY <1>8, <1>9, <2>1, <2>2, <2>3 DEF Starts
<1>13. ASSUME NEW i \in Starts(U), i # 1 PROVE i - 1 \in Starts(r) /\ i - 1 # 1
  <2>1. /\ i \in 1..Len(U) /\ U[i] # "/" /\ U[i - 1] = "/" /\ Element(U, i) # <<".">>
    BY <1>8, <1>13 DEF Starts
  <2>2. i # 2
    BY <1>7, <2>1
  <2>3. /\ i - 1 \in 1..Len(r) /\ (i - 1) - 1 \in 1..Len(r) /\ (i - 1) + 1 = i
        /\ ((i - 1) - 1) + 1 = i - 1 /\ i - 1 # 1
    BY <1>7, <1>13, <2>1, <2>2
  <2>4. r[i - 1] = U[i] /\ r[(i - 1) - 1] = U[i - 1]
    BY <1>7, <2>3
  <2>5. Element(r, i - 1) = Element(U, i)
    BY <1>9, <2>3
  <2> QED BY <1>8, <2>1, <2>3, <2>4, <2>5 DEF Starts
<1> QED BY <1>7, <1>9, <1>11, <1>12, <1>13 DEF U

(* If the prefix takes the place of a leading "." or "/", every element is *)
(* one deeper.                                                             *)
LEMMA ArchivedDepth ==
  ASSUME NEW r \in Strings, 1 \notin Starts(r), NEW j \in Starts(r)
  PROVE  Depth(Archived(r), j + 1) = Depth(r, j) + 1
<1> DEFINE U == Archived(r)
           A == {x \in Starts(r) : x <= j}
           B == {x + 1 : x \in A}
           f == [x \in A |-> x + 1]
<1>1. /\ U \in Strings /\ 1 \in Starts(U)
      /\ \A i \in Starts(r) : i # 1 => i + 1 \in Starts(U)
      /\ \A i \in Starts(U) : i # 1 => i - 1 \in Starts(r) /\ i - 1 # 1
  BY ArchivedShape
<1> HIDE DEF U
<1>2. Starts(U) \subseteq Nat /\ Starts(r) \subseteq Nat
  <2>1. Starts(U) \subseteq 1..Len(U) /\ Starts(r) \subseteq 1..Len(r)
    BY <1>1, StartsFinite
  <2> QED BY <1>1, <2>1 DEF Strings
<1>3. IsFiniteSet(A) /\ Cardinality(A) \in Nat
  BY <1>2, StartsFinite, FS_CardinalityType
<1>4. {y \in Starts(U) : y <= j + 1} = B \cup {1}
  <2>1. ASSUME NEW y \in Starts(U), y <= j + 1, y # 1 PROVE y \in B
    <3>1. y - 1 \in Starts(r) /\ y - 1 <= j /\ (y - 1) + 1 = y
      BY <1>1, <1>2, <2>1
    <3> QED BY <3>1
  <2>2. ASSUME NEW x \in A PROVE x + 1 \in Starts(U) /\ x + 1 <= j + 1
    BY <1>1, <1>2
  <2>3. 1 <= j + 1
    BY <1>2
  <2> QED BY <1>1, <2>1, <2>2, <2>3
<1>5. 1 \notin B
  <2>1. \A x \in Starts(r) : x >= 1
    BY StartsFinite
  <2>2. \A x \in A : x + 1 # 1
    BY <1>2, <2>1
  <2> QED BY <2>2
<1>6. f \in [A -> B] /\ (\A i, k \in A : f[i] = f[k] => i = k) /\ (\A k \in B : \E i \in A : f[i] = k)
  BY <1>2
<1> HIDE DEF A, B, f
<1>7. f \in Bijection(A, B)
  BY <1>6 DEF Bijection, Injection, Surjection, IsInjective
<1>8. IsFiniteSet(B) /\ Cardinality(B) = Cardinality(A)
  BY <1>3, <1>7, FS_Bijection DEF ExistsBijection
<1>9. Cardinality(B \cup {1}) = Cardinality(B) + 1
  BY <1>5, <1>8, FS_AddElement
<1>10. Depth(U, j + 1) = Cardinality(A) + 1
  BY <1>4, <1>8, <1>9 DEF Depth
<1> QED BY <1>10 DEF A, U, Depth

(* A path whose first element is as long as the volume's is not that of    *)
(* the archived directory, whose first element is longer.                  *)
LEMMA FirstElementLonger ==
  ASSUME NEW r \in Strings, NEW s \in Strings, 1 \in Starts(r), 1 \in Starts(s),
         DOMAIN Element(s, 1) = DOMAIN Element(r, 1)
  PROVE  ~(Elements(Archived(r)) \subseteq Elements(s))
<1> DEFINE U == Archived(r)
           D == DOMAIN Element(r, 1)
<1>1. /\ U \in Strings /\ Len(U) = Len(r) + 1 /\ Len(r) \in Nat /\ U[1] = "archived-"
      /\ \A i \in 1..Len(r) : U[i + 1] = r[i]
      /\ 1 \in Starts(U)
  BY ArchivedShape
<1> HIDE DEF U
<1> SUFFICES ASSUME Elements(U) \subseteq Elements(s) PROVE FALSE
  BY DEF U
<1>2. <<1, Element(U, 1)>> \in Elements(s)
  <2>1. Depth(U, 1) = 1
    BY <1>1, DepthFirst
  <2>2. <<Depth(U, 1), Element(U, 1)>> \in Elements(U)
    BY <1>1 DEF Elements
  <2> QED BY <2>1, <2>2
<1>3. PICK j \in Starts(s) : Depth(s, j) = 1 /\ Element(s, j) = Element(U, 1)
  BY <1>2 DEF Elements
<1>4. j = 1
  BY <1>3, DepthFirst, DepthUnique
<1>5. DOMAIN U = 1..Len(U) /\ DOMAIN r = 1..Len(r)
  BY <1>1 DEF Strings
<1>6. 1 \in 1..Len(r) /\ r[1] # "/"
  BY <1>5 DEF Starts
<1>7. D = DOMAIN Element(U, 1)
  BY <1>3, <1>4
<1>8. D \in SUBSET (1..Len(r)) /\ 1 \in D
  BY <1>1, <1>5, <1>6 DEF Element
<1>9. ASSUME NEW k \in D PROVE k + 1 \in D
  <2>1. k \in 1..Len(r) /\ \A i \in 1 .. 1 + k - 1 : i \in DOMAIN r /\ r[i] # "/"
    BY <1>5 DEF Element
  <2>2. k + 1 \in 1..Len(U)
    BY <1>1, <2>1
  <2>3. ASSUME NEW i \in 1 .. 1 + (k + 1) - 1 PROVE i \in 1..Len(U) /\ U[i] # "/"
    <3>1. CASE i = 1
      BY <1>1, <2>2, <3>1
    <3>2. CASE i # 1
      <4>1. i - 1 \in 1 .. 1 + k - 1 /\ i - 1 \in 1..Len(r) /\ (i - 1) + 1 = i /\ i \in 1..Len(U)
        BY <1>1, <2>1, <3>2
      <4>2. r[i - 1] = U[i] /\ r[i - 1] # "/"
        BY <1>1, <2>1, <4>1
      <4> QED BY <4>1, <4>2
    <3> QED BY <3>1, <3>2
  <2>4. k + 1 \in DOMAIN Element(U, 1)
    BY <1>5, <2>2, <2>3 DEF Element
  <2> QED BY <1>7, <2>4
<1> HIDE DEF D
<1>10. PICK g \in D : \A y \in D : g >= y
  BY <1>1, <1>8, Greatest
<1>11. g + 1 \in D /\ g \in Nat
  BY <1>1, <1>8, <1>9
<1> QED BY <1>10, <1>11

(* The archived directory of one volume is not at or above the directory   *)
(* of another.  If nothing is cut off: its first element is longer or, if  *)
(* the path begins with "./", it has one element more.                     *)
LEMMA ArchivedApart ==
  ASSUME NEW t \in Strings, NEW m \in Names, NEW n \in Names
  PROVE  ~(Elements(Archived(Replace(t, m))) \subseteq Elements(Replace(t, n)))
<1> DEFINE r == Replace(t, m)
           s == Replace(t, n)
           U == Archived(r)
<1>1. /\ m \in Tokens /\ m # "/" /\ m # "." /\ n \in Tokens /\ n # "/" /\ n # "."
  BY NamesAssumption
<1>2. r \in Strings /\ s \in Strings
  BY <1>1 DEF Replace, Strings
<1>3. /\ Starts(r) = Starts(t) /\ \A i : Depth(r, i) = Depth(t, i)
      /\ \A i \in 1..Len(t) : Element(r, i) = Replace(Element(t, i), m)
  BY <1>1, ElementReplace
<1>4. /\ Starts(s) = Starts(t) /\ \A i : Depth(s, i) = Depth(t, i)
      /\ \A i \in 1..Len(t) : Element(s, i) = Replace(Element(t, i), n)
  BY <1>1, ElementReplace
<1>5. \A i \in 1..Len(t) : DOMAIN Element(s, i) = DOMAIN Element(r, i)
  BY <1>3, <1>4 DEF Replace
<1>6. Starts(t) \subseteq 1..Len(t) /\ Len(t) \in Nat
  BY StartsFinite DEF Strings
<1> HIDE DEF r, s
<1>7. CASE 1 \in Starts(t)
  BY <1>2, <1>3, <1>4, <1>5, <1>6, <1>7, FirstElementLonger DEF r, s
<1>8. ASSUME 1 \notin Starts(t), Elements(U) \subseteq Elements(s) PROVE FALSE
  <2>1. /\ 1 \in Starts(U)
        /\ \A i \in Starts(r) : i # 1 => i + 1 \in Starts(U)
    BY <1>2, ArchivedShape
  <2> HIDE DEF U
  <2>2. Starts(t) # {}
    <3>1. <<Depth(U, 1), Element(U, 1)>> \in Elements(s)
      BY <1>8, <2>1 DEF Elements
    <3> QED BY <1>4, <3>1 DEF Elements
  <2>3. PICK g \in Starts(t) : \A y \in Starts(t) : g >= y
    BY <1>6, <2>2, Greatest
  <2>4. Depth(U, g + 1) = Depth(t, g) + 1
    BY <1>2, <1>3, <1>8, ArchivedDepth DEF U
  <2>5. g + 1 \in Starts(U)
    BY <1>3, <1>8, <2>1
  <2>6. <<Depth(U, g + 1), Element(U, g + 1)>> \in Elements(s)
    BY <1>8, <2>5 DEF Elements
  <2>7. PICK j \in Starts(t) : Depth(t, j) = Depth(t, g) + 1
    BY <1>4, <2>4, <2>6 DEF Elements
  <2>8. /\ j \in Nat /\ g \in Nat /\ j <= g
        /\ Depth(t, j) \in Nat /\ Depth(t, g) \in Nat
    <3>1. j \in Nat /\ g \in Nat /\ j <= g
      BY <1>6, <2>3
    <3>2. \A i \in Nat : Depth(t, i) \in Nat
      BY StartsFinite
    <3> QED BY <3>1, <3>2
  <2>9. j < g => Depth(t, j) < Depth(t, g)
    BY DepthGrows
  <2> QED BY <2>7, <2>8, <2>9
<1> QED BY <1>7, <1>8 DEF r, s

(* If something is cut off, the path of the other volume has a '#' in an   *)
(* element the archived one has, too, and has no '#' in; or the first      *)
(* elements are whole and one is longer.                                   *)
LEMMA ArchivedCutApart ==
  ASSUME NEW b \in Strings, NEW t \in Strings, CutOff(b, t), Len(b) < Len(t),
         NEW m \in Names, NEW n \in Names
  PROVE  ~(Elements(Archived(Replace(b, m))) \subseteq Elements(Replace(t, n)))
<1> DEFINE r == Replace(b, m)
           s == Replace(t, n)
           U == Archived(r)
<1>0. /\ m \in Tokens /\ m # "/" /\ m # "." /\ m # "#"
      /\ n \in Tokens /\ n # "/" /\ n # "."
  BY NamesAssumption
<1>1. r \in Strings /\ s \in Strings /\ Len(r) = Len(b) /\ Len(b) \in Nat /\ Len(t) \in Nat
  <2>1. r \in Strings /\ Len(r) = Len(b) /\ Len(b) \in Nat
    BY <1>0 DEF Replace, Strings
  <2>2. s \in Strings /\ Len(t) \in Nat
    BY <1>0 DEF Replace, Strings
  <2> QED BY <2>1, <2>2
<1>2. /\ Starts(r) = Starts(b) /\ \A i : Depth(r, i) = Depth(b, i)
      /\ \A i \in 1..Len(b) : Element(r, i) = Replace(Element(b, i), m)
  BY <1>0, ElementReplace
<1>3. /\ Starts(s) = Starts(t) /\ \A i : Depth(s, i) = Depth(t, i)
      /\ \A i \in 1..Len(t) : Element(s, i) = Replace(Element(t, i), n)
  BY <1>0, ElementReplace
<1>4. Len(b) + 1 \in 1..Len(t) /\ t[Len(b) + 1] = "#"
  BY <1>1 DEF CutOff
<1>5. PICK i \in Starts(t) :
        /\ i <= Len(b) + 1
        /\ (Len(b) + 1) - i + 1 \in DOMAIN Element(t, i)
        /\ Element(t, i)[(Len(b) + 1) - i + 1] = "#"
  BY <1>4, ElementOf
<1>6. Starts(t) \subseteq 1..Len(t) /\ Starts(b) \subseteq 1..Len(b)
  BY StartsFinite
<1>7. \E k \in DOMAIN Element(s, i) : Element(s, i)[k] = "#"
  <2>1. Element(s, i) = Replace(Element(t, i), n)
    BY <1>3, <1>6
  <2> QED BY <1>5, <2>1 DEF Replace
<1>8. /\ U \in Strings /\ 1 \in Starts(U)
      /\ \A j \in Starts(r) : j # 1 => j + 1 \in Starts(U)
  BY <1>1, ArchivedShape
<1>9. "#" \notin ToSet(U)
  <2>1. "#" \notin ToSet(r)
    BY <1>0, ReplaceTokens DEF CutOff
  <2>2. /\ Len(U) = Len(r) + 1 /\ U[1] = "archived-"
        /\ \A j \in 1..Len(r) : U[j + 1] = r[j]
    BY <1>1, ArchivedShape
  <2> HIDE DEF r, U
  <2>3. \A j \in 1..Len(r) : r[j] # "#"
    BY <1>1, <2>1 DEF ToSet, Strings
  <2>4. ASSUME NEW j \in 1..Len(U) PROVE U[j] # "#"
    <3>1. j # 1 => j - 1 \in 1..Len(r) /\ (j - 1) + 1 = j
      BY <1>1, <2>2
    <3> QED BY <2>2, <2>3, <3>1
  <2> QED BY <1>8, <2>4 DEF ToSet, Strings
<1> HIDE DEF r, s, U
<1>10. ASSUME NEW g \in Starts(U), Depth(U, g) = Depth(t, i), Elements(U) \subseteq Elements(s)
       PROVE  FALSE
  <2>1. <<Depth(U, g), Element(U, g)>> \in Elements(s)
    BY <1>10 DEF Elements
  <2>2. PICK j \in Starts(s) : Depth(s, j) = Depth(U, g) /\ Element(s, j) = Element(U, g)
    BY <2>1 DEF Elements
  <2>3. j = i
    BY <1>3, <1>10, <2>2, DepthUnique
  <2>4. PICK k \in DOMAIN Element(U, g) : Element(U, g)[k] = "#"
    BY <1>7, <2>2, <2>3
  <2>5. Element(U, g)[k] \in ToSet(U)
    BY <1>8, ElementTokens
  <2> QED BY <1>9, <2>4, <2>5
<1>11. /\ i # 1 => i - 1 \in 1..Len(b) /\ b[i - 1] = "/"
       /\ {j \in Starts(b) : j < i} = {j \in Starts(t) : j < i}
  BY <1>5, CutOffStarts
<1>12. CASE {j \in Starts(t) : j < i} = {}
  <2>1. {j \in Starts(t) : j <= i} = {i}
    BY <1>6, <1>12
  <2>2. Depth(t, i) = 1
    BY <2>1, FS_Singleton DEF Depth
  <2>3. Depth(U, 1) = 1
    BY <1>8, DepthFirst
  <2> QED BY <1>8, <1>10, <2>2, <2>3 DEF r, s, U
<1>13. CASE {j \in Starts(t) : j < i} # {} /\ 1 \notin Starts(t)
  <2> DEFINE T == {j \in Starts(t) : j < i}
  <2>1. T \in SUBSET (1..Len(t)) /\ T # {}
    BY <1>6, <1>13
  <2>2. PICK j \in T : \A y \in T : j >= y
    <3> HIDE DEF T
    <3> QED BY <1>1, <2>1, Greatest
  <2>3. j \in Starts(b) /\ j \in Starts(t) /\ j < i /\ j # 1
    BY <1>11, <1>13
  <2>4. 1 \notin Starts(b)
    <3>1. \A y \in Starts(b) : y = 1 => y < i
      BY <1>6, <2>3
    <3> QED BY <1>11, <1>13, <3>1
  <2>5. Depth(t, i) = Depth(t, j) + 1
    <3> DEFINE A == {y \in Starts(t) : y <= j}
    <3>1. {y \in Starts(t) : y <= i} = A \cup {i} /\ i \notin A
      BY <1>6, <2>2, <2>3
    <3>2. IsFiniteSet(A)
      <4>1. j \in Nat
        BY <1>6, <2>3
      <4> QED BY <4>1, StartsFinite
    <3> HIDE DEF A
    <3>3. Cardinality(A \cup {i}) = Cardinality(A) + 1
      BY <3>1, <3>2, FS_AddElement
    <3> QED BY <3>1, <3>3 DEF Depth, A
  <2>6. Depth(U, j + 1) = Depth(r, j) + 1
    BY <1>1, <1>2, <2>3, <2>4, ArchivedDepth DEF U
  <2>7. Depth(r, j) = Depth(t, j)
    BY <1>2, <2>3, CutOffDepth
  <2>8. j + 1 \in Starts(U)
    BY <1>2, <1>8, <2>3
  <2> QED BY <1>10, <2>5, <2>6, <2>7, <2>8 DEF r, s, U
<1>14. CASE {j \in Starts(t) : j < i} # {} /\ 1 \in Starts(t)
  <2>1. i # 1 /\ 1 \in 1 .. i - 1 /\ 1 \in 1..Len(b) /\ 1 \in 1..Len(t)
    BY <1>1, <1>6, <1>11, <1>14
  <2>2. Element(b, 1) = Element(t, 1) /\ 1 \in Starts(b)
    BY <1>11, <1>14, <2>1, CutOffElement
  <2>3. DOMAIN Element(s, 1) = DOMAIN Element(r, 1)
    BY <1>2, <1>3, <2>1, <2>2 DEF Replace
  <2>4. 1 \in Starts(r) /\ 1 \in Starts(s)
    BY <1>2, <1>3, <1>14, <2>2
  <2> QED BY <1>1, <2>3, <2>4, FirstElementLonger DEF r, s
<1> QED BY <1>12, <1>13, <1>14

-----------------------------------------------------------------------------
(* Before cuts at the first '#', also one that is appended. *)
LEMMA BeforeCutsOff ==
  ASSUME NEW s \in Strings, NEW w \in Strings
  PROVE  /\ CutOff(Before(s, "#"), s)
         /\ CutOff(Before(s \o (<<"#">> \o w), "#"), s)
<1>0. "#" \in Tokens
  BY ClassAssumption
<1>1. ASSUME NEW x \in Strings
      PROVE  /\ Before(x, "#") \in Strings /\ CutOff(Before(x, "#"), x)
             /\ "#" \in ToSet(x) => Len(Before(x, "#")) < Len(x)
  <2>1. Before(x, "#") \in Strings /\ "#" \notin ToSet(Before(x, "#"))
    BY <1>0, BeforeHasNoSeparator
  <2>2. CASE "#" \notin ToSet(x)
    <3>1. Before(x, "#") = x
      BY <1>0, <2>2, BeforeHasNoSeparator
    <3> QED BY <2>1, <2>2, <3>1 DEF CutOff, Strings
  <2>3. CASE "#" \in ToSet(x)
    <3> DEFINE T == {i \in DOMAIN x : x[i] = "#"}
    <3>1. T \in SUBSET (1..Len(x)) /\ T # {} /\ Len(x) \in Nat
      BY <2>3 DEF ToSet, Strings
    <3>2. Min(T) \in T
      <4> HIDE DEF T
      <4> QED BY <3>1, MinMax, Zenon
    <3>3. Cut(x, "#") \in 1..Len(x) /\ x[Cut(x, "#")] = "#"
      BY <2>3, <3>1, <3>2 DEF Cut
    <3>4. /\ Len(Before(x, "#")) = Cut(x, "#") - 1
          /\ \A i \in 1 .. Cut(x, "#") - 1 : Before(x, "#")[i] = x[i]
      BY <3>1, <3>3 DEF Before, Strings
    <3>5. Len(Before(x, "#")) + 1 = Cut(x, "#") /\ Len(Before(x, "#")) < Len(x)
      BY <3>1, <3>3, <3>4
    <3> QED BY <2>1, <3>1, <3>3, <3>4, <3>5 DEF CutOff
  <2> QED BY <2>2, <2>3
<1> DEFINE cut == <<"#">>
           v == cut \o w
           z == s \o v
<1>2. v \in Strings /\ Len(v) = 1 + Len(w) /\ v[1] = "#"
  BY <1>0 DEF Strings
<1> HIDE DEF v
<1>3. /\ z \in Strings /\ Len(z) = Len(s) + Len(v)
      /\ \A i \in 1..Len(s) : z[i] = s[i]
      /\ \A i \in 1..Len(v) : z[Len(s) + i] = v[i]
  BY <1>2, ConcatTokens
<1> HIDE DEF z
<1>4. Len(s) \in Nat /\ Len(w) \in Nat
  BY DEF Strings
<1>5. z[Len(s) + 1] = "#" /\ Len(s) + 1 \in 1..Len(z)
  BY <1>2, <1>3, <1>4
<1> DEFINE y == Before(z, "#")
<1>6. y \in Strings /\ CutOff(y, z) /\ Len(y) \in Nat
  BY <1>1, <1>3 DEF Strings
<1> HIDE DEF y
<1>7. Len(y) <= Len(s)
  <2> SUFFICES ASSUME Len(y) > Len(s) PROVE FALSE
    BY <1>4, <1>6
  <2>1. Len(s) + 1 \in 1..Len(y)
    BY <1>4, <1>6
  <2>2. y[Len(s) + 1] = "#"
    BY <1>5, <1>6, <2>1 DEF CutOff
  <2> QED BY <1>6, <2>1, <2>2 DEF CutOff, ToSet, Strings
<1>8. CutOff(y, s)
  <2>1. \A i \in 1..Len(y) : y[i] = s[i]
    BY <1>3, <1>4, <1>6, <1>7 DEF CutOff
  <2>2. ASSUME Len(y) < Len(s) PROVE s[Len(y) + 1] = "#"
    <3>1. Len(y) < Len(z) /\ Len(y) + 1 \in 1..Len(s)
      BY <1>3, <1>4, <1>5, <1>6, <2>2
    <3> QED BY <1>3, <1>6, <3>1 DEF CutOff
  <2> QED BY <1>6, <1>7, <2>1, <2>2 DEF CutOff
<1> QED BY <1>1, <1>8 DEF y, z, v

(* What comes back of a volume whose source has no '#': its subDir, cut    *)
(* off at its first '#'.                                                   *)
LEMMA SubDirCutOff ==
  ASSUME NEW n \in Names, NEW cls \in Classes,
         NEW vol, vol = newSMBVolume(n, cls), vol.status = "ok",
         "#" \notin ToSet(cls.source),
         NEW d, d = getSmbVolFromID(getVolumeIDFromSmbVol(vol)), d.status = "ok"
  PROVE  d.subDir \in Strings /\ CutOff(d.subDir, Trim(vol.subDir, "/"))
<1> DEFINE id == getVolumeIDFromSmbVol(vol)
           a == Trim(vol.source, "/")
           b == Trim(vol.subDir, "/")
           u == vol.uuid
           p == Policy(vol)
           cut == <<"#">>
           R2 == u \o (cut \o p)
           R1 == b \o (cut \o R2)
<1>1. /\ vol.source = cls.source /\ vol.source \in Strings /\ vol.subDir \in Strings
      /\ u \in Strings /\ p \in Strings
  BY VolumeShape
<1>2. a \in Strings /\ b \in Strings
  BY <1>1, TrimShift
<1>3. "#" \notin ToSet(a)
  BY <1>1, TrimKeepsTokens
<1>4. d.subDir = Before(After(id, "#"), "#") /\ d.subDir \in Strings /\ id = ID(a, b, u, p)
  <2>1. Rejected.status # "ok"
    BY DEF Rejected
  <2> QED BY <2>1, Parsed
<1> HIDE DEF a, b, u, p, id
<1>5. cut \in Strings /\ "#" \in Tokens
  BY ClassAssumption DEF Strings
<1>6. id = a \o (cut \o R1)
  <2>0. id = a \o cut \o b \o cut \o u \o cut \o p
    BY <1>4 DEF ID
  <2> HIDE DEF cut
  <2>1. Cat(Cat(Cat(Cat(Cat(Cat(a, cut), b), cut), u), cut), p)
          = Cat(a, Cat(cut, Cat(b, Cat(cut, Cat(u, Cat(cut, p))))))
    BY <1>1, <1>2, <1>5, IDShape
  <2> QED BY <2>0, <2>1 DEF Cat
<1>7. R2 \in Strings
  <2> HIDE DEF cut
  <2>1. cut \o p \in Strings
    BY <1>1, <1>5, ConcatStrings
  <2> QED BY <1>1, <2>1, ConcatStrings
<1>8. R1 \in Strings
  <2> HIDE DEF cut, R2
  <2>1. cut \o R2 \in Strings
    BY <1>5, <1>7, ConcatStrings
  <2> QED BY <1>2, <2>1, ConcatStrings
<1>9. After(id, "#") = R1
  <2> HIDE DEF R1
  <2> QED BY <1>2, <1>3, <1>5, <1>6, <1>8, CutAtSeparator
<1>10. CutOff(Before(R1, "#"), b)
  <2> HIDE DEF R2
  <2> QED BY <1>2, <1>7, BeforeCutsOff
<1> QED BY <1>4, <1>9, <1>10 DEF b

(* Cutting off commutes with putting in the name. *)
LEMMA CutOffReplace ==
  ASSUME NEW t \in Strings, NEW x \in Strings, NEW m \in Names, CutOff(x, Replace(t, m))
  PROVE  \E b \in Strings : CutOff(b, t) /\ Replace(b, m) = x
<1> USE DEF Strings
<1> DEFINE r == Replace(t, m)
           b == SubSeq(t, 1, Len(x))
<1>1. m # "#"
  BY NamesAssumption
<1>2. /\ Len(r) = Len(t) /\ Len(t) \in Nat /\ Len(x) \in Nat
      /\ \A i \in 1..Len(t) : r[i] = (IF t[i] = "$pv" THEN m ELSE t[i])
  <2>1. m \in Tokens
    BY NamesAssumption
  <2> QED BY <2>1 DEF Replace
<1>3. /\ Len(x) <= Len(t) /\ \A i \in 1..Len(x) : x[i] = r[i]
      /\ "#" \notin ToSet(x) /\ (Len(x) < Len(t) => r[Len(x) + 1] = "#")
  BY <1>2 DEF CutOff
<1> HIDE DEF r
<1>4. b \in Strings /\ Len(b) = Len(x) /\ \A i \in 1..Len(x) : b[i] = t[i]
  BY <1>2, <1>3
<1> HIDE DEF b
<1>5. \A i \in 1..Len(x) : x[i] = (IF b[i] = "$pv" THEN m ELSE b[i])
  BY <1>2, <1>3, <1>4
<1>6. Replace(b, m) = x
  <2>1. DOMAIN b = 1..Len(x) /\ x = [i \in 1..Len(x) |-> x[i]]
    BY <1>4
  <2>2. Replace(b, m) = [i \in 1..Len(x) |-> IF b[i] = "$pv" THEN m ELSE b[i]]
    BY <2>1 DEF Replace
  <2> QED BY <1>5, <2>1, <2>2
<1>7. "#" \notin ToSet(b)
  <2>1. \A i \in 1..Len(x) : x[i] # "#"
    BY <1>3 DEF ToSet
  <2>2. \A i \in 1..Len(x) : b[i] # "#"
    BY <1>5, <2>1
  <2> QED BY <1>4, <2>2 DEF ToSet
<1>8. Len(x) < Len(t) => t[Len(x) + 1] = "#"
  <2>1. Len(x) < Len(t) => Len(x) + 1 \in 1..Len(t)
    BY <1>2
  <2> QED BY <1>1, <1>2, <1>3, <2>1
<1> QED BY <1>3, <1>4, <1>6, <1>7, <1>8 DEF CutOff

(* What comes back of the pattern has the name in it if subDir has it      *)
(* before any '#'.                                                         *)
LEMMA NameKept ==
  ASSUME NEW s \in Strings, s = <<>> \/ "$pv" \in ToSet(Before(s, "#")),
         NEW t \in Strings, t = (IF s = <<>> THEN <<"$pv">> ELSE Trim(s, "/")),
         NEW b \in Strings, CutOff(b, t)
  PROVE  "$pv" \in ToSet(b)
<1>1. /\ Len(b) \in Nat /\ Len(t) \in Nat /\ DOMAIN b = 1..Len(b)
      /\ \A i \in 1..Len(b) : b[i] = t[i]
      /\ Len(b) < Len(t) => t[Len(b) + 1] = "#"
  BY DEF CutOff, Strings
<1>2. ASSUME NEW k \in 1..Len(t), t[k] = "$pv", Len(b) >= k PROVE "$pv" \in ToSet(b)
  <2>1. k \in 1..Len(b) /\ b[k] = "$pv"
    BY <1>1, <1>2
  <2> QED BY <1>1, <2>1 DEF ToSet
<1>3. CASE s = <<>>
  <2>1. Len(t) = 1 /\ t[1] = "$pv"
    BY <1>3
  <2>2. Len(b) >= 1
    <3> SUFFICES ASSUME Len(b) = 0 PROVE FALSE
      BY <1>1
    <3> QED BY <1>1, <2>1
  <2>3. 1 \in 1..Len(t)
    BY <2>1
  <2> QED BY <1>2, <2>1, <2>2, <2>3
<1>4. CASE s # <<>>
  <2> DEFINE z == Before(s, "#")
  <2>1. CutOff(z, s) /\ z \in Strings
    <3>1. "#" \in Tokens
      BY ClassAssumption
    <3> QED BY <3>1, BeforeCutsOff, BeforeHasNoSeparator
  <2>2. "$pv" \in ToSet(z)
    BY <1>4
  <2> HIDE DEF z
  <2>3. PICK k \in 1..Len(z) : z[k] = "$pv"
    BY <2>1, <2>2 DEF ToSet, Strings
  <2>4. PICK d \in Nat : Shift(s, t, d)
    BY <1>4, TrimShift
  <2>5. /\ Len(z) \in Nat /\ Len(s) \in Nat /\ Len(z) <= Len(s)
        /\ \A i \in 1..Len(z) : z[i] = s[i] /\ z[i] # "#"
    <3>1. \A i \in 1..Len(z) : z[i] # "#"
      BY <2>1 DEF CutOff, ToSet, Strings
    <3> QED BY <2>1, <3>1 DEF CutOff, Strings
  <2>6. k - d \in 1..Len(t) /\ t[k - d] = "$pv"
    <3>1. k \in 1..Len(s) /\ s[k] = "$pv"
      BY <2>3, <2>5
    <3>2. k - d \in 1..Len(t)
      BY <2>4, <3>1 DEF Shift
    <3>3. t[k - d] = s[(k - d) + d] /\ (k - d) + d = k
      BY <2>4, <3>2 DEF Shift
    <3> QED BY <3>1, <3>2, <3>3
  <2>7. Len(b) >= k - d
    <3> SUFFICES ASSUME Len(b) < k - d PROVE FALSE
      BY <1>1, <2>3, <2>5
    <3>1. Len(b) < Len(t) /\ Len(b) + 1 \in 1..Len(t) /\ (Len(b) + 1) + d \in 1..Len(z)
      BY <1>1, <2>3, <2>5, <2>6
    <3>2. t[Len(b) + 1] = s[(Len(b) + 1) + d]
      BY <2>4, <3>1 DEF Shift
    <3> QED BY <1>1, <2>5, <3>1, <3>2
  <2> QED BY <1>2, <2>6, <2>7
<1> QED BY <1>3, <1>4

(* If each volume of the storage class has a directory of its own, by the  *)
(* default subDir or by one with the name of the volume in it, before any  *)
(* '#', deleting or archiving a volume removes or renames no path at or    *)
(* above the directory of another.  Without "before any '#'" this does not *)
(* hold: see DeleteSparesOthers.                                           *)
THEOREM DeletionConfined == Spec => []DeleteSparesOthers
<1>1. VolumesInv => DeleteSparesOthers
  <2> SUFFICES ASSUME VolumesInv, NamedBeforeSeparator,
                      NEW m \in Ok, NEW n \in Ok, m # n, deleted[m].status = "ok"
               PROVE  /\ ~(RemovedDir(deleted[m]) \subseteq VolumeDir(created[n]))
                      /\ ~(ArchivedDir(deleted[m]) \subseteq VolumeDir(created[n]))
    BY DEF DeleteSparesOthers, DeletedSpared
  <2>1. m \in Names /\ created[m].status = "ok" /\ n \in Names /\ created[n].status = "ok"
    BY DEF Ok
  <2>2. class \in Classes /\ created[m] = newSMBVolume(m, class)
    BY <2>1, CreatedVolume
  <2>3. created[n] = newSMBVolume(n, class)
    BY <2>1, CreatedVolume
  <2>4. deleted[m] = getSmbVolFromID(getVolumeIDFromSmbVol(created[m]))
    <3>1. deleted[m] # Pending
      BY DEF Pending
    <3> QED BY <2>1, <3>1 DEF VolumesInv
  <2>5. class.subDir \in Strings /\ "#" \notin ToSet(class.source)
    BY <2>2, ClassAssumption DEF Classes, Strings, NamedBeforeSeparator
  <2> DEFINE t == Pattern(class)
             x == deleted[m].subDir
  <2>6. x \in Strings /\ CutOff(x, Trim(created[m].subDir, "/"))
    BY <2>1, <2>2, <2>4, <2>5, SubDirCutOff
  <2>7. t \in Strings /\ Trim(created[m].subDir, "/") = Replace(t, m)
    BY <2>1, <2>2, SubDirPattern
  <2>8. Trim(created[n].subDir, "/") = Replace(t, n)
    BY <2>1, <2>2, <2>3, SubDirPattern
  <2>9. t = (IF class.subDir = <<>> THEN <<"$pv">> ELSE Trim(class.subDir, "/"))
    BY DEF Pattern
  <2> HIDE DEF t, x
  <2>10. PICK b \in Strings : CutOff(b, t) /\ Replace(b, m) = x
    BY <2>1, <2>6, <2>7, CutOffReplace
  <2>11. "$pv" \in ToSet(b)
    BY <2>5, <2>7, <2>9, <2>10, NameKept DEF NamedBeforeSeparator
  <2>12. VolumeDir(created[n]) = Elements(Replace(t, n))
    <3>1. created[n].subDir \in Strings
      BY <2>1, <2>2, <2>3, VolumeShape
    <3>2. Elements(Trim(created[n].subDir, "/")) = Elements(created[n].subDir)
      BY <3>1, ElementsTrim
    <3> QED BY <2>8, <3>2 DEF VolumeDir
  <2>13. /\ RemovedDir(deleted[m]) = Elements(Replace(b, m))
         /\ ArchivedDir(deleted[m]) = Elements(Archived(Replace(b, m)))
    BY <2>10 DEF RemovedDir, VolumeDir, ArchivedDir, Archived, x
  <2>14. ~(Elements(Replace(b, m)) \subseteq Elements(Replace(t, n)))
    BY <2>1, <2>7, <2>10, <2>11, RemovedApart
  <2>15. ~(Elements(Archived(Replace(b, m))) \subseteq Elements(Replace(t, n)))
    <3>1. CASE Len(b) < Len(t)
      BY <2>1, <2>7, <2>10, <3>1, ArchivedCutApart
    <3>2. CASE ~(Len(b) < Len(t))
      <4>1. b = t
        BY <2>7, <2>10, <3>2 DEF CutOff, Strings
      <4> QED BY <2>1, <2>7, <4>1, ArchivedApart
    <3> QED BY <3>1, <3>2
  <2> QED BY <2>12, <2>13, <2>14, <2>15
<1> QED BY <1>1, VolumesInvInductive, PTL
=============================================================================
