---------------------------- MODULE HttpBytes_proofs ----------------------------
(* Theorems about the byte-level modules, for texts of any length.            *)
EXTENDS MultipartBytes, ChunkedBytes, Mbuf, SequenceTheorems, WellFoundedInduction,
        TLAPS

-----------------------------------------------------------------------------
(* Numbers: the least of a set, and induction as "no least exception". *)

Less == {p \in Nat \X Nat : p[1] < p[2]}

LEMMA LessWellFounded == IsWellFoundedOn(Less, Nat)
<1>1. Less = OpToRel(<, Nat)  BY Zenon DEF Less, OpToRel
<1> QED  BY <1>1, NatLessThanWellFounded, Zenon

LEMMA Least ==
    ASSUME NEW T, T \subseteq Nat, T # {}
    PROVE  \E x \in T : \A y \in T : x <= y
<1>1. \E x \in T : \A y \in T : <<y, x>> \notin Less
  BY LessWellFounded, WFMin
<1>2. ASSUME NEW x \in T, NEW y \in T, <<y, x>> \notin Less
      PROVE  x <= y
  BY <1>2 DEF Less
<1> QED  BY <1>1, <1>2

LEMMA Upwards ==
    ASSUME NEW T, NEW n \in Nat, 0 \in T, \A k \in 1..n : k - 1 \in T => k \in T
    PROVE  \A k \in 0..n : k \in T
<1> DEFINE U == {k \in 0..n : k \notin T}
<1>1. SUFFICES ASSUME U # {} PROVE FALSE
  OBVIOUS
<1>2. PICK k \in U : \A y \in U : k <= y
  <2>1. U \subseteq Nat  OBVIOUS
  <2> HIDE DEF U
  <2> QED  BY <1>1, <2>1, Least
<1>3. k \in 1..n /\ k \notin T
  BY <1>2
<1>4. k - 1 \notin U
  BY <1>2, <1>3
<1>5. k - 1 \in T
  BY <1>3, <1>4
<1> QED  BY <1>3, <1>5

LEMMA MinIs ==
    ASSUME NEW T, T \subseteq Int, NEW m \in T, \A x \in T : m <= x
    PROVE  Min(T) = m
<1>1. \A y \in T : (\A x \in T : y <= x) => y = m
  OBVIOUS
<1>2. Min(T) = CHOOSE y \in T : \A x \in T : y <= x
  BY Zenon DEF Min
<1> QED  BY <1>1, <1>2

LEMMA MaxIs ==
    ASSUME NEW T, T \subseteq Int, NEW m \in T, \A x \in T : x <= m
    PROVE  Max(T) = m
<1>1. \A y \in T : (\A x \in T : x <= y) => y = m
  OBVIOUS
<1>2. Max(T) = CHOOSE y \in T : \A x \in T : y >= x
  BY Zenon DEF Max
<1> QED  BY <1>1, <1>2

LEMMA MinOf ==
    ASSUME NEW T, T \subseteq Nat, T # {}
    PROVE  Min(T) \in T /\ \A x \in T : Min(T) <= x
<1>1. PICK m \in T : \A x \in T : m <= x
  BY Least
<1>2. T \subseteq Int  OBVIOUS
<1>3. Min(T) = m
  BY <1>1, <1>2, MinIs
<1> QED  BY <1>1, <1>3

-----------------------------------------------------------------------------
(* FlattenSeq *)

UpTo(f, s, n) == [i \in 1..n |-> IF i = 1 THEN s[i] ELSE f[i - 1] \o s[i]]

Joined(s) == CHOOSE f : f = UpTo(f, s, Len(s))

LEMMA FlattenIsJoined ==
    ASSUME NEW s, Len(s) # 0
    PROVE  FlattenSeq(s) = Joined(s)[Len(s)]
BY Zenon DEF FlattenSeq, Joined, UpTo

LEMMA UpToMore ==
    ASSUME NEW s, NEW k \in Nat, NEW f, f = UpTo(f, s, k)
    PROVE  \E g : g = UpTo(g, s, k + 1)
<1>0. PICK e : e = f[k] \o s[k + 1]
  OBVIOUS
<1> DEFINE g == [i \in 1..(k + 1) |-> IF i = 1 THEN s[i] ELSE IF i = k + 1 THEN e ELSE f[i]]
<1>1. \A i \in 1..k : i # 1 => f[i] = f[i - 1] \o s[i]
  BY DEF UpTo
<1>2. k > 0 => f[1] = s[1]
  BY DEF UpTo
<1>3. \A i \in 1..k : g[i] = f[i]
  BY <1>2
<1>4. k > 0 => g[k + 1] = f[k] \o s[k + 1]
  <2>1. k > 0 => g[k + 1] = e  OBVIOUS
  <2> QED  BY <2>1, <1>0
<1>5. \A i \in 1..(k + 1) : g[i] = IF i = 1 THEN s[i] ELSE g[i - 1] \o s[i]
  <2> SUFFICES ASSUME NEW i \in 1..(k + 1), i # 1 PROVE g[i] = g[i - 1] \o s[i]
    OBVIOUS
  <2> HIDE DEF g
  <2>1. i - 1 \in 1..k  OBVIOUS
  <2>2. CASE i = k + 1
    <3>1. i - 1 = k /\ k > 0  BY <2>2
    <3>2. g[i - 1] = f[k]  BY <2>1, <3>1, <1>3
    <3>3. g[i] = f[k] \o s[i]  BY <3>1, <2>2, <1>4
    <3> QED  BY <3>2, <3>3
  <2>3. CASE i \in 1..k
    <3>1. g[i] = f[i] /\ g[i - 1] = f[i - 1]  BY <2>1, <2>3, <1>3
    <3>2. f[i] = f[i - 1] \o s[i]  BY <2>3, <1>1
    <3> QED  BY <3>1, <3>2
  <2>4. i = k + 1 \/ i \in 1..k  OBVIOUS
  <2> QED  BY <2>2, <2>3, <2>4
<1>6. g = [i \in 1..(k + 1) |-> IF i = 1 THEN s[i] ELSE g[i - 1] \o s[i]]
  BY <1>5
<1> HIDE DEF g
<1>7. g = UpTo(g, s, k + 1)
  BY <1>6 DEF UpTo
<1> QED  BY <1>7

LEMMA JoinedExists ==
    ASSUME NEW s, Len(s) \in Nat
    PROVE  Joined(s) = UpTo(Joined(s), s, Len(s))
<1> DEFINE T == {k \in 0..Len(s) : \E f : f = UpTo(f, s, k)}
<1>1. 0 \in T
  <2>1. UpTo(<<>>, s, 0) = UpTo(UpTo(<<>>, s, 0), s, 0)
    BY DEF UpTo
  <2> QED  BY <2>1
<1>2. \A k \in 1..Len(s) : k - 1 \in T => k \in T
  BY UpToMore
<1> HIDE DEF T
<1>3. \A k \in 0..Len(s) : k \in T
  BY <1>1, <1>2, Upwards
<1>4. \E f : f = UpTo(f, s, Len(s))
  <2>1. Len(s) \in T
    BY <1>3
  <2> QED  BY <2>1 DEF T
<1> QED  BY <1>4, Zenon DEF Joined

(* The first k of the sequences of s, joined. *)
Flat(s, k) == IF k = 0 THEN <<>> ELSE Joined(s)[k]

LEMMA FlatSteps ==
    ASSUME NEW S, NEW s \in Seq(Seq(S))
    PROVE  /\ Flat(s, 0) = <<>>
           /\ \A k \in 1..Len(s) : Flat(s, k) = Flat(s, k - 1) \o s[k]
           /\ \A k \in 0..Len(s) : Flat(s, k) \in Seq(S)
<1> Len(s) \in Nat /\ \A k \in 1..Len(s) : s[k] \in Seq(S)
  OBVIOUS
<1>0. Joined(s) = UpTo(Joined(s), s, Len(s))
  BY JoinedExists
<1>1. \A k \in 1..Len(s) : Joined(s)[k] = IF k = 1 THEN s[k] ELSE Joined(s)[k - 1] \o s[k]
  <2> DEFINE J == Joined(s)
  <2>1. J = [i \in 1..Len(s) |-> IF i = 1 THEN s[i] ELSE J[i - 1] \o s[i]]
    BY <1>0 DEF UpTo
  <2> HIDE DEF J
  <2>2. \A k \in 1..Len(s) : J[k] = IF k = 1 THEN s[k] ELSE J[k - 1] \o s[k]
    BY <2>1
  <2> QED  BY <2>2 DEF J
<1>2. \A k \in 1..Len(s) : Flat(s, k) = Flat(s, k - 1) \o s[k]
  <2> TAKE k \in 1..Len(s)
  <2>1. CASE k = 1
    <3>1. <<>> \o s[1] = s[1]
      BY <2>1, ConcatEmptySeq
    <3>2. Flat(s, 1) = s[1] /\ Flat(s, 0) = <<>>
      BY <1>1, <2>1 DEF Flat
    <3> QED  BY <3>1, <3>2, <2>1
  <2>2. CASE k # 1
    <3>1. Flat(s, k) = Joined(s)[k] /\ Flat(s, k - 1) = Joined(s)[k - 1]
      BY <2>2 DEF Flat
    <3> QED  BY <3>1, <2>2, <1>1
  <2> QED  BY <2>1, <2>2
<1>3. \A k \in 0..Len(s) : Flat(s, k) \in Seq(S)
  <2> DEFINE T == {k \in 0..Len(s) : Flat(s, k) \in Seq(S)}
  <2>1. 0 \in T
    BY EmptySeq DEF Flat
  <2>2. \A k \in 1..Len(s) : k - 1 \in T => k \in T
    <3> SUFFICES ASSUME NEW k \in 1..Len(s), Flat(s, k - 1) \in Seq(S)
                 PROVE  Flat(s, k) \in Seq(S)
      OBVIOUS
    <3> QED  BY <1>2, ConcatProperties
  <2> HIDE DEF T
  <2>3. \A k \in 0..Len(s) : k \in T
    BY <2>1, <2>2, Upwards
  <2> QED  BY <2>3 DEF T
<1> QED  BY <1>2, <1>3 DEF Flat

(* What is joined first stays in front. *)
LEMMA FlatFront ==
    ASSUME NEW S, NEW s \in Seq(Seq(S)), NEW k \in 0..Len(s), NEW m \in k..Len(s)
    PROVE  /\ Len(Flat(s, k)) <= Len(Flat(s, m))
           /\ \A j \in 1..Len(Flat(s, k)) : Flat(s, m)[j] = Flat(s, k)[j]
<1> DEFINE T == {d \in 0..(Len(s) - k) :
                   /\ Len(Flat(s, k)) <= Len(Flat(s, k + d))
                   /\ \A j \in 1..Len(Flat(s, k)) : Flat(s, k + d)[j] = Flat(s, k)[j]}
<1>0. Len(s) \in Nat /\ Len(s) - k \in Nat /\ k \in Nat
  OBVIOUS
<1>1. 0 \in T
  <2>1. Flat(s, k) \in Seq(S)  BY FlatSteps
  <2>2. Len(Flat(s, k)) \in Nat  BY <2>1, LenProperties
  <2> QED  BY <2>2, <1>0
<1>2. \A d \in 1..(Len(s) - k) : d - 1 \in T => d \in T
  <2> SUFFICES ASSUME NEW d \in 1..(Len(s) - k), d - 1 \in T
               PROVE  d \in T
    OBVIOUS
  <2>0. PICK e : e = k + d  OBVIOUS
  <2>1. e \in 1..Len(s) /\ e - 1 \in 0..Len(s) /\ k + (d - 1) = e - 1 /\ k + d = e
    BY <1>0, <2>0
  <2>2. PICK a : a = Flat(s, e - 1)  OBVIOUS
  <2>3. PICK b : b = Flat(s, e)  OBVIOUS
  <2>4. PICK c : c = Flat(s, k)  OBVIOUS
  <2> HIDE DEF T
  <2>5. a \in Seq(S) /\ c \in Seq(S) /\ s[e] \in Seq(S)
    <3>1. \A i \in 0..Len(s) : Flat(s, i) \in Seq(S)  BY FlatSteps
    <3>2. s[e] \in Seq(S)  BY <2>1, ElementOfSeq
    <3> QED  BY <3>1, <3>2, <2>1, <2>2, <2>4
  <2>6. b = a \o s[e]
    BY <2>1, <2>2, <2>3, FlatSteps
  <2>7. Len(c) <= Len(a) /\ \A j \in 1..Len(c) : a[j] = c[j]
    BY <2>1, <2>2, <2>4 DEF T
  <2>8. Len(c) <= Len(b) /\ \A j \in 1..Len(c) : b[j] = c[j]
    BY <2>5, <2>6, <2>7, ConcatProperties
  <2>9. d \in 0..(Len(s) - k)
    BY <1>0
  <2>10. /\ Len(Flat(s, k)) <= Len(Flat(s, k + d))
         /\ \A j \in 1..Len(Flat(s, k)) : Flat(s, k + d)[j] = Flat(s, k)[j]
    BY <2>1, <2>8, <2>3, <2>4
  <2> QED  BY <2>9, <2>10 DEF T
<1> HIDE DEF T
<1>3. \A d \in 0..(Len(s) - k) : d \in T
  BY <1>0, <1>1, <1>2, Upwards
<1>4. m - k \in T /\ k + (m - k) = m
  BY <1>3
<1> QED  BY <1>4 DEF T

LEMMA FlattenIsFlat ==
    ASSUME NEW S, NEW s \in Seq(Seq(S))
    PROVE  FlattenSeq(s) = Flat(s, Len(s))
<1>1. CASE Len(s) = 0
  <2>1. s = <<>>  BY <1>1
  <2> QED  BY <2>1, <1>1 DEF Flat, FlattenSeq
<1>2. CASE Len(s) # 0
  BY <1>2, FlattenIsJoined DEF Flat
<1> QED  BY <1>1, <1>2

(* Joining the first k is joining the sequence that ends with the k-th. *)
LEMMA FlatOfFront ==
    ASSUME NEW S, NEW s \in Seq(Seq(S)), NEW t \in Seq(Seq(S)), Len(t) <= Len(s),
           \A i \in 1..Len(t) : t[i] = s[i]
    PROVE  \A k \in 0..Len(t) : Flat(t, k) = Flat(s, k)
<1> DEFINE T == {k \in 0..Len(t) : Flat(t, k) = Flat(s, k)}
<1>0. Len(t) \in Nat /\ Len(s) \in Nat
  OBVIOUS
<1>1. 0 \in T
  BY <1>0 DEF Flat
<1>2. \A k \in 1..Len(t) : k - 1 \in T => k \in T
  <2> SUFFICES ASSUME NEW k \in 1..Len(t), Flat(t, k - 1) = Flat(s, k - 1)
               PROVE  Flat(t, k) = Flat(s, k)
    BY <1>0
  <2>1. k \in 1..Len(s) /\ t[k] = s[k]
    BY <1>0
  <2>2. Flat(t, k) = Flat(t, k - 1) \o t[k]
    BY FlatSteps
  <2>3. Flat(s, k) = Flat(s, k - 1) \o s[k]
    BY <2>1, FlatSteps
  <2> QED  BY <2>1, <2>2, <2>3
<1> HIDE DEF T
<1>3. \A k \in 0..Len(t) : k \in T
  BY <1>0, <1>1, <1>2, Upwards
<1> QED  BY <1>3 DEF T

-----------------------------------------------------------------------------
(* The text of a multipart body *)

LEMMA BoundaryType == /\ Boundary \in Seq(Chars)
                      /\ bl \in Nat /\ bl > 0 /\ bl = Len(Boundary)
BY BytesAssumption DEF bl

LEMMA Literals == /\ CR \in Chars /\ LF \in Chars /\ "-" \in Chars
                  /\ "D" \in Chars /\ "T" \in Chars
BY BytesAssumption

LEMMA Joins ==
    ASSUME NEW S, NEW s \in Seq(S), NEW t \in Seq(S)
    PROVE  /\ s \o t \in Seq(S) /\ Len(s) \in Nat /\ Len(t) \in Nat
           /\ Len(s \o t) = Len(s) + Len(t)
           /\ \A j \in 1..Len(s) : (s \o t)[j] = s[j]
           /\ \A j \in 1..Len(t) : (s \o t)[Len(s) + j] = t[j]
<1>1. Len(s) \in Nat /\ Len(t) \in Nat
  BY LenProperties
<1>2. \A j \in 1..Len(t) : (s \o t)[Len(s) + j] = t[j]
  BY <1>1, ConcatProperties
<1> QED  BY <1>1, <1>2, ConcatProperties

LEMMA JoinsAs ==
    ASSUME NEW S, NEW s \in Seq(S), NEW t \in Seq(S), NEW u, u = s \o t
    PROVE  /\ u \in Seq(S) /\ Len(s) \in Nat /\ Len(t) \in Nat
           /\ Len(u) = Len(s) + Len(t)
           /\ \A j \in 1..Len(s) : u[j] = s[j]
           /\ \A j \in 1..Len(t) : u[Len(s) + j] = t[j]
<1>1. /\ s \o t \in Seq(S) /\ Len(s) \in Nat /\ Len(t) \in Nat
      /\ Len(s \o t) = Len(s) + Len(t)
      /\ \A j \in 1..Len(s) : (s \o t)[j] = s[j]
      /\ \A j \in 1..Len(t) : (s \o t)[Len(s) + j] = t[j]
  BY Joins
<1> QED  BY <1>1, Zenon

LEMMA OneMore ==
    ASSUME NEW S, NEW s \in Seq(S), NEW x \in S
    PROVE  /\ s \o <<x>> \in Seq(S) /\ Len(s \o <<x>>) = Len(s) + 1
           /\ \A j \in 1..Len(s) : (s \o <<x>>)[j] = s[j]
           /\ (s \o <<x>>)[Len(s) + 1] = x
<1> <<x>> \in Seq(S) /\ Len(<<x>>) = 1 /\ <<x>>[1] = x
  OBVIOUS
<1> QED  BY Joins

LEMMA TwoMore ==
    ASSUME NEW S, NEW s \in Seq(S), NEW x \in S, NEW y \in S
    PROVE  /\ s \o <<x, y>> \in Seq(S) /\ Len(s \o <<x, y>>) = Len(s) + 2
           /\ \A j \in 1..Len(s) : (s \o <<x, y>>)[j] = s[j]
           /\ (s \o <<x, y>>)[Len(s) + 1] = x
           /\ (s \o <<x, y>>)[Len(s) + 2] = y
<1> <<x, y>> \in Seq(S) /\ Len(<<x, y>>) = 2 /\ <<x, y>>[1] = x /\ <<x, y>>[2] = y
  OBVIOUS
<1> QED  BY Joins

LEMMA Layers ==
    ASSUME NEW S, NEW a \in Seq(S), NEW h \in Seq(S), NEW d \in Seq(S), NEW e \in Seq(S),
           NEW b, b = a \o h, NEW c, c = b \o d, NEW t, t = c \o e
    PROVE  /\ t \in Seq(S)
           /\ Len(t) = Len(a) + Len(h) + Len(d) + Len(e)
           /\ \A j \in 1..Len(a) : t[j] = a[j]
           /\ \A j \in 1..Len(h) : t[Len(a) + j] = h[j]
           /\ \A j \in 1..Len(d) : t[Len(a) + Len(h) + j] = d[j]
           /\ \A j \in 1..Len(e) : t[Len(a) + Len(h) + Len(d) + j] = e[j]
<1>1. /\ Len(a) \in Nat /\ Len(h) \in Nat /\ Len(d) \in Nat /\ Len(e) \in Nat
  BY LenProperties
<1>5. /\ b \in Seq(S) /\ Len(b) = Len(a) + Len(h)
      /\ \A j \in 1..Len(a) : b[j] = a[j]
      /\ \A j \in 1..Len(h) : b[Len(a) + j] = h[j]
  BY JoinsAs
<1>6. /\ c \in Seq(S) /\ Len(c) = Len(b) + Len(d)
      /\ \A j \in 1..Len(b) : c[j] = b[j]
      /\ \A j \in 1..Len(d) : c[Len(b) + j] = d[j]
  BY <1>5, JoinsAs
<1>7. /\ t \in Seq(S) /\ Len(t) = Len(c) + Len(e)
      /\ \A j \in 1..Len(c) : t[j] = c[j]
      /\ \A j \in 1..Len(e) : t[Len(c) + j] = e[j]
  BY <1>6, JoinsAs
<1>8. \A j \in 1..Len(b) : t[j] = b[j]
  BY <1>1, <1>5, <1>6, <1>7
<1>9. /\ \A j \in 1..Len(a) : t[j] = a[j]
      /\ \A j \in 1..Len(h) : t[Len(a) + j] = h[j]
  BY <1>1, <1>5, <1>8
<1>10. \A j \in 1..Len(d) : t[Len(a) + Len(h) + j] = d[j]
  BY <1>1, <1>5, <1>6, <1>7
<1>11. \A j \in 1..Len(e) : t[Len(a) + Len(h) + Len(d) + j] = e[j]
  BY <1>1, <1>5, <1>6, <1>7
<1> QED  BY <1>1, <1>5, <1>6, <1>7, <1>9, <1>10, <1>11

LEMMA DelimiterShape ==
    /\ Delimiter \in Seq(Chars) /\ Len(Delimiter) = bl + 2
    /\ \A j \in 1..bl : Delimiter[2 + j] = Boundary[j]
<1>1. Dashes \in Seq(Chars) /\ Len(Dashes) = 2
  BY Literals DEF Dashes
<1>2. PICK a : a = Dashes  OBVIOUS
<1>3. PICK b : b = Boundary  OBVIOUS
<1>0. PICK e : e = Delimiter  OBVIOUS
<1>4. e = a \o b
  BY <1>0, <1>2, <1>3 DEF Delimiter
<1>5. a \in Seq(Chars) /\ b \in Seq(Chars) /\ Len(a) = 2 /\ Len(b) = bl
  BY <1>1, <1>2, <1>3, BoundaryType
<1>5a. a \in Seq(Chars) /\ b \in Seq(Chars)
  BY <1>5
<1>6. /\ e \in Seq(Chars) /\ Len(e) = Len(a) + Len(b)
      /\ \A j \in 1..Len(b) : e[Len(a) + j] = b[j]
  BY <1>4, <1>5a, JoinsAs
<1> QED  BY <1>0, <1>3, <1>5, <1>6, BoundaryType

LEMMA ClosingShape ==
    /\ Closing \in Seq(Chars) /\ Len(Closing) = bl + 6
    /\ \A j \in 1..(bl + 2) : Closing[j] = Delimiter[j]
    /\ Closing[bl + 3] = "-" /\ Closing[bl + 4] = "-"
    /\ Closing[bl + 5] = CR /\ Closing[bl + 6] = LF
<1> DEFINE a == Delimiter \o Dashes
<1>1. /\ a \in Seq(Chars) /\ Len(a) = bl + 4
      /\ \A j \in 1..(bl + 2) : a[j] = Delimiter[j]
      /\ a[bl + 3] = "-" /\ a[bl + 4] = "-"
  BY DelimiterShape, BoundaryType, TwoMore, Literals DEF Dashes
<1>2. Closing = a \o <<CR, LF>> /\ CR \in Chars /\ LF \in Chars
  BY Literals DEF Closing, CRLF
<1> HIDE DEF a
<1> QED  BY <1>1, <1>2, BoundaryType, TwoMore

(* Where the bytes of a part are. *)
LEMMA TextShape ==
    ASSUME NEW p \in Parts
    PROVE  /\ PartText(p) \in Seq(Chars)
           /\ Len(p.data) \in Nat /\ Len(PartText(p)) = bl + 15 + Len(p.data)
           /\ \A j \in 1..(bl + 2) : PartText(p)[j] = Delimiter[j]
           /\ PartText(p)[bl + 3] = CR /\ PartText(p)[bl + 4] = LF
           /\ PartText(p)[bl + 5] = "D" /\ PartText(p)[bl + 6] = p.name
           /\ PartText(p)[bl + 7] = CR /\ PartText(p)[bl + 8] = LF
           /\ PartText(p)[bl + 9] = "T"
           /\ PartText(p)[bl + 10] = CR /\ PartText(p)[bl + 11] = LF
           /\ PartText(p)[bl + 12] = CR /\ PartText(p)[bl + 13] = LF
           /\ \A j \in 1..Len(p.data) : PartText(p)[bl + 13 + j] = p.data[j]
<1>1. PICK nm : nm = p.name  OBVIOUS
<1>2. PICK d : d = p.data  OBVIOUS
<1>3. PICK h : h = <<CR, LF, "D", nm, CR, LF, "T", CR, LF, CR, LF>>  OBVIOUS
<1>4. PICK a : a = Delimiter  OBVIOUS
<1>5. PICK e : e = CRLF  OBVIOUS
<1>6. PICK t : t = PartText(p)  OBVIOUS
<1>7a. PICK b : b = a \o h  OBVIOUS
<1>7b. PICK c : c = b \o d  OBVIOUS
<1>7. t = c \o e
  BY <1>7a, <1>7b, <1>1, <1>2, <1>3, <1>4, <1>5, <1>6 DEF PartText
<1>8. nm \in Chars /\ d \in Seq(Chars)
  BY <1>1, <1>2 DEF Parts
<1>9. /\ h \in Seq(Chars) /\ Len(h) = 11
      /\ h[1] = CR /\ h[2] = LF /\ h[3] = "D" /\ h[4] = nm /\ h[5] = CR /\ h[6] = LF
      /\ h[7] = "T" /\ h[8] = CR /\ h[9] = LF /\ h[10] = CR /\ h[11] = LF
  BY <1>3, <1>8, Literals
<1>10. e \in Seq(Chars) /\ Len(e) = 2
  BY <1>5, Literals DEF CRLF
<1>11. a \in Seq(Chars) /\ Len(a) = bl + 2
  BY <1>4, DelimiterShape
<1>12. Len(d) \in Nat
  BY <1>8, LenProperties
<1>12a. /\ a \in Seq(Chars) /\ h \in Seq(Chars) /\ d \in Seq(Chars) /\ e \in Seq(Chars)
  BY <1>8, <1>9, <1>10, <1>11
<1>13. /\ t \in Seq(Chars)
       /\ Len(t) = Len(a) + Len(h) + Len(d) + Len(e)
       /\ \A j \in 1..Len(a) : t[j] = a[j]
       /\ \A j \in 1..Len(h) : t[Len(a) + j] = h[j]
       /\ \A j \in 1..Len(d) : t[Len(a) + Len(h) + j] = d[j]
  BY <1>7a, <1>7b, <1>7, <1>12a, Layers
<1>14. bl \in Nat
  BY BoundaryType
<1>15. Len(t) = bl + 15 + Len(d)
  BY <1>9, <1>10, <1>11, <1>12, <1>13, <1>14
<1>16. \A j \in 1..11 : t[bl + 2 + j] = h[j]
  BY <1>9, <1>11, <1>13
<1>17. \A j \in 1..(bl + 2) : t[j] = a[j]
  BY <1>11, <1>13
<1>18. \A j \in 1..Len(d) : t[bl + 13 + j] = d[j]
  BY <1>9, <1>11, <1>12, <1>13, <1>14
<1>19. /\ t[bl + 3] = h[1] /\ t[bl + 4] = h[2] /\ t[bl + 5] = h[3] /\ t[bl + 6] = h[4]
       /\ t[bl + 7] = h[5] /\ t[bl + 8] = h[6] /\ t[bl + 9] = h[7] /\ t[bl + 10] = h[8]
       /\ t[bl + 11] = h[9] /\ t[bl + 12] = h[10] /\ t[bl + 13] = h[11]
  BY <1>14, <1>16
<1>20. /\ t[bl + 3] = CR /\ t[bl + 4] = LF /\ t[bl + 5] = "D" /\ t[bl + 6] = nm
       /\ t[bl + 7] = CR /\ t[bl + 8] = LF /\ t[bl + 9] = "T" /\ t[bl + 10] = CR
       /\ t[bl + 11] = LF /\ t[bl + 12] = CR /\ t[bl + 13] = LF
  BY <1>9, <1>19
<1> QED  BY <1>1, <1>2, <1>4, <1>6, <1>12, <1>13, <1>15, <1>17, <1>18, <1>20

-----------------------------------------------------------------------------
(* A whole body, and where its parts begin. *)

Texts(b) == [i \in DOMAIN b |-> PartText(b[i])]
WholeBody(b) == FlattenSeq(Texts(b)) \o Closing
At(b, k) == Len(Flat(Texts(b), k - 1))

LEMMA TextsType ==
    ASSUME NEW b \in Seq(Parts)
    PROVE  /\ Len(b) \in Nat
           /\ Texts(b) \in Seq(Seq(Chars)) /\ Len(Texts(b)) = Len(b)
           /\ \A k \in 1..Len(b) : b[k] \in Parts /\ Texts(b)[k] = PartText(b[k])
<1>1. Len(b) \in Nat /\ DOMAIN b = 1..Len(b) /\ \A k \in 1..Len(b) : b[k] \in Parts
  OBVIOUS
<1>2. \A k \in 1..Len(b) : PartText(b[k]) \in Seq(Chars)
  BY <1>1, TextShape
<1>3. Texts(b) = [i \in 1..Len(b) |-> PartText(b[i])]
  BY <1>1 DEF Texts
<1> QED  BY <1>1, <1>2, <1>3

LEMMA Layout ==
    ASSUME NEW b \in Seq(Parts)
    PROVE  /\ WholeBody(b) \in Seq(Chars)
           /\ At(b, 1) = 0
           /\ \A k \in 1..(Len(b) + 1) : At(b, k) \in Nat
           /\ \A k \in 1..Len(b) :
                 /\ Len(b[k].data) \in Nat
                 /\ At(b, k + 1) = At(b, k) + bl + 15 + Len(b[k].data)
                 /\ \A j \in 1..(bl + 15 + Len(b[k].data)) :
                       WholeBody(b)[At(b, k) + j] = PartText(b[k])[j]
           /\ Len(WholeBody(b)) = At(b, Len(b) + 1) + bl + 6
           /\ \A j \in 1..(bl + 6) : WholeBody(b)[At(b, Len(b) + 1) + j] = Closing[j]
<1>1. PICK t : t = Texts(b)  OBVIOUS
<1>2. /\ Len(b) \in Nat /\ t \in Seq(Seq(Chars)) /\ Len(t) = Len(b)
      /\ \A k \in 1..Len(b) : b[k] \in Parts /\ t[k] = PartText(b[k])
  BY <1>1, TextsType
<1>3. PICK n : n = Len(b)  OBVIOUS
<1>4. PICK w : w = WholeBody(b)  OBVIOUS
<1>5. PICK f : f = Flat(t, n)  OBVIOUS
<1>6. w = f \o Closing
  BY <1>1, <1>2, <1>3, <1>4, <1>5, FlattenIsFlat DEF WholeBody
<1>7. n \in Nat /\ n = Len(t) /\ t \in Seq(Seq(Chars)) /\ 1..n = 1..Len(b)
  BY <1>2, <1>3
<1>8. \A k \in 0..n : Flat(t, k) \in Seq(Chars) /\ Len(Flat(t, k)) \in Nat
  <2>1. \A k \in 0..n : Flat(t, k) \in Seq(Chars)  BY <1>7, FlatSteps
  <2> QED  BY <2>1, LenProperties
<1>9. f \in Seq(Chars) /\ Closing \in Seq(Chars)
  BY <1>5, <1>7, <1>8, ClosingShape
<1>10. /\ w \in Seq(Chars) /\ Len(f) \in Nat /\ Len(w) = Len(f) + Len(Closing)
       /\ \A j \in 1..Len(f) : w[j] = f[j]
       /\ \A j \in 1..Len(Closing) : w[Len(f) + j] = Closing[j]
  BY <1>6, <1>9, JoinsAs
<1>11. \A k \in 1..(n + 1) : At(b, k) = Len(Flat(t, k - 1)) /\ At(b, k) \in Nat
  BY <1>1, <1>7, <1>8 DEF At
<1>12. At(b, 1) = 0
  <2>1. Flat(t, 0) = <<>>  BY DEF Flat
  <2> QED  BY <2>1, <1>7, <1>11
<1>13. At(b, n + 1) = Len(f)
  BY <1>5, <1>7, <1>11
<1>14. ASSUME NEW k \in 1..n
       PROVE  /\ Len(b[k].data) \in Nat
              /\ At(b, k + 1) = At(b, k) + bl + 15 + Len(b[k].data)
              /\ \A j \in 1..(bl + 15 + Len(b[k].data)) : w[At(b, k) + j] = PartText(b[k])[j]
  <2>0. k - 1 \in 0..n /\ k \in 0..n /\ (k + 1) - 1 = k /\ n \in k..n
        /\ k \in 1..(n + 1) /\ k + 1 \in 1..(n + 1)
    BY <1>7
  <2>1. PICK g : g = Flat(t, k - 1)  OBVIOUS
  <2>2. PICK h : h = Flat(t, k)  OBVIOUS
  <2>3. PICK p : p = PartText(b[k])  OBVIOUS
  <2>4. b[k] \in Parts /\ t[k] = p
    BY <1>2, <1>3, <2>3
  <2>5. /\ p \in Seq(Chars) /\ Len(b[k].data) \in Nat
        /\ Len(p) = bl + 15 + Len(b[k].data)
    BY <2>3, <2>4, TextShape
  <2>6. g \in Seq(Chars) /\ h \in Seq(Chars) /\ p \in Seq(Chars)
    BY <1>8, <2>0, <2>1, <2>2, <2>5
  <2>7. h = g \o p
    BY <1>7, <2>1, <2>2, <2>4, FlatSteps
  <2>8. /\ Len(g) \in Nat /\ Len(p) \in Nat /\ Len(h) = Len(g) + Len(p)
        /\ \A j \in 1..Len(p) : h[Len(g) + j] = p[j]
    BY <2>6, <2>7, JoinsAs
  <2>9. At(b, k) = Len(g) /\ At(b, k + 1) = Len(h)
    BY <1>11, <2>0, <2>1, <2>2
  <2>10. Len(h) <= Len(f) /\ \A j \in 1..Len(h) : f[j] = h[j]
    BY <1>5, <1>7, <2>0, <2>2, FlatFront
  <2>11. \A j \in 1..Len(h) : w[j] = h[j]
    <3>1. \A j \in 1..Len(h) : j \in 1..Len(f)
      BY <1>10, <2>8, <2>10
    <3>2. \A j \in 1..Len(f) : w[j] = f[j]
      BY <1>10
    <3> QED  BY <3>1, <3>2, <2>10
  <2>12. \A j \in 1..Len(p) : w[Len(g) + j] = p[j]
    BY <2>8, <2>11
  <2>13. bl \in Nat
    BY BoundaryType
  <2>14. At(b, k + 1) = At(b, k) + bl + 15 + Len(b[k].data)
    <3>1. PICK m : m = Len(b[k].data)  OBVIOUS
    <3>2. m \in Nat /\ Len(p) = bl + 15 + m
      BY <2>5, <3>1, Zenon
    <3>3. Len(h) = Len(g) + bl + 15 + m
      BY <2>8, <2>13, <3>2
    <3> QED  BY <3>1, <3>3, <2>9, Zenon
  <2>15. \A j \in 1..(bl + 15 + Len(b[k].data)) : w[At(b, k) + j] = PartText(b[k])[j]
    BY <2>3, <2>5, <2>9, <2>12, Zenon
  <2> QED  BY <2>5, <2>14, <2>15
<1>15. Len(Closing) = bl + 6 /\ bl \in Nat
  BY ClosingShape, BoundaryType
<1>16. Len(w) = At(b, n + 1) + bl + 6
  <2>1. Len(w) = Len(f) + bl + 6
    BY <1>10, <1>15
  <2> QED  BY <2>1, <1>13, Zenon
<1>17. \A j \in 1..(bl + 6) : w[At(b, n + 1) + j] = Closing[j]
  BY <1>10, <1>13, <1>15
<1> QED  BY <1>3, <1>4, <1>10, <1>11, <1>12, <1>14, <1>16, <1>17, Zenon

-----------------------------------------------------------------------------
(* Where the boundary is *)

BoundaryAt(s, p) == \A j \in 1..bl : s[p + j] = Boundary[j]

LEMMA PlacesAre ==
    ASSUME NEW s \in Seq(Chars), NEW i \in Int
    PROVE  i \in Places(s) <=> i \in 1..(Len(s) - bl + 1) /\ BoundaryAt(s, i - 1)
<1>1. Len(s) \in Nat /\ \A j \in 1..Len(s) : s[j] \in Chars
  BY LenProperties, ElementOfSeq
<1>2. bl \in Nat /\ bl > 0 /\ bl = Len(Boundary) /\ Boundary \in Seq(Chars)
  BY BoundaryType
<1>3. SUFFICES ASSUME i \in 1..(Len(s) - bl + 1)
               PROVE  SubSeq(s, i, i + bl - 1) = Boundary <=> BoundaryAt(s, i - 1)
  BY DEF Places
<1>4. PICK t : t = SubSeq(s, i, i + bl - 1)  OBVIOUS
<1>5. PICK e : e = i + bl - 1  OBVIOUS
<1>6. e \in Int /\ i <= e /\ e - i + 1 = bl /\ \A j \in i..e : s[j] \in Chars
  BY <1>1, <1>2, <1>3, <1>5
<1>7. /\ SubSeq(s, i, e) \in Seq(Chars) /\ Len(SubSeq(s, i, e)) = e - i + 1
      /\ \A j \in 1..(e - i + 1) : SubSeq(s, i, e)[j] = s[i + j - 1]
  <2>1. i \in Int /\ e \in Int /\ i <= e /\ \A j \in i..e : s[j] \in Chars
    BY <1>6
  <2> QED  BY <2>1, SubSeqProperties
<1>8. t \in Seq(Chars) /\ Len(t) = bl /\ \A j \in 1..bl : t[j] = s[i + j - 1]
  BY <1>4, <1>5, <1>6, <1>7
<1>9. ASSUME t = Boundary PROVE BoundaryAt(s, i - 1)
  <2>1. \A j \in 1..bl : s[i + j - 1] = Boundary[j]
    BY <1>8, <1>9
  <2>2. \A j \in 1..bl : i + j - 1 = i - 1 + j
    BY <1>2
  <2> QED  BY <2>1, <2>2 DEF BoundaryAt
<1>10. ASSUME BoundaryAt(s, i - 1) PROVE t = Boundary
  <2>1. \A j \in 1..bl : s[i - 1 + j] = Boundary[j]
    BY <1>10 DEF BoundaryAt
  <2>2. \A j \in 1..bl : i + j - 1 = i - 1 + j
    BY <1>2
  <2>3. \A j \in 1..bl : t[j] = Boundary[j]
    BY <1>8, <2>1, <2>2
  <2>4. t \in Seq(Chars) /\ Boundary \in Seq(Chars) /\ Len(t) = Len(Boundary)
        /\ \A j \in 1..Len(t) : t[j] = Boundary[j]
    BY <1>2, <1>8, <2>3
  <2> QED  BY <2>4, SeqEqual
<1> QED  BY <1>4, <1>9, <1>10

(* What follows a part begins with a delimiter. *)
LEMMA DelimiterNext ==
    ASSUME NEW b \in Seq(Parts), NEW k \in 1..(Len(b) + 1)
    PROVE  \A j \in 1..(bl + 2) : WholeBody(b)[At(b, k) + j] = Delimiter[j]
<1>0. Len(b) \in Nat /\ bl \in Nat
  BY LenProperties, BoundaryType
<1>1. CASE k \in 1..Len(b)
  <2>1. PICK m : m = Len(b[k].data)  OBVIOUS
  <2>2. m \in Nat /\ \A j \in 1..(bl + 15 + m) : WholeBody(b)[At(b, k) + j] = PartText(b[k])[j]
    BY <1>1, <2>1, Layout, Zenon
  <2>3. b[k] \in Parts
    BY <1>1, ElementOfSeq
  <2>4. \A j \in 1..(bl + 2) : PartText(b[k])[j] = Delimiter[j]
    BY <2>3, TextShape
  <2>5. \A j \in 1..(bl + 2) : j \in 1..(bl + 15 + m)
    BY <1>0, <2>2
  <2> QED  BY <2>2, <2>4, <2>5
<1>2. CASE k = Len(b) + 1
  <2>1. \A j \in 1..(bl + 6) : WholeBody(b)[At(b, k) + j] = Closing[j]
    BY <1>2, Layout, Zenon
  <2>2. \A j \in 1..(bl + 2) : Closing[j] = Delimiter[j] /\ j \in 1..(bl + 6)
    BY <1>0, ClosingShape
  <2> QED  BY <2>1, <2>2
<1> QED  BY <1>0, <1>1, <1>2

(* From a on, w is n characters of u. *)
Has(w, a, u, n) == \A j \in 1..n : w[a + j] = u[j]

(* Two texts that agree from a on have the boundary in the same places there. *)
LEMMA BoundaryMoves ==
    ASSUME NEW a \in Nat, NEW n \in Nat, NEW w, NEW u, Has(w, a, u, n),
           NEW q \in Nat, q + bl <= n
    PROVE  BoundaryAt(w, a + q) <=> BoundaryAt(u, q)
<1>0. bl \in Nat
  BY BoundaryType
<1>1. \A j \in 1..bl : q + j \in 1..n /\ a + q + j = a + (q + j)
  BY <1>0
<1>2. \A j \in 1..n : w[a + j] = u[j]
  BY DEF Has
<1>3. \A j \in 1..bl : w[a + q + j] = u[q + j]
  BY <1>1, <1>2
<1> QED  BY <1>3 DEF BoundaryAt

LEMMA Follows ==
    ASSUME NEW a \in Nat, NEW l \in Nat, NEW d \in Nat, NEW w, NEW u, NEW p, NEW e,
           Has(w, a, p, l), Has(w, a + l, e, d), Has(u, 0, p, l), Has(u, l, e, d)
    PROVE  Has(w, a, u, l + d)
<1>1. /\ \A j \in 1..l : w[a + j] = p[j]
      /\ \A j \in 1..d : w[a + l + j] = e[j]
      /\ \A j \in 1..l : u[j] = p[j]
      /\ \A j \in 1..d : u[l + j] = e[j]
  BY DEF Has
<1>2. SUFFICES ASSUME NEW j \in 1..(l + d) PROVE w[a + j] = u[j]
  BY DEF Has
<1>3. CASE j <= l
  BY <1>1, <1>3
<1>4. CASE j > l
  <2>1. PICK i : i = j - l  OBVIOUS
  <2>2. i \in 1..d /\ a + j = a + l + i /\ j = l + i
    BY <1>4, <2>1
  <2> QED  BY <1>1, <2>2
<1> QED  BY <1>3, <1>4

(* u is a part p of length l and the delimiter after it, w has them from a on. *)
Framed(w, a, p, l, u) ==
    /\ Has(w, a, p, l) /\ Has(w, a + l, Delimiter, bl + 2)
    /\ Has(u, 0, p, l) /\ Has(u, l, Delimiter, bl + 2)
    /\ u \in Seq(Chars) /\ Len(u) = l + (bl + 2)
    /\ Places(u) = {3, l + 3}

LEMMA WhereIn ==
    ASSUME NEW a \in Nat, NEW l \in Nat, NEW w, NEW p, NEW u, Framed(w, a, p, l, u),
           NEW q \in 0..(l + 2)
    PROVE  BoundaryAt(w, a + q) <=> q = 2 \/ q = l + 2
<1>0. /\ Has(w, a, p, l) /\ Has(w, a + l, Delimiter, bl + 2)
      /\ Has(u, 0, p, l) /\ Has(u, l, Delimiter, bl + 2)
      /\ u \in Seq(Chars) /\ Len(u) = l + (bl + 2)
      /\ Places(u) = {3, l + 3}
  BY DEF Framed
<1>1. PICK d : d = bl + 2  OBVIOUS
<1>2. bl \in Nat
  BY BoundaryType
<1>3. d \in Nat /\ l + d \in Nat /\ l + d = l + bl + 2
  BY <1>1, <1>2
<1>4. d \in Nat /\ Has(w, a + l, Delimiter, d) /\ Has(u, l, Delimiter, d)
  BY <1>0, <1>1, <1>3
<1>5. Has(w, a, u, l + d)
  BY <1>0, <1>4, Follows
<1>6. l + d \in Nat /\ q \in Nat /\ q + bl <= l + d
  BY <1>2, <1>3
<1>7. BoundaryAt(w, a + q) <=> BoundaryAt(u, q)
  BY <1>5, <1>6, BoundaryMoves
<1>8. q + 1 \in Int /\ q + 1 \in 1..(Len(u) - bl + 1) /\ (q + 1) - 1 = q
  BY <1>0, <1>2
<1>9. q + 1 \in Places(u) <=> BoundaryAt(u, q)
  BY <1>0, <1>8, PlacesAre
<1>10. q + 1 \in Places(u) <=> q = 2 \/ q = l + 2
  BY <1>0
<1> QED  BY <1>7, <1>9, <1>10

LEMMA Where ==
    ASSUME NEW b \in Bodies, NEW k \in 1..Len(b), NEW q \in Int,
           0 <= q, At(b, k) + q <= At(b, k + 1) + 2
    PROVE  BoundaryAt(WholeBody(b), At(b, k) + q) <=> q = 2 \/ At(b, k) + q = At(b, k + 1) + 2
<1>0. b \in Seq(Parts)
  BY BytesAssumption
<1>1. PICK a : a = At(b, k)  OBVIOUS
<1>2. PICK p : p = PartText(b[k])  OBVIOUS
<1>3. PICK w : w = WholeBody(b)  OBVIOUS
<1>4. PICK l : l = Len(p)  OBVIOUS
<1>5. b[k] \in Parts
  BY <1>0, ElementOfSeq
<1>6. p \in Seq(Chars) /\ l \in Nat /\ l = bl + 15 + Len(b[k].data)
  <2>1. p \in Seq(Chars) /\ Len(p) = bl + 15 + Len(b[k].data)
    BY <1>2, <1>5, TextShape, Zenon
  <2> QED  BY <2>1, <1>4, LenProperties
<1>7. Len(b) \in Nat
  BY <1>0, LenProperties
<1>8. k + 1 \in 1..(Len(b) + 1) /\ k \in 1..(Len(b) + 1) /\ k \in DOMAIN b
  BY <1>0, <1>7
<1>9. a \in Nat
  BY <1>0, <1>1, <1>8, Layout, Zenon
<1>9a. At(b, k + 1) \in Nat
  BY <1>0, <1>8, Layout, Zenon
<1>10. PICK c : c = At(b, k + 1)  OBVIOUS
<1>11. c = a + bl + 15 + Len(b[k].data) /\ Len(b[k].data) \in Nat
  BY <1>0, <1>1, <1>10, Layout, Zenon
<1>12. Has(w, a, p, l)
  BY <1>0, <1>1, <1>2, <1>3, <1>6, Layout, Zenon DEF Has
<1>13. c = a + l
  <2>1. PICK m : m = Len(b[k].data)  OBVIOUS
  <2>2. m \in Nat /\ c = a + bl + 15 + m /\ l = bl + 15 + m
    BY <1>6, <1>11, <2>1, Zenon
  <2>3. bl \in Nat
    BY BoundaryType
  <2> QED  BY <2>2, <2>3, <1>9
<1>14. Has(w, a + l, Delimiter, bl + 2)
  <2>1. \A j \in 1..(bl + 2) : w[c + j] = Delimiter[j]
    BY <1>0, <1>3, <1>8, <1>10, DelimiterNext, Zenon
  <2> QED  BY <2>1, <1>13, Zenon DEF Has
<1>17a. l \in Nat  BY <1>6
<1>15. PICK u : u = p \o Delimiter  OBVIOUS
<1>15a. Places(u) = {3, l + 3}
  BY <1>2, <1>4, <1>8, <1>15, BytesAssumption, Zenon
<1>15b. PICK e : e = Delimiter  OBVIOUS
<1>15c. u = p \o e /\ p \in Seq(Chars) /\ e \in Seq(Chars)
  BY <1>6, <1>15, <1>15b, DelimiterShape, Zenon
<1>15d. /\ u \in Seq(Chars) /\ Len(u) = Len(p) + Len(e)
        /\ \A j \in 1..Len(p) : u[j] = p[j]
        /\ \A j \in 1..Len(e) : u[Len(p) + j] = e[j]
  BY <1>15c, JoinsAs
<1>15e. Len(e) = bl + 2
  BY <1>15b, DelimiterShape
<1>15f. u \in Seq(Chars) /\ Len(u) = l + (bl + 2) /\ Has(u, l, Delimiter, bl + 2)
  BY <1>4, <1>15b, <1>15d, <1>15e, Zenon DEF Has
<1>15g. Has(u, 0, p, l)
  BY <1>4, <1>15d DEF Has
<1>16. a + q <= a + l + 2
  BY <1>1, <1>10, <1>13, Zenon
<1>17. q \in 0..(l + 2)
  BY <1>6, <1>9, <1>16
<1>17b. Framed(w, a, p, l, u)
  BY <1>12, <1>14, <1>15a, <1>15f, <1>15g, Zenon DEF Framed
<1>18. BoundaryAt(w, a + q) <=> q = 2 \/ q = l + 2
  BY <1>9, <1>17, <1>17a, <1>17b, WhereIn, Zenon
<1>19. q = l + 2 <=> a + q = c + 2
  BY <1>9, <1>13, <1>17a
<1> QED  BY <1>1, <1>3, <1>10, <1>18, <1>19, Zenon

LEMMA WhereLast ==
    ASSUME NEW b \in Bodies, NEW q \in 0..6
    PROVE  BoundaryAt(WholeBody(b), At(b, Len(b) + 1) + q) <=> q = 2
<1>0. b \in Seq(Parts) /\ Len(b) \in Nat /\ bl \in Nat /\ Len(b) + 1 \in 1..(Len(b) + 1)
  BY BytesAssumption, BoundaryType, LenProperties
<1>1. PICK a : a = At(b, Len(b) + 1)  OBVIOUS
<1>2. PICK w : w = WholeBody(b)  OBVIOUS
<1>3. a \in Nat /\ \A j \in 1..(bl + 6) : w[a + j] = Closing[j]
  BY <1>0, <1>1, <1>2, Layout, Zenon
<1>4. Closing \in Seq(Chars) /\ Len(Closing) = bl + 6
  BY ClosingShape
<1>4a. bl + 6 \in Nat /\ q \in Nat /\ q + bl <= bl + 6
  BY <1>0
<1>4b. a \in Nat /\ Has(w, a, Closing, bl + 6)
  BY <1>3 DEF Has
<1>5. BoundaryAt(w, a + q) <=> BoundaryAt(Closing, q)
  BY <1>4a, <1>4b, BoundaryMoves
<1>6. q + 1 \in Int /\ q + 1 \in 1..(Len(Closing) - bl + 1) /\ (q + 1) - 1 = q
  BY <1>0, <1>4
<1>7. q + 1 \in Places(Closing) <=> BoundaryAt(Closing, q)
  BY <1>4, <1>6, PlacesAre
<1>8. Places(Closing) = {3}
  BY BytesAssumption
<1>9. q + 1 \in Places(Closing) <=> q = 2
  BY <1>8
<1> QED  BY <1>1, <1>2, <1>5, <1>7, <1>9, Zenon

(* From past a part's own boundary up to the next one only that one is found.    *)
LEMMA WhereFrom ==
    ASSUME NEW b \in Bodies, NEW k \in 0..Len(b), NEW p \in Nat,
           k = 0 \/ At(b, k) + 2 < p, p <= At(b, k + 1) + 2
    PROVE  BoundaryAt(WholeBody(b), p) <=> p = At(b, k + 1) + 2
<1>0. b \in Seq(Parts) /\ Len(b) \in Nat /\ k \in Nat
  BY BytesAssumption, LenProperties
<1>1. PICK c : c = At(b, k + 1)  OBVIOUS
<1>2. c \in Nat
  <2>1. k + 1 \in 1..(Len(b) + 1)  BY <1>0
  <2> QED  BY <2>1, <1>0, <1>1, Layout, Zenon
<1>3. CASE k > 0
  <2>1. PICK a : a = At(b, k)  OBVIOUS
  <2>2. k \in 1..Len(b) /\ k \in 1..(Len(b) + 1)
    BY <1>0, <1>3
  <2>3. a \in Nat
    BY <1>0, <2>1, <2>2, Layout, Zenon
  <2>4. a + 2 < p /\ p <= c + 2
    BY <1>0, <1>1, <1>3, <2>1
  <2>5. PICK q : q = p - a  OBVIOUS
  <2>6. q \in Int /\ 0 <= q /\ a + q = p /\ a + q <= c + 2 /\ q # 2
    BY <2>3, <2>4, <2>5
  <2>7. At(b, k) + q <= At(b, k + 1) + 2
    BY <1>1, <2>1, <2>6, Zenon
  <2>8. BoundaryAt(WholeBody(b), At(b, k) + q) <=> q = 2 \/ At(b, k) + q = At(b, k + 1) + 2
    BY <2>2, <2>6, <2>7, Where, Zenon
  <2> QED  BY <2>1, <2>6, <2>8, Zenon
<1>4. CASE k = 0 /\ Len(b) > 0
  <2>1. 1 \in 1..Len(b) /\ 2 = 1 + 1 /\ At(b, 1) = 0 /\ c = 0
    BY <1>0, <1>1, <1>4, Layout
  <2>2. PICK m : m = Len(b[1].data)  OBVIOUS
  <2>3. m \in Nat /\ At(b, 2) = 0 + bl + 15 + m
    BY <1>0, <2>1, <2>2, Layout, Zenon
  <2>4. PICK d : d = At(b, 2)  OBVIOUS
  <2>5. d > 2 /\ d \in Nat
    BY <2>3, <2>4, BoundaryType
  <2>6. p <= c + 2
    BY <1>1
  <2>7. p \in Int /\ 0 <= p /\ 0 + p = p /\ p <= d + 2 /\ p # d + 2
    BY <2>1, <2>5, <2>6
  <2>8. At(b, 1) + p = p /\ At(b, 1) + p <= At(b, 1 + 1) + 2
    BY <2>1, <2>4, <2>7, Zenon
  <2>9. BoundaryAt(WholeBody(b), At(b, 1) + p) <=> p = 2 \/ At(b, 1) + p = At(b, 1 + 1) + 2
    BY <2>1, <2>7, <2>8, Where, Zenon
  <2>10. BoundaryAt(WholeBody(b), p) <=> p = 2 \/ p = d + 2
    BY <2>1, <2>4, <2>8, <2>9, Zenon
  <2>11. c + 2 = 2
    BY <2>1
  <2> QED  BY <1>1, <2>7, <2>10, <2>11, Zenon
<1>5. CASE k = 0 /\ Len(b) = 0
  <2>1. c = 0 /\ At(b, Len(b) + 1) = c
    <3>1. Len(b) + 1 = k + 1 /\ k + 1 = 1
      BY <1>0, <1>5
    <3>2. At(b, 1) = 0
      BY <1>0, Layout
    <3> QED  BY <1>1, <3>1, <3>2, Zenon
  <2>2. p <= c + 2
    BY <1>1
  <2>3. p \in 0..6 /\ c + p = p /\ c + 2 = 2
    BY <2>1, <2>2
  <2>4. BoundaryAt(WholeBody(b), At(b, Len(b) + 1) + p) <=> p = 2
    BY <2>3, WhereLast, Zenon
  <2> QED  BY <1>1, <2>1, <2>3, <2>4, Zenon
<1> QED  BY <1>0, <1>3, <1>4, <1>5

LEMMA Found ==
    ASSUME NEW b \in Bodies, NEW s \in Seq(Chars), NEW p \in Nat, NEW k \in 0..Len(b),
           Has(WholeBody(b), p, s, Len(s)),
           k = 0 \/ At(b, k) + 2 < p, p <= At(b, k + 1) + 2
    PROVE  /\ p + Len(s) < At(b, k + 1) + 2 + bl => Places(s) = {}
           /\ p + Len(s) >= At(b, k + 1) + 2 + bl =>
                 Places(s) # {} /\ Min(Places(s)) = At(b, k + 1) + 3 - p
<1>0. b \in Seq(Parts) /\ Len(b) \in Nat /\ k \in Nat /\ bl \in Nat /\ bl > 0
  BY BytesAssumption, LenProperties, BoundaryType
<1>1. PICK c : c = At(b, k + 1)  OBVIOUS
<1>2. c \in Nat
  <2>1. k + 1 \in 1..(Len(b) + 1)  BY <1>0
  <2> QED  BY <2>1, <1>0, <1>1, Layout, Zenon
<1>3. PICK l : l = Len(s)  OBVIOUS
<1>4. l \in Nat
  BY <1>3, LenProperties
<1>5. PICK w : w = WholeBody(b)  OBVIOUS
<1>6. p <= c + 2 /\ Has(w, p, s, l)
  BY <1>1, <1>3, <1>5
<1>7. ASSUME NEW i \in Nat, i + bl <= l
      PROVE  BoundaryAt(w, p + i) <=> BoundaryAt(s, i)
  BY <1>4, <1>6, <1>7, BoundaryMoves
<1>8. ASSUME NEW i \in Nat, p + i <= c + 2
      PROVE  BoundaryAt(w, p + i) <=> p + i = c + 2
  <2>1. PICK e : e = p + i  OBVIOUS
  <2>2. e \in Nat /\ p <= e /\ e <= c + 2
    BY <1>8, <2>1
  <2>3. k = 0 \/ At(b, k) + 2 < e
    <3>1. SUFFICES ASSUME k # 0 PROVE At(b, k) + 2 < e
      OBVIOUS
    <3>2. k \in 1..(Len(b) + 1)
      BY <1>0, <3>1
    <3>3. At(b, k) \in Nat
      BY <1>0, <3>2, Layout, Zenon
    <3>4. PICK a : a = At(b, k)  OBVIOUS
    <3>5. a \in Nat /\ a + 2 < p
      BY <3>1, <3>3, <3>4
    <3>6. a + 2 < e
      BY <2>2, <3>5
    <3> QED  BY <3>4, <3>6
  <2>4. e <= At(b, k + 1) + 2
    BY <1>1, <2>2
  <2>5. BoundaryAt(WholeBody(b), e) <=> e = At(b, k + 1) + 2
    BY <2>2, <2>3, <2>4, WhereFrom
  <2> QED  BY <1>1, <1>5, <2>1, <2>5, Zenon
<1>9. ASSUME NEW x \in Nat, x > 0, p + x <= c + 3
      PROVE  x \in Places(s) <=> x <= l - bl + 1 /\ p + x = c + 3
  <2>1. PICK i : i = x - 1  OBVIOUS
  <2>2. i \in Nat /\ x \in Int /\ p + i <= c + 2 /\ x = i + 1
    BY <1>2, <1>9, <2>1
  <2>3. x \in Places(s) <=> x \in 1..(l - bl + 1) /\ BoundaryAt(s, i)
    BY <1>3, <2>1, <2>2, PlacesAre, Zenon
  <2>4. x \in 1..(l - bl + 1) <=> i + bl <= l
    BY <1>0, <1>4, <2>2
  <2>5. BoundaryAt(w, p + i) <=> p + i = c + 2
    BY <1>8, <2>2
  <2>6. i + bl <= l => (BoundaryAt(w, p + i) <=> BoundaryAt(s, i))
    BY <1>7, <2>2
  <2>7. p + i = c + 2 <=> p + x = c + 3
    BY <1>2, <2>2
  <2>8. i + bl <= l <=> x <= l - bl + 1
    BY <1>0, <1>4, <2>2
  <2> QED  BY <2>3, <2>4, <2>5, <2>6, <2>7, <2>8, Zenon
<1>10. \A x \in Places(s) : x \in Nat /\ x > 0 /\ x <= l - bl + 1
  BY <1>3, <1>0, <1>4 DEF Places
<1>11. ASSUME p + l < c + 2 + bl PROVE Places(s) = {}
  <2>1. ASSUME NEW x \in Places(s) PROVE FALSE
    <3>1. x \in Nat /\ x > 0 /\ x <= l - bl + 1
      BY <1>10
    <3>2. p + x < c + 3
      BY <1>0, <1>2, <1>4, <1>11, <3>1
    <3>3. p + x = c + 3
      BY <1>2, <1>9, <3>1, <3>2
    <3> QED  BY <1>2, <3>1, <3>2, <3>3
  <2> QED  BY <2>1
<1>12. ASSUME p + l >= c + 2 + bl
       PROVE  Places(s) # {} /\ Min(Places(s)) = c + 3 - p
  <2>1. PICK x : x = c + 3 - p  OBVIOUS
  <2>2. x \in Nat /\ x > 0 /\ p + x = c + 3 /\ p + x <= c + 3
    BY <1>2, <1>6, <2>1
  <2>3. x <= l - bl + 1
    BY <1>0, <1>2, <1>4, <1>12, <2>1
  <2>4. x \in Places(s)
    BY <1>9, <2>2, <2>3
  <2>5. ASSUME NEW y \in Places(s) PROVE x <= y
    <3>1. y \in Nat /\ y > 0
      BY <1>10
    <3>2. SUFFICES ASSUME y < x PROVE FALSE
      BY <2>2, <3>1
    <3>3. p + y < c + 3
      BY <1>2, <2>2, <3>1, <3>2
    <3>4. p + y = c + 3
      BY <1>2, <1>9, <3>1, <3>3
    <3> QED  BY <1>2, <3>1, <3>3, <3>4
  <2>6. Places(s) \subseteq Int
    BY <1>10
  <2>7. Min(Places(s)) = x
    BY <2>4, <2>5, <2>6, MinIs
  <2> QED  BY <2>1, <2>4, <2>7
<1> QED  BY <1>1, <1>3, <1>11, <1>12, Zenon

-----------------------------------------------------------------------------
(* The head of a part *)

(* From i on, the first c in s is at m. *)
FirstAt(s, c, i, m) == m \in i..Len(s) /\ s[m] = c /\ \A j \in i..(m - 1) : s[j] # c

LEMMA UntilIs ==
    ASSUME NEW s \in Seq(Chars), NEW c, NEW i \in Nat, NEW m, FirstAt(s, c, i, m)
    PROVE  Until(s, i, {c}) = m
<1>0. /\ m \in i..Len(s) /\ s[m] = c /\ \A j \in i..(m - 1) : s[j] # c
  BY DEF FirstAt
<1>1. Len(s) \in Nat
  BY LenProperties
<1> DEFINE T == {j \in i..Len(s) : s[j] \in {c}} \cup {Len(s) + 1}
<1>2. m \in T /\ T \subseteq Int
  BY <1>0, <1>1
<1>3. \A x \in T : m <= x
  <2> SUFFICES ASSUME NEW x \in T, x < m PROVE FALSE
    BY <1>0, <1>1
  <2>1. x \in i..(m - 1) /\ s[x] = c
    BY <1>0, <1>1
  <2> QED  BY <1>0, <2>1
<1>4. Until(s, i, {c}) = Min(T)
  BY DEF Until
<1> HIDE DEF T
<1> QED  BY <1>2, <1>3, <1>4, MinIs

LEMMA UntilFound ==
    ASSUME NEW s \in Seq(Chars), NEW c, NEW i \in Nat, 0 < i, Until(s, i, {c}) <= Len(s)
    PROVE  \E j \in i..Len(s) : s[j] = c
<1>1. Len(s) \in Nat
  BY LenProperties
<1> DEFINE T == {j \in i..Len(s) : s[j] \in {c}} \cup {Len(s) + 1}
<1>2. T \subseteq Nat /\ T # {}
  BY <1>1
<1>3. Until(s, i, {c}) = Min(T)
  BY DEF Until
<1> HIDE DEF T
<1>4. Until(s, i, {c}) \in T
  BY <1>2, <1>3, MinOf
<1> QED  BY <1>1, <1>4 DEF T

(* The characters of a head from i on, as far as they have come. *)
HeadAt(s, i, nm) ==
    /\ i <= Len(s) => s[i] = "D"
    /\ i + 1 <= Len(s) => s[i + 1] = nm
    /\ i + 2 <= Len(s) => s[i + 2] = CR
    /\ i + 3 <= Len(s) => s[i + 3] = LF
    /\ i + 4 <= Len(s) => s[i + 4] = "T"
    /\ i + 5 <= Len(s) => s[i + 5] = CR
    /\ i + 6 <= Len(s) => s[i + 6] = LF
    /\ i + 7 <= Len(s) => s[i + 7] = CR
    /\ i + 8 <= Len(s) => s[i + 8] = LF

LEMMA OneIs ==
    ASSUME NEW s \in Seq(Chars), NEW j \in 1..Len(s)
    PROVE  SubSeq(s, j, j) = <<s[j]>>
<1>1. Len(s) \in Nat /\ s[j] \in Chars /\ j \in Int
  BY LenProperties, ElementOfSeq
<1>2. PICK t : t = SubSeq(s, j, j)  OBVIOUS
<1>3. \A x \in j..j : s[x] \in Chars
  BY <1>1
<1>4. /\ SubSeq(s, j, j) \in Seq(Chars) /\ Len(SubSeq(s, j, j)) = j - j + 1
      /\ \A x \in 1..(j - j + 1) : SubSeq(s, j, j)[x] = s[j + x - 1]
  BY <1>1, <1>3, SubSeqProperties
<1>5. t \in Seq(Chars) /\ Len(t) = 1 /\ t[1] = s[j]
  <2>1. j - j + 1 = 1 /\ 1 \in 1..1 /\ j + 1 - 1 = j
    BY <1>1
  <2> QED  BY <1>2, <1>4, <2>1, Zenon
<1>6. t = <<t[1]>>
  BY <1>5
<1> QED  BY <1>2, <1>5, <1>6

LEMMA HeadRead ==
    ASSUME io \in Seq(Chars), NEW i \in Nat, 0 < i, NEW nm \in Chars, nm # LF,
           FindBoundary + bl + 2 = i, HeadAt(io, i, nm)
    PROVE  /\ i + 8 <= Len(io) => PartHead.end = i + 8 /\ PartHead.name = <<nm>>
           /\ i + 8 > Len(io) => PartHead.end = 0
<1> DEFINE lines == Lines(i)
           empty == {j \in lines : io[j] = CR /\ Until(io, j, {LF}) = j + 1}
           head  == {j \in lines : \A e \in empty : j < e}
           named == {j \in head : io[j] = "D"}
<1>1. /\ PartHead.end = IF empty = {} THEN 0 ELSE Min(empty) + 1
      /\ PartHead.name =
           IF named = {} THEN <<>>
           ELSE SubSeq(io, Max(named) + 1, Until(io, Max(named), {LF}) - 2)
  BY Zenon DEF PartHead
<1>2. PICK l : l = Len(io)  OBVIOUS
<1>3. l \in Nat
  BY <1>2, LenProperties
<1>4. /\ i <= l => io[i] = "D"
      /\ i + 1 <= l => io[i + 1] = nm
      /\ i + 2 <= l => io[i + 2] = CR
      /\ i + 3 <= l => io[i + 3] = LF
      /\ i + 4 <= l => io[i + 4] = "T"
      /\ i + 5 <= l => io[i + 5] = CR
      /\ i + 6 <= l => io[i + 6] = LF
      /\ i + 7 <= l => io[i + 7] = CR
      /\ i + 8 <= l => io[i + 8] = LF
  BY <1>2 DEF HeadAt
<1>5. CR # LF /\ "D" # LF /\ "T" # LF /\ "D" # CR /\ "T" # CR /\ "T" # "D"
  BY DEF CR, LF
<1>6. \A j \in lines : j \in i..l /\ (j = i \/ io[j - 1] = LF) /\ Until(io, j, {LF}) <= l
  BY <1>2 DEF Lines
<1>7. \A j \in lines : j < i + 7 => j = i \/ j = i + 4
  <2> SUFFICES ASSUME NEW j \in i..l, j < i + 7, j # i, io[j - 1] = LF
               PROVE  j = i + 4
    BY <1>3, <1>6
  <2>1. j \in {i + 1, i + 2, i + 3, i + 4, i + 5, i + 6}
    BY <1>3
  <2>2. j # i + 1
    BY <1>3, <1>4, <1>5
  <2>3. j # i + 2
    BY <1>3, <1>4, <1>5
  <2>4. j # i + 3
    BY <1>3, <1>4, <1>5
  <2>5. j # i + 5
    BY <1>3, <1>4, <1>5
  <2>6. j # i + 6
    BY <1>3, <1>4, <1>5
  <2> QED  BY <2>1, <2>2, <2>3, <2>4, <2>5, <2>6
<1>8. \A j \in empty : j \in lines /\ j >= i + 7 /\ j < l
  <2> TAKE j \in empty
  <2>1. j \in lines /\ io[j] = CR /\ Until(io, j, {LF}) = j + 1
    OBVIOUS
  <2> HIDE DEF lines, empty
  <2>2. j \in i..l /\ Until(io, j, {LF}) <= l
    BY <1>6, <2>1
  <2>3. j # i /\ j # i + 4
    BY <1>3, <1>4, <1>5, <2>1, <2>2
  <2>4. j >= i + 7
    BY <1>3, <1>7, <2>1, <2>2, <2>3
  <2> QED  BY <1>3, <2>1, <2>2, <2>4
<1>9. ASSUME i + 8 > l PROVE PartHead.end = 0
  <2>1. \A j \in empty : FALSE
    <3> TAKE j \in empty
    <3> HIDE DEF lines, empty
    <3>1. j \in lines /\ j >= i + 7 /\ j < l
      BY <1>8
    <3>2. j \in i..l
      BY <1>6, <3>1
    <3> QED  BY <1>3, <1>9, <3>1, <3>2
  <2> HIDE DEF empty
  <2> QED  BY <1>1, <2>1
<1>10. ASSUME i + 8 <= l
       PROVE  PartHead.end = i + 8 /\ PartHead.name = <<nm>>
  <2>0. io \in Seq(Chars)
    OBVIOUS
  <2>1. Until(io, i, {LF}) = i + 3
    <3>1. i + 3 \in i..Len(io) /\ io[i + 3] = LF
      BY <1>2, <1>3, <1>4, <1>10
    <3>2. \A j \in i..(i + 3 - 1) : io[j] # LF
      <4> TAKE j \in i..(i + 3 - 1)
      <4>1. j \in {i, i + 1, i + 2}  OBVIOUS
      <4> QED  BY <1>3, <1>4, <1>5, <1>10, <4>1
    <3>3. FirstAt(io, LF, i, i + 3)
      BY <3>1, <3>2 DEF FirstAt
    <3> QED  BY <2>0, <3>3, UntilIs
  <2>2. Until(io, i + 7, {LF}) = i + 8
    <3>1. i + 8 \in (i + 7)..Len(io) /\ io[i + 8] = LF /\ i + 7 \in Nat
      BY <1>2, <1>3, <1>4, <1>10
    <3>2. \A j \in (i + 7)..(i + 8 - 1) : io[j] # LF
      <4> TAKE j \in (i + 7)..(i + 8 - 1)
      <4>1. j = i + 7  OBVIOUS
      <4> QED  BY <1>3, <1>4, <1>5, <1>10, <4>1
    <3>3. FirstAt(io, LF, i + 7, i + 8)
      BY <3>1, <3>2 DEF FirstAt
    <3> QED  BY <2>0, <3>1, <3>3, UntilIs
  <2>3. i \in lines
    BY <1>2, <1>3, <1>10, <2>1 DEF Lines
  <2>4. i + 7 \in lines
    <3>1. i + 7 \in i..Len(io) /\ io[i + 7 - 1] = LF /\ i + 8 <= Len(io)
      BY <1>2, <1>3, <1>4, <1>10
    <3> QED  BY <2>2, <3>1 DEF Lines
  <2>5. i + 7 \in empty
    <3>1. io[i + 7] = CR /\ (i + 7) + 1 = i + 8
      BY <1>3, <1>4, <1>10
    <3> HIDE DEF lines
    <3> QED  BY <2>2, <2>4, <3>1
  <2> HIDE DEF lines
  <2>6. empty \subseteq Int /\ \A j \in empty : i + 7 <= j
    <3> HIDE DEF empty
    <3> QED  BY <1>6, <1>8
  <2>7. Min(empty) = i + 7
    <3> HIDE DEF empty
    <3> QED  BY <2>5, <2>6, MinIs
  <2>8. PartHead.end = i + 8
    <3> HIDE DEF empty
    <3>1. empty # {} /\ i + 7 + 1 = i + 8
      BY <2>5
    <3> QED  BY <1>1, <2>7, <3>1
  <2>9. i \in named
    <3>1. \A e \in empty : i < e
      <4> HIDE DEF empty
      <4> QED  BY <2>6
    <3>2. io[i] = "D"
      BY <1>3, <1>4, <1>10
    <3> HIDE DEF empty
    <3> QED  BY <2>3, <3>1, <3>2
  <2>10. \A j \in named : j = i
    <3> TAKE j \in named
    <3> HIDE DEF empty
    <3>1. j \in lines /\ j < i + 7 /\ io[j] = "D"
      BY <2>5
    <3>2. io[i + 4] = "T"
      BY <1>3, <1>4, <1>10
    <3> QED  BY <1>5, <1>7, <3>1, <3>2
  <2> HIDE DEF named
  <2>11. named \subseteq Int /\ \A x \in named : x <= i
    BY <2>10
  <2>12. Max(named) = i
    BY <2>9, <2>11, MaxIs
  <2>13. i + 1 \in 1..Len(io) /\ io[i + 1] = nm /\ (i + 3) - 2 = i + 1
    BY <1>2, <1>3, <1>4, <1>10
  <2>14. SubSeq(io, i + 1, i + 1) = <<nm>>
    BY <2>0, <2>13, OneIs
  <2>15. PartHead.name = SubSeq(io, i + 1, (i + 3) - 2)
    <3>1. named # {}
      BY <2>9
    <3> HIDE DEF empty, head
    <3> QED  BY <1>1, <2>1, <2>12, <3>1, Zenon
  <2> QED  BY <2>8, <2>13, <2>14, <2>15
<1> QED  BY <1>2, <1>9, <1>10

-----------------------------------------------------------------------------
(* The parser: what it holds is what follows what it has used. *)

Pos == got - Len(io)

Tellings == [name : Seq(Chars), data : Seq(Chars), ended : BOOLEAN]

Holds ==
    /\ body \in Bodies
    /\ got \in 0..Len(BodyText)
    /\ io \in Seq(Chars) /\ Len(io) <= got
    /\ Has(BodyText, Pos, io, Len(io))

Shape ==
    /\ state \in States
    /\ running \in BOOLEAN /\ processing_part \in BOOLEAN
    /\ wrapped \in BOOLEAN /\ strayed \in BOOLEAN
    /\ file_name \in Seq(Chars)
    /\ told \in Seq(Tellings)
    /\ state = "WAITING_FOR_CHUNK" => told # <<>>

LEMMA TextType ==
    ASSUME body \in Bodies
    PROVE  BodyText \in Seq(Chars) /\ BodyText = WholeBody(body) /\ Len(BodyText) \in Nat
<1>1. body \in Seq(Parts)
  BY BytesAssumption
<1>2. BodyText = WholeBody(body)
  BY Zenon DEF BodyText, WholeBody, Texts
<1>3. WholeBody(body) \in Seq(Chars)
  BY <1>1, Layout
<1> QED  BY <1>2, <1>3, LenProperties

LEMMA PieceOf ==
    ASSUME NEW S, NEW s \in Seq(S), NEW i \in Nat, 0 < i, NEW j \in Int, j <= Len(s)
    PROVE  /\ SubSeq(s, i, j) \in Seq(S)
           /\ Len(SubSeq(s, i, j)) = IF i <= j THEN j - i + 1 ELSE 0
           /\ \A x \in 1..(j - i + 1) : SubSeq(s, i, j)[x] = s[i + x - 1]
<1>1. Len(s) \in Nat /\ \A x \in 1..Len(s) : s[x] \in S
  BY LenProperties, ElementOfSeq
<1>2. i \in Int /\ j \in Int /\ \A x \in i..j : s[x] \in S
  BY <1>1
<1> QED  BY <1>2, SubSeqProperties

LEMMA Piece ==
    ASSUME NEW s \in Seq(Chars), NEW i \in Nat, 0 < i, NEW j \in Int, j <= Len(s)
    PROVE  /\ SubSeq(s, i, j) \in Seq(Chars)
           /\ Len(SubSeq(s, i, j)) = IF i <= j THEN j - i + 1 ELSE 0
           /\ \A x \in 1..(j - i + 1) : SubSeq(s, i, j)[x] = s[i + x - 1]
BY PieceOf, Zenon

LEMMA WithoutIs ==
    ASSUME io \in Seq(Chars), NEW n \in Nat, n <= Len(io)
    PROVE  /\ Without(n) \in Seq(Chars)
           /\ Len(Without(n)) = Len(io) - n
           /\ Has(io, n, Without(n), Len(io) - n)
<1>1. io \in Seq(Chars) /\ Len(io) \in Nat
  BY LenProperties
<1>2. PICK l : l = Len(io)  OBVIOUS
<1>3. l \in Nat /\ n <= l
  BY <1>1, <1>2
<1>4. PICK i : i = n + 1  OBVIOUS
<1>5. i \in Nat /\ 0 < i /\ l <= Len(io)
  BY <1>2, <1>3, <1>4
<1>6. PICK t : t = Without(n)  OBVIOUS
<1>7. t = SubSeq(io, i, l)
  BY <1>2, <1>4, <1>6 DEF Without
<1>8. /\ SubSeq(io, i, l) \in Seq(Chars)
      /\ Len(SubSeq(io, i, l)) = IF i <= l THEN l - i + 1 ELSE 0
      /\ \A x \in 1..(l - i + 1) : SubSeq(io, i, l)[x] = io[i + x - 1]
  BY <1>1, <1>3, <1>5, Piece
<1>9. t \in Seq(Chars) /\ Len(t) = l - n
  BY <1>3, <1>4, <1>7, <1>8
<1>10. \A x \in 1..(l - n) : io[n + x] = t[x]
  <2>1. \A x \in 1..(l - n) : x \in 1..(l - i + 1) /\ i + x - 1 = n + x
    BY <1>3, <1>4
  <2> QED  BY <1>7, <1>8, <2>1
<1> QED  BY <1>2, <1>6, <1>9, <1>10 DEF Has

(* Using the first n characters of what is held. *)
LEMMA Drops ==
    ASSUME Holds, NEW n \in Nat, n <= Len(io), io' = Without(n), UNCHANGED <<body, got>>
    PROVE  Holds' /\ Pos' = Pos + n /\ Len(io)' = Len(io) - n
<1>1. /\ body \in Bodies /\ got \in 0..Len(BodyText) /\ io \in Seq(Chars)
      /\ Len(io) <= got /\ Has(BodyText, Pos, io, Len(io))
  BY DEF Holds
<1>2. Len(io) \in Nat /\ got \in Nat /\ BodyText' = BodyText /\ body' = body /\ got' = got
  BY <1>1, TextType, LenProperties DEF BodyText
<1>3. PICK t : t = Without(n)  OBVIOUS
<1>4. t \in Seq(Chars) /\ Len(t) = Len(io) - n /\ Has(io, n, t, Len(io) - n)
  BY <1>1, <1>3, WithoutIs
<1>5. io' = t
  BY <1>3
<1>6. PICK l : l = Len(io)  OBVIOUS
<1>7. PICK p : p = Pos  OBVIOUS
<1>8. p \in Nat /\ p = got - l /\ l \in Nat /\ n <= l
  BY <1>1, <1>2, <1>6, <1>7 DEF Pos
<1>9. Pos' = p + n
  BY <1>2, <1>4, <1>5, <1>6, <1>8 DEF Pos
<1>10. Has(BodyText, p + n, t, l - n)
  <2>1. PICK w : w = BodyText  OBVIOUS
  <2>2. PICK s : s = io  OBVIOUS
  <2>3. \A x \in 1..l : w[p + x] = s[x]
    BY <1>1, <1>6, <1>7, <2>1, <2>2 DEF Has
  <2>4. \A x \in 1..(l - n) : s[n + x] = t[x]
    BY <1>4, <1>6, <2>2 DEF Has
  <2>5. \A x \in 1..(l - n) : n + x \in 1..l /\ p + n + x = p + (n + x)
    BY <1>8
  <2>6. \A x \in 1..(l - n) : w[p + n + x] = t[x]
    BY <2>3, <2>4, <2>5
  <2> QED  BY <2>1, <2>6 DEF Has
<1>11. Has(BodyText', Pos', io', Len(io'))
  BY <1>2, <1>4, <1>5, <1>6, <1>9, <1>10, Zenon
<1>12. Len(io') = l - n /\ l - n <= got
  <2>1. Len(io') = l - n
    BY <1>4, <1>5, <1>6, Zenon
  <2>2. got \in Nat /\ l <= got
    BY <1>1, <1>2, <1>6
  <2> QED  BY <1>8, <2>1, <2>2
<1> QED  BY <1>1, <1>2, <1>4, <1>5, <1>6, <1>7, <1>9, <1>11, <1>12 DEF Holds

LEMMA Grows ==
    ASSUME Holds, NEW n \in Nat, Arrives(n)
    PROVE  Holds' /\ Pos' = Pos /\ Len(io)' = Len(io) + n
<1>1. /\ body \in Bodies /\ got \in 0..Len(BodyText) /\ io \in Seq(Chars)
      /\ Len(io) <= got /\ Has(BodyText, Pos, io, Len(io))
  BY DEF Holds
<1>2. /\ BodyText' = BodyText /\ body' = body /\ got' = got + n
      /\ got + n <= Len(BodyText) /\ io' = io \o SubSeq(BodyText, got + 1, got + n)
  BY DEF Arrives, BodyText
<1>3. BodyText \in Seq(Chars) /\ Len(BodyText) \in Nat /\ Len(io) \in Nat
  BY <1>1, TextType, LenProperties
<1>4. PICK w : w = BodyText  OBVIOUS
<1>5. PICK l : l = Len(io)  OBVIOUS
<1>6. PICK p : p = Pos  OBVIOUS
<1>7. PICK i : i = got + 1  OBVIOUS
<1>8. PICK e : e = got + n  OBVIOUS
<1>9. PICK t : t = SubSeq(w, i, e)  OBVIOUS
<1>10. PICK s : s = io  OBVIOUS
<1>11. PICK u : u = io'  OBVIOUS
<1>12. /\ got \in Nat /\ l \in Nat /\ p \in Nat /\ p + l = got /\ p = got - l
       /\ i \in Nat /\ 0 < i /\ e \in Nat /\ e <= Len(w)
  BY <1>1, <1>2, <1>3, <1>4, <1>5, <1>6, <1>7, <1>8 DEF Pos
<1>13. w \in Seq(Chars)
  BY <1>3, <1>4
<1>14. /\ SubSeq(w, i, e) \in Seq(Chars)
       /\ Len(SubSeq(w, i, e)) = IF i <= e THEN e - i + 1 ELSE 0
       /\ \A x \in 1..(e - i + 1) : SubSeq(w, i, e)[x] = w[i + x - 1]
  BY <1>12, <1>13, Piece
<1>15. t \in Seq(Chars) /\ Len(t) = n /\ \A x \in 1..n : t[x] = w[got + x]
  <2>1. e - i + 1 = n /\ \A x \in 1..n : i + x - 1 = got + x
    BY <1>7, <1>8, <1>12
  <2>2. (IF i <= e THEN e - i + 1 ELSE 0) = n
    BY <1>7, <1>8, <1>12
  <2> QED  BY <1>9, <1>14, <2>1, <2>2
<1>16. u = s \o t /\ s \in Seq(Chars) /\ t \in Seq(Chars)
  BY <1>1, <1>2, <1>4, <1>7, <1>8, <1>9, <1>10, <1>11, <1>15
<1>17. /\ u \in Seq(Chars) /\ Len(u) = Len(s) + Len(t)
       /\ \A x \in 1..Len(s) : u[x] = s[x]
       /\ \A x \in 1..Len(t) : u[Len(s) + x] = t[x]
  BY <1>16, JoinsAs
<1>18. Len(s) = l /\ Len(u) = l + n
  BY <1>5, <1>10, <1>15, <1>17
<1>19. Pos' = p
  <2>1. Pos' = got' - Len(u)
    BY <1>11 DEF Pos
  <2>2. got' = got + n
    BY <1>2
  <2>3. (got + n) - (l + n) = p
    BY <1>12
  <2> QED  BY <1>18, <2>1, <2>2, <2>3, Zenon
<1>20. Has(w, p, u, l + n)
  <2>1. \A x \in 1..l : w[p + x] = s[x]
    BY <1>1, <1>4, <1>5, <1>6, <1>10 DEF Has
  <2>2. SUFFICES ASSUME NEW x \in 1..(l + n) PROVE w[p + x] = u[x]
    BY DEF Has
  <2>3. CASE x <= l
    BY <1>12, <1>17, <1>18, <2>1, <2>3
  <2>4. CASE x > l
    <3>1. PICK y : y = x - l  OBVIOUS
    <3>2. y \in 1..n /\ x = l + y /\ p + x = got + y
      BY <1>12, <2>4, <3>1
    <3>3. u[l + y] = t[y]
      BY <1>15, <1>17, <1>18, <3>2
    <3>4. t[y] = w[got + y]
      BY <1>15, <3>2
    <3> QED  BY <3>2, <3>3, <3>4
  <2> QED  BY <1>12, <2>3, <2>4
<1>21. Has(BodyText', Pos', io', Len(io'))
  BY <1>2, <1>4, <1>11, <1>18, <1>19, <1>20, Zenon
<1>22. got' \in 0..Len(BodyText') /\ Len(io') <= got'
  BY <1>2, <1>3, <1>11, <1>12, <1>18
<1> QED  BY <1>1, <1>2, <1>5, <1>6, <1>11, <1>17, <1>18, <1>19, <1>21, <1>22 DEF Holds

LEMMA MaxOf ==
    ASSUME NEW n \in Nat, NEW T, T \subseteq 0..n, T # {}
    PROVE  Max(T) \in T /\ \A x \in T : x <= Max(T)
<1> DEFINE U == {y \in 0..n : n - y \in T}
<1>1. U # {} /\ U \subseteq Nat
  <2>1. PICK x \in T : TRUE  OBVIOUS
  <2>2. n - x \in U  BY <2>1
  <2>3. U \subseteq Nat  OBVIOUS
  <2> HIDE DEF U
  <2> QED  BY <2>2, <2>3
<1>2. PICK u \in U : \A y \in U : u <= y
  <2> HIDE DEF U
  <2> QED  BY <1>1, Least
<1>3. PICK m : m = n - u  OBVIOUS
<1>4. m \in T /\ \A x \in T : x <= m
  <2>1. m \in T  BY <1>2, <1>3
  <2>2. ASSUME NEW x \in T PROVE x <= m
    <3>1. n - x \in U  BY <2>2
    <3>2. u <= n - x  BY <1>2, <3>1
    <3> QED  BY <1>2, <1>3, <3>2
  <2> QED  BY <2>1, <2>2
<1>5. T \subseteq Int  OBVIOUS
<1>6. Max(T) = m
  BY <1>4, <1>5, MaxIs
<1> QED  BY <1>4, <1>6

LEMMA BoundaryInside ==
    ASSUME io \in Seq(Chars)
    PROVE  /\ FindBoundary \in Nat
           /\ FindBoundary > 0 => FindBoundary <= Len(io) - bl + 1
           /\ FindBoundary = IF Places(io) = {} THEN 0 ELSE Min(Places(io))
<1>1. Len(io) \in Nat /\ bl \in Nat
  BY LenProperties, BoundaryType
<1>2. \A x \in Places(io) : x \in Nat /\ x > 0 /\ x <= Len(io) - bl + 1
  BY <1>1 DEF Places
<1>3. Places(io) \subseteq Nat
  BY <1>2
<1>4. Places(io) # {} => Min(Places(io)) \in Places(io)
  BY <1>3, MinOf
<1> QED  BY <1>2, <1>4 DEF FindBoundary

LEMMA HeadInside ==
    ASSUME io \in Seq(Chars)
    PROVE  PartHead.end \in 0..Len(io) /\ PartHead.name \in Seq(Chars)
<1> DEFINE i     == FindBoundary + bl + 2
           lines == Lines(i)
           empty == {j \in lines : io[j] = CR /\ Until(io, j, {LF}) = j + 1}
           head  == {j \in lines : \A e \in empty : j < e}
           named == {j \in head : io[j] = "D"}
<1>1. /\ PartHead.end = IF empty = {} THEN 0 ELSE Min(empty) + 1
      /\ PartHead.name =
           IF named = {} THEN <<>>
           ELSE SubSeq(io, Max(named) + 1, Until(io, Max(named), {LF}) - 2)
  BY Zenon DEF PartHead
<1>2. PICK l : l = Len(io)  OBVIOUS
<1>3. l \in Nat /\ i \in Nat /\ i > 0
  BY <1>2, LenProperties, BoundaryInside, BoundaryType
<1> HIDE DEF i
<1>4. \A j \in lines : j \in i..l /\ Until(io, j, {LF}) <= l
  BY <1>2 DEF Lines
<1> HIDE DEF lines
<1>5. \A j \in empty : j \in i..l /\ j + 1 <= l
  BY <1>4
<1>6. \A j \in named : j \in i..l /\ j \in lines
  BY <1>4
<1> HIDE DEF empty, head, named
<1>7. PartHead.end \in 0..Len(io)
  <2>1. empty \subseteq Nat
    BY <1>3, <1>5
  <2>2. empty # {} => Min(empty) \in empty
    BY <2>1, MinOf
  <2> QED  BY <1>1, <1>2, <1>3, <1>5, <2>2
<1>8. CASE named = {}
  BY <1>1, <1>7, <1>8, EmptySeq
<1>9. CASE named # {}
  <2>1. named \subseteq 0..l
    BY <1>3, <1>6
  <2>2. PICK m : m = Max(named)  OBVIOUS
  <2>3. m \in named
    BY <1>3, <1>9, <2>1, <2>2, MaxOf
  <2>4. m \in i..l /\ Until(io, m, {LF}) <= l
    BY <1>4, <1>6, <2>3
  <2>5. Until(io, m, {LF}) \in Int
    <3> DEFINE T == {j \in m..Len(io) : io[j] \in {LF}} \cup {Len(io) + 1}
    <3>1. T \subseteq Nat /\ T # {}
      BY <1>2, <1>3, <2>4
    <3>2. Until(io, m, {LF}) = Min(T)
      BY DEF Until
    <3> HIDE DEF T
    <3>3. Min(T) \in T
      BY <3>1, MinOf
    <3>4. Min(T) \in Nat
      BY <3>1, <3>3
    <3>5. Until(io, m, {LF}) \in Nat
      BY <3>2, <3>4, Zenon
    <3> QED  BY <3>5
  <2>6. PICK a : a = m + 1  OBVIOUS
  <2>7. PICK e : e = Until(io, m, {LF}) - 2  OBVIOUS
  <2>8. a \in Nat /\ 0 < a /\ e \in Int /\ e <= Len(io)
    BY <1>2, <1>3, <2>4, <2>5, <2>6, <2>7
  <2>9. SubSeq(io, a, e) \in Seq(Chars)
    BY <2>8, Piece
  <2>10. PartHead.name = SubSeq(io, a, e)
    BY <1>1, <1>9, <2>2, <2>6, <2>7, Zenon
  <2> QED  BY <1>7, <2>9, <2>10
<1> QED  BY <1>8, <1>9

LEMMA EndedIs ==
    ASSUME told \in Seq(Tellings), processing_part \in BOOLEAN
    PROVE  /\ Ended \in Seq(Tellings) /\ Len(Ended) = Len(told)
           /\ \A i \in 1..Len(told) :
                 /\ Ended[i].name = told[i].name /\ Ended[i].data = told[i].data
                 /\ (Ended[i].ended <=> told[i].ended \/ (i = Len(told) /\ processing_part))
<1>1. Len(told) \in Nat /\ DOMAIN told = 1..Len(told)
  BY LenProperties
<1>2. \A i \in 1..Len(told) :
         /\ told[i].name \in Seq(Chars) /\ told[i].data \in Seq(Chars)
         /\ told[i].ended \in BOOLEAN
         /\ told[i] = [name |-> told[i].name, data |-> told[i].data, ended |-> told[i].ended]
  <2> TAKE i \in 1..Len(told)
  <2>1. told[i] \in Tellings
    BY ElementOfSeq
  <2> QED  BY <2>1 DEF Tellings
<1>3. Ended = [i \in 1..Len(told) |->
                 IF i = Len(told) /\ processing_part
                 THEN [told[i] EXCEPT !.ended = TRUE] ELSE told[i]]
  BY <1>1 DEF Ended
<1>4. \A i \in 1..Len(told) :
         /\ Ended[i] \in Tellings
         /\ Ended[i].name = told[i].name /\ Ended[i].data = told[i].data
         /\ (Ended[i].ended <=> told[i].ended \/ (i = Len(told) /\ processing_part))
  <2> TAKE i \in 1..Len(told)
  <2>1. CASE i = Len(told) /\ processing_part
    <3>1. Ended[i] = [told[i] EXCEPT !.ended = TRUE]
      BY <1>3, <2>1
    <3>2. /\ Ended[i] \in Tellings /\ Ended[i].ended = TRUE
          /\ Ended[i].name = told[i].name /\ Ended[i].data = told[i].data
      BY <1>2, <3>1 DEF Tellings
    <3> QED  BY <2>1, <3>2
  <2>2. CASE ~(i = Len(told) /\ processing_part)
    <3>1. Ended[i] = told[i]
      BY <1>3, <2>2
    <3>2. Ended[i] \in Tellings
      BY <3>1, ElementOfSeq
    <3> QED  BY <2>2, <3>1, <3>2, Zenon
  <2> QED  BY <2>1, <2>2
<1>5. Ended \in Seq(Tellings) /\ Len(Ended) = Len(told)
  <2>1. PICK n : n = Len(told)  OBVIOUS
  <2>2. PICK e : e = Ended  OBVIOUS
  <2>3. n \in Nat /\ \A i \in 1..n : e[i] \in Tellings
    BY <1>1, <1>4, <2>1, <2>2
  <2>4. PICK f : f = [i \in 1..n |-> IF i = n /\ processing_part
                                    THEN [told[i] EXCEPT !.ended = TRUE] ELSE told[i]]
    OBVIOUS
  <2>5. e = f
    BY <1>3, <2>1, <2>2, <2>4
  <2>6. e = [i \in 1..n |-> e[i]]
    BY <2>4, <2>5
  <2>7. e \in Seq(Tellings) /\ Len(e) = n
    BY <2>3, <2>6, IsASeq
  <2> QED  BY <2>1, <2>2, <2>7
<1> QED  BY <1>4, <1>5

(* What PassOn makes of what was told. *)
LEMMA PassedOn ==
    ASSUME told \in Seq(Tellings), told # <<>>, NEW x \in Seq(Chars),
           NEW t, t = [told EXCEPT ![Len(told)].data = @ \o x]
    PROVE  /\ t \in Seq(Tellings) /\ Len(t) = Len(told)
           /\ \A i \in 1..Len(told) :
                 /\ t[i].name = told[i].name /\ t[i].ended = told[i].ended
                 /\ i # Len(told) => t[i].data = told[i].data
           /\ t[Len(told)].data = told[Len(told)].data \o x
<1>1. PICK n : n = Len(told)  OBVIOUS
<1>2. n \in Nat /\ n > 0 /\ DOMAIN told = 1..n /\ n \in 1..n
  BY <1>1, LenProperties, EmptySeq
<1>3. \A i \in 1..n : told[i] \in Tellings
  BY <1>1, ElementOfSeq
<1>4. told[n].data \in Seq(Chars)
  BY <1>2, <1>3 DEF Tellings
<1>5. PICK d : d = told[n].data \o x  OBVIOUS
<1>6. d \in Seq(Chars)
  BY <1>4, <1>5, JoinsAs
<1>7. t = [told EXCEPT ![n].data = d]
  BY <1>1, <1>5
<1>8. t = [i \in 1..n |-> IF i = n THEN [told[n] EXCEPT !.data = d] ELSE told[i]]
  BY <1>2, <1>7
<1>9. t[n] = [told[n] EXCEPT !.data = d]
  BY <1>2, <1>8
<1>10. \A i \in 1..n : i # n => t[i] = told[i]
  BY <1>8
<1>11. /\ t[n] \in Tellings /\ t[n].name = told[n].name /\ t[n].ended = told[n].ended
       /\ t[n].data = d
  BY <1>2, <1>3, <1>6, <1>9 DEF Tellings
<1>12. t \in Seq(Tellings) /\ Len(t) = n
  BY <1>2, <1>3, <1>8, <1>10, <1>11
<1> QED  BY <1>1, <1>5, <1>10, <1>11, <1>12

Kept == Holds /\ Shape /\ BufferStaysSmall

LEMMA HeldFacts ==
    ASSUME Holds
    PROVE  /\ io \in Seq(Chars) /\ Len(io) \in Nat /\ got \in Nat /\ Pos \in Nat
           /\ Pos + Len(io) = got /\ Len(BodyText) \in Nat /\ got <= Len(BodyText)
           /\ body \in Bodies
<1>1. /\ body \in Bodies /\ got \in 0..Len(BodyText) /\ io \in Seq(Chars) /\ Len(io) <= got
  BY DEF Holds
<1>2. Len(io) \in Nat /\ Len(BodyText) \in Nat
  BY <1>1, TextType, LenProperties
<1> QED  BY <1>1, <1>2 DEF Pos

LEMMA HoldsStill ==
    ASSUME Holds, UNCHANGED <<body, got, io>>
    PROVE  Holds' /\ Pos' = Pos
<1>1. /\ body \in Bodies /\ got \in 0..Len(BodyText) /\ io \in Seq(Chars)
      /\ Len(io) <= got /\ Has(BodyText, Pos, io, Len(io))
  BY DEF Holds
<1>2. BodyText' = BodyText /\ Pos' = Pos /\ body' = body /\ got' = got /\ io' = io
  BY DEF BodyText, Pos
<1> QED  BY <1>1, <1>2, Zenon DEF Holds

LEMMA KeptFirst == BytesInit => Kept
<1> SUFFICES ASSUME BytesInit PROVE Kept
  OBVIOUS
<1>1. /\ body \in Bodies /\ got = 0 /\ io = <<>> /\ state = "WAITING_FOR_BOUNDARY"
      /\ running = FALSE /\ file_name = <<>> /\ processing_part = FALSE
      /\ wrapped = FALSE /\ strayed = FALSE /\ told = <<>>
  BY DEF BytesInit
<1>2. Len(BodyText) \in Nat
  BY <1>1, TextType
<1>3. io \in Seq(Chars) /\ Len(io) = 0
  BY <1>1, EmptySeq
<1>4. Has(BodyText, Pos, io, Len(io))
  BY <1>3 DEF Has
<1>5. Holds
  BY <1>1, <1>2, <1>3, <1>4 DEF Holds
<1>6. Shape
  BY <1>1, EmptySeq DEF Shape, States
<1>7. BufferStaysSmall
  BY <1>1 DEF BufferStaysSmall
<1> QED  BY <1>5, <1>6, <1>7 DEF Kept

LEMMA KeptArrives ==
    ASSUME Kept, NEW n \in 1..Len(BodyText), Arrives(n)
    PROVE  Kept'
<1>1. Holds /\ Shape
  BY DEF Kept
<1>2. n \in Nat
  OBVIOUS
<1>3. Holds'
  BY <1>1, <1>2, Grows
<1>4. /\ running' = TRUE
      /\ UNCHANGED <<state, file_name, processing_part, wrapped, strayed, told>>
  BY DEF Arrives, Go
<1>5. Shape'
  BY <1>1, <1>4 DEF Shape
<1>6. BufferStaysSmall'
  BY <1>4 DEF BufferStaysSmall
<1> QED  BY <1>3, <1>5, <1>6 DEF Kept

LEMMA KeptWaitForBoundary ==
    ASSUME Kept, WaitForBoundary
    PROVE  Kept'
<1>1. Holds /\ Shape
  BY DEF Kept
<1>2. /\ running /\ state = "WAITING_FOR_BOUNDARY"
      /\ UNCHANGED <<body, got, file_name, processing_part, wrapped, strayed, told>>
  BY DEF WaitForBoundary
<1>3. PICK e : e = FindBoundary + bl  OBVIOUS
<1>4. \/ running' = FALSE /\ UNCHANGED <<io, state>>
      \/ running' = TRUE /\ state' = "GOT_BOUNDARY" /\ UNCHANGED io
      \/ /\ Len(io) - e + 1 >= 4
         /\ running' = TRUE /\ state' = "FINALIZE" /\ io' = Without(e + 3)
  <2>1. IF Len(io) < bl + 2 \/ FindBoundary = 0 \/ Len(io) - e + 1 < 4
        THEN Stop /\ UNCHANGED <<io, state>>
        ELSE /\ Go
             /\ IF SubSeq(io, e, e + 3) = Dashes \o CRLF
                THEN state' = "FINALIZE" /\ io' = Without(e + 3)
                ELSE state' = "GOT_BOUNDARY" /\ UNCHANGED io
    BY <1>3 DEF WaitForBoundary
  <2>2. Len(io) - e + 1 < 4 \/ Len(io) - e + 1 >= 4
    BY <1>1, <1>3, HeldFacts, BoundaryInside, BoundaryType
  <2> QED  BY <2>1, <2>2 DEF Stop, Go
<1>5. running' \in BOOLEAN /\ state' \in States \ {"WAITING_FOR_CHUNK"}
  BY <1>2, <1>4 DEF States
<1>6. Shape'
  BY <1>1, <1>2, <1>5 DEF Shape
<1>7. BufferStaysSmall'
  BY <1>5 DEF BufferStaysSmall
<1>8. Holds'
  <2>1. CASE UNCHANGED io
    BY <1>1, <1>2, <2>1, HoldsStill
  <2>2. CASE Len(io) - e + 1 >= 4 /\ io' = Without(e + 3)
    <3>1. PICK n : n = e + 3  OBVIOUS
    <3>2. n \in Nat /\ n <= Len(io)
      BY <1>1, <1>3, <2>2, <3>1, HeldFacts, BoundaryInside, BoundaryType
    <3> QED  BY <1>1, <1>2, <2>2, <3>1, <3>2, Drops
  <2> QED  BY <1>4, <2>1, <2>2
<1> QED  BY <1>6, <1>7, <1>8 DEF Kept

LEMMA KeptProcessBoundary ==
    ASSUME Kept, ProcessBoundary
    PROVE  Kept'
<1>1. Holds /\ Shape /\ io \in Seq(Chars)
  BY HeldFacts DEF Kept
<1>2. running /\ state = "GOT_BOUNDARY" /\ UNCHANGED <<body, got, wrapped>>
  BY DEF ProcessBoundary
<1>3. \/ Begins(PartHead.name) /\ io' = Without(PartHead.end) /\ strayed' = strayed
      \/ Waits /\ UNCHANGED io /\ strayed' = strayed
      \/ Begins(PartHead.name) /\ UNCHANGED io /\ strayed' = TRUE
  BY DEF ProcessBoundary
<1>4. Holds'
  <2>1. CASE UNCHANGED io
    BY <1>1, <1>2, <2>1, HoldsStill
  <2>2. CASE io' = Without(PartHead.end)
    <3>1. PICK n : n = PartHead.end  OBVIOUS
    <3>2. n \in Nat /\ n <= Len(io) /\ io' = Without(n)
      BY <1>1, <2>2, <3>1, HeadInside, HeldFacts
    <3> QED  BY <1>1, <1>2, <3>2, Drops
  <2> QED  BY <1>3, <2>1, <2>2
<1>5. Shape' /\ BufferStaysSmall'
  <2>1. /\ wrapped' \in BOOLEAN /\ strayed' \in BOOLEAN /\ told \in Seq(Tellings)
        /\ processing_part \in BOOLEAN /\ file_name \in Seq(Chars)
    BY <1>1, <1>2, <1>3 DEF Shape
  <2>2. CASE Begins(PartHead.name)
    <3>1. PICK nm : nm = PartHead.name  OBVIOUS
    <3>2. nm \in Seq(Chars)
      BY <1>1, <3>1, HeadInside
    <3>3. /\ running' = TRUE /\ state' = "WAITING_FOR_CHUNK" /\ file_name' = nm
          /\ processing_part' = TRUE
          /\ told' = Append(Ended, [name |-> nm, data |-> <<>>, ended |-> FALSE])
      BY <2>2, <3>1 DEF Begins, Go
    <3>4. PICK r : r = [name |-> nm, data |-> <<>>, ended |-> FALSE]  OBVIOUS
    <3>5. r \in Tellings
      BY <3>2, <3>4, EmptySeq DEF Tellings
    <3>6. Ended \in Seq(Tellings)
      BY <2>1, EndedIs
    <3>7. told' \in Seq(Tellings) /\ told' # <<>>
      <4>1. told' = Append(Ended, r)  BY <3>3, <3>4
      <4> QED  BY <4>1, <3>5, <3>6, AppendProperties
    <3>8. Shape'
      BY <2>1, <3>2, <3>3, <3>7 DEF Shape, States
    <3> QED  BY <3>3, <3>8 DEF BufferStaysSmall
  <2>3. CASE Waits
    BY <2>1, <2>3 DEF Waits, Stop, Shape, States, BufferStaysSmall
  <2> QED  BY <1>3, <2>2, <2>3
<1> QED  BY <1>4, <1>5 DEF Kept

(* A step of PassOn takes n characters as data, and more after them. *)
LEMMA KeptPassOn ==
    ASSUME Kept, state = "WAITING_FOR_CHUNK", NEW n \in Int, NEW more \in Nat,
           n + more <= Len(io), more <= Len(io), n < 0 \/ n <= Len(io),
           PassOn(n, more), UNCHANGED <<body, got, file_name, processing_part, strayed>>
    PROVE  /\ Holds'
           /\ wrapped' \in BOOLEAN /\ told' \in Seq(Tellings) /\ told' # <<>>
           /\ n >= 0 => Len(io)' = Len(io) - (n + more)
<1>1. Holds /\ Shape /\ io \in Seq(Chars) /\ Len(io) \in Nat
  BY HeldFacts DEF Kept
<1>2. /\ wrapped' = (wrapped \/ n < 0)
      /\ told' = [told EXCEPT ![Len(told)].data = @ \o SubSeq(io, 1, n)]
      /\ io' = Without(IF n < 0 THEN more ELSE n + more)
  BY DEF PassOn
<1>3. PICK d : d = IF n < 0 THEN more ELSE n + more  OBVIOUS
<1>4. d \in Nat /\ d <= Len(io) /\ io' = Without(d)
  BY <1>1, <1>2, <1>3
<1>5. Holds' /\ Len(io)' = Len(io) - d
  BY <1>1, <1>4, Drops
<1>6. PICK x : x = SubSeq(io, 1, n)  OBVIOUS
<1>7. x \in Seq(Chars)
  <2>1. 1 \in Nat /\ 0 < 1 /\ n <= Len(io)
    BY <1>1
  <2> QED  BY <1>1, <1>6, <2>1, Piece
<1>8. told \in Seq(Tellings) /\ told # <<>>
  BY <1>1 DEF Shape
<1>9. PICK t : t = told'  OBVIOUS
<1>10. t = [told EXCEPT ![Len(told)].data = @ \o x]
  BY <1>2, <1>6, <1>9
<1>11. t \in Seq(Tellings) /\ Len(t) = Len(told)
  BY <1>7, <1>8, <1>10, PassedOn
<1>12. t # <<>>
  <2>1. Len(told) # 0
    BY <1>8, EmptySeq
  <2> QED  BY <1>11, <2>1
<1>13. wrapped' \in BOOLEAN
  BY <1>2
<1> QED  BY <1>3, <1>5, <1>9, <1>11, <1>12, <1>13

LEMMA KeptWaitForChunk ==
    ASSUME Kept, WaitForChunk
    PROVE  Kept'
<1>1. Holds /\ Shape /\ io \in Seq(Chars) /\ Len(io) \in Nat
  BY HeldFacts DEF Kept
<1>2. /\ running /\ state = "WAITING_FOR_CHUNK"
      /\ UNCHANGED <<body, got, file_name, processing_part, strayed>>
  BY DEF WaitForChunk
<1>3. bl \in Nat /\ bl > 0
  BY BoundaryType
<1>4. CASE Len(io) < KeptBack /\ Stop /\ UNCHANGED <<io, state, told, wrapped>>
  <2>1. Holds'
    BY <1>1, <1>2, <1>4, HoldsStill
  <2>2. Shape'
    BY <1>1, <1>2, <1>4 DEF Shape, Stop
  <2>3. BufferStaysSmall'
    <3>1. bl' = bl /\ io' = io /\ Len(io) <= bl + 6
      BY <1>1, <1>3, <1>4 DEF KeptBack, bl
    <3> QED  BY <3>1 DEF BufferStaysSmall
  <2> QED  BY <2>1, <2>2, <2>3 DEF Kept
<1>5. CASE /\ Len(io) >= KeptBack /\ FindBoundary = 0
           /\ PassOn(Len(io) - KeptBack, 0) /\ Stop /\ UNCHANGED state
  <2>1. PICK n : n = Len(io) - KeptBack  OBVIOUS
  <2>2. /\ n \in Int /\ 0 \in Nat /\ n + 0 <= Len(io) /\ 0 <= Len(io) /\ n <= Len(io)
        /\ n >= 0 /\ n = Len(io) - (bl + 6)
    BY <1>1, <1>3, <1>5, <2>1 DEF KeptBack
  <2>3. PassOn(n, 0)
    BY <1>5, <2>1
  <2>4. /\ Holds' /\ wrapped' \in BOOLEAN /\ told' \in Seq(Tellings) /\ told' # <<>>
        /\ Len(io)' = Len(io) - (n + 0)
    BY <1>2, <2>2, <2>3, KeptPassOn
  <2>5. Shape'
    BY <1>1, <1>2, <1>5, <2>4 DEF Shape, Stop
  <2>6. BufferStaysSmall'
    <3>1. bl' = bl /\ Len(io') = bl + 6
      BY <1>1, <1>3, <2>2, <2>4 DEF bl
    <3> QED  BY <1>3, <3>1 DEF BufferStaysSmall
  <2> QED  BY <2>4, <2>5, <2>6 DEF Kept
<1>6. CASE /\ Len(io) >= KeptBack /\ FindBoundary > 0
           /\ PassOn(FindBoundary - 5, 4) /\ state' = "WAITING_FOR_BOUNDARY" /\ Go
  <2>1. PICK n : n = FindBoundary - 5  OBVIOUS
  <2>2. FindBoundary \in Nat /\ FindBoundary <= Len(io) - bl + 1
    BY <1>1, <1>6, BoundaryInside
  <2>3. /\ n \in Int /\ 4 \in Nat /\ n + 4 <= Len(io) /\ 4 <= Len(io)
        /\ (n < 0 \/ n <= Len(io))
    BY <1>1, <1>3, <1>6, <2>1, <2>2 DEF KeptBack
  <2>4. PassOn(n, 4)
    BY <1>6, <2>1
  <2>5. Holds' /\ wrapped' \in BOOLEAN /\ told' \in Seq(Tellings) /\ told' # <<>>
    BY <1>2, <2>3, <2>4, KeptPassOn
  <2>6. Shape'
    BY <1>1, <1>2, <1>6, <2>5 DEF Shape, Go, States
  <2>7. BufferStaysSmall'
    BY <1>6 DEF BufferStaysSmall
  <2> QED  BY <2>5, <2>6, <2>7 DEF Kept
<1> QED  BY <1>4, <1>5, <1>6 DEF WaitForChunk

LEMMA KeptFinalize ==
    ASSUME Kept, Finalize
    PROVE  Kept'
<1>1. Holds /\ Shape
  BY DEF Kept
<1>2. /\ told' = Ended /\ file_name' = <<>> /\ processing_part' = FALSE
      /\ state' = "FINISHED" /\ running' = FALSE
      /\ UNCHANGED <<body, got, io, wrapped, strayed>>
  BY DEF Finalize, Stop
<1>3. Holds'
  BY <1>1, <1>2, HoldsStill
<1>4. Ended \in Seq(Tellings)
  BY <1>1, EndedIs DEF Shape
<1>5. Shape'
  BY <1>1, <1>2, <1>4, EmptySeq DEF Shape, States
<1> QED  BY <1>2, <1>3, <1>5 DEF Kept, BufferStaysSmall

LEMMA KeptStep == Kept /\ [BytesNext]_partBytes => Kept'
<1> SUFFICES ASSUME Kept, [BytesNext]_partBytes PROVE Kept'
  OBVIOUS
<1>1. CASE UNCHANGED partBytes
  <2>1. /\ UNCHANGED <<body, got, io>>
        /\ UNCHANGED <<state, running, file_name, processing_part, wrapped, strayed, told>>
    BY <1>1 DEF partBytes
  <2>2. Holds'
    BY <2>1, HoldsStill DEF Kept
  <2>3. Shape'
    BY <2>1 DEF Kept, Shape
  <2>4. BufferStaysSmall'
    <3>1. bl' = bl
      BY DEF bl
    <3> QED  BY <2>1, <3>1 DEF Kept, BufferStaysSmall
  <2> QED  BY <2>2, <2>3, <2>4 DEF Kept
<1>2. CASE BytesNext
  BY <1>2, KeptArrives, KeptWaitForBoundary, KeptProcessBoundary, KeptWaitForChunk,
     KeptFinalize DEF BytesNext
<1> QED  BY <1>1, <1>2

(* However a body is cut into receives, the buffer never keeps more of it back    *)
(* than a boundary and what surrounds it: mg_http_multipart_continue_wait_for_chunk. *)
THEOREM BufferStaysSmallHolds == BytesSpec => []BufferStaysSmall
<1>1. BytesInit => Kept
  BY KeptFirst
<1>2. Kept /\ [BytesNext]_partBytes => Kept'
  BY KeptStep
<1>3. Kept => BufferStaysSmall
  BY DEF Kept
<1> QED  BY <1>1, <1>2, <1>3, PTL DEF BytesSpec

-----------------------------------------------------------------------------
(* What the handler has been told *)

(* The part that is read, and where the one after it begins. *)
Current == Len(told)
Ahead == At(body, Len(told) + 1)

Course ==
    /\ Current <= Len(body) /\ ~wrapped /\ Len(file_name) <= 1
    /\ processing_part <=> Current > 0 /\ state # "FINISHED"
    /\ \A i \in 1..Current : told[i].name = <<body[i].name>>
    /\ \A i \in 1..(Current - 1) : told[i].ended /\ told[i].data = body[i].data
    /\ Current > 0 => (told[Current].ended <=> state = "FINISHED")
    /\ state = "WAITING_FOR_CHUNK" =>
          /\ At(body, Current) + bl + 13 <= Pos /\ Pos + 2 <= Ahead
          /\ told[Current].data =
               SubSeq(body[Current].data, 1, Pos - (At(body, Current) + bl + 13))
    /\ state # "WAITING_FOR_CHUNK" /\ Current > 0 => told[Current].data = body[Current].data
    /\ state \in {"WAITING_FOR_BOUNDARY", "GOT_BOUNDARY"} => Ahead <= Pos /\ Pos <= Ahead + 2
    /\ state = "GOT_BOUNDARY" => running /\ Current < Len(body) /\ Ahead + bl + 6 <= got
    /\ state = "FINALIZE" => running /\ Current = Len(body)
    /\ state = "FINISHED" => Current = Len(body)
    /\ ~running => state = "FINISHED" \/ got < Len(BodyText)

BytesInv == Kept /\ (~strayed => Course)

LEMMA AtGrows ==
    ASSUME NEW b \in Bodies, NEW k \in 1..(Len(b) + 1), NEW m \in k..(Len(b) + 1)
    PROVE  At(b, k) <= At(b, m)
<1>1. b \in Seq(Parts)
  BY BytesAssumption
<1>2. PICK t : t = Texts(b)  OBVIOUS
<1>3. Len(b) \in Nat /\ t \in Seq(Seq(Chars)) /\ Len(t) = Len(b)
  BY <1>1, <1>2, TextsType
<1>4. PICK i : i = k - 1  OBVIOUS
<1>5. PICK j : j = m - 1  OBVIOUS
<1>6. i \in 0..Len(t) /\ j \in i..Len(t)
  BY <1>3, <1>4, <1>5
<1>7. Len(Flat(t, i)) <= Len(Flat(t, j))
  BY <1>3, <1>6, FlatFront
<1> QED  BY <1>2, <1>4, <1>5, <1>7 DEF At

(* A part in the text w: it stands at a, its data d and its name nm are where they    *)
(* belong, the next part or the closing mark is at c.                       *)
PartIn(w, a, c, d, nm) ==
    /\ d \in Seq(Chars) /\ Len(d) \in Nat /\ a \in Nat /\ c \in Nat
    /\ c = a + bl + 15 + Len(d)
    /\ c + bl + 6 <= Len(w)
    /\ nm \in Chars /\ nm # LF
    /\ w[a + bl + 3] = CR /\ w[a + bl + 5] = "D" /\ w[a + bl + 6] = nm
    /\ w[a + bl + 7] = CR /\ w[a + bl + 8] = LF /\ w[a + bl + 9] = "T"
    /\ w[a + bl + 10] = CR /\ w[a + bl + 11] = LF /\ w[a + bl + 12] = CR
    /\ w[a + bl + 13] = LF
    /\ Has(w, a + bl + 13, d, Len(d))

LEMMA PartPlace ==
    ASSUME NEW b \in Bodies, NEW k \in 1..Len(b)
    PROVE  PartIn(WholeBody(b), At(b, k), At(b, k + 1), b[k].data, b[k].name)
<1>20. PICK w : w = WholeBody(b)  OBVIOUS
<1>21. PICK a : a = At(b, k)  OBVIOUS
<1>22. PICK d : d = b[k].data  OBVIOUS
<1>23. PICK c : c = At(b, k + 1)  OBVIOUS
<1>24. PICK nm : nm = b[k].name  OBVIOUS
<1>1. b \in Seq(Parts) /\ Len(b) \in Nat /\ b[k] \in Parts /\ bl \in Nat
  BY BytesAssumption, ElementOfSeq, LenProperties, BoundaryType
<1>2. d \in Seq(Chars) /\ nm \in Chars /\ nm # LF
  BY <1>1, <1>22, <1>24 DEF Parts
<1>3. PICK l : l = Len(d)  OBVIOUS
<1>4. l \in Nat
  BY <1>2, <1>3, LenProperties
<1>5. a \in Nat /\ c \in Nat
  <2>1. k \in 1..(Len(b) + 1) /\ k + 1 \in 1..(Len(b) + 1)
    BY <1>1
  <2> QED  BY <1>1, <1>21, <1>23, <2>1, Layout, Zenon
<1>6. c = a + bl + 15 + l
  BY <1>1, <1>3, <1>21, <1>22, <1>23, Layout, Zenon
<1>7. PICK p : p = PartText(b[k])  OBVIOUS
<1>8. \A j \in 1..(bl + 15 + l) : w[a + j] = p[j]
  BY <1>1, <1>3, <1>7, <1>20, <1>21, <1>22, Layout, Zenon
<1>9. /\ p[bl + 3] = CR /\ p[bl + 5] = "D"
      /\ p[bl + 6] = nm /\ p[bl + 7] = CR /\ p[bl + 8] = LF
      /\ p[bl + 9] = "T" /\ p[bl + 10] = CR /\ p[bl + 11] = LF
      /\ p[bl + 12] = CR /\ p[bl + 13] = LF
      /\ \A j \in 1..l : p[bl + 13 + j] = d[j]
  BY <1>1, <1>3, <1>7, <1>22, <1>24, TextShape, Zenon
<1>10. \A x \in 1..15 : bl + x \in 1..(bl + 15 + l) /\ a + bl + x = a + (bl + x)
  <2>1. bl \in Nat
    BY BoundaryType
  <2>2. a \in Nat
    BY <1>5
  <2> QED  BY <1>4, <2>1, <2>2
<1>11. \A x \in 1..15 : w[a + bl + x] = p[bl + x]
  BY <1>8, <1>10
<1>12. /\ w[a + bl + 3] = p[bl + 3] /\ w[a + bl + 5] = p[bl + 5]
       /\ w[a + bl + 6] = p[bl + 6] /\ w[a + bl + 7] = p[bl + 7]
       /\ w[a + bl + 8] = p[bl + 8] /\ w[a + bl + 9] = p[bl + 9]
       /\ w[a + bl + 10] = p[bl + 10] /\ w[a + bl + 11] = p[bl + 11]
       /\ w[a + bl + 12] = p[bl + 12] /\ w[a + bl + 13] = p[bl + 13]
  BY <1>11
<1>13. Has(w, a + bl + 13, d, l)
  <2>1. \A j \in 1..l : bl + 13 + j \in 1..(bl + 15 + l) /\ a + bl + 13 + j = a + (bl + 13 + j)
    BY <1>1, <1>4, <1>5
  <2>2. \A j \in 1..l : w[a + bl + 13 + j] = d[j]
    BY <1>8, <1>9, <2>1
  <2> QED  BY <2>2 DEF Has
<1>14. c + bl + 6 <= Len(w)
  <2>1. PICK e : e = At(b, Len(b) + 1)  OBVIOUS
  <2>2. Len(w) = e + bl + 6
    BY <1>1, <1>20, <2>1, Layout, Zenon
  <2>3. k + 1 \in 1..(Len(b) + 1) /\ Len(b) + 1 \in (k + 1)..(Len(b) + 1)
    BY <1>1
  <2>4. c <= e
    BY <1>23, <2>1, <2>3, AtGrows
  <2>5. Len(b) + 1 \in 1..(Len(b) + 1)
    BY <1>1
  <2>6. e \in Nat
    BY <1>1, <2>1, <2>5, Layout, Zenon
  <2> QED  BY <1>1, <1>5, <2>2, <2>4, <2>6
<1>15. PartIn(w, a, c, d, nm)
  BY <1>2, <1>3, <1>4, <1>5, <1>6, <1>9, <1>12, <1>13, <1>14, Zenon DEF PartIn
<1> QED  BY <1>15, <1>20, <1>21, <1>22, <1>23, <1>24

LEMMA PartSpan ==
    ASSUME NEW b \in Bodies, NEW k \in 1..Len(b)
    PROVE  /\ At(b, k) \in Nat /\ At(b, k + 1) \in Nat /\ Len(b[k].data) \in Nat
           /\ At(b, k + 1) = At(b, k) + bl + 15 + Len(b[k].data)
<1>1. b \in Seq(Parts) /\ Len(b) \in Nat
  BY BytesAssumption, LenProperties
<1>2. k \in 1..(Len(b) + 1) /\ k + 1 \in 1..(Len(b) + 1)
  BY <1>1
<1> QED  BY <1>1, <1>2, Layout, Zenon

LEMMA AheadType ==
    ASSUME Kept, Course
    PROVE  /\ Len(body) \in Nat /\ Current \in 0..Len(body) /\ Ahead \in Nat
           /\ Ahead + bl + 6 <= Len(BodyText)
           /\ Current > 0 => /\ At(body, Current) \in Nat
                             /\ At(body, Current) + bl + 15 <= Ahead
<1>1. Holds /\ body \in Bodies /\ told \in Seq(Tellings) /\ Current <= Len(body)
  BY HeldFacts DEF Kept, Shape, Course
<1>2. body \in Seq(Parts) /\ Len(body) \in Nat /\ Current \in Nat
  BY <1>1, BytesAssumption, LenProperties DEF Current
<1>3. PICK k : k = Current  OBVIOUS
<1>4. k \in 0..Len(body) /\ k + 1 \in 1..(Len(body) + 1)
      /\ Len(body) + 1 \in (k + 1)..(Len(body) + 1)
  BY <1>1, <1>2, <1>3
<1>5. PICK c : c = At(body, k + 1)  OBVIOUS
<1>6. c \in Nat
  BY <1>2, <1>4, <1>5, Layout, Zenon
<1>7. PICK e : e = At(body, Len(body) + 1)  OBVIOUS
<1>8. e \in Nat /\ c <= e
  <2>1. c <= e
    BY <1>1, <1>4, <1>5, <1>7, AtGrows
  <2>2. Len(body) + 1 \in 1..(Len(body) + 1)
    BY <1>2
  <2> QED  BY <1>2, <1>7, <2>1, <2>2, Layout, Zenon
<1>9. Len(BodyText) = e + bl + 6
  <2>1. BodyText = WholeBody(body)
    BY <1>1, TextType
  <2> QED  BY <1>2, <1>7, <2>1, Layout, Zenon
<1>10. ASSUME k > 0
       PROVE  At(body, k) \in Nat /\ At(body, k) + bl + 15 <= c
  <2>1. k \in 1..Len(body)
    BY <1>4, <1>10
  <2>2. PICK a : a = At(body, k)  OBVIOUS
  <2>3. PICK l : l = Len(body[k].data)  OBVIOUS
  <2>4. a \in Nat /\ l \in Nat /\ c = a + bl + 15 + l
    BY <1>1, <1>5, <2>1, <2>2, <2>3, PartSpan, Zenon
  <2>5. bl \in Nat
    BY BoundaryType
  <2>6. a + bl + 15 <= c
    BY <2>4, <2>5
  <2> QED  BY <2>2, <2>4, <2>6
<1>11. c + bl + 6 <= Len(BodyText)
  BY <1>6, <1>8, <1>9, BoundaryType
<1>12. Ahead = c
  BY <1>3, <1>5 DEF Ahead, Current
<1> QED  BY <1>2, <1>3, <1>4, <1>6, <1>10, <1>11, <1>12

(* The boundary the parser finds is the one of the part ahead, once it is there. *)
LEMMA FoundNow ==
    ASSUME Kept, Course, state \in {"WAITING_FOR_BOUNDARY", "GOT_BOUNDARY", "WAITING_FOR_CHUNK"}
    PROVE  /\ got < Ahead + 2 + bl => FindBoundary = 0
           /\ got >= Ahead + 2 + bl => FindBoundary = Ahead + 3 - Pos
<1>1. PICK k : k = Current  OBVIOUS
<1>2. PICK c : c = Ahead  OBVIOUS
<1>3. PICK p : p = Pos  OBVIOUS
<1>4. /\ Holds /\ body \in Bodies /\ io \in Seq(Chars) /\ p \in Nat /\ got = p + Len(io)
      /\ Len(io) \in Nat
  BY <1>3, HeldFacts DEF Kept
<1>5. Has(WholeBody(body), p, io, Len(io))
  <2>1. BodyText = WholeBody(body)
    BY <1>4, TextType
  <2> QED  BY <1>3, <1>4, <2>1 DEF Holds
<1>6. k \in 0..Len(body) /\ c \in Nat /\ c = At(body, k + 1)
  BY <1>1, <1>2, AheadType DEF Ahead, Current
<1>7. p <= c + 2
  BY <1>2, <1>3, <1>4, <1>6 DEF Course
<1>8. k = 0 \/ At(body, k) + 2 < p
  <2>1. SUFFICES ASSUME k # 0 PROVE At(body, k) + 2 < p
    OBVIOUS
  <2>2. PICK a : a = At(body, k)  OBVIOUS
  <2>3. k > 0
    BY <1>6, <2>1
  <2>4. a \in Nat /\ a + bl + 15 <= c
    BY <1>1, <1>2, <2>2, <2>3, AheadType
  <2>5. bl \in Nat
    BY BoundaryType
  <2>6. a + bl + 13 <= p \/ c <= p
    BY <1>1, <1>2, <1>3, <2>2 DEF Course
  <2>7. a + 2 < p
    BY <1>4, <1>6, <2>4, <2>5, <2>6
  <2> QED  BY <2>2, <2>7
<1>9. /\ p + Len(io) < c + 2 + bl => Places(io) = {}
      /\ p + Len(io) >= c + 2 + bl =>
            Places(io) # {} /\ Min(Places(io)) = c + 3 - p
  <2>1. p <= At(body, k + 1) + 2
    BY <1>6, <1>7
  <2> QED  BY <1>4, <1>5, <1>6, <1>8, <2>1, Found, Zenon
<1> QED  BY <1>2, <1>3, <1>4, <1>9 DEF FindBoundary

LEMMA CourseFirst == BytesInit => Course
<1> SUFFICES ASSUME BytesInit PROVE Course
  OBVIOUS
<1>1. /\ body \in Bodies /\ got = 0 /\ io = <<>> /\ state = "WAITING_FOR_BOUNDARY"
      /\ running = FALSE /\ file_name = <<>> /\ processing_part = FALSE
      /\ wrapped = FALSE /\ strayed = FALSE /\ told = <<>>
  BY DEF BytesInit
<1>2. body \in Seq(Parts) /\ Len(body) \in Nat
  BY <1>1, BytesAssumption, LenProperties
<1>3. Current = 0 /\ Pos = 0 /\ Len(file_name) = 0
  <2>1. Len(told) = 0 /\ Len(io) = 0 /\ Len(file_name) = 0
    BY <1>1
  <2>2. got - Len(io) = 0
    <3>1. got = 0  BY <1>1
    <3> QED  BY <2>1, <3>1
  <2> QED  BY <2>1, <2>2, Zenon DEF Current, Pos
<1>4. Ahead = 0
  <2>1. At(body, 1) = 0
    BY <1>2, Layout
  <2> QED  BY <1>3, <2>1 DEF Ahead, Current
<1>5. Len(BodyText) > 0 /\ Len(BodyText) \in Nat
  <2>1. PICK e : e = At(body, Len(body) + 1)  OBVIOUS
  <2>2. Len(body) + 1 \in 1..(Len(body) + 1)
    BY <1>2
  <2>3. e \in Nat /\ Len(WholeBody(body)) = e + bl + 6
    BY <1>2, <2>1, <2>2, Layout, Zenon
  <2> QED  BY <1>1, <2>3, TextType, BoundaryType
<1> QED  BY <1>1, <1>2, <1>3, <1>4, <1>5 DEF Course

LEMMA CourseArrives ==
    ASSUME Kept, Course, NEW n \in 1..Len(BodyText), Arrives(n)
    PROVE  Course'
<1>1. Holds /\ n \in Nat
  BY DEF Kept
<1>2. Pos' = Pos
  BY <1>1, Grows
<1>3. /\ running' = TRUE /\ ~running
      /\ UNCHANGED <<body, state, file_name, processing_part, wrapped, strayed, told>>
  BY DEF Arrives, Go
<1>4. Current' = Current /\ Ahead' = Ahead /\ bl' = bl
  BY <1>3 DEF Current, Ahead, bl
<1>5. state # "GOT_BOUNDARY" /\ state # "FINALIZE"
  BY <1>3 DEF Course
<1> QED  BY <1>2, <1>3, <1>4, <1>5, Zenon DEF Course

LEMMA HeldAt ==
    ASSUME Kept, NEW x \in 1..Len(io)
    PROVE  io[x] = WholeBody(body)[Pos + x]
<1>1. body \in Bodies
  BY HeldFacts DEF Kept
<1>2. BodyText = WholeBody(body)
  BY <1>1, TextType
<1>3. Has(BodyText, Pos, io, Len(io))
  BY DEF Kept, Holds
<1> QED  BY <1>2, <1>3 DEF Has

(* What stands behind a boundary tells the last one from the others. *)
LEMMA MarkAhead ==
    ASSUME Kept, Course, state = "WAITING_FOR_BOUNDARY", Ahead + bl + 6 <= got,
           NEW e, e = FindBoundary + bl
    PROVE  SubSeq(io, e, e + 3) = Dashes \o CRLF <=> Current = Len(body)
<1>1. PICK c : c = Ahead  OBVIOUS
<1>2. PICK p : p = Pos  OBVIOUS
<1>3. PICK k : k = Current  OBVIOUS
<1>4. PICK w : w = WholeBody(body)  OBVIOUS
<1>5. PICK l : l = Len(io)  OBVIOUS
<1>6. /\ c \in Nat /\ p \in Nat /\ l \in Nat /\ got \in Nat /\ p + l = got
      /\ c <= p /\ p <= c + 2 /\ io \in Seq(Chars) /\ body \in Bodies
      /\ c + bl + 6 <= got
  BY <1>1, <1>2, <1>5, AheadType, HeldFacts DEF Kept, Course
<1>7. bl \in Nat /\ bl > 0
  BY BoundaryType
<1>8. FindBoundary = c + 3 - p
  BY <1>1, <1>2, <1>6, <1>7, FoundNow
<1>9. e = c + 3 - p + bl /\ e \in Nat /\ e > 0 /\ e + 3 <= l
  BY <1>6, <1>7, <1>8
<1>10. PICK t : t = SubSeq(io, e, e + 3)  OBVIOUS
<1>11. PICK g : g = e + 3  OBVIOUS
<1>12. e \in Nat /\ 0 < e /\ g \in Int /\ g <= Len(io)
  BY <1>5, <1>9, <1>11
<1>13. /\ SubSeq(io, e, g) \in Seq(Chars)
       /\ Len(SubSeq(io, e, g)) = IF e <= g THEN g - e + 1 ELSE 0
       /\ \A x \in 1..(g - e + 1) : SubSeq(io, e, g)[x] = io[e + x - 1]
  BY <1>6, <1>12, Piece
<1>14. g - e + 1 = 4 /\ e <= g
  BY <1>9, <1>11
<1>15. /\ t \in Seq(Chars) /\ Len(t) = 4
       /\ \A x \in 1..4 : t[x] = io[e + x - 1]
  BY <1>10, <1>11, <1>13, <1>14
<1>16. \A x \in 1..4 : t[x] = w[c + bl + 2 + x]
  <2> TAKE x \in 1..4
  <2>1. PICK y : y = e + x - 1  OBVIOUS
  <2>2. y \in 1..Len(io) /\ p + y = c + bl + 2 + x
    <3>1. y \in Int /\ e <= y /\ y <= e + 3
      BY <1>12, <2>1
    <3>2. y \in 1..Len(io)
      BY <1>5, <1>6, <1>9, <3>1
    <3>3. p + y = c + bl + 2 + x
      BY <1>6, <1>7, <1>9, <2>1
    <3> QED  BY <3>2, <3>3
  <2>3. io[y] = w[p + y]
    BY <1>2, <1>4, <2>2, HeldAt
  <2>4. t[x] = io[y]
    BY <1>15, <2>1
  <2> QED  BY <2>2, <2>3, <2>4
<1>17. PICK m : m = Dashes \o CRLF  OBVIOUS
<1>18. /\ m \in Seq(Chars) /\ Len(m) = 4 /\ m[1] = "-" /\ m[2] = "-" /\ m[3] = CR /\ m[4] = LF
  BY <1>17, Literals DEF Dashes, CRLF
<1>19. k \in 0..Len(body) /\ c = At(body, k + 1) /\ Len(body) \in Nat
  BY <1>1, <1>3, AheadType DEF Ahead, Current
<1>20. CASE k = Len(body)
  <2>1. body \in Seq(Parts)
    BY <1>6, BytesAssumption
  <2>2. \A j \in 1..(bl + 6) : w[c + j] = Closing[j]
    BY <1>4, <1>19, <1>20, <2>1, Layout, Zenon
  <2>3. /\ bl + 3 \in 1..(bl + 6) /\ bl + 4 \in 1..(bl + 6) /\ bl + 5 \in 1..(bl + 6)
        /\ bl + 6 \in 1..(bl + 6)
    BY <1>7
  <2>4. /\ w[c + (bl + 3)] = "-" /\ w[c + (bl + 4)] = "-" /\ w[c + (bl + 5)] = CR
        /\ w[c + (bl + 6)] = LF
    BY <2>2, <2>3, ClosingShape
  <2>5. /\ c + bl + 2 + 1 = c + (bl + 3) /\ c + bl + 2 + 2 = c + (bl + 4)
        /\ c + bl + 2 + 3 = c + (bl + 5) /\ c + bl + 2 + 4 = c + (bl + 6)
    BY <1>6, <1>7
  <2>6. t[1] = "-" /\ t[2] = "-" /\ t[3] = CR /\ t[4] = LF
    BY <1>16, <2>4, <2>5
  <2>7. \A x \in 1..4 : t[x] = m[x]
    <3> TAKE x \in 1..4
    <3>1. x = 1 \/ x = 2 \/ x = 3 \/ x = 4
      OBVIOUS
    <3> QED  BY <1>18, <2>6, <3>1
  <2>8. t = m
    BY <1>15, <1>18, <2>7, SeqEqual
  <2> QED  BY <1>3, <1>10, <1>17, <1>20, <2>8
<1>21. CASE k # Len(body)
  <2>1. PICK i : i = k + 1  OBVIOUS
  <2>2. i \in 1..Len(body) /\ c = At(body, i)
    BY <1>19, <1>21, <2>1
  <2>3. w[c + bl + 3] = CR
    <3>1. PartIn(w, c, At(body, i + 1), body[i].data, body[i].name)
      BY <1>4, <1>6, <2>2, PartPlace
    <3> QED  BY <3>1 DEF PartIn
  <2>4. t[1] = CR
    <3>1. c + bl + 2 + 1 = c + bl + 3
      BY <1>6, <1>7
    <3>2. t[1] = w[c + bl + 2 + 1]
      BY <1>16
    <3> QED  BY <2>3, <3>1, <3>2
  <2>5. CR # "-"
    BY DEF CR
  <2>6. t # m
    BY <1>18, <2>4, <2>5
  <2> QED  BY <1>3, <1>10, <1>17, <1>21, <2>6
<1> QED  BY <1>20, <1>21

LEMMA CourseWaitForBoundary ==
    ASSUME Kept, Course, WaitForBoundary
    PROVE  Course'
<1>1. PICK e : e = FindBoundary + bl  OBVIOUS
<1>2. PICK c : c = Ahead  OBVIOUS
<1>3. PICK p : p = Pos  OBVIOUS
<1>4. PICK l : l = Len(io)  OBVIOUS
<1>5. PICK f : f = FindBoundary  OBVIOUS
<1>6. /\ running /\ state = "WAITING_FOR_BOUNDARY"
      /\ UNCHANGED <<body, got, file_name, processing_part, wrapped, strayed, told>>
  BY DEF WaitForBoundary
<1>7. IF l < bl + 2 \/ f = 0 \/ l - e + 1 < 4
      THEN Stop /\ UNCHANGED <<io, state>>
      ELSE /\ Go
           /\ IF SubSeq(io, e, e + 3) = Dashes \o CRLF
              THEN state' = "FINALIZE" /\ io' = Without(e + 3)
              ELSE state' = "GOT_BOUNDARY" /\ UNCHANGED io
  BY <1>1, <1>4, <1>5, <1>6 DEF WaitForBoundary
<1>8. /\ c \in Nat /\ p \in Nat /\ l \in Nat /\ got \in Nat /\ p + l = got
      /\ c <= p /\ p <= c + 2 /\ c + bl + 6 <= Len(BodyText) /\ Len(BodyText) \in Nat
      /\ got <= Len(BodyText)
  BY <1>2, <1>3, <1>4, <1>6, AheadType, HeldFacts DEF Kept, Course
<1>9. bl \in Nat /\ bl > 0 /\ bl' = bl
  BY BoundaryType DEF bl
<1>10. /\ got < c + 2 + bl => f = 0
       /\ got >= c + 2 + bl => f = c + 3 - p
  BY <1>2, <1>3, <1>5, <1>6, FoundNow
<1>11. e = f + bl
  BY <1>1, <1>5
<1>12. Current' = Current /\ Ahead' = Ahead /\ BodyText' = BodyText
  BY <1>6 DEF Current, Ahead, BodyText
<1>13. CASE Stop /\ UNCHANGED <<io, state>> /\ (l < bl + 2 \/ f = 0 \/ l - e + 1 < 4)
  <2>1. got < c + bl + 6
    BY <1>8, <1>9, <1>10, <1>11, <1>13
  <2>2. got < Len(BodyText)
    BY <1>8, <1>9, <2>1
  <2>3. running' = FALSE /\ state' = state /\ Pos' = Pos
    BY <1>6, <1>13 DEF Stop, Pos
  <2> QED  BY <1>6, <1>9, <1>12, <2>2, <2>3, Zenon DEF Course
<1>14. CASE /\ ~(l < bl + 2 \/ f = 0 \/ l - e + 1 < 4) /\ Go
            /\ IF SubSeq(io, e, e + 3) = Dashes \o CRLF
               THEN state' = "FINALIZE" /\ io' = Without(e + 3)
               ELSE state' = "GOT_BOUNDARY" /\ UNCHANGED io
  <2>1. c + bl + 6 <= got
    BY <1>8, <1>9, <1>10, <1>11, <1>14
  <2>2. SubSeq(io, e, e + 3) = Dashes \o CRLF <=> Current = Len(body)
    BY <1>1, <1>2, <1>6, <2>1, MarkAhead
  <2>3. running' = TRUE
    BY <1>14 DEF Go
  <2>4. CASE Current = Len(body)
    <3>1. state' = "FINALIZE"
      BY <1>14, <2>2, <2>4
    <3>2. /\ "FINALIZE" # "FINISHED" /\ "FINALIZE" # "WAITING_FOR_CHUNK"
          /\ "FINALIZE" # "GOT_BOUNDARY" /\ "FINALIZE" # "WAITING_FOR_BOUNDARY"
          /\ "WAITING_FOR_BOUNDARY" # "FINISHED" /\ "WAITING_FOR_BOUNDARY" # "WAITING_FOR_CHUNK"
      OBVIOUS
    <3> QED  BY <1>6, <1>9, <1>12, <2>3, <2>4, <3>1, <3>2, Zenon DEF Course
  <2>5. CASE Current # Len(body)
    <3>1. state' = "GOT_BOUNDARY" /\ io' = io
      BY <1>14, <2>2, <2>5
    <3>2. Pos' = Pos
      BY <1>6, <3>1 DEF Pos
    <3>3. Current < Len(body)
      BY <2>5, AheadType
    <3>4. /\ "GOT_BOUNDARY" # "FINISHED" /\ "GOT_BOUNDARY" # "WAITING_FOR_CHUNK"
          /\ "GOT_BOUNDARY" # "FINALIZE" /\ "WAITING_FOR_BOUNDARY" # "FINISHED"
          /\ "WAITING_FOR_BOUNDARY" # "WAITING_FOR_CHUNK"
      OBVIOUS
    <3>5. Ahead + bl + 6 <= got
      BY <1>2, <2>1
    <3> QED  BY <1>6, <1>9, <1>12, <2>3, <3>1, <3>2, <3>3, <3>4, <3>5, Zenon DEF Course
  <2> QED  BY <2>4, <2>5
<1> QED  BY <1>7, <1>13, <1>14

LEMMA CourseFinalize ==
    ASSUME Kept, Course, Finalize
    PROVE  Course'
<1>1. /\ running /\ state = "FINALIZE" /\ told' = Ended /\ file_name' = <<>>
      /\ processing_part' = FALSE /\ state' = "FINISHED" /\ running' = FALSE
      /\ UNCHANGED <<body, got, io, wrapped, strayed>>
  BY DEF Finalize, Stop
<1>2. told \in Seq(Tellings) /\ processing_part \in BOOLEAN
  BY DEF Kept, Shape
<1>3. PICK k : k = Current  OBVIOUS
<1>4. k = Len(told) /\ k \in Nat /\ k = Len(body)
  BY <1>1, <1>2, <1>3, LenProperties DEF Current, Course
<1>5. Len(told') = k
  BY <1>1, <1>2, <1>4, EndedIs
<1>6. \A i \in 1..k :
         /\ told'[i].name = told[i].name /\ told'[i].data = told[i].data
         /\ (told'[i].ended <=> told[i].ended \/ (i = k /\ processing_part))
  BY <1>1, <1>2, <1>4, EndedIs
<1>7. Current' = k
  BY <1>5 DEF Current
<1>8. \A i \in 1..k : told[i].name = <<body[i].name>>
  BY <1>3 DEF Course
<1>9. \A i \in 1..(k - 1) : told[i].ended /\ told[i].data = body[i].data
  BY <1>3 DEF Course
<1>10. k > 0 => processing_part /\ told[k].data = body[k].data
  BY <1>1, <1>3 DEF Course
<1>11. Len(file_name') <= 1 /\ ~wrapped'
  BY <1>1 DEF Course
<1>12. \A i \in 1..k : told'[i].name = <<body[i].name>>
  BY <1>6, <1>8
<1>13. \A i \in 1..(k - 1) : told'[i].ended /\ told'[i].data = body[i].data
  BY <1>4, <1>6, <1>9
<1>14. k > 0 => told'[k].ended /\ told'[k].data = body[k].data
  BY <1>4, <1>6, <1>10
<1> QED  BY <1>1, <1>4, <1>7, <1>11, <1>12, <1>13, <1>14 DEF Course

(* What stands behind the boundary of a part that is not the last is its head. *)
LEMMA HeadAhead ==
    ASSUME Kept, Course, state = "GOT_BOUNDARY"
    PROVE  /\ Current + 1 \in 1..Len(body)
           /\ FindBoundary = Ahead + 3 - Pos
           /\ Ahead + bl + 15 + 6 + bl <= Len(BodyText)
           /\ \E nm \in Chars \ {LF} :
                 nm = body[Current + 1].name /\ HeadAt(io, Ahead + bl + 5 - Pos, nm)
<1>1. PICK c : c = Ahead  OBVIOUS
<1>2. PICK p : p = Pos  OBVIOUS
<1>3. PICK k : k = Current + 1  OBVIOUS
<1>4. PICK w : w = WholeBody(body)  OBVIOUS
<1>5. PICK l : l = Len(io)  OBVIOUS
<1>6. /\ c \in Nat /\ p \in Nat /\ l \in Nat /\ got \in Nat /\ p + l = got
      /\ c <= p /\ p <= c + 2 /\ c + bl + 6 <= got
  BY <1>1, <1>2, <1>5, AheadType, HeldFacts DEF Kept, Course
<1>22. body \in Bodies /\ Len(body) \in Nat
  BY HeldFacts, AheadType DEF Kept
<1>23. k \in 1..Len(body)
  BY <1>3, <1>22, AheadType DEF Course
<1>24. c = At(body, k)
  BY <1>1, <1>3 DEF Ahead, Current
<1>7. bl \in Nat /\ bl > 0
  BY BoundaryType
<1>8. FindBoundary = c + 3 - p
  BY <1>1, <1>2, <1>6, <1>7, FoundNow
<1>0. PICK i : i = c + bl + 5 - p  OBVIOUS
<1>9. i \in Nat /\ i > 0 /\ p + i = c + bl + 5
  BY <1>0, <1>6, <1>7
<1>10. PICK d : d = body[k].data  OBVIOUS
<1>11. PICK n : n = At(body, k + 1)  OBVIOUS
<1>12. PICK nm : nm = body[k].name  OBVIOUS
<1>13. /\ Len(d) \in Nat /\ n \in Nat /\ n = c + bl + 15 + Len(d) /\ n + bl + 6 <= Len(w)
       /\ nm \in Chars /\ nm # LF
       /\ w[c + bl + 5] = "D" /\ w[c + bl + 6] = nm
       /\ w[c + bl + 7] = CR /\ w[c + bl + 8] = LF /\ w[c + bl + 9] = "T"
       /\ w[c + bl + 10] = CR /\ w[c + bl + 11] = LF /\ w[c + bl + 12] = CR
       /\ w[c + bl + 13] = LF
  <2>1. PartIn(w, c, n, d, nm)
    BY <1>4, <1>10, <1>11, <1>12, <1>22, <1>23, <1>24, PartPlace
  <2> QED  BY <2>1, Zenon DEF PartIn
<1>14. ASSUME NEW x \in 0..8, i + x <= l
       PROVE  io[i + x] = w[c + bl + 5 + x]
  <2>1. PICK y : y = i + x  OBVIOUS
  <2>2. y \in 1..Len(io) /\ p + y = c + bl + 5 + x
    BY <1>5, <1>6, <1>7, <1>9, <1>14, <2>1
  <2>3. io[y] = w[p + y]
    BY <1>2, <1>4, <2>2, HeldAt
  <2> QED  BY <2>1, <2>2, <2>3
<1>15. /\ 0 \in 0..8 /\ 1 \in 0..8 /\ 2 \in 0..8 /\ 3 \in 0..8 /\ 4 \in 0..8
       /\ 5 \in 0..8 /\ 6 \in 0..8 /\ 7 \in 0..8 /\ 8 \in 0..8
  OBVIOUS
<1>16. /\ i + 0 = i /\ c + bl + 5 + 0 = c + bl + 5
       /\ c + bl + 5 + 1 = c + bl + 6 /\ c + bl + 5 + 2 = c + bl + 7
       /\ c + bl + 5 + 3 = c + bl + 8 /\ c + bl + 5 + 4 = c + bl + 9
       /\ c + bl + 5 + 5 = c + bl + 10 /\ c + bl + 5 + 6 = c + bl + 11
       /\ c + bl + 5 + 7 = c + bl + 12 /\ c + bl + 5 + 8 = c + bl + 13
  BY <1>6, <1>7, <1>9
<1>17. /\ i <= l => io[i] = "D"
       /\ i + 1 <= l => io[i + 1] = nm
       /\ i + 2 <= l => io[i + 2] = CR
       /\ i + 3 <= l => io[i + 3] = LF
       /\ i + 4 <= l => io[i + 4] = "T"
       /\ i + 5 <= l => io[i + 5] = CR
       /\ i + 6 <= l => io[i + 6] = LF
       /\ i + 7 <= l => io[i + 7] = CR
       /\ i + 8 <= l => io[i + 8] = LF
  <2>1. i <= l => io[i] = w[c + bl + 5]
    BY <1>14, <1>15, <1>16
  <2>2. i + 1 <= l => io[i + 1] = w[c + bl + 6]
    BY <1>14, <1>15, <1>16
  <2>3. i + 2 <= l => io[i + 2] = w[c + bl + 7]
    BY <1>14, <1>15, <1>16
  <2>4. i + 3 <= l => io[i + 3] = w[c + bl + 8]
    BY <1>14, <1>15, <1>16
  <2>5. i + 4 <= l => io[i + 4] = w[c + bl + 9]
    BY <1>14, <1>15, <1>16
  <2>6. i + 5 <= l => io[i + 5] = w[c + bl + 10]
    BY <1>14, <1>15, <1>16
  <2>7. i + 6 <= l => io[i + 6] = w[c + bl + 11]
    BY <1>14, <1>15, <1>16
  <2>8. i + 7 <= l => io[i + 7] = w[c + bl + 12]
    BY <1>14, <1>15, <1>16
  <2>9. i + 8 <= l => io[i + 8] = w[c + bl + 13]
    BY <1>14, <1>15, <1>16
  <2> QED  BY <1>13, <2>1, <2>2, <2>3, <2>4, <2>5, <2>6, <2>7, <2>8, <2>9, Zenon
<1>18. HeadAt(io, i, nm)
  BY <1>5, <1>17 DEF HeadAt
<1>19. c + bl + 15 + 6 + bl <= Len(BodyText)
  <2>1. BodyText = w
    BY <1>4, <1>22, TextType
  <2>2. Len(w) \in Nat
    BY <1>22, <2>1, TextType
  <2>3. PICK g : g = Len(d)  OBVIOUS
  <2>5. PICK m : m = Len(w)  OBVIOUS
  <2>4. g \in Nat /\ n = c + bl + 15 + g /\ n + bl + 6 <= m /\ m \in Nat /\ n \in Nat
    BY <1>13, <2>2, <2>3, <2>5
  <2>6. c + bl + 15 + 6 + bl <= m
    BY <1>6, <1>7, <2>4
  <2> QED  BY <2>1, <2>5, <2>6
<1>20. nm \in Chars \ {LF} /\ nm = body[Current + 1].name
  BY <1>3, <1>12, <1>13
<1>21. HeadAt(io, Ahead + bl + 5 - Pos, nm)
  BY <1>0, <1>1, <1>2, <1>18
<1> QED  BY <1>1, <1>2, <1>3, <1>23, <1>8, <1>19, <1>20, <1>21

LEMMA CourseProcessBoundary ==
    ASSUME Kept, Course, ProcessBoundary, ~strayed'
    PROVE  Course'
<1>1. PICK i : i = FindBoundary + bl + 2  OBVIOUS
<1>2. PICK c : c = Ahead  OBVIOUS
<1>3. PICK p : p = Pos  OBVIOUS
<1>4. PICK l : l = Len(io)  OBVIOUS
<1>5. PICK k : k = Current  OBVIOUS
<1>7. running /\ state = "GOT_BOUNDARY" /\ UNCHANGED <<body, got, wrapped>>
  BY DEF ProcessBoundary
<1>8. \/ PartHead.end > 0 /\ io' = Without(PartHead.end) /\ Begins(PartHead.name)
      \/ PartHead.end = 0 /\ Waits /\ UNCHANGED io
  BY DEF ProcessBoundary
<1>9. /\ c \in Nat /\ p \in Nat /\ l \in Nat /\ got \in Nat /\ p + l = got
      /\ c <= p /\ p <= c + 2 /\ Len(BodyText) \in Nat /\ got <= Len(BodyText)
      /\ io \in Seq(Chars) /\ body \in Bodies
  BY <1>2, <1>3, <1>4, <1>7, AheadType, HeldFacts DEF Kept, Course
<1>10. bl \in Nat /\ bl > 0 /\ bl' = bl
  BY BoundaryType DEF bl
<1>6. PICK nm \in Chars \ {LF} : nm = body[k + 1].name /\ HeadAt(io, c + bl + 5 - p, nm)
  BY <1>2, <1>3, <1>5, <1>7, HeadAhead
<1>16. FindBoundary = c + 3 - p /\ c + bl + 15 + 6 + bl <= Len(BodyText)
       /\ k + 1 \in 1..Len(body)
  BY <1>2, <1>3, <1>5, <1>7, HeadAhead
<1>11. /\ i = c + bl + 5 - p /\ i \in Nat /\ i > 0
       /\ nm \in Chars /\ nm # LF /\ HeadAt(io, i, nm)
       /\ c + bl + 15 + 6 + bl <= Len(BodyText) /\ k + 1 \in 1..Len(body)
  <2>1. i = c + bl + 5 - p
    BY <1>1, <1>9, <1>10, <1>16
  <2>2. i \in Nat /\ i > 0
    BY <1>9, <1>10, <2>1
  <2> QED  BY <1>6, <1>16, <2>1, <2>2
<1>12. /\ i + 8 <= l => PartHead.end = i + 8 /\ PartHead.name = <<nm>>
       /\ i + 8 > l => PartHead.end = 0
  BY <1>1, <1>4, <1>9, <1>11, HeadRead
<1>13. i + 8 \in Nat /\ p + (i + 8) = c + bl + 13
  BY <1>9, <1>10, <1>11
<1>14. CASE PartHead.end = 0 /\ Waits /\ UNCHANGED io
  <2>1. got < Len(BodyText)
    <3>1. ~(i + 8 <= l)
      BY <1>12, <1>13, <1>11, <1>14
    <3>2. got < c + bl + 13
      BY <3>1, <1>9, <1>11, <1>13
    <3> QED  BY <3>2, <1>9, <1>10, <1>11
  <2>2. /\ running' = FALSE /\ state' = "WAITING_FOR_BOUNDARY"
        /\ UNCHANGED <<file_name, processing_part, told>>
    BY <1>14 DEF Waits, Stop
  <2>3. Pos' = Pos /\ Current' = Current /\ Ahead' = Ahead /\ BodyText' = BodyText
    BY <1>7, <1>14, <2>2 DEF Pos, Current, Ahead, BodyText
  <2>4. /\ "WAITING_FOR_BOUNDARY" # "FINISHED" /\ "WAITING_FOR_BOUNDARY" # "WAITING_FOR_CHUNK"
        /\ "WAITING_FOR_BOUNDARY" # "FINALIZE" /\ "WAITING_FOR_BOUNDARY" # "GOT_BOUNDARY"
        /\ "GOT_BOUNDARY" # "FINISHED" /\ "GOT_BOUNDARY" # "WAITING_FOR_CHUNK"
    OBVIOUS
  <2> QED  BY <1>7, <1>10, <2>1, <2>2, <2>3, <2>4, Zenon DEF Course
<1>15. CASE PartHead.end > 0 /\ io' = Without(PartHead.end) /\ Begins(PartHead.name)
  <2>1. i + 8 <= l /\ PartHead.end = i + 8 /\ PartHead.name = <<nm>>
    BY <1>4, <1>9, <1>12, <1>13, <1>15
  <2>2. Pos' = c + bl + 13
    <3>1. PICK n : n = i + 8  OBVIOUS
    <3>2. n \in Nat /\ n <= Len(io) /\ io' = Without(n) /\ Pos + n = c + bl + 13
      BY <1>3, <1>4, <1>13, <1>15, <2>1, <3>1
    <3>3. Pos' = Pos + n
      BY <1>7, <3>2, Drops DEF Kept
    <3> QED  BY <3>2, <3>3
  <2>3. /\ running' = TRUE /\ state' = "WAITING_FOR_CHUNK" /\ file_name' = <<nm>>
        /\ processing_part' = TRUE
        /\ told' = Append(Ended, [name |-> <<nm>>, data |-> <<>>, ended |-> FALSE])
    BY <1>15, <2>1 DEF Begins, Go
  <2>4. PICK r : r = [name |-> <<nm>>, data |-> <<>>, ended |-> FALSE]  OBVIOUS
  <2>5. PICK e : e = Ended  OBVIOUS
  <2>6. /\ told \in Seq(Tellings) /\ processing_part \in BOOLEAN /\ Len(told) = k
        /\ k \in Nat
    BY <1>5, AheadType DEF Kept, Shape, Current
  <2>7. e \in Seq(Tellings) /\ Len(e) = k
    BY <2>5, <2>6, EndedIs
  <2>8. \A x \in 1..k :
           /\ e[x].name = told[x].name /\ e[x].data = told[x].data
           /\ (e[x].ended <=> told[x].ended \/ (x = k /\ processing_part))
    BY <2>5, <2>6, EndedIs
  <2>9. r \in Tellings /\ r.name = <<nm>> /\ r.data = <<>> /\ r.ended = FALSE
    BY <1>11, <2>4, EmptySeq DEF Tellings
  <2>10. PICK t : t = told'  OBVIOUS
  <2>11. t = Append(e, r)
    BY <2>3, <2>4, <2>5, <2>10
  <2>12. Len(t) = k + 1 /\ t[k + 1] = r /\ \A x \in 1..k : t[x] = e[x]
    BY <2>6, <2>7, <2>9, <2>11, AppendProperties
  <2>13. Current' = k + 1
    BY <2>10, <2>12 DEF Current
  <2>14. \A x \in 1..k : told[x].name = <<body[x].name>>
    BY <1>5 DEF Course
  <2>15. \A x \in 1..(k - 1) : told[x].ended /\ told[x].data = body[x].data
    BY <1>5 DEF Course
  <2>16. k > 0 => processing_part /\ told[k].data = body[k].data
    BY <1>5, <1>7 DEF Course
  <2>17. \A x \in 1..(k + 1) : t[x].name = <<body[x].name>>
    <3> TAKE x \in 1..(k + 1)
    <3>1. CASE x = k + 1
      BY <1>6, <2>9, <2>12, <3>1
    <3>2. CASE x \in 1..k
      BY <2>8, <2>12, <2>14, <3>2
    <3> QED  BY <2>6, <3>1, <3>2
  <2>18. \A x \in 1..k : t[x].ended /\ t[x].data = body[x].data
    <3> TAKE x \in 1..k
    <3>1. CASE x = k
      BY <2>6, <2>8, <2>12, <2>16, <3>1
    <3>2. CASE x \in 1..(k - 1)
      BY <2>8, <2>12, <2>15, <3>2
    <3> QED  BY <2>6, <3>1, <3>2
  <2>19. c = At(body, k + 1)
    BY <1>2, <1>5 DEF Ahead, Current
  <2>20. PICK n : n = At(body, k + 2)  OBVIOUS
  <2>21. c + bl + 15 <= n
    <3>1. PICK L : L = Len(body[k + 1].data)  OBVIOUS
    <3>2. PICK g : g = k + 1  OBVIOUS
    <3>3. g \in 1..Len(body) /\ c = At(body, g) /\ L = Len(body[g].data) /\ g + 1 = k + 2
      BY <1>11, <2>6, <2>19, <3>1, <3>2
    <3>4. L \in Nat /\ n = c + bl + 15 + L
      BY <1>9, <2>20, <3>3, PartSpan
    <3> QED  BY <1>9, <1>10, <3>4
  <2>22. Ahead' = n
    <3>1. Len(told') + 1 = k + 2
      BY <2>6, <2>10, <2>12
    <3>2. At(body, k + 2)' = At(body, k + 2)
      BY <1>7
    <3> QED  BY <1>7, <2>20, <3>1 DEF Ahead
  <2>23. t[k + 1].data = SubSeq(body[k + 1].data, 1, 0)
    <3>1. body[k + 1].data \in Seq(Chars)
      <4>1. body \in Seq(Parts)
        BY <1>9, BytesAssumption
      <4>2. body[k + 1] \in Parts
        BY <1>11, <4>1, ElementOfSeq
      <4> QED  BY <4>2 DEF Parts
    <3>2. SubSeq(body[k + 1].data, 1, 0) = <<>>
      BY <3>1
    <3> QED  BY <2>9, <2>12, <3>2
  <2>24. Len(file_name') <= 1
    BY <2>3
  <2>25. ~wrapped' /\ Len(body) \in Nat /\ k + 1 <= Len(body) /\ k + 1 > 0 /\ (k + 1) - 1 = k
    BY <1>7, <1>11, <2>6, AheadType DEF Course
  <2>26. /\ At(body, k + 1) + bl + 13 <= Pos' /\ Pos' + 2 <= n
         /\ Pos' - (At(body, k + 1) + bl + 13) = 0
    <3>1. PICK g : g = c + bl + 13  OBVIOUS
    <3>2. g \in Nat /\ g <= g /\ g - g = 0
      BY <1>9, <1>10, <3>1
    <3>3. g + 2 <= n
      BY <1>9, <1>10, <2>21, <3>1
    <3>4. Pos' = g /\ At(body, k + 1) + bl + 13 = g
      BY <2>2, <2>19, <3>1, Zenon
    <3> QED  BY <3>2, <3>3, <3>4, Zenon
  <2>27. t[k + 1].ended = FALSE
    BY <2>9, <2>12
  <2>28. body' = body /\ told' = t
    BY <1>7, <2>10
  <2> HIDE DEF Ahead
  <2> QED  BY <1>10, <2>3, <2>13, <2>17, <2>18, <2>22, <2>23, <2>24, <2>25, <2>26, <2>27, <2>28
           DEF Course
<1> QED  BY <1>8, <1>14, <1>15

(* A beginning of d and what follows it in d make a longer beginning. *)
LEMMA Extends ==
    ASSUME NEW d \in Seq(Chars), NEW s \in Seq(Chars), NEW q \in Nat, NEW n \in Nat,
           q + n <= Len(d), n <= Len(s), Has(d, q, s, n)
    PROVE  SubSeq(d, 1, q) \o SubSeq(s, 1, n) = SubSeq(d, 1, q + n)
<1>1. PICK l : l = Len(d)  OBVIOUS
<1>2. l \in Nat /\ Len(s) \in Nat /\ q <= l /\ q + n <= l
  BY <1>1, LenProperties
<1>3. PICK u : u = SubSeq(d, 1, q)  OBVIOUS
<1>4. PICK v : v = SubSeq(s, 1, n)  OBVIOUS
<1>5. PICK g : g = q + n  OBVIOUS
<1>6. PICK t : t = SubSeq(d, 1, g)  OBVIOUS
<1>7. g \in Nat /\ g <= l
  BY <1>2, <1>5
<1>8. u \in Seq(Chars) /\ Len(u) = q /\ \A x \in 1..q : u[x] = d[x]
  <2>1. 1 \in Nat /\ 0 < 1 /\ q \in Int /\ q <= Len(d) /\ q - 1 + 1 = q
    BY <1>1, <1>2
  <2>2. /\ SubSeq(d, 1, q) \in Seq(Chars) /\ Len(SubSeq(d, 1, q)) = IF 1 <= q THEN q - 1 + 1 ELSE 0
        /\ \A x \in 1..(q - 1 + 1) : SubSeq(d, 1, q)[x] = d[1 + x - 1]
    BY <2>1, Piece
  <2> QED  BY <1>3, <2>1, <2>2
<1>9. v \in Seq(Chars) /\ Len(v) = n /\ \A x \in 1..n : v[x] = s[x]
  <2>1. 1 \in Nat /\ 0 < 1 /\ n \in Int /\ n <= Len(s) /\ n - 1 + 1 = n
    OBVIOUS
  <2>2. /\ SubSeq(s, 1, n) \in Seq(Chars) /\ Len(SubSeq(s, 1, n)) = IF 1 <= n THEN n - 1 + 1 ELSE 0
        /\ \A x \in 1..(n - 1 + 1) : SubSeq(s, 1, n)[x] = s[1 + x - 1]
    BY <2>1, Piece
  <2> QED  BY <1>4, <2>1, <2>2
<1>10. t \in Seq(Chars) /\ Len(t) = g /\ \A x \in 1..g : t[x] = d[x]
  <2>1. 1 \in Nat /\ 0 < 1 /\ g \in Int /\ g <= Len(d) /\ g - 1 + 1 = g
    BY <1>1, <1>7
  <2>2. /\ SubSeq(d, 1, g) \in Seq(Chars) /\ Len(SubSeq(d, 1, g)) = IF 1 <= g THEN g - 1 + 1 ELSE 0
        /\ \A x \in 1..(g - 1 + 1) : SubSeq(d, 1, g)[x] = d[1 + x - 1]
    BY <2>1, Piece
  <2> QED  BY <1>6, <1>7, <2>1, <2>2
<1>11. PICK z : z = u \o v  OBVIOUS
<1>12. /\ z \in Seq(Chars) /\ Len(z) = q + n
       /\ \A x \in 1..q : z[x] = u[x]
       /\ \A x \in 1..n : z[q + x] = v[x]
  <2>1. u \in Seq(Chars) /\ v \in Seq(Chars)
    BY <1>8, <1>9
  <2>2. /\ z \in Seq(Chars) /\ Len(z) = Len(u) + Len(v)
        /\ \A x \in 1..Len(u) : z[x] = u[x]
        /\ \A x \in 1..Len(v) : z[Len(u) + x] = v[x]
    BY <1>11, <2>1, JoinsAs
  <2>3. Len(u) = q /\ Len(v) = n
    BY <1>8, <1>9
  <2> QED  BY <2>2, <2>3, Zenon
<1>13. \A x \in 1..n : d[q + x] = s[x]
  BY DEF Has
<1>14. \A x \in 1..g : z[x] = t[x]
  <2> TAKE x \in 1..g
  <2>1. CASE x \in 1..q
    BY <1>8, <1>10, <1>12, <2>1
  <2>2. CASE x \notin 1..q
    <3>1. PICK y : y = x - q  OBVIOUS
    <3>2. y \in 1..n /\ x = q + y
      BY <1>5, <1>7, <2>2, <3>1
    <3>3. z[x] = v[y] /\ v[y] = s[y] /\ d[x] = s[y]
      BY <1>9, <1>12, <1>13, <3>2
    <3> QED  BY <1>10, <3>3
  <2> QED  BY <2>1, <2>2
<1>15. z = t
  BY <1>5, <1>10, <1>12, <1>14, SeqEqual
<1> QED  BY <1>3, <1>4, <1>5, <1>6, <1>11, <1>15

(* Where the parser stands in the data of the part it reads. *)
LEMMA DataHere ==
    ASSUME Kept, Course, state = "WAITING_FOR_CHUNK", NEW k, k = Current
    PROVE  /\ k \in 1..Len(body) /\ Len(body) \in Nat /\ body \in Bodies
           /\ At(body, k) \in Nat /\ At(body, k) + bl + 13 <= Pos /\ Pos + 2 <= Ahead
           /\ Ahead = At(body, k) + bl + 15 + Len(body[k].data)
           /\ body[k].data \in Seq(Chars) /\ Len(body[k].data) \in Nat
<1>1. told \in Seq(Tellings) /\ told # <<>>
  BY DEF Kept, Shape
<1>2. k \in 1..Len(body) /\ Len(body) \in Nat /\ body \in Bodies
  <2>1. k = Len(told) /\ Len(told) \in Nat /\ Len(told) # 0
    BY <1>1, LenProperties, EmptySeq DEF Current
  <2>2. Current \in 0..Len(body) /\ Len(body) \in Nat /\ body \in Bodies
    BY AheadType, HeldFacts DEF Kept
  <2> QED  BY <2>1, <2>2
<1>3. At(body, k) + bl + 13 <= Pos /\ Pos + 2 <= Ahead
  BY DEF Course
<1>4. Ahead = At(body, k + 1)
  BY DEF Ahead, Current
<1>5. /\ At(body, k) \in Nat /\ Len(body[k].data) \in Nat
      /\ At(body, k + 1) = At(body, k) + bl + 15 + Len(body[k].data)
  BY <1>2, PartSpan
<1>6. body[k].data \in Seq(Chars)
  <2>1. body \in Seq(Parts)
    BY <1>2, BytesAssumption
  <2>2. body[k] \in Parts
    BY <1>2, <2>1, ElementOfSeq
  <2> QED  BY <2>2 DEF Parts
<1> QED  BY <1>2, <1>3, <1>4, <1>5, <1>6, Zenon

(* What is held is what follows in the data of the part, up to its end. *)
LEMMA DataHeld ==
    ASSUME Kept, Course, state = "WAITING_FOR_CHUNK", NEW k, k = Current,
           NEW n \in Nat, n <= Len(io), Pos + n + 2 <= Ahead
    PROVE  \E q \in Nat :
              /\ q = Pos - (At(body, k) + bl + 13)
              /\ q + n <= Len(body[k].data) /\ Has(body[k].data, q, io, n)
<1>1. PICK a : a = At(body, k)  OBVIOUS
<1>2. PICK d : d = body[k].data  OBVIOUS
<1>3. PICK c : c = Ahead  OBVIOUS
<1>4. PICK p : p = Pos  OBVIOUS
<1>5. PICK m : m = Len(d)  OBVIOUS
<1>6. /\ k \in 1..Len(body) /\ Len(body) \in Nat /\ body \in Bodies
  BY DataHere
<1>7. /\ a \in Nat /\ a + bl + 13 <= p /\ p + 2 <= c /\ c = a + bl + 15 + m /\ m \in Nat
      /\ bl \in Nat /\ p \in Nat /\ p + n + 2 <= c
  BY <1>1, <1>2, <1>3, <1>4, <1>5, DataHere, BoundaryType, HeldFacts DEF Kept
<1>14. PICK q : q = p - (a + bl + 13)  OBVIOUS
<1>8. q \in Nat /\ q + n <= m /\ p = a + bl + 13 + q
  BY <1>7, <1>14
<1>9. PICK w : w = WholeBody(body)  OBVIOUS
<1>10. PICK e : e = At(body, k + 1)  OBVIOUS
<1>11. PICK nm : nm = body[k].name  OBVIOUS
<1>12. \A j \in 1..Len(d) : w[a + bl + 13 + j] = d[j]
  <2>1. PartIn(w, a, e, d, nm)
    BY <1>1, <1>2, <1>6, <1>9, <1>10, <1>11, PartPlace
  <2> QED  BY <2>1, Zenon DEF PartIn, Has
<1>13. \A x \in 1..n : d[q + x] = io[x]
  <2> TAKE x \in 1..n
  <2>1. PICK j : j = q + x  OBVIOUS
  <2>2. j \in 1..m /\ p + x = a + bl + 13 + j
    BY <1>7, <1>8, <2>1
  <2>3. w[a + bl + 13 + j] = d[j]
    BY <1>5, <1>12, <2>2
  <2>4. x \in 1..Len(io)
    BY HeldFacts DEF Kept
  <2>5. io[x] = w[p + x]
    BY <1>4, <1>9, <2>4, HeldAt
  <2> QED  BY <2>1, <2>2, <2>3, <2>5
<1>15. q = Pos - (At(body, k) + bl + 13)
  BY <1>1, <1>4, <1>14
<1>16. Has(body[k].data, q, io, n)
  BY <1>2, <1>13 DEF Has
<1> QED  BY <1>2, <1>5, <1>8, <1>15, <1>16

(* Data that ends before the end of line in front of the next boundary is what was *)
(* sent.                                                                    *)
LEMMA PassedAsSent ==
    ASSUME Kept, Course, state = "WAITING_FOR_CHUNK", NEW k, k = Current,
           NEW n \in Nat, NEW more \in Nat, n + more <= Len(io), Pos + n + 2 <= Ahead,
           PassOn(n, more), UNCHANGED <<body, got>>
    PROVE  /\ Pos' = Pos + n + more /\ wrapped' = FALSE /\ Len(told') = Len(told)
           /\ \A i \in 1..k : told'[i].name = told[i].name /\ told'[i].ended = told[i].ended
           /\ \A i \in 1..(k - 1) : told'[i].data = told[i].data
           /\ told'[k].data =
                SubSeq(body[k].data, 1, (Pos + n) - (At(body, k) + bl + 13))
<1>1. io \in Seq(Chars) /\ Len(io) \in Nat /\ Pos \in Nat /\ Holds
  BY HeldFacts DEF Kept
<1>2. ~(n < 0)
  OBVIOUS
<1>3. /\ wrapped' = (wrapped \/ n < 0)
      /\ told' = [told EXCEPT ![Len(told)].data = @ \o SubSeq(io, 1, n)]
      /\ io' = Without(IF n < 0 THEN more ELSE n + more)
  BY DEF PassOn
<1>4. wrapped' = FALSE
  <2>1. ~wrapped  BY DEF Course
  <2> QED  BY <1>2, <1>3, <2>1
<1>5. Pos' = Pos + n + more
  <2>1. PICK g : g = n + more  OBVIOUS
  <2>2. g \in Nat /\ g <= Len(io) /\ io' = Without(g) /\ Pos + g = Pos + n + more
    BY <1>1, <1>2, <1>3, <2>1
  <2>3. Pos' = Pos + g
    BY <1>1, <2>2, Drops
  <2> QED  BY <2>2, <2>3
<1>6. PICK x : x = SubSeq(io, 1, n)  OBVIOUS
<1>7. x \in Seq(Chars)
  <2>1. 1 \in Nat /\ 0 < 1 /\ n \in Int /\ n <= Len(io)
    BY <1>1
  <2> QED  BY <1>1, <1>6, <2>1, Piece
<1>8. PICK t : t = told'  OBVIOUS
<1>9. told \in Seq(Tellings) /\ told # <<>>
  BY DEF Kept, Shape
<1>10. t = [told EXCEPT ![Len(told)].data = @ \o x]
  BY <1>3, <1>6, <1>8
<1>11. k = Len(told) /\ k \in Nat
  BY <1>9, LenProperties DEF Current
<1>12. /\ Len(t) = Len(told)
       /\ \A i \in 1..Len(told) :
             /\ t[i].name = told[i].name /\ t[i].ended = told[i].ended
             /\ i # Len(told) => t[i].data = told[i].data
       /\ t[Len(told)].data = told[Len(told)].data \o x
  BY <1>7, <1>9, <1>10, PassedOn
<1>14. n <= Len(io)
  BY <1>1
<1>13. PICK q \in Nat :
          /\ q = Pos - (At(body, k) + bl + 13)
          /\ q + n <= Len(body[k].data) /\ Has(body[k].data, q, io, n)
  BY <1>14, DataHeld
<1>15. q \in Nat /\ q + n <= Len(body[k].data) /\ Has(body[k].data, q, io, n)
  BY <1>13
<1>16. SubSeq(body[k].data, 1, q) \o SubSeq(io, 1, n) = SubSeq(body[k].data, 1, q + n)
  <2>1. PICK d : d = body[k].data  OBVIOUS
  <2>2. d \in Seq(Chars)
    BY <2>1, DataHere
  <2>3. q \in Nat /\ q + n <= Len(d) /\ Has(d, q, io, n)
    BY <1>15, <2>1, Zenon
  <2>4. SubSeq(d, 1, q) \o SubSeq(io, 1, n) = SubSeq(d, 1, q + n)
    BY <1>1, <1>14, <2>2, <2>3, Extends, Zenon
  <2> QED  BY <2>1, <2>4, Zenon
<1>17. told[k].data = SubSeq(body[k].data, 1, q)
  BY <1>13 DEF Course
<1>18. t[k].data = SubSeq(body[k].data, 1, q + n)
  BY <1>6, <1>11, <1>12, <1>16, <1>17
<1>19. q + n = (Pos + n) - (At(body, k) + bl + 13)
  <2>1. PICK z : z = At(body, k) + bl + 13  OBVIOUS
  <2>2. PICK p : p = Pos  OBVIOUS
  <2>3. z \in Nat /\ p \in Nat
    <3>1. PICK h : h = At(body, k)  OBVIOUS
    <3>2. h \in Nat /\ bl \in Nat
      BY <3>1, DataHere, BoundaryType
    <3>3. z = h + bl + 13
      BY <2>1, <3>1, Zenon
    <3>4. z \in Nat
      BY <3>2, <3>3
    <3> QED  BY <1>1, <2>2, <3>4, Zenon
  <2>4. q = p - z
    BY <1>13, <2>1, <2>2, Zenon
  <2>5. q + n = (p + n) - z
    BY <2>3, <2>4
  <2> QED  BY <2>1, <2>2, <2>5, Zenon
<1>20. \A i \in 1..(k - 1) : t[i].data = told[i].data
  <2> TAKE i \in 1..(k - 1)
  <2>1. i \in 1..Len(told) /\ i # Len(told)
    BY <1>11
  <2> QED  BY <1>12, <2>1, Zenon
<1>21. told'[k].data = SubSeq(body[k].data, 1, (Pos + n) - (At(body, k) + bl + 13))
  BY <1>8, <1>18, <1>19, Zenon
<1>22. Len(told') = Len(told) /\ \A i \in 1..(k - 1) : told'[i].data = told[i].data
  BY <1>8, <1>12, <1>20, Zenon
<1>23. \A i \in 1..k : told'[i].name = told[i].name /\ told'[i].ended = told[i].ended
  BY <1>8, <1>11, <1>12, Zenon
<1> QED  BY <1>4, <1>5, <1>21, <1>22, <1>23, Zenon

LEMMA CourseWaitForChunk ==
    ASSUME Kept, Course, WaitForChunk
    PROVE  Course'
<1>1. PICK k : k = Current  OBVIOUS
<1>2. PICK a : a = At(body, k)  OBVIOUS
<1>3. PICK c : c = Ahead  OBVIOUS
<1>4. PICK p : p = Pos  OBVIOUS
<1>5. PICK l : l = Len(io)  OBVIOUS
<1>6. PICK d : d = body[k].data  OBVIOUS
<1>7. PICK m : m = Len(d)  OBVIOUS
<1>8. /\ running /\ state = "WAITING_FOR_CHUNK"
      /\ UNCHANGED <<body, got, file_name, processing_part, strayed>>
  BY DEF WaitForChunk
<1>9. k \in 1..Len(body) /\ Len(body) \in Nat /\ body \in Bodies /\ d \in Seq(Chars)
  BY <1>1, <1>6, <1>8, DataHere
<1>10. /\ a \in Nat /\ a + bl + 13 <= p /\ p + 2 <= c /\ c = a + bl + 15 + m /\ m \in Nat
  BY <1>1, <1>2, <1>3, <1>4, <1>6, <1>7, <1>8, DataHere
<1>11. bl \in Nat /\ bl > 0 /\ bl' = bl
  BY BoundaryType DEF bl
<1>12. /\ p \in Nat /\ l \in Nat /\ got \in Nat /\ p + l = got /\ c \in Nat
       /\ Len(BodyText) \in Nat /\ c + bl + 6 <= Len(BodyText)
  BY <1>3, <1>4, <1>5, AheadType, HeldFacts DEF Kept
<1>13. /\ got < c + 2 + bl => FindBoundary = 0
       /\ got >= c + 2 + bl => FindBoundary = c + 3 - p
  BY <1>3, <1>4, <1>8, FoundNow
<1>14. /\ k \in Nat /\ k > 0 /\ k <= Len(body)
       /\ \A i \in 1..k : told[i].name = <<body[i].name>>
       /\ \A i \in 1..(k - 1) : told[i].ended /\ told[i].data = body[i].data
       /\ ~told[k].ended /\ processing_part /\ Len(file_name) <= 1
  BY <1>1, <1>8, <1>9 DEF Course
<1>15. UNCHANGED <<body, got>> /\ body' = body /\ BodyText' = BodyText
  BY <1>8 DEF BodyText
<1>16. CASE Len(io) < KeptBack /\ Stop /\ UNCHANGED <<io, state, told, wrapped>>
  <2>1. got < Len(BodyText)
    <3>1. l < bl + 6
      BY <1>5, <1>16 DEF KeptBack
    <3> QED  BY <1>10, <1>11, <1>12, <3>1
  <2>2. running' = FALSE /\ state' = "WAITING_FOR_CHUNK"
    BY <1>8, <1>16 DEF Stop
  <2>3. Pos' = Pos /\ Current' = Current /\ Ahead' = Ahead
    BY <1>8, <1>16 DEF Pos, Current, Ahead
  <2>4. /\ "WAITING_FOR_CHUNK" # "FINISHED" /\ "WAITING_FOR_CHUNK" # "WAITING_FOR_BOUNDARY"
        /\ "WAITING_FOR_CHUNK" # "FINALIZE" /\ "WAITING_FOR_CHUNK" # "GOT_BOUNDARY"
    OBVIOUS
  <2> QED  BY <1>8, <1>11, <1>15, <1>16, <2>1, <2>2, <2>3, <2>4, Zenon DEF Course
<1>17. CASE /\ Len(io) >= KeptBack /\ FindBoundary = 0
            /\ PassOn(Len(io) - KeptBack, 0) /\ Stop /\ UNCHANGED state
  <2>1. PICK n : n = l - (bl + 6)  OBVIOUS
  <2>2. got < c + 2 + bl
    BY <1>10, <1>11, <1>12, <1>13, <1>17
  <2>3. l >= bl + 6
    BY <1>5, <1>17 DEF KeptBack
  <2>4. n \in Nat /\ n + 0 <= l /\ p + n + 2 <= c /\ 0 \in Nat /\ p + n + 0 = p + n
    BY <1>10, <1>11, <1>12, <2>1, <2>2, <2>3
  <2>5. PassOn(n, 0)
    BY <1>5, <1>17, <2>1 DEF KeptBack
  <2>6. /\ Pos' = Pos + n + 0 /\ wrapped' = FALSE /\ Len(told') = Len(told)
        /\ \A i \in 1..k : told'[i].name = told[i].name /\ told'[i].ended = told[i].ended
        /\ \A i \in 1..(k - 1) : told'[i].data = told[i].data
        /\ told'[k].data =
             SubSeq(body[k].data, 1, (Pos + n) - (At(body, k) + bl + 13))
    BY <1>1, <1>3, <1>4, <1>5, <1>8, <1>15, <2>4, <2>5, PassedAsSent
  <2>7. Pos' = p + n
    BY <1>4, <2>4, <2>6
  <2>8. told'[k].data = SubSeq(body[k].data, 1, Pos' - (At(body, k) + bl + 13))
    <3>1. Pos' = Pos + n
      BY <1>4, <2>7
    <3> QED  BY <2>6, <3>1, Zenon
  <2>9. Current' = k /\ Ahead' = c
    BY <1>1, <1>3, <1>8, <2>6 DEF Current, Ahead
  <2>10. At(body, k) + bl + 13 <= Pos' /\ Pos' + 2 <= c
    <3>1. PICK z : z = a + bl + 13  OBVIOUS
    <3>2. z \in Nat /\ z <= p
      BY <1>10, <1>11, <3>1
    <3>3. z <= p + n /\ p + n + 2 <= c
      BY <1>12, <2>4, <3>2
    <3> QED  BY <1>2, <2>7, <3>1, <3>3, Zenon
  <2>11. got < Len(BodyText)
    BY <1>10, <1>11, <1>12, <2>2
  <2>12. running' = FALSE /\ state' = "WAITING_FOR_CHUNK"
    BY <1>8, <1>17 DEF Stop
  <2>13. \A i \in 1..k : told'[i].name = <<body[i].name>>
    BY <1>14, <2>6
  <2>14. \A i \in 1..(k - 1) : told'[i].ended /\ told'[i].data = body[i].data
    BY <1>14, <2>6
  <2>15. ~told'[k].ended
    <3>1. k \in 1..k  BY <1>14
    <3> QED  BY <1>14, <2>6, <3>1
  <2>16. Len(file_name') <= 1 /\ processing_part' /\ ~wrapped'
    BY <1>8, <1>14, <2>6
  <2> HIDE DEF Ahead
  <2> QED  BY <1>11, <1>14, <1>15, <2>8, <2>9, <2>10, <2>11, <2>12, <2>13, <2>14, <2>15, <2>16
           DEF Course
<1>18. CASE /\ Len(io) >= KeptBack /\ FindBoundary > 0
            /\ PassOn(FindBoundary - 5, 4) /\ state' = "WAITING_FOR_BOUNDARY" /\ Go
  <2>1. PICK n : n = c - 2 - p  OBVIOUS
  <2>2. got >= c + 2 + bl
    BY <1>10, <1>11, <1>12, <1>13, <1>18
  <2>3. FindBoundary = c + 3 - p
    BY <1>13, <2>2
  <2>4. /\ n \in Nat /\ n + 4 <= l /\ p + n + 2 <= c /\ 4 \in Nat /\ p + n + 4 = c + 2
        /\ FindBoundary - 5 = n
    <3>1. n \in Nat /\ p + n + 2 = c
      BY <1>10, <1>12, <2>1
    <3>2. n + 4 <= l
      <4>1. bl + 6 <= l
        BY <1>5, <1>18 DEF KeptBack
      <4>2. c + 2 + bl <= p + l
        BY <1>12, <2>2
      <4> QED  BY <1>11, <1>12, <3>1, <4>2
    <3>3. c + 3 - p - 5 = n
      BY <1>12, <2>1
    <3> QED  BY <1>12, <2>3, <3>1, <3>2, <3>3
  <2>5. PassOn(n, 4)
    BY <1>18, <2>4
  <2>6. /\ Pos' = Pos + n + 4 /\ wrapped' = FALSE /\ Len(told') = Len(told)
        /\ \A i \in 1..k : told'[i].name = told[i].name /\ told'[i].ended = told[i].ended
        /\ \A i \in 1..(k - 1) : told'[i].data = told[i].data
        /\ told'[k].data =
             SubSeq(body[k].data, 1, (Pos + n) - (At(body, k) + bl + 13))
    BY <1>1, <1>3, <1>4, <1>5, <1>8, <1>15, <2>4, <2>5, PassedAsSent
  <2>7. Pos' = c + 2
    BY <1>4, <2>4, <2>6
  <2>8. told'[k].data = body[k].data
    <3>1. (p + n) - (a + bl + 13) = m
      BY <1>10, <1>11, <1>12, <2>1
    <3>2. told'[k].data = SubSeq(d, 1, m)
      <4>1. told'[k].data = SubSeq(body[k].data, 1, (Pos + n) - (At(body, k) + bl + 13))
        BY <2>6
      <4> QED  BY <1>2, <1>4, <1>6, <3>1, <4>1, Zenon
    <3>3. SubSeq(d, 1, m) = d
      BY <1>7, <1>9, SubSeqFull
    <3> QED  BY <1>6, <3>2, <3>3
  <2>9. Current' = k /\ Ahead' = c
    BY <1>1, <1>3, <1>8, <2>6 DEF Current, Ahead
  <2>10. c <= Pos' /\ Pos' <= c + 2
    BY <1>12, <2>7
  <2>12. running' = TRUE
    BY <1>18 DEF Go
  <2>13. \A i \in 1..k : told'[i].name = <<body[i].name>>
    BY <1>14, <2>6
  <2>14. \A i \in 1..(k - 1) : told'[i].ended /\ told'[i].data = body[i].data
    BY <1>14, <2>6
  <2>15. ~told'[k].ended
    <3>1. k \in 1..k  BY <1>14
    <3> QED  BY <1>14, <2>6, <3>1
  <2>16. Len(file_name') <= 1 /\ processing_part' /\ ~wrapped'
    BY <1>8, <1>14, <2>6
  <2>17. state' = "WAITING_FOR_BOUNDARY"
    BY <1>18
  <2> HIDE DEF Ahead
  <2> QED  BY <1>14, <1>15, <2>8, <2>9, <2>10, <2>12, <2>13, <2>14, <2>15, <2>16, <2>17
           DEF Course
<1> QED  BY <1>8, <1>16, <1>17, <1>18 DEF WaitForChunk

LEMMA InvStep == BytesInv /\ [BytesNext]_partBytes => BytesInv'
<1> SUFFICES ASSUME Kept, ~strayed => Course, [BytesNext]_partBytes PROVE BytesInv'
  BY DEF BytesInv
<1>1. Kept'
  BY KeptStep
<1>2. ASSUME ~strayed'
      PROVE  Course'
  <2>1. ~strayed
    <3>1. strayed \in BOOLEAN
      BY DEF Kept, Shape
    <3>2. strayed' = strayed \/ strayed' = TRUE
      BY DEF BytesNext, Arrives, WaitForBoundary, ProcessBoundary, WaitForChunk, Finalize,
             partBytes
    <3> QED  BY <1>2, <3>1, <3>2
  <2>2. Course
    BY <2>1
  <2>3. CASE UNCHANGED partBytes
    <3>1. UNCHANGED <<body, got, io, state, running, file_name, processing_part, wrapped,
                      strayed, told>>
      BY <2>3 DEF partBytes
    <3>2. Pos' = Pos /\ Current' = Current /\ Ahead' = Ahead /\ BodyText' = BodyText /\ bl' = bl
      BY <3>1 DEF Pos, Current, Ahead, BodyText, bl
    <3> QED  BY <2>2, <3>1, <3>2, Zenon DEF Course
  <2>4. CASE BytesNext
    BY <1>2, <2>2, <2>4, CourseArrives, CourseWaitForBoundary, CourseProcessBoundary,
       CourseWaitForChunk, CourseFinalize DEF BytesNext
  <2> QED  BY <2>3, <2>4
<1> QED  BY <1>1, <1>2 DEF BytesInv

LEMMA BeginningIsPrefix ==
    ASSUME NEW d \in Seq(Chars), NEW q \in Nat, q <= Len(d), NEW s, s = SubSeq(d, 1, q)
    PROVE  IsPrefix(s, d)
<1>1. 1 \in Nat /\ 0 < 1 /\ q \in Int /\ q - 1 + 1 = q
  OBVIOUS
<1>2. Len(SubSeq(d, 1, q)) = IF 1 <= q THEN q - 1 + 1 ELSE 0
  BY <1>1, Piece
<1>3. Len(s) = q
  BY <1>1, <1>2
<1>4. s \in Seq(Chars)
  BY <1>1, Piece
<1>5. SubSeq(s, 1, Len(s)) = s
  BY <1>4, SubSeqFull
<1> QED  BY <1>3, <1>5 DEF IsPrefix

LEMMA CourseTells ==
    ASSUME Kept, Course
    PROVE  /\ \A i \in DOMAIN told :
                 /\ i <= Len(body)
                 /\ told[i].name = <<body[i].name>>
                 /\ IsPrefix(told[i].data, body[i].data)
                 /\ told[i].ended => told[i].data = body[i].data
                 /\ i < Len(told) => told[i].ended
           /\ ~wrapped
           /\ got = Len(BodyText) /\ ~running =>
                 /\ state = "FINISHED"
                 /\ Len(told) = Len(body)
                 /\ \A i \in DOMAIN told : told[i].ended
<1>1. PICK k : k = Current  OBVIOUS
<1>2. told \in Seq(Tellings)
  BY DEF Kept, Shape
<1>3. k \in Nat /\ k = Len(told) /\ DOMAIN told = 1..k
  BY <1>1, <1>2, LenProperties DEF Current
<1>4. /\ k <= Len(body) /\ Len(body) \in Nat /\ ~wrapped
      /\ \A i \in 1..k : told[i].name = <<body[i].name>>
      /\ \A i \in 1..(k - 1) : told[i].ended /\ told[i].data = body[i].data
      /\ k > 0 => (told[k].ended <=> state = "FINISHED")
      /\ state # "WAITING_FOR_CHUNK" /\ k > 0 => told[k].data = body[k].data
      /\ state = "FINISHED" => k = Len(body)
      /\ ~running => state = "FINISHED" \/ got < Len(BodyText)
  BY <1>1, AheadType DEF Course
<1>5. \A i \in 1..k : body[i].data \in Seq(Chars) /\ Len(body[i].data) \in Nat
  <2> TAKE i \in 1..k
  <2>1. body \in Seq(Parts)
    BY HeldFacts, BytesAssumption DEF Kept
  <2>2. body[i] \in Parts
    BY <1>3, <1>4, <2>1, ElementOfSeq
  <2>3. body[i].data \in Seq(Chars)
    BY <2>2 DEF Parts
  <2> QED  BY <2>3, LenProperties
<1>6. \A i \in 1..k : told[i].data = body[i].data => IsPrefix(told[i].data, body[i].data)
  <2> TAKE i \in 1..k
  <2>1. PICK d : d = body[i].data  OBVIOUS
  <2>2. PICK q : q = Len(d)  OBVIOUS
  <2>3. d \in Seq(Chars) /\ q \in Nat /\ q <= Len(d) /\ d = SubSeq(d, 1, q)
    BY <1>5, <2>1, <2>2, SubSeqFull
  <2>4. IsPrefix(d, d)
    BY <2>3, BeginningIsPrefix
  <2> QED  BY <2>1, <2>4
<1>7. ASSUME state = "WAITING_FOR_CHUNK"
      PROVE  IsPrefix(told[k].data, body[k].data)
  <2>1. PICK d : d = body[k].data  OBVIOUS
  <2>2. PICK q : q = Pos - (At(body, k) + bl + 13)  OBVIOUS
  <2>3. PICK a : a = At(body, k)  OBVIOUS
  <2>4. PICK p : p = Pos  OBVIOUS
  <2>5. PICK c : c = Ahead  OBVIOUS
  <2>6. PICK m : m = Len(d)  OBVIOUS
  <2>7. /\ a \in Nat /\ a + bl + 13 <= p /\ p + 2 <= c /\ c = a + bl + 15 + m
        /\ m \in Nat /\ d \in Seq(Chars)
    BY <1>1, <1>7, <2>1, <2>3, <2>4, <2>5, <2>6, DataHere
  <2>8. p \in Nat /\ bl \in Nat
    BY <2>4, HeldFacts, BoundaryType DEF Kept
  <2>9. q = p - (a + bl + 13)
    BY <2>2, <2>3, <2>4
  <2>10. q \in Nat /\ q <= m
    BY <2>7, <2>8, <2>9
  <2>11. told[k].data = SubSeq(d, 1, q)
    BY <1>1, <1>7, <2>1, <2>2 DEF Course
  <2>12. IsPrefix(told[k].data, d)
    BY <2>6, <2>7, <2>10, <2>11, BeginningIsPrefix
  <2> QED  BY <2>1, <2>12
<1>8. \A i \in 1..k : told[i].ended => told[i].data = body[i].data
  <2> TAKE i \in 1..k
  <2>1. CASE i = k
    <3>1. "FINISHED" # "WAITING_FOR_CHUNK"  OBVIOUS
    <3> QED  BY <1>3, <1>4, <2>1, <3>1
  <2>2. CASE i # k
    BY <1>3, <1>4, <2>2
  <2> QED  BY <2>1, <2>2
<1>9. \A i \in 1..k : IsPrefix(told[i].data, body[i].data)
  <2> TAKE i \in 1..k
  <2>1. CASE i = k
    BY <1>3, <1>4, <1>6, <1>7, <2>1
  <2>2. CASE i # k
    BY <1>3, <1>4, <1>6, <2>2
  <2> QED  BY <2>1, <2>2
<1>10. \A i \in 1..k : i < k => told[i].ended
  BY <1>3, <1>4
<1>11. \A i \in DOMAIN told :
         /\ i <= Len(body)
         /\ told[i].name = <<body[i].name>>
         /\ IsPrefix(told[i].data, body[i].data)
         /\ told[i].ended => told[i].data = body[i].data
         /\ i < Len(told) => told[i].ended
  BY <1>3, <1>4, <1>8, <1>9, <1>10
<1>12. ASSUME got = Len(BodyText), ~running
       PROVE  /\ state = "FINISHED" /\ Len(told) = Len(body)
              /\ \A i \in DOMAIN told : told[i].ended
  <2>1. Len(BodyText) \in Nat
    BY HeldFacts DEF Kept
  <2>2. state = "FINISHED"
    BY <1>4, <1>12, <2>1
  <2>3. \A i \in 1..k : told[i].ended
    <3> TAKE i \in 1..k
    <3>1. CASE i = k
      BY <1>3, <1>4, <2>2, <3>1
    <3>2. CASE i # k
      BY <1>3, <1>10, <3>2
    <3> QED  BY <3>1, <3>2
  <2> QED  BY <1>3, <1>4, <2>2, <2>3
<1> QED  BY <1>4, <1>11, <1>12

(* Whatever a boundary and whatever parts that do not hold its text (BytesAssumption, *)
(* which is narrower than RFC 2046), however the body is cut into receives:         *)
(* mg_http_multipart_continue tells the handler the parts that were sent, with the  *)
(* last byte all of them to their end, unless a head was read past the buffer; a    *)
(* length is then never below zero.                                          *)
THEOREM ToldAsSentHolds == BytesSpec => []ToldAsSent
<1>1. BytesInit => BytesInv
  BY KeptFirst, CourseFirst DEF BytesInv
<1>2. BytesInv /\ [BytesNext]_partBytes => BytesInv'
  BY InvStep
<1>3. BytesInv => ToldAsSent
  <2> SUFFICES ASSUME Kept, Course PROVE ToldAsSent
    BY DEF BytesInv, ToldAsSent
  <2> QED  BY CourseTells, Zenon DEF ToldAsSent
<1> QED  BY <1>1, <1>2, <1>3, PTL DEF BytesSpec

(* What the parser holds is never more than has arrived, and it is told no more       *)
(* parts than there are.                                                     *)
THEOREM BytesTypes == BytesSpec => []BytesTypeOK
<1>1. BytesInit => BytesInv
  BY KeptFirst, CourseFirst DEF BytesInv
<1>2. BytesInv /\ [BytesNext]_partBytes => BytesInv'
  BY InvStep
<1>3. BytesInv => BytesTypeOK
  <2> SUFFICES ASSUME Kept, ~strayed => Course PROVE BytesTypeOK
    BY DEF BytesInv
  <2>1. /\ body \in Bodies /\ got \in 0..Len(BodyText) /\ Len(io) <= got
    BY DEF Kept, Holds
  <2>2. /\ state \in States /\ running \in BOOLEAN /\ file_name \in Seq(Chars)
        /\ processing_part \in BOOLEAN /\ wrapped \in BOOLEAN /\ strayed \in BOOLEAN
    BY DEF Kept, Shape
  <2>3. strayed \/ (Len(file_name) <= 1 /\ Len(told) <= Len(body))
    BY DEF Course, Current
  <2> QED  BY <2>1, <2>2, <2>3 DEF BytesTypeOK
<1> QED  BY <1>1, <1>2, <1>3, PTL DEF BytesSpec

-----------------------------------------------------------------------------
(* A chunk, and what mg_http_parse_chunk makes of it *)

LEMMA HexType ==
    /\ \A c \in DOMAIN HexDigits : HexDigits[c] \in Nat
    /\ CR \notin DOMAIN HexDigits
<1> DEFINE lower == <<"0", "1", "2", "3", "4", "5", "6", "7", "8", "9",
                      "a", "b", "c", "d", "e", "f">>
           upper == <<"A", "B", "C", "D", "E", "F">>
<1>1. HexDigits = [c \in Range(lower) \cup Range(upper) |->
                     IF c \in Range(lower) THEN (CHOOSE i \in 1..16 : lower[i] = c) - 1
                     ELSE (CHOOSE i \in 1..6 : upper[i] = c) + 9]
  BY Zenon DEF HexDigits
<1>2. /\ \A c \in Range(lower) : \E i \in 1..16 : lower[i] = c
      /\ \A c \in Range(upper) : \E i \in 1..6 : upper[i] = c
  BY DEF Range
<1>3. CR \notin Range(lower) /\ CR \notin Range(upper)
  BY DEF Range, CR
<1> HIDE DEF lower, upper
<1>4. DOMAIN HexDigits = Range(lower) \cup Range(upper)
  BY <1>1
<1>5. \A c \in DOMAIN HexDigits : HexDigits[c] \in Nat
  <2> TAKE c \in DOMAIN HexDigits
  <2>1. CASE c \in Range(lower)
    <3>1. PICK i : i = CHOOSE j \in 1..16 : lower[j] = c  OBVIOUS
    <3>2. i \in 1..16
      BY <1>2, <3>1, <2>1
    <3>3. HexDigits[c] = i - 1
      BY <1>1, <1>4, <3>1, <2>1
    <3> QED  BY <3>2, <3>3
  <2>2. CASE c \notin Range(lower)
    <3>1. PICK i : i = CHOOSE j \in 1..6 : upper[j] = c  OBVIOUS
    <3>2. i \in 1..6
      BY <1>2, <3>1, <1>4, <2>2
    <3>3. HexDigits[c] = i + 9
      BY <1>1, <1>4, <3>1, <2>2
    <3> QED  BY <3>2, <3>3
  <2> QED  BY <2>1, <2>2
<1> QED  BY <1>3, <1>4, <1>5

(* The numbers of the first digits of v. *)
Numbers(f, v, k) == [i \in 0..k |-> IF i = 0 THEN 0 ELSE 16 * f[i - 1] + HexDigits[v[i]]]

LEMMA NumbersMore ==
    ASSUME NEW v, NEW k \in Nat, NEW f, f = Numbers(f, v, k)
    PROVE  \E g : g = Numbers(g, v, k + 1)
<1>1. PICK e : e = 16 * f[k] + HexDigits[v[k + 1]]  OBVIOUS
<1>2. PICK m : m = k + 1  OBVIOUS
<1>3. m \in Nat /\ m # 0 /\ m - 1 = k
  BY <1>2
<1>4. PICK g : g = [i \in 0..m |-> IF i = m THEN e ELSE f[i]]  OBVIOUS
<1>5. \A i \in 0..k : g[i] = f[i]
  BY <1>3, <1>4
<1>6. \A i \in 0..m : g[i] = IF i = 0 THEN 0 ELSE 16 * g[i - 1] + HexDigits[v[i]]
  <2> TAKE i \in 0..m
  <2>1. CASE i = m
    <3>1. g[m] = e /\ g[k] = f[k]
      BY <1>3, <1>4, <1>5
    <3> QED  BY <1>1, <1>2, <1>3, <2>1, <3>1
  <2>2. CASE i \in 0..k
    <3>1. f[i] = IF i = 0 THEN 0 ELSE 16 * f[i - 1] + HexDigits[v[i]]
      BY <2>2 DEF Numbers
    <3>2. g[i] = f[i] /\ (i # 0 => g[i - 1] = f[i - 1])
      BY <1>5, <2>2
    <3> QED  BY <3>1, <3>2
  <2> QED  BY <1>3, <2>1, <2>2
<1>7. g = [i \in 0..m |-> g[i]]
  BY <1>4
<1>8. g = Numbers(g, v, m)
  BY <1>6, <1>7 DEF Numbers
<1> QED  BY <1>2, <1>8

LEMMA NumberType ==
    ASSUME NEW v \in Seq(DOMAIN HexDigits)
    PROVE  HexNumber(v) \in Nat
<1> DEFINE N == CHOOSE f : f = Numbers(f, v, Len(v))
<1>1. Len(v) \in Nat
  BY LenProperties
<1>2. \E f : f = Numbers(f, v, Len(v))
  <2> DEFINE T == {k \in 0..Len(v) : \E f : f = Numbers(f, v, k)}
  <2>1. 0 \in T
    <3>1. Numbers(<<>>, v, 0) = Numbers(Numbers(<<>>, v, 0), v, 0)
      BY DEF Numbers
    <3> QED  BY <1>1, <3>1
  <2>2. \A k \in 1..Len(v) : k - 1 \in T => k \in T
    BY NumbersMore
  <2> HIDE DEF T
  <2>3. \A k \in 0..Len(v) : k \in T
    BY <1>1, <2>1, <2>2, Upwards
  <2>4. Len(v) \in T
    BY <1>1, <2>3
  <2> QED  BY <2>4 DEF T
<1>3. N = Numbers(N, v, Len(v))
  BY <1>2, Zenon
<1>4. HexNumber(v) = N[Len(v)]
  BY Zenon DEF HexNumber, Numbers
<1> HIDE DEF N
<1> DEFINE U == {k \in 0..Len(v) : N[k] \in Nat}
<1>5. \A k \in 0..Len(v) : N[k] = IF k = 0 THEN 0 ELSE 16 * N[k - 1] + HexDigits[v[k]]
  BY <1>3 DEF Numbers
<1>6. 0 \in U
  BY <1>1, <1>5
<1>7. \A k \in 1..Len(v) : k - 1 \in U => k \in U
  <2> SUFFICES ASSUME NEW k \in 1..Len(v), N[k - 1] \in Nat PROVE N[k] \in Nat
    BY <1>1
  <2>1. v[k] \in DOMAIN HexDigits
    BY ElementOfSeq
  <2>2. HexDigits[v[k]] \in Nat
    BY <2>1, HexType
  <2>3. N[k] = 16 * N[k - 1] + HexDigits[v[k]]
    BY <1>1, <1>5
  <2> QED  BY <2>2, <2>3
<1> HIDE DEF U
<1>8. \A k \in 0..Len(v) : k \in U
  BY <1>1, <1>6, <1>7, Upwards
<1>9. Len(v) \in U
  BY <1>1, <1>8
<1> QED  BY <1>4, <1>9 DEF U

LEMMA PastIs ==
    ASSUME NEW s \in Seq(Chars), NEW D, NEW i \in Nat, NEW m \in i..(Len(s) + 1),
           m <= Len(s) => s[m] \notin D, \A j \in i..(m - 1) : s[j] \in D
    PROVE  Past(s, i, D) = m
<1>1. Len(s) \in Nat
  BY LenProperties
<1> DEFINE T == {j \in i..Len(s) : s[j] \notin D} \cup {Len(s) + 1}
<1>2. m \in T /\ T \subseteq Int
  BY <1>1
<1>3. \A x \in T : m <= x
  <2> SUFFICES ASSUME NEW x \in T, x < m PROVE FALSE
    BY <1>1
  <2>1. x \in i..(m - 1) /\ s[x] \notin D
    BY <1>1
  <2> QED  BY <2>1
<1>4. Past(s, i, D) = Min(T)
  BY Zenon DEF Past
<1> HIDE DEF T
<1> QED  BY <1>2, <1>3, <1>4, MinIs

LEMMA PastType ==
    ASSUME NEW s \in Seq(Chars), NEW D, NEW i \in 1..(Len(s) + 1)
    PROVE  /\ Past(s, i, D) \in i..(Len(s) + 1)
           /\ \A j \in i..(Past(s, i, D) - 1) : s[j] \in D
<1>1. Len(s) \in Nat /\ i \in Nat
  BY LenProperties
<1> DEFINE T == {j \in i..Len(s) : s[j] \notin D} \cup {Len(s) + 1}
<1>2. T \subseteq Nat /\ T # {} /\ T \subseteq i..(Len(s) + 1)
  BY <1>1
<1>3. PICK p : p = Past(s, i, D)  OBVIOUS
<1>4. p = Min(T)
  BY <1>3, Zenon DEF Past
<1>5. p \in T /\ \A x \in T : p <= x
  <2> HIDE DEF T
  <2> QED  BY <1>2, <1>4, MinOf
<1>6. \A j \in i..(p - 1) : s[j] \in D
  <2> SUFFICES ASSUME NEW j \in i..(p - 1), s[j] \notin D PROVE FALSE
    OBVIOUS
  <2>1. j \in T /\ j < p
    BY <1>1, <1>2, <1>5
  <2> QED  BY <1>2, <1>5, <2>1
<1>7. p \in i..(Len(s) + 1)
  <2> HIDE DEF T
  <2> QED  BY <1>2, <1>5
<1> QED  BY <1>3, <1>6, <1>7

(* An end of line at j. *)
EndsLine(s, j) == j + 1 <= Len(s) /\ SubSeq(s, j, j + 1) = CRLF

LEMMA EndsLineIs ==
    ASSUME NEW s \in Seq(Chars), NEW j \in 1..(Len(s) - 1), s[j] = CR, s[j + 1] = LF
    PROVE  EndsLine(s, j)
<1>1. Len(s) \in Nat /\ j \in Nat /\ 0 < j /\ j + 1 \in Int /\ j + 1 <= Len(s)
  BY LenProperties
<1>2. PICK t : t = SubSeq(s, j, j + 1)  OBVIOUS
<1>3. /\ SubSeq(s, j, j + 1) \in Seq(Chars)
      /\ Len(SubSeq(s, j, j + 1)) = IF j <= j + 1 THEN j + 1 - j + 1 ELSE 0
      /\ \A x \in 1..(j + 1 - j + 1) : SubSeq(s, j, j + 1)[x] = s[j + x - 1]
  BY <1>1, Piece
<1>4. t \in Seq(Chars) /\ Len(t) = 2 /\ t[1] = CR /\ t[2] = LF
  <2>1. j <= j + 1 /\ j + 1 - j + 1 = 2 /\ j + 1 - 1 = j /\ j + 2 - 1 = j + 1
    BY <1>1
  <2>2. t \in Seq(Chars) /\ Len(t) = 2 /\ \A x \in 1..2 : t[x] = s[j + x - 1]
    BY <1>2, <1>3, <2>1
  <2>3. t[1] = s[j + 1 - 1] /\ t[2] = s[j + 2 - 1]
    BY <2>2
  <2> QED  BY <2>1, <2>2, <2>3
<1>5. t = <<CR, LF>>
  BY <1>4
<1> QED  BY <1>1, <1>2, <1>5 DEF EndsLine, CRLF

LEMMA ParseChunkIs ==
    ASSUME NEW s, NEW i, NEW e, e = Past(s, i, DOMAIN HexDigits),
           NEW n, n = HexNumber(SubSeq(s, i, e - 1))
    PROVE  ParseChunk(s, i) =
             IF e = i \/ e - i > 6 \/ ~EndsLine(s, e) \/ ~EndsLine(s, e + 2 + n)
             THEN [len |-> 0]
             ELSE [len |-> e + n + 4 - i, data |-> SubSeq(s, e + 2, e + 1 + n)]
BY Zenon DEF ParseChunk, EndsLine

(* A chunk lies within the text it is found in. *)
LEMMA ParseChunkType ==
    ASSUME NEW s \in Seq(Chars), NEW i \in 1..(Len(s) + 1)
    PROVE  /\ ParseChunk(s, i).len \in Nat
           /\ ParseChunk(s, i).len # 0 =>
                i + ParseChunk(s, i).len \in (i + 1)..(Len(s) + 1)
<1>1. PICK e : e = Past(s, i, DOMAIN HexDigits)  OBVIOUS
<1>2. PICK v : v = SubSeq(s, i, e - 1)  OBVIOUS
<1>3. PICK n : n = HexNumber(v)  OBVIOUS
<1>4. PICK l : l = Len(s)  OBVIOUS
<1>5. l \in Nat /\ i \in 1..(l + 1)
  BY <1>4, LenProperties
<1>6. e \in i..(l + 1) /\ \A j \in i..(e - 1) : s[j] \in DOMAIN HexDigits
  BY <1>1, <1>4, PastType
<1>7. v \in Seq(DOMAIN HexDigits)
  <2>1. i \in Int /\ e - 1 \in Int
    BY <1>5, <1>6
  <2> QED  BY <1>2, <1>6, <2>1, SubSeqProperties
<1>8. n \in Nat
  BY <1>3, <1>7, NumberType
<1>9. PICK c : c = ParseChunk(s, i)  OBVIOUS
<1>10. c = IF e = i \/ e - i > 6 \/ ~EndsLine(s, e) \/ ~EndsLine(s, e + 2 + n)
           THEN [len |-> 0]
           ELSE [len |-> e + n + 4 - i, data |-> SubSeq(s, e + 2, e + 1 + n)]
  BY <1>1, <1>2, <1>3, <1>9, ParseChunkIs
<1>11. CASE c = [len |-> 0]
  BY <1>9, <1>11
<1>12. CASE /\ EndsLine(s, e + 2 + n)
            /\ c = [len |-> e + n + 4 - i, data |-> SubSeq(s, e + 2, e + 1 + n)]
  <2>1. e + 2 + n + 1 <= l
    BY <1>4, <1>12 DEF EndsLine
  <2>2. c.len = e + n + 4 - i
    BY <1>12
  <2>3. c.len \in Nat /\ i + c.len \in (i + 1)..(l + 1)
    BY <1>5, <1>6, <1>8, <2>1, <2>2
  <2> QED  BY <1>4, <1>9, <2>3
<1> QED  BY <1>10, <1>11, <1>12

(* What is made of the chunk at i, f[j] being what is made of those from j on. *)
ChunkStep(f, s, i) ==
    LET c == ParseChunk(s, i)
    IN  IF c.len = 0 THEN [joined |-> <<>>, rest |-> i, zero |-> FALSE]
        ELSE IF c.data = <<>>
        THEN [joined |-> <<>>, rest |-> i + c.len, zero |-> TRUE]
        ELSE [f[i + c.len] EXCEPT !.joined = c.data \o @]

Chunks(f, s, a) == [i \in a..(Len(s) + 1) |-> ChunkStep(f, s, i)]

AllChunks(s) == CHOOSE f : f = Chunks(f, s, 1)

LEMMA CollapseIs ==
    ASSUME NEW s, NEW from, NEW front
    PROVE  Collapse(s, from, front) = [AllChunks(s)[from] EXCEPT !.joined = front \o @]
BY Zenon DEF Collapse, AllChunks, Chunks, ChunkStep

LEMMA SameStep ==
    ASSUME NEW s, NEW i, NEW f, NEW g,
           ParseChunk(s, i).len # 0 =>
             f[i + ParseChunk(s, i).len] = g[i + ParseChunk(s, i).len]
    PROVE  ChunkStep(f, s, i) = ChunkStep(g, s, i)
BY Zenon DEF ChunkStep

LEMMA ChunksMore ==
    ASSUME NEW s \in Seq(Chars), NEW a \in 1..(Len(s) + 1), NEW f, f = Chunks(f, s, a + 1)
    PROVE  \E g : g = Chunks(g, s, a)
<1>1. PICK l : l = Len(s) + 1  OBVIOUS
<1>2. l \in Nat /\ a \in 1..l
  BY <1>1, LenProperties
<1>3. PICK e : e = ChunkStep(f, s, a)  OBVIOUS
<1>4. PICK g : g = [i \in a..l |-> IF i = a THEN e ELSE f[i]]  OBVIOUS
<1>5. \A i \in (a + 1)..l : g[i] = f[i]
  BY <1>2, <1>4
<1>6. \A i \in a..l : ChunkStep(f, s, i) = ChunkStep(g, s, i)
  <2> TAKE i \in a..l
  <2>1. PICK j : j = i + ParseChunk(s, i).len  OBVIOUS
  <2>2. ParseChunk(s, i).len # 0 => j \in (i + 1)..l
    <3>1. i \in 1..(Len(s) + 1)
      BY <1>1, <1>2
    <3> QED  BY <1>1, <2>1, <3>1, ParseChunkType
  <2>3. ParseChunk(s, i).len # 0 => f[j] = g[j]
    BY <1>2, <1>5, <2>2
  <2> QED  BY <2>1, <2>3, SameStep
<1>7. \A i \in a..l : g[i] = ChunkStep(g, s, i)
  <2> TAKE i \in a..l
  <2>1. CASE i = a
    BY <1>2, <1>3, <1>4, <1>6, <2>1
  <2>2. CASE i # a
    <3>1. i \in (a + 1)..l
      BY <1>2, <2>2
    <3>2. f[i] = ChunkStep(f, s, i)
      BY <1>1, <3>1 DEF Chunks
    <3> QED  BY <1>5, <1>6, <3>1, <3>2
  <2> QED  BY <2>1, <2>2
<1>8. g = [i \in a..l |-> g[i]]
  BY <1>4
<1>9. g = Chunks(g, s, a)
  BY <1>1, <1>7, <1>8 DEF Chunks
<1> QED  BY <1>9

LEMMA ChunksAt ==
    ASSUME NEW s \in Seq(Chars), NEW i \in 1..(Len(s) + 1)
    PROVE  AllChunks(s)[i] = ChunkStep(AllChunks(s), s, i)
<1>1. PICK l : l = Len(s) + 1  OBVIOUS
<1>2. l \in Nat /\ l > 0
  BY <1>1, LenProperties
<1> DEFINE T == {m \in 0..l : \E f : f = Chunks(f, s, (l + 1) - m)}
<1>3. 0 \in T
  <2>1. \A f : Chunks(f, s, (l + 1) - 0) = <<>>
    BY <1>1, <1>2 DEF Chunks
  <2>2. Chunks(<<>>, s, (l + 1) - 0) = Chunks(Chunks(<<>>, s, (l + 1) - 0), s, (l + 1) - 0)
    BY <2>1
  <2> QED  BY <1>2, <2>2
<1>4. \A m \in 1..l : m - 1 \in T => m \in T
  <2> SUFFICES ASSUME NEW m \in 1..l, NEW f, f = Chunks(f, s, (l + 1) - (m - 1))
               PROVE  \E g : g = Chunks(g, s, (l + 1) - m)
    BY <1>2
  <2>1. PICK a : a = (l + 1) - m  OBVIOUS
  <2>2. a \in 1..l /\ a + 1 = (l + 1) - (m - 1)
    BY <1>2, <2>1
  <2>3. a \in 1..(Len(s) + 1) /\ f = Chunks(f, s, a + 1)
    BY <1>1, <2>2
  <2>4. \E g : g = Chunks(g, s, a)
    BY <2>3, ChunksMore
  <2> QED  BY <2>1, <2>4
<1> HIDE DEF T
<1>5. \A m \in 0..l : m \in T
  BY <1>2, <1>3, <1>4, Upwards
<1>6. l \in T /\ (l + 1) - l = 1
  BY <1>2, <1>5
<1>7. \E f : f = Chunks(f, s, 1)
  BY <1>6 DEF T
<1>8. AllChunks(s) = Chunks(AllChunks(s), s, 1)
  BY <1>7, Zenon DEF AllChunks
<1>9. PICK f : f = AllChunks(s)  OBVIOUS
<1>10. f = Chunks(f, s, 1)
  BY <1>8, <1>9
<1>11. f[i] = ChunkStep(f, s, i)
  BY <1>10 DEF Chunks
<1> QED  BY <1>9, <1>11

(* t is d as a chunk: its length m in h digits z, and the ends of line. *)
Shaped(t, z, h, d, m) ==
    /\ t \in Seq(Chars) /\ Len(t) = h + m + 4
    /\ z \in Seq(DOMAIN HexDigits) /\ Len(z) = h /\ h \in 1..6 /\ HexNumber(z) = m
    /\ d \in Seq(Chars) /\ Len(d) = m /\ m \in Nat
    /\ \A x \in 1..h : t[x] = z[x]
    /\ t[h + 1] = CR /\ t[h + 2] = LF
    /\ \A x \in 1..m : t[h + 2 + x] = d[x]
    /\ t[h + m + 3] = CR /\ t[h + m + 4] = LF

LEMMA ChunkShape ==
    ASSUME NEW d \in Seq(Chars), Sized(Len(d))
    PROVE  \E h \in 1..6 : Shaped(ChunkText(d), Size[Len(d)], h, d, Len(d))
<1>1. PICK z : z = Size[Len(d)]  OBVIOUS
<1>2. PICK h : h = Len(z)  OBVIOUS
<1>3. PICK m : m = Len(d)  OBVIOUS
<1>4. PICK e : e = CRLF  OBVIOUS
<1>5. m \in Nat /\ Len(e) = 2 /\ e[1] = CR /\ e[2] = LF
  BY <1>3, <1>4, LenProperties DEF CRLF
<1>6. /\ z \in Seq(DOMAIN HexDigits) /\ h \in 1..6 /\ HexNumber(z) = m
  BY <1>1, <1>2, <1>3 DEF Sized
<1>7. z \in Seq(Chars) /\ e \in Seq(Chars)
  <2>1. DOMAIN HexDigits \subseteq Chars /\ CR \in Chars /\ LF \in Chars
    BY PiecesAssumption DEF EOL
  <2>2. e = <<CR, LF>>
    BY <1>4 DEF CRLF
  <2>3. z \in Seq(Chars)
    <3>1. PICK D : D = DOMAIN HexDigits  OBVIOUS
    <3>2. z \in Seq(D) /\ D \subseteq Chars
      BY <1>6, <2>1, <3>1
    <3> QED  BY <3>2
  <2> QED  BY <2>1, <2>2, <2>3
<1>8. PICK b : b = z \o e  OBVIOUS
<1>9. PICK c : c = b \o d  OBVIOUS
<1>10. PICK t : t = c \o e  OBVIOUS
<1>11. t = ChunkText(d)
  BY <1>1, <1>4, <1>8, <1>9, <1>10, Zenon DEF ChunkText
<1>12. /\ t \in Seq(Chars)
       /\ Len(t) = Len(z) + Len(e) + Len(d) + Len(e)
       /\ \A j \in 1..Len(z) : t[j] = z[j]
       /\ \A j \in 1..Len(e) : t[Len(z) + j] = e[j]
       /\ \A j \in 1..Len(d) : t[Len(z) + Len(e) + j] = d[j]
       /\ \A j \in 1..Len(e) : t[Len(z) + Len(e) + Len(d) + j] = e[j]
  BY <1>7, <1>8, <1>9, <1>10, Layers
<1>13. /\ t \in Seq(Chars) /\ Len(t) = h + 2 + m + 2
       /\ \A j \in 1..h : t[j] = z[j]
       /\ \A j \in 1..2 : t[h + j] = e[j]
       /\ \A j \in 1..m : t[h + 2 + j] = d[j]
       /\ \A j \in 1..2 : t[h + 2 + m + j] = e[j]
  BY <1>2, <1>3, <1>5, <1>12, Zenon
<1>14. /\ t[h + 1] = CR /\ t[h + 2] = LF /\ t[h + m + 3] = CR /\ t[h + m + 4] = LF
       /\ Len(t) = h + m + 4
  BY <1>5, <1>6, <1>13
<1>15. Shaped(t, z, h, d, m)
  BY <1>2, <1>3, <1>5, <1>6, <1>13, <1>14, Zenon DEF Shaped
<1> QED  BY <1>1, <1>3, <1>6, <1>11, <1>15

(* The length of a chunk is read once the end of its line has begun. *)
LEMMA DigitsRead ==
    ASSUME NEW s \in Seq(Chars), NEW b \in Nat, NEW h \in Nat,
           NEW z \in Seq(DOMAIN HexDigits), Len(z) = h,
           Has(s, b, z, h), b + h + 1 <= Len(s), s[b + h + 1] = CR
    PROVE  /\ Past(s, b + 1, DOMAIN HexDigits) = b + h + 1
           /\ SubSeq(s, b + 1, b + h) = z
<1>1. PICK i : i = b + 1  OBVIOUS
<1>2. PICK e : e = b + h + 1  OBVIOUS
<1>3. PICK l : l = Len(s)  OBVIOUS
<1>4. l \in Nat /\ i \in Nat /\ e \in i..l /\ e <= Len(s) /\ 0 < i /\ e - 1 = b + h
  BY <1>1, <1>2, <1>3, LenProperties
<1>5. \A x \in 1..h : s[b + x] = z[x] /\ z[x] \in DOMAIN HexDigits
  BY ElementOfSeq DEF Has
<1>6. \A j \in i..(e - 1) : s[j] \in DOMAIN HexDigits
  <2> TAKE j \in i..(e - 1)
  <2>1. PICK x : x = j - b  OBVIOUS
  <2>2. x \in 1..h /\ j = b + x
    BY <1>1, <1>2, <1>4, <2>1
  <2> QED  BY <1>5, <2>2
<1>7. s[e] \notin DOMAIN HexDigits
  BY <1>2, HexType
<1>8. Past(s, i, DOMAIN HexDigits) = e
  <2>1. e \in i..(Len(s) + 1)
    BY <1>3, <1>4
  <2> QED  BY <1>4, <1>6, <1>7, <2>1, PastIs
<1>9. PICK v : v = SubSeq(s, i, b + h)  OBVIOUS
<1>10. v \in Seq(Chars) /\ Len(v) = h /\ \A x \in 1..h : v[x] = s[b + x]
  <2>1. PICK j : j = b + h  OBVIOUS
  <2>2. j \in Int /\ j <= Len(s) /\ j - i + 1 = h
    BY <1>1, <2>1
  <2>3. /\ SubSeq(s, i, j) \in Seq(Chars)
        /\ Len(SubSeq(s, i, j)) = IF i <= j THEN j - i + 1 ELSE 0
        /\ \A x \in 1..(j - i + 1) : SubSeq(s, i, j)[x] = s[i + x - 1]
    BY <1>4, <2>2, Piece
  <2>4. v \in Seq(Chars) /\ Len(v) = h
    BY <1>1, <1>9, <2>1, <2>2, <2>3
  <2>5. \A x \in 1..h : v[x] = s[b + x]
    <3> TAKE x \in 1..h
    <3>1. i + x - 1 = b + x
      BY <1>1
    <3> QED  BY <1>9, <2>1, <2>2, <2>3, <3>1
  <2> QED  BY <2>4, <2>5
<1>11. \A x \in 1..h : v[x] = z[x]
  BY <1>5, <1>10
<1>12. v = z
  BY <1>10, <1>11, SeqEqual
<1> QED  BY <1>1, <1>2, <1>8, <1>9, <1>12, Zenon

LEMMA WholeChunk ==
    ASSUME NEW s \in Seq(Chars), NEW b \in Nat, NEW t, NEW z, NEW h, NEW d, NEW m,
           Shaped(t, z, h, d, m), Has(s, b, t, h + m + 4), b + h + m + 4 <= Len(s)
    PROVE  ParseChunk(s, b + 1) = [len |-> h + m + 4, data |-> d]
<1>1. /\ z \in Seq(DOMAIN HexDigits) /\ Len(z) = h /\ h \in 1..6 /\ HexNumber(z) = m
      /\ d \in Seq(Chars) /\ Len(d) = m /\ m \in Nat
  BY DEF Shaped
<1>2. /\ \A x \in 1..h : t[x] = z[x]
      /\ t[h + 1] = CR /\ t[h + 2] = LF
      /\ \A x \in 1..m : t[h + 2 + x] = d[x]
      /\ t[h + m + 3] = CR /\ t[h + m + 4] = LF
  BY DEF Shaped
<1>3. PICK l : l = Len(s)  OBVIOUS
<1>4. l \in Nat /\ b + h + m + 4 <= l
  BY <1>3, LenProperties
<1>5. \A x \in 1..(h + m + 4) : s[b + x] = t[x]
  BY DEF Has
<1>6. Has(s, b, z, h)
  <2>1. \A x \in 1..h : s[b + x] = z[x]
    <3> TAKE x \in 1..h
    <3>1. x \in 1..(h + m + 4)
      BY <1>1
    <3> QED  BY <1>2, <1>5, <3>1
  <2> QED  BY <2>1, Zenon DEF Has
<1>7. PICK e : e = b + h + 1  OBVIOUS
<1>8. e \in Nat /\ e - 1 = b + h
  BY <1>1, <1>7
<1>9. s[e] = CR /\ s[e + 1] = LF
  <2>1. s[b + (h + 1)] = CR /\ s[b + (h + 2)] = LF
    BY <1>1, <1>2, <1>5
  <2>2. b + (h + 1) = e /\ b + (h + 2) = e + 1
    BY <1>1, <1>7
  <2> QED  BY <2>1, <2>2
<1>10. s[e + 2 + m] = CR /\ s[e + 2 + m + 1] = LF
  <2>1. s[b + (h + m + 3)] = CR /\ s[b + (h + m + 4)] = LF
    BY <1>1, <1>2, <1>5
  <2>2. b + (h + m + 3) = e + 2 + m /\ b + (h + m + 4) = e + 2 + m + 1
    BY <1>1, <1>7
  <2> QED  BY <2>1, <2>2
<1>11. Past(s, b + 1, DOMAIN HexDigits) = e /\ SubSeq(s, b + 1, e - 1) = z
  <2>1. h \in Nat /\ b + h + 1 <= Len(s) /\ s[b + h + 1] = CR
    BY <1>1, <1>3, <1>4, <1>7, <1>9
  <2>2. /\ Past(s, b + 1, DOMAIN HexDigits) = b + h + 1
        /\ SubSeq(s, b + 1, b + h) = z
    BY <1>1, <1>6, <2>1, DigitsRead
  <2> QED  BY <1>7, <1>8, <2>2
<1>12. EndsLine(s, e)
  <2>1. e \in 1..(Len(s) - 1)
    BY <1>1, <1>3, <1>4, <1>7
  <2> QED  BY <1>9, <2>1, EndsLineIs
<1>13. EndsLine(s, e + 2 + m)
  <2>1. e + 2 + m \in 1..(Len(s) - 1)
    BY <1>1, <1>3, <1>4, <1>7
  <2> QED  BY <1>10, <2>1, EndsLineIs
<1>14. PICK v : v = SubSeq(s, e + 2, e + 1 + m)  OBVIOUS
<1>15. v = d
  <2>1. PICK i : i = e + 2  OBVIOUS
  <2>2. PICK j : j = e + 1 + m  OBVIOUS
  <2>3. i \in Nat /\ 0 < i /\ j \in Int /\ j <= Len(s) /\ j - i + 1 = m
    <3>1. b \in Nat /\ h \in Nat /\ m \in Nat
      BY <1>1
    <3>2. i = b + h + 3 /\ j = b + h + m + 2
      BY <1>7, <2>1, <2>2, <3>1
    <3>3. j - i + 1 = m /\ i \in Nat /\ 0 < i /\ j \in Nat
      BY <3>1, <3>2
    <3>4. j <= Len(s)
      BY <1>3, <1>4, <3>1, <3>2
    <3> QED  BY <3>3, <3>4
  <2>4. /\ SubSeq(s, i, j) \in Seq(Chars)
        /\ Len(SubSeq(s, i, j)) = IF i <= j THEN j - i + 1 ELSE 0
        /\ \A x \in 1..(j - i + 1) : SubSeq(s, i, j)[x] = s[i + x - 1]
    BY <2>3, Piece
  <2>5. v \in Seq(Chars) /\ Len(v) = m
    <3>1. v = SubSeq(s, i, j)
      BY <1>14, <2>1, <2>2, Zenon
    <3>2. m \in Nat /\ i \in Nat /\ j \in Int /\ j - i + 1 = m
      BY <1>1, <2>3
    <3>3. Len(v) = IF i <= j THEN m ELSE 0
      BY <2>4, <3>1, <3>2, Zenon
    <3>4. i > j => m = 0
      BY <3>2
    <3> QED  BY <2>4, <3>1, <3>2, <3>3, <3>4
  <2>6. \A x \in 1..m : v[x] = d[x]
    <3> TAKE x \in 1..m
    <3>1. v[x] = s[i + x - 1]
      BY <1>14, <2>1, <2>2, <2>3, <2>4
    <3>2. i + x - 1 = b + (h + 2 + x) /\ h + 2 + x \in 1..(h + m + 4)
      BY <1>1, <1>7, <2>1
    <3> QED  BY <1>2, <1>5, <3>1, <3>2
  <2> QED  BY <1>1, <2>5, <2>6, SeqEqual
<1>16. PICK i : i = b + 1  OBVIOUS
<1>17. ParseChunk(s, i) =
         IF e = i \/ e - i > 6 \/ ~EndsLine(s, e) \/ ~EndsLine(s, e + 2 + m)
         THEN [len |-> 0]
         ELSE [len |-> e + m + 4 - i, data |-> v]
  <2>1. e = Past(s, i, DOMAIN HexDigits) /\ m = HexNumber(SubSeq(s, i, e - 1))
    BY <1>1, <1>11, <1>16, Zenon
  <2> QED  BY <1>14, <2>1, ParseChunkIs
<1>18. e # i /\ ~(e - i > 6) /\ e + m + 4 - i = h + m + 4
  BY <1>1, <1>7, <1>16
<1> QED  BY <1>12, <1>13, <1>15, <1>16, <1>17, <1>18, Zenon

LEMMA PartChunk ==
    ASSUME NEW s \in Seq(Chars), NEW b \in Nat, NEW t, NEW z, NEW h, NEW d, NEW m,
           Shaped(t, z, h, d, m), b <= Len(s), Len(s) < b + h + m + 4,
           Has(s, b, t, Len(s) - b)
    PROVE  ParseChunk(s, b + 1) = [len |-> 0]
<1>1. /\ z \in Seq(DOMAIN HexDigits) /\ Len(z) = h /\ h \in 1..6 /\ HexNumber(z) = m
      /\ d \in Seq(Chars) /\ Len(d) = m /\ m \in Nat
  BY DEF Shaped
<1>2. /\ \A x \in 1..h : t[x] = z[x]
      /\ t[h + 1] = CR
  BY DEF Shaped
<1>3. PICK l : l = Len(s)  OBVIOUS
<1>4. l \in Nat /\ b <= l /\ l < b + h + m + 4
  BY <1>3, LenProperties
<1>5. \A x \in 1..(l - b) : s[b + x] = t[x]
  BY <1>3 DEF Has
<1>6. PICK i : i = b + 1  OBVIOUS
<1>7. PICK e : e = Past(s, i, DOMAIN HexDigits)  OBVIOUS
<1>8. PICK n : n = HexNumber(SubSeq(s, i, e - 1))  OBVIOUS
<1>9. ParseChunk(s, i) =
         IF e = i \/ e - i > 6 \/ ~EndsLine(s, e) \/ ~EndsLine(s, e + 2 + n)
         THEN [len |-> 0]
         ELSE [len |-> e + n + 4 - i, data |-> SubSeq(s, e + 2, e + 1 + n)]
  BY <1>7, <1>8, ParseChunkIs
<1>10. CASE b + h + 1 <= l
  <2>1. Has(s, b, z, h)
    <3>1. \A x \in 1..h : s[b + x] = z[x]
      <4> TAKE x \in 1..h
      <4>1. x \in 1..(l - b)
        BY <1>1, <1>4, <1>10
      <4> QED  BY <1>2, <1>5, <4>1
    <3> QED  BY <3>1, Zenon DEF Has
  <2>2. s[b + h + 1] = CR
    <3>1. s[b + (h + 1)] = CR
      <4>1. h + 1 \in 1..(l - b)
        BY <1>1, <1>4, <1>10
      <4> QED  BY <1>2, <1>5, <4>1
    <3>2. b + (h + 1) = b + h + 1
      BY <1>1
    <3> QED  BY <3>1, <3>2
  <2>3. h \in Nat /\ b + h + 1 <= Len(s)
    BY <1>1, <1>3, <1>10
  <2>4. /\ Past(s, b + 1, DOMAIN HexDigits) = b + h + 1
        /\ SubSeq(s, b + 1, b + h) = z
    BY <1>1, <2>1, <2>2, <2>3, DigitsRead
  <2>5. e = b + h + 1 /\ e - 1 = b + h
    BY <1>1, <1>6, <1>7, <2>4
  <2>6. n = m
    BY <1>1, <1>6, <1>8, <2>4, <2>5
  <2>7. ~(e + 2 + n + 1 <= Len(s))
    BY <1>1, <1>3, <1>4, <2>5, <2>6
  <2>8. ~EndsLine(s, e + 2 + n)
    BY <2>7 DEF EndsLine
  <2> QED  BY <1>6, <1>9, <2>8, Zenon
<1>11. CASE b + h + 1 > l
  <2>1. \A j \in i..l : s[j] \in DOMAIN HexDigits
    <3> TAKE j \in i..l
    <3>1. PICK x : x = j - b  OBVIOUS
    <3>2. x \in 1..h /\ x \in 1..(l - b) /\ j = b + x
      BY <1>1, <1>4, <1>6, <1>11, <3>1
    <3>3. z[x] \in DOMAIN HexDigits
      BY <1>1, <3>2, ElementOfSeq
    <3> QED  BY <1>2, <1>5, <3>2, <3>3
  <2>2. e = l + 1
    <3>1. i \in Nat /\ l + 1 \in i..(Len(s) + 1) /\ ~(l + 1 <= Len(s)) /\ (l + 1) - 1 = l
      BY <1>3, <1>4, <1>6
    <3> QED  BY <1>7, <2>1, <3>1, PastIs
  <2>3. ~(e + 1 <= Len(s))
    BY <1>3, <1>4, <2>2
  <2>4. ~EndsLine(s, e)
    BY <2>3 DEF EndsLine
  <2> QED  BY <1>6, <1>9, <2>4, Zenon
<1> QED  BY <1>1, <1>4, <1>10, <1>11

-------------------------------------------------------------------------------
(* Where the chunks lie in what the peer sends *)

WithLast(p) == Append(p, <<>>)

ChunkTexts(p) == [i \in DOMAIN WithLast(p) |-> ChunkText(WithLast(p)[i])]

Stream(p) == FlattenSeq(ChunkTexts(p))

ChunkAt(p, k) == Len(Flat(ChunkTexts(p), k - 1))

LEMMA WithLastIs ==
    ASSUME NEW p \in Pieces
    PROVE  /\ p \in Seq(Seq(Chars)) /\ WithLast(p) \in Seq(Seq(Chars))
           /\ Len(WithLast(p)) = Len(p) + 1 /\ Len(p) \in Nat
           /\ \A k \in 1..Len(p) : WithLast(p)[k] = p[k] /\ p[k] \in Seq(Chars) /\ p[k] # <<>>
           /\ WithLast(p)[Len(p) + 1] = <<>>
           /\ \A k \in 1..(Len(p) + 1) : WithLast(p)[k] \in Seq(Chars) /\ Sized(Len(WithLast(p)[k]))
<1>1. /\ p \in Seq(Seq(Chars) \ {<<>>}) /\ Sized(0)
      /\ \A i \in DOMAIN p : Sized(Len(p[i]))
  BY PiecesAssumption
<1>2. Len(p) \in Nat /\ DOMAIN p = 1..Len(p) /\ \A k \in 1..Len(p) : p[k] \in Seq(Chars) \ {<<>>}
  BY <1>1, LenProperties, ElementOfSeq
<1>3. p \in Seq(Seq(Chars))
  BY <1>1, SeqMonotonic
<1>4. <<>> \in Seq(Chars) /\ Len(<<>>) = 0
  OBVIOUS
<1>5. /\ WithLast(p) \in Seq(Seq(Chars)) /\ Len(WithLast(p)) = Len(p) + 1
      /\ \A k \in 1..Len(p) : WithLast(p)[k] = p[k]
      /\ WithLast(p)[Len(p) + 1] = <<>>
  BY <1>3, <1>4, AppendProperties DEF WithLast
<1>6. \A k \in 1..(Len(p) + 1) : WithLast(p)[k] \in Seq(Chars) /\ Sized(Len(WithLast(p)[k]))
  <2> TAKE k \in 1..(Len(p) + 1)
  <2>1. CASE k = Len(p) + 1
    BY <1>1, <1>4, <1>5, <2>1, Zenon
  <2>2. CASE k \in 1..Len(p)
    BY <1>1, <1>2, <1>5, <2>2
  <2> QED  BY <1>2, <2>1, <2>2
<1> QED  BY <1>2, <1>3, <1>5, <1>6

LEMMA ChunkTextsAre ==
    ASSUME NEW p \in Pieces
    PROVE  /\ ChunkTexts(p) \in Seq(Seq(Chars)) /\ Len(ChunkTexts(p)) = Len(p) + 1
           /\ \A k \in 1..(Len(p) + 1) :
                \E h : Shaped(ChunkTexts(p)[k], Size[Len(WithLast(p)[k])], h, WithLast(p)[k],
                              Len(WithLast(p)[k]))
<1>1. PICK n : n = Len(p) + 1  OBVIOUS
<1>2. /\ Len(WithLast(p)) = n /\ n \in Nat /\ WithLast(p) \in Seq(Seq(Chars))
      /\ \A k \in 1..n : WithLast(p)[k] \in Seq(Chars) /\ Sized(Len(WithLast(p)[k]))
  <2>1. /\ Len(WithLast(p)) = Len(p) + 1 /\ WithLast(p) \in Seq(Seq(Chars))
        /\ \A k \in 1..(Len(p) + 1) : WithLast(p)[k] \in Seq(Chars) /\ Sized(Len(WithLast(p)[k]))
    BY WithLastIs, Zenon
  <2>2. Len(WithLast(p)) \in Nat
    BY <2>1, LenProperties
  <2> QED  BY <1>1, <2>1, <2>2, Zenon
<1>3. ChunkTexts(p) = [k \in 1..n |-> ChunkText(WithLast(p)[k])]
  <2>1. DOMAIN WithLast(p) = 1..n
    BY <1>2, LenProperties
  <2> QED  BY <2>1, Zenon DEF ChunkTexts
<1>4. \A k \in 1..n :
        /\ ChunkTexts(p)[k] \in Seq(Chars)
        /\ \E h : Shaped(ChunkTexts(p)[k], Size[Len(WithLast(p)[k])], h, WithLast(p)[k],
                         Len(WithLast(p)[k]))
  <2> TAKE k \in 1..n
  <2>1. PICK d : d = WithLast(p)[k]  OBVIOUS
  <2>2. d \in Seq(Chars) /\ Sized(Len(d)) /\ ChunkTexts(p)[k] = ChunkText(d)
    BY <1>2, <1>3, <2>1
  <2>3. PICK h \in 1..6 : Shaped(ChunkText(d), Size[Len(d)], h, d, Len(d))
    BY <2>2, ChunkShape
  <2>4. ChunkTexts(p)[k] \in Seq(Chars)
    BY <2>2, <2>3 DEF Shaped
  <2> QED  BY <2>1, <2>2, <2>3, <2>4, Zenon
<1>5. ChunkTexts(p) \in [1..n -> Seq(Chars)]
  BY <1>3, <1>4
<1>6. ChunkTexts(p) \in Seq(Seq(Chars)) /\ Len(ChunkTexts(p)) = n
  BY <1>2, <1>5, SeqDef, LenProperties
<1> QED  BY <1>1, <1>4, <1>6

LEMMA ChunkLengths ==
    ASSUME NEW p \in Pieces, NEW k \in 1..(Len(p) + 1)
    PROVE  /\ Len(WithLast(p)[k]) \in Nat
           /\ Len(ChunkTexts(p)[k]) \in Nat /\ Len(ChunkTexts(p)[k]) > 0
           /\ Len(WithLast(p)[k]) + 5 <= Len(ChunkTexts(p)[k])
<1>1. PICK m : m = Len(WithLast(p)[k])  OBVIOUS
<1>2. PICK t : t = ChunkTexts(p)[k]  OBVIOUS
<1>3. \E h : Shaped(t, Size[m], h, WithLast(p)[k], m)
  BY <1>1, <1>2, ChunkTextsAre
<1>4. Len(t) \in Nat /\ Len(t) > 0 /\ m \in Nat /\ m + 5 <= Len(t)
  BY <1>3 DEF Shaped
<1> QED  BY <1>1, <1>2, <1>4

LEMMA ChunksLie ==
    ASSUME NEW p \in Pieces
    PROVE  /\ Stream(p) \in Seq(Chars)
           /\ \A k \in 1..(Len(p) + 2) : ChunkAt(p, k) \in 0..Len(Stream(p))
           /\ ChunkAt(p, 1) = 0 /\ ChunkAt(p, Len(p) + 2) = Len(Stream(p))
           /\ \A k \in 1..(Len(p) + 1) :
                /\ ChunkAt(p, k + 1) = ChunkAt(p, k) + Len(ChunkTexts(p)[k])
                /\ Has(Stream(p), ChunkAt(p, k), ChunkTexts(p)[k], Len(ChunkTexts(p)[k]))
<1>1. PICK n : n = Len(p) + 1  OBVIOUS
<1>2. PICK t : t = ChunkTexts(p)  OBVIOUS
<1>3. n \in Nat /\ n > 0 /\ t \in Seq(Seq(Chars)) /\ Len(t) = n
  <2>1. Len(p) \in Nat
    BY WithLastIs
  <2> QED  BY <1>1, <1>2, <2>1, ChunkTextsAre
<1>4. PICK w : w = Stream(p)  OBVIOUS
<1>5. w = Flat(t, n)
  BY <1>2, <1>3, <1>4, FlattenIsFlat DEF Stream
<1>6. /\ Flat(t, 0) = <<>>
      /\ \A k \in 1..n : Flat(t, k) = Flat(t, k - 1) \o t[k]
      /\ \A k \in 0..n : Flat(t, k) \in Seq(Chars)
  BY <1>3, FlatSteps
<1>7. \A k \in 0..n : /\ Len(Flat(t, k)) \in 0..Len(w)
                      /\ \A x \in 1..Len(Flat(t, k)) : w[x] = Flat(t, k)[x]
  <2> TAKE k \in 0..n
  <2>1. n \in k..Len(t) /\ k \in 0..Len(t)
    BY <1>3
  <2>2. /\ Len(Flat(t, k)) <= Len(w)
        /\ \A x \in 1..Len(Flat(t, k)) : w[x] = Flat(t, k)[x]
    BY <1>3, <1>5, <2>1, FlatFront
  <2>3. Len(Flat(t, k)) \in Nat /\ Len(w) \in Nat
    BY <1>3, <1>5, <1>6, LenProperties
  <2> QED  BY <2>2, <2>3
<1>8. \A k \in 1..(n + 1) : ChunkAt(p, k) = Len(Flat(t, k - 1)) /\ k - 1 \in 0..n
  BY <1>2, <1>3 DEF ChunkAt
<1>9. \A k \in 1..(n + 1) : ChunkAt(p, k) \in 0..Len(w)
  BY <1>7, <1>8
<1>10. ChunkAt(p, 1) = 0
  BY <1>3, <1>6, <1>8, EmptySeq
<1>11. ChunkAt(p, n + 1) = Len(w)
  BY <1>3, <1>5, <1>8
<1>12. ASSUME NEW k \in 1..n
       PROVE  /\ ChunkAt(p, k + 1) = ChunkAt(p, k) + Len(t[k])
              /\ Has(w, ChunkAt(p, k), t[k], Len(t[k]))
  <2>1. PICK a : a = Flat(t, k - 1)  OBVIOUS
  <2>2. PICK b : b = Flat(t, k)  OBVIOUS
  <2>3. PICK u : u = t[k]  OBVIOUS
  <2>4. k - 1 \in 0..n /\ k \in 0..n /\ k \in 1..(n + 1) /\ k + 1 \in 1..(n + 1)
        /\ (k + 1) - 1 = k
    BY <1>3
  <2>5. a \in Seq(Chars) /\ u \in Seq(Chars) /\ b = a \o u
    BY <1>3, <1>6, <2>1, <2>2, <2>3, <2>4, ElementOfSeq
  <2>6. /\ Len(a) \in Nat /\ Len(u) \in Nat /\ Len(b) = Len(a) + Len(u)
        /\ \A j \in 1..Len(u) : b[Len(a) + j] = u[j]
    BY <2>5, JoinsAs
  <2>7. ChunkAt(p, k) = Len(a) /\ ChunkAt(p, k + 1) = Len(b)
    BY <1>8, <2>1, <2>2, <2>4
  <2>8. \A x \in 1..Len(b) : w[x] = b[x]
    BY <1>7, <2>2, <2>4
  <2>9. \A j \in 1..Len(u) : w[Len(a) + j] = u[j]
    <3> TAKE j \in 1..Len(u)
    <3>1. Len(a) + j \in 1..Len(b)
      BY <2>6
    <3> QED  BY <2>6, <2>8, <3>1
  <2>10. Has(w, Len(a), u, Len(u))
    BY <2>9, Zenon DEF Has
  <2> QED  BY <2>3, <2>6, <2>7, <2>10
<1>13. n + 1 = Len(p) + 2
  <2>1. Len(p) \in Nat
    BY WithLastIs
  <2> QED  BY <1>1, <2>1
<1>14. w \in Seq(Chars)
  BY <1>3, <1>5, <1>6
<1> QED  BY <1>1, <1>2, <1>4, <1>9, <1>10, <1>11, <1>12, <1>13, <1>14, Zenon

(* What the bodies' data come to. *)
LEMMA DataLies ==
    ASSUME NEW p \in Pieces
    PROVE  /\ Flat(p, 0) = <<>> /\ FlattenSeq(p) = Flat(p, Len(p))
           /\ \A k \in 1..Len(p) : Flat(p, k) = Flat(p, k - 1) \o p[k]
           /\ \A k \in 0..Len(p) : /\ Flat(p, k) \in Seq(Chars)
                                   /\ SubSeq(Flat(p, Len(p)), 1, Len(Flat(p, k))) = Flat(p, k)
<1>1. p \in Seq(Seq(Chars)) /\ Len(p) \in Nat
  BY WithLastIs
<1>2. /\ Flat(p, 0) = <<>>
      /\ \A k \in 1..Len(p) : Flat(p, k) = Flat(p, k - 1) \o p[k]
      /\ \A k \in 0..Len(p) : Flat(p, k) \in Seq(Chars)
  BY <1>1, FlatSteps
<1>3. ASSUME NEW k \in 0..Len(p)
      PROVE  SubSeq(Flat(p, Len(p)), 1, Len(Flat(p, k))) = Flat(p, k)
  <2>1. PICK f : f = Flat(p, k)  OBVIOUS
  <2>2. PICK g : g = Flat(p, Len(p))  OBVIOUS
  <2>3. f \in Seq(Chars) /\ g \in Seq(Chars)
    BY <1>1, <1>2, <2>1, <2>2
  <2>4. Len(f) <= Len(g) /\ \A x \in 1..Len(f) : g[x] = f[x]
    <3>1. Len(p) \in k..Len(p)
      BY <1>1
    <3> QED  BY <1>1, <2>1, <2>2, <3>1, FlatFront
  <2>5. PICK l : l = Len(f)  OBVIOUS
  <2>6. l \in Nat
    BY <2>3, <2>5, LenProperties
  <2>7. PICK v : v = SubSeq(g, 1, l)  OBVIOUS
  <2>8. /\ v \in Seq(Chars) /\ Len(v) = IF 1 <= l THEN l - 1 + 1 ELSE 0
        /\ \A x \in 1..(l - 1 + 1) : v[x] = g[1 + x - 1]
    BY <2>3, <2>4, <2>5, <2>6, <2>7, Piece
  <2>9. Len(v) = l /\ \A x \in 1..l : v[x] = f[x]
    BY <2>4, <2>5, <2>6, <2>8
  <2>10. v = f
    BY <2>3, <2>5, <2>8, <2>9, SeqEqual
  <2> QED  BY <2>1, <2>2, <2>5, <2>7, <2>10
<1>4. FlattenSeq(p) = Flat(p, Len(p))
  BY <1>1, FlattenIsFlat
<1> QED  BY <1>2, <1>3, <1>4

-------------------------------------------------------------------------------
(* What is made of a buffer: data joined, then what has come of the rest *)

Buffer(f, w, a, u) == f \o SubSeq(w, a + 1, u)

Buffers(S) ==
    \A f \in Seq(S), w \in Seq(S), a \in Nat : \A u \in a..Len(w) :
           /\ Buffer(f, w, a, u) \in Seq(S)
           /\ Len(f) \in Nat /\ Len(Buffer(f, w, a, u)) = Len(f) + (u - a)
           /\ \A x \in 1..Len(f) : Buffer(f, w, a, u)[x] = f[x]
           /\ \A x \in 1..(u - a) : Buffer(f, w, a, u)[Len(f) + x] = w[a + x]

LEMMA BufferedOf == \A S : Buffers(S)
<1> SUFFICES
      ASSUME NEW S, NEW f \in Seq(S), NEW w \in Seq(S), NEW a \in Nat, NEW u \in a..Len(w)
      PROVE  /\ Buffer(f, w, a, u) \in Seq(S)
             /\ Len(f) \in Nat /\ Len(Buffer(f, w, a, u)) = Len(f) + (u - a)
             /\ \A x \in 1..Len(f) : Buffer(f, w, a, u)[x] = f[x]
             /\ \A x \in 1..(u - a) : Buffer(f, w, a, u)[Len(f) + x] = w[a + x]
  BY DEF Buffers
<1>1. PICK v : v = SubSeq(w, a + 1, u)  OBVIOUS
<1>2. PICK s : s = f \o v  OBVIOUS
<1>3. u \in Nat /\ a <= u /\ u <= Len(w)
  BY LenProperties
<1>4. PICK i : i = a + 1  OBVIOUS
<1>5. i \in Nat /\ 0 < i /\ u \in Int
  BY <1>3, <1>4
<1>6. /\ SubSeq(w, i, u) \in Seq(S)
      /\ Len(SubSeq(w, i, u)) = IF i <= u THEN u - i + 1 ELSE 0
      /\ \A x \in 1..(u - i + 1) : SubSeq(w, i, u)[x] = w[i + x - 1]
  BY <1>3, <1>5, PieceOf
<1>7. v \in Seq(S) /\ Len(v) = u - a
  BY <1>1, <1>3, <1>4, <1>6
<1>8. \A x \in 1..(u - a) : v[x] = w[a + x]
  <2> TAKE x \in 1..(u - a)
  <2>1. x \in 1..(u - i + 1) /\ i + x - 1 = a + x
    BY <1>3, <1>4
  <2> QED  BY <1>1, <1>4, <1>6, <2>1
<1>9. /\ s \in Seq(S) /\ Len(f) \in Nat
      /\ Len(s) = Len(f) + Len(v)
      /\ \A x \in 1..Len(f) : s[x] = f[x]
      /\ \A x \in 1..Len(v) : s[Len(f) + x] = v[x]
  <2>1. v \in Seq(S)
    BY <1>7
  <2> QED  BY <1>2, <2>1, JoinsAs
<1>10. Buffer(f, w, a, u) = s
  BY <1>1, <1>2 DEF Buffer
<1> QED  BY <1>7, <1>8, <1>9, <1>10

LEMMA Buffered ==
    ASSUME NEW f \in Seq(Chars), NEW w \in Seq(Chars), NEW a \in Nat, NEW u \in a..Len(w)
    PROVE  /\ Buffer(f, w, a, u) \in Seq(Chars)
           /\ Len(f) \in Nat /\ Len(Buffer(f, w, a, u)) = Len(f) + (u - a)
           /\ \A x \in 1..Len(f) : Buffer(f, w, a, u)[x] = f[x]
           /\ \A x \in 1..(u - a) : Buffer(f, w, a, u)[Len(f) + x] = w[a + x]
<1>1. Buffers(Chars)  BY BufferedOf
<1> QED  BY <1>1 DEF Buffers

(* What follows a place of the stream, in the buffer. *)
Rests(S) ==
    \A f \in Seq(S), w \in Seq(S), a \in Nat : \A u \in a..Len(w) : \A s : \A g \in a..u :
        s = Buffer(f, w, a, u) =>
            SubSeq(s, ((Len(f) + g) - a) + 1, Len(s)) = SubSeq(w, g + 1, u)

LEMMA RestOf == \A S : Rests(S)
<1> TAKE S
<1> SUFFICES ASSUME NEW f \in Seq(S), NEW w \in Seq(S), NEW a \in Nat, NEW u \in a..Len(w),
                    NEW s, NEW g \in a..u, s = Buffer(f, w, a, u)
             PROVE  SubSeq(s, ((Len(f) + g) - a) + 1, Len(s)) = SubSeq(w, g + 1, u)
  BY Zenon DEF Rests
<1>1. PICK o : o = Len(f)  OBVIOUS
<1>2. PICK b : b = u - a  OBVIOUS
<1>3. PICK d : d = g - a  OBVIOUS
<1>4. /\ o \in Nat /\ b \in Nat /\ d \in Nat /\ d <= b
      /\ u = a + b /\ g = a + d /\ a + b <= Len(w)
  BY <1>1, <1>2, <1>3, LenProperties
<1>5. /\ s \in Seq(S) /\ Len(s) = o + b
      /\ \A x \in 1..b : s[o + x] = w[a + x]
  <2>1. /\ Buffer(f, w, a, u) \in Seq(S)
        /\ Len(Buffer(f, w, a, u)) = Len(f) + (u - a)
        /\ \A x \in 1..(u - a) : Buffer(f, w, a, u)[Len(f) + x] = w[a + x]
    <3>1. Buffers(S)  BY BufferedOf
    <3> QED  BY <3>1 DEF Buffers
  <2> QED  BY <1>1, <1>2, <2>1, Zenon
<1>6. PICK i : i = ((o + g) - a) + 1  OBVIOUS
<1>7. PICK h : h = g + 1  OBVIOUS
<1>8. i = o + d + 1 /\ h = a + d + 1
  BY <1>4, <1>6, <1>7
<1>9. PICK l : l = o + b  OBVIOUS
<1>10. PICK n : n = b - d  OBVIOUS
<1>11. /\ i \in Nat /\ 0 < i /\ h \in Nat /\ 0 < h /\ l \in Nat /\ n \in Nat /\ b = d + n
  BY <1>4, <1>8, <1>9, <1>10
<1>12. /\ l - i + 1 = n /\ u - h + 1 = n /\ (i <= l <=> n > 0) /\ (h <= u <=> n > 0)
  BY <1>4, <1>8, <1>9, <1>11
<1>13. PICK v : v = SubSeq(s, i, l)  OBVIOUS
<1>14. PICK t : t = SubSeq(w, h, u)  OBVIOUS
<1>15. /\ v \in Seq(S) /\ Len(v) = n
       /\ \A y \in 1..n : v[y] = s[i + y - 1]
  <2>1. l \in Int /\ l <= Len(s)
    BY <1>5, <1>9, <1>11
  <2>2. /\ SubSeq(s, i, l) \in Seq(S)
        /\ Len(SubSeq(s, i, l)) = IF i <= l THEN l - i + 1 ELSE 0
        /\ \A x \in 1..(l - i + 1) : SubSeq(s, i, l)[x] = s[i + x - 1]
    BY <1>5, <1>11, <2>1, PieceOf
  <2> QED  BY <1>11, <1>12, <1>13, <2>2
<1>16. /\ t \in Seq(S) /\ Len(t) = n
       /\ \A y \in 1..n : t[y] = w[h + y - 1]
  <2>1. u \in Int /\ u <= Len(w)
    BY <1>4
  <2>2. /\ SubSeq(w, h, u) \in Seq(S)
        /\ Len(SubSeq(w, h, u)) = IF h <= u THEN u - h + 1 ELSE 0
        /\ \A x \in 1..(u - h + 1) : SubSeq(w, h, u)[x] = w[h + x - 1]
    BY <1>11, <2>1, PieceOf
  <2> QED  BY <1>11, <1>12, <1>14, <2>2
<1>17. \A y \in 1..n : v[y] = t[y]
  <2> TAKE y \in 1..n
  <2>1. d + y \in 1..b /\ i + y - 1 = o + (d + y) /\ h + y - 1 = a + (d + y)
    BY <1>4, <1>8, <1>11
  <2> QED  BY <1>5, <1>15, <1>16, <2>1
<1>18. v = t
  BY <1>15, <1>16, <1>17, SeqEqual
<1> QED  BY <1>1, <1>5, <1>6, <1>7, <1>9, <1>13, <1>14, <1>18

LEMMA Rest ==
    ASSUME NEW f \in Seq(Chars), NEW w \in Seq(Chars), NEW a \in Nat, NEW u \in a..Len(w),
           NEW s, s = Buffer(f, w, a, u), NEW g \in a..u
    PROVE  SubSeq(s, ((Len(f) + g) - a) + 1, Len(s)) = SubSeq(w, g + 1, u)
<1>1. Rests(Chars)  BY RestOf
<1> QED  BY <1>1 DEF Rests

LEMMA Moved ==
    ASSUME NEW f \in Seq(Chars), NEW w \in Seq(Chars), NEW a \in Nat, NEW u \in a..Len(w),
           NEW s, s = Buffer(f, w, a, u), NEW c \in a..u, NEW n \in 0..(u - c), NEW t,
           Has(w, c, t, n)
    PROVE  Has(s, (Len(f) + c) - a, t, n)
<1>1. PICK o : o = Len(f)  OBVIOUS
<1>2. u \in Nat /\ a <= u /\ c \in Nat /\ a <= c /\ n \in Nat /\ c + n <= u /\ o \in Nat
  BY <1>1, LenProperties
<1>3. \A x \in 1..(u - a) : s[o + x] = w[a + x]
  BY <1>1, Buffered
<1>4. \A x \in 1..n : w[c + x] = t[x]
  BY Zenon DEF Has
<1>5. PICK q : q = (o + c) - a  OBVIOUS
<1>6. \A x \in 1..n : s[q + x] = t[x]
  <2> TAKE x \in 1..n
  <2>1. PICK y : y = (c - a) + x  OBVIOUS
  <2>2. y \in 1..(u - a) /\ o + y = q + x /\ a + y = c + x
    BY <1>2, <1>5, <2>1
  <2> QED  BY <1>3, <1>4, <2>2
<1>7. Has(s, q, t, n)
  BY <1>6, Zenon DEF Has
<1> QED  BY <1>1, <1>5, <1>7

(* The place in the buffer of the k-th chunk, the first j being joined. *)
LEMMA ChunkFound ==
    ASSUME NEW p \in Pieces, NEW f \in Seq(Chars), NEW a \in Nat,
           NEW u \in a..Len(Stream(p)), NEW s, s = Buffer(f, Stream(p), a, u),
           NEW k \in 1..(Len(p) + 1), ChunkAt(p, k) \in a..u,
           NEW q, q = (Len(f) + ChunkAt(p, k)) - a
    PROVE  /\ s \in Seq(Chars) /\ q \in 0..Len(s) /\ Len(s) = (Len(f) + u) - a
           /\ ChunkAt(p, k + 1) <= u =>
                ParseChunk(s, q + 1) =
                  [len |-> ChunkAt(p, k + 1) - ChunkAt(p, k), data |-> WithLast(p)[k]]
           /\ u < ChunkAt(p, k + 1) => ParseChunk(s, q + 1) = [len |-> 0]
<1>1. PICK o : o = Len(f)  OBVIOUS
<1>2. PICK w : w = Stream(p)  OBVIOUS
<1>3. PICK c : c = ChunkAt(p, k)  OBVIOUS
<1>4. PICK e : e = ChunkAt(p, k + 1)  OBVIOUS
<1>5. PICK t : t = ChunkTexts(p)[k]  OBVIOUS
<1>6. PICK d : d = WithLast(p)[k]  OBVIOUS
<1>7. PICK z : z = Size[Len(d)]  OBVIOUS
<1>8. PICK m : m = Len(d)  OBVIOUS
<1>9. \E h : Shaped(t, z, h, d, m)
  BY <1>5, <1>6, <1>7, <1>8, ChunkTextsAre
<1>10. PICK h : Shaped(t, z, h, d, m)
  BY <1>9
<1>11. Len(t) = h + m + 4 /\ h \in 1..6 /\ m \in Nat
  BY <1>10 DEF Shaped
<1>12. /\ w \in Seq(Chars) /\ e = c + Len(t) /\ Has(w, c, t, Len(t))
  BY <1>2, <1>3, <1>4, <1>5, ChunksLie
<1>13. /\ u \in Nat /\ a <= u /\ c \in Nat /\ a <= c /\ c <= u /\ o \in Nat /\ u \in a..Len(w)
       /\ c \in a..u
  BY <1>1, <1>2, <1>3, <1>12, LenProperties
<1>14. s \in Seq(Chars) /\ Len(s) = o + (u - a)
  BY <1>1, <1>2, <1>12, <1>13, Buffered
<1>15. q = (o + c) - a /\ q \in Nat /\ q <= Len(s) /\ Len(s) = (o + u) - a
       /\ Len(s) - q = u - c
  <2>1. PICK g : g = Len(s)  OBVIOUS
  <2>2. PICK r : r = (o + c) - a  OBVIOUS
  <2>3. g = o + (u - a)
    BY <1>14, <2>1
  <2>4. r \in Nat /\ r <= g /\ g = (o + u) - a /\ g - r = u - c
    BY <1>13, <2>2, <2>3
  <2>5. q = r
    BY <1>1, <1>3, <2>2
  <2> QED  BY <2>1, <2>2, <2>4, <2>5, Zenon
<1>16. ASSUME e <= u
       PROVE  ParseChunk(s, q + 1) = [len |-> e - c, data |-> d]
  <2>1. PICK n : n = h + m + 4  OBVIOUS
  <2>2. n \in 0..(u - c) /\ e = c + n /\ e - c = n /\ n \in Nat /\ q + h + m + 4 <= Len(s)
    <3>1. PICK g : g = Len(s)  OBVIOUS
    <3>2. q \in Nat /\ g = (o + u) - a /\ g - q = u - c
      BY <1>15, <3>1
    <3>3. e = c + n /\ n \in Nat
      BY <1>11, <1>12, <2>1
    <3>4. n \in 0..(u - c) /\ e - c = n
      BY <1>13, <1>16, <3>3
    <3>5. q + n <= g
      <4>1. g \in Int /\ n <= g - q
        BY <1>13, <3>2, <3>4
      <4> QED  BY <3>2, <3>3, <4>1
    <3>6. q + h + m + 4 = q + n
      <4>1. q \in Nat /\ h \in Nat /\ m \in Nat
        BY <1>11, <3>2
      <4> QED  BY <2>1, <4>1
    <3> QED  BY <3>1, <3>3, <3>4, <3>5, <3>6
  <2>3. Has(w, c, t, n)
    BY <1>11, <1>12, <2>1, Zenon
  <2>4. Has(s, (Len(f) + c) - a, t, n)
    <3>1. w \in Seq(Chars) /\ u \in a..Len(w) /\ c \in a..u /\ n \in 0..(u - c)
      BY <1>12, <1>13, <2>2, Zenon
    <3>2. s = Buffer(f, w, a, u)
      BY <1>2
    <3> QED  BY <2>3, <3>1, <3>2, Moved
  <2>5. Has(s, q, t, n)
    BY <1>1, <1>15, <2>4, Zenon
  <2>6. ParseChunk(s, q + 1) = [len |-> h + m + 4, data |-> d]
    <3>1. Has(s, q, t, h + m + 4)
      BY <2>1, <2>5
    <3>2. s \in Seq(Chars) /\ q \in Nat /\ q + h + m + 4 <= Len(s)
      BY <1>14, <1>15, <2>2
    <3> QED  BY <1>10, <3>1, <3>2, WholeChunk
  <2> QED  BY <2>1, <2>2, <2>6, Zenon
<1>17. ASSUME u < e
       PROVE  ParseChunk(s, q + 1) = [len |-> 0]
  <2>1. PICK n : n = u - c  OBVIOUS
  <2>2. n \in 0..(u - c) /\ n <= Len(t) /\ n = Len(s) - q /\ Len(s) < q + h + m + 4
        /\ Len(t) \in Nat
    <3>1. PICK g : g = Len(s)  OBVIOUS
    <3>2. q \in Nat /\ g = (o + u) - a /\ g - q = u - c
      BY <1>15, <3>1
    <3>3. PICK y : y = Len(t)  OBVIOUS
    <3>4. e = c + y /\ y \in Nat /\ y = h + m + 4
      BY <1>11, <1>12, <3>3
    <3>5. n \in 0..(u - c) /\ n <= y /\ n = g - q /\ u < c + y
      BY <1>13, <1>17, <2>1, <3>2, <3>4
    <3>6. g < q + y /\ q + y = q + h + m + 4
      <4>1. q \in Nat /\ h \in Nat /\ m \in Nat
        BY <1>11, <3>2
      <4>2. q + y = q + h + m + 4
        BY <3>4, <4>1
      <4>3. g \in Int
        BY <1>13, <3>2
      <4>4. u - c < y
        BY <1>13, <1>17, <3>4
      <4>5. g - q < y
        BY <3>2, <4>4
      <4> QED  BY <3>4, <4>1, <4>2, <4>3, <4>5
    <3> QED  BY <3>1, <3>3, <3>4, <3>5, <3>6
  <2>3. \A x \in 1..Len(t) : w[c + x] = t[x]
    BY <1>12, Zenon DEF Has
  <2>4. \A x \in 1..n : w[c + x] = t[x]
    BY <2>2, <2>3
  <2>5. Has(w, c, t, n)
    BY <2>4, Zenon DEF Has
  <2>6. Has(s, (Len(f) + c) - a, t, n)
    BY <1>2, <1>12, <1>13, <2>2, <2>5, Moved
  <2>7. Has(s, q, t, Len(s) - q)
    BY <1>1, <1>15, <2>2, <2>6, Zenon
  <2> QED  BY <1>10, <1>14, <1>15, <2>2, <2>7, PartChunk
<1> QED  BY <1>1, <1>3, <1>4, <1>6, <1>14, <1>15, <1>16, <1>17

LEMMA Regroup ==
    \A v, w, x \in Seq(Chars) : v \o (w \o x) = (v \o w) \o x
BY ConcatAssociative

Makes(p, u, s, k, q, r) ==
    /\ u < ChunkAt(p, k + 1) =>
         AllChunks(s)[q + 1] = [joined |-> <<>>, rest |-> q + 1, zero |-> FALSE]
    /\ ChunkAt(p, k + 1) <= u /\ k = Len(p) + 1 =>
         AllChunks(s)[q + 1] = [joined |-> <<>>, rest |-> r + 1, zero |-> TRUE]
    /\ ChunkAt(p, k + 1) <= u /\ k \in 1..Len(p) =>
         AllChunks(s)[q + 1] = [AllChunks(s)[r + 1] EXCEPT !.joined = p[k] \o @]

LEMMA ChunkMade ==
    ASSUME NEW p \in Pieces, NEW f \in Seq(Chars), NEW a \in Nat,
           NEW u \in a..Len(Stream(p)), NEW s, s = Buffer(f, Stream(p), a, u),
           NEW k \in 1..(Len(p) + 1), ChunkAt(p, k) \in a..u,
           NEW q, q = (Len(f) + ChunkAt(p, k)) - a,
           NEW r, r = (Len(f) + ChunkAt(p, k + 1)) - a
    PROVE  Makes(p, u, s, k, q, r)
<1>1. PICK d : d = WithLast(p)[k]  OBVIOUS
<1>2. PICK c : c = ChunkAt(p, k)  OBVIOUS
<1>3. PICK e : e = ChunkAt(p, k + 1)  OBVIOUS
<1>4. PICK o : o = Len(f)  OBVIOUS
<1>5. /\ s \in Seq(Chars) /\ q \in 0..Len(s)
      /\ e <= u => ParseChunk(s, q + 1) = [len |-> e - c, data |-> d]
      /\ u < e => ParseChunk(s, q + 1) = [len |-> 0]
  BY <1>1, <1>2, <1>3, ChunkFound
<1>6. PICK i : i = q + 1  OBVIOUS
<1>7. i \in 1..(Len(s) + 1)
  <2>1. Len(s) \in Nat
    BY <1>5, LenProperties
  <2> QED  BY <1>5, <1>6, <2>1
<1>8. AllChunks(s)[i] = ChunkStep(AllChunks(s), s, i)
  BY <1>5, <1>7, ChunksAt
<1>9. o \in Nat /\ c \in Nat /\ e \in Nat /\ e - c > 0 /\ q = (o + c) - a /\ r = (o + e) - a
  <2>1. c \in Nat /\ e = c + Len(ChunkTexts(p)[k])
    <3>1. k \in 1..(Len(p) + 2)
      <4>1. Len(p) \in Nat
        BY WithLastIs
      <4> QED  BY <4>1
    <3>2. /\ ChunkAt(p, k) \in 0..Len(Stream(p))
          /\ ChunkAt(p, k + 1) = ChunkAt(p, k) + Len(ChunkTexts(p)[k])
      BY <3>1, ChunksLie
    <3> QED  BY <1>2, <1>3, <3>2
  <2>2. Len(ChunkTexts(p)[k]) \in Nat /\ Len(ChunkTexts(p)[k]) > 0
    BY ChunkLengths, Zenon
  <2>3. o \in Nat
    BY <1>4, LenProperties
  <2>4. e \in Nat /\ e - c > 0
    BY <2>1, <2>2
  <2>5. q = (o + c) - a /\ r = (o + e) - a
    BY <1>2, <1>3, <1>4, Zenon
  <2> QED  BY <2>1, <2>3, <2>4, <2>5, Zenon
<1>10. i + (e - c) = r + 1
  <2>1. PICK g : g = e - c  OBVIOUS
  <2>2. g \in Int /\ e = c + g
    BY <1>9, <2>1
  <2>3. r = q + g /\ q \in Int
    <3>1. PICK y : y = o + c  OBVIOUS
    <3>2. y \in Nat /\ o + e = y + g
      BY <1>9, <2>2, <3>1
    <3>3. q = y - a /\ r = (y + g) - a
      BY <1>9, <3>1, <3>2
    <3>4. (y + g) - a = (y - a) + g /\ y - a \in Int
      BY <2>2, <3>2
    <3> QED  BY <3>3, <3>4, Zenon
  <2> QED  BY <1>6, <2>1, <2>2, <2>3
<1>11. ASSUME u < e
       PROVE  AllChunks(s)[i] = [joined |-> <<>>, rest |-> i, zero |-> FALSE]
  <2>1. ParseChunk(s, i) = [len |-> 0]
    BY <1>5, <1>6, <1>11
  <2>2. ParseChunk(s, i).len = 0
    BY <2>1
  <2> QED  BY <1>8, <2>2, Zenon DEF ChunkStep
<1>12. ASSUME e <= u
       PROVE  AllChunks(s)[i] =
                IF d = <<>> THEN [joined |-> <<>>, rest |-> r + 1, zero |-> TRUE]
                ELSE [AllChunks(s)[r + 1] EXCEPT !.joined = d \o @]
  <2>1. ParseChunk(s, i) = [len |-> e - c, data |-> d]
    BY <1>5, <1>6, <1>12
  <2>2. ParseChunk(s, i).len = e - c /\ ParseChunk(s, i).data = d
    BY <2>1
  <2>3. ParseChunk(s, i).len # 0
    BY <1>9, <2>2
  <2>4. i + ParseChunk(s, i).len = r + 1
    BY <1>10, <2>2
  <2> QED  BY <1>8, <2>2, <2>3, <2>4, Zenon DEF ChunkStep
<1>13. k = Len(p) + 1 => d = <<>>
  BY <1>1, WithLastIs
<1>14. k \in 1..Len(p) => d = p[k] /\ d # <<>>
  BY <1>1, WithLastIs
<1> QED  BY <1>3, <1>6, <1>11, <1>12, <1>13, <1>14, Zenon DEF Makes

(* The first m chunks have come whole, and the one after them has not. *)
WholeUpTo(p, m, u) ==
    IF m = Len(p) + 1 THEN u = Len(Stream(p))
    ELSE ChunkAt(p, m + 1) <= u /\ u < ChunkAt(p, m + 2)

(* What scanning from the k-th chunk on makes of the buffer. *)
Outcome(p, f, a, u, s, k, m, x) ==
    /\ x \in Seq(Chars)
    /\ WholeUpTo(p, m, u)
    /\ AllChunks(s)[((Len(f) + ChunkAt(p, k)) - a) + 1] =
         [joined |-> x, rest |-> ((Len(f) + ChunkAt(p, m + 1)) - a) + 1, zero |-> m = Len(p) + 1]
    /\ Flat(p, k - 1) \o x = Flat(p, IF m = Len(p) + 1 THEN Len(p) ELSE m)

Scans(p, f, a, u, s, k) ==
    \E m \in (k - 1)..(Len(p) + 1) : \E x : Outcome(p, f, a, u, s, k, m, x)

LEMMA ScanStep ==
    ASSUME NEW p \in Pieces, NEW f \in Seq(Chars), NEW a \in Nat,
           NEW u \in a..Len(Stream(p)), NEW s, s = Buffer(f, Stream(p), a, u),
           NEW k \in 1..(Len(p) + 1), ChunkAt(p, k) \in a..u,
           k \in 1..Len(p) /\ ChunkAt(p, k + 1) \in a..u => Scans(p, f, a, u, s, k + 1)
    PROVE  Scans(p, f, a, u, s, k)
<1>1. PICK n : n = Len(p)  OBVIOUS
<1>2. PICK c : c = ChunkAt(p, k)  OBVIOUS
<1>3. PICK e : e = ChunkAt(p, k + 1)  OBVIOUS
<1>4. PICK l : l = Len(Stream(p))  OBVIOUS
<1>5. n \in Nat /\ k \in 1..(n + 1) /\ k \in Nat
  <2>1. n \in Nat
    BY <1>1, WithLastIs
  <2> QED  BY <1>1, <2>1
<1>6. /\ c \in Nat /\ e \in 0..l /\ l \in Nat /\ u \in Nat
      /\ a <= u /\ u <= l /\ a <= c /\ c <= u /\ c <= e
  <2>1. l \in Nat
    <3>1. Stream(p) \in Seq(Chars)
      BY ChunksLie
    <3> QED  BY <1>4, <3>1, LenProperties
  <2>2. u \in Nat /\ a <= u /\ u <= l /\ c \in Nat /\ a <= c /\ c <= u
    BY <1>2, <1>4, <2>1
  <2>3. e \in 0..l
    <3>1. k + 1 \in 1..(Len(p) + 2)
      BY <1>1, <1>5
    <3> QED  BY <1>3, <1>4, <3>1, ChunksLie
  <2>4. c <= e
    <3>1. e = c + Len(ChunkTexts(p)[k])
      BY <1>2, <1>3, ChunksLie
    <3>3. Len(ChunkTexts(p)[k]) \in Nat
      BY ChunkLengths
    <3> QED  BY <2>2, <3>1, <3>3
  <2> QED  BY <2>1, <2>2, <2>3, <2>4
<1>7. PICK q : q = (Len(f) + ChunkAt(p, k)) - a  OBVIOUS
<1>8. PICK r : r = (Len(f) + ChunkAt(p, k + 1)) - a  OBVIOUS
<1>9. /\ u < e => AllChunks(s)[q + 1] = [joined |-> <<>>, rest |-> q + 1, zero |-> FALSE]
      /\ e <= u /\ k = n + 1 =>
           AllChunks(s)[q + 1] = [joined |-> <<>>, rest |-> r + 1, zero |-> TRUE]
      /\ e <= u /\ k \in 1..n =>
           AllChunks(s)[q + 1] = [AllChunks(s)[r + 1] EXCEPT !.joined = p[k] \o @]
  <2>1. Makes(p, u, s, k, q, r)
    BY <1>7, <1>8, ChunkMade
  <2> QED  BY <1>1, <1>3, <2>1, Zenon DEF Makes
<1>10. <<>> \in Seq(Chars) /\ k - 1 \in 0..n /\ k - 1 # n + 1
  BY <1>5
<1>11. Flat(p, k - 1) \in Seq(Chars)
  BY <1>1, <1>10, DataLies
<1>12. Flat(p, k - 1) \o <<>> = Flat(p, k - 1)
  BY <1>11, ConcatEmptySeq
<1>13. CASE u < e
  <2>1. PICK m : m = k - 1  OBVIOUS
  <2>2. m + 1 = k /\ m + 2 = k + 1 /\ m # Len(p) + 1 /\ m \in (k - 1)..(Len(p) + 1)
    BY <1>1, <1>5, <2>1
  <2>3. WholeUpTo(p, m, u)
    BY <1>2, <1>3, <1>6, <1>13, <2>2 DEF WholeUpTo
  <2>4. AllChunks(s)[q + 1] =
          [joined |-> <<>>, rest |-> ((Len(f) + ChunkAt(p, m + 1)) - a) + 1,
           zero |-> m = Len(p) + 1]
    <3>1. (m = Len(p) + 1) = FALSE
      BY <2>2
    <3> QED  BY <1>7, <1>9, <1>13, <2>2, <3>1, Zenon
  <2>5. Outcome(p, f, a, u, s, k, m, <<>>)
    BY <1>7, <1>10, <1>12, <2>1, <2>2, <2>3, <2>4, Zenon DEF Outcome
  <2> QED  BY <2>2, <2>5, Zenon DEF Scans
<1>14. CASE e <= u /\ k = n + 1
  <2>1. PICK m : m = n + 1  OBVIOUS
  <2>2. m + 1 = k + 1 /\ m = Len(p) + 1 /\ m \in (k - 1)..(Len(p) + 1) /\ k + 1 = Len(p) + 2
        /\ k - 1 = n
    BY <1>1, <1>5, <1>14, <2>1
  <2>3. e = l
    BY <1>3, <1>4, <2>2, ChunksLie
  <2>4. WholeUpTo(p, m, u)
    <3>1. u = l
      BY <1>6, <1>14, <2>3
    <3> QED  BY <1>4, <2>2, <3>1, Zenon DEF WholeUpTo
  <2>5. AllChunks(s)[q + 1] =
          [joined |-> <<>>, rest |-> ((Len(f) + ChunkAt(p, m + 1)) - a) + 1,
           zero |-> m = Len(p) + 1]
    <3>1. (m = Len(p) + 1) = TRUE
      BY <2>2
    <3> QED  BY <1>8, <1>9, <1>14, <2>2, <3>1, Zenon
  <2>6. Outcome(p, f, a, u, s, k, m, <<>>)
    BY <1>1, <1>7, <1>10, <1>12, <2>2, <2>4, <2>5, Zenon DEF Outcome
  <2> QED  BY <2>2, <2>6, Zenon DEF Scans
<1>15. CASE e <= u /\ k \in 1..n
  <2>1. e \in a..u
    BY <1>6, <1>15
  <2>2. Scans(p, f, a, u, s, k + 1)
    BY <1>1, <1>3, <1>15, <2>1
  <2>m. PICK m \in ((k + 1) - 1)..(Len(p) + 1) : \E x : Outcome(p, f, a, u, s, k + 1, m, x)
    BY <2>2, Zenon DEF Scans
  <2>3. PICK x : Outcome(p, f, a, u, s, k + 1, m, x)
    BY <2>m
  <2>4. /\ x \in Seq(Chars) /\ WholeUpTo(p, m, u)
        /\ AllChunks(s)[r + 1] =
             [joined |-> x, rest |-> ((Len(f) + ChunkAt(p, m + 1)) - a) + 1,
              zero |-> m = Len(p) + 1]
        /\ Flat(p, (k + 1) - 1) \o x = Flat(p, IF m = Len(p) + 1 THEN Len(p) ELSE m)
    BY <1>8, <2>3, Zenon DEF Outcome
  <2>5. PICK y : y = p[k] \o x  OBVIOUS
  <2>6. AllChunks(s)[q + 1] =
          [joined |-> y, rest |-> ((Len(f) + ChunkAt(p, m + 1)) - a) + 1,
           zero |-> m = Len(p) + 1]
    <3>1. PICK i : i = ((Len(f) + ChunkAt(p, m + 1)) - a) + 1  OBVIOUS
    <3>2. PICK z : z = (m = Len(p) + 1)  OBVIOUS
    <3>3. AllChunks(s)[q + 1] = [[joined |-> x, rest |-> i, zero |-> z] EXCEPT !.joined = p[k] \o @]
      BY <1>9, <1>15, <2>4, <3>1, <3>2, Zenon
    <3>4. AllChunks(s)[q + 1] = [joined |-> y, rest |-> i, zero |-> z]
      BY <2>5, <3>3
    <3> QED  BY <3>1, <3>2, <3>4, Zenon
  <2>7. p[k] \in Seq(Chars) /\ Flat(p, k) = Flat(p, k - 1) \o p[k]
    BY <1>1, <1>15, WithLastIs, DataLies
  <2>8. y \in Seq(Chars)
    BY <2>4, <2>5, <2>7, ConcatProperties
  <2>9. Flat(p, k - 1) \o y = Flat(p, k) \o x
    <3>1. PICK v : v = Flat(p, k - 1)  OBVIOUS
    <3>2. PICK w : w = p[k]  OBVIOUS
    <3>3. v \in Seq(Chars) /\ w \in Seq(Chars) /\ x \in Seq(Chars)
      BY <1>11, <2>4, <2>7, <3>1, <3>2
    <3>4. v \o (w \o x) = (v \o w) \o x
      BY <3>3, Regroup, Zenon
    <3> QED  BY <2>5, <2>7, <3>1, <3>2, <3>4, Zenon
  <2>10. (k + 1) - 1 = k /\ m \in (k - 1)..(Len(p) + 1)
    BY <1>1, <1>5, <2>m
  <2>11. Outcome(p, f, a, u, s, k, m, y)
    BY <1>7, <2>4, <2>6, <2>8, <2>9, <2>10, Zenon DEF Outcome
  <2> QED  BY <2>10, <2>11, Zenon DEF Scans
<1> QED  BY <1>5, <1>6, <1>13, <1>14, <1>15

LEMMA InOrder ==
    ASSUME NEW p \in Pieces, NEW k \in 1..(Len(p) + 2), NEW m \in k..(Len(p) + 2)
    PROVE  ChunkAt(p, k) <= ChunkAt(p, m)
<1>1. /\ ChunkTexts(p) \in Seq(Seq(Chars)) /\ Len(ChunkTexts(p)) = Len(p) + 1 /\ Len(p) \in Nat
  BY ChunkTextsAre, WithLastIs
<1>2. k - 1 \in 0..Len(ChunkTexts(p)) /\ m - 1 \in (k - 1)..Len(ChunkTexts(p))
  BY <1>1
<1>3. Len(Flat(ChunkTexts(p), k - 1)) <= Len(Flat(ChunkTexts(p), m - 1))
  BY <1>1, <1>2, FlatFront
<1> QED  BY <1>3 DEF ChunkAt

LEMMA Scanned ==
    ASSUME NEW p \in Pieces, NEW f \in Seq(Chars), NEW a \in Nat,
           NEW u \in a..Len(Stream(p)), NEW s, s = Buffer(f, Stream(p), a, u),
           NEW k \in 1..(Len(p) + 1), ChunkAt(p, k) \in a..u
    PROVE  Scans(p, f, a, u, s, k)
<1>1. PICK n : n = Len(p) + 1  OBVIOUS
<1>2. n \in Nat /\ n > 0
  <2>1. Len(p) \in Nat
    BY WithLastIs
  <2> QED  BY <1>1, <2>1
<1> DEFINE T == {i \in 0..(n - 1) : ChunkAt(p, n - i) \in a..u => Scans(p, f, a, u, s, n - i)}
<1>3. \A i \in 0..(n - 1) : n - i \in 1..(Len(p) + 1) /\ (i # 0 => n - (i - 1) = (n - i) + 1)
                            /\ (i = 0 => n - i \notin 1..Len(p))
  <2>1. Len(p) \in Nat
    BY WithLastIs
  <2> QED  BY <1>1, <1>2, <2>1
<1>4. 0 \in T
  <2>1. ASSUME ChunkAt(p, n - 0) \in a..u
        PROVE  Scans(p, f, a, u, s, n - 0)
    <3>1. PICK j : j = n - 0  OBVIOUS
    <3>2. j \in 1..(Len(p) + 1) /\ j \notin 1..Len(p)
      BY <1>1, <1>2, <3>1
    <3>3. ChunkAt(p, j) \in a..u
      BY <2>1, <3>1
    <3>4. Scans(p, f, a, u, s, j)
      BY <3>2, <3>3, ScanStep
    <3> QED  BY <3>1, <3>4
  <2> QED  BY <1>2, <2>1
<1>5. \A i \in 1..(n - 1) : i - 1 \in T => i \in T
  <2> SUFFICES ASSUME NEW i \in 1..(n - 1), i - 1 \in T, ChunkAt(p, n - i) \in a..u
               PROVE  Scans(p, f, a, u, s, n - i)
    BY <1>2
  <2>1. PICK j : j = n - i  OBVIOUS
  <2>2. j \in 1..(Len(p) + 1) /\ n - (i - 1) = j + 1
    BY <1>2, <1>3, <2>1
  <2>3. ChunkAt(p, j + 1) \in a..u => Scans(p, f, a, u, s, j + 1)
    BY <2>2
  <2>4. ChunkAt(p, j) \in a..u
    BY <2>1
  <2> HIDE DEF T
  <2>5. Scans(p, f, a, u, s, j)
    BY <2>2, <2>3, <2>4, ScanStep
  <2> QED  BY <2>1, <2>5
<1>6. \A i \in 0..(n - 1) : i \in T
  <2>1. T \subseteq Nat
    OBVIOUS
  <2>2. n - 1 \in Nat
    BY <1>2
  <2> HIDE DEF T
  <2> QED  BY <1>4, <1>5, <2>1, <2>2, Upwards
<1>7. n - k \in 0..(n - 1) /\ n - (n - k) = k
  BY <1>1, <1>2
<1> QED  BY <1>6, <1>7

LEMMA Fields ==
    \A y, i, z : /\ [joined |-> y, rest |-> i, zero |-> z].joined = y
                 /\ [joined |-> y, rest |-> i, zero |-> z].rest = i
                 /\ [joined |-> y, rest |-> i, zero |-> z].zero = z
OBVIOUS

(* What mg_handle_chunked does with a buffer that holds the data of j chunks and *)
(* what has come, up to the u-th byte, of the rest.                              *)
Received(p, j, u) == Buffer(Flat(p, j), Stream(p), ChunkAt(p, j + 1), u)

Collapsed(s, o) == Collapse(s, o + 1, SubSeq(s, 1, o))

(* It moves the data of the chunks that are whole to the front, and keeps the rest. *)
Collapses(p, m, u, s, c) ==
    /\ WholeUpTo(p, m, u)
    /\ c.joined = Flat(p, IF m = Len(p) + 1 THEN Len(p) ELSE m)
    /\ c.zero <=> m = Len(p) + 1
    /\ SubSeq(s, c.rest, Len(s)) = SubSeq(Stream(p), ChunkAt(p, m + 1) + 1, u)

LEMMA Joining ==
    ASSUME NEW p \in Pieces, NEW j \in 0..Len(p),
           NEW u \in ChunkAt(p, j + 1)..Len(Stream(p))
    PROVE  \E m \in j..(Len(p) + 1) :
              Collapses(p, m, u, Received(p, j, u),
                        Collapsed(Received(p, j, u), Len(Flat(p, j))))
<1>a. PICK f : f = Flat(p, j)  OBVIOUS
<1>b. PICK a : a = ChunkAt(p, j + 1)  OBVIOUS
<1>c. PICK s : s = Received(p, j, u)  OBVIOUS
<1>d. PICK c : c = Collapsed(s, Len(f))  OBVIOUS
<1>1. PICK w : w = Stream(p)  OBVIOUS
<1>2. PICK o : o = Len(f)  OBVIOUS
<1>3. PICK k : k = j + 1  OBVIOUS
<1>4. k \in 1..(Len(p) + 1) /\ k - 1 = j /\ k \in 1..(Len(p) + 2)
  <2>1. Len(p) \in Nat
    BY WithLastIs
  <2> QED  BY <1>3, <2>1
<1>5. f \in Seq(Chars)
  BY <1>a, DataLies
<1>6. w \in Seq(Chars) /\ a \in Nat /\ a = ChunkAt(p, k)
  BY <1>1, <1>3, <1>4, <1>b, ChunksLie
<1>e. s = Buffer(f, w, a, u)
  BY <1>1, <1>a, <1>b, <1>c, Zenon DEF Received
<1>7. u \in Nat /\ a <= u /\ u \in a..Len(w) /\ u <= Len(w) /\ ChunkAt(p, k) \in a..u
  BY <1>1, <1>6, <1>b, LenProperties
<1>8. /\ s \in Seq(Chars) /\ o \in Nat /\ Len(s) = o + (u - a)
      /\ \A x \in 1..o : s[x] = f[x]
      /\ \A x \in 1..(u - a) : s[o + x] = w[a + x]
  <2>1. /\ Buffer(f, w, a, u) \in Seq(Chars)
        /\ Len(f) \in Nat /\ Len(Buffer(f, w, a, u)) = Len(f) + (u - a)
        /\ \A x \in 1..Len(f) : Buffer(f, w, a, u)[x] = f[x]
        /\ \A x \in 1..(u - a) : Buffer(f, w, a, u)[Len(f) + x] = w[a + x]
    BY <1>5, <1>6, <1>7, Buffered
  <2> QED  BY <1>2, <1>e, <2>1, Zenon
<1>9. SubSeq(s, 1, o) = f
  <2>1. PICK v : v = SubSeq(s, 1, o)  OBVIOUS
  <2>2. o <= Len(s)
    BY <1>6, <1>7, <1>8
  <2>3. /\ v \in Seq(Chars) /\ Len(v) = IF 1 <= o THEN o - 1 + 1 ELSE 0
        /\ \A x \in 1..(o - 1 + 1) : v[x] = s[1 + x - 1]
    BY <1>8, <2>1, <2>2, Piece
  <2>4. Len(v) = o /\ \A x \in 1..o : v[x] = f[x]
    BY <1>8, <2>3
  <2>5. v = f
    BY <1>2, <1>5, <2>3, <2>4, SeqEqual
  <2> QED  BY <2>1, <2>5
<1>10. Scans(p, f, a, u, s, k)
  BY <1>1, <1>4, <1>5, <1>6, <1>7, <1>e, Scanned
<1>m. PICK m \in (k - 1)..(Len(p) + 1) : \E x : Outcome(p, f, a, u, s, k, m, x)
  BY <1>10, Zenon DEF Scans
<1>11. PICK x : Outcome(p, f, a, u, s, k, m, x)
  BY <1>m
<1>12. PICK g : g = ChunkAt(p, m + 1)  OBVIOUS
<1>13. PICK i : i = ((o + g) - a) + 1  OBVIOUS
<1>14. (o + ChunkAt(p, k)) - a = o
  BY <1>6, <1>8
<1>15. /\ x \in Seq(Chars) /\ WholeUpTo(p, m, u)
       /\ AllChunks(s)[o + 1] = [joined |-> x, rest |-> i, zero |-> m = Len(p) + 1]
       /\ Flat(p, k - 1) \o x = Flat(p, IF m = Len(p) + 1 THEN Len(p) ELSE m)
  BY <1>2, <1>11, <1>12, <1>13, <1>14, Zenon DEF Outcome
<1>16. c = [joined |-> f \o x, rest |-> i, zero |-> m = Len(p) + 1]
  <2>1. PICK z : z = (m = Len(p) + 1)  OBVIOUS
  <2>2. c = [AllChunks(s)[o + 1] EXCEPT !.joined = f \o @]
    BY <1>2, <1>9, <1>d, CollapseIs, Zenon DEF Collapsed
  <2>3. c = [[joined |-> x, rest |-> i, zero |-> z] EXCEPT !.joined = f \o @]
    BY <1>15, <2>1, <2>2, Zenon
  <2>4. c = [joined |-> f \o x, rest |-> i, zero |-> z]
    BY <2>3
  <2> QED  BY <2>1, <2>4, Zenon
<1>17. c.joined = f \o x /\ c.rest = i /\ (c.zero <=> m = Len(p) + 1)
  <2>1. PICK z : z = (m = Len(p) + 1)  OBVIOUS
  <2>2. PICK y : y = f \o x  OBVIOUS
  <2>3. c = [joined |-> y, rest |-> i, zero |-> z]
    BY <1>16, <2>1, <2>2, Zenon
  <2>4. c.joined = y /\ c.rest = i /\ c.zero = z
    BY <2>3, Fields
  <2> QED  BY <2>1, <2>2, <2>4, Zenon
<1>18. g \in Nat /\ a <= g /\ g <= u
  <2>0. Len(p) \in Nat /\ m \in Nat /\ k \in Nat /\ m \in (k - 1)..(Len(p) + 1)
    BY <1>4, <1>m, WithLastIs
  <2>1. g \in 0..Len(w)
    <3>1. m + 1 \in 1..(Len(p) + 2)
      BY <2>0
    <3> QED  BY <1>1, <1>12, <3>1, ChunksLie
  <2>2. g <= u
    <3>1. CASE m = Len(p) + 1
      <4>1. m + 1 = Len(p) + 2
        BY <2>0, <3>1
      <4>2. g = Len(w)
        BY <1>1, <1>12, <4>1, ChunksLie
      <4>3. u = Len(w)
        BY <1>1, <1>15, <3>1, Zenon DEF WholeUpTo
      <4> QED  BY <1>7, <4>2, <4>3
    <3>2. CASE m # Len(p) + 1
      BY <1>12, <1>15, <3>2, Zenon DEF WholeUpTo
    <3> QED  BY <3>1, <3>2
  <2>3. a <= g
    BY <1>4, <1>6, <1>12, <2>0, InOrder
  <2> QED  BY <1>6, <1>7, <2>1, <2>2, <2>3
<1>19. SubSeq(s, i, Len(s)) = SubSeq(w, g + 1, u)
  <2>1. g \in a..u
    BY <1>7, <1>18
  <2>3. SubSeq(s, ((Len(f) + g) - a) + 1, Len(s)) = SubSeq(w, g + 1, u)
    <3>1. f \in Seq(Chars) /\ w \in Seq(Chars) /\ a \in Nat /\ u \in a..Len(w)
      BY <1>5, <1>6, <1>7, Zenon
    <3>2. PICK t : t = s  OBVIOUS
    <3>3. t = Buffer(f, w, a, u)
      BY <1>e, <3>2
    <3>4. SubSeq(t, ((Len(f) + g) - a) + 1, Len(t)) = SubSeq(w, g + 1, u)
      BY <2>1, <3>1, <3>3, Rest
    <3> QED  BY <3>2, <3>4, Zenon
  <2> QED  BY <1>2, <1>13, <2>3
<1>20. m \in j..(Len(p) + 1)
  BY <1>4, <1>m
<1>21. Collapses(p, m, u, s, c)
  <2>1. f = Flat(p, k - 1)
    BY <1>4, <1>a
  <2> QED  BY <1>1, <1>12, <1>15, <1>17, <1>19, <2>1, Zenon DEF Collapses
<1> QED  BY <1>20, <1>21, <1>a, <1>c, <1>d, Zenon

-------------------------------------------------------------------------------
(* The invariant of the chunked body: until all has come, the data of the chunks  *)
(* that are whole is joined at the front of the buffer, and body_len is its        *)
(* length; what has come of the next chunk follows it as it was sent.              *)
Waiting(j) ==
    /\ come \in ChunkAt(pieces, j + 1)..Len(Stream(pieces))
    /\ come < ChunkAt(pieces, j + 2)
    /\ body_len = Len(Flat(pieces, j))
    /\ buf = Received(pieces, j, come)
    /\ handed = <<>>

Delivered ==
    /\ come = Len(Stream(pieces))
    /\ handed = <<FlattenSeq(pieces)>>
    /\ buf = <<>>
    /\ body_len = 0

ChunkInv ==
    /\ pieces \in Pieces
    /\ come \in Nat
    /\ Delivered \/ \E j \in 0..Len(pieces) : Waiting(j)

LEMMA TextIsStream == PiecesText = Stream(pieces)
BY Zenon DEF PiecesText, Sent, Stream, ChunkTexts, WithLast

Mores(S) ==
    \A f \in Seq(S), w \in Seq(S), a \in Nat : \A v \in a..Len(w) : \A u \in a..v :
        Buffer(f, w, a, u) \o SubSeq(w, u + 1, v) = Buffer(f, w, a, v)

LEMMA BufferMoreOf == \A S : Mores(S)
<1> TAKE S
<1> SUFFICES ASSUME NEW f \in Seq(S), NEW w \in Seq(S), NEW a \in Nat,
                    NEW v \in a..Len(w), NEW u \in a..v
             PROVE  Buffer(f, w, a, u) \o SubSeq(w, u + 1, v) = Buffer(f, w, a, v)
  BY Zenon DEF Mores
<1>b. Buffers(S)
  BY BufferedOf
<1>1. PICK o : o = Len(f)  OBVIOUS
<1>2. PICK b : b = u - a  OBVIOUS
<1>3. PICK n : n = v - u  OBVIOUS
<1>4. /\ o \in Nat /\ b \in Nat /\ n \in Nat /\ u = a + b /\ v = u + n
      /\ v - a = b + n /\ v <= Len(w) /\ u \in Nat /\ v \in Nat /\ u \in a..Len(w)
  BY <1>1, <1>2, <1>3, LenProperties
<1>5. PICK s : s = Buffer(f, w, a, u)  OBVIOUS
<1>6. PICK r : r = Buffer(f, w, a, v)  OBVIOUS
<1>7. /\ s \in Seq(S) /\ Len(s) = o + b
      /\ \A x \in 1..o : s[x] = f[x]
      /\ \A x \in 1..b : s[o + x] = w[a + x]
  <2>1. u \in a..Len(w)
    BY <1>4
  <2>2. /\ Buffer(f, w, a, u) \in Seq(S)
        /\ Len(Buffer(f, w, a, u)) = Len(f) + (u - a)
        /\ \A x \in 1..Len(f) : Buffer(f, w, a, u)[x] = f[x]
        /\ \A x \in 1..(u - a) : Buffer(f, w, a, u)[Len(f) + x] = w[a + x]
    BY <2>1, <1>b DEF Buffers
  <2> QED  BY <1>1, <1>2, <1>5, <2>2, Zenon
<1>8. /\ r \in Seq(S) /\ Len(r) = o + (b + n)
      /\ \A x \in 1..o : r[x] = f[x]
      /\ \A x \in 1..(b + n) : r[o + x] = w[a + x]
  <2>2. /\ Buffer(f, w, a, v) \in Seq(S)
        /\ Len(Buffer(f, w, a, v)) = Len(f) + (v - a)
        /\ \A x \in 1..Len(f) : Buffer(f, w, a, v)[x] = f[x]
        /\ \A x \in 1..(v - a) : Buffer(f, w, a, v)[Len(f) + x] = w[a + x]
    BY <1>b DEF Buffers
  <2> QED  BY <1>1, <1>4, <1>6, <2>2, Zenon
<1>9. PICK t : t = SubSeq(w, u + 1, v)  OBVIOUS
<1>10. PICK i : i = u + 1  OBVIOUS
<1>11. i \in Nat /\ 0 < i /\ v \in Int /\ v - i + 1 = n /\ (i <= v <=> n > 0)
  BY <1>4, <1>10
<1>12. t \in Seq(S) /\ Len(t) = n /\ \A x \in 1..n : t[x] = w[i + x - 1]
  <2>1. /\ SubSeq(w, i, v) \in Seq(S)
        /\ Len(SubSeq(w, i, v)) = IF i <= v THEN v - i + 1 ELSE 0
        /\ \A x \in 1..(v - i + 1) : SubSeq(w, i, v)[x] = w[i + x - 1]
    BY <1>4, <1>11, PieceOf
  <2> QED  BY <1>4, <1>9, <1>10, <1>11, <2>1
<1>13. PICK c : c = s \o t  OBVIOUS
<1>14. /\ c \in Seq(S) /\ Len(c) = (o + b) + n
       /\ \A x \in 1..(o + b) : c[x] = s[x]
       /\ \A x \in 1..n : c[(o + b) + x] = t[x]
  <2>1. s \in Seq(S) /\ t \in Seq(S)
    BY <1>7, <1>12
  <2>2. /\ c \in Seq(S) /\ Len(c) = Len(s) + Len(t)
        /\ \A x \in 1..Len(s) : c[x] = s[x]
        /\ \A x \in 1..Len(t) : c[Len(s) + x] = t[x]
    BY <1>13, <2>1, JoinsAs
  <2>3. Len(s) = o + b /\ Len(t) = n
    BY <1>7, <1>12
  <2> QED  BY <2>2, <2>3, Zenon
<1>15. \A x \in 1..Len(c) : c[x] = r[x]
  <2>0. (o + b) + n \in Nat
    BY <1>4
  <2> SUFFICES ASSUME NEW x \in 1..((o + b) + n)
               PROVE  c[x] = r[x]
    BY <1>14, Zenon
  <2>x. x \in Nat /\ 1 <= x /\ x <= (o + b) + n
    BY <2>0
  <2>1. CASE x <= o
    <3>1. x \in 1..o /\ x \in 1..(o + b)
      BY <1>4, <2>x, <2>1
    <3> QED  BY <1>7, <1>8, <1>14, <3>1
  <2>2. CASE o < x /\ x <= o + b
    <3>1. PICK y : y = x - o  OBVIOUS
    <3>2. y \in 1..b /\ y \in 1..(b + n) /\ o + y = x /\ x \in 1..(o + b)
      BY <1>4, <2>x, <2>2, <3>1
    <3> QED  BY <1>7, <1>8, <1>14, <3>2
  <2>3. CASE o + b < x
    <3>1. PICK y : y = x - (o + b)  OBVIOUS
    <3>2. y \in 1..n /\ (o + b) + y = x
      BY <1>4, <2>x, <2>3, <3>1
    <3>3. PICK z : z = b + y  OBVIOUS
    <3>4. z \in 1..(b + n) /\ o + z = x /\ i + y - 1 = a + z
      BY <1>4, <1>10, <3>2, <3>3
    <3>5. c[x] = t[y] /\ t[y] = w[a + z] /\ r[x] = w[a + z]
      BY <1>8, <1>12, <1>14, <3>2, <3>4
    <3> QED  BY <3>5
  <2>4. x <= o \/ (o < x /\ x <= o + b) \/ o + b < x
    BY <1>4, <2>x
  <2> QED  BY <2>1, <2>2, <2>3, <2>4, Zenon
<1>16. Len(c) = Len(r)
  BY <1>4, <1>8, <1>14
<1>17. c = r
  BY <1>8, <1>14, <1>15, <1>16, SeqEqual
<1> QED  BY <1>5, <1>6, <1>9, <1>13, <1>17

LEMMA BufferMore ==
    ASSUME NEW f \in Seq(Chars), NEW w \in Seq(Chars), NEW a \in Nat,
           NEW v \in a..Len(w), NEW u \in a..v
    PROVE  Buffer(f, w, a, u) \o SubSeq(w, u + 1, v) = Buffer(f, w, a, v)
<1>1. Mores(Chars)  BY BufferMoreOf
<1> QED  BY <1>1 DEF Mores

LEMMA ChunkInvInit == ChunkedInit => ChunkInv
<1> SUFFICES ASSUME ChunkedInit PROVE ChunkInv
  OBVIOUS
<1>1. pieces \in Pieces /\ come = 0 /\ buf = <<>> /\ body_len = 0 /\ handed = <<>>
  BY DEF ChunkedInit
<1>2. /\ Stream(pieces) \in Seq(Chars) /\ ChunkAt(pieces, 1) = 0
      /\ ChunkAt(pieces, 1 + 1) = ChunkAt(pieces, 1) + Len(ChunkTexts(pieces)[1])
      /\ Len(ChunkTexts(pieces)[1]) > 0
  <2>1. 1 \in 1..(Len(pieces) + 1)
    BY <1>1, WithLastIs
  <2>5. Len(ChunkTexts(pieces)[1]) > 0
    BY <1>1, <2>1, ChunkLengths
  <2> QED  BY <1>1, <2>1, <2>5, ChunksLie
<1>3. Flat(pieces, 0) = <<>> /\ Len(pieces) \in Nat
  BY <1>1, DataLies, WithLastIs
<1>4. Received(pieces, 0, 0) = <<>>
  <2>1. SubSeq(Stream(pieces), 0 + 1, 0) = <<>>
    BY SubSeqEmpty
  <2>2. Received(pieces, 0, 0) = <<>> \o <<>>
    BY <1>2, <1>3, <2>1 DEF Received, Buffer
  <2> QED  BY <2>2
<1>5. Waiting(0)
  <2>1. Len(Stream(pieces)) \in Nat
    BY <1>2, LenProperties
  <2>2. come \in ChunkAt(pieces, 0 + 1)..Len(Stream(pieces)) /\ come < ChunkAt(pieces, 0 + 2)
    BY <1>1, <1>2, <2>1
  <2>3. Len(<<>>) = 0
    OBVIOUS
  <2> QED  BY <1>1, <1>3, <1>4, <2>2, <2>3 DEF Waiting
<1> QED  BY <1>1, <1>3, <1>5 DEF ChunkInv

Fronts(S) ==
    \A f \in Seq(S), w \in Seq(S), a \in Nat : \A u \in a..Len(w) :
        SubSeq(Buffer(f, w, a, u), 1, Len(f)) = f

LEMMA FrontIsOf == \A S : Fronts(S)
<1> TAKE S
<1> SUFFICES ASSUME NEW f \in Seq(S), NEW w \in Seq(S), NEW a \in Nat,
                    NEW u \in a..Len(w), NEW s, s = Buffer(f, w, a, u)
             PROVE  SubSeq(s, 1, Len(f)) = f
  BY Zenon DEF Fronts
<1>b. Buffers(S)
  BY BufferedOf
<1>1. PICK o : o = Len(f)  OBVIOUS
<1>2. PICK v : v = SubSeq(s, 1, o)  OBVIOUS
<1>3. /\ s \in Seq(S) /\ o \in Nat /\ Len(s) = o + (u - a)
      /\ \A x \in 1..o : s[x] = f[x]
  BY <1>1, <1>b DEF Buffers
<1>4. o <= Len(s)
  <2>1. u - a \in Nat
    BY LenProperties
  <2> QED  BY <1>3, <2>1
<1>5. /\ v \in Seq(S) /\ Len(v) = IF 1 <= o THEN o - 1 + 1 ELSE 0
      /\ \A x \in 1..(o - 1 + 1) : v[x] = s[1 + x - 1]
  BY <1>2, <1>3, <1>4, PieceOf
<1>6. Len(v) = o /\ \A x \in 1..o : v[x] = f[x]
  BY <1>3, <1>5
<1>7. v = f
  BY <1>1, <1>5, <1>6, SeqEqual
<1> QED  BY <1>1, <1>2, <1>7

LEMMA FrontIs ==
    ASSUME NEW f \in Seq(Chars), NEW w \in Seq(Chars), NEW a \in Nat, NEW u \in a..Len(w),
           NEW s, s = Buffer(f, w, a, u)
    PROVE  SubSeq(s, 1, Len(f)) = f
<1>1. Fronts(Chars)  BY FrontIsOf
<1> QED  BY <1>1 DEF Fronts

LEMMA ChunkInvArrive ==
    ASSUME NEW n \in 1..Len(PiecesText), ChunkInv, ChunksArrive(n)
    PROVE  ChunkInv'
<1>1. PICK p : p = pieces  OBVIOUS
<1>2. PICK u : u = come + n  OBVIOUS
<1>3. p \in Pieces /\ pieces' = p
  BY <1>1 DEF ChunkInv, ChunksArrive
<1>4. come \in Nat /\ n \in Nat /\ n > 0 /\ come' = u /\ u <= Len(Stream(p)) /\ u \in Nat
      /\ u > come
  <2>1. come \in Nat
    BY DEF ChunkInv
  <2>2. PiecesText = Stream(p)
    BY <1>1, TextIsStream
  <2>3. come + n <= Len(Stream(p)) /\ come' = come + n
    BY <2>2 DEF ChunksArrive
  <2>4. Len(Stream(p)) \in Nat
    <3>1. Stream(p) \in Seq(Chars)
      BY <1>3, ChunksLie
    <3> QED  BY <3>1, LenProperties
  <2>5. n \in Nat /\ n > 0
    BY <2>2, <2>4
  <2> QED  BY <1>2, <2>1, <2>3, <2>5
<1>5. PICK j \in 0..Len(p) : Waiting(j)
  <2>1. ~Delivered
    BY <1>1, <1>4 DEF Delivered
  <2> QED  BY <1>1, <2>1 DEF ChunkInv
<1>6. PICK f : f = Flat(p, j)  OBVIOUS
<1>7. PICK a : a = ChunkAt(p, j + 1)  OBVIOUS
<1>8. PICK w : w = Stream(p)  OBVIOUS
<1>9. /\ come \in a..Len(w) /\ body_len = Len(f) /\ buf = Buffer(f, w, a, come)
      /\ handed = <<>>
  BY <1>1, <1>5, <1>6, <1>7, <1>8, Zenon DEF Waiting, Received
<1>10. PICK s : s = buf \o SubSeq(w, come + 1, u)  OBVIOUS
<1>11. f \in Seq(Chars) /\ w \in Seq(Chars) /\ a \in Nat /\ u \in a..Len(w) /\ come \in a..u
  <2>1. f \in Seq(Chars)
    BY <1>3, <1>6, DataLies
  <2>2. w \in Seq(Chars) /\ a \in Nat
    <3>1. j + 1 \in 1..(Len(p) + 2)
      BY <1>3, WithLastIs
    <3> QED  BY <1>3, <1>7, <1>8, <3>1, ChunksLie
  <2>3. a <= come
    BY <1>4, <1>9, <2>2, LenProperties
  <2>4. u \in a..Len(w) /\ come \in a..u
    BY <1>4, <1>8, <2>2, <2>3, LenProperties
  <2> QED  BY <2>1, <2>2, <2>4
<1>12. s = Received(p, j, u)
  <2>1. Buffer(f, w, a, come) \o SubSeq(w, come + 1, u) = Buffer(f, w, a, u)
    BY <1>11, BufferMore
  <2> QED  BY <1>6, <1>7, <1>8, <1>9, <1>10, <2>1, Zenon DEF Received
<1>13. PICK c : c = Collapsed(s, Len(f))  OBVIOUS
<1>14. PICK m \in j..(Len(p) + 1) : Collapses(p, m, u, s, c)
  <2>1. u \in ChunkAt(p, j + 1)..Len(Stream(p))
    BY <1>7, <1>8, <1>11
  <2>2. \E m \in j..(Len(p) + 1) :
           Collapses(p, m, u, Received(p, j, u), Collapsed(Received(p, j, u), Len(Flat(p, j))))
    BY <1>3, <2>1, Joining
  <2> QED  BY <1>6, <1>12, <1>13, <2>2, Zenon
<1>15. PICK all : all = c.joined \o SubSeq(s, c.rest, Len(s))  OBVIOUS
<1>16. /\ body_len' = IF c.zero THEN 0 ELSE Len(c.joined)
       /\ IF c.zero THEN handed' = Append(handed, all) /\ buf' = <<>>
          ELSE buf' = all /\ UNCHANGED handed
  <2>1. HandleChunked(s)
    <3>1. HandleChunked(buf \o SubSeq(PiecesText, come + 1, come + n))
      BY DEF ChunksArrive
    <3> QED  BY <1>1, <1>2, <1>8, <1>10, <3>1, TextIsStream, Zenon
  <2> QED  BY <1>9, <1>13, <1>15, <2>1, Zenon DEF HandleChunked, Collapsed
<1>17. /\ WholeUpTo(p, m, u)
       /\ c.joined = Flat(p, IF m = Len(p) + 1 THEN Len(p) ELSE m)
       /\ c.zero <=> m = Len(p) + 1
       /\ SubSeq(s, c.rest, Len(s)) = SubSeq(w, ChunkAt(p, m + 1) + 1, u)
  BY <1>8, <1>14, Zenon DEF Collapses
<1>18. Len(p) \in Nat /\ j \in Nat /\ m \in Nat
  <2>1. Len(p) \in Nat
    BY <1>3, WithLastIs
  <2> QED  BY <2>1
<1>19. CASE m = Len(p) + 1
  <2>1. u = Len(w)
    BY <1>8, <1>17, <1>19, Zenon DEF WholeUpTo
  <2>2. c.joined = Flat(p, Len(p))
    BY <1>17, <1>19, Zenon
  <2>3. SubSeq(s, c.rest, Len(s)) = <<>>
    <3>1. m + 1 = Len(p) + 2
      BY <1>18, <1>19
    <3>2. ChunkAt(p, m + 1) = Len(w)
      BY <1>3, <1>8, <3>1, ChunksLie
    <3>3. SubSeq(w, u + 1, u) = <<>>
      BY <1>4, SubSeqEmpty
    <3> QED  BY <1>17, <2>1, <3>2, <3>3, Zenon
  <2>4. all = FlattenSeq(p)
    <3>1. Flat(p, Len(p)) \in Seq(Chars) /\ FlattenSeq(p) = Flat(p, Len(p))
      <4>1. Len(p) \in 0..Len(p)
        BY <1>18
      <4>2. Flat(p, Len(p)) \in Seq(Chars)
        BY <1>3, <4>1, DataLies
      <4> QED  BY <1>3, <4>2, DataLies, Zenon
    <3>2. Flat(p, Len(p)) \o <<>> = Flat(p, Len(p))
      BY <3>1, ConcatEmptySeq
    <3> QED  BY <1>15, <2>2, <2>3, <3>1, <3>2, Zenon
  <2>5. Append(<<>>, all) = <<all>>
    OBVIOUS
  <2>6. handed' = <<FlattenSeq(p)>> /\ buf' = <<>> /\ body_len' = 0
    BY <1>9, <1>16, <1>17, <1>19, <2>4, <2>5, Zenon
  <2>7. Delivered'
    BY <1>3, <1>4, <1>8, <2>1, <2>6, Zenon DEF Delivered
  <2> QED  BY <1>3, <1>4, <2>7 DEF ChunkInv
<1>20. CASE m # Len(p) + 1
  <2>1. m \in 0..Len(p)
    BY <1>18, <1>20
  <2>2. ChunkAt(p, m + 1) <= u /\ u < ChunkAt(p, m + 2)
    BY <1>17, <1>20, Zenon DEF WholeUpTo
  <2>3. c.joined = Flat(p, m) /\ ~c.zero
    BY <1>17, <1>20, Zenon
  <2>4. all = Received(p, m, u)
    BY <1>8, <1>15, <1>17, <2>3, Zenon DEF Received, Buffer
  <2>5. body_len' = Len(Flat(p, m)) /\ buf' = Received(p, m, u) /\ handed' = <<>>
    BY <1>9, <1>16, <2>3, <2>4, Zenon
  <2>6. u \in ChunkAt(p, m + 1)..Len(Stream(p))
    <3>1. m + 1 \in 1..(Len(p) + 2)
      BY <1>18
    <3>2. ChunkAt(p, m + 1) \in Int /\ Len(Stream(p)) \in Int
      <4>1. ChunkAt(p, m + 1) \in 0..Len(Stream(p))
        BY <1>3, <3>1, ChunksLie
      <4> QED  BY <1>8, <1>11, <4>1, LenProperties
    <3> QED  BY <1>4, <2>2, <3>2
  <2>7. Waiting(m)'
    BY <1>3, <1>4, <2>2, <2>5, <2>6, Zenon DEF Waiting
  <2> QED  BY <1>3, <1>4, <2>1, <2>7 DEF ChunkInv
<1> QED  BY <1>19, <1>20

LEMMA ChunkInvNext == ChunkInv /\ [ChunkedNext]_chunkBytes => ChunkInv'
<1>1. ASSUME ChunkInv, ChunkedNext
      PROVE  ChunkInv'
  BY <1>1, ChunkInvArrive DEF ChunkedNext
<1>2. ASSUME ChunkInv, UNCHANGED chunkBytes
      PROVE  ChunkInv'
  BY <1>2, Zenon DEF ChunkInv, chunkBytes, Delivered, Waiting
<1> QED  BY <1>1, <1>2

LEMMA ChunkInvShows == ChunkInv => ChunksJoined
<1> SUFFICES ASSUME ChunkInv PROVE ChunksJoined
  OBVIOUS
<1>1. pieces \in Pieces /\ PiecesText = Stream(pieces) /\ Len(Stream(pieces)) \in Nat
  <2>1. pieces \in Pieces
    BY DEF ChunkInv
  <2>2. Stream(pieces) \in Seq(Chars)
    BY <2>1, ChunksLie
  <2> QED  BY <2>1, <2>2, TextIsStream, LenProperties
<1>2. CASE Delivered
  BY <1>1, <1>2, Zenon DEF Delivered, ChunksJoined
<1>3. ASSUME NEW j \in 0..Len(pieces), Waiting(j)
      PROVE  ChunksJoined
  <2>1. come # Len(PiecesText)
    <3>1. ChunkAt(pieces, j + 2) <= Len(Stream(pieces)) /\ come \in Nat
      <4>1. j + 2 \in 1..(Len(pieces) + 2)
        BY <1>1, WithLastIs
      <4>2. ChunkAt(pieces, j + 2) \in 0..Len(Stream(pieces))
        BY <1>1, <4>1, ChunksLie
      <4> QED  BY <1>1, <4>2 DEF ChunkInv
    <3>2. come < ChunkAt(pieces, j + 2)
      BY <1>3 DEF Waiting
    <3>3. ChunkAt(pieces, j + 2) \in Int
      <4>1. j + 2 \in 1..(Len(pieces) + 2)
        BY <1>1, WithLastIs
      <4> QED  BY <1>1, <4>1, ChunksLie
    <3> QED  BY <1>1, <3>1, <3>2, <3>3
  <2>2. PICK f : f = Flat(pieces, j)  OBVIOUS
  <2>3. PICK a : a = ChunkAt(pieces, j + 1)  OBVIOUS
  <2>4. PICK w : w = Stream(pieces)  OBVIOUS
  <2>5. body_len = Len(f) /\ buf = Buffer(f, w, a, come) /\ handed = <<>> /\ come \in a..Len(w)
    BY <1>3, <2>2, <2>3, <2>4, Zenon DEF Waiting, Received
  <2>6. SubSeq(buf, 1, Len(f)) = f
    <3>1. f \in Seq(Chars)
      BY <1>1, <2>2, DataLies
    <3>2. w \in Seq(Chars) /\ a \in Nat
      <4>1. j + 1 \in 1..(Len(pieces) + 2)
        BY <1>1, WithLastIs
      <4> QED  BY <1>1, <2>3, <2>4, <4>1, ChunksLie
    <3>3. PICK s : s = Buffer(f, w, a, come)  OBVIOUS
    <3>4. SubSeq(s, 1, Len(f)) = f
      BY <2>5, <3>1, <3>2, <3>3, FrontIs
    <3> QED  BY <2>5, <3>3, <3>4, Zenon
  <2>7. FlattenSeq(pieces) = Flat(pieces, Len(pieces))
        /\ SubSeq(Flat(pieces, Len(pieces)), 1, Len(f)) = f
    BY <1>1, <2>2, DataLies
  <2> QED  BY <2>1, <2>5, <2>6, <2>7, Zenon DEF ChunksJoined
<1> QED  BY <1>2, <1>3 DEF ChunkInv

(* However the body is cut, the handler is called once, when the empty chunk has  *)
(* come, with the data of all chunks joined in order; until then the front of the  *)
(* buffer, body_len bytes of it, is how that data begins (mg_handle_chunked).       *)
THEOREM ChunksJoinedHolds == ChunkedSpec => []ChunksJoined
<1>1. ChunkedSpec => []ChunkInv
  BY ChunkInvInit, ChunkInvNext, PTL DEF ChunkedSpec
<1> QED  BY <1>1, ChunkInvShows, PTL

LEMMA DataFits ==
    ASSUME NEW p \in Pieces, NEW k \in 0..Len(p)
    PROVE  Len(Flat(p, k)) \in 0..ChunkAt(p, k + 1)
<1>1. PICK n : n = Len(p)  OBVIOUS
<1>2. n \in Nat
  BY <1>1, WithLastIs
<1> DEFINE T == {i \in 0..n : Len(Flat(p, i)) \in 0..ChunkAt(p, i + 1)}
<1>3. 0 \in T
  <2>1. Flat(p, 0) = <<>> /\ ChunkAt(p, 0 + 1) = 0
    <3>1. Flat(p, 0) = <<>>
      BY DataLies, Zenon
    <3>2. ChunkAt(p, 1) = 0
      BY ChunksLie, Zenon
    <3>3. 0 + 1 = 1
      OBVIOUS
    <3> QED  BY <3>1, <3>2, <3>3, Zenon
  <2> QED  BY <1>2, <2>1
<1>4. \A i \in 1..n : i - 1 \in T => i \in T
  <2> SUFFICES ASSUME NEW i \in 1..n, Len(Flat(p, i - 1)) \in 0..ChunkAt(p, (i - 1) + 1)
               PROVE  Len(Flat(p, i)) \in 0..ChunkAt(p, i + 1)
    BY <1>2
  <2>1. PICK d : d = p[i]  OBVIOUS
  <2>2. PICK f : f = Flat(p, i - 1)  OBVIOUS
  <2>3. PICK l : l = Len(ChunkTexts(p)[i])  OBVIOUS
  <2>4. PICK c : c = ChunkAt(p, i)  OBVIOUS
  <2>5. d \in Seq(Chars) /\ f \in Seq(Chars) /\ Flat(p, i) = f \o d
    <3>1. i \in 1..Len(p) /\ i - 1 \in 0..Len(p)
      BY <1>1, <1>2
    <3>2. d \in Seq(Chars)
      BY <2>1, <3>1, WithLastIs
    <3>3. f \in Seq(Chars)
      BY <2>2, <3>1, DataLies
    <3>4. Flat(p, i) = Flat(p, i - 1) \o p[i]
      BY <3>1, DataLies
    <3> QED  BY <2>1, <2>2, <3>2, <3>3, <3>4
  <2>6. Len(Flat(p, i)) = Len(f) + Len(d) /\ Len(f) \in Nat /\ Len(d) \in Nat
    BY <2>5, ConcatProperties, LenProperties
  <2>7. i \in 1..(Len(p) + 1) /\ i \in 1..(Len(p) + 2) /\ (i - 1) + 1 = i /\ i \in 1..Len(p)
    BY <1>1, <1>2
  <2>8. ChunkAt(p, i + 1) = c + l /\ c \in Nat
    BY <2>3, <2>4, <2>7, ChunksLie
  <2>9. l \in Nat /\ Len(d) <= l
    <3>1. WithLast(p)[i] = d
      BY <2>1, <2>7, WithLastIs
    <3>2. l \in Nat /\ Len(d) + 5 <= l
      BY <2>3, <2>7, <3>1, ChunkLengths
    <3> QED  BY <2>6, <3>2
  <2>10. Len(f) <= c
    BY <2>2, <2>4, <2>7
  <2> QED  BY <2>6, <2>8, <2>9, <2>10
<1>5. \A i \in 0..n : i \in T
  <2>1. T \subseteq Nat
    OBVIOUS
  <2> HIDE DEF T
  <2> QED  BY <1>2, <1>3, <1>4, <2>1, Upwards
<1> QED  BY <1>1, <1>5

LEMMA ChunkInvTypes == ChunkInv => ChunkedTypeOK
<1> SUFFICES ASSUME ChunkInv PROVE ChunkedTypeOK
  OBVIOUS
<1>1. pieces \in Pieces /\ PiecesText = Stream(pieces) /\ Len(Stream(pieces)) \in Nat
  <2>1. pieces \in Pieces
    BY DEF ChunkInv
  <2>2. Stream(pieces) \in Seq(Chars)
    BY <2>1, ChunksLie
  <2> QED  BY <2>1, <2>2, TextIsStream, LenProperties
<1>2. CASE Delivered
  <2>1. Len(<<>>) = 0 /\ Len(<<FlattenSeq(pieces)>>) = 1
    OBVIOUS
  <2>2. come = Len(PiecesText) /\ Len(buf) = 0 /\ body_len = 0 /\ Len(handed) = 1
    BY <1>1, <1>2, <2>1, Zenon DEF Delivered
  <2> QED  BY <1>1, <2>2 DEF ChunkedTypeOK
<1>3. ASSUME NEW j \in 0..Len(pieces), Waiting(j)
      PROVE  ChunkedTypeOK
  <2>1. PICK f : f = Flat(pieces, j)  OBVIOUS
  <2>2. PICK a : a = ChunkAt(pieces, j + 1)  OBVIOUS
  <2>3. PICK w : w = Stream(pieces)  OBVIOUS
  <2>4. body_len = Len(f) /\ buf = Buffer(f, w, a, come) /\ handed = <<>> /\ come \in a..Len(w)
    BY <1>3, <2>1, <2>2, <2>3, Zenon DEF Waiting, Received
  <2>5. f \in Seq(Chars)
    BY <1>1, <2>1, DataLies
  <2>6. w \in Seq(Chars) /\ a \in Nat
    <3>1. j + 1 \in 1..(Len(pieces) + 2)
      BY <1>1, WithLastIs
    <3> QED  BY <1>1, <2>2, <2>3, <3>1, ChunksLie
  <2>7. Len(f) \in 0..a
    BY <1>1, <2>1, <2>2, DataFits
  <2>8. Len(buf) = Len(f) + (come - a)
    <3>1. PICK s : s = Buffer(f, w, a, come)  OBVIOUS
    <3>2. Len(s) = Len(f) + (come - a)
      BY <2>4, <2>5, <2>6, <3>1, Buffered
    <3> QED  BY <2>4, <3>1, <3>2, Zenon
  <2>9. come \in 0..Len(w) /\ Len(f) \in 0..Len(buf) /\ Len(buf) <= come
    <3>1. PICK l : l = Len(f)  OBVIOUS
    <3>2. l \in Nat /\ l <= a /\ come \in Nat /\ a <= come /\ come <= Len(w) /\ come - a \in Nat
      BY <1>1, <2>3, <2>4, <2>6, <2>7, <3>1
    <3> QED  BY <1>1, <2>3, <2>6, <2>8, <3>1, <3>2
  <2>10. Len(handed) = 0
    BY <2>4
  <2> QED  BY <1>1, <2>3, <2>4, <2>9, <2>10 DEF ChunkedTypeOK
<1> QED  BY <1>2, <1>3 DEF ChunkInv

(* What the states of a chunked body are: the joined data lies within the buffer,  *)
(* the buffer is never longer than what has come (chunks only shrink), and the      *)
(* handler was called at most once (mg_handle_chunked).                             *)
THEOREM ChunkedTypes == ChunkedSpec => []ChunkedTypeOK
<1>1. ChunkedSpec => []ChunkInv
  BY ChunkInvInit, ChunkInvNext, PTL DEF ChunkedSpec
<1> QED  BY <1>1, ChunkInvTypes, PTL

-----------------------------------------------------------------------------
(* The buffer holds what its callers were told, for all texts and sizes, and     *)
(* whichever allocations are refused.                                      *)

(* What holds of a buffer before and after every operation: the first `used`   *)
(* bytes of the allocation are the data, whatever lies behind them.         *)
HoldsText(m, n, d) ==
    /\ m \in Seq(Octets) /\ d \in Seq(Octets)
    /\ Len(d) = n /\ n <= Len(m)
    /\ \A i \in 1..n : m[i] = d[i]

MbufInv ==
    /\ HoldsText(mem, used, meant)
    /\ Len(mem) <= MaxSize + Headroom

-----------------------------------------------------------------------------

(* A function on 1..n is a sequence of length n. *)
LEMMA Sequence ==
    ASSUME NEW S, NEW n \in Nat, NEW f \in [1..n -> S]
    PROVE  f \in Seq(S) /\ Len(f) = n
<1>1. f \in Seq(S)
  BY SMT
<1> QED BY <1>1, LenProperties

(* What a text is when another is put into it behind off. *)
LEMMA PutBetween ==
    ASSUME NEW d \in Seq(Octets), NEW s \in Seq(Octets), NEW off \in 0..Len(d)
    PROVE  LET data == SubSeq(d, 1, off) \o s \o SubSeq(d, off + 1, Len(d))
           IN  /\ data \in Seq(Octets)
               /\ Len(data) = Len(d) + Len(s)
               /\ \A i \in 1..(Len(d) + Len(s)) :
                    data[i] = IF i <= off THEN d[i]
                              ELSE IF i <= off + Len(s) THEN s[i - off] ELSE d[i - Len(s)]
<1> DEFINE front == SubSeq(d, 1, off)
           back == SubSeq(d, off + 1, Len(d))
           both == front \o s
           data == both \o back
<1>1. Len(d) \in Nat /\ Len(s) \in Nat /\ off \in Nat /\ off <= Len(d)
  OBVIOUS
<1>2. /\ front \in Seq(Octets) /\ Len(front) = off
      /\ \A i \in 1..off : front[i] = d[i]
  BY <1>1
<1>3. /\ back \in Seq(Octets) /\ Len(back) = Len(d) - off
      /\ \A i \in 1..(Len(d) - off) : back[i] = d[off + i]
  BY <1>1
<1> HIDE DEF front, back
<1>4. /\ both \in Seq(Octets) /\ Len(both) = off + Len(s)
      /\ \A i \in 1..(off + Len(s)) :
           both[i] = IF i <= off THEN front[i] ELSE s[i - off]
  <2>1. /\ both \in Seq(Octets) /\ Len(both) = Len(front) + Len(s)
        /\ \A i \in 1..(Len(front) + Len(s)) :
             both[i] = IF i <= Len(front) THEN front[i] ELSE s[i - Len(front)]
    BY ONLY <1>2, s \in Seq(Octets), ConcatProperties
  <2> HIDE DEF both
  <2> QED BY <2>1, <1>2
<1> HIDE DEF both
<1>5. /\ data \in Seq(Octets) /\ Len(data) = Len(both) + Len(back)
      /\ \A i \in 1..(Len(both) + Len(back)) :
           data[i] = IF i <= Len(both) THEN both[i] ELSE back[i - Len(both)]
  <2>1. both \in Seq(Octets) /\ back \in Seq(Octets)
    BY <1>3, <1>4
  <2> QED BY ONLY <2>1, ConcatProperties
<1> HIDE DEF data
<1>6. Len(both) + Len(back) = Len(d) + Len(s)
  BY <1>1, <1>3, <1>4
<1>7. ASSUME NEW i \in 1..(Len(d) + Len(s))
      PROVE  data[i] = IF i <= off THEN d[i]
                       ELSE IF i <= off + Len(s) THEN s[i - off] ELSE d[i - Len(s)]
  <2>1. data[i] = IF i <= off + Len(s) THEN both[i] ELSE back[i - (off + Len(s))]
    BY <1>4, <1>5, <1>6
  <2>2. CASE i <= off
    BY <2>1, <2>2, <1>2, <1>4, <1>1
  <2>3. CASE off < i /\ i <= off + Len(s)
    BY <2>1, <2>3, <1>4, <1>1
  <2>4. CASE off + Len(s) < i
    <3>1. /\ i - (off + Len(s)) \in 1..(Len(d) - off)
          /\ off + (i - (off + Len(s))) = i - Len(s)
      BY <2>4, <1>1
    <3>2. data[i] = back[i - (off + Len(s))]
      BY <2>1, <2>4, <1>1
    <3>3. back[i - (off + Len(s))] = d[i - Len(s)]
      BY <3>1, <1>3
    <3> QED BY <3>2, <3>3, <2>4, <1>1
  <2> QED BY <2>2, <2>3, <2>4, <1>1
<1> QED BY <1>5, <1>6, <1>7 DEF data, both, front, back

(* realloc keeps what was there, as far as it reaches.  *)
LEMMA ReallocKeeps ==
    ASSUME mem \in Seq(Octets), NEW n \in Nat
    PROVE  /\ Realloc(n) \in Seq(Octets)
           /\ Len(Realloc(n)) = n
           /\ \A i \in 1..n : i <= Len(mem) => Realloc(n)[i] = mem[i]
<1>1. \A i \in 1..n : i <= Len(mem) => mem[i] \in Octets
  BY LenProperties
<1>2. Realloc(n) \in [1..n -> Octets]
  BY <1>1, MbufAssumption DEF Realloc
<1>3. Realloc(n) \in Seq(Octets) /\ Len(Realloc(n)) = n
  BY <1>2, Sequence
<1> QED BY <1>3 DEF Realloc

(* memmove within the allocation. *)
LEMMA MemMoveMoves ==
    ASSUME NEW m \in Seq(Octets), NEW to \in Nat, NEW from \in Nat, NEW n \in Nat,
           to + n <= Len(m), from + n <= Len(m)
    PROVE  /\ MemMove(m, to, from, n) \in Seq(Octets)
           /\ Len(MemMove(m, to, from, n)) = Len(m)
           /\ \A i \in 1..Len(m) :
                MemMove(m, to, from, n)[i] =
                  IF i \in (to + 1)..(to + n) THEN m[i - to + from] ELSE m[i]
<1>1. DOMAIN m = 1..Len(m) /\ Len(m) \in Nat /\ \A i \in 1..Len(m) : m[i] \in Octets
  BY LenProperties
<1>2. \A i \in 1..Len(m) : i \in (to + 1)..(to + n) => i - to + from \in 1..Len(m)
  BY <1>1
<1>3. MemMove(m, to, from, n) \in [1..Len(m) -> Octets]
  BY <1>1, <1>2 DEF MemMove
<1>4. /\ MemMove(m, to, from, n) \in Seq(Octets)
      /\ Len(MemMove(m, to, from, n)) = Len(m)
  BY <1>1, <1>3, Sequence
<1> QED BY <1>1, <1>4 DEF MemMove

(* memcpy into the allocation. *)
LEMMA MemCopyCopies ==
    ASSUME NEW m \in Seq(Octets), NEW s \in Seq(Octets), NEW to \in Nat,
           to + Len(s) <= Len(m)
    PROVE  /\ MemCopy(m, to, s) \in Seq(Octets)
           /\ Len(MemCopy(m, to, s)) = Len(m)
           /\ \A i \in 1..Len(m) :
                MemCopy(m, to, s)[i] =
                  IF i \in (to + 1)..(to + Len(s)) THEN s[i - to] ELSE m[i]
<1>1. DOMAIN m = 1..Len(m) /\ Len(m) \in Nat /\ \A i \in 1..Len(m) : m[i] \in Octets
  BY LenProperties
<1>2. Len(s) \in Nat /\ \A i \in 1..Len(s) : s[i] \in Octets
  BY LenProperties
<1>3. \A i \in 1..Len(m) : i \in (to + 1)..(to + Len(s)) => i - to \in 1..Len(s)
  BY <1>1, <1>2
<1>4. MemCopy(m, to, s) \in [1..Len(m) -> Octets]
  BY <1>1, <1>2, <1>3 DEF MemCopy
<1>5. MemCopy(m, to, s) \in Seq(Octets) /\ Len(MemCopy(m, to, s)) = Len(m)
  BY <1>1, <1>4, Sequence
<1> QED BY <1>1, <1>5 DEF MemCopy

(* Both sizes an insertion asks for have room, and are within the headroom. *)
LEMMA WantedFits ==
    ASSUME NEW min_size \in Nat, NEW n \in Wanted(min_size), Headroom \in Nat
    PROVE  n \in Nat /\ n >= min_size /\ n <= min_size + Headroom
<1> DEFINE a == (3 * min_size) \div 2
           b == min_size + Headroom
<1>1. a \in Nat /\ a >= min_size
  BY SMT
<1>2. b \in Nat /\ b >= min_size
  OBVIOUS
<1>3. n = min_size \/ n = Min({a, b})
  BY DEF Wanted
<1> HIDE DEF a, b
<1>4. Min({a, b}) \in {a, b} /\ Min({a, b}) <= b
  <2>1. \E x \in {a, b} : \A y \in {a, b} : x <= y
    BY <1>1, <1>2
  <2> QED BY <2>1 DEF Min
<1> QED BY <1>1, <1>2, <1>3, <1>4 DEF b

(* A text that is put at off between what is before and what is behind. *)
LEMMA OpenedHolds ==
    ASSUME NEW m \in Seq(Octets), NEW s \in Seq(Octets), NEW off \in 0..used,
           NEW d, HoldsText(m, used, d), used + Len(s) <= Len(m)
    PROVE  /\ HoldsText(Opened(m, off, s), used + Len(s),
                    SubSeq(d, 1, off) \o s \o SubSeq(d, off + 1, Len(d)))
           /\ Len(Opened(m, off, s)) = Len(m)
<1> DEFINE moved == MemMove(m, off + Len(s), off, used - off)
           data == SubSeq(d, 1, off) \o s \o SubSeq(d, off + 1, Len(d))
<1>1. /\ used \in Nat /\ Len(s) \in Nat /\ Len(m) \in Nat /\ off \in Nat /\ off <= used
      /\ d \in Seq(Octets) /\ Len(d) = used
  BY LenProperties DEF HoldsText
<1>2. /\ moved \in Seq(Octets)
      /\ Len(moved) = Len(m)
      /\ \A i \in 1..Len(m) :
           moved[i] = IF i \in (off + Len(s) + 1)..(off + Len(s) + (used - off))
                      THEN m[i - (off + Len(s)) + off] ELSE m[i]
  <2> DEFINE to == off + Len(s)
             n == used - off
  <2>1. to \in Nat /\ n \in Nat /\ to + n <= Len(m) /\ off + n <= Len(m)
    BY <1>1
  <2> HIDE DEF to, n
  <2>2. /\ MemMove(m, to, off, n) \in Seq(Octets)
        /\ Len(MemMove(m, to, off, n)) = Len(m)
        /\ \A i \in 1..Len(m) :
             MemMove(m, to, off, n)[i] =
               IF i \in (to + 1)..(to + n) THEN m[i - to + off] ELSE m[i]
    BY <1>1, <2>1, MemMoveMoves
  <2> QED BY <2>2, Zenon DEF moved, to, n
<1> HIDE DEF moved
<1>3. /\ Opened(m, off, s) \in Seq(Octets)
      /\ Len(Opened(m, off, s)) = Len(m)
      /\ \A i \in 1..Len(m) :
           Opened(m, off, s)[i] =
             IF i \in (off + 1)..(off + Len(s)) THEN s[i - off] ELSE moved[i]
  BY <1>1, <1>2, MemCopyCopies DEF Opened, moved
<1>4. /\ data \in Seq(Octets)
      /\ Len(data) = used + Len(s)
      /\ \A i \in 1..(used + Len(s)) :
           data[i] = IF i <= off THEN d[i]
                     ELSE IF i <= off + Len(s) THEN s[i - off] ELSE d[i - Len(s)]
  <2>1. off \in 0..Len(d)
    BY <1>1
  <2>2. PICK x \in Seq(Octets) : x = d
    BY <1>1
  <2>3. off \in 0..Len(x)
    BY <2>1, <2>2
  <2>4. LET put == SubSeq(x, 1, off) \o s \o SubSeq(x, off + 1, Len(x))
        IN  /\ put \in Seq(Octets)
            /\ Len(put) = Len(x) + Len(s)
            /\ \A i \in 1..(Len(x) + Len(s)) :
                 put[i] = IF i <= off THEN x[i]
                          ELSE IF i <= off + Len(s) THEN s[i - off] ELSE x[i - Len(s)]
    BY <2>3, PutBetween, Zenon
  <2>5. /\ data \in Seq(Octets)
        /\ Len(data) = Len(d) + Len(s)
        /\ \A i \in 1..(Len(d) + Len(s)) :
             data[i] = IF i <= off THEN d[i]
                       ELSE IF i <= off + Len(s) THEN s[i - off] ELSE d[i - Len(s)]
    BY <2>2, <2>4, Zenon
  <2> HIDE DEF data
  <2> QED BY <1>1, <2>5
<1> HIDE DEF data
<1>5. \A i \in 1..(used + Len(s)) : Opened(m, off, s)[i] = data[i]
  <2> SUFFICES ASSUME NEW i \in 1..(used + Len(s))
               PROVE  Opened(m, off, s)[i] = data[i]
    OBVIOUS
  <2>0. i \in Nat /\ i \in 1..Len(m)
    BY <1>1
  <2>1. CASE i <= off
    <3>1. data[i] = d[i]
      BY <2>1, <1>4
    <3>2. Opened(m, off, s)[i] = moved[i]
      BY <2>0, <2>1, <1>1, <1>3
    <3>3. moved[i] = m[i]
      BY <2>0, <2>1, <1>1, <1>2
    <3>4. m[i] = d[i]
      BY <2>0, <2>1, <1>1 DEF HoldsText
    <3> QED BY <3>1, <3>2, <3>3, <3>4
  <2>2. CASE off < i /\ i <= off + Len(s)
    <3>1. data[i] = s[i - off]
      <4>1. ~(i <= off)
        BY <2>0, <2>2, <1>1
      <4>2. data[i] = IF i <= off THEN d[i]
                      ELSE IF i <= off + Len(s) THEN s[i - off] ELSE d[i - Len(s)]
        BY <1>4
      <4> QED BY <4>1, <4>2, <2>2, Zenon
    <3>2. Opened(m, off, s)[i] = s[i - off]
      BY <2>0, <2>2, <1>1, <1>3
    <3> QED BY <3>1, <3>2
  <2>3. CASE off + Len(s) < i
    <3>1. moved[i] = m[i - Len(s)]
      BY <2>3, <1>1, <1>2
    <3>2. m[i - Len(s)] = d[i - Len(s)]
      BY <2>3, <1>1 DEF HoldsText
    <3>3. data[i] = d[i - Len(s)]
      BY <2>3, <1>1, <1>4
    <3>4. Opened(m, off, s)[i] = moved[i]
      BY <2>0, <2>3, <1>1, <1>3
    <3> QED BY <3>1, <3>2, <3>3, <3>4
  <2> QED BY <2>1, <2>2, <2>3, <1>1
<1> QED BY <1>1, <1>3, <1>4, <1>5 DEF HoldsText, data

-----------------------------------------------------------------------------

LEMMA InitHolds == MbufInit => MbufInv
BY MbufAssumption DEF MbufInit, MbufInv, HoldsText

LEMMA InsertHolds ==
    ASSUME MbufInv, NEW off \in 0..MaxSize, NEW s \in Pushed, MbufInsert(off, s)
    PROVE  MbufInv'
<1> USE MbufAssumption
<1>1. /\ s \in Seq(Octets) /\ Len(s) \in Nat /\ off \in 0..used
      /\ used \in Nat /\ Len(mem) \in Nat /\ mem \in Seq(Octets)
      /\ used + Len(s) <= MaxSize
  BY LenProperties DEF MbufInsert, MbufInv, HoldsText
<1>2. CASE UNCHANGED bufferBytes
  BY <1>2 DEF MbufInv, HoldsText, bufferBytes
<1>3. ASSUME NEW m \in Seq(Octets), HoldsText(m, used, meant), used + Len(s) <= Len(m),
             Len(m) <= MaxSize + Headroom, mem' = Opened(m, off, s),
             used' = used + Len(s),
             meant' = SubSeq(meant, 1, off) \o s \o SubSeq(meant, off + 1, Len(meant))
      PROVE  MbufInv'
  BY <1>1, <1>3, OpenedHolds DEF MbufInv
<1>4. CASE used + Len(s) <= Len(mem) /\ mem' = Opened(mem, off, s) /\ ~UNCHANGED bufferBytes
  BY <1>4, <1>3, <1>1 DEF MbufInsert, MbufInv
<1>5. ASSUME NEW n \in Wanted(used + Len(s)), ~(used + Len(s) <= Len(mem)),
             mem' = Opened(Realloc(n), off, s), ~UNCHANGED bufferBytes
      PROVE  MbufInv'
  <2>1. n \in Nat /\ n >= used + Len(s) /\ n <= used + Len(s) + Headroom
    BY <1>1, <1>5, WantedFits
  <2>2. /\ Realloc(n) \in Seq(Octets) /\ Len(Realloc(n)) = n
        /\ \A i \in 1..n : i <= Len(mem) => Realloc(n)[i] = mem[i]
    BY <1>1, <2>1, ReallocKeeps
  <2>3. HoldsText(Realloc(n), used, meant)
    BY <1>1, <2>1, <2>2 DEF HoldsText, MbufInv
  <2>4. used' = used + Len(s)
        /\ meant' = SubSeq(meant, 1, off) \o s \o SubSeq(meant, off + 1, Len(meant))
    BY <1>5 DEF MbufInsert
  <2>5. used + Len(s) <= Len(Realloc(n)) /\ Len(Realloc(n)) <= MaxSize + Headroom
    BY <1>1, <2>1, <2>2
  <2> QED BY <1>3, <1>5, <2>2, <2>3, <2>4, <2>5
<1> QED BY <1>2, <1>4, <1>5 DEF MbufInsert

LEMMA RemoveHolds ==
    ASSUME MbufInv, NEW n \in 1..(MaxSize + 1), MbufRemove(n)
    PROVE  MbufInv'
<1>1. /\ mem \in Seq(Octets) /\ meant \in Seq(Octets)
      /\ used \in Nat /\ Len(mem) \in Nat /\ used <= Len(mem) /\ Len(meant) = used
      /\ \A i \in 1..used : mem[i] = meant[i]
  BY LenProperties DEF MbufInv, HoldsText
<1>2. CASE n \in 1..used
  <2> DEFINE left == SubSeq(meant, n + 1, Len(meant))
  <2>1. /\ mem' \in Seq(Octets) /\ Len(mem') = Len(mem)
        /\ \A i \in 1..Len(mem) :
             mem'[i] = IF i \in 1..(used - n) THEN mem[i + n] ELSE mem[i]
    BY <1>1, <1>2, MemMoveMoves DEF MbufRemove
  <2>2. /\ left \in Seq(Octets) /\ Len(left) = used - n
        /\ \A i \in 1..(used - n) : left[i] = meant[i + n]
    BY <1>1, <1>2
  <2>3. used' = used - n /\ meant' = left
    BY <1>2 DEF MbufRemove
  <2> HIDE DEF left
  <2>4. HoldsText(mem', used', meant')
    <3>1. used - n \in Nat /\ used - n <= Len(mem)
      BY <1>1, <1>2
    <3>2. \A i \in 1..(used - n) : mem'[i] = mem[i + n] /\ mem[i + n] = meant[i + n]
      BY <1>1, <1>2, <2>1
    <3>3. \A i \in 1..(used - n) : mem'[i] = left[i]
      BY <2>2, <3>2
    <3> QED BY <2>1, <2>2, <2>3, <3>1, <3>3 DEF HoldsText
  <2> QED BY <2>1, <2>4 DEF MbufInv
<1>3. CASE n \notin 1..used
  BY <1>3 DEF MbufRemove, MbufInv, HoldsText, bufferBytes
<1> QED BY <1>2, <1>3

LEMMA ResizeHolds ==
    ASSUME MbufInv, NEW n \in 0..MaxSize, MbufResize(n)
    PROVE  MbufInv'
<1> USE MbufAssumption
<1>1. /\ mem \in Seq(Octets) /\ Len(mem) \in Nat /\ used \in Nat /\ used <= Len(mem)
  BY LenProperties DEF MbufInv, HoldsText
<1>a. n \in Nat
  OBVIOUS
<1>2. /\ Realloc(n) \in Seq(Octets) /\ Len(Realloc(n)) = n
      /\ \A i \in 1..n : i <= Len(mem) => Realloc(n)[i] = mem[i]
  BY <1>1, <1>a, ReallocKeeps
<1>3. used <= n
  BY <1>1 DEF MbufResize
<1>4. HoldsText(Realloc(n), used, meant)
  BY <1>1, <1>2, <1>3 DEF HoldsText, MbufInv
<1> QED BY <1>2, <1>4 DEF MbufResize, MbufInv

LEMMA StepHolds == MbufInv /\ [MbufNext]_bufferBytes => MbufInv'
<1> SUFFICES ASSUME MbufInv, [MbufNext]_bufferBytes PROVE MbufInv'
  OBVIOUS
<1> USE MbufAssumption
<1>1. ASSUME NEW off \in 0..MaxSize, NEW s \in Pushed, MbufInsert(off, s) PROVE MbufInv'
  BY <1>1, InsertHolds
<1>2. ASSUME NEW n \in 1..(MaxSize + 1), MbufRemove(n) PROVE MbufInv'
  BY <1>2, RemoveHolds
<1>3. ASSUME NEW n \in 0..MaxSize, MbufResize(n) PROVE MbufInv'
  BY <1>3, ResizeHolds
<1>4. CASE MbufClear
  BY <1>4, LenProperties DEF MbufClear, MbufInv, HoldsText
<1>5. ASSUME NEW s \in Pushed, MbufTakeOver(s) PROVE MbufInv'
  BY <1>5, LenProperties DEF MbufTakeOver, MbufInv, HoldsText
<1>6. CASE MbufFree
  BY <1>6 DEF MbufFree, MbufInv, HoldsText
<1>7. CASE UNCHANGED bufferBytes
  BY <1>7 DEF MbufInv, HoldsText, bufferBytes
<1> QED BY <1>1, <1>2, <1>3, <1>4, <1>5, <1>6, <1>7 DEF MbufNext

(* Whatever is inserted, removed, moved or refused, the buffer of mongoose.c   *)
(* holds exactly the data that was taken: for all texts and all sizes.      *)
THEOREM BufferKeepsData == MbufSpec => []BufferHoldsData
<1>1. MbufInv => BufferHoldsData
  <2> SUFFICES ASSUME MbufInv PROVE SubSeq(mem, 1, used) = meant
    BY DEF BufferHoldsData
  <2>1. /\ mem \in Seq(Octets) /\ meant \in Seq(Octets)
        /\ used \in Nat /\ Len(mem) \in Nat /\ used <= Len(mem) /\ Len(meant) = used
        /\ \A i \in 1..used : mem[i] = meant[i]
    BY LenProperties DEF MbufInv, HoldsText
  <2>2. /\ SubSeq(mem, 1, used) \in Seq(Octets) /\ Len(SubSeq(mem, 1, used)) = used
        /\ \A i \in 1..used : SubSeq(mem, 1, used)[i] = mem[i]
    BY <2>1
  <2> QED BY <2>1, <2>2, SeqEqual
<1> QED BY <1>1, InitHolds, StepHolds, PTL DEF MbufSpec

(* The buffer's length stays within its allocation, and the allocation within    *)
(* what mbuf_insert may ask for.                                            *)
THEOREM MbufTypes == MbufSpec => []MbufTypeOK
<1>1. MbufInv => MbufTypeOK
  BY LenProperties DEF MbufInv, HoldsText, MbufTypeOK
<1> QED BY <1>1, InitHolds, StepHolds, PTL DEF MbufSpec

=============================================================================
