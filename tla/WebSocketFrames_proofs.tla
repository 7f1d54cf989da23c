------------------------- MODULE WebSocketFrames_proofs -------------------------
(***************************************************************************)
(* Frames are read as they were sent, whatever their data, their masks and   *)
(* their lengths, and however their bytes are cut.                          *)
(***************************************************************************)
EXTENDS WebSocketFrames, HttpBytes_proofs

-----------------------------------------------------------------------------
(* What frames mean *)

MeantTo(f, s, k) == [i \in 0..k |-> IF i = 0 THEN NothingYet ELSE After(s[i], f[i - 1])]

MeantAll(s) == CHOOSE f : f = MeantTo(f, s, Len(s))

LEMMA MeantIs ==
    ASSUME NEW s, NEW k
    PROVE  Meant(s, k) = MeantAll(s)[k]
BY Zenon DEF Meant, MeantAll, MeantTo

LEMMA MeantMore ==
    ASSUME NEW s, NEW k \in Nat, NEW f, f = MeantTo(f, s, k)
    PROVE  \E g : g = MeantTo(g, s, k + 1)
<1>1. PICK e : e = After(s[k + 1], f[k])  OBVIOUS
<1>2. PICK m : m = k + 1  OBVIOUS
<1>3. m \in Nat /\ m # 0 /\ m - 1 = k
  BY <1>2
<1>4. PICK g : g = [i \in 0..m |-> IF i = m THEN e ELSE f[i]]  OBVIOUS
<1>5. \A i \in 0..k : g[i] = f[i]
  BY <1>3, <1>4
<1>6. \A i \in 0..m : g[i] = IF i = 0 THEN NothingYet ELSE After(s[i], g[i - 1])
  <2> TAKE i \in 0..m
  <2>1. CASE i = m
    <3>1. g[i] = e
      BY <1>4, <2>1
    <3>2. g[i - 1] = f[k]
      BY <1>3, <1>5, <2>1
    <3>3. s[i] = s[k + 1]
      BY <1>2, <2>1
    <3> QED  BY <1>1, <1>3, <2>1, <3>1, <3>2, <3>3, Zenon
  <2>2. CASE i \in 0..k
    <3>1. f[i] = IF i = 0 THEN NothingYet ELSE After(s[i], f[i - 1])
      BY <2>2, Zenon DEF MeantTo
    <3>2. g[i] = f[i] /\ (i # 0 => g[i - 1] = f[i - 1])
      BY <1>5, <2>2
    <3> QED  BY <3>1, <3>2, Zenon
  <2> QED  BY <1>3, <2>1, <2>2
<1>7. g = [i \in 0..m |-> g[i]]
  BY <1>4
<1>8. g = MeantTo(g, s, m)
  BY <1>6, <1>7, Zenon DEF MeantTo
<1> QED  BY <1>2, <1>8

LEMMA MeantSteps ==
    ASSUME NEW s, Len(s) \in Nat
    PROVE  /\ Meant(s, 0) = NothingYet
           /\ \A k \in 1..Len(s) : Meant(s, k) = After(s[k], Meant(s, k - 1))
<1> DEFINE T == {k \in 0..Len(s) : \E f : f = MeantTo(f, s, k)}
<1>1. 0 \in T
  <2>1. MeantTo(<<>>, s, 0) = MeantTo(MeantTo(<<>>, s, 0), s, 0)
    BY DEF MeantTo
  <2> QED  BY <2>1
<1>2. \A k \in 1..Len(s) : k - 1 \in T => k \in T
  BY MeantMore
<1> HIDE DEF T
<1>3. \A k \in 0..Len(s) : k \in T
  BY <1>1, <1>2, Upwards
<1>4. Len(s) \in T
  BY <1>3
<1>5. MeantAll(s) = MeantTo(MeantAll(s), s, Len(s))
  <2>1. \E f : f = MeantTo(f, s, Len(s))
    BY <1>4 DEF T
  <2> QED  BY <2>1, Zenon DEF MeantAll
<1>6. PICK f : f = MeantAll(s)  OBVIOUS
<1>7. f = MeantTo(f, s, Len(s))
  BY <1>5, <1>6
<1>8. \A i \in 0..Len(s) : f[i] = IF i = 0 THEN NothingYet ELSE After(s[i], f[i - 1])
  BY <1>7, Zenon DEF MeantTo
<1>9. \A i : Meant(s, i) = f[i]
  BY <1>6, MeantIs
<1>10. 0 \in 0..Len(s)
  OBVIOUS
<1>11. Meant(s, 0) = NothingYet
  BY <1>8, <1>9, <1>10
<1>12. ASSUME NEW k \in 1..Len(s)
       PROVE  Meant(s, k) = After(s[k], Meant(s, k - 1))
  <2>1. k \in 0..Len(s) /\ k # 0
    OBVIOUS
  <2> QED  BY <1>8, <1>9, <2>1, Zenon
<1> QED  BY <1>11, <1>12

-----------------------------------------------------------------------------
(* A frame, and how it is read *)

LEMMA MaskedType ==
    ASSUME NEW d \in Seq(Byte), NEW m \in Seq(Byte), Len(m) \in {0, 4}
    PROVE  /\ Masked(d, m) \in Seq(Byte) /\ Len(Masked(d, m)) = Len(d)
           /\ m = <<>> => Masked(d, m) = d
           /\ m # <<>> => \A i \in 1..Len(d) :
                            /\ ((i - 1) % 4) + 1 \in 1..4
                            /\ Masked(d, m)[i] = XorOf(d[i], m[((i - 1) % 4) + 1])
<1>1. Len(d) \in Nat /\ \A i \in 1..Len(d) : d[i] \in Byte
  BY LenProperties, ElementOfSeq
<1>2. CASE m = <<>>
  BY <1>2 DEF Masked
<1>3. CASE m # <<>>
  <2>1. Len(m) = 4
    BY <1>3, EmptySeq
  <2>2. \A i \in 1..4 : m[i] \in Byte
    BY <2>1, ElementOfSeq
  <2>3. PICK x : x = Masked(d, m)  OBVIOUS
  <2>4. DOMAIN d = 1..Len(d)
    BY LenProperties
  <2>5. x = [i \in 1..Len(d) |-> XorOf(d[i], m[((i - 1) % 4) + 1])]
    BY <1>3, <2>3, <2>4, Zenon DEF Masked
  <2>6. \A i \in 1..Len(d) : ((i - 1) % 4) + 1 \in 1..4
    BY <1>1
  <2>7. \A i \in 1..Len(d) : XorOf(d[i], m[((i - 1) % 4) + 1]) \in Byte
    BY <1>1, <2>2, <2>6, XorAssumption, Zenon
  <2>8. x \in [1..Len(d) -> Byte]
    BY <2>5, <2>7
  <2>9. x \in Seq(Byte) /\ Len(x) = Len(d)
    BY <1>1, <2>8, SeqDef, LenProperties
  <2>10. \A i \in 1..Len(d) : x[i] = XorOf(d[i], m[((i - 1) % 4) + 1])
    BY <2>5, Zenon
  <2> QED  BY <1>3, <2>3, <2>6, <2>9, <2>10, Zenon
<1> QED  BY <1>2, <1>3

LEMMA Unmasked ==
    ASSUME NEW d \in Seq(Byte), NEW m \in Seq(Byte), Len(m) \in {0, 4}
    PROVE  Masked(Masked(d, m), m) = d
<1>1. CASE m = <<>>
  BY <1>1, MaskedType
<1>2. CASE m # <<>>
  <2>1. PICK x : x = Masked(d, m)  OBVIOUS
  <2>2. PICK y : y = Masked(x, m)  OBVIOUS
  <2>3. /\ x \in Seq(Byte) /\ Len(x) = Len(d)
        /\ \A i \in 1..Len(d) : /\ ((i - 1) % 4) + 1 \in 1..4
                                /\ x[i] = XorOf(d[i], m[((i - 1) % 4) + 1])
    BY <1>2, <2>1, MaskedType
  <2>4. /\ y \in Seq(Byte) /\ Len(y) = Len(x)
        /\ \A i \in 1..Len(x) : y[i] = XorOf(x[i], m[((i - 1) % 4) + 1])
    BY <1>2, <2>2, <2>3, MaskedType
  <2>5. Len(m) = 4
    BY <1>2, EmptySeq
  <2>6. \A i \in 1..4 : m[i] \in Byte
    BY <2>5, ElementOfSeq
  <2>7. \A i \in 1..Len(d) : d[i] \in Byte
    BY ElementOfSeq
  <2>8. \A i \in 1..Len(d) : y[i] = d[i]
    <3> TAKE i \in 1..Len(d)
    <3>1. PICK b : b = m[((i - 1) % 4) + 1]  OBVIOUS
    <3>2. b \in Byte /\ d[i] \in Byte
      BY <2>3, <2>6, <2>7, <3>1
    <3>3. y[i] = XorOf(XorOf(d[i], b), b)
      BY <2>3, <2>4, <3>1
    <3> QED  BY <3>2, <3>3, XorAssumption, Zenon
  <2> QED  BY <2>1, <2>2, <2>3, <2>4, <2>8, SeqEqual
<1> QED  BY <1>1, <1>2

(* What the frames of a stream are known to be. *)
Lawful(f) == f \in Frame /\ Fits(f)

LEMMA LawfulIs ==
    ASSUME NEW f, Lawful(f)
    PROVE  /\ f.fin \in BOOLEAN /\ f.op \in {0, 1, 8, 9, 10} /\ f.form \in Forms
           /\ f.mask \in Seq(Byte) /\ Len(f.mask) \in {0, 4} /\ (f.mask = <<>> <=> Len(f.mask) = 0)
           /\ f.data \in Seq(Byte) /\ Len(f.data) \in Nat
           /\ f.form = "one" => Len(f.data) < 126
<1>1. /\ f.fin \in BOOLEAN /\ f.op \in {0, 1, 8, 9, 10} /\ f.form \in Forms
      /\ f.mask \in Seq(Byte) /\ f.data \in Seq(Byte)
  BY DEF Lawful, Frame, CONTINUE, TEXT, CLOSE, PING, PONG
<1>2. Len(f.mask) \in {0, 4} /\ Len(f.data) <= Longest(f.form)
  BY DEF Lawful, Fits
<1>3. f.mask = <<>> <=> Len(f.mask) = 0
  BY <1>1, EmptySeq
<1>4. Len(f.data) \in Nat
  BY <1>1, LenProperties
<1>5. f.form = "one" => Longest(f.form) = 125
  BY SMT DEF Longest
<1> QED  BY <1>1, <1>2, <1>3, <1>4, <1>5

(* How many bytes a frame takes for its length. *)
Own(form) == CASE form = "one" -> 1 [] form = "two" -> 3 [] OTHER -> 9

HeadLen(f) == 1 + Own(f.form) + Len(f.mask)

LEMMA UpperIs ==
    ASSUME NEW n \in Nat
    PROVE  Upper(n) \in Nat /\ n = 256 * Upper(n) + (n % 256) /\ n % 256 \in Byte
BY SMT DEF Upper, Byte

LEMMA UpperNat ==
    ASSUME NEW n \in Nat
    PROVE  Upper(n) \in Nat /\ n % 256 \in Byte
BY UpperIs

LEMMA UpperBelow ==
    ASSUME NEW n \in Nat, NEW k \in Nat, n < 256 * k
    PROVE  Upper(n) < k
<1>1. PICK x : x = Upper(n)  OBVIOUS
<1>2. PICK z : z = n % 256  OBVIOUS
<1>3. x \in Nat /\ z \in Nat /\ n = 256 * x + z
  BY <1>1, <1>2, UpperIs DEF Byte
<1> QED  BY <1>1, <1>3, SMT

LEMMA UpperThrice ==
    ASSUME NEW n \in Nat, NEW a \in Nat, n < 256 * (256 * (256 * a))
    PROVE  Upper(Upper(Upper(n))) \in Nat /\ Upper(Upper(Upper(n))) < a
<1>1. PICK b : b = 256 * a  OBVIOUS
<1>2. PICK c : c = 256 * b  OBVIOUS
<1>3. b \in Nat /\ c \in Nat /\ n < 256 * c
  BY <1>1, <1>2
<1>4. PICK x : x = Upper(n)  OBVIOUS
<1>5. PICK y : y = Upper(x)  OBVIOUS
<1>6. x \in Nat /\ x < c
  BY <1>3, <1>4, UpperNat, UpperBelow, Zenon
<1>7. y \in Nat /\ y < b
  <2>1. x < 256 * b
    BY <1>2, <1>6
  <2> QED  BY <1>3, <1>5, <1>6, <2>1, UpperNat, UpperBelow, Zenon
<1>8. y < 256 * a
  BY <1>1, <1>7
<1>9. Upper(y) \in Nat /\ Upper(y) < a
  BY <1>7, <1>8, UpperNat, UpperBelow, Zenon
<1> QED  BY <1>4, <1>5, <1>9, Zenon

LEMMA LongestThrice ==
    ASSUME NEW n \in Nat, NEW form, n <= Longest(form)
    PROVE  Upper(Upper(Upper(n))) \in Byte
<1>1. PICK a : a = 128  OBVIOUS
<1>2. a \in Nat
  BY <1>1
<1>3. n < 256 * (256 * (256 * a))
  <2>1. PICK o : o = Longest(form)  OBVIOUS
  <2>2. o = 125 \/ o = 65535 \/ o = 2147483647
    BY <2>1, SMT DEF Longest
  <2>3. n <= o
    BY <2>1, SMT
  <2> QED  BY <1>1, <2>2, <2>3, SMT
<1>4. PICK v : v = Upper(Upper(Upper(n)))  OBVIOUS
<1>5. v \in Nat /\ v < a
  BY <1>2, <1>3, <1>4, UpperThrice, Zenon
<1>6. v \in Byte
  BY <1>1, <1>5 DEF Byte
<1> QED  BY <1>4, <1>6, Zenon

LEMMA LongestTwo ==
    ASSUME NEW n \in Nat, n <= Longest("two")
    PROVE  n < 256 * 256
BY SMT DEF Longest

(* The length a frame says fits into the bytes it is said in. *)
Sizes(n, form) ==
    /\ n % 256 \in Byte /\ Upper(n) % 256 \in Byte /\ Upper(Upper(n)) % 256 \in Byte
    /\ Upper(Upper(Upper(n))) \in Byte
    /\ form = "two" => Upper(n) \in Byte

LEMMA SizesFit ==
    ASSUME NEW n \in Nat, NEW form, n <= Longest(form)
    PROVE  Sizes(n, form)
<1>1. n \in Nat /\ n <= Longest(form)
  OBVIOUS
<1>2. /\ n % 256 \in Byte /\ Upper(n) % 256 \in Byte /\ Upper(Upper(n)) % 256 \in Byte
      /\ Upper(n) \in Nat
  BY <1>1, UpperNat, Zenon
<1>3. Upper(Upper(Upper(n))) \in Byte
  BY <1>1, LongestThrice, Zenon
<1>4. ASSUME form = "two"
       PROVE  Upper(n) \in Byte
  <2>1. n < 256 * 256
    BY <1>1, <1>4, LongestTwo, Zenon
  <2>2. 256 \in Nat
    OBVIOUS
  <2>3. Upper(n) < 256
    BY <1>1, <2>1, <2>2, UpperBelow, Zenon
  <2>4. PICK x : x = Upper(n)  OBVIOUS
  <2>5. x \in Nat /\ x < 256
    BY <1>2, <2>3, <2>4, Zenon
  <2>6. x \in Byte
    BY <2>5 DEF Byte
  <2> QED  BY <2>4, <2>6, Zenon
<1> QED  BY <1>2, <1>3, <1>4, Zenon DEF Sizes

BytesFor(m, n, form) ==
    CASE form = "one"   -> <<m + n>>
      [] form = "two"   -> <<m + 126, Upper(n), n % 256>>
      [] form = "eight" -> <<m + 127, 0, 0, 0, 0, Upper(Upper(Upper(n))),
                             Upper(Upper(n)) % 256, Upper(n) % 256, n % 256>>
      [] form = "top"   -> <<m + 127, 255, 255, 255, 255, 255, 255, 255, 255>>

LEMMA LengthBytesIs ==
    ASSUME NEW f
    PROVE  LengthBytes(f) = BytesFor(IF f.mask = <<>> THEN 0 ELSE 128, Len(f.data), f.form)
BY DEF LengthBytes, BytesFor

LEMMA BytesOne ==
    ASSUME NEW m, NEW n
    PROVE  BytesFor(m, n, "one") = <<m + n>>
BY Zenon DEF BytesFor

LEMMA BytesTwo ==
    ASSUME NEW m, NEW n
    PROVE  BytesFor(m, n, "two") = <<m + 126, Upper(n), n % 256>>
BY Zenon DEF BytesFor

LEMMA BytesEight ==
    ASSUME NEW m, NEW n
    PROVE  BytesFor(m, n, "eight") =
             <<m + 127, 0, 0, 0, 0, Upper(Upper(Upper(n))), Upper(Upper(n)) % 256,
               Upper(n) % 256, n % 256>>
BY Zenon DEF BytesFor

LEMMA BytesTop ==
    ASSUME NEW m, NEW n
    PROVE  BytesFor(m, n, "top") = <<m + 127, 255, 255, 255, 255, 255, 255, 255, 255>>
BY Zenon DEF BytesFor

LEMMA OneByte ==
    ASSUME NEW a \in Byte, NEW t, t = <<a>>
    PROVE  t \in Seq(Byte) /\ Len(t) = 1 /\ t[1] = a
OBVIOUS

Three(t, a, b, c) == t \in Seq(Byte) /\ Len(t) = 3 /\ t[1] = a /\ t[2] = b /\ t[3] = c

LEMMA ThreeBytes ==
    ASSUME NEW a \in Byte, NEW b \in Byte, NEW c \in Byte
    PROVE  Three(<<a, b, c>>, a, b, c)
BY DEF Three

Nine(t, a, b, c, d, e, f, g, h, i) ==
    /\ t \in Seq(Byte) /\ Len(t) = 9
    /\ t[1] = a /\ t[2] = b /\ t[3] = c /\ t[4] = d /\ t[5] = e /\ t[6] = f
    /\ t[7] = g /\ t[8] = h /\ t[9] = i

LEMMA NineBytes ==
    ASSUME NEW a \in Byte, NEW b \in Byte, NEW c \in Byte, NEW d \in Byte, NEW e \in Byte,
           NEW f \in Byte, NEW g \in Byte, NEW h \in Byte, NEW i \in Byte
    PROVE  Nine(<<a, b, c, d, e, f, g, h, i>>, a, b, c, d, e, f, g, h, i)
BY DEF Nine

Says(b, m, n, form) ==
    /\ b \in Seq(Byte) /\ Len(b) = Own(form)
    /\ form = "one" => b[1] = m + n
    /\ form = "two" => b[1] = m + 126 /\ b[2] = Upper(n) /\ b[3] = n % 256
    /\ form = "eight" => /\ b[1] = m + 127
                         /\ b[2] = 0 /\ b[3] = 0 /\ b[4] = 0 /\ b[5] = 0
                         /\ b[6] = Upper(Upper(Upper(n))) /\ b[7] = Upper(Upper(n)) % 256
                         /\ b[8] = Upper(n) % 256 /\ b[9] = n % 256
    /\ form = "top" => b[1] = m + 127 /\ b[2] = 255 /\ b[9] = 255

LEMMA OneSays ==
    ASSUME NEW m \in {0, 128}, NEW n \in Nat, n < 126, NEW b, b = BytesFor(m, n, "one")
    PROVE  Says(b, m, n, "one")
<1>1. PICK i : i = m + n  OBVIOUS
<1>2. i \in Byte
  BY <1>1 DEF Byte
<1>3. b = <<i>>
  BY <1>1, BytesOne, Zenon
<1>4. b \in Seq(Byte) /\ Len(b) = 1 /\ b[1] = i
  BY <1>2, <1>3, OneByte, Zenon
<1>5. Own("one") = 1
  BY Zenon DEF Own
<1> QED  BY <1>1, <1>4, <1>5, Zenon DEF Says

LEMMA TwoSays ==
    ASSUME NEW m \in {0, 128}, NEW n, Upper(n) \in Byte, n % 256 \in Byte,
           NEW b, b = BytesFor(m, n, "two")
    PROVE  Says(b, m, n, "two")
<1>1. PICK i : i = m + 126  OBVIOUS
<1>2. PICK y : y = Upper(n)  OBVIOUS
<1>3. PICK z : z = n % 256  OBVIOUS
<1>4. i \in Byte /\ y \in Byte /\ z \in Byte
  BY <1>1, <1>2, <1>3 DEF Byte
<1>5. b = <<i, y, z>>
  BY <1>1, <1>2, <1>3, BytesTwo, Zenon
<1>6. b \in Seq(Byte) /\ Len(b) = 3 /\ b[1] = i /\ b[2] = y /\ b[3] = z
  <2>1. Three(<<i, y, z>>, i, y, z)
    BY <1>4, ThreeBytes, Zenon
  <2> QED  BY <1>5, <2>1, Zenon DEF Three
<1>7. Own("two") = 3
  BY DEF Own
<1> QED  BY <1>1, <1>2, <1>3, <1>6, <1>7, Zenon DEF Says

LEMMA EightSays ==
    ASSUME NEW m \in {0, 128}, NEW n,
           n % 256 \in Byte, Upper(n) % 256 \in Byte, Upper(Upper(n)) % 256 \in Byte,
           Upper(Upper(Upper(n))) \in Byte, NEW b, b = BytesFor(m, n, "eight")
    PROVE  Says(b, m, n, "eight")
<1>1. PICK j : j = m + 127  OBVIOUS
<1>2. PICK z : z = n % 256  OBVIOUS
<1>3. PICK x : x = Upper(n) % 256  OBVIOUS
<1>4. PICK w : w = Upper(Upper(n)) % 256  OBVIOUS
<1>5. PICK v : v = Upper(Upper(Upper(n)))  OBVIOUS
<1>6. j \in Byte /\ 0 \in Byte
  BY <1>1 DEF Byte
<1>7. z \in Byte /\ x \in Byte /\ w \in Byte /\ v \in Byte
  BY <1>2, <1>3, <1>4, <1>5
<1>8. b = <<j, 0, 0, 0, 0, v, w, x, z>>
  <2>1. b = <<m + 127, 0, 0, 0, 0, Upper(Upper(Upper(n))), Upper(Upper(n)) % 256,
              Upper(n) % 256, n % 256>>
    BY BytesEight, Zenon
  <2> QED  BY <1>1, <1>2, <1>3, <1>4, <1>5, <2>1, Zenon
<1>9. /\ b \in Seq(Byte) /\ Len(b) = 9 /\ b[1] = j /\ b[2] = 0 /\ b[3] = 0 /\ b[4] = 0
      /\ b[5] = 0 /\ b[6] = v /\ b[7] = w /\ b[8] = x /\ b[9] = z
  <2>1. Nine(<<j, 0, 0, 0, 0, v, w, x, z>>, j, 0, 0, 0, 0, v, w, x, z)
    BY <1>6, <1>7, NineBytes, Zenon
  <2> QED  BY <1>8, <2>1, Zenon DEF Nine
<1>10. Own("eight") = 9
  BY DEF Own
<1> QED  BY <1>1, <1>2, <1>3, <1>4, <1>5, <1>9, <1>10, Zenon DEF Says

LEMMA TopSays ==
    ASSUME NEW m \in {0, 128}, NEW n, NEW b, b = BytesFor(m, n, "top")
    PROVE  Says(b, m, n, "top")
<1>1. PICK j : j = m + 127  OBVIOUS
<1>2. PICK k : k = 255  OBVIOUS
<1>3. j \in Byte /\ k \in Byte
  BY <1>1, <1>2 DEF Byte
<1>4. b = <<j, k, k, k, k, k, k, k, k>>
  <2>1. b = <<m + 127, 255, 255, 255, 255, 255, 255, 255, 255>>
    BY BytesTop, Zenon
  <2> QED  BY <1>1, <1>2, <2>1, Zenon
<1>5. b \in Seq(Byte) /\ Len(b) = 9 /\ b[1] = j /\ b[2] = k /\ b[9] = k
  <2>1. Nine(<<j, k, k, k, k, k, k, k, k>>, j, k, k, k, k, k, k, k, k)
    BY <1>3, NineBytes, Zenon
  <2> QED  BY <1>4, <2>1, Zenon DEF Nine
<1>6. Own("top") = 9
  BY DEF Own
<1> QED  BY <1>1, <1>2, <1>5, <1>6, Zenon DEF Says

LEMMA LengthSaid ==
    ASSUME NEW f, Lawful(f)
    PROVE  Says(LengthBytes(f), IF f.mask = <<>> THEN 0 ELSE 128, Len(f.data), f.form)
<1>1. PICK n : n = Len(f.data)  OBVIOUS
<1>2. PICK m : m = IF f.mask = <<>> THEN 0 ELSE 128  OBVIOUS
<1>3. PICK b : b = LengthBytes(f)  OBVIOUS
<1>4. PICK o : o = f.form  OBVIOUS
<1>5. b = BytesFor(m, n, o)
  BY <1>1, <1>2, <1>3, <1>4, LengthBytesIs, Zenon
<1>6. n \in Nat /\ o \in Forms /\ (o = "one" => n < 126)
  BY <1>1, <1>4, LawfulIs, Zenon
<1>7. m \in {0, 128}
  BY <1>2
<1>8. /\ n % 256 \in Byte /\ Upper(n) % 256 \in Byte /\ Upper(Upper(n)) % 256 \in Byte
      /\ Upper(Upper(Upper(n))) \in Byte
      /\ o = "two" => Upper(n) \in Byte
  <2>1. n <= Longest(o)
    BY <1>1, <1>4, Zenon DEF Lawful, Fits
  <2>2. Sizes(n, o)
    BY <1>6, <2>1, SizesFit, Zenon
  <2> QED  BY <2>2, Zenon DEF Sizes
<1>9. CASE o = "one"
  BY <1>5, <1>6, <1>7, <1>9, OneSays, <1>1, <1>2, <1>3, <1>4, Zenon
<1>10. CASE o = "two"
  BY <1>5, <1>7, <1>8, <1>10, TwoSays, <1>1, <1>2, <1>3, <1>4, Zenon
<1>11. CASE o = "eight"
  BY <1>5, <1>7, <1>8, <1>11, EightSays, <1>1, <1>2, <1>3, <1>4, Zenon
<1>12. CASE o = "top"
  BY <1>5, <1>7, <1>12, TopSays, <1>1, <1>2, <1>3, <1>4, Zenon
<1> QED  BY <1>6, <1>9, <1>10, <1>11, <1>12, Zenon DEF Forms

LEMMA HeadIs ==
    ASSUME NEW f, Lawful(f)
    PROVE  /\ Own(f.form) \in {1, 3, 9} /\ HeadLen(f) \in Nat
           /\ HeadLen(f) = 1 + Own(f.form) + Len(f.mask)
           /\ f.form = "one" => Own(f.form) = 1
           /\ f.form = "two" => Own(f.form) = 3
           /\ f.form \in {"eight", "top"} => Own(f.form) = 9
<1>1. f.form \in Forms /\ Len(f.mask) \in {0, 4}
  BY LawfulIs
<1>2. /\ Own(f.form) \in {1, 3, 9}
      /\ f.form = "one" => Own(f.form) = 1
      /\ f.form = "two" => Own(f.form) = 3
      /\ f.form \in {"eight", "top"} => Own(f.form) = 9
  BY <1>1 DEF Forms, Own
<1>3. HeadLen(f) = 1 + Own(f.form) + Len(f.mask)
  BY DEF HeadLen
<1> QED  BY <1>1, <1>2, <1>3

Flags(f) == (IF f.fin THEN 128 ELSE 0) + f.op

LEMMA FlagsRead ==
    ASSUME NEW f, Lawful(f), NEW b, b = Flags(f)
    PROVE  b \in Byte /\ (IsFin(b) <=> f.fin) /\ Opcode(b) = f.op
<1>1. f.fin \in BOOLEAN /\ f.op \in {0, 1, 8, 9, 10}
  BY LawfulIs
<1>2. PICK o : o = f.op  OBVIOUS
<1>3. o \in {0, 1, 8, 9, 10}
  BY <1>1, <1>2
<1>4. CASE f.fin
  <2>1. b = 128 + o
    BY <1>2, <1>4 DEF Flags
  <2>2. b >= 128 /\ b % 16 = o /\ b \in Byte
    BY <1>3, <2>1 DEF Byte
  <2> QED  BY <1>2, <1>4, <2>2 DEF IsFin, Opcode
<1>5. CASE ~f.fin
  <2>1. b = o
    BY <1>2, <1>3, <1>5 DEF Flags
  <2>2. ~(b >= 128) /\ b % 16 = o /\ b \in Byte
    BY <1>3, <2>1 DEF Byte
  <2> QED  BY <1>2, <1>5, <2>2 DEF IsFin, Opcode
<1> QED  BY <1>1, <1>4, <1>5

(* The bytes of a frame: its flags, its length, its mask, its data. *)
LEMMA FrameShape ==
    ASSUME NEW f, Lawful(f), NEW t, t = FrameBytes(f)
    PROVE  /\ t \in Seq(Byte) /\ Len(t) = HeadLen(f) + Len(f.data)
           /\ t[1] = Flags(f)
           /\ \A j \in 1..Own(f.form) : t[1 + j] = LengthBytes(f)[j]
           /\ \A j \in 1..Len(f.mask) : t[1 + Own(f.form) + j] = f.mask[j]
           /\ \A j \in 1..Len(f.data) : t[HeadLen(f) + j] = Masked(f.data, f.mask)[j]
<1>1. PICK a : a = <<Flags(f)>>  OBVIOUS
<1>2. PICK h : h = LengthBytes(f)  OBVIOUS
<1>3. PICK d : d = f.mask  OBVIOUS
<1>4. PICK e : e = Masked(f.data, f.mask)  OBVIOUS
<1>5. a \in Seq(Byte) /\ Len(a) = 1 /\ a[1] = Flags(f)
  BY <1>1, FlagsRead
<1>6. h \in Seq(Byte) /\ Len(h) = Own(f.form)
  <2>1. PICK n : n = Len(f.data)  OBVIOUS
  <2>2. PICK m : m = IF f.mask = <<>> THEN 0 ELSE 128  OBVIOUS
  <2>3. Says(h, m, n, f.form)
    BY <1>2, <2>1, <2>2, LengthSaid, Zenon
  <2> QED  BY <2>3, Zenon DEF Says
<1>7. d \in Seq(Byte) /\ Len(d) \in {0, 4}
  BY <1>3, LawfulIs
<1>8. e \in Seq(Byte) /\ Len(e) = Len(f.data)
  <2>1. f.data \in Seq(Byte) /\ f.mask \in Seq(Byte) /\ Len(f.mask) \in {0, 4}
    BY LawfulIs
  <2> QED  BY <1>4, <2>1, MaskedType
<1>9. PICK b : b = a \o h  OBVIOUS
<1>10. PICK c : c = b \o d  OBVIOUS
<1>11. t = c \o e
  BY <1>1, <1>2, <1>3, <1>4, <1>9, <1>10, Zenon DEF FrameBytes, Flags
<1>12. /\ t \in Seq(Byte)
       /\ Len(t) = Len(a) + Len(h) + Len(d) + Len(e)
       /\ \A j \in 1..Len(a) : t[j] = a[j]
       /\ \A j \in 1..Len(h) : t[Len(a) + j] = h[j]
       /\ \A j \in 1..Len(d) : t[Len(a) + Len(h) + j] = d[j]
       /\ \A j \in 1..Len(e) : t[Len(a) + Len(h) + Len(d) + j] = e[j]
  <2>1. a \in Seq(Byte) /\ h \in Seq(Byte) /\ d \in Seq(Byte) /\ e \in Seq(Byte)
    BY <1>5, <1>6, <1>7, <1>8
  <2> QED  BY <1>9, <1>10, <1>11, <2>1, Layers
<1>13. HeadLen(f) = 1 + Own(f.form) + Len(d)
  BY <1>3, HeadIs
<1>14. t[1] = a[1]
  <2>1. 1 \in 1..Len(a)
    BY <1>5
  <2> QED  BY <1>12, <2>1
<1>15. PICK o : o = Own(f.form)  OBVIOUS
<1>16. o \in Nat /\ Len(f.data) \in Nat /\ Len(d) \in Nat
  BY <1>7, <1>15, HeadIs, LawfulIs
<1>17. Len(a) = 1 /\ Len(h) = o /\ Len(e) = Len(f.data) /\ HeadLen(f) = 1 + o + Len(d)
  BY <1>5, <1>6, <1>8, <1>13, <1>15
<1>18. /\ Len(t) = HeadLen(f) + Len(f.data)
       /\ \A j \in 1..o : t[1 + j] = h[j]
       /\ \A j \in 1..Len(d) : t[1 + o + j] = d[j]
       /\ \A j \in 1..Len(f.data) : t[HeadLen(f) + j] = e[j]
  BY <1>12, <1>16, <1>17
<1>19. t \in Seq(Byte) /\ t[1] = Flags(f)
  BY <1>5, <1>12, <1>14
<1> QED  BY <1>2, <1>3, <1>4, <1>15, <1>18, <1>19, Zenon

(* s begins as t does, as far as both go. *)
Agrees(s, t) == \A j \in 1..Len(s) : j <= Len(t) => s[j] = t[j]

LEMMA SecondByte ==
    ASSUME NEW f, Lawful(f), NEW s \in Seq(Byte), Agrees(s, FrameBytes(f)), Len(s) >= 2
    PROVE  /\ f.form = "one" => s[2] % 128 = Len(f.data)
           /\ f.form = "two" => s[2] % 128 = 126
           /\ f.form \in {"eight", "top"} => s[2] % 128 = 127
           /\ (s[2] >= 128 <=> Len(f.mask) = 4)
<1>1. PICK t : t = FrameBytes(f)  OBVIOUS
<1>2. PICK b : b = LengthBytes(f)  OBVIOUS
<1>3. PICK n : n = Len(f.data)  OBVIOUS
<1>4. PICK m : m = IF f.mask = <<>> THEN 0 ELSE 128  OBVIOUS
<1>5. /\ n \in Nat /\ f.form \in Forms /\ m \in {0, 128} /\ (m = 128 <=> Len(f.mask) = 4)
      /\ (f.form = "one" => n < 126)
  <2>1. /\ n \in Nat /\ f.form \in Forms /\ Len(f.mask) \in {0, 4}
        /\ (f.mask = <<>> <=> Len(f.mask) = 0)
        /\ (f.form = "one" => n < 126)
    BY <1>3, LawfulIs
  <2>2. CASE f.mask = <<>>
    <3>1. m = 0 /\ Len(f.mask) = 0
      BY <1>4, <2>1, <2>2
    <3> QED  BY <2>1, <3>1
  <2>3. CASE f.mask # <<>>
    <3>1. m = 128 /\ Len(f.mask) = 4
      BY <1>4, <2>1, <2>3
    <3> QED  BY <2>1, <3>1
  <2> QED  BY <2>2, <2>3
<1>6. /\ f.form = "one" => b[1] = m + n
      /\ f.form = "two" => b[1] = m + 126
      /\ f.form = "eight" => b[1] = m + 127
      /\ f.form = "top" => b[1] = m + 127
  <2>1. Says(b, m, n, f.form)
    BY <1>2, <1>3, <1>4, LengthSaid, Zenon
  <2> QED  BY <2>1, Zenon DEF Says
<1>7. /\ Own(f.form) \in {1, 3, 9} /\ Len(f.mask) \in {0, 4}
      /\ HeadLen(f) = 1 + Own(f.form) + Len(f.mask)
  BY HeadIs, LawfulIs
<1>8. s[2] = b[1]
  <2>1. Len(t) = HeadLen(f) + n /\ \A j \in 1..Own(f.form) : t[1 + j] = b[j]
    BY <1>1, <1>2, <1>3, FrameShape
  <2>2. 1 \in 1..Own(f.form) /\ 2 <= Len(t)
    BY <1>5, <1>7, <2>1
  <2>3. t[1 + 1] = b[1]
    BY <2>1, <2>2
  <2>4. 2 \in 1..Len(s)
    BY LenProperties
  <2>5. s[2] = t[2]
    BY <1>1, <2>2, <2>4 DEF Agrees
  <2> QED  BY <2>3, <2>5
<1>9. CASE f.form = "one"
  BY <1>3, <1>5, <1>6, <1>8, <1>9
<1>10. CASE f.form = "two"
  BY <1>5, <1>6, <1>8, <1>10
<1>11. CASE f.form \in {"eight", "top"}
  BY <1>5, <1>6, <1>8, <1>11
<1> QED  BY <1>5, <1>9, <1>10, <1>11 DEF Forms

LEMMA LengthsRead ==
    ASSUME NEW f, Lawful(f), NEW s \in Seq(Byte), Agrees(s, FrameBytes(f)),
           Len(s) >= HeadLen(f)
    PROVE  LengthsOf(s) = [header |-> HeadLen(f),
                           data |-> IF f.form = "top" THEN -1 ELSE Len(f.data),
                           mask |-> Len(f.mask)]
<1>1. PICK t : t = FrameBytes(f)  OBVIOUS
<1>2. PICK b : b = LengthBytes(f)  OBVIOUS
<1>3. PICK n : n = Len(f.data)  OBVIOUS
<1>4. PICK m : m = Len(f.mask)  OBVIOUS
<1>5. PICK l : l = Len(s)  OBVIOUS
<1>6. /\ n \in Nat /\ f.form \in Forms /\ m \in {0, 4} /\ l \in Nat
      /\ (f.form = "one" => n < 126)
  BY <1>3, <1>4, <1>5, LawfulIs, LenProperties
<1>7. Own(f.form) \in {1, 3, 9} /\ HeadLen(f) = 1 + Own(f.form) + m /\ l >= 1 + Own(f.form) + m
      /\ (f.form = "one" => Own(f.form) = 1) /\ (f.form = "two" => Own(f.form) = 3)
      /\ (f.form \in {"eight", "top"} => Own(f.form) = 9)
  BY <1>4, <1>5, HeadIs
<1>8. l >= 2 /\ Len(s) >= 2
  BY <1>5, <1>6, <1>7
<1>9. /\ f.form = "one" => s[2] % 128 = n
      /\ f.form = "two" => s[2] % 128 = 126
      /\ f.form \in {"eight", "top"} => s[2] % 128 = 127
      /\ (s[2] >= 128 <=> m = 4)
  BY <1>3, <1>4, <1>8, SecondByte
<1>10. m = IF s[2] >= 128 THEN 4 ELSE 0
  BY <1>6, <1>9
<1>11. \A j \in 1..Own(f.form) : s[1 + j] = b[j]
  <2> TAKE j \in 1..Own(f.form)
  <2>1. 1 + j \in 1..l
    BY <1>6, <1>7
  <2>2. Len(t) = HeadLen(f) + n /\ t[1 + j] = b[j]
    BY <1>1, <1>2, <1>3, FrameShape
  <2>3. 1 + j <= Len(t)
    BY <1>6, <1>7, <2>2
  <2>4. s[1 + j] = t[1 + j]
    BY <1>1, <1>5, <2>1, <2>3 DEF Agrees
  <2> QED  BY <2>2, <2>4
<1>12. LengthsOf(s) =
         IF l < 2 THEN [header |-> 0, data |-> 0, mask |-> 0]
         ELSE IF s[2] % 128 < 126 /\ l >= m
         THEN [header |-> 2 + m, data |-> s[2] % 128, mask |-> m]
         ELSE IF s[2] % 128 = 126 /\ l >= 4 + m
         THEN [header |-> 4 + m, data |-> 256 * s[3] + s[4], mask |-> m]
         ELSE IF l >= 10 + m
         THEN [header |-> 10 + m, data |-> Eight(SubSeq(s, 3, 10)), mask |-> m]
         ELSE [header |-> 0, data |-> 0, mask |-> m]
  BY <1>5, <1>10, Zenon DEF LengthsOf
<1>13. CASE f.form = "one"
  <2>1. s[2] % 128 = n /\ n < 126 /\ l >= m /\ ~(l < 2) /\ HeadLen(f) = 2 + m
    BY <1>6, <1>7, <1>8, <1>9, <1>13
  <2>2. LengthsOf(s) = [header |-> 2 + m, data |-> n, mask |-> m]
    BY <1>12, <2>1
  <2> QED  BY <1>3, <1>4, <1>13, <2>1, <2>2
<1>14. CASE f.form = "two"
  <2>1. s[2] % 128 = 126 /\ l >= 4 + m /\ ~(l < 2) /\ HeadLen(f) = 4 + m
    BY <1>6, <1>7, <1>8, <1>9, <1>14
  <2>2. LengthsOf(s) = [header |-> 4 + m, data |-> 256 * s[3] + s[4], mask |-> m]
    BY <1>12, <2>1
  <2>3. s[3] = Upper(n) /\ s[4] = n % 256
    <3>1. 2 \in 1..Own(f.form) /\ 3 \in 1..Own(f.form)
      BY <1>7, <1>14
    <3>2. s[1 + 2] = b[2] /\ s[1 + 3] = b[3]
      BY <1>11, <3>1
    <3>3. PICK q : q = IF f.mask = <<>> THEN 0 ELSE 128  OBVIOUS
    <3>4. b[2] = Upper(n) /\ b[3] = n % 256
      <4>1. Says(b, q, n, f.form)
        BY <1>2, <1>3, <3>3, LengthSaid, Zenon
      <4> QED  BY <1>14, <4>1, Zenon DEF Says
    <3> QED  BY <3>2, <3>4
  <2>4. 256 * s[3] + s[4] = n
    BY <1>6, <2>3 DEF Upper
  <2> QED  BY <1>3, <1>4, <1>14, <2>1, <2>2, <2>4
<1>15. CASE f.form \in {"eight", "top"}
  <2>1. s[2] % 128 = 127 /\ l >= 10 + m /\ ~(l < 2) /\ HeadLen(f) = 10 + m
    BY <1>6, <1>7, <1>8, <1>9, <1>15
  <2>2. PICK u : u = SubSeq(s, 3, 10)  OBVIOUS
  <2>3. LengthsOf(s) = [header |-> 10 + m, data |-> Eight(u), mask |-> m]
    BY <1>12, <2>1, <2>2
  <2>4. \A i \in 1..8 : u[i] = b[1 + i]
    <3>1. 3 \in Nat /\ 0 < 3 /\ 10 \in Int /\ 10 <= Len(s)
      BY <1>5, <1>6, <2>1
    <3>2. \A x \in 1..(10 - 3 + 1) : SubSeq(s, 3, 10)[x] = s[3 + x - 1]
      BY <3>1, PieceOf
    <3>3. \A i \in 1..8 : u[i] = s[1 + (1 + i)] /\ 1 + i \in 1..Own(f.form)
      BY <1>7, <1>15, <2>2, <3>2
    <3> QED  BY <1>11, <3>3
  <2>5. PICK q : q = IF f.mask = <<>> THEN 0 ELSE 128  OBVIOUS
  <2>6. /\ Eight(u) = IF u[1] = 255 THEN u[8] - 256
                      ELSE 256 * (256 * (256 * (256 * (256 * (256 * (256 * u[1] + u[2]) + u[3])
                             + u[4]) + u[5]) + u[6]) + u[7]) + u[8]
    BY Zenon DEF Eight
  <2>7. CASE f.form = "eight"
    <3>1. PICK x : x = Upper(n)  OBVIOUS
    <3>2. PICK y : y = Upper(x)  OBVIOUS
    <3>3. PICK z : z = Upper(y)  OBVIOUS
    <3>4. /\ n = 256 * x + (n % 256) /\ x = 256 * y + (x % 256) /\ y = 256 * z + (y % 256)
          /\ x \in Nat /\ y \in Nat /\ z \in Nat
      <4>1. n \in Nat
        BY <1>6
      <4>2. x \in Nat /\ n = 256 * x + (n % 256)
        BY <3>1, <4>1, UpperIs, Zenon
      <4>3. y \in Nat /\ x = 256 * y + (x % 256)
        BY <3>2, <4>2, UpperIs, Zenon
      <4>4. z \in Nat /\ y = 256 * z + (y % 256)
        BY <3>3, <4>3, UpperIs, Zenon
      <4> QED  BY <4>2, <4>3, <4>4
    <3>5. /\ b[2] = 0 /\ b[3] = 0 /\ b[4] = 0 /\ b[5] = 0
          /\ b[6] = z /\ b[7] = y % 256 /\ b[8] = x % 256 /\ b[9] = n % 256
      <4>1. Says(b, q, n, f.form)
        BY <1>2, <1>3, <2>5, LengthSaid, Zenon
      <4> QED  BY <2>7, <3>1, <3>2, <3>3, <4>1, Zenon DEF Says
    <3>6. /\ u[1] = 0 /\ u[2] = 0 /\ u[3] = 0 /\ u[4] = 0
          /\ u[5] = z /\ u[6] = y % 256 /\ u[7] = x % 256 /\ u[8] = n % 256
      BY <2>4, <3>5
    <3>7. Eight(u) = 256 * (256 * (256 * z + (y % 256)) + (x % 256)) + (n % 256)
      BY <2>6, <3>4, <3>6
    <3>8. Eight(u) = n
      BY <3>4, <3>7
    <3> QED  BY <1>3, <1>4, <2>1, <2>3, <2>7, <3>8
  <2>8. CASE f.form = "top"
    <3>1. b[2] = 255 /\ b[9] = 255
      <4>1. Says(b, q, n, f.form)
        BY <1>2, <1>3, <2>5, LengthSaid, Zenon
      <4> QED  BY <2>8, <4>1, Zenon DEF Says
    <3>2. u[1] = 255 /\ u[8] = 255
      BY <2>4, <3>1
    <3>3. Eight(u) = -1
      BY <2>6, <3>2
    <3> QED  BY <1>4, <2>1, <2>3, <2>8, <3>3
  <2> QED  BY <1>15, <2>7, <2>8
<1> QED  BY <1>6, <1>13, <1>14, <1>15 DEF Forms

(* Until all of the head has come, nothing is taken. *)
LEMMA LengthsAwaited ==
    ASSUME NEW f, Lawful(f), NEW s \in Seq(Byte), Agrees(s, FrameBytes(f)),
           Len(s) < HeadLen(f), NEW r, r = LengthsOf(s)
    PROVE  ~Overflows(r) /\ (r.header + r.data <= 0 \/ r.header + r.data > Len(s))
<1>1. PICK n : n = Len(f.data)  OBVIOUS
<1>2. PICK m : m = Len(f.mask)  OBVIOUS
<1>3. PICK l : l = Len(s)  OBVIOUS
<1>4. /\ n \in Nat /\ f.form \in Forms /\ m \in {0, 4} /\ l \in Nat
      /\ (f.form = "one" => n < 126)
  BY <1>1, <1>2, <1>3, LawfulIs, LenProperties
<1>5. /\ l < 1 + Own(f.form) + m
      /\ (f.form = "one" => Own(f.form) = 1) /\ (f.form = "two" => Own(f.form) = 3)
      /\ (f.form \in {"eight", "top"} => Own(f.form) = 9)
  BY <1>2, <1>3, HeadIs
<1>6. CASE l < 2
  <2>1. r = [header |-> 0, data |-> 0, mask |-> 0]
    BY <1>3, <1>6, Zenon DEF LengthsOf
  <2> QED  BY <2>1 DEF Overflows
<1>7. CASE l >= 2
  <2>1. /\ f.form = "one" => s[2] % 128 = n
        /\ f.form = "two" => s[2] % 128 = 126
        /\ f.form \in {"eight", "top"} => s[2] % 128 = 127
        /\ (s[2] >= 128 <=> m = 4)
    BY <1>1, <1>2, <1>3, <1>7, SecondByte
  <2>2. m = IF s[2] >= 128 THEN 4 ELSE 0
    BY <1>4, <2>1
  <2>3. r = IF l < 2 THEN [header |-> 0, data |-> 0, mask |-> 0]
            ELSE IF s[2] % 128 < 126 /\ l >= m
            THEN [header |-> 2 + m, data |-> s[2] % 128, mask |-> m]
            ELSE IF s[2] % 128 = 126 /\ l >= 4 + m
            THEN [header |-> 4 + m, data |-> 256 * s[3] + s[4], mask |-> m]
            ELSE IF l >= 10 + m
            THEN [header |-> 10 + m, data |-> Eight(SubSeq(s, 3, 10)), mask |-> m]
            ELSE [header |-> 0, data |-> 0, mask |-> m]
    BY <1>3, <2>2, Zenon DEF LengthsOf
  <2>4. CASE f.form = "one" /\ l >= m
    <3>1. r = [header |-> 2 + m, data |-> n, mask |-> m]
      BY <1>4, <1>7, <2>1, <2>3, <2>4
    <3>2. PICK h : h = 2 + m  OBVIOUS
    <3>3. r.header = h /\ r.data = n
      BY <3>1, <3>2
    <3>4. h \in Nat /\ n \in Nat /\ l \in Nat /\ h + n > l
      BY <1>4, <1>5, <2>4, <3>2
    <3>5. ~(n < 0) /\ h + n > Len(s)
      BY <1>3, <3>4
    <3> QED  BY <3>3, <3>5, Zenon DEF Overflows
  <2>5. CASE ~(f.form = "one" /\ l >= m)
    <3>1. r = [header |-> 0, data |-> 0, mask |-> m]
      BY <1>4, <1>5, <1>7, <2>1, <2>3, <2>5 DEF Forms
    <3>2. r.header = 0 /\ r.data = 0
      BY <3>1
    <3> QED  BY <3>2 DEF Overflows
  <2> QED  BY <2>4, <2>5
<1> QED  BY <1>4, <1>6, <1>7

-----------------------------------------------------------------------------
(* Where the frames lie in what the peer sends *)

FrameTexts(s) == [i \in DOMAIN s |-> FrameBytes(s[i])]

FrameStream(s) == FlattenSeq(FrameTexts(s))

(* The place behind the first k frames. *)
FrameAt(s, k) == Len(Flat(FrameTexts(s), k))

LEMMA StreamsAre ==
    ASSUME NEW s \in Streams
    PROVE  /\ s \in Seq(Frame) /\ Len(s) \in Nat /\ DOMAIN s = 1..Len(s) /\ Orderly(s)
           /\ \A k \in 1..Len(s) : Lawful(s[k])
           /\ FrameTexts(s) \in Seq(Seq(Byte)) /\ Len(FrameTexts(s)) = Len(s)
           /\ \A k \in 1..Len(s) : /\ FrameTexts(s)[k] = FrameBytes(s[k])
                                   /\ FrameBytes(s[k]) \in Seq(Byte)
                                   /\ Len(FrameBytes(s[k])) \in Nat
                                   /\ Len(FrameBytes(s[k])) = HeadLen(s[k]) + Len(s[k].data)
                                   /\ Len(FrameBytes(s[k])) > 1
<1>1. s \in Seq(Frame) /\ Orderly(s) /\ \A i \in DOMAIN s : Fits(s[i])
  BY FramesAssumption
<1>2. Len(s) \in Nat /\ DOMAIN s = 1..Len(s)
  BY <1>1, LenProperties
<1>3. \A k \in 1..Len(s) : Lawful(s[k])
  BY <1>1, <1>2, ElementOfSeq DEF Lawful
<1>4. ASSUME NEW k \in 1..Len(s)
      PROVE  /\ FrameBytes(s[k]) \in Seq(Byte) /\ Len(FrameBytes(s[k])) \in Nat
             /\ Len(FrameBytes(s[k])) = HeadLen(s[k]) + Len(s[k].data)
             /\ Len(FrameBytes(s[k])) > 1
  <2>1. PICK f : f = s[k]  OBVIOUS
  <2>2. PICK t : t = FrameBytes(f)  OBVIOUS
  <2>3. Lawful(f)
    BY <1>3, <2>1
  <2>4. t \in Seq(Byte) /\ Len(t) = HeadLen(f) + Len(f.data)
    BY <2>2, <2>3, FrameShape
  <2>5. /\ Len(f.data) \in Nat /\ Own(f.form) \in {1, 3, 9}
        /\ HeadLen(f) = 1 + Own(f.form) + Len(f.mask)
        /\ Len(f.mask) \in {0, 4}
    BY <2>3, LawfulIs, HeadIs
  <2>6. Len(t) \in Nat /\ Len(t) > 1
    BY <2>4, <2>5
  <2> QED  BY <2>1, <2>2, <2>4, <2>6
<1>5. PICK t : t = FrameTexts(s)  OBVIOUS
<1>6. t = [i \in 1..Len(s) |-> FrameBytes(s[i])]
  BY <1>2, <1>5, Zenon DEF FrameTexts
<1>7. t \in [1..Len(s) -> Seq(Byte)]
  BY <1>4, <1>6
<1>8. t \in Seq(Seq(Byte)) /\ Len(t) = Len(s)
  BY <1>2, <1>7, SeqDef, LenProperties
<1>9. \A k \in 1..Len(s) : t[k] = FrameBytes(s[k])
  BY <1>6
<1> QED  BY <1>1, <1>2, <1>3, <1>4, <1>5, <1>8, <1>9

LEMMA FramesLie ==
    ASSUME NEW s \in Streams
    PROVE  /\ FrameStream(s) \in Seq(Byte) /\ Len(FrameStream(s)) \in Nat
           /\ \A k \in 0..Len(s) : FrameAt(s, k) \in 0..Len(FrameStream(s))
           /\ FrameAt(s, 0) = 0 /\ FrameAt(s, Len(s)) = Len(FrameStream(s))
           /\ \A k \in 1..Len(s) :
                /\ FrameAt(s, k) = FrameAt(s, k - 1) + Len(FrameBytes(s[k]))
                /\ \A x \in 1..Len(FrameBytes(s[k])) :
                      FrameStream(s)[FrameAt(s, k - 1) + x] = FrameBytes(s[k])[x]
<1>1. PICK n : n = Len(s)  OBVIOUS
<1>2. PICK t : t = FrameTexts(s)  OBVIOUS
<1>3. n \in Nat /\ t \in Seq(Seq(Byte)) /\ Len(t) = n
      /\ \A k \in 1..n : t[k] = FrameBytes(s[k])
  BY <1>1, <1>2, StreamsAre
<1>4. PICK w : w = FrameStream(s)  OBVIOUS
<1>5. w = Flat(t, n)
  BY <1>2, <1>3, <1>4, FlattenIsFlat DEF FrameStream
<1>6. /\ Flat(t, 0) = <<>>
      /\ \A k \in 1..n : Flat(t, k) = Flat(t, k - 1) \o t[k]
      /\ \A k \in 0..n : Flat(t, k) \in Seq(Byte)
  BY <1>3, FlatSteps
<1>7. \A k \in 0..n : FrameAt(s, k) = Len(Flat(t, k))
  BY <1>2 DEF FrameAt
<1>8. \A k \in 0..n : /\ Len(Flat(t, k)) \in 0..Len(w)
                      /\ \A x \in 1..Len(Flat(t, k)) : w[x] = Flat(t, k)[x]
  <2> TAKE k \in 0..n
  <2>1. n \in k..Len(t) /\ k \in 0..Len(t)
    BY <1>3
  <2>2. /\ Len(Flat(t, k)) <= Len(w)
        /\ \A x \in 1..Len(Flat(t, k)) : w[x] = Flat(t, k)[x]
    BY <1>3, <1>5, <2>1, FlatFront
  <2>3. Len(Flat(t, k)) \in Nat /\ Len(w) \in Nat
    BY <1>3, <1>5, <1>6, LenProperties
  <2> QED  BY <2>2, <2>3
<1>9. \A k \in 0..n : FrameAt(s, k) \in 0..Len(w)
  BY <1>7, <1>8
<1>10. FrameAt(s, 0) = 0
  BY <1>3, <1>6, <1>7, EmptySeq
<1>11. FrameAt(s, n) = Len(w)
  BY <1>3, <1>5, <1>7
<1>12. ASSUME NEW k \in 1..n
       PROVE  /\ FrameAt(s, k) = FrameAt(s, k - 1) + Len(t[k])
              /\ \A x \in 1..Len(t[k]) : w[FrameAt(s, k - 1) + x] = t[k][x]
  <2>1. PICK a : a = Flat(t, k - 1)  OBVIOUS
  <2>2. PICK b : b = Flat(t, k)  OBVIOUS
  <2>3. PICK u : u = t[k]  OBVIOUS
  <2>4. k - 1 \in 0..n /\ k \in 0..n
    BY <1>3
  <2>5. a \in Seq(Byte) /\ u \in Seq(Byte) /\ b = a \o u
    BY <1>3, <1>6, <2>1, <2>2, <2>3, <2>4, ElementOfSeq
  <2>6. /\ Len(a) \in Nat /\ Len(u) \in Nat /\ Len(b) = Len(a) + Len(u)
        /\ \A j \in 1..Len(u) : b[Len(a) + j] = u[j]
    BY <2>5, JoinsAs
  <2>7. FrameAt(s, k - 1) = Len(a) /\ FrameAt(s, k) = Len(b)
    BY <1>7, <2>1, <2>2, <2>4
  <2>8. \A x \in 1..Len(b) : w[x] = b[x]
    BY <1>8, <2>2, <2>4
  <2>9. \A j \in 1..Len(u) : w[Len(a) + j] = u[j]
    <3> TAKE j \in 1..Len(u)
    <3>1. Len(a) + j \in 1..Len(b)
      BY <2>6
    <3> QED  BY <2>6, <2>8, <3>1
  <2> QED  BY <2>3, <2>6, <2>7, <2>9
<1>13. w \in Seq(Byte) /\ Len(w) \in Nat
  BY <1>3, <1>5, <1>6, LenProperties
<1>14. ASSUME NEW k \in 1..n
       PROVE  /\ FrameAt(s, k) = FrameAt(s, k - 1) + Len(FrameBytes(s[k]))
              /\ \A x \in 1..Len(FrameBytes(s[k])) :
                    w[FrameAt(s, k - 1) + x] = FrameBytes(s[k])[x]
  BY <1>3, <1>12
<1> QED  BY <1>1, <1>4, <1>9, <1>10, <1>11, <1>13, <1>14, Zenon

(* Places only go up. *)
LEMMA FrameAtGrows ==
    ASSUME NEW s \in Streams, NEW j \in 0..Len(s), NEW k \in j..Len(s)
    PROVE  FrameAt(s, j) <= FrameAt(s, k) /\ (j < k => FrameAt(s, j + 1) <= FrameAt(s, k))
<1>1. PICK n : n = Len(s)  OBVIOUS
<1>2. PICK t : t = FrameTexts(s)  OBVIOUS
<1>3. n \in Nat /\ t \in Seq(Seq(Byte)) /\ Len(t) = n
  BY <1>1, <1>2, StreamsAre
<1>4. ASSUME NEW i \in 0..k
      PROVE  FrameAt(s, i) <= FrameAt(s, k)
  <2>1. i \in 0..Len(t) /\ k \in i..Len(t)
    BY <1>1, <1>3
  <2>2. Len(Flat(t, i)) <= Len(Flat(t, k))
    BY <1>3, <2>1, FlatFront
  <2> QED  BY <1>2, <2>2 DEF FrameAt
<1>5. j \in 0..k /\ (j < k => j + 1 \in 0..k)
  BY <1>1, <1>3
<1> QED  BY <1>4, <1>5

LEMMA CameWholeIs ==
    ASSUME NEW s, s = frames, s \in Streams, NEW k \in 0..Len(s), fed_bytes \in Nat,
           FrameAt(s, k) <= fed_bytes, k = Len(s) \/ fed_bytes < FrameAt(s, k + 1)
    PROVE  CameWhole = k
<1>1. PICK n : n = Len(s)  OBVIOUS
<1>2. PICK t : t = FrameTexts(s)  OBVIOUS
<1>3. n \in Nat /\ t \in Seq(Seq(Byte)) /\ Len(t) = n
      /\ \A i \in 1..n : t[i] = FrameBytes(s[i])
  BY <1>1, <1>2, StreamsAre
<1>4. ASSUME NEW i \in 0..n
      PROVE  Len(FlattenSeq([x \in 1..i |-> FrameBytes(s[x])])) = FrameAt(s, i)
  <2>1. PICK u : u = [x \in 1..i |-> FrameBytes(s[x])]  OBVIOUS
  <2>2. i \in Nat
    BY <1>3
  <2>3. \A x \in 1..i : u[x] = t[x] /\ u[x] \in Seq(Byte)
    <3>1. \A x \in 1..i : x \in 1..n
      BY <1>3
    <3>2. \A x \in 1..n : t[x] \in Seq(Byte)
      BY <1>3, ElementOfSeq
    <3> QED  BY <1>3, <2>1, <3>1, <3>2
  <2>4. u \in [1..i -> Seq(Byte)]
    BY <2>1, <2>3
  <2>5. u \in Seq(Seq(Byte)) /\ Len(u) = i
    BY <2>2, <2>4, SeqDef, LenProperties
  <2>6. FlattenSeq(u) = Flat(u, i)
    BY <2>5, FlattenIsFlat
  <2>7. Flat(u, i) = Flat(t, i)
    <3>1. Len(u) <= Len(t) /\ i \in 0..Len(u)
      BY <1>3, <2>2, <2>5
    <3> QED  BY <1>3, <2>3, <2>5, <3>1, FlatOfFront
  <2> QED  BY <1>2, <2>1, <2>6, <2>7 DEF FrameAt
<1>5. \A i \in 0..n : FrameAt(s, i) \in Nat
  BY <1>1, FramesLie
<1>6. PICK T : T = {i \in 0..n : Len(FlattenSeq([x \in 1..i |-> FrameBytes(s[x])])) <= fed_bytes}
  OBVIOUS
<1>7. T = {i \in 0..n : FrameAt(s, i) <= fed_bytes}
  BY <1>4, <1>6
<1>8. k \in T
  BY <1>1, <1>7
<1>9. \A i \in T : i <= k
  <2> SUFFICES ASSUME NEW i \in T, i > k PROVE FALSE
    BY <1>1, <1>3, <1>7
  <2>1. i \in 0..n /\ FrameAt(s, i) <= fed_bytes /\ k \in Nat /\ k < n
    BY <1>1, <1>3, <1>7
  <2>2. FrameAt(s, k + 1) <= FrameAt(s, i)
    <3>1. i \in k..Len(s) /\ k < i
      BY <1>1, <2>1
    <3> QED  BY <3>1, FrameAtGrows
  <2>3. k + 1 \in 0..n
    BY <1>3, <2>1
  <2> QED  BY <1>1, <1>5, <2>1, <2>2, <2>3
<1>10. T \subseteq Int
  BY <1>3, <1>7
<1>11. Max(T) = k
  BY <1>8, <1>9, <1>10, MaxIs
<1>12. CameWhole = Max(T)
  BY <1>1, <1>6, Zenon DEF CameWhole
<1> QED  BY <1>11, <1>12

-----------------------------------------------------------------------------
(* What the frames mean, one frame after another *)

Message == [op : Nat, data : Seq(Byte)]

Meanings == [messages : Seq(Message), replies : Seq(Message),
             begun : {<<>>} \cup {<<g>> : g \in Message}, refused : BOOLEAN]

LEMMA BegunType ==
    ASSUME NEW m \in Meanings
    PROVE  /\ m.messages \in Seq(Message) /\ m.replies \in Seq(Message) /\ m.refused \in BOOLEAN
           /\ m.begun # <<>> => /\ m.begun[1].op \in Nat /\ m.begun[1].data \in Seq(Byte)
                                /\ m.begun = <<m.begun[1]>> /\ m.begun[1] \in Message
<1>1. /\ m.messages \in Seq(Message) /\ m.replies \in Seq(Message) /\ m.refused \in BOOLEAN
      /\ m.begun \in {<<>>} \cup {<<g>> : g \in Message}
  BY DEF Meanings
<1>2. ASSUME m.begun # <<>>
      PROVE  /\ m.begun[1].op \in Nat /\ m.begun[1].data \in Seq(Byte)
             /\ m.begun = <<m.begun[1]>> /\ m.begun[1] \in Message
  <2>1. PICK g \in Message : m.begun = <<g>>
    BY <1>1, <1>2
  <2>2. m.begun[1] = g
    BY <2>1
  <2>3. g.op \in Nat /\ g.data \in Seq(Byte)
    BY DEF Message
  <2> QED  BY <2>1, <2>2, <2>3
<1> QED  BY <1>1, <1>2

LEMMA ReplyType ==
    ASSUME NEW f, Lawful(f)
    PROVE  Reply(f) \in Seq(Message)
<1>1. f.data \in Seq(Byte)
  BY LawfulIs
<1>2. [op |-> PONG, data |-> f.data] \in Message /\ [op |-> CLOSE, data |-> f.data] \in Message
  BY <1>1 DEF Message, PONG, CLOSE
<1>3. CASE f.op = PING
  BY <1>2, <1>3 DEF Reply
<1>4. CASE f.op # PING /\ f.op = CLOSE
  BY <1>2, <1>4 DEF Reply
<1>5. CASE f.op # PING /\ f.op # CLOSE
  BY <1>5 DEF Reply
<1> QED  BY <1>3, <1>4, <1>5

LEMMA GrownType ==
    ASSUME NEW f, Lawful(f), NEW m \in Meanings
    PROVE  Grown(f, m) \in Message
<1>1. f.data \in Seq(Byte) /\ f.op \in Nat
  BY LawfulIs
<1>2. CASE m.begun = <<>>
  <2>1. Grown(f, m) = [op |-> f.op, data |-> f.data]
    BY <1>2 DEF Grown
  <2> QED  BY <1>1, <2>1 DEF Message
<1>3. CASE m.begun # <<>>
  <2>1. Grown(f, m) = [op |-> m.begun[1].op, data |-> m.begun[1].data \o f.data]
    BY <1>3 DEF Grown
  <2>2. m.begun[1].op \in Nat /\ m.begun[1].data \in Seq(Byte)
    BY <1>3, BegunType
  <2>3. m.begun[1].data \o f.data \in Seq(Byte)
    BY <1>1, <2>2, ConcatProperties
  <2> QED  BY <2>1, <2>2, <2>3 DEF Message
<1> QED  BY <1>2, <1>3

LEMMA AfterIs ==
    ASSUME NEW f, Lawful(f), NEW m \in Meanings, NEW n, n = After(f, m)
    PROVE  /\ n \in Meanings
           /\ m.refused => n = m
           /\ ~m.refused /\ Refusable(f, m) =>
                /\ n.refused /\ n.messages = m.messages /\ n.replies = m.replies
           /\ ~m.refused /\ ~Refusable(f, m) => ~n.refused
           /\ ~m.refused /\ ~Refusable(f, m) /\ f.op >= CLOSE =>
                /\ n.messages = Append(m.messages, [op |-> f.op, data |-> f.data])
                /\ n.replies = m.replies \o Reply(f) /\ n.begun = m.begun
           /\ ~m.refused /\ ~Refusable(f, m) /\ ~(f.op >= CLOSE) => n.replies = m.replies
           /\ ~m.refused /\ ~Refusable(f, m) /\ ~(f.op >= CLOSE) /\ f.fin =>
                n.messages = Append(m.messages, Grown(f, m)) /\ n.begun = <<>>
           /\ ~m.refused /\ ~Refusable(f, m) /\ ~(f.op >= CLOSE) /\ ~f.fin =>
                n.messages = m.messages /\ n.begun = <<Grown(f, m)>>
<1>1. PICK D : D = {<<>>} \cup {<<g>> : g \in Message}  OBVIOUS
<1>2. PICK Q : Q = Seq(Message)  OBVIOUS
<1>3. Meanings = [messages : Q, replies : Q, begun : D, refused : BOOLEAN]
  BY <1>1, <1>2, Zenon DEF Meanings
<1>4. m \in [messages : Q, replies : Q, begun : D, refused : BOOLEAN]
  BY <1>3
<1>5. m.messages \in Q /\ m.replies \in Q
  BY <1>4
<1>6. CASE m.refused
  <2>1. n = m
    BY <1>6, Zenon DEF After
  <2> QED  BY <1>6, <2>1
<1>7. CASE ~m.refused /\ Refusable(f, m)
  <2>1. n = [m EXCEPT !.refused = TRUE]
    BY <1>7, Zenon DEF After
  <2>2. n \in [messages : Q, replies : Q, begun : D, refused : BOOLEAN]
    BY <1>4, <2>1
  <2>3. n.refused /\ n.messages = m.messages /\ n.replies = m.replies
    BY <1>4, <2>1
  <2> QED  BY <1>3, <1>7, <2>2, <2>3, Zenon
<1>8. CASE ~m.refused /\ ~Refusable(f, m) /\ f.op >= CLOSE
  <2>1. PICK g : g = [op |-> f.op, data |-> f.data]  OBVIOUS
  <2>2. PICK r : r = Reply(f)  OBVIOUS
  <2>3. n = [m EXCEPT !.messages = Append(@, g), !.replies = @ \o r]
    BY <1>8, <2>1, <2>2, Zenon DEF After
  <2>4. r \in Seq(Message) /\ g \in Message
    <3>1. f.data \in Seq(Byte) /\ f.op \in Nat
      BY LawfulIs
    <3> QED  BY <2>1, <2>2, <3>1, ReplyType DEF Message
  <2>5. Append(m.messages, g) \in Q /\ m.replies \o r \in Q
    BY <1>2, <1>5, <2>4, ConcatProperties
  <2>6. n \in [messages : Q, replies : Q, begun : D, refused : BOOLEAN]
    BY <1>4, <2>3, <2>5
  <2>7. /\ n.messages = Append(m.messages, g) /\ n.replies = m.replies \o r
        /\ n.begun = m.begun /\ n.refused = m.refused
    BY <1>4, <2>3
  <2> QED  BY <1>3, <1>8, <2>1, <2>2, <2>6, <2>7, Zenon
<1>9. CASE ~m.refused /\ ~Refusable(f, m) /\ ~(f.op >= CLOSE) /\ f.fin
  <2>1. PICK g : g = Grown(f, m)  OBVIOUS
  <2>2. PICK o : o = <<>>  OBVIOUS
  <2>3. n = [m EXCEPT !.messages = Append(@, g), !.begun = o]
    BY <1>9, <2>1, <2>2, Zenon DEF After
  <2>4. Append(m.messages, g) \in Q /\ o \in D
    <3>1. g \in Message
      BY <2>1, GrownType
    <3>2. \A q \in Seq(Message) : Append(q, g) \in Seq(Message)
      BY <3>1
    <3> QED  BY <1>1, <1>2, <1>5, <2>2, <3>2
  <2>5. n \in [messages : Q, replies : Q, begun : D, refused : BOOLEAN]
    BY <1>4, <2>3, <2>4
  <2>6. /\ n.messages = Append(m.messages, g) /\ n.replies = m.replies
        /\ n.begun = o /\ n.refused = m.refused
    BY <1>4, <2>3
  <2> QED  BY <1>3, <1>9, <2>1, <2>2, <2>5, <2>6, Zenon
<1>10. CASE ~m.refused /\ ~Refusable(f, m) /\ ~(f.op >= CLOSE) /\ ~f.fin
  <2>1. PICK o : o = <<Grown(f, m)>>  OBVIOUS
  <2>2. n = [m EXCEPT !.begun = o]
    BY <1>10, <2>1, Zenon DEF After
  <2>3. o \in D
    BY <1>1, <2>1, GrownType
  <2>4. n \in [messages : Q, replies : Q, begun : D, refused : BOOLEAN]
    BY <1>4, <2>2, <2>3
  <2>5. /\ n.messages = m.messages /\ n.replies = m.replies
        /\ n.begun = o /\ n.refused = m.refused
    BY <1>4, <2>2
  <2> QED  BY <1>3, <1>10, <2>1, <2>4, <2>5, Zenon
<1> QED  BY <1>6, <1>7, <1>8, <1>9, <1>10, Zenon

LEMMA AfterBegun ==
    ASSUME NEW f, Lawful(f), NEW m \in Meanings, NEW n, n = After(f, m),
           ~m.refused, ~Refusable(f, m)
    PROVE  /\ f.op >= CLOSE => n.begun = m.begun
           /\ ~(f.op >= CLOSE) /\ f.fin => n.begun = <<>>
           /\ ~(f.op >= CLOSE) /\ ~f.fin => n.begun = <<Grown(f, m)>>
<1>1. PICK o : o = After(f, m)  OBVIOUS
<1>2. /\ f.op >= CLOSE => o.begun = m.begun
      /\ ~(f.op >= CLOSE) /\ f.fin => o.begun = <<>>
      /\ ~(f.op >= CLOSE) /\ ~f.fin => o.begun = <<Grown(f, m)>>
  <2>1. CASE f.op >= CLOSE
    BY <1>1, <2>1, AfterIs, Zenon
  <2>2. CASE ~(f.op >= CLOSE) /\ f.fin
    BY <1>1, <2>2, AfterIs, Zenon
  <2>3. CASE ~(f.op >= CLOSE) /\ ~f.fin
    BY <1>1, <2>3, AfterIs, Zenon
  <2> QED  BY <2>1, <2>2, <2>3, Zenon
<1> QED  BY <1>1, <1>2, Zenon

LEMMA OpenStep ==
    ASSUME NEW s \in Streams, NEW k \in 1..Len(s)
    PROVE  Open(s, k + 1) <=> IF s[k].op >= CLOSE THEN Open(s, k) ELSE ~s[k].fin
<1>1. Len(s) \in Nat /\ \A i \in 1..Len(s) : s[i].op \in {0, 1, 8, 9, 10}
  BY StreamsAre, LawfulIs
<1>2. k \in Nat /\ k > 0 /\ (k + 1) - 1 = k /\ k \in 1..k
  BY <1>1
<1> DEFINE Opens(j) == s[j].op < CLOSE /\ ~s[j].fin
<1>3. Open(s, k + 1) <=> \E j \in 1..k : Opens(j) /\ \A i \in (j + 1)..k : s[i].op >= CLOSE
  BY <1>2, Zenon DEF Open
<1>4. Open(s, k) <=> \E j \in 1..(k - 1) : Opens(j) /\ \A i \in (j + 1)..(k - 1) : s[i].op >= CLOSE
  BY Zenon DEF Open
<1>5. s[k].op < CLOSE <=> ~(s[k].op >= CLOSE)
  BY <1>1 DEF CLOSE
<1> HIDE DEF Opens
<1>6. CASE s[k].op >= CLOSE
  <2>1. ~Opens(k)
    BY <1>5, <1>6 DEF Opens
  <2>2. \A j \in 1..(k - 1) : (\A i \in (j + 1)..k : s[i].op >= CLOSE)
                                <=> (\A i \in (j + 1)..(k - 1) : s[i].op >= CLOSE)
    <3> TAKE j \in 1..(k - 1)
    <3>1. \A i : i \in (j + 1)..k <=> i \in (j + 1)..(k - 1) \/ i = k
      BY <1>2
    <3> QED  BY <1>6, <3>1
  <2>3. \A j : j \in 1..k <=> j \in 1..(k - 1) \/ j = k
    BY <1>2
  <2> QED  BY <1>3, <1>4, <1>6, <2>1, <2>2, <2>3
<1>7. CASE ~(s[k].op >= CLOSE)
  <2>1. \A j \in 1..(k - 1) : ~\A i \in (j + 1)..k : s[i].op >= CLOSE
    <3> TAKE j \in 1..(k - 1)
    <3>1. k \in (j + 1)..k
      BY <1>2
    <3> QED  BY <1>7, <3>1
  <2>2. \A j : j \in 1..k <=> j \in 1..(k - 1) \/ j = k
    BY <1>2
  <2>3. \A i \in (k + 1)..k : s[i].op >= CLOSE
    BY <1>2
  <2>4. Opens(k) <=> ~s[k].fin
    BY <1>5, <1>7 DEF Opens
  <2> QED  BY <1>3, <1>7, <2>1, <2>2, <2>3, <2>4
<1> QED  BY <1>6, <1>7

LEMMA MeantType ==
    ASSUME NEW s \in Streams
    PROVE  \A k \in 0..Len(s) :
             /\ Meant(s, k) \in Meanings
             /\ ~Meant(s, k).refused => (Meant(s, k).begun # <<>> <=> Open(s, k + 1))
<1> DEFINE T == {k \in 0..Len(s) :
                   /\ Meant(s, k) \in Meanings
                   /\ ~Meant(s, k).refused => (Meant(s, k).begun # <<>> <=> Open(s, k + 1))}
<1>1. Len(s) \in Nat /\ \A k \in 1..Len(s) : Lawful(s[k])
  BY StreamsAre
<1>2. 0 \in T
  <2>1. Meant(s, 0) = NothingYet
    BY <1>1, MeantSteps
  <2>2. NothingYet \in Meanings /\ NothingYet.begun = <<>>
    BY DEF NothingYet, Meanings
  <2>3. ~Open(s, 0 + 1)
    BY DEF Open
  <2> QED  BY <1>1, <2>1, <2>2, <2>3
<1>3. \A k \in 1..Len(s) : k - 1 \in T => k \in T
  <2> TAKE k \in 1..Len(s)
  <2> HAVE k - 1 \in T
  <2>1. PICK m : m = Meant(s, k - 1)  OBVIOUS
  <2>2. PICK n : n = Meant(s, k)  OBVIOUS
  <2>3. PICK f : f = s[k]  OBVIOUS
  <2>4. m \in Meanings /\ (~m.refused => (m.begun # <<>> <=> Open(s, (k - 1) + 1)))
    BY <2>1
  <2>5. Lawful(f) /\ n = After(f, m)
    BY <1>1, <2>1, <2>2, <2>3, MeantSteps
  <2>6. (k - 1) + 1 = k /\ k \in 0..Len(s)
    BY <1>1
  <2>7. Open(s, k + 1) <=> IF f.op >= CLOSE THEN Open(s, k) ELSE ~f.fin
    BY <2>3, OpenStep
  <2> HIDE DEF T
  <2>8. m \in Meanings /\ n \in Meanings
    BY <2>4, <2>5, AfterIs
  <2>9. ASSUME ~n.refused
        PROVE  n.begun # <<>> <=> Open(s, k + 1)
    <3>1. ~m.refused /\ ~Refusable(f, m)
      BY <2>4, <2>5, <2>9, AfterIs
    <3>2. m.begun # <<>> <=> Open(s, k)
      BY <2>4, <2>6, <3>1
    <3>3. CASE f.op >= CLOSE
      <4>1. n.begun = m.begun
        BY <2>5, <2>8, <3>1, <3>3, AfterBegun, Zenon
      <4> QED  BY <2>7, <3>2, <3>3, <4>1
    <3>4. CASE ~(f.op >= CLOSE) /\ f.fin
      <4>1. n.begun = <<>>
        BY <2>5, <2>8, <3>1, <3>4, AfterBegun, Zenon
      <4> QED  BY <2>7, <3>4, <4>1
    <3>5. CASE ~(f.op >= CLOSE) /\ ~f.fin
      <4>1. n.begun = <<Grown(f, m)>>
        BY <2>5, <2>8, <3>1, <3>5, AfterBegun, Zenon
      <4>2. <<Grown(f, m)>> # <<>>
        OBVIOUS
      <4> QED  BY <2>7, <3>5, <4>1, <4>2
    <3> QED  BY <3>3, <3>4, <3>5
  <2> QED  BY <2>2, <2>6, <2>8, <2>9 DEF T
<1> HIDE DEF T
<1>4. \A k \in 0..Len(s) : k \in T
  BY <1>1, <1>2, <1>3, Upwards
<1> QED  BY <1>4 DEF T

(* Nothing is meant behind a frame that is refused. *)
LEMMA RefusedStays ==
    ASSUME NEW s \in Streams, NEW k \in 0..Len(s), Meant(s, k).refused
    PROVE  \A j \in k..Len(s) : Meant(s, j) = Meant(s, k)
<1>1. PICK n : n = Len(s) - k  OBVIOUS
<1>2. Len(s) \in Nat /\ n \in Nat /\ k \in Nat
  BY <1>1, StreamsAre
<1>3. PICK m : m = Meant(s, k)  OBVIOUS
<1>4. m \in Meanings /\ m.refused
  BY <1>3, MeantType
<1> DEFINE T == {d \in 0..n : Meant(s, k + d) = m}
<1>5. 0 \in T
  <2>1. k + 0 = k
    BY <1>2
  <2> QED  BY <1>2, <1>3, <2>1
<1>6. \A d \in 1..n : d - 1 \in T => d \in T
  <2> TAKE d \in 1..n
  <2> HAVE d - 1 \in T
  <2>1. PICK j : j = k + d  OBVIOUS
  <2>2. j \in 1..Len(s) /\ k + (d - 1) = j - 1 /\ d \in 0..n
    BY <1>1, <1>2, <2>1
  <2>3. Meant(s, j - 1) = m
    BY <2>2
  <2>4. Lawful(s[j]) /\ Meant(s, j) = After(s[j], m)
    BY <1>2, <2>2, <2>3, MeantSteps, StreamsAre
  <2>5. Meant(s, j) = m
    BY <1>4, <2>4, AfterIs
  <2> QED  BY <2>1, <2>2, <2>5
<1> HIDE DEF T
<1>7. \A d \in 0..n : d \in T
  BY <1>2, <1>5, <1>6, Upwards
<1>8. ASSUME NEW j \in k..Len(s)
      PROVE  Meant(s, j) = m
  <2>1. j - k \in 0..n /\ k + (j - k) = j
    BY <1>1, <1>2
  <2>2. j - k \in T
    BY <1>7, <2>1
  <2> QED  BY <2>1, <2>2 DEF T
<1> QED  BY <1>3, <1>8

-----------------------------------------------------------------------------
(* The invariant: the first k frames have been read *)

(* What is held of the message begun: the first byte of its first fragment, and  *)
(* the data so far.                                                       *)
Holding(f, m) ==
    IF m.begun = <<>> THEN f = <<>>
    ELSE \E b \in Byte : Opcode(b) = m.begun[1].op /\ f = <<b>> \o m.begun[1].data

ReadTo(k, f, r) ==
    /\ FrameAt(frames, k) <= fed_bytes
    /\ ~Meant(frames, k).refused
    /\ Holding(f, Meant(frames, k))
    /\ reass_len = Len(f)
    /\ recv_mbuf = Buffer(f, FrameStream(frames), FrameAt(frames, k), fed_bytes)
    /\ messages = Meant(frames, k).messages
    /\ replies = Meant(frames, k).replies \o r
    /\ r # <<>> => send_and_close /\ k < Len(frames) /\ Meant(frames, k + 1).refused
    /\ ~delivering => k = Len(frames) \/ fed_bytes < FrameAt(frames, k + 1) \/ r # <<>>

FramesInv ==
    /\ frames \in Streams
    /\ fed_bytes \in 0..Len(FrameStream(frames))
    /\ delivering => upgraded
    /\ \E k \in 0..Len(frames) : \E f \in Seq(Byte) : \E r \in Seq({Refusal}) : ReadTo(k, f, r)

(* The buffers of bytes. *)
LEMMA ByteBuffer ==
    ASSUME NEW f \in Seq(Byte), NEW w \in Seq(Byte), NEW a \in Nat, NEW u \in a..Len(w)
    PROVE  /\ Buffer(f, w, a, u) \in Seq(Byte)
           /\ Len(f) \in Nat /\ Len(Buffer(f, w, a, u)) = Len(f) + (u - a)
           /\ \A x \in 1..(u - a) : Buffer(f, w, a, u)[Len(f) + x] = w[a + x]
<1>1. Buffers(Byte)  BY BufferedOf
<1> QED  BY <1>1 DEF Buffers

LEMMA ByteFront ==
    ASSUME NEW f \in Seq(Byte), NEW w \in Seq(Byte), NEW a \in Nat, NEW u \in a..Len(w)
    PROVE  SubSeq(Buffer(f, w, a, u), 1, Len(f)) = f
<1>1. Fronts(Byte)  BY FrontIsOf
<1> QED  BY <1>1 DEF Fronts

LEMMA ByteMore ==
    ASSUME NEW f \in Seq(Byte), NEW w \in Seq(Byte), NEW a \in Nat, NEW v \in a..Len(w),
           NEW u \in a..v
    PROVE  Buffer(f, w, a, u) \o SubSeq(w, u + 1, v) = Buffer(f, w, a, v)
<1>1. Mores(Byte)  BY BufferMoreOf
<1> QED  BY <1>1 DEF Mores

LEMMA ByteRest ==
    ASSUME NEW f \in Seq(Byte), NEW w \in Seq(Byte), NEW a \in Nat, NEW u \in a..Len(w),
           NEW b, b = Buffer(f, w, a, u), NEW g \in a..u
    PROVE  SubSeq(b, ((Len(f) + g) - a) + 1, Len(b)) = SubSeq(w, g + 1, u)
<1>1. Rests(Byte)  BY RestOf
<1> QED  BY <1>1 DEF Rests

(* What lies behind the data held. *)
Behind(f, w, a, u) ==
    SubSeq(Buffer(f, w, a, u), Len(f) + 1, Len(Buffer(f, w, a, u)))

Lies(f, w, a, u, b, v) ==
    /\ v = SubSeq(w, a + 1, u) /\ v \in Seq(Byte) /\ Len(v) = u - a
    /\ \A x \in 1..(u - a) : v[x] = w[a + x]
    /\ \A x \in 1..(u - a) : b[Len(f) + x] = v[x]
    /\ SubSeq(b, 1, Len(f)) = f

LEMMA BehindIs ==
    ASSUME NEW f \in Seq(Byte), NEW w \in Seq(Byte), NEW a \in Nat, NEW u \in a..Len(w)
    PROVE  Lies(f, w, a, u, Buffer(f, w, a, u), Behind(f, w, a, u))
<1>b. PICK b : b = Buffer(f, w, a, u)  OBVIOUS
<1>v. PICK v : v = Behind(f, w, a, u)  OBVIOUS
<1>0. v = SubSeq(b, Len(f) + 1, Len(b))
  BY <1>b, <1>v, Zenon DEF Behind
<1>1. Len(f) \in Nat /\ \A x \in 1..(u - a) : b[Len(f) + x] = w[a + x]
  BY <1>b, ByteBuffer
<1>3. Len(w) \in Nat /\ u \in Nat /\ a <= u /\ u <= Len(w)
  BY LenProperties
<1>4. PICK i : i = a + 1  OBVIOUS
<1>5. v = SubSeq(w, i, u)
  <2>1. a \in a..u
    BY <1>3
  <2>2. SubSeq(b, ((Len(f) + a) - a) + 1, Len(b)) = SubSeq(w, a + 1, u)
    BY <1>b, <2>1, ByteRest
  <2>3. ((Len(f) + a) - a) + 1 = Len(f) + 1
    BY <1>1
  <2> QED  BY <1>0, <1>4, <2>2, <2>3
<1>6. i \in Nat /\ 0 < i /\ u \in Int /\ u <= Len(w)
  BY <1>3, <1>4
<1>7. /\ SubSeq(w, i, u) \in Seq(Byte)
      /\ Len(SubSeq(w, i, u)) = IF i <= u THEN u - i + 1 ELSE 0
      /\ \A x \in 1..(u - i + 1) : SubSeq(w, i, u)[x] = w[i + x - 1]
  BY <1>6, PieceOf
<1>8. u - i + 1 = u - a /\ Len(v) = u - a
  <2>1. Len(v) = IF i <= u THEN u - i + 1 ELSE 0
    BY <1>5, <1>7
  <2> QED  BY <1>3, <1>4, <2>1
<1>9. \A x \in 1..(u - a) : v[x] = w[a + x]
  <2> TAKE x \in 1..(u - a)
  <2>1. x \in 1..(u - i + 1) /\ i + x - 1 = a + x
    BY <1>3, <1>4, <1>8
  <2> QED  BY <1>5, <1>7, <2>1
<1>10. \A x \in 1..(u - a) : b[Len(f) + x] = v[x]
  BY <1>1, <1>9
<1>11. SubSeq(b, 1, Len(f)) = f
  BY <1>b, ByteFront
<1>12. Lies(f, w, a, u, b, v)
  <2>1. v = SubSeq(w, a + 1, u) /\ v \in Seq(Byte) /\ Len(v) = u - a
    BY <1>4, <1>5, <1>7, <1>8
  <2> QED  BY <1>9, <1>10, <1>11, <2>1, Zenon DEF Lies
<1> QED  BY <1>b, <1>v, <1>12

LEMMA StreamBytesAre == StreamBytes = FrameStream(frames)
BY Zenon DEF StreamBytes, FrameStream, FrameTexts

(* What is seen of the next frame, k frames having been read: b is the buffer, v   *)
(* what lies behind the data f held.                                      *)
Seen(s, w, k, a, u, f, b, v) ==
    /\ w \in Seq(Byte) /\ Len(w) \in Nat /\ Len(s) \in Nat
    /\ a \in Nat /\ u \in a..Len(w)
    /\ v = SubSeq(w, a + 1, u) /\ v \in Seq(Byte) /\ Len(v) = u - a
    /\ SubSeq(b, 1, Len(f)) = f
    /\ v # <<>> <=> Len(v) > 0
    /\ Len(v) > 0 => k < Len(s) /\ v[1] = Flags(s[k + 1]) /\ b[Len(f) + 1] = v[1]
    /\ k < Len(s) => /\ Lawful(s[k + 1]) /\ Agrees(v, FrameBytes(s[k + 1]))
                     /\ FrameAt(s, k + 1) = a + Len(FrameBytes(s[k + 1]))
                     /\ FrameAt(s, k + 1) \in Nat /\ FrameAt(s, k + 1) > a

LEMMA Looks ==
    ASSUME NEW s, s \in Streams, NEW w, w = FrameStream(s), NEW u,
           u \in 0..Len(w), NEW k \in 0..Len(s), NEW a, a = FrameAt(s, k),
           a <= u, NEW f \in Seq(Byte), NEW b, b = Buffer(f, w, a, u),
           NEW v, v = Behind(f, w, a, u)
    PROVE  Seen(s, w, k, a, u, f, b, v)
<1>2. PICK n : n = Len(s)  OBVIOUS
<1>3. n \in Nat /\ k \in 0..n
  BY <1>2, StreamsAre
<1>4. /\ w \in Seq(Byte) /\ Len(w) \in Nat /\ a \in 0..Len(w)
      /\ (k = n => a = Len(w))
  BY <1>2, FramesLie
<1>5. a \in Nat /\ u \in a..Len(w)
  BY <1>4
<1>9. w \in Seq(Byte) /\ a \in Nat /\ u \in a..Len(w)
  BY <1>4, <1>5
<1>10. /\ v = SubSeq(w, a + 1, u) /\ v \in Seq(Byte) /\ Len(v) = u - a
       /\ \A x \in 1..(u - a) : v[x] = w[a + x]
       /\ \A x \in 1..(u - a) : b[Len(f) + x] = v[x]
       /\ SubSeq(b, 1, Len(f)) = f
  <2>1. Lies(f, w, a, u, Buffer(f, w, a, u), Behind(f, w, a, u))
    BY <1>9, BehindIs, Zenon
  <2>2. Lies(f, w, a, u, b, v)
    BY <2>1, Zenon
  <2> QED  BY <2>2, Zenon DEF Lies
<1>11. Len(f) \in Nat
  BY LenProperties
<1>12. v # <<>> <=> Len(v) > 0
  <2>1. v \in Seq(Byte) /\ Len(v) \in Nat
    BY <1>5, <1>10, LenProperties
  <2> QED  BY <2>1, EmptySeq
<1>13. ASSUME k < n, NEW t, t = FrameBytes(s[k + 1])
       PROVE  /\ Lawful(s[k + 1]) /\ Agrees(v, t)
              /\ FrameAt(s, k + 1) = a + Len(t)
              /\ FrameAt(s, k + 1) \in Nat /\ FrameAt(s, k + 1) > a
              /\ t[1] = Flags(s[k + 1]) /\ Len(t) > 1
  <2>1. k + 1 \in 1..n /\ (k + 1) - 1 = k
    BY <1>3, <1>13
  <2>2. Lawful(s[k + 1]) /\ Len(t) \in Nat /\ Len(t) > 1
    BY <1>2, <1>13, <2>1, StreamsAre
  <2>3. /\ FrameAt(s, k + 1) = a + Len(t)
        /\ \A x \in 1..Len(t) : w[a + x] = t[x]
    <3>1. PICK j : j = k + 1  OBVIOUS
    <3>2. /\ FrameAt(s, j) = FrameAt(s, j - 1) + Len(FrameBytes(s[j]))
          /\ \A x \in 1..Len(FrameBytes(s[j])) :
                FrameStream(s)[FrameAt(s, j - 1) + x] = FrameBytes(s[j])[x]
      BY <1>2, <2>1, <3>1, FramesLie
    <3> QED  BY <1>13, <2>1, <3>1, <3>2, Zenon
  <2>4. Agrees(v, t)
    <3>1. ASSUME NEW x \in 1..Len(v), x <= Len(t)
          PROVE  v[x] = t[x]
      <4>1. x \in 1..(u - a) /\ x \in 1..Len(t)
        BY <1>10, <2>2, <3>1
      <4>2. v[x] = w[a + x]
        BY <1>10, <4>1
      <4>3. w[a + x] = t[x]
        BY <2>3, <4>1
      <4> QED  BY <4>2, <4>3
    <3> QED  BY <3>1 DEF Agrees
  <2>5. t[1] = Flags(s[k + 1])
    BY <1>13, <2>2, FrameShape
  <2> QED  BY <1>5, <2>2, <2>3, <2>4, <2>5
<1>14. ASSUME Len(v) > 0
       PROVE  k < n /\ v[1] = Flags(s[k + 1]) /\ b[Len(f) + 1] = v[1]
  <2>1. k < n
    BY <1>3, <1>4, <1>5, <1>10, <1>14
  <2>2. PICK t : t = FrameBytes(s[k + 1])  OBVIOUS
  <2>3. Agrees(v, t) /\ t[1] = Flags(s[k + 1]) /\ Len(t) > 1
    BY <1>13, <2>1, <2>2
  <2>4. 1 \in 1..Len(v) /\ 1 <= Len(t) /\ 1 \in 1..(u - a)
    <3>1. Len(v) = u - a /\ Len(t) \in Nat
      <4>1. k + 1 \in 1..n
        BY <1>3, <2>1
      <4> QED  BY <1>2, <1>10, <2>2, <4>1, StreamsAre
    <3> QED  BY <1>5, <1>14, <2>3, <3>1
  <2>5. v[1] = t[1]
    BY <2>3, <2>4 DEF Agrees
  <2>6. b[Len(f) + 1] = v[1]
    BY <1>10, <2>4
  <2> QED  BY <2>1, <2>3, <2>5, <2>6
<1>15. k < n => /\ Lawful(s[k + 1]) /\ Agrees(v, FrameBytes(s[k + 1]))
                /\ FrameAt(s, k + 1) = a + Len(FrameBytes(s[k + 1]))
                /\ FrameAt(s, k + 1) \in Nat /\ FrameAt(s, k + 1) > a
  BY <1>13
<1>16. Len(s) \in Nat
  BY <1>2, <1>3
<1> QED  BY <1>2, <1>4, <1>5, <1>10, <1>12, <1>14, <1>15, <1>16, Zenon DEF Seen

LEMMA LooksNow ==
    ASSUME frames \in Streams, fed_bytes \in 0..Len(FrameStream(frames)),
           NEW k \in 0..Len(frames), NEW f \in Seq(Byte), NEW r, ReadTo(k, f, r)
    PROVE  Seen(frames, FrameStream(frames), k, FrameAt(frames, k), fed_bytes, f, recv_mbuf, New)
<1>1. PICK b : b = recv_mbuf  OBVIOUS
<1>2. PICK v : v = New  OBVIOUS
<1>3. PICK w : w = FrameStream(frames)  OBVIOUS
<1>4. PICK a : a = FrameAt(frames, k)  OBVIOUS
<1>5. b = Buffer(f, w, a, fed_bytes) /\ reass_len = Len(f) /\ a <= fed_bytes
  BY <1>1, <1>3, <1>4, Zenon DEF ReadTo
<1>6. v = Behind(f, w, a, fed_bytes)
  BY <1>1, <1>2, <1>5, Zenon DEF New, Behind
<1>7. Seen(frames, w, k, a, fed_bytes, f, b, v)
  BY <1>3, <1>4, <1>5, <1>6, Looks
<1> QED  BY <1>1, <1>2, <1>3, <1>4, <1>7, Zenon

(* A frame that is there is taken as it was sent. *)
LEMMA TakenWhole ==
    ASSUME NEW g, Lawful(g), NEW t, t = FrameBytes(g), NEW v \in Seq(Byte), Agrees(v, t),
           Len(t) <= Len(v), g.form # "top", NEW l, l = LengthsOf(v)
    PROVE  /\ ~Overflows(l) /\ l.header + l.data = Len(t) /\ Len(t) > 0
           /\ Masked(SubSeq(v, l.header + 1, l.header + l.data),
                     SubSeq(v, l.header - l.mask + 1, l.header)) = g.data
<1>1. PICK h : h = HeadLen(g)  OBVIOUS
<1>2. PICK n : n = Len(g.data)  OBVIOUS
<1>3. PICK m : m = Len(g.mask)  OBVIOUS
<1>4. PICK o : o = Own(g.form)  OBVIOUS
<1>5. /\ g.mask \in Seq(Byte) /\ m \in {0, 4} /\ g.data \in Seq(Byte) /\ n \in Nat
      /\ o \in {1, 3, 9} /\ h = 1 + o + m
  BY <1>1, <1>2, <1>3, <1>4, LawfulIs, HeadIs
<1>6. PICK q : q = Len(v)  OBVIOUS
<1>7. /\ t \in Seq(Byte) /\ Len(t) = h + n /\ q \in Nat /\ h + n <= q
      /\ \A j \in 1..m : t[1 + o + j] = g.mask[j]
      /\ \A j \in 1..n : t[h + j] = Masked(g.data, g.mask)[j]
  BY <1>1, <1>2, <1>3, <1>4, <1>6, FrameShape, LenProperties
<1>8. \A j \in 1..(h + n) : v[j] = t[j]
  <2> TAKE j \in 1..(h + n)
  <2>1. j \in 1..Len(v) /\ j <= Len(t)
    BY <1>5, <1>6, <1>7
  <2> QED  BY <2>1, Zenon DEF Agrees
<1>9. l = [header |-> h, data |-> n, mask |-> m]
  <2>1. Len(v) >= HeadLen(g)
    BY <1>1, <1>5, <1>6, <1>7
  <2>2. LengthsOf(v) = [header |-> HeadLen(g), data |-> IF g.form = "top" THEN -1 ELSE Len(g.data),
                        mask |-> Len(g.mask)]
    BY <2>1, LengthsRead
  <2> QED  BY <1>1, <1>2, <1>3, <2>2, Zenon
<1>10. l.header = h /\ l.data = n /\ l.mask = m
  BY <1>9
<1>11. ~Overflows(l) /\ l.header + l.data = Len(t) /\ Len(t) > 0
  BY <1>5, <1>7, <1>10 DEF Overflows
<1>12. SubSeq(v, h - m + 1, h) = g.mask
  <2>1. PICK i : i = h - m + 1  OBVIOUS
  <2>2. PICK d : d = SubSeq(v, i, h)  OBVIOUS
  <2>3. i = 2 + o /\ i \in Nat /\ 0 < i /\ h \in Int /\ h <= Len(v) /\ h - i + 1 = m
    <3>1. i = 2 + o /\ h - i + 1 = m /\ h \in Int
      BY <1>5, <2>1
    <3>2. h <= Len(v)
      BY <1>5, <1>6, <1>7
    <3> QED  BY <1>5, <3>1, <3>2
  <2>4. /\ SubSeq(v, i, h) \in Seq(Byte)
        /\ Len(SubSeq(v, i, h)) = IF i <= h THEN h - i + 1 ELSE 0
        /\ \A x \in 1..(h - i + 1) : SubSeq(v, i, h)[x] = v[i + x - 1]
    BY <2>3, PieceOf
  <2>5. d \in Seq(Byte) /\ Len(d) = m
    <3>1. Len(d) = IF i <= h THEN h - i + 1 ELSE 0
      BY <2>2, <2>4
    <3> QED  BY <1>5, <2>2, <2>3, <2>4, <3>1
  <2>6. \A x \in 1..m : d[x] = g.mask[x]
    <3> TAKE x \in 1..m
    <3>1. x \in 1..(h - i + 1) /\ i + x - 1 = 1 + o + x /\ 1 + o + x \in 1..(h + n)
      BY <1>5, <2>3
    <3>2. d[x] = v[1 + o + x]
      BY <2>2, <2>4, <3>1
    <3> QED  BY <1>7, <1>8, <3>1, <3>2
  <2>7. d = g.mask
    BY <1>3, <1>5, <2>5, <2>6, SeqEqual
  <2> QED  BY <2>1, <2>2, <2>7
<1>13. SubSeq(v, h + 1, h + n) = Masked(g.data, g.mask)
  <2>1. PICK i : i = h + 1  OBVIOUS
  <2>2. PICK j : j = h + n  OBVIOUS
  <2>3. PICK d : d = SubSeq(v, i, j)  OBVIOUS
  <2>4. PICK e : e = Masked(g.data, g.mask)  OBVIOUS
  <2>5. i \in Nat /\ 0 < i /\ j \in Int /\ j <= Len(v) /\ j - i + 1 = n
    BY <1>5, <1>6, <1>7, <2>1, <2>2
  <2>6. /\ SubSeq(v, i, j) \in Seq(Byte)
        /\ Len(SubSeq(v, i, j)) = IF i <= j THEN j - i + 1 ELSE 0
        /\ \A x \in 1..(j - i + 1) : SubSeq(v, i, j)[x] = v[i + x - 1]
    BY <2>5, PieceOf
  <2>7. d \in Seq(Byte) /\ Len(d) = n
    <3>1. Len(d) = IF i <= j THEN j - i + 1 ELSE 0
      BY <2>3, <2>6
    <3> QED  BY <1>5, <2>3, <2>5, <2>6, <3>1
  <2>8. e \in Seq(Byte) /\ Len(e) = n
    <3>1. Len(g.mask) \in {0, 4}
      BY <1>3, <1>5
    <3> QED  BY <1>2, <1>5, <2>4, <3>1, MaskedType
  <2>9. \A x \in 1..n : d[x] = e[x]
    <3> TAKE x \in 1..n
    <3>1. x \in 1..(j - i + 1) /\ i + x - 1 = h + x /\ h + x \in 1..(h + n)
      BY <1>5, <2>1, <2>5
    <3>2. d[x] = v[h + x]
      BY <2>3, <2>6, <3>1
    <3> QED  BY <1>7, <1>8, <2>4, <3>1, <3>2
  <2>10. d = e
    BY <2>7, <2>8, <2>9, SeqEqual
  <2> QED  BY <2>1, <2>2, <2>3, <2>4, <2>10
<1>14. Masked(SubSeq(v, h + 1, h + n), SubSeq(v, h - m + 1, h)) = g.data
  <2>1. Len(g.mask) \in {0, 4}
    BY <1>3, <1>5
  <2>2. Masked(Masked(g.data, g.mask), g.mask) = g.data
    BY <1>5, <2>1, Unmasked
  <2> QED  BY <1>12, <1>13, <2>2
<1> QED  BY <1>10, <1>11, <1>14, Zenon

(* Of a frame that is not there nothing is taken, and a frame of 2^64 - 1 bytes is   *)
(* refused once its head has come.                                         *)
LEMMA NotTaken ==
    ASSUME NEW g, Lawful(g), NEW t, t = FrameBytes(g), NEW v \in Seq(Byte), Agrees(v, t),
           NEW l, l = LengthsOf(v), NEW e, e = l.header + l.data
    PROVE  /\ g.form # "top" => ~Overflows(l)
           /\ g.form # "top" /\ Len(v) < Len(t) => e <= 0 \/ e > Len(v)
           /\ g.form = "top" => Overflows(l) \/ (Len(v) < Len(t) /\ (e <= 0 \/ e > Len(v)))
<1>1. PICK h : h = HeadLen(g)  OBVIOUS
<1>2. PICK n : n = Len(g.data)  OBVIOUS
<1>3. PICK q : q = Len(v)  OBVIOUS
<1>4. n \in Nat /\ h \in Nat /\ h > 1 /\ Len(t) = h + n /\ q \in Nat
  <2>1. n \in Nat /\ Len(g.mask) \in {0, 4} /\ Own(g.form) \in {1, 3, 9}
        /\ h = 1 + Own(g.form) + Len(g.mask)
    BY <1>1, <1>2, LawfulIs, HeadIs
  <2>2. Len(t) = h + n
    BY <1>1, <1>2, FrameShape
  <2> QED  BY <1>3, <2>1, <2>2, LenProperties
<1>5. CASE q < h
  <2>1. ~Overflows(l) /\ (e <= 0 \/ e > Len(v))
    <3>1. Len(v) < HeadLen(g)
      BY <1>1, <1>3, <1>5
    <3> QED  BY <3>1, LengthsAwaited
  <2>2. Len(v) < Len(t)
    BY <1>3, <1>4, <1>5
  <2> QED  BY <2>1, <2>2
<1>6. CASE q >= h
  <2>1. LengthsOf(v) = [header |-> HeadLen(g), data |-> IF g.form = "top" THEN -1 ELSE Len(g.data),
                        mask |-> Len(g.mask)]
    <3>1. Len(v) >= HeadLen(g)
      BY <1>1, <1>3, <1>6
    <3> QED  BY <3>1, LengthsRead
  <2>2. l.header = h /\ l.data = IF g.form = "top" THEN -1 ELSE n
    BY <1>1, <1>2, <2>1
  <2>3. CASE g.form = "top"
    <3>1. l.data = -1
      BY <2>2, <2>3
    <3>2. Overflows(l)
      BY <1>4, <2>2, <3>1 DEF Overflows
    <3> QED  BY <2>3, <3>2
  <2>4. CASE g.form # "top"
    <3>1. l.data = n
      BY <2>2, <2>4
    <3>2. ~Overflows(l) /\ e = h + n
      BY <1>4, <2>2, <3>1 DEF Overflows
    <3> QED  BY <1>3, <1>4, <2>4, <3>2
  <2> QED  BY <2>3, <2>4
<1> QED  BY <1>4, <1>5, <1>6

-----------------------------------------------------------------------------
(* What one turn of the loop does *)

AwaitsMore ==
    /\ delivering' = FALSE
    /\ UNCHANGED <<recv_mbuf, reass_len, send_and_close, messages, replies>>

Refusing(b) ==
    \/ IsFragment(b) /\ IsControl(b)
    \/ ~IsFragment(b) /\ ~IsControl(b) /\ reass_len > 0

LEMMA DeliverIs ==
    ASSUME Deliver, NEW v, v = New, NEW l, l = LengthsOf(v), NEW e, e = l.header + l.data,
           NEW d, d = Masked(SubSeq(v, l.header + 1, e), SubSeq(v, l.header - l.mask + 1, l.header)),
           NEW x, x = SubSeq(v, e + 1, Len(v))
    PROVE  /\ delivering /\ frames' = frames /\ fed_bytes' = fed_bytes /\ upgraded' = upgraded
           /\ \/ v = <<>> /\ AwaitsMore
              \/ v # <<>> /\ Refusing(v[1]) /\ Refuse
              \/ /\ v # <<>>
                 /\ ~(IsFragment(v[1]) /\ IsControl(v[1]))
                 /\ IsFragment(v[1]) \/ IsControl(v[1]) \/ reass_len = 0
                 /\ Overflows(l) => Refuse
                 /\ ~Overflows(l) /\ (e <= 0 \/ e > Len(v)) => AwaitsMore
                 /\ ~Overflows(l) /\ ~(e <= 0 \/ e > Len(v)) =>
                       /\ delivering' = delivering
                       /\ IsFragment(v[1]) => Fragment(v[1], d, x)
                       /\ ~IsFragment(v[1]) => Whole(Opcode(v[1]), d, x)
<1>1. /\ delivering /\ frames' = frames /\ fed_bytes' = fed_bytes /\ upgraded' = upgraded
  BY DEF Deliver
<1> QED  BY <1>1, Zenon DEF Deliver, AwaitsMore, Refusing

-----------------------------------------------------------------------------
(* The invariant holds first, and a step that reads no frame keeps it *)

LEMMA NoMore == ASSUME NEW S, NEW s \in Seq(S) PROVE s \o <<>> = s
BY ConcatEmptySeq

Appends(S) ==
    \A s \in Seq(S), t \in Seq(S) : \A y \in S : Append(s \o t, y) = s \o Append(t, y)

LEMMA AppendsOf == \A S : Appends(S)
<1> SUFFICES ASSUME NEW S, NEW s \in Seq(S), NEW t \in Seq(S), NEW y \in S
             PROVE  Append(s \o t, y) = s \o Append(t, y)
  BY Zenon DEF Appends
<1>1. s \o t \in Seq(S) /\ <<y>> \in Seq(S)
  BY ConcatProperties
<1>2. Append(s \o t, y) = (s \o t) \o <<y>> /\ Append(t, y) = t \o <<y>>
  BY <1>1, AppendIsConcat
<1>3. (s \o t) \o <<y>> = s \o (t \o <<y>>)
  BY <1>1, ConcatAssociative
<1> QED  BY <1>2, <1>3

LEMMA AheadMore ==
    ASSUME frames \in Streams, fed_bytes \in 0..Len(FrameStream(frames)), delivering, upgraded,
           frames' = frames, fed_bytes' = fed_bytes, upgraded' = upgraded,
           delivering' = delivering, NEW k \in 0..Len(frames), FrameAt(frames, k) <= fed_bytes,
           ~Meant(frames, k).refused, NEW f \in Seq(Byte), Holding(f, Meant(frames, k)),
           reass_len' = Len(f),
           recv_mbuf' = Buffer(f, FrameStream(frames), FrameAt(frames, k), fed_bytes),
           messages' = Meant(frames, k).messages, replies' = Meant(frames, k).replies
    PROVE  FramesInv'
<1>1. PICK r : r = <<>>  OBVIOUS
<1>2. PICK m : m = Meant(frames, k)  OBVIOUS
<1>3. m.replies \o r = m.replies
  <2>1. m.replies \in Seq(Message)
    BY <1>2, MeantType, BegunType
  <2> QED  BY <1>1, <2>1, NoMore
<1>4. ReadTo(k, f, r)'
  BY <1>1, <1>2, <1>3, Zenon DEF ReadTo
<1>5. r \in Seq({Refusal})
  BY <1>1
<1>6. \E i \in 0..Len(frames') : \E h \in Seq(Byte) : \E q \in Seq({Refusal}) : ReadTo(i, h, q)'
  BY <1>4, <1>5, Zenon
<1> QED  BY <1>6, Zenon DEF FramesInv

LEMMA StaysWaiting ==
    ASSUME frames \in Streams, fed_bytes \in 0..Len(FrameStream(frames)),
           frames' = frames, fed_bytes' = fed_bytes, upgraded' = upgraded,
           NEW k \in 0..Len(frames), NEW f \in Seq(Byte), NEW r \in Seq({Refusal}),
           ReadTo(k, f, r), AwaitsMore,
           k = Len(frames) \/ fed_bytes < FrameAt(frames, k + 1) \/ r # <<>>
    PROVE  FramesInv'
<1>1. /\ delivering' = FALSE /\ recv_mbuf' = recv_mbuf /\ reass_len' = reass_len
      /\ send_and_close' = send_and_close /\ messages' = messages /\ replies' = replies
  BY DEF AwaitsMore
<1>2. ReadTo(k, f, r)'
  BY <1>1, Zenon DEF ReadTo
<1>3. \E i \in 0..Len(frames') : \E h \in Seq(Byte) : \E q \in Seq({Refusal}) : ReadTo(i, h, q)'
  BY <1>2, Zenon
<1> QED  BY <1>1, <1>3, Zenon DEF FramesInv

LEMMA StaysRefused ==
    ASSUME frames \in Streams, fed_bytes \in 0..Len(FrameStream(frames)),
           frames' = frames, fed_bytes' = fed_bytes, upgraded' = upgraded,
           NEW k \in 0..Len(frames), NEW f \in Seq(Byte), NEW r \in Seq({Refusal}),
           ReadTo(k, f, r), Refuse, k < Len(frames), Meant(frames, k + 1).refused
    PROVE  FramesInv'
<1>1. PICK q : q = Append(r, Refusal)  OBVIOUS
<1>2. PICK m : m = Meant(frames, k)  OBVIOUS
<1>3. q \in Seq({Refusal}) /\ q # <<>>
  <2>1. \A i \in Seq({Refusal}) : Append(i, Refusal) \in Seq({Refusal}) /\ Append(i, Refusal) # <<>>
    OBVIOUS
  <2> QED  BY <1>1, <2>1
<1>4. Append(m.replies \o r, Refusal) = m.replies \o q
  <2>1. m.replies \in Seq(Message)
    BY <1>2, MeantType, BegunType
  <2>2. PICK S : S = Message \cup {Refusal}  OBVIOUS
  <2>3. Message \subseteq S /\ {Refusal} \subseteq S /\ Refusal \in S
    BY <2>2
  <2>4. m.replies \in Seq(S) /\ r \in Seq(S)
    BY <2>1, <2>3
  <2>5. PICK t : t = m.replies  OBVIOUS
  <2>6. Append(t \o r, Refusal) = t \o Append(r, Refusal)
    <3>1. Appends(S)
      BY AppendsOf
    <3> QED  BY <2>3, <2>4, <2>5, <3>1, Zenon DEF Appends
  <2> QED  BY <1>1, <2>5, <2>6, Zenon
<1>5. /\ replies' = Append(replies, Refusal) /\ send_and_close' = TRUE /\ delivering' = FALSE
      /\ recv_mbuf' = recv_mbuf /\ reass_len' = reass_len /\ messages' = messages
  BY DEF Refuse
<1>6. replies' = m.replies \o q
  <2>1. replies = m.replies \o r
    BY <1>2, Zenon DEF ReadTo
  <2> QED  BY <1>4, <1>5, <2>1, Zenon
<1>7. ReadTo(k, f, q)'
  BY <1>2, <1>3, <1>5, <1>6, Zenon DEF ReadTo
<1>8. \E i \in 0..Len(frames') : \E h \in Seq(Byte) : \E y \in Seq({Refusal}) : ReadTo(i, h, y)'
  BY <1>3, <1>7, Zenon
<1> QED  BY <1>5, <1>8, Zenon DEF FramesInv

LEMMA FramesFirst == FramesInit => FramesInv
<1> SUFFICES ASSUME FramesInit PROVE FramesInv
  OBVIOUS
<1>1. /\ frames \in Streams /\ fed_bytes = 0 /\ recv_mbuf = <<>> /\ reass_len = 0
      /\ delivering = FALSE /\ messages = <<>> /\ replies = <<>>
  BY DEF FramesInit
<1>2. PICK n : n = Len(frames)  OBVIOUS
<1>3. PICK w : w = FrameStream(frames)  OBVIOUS
<1>4. n \in Nat /\ Len(w) \in Nat /\ FrameAt(frames, 0) = 0
  BY <1>1, <1>2, <1>3, StreamsAre, FramesLie
<1>5. 0 = n \/ 0 < FrameAt(frames, 0 + 1)
  <2> SUFFICES ASSUME n # 0 PROVE 0 < FrameAt(frames, 1)
    OBVIOUS
  <2>1. 1 \in 1..n /\ 1 - 1 = 0
    BY <1>4
  <2>2. FrameAt(frames, 1) = FrameAt(frames, 1 - 1) + Len(FrameBytes(frames[1]))
    BY <1>1, <1>2, <2>1, FramesLie
  <2>3. Len(FrameBytes(frames[1])) \in Nat /\ Len(FrameBytes(frames[1])) > 1
    BY <1>1, <1>2, <2>1, StreamsAre
  <2> QED  BY <1>4, <2>1, <2>2, <2>3
<1>6. Meant(frames, 0) = NothingYet
  BY <1>2, <1>4, MeantSteps
<1>7. Buffer(<<>>, w, 0, 0) = <<>>
  <2>1. SubSeq(w, 0 + 1, 0) = <<>>
    BY SubSeqEmpty
  <2> QED  BY <2>1 DEF Buffer
<1>8. <<>> \o <<>> = <<>> /\ Len(<<>>) = 0
  OBVIOUS
<1>9. /\ ~NothingYet.refused /\ NothingYet.begun = <<>> /\ NothingYet.messages = <<>>
      /\ NothingYet.replies = <<>>
  BY DEF NothingYet
<1>10. Holding(<<>>, NothingYet)
  BY <1>9, Zenon DEF Holding
<1>11. 0 <= 0
  OBVIOUS
<1>12. ReadTo(0, <<>>, <<>>)
  BY <1>1, <1>2, <1>3, <1>4, <1>5, <1>6, <1>7, <1>8, <1>9, <1>10, <1>11, Zenon DEF ReadTo
<1>13. <<>> \in Seq(Byte) /\ <<>> \in Seq({Refusal})
  OBVIOUS
<1>14. 0 \in 0..Len(frames) /\ fed_bytes \in 0..Len(FrameStream(frames))
  BY <1>1, <1>2, <1>3, <1>4
<1>15. \E i \in 0..Len(frames) : \E h \in Seq(Byte) : \E y \in Seq({Refusal}) : ReadTo(i, h, y)
  BY <1>12, <1>13, <1>14, Zenon
<1> QED  BY <1>1, <1>14, <1>15, Zenon DEF FramesInv

LEMMA FramesFed ==
    ASSUME FramesInv, NEW n \in Nat, Feeds(n), upgraded',
           UNCHANGED <<frames, reass_len, send_and_close, messages, replies>>
    PROVE  FramesInv'
<1>1. PICK w : w = FrameStream(frames)  OBVIOUS
<1>2. PICK u : u = fed_bytes  OBVIOUS
<1>3. PICK z : z = u + n  OBVIOUS
<1>4. /\ ~delivering /\ z <= Len(w) /\ fed_bytes' = z /\ delivering' = TRUE
      /\ recv_mbuf' = recv_mbuf \o SubSeq(w, u + 1, z)
  BY <1>1, <1>2, <1>3, StreamBytesAre, Zenon DEF Feeds
<1>5. frames \in Streams /\ u \in 0..Len(w)
  BY <1>1, <1>2 DEF FramesInv
<1>6. PICK k \in 0..Len(frames), f \in Seq(Byte), r \in Seq({Refusal}) : ReadTo(k, f, r)
  BY Zenon DEF FramesInv
<1>7. PICK a : a = FrameAt(frames, k)  OBVIOUS
<1>8. w \in Seq(Byte) /\ Len(w) \in Nat /\ a \in 0..Len(w)
  BY <1>1, <1>5, <1>7, FramesLie
<1>9. a <= u /\ recv_mbuf = Buffer(f, w, a, u)
  BY <1>1, <1>2, <1>6, <1>7, Zenon DEF ReadTo
<1>10. a \in Nat /\ z \in a..Len(w) /\ u \in a..z /\ a <= z /\ z \in 0..Len(w)
  BY <1>3, <1>4, <1>5, <1>8, <1>9
<1>11. recv_mbuf' = Buffer(f, w, a, z)
  <2>1. Buffer(f, w, a, u) \o SubSeq(w, u + 1, z) = Buffer(f, w, a, z)
    BY <1>8, <1>10, ByteMore
  <2> QED  BY <1>4, <1>9, <2>1, Zenon
<1>12. /\ frames' = frames /\ reass_len' = reass_len /\ send_and_close' = send_and_close
       /\ messages' = messages /\ replies' = replies
  OBVIOUS
<1>13. ReadTo(k, f, r)'
  <2>1. FrameAt(frames', k) <= fed_bytes'
    BY <1>4, <1>7, <1>10, <1>12
  <2>2. recv_mbuf' = Buffer(f, FrameStream(frames'), FrameAt(frames', k), fed_bytes')
    BY <1>1, <1>4, <1>7, <1>11, <1>12, Zenon
  <2>3. /\ ~Meant(frames, k).refused /\ Holding(f, Meant(frames, k)) /\ reass_len = Len(f)
        /\ messages = Meant(frames, k).messages /\ replies = Meant(frames, k).replies \o r
        /\ r # <<>> => send_and_close /\ k < Len(frames) /\ Meant(frames, k + 1).refused
    BY <1>6, Zenon DEF ReadTo
  <2>4. /\ ~Meant(frames', k).refused /\ Holding(f, Meant(frames', k)) /\ reass_len' = Len(f)
        /\ messages' = Meant(frames', k).messages /\ replies' = Meant(frames', k).replies \o r
        /\ r # <<>> => send_and_close' /\ k < Len(frames') /\ Meant(frames', k + 1).refused
    <3>1. send_and_close' <=> send_and_close
      BY <1>12
    <3>2. r # <<>> => send_and_close' /\ k < Len(frames') /\ Meant(frames', k + 1).refused
      BY <1>12, <2>3, <3>1
    <3> QED  BY <1>12, <2>3, <3>2, Zenon
  <2>5. delivering'
    BY <1>4
  <2> QED  BY <2>1, <2>2, <2>4, <2>5, Zenon DEF ReadTo
<1>14. \E i \in 0..Len(frames') : \E h \in Seq(Byte) : \E y \in Seq({Refusal}) : ReadTo(i, h, y)'
  BY <1>6, <1>12, <1>13, Zenon
<1>15. fed_bytes' \in 0..Len(FrameStream(frames'))
  BY <1>1, <1>4, <1>10, <1>12
<1> QED  BY <1>5, <1>12, <1>14, <1>15, Zenon DEF FramesInv

-----------------------------------------------------------------------------
(* One turn of the loop keeps the invariant *)

LEMMA FlagsAre ==
    ASSUME NEW g, Lawful(g), NEW b, b = Flags(g)
    PROVE  /\ IsControl(b) <=> g.op >= CLOSE
           /\ IsFragment(b) <=> ~g.fin \/ g.op = CONTINUE
           /\ IsFirst(b) <=> ~g.fin /\ g.op # CONTINUE
           /\ IsFin(b) <=> g.fin
           /\ Opcode(b) = g.op /\ b \in Byte
           /\ g.op >= CLOSE \/ g.op = CONTINUE \/ g.op = TEXT
           /\ g.op = CONTINUE => ~(g.op >= CLOSE) /\ g.op # TEXT
           /\ g.op = TEXT => ~(g.op >= CLOSE)
<1>1. /\ b \in Byte /\ (IsFin(b) <=> g.fin) /\ Opcode(b) = g.op
      /\ g.op \in {0, 1, 8, 9, 10} /\ g.fin \in BOOLEAN
  BY FlagsRead, LawfulIs
<1>2. PICK o : o = g.op  OBVIOUS
<1>3. /\ o \in {CLOSE, PING, PONG} <=> o >= CLOSE
      /\ o >= CLOSE \/ o = CONTINUE \/ o = TEXT
      /\ o = CONTINUE => ~(o >= CLOSE) /\ o # TEXT
      /\ o = TEXT => ~(o >= CLOSE)
  BY <1>1, <1>2 DEF CLOSE, PING, PONG, CONTINUE, TEXT
<1>4. IsControl(b) <=> g.op \in {CLOSE, PING, PONG}
  BY <1>1, Zenon DEF IsControl
<1>5. /\ IsFragment(b) <=> ~g.fin \/ g.op = CONTINUE
      /\ IsFirst(b) <=> ~g.fin /\ g.op # CONTINUE
  BY <1>1, Zenon DEF IsFragment, IsFirst
<1> QED  BY <1>1, <1>2, <1>3, <1>4, <1>5, Zenon

(* A message is begun exactly where the peer's order has one open. *)
LEMMA BegunInOrder ==
    ASSUME NEW s \in Streams, NEW k \in 0..Len(s), k < Len(s), NEW g, g = s[k + 1],
           NEW m, m = Meant(s, k), ~m.refused
    PROVE  /\ g.op = CONTINUE => m.begun # <<>>
           /\ g.op = TEXT /\ ~g.fin => m.begun = <<>>
<1>1. (m.begun # <<>>) <=> Open(s, k + 1)
  <2>1. ~Meant(s, k).refused => (Meant(s, k).begun # <<>> <=> Open(s, k + 1))
    BY MeantType
  <2> QED  BY <2>1, Zenon
<1>2. /\ Orderly(s) /\ (k + 1) \in DOMAIN s
  BY StreamsAre
<1>3. PICK i : i = k + 1  OBVIOUS
<1>4. (s[i].op = CONTINUE => Open(s, i))
      /\ (s[i].op = TEXT /\ ~s[i].fin => ~Open(s, i))
  BY <1>2, <1>3, Zenon DEF Orderly
<1> QED  BY <1>1, <1>3, <1>4

LEMMA HoldsNothing ==
    ASSUME NEW f, NEW m, Holding(f, m), m.begun = <<>>
    PROVE  f = <<>>
BY Zenon DEF Holding

LEMMA HoldsBytes ==
    ASSUME NEW f, NEW m, Holding(f, m), m.begun # <<>>
    PROVE  \E b \in Byte : Opcode(b) = m.begun[1].op /\ f = <<b>> \o m.begun[1].data
BY Zenon DEF Holding

(* What lies behind the frame that was read. *)
LEMMA BehindFrame ==
    ASSUME NEW w \in Seq(Byte), NEW a \in Nat, NEW u \in a..Len(w), NEW v,
           v = SubSeq(w, a + 1, u), NEW e \in Nat, a + e <= u
    PROVE  SubSeq(v, e + 1, Len(v)) = SubSeq(w, (a + e) + 1, u)
<1>1. PICK f : f = <<>>  OBVIOUS
<1>2. f \in Seq(Byte) /\ Len(f) = 0
  BY <1>1
<1>3. PICK b : b = Buffer(f, w, a, u)  OBVIOUS
<1>4. Len(w) \in Nat /\ u \in Nat /\ u <= Len(w)
  BY LenProperties
<1>5. v \in Seq(Byte)
  <2>1. Lies(f, w, a, u, Buffer(f, w, a, u), Behind(f, w, a, u))
    BY <1>2, BehindIs
  <2> QED  BY <2>1, Zenon DEF Lies
<1>6. b = v
  <2>1. <<>> \o v = v
    BY <1>5, ConcatEmptySeq
  <2> QED  BY <1>1, <1>3, <2>1, Zenon DEF Buffer
<1>7. PICK g : g = a + e  OBVIOUS
<1>8. g \in a..u /\ ((Len(f) + g) - a) + 1 = e + 1
  BY <1>2, <1>4, <1>7
<1>9. SubSeq(b, ((Len(f) + g) - a) + 1, Len(b)) = SubSeq(w, g + 1, u)
  <2>1. f \in Seq(Byte) /\ g \in a..u
    BY <1>2, <1>8
  <2> QED  BY <1>3, <2>1, ByteRest, Zenon
<1> QED  BY <1>6, <1>7, <1>8, <1>9, Zenon

LEMMA ReplyIs ==
    ASSUME NEW f
    PROVE  /\ f.op = PING => Reply(f) = <<[op |-> PONG, data |-> f.data]>>
           /\ f.op # PING /\ f.op = CLOSE => Reply(f) = <<[op |-> CLOSE, data |-> f.data]>>
           /\ f.op # PING /\ f.op # CLOSE => Reply(f) = <<>>
<1>1. PICK o : o = f.op  OBVIOUS
<1>2. PICK q : q = <<[op |-> PONG, data |-> f.data]>>  OBVIOUS
<1>3. PICK c : c = <<[op |-> CLOSE, data |-> f.data]>>  OBVIOUS
<1>4. Reply(f) = CASE o = PING -> q [] o = CLOSE -> c [] OTHER -> <<>>
  BY <1>1, <1>2, <1>3, Zenon DEF Reply
<1>5. /\ o = PING => Reply(f) = q
      /\ o # PING /\ o = CLOSE => Reply(f) = c
      /\ o # PING /\ o # CLOSE => Reply(f) = <<>>
  BY <1>4 DEF PING, CLOSE
<1> QED  BY <1>1, <1>2, <1>3, <1>5, Zenon

LEMMA AnswersAre ==
    ASSUME NEW o, NEW d, Answers(o, d)
    PROVE  /\ o = PING => replies' = Append(replies, [op |-> PONG, data |-> d])
           /\ o # PING /\ o = CLOSE => replies' = Append(replies, [op |-> CLOSE, data |-> d])
           /\ o # PING /\ o # CLOSE => replies' = replies
<1>1. PICK q : q = Append(replies, [op |-> PONG, data |-> d])  OBVIOUS
<1>2. PICK c : c = Append(replies, [op |-> CLOSE, data |-> d])  OBVIOUS
<1>3. replies' = CASE o = PING -> q [] o = CLOSE -> c [] OTHER -> replies
  BY <1>1, <1>2, Zenon DEF Answers
<1>4. /\ o = PING => replies' = q
      /\ o # PING /\ o = CLOSE => replies' = c
      /\ o # PING /\ o # CLOSE => replies' = replies
  BY <1>3 DEF PING, CLOSE
<1> QED  BY <1>1, <1>2, <1>4, Zenon

(* What the frame f adds to what was meant. *)
Adds(f, m, n) ==
    /\ ~n.refused
    /\ f.op >= CLOSE =>
         /\ n.messages = Append(m.messages, [op |-> f.op, data |-> f.data])
         /\ n.replies = m.replies \o Reply(f) /\ n.begun = m.begun
    /\ ~(f.op >= CLOSE) => n.replies = m.replies
    /\ ~(f.op >= CLOSE) /\ f.fin =>
         n.messages = Append(m.messages, Grown(f, m)) /\ n.begun = <<>>
    /\ ~(f.op >= CLOSE) /\ ~f.fin =>
         n.messages = m.messages /\ n.begun = <<Grown(f, m)>>

LEMMA AddsAfter ==
    ASSUME NEW f, Lawful(f), NEW m \in Meanings, ~m.refused, ~Refusable(f, m)
    PROVE  Adds(f, m, After(f, m))
<1>1. PICK n : n = After(f, m)  OBVIOUS
<1>2. ~n.refused
  BY <1>1, AfterIs
<1>3. f.op >= CLOSE =>
         /\ n.messages = Append(m.messages, [op |-> f.op, data |-> f.data])
         /\ n.replies = m.replies \o Reply(f) /\ n.begun = m.begun
  BY <1>1, AfterIs
<1>4. ~(f.op >= CLOSE) => n.replies = m.replies
  BY <1>1, AfterIs
<1>5. ~(f.op >= CLOSE) /\ f.fin =>
         n.messages = Append(m.messages, Grown(f, m)) /\ n.begun = <<>>
  BY <1>1, AfterIs
<1>6. ~(f.op >= CLOSE) /\ ~f.fin =>
         n.messages = m.messages /\ n.begun = <<Grown(f, m)>>
  BY <1>1, AfterIs
<1> QED  BY <1>1, <1>2, <1>3, <1>4, <1>5, <1>6, Zenon DEF Adds

LEMMA AddsNext ==
    ASSUME NEW s \in Streams, NEW k \in 0..Len(s), k < Len(s), NEW m, m = Meant(s, k),
           ~m.refused, NEW g, g = s[k + 1], NEW n, n = Meant(s, k + 1)
    PROVE  /\ Lawful(g) /\ m \in Meanings /\ n \in Meanings
           /\ Refusable(g, m) => n.refused
           /\ ~Refusable(g, m) => Adds(g, m, n)
<1>1. PICK i : i = k + 1  OBVIOUS
<1>2. Len(s) \in Nat
  BY StreamsAre
<1>3. i \in 1..Len(s) /\ i - 1 = k
  BY <1>1, <1>2
<1>4. Meant(s, i) = After(s[i], Meant(s, i - 1)) /\ Lawful(s[i])
  BY <1>2, <1>3, MeantSteps, StreamsAre
<1>5. Lawful(g) /\ n = After(g, m) /\ m \in Meanings
  <2>1. m \in Meanings
    BY MeantType
  <2> QED  BY <1>1, <1>3, <1>4, <2>1, Zenon
<1>6. n \in Meanings /\ (Refusable(g, m) => n.refused)
  BY <1>5, AfterIs
<1>7. ASSUME ~Refusable(g, m)
      PROVE  Adds(g, m, n)
  BY <1>5, <1>7, AddsAfter, Zenon
<1> QED  BY <1>5, <1>6, <1>7

(* The loop has read the frame k + 1 and holds h. *)
LEMMA ReadOn ==
    ASSUME frames \in Streams, fed_bytes \in 0..Len(FrameStream(frames)), delivering, upgraded,
           frames' = frames, fed_bytes' = fed_bytes, upgraded' = upgraded,
           delivering' = delivering, NEW k \in 0..Len(frames), k < Len(frames),
           NEW z, z = FrameAt(frames, k + 1), z <= fed_bytes,
           NEW x, x = SubSeq(FrameStream(frames), z + 1, fed_bytes),
           NEW n, n = Meant(frames, k + 1), ~n.refused, NEW h \in Seq(Byte), Holding(h, n),
           reass_len' = Len(h), recv_mbuf' = h \o x, messages' = n.messages,
           replies' = n.replies
    PROVE  FramesInv'
<1>1. PICK i : i = k + 1  OBVIOUS
<1>2. i \in 0..Len(frames)
  <2>1. Len(frames) \in Nat
    BY StreamsAre
  <2> QED  BY <1>1, <2>1
<1>3. recv_mbuf' = Buffer(h, FrameStream(frames), FrameAt(frames, i), fed_bytes)
  BY <1>1, Zenon DEF Buffer
<1>4. /\ FrameAt(frames, i) <= fed_bytes /\ ~Meant(frames, i).refused
      /\ Holding(h, Meant(frames, i)) /\ messages' = Meant(frames, i).messages
      /\ replies' = Meant(frames, i).replies
  BY <1>1, Zenon
<1> QED  BY <1>2, <1>3, <1>4, AheadMore, Zenon

LEMMA WholeRead ==
    ASSUME frames \in Streams, fed_bytes \in 0..Len(FrameStream(frames)), delivering, upgraded,
           frames' = frames, fed_bytes' = fed_bytes, upgraded' = upgraded,
           delivering' = delivering, NEW k \in 0..Len(frames), k < Len(frames),
           NEW z, z = FrameAt(frames, k + 1), z <= fed_bytes,
           NEW x, x = SubSeq(FrameStream(frames), z + 1, fed_bytes),
           NEW f \in Seq(Byte), SubSeq(recv_mbuf, 1, Len(f)) = f, reass_len = Len(f),
           NEW m, m = Meant(frames, k), ~m.refused, Holding(f, m), messages = m.messages,
           replies = m.replies, NEW g, g = frames[k + 1], ~Refusable(g, m),
           g.fin, g.op # CONTINUE, Whole(g.op, g.data, x)
    PROVE  FramesInv'
<1>1. PICK n : n = Meant(frames, k + 1)  OBVIOUS
<1>2. Lawful(g) /\ m \in Meanings /\ Adds(g, m, n)
  BY <1>1, AddsNext
<1>3. PICK b : b = Flags(g)  OBVIOUS
<1>4. /\ g.op >= CLOSE \/ g.op = TEXT
      /\ g.op = TEXT => ~(g.op >= CLOSE)
  BY <1>2, <1>3, FlagsAre
<1>5. PICK y : y = [op |-> g.op, data |-> g.data]  OBVIOUS
<1>6. /\ messages' = Append(messages, y) /\ reass_len' = reass_len
      /\ recv_mbuf' = SubSeq(recv_mbuf, 1, reass_len) \o x
      /\ Answers(g.op, g.data)
  BY <1>5, Zenon DEF Whole, Tells
<1>7. reass_len' = Len(f) /\ recv_mbuf' = f \o x
  BY <1>6, Zenon
<1>8. ~n.refused
  BY <1>2, Zenon DEF Adds
<1>9. CASE g.op >= CLOSE
  <2>1. n.messages = Append(m.messages, y) /\ n.replies = m.replies \o Reply(g)
        /\ n.begun = m.begun
    BY <1>2, <1>5, <1>9, Zenon DEF Adds
  <2>2. Holding(f, n)
    BY <2>1, Zenon DEF Holding
  <2>3. replies' = n.replies
    <3>1. m.replies \in Seq(Message)
      BY <1>2, BegunType
    <3>2. PICK q : q = [op |-> PONG, data |-> g.data]  OBVIOUS
    <3>3. PICK c : c = [op |-> CLOSE, data |-> g.data]  OBVIOUS
    <3>4. q \in Message /\ c \in Message
      <4>1. g.data \in Seq(Byte)
        BY <1>2, LawfulIs
      <4> QED  BY <3>2, <3>3, <4>1 DEF Message, PONG, CLOSE
    <3>5. /\ Append(m.replies, q) = m.replies \o <<q>> /\ Append(m.replies, c) = m.replies \o <<c>>
          /\ m.replies \o <<>> = m.replies
      BY <3>1, <3>4, AppendIsConcat, NoMore
    <3>6. CASE g.op = PING
      <4>1. replies' = Append(replies, q) /\ Reply(g) = <<q>>
        BY <1>6, <3>2, <3>6, AnswersAre, ReplyIs, Zenon
      <4> QED  BY <2>1, <3>5, <4>1, Zenon
    <3>7. CASE g.op # PING /\ g.op = CLOSE
      <4>1. replies' = Append(replies, c) /\ Reply(g) = <<c>>
        BY <1>6, <3>3, <3>7, AnswersAre, ReplyIs, Zenon
      <4> QED  BY <2>1, <3>5, <4>1, Zenon
    <3>8. CASE g.op # PING /\ g.op # CLOSE
      <4>1. replies' = replies /\ Reply(g) = <<>>
        BY <1>6, <3>8, AnswersAre, ReplyIs, Zenon
      <4> QED  BY <2>1, <3>5, <4>1, Zenon
    <3> QED  BY <3>6, <3>7, <3>8
  <2>4. messages' = n.messages
    BY <1>6, <2>1, Zenon
  <2> QED  BY <1>1, <1>7, <1>8, <2>2, <2>3, <2>4, ReadOn, Zenon
<1>10. CASE g.op = TEXT
  <2>1. m.begun = <<>>
    BY <1>10, Zenon DEF Refusable
  <2>2. Grown(g, m) = y
    BY <1>5, <2>1, Zenon DEF Grown
  <2>3. n.messages = Append(m.messages, y) /\ n.begun = <<>> /\ n.replies = m.replies
    BY <1>2, <1>4, <1>10, <2>2, Zenon DEF Adds
  <2>4. f = <<>>
    BY <2>1, HoldsNothing
  <2>5. Holding(f, n)
    BY <2>3, <2>4, Zenon DEF Holding
  <2>6. replies' = n.replies
    <3>1. replies' = replies
      <4>1. g.op # PING /\ g.op # CLOSE
        BY <1>10 DEF TEXT, PING, CLOSE
      <4> QED  BY <1>6, <4>1, AnswersAre, Zenon
    <3> QED  BY <2>3, <3>1, Zenon
  <2>7. messages' = n.messages
    BY <1>6, <2>3, Zenon
  <2> QED  BY <1>1, <1>7, <1>8, <2>5, <2>6, <2>7, ReadOn, Zenon
<1> QED  BY <1>4, <1>9, <1>10, Zenon

LEMMA DropFront ==
    ASSUME NEW s \in Seq(Byte), NEW t \in Seq(Byte)
    PROVE  SubSeq(s \o t, Len(s) + 1, Len(s \o t)) = t
<1>1. PICK w : w = s \o t  OBVIOUS
<1>2. PICK a : a = Len(s)  OBVIOUS
<1>3. PICK n : n = Len(t)  OBVIOUS
<1>4. a \in Nat /\ n \in Nat /\ w \in Seq(Byte) /\ Len(w) = a + n
      /\ \A j \in 1..n : w[a + j] = t[j]
  BY <1>1, <1>2, <1>3, JoinsAs, ConcatProperties
<1>5. PICK i : i = a + 1  OBVIOUS
<1>6. PICK j : j = a + n  OBVIOUS
<1>7. i \in Nat /\ 0 < i /\ j \in Int /\ j <= Len(w) /\ j - i + 1 = n
  BY <1>4, <1>5, <1>6
<1>8. PICK d : d = SubSeq(w, i, j)  OBVIOUS
<1>9. /\ SubSeq(w, i, j) \in Seq(Byte)
      /\ Len(SubSeq(w, i, j)) = IF i <= j THEN j - i + 1 ELSE 0
      /\ \A x \in 1..(j - i + 1) : SubSeq(w, i, j)[x] = w[i + x - 1]
  BY <1>4, <1>7, PieceOf
<1>10. d \in Seq(Byte) /\ Len(d) = n
  <2>1. Len(d) = IF i <= j THEN j - i + 1 ELSE 0
    BY <1>8, <1>9
  <2> QED  BY <1>4, <1>7, <1>8, <1>9, <2>1
<1>11. \A x \in 1..n : d[x] = t[x]
  <2> TAKE x \in 1..n
  <2>1. x \in 1..(j - i + 1) /\ i + x - 1 = a + x
    BY <1>4, <1>5, <1>7
  <2>2. d[x] = w[a + x]
    BY <1>8, <1>9, <2>1
  <2> QED  BY <1>4, <2>2
<1>12. d = t
  BY <1>3, <1>10, <1>11, SeqEqual
<1> QED  BY <1>1, <1>2, <1>4, <1>5, <1>6, <1>8, <1>12

Groups(s, t, u) == (s \o t) \o u = s \o (t \o u)

LEMMA GroupsAll ==
    ASSUME NEW s \in Seq(Byte), NEW t \in Seq(Byte), NEW u \in Seq(Byte)
    PROVE  Groups(s, t, u)
BY ConcatAssociative DEF Groups

LEMMA FirstByte ==
    ASSUME NEW s \in Seq(Byte), Len(s) > 0
    PROVE  SubSeq(s, 1, 1) = <<s[1]>>
<1>1. PICK d : d = SubSeq(s, 1, 1)  OBVIOUS
<1>2. Len(s) \in Nat /\ 1 <= Len(s) /\ s[1] \in Byte
  BY LenProperties, ElementOfSeq
<1>3. d \in Seq(Byte) /\ Len(d) = 1 /\ d[1] = s[1]
  <2>1. PICK i : i = 1  OBVIOUS
  <2>2. i \in Nat /\ 0 < i /\ i \in Int /\ i <= Len(s)
    BY <1>2, <2>1
  <2>3. /\ SubSeq(s, i, i) \in Seq(Byte)
        /\ Len(SubSeq(s, i, i)) = IF i <= i THEN i - i + 1 ELSE 0
        /\ \A x \in 1..(i - i + 1) : SubSeq(s, i, i)[x] = s[i + x - 1]
    BY <2>2, PieceOf
  <2>4. 1 \in 1..(i - i + 1) /\ i + 1 - 1 = 1 /\ i - i + 1 = 1 /\ i <= i
    BY <2>1
  <2> QED  BY <1>1, <2>1, <2>3, <2>4
<1>4. PICK e : e = <<s[1]>>  OBVIOUS
<1>5. e \in Seq(Byte) /\ Len(e) = 1 /\ e[1] = s[1]
  BY <1>2, <1>4
<1>6. \A x \in 1..1 : d[x] = e[x]
  BY <1>3, <1>5
<1> QED  BY <1>1, <1>3, <1>4, <1>5, <1>6, SeqEqual

LEMMA FragmentFirst ==
    ASSUME frames \in Streams, fed_bytes \in 0..Len(FrameStream(frames)), delivering, upgraded,
           frames' = frames, fed_bytes' = fed_bytes, upgraded' = upgraded,
           delivering' = delivering, NEW k \in 0..Len(frames), k < Len(frames),
           NEW z, z = FrameAt(frames, k + 1), z <= fed_bytes,
           NEW x, x = SubSeq(FrameStream(frames), z + 1, fed_bytes),
           NEW f \in Seq(Byte), reass_len = Len(f), recv_mbuf \in Seq(Byte), Len(recv_mbuf) > 0,
           NEW b, b = recv_mbuf[Len(f) + 1],
           NEW m, m = Meant(frames, k), ~m.refused, Holding(f, m), messages = m.messages,
           replies = m.replies, NEW g, g = frames[k + 1], ~Refusable(g, m),
           b = Flags(g), ~g.fin, g.op = TEXT, Fragment(b, g.data, x)
    PROVE  FramesInv'
<1>1. PICK n : n = Meant(frames, k + 1)  OBVIOUS
<1>2. Lawful(g) /\ m \in Meanings /\ Adds(g, m, n)
  BY <1>1, AddsNext
<1>3. m.begun = <<>>
  BY BegunInOrder
<1>4. f = <<>> /\ Len(f) = 0
  <2>1. f = <<>>
    BY <1>3, HoldsNothing
  <2> QED  BY <2>1
<1>5. /\ IsFirst(b) /\ ~IsFin(b) /\ Opcode(b) = g.op /\ b \in Byte
      /\ ~(g.op >= CLOSE) /\ g.data \in Seq(Byte)
  <2>1. g.op # CONTINUE
    BY DEF TEXT, CONTINUE
  <2> QED  BY <1>2, <2>1, FlagsAre, LawfulIs
<1>6. SubSeq(recv_mbuf, 1, 1) = <<b>>
  <2>1. b = recv_mbuf[1]
    <3>1. Len(f) + 1 = 1
      BY <1>4
    <3> QED  BY <3>1, Zenon
  <2> QED  BY <2>1, FirstByte
<1>7. PICK h : h = <<b>> \o g.data  OBVIOUS
<1>8. h \in Seq(Byte) /\ Len(h) = Len(g.data) + 1
  BY <1>5, <1>7, ConcatProperties
<1>9. /\ recv_mbuf' = (SubSeq(recv_mbuf, 1, reass_len + 1) \o g.data) \o x
      /\ reass_len' = Len(g.data) + 1 /\ messages' = messages /\ replies' = replies
  BY <1>5 DEF Fragment
<1>10. recv_mbuf' = h \o x /\ reass_len' = Len(h)
  <2>1. reass_len + 1 = 1
    BY <1>4
  <2> QED  BY <1>6, <1>7, <1>8, <1>9, <2>1
<1>11. Grown(g, m) = [op |-> g.op, data |-> g.data]
  BY <1>3, Zenon DEF Grown
<1>12. /\ n.messages = m.messages /\ n.begun = <<Grown(g, m)>> /\ n.replies = m.replies
       /\ ~n.refused
  BY <1>2, <1>5, Zenon DEF Adds
<1>13. n.begun # <<>> /\ n.begun[1].op = g.op /\ n.begun[1].data = g.data
  BY <1>11, <1>12
<1>14. Holding(h, n)
  BY <1>5, <1>7, <1>13, Zenon DEF Holding
<1>15. messages' = n.messages /\ replies' = n.replies
  BY <1>9, <1>12, Zenon
<1> QED  BY <1>1, <1>8, <1>10, <1>12, <1>14, <1>15, ReadOn, Zenon

LEMMA FragmentNext ==
    ASSUME frames \in Streams, fed_bytes \in 0..Len(FrameStream(frames)), delivering, upgraded,
           frames' = frames, fed_bytes' = fed_bytes, upgraded' = upgraded,
           delivering' = delivering, NEW k \in 0..Len(frames), k < Len(frames),
           NEW z, z = FrameAt(frames, k + 1), z <= fed_bytes,
           NEW x, x = SubSeq(FrameStream(frames), z + 1, fed_bytes), x \in Seq(Byte),
           NEW f \in Seq(Byte), SubSeq(recv_mbuf, 1, Len(f)) = f, reass_len = Len(f), NEW b,
           NEW m, m = Meant(frames, k), ~m.refused, Holding(f, m), messages = m.messages,
           replies = m.replies, NEW g, g = frames[k + 1], ~Refusable(g, m),
           b = Flags(g), g.op = CONTINUE, Fragment(b, g.data, x)
    PROVE  FramesInv'
<1>1. PICK n : n = Meant(frames, k + 1)  OBVIOUS
<1>2. Lawful(g) /\ m \in Meanings /\ Adds(g, m, n)
  BY <1>1, AddsNext
<1>3. m.begun # <<>>
  BY BegunInOrder
<1>4. PICK y : y = m.begun[1].data  OBVIOUS
<1>5. PICK c \in Byte : Opcode(c) = m.begun[1].op /\ f = <<c>> \o y
  BY <1>3, <1>4, HoldsBytes, Zenon
<1>6. /\ ~IsFirst(b) /\ (IsFin(b) <=> g.fin) /\ ~(g.op >= CLOSE) /\ g.data \in Seq(Byte)
      /\ g.fin \in BOOLEAN
  BY <1>2, FlagsAre, LawfulIs
<1>7. y \in Seq(Byte)
  BY <1>2, <1>3, <1>4, BegunType
<1>8. PICK d : d = y \o g.data  OBVIOUS
<1>9. PICK j : j = f \o g.data  OBVIOUS
<1>10. d \in Seq(Byte) /\ <<c>> \in Seq(Byte)
  BY <1>6, <1>7, <1>8, ConcatProperties
<1>11. j = <<c>> \o d
  <2>1. (<<c>> \o y) \o g.data = <<c>> \o (y \o g.data)
    <3>1. PICK v : v = <<c>>  OBVIOUS
    <3>2. PICK e : e = g.data  OBVIOUS
    <3>3. v \in Seq(Byte) /\ e \in Seq(Byte)
      BY <1>6, <1>10, <3>1, <3>2
    <3>4. Groups(v, y, e)
      BY <1>7, <3>3, GroupsAll
    <3> QED  BY <3>1, <3>2, <3>4, Zenon DEF Groups
  <2> QED  BY <1>5, <1>8, <1>9, <2>1, Zenon
<1>12. j \in Seq(Byte) /\ Len(j) = Len(f) + Len(g.data) /\ Len(j) = 1 + Len(d)
  <2>1. j \in Seq(Byte) /\ Len(j) = Len(f) + Len(g.data)
    BY <1>6, <1>9, ConcatProperties
  <2>2. Len(j) = Len(<<c>>) + Len(d)
    BY <1>10, <1>11, ConcatProperties
  <2> QED  BY <2>1, <2>2
<1>13. Grown(g, m) = [op |-> m.begun[1].op, data |-> d]
  BY <1>3, <1>4, <1>8, Zenon DEF Grown
<1>14. PICK s : s = Len(g.data) + reass_len  OBVIOUS
<1>15. s = Len(j) /\ reass_len + 0 = Len(f) /\ s \in Nat
  <2>1. Len(f) \in Nat /\ Len(g.data) \in Nat
    BY <1>6, LenProperties
  <2> QED  BY <1>12, <1>14, <2>1
<1>16. SubSeq(recv_mbuf, 1, reass_len + 0) \o g.data = j
  BY <1>9, <1>15, Zenon
<1>17. n.replies = m.replies /\ ~n.refused
  BY <1>2, <1>6, Zenon DEF Adds
<1>18. replies' = n.replies
  <2>1. replies' = replies
    BY DEF Fragment
  <2> QED  BY <1>17, <2>1, Zenon
<1>19. CASE ~g.fin
  <2>1. recv_mbuf' = j \o x /\ reass_len' = s /\ messages' = messages
    BY <1>6, <1>14, <1>16, <1>19 DEF Fragment
  <2>2. n.messages = m.messages /\ n.begun = <<Grown(g, m)>>
    BY <1>2, <1>6, <1>19, Zenon DEF Adds
  <2>3. n.begun # <<>> /\ n.begun[1].op = m.begun[1].op /\ n.begun[1].data = d
    BY <1>13, <2>2
  <2>4. Holding(j, n)
    BY <1>5, <1>11, <2>3, Zenon DEF Holding
  <2>5. messages' = n.messages /\ reass_len' = Len(j)
    BY <1>15, <2>1, <2>2, Zenon
  <2> QED  BY <1>1, <1>12, <1>17, <1>18, <2>1, <2>4, <2>5, ReadOn, Zenon
<1>20. CASE g.fin
  <2>1. /\ messages' = Append(messages, [op |-> Opcode(j[1]), data |-> SubSeq(j, 2, s)])
        /\ recv_mbuf' = SubSeq(j \o x, s + 1, Len(j \o x)) /\ reass_len' = 0
    BY <1>6, <1>14, <1>16, <1>20 DEF Fragment, Tells
  <2>2. n.messages = Append(m.messages, Grown(g, m)) /\ n.begun = <<>>
    BY <1>2, <1>6, <1>20, Zenon DEF Adds
  <2>3. j[1] = c
    BY <1>10, <1>11, ConcatProperties
  <2>4. SubSeq(j, 2, s) = d
    <3>1. SubSeq(<<c>> \o d, Len(<<c>>) + 1, Len(<<c>> \o d)) = d
      BY <1>10, DropFront
    <3>2. Len(<<c>>) + 1 = 2
      OBVIOUS
    <3> QED  BY <1>11, <1>15, <3>1, <3>2
  <2>5. recv_mbuf' = x
    BY <1>12, <1>15, <2>1, DropFront
  <2>6. PICK h : h = <<>>  OBVIOUS
  <2>7. h \in Seq(Byte) /\ Len(h) = 0 /\ h \o x = x
    BY <2>6, ConcatEmptySeq
  <2>8. Holding(h, n)
    BY <2>2, <2>6, Zenon DEF Holding
  <2>9. messages' = n.messages
    <3>1. [op |-> Opcode(j[1]), data |-> SubSeq(j, 2, s)] = Grown(g, m)
      BY <1>5, <1>13, <2>3, <2>4, Zenon
    <3> QED  BY <2>1, <2>2, <3>1, Zenon
  <2>10. recv_mbuf' = h \o x /\ reass_len' = Len(h)
    BY <2>1, <2>5, <2>7, Zenon
  <2> QED  BY <1>1, <1>17, <1>18, <2>7, <2>8, <2>9, <2>10, ReadOn, Zenon
<1> QED  BY <1>6, <1>19, <1>20, Zenon

(* What there is of the frame k + 1 does not reach its end. *)
LEMMA NotThere ==
    ASSUME NEW s, NEW w, NEW k, NEW a, NEW u, NEW f, NEW b, NEW v, Seen(s, w, k, a, u, f, b, v),
           k < Len(s), NEW t, t = FrameBytes(s[k + 1]), Len(t) \in Nat
    PROVE  /\ Len(v) < Len(t) => u < FrameAt(s, k + 1)
           /\ ~(Len(v) < Len(t)) => /\ FrameAt(s, k + 1) <= u /\ Len(t) <= Len(v)
                                    /\ a + Len(t) = FrameAt(s, k + 1) /\ a + Len(t) <= u
<1>1. /\ a \in Nat /\ u \in a..Len(w) /\ Len(v) = u - a /\ Len(w) \in Nat
      /\ FrameAt(s, k + 1) = a + Len(t)
  BY Zenon DEF Seen
<1>2. PICK n : n = Len(t)  OBVIOUS
<1>3. n \in Nat
  BY <1>2
<1> QED  BY <1>1, <1>2, <1>3

LEMMA DeliverRefuses ==
    ASSUME frames \in Streams, fed_bytes \in 0..Len(FrameStream(frames)),
           NEW k \in 0..Len(frames), NEW f \in Seq(Byte), NEW r \in Seq({Refusal}),
           ReadTo(k, f, r), k < Len(frames), New # <<>>, Deliver,
           Refusable(frames[k + 1], Meant(frames, k))
    PROVE  FramesInv'
<1>1. PICK v : v = New  OBVIOUS
<1>2. PICK l : l = LengthsOf(v)  OBVIOUS
<1>3. PICK e : e = l.header + l.data  OBVIOUS
<1>4. PICK d : d = Masked(SubSeq(v, l.header + 1, e), SubSeq(v, l.header - l.mask + 1, l.header))
  OBVIOUS
<1>5. PICK x : x = SubSeq(v, e + 1, Len(v))  OBVIOUS
<1>6. PICK g : g = frames[k + 1]  OBVIOUS
<1>7. PICK m : m = Meant(frames, k)  OBVIOUS
<1>8. PICK t : t = FrameBytes(g)  OBVIOUS
<1>9. ~m.refused /\ Holding(f, m) /\ reass_len = Len(f)
  BY <1>7, Zenon DEF ReadTo
<1>10. PICK n : n = Meant(frames, k + 1)  OBVIOUS
<1>11. Lawful(g) /\ m \in Meanings /\ n.refused
  BY <1>6, <1>7, <1>9, <1>10, AddsNext
<1>12. Seen(frames, FrameStream(frames), k, FrameAt(frames, k), fed_bytes, f, recv_mbuf, v)
  BY <1>1, LooksNow
<1>13. v[1] = Flags(g) /\ Agrees(v, t) /\ v \in Seq(Byte)
  BY <1>1, <1>6, <1>8, <1>12, Zenon DEF Seen
<1>14. PICK b : b = v[1]  OBVIOUS
<1>15. /\ frames' = frames /\ fed_bytes' = fed_bytes /\ upgraded' = upgraded
       /\ \/ Refuse
          \/ /\ ~(IsFragment(b) /\ IsControl(b))
             /\ IsFragment(b) \/ IsControl(b) \/ reass_len = 0
             /\ Overflows(l) => Refuse
             /\ ~Overflows(l) /\ (e <= 0 \/ e > Len(v)) => AwaitsMore
  BY <1>1, <1>2, <1>3, <1>4, <1>5, <1>14, DeliverIs, Zenon
<1>16. /\ IsControl(b) <=> g.op >= CLOSE
       /\ IsFragment(b) <=> ~g.fin \/ g.op = CONTINUE
       /\ g.op = TEXT => ~(g.op >= CLOSE) /\ g.op # CONTINUE
  BY <1>11, <1>13, <1>14, FlagsAre
<1>17. Refuse \/ (AwaitsMore /\ Len(v) < Len(t))
  <2>1. CASE g.op >= CLOSE /\ ~g.fin
    BY <1>15, <1>16, <2>1, Zenon
  <2>2. CASE g.op = TEXT /\ m.begun # <<>>
    <3>1. g.fin
      BY <1>6, <1>7, <1>9, <2>2, BegunInOrder
    <3>2. reass_len # 0
      <4>1. PICK c \in Byte : f = <<c>> \o m.begun[1].data
        BY <1>9, <2>2, HoldsBytes, Zenon
      <4>2. m.begun[1].data \in Seq(Byte) /\ <<c>> \in Seq(Byte)
        BY <1>11, <2>2, BegunType
      <4>3. Len(f) = Len(<<c>>) + Len(m.begun[1].data)
        BY <4>1, <4>2, ConcatProperties
      <4>4. Len(m.begun[1].data) \in Nat /\ Len(<<c>>) = 1
        BY <4>2, LenProperties
      <4> QED  BY <1>9, <4>3, <4>4
    <3> QED  BY <1>15, <1>16, <2>2, <3>1, <3>2, Zenon
  <2>3. CASE g.form = "top"
    <3>1. Overflows(l) \/ (Len(v) < Len(t) /\ (e <= 0 \/ e > Len(v)))
      BY <1>2, <1>3, <1>8, <1>11, <1>13, <2>3, NotTaken
    <3> QED  BY <1>15, <3>1, Zenon
  <2>4. Refusable(g, m)
    BY <1>6, <1>7
  <2> QED  BY <2>1, <2>2, <2>3, <2>4, Zenon DEF Refusable
<1>18. CASE Refuse
  BY <1>10, <1>11, <1>15, <1>18, StaysRefused
<1>19. CASE AwaitsMore /\ Len(v) < Len(t)
  <2>1. Len(t) \in Nat
    BY <1>8, <1>11, FrameShape, LenProperties
  <2>2. fed_bytes < FrameAt(frames, k + 1)
    BY <1>6, <1>8, <1>12, <1>19, <2>1, NotThere
  <2> QED  BY <1>15, <1>19, <2>2, StaysWaiting
<1> QED  BY <1>17, <1>18, <1>19, Zenon

Takes(g, t, v, l) ==
    /\ ~Overflows(l) /\ l.header + l.data = Len(t) /\ Len(t) > 0
    /\ Masked(SubSeq(v, l.header + 1, l.header + l.data),
              SubSeq(v, l.header - l.mask + 1, l.header)) = g.data

LEMMA TakesWhole ==
    ASSUME NEW g, Lawful(g), NEW t, t = FrameBytes(g), NEW v \in Seq(Byte), Agrees(v, t),
           Len(t) <= Len(v), g.form # "top"
    PROVE  Takes(g, t, v, LengthsOf(v))
<1>1. PICK l : l = LengthsOf(v)  OBVIOUS
<1>2. /\ ~Overflows(l) /\ l.header + l.data = Len(t) /\ Len(t) > 0
      /\ Masked(SubSeq(v, l.header + 1, l.header + l.data),
                SubSeq(v, l.header - l.mask + 1, l.header)) = g.data
  BY <1>1, TakenWhole
<1> QED  BY <1>1, <1>2, Zenon DEF Takes

LeavesBehind(w, a, u, v, e) == SubSeq(v, e + 1, Len(v)) = SubSeq(w, (a + e) + 1, u)

LEMMA LeftBehind ==
    ASSUME NEW w \in Seq(Byte), NEW a \in Nat, NEW u \in a..Len(w), NEW e \in Nat, a + e <= u
    PROVE  LeavesBehind(w, a, u, SubSeq(w, a + 1, u), e)
<1>1. PICK v : v = SubSeq(w, a + 1, u)  OBVIOUS
<1>2. SubSeq(v, e + 1, Len(v)) = SubSeq(w, (a + e) + 1, u)
  BY <1>1, BehindFrame
<1> QED  BY <1>1, <1>2, Zenon DEF LeavesBehind

LEMMA DeliverReads ==
    ASSUME frames \in Streams, fed_bytes \in 0..Len(FrameStream(frames)), delivering, upgraded,
           NEW k \in 0..Len(frames), NEW f \in Seq(Byte), NEW r \in Seq({Refusal}),
           ReadTo(k, f, r), k < Len(frames), New # <<>>, Deliver,
           ~Refusable(frames[k + 1], Meant(frames, k))
    PROVE  FramesInv'
<1>1. PICK v : v = New  OBVIOUS
<1>2. PICK l : l = LengthsOf(v)  OBVIOUS
<1>3. PICK e : e = l.header + l.data  OBVIOUS
<1>4. PICK d : d = Masked(SubSeq(v, l.header + 1, e), SubSeq(v, l.header - l.mask + 1, l.header))
  OBVIOUS
<1>5. PICK x : x = SubSeq(v, e + 1, Len(v))  OBVIOUS
<1>6. PICK g : g = frames[k + 1]  OBVIOUS
<1>7. PICK m : m = Meant(frames, k)  OBVIOUS
<1>8. PICK t : t = FrameBytes(g)  OBVIOUS
<1>9. /\ ~m.refused /\ Holding(f, m) /\ reass_len = Len(f) /\ messages = m.messages
      /\ replies = m.replies \o r
      /\ r # <<>> => Meant(frames, k + 1).refused
  BY <1>7, Zenon DEF ReadTo
<1>10. PICK n : n = Meant(frames, k + 1)  OBVIOUS
<1>11. ~Refusable(g, m)
  BY <1>6, <1>7, Zenon
<1>12. Lawful(g) /\ m \in Meanings /\ ~n.refused
  <2>1. Lawful(g) /\ m \in Meanings /\ Adds(g, m, n)
    BY <1>6, <1>7, <1>9, <1>10, <1>11, AddsNext
  <2> QED  BY <2>1, Zenon DEF Adds
<1>13. replies = m.replies
  <2>1. r = <<>>
    BY <1>9, <1>10, <1>12, Zenon
  <2>2. m.replies \o <<>> = m.replies
    BY <1>12, BegunType, NoMore
  <2> QED  BY <1>9, <2>1, <2>2, Zenon
<1>14. PICK w : w = FrameStream(frames)  OBVIOUS
<1>15. PICK a : a = FrameAt(frames, k)  OBVIOUS
<1>16. Seen(frames, w, k, a, fed_bytes, f, recv_mbuf, v)
  BY <1>1, <1>14, <1>15, LooksNow
<1>17. /\ v[1] = Flags(g) /\ Agrees(v, t) /\ v \in Seq(Byte) /\ recv_mbuf[Len(f) + 1] = v[1]
       /\ SubSeq(recv_mbuf, 1, Len(f)) = f
       /\ w \in Seq(Byte) /\ a \in Nat /\ fed_bytes \in a..Len(w)
       /\ v = SubSeq(w, a + 1, fed_bytes) /\ v # <<>>
  BY <1>1, <1>6, <1>8, <1>16, Zenon DEF Seen
<1>18. PICK b : b = v[1]  OBVIOUS
<1>19. /\ frames' = frames /\ fed_bytes' = fed_bytes /\ upgraded' = upgraded
       /\ \/ Refusing(b) /\ Refuse
          \/ /\ Overflows(l) => Refuse
             /\ ~Overflows(l) /\ (e <= 0 \/ e > Len(v)) => AwaitsMore
             /\ ~Overflows(l) /\ ~(e <= 0 \/ e > Len(v)) =>
                   /\ delivering' = delivering
                   /\ IsFragment(b) => Fragment(b, d, x)
                   /\ ~IsFragment(b) => Whole(Opcode(b), d, x)
  BY <1>1, <1>2, <1>3, <1>4, <1>5, <1>18, DeliverIs, Zenon
<1>20. /\ IsControl(b) <=> g.op >= CLOSE
       /\ IsFragment(b) <=> ~g.fin \/ g.op = CONTINUE
       /\ Opcode(b) = g.op
       /\ g.op >= CLOSE \/ g.op = CONTINUE \/ g.op = TEXT
       /\ g.op = CONTINUE => ~(g.op >= CLOSE)
  BY <1>12, <1>17, <1>18, FlagsAre
<1>21. ~Refusing(b)
  <2>1. ~(IsFragment(b) /\ IsControl(b))
    BY <1>11, <1>20, Zenon DEF Refusable
  <2>2. ASSUME ~IsFragment(b), ~IsControl(b)
        PROVE  reass_len = 0
    <3>1. g.op = TEXT
      BY <1>20, <2>2, Zenon
    <3>2. f = <<>>
      <4>1. m.begun = <<>>
        BY <1>11, <3>1, Zenon DEF Refusable
      <4> QED  BY <1>9, <4>1, HoldsNothing
    <3> QED  BY <1>9, <3>2
  <2>3. reass_len = 0 => ~(reass_len > 0)
    OBVIOUS
  <2> QED  BY <2>1, <2>2, <2>3, Zenon DEF Refusing
<1>22. Len(t) \in Nat
  BY <1>8, <1>12, FrameShape, LenProperties
<1>23. g.form # "top"
  BY <1>11, Zenon DEF Refusable
<1>24. CASE Len(v) < Len(t)
  <2>1. ~Overflows(l) /\ (e <= 0 \/ e > Len(v))
    BY <1>2, <1>3, <1>8, <1>12, <1>17, <1>23, <1>24, NotTaken
  <2>2. fed_bytes < FrameAt(frames, k + 1)
    BY <1>6, <1>8, <1>16, <1>22, <1>24, NotThere
  <2>3. AwaitsMore
    BY <1>19, <1>21, <2>1, Zenon
  <2> QED  BY <1>19, <2>2, <2>3, StaysWaiting
<1>25. CASE ~(Len(v) < Len(t))
  <2>1. /\ FrameAt(frames, k + 1) <= fed_bytes /\ Len(t) <= Len(v)
        /\ a + Len(t) = FrameAt(frames, k + 1) /\ a + Len(t) <= fed_bytes
    BY <1>6, <1>8, <1>16, <1>22, <1>25, NotThere
  <2>2. ~Overflows(l) /\ e = Len(t) /\ Len(t) > 0 /\ d = g.data
    <3>1. Takes(g, t, v, LengthsOf(v))
      BY <1>8, <1>12, <1>17, <1>23, <2>1, TakesWhole
    <3> QED  BY <1>2, <1>3, <1>4, <3>1, Zenon DEF Takes
  <2>3. ~(e <= 0 \/ e > Len(v))
    <3>1. Len(v) \in Nat
      BY <1>17, LenProperties
    <3> QED  BY <1>22, <2>1, <2>2, <3>1
  <2>4. PICK z : z = FrameAt(frames, k + 1)  OBVIOUS
  <2>5. x = SubSeq(w, z + 1, fed_bytes)
    <3>1. LeavesBehind(w, a, fed_bytes, SubSeq(w, a + 1, fed_bytes), Len(t))
      BY <1>17, <1>22, <2>1, LeftBehind, Zenon
    <3>2. LeavesBehind(w, a, fed_bytes, v, Len(t))
      BY <1>17, <3>1, Zenon
    <3> QED  BY <1>5, <2>1, <2>2, <2>4, <3>2, Zenon DEF LeavesBehind
  <2>6. /\ delivering' = delivering
        /\ IsFragment(b) => Fragment(b, g.data, x)
        /\ ~IsFragment(b) => Whole(g.op, g.data, x)
    BY <1>19, <1>20, <1>21, <2>2, <2>3, Zenon
  <2>7. z <= fed_bytes
    BY <2>1, <2>4, Zenon
  <2>8. CASE g.fin /\ g.op # CONTINUE
    <3>1. Whole(g.op, g.data, x)
      BY <1>20, <2>6, <2>8, Zenon
    <3> QED  BY <1>6, <1>7, <1>9, <1>11, <1>13, <1>14, <1>17, <1>19, <2>4, <2>5, <2>6, <2>7,
                <2>8, <3>1, WholeRead, Zenon
  <2>9. CASE g.op = CONTINUE
    <3>1. Fragment(b, g.data, x)
      BY <1>20, <2>6, <2>9, Zenon
    <3>2. x \in Seq(Byte)
      <4>1. Len(v) \in Nat /\ Len(t) + 1 \in Nat /\ 0 < Len(t) + 1
        BY <1>17, <1>22, LenProperties
      <4>2. PICK i : i = Len(t) + 1  OBVIOUS
      <4>3. PICK j : j = Len(v)  OBVIOUS
      <4>4. i \in Nat /\ 0 < i /\ j \in Int /\ j <= Len(v)
        BY <4>1, <4>2, <4>3
      <4>5. SubSeq(v, i, j) \in Seq(Byte)
        BY <1>17, <4>4, PieceOf
      <4> QED  BY <1>5, <2>2, <4>2, <4>3, <4>5, Zenon
    <3> QED  BY <1>6, <1>7, <1>9, <1>11, <1>13, <1>14, <1>17, <1>18, <1>19, <2>4, <2>5, <2>6,
                <2>7, <2>9, <3>1, <3>2, FragmentNext, Zenon
  <2>10. CASE ~g.fin /\ g.op # CONTINUE
    <3>1. Fragment(b, g.data, x)
      BY <1>20, <2>6, <2>10, Zenon
    <3>2. g.op = TEXT
      BY <1>11, <1>20, <2>10, Zenon DEF Refusable
    <3>3. recv_mbuf \in Seq(Byte) /\ Len(recv_mbuf) > 0
      <4>1. recv_mbuf = Buffer(f, w, a, fed_bytes)
        BY <1>14, <1>15, Zenon DEF ReadTo
      <4>2. recv_mbuf \in Seq(Byte) /\ Len(f) \in Nat /\ Len(recv_mbuf) = Len(f) + (fed_bytes - a)
        BY <1>17, <4>1, ByteBuffer
      <4>3. Len(v) = fed_bytes - a /\ Len(v) > 0
        BY <1>16, <1>17, Zenon DEF Seen
      <4> QED  BY <1>17, <4>2, <4>3
    <3>4. b = recv_mbuf[Len(f) + 1] /\ b = Flags(g)
      BY <1>17, <1>18, Zenon
    <3> QED  BY <1>6, <1>7, <1>9, <1>11, <1>13, <1>14, <1>19, <2>4, <2>5, <2>6, <2>7, <2>10,
                <3>1, <3>2, <3>3, <3>4, FragmentFirst, Zenon
  <2> QED  BY <2>8, <2>9, <2>10, Zenon
<1> QED  BY <1>24, <1>25, Zenon

LEMMA DeliverStays == FramesInv /\ Deliver => FramesInv'
<1> SUFFICES ASSUME FramesInv, Deliver PROVE FramesInv'
  OBVIOUS
<1>1. frames \in Streams /\ fed_bytes \in 0..Len(FrameStream(frames)) /\ (delivering => upgraded)
  BY DEF FramesInv
<1>2. PICK k \in 0..Len(frames), f \in Seq(Byte), r \in Seq({Refusal}) : ReadTo(k, f, r)
  BY Zenon DEF FramesInv
<1>3. /\ delivering /\ frames' = frames /\ fed_bytes' = fed_bytes /\ upgraded' = upgraded
      /\ New = <<>> => AwaitsMore
  BY DEF Deliver, AwaitsMore
<1>4. Seen(frames, FrameStream(frames), k, FrameAt(frames, k), fed_bytes, f, recv_mbuf, New)
  BY <1>1, <1>2, LooksNow
<1>5. CASE New = <<>>
  <2>1. PICK v : v = New  OBVIOUS
  <2>2. PICK a : a = FrameAt(frames, k)  OBVIOUS
  <2>3. /\ Len(v) = fed_bytes - a /\ (v # <<>> <=> Len(v) > 0) /\ v \in Seq(Byte)
        /\ a \in Nat /\ fed_bytes \in a..Len(FrameStream(frames))
        /\ k < Len(frames) => FrameAt(frames, k + 1) \in Nat /\ FrameAt(frames, k + 1) > a
    BY <1>4, <2>1, <2>2, Zenon DEF Seen
  <2>4. fed_bytes = a
    <3>1. Len(v) = 0
      BY <1>5, <2>1, EmptySeq
    <3> QED  BY <2>3, <3>1
  <2>5. k < Len(frames) \/ k = Len(frames)
    <3>1. Len(frames) \in Nat
      BY <1>1, StreamsAre
    <3> QED  BY <3>1
  <2>6. k = Len(frames) \/ fed_bytes < FrameAt(frames, k + 1)
    BY <2>3, <2>4, <2>5
  <2> QED  BY <1>1, <1>2, <1>3, <1>5, <2>6, StaysWaiting
<1>6. CASE New # <<>>
  <2>1. k < Len(frames)
    <3>1. PICK v : v = New  OBVIOUS
    <3>2. v # <<>> => k < Len(frames)
      BY <1>4, <3>1, Zenon DEF Seen
    <3> QED  BY <1>6, <3>1, <3>2
  <2> QED  BY <1>1, <1>2, <1>3, <1>6, <2>1, DeliverRefuses, DeliverReads, Zenon
<1> QED  BY <1>5, <1>6

LEMMA FramesStep == FramesInv /\ [FramesNext]_frameBytes => FramesInv'
<1> SUFFICES ASSUME FramesInv, [FramesNext]_frameBytes PROVE FramesInv'
  OBVIOUS
<1>1. frames \in Streams
  BY DEF FramesInv
<1>2. Len(StreamBytes) \in Nat /\ fed_bytes \in Nat
  <2>1. fed_bytes \in 0..Len(FrameStream(frames)) /\ Len(FrameStream(frames)) \in Nat
    BY <1>1, FramesLie DEF FramesInv
  <2> QED  BY <1>1, <2>1, StreamBytesAre
<1>3. CASE \E n \in 0..(Len(StreamBytes) - fed_bytes) : Upgrade(n)
  <2>1. PICK n \in 0..(Len(StreamBytes) - fed_bytes) : Upgrade(n)
    BY <1>3
  <2>2. /\ n \in Nat /\ Feeds(n) /\ upgraded'
        /\ UNCHANGED <<frames, reass_len, send_and_close, messages, replies>>
    BY <1>2, <2>1 DEF Upgrade
  <2> QED  BY <2>2, FramesFed
<1>4. CASE \E n \in 1..(Len(StreamBytes) - fed_bytes) : FramesArrive(n)
  <2>1. PICK n \in 1..(Len(StreamBytes) - fed_bytes) : FramesArrive(n)
    BY <1>4
  <2>2. /\ n \in Nat /\ Feeds(n) /\ upgraded'
        /\ UNCHANGED <<frames, reass_len, send_and_close, messages, replies>>
    BY <1>2, <2>1 DEF FramesArrive
  <2> QED  BY <2>2, FramesFed
<1>5. CASE Deliver
  BY <1>5, DeliverStays
<1>6. CASE IdlePing \/ UNCHANGED frameBytes
  <2>1. /\ frames' = frames /\ fed_bytes' = fed_bytes /\ upgraded' = upgraded
        /\ recv_mbuf' = recv_mbuf /\ reass_len' = reass_len /\ delivering' = delivering
        /\ send_and_close' = send_and_close /\ messages' = messages /\ replies' = replies
    BY <1>6 DEF IdlePing, frameBytes
  <2> QED  BY <2>1, Zenon DEF FramesInv, ReadTo
<1> QED  BY <1>3, <1>4, <1>5, <1>6 DEF FramesNext

-----------------------------------------------------------------------------
(* What the invariant says of what was told and answered *)

LEMMA CameWholeFrom ==
    ASSUME NEW s, s = frames, s \in Streams, NEW k \in 0..Len(s), fed_bytes \in Nat,
           FrameAt(s, k) <= fed_bytes
    PROVE  CameWhole \in k..Len(s)
<1>1. PICK n : n = Len(s) - k  OBVIOUS
<1>2. Len(s) \in Nat /\ n \in Nat /\ k \in Nat
  BY <1>1, StreamsAre
<1>3. PICK j \in k..Len(s) : FrameAt(s, j) <= fed_bytes
                            /\ (j = Len(s) \/ fed_bytes < FrameAt(s, j + 1))
  <2> SUFFICES ASSUME \A j \in k..Len(s) :
                        FrameAt(s, j) <= fed_bytes => j # Len(s) /\ ~(fed_bytes < FrameAt(s, j + 1))
               PROVE  FALSE
    OBVIOUS
  <2> DEFINE T == {d \in 0..n : FrameAt(s, k + d) <= fed_bytes}
  <2>1. 0 \in T
    <3>1. k + 0 = k
      BY <1>2
    <3> QED  BY <1>2, <3>1
  <2>2. \A d \in 1..n : d - 1 \in T => d \in T
    <3> TAKE d \in 1..n
    <3> HAVE d - 1 \in T
    <3>1. PICK j : j = k + (d - 1)  OBVIOUS
    <3>2. j \in k..Len(s) /\ j + 1 = k + d /\ d \in 0..n /\ j + 1 \in 0..Len(s)
      BY <1>1, <1>2, <3>1
    <3>3. FrameAt(s, j) <= fed_bytes
      BY <3>1
    <3>4. ~(fed_bytes < FrameAt(s, j + 1))
      BY <3>2, <3>3
    <3>5. FrameAt(s, j + 1) \in Nat
      BY <3>2, FramesLie
    <3>6. FrameAt(s, j + 1) <= fed_bytes
      BY <3>4, <3>5
    <3> QED  BY <3>2, <3>6
  <2> HIDE DEF T
  <2>3. \A d \in 0..n : d \in T
    BY <1>2, <2>1, <2>2, Upwards
  <2>4. n \in T /\ k + n = Len(s) /\ Len(s) \in k..Len(s)
    BY <1>1, <1>2, <2>3
  <2>5. FrameAt(s, Len(s)) <= fed_bytes
    <3>1. FrameAt(s, k + n) <= fed_bytes
      BY <2>4 DEF T
    <3> QED  BY <2>4, <3>1
  <2> QED  BY <2>4, <2>5
<1>4. j \in 0..Len(s)
  BY <1>2
<1>5. CameWhole = j
  BY <1>3, <1>4, CameWholeIs
<1> QED  BY <1>5

(* Answers with refusals behind them. *)
Answered(q, z) ==
    /\ Len(q) <= Len(z) /\ SubSeq(z, 1, Len(q)) = q
    /\ \A i \in (Len(q) + 1)..Len(z) : z[i] = Refusal

LEMMA AnsweredIs ==
    ASSUME NEW q \in Seq(Message), NEW r \in Seq({Refusal}), NEW z, z = q \o r
    PROVE  Answered(q, z) /\ (Len(z) > Len(q) <=> r # <<>>)
<1>1. PICK S : S = Message \cup {Refusal}  OBVIOUS
<1>2. q \in Seq(S) /\ r \in Seq(S)
  <2>1. Message \subseteq S /\ {Refusal} \subseteq S
    BY <1>1
  <2> QED  BY <2>1
<1>3. /\ z \in Seq(S) /\ Len(q) \in Nat /\ Len(r) \in Nat /\ Len(z) = Len(q) + Len(r)
      /\ \A j \in 1..Len(q) : z[j] = q[j]
      /\ \A j \in 1..Len(r) : z[Len(q) + j] = r[j]
  BY <1>2, JoinsAs
<1>4. PICK a : a = Len(q)  OBVIOUS
<1>5. PICK d : d = SubSeq(z, 1, a)  OBVIOUS
<1>6. d = q
  <2>1. PICK i : i = 1  OBVIOUS
  <2>2. i \in Nat /\ 0 < i /\ a \in Int /\ a <= Len(z) /\ a \in Nat
    BY <1>3, <1>4, <2>1
  <2>3. /\ SubSeq(z, i, a) \in Seq(S)
        /\ Len(SubSeq(z, i, a)) = IF i <= a THEN a - i + 1 ELSE 0
        /\ \A x \in 1..(a - i + 1) : SubSeq(z, i, a)[x] = z[i + x - 1]
    BY <1>3, <2>2, PieceOf
  <2>4. d \in Seq(S) /\ Len(d) = a
    <3>1. Len(d) = IF i <= a THEN a - i + 1 ELSE 0
      BY <1>5, <2>1, <2>3
    <3> QED  BY <1>5, <2>1, <2>2, <2>3, <3>1
  <2>5. \A x \in 1..a : d[x] = q[x]
    <3> TAKE x \in 1..a
    <3>1. x \in 1..(a - i + 1) /\ i + x - 1 = x
      BY <2>1, <2>2
    <3>2. d[x] = z[x]
      BY <1>5, <2>1, <2>3, <3>1
    <3> QED  BY <1>3, <1>4, <3>2
  <2> QED  BY <1>2, <1>4, <2>4, <2>5, SeqEqual
<1>7. \A i \in (a + 1)..Len(z) : z[i] = Refusal
  <2> TAKE i \in (a + 1)..Len(z)
  <2>1. PICK j : j = i - a  OBVIOUS
  <2>2. j \in 1..Len(r) /\ a + j = i
    BY <1>3, <1>4, <2>1
  <2>3. r[j] \in {Refusal}
    BY <2>2, ElementOfSeq
  <2> QED  BY <1>3, <1>4, <2>2, <2>3
<1>8. a <= Len(z)
  BY <1>3, <1>4
<1>9. Len(z) > Len(q) <=> r # <<>>
  <2>1. r # <<>> <=> Len(r) # 0
    BY EmptySeq
  <2> QED  BY <1>3, <2>1
<1> QED  BY <1>4, <1>5, <1>6, <1>7, <1>8, <1>9, Zenon DEF Answered

(* A frame that is refused says nothing. *)
LEMMA RefusedSays ==
    ASSUME NEW g, Lawful(g), NEW m \in Meanings, ~m.refused, NEW e, e = After(g, m), e.refused
    PROVE  e.messages = m.messages /\ e.replies = m.replies
<1>1. Refusable(g, m)
  <2>1. ~Refusable(g, m) => ~e.refused
    BY AfterIs
  <2> QED  BY <2>1, Zenon
<1>2. e = [m EXCEPT !.refused = TRUE]
  BY <1>1, Zenon DEF After
<1>3. PICK D : D = {<<>>} \cup {<<h>> : h \in Message}  OBVIOUS
<1>4. PICK Q : Q = Seq(Message)  OBVIOUS
<1>5. m \in [messages : Q, replies : Q, begun : D, refused : BOOLEAN]
  BY <1>3, <1>4, Zenon DEF Meanings
<1> QED  BY <1>2, <1>5

LEMMA FramesRead == FramesInv => FramesReadAsSent
<1> SUFFICES ASSUME FramesInv, ~delivering PROVE FramesReadAsSent
  BY DEF FramesReadAsSent
<1>1. frames \in Streams /\ fed_bytes \in 0..Len(FrameStream(frames))
  BY DEF FramesInv
<1>2. PICK k \in 0..Len(frames), f \in Seq(Byte), r \in Seq({Refusal}) : ReadTo(k, f, r)
  BY Zenon DEF FramesInv
<1>3. PICK m : m = Meant(frames, k)  OBVIOUS
<1>4. PICK c : c = CameWhole  OBVIOUS
<1>5. PICK n : n = Meant(frames, c)  OBVIOUS
<1>6. PICK s : s = frames  OBVIOUS
<1>7. /\ FrameAt(s, k) <= fed_bytes /\ ~m.refused /\ messages = m.messages
      /\ replies = m.replies \o r
      /\ r # <<>> => send_and_close /\ k < Len(s) /\ Meant(s, k + 1).refused
      /\ k = Len(s) \/ fed_bytes < FrameAt(s, k + 1) \/ r # <<>>
  BY <1>2, <1>3, <1>6, Zenon DEF ReadTo
<1>8. s \in Streams /\ k \in 0..Len(s) /\ Len(s) \in Nat /\ fed_bytes \in Nat /\ k \in Nat
  <2>1. Len(frames) \in Nat /\ Len(FrameStream(frames)) \in Nat
    BY <1>1, StreamsAre, FramesLie
  <2> QED  BY <1>1, <1>6, <2>1
<1>9. m \in Meanings
  BY <1>3, <1>6, <1>8, MeantType
<1>10. ASSUME r # <<>>
       PROVE  /\ Meant(s, k + 1).refused /\ k + 1 \in 0..Len(s)
              /\ Meant(s, k + 1).messages = m.messages /\ Meant(s, k + 1).replies = m.replies
              /\ \A j \in (k + 1)..Len(s) : Meant(s, j) = Meant(s, k + 1)
  <2>1. PICK i : i = k + 1  OBVIOUS
  <2>2. k < Len(s) /\ Meant(s, i).refused
    BY <1>7, <1>10, <2>1
  <2>3. i \in 1..Len(s) /\ i - 1 = k /\ i \in 0..Len(s)
    BY <1>8, <2>1, <2>2
  <2>4. PICK e : e = Meant(s, i)  OBVIOUS
  <2>5. e = After(s[i], m) /\ Lawful(s[i]) /\ e.refused
    <3>1. Lawful(s[i])
      BY <1>8, <2>3, StreamsAre
    <3>2. Meant(s, i) = After(s[i], Meant(s, i - 1))
      BY <1>8, <2>3, MeantSteps
    <3>3. Meant(s, i - 1) = m
      BY <1>3, <1>6, <2>3, Zenon
    <3> QED  BY <2>2, <2>4, <3>1, <3>2, <3>3, Zenon
  <2>6. e.messages = m.messages /\ e.replies = m.replies
    BY <1>7, <1>9, <2>5, RefusedSays
  <2>7. \A j \in i..Len(s) : Meant(s, j) = Meant(s, i)
    BY <1>8, <2>2, <2>3, RefusedStays
  <2> QED  BY <2>1, <2>2, <2>3, <2>4, <2>6, <2>7, Zenon
<1>11. /\ n.messages = m.messages /\ n.replies = m.replies
       /\ n.refused => r # <<>>
       /\ r # <<>> => Meant(s, Len(s)).refused
  <2>1. r # <<>> => Meant(s, Len(s)).refused
    <3> SUFFICES ASSUME r # <<>> PROVE Meant(s, Len(s)).refused
      OBVIOUS
    <3>1. Len(s) \in (k + 1)..Len(s)
      BY <1>8, <1>10
    <3>2. Meant(s, Len(s)) = Meant(s, k + 1)
      BY <1>10, <3>1
    <3> QED  BY <1>10, <3>2
  <2>2. CASE k = Len(s) \/ fed_bytes < FrameAt(s, k + 1)
    <3>1. c = k
      BY <1>4, <1>6, <1>7, <1>8, <2>2, CameWholeIs
    <3>2. n = m
      BY <1>3, <1>5, <3>1
    <3> QED  BY <1>7, <2>1, <3>2
  <2>3. CASE ~(k = Len(s) \/ fed_bytes < FrameAt(s, k + 1))
    <3>1. r # <<>>
      BY <1>7, <2>3
    <3>2. PICK i : i = k + 1  OBVIOUS
    <3>3. i \in 0..Len(s)
      BY <1>10, <3>1, <3>2
    <3>4. FrameAt(s, i) <= fed_bytes
      <4>1. FrameAt(s, i) \in Nat
        BY <1>8, <3>3, FramesLie
      <4> QED  BY <1>8, <2>3, <3>2, <4>1
    <3>5. c \in i..Len(s)
      BY <1>4, <1>6, <1>8, <3>3, <3>4, CameWholeFrom
    <3>6. n = Meant(s, k + 1)
      BY <1>5, <1>6, <1>10, <3>1, <3>2, <3>5
    <3> QED  BY <1>10, <2>1, <3>1, <3>6
  <2> QED  BY <2>2, <2>3
<1>12. Answered(m.replies, replies) /\ (Len(replies) > Len(m.replies) <=> r # <<>>)
  <2>1. m.replies \in Seq(Message)
    BY <1>9, BegunType
  <2> QED  BY <1>7, <2>1, AnsweredIs
<1>13. PICK q : q = n.replies  OBVIOUS
<1>14. q = m.replies
  BY <1>11, <1>13
<1>15. /\ messages = n.messages
       /\ Len(q) <= Len(replies) /\ SubSeq(replies, 1, Len(q)) = q
       /\ \A i \in (Len(q) + 1)..Len(replies) : replies[i] = Refusal
       /\ n.refused => Len(replies) > Len(q)
       /\ Len(replies) > Len(q) => send_and_close /\ Meant(s, Len(s)).refused
  <2>1. messages = n.messages /\ (Len(replies) > Len(q) <=> r # <<>>)
    BY <1>7, <1>11, <1>12, <1>14
  <2>2. /\ Len(q) <= Len(replies) /\ SubSeq(replies, 1, Len(q)) = q
        /\ \A i \in (Len(q) + 1)..Len(replies) : replies[i] = Refusal
    BY <1>12, <1>14, Zenon DEF Answered
  <2> QED  BY <1>7, <1>11, <2>1, <2>2, Zenon
<1> QED  BY <1>4, <1>5, <1>6, <1>13, <1>15, Zenon DEF FramesReadAsSent

(* A ping lies among the replies, and on a connection that was upgraded. *)
PingsInv ==
    /\ pings \in Seq(0..Len(replies))
    /\ pings # <<>> => upgraded

LEMMA RepliesAre == FramesInv => replies \in Seq(Message \cup {Refusal})
<1> SUFFICES ASSUME FramesInv PROVE replies \in Seq(Message \cup {Refusal})
  OBVIOUS
<1>1. PICK k \in 0..Len(frames), f \in Seq(Byte), r \in Seq({Refusal}) : ReadTo(k, f, r)
  BY Zenon DEF FramesInv
<1>2. PICK q : q = Meant(frames, k).replies  OBVIOUS
<1>3. replies = q \o r
  BY <1>1, <1>2, Zenon DEF ReadTo
<1>4. q \in Seq(Message)
  <2>1. Meant(frames, k) \in Meanings
    BY MeantType DEF FramesInv
  <2> QED  BY <1>2, <2>1, BegunType
<1>5. PICK S : S = Message \cup {Refusal}  OBVIOUS
<1>6. q \in Seq(S) /\ r \in Seq(S)
  <2>1. Message \subseteq S /\ {Refusal} \subseteq S
    BY <1>5
  <2> QED  BY <1>4, <2>1
<1>7. q \o r \in Seq(S)
  BY <1>6, JoinsAs
<1> QED  BY <1>3, <1>5, <1>7

(* Replies are only added. *)
LEMMA RepliesGrow ==
    ASSUME FramesNext
    PROVE  replies' = replies \/ \E x : replies' = Append(replies, x)
<1>1. CASE \E n \in 0..(Len(StreamBytes) - fed_bytes) : Upgrade(n)
  BY <1>1 DEF Upgrade
<1>2. CASE \E n \in 1..(Len(StreamBytes) - fed_bytes) : FramesArrive(n)
  BY <1>2 DEF FramesArrive
<1>3. CASE Deliver
  <2>1. ASSUME NEW op, NEW data, Answers(op, data)
        PROVE  replies' = replies \/ \E x : replies' = Append(replies, x)
    BY <2>1 DEF Answers
  <2>2. ASSUME Refuse
        PROVE  replies' = replies \/ \E x : replies' = Append(replies, x)
    BY <2>2, Zenon DEF Refuse
  <2>3. \/ replies' = replies \/ Refuse
        \/ \E flags, data, rest : Fragment(flags, data, rest) \/ Whole(Opcode(flags), data, rest)
    <3>1. Deliver => \/ UNCHANGED replies \/ Refuse
                     \/ \E flags, data, rest :
                          Fragment(flags, data, rest) \/ Whole(Opcode(flags), data, rest)
      BY Zenon DEF Deliver
    <3> QED  BY <1>3, <3>1
  <2>4. ASSUME NEW flags, NEW data, NEW rest, Fragment(flags, data, rest)
        PROVE  replies' = replies
    BY <2>4, Zenon DEF Fragment
  <2>5. ASSUME NEW flags, NEW data, NEW rest, Whole(Opcode(flags), data, rest)
        PROVE  Answers(Opcode(flags), data)
    BY <2>5, Zenon DEF Whole
  <2> QED  BY <2>1, <2>2, <2>3, <2>4, <2>5
<1>4. CASE IdlePing
  BY <1>4 DEF IdlePing
<1> QED  BY <1>1, <1>2, <1>3, <1>4 DEF FramesNext

LEMMA PingsStep == FramesInv /\ PingsInv /\ [FramesNext]_frameBytes => PingsInv'
<1> SUFFICES ASSUME FramesInv, PingsInv, [FramesNext]_frameBytes PROVE PingsInv'
  OBVIOUS
<1>1. PICK S : S = Message \cup {Refusal}  OBVIOUS
<1>2. replies \in Seq(S) /\ Len(replies) \in Nat
  <2>1. replies \in Seq(S)
    BY <1>1, RepliesAre
  <2> QED  BY <2>1, LenProperties
<1>3. Len(replies') \in Nat /\ Len(replies) <= Len(replies')
  <2>1. CASE replies' = replies
    BY <1>2, <2>1
  <2>2. CASE \E x : replies' = Append(replies, x)
    <3>1. PICK x : replies' = Append(replies, x)
      BY <2>2
    <3>2. Len(Append(replies, x)) = Len(replies) + 1
      <4>1. replies \in Seq(S \cup {x}) /\ x \in S \cup {x}
        BY <1>2
      <4> QED  BY <4>1, AppendProperties
    <3> QED  BY <1>2, <3>1, <3>2
  <2>3. CASE UNCHANGED frameBytes
    BY <1>2, <2>3 DEF frameBytes
  <2> QED  BY <2>1, <2>2, <2>3, RepliesGrow
<1>4. pings' = pings \/ IdlePing
  BY DEF FramesNext, frameBytes, Upgrade, FramesArrive, Deliver
<1>5. upgraded => upgraded'
  BY DEF FramesNext, frameBytes, Upgrade, FramesArrive, Deliver, IdlePing
<1>6. pings \in Seq(0..Len(replies'))
  <2>1. 0..Len(replies) \subseteq 0..Len(replies')
    BY <1>2, <1>3
  <2>2. PICK T : T = 0..Len(replies)  OBVIOUS
  <2>3. PICK U : U = 0..Len(replies')  OBVIOUS
  <2>4. pings \in Seq(T) /\ T \subseteq U
    BY <2>1, <2>2, <2>3, Zenon DEF PingsInv
  <2>5. pings \in Seq(U)
    BY <2>4
  <2> QED  BY <2>3, <2>5
<1>7. CASE pings' = pings
  BY <1>5, <1>6, <1>7 DEF PingsInv
<1>8. CASE IdlePing
  <2>1. /\ upgraded' = upgraded /\ upgraded
        /\ pings' = Append(pings, Len(replies)) /\ replies' = replies
    BY <1>8 DEF IdlePing
  <2>2. Len(replies) \in 0..Len(replies)
    BY <1>2
  <2>3. Append(pings, Len(replies)) \in Seq(0..Len(replies))
    BY <2>2, AppendProperties DEF PingsInv
  <2> QED  BY <2>1, <2>3 DEF PingsInv
<1> QED  BY <1>4, <1>7, <1>8

LEMMA FramesTyped == FramesInv /\ PingsInv => FramesTypeOK
<1> SUFFICES ASSUME FramesInv, PingsInv PROVE FramesTypeOK
  OBVIOUS
<1>1. /\ frames \in Streams /\ fed_bytes \in 0..Len(FrameStream(frames))
      /\ delivering => upgraded
  BY DEF FramesInv
<1>2. PICK k \in 0..Len(frames), f \in Seq(Byte), r \in Seq({Refusal}) : ReadTo(k, f, r)
  BY Zenon DEF FramesInv
<1>3. PICK w : w = FrameStream(frames)  OBVIOUS
<1>4. PICK a : a = FrameAt(frames, k)  OBVIOUS
<1>5. a <= fed_bytes /\ reass_len = Len(f) /\ recv_mbuf = Buffer(f, w, a, fed_bytes)
  BY <1>2, <1>3, <1>4, Zenon DEF ReadTo
<1>6. w \in Seq(Byte) /\ Len(w) \in Nat /\ a \in 0..Len(w)
  BY <1>1, <1>3, <1>4, FramesLie
<1>7. a \in Nat /\ fed_bytes \in a..Len(w)
  BY <1>1, <1>3, <1>5, <1>6
<1>8. Len(f) \in Nat /\ Len(recv_mbuf) = Len(f) + (fed_bytes - a)
  BY <1>5, <1>6, <1>7, ByteBuffer
<1>9. reass_len \in 0..Len(recv_mbuf)
  BY <1>5, <1>7, <1>8
<1>10. fed_bytes \in 0..Len(StreamBytes)
  BY <1>1, StreamBytesAre
<1> QED  BY <1>1, <1>9, <1>10 DEF FramesTypeOK, PingsInv

(* What mg_ws_handler has told, answered and still holds always is what the first k  *)
(* frames mean, for some k of those that came whole, however their bytes were cut. *)
THEOREM FramesInvHolds == FramesSpec => []FramesInv
BY FramesFirst, FramesStep, PTL DEF FramesSpec

(* However its bytes are cut, frames in the order of RFC 6455 (Orderly), but for    *)
(* those that are refused, are read as they were sent: mg_ws_handler tells each   *)
(* message once and in order, its fragments joined and unmasked, answers each    *)
(* ping and close in order, and tells nothing behind a frame it refused, whatever *)
(* pings it sends an idle peer between.                                     *)
THEOREM FramesReadAsSentHolds == FramesSpec => []FramesReadAsSent
BY FramesInvHolds, FramesRead, PTL

(* The fragments joined so far always lie in the receive buffer, and the loop of   *)
(* mg_ws_handler runs, and pings are sent, only on a connection that was upgraded.  *)
THEOREM FramesTypes == FramesSpec => []FramesTypeOK
<1>1. FramesInit => PingsInv
  <2>1. <<>> \in Seq(0..Len(replies))  OBVIOUS
  <2> QED  BY <2>1 DEF FramesInit, PingsInv
<1>2. FramesSpec => []PingsInv
  BY <1>1, FramesInvHolds, PingsStep, PTL DEF FramesSpec
<1> QED  BY <1>2, FramesInvHolds, FramesTyped, PTL

=============================================================================
