----------------------- MODULE HttpConnection_proofs -----------------------
(* Safety of HttpConnection, for any number of requests, any length of the   *)
(* file and any bound of the send buffer, while no request is chunked: that *)
(* is a hypothesis of every theorem (NoChunks), since mg_handle_chunked      *)
(* shortens the buffer and leaves rcvd as it was.                           *)
EXTENDS HttpConnection, SequenceTheorems, FiniteSetTheorems,
        WellFoundedInduction, TLAPS

U == {"head", "body", "block"} \X Nat
Calls == [req : 1..MaxRequests, body : Seq((1..MaxRequests) \X Nat)]

(* The hypothesis of the theorems. *)
NoChunks == Kinds \cap {"chunked", "chunkfile"} = {}

(* The next request the handler is to be given. *)
Coming == Len(handed) + 1

ScriptKnown ==
    /\ NoChunks
    /\ script \in Seq({AllKinds[k] : k \in Kinds})
    /\ Len(script) \in 1..MaxRequests
    /\ patient \in BOOLEAN

(* The buffer holds the peer's units from the beginning of a request on: the *)
(* first that was not handled.                                             *)
BufferInv ==
    /\ ScriptKnown
    /\ up \in BOOLEAN /\ parsing \in BOOLEAN
    /\ got \in 0..Total
    /\ MaySend(got)
    /\ handed \in Seq(Calls)
    /\ \A k \in 1..Len(handed) : handed[k].req = k
    /\ rcvd = Len(io)
    /\ io \in Seq((1..MaxRequests) \X Nat)
    /\ up => /\ Len(handed) <= Len(script)
             /\ \A k \in 1..Len(handed) : script[k].head = "good" /\ script[k].announced
             /\ EndOf[Len(handed)] + Len(io) = got
             /\ \A k \in 1..Len(io) : io[k] = Unit(EndOf[Len(handed)] + k)
    /\ ~up => io = <<>> /\ ~parsing
    /\ parsing => io # <<>>

(* What is known of the file whoever sends behind it. *)
FileState == [fp : BOOLEAN, at : Nat, cl : Nat, sent : Nat, keepalive : BOOLEAN]

SendTyped ==
    /\ send_mbuf \in Seq(U) /\ heard \in Seq(U)
    /\ file \in FileState
    /\ len \in {0, FileLen}

(* The peer sends nothing behind a file it is still being sent. *)
Orderly == patient \/ "behind" \notin Mishaps

FileTyped ==
    /\ file \in [fp : BOOLEAN, at : 0..FileLen, cl : 0..FileLen,
                 sent : 0..FileLen, keepalive : BOOLEAN]
    /\ file.sent <= file.cl

(* Whoever sends behind it, a transfer stays within its file, and a file that  *)
(* has been sent is closed.                                                *)
TransferInv ==
    /\ FileTyped
    /\ opened \in Nat
    /\ IF file.fp THEN file.sent < file.cl /\ opened >= 1 ELSE file = Closed

(* m blocks of the file behind at, and what is still to be moved of it. *)
Blocks(at, m) == [k \in 1..m |-> Block(at + k)]
Rest == Blocks(file.at, file.cl - file.sent)

Accounts ==
    /\ FileTyped
    /\ IF file.fp THEN file.sent < file.cl ELSE file = Closed
    /\ opened = IF file.fp THEN 1 ELSE 0
    /\ up => /\ heard \o (send_mbuf \o Rest) = Promised(Len(handed))
             /\ file.fp =>
                  /\ io = <<>>
                  /\ handed # <<>>
                  /\ script[Len(handed)].answer = "file"
                  /\ file.at + (file.cl - file.sent) <= FileLen
                  /\ send_mbuf = <<>> => len < FileLen
    /\ ~up => ~file.fp

(* What is not being parsed is not there. *)
NothingWaits ==
    up /\ ~parsing /\ ~close_immediately =>
        \A i \in 1..Len(script) : i = Coming => ~Whole(i)

HInv == BufferInv /\ SendTyped /\ (Orderly => Accounts /\ NothingWaits)

-----------------------------------------------------------------------------
(* The requests and their units *)

KindKnown(r) ==
    /\ r \in Request /\ r.head # "chunked"
    /\ r.first \in Nat \ {0} /\ r.last \in Nat
    /\ r.first <= r.last + 1 /\ r.last <= FileLen
    /\ r.first - 1 <= FileLen

LEMMA KindsAre == NoChunks => \A k \in Kinds : KindKnown(AllKinds[k])
<1>. SUFFICES ASSUME NoChunks PROVE \A k \in Kinds : KindKnown(AllKinds[k])
  OBVIOUS
<1>0. FileLen \in Nat /\ 1 <= FileLen /\ MaxRequest \in Nat
  BY HttpAssumption
<1>1. ASSUME NEW a \in Answers PROVE KindKnown(Get(a))
  BY <1>0, <1>1 DEF KindKnown, Get, Request, Heads
<1>2. KindKnown(AllKinds.page) /\ KindKnown(AllKinds.last) /\ KindKnown(AllKinds.open)
      /\ KindKnown(AllKinds.gone) /\ KindKnown(AllKinds.file)
  BY <1>1 DEF AllKinds, Answers
<1>3. KindKnown(AllKinds.tail) /\ KindKnown(AllKinds.norange)
  <2>1. PICK g : g = Get("file")
    OBVIOUS
  <2>2. /\ KindKnown(g) /\ g.first = 1 /\ g.last = FileLen
        /\ AllKinds.tail = [g EXCEPT !.first = 2, !.keepalive = FALSE]
        /\ AllKinds.norange = [g EXCEPT !.last = 0]
    BY <1>1, <2>1 DEF AllKinds, Get, Answers
  <2>3. KindKnown([g EXCEPT !.last = 0])
    BY <1>0, <2>2 DEF KindKnown, Request
  <2>4. PICK f : f = [g EXCEPT !.first = 2, !.keepalive = FALSE]
    OBVIOUS
  <2>5. f \in Request /\ f.first = 2 /\ f.last = FileLen /\ f.head # "chunked"
    BY <2>2, <2>4 DEF KindKnown, Request
  <2>6. KindKnown(f)
    BY <1>0, <2>5 DEF KindKnown
  <2>. QED BY <2>2, <2>3, <2>4, <2>6
<1>4. KindKnown(AllKinds.form) /\ KindKnown(AllKinds.unsized)
      /\ KindKnown(AllKinds.bad) /\ KindKnown(AllKinds.endless)
  <2>1. PICK g : g = Get("page")
    OBVIOUS
  <2>2. /\ KindKnown(g)
        /\ AllKinds.form = [g EXCEPT !.body = 2]
        /\ AllKinds.unsized = [g EXCEPT !.body = 1, !.announced = FALSE]
        /\ AllKinds.bad = [g EXCEPT !.head = "bad"]
        /\ AllKinds.endless = [g EXCEPT !.head = "endless"]
    BY <1>1, <2>1 DEF AllKinds, Answers
  <2>3. /\ KindKnown([g EXCEPT !.body = 2])
        /\ KindKnown([g EXCEPT !.body = 1, !.announced = FALSE])
    <3>1. KindKnown([g EXCEPT !.body = 2])
      BY <2>2 DEF KindKnown, Request
    <3>2. PICK f : f = [g EXCEPT !.body = 1]
      OBVIOUS
    <3>3. KindKnown(f)
      BY <2>2, <3>2 DEF KindKnown, Request
    <3>4. KindKnown([f EXCEPT !.announced = FALSE])
      BY <3>3 DEF KindKnown, Request
    <3>. QED BY <3>1, <3>2, <3>4
  <2>4. KindKnown([g EXCEPT !.head = "bad"]) /\ KindKnown([g EXCEPT !.head = "endless"])
    BY <2>2 DEF KindKnown, Request, Heads
  <2>. QED BY <2>2, <2>3, <2>4
<1>5. Kinds \subseteq {"page", "last", "open", "gone", "file", "tail", "norange",
                       "form", "unsized", "bad", "endless"}
  BY HttpAssumption DEF AllKinds, NoChunks
<1>. QED BY <1>2, <1>3, <1>4, <1>5

LEMMA ScriptIs ==
    ASSUME ScriptKnown
    PROVE  /\ Len(script) \in Nat /\ 1 <= Len(script) /\ Len(script) <= MaxRequests
           /\ MaxRequests \in Nat
           /\ DOMAIN script = 1..Len(script)
           /\ \A i \in 1..Len(script) : KindKnown(script[i])
           /\ \A i \in 1..Len(script) : script[i].head # "chunked"
           /\ \A i \in 1..Len(script) : Length(script[i]) \in Nat /\ Length(script[i]) >= 2
           /\ \A i \in 1..Len(script) : script[i].head # "endless" =>
                Length(script[i]) = HeadLen + script[i].body
<1>1. /\ Len(script) \in Nat /\ 1 <= Len(script) /\ Len(script) <= MaxRequests
      /\ MaxRequests \in Nat
      /\ DOMAIN script = 1..Len(script)
  BY HttpAssumption DEF ScriptKnown
<1>2. ASSUME NEW i \in 1..Len(script) PROVE KindKnown(script[i])
  <2>1. script[i] \in {AllKinds[k] : k \in Kinds}
    BY ElementOfSeq DEF ScriptKnown
  <2>. QED BY <2>1, KindsAre DEF ScriptKnown
<1>3. ASSUME NEW r, KindKnown(r)
      PROVE  /\ Length(r) \in Nat /\ Length(r) >= 2
             /\ r.head # "endless" => Length(r) = HeadLen + r.body
  BY <1>3, HttpAssumption DEF KindKnown, Request, Length, HeadLen
<1>4. \A i \in 1..Len(script) : script[i].head # "chunked"
  BY <1>2 DEF KindKnown
<1>. QED BY <1>1, <1>2, <1>3, <1>4

LEMMA Least ==
    ASSUME NEW S \in SUBSET Nat, S # {}
    PROVE  \E x \in S : \A y \in S : x <= y
<1> DEFINE Less == {ss \in Nat \X Nat : ss[1] < ss[2]}
<1>1. IsWellFoundedOn(Less, Nat)
  BY NatLessThanWellFounded DEF OpToRel
<1>2. PICK x \in S : \A y \in S : ~(<<y, x>> \in Less)
  <2>. HIDE DEF Less
  <2>. QED BY <1>1, WFMin
<1>3. ASSUME NEW y \in S PROVE x <= y
  <2>1. <<y, x>> \in Nat \X Nat /\ <<y, x>>[1] = y /\ <<y, x>>[2] = x
    OBVIOUS
  <2>2. ~(y < x)
    BY <1>2, <2>1
  <2>. QED BY <2>2
<1>. QED BY <1>3

(* A sum of the first i terms, for i up to n, is a function on 0..n. *)
LEMMA SumsExist ==
    ASSUME NEW n \in Nat, NEW t \in [1..n -> Nat]
    PROVE  \E f \in [0..n -> Nat] :
             f = [i \in 0..n |-> IF i = 0 THEN 0 ELSE f[i - 1] + t[i]]
<1>. DEFINE Ok(m) == \E f \in [0..m -> Nat] :
                       f = [i \in 0..m |-> IF i = 0 THEN 0 ELSE f[i - 1] + t[i]]
            Bad == {m \in 0..n : ~Ok(m)}
<1>1. Ok(0)
  <2>. DEFINE g == [i \in 0..0 |-> 0]
  <2>1. g \in [0..0 -> Nat] /\ \A i \in 0..0 : g[i] = IF i = 0 THEN 0 ELSE g[i - 1] + t[i]
    OBVIOUS
  <2>. HIDE DEF g
  <2>2. g = [i \in 0..0 |-> IF i = 0 THEN 0 ELSE g[i - 1] + t[i]]
    BY <2>1
  <2>. QED BY <2>1, <2>2
<1>2. ASSUME NEW m \in 1..n, Ok(m - 1) PROVE Ok(m)
  <2>1. PICK f \in [0..(m - 1) -> Nat] :
          f = [i \in 0..(m - 1) |-> IF i = 0 THEN 0 ELSE f[i - 1] + t[i]]
    BY <1>2
  <2>. DEFINE g == [i \in 0..m |-> IF i = m THEN f[m - 1] + t[m] ELSE f[i]]
  <2>2. m - 1 \in 0..(m - 1) /\ m \in Nat /\ m # 0 /\ t[m] \in Nat
    OBVIOUS
  <2>3. g \in [0..m -> Nat]
    BY <2>2
  <2>4. ASSUME NEW i \in 0..m PROVE g[i] = IF i = 0 THEN 0 ELSE g[i - 1] + t[i]
    <3>1. CASE i = m
      <4>1. m - 1 \in 0..m /\ m - 1 # m
        BY <2>2
      <4>. QED BY <2>2, <3>1, <4>1
    <3>2. CASE i # m /\ i # 0
      <4>1. i \in 0..(m - 1) /\ i - 1 \in 0..m /\ i - 1 # m
        BY <2>2, <3>2
      <4>2. f[i] = f[i - 1] + t[i]
        BY <2>1, <3>2, <4>1
      <4>. QED BY <3>2, <4>1, <4>2
    <3>3. CASE i = 0
      <4>1. 0 \in 0..(m - 1) /\ f[0] = 0
        BY <2>1, <2>2
      <4>. QED BY <2>2, <3>3, <4>1
    <3>. QED BY <3>1, <3>2, <3>3
  <2>. HIDE DEF g
  <2>5. g = [i \in 0..m |-> IF i = 0 THEN 0 ELSE g[i - 1] + t[i]]
    BY <2>3, <2>4
  <2>. QED BY <2>3, <2>5
<1>3. Bad = {}
  <2>. SUFFICES ASSUME Bad # {} PROVE FALSE
    OBVIOUS
  <2>. HIDE DEF Ok
  <2>0. Bad \in SUBSET Nat
    OBVIOUS
  <2>1. PICK m \in Bad : \A y \in Bad : m <= y
    <3>. HIDE DEF Bad
    <3>. QED BY <2>0, Least
  <2>2. m \in 1..n /\ m - 1 \in 0..n /\ m - 1 \notin Bad
    BY <1>1, <2>1
  <2>. QED BY <1>2, <2>1, <2>2
<1>4. n \in 0..n
  OBVIOUS
<1>. HIDE DEF Ok
<1>5. Ok(n)
  BY <1>3, <1>4
<1>. QED BY <1>5 DEF Ok

LEMMA SumsAre ==
    ASSUME NEW n \in Nat, NEW t \in [1..n -> Nat], NEW f,
           f = [i \in 0..n |-> IF i = 0 THEN 0 ELSE f[i - 1] + t[i]]
    PROVE  f \in [0..n -> Nat]
<1>. DEFINE Bad == {i \in 0..n : f[i] \notin Nat}
<1>1. Bad = {}
  <2>. SUFFICES ASSUME Bad # {} PROVE FALSE
    OBVIOUS
  <2>0. Bad \in SUBSET Nat
    OBVIOUS
  <2>1. PICK m \in Bad : \A y \in Bad : m <= y
    <3>. HIDE DEF Bad
    <3>. QED BY <2>0, Least
  <2>2. m \in 0..n /\ m # 0
    OBVIOUS
  <2>3. m \in 1..n /\ m - 1 \in 0..n /\ m - 1 \notin Bad
    BY <2>1, <2>2
  <2>4. f[m - 1] \in Nat /\ t[m] \in Nat /\ f[m] = f[m - 1] + t[m]
    BY <2>2, <2>3
  <2>. QED BY <2>4
<1>. QED BY <1>1

LEMMA EndOfIs ==
    ASSUME ScriptKnown
    PROVE  /\ EndOf \in [0..MaxRequests -> Nat]
           /\ EndOf[0] = 0
           /\ \A i \in 1..Len(script) : EndOf[i] = EndOf[i - 1] + Length(script[i])
<1>. DEFINE t == [i \in 1..MaxRequests |->
                    IF i <= Len(script) THEN Length(script[i]) ELSE 0]
<1>1. MaxRequests \in Nat /\ t \in [1..MaxRequests -> Nat]
  BY ScriptIs
<1>2. PICK f \in [0..MaxRequests -> Nat] :
        f = [i \in 0..MaxRequests |-> IF i = 0 THEN 0 ELSE f[i - 1] + t[i]]
  <2>. HIDE DEF t
  <2>. QED BY <1>1, SumsExist
<1>3. f = [i \in 0..MaxRequests |->
             IF i = 0 THEN 0
             ELSE f[i - 1] + IF i <= Len(script) THEN Length(script[i]) ELSE 0]
  <2>1. \A i \in 0..MaxRequests : i # 0 => i \in 1..MaxRequests
    BY <1>1
  <2>2. \A i \in 1..MaxRequests :
          t[i] = IF i <= Len(script) THEN Length(script[i]) ELSE 0
    OBVIOUS
  <2>. HIDE DEF t
  <2>3. \A i \in 0..MaxRequests :
          f[i] = IF i = 0 THEN 0
                 ELSE f[i - 1] + IF i <= Len(script) THEN Length(script[i]) ELSE 0
    BY <1>2, <2>1, <2>2
  <2>. QED BY <2>3
<1>4. EndOf = [i \in 0..MaxRequests |->
                 IF i = 0 THEN 0
                 ELSE EndOf[i - 1] + IF i <= Len(script) THEN Length(script[i]) ELSE 0]
  BY <1>3 DEF EndOf
<1>5. EndOf[0] = 0
  BY <1>1, <1>4
<1>6. \A i \in 1..Len(script) : EndOf[i] = EndOf[i - 1] + Length(script[i])
  BY <1>4, ScriptIs
<1>7. EndOf = [i \in 0..MaxRequests |-> IF i = 0 THEN 0 ELSE EndOf[i - 1] + t[i]]
  <2>1. \A i \in 0..MaxRequests : i # 0 => i \in 1..MaxRequests
    BY <1>1
  <2>2. \A i \in 1..MaxRequests :
          t[i] = IF i <= Len(script) THEN Length(script[i]) ELSE 0
    OBVIOUS
  <2>. HIDE DEF t
  <2>3. \A i \in 0..MaxRequests :
          EndOf[i] = IF i = 0 THEN 0 ELSE EndOf[i - 1] + t[i]
    BY <1>4, <2>1, <2>2
  <2>4. EndOf = [i \in 0..MaxRequests |-> EndOf[i]]
    BY <1>4
  <2>. QED BY <2>3, <2>4
<1>8. EndOf \in [0..MaxRequests -> Nat]
  <2>. HIDE DEF t
  <2>. QED BY <1>1, <1>7, SumsAre
<1>. QED BY <1>5, <1>6, <1>8

LEMMA EndOfGrows ==
    ASSUME ScriptKnown
    PROVE  \A i, j \in 0..Len(script) : i < j => EndOf[i] + 2 <= EndOf[j]
<1>. SUFFICES ASSUME NEW i \in 0..Len(script)
              PROVE  \A j \in 0..Len(script) : i < j => EndOf[i] + 2 <= EndOf[j]
  OBVIOUS
<1>. DEFINE Bad == {j \in 0..Len(script) : i < j /\ ~(EndOf[i] + 2 <= EndOf[j])}
<1>0. Len(script) \in Nat /\ Len(script) <= MaxRequests /\ MaxRequests \in Nat
  BY ScriptIs
<1>1. Bad = {}
  <2>. SUFFICES ASSUME Bad # {} PROVE FALSE
    OBVIOUS
  <2>0. Bad \in SUBSET Nat
    BY <1>0
  <2>1. PICK m \in Bad : \A y \in Bad : m <= y
    <3>. HIDE DEF Bad
    <3>. QED BY <2>0, Least
  <2>2. /\ m \in 1..Len(script) /\ i < m /\ ~(EndOf[i] + 2 <= EndOf[m])
        /\ m - 1 \in 0..Len(script) /\ m - 1 \notin Bad
    BY <1>0, <2>1
  <2>3. /\ EndOf[m] = EndOf[m - 1] + Length(script[m])
        /\ Length(script[m]) \in Nat /\ Length(script[m]) >= 2
        /\ EndOf[m - 1] \in Nat /\ EndOf[i] \in Nat
    BY <1>0, <2>2, EndOfIs, ScriptIs
  <2>4. i = m - 1 \/ EndOf[i] + 2 <= EndOf[m - 1]
    BY <1>0, <2>2
  <2>5. CASE i = m - 1
    BY <2>2, <2>3, <2>5
  <2>6. CASE EndOf[i] + 2 <= EndOf[m - 1]
    BY <2>2, <2>3, <2>6
  <2>. QED BY <2>4, <2>5, <2>6
<1>. QED BY <1>1

LEMMA EndsAre ==
    ASSUME ScriptKnown
    PROVE  /\ \A i \in 0..Len(script) : EndOf[i] \in Nat /\ EndOf[i] <= Total
           /\ Total \in Nat
           /\ \A i \in 1..Len(script) :
                /\ i - 1 \in 0..Len(script)
                /\ EndOf[i] = EndOf[i - 1] + Length(script[i])
<1>1. Len(script) \in Nat /\ Len(script) <= MaxRequests /\ MaxRequests \in Nat
  BY ScriptIs
<1>2. \A i \in 0..Len(script) : EndOf[i] \in Nat
  BY <1>1, EndOfIs
<1>3. Total = EndOf[Len(script)] /\ Len(script) \in 0..Len(script)
  BY <1>1 DEF Total
<1>4. ASSUME NEW i \in 0..Len(script) PROVE EndOf[i] <= Total
  <2>1. i = Len(script) \/ i < Len(script)
    BY <1>1
  <2>2. i < Len(script) => EndOf[i] + 2 <= EndOf[Len(script)]
    BY <1>3, EndOfGrows
  <2>. QED BY <1>2, <1>3, <2>1, <2>2
<1>. QED BY <1>1, <1>2, <1>3, <1>4, EndOfIs

(* Every unit is one of one request. *)
LEMMA UnitIs ==
    ASSUME ScriptKnown, NEW i \in 1..Len(script), NEW k \in 1..Length(script[i])
    PROVE  Unit(EndOf[i - 1] + k) = <<i, k>>
<1>1. /\ Len(script) \in Nat /\ Length(script[i]) \in Nat
      /\ i - 1 \in 0..Len(script) /\ EndOf[i - 1] \in Nat /\ EndOf[i] \in Nat
      /\ EndOf[i] = EndOf[i - 1] + Length(script[i])
  BY ScriptIs, EndsAre
<1>2. PICK n : n = EndOf[i - 1] + k
  OBVIOUS
<1>3. n \in Nat /\ EndOf[i - 1] < n /\ n <= EndOf[i]
  BY <1>1, <1>2
<1>4. ASSUME NEW j \in 1..Len(script), EndOf[j - 1] < n, n <= EndOf[j]
      PROVE  j = i
  <2>1. EndOf[j - 1] \in Nat /\ EndOf[j] \in Nat /\ j - 1 \in 0..Len(script)
        /\ j \in 0..Len(script) /\ i \in 0..Len(script)
    BY <1>1, EndsAre
  <2>2. j < i => j = i - 1 \/ j < i - 1
    BY <1>1
  <2>3. j < i - 1 => EndOf[j] + 2 <= EndOf[i - 1]
    BY <1>1, <2>1, EndOfGrows
  <2>4. ~(j < i)
    BY <1>1, <1>3, <1>4, <2>1, <2>2, <2>3, SMTT(40)
  <2>5. i < j => i = j - 1 \/ i < j - 1
    BY <1>1
  <2>6. i < j - 1 => EndOf[i] + 2 <= EndOf[j - 1]
    BY <1>1, <2>1, EndOfGrows
  <2>7. ~(i < j)
    BY <1>1, <1>3, <1>4, <2>1, <2>5, <2>6
  <2>. QED BY <1>1, <2>4, <2>7
<1>5. (CHOOSE j \in 1..Len(script) : EndOf[j - 1] < n /\ n <= EndOf[j]) = i
  BY <1>3, <1>4
<1>6. Unit(n) = <<i, n - EndOf[i - 1]>>
  BY <1>5 DEF Unit
<1>7. n - EndOf[i - 1] = k
  BY <1>1, <1>2
<1>. QED BY <1>2, <1>6, <1>7

LEMMA UnitTyped ==
    ASSUME ScriptKnown, NEW n \in 1..Total
    PROVE  Unit(n) \in (1..MaxRequests) \X Nat
<1>. DEFINE S == {i \in 0..Len(script) : n <= EndOf[i]}
<1>1. /\ Len(script) \in Nat /\ Len(script) <= MaxRequests /\ MaxRequests \in Nat
      /\ Total \in Nat /\ Total = EndOf[Len(script)]
      /\ EndOf[0] = 0 /\ n \in Nat /\ 1 <= n
  BY ScriptIs, EndsAre, EndOfIs DEF Total
<1>2. S \in SUBSET Nat /\ Len(script) \in S
  BY <1>1
<1>3. PICK i \in S : \A y \in S : i <= y
  <2>. HIDE DEF S
  <2>. QED BY <1>2, Least
<1>4. i \in 0..Len(script) /\ n <= EndOf[i] /\ i # 0
  BY <1>1, <1>3
<1>5. i \in 1..Len(script) /\ i - 1 \in 0..Len(script) /\ i - 1 \notin S
  BY <1>1, <1>3, <1>4
<1>6. /\ EndOf[i - 1] \in Nat /\ EndOf[i - 1] < n
      /\ EndOf[i] = EndOf[i - 1] + Length(script[i]) /\ Length(script[i]) \in Nat
  BY <1>1, <1>5, EndsAre, ScriptIs
<1>7. PICK k : k = n - EndOf[i - 1]
  OBVIOUS
<1>8. k \in 1..Length(script[i]) /\ n = EndOf[i - 1] + k
  BY <1>1, <1>4, <1>6, <1>7
<1>9. Unit(n) = <<i, k>>
  BY <1>5, <1>8, UnitIs
<1>. QED BY <1>1, <1>5, <1>6, <1>8, <1>9

(* What is in the buffer belongs to the request that comes next. *)
LEMMA HeadOfBuffer ==
    ASSUME BufferInv, up, io # <<>>
    PROVE  /\ Coming \in 1..Len(script)
           /\ Coming - 1 = Len(handed)
           /\ io[1] = <<Coming, 1>> /\ Head(io) = io[1]
           /\ Req = script[Coming]
           /\ Len(io) \in Nat \ {0}
<1>1. /\ Len(io) \in Nat \ {0} /\ Head(io) = io[1]
      /\ ScriptKnown /\ Len(handed) \in Nat /\ Len(handed) <= Len(script)
      /\ EndOf[Len(handed)] + Len(io) = got /\ got \in Nat /\ got <= Total
      /\ \A k \in 1..Len(io) : io[k] = Unit(EndOf[Len(handed)] + k)
  BY EmptySeq, EndsAre DEF BufferInv
<1>2. Len(script) \in Nat /\ Total = EndOf[Len(script)]
  BY <1>1, ScriptIs DEF Total
<1>3. Len(handed) # Len(script)
  BY <1>1, <1>2, EndsAre
<1>4. Coming \in 1..Len(script) /\ Coming - 1 = Len(handed)
  BY <1>1, <1>2, <1>3 DEF Coming
<1>5. Length(script[Coming]) \in Nat /\ Length(script[Coming]) >= 2
  BY <1>1, <1>4, ScriptIs
<1>6. 1 \in 1..Length(script[Coming]) /\ 1 \in 1..Len(io)
  BY <1>1, <1>5
<1>7. io[1] = <<Coming, 1>>
  BY <1>1, <1>4, <1>6, UnitIs
<1>. QED BY <1>1, <1>4, <1>7 DEF Req

-----------------------------------------------------------------------------
(* Moving the file to the send buffer *)

LEMMA BlocksAre ==
    ASSUME NEW at \in Nat, NEW m \in Nat
    PROVE  Blocks(at, m) \in Seq(U) /\ Len(Blocks(at, m)) = m
<1>1. \A k \in 1..m : Block(at + k) \in U
  BY DEF Block, U
<1>2. Blocks(at, m) \in [1..m -> U]
  BY <1>1 DEF Blocks
<1>. QED BY <1>2

Room(out) == IF Len(out) >= MaxSend THEN 0 ELSE MaxSend - Len(out)
Left(f) == IF f.sent <= f.cl THEN f.cl - f.sent ELSE MaxSend
There(f) == IF f.at <= len THEN len - f.at ELSE 0

(* m blocks of f are moved behind out; that is all there is room for, left    *)
(* to send, or there.                                                      *)
Moves(f, out, open, m) ==
    /\ m <= Room(out) /\ m <= Left(f) /\ m <= There(f)
    /\ m \in {Room(out), Left(f), There(f)}
    /\ send_mbuf' = out \o Blocks(f.at, m)
    /\ IF f.sent + m >= f.cl
       THEN file' = Closed /\ opened' = open - 1
       ELSE file' = [f EXCEPT !.at = @ + m, !.sent = @ + m] /\ opened' = open

LEMMA TransferMoves ==
    ASSUME NEW f \in FileState, NEW out \in Seq(U), NEW open, len \in {0, FileLen},
           Transfer(f, out, open)
    PROVE  \E m \in Nat : Moves(f, out, open, m)
<1>1. /\ Room(out) \in Nat /\ Left(f) \in Nat /\ There(f) \in Nat
      /\ f.at \in Nat /\ f.sent \in Nat /\ f.cl \in Nat
  BY HttpAssumption DEF FileState, Room, Left, There
<1>2. \E n \in {Room(out), Left(f), There(f)} :
        n <= Room(out) /\ n <= Left(f) /\ n <= There(f)
  BY <1>1
<1>3. PICK m : m = CHOOSE n \in {Room(out), Left(f), There(f)} :
                     n <= Room(out) /\ n <= Left(f) /\ n <= There(f)
  OBVIOUS
<1>4. /\ m \in {Room(out), Left(f), There(f)}
      /\ m <= Room(out) /\ m <= Left(f) /\ m <= There(f)
  BY <1>2, <1>3
<1>5. m \in Nat
  BY <1>1, <1>4
<1>6. Moved(f, out) = Blocks(f.at, m)
  BY <1>3 DEF Moved, Blocks, Room, Left, There
<1>7. Len(Moved(f, out)) = m
  BY <1>1, <1>5, <1>6, BlocksAre
<1>8. PICK g : g = [f EXCEPT !.at = @ + m, !.sent = @ + m]
  OBVIOUS
<1>9. g.sent = f.sent + m /\ g.cl = f.cl
  BY <1>8 DEF FileState
<1>10. /\ send_mbuf' = out \o Moved(f, out)
       /\ IF g.sent >= g.cl THEN file' = Closed /\ opened' = open - 1
          ELSE file' = g /\ opened' = open
  BY <1>7, <1>8 DEF Transfer
<1>. QED BY <1>4, <1>5, <1>6, <1>8, <1>9, <1>10 DEF Moves

LEMMA MovesTyped ==
    ASSUME NEW f \in FileState, NEW out \in Seq(U), NEW open, NEW m \in Nat,
           Moves(f, out, open, m)
    PROVE  send_mbuf' \in Seq(U) /\ file' \in FileState
<1>1. f.at \in Nat /\ f.sent \in Nat
  BY DEF FileState
<1>2. send_mbuf' \in Seq(U)
  BY <1>1, BlocksAre, ConcatProperties DEF Moves
<1>3. Closed \in FileState
  BY DEF Closed, FileState
<1>4. [f EXCEPT !.at = @ + m, !.sent = @ + m] \in FileState
  <2>1. f.at + m \in Nat /\ f.sent + m \in Nat
    BY <1>1
  <2>. QED BY <2>1 DEF FileState
<1>. QED BY <1>2, <1>3, <1>4 DEF Moves

LEMMA TransferIfOpenTyped ==
    ASSUME SendTyped, NEW out \in Seq(U), TransferIfOpen(out)
    PROVE  /\ send_mbuf' \in Seq(U) /\ file' \in FileState
           /\ IF file.fp THEN \E m \in Nat : Moves(file, out, opened, m)
              ELSE send_mbuf' = out /\ file' = file /\ opened' = opened
<1>1. CASE file.fp
  <2>1. PICK m \in Nat : Moves(file, out, opened, m)
    BY <1>1, TransferMoves DEF SendTyped, TransferIfOpen
  <2>. QED BY <1>1, <2>1, MovesTyped DEF SendTyped
<1>2. CASE ~file.fp
  BY <1>2 DEF SendTyped, TransferIfOpen, fileVars
<1>. QED BY <1>1, <1>2

-----------------------------------------------------------------------------
(* What a request is answered *)

LEMMA AnswerIs ==
    ASSUME NEW r, KindKnown(r)
    PROVE  /\ Answer(r) \in Seq(U)
           /\ r.answer # "gone" => Len(Answer(r)) >= 1
           /\ r.answer = "file" =>
                /\ r.first - 1 \in Nat /\ r.last + 1 - r.first \in Nat
                /\ Answer(r) = <<<<"head", 0>>>> \o Blocks(r.first - 1, r.last + 1 - r.first)
<1>1. <<"head", 0>> \in U /\ <<"body", 0>> \in U
  BY DEF U
<1>2. CASE r.answer = "file"
  <2>1. /\ r.first - 1 \in Nat /\ r.last + 1 - r.first \in Nat
        /\ r.first \in Nat /\ r.last \in Nat
    BY DEF KindKnown
  <2>2. PICK m : m = r.last + 1 - r.first
    OBVIOUS
  <2>3. \A k \in 1..m : Block(r.first + k - 1) = Block((r.first - 1) + k)
    BY <2>1, <2>2
  <2>4. [k \in 1..m |-> Block(r.first + k - 1)] = Blocks(r.first - 1, m)
    BY <2>3 DEF Blocks
  <2>5. Answer(r) = <<<<"head", 0>>>> \o Blocks(r.first - 1, m)
    BY <1>2, <2>2, <2>4 DEF Answer, FileAnswer
  <2>6. Blocks(r.first - 1, m) \in Seq(U) /\ Len(Blocks(r.first - 1, m)) = m /\ m \in Nat
    BY <2>1, <2>2, BlocksAre
  <2>7. <<<<"head", 0>>>> \in Seq(U) /\ Len(<<<<"head", 0>>>>) = 1
    BY <1>1
  <2>8. Answer(r) \in Seq(U) /\ Len(Answer(r)) = 1 + m
    BY <2>5, <2>6, <2>7, ConcatProperties
  <2>. QED BY <1>2, <2>1, <2>2, <2>5, <2>6, <2>8
<1>3. CASE r.answer \in {"page", "last"}
  BY <1>1, <1>3 DEF Answer
<1>4. CASE r.answer = "open"
  BY <1>1, <1>4 DEF Answer
<1>5. CASE r.answer = "gone"
  BY <1>5 DEF Answer
<1>. QED BY <1>2, <1>3, <1>4, <1>5 DEF KindKnown, Request, Answers

(* What the handler does, seen from the send buffer and the file. *)
LEMMA HandlerTyped ==
    ASSUME SendTyped, NEW r, KindKnown(r), Handler(r)
    PROVE  /\ send_mbuf' \in Seq(U) /\ file' \in FileState
           /\ r.answer # "file" =>
                send_mbuf' = send_mbuf \o Answer(r) /\ file' = file /\ opened' = opened
           /\ r.answer = "file" =>
                \E f \in FileState, m \in Nat :
                  /\ f = [file EXCEPT !.fp = TRUE, !.at = r.first - 1,
                                      !.cl = r.last + 1 - r.first,
                                      !.keepalive = r.keepalive]
                  /\ Moves(f, send_mbuf \o <<<<"head", 0>>>>, opened + 1, m)
<1>0. Answer(r) \in Seq(U) /\ send_mbuf \in Seq(U) /\ file \in FileState
      /\ len \in {0, FileLen}
  BY AnswerIs DEF SendTyped
<1>1. CASE r.answer # "file"
  BY <1>0, <1>1, ConcatProperties DEF Handler, fileVars
<1>2. CASE r.answer = "file"
  <2>1. PICK f : f = [file EXCEPT !.fp = TRUE, !.at = r.first - 1,
                                  !.cl = r.last + 1 - r.first,
                                  !.keepalive = r.keepalive]
    OBVIOUS
  <2>2. f \in FileState
    <3>1. r.first - 1 \in Nat /\ r.last + 1 - r.first \in Nat
      BY DEF KindKnown
    <3>2. r.keepalive \in BOOLEAN
      BY DEF KindKnown, Request
    <3>3. \A a, l \in Nat : \A b \in BOOLEAN :
            [file EXCEPT !.fp = TRUE, !.at = a, !.cl = l, !.keepalive = b] \in FileState
      BY <1>0 DEF FileState
    <3>. QED BY <2>1, <3>1, <3>2, <3>3, Zenon
  <2>3. PICK out : out = Append(send_mbuf, <<"head", 0>>)
    OBVIOUS
  <2>4. out = send_mbuf \o <<<<"head", 0>>>> /\ out \in Seq(U)
    <3>1. <<"head", 0>> \in U
      BY DEF U
    <3>. QED BY <1>0, <2>3, <3>1, AppendIsConcat, AppendProperties
  <2>. DEFINE open == opened + 1
  <2>5. Transfer(f, out, open)
    BY <1>2, <2>1, <2>3 DEF Handler, ServeFile
  <2>6. PICK m \in Nat : Moves(f, out, open, m)
    <3>. HIDE DEF open
    <3>1. len \in {0, FileLen} /\ out \in Seq(U)
      BY <1>0, <2>4
    <3>. QED BY <2>2, <2>5, <3>1, TransferMoves
  <2>7. send_mbuf' \in Seq(U) /\ file' \in FileState
    BY <2>2, <2>4, <2>6, MovesTyped
  <2>. QED BY <1>2, <2>1, <2>2, <2>4, <2>6, <2>7
<1>. QED BY <1>1, <1>2

-----------------------------------------------------------------------------
(* Answers in a row *)

Joins(f, s, n) == f = [i \in 1..n |-> IF i = 1 THEN s[i] ELSE f[i - 1] \o s[i]]

LEMMA JoinsExist ==
    ASSUME NEW S, NEW n \in Nat, NEW s \in [1..n -> Seq(S)]
    PROVE  \E f \in [1..n -> Seq(S)] : Joins(f, s, n)
<1>. DEFINE Ok(m) == \E f \in [1..m -> Seq(S)] : Joins(f, s, m)
            Bad == {m \in 0..n : ~Ok(m)}
<1>1. Ok(0)
  <2>. DEFINE g == [i \in 1..0 |-> <<>>]
  <2>1. g \in [1..0 -> Seq(S)] /\ \A i \in 1..0 : FALSE
    OBVIOUS
  <2>. HIDE DEF g
  <2>2. Joins(g, s, 0)
    BY <2>1 DEF Joins
  <2>. QED BY <2>1, <2>2
<1>2. ASSUME NEW m \in 1..n, Ok(m - 1) PROVE Ok(m)
  <2>1. PICK f \in [1..(m - 1) -> Seq(S)] : Joins(f, s, m - 1)
    BY <1>2
  <2>2. m \in Nat /\ s[m] \in Seq(S)
    OBVIOUS
  <2>3. m # 1 => m - 1 \in 1..(m - 1) /\ f[m - 1] \in Seq(S)
    BY <2>2
  <2>4. PICK a \in Seq(S) : a = IF m = 1 THEN s[m] ELSE f[m - 1] \o s[m]
    BY <2>2, <2>3, ConcatProperties
  <2>. DEFINE g == [i \in 1..m |-> IF i = m THEN a ELSE f[i]]
  <2>5. /\ g \in [1..m -> Seq(S)]
        /\ g[m] = a
        /\ \A i \in 1..m : i # m => i \in 1..(m - 1) /\ g[i] = f[i]
    BY <2>2, <2>4
  <2>. HIDE DEF g
  <2>6. ASSUME NEW i \in 1..m PROVE g[i] = IF i = 1 THEN s[i] ELSE g[i - 1] \o s[i]
    <3>1. CASE i = m
      <4>1. m # 1 => m - 1 \in 1..m /\ m - 1 # m
        BY <2>2
      <4>. QED BY <2>4, <2>5, <3>1, <4>1
    <3>2. CASE i # m
      <4>1. i \in 1..(m - 1) /\ g[i] = f[i]
        BY <2>5, <3>2
      <4>2. f[i] = IF i = 1 THEN s[i] ELSE f[i - 1] \o s[i]
        BY <2>1, <4>1 DEF Joins
      <4>3. i # 1 => i - 1 \in 1..m /\ i - 1 # m
        BY <2>2, <4>1
      <4>. QED BY <2>5, <4>1, <4>2, <4>3
    <3>. QED BY <3>1, <3>2
  <2>7. Joins(g, s, m)
    BY <2>5, <2>6 DEF Joins
  <2>. QED BY <2>5, <2>7
<1>3. Bad = {}
  <2>. SUFFICES ASSUME Bad # {} PROVE FALSE
    OBVIOUS
  <2>. HIDE DEF Ok
  <2>0. Bad \in SUBSET Nat
    OBVIOUS
  <2>1. PICK m \in Bad : \A y \in Bad : m <= y
    <3>. HIDE DEF Bad
    <3>. QED BY <2>0, Least
  <2>2. m \in 1..n /\ m - 1 \in 0..n /\ m - 1 \notin Bad
    BY <1>1, <2>1
  <2>. QED BY <1>2, <2>1, <2>2
<1>4. n \in 0..n
  OBVIOUS
<1>. HIDE DEF Ok
<1>5. Ok(n)
  BY <1>3, <1>4
<1>. QED BY <1>5 DEF Ok

Same(s, t, n) == \A i \in 1..n : s[i] = t[i]

LEMMA JoinsAgree ==
    ASSUME NEW n \in Nat, NEW m \in Nat, n <= m, NEW s, NEW t, NEW f, NEW g,
           Joins(f, s, n), Joins(g, t, m), Same(s, t, n)
    PROVE  Same(f, g, n)
<1>. DEFINE Bad == {i \in 1..n : f[i] # g[i]}
<1>1. Bad = {}
  <2>. SUFFICES ASSUME Bad # {} PROVE FALSE
    OBVIOUS
  <2>0. Bad \in SUBSET Nat
    OBVIOUS
  <2>1. PICK i \in Bad : \A y \in Bad : i <= y
    <3>. HIDE DEF Bad
    <3>. QED BY <2>0, Least
  <2>2. i \in 1..n /\ i \in 1..m /\ f[i] # g[i]
    OBVIOUS
  <2>3. /\ f[i] = IF i = 1 THEN s[i] ELSE f[i - 1] \o s[i]
        /\ g[i] = IF i = 1 THEN t[i] ELSE g[i - 1] \o t[i]
    BY <2>2 DEF Joins, Same
  <2>4. i # 1 => i - 1 \in 1..n /\ i - 1 \notin Bad
    BY <2>1, <2>2
  <2>5. i # 1 => f[i - 1] = g[i - 1]
    BY <2>4
  <2>. QED BY <2>2, <2>3, <2>5 DEF Same
<1>. QED BY <1>1 DEF Same

LEMMA FlattenJoins ==
    ASSUME NEW S, NEW s \in Seq(Seq(S)), Len(s) # 0
    PROVE  \E f \in [1..Len(s) -> Seq(S)] :
             Joins(f, s, Len(s)) /\ FlattenSeq(s) = f[Len(s)]
<1>. DEFINE F == CHOOSE f : f = [i \in 1..Len(s) |->
                                   IF i = 1 THEN s[i] ELSE f[i - 1] \o s[i]]
<1>1. FlattenSeq(s) = F[Len(s)]
  BY DEF FlattenSeq
<1>2. Len(s) \in Nat /\ s \in [1..Len(s) -> Seq(S)]
  OBVIOUS
<1>3. PICK f \in [1..Len(s) -> Seq(S)] : Joins(f, s, Len(s))
  BY <1>2, JoinsExist, SMTT(40)
<1>4. Joins(F, s, Len(s))
  BY <1>3, Zenon DEF Joins
<1>. HIDE DEF F
<1>5. F[Len(s)] = f[Len(s)]
  <2>1. Same(s, s, Len(s))
    BY DEF Same
  <2>2. Same(F, f, Len(s))
    BY <1>2, <1>3, <1>4, <2>1, JoinsAgree
  <2>. QED BY <1>2, <2>2 DEF Same
<1>. QED BY <1>1, <1>2, <1>3, <1>5

LEMMA FlattenGrows ==
    ASSUME NEW S, NEW s \in Seq(Seq(S)), NEW t \in Seq(Seq(S)),
           Len(t) = Len(s) + 1, \A i \in 1..Len(s) : t[i] = s[i]
    PROVE  /\ FlattenSeq(t) \in Seq(S)
           /\ FlattenSeq(t) = FlattenSeq(s) \o t[Len(t)]
<1>0. Len(s) \in Nat /\ Len(t) # 0 /\ Len(t) \in 1..Len(t) /\ Len(t) \in Nat
  OBVIOUS
<1>1. PICK g \in [1..Len(t) -> Seq(S)] :
        Joins(g, t, Len(t)) /\ FlattenSeq(t) = g[Len(t)]
  BY <1>0, FlattenJoins
<1>2. /\ g[Len(t)] \in Seq(S) /\ t[Len(t)] \in Seq(S)
      /\ g[Len(t)] = IF Len(t) = 1 THEN t[Len(t)] ELSE g[Len(t) - 1] \o t[Len(t)]
  <2>1. PICK m : m = Len(t)
    OBVIOUS
  <2>2. m \in 1..m /\ g \in [1..m -> Seq(S)] /\ Joins(g, t, m)
    BY <1>0, <1>1, <2>1
  <2>3. g[m] \in Seq(S) /\ g[m] = IF m = 1 THEN t[m] ELSE g[m - 1] \o t[m]
    BY <2>2 DEF Joins
  <2>4. t[m] \in Seq(S)
    BY <2>1, <2>2, ElementOfSeq
  <2>. QED BY <2>1, <2>3, <2>4
<1>3. CASE Len(s) = 0
  <2>1. FlattenSeq(s) = <<>>
    BY <1>3 DEF FlattenSeq
  <2>2. <<>> \o t[Len(t)] = t[Len(t)]
    BY <1>2, ConcatEmptySeq
  <2>. QED BY <1>1, <1>2, <1>3, <2>1, <2>2
<1>4. CASE Len(s) # 0
  <2>1. PICK f \in [1..Len(s) -> Seq(S)] :
          Joins(f, s, Len(s)) /\ FlattenSeq(s) = f[Len(s)]
    BY <1>4, FlattenJoins
  <2>2. \A i \in 1..Len(s) : f[i] = g[i]
    <3>1. PICK n, m \in Nat : n = Len(s) /\ m = Len(t)
      BY <1>0
    <3>2. n <= m /\ Joins(f, s, n) /\ Joins(g, t, m) /\ Same(s, t, n)
      <4>1. n <= m /\ Same(s, t, n)
        BY <3>1 DEF Same
      <4>. QED BY <1>1, <2>1, <3>1, <4>1
    <3>3. Same(f, g, n)
      BY <3>2, JoinsAgree
    <3>. QED BY <3>1, <3>3 DEF Same
  <2>3. Len(s) \in 1..Len(s) /\ Len(t) - 1 = Len(s) /\ Len(t) # 1
    BY <1>0, <1>4
  <2>. QED BY <1>1, <1>2, <2>1, <2>2, <2>3
<1>. QED BY <1>3, <1>4

(* The answers of the first n requests. *)
LEMMA PromisedIs ==
    ASSUME ScriptKnown
    PROVE  /\ Promised(0) = <<>>
           /\ \A n \in 0..Len(script) : Promised(n) \in Seq(U) /\ Len(Promised(n)) \in Nat
           /\ \A n \in 1..Len(script) : Promised(n) = Promised(n - 1) \o Answer(script[n])
<1>0. Len(script) \in Nat /\ \A i \in 1..Len(script) : Answer(script[i]) \in Seq(U)
  BY ScriptIs, AnswerIs
<1>. DEFINE A(n) == [i \in 1..n |-> Answer(script[i])]
<1>1. \A n \in 0..Len(script) : A(n) \in Seq(Seq(U)) /\ Len(A(n)) = n
  <2>1. ASSUME NEW n \in 0..Len(script) PROVE A(n) \in [1..n -> Seq(U)] /\ n \in Nat
    BY <1>0, <2>1
  <2>. QED BY <2>1
<1>2. \A n : Promised(n) = FlattenSeq(A(n))
  BY DEF Promised
<1>3. ASSUME NEW n \in 1..Len(script)
      PROVE  Promised(n) \in Seq(U) /\ Promised(n) = Promised(n - 1) \o Answer(script[n])
  <2>1. n \in 0..Len(script) /\ n - 1 \in 0..Len(script) /\ n = (n - 1) + 1
    BY <1>0
  <2>2. (\A i \in 1..(n - 1) : A(n)[i] = A(n - 1)[i]) /\ A(n)[n] = Answer(script[n])
    BY <2>1
  <2>3. PICK s \in Seq(Seq(U)) : s = A(n - 1) /\ Len(s) = n - 1
    BY <1>1, <2>1
  <2>4. PICK t \in Seq(Seq(U)) : t = A(n) /\ Len(t) = n
    BY <1>1, <2>1
  <2>. HIDE DEF A
  <2>5. FlattenSeq(t) \in Seq(U) /\ FlattenSeq(t) = FlattenSeq(s) \o t[Len(t)]
    BY <2>1, <2>2, <2>3, <2>4, FlattenGrows
  <2>6. Promised(n - 1) = FlattenSeq(s)
    BY <1>2, <2>3
  <2>. QED BY <1>2, <2>2, <2>4, <2>5, <2>6
<1>4. Promised(0) = <<>>
  <2>1. A(0) = <<>>
    OBVIOUS
  <2>2. Len(<<>>) = 0
    OBVIOUS
  <2>. HIDE DEF A
  <2>. QED BY <1>2, <2>1, <2>2 DEF FlattenSeq
<1>5. ASSUME NEW n \in 0..Len(script) PROVE Promised(n) \in Seq(U) /\ Len(Promised(n)) \in Nat
  <2>1. n = 0 \/ n \in 1..Len(script)
    BY <1>0
  <2>2. Promised(n) \in Seq(U)
    BY <1>3, <1>4, <2>1, EmptySeq
  <2>. QED BY <2>2
<1>. QED BY <1>3, <1>4, <1>5

Extends(x, p) == \E s \in Seq(U) : x = p \o s

LEMMA ExtendsMore ==
    ASSUME NEW x, NEW p \in Seq(U), NEW a \in Seq(U), Extends(x, p)
    PROVE  Extends(x \o a, p)
<1>1. PICK s \in Seq(U) : x = p \o s
  BY DEF Extends
<1>2. (p \o s) \o a = p \o (s \o a)
  BY ConcatAssociative
<1>3. s \o a \in Seq(U)
  BY ConcatProperties
<1>. QED BY <1>1, <1>2, <1>3 DEF Extends

LEMMA PromisedGrows ==
    ASSUME ScriptKnown
    PROVE  \A i, j \in 0..Len(script) : i <= j =>
             \E s \in Seq(U) : Promised(j) = Promised(i) \o s
<1>. SUFFICES ASSUME NEW i \in 0..Len(script)
              PROVE  \A j \in 0..Len(script) : i <= j =>
                       \E s \in Seq(U) : Promised(j) = Promised(i) \o s
  OBVIOUS
<1>. DEFINE Ok(j) == \E s \in Seq(U) : Promised(j) = Promised(i) \o s
            Bad == {j \in 0..Len(script) : i <= j /\ ~Ok(j)}
<1>0. Len(script) \in Nat
  BY ScriptIs
<1>1. Bad = {}
  <2>. SUFFICES ASSUME Bad # {} PROVE FALSE
    OBVIOUS
  <2>0. Bad \in SUBSET Nat
    BY <1>0
  <2>1. PICK j \in Bad : \A y \in Bad : j <= y
    <3>. HIDE DEF Bad
    <3>. QED BY <2>0, Least
  <2>2. Ok(i)
    <3>1. Promised(i) \in Seq(U) /\ <<>> \in Seq(U)
      BY PromisedIs, EmptySeq
    <3>. QED BY <3>1, ConcatEmptySeq
  <2>. HIDE DEF Ok
  <2>3. /\ j \in 1..Len(script) /\ i <= j - 1
        /\ j - 1 \in 0..Len(script) /\ j - 1 \notin Bad /\ ~Ok(j)
    BY <1>0, <2>1, <2>2
  <2>4. Ok(j - 1)
    BY <2>3
  <2>5. PICK s \in Seq(U) : Promised(j - 1) = Promised(i) \o s
    BY <2>4 DEF Ok
  <2>6. PICK a \in Seq(U) : a = Answer(script[j]) /\ Promised(j) = Promised(j - 1) \o a
    BY <2>3, PromisedIs, AnswerIs, ScriptIs
  <2>7. Promised(i) \in Seq(U)
    BY PromisedIs
  <2>8. Extends(Promised(j), Promised(i))
    <3>1. Extends(Promised(j - 1), Promised(i))
      BY <2>5 DEF Extends
    <3>. QED BY <2>6, <2>7, <3>1, ExtendsMore, Zenon
  <2>9. Ok(j)
    BY <2>8 DEF Extends, Ok
  <2>. QED BY <2>3, <2>9
<1>. QED BY <1>1

-----------------------------------------------------------------------------
(* The buffer *)

LEMMA ScriptStays ==
    ASSUME UNCHANGED <<script, patient>>
    PROVE  /\ EndOf' = EndOf /\ Total' = Total
           /\ \A n : Unit(n)' = Unit(n)
           /\ \A n : Promised(n)' = Promised(n)
           /\ ScriptKnown => ScriptKnown'
<1>1. EndOf' = EndOf
  BY DEF EndOf
<1>2. Total' = Total
  BY <1>1 DEF Total
<1>3. \A n : Unit(n)' = Unit(n)
  BY <1>1 DEF Unit
<1>4. \A n : Promised(n)' = Promised(n)
  BY DEF Promised
<1>5. ScriptKnown => ScriptKnown'
  BY DEF ScriptKnown
<1>. QED BY <1>1, <1>2, <1>3, <1>4, <1>5

(* The peer may only hear more. *)
LEMMA PeerStillMaySend ==
    ASSUME UNCHANGED <<script, patient>>, Len(heard) \in Nat, Len(heard') \in Nat,
           Len(heard) <= Len(heard'), got' \in Nat, MaySend(got'),
           \A i \in 1..Len(script) : Len(Promised(i)) \in Nat
    PROVE  MaySend(got)'
<1>1. EndOf' = EndOf /\ \A n : Promised(n)' = Promised(n)
  BY ScriptStays
<1>2. ASSUME NEW i \in 1..Len(script), EndOf[i] < got' PROVE ~Waits(i)'
  <2>1. ~Waits(i)
    BY <1>2 DEF MaySend
  <2>. QED BY <1>1, <2>1 DEF Waits
<1>. QED BY <1>1, <1>2 DEF MaySend

(* The units of the first n requests, and their answers, do not change. *)
LEMMA NamesStay ==
    ASSUME UNCHANGED <<script, patient>>
    PROVE  /\ EndOf' = EndOf /\ Total' = Total
           /\ \A k : Unit(EndOf[Len(handed)] + k)' = Unit(EndOf[Len(handed')] + k)
           /\ Promised(Len(handed))' = Promised(Len(handed'))
<1>1. EndOf' = EndOf /\ Total' = Total
  BY ScriptStays
<1>2. \A k : Unit(EndOf[Len(handed)] + k)' = Unit(EndOf[Len(handed')] + k)
  BY <1>1 DEF Unit
<1>3. Promised(Len(handed))' = Promised(Len(handed'))
  BY DEF Promised
<1>. QED BY <1>1, <1>2, <1>3

LEMMA BufferStays ==
    ASSUME BufferInv, UNCHANGED <<script, patient, got, io, rcvd, up, handed>>,
           Len(heard) \in Nat, Len(heard') \in Nat, Len(heard) <= Len(heard'),
           parsing' \in BOOLEAN, parsing' => parsing
    PROVE  BufferInv'
<1>1. MaySend(got)'
  <2>1. \A i \in 1..Len(script) : Len(Promised(i)) \in Nat
    BY PromisedIs, ScriptIs DEF BufferInv
  <2>2. got' \in Nat /\ MaySend(got')
    BY EndsAre DEF BufferInv
  <2>. QED BY <2>1, <2>2, PeerStillMaySend
<1>2. ScriptKnown' /\ Total' = Total /\ EndOf' = EndOf
  BY ScriptStays DEF BufferInv
<1>3. \A k : Unit(EndOf[Len(handed)] + k)' = Unit(EndOf[Len(handed)] + k)
  BY NamesStay
<1>. QED BY <1>1, <1>2, <1>3 DEF BufferInv

LEMMA ReceiveBuffer ==
    ASSUME BufferInv, SendTyped, NEW n \in 1..Total, Receive(n)
    PROVE  BufferInv'
<1>0. /\ up /\ up' = up /\ ~parsing /\ parsing' = TRUE /\ handed' = handed
      /\ heard' = heard /\ UNCHANGED <<script, patient>>
      /\ io' = io \o [k \in 1..n |-> Unit(got + k)]
      /\ rcvd' = rcvd + n /\ got' = got + n /\ got + n <= Total
      /\ MaySend(got + n)
  BY DEF Receive, CanReceive, peerVars
<1>1. /\ ScriptKnown /\ got \in Nat /\ rcvd = Len(io)
      /\ io \in Seq((1..MaxRequests) \X Nat) /\ Len(io) \in Nat
      /\ handed \in Seq(Calls) /\ Len(handed) \in Nat /\ Len(handed) <= Len(script)
      /\ \A k \in 1..Len(handed) : script[k].head = "good" /\ script[k].announced
      /\ \A k \in 1..Len(handed) : handed[k].req = k
      /\ EndOf[Len(handed)] + Len(io) = got
      /\ \A k \in 1..Len(io) : io[k] = Unit(EndOf[Len(handed)] + k)
  BY <1>0, EndsAre DEF BufferInv
<1>2. n \in Nat /\ 1 <= n /\ Total \in Nat /\ EndOf[Len(handed)] \in Nat
  BY <1>1, EndsAre, ScriptIs
<1>3. ScriptKnown' /\ Total' = Total /\ EndOf' = EndOf
  BY <1>0, <1>1, ScriptStays
<1>. DEFINE new == [k \in 1..n |-> Unit(got + k)]
<1>4. new \in Seq((1..MaxRequests) \X Nat) /\ Len(new) = n
  <2>1. \A k \in 1..n : got + k \in 1..Total
    BY <1>0, <1>1, <1>2
  <2>2. new \in [1..n -> (1..MaxRequests) \X Nat]
    BY <1>1, <2>1, UnitTyped
  <2>. QED BY <1>2, <2>2
<1>5. \A k \in 1..n : new[k] = Unit(got + k)
  OBVIOUS
<1>. HIDE DEF new
<1>6. io' = io \o new
  BY <1>0 DEF new
<1>7. /\ io' \in Seq((1..MaxRequests) \X Nat) /\ Len(io') = Len(io) + n
      /\ io' # <<>>
  <2>1. io \in Seq((1..MaxRequests) \X Nat) /\ Len(io) \in Nat
    BY <1>1
  <2>2. io' \in Seq((1..MaxRequests) \X Nat) /\ Len(io') = Len(io) + n
    BY <1>4, <1>6, <2>1, ConcatProperties
  <2>3. Len(io') # 0
    BY <1>2, <2>1, <2>2
  <2>. QED BY <2>2, <2>3
<1>14. PICK e, l \in Nat : e = EndOf[Len(handed)] /\ l = Len(io) /\ e + l = got
  BY <1>1, <1>2
<1>8. rcvd' = Len(io') /\ EndOf[Len(handed)] + Len(io') = got'
      /\ got' \in 0..Total
  <2>1. Len(io') = l + n /\ rcvd' = l + n /\ got' = (e + l) + n
    BY <1>0, <1>1, <1>7, <1>14
  <2>2. e + (l + n) = (e + l) + n /\ (e + l) + n \in Nat
    BY <1>2
  <2>3. got' \in 0..Total
    BY <1>0, <1>2, <2>1, <2>2
  <2>. QED BY <1>14, <2>1, <2>2, <2>3
<1>9. ASSUME NEW k \in 1..Len(io') PROVE io'[k] = Unit(EndOf[Len(handed)] + k)
  <2>1. CASE k <= Len(io)
    <3>1. k \in 1..Len(io) /\ io'[k] = io[k]
      BY <1>1, <1>4, <1>6, <1>7, <2>1, ConcatProperties
    <3>. QED BY <1>1, <3>1
  <2>2. CASE Len(io) < k
    <3>1. PICK j \in 1..n : k = Len(io) + j
      <4>1. k - Len(io) \in 1..n /\ k = Len(io) + (k - Len(io))
        BY <1>1, <1>2, <1>7, <2>2
      <4>. QED BY <4>1
    <3>2. io'[k] = new[j]
      BY <1>1, <1>2, <1>4, <1>6, <3>1, ConcatProperties
    <3>3. got + j = EndOf[Len(handed)] + k
      <4>1. (e + l) + j = e + (l + j)
        BY <1>2
      <4>. QED BY <1>14, <3>1, <4>1
    <3>. QED BY <1>5, <3>2, <3>3
  <2>. QED BY <1>1, <1>7, <2>1, <2>2
<1>10. MaySend(got)'
  <2>1. \A i \in 1..Len(script) : Len(Promised(i)) \in Nat
    BY <1>1, PromisedIs, ScriptIs
  <2>2. got' \in Nat /\ MaySend(got')
    BY <1>0, <1>1, <1>2
  <2>3. Len(heard) \in Nat
    BY DEF SendTyped
  <2>. QED BY <1>0, <2>1, <2>2, <2>3, PeerStillMaySend
<1>11. \A k : Unit(EndOf[Len(handed)] + k)' = Unit(EndOf[Len(handed)] + k)
  BY <1>0, NamesStay
<1>. QED BY <1>0, <1>1, <1>3, <1>7, <1>8, <1>9, <1>10, <1>11 DEF BufferInv

(* There are no chunks to be parsed. *)
LEMMA NoChunkParsed ==
    ASSUME BufferInv
    PROVE  ~ParseChunk /\ ~ParseHandlesChunked
<1>. SUFFICES ASSUME parsing, HeadThere, Req.head = "chunked" PROVE FALSE
  BY DEF ParseChunk, ParseHandlesChunked, ChunkDue, ChunksEnd, ChunkThere
<1>1. up /\ io # <<>> /\ ScriptKnown
  BY DEF BufferInv
<1>2. Coming \in 1..Len(script) /\ Req = script[Coming]
  BY <1>1, HeadOfBuffer
<1>. QED BY <1>1, <1>2, ScriptIs

(* The request that is handled is the next one, and it is there. *)
LEMMA HandledIs ==
    ASSUME BufferInv, ParseHandles
    PROVE  /\ up /\ Coming \in 1..Len(script) /\ Coming - 1 = Len(handed)
           /\ Head(io) = <<Coming, 1>>
           /\ Req = script[Coming] /\ Req.head = "good" /\ Req.announced
           /\ MessageLen = Length(Req) /\ Length(Req) \in Nat
           /\ Length(Req) = HeadLen + Req.body /\ Req.body \in Nat
           /\ Length(Req) <= Len(io) /\ Len(io) \in Nat
           /\ io' = SubSeq(io, Length(Req) + 1, Len(io))
<1>00. parsing /\ Len(io) >= HeadLen /\ HeadThere /\ MessageLen <= rcvd
      /\ io' = Removed(MessageLen)
  BY DEF ParseHandles, HeadThere
<1>1. up /\ io # <<>> /\ rcvd = Len(io) /\ ScriptKnown
  BY <1>00 DEF BufferInv
<1>0. parsing /\ Len(io) >= HeadLen /\ Req.head = "good" /\ MessageLen <= rcvd
      /\ io' = Removed(MessageLen)
  <2>1. Coming \in 1..Len(script) /\ Req = script[Coming]
    BY <1>1, HeadOfBuffer
  <2>2. Req.head # "chunked"
    BY <1>1, <2>1, ScriptIs
  <2>. QED BY <1>00, <2>2 DEF HeadThere
<1>2. /\ Coming \in 1..Len(script) /\ Coming - 1 = Len(handed)
      /\ Head(io) = <<Coming, 1>> /\ Req = script[Coming] /\ Len(io) \in Nat
  BY <1>1, HeadOfBuffer
<1>3. Len(io) <= Total /\ Total \in Nat /\ MaxRequest \in Nat /\ MaxRequest >= 3
  <2>1. Len(handed) \in Nat /\ Len(handed) <= Len(script) /\ got \in 0..Total
        /\ EndOf[Len(handed)] + Len(io) = got
    BY <1>1 DEF BufferInv
  <2>2. Total \in Nat /\ Len(script) \in Nat
    BY <1>1, EndsAre, ScriptIs
  <2>3. EndOf[Len(handed)] \in Nat
    BY <1>1, <2>1, <2>2, EndsAre
  <2>. QED BY <1>2, <2>1, <2>2, <2>3, HttpAssumption
<1>4. Req.announced
  <2>1. Total + MaxRequest > Len(io)
    BY <1>2, <1>3
  <2>. QED BY <1>0, <1>1, <1>2, <1>3, <2>1 DEF MessageLen
<1>5. MessageLen = Length(Req)
  BY <1>4 DEF MessageLen
<1>6. Length(Req) \in Nat /\ Length(Req) = HeadLen + Req.body /\ Req.body \in Nat
  <2>1. KindKnown(Req)
    BY <1>1, <1>2, ScriptIs
  <2>. QED BY <1>0, <1>1, <1>2, <2>1, ScriptIs DEF KindKnown, Request
<1>7. Length(Req) <= Len(io)
  BY <1>0, <1>1, <1>5
<1>8. io' = SubSeq(io, Length(Req) + 1, Len(io))
  BY <1>0, <1>5, <1>7 DEF Removed
<1>. QED BY <1>0, <1>1, <1>2, <1>4, <1>5, <1>6, <1>7, <1>8

LEMMA HandedTyped ==
    ASSUME BufferInv, NEW i, i = Coming, i \in 1..Len(script)
    PROVE  /\ Handed(i) \in Seq(Calls) /\ Len(Handed(i)) = i
           /\ Handed(i)[i] = [req |-> i, body |-> SubSeq(io, HeadLen + 1, Len(io))]
           /\ \A k \in 1..Len(handed) : Handed(i)[k] = handed[k]
           /\ \A k \in 1..i : Handed(i)[k].req = k
<1>0. /\ handed \in Seq(Calls) /\ Len(handed) \in Nat /\ i = Len(handed) + 1
      /\ \A k \in 1..Len(handed) : handed[k].req = k
      /\ io \in Seq((1..MaxRequests) \X Nat) /\ ScriptKnown
  BY DEF BufferInv, Coming
<1>1. SubSeq(io, HeadLen + 1, Len(io)) \in Seq((1..MaxRequests) \X Nat)
  <2>1. \A k \in (HeadLen + 1)..Len(io) : io[k] \in (1..MaxRequests) \X Nat
    <3>1. Len(io) \in Nat
      BY <1>0
    <3>2. \A k \in (HeadLen + 1)..Len(io) : k \in 1..Len(io)
      BY <3>1 DEF HeadLen
    <3>. QED BY <1>0, <3>2, ElementOfSeq
  <2>2. HeadLen + 1 \in Int /\ Len(io) \in Int
    BY <1>0 DEF HeadLen
  <2>. QED BY <2>1, <2>2, SubSeqProperties
<1>2. i \in 1..MaxRequests
  BY <1>0, ScriptIs
<1>3. PICK c : c = [req |-> i, body |-> SubSeq(io, HeadLen + 1, Len(io))]
  OBVIOUS
<1>4. c \in Calls /\ c.req = i
  BY <1>1, <1>2, <1>3 DEF Calls
<1>5. Handed(i) = Append(handed, c)
  BY <1>3 DEF Handed
<1>6. /\ Handed(i) \in Seq(Calls) /\ Len(Handed(i)) = i
      /\ Handed(i)[i] = c
      /\ \A k \in 1..Len(handed) : Handed(i)[k] = handed[k]
  <2>1. PICK hs \in Seq(Calls) : hs = Append(handed, c)
    BY <1>0, <1>4, AppendProperties
  <2>2. /\ Len(hs) = Len(handed) + 1 /\ hs[Len(handed) + 1] = c
        /\ \A k \in 1..Len(handed) : hs[k] = handed[k]
    BY <1>0, <1>4, <2>1, AppendProperties
  <2>. QED BY <1>0, <1>5, <2>1, <2>2
<1>7. \A k \in 1..i : k \in 1..Len(handed) \/ k = i
  BY <1>0
<1>. QED BY <1>0, <1>3, <1>4, <1>6, <1>7

LEMMA ParseHandlesBuffer ==
    ASSUME BufferInv, SendTyped, ParseHandles
    PROVE  BufferInv'
<1>0. /\ up' = up /\ heard' = heard /\ UNCHANGED <<script, patient, got>>
      /\ handed' = Handed(Head(io)[1])
      /\ rcvd' = IF file'.fp THEN rcvd - MessageLen ELSE Len(io')
      /\ parsing' = (~file'.fp /\ io' # <<>>)
  BY DEF ParseHandles, peerVars
<1>1. PICK i \in 1..Len(script) : i = Coming
  BY HandledIs
<1>2. /\ ScriptKnown /\ got \in Nat /\ got \in 0..Total /\ rcvd = Len(io)
      /\ io \in Seq((1..MaxRequests) \X Nat) /\ Len(io) \in Nat
      /\ \A k \in 1..Len(handed) : script[k].head = "good" /\ script[k].announced
      /\ EndOf[Len(handed)] + Len(io) = got
      /\ \A k \in 1..Len(io) : io[k] = Unit(EndOf[Len(handed)] + k)
  BY EndsAre, HandledIs DEF BufferInv
<1>3. /\ up /\ i - 1 = Len(handed) /\ handed' = Handed(i)
      /\ script[i].head = "good" /\ script[i].announced
      /\ MessageLen = Length(script[i])
      /\ Length(script[i]) \in Nat /\ Length(script[i]) <= Len(io)
      /\ io' = SubSeq(io, Length(script[i]) + 1, Len(io))
  <2>1. /\ up /\ i - 1 = Len(handed) /\ Head(io)[1] = i /\ Req = script[i]
        /\ Req.head = "good" /\ Req.announced /\ MessageLen = Length(Req)
    BY <1>1, HandledIs
  <2>2. /\ Length(Req) \in Nat /\ Length(Req) <= Len(io)
        /\ io' = SubSeq(io, Length(Req) + 1, Len(io))
    BY HandledIs
  <2>. QED BY <1>0, <2>1, <2>2
<1>4. PICK e, m, l \in Nat : e = EndOf[i - 1] /\ m = Length(script[i]) /\ l = Len(io)
                             /\ m <= l /\ EndOf[i] = e + m /\ e + l = got
  BY <1>2, <1>3, EndsAre
<1>5. handed' \in Seq(Calls) /\ Len(handed') = i /\ \A k \in 1..i : handed'[k].req = k
  BY <1>1, <1>3, HandedTyped
<1>6. /\ io' \in Seq((1..MaxRequests) \X Nat) /\ Len(io') = l - m
      /\ \A k \in 1..(l - m) : io'[k] = io[m + k]
  <2>1. io' = SubSeq(io, m + 1, l)
    BY <1>3, <1>4
  <2>2. \A k \in (m + 1)..l : io[k] \in (1..MaxRequests) \X Nat
    <3>1. \A k \in (m + 1)..l : k \in 1..Len(io)
      BY <1>4
    <3>. QED BY <1>2, <3>1, ElementOfSeq
  <2>3. m + 1 \in Int /\ l \in Int /\ m + 1 <= l + 1 /\ l - m \in Nat
        /\ l - (m + 1) + 1 = l - m
    BY <1>4, SMTT(40)
  <2>4. /\ io' \in Seq((1..MaxRequests) \X Nat)
        /\ Len(io') = IF m + 1 <= l THEN l - (m + 1) + 1 ELSE 0
        /\ \A k \in 1..(l - (m + 1) + 1) : io'[k] = io[(m + 1) + k - 1]
    BY <2>1, <2>2, <2>3, SubSeqProperties
  <2>5. \A k \in 1..(l - m) : (m + 1) + k - 1 = m + k
    BY <1>4
  <2>6. ~(m + 1 <= l) => l - m = 0
    BY <1>4
  <2>. QED BY <2>3, <2>4, <2>5, <2>6
<1>7. rcvd' = Len(io')
  BY <1>0, <1>2, <1>3, <1>4, <1>6
<1>8. EndOf[i] + Len(io') = got
  BY <1>4, <1>6
<1>9. ASSUME NEW k \in 1..Len(io') PROVE io'[k] = Unit(EndOf[i] + k)
  <2>1. m + k \in 1..l /\ e + (m + k) = (e + m) + k
    <3>1. PICK j \in Nat : j = l - m
      BY <1>4
    <3>2. k \in 1..j
      BY <1>6, <3>1
    <3>3. e \in Nat /\ m \in Nat /\ l \in Nat /\ m <= l
      BY <1>4
    <3>4. k \in Nat /\ 1 <= k /\ k <= j
      BY <3>1, <3>2
    <3>5. 1 <= m + k /\ m + k <= l /\ m + k \in Nat
      BY <3>1, <3>3, <3>4
    <3>6. e + (m + k) = (e + m) + k
      BY <3>3, <3>4
    <3>. QED BY <3>5, <3>6
  <2>2. io'[k] = io[m + k] /\ io[m + k] = Unit(e + (m + k))
    BY <1>2, <1>3, <1>4, <1>6, <2>1
  <2>. QED BY <1>4, <2>1, <2>2
<1>10. MaySend(got)'
  <2>1. \A j \in 1..Len(script) : Len(Promised(j)) \in Nat
    BY <1>2, PromisedIs, ScriptIs
  <2>2. got' \in Nat /\ MaySend(got')
    BY <1>0, <1>2 DEF BufferInv
  <2>3. Len(heard) \in Nat
    BY DEF SendTyped
  <2>. QED BY <1>0, <2>1, <2>2, <2>3, PeerStillMaySend
<1>11. \A k : Unit(EndOf[Len(handed)] + k)' = Unit(EndOf[i] + k)
  BY <1>0, <1>5, NamesStay
<1>12. ScriptKnown' /\ Total' = Total /\ EndOf' = EndOf
  BY <1>0, <1>2, ScriptStays
<1>13. ASSUME NEW k \in 1..i PROVE script[k].head = "good" /\ script[k].announced
  <2>1. k = i \/ k \in 1..Len(handed)
    BY <1>3
  <2>. QED BY <1>2, <1>3, <2>1
<1>14. i <= Len(script)
  BY <1>1
<1>15. parsing' \in BOOLEAN /\ (parsing' => io' # <<>>)
  BY <1>0
<1>. QED BY <1>0, <1>2, <1>3, <1>5, <1>6, <1>7, <1>8, <1>9, <1>10, <1>11, <1>12, <1>13,
            <1>14, <1>15 DEF BufferInv

(* A request whose head is there is the next one at the close, too. *)
LEMMA CloseBuffer ==
    ASSUME BufferInv, SendTyped, Close
    PROVE  BufferInv'
<1>0. /\ up /\ ~parsing /\ up' = FALSE /\ heard' = heard /\ parsing' = parsing
      /\ UNCHANGED <<script, patient, got>>
      /\ handed' = IF HeadThere THEN Handed(Head(io)[1]) ELSE handed
      /\ io' = <<>> /\ rcvd' = 0
  BY DEF Close, peerVars
<1>1. /\ ScriptKnown /\ got \in Nat /\ got \in 0..Total /\ MaySend(got)
      /\ handed \in Seq(Calls) /\ \A k \in 1..Len(handed) : handed[k].req = k
      /\ parsing \in BOOLEAN
  BY EndsAre DEF BufferInv
<1>2. handed' \in Seq(Calls) /\ \A k \in 1..Len(handed') : handed'[k].req = k
  <2>1. CASE HeadThere
    <3>1. io # <<>>
      BY <2>1 DEF HeadThere, HeadLen
    <3>2. PICK i \in 1..Len(script) : i = Coming /\ Head(io) = <<i, 1>>
      BY <1>0, <3>1, HeadOfBuffer
    <3>3. handed' = Handed(i)
      BY <1>0, <2>1, <3>2
    <3>. QED BY <3>2, <3>3, HandedTyped
  <2>2. CASE ~HeadThere
    BY <1>0, <1>1, <2>2
  <2>. QED BY <2>1, <2>2
<1>3. MaySend(got)'
  <2>1. \A j \in 1..Len(script) : Len(Promised(j)) \in Nat
    BY <1>1, PromisedIs, ScriptIs
  <2>2. got' \in Nat /\ MaySend(got')
    BY <1>0, <1>1
  <2>3. Len(heard) \in Nat
    BY DEF SendTyped
  <2>. QED BY <1>0, <2>1, <2>2, <2>3, PeerStillMaySend
<1>4. ScriptKnown' /\ Total' = Total
  BY <1>0, <1>1, ScriptStays
<1>5. io' \in Seq((1..MaxRequests) \X Nat) /\ Len(io') = 0
  BY <1>0, EmptySeq
<1>. QED BY <1>0, <1>1, <1>2, <1>3, <1>4, <1>5 DEF BufferInv

LEMMA SentSplits ==
    ASSUME NEW s \in Seq(U), NEW n \in 1..Len(s)
    PROVE  \E now \in Seq(U), out \in Seq(U) :
             /\ now = SubSeq(s, 1, n) /\ out = SubSeq(s, n + 1, Len(s))
             /\ s = now \o out
             /\ Len(now) = n
<1>1. PICK now : now = SubSeq(s, 1, n)
  OBVIOUS
<1>2. PICK out : out = SubSeq(s, n + 1, Len(s))
  OBVIOUS
<1>3. \A k \in 1..Len(s) : s[k] \in U
  BY ElementOfSeq
<1>4. n \in Int /\ n + 1 \in Int /\ Len(s) \in Int /\ 1 <= n
  OBVIOUS
<1>5. /\ \A k \in (n + 1)..Len(s) : k \in 1..Len(s)
      /\ \A k \in 1..n : k \in 1..Len(s)
  OBVIOUS
<1>6. out \in Seq(U)
  BY <1>2, <1>3, <1>4, <1>5, SubSeqProperties
<1>7. now \in Seq(U) /\ Len(now) = n
  BY <1>1, <1>3, <1>4, <1>5, SubSeqProperties, SMTT(40)
<1>8. now \o out = s
  <2>1. 1 \in 1..(Len(s) + 1) /\ n \in (1 - 1)..Len(s) /\ Len(s) \in n..Len(s)
    OBVIOUS
  <2>2. SubSeq(s, 1, n) \o SubSeq(s, n + 1, Len(s)) = SubSeq(s, 1, Len(s))
    BY <2>1, ConcatAdjacentSubSeq
  <2>3. SubSeq(s, 1, Len(s)) = s
    BY SubSeqFull
  <2>. QED BY <1>1, <1>2, <2>2, <2>3
<1>. QED BY <1>1, <1>2, <1>6, <1>7, <1>8

LEMMA SentTyped ==
    ASSUME SendTyped, BufferInv, [Next]_vars
    PROVE  /\ SendTyped'
           /\ Len(heard) \in Nat /\ Len(heard') \in Nat /\ Len(heard) <= Len(heard')
<1>0. /\ send_mbuf \in Seq(U) /\ heard \in Seq(U) /\ file \in FileState
      /\ len \in {0, FileLen} /\ Len(heard) \in Nat /\ Len(send_mbuf) \in Nat
  BY DEF SendTyped
<1>1. CASE UNCHANGED <<heard, send_mbuf, file, len>>
  BY <1>0, <1>1 DEF SendTyped
<1>2. ASSUME UNCHANGED <<heard, len>>, TransferIfOpen(send_mbuf)
      PROVE  /\ SendTyped' /\ Len(heard') = Len(heard)
  BY <1>0, <1>2, TransferIfOpenTyped DEF SendTyped
<1>3. ASSUME NEW n \in 1..Total, Receive(n)
      PROVE  SendTyped' /\ Len(heard') = Len(heard)
  BY <1>2, <1>3 DEF Receive
<1>4. ASSUME ParseHandles
      PROVE  SendTyped' /\ Len(heard') = Len(heard)
  <2>1. KindKnown(Req)
    BY <1>4, HandledIs, ScriptIs DEF BufferInv
  <2>2. Handler(Req) /\ heard' = heard /\ len' = len
    BY <1>4 DEF ParseHandles
  <2>3. send_mbuf' \in Seq(U) /\ file' \in FileState
    BY <2>1, <2>2, HandlerTyped
  <2>. QED BY <1>0, <2>2, <2>3 DEF SendTyped
<1>5. ASSUME Poll PROVE SendTyped' /\ Len(heard') = Len(heard)
  BY <1>2, <1>5 DEF Poll
<1>6. ASSUME NEW n \in 1..Len(send_mbuf), Send(n)
      PROVE  SendTyped' /\ Len(heard') \in Nat /\ Len(heard) <= Len(heard')
  <2>1. PICK now \in Seq(U), out \in Seq(U) :
          now = SubSeq(send_mbuf, 1, n) /\ out = SubSeq(send_mbuf, n + 1, Len(send_mbuf))
    BY <1>0, SentSplits
  <2>4. Len(now) \in Nat
    OBVIOUS
  <2>5. heard' = heard \o now /\ TransferIfOpen(out) /\ len' = len
    BY <1>6, <2>1 DEF Send
  <2>6. send_mbuf' \in Seq(U) /\ file' \in FileState
    BY <2>4, <2>5, TransferIfOpenTyped
  <2>7. heard' \in Seq(U) /\ Len(heard') = Len(heard) + Len(now)
    BY <1>0, <2>4, <2>5, ConcatProperties
  <2>8. Len(heard') \in Nat /\ Len(heard) <= Len(heard')
    BY <1>0, <2>4, <2>7
  <2>. QED BY <1>0, <2>5, <2>6, <2>7, <2>8 DEF SendTyped
<1>7. ASSUME Close PROVE SendTyped' /\ Len(heard') = Len(heard)
  <2>1. heard' = heard /\ send_mbuf' = <<>> /\ file' = Closed /\ len' = len
    BY <1>7 DEF Close
  <2>2. send_mbuf' \in Seq(U) /\ Closed \in FileState
    BY <2>1, EmptySeq DEF Closed, FileState
  <2>. QED BY <1>0, <2>1, <2>2 DEF SendTyped
<1>8. ASSUME FileShrinks PROVE SendTyped' /\ Len(heard') = Len(heard)
  BY <1>0, <1>8 DEF FileShrinks, SendTyped, fileVars
<1>9. ASSUME ParseFails \/ ParseWaits \/ PeerEnds \/ ConnectionFails \/ UNCHANGED vars
      PROVE  UNCHANGED <<heard, send_mbuf, file, len>>
  BY <1>9 DEF ParseFails, ParseWaits, PeerEnds, ConnectionFails, vars, fileVars
<1>. QED BY <1>0, <1>1, <1>3, <1>4, <1>5, <1>6, <1>7, <1>8, <1>9, NoChunkParsed
         DEF Next, Parse

LEMMA BufferStep ==
    ASSUME BufferInv, SendTyped, [Next]_vars
    PROVE  BufferInv'
<1>0. Len(heard) \in Nat /\ Len(heard') \in Nat /\ Len(heard) <= Len(heard')
      /\ parsing \in BOOLEAN
  BY SentTyped DEF BufferInv
<1>1. ASSUME UNCHANGED <<script, patient, got, io, rcvd, up, handed>>,
             parsing' \in {FALSE, parsing}
      PROVE  BufferInv'
  <2>1. parsing' \in BOOLEAN /\ (parsing' => parsing)
    <3>1. parsing' = FALSE \/ parsing' = parsing
      BY <1>1
    <3>2. CASE parsing' = FALSE
      BY <3>2
    <3>3. CASE parsing' = parsing
      BY <1>0, <3>3
    <3>. QED BY <3>1, <3>2, <3>3
  <2>. QED BY <1>0, <1>1, <2>1, BufferStays
<1>2. ASSUME ParseFails PROVE BufferInv'
  BY <1>1, <1>2 DEF ParseFails, peerVars, bufferVars
<1>3. ASSUME ParseWaits PROVE BufferInv'
  BY <1>1, <1>3 DEF ParseWaits, peerVars, bufferVars
<1>4. ASSUME PeerEnds PROVE BufferInv'
  BY <1>1, <1>4 DEF PeerEnds, peerVars, bufferVars
<1>5. ASSUME ConnectionFails PROVE BufferInv'
  BY <1>1, <1>5 DEF ConnectionFails, peerVars, bufferVars
<1>6. ASSUME Poll PROVE BufferInv'
  BY <1>1, <1>6 DEF Poll, peerVars, bufferVars
<1>7. ASSUME NEW n \in 1..Len(send_mbuf), Send(n) PROVE BufferInv'
  BY <1>1, <1>7 DEF Send, peerVars, bufferVars
<1>8. ASSUME FileShrinks PROVE BufferInv'
  BY <1>1, <1>8 DEF FileShrinks, peerVars, bufferVars
<1>9. ASSUME UNCHANGED vars PROVE BufferInv'
  BY <1>1, <1>9 DEF vars, peerVars, bufferVars
<1>. QED BY <1>2, <1>3, <1>4, <1>5, <1>6, <1>7, <1>8, <1>9,
            ReceiveBuffer, ParseHandlesBuffer, CloseBuffer, NoChunkParsed DEF Next, Parse

LEMMA BufferInit == NoChunks /\ Init => BufferInv /\ SendTyped
<1>. SUFFICES ASSUME NoChunks, Init PROVE BufferInv /\ SendTyped
  OBVIOUS
<1>1. ScriptKnown
  <2>1. PICK n \in 1..MaxRequests : script \in [1..n -> {AllKinds[k] : k \in Kinds}]
    BY DEF Init
  <2>2. n \in Nat
    BY <2>1, HttpAssumption
  <2>3. script \in Seq({AllKinds[k] : k \in Kinds}) /\ Len(script) = n
    BY <2>1, <2>2
  <2>. QED BY <2>1, <2>3 DEF Init, ScriptKnown
<1>2. EndOf[0] = 0 /\ Total \in Nat
  BY <1>1, EndOfIs, EndsAre
<1>3. MaySend(got)
  <2>1. \A i \in 1..Len(script) : ~(EndOf[i] < 0)
    BY <1>1, EndsAre, ScriptIs
  <2>. QED BY <2>1 DEF MaySend, Init
<1>4. io = <<>> /\ handed = <<>> /\ send_mbuf = <<>> /\ heard = <<>>
      /\ got = 0 /\ rcvd = 0 /\ up = TRUE /\ parsing = FALSE /\ file = Closed
      /\ len = FileLen
  BY DEF Init
<1>5. /\ <<>> \in Seq(Calls) /\ <<>> \in Seq(U)
      /\ <<>> \in Seq((1..MaxRequests) \X Nat) /\ Len(<<>>) = 0
  BY EmptySeq
<1>6. SendTyped
  BY <1>4, <1>5 DEF SendTyped, Closed, FileState
<1>7. Len(handed) = 0 /\ Len(io) = 0 /\ Len(script) \in Nat
  BY <1>1, <1>4, <1>5, ScriptIs
<1>8. /\ Len(handed) <= Len(script) /\ EndOf[Len(handed)] + Len(io) = got
      /\ 1..Len(handed) = {} /\ 1..Len(io) = {}
  BY <1>2, <1>4, <1>7
<1>9. /\ got \in 0..Total /\ rcvd = Len(io)
      /\ handed \in Seq(Calls) /\ io \in Seq((1..MaxRequests) \X Nat)
  BY <1>2, <1>4, <1>5, <1>7
<1>10. /\ \A k \in 1..Len(handed) :
           handed[k].req = k /\ script[k].head = "good" /\ script[k].announced
       /\ \A k \in 1..Len(io) : io[k] = Unit(EndOf[Len(handed)] + k)
  BY <1>8
<1>11. up \in BOOLEAN /\ parsing \in BOOLEAN /\ up /\ ~parsing
  BY <1>4
<1>. QED BY <1>1, <1>3, <1>6, <1>8, <1>9, <1>10, <1>11, Zenon DEF BufferInv

-----------------------------------------------------------------------------
(* What is told and what is to be told *)

LEMMA BlocksJoin ==
    ASSUME NEW at \in Nat, NEW m \in Nat, NEW k \in Nat
    PROVE  Blocks(at, m) \o Blocks(at + m, k) = Blocks(at, m + k)
<1>1. PICK a \in Seq(U) : a = Blocks(at, m) /\ Len(a) = m
  BY BlocksAre
<1>2. PICK b \in Seq(U) : b = Blocks(at + m, k) /\ Len(b) = k
  <2>1. PICK n \in Nat : n = at + m
    OBVIOUS
  <2>. QED BY <2>1, BlocksAre
<1>3. PICK c \in Seq(U) : c = Blocks(at, m + k) /\ Len(c) = m + k
  BY BlocksAre
<1>4. PICK d \in Seq(U) : /\ d = a \o b /\ Len(d) = m + k
                          /\ \A i \in 1..(m + k) : d[i] = IF i <= m THEN a[i] ELSE b[i - m]
  <2>1. PICK d : d = a \o b
    OBVIOUS
  <2>2. /\ d \in Seq(U) /\ Len(d) = Len(a) + Len(b)
        /\ \A i \in 1..(Len(a) + Len(b)) :
             d[i] = IF i <= Len(a) THEN a[i] ELSE b[i - Len(a)]
    BY <2>1, ConcatProperties
  <2>3. Len(a) = m /\ Len(b) = k
    BY <1>1, <1>2
  <2>. QED BY <2>1, <2>2, <2>3
<1>5. ASSUME NEW i \in 1..(m + k) PROVE d[i] = c[i]
  <2>1. c[i] = Block(at + i)
    BY <1>3 DEF Blocks
  <2>2. CASE i <= m
    <3>1. i \in 1..m /\ a[i] = Block(at + i)
      BY <1>1, <2>2 DEF Blocks
    <3>. QED BY <1>4, <2>1, <2>2, <3>1
  <2>3. CASE ~(i <= m)
    <3>1. i - m \in 1..k /\ (at + m) + (i - m) = at + i
      BY <2>3
    <3>2. b[i - m] = Block((at + m) + (i - m))
      BY <1>2, <3>1 DEF Blocks
    <3>. QED BY <1>4, <2>1, <2>3, <3>1, <3>2
  <2>. QED BY <2>2, <2>3
<1>6. d = c
  BY <1>3, <1>4, <1>5, SeqEqual
<1>. QED BY <1>1, <1>2, <1>3, <1>4, <1>6

LEMMA NoBlocks == \A at : Blocks(at, 0) = <<>>
BY DEF Blocks

(* A call of mg_http_transfer_file_data moves a beginning of what is left. *)
LEMMA MovesAccount ==
    ASSUME NEW f \in FileState, f.fp = TRUE, f.sent <= f.cl, f.cl <= FileLen,
           f.at + (f.cl - f.sent) <= FileLen,
           NEW out \in Seq(U), NEW open, NEW m \in Nat, Moves(f, out, open, m),
           len \in {0, FileLen}, len' = len
    PROVE  /\ FileTyped'
           /\ (send_mbuf \o Rest)' = out \o Blocks(f.at, f.cl - f.sent)
           /\ IF file'.fp
              THEN /\ file'.sent < file'.cl /\ opened' = open
                   /\ file'.at + (file'.cl - file'.sent) <= FileLen
                   /\ send_mbuf' = <<>> => len' < FileLen
              ELSE file' = Closed /\ opened' = open - 1
<1>0. FileLen \in Nat \ {0} /\ MaxSend \in Nat \ {0}
  BY HttpAssumption
<1>1. PICK at, cl, sent \in Nat : at = f.at /\ cl = f.cl /\ sent = f.sent
  BY DEF FileState
<1>2. sent <= cl /\ cl <= FileLen /\ at + (cl - sent) <= FileLen
  BY <1>1
<1>3. /\ m <= cl - sent /\ m \in {Room(out), cl - sent, There(f)}
      /\ send_mbuf' = out \o Blocks(at, m)
      /\ sent + m >= cl => file' = Closed /\ opened' = open - 1
      /\ ~(sent + m >= cl) =>
           file' = [f EXCEPT !.at = at + m, !.sent = sent + m] /\ opened' = open
  BY <1>1, <1>2 DEF Moves, Left
<1>4. CASE sent + m >= cl
  <2>1. m = cl - sent /\ file' = Closed /\ opened' = open - 1
    <3>1. m <= cl - sent
      BY <1>3
    <3>2. m = cl - sent
      BY <1>2, <1>4, <3>1
    <3>. QED BY <1>3, <1>4, <3>2
  <2>2. FileTyped' /\ file'.fp = FALSE
    BY <2>1, <1>0 DEF FileTyped, Closed
  <2>3. Rest' = <<>>
    <3>1. file'.at = 0 /\ file'.cl - file'.sent = 0
      BY <2>1 DEF Closed
    <3>. QED BY <3>1, NoBlocks DEF Rest
  <2>4. out \o Blocks(at, m) \in Seq(U)
    BY BlocksAre, ConcatProperties
  <2>5. (send_mbuf \o Rest)' = out \o Blocks(at, m)
    BY <1>3, <2>3, <2>4, ConcatEmptySeq
  <2>. QED BY <1>1, <2>1, <2>2, <2>5
<1>5. CASE ~(sent + m >= cl)
  <2>1. PICK k \in Nat : k = cl - (sent + m)
    BY <1>5
  <2>2. k # 0 /\ m + k = cl - sent /\ at + m <= FileLen /\ sent + m <= FileLen
        /\ sent + m < cl /\ at + m + k <= FileLen
    BY <1>0, <1>2, <1>5, <2>1
  <2>3. PICK g : g = [f EXCEPT !.at = at + m, !.sent = sent + m]
    OBVIOUS
  <2>4. /\ g.fp = TRUE /\ g.at = at + m /\ g.cl = cl /\ g.sent = sent + m
        /\ g.keepalive \in BOOLEAN
        /\ g \in [fp : BOOLEAN, at : 0..FileLen, cl : 0..FileLen,
                  sent : 0..FileLen, keepalive : BOOLEAN]
    <3>1. at + m \in 0..FileLen /\ sent + m \in 0..FileLen /\ cl \in 0..FileLen
      BY <1>0, <1>2, <2>2
    <3>2. f.cl = cl /\ f.fp \in BOOLEAN /\ f.keepalive \in BOOLEAN
      BY <1>1 DEF FileState
    <3>3. \A a, c \in 0..FileLen :
            [f EXCEPT !.at = a, !.sent = c] \in
               [fp : BOOLEAN, at : 0..FileLen, cl : 0..FileLen,
                sent : 0..FileLen, keepalive : BOOLEAN]
      BY <3>1, <3>2 DEF FileState
    <3>4. /\ g.fp = TRUE /\ g.at = at + m /\ g.cl = cl /\ g.sent = sent + m
          /\ g.keepalive = f.keepalive
      BY <2>3, <3>2 DEF FileState
    <3>. QED BY <2>3, <3>1, <3>2, <3>3, <3>4
  <2>5. file' = g /\ opened' = open
    BY <1>3, <1>5, <2>3
  <2>6. FileTyped'
    BY <2>2, <2>4, <2>5 DEF FileTyped
  <2>7. Rest' = Blocks(at + m, k)
    BY <2>1, <2>4, <2>5 DEF Rest
  <2>8. (send_mbuf \o Rest)' = out \o Blocks(at, m + k)
    <3>0. PICK n \in Nat : n = at + m
      OBVIOUS
    <3>1. PICK a \in Seq(U), b \in Seq(U) : a = Blocks(at, m) /\ b = Blocks(at + m, k)
      BY <3>0, BlocksAre
    <3>2. (out \o a) \o b = out \o (a \o b)
      BY ConcatAssociative
    <3>3. a \o b = Blocks(at, m + k)
      BY <3>1, BlocksJoin, ZenonT(40)
    <3>. QED BY <1>3, <2>7, <3>1, <3>2, <3>3
  <2>9. ASSUME send_mbuf' = <<>> PROVE len' < FileLen
    <3>1. PICK b \in Seq(U) : b = Blocks(at, m) /\ Len(b) = m
      BY BlocksAre
    <3>2. out = <<>> /\ b = <<>>
      <4>1. out \o b = <<>>
        BY <1>3, <2>9, <3>1
      <4>. QED BY <4>1, ConcatEqualIffEmpty
    <3>3. Len(out) = 0 /\ m = 0
      BY <3>1, <3>2
    <3>4. Room(out) # 0
      BY <1>0, <3>3 DEF Room
    <3>5. There(f) = 0 /\ There(f) = IF at <= len THEN len - at ELSE 0
      BY <1>1, <1>3, <2>2, <3>3, <3>4 DEF There
    <3>6. at < FileLen /\ len \in Nat
      BY <1>0, <2>2
    <3>. QED BY <1>0, <3>5, <3>6
  <2>10. file'.fp = TRUE /\ file'.sent < file'.cl
         /\ file'.at + (file'.cl - file'.sent) <= FileLen
    <3>1. (at + m) + (cl - (sent + m)) <= FileLen
      BY <2>1, <2>2
    <3>. QED BY <2>2, <2>4, <2>5, <3>1
  <2>. QED BY <1>1, <2>2, <2>5, <2>6, <2>8, <2>9, <2>10
<1>. QED BY <1>4, <1>5

LEMMA ClosedIs ==
    /\ Closed.fp = FALSE
    /\ Blocks(Closed.at, Closed.cl - Closed.sent) = <<>>
    /\ Closed \in [fp : BOOLEAN, at : 0..FileLen, cl : 0..FileLen,
                   sent : 0..FileLen, keepalive : BOOLEAN]
    /\ Closed.sent <= Closed.cl
<1>1. /\ Closed.fp = FALSE /\ Closed.at = 0 /\ Closed.cl = 0 /\ Closed.sent = 0
      /\ Closed.cl - Closed.sent = 0
  BY DEF Closed
<1>2. Closed \in [fp : BOOLEAN, at : 0..FileLen, cl : 0..FileLen,
                  sent : 0..FileLen, keepalive : BOOLEAN]
  BY HttpAssumption DEF Closed
<1>. QED BY <1>1, <1>2, NoBlocks

LEMMA MovesInFile ==
    ASSUME NEW f \in FileState, NEW out, NEW open \in Nat \ {0}, NEW m \in Nat,
           f.fp, f.at <= FileLen, f.cl <= FileLen, len \in {0, FileLen},
           Moves(f, out, open, m)
    PROVE  TransferInv'
<1>0. /\ f.at \in Nat /\ f.cl \in Nat /\ f.sent \in Nat
      /\ FileLen \in Nat /\ len \in Nat /\ len <= FileLen
  BY HttpAssumption DEF FileState
<1>1. CASE f.sent + m >= f.cl
  <2>1. file' = Closed /\ opened' = open - 1
    BY <1>1 DEF Moves
  <2>2. open - 1 \in Nat
    OBVIOUS
  <2>. QED BY <2>1, <2>2, ClosedIs DEF TransferInv, FileTyped
<1>2. CASE ~(f.sent + m >= f.cl)
  <2>1. opened' = open /\ file' = [f EXCEPT !.at = @ + m, !.sent = @ + m]
    BY <1>2 DEF Moves
  <2>2. PICK a, n : a = f.at + m /\ n = f.sent + m
    OBVIOUS
  <2>3. a \in 0..FileLen
    BY <1>0, <2>2 DEF Moves, There
  <2>4. n \in 0..FileLen /\ n < f.cl /\ f.cl \in 0..FileLen
    BY <1>0, <1>2, <2>2
  <2>5. file' = [f EXCEPT !.at = a, !.sent = n]
    BY <2>1, <2>2
  <2>6. /\ file' \in [fp : BOOLEAN, at : 0..FileLen, cl : 0..FileLen,
                      sent : 0..FileLen, keepalive : BOOLEAN]
        /\ file'.sent = n /\ file'.cl = f.cl /\ file'.fp = f.fp
    BY <2>3, <2>4, <2>5 DEF FileState
  <2>7. opened' \in Nat /\ opened' >= 1
    BY <2>1
  <2>. QED BY <2>4, <2>6, <2>7, <1>0 DEF TransferInv, FileTyped
<1>. QED BY <1>1, <1>2

LEMMA TransferInFile ==
    ASSUME SendTyped, TransferInv, NEW out \in Seq(U), TransferIfOpen(out)
    PROVE  TransferInv'
<1>0. file \in FileState /\ len \in {0, FileLen}
  BY DEF SendTyped
<1>1. CASE file.fp
  <2>1. opened \in Nat \ {0} /\ file.at <= FileLen /\ file.cl <= FileLen
    BY <1>1, HttpAssumption DEF TransferInv, FileTyped
  <2>2. PICK m \in Nat : Moves(file, out, opened, m)
    BY <1>1, TransferIfOpenTyped
  <2>. QED BY <1>0, <1>1, <2>1, <2>2, MovesInFile
<1>2. CASE ~file.fp
  <2>1. file' = file /\ opened' = opened
    BY <1>2, TransferIfOpenTyped
  <2>. QED BY <2>1 DEF TransferInv, FileTyped
<1>. QED BY <1>1, <1>2

LEMMA HandlerInFile ==
    ASSUME SendTyped, TransferInv, NEW r, KindKnown(r), Handler(r)
    PROVE  TransferInv'
<1>1. CASE r.answer # "file"
  <2>1. file' = file /\ opened' = opened
    BY <1>1, HandlerTyped
  <2>. QED BY <2>1 DEF TransferInv, FileTyped
<1>2. CASE r.answer = "file"
  <2>1. PICK f \in FileState, m \in Nat :
          /\ f = [file EXCEPT !.fp = TRUE, !.at = r.first - 1,
                              !.cl = r.last + 1 - r.first,
                              !.keepalive = r.keepalive]
          /\ Moves(f, send_mbuf \o <<<<"head", 0>>>>, opened + 1, m)
    BY <1>2, HandlerTyped
  <2>2. file \in FileState /\ len \in {0, FileLen}
    BY DEF SendTyped
  <2>3. f.fp = TRUE /\ f.at = r.first - 1 /\ f.cl = r.last + 1 - r.first
    BY <2>1, <2>2 DEF FileState
  <2>4. f.at <= FileLen /\ f.cl <= FileLen
    BY <2>3, HttpAssumption DEF KindKnown
  <2>5. opened + 1 \in Nat \ {0}
    BY DEF TransferInv
  <2>. QED BY <2>1, <2>2, <2>3, <2>4, <2>5, MovesInFile
<1>. QED BY <1>1, <1>2

LEMMA TransferStep ==
    ASSUME BufferInv, SendTyped, TransferInv, [Next]_vars
    PROVE  TransferInv'
<1>0. send_mbuf \in Seq(U)
  BY DEF SendTyped
<1>1. ASSUME file' = file, opened' = opened PROVE TransferInv'
  BY <1>1 DEF TransferInv, FileTyped
<1>2. ASSUME NEW n \in 1..Total, Receive(n) PROVE TransferInv'
  BY <1>0, <1>2, TransferInFile DEF Receive
<1>3. ASSUME ParseHandles PROVE TransferInv'
  <2>1. KindKnown(Req)
    BY <1>3, HandledIs, ScriptIs DEF BufferInv
  <2>2. Handler(Req)
    BY <1>3 DEF ParseHandles
  <2>. QED BY <2>1, <2>2, HandlerInFile
<1>4. ASSUME Poll PROVE TransferInv'
  BY <1>0, <1>4, TransferInFile DEF Poll
<1>5. ASSUME NEW n \in 1..Len(send_mbuf), Send(n) PROVE TransferInv'
  <2>1. PICK out \in Seq(U) : out = SubSeq(send_mbuf, n + 1, Len(send_mbuf))
    BY <1>0, SentSplits
  <2>2. TransferIfOpen(out)
    BY <1>5, <2>1 DEF Send
  <2>. QED BY <2>2, TransferInFile
<1>6. ASSUME Close PROVE TransferInv'
  <2>1. file' = Closed /\ opened' \in {opened, IF file.fp THEN opened - 1 ELSE opened}
    BY <1>6 DEF Close
  <2>2. opened' \in Nat
    BY <2>1 DEF TransferInv
  <2>. QED BY <2>1, <2>2, ClosedIs DEF TransferInv, FileTyped
<1>7. ASSUME \/ ParseFails \/ ParseWaits \/ PeerEnds \/ ConnectionFails \/ FileShrinks
             \/ UNCHANGED vars
      PROVE  file' = file /\ opened' = opened
  BY <1>7 DEF ParseFails, ParseWaits, PeerEnds, ConnectionFails, FileShrinks, vars, fileVars
<1>. QED BY <1>1, <1>2, <1>3, <1>4, <1>5, <1>6, <1>7, NoChunkParsed DEF Next, Parse

LEMMA TransferAccount ==
    ASSUME SendTyped, Accounts, up, NEW out \in Seq(U), TransferIfOpen(out), len' = len
    PROVE  /\ FileTyped'
           /\ (send_mbuf \o Rest)' = out \o Rest
           /\ IF file'.fp
              THEN /\ file.fp /\ file'.sent < file'.cl /\ opened' = 1
                   /\ file'.at + (file'.cl - file'.sent) <= FileLen
                   /\ send_mbuf' = <<>> => len' < FileLen
              ELSE file' = Closed /\ opened' = 0
<1>0. file \in FileState /\ len \in {0, FileLen}
  BY DEF SendTyped
<1>1. CASE file.fp
  <2>1. /\ file.fp = TRUE /\ opened = 1
        /\ file.sent <= file.cl /\ file.cl <= FileLen
        /\ file.at + (file.cl - file.sent) <= FileLen
    BY <1>1, <1>0, HttpAssumption DEF Accounts, FileTyped, FileState
  <2>2. PICK m \in Nat : Moves(file, out, opened, m)
    BY <1>1, TransferIfOpenTyped
  <2>. HIDE DEF Rest
  <2>3. /\ FileTyped'
        /\ (send_mbuf \o Rest)' = out \o Blocks(file.at, file.cl - file.sent)
        /\ IF file'.fp
           THEN /\ file'.sent < file'.cl /\ opened' = opened
                /\ file'.at + (file'.cl - file'.sent) <= FileLen
                /\ send_mbuf' = <<>> => len' < FileLen
           ELSE file' = Closed /\ opened' = opened - 1
    BY <1>0, <2>1, <2>2, MovesAccount
  <2>4. Rest = Blocks(file.at, file.cl - file.sent) /\ opened - 1 = 0
    BY <2>1 DEF Rest
  <2>. QED BY <1>1, <2>1, <2>3, <2>4
<1>2. CASE ~file.fp
  <2>1. file = Closed /\ opened = 0 /\ FileTyped
    BY <1>2 DEF Accounts
  <2>2. send_mbuf' = out /\ file' = file /\ opened' = opened
    BY <1>2, TransferIfOpenTyped
  <2>3. FileTyped' /\ Rest' = Rest
    BY <2>1, <2>2 DEF FileTyped, Rest
  <2>. QED BY <2>1, <2>2, <2>3, ClosedIs
<1>. QED BY <1>1, <1>2

Joined(x, a, b, c, d) == x = a \o ((b \o c) \o d)

LEMMA JoinedIs ==
    ASSUME NEW a \in Seq(U), NEW b \in Seq(U), NEW c \in Seq(U), NEW d \in Seq(U),
           NEW x, Joined(x, a, b, c, d)
    PROVE  x = (a \o b) \o (c \o d)
<1>1. PICK q \in Seq(U) : q = c \o d
  BY ConcatProperties
<1>2. (a \o b) \o q = a \o (b \o q)
  BY ConcatAssociative, SMTT(40)
<1>3. (b \o c) \o d = b \o (c \o d)
  BY ConcatAssociative, SMTT(40)
<1>. QED BY <1>1, <1>2, <1>3 DEF Joined

(* What is sent is what the send buffer loses. *)
LEMMA AccountsMove ==
    ASSUME BufferInv, SendTyped, Accounts, up,
           UNCHANGED <<script, patient, io, handed, up, len>>,
           NEW now \in Seq(U), NEW out \in Seq(U), send_mbuf = now \o out,
           heard' = heard \o now, TransferIfOpen(out)
    PROVE  Accounts'
<1>1. /\ FileTyped'
      /\ (send_mbuf \o Rest)' = out \o Rest
      /\ IF file'.fp
         THEN /\ file.fp /\ file'.sent < file'.cl /\ opened' = 1
              /\ file'.at + (file'.cl - file'.sent) <= FileLen
              /\ send_mbuf' = <<>> => len' < FileLen
         ELSE file' = Closed /\ opened' = 0
  BY TransferAccount
<1>2. heard \o (send_mbuf \o Rest) = Promised(Len(handed))
  BY DEF Accounts
<1>3. (heard \o (send_mbuf \o Rest))' = heard \o (send_mbuf \o Rest)
  <2>1. Rest \in Seq(U)
    <3>1. PICK k \in Nat : k = file.cl - file.sent
      BY HttpAssumption DEF Accounts, FileTyped
    <3>2. file.at \in Nat
      BY DEF SendTyped, FileState
    <3>. QED BY <3>1, <3>2, BlocksAre DEF Rest
  <2>2. PICK h \in Seq(U), r \in Seq(U) : h = heard /\ r = Rest
    BY <2>1 DEF SendTyped
  <2>3. PICK x : x = h \o ((now \o out) \o r)
    OBVIOUS
  <2>4. Joined(x, h, now, out, r)
    BY <2>3 DEF Joined
  <2>5. x = (h \o now) \o (out \o r)
    BY <2>4, JoinedIs, Zenon
  <2>. QED BY <1>1, <2>2, <2>3, <2>5
<1>4. Promised(Len(handed))' = Promised(Len(handed))
  BY NamesStay
<1>5. file'.fp => /\ io' = <<>> /\ handed' # <<>>
                  /\ script'[Len(handed')].answer = "file"
  BY <1>1 DEF Accounts
<1>6. opened' = IF file'.fp THEN 1 ELSE 0
  BY <1>1, ClosedIs
<1>. QED BY <1>1, <1>2, <1>3, <1>4, <1>5, <1>6 DEF Accounts

LEMMA AccountsStay ==
    ASSUME BufferInv, SendTyped, Accounts,
           UNCHANGED <<script, patient, handed, up, file, opened, send_mbuf, heard>>,
           len' \in {0, len}, file.fp => io' = io
    PROVE  Accounts'
<1>1. Promised(Len(handed))' = Promised(Len(handed))
  BY NamesStay
<1>2. Rest' = Rest /\ (FileTyped => FileTyped')
  BY DEF Rest, FileTyped
<1>3. len < FileLen => len' < FileLen
  BY HttpAssumption
<1>. QED BY <1>1, <1>2, <1>3 DEF Accounts

(* Nobody sends behind a file that he is still to be told of. *)
LEMMA NothingBehind ==
    ASSUME BufferInv, SendTyped, Accounts, up, file.fp, Orderly, NEW n \in Nat,
           got < n, MaySend(n)
    PROVE  FALSE
<1>1. PICK h \in 1..Len(script) : h = Len(handed)
  <2>1. handed # <<>> /\ Len(handed) <= Len(script) /\ handed \in Seq(Calls)
        /\ Len(script) \in Nat
    BY ScriptIs DEF Accounts, BufferInv
  <2>2. Len(handed) # 0
    BY <2>1, EmptySeq
  <2>. QED BY <2>1, <2>2
<1>2. EndOf[h] = got
  <2>1. io = <<>> /\ EndOf[h] + Len(io) = got
    BY <1>1 DEF Accounts, BufferInv
  <2>2. Len(io) = 0 /\ EndOf[h] \in Nat
    BY <2>1, <1>1, EndsAre DEF BufferInv
  <2>. QED BY <2>1, <2>2
<1>3. script[h].answer = "file"
  BY <1>1 DEF Accounts
<1>4. Len(heard) < Len(Promised(h))
  <2>1. PICK k \in Nat \ {0} : k = file.cl - file.sent
    BY HttpAssumption DEF Accounts, FileTyped
  <2>2. PICK r \in Seq(U) : r = Rest /\ Len(r) = k
    <3>1. file.at \in Nat
      BY DEF SendTyped, FileState
    <3>. QED BY <2>1, <3>1, BlocksAre DEF Rest
  <2>3. PICK a \in Seq(U), b \in Seq(U) : a = heard /\ b = send_mbuf
    BY DEF SendTyped
  <2>4. b \o r \in Seq(U) /\ Len(b \o r) = Len(b) + k
    BY <2>2, ConcatProperties
  <2>5. Len(a \o (b \o r)) = Len(a) + (Len(b) + k)
    BY <2>4, ConcatProperties
  <2>6. a \o (b \o r) = Promised(h)
    BY <1>1, <2>2, <2>3 DEF Accounts
  <2>7. Len(a) \in Nat /\ Len(b) \in Nat
    OBVIOUS
  <2>. QED BY <2>1, <2>3, <2>5, <2>6, <2>7
<1>5. Waits(h)
  BY <1>3, <1>4 DEF Waits, Orderly
<1>. QED BY <1>2, <1>5 DEF MaySend

(* A request of a file is the last that is there, and so is a patient peer's. *)
LEMMA HandledIsLast ==
    ASSUME BufferInv, SendTyped, Accounts, ParseHandles,
           patient \/ (Req.answer = "file" /\ "behind" \notin Mishaps)
    PROVE  io' = <<>> /\ Len(io) = Length(Req)
<1>1. PICK i \in 1..Len(script) : i = Coming
  BY HandledIs
<1>2. /\ up /\ i - 1 = Len(handed) /\ Req = script[i] /\ KindKnown(script[i])
      /\ Length(script[i]) \in Nat /\ Length(script[i]) <= Len(io) /\ Len(io) \in Nat
      /\ io' = SubSeq(io, Length(script[i]) + 1, Len(io))
  BY <1>1, HandledIs, ScriptIs DEF BufferInv
<1>3. PICK e, m, l \in Nat : /\ e = EndOf[i - 1] /\ m = Length(script[i]) /\ l = Len(io)
                             /\ EndOf[i] = e + m /\ got = e + l /\ m <= l
  BY <1>2, EndsAre DEF BufferInv
<1>4. script[i].answer # "gone" => Len(heard) < Len(Promised(i))
  <2>. SUFFICES ASSUME script[i].answer # "gone" PROVE Len(heard) < Len(Promised(i))
    OBVIOUS
  <2>1. PICK a \in Seq(U) : a = Answer(script[i]) /\ Len(a) >= 1
    BY <1>2, AnswerIs
  <2>2. PICK p \in Seq(U) : p = Promised(i - 1) /\ Promised(i) = p \o a
    <3>1. i - 1 \in 0..Len(script) /\ ScriptKnown
      BY <1>1, <1>2, EndsAre DEF BufferInv
    <3>. QED BY <2>1, <3>1, PromisedIs
  <2>3. PICK k \in Nat : k = file.cl - file.sent
    BY HttpAssumption DEF Accounts, FileTyped
  <2>4. PICK r \in Seq(U) : r = Rest
    <3>1. file.at \in Nat
      BY DEF SendTyped, FileState
    <3>. QED BY <2>3, <3>1, BlocksAre DEF Rest
  <2>5. PICK h \in Seq(U), s \in Seq(U) : h = heard /\ s = send_mbuf
    BY DEF SendTyped
  <2>6. PICK x \in Seq(U) : x = s \o r
    BY ConcatProperties
  <2>7. p = h \o x
    BY <1>2, <2>2, <2>4, <2>5, <2>6 DEF Accounts
  <2>8. Len(h \o x) = Len(h) + Len(x) /\ Len(p \o a) = Len(p) + Len(a)
    BY ConcatProperties
  <2>9. Len(h) \in Nat /\ Len(x) \in Nat /\ Len(a) \in Nat
    OBVIOUS
  <2>. QED BY <2>1, <2>2, <2>5, <2>7, <2>8, <2>9
<1>5. Waits(i)
  BY <1>2, <1>4 DEF Waits
<1>6. MaySend(got)
  BY DEF BufferInv
<1>7. ~(e + m < e + l)
  BY <1>3, <1>5, <1>6 DEF MaySend
<1>8. l = m /\ l < m + 1 /\ m + 1 \in Int /\ l \in Int
  BY <1>3, <1>7
<1>. QED BY <1>2, <1>3, <1>8, SubSeqEmpty

LEMMA AccountsHandles ==
    ASSUME BufferInv, SendTyped, Accounts, Orderly, ParseHandles
    PROVE  Accounts'
<1>1. PICK i \in 1..Len(script) : i = Coming
  BY HandledIs
<1>2. /\ up /\ up' = up /\ i - 1 = Len(handed) /\ Req = script[i] /\ KindKnown(script[i])
      /\ io # <<>> /\ handed' = Handed(i) /\ heard' = heard /\ len' = len
      /\ Handler(script[i]) /\ UNCHANGED <<script, patient>>
  <2>1. /\ up /\ i - 1 = Len(handed) /\ Req = script[i] /\ KindKnown(script[i])
        /\ Head(io)[1] = i
    BY <1>1, HandledIs, ScriptIs DEF BufferInv
  <2>2. io # <<>>
    BY DEF BufferInv, ParseHandles
  <2>. QED BY <2>1, <2>2 DEF ParseHandles, peerVars
<1>3. Len(handed') = i /\ handed' # <<>>
  <2>1. Len(handed') = i
    BY <1>1, <1>2, HandedTyped
  <2>2. i # 0 /\ Len(<<>>) = 0
    OBVIOUS
  <2>. QED BY <2>1, <2>2
<1>4. ~file.fp /\ file = Closed /\ opened = 0
  BY <1>2 DEF Accounts
<1>5. PICK h \in Seq(U), s \in Seq(U), a \in Seq(U) :
        h = heard /\ s = send_mbuf /\ a = Answer(script[i])
  BY <1>2, AnswerIs DEF SendTyped
<1>6. Promised(i) = h \o (s \o a)
  <2>1. i - 1 \in 0..Len(script) /\ ScriptKnown
    BY <1>1, <1>2, EndsAre DEF BufferInv
  <2>2. Promised(i) = Promised(i - 1) \o a
    BY <1>5, <2>1, PromisedIs
  <2>3. h \o (s \o Rest) = Promised(i - 1)
    BY <1>2, <1>5 DEF Accounts
  <2>4. Rest = <<>>
    BY <1>4, ClosedIs DEF Rest
  <2>5. s \o <<>> = s
    BY ConcatEmptySeq
  <2>6. (h \o s) \o a = h \o (s \o a)
    BY ConcatAssociative
  <2>. QED BY <2>2, <2>3, <2>4, <2>5, <2>6
<1>7. Promised(Len(handed))' = Promised(i)
  BY <1>2, <1>3, NamesStay
<1>8. s \o a \in Seq(U)
  BY ConcatProperties
<1>9. CASE script[i].answer # "file"
  <2>1. send_mbuf' = s \o a /\ file' = Closed /\ opened' = 0
    BY <1>2, <1>4, <1>5, <1>9, HandlerTyped
  <2>2. Rest' = <<>>
    BY <2>1, ClosedIs DEF Rest
  <2>3. (heard \o (send_mbuf \o Rest))' = h \o (s \o a)
    BY <1>2, <1>5, <1>8, <2>1, <2>2, ConcatEmptySeq
  <2>4. FileTyped' /\ ~file'.fp
    BY <2>1, ClosedIs DEF FileTyped
  <2>. QED BY <1>2, <1>6, <1>7, <2>1, <2>3, <2>4 DEF Accounts
<1>10. CASE script[i].answer = "file"
  <2>1. PICK r : r = script[i]
    OBVIOUS
  <2>2. PICK f \in FileState, m \in Nat :
          /\ f = [file EXCEPT !.fp = TRUE, !.at = r.first - 1,
                              !.cl = r.last + 1 - r.first, !.keepalive = r.keepalive]
          /\ Moves(f, send_mbuf \o <<<<"head", 0>>>>, opened + 1, m)
    BY <1>2, <1>10, <2>1, HandlerTyped
  <2>3. /\ f.fp = TRUE /\ f.at = r.first - 1 /\ f.cl = r.last + 1 - r.first /\ f.sent = 0
    BY <1>4, <2>2 DEF Closed, FileState
  <2>4. /\ r.first \in Nat \ {0} /\ r.last \in Nat /\ r.last <= FileLen
        /\ r.first <= r.last + 1
    BY <1>2, <2>1 DEF KindKnown
  <2>5. PICK at, cl \in Nat : at = r.first - 1 /\ cl = r.last + 1 - r.first
    BY <2>4
  <2>6. /\ f.sent <= f.cl /\ f.cl <= FileLen /\ f.cl - f.sent = cl
        /\ f.at + (f.cl - f.sent) <= FileLen
    BY <2>3, <2>4, <2>5, HttpAssumption, SMTT(40)
  <2>7. PICK hd \in Seq(U) : hd = <<<<"head", 0>>>>
    <3>1. <<"head", 0>> \in U
      BY DEF U
    <3>2. \A u \in U : <<u>> \in Seq(U)
      OBVIOUS
    <3>. QED BY <3>1, <3>2
  <2>8. PICK out \in Seq(U) : out = s \o hd
    BY ConcatProperties
  <2>9. PICK open : open = opened + 1
    OBVIOUS
  <2>10. Moves(f, out, open, m)
    BY <1>5, <2>2, <2>7, <2>8, <2>9
  <2>11. len \in {0, FileLen}
    BY DEF SendTyped
  <2>12. /\ FileTyped'
         /\ (send_mbuf \o Rest)' = out \o Blocks(f.at, f.cl - f.sent)
         /\ IF file'.fp
            THEN /\ file'.sent < file'.cl /\ opened' = open
                 /\ file'.at + (file'.cl - file'.sent) <= FileLen
                 /\ send_mbuf' = <<>> => len' < FileLen
            ELSE file' = Closed /\ opened' = open - 1
    BY <1>2, <2>3, <2>6, <2>10, <2>11, MovesAccount
  <2>13. (send_mbuf \o Rest)' = s \o a
    <3>1. a = hd \o Blocks(at, cl)
      BY <1>2, <1>5, <1>10, <2>1, <2>5, <2>7, AnswerIs
    <3>2. PICK b \in Seq(U) : b = Blocks(at, cl)
      BY BlocksAre
    <3>3. (s \o hd) \o b = s \o (hd \o b)
      BY ConcatAssociative, SMTT(40)
    <3>. QED BY <2>3, <2>5, <2>6, <2>8, <2>12, <3>1, <3>2, <3>3
  <2>14. (heard \o (send_mbuf \o Rest))' = h \o (s \o a)
    BY <1>2, <1>5, <2>13
  <2>15. opened' = IF file'.fp THEN 1 ELSE 0
    BY <1>4, <2>9, <2>12, ClosedIs
  <2>16. io' = <<>>
    BY <1>2, <1>10, HandledIsLast DEF Orderly
  <2>17. script'[Len(handed')].answer = "file"
    BY <1>2, <1>3, <1>10
  <2>18. IF file'.fp THEN file'.sent < file'.cl ELSE file' = Closed
    BY <2>12
  <2>. QED BY <1>2, <1>3, <1>6, <1>7, <2>12, <2>14, <2>15, <2>16, <2>17, <2>18 DEF Accounts
<1>. QED BY <1>9, <1>10

LEMMA AccountsStep ==
    ASSUME BufferInv, SendTyped, Accounts, Orderly, [Next]_vars
    PROVE  Accounts'
<1>0. len \in {0, FileLen} /\ send_mbuf \in Seq(U) /\ heard \in Seq(U)
  BY DEF SendTyped
<1>1. ASSUME NEW n \in 1..Total, Receive(n) PROVE Accounts'
  <2>1. /\ up /\ MaySend(got + n) /\ TransferIfOpen(send_mbuf) /\ got + n \in Nat
        /\ got < got + n
        /\ UNCHANGED <<script, patient, handed, up, heard, len>>
    BY <1>1, EndsAre DEF Receive, CanReceive, peerVars, BufferInv
  <2>2. ~file.fp
    <3>1. PICK g \in Nat : g = got + n
      BY <2>1
    <3>. QED BY <2>1, <3>1, NothingBehind
  <2>3. UNCHANGED <<file, opened, send_mbuf>>
    BY <2>1, <2>2 DEF TransferIfOpen, fileVars
  <2>. QED BY <2>1, <2>2, <2>3, AccountsStay
<1>2. ASSUME ParseFails PROVE Accounts'
  BY <1>2, AccountsStay DEF ParseFails, peerVars, bufferVars, fileVars
<1>3. ASSUME ParseWaits PROVE Accounts'
  BY <1>3, AccountsStay DEF ParseWaits, peerVars, bufferVars, fileVars
<1>4. ASSUME PeerEnds PROVE Accounts'
  BY <1>4, AccountsStay DEF PeerEnds, peerVars, bufferVars, fileVars
<1>5. ASSUME ConnectionFails PROVE Accounts'
  BY <1>5, AccountsStay DEF ConnectionFails, peerVars, bufferVars, fileVars
<1>6. ASSUME FileShrinks PROVE Accounts'
  BY <1>6, AccountsStay DEF FileShrinks, peerVars, bufferVars, fileVars
<1>7. ASSUME UNCHANGED vars PROVE Accounts'
  BY <1>7, AccountsStay DEF vars, peerVars, bufferVars, fileVars
<1>8. ASSUME Poll PROVE Accounts'
  <2>1. PICK now \in Seq(U) : now = <<>>
    BY EmptySeq
  <2>2. send_mbuf = now \o send_mbuf /\ heard = heard \o now
    BY <1>0, <2>1, ConcatEmptySeq
  <2>3. /\ up /\ heard' = heard /\ TransferIfOpen(send_mbuf)
        /\ UNCHANGED <<script, patient, io, handed, up, len>>
    BY <1>8 DEF Poll, peerVars, bufferVars
  <2>4. heard' = heard \o now
    BY <2>2, <2>3
  <2>. QED BY <1>0, <2>2, <2>3, <2>4, AccountsMove
<1>9. ASSUME NEW n \in 1..Len(send_mbuf), Send(n) PROVE Accounts'
  <2>1. PICK now \in Seq(U), out \in Seq(U) :
          /\ now = SubSeq(send_mbuf, 1, n)
          /\ out = SubSeq(send_mbuf, n + 1, Len(send_mbuf))
          /\ send_mbuf = now \o out
    BY <1>0, SentSplits, ZenonT(40)
  <2>2. /\ up /\ heard' = heard \o now /\ TransferIfOpen(out)
        /\ UNCHANGED <<script, patient, io, handed, up, len>>
    BY <1>9, <2>1 DEF Send, peerVars, bufferVars
  <2>. QED BY <2>1, <2>2, AccountsMove
<1>10. ASSUME Close PROVE Accounts'
  <2>1. /\ up /\ up' = FALSE /\ file' = Closed
        /\ opened' = IF file.fp /\ ~(HeadThere /\ Req.answer = "file")
                     THEN opened - 1 ELSE opened
    BY <1>10 DEF Close
  <2>2. file.fp => ~HeadThere
    <3>1. file.fp => Len(io) = 0
      BY <2>1, EmptySeq DEF Accounts
    <3>. QED BY <3>1 DEF HeadThere, HeadLen
  <2>3. opened' = 0
    BY <2>1, <2>2 DEF Accounts
  <2>4. FileTyped' /\ ~file'.fp
    BY <2>1, ClosedIs DEF FileTyped
  <2>. QED BY <2>1, <2>3, <2>4 DEF Accounts
<1>. QED BY <1>1, <1>2, <1>3, <1>4, <1>5, <1>6, <1>7, <1>8, <1>9, <1>10, AccountsHandles,
            NoChunkParsed
         DEF Next, Parse

LEMMA NotWhole ==
    ASSUME BufferInv, up, NEW i \in 1..Len(script), i = Coming,
           Len(io) < Length(script[i])
    PROVE  ~Whole(i)
<1>1. /\ i - 1 = Len(handed) /\ ScriptKnown /\ Len(io) \in Nat
      /\ EndOf[Len(handed)] + Len(io) = got
  <2>1. Len(handed) \in Nat
    BY DEF BufferInv
  <2>2. i - 1 = Len(handed)
    BY <2>1 DEF Coming
  <2>. QED BY <2>2 DEF BufferInv
<1>2. PICK e, m, l \in Nat : /\ e = EndOf[i - 1] /\ m = Length(script[i]) /\ l = Len(io)
                             /\ EndOf[i] = e + m
  BY <1>1, EndsAre, ScriptIs
<1>3. got = e + l /\ l < m
  BY <1>1, <1>2
<1>4. ~(got >= EndOf[i])
  BY <1>2, <1>3
<1>. QED BY <1>4 DEF Whole

LEMMA WaitsStep ==
    ASSUME BufferInv, SendTyped, Accounts, NothingWaits, Orderly, [Next]_vars
    PROVE  NothingWaits'
<1>0. BufferInv' /\ Accounts'
  BY BufferStep, AccountsStep
<1>1. ASSUME UNCHANGED <<script, patient, got, handed, up, parsing>>,
             close_immediately => close_immediately'
      PROVE  NothingWaits'
  <2>1. ASSUME NEW i \in 1..Len(script) PROVE Whole(i)' = Whole(i) /\ Coming' = Coming
    <3>1. EndOf' = EndOf
      BY <1>1, ScriptStays
    <3>. QED BY <1>1, <3>1 DEF Whole, Coming
  <2>. QED BY <1>1, <2>1 DEF NothingWaits
<1>2. ASSUME NEW n \in 1..Total, Receive(n) PROVE NothingWaits'
  BY <1>2 DEF Receive, NothingWaits
<1>3. ASSUME ParseFails PROVE NothingWaits'
  BY <1>3 DEF ParseFails, NothingWaits
<1>4. ASSUME ParseWaits PROVE NothingWaits'
  <2>1. up /\ io # <<>> /\ rcvd = Len(io) /\ ScriptKnown
    BY <1>4 DEF ParseWaits, BufferInv
  <2>2. PICK i \in 1..Len(script) : i = Coming /\ Req = script[i]
    BY <2>1, HeadOfBuffer
  <2>3. /\ Length(script[i]) \in Nat /\ Length(script[i]) >= 2 /\ Len(io) \in Nat
    BY <2>1, <2>2, ScriptIs DEF BufferInv
  <2>4. ~Whole(i)
    <3>1. CASE Len(io) < HeadLen
      <4>1. Len(io) < Length(script[i])
        BY <2>3, <3>1 DEF HeadLen
      <4>. QED BY <2>1, <2>2, <4>1, NotWhole
    <3>2. CASE Req.head = "endless"
      <4>1. i \in 1..i
        BY <2>2
      <4>. QED BY <2>2, <3>2, <4>1 DEF Whole
    <3>3. CASE HeadThere /\ MessageLen > rcvd /\ Req.announced
      <4>1. Len(io) < Length(script[i])
        BY <2>1, <2>2, <2>3, <3>3 DEF MessageLen
      <4>. QED BY <2>1, <2>2, <4>1, NotWhole
    <3>4. CASE ~Req.announced
      <4>1. i \in 1..i /\ script[i].head # "chunked"
        BY <2>1, <2>2, ScriptIs
      <4>. QED BY <2>2, <3>4, <4>1 DEF Whole
    <3>. QED BY <1>4, <3>1, <3>2, <3>3, <3>4 DEF ParseWaits
  <2>5. UNCHANGED <<script, patient, got, handed>>
    BY <1>4 DEF ParseWaits, peerVars
  <2>6. Whole(i)' = Whole(i) /\ Coming' = Coming
    <3>1. EndOf' = EndOf
      BY <2>5, ScriptStays
    <3>. QED BY <2>5, <3>1 DEF Whole, Coming
  <2>. QED BY <2>2, <2>4, <2>6 DEF NothingWaits
<1>5. ASSUME ParseHandles PROVE NothingWaits'
  <2>1. parsing' = (~file'.fp /\ io' # <<>>) /\ UNCHANGED <<script, patient>> /\ up /\ up' = up
    BY <1>5, HandledIs DEF ParseHandles, peerVars
  <2>2. CASE parsing'
    BY <2>2 DEF NothingWaits
  <2>3. CASE ~parsing'
    <3>1. io' = <<>>
      BY <1>0, <2>1, <2>3 DEF Accounts
    <3>2. EndOf' = EndOf
      BY <2>1, ScriptStays
    <3>3. Len(io') = 0
      BY <3>1, EmptySeq
    <3>4. EndOf[Len(handed')] + 0 = got' /\ Len(handed') \in Nat
      BY <1>0, <2>1, <3>2, <3>3 DEF BufferInv
    <3>5. ASSUME NEW i \in 1..Len(script), i = Coming' PROVE ~Whole(i)'
      <4>1. Len(handed') = i - 1
        BY <3>4, <3>5 DEF Coming
      <4>2. /\ EndOf[i] = EndOf[i - 1] + Length(script[i])
            /\ EndOf[i - 1] \in Nat
            /\ Length(script[i]) \in Nat /\ Length(script[i]) >= 2
        BY EndsAre, ScriptIs DEF BufferInv
      <4>3. ~(got' >= EndOf[i])
        BY <3>4, <4>1, <4>2
      <4>. QED BY <3>2, <4>3 DEF Whole
    <3>. QED BY <2>1, <3>5 DEF NothingWaits
  <2>. QED BY <2>2, <2>3
<1>6. ASSUME PeerEnds PROVE NothingWaits'
  BY <1>1, <1>6 DEF PeerEnds, peerVars
<1>7. ASSUME ConnectionFails PROVE NothingWaits'
  BY <1>1, <1>7 DEF ConnectionFails, peerVars
<1>8. ASSUME Poll PROVE NothingWaits'
  BY <1>1, <1>8 DEF Poll, peerVars
<1>9. ASSUME NEW n \in 1..Len(send_mbuf), Send(n) PROVE NothingWaits'
  BY <1>1, <1>9 DEF Send, peerVars
<1>10. ASSUME Close PROVE NothingWaits'
  BY <1>10 DEF Close, NothingWaits
<1>11. ASSUME FileShrinks PROVE NothingWaits'
  BY <1>1, <1>11 DEF FileShrinks, peerVars, flagVars
<1>12. ASSUME UNCHANGED vars PROVE NothingWaits'
  BY <1>1, <1>12 DEF vars, peerVars, flagVars
<1>. QED BY <1>2, <1>3, <1>4, <1>5, <1>6, <1>7, <1>8, <1>9, <1>10, <1>11, <1>12,
            NoChunkParsed
         DEF Next, Parse

LEMMA OrderlyStays == [Next]_vars => Orderly' = Orderly
<1>. SUFFICES ASSUME [Next]_vars PROVE patient' = patient
  BY DEF Orderly
<1>. USE DEF peerVars
<1>1. ASSUME NEW n \in 1..Total, Receive(n) PROVE patient' = patient
  BY <1>1 DEF Receive
<1>2. ASSUME NEW n \in 1..Len(send_mbuf), Send(n) PROVE patient' = patient
  BY <1>2 DEF Send
<1>3. ASSUME ParseHandles PROVE patient' = patient
  BY <1>3 DEF ParseHandles
<1>. QED BY <1>1, <1>2, <1>3 DEF Next, Parse, ParseFails, ParseWaits, ParseChunk,
            ParseHandlesChunked, PeerEnds,
            ConnectionFails, Poll, Close, FileShrinks, vars

LEMMA AccountsInit == NoChunks /\ Init => Accounts /\ NothingWaits
<1>. SUFFICES ASSUME NoChunks, Init PROVE Accounts /\ NothingWaits
  OBVIOUS
<1>1. /\ file = Closed /\ opened = 0 /\ up = TRUE /\ handed = <<>> /\ got = 0
      /\ heard = <<>> /\ send_mbuf = <<>>
  BY DEF Init
<1>2. ScriptKnown /\ Len(handed) = 0
  BY <1>1, BufferInit, EmptySeq DEF BufferInv
<1>3. FileTyped /\ ~file.fp /\ Rest = <<>>
  BY <1>1, ClosedIs DEF FileTyped, Rest
<1>4. Promised(Len(handed)) = <<>>
  BY <1>2, PromisedIs
<1>5. heard \o (send_mbuf \o Rest) = <<>>
  <2>1. PICK s \in Seq(U) : s = <<>>
    BY EmptySeq
  <2>2. s \o s = s
    BY <2>1, ConcatEmptySeq
  <2>. QED BY <1>1, <1>3, <2>1, <2>2
<1>6. NothingWaits
  <2>1. ASSUME NEW i \in 1..Len(script), i = Coming PROVE ~Whole(i)
    <3>1. i = 1
      BY <1>2, <2>1 DEF Coming
    <3>2. EndOf[i] \in Nat /\ EndOf[i] >= 2
      <4>1. /\ EndOf[1] = EndOf[1 - 1] + Length(script[1]) /\ EndOf[0] = 0
            /\ Length(script[1]) \in Nat /\ Length(script[1]) >= 2
        BY <1>2, <3>1, EndOfIs, ScriptIs
      <4>. QED BY <3>1, <4>1
    <3>. QED BY <1>1, <3>2 DEF Whole
  <2>. QED BY <2>1 DEF NothingWaits
<1>. QED BY <1>1, <1>3, <1>4, <1>5, <1>6 DEF Accounts

LEMMA PrefixIs ==
    ASSUME NEW S, NEW s \in Seq(S), NEW t \in Seq(S), Len(s) <= Len(t),
           \A i \in 1..Len(s) : s[i] = t[i]
    PROVE  IsPrefix(s, t)
<1>1. SubSeq(s, 1, Len(s)) = s
  BY SubSeqFull
<1>2. PICK r : r = SubSeq(t, 1, Len(s))
  OBVIOUS
<1>3. /\ r \in Seq(S) /\ Len(r) = Len(s)
      /\ \A i \in 1..Len(s) : r[i] = t[i]
  <2>1. PICK n \in Nat : n = Len(s)
    OBVIOUS
  <2>2. \A i \in 1..n : t[i] \in S
    <3>1. \A i \in 1..n : i \in 1..Len(t)
      BY <2>1
    <3>. QED BY <3>1, ElementOfSeq
  <2>3. /\ r \in Seq(S) /\ Len(r) = IF 1 <= n THEN n - 1 + 1 ELSE 0
        /\ \A i \in 1..(n - 1 + 1) : r[i] = t[1 + i - 1]
    <3>1. r = SubSeq(t, 1, n) /\ 1 \in Int /\ n \in Int
      BY <1>2, <2>1
    <3>. QED BY <2>2, <3>1, SubSeqProperties
  <2>4. n - 1 + 1 = n /\ \A i \in 1..n : 1 + i - 1 = i
    OBVIOUS
  <2>. QED BY <2>1, <2>3, <2>4
<1>4. r = s
  BY <1>3, SeqEqual
<1>. QED BY <1>1, <1>2, <1>4 DEF IsPrefix

LEMMA ConcatPrefix ==
    ASSUME NEW S, NEW s \in Seq(S), NEW t \in Seq(S)
    PROVE  IsPrefix(s, s \o t)
<1>1. PICK x : x = s \o t
  OBVIOUS
<1>2. /\ x \in Seq(S) /\ Len(x) = Len(s) + Len(t)
      /\ \A i \in 1..(Len(s) + Len(t)) :
           x[i] = IF i <= Len(s) THEN s[i] ELSE t[i - Len(s)]
  BY <1>1, ConcatProperties
<1>3. Len(s) <= Len(x) /\ \A i \in 1..Len(s) : s[i] = x[i]
  BY <1>2
<1>. QED BY <1>1, <1>2, <1>3, PrefixIs

(* What the handler is called with. *)
LEMMA CallIs ==
    ASSUME BufferInv, SendTyped, Orderly => Accounts, ParseHandles
    PROVE  LET h == handed'[Len(handed')]
               own == [k \in 1..script[h.req].body |-> <<h.req, HeadLen + k>>]
           IN  /\ script[h.req].head # "chunked"
               /\ IF patient THEN h.body = own ELSE IsPrefix(own, h.body)
<1>1. PICK i \in 1..Len(script) : i = Coming
  BY HandledIs
<1>2. /\ up /\ i - 1 = Len(handed) /\ Req = script[i] /\ ScriptKnown
      /\ script[i].body \in Nat /\ Length(script[i]) = HeadLen + script[i].body
      /\ Length(script[i]) \in Nat /\ Length(script[i]) <= Len(io) /\ Len(io) \in Nat
      /\ Head(io)[1] = i
      /\ io \in Seq((1..MaxRequests) \X Nat)
      /\ \A k \in 1..Len(io) : io[k] = Unit(EndOf[i - 1] + k)
  <2>1. /\ up /\ i - 1 = Len(handed) /\ Req = script[i] /\ Head(io)[1] = i
        /\ script[i].body \in Nat /\ Length(script[i]) = HeadLen + script[i].body
        /\ Length(script[i]) \in Nat /\ Length(script[i]) <= Len(io) /\ Len(io) \in Nat
    BY <1>1, HandledIs
  <2>2. /\ ScriptKnown /\ io \in Seq((1..MaxRequests) \X Nat)
        /\ \A k \in 1..Len(io) : io[k] = Unit(EndOf[i - 1] + k)
    BY <2>1 DEF BufferInv
  <2>. QED BY <2>1, <2>2
<1>3. PICK b, l \in Nat : b = script[i].body /\ l = Len(io) /\ 2 + b <= l
                          /\ Length(script[i]) = 2 + b
  BY <1>2 DEF HeadLen
<1>4. PICK body : body = SubSeq(io, HeadLen + 1, Len(io))
  OBVIOUS
<1>5. PICK own : own = [k \in 1..b |-> <<i, HeadLen + k>>]
  OBVIOUS
<1>6. /\ body \in Seq((1..MaxRequests) \X Nat) /\ Len(body) = l - 2
      /\ \A k \in 1..(l - 2) : body[k] = io[2 + k]
  <2>1. body = SubSeq(io, 3, l)
    BY <1>3, <1>4 DEF HeadLen
  <2>2. \A k \in 3..l : io[k] \in (1..MaxRequests) \X Nat
    <3>1. \A k \in 3..l : k \in 1..Len(io)
      BY <1>3
    <3>. QED BY <1>2, <3>1, ElementOfSeq
  <2>3. /\ body \in Seq((1..MaxRequests) \X Nat)
        /\ Len(body) = IF 3 <= l THEN l - 3 + 1 ELSE 0
        /\ \A k \in 1..(l - 3 + 1) : body[k] = io[3 + k - 1]
    <3>1. 3 \in Int /\ l \in Int
      OBVIOUS
    <3>. QED BY <2>1, <2>2, <3>1, SubSeqProperties, SMTT(40)
  <2>4. l - 3 + 1 = l - 2 /\ (~(3 <= l) => l - 2 = 0) /\ \A k \in Nat : 3 + k - 1 = 2 + k
    BY <1>3
  <2>5. \A k \in 1..(l - 2) : k \in Nat
    BY <1>3
  <2>. QED BY <2>3, <2>4, <2>5
<1>7. /\ own \in Seq((1..MaxRequests) \X Nat) /\ Len(own) = b
      /\ \A k \in 1..b : own[k] = <<i, 2 + k>>
  <2>1. i \in 1..MaxRequests
    BY <1>2, ScriptIs
  <2>2. own \in [1..b -> (1..MaxRequests) \X Nat]
    BY <1>5, <2>1 DEF HeadLen
  <2>3. \A k \in 1..b : own[k] = <<i, 2 + k>>
    BY <1>5 DEF HeadLen
  <2>. QED BY <2>2, <2>3
<1>8. ASSUME NEW k \in 1..b PROVE own[k] = body[k]
  <2>1. PICK j \in Nat : j = 2 + k
    OBVIOUS
  <2>2. j \in 1..Length(script[i]) /\ j \in 1..Len(io) /\ k \in 1..(l - 2)
    BY <1>3, <2>1
  <2>3. io[j] = <<i, j>>
    BY <1>2, <2>2, UnitIs
  <2>. QED BY <1>6, <1>7, <2>1, <2>2, <2>3
<1>9. IsPrefix(own, body)
  <2>1. b <= l - 2
    BY <1>3
  <2>. QED BY <1>6, <1>7, <1>8, <2>1, PrefixIs, ZenonT(40)
<1>10. patient => body = own
  <2>1. SUFFICES ASSUME patient PROVE body = own
    OBVIOUS
  <2>2. Len(io) = Length(script[i])
    BY <1>2, <2>1, HandledIsLast DEF Orderly
  <2>3. Len(body) = b
    BY <1>3, <1>6, <2>2
  <2>. QED BY <1>6, <1>7, <1>8, <2>3, SeqEqual
<1>11. /\ Len(handed') = i
       /\ handed'[i] = [req |-> i, body |-> body]
  <2>1. handed' = Handed(i)
    BY <1>2 DEF ParseHandles
  <2>. QED BY <1>1, <1>4, <2>1, HandedTyped
<1>12. handed'[Len(handed')].req = i /\ handed'[Len(handed')].body = body
  BY <1>11
<1>13. own = [k \in 1..script[i].body |-> <<i, HeadLen + k>>]
  BY <1>3, <1>5
<1>14. script[i].head # "chunked"
  BY <1>2, ScriptIs
<1>. QED BY <1>9, <1>10, <1>12, <1>13, <1>14

LEMMA CallsInTurn ==
    ASSUME BufferInv, [Next]_vars, handed' # handed
    PROVE  \A k \in DOMAIN handed : handed[k].req < handed'[Len(handed')].req
<1>1. \E i \in 1..Len(script) : i = Coming /\ handed' = Handed(i)
  <2>1. CASE ParseHandles
    <3>1. PICK i \in 1..Len(script) : i = Coming /\ Head(io)[1] = i
      BY <2>1, HandledIs
    <3>. QED BY <2>1, <3>1 DEF ParseHandles
  <2>2. CASE Close
    <3>1. up /\ HeadThere /\ handed' = Handed(Head(io)[1])
      BY <2>2 DEF Close
    <3>2. io # <<>>
      BY <3>1 DEF HeadThere, HeadLen
    <3>3. PICK i \in 1..Len(script) : i = Coming /\ Head(io)[1] = i
      BY <3>1, <3>2, HeadOfBuffer
    <3>. QED BY <3>1, <3>3
  <2>3. ASSUME NEW n \in 1..Total, Receive(n) PROVE FALSE
    BY <2>3 DEF Receive
  <2>4. ASSUME NEW n \in 1..Len(send_mbuf), Send(n) PROVE FALSE
    BY <2>4 DEF Send
  <2>5. ~(ParseFails \/ ParseWaits \/ PeerEnds \/ ConnectionFails \/ Poll \/ FileShrinks)
    BY DEF ParseFails, ParseWaits, PeerEnds, ConnectionFails, Poll, FileShrinks
  <2>6. ~UNCHANGED vars
    BY DEF vars
  <2>. QED BY <2>1, <2>2, <2>3, <2>4, <2>5, <2>6, NoChunkParsed DEF Next, Parse
<1>2. PICK i \in 1..Len(script) : i = Coming /\ handed' = Handed(i)
  BY <1>1
<1>3. /\ Len(handed') = i /\ \A k \in 1..i : handed'[k].req = k
      /\ i \in 1..i
  <2>1. Len(Handed(i)) = i /\ \A k \in 1..i : Handed(i)[k].req = k
    BY <1>2, HandedTyped
  <2>. QED BY <1>2, <2>1
<1>4. /\ DOMAIN handed = 1..Len(handed) /\ Len(handed) \in Nat
      /\ \A k \in 1..Len(handed) : handed[k].req = k
  BY LenProperties DEF BufferInv
<1>5. \A k \in 1..Len(handed) : k < i
  BY <1>2, <1>4 DEF Coming
<1>6. handed'[Len(handed')].req = i
  BY <1>3
<1>. QED BY <1>4, <1>5, <1>6

-----------------------------------------------------------------------------

(* The buffer of a connection and what the connection knows of it, through   *)
(* every request and whatever the peer does, as long as none is chunked.    *)
THEOREM BufferInvariance ==
    ASSUME NoChunks
    PROVE  Spec => [](BufferInv /\ SendTyped)
<1>1. Init => BufferInv /\ SendTyped
  BY BufferInit
<1>2. BufferInv /\ SendTyped /\ [Next]_vars => (BufferInv /\ SendTyped)'
  BY BufferStep, SentTyped
<1>. QED BY <1>1, <1>2, PTL DEF Spec

(* With no chunked request, rcvd is what recv_mbuf holds, and the buffer    *)
(* starts with a request: one that is handled is all removed, and nothing   *)
(* of the next one is (mg_http_handler, deliver_chunk and mbuf_remove).     *)
THEOREM BufferKeepsInStep ==
    ASSUME NoChunks
    PROVE  Spec => []BufferInStep
<1>1. ASSUME BufferInv PROVE BufferInStep
  <2>1. rcvd = Len(io) /\ (~up => io = <<>>)
    BY <1>1 DEF BufferInv
  <2>2. ASSUME io # <<>> PROVE Head(io)[2] = 1
    <3>1. Head(io) = <<Coming, 1>>
      BY <1>1, <2>1, <2>2, HeadOfBuffer
    <3>. QED BY <3>1
  <2>. QED BY <2>1, <2>2 DEF BufferInStep
<1>. QED BY <1>1, BufferInvariance, PTL

-----------------------------------------------------------------------------

(* HInv, of which the theorems below are consequences, with no chunked      *)
(* request: the buffer is in step whoever sends, and the accounts are right *)
(* while nobody sends behind a file he is still to be told of               *)
(* (mg_http_handler, mg_http_serve_file and mg_http_transfer_file_data).    *)
THEOREM ConnectionInvariance ==
    ASSUME NoChunks
    PROVE  Spec => []HInv
<1>1. Init => HInv
  BY BufferInit, AccountsInit DEF HInv
<1>2. HInv /\ [Next]_vars => HInv'
  <2>. SUFFICES ASSUME HInv, [Next]_vars PROVE HInv'
    OBVIOUS
  <2>1. BufferInv' /\ SendTyped'
    BY BufferStep, SentTyped DEF HInv
  <2>2. Orderly' => Accounts' /\ NothingWaits'
    BY OrderlyStays, AccountsStep, WaitsStep DEF HInv
  <2>. QED BY <2>1, <2>2 DEF HInv
<1>. QED BY <1>1, <1>2, PTL DEF Spec

(* With no chunked request, each is handed to the server once and in its    *)
(* turn, and with the whole of its body while the connection is open; a     *)
(* peer that waits for its answers has nothing of the next request taken    *)
(* for a part of it (mg_http_handler, deliver_chunk).                       *)
THEOREM RequestsHandedWhole ==
    ASSUME NoChunks
    PROVE  Spec => HandedWhole
<1>. DEFINE A == handed' # handed =>
                   LET h == handed'[Len(handed')]
                       own == IF script[h.req].head = "chunked"
                              THEN <<<<h.req, HeadLen + 2>>>>
                              ELSE [k \in 1..script[h.req].body |-> <<h.req, HeadLen + k>>]
                   IN  /\ \A k \in DOMAIN handed : handed[k].req < h.req
                       /\ ParseHandles \/ ParseHandlesChunked =>
                            IF patient THEN h.body = own ELSE IsPrefix(own, h.body)
<1>1. HInv /\ [Next]_vars => [A]_vars
  <2>. SUFFICES ASSUME HInv, [Next]_vars, handed' # handed PROVE A
    OBVIOUS
  <2>1. BufferInv /\ SendTyped /\ (Orderly => Accounts)
    BY DEF HInv
  <2>2. \A k \in DOMAIN handed : handed[k].req < handed'[Len(handed')].req
    BY <2>1, CallsInTurn
  <2>3. ASSUME ParseHandles
        PROVE  LET h == handed'[Len(handed')]
                   own == [k \in 1..script[h.req].body |-> <<h.req, HeadLen + k>>]
               IN  /\ script[h.req].head # "chunked"
                   /\ IF patient THEN h.body = own ELSE IsPrefix(own, h.body)
    BY <2>1, <2>3, CallIs
  <2>4. ~ParseHandlesChunked
    BY <2>1, NoChunkParsed
  <2>. QED BY <2>2, <2>3, <2>4
<1>2. Spec => [][A]_vars
  <2>. HIDE DEF A
  <2>. QED BY <1>1, ConnectionInvariance, PTL DEF Spec
<1>. QED BY <1>2, PTL DEF HandedWhole

(* With no chunked request, the state keeps its type, and no more of a file *)
(* is sent than was announced, whatever else the peer sends and however the *)
(* file's length changes (mg_http_serve_file, mg_http_transfer_file_data).  *)
THEOREM ConnectionTypeCorrect ==
    ASSUME NoChunks
    PROVE  Spec => []TypeOK
<1>1. Init => TransferInv
  BY ClosedIs DEF Init, TransferInv, FileTyped
<1>2. BufferInv /\ SendTyped /\ TransferInv /\ [Next]_vars => TransferInv'
  BY TransferStep
<1>3. BufferInv /\ SendTyped /\ TransferInv => TypeOK
  <2>. SUFFICES ASSUME BufferInv, SendTyped, TransferInv PROVE TypeOK
    OBVIOUS
  <2>2. script \in Seq(Request)
    <3>1. {AllKinds[k] : k \in Kinds} \subseteq Request
      BY KindsAre DEF KindKnown
    <3>2. script \in Seq({AllKinds[k] : k \in Kinds})
      BY DEF BufferInv, ScriptKnown
    <3>. QED BY <3>1, <3>2, SeqMonotonic
  <2>3. rcvd \in Nat /\ got \in 0..Total /\ io \in Seq((1..MaxRequests) \X Nat)
        /\ handed \in Seq([req : 1..MaxRequests, body : Seq((1..MaxRequests) \X Nat)])
    BY DEF BufferInv, Calls
  <2>. QED BY <2>2, <2>3 DEF TypeOK, TransferInv, FileTyped
<1>. QED BY <1>1, <1>2, <1>3, BufferInvariance, PTL DEF Spec

(* With no chunked request and no peer that sends on behind a file, the     *)
(* FILE of a transfer is closed once: with the end of the transfer, or by   *)
(* MG_EV_CLOSE (mg_http_transfer_file_data, mg_http_handler).               *)
THEOREM FilesAreClosed ==
    ASSUME NoChunks, "behind" \notin Mishaps
    PROVE  Spec => []FilesClosed
<1>1. ASSUME HInv PROVE FilesClosed
  BY <1>1 DEF HInv, Orderly, Accounts, FilesClosed
<1>. QED BY <1>1, ConnectionInvariance, PTL

-----------------------------------------------------------------------------
(* The exchange *)

LEMMA SameJoin == \A s : Exchange!FlattenSeq(s) = FlattenSeq(s)
BY DEF Exchange!FlattenSeq, FlattenSeq

LEMMA SamePrefix == \A s, t : Exchange!IsPrefix(s, t) = IsPrefix(s, t)
BY DEF Exchange!IsPrefix, IsPrefix

Answered == [i \in DOMAIN script |-> Answer(script[i])]

LEMMA AnsweredIs ==
    ASSUME ScriptKnown
    PROVE  /\ Answered \in Seq(Seq(U)) /\ Len(Answered) = Len(script)
           /\ \A n \in 0..Len(script) :
                FlattenSeq(SubSeq(Answered, 1, n)) = Promised(n)
<1>0. /\ Len(script) \in Nat /\ DOMAIN script = 1..Len(script)
      /\ \A i \in 1..Len(script) : Answer(script[i]) \in Seq(U)
  BY ScriptIs, AnswerIs
<1>1. Answered \in Seq(Seq(U)) /\ Len(Answered) = Len(script)
      /\ \A i \in 1..Len(script) : Answered[i] = Answer(script[i])
  <2>1. Answered \in [1..Len(script) -> Seq(U)]
    BY <1>0 DEF Answered
  <2>2. \A i \in 1..Len(script) : Answered[i] = Answer(script[i])
    BY <1>0 DEF Answered
  <2>. QED BY <1>0, <2>1, <2>2
<1>2. ASSUME NEW n \in 0..Len(script)
      PROVE  FlattenSeq(SubSeq(Answered, 1, n)) = Promised(n)
  <2>1. PICK r : r = SubSeq(Answered, 1, n)
    OBVIOUS
  <2>2. PICK p : p = [i \in 1..n |-> Answer(script[i])]
    OBVIOUS
  <2>3. \A i \in 1..n : i \in 1..Len(script) /\ Answered[i] \in Seq(U)
    BY <1>0, <1>1
  <2>4. r \in Seq(Seq(U)) /\ Len(r) = n /\ \A i \in 1..n : r[i] = Answered[i]
    <3>1. 1 \in Int /\ n \in Int
      OBVIOUS
    <3>2. \A i \in 1..n : Answered[i] \in Seq(U)
      BY <2>3
    <3>3. /\ r \in Seq(Seq(U)) /\ Len(r) = IF 1 <= n THEN n - 1 + 1 ELSE 0
          /\ \A i \in 1..(n - 1 + 1) : r[i] = Answered[1 + i - 1]
      BY <2>1, <3>1, <3>2, SubSeqProperties
    <3>4. n - 1 + 1 = n /\ \A i \in 1..n : 1 + i - 1 = i
      OBVIOUS
    <3>. QED BY <3>3, <3>4
  <2>5. p \in Seq(Seq(U)) /\ Len(p) = n /\ \A i \in 1..n : p[i] = r[i]
    <3>1. n \in Nat
      OBVIOUS
    <3>2. p \in [1..n -> Seq(U)]
      BY <1>0, <2>2, <2>3
    <3>3. \A i \in 1..n : p[i] = r[i]
      BY <1>1, <2>2, <2>3, <2>4
    <3>. QED BY <3>1, <3>2, <3>3
  <2>6. p = r
    BY <2>4, <2>5, SeqEqual
  <2>7. Promised(n) = FlattenSeq(p)
    BY <2>2 DEF Promised
  <2>. QED BY <2>1, <2>6, <2>7
<1>. QED BY <1>1, <1>2

(* How many requests are there: all that were handled, and no more unless     *)
(* the next one is.                                                        *)
LEMMA AskedIs ==
    ASSUME ScriptKnown, got \in Nat, NEW h \in 0..Len(script),
           h = 0 \/ Whole(h)
    PROVE  /\ AskedNow \in h..Len(script)
           /\ h < Len(script) /\ ~Whole(h + 1) => AskedNow = h
           /\ h = Len(script) => AskedNow = h
<1>. DEFINE S == {i \in 1..Len(script) : Whole(i)}
<1>0. Len(script) \in Nat
  BY ScriptIs
<1>1. ASSUME NEW i \in 1..Len(script), NEW j \in 1..i, Whole(i)
      PROVE  Whole(j)
  <2>1. j \in 0..Len(script) /\ i \in 0..Len(script)
    BY <1>0
  <2>2. EndOf[i] \in Nat /\ EndOf[j] \in Nat
    BY <2>1, EndsAre
  <2>3. EndOf[j] <= EndOf[i]
    <3>1. j = i \/ j < i
      OBVIOUS
    <3>2. j < i => EndOf[j] + 2 <= EndOf[i]
      BY <2>1, EndOfGrows
    <3>. QED BY <2>2, <3>1, <3>2
  <2>4. /\ got >= EndOf[i]
        /\ \A k \in 1..i : \/ script[k].head = "good" /\ script[k].announced
                           \/ script[k].head = "chunked"
    BY <1>1 DEF Whole
  <2>5. got >= EndOf[j]
    BY <2>2, <2>3, <2>4
  <2>6. \A k \in 1..j : k \in 1..i
    OBVIOUS
  <2>. QED BY <2>4, <2>5, <2>6 DEF Whole
<1>2. IsFiniteSet(1..Len(script)) /\ Cardinality(1..Len(script)) = Len(script)
  <2>1. 1 \in Int /\ Len(script) \in Int
    BY <1>0
  <2>2. /\ IsFiniteSet(1..Len(script))
        /\ Cardinality(1..Len(script)) = IF 1 > Len(script) THEN 0 ELSE Len(script) - 1 + 1
    BY <2>1, FS_Interval
  <2>. QED BY <1>0, <2>2
<1>3. IsFiniteSet(S) /\ Cardinality(S) <= Len(script) /\ Cardinality(S) \in Nat
  <2>1. S \in SUBSET (1..Len(script))
    OBVIOUS
  <2>. HIDE DEF S
  <2>. QED BY <1>2, <2>1, FS_Subset, FS_CardinalityType
<1>4. Cardinality(1..h) = h /\ IsFiniteSet(1..h)
  <2>1. 1 \in Int /\ h \in Int
    OBVIOUS
  <2>2. IsFiniteSet(1..h) /\ Cardinality(1..h) = IF 1 > h THEN 0 ELSE h - 1 + 1
    BY <2>1, FS_Interval
  <2>. QED BY <2>2
<1>5. 1..h \in SUBSET S
  <2>1. ASSUME NEW j \in 1..h PROVE j \in S
    <3>1. h \in 1..Len(script) /\ Whole(h) /\ j \in 1..Len(script)
      BY <1>0
    <3>. QED BY <1>1, <3>1
  <2>. QED BY <2>1
<1>6. AskedNow = Cardinality(S)
  BY DEF AskedNow
<1>7. h <= Cardinality(S)
  <2>. HIDE DEF S
  <2>. QED BY <1>3, <1>4, <1>5, FS_Subset
<1>8. ASSUME h < Len(script), ~Whole(h + 1) PROVE S = 1..h
  <2>1. ASSUME NEW i \in S PROVE i \in 1..h
    <3>1. CASE i <= h
      BY <3>1
    <3>2. CASE h + 1 <= i
      <4>1. PICK n : n = h + 1
        OBVIOUS
      <4>2. n \in 1..i /\ i \in 1..Len(script) /\ Whole(i)
        BY <3>2, <4>1
      <4>3. Whole(n)
        BY <1>1, <4>2
      <4>. QED BY <1>8, <4>1, <4>3
    <3>. QED BY <3>1, <3>2
  <2>. QED BY <1>5, <2>1
<1>. HIDE DEF S
<1>9. AskedNow \in h..Len(script)
  BY <1>0, <1>3, <1>6, <1>7
<1>10. h < Len(script) /\ ~Whole(h + 1) => AskedNow = h
  BY <1>4, <1>6, <1>8
<1>11. h = Len(script) => AskedNow = h
  BY <1>9
<1>. QED BY <1>9, <1>10, <1>11

LEMMA HandledAreAsked ==
    ASSUME BufferInv, up
    PROVE  /\ Len(handed) \in 0..Len(script)
           /\ Len(handed) = 0 \/ Whole(Len(handed))
           /\ got \in Nat /\ ScriptKnown
<1>1. /\ Len(handed) \in 0..Len(script) /\ got \in Nat /\ ScriptKnown
      /\ EndOf[Len(handed)] + Len(io) = got /\ Len(io) \in Nat
      /\ \A k \in 1..Len(handed) : script[k].head = "good" /\ script[k].announced
  <2>1. Len(handed) \in Nat /\ Len(handed) <= Len(script) /\ Len(script) \in Nat
    BY ScriptIs DEF BufferInv
  <2>. QED BY <2>1, EndsAre DEF BufferInv
<1>2. EndOf[Len(handed)] \in Nat
  BY <1>1, EndsAre
<1>3. got >= EndOf[Len(handed)]
  BY <1>1, <1>2
<1>. QED BY <1>1, <1>3 DEF Whole

LEMMA BeginningIs ==
    ASSUME NEW p \in Seq(U), NEW q \in Seq(U), NEW s \in Seq(U)
    PROVE  IsPrefix(p, (p \o q) \o s)
<1>1. (p \o q) \o s = p \o (q \o s) /\ q \o s \in Seq(U)
  BY ConcatAssociative, ConcatProperties, SMTT(40)
<1>2. PICK x \in Seq(U) : x = q \o s
  BY <1>1
<1>. QED BY <1>1, <1>2, ConcatPrefix

Begins(x, a, b) == \E q \in Seq(U) : x = (a \o b) \o q

LEMMA SentIs ==
    ASSUME NEW a \in Seq(U), NEW b \in Seq(U), NEW c \in Seq(U), NEW d \in Seq(U),
           NEW x, Joined(x, a, b, c, d)
    PROVE  Begins(x, a, b)
<1>1. x = (a \o b) \o (c \o d)
  BY JoinedIs, Zenon
<1>2. PICK q \in Seq(U) : q = c \o d
  BY ConcatProperties
<1>. QED BY <1>1, <1>2 DEF Begins

(* The exchange as the abstract specification sees it. *)
Broken == close_immediately \/ len < FileLen

LEMMA ViewStays ==
    ASSUME UNCHANGED <<script, patient>>
    PROVE  /\ Answered' = Answered
           /\ got' = got => AskedNow' = AskedNow
           /\ \A n : Promised(n)' = Promised(n)
<1>1. Answered' = Answered
  BY DEF Answered
<1>2. ASSUME got' = got PROVE AskedNow' = AskedNow
  <2>1. EndOf' = EndOf
    BY ScriptStays
  <2>. QED BY <1>2, <2>1 DEF AskedNow, Whole
<1>. QED BY <1>1, <1>2, ScriptStays

LEMMA ReceiveAsks ==
    ASSUME BufferInv, NEW n \in 1..Total, Receive(n)
    PROVE  /\ UNCHANGED <<Answered, heard, close_immediately, len, up>>
           /\ AskedNow' = AskedNow \/ AskedNow' \in (AskedNow + 1)..Len(Answered)
           /\ up /\ AskedNow \in Nat
<1>1. /\ up /\ UNCHANGED <<script, patient, heard, close_immediately, len, up>>
      /\ got' = got + n
  BY DEF Receive, CanReceive, peerVars
<1>2. PICK h \in 0..Len(script) : h = Len(handed) /\ (h = 0 \/ Whole(h))
  BY <1>1, HandledAreAsked
<1>3. got \in Nat /\ ScriptKnown /\ Len(script) \in Nat
  BY <1>1, HandledAreAsked, ScriptIs
<1>4. Answered' = Answered /\ Len(Answered) = Len(script) /\ EndOf' = EndOf
  BY <1>1, <1>3, ViewStays, AnsweredIs, ScriptStays
<1>. DEFINE S == {i \in 1..Len(script) : Whole(i)}
            T == {i \in 1..Len(script) : Whole(i)'}
<1>5. AskedNow \in 0..Len(script)
  <2>1. AskedNow \in h..Len(script)
    BY <1>2, <1>3, AskedIs
  <2>. QED BY <1>3, <2>1
<1>6. IsFiniteSet(1..Len(script)) /\ Cardinality(1..Len(script)) = Len(script)
  <2>1. 1 \in Int /\ Len(script) \in Int
    BY <1>3
  <2>2. /\ IsFiniteSet(1..Len(script))
        /\ Cardinality(1..Len(script)) = IF 1 > Len(script) THEN 0 ELSE Len(script) - 1 + 1
    BY <2>1, FS_Interval
  <2>. QED BY <1>3, <2>2
<1>7. T \in SUBSET (1..Len(script)) /\ S \in SUBSET T
  <2>1. ASSUME NEW i \in 1..Len(script), Whole(i) PROVE Whole(i)'
    <3>1. EndOf[i] \in Nat /\ got >= EndOf[i]
      BY <1>3, <2>1, EndsAre DEF Whole
    <3>2. got' >= EndOf[i]
      BY <1>1, <1>3, <3>1
    <3>. QED BY <1>1, <1>4, <2>1, <3>2 DEF Whole
  <2>. QED BY <2>1
<1>8. AskedNow = Cardinality(S) /\ AskedNow' = Cardinality(T)
  BY <1>1 DEF AskedNow
<1>. HIDE DEF S, T
<1>9. IsFiniteSet(T) /\ Cardinality(T) <= Len(script)
  BY <1>6, <1>7, FS_Subset
<1>10. Cardinality(S) <= Cardinality(T) /\ Cardinality(T) \in Nat
  BY <1>7, <1>9, FS_Subset, FS_CardinalityType
<1>11. AskedNow' = AskedNow \/ AskedNow' \in (AskedNow + 1)..Len(Answered)
  BY <1>3, <1>4, <1>5, <1>8, <1>9, <1>10
<1>. QED BY <1>1, <1>4, <1>5, <1>11

LEMMA SendTells ==
    ASSUME BufferInv, SendTyped, Accounts, NEW n \in 1..Len(send_mbuf), Send(n)
    PROVE  /\ up /\ UNCHANGED <<Answered, AskedNow, close_immediately, len, up>>
           /\ IsStrictPrefix(heard, heard')
           /\ IsPrefix(heard', FlattenSeq(SubSeq(Answered, 1, AskedNow)))
<1>1. /\ up /\ UNCHANGED <<script, patient, got, close_immediately, len, up>>
      /\ heard' = heard \o SubSeq(send_mbuf, 1, n)
  BY DEF Send, peerVars
<1>2. UNCHANGED <<Answered, AskedNow>>
  BY <1>1, ViewStays
<1>3. PICK now \in Seq(U), out \in Seq(U), h \in Seq(U) :
        /\ now = SubSeq(send_mbuf, 1, n) /\ send_mbuf = now \o out /\ Len(now) = n
        /\ h = heard
  <2>1. send_mbuf \in Seq(U) /\ heard \in Seq(U)
    BY DEF SendTyped
  <2>2. PICK now \in Seq(U), out \in Seq(U) :
          /\ now = SubSeq(send_mbuf, 1, n) /\ out = SubSeq(send_mbuf, n + 1, Len(send_mbuf))
          /\ send_mbuf = now \o out /\ Len(now) = n
    BY <2>1, SentSplits
  <2>. QED BY <2>1, <2>2
<1>4. heard' = h \o now
  BY <1>1, <1>3
<1>5. IsStrictPrefix(heard, heard')
  <2>1. now # <<>> /\ h \o now # h
    <3>1. Len(now) # 0
      BY <1>3
    <3>2. now # <<>>
      BY <3>1, EmptySeq
    <3>. QED BY <3>2, ConcatEqualIffEmpty
  <2>2. IsPrefix(h, h \o now)
    BY ConcatPrefix
  <2>. QED BY <1>3, <1>4, <2>1, <2>2 DEF IsStrictPrefix
<1>6. PICK r \in Seq(U) : r = Rest
  <2>1. PICK k \in Nat : k = file.cl - file.sent
    BY HttpAssumption DEF Accounts, FileTyped
  <2>2. file.at \in Nat
    BY DEF SendTyped, FileState
  <2>. QED BY <2>1, <2>2, BlocksAre DEF Rest
<1>7. PICK x : x = h \o ((now \o out) \o r)
  OBVIOUS
<1>8. PICK d \in 0..Len(script) : d = Len(handed) /\ (d = 0 \/ Whole(d))
  BY <1>1, HandledAreAsked
<1>9. /\ got \in Nat /\ ScriptKnown
      /\ Promised(d) = x
  BY <1>1, <1>3, <1>6, <1>7, <1>8, HandledAreAsked DEF Accounts
<1>10. PICK a \in 0..Len(script) : a = AskedNow /\ d <= a
  <2>1. AskedNow \in d..Len(script) /\ Len(script) \in Nat
    BY <1>8, <1>9, AskedIs, ScriptIs
  <2>. QED BY <2>1
<1>11. PICK s \in Seq(U) : Promised(a) = Promised(d) \o s
  BY <1>9, <1>10, PromisedGrows
<1>12. IsPrefix(heard', Promised(a))
  <2>1. Joined(x, h, now, out, r)
    BY <1>7 DEF Joined
  <2>2. Begins(x, h, now)
    BY <2>1, SentIs, Zenon
  <2>3. PICK q \in Seq(U) : x = (h \o now) \o q
    BY <2>2 DEF Begins
  <2>4. h \o now \in Seq(U)
    BY ConcatProperties
  <2>5. PICK p : p = h \o now
    OBVIOUS
  <2>6. p \in Seq(U) /\ Promised(a) = (p \o q) \o s
    BY <1>9, <1>11, <2>3, <2>4, <2>5
  <2>7. IsPrefix(p, (p \o q) \o s)
    BY <2>6, BeginningIs, Zenon
  <2>. QED BY <1>4, <2>5, <2>6, <2>7
<1>13. FlattenSeq(SubSeq(Answered, 1, a)) = Promised(a)
  BY <1>9, AnsweredIs
<1>. QED BY <1>1, <1>2, <1>5, <1>10, <1>12, <1>13

LEMMA CloseEnds ==
    ASSUME BufferInv, SendTyped, Accounts, NothingWaits, Close
    PROVE  /\ up /\ ~up' /\ UNCHANGED <<Answered, AskedNow, heard, close_immediately, len>>
           /\ Broken \/ heard = FlattenSeq(SubSeq(Answered, 1, AskedNow))
<1>1. /\ up /\ up' = FALSE /\ ~parsing /\ DueToClose
      /\ UNCHANGED <<script, patient, got, heard, close_immediately, len>>
  BY DEF Close, peerVars, flagVars
<1>2. UNCHANGED <<Answered, AskedNow>>
  BY <1>1, ViewStays
<1>3. ASSUME ~Broken PROVE heard = FlattenSeq(SubSeq(Answered, 1, AskedNow))
  <2>1. ~close_immediately /\ send_mbuf = <<>> /\ ~(len < FileLen)
    BY <1>1, <1>3 DEF Broken, DueToClose
  <2>2. ~file.fp /\ file = Closed
    BY <1>1, <2>1 DEF Accounts
  <2>3. Rest = <<>>
    BY <2>2, ClosedIs DEF Rest
  <2>4. heard = Promised(Len(handed))
    <3>1. PICK h \in Seq(U), e \in Seq(U) : h = heard /\ e = <<>>
      BY EmptySeq DEF SendTyped
    <3>2. h \o (e \o e) = h
      BY <3>1, ConcatEmptySeq
    <3>. QED BY <1>1, <2>1, <2>3, <3>1, <3>2 DEF Accounts
  <2>5. PICK d \in 0..Len(script) : d = Len(handed) /\ (d = 0 \/ Whole(d))
    BY <1>1, HandledAreAsked
  <2>6. got \in Nat /\ ScriptKnown /\ Len(script) \in Nat
    BY <1>1, HandledAreAsked, ScriptIs
  <2>7. d < Len(script) => ~Whole(d + 1)
    <3>1. PICK c : c = d + 1
      OBVIOUS
    <3>2. d < Len(script) => c \in 1..Len(script) /\ c = Coming
      BY <2>5, <2>6, <3>1 DEF Coming
    <3>. QED BY <1>1, <2>1, <3>1, <3>2 DEF NothingWaits
  <2>8. AskedNow = d
    <3>1. d < Len(script) \/ d = Len(script)
      BY <2>6
    <3>. QED BY <2>5, <2>6, <2>7, <3>1, AskedIs
  <2>. QED BY <2>4, <2>5, <2>6, <2>8, AnsweredIs
<1>. QED BY <1>1, <1>2, <1>3

(* There, too, the peer is told the answers of the requests that have arrived *)
(* whole, in their order and each once, and is told all of them before the   *)
(* connection ends, unless it breaks or the file is cut (HttpExchange;        *)
(* mg_http_handler, mg_http_serve_file and mg_mgr_poll's closing).            *)
THEOREM ConnectionImplementsExchange ==
    ASSUME NoChunks, "behind" \notin Mishaps
    PROVE  Spec => ImplementsExchange
<1>1. Init => Exchange!Init
  <2>. SUFFICES ASSUME Init PROVE Exchange!Init
    OBVIOUS
  <2>1. BufferInv /\ ScriptKnown /\ Answered \in Seq(Seq(U))
    BY BufferInit, AnsweredIs DEF BufferInv
  <2>2. /\ up = TRUE /\ heard = <<>> /\ close_immediately = FALSE /\ len = FileLen
        /\ handed = <<>>
    BY DEF Init
  <2>3. AskedNow = 0
    <3>1. Len(handed) = 0 /\ Len(script) \in Nat /\ 1 <= Len(script) /\ got \in Nat
      BY <2>1, <2>2, HandledAreAsked, ScriptIs, EmptySeq
    <3>2. 1 \in 1..Len(script) /\ 1 = Coming /\ ~parsing
      BY <3>1 DEF Init, Coming
    <3>3. ~Whole(1)
      BY <2>2, <3>2, AccountsInit DEF NothingWaits
    <3>4. PICK h \in 0..Len(script) : h = 0
      BY <3>1
    <3>5. h < Len(script) /\ ~Whole(h + 1)
      BY <3>1, <3>3, <3>4
    <3>. QED BY <2>1, <3>1, <3>4, <3>5, AskedIs
  <2>4. (close_immediately \/ len < FileLen) = FALSE
    BY <2>2, HttpAssumption
  <2>. QED BY <2>1, <2>2, <2>3, <2>4 DEF Exchange!Init, Answered, U
<1>2. HInv /\ [Next]_vars => [Exchange!Next]_(Exchange!vars)
  <2>. SUFFICES ASSUME HInv, [Next]_vars PROVE [Exchange!Next]_(Exchange!vars)
    OBVIOUS
  <2>0. BufferInv /\ SendTyped /\ Accounts /\ NothingWaits
    BY DEF HInv, Orderly
  <2>1. ASSUME UNCHANGED <<script, patient, got, heard, close_immediately, len, up>>
        PROVE  UNCHANGED Exchange!vars
    <3>1. UNCHANGED <<Answered, AskedNow>>
      BY <2>1, ViewStays
    <3>. QED BY <2>1, <3>1 DEF Exchange!vars, Answered
  <2>2. ASSUME up, up' = up, UNCHANGED <<script, patient, got, heard>>,
               (close_immediately \/ len < FileLen)' = TRUE
        PROVE  Exchange!Fault
    <3>1. UNCHANGED <<Answered, AskedNow>>
      BY <2>2, ViewStays
    <3>. QED BY <2>2, <3>1 DEF Exchange!Fault, Answered
  <2>3. ASSUME NEW n \in 1..Total, Receive(n)
        PROVE  Exchange!Ask \/ UNCHANGED Exchange!vars
    <3>1. /\ UNCHANGED <<Answered, heard, close_immediately, len, up>>
          /\ AskedNow' = AskedNow \/ AskedNow' \in (AskedNow + 1)..Len(Answered)
          /\ up /\ AskedNow \in Nat
      BY <2>0, <2>3, ReceiveAsks
    <3>2. CASE AskedNow' = AskedNow
      BY <3>1, <3>2 DEF Exchange!vars, Answered
    <3>3. CASE AskedNow' \in (AskedNow + 1)..Len(Answered)
      <4>1. AskedNow < Len(Answered)
        <5>1. Answered \in Seq(Seq(U))
          BY <2>0, AnsweredIs DEF BufferInv
        <5>2. Len(Answered) \in Nat
          BY <5>1
        <5>. QED BY <3>1, <3>3, <5>2
      <4>. QED BY <3>1, <3>3, <4>1 DEF Exchange!Ask, Answered
    <3>. QED BY <3>1, <3>2, <3>3
  <2>4. ASSUME ParseFails PROVE Exchange!Fault
    <3>1. up
      BY <2>0, <2>4 DEF ParseFails, BufferInv
    <3>. QED BY <2>2, <2>4, <3>1 DEF ParseFails, peerVars
  <2>5. ASSUME ParseWaits PROVE UNCHANGED Exchange!vars
    BY <2>1, <2>5 DEF ParseWaits, peerVars, flagVars
  <2>6. ASSUME ParseHandles PROVE UNCHANGED Exchange!vars
    <3>1. len' = len /\ UNCHANGED <<script, patient, got, heard, close_immediately, up>>
      BY <2>6 DEF ParseHandles, peerVars
    <3>. QED BY <2>1, <3>1
  <2>7. ASSUME PeerEnds PROVE UNCHANGED Exchange!vars
    BY <2>1, <2>7 DEF PeerEnds, peerVars
  <2>8. ASSUME ConnectionFails PROVE Exchange!Fault
    BY <2>2, <2>8 DEF ConnectionFails, peerVars
  <2>9. ASSUME Poll PROVE UNCHANGED Exchange!vars
    BY <2>1, <2>9 DEF Poll, peerVars
  <2>10. ASSUME NEW n \in 1..Len(send_mbuf), Send(n) PROVE Exchange!Tell
    <3>1. /\ up /\ UNCHANGED <<Answered, AskedNow, close_immediately, len, up>>
          /\ IsStrictPrefix(heard, heard')
          /\ IsPrefix(heard', FlattenSeq(SubSeq(Answered, 1, AskedNow)))
      BY <2>0, <2>10, SendTells
    <3>2. Exchange!IsStrictPrefix(heard, heard')
      BY <3>1, SamePrefix DEF Exchange!IsStrictPrefix, IsStrictPrefix
    <3>3. Exchange!IsPrefix(heard', Exchange!FlattenSeq(SubSeq(Answered, 1, AskedNow)))
      BY <3>1, SamePrefix, SameJoin
    <3>4. Exchange!IsPrefix(heard', Exchange!Promised)
      BY <3>3 DEF Exchange!Promised, Answered
    <3>. QED BY <3>1, <3>2, <3>4 DEF Exchange!Tell, Answered
  <2>11. ASSUME Close PROVE Exchange!End
    <3>1. /\ up /\ ~up' /\ UNCHANGED <<Answered, AskedNow, heard, close_immediately, len>>
          /\ Broken \/ heard = FlattenSeq(SubSeq(Answered, 1, AskedNow))
      BY <2>0, <2>11, CloseEnds
    <3>2. Exchange!Promised = FlattenSeq(SubSeq(Answered, 1, AskedNow))
      BY SameJoin DEF Exchange!Promised, Answered
    <3>. QED BY <3>1, <3>2 DEF Exchange!End, Broken, Answered
  <2>12. ASSUME FileShrinks PROVE Exchange!Fault
    <3>1. len' < FileLen
      BY <2>12, HttpAssumption DEF FileShrinks
    <3>2. (close_immediately \/ len < FileLen)' = TRUE
      BY <3>1
    <3>. QED BY <2>2, <2>12, <3>2 DEF FileShrinks, peerVars, flagVars
  <2>13. ASSUME UNCHANGED vars PROVE UNCHANGED Exchange!vars
    BY <2>1, <2>13 DEF vars, peerVars, flagVars
  <2>. QED BY <2>0, <2>3, <2>4, <2>5, <2>6, <2>7, <2>8, <2>9, <2>10, <2>11, <2>12,
              <2>13, NoChunkParsed
           DEF Next, Parse, Exchange!Next
<1>. QED BY <1>1, <1>2, ConnectionInvariance, PTL DEF Spec, ImplementsExchange, Exchange!Spec

=============================================================================
