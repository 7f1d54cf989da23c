-------------------------- MODULE EventLoop_proofs --------------------------
(* Safety of EventLoop, for any number of connections and descriptors.       *)
EXTENDS EventLoop, SequenceTheorems, WellFoundedInduction, TLAPS

(* No connection is on the list twice. *)
Distinct == \A i, j \in DOMAIN active : active[i] = active[j] => i = j

Socks == {sock[c] : c \in Listed}

(* What the sets say of the descriptor of c was put there for c. *)
OwnFlags(c) == sock[c] \in read_set \cup write_set => owner[sock[c]] = c

(* The walk has come to place p of the list: those before it are in the      *)
(* sets, or have been visited.                                             *)
WalkAt(p) ==
    /\ next = IF p <= Len(active) THEN active[p] ELSE NoConn
    /\ phase = "prepare" =>
         /\ due = Listed
         /\ \A j \in 1..(p - 1) : OwnFlags(active[j])
    /\ phase # "prepare" =>
         /\ due = {active[j] : j \in p..Len(active)}
         /\ \A c \in due : OwnFlags(c)

WalkInPlace == \E p \in 1..(Len(active) + 1) : WalkAt(p)

LoopInv ==
    /\ TypeOK
    /\ Distinct
    /\ Listener \in Listed
    /\ FdsAccounted
    /\ read_set \cup write_set \subseteq {fd \in Fds : fd < FdSetSize}
    /\ phase \in {"receive", "send"} => next \in Conns
    /\ WalkInPlace

-----------------------------------------------------------------------------
(* The operators *)

LEMMA LowestIsLeast ==
    ASSUME NEW S \in SUBSET Nat, S # {}
    PROVE  Lowest(S) \in S /\ \A fd \in S : Lowest(S) <= fd
<1> DEFINE Less == {ss \in Nat \X Nat : ss[1] < ss[2]}
<1>1. IsWellFoundedOn(Less, Nat)
  BY NatLessThanWellFounded DEF OpToRel
<1>2. PICK x \in S : \A y \in S : ~(<<y, x>> \in Less)
  <2>. HIDE DEF Less
  <2>. QED BY <1>1, WFMin
<1>3. ASSUME NEW y \in S PROVE x <= y
  <2>1. <<y, x>> \in Nat \X Nat /\ <<y, x>>[1] = y /\ <<y, x>>[2] = x
    OBVIOUS
  <2>2. ~(y < x)
    BY <1>2, <2>1
  <2>. QED BY <2>2
<1>. QED BY <1>3 DEF Lowest

LEMMA FreeFd == ASSUME TypeOK, NEW used \in SUBSET Fds, Fds \ used # {}
                PROVE  Lowest(Fds \ used) \in Fds \ used
<1>1. Fds \ used \in SUBSET Nat
  BY LoopAssumption DEF Fds
<1>. QED BY <1>1, LowestIsLeast

LEMMA ListedIs ==
    ASSUME TypeOK
    PROVE  /\ Len(active) \in Nat
           /\ DOMAIN active = 1..Len(active)
           /\ Listed = {active[i] : i \in 1..Len(active)}
           /\ \A i \in 1..Len(active) : active[i] \in All /\ active[i] # NoConn
           /\ Listed \subseteq All
BY LoopAssumption DEF TypeOK, Listed, ToSet

LEMMA PlaceIs ==
    ASSUME TypeOK, Distinct, NEW p \in 1..Len(active)
    PROVE  /\ Place(active[p]) = p
           /\ Following(active[p]) =
                IF p + 1 <= Len(active) THEN active[p + 1] ELSE NoConn
<1>1. p \in DOMAIN active /\ Len(active) \in Nat
  BY ListedIs
<1>2. Place(active[p]) = p
  BY <1>1 DEF Place, Distinct
<1>. QED BY <1>1, <1>2 DEF Following

(* A connection in hand has a place, where the walk is. *)
LEMMA WalkIsAt ==
    ASSUME LoopInv, next # NoConn
    PROVE  \E p \in 1..Len(active) : next = active[p] /\ WalkAt(p)
<1>1. PICK p \in 1..(Len(active) + 1) : WalkAt(p)
  BY DEF LoopInv, WalkInPlace
<1>2. Len(active) \in Nat /\ p <= Len(active)
  BY <1>1, ListedIs DEF WalkAt, LoopInv
<1>. QED BY <1>1, <1>2 DEF WalkAt

(* What a handler does with descriptors concerns those it holds. *)
LEMMA HandlerKeeps ==
    ASSUME TypeOK, NEW used \in SUBSET Fds, held \subseteq used, HandlerFds(used)
    PROVE  /\ open' \in SUBSET Fds /\ held' \in SUBSET Fds
           /\ held' \subseteq open'
           /\ open' \ held' = used \ held
<1>1. CASE open' = used /\ UNCHANGED held
  BY <1>1
<1>2. CASE /\ Fds \ used # {}
           /\ open' = used \cup {Lowest(Fds \ used)}
           /\ held' = held \cup {Lowest(Fds \ used)}
  BY <1>2, FreeFd
<1>3. ASSUME NEW fd \in held, open' = used \ {fd}, held' = held \ {fd}
      PROVE  /\ open' \in SUBSET Fds /\ held' \in SUBSET Fds
             /\ held' \subseteq open'
             /\ open' \ held' = used \ held
  BY <1>3
<1>. QED BY <1>1, <1>2, <1>3 DEF HandlerFds

(* The accounts, the other way round. *)
LEMMA Accounts ==
    FdsAccounted <=>
        /\ open \ held = Socks
        /\ held \subseteq open
        /\ \A c, d \in Listed : sock[c] = sock[d] => c = d
BY DEF FdsAccounted, Socks

-----------------------------------------------------------------------------
(* The first walk *)

(* nc is put into the sets by a descriptor that is its own or was free. *)
LEMMA PutInKeeps ==
    ASSUME LoopInv, NEW nc \in All, NEW fd \in Fds,
           Preparing(nc), AddToSets(nc, fd),
           fd = sock[nc] \/ fd \notin open,
           sock' = [sock EXCEPT ![nc] = fd],
           open' = (open \ {sock[nc]}) \cup {fd},
           try_dup' \in BOOLEAN
    PROVE  LoopInv'
<1>. USE DEF LoopInv
<1>1. PICK p \in 1..Len(active) : nc = active[p] /\ WalkAt(p)
  BY WalkIsAt DEF Preparing
<1>2. /\ nc \in Listed /\ sock[nc] \in Fds
      /\ active' = active /\ Listed' = Listed
      /\ phase' = phase /\ phase = "prepare" /\ due' = due /\ held' = held
  BY <1>1, ListedIs DEF TypeOK, AddToSets, Preparing, Listed
<1>3. \A c \in Listed : /\ sock'[c] = (IF c = nc THEN fd ELSE sock[c])
                        /\ c # nc => sock[c] # sock[nc] /\ sock[c] \in open
                        /\ c # nc => sock[c] # fd
  BY <1>2, ListedIs DEF TypeOK, FdsAccounted
<1>4. /\ read_set' \subseteq read_set \cup {fd}
      /\ write_set' \subseteq write_set \cup {fd}
      /\ read_set' \cup write_set' \subseteq {x \in Fds : x < FdSetSize}
      /\ \A x \in Fds \ {fd} : owner'[x] = owner[x]
      /\ fd \in read_set' \cup write_set' => owner'[fd] = nc
      /\ owner' \in [Fds -> All \cup {NoConn}]
  BY DEF AddToSets, TypeOK
<1>5. next' = IF p + 1 <= Len(active) THEN active[p + 1] ELSE NoConn
  BY <1>1, PlaceIs DEF AddToSets
<1>6. TypeOK'
  <2>1. next' \in All \cup {NoConn}
    BY <1>1, <1>5, ListedIs
  <2>2. /\ sock' \in [All -> Fds \cup {NoFd}]
        /\ \A c \in Listed' : sock'[c] # NoFd
    BY <1>2, <1>3, LoopAssumption DEF TypeOK, Fds
  <2>3. open' \in SUBSET Fds /\ read_set' \in SUBSET Fds /\ write_set' \in SUBSET Fds
    BY <1>4 DEF TypeOK
  <2>. QED BY <1>2, <1>4, <2>1, <2>2, <2>3 DEF TypeOK, AddToSets, netVars
<1>7. FdsAccounted'
  BY <1>2, <1>3 DEF FdsAccounted
<1>8. WalkInPlace'
  <2>1. p + 1 \in 1..(Len(active') + 1)
    BY <1>1, <1>2, ListedIs
  <2>2. \A j \in 1..(p - 1) : active[j] \in Listed /\ active[j] # nc
    BY <1>1, ListedIs DEF Distinct
  <2>3. ASSUME NEW j \in 1..p PROVE OwnFlags(active[j])'
    <3>1. CASE j = p
      BY <1>1, <1>2, <1>3, <1>4, <3>1 DEF OwnFlags
    <3>2. CASE j # p
      <4>1. j \in 1..(p - 1)
        BY <1>1, <3>2, ListedIs
      <4>2. OwnFlags(active[j])
        BY <1>1, <1>2, <4>1 DEF WalkAt
      <4>3. sock'[active[j]] = sock[active[j]] /\ sock[active[j]] # fd
        BY <1>3, <2>2, <4>1
      <4>4. sock[active[j]] \in Fds
        BY <2>2, <4>1, ListedIs DEF TypeOK
      <4>5. sock'[active[j]] \in read_set' \cup write_set' =>
              sock[active[j]] \in read_set \cup write_set
        BY <1>4, <4>3
      <4>6. owner'[sock[active[j]]] = owner[sock[active[j]]]
        BY <1>4, <4>3, <4>4
      <4>. QED BY <1>2, <4>2, <4>3, <4>5, <4>6 DEF OwnFlags
    <3>. QED BY <3>1, <3>2
  <2>4. WalkAt(p + 1)'
    <3>1. 1..(p + 1 - 1) = 1..p
      BY <1>1, ListedIs
    <3>. QED BY <1>1, <1>2, <1>5, <2>3, <3>1 DEF WalkAt
  <2>. QED BY <2>1, <2>4 DEF WalkInPlace
<1>9. Distinct' /\ Listener \in Listed'
  BY <1>2 DEF Distinct
<1>. QED BY <1>2, <1>4, <1>6, <1>7, <1>8, <1>9

LEMMA PrepareInv ==
    ASSUME LoopInv, NEW nc \in All,
           Prepare(nc) \/ PrepareMoved(nc) \/ PrepareTooHigh(nc)
    PROVE  LoopInv'
<1>1. /\ nc \in Listed /\ Preparing(nc)
      /\ sock[nc] \in open /\ sock[nc] \in Fds
      /\ sock \in [All -> Fds \cup {NoFd}]
      /\ try_dup \in BOOLEAN
  <2>1. PICK p \in 1..Len(active) : nc = active[p]
    BY WalkIsAt DEF Preparing, Prepare, PrepareMoved, PrepareTooHigh
  <2>. QED BY <2>1, ListedIs
           DEF LoopInv, TypeOK, FdsAccounted, Prepare, PrepareMoved, PrepareTooHigh
<1>2. CASE Prepare(nc) \/ PrepareTooHigh(nc)
  <2>1. /\ sock' = [sock EXCEPT ![nc] = sock[nc]]
        /\ open' = (open \ {sock[nc]}) \cup {sock[nc]}
        /\ AddToSets(nc, sock[nc])
        /\ try_dup' \in BOOLEAN
    BY <1>1, <1>2 DEF Prepare, PrepareTooHigh
  <2>. QED BY <1>1, <2>1, PutInKeeps
<1>3. CASE PrepareMoved(nc)
  <2>1. PICK fd \in Fds :
          /\ fd \notin open
          /\ sock' = [sock EXCEPT ![nc] = fd]
          /\ open' = (open \ {sock[nc]}) \cup {fd}
          /\ AddToSets(nc, fd)
    BY <1>3, FreeFd DEF PrepareMoved, DupFits, Free, LoopInv, TypeOK
  <2>2. try_dup' \in BOOLEAN
    BY <1>1, <1>3 DEF PrepareMoved
  <2>. QED BY <1>1, <2>1, <2>2, PutInKeeps
<1>. QED BY <1>2, <1>3

LEMMA SelectInv == ASSUME LoopInv, Select PROVE LoopInv'
<1>. USE DEF LoopInv
<1>1. PICK p \in 1..(Len(active) + 1) : WalkAt(p)
  BY DEF WalkInPlace
<1>2. /\ active' = active /\ Listed' = Listed /\ sock' = sock
      /\ next = NoConn /\ phase = "prepare" /\ phase' = "visit"
      /\ due' = due /\ owner' = owner
      /\ read_set' \subseteq read_set /\ write_set' \subseteq write_set
      /\ closing' = closing /\ unsent' = unsent /\ input' = input
      /\ backlog' = backlog /\ open' = open /\ held' = held
      /\ try_dup' = try_dup
  BY DEF Select, connVars, netVars, fdVars, Listed
<1>3. p = Len(active) + 1 /\ Len(active) \in Nat /\ Len(active) >= 1
  BY <1>1, <1>2, ListedIs DEF WalkAt
<1>4. next' = active[1] /\ active[1] \in All
  BY <1>3, ListedIs DEF Select, TypeOK
<1>5. TypeOK'
  BY <1>2, <1>4 DEF TypeOK
<1>6. FdsAccounted' /\ Distinct'
  BY <1>2 DEF FdsAccounted, Distinct
<1>7. WalkInPlace'
  <2>1. due = Listed /\ \A j \in 1..Len(active) : OwnFlags(active[j])
    <3>1. 1..(p - 1) = 1..Len(active)
      BY <1>3
    <3>. QED BY <1>1, <1>2, <3>1 DEF WalkAt
  <2>2. \A c \in due : OwnFlags(c)
    BY <2>1, ListedIs
  <2>3. \A c \in due : OwnFlags(c)'
    BY <1>2, <2>2 DEF OwnFlags
  <2>4. WalkAt(1)'
    BY <1>2, <1>3, <1>4, <2>1, <2>3, ListedIs DEF WalkAt
  <2>5. 1 \in 1..(Len(active') + 1)
    BY <1>2, <1>3
  <2>. QED BY <2>4, <2>5 DEF WalkInPlace
<1>. QED BY <1>2, <1>5, <1>6, <1>7

-----------------------------------------------------------------------------
(* The second walk *)

(* The walk goes on from a connection that stays on the list; its socket and  *)
(* those of the others stay.                                               *)
LEMMA WalkGoesOn ==
    ASSUME LoopInv, next # NoConn, phase # "prepare", phase' = "visit",
           active' = active, sock' = sock,
           read_set' = read_set, write_set' = write_set, owner' = owner,
           next' = Following(next), due' = due \ {next}
    PROVE  WalkInPlace' /\ next' \in All \cup {NoConn} /\ due' \in SUBSET All
<1>. USE DEF LoopInv
<1>1. PICK p \in 1..Len(active) : next = active[p] /\ WalkAt(p)
  BY WalkIsAt
<1>2. Len(active) \in Nat /\ p + 1 \in 1..(Len(active) + 1)
  BY <1>1, ListedIs
<1>3. next' = IF p + 1 <= Len(active) THEN active[p + 1] ELSE NoConn
  BY <1>1, PlaceIs
<1>4. due' = {active[j] : j \in (p + 1)..Len(active)}
  <2>1. due = {active[j] : j \in p..Len(active)}
    BY <1>1 DEF WalkAt
  <2>2. \A j \in p..Len(active) : active[j] = active[p] <=> j = p
    BY <1>1, ListedIs DEF Distinct
  <2>. QED BY <1>1, <1>2, <2>1, <2>2
<1>5. \A c \in due' : OwnFlags(c)'
  BY <1>1 DEF WalkAt, OwnFlags
<1>6. WalkAt(p + 1)'
  BY <1>3, <1>4, <1>5 DEF WalkAt
<1>7. next' \in All \cup {NoConn} /\ due' \in SUBSET All
  BY <1>2, <1>3, <1>4, ListedIs
<1>. QED BY <1>2, <1>6, <1>7 DEF WalkInPlace

(* What a handler does with the flags of its connection. *)
LEMMA HandlerFlags ==
    ASSUME TypeOK, NEW nc \in Conns, Handles(nc)
    PROVE  /\ closing' \in [Conns -> {"no", "flush", "now"}]
           /\ unsent' \in [Conns -> BOOLEAN]
           /\ HandlerFds(open)
<1>1. closing \in [Conns -> {"no", "flush", "now"}] /\ unsent \in [Conns -> BOOLEAN]
  BY DEF TypeOK
<1>2. /\ [closing EXCEPT ![nc] = "now"] \in [Conns -> {"no", "flush", "now"}]
      /\ [closing EXCEPT ![nc] = "flush"] \in [Conns -> {"no", "flush", "now"}]
      /\ [unsent EXCEPT ![nc] = TRUE] \in [Conns -> BOOLEAN]
  BY <1>1
<1>. QED BY <1>1, <1>2 DEF Handles

(* A connection is visited: its handlers may run and its flags change. *)
LEMMA InVisit ==
    ASSUME LoopInv, NEW nc \in Conns, next = nc,
           phase # "prepare", phase' \in {"receive", "send"},
           UNCHANGED <<active, sock, backlog, next, walkVars, due>>,
           closing' \in [Conns -> {"no", "flush", "now"}],
           unsent' \in [Conns -> BOOLEAN], input' \in [Conns -> Inputs],
           HandlerFds(open) \/ UNCHANGED fdVars
    PROVE  LoopInv'
<1>. USE DEF LoopInv
<1>1. /\ phase' # "prepare"
      /\ active' = active /\ Listed' = Listed /\ sock' = sock
      /\ next' = next /\ due' = due /\ owner' = owner /\ backlog' = backlog
      /\ read_set' = read_set /\ write_set' = write_set /\ try_dup' = try_dup
  BY DEF walkVars, Listed
<1>2. HandlerFds(open) \/ (open' = open /\ held' = held)
  BY DEF fdVars
<1>4. /\ open' \in SUBSET Fds /\ held' \in SUBSET Fds
      /\ held' \subseteq open'
      /\ open' \ held' = open \ held
  BY <1>2, Accounts, HandlerKeeps DEF TypeOK
<1>5. TypeOK'
  BY <1>1, <1>4 DEF TypeOK
<1>6. FdsAccounted'
  BY <1>1, <1>4 DEF FdsAccounted
<1>7. WalkInPlace'
  <2>1. PICK p \in 1..(Len(active) + 1) : WalkAt(p)
    BY DEF WalkInPlace
  <2>2. WalkAt(p)'
    BY <1>1, <2>1 DEF WalkAt, OwnFlags
  <2>. QED BY <1>1, <2>2 DEF WalkInPlace
<1>8. Distinct' /\ Listener \in Listed'
  BY <1>1 DEF Distinct
<1>. QED BY <1>1, <1>5, <1>6, <1>7, <1>8

LEMMA VisitReadInv ==
    ASSUME LoopInv, NEW nc \in Conns,
           VisitRead(nc) \/ ReceiveData(nc) \/ ReceiveNoMore(nc)
    PROVE  LoopInv'
<1>0. /\ TypeOK /\ input \in [Conns -> Inputs] /\ unsent \in [Conns -> BOOLEAN]
      /\ closing \in [Conns -> {"no", "flush", "now"}]
  BY DEF LoopInv, TypeOK
<1>1. CASE VisitRead(nc)
  <2>1. /\ next = nc /\ phase # "prepare" /\ phase' \in {"receive", "send"}
        /\ UNCHANGED <<active, sock, backlog, next, walkVars, due>>
        /\ Handles(nc) /\ input' = input
    BY <1>1 DEF VisitRead, Visiting, netVars
  <2>. QED BY <1>0, <2>1, HandlerFlags, InVisit
<1>2. CASE ReceiveData(nc)
  <2>1. /\ next = nc /\ phase # "prepare" /\ phase' \in {"receive", "send"}
        /\ UNCHANGED <<active, sock, backlog, next, walkVars, due>>
        /\ Handles(nc)
        /\ input' = [input EXCEPT ![nc] = input[nc] \ {"data"}]
    BY <1>2 DEF ReceiveData, Receiving
  <2>2. input[nc] \ {"data"} \in Inputs
    BY <1>0 DEF Inputs
  <2>3. input' \in [Conns -> Inputs]
    BY <1>0, <2>1, <2>2
  <2>. QED BY <1>0, <2>1, <2>3, HandlerFlags, InVisit
<1>3. CASE ReceiveNoMore(nc)
  <2>1. /\ next = nc /\ phase # "prepare" /\ phase' \in {"receive", "send"}
        /\ UNCHANGED <<active, sock, backlog, next, walkVars, due>>
        /\ unsent' = unsent /\ input' = input /\ UNCHANGED fdVars
        /\ \/ closing' = closing
           \/ closing' = [closing EXCEPT ![nc] = "flush"]
           \/ closing' = [closing EXCEPT ![nc] = "now"]
    BY <1>3 DEF ReceiveNoMore, Receiving, netVars
  <2>2. closing' \in [Conns -> {"no", "flush", "now"}]
    BY <1>0, <2>1
  <2>. QED BY <1>0, <2>1, <2>2, InVisit
<1>. QED BY <1>1, <1>2, <1>3

LEMMA VisitSendInv ==
    ASSUME LoopInv, NEW nc \in Conns, VisitSend(nc)
    PROVE  LoopInv'
<1>. USE DEF LoopInv
<1>1. /\ next = nc /\ phase = "send" /\ phase' = "visit"
      /\ active' = active /\ Listed' = Listed /\ sock' = sock
      /\ next' = Following(next) /\ due' = due \ {next} /\ owner' = owner
      /\ backlog' = backlog /\ input' = input /\ try_dup' = try_dup
      /\ read_set' = read_set /\ write_set' = write_set
      /\ nc # NoConn
  BY LoopAssumption DEF VisitSend, walkVars, netVars, Listed, All
<1>2. \/ HandlerFds(open)
      \/ open' = open /\ held' = held
  BY DEF VisitSend, Send, Handles, fdVars
<1>3. /\ closing' \in [Conns -> {"no", "flush", "now"}]
      /\ unsent' \in [Conns -> BOOLEAN]
  <2>1. TypeOK
    OBVIOUS
  <2>2. \/ Handles(nc)
        \/ unsent' = [unsent EXCEPT ![nc] = FALSE] /\ closing' = closing
        \/ unsent' = unsent /\ closing' = [closing EXCEPT ![nc] = "now"]
        \/ unsent' = unsent /\ closing' = closing
    BY DEF VisitSend, Send
  <2>3. CASE Handles(nc)
    BY <2>1, <2>3, HandlerFlags
  <2>. QED BY <2>1, <2>2, <2>3 DEF TypeOK
<1>4. /\ open' \in SUBSET Fds /\ held' \in SUBSET Fds
      /\ held' \subseteq open'
      /\ open' \ held' = open \ held
  BY <1>2, Accounts, HandlerKeeps DEF TypeOK
<1>5. WalkInPlace' /\ next' \in All \cup {NoConn} /\ due' \in SUBSET All
  BY <1>1, WalkGoesOn
<1>6. TypeOK'
  BY <1>1, <1>3, <1>4, <1>5 DEF TypeOK
<1>7. FdsAccounted'
  BY <1>1, <1>4 DEF FdsAccounted
<1>8. Distinct' /\ Listener \in Listed'
  BY <1>1 DEF Distinct
<1>. QED BY <1>1, <1>5, <1>6, <1>7, <1>8

(* A list without the connection at place p. *)
LEMMA Unlinked ==
    ASSUME TypeOK, NEW p \in 1..Len(active)
    PROVE  /\ RemoveAt(active, p) \in Seq(All)
           /\ Len(RemoveAt(active, p)) = Len(active) - 1
           /\ \A j \in 1..(Len(active) - 1) :
                RemoveAt(active, p)[j] =
                  IF j < p THEN active[j] ELSE active[j + 1]
<1>. DEFINE before == SubSeq(active, 1, p - 1)
            after == SubSeq(active, p + 1, Len(active))
<1>1. Len(active) \in Nat /\ active \in Seq(All)
  BY DEF TypeOK
<1>2. /\ before \in Seq(All) /\ Len(before) = p - 1
      /\ \A j \in 1..(p - 1) : before[j] = active[j]
  BY <1>1, SubSeqProperties
<1>3. /\ after \in Seq(All) /\ Len(after) = Len(active) - p
      /\ \A j \in 1..(Len(active) - p) : after[j] = active[j + p]
  BY <1>1, SubSeqProperties
<1>. HIDE DEF before, after
<1>4. /\ before \o after \in Seq(All)
      /\ Len(before \o after) = Len(before) + Len(after)
      /\ \A j \in 1..(Len(before) + Len(after)) :
           (before \o after)[j] =
             IF j <= Len(before) THEN before[j] ELSE after[j - Len(before)]
  <2>1. before \in Seq(All) /\ after \in Seq(All)
    BY <1>2, <1>3
  <2>. QED BY <2>1, ConcatProperties
<1>5. Len(before) + Len(after) = Len(active) - 1
  BY <1>1, <1>2, <1>3
<1>6. ASSUME NEW j \in 1..(Len(active) - 1)
      PROVE  (before \o after)[j] = IF j < p THEN active[j] ELSE active[j + 1]
  <2>1. CASE j < p
    <3>1. j \in 1..(p - 1) /\ j <= Len(before) /\ j \in 1..(Len(before) + Len(after))
      BY <1>1, <1>2, <1>5, <2>1
    <3>. QED BY <1>2, <1>4, <2>1, <3>1
  <2>2. CASE ~(j < p)
    <3>1. PICK k \in 1..(Len(active) - p) : k = j - (p - 1)
      BY <1>1, <2>2
    <3>2. /\ ~(j <= Len(before)) /\ j - Len(before) = k
          /\ j \in 1..(Len(before) + Len(after)) /\ k + p = j + 1
      BY <1>1, <1>2, <1>5, <2>2, <3>1
    <3>3. (before \o after)[j] = after[k]
      BY <1>4, <3>2
    <3>4. after[k] = active[j + 1]
      BY <1>3, <3>2
    <3>. QED BY <2>2, <3>3, <3>4
  <2>. QED BY <2>1, <2>2
<1>. QED BY <1>4, <1>5, <1>6 DEF RemoveAt, before, after

LEMMA VisitCloseInv ==
    ASSUME LoopInv, NEW nc \in Conns, VisitClose(nc)
    PROVE  LoopInv'
<1>. USE DEF LoopInv
<1>1. /\ next = nc /\ nc # NoConn /\ phase = "visit" /\ phase' = "visit"
      /\ active' = RemoveAt(active, Place(nc))
      /\ sock' = [sock EXCEPT ![nc] = NoFd]
      /\ HandlerFds(open \ {sock[nc]})
      /\ input' = [input EXCEPT ![nc] = {}]
      /\ next' = Following(nc) /\ due' = due \ {nc}
      /\ owner' = owner /\ backlog' = backlog /\ try_dup' = try_dup
      /\ read_set' = read_set /\ write_set' = write_set
      /\ closing' = closing /\ unsent' = unsent
  BY DEF VisitClose, Visiting, Visited, Unlink, walkVars
<1>2. PICK p \in 1..Len(active) : nc = active[p] /\ WalkAt(p)
  BY <1>1, WalkIsAt
<1>3. /\ Len(active) \in Nat
      /\ Place(nc) = p
      /\ next' = IF p + 1 <= Len(active) THEN active[p + 1] ELSE NoConn
  BY <1>1, <1>2, PlaceIs, ListedIs
<1>4. /\ active' \in Seq(All)
      /\ Len(active') = Len(active) - 1
      /\ DOMAIN active' = 1..(Len(active) - 1)
      /\ \A j \in 1..(Len(active) - 1) :
           active'[j] = IF j < p THEN active[j] ELSE active[j + 1]
  <2>1. active' = RemoveAt(active, p)
    BY <1>1, <1>3
  <2>2. /\ active' \in Seq(All)
        /\ Len(active') = Len(active) - 1
        /\ \A j \in 1..(Len(active) - 1) :
             active'[j] = IF j < p THEN active[j] ELSE active[j + 1]
    BY <2>1, Unlinked
  <2>. QED BY <1>3, <2>2
<1>5. Distinct'
  <2>. DEFINE from(j) == IF j < p THEN j ELSE j + 1
  <2>1. SUFFICES ASSUME NEW i \in 1..(Len(active) - 1), NEW j \in 1..(Len(active) - 1),
                        active'[i] = active'[j]
                 PROVE  i = j
    BY <1>4 DEF Distinct
  <2>2. from(i) \in 1..Len(active) /\ from(j) \in 1..Len(active)
    BY <1>3
  <2>3. active'[i] = active[from(i)] /\ active'[j] = active[from(j)]
    BY <1>4
  <2>4. from(i) = from(j)
    <3>. HIDE DEF from
    <3>. QED BY <2>1, <2>2, <2>3, ListedIs DEF Distinct
  <2>. QED BY <1>3, <2>4
<1>6. Listed' = Listed \ {nc}
  <2>1. Listed' = {active'[j] : j \in 1..(Len(active) - 1)}
    BY <1>4 DEF Listed, ToSet
  <2>2. ASSUME NEW j \in 1..(Len(active) - 1) PROVE active'[j] \in Listed \ {nc}
    <3>1. j \in 1..Len(active) /\ j + 1 \in 1..Len(active)
      BY <1>3
    <3>2. j < p => active[j] # active[p]
      BY <1>2, <3>1, ListedIs DEF Distinct
    <3>3. ~(j < p) => active[j + 1] # active[p]
      BY <1>2, <1>3, <3>1, ListedIs DEF Distinct
    <3>. QED BY <1>2, <1>4, <3>1, <3>2, <3>3, ListedIs
  <2>3. ASSUME NEW c \in Listed \ {nc}
        PROVE  \E j \in 1..(Len(active) - 1) : c = active'[j]
    <3>1. PICK i \in 1..Len(active) : c = active[i] /\ i # p
      BY <1>2, ListedIs
    <3>2. CASE i < p
      BY <1>2, <1>3, <1>4, <3>1, <3>2
    <3>3. CASE i > p
      <4>1. i - 1 \in 1..(Len(active) - 1) /\ ~(i - 1 < p) /\ i - 1 + 1 = i
        BY <1>2, <1>3, <3>3
      <4>. QED BY <1>4, <3>1, <4>1
    <3>. QED BY <1>2, <3>1, <3>2, <3>3
  <2>. QED BY <2>1, <2>2, <2>3
<1>7. /\ nc \in Listed /\ nc \in All /\ sock[nc] \in Fds
      /\ \A c \in Listed' : sock'[c] = sock[c] /\ sock[c] # sock[nc]
  BY <1>1, <1>2, <1>6, ListedIs DEF TypeOK, FdsAccounted
<1>8. /\ open' \in SUBSET Fds /\ held' \in SUBSET Fds
      /\ held' \subseteq open'
      /\ open' \ held' = (open \ {sock[nc]}) \ held
  <2>1. open \ {sock[nc]} \in SUBSET Fds /\ held \subseteq open \ {sock[nc]}
    BY <1>7 DEF TypeOK, FdsAccounted
  <2>. QED BY <1>1, <2>1, HandlerKeeps
<1>9. FdsAccounted'
  <2>1. open' \ held' = {sock[c] : c \in Listed \ {nc}}
    BY <1>6, <1>7, <1>8 DEF FdsAccounted
  <2>2. {sock'[c] : c \in Listed'} = {sock[c] : c \in Listed \ {nc}}
    BY <1>6, <1>7
  <2>3. \A c, d \in Listed' : sock'[c] = sock'[d] => c = d
    BY <1>6, <1>7 DEF FdsAccounted
  <2>. QED BY <1>8, <2>1, <2>2, <2>3 DEF FdsAccounted
<1>10. due' = {active'[j] : j \in p..(Len(active) - 1)} /\ due' \subseteq Listed'
  <2>1. due = {active[j] : j \in p..Len(active)}
    BY <1>1, <1>2 DEF WalkAt
  <2>2. due' = {active[j] : j \in (p + 1)..Len(active)}
    <3>1. \A j \in p..Len(active) : active[j] = active[p] <=> j = p
      BY <1>2, ListedIs DEF Distinct
    <3>. QED BY <1>1, <1>2, <1>3, <2>1, <3>1
  <2>3. \A j \in p..(Len(active) - 1) :
          active'[j] = active[j + 1] /\ j + 1 \in (p + 1)..Len(active)
    BY <1>2, <1>3, <1>4
  <2>4. \A i \in (p + 1)..Len(active) :
          active[i] = active'[i - 1] /\ i - 1 \in p..(Len(active) - 1)
    <3>1. ASSUME NEW i \in (p + 1)..Len(active)
          PROVE  active[i] = active'[i - 1] /\ i - 1 \in p..(Len(active) - 1)
      <4>1. i - 1 \in 1..(Len(active) - 1) /\ ~(i - 1 < p) /\ i - 1 + 1 = i
        BY <1>2, <1>3
      <4>. QED BY <1>4, <4>1
    <3>. QED BY <3>1
  <2>5. due' \subseteq Listed'
    BY <1>1, <1>3, <1>6, <2>1, ListedIs
  <2>. QED BY <2>2, <2>3, <2>4, <2>5
<1>11. next' = IF p <= Len(active') THEN active'[p] ELSE NoConn
  BY <1>2, <1>3, <1>4
<1>12. WalkInPlace'
  <2>1. \A c \in due' : OwnFlags(c)'
    BY <1>1, <1>2, <1>7, <1>10 DEF WalkAt, OwnFlags
  <2>2. WalkAt(p)'
    BY <1>1, <1>4, <1>10, <1>11, <2>1 DEF WalkAt
  <2>3. p \in 1..(Len(active') + 1)
    BY <1>2, <1>3, <1>4
  <2>. QED BY <2>2, <2>3 DEF WalkInPlace
<1>13. TypeOK'
  <2>1. next' \in All \cup {NoConn}
    BY <1>2, <1>3, ListedIs
  <2>2. sock' \in [All -> Fds \cup {NoFd}] /\ \A c \in Listed' : sock'[c] # NoFd
    BY <1>1, <1>6, <1>7 DEF TypeOK
  <2>. QED BY <1>1, <1>4, <1>8, <2>1, <2>2 DEF TypeOK, Inputs
<1>14. Listener \in Listed'
  BY <1>6, LoopAssumption
<1>. QED BY <1>1, <1>5, <1>9, <1>12, <1>13, <1>14

(* A list with a new head. *)
LEMMA Headed ==
    ASSUME TypeOK, NEW nc \in All
    PROVE  /\ <<nc>> \o active \in Seq(All)
           /\ Len(<<nc>> \o active) = Len(active) + 1
           /\ (<<nc>> \o active)[1] = nc
           /\ \A j \in 1..Len(active) : (<<nc>> \o active)[j + 1] = active[j]
<1>1. /\ <<nc>> \in Seq(All) /\ Len(<<nc>>) = 1 /\ <<nc>>[1] = nc
      /\ active \in Seq(All) /\ Len(active) \in Nat
  BY DEF TypeOK
<1>2. /\ <<nc>> \o active \in Seq(All)
      /\ Len(<<nc>> \o active) = Len(<<nc>>) + Len(active)
      /\ \A j \in 1..(Len(<<nc>>) + Len(active)) :
           (<<nc>> \o active)[j] =
             IF j <= Len(<<nc>>) THEN <<nc>>[j] ELSE active[j - Len(<<nc>>)]
  BY <1>1, ConcatProperties
<1>3. ASSUME NEW j \in 1..Len(active)
      PROVE  (<<nc>> \o active)[j + 1] = active[j]
  <2>1. /\ j + 1 \in 1..(Len(<<nc>>) + Len(active))
        /\ ~(j + 1 <= Len(<<nc>>)) /\ j + 1 - Len(<<nc>>) = j
    BY <1>1
  <2>. QED BY <1>2, <2>1
<1>. QED BY <1>1, <1>2, <1>3

LEMMA AcceptInv ==
    ASSUME LoopInv, NEW nc \in Conns \ Listed,
           Visiting(Listener), Free # {}, Accept(nc), Visited(Listener),
           UNCHANGED <<held, input>>
    PROVE  LoopInv'
<1>. USE DEF LoopInv
<1>1. /\ next = Listener /\ Listener # NoConn /\ nc # NoConn
      /\ phase = "visit" /\ phase' = "visit"
      /\ next' = Following(Listener) /\ due' = due \ {Listener}
      /\ owner' = owner /\ try_dup' = try_dup /\ backlog' = FALSE
      /\ read_set' = read_set /\ write_set' = write_set
      /\ held' = held /\ input' = input
      /\ nc \in All /\ nc \notin Listed
  BY LoopAssumption DEF Visiting, Visited, Accept, walkVars, All
<1>2. PICK fd \in Fds \ open :
        /\ sock' = [sock EXCEPT ![nc] = fd]
        /\ open' = open \cup {fd}
  BY FreeFd DEF Accept, Free, TypeOK
<1>3. PICK p \in 1..Len(active) : Listener = active[p] /\ WalkAt(p)
  BY <1>1, WalkIsAt
<1>4. /\ Len(active) \in Nat
      /\ next' = IF p + 1 <= Len(active) THEN active[p + 1] ELSE NoConn
  BY <1>1, <1>3, PlaceIs, ListedIs
<1>5. /\ active' \in Seq(All)
      /\ Len(active') = Len(active) + 1
      /\ DOMAIN active' = 1..(Len(active) + 1)
      /\ active'[1] = nc
      /\ \A j \in 1..Len(active) : active'[j + 1] = active[j]
  <2>1. active' = <<nc>> \o active
    BY DEF Accept
  <2>2. /\ active' \in Seq(All)
        /\ Len(active') = Len(active) + 1
        /\ active'[1] = nc
        /\ \A j \in 1..Len(active) : active'[j + 1] = active[j]
    BY <1>1, <2>1, Headed
  <2>. QED BY <1>4, <2>2
<1>6. \A i \in 1..(Len(active) + 1) :
        i # 1 => /\ i - 1 \in 1..Len(active)
                 /\ active'[i] = active[i - 1]
  <2>1. ASSUME NEW i \in 1..(Len(active) + 1), i # 1
        PROVE  /\ i - 1 \in 1..Len(active)
               /\ active'[i] = active[i - 1]
    <3>1. PICK j \in 1..Len(active) : i - 1 = j /\ j + 1 = i
      BY <1>4, <2>1
    <3>2. active'[j + 1] = active[j]
      BY <1>5
    <3>3. active'[i] = active[j]
      BY <3>1, <3>2
    <3>4. active[i - 1] = active[j]
      BY <3>1
    <3>5. i - 1 \in 1..Len(active)
      BY <3>1
    <3>. QED BY <3>1, <3>3, <3>4
  <2>. QED BY <2>1
<1>7. Listed' = Listed \cup {nc}
  <2>1. Listed' = {active'[j] : j \in 1..(Len(active) + 1)}
    BY <1>5 DEF Listed, ToSet
  <2>2. \A j \in 1..Len(active) : j + 1 \in 1..(Len(active) + 1)
    BY <1>4
  <2>3. 1 \in 1..(Len(active) + 1)
    BY <1>4
  <2>. QED BY <1>5, <1>6, <2>1, <2>2, <2>3, ListedIs
<1>8. Distinct'
  <2>1. ASSUME NEW i \in 1..(Len(active) + 1), NEW j \in 1..(Len(active) + 1),
               active'[i] = active'[j]
        PROVE  i = j
    <3>1. CASE i # 1 /\ j # 1
      <4>1. /\ i - 1 \in 1..Len(active) /\ j - 1 \in 1..Len(active)
            /\ active[i - 1] = active[j - 1]
        BY <1>6, <2>1, <3>1
      <4>2. i - 1 = j - 1
        BY <4>1, ListedIs DEF Distinct
      <4>. QED BY <1>4, <4>2
    <3>2. \A k \in 1..(Len(active) + 1) : k # 1 => active'[k] # nc
      BY <1>1, <1>6, ListedIs
    <3>. QED BY <1>5, <2>1, <3>1, <3>2
  <2>. QED BY <1>5, <2>1 DEF Distinct
<1>9. /\ \A c \in Listed : c # nc /\ sock'[c] = sock[c] /\ sock[c] \in open
      /\ sock'[nc] = fd
  BY <1>1, <1>2, ListedIs DEF TypeOK, FdsAccounted
<1>10. FdsAccounted'
  <2>1. {sock'[c] : c \in Listed'} = {sock[c] : c \in Listed} \cup {fd}
    BY <1>7, <1>9
  <2>2. \A c, d \in Listed' : sock'[c] = sock'[d] => c = d
    BY <1>2, <1>7, <1>9 DEF FdsAccounted
  <2>3. held \subseteq open /\ fd \notin held
    BY <1>2 DEF FdsAccounted
  <2>4. /\ open' = {sock[c] : c \in Listed} \cup {fd} \cup held
        /\ held \cap ({sock[c] : c \in Listed} \cup {fd}) = {}
    BY <1>2, <2>3 DEF FdsAccounted
  <2>5. open' = {sock'[c] : c \in Listed'} \cup held'
    BY <1>1, <2>1, <2>4
  <2>6. held' \cap {sock'[c] : c \in Listed'} = {}
    BY <1>1, <2>1, <2>4
  <2>. QED BY <2>2, <2>5, <2>6 DEF FdsAccounted
<1>11. due' = {active'[j] : j \in (p + 2)..(Len(active) + 1)} /\ due' \subseteq Listed
  <2>1. due = {active[j] : j \in p..Len(active)}
    BY <1>1, <1>3 DEF WalkAt
  <2>2. due' = {active[j] : j \in (p + 1)..Len(active)}
    <3>1. \A j \in p..Len(active) : active[j] = active[p] <=> j = p
      BY <1>3, ListedIs DEF Distinct
    <3>. QED BY <1>1, <1>3, <1>4, <2>1, <3>1
  <2>3. \A j \in (p + 1)..Len(active) :
          active'[j + 1] = active[j] /\ j + 1 \in (p + 2)..(Len(active) + 1)
    BY <1>3, <1>4, <1>5
  <2>4. \A i \in (p + 2)..(Len(active) + 1) :
          active'[i] = active[i - 1] /\ i - 1 \in (p + 1)..Len(active)
    BY <1>3, <1>4, <1>6
  <2>5. due' \subseteq Listed
    BY <1>3, <1>4, <2>2, ListedIs
  <2>. QED BY <2>2, <2>3, <2>4, <2>5
<1>12. next' = IF p + 2 <= Len(active') THEN active'[p + 2] ELSE NoConn
  <2>1. CASE p + 1 <= Len(active)
    <3>1. p + 1 \in 1..Len(active) /\ p + 1 + 1 = p + 2 /\ p + 2 <= Len(active')
      BY <1>3, <1>4, <1>5, <2>1
    <3>. QED BY <1>4, <1>5, <2>1, <3>1
  <2>2. CASE ~(p + 1 <= Len(active))
    <3>1. ~(p + 2 <= Len(active'))
      BY <1>3, <1>4, <1>5, <2>2
    <3>. QED BY <1>4, <2>2, <3>1
  <2>. QED BY <2>1, <2>2
<1>13. WalkInPlace'
  <2>1. \A c \in due' : OwnFlags(c)'
    BY <1>1, <1>3, <1>9, <1>11 DEF WalkAt, OwnFlags
  <2>2. WalkAt(p + 2)'
    BY <1>1, <1>5, <1>11, <1>12, <2>1 DEF WalkAt
  <2>3. p + 2 \in 1..(Len(active') + 1)
    BY <1>3, <1>4, <1>5
  <2>. QED BY <2>2, <2>3 DEF WalkInPlace
<1>14. TypeOK'
  <2>1. next' \in All \cup {NoConn}
    BY <1>3, <1>4, ListedIs
  <2>2. sock' \in [All -> Fds \cup {NoFd}] /\ \A c \in Listed' : sock'[c] # NoFd
    <3>1. fd # NoFd
      BY <1>2, LoopAssumption DEF Fds
    <3>2. sock' \in [All -> Fds \cup {NoFd}]
      BY <1>2 DEF TypeOK
    <3>. QED BY <1>7, <1>9, <3>1, <3>2 DEF TypeOK
  <2>3. closing' \in [Conns -> {"no", "flush", "now"}] /\ unsent' \in [Conns -> BOOLEAN]
    BY DEF Accept, TypeOK
  <2>. QED BY <1>1, <1>2, <1>5, <2>1, <2>2, <2>3 DEF TypeOK
<1>. QED BY <1>1, <1>7, <1>8, <1>10, <1>13, <1>14

LEMMA VisitListenerInv == ASSUME LoopInv, VisitListener PROVE LoopInv'
<1>. USE DEF LoopInv
<1>1. CASE \E nc \in Conns \ Listed : Free # {} /\ Accept(nc)
  BY <1>1, AcceptInv DEF VisitListener
<1>2. CASE TurnAway \/ UNCHANGED <<connVars, open, backlog>>
  <2>1. /\ next = Listener /\ next # NoConn /\ phase = "visit" /\ phase' = "visit"
        /\ active' = active /\ Listed' = Listed /\ sock' = sock
        /\ closing' = closing /\ unsent' = unsent
        /\ next' = Following(next) /\ due' = due \ {next} /\ owner' = owner
        /\ backlog' \in {FALSE, backlog} /\ input' = input /\ try_dup' = try_dup
        /\ read_set' = read_set /\ write_set' = write_set
        /\ open' = open /\ held' = held
    BY <1>2, LoopAssumption
       DEF VisitListener, TurnAway, Visiting, Visited, walkVars, connVars, Listed, All
  <2>2. WalkInPlace' /\ next' \in All \cup {NoConn} /\ due' \in SUBSET All
    BY <2>1, WalkGoesOn
  <2>3. TypeOK'
    BY <2>1, <2>2 DEF TypeOK
  <2>. QED BY <2>1, <2>2, <2>3 DEF FdsAccounted, Distinct
<1>. QED BY <1>1, <1>2 DEF VisitListener

LEMMA RoundBeginsInv == ASSUME LoopInv, RoundBegins PROVE LoopInv'
<1>. USE DEF LoopInv
<1>1. /\ active' = active /\ Listed' = Listed /\ sock' = sock
      /\ closing' = closing /\ unsent' = unsent
      /\ input' = input /\ backlog' = backlog
      /\ open' = open /\ held' = held
      /\ phase' = "prepare" /\ try_dup' = TRUE /\ due' = Listed
      /\ read_set' = {} /\ write_set' = {}
      /\ owner' = [fd \in Fds |-> NoConn]
  BY DEF RoundBegins, connVars, netVars, fdVars, Listed
<1>2. Len(active) \in Nat /\ Len(active) >= 1 /\ active[1] \in All
  BY ListedIs
<1>3. next' = active[1]
  BY <1>2 DEF RoundBegins, TypeOK
<1>4. TypeOK'
  BY <1>1, <1>2, <1>3, ListedIs DEF TypeOK
<1>5. WalkAt(1)'
  BY <1>1, <1>2, <1>3 DEF WalkAt
<1>6. WalkInPlace'
  <2>1. 1 \in 1..(Len(active') + 1)
    BY <1>1, <1>2
  <2>. QED BY <1>5, <2>1 DEF WalkInPlace
<1>. QED BY <1>1, <1>4, <1>6 DEF FdsAccounted, Distinct

-----------------------------------------------------------------------------
(* The peers, and nobody *)

LEMMA PeersInv ==
    ASSUME LoopInv,
           UNCHANGED <<connVars, fdVars, phase, next, walkVars, due>>,
           input' \in [Conns -> Inputs], backlog' \in BOOLEAN
    PROVE  LoopInv'
<1>. USE DEF LoopInv
<1>1. /\ active' = active /\ Listed' = Listed /\ sock' = sock
      /\ closing' = closing /\ unsent' = unsent
      /\ open' = open /\ held' = held
      /\ phase' = phase /\ next' = next /\ due' = due /\ try_dup' = try_dup
      /\ read_set' = read_set /\ write_set' = write_set /\ owner' = owner
  BY DEF connVars, fdVars, walkVars, Listed
<1>2. TypeOK'
  BY <1>1 DEF TypeOK
<1>3. WalkInPlace'
  <2>1. PICK p \in 1..(Len(active) + 1) : WalkAt(p)
    BY DEF WalkInPlace
  <2>2. WalkAt(p)'
    BY <1>1, <2>1 DEF WalkAt, OwnFlags
  <2>. QED BY <1>1, <2>2 DEF WalkInPlace
<1>. QED BY <1>1, <1>2, <1>3 DEF FdsAccounted, Distinct

LEMMA InitLoopInv == Init => LoopInv
<1>. SUFFICES ASSUME Init PROVE LoopInv
  OBVIOUS
<1>1. /\ active = <<Listener>> /\ Len(active) = 1 /\ active[1] = Listener
      /\ Listed = {Listener}
  BY DEF Init, Listed, ToSet
<1>2. 0 \in Fds /\ Listener \in All /\ Listener # NoConn
  BY LoopAssumption DEF Fds, All
<1>3. sock[Listener] = 0
  BY <1>2 DEF Init
<1>4. TypeOK
  <2>1. active \in Seq(All)
    BY <1>1, <1>2
  <2>2. sock \in [All -> Fds \cup {NoFd}]
    BY <1>2 DEF Init
  <2>3. \A c \in Listed : sock[c] # NoFd
    BY <1>1, <1>3, LoopAssumption
  <2>4. /\ closing \in [Conns -> {"no", "flush", "now"}]
        /\ unsent \in [Conns -> BOOLEAN]
        /\ input \in [Conns -> Inputs]
        /\ owner \in [Fds -> All \cup {NoConn}]
    BY DEF Init, Inputs
  <2>. QED BY <1>2, <2>1, <2>2, <2>3, <2>4 DEF Init, TypeOK
<1>5. FdsAccounted
  BY <1>1, <1>3 DEF Init, FdsAccounted
<1>6. Distinct
  BY <1>1 DEF Distinct
<1>7. WalkInPlace
  <2>1. WalkAt(1)
    BY <1>1 DEF WalkAt, Init
  <2>. QED BY <1>1, <2>1 DEF WalkInPlace
<1>. QED BY <1>1, <1>4, <1>5, <1>6, <1>7 DEF LoopInv, Init

LEMMA NextLoopInv == LoopInv /\ [Next]_vars => LoopInv'
<1>. SUFFICES ASSUME LoopInv, [Next]_vars PROVE LoopInv'
  OBVIOUS
<1>1. CASE Poll
  BY <1>1, PrepareInv, SelectInv, VisitCloseInv, VisitReadInv, VisitSendInv,
     VisitListenerInv, RoundBeginsInv DEF Poll
<1>2. CASE PeerConnects
  <2>1. input' \in [Conns -> Inputs] /\ backlog' \in BOOLEAN
    BY <1>2 DEF PeerConnects, LoopInv, TypeOK
  <2>. QED BY <1>2, <2>1, PeersInv DEF PeerConnects
<1>3. ASSUME NEW nc \in Conns, PeerSends(nc) PROVE LoopInv'
  <2>0. input \in [Conns -> Inputs] /\ backlog' \in BOOLEAN
    BY <1>3 DEF PeerSends, LoopInv, TypeOK
  <2>1. input' \in [Conns -> Inputs] /\ backlog' \in BOOLEAN
    <3>1. PICK what \in {"data", "end", "reset"} :
            input' = [input EXCEPT ![nc] = input[nc] \cup {what}]
      BY <1>3 DEF PeerSends
    <3>2. input[nc] \in {{}, {"data"}}
      BY <1>3, <2>0 DEF PeerSends, Inputs
    <3>3. input[nc] \cup {what} \in Inputs
      <4>1. CASE input[nc] = {}
        BY <4>1 DEF Inputs
      <4>2. CASE input[nc] = {"data"}
        BY <4>2 DEF Inputs
      <4>. QED BY <3>2, <4>1, <4>2
    <3>. QED BY <2>0, <3>1, <3>3
  <2>. QED BY <1>3, <2>1, PeersInv DEF PeerSends
<1>4. CASE UNCHANGED vars
  <2>1. input' \in [Conns -> Inputs] /\ backlog' \in BOOLEAN
    BY <1>4 DEF vars, netVars, LoopInv, TypeOK
  <2>. QED BY <1>4, <2>1, PeersInv DEF vars
<1>. QED BY <1>1, <1>2, <1>3, <1>4 DEF Next

-----------------------------------------------------------------------------

(* The walks keep their place: from the first connection to the last, the    *)
(* flags in the sets are those of the connections still to come.           *)
THEOREM LoopInvariance == Spec => []LoopInv
BY InitLoopInv, NextLoopInv, PTL DEF Spec

(* The variables of the loop keep their types; a connection on the list has   *)
(* a descriptor.                                                           *)
THEOREM LoopTypeCorrect == Spec => []TypeOK
<1>1. LoopInv => TypeOK
  BY DEF LoopInv
<1>. QED BY <1>1, LoopInvariance, PTL

(* However accept, close, dup2 and the handlers' fopen and fclose come, no    *)
(* descriptor is lost, closed twice or used by two.                        *)
THEOREM DescriptorsAccounted == Spec => []FdsAccounted
<1>1. LoopInv => FdsAccounted
  BY DEF LoopInv
<1>. QED BY <1>1, LoopInvariance, PTL

(* mg_mgr_poll never follows the next pointer of a freed connection, and it   *)
(* comes to every connection that was listed when its round began.         *)
THEOREM NobodyIsSkipped == Spec => []RoundSound
<1>1. LoopInv => RoundSound
  <2>. SUFFICES ASSUME LoopInv PROVE RoundSound
    OBVIOUS
  <2>1. PICK p \in 1..(Len(active) + 1) : WalkAt(p)
    BY DEF LoopInv, WalkInPlace
  <2>2. Len(active) \in Nat
    BY ListedIs DEF LoopInv
  <2>3. CASE p <= Len(active)
    <3>1. p \in 1..Len(active) /\ p \in p..Len(active) /\ next = active[p]
      BY <2>1, <2>2, <2>3 DEF WalkAt
    <3>2. next \in Listed /\ next # NoConn
      BY <3>1, ListedIs DEF LoopInv
    <3>3. phase # "prepare" => next \in due
      BY <2>1, <3>1 DEF WalkAt
    <3>. QED BY <3>2, <3>3 DEF RoundSound
  <2>4. CASE ~(p <= Len(active))
    <3>1. next = NoConn /\ p..Len(active) = {}
      BY <2>1, <2>2, <2>4 DEF WalkAt
    <3>. QED BY <2>1, <3>1 DEF WalkAt, RoundSound
  <2>. QED BY <2>3, <2>4
<1>. QED BY <1>1, LoopInvariance, PTL

(* What select said of a descriptor is never taken for another connection    *)
(* that got the same descriptor since.                                     *)
THEOREM NoStaleFlags == Spec => []FlagsAreOwn
<1>1. LoopInv => FlagsAreOwn
  <2>. SUFFICES ASSUME LoopInv, phase # "prepare", next # NoConn
                PROVE  OwnFlags(next)
    BY DEF FlagsAreOwn, OwnFlags
  <2>1. PICK p \in 1..Len(active) : next = active[p] /\ WalkAt(p)
    BY WalkIsAt
  <2>2. p \in p..Len(active)
    BY <2>1, ListedIs DEF LoopInv
  <2>. QED BY <2>1, <2>2 DEF WalkAt
<1>. QED BY <1>1, LoopInvariance, PTL

=============================================================================
