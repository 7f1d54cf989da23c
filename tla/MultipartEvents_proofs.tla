------------------------ MODULE MultipartEvents_proofs ------------------------
(* Theorems about MultipartEvents, for any number of connections and files,  *)
(* any length of a part, any misbehaviour of the peers and any handler.    *)
EXTENDS MultipartEvents, SequenceTheorems, TLAPS

Types ==
    /\ conn \in [Conns -> Connection]
    /\ heard \in [Conns -> [ev : Events, beat : BOOLEAN]]

(* What is being made of calls: none, one, or the end of a part and what     *)
(* comes behind it on the same connection.                                 *)
CallsShape ==
    \/ calls = <<>>
    \/ \E k \in Call : calls = <<k>> /\ k.ev # "PART_END"
    \/ \E j, k \in Call :
         /\ calls = <<j, k>>
         /\ j.ev = "PART_END"
         /\ k.ev \in {"PART_BEGIN", "MULTIPART_REQUEST_END"}
         /\ k.on = j.on

Pending(c) == calls # <<>> /\ calls[1].on = c

InPart(c) == conn[c].processing_part /\ conn[c].stream # "none"

(* The part of c has been begun and not ended, as its handler knows. *)
Begun(c) == heard[c].ev \in {"PART_BEGIN", "PART_DATA"}

(* While no call is being made for c, what its handler was told last agrees  *)
(* with where its parser stands.                                           *)
Settled(c) ==
    /\ conn[c].stream = "none" =>
         heard[c].ev = "MULTIPART_REQUEST_END" /\ conn[c].processing_part = FALSE
    /\ conn[c].stream = "chunk" => conn[c].processing_part
    /\ conn[c].stream # "none" =>
         IF conn[c].processing_part THEN Begun(c)
         ELSE heard[c].ev = "MULTIPART_REQUEST"

(* While one is, the parser is already where the call leaves the handler. *)
AboutToHear(c) ==
    \/ /\ calls[1].ev = "MULTIPART_REQUEST"
       /\ heard[c].ev = "MULTIPART_REQUEST_END"
       /\ conn[c].stream = "boundary" /\ ~conn[c].processing_part
    \/ /\ calls[1].ev = "PART_BEGIN"
       /\ heard[c].ev \in {"MULTIPART_REQUEST", "PART_END"}
       /\ InPart(c)
    \/ calls[1].ev = "PART_DATA" /\ Begun(c) /\ InPart(c)
    \/ /\ calls[1].ev = "PART_END"
       /\ calls[2].ev = "PART_BEGIN"
       /\ Begun(c) /\ InPart(c)
    \/ /\ calls[1].ev = "PART_END"
       /\ calls[2].ev = "MULTIPART_REQUEST_END"
       /\ Begun(c) \/ heard[c].ev = "MULTIPART_REQUEST"
       /\ conn[c].stream = "none" /\ ~conn[c].processing_part
    \/ /\ calls[1].ev = "MULTIPART_REQUEST_END"
       /\ heard[c].ev = "PART_END"
       /\ conn[c].stream = "none" /\ ~conn[c].processing_part

(* Only an open connection has a request in progress. *)
Alive(c) == conn[c].stream # "none" => conn[c].open

InStep(c) == Alive(c) /\ IF Pending(c) THEN AboutToHear(c) ELSE Settled(c)

EInv == Types /\ CallsShape /\ \A c \in Conns : InStep(c)

LEMMA InvTellsWhole == EInv => NothingHalfTold
BY DEF EInv, InStep, Pending, Settled, NothingHalfTold, Quiet

-----------------------------------------------------------------------------

LEMMA ClosedType ==
    /\ Closed \in Connection /\ Closed.stream = "none" /\ Closed.processing_part = FALSE
    /\ Accepted \in Connection /\ Accepted.stream = "none"
    /\ Accepted.processing_part = FALSE
<1>1. 0 \in Blocks
  BY StreamAssumption DEF Blocks
<1>2. Closed \in Connection
  BY <1>1 DEF Closed, Connection
<1>3. Accepted \in Connection
  BY <1>1 DEF Accepted, Closed, Connection
<1> QED BY <1>2, <1>3 DEF Closed, Accepted

LEMMA CallingType ==
    ASSUME Types, NEW c \in Conns, NEW ev \in Events
    PROVE  Calling(c, ev) \in Call /\ Calling(c, ev).on = c /\ Calling(c, ev).ev = ev
<1>1. /\ conn[c].file_name \in Files \cup {NoFile}
      /\ conn[c].blocks \in Blocks
  BY DEF Types, Connection
<1>2. 0 \in Blocks
  BY StreamAssumption DEF Blocks
<1> QED BY <1>1, <1>2 DEF Calling, Call

LEMMA TwoInARow ==
    ASSUME NEW S, NEW a \in S, NEW b \in S
    PROVE  <<a>> \o <<b>> = <<a, b>>
<1> DEFINE s == <<a>> \o <<b>>
           t == <<a, b>>
<1>1. s \in Seq(S) /\ Len(s) = 2 /\ s[1] = a /\ s[2] = b
  OBVIOUS
<1>2. t \in Seq(S) /\ Len(t) = 2 /\ t[1] = a /\ t[2] = b
  OBVIOUS
<1> HIDE DEF s, t
<1>3. s = t
  BY <1>1, <1>2
<1> QED BY <1>3 DEF s, t

LEMMA InitEInv == Init => EInv
<1> SUFFICES ASSUME Init PROVE EInv
  OBVIOUS
<1> USE DEF Init, StreamInit
<1>1. Types
  BY ClosedType DEF Types, Events
<1>2. \A c \in Conns : InStep(c)
  BY ClosedType DEF InStep, Alive, Pending, Settled
<1> QED BY <1>1, <1>2 DEF EInv, CallsShape

-----------------------------------------------------------------------------
(* The loop: what a step of connection c may do. *)

LEMMA LoopEffect ==
    ASSUME EInv, Quiet, UNCHANGED heard,
           NEW c \in Conns, NEW k \in Connection,
           conn' = [conn EXCEPT ![c] = k],
           CallsShape', calls' # <<>> => calls'[1].on = c,
           InStep(c)'
    PROVE  EInv'
<1>1. Types'
  BY DEF EInv, Types
<1>2. ASSUME NEW d \in Conns, d # c PROVE InStep(d)'
  <2>1. Settled(d) /\ Alive(d) /\ ~Pending(d)'
    BY <1>2 DEF EInv, InStep, Pending, Quiet
  <2>2. conn'[d] = conn[d] /\ heard'[d] = heard[d]
    BY <1>2 DEF EInv, Types
  <2> QED BY <2>1, <2>2 DEF InStep, Alive, Settled, Begun
<1> QED BY <1>1, <1>2 DEF EInv

LEMMA OneCall ==
    ASSUME NEW k \in Call, calls' = <<k>>, k.ev # "PART_END"
    PROVE  CallsShape' /\ calls' # <<>> /\ calls'[1] = k
BY DEF CallsShape

LEMMA TwoCalls ==
    ASSUME NEW j \in Call, NEW k \in Call, calls' = <<j, k>>, j.ev = "PART_END",
           k.ev \in {"PART_BEGIN", "MULTIPART_REQUEST_END"}, k.on = j.on
    PROVE  CallsShape' /\ calls' # <<>> /\ calls'[1] = j /\ calls'[2] = k
BY DEF CallsShape

(* A step that calls nobody and leaves the parser where it is. *)
LEMMA SilentStep ==
    ASSUME EInv, Quiet, UNCHANGED <<heard, calls>>,
           NEW c \in Conns, NEW k \in Connection, conn' = [conn EXCEPT ![c] = k],
           k.stream = conn[c].stream, k.processing_part = conn[c].processing_part,
           k.stream # "none" => k.open
    PROVE  EInv'
<1>1. conn'[c] = k /\ Settled(c)
  BY DEF EInv, Types, InStep, Pending, Quiet
<1>2. InStep(c)'
  BY <1>1 DEF InStep, Alive, Pending, Quiet, Settled, Begun
<1> QED BY <1>2, LoopEffect DEF CallsShape, Quiet

(* A step that passes data on. *)
LEMMA DataStep ==
    ASSUME EInv, Quiet, UNCHANGED heard,
           NEW c \in Conns, NEW k \in Connection, conn' = [conn EXCEPT ![c] = k],
           NEW n \in Blocks,
           calls' = <<[Calling(c, "PART_DATA") EXCEPT !.len = n]>>,
           conn[c].stream = "chunk", k.stream # "none",
           k.processing_part = conn[c].processing_part, k.open
    PROVE  EInv'
<1> DEFINE call == [Calling(c, "PART_DATA") EXCEPT !.len = n]
<1>1. call \in Call /\ call.on = c /\ call.ev = "PART_DATA"
  BY CallingType DEF EInv, Call, Events
<1>2. CallsShape' /\ calls' # <<>> /\ calls'[1] = call
  BY <1>1, OneCall
<1>3. conn'[c] = k /\ Settled(c)
  BY DEF EInv, Types, InStep, Pending, Quiet
<1>4. InStep(c)'
  BY <1>1, <1>2, <1>3
     DEF InStep, Alive, Pending, Settled, AboutToHear, InPart, Begun
<1> QED BY <1>1, <1>2, <1>4, LoopEffect

(* A step that ends part and request, with whatever status. *)
LEMMA EndStep ==
    ASSUME EInv, Quiet, UNCHANGED heard,
           NEW c \in Conns, NEW k \in Connection, conn' = [conn EXCEPT ![c] = k],
           NEW end \in Call, NEW last \in Call, calls' = <<end, last>>,
           end.on = c, end.ev = "PART_END",
           last.on = c, last.ev = "MULTIPART_REQUEST_END",
           conn[c].stream # "none", k.stream = "none", ~k.processing_part
    PROVE  EInv'
<1>1. CallsShape' /\ calls' # <<>> /\ calls'[1] = end /\ calls'[2] = last
  BY TwoCalls
<1>2. conn'[c] = k /\ Settled(c)
  BY DEF EInv, Types, InStep, Pending, Quiet
<1>3. InStep(c)'
  BY <1>1, <1>2 DEF InStep, Alive, Pending, Settled, AboutToHear, Begun
<1> QED BY <1>1, <1>3, LoopEffect

LEMMA LoopEInv ==
    ASSUME EInv, UNCHANGED heard, NEW c \in Conns, LoopStep(c)
    PROVE  EInv'
<1>0. /\ Quiet /\ calls = <<>>
      /\ Settled(c) /\ Alive(c)
      /\ conn[c] \in Connection
      /\ Types
      /\ 0 \in Blocks /\ 1 \in Blocks
  BY StreamAssumption DEF LoopStep, EInv, InStep, Pending, Quiet, Types, Blocks
<1>1. CASE Accept(c)
  <2>1. /\ conn' = [conn EXCEPT ![c] = Accepted] /\ UNCHANGED calls
        /\ conn'[c] = Accepted /\ ~conn[c].open
    BY <1>0, <1>1 DEF Accept, Types
  <2>2. /\ Accepted \in Connection
        /\ Accepted.stream = "none" /\ Accepted.processing_part = FALSE
    BY ClosedType
  <2>3. conn[c].stream = "none" /\ calls' = <<>> /\ CallsShape'
    BY <1>0, <2>1 DEF Alive, CallsShape
  <2>4. InStep(c)'
    BY <1>0, <2>1, <2>2, <2>3 DEF InStep, Alive, Pending, Settled
  <2> QED BY <1>0, <2>1, <2>2, <2>3, <2>4, LoopEffect
<1>2. CASE RecvRequest(c)
  <2> DEFINE k == [conn[c] EXCEPT !.stream = "boundary", !.file_name = NoFile]
  <2>1. PICK u \in Users \cup {NoUser} :
          calls' = <<[Calling(c, "MULTIPART_REQUEST") EXCEPT !.who = u]>>
    BY <1>2 DEF RecvRequest
  <2> DEFINE call == [Calling(c, "MULTIPART_REQUEST") EXCEPT !.who = u]
  <2>2. call \in Call /\ call.on = c /\ call.ev = "MULTIPART_REQUEST"
    BY <1>0, CallingType DEF Call, Events
  <2>3. CallsShape' /\ calls' # <<>> /\ calls'[1] = call
    BY <2>1, <2>2, OneCall
  <2>4. conn[c].stream = "none" /\ conn[c].open /\ conn' = [conn EXCEPT ![c] = k]
    BY <1>2 DEF RecvRequest, ReceivingIn, Receiving
  <2>5. /\ k \in Connection /\ k.stream = "boundary"
        /\ k.processing_part = conn[c].processing_part
        /\ k.open = conn[c].open /\ conn'[c] = k
    BY <1>0, <2>4 DEF Connection, Types
  <2> HIDE DEF k, call
  <2>6. InStep(c)'
    BY <1>0, <2>2, <2>3, <2>4, <2>5 DEF InStep, Alive, Pending, Settled, AboutToHear
  <2> QED BY <1>0, <2>2, <2>3, <2>4, <2>5, <2>6, LoopEffect
<1>3. CASE RecvPartHeaders(c)
  <2>1. PICK f \in Files :
          /\ conn' = [conn EXCEPT ![c].stream = "chunk",
                                  ![c].processing_part = TRUE,
                                  ![c].file_name = f,
                                  ![c].blocks = 0]
          /\ calls' =
               (IF conn[c].processing_part THEN <<Calling(c, "PART_END")>> ELSE <<>>)
                 \o <<[Calling(c, "PART_BEGIN") EXCEPT !.file_name = f]>>
    BY <1>3 DEF RecvPartHeaders
  <2> DEFINE k == [conn[c] EXCEPT !.stream = "chunk", !.processing_part = TRUE,
                                  !.file_name = f, !.blocks = 0]
             end == Calling(c, "PART_END")
             begin == [Calling(c, "PART_BEGIN") EXCEPT !.file_name = f]
  <2>2. end \in Call /\ end.on = c /\ end.ev = "PART_END"
    BY <1>0, CallingType DEF Events
  <2>3. begin \in Call /\ begin.on = c /\ begin.ev = "PART_BEGIN"
    BY <1>0, CallingType DEF Call, Events
  <2>4. conn[c].stream = "boundary" /\ conn[c].open
    BY <1>3 DEF RecvPartHeaders, ReceivingIn, Receiving
  <2>5. /\ k \in Connection /\ k.stream = "chunk" /\ k.processing_part
        /\ k.open = conn[c].open
    BY <1>0 DEF Connection
  <2>6. conn' = [conn EXCEPT ![c] = k]
    BY <2>1
  <2>7. conn'[c] = k
    BY <1>0, <2>6 DEF Types
  <2> HIDE DEF k
  <2>8. CASE conn[c].processing_part
    <3>1. calls' = <<end>> \o <<begin>>
      BY <2>1, <2>8, Zenon
    <3> HIDE DEF end, begin
    <3>2. calls' = <<end, begin>>
      BY <2>2, <2>3, <3>1, TwoInARow
    <3>3. CallsShape' /\ calls' # <<>> /\ calls'[1] = end /\ calls'[2] = begin
      BY <2>2, <2>3, <3>2, TwoCalls
    <3>4. InStep(c)'
      BY <1>0, <2>2, <2>3, <2>4, <2>5, <2>7, <2>8, <3>3
         DEF InStep, Alive, Pending, Settled, AboutToHear, InPart, Begun
    <3> QED BY <1>0, <2>2, <2>5, <2>6, <3>3, <3>4, LoopEffect
  <2>9. CASE ~conn[c].processing_part
    <3>1. calls' = <<begin>>
      BY <2>1, <2>9
    <3> HIDE DEF begin
    <3>2. CallsShape' /\ calls' # <<>> /\ calls'[1] = begin
      BY <2>3, <3>1, OneCall
    <3>3. InStep(c)'
      BY <1>0, <2>3, <2>4, <2>5, <2>7, <2>9, <3>2
         DEF InStep, Alive, Pending, Settled, AboutToHear, InPart
    <3> QED BY <1>0, <2>3, <2>5, <2>6, <3>2, <3>3, LoopEffect
  <2> QED BY <2>8, <2>9
<1>4. CASE RecvData(c)
  <2> DEFINE k == [conn[c] EXCEPT !.blocks = @ + 1]
  <2>1. /\ calls' = <<[Calling(c, "PART_DATA") EXCEPT !.len = 1]>>
        /\ conn' = [conn EXCEPT ![c] = k]
        /\ conn[c].stream = "chunk"
        /\ conn[c].blocks < MaxBlocks
    BY <1>4 DEF RecvData, ReceivingIn
  <2>2. conn[c].blocks + 1 \in Blocks
    BY <1>0, <2>1, StreamAssumption DEF Blocks, Connection
  <2>3. /\ k \in Connection /\ k.stream = "chunk"
        /\ k.processing_part = conn[c].processing_part /\ k.open = conn[c].open
    BY <1>0, <2>1, <2>2 DEF Connection
  <2> QED BY <1>0, <2>1, <2>3, DataStep DEF Alive
<1>5. CASE RecvDelimiter(c)
  <2>1. PICK n \in {0, 1} :
          /\ conn[c].blocks + n <= MaxBlocks
          /\ conn' = [conn EXCEPT ![c].stream = "boundary", ![c].blocks = @ + n]
          /\ calls' = <<[Calling(c, "PART_DATA") EXCEPT !.len = n]>>
    BY <1>5 DEF RecvDelimiter
  <2> DEFINE k == [conn[c] EXCEPT !.stream = "boundary", !.blocks = @ + n]
  <2>2. conn' = [conn EXCEPT ![c] = k] /\ conn[c].stream = "chunk"
    BY <1>5, <2>1 DEF RecvDelimiter, ReceivingIn
  <2>3. conn[c].blocks + n \in Blocks /\ n \in Blocks
    BY <1>0, <2>1, StreamAssumption DEF Blocks, Connection
  <2>4. /\ k \in Connection /\ k.stream = "boundary"
        /\ k.processing_part = conn[c].processing_part /\ k.open = conn[c].open
    BY <1>0, <2>3 DEF Connection
  <2> QED BY <1>0, <2>1, <2>2, <2>3, <2>4, DataStep DEF Alive
<1>6. CASE RecvClosingMark(c)
  <2> DEFINE k == [conn[c] EXCEPT !.stream = "none", !.processing_part = FALSE,
                                  !.file_name = NoFile, !.blocks = 0]
             end == Calling(c, "PART_END")
             last == [Calling(c, "MULTIPART_REQUEST_END") EXCEPT !.file_name = NoFile]
  <2>1. /\ calls' = <<end, last>> /\ conn' = [conn EXCEPT ![c] = k]
        /\ conn[c].stream = "boundary"
    BY <1>6 DEF RecvClosingMark, ReceivingIn
  <2>2. last \in Call /\ last.on = c /\ last.ev = "MULTIPART_REQUEST_END"
    BY <1>0, CallingType DEF Call, Events
  <2>3. k \in Connection /\ ~k.processing_part /\ k.stream = "none"
    BY <1>0 DEF Connection
  <2>4. end \in Call /\ end.on = c /\ end.ev = "PART_END"
    BY <1>0, CallingType DEF Events
  <2> HIDE DEF k, end, last
  <2> QED BY <1>0, <2>1, <2>2, <2>3, <2>4, EndStep
<1>7. CASE RecvEnd(c)
  <2> DEFINE k == [conn[c] EXCEPT !.peer_gone = TRUE, !.send_and_close = TRUE]
  <2>1. UNCHANGED calls /\ conn' = [conn EXCEPT ![c] = k]
    BY <1>7 DEF RecvEnd
  <2>2. /\ k \in Connection /\ k.stream = conn[c].stream
        /\ k.processing_part = conn[c].processing_part /\ k.open = conn[c].open
    BY <1>0 DEF Connection
  <2> QED BY <1>0, <2>1, <2>2, SilentStep DEF Alive
<1>n. CASE RecvNoBoundary(c)
  <2> DEFINE k == [conn[c] EXCEPT !.send_and_close = FALSE,
                                !.close_immediately = TRUE]
  <2>1. UNCHANGED calls /\ conn' = [conn EXCEPT ![c] = k]
    BY <1>n DEF RecvNoBoundary
  <2>2. /\ k \in Connection /\ k.stream = conn[c].stream
        /\ k.processing_part = conn[c].processing_part /\ k.open = conn[c].open
    BY <1>0 DEF Connection
  <2> QED BY <1>0, <2>1, <2>2, SilentStep DEF Alive
<1>8. CASE ConnectionFails(c)
  <2> DEFINE k == [conn[c] EXCEPT !.peer_gone = TRUE, !.close_immediately = TRUE]
  <2>1. UNCHANGED calls /\ conn' = [conn EXCEPT ![c] = k]
    BY <1>8 DEF ConnectionFails
  <2>2. /\ k \in Connection /\ k.stream = conn[c].stream
        /\ k.processing_part = conn[c].processing_part /\ k.open = conn[c].open
    BY <1>0 DEF Connection
  <2> QED BY <1>0, <2>1, <2>2, SilentStep DEF Alive
<1>9. CASE Send(c)
  <2> DEFINE k == [conn[c] EXCEPT !.unsent = FALSE]
  <2>1. UNCHANGED calls /\ conn' = [conn EXCEPT ![c] = k]
    BY <1>9 DEF Send
  <2>2. /\ k \in Connection /\ k.stream = conn[c].stream
        /\ k.processing_part = conn[c].processing_part /\ k.open = conn[c].open
    BY <1>0 DEF Connection
  <2> QED BY <1>0, <2>1, <2>2, SilentStep DEF Alive
<1>10. CASE PollClose(c)
  <2>1. calls' = CallsAtClose(c) /\ conn' = [conn EXCEPT ![c] = Closed]
    BY <1>10 DEF PollClose
  <2>2. CASE conn[c].stream = "none"
    <3>1. UNCHANGED calls
      BY <1>0, <2>1, <2>2 DEF CallsAtClose
    <3> QED BY <1>0, <2>1, <2>2, <3>1, ClosedType, SilentStep DEF Settled
  <2>3. CASE conn[c].stream # "none"
    <3> DEFINE end == [Calling(c, "PART_END") EXCEPT !.status = Terminated]
               l == Calling(c, "MULTIPART_REQUEST_END")
               m == [l EXCEPT !.file_name = NoFile]
               last == [m EXCEPT !.status = Terminated]
    <3>1. calls' = <<end, last>>
      BY <2>1, <2>3 DEF CallsAtClose
    <3>2. end \in Call /\ end.on = c /\ end.ev = "PART_END"
      BY <1>0, CallingType DEF Call, Events, Terminated
    <3>3. last \in Call /\ last.on = c /\ last.ev = "MULTIPART_REQUEST_END"
      <4>1. l \in Call /\ l.on = c /\ l.ev = "MULTIPART_REQUEST_END"
        BY <1>0, CallingType DEF Events
      <4>2. m \in Call /\ m.on = c /\ m.ev = "MULTIPART_REQUEST_END"
        BY <4>1 DEF Call
      <4> HIDE DEF m
      <4> QED BY <4>2 DEF Call, Terminated
    <3> HIDE DEF end, last
    <3> QED BY <1>0, <2>1, <2>3, <3>1, <3>2, <3>3, ClosedType, EndStep
  <2> QED BY <2>2, <2>3
<1> QED
  BY <1>1, <1>2, <1>3, <1>4, <1>5, <1>6, <1>7, <1>8, <1>9, <1>10,
     <1>n DEF LoopStep
-----------------------------------------------------------------------------
(* The handler, which may be any. *)

(* What the first call is, and what is left when it has been taken. *)
LEMMA CallTaken ==
    ASSUME EInv, ~Quiet, NEW c, c = Head(calls).on, calls' = Tail(calls)
    PROVE  /\ calls[1] = Head(calls) /\ calls[1] \in Call /\ c \in Conns
           /\ Pending(c)
           /\ CallsShape'
           /\ calls[1].ev # "PART_END" => calls' = <<>>
           /\ calls[1].ev = "PART_END" =>
                /\ calls' # <<>> /\ calls'[1] = calls[2] /\ calls'[1].on = c
                /\ calls[2].ev \in {"PART_BEGIN", "MULTIPART_REQUEST_END"}
<1>1. CASE \E k \in Call : calls = <<k>> /\ k.ev # "PART_END"
  <2>1. PICK k \in Call : calls = <<k>> /\ k.ev # "PART_END"
    BY <1>1
  <2>2. calls' = <<>> /\ Head(calls) = k /\ calls[1] = k /\ calls # <<>>
    BY <2>1
  <2> QED BY <2>1, <2>2 DEF CallsShape, Pending, Call
<1>2. CASE \E j, k \in Call :
             /\ calls = <<j, k>>
             /\ j.ev = "PART_END"
             /\ k.ev \in {"PART_BEGIN", "MULTIPART_REQUEST_END"}
             /\ k.on = j.on
  <2>1. PICK j \in Call, k \in Call :
          /\ calls = <<j, k>>
          /\ j.ev = "PART_END"
          /\ k.ev \in {"PART_BEGIN", "MULTIPART_REQUEST_END"}
          /\ k.on = j.on
    BY <1>2
  <2>2. /\ Head(calls) = j /\ calls[1] = j /\ calls[2] = k /\ calls # <<>>
        /\ Tail(calls) = <<k>>
    BY <2>1
  <2>3. calls' = <<k>> /\ calls' # <<>> /\ calls'[1] = k
    BY <2>2
  <2>4. CallsShape'
    BY <2>1, <2>3, OneCall
  <2> QED BY <2>1, <2>2, <2>3, <2>4 DEF Pending, Call
<1> QED BY <1>1, <1>2 DEF EInv, CallsShape, Quiet

(* The call is one PartEvents allows, or ends a request without a part. *)
LEMMA CallIsInOrder ==
    ASSUME EInv, CallHandler
    PROVE  Parts!EventsNext \/ EndOfNoPart
<1> DEFINE c == Head(calls).on
           Told(ev) == heard' = [heard EXCEPT ![c] = [ev |-> ev, beat |-> ~@.beat]]
<1>1. /\ ~Quiet /\ calls' = Tail(calls)
      /\ heard' = [heard EXCEPT ![c] = [ev |-> Head(calls).ev, beat |-> ~@.beat]]
  BY DEF CallHandler
<1>2. c \in Conns /\ Pending(c) /\ calls[1] = Head(calls)
  BY <1>1, CallTaken
<1>3. AboutToHear(c)
  BY <1>2 DEF EInv, InStep
<1>4. Told(calls[1].ev)
  BY <1>1, <1>2
<1> HIDE DEF c
<1>5. CASE calls[1].ev = "MULTIPART_REQUEST"
  BY <1>2, <1>3, <1>4, <1>5
     DEF AboutToHear, Parts!EventsNext, Parts!Request, Parts!Hear
<1>6. CASE calls[1].ev = "PART_BEGIN"
  BY <1>2, <1>3, <1>4, <1>6
     DEF AboutToHear, Parts!EventsNext, Parts!Begin, Parts!Hear
<1>7. CASE calls[1].ev = "PART_DATA"
  BY <1>2, <1>3, <1>4, <1>7
     DEF AboutToHear, Begun, Parts!EventsNext, Parts!Data, Parts!Hear
<1>8. CASE calls[1].ev = "PART_END"
  BY <1>2, <1>3, <1>4, <1>8
     DEF AboutToHear, Begun, Parts!EventsNext, Parts!End, EndOfNoPart,
         Parts!Hear
<1>9. CASE calls[1].ev = "MULTIPART_REQUEST_END"
  BY <1>2, <1>3, <1>4, <1>9
     DEF AboutToHear, Parts!EventsNext, Parts!RequestEnd, Parts!Hear
<1> QED BY <1>3, <1>5, <1>6, <1>7, <1>8, <1>9 DEF AboutToHear

LEMMA HandlerEInv ==
    ASSUME EInv, CallHandler
    PROVE  EInv'
<1>0. PICK c \in Conns : c = Head(calls).on
  <2>1. ~Quiet /\ calls' = Tail(calls)
    BY DEF CallHandler
  <2> QED BY <2>1, CallTaken
<1>1. /\ ~Quiet /\ calls' = Tail(calls)
      /\ heard' = [heard EXCEPT ![c] = [ev |-> Head(calls).ev, beat |-> ~@.beat]]
  BY <1>0 DEF CallHandler
<1>2. /\ c \in Conns /\ Pending(c)
      /\ calls[1] = Head(calls) /\ calls[1] \in Call
      /\ CallsShape'
      /\ calls[1].ev # "PART_END" => calls' = <<>>
      /\ calls[1].ev = "PART_END" =>
           /\ calls' # <<>> /\ calls'[1] = calls[2] /\ calls'[1].on = c
           /\ calls[2].ev \in {"PART_BEGIN", "MULTIPART_REQUEST_END"}
  BY <1>0, <1>1, CallTaken
<1>3. /\ conn' \in [Conns -> Connection]
      /\ \A d \in Conns : /\ conn'[d].stream = conn[d].stream
                          /\ conn'[d].open = conn[d].open
                          /\ conn'[d].processing_part = conn[d].processing_part
  <2>1. CASE UNCHANGED conn
    BY <2>1 DEF EInv, Types
  <2>2. ASSUME NEW closing \in BOOLEAN,
               conn' = [conn EXCEPT ![c].unsent = TRUE,
                                    ![c].send_and_close = @ \/ closing]
        PROVE  /\ conn' \in [Conns -> Connection]
               /\ \A d \in Conns : /\ conn'[d].stream = conn[d].stream
                                   /\ conn'[d].open = conn[d].open
                                   /\ conn'[d].processing_part =
                                        conn[d].processing_part
    <3> DEFINE k == [conn[c] EXCEPT !.unsent = TRUE, !.send_and_close = @ \/ closing]
    <3>1. conn' = [conn EXCEPT ![c] = k]
      BY <2>2
    <3>2. conn[c] \in Connection
      BY <1>2 DEF EInv, Types
    <3>3. /\ k \in Connection /\ k.stream = conn[c].stream /\ k.open = conn[c].open
          /\ k.processing_part = conn[c].processing_part
      BY <3>2 DEF Connection
    <3> HIDE DEF k
    <3> QED BY <1>2, <3>1, <3>3 DEF EInv, Types
  <2> QED BY <1>0, <2>1, <2>2 DEF CallHandler
<1>4. heard' \in [Conns -> [ev : Events, beat : BOOLEAN]]
  BY <1>1, <1>2 DEF EInv, Types, Call
<1>5. /\ heard'[c].ev = calls[1].ev
      /\ \A d \in Conns : d # c => heard'[d] = heard[d]
  BY <1>1, <1>2 DEF EInv, Types
<1>6. ASSUME NEW d \in Conns, d # c PROVE InStep(d)'
  <2>1. ~Pending(d) /\ ~Pending(d)' /\ Settled(d) /\ Alive(d)
    BY <1>2, <1>6 DEF Pending, EInv, InStep
  <2> QED BY <1>3, <1>5, <1>6, <2>1 DEF InStep, Alive, Settled, Begun
<1>7. InStep(c)'
  <2>1. AboutToHear(c) /\ Alive(c)
    BY <1>2 DEF EInv, InStep
  <2>2. conn[c] \in Connection
    BY <1>2 DEF EInv, Types
  <2>3. CASE calls[1].ev # "PART_END"
    <3>1. ~Pending(c)'
      BY <1>2, <2>3 DEF Pending
    <3>2. Settled(c)'
      BY <1>2, <1>3, <1>5, <2>1, <2>2, <2>3
         DEF AboutToHear, Settled, InPart, Begun, Connection
    <3> QED BY <1>2, <1>3, <2>1, <3>1, <3>2 DEF InStep, Alive
  <2>4. CASE calls[1].ev = "PART_END"
    <3>1. Pending(c)'
      BY <1>2, <2>4 DEF Pending
    <3>2. AboutToHear(c)'
      BY <1>2, <1>3, <1>5, <2>1, <2>4 DEF AboutToHear, InPart
    <3> QED BY <1>2, <1>3, <2>1, <3>1, <3>2 DEF InStep, Alive
  <2> QED BY <2>3, <2>4
<1> QED BY <1>2, <1>3, <1>4, <1>6, <1>7 DEF EInv, Types

-----------------------------------------------------------------------------

LEMMA NextEInv == EInv /\ [Next]_eventVars => EInv'
<1> SUFFICES ASSUME EInv, [Next]_eventVars PROVE EInv'
  OBVIOUS
<1>1. ASSUME NEW c \in Conns, LoopStep(c), UNCHANGED heard PROVE EInv'
  BY <1>1, LoopEInv
<1>2. CASE CallHandler
  BY <1>2, HandlerEInv
<1>3. CASE UNCHANGED eventVars
  BY <1>3 DEF eventVars, EInv, Types, CallsShape, InStep, Alive, Pending, Settled,
              AboutToHear, InPart, Begun
<1> QED BY <1>1, <1>2, <1>3 DEF Next

(* Parser and handler agree, at every moment, on what has been told. *)
THEOREM EventsInvariance == Spec => []EInv
BY InitEInv, NextEInv, PTL DEF Spec

(* No request stays half told (mg_http_handler ends it when the connection   *)
(* is closed), whatever the peer and the handler do.                       *)
THEOREM NothingStaysHalfTold == Spec => []NothingHalfTold
BY EventsInvariance, InvTellsWhole, PTL

(* The parser implements PartEvents but for the PART_END of a request        *)
(* without a part: every other step of it tells a handler the next event of *)
(* its request or tells nobody anything.                                   *)
THEOREM ParserKeepsOrder == Spec => InOrder
<1>1. Init => Parts!EventsInit
  BY DEF Init, Parts!EventsInit
<1>2. EInv /\ [Next]_eventVars => [Parts!EventsNext \/ EndOfNoPart]_heard
  BY CallIsInOrder DEF Next, eventVars
<1> QED BY <1>1, <1>2, EventsInvariance, PTL DEF Spec, InOrder

=============================================================================
