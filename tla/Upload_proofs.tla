--------------------------- MODULE Upload_proofs ---------------------------
(* Theorems about Upload, for any number of connections, users and files,    *)
(* any length of a part and any choice of mishaps.                         *)
EXTENDS Upload, SequenceTheorems, TLAPS

(* The calls the loop is in the middle of making: one call, or the end of a  *)
(* part followed by what comes after it, on the same connection.           *)
CallsWellFormed ==
    /\ calls \in Seq(Call)
    /\ Len(calls) <= 2
    /\ Len(calls) = 1 => calls[1].ev # "PART_END"
    /\ Len(calls) = 2 =>
         /\ calls[1].ev = "PART_END"
         /\ calls[2].ev \in {"PART_BEGIN", "MULTIPART_REQUEST_END"}
         /\ calls[2].on = calls[1].on

Pending(c) == calls # <<>> /\ calls[1].on = c

StreamsWellFormed ==
    /\ conn \in [Conns -> Connection]
    /\ \A c \in Conns :
         /\ conn[c].processing_part =>
              conn[c].stream # "none" /\ conn[c].open /\ conn[c].file_name \in Files
         /\ conn[c].stream = "chunk" => conn[c].processing_part

InPart(c, f) ==
    conn[c].open /\ conn[c].processing_part /\ conn[c].file_name = f

(* The file a part of that name is written to. *)
Opened(w, f) == f \in Files /\ (f \in Plain => w.path[2] = f)

Holds(c, w) == InPart(c, conn[c].file_name) /\ Opened(w, conn[c].file_name)

(* The PART_BEGIN about to be made is the one of the connection's part. *)
BeginsItsPart ==
    \A i \in 1..Len(calls) :
        calls[i].ev = "PART_BEGIN" => InPart(calls[i].on, calls[i].file_name)

(* Where a file may be open: between its PART_BEGIN and its PART_END. *)
WritersPlaced ==
    /\ user \in Users \cup {NoUser}
    /\ writer \in [Conns -> OpenFile \cup {NoWriter}]
    /\ \A c \in Conns : writer[c] # NoWriter =>
         IF Pending(c)
         THEN \/ calls[1].ev = "PART_DATA" /\ Holds(c, writer[c])
              \/ calls[1].ev = "PART_END" /\ Opened(writer[c], calls[1].file_name)
         ELSE Holds(c, writer[c])

IInv ==
    CallsWellFormed /\ StreamsWellFormed /\ BeginsItsPart /\ WritersPlaced

(* What the invariant is for. *)
LEMMA PlacedWritersMatch == IInv => WriterMatchesPart
BY DEF IInv, WritersPlaced, WriterMatchesPart, Quiet, Pending, Holds, Opened, InPart

-----------------------------------------------------------------------------

LEMMA ClosedType == Closed \in Connection /\ Accepted \in Connection
<1>1. 0 \in Blocks
  BY StreamAssumption DEF Blocks
<1>2. Closed \in Connection
  BY <1>1 DEF Closed, Connection
<1>3. Accepted \in Connection
  BY <1>1 DEF Accepted, Closed, Connection
<1>. QED BY <1>2, <1>3

LEMMA CallingType ==
    ASSUME StreamsWellFormed, NEW c \in Conns, NEW ev \in Events
    PROVE  /\ Calling(c, ev) \in Call
           /\ Calling(c, ev).on = c
           /\ Calling(c, ev).ev = ev
           /\ Calling(c, ev).file_name = conn[c].file_name
<1>1. /\ conn[c].file_name \in Files \cup {NoFile}
      /\ conn[c].blocks \in Blocks
  BY DEF StreamsWellFormed, Connection
<1>2. 0 \in Blocks
  BY StreamAssumption DEF Blocks
<1>. QED BY <1>1, <1>2 DEF Calling, Call

LEMMA InitIInv == Init => IInv
<1>. SUFFICES ASSUME Init PROVE IInv
  OBVIOUS
<1>. USE DEF Init, StreamInit
<1>1. CallsWellFormed /\ BeginsItsPart
  BY DEF CallsWellFormed, BeginsItsPart
<1>2. StreamsWellFormed
  BY ClosedType DEF StreamsWellFormed, Closed
<1>3. WritersPlaced
  BY DEF WritersPlaced
<1>. QED BY <1>1, <1>2, <1>3 DEF IInv

-----------------------------------------------------------------------------
(* The loop: what a step of connection c may do to conn[c] and calls. *)

PlacedAt(c) ==
    IF Pending(c)
    THEN \/ calls[1].ev = "PART_DATA" /\ Holds(c, writer[c])
         \/ calls[1].ev = "PART_END" /\ Opened(writer[c], calls[1].file_name)
    ELSE Holds(c, writer[c])

LEMMA TwoInARow ==
    ASSUME NEW S, NEW a \in S, NEW b \in S
    PROVE  <<a>> \o <<b>> = <<a, b>>
<1>. DEFINE s == <<a>> \o <<b>>
            t == <<a, b>>
<1>1. s \in Seq(S) /\ Len(s) = 2 /\ s[1] = a /\ s[2] = b
  OBVIOUS
<1>2. t \in Seq(S) /\ Len(t) = 2 /\ t[1] = a /\ t[2] = b
  OBVIOUS
<1>. HIDE DEF s, t
<1>3. s = t
  BY <1>1, <1>2
<1>. QED BY <1>3 DEF s, t

LEMMA NoCall == calls' = <<>> => CallsWellFormed' /\ BeginsItsPart'
BY DEF CallsWellFormed, BeginsItsPart

LEMMA OneCall ==
    ASSUME NEW k \in Call, calls' = <<k>>, k.ev # "PART_END",
           k.ev = "PART_BEGIN" => InPart(k.on, k.file_name)'
    PROVE  CallsWellFormed' /\ BeginsItsPart'
BY DEF CallsWellFormed, BeginsItsPart

LEMMA TwoCalls ==
    ASSUME NEW j \in Call, NEW k \in Call, calls' = <<j, k>>,
           j.ev = "PART_END", k.ev \in {"PART_BEGIN", "MULTIPART_REQUEST_END"},
           k.on = j.on,
           k.ev = "PART_BEGIN" => InPart(k.on, k.file_name)'
    PROVE  CallsWellFormed' /\ BeginsItsPart'
BY DEF CallsWellFormed, BeginsItsPart

LEMMA LoopEffect ==
    ASSUME IInv, Quiet, UNCHANGED <<user, writer>>,
           NEW c \in Conns, NEW k \in Connection,
           conn' = [conn EXCEPT ![c] = k],
           k.processing_part => k.stream # "none" /\ k.open /\ k.file_name \in Files,
           k.stream = "chunk" => k.processing_part,
           CallsWellFormed', BeginsItsPart',
           calls' # <<>> => calls'[1].on = c,
           writer[c] # NoWriter => PlacedAt(c)'
    PROVE  IInv'
<1>1. StreamsWellFormed'
  BY DEF IInv, StreamsWellFormed
<1>2. ASSUME NEW d \in Conns, d # c, writer[d] # NoWriter
      PROVE  Holds(d, writer[d])' /\ ~Pending(d)'
  <2>1. Holds(d, writer[d])
    BY <1>2 DEF IInv, WritersPlaced, Quiet, Pending
  <2>2. conn'[d] = conn[d]
    BY <1>2 DEF IInv, StreamsWellFormed
  <2>. QED BY <1>2, <2>1, <2>2 DEF Holds, Opened, InPart, Pending
<1>3. WritersPlaced'
  BY <1>2 DEF WritersPlaced, PlacedAt, IInv
<1>. QED BY <1>1, <1>3 DEF IInv

(* A connection that is in no part has no file open. *)
LEMMA NoPartNoWriter ==
    ASSUME IInv, Quiet, NEW c \in Conns
    PROVE  writer[c] # NoWriter => Holds(c, writer[c])
BY DEF IInv, WritersPlaced, Quiet, Pending

SameFile(k, c) ==
    /\ k.open = conn[c].open
    /\ k.processing_part = conn[c].processing_part
    /\ k.file_name = conn[c].file_name

(* A step that makes no call and leaves the connection in its part. *)
LEMMA SilentIInv ==
    ASSUME IInv, Quiet, UNCHANGED <<user, writer>>,
           NEW c \in Conns, NEW k \in Connection,
           conn' = [conn EXCEPT ![c] = k], calls' = <<>>,
           SameFile(k, c), k.stream = conn[c].stream
    PROVE  IInv'
<1>1. conn'[c] = k /\ conn[c] \in Connection
  BY DEF IInv, StreamsWellFormed
<1>2. writer[c] # NoWriter => PlacedAt(c)'
  BY <1>1, NoPartNoWriter DEF PlacedAt, Pending, Holds, Opened, InPart, SameFile
<1>3. /\ k.processing_part => k.stream # "none" /\ k.open /\ k.file_name \in Files
      /\ k.stream = "chunk" => k.processing_part
  BY DEF IInv, StreamsWellFormed, SameFile
<1>. QED BY <1>2, <1>3, NoCall, LoopEffect

(* A step that passes data on. *)
LEMMA DataIInv ==
    ASSUME IInv, Quiet, UNCHANGED <<user, writer>>,
           NEW c \in Conns, NEW k \in Connection, NEW call \in Call,
           conn' = [conn EXCEPT ![c] = k], calls' = <<call>>,
           call.on = c, call.ev = "PART_DATA",
           SameFile(k, c), k.stream # "none",
           conn[c].open, conn[c].processing_part
    PROVE  IInv'
<1>1. conn'[c] = k
  BY DEF IInv, StreamsWellFormed
<1>2. writer[c] # NoWriter => PlacedAt(c)'
  BY <1>1, NoPartNoWriter DEF PlacedAt, Pending, Holds, Opened, InPart, SameFile
<1>3. CallsWellFormed' /\ BeginsItsPart'
  BY OneCall
<1>4. k.open /\ k.file_name \in Files
  BY DEF IInv, StreamsWellFormed, SameFile
<1>5. calls' # <<>> => calls'[1].on = c
  OBVIOUS
<1>6. k.processing_part
  BY DEF SameFile
<1>. QED BY <1>2, <1>3, <1>4, <1>5, <1>6, LoopEffect

(* A step that ends the part and the request. *)
LEMMA EndIInv ==
    ASSUME IInv, Quiet, UNCHANGED <<user, writer>>,
           NEW c \in Conns, NEW k \in Connection,
           NEW end \in Call, NEW last \in Call,
           conn' = [conn EXCEPT ![c] = k], calls' = <<end, last>>,
           end.on = c, end.ev = "PART_END", end.file_name = conn[c].file_name,
           last.on = c, last.ev = "MULTIPART_REQUEST_END",
           k.processing_part = FALSE, k.stream = "none"
    PROVE  IInv'
<1>1. CallsWellFormed' /\ BeginsItsPart'
  BY TwoCalls
<1>2. writer[c] # NoWriter => PlacedAt(c)'
  BY NoPartNoWriter DEF PlacedAt, Pending, Holds, InPart
<1>. QED BY <1>1, <1>2, LoopEffect

LEMMA LoopIInv ==
    ASSUME IInv, Quiet, UNCHANGED <<user, writer>>, NEW c \in Conns, LoopStep(c)
    PROVE  IInv'
<1>. USE DEF IInv
<1>0. /\ conn[c] \in Connection
      /\ conn[c].processing_part =>
           conn[c].stream # "none" /\ conn[c].open /\ conn[c].file_name \in Files
      /\ conn[c].stream = "chunk" => conn[c].processing_part
      /\ writer[c] # NoWriter => Holds(c, writer[c])
      /\ DOMAIN conn = Conns
  BY NoPartNoWriter DEF StreamsWellFormed
<1>1. CASE Accept(c)
  <2>1. Accepted.processing_part = FALSE /\ Accepted.stream = "none"
    BY DEF Accepted, Closed
  <2>2. calls' = <<>> /\ conn' = [conn EXCEPT ![c] = Accepted]
    BY <1>1 DEF Accept, Quiet
  <2>3. writer[c] = NoWriter
    BY <1>0, <1>1 DEF Accept, Holds, InPart
  <2>. QED BY <2>1, <2>2, <2>3, ClosedType, LoopEffect, NoCall
<1>2. CASE RecvRequest(c)
  <2>. DEFINE k == [conn[c] EXCEPT !.stream = "boundary", !.file_name = NoFile]
  <2>1. PICK u \in Users \cup {NoUser} :
          calls' = <<[Calling(c, "MULTIPART_REQUEST") EXCEPT !.who = u]>>
    BY <1>2 DEF RecvRequest
  <2>. DEFINE call == [Calling(c, "MULTIPART_REQUEST") EXCEPT !.who = u]
  <2>2. call \in Call /\ call.on = c /\ call.ev = "MULTIPART_REQUEST"
    BY CallingType DEF Call, Events
  <2>3. CallsWellFormed' /\ BeginsItsPart' /\ calls'[1] = call
    BY <2>1, <2>2, OneCall
  <2>4. conn[c].stream = "none" /\ conn' = [conn EXCEPT ![c] = k]
    BY <1>2 DEF RecvRequest, ReceivingIn
  <2>5. k \in Connection /\ k.stream = "boundary"
        /\ k.processing_part = conn[c].processing_part
    BY <1>0 DEF Connection
  <2>6. writer[c] = NoWriter
    BY <1>0, <2>4 DEF Holds, InPart
  <2>. QED BY <1>0, <2>2, <2>3, <2>4, <2>5, <2>6, LoopEffect
<1>3. CASE RecvPartHeaders(c)
  <2>1. PICK f \in Files :
          /\ conn' = [conn EXCEPT ![c].stream = "chunk",
                                  ![c].processing_part = TRUE,
                                  ![c].file_name = f,
                                  ![c].blocks = 0]
          /\ calls' =
               (IF conn[c].processing_part THEN <<Calling(c, "PART_END")>> ELSE <<>>)
                 \o <<[Calling(c, "PART_BEGIN") EXCEPT !.file_name = f]>>
    BY <1>3 DEF RecvPartHeaders
  <2>. DEFINE k == [conn[c] EXCEPT !.stream = "chunk", !.processing_part = TRUE,
                                   !.file_name = f, !.blocks = 0]
              end == Calling(c, "PART_END")
              begin == [Calling(c, "PART_BEGIN") EXCEPT !.file_name = f]
  <2>2. /\ end \in Call
        /\ end.on = c
        /\ end.ev = "PART_END"
        /\ end.file_name = conn[c].file_name
    BY CallingType DEF Events
  <2>3. /\ begin \in Call
        /\ begin.on = c
        /\ begin.ev = "PART_BEGIN"
        /\ begin.file_name = f
    BY CallingType DEF Call, Events
  <2>4. conn[c].stream = "boundary" /\ conn[c].open
    BY <1>3 DEF RecvPartHeaders, ReceivingIn, Receiving
  <2>5. /\ k \in Connection
        /\ k.open = conn[c].open
        /\ k.stream = "chunk"
        /\ k.processing_part = TRUE
        /\ k.file_name = f
    <3>1. 0 \in Blocks
      BY StreamAssumption DEF Blocks
    <3>. QED BY <1>0, <3>1 DEF Connection
  <2>6. conn' = [conn EXCEPT ![c] = k]
    BY <2>1
  <2>7. InPart(c, f)'
    BY <1>0, <2>4, <2>5, <2>6 DEF InPart
  <2>8. CASE conn[c].processing_part
    <3>1. calls' = <<end, begin>>
      <4>1. calls' = <<end>> \o <<begin>>
        BY <2>1, <2>8, Zenon
      <4>2. <<end>> \o <<begin>> = <<end, begin>>
        BY <2>2, <2>3, TwoInARow
      <4>. QED BY <4>1, <4>2
    <3>2. CallsWellFormed' /\ BeginsItsPart'
      BY <2>2, <2>3, <2>7, <3>1, TwoCalls
    <3>3. writer[c] # NoWriter => PlacedAt(c)'
      BY <1>0, <2>2, <3>1 DEF PlacedAt, Pending, Holds, InPart
    <3>. QED BY <2>2, <2>4, <2>5, <2>6, <3>1, <3>2, <3>3, LoopEffect
  <2>9. CASE ~conn[c].processing_part
    <3>1. calls' = <<begin>>
      BY <2>1, <2>9
    <3>2. CallsWellFormed' /\ BeginsItsPart'
      BY <2>3, <2>7, <3>1, OneCall
    <3>3. writer[c] = NoWriter
      BY <1>0, <2>9 DEF Holds, InPart
    <3>. QED BY <2>3, <2>4, <2>5, <2>6, <3>1, <3>2, <3>3, LoopEffect
  <2>. QED BY <2>8, <2>9
<1>4. CASE RecvData(c)
  <2>. DEFINE k == [conn[c] EXCEPT !.blocks = @ + 1]
              call == [Calling(c, "PART_DATA") EXCEPT !.len = 1]
  <2>1. /\ calls' = <<call>>
        /\ conn' = [conn EXCEPT ![c] = k]
        /\ conn[c].stream = "chunk"
        /\ conn[c].open
        /\ conn[c].blocks < MaxBlocks
    BY <1>4 DEF RecvData, ReceivingIn, Receiving
  <2>2. k \in Connection /\ SameFile(k, c)
    <3>1. conn[c].blocks + 1 \in Blocks
      BY <1>0, <2>1, StreamAssumption DEF Blocks, Connection
    <3>. QED BY <1>0, <3>1 DEF Connection, SameFile
  <2>3. call \in Call /\ call.on = c /\ call.ev = "PART_DATA"
    <3>1. 1 \in Blocks
      BY StreamAssumption DEF Blocks
    <3>. QED BY <3>1, CallingType DEF Call, Events
  <2>4. k.stream = "chunk"
    BY <1>0, <2>1 DEF Connection
  <2>. QED BY <1>0, <2>1, <2>2, <2>3, <2>4, DataIInv
<1>5. CASE RecvDelimiter(c)
  <2>1. PICK n \in {0, 1} :
          /\ conn[c].blocks + n <= MaxBlocks
          /\ conn' = [conn EXCEPT ![c].stream = "boundary", ![c].blocks = @ + n]
          /\ calls' = <<[Calling(c, "PART_DATA") EXCEPT !.len = n]>>
    BY <1>5 DEF RecvDelimiter
  <2>. DEFINE k == [conn[c] EXCEPT !.stream = "boundary", !.blocks = @ + n]
              call == [Calling(c, "PART_DATA") EXCEPT !.len = n]
  <2>2. /\ calls' = <<call>>
        /\ conn' = [conn EXCEPT ![c] = k]
        /\ conn[c].stream = "chunk"
        /\ conn[c].open
    BY <1>5, <2>1 DEF RecvDelimiter, ReceivingIn, Receiving
  <2>3. k \in Connection /\ SameFile(k, c)
    <3>1. conn[c].blocks + n \in Blocks
      BY <1>0, <2>1, StreamAssumption DEF Blocks, Connection
    <3>. QED BY <1>0, <3>1 DEF Connection, SameFile
  <2>4. call \in Call /\ call.on = c /\ call.ev = "PART_DATA"
    <3>1. n \in Blocks
      BY StreamAssumption DEF Blocks
    <3>. QED BY <3>1, CallingType DEF Call, Events
  <2>5. k.stream = "boundary"
    BY <1>0, <2>1 DEF Connection
  <2>. QED BY <1>0, <2>2, <2>3, <2>4, <2>5, DataIInv
<1>6. CASE RecvClosingMark(c)
  <2>. DEFINE k == [conn[c] EXCEPT !.stream = "none", !.processing_part = FALSE,
                                   !.file_name = NoFile, !.blocks = 0]
              end == Calling(c, "PART_END")
              last == [Calling(c, "MULTIPART_REQUEST_END") EXCEPT !.file_name = NoFile]
  <2>1. calls' = <<end, last>> /\ conn' = [conn EXCEPT ![c] = k]
    BY <1>6 DEF RecvClosingMark
  <2>2. last \in Call /\ last.on = c /\ last.ev = "MULTIPART_REQUEST_END"
    BY CallingType DEF Call, Events
  <2>3. /\ k \in Connection
        /\ k.processing_part = FALSE
        /\ k.stream = "none"
    <3>1. 0 \in Blocks
      BY StreamAssumption DEF Blocks
    <3>. QED BY <1>0, <3>1 DEF Connection
  <2>4. /\ end \in Call
        /\ end.on = c
        /\ end.ev = "PART_END"
        /\ end.file_name = conn[c].file_name
    BY CallingType DEF Events
  <2>. QED BY <2>1, <2>2, <2>3, <2>4, EndIInv
<1>7. CASE RecvEnd(c)
  <2>. DEFINE k == [conn[c] EXCEPT !.peer_gone = TRUE, !.send_and_close = TRUE]
  <2>1. calls' = <<>> /\ conn' = [conn EXCEPT ![c] = k]
    BY <1>7 DEF RecvEnd, Quiet
  <2>2. k \in Connection /\ SameFile(k, c) /\ k.stream = conn[c].stream
    BY <1>0 DEF Connection, SameFile
  <2>. QED BY <2>1, <2>2, SilentIInv
<1>n. CASE RecvNoBoundary(c)
  <2>. DEFINE k == [conn[c] EXCEPT !.send_and_close = FALSE,
                                !.close_immediately = TRUE]
  <2>1. calls' = <<>> /\ conn' = [conn EXCEPT ![c] = k]
    BY <1>n DEF RecvNoBoundary, Quiet
  <2>2. k \in Connection /\ SameFile(k, c) /\ k.stream = conn[c].stream
    BY <1>0 DEF Connection, SameFile
  <2>. QED BY <2>1, <2>2, SilentIInv
<1>8. CASE ConnectionFails(c)
  <2>. DEFINE k == [conn[c] EXCEPT !.peer_gone = TRUE, !.close_immediately = TRUE]
  <2>1. calls' = <<>> /\ conn' = [conn EXCEPT ![c] = k]
    BY <1>8 DEF ConnectionFails, Quiet
  <2>2. k \in Connection /\ SameFile(k, c) /\ k.stream = conn[c].stream
    BY <1>0 DEF Connection, SameFile
  <2>. QED BY <2>1, <2>2, SilentIInv
<1>9. CASE Send(c)
  <2>. DEFINE k == [conn[c] EXCEPT !.unsent = FALSE]
  <2>1. calls' = <<>> /\ conn' = [conn EXCEPT ![c] = k]
    BY <1>9 DEF Send, Quiet
  <2>2. k \in Connection /\ SameFile(k, c) /\ k.stream = conn[c].stream
    BY <1>0 DEF Connection, SameFile
  <2>. QED BY <2>1, <2>2, SilentIInv
<1>10. CASE PollClose(c)
  <2>1. Closed.processing_part = FALSE /\ Closed.stream = "none"
    BY DEF Closed
  <2>2. calls' = CallsAtClose(c) /\ conn' = [conn EXCEPT ![c] = Closed]
    BY <1>10 DEF PollClose
  <2>3. CASE conn[c].stream = "none"
    <3>1. calls' = <<>>
      BY <2>2, <2>3 DEF CallsAtClose
    <3>2. writer[c] = NoWriter
      BY <1>0, <2>3 DEF Holds, InPart
    <3>. QED BY <2>1, <2>2, <3>1, <3>2, ClosedType, LoopEffect, NoCall
  <2>4. CASE conn[c].stream # "none"
    <3>. DEFINE end == [Calling(c, "PART_END") EXCEPT !.status = Terminated]
                last == [Calling(c, "MULTIPART_REQUEST_END") EXCEPT
                           !.file_name = NoFile, !.status = Terminated]
    <3>1. calls' = <<end, last>>
      BY <2>2, <2>4 DEF CallsAtClose
    <3>2. /\ end \in Call
          /\ end.on = c
          /\ end.ev = "PART_END"
          /\ end.file_name = conn[c].file_name
      BY CallingType DEF Call, Events, Terminated
    <3>3. last \in Call /\ last.on = c /\ last.ev = "MULTIPART_REQUEST_END"
      <4>. DEFINE l == Calling(c, "MULTIPART_REQUEST_END")
                  m == [l EXCEPT !.file_name = NoFile]
      <4>1. l \in Call /\ l.on = c /\ l.ev = "MULTIPART_REQUEST_END"
        BY CallingType DEF Events
      <4>2. m \in Call /\ m.on = c /\ m.ev = "MULTIPART_REQUEST_END"
        BY <4>1 DEF Call
      <4>3. last = [m EXCEPT !.status = Terminated]
        OBVIOUS
      <4>. HIDE DEF m
      <4>. QED BY <4>2, <4>3 DEF Call, Terminated
    <3>. QED BY <2>1, <2>2, <3>1, <3>2, <3>3, ClosedType, EndIInv
  <2>. QED BY <2>3, <2>4
<1>. QED
  BY <1>1, <1>2, <1>3, <1>4, <1>5, <1>6, <1>7, <1>8, <1>9, <1>10,
     <1>n DEF LoopStep

-----------------------------------------------------------------------------
(* The handler *)

LEMMA Pends ==
    ASSUME IInv, ~Quiet
    PROVE  /\ Len(calls) \in {1, 2}
           /\ Head(calls) = calls[1]
           /\ calls[1] \in Call
           /\ nc = calls[1].on
           /\ nc \in Conns
           /\ \A c \in Conns : Pending(c) <=> c = nc
<1>1. calls \in Seq(Call) /\ calls # <<>> /\ Len(calls) <= 2
  BY DEF IInv, CallsWellFormed, Quiet
<1>2. Len(calls) \in {1, 2}
  <2>. DEFINE n == Len(calls)
  <2>1. n \in Nat \ {0} /\ n <= 2
    BY <1>1, EmptySeq
  <2>. HIDE DEF n
  <2>2. n = 1 \/ n = 2
    BY <2>1
  <2>. QED BY <2>2 DEF n
<1>3. Head(calls) = calls[1]
  BY <1>1
<1>4. calls[1] \in Call
  BY <1>1, <1>2
<1>5. nc = calls[1].on
  BY <1>3 DEF nc
<1>6. nc \in Conns
  BY <1>4, <1>5 DEF Call
<1>. QED BY <1>1, <1>2, <1>3, <1>4, <1>5, <1>6 DEF Pending

(* What is left once a call has been taken. *)
LEMMA TakenEffect ==
    ASSUME IInv, ~Quiet, Taken,
           \A c \in Conns, f \in Files \cup {NoFile} :
               InPart(c, f) => InPart(c, f)'
    PROVE  /\ CallsWellFormed'
           /\ BeginsItsPart'
           /\ calls[1].ev # "PART_END" => calls' = <<>>
           /\ calls[1].ev = "PART_END" =>
                2 \in 1..Len(calls) /\ calls' = <<calls[2]>>
           /\ calls' # <<>> =>
                /\ calls'[1].on = nc
                /\ calls'[1].ev \in {"PART_BEGIN", "MULTIPART_REQUEST_END"}
<1>1. /\ calls \in Seq(Call)
      /\ calls # <<>>
      /\ Len(calls) = 1 => calls[1].ev # "PART_END"
      /\ calls' \in Seq(Call)
      /\ Len(calls') = Len(calls) - 1
      /\ \A i \in 1..Len(calls') : calls'[i] = calls[i + 1]
  <2>1. calls \in Seq(Call) /\ calls # <<>>
    BY DEF IInv, CallsWellFormed, Quiet
  <2>. QED BY <2>1, HeadTailProperties DEF IInv, CallsWellFormed, Taken
<1>2. CASE Len(calls) = 1
  <2>1. calls' = <<>>
    BY <1>1, <1>2, EmptySeq
  <2>. QED BY <1>1, <1>2, <2>1, NoCall
<1>3. CASE Len(calls) = 2
  <2>1. 2 \in 1..Len(calls) /\ calls[2] \in Call
    <3>1. 2 \in 1..Len(calls)
      BY <1>3
    <3>. QED BY <1>1, <3>1, ElementOfSeq
  <2>2. PICK k \in Call : k = calls[2]
    BY <2>1
  <2>3. /\ calls[1].ev = "PART_END"
        /\ k.ev \in {"PART_BEGIN", "MULTIPART_REQUEST_END"}
        /\ k.on = calls[1].on
    BY <1>3, <2>2 DEF IInv, CallsWellFormed
  <2>4. k.ev = "PART_BEGIN" => InPart(k.on, k.file_name)'
    BY <2>1, <2>2 DEF IInv, BeginsItsPart, Call
  <2>5. calls' = <<k>>
    <3>1. Len(calls') = 1
      BY <1>1, <1>3
    <3>2. calls'[1] = calls[1 + 1]
      BY <1>1, <3>1
    <3>. QED BY <1>1, <2>2, <3>1, <3>2
  <2>6. CallsWellFormed' /\ BeginsItsPart'
    BY <2>3, <2>4, <2>5, OneCall
  <2>7. calls' = <<calls[2]>>
    BY <2>2, <2>5
  <2>. QED BY <2>1, <2>2, <2>3, <2>5, <2>6, <2>7, Pends
<1>. QED BY <1>2, <1>3, Pends

LEMMA HandlerEffect ==
    ASSUME IInv, ~Quiet, Taken,
           user' \in Users \cup {NoUser},
           conn' \in [Conns -> Connection],
           \A d \in Conns :
               SameFile(conn'[d], d) /\ conn'[d].stream = conn[d].stream,
           NEW c \in Conns, c = nc,
           NEW w \in OpenFile \cup {NoWriter},
           writer' = [writer EXCEPT ![c] = w],
           w # NoWriter => calls[1].ev # "PART_END" /\ Holds(c, w)
    PROVE  IInv'
<1>1. \A d \in Conns : \A f : InPart(d, f) => InPart(d, f)'
  BY DEF InPart, SameFile
<1>2. /\ CallsWellFormed'
      /\ BeginsItsPart'
      /\ calls[1].ev # "PART_END" => calls' = <<>>
      /\ calls' # <<>> => calls'[1].on = c
  BY <1>1, TakenEffect
<1>3. StreamsWellFormed'
  BY DEF IInv, StreamsWellFormed, SameFile
<1>4. /\ writer' \in [Conns -> OpenFile \cup {NoWriter}]
      /\ writer'[c] = w
      /\ \A d \in Conns : d # c => writer'[d] = writer[d]
  BY DEF IInv, WritersPlaced
<1>5. ASSUME NEW d \in Conns, writer'[d] # NoWriter
      PROVE  PlacedAt(d)'
  <2>1. CASE d = c
    <3>1. calls' = <<>> /\ Holds(c, w)'
      BY <1>1, <1>2, <1>4, <1>5, <2>1 DEF Holds, Opened, InPart, SameFile
    <3>. QED BY <1>4, <2>1, <3>1 DEF PlacedAt, Pending
  <2>2. CASE d # c
    <3>1. writer'[d] = writer[d] /\ ~Pending(d) /\ ~Pending(d)'
      BY <1>2, <1>4, <2>2, Pends DEF Pending
    <3>2. Holds(d, writer[d])
      BY <1>5, <3>1 DEF IInv, WritersPlaced
    <3>3. Holds(d, writer[d])'
      BY <1>1, <3>1, <3>2 DEF Holds, Opened, InPart, SameFile
    <3>. QED BY <3>1, <3>3 DEF PlacedAt
  <2>. QED BY <2>1, <2>2
<1>6. WritersPlaced'
  BY <1>4, <1>5 DEF WritersPlaced, PlacedAt
<1>. QED BY <1>2, <1>3, <1>6 DEF IInv

(* Death closes everything. *)
LEMMA DiesIInv == Dies => IInv'
<1>. SUFFICES ASSUME Dies PROVE IInv'
  OBVIOUS
<1>1. CallsWellFormed' /\ BeginsItsPart'
  BY NoCall DEF Dies
<1>2. StreamsWellFormed'
  BY ClosedType DEF Dies, StreamsWellFormed, Closed
<1>3. WritersPlaced'
  BY DEF Dies, WritersPlaced
<1>. QED BY <1>1, <1>2, <1>3 DEF IInv

LEMMA AnswerEffect ==
    ASSUME IInv, ~Quiet, AnswersAndCloses
    PROVE  /\ conn' \in [Conns -> Connection]
           /\ \A d \in Conns :
                 SameFile(conn'[d], d) /\ conn'[d].stream = conn[d].stream
<1>. DEFINE k == [conn[nc] EXCEPT !.unsent = conn[nc].open,
                                  !.send_and_close = conn[nc].open]
<1>1. nc \in Conns /\ conn \in [Conns -> Connection]
  BY Pends DEF IInv, StreamsWellFormed
<1>2. conn' = [conn EXCEPT ![nc] = k]
  BY DEF AnswersAndCloses
<1>3. k \in Connection /\ SameFile(k, nc) /\ k.stream = conn[nc].stream
  BY <1>1 DEF Connection, SameFile
<1>. HIDE DEF k
<1>. QED BY <1>1, <1>2, <1>3 DEF SameFile

LEMMA LocatedTyped ==
    ASSUME user \in Users \cup {NoUser}, NEW call \in Call,
           NEW p \in Located(call.file_name)
    PROVE  p \in (Users \cup {NoUser}) \X (Files \cup {NoFile})
BY UploadAssumption DEF Located, PathFor, Call

LEMMA HandlerIInv ==
    ASSUME IInv, Handler
    PROVE  IInv'
<1>. USE DEF Called
<1>0. ~Quiet
  BY DEF Handler, MultipartRequest, MultipartRequestNoSession, PartBegin,
         PartBeginNoFile, PartData, PartDataLost, PartEnd, PartEndNoDatabase,
         PartWithoutWriter, MultipartRequestEnd
<1>1. PICK c \in Conns : c = nc
  BY <1>0, Pends
<1>2. /\ Head(calls) = calls[1]
      /\ calls[1] \in Call
      /\ Pending(c)
  BY <1>0, <1>1, Pends
<1>3. /\ user \in Users \cup {NoUser}
      /\ writer \in [Conns -> OpenFile \cup {NoWriter}]
      /\ writer[c] # NoWriter =>
           \/ calls[1].ev = "PART_DATA" /\ Holds(c, writer[c])
           \/ calls[1].ev = "PART_END" /\ Opened(writer[c], calls[1].file_name)
  BY <1>2 DEF IInv, WritersPlaced
<1>4. conn' = conn =>
        /\ conn' \in [Conns -> Connection]
        /\ \A d \in Conns :
              SameFile(conn'[d], d) /\ conn'[d].stream = conn[d].stream
  BY DEF IInv, StreamsWellFormed, SameFile
<1>5. writer' = writer => writer' = [writer EXCEPT ![c] = writer[c]]
  BY <1>3
<1>6. CASE MultipartRequest
  <2>1. writer[c] = NoWriter
    BY <1>2, <1>3, <1>6 DEF MultipartRequest
  <2>2. user' \in Users \cup {NoUser}
    BY <1>2, <1>6 DEF MultipartRequest, Call
  <2>3. Taken /\ conn' = conn /\ writer' = writer
    BY <1>6 DEF MultipartRequest
  <2>. QED BY <1>0, <1>1, <1>4, <1>5, <2>1, <2>2, <2>3, HandlerEffect
<1>7. CASE MultipartRequestNoSession
  BY <1>7, DiesIInv DEF MultipartRequestNoSession
<1>8. CASE PartBegin
  <2>1. writer[c] = NoWriter /\ calls[1].ev = "PART_BEGIN"
    BY <1>2, <1>3, <1>8 DEF PartBegin
  <2>p. PICK p \in Located(calls[1].file_name) :
          writer' = [writer EXCEPT ![c] = [path |-> p, pos |-> 0, buffered |-> 0]]
    BY <1>1, <1>2, <1>8, <2>1 DEF PartBegin
  <2>. DEFINE w == [path |-> p, pos |-> 0, buffered |-> 0]
  <2>2. /\ Taken
        /\ conn' = conn
        /\ user' = user
        /\ writer' = [writer EXCEPT ![c] = w]
    BY <1>8, <2>p DEF PartBegin
  <2>i. InPart(c, calls[1].file_name)
    <3>1. 1 \in 1..Len(calls)
      BY <1>0, Pends
    <3>. QED BY <1>0, <1>1, <2>1, <3>1, Pends DEF IInv, BeginsItsPart
  <2>3. w \in OpenFile /\ Opened(w, calls[1].file_name)
    <3>1. w \in OpenFile
      BY <1>2, <1>3, LocatedTyped DEF OpenFile
    <3>2. calls[1].file_name \in Files
      BY <2>i DEF IInv, StreamsWellFormed, InPart
    <3>. QED BY <3>1, <3>2 DEF Opened, Located, PathFor
  <2>4. Holds(c, w)
    BY <2>3, <2>i DEF Holds, InPart
  <2>. HIDE DEF w
  <2>. QED BY <1>0, <1>1, <1>3, <1>4, <2>1, <2>2, <2>3, <2>4, HandlerEffect
<1>9. CASE PartBeginNoFile
  <2>1. /\ Taken
        /\ AnswersAndCloses
        /\ user' = user
        /\ writer' = writer
        /\ writer[c] = NoWriter
    BY <1>1, <1>9 DEF PartBeginNoFile, serverVars
  <2>. QED BY <1>0, <1>1, <1>3, <1>5, <2>1, AnswerEffect, HandlerEffect
<1>10. CASE PartData
  <2>1. writer[c] \in OpenFile /\ Holds(c, writer[c])
        /\ calls[1].ev = "PART_DATA"
    BY <1>1, <1>2, <1>3, <1>10 DEF PartData
  <2>2. writer[c].buffered + calls[1].len \in Nat
    BY <1>2, <2>1, StreamAssumption DEF OpenFile, Call, Blocks
  <2>3. /\ Taken
        /\ conn' = conn
        /\ user' = user
    BY <1>10 DEF PartData
  <2>. DEFINE held == writer[c].buffered + calls[1].len
              kept == [writer[c] EXCEPT !.buffered = held]
              passed == [writer[c] EXCEPT !.pos = @ + held, !.buffered = 0]
  <2>4. kept \in OpenFile /\ kept.path = writer[c].path
    BY <2>1, <2>2 DEF OpenFile
  <2>5. passed \in OpenFile /\ passed.path = writer[c].path
    <3>1. writer[c].pos + held \in Nat
      BY <2>1, <2>2 DEF OpenFile
    <3>. QED BY <2>1, <3>1 DEF OpenFile
  <2>6. \/ writer' = [writer EXCEPT ![c] = kept]
        \/ writer' = [writer EXCEPT ![c] = passed]
    BY <1>1, <1>2, <1>10 DEF PartData
  <2>. HIDE DEF held, kept, passed
  <2>7. PICK w \in OpenFile :
          w.path = writer[c].path /\ writer' = [writer EXCEPT ![c] = w]
    BY <2>4, <2>5, <2>6
  <2>8. Holds(c, w) /\ calls[1].ev # "PART_END"
    BY <2>1, <2>7 DEF Holds, Opened
  <2>. QED BY <1>0, <1>1, <1>3, <1>4, <2>3, <2>7, <2>8, HandlerEffect
<1>11. CASE PartDataLost
  <2>1. /\ Taken
        /\ AnswersAndCloses
        /\ user' = user
        /\ writer' = writer
        /\ calls[1].ev = "PART_DATA"
    BY <1>2, <1>11 DEF PartDataLost, serverVars
  <2>. QED BY <1>0, <1>1, <1>3, <1>5, <2>1, AnswerEffect, HandlerEffect
<1>12. CASE PartEnd
  <2>1. /\ Taken
        /\ AnswersAndCloses
        /\ user' = user
        /\ writer' = [writer EXCEPT ![c] = NoWriter]
    BY <1>1, <1>12 DEF PartEnd
  <2>. QED BY <1>0, <1>1, <1>3, <2>1, AnswerEffect, HandlerEffect
<1>13. CASE PartEndNoDatabase
  BY <1>13, DiesIInv DEF PartEndNoDatabase
<1>14. CASE PartWithoutWriter
  BY <1>14, DiesIInv DEF PartWithoutWriter
<1>15. CASE MultipartRequestEnd
  <2>1. /\ Taken
        /\ conn' = conn
        /\ user' = user
        /\ writer' = writer
        /\ calls[1].ev = "MULTIPART_REQUEST_END"
    BY <1>2, <1>15 DEF MultipartRequestEnd, serverVars
  <2>. QED BY <1>0, <1>1, <1>3, <1>4, <1>5, <2>1, HandlerEffect
<1>. QED
  BY <1>6, <1>7, <1>8, <1>9, <1>10, <1>11, <1>12, <1>13, <1>14, <1>15
  DEF Handler

-----------------------------------------------------------------------------

LEMMA StutterIInv ==
    ASSUME IInv, UNCHANGED <<conn, calls, user, writer>>
    PROVE  IInv'
BY DEF IInv, CallsWellFormed, StreamsWellFormed, BeginsItsPart, WritersPlaced,
       Holds, Opened, InPart, Pending

LEMMA NextIInv == IInv /\ [Next]_vars => IInv'
<1>. SUFFICES ASSUME IInv, [Next]_vars PROVE IInv'
  OBVIOUS
<1>1. ASSUME NEW c \in Conns, Loop(c) PROVE IInv'
  BY <1>1, LoopIInv DEF Loop, LoopStep, serverVars
<1>2. CASE Handler
  BY <1>2, HandlerIInv
<1>3. CASE Kill
  BY <1>3, DiesIInv DEF Kill
<1>4. CASE Restart
  BY <1>4, StutterIInv DEF Restart
<1>5. CASE UNCHANGED vars
  BY <1>5, StutterIInv DEF vars, serverVars
<1>. QED BY <1>1, <1>2, <1>3, <1>4, <1>5 DEF Next

(* IInv holds of every state the server reaches, whatever goes wrong. *)
THEOREM Invariance == Spec => []IInv
BY InitIInv, NextIInv, PTL DEF Spec

(* WriterMatchesPart for any number of connections: an upload's open file    *)
(* never outlives the part or the connection it belongs to, a part never   *)
(* finds another part's file open, and the file has the part's name if that    *)
(* is plain.                                                               *)
THEOREM WritersMatchTheirParts == Spec => []WriterMatchesPart
BY Invariance, PlacedWritersMatch, PTL

-----------------------------------------------------------------------------

(* What the files hold *)

(* The request of c has been read and the handler not been told of it yet. *)
Asking(c) == Pending(c) /\ calls[1].ev = "MULTIPART_REQUEST"

UploadTypes ==
    /\ up \in BOOLEAN
    /\ disk \in [Paths -> Contents \cup {Absent}]
    /\ rows \in [Paths -> Nat]
    /\ sender \in [Conns -> Users \cup {NoUser}]
    /\ sent \in SUBSET Paths
    /\ failed \in [Conns -> BOOLEAN]
    /\ shared \in [Conns -> BOOLEAN]

(* A request the server has gone on with has a user, and a part has a name. *)
RequestsKnown ==
    \A c \in Conns :
        /\ conn[c].processing_part => conn[c].file_name \in Files
        /\ conn[c].stream # "none" /\ ~Asking(c) =>
             sender[c] \in Users /\ user \in Users

(* The calls say how much of the part has been passed on before them. *)
CallsCounted ==
    \A i \in 1..Len(calls) :
        /\ calls[i].ev = "PART_DATA" =>
             calls[i].had + calls[i].len = conn[calls[i].on].blocks
        /\ calls[i].ev = "PART_BEGIN" => conn[calls[i].on].blocks = 0

(* The blocks the handler has been given of the part of c. *)
Given(c) == IF Pending(c) THEN calls[1].had ELSE conn[c].blocks

(* An open file has the blocks its handler was given but for those that were *)
(* lost, and unless others write to it too, nothing else.                  *)
WriterCounts(c) ==
    /\ writer[c] \in [path : Paths, pos : Nat, buffered : Nat]
    /\ user \in Users
    /\ Wrote(writer[c]) <= Given(c)
    /\ failed[c] = FALSE => Wrote(writer[c]) = Given(c)
    /\ disk[writer[c].path] # Absent
    /\ shared[c] = FALSE =>
         disk[writer[c].path] = [i \in 1..writer[c].pos |-> c]

(* Whoever writes to a file another one writes to is marked. *)
SharersMarked ==
    \A c, d \in Conns :
        /\ c # d
        /\ writer[c] # NoWriter
        /\ writer[d] # NoWriter
        /\ writer[c].path = writer[d].path
        => shared[c] = TRUE

UInv ==
    /\ UploadTypes
    /\ RequestsKnown
    /\ CallsCounted
    /\ \A c \in Conns : writer[c] # NoWriter => WriterCounts(c)
    /\ SharersMarked


-----------------------------------------------------------------------------

LEMMA ContentsAre ==
    /\ \A s \in Contents : /\ Len(s) \in Nat /\ Len(s) <= MaxBlocks
                           /\ s \in [1..Len(s) -> Conns \cup {Hole}]
    /\ \A n \in Nat : \A s \in [1..n -> Conns \cup {Hole}] :
         n <= MaxBlocks => s \in Contents
<1>1. MaxBlocks \in Nat
  BY StreamAssumption
<1>2. ASSUME NEW s \in Contents
      PROVE  /\ Len(s) \in Nat /\ Len(s) <= MaxBlocks
             /\ s \in [1..Len(s) -> Conns \cup {Hole}]
  <2>1. PICK n \in 0..MaxBlocks : s \in [1..n -> Conns \cup {Hole}]
    BY DEF Contents
  <2>2. Len(s) = n
    BY <1>1, <2>1
  <2>. QED BY <1>1, <2>1, <2>2
<1>3. ASSUME NEW n \in Nat, NEW s \in [1..n -> Conns \cup {Hole}], n <= MaxBlocks
      PROVE  s \in Contents
  <2>1. n \in 0..MaxBlocks
    BY <1>1, <1>3
  <2>. QED BY <2>1 DEF Contents
<1>. QED BY <1>2, <1>3

(* An empty file holds what a writer has written that has written nothing. *)
LEMMA EmptyIs == ASSUME NEW c PROVE <<>> \in Contents /\ <<>> = [i \in 1..0 |-> c]
<1>1. <<>> = [i \in 1..0 |-> c]
  OBVIOUS
<1>2. <<>> \in [1..0 -> Conns \cup {Hole}]
  OBVIOUS
<1>3. 0 <= MaxBlocks
  BY StreamAssumption
<1>. QED BY <1>1, <1>2, <1>3, ContentsAre

(* Blocks that reach a file stay within it, and go behind those of the same  *)
(* writer if it is alone.                                                  *)
(* A file of n blocks, all of c. *)
OwnBlocks(c, n) == [i \in 1..n |-> c]

LEMMA WrittenIs ==
    ASSUME NEW s \in Contents, NEW w, NEW n \in Nat, NEW c \in Conns,
           w.pos \in Nat, w.pos + n <= MaxBlocks
    PROVE  /\ Written(s, w, n, c) \in Contents
           /\ s = OwnBlocks(c, w.pos) =>
                Written(s, w, n, c) = OwnBlocks(c, w.pos + n)
<1>. USE DEF OwnBlocks
<1>. DEFINE p == w.pos
            last == IF Len(s) > p + n THEN Len(s) ELSE p + n
            t == [i \in 1..last |->
                    IF i \in (p + 1)..(p + n) THEN c
                    ELSE IF i <= Len(s) THEN s[i] ELSE Hole]
<1>1. /\ Len(s) \in Nat /\ Len(s) <= MaxBlocks
      /\ s \in [1..Len(s) -> Conns \cup {Hole}]
      /\ MaxBlocks \in Nat
  BY ContentsAre, StreamAssumption
<1>2. CASE n = 0
  <2>1. Written(s, w, n, c) = s
    BY <1>2 DEF Written
  <2>2. w.pos + n = w.pos
    BY <1>2
  <2>. QED BY <2>1, <2>2
<1>3. CASE n # 0
  <2>1. Written(s, w, n, c) = t
    BY <1>3 DEF Written
  <2>2. last \in Nat /\ last <= MaxBlocks
    BY <1>1
  <2>3. t \in Contents
    <3>1. t \in [1..last -> Conns \cup {Hole}]
      BY <1>1
    <3>. HIDE DEF t, last
    <3>. QED BY <2>2, <3>1, ContentsAre
  <2>4. ASSUME s = [i \in 1..p |-> c]
        PROVE  t = [i \in 1..(p + n) |-> c]
    <3>1. Len(s) = p
      BY <2>4
    <3>2. last = p + n
      BY <3>1
    <3>3. ASSUME NEW i \in 1..(p + n), i \notin (p + 1)..(p + n)
          PROVE  i <= Len(s) /\ s[i] = c
      <4>1. i \in 1..p
        BY <3>3
      <4>. QED BY <2>4, <3>1, <4>1
    <3>4. \A i \in 1..(p + n) : t[i] = c
      BY <3>2, <3>3
    <3>. QED BY <3>2, <3>4
  <2>. QED BY <2>1, <2>3, <2>4
<1>. QED BY <1>2, <1>3

-----------------------------------------------------------------------------
(* The loop gives the handler what it counts. *)

LEMMA NoneCounted == calls' = <<>> => CallsCounted'
BY DEF CallsCounted

LEMMA OneCounted ==
    ASSUME NEW k \in Call, calls' = <<k>>,
           k.ev = "PART_DATA" => k.had + k.len = conn'[k.on].blocks,
           k.ev = "PART_BEGIN" => conn'[k.on].blocks = 0
    PROVE  CallsCounted'
BY DEF CallsCounted

LEMMA TwoCounted ==
    ASSUME NEW j \in Call, NEW k \in Call, calls' = <<j, k>>,
           j.ev = "PART_END", k.ev # "PART_DATA",
           k.ev = "PART_BEGIN" => conn'[k.on].blocks = 0
    PROVE  CallsCounted'
<1>1. Len(calls') = 2 /\ calls'[1] = j /\ calls'[2] = k
  OBVIOUS
<1>2. \A i \in 1..2 : i = 1 \/ i = 2
  OBVIOUS
<1>. QED BY <1>1, <1>2 DEF CallsCounted

(* What a step leaves of connection c, and what it has the handler told. *)
LoopLeaves(c, k) ==
    /\ k \in Connection
    /\ conn' = [conn EXCEPT ![c] = k]
    /\ k.processing_part => k.file_name \in Files
    /\ CallsCounted'
    /\ calls' # <<>> => calls'[1].on = c
    /\ k.stream # "none" /\ ~(calls' # <<>> /\ calls'[1].ev = "MULTIPART_REQUEST")
         => conn[c].stream # "none"
    /\ writer[c] # NoWriter =>
         IF calls' = <<>> THEN k.blocks = conn[c].blocks
         ELSE calls'[1].had = conn[c].blocks

LEMMA LoopShape ==
    ASSUME IInv, UInv, Quiet, NEW c \in Conns, LoopStep(c)
    PROVE  \E k \in Connection : LoopLeaves(c, k)
<1>0. /\ conn \in [Conns -> Connection] /\ conn[c] \in Connection
      /\ conn[c].processing_part =>
           conn[c].stream # "none" /\ conn[c].open /\ conn[c].file_name \in Files
      /\ conn[c].stream = "chunk" => conn[c].processing_part
      /\ writer[c] # NoWriter => conn[c].processing_part /\ conn[c].open
      /\ conn[c].blocks \in Blocks /\ 0 \in Blocks
  BY NoPartNoWriter, StreamAssumption
     DEF IInv, UInv, StreamsWellFormed, RequestsKnown, Holds, InPart, Connection, Blocks
<1>1. CASE Accept(c)
  <2>1. /\ Accepted \in Connection
        /\ Accepted.processing_part = FALSE /\ Accepted.stream = "none"
    BY ClosedType DEF Accepted, Closed
  <2>2. calls' = <<>> /\ conn' = [conn EXCEPT ![c] = Accepted]
    BY <1>1 DEF Accept, Quiet
  <2>3. writer[c] = NoWriter
    BY <1>0, <1>1 DEF Accept
  <2>. QED BY <2>1, <2>2, <2>3, NoneCounted DEF LoopLeaves
<1>2. CASE RecvRequest(c)
  <2>. DEFINE k == [conn[c] EXCEPT !.stream = "boundary", !.file_name = NoFile]
  <2>1. PICK u \in Users \cup {NoUser} :
          calls' = <<[Calling(c, "MULTIPART_REQUEST") EXCEPT !.who = u]>>
    BY <1>2 DEF RecvRequest
  <2>. DEFINE call == [Calling(c, "MULTIPART_REQUEST") EXCEPT !.who = u]
  <2>2. call \in Call /\ call.on = c /\ call.ev = "MULTIPART_REQUEST"
    BY CallingType DEF IInv, Call, Events
  <2>3. CallsCounted' /\ calls' # <<>> /\ calls'[1] = call
    BY <2>1, <2>2, OneCounted
  <2>4. conn[c].stream = "none" /\ conn' = [conn EXCEPT ![c] = k]
    BY <1>2 DEF RecvRequest, ReceivingIn
  <2>5. k \in Connection /\ k.processing_part = conn[c].processing_part
    BY <1>0 DEF Connection
  <2>6. writer[c] = NoWriter /\ ~conn[c].processing_part
    BY <1>0, <2>4
  <2>. HIDE DEF k, call
  <2>. QED BY <2>2, <2>3, <2>4, <2>5, <2>6 DEF LoopLeaves
<1>3. CASE RecvPartHeaders(c)
  <2>1. PICK f \in Files :
          /\ conn' = [conn EXCEPT ![c].stream = "chunk",
                                  ![c].processing_part = TRUE,
                                  ![c].file_name = f,
                                  ![c].blocks = 0]
          /\ calls' =
               (IF conn[c].processing_part THEN <<Calling(c, "PART_END")>> ELSE <<>>)
                 \o <<[Calling(c, "PART_BEGIN") EXCEPT !.file_name = f]>>
    BY <1>3 DEF RecvPartHeaders
  <2>. DEFINE k == [conn[c] EXCEPT !.stream = "chunk", !.processing_part = TRUE,
                                   !.file_name = f, !.blocks = 0]
              end == Calling(c, "PART_END")
              begin == [Calling(c, "PART_BEGIN") EXCEPT !.file_name = f]
  <2>2. end \in Call /\ end.on = c /\ end.ev = "PART_END" /\ end.had = conn[c].blocks
    BY CallingType DEF IInv, Events, Calling
  <2>3. begin \in Call /\ begin.on = c /\ begin.ev = "PART_BEGIN"
    BY CallingType DEF IInv, Call, Events
  <2>4. conn[c].stream = "boundary"
    BY <1>3 DEF RecvPartHeaders, ReceivingIn
  <2>5. /\ k \in Connection
        /\ k.file_name = f
        /\ k.blocks = 0
    BY <1>0 DEF Connection
  <2>6. conn' = [conn EXCEPT ![c] = k]
    BY <2>1
  <2>7. conn'[c].blocks = 0
    BY <1>0, <2>5, <2>6
  <2>8. CASE conn[c].processing_part
    <3>1. calls' = <<end, begin>>
      <4>1. calls' = <<end>> \o <<begin>>
        BY <2>1, <2>8, Zenon
      <4>2. <<end>> \o <<begin>> = <<end, begin>>
        BY <2>2, <2>3, TwoInARow
      <4>. QED BY <4>1, <4>2
    <3>. HIDE DEF k, end, begin
    <3>2. CallsCounted'
      BY <2>2, <2>3, <2>7, <3>1, TwoCounted
    <3>3. calls' # <<>> /\ calls'[1] = end
      BY <3>1
    <3>. QED BY <2>2, <2>4, <2>5, <2>6, <3>2, <3>3 DEF LoopLeaves
  <2>9. CASE ~conn[c].processing_part
    <3>1. calls' = <<begin>>
      BY <2>1, <2>9
    <3>. HIDE DEF k, end, begin
    <3>2. CallsCounted'
      BY <2>3, <2>7, <3>1, OneCounted
    <3>3. writer[c] = NoWriter
      BY <1>0, <2>9
    <3>. QED BY <2>3, <2>4, <2>5, <2>6, <3>1, <3>2, <3>3 DEF LoopLeaves
  <2>. QED BY <2>8, <2>9
<1>4. ASSUME NEW n \in {0, 1}, NEW s \in {"boundary", "chunk"},
             conn[c].stream = "chunk", conn[c].blocks + n <= MaxBlocks,
             conn' = [conn EXCEPT ![c].stream = s, ![c].blocks = @ + n],
             calls' = <<[Calling(c, "PART_DATA") EXCEPT !.len = n]>>
      PROVE  \E k \in Connection : LoopLeaves(c, k)
  <2>. DEFINE k == [conn[c] EXCEPT !.stream = s, !.blocks = @ + n]
              call == [Calling(c, "PART_DATA") EXCEPT !.len = n]
  <2>1. calls' = <<call>> /\ conn' = [conn EXCEPT ![c] = k]
    BY <1>4
  <2>2. /\ k \in Connection
        /\ k.processing_part = conn[c].processing_part
        /\ k.file_name = conn[c].file_name
        /\ k.blocks = conn[c].blocks + n
    <3>1. conn[c].blocks + n \in Blocks
      BY <1>0, <1>4, StreamAssumption DEF Blocks
    <3>. QED BY <1>0, <3>1 DEF Connection
  <2>3. /\ call \in Call /\ call.on = c /\ call.ev = "PART_DATA"
        /\ call.had = conn[c].blocks /\ call.len = n
    <3>1. n \in Blocks
      BY StreamAssumption DEF Blocks
    <3>. QED BY <3>1, CallingType DEF IInv, Call, Calling, Events
  <2>. HIDE DEF k, call
  <2>4. conn'[c].blocks = call.had + call.len
    BY <1>0, <2>1, <2>2, <2>3
  <2>5. CallsCounted' /\ calls' # <<>> /\ calls'[1] = call
    BY <2>1, <2>3, <2>4, OneCounted
  <2>. QED BY <1>0, <1>4, <2>1, <2>2, <2>3, <2>5 DEF LoopLeaves
<1>5. CASE RecvData(c)
  <2>1. /\ conn[c].stream = "chunk" /\ conn[c].blocks + 1 <= MaxBlocks
        /\ conn' = [conn EXCEPT ![c].stream = "chunk", ![c].blocks = @ + 1]
        /\ calls' = <<[Calling(c, "PART_DATA") EXCEPT !.len = 1]>>
    <3>1. conn[c].stream = "chunk" /\ conn[c].blocks < MaxBlocks
          /\ conn' = [conn EXCEPT ![c].blocks = @ + 1]
          /\ calls' = <<[Calling(c, "PART_DATA") EXCEPT !.len = 1]>>
      BY <1>5 DEF RecvData, ReceivingIn
    <3>2. [conn[c] EXCEPT !.blocks = @ + 1] =
            [conn[c] EXCEPT !.stream = "chunk", !.blocks = @ + 1]
      BY <1>0, <3>1 DEF Connection
    <3>3. conn' = [conn EXCEPT ![c].stream = "chunk", ![c].blocks = @ + 1]
      BY <3>1, <3>2
    <3>4. conn[c].blocks + 1 <= MaxBlocks
      BY <1>0, <3>1, StreamAssumption DEF Blocks
    <3>. QED BY <3>1, <3>3, <3>4
  <2>. QED BY <1>4, <2>1
<1>6. CASE RecvDelimiter(c)
  BY <1>4, <1>6 DEF RecvDelimiter, ReceivingIn
<1>7. CASE RecvClosingMark(c)
  <2>. DEFINE k == [conn[c] EXCEPT !.stream = "none", !.processing_part = FALSE,
                                   !.file_name = NoFile, !.blocks = 0]
              end == Calling(c, "PART_END")
              last == [Calling(c, "MULTIPART_REQUEST_END") EXCEPT !.file_name = NoFile]
  <2>1. calls' = <<end, last>> /\ conn' = [conn EXCEPT ![c] = k]
    BY <1>7 DEF RecvClosingMark
  <2>2. last \in Call /\ last.on = c /\ last.ev = "MULTIPART_REQUEST_END"
    BY CallingType DEF IInv, Call, Events
  <2>3. k \in Connection /\ k.processing_part = FALSE /\ k.stream = "none"
    BY <1>0 DEF Connection
  <2>4. end \in Call /\ end.on = c /\ end.ev = "PART_END" /\ end.had = conn[c].blocks
    BY CallingType DEF IInv, Events, Calling
  <2>. HIDE DEF k, end, last
  <2>5. CallsCounted' /\ calls' # <<>> /\ calls'[1] = end
    BY <2>1, <2>2, <2>4, TwoCounted
  <2>. QED BY <2>1, <2>3, <2>4, <2>5 DEF LoopLeaves
<1>8. ASSUME NEW k \in Connection, conn' = [conn EXCEPT ![c] = k], calls' = <<>>,
             SameFile(k, c), k.stream = conn[c].stream, k.blocks = conn[c].blocks
      PROVE  LoopLeaves(c, k)
  BY <1>0, <1>8, NoneCounted DEF LoopLeaves, SameFile
<1>9. CASE RecvEnd(c)
  <2>. DEFINE k == [conn[c] EXCEPT !.peer_gone = TRUE, !.send_and_close = TRUE]
  <2>1. calls' = <<>> /\ conn' = [conn EXCEPT ![c] = k]
    BY <1>9 DEF RecvEnd, Quiet
  <2>2. /\ k \in Connection /\ SameFile(k, c)
        /\ k.stream = conn[c].stream /\ k.blocks = conn[c].blocks
    BY <1>0 DEF Connection, SameFile
  <2>. HIDE DEF k
  <2>. QED BY <1>8, <2>1, <2>2
<1>n. CASE RecvNoBoundary(c)
  <2>. DEFINE k == [conn[c] EXCEPT !.send_and_close = FALSE,
                                !.close_immediately = TRUE]
  <2>1. calls' = <<>> /\ conn' = [conn EXCEPT ![c] = k]
    BY <1>n DEF RecvNoBoundary, Quiet
  <2>2. /\ k \in Connection /\ SameFile(k, c)
        /\ k.stream = conn[c].stream /\ k.blocks = conn[c].blocks
    BY <1>0 DEF Connection, SameFile
  <2>. HIDE DEF k
  <2>. QED BY <1>8, <2>1, <2>2
<1>10. CASE ConnectionFails(c)
  <2>. DEFINE k == [conn[c] EXCEPT !.peer_gone = TRUE, !.close_immediately = TRUE]
  <2>1. calls' = <<>> /\ conn' = [conn EXCEPT ![c] = k]
    BY <1>10 DEF ConnectionFails, Quiet
  <2>2. /\ k \in Connection /\ SameFile(k, c)
        /\ k.stream = conn[c].stream /\ k.blocks = conn[c].blocks
    BY <1>0 DEF Connection, SameFile
  <2>. HIDE DEF k
  <2>. QED BY <1>8, <2>1, <2>2
<1>11. CASE Send(c)
  <2>. DEFINE k == [conn[c] EXCEPT !.unsent = FALSE]
  <2>1. calls' = <<>> /\ conn' = [conn EXCEPT ![c] = k]
    BY <1>11 DEF Send, Quiet
  <2>2. /\ k \in Connection /\ SameFile(k, c)
        /\ k.stream = conn[c].stream /\ k.blocks = conn[c].blocks
    BY <1>0 DEF Connection, SameFile
  <2>. HIDE DEF k
  <2>. QED BY <1>8, <2>1, <2>2
<1>12. CASE PollClose(c)
  <2>1. /\ Closed \in Connection
        /\ Closed.processing_part = FALSE /\ Closed.stream = "none"
    BY ClosedType DEF Closed
  <2>2. calls' = CallsAtClose(c) /\ conn' = [conn EXCEPT ![c] = Closed]
    BY <1>12 DEF PollClose
  <2>3. CASE conn[c].stream = "none"
    <3>1. calls' = <<>> /\ writer[c] = NoWriter
      BY <1>0, <2>2, <2>3 DEF CallsAtClose
    <3>. QED BY <2>1, <2>2, <3>1, NoneCounted DEF LoopLeaves
  <2>4. CASE conn[c].stream # "none"
    <3>. DEFINE l == Calling(c, "MULTIPART_REQUEST_END")
                end == [Calling(c, "PART_END") EXCEPT !.status = Terminated]
                m == [l EXCEPT !.file_name = NoFile]
                last == [l EXCEPT !.file_name = NoFile, !.status = Terminated]
    <3>1. calls' = <<end, last>>
      BY <2>2, <2>4 DEF CallsAtClose
    <3>2. end \in Call /\ end.on = c /\ end.ev = "PART_END" /\ end.had = conn[c].blocks
      BY CallingType DEF IInv, Call, Events, Terminated, Calling
    <3>3. last \in Call /\ last.ev = "MULTIPART_REQUEST_END"
      <4>1. l \in Call /\ l.ev = "MULTIPART_REQUEST_END"
        BY CallingType DEF IInv, Events
      <4>2. m \in Call /\ m.ev = "MULTIPART_REQUEST_END"
        BY <4>1 DEF Call
      <4>3. last = [m EXCEPT !.status = Terminated]
        OBVIOUS
      <4>. HIDE DEF m
      <4>. QED BY <4>2, <4>3 DEF Call, Terminated
    <3>. HIDE DEF end, last
    <3>4. CallsCounted' /\ calls' # <<>> /\ calls'[1] = end
      BY <3>1, <3>2, <3>3, TwoCounted
    <3>. QED BY <2>1, <2>2, <3>2, <3>4 DEF LoopLeaves
  <2>. QED BY <2>3, <2>4
<1>. QED BY <1>1, <1>2, <1>3, <1>5, <1>6, <1>7, <1>9, <1>10, <1>n, <1>11, <1>12
         DEF LoopStep

LEMMA LoopUInv ==
    ASSUME IInv, UInv, NEW c \in Conns, Loop(c)
    PROVE  UInv'
<1>0. /\ Quiet /\ LoopStep(c)
      /\ up' = up /\ user' = user /\ writer' = writer /\ disk' = disk /\ rows' = rows
      /\ sender' = sender /\ sent' = sent /\ failed' = failed /\ shared' = shared
  BY DEF Loop, LoopStep, serverVars, historyVars
<1>1. PICK k \in Connection : LoopLeaves(c, k)
  BY <1>0, LoopShape
<1>2. /\ conn'[c] = k
      /\ \A d \in Conns : d # c => conn'[d] = conn[d]
      /\ \A d \in Conns : ~Pending(d)
  BY <1>0, <1>1 DEF IInv, StreamsWellFormed, LoopLeaves, Quiet, Pending
<1>3. \A d \in Conns : d # c => ~Pending(d)'
  BY <1>1 DEF LoopLeaves, Pending
<1>4. UploadTypes'
  BY <1>0 DEF UInv, UploadTypes
<1>5. RequestsKnown'
  <2>1. ASSUME NEW d \in Conns, d # c
        PROVE  /\ conn'[d].processing_part => conn'[d].file_name \in Files
               /\ conn'[d].stream # "none" => sender[d] \in Users /\ user \in Users
    BY <1>2, <2>1 DEF UInv, RequestsKnown, Asking
  <2>2. /\ k.processing_part => k.file_name \in Files
        /\ k.stream # "none" /\ ~Asking(c)' => sender[c] \in Users /\ user \in Users
    <3>1. ~Asking(c)' => ~(calls' # <<>> /\ calls'[1].ev = "MULTIPART_REQUEST")
      BY <1>1 DEF LoopLeaves, Asking, Pending
    <3>2. ~Asking(c)
      BY <1>2 DEF Asking
    <3>. QED BY <1>1, <3>1, <3>2 DEF LoopLeaves, UInv, RequestsKnown
  <2>. QED BY <1>0, <1>2, <2>1, <2>2 DEF RequestsKnown
<1>6. CallsCounted'
  BY <1>1 DEF LoopLeaves
<1>7. ASSUME NEW d \in Conns, writer'[d] # NoWriter
      PROVE  WriterCounts(d)'
  <2>1. WriterCounts(d)
    BY <1>0, <1>7 DEF UInv
  <2>2. Given(d)' = Given(d)
    <3>1. CASE d # c
      BY <1>2, <1>3, <3>1 DEF Given
    <3>2. CASE d = c
      <4>1. CASE calls' = <<>>
        BY <1>0, <1>1, <1>2, <1>7, <3>2, <4>1 DEF Given, Pending, LoopLeaves
      <4>2. CASE calls' # <<>>
        BY <1>0, <1>1, <1>2, <1>7, <3>2, <4>2 DEF Given, Pending, LoopLeaves
      <4>. QED BY <4>1, <4>2
    <3>. QED BY <3>1, <3>2
  <2>. QED BY <1>0, <2>1, <2>2 DEF WriterCounts
<1>8. SharersMarked'
  BY <1>0 DEF UInv, SharersMarked
<1>. QED BY <1>4, <1>5, <1>6, <1>7, <1>8 DEF UInv

-----------------------------------------------------------------------------
(* The handler does with files and rows what it is to. *)

SameStream(k, c) ==
    /\ SameFile(k, c)
    /\ k.stream = conn[c].stream
    /\ k.blocks = conn[c].blocks

LEMMA AnswerKeepsStreams ==
    ASSUME IInv, ~Quiet, AnswersAndCloses
    PROVE  \A d \in Conns : SameStream(conn'[d], d)
<1>. DEFINE k == [conn[nc] EXCEPT !.unsent = conn[nc].open,
                                  !.send_and_close = conn[nc].open]
<1>1. nc \in Conns /\ conn \in [Conns -> Connection]
  BY Pends DEF IInv, StreamsWellFormed
<1>2. conn' = [conn EXCEPT ![nc] = k]
  BY DEF AnswersAndCloses
<1>3. SameStream(k, nc)
  BY <1>1 DEF Connection, SameStream, SameFile
<1>. HIDE DEF k
<1>. QED BY <1>1, <1>2, <1>3 DEF SameStream, SameFile

(* Once a call has been taken, nobody's part has been given more or less. *)
LEMMA TakenCounts ==
    ASSUME IInv, UInv, ~Quiet, Taken, NEW c \in Conns, c = nc,
           \A d \in Conns : SameStream(conn'[d], d)
    PROVE  /\ CallsCounted'
           /\ \A d \in Conns : ~Asking(d)'
           /\ \A d \in Conns : d # c => Given(d)' = Given(d)
           /\ Given(c) = calls[1].had
           /\ calls[1].ev # "PART_END" => Given(c)' = conn[c].blocks
<1>1. \A d \in Conns, f \in Files \cup {NoFile} : InPart(d, f) => InPart(d, f)'
  BY DEF InPart, SameStream, SameFile
<1>2. /\ calls[1].ev # "PART_END" => calls' = <<>>
      /\ calls[1].ev = "PART_END" =>
           2 \in 1..Len(calls) /\ calls' = <<calls[2]>>
      /\ calls' # <<>> =>
           /\ calls'[1].on = c
           /\ calls'[1].ev \in {"PART_BEGIN", "MULTIPART_REQUEST_END"}
  BY <1>1, TakenEffect
<1>3. \A d \in Conns : Pending(d) <=> d = c
  BY Pends
<1>4. CallsCounted'
  <2>1. CASE calls[1].ev # "PART_END"
    BY <1>2, <2>1, NoneCounted
  <2>2. CASE calls[1].ev = "PART_END"
    <3>1. 2 \in 1..Len(calls) /\ calls[2] \in Call
      <4>1. 2 \in 1..Len(calls) /\ calls \in Seq(Call)
        BY <1>2, <2>2 DEF IInv, CallsWellFormed
      <4>. QED BY <4>1, ElementOfSeq
    <3>2. PICK k \in Call : k = calls[2] /\ calls' = <<k>>
      BY <1>2, <2>2, <3>1
    <3>3. /\ k.ev \in {"PART_BEGIN", "MULTIPART_REQUEST_END"}
          /\ k.ev = "PART_BEGIN" => conn[k.on].blocks = 0
      BY <1>2, <3>1, <3>2 DEF UInv, CallsCounted
    <3>4. k.ev = "PART_BEGIN" => conn'[k.on].blocks = 0
      BY <3>2, <3>3 DEF SameStream, Call
    <3>. QED BY <3>2, <3>3, <3>4, OneCounted
  <2>. QED BY <2>1, <2>2
<1>5. \A d \in Conns : ~Asking(d)'
  BY <1>2 DEF Asking, Pending
<1>6. ASSUME NEW d \in Conns, d # c PROVE Given(d)' = Given(d)
  <2>1. ~Pending(d) /\ ~Pending(d)'
    BY <1>2, <1>3, <1>6 DEF Pending
  <2>. QED BY <2>1 DEF Given, SameStream
<1>7. Given(c) = calls[1].had
  BY <1>3 DEF Given
<1>8. ASSUME calls[1].ev # "PART_END" PROVE Given(c)' = conn[c].blocks
  <2>1. ~Pending(c)'
    BY <1>2, <1>8 DEF Pending
  <2>. QED BY <2>1 DEF Given, SameStream
<1>. QED BY <1>4, <1>5, <1>6, <1>7, <1>8

(* What the handler does for one connection leaves the others' writers be,   *)
(* but those that write to the same file.                                  *)
LEMMA OthersCount ==
    ASSUME IInv, UInv, ~Quiet, NEW d \in Conns, writer[d] # NoWriter,
           writer'[d] = writer[d], failed'[d] = failed[d],
           user' \in Users, Given(d)' = Given(d),
           \/ /\ disk'[writer[d].path] = disk[writer[d].path]
              /\ shared'[d] = shared[d]
           \/ disk'[writer[d].path] # Absent /\ shared'[d] = TRUE
    PROVE  WriterCounts(d)'
BY DEF UInv, WriterCounts

LEMMA RequestsKeptKnown ==
    ASSUME IInv, UInv, ~Quiet, Taken, \A d \in Conns : SameStream(conn'[d], d),
           calls[1].ev # "MULTIPART_REQUEST", user' = user, sender' = sender
    PROVE  RequestsKnown'
BY DEF UInv, RequestsKnown, Asking, SameStream, SameFile

(* The call in hand, and the writer of its connection. *)
LEMMA InHand ==
    ASSUME IInv, UInv, ~Quiet
    PROVE  \E c \in Conns :
             /\ c = nc
             /\ Head(calls) = calls[1] /\ calls[1] \in Call /\ 1 \in 1..Len(calls)
             /\ Pending(c) /\ Given(c) = calls[1].had
             /\ conn[c].blocks \in Blocks
             /\ writer[c] # NoWriter =>
                  /\ WriterCounts(c)
                  /\ calls[1].ev \in {"PART_DATA", "PART_END"}
<1>1. PICK c \in Conns : c = nc
  BY Pends
<1>2. /\ Head(calls) = calls[1] /\ calls[1] \in Call /\ 1 \in 1..Len(calls)
      /\ Pending(c)
  BY <1>1, Pends
<1>3. Given(c) = calls[1].had
  BY <1>2 DEF Given
<1>4. conn[c].blocks \in Blocks
  BY DEF IInv, StreamsWellFormed, Connection
<1>5. ASSUME writer[c] # NoWriter
      PROVE  /\ WriterCounts(c)
             /\ calls[1].ev \in {"PART_DATA", "PART_END"}
  BY <1>2, <1>5 DEF UInv, IInv, WritersPlaced, InPart
<1>. QED BY <1>1, <1>2, <1>3, <1>4, <1>5

LEMMA FilesStay ==
    ASSUME NEW s, s \in Contents PROVE s # Absent
BY UploadAssumption

LEMMA RequestUInv == ASSUME IInv, UInv, MultipartRequest PROVE UInv'
<1>1. ~Quiet /\ Taken /\ Head(calls).ev = "MULTIPART_REQUEST"
  BY DEF MultipartRequest, Called
<1>2. PICK c \in Conns :
        /\ c = nc /\ Head(calls) = calls[1] /\ calls[1] \in Call
        /\ Pending(c) /\ writer[c] = NoWriter
  BY <1>1, InHand
<1>3. /\ conn' = conn /\ up' = up /\ writer' = writer /\ disk' = disk /\ rows' = rows
      /\ sent' = sent /\ failed' = failed /\ shared' = shared
      /\ user' = calls[1].who /\ sender' = [sender EXCEPT ![c] = calls[1].who]
      /\ calls[1].who # NoUser
  BY <1>2 DEF MultipartRequest
<1>4. user' \in Users
  BY <1>2, <1>3 DEF Call
<1>5. \A d \in Conns : SameStream(conn'[d], d)
  BY <1>3 DEF SameStream, SameFile
<1>6. CallsCounted' /\ \A d \in Conns : d # c => Given(d)' = Given(d)
  BY <1>1, <1>2, <1>5, TakenCounts
<1>7. UploadTypes'
  BY <1>2, <1>3 DEF UInv, UploadTypes, Call
<1>8. RequestsKnown'
  <2>1. ASSUME NEW d \in Conns, conn[d].stream # "none"
        PROVE  sender'[d] \in Users
    <3>1. CASE d = c
      BY <1>3, <1>4, <3>1 DEF UInv, UploadTypes
    <3>2. CASE d # c
      <4>1. ~Asking(d)
        BY <1>1, <1>2, <3>2, Pends DEF Asking
      <4>2. sender[d] \in Users
        BY <2>1, <4>1 DEF UInv, RequestsKnown
      <4>. QED BY <1>3, <3>2, <4>2 DEF UInv, UploadTypes
    <3>. QED BY <3>1, <3>2
  <2>. QED BY <1>3, <1>4, <2>1 DEF UInv, RequestsKnown
<1>9. ASSUME NEW d \in Conns, writer'[d] # NoWriter PROVE WriterCounts(d)'
  <2>1. d # c /\ writer[d] # NoWriter
    BY <1>2, <1>3, <1>9
  <2>. QED BY <1>1, <1>3, <1>4, <1>6, <2>1, OthersCount
<1>10. SharersMarked'
  BY <1>3 DEF UInv, SharersMarked
<1>. QED BY <1>6, <1>7, <1>8, <1>9, <1>10 DEF UInv

(* A part is begun: its file is empty, and whoever else writes to it shares. *)
LEMMA BeginUInv == ASSUME IInv, UInv, PartBegin PROVE UInv'
<1>1. ~Quiet /\ Taken /\ Head(calls).ev = "PART_BEGIN"
  BY DEF PartBegin, Called
<1>2. PICK c \in Conns :
        /\ c = nc /\ Head(calls) = calls[1] /\ calls[1] \in Call /\ 1 \in 1..Len(calls)
        /\ Pending(c) /\ writer[c] = NoWriter
  BY <1>1, InHand
<1>3. PICK f : f = calls[1].file_name
  OBVIOUS
<1>4. PICK p \in Located(f) :
        /\ writer' = [writer EXCEPT ![c] = [path |-> p, pos |-> 0, buffered |-> 0]]
        /\ disk' = [disk EXCEPT ![p] = <<>>]
        /\ shared' = [d \in Conns |->
                        IF d = c THEN WritersOf(p) # {}
                        ELSE shared[d] \/ d \in WritersOf(p)]
  BY <1>2, <1>3 DEF PartBegin
<1>5. PICK w : w = [path |-> p, pos |-> 0, buffered |-> 0]
  OBVIOUS
<1>6. /\ conn' = conn /\ up' = up /\ user' = user /\ rows' = rows /\ sender' = sender
      /\ sent' = sent \cup {<<sender[c], f>>}
      /\ failed' = [failed EXCEPT ![c] = FALSE]
      /\ writer' = [writer EXCEPT ![c] = w]
      /\ disk' = [disk EXCEPT ![p] = <<>>]
      /\ shared' = [d \in Conns |->
                      IF d = c THEN WritersOf(p) # {}
                      ELSE shared[d] \/ d \in WritersOf(p)]
  BY <1>2, <1>3, <1>4, <1>5 DEF PartBegin
<1>7. /\ f \in Files /\ user \in Users /\ sender[c] \in Users
      /\ conn[c].blocks = 0
  <2>1. calls[1].on = c /\ InPart(c, f)
    BY <1>1, <1>2, <1>3 DEF IInv, BeginsItsPart, Pending
  <2>2. conn[c].stream # "none" /\ ~Asking(c)
    BY <1>1, <1>2, <2>1 DEF IInv, StreamsWellFormed, InPart, Asking
  <2>3. conn[c].blocks = 0
    BY <1>1, <1>2, <2>1 DEF UInv, CallsCounted
  <2>. QED BY <2>1, <2>2, <2>3 DEF UInv, RequestsKnown, InPart
<1>8. p \in Paths /\ <<sender[c], f>> \in Paths
  BY <1>4, <1>7, UploadAssumption DEF Paths, Located, PathFor
<1>9. /\ disk'[p] = <<>> /\ \A q \in Paths : q # p => disk'[q] = disk[q]
      /\ disk' \in [Paths -> Contents \cup {Absent}]
  BY <1>6, <1>8, EmptyIs DEF UInv, UploadTypes
<1>10. \A d \in Conns : SameStream(conn'[d], d)
  BY <1>6 DEF SameStream, SameFile
<1>11. /\ CallsCounted' /\ \A d \in Conns : d # c => Given(d)' = Given(d)
       /\ Given(c)' = 0
  BY <1>1, <1>2, <1>7, <1>10, TakenCounts
<1>12. UploadTypes'
  <2>1. sent' \in SUBSET Paths
    BY <1>6, <1>8 DEF UInv, UploadTypes
  <2>2. failed' \in [Conns -> BOOLEAN] /\ shared' \in [Conns -> BOOLEAN]
    <3>1. \A d \in Conns : (shared[d] \/ d \in WritersOf(p)) \in BOOLEAN
      BY Zenon
    <3>2. failed' \in [Conns -> BOOLEAN]
      BY <1>6 DEF UInv, UploadTypes
    <3>. QED BY <1>6, <3>1, <3>2
  <2>. QED BY <1>6, <1>9, <2>1, <2>2 DEF UInv, UploadTypes
<1>13. RequestsKnown'
  BY <1>1, <1>2, <1>6, <1>10, RequestsKeptKnown
<1>14. writer'[c] = w /\ \A d \in Conns : d # c => writer'[d] = writer[d]
  BY <1>6 DEF IInv, WritersPlaced
<1>15. \A d \in Conns \ {c} : writer[d] # NoWriter /\ writer[d].path = p =>
         shared'[d] = TRUE /\ shared'[c] = TRUE
  BY <1>6 DEF WritersOf
<1>16. \A d \in Conns \ {c} : writer[d] # NoWriter /\ writer[d].path # p =>
         shared'[d] = shared[d]
  <2>1. ASSUME NEW d \in Conns \ {c}, writer[d].path # p
        PROVE  shared'[d] = shared[d]
    <3>1. d \notin WritersOf(p)
      BY <2>1 DEF WritersOf
    <3>2. shared[d] \in BOOLEAN
      BY DEF UInv, UploadTypes
    <3>3. shared'[d] = (shared[d] \/ FALSE)
      BY <1>6, <2>1, <3>1
    <3>. QED BY <3>2, <3>3
  <2>. QED BY <2>1
<1>17. ASSUME NEW d \in Conns, writer'[d] # NoWriter PROVE WriterCounts(d)'
  <2>1. CASE d = c
    <3>1. w \in [path : Paths, pos : Nat, buffered : Nat] /\ w.pos = 0 /\ w.path = p
          /\ Wrote(w) = 0
      BY <1>5, <1>8 DEF Wrote
    <3>2. disk'[p] # Absent /\ disk'[p] = [i \in 1..0 |-> c]
      BY <1>9, EmptyIs, FilesStay
    <3>3. writer'[c].pos + writer'[c].buffered = 0
      BY <1>5, <1>14
    <3>4. writer'[c].path = p /\ writer'[c].pos = 0
      BY <1>14, <3>1
    <3>5. disk'[writer'[c].path] = [i \in 1..writer'[c].pos |-> c]
      BY <3>2, <3>4
    <3>6. /\ Wrote(writer'[c]) = Given(c)'
          /\ Wrote(writer'[c]) <= Given(c)'
      BY <1>11, <3>3 DEF Wrote
    <3>7. disk'[writer'[c].path] # Absent
      BY <3>2, <3>4
    <3>8. writer'[c] \in [path : Paths, pos : Nat, buffered : Nat] /\ user' \in Users
      BY <1>6, <1>7, <1>14, <3>1
    <3>9. WriterCounts(c)'
      BY <3>5, <3>6, <3>7, <3>8, Zenon DEF WriterCounts, Wrote
    <3>. QED BY <2>1, <3>9
  <2>2. CASE d # c
    <3>1. writer[d] # NoWriter /\ writer'[d] = writer[d] /\ failed'[d] = failed[d]
      BY <1>6, <1>14, <1>17, <2>2 DEF UInv, UploadTypes
    <3>2. writer[d].path \in Paths
      BY <3>1 DEF UInv, WriterCounts
    <3>3. CASE writer[d].path = p
      <4>1. disk'[writer[d].path] # Absent /\ shared'[d] = TRUE
        BY <1>9, <1>15, <2>2, <3>1, <3>3, EmptyIs, FilesStay
      <4>. QED BY <1>1, <1>6, <1>7, <1>11, <2>2, <3>1, <4>1, OthersCount
    <3>4. CASE writer[d].path # p
      <4>1. disk'[writer[d].path] = disk[writer[d].path] /\ shared'[d] = shared[d]
        BY <1>9, <1>16, <2>2, <3>1, <3>2, <3>4
      <4>. QED BY <1>1, <1>6, <1>7, <1>11, <2>2, <3>1, <4>1, OthersCount
    <3>. QED BY <3>3, <3>4
  <2>. QED BY <2>1, <2>2
<1>18. SharersMarked'
  <2>1. ASSUME NEW d \in Conns, NEW e \in Conns, d # e,
               writer'[d] # NoWriter, writer'[e] # NoWriter,
               writer'[d].path = writer'[e].path
        PROVE  shared'[d] = TRUE
    <3>1. CASE d = c
      BY <1>5, <1>14, <1>15, <2>1, <3>1
    <3>2. CASE e = c
      BY <1>5, <1>14, <1>15, <2>1, <3>2
    <3>3. CASE d # c /\ e # c
      <4>1. shared[d] = TRUE
        BY <1>14, <2>1, <3>3 DEF UInv, SharersMarked
      <4>2. shared'[d] = (shared[d] \/ d \in WritersOf(p))
        BY <1>6, <3>3
      <4>3. (TRUE \/ d \in WritersOf(p)) = TRUE
        BY Zenon
      <4>. QED BY <4>1, <4>2, <4>3
    <3>. QED BY <3>1, <3>2, <3>3
  <2>. QED BY <2>1 DEF SharersMarked
<1>. QED BY <1>11, <1>12, <1>13, <1>17, <1>18 DEF UInv

(* A part whose file is not to be had, or whose block is lost, counts as     *)
(* failed; files and writers stay.                                         *)
LEMMA FailureUInv ==
    ASSUME IInv, UInv, PartBeginNoFile \/ PartDataLost
    PROVE  UInv'
<1>1. /\ ~Quiet /\ Taken /\ AnswersAndCloses
      /\ Head(calls).ev \in {"PART_BEGIN", "PART_DATA"}
  BY DEF PartBeginNoFile, PartDataLost, Called
<1>2. PICK c \in Conns :
        /\ c = nc /\ Head(calls) = calls[1] /\ calls[1] \in Call /\ 1 \in 1..Len(calls)
        /\ Pending(c) /\ Given(c) = calls[1].had /\ conn[c].blocks \in Blocks
        /\ writer[c] # NoWriter => WriterCounts(c) /\ calls[1].ev # "PART_BEGIN"
  BY <1>1, InHand
<1>3. /\ up' = up /\ user' = user /\ writer' = writer /\ disk' = disk /\ rows' = rows
      /\ sender' = sender /\ shared' = shared
      /\ failed' = [failed EXCEPT ![c] = TRUE]
  BY <1>2 DEF PartBeginNoFile, PartDataLost, serverVars
<1>4. \A d \in Conns : SameStream(conn'[d], d)
  BY <1>1, AnswerKeepsStreams
<1>5. /\ CallsCounted' /\ \A d \in Conns : d # c => Given(d)' = Given(d)
      /\ Given(c)' = conn[c].blocks
  BY <1>1, <1>2, <1>4, TakenCounts
<1>6. sent' \in SUBSET Paths
  <2>1. CASE PartDataLost
    BY <2>1 DEF UInv, UploadTypes, PartDataLost
  <2>2. CASE PartBeginNoFile
    <3>1. Head(calls).ev = "PART_BEGIN" /\ sent' = sent \cup {<<sender[c], calls[1].file_name>>}
      BY <1>2, <2>2 DEF PartBeginNoFile, Called
    <3>2. InPart(c, calls[1].file_name)
      BY <1>2, <3>1 DEF IInv, BeginsItsPart, Pending
    <3>3. conn[c].stream # "none" /\ ~Asking(c)
      BY <1>2, <3>1, <3>2 DEF IInv, StreamsWellFormed, InPart, Asking
    <3>4. <<sender[c], calls[1].file_name>> \in Paths
      BY <3>2, <3>3 DEF UInv, RequestsKnown, InPart, Paths
    <3>. QED BY <3>1, <3>4 DEF UInv, UploadTypes
  <2>. QED BY <2>1, <2>2
<1>7. UploadTypes'
  BY <1>3, <1>6 DEF UInv, UploadTypes
<1>8. RequestsKnown'
  BY <1>1, <1>2, <1>3, <1>4, RequestsKeptKnown
<1>9. ASSUME NEW d \in Conns, writer'[d] # NoWriter PROVE WriterCounts(d)'
  <2>0. user \in Users
    BY <1>3, <1>9 DEF UInv, WriterCounts
  <2>1. CASE d = c
    <3>1. WriterCounts(c) /\ calls[1].ev = "PART_DATA"
      BY <1>1, <1>2, <1>3, <1>9, <2>1
    <3>2. calls[1].had + calls[1].len = conn[c].blocks
      BY <1>2, <3>1 DEF UInv, CallsCounted, Pending
    <3>3. calls[1].had \in Nat /\ calls[1].len \in Nat
      BY <1>2, StreamAssumption DEF Call, Blocks
    <3>4. Wrote(writer[c]) <= Given(c)'
      <4>1. writer[c].pos + writer[c].buffered \in Nat
        BY <3>1 DEF WriterCounts
      <4>2. Wrote(writer[c]) \in Nat /\ Wrote(writer[c]) <= calls[1].had
        BY <1>2, <3>1, <4>1 DEF WriterCounts, Wrote
      <4>. QED BY <1>5, <3>2, <3>3, <4>2
    <3>5. failed'[c] = TRUE
      BY <1>3 DEF UInv, UploadTypes
    <3>6. Wrote(writer[c])' = Wrote(writer[c])
      BY <1>3 DEF Wrote
    <3>7. WriterCounts(c)'
      BY <1>3, <3>1, <3>4, <3>5, <3>6 DEF WriterCounts
    <3>. QED BY <2>1, <3>7
  <2>2. CASE d # c
    <3>1. writer'[d] = writer[d] /\ writer[d] # NoWriter /\ failed'[d] = failed[d]
      BY <1>3, <1>9, <2>2 DEF UInv, UploadTypes
    <3>. QED BY <1>1, <1>3, <1>5, <2>0, <2>2, <3>1, OthersCount
  <2>. QED BY <2>1, <2>2
<1>10. SharersMarked'
  BY <1>3 DEF UInv, SharersMarked
<1>. QED BY <1>5, <1>7, <1>8, <1>9, <1>10 DEF UInv

(* Blocks on their way into the file of c leave other files as they are. *)
LEMMA BlocksReachFile ==
    ASSUME UInv, NEW c \in Conns, writer[c] # NoWriter, NEW n \in Nat,
           writer[c].pos + n <= MaxBlocks,
           disk' = [disk EXCEPT ![writer[c].path] = Written(@, writer[c], n, c)]
    PROVE  /\ disk' \in [Paths -> Contents \cup {Absent}]
           /\ \A p \in Paths : p # writer[c].path => disk'[p] = disk[p]
           /\ \A p \in Paths : disk'[p] = Absent <=> disk[p] = Absent
           /\ shared[c] = FALSE =>
                disk'[writer[c].path] = [i \in 1..(writer[c].pos + n) |-> c]
<1>. DEFINE w == writer[c]
            t == Written(disk[w.path], w, n, c)
<1>1. /\ w.path \in Paths /\ w.pos \in Nat /\ disk[w.path] \in Contents
      /\ shared[c] = FALSE => disk[w.path] = OwnBlocks(c, w.pos)
  BY DEF UInv, WriterCounts, UploadTypes, OwnBlocks
<1>2. /\ t \in Contents
      /\ disk[w.path] = OwnBlocks(c, w.pos) => t = OwnBlocks(c, w.pos + n)
  BY <1>1, WrittenIs
<1>3. disk' = [disk EXCEPT ![w.path] = t]
  OBVIOUS
<1>. HIDE DEF t
<1>4. /\ disk' \in [Paths -> Contents \cup {Absent}]
      /\ disk'[w.path] = t
      /\ \A p \in Paths : p # w.path => disk'[p] = disk[p]
  BY <1>1, <1>2, <1>3 DEF UInv, UploadTypes
<1>5. t # Absent /\ disk[w.path] # Absent
  BY <1>1, <1>2, FilesStay
<1>6. \A p \in Paths : disk'[p] = Absent <=> disk[p] = Absent
  BY <1>4, <1>5
<1>7. shared[c] = FALSE => disk'[w.path] = OwnBlocks(c, w.pos + n)
  BY <1>1, <1>2, <1>4
<1>. QED BY <1>4, <1>6, <1>7 DEF OwnBlocks

LEMMA DataUInv == ASSUME IInv, UInv, PartData PROVE UInv'
<1>1. ~Quiet /\ Taken /\ Head(calls).ev = "PART_DATA" /\ writer[nc] # NoWriter
  BY DEF PartData, Called
<1>2. PICK c \in Conns :
        /\ c = nc /\ Head(calls) = calls[1] /\ calls[1] \in Call /\ 1 \in 1..Len(calls)
        /\ Pending(c) /\ Given(c) = calls[1].had /\ conn[c].blocks \in Blocks
        /\ WriterCounts(c)
  BY <1>1, InHand
<1>3. PICK w : w = writer[c]
  OBVIOUS
<1>4. PICK held : held = w.buffered + calls[1].len
  OBVIOUS
<1>5. /\ conn' = conn /\ up' = up /\ user' = user /\ rows' = rows
      /\ sender' = sender /\ sent' = sent /\ failed' = failed /\ shared' = shared
  BY DEF PartData, historyVars
<1>6. \/ /\ writer' = [writer EXCEPT ![c] = [w EXCEPT !.buffered = held]]
         /\ disk' = disk
      \/ /\ writer' = [writer EXCEPT ![c] = [w EXCEPT !.pos = @ + held, !.buffered = 0]]
         /\ disk' = [disk EXCEPT ![w.path] = Written(@, w, held, c)]
  BY <1>2, <1>3, <1>4 DEF PartData
<1>7. /\ w \in [path : Paths, pos : Nat, buffered : Nat]
      /\ calls[1].had \in Nat /\ calls[1].len \in Nat
      /\ w.pos + w.buffered <= calls[1].had
      /\ failed[c] = FALSE => w.pos + w.buffered = calls[1].had
      /\ calls[1].had + calls[1].len = conn[c].blocks
      /\ conn[c].blocks <= MaxBlocks /\ MaxBlocks \in Nat
  BY <1>1, <1>2, <1>3, StreamAssumption
     DEF WriterCounts, Wrote, Call, Blocks, UInv, CallsCounted, Pending
<1>8. /\ held \in Nat
      /\ w.pos + held <= conn[c].blocks
      /\ w.pos + held <= MaxBlocks
      /\ failed[c] = FALSE => w.pos + held = conn[c].blocks
  BY <1>4, <1>7
<1>9. \A d \in Conns : SameStream(conn'[d], d)
  BY <1>5 DEF SameStream, SameFile
<1>10. /\ CallsCounted' /\ \A d \in Conns : d # c => Given(d)' = Given(d)
       /\ Given(c)' = conn[c].blocks
  BY <1>1, <1>2, <1>9, TakenCounts
<1>11. /\ disk' \in [Paths -> Contents \cup {Absent}]
       /\ \A p \in Paths : p # w.path => disk'[p] = disk[p]
       /\ \A p \in Paths : disk'[p] = Absent <=> disk[p] = Absent
  <2>1. CASE disk' = disk
    BY <2>1 DEF UInv, UploadTypes
  <2>2. CASE disk' = [disk EXCEPT ![w.path] = Written(@, w, held, c)]
    BY <1>1, <1>2, <1>3, <1>8, <2>2, BlocksReachFile
  <2>. QED BY <1>6, <2>1, <2>2
<1>12. PICK v \in [path : Paths, pos : Nat, buffered : Nat] :
         /\ v.path = w.path
         /\ v.pos + v.buffered = w.pos + held
         /\ writer' = [writer EXCEPT ![c] = v]
         /\ shared[c] = FALSE => disk'[w.path] = [i \in 1..v.pos |-> c]
  <2>1. CASE /\ writer' = [writer EXCEPT ![c] = [w EXCEPT !.buffered = held]]
             /\ disk' = disk
    <3>. DEFINE v == [w EXCEPT !.buffered = held]
    <3>1. /\ v \in [path : Paths, pos : Nat, buffered : Nat]
          /\ v.path = w.path /\ v.pos = w.pos /\ v.buffered = held
      BY <1>7, <1>8
    <3>2. shared[c] = FALSE => disk'[w.path] = [i \in 1..v.pos |-> c]
      BY <1>2, <1>3, <2>1, <3>1 DEF WriterCounts
    <3>. HIDE DEF v
    <3>. QED BY <2>1, <3>1, <3>2 DEF v
  <2>2. CASE /\ writer' = [writer EXCEPT ![c] = [w EXCEPT !.pos = @ + held, !.buffered = 0]]
             /\ disk' = [disk EXCEPT ![w.path] = Written(@, w, held, c)]
    <3>. DEFINE v == [w EXCEPT !.pos = @ + held, !.buffered = 0]
    <3>1. w.pos + held \in Nat
      BY <1>7, <1>8
    <3>2. /\ v \in [path : Paths, pos : Nat, buffered : Nat]
          /\ v.path = w.path /\ v.pos = w.pos + held /\ v.buffered = 0
      BY <1>7, <3>1
    <3>3. shared[c] = FALSE => disk'[w.path] = [i \in 1..(w.pos + held) |-> c]
      <4>1. /\ held \in Nat /\ writer[c] # NoWriter
            /\ writer[c].pos + held <= MaxBlocks
            /\ disk' = [disk EXCEPT ![writer[c].path] = Written(@, writer[c], held, c)]
        BY <1>1, <1>2, <1>3, <1>8, <2>2
      <4>2. shared[c] = FALSE =>
              disk'[writer[c].path] = [i \in 1..(writer[c].pos + held) |-> c]
        BY <1>1, <4>1, BlocksReachFile, Zenon
      <4>. QED BY <1>3, <4>2, Zenon
    <3>4. v.pos + v.buffered = w.pos + held
      BY <3>1, <3>2
    <3>5. shared[c] = FALSE => disk'[w.path] = [i \in 1..v.pos |-> c]
      BY <3>2, <3>3
    <3>. HIDE DEF v
    <3>. QED BY <2>2, <3>2, <3>4, <3>5 DEF v
  <2>. QED BY <1>6, <2>1, <2>2
<1>13. /\ writer'[c] = v /\ v # NoWriter
       /\ \A d \in Conns : d # c => writer'[d] = writer[d]
  <2>1. v \in OpenFile
    BY <1>12, UploadAssumption DEF OpenFile, Paths
  <2>. QED BY <1>12, <2>1, UploadAssumption DEF IInv, WritersPlaced
<1>14. UploadTypes'
  BY <1>5, <1>11 DEF UInv, UploadTypes
<1>15. RequestsKnown'
  BY <1>1, <1>2, <1>5, <1>9, RequestsKeptKnown
<1>16. ASSUME NEW d \in Conns, writer'[d] # NoWriter PROVE WriterCounts(d)'
  <2>0. user \in Users
    BY <1>2 DEF WriterCounts
  <2>1. CASE d = c
    <3>1. /\ Wrote(writer'[c]) <= Given(c)'
          /\ failed[c] = FALSE => Wrote(writer'[c]) = Given(c)'
      BY <1>8, <1>10, <1>12, <1>13 DEF Wrote
    <3>2. disk'[v.path] # Absent
      BY <1>2, <1>3, <1>11, <1>12 DEF WriterCounts
    <3>3. shared[c] = FALSE => disk'[v.path] = [i \in 1..v.pos |-> c]
      BY <1>12
    <3>4. WriterCounts(c)'
      BY <1>5, <1>12, <1>13, <2>0, <3>1, <3>2, <3>3, Zenon DEF WriterCounts, Wrote
    <3>. QED BY <2>1, <3>4
  <2>2. CASE d # c
    <3>1. writer'[d] = writer[d] /\ writer[d] # NoWriter /\ writer[d].path \in Paths
      BY <1>13, <1>16, <2>2 DEF UInv, WriterCounts
    <3>2. CASE writer[d].path # w.path
      <4>1. disk'[writer[d].path] = disk[writer[d].path]
        BY <1>11, <3>1, <3>2
      <4>. QED BY <1>1, <1>5, <1>10, <2>0, <2>2, <3>1, <4>1, OthersCount
    <3>3. CASE writer[d].path = w.path
      <4>1. shared[d] = TRUE
        BY <1>1, <1>2, <1>3, <2>2, <3>1, <3>3 DEF UInv, SharersMarked
      <4>2. disk'[writer[d].path] # Absent
        BY <1>2, <1>3, <1>11, <3>1, <3>3 DEF WriterCounts
      <4>. QED BY <1>1, <1>5, <1>10, <2>0, <2>2, <3>1, <4>1, <4>2, OthersCount
    <3>. QED BY <3>2, <3>3
  <2>. QED BY <2>1, <2>2
<1>17. SharersMarked'
  <2>1. \A d \in Conns : writer'[d] # NoWriter =>
          writer[d] # NoWriter /\ writer'[d].path = writer[d].path
    BY <1>1, <1>2, <1>3, <1>12, <1>13
  <2>. QED BY <1>5, <2>1 DEF UInv, SharersMarked
<1>. QED BY <1>10, <1>14, <1>15, <1>16, <1>17 DEF UInv

(* What the FILE still holds reaches the file when it is closed, or is lost. *)
LEMMA ClosingReachesFile ==
    ASSUME IInv, UInv, PartEnd \/ PartEndNoDatabase
    PROVE  /\ disk' \in [Paths -> Contents \cup {Absent}]
           /\ \A p \in Paths : p # writer[nc].path => disk'[p] = disk[p]
           /\ \A p \in Paths : disk'[p] = Absent <=> disk[p] = Absent
           /\ shared[nc] = FALSE /\ FileClosed =>
                disk'[writer[nc].path] = [i \in 1..Wrote(writer[nc]) |-> nc]
<1>1. /\ ~Quiet /\ Head(calls).ev = "PART_END" /\ writer[nc] # NoWriter
      /\ FileClosed \/ disk' = disk
  BY DEF PartEnd, PartEndNoDatabase, Called, FlushFails
<1>2. PICK c \in Conns :
        /\ c = nc /\ calls[1] \in Call /\ Given(c) = calls[1].had /\ WriterCounts(c)
  BY <1>1, InHand
<1>3. PICK n : n = writer[c].buffered
  OBVIOUS
<1>4. /\ writer[c].pos \in Nat /\ n \in Nat
      /\ writer[c].pos + n = Wrote(writer[c])
      /\ writer[c].pos + n <= MaxBlocks
  <2>1. /\ writer[c].pos \in Nat /\ n \in Nat
        /\ writer[c].pos + n = Wrote(writer[c])
        /\ Wrote(writer[c]) <= calls[1].had
    BY <1>2, <1>3 DEF WriterCounts, Wrote
  <2>. QED BY <1>2, <2>1, StreamAssumption DEF Call, Blocks
<1>5. CASE FileClosed
  <2>1. disk' = [disk EXCEPT ![writer[c].path] = Written(@, writer[c], n, c)]
    BY <1>2, <1>3, <1>5 DEF FileClosed
  <2>2. /\ disk' \in [Paths -> Contents \cup {Absent}]
        /\ \A p \in Paths : p # writer[c].path => disk'[p] = disk[p]
        /\ \A p \in Paths : disk'[p] = Absent <=> disk[p] = Absent
        /\ shared[c] = FALSE =>
             disk'[writer[c].path] = [i \in 1..(writer[c].pos + n) |-> c]
    BY <1>1, <1>2, <1>4, <2>1, BlocksReachFile
  <2>. QED BY <1>2, <1>4, <2>2
<1>6. CASE disk' = disk /\ ~FileClosed
  BY <1>6 DEF UInv, UploadTypes
<1>. QED BY <1>1, <1>5, <1>6

LEMMA RecordedTyped ==
    ASSUME rows \in [Paths -> Nat], NEW f, Recorded(f)
    PROVE  rows' \in [Paths -> Nat]
<1>1. CASE rows' = rows
  BY <1>1
<1>2. CASE \E p \in RowsFor(f) : rows' = [rows EXCEPT ![p] = @ + 1]
  <2>1. PICK p \in RowsFor(f) : rows' = [rows EXCEPT ![p] = @ + 1]
    BY <1>2
  <2>2. p \in Paths => rows[p] + 1 \in Nat
    OBVIOUS
  <2>. QED BY <2>1, <2>2
<1>. QED BY <1>1, <1>2 DEF Recorded

LEMMA EndUInv == ASSUME IInv, UInv, PartEnd PROVE UInv'
<1>1. /\ ~Quiet /\ Taken /\ AnswersAndCloses
      /\ Head(calls).ev = "PART_END" /\ writer[nc] # NoWriter
  BY DEF PartEnd, Called
<1>2. PICK c \in Conns :
        /\ c = nc /\ Head(calls) = calls[1] /\ calls[1] \in Call
        /\ WriterCounts(c)
  BY <1>1, InHand
<1>3. PICK w : w = writer[c]
  OBVIOUS
<1>4. /\ up' = up /\ user' = user /\ sender' = sender /\ sent' = sent /\ shared' = shared
      /\ writer' = [writer EXCEPT ![c] = NoWriter]
      /\ failed' = failed \/ failed' = [failed EXCEPT ![c] = TRUE]
  BY <1>2 DEF PartEnd
<1>5. rows' \in [Paths -> Nat]
  BY RecordedTyped DEF PartEnd, UInv, UploadTypes
<1>6. /\ disk' \in [Paths -> Contents \cup {Absent}]
      /\ \A p \in Paths : p # w.path => disk'[p] = disk[p]
      /\ \A p \in Paths : disk'[p] = Absent <=> disk[p] = Absent
  BY <1>2, <1>3, ClosingReachesFile
<1>7. /\ writer'[c] = NoWriter
      /\ \A d \in Conns : d # c => writer'[d] = writer[d] /\ failed'[d] = failed[d]
  BY <1>4 DEF IInv, WritersPlaced, UInv, UploadTypes
<1>8. \A d \in Conns : SameStream(conn'[d], d)
  BY <1>1, AnswerKeepsStreams
<1>9. CallsCounted' /\ \A d \in Conns : d # c => Given(d)' = Given(d)
  BY <1>1, <1>2, <1>8, TakenCounts
<1>10. UploadTypes'
  BY <1>4, <1>5, <1>6 DEF UInv, UploadTypes
<1>11. RequestsKnown'
  BY <1>1, <1>2, <1>4, <1>8, RequestsKeptKnown
<1>12. ASSUME NEW d \in Conns, writer'[d] # NoWriter PROVE WriterCounts(d)'
  <2>1. /\ d # c /\ writer'[d] = writer[d] /\ writer[d] # NoWriter
        /\ failed'[d] = failed[d] /\ writer[d].path \in Paths /\ user' \in Users
    BY <1>2, <1>4, <1>7, <1>12 DEF UInv, WriterCounts
  <2>2. CASE writer[d].path # w.path
    <3>1. disk'[writer[d].path] = disk[writer[d].path]
      BY <1>6, <2>1, <2>2
    <3>. QED BY <1>1, <1>4, <1>9, <2>1, <3>1, OthersCount
  <2>3. CASE writer[d].path = w.path
    <3>1. shared[d] = TRUE
      BY <1>1, <1>2, <1>3, <2>1, <2>3 DEF UInv, SharersMarked
    <3>2. disk'[writer[d].path] # Absent
      BY <1>2, <1>3, <1>6, <2>1, <2>3 DEF WriterCounts
    <3>. QED BY <1>1, <1>4, <1>9, <2>1, <3>1, <3>2, OthersCount
  <2>. QED BY <2>2, <2>3
<1>13. SharersMarked'
  BY <1>4, <1>7 DEF UInv, SharersMarked
<1>. QED BY <1>9, <1>10, <1>11, <1>12, <1>13 DEF UInv

LEMMA RequestEndUInv == ASSUME IInv, UInv, MultipartRequestEnd PROVE UInv'
<1>1. ~Quiet /\ Taken /\ Head(calls).ev = "MULTIPART_REQUEST_END"
  BY DEF MultipartRequestEnd, Called
<1>2. PICK c \in Conns :
        /\ c = nc /\ Head(calls) = calls[1] /\ writer[c] = NoWriter
  BY <1>1, InHand
<1>3. /\ conn' = conn /\ up' = up /\ user' = user /\ writer' = writer /\ disk' = disk
      /\ rows' = rows /\ sender' = sender /\ sent' = sent /\ failed' = failed
      /\ shared' = shared
  BY DEF MultipartRequestEnd, serverVars, historyVars
<1>4. \A d \in Conns : SameStream(conn'[d], d)
  BY <1>3 DEF SameStream, SameFile
<1>5. CallsCounted' /\ \A d \in Conns : d # c => Given(d)' = Given(d)
  BY <1>1, <1>2, <1>4, TakenCounts
<1>6. RequestsKnown'
  BY <1>1, <1>2, <1>3, <1>4, RequestsKeptKnown
<1>7. ASSUME NEW d \in Conns, writer'[d] # NoWriter PROVE WriterCounts(d)'
  <2>1. d # c /\ writer[d] # NoWriter /\ user \in Users
    BY <1>2, <1>3, <1>7 DEF UInv, WriterCounts
  <2>. QED BY <1>1, <1>3, <1>5, <2>1, OthersCount
<1>8. UploadTypes' /\ SharersMarked'
  BY <1>3 DEF UInv, UploadTypes, SharersMarked
<1>. QED BY <1>5, <1>6, <1>7, <1>8 DEF UInv

LEMMA DiesUInv ==
    ASSUME IInv, UInv, Dies, disk' \in [Paths -> Contents \cup {Absent}], rows' = rows
    PROVE  UInv'
<1>1. UploadTypes'
  BY DEF UInv, UploadTypes, Dies
<1>2. RequestsKnown'
  BY DEF RequestsKnown, Dies, Closed
<1>3. CallsCounted'
  BY NoneCounted DEF Dies
<1>4. \A d \in Conns : writer'[d] = NoWriter
  BY DEF Dies
<1>. QED BY <1>1, <1>2, <1>3, <1>4 DEF UInv, SharersMarked

LEMMA HandlerUInv == ASSUME IInv, UInv, Handler PROVE UInv'
<1>1. disk \in [Paths -> Contents \cup {Absent}]
  BY DEF UInv, UploadTypes
<1>2. CASE MultipartRequestNoSession \/ PartWithoutWriter
  BY <1>1, <1>2, DiesUInv DEF MultipartRequestNoSession, PartWithoutWriter
<1>3. CASE PartEndNoDatabase
  BY <1>3, ClosingReachesFile, DiesUInv DEF PartEndNoDatabase
<1>. QED BY <1>2, <1>3, RequestUInv, BeginUInv, FailureUInv, DataUInv, EndUInv,
            RequestEndUInv DEF Handler

LEMMA InitUInv == Init => UInv
<1>. SUFFICES ASSUME Init PROVE UInv
  OBVIOUS
<1>1. UploadTypes
  BY DEF Init, UploadTypes
<1>2. RequestsKnown /\ CallsCounted
  BY DEF Init, StreamInit, RequestsKnown, CallsCounted, Closed
<1>3. \A c \in Conns : writer[c] = NoWriter
  BY DEF Init
<1>. QED BY <1>1, <1>2, <1>3 DEF UInv, SharersMarked

LEMMA NextUInv == IInv /\ UInv /\ [Next]_vars => UInv'
<1>. SUFFICES ASSUME IInv, UInv, [Next]_vars PROVE UInv'
  OBVIOUS
<1>1. CASE Kill
  BY <1>1, DiesUInv DEF Kill, UInv, UploadTypes
<1>2. ASSUME up' \in BOOLEAN,
             UNCHANGED <<conn, calls, user, writer, disk, rows, historyVars>>
      PROVE  UInv'
  BY <1>2 DEF UInv, UploadTypes, RequestsKnown, Asking, CallsCounted, WriterCounts,
     Given, Pending, SharersMarked, Wrote, historyVars
<1>3. CASE Restart
  BY <1>2, <1>3 DEF Restart
<1>4. CASE UNCHANGED vars
  BY <1>2, <1>4 DEF vars, serverVars, UInv, UploadTypes
<1>. QED BY <1>1, <1>3, <1>4, LoopUInv, HandlerUInv DEF Next

(* UInv holds of every state the server reaches, whatever goes wrong. *)
THEOREM FilesInvariance == Spec => []UInv
BY Invariance, InitUInv, NextUInv, PTL DEF Spec

LEMMA InvariantsAreTypes == IInv /\ UInv => TypeOK
<1>. SUFFICES ASSUME IInv, UInv PROVE TypeOK
  OBVIOUS
<1>1. ASSUME NEW c \in Conns, writer[c] # NoWriter
      PROVE  writer[c] \in Writer /\ Wrote(writer[c]) \in Blocks
  <2>1. PICK w : w = writer[c]
    OBVIOUS
  <2>2. /\ w \in [path : Paths, pos : Nat, buffered : Nat]
        /\ w.pos + w.buffered <= Given(c)
    BY <1>1, <2>1 DEF UInv, WriterCounts, Wrote
  <2>3. Given(c) \in Blocks
    <3>1. CASE Pending(c)
      <4>1. calls[1] \in Call
        BY <3>1, Pends DEF Pending, Quiet
      <4>. QED BY <3>1, <4>1 DEF Given, Call
    <3>2. CASE ~Pending(c)
      BY <3>2 DEF Given, IInv, StreamsWellFormed, Connection
    <3>. QED BY <3>1, <3>2
  <2>4. w.pos \in Nat /\ w.buffered \in Nat
    BY <2>2
  <2>5. w.pos \in Blocks /\ w.buffered \in Blocks /\ w.pos + w.buffered \in Blocks
    BY <2>2, <2>3, <2>4, StreamAssumption DEF Blocks
  <2>6. w \in Writer
    BY <2>2, <2>5 DEF Writer
  <2>. QED BY <2>1, <2>5, <2>6 DEF Wrote
<1>2. writer \in [Conns -> Writer \cup {NoWriter}]
  BY <1>1 DEF IInv, WritersPlaced
<1>3. StreamTypeOK
  BY DEF StreamTypeOK, IInv, StreamsWellFormed, CallsWellFormed
<1>4. rows \in [Paths -> Nat]
  BY DEF UInv, UploadTypes
<1>5. user \in Users \cup {NoUser}
  BY DEF IInv, WritersPlaced
<1>. QED BY <1>1, <1>2, <1>3, <1>4, <1>5 DEF TypeOK, UInv, UploadTypes

(* TypeOK for any number of connections: with it, a file never grows beyond  *)
(* the longest part, whoever writes to it, and what a FILE has passed on   *)
(* and keeps is never more than one part.                                  *)
THEOREM UploadTypeCorrect == Spec => []TypeOK
BY Invariance, FilesInvariance, InvariantsAreTypes, PTL

LEMMA EndStores ==
    ASSUME IInv, UInv, PartEnd, ~failed'[nc], ~shared[nc]
    PROVE  disk'[writer[nc].path] = [i \in 1..Head(calls).had |-> nc]
<1>1. ~Quiet /\ writer[nc] # NoWriter
  BY DEF PartEnd, Called
<1>2. PICK c \in Conns :
        /\ c = nc /\ Head(calls) = calls[1] /\ Given(c) = calls[1].had
        /\ WriterCounts(c)
  BY <1>1, InHand
<1>3. FileClosed /\ failed[c] = FALSE /\ shared[c] = FALSE
  <2>1. failed \in [Conns -> BOOLEAN] /\ shared \in [Conns -> BOOLEAN]
    BY DEF UInv, UploadTypes
  <2>2. failed' # [failed EXCEPT ![c] = TRUE]
    BY <1>2, <2>1
  <2>3. FileClosed /\ failed' = failed
    BY <1>2, <2>2 DEF PartEnd
  <2>. QED BY <1>2, <2>1, <2>3
<1>4. Wrote(writer[c]) = calls[1].had
  BY <1>2, <1>3 DEF WriterCounts
<1>. QED BY <1>2, <1>3, <1>4, ClosingReachesFile

(* StoredAsSent for any length of a part, any number of connections and any  *)
(* way the FILE's buffer was passed on in between: whoever writes to other *)
(* files, is killed or loses a block, the part that went well is on disk   *)
(* as it was sent.                                                         *)
THEOREM WholePartsAreStored == Spec => StoredAsSent
<1>1. IInv /\ UInv /\ [Next]_vars =>
        [PartEnd /\ Head(calls).status # Terminated /\ ~failed'[nc] /\ ~shared[nc]
           => disk'[writer[nc].path] = [i \in 1..Head(calls).had |-> nc]]_vars
  BY EndStores
<1>. QED BY <1>1, Invariance, FilesInvariance, PTL DEF Spec, StoredAsSent

-----------------------------------------------------------------------------
(* Whose files they are.  The handler knows one global user, so these       *)
(* theorems need that no two senders mix: one connection at a time, or one *)
(* user.  It pastes names into paths and statements, so they need that      *)
(* names are plain.  Without either they are false (run mixup of           *)
(* PROJECT.json, and OnlyPlainSent of Upload).                              *)

OneSender ==
    /\ Files \subseteq Plain
    /\ \/ \A c, d \in Conns : c = d
       \/ \A u, v \in Users : u = v

(* The global user is the one whose request is being read. *)
UserInTune ==
    \A c \in Conns :
        /\ conn[c].stream # "none" /\ ~Asking(c) => sender[c] = user
        /\ writer[c] # NoWriter => writer[c].path[1] = user

FilesOfSenders == \A p \in Paths : disk[p] # Absent => p \in sent

ListedFiles == \A p \in Paths : rows[p] > 0 => disk[p] # Absent

SenderInv == UserInTune /\ FilesOfSenders /\ ListedFiles

(* What takes a call and keeps the user keeps in tune; a file opened must be *)
(* the user's.                                                             *)
LEMMA KeepsInTune ==
    ASSUME IInv, UInv, UserInTune, ~Quiet, Taken,
           calls[1].ev # "MULTIPART_REQUEST",
           \A d \in Conns : SameStream(conn'[d], d),
           user' = user, sender' = sender,
           \A d \in Conns : writer'[d] # NoWriter =>
               \/ writer[d] # NoWriter /\ writer'[d].path = writer[d].path
               \/ writer'[d].path[1] = user
    PROVE  UserInTune'
<1>1. \A d \in Conns : ~Asking(d)
  BY DEF Asking
<1>2. ASSUME NEW d \in Conns, conn'[d].stream # "none" PROVE sender'[d] = user'
  BY <1>1, <1>2 DEF UserInTune, SameStream
<1>3. ASSUME NEW d \in Conns, writer'[d] # NoWriter PROVE writer'[d].path[1] = user'
  BY <1>3 DEF UserInTune
<1>. QED BY <1>2, <1>3 DEF UserInTune

LEMMA LoopSender ==
    ASSUME IInv, UInv, SenderInv, NEW c \in Conns, Loop(c)
    PROVE  SenderInv'
<1>0. /\ Quiet /\ LoopStep(c) /\ user' = user /\ writer' = writer /\ disk' = disk
      /\ rows' = rows /\ sender' = sender /\ sent' = sent
  BY DEF Loop, LoopStep, serverVars, historyVars
<1>1. PICK k \in Connection : LoopLeaves(c, k)
  BY <1>0, LoopShape
<1>2. /\ conn'[c] = k
      /\ \A d \in Conns : d # c => conn'[d] = conn[d]
      /\ \A d \in Conns : ~Asking(d)
  BY <1>0, <1>1 DEF IInv, StreamsWellFormed, LoopLeaves, Quiet, Asking, Pending
<1>3. ASSUME NEW d \in Conns, conn'[d].stream # "none", ~Asking(d)'
      PROVE  sender[d] = user
  <2>1. conn[d].stream # "none"
    BY <1>1, <1>2, <1>3 DEF LoopLeaves, Asking, Pending
  <2>. QED BY <1>2, <2>1 DEF SenderInv, UserInTune
<1>4. UserInTune'
  BY <1>0, <1>3 DEF SenderInv, UserInTune
<1>. QED BY <1>0, <1>4 DEF SenderInv, FilesOfSenders, ListedFiles

(* The name of a part that is begun, or whose file is open. *)
LEMMA NamesArePlain ==
    ASSUME OneSender, IInv, UInv, ~Quiet,
           \/ calls[1].ev = "PART_BEGIN"
           \/ calls[1].ev = "PART_END" /\ writer[nc] # NoWriter
    PROVE  calls[1].file_name \in Plain
<1>1. CASE calls[1].ev = "PART_BEGIN"
  <2>1. PICK c \in Conns : Pending(c) /\ 1 \in 1..Len(calls)
    BY InHand
  <2>2. InPart(c, calls[1].file_name)
    BY <1>1, <2>1 DEF IInv, BeginsItsPart, Pending
  <2>. QED BY <2>2 DEF UInv, RequestsKnown, InPart, OneSender
<1>2. CASE calls[1].ev = "PART_END" /\ writer[nc] # NoWriter
  <2>1. PICK c \in Conns : c = nc /\ Pending(c)
    BY InHand
  <2>2. Opened(writer[c], calls[1].file_name)
    BY <1>2, <2>1 DEF IInv, WritersPlaced
  <2>. QED BY <2>2 DEF Opened, OneSender
<1>. QED BY <1>1, <1>2

LEMMA HandlerSender ==
    ASSUME OneSender, IInv, UInv, SenderInv, Handler
    PROVE  SenderInv'
<1>1. CASE MultipartRequest
  <2>1. ~Quiet /\ Taken
    BY <1>1 DEF MultipartRequest, Called
  <2>2. PICK c \in Conns : c = nc /\ Head(calls) = calls[1] /\ calls[1] \in Call
    BY <2>1, InHand
  <2>3. /\ conn' = conn /\ writer' = writer /\ disk' = disk /\ rows' = rows
        /\ sent' = sent /\ user' = calls[1].who
        /\ sender' = [sender EXCEPT ![c] = calls[1].who]
        /\ calls[1].who \in Users
    BY <1>1, <2>2 DEF MultipartRequest, Call
  <2>4. sender'[c] = user' /\ \A d \in Conns : d # c => sender'[d] = sender[d]
    BY <2>3 DEF UInv, UploadTypes
  <2>5. ASSUME NEW d \in Conns, conn'[d].stream # "none"
        PROVE  sender'[d] = user'
    <3>1. CASE d = c
      BY <2>4, <3>1
    <3>2. CASE d # c
      <4>1. ~Asking(d)
        BY <2>1, <2>2, <3>2, Pends DEF Asking
      <4>2. sender[d] \in Users
        BY <2>3, <2>5, <4>1 DEF UInv, RequestsKnown
      <4>. QED BY <2>3, <2>4, <3>2, <4>2 DEF OneSender
    <3>. QED BY <3>1, <3>2
  <2>6. ASSUME NEW d \in Conns, writer'[d] # NoWriter
        PROVE  writer'[d].path[1] = user'
    <3>1. d # c /\ WriterCounts(d) /\ writer'[d] = writer[d]
      BY <1>1, <2>1, <2>2, <2>3, <2>6, InHand DEF UInv, MultipartRequest, Called
    <3>2. writer[d].path[1] \in Users
      BY <3>1 DEF WriterCounts, Paths
    <3>. QED BY <2>3, <3>1, <3>2 DEF OneSender
  <2>7. UserInTune'
    BY <2>5, <2>6 DEF UserInTune
  <2>. QED BY <2>3, <2>7 DEF SenderInv, FilesOfSenders, ListedFiles
<1>2. CASE PartBegin
  <2>1. ~Quiet /\ Taken /\ Head(calls).ev = "PART_BEGIN"
    BY <1>2 DEF PartBegin, Called
  <2>2. PICK c \in Conns :
          /\ c = nc /\ Head(calls) = calls[1] /\ calls[1] \in Call
          /\ Pending(c) /\ writer[c] = NoWriter /\ 1 \in 1..Len(calls)
    BY <2>1, InHand
  <2>3. PICK p : p = <<user, calls[1].file_name>>
    OBVIOUS
  <2>n. calls[1].file_name \in Plain
    BY <2>1, <2>2, NamesArePlain
  <2>4. PICK w : w = [path |-> p, pos |-> 0, buffered |-> 0]
    OBVIOUS
  <2>5. /\ conn' = conn /\ user' = user /\ rows' = rows /\ sender' = sender
        /\ sent' = sent \cup {<<sender[c], calls[1].file_name>>}
        /\ writer' = [writer EXCEPT ![c] = w]
        /\ disk' = [disk EXCEPT ![p] = <<>>]
    BY <1>2, <2>2, <2>3, <2>4, <2>n DEF PartBegin, Located, PathFor
  <2>6. sender[c] = user
    <3>1. InPart(c, calls[1].file_name)
      BY <2>1, <2>2 DEF IInv, BeginsItsPart, Pending
    <3>2. conn[c].stream # "none" /\ ~Asking(c)
      BY <2>1, <2>2, <3>1 DEF IInv, StreamsWellFormed, InPart, Asking
    <3>. QED BY <3>2 DEF SenderInv, UserInTune
  <2>7. \A d \in Conns : SameStream(conn'[d], d)
    BY <2>5 DEF SameStream, SameFile
  <2>8. /\ writer'[c] = w /\ w.path[1] = user
        /\ \A d \in Conns : d # c => writer'[d] = writer[d]
    BY <2>3, <2>4, <2>5 DEF IInv, WritersPlaced
  <2>9. UserInTune'
    BY <2>1, <2>2, <2>5, <2>7, <2>8, KeepsInTune DEF SenderInv
  <2>10. \A q \in Paths : q # p => disk'[q] = disk[q]
    BY <2>5 DEF UInv, UploadTypes
  <2>11. p \in sent'
    BY <2>3, <2>5, <2>6
  <2>12. FilesOfSenders'
    BY <2>5, <2>10, <2>11 DEF SenderInv, FilesOfSenders
  <2>13. p \in Paths => disk'[p] # Absent
    BY <2>5, EmptyIs, FilesStay DEF UInv, UploadTypes
  <2>14. ListedFiles'
    BY <2>5, <2>10, <2>13 DEF SenderInv, ListedFiles
  <2>. QED BY <2>9, <2>12, <2>14 DEF SenderInv
<1>3. CASE PartData
  <2>1. ~Quiet /\ Taken /\ Head(calls).ev = "PART_DATA" /\ writer[nc] # NoWriter
    BY <1>3 DEF PartData, Called
  <2>2. PICK c \in Conns :
          /\ c = nc /\ Head(calls) = calls[1] /\ calls[1] \in Call
          /\ WriterCounts(c) /\ Given(c) = calls[1].had /\ 1 \in 1..Len(calls)
          /\ Pending(c) /\ conn[c].blocks \in Blocks
    BY <2>1, InHand
  <2>3. /\ conn' = conn /\ user' = user /\ rows' = rows /\ sender' = sender
        /\ sent' = sent
    BY <1>3 DEF PartData, historyVars
  <2>4. \A d \in Conns : SameStream(conn'[d], d)
    BY <2>3 DEF SameStream, SameFile
  <2>5. \A d \in Conns : writer'[d] # NoWriter =>
          writer[d] # NoWriter /\ writer'[d].path = writer[d].path
    BY <1>3, <2>1, <2>2 DEF PartData, IInv, WritersPlaced, WriterCounts
  <2>6. UserInTune'
    BY <2>1, <2>2, <2>3, <2>4, <2>5, KeepsInTune DEF SenderInv
  <2>7. \A p \in Paths : disk'[p] = Absent <=> disk[p] = Absent
    <3>1. CASE disk' = disk
      BY <3>1
    <3>2. CASE disk' # disk
      <4>1. PICK n : n = writer[c].buffered + calls[1].len
        OBVIOUS
      <4>2. disk' = [disk EXCEPT ![writer[c].path] = Written(@, writer[c], n, c)]
        BY <1>3, <2>2, <3>2, <4>1 DEF PartData
      <4>3. /\ writer[c].pos \in Nat /\ writer[c].buffered \in Nat
            /\ writer[c].pos + writer[c].buffered <= calls[1].had
            /\ calls[1].had \in Nat /\ calls[1].len \in Nat
            /\ calls[1].had + calls[1].len = conn[c].blocks
            /\ conn[c].blocks <= MaxBlocks /\ MaxBlocks \in Nat
        BY <2>1, <2>2, StreamAssumption
           DEF WriterCounts, Wrote, Call, Blocks, UInv, CallsCounted, Pending
      <4>4. n \in Nat /\ writer[c].pos + n <= MaxBlocks
        BY <4>1, <4>3
      <4>. QED BY <2>1, <2>2, <4>2, <4>4, BlocksReachFile
    <3>. QED BY <3>1, <3>2
  <2>. QED BY <2>3, <2>6, <2>7 DEF SenderInv, FilesOfSenders, ListedFiles
<1>4. CASE PartBeginNoFile \/ PartDataLost
  <2>1. /\ ~Quiet /\ Taken /\ AnswersAndCloses
        /\ Head(calls).ev \in {"PART_BEGIN", "PART_DATA"}
        /\ user' = user /\ writer' = writer /\ disk' = disk /\ rows' = rows
        /\ sender' = sender /\ sent \subseteq sent'
    BY <1>4 DEF PartBeginNoFile, PartDataLost, Called, serverVars
  <2>2. Head(calls) = calls[1]
    BY <2>1, Pends
  <2>3. UserInTune'
    BY <2>1, <2>2, AnswerKeepsStreams, KeepsInTune DEF SenderInv
  <2>. QED BY <2>1, <2>3 DEF SenderInv, FilesOfSenders, ListedFiles
<1>5. CASE PartEnd
  <2>1. /\ ~Quiet /\ Taken /\ AnswersAndCloses
        /\ Head(calls).ev = "PART_END" /\ writer[nc] # NoWriter
    BY <1>5 DEF PartEnd, Called
  <2>2. PICK c \in Conns :
          c = nc /\ Head(calls) = calls[1] /\ Pending(c) /\ WriterCounts(c)
    BY <2>1, InHand
  <2>3. /\ user' = user /\ sender' = sender /\ sent' = sent
        /\ writer' = [writer EXCEPT ![c] = NoWriter]
        /\ rows' = rows \/ Recorded(calls[1].file_name)
    BY <1>5, <2>2 DEF PartEnd
  <2>n. calls[1].file_name \in Plain
    BY <2>1, <2>2, NamesArePlain
  <2>4. \A d \in Conns : writer'[d] # NoWriter => writer'[d] = writer[d]
    BY <2>3 DEF IInv, WritersPlaced
  <2>5. UserInTune'
    BY <2>1, <2>2, <2>3, <2>4, AnswerKeepsStreams, KeepsInTune DEF SenderInv
  <2>6. \A p \in Paths : disk'[p] = Absent <=> disk[p] = Absent
    BY <1>5, ClosingReachesFile
  <2>7. FilesOfSenders'
    BY <2>3, <2>6 DEF SenderInv, FilesOfSenders
  <2>8. /\ writer[c].path = <<user, calls[1].file_name>>
        /\ disk[<<user, calls[1].file_name>>] # Absent
    <3>1. writer[c].path[2] = calls[1].file_name
      BY <2>1, <2>2, <2>n DEF IInv, WritersPlaced, Opened
    <3>2. writer[c].path[1] = user
      BY <2>1, <2>2 DEF SenderInv, UserInTune
    <3>3. writer[c].path \in Paths /\ disk[writer[c].path] # Absent
      BY <2>2 DEF WriterCounts
    <3>4. writer[c].path = <<user, calls[1].file_name>>
      BY <3>1, <3>2, <3>3 DEF Paths
    <3>. QED BY <3>3, <3>4
  <2>9. ListedFiles'
    <3>1. ASSUME NEW p \in Paths, rows'[p] > 0 PROVE disk[p] # Absent
      <4>1. CASE rows'[p] = rows[p]
        BY <3>1, <4>1 DEF SenderInv, ListedFiles
      <4>2. CASE rows'[p] # rows[p]
        <5>1. p = <<user, calls[1].file_name>>
          BY <2>3, <2>n, <4>2 DEF Recorded, RowsFor, PathFor, UInv, UploadTypes
        <5>. QED BY <2>8, <5>1
      <4>. QED BY <4>1, <4>2
    <3>. QED BY <2>6, <3>1 DEF ListedFiles
  <2>. QED BY <2>5, <2>7, <2>9 DEF SenderInv
<1>6. CASE MultipartRequestEnd
  <2>1. /\ ~Quiet /\ Taken /\ Head(calls).ev = "MULTIPART_REQUEST_END"
        /\ conn' = conn /\ user' = user /\ writer' = writer /\ disk' = disk
        /\ rows' = rows /\ sender' = sender /\ sent' = sent
    BY <1>6 DEF MultipartRequestEnd, Called, serverVars, historyVars
  <2>2. Head(calls) = calls[1]
    BY <2>1, Pends
  <2>3. \A d \in Conns : SameStream(conn'[d], d)
    BY <2>1 DEF SameStream, SameFile
  <2>4. UserInTune'
    BY <2>1, <2>2, <2>3, KeepsInTune DEF SenderInv
  <2>. QED BY <2>1, <2>4 DEF SenderInv, FilesOfSenders, ListedFiles
<1>7. ASSUME Dies, rows' = rows, \A p \in Paths : disk'[p] = Absent <=> disk[p] = Absent
      PROVE  SenderInv'
  <2>1. UserInTune'
    BY <1>7 DEF Dies, UserInTune, Closed
  <2>. QED BY <1>7, <2>1 DEF Dies, SenderInv, FilesOfSenders, ListedFiles
<1>8. CASE MultipartRequestNoSession \/ PartEndNoDatabase \/ PartWithoutWriter
  BY <1>7, <1>8, ClosingReachesFile
  DEF MultipartRequestNoSession, PartEndNoDatabase, PartWithoutWriter
<1>. QED BY <1>1, <1>2, <1>3, <1>4, <1>5, <1>6, <1>8 DEF Handler

LEMMA SenderInvariance == ASSUME OneSender PROVE Spec => []SenderInv
<1>1. Init => SenderInv
  BY DEF Init, StreamInit, SenderInv, UserInTune, FilesOfSenders, ListedFiles, Closed
<1>2. IInv /\ UInv /\ SenderInv /\ [Next]_vars => SenderInv'
  <2>. SUFFICES ASSUME IInv, UInv, SenderInv, [Next]_vars PROVE SenderInv'
    OBVIOUS
  <2>1. CASE Kill
    <3>1. Dies /\ disk' = disk /\ rows' = rows
      BY <2>1 DEF Kill
    <3>2. UserInTune'
      BY <3>1 DEF Dies, UserInTune, Closed
    <3>. QED BY <3>1, <3>2 DEF Dies, SenderInv, FilesOfSenders, ListedFiles
  <2>2. ASSUME UNCHANGED <<conn, calls, user, writer, disk, rows, historyVars>>
        PROVE  SenderInv'
    BY <2>2 DEF SenderInv, UserInTune, FilesOfSenders, ListedFiles, Asking, Pending,
       historyVars
  <2>3. CASE Restart
    BY <2>2, <2>3 DEF Restart
  <2>4. CASE UNCHANGED vars
    BY <2>2, <2>4 DEF vars, serverVars
  <2>. QED BY <2>1, <2>3, <2>4, LoopSender, HandlerSender DEF Next
<1>. QED BY <1>1, <1>2, Invariance, FilesInvariance, PTL DEF Spec

(* RowsHaveFiles where senders do not mix and names are plain: the row is inserted after the      *)
(* file was created, under the same name, and no mishap removes a file, so *)
(* what a list shows is there to be downloaded, through kills and restarts. *)
THEOREM ListedFilesExist == ASSUME OneSender PROVE Spec => []RowsHaveFiles
<1>1. SenderInv => RowsHaveFiles
  BY DEF SenderInv, ListedFiles, RowsHaveFiles
<1>. QED BY <1>1, SenderInvariance, PTL

(* FilesAndRowsOfTheirSender where senders do not mix and names are plain: no file and no row     *)
(* comes to be under a user who did not send it, whatever fails halfway.   *)
THEOREM FilesAreTheirSenders ==
    ASSUME OneSender PROVE Spec => []FilesAndRowsOfTheirSender
<1>1. UInv /\ SenderInv => FilesAndRowsOfTheirSender
  BY DEF SenderInv, FilesOfSenders, ListedFiles, FilesAndRowsOfTheirSender
<1>. QED BY <1>1, FilesInvariance, SenderInvariance, PTL

-----------------------------------------------------------------------------
(* The server survives every upload whose peer waits for its answer, as long *)
(* as it can open its files and reach its database, and names are plain:   *)
(* for any number of connections, users and files, and whether or not      *)
(* writes fall short.                                                      *)

NothingFails == Mishaps \subseteq {"write"} /\ Files \subseteq Plain

HasFile(c) == writer[c] # NoWriter

(* What each call about to be made finds. *)
HeadExpected ==
    calls # <<>> =>
      LET c == calls[1].on
      IN  /\ calls[1].ev = "MULTIPART_REQUEST" =>
               calls[1].who # NoUser /\ ~conn[c].processing_part
          /\ calls[1].ev \in {"PART_DATA", "PART_END"} => HasFile(c)
          /\ calls[1].ev = "PART_END" => conn[c].stream # "boundary"
          /\ \A i \in 1..Len(calls) :
               calls[i].ev = "MULTIPART_REQUEST_END" => ~conn[c].processing_part

(* A connection is not closed between a request and its first part. *)
ClosedInParts ==
    \A c \in Conns :
        conn[c].stream = "boundary" /\ ~conn[c].processing_part
          => ~conn[c].send_and_close /\ ~conn[c].close_immediately

(* A part in progress has its file open. *)
PartsHaveFiles ==
    \A c \in Conns : conn[c].processing_part /\ ~Pending(c) => HasFile(c)

Alive ==
    /\ NothingFails
    /\ up
    /\ HeadExpected
    /\ ClosedInParts
    /\ PartsHaveFiles

-----------------------------------------------------------------------------

LEMMA InitAlive == Init /\ NothingFails => Alive
BY DEF Init, StreamInit, Alive, HeadExpected, ClosedInParts, PartsHaveFiles,
       Closed

(* What a step of the loop for connection c leaves of the others. *)
LEMMA LoopAlive ==
    ASSUME IInv, Alive, Quiet, UNCHANGED <<up, writer>>,
           NEW c \in Conns, NEW k \in Connection,
           conn' = [conn EXCEPT ![c] = k],
           calls' # <<>> => calls'[1].on = c,
           HeadExpected',
           k.stream = "boundary" /\ ~k.processing_part
             => ~k.send_and_close /\ ~k.close_immediately,
           k.processing_part /\ calls' = <<>> => HasFile(c)
    PROVE  Alive'
<1>1. conn'[c] = k /\ \A d \in Conns : d # c => conn'[d] = conn[d]
  BY DEF IInv, StreamsWellFormed
<1>2. ClosedInParts'
  BY <1>1 DEF Alive, ClosedInParts
<1>3. PartsHaveFiles'
  BY <1>1 DEF Alive, PartsHaveFiles, Pending, HasFile, Quiet
<1>. QED BY <1>2, <1>3 DEF Alive

LEMMA NoHead == calls' = <<>> => HeadExpected'
BY DEF HeadExpected

LEMMA OneHead ==
    ASSUME NEW call, calls' = <<call>>, NEW c, call.on = c,
           call.ev = "MULTIPART_REQUEST" =>
               call.who # NoUser /\ ~conn'[c].processing_part,
           call.ev = "PART_DATA" => HasFile(c)',
           call.ev # "PART_END",
           call.ev # "MULTIPART_REQUEST_END"
    PROVE  HeadExpected'
BY DEF HeadExpected

LEMMA TwoHeads ==
    ASSUME NEW j, NEW k, calls' = <<j, k>>, NEW c, j.on = c,
           j.ev = "PART_END", HasFile(c)', conn'[c].stream # "boundary",
           k.ev = "MULTIPART_REQUEST_END" => ~conn'[c].processing_part
    PROVE  HeadExpected'
<1>1. /\ Len(calls') = 2
      /\ calls'[1] = j
      /\ calls'[2] = k
      /\ \A i \in 1..Len(calls') : i = 1 \/ i = 2
  OBVIOUS
<1>. QED BY <1>1 DEF HeadExpected

LEMMA LoopStepAlive ==
    ASSUME IInv, Alive, Quiet, UNCHANGED <<up, writer>>,
           NEW c \in Conns, LoopStep(c)
    PROVE  Alive'
<1>0. /\ conn[c] \in Connection
      /\ conn \in [Conns -> Connection]
      /\ conn[c].processing_part => conn[c].stream # "none" /\ HasFile(c)
      /\ conn[c].stream = "chunk" => conn[c].processing_part
      /\ HasFile(c)' <=> HasFile(c)
      /\ NothingFails
      /\ Mishaps \subseteq {"write"}
      /\ 0 \in Blocks
  BY StreamAssumption
  DEF IInv, StreamsWellFormed, Alive, PartsHaveFiles, Pending, Quiet, HasFile,
      NothingFails, Blocks
<1>1. CASE Accept(c)
  <2>1. Accepted.processing_part = FALSE /\ Accepted.stream = "none"
    BY DEF Accepted, Closed
  <2>2. calls' = <<>> /\ conn' = [conn EXCEPT ![c] = Accepted]
    BY <1>1 DEF Accept, Quiet
  <2>. QED BY <2>1, <2>2, ClosedType, NoHead, LoopAlive
<1>2. CASE RecvRequest(c)
  <2>. DEFINE k == [conn[c] EXCEPT !.stream = "boundary", !.file_name = NoFile]
  <2>1. PICK u \in Users \cup {NoUser} :
          /\ u = NoUser => "nosession" \in Mishaps
          /\ calls' = <<[Calling(c, "MULTIPART_REQUEST") EXCEPT !.who = u]>>
    BY <1>2 DEF RecvRequest
  <2>. DEFINE call == [Calling(c, "MULTIPART_REQUEST") EXCEPT !.who = u]
  <2>2. call.on = c /\ call.ev = "MULTIPART_REQUEST" /\ call.who = u
    BY DEF Calling
  <2>3. u # NoUser
    BY <1>0, <2>1
  <2>4. /\ conn[c].stream = "none"
        /\ ~conn[c].send_and_close
        /\ ~conn[c].close_immediately
        /\ conn' = [conn EXCEPT ![c] = k]
    BY <1>0, <1>2 DEF RecvRequest, ReceivingIn, Receiving, DueToClose
  <2>5. /\ k \in Connection
        /\ k.processing_part = conn[c].processing_part
        /\ k.send_and_close = conn[c].send_and_close
        /\ k.close_immediately = conn[c].close_immediately
    BY <1>0 DEF Connection
  <2>6. conn'[c] = k /\ ~k.processing_part
    BY <1>0, <2>4, <2>5
  <2>. HIDE DEF k, call
  <2>7. HeadExpected'
    BY <2>1, <2>2, <2>3, <2>6, OneHead DEF call
  <2>. QED BY <2>1, <2>2, <2>4, <2>5, <2>6, <2>7, LoopAlive DEF call
<1>3. CASE RecvPartHeaders(c)
  <2>1. PICK f \in Files :
          /\ conn' = [conn EXCEPT ![c].stream = "chunk",
                                  ![c].processing_part = TRUE,
                                  ![c].file_name = f,
                                  ![c].blocks = 0]
          /\ calls' =
               (IF conn[c].processing_part THEN <<Calling(c, "PART_END")>> ELSE <<>>)
                 \o <<[Calling(c, "PART_BEGIN") EXCEPT !.file_name = f]>>
    BY <1>3 DEF RecvPartHeaders
  <2>. DEFINE k == [conn[c] EXCEPT !.stream = "chunk", !.processing_part = TRUE,
                                   !.file_name = f, !.blocks = 0]
              end == Calling(c, "PART_END")
              begin == [Calling(c, "PART_BEGIN") EXCEPT !.file_name = f]
  <2>2. /\ end.on = c
        /\ end.ev = "PART_END"
        /\ begin.on = c
        /\ begin.ev = "PART_BEGIN"
    BY DEF Calling
  <2>3. k \in Connection /\ k.stream = "chunk"
    BY <1>0 DEF Connection
  <2>4. conn' = [conn EXCEPT ![c] = k] /\ conn'[c] = k
    BY <1>0, <2>1
  <2>5. CASE conn[c].processing_part
    <3>1. calls' = <<end, begin>>
      <4>1. calls' = <<end>> \o <<begin>>
        BY <2>1, <2>5, Zenon
      <4>2. end \in {end, begin} /\ begin \in {end, begin}
        OBVIOUS
      <4>. HIDE DEF end, begin
      <4>. QED BY <4>1, <4>2, TwoInARow
    <3>. HIDE DEF k, end, begin
    <3>2. HeadExpected'
      BY <1>0, <2>2, <2>3, <2>4, <2>5, <3>1, TwoHeads
    <3>3. calls' # <<>> /\ calls'[1].on = c
      BY <2>2, <3>1
    <3>. QED BY <2>3, <2>4, <3>2, <3>3, LoopAlive
  <2>6. CASE ~conn[c].processing_part
    <3>1. calls' = <<begin>>
      BY <2>1, <2>6
    <3>. HIDE DEF k, begin
    <3>2. HeadExpected'
      BY <2>2, <3>1, OneHead
    <3>3. calls' # <<>> /\ calls'[1].on = c
      BY <2>2, <3>1
    <3>. QED BY <2>3, <2>4, <3>2, <3>3, LoopAlive
  <2>. QED BY <2>5, <2>6
<1>4. CASE RecvData(c)
  <2>. DEFINE k == [conn[c] EXCEPT !.blocks = @ + 1]
              call == [Calling(c, "PART_DATA") EXCEPT !.len = 1]
  <2>1. /\ calls' = <<call>>
        /\ conn' = [conn EXCEPT ![c] = k]
        /\ conn[c].stream = "chunk"
        /\ conn[c].blocks < MaxBlocks
    BY <1>4 DEF RecvData, ReceivingIn
  <2>2. k \in Connection /\ k.stream = "chunk"
    <3>1. conn[c].blocks + 1 \in Blocks
      BY <1>0, <2>1, StreamAssumption DEF Blocks, Connection
    <3>. QED BY <1>0, <2>1, <3>1 DEF Connection
  <2>3. call.on = c /\ call.ev = "PART_DATA"
    BY DEF Calling
  <2>. HIDE DEF k, call
  <2>. QED BY <1>0, <2>1, <2>2, <2>3, OneHead, LoopAlive
<1>5. CASE RecvDelimiter(c)
  <2>1. PICK n \in {0, 1} :
          /\ conn[c].blocks + n <= MaxBlocks
          /\ conn' = [conn EXCEPT ![c].stream = "boundary", ![c].blocks = @ + n]
          /\ calls' = <<[Calling(c, "PART_DATA") EXCEPT !.len = n]>>
    BY <1>5 DEF RecvDelimiter
  <2>. DEFINE k == [conn[c] EXCEPT !.stream = "boundary", !.blocks = @ + n]
              call == [Calling(c, "PART_DATA") EXCEPT !.len = n]
  <2>2. /\ calls' = <<call>>
        /\ conn' = [conn EXCEPT ![c] = k]
        /\ conn[c].stream = "chunk"
    BY <1>5, <2>1 DEF RecvDelimiter, ReceivingIn
  <2>3. k \in Connection /\ k.processing_part = conn[c].processing_part
    <3>1. conn[c].blocks + n \in Blocks
      BY <1>0, <2>1, StreamAssumption DEF Blocks, Connection
    <3>. QED BY <1>0, <3>1 DEF Connection
  <2>4. call.on = c /\ call.ev = "PART_DATA"
    BY DEF Calling
  <2>. HIDE DEF k, call
  <2>. QED BY <1>0, <2>2, <2>3, <2>4, OneHead, LoopAlive
<1>6. CASE RecvClosingMark(c)
  <2>. DEFINE k == [conn[c] EXCEPT !.stream = "none", !.processing_part = FALSE,
                                   !.file_name = NoFile, !.blocks = 0]
              end == Calling(c, "PART_END")
              last == [Calling(c, "MULTIPART_REQUEST_END") EXCEPT !.file_name = NoFile]
  <2>1. /\ calls' = <<end, last>>
        /\ conn' = [conn EXCEPT ![c] = k]
        /\ conn[c].processing_part
    BY <1>0, <1>6 DEF RecvClosingMark
  <2>2. end.on = c /\ end.ev = "PART_END"
    BY DEF Calling
  <2>3. /\ k \in Connection
        /\ k.processing_part = FALSE
        /\ k.stream = "none"
        /\ conn'[c] = k
    BY <1>0, <2>1 DEF Connection
  <2>. HIDE DEF k, end, last
  <2>4. HeadExpected'
    BY <1>0, <2>1, <2>2, <2>3, TwoHeads
  <2>. QED BY <2>1, <2>2, <2>3, <2>4, LoopAlive
<1>7. CASE RecvEnd(c)
  <2>. DEFINE k == [conn[c] EXCEPT !.peer_gone = TRUE, !.send_and_close = TRUE]
  <2>1. /\ calls' = <<>>
        /\ conn' = [conn EXCEPT ![c] = k]
        /\ conn[c].stream = "none"
    BY <1>0, <1>7 DEF RecvEnd, Quiet
  <2>2. /\ k \in Connection
        /\ k.stream = "none"
        /\ k.processing_part = conn[c].processing_part
    BY <1>0, <2>1 DEF Connection
  <2>. HIDE DEF k
  <2>. QED BY <1>0, <2>1, <2>2, NoHead, LoopAlive
<1>n. CASE RecvNoBoundary(c)
  BY <1>0, <1>n DEF RecvNoBoundary
<1>8. CASE ConnectionFails(c)
  BY <1>0, <1>8 DEF ConnectionFails
<1>9. CASE Send(c)
  <2>. DEFINE k == [conn[c] EXCEPT !.unsent = FALSE]
  <2>1. calls' = <<>> /\ conn' = [conn EXCEPT ![c] = k]
    BY <1>9 DEF Send, Quiet
  <2>2. /\ k \in Connection
        /\ k.stream = conn[c].stream
        /\ k.processing_part = conn[c].processing_part
        /\ k.send_and_close = conn[c].send_and_close
        /\ k.close_immediately = conn[c].close_immediately
    BY <1>0 DEF Connection
  <2>3. conn[c].stream = "boundary" /\ ~conn[c].processing_part
          => ~conn[c].send_and_close /\ ~conn[c].close_immediately
    BY DEF Alive, ClosedInParts
  <2>. HIDE DEF k
  <2>. QED BY <1>0, <2>1, <2>2, <2>3, NoHead, LoopAlive
<1>10. CASE PollClose(c)
  <2>1. Closed.processing_part = FALSE /\ Closed.stream = "none"
    BY DEF Closed
  <2>2. /\ calls' = CallsAtClose(c)
        /\ conn' = [conn EXCEPT ![c] = Closed]
        /\ conn'[c] = Closed
    BY <1>0, <1>10 DEF PollClose
  <2>3. CASE conn[c].stream = "none"
    <3>1. calls' = <<>>
      BY <2>2, <2>3 DEF CallsAtClose
    <3>. QED BY <2>1, <2>2, <3>1, ClosedType, NoHead, LoopAlive
  <2>4. CASE conn[c].stream # "none"
    <3>. DEFINE end == [Calling(c, "PART_END") EXCEPT !.status = Terminated]
                last == [Calling(c, "MULTIPART_REQUEST_END") EXCEPT
                           !.file_name = NoFile, !.status = Terminated]
    <3>1. calls' = <<end, last>>
      BY <2>2, <2>4 DEF CallsAtClose
    <3>2. end.on = c /\ end.ev = "PART_END"
      BY DEF Calling
    <3>3. conn[c].processing_part
      <4>1. conn[c].stream \in {"boundary", "chunk"}
        BY <1>0, <2>4 DEF Connection
      <4>2. conn[c].send_and_close \/ conn[c].close_immediately
        BY <1>10 DEF PollClose, DueToClose
      <4>. QED BY <1>0, <4>1, <4>2 DEF Alive, ClosedInParts
    <3>. HIDE DEF end, last
    <3>4. HeadExpected'
      BY <1>0, <2>1, <2>2, <3>1, <3>2, <3>3, TwoHeads
    <3>5. calls'[1].on = c
      BY <3>1, <3>2
    <3>. QED BY <2>1, <2>2, <3>4, <3>5, ClosedType, LoopAlive
  <2>. QED BY <2>3, <2>4
<1>. QED
  BY <1>1, <1>2, <1>3, <1>4, <1>5, <1>6, <1>7, <1>8, <1>9, <1>10,
     <1>n DEF LoopStep

-----------------------------------------------------------------------------

LEMMA HandlerAlive ==
    ASSUME IInv, Alive, ~Quiet, Taken, UNCHANGED up,
           \A d \in Conns :
               SameFile(conn'[d], d) /\ conn'[d].stream = conn[d].stream,
           NEW c \in Conns, c = nc,
           NEW w, writer' = [writer EXCEPT ![c] = w],
           \/ w # NoWriter
           \/ ~conn[c].processing_part
           \/ calls[1].ev = "PART_END",
           ClosedInParts'
    PROVE  Alive'
<1>1. /\ calls[1].ev # "PART_END" => calls' = <<>>
      /\ calls[1].ev = "PART_END" =>
           2 \in 1..Len(calls) /\ calls' = <<calls[2]>>
      /\ calls' # <<>> =>
           /\ calls'[1].on = c
           /\ calls'[1].ev \in {"PART_BEGIN", "MULTIPART_REQUEST_END"}
  BY TakenEffect DEF InPart, SameFile
<1>2. c = calls[1].on /\ calls # <<>> /\ \A d \in Conns : Pending(d) <=> d = c
  BY Pends DEF Quiet
<1>3. HeadExpected'
  <2>1. CASE calls[1].ev # "PART_END"
    BY <1>1, <2>1, NoHead
  <2>2. CASE calls[1].ev = "PART_END"
    <3>1. Len(calls') = 1 /\ calls'[1] = calls[2] /\ 2 \in 1..Len(calls)
      BY <1>1, <2>2
    <3>2. calls[2].ev = "MULTIPART_REQUEST_END" => ~conn[c].processing_part
      BY <1>2, <3>1 DEF Alive, HeadExpected
    <3>3. calls'[1].ev = "MULTIPART_REQUEST_END" => ~conn'[c].processing_part
      BY <3>1, <3>2 DEF SameFile
    <3>4. \A i \in 1..Len(calls') : i = 1
      BY <3>1
    <3>5. /\ calls'[1].on = c
          /\ calls'[1].ev \in {"PART_BEGIN", "MULTIPART_REQUEST_END"}
      BY <1>1, <2>2
    <3>. QED BY <3>3, <3>4, <3>5 DEF HeadExpected
  <2>. QED BY <2>1, <2>2
<1>4. PartsHaveFiles'
  <2>. SUFFICES ASSUME NEW d \in Conns, conn'[d].processing_part, ~Pending(d)'
                PROVE  HasFile(d)'
    BY DEF PartsHaveFiles
  <2>1. writer \in [Conns -> OpenFile \cup {NoWriter}]
    BY DEF IInv, WritersPlaced
  <2>2. conn[d].processing_part
    BY DEF SameFile
  <2>3. CASE d = c
    <3>1. calls[1].ev # "PART_END"
      BY <1>1, <2>3 DEF Pending
    <3>. QED BY <2>1, <2>2, <2>3, <3>1 DEF HasFile
  <2>4. CASE d # c
    <3>1. HasFile(d)
      BY <1>2, <2>2, <2>4 DEF Alive, PartsHaveFiles
    <3>. QED BY <2>1, <2>4, <3>1 DEF HasFile
  <2>. QED BY <2>3, <2>4
<1>. QED BY <1>3, <1>4 DEF Alive

LEMMA HandlerStepAlive ==
    ASSUME IInv, Alive, Handler
    PROVE  Alive'
<1>. USE DEF Called
<1>0. ~Quiet
  BY DEF Handler, MultipartRequest, MultipartRequestNoSession, PartBegin,
         PartBeginNoFile, PartData, PartDataLost, PartEnd, PartEndNoDatabase,
         PartWithoutWriter, MultipartRequestEnd
<1>1. PICK c \in Conns : c = nc
  BY <1>0, Pends
<1>2. /\ Head(calls) = calls[1]
      /\ calls[1].on = c
      /\ calls # <<>>
      /\ Pending(c)
      /\ 1 \in 1..Len(calls)
  BY <1>0, <1>1, Pends DEF Quiet
<1>3. /\ calls[1].ev = "MULTIPART_REQUEST" =>
           calls[1].who # NoUser /\ ~conn[c].processing_part
      /\ calls[1].ev \in {"PART_DATA", "PART_END"} => HasFile(c)
      /\ calls[1].ev = "PART_END" => conn[c].stream # "boundary"
      /\ calls[1].ev = "MULTIPART_REQUEST_END" => ~conn[c].processing_part
  BY <1>2 DEF Alive, HeadExpected
<1>4. /\ Mishaps \subseteq {"write"}
      /\ Files \subseteq Plain
      /\ ClosedInParts
      /\ up
  BY DEF Alive, NothingFails
<1>5. conn' = conn =>
        /\ \A d \in Conns :
              SameFile(conn'[d], d) /\ conn'[d].stream = conn[d].stream
        /\ ClosedInParts'
  BY <1>4 DEF SameFile, ClosedInParts
<1>6. /\ writer \in [Conns -> OpenFile \cup {NoWriter}]
      /\ writer' = writer => writer' = [writer EXCEPT ![c] = writer[c]]
  BY DEF IInv, WritersPlaced
<1>7. AnswersAndCloses /\ (conn[c].stream = "boundary" => conn[c].processing_part)
        => ClosedInParts'
  <2>. SUFFICES ASSUME AnswersAndCloses,
                       conn[c].stream = "boundary" => conn[c].processing_part
                PROVE  ClosedInParts'
    OBVIOUS
  <2>1. \A d \in Conns :
          /\ conn'[d].stream = conn[d].stream
          /\ conn'[d].processing_part = conn[d].processing_part
    BY <1>0, AnswerEffect DEF SameFile
  <2>2. \A d \in Conns : d # c => conn'[d] = conn[d]
    BY <1>1 DEF AnswersAndCloses, IInv, StreamsWellFormed
  <2>. QED BY <1>4, <2>1, <2>2 DEF ClosedInParts
<1>8. CASE MultipartRequest
  <2>1. /\ Taken
        /\ conn' = conn
        /\ up' = up
        /\ writer' = writer
        /\ calls[1].ev = "MULTIPART_REQUEST"
    BY <1>2, <1>8 DEF MultipartRequest
  <2>. QED BY <1>0, <1>1, <1>3, <1>5, <1>6, <2>1, HandlerAlive
<1>9. CASE MultipartRequestNoSession
  BY <1>2, <1>3, <1>9 DEF MultipartRequestNoSession
<1>10. CASE PartBegin
  <2>1. /\ Taken
        /\ conn' = conn
        /\ up' = up
    BY <1>10 DEF PartBegin
  <2>2. PICK w \in OpenFile : writer' = [writer EXCEPT ![c] = w]
    <3>2. CASE writer[c] = NoWriter
      <4>p. PICK p \in Located(calls[1].file_name) :
              writer' = [writer EXCEPT ![c] = [path |-> p, pos |-> 0, buffered |-> 0]]
        BY <1>1, <1>2, <1>10, <3>2 DEF PartBegin
      <4>. DEFINE w == [path |-> p, pos |-> 0, buffered |-> 0]
      <4>1. calls[1] \in Call /\ user \in Users \cup {NoUser}
        BY <1>0, Pends DEF IInv, WritersPlaced
      <4>2. w \in OpenFile
        BY <4>1, LocatedTyped DEF OpenFile
      <4>3. writer' = [writer EXCEPT ![c] = w]
        BY <4>p
      <4>. HIDE DEF w
      <4>. QED BY <4>2, <4>3
    <3>3. CASE writer[c] # NoWriter
      <4>1. writer' = writer
        BY <1>1, <1>10, <3>3 DEF PartBegin
      <4>. QED BY <1>6, <3>3, <4>1
    <3>. QED BY <3>2, <3>3
  <2>3. w # NoWriter
    BY UploadAssumption
  <2>. QED BY <1>0, <1>1, <1>5, <2>1, <2>2, <2>3, HandlerAlive
<1>11. CASE PartBeginNoFile
  <2>1. calls[1].ev = "PART_BEGIN" /\ calls[1].file_name \notin Plain
    BY <1>2, <1>4, <1>11 DEF PartBeginNoFile
  <2>2. InPart(c, calls[1].file_name)
    BY <1>2, <2>1 DEF IInv, BeginsItsPart
  <2>. QED BY <1>4, <2>1, <2>2 DEF IInv, StreamsWellFormed, InPart
<1>12. CASE PartData
  <2>1. /\ Taken
        /\ conn' = conn
        /\ up' = up
        /\ writer[c] \in OpenFile
        /\ calls[1].ev = "PART_DATA"
    BY <1>1, <1>2, <1>6, <1>12 DEF PartData
  <2>2. writer[c].buffered + calls[1].len \in Nat
    <3>1. calls[1] \in Call
      BY <1>0, Pends
    <3>. QED BY <2>1, <3>1, StreamAssumption DEF OpenFile, Call, Blocks
  <2>. DEFINE held == writer[c].buffered + calls[1].len
              kept == [writer[c] EXCEPT !.buffered = held]
              passed == [writer[c] EXCEPT !.pos = @ + held, !.buffered = 0]
  <2>3. kept \in OpenFile
    BY <2>1, <2>2 DEF OpenFile
  <2>4. passed \in OpenFile
    <3>1. writer[c].pos + held \in Nat
      BY <2>1, <2>2 DEF OpenFile
    <3>. QED BY <2>1, <3>1 DEF OpenFile
  <2>5. \/ writer' = [writer EXCEPT ![c] = kept]
        \/ writer' = [writer EXCEPT ![c] = passed]
    BY <1>1, <1>2, <1>12 DEF PartData
  <2>. HIDE DEF held, kept, passed
  <2>6. PICK w \in OpenFile : writer' = [writer EXCEPT ![c] = w]
    BY <2>3, <2>4, <2>5
  <2>7. w # NoWriter
    BY UploadAssumption
  <2>. QED BY <1>0, <1>1, <1>5, <2>1, <2>6, <2>7, HandlerAlive
<1>13. CASE PartDataLost
  <2>1. /\ Taken
        /\ AnswersAndCloses
        /\ up' = up
        /\ writer' = writer
        /\ writer[c] # NoWriter
        /\ calls[1].ev = "PART_DATA"
    BY <1>1, <1>2, <1>13 DEF PartDataLost, serverVars
  <2>2. conn[c].processing_part
    BY <1>2, <2>1 DEF IInv, WritersPlaced, Holds, InPart
  <2>. QED BY <1>0, <1>1, <1>6, <1>7, <2>1, <2>2, AnswerEffect, HandlerAlive
<1>14. CASE PartEnd
  <2>1. /\ Taken
        /\ AnswersAndCloses
        /\ up' = up
        /\ writer' = [writer EXCEPT ![c] = NoWriter]
        /\ calls[1].ev = "PART_END"
    BY <1>1, <1>2, <1>14 DEF PartEnd
  <2>. QED BY <1>0, <1>1, <1>3, <1>7, <2>1, AnswerEffect, HandlerAlive
<1>15. CASE PartEndNoDatabase
  <2>1. /\ calls[1].ev = "PART_END" /\ calls[1].file_name \notin Plain
        /\ writer[c] # NoWriter
    BY <1>1, <1>2, <1>4, <1>15 DEF PartEndNoDatabase
  <2>2. Opened(writer[c], calls[1].file_name)
    BY <1>2, <2>1 DEF IInv, WritersPlaced
  <2>. QED BY <1>4, <2>1, <2>2 DEF Opened
<1>16. CASE PartWithoutWriter
  BY <1>1, <1>2, <1>3, <1>16 DEF PartWithoutWriter, HasFile
<1>17. CASE MultipartRequestEnd
  <2>1. /\ Taken
        /\ conn' = conn
        /\ up' = up
        /\ writer' = writer
        /\ calls[1].ev = "MULTIPART_REQUEST_END"
    BY <1>2, <1>17 DEF MultipartRequestEnd, serverVars
  <2>. QED BY <1>0, <1>1, <1>3, <1>5, <1>6, <2>1, HandlerAlive
<1>. QED
  BY <1>8, <1>9, <1>10, <1>11, <1>12, <1>13, <1>14, <1>15, <1>16, <1>17
  DEF Handler

-----------------------------------------------------------------------------

LEMMA StutterAlive ==
    ASSUME Alive, UNCHANGED <<conn, calls, up, writer>>
    PROVE  Alive'
BY DEF Alive, HeadExpected, ClosedInParts, PartsHaveFiles, Pending, HasFile

LEMMA NextAlive == IInv /\ Alive /\ [Next]_vars => Alive'
<1>. SUFFICES ASSUME IInv, Alive, [Next]_vars PROVE Alive'
  OBVIOUS
<1>1. ASSUME NEW c \in Conns, Loop(c) PROVE Alive'
  BY <1>1, LoopStepAlive DEF Loop, LoopStep, serverVars
<1>2. CASE Handler
  BY <1>2, HandlerStepAlive
<1>3. CASE Kill
  BY <1>3 DEF Kill, Alive, NothingFails
<1>4. CASE Restart
  BY <1>4 DEF Restart, Alive
<1>5. CASE UNCHANGED vars
  BY <1>5, StutterAlive DEF vars, serverVars
<1>. QED BY <1>1, <1>2, <1>3, <1>4, <1>5 DEF Next

(* StaysUp for any number of connections, users and files: no null pointer   *)
(* is followed (a session, a writer, a database handle that is not there)  *)
(* while the peers of uploads have sessions, send at least one part, wait  *)
(* for their answers and send nothing after it, under plain names, files   *)
(* can be opened and the database be reached.  Writes may fall short.      *)
THEOREM UploadsLeaveServerUp ==
    Spec /\ NothingFails => []StaysUp
<1>1. Init /\ NothingFails => Alive
  BY InitAlive
<1>2. IInv /\ Alive /\ [Next]_vars => Alive'
  BY NextAlive
<1>3. Alive => StaysUp
  BY DEF Alive, StaysUp
<1>. QED BY <1>1, <1>2, <1>3, Invariance, PTL DEF Spec

=============================================================================
