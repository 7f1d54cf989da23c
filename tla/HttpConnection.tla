--------------------------- MODULE HttpConnection ---------------------------
(***************************************************************************)
(* mg_http_handler of src/common/mongoose.c on one connection: requests are *)
(* buffered, parsed and handed to the server's handler, whose answer is     *)
(* queued at once or, for a file, moved to the send buffer piece by piece   *)
(* as that drains (mg_http_serve_file, mg_http_transfer_file_data).          *)
(*                                                                         *)
(* The peer's bytes come in units, cut anywhere by TCP: a head is two, a     *)
(* body some.  A unit <<i, k>> is the k-th of the peer's i-th request.       *)
(*                                                                         *)
(* Three requests are not among the peer's: a multipart one and an upgrade, *)
(* which leave this parser for MultipartStream and WebSocketFrames with     *)
(* pd->rcvd as it was, and one whose Content-Length is negative, of which   *)
(* less than its head is removed.  What is checked and proved here is said  *)
(* of connections without them.                                            *)
(***************************************************************************)
EXTENDS Naturals, Sequences, FiniteSets, SequencesExt

CONSTANTS
    MaxRequests,   \* bound of the model: requests on the connection
    FileLen,       \* units of the file that is downloaded
    MaxSend,       \* MG_MAX_HTTP_SEND_MBUF
    MaxRequest,    \* MG_MAX_HTTP_REQUEST_SIZE
    Kinds,         \* which of AllKinds the peer sends
    Mishaps        \* what may go wrong in this instance

(* "reset": the connection breaks; "shrink": the file is cut by an upload of  *)
(* the same name; "behind": the peer sends on while it is sent a file, or    *)
(* behind the chunks of a request.                                         *)

(* The requests, by their head, the units of their body, and what the        *)
(* handler does:                                                           *)
(*  "page"   answers with a length and keeps the connection (the upload     *)
(*           form, a redirect)                                              *)
(*  "last"   answers with a length and asks for the close (an error, the     *)
(*           login page)                                                    *)
(*  "open"   answers without one (query, get_file)                          *)
(*  "gone"   does not answer: the file of a download is not there           *)
(*  "file"   serves the blocks first..last of the file                      *)
Heads == {"good", "chunked", "bad", "endless"}
Answers == {"page", "last", "open", "gone", "file"}

Request ==
    [head : Heads, body : 0..3, announced : BOOLEAN, answer : Answers,
     first : Nat, last : Nat, keepalive : BOOLEAN]

Get(answer) ==
    [head |-> "good", body |-> 0, announced |-> TRUE, answer |-> answer,
     first |-> 1, last |-> FileLen, keepalive |-> TRUE]

(* The chunked ones are a POST of one chunk and the last one.  After a        *)
(* "chunkfile" rcvd stays ahead of the buffer, and a request behind it may  *)
(* be handled before its body has come: with it among the Kinds             *)
(* BufferInStep, HandedWhole, ImplementsExchange and AnswersAreTold do not  *)
(* hold.                                                                   *)
AllKinds ==
    [page    |-> Get("page"),
     last    |-> Get("last"),
     open    |-> Get("open"),
     gone    |-> Get("gone"),
     file    |-> Get("file"),
     tail    |-> [Get("file") EXCEPT !.first = 2, !.keepalive = FALSE],
     norange |-> [Get("file") EXCEPT !.last = 0],
     form    |-> [Get("page") EXCEPT !.body = 2],
     unsized |-> [Get("page") EXCEPT !.body = 1, !.announced = FALSE],
     chunked |-> [Get("page") EXCEPT !.head = "chunked", !.body = 3,
                                     !.announced = FALSE],
     chunkfile |-> [Get("file") EXCEPT !.head = "chunked", !.body = 3,
                                       !.announced = FALSE],
     bad     |-> [Get("page") EXCEPT !.head = "bad"],
     endless |-> [Get("page") EXCEPT !.head = "endless"]]

ASSUME HttpAssumption ==
    /\ MaxRequests \in Nat
    /\ FileLen \in Nat \ {0} /\ MaxSend \in Nat \ {0}
    /\ MaxRequest \in Nat /\ MaxRequest >= 3
    /\ Kinds \subseteq DOMAIN AllKinds
    /\ Mishaps \subseteq {"reset", "behind", "shrink"}

HeadLen == 2
Length(r) == IF r.head = "endless" THEN MaxRequest + 1 ELSE HeadLen + r.body

VARIABLES
    script,        \* the requests the peer has to send
    patient,       \* it waits for each answer before it sends on
    got,           \* how many units it has sent
    io,            \* nc->recv_mbuf
    rcvd,          \* pd->rcvd
    parsing,       \* mg_http_handler is in its parsing loop
    file,          \* pd->file
    opened,        \* files that are open
    send_mbuf,
    heard,         \* what the peer has been sent
    send_and_close, close_immediately,
    ended,         \* the peer has closed its side
    up,            \* the connection exists
    handed,        \* history: what the handler was called with
    len            \* how long the file is now

peerVars == <<script, patient>>
bufferVars == <<io, rcvd>>
fileVars == <<file, opened>>
flagVars == <<send_and_close, close_immediately>>
vars == <<peerVars, got, bufferVars, parsing, fileVars, send_mbuf, heard,
          flagVars, ended, up, handed, len>>

(* The units of the first i requests. *)
EndOf[i \in 0..MaxRequests] ==
    IF i = 0 THEN 0
    ELSE EndOf[i - 1] + IF i <= Len(script) THEN Length(script[i]) ELSE 0

Total == EndOf[Len(script)]

(* The n-th unit the peer sends. *)
Unit(n) ==
    LET i == CHOOSE i \in 1..Len(script) : EndOf[i - 1] < n /\ n <= EndOf[i]
    IN  <<i, n - EndOf[i - 1]>>

Closed == [fp |-> FALSE, at |-> 0, cl |-> 0, sent |-> 0, keepalive |-> FALSE]

(* What the peer is to hear of a request. *)
Block(b) == <<"block", b>>
FileAnswer(r) ==
    <<<<"head", 0>>>> \o [k \in 1..(r.last + 1 - r.first) |-> Block(r.first + k - 1)]

Answer(r) ==
    CASE r.answer \in {"page", "last"} -> <<<<"head", 0>>, <<"body", 0>>>>
      [] r.answer = "open" -> <<<<"body", 0>>>>
      [] r.answer = "gone" -> <<>>
      [] r.answer = "file" -> FileAnswer(r)

Init ==
    /\ script \in UNION {[1..n -> {AllKinds[k] : k \in Kinds}] : n \in 1..MaxRequests}
    /\ patient \in BOOLEAN
    /\ got = 0
    /\ io = <<>> /\ rcvd = 0
    /\ parsing = FALSE
    /\ file = Closed /\ opened = 0
    /\ send_mbuf = <<>> /\ heard = <<>>
    /\ send_and_close = FALSE /\ close_immediately = FALSE
    /\ ended = FALSE
    /\ up = TRUE
    /\ handed = <<>>
    /\ len = FileLen

-----------------------------------------------------------------------------
(* The peer *)

(* Requests that have arrived whole and can be told from what follows. *)
Whole(i) ==
    /\ got >= EndOf[i]
    /\ \A j \in 1..i :
          \/ script[j].head = "good" /\ script[j].announced
          \/ script[j].head = "chunked"
AskedNow == Cardinality({i \in 1..Len(script) : Whole(i)})

Promised(n) == FlattenSeq([i \in 1..n |-> Answer(script[i])])

(* How far the peer may send.  A patient one waits for the answers; none     *)
(* but a peer of the mishap "behind" sends on behind a file or chunks.      *)
Waits(i) ==
    /\ \/ patient
       \/ /\ script[i].answer = "file" \/ script[i].head = "chunked"
          /\ "behind" \notin Mishaps
    /\ script[i].answer = "gone" \/ Len(heard) < Len(Promised(i))

MaySend(n) ==
    \A i \in 1..Len(script) : EndOf[i] < n => ~Waits(i)

-----------------------------------------------------------------------------
(* Files *)

(* mg_http_transfer_file_data, for the send buffer out: what is moved.  left  *)
(* is unsigned: with more sent than was to be sent it is as large as any.   *)
Moved(f, out) ==
    LET room == IF Len(out) >= MaxSend THEN 0 ELSE MaxSend - Len(out)
        left == IF f.sent <= f.cl THEN f.cl - f.sent ELSE MaxSend
        rest == IF f.at <= len THEN len - f.at ELSE 0
        least == CHOOSE n \in {room, left, rest} :
                    n <= room /\ n <= left /\ n <= rest
    IN  [k \in 1..least |-> Block(f.at + k)]

(* Mutant: the file is not closed when all of it has been sent. *)
TransferNoClose(f, out, open) ==
    LET n == Len(Moved(f, out))
        g == [f EXCEPT !.at = @ + n, !.sent = @ + n]
    IN  /\ send_mbuf' = out \o Moved(f, out)
        /\ opened' = open
        /\ file' = IF g.sent >= g.cl THEN Closed ELSE g
        /\ send_and_close' = (send_and_close \/ (g.sent >= g.cl /\ ~f.keepalive))

(* The call, on pd->file = f, a send buffer and the files that are open. *)
Transfer(f, out, open) ==
    LET n == Len(Moved(f, out))
        g == [f EXCEPT !.at = @ + n, !.sent = @ + n]
    IN  /\ send_mbuf' = out \o Moved(f, out)
        /\ IF g.sent >= g.cl
           THEN /\ file' = Closed
                /\ opened' = open - 1
                /\ send_and_close' = (send_and_close \/ ~f.keepalive)
           ELSE /\ file' = g
                /\ opened' = open
                /\ UNCHANGED send_and_close

(* Any event but a close, before it is looked at. *)
TransferIfOpen(out) ==
    IF file.fp THEN Transfer(file, out, opened)
    ELSE send_mbuf' = out /\ UNCHANGED <<fileVars, send_and_close>>

(* Mutant: a range is announced and the file sent from its start. *)
ServeFileFromStart(r) ==
    Transfer([file EXCEPT !.fp = TRUE, !.at = 0,
                          !.cl = r.last + 1 - r.first, !.keepalive = r.keepalive],
             Append(send_mbuf, <<"head", 0>>), opened + 1)

(* mg_http_serve_file, after the headers.  sent is not touched.  A range     *)
(* that is not in the file has last < first: 416, nothing to send.          *)
ServeFile(r) ==
    Transfer([file EXCEPT !.fp = TRUE, !.at = r.first - 1,
                          !.cl = r.last + 1 - r.first, !.keepalive = r.keepalive],
             Append(send_mbuf, <<"head", 0>>), opened + 1)

-----------------------------------------------------------------------------
(* Receiving *)

CanReceive == up /\ ~parsing /\ ~close_immediately /\ ~ended

(* A close that is due is made before anything is read. *)
DueToClose ==
    \/ close_immediately
    \/ send_and_close /\ send_mbuf = <<>>

(* MG_EV_RECV: n units. *)
Receive(n) ==
    /\ CanReceive /\ ~DueToClose
    /\ got + n <= Total /\ MaySend(got + n)
    /\ got' = got + n
    /\ io' = io \o [k \in 1..n |-> Unit(got + k)]
    /\ rcvd' = rcvd + n
    /\ TransferIfOpen(send_mbuf)
    /\ parsing' = TRUE
    /\ UNCHANGED <<peerVars, heard, close_immediately, ended, up, handed, len>>

Req == script[Head(io)[1]]
HeadThere == Len(io) >= HeadLen /\ Req.head \in {"good", "chunked"}

(* The body of a chunked request: the size of its chunk, the data, and the   *)
(* chunk of size 0.                                                        *)
ChunkUnit(k) == <<Head(io)[1], HeadLen + k>>
ChunkThere(k) == HeadThere /\ Req.head = "chunked" /\ Contains(io, ChunkUnit(k))

ChunkDue == ChunkThere(1) /\ ChunkThere(2)
ChunksEnd == ChunkThere(3) /\ ~ChunkDue

(* mg_handle_chunked, before anything else is done with a request: a chunk    *)
(* that is there whole is joined to the body, and recv_mbuf.len goes down   *)
(* by what enclosed it.  rcvd does not.                                    *)
ParseChunk ==
    /\ parsing
    /\ ChunkDue
    /\ io' = Remove(io, ChunkUnit(1))
    /\ UNCHANGED <<peerVars, got, rcvd, parsing, fileVars, send_mbuf, heard,
                   flagVars, ended, up, handed, len>>

(* Mutant: a request is its head. *)
MessageLenOfHead == HeadLen

(* hm->message.len: without an announced length it is SIZE_MAX. *)
MessageLen == IF Req.announced THEN Length(Req) ELSE Total + MaxRequest

(* req_len < 0, or a head longer than is allowed. *)
ParseFails ==
    /\ parsing
    /\ io # <<>>
    /\ \/ Req.head = "bad"
       \/ Req.head = "endless" /\ Len(io) >= MaxRequest
    /\ close_immediately' = TRUE
    /\ parsing' = FALSE
    /\ UNCHANGED <<peerVars, got, bufferVars, fileVars, send_mbuf, heard,
                   send_and_close, ended, up, handed, len>>

(* The head or the body is not all there yet. *)
ParseWaits ==
    /\ parsing
    /\ \/ Len(io) < HeadLen /\ Req.head \in {"good", "chunked"}
       \/ Req.head = "endless" /\ Len(io) < MaxRequest
       \/ HeadThere /\ MessageLen > rcvd /\ ~ChunkDue /\ ~ChunksEnd
    /\ parsing' = FALSE
    /\ UNCHANGED <<peerVars, got, bufferVars, fileVars, send_mbuf, heard,
                   flagVars, ended, up, handed, len>>

(* The handler is given the request; hm->body reaches to the end of the       *)
(* buffer (deliver_chunk).                                                 *)
Handed(i) == Append(handed, [req |-> i, body |-> SubSeq(io, HeadLen + 1, Len(io))])

(* What the handler does, by the kind of request. *)
Handler(r) ==
    \/ /\ r.answer \in {"page", "open", "gone"}
       /\ send_mbuf' = send_mbuf \o Answer(r)
       /\ UNCHANGED <<fileVars, send_and_close>>
    \/ /\ r.answer = "last"
       /\ send_mbuf' = send_mbuf \o Answer(r)
       /\ send_and_close' = TRUE
       /\ UNCHANGED fileVars
    \/ /\ r.answer = "file"
       /\ ServeFile(r)

(* Mutant: req_len is removed. *)
RemovedHead(n) == SubSeq(io, HeadLen + 1, Len(io))

(* mbuf_remove does nothing when asked for more than there is. *)
Removed(n) == IF n <= Len(io) THEN SubSeq(io, n + 1, Len(io)) ELSE io

(* Mutant: rcvd is reduced after it was set anew. *)
ParseHandlesRecounts ==
    /\ parsing
    /\ HeadThere /\ MessageLen <= rcvd
    /\ handed' = Handed(Head(io)[1])
    /\ Handler(Req)
    /\ io' = Removed(MessageLen)
    /\ rcvd' = Len(io') - MessageLen
    /\ parsing' = (~file'.fp /\ io' # <<>>)
    /\ UNCHANGED <<peerVars, got, heard, close_immediately, ended, up, len>>

(* Mutant: one request is handled for each receive. *)
ParseHandlesOne ==
    /\ parsing
    /\ HeadThere /\ MessageLen <= rcvd
    /\ handed' = Handed(Head(io)[1])
    /\ Handler(Req)
    /\ io' = Removed(MessageLen)
    /\ rcvd' = Len(io')
    /\ parsing' = FALSE
    /\ UNCHANGED <<peerVars, got, heard, close_immediately, ended, up, len>>

(* The request is there.  Unless a file is being served, what the connection *)
(* knew is forgotten, and what is left in the buffer is parsed next.        *)
ParseHandles ==
    /\ parsing
    /\ HeadThere /\ MessageLen <= rcvd
    /\ handed' = Handed(Head(io)[1])
    /\ Handler(Req)
    /\ io' = Removed(MessageLen)
    /\ rcvd' = IF file'.fp THEN rcvd - MessageLen ELSE Len(io')
    /\ parsing' = (~file'.fp /\ io' # <<>>)
    /\ UNCHANGED <<peerVars, got, heard, close_immediately, ended, up, len>>

(* The last chunk is there: message.len is set to all the buffer holds, the   *)
(* last chunk taken out, and all of that is removed.                       *)
ParseHandlesChunked ==
    /\ parsing
    /\ ChunksEnd
    /\ LET whole == Remove(io, ChunkUnit(3))
       IN  /\ handed' = Append(handed,
                [req |-> Head(io)[1], body |-> SubSeq(whole, HeadLen + 1, Len(whole))])
           /\ Handler(Req)
           /\ io' = <<>>
           /\ rcvd' = IF file'.fp THEN rcvd - Len(whole) ELSE 0
    /\ parsing' = FALSE
    /\ UNCHANGED <<peerVars, got, heard, close_immediately, ended, up, len>>

(* recv returned 0. *)
PeerEnds ==
    /\ CanReceive /\ ~DueToClose
    /\ ended' = TRUE
    /\ send_and_close' = TRUE
    /\ UNCHANGED <<peerVars, got, bufferVars, parsing, fileVars, send_mbuf,
                   heard, close_immediately, up, handed, len>>

(* recv or send failed. *)
ConnectionFails ==
    /\ up /\ ~parsing
    /\ "reset" \in Mishaps
    /\ ~close_immediately
    /\ close_immediately' = TRUE
    /\ ended' = TRUE
    /\ UNCHANGED <<peerVars, got, bufferVars, parsing, fileVars, send_mbuf,
                   heard, send_and_close, up, handed, len>>

-----------------------------------------------------------------------------
(* Sending and closing *)

(* MG_EV_POLL, once each time round. *)
Poll ==
    /\ up /\ ~parsing /\ ~DueToClose
    /\ file.fp
    /\ TransferIfOpen(send_mbuf)
    /\ UNCHANGED <<peerVars, got, bufferVars, parsing, heard, close_immediately,
                   ended, up, handed, len>>

(* mg_if_can_send_cb: the peer takes n units, and MG_EV_SEND follows. *)
Send(n) ==
    /\ up /\ ~parsing /\ ~close_immediately
    /\ n <= Len(send_mbuf)
    /\ heard' = heard \o SubSeq(send_mbuf, 1, n)
    /\ TransferIfOpen(SubSeq(send_mbuf, n + 1, Len(send_mbuf)))
    /\ UNCHANGED <<peerVars, got, bufferVars, parsing, close_immediately,
                   ended, up, handed, len>>

(* MG_EV_CLOSE: a request whose head is there is handled as it is; what its   *)
(* answer opens the destructor closes again.                               *)
Close ==
    /\ up /\ ~parsing
    /\ DueToClose
    /\ up' = FALSE
    /\ handed' = IF HeadThere THEN Handed(Head(io)[1]) ELSE handed
    /\ file' = Closed
    /\ opened' = IF file.fp /\ ~(HeadThere /\ Req.answer = "file")
                 THEN opened - 1 ELSE opened
    /\ io' = <<>> /\ rcvd' = 0 /\ send_mbuf' = <<>>
    /\ UNCHANGED <<peerVars, got, parsing, heard, flagVars, ended, len>>

(* Somebody uploads to the same name: the file is cut to nothing (w+). *)
FileShrinks ==
    /\ up
    /\ "shrink" \in Mishaps
    /\ len' = 0
    /\ UNCHANGED <<peerVars, got, bufferVars, parsing, fileVars, send_mbuf,
                   heard, flagVars, ended, up, handed>>

Parse ==
    \/ ParseFails
    \/ ParseWaits
    \/ ParseChunk
    \/ ParseHandles
    \/ ParseHandlesChunked

Next ==
    \/ \E n \in 1..Total : Receive(n)
    \/ Parse
    \/ PeerEnds
    \/ ConnectionFails
    \/ Poll
    \/ \E n \in 1..Len(send_mbuf) : Send(n)
    \/ Close
    \/ FileShrinks

Spec == Init /\ [][Next]_vars

(* The loop visits the connection every time round (EventLoop), and the peer *)
(* reads what it is sent, however slowly.                                  *)
Fairness ==
    /\ WF_vars(Parse)
    /\ WF_vars(Poll)
    /\ WF_vars(\E n \in 1..Len(send_mbuf) : Send(n))
    /\ WF_vars(Close)

FairSpec == Spec /\ Fairness

-----------------------------------------------------------------------------

(* Types.  No more of a file is sent than was announced. *)
TypeOK ==
    /\ script \in Seq(Request)
    /\ got \in 0..Total
    /\ io \in Seq((1..MaxRequests) \X Nat)
    /\ rcvd \in Nat
    /\ file \in [fp : BOOLEAN, at : 0..FileLen, cl : 0..FileLen, sent : 0..FileLen,
                 keepalive : BOOLEAN]
    /\ file.sent <= file.cl
    /\ opened \in Nat
    /\ handed \in Seq([req : 1..MaxRequests, body : Seq((1..MaxRequests) \X Nat)])

(* rcvd, which decides whether a request is complete, is what the buffer       *)
(* holds, through requests removed, files served and the connection's      *)
(* knowledge forgotten and made anew; and the buffer starts with a request. *)
(* Only while the chunks of a request are joined is it more.                *)
BufferInStep ==
    /\ \/ rcvd = Len(io)
       \/ io # <<>> /\ Req.head = "chunked" /\ rcvd > Len(io)
    /\ io # <<>> => Head(io)[2] = 1

(* A request is handled once and in its turn; while the connection is open,    *)
(* when all its body is there, which is all that the handler of a patient    *)
(* peer's request sees.  Behind it a handler sees the requests that follow:  *)
(* hm->body ends with the buffer.                                          *)
HandedWhole ==
    [][handed' # handed =>
         LET h == handed'[Len(handed')]
             own == IF script[h.req].head = "chunked"
                    THEN <<<<h.req, HeadLen + 2>>>>
                    ELSE [k \in 1..script[h.req].body |-> <<h.req, HeadLen + k>>]
         IN  /\ \A k \in DOMAIN handed : handed[k].req < h.req
             /\ ParseHandles \/ ParseHandlesChunked =>
                  IF patient THEN h.body = own ELSE IsPrefix(own, h.body)]_vars

(* The FILE of a transfer is closed with the transfer or the connection. *)
FilesClosed == opened = IF file.fp THEN 1 ELSE 0

Exchange == INSTANCE HttpExchange WITH
    Units <- {"head", "body", "block"} \X Nat,
    answers <- [i \in DOMAIN script |-> Answer(script[i])],
    asked <- AskedNow,
    told <- heard,
    fault <- close_immediately \/ len < FileLen,
    over <- ~up

(* Peers get the whole of their answers, in order and once, a closing or      *)
(* half-closed connection included.                                        *)
ImplementsExchange == Exchange!Spec

(* And they do get them, unless the connection ends or the file is cut. *)
AnswersAreTold ==
    heard # Promised(AskedNow) ~>
        heard = Promised(AskedNow) \/ ~up \/ len < FileLen
=============================================================================
