----------------------------- MODULE ChunkedBytes -----------------------------
(***************************************************************************)
(* A request with a chunked body: mg_handle_chunked of src/common/mongoose.c *)
(* joins the chunks in place, at the front of the receive buffer, each time  *)
(* more has arrived.  The request's head is left out of the buffer here; it   *)
(* is a POST, whose length is unknown until the last chunk.                  *)
(***************************************************************************)
EXTENDS HttpText

CONSTANTS
    Pieces,    \* what a peer sends: sequences of chunks, as data
    Size       \* how a peer writes the length of a chunk

VARIABLES
    pieces,         \* the chunks the peer sends, the last, empty one apart
    come,           \* how many bytes of them have arrived
    buf,            \* nc->recv_mbuf past the head
    body_len,       \* pd->chunk.body_len
    handed          \* the bodies the handler was called with

chunkBytes == <<pieces, come, buf, body_len, handed>>

(* The lengths there are can be written, in the digits that are read. *)
Sized(n) ==
    /\ Size[n] \in Seq(DOMAIN HexDigits)
    /\ Len(Size[n]) \in 1..6
    /\ HexNumber(Size[n]) = n

ASSUME PiecesAssumption ==
    /\ DOMAIN HexDigits \cup EOL \subseteq Chars
    /\ Sized(0)
    /\ \A p \in Pieces :
          /\ p \in Seq(Seq(Chars) \ {<<>>})
          /\ \A i \in DOMAIN p : Sized(Len(p[i]))

ChunkText(d) == Size[Len(d)] \o CRLF \o d \o CRLF

Sent == Append(pieces, <<>>)

PiecesText == FlattenSeq([i \in DOMAIN Sent |-> ChunkText(Sent[i])])

ChunkedInit ==
    /\ pieces \in Pieces
    /\ come = 0
    /\ buf = <<>>
    /\ body_len = 0
    /\ handed = <<>>

ChunkedTypeOK ==
    /\ pieces \in Pieces
    /\ come \in 0..Len(PiecesText)
    /\ Len(buf) <= come
    /\ body_len \in 0..Len(buf)
    /\ Len(handed) <= 1

(* All whole chunks of s from `from` on: their data joined behind `front`, where  *)
(* the rest starts, and whether the last was the empty one.                 *)
Collapse(s, from, front) ==
    LET chunks[i \in 1..(Len(s) + 1)] ==
            LET c == ParseChunk(s, i)
            IN  IF c.len = 0 THEN [joined |-> <<>>, rest |-> i, zero |-> FALSE]
                ELSE IF c.data = <<>>
                THEN [joined |-> <<>>, rest |-> i + c.len, zero |-> TRUE]
                ELSE [chunks[i + c.len] EXCEPT !.joined = c.data \o @]
    IN  [chunks[from] EXCEPT !.joined = front \o @]

(* Mutant: what is joined already is scanned once more. *)
HandleChunkedAgain(s) ==
    LET c == Collapse(s, 1, <<>>)
        all == c.joined \o SubSeq(s, c.rest, Len(s))
    IN  /\ body_len' = Len(c.joined)
        /\ IF c.zero THEN handed' = Append(handed, all) /\ buf' = <<>>
           ELSE buf' = all /\ UNCHANGED handed

(* mg_handle_chunked: what follows the joined body is scanned.  The empty       *)
(* chunk makes the message as long as all that is in the buffer, so it is     *)
(* handed over, with whatever came after it, and body_len is given up with    *)
(* what is known of the request.  One request is modelled: a file being       *)
(* served keeps that, and a second request then starts with a stale body_len. *)
HandleChunked(s) ==
    LET c == Collapse(s, body_len + 1, SubSeq(s, 1, body_len))
        all == c.joined \o SubSeq(s, c.rest, Len(s))
    IN  /\ body_len' = IF c.zero THEN 0 ELSE Len(c.joined)
        /\ IF c.zero THEN handed' = Append(handed, all) /\ buf' = <<>>
           ELSE buf' = all /\ UNCHANGED handed

(* One receive. *)
ChunksArrive(n) ==
    /\ come + n <= Len(PiecesText)
    /\ come' = come + n
    /\ HandleChunked(buf \o SubSeq(PiecesText, come + 1, come + n))
    /\ UNCHANGED pieces

ChunkedNext == \E n \in 1..Len(PiecesText) : ChunksArrive(n)

ChunkedSpec == ChunkedInit /\ [][ChunkedNext]_chunkBytes

-----------------------------------------------------------------------------

(* The handler is called once, when the empty chunk is there, with the data of   *)
(* all chunks joined in order, however the body was cut.                   *)
ChunksJoined ==
    IF come = Len(PiecesText)
    THEN handed = <<FlattenSeq(pieces)>>
    ELSE /\ handed = <<>>
         /\ SubSeq(buf, 1, body_len) = SubSeq(FlattenSeq(pieces), 1, body_len)

=============================================================================
