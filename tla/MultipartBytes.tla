---------------------------- MODULE MultipartBytes ----------------------------
(***************************************************************************)
(* The streaming multipart parser of src/common/mongoose.c at the level of  *)
(* bytes: where it finds the boundary, what it passes on as data and what    *)
(* it keeps back, whatever the pieces the body arrives in.  MultipartStream  *)
(* has the same parser with its tokens given; this module is where they come *)
(* from.                                                                   *)
(*                                                                         *)
(* mg_http_multipart_continue is the loop: `running` while it is in it, one  *)
(* action per state of mp_stream.                                          *)
(***************************************************************************)
EXTENDS HttpText

CONSTANTS
    Boundary,     \* the boundary parameter of the request
    Bodies        \* the bodies a peer sends: sequences of parts

(* A part is a file name, one character here, and its data.  "D" stands for     *)
(* "Content-Disposition: " and what precedes the name, "T" for the line of    *)
(* another header.                                                         *)
Parts == [name : Chars \ {LF}, data : Seq(Chars)]

bl == Len(Boundary)
Dashes == <<"-", "-">>
Delimiter == Dashes \o Boundary
Closing == Delimiter \o Dashes \o CRLF

PartText(p) ==
    Delimiter \o <<CR, LF, "D", p.name, CR, LF, "T", CR, LF, CR, LF>> \o p.data \o CRLF

(* Where a text has the boundary. *)
Places(s) == {i \in 1..(Len(s) - bl + 1) : SubSeq(s, i, i + bl - 1) = Boundary}

(* The bodies looked at: the boundary's text occurs in the delimiters and nowhere  *)
(* else, so that it is found at a part's start and at the next one's only.  This   *)
(* is less than RFC 2046 allows, which forbids only the delimiter at the start of  *)
(* a line: the code looks for the bare text, takes it for the end of the data      *)
(* wherever it finds it, and what it then makes of such a part is not modelled.   *)
ASSUME BytesAssumption ==
    /\ {CR, LF, "-", "D", "T"} \subseteq Chars
    /\ Boundary \in Seq(Chars) /\ Boundary # <<>>
    /\ \A b \in Bodies :
          /\ b \in Seq(Parts)
          /\ \A i \in DOMAIN b :
                Places(PartText(b[i]) \o Delimiter) = {3, Len(PartText(b[i])) + 3}
    /\ Places(Closing) = {3}

VARIABLES
    body,              \* what the peer sends, as parts
    got,               \* how many of its bytes have arrived
    io,                \* nc->recv_mbuf
    state,             \* mp_stream.state
    running,           \* the receive has not returned
    file_name,         \* mp_stream.file_name
    processing_part,   \* mp_stream.processing_part > 0
    wrapped,           \* a length went below zero
    strayed,           \* history: an end of line was found past the buffer
    told               \* what the handler was told: names, data, ends

partBytes == <<body, got, io, state, running, file_name, processing_part, wrapped,
               strayed, told>>

BodyText ==
    FlattenSeq([i \in DOMAIN body |-> PartText(body[i])]) \o Closing

States == {"WAITING_FOR_BOUNDARY", "GOT_BOUNDARY", "WAITING_FOR_CHUNK",
           "FINALIZE", "FINISHED"}

BytesTypeOK ==
    /\ body \in Bodies
    /\ got \in 0..Len(BodyText)
    /\ Len(io) <= got
    /\ state \in States
    /\ running \in BOOLEAN
    /\ file_name \in Seq(Chars)
    /\ processing_part \in BOOLEAN
    /\ wrapped \in BOOLEAN /\ strayed \in BOOLEAN
    /\ strayed \/ (Len(file_name) <= 1 /\ Len(told) <= Len(body))

(* mg_http_multipart_begin, and MPS_BEGIN's only step. *)
BytesInit ==
    /\ body \in Bodies
    /\ got = 0
    /\ io = <<>>
    /\ state = "WAITING_FOR_BOUNDARY"
    /\ running = FALSE
    /\ file_name = <<>>
    /\ processing_part = FALSE
    /\ wrapped = FALSE /\ strayed = FALSE
    /\ told = <<>>

-----------------------------------------------------------------------------

(* c_strnstr: the first place of the boundary, 0 if there is none. *)
FindBoundary == IF Places(io) = {} THEN 0 ELSE Min(Places(io))

(* mbuf_remove *)
Without(n) == SubSeq(io, n + 1, Len(io))

Stop == running' = FALSE
Go == running' = TRUE

(* One receive: some bytes more, and the loop is entered. *)
Arrives(n) ==
    /\ ~running
    /\ state # "FINISHED"
    /\ got + n <= Len(BodyText)
    /\ got' = got + n
    /\ io' = io \o SubSeq(BodyText, got + 1, got + n)
    /\ Go
    /\ UNCHANGED <<body, state, file_name, processing_part, wrapped, strayed, told>>

(* mg_http_multipart_wait_for_boundary: a closing mark is removed, another     *)
(* boundary stays.                                                         *)
WaitForBoundary ==
    /\ running /\ state = "WAITING_FOR_BOUNDARY"
    /\ LET e == FindBoundary + bl
       IN  IF Len(io) < bl + 2 \/ FindBoundary = 0 \/ Len(io) - e + 1 < 4
           THEN Stop /\ UNCHANGED <<io, state>>
           ELSE /\ Go
                /\ IF SubSeq(io, e, e + 3) = Dashes \o CRLF
                   THEN state' = "FINALIZE" /\ io' = Without(e + 3)
                   ELSE state' = "GOT_BOUNDARY" /\ UNCHANGED io
    /\ UNCHANGED <<body, got, file_name, processing_part, wrapped, strayed, told>>

(* The lines from i on that have arrived whole, by their first character. *)
Lines(i) ==
    {j \in i..Len(io) : (j = i \/ io[j - 1] = LF) /\ Until(io, j, {LF}) <= Len(io)}

(* A part's head, from its first line to the empty one: the name in the last     *)
(* disposition and the end of the empty line, 0 if that has not arrived.      *)
(* data_size is not reduced by a line of another header, so after one the     *)
(* next line is looked for past the end of the buffer too.                 *)
PartHead ==
    LET lines == Lines(FindBoundary + bl + 2)
        empty == {j \in lines : io[j] = CR /\ Until(io, j, {LF}) = j + 1}
        head  == {j \in lines : \A e \in empty : j < e}
        named == {j \in head : io[j] = "D"}
    IN  [end  |-> IF empty = {} THEN 0 ELSE Min(empty) + 1,
         name |-> IF named = {} THEN <<>>
                  ELSE SubSeq(io, Max(named) + 1, Until(io, Max(named), {LF}) - 2),
         past |-> \E j \in head : io[j] # "D"]

Ended == [i \in DOMAIN told |->
            IF i = Len(told) /\ processing_part
            THEN [told[i] EXCEPT !.ended = TRUE] ELSE told[i]]

(* The part before is ended and the next one begun. *)
Begins(name) ==
    /\ Go
    /\ state' = "WAITING_FOR_CHUNK"
    /\ file_name' = name
    /\ processing_part' = TRUE
    /\ told' = Append(Ended, [name |-> name, data |-> <<>>, ended |-> FALSE])

Waits ==
    /\ Stop
    /\ state' = "WAITING_FOR_BOUNDARY"
    /\ UNCHANGED <<file_name, processing_part, told>>

(* Mutant: the head of the part is not removed from the buffer. *)
ProcessBoundaryKeeps ==
    /\ running /\ state = "GOT_BOUNDARY"
    /\ IF PartHead.end > 0 THEN Begins(PartHead.name) ELSE Waits
    /\ UNCHANGED <<body, got, io, wrapped, strayed>>

(* mg_http_multipart_process_boundary, once the head of the part is whole;     *)
(* until then the boundary is looked for again.  What lies past the buffer    *)
(* is left from earlier contents and may look like an empty line: then the    *)
(* part is begun and mbuf_remove, asked for more than there is, removes        *)
(* nothing.                                                                *)
ProcessBoundary ==
    /\ running /\ state = "GOT_BOUNDARY"
    /\ \/ /\ PartHead.end > 0
          /\ io' = Without(PartHead.end)
          /\ Begins(PartHead.name)
          /\ UNCHANGED strayed
       \/ /\ PartHead.end = 0
          /\ Waits
          /\ UNCHANGED <<io, strayed>>
       \/ /\ PartHead.end = 0 /\ PartHead.past
          /\ strayed' = TRUE
          /\ Begins(PartHead.name)
          /\ UNCHANGED io
    /\ UNCHANGED <<body, got, wrapped>>

(* Mutant: room is kept for the boundary and the dashes before it only. *)
KeptBackShort == bl + 2

(* What must stay when no boundary is in sight: one may have begun. *)
KeptBack == bl + 6

(* PART_DATA with n bytes, all of which the handler takes.  A length below     *)
(* zero is a huge size_t, of which mbuf_remove removes nothing.            *)
PassOn(n, more) ==
    /\ wrapped' = (wrapped \/ n < 0)
    /\ told' = [told EXCEPT ![Len(told)].data = @ \o SubSeq(io, 1, n)]
    /\ io' = Without(IF n < 0 THEN more ELSE n + more)

(* Mutant: data is passed on with its boundary only. *)
WaitForChunkWhole ==
    /\ running /\ state = "WAITING_FOR_CHUNK"
    /\ IF Len(io) < KeptBack \/ FindBoundary = 0
       THEN Stop /\ UNCHANGED <<io, state, told, wrapped>>
       ELSE /\ PassOn(FindBoundary - 5, 4)
            /\ state' = "WAITING_FOR_BOUNDARY"
            /\ Go
    /\ UNCHANGED <<body, got, file_name, processing_part, strayed>>

(* mg_http_multipart_continue_wait_for_chunk: up to four bytes before the      *)
(* boundary, or all but what must stay.                                    *)
WaitForChunk ==
    /\ running /\ state = "WAITING_FOR_CHUNK"
    /\ \/ /\ Len(io) < KeptBack
          /\ Stop
          /\ UNCHANGED <<io, state, told, wrapped>>
       \/ /\ Len(io) >= KeptBack /\ FindBoundary = 0
          /\ PassOn(Len(io) - KeptBack, 0)
          /\ Stop
          /\ UNCHANGED state
       \/ /\ Len(io) >= KeptBack /\ FindBoundary > 0
          /\ PassOn(FindBoundary - 5, 4)
          /\ state' = "WAITING_FOR_BOUNDARY"
          /\ Go
    /\ UNCHANGED <<body, got, file_name, processing_part, strayed>>

(* mg_http_multipart_finalize, and the return from MPS_FINISHED. *)
Finalize ==
    /\ running /\ state = "FINALIZE"
    /\ told' = Ended
    /\ file_name' = <<>>
    /\ processing_part' = FALSE
    /\ state' = "FINISHED"
    /\ Stop
    /\ UNCHANGED <<body, got, io, wrapped, strayed>>

BytesNext ==
    \/ \E n \in 1..Len(BodyText) : Arrives(n)
    \/ WaitForBoundary
    \/ ProcessBoundary
    \/ WaitForChunk
    \/ Finalize

BytesSpec == BytesInit /\ [][BytesNext]_partBytes

-----------------------------------------------------------------------------

(* However a body whose parts do not hold the boundary's text is cut, the       *)
(* handler is told the parts that were sent, in their order and under their   *)
(* names; the data of a part so far is a beginning of what was sent, and all   *)
(* of it once the part is ended.  With the last byte all parts are told and    *)
(* the parser is done: it never waits for bytes that do not come.  Only a      *)
(* head that was read past the buffer spoils this.                         *)
ToldAsSent ==
    ~strayed =>
        /\ \A i \in DOMAIN told :
              /\ i <= Len(body)
              /\ told[i].name = <<body[i].name>>
              /\ IsPrefix(told[i].data, body[i].data)
              /\ told[i].ended => told[i].data = body[i].data
              /\ i < Len(told) => told[i].ended
        /\ ~wrapped
        /\ got = Len(BodyText) /\ ~running =>
              /\ state = "FINISHED"
              /\ Len(told) = Len(body)
              /\ \A i \in DOMAIN told : told[i].ended

(* Between two receives the data that is kept back is no longer than a          *)
(* boundary and what surrounds it, however large the file.                 *)
BufferStaysSmall == ~running /\ state = "WAITING_FOR_CHUNK" => Len(io) <= bl + 6

(* mongoose.h, MG_EV_HTTP_PART_DATA: "new portion of data from the multipart   *)
(* message".  Data of a length below zero is none.                         *)
DataIsOfTheMessage == ~wrapped

=============================================================================
