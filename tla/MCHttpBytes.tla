----------------------------- MODULE MCHttpBytes -----------------------------
(***************************************************************************)
(* The byte-level modules on small inputs.  Of each kind a sample grows, or   *)
(* a message arrives in pieces of any length; the invariants say what the     *)
(* operators of HttpText must make of it.                                  *)
(***************************************************************************)
EXTENDS MultipartBytes, ChunkedBytes, WebSocketFrames, Mbuf, Bitwise

CONSTANTS
    MaxRaw,       \* longest text of any characters
    MaxValue,     \* longest value of a parameter or a field
    DstLen,       \* the size of login's buffers, small here
    FileSizes     \* sizes of a file that is served

VARIABLES kind, sample, fed

textVars == <<kind, sample, fed>>

TheChars == STRING

(* Boundaries as browsers make them start with dashes. *)
TheBoundary == <<"-", "B">>

SomeData ==
    {<<>>, <<"x">>, <<"-">>, CRLF \o Dashes, <<"x", CR, LF, "-", "-", "x", "x">>,
     <<"D", "-", "-", "-", "x", CR, LF, CR>>}
Part(n, d) == [name |-> n, data |-> d]
SomeBodies ==
    {<<Part("f", d)>> : d \in SomeData}
      \cup {<<Part("f", d), Part("g", e)>> : d, e \in SomeData}
      \cup {<<>>}

SomePieces ==
    UNION {[1..n -> {<<"x">>, <<"0", CR>>,
                     <<"1", CR, LF, "0", CR, LF, CR, LF, "2", "x">>}] : n \in 0..3}

(* The digits a peer writes: some in front of others may be 0. *)
TheSize == [n \in {0, 1, 2, 10} |-> IF n = 10 THEN <<"0", "A">> ELSE <<ToString(n)>>]

Fr(fin, op, form, data) ==
    [fin |-> fin, op |-> op, form |-> form, mask |-> <<1, 2, 4, 136>>, data |-> data]

SomeFrames ==
    {Fr(TRUE, TEXT, "two", <<97>>),
     [Fr(TRUE, TEXT, "one", <<98, 99>>) EXCEPT !.mask = <<>>],
     Fr(FALSE, TEXT, "one", <<100, 101>>), Fr(FALSE, TEXT, "one", <<>>),
     Fr(FALSE, CONTINUE, "one", <<102>>),
     Fr(TRUE, CONTINUE, "eight", <<103, 104, 105, 106, 107>>),
     Fr(TRUE, PING, "one", <<108>>), Fr(TRUE, PONG, "one", <<>>),
     Fr(TRUE, CLOSE, "one", <<3, 232>>),
     Fr(FALSE, PING, "one", <<>>), Fr(TRUE, TEXT, "top", <<>>)}

SomeStreams ==
    {s \in UNION {[1..n -> SomeFrames] : n \in 0..3} : Orderly(s)}
      \cup {<<Fr(TRUE, TEXT, "two", [i \in 1..130 |-> i])>>}

TheXor(a, b) == a ^^ b

SomePushed == {<<"x">>, <<"x", "y">>, <<"y", "x">>}

(* The other machines rest while one is looked at. *)
NoMultipart ==
    /\ body = <<>> /\ got = 0 /\ io = <<>> /\ state = "FINISHED" /\ running = FALSE
    /\ file_name = <<>> /\ processing_part = FALSE /\ wrapped = FALSE
    /\ strayed = FALSE /\ told = <<>>
NoChunks ==
    pieces = <<>> /\ come = 0 /\ buf = <<>> /\ body_len = 0 /\ handed = <<>>
NoFrames ==
    /\ frames = <<>> /\ fed_bytes = 0 /\ upgraded = FALSE /\ recv_mbuf = <<>>
    /\ reass_len = 0 /\ delivering = FALSE /\ send_and_close = FALSE
    /\ messages = <<>> /\ replies = <<>> /\ pings = <<>>

HeadersOf ==
    [name : {<<"A">>}, value : {<<>>, <<"v", SP, ":", "v">>}]
      \cup [name : {ContentLength},
            value : {<<>>, <<"2">>, <<"1", "0", SP>>, <<"-", "1">>, <<"-", "2">>}]
      \cup [name : {<<"L", "A">>}, value : {<<"2">>}]

Kinds == {"multipart", "chunked", "websocket", "mbuf", "raw", "head", "range",
          "parameters", "form"}

BytesMCInit ==
    /\ kind \in Kinds
    /\ fed = 0
    /\ IF kind = "multipart" THEN BytesInit ELSE NoMultipart
    /\ IF kind = "chunked" THEN ChunkedInit ELSE NoChunks
    /\ IF kind = "websocket" THEN FramesInit ELSE NoFrames
    /\ MbufInit
    /\ CASE kind \in {"parameters", "form"} -> sample = <<<<>>, <<>>>>
         [] kind = "head" -> sample \in [method : {<<"G">>, POST, PUT}, query : {<<>>, <<"q">>},
                                         eol : {CRLF, <<LF>>}, headers : {<<>>}]
         [] kind = "range" -> sample = <<Bytes>>
         [] OTHER -> sample = <<>>

-----------------------------------------------------------------------------

(* Heads *)
HeadText(s) ==
    LET line(h) == h.name \o <<":", SP>> \o h.value \o s.eol
    IN  s.method \o <<SP, "/">> \o (IF s.query = <<>> THEN <<>> ELSE <<"?">> \o s.query)
          \o <<SP, "H">> \o s.eol
          \o FlattenSeq([i \in DOMAIN s.headers |-> line(s.headers[i])]) \o s.eol

GrowHead ==
    \/ /\ fed = 0 /\ Len(sample.headers) <= MaxHeaders
       /\ \E h \in HeadersOf : sample' = [sample EXCEPT !.headers = Append(@, h)]
       /\ UNCHANGED fed
    \/ /\ fed < Len(HeadText(sample)) + 2
       /\ fed' = fed + 1
       /\ UNCHANGED sample

(* Raw texts, parameters and forms *)
RawChars == {"x", CR, LF, Control}
RangeChars == {"0", "1", "2", "-", SP}
ParameterChars == {"m", "=", ";", "\"", "\\"}
FormChars == {97, Space, Plus, Percent, Amp}

GrowValue(chars) ==
    \E i \in 1..2, c \in chars :
        /\ Len(sample[i]) < MaxValue
        /\ sample' = [sample EXCEPT ![i] = Append(@, c)]
        /\ UNCHANGED fed

GrowText(chars, longest) ==
    /\ Len(sample) < longest
    /\ \E c \in chars : sample' = Append(sample, c)
    /\ UNCHANGED fed

machines == <<partBytes, chunkBytes, frameBytes, bufferBytes>>

BytesMCNext ==
    /\ UNCHANGED kind
    /\ \/ /\ kind = "multipart" /\ BytesNext
          /\ UNCHANGED <<sample, fed, chunkBytes, frameBytes, bufferBytes>>
       \/ /\ kind = "chunked" /\ ChunkedNext
          /\ UNCHANGED <<sample, fed, partBytes, frameBytes, bufferBytes>>
       \/ /\ kind = "websocket" /\ FramesNext
          /\ UNCHANGED <<sample, fed, partBytes, chunkBytes, bufferBytes>>
       \/ /\ kind = "mbuf" /\ MbufNext
          /\ UNCHANGED <<sample, fed, partBytes, chunkBytes, frameBytes>>
       \/ kind = "raw" /\ GrowText(RawChars, MaxRaw) /\ UNCHANGED machines
       \/ kind = "range" /\ GrowText(RangeChars, MaxRaw) /\ UNCHANGED machines
       \/ kind = "head" /\ GrowHead /\ UNCHANGED machines
       \/ kind = "parameters" /\ GrowValue(ParameterChars) /\ UNCHANGED machines
       \/ kind = "form" /\ GrowValue(FormChars) /\ UNCHANGED machines

BytesMCSpec == BytesMCInit /\ [][BytesMCNext]_<<textVars, machines>>

-----------------------------------------------------------------------------

(* A head ends with its first empty line, be lines ended by LF or CR LF, unless *)
(* a control character comes before; a longer text has the same head.       *)
HeadEndsAtBlankLine ==
    kind = "raw" =>
        LET ends(n) == \E e \in {<<LF, LF>>, <<LF, CR, LF>>} :
                          IsSuffix(e, SubSeq(sample, 1, n))
            first == Min({n \in 1..Len(sample) : ends(n)} \cup {Len(sample) + 1})
            before == IF first > Len(sample) THEN sample
                      ELSE SubSeq(sample, 1, first - 2)
        IN  RequestLen(sample) =
              IF Control \in Range(before) THEN -1
              ELSE IF first > Len(sample) THEN 0 ELSE first

(* A range of bytes is sent as it was asked for if the file has all of it; never   *)
(* is anything sent that the file does not have.                            *)
RangesServedAsAsked ==
    kind = "range" =>
        LET sep  == Until(sample, 2, {"-"})
            low  == SubSeq(sample, 2, sep - 1)
            high == SubSeq(sample, sep + 1, Len(sample))
            number(v) == v # <<>> /\ Range(v) \subseteq DOMAIN Digits
            asked(a, b) == [status |-> 206, first |-> a, cl |-> b - a + 1]
        IN  \A size \in FileSizes :
              LET r == ServedRange(sample, size)
                  last == IF high = <<>> THEN size - 1 ELSE Number(high)
              IN  /\ r.first + r.cl <= size
                  /\ r.status = 206 => r.cl > 0
                  /\ number(low) /\ (number(high) \/ high = <<>>) /\ sep <= Len(sample) =>
                       r = IF Number(low) <= last /\ last < size
                           THEN asked(Number(low), last)
                           ELSE [status |-> 416, first |-> 0, cl |-> 0]

(* mg_parse_http takes nothing for a head before all of it is there, and then    *)
(* reads the line and the headers that were sent, but for those without a     *)
(* value and those there is no room for.  The body is as long as the last of them *)
(* says whose name is or only starts with Content-Length, a number below 0 as    *)
(* that much less than 2^64; to the end of the connection if that is 2^64 - 1 or  *)
(* none says it, but for methods other than POST and PUT, which then have none. *)
HeadersReadAsSent ==
    kind = "head" =>
        LET text == HeadText(sample)
            p    == ParseHttp(SubSeq(text \o <<"b", "b">>, 1, fed))
            sent == SelectSeq(sample.headers, LAMBDA h : h.value # <<>>)
            kept == SubSeq(sent, 1, Min({MaxHeaders, Len(sent)}))
            lengths == SelectSeq(kept, LAMBDA h : h.name[1] = "L")
            value(h) == IF h.value = <<"1", "0", SP>> THEN <<"1", "0">> ELSE h.value
        IN  IF fed < Len(text) THEN p.len = 0
            ELSE /\ p.len = Len(text)
                 /\ p.method = sample.method /\ p.uri = <<"/">>
                 /\ p.query = sample.query /\ p.proto = <<"H">>
                 /\ p.headers = [i \in DOMAIN kept |->
                                   [kept[i] EXCEPT !.value = value(kept[i])]]
                 /\ GetHeader(p.headers, <<"A">>) # <<>>
                      <=> \E i \in DOMAIN kept : kept[i].name = <<"A">>
                 /\ p.body =
                      CASE lengths # <<>> /\ Last(lengths).value = <<"2">> -> 2
                        [] lengths # <<>> /\ Last(lengths).value = <<"1", "0", SP>> -> 10
                        [] lengths # <<>> /\ Last(lengths).value = <<"-", "2">> -> -2
                        [] OTHER -> IF sample.method = <<"G">> THEN 0 ELSE Endless

Occurs(s, t) ==
    \E i \in 1..(Len(s) - Len(t) + 1) : SubSeq(s, i, i + Len(t) - 1) = t

(* mg_http_parse_header2 finds each of two values as it was written, quoted and   *)
(* with a backslash before a quote in it, or bare as cookies are, whatever the  *)
(* size of the buffer it is given.  Values that end with a backslash, or hold   *)
(* the name of the other after a separator, are beyond it.                  *)
ParametersReadAsSent ==
    kind = "parameters" =>
        LET escape(c) == IF c = "\"" THEN <<"\\", c>> ELSE <<c>>
            quoted(v) == <<"\"">> \o FlattenSeq([i \in DOMAIN v |-> escape(v[i])]) \o <<"\"">>
            start == <<"f", ";", SP, "n", "=">> \o quoted(sample[1])
                       \o <<";", SP, "m", "=">>
            text == start \o quoted(sample[2])
            plain == /\ \A i \in 1..2 : sample[i] = <<>> \/ Last(sample[i]) # "\\"
                     /\ ~Occurs(sample[1], <<";", "m", "=">>)
            bare == ";" \notin Range(sample[2]) /\ ~IsPrefix(<<"\"">>, sample[2])
            read(name, size) == AltbufText(ParseHeader2(text, name, size))
            as(v) == IF v = <<>> THEN v ELSE Append(v, NUL)
        IN  plain =>
              /\ \A size \in 0..DstLen : /\ read(<<"n">>, size) = as(sample[1])
                                        /\ read(<<"m">>, size) = as(sample[2])
                                        /\ read(<<"o">>, size) = <<>>
              /\ bare => as(sample[2]) =
                   AltbufText(ParseHeader2(start \o sample[2], <<"m">>, DstLen))

(* mg_get_http_var gives the two fields of a form as the browser encoded them,   *)
(* or says that they do not fit.                                           *)
FormsReadAsSent ==
    kind = "form" =>
        LET hex(n) == IF n < 10 THEN 48 + n ELSE 55 + n
            enc(c) == IF c = 97 THEN <<c>> ELSE IF c = Space THEN <<Plus>>
                      ELSE <<Percent, hex(c \div 16), hex(c % 16)>>
            encoded(v) == FlattenSeq([i \in DOMAIN v |-> enc(v[i])])
            text == <<117, Equals>> \o encoded(sample[1])
                      \o <<Amp, 112, Equals>> \o encoded(sample[2])
            as(v) == IF Len(v) < DstLen THEN [len |-> Len(v), value |-> v]
                     ELSE [len |-> -3]
        IN  /\ GetHttpVar(text, <<117>>, DstLen) = as(sample[1])
            /\ GetHttpVar(text, <<112>>, DstLen) = as(sample[2])
            /\ GetHttpVar(text, <<97>>, DstLen) = [len |-> -4]

-----------------------------------------------------------------------------

BytesTypesOK == BytesTypeOK /\ ChunkedTypeOK /\ FramesTypeOK /\ MbufTypeOK

(* A request's head is found, however it is cut, and its line, its headers and     *)
(* its range mean to the server what the peer wrote.                        *)
HeadsReadAsSent == HeadEndsAtBlankLine /\ HeadersReadAsSent /\ RangesServedAsAsked

(* The cookie, the names of a part and the fields of the login come out as the    *)
(* browser put them in.                                                    *)
FieldsReadAsSent == ParametersReadAsSent /\ FormsReadAsSent

=============================================================================
