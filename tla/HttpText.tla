------------------------------- MODULE HttpText -------------------------------
(***************************************************************************)
(* The texts the server takes apart (src/common/mongoose.c): the head of a  *)
(* request, the parameters of a header's value, the fields of a form, one    *)
(* chunk of a chunked body.  Each operator is given what has arrived and     *)
(* says what the function of its name makes of it; a text is a sequence of   *)
(* characters, and a character a string of one, but in forms a code.        *)
(***************************************************************************)
EXTENDS Integers, Sequences, FiniteSets, FiniteSetsExt, SequencesExt

CONSTANTS
    Chars,        \* the characters of a text
    MaxHeaders    \* ARRAY_SIZE(header_names) - 1

ASSUME TextAssumption == MaxHeaders \in Nat \ {0}

CR == "\r"
LF == "\n"
SP == " "
CRLF == <<CR, LF>>
EOL == {CR, LF}

(* What isprint refuses, the ends of lines and the upper half excepted. *)
Control == "ctl"

(* The first position from i on whose character is in set, or one past end. *)
Until(s, i, set) ==
    Min({j \in i..Len(s) : s[j] \in set} \cup {Len(s) + 1})

Past(s, i, set) ==
    Min({j \in i..Len(s) : s[j] \notin set} \cup {Len(s) + 1})

(* mg_skip: the token from i to the first delimiter, and where the next one   *)
(* starts.                                                                 *)
Skip(s, i, delims) ==
    LET e == Until(s, i, delims)
    IN  [tok |-> SubSeq(s, i, e - 1), next |-> Past(s, e, delims)]

-----------------------------------------------------------------------------
(* Heads *)

(* An end of line at i, and an empty line after it: where that ends. *)
BlankAfter(s, i) ==
    IF i + 1 <= Len(s) /\ s[i + 1] = LF THEN i + 1
    ELSE IF i + 2 <= Len(s) /\ s[i + 1] = CR /\ s[i + 2] = LF THEN i + 2
    ELSE 0

(* mg_http_get_request_len: -1 for garbage, 0 while the head is incomplete.  *)
RequestLen(s) ==
    LET stop(i) == s[i] = Control \/ (s[i] = LF /\ BlankAfter(s, i) > 0)
        stops == {i \in 1..Len(s) : stop(i)}
    IN  IF stops = {} THEN 0
        ELSE IF s[Min(stops)] = Control THEN -1
        ELSE BlankAfter(s, Min(stops))

TrimRight(v) ==
    SubSeq(v, 1, Max({i \in 1..Len(v) : v[i] # SP} \cup {0}))

(* Mutant: a header without a value takes the room of one. *)
ParseHeadersCounting(s, from, max) ==
    LET headers[i \in 1..(Len(s) + 1), room \in 0..max] ==
            LET k == Skip(s, i, {":", SP})
                v == Skip(s, k.next, EOL)
                value == TrimRight(v.tok)
                h == [name |-> k.tok, value |-> value]
            IN  IF room = 0 \/ k.tok = <<>> THEN <<>>
                ELSE IF value = <<>> THEN headers[v.next, room - 1]
                ELSE <<h>> \o headers[v.next, room - 1]
    IN  headers[from, max]

(* mg_http_parse_headers: a header without a value is passed over, an empty    *)
(* name ends them, and so does the last of the room.                        *)
ParseHeaders(s, from, max) ==
    LET headers[i \in 1..(Len(s) + 1), room \in 0..max] ==
            LET k == Skip(s, i, {":", SP})
                v == Skip(s, k.next, EOL)
                value == TrimRight(v.tok)
                h == [name |-> k.tok, value |-> value]
            IN  IF room = 0 \/ k.tok = <<>> THEN <<>>
                ELSE IF value = <<>> THEN headers[v.next, room]
                ELSE <<h>> \o headers[v.next, room - 1]
    IN  headers[from, max]

(* Enough digits for the lengths of an instance. *)
Digits == "0" :> 0 @@ "1" :> 1 @@ "2" :> 2

(* The digits a text starts with. *)
Number(v) ==
    LET n == Past(v, 1, DOMAIN Digits) - 1
    IN  FoldLeft(LAMBDA acc, d : 10 * acc + Digits[d], 0, SubSeq(v, 1, n))

(* to64: spaces, a minus sign, digits.  Cast to a size_t, a number below 0 is     *)
(* that much less than 2^64.                                               *)
To64(v) ==
    LET b == Past(v, 1, {SP})
        negative == b <= Len(v) /\ v[b] = "-"
        n == Number(SubSeq(v, IF negative THEN b + 1 ELSE b, Len(v)))
    IN  IF negative THEN 0 - n ELSE n

(* One character for each of these names, whatever their case. *)
ContentLength == <<"L">>
POST == <<"P">>
PUT == <<"U">>

Endless == -1
Bad == [len |-> -1]

(* What the length of a body is taken from: the last header whose name starts    *)
(* with Content-Length.  Without one, or if it says 2^64 - 1, a POST or a PUT     *)
(* goes on to the end of the connection and another request has no body.    *)
BodyLen(method, headers) ==
    LET lengths == {i \in DOMAIN headers : IsPrefix(ContentLength, headers[i].name)}
        said == IF lengths = {} THEN Endless ELSE To64(headers[Max(lengths)].value)
    IN  IF said = Endless /\ method \notin {POST, PUT} THEN 0 ELSE said

(* mg_parse_http of a request. *)
ParseHttp(s) ==
    LET len  == RequestLen(s)
        head == SubSeq(s, 1, len)
        from == Past(head, 1, EOL \cup {SP})
        m == Skip(head, from, {SP})
        u == Skip(head, m.next, {SP})
        p == Skip(head, u.next, EOL)
        q == Until(u.tok, 1, {"?"})
        h == ParseHeaders(head, p.next, MaxHeaders)
    IN  IF len <= 0 THEN [len |-> len]
        ELSE IF m.next <= from \/ u.next <= m.next THEN Bad
        ELSE [len |-> len, method |-> m.tok,
              uri |-> SubSeq(u.tok, 1, q - 1),
              query |-> SubSeq(u.tok, q + 1, Len(u.tok)),
              proto |-> p.tok, headers |-> h, body |-> BodyLen(m.tok, h)]

(* mg_get_http_header: the first of its name. *)
GetHeader(headers, name) ==
    LET found == {i \in DOMAIN headers : headers[i].name = name}
    IN  IF found = {} THEN <<>> ELSE headers[Min(found)].value

(* One %lld of sscanf at i: spaces, a sign, digits; where it ends, 0 if there   *)
(* is no number.                                                           *)
ScanInt(s, i) ==
    LET b == Past(s, i, {SP})
        signed == b <= Len(s) /\ s[b] \in {"-", "+"}
        d == IF signed THEN b + 1 ELSE b
        e == Past(s, d, DOMAIN Digits)
        n == Number(SubSeq(s, d, e - 1))
    IN  [end |-> IF e > d THEN e ELSE 0,
         value |-> IF signed /\ s[b] = "-" THEN 0 - n ELSE n]

Bytes == "bytes="

(* mg_http_parse_range_header: how many of the two numbers were read.  *)
ParseRange(s) ==
    LET a == ScanInt(s, 2)
        b == ScanInt(s, a.end + 1)
    IN  IF s = <<>> \/ s[1] # Bytes \/ a.end = 0 THEN [n |-> 0, r1 |-> 0, r2 |-> 0]
        ELSE IF a.end > Len(s) \/ s[a.end] # "-" \/ b.end = 0
        THEN [n |-> 1, r1 |-> a.value, r2 |-> 0]
        ELSE [n |-> 2, r1 |-> a.value, r2 |-> b.value]

(* What mg_http_serve_file sends of a file of the given size. *)
ServedRange(s, size) ==
    LET p  == ParseRange(s)
        r2 == IF p.n = 1 THEN size - 1 ELSE p.r2
    IN  IF p.n = 0 \/ p.r1 < 0 \/ p.r2 < 0
        THEN [status |-> 200, first |-> 0, cl |-> size]
        ELSE IF p.r1 > r2 \/ r2 >= size THEN [status |-> 416, first |-> 0, cl |-> 0]
        ELSE [status |-> 206, first |-> p.r1, cl |-> r2 - p.r1 + 1]

-----------------------------------------------------------------------------
(* Parameters of a header *)

Quotes == {"\"", "'"}

(* Mutant: a backslash always takes the next character with it. *)
UnquoteGreedy(s, from, ends) ==
    LET value[i \in 1..(Len(s) + 1)] ==
            IF i > Len(s) \/ s[i] \in ends THEN <<>>
            ELSE IF ends \subseteq Quotes /\ s[i] = "\\" /\ i < Len(s)
            THEN <<s[i + 1]>> \o value[i + 2]
            ELSE <<s[i]>> \o value[i + 1]
    IN  value[from]

(* A backslash at i, and what it stands before. *)
Escapes(s, i, ends) == s[i] = "\\" /\ i < Len(s) /\ s[i + 1] \in ends

(* The value that starts at `from` and runs up to one of ends; in quotes, a     *)
(* backslash before the quote is left out.                                 *)
Unquote(s, from, ends) ==
    LET value[i \in 1..(Len(s) + 1)] ==
            IF i > Len(s) \/ s[i] \in ends THEN <<>>
            ELSE IF ends \subseteq Quotes /\ Escapes(s, i, ends)
            THEN <<s[i + 1]>> \o value[i + 2]
            ELSE <<s[i]>> \o value[i + 1]
    IN  value[from]

(* Where the value that starts at `from` has its closing quote, or one past end. *)
CloseQuote(s, from, quote) ==
    LET close[i \in 1..(Len(s) + 1)] ==
            IF i > Len(s) \/ s[i] = quote THEN i
            ELSE IF Escapes(s, i, {quote}) THEN close[i + 2] ELSE close[i + 1]
    IN  close[from]

(* A variable starts at i: at the very start, or after a separator. *)
StartsName(s, i, name) ==
    /\ i + Len(name) <= Len(s)
    /\ i = 1 \/ s[i - 1] \in {SP, ",", ";"}
    /\ SubSeq(s, i, i + Len(name) - 1) = name
    /\ s[i + Len(name)] = "="

(* mg_http_parse_header_internal; an unclosed quote gives nothing. *)
ParseHeader(s, name) ==
    LET starts == {i \in 1..Len(s) : StartsName(s, i, name)}
        from == Min(starts) + Len(name) + 1
    IN  IF starts = {} \/ from > Len(s) THEN <<>>
        ELSE IF s[from] \notin Quotes THEN Unquote(s, from, {SP, ",", ";"})
        ELSE IF CloseQuote(s, from + 1, s[from]) > Len(s) THEN <<>>
        ELSE Unquote(s, from + 1, {s[from]})

(* struct altbuf: len characters, in the caller's buffer of the given size as   *)
(* long as they fit and else in m.                                         *)
NoAltbuf(size) == [size |-> size, user |-> <<>>, m |-> <<>>, len |-> 0]

(* altbuf_append: the first character that does not fit takes the others along. *)
AltbufAppend(ab, c) ==
    IF ab.len < ab.size
    THEN [ab EXCEPT !.user = Append(@, c), !.len = @ + 1]
    ELSE LET m == IF ab.len > 0 /\ ab.m = <<>> THEN ab.user ELSE ab.m
         IN  [ab EXCEPT !.m = Append(m, c), !.len = Len(m) + 1]

NUL == "nul"

(* mg_http_parse_header2, with which GetSession reads its cookie: the value,     *)
(* with a NUL if there is one, in an altbuf.                               *)
ParseHeader2(s, name, size) ==
    LET v == ParseHeader(s, name)
    IN  FoldLeft(AltbufAppend, NoAltbuf(size), IF v = <<>> THEN v ELSE Append(v, NUL))

AltbufText(ab) == IF ab.len > ab.size THEN ab.m ELSE ab.user

-----------------------------------------------------------------------------
(* Forms: characters are codes here *)

Percent == 37
Amp == 38
Plus == 43
Equals == 61
Space == 32

IsDigit(c) == c \in 48..57
ToLower(c) == IF c \in 65..90 THEN c + 32 ELSE c
IsXDigit(c) == IsDigit(c) \/ ToLower(c) \in 97..102

(* HEXTOI: 'W' is 10 less than 'a'. *)
HexToI(c) == IF IsDigit(c) THEN c - 48 ELSE ToLower(c) - 87

Failed == <<-1>>

EscapeAt(s, i) ==
    i + 2 <= Len(s) /\ IsXDigit(s[i + 1]) /\ IsXDigit(s[i + 2])

(* mg_url_decode of a form's value into `size` characters. *)
UrlDecode(s, size) ==
    LET decoded[i \in 1..(Len(s) + 1), room \in 0..size] ==
            LET then(c, next) ==
                    LET rest == decoded[next, room - 1]
                    IN  IF rest = Failed THEN Failed ELSE <<c>> \o rest
            IN  IF i > Len(s) THEN <<>>
                ELSE IF room = 0 THEN Failed
                ELSE IF s[i] = Percent
                THEN IF EscapeAt(s, i)
                     THEN then(16 * HexToI(s[i + 1]) + HexToI(s[i + 2]), i + 3)
                     ELSE Failed
                ELSE IF s[i] = Plus THEN then(Space, i + 1)
                ELSE then(s[i], i + 1)
    IN  decoded[1, size]

(* mg_get_http_var: the value and its length, or the negative code of the      *)
(* error; dst_len counts the NUL.                                          *)
GetHttpVar(s, name, dst_len) ==
    LET n == Len(name)
        fields == {i \in 1..(Len(s) - n) :
                     /\ i = 1 \/ s[i - 1] = Amp
                     /\ s[i + n] = Equals
                     /\ [j \in 1..n |-> ToLower(s[i + j - 1])] = name}
        from  == Min(fields) + n + 1
        value == UrlDecode(SubSeq(s, from, Until(s, from, {Amp}) - 1), dst_len - 1)
    IN  IF s = <<>> THEN [len |-> -1]
        ELSE IF fields = {} THEN [len |-> -4]
        ELSE IF value = Failed THEN [len |-> -3]
        ELSE [len |-> Len(value), value |-> value]

-----------------------------------------------------------------------------
(* Chunks *)

(* isxdigit, and what tolower makes of a digit. *)
HexDigits ==
    LET lower == <<"0", "1", "2", "3", "4", "5", "6", "7", "8", "9",
                   "a", "b", "c", "d", "e", "f">>
        upper == <<"A", "B", "C", "D", "E", "F">>
    IN  [c \in Range(lower) \cup Range(upper) |->
           IF c \in Range(lower) THEN (CHOOSE i \in 1..16 : lower[i] = c) - 1
           ELSE (CHOOSE i \in 1..6 : upper[i] = c) + 9]

HexNumber(v) ==
    LET n[i \in 0..Len(v)] == IF i = 0 THEN 0 ELSE 16 * n[i - 1] + HexDigits[v[i]]
    IN  n[Len(v)]

(* mg_http_parse_chunk at i: nothing while the chunk is incomplete. *)
ParseChunk(s, i) ==
    LET e == Past(s, i, DOMAIN HexDigits)
        n == HexNumber(SubSeq(s, i, e - 1))
        crlf(j) == j + 1 <= Len(s) /\ SubSeq(s, j, j + 1) = CRLF
    IN  IF e = i \/ e - i > 6 \/ ~crlf(e) \/ ~crlf(e + 2 + n)
        THEN [len |-> 0]
        ELSE [len |-> e + n + 4 - i, data |-> SubSeq(s, e + 2, e + 1 + n)]

=============================================================================
