---------------------------- MODULE WebSocketFrames ----------------------------
(***************************************************************************)
(* A connection after its request asked for a WebSocket (src/common/         *)
(* mongoose.c): mg_ws_handler takes frames from the receive buffer, unmasks   *)
(* them, joins the fragments of a message at the front of that same buffer    *)
(* and answers the control frames between them.  An idle peer is sent a ping  *)
(* at each poll, also behind a refusal that has not left yet.  A byte is a    *)
(* number here.                                                            *)
(*                                                                         *)
(* The frames a peer sends keep to the order of RFC 6455, but for those the  *)
(* code says it refuses; what it makes of frames in another order is not      *)
(* looked at.                                                              *)
(***************************************************************************)
EXTENDS Integers, Sequences, FiniteSets, FiniteSetsExt, SequencesExt

CONSTANTS
    Streams,      \* what a peer sends: sequences of frames
    MaxPings,     \* bound: how often the peer is seen to idle
    XorOf(_, _)   \* the exclusive or of two bytes

CONTINUE == 0
TEXT == 1
CLOSE == 8
PING == 9
PONG == 10

Byte == 0..255

(* How a frame says its length: in its own byte up to 125, else in two or eight  *)
(* more.  "top" stands for eight bytes that say 2^64 - 1.                   *)
Forms == {"one", "two", "eight", "top"}
Longest(form) == CASE form = "one" -> 125 [] form = "two" -> 65535 [] OTHER -> 2147483647

Frame == [fin : BOOLEAN, op : {CONTINUE, TEXT, CLOSE, PING, PONG}, form : Forms,
          mask : Seq(Byte), data : Seq(Byte)]
Fits(f) == Len(f.mask) \in {0, 4} /\ Len(f.data) <= Longest(f.form)

(* Before the i-th frame a message was begun and not ended. *)
Open(s, i) ==
    \E j \in 1..(i - 1) : /\ s[j].op < CLOSE /\ ~s[j].fin
                         /\ \A k \in (j + 1)..(i - 1) : s[k].op >= CLOSE

(* A message is continued only once begun, and its fragments follow it. *)
Orderly(s) ==
    \A i \in DOMAIN s : /\ s[i].op = CONTINUE => Open(s, i)
                        /\ s[i].op = TEXT /\ ~s[i].fin => ~Open(s, i)

ASSUME FramesAssumption ==
    \A s \in Streams : s \in Seq(Frame) /\ Orderly(s) /\ \A i \in DOMAIN s : Fits(s[i])

ASSUME XorAssumption ==
    \A a, b \in Byte : XorOf(a, b) \in Byte /\ XorOf(XorOf(a, b), b) = a

VARIABLES
    frames,           \* what the peer sends
    fed_bytes,        \* how many of their bytes have arrived
    upgraded,         \* nc->proto_handler = mg_ws_handler
    recv_mbuf,
    reass_len,        \* ws_data.reass_len
    delivering,       \* mg_ws_handler is in its loop
    send_and_close,
    messages,         \* what the handler was called with
    replies,          \* the frames that were sent but for the pings
    pings             \* of each ping sent, how many replies were sent before it

frameBytes == <<frames, fed_bytes, upgraded, recv_mbuf, reass_len, delivering,
                send_and_close, messages, replies, pings>>

-----------------------------------------------------------------------------
(* The peer *)

Masked(data, mask) ==
    IF mask = <<>> THEN data
    ELSE [i \in DOMAIN data |-> XorOf(data[i], mask[((i - 1) % 4) + 1])]

(* A number without its last byte. *)
Upper(n) == n \div 256

LengthBytes(f) ==
    LET m == IF f.mask = <<>> THEN 0 ELSE 128
        n == Len(f.data)
    IN  CASE f.form = "one"   -> <<m + n>>
          [] f.form = "two"   -> <<m + 126, Upper(n), n % 256>>
          [] f.form = "eight" -> <<m + 127, 0, 0, 0, 0, Upper(Upper(Upper(n))),
                                   Upper(Upper(n)) % 256, Upper(n) % 256, n % 256>>
          [] f.form = "top"   -> <<m + 127, 255, 255, 255, 255, 255, 255, 255, 255>>

FrameBytes(f) ==
    <<(IF f.fin THEN 128 ELSE 0) + f.op>> \o LengthBytes(f) \o f.mask
      \o Masked(f.data, f.mask)

StreamBytes == FlattenSeq([i \in DOMAIN frames |-> FrameBytes(frames[i])])

-----------------------------------------------------------------------------

FramesInit ==
    /\ frames \in Streams
    /\ fed_bytes = 0
    /\ upgraded = FALSE
    /\ recv_mbuf = <<>> /\ reass_len = 0
    /\ delivering = FALSE
    /\ send_and_close = FALSE
    /\ messages = <<>> /\ replies = <<>> /\ pings = <<>>

FramesTypeOK ==
    /\ frames \in Streams
    /\ fed_bytes \in 0..Len(StreamBytes)
    /\ reass_len \in 0..Len(recv_mbuf)
    /\ delivering => upgraded
    /\ pings \in Seq(0..Len(replies))
    /\ pings # <<>> => upgraded

Feeds(n) ==
    /\ ~delivering
    /\ fed_bytes + n <= Len(StreamBytes)
    /\ fed_bytes' = fed_bytes + n
    /\ recv_mbuf' = recv_mbuf \o SubSeq(StreamBytes, fed_bytes + 1, fed_bytes + n)
    /\ delivering' = TRUE

(* mg_http_handler's change of protocol: what came behind the request is taken  *)
(* for frames at once.                                                     *)
Upgrade(n) ==
    /\ ~upgraded
    /\ upgraded' = TRUE
    /\ Feeds(n)
    /\ UNCHANGED <<frames, reass_len, send_and_close, messages, replies, pings>>

(* One receive; until the answer has left a connection to be closed has them   *)
(* too.                                                                    *)
FramesArrive(n) ==
    /\ upgraded
    /\ n > 0
    /\ Feeds(n)
    /\ UNCHANGED <<frames, upgraded, reass_len, send_and_close, messages, replies, pings>>

IsFin(b) == b >= 128
Opcode(b) == b % 16
IsControl(b) == Opcode(b) \in {CLOSE, PING, PONG}
IsFragment(b) == ~IsFin(b) \/ Opcode(b) = CONTINUE
IsFirst(b) == ~IsFin(b) /\ Opcode(b) # CONTINUE

(* The bytes of a number of eight bytes of which all are 255 but the last: as     *)
(* that much less than 2^64.                                               *)
Eight(s) == IF s[1] = 255 THEN s[8] - 256
            ELSE 256 * (256 * (256 * (256 * (256 * (256 * (256 * s[1] + s[2]) + s[3]) + s[4])
                + s[5]) + s[6]) + s[7]) + s[8]

(* The lengths a frame starts with, nothing while they are not there. *)
LengthsOf(s) ==
    LET n == s[2] % 128
        m == IF s[2] >= 128 THEN 4 ELSE 0
    IN  IF Len(s) < 2 THEN [header |-> 0, data |-> 0, mask |-> 0]
        ELSE IF n < 126 /\ Len(s) >= m THEN [header |-> 2 + m, data |-> n, mask |-> m]
        ELSE IF n = 126 /\ Len(s) >= 4 + m
        THEN [header |-> 4 + m, data |-> 256 * s[3] + s[4], mask |-> m]
        ELSE IF Len(s) >= 10 + m
        THEN [header |-> 10 + m, data |-> Eight(SubSeq(s, 3, 10)), mask |-> m]
        ELSE [header |-> 0, data |-> 0, mask |-> m]

Overflows(l) == l.data < 0 /\ l.header + l.data >= 0

(* The frame that is looked at: behind the fragments joined so far. *)
New == SubSeq(recv_mbuf, reass_len + 1, Len(recv_mbuf))

(* The text of a refusal, which is no sequence of a peer's bytes. *)
Refused == <<256>>
Refusal == [op |-> CLOSE, data |-> Refused]

(* mg_ws_close on a frame that is refused: it stays in the buffer. *)
Refuse ==
    /\ replies' = Append(replies, Refusal)
    /\ send_and_close' = TRUE
    /\ delivering' = FALSE
    /\ UNCHANGED <<recv_mbuf, reass_len, messages>>

(* mg_send_websocket_frame for the frames that want an answer. *)
Answers(op, data) ==
    /\ replies' = CASE op = PING -> Append(replies, [op |-> PONG, data |-> data])
                    [] op = CLOSE -> Append(replies, [op |-> CLOSE, data |-> data])
                    [] OTHER -> replies
    /\ send_and_close' = (send_and_close \/ op = CLOSE)

(* mg_handle_incoming_websocket_frame *)
Tells(op, data) == messages' = Append(messages, [op |-> op, data |-> data])

(* Mutant: a frame of its own is cut from the front of the buffer. *)
WholeFromFront(op, data, rest) ==
    /\ Answers(op, data)
    /\ Tells(op, data)
    /\ recv_mbuf' = SubSeq(recv_mbuf, Len(New) - Len(rest) + 1, Len(recv_mbuf))
    /\ UNCHANGED reass_len

(* A frame of its own, perhaps between fragments: it is cut out behind them. *)
Whole(op, data, rest) ==
    /\ Answers(op, data)
    /\ Tells(op, data)
    /\ recv_mbuf' = SubSeq(recv_mbuf, 1, reass_len) \o rest
    /\ UNCHANGED reass_len

(* A fragment is moved up to those before it, the first one to its own first    *)
(* byte, which holds the kind of the message.  The last makes it whole.     *)
Fragment(flags, data, rest) ==
    LET keep   == reass_len + IF IsFirst(flags) THEN 1 ELSE 0
        joined == SubSeq(recv_mbuf, 1, keep) \o data
        size   == Len(data) + IF IsFirst(flags) THEN 1 ELSE reass_len
    IN  /\ IF IsFin(flags)
           THEN /\ Tells(Opcode(joined[1]), SubSeq(joined, 2, size))
                /\ recv_mbuf' = SubSeq(joined \o rest, size + 1, Len(joined \o rest))
                /\ reass_len' = 0
           ELSE /\ recv_mbuf' = joined \o rest
                /\ reass_len' = size
                /\ UNCHANGED messages
        /\ UNCHANGED <<replies, send_and_close>>

(* mg_deliver_websocket_data, once round mg_ws_handler's loop.  *)
Deliver ==
    /\ delivering
    /\ LET flags == New[1]
           l     == LengthsOf(New)
           from  == l.header + l.data
           mask  == SubSeq(New, l.header - l.mask + 1, l.header)
           data  == Masked(SubSeq(New, l.header + 1, from), mask)
           rest  == SubSeq(New, from + 1, Len(New))
       IN  \/ /\ New = <<>>
              /\ delivering' = FALSE
              /\ UNCHANGED <<recv_mbuf, reass_len, send_and_close, messages, replies>>
           \/ /\ New # <<>>
              /\ \/ IsFragment(flags) /\ IsControl(flags)
                 \/ ~IsFragment(flags) /\ ~IsControl(flags) /\ reass_len > 0
              /\ Refuse
           \/ /\ New # <<>>
              /\ ~(IsFragment(flags) /\ IsControl(flags))
              /\ IsFragment(flags) \/ IsControl(flags) \/ reass_len = 0
              /\ IF Overflows(l) THEN Refuse
                 ELSE IF from <= 0 \/ from > Len(New)
                 THEN /\ delivering' = FALSE
                      /\ UNCHANGED <<recv_mbuf, reass_len, send_and_close, messages,
                                     replies>>
                 ELSE /\ IF IsFragment(flags) THEN Fragment(flags, data, rest)
                         ELSE Whole(Opcode(flags), data, rest)
                      /\ UNCHANGED delivering
    /\ UNCHANGED <<frames, fed_bytes, upgraded, pings>>

(* mg_ws_handler at a poll that finds the peer idle for longer than               *)
(* MG_WEBSOCKET_PING_INTERVAL_SECONDS, whether the connection is to be closed or    *)
(* not.                                                                    *)
IdlePing ==
    /\ upgraded /\ ~delivering
    /\ Len(pings) < MaxPings
    /\ pings' = Append(pings, Len(replies))
    /\ UNCHANGED <<frames, fed_bytes, upgraded, recv_mbuf, reass_len, delivering,
                   send_and_close, messages, replies>>

FramesNext ==
    \/ \E n \in 0..(Len(StreamBytes) - fed_bytes) : Upgrade(n)
    \/ \E n \in 1..(Len(StreamBytes) - fed_bytes) : FramesArrive(n)
    \/ Deliver
    \/ IdlePing

FramesSpec == FramesInit /\ [][FramesNext]_frameBytes

-----------------------------------------------------------------------------

(* What is to come of frames: the messages, the answers, the message begun, and   *)
(* whether one was refused.                                                *)
NothingYet == [messages |-> <<>>, replies |-> <<>>, begun |-> <<>>, refused |-> FALSE]

Refusable(f, m) ==
    \/ f.op >= CLOSE /\ ~f.fin
    \/ f.op = TEXT /\ m.begun # <<>>
    \/ f.form = "top"

(* The message of which f is the last frame so far. *)
Grown(f, m) == IF m.begun = <<>> THEN [op |-> f.op, data |-> f.data]
               ELSE [op |-> m.begun[1].op, data |-> m.begun[1].data \o f.data]

Reply(f) == CASE f.op = PING  -> <<[op |-> PONG, data |-> f.data]>>
              [] f.op = CLOSE -> <<[op |-> CLOSE, data |-> f.data]>>
              [] OTHER        -> <<>>

(* ... of one frame more. *)
After(f, m) ==
    IF m.refused THEN m
    ELSE IF Refusable(f, m) THEN [m EXCEPT !.refused = TRUE]
    ELSE IF f.op >= CLOSE
    THEN [m EXCEPT !.messages = Append(@, [op |-> f.op, data |-> f.data]),
                   !.replies = @ \o Reply(f)]
    ELSE IF f.fin
    THEN [m EXCEPT !.messages = Append(@, Grown(f, m)), !.begun = <<>>]
    ELSE [m EXCEPT !.begun = <<Grown(f, m)>>]

Meant(s, k) ==
    LET m[i \in 0..Len(s)] == IF i = 0 THEN NothingYet ELSE After(s[i], m[i - 1])
    IN  m[k]

(* How many frames have come whole. *)
CameWhole ==
    Max({k \in 0..Len(frames) :
           Len(FlattenSeq([i \in 1..k |-> FrameBytes(frames[i])])) <= fed_bytes})

(* However the bytes are cut, the handler hears the messages that were sent,     *)
(* fragments joined and unmasked, and the peer an answer to each control frame  *)
(* that wants one, whatever lies between, in the order of the frames; nothing   *)
(* that follows a refused frame is told or answered: behind a refusal come      *)
(* only more refusals.  The pings an idle peer is sent lie anywhere between.  *)
FramesReadAsSent ==
    ~delivering =>
        LET m == Meant(frames, CameWhole)
            answers == Len(m.replies)
        IN  /\ messages = m.messages
            /\ answers <= Len(replies) /\ SubSeq(replies, 1, answers) = m.replies
            /\ \A i \in (answers + 1)..Len(replies) : replies[i] = Refusal
            /\ m.refused => Len(replies) > answers
            /\ Len(replies) > answers =>
                  send_and_close /\ Meant(frames, Len(frames)).refused

=============================================================================
