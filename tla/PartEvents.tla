----------------------------- MODULE PartEvents -----------------------------
(***************************************************************************)
(* The order in which a handler is to hear of a multipart request on one   *)
(* connection: the contract of the events in src/common/mongoose.h.  A part *)
(* is begun, gets any number of data events and is ended; the next part or *)
(* the end of the request follows.                                         *)
(***************************************************************************)
CONSTANT Slots

VARIABLE heard      \* the last event of each connection; beat shows repeats

Events == {"MULTIPART_REQUEST", "PART_BEGIN", "PART_DATA", "PART_END",
           "MULTIPART_REQUEST_END"}

(* Before its first request a connection is as after its last. *)
EventsInit == heard = [c \in Slots |-> [ev |-> "MULTIPART_REQUEST_END", beat |-> FALSE]]

Hear(c, ev, after) ==
    /\ heard[c].ev \in after
    /\ heard' = [heard EXCEPT ![c] = [ev |-> ev, beat |-> ~@.beat]]

Request(c)    == Hear(c, "MULTIPART_REQUEST", {"MULTIPART_REQUEST_END"})
Begin(c)      == Hear(c, "PART_BEGIN", {"MULTIPART_REQUEST", "PART_END"})
Data(c)       == Hear(c, "PART_DATA", {"PART_BEGIN", "PART_DATA"})
End(c)        == Hear(c, "PART_END", {"PART_BEGIN", "PART_DATA"})
RequestEnd(c) == Hear(c, "MULTIPART_REQUEST_END", {"MULTIPART_REQUEST", "PART_END"})

EventsNext ==
    \E c \in Slots :
        \/ Request(c)
        \/ Begin(c)
        \/ Data(c)
        \/ End(c)
        \/ RequestEnd(c)

EventsSpec == EventsInit /\ [][EventsNext]_heard

=============================================================================
