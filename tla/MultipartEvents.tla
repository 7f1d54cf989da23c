--------------------------- MODULE MultipartEvents ---------------------------
(***************************************************************************)
(* The multipart parser by itself, calling a handler that may be any: one  *)
(* that answers or not, closes the connection or not.  What the handler    *)
(* hears is recorded and compared with PartEvents.                         *)
(***************************************************************************)
EXTENDS MultipartStream

VARIABLE heard    \* the last event each connection's handler was told of

eventVars == <<conn, calls, heard>>

Init ==
    /\ StreamInit
    /\ heard = [c \in Conns |-> [ev |-> "MULTIPART_REQUEST_END", beat |-> FALSE]]

(* mg_call: the handler is called, and may write to the connection and set   *)
(* its flags, unless the connection is gone (MG_EV_CLOSE).                 *)
CallHandler ==
    /\ ~Quiet
    /\ LET c == Head(calls).on
       IN  /\ calls' = Tail(calls)
           /\ heard' = [heard EXCEPT
                        ![c] = [ev |-> Head(calls).ev, beat |-> ~@.beat]]
           /\ \/ UNCHANGED conn
              \/ /\ conn[c].open
                 /\ \E closing \in BOOLEAN :
                      conn' = [conn EXCEPT
                                 ![c].unsent = TRUE,
                                 ![c].send_and_close = @ \/ closing]

Next ==
    \/ \E c \in Conns : LoopStep(c) /\ UNCHANGED heard
    \/ CallHandler

Spec == Init /\ [][Next]_eventVars

-----------------------------------------------------------------------------

Parts == INSTANCE PartEvents WITH Slots <- Conns

(* What the parser does and the header does not have: it ends a request that *)
(* comes to its end, or whose connection is closed, before its first part   *)
(* with a PART_END.  "The user should expect a sequence of                 *)
(* PART_BEGIN/DATA/END requests", and PART_END is the "end of the current   *)
(* part": there is none.                                                   *)
EndOfNoPart ==
    \E c \in Conns :
        /\ heard[c].ev = "MULTIPART_REQUEST"
        /\ heard' = [heard EXCEPT ![c] = [ev |-> "PART_END", beat |-> ~@.beat]]

(* But for EndOfNoPart the parser keeps to the order of PartEvents, whatever *)
(* the handler does and wherever the peer stops: every part begun is ended  *)
(* once, before the request is, and no event of a request reaches the       *)
(* handler outside of it.                                                  *)
InOrder == Parts!EventsInit /\ [][Parts!EventsNext \/ EndOfNoPart]_heard

(* When a connection is closed its handler knows: no request stays half     *)
(* told, so what the handler keeps for a part is released with the part.   *)
NothingHalfTold ==
    \A c \in Conns :
        Quiet /\ conn[c].stream = "none" => heard[c].ev = "MULTIPART_REQUEST_END"

=============================================================================
