--------------------------- MODULE MultipartStream ---------------------------
(***************************************************************************)
(* A connection of the event loop and the streaming multipart parser that  *)
(* runs on it (src/common/mongoose.c): from the bytes of the peer to the   *)
(* calls of the user's event handler.                                      *)
(*                                                                         *)
(* The server is one thread.  An action of this module is one thing the    *)
(* loop does for one connection; the handler calls it makes are put, in    *)
(* order, into calls, and until they have been taken from there nothing    *)
(* else happens.  Who takes them is the module that EXTENDS this one.       *)
(*                                                                         *)
(* TCP may cut the peer's bytes anywhere, so a token of the body (a         *)
(* delimiter, the headers of a part, a block of data, the closing mark) is *)
(* received by an action of its own.  A receive that brings several tokens *)
(* is the same actions in a row.                                           *)
(***************************************************************************)
EXTENDS Naturals, Sequences

CONSTANTS
    Conns,       \* connection slots
    Users,
    NoUser,      \* GetSession found no session
    Files,       \* the file names of part headers
    NoFile,      \* file_name == NULL
    MaxBlocks,   \* bound of the model: blocks of data in one part
    Mishaps      \* what may go wrong in this instance: see below

(* Of the peer's doing:                                                    *)
(*   "leave"    it closes or resets the connection before its answer       *)
(*   "noparts"  it closes the body before the first part                   *)
(*   "pipeline" it sends a request on a connection that is being closed    *)
(*   "nosession" its cookie is no session's                                *)
(*   "noboundary" its request names no boundary                            *)
(* Of the server's surroundings, in the modules that extend this one:      *)
(*   "open", "write", "db", "kill"                                         *)
AllMishaps == {"leave", "noparts", "pipeline", "nosession", "noboundary",
               "open", "write", "db", "kill"}

ASSUME StreamAssumption ==
    /\ NoUser \notin Users
    /\ NoFile \notin Files
    /\ MaxBlocks \in Nat \ {0}
    /\ Mishaps \subseteq AllMishaps

VARIABLES
    conn,    \* the connection in each slot
    calls    \* handler calls the loop is in the middle of making

streamVars == <<conn, calls>>

Blocks == 0..MaxBlocks

(* struct mg_connection with its mp_stream.  stream is "none" while         *)
(* mp_stream.boundary is NULL (MPS_FINISHED included), "boundary" in       *)
(* MPS_WAITING_FOR_BOUNDARY, "chunk" in MPS_WAITING_FOR_CHUNK; the other    *)
(* states do not outlive a receive.  blocks counts the data of the part    *)
(* that was passed on.                                                     *)
Connection ==
    [open : BOOLEAN,
     peer_gone : BOOLEAN,
     stream : {"none", "boundary", "chunk"},
     processing_part : BOOLEAN,
     file_name : Files \cup {NoFile},
     blocks : Blocks,
     unsent : BOOLEAN,               \* send_mbuf.len > 0
     send_and_close : BOOLEAN,       \* MG_F_SEND_AND_CLOSE
     close_immediately : BOOLEAN]    \* MG_F_CLOSE_IMMEDIATELY

Closed ==
    [open |-> FALSE, peer_gone |-> FALSE, stream |-> "none",
     processing_part |-> FALSE, file_name |-> NoFile, blocks |-> 0,
     unsent |-> FALSE, send_and_close |-> FALSE, close_immediately |-> FALSE]

Accepted == [Closed EXCEPT !.open = TRUE]

Events == {"MULTIPART_REQUEST", "PART_BEGIN", "PART_DATA", "PART_END",
           "MULTIPART_REQUEST_END"}

(* A call of the handler: the event and what the handler reads of its       *)
(* argument (who: the user whose session the request's cookie names).  had  *)
(* is history: the blocks the peer sent of the part.                       *)
Call == [on : Conns, ev : Events, who : Users \cup {NoUser},
         file_name : Files \cup {NoFile}, len : Blocks, status : {0, 1},
         had : Blocks]

Calling(c, ev) ==
    [on |-> c, ev |-> ev, who |-> NoUser,
     file_name |-> conn[c].file_name, len |-> 0, status |-> 0,
     had |-> conn[c].blocks]

(* mp.status = -1 in the code. *)
Terminated == 1

Quiet == calls = <<>>

-----------------------------------------------------------------------------

StreamInit ==
    /\ conn = [c \in Conns |-> Closed]
    /\ calls = <<>>

Accept(c) ==
    /\ ~conn[c].open
    /\ conn' = [conn EXCEPT ![c] = Accepted]
    /\ UNCHANGED calls

(* mg_if_poll: what is to be sent first is sent first. *)
DueToClose(c) ==
    /\ conn[c].open
    /\ \/ conn[c].close_immediately
       \/ conn[c].send_and_close /\ ~conn[c].unsent

(* mg_mgr_handle_conn: a connection that is due to be closed is closed       *)
(* before anything more is read from it, and recv has nothing to say after  *)
(* the peer's end.                                                         *)
Receiving(c) ==
    /\ conn[c].open
    /\ ~conn[c].peer_gone
    /\ ~DueToClose(c)

(* mg_http_multipart_continue: the parser takes up where it stood. *)
ReceivingIn(c, state) == Receiving(c) /\ conn[c].stream = state

(* mg_http_multipart_begin: the head of a multipart request is complete. *)
RecvRequest(c) ==
    /\ ReceivingIn(c, "none")
    /\ conn[c].send_and_close => "pipeline" \in Mishaps
    /\ conn' = [conn EXCEPT ![c].stream = "boundary", ![c].file_name = NoFile]
    /\ \E u \in Users \cup {NoUser} :
         /\ u = NoUser => "nosession" \in Mishaps
         /\ calls' = <<[Calling(c, "MULTIPART_REQUEST") EXCEPT !.who = u]>>

(* The same function when the head has no boundary: nc->flags is set, not     *)
(* added to.                                                               *)
RecvNoBoundary(c) ==
    /\ ReceivingIn(c, "none")
    /\ "noboundary" \in Mishaps
    /\ conn' = [conn EXCEPT ![c].send_and_close = FALSE,
                            ![c].close_immediately = TRUE]
    /\ UNCHANGED calls

(* Mutant: a part is not ended by the headers of the next. *)
RecvPartHeadersUnended(c) ==
    /\ ReceivingIn(c, "boundary")
    /\ \E f \in Files :
         /\ conn' = [conn EXCEPT ![c].stream = "chunk",
                                 ![c].processing_part = TRUE,
                                 ![c].file_name = f,
                                 ![c].blocks = 0]
         /\ calls' = <<[Calling(c, "PART_BEGIN") EXCEPT !.file_name = f]>>

(* mg_http_multipart_process_boundary: the headers of a part are complete.   *)
(* They end the part before.                                               *)
RecvPartHeaders(c) ==
    /\ ReceivingIn(c, "boundary")
    /\ \E f \in Files :
         /\ conn' = [conn EXCEPT ![c].stream = "chunk",
                                 ![c].processing_part = TRUE,
                                 ![c].file_name = f,
                                 ![c].blocks = 0]
         /\ calls' =
              (IF conn[c].processing_part THEN <<Calling(c, "PART_END")>> ELSE <<>>)
                \o <<[Calling(c, "PART_BEGIN") EXCEPT !.file_name = f]>>

(* mg_http_multipart_continue_wait_for_chunk while no boundary is in sight. *)
RecvData(c) ==
    /\ ReceivingIn(c, "chunk")
    /\ conn[c].blocks < MaxBlocks
    /\ conn' = [conn EXCEPT ![c].blocks = @ + 1]
    /\ calls' = <<[Calling(c, "PART_DATA") EXCEPT !.len = 1]>>

(* Mutant: the four bytes before the boundary are taken off too few. *)
RecvDelimiterUnderflow(c) ==
    /\ ReceivingIn(c, "chunk")
    /\ conn' = [conn EXCEPT ![c].stream = "boundary", ![c].blocks = @ - 1]
    /\ calls' = <<[Calling(c, "PART_DATA") EXCEPT !.len = 0]>>

(* The same function when the boundary is found: what was held back is       *)
(* passed on, and the call is made even if that is nothing.                *)
RecvDelimiter(c) ==
    /\ ReceivingIn(c, "chunk")
    /\ \E n \in {0, 1} :
         /\ conn[c].blocks + n <= MaxBlocks
         /\ conn' = [conn EXCEPT ![c].stream = "boundary", ![c].blocks = @ + n]
         /\ calls' = <<[Calling(c, "PART_DATA") EXCEPT !.len = n]>>

(* mg_http_multipart_finalize: the mark that closes the body. *)
RecvClosingMark(c) ==
    /\ ReceivingIn(c, "boundary")
    /\ ~conn[c].processing_part => "noparts" \in Mishaps
    /\ conn' = [conn EXCEPT ![c].stream = "none",
                            ![c].processing_part = FALSE,
                            ![c].file_name = NoFile,
                            ![c].blocks = 0]
    /\ calls' = <<Calling(c, "PART_END"),
                  [Calling(c, "MULTIPART_REQUEST_END") EXCEPT !.file_name = NoFile]>>

(* recv returned 0: the peer is done sending. *)
RecvEnd(c) ==
    /\ Receiving(c)
    /\ conn[c].stream # "none" => "leave" \in Mishaps
    /\ conn' = [conn EXCEPT ![c].peer_gone = TRUE, ![c].send_and_close = TRUE]
    /\ UNCHANGED calls

(* recv or send failed: the connection was reset. *)
ConnectionFails(c) ==
    /\ Receiving(c)
    /\ "leave" \in Mishaps
    /\ conn' = [conn EXCEPT ![c].peer_gone = TRUE, ![c].close_immediately = TRUE]
    /\ UNCHANGED calls

(* mg_if_can_send_cb: answers are short, one write takes them all. *)
Send(c) ==
    /\ conn[c].open
    /\ ~conn[c].close_immediately
    /\ conn[c].unsent
    /\ conn' = [conn EXCEPT ![c].unsent = FALSE]
    /\ UNCHANGED calls

(* Mutant: a request in progress is forgotten with its connection. *)
PollCloseSilently(c) ==
    /\ DueToClose(c)
    /\ conn' = [conn EXCEPT ![c] = Closed]
    /\ UNCHANGED calls

(* Mutant: a connection is kept until its request is complete. *)
PollCloseWhenIdle(c) ==
    /\ DueToClose(c)
    /\ conn[c].stream = "none"
    /\ conn' = [conn EXCEPT ![c] = Closed]
    /\ UNCHANGED calls

(* The MG_EV_CLOSE branch of mg_http_handler: a multipart request in         *)
(* progress is ended with an error status.                                 *)
CallsAtClose(c) ==
    IF conn[c].stream = "none" THEN <<>>
    ELSE <<[Calling(c, "PART_END") EXCEPT !.status = Terminated],
           [Calling(c, "MULTIPART_REQUEST_END") EXCEPT
              !.file_name = NoFile, !.status = Terminated]>>

(* mg_close_conn *)
PollClose(c) ==
    /\ DueToClose(c)
    /\ conn' = [conn EXCEPT ![c] = Closed]
    /\ calls' = CallsAtClose(c)

LoopStep(c) ==
    /\ Quiet
    /\ \/ Accept(c)
       \/ RecvRequest(c)
       \/ RecvNoBoundary(c)
       \/ RecvPartHeaders(c)
       \/ RecvData(c)
       \/ RecvDelimiter(c)
       \/ RecvClosingMark(c)
       \/ RecvEnd(c)
       \/ ConnectionFails(c)
       \/ Send(c)
       \/ PollClose(c)

-----------------------------------------------------------------------------

StreamTypeOK ==
    /\ conn \in [Conns -> Connection]
    /\ calls \in Seq(Call)

=============================================================================
