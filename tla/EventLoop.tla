----------------------------- MODULE EventLoop -----------------------------
(***************************************************************************)
(* mg_mgr_poll over the socket interface (src/common/mongoose.c): the list  *)
(* of active connections, the descriptors they share with the files and    *)
(* database connections of the handlers, and the two walks of              *)
(* mg_socket_if_poll around select.                                        *)
(*                                                                         *)
(* Every step of a walk is an action, each recv of a connection that is      *)
(* read from among them; peers act between any two.                        *)
(* What a handler does with its connection is any of the things a handler  *)
(* of this server may do: answer, ask for the close, open or close a file.  *)
(***************************************************************************)
EXTENDS Naturals, Sequences, FiniteSets, SequencesExt

CONSTANTS
    Conns,        \* memory for connections: enough of it
    Listener,
    NoConn,       \* the null pointer
    NoFd,         \* INVALID_SOCKET
    FdLimit,      \* descriptors the process may have
    FdSetSize,    \* FD_SETSIZE
    MaxHeld       \* bound of the model: descriptors handlers hold at once

All == Conns \cup {Listener}
Fds == 0..(FdLimit - 1)

ASSUME LoopAssumption ==
    /\ Listener \notin Conns
    /\ NoConn \notin All
    /\ FdLimit \in Nat /\ FdSetSize \in 1..FdLimit
    /\ NoFd \notin Nat
    /\ MaxHeld \in Nat
    /\ IsFiniteSet(Conns) /\ Cardinality(Conns) >= FdLimit - 1

VARIABLES
    active,       \* mgr->active_connections, head first
    sock,
    closing,      \* "no", "flush": SEND_AND_CLOSE, "now": CLOSE_IMMEDIATELY
    unsent,       \* send_mbuf.len > 0
    input,        \* what the kernel has for each connection
    backlog,      \* a connection waits to be accepted
    open,         \* the descriptors in use
    held,         \* those of them that handlers opened
    phase,        \* the walk that is under way
    next,         \* the connection it comes to next
    try_dup,
    read_set, write_set,
    owner,        \* history: for whom a descriptor was put into the sets
    due           \* history: the connections of this round not visited yet

netVars == <<input, backlog>>
fdVars == <<open, held>>
walkVars == <<try_dup, read_set, write_set, owner>>
connVars == <<active, sock, closing, unsent>>
vars == <<connVars, netVars, fdVars, phase, next, walkVars, due>>

Listed == ToSet(active)
(* The end of the peer's side, or a reset, comes after the data there is. *)
Inputs == {{}, {"data"}, {"end"}, {"reset"}, {"data", "end"}, {"data", "reset"}}

TypeOK ==
    /\ active \in Seq(All)
    /\ sock \in [All -> Fds \cup {NoFd}]
    /\ \A c \in Listed : sock[c] # NoFd
    /\ closing \in [Conns -> {"no", "flush", "now"}]
    /\ unsent \in [Conns -> BOOLEAN]
    /\ input \in [Conns -> Inputs]
    /\ backlog \in BOOLEAN
    /\ open \in SUBSET Fds /\ held \in SUBSET Fds
    /\ phase \in {"prepare", "visit", "receive", "send"}
    /\ next \in All \cup {NoConn}
    /\ try_dup \in BOOLEAN
    /\ read_set \in SUBSET Fds /\ write_set \in SUBSET Fds
    /\ owner \in [Fds -> All \cup {NoConn}]
    /\ due \in SUBSET All

(* The server listens; nobody has come yet. *)
Init ==
    /\ active = <<Listener>>
    /\ sock = [c \in All |-> IF c = Listener THEN 0 ELSE NoFd]
    /\ closing = [c \in Conns |-> "no"]
    /\ unsent = [c \in Conns |-> FALSE]
    /\ input = [c \in Conns |-> {}]
    /\ backlog = FALSE
    /\ open = {0}
    /\ held = {}
    /\ phase = "prepare"
    /\ next = Listener
    /\ try_dup = TRUE
    /\ read_set = {} /\ write_set = {}
    /\ owner = [fd \in Fds |-> NoConn]
    /\ due = {Listener}

(* The kernel gives out the lowest free descriptor. *)
Free == Fds \ open
Lowest(fds) == CHOOSE fd \in fds : \A other \in fds : fd <= other

Place(nc) == CHOOSE i \in DOMAIN active : active[i] = nc

(* nc->next *)
Following(nc) ==
    IF Place(nc) = Len(active) THEN NoConn ELSE active[Place(nc) + 1]

(* mg_remove_conn *)
Unlink(nc) == active' = RemoveAt(active, Place(nc))

-----------------------------------------------------------------------------
(* The first walk of mg_socket_if_poll: filling the sets. *)

Preparing(nc) == phase = "prepare" /\ next = nc /\ nc # NoConn

(* nc is put into the sets by the descriptor fd, if they reach that far. *)
AddToSets(nc, fd) ==
    /\ IF fd < FdSetSize
       THEN /\ read_set' = read_set \cup {fd}
            /\ write_set' = IF nc # Listener /\ unsent[nc]
                            THEN write_set \cup {fd} ELSE write_set
            /\ owner' = [owner EXCEPT ![fd] = nc]
       ELSE UNCHANGED <<read_set, write_set, owner>>
    /\ next' = Following(nc)
    /\ UNCHANGED <<active, closing, unsent, netVars, held, phase, due>>

(* Mutant: FD_SETSIZE itself is taken for a descriptor that fits. *)
NeedsDupAbove(nc) == try_dup /\ sock[nc] > FdSetSize

NeedsDup(nc) == try_dup /\ sock[nc] >= FdSetSize
DupFits == Free # {} /\ Lowest(Free) < FdSetSize

Prepare(nc) ==
    /\ Preparing(nc)
    /\ ~NeedsDup(nc)
    /\ AddToSets(nc, sock[nc])
    /\ UNCHANGED <<sock, open, try_dup>>

(* Mutant: the old descriptor is not closed. *)
PrepareMovedLeaks(nc) ==
    /\ Preparing(nc)
    /\ NeedsDup(nc) /\ DupFits
    /\ LET fd == Lowest(Free)
       IN  /\ sock' = [sock EXCEPT ![nc] = fd]
           /\ open' = open \cup {fd}
           /\ AddToSets(nc, fd)
    /\ UNCHANGED try_dup

(* The descriptor is too large for select and a smaller one is free. *)
PrepareMoved(nc) ==
    /\ Preparing(nc)
    /\ NeedsDup(nc) /\ DupFits
    /\ LET fd == Lowest(Free)
       IN  /\ sock' = [sock EXCEPT ![nc] = fd]
           /\ open' = (open \ {sock[nc]}) \cup {fd}
           /\ AddToSets(nc, fd)
    /\ UNCHANGED try_dup

(* There is none: dup fails, or gives one as bad, which is closed again. *)
PrepareTooHigh(nc) ==
    /\ Preparing(nc)
    /\ NeedsDup(nc) /\ ~DupFits
    /\ try_dup' = FALSE
    /\ AddToSets(nc, sock[nc])
    /\ UNCHANGED <<sock, open>>

Readable(fd) ==
    IF owner[fd] = Listener THEN backlog ELSE input[owner[fd]] # {}

(* select: what may be read is reported, what may be written as the peers'   *)
(* windows allow.                                                          *)
Select ==
    /\ phase = "prepare"
    /\ next = NoConn
    /\ phase' = "visit"
    /\ next' = Head(active)
    /\ read_set' = {fd \in read_set : Readable(fd)}
    /\ write_set' \in SUBSET write_set
    /\ UNCHANGED <<connVars, netVars, fdVars, try_dup, owner, due>>

-----------------------------------------------------------------------------
(* The second walk: mg_mgr_handle_conn. *)

Visiting(nc) == phase = "visit" /\ next = nc /\ nc # NoConn

(* The successor is read before the connection is handled. *)
Visited(nc) ==
    /\ next' = Following(nc)
    /\ due' = due \ {nc}
    /\ UNCHANGED <<phase, walkVars>>

(* FD_ISSET beyond the end of a set reads what lies there; it is not asked   *)
(* when select reported nothing.                                           *)
IsSet(fd, set) ==
    IF fd < FdSetSize THEN {fd \in set}
    ELSE IF read_set \cup write_set = {} THEN {FALSE} ELSE BOOLEAN

(* What a handler may do to the descriptors, given those in use: nothing,    *)
(* fopen, or fclose.                                                       *)
HandlerFds(used) ==
    \/ open' = used /\ UNCHANGED held
    \/ /\ Fds \ used # {}
       /\ Cardinality(held) < MaxHeld
       /\ open' = used \cup {Lowest(Fds \ used)}
       /\ held' = held \cup {Lowest(Fds \ used)}
    \/ \E fd \in held : open' = used \ {fd} /\ held' = held \ {fd}

DueToClose(nc) ==
    \/ closing[nc] = "now"
    \/ closing[nc] = "flush" /\ ~unsent[nc]

(* Mutant: the walk goes on from the connection that was just freed. *)
VisitCloseLosesPlace(nc) ==
    /\ Visiting(nc)
    /\ nc \in Conns
    /\ DueToClose(nc)
    /\ Unlink(nc)
    /\ sock' = [sock EXCEPT ![nc] = NoFd]
    /\ HandlerFds(open \ {sock[nc]})
    /\ next' = NoConn
    /\ due' = due \ {nc}
    /\ UNCHANGED <<closing, unsent, netVars, phase, walkVars>>

(* Mutant: the walk visits only connections select reported. *)
VisitCloseReported(nc) ==
    /\ Visiting(nc)
    /\ nc \in Conns
    /\ DueToClose(nc)
    /\ IF sock[nc] \in read_set \cup write_set
       THEN /\ Unlink(nc)
            /\ sock' = [sock EXCEPT ![nc] = NoFd]
            /\ HandlerFds(open \ {sock[nc]})
            /\ input' = [input EXCEPT ![nc] = {}]
       ELSE UNCHANGED <<active, sock, fdVars, input>>
    /\ Visited(nc)
    /\ UNCHANGED <<closing, unsent, backlog>>

(* mg_if_poll and mg_close_conn: off the list, descriptor closed, then the   *)
(* handler is told.                                                        *)
VisitClose(nc) ==
    /\ Visiting(nc)
    /\ nc \in Conns
    /\ DueToClose(nc)
    /\ Unlink(nc)
    /\ sock' = [sock EXCEPT ![nc] = NoFd]
    /\ HandlerFds(open \ {sock[nc]})
    /\ input' = [input EXCEPT ![nc] = {}]
    /\ Visited(nc)
    /\ UNCHANGED <<closing, unsent, backlog>>

(* mg_accept_conn, mg_if_accept_new_conn, mg_add_conn: to the head of the    *)
(* list, behind the walk.                                                  *)
Accept(nc) ==
    /\ active' = <<nc>> \o active
    /\ sock' = [sock EXCEPT ![nc] = Lowest(Free)]
    /\ open' = open \cup {Lowest(Free)}
    /\ closing' = [closing EXCEPT ![nc] = "no"]
    /\ unsent' = [unsent EXCEPT ![nc] = FALSE]
    /\ backlog' = FALSE

(* Mutant: what accept returned is not looked at. *)
VisitListenerUnchecked ==
    /\ Visiting(Listener)
    /\ IF sock[Listener] \in read_set
       THEN \E nc \in Conns \ Listed :
              IF Free # {} THEN Accept(nc)
              ELSE /\ active' = <<nc>> \o active
                   /\ UNCHANGED <<sock, open, closing, unsent, backlog>>
       ELSE UNCHANGED <<connVars, open, backlog>>
    /\ Visited(Listener)
    /\ UNCHANGED <<held, input>>

(* Mutant: others come before new connections. *)
VisitListenerWhenIdle ==
    /\ Visiting(Listener)
    /\ IF read_set = {sock[Listener]} /\ Free # {}
       THEN \E nc \in Conns \ Listed : Accept(nc)
       ELSE UNCHANGED <<connVars, open, backlog>>
    /\ Visited(Listener)
    /\ UNCHANGED <<held, input>>

(* There is no memory for one more: its socket is closed. *)
TurnAway == backlog' = FALSE /\ UNCHANGED <<connVars, open>>

(* One connection at a time; accept fails while no descriptor is free. *)
VisitListener ==
    /\ Visiting(Listener)
    /\ IF sock[Listener] \in read_set /\ Free # {}
       THEN TurnAway \/ \E nc \in Conns \ Listed : Accept(nc)
       ELSE UNCHANGED <<connVars, open, backlog>>
    /\ Visited(Listener)
    /\ UNCHANGED <<held, input>>

(* A handler of nc runs: it may answer, and ask for the close of one kind or  *)
(* the other.                                                              *)
Handles(nc) ==
    /\ HandlerFds(open)
    /\ unsent' \in {unsent, [unsent EXCEPT ![nc] = TRUE]}
    /\ closing' \in {closing, [closing EXCEPT ![nc] = "now"],
                    IF closing[nc] = "no" THEN [closing EXCEPT ![nc] = "flush"]
                    ELSE closing}

(* Mutant: large descriptors are moved when the connection is visited. *)
VisitReadMoves(nc) ==
    /\ Visiting(nc)
    /\ nc \in Conns
    /\ ~DueToClose(nc)
    /\ IF sock[nc] >= FdSetSize /\ DupFits
       THEN /\ sock' = [sock EXCEPT ![nc] = Lowest(Free)]
            /\ open' = (open \ {sock[nc]}) \cup {Lowest(Free)}
            /\ UNCHANGED held
       ELSE UNCHANGED sock /\ HandlerFds(open)
    /\ phase' = IF TRUE \in IsSet(sock'[nc], read_set) THEN "receive" ELSE "send"
    /\ UNCHANGED <<active, closing, unsent, netVars, next, walkVars, due>>

(* mg_if_poll tells the handler MG_EV_POLL; then what there is is read,       *)
(* unless the handler wants the connection closed at once.                 *)
VisitRead(nc) ==
    /\ Visiting(nc)
    /\ nc \in Conns
    /\ ~DueToClose(nc)
    /\ Handles(nc)
    /\ \E readable \in IsSet(sock[nc], read_set) :
         phase' = IF readable /\ closing'[nc] # "now" THEN "receive" ELSE "send"
    /\ UNCHANGED <<active, sock, netVars, next, walkVars, due>>

Receiving(nc) == phase = "receive" /\ next = nc

(* mg_do_recv goes round once: data goes to the handler, and recv is called   *)
(* again, for whatever has come meanwhile.                                 *)
ReceiveData(nc) ==
    /\ Receiving(nc)
    /\ "data" \in input[nc]
    /\ input' = [input EXCEPT ![nc] = @ \ {"data"}]
    /\ Handles(nc)
    /\ phase' = IF closing'[nc] = "now" THEN "send" ELSE "receive"
    /\ UNCHANGED <<active, sock, backlog, next, walkVars, due>>

(* Mutant: recv is called again though the peer has ended its side. *)
ReceiveNoMoreUnlessEnded(nc) ==
    /\ Receiving(nc)
    /\ "data" \notin input[nc]
    /\ phase' = IF input[nc] = {"end"} THEN "receive" ELSE "send"
    /\ closing' = CASE input[nc] = {} -> closing
                    [] input[nc] = {"end"} -> [closing EXCEPT ![nc] = "flush"]
                    [] OTHER -> [closing EXCEPT ![nc] = "now"]
    /\ UNCHANGED <<active, sock, unsent, netVars, fdVars, next, walkVars, due>>

(* There is nothing more: the peer's end makes SEND_AND_CLOSE, a reset        *)
(* CLOSE_IMMEDIATELY.  recv would say so again.                            *)
ReceiveNoMore(nc) ==
    /\ Receiving(nc)
    /\ "data" \notin input[nc]
    /\ phase' = "send"
    /\ closing' = CASE input[nc] = {} -> closing
                    [] input[nc] = {"end"} -> [closing EXCEPT ![nc] = "flush"]
                    [] OTHER -> [closing EXCEPT ![nc] = "now"]
    /\ UNCHANGED <<active, sock, unsent, netVars, fdVars, next, walkVars, due>>

(* mg_if_can_send_cb: some of the output or all of it is taken and the       *)
(* handler told, or the connection turns out broken.                       *)
Send(nc) ==
    \/ Handles(nc)
    \/ /\ HandlerFds(open)
       /\ unsent' = [unsent EXCEPT ![nc] = FALSE]
       /\ UNCHANGED closing
    \/ /\ closing' = [closing EXCEPT ![nc] = "now"]
       /\ UNCHANGED <<unsent, fdVars>>

VisitSend(nc) ==
    /\ phase = "send" /\ next = nc
    /\ \E writable \in IsSet(sock[nc], write_set) :
         IF writable /\ unsent[nc] /\ closing[nc] # "now" THEN Send(nc)
         ELSE UNCHANGED <<closing, unsent, fdVars>>
    /\ phase' = "visit"
    /\ next' = Following(nc)
    /\ due' = due \ {nc}
    /\ UNCHANGED <<active, sock, netVars, walkVars>>

(* The next call of mg_mgr_poll. *)
RoundBegins ==
    /\ phase = "visit"
    /\ next = NoConn
    /\ phase' = "prepare"
    /\ next' = Head(active)
    /\ try_dup' = TRUE
    /\ read_set' = {} /\ write_set' = {}
    /\ owner' = [fd \in Fds |-> NoConn]
    /\ due' = Listed
    /\ UNCHANGED <<connVars, netVars, fdVars>>

-----------------------------------------------------------------------------

(* The peers: they connect, send, end their side, or reset the connection. *)
PeerConnects ==
    /\ ~backlog
    /\ backlog' = TRUE
    /\ UNCHANGED <<connVars, input, fdVars, phase, next, walkVars, due>>

PeerSends(nc) ==
    /\ nc \in Listed
    /\ input[nc] \subseteq {"data"}
    /\ \E what \in {"data", "end", "reset"} :
         input' = [input EXCEPT ![nc] = @ \cup {what}]
    /\ UNCHANGED <<connVars, backlog, fdVars, phase, next, walkVars, due>>

Poll ==
    \/ \E nc \in All :
         Prepare(nc) \/ PrepareMoved(nc) \/ PrepareTooHigh(nc)
    \/ Select
    \/ \E nc \in Conns :
         \/ VisitClose(nc)
         \/ VisitRead(nc)
         \/ ReceiveData(nc)
         \/ ReceiveNoMore(nc)
         \/ VisitSend(nc)
    \/ VisitListener
    \/ RoundBegins

Next ==
    \/ Poll
    \/ PeerConnects
    \/ \E nc \in Conns : PeerSends(nc)

Spec == Init /\ [][Next]_vars

(* main calls mg_mgr_poll for ever, and select waits at most a second.  That  *)
(* a call of mg_do_recv ends is not said: a peer may send faster than it    *)
(* reads.                                                                  *)
FairSpec == Spec /\ WF_vars(Poll)

-----------------------------------------------------------------------------
(* Safety *)

(* What select reports of a descriptor is taken for the connection it was    *)
(* asked about, though descriptors are closed, reused by files and by new  *)
(* connections, and moved, while the results are being handled.            *)
FlagsAreOwn ==
    phase # "prepare" /\ next # NoConn =>
        (sock[next] \in read_set \cup write_set => owner[sock[next]] = next)

(* The walks never lose their place in the list nor follow a freed           *)
(* connection, and each one that was listed when the round began is        *)
(* visited once.                                                           *)
RoundSound ==
    /\ next # NoConn => next \in Listed
    /\ phase # "prepare" => IF next = NoConn THEN due = {} ELSE next \in due

(* No descriptor is lost or used twice: those in use are the sockets of      *)
(* listed connections, each its own, and those the handlers hold.          *)
FdsAccounted ==
    /\ open = {sock[c] : c \in Listed} \cup held
    /\ held \cap {sock[c] : c \in Listed} = {}
    /\ \A c, d \in Listed : sock[c] = sock[d] => c = d

(* Select is about to be called with a small descriptor to spare. *)
RoomToWatch ==
    /\ phase = "prepare" /\ next = NoConn
    /\ ~(0..(FdSetSize - 1) \subseteq open)

(* Nothing but a peer that keeps sending keeps the loop from its next round:  *)
(* no end, no reset, no refused answer, no shortage of descriptors.         *)
RoundsGoOn ==
    \/ []<>(phase = "prepare")
    \/ \E c \in Conns : []<><<PeerSends(c)>>_vars

(* What is promised from here on is promised while no peer does: while every  *)
(* call of mg_do_recv ends.                                                *)
ReadsEnd == []<>(phase # "receive")

(* A connection that has something to say is heard, unless handlers and      *)
(* other connections keep all descriptors select can watch.  Room that      *)
(* comes again and again says, too, that the rounds go on.                  *)
PeersAreHeard ==
    \A c \in Conns :
      []<>RoomToWatch => (input[c] # {} ~> input[c] = {} \/ closing[c] # "no")

(* A connection that is to be closed when its visit ends is, watched or not. *)
ClosingCloses ==
    ReadsEnd =>
      \A c \in Conns :
        c \in Listed /\ DueToClose(c) /\ phase = "prepare" ~> c \notin Listed

(* A peer that connects is accepted, or turned away for want of memory,      *)
(* unless descriptors are short for ever.                                  *)
PeersAreAccepted ==
    ReadsEnd => (<>[](Free # {}) => (backlog ~> ~backlog))
=============================================================================
