------------------------------- MODULE Upload -------------------------------
(***************************************************************************)
(* HttpServer::handleUpload of src/src/http_server.cpp and what it calls,   *)
(* on top of the parser: several connections, the one global `user` they   *)
(* share, the files under MyWebFile/ and the rows of table `files`, through *)
(* crashes and restarts of the server.                                     *)
(*                                                                         *)
(* The name in a part's header is the peer's, and it is pasted as it is     *)
(* into a path and into two SQL statements.  A plain name is one of which  *)
(* these make what they were written for: not empty, no separator, quote   *)
(* or backslash in it.  What any other makes of them is left open: a path  *)
(* that leads to some file or to none, statements that find, write or fail  *)
(* anything.  The names of users are those of table `user`, and plain.     *)
(*                                                                         *)
(* One action per event the handler is called with.                        *)
(***************************************************************************)
EXTENDS MultipartStream

CONSTANTS
    Plain,       \* the plain names among Files
    MaxRows,     \* bound of the model: rows of a user and a file
    NoWriter,    \* nc->user_data == NULL
    Absent       \* there is no file of that name

VARIABLES
    up,          \* the process runs
    user,        \* the global string user
    writer,      \* nc->user_data: the file_writer_data of each connection
    disk,        \* contents of the files under MyWebFile/<user>/<file name>
    rows,        \* how many rows of table files name a user and a file
    sender,      \* history: the user whose session each request carried
    sent,        \* history: the files each user ever sent a part for
    failed,      \* history: each connection's part was not written in full
    shared       \* history: while each connection's part was written,
                 \* another one wrote to the same file

serverVars == <<up, user, writer, disk, rows>>
historyVars == <<sender, sent, failed, shared>>
vars == <<conn, calls, serverVars, historyVars>>

Paths == Users \X Files

(* A file is the sequence of its blocks, each the name of the connection    *)
(* that wrote it; Hole is a stretch nobody wrote.                          *)
Hole == "hole"
Contents == UNION {[1..n -> Conns \cup {Hole}] : n \in 0..MaxBlocks}

(* pos counts the blocks fwrite has passed to the file, buffered those that  *)
(* still sit in the FILE.                                                  *)
Writer == [path : Paths, pos : Blocks, buffered : Blocks]

(* An open FILE, whoever is logged in and however much was written. *)
OpenFile ==
    [path : (Users \cup {NoUser}) \X (Files \cup {NoFile}),
     pos : Nat, buffered : Nat]

ASSUME UploadAssumption ==
    /\ Plain \subseteq Files
    /\ MaxRows \in Nat \ {0}
    /\ NoWriter \notin OpenFile
    /\ Absent \notin Contents

Wrote(w) == w.pos + w.buffered

TypeOK ==
    /\ StreamTypeOK
    /\ up \in BOOLEAN
    /\ user \in Users \cup {NoUser}
    /\ writer \in [Conns -> Writer \cup {NoWriter}]
    /\ \A c \in Conns : writer[c] # NoWriter => Wrote(writer[c]) \in Blocks
    /\ disk \in [Paths -> Contents \cup {Absent}]
    /\ rows \in [Paths -> Nat]
    /\ sender \in [Conns -> Users \cup {NoUser}]
    /\ sent \subseteq Paths
    /\ failed \in [Conns -> BOOLEAN]
    /\ shared \in [Conns -> BOOLEAN]

Init ==
    /\ StreamInit
    /\ up = TRUE
    /\ user = NoUser
    /\ writer = [c \in Conns |-> NoWriter]
    /\ disk = [p \in Paths |-> Absent]
    /\ rows = [p \in Paths |-> 0]
    /\ sender = [c \in Conns |-> NoUser]
    /\ sent = {}
    /\ failed = [c \in Conns |-> FALSE]
    /\ shared = [c \in Conns |-> FALSE]

-----------------------------------------------------------------------------
(* Files *)

(* What a writer w of connection c leaves in a file with contents s when n   *)
(* more of its blocks reach it: they go to its own offset.                 *)
Written(s, w, n, c) ==
    LET last == IF Len(s) > w.pos + n THEN Len(s) ELSE w.pos + n
    IN  IF n = 0 THEN s
        ELSE [i \in 1..last |->
                IF i \in (w.pos + 1)..(w.pos + n) THEN c
                ELSE IF i <= Len(s) THEN s[i] ELSE Hole]

WritersOf(p) == {c \in Conns : writer[c] # NoWriter /\ writer[c].path = p}

(* getFileName: the folder is that of the global user. *)
PathFor(f) == <<user, f>>

(* Where that path leads. *)
Located(f) == IF f \in Plain THEN {PathFor(f)} ELSE Users \X Plain

-----------------------------------------------------------------------------
(* The handler *)

nc == Head(calls).on

Called(ev) == up /\ ~Quiet /\ Head(calls).ev = ev

Taken == calls' = Tail(calls)

(* mg_printf and MG_F_SEND_AND_CLOSE; nothing is left to write to once the   *)
(* connection is gone.                                                     *)
AnswersAndCloses ==
    conn' = [conn EXCEPT ![nc].unsent = conn[nc].open,
                         ![nc].send_and_close = conn[nc].open]

(* The process ends: connections and memory are gone, files and rows stay.   *)
Dies ==
    /\ up' = FALSE
    /\ conn' = [c \in Conns |-> Closed]
    /\ calls' = <<>>
    /\ user' = NoUser
    /\ writer' = [c \in Conns |-> NoWriter]
    /\ sender' = [c \in Conns |-> NoUser]
    /\ failed' = [c \in Conns |-> FALSE]
    /\ shared' = [c \in Conns |-> FALSE]
    /\ UNCHANGED sent

(* MG_EV_HTTP_MULTIPART_REQUEST *)
MultipartRequest ==
    /\ Called("MULTIPART_REQUEST")
    /\ Head(calls).who # NoUser
    /\ Taken
    /\ user' = Head(calls).who
    /\ sender' = [sender EXCEPT ![nc] = Head(calls).who]
    /\ UNCHANGED <<conn, up, writer, disk, rows, sent, failed, shared>>

(* Mutant: where no session is found, the last one looked at is taken. *)
MultipartRequestAnySession ==
    /\ Called("MULTIPART_REQUEST")
    /\ Head(calls).who = NoUser
    /\ Taken
    /\ user' \in Users
    /\ sender' = [sender EXCEPT ![nc] = NoUser]
    /\ UNCHANGED <<conn, up, writer, disk, rows, sent, failed, shared>>

(* The same event without a session: s->m_user through a null pointer. *)
MultipartRequestNoSession ==
    /\ Called("MULTIPART_REQUEST")
    /\ Head(calls).who = NoUser
    /\ Dies
    /\ UNCHANGED <<disk, rows>>

(* MG_EV_HTTP_PART_BEGIN: the file is created, or cut to nothing. *)
PartBegin ==
    /\ Called("PART_BEGIN")
    /\ Taken
    /\ LET f == Head(calls).file_name
       IN  \E p \in Located(f) :
           /\ sent' = sent \cup {<<sender[nc], f>>}
           /\ failed' = [failed EXCEPT ![nc] = FALSE]
           /\ IF writer[nc] = NoWriter
              THEN /\ writer' = [writer EXCEPT ![nc] =
                                   [path |-> p, pos |-> 0, buffered |-> 0]]
                   /\ disk' = [disk EXCEPT ![p] = <<>>]
                   /\ shared' = [c \in Conns |->
                        IF c = nc THEN WritersOf(p) # {}
                        ELSE shared[c] \/ c \in WritersOf(p)]
              ELSE UNCHANGED <<writer, disk, shared>>
    /\ UNCHANGED <<conn, up, user, rows, sender>>

(* fopen fails: 500, and nc->user_data stays NULL. *)
PartBeginNoFile ==
    /\ Called("PART_BEGIN")
    /\ "open" \in Mishaps \/ Head(calls).file_name \notin Plain
    /\ writer[nc] = NoWriter
    /\ Taken
    /\ sent' = sent \cup {<<sender[nc], Head(calls).file_name>>}
    /\ failed' = [failed EXCEPT ![nc] = TRUE]
    /\ AnswersAndCloses
    /\ UNCHANGED <<serverVars, sender, shared>>

(* MG_EV_HTTP_PART_DATA: fwrite keeps the data in the FILE, or passes on     *)
(* all it has kept.                                                        *)
PartData ==
    /\ Called("PART_DATA")
    /\ writer[nc] # NoWriter
    /\ Taken
    /\ LET w == writer[nc]
           held == w.buffered + Head(calls).len
       IN  \/ /\ writer' = [writer EXCEPT ![nc].buffered = held]
              /\ UNCHANGED disk
           \/ /\ held > 0
              /\ writer' = [writer EXCEPT ![nc].pos = @ + held,
                                          ![nc].buffered = 0]
              /\ disk' = [disk EXCEPT ![w.path] = Written(@, w, held, nc)]
    /\ UNCHANGED <<conn, up, user, rows, historyVars>>

(* fwrite falls short: 500, and the part goes on.  The block counts as lost  *)
(* whole.                                                                  *)
PartDataLost ==
    /\ Called("PART_DATA")
    /\ "write" \in Mishaps
    /\ writer[nc] # NoWriter
    /\ Head(calls).len > 0
    /\ Taken
    /\ failed' = [failed EXCEPT ![nc] = TRUE]
    /\ AnswersAndCloses
    /\ UNCHANGED <<serverVars, sender, sent, shared>>

(* The rows the insert may write. *)
RowsFor(f) == IF f \in Plain THEN {PathFor(f)} ELSE Paths

(* insertFileToDb, for the global user: an insert, unless the select before  *)
(* it found a row.  When the select's result is lost on the way, which      *)
(* DbConnection::Select reports as a success, it has found none.           *)
Recorded(f) ==
    \/ \E p \in RowsFor(f) :
         /\ rows[p] = 0 \/ "db" \in Mishaps \/ f \notin Plain
         /\ rows[p] < MaxRows
         /\ rows' = [rows EXCEPT ![p] = @ + 1]
    \/ /\ f \in Plain => rows[PathFor(f)] > 0
       /\ UNCHANGED rows

(* Mutant: the FILE is dropped without fclose. *)
FileDropped == UNCHANGED disk

(* fclose passes on what the FILE still holds. *)
FileClosed ==
    LET w == writer[nc]
    IN  disk' = [disk EXCEPT ![w.path] = Written(@, w, w.buffered, nc)]

(* Its failing goes unnoticed. *)
FlushFails ==
    /\ "write" \in Mishaps
    /\ writer[nc].buffered > 0
    /\ UNCHANGED disk

(* MG_EV_HTTP_PART_END.  The status of the part is not looked at; the row    *)
(* may fail to be inserted, which is logged.                               *)
PartEnd ==
    /\ Called("PART_END")
    /\ writer[nc] # NoWriter
    /\ Taken
    /\ \/ FileClosed /\ UNCHANGED failed
       \/ FlushFails /\ failed' = [failed EXCEPT ![nc] = TRUE]
    /\ writer' = [writer EXCEPT ![nc] = NoWriter]
    /\ \/ Recorded(Head(calls).file_name)
       \/ "db" \in Mishaps /\ UNCHANGED rows
    /\ AnswersAndCloses
    /\ UNCHANGED <<up, user, sender, sent, shared>>

(* The database cannot be reached or the select fails: showError closes the  *)
(* handle, and the next query goes through the null handle.                *)
PartEndNoDatabase ==
    /\ Called("PART_END")
    /\ "db" \in Mishaps \/ Head(calls).file_name \notin Plain
    /\ writer[nc] # NoWriter
    /\ FileClosed \/ FlushFails
    /\ Dies
    /\ UNCHANGED rows

(* Mutant: a null check keeps the server alive, and the part is recorded. *)
PartWithoutWriterRecorded ==
    /\ Called("PART_DATA") \/ Called("PART_END")
    /\ writer[nc] = NoWriter
    /\ Taken
    /\ IF Called("PART_END") /\ Head(calls).file_name # NoFile
       THEN Recorded(Head(calls).file_name) ELSE UNCHANGED rows
    /\ UNCHANGED <<conn, up, user, writer, disk, historyVars>>

(* PART_DATA or PART_END where no file is open: data->fp through a null      *)
(* pointer.                                                                *)
PartWithoutWriter ==
    /\ Called("PART_DATA") \/ Called("PART_END")
    /\ writer[nc] = NoWriter
    /\ Dies
    /\ UNCHANGED <<disk, rows>>

(* OnHttpEvent: not an event the server handles. *)
MultipartRequestEnd ==
    /\ Called("MULTIPART_REQUEST_END")
    /\ Taken
    /\ UNCHANGED <<conn, serverVars, historyVars>>

Handler ==
    \/ MultipartRequest
    \/ MultipartRequestNoSession
    \/ PartBegin
    \/ PartBeginNoFile
    \/ PartData
    \/ PartDataLost
    \/ PartEnd
    \/ PartEndNoDatabase
    \/ PartWithoutWriter
    \/ MultipartRequestEnd

-----------------------------------------------------------------------------

Loop(c) == up /\ LoopStep(c) /\ UNCHANGED <<serverVars, historyVars>>

Kill ==
    /\ up
    /\ "kill" \in Mishaps
    /\ Dies
    /\ UNCHANGED <<disk, rows>>

Restart ==
    /\ ~up
    /\ up' = TRUE
    /\ UNCHANGED <<conn, calls, user, writer, disk, rows, historyVars>>

Next ==
    \/ \E c \in Conns : Loop(c)
    \/ Handler
    \/ Kill
    \/ Restart

(* mg_mgr_poll visits every connection each time round. *)
Fairness ==
    /\ WF_vars(Handler)
    /\ \A c \in Conns :
         /\ SF_vars(up /\ Quiet /\ Send(c) /\ UNCHANGED <<serverVars, historyVars>>)
         /\ SF_vars(up /\ Quiet /\ PollClose(c)
                       /\ UNCHANGED <<serverVars, historyVars>>)

Spec == Init /\ [][Next]_vars

FairSpec == Spec /\ Fairness

-----------------------------------------------------------------------------
(* Safety *)

(* An open file belongs to the part its connection is in: it is closed with  *)
(* the part, with the connection, or with the process, never later, and a  *)
(* PART_BEGIN never finds one open.  It has the part's name if that is      *)
(* plain.                                                                  *)
WriterMatchesPart ==
    Quiet => \A c \in Conns :
        writer[c] # NoWriter =>
            /\ conn[c].open
            /\ conn[c].processing_part
            /\ conn[c].file_name \in Plain =>
                 writer[c].path[2] = conn[c].file_name

(* The hypothesis of the two properties below: nobody has sent a part under  *)
(* a name that is not plain.  Both are false without it, and the server     *)
(* does not see to it.                                                     *)
OnlyPlainSent == \A p \in sent : p[2] \in Plain

(* While only plain names are sent, every file and every row of a user is    *)
(* one that user sent.                                                     *)
FilesAndRowsOfTheirSender ==
    OnlyPlainSent =>
        \A p \in Paths : rows[p] > 0 \/ disk[p] # Absent => p \in sent

(* While only plain names are sent, a file a user is shown in a list is      *)
(* there to be downloaded.                                                 *)
RowsHaveFiles ==
    OnlyPlainSent => \A p \in Paths : rows[p] > 0 => disk[p] # Absent

(* The server does not go down. *)
StaysUp == up

(* A part that was ended by its delimiter, with nobody else writing to the   *)
(* file meanwhile and no write lost, leaves in the file exactly the *)
(* blocks its peer sent, whatever the file held before.                    *)
StoredAsSent ==
    [][PartEnd /\ Head(calls).status # Terminated /\ ~failed'[nc] /\ ~shared[nc]
         => disk'[writer[nc].path] = [i \in 1..Head(calls).had |-> nc]]_vars

(* http_server.cpp, uploadResult, "file upload result": the page that says    *)
(* the upload succeeded is sent for a part that arrived whole (mongoose.h:   *)
(* "status < 0 means that connection was terminated") and none of whose      *)
(* blocks was answered with a 500 or lost.                                 *)
OnlyWholePartsSucceed ==
    [][PartEnd => ~failed'[nc] /\ Head(calls).status # Terminated]_vars

-----------------------------------------------------------------------------
(* Liveness *)

(* Once a connection is to be closed, for whatever reason, its open file is  *)
(* closed too.                                                             *)
WritersReleased ==
    \A c \in Conns :
        /\ writer[c] # NoWriter
        /\ conn[c].send_and_close \/ conn[c].close_immediately
        ~> writer[c] = NoWriter

=============================================================================
