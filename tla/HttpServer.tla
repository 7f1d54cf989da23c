------------------------------ MODULE HttpServer ------------------------------
(***************************************************************************)
(* The requests the server answers: HttpServer::HandleEvent with its routes *)
(* and downloads (src/src/http_server.cpp), the handlers of src/src/main.cpp *)
(* and the bookkeeping of an upload, on top of the session table and the    *)
(* database.  A handler runs to its end before the next request is looked   *)
(* at, so pc is that of the one thread; the database, the clock, the file    *)
(* system and whoever kills the process go on meanwhile.                   *)
(*                                                                         *)
(* One action per step between two calls that may fail.                    *)
(*                                                                         *)
(* The names of users are those of table `user`, which the server never      *)
(* writes, and are plain; so are the names a login is tried with.  The name   *)
(* of a file is the client's and may be any text, pasted into paths and       *)
(* statements as it is: where it is not plain, a path leads to any of the     *)
(* files the model has and a statement finds or writes any rows.            *)
(***************************************************************************)
EXTENDS CookieSessions, DbConnection

LOCAL INSTANCE Functions

CONSTANTS
    Names,       \* names of files
    Plain,       \* those without a quote, a backslash or a separator in them
    MaxRows,     \* bound of the model: rows of the table `files`
    NoCookie,    \* a request without the cookie "mgs"
    NoRequest

VARIABLES
    req,        \* the last request handed to a handler
    pc,         \* the call its handler makes next; "idle": it has returned
    who,        \* s->m_user of its session, or the name it logs in with
    result,     \* the rows Select found, as file names or user names
    answer,     \* what the handler has written for it
    failed,     \* history: what failed the handler, "db" or "open"
    folders,    \* users with a folder under MyWebFile/
    files,      \* files in these folders
    rows,       \* how many rows of table files name a user and a file
    unsure      \* history: files whose rows were looked for in vain, the
                \* result being lost, or written by a name that is not plain

handler == <<req, pc, who, result, answer, failed>>
store == <<folders, files, rows, unsure>>
serverVars == <<vars, dbVars, handler, store>>

Paths == Users \X Names

(* Files lie in the folders of users, under plain names. *)
Files == Users \X Plain

(* RegisterHandler: main's table, its first entry for a URL wins. *)
Routes == [root |-> "root", login |-> "login", query |-> "query",
           get_file |-> "getFile", favicon_ico |-> "login"]

(* What a request says of itself that a handler looks at.  A name that is    *)
(* absent from a login reads as the empty string, no user's.               *)
Request ==
    [url : {"root", "query"}, cookie : SessionIds \cup {NoCookie}]
      \cup [url : {"login", "favicon_ico"}, name : Users \cup {NoUser},
            password : {"right", "wrong", "absent"}]
      \cup [url : {"get_file", "file"}, cookie : SessionIds \cup {NoCookie},
            filename : Names]

(* The end of an uploaded part, which calls insertFileToDb. *)
Upload == [url : {"PART_END"}, user : Users, filename : Names]

Answer ==
    [kind : {"none", "400", "403", "404", "login page", "upload page"}]
      \cup [kind : {"redirect"}, cookie : SessionIds]
      \cup [kind : {"list"}, names : SUBSET Names]
      \cup [kind : {"file"}, path : Files]

ASSUME ServerAssumption ==
    /\ NoCookie \notin SessionIds
    /\ NoRequest \notin Request \cup Upload
    /\ Plain \subseteq Names
    /\ MaxRows \in Nat \ {0}

Says(kind) == [kind |-> kind]

Nothing == Says("none")

(* Which handler a request goes to; no route means getFile, then download. *)
HandlerOf(r) ==
    IF r.url \in DOMAIN Routes THEN Routes[r.url] ELSE r.url

(* The object a handler has its handle in. *)
Db == IF HandlerOf(req) = "getFile" THEN "global" ELSE "local"

ServerTypeOK ==
    /\ DbTypeOK
    /\ req \in Request \cup Upload \cup {NoRequest}
    /\ pc \in {"idle", "Connect", "Select", "checked", "CreateSession",
               "createUserFolder", "listed", "Insert"}
    /\ who \in Users \cup {NoUser}
    /\ result \subseteq Users \cup Names
    /\ answer \in Answer
    /\ failed \subseteq {"db", "open"}
    /\ folders \subseteq Users
    /\ files \subseteq Files
    /\ rows \in [Paths -> Nat]
    /\ unsure \subseteq Files

AtRest ==
    /\ req = NoRequest
    /\ pc = "idle"
    /\ who = NoUser
    /\ result = {}
    /\ answer = Nothing
    /\ failed = {}

ServerInit ==
    /\ Init
    /\ DbInit
    /\ AtRest
    /\ folders = {}
    /\ files = {}
    /\ rows = [p \in Paths |-> 0]
    /\ unsure = {}

-----------------------------------------------------------------------------
(* A request comes in *)

Idle == up /\ pc = "idle"

(* CookieSessions::GetSession for a request r: whose it is. *)
Whose(r) == IF r.cookie = NoCookie THEN NoUser ELSE UserOf(r.cookie)

LooksUp(r) == IF r.cookie = NoCookie THEN UNCHANGED vars ELSE GetSession(r.cookie)

Returns(a) == pc' = "idle" /\ answer' = a

Starts(r, next) ==
    /\ req' = r
    /\ pc' = next
    /\ result' = {}
    /\ answer' = Nothing
    /\ failed' = {}
    /\ UNCHANGED dbVars

(* root: the login page to strangers, the upload page to users. *)
Root(r) ==
    /\ Idle
    /\ HandlerOf(r) = "root"
    /\ LooksUp(r)
    /\ req' = r
    /\ who' = Whose(r)
    /\ Returns(Says(IF Whose(r) = NoUser THEN "login page" ELSE "upload page"))
    /\ result' = {}
    /\ failed' = {}
    /\ UNCHANGED <<dbVars, store>>

(* login: refused at once only if the name and the password are both absent. *)
Login(r) ==
    /\ Idle
    /\ HandlerOf(r) = "login"
    /\ who' = r.name
    /\ IF r.name = NoUser /\ r.password = "absent"
       THEN /\ req' = r
            /\ Returns(Says("400"))
            /\ result' = {}
            /\ failed' = {}
            /\ UNCHANGED dbVars
       ELSE Starts(r, "Connect")
    /\ UNCHANGED <<vars, store>>

(* Mutant: the session of a request is kept and used again when the next     *)
(* request brings none.                                                    *)
AskForFilesCached(r) ==
    /\ Idle
    /\ HandlerOf(r) \in {"query", "getFile", "file"}
    /\ LooksUp(r)
    /\ who' = IF Whose(r) = NoUser THEN who ELSE Whose(r)
    /\ Starts(r, "Connect")
    /\ UNCHANGED store

(* query, getFile of main.cpp, and getAllFilesFromDb for any other URL: the  *)
(* session is looked up and not tested.                                    *)
AskForFiles(r) ==
    /\ Idle
    /\ HandlerOf(r) \in {"query", "getFile", "file"}
    /\ LooksUp(r)
    /\ who' = Whose(r)
    /\ Starts(r, "Connect")
    /\ UNCHANGED store

(* Where the path made of a user's folder and a name leads: a name that is    *)
(* not plain is pasted into it like any other.                             *)
Located(u, f) == IF f \in Plain THEN {<<u, f>>} ELSE Files

(* The last part of an upload ends: its file is there, in a folder that is,   *)
(* and insertFileToDb is called with the user of some session.             *)
PartEnds(r) ==
    /\ Idle
    /\ \E id \in SessionIds : UserOf(id) = r.user
    /\ r.user \in folders
    /\ \E p \in Located(r.user, r.filename) :
         p[1] \in folders /\ files' = files \cup {p}
    /\ who' = r.user
    /\ Starts(r, "Connect")
    /\ UNCHANGED <<vars, folders, rows, unsure>>

-----------------------------------------------------------------------------
(* The process *)

AtRestNext ==
    /\ req' = NoRequest
    /\ pc' = "idle"
    /\ who' = NoUser
    /\ result' = {}
    /\ answer' = Nothing
    /\ failed' = {}

(* Memory and connections go, files and rows stay. *)
Dies == Die /\ DbDies /\ AtRestNext /\ UNCHANGED store

ServerKill == up /\ Dies

ServerRestart == Restart /\ UNCHANGED <<dbVars, handler, store>>

ServerTick == Tick /\ UNCHANGED <<dbVars, handler, store>>

(* Somebody removes a file of the folders by hand. *)
FileRemoved ==
    \E p \in files :
        /\ files' = files \ {p}
        /\ UNCHANGED <<vars, dbVars, handler, folders, rows, unsure>>

-----------------------------------------------------------------------------
(* The database *)

At(step) == up /\ pc = step

Connect ==
    /\ At("Connect")
    /\ pc' = "Select"
    /\ \/ Connected(Db) /\ UNCHANGED failed
       \/ ConnectFails(Db) /\ failed' = {"db"}
    /\ UNCHANGED <<vars, req, who, result, answer, store>>

RowsOf(u) == {f \in Names : rows[<<u, f>>] > 0}

(* select * from user where name = ..., or from files where user = ... and,   *)
(* for getFile of main.cpp and insertFileToDb, file_name = ...  A name that  *)
(* is not plain ends its own quotation: the statement is another one, and   *)
(* whatever that finds is taken for the rows asked for.                     *)
Selected ==
    CASE HandlerOf(req) = "login" -> {{who} \ {NoUser}}
      [] HandlerOf(req) \in {"query", "file"} -> {RowsOf(who)}
      [] HandlerOf(req) \in {"getFile", "PART_END"} ->
           IF req.filename \in Plain THEN {RowsOf(who) \cap {req.filename}}
           ELSE SUBSET Names

NullSession == HandlerOf(req) \in {"query", "getFile", "file"} /\ who = NoUser

AfterSelect ==
    CASE HandlerOf(req) = "login" -> "checked"
      [] HandlerOf(req) = "PART_END" -> "Insert"
      [] OTHER -> "listed"

(* The files whose rows this select is to find before an insert. *)
SoughtToInsert ==
    IF HandlerOf(req) = "PART_END" THEN {<<who, req.filename>>} \cap Files ELSE {}

(* Select, its error not looked at by the caller but for one.  A result that  *)
(* mysql_store_result cannot fetch is no error to it: the rows are none and  *)
(* the handle stays as it is.                                              *)
Select ==
    /\ At("Select")
    /\ ~NullSession
    /\ CanQuery(Db)
    /\ pc' = AfterSelect
    /\ \/ result' \in Selected /\ UNCHANGED <<dbVars, failed, unsure>>
       \/ /\ result' = {}
          /\ unsure' = unsure \cup SoughtToInsert
          /\ UNCHANGED <<dbVars, failed>>
       \/ result' = {} /\ ShowsError(Db) /\ failed' = {"db"} /\ UNCHANGED unsure
    /\ UNCHANGED <<vars, req, who, answer, folders, files, rows>>

(* The text of the select is made from s->m_user. *)
SelectNoSession ==
    /\ At("Select")
    /\ NullSession
    /\ Dies

(* A query through the pointer showError left. *)
QueryNoHandle ==
    /\ \/ At("Select") /\ ~NullSession
       \/ At("Insert") /\ result = {}
    /\ m_mysql[Db] = Null
    /\ Dies

-----------------------------------------------------------------------------
(* Login *)

(* Mutant: only a row with another password is refused. *)
CheckPasswordLenient ==
    /\ At("checked")
    /\ Destroyed("local")
    /\ IF req.password = "right" \/ result = {}
       THEN pc' = "CreateSession" /\ UNCHANGED answer
       ELSE Returns(Says("403"))
    /\ UNCHANGED <<vars, req, who, result, failed, store>>

(* The rest of checkPassword: one row has to match. *)
CheckPassword ==
    /\ At("checked")
    /\ Destroyed("local")
    /\ IF who \in result /\ req.password = "right"
       THEN pc' = "CreateSession" /\ UNCHANGED answer
       ELSE Returns(Says("403"))
    /\ UNCHANGED <<vars, req, who, result, failed, store>>

(* CreateSession and the redirect with the cookie. *)
SessionCreated ==
    /\ At("CreateSession")
    /\ \E id \in SessionIds :
         /\ CreateInRoom(id, who) \/ CreatePastEnd(id, who)
         /\ answer' = [kind |-> "redirect", cookie |-> id]
    /\ pc' = "createUserFolder"
    /\ UNCHANGED <<dbVars, req, who, result, failed, store>>

SessionReleasesRaw ==
    /\ At("CreateSession")
    /\ CreateReleasesRaw
    /\ Dies

(* mkdir if there is no folder yet; whether it succeeds is not looked at. *)
CreateUserFolder ==
    /\ At("createUserFolder")
    /\ folders' \in {folders, folders \cup {who}}
    /\ pc' = "idle"
    /\ UNCHANGED <<vars, dbVars, req, who, result, answer, failed, files, rows,
                   unsure>>

-----------------------------------------------------------------------------
(* Lists and files *)

(* The page of query and of getFile: the handle is closed, then it is written. *)
ListFiles ==
    /\ At("listed")
    /\ HandlerOf(req) \in {"query", "getFile"}
    /\ HandlerOf(req) = "getFile" => "db" \notin failed
    /\ IF Db = "local" THEN Destroyed("local") ELSE Closes("global")
    /\ Returns([kind |-> "list", names |-> result])
    /\ UNCHANGED <<vars, req, who, result, failed, store>>

(* Mutant: the error is logged and nothing is answered. *)
GetFileLogs ==
    /\ At("listed")
    /\ HandlerOf(req) = "getFile" /\ "db" \in failed
    /\ Returns(Nothing)
    /\ UNCHANGED <<vars, dbVars, req, who, result, failed, store>>

(* getFile of main.cpp, the select having failed. *)
GetFileRefused ==
    /\ At("listed")
    /\ HandlerOf(req) = "getFile" /\ "db" \in failed
    /\ Returns(Says("404"))
    /\ UNCHANGED <<vars, dbVars, req, who, result, failed, store>>

(* getFile of http_server.cpp and download: the session is looked up once     *)
(* more; a row whose file cannot be opened, because it is gone or for want  *)
(* of a descriptor, gets no answer at all.                                 *)
Download ==
    /\ At("listed")
    /\ HandlerOf(req) = "file"
    /\ Destroyed("local")
    /\ pc' = "idle"
    /\ IF req.filename \in result
       THEN /\ LooksUp(req)
            /\ \E path \in Located(Whose(req), req.filename) :
                 \/ /\ path \in files
                    /\ answer' = [kind |-> "file", path |-> path]
                    /\ UNCHANGED failed
                 \/ path \notin files /\ answer' = Nothing /\ UNCHANGED failed
                 \/ path \in files /\ answer' = Nothing /\ failed' = {"open"}
       ELSE answer' = Says("404") /\ UNCHANGED <<vars, failed>>
    /\ UNCHANGED <<req, who, result, store>>

Written(u, f) == IF f \in Plain THEN {<<u, f>>} ELSE Paths

RowCount == FoldFunction(LAMBDA m, n : m + n, 0, rows)

(* Mutant: the rows the select found are not looked at. *)
InsertUnchecked ==
    /\ At("Insert")
    /\ CanQuery("local")
    /\ \/ \E p \in Written(who, req.filename) :
            /\ RowCount < MaxRows
            /\ rows' = [rows EXCEPT ![p] = @ + 1]
            /\ unsure' = IF req.filename \in Plain THEN unsure ELSE unsure \cup ({p} \cap Files)
       \/ UNCHANGED <<rows, unsure>>
    /\ Destroyed("local")
    /\ pc' = "idle"
    /\ UNCHANGED <<vars, req, who, result, answer, failed, folders, files>>

(* The rest of insertFileToDb: nothing if there is a row, the failure of the  *)
(* insert only logged.  An insert made of a name that is not plain may fail  *)
(* or write any row.                                                       *)
Insert ==
    /\ At("Insert")
    /\ result = {} => CanQuery("local")
    /\ \/ \E p \in Written(who, req.filename) :
            /\ result = {} /\ RowCount < MaxRows
            /\ rows' = [rows EXCEPT ![p] = @ + 1]
            /\ unsure' = IF req.filename \in Plain THEN unsure ELSE unsure \cup ({p} \cap Files)
       \/ UNCHANGED <<rows, unsure>>
    /\ Destroyed("local")
    /\ pc' = "idle"
    /\ UNCHANGED <<vars, req, who, result, answer, failed, folders, files>>

-----------------------------------------------------------------------------

HandlerStep ==
    \/ Connect
    \/ Select
    \/ SelectNoSession
    \/ QueryNoHandle
    \/ CheckPassword
    \/ SessionCreated
    \/ SessionReleasesRaw
    \/ CreateUserFolder
    \/ ListFiles
    \/ GetFileRefused
    \/ Download
    \/ Insert

ServerNext ==
    \/ \E r \in Request : Root(r) \/ Login(r) \/ AskForFiles(r)
    \/ \E r \in Upload : PartEnds(r)
    \/ HandlerStep
    \/ FileRemoved
    \/ ServerTick
    \/ ServerKill
    \/ ServerRestart

ServerSpec == ServerInit /\ [][ServerNext]_serverVars

-----------------------------------------------------------------------------
(* Safety *)

(* Whatever the handlers do to the sessions is what CookieSessions says of    *)
(* them.                                                                   *)
ImplementsSessions == Spec

(* Every way out of a handler gives its connection to the database back:     *)
(* between two requests the server holds none, and during one at most one. *)
ConnectionsReturned ==
    /\ Idle => live = {}
    /\ Cardinality(live) <= 1

(* insertFileToDb selects and then inserts, and the table has no key: still   *)
(* a file of a plain name gets a second row only where the server lost the   *)
(* result of a select about it, and never because a query failed.          *)
RowsOnce == \A p \in Files \ unsure : rows[p] <= 1

(* What a request is shown is of the user its cookie was handed out to: the   *)
(* names of a list, unless the text of the request's own name is no plain    *)
(* name and went into the select, and the file of a download of a plain name. *)
AnswersAreOwn ==
    /\ answer.kind \in {"list", "file"} => req.cookie \in cookies
    /\ answer.kind = "list" /\ (HandlerOf(req) = "getFile" => req.filename \in Plain) =>
         \A f \in answer.names : rows[<<issued[req.cookie], f>>] > 0
    /\ answer.kind = "file" /\ req.filename \in Plain =>
         answer.path = <<issued[req.cookie], req.filename>>

(* A handler that returns leaves its request without an answer only if the    *)
(* file of the row it found is not there or could not be opened: a file of   *)
(* the cookie's user, if its name is plain.                                *)
Unanswered == pc # "idle" /\ pc' = "idle" /\ up' /\ answer' = Nothing

AnsweredUnlessMissing ==
    [][Unanswered /\ req \in Request =>
         /\ HandlerOf(req) = "file"
         /\ "open" \in failed' \/ Located(issued[req.cookie], req.filename) \ files # {}]_serverVars

(* A session is given to who knows the password, whatever the database does   *)
(* and whatever the form leaves out, for names of users that are plain.     *)
SessionsAreEarned ==
    [][\A id \in SessionIds : issued'[id] # issued[id] =>
           /\ req.password = "right"
           /\ req.name = issued'[id]]_serverVars

(* A request for files brings the server down only if its cookie is not one   *)
(* this process has handed out, or more were handed out than it has places. *)
KnownCookiesAreSafe ==
    [][SelectNoSession =>
         req.cookie \notin cookies \/ Cardinality(cookies) > MaxSessions]_serverVars

=============================================================================
