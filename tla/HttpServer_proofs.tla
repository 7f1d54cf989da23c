-------------------------- MODULE HttpServer_proofs --------------------------
(* Theorems about HttpServer, for every set of users, ids, names and handles *)
(* and every table size.  The handlers' steps are steps of CookieSessions,  *)
(* so its theorems hold of the whole server; the rest follows from one      *)
(* invariant that says what a handler knows at each of its calls.          *)
EXTENDS HttpServer, CookieSessions_proofs

FileHandlers == {"query", "getFile", "file"}

(* What a request of each kind brings. *)
LEMMA RequestShape ==
    ASSUME NEW r \in Request
    PROVE  /\ HandlerOf(r) \in {"root", "login", "query", "getFile", "file"}
           /\ HandlerOf(r) \in FileHandlers \cup {"root"} =>
                r.cookie \in SessionIds \cup {NoCookie}
           /\ HandlerOf(r) = "login" =>
                /\ r.name \in Users \cup {NoUser}
                /\ r.password \in {"right", "wrong", "absent"}
           /\ HandlerOf(r) \in {"getFile", "file"} => r.filename \in Names
<1> DEFINE A == [url : {"root", "query"}, cookie : SessionIds \cup {NoCookie}]
           B == [url : {"login", "favicon_ico"}, name : Users \cup {NoUser},
                 password : {"right", "wrong", "absent"}]
           C == [url : {"get_file", "file"}, cookie : SessionIds \cup {NoCookie},
                 filename : Names]
<1>1. DOMAIN Routes = {"root", "login", "query", "get_file", "favicon_ico"}
  BY DEF Routes
<1>2. CASE r \in A
  <2>1. r.url \in {"root", "query"} /\ r.cookie \in SessionIds \cup {NoCookie}
    BY <1>2
  <2>2. HandlerOf(r) = r.url
    BY <1>1, <2>1 DEF HandlerOf, Routes
  <2>. QED BY <2>1, <2>2 DEF FileHandlers
<1>3. CASE r \in B
  <2>1. /\ r.url \in {"login", "favicon_ico"} /\ r.name \in Users \cup {NoUser}
        /\ r.password \in {"right", "wrong", "absent"}
    BY <1>3
  <2>2. HandlerOf(r) = "login"
    BY <1>1, <2>1 DEF HandlerOf, Routes
  <2>. QED BY <2>1, <2>2 DEF FileHandlers
<1>4. CASE r \in C
  <2>1. /\ r.url \in {"get_file", "file"} /\ r.cookie \in SessionIds \cup {NoCookie}
        /\ r.filename \in Names
    BY <1>4
  <2>2. HandlerOf(r) \in {"getFile", "file"}
    BY <1>1, <2>1 DEF HandlerOf, Routes
  <2>. QED BY <2>1, <2>2 DEF FileHandlers
<1>. QED BY <1>2, <1>3, <1>4 DEF Request

LEMMA UploadShape ==
    ASSUME NEW r \in Upload
    PROVE  /\ HandlerOf(r) = "PART_END"
           /\ r.user \in Users /\ r.filename \in Names
<1>1. r.url = "PART_END" /\ r.user \in Users /\ r.filename \in Names
  BY DEF Upload
<1>2. DOMAIN Routes = {"root", "login", "query", "get_file", "favicon_ico"}
  BY DEF Routes
<1>. QED BY <1>1, <1>2 DEF HandlerOf

(* A request that is looked up is a lookup of CookieSessions, or nothing. *)
LEMMA LooksUpStep ==
    ASSUME NEW r, r.cookie \in SessionIds \cup {NoCookie}, LooksUp(r)
    PROVE  [Next]_vars
BY DEF LooksUp, Next

(* The end of the process, whatever the reason, is Kill. *)
LEMMA DiesStep == up /\ Dies => Next
BY DEF Dies, Kill, Next

-----------------------------------------------------------------------------
(* What a handler knows *)

(* Whose turn it is at each call, and that nothing is left of a request when  *)
(* the process has ended.                                                  *)
PcFits ==
    /\ pc # "idle" => req \in Request \cup Upload
    /\ pc \in {"checked", "CreateSession", "createUserFolder"} =>
         HandlerOf(req) = "login"
    /\ pc = "listed" => HandlerOf(req) \in FileHandlers
    /\ pc = "Insert" => HandlerOf(req) = "PART_END"
    /\ pc # "idle" => HandlerOf(req) # "root"
    /\ ~up => AtRest /\ live = {}

(* The one live handle is that of the object the handler uses, and a failed   *)
(* call has closed it.                                                     *)
HandleFits ==
    /\ PointersLive
    /\ \/ live = {}
       \/ /\ pc \in {"Select", "checked", "listed", "Insert"}
          /\ live = {m_mysql[Db]}
          /\ \A o \in Objects \ {Db} : m_mysql[o] \in {Null, Unset}
    /\ failed # {} => live = {}
    /\ pc = "Connect" => failed = {}

(* A login goes on for the name it came with, and past checkPassword only     *)
(* with the right password.                                                *)
LoginKnows ==
    pc # "idle" /\ HandlerOf(req) = "login" =>
        /\ who = req.name
        /\ pc = "checked" => result \subseteq {who} \ {NoUser}
        /\ pc \in {"CreateSession", "createUserFolder"} =>
             who \in Users /\ req.password = "right"
        /\ pc = "createUserFolder" => answer # Nothing

(* insertFileToDb inserts a plain name where it has seen that there is no     *)
(* row, or has lost what it was to see.                                     *)
InsertKnows ==
    pc # "idle" /\ HandlerOf(req) = "PART_END" =>
        /\ who \in Users /\ req.filename \in Names
        /\ answer = Nothing
        /\ pc = "Insert" /\ result = {} /\ live # {} /\ req.filename \in Plain =>
             <<who, req.filename>> \in unsure \/ rows[<<who, req.filename>>] = 0

(* A list is made for the user the cookie was handed out to; a cookie of this *)
(* process without a session means that the table is full.                 *)
ListKnows ==
    pc # "idle" /\ HandlerOf(req) \in FileHandlers =>
        /\ req.cookie \in SessionIds \cup {NoCookie}
        /\ \A id \in SessionIds : req.cookie = id => UserOf(id) = who
        /\ who # NoUser => req.cookie \in cookies /\ issued[req.cookie] = who
        /\ who = NoUser /\ req.cookie \in cookies =>
             Cardinality(cookies) > MaxSessions
        /\ pc = "listed" =>
             /\ who # NoUser
             /\ result \subseteq Names
             /\ (HandlerOf(req) = "getFile" => req.filename \in Plain) =>
                  \A f \in result : rows[<<who, f>>] > 0

ServerInv ==
    /\ ServerTypeOK
    /\ PcFits
    /\ HandleFits
    /\ LoginKnows
    /\ InsertKnows
    /\ ListKnows
    /\ RowsOnce
    /\ AnswersAreOwn

-----------------------------------------------------------------------------
(* The server's steps are steps of the session table *)

LEMMA SessionsStep ==
    ASSUME ServerTypeOK, PcFits, LoginKnows, [ServerNext]_serverVars
    PROVE  [Next]_vars
<1>1. ASSUME NEW r \in Request, Root(r) \/ AskForFiles(r)
      PROVE  [Next]_vars
  BY <1>1, RequestShape, LooksUpStep DEF Root, AskForFiles, FileHandlers
<1>2. ASSUME Dies, up
      PROVE  [Next]_vars
  BY <1>2, DiesStep
<1>3. CASE SessionCreated
  BY <1>3 DEF SessionCreated, At, Next, PcFits, LoginKnows
<1>4. CASE Download
  <2>1. req \in Request \/ req \in Upload
    BY <1>4 DEF Download, At, PcFits
  <2>2. req \in Request
    BY <1>4, <2>1, UploadShape DEF Download
  <2>. QED BY <1>4, <2>2, RequestShape, LooksUpStep DEF Download, FileHandlers
<1>5. CASE SessionReleasesRaw
  BY <1>5 DEF SessionReleasesRaw, Next
<1>6. CASE SelectNoSession \/ QueryNoHandle \/ ServerKill
  BY <1>6, <1>2 DEF SelectNoSession, QueryNoHandle, ServerKill, At
<1>7. CASE ServerTick \/ ServerRestart
  BY <1>7 DEF ServerTick, ServerRestart, Next
<1>8. CASE UNCHANGED serverVars
  BY <1>8 DEF serverVars
<1>. QED
  BY <1>1, <1>3, <1>4, <1>5, <1>6, <1>7, <1>8
     DEF ServerNext, HandlerStep, Login, PartEnds, FileRemoved, Connect, Select,
         CheckPassword, CreateUserFolder, ListFiles, GetFileRefused, Insert

-----------------------------------------------------------------------------
(* The invariant, step by step *)

(* A lookup leaves to each session its place and its user, and the cookies    *)
(* as they are.                                                            *)
LEMMA LooksUpEffect ==
    ASSUME IInv, NEW r, r.cookie \in SessionIds \cup {NoCookie}, LooksUp(r)
    PROVE  /\ DOMAIN m_session_list' = DOMAIN m_session_list
           /\ \A i \in DOMAIN m_session_list :
                m_session_list'[i].m_user = m_session_list[i].m_user
           /\ UNCHANGED <<up, cookies, issued>>
           /\ \A id : UserOf(id)' = UserOf(id)
<1>1. CASE r.cookie = NoCookie
  BY <1>1, SameTable DEF LooksUp, vars
<1>2. CASE r.cookie # NoCookie
  <2>1. r.cookie \in SessionIds /\ GetSession(r.cookie)
    BY <1>2 DEF LooksUp
  <2>2. /\ m_session_list' \in Seq(Session) /\ m_session_list \in Seq(Session)
        /\ Len(m_session_list') = Len(m_session_list)
        /\ \A i \in DOMAIN m_session_list : SessionKept(i)
    BY <2>1, GetSessionEffect DEF IInv, TypeOK
  <2>3. DOMAIN m_session_list' = DOMAIN m_session_list
    BY <2>2
  <2>. QED BY <2>1, <2>2, <2>3, SameMeaning DEF SessionKept, GetSession
<1>. QED BY <1>1, <1>2

(* Whose a request is: a user of Users, the one its cookie was handed out to, *)
(* and nobody if this process never handed it out.                         *)
LEMMA WhoseIsKnown ==
    ASSUME IInv, NEW r, r.cookie \in SessionIds \cup {NoCookie}
    PROVE  /\ Whose(r) \in Users \cup {NoUser}
           /\ Whose(r) # NoUser =>
                r.cookie \in cookies /\ issued[r.cookie] = Whose(r)
           /\ Whose(r) = NoUser /\ r.cookie \in cookies =>
                Cardinality(cookies) > MaxSessions
<1>1. CASE r.cookie = NoCookie
  BY <1>1, ServerAssumption, SessionsAssumption DEF Whose, IInv, TypeOK
<1>2. CASE r.cookie # NoCookie
  <2> DEFINE id == r.cookie
  <2>1. id \in SessionIds /\ Whose(r) = UserOf(id)
    BY <1>2 DEF Whose
  <2>2. CASE Matching(id) = {}
    <3>1. \A i \in DOMAIN m_session_list : m_session_list[i].m_id # id
      BY <2>2 DEF Matching
    <3>2. id \in cookies => Cardinality(cookies) > MaxSessions
      BY <3>1 DEF IInv, Counted, Recorded
    <3>. QED BY <2>1, <2>2, <3>2 DEF UserOf
  <2>3. CASE Matching(id) # {}
    <3> DEFINE k == FirstMatch(id)
    <3>1. k \in DOMAIN m_session_list /\ m_session_list[k].m_id = id
      BY <2>3, FirstMatchMatches DEF IInv
    <3>2. m_session_list[k] \in Session
      BY <3>1 DEF IInv, TypeOK
    <3>. QED BY <2>1, <2>3, <3>1, <3>2, SessionsAssumption
             DEF UserOf, IInv, Attributed, Session
  <2>. QED BY <2>2, <2>3
<1>. QED BY <1>1, <1>2

(* The pointers of a process that has not connected yet. *)
LEMMA RestHandles ==
    [global |-> Null, local |-> Unset] \in [Objects -> Handles \cup {Null, Unset}]
BY DEF Objects

LEMMA InitServerInv == ServerInit => ServerInv
<1>. SUFFICES ASSUME ServerInit PROVE ServerInv
  OBVIOUS
<1>. USE DEF ServerInit, AtRest, DbInit, Init
<1>1. Nothing \in Answer /\ Nothing.kind = "none"
  BY DEF Nothing, Says, Answer
<1>2. ServerTypeOK
  BY <1>1, RestHandles DEF ServerTypeOK, DbTypeOK
<1>3. HandleFits
  BY DEF HandleFits, PointersLive, Objects
<1>4. PcFits
  BY DEF PcFits
<1>5. LoginKnows /\ InsertKnows /\ ListKnows
  BY DEF LoginKnows, InsertKnows, ListKnows
<1>6. RowsOnce /\ AnswersAreOwn
  BY <1>1, ServerAssumption DEF RowsOnce, AnswersAreOwn, Files, Paths
<1>. QED BY <1>2, <1>3, <1>4, <1>5, <1>6 DEF ServerInv

(* The process ends. *)
LEMMA DiesInv ==
    ASSUME ServerInv, Dies
    PROVE  ServerInv'
<1>. USE DEF Dies, Die, DbDies, AtRestNext
<1>1. Nothing \in Answer /\ Nothing.kind = "none"
  BY DEF Nothing, Says, Answer
<1>2. ServerTypeOK'
  BY <1>1, RestHandles DEF ServerInv, ServerTypeOK, DbTypeOK, store
<1>3. HandleFits'
  BY DEF HandleFits, PointersLive, Objects
<1>4. PcFits'
  BY DEF PcFits, AtRest
<1>5. LoginKnows' /\ InsertKnows' /\ ListKnows'
  BY DEF LoginKnows, InsertKnows, ListKnows
<1>6. RowsOnce' /\ AnswersAreOwn'
  BY <1>1 DEF ServerInv, RowsOnce, AnswersAreOwn, store
<1>. QED BY <1>2, <1>3, <1>4, <1>5, <1>6 DEF ServerInv

(* The clock, a restart, and files that go away. *)
LEMMA QuietInv ==
    ASSUME ServerInv, ServerTick \/ ServerRestart \/ FileRemoved \/ UNCHANGED serverVars
    PROVE  ServerInv'
<1>. USE DEF ServerInv
<1>1. /\ UNCHANGED <<dbVars, handler, folders, rows, unsure>>
      /\ UNCHANGED <<m_session_list, cookies, issued>>
      /\ files' \subseteq files
      /\ \A id : UserOf(id)' = UserOf(id)
      /\ ~up' => ~up
      /\ up \/ AtRest
  BY SameTable
     DEF ServerTick, Tick, ServerRestart, Restart, FileRemoved, store, vars,
         serverVars, PcFits
<1>. HIDE DEF ServerInv
<1>2. /\ UNCHANGED <<m_mysql, live, req, pc, who, result, answer, failed>>
      /\ UNCHANGED <<folders, rows, unsure>>
  BY <1>1 DEF dbVars, handler
<1>3. ServerTypeOK'
  BY <1>1, <1>2 DEF ServerInv, ServerTypeOK, DbTypeOK
<1>4. PcFits'
  BY <1>1, <1>2 DEF ServerInv, PcFits, AtRest
<1>5. HandleFits'
  BY <1>2 DEF ServerInv, HandleFits, PointersLive, Db
<1>6. LoginKnows' /\ InsertKnows' /\ ListKnows'
  BY <1>1, <1>2 DEF ServerInv, LoginKnows, InsertKnows, ListKnows
<1>7. RowsOnce' /\ AnswersAreOwn'
  BY <1>1, <1>2 DEF ServerInv, RowsOnce, AnswersAreOwn
<1>. QED BY <1>3, <1>4, <1>5, <1>6, <1>7 DEF ServerInv

(* An answer that names no file. *)
LEMMA SaysAnswers ==
    ASSUME NEW k \in {"400", "403", "404", "login page", "upload page"}
    PROVE  /\ Says(k) \in Answer /\ Says(k) # Nothing
           /\ Says(k).kind \notin {"list", "file"}
<1>1. Says(k).kind = k /\ Nothing.kind = "none"
  BY DEF Says, Nothing
<1>2. Says(k) \in Answer
  BY DEF Says, Answer
<1>. QED BY <1>1, <1>2

(* root, which ends at once. *)
LEMMA RootInv ==
    ASSUME IInv, ServerInv, NEW r \in Request, Root(r)
    PROVE  ServerInv'
<1>1. /\ up /\ pc = "idle" /\ pc' = "idle" /\ req' = r /\ who' = Whose(r)
      /\ result' = {} /\ failed' = {}
      /\ answer' \in {Says("login page"), Says("upload page")}
      /\ UNCHANGED <<m_mysql, live, folders, files, rows, unsure>>
      /\ HandlerOf(r) = "root" /\ LooksUp(r)
  BY DEF Root, Idle, Returns, dbVars, store
<1>2. r.cookie \in SessionIds \cup {NoCookie}
  BY <1>1, RequestShape
<1>3. who' \in Users \cup {NoUser}
  BY <1>1, <1>2, WhoseIsKnown
<1>4. /\ answer' \in Answer /\ answer' # Nothing
      /\ answer'.kind \notin {"list", "file"}
  BY <1>1, SaysAnswers
<1>5. /\ DOMAIN m_session_list' = DOMAIN m_session_list
      /\ \A i \in DOMAIN m_session_list :
           m_session_list'[i].m_user = m_session_list[i].m_user
      /\ UNCHANGED <<up, cookies, issued>>
  BY <1>1, <1>2, LooksUpEffect
<1>6. ServerTypeOK'
  BY <1>1, <1>3, <1>4 DEF ServerInv, ServerTypeOK, DbTypeOK
<1>7. HandleFits'
  BY <1>1 DEF ServerInv, HandleFits, PointersLive
<1>8. PcFits' /\ LoginKnows' /\ InsertKnows' /\ ListKnows'
  BY <1>1, <1>5 DEF PcFits, LoginKnows, InsertKnows, ListKnows
<1>9. RowsOnce' /\ AnswersAreOwn'
  BY <1>1, <1>4, <1>5
     DEF ServerInv, RowsOnce, AnswersAreOwn
<1>. QED BY <1>6, <1>7, <1>8, <1>9 DEF ServerInv

(* A handler that goes on to the database. *)
LEMMA StartsInv ==
    ASSUME IInv, ServerInv, NEW r \in Request \cup Upload, Idle, Starts(r, "Connect"),
           UNCHANGED <<folders, rows, unsure, cookies, issued, up>>,
           files' \in SUBSET Files,
           DOMAIN m_session_list' = DOMAIN m_session_list,
           \A i \in DOMAIN m_session_list :
               m_session_list'[i].m_user = m_session_list[i].m_user,
           \A id : UserOf(id)' = UserOf(id),
           who' \in Users \cup {NoUser},
           HandlerOf(r) # "root",
           HandlerOf(r) = "login" => who' = r.name,
           HandlerOf(r) = "PART_END" => who' \in Users /\ r.filename \in Names,
           HandlerOf(r) \in FileHandlers =>
               /\ r.cookie \in SessionIds \cup {NoCookie}
               /\ \A id \in SessionIds : r.cookie = id => UserOf(id) = who'
               /\ who' # NoUser => r.cookie \in cookies /\ issued[r.cookie] = who'
               /\ who' = NoUser /\ r.cookie \in cookies =>
                    Cardinality(cookies) > MaxSessions
    PROVE  ServerInv'
<1>1. /\ up /\ pc = "idle" /\ pc' = "Connect" /\ req' = r /\ result' = {}
      /\ answer' = Nothing /\ failed' = {} /\ UNCHANGED <<m_mysql, live>>
  BY DEF Idle, Starts, dbVars
<1>2. Nothing \in Answer /\ Nothing.kind = "none"
  BY DEF Nothing, Says, Answer
<1>3. ServerTypeOK'
  BY <1>1, <1>2 DEF ServerInv, ServerTypeOK, DbTypeOK
<1>4. PcFits'
  BY <1>1 DEF PcFits
<1>5. HandleFits'
  BY <1>1 DEF ServerInv, HandleFits, PointersLive
<1>6. LoginKnows'
  BY <1>1 DEF LoginKnows
<1>7. InsertKnows'
  BY <1>1 DEF InsertKnows
<1>8. ListKnows'
  BY <1>1 DEF ListKnows
<1>9. RowsOnce'
  BY <1>1 DEF ServerInv, RowsOnce
<1>10. AnswersAreOwn'
  BY <1>1, <1>2 DEF AnswersAreOwn, Idle
<1>. QED BY <1>3, <1>4, <1>5, <1>6, <1>7, <1>8, <1>9, <1>10 DEF ServerInv

LEMMA LoginInv ==
    ASSUME IInv, ServerInv, NEW r \in Request, Login(r)
    PROVE  ServerInv'
<1>1. /\ up /\ pc = "idle" /\ HandlerOf(r) = "login" /\ who' = r.name
      /\ r.name \in Users \cup {NoUser}
      /\ UNCHANGED <<up, m_session_list, cookies, issued, folders, files, rows, unsure>>
      /\ \A id : UserOf(id)' = UserOf(id)
  BY RequestShape, SameTable DEF Login, Idle, vars, store
<1>2. CASE r.name = NoUser /\ r.password = "absent"
  <2>1. /\ pc' = "idle" /\ req' = r /\ result' = {} /\ failed' = {}
        /\ answer' = Says("400") /\ UNCHANGED <<m_mysql, live>>
    BY <1>2 DEF Login, Returns, dbVars
  <2>2. /\ answer' \in Answer /\ answer' # Nothing
        /\ answer'.kind \notin {"list", "file"}
    BY <2>1, SaysAnswers
  <2>3. ServerTypeOK'
    BY <1>1, <2>1, <2>2 DEF ServerInv, ServerTypeOK, DbTypeOK
  <2>4. HandleFits'
    BY <1>1, <2>1 DEF ServerInv, HandleFits, PointersLive
  <2>5. PcFits' /\ LoginKnows' /\ InsertKnows' /\ ListKnows'
    BY <1>1, <2>1 DEF PcFits, LoginKnows, InsertKnows, ListKnows
  <2>6. RowsOnce' /\ AnswersAreOwn'
    BY <1>1, <2>1, <2>2
       DEF ServerInv, RowsOnce, AnswersAreOwn
  <2>. QED BY <2>3, <2>4, <2>5, <2>6 DEF ServerInv
<1>3. CASE ~(r.name = NoUser /\ r.password = "absent")
  <2>1. Starts(r, "Connect") /\ Idle
    BY <1>3 DEF Login
  <2>2. files' \in SUBSET Files
    BY <1>1 DEF ServerInv, ServerTypeOK
  <2>. QED BY <1>1, <2>1, <2>2, StartsInv DEF FileHandlers
<1>. QED BY <1>2, <1>3

LEMMA AskForFilesInv ==
    ASSUME IInv, ServerInv, NEW r \in Request, AskForFiles(r)
    PROVE  ServerInv'
<1>1. /\ Idle /\ HandlerOf(r) \in FileHandlers /\ LooksUp(r) /\ who' = Whose(r)
      /\ Starts(r, "Connect") /\ UNCHANGED <<folders, files, rows, unsure>>
  BY DEF AskForFiles, FileHandlers, store
<1>2. r.cookie \in SessionIds \cup {NoCookie}
  BY <1>1, RequestShape
<1>3. /\ DOMAIN m_session_list' = DOMAIN m_session_list
      /\ \A i \in DOMAIN m_session_list :
           m_session_list'[i].m_user = m_session_list[i].m_user
      /\ UNCHANGED <<up, cookies, issued>>
      /\ \A id : UserOf(id)' = UserOf(id)
  BY <1>1, <1>2, LooksUpEffect
<1>4. /\ Whose(r) \in Users \cup {NoUser}
      /\ Whose(r) # NoUser =>
           r.cookie \in cookies /\ issued[r.cookie] = Whose(r)
      /\ Whose(r) = NoUser /\ r.cookie \in cookies =>
           Cardinality(cookies) > MaxSessions
      /\ \A id \in SessionIds : r.cookie = id => UserOf(id) = Whose(r)
  BY <1>2, WhoseIsKnown, ServerAssumption DEF Whose
<1>5. files' \in SUBSET Files
  BY <1>1 DEF ServerInv, ServerTypeOK
<1>6. HandlerOf(r) \notin {"root", "login", "PART_END"}
  BY <1>1 DEF FileHandlers
<1>. QED BY <1>1, <1>2, <1>3, <1>4, <1>5, <1>6, StartsInv

(* A path leads to a file, that of its user and its name if that is plain. *)
LEMMA LocatedFiles ==
    ASSUME NEW u \in Users, NEW f \in Names
    PROVE  /\ Located(u, f) \subseteq Files
           /\ f \in Plain => Located(u, f) = {<<u, f>>}
BY DEF Located, Files

LEMMA PartEndsInv ==
    ASSUME IInv, ServerInv, NEW r \in Upload, PartEnds(r)
    PROVE  ServerInv'
<1>1. /\ HandlerOf(r) = "PART_END" /\ r.user \in Users /\ r.filename \in Names
  BY UploadShape
<1>2. /\ Idle /\ Starts(r, "Connect") /\ who' = r.user
      /\ \E p \in Located(r.user, r.filename) : files' = files \cup {p}
      /\ UNCHANGED <<up, m_session_list, cookies, issued, folders, rows, unsure>>
      /\ \A id : UserOf(id)' = UserOf(id)
  BY SameTable DEF PartEnds, vars
<1>3. files' \in SUBSET Files
  BY <1>1, <1>2, LocatedFiles DEF ServerInv, ServerTypeOK
<1>. QED BY <1>1, <1>2, <1>3, StartsInv DEF FileHandlers

(* Connect, and what it does to the handler's pointer. *)
LEMMA ConnectInv ==
    ASSUME ServerInv, Connect
    PROVE  ServerInv'
<1>1. /\ up /\ pc = "Connect" /\ pc' = "Select"
      /\ UNCHANGED <<up, m_session_list, cookies, issued>>
      /\ UNCHANGED <<req, who, result, answer, folders, files, rows, unsure>>
      /\ \/ Connected(Db) /\ UNCHANGED failed
         \/ ConnectFails(Db) /\ failed' = {"db"}
      /\ \A id : UserOf(id)' = UserOf(id)
  BY SameTable DEF Connect, At, vars, store
<1>2. live = {} /\ failed = {} /\ Db \in Objects /\ Db' = Db
      /\ m_mysql \in [Objects -> Handles \cup {Null, Unset}]
      /\ \A o \in Objects : m_mysql[o] \in {Null, Unset}
  BY <1>1 DEF ServerInv, HandleFits, PointersLive, Db, Objects, ServerTypeOK, DbTypeOK
<1>3. /\ m_mysql' \in [Objects -> Handles \cup {Null, Unset}]
      /\ live' \subseteq Handles
      /\ HandleFits'
  <2> DEFINE Goal == /\ m_mysql' \in [Objects -> Handles \cup {Null, Unset}]
                     /\ live' \subseteq Handles
                     /\ HandleFits'
  <2>1. ASSUME NEW h \in Handles, Set(Db, h), live' = live \cup {h}, failed' = {}
        PROVE  Goal
    <3>1. m_mysql' = [m_mysql EXCEPT ![Db] = h] /\ live' = {h}
      BY <1>2, <2>1 DEF Set
    <3>2. \A o \in Objects : m_mysql'[o] \in {h, Null, Unset}
      BY <1>2, <3>1
    <3>3. m_mysql'[Db] = h
      BY <1>2, <3>1
    <3>. QED BY <1>1, <1>2, <2>1, <3>1, <3>2, <3>3 DEF HandleFits, PointersLive
  <2>2. CASE ConnectFails(Db)
    <3>1. m_mysql' = [m_mysql EXCEPT ![Db] = Null] /\ live' = {}
      BY <1>2, <2>2 DEF ConnectFails, Set
    <3>2. \A o \in Objects : m_mysql'[o] \in {Null, Unset}
      BY <1>2, <3>1
    <3>. QED BY <1>1, <1>2, <3>1, <3>2 DEF HandleFits, PointersLive
  <2>. QED BY <1>1, <1>2, <2>1, <2>2 DEF Connected
<1>4. ServerTypeOK'
  BY <1>1, <1>3 DEF ServerInv, ServerTypeOK, DbTypeOK
<1>5. PcFits' /\ LoginKnows' /\ InsertKnows' /\ ListKnows'
  BY <1>1 DEF ServerInv, PcFits, LoginKnows, InsertKnows, ListKnows
<1>6. RowsOnce' /\ AnswersAreOwn'
  BY <1>1 DEF ServerInv, RowsOnce, AnswersAreOwn
<1>. QED BY <1>3, <1>4, <1>5, <1>6 DEF ServerInv

(* Whatever ends the use of the handler's object leaves no handle behind. *)
LEMMA GivenBack ==
    ASSUME ServerInv, NEW x \in {Null, Unset},
           live' = live \ {m_mysql[Db]}, m_mysql' = [m_mysql EXCEPT ![Db] = x],
           pc' # "Connect"
    PROVE  /\ m_mysql' \in [Objects -> Handles \cup {Null, Unset}]
           /\ live' = {}
           /\ HandleFits'
<1>1. /\ Db \in Objects /\ m_mysql \in [Objects -> Handles \cup {Null, Unset}]
  BY DEF ServerInv, ServerTypeOK, DbTypeOK, Db, Objects
<1>2. live' = {}
  BY DEF ServerInv, HandleFits
<1>3. \A o \in Objects \ {Db} : m_mysql[o] \in {Null, Unset}
  BY DEF ServerInv, HandleFits, PointersLive
<1>4. m_mysql'[Db] = x /\ \A o \in Objects \ {Db} : m_mysql'[o] = m_mysql[o]
  BY <1>1
<1>5. \A o \in Objects : m_mysql'[o] \in {Null, Unset}
  BY <1>3, <1>4
<1>. QED BY <1>1, <1>2, <1>5 DEF HandleFits, PointersLive

LEMMA SelectInv ==
    ASSUME ServerInv, Select
    PROVE  ServerInv'
<1>1. /\ up /\ pc = "Select" /\ pc' = AfterSelect
      /\ UNCHANGED <<up, m_session_list, cookies, issued>>
      /\ UNCHANGED <<req, who, answer, folders, files, rows>>
      /\ ~NullSession /\ m_mysql[Db] \in live
      /\ \A id : UserOf(id)' = UserOf(id)
  BY SameTable DEF Select, At, vars, store, CanQuery
<1>2. /\ req \in Request \cup Upload /\ who \in Users \cup {NoUser}
      /\ Db' = Db /\ HandlerOf(req)' = HandlerOf(req)
  BY <1>1 DEF ServerInv, PcFits, ServerTypeOK, Db
<1>3. /\ HandlerOf(req) \in FileHandlers \cup {"login", "PART_END"}
      /\ HandlerOf(req) \in {"getFile", "PART_END"} => req.filename \in Names
  BY <1>1, <1>2, RequestShape, UploadShape DEF ServerInv, PcFits, FileHandlers
<1>4. /\ HandlerOf(req) = "login" => pc' = "checked"
      /\ HandlerOf(req) = "PART_END" => pc' = "Insert"
      /\ HandlerOf(req) \in FileHandlers => pc' = "listed"
  BY <1>1, <1>3 DEF AfterSelect, FileHandlers
<1>5. /\ m_mysql' \in [Objects -> Handles \cup {Null, Unset}]
      /\ live' \subseteq Handles
      /\ HandleFits'
      /\ failed' \subseteq {"db", "open"}
      /\ unsure' \subseteq Files /\ unsure \subseteq unsure'
      /\ \/ result' \in Selected
         \/ /\ result' = {}
            /\ live' # {} => SoughtToInsert \subseteq unsure'
  <2>1. CASE UNCHANGED <<dbVars, failed>>
    <3>1. /\ m_mysql' \in [Objects -> Handles \cup {Null, Unset}]
          /\ live' \subseteq Handles /\ HandleFits' /\ failed' \subseteq {"db", "open"}
      BY <1>1, <1>2, <1>3, <1>4, <2>1
         DEF ServerInv, ServerTypeOK, DbTypeOK, HandleFits, PointersLive, dbVars
    <3>2. unsure \subseteq Files /\ SoughtToInsert \subseteq Files
      BY DEF ServerInv, ServerTypeOK, SoughtToInsert
    <3>3. /\ unsure' \subseteq Files /\ unsure \subseteq unsure'
          /\ \/ result' \in Selected
             \/ result' = {} /\ SoughtToInsert \subseteq unsure'
      <4>1. CASE result' \in Selected /\ UNCHANGED unsure
        BY <3>2, <4>1
      <4>2. CASE result' = {} /\ unsure' = unsure \cup SoughtToInsert
        BY <3>2, <4>2
      <4>3. CASE ShowsError(Db)
        BY <1>1, <2>1, <4>3 DEF ShowsError, dbVars
      <4>. QED BY <4>1, <4>2, <4>3 DEF Select
    <3>. QED BY <3>1, <3>3
  <2>2. CASE result' = {} /\ ShowsError(Db) /\ failed' = {"db"} /\ UNCHANGED unsure
    <3>1. /\ live' = live \ {m_mysql[Db]} /\ m_mysql' = [m_mysql EXCEPT ![Db] = Null]
          /\ pc' # "Connect"
      BY <1>3, <1>4, <2>2 DEF ShowsError, Set
    <3>2. unsure \subseteq Files
      BY DEF ServerInv, ServerTypeOK
    <3>. QED BY <2>2, <3>1, <3>2, GivenBack
  <2>. QED BY <2>1, <2>2 DEF Select
<1>6. /\ HandlerOf(req) = "login" => result' \subseteq {who} \ {NoUser}
      /\ HandlerOf(req) \in FileHandlers \cup {"PART_END"} => result' \subseteq Names
      /\ HandlerOf(req) \in FileHandlers /\ (HandlerOf(req) = "getFile" => req.filename \in Plain)
           => result' \subseteq RowsOf(who)
      /\ HandlerOf(req) = "PART_END" /\ req.filename \in Plain /\ result' = {} /\ live' # {} =>
           req.filename \notin RowsOf(who) \/ SoughtToInsert \subseteq unsure'
  <2>1. CASE result' \in Selected
    BY <1>3, <2>1 DEF Selected, FileHandlers, RowsOf
  <2>2. CASE result' = {} /\ (live' # {} => SoughtToInsert \subseteq unsure')
    BY <2>2
  <2>. QED BY <1>5, <2>1, <2>2
<1>7. result' \subseteq Users \cup Names
  BY <1>2, <1>3, <1>6 DEF FileHandlers
<1>8. ServerTypeOK'
  <2>2. pc' \in {"checked", "Insert", "listed"}
    BY <1>3, <1>4
  <2>. QED BY <1>1, <1>5, <1>7, <2>2 DEF ServerInv, ServerTypeOK, DbTypeOK
<1>9. PcFits'
  BY <1>1, <1>2, <1>3, <1>4 DEF ServerInv, PcFits, FileHandlers
<1>10. LoginKnows'
  BY <1>1, <1>2, <1>4, <1>5, <1>6 DEF ServerInv, LoginKnows
<1>11. InsertKnows'
  <2>. SUFFICES ASSUME HandlerOf(req) = "PART_END"
                PROVE  InsertKnows'
    BY <1>2 DEF InsertKnows
  <2>1. who \in Users /\ req.filename \in Names /\ answer = Nothing
    BY <1>1 DEF ServerInv, InsertKnows
  <2>2. rows[<<who, req.filename>>] \in Nat
    BY <2>1 DEF ServerInv, ServerTypeOK, Paths
  <2>3. result' = {} /\ live' # {} /\ req.filename \in Plain =>
          <<who, req.filename>> \in unsure' \/ rows[<<who, req.filename>>] = 0
    BY <1>6, <2>1, <2>2 DEF RowsOf, SoughtToInsert, Files
  <2>. QED BY <1>1, <1>2, <2>1, <2>3 DEF InsertKnows
<1>12. ListKnows'
  <2>. SUFFICES ASSUME HandlerOf(req) \in FileHandlers
                PROVE  ListKnows'
    BY <1>2 DEF ListKnows
  <2>1. who # NoUser
    BY <1>1 DEF NullSession, FileHandlers
  <2>2. /\ result' \subseteq Names
        /\ (HandlerOf(req) = "getFile" => req.filename \in Plain) =>
             \A f \in result' : rows[<<who, f>>] > 0
    BY <1>6 DEF RowsOf
  <2>. QED BY <1>1, <1>2, <2>1, <2>2 DEF ServerInv, ListKnows
<1>13. RowsOnce' /\ AnswersAreOwn'
  BY <1>1, <1>2, <1>5 DEF ServerInv, RowsOnce, AnswersAreOwn
<1>. QED BY <1>5, <1>8, <1>9, <1>10, <1>11, <1>12, <1>13 DEF ServerInv

LEMMA CheckPasswordInv ==
    ASSUME ServerInv, CheckPassword
    PROVE  ServerInv'
<1>1. /\ up /\ pc = "checked" /\ HandlerOf(req) = "login" /\ Db = "local"
      /\ UNCHANGED <<up, m_session_list, cookies, issued>>
      /\ UNCHANGED <<req, who, result, failed, folders, files, rows, unsure>>
      /\ who = req.name /\ result \subseteq {who} \ {NoUser}
      /\ who \in Users \cup {NoUser}
  BY DEF CheckPassword, At, vars, store, ServerInv, PcFits, Db, LoginKnows, ServerTypeOK
<1>2. HandlerOf(req)' = HandlerOf(req) /\ Destroyed("local")
  BY <1>1 DEF CheckPassword
<1>3. \/ /\ pc' = "CreateSession" /\ answer' = answer
         /\ who \in Users /\ req.password = "right"
      \/ /\ pc' = "idle" /\ answer' = Says("403")
  BY <1>1 DEF CheckPassword, Returns
<1>4. /\ m_mysql' \in [Objects -> Handles \cup {Null, Unset}]
      /\ live' = {}
      /\ HandleFits'
  <2>1. /\ live' = live \ {m_mysql[Db]} /\ m_mysql' = [m_mysql EXCEPT ![Db] = Unset]
        /\ pc' # "Connect"
    BY <1>1, <1>2, <1>3 DEF Destroyed, Set
  <2>. QED BY <2>1, GivenBack
<1>5. /\ answer' \in Answer
      /\ \/ answer' = answer
         \/ answer'.kind \notin {"list", "file"}
  <2>1. answer \in Answer
    BY DEF ServerInv, ServerTypeOK
  <2>. QED BY <1>3, <2>1, SaysAnswers
<1>6. ServerTypeOK'
  BY <1>1, <1>3, <1>4, <1>5 DEF ServerInv, ServerTypeOK, DbTypeOK
<1>7. PcFits' /\ LoginKnows' /\ InsertKnows' /\ ListKnows'
  BY <1>1, <1>2, <1>3
     DEF ServerInv, PcFits, LoginKnows, InsertKnows, ListKnows, FileHandlers
<1>8. RowsOnce' /\ AnswersAreOwn'
  BY <1>1, <1>5 DEF ServerInv, RowsOnce, AnswersAreOwn
<1>. QED BY <1>4, <1>6, <1>7, <1>8 DEF ServerInv

(* CreateSession: the one new session is of the user who logs in. *)
LEMMA SessionCreatedInv ==
    ASSUME IInv, ServerInv, SessionCreated
    PROVE  ServerInv'
<1>1. /\ up /\ pc = "CreateSession" /\ pc' = "createUserFolder"
      /\ HandlerOf(req) = "login" /\ who \in Users
      /\ UNCHANGED <<req, who, result, failed, m_mysql, live, folders, files, rows, unsure>>
      /\ who = req.name /\ req.password = "right"
  BY DEF SessionCreated, At, dbVars, store, ServerInv, PcFits, LoginKnows
<1>2. PICK id \in SessionIds : /\ CreateInRoom(id, who) \/ CreatePastEnd(id, who)
                              /\ answer' = [kind |-> "redirect", cookie |-> id]
  BY DEF SessionCreated
<1>3. up' = up /\ HandlerOf(req)' = HandlerOf(req) /\ Db' = Db
  BY <1>1, <1>2 DEF CreateInRoom, CreatePastEnd, Db
<1>4. /\ answer' \in Answer /\ answer'.kind = "redirect" /\ Nothing.kind = "none"
  BY <1>2 DEF Answer, Nothing, Says
<1>6. ServerTypeOK'
  BY <1>1, <1>4 DEF ServerInv, ServerTypeOK, DbTypeOK
<1>7. HandleFits'
  BY <1>1, <1>3 DEF ServerInv, HandleFits, PointersLive
<1>8. PcFits' /\ LoginKnows' /\ InsertKnows' /\ ListKnows'
  BY <1>1, <1>3, <1>4
     DEF ServerInv, PcFits, LoginKnows, InsertKnows, ListKnows, FileHandlers
<1>10. RowsOnce' /\ AnswersAreOwn'
  BY <1>1, <1>4 DEF ServerInv, RowsOnce, AnswersAreOwn, Idle
<1>. QED BY <1>6, <1>7, <1>8, <1>10 DEF ServerInv

LEMMA CreateUserFolderInv ==
    ASSUME ServerInv, CreateUserFolder
    PROVE  ServerInv'
<1>1. /\ up /\ pc = "createUserFolder" /\ pc' = "idle"
      /\ HandlerOf(req) = "login" /\ who \in Users /\ answer # Nothing
      /\ folders' \in {folders, folders \cup {who}}
      /\ UNCHANGED <<up, m_session_list, cookies, issued, req, who, result>>
      /\ UNCHANGED <<answer, failed, m_mysql, live, files, rows, unsure>>
  BY DEF CreateUserFolder, At, vars, dbVars, ServerInv, PcFits, LoginKnows
<1>2. Db' = Db
  BY <1>1 DEF Db
<1>3. ServerTypeOK'
  BY <1>1 DEF ServerInv, ServerTypeOK, DbTypeOK
<1>4. HandleFits'
  BY <1>1, <1>2 DEF ServerInv, HandleFits, PointersLive
<1>5. PcFits' /\ LoginKnows' /\ InsertKnows' /\ ListKnows'
  BY <1>1 DEF PcFits, LoginKnows, InsertKnows, ListKnows
<1>6. RowsOnce' /\ AnswersAreOwn'
  BY <1>1 DEF ServerInv, RowsOnce, AnswersAreOwn
<1>. QED BY <1>3, <1>4, <1>5, <1>6 DEF ServerInv

(* The end of a handler for files that is done with its object: what is left  *)
(* to show is that its answer is right.                                    *)
LEMMA ListEndsInv ==
    ASSUME IInv, ServerInv, up, pc = "listed", pc' = "idle",
           m_mysql' \in [Objects -> Handles \cup {Null, Unset}], live' = {},
           HandleFits',
           DOMAIN m_session_list' = DOMAIN m_session_list,
           \A i \in DOMAIN m_session_list :
               m_session_list'[i].m_user = m_session_list[i].m_user,
           UNCHANGED <<up, cookies, issued, req, who, result>>,
           failed' \subseteq {"db", "open"},
           UNCHANGED <<folders, files, rows, unsure>>,
           answer' \in Answer, AnswersAreOwn'
    PROVE  ServerInv'
<1>1. ServerTypeOK'
  BY DEF ServerInv, ServerTypeOK, DbTypeOK
<1>2. PcFits' /\ LoginKnows' /\ InsertKnows' /\ ListKnows'
  BY DEF PcFits, LoginKnows, InsertKnows, ListKnows
<1>3. RowsOnce'
  BY DEF ServerInv, RowsOnce
<1>. QED BY <1>1, <1>2, <1>3 DEF ServerInv

LEMMA ListFilesInv ==
    ASSUME IInv, ServerInv, ListFiles
    PROVE  ServerInv'
<1>1. /\ up /\ pc = "listed" /\ pc' = "idle"
      /\ HandlerOf(req) \in {"query", "getFile"}
      /\ answer' = [kind |-> "list", names |-> result]
      /\ UNCHANGED <<up, m_session_list, cookies, issued, req, who, result>>
      /\ UNCHANGED <<failed, folders, files, rows, unsure>>
  BY DEF ListFiles, At, Returns, vars, store
<1>2. /\ who # NoUser /\ req.cookie \in cookies /\ issued[req.cookie] = who
      /\ result \subseteq Names
      /\ (HandlerOf(req) = "getFile" => req.filename \in Plain) =>
           \A f \in result : rows[<<who, f>>] > 0
  BY <1>1 DEF ServerInv, ListKnows, FileHandlers
<1>3. /\ m_mysql' \in [Objects -> Handles \cup {Null, Unset}]
      /\ live' = {}
      /\ HandleFits'
  <2>1. PICK x \in {Null, Unset} :
          live' = live \ {m_mysql[Db]} /\ m_mysql' = [m_mysql EXCEPT ![Db] = x]
    BY DEF ListFiles, Db, Destroyed, Closes, Set
  <2>. QED BY <1>1, <2>1, GivenBack
<1>4. answer' \in Answer /\ answer'.kind = "list" /\ answer'.names = result
  BY <1>1, <1>2 DEF Answer
<1>6. failed' \subseteq {"db", "open"}
  BY <1>1 DEF ServerInv, ServerTypeOK
<1>5. AnswersAreOwn'
  BY <1>1, <1>2, <1>4 DEF AnswersAreOwn
<1>. QED BY <1>1, <1>3, <1>4, <1>5, <1>6, ListEndsInv

LEMMA GetFileRefusedInv ==
    ASSUME IInv, ServerInv, GetFileRefused
    PROVE  ServerInv'
<1>1. /\ up /\ pc = "listed" /\ pc' = "idle" /\ "db" \in failed
      /\ answer' = Says("404")
      /\ UNCHANGED <<up, m_session_list, cookies, issued, req, who, result>>
      /\ UNCHANGED <<failed, m_mysql, live, folders, files, rows, unsure>>
  BY DEF GetFileRefused, At, Returns, vars, dbVars, store
<1>2. live' = {} /\ HandleFits' /\ m_mysql' \in [Objects -> Handles \cup {Null, Unset}]
  BY <1>1 DEF ServerInv, HandleFits, PointersLive, ServerTypeOK, DbTypeOK
<1>3. /\ answer' \in Answer /\ answer' # Nothing
      /\ answer'.kind \notin {"list", "file"}
  BY <1>1, SaysAnswers
<1>5. failed' \subseteq {"db", "open"}
  BY <1>1 DEF ServerInv, ServerTypeOK
<1>4. AnswersAreOwn'
  BY <1>3 DEF AnswersAreOwn
<1>. QED BY <1>1, <1>2, <1>3, <1>4, <1>5, ListEndsInv

(* Between its two lookups a handler's session stays whose it was. *)
LEMMA WhoseIsWho ==
    ASSUME IInv, ServerInv, pc = "listed"
    PROVE  /\ HandlerOf(req) \in FileHandlers
           /\ Whose(req) = who /\ who \in Users
           /\ req.cookie \in cookies /\ issued[req.cookie] = who
<1>1. /\ HandlerOf(req) \in FileHandlers /\ who # NoUser
      /\ req.cookie \in SessionIds \cup {NoCookie}
      /\ \A id \in SessionIds : req.cookie = id => UserOf(id) = who
      /\ req.cookie \in cookies /\ issued[req.cookie] = who
  BY DEF ServerInv, PcFits, ListKnows
<1>2. who \in Users /\ NoCookie \notin cookies
  BY <1>1, ServerAssumption DEF ServerInv, ServerTypeOK, IInv, TypeOK
<1>. QED BY <1>1, <1>2 DEF Whose

LEMMA DownloadInv ==
    ASSUME IInv, ServerInv, Download
    PROVE  ServerInv'
<1>1. /\ up /\ pc = "listed" /\ pc' = "idle"
      /\ HandlerOf(req) = "file" /\ Db = "local" /\ Destroyed("local")
      /\ UNCHANGED <<req, who, result, folders, files, rows, unsure>>
      /\ req \in Request \cup Upload
  BY DEF Download, At, Db, store, ServerInv, PcFits
<1>2. req \in Request
  BY <1>1, UploadShape
<1>3. req.cookie \in SessionIds \cup {NoCookie} /\ req.filename \in Names
  BY <1>1, <1>2, RequestShape DEF FileHandlers
<1>4. req.cookie \in cookies /\ Whose(req) \in Users /\ issued[req.cookie] = Whose(req)
  BY <1>1, WhoseIsWho DEF FileHandlers
<1>5. /\ DOMAIN m_session_list' = DOMAIN m_session_list
      /\ \A i \in DOMAIN m_session_list :
           m_session_list'[i].m_user = m_session_list[i].m_user
      /\ UNCHANGED <<up, cookies, issued>>
  <2>1. LooksUp(req) \/ UNCHANGED vars
    BY DEF Download
  <2>. QED BY <1>3, <2>1, LooksUpEffect DEF vars
<1>6. /\ m_mysql' \in [Objects -> Handles \cup {Null, Unset}]
      /\ live' = {}
      /\ HandleFits'
  <2>1. live' = live \ {m_mysql[Db]} /\ m_mysql' = [m_mysql EXCEPT ![Db] = Unset]
    BY <1>1 DEF Destroyed, Set
  <2>. QED BY <1>1, <2>1, GivenBack
<1>7. failed' \subseteq {"db", "open"}
  BY DEF Download, ServerInv, ServerTypeOK
<1>8. CASE req.filename \in result /\ answer' # Nothing
  <2>1. PICK path \in Located(Whose(req), req.filename) :
          answer' = [kind |-> "file", path |-> path]
    BY <1>8 DEF Download
  <2>2. /\ path \in Files
        /\ req.filename \in Plain => path = <<issued[req.cookie], req.filename>>
    BY <1>3, <1>4, LocatedFiles
  <2>3. answer' \in Answer /\ answer'.kind = "file" /\ answer'.path = path
    BY <2>1, <2>2 DEF Answer
  <2>4. AnswersAreOwn'
    BY <1>1, <1>4, <1>5, <2>2, <2>3 DEF AnswersAreOwn
  <2>. QED BY <1>1, <1>5, <1>6, <1>7, <2>3, <2>4, ListEndsInv
<1>9. CASE answer' \in {Nothing, Says("404")}
  <2>1. answer' \in Answer /\ answer'.kind \notin {"list", "file"}
    <3>1. Nothing \in Answer /\ Nothing.kind = "none"
      BY DEF Answer, Nothing, Says
    <3>. QED BY <1>9, <3>1, SaysAnswers
  <2>2. AnswersAreOwn'
    BY <2>1 DEF AnswersAreOwn
  <2>. QED BY <1>1, <1>5, <1>6, <1>7, <2>1, <2>2, ListEndsInv
<1>10. req.filename \in result \/ answer' = Says("404")
  BY DEF Download
<1>. QED BY <1>8, <1>9, <1>10

LEMMA InsertInv ==
    ASSUME ServerInv, Insert
    PROVE  ServerInv'
<1> DEFINE path == <<who, req.filename>>
<1>1. /\ up /\ pc = "Insert" /\ pc' = "idle"
      /\ HandlerOf(req) = "PART_END" /\ Db = "local"
      /\ UNCHANGED <<up, m_session_list, cookies, issued, req, who, result>>
      /\ UNCHANGED <<answer, failed, folders, files>>
      /\ path \in Paths
  BY DEF Insert, At, Db, vars, ServerInv, PcFits, InsertKnows, Paths
<1>2. /\ m_mysql' \in [Objects -> Handles \cup {Null, Unset}]
      /\ live' = {}
      /\ HandleFits'
  <2>1. live' = live \ {m_mysql[Db]} /\ m_mysql' = [m_mysql EXCEPT ![Db] = Unset]
    BY <1>1 DEF Insert, Destroyed, Set
  <2>. QED BY <1>1, <2>1, GivenBack
<1>3. /\ rows' \in [Paths -> Nat]
      /\ unsure' \subseteq Files
      /\ RowsOnce'
  <2>1. /\ rows \in [Paths -> Nat] /\ unsure \subseteq Files
        /\ \A p \in Files \ unsure : rows[p] <= 1
    BY DEF ServerInv, ServerTypeOK, RowsOnce
  <2>2. ASSUME NEW p \in Written(who, req.filename), result = {},
               rows' = [rows EXCEPT ![p] = @ + 1],
               unsure' = IF req.filename \in Plain THEN unsure ELSE unsure \cup ({p} \cap Files)
        PROVE  rows' \in [Paths -> Nat] /\ unsure' \subseteq Files /\ RowsOnce'
    <3>1. p \in Paths /\ (req.filename \in Plain => p = path)
      BY <1>1, <2>2 DEF Written
    <3>2. live # {}
      BY <2>2 DEF Insert, CanQuery
    <3>3. req.filename \in Plain => path \in unsure \/ rows[path] = 0
      BY <1>1, <2>2, <3>2 DEF ServerInv, InsertKnows
    <3>4. /\ rows' \in [Paths -> Nat]
          /\ \A q \in Paths : rows'[q] = IF q = p THEN rows[p] + 1 ELSE rows[q]
      BY <2>1, <2>2, <3>1
    <3>5. p \in unsure' \/ p \notin Files \/ rows[p] = 0
      BY <2>2, <3>1, <3>3
    <3>6. unsure \subseteq unsure' /\ unsure' \subseteq Files
      BY <2>1, <2>2
    <3>7. ASSUME NEW q \in Files \ unsure' PROVE rows'[q] <= 1
      <4>1. q \in Paths /\ rows[q] <= 1
        BY <2>1, <3>6, <3>7, ServerAssumption DEF Files, Paths
      <4>2. CASE q = p
        BY <3>4, <3>5, <3>7, <4>1, <4>2
      <4>3. CASE q # p
        BY <3>4, <4>1, <4>3
      <4>. QED BY <4>2, <4>3
    <3>. QED BY <3>4, <3>6, <3>7 DEF RowsOnce
  <2>3. CASE UNCHANGED <<rows, unsure>>
    BY <2>1, <2>3 DEF RowsOnce
  <2>. QED BY <2>2, <2>3 DEF Insert
<1>4. ServerTypeOK'
  BY <1>1, <1>2, <1>3 DEF ServerInv, ServerTypeOK, DbTypeOK
<1>5. PcFits' /\ LoginKnows' /\ InsertKnows' /\ ListKnows'
  BY <1>1 DEF PcFits, LoginKnows, InsertKnows, ListKnows
<1>6. AnswersAreOwn'
  BY <1>1 DEF ServerInv, InsertKnows, AnswersAreOwn, Nothing, Says
<1>. QED BY <1>2, <1>3, <1>4, <1>5, <1>6 DEF ServerInv

LEMMA NextServerInv ==
    ASSUME IInv, ServerInv, [ServerNext]_serverVars
    PROVE  ServerInv'
<1>1. ASSUME NEW r \in Request, Root(r) \/ Login(r) \/ AskForFiles(r)
      PROVE  ServerInv'
  BY <1>1, RootInv, LoginInv, AskForFilesInv
<1>2. ASSUME NEW r \in Upload, PartEnds(r)
      PROVE  ServerInv'
  BY <1>2, PartEndsInv
<1>3. CASE HandlerStep
  <2>1. ASSUME Dies PROVE ServerInv'
    BY <2>1, DiesInv
  <2>2. CASE SelectNoSession \/ QueryNoHandle \/ SessionReleasesRaw
    BY <2>1, <2>2 DEF SelectNoSession, QueryNoHandle, SessionReleasesRaw
  <2>. QED
    BY <1>3, <2>2, ConnectInv, SelectInv, CheckPasswordInv, SessionCreatedInv,
       CreateUserFolderInv, ListFilesInv, GetFileRefusedInv, DownloadInv, InsertInv
       DEF HandlerStep
<1>4. CASE ServerKill
  BY <1>4, DiesInv DEF ServerKill
<1>5. CASE FileRemoved \/ ServerTick \/ ServerRestart \/ UNCHANGED serverVars
  BY <1>5, QuietInv
<1>. QED BY <1>1, <1>2, <1>3, <1>4, <1>5 DEF ServerNext

-----------------------------------------------------------------------------
(* Theorems *)

(* The invariant of the session table and that of the handlers hold together: *)
(* each needs the other, as a login brings a session and a session names    *)
(* whose list is made.                                                     *)
THEOREM ServerInvariance == ServerSpec => [](IInv /\ ServerInv)
<1>1. ServerInit => IInv /\ ServerInv
  BY InitIInv, InitServerInv DEF ServerInit
<1>2. IInv /\ ServerInv /\ [ServerNext]_serverVars => (IInv /\ ServerInv)'
  <2>. SUFFICES ASSUME IInv, ServerInv, [ServerNext]_serverVars
                PROVE  IInv' /\ ServerInv'
    OBVIOUS
  <2>1. [Next]_vars
    BY SessionsStep DEF ServerInv
  <2>. QED BY <2>1, NextIInv, NextServerInv
<1>. QED BY <1>1, <1>2, PTL DEF ServerSpec

(* Whatever requests come and whatever the database does, the handlers use    *)
(* the session table as CookieSessions says: login creates, root, query and *)
(* the downloads look up, and nothing else touches it.                     *)
THEOREM HandlersUseSessions == ServerSpec => ImplementsSessions
<1>1. ServerInit => Init
  BY DEF ServerInit
<1>2. ServerInv /\ [ServerNext]_serverVars => [Next]_vars
  BY SessionsStep DEF ServerInv
<1>. QED BY <1>1, <1>2, ServerInvariance, PTL DEF ServerSpec, Spec, ImplementsSessions

(* What the handlers see of the session table is the abstract map of         *)
(* AuthTable: a cookie means one user from the login that drew it until the  *)
(* process ends, whatever the handlers and the database do in between.      *)
THEOREM HandlersSeeAuthTable == ServerSpec => ImplementsAuthTable
BY HandlersUseSessions, TableIsAuthTable, PTL DEF ImplementsSessions

(* The variables of the server keep their types. *)
THEOREM ServerTypeCorrect == ServerSpec => []ServerTypeOK
<1>1. ServerInv => ServerTypeOK
  BY DEF ServerInv
<1>. QED BY <1>1, ServerInvariance, PTL

(* No query goes through a connection that was closed, none is closed twice, *)
(* on any path through Connect, Select, showError, Close and the destructor. *)
THEOREM NoDanglingHandle == ServerSpec => []PointersLive
<1>1. ServerInv => PointersLive
  BY DEF ServerInv, HandleFits
<1>. QED BY <1>1, ServerInvariance, PTL

(* No handler keeps a connection after it has returned. *)
THEOREM NoHandleKept == ServerSpec => []ConnectionsReturned
<1>1. ASSUME ServerInv
      PROVE  ConnectionsReturned
  <2>1. Idle => live = {}
    BY <1>1 DEF ServerInv, HandleFits, Idle
  <2>2. live = {} \/ \E h : live = {h}
    BY <1>1 DEF ServerInv, HandleFits
  <2>3. Cardinality(live) \in {0, 1}
    BY <2>2, FS_EmptySet, FS_Singleton
  <2>. QED BY <2>1, <2>3 DEF ConnectionsReturned
<1>. QED BY <1>1, ServerInvariance, PTL

(* insertFileToDb gives a file of a plain name a second row only after a      *)
(* select about it whose result was lost.                                  *)
THEOREM NoSecondRow == ServerSpec => []RowsOnce
<1>1. ServerInv => RowsOnce
  BY DEF ServerInv
<1>. QED BY <1>1, ServerInvariance, PTL

(* Where the names that come into the select and the path are plain, a list   *)
(* or a file is only ever sent to the user it belongs to.                  *)
THEOREM NoForeignFile == ServerSpec => []AnswersAreOwn
<1>1. ServerInv => AnswersAreOwn
  BY DEF ServerInv
<1>. QED BY <1>1, ServerInvariance, PTL

(* A handler that returns silently was a download, and its file is not there  *)
(* or could not be opened.                                                 *)
THEOREM NoSilentHandler == ServerSpec => AnsweredUnlessMissing
<1> DEFINE Silent ==
        Unanswered /\ req \in Request =>
            /\ HandlerOf(req) = "file"
            /\ "open" \in failed' \/ Located(issued[req.cookie], req.filename) \ files # {}
<1>1. ASSUME IInv, ServerInv, ServerNext
      PROVE  Silent
  <2>. SUFFICES ASSUME Unanswered, req \in Request
                PROVE  /\ HandlerOf(req) = "file"
                       /\ \/ "open" \in failed'
                          \/ Located(issued[req.cookie], req.filename) \ files # {}
    OBVIOUS
  <2>1. pc # "idle" /\ pc' = "idle" /\ up' /\ answer' = Nothing /\ up
    BY <1>1 DEF Unanswered, ServerInv, PcFits, AtRest
  <2>2. HandlerStep
    <3>1. /\ \A r : ~(Root(r) \/ Login(r) \/ AskForFiles(r) \/ PartEnds(r))
          /\ ~(FileRemoved \/ ServerTick \/ ServerKill \/ ServerRestart)
      BY <2>1 DEF Root, Login, AskForFiles, PartEnds, Idle, FileRemoved, ServerTick,
                  ServerKill, Dies, Die, ServerRestart, handler
    <3>. QED BY <1>1, <3>1 DEF ServerNext
  <2>3. Download \/ Insert \/ CreateUserFolder
    <3>1. ~(SelectNoSession \/ QueryNoHandle \/ SessionReleasesRaw)
      BY <2>1 DEF SelectNoSession, QueryNoHandle, SessionReleasesRaw, Dies, Die
    <3>2. ~Connect /\ ~Select /\ ~SessionCreated
      BY <2>1 DEF Connect, Select, SessionCreated, AfterSelect
    <3>3. ~CheckPassword /\ ~GetFileRefused
      BY <2>1, SaysAnswers DEF CheckPassword, GetFileRefused, Returns
    <3>4. ~ListFiles
      BY <2>1 DEF ListFiles, Returns, Nothing, Says
    <3>. QED BY <2>2, <3>1, <3>2, <3>3, <3>4 DEF HandlerStep
  <2>4. ~Insert
    BY <1>1, RequestShape DEF Insert, At, ServerInv, PcFits
  <2>5. ~CreateUserFolder
    BY <1>1, <2>1 DEF CreateUserFolder, At, ServerInv, PcFits, LoginKnows
  <2>6. Download
    BY <2>3, <2>4, <2>5
  <2>7. req.filename \in result /\ HandlerOf(req) = "file" /\ pc = "listed"
    BY <2>1, <2>6, SaysAnswers DEF Download, At
  <2>8. Whose(req) = issued[req.cookie]
    BY <1>1, <2>7, WhoseIsWho
  <2>9. PICK path \in Located(Whose(req), req.filename) :
          path \notin files \/ failed' = {"open"}
    BY <2>1, <2>6, <2>7 DEF Download, Nothing, Says
  <2>. QED BY <2>7, <2>8, <2>9
<1>2. IInv /\ ServerInv /\ [ServerNext]_serverVars => [Silent]_serverVars
  BY <1>1
<1>. QED BY <1>2, ServerInvariance, PTL DEF ServerSpec, AnsweredUnlessMissing, Silent

(* A cookie is handed out only to a login with the right password, under the *)
(* name it came with, though checkPassword does not look at the errors of   *)
(* its queries.                                                            *)
THEOREM NoFreeSession == ServerSpec => SessionsAreEarned
<1> DEFINE Earned ==
        \A id \in SessionIds : issued'[id] # issued[id] =>
            /\ req.password = "right"
            /\ req.name = issued'[id]
<1>1. ASSUME IInv, ServerInv, [ServerNext]_serverVars
      PROVE  [Earned]_serverVars
  <2>1. CASE SessionCreated
    <3>1. PICK id \in SessionIds : CreateInRoom(id, who) \/ CreatePastEnd(id, who)
      BY <2>1 DEF SessionCreated
    <3>2. /\ issued' = [issued EXCEPT ![id] = who]
          /\ issued \in [SessionIds -> Users \cup {NoUser}]
      BY <1>1, <3>1 DEF CreateInRoom, CreatePastEnd, HandOut, IInv, TypeOK
    <3>3. who = req.name /\ req.password = "right"
      BY <1>1, <2>1 DEF SessionCreated, At, ServerInv, PcFits, LoginKnows
    <3>. QED BY <3>2, <3>3
  <2>2. CASE UNCHANGED issued
    BY <2>2
  <2>3. ASSUME NEW r, LooksUp(r)
        PROVE  UNCHANGED issued
    BY <2>3 DEF LooksUp, GetSession, vars
  <2>4. Dies => UNCHANGED issued
    BY DEF Dies, Die
  <2>5. HandlerStep => SessionCreated \/ UNCHANGED issued
    BY <2>3, <2>4
       DEF HandlerStep, Connect, Select, SelectNoSession, QueryNoHandle,
           CheckPassword, SessionReleasesRaw, CreateUserFolder, ListFiles,
           GetFileRefused, Download, Insert, vars
  <2>6. ServerNext => SessionCreated \/ UNCHANGED issued
    BY <2>3, <2>4, <2>5
       DEF ServerNext, Root, Login, AskForFiles, PartEnds, FileRemoved,
           ServerTick, Tick, ServerKill, ServerRestart, Restart, vars
  <2>7. UNCHANGED serverVars => UNCHANGED issued
    BY DEF serverVars, vars
  <2>. QED BY <1>1, <2>1, <2>2, <2>6, <2>7
<1>2. IInv /\ ServerInv /\ [ServerNext]_serverVars => [Earned]_serverVars
  BY <1>1
<1>. QED BY <1>2, ServerInvariance, PTL DEF ServerSpec, SessionsAreEarned, Earned

(* query, get_file and downloads follow a null session only for a cookie of   *)
(* another process or none, or when the table has been overrun.            *)
THEOREM NoCrashOnKnownCookie == ServerSpec => KnownCookiesAreSafe
<1> DEFINE Safe ==
        SelectNoSession =>
            req.cookie \notin cookies \/ Cardinality(cookies) > MaxSessions
<1>1. ServerInv => Safe
  BY DEF ServerInv, ListKnows, SelectNoSession, At, NullSession, FileHandlers
<1>2. ServerInv /\ [ServerNext]_serverVars => [Safe]_serverVars
  BY <1>1
<1>. QED BY <1>2, ServerInvariance, PTL DEF ServerSpec, KnownCookiesAreSafe, Safe

=============================================================================
