--------------------------- MODULE CookieSessions ---------------------------
(***************************************************************************)
(* The table of cookie sessions: class CookieSessions of src/src/session.cpp *)
(* and src/inc/session.h, one instance of which the server keeps in memory  *)
(* (HttpServer::m_cookie_sessions, src/src/http_server.cpp).               *)
(*                                                                         *)
(* CreateSession runs when a login's password is right; its session id is  *)
(* sent to the browser as the cookie "mgs".  GetSession runs on the other  *)
(* requests and finds the session whose id the cookie carries.  A session  *)
(* is never removed: DestroySession is declared and not defined, and       *)
(* nothing reads SESSION_TTL.                                              *)
(***************************************************************************)
EXTENDS Naturals, Sequences, FiniteSets

CONSTANTS
    Users,         \* names in the table `user` of the database
    NoUser,        \* "nobody": the value of a history entry not yet written
    SessionIds,    \* the 64-bit ids; small here, so each is drawn once
    MaxSessions,   \* NUM_SESSIONS
    Raw,           \* contents of a vector slot nothing was constructed in
    MaxClock       \* bound of the model: the last instant of the clock

ASSUME SessionsAssumption ==
    /\ MaxSessions \in Nat \ {0}
    /\ MaxClock \in Nat
    /\ NoUser \notin Users

VARIABLES
    up,              \* the process runs
    clock,           \* mg_time(), in whole steps
    m_session_list,  \* the elements of the vector, begin() to end()
    past_end,        \* the slot one past the last element of a full vector
    cookies,         \* ids this process has handed out in a Set-Cookie header
    issued           \* history: the user each id was ever handed out to

vars == <<up, clock, m_session_list, past_end, cookies, issued>>

Time == 0..MaxClock

Session == [m_id : SessionIds, m_user : Users,
            m_created : Time, m_last_used : Time]

NewSession(id, u) ==
    [m_id |-> id, m_user |-> u, m_created |-> clock, m_last_used |-> clock]

-----------------------------------------------------------------------------

Init ==
    /\ up = TRUE
    /\ clock = 0
    /\ m_session_list = <<>>
    /\ past_end = Raw
    /\ cookies = {}
    /\ issued = [id \in SessionIds |-> NoUser]

(* The id is a hash of the request and of the session object: taken to be   *)
(* one that was never drawn before.                                        *)
Fresh(id) == issued[id] = NoUser

HandOut(id, u) ==
    /\ cookies' = cookies \cup {id}
    /\ issued' = [issued EXCEPT ![id] = u]

(* Mutant: the table is kept in a file and read back. *)
DieKeepingTable ==
    /\ up' = FALSE
    /\ past_end' = Raw
    /\ cookies' = {}
    /\ UNCHANGED <<clock, m_session_list, issued>>

(* Memory goes with the process; the cookies stay in the browsers. *)
Die ==
    /\ up' = FALSE
    /\ m_session_list' = <<>>
    /\ past_end' = Raw
    /\ cookies' = {}
    /\ UNCHANGED <<clock, issued>>

(* CreateSession while the table has room. *)
CreateInRoom(id, u) ==
    /\ up
    /\ Fresh(id)
    /\ Len(m_session_list) < MaxSessions
    /\ m_session_list' = Append(m_session_list, NewSession(id, u))
    /\ HandOut(id, u)
    /\ UNCHANGED <<up, clock, past_end>>

(* Mutant: the table is taken for full one session early. *)
CreatePastEndEarly(id, u) ==
    /\ up
    /\ Fresh(id)
    /\ Len(m_session_list) + 1 >= MaxSessions
    /\ past_end' = NewSession(id, u)
    /\ HandOut(id, u)
    /\ UNCHANGED <<up, clock, m_session_list>>

(* CreateSession on a full table.  The loop leaves i = m_max_sessions and    *)
(* the index of the least recently used session unused, so the assignment  *)
(* stores past the last element and the elements stay as they are.  The    *)
(* vector grew by doubling, so the slot lies in its allocation: what was   *)
(* there is released as if it were a session.                              *)
CreatePastEnd(id, u) ==
    /\ up
    /\ Fresh(id)
    /\ Len(m_session_list) >= MaxSessions
    /\ past_end' = NewSession(id, u)
    /\ HandOut(id, u)
    /\ UNCHANGED <<up, clock, m_session_list>>

(* The other outcome of that assignment: the slot was never constructed and *)
(* its stale bytes do not form a session that can be released.             *)
CreateReleasesRaw ==
    /\ up
    /\ Len(m_session_list) >= MaxSessions
    /\ past_end = Raw
    /\ Die

Matching(id) == {i \in DOMAIN m_session_list : m_session_list[i].m_id = id}

FirstMatch(id) == CHOOSE i \in Matching(id) : \A j \in Matching(id) : i <= j

(* Whom a request with cookie id is taken to come from. *)
UserOf(id) ==
    IF Matching(id) = {} THEN NoUser ELSE m_session_list[FirstMatch(id)].m_user

(* GetSession on a request whose cookie is id, known or not. *)
GetSession(id) ==
    /\ up
    /\ m_session_list' =
         IF Matching(id) = {} THEN m_session_list
         ELSE [m_session_list EXCEPT ![FirstMatch(id)].m_last_used = clock]
    /\ UNCHANGED <<up, clock, past_end, cookies, issued>>

Tick ==
    /\ clock < MaxClock
    /\ clock' = clock + 1
    /\ UNCHANGED <<up, m_session_list, past_end, cookies, issued>>

(* The server is killed, or crashes in a handler of another module. *)
Kill == up /\ Die

(* main: a new process starts with an empty table. *)
Restart ==
    /\ ~up
    /\ up' = TRUE
    /\ UNCHANGED <<clock, m_session_list, past_end, cookies, issued>>

Next ==
    \/ \E id \in SessionIds, u \in Users : CreateInRoom(id, u)
    \/ \E id \in SessionIds, u \in Users : CreatePastEnd(id, u)
    \/ CreateReleasesRaw
    \/ \E id \in SessionIds : GetSession(id)
    \/ Tick
    \/ Kill
    \/ Restart

Spec == Init /\ [][Next]_vars

-----------------------------------------------------------------------------

(* Every variable has the type of its declaration; the vector never has     *)
(* more than m_max_sessions elements.                                      *)
TypeOK ==
    /\ up \in BOOLEAN
    /\ clock \in Time
    /\ m_session_list \in Seq(Session)
    /\ Len(m_session_list) <= MaxSessions
    /\ past_end \in Session \cup {Raw}
    /\ cookies \in SUBSET SessionIds
    /\ issued \in [SessionIds -> Users \cup {NoUser}]

(* GetSession never takes a request for another user's: a cookie it knows   *)
(* was handed out by this process, to the user it answers with.  Whatever  *)
(* logins, overflows and restarts came before, an old cookie is unknown.    *)
AnsweredAsIssued ==
    \A id \in SessionIds :
        UserOf(id) # NoUser => id \in cookies /\ UserOf(id) = issued[id]

(* As long as a process has not handed out more cookies than the table has  *)
(* places, it honours every one of them; and a table with a free place     *)
(* knows every cookie of its process.                                      *)
FirstLoginsHonoured ==
    Cardinality(cookies) <= MaxSessions \/ Len(m_session_list) < MaxSessions
        => \A id \in cookies : UserOf(id) # NoUser

(* A login, an overflowing one included, never ends or alters the session   *)
(* of someone else: while the process lives a session keeps its place, its *)
(* id, its user and its birth, and its last use only moves forward.        *)
SessionKept(i) ==
    /\ i \in DOMAIN m_session_list'
    /\ m_session_list'[i].m_id = m_session_list[i].m_id
    /\ m_session_list'[i].m_user = m_session_list[i].m_user
    /\ m_session_list'[i].m_created = m_session_list[i].m_created
    /\ m_session_list'[i].m_last_used >= m_session_list[i].m_last_used

SessionsSurvive ==
    [][up' => \A i \in DOMAIN m_session_list : SessionKept(i)]_vars

(* The store the table implements, and the mapping that shows it. *)
Auth == INSTANCE AuthTable WITH
    Cookies <- SessionIds,
    Places  <- MaxSessions,
    who     <- [id \in SessionIds |-> UserOf(id)],
    drawn   <- {id \in SessionIds : issued[id] # NoUser}

(* The table behaves as the abstract map of AuthTable: each step of it draws *)
(* one cookie, forgets everything with the process, or changes nothing the  *)
(* handlers can see.                                                       *)
ImplementsAuthTable == Auth!AuthSpec

=============================================================================
