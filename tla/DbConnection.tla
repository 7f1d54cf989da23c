---------------------------- MODULE DbConnection ----------------------------
(***************************************************************************)
(* Class DbConnection of src/src/db_connection.cpp and its header: an       *)
(* object holds a pointer to a MYSQL handle and loses it on Close, on any   *)
(* error and when it is destroyed.  Two objects matter at a time: the       *)
(* global `db` of main.cpp, used by getFile alone, and the local one of the *)
(* handler that runs.                                                      *)
(*                                                                         *)
(* Each operation is an action on the two variables below; HttpServer       *)
(* conjoins them with the steps of its handlers.                           *)
(***************************************************************************)
EXTENDS Naturals, FiniteSets

CONSTANTS
    Handles,    \* what mysql_init may return
    Null,       \* nullptr
    Unset       \* the pointer of an object whose Connect was never called

ASSUME DbAssumption == Null \notin Handles /\ Unset \notin Handles

Objects == {"global", "local"}

VARIABLES
    m_mysql,    \* the pointer of each object
    live        \* handles that mysql_init gave and mysql_close did not free

dbVars == <<m_mysql, live>>

DbTypeOK ==
    /\ m_mysql \in [Objects -> Handles \cup {Null, Unset}]
    /\ live \subseteq Handles

(* A global is zeroed; the constructor leaves m_mysql alone. *)
DbInit ==
    /\ m_mysql = [global |-> Null, local |-> Unset]
    /\ live = {}

(* The process's end closes its connections. *)
DbDies ==
    /\ m_mysql' = [global |-> Null, local |-> Unset]
    /\ live' = {}

Set(o, h) == m_mysql' = [m_mysql EXCEPT ![o] = h]

(* Connect, and mysql_real_connect reaches the server.  What the pointer     *)
(* held before is overwritten.                                             *)
Connected(o) ==
    \E h \in Handles \ live :
        /\ Set(o, h)
        /\ live' = live \cup {h}

(* Mutant: the handle is closed, the pointer to it kept. *)
ShowsErrorKeepsPointer(o) ==
    /\ live' = live \ {m_mysql[o]}
    /\ UNCHANGED m_mysql

(* showError closes the handle the error is about. *)
ShowsError(o) ==
    /\ live' = live \ {m_mysql[o]}
    /\ Set(o, Null)

(* Connect fails: the new handle is closed by showError; the old one, if the *)
(* object had any, is lost.                                                *)
ConnectFails(o) ==
    /\ Set(o, Null)
    /\ UNCHANGED live

(* Mutant: Close is left to the destructor. *)
ClosesLater(o) == UNCHANGED dbVars

(* Close; on a null pointer it does nothing. *)
Closes(o) ==
    /\ live' = live \ {m_mysql[o]}
    /\ Set(o, Null)

(* ~DbConnection of a local object; the next one is another object. *)
Destroyed(o) ==
    /\ live' = live \ {m_mysql[o]}
    /\ Set(o, Unset)

(* mysql_real_query follows the pointer it is given. *)
CanQuery(o) == m_mysql[o] \in live

(* No object points to a handle that was closed: nothing is closed twice,    *)
(* and no query goes through memory that was freed.                        *)
PointersLive ==
    \A o \in Objects : m_mysql[o] \in live \cup {Null, Unset}

=============================================================================
