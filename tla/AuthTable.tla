----------------------------- MODULE AuthTable -----------------------------
(***************************************************************************)
(* What the session table promises to the handlers that ask it: a partial  *)
(* map from cookies to users, in which a cookie that was drawn once is     *)
(* never drawn again.  A login is admitted as long as there is room for    *)
(* it; when there is none it costs one session, and which one is left open. *)
(* Otherwise nothing is forgotten but everything at once, when the process  *)
(* ends.                                                                   *)
(*                                                                         *)
(* CookieSessions implements it with who = UserOf and drawn = the ids of    *)
(* its history (CookieSessions!Auth).                                      *)
(***************************************************************************)
EXTENDS Naturals, FiniteSets

CONSTANTS Users, NoUser, Cookies, Places

VARIABLES
    who,      \* the user a cookie stands for, NoUser if it means nothing
    drawn     \* the cookies handed out so far

authVars == <<who, drawn>>

Nobody == [c \in Cookies |-> NoUser]

Known == {c \in Cookies : who[c] # NoUser}

AuthInit == who = Nobody /\ drawn = {}

Draw(c) ==
    /\ c \notin drawn
    /\ drawn' = drawn \cup {c}

Admit(c, u) ==
    /\ Cardinality(Known) < Places
    /\ Draw(c)
    /\ who' = [who EXCEPT ![c] = u]

(* With all places taken a login costs one session, its own or another. *)
Displace(c, u) ==
    /\ Cardinality(Known) = Places
    /\ Draw(c)
    /\ \E lost \in Known \cup {c} :
         who' = [[who EXCEPT ![c] = u] EXCEPT ![lost] = NoUser]

ForgetAll == who' = Nobody /\ UNCHANGED drawn

AuthNext ==
    \/ \E c \in Cookies, u \in Users : Admit(c, u) \/ Displace(c, u)
    \/ ForgetAll

AuthSpec == AuthInit /\ [][AuthNext]_authVars

=============================================================================
