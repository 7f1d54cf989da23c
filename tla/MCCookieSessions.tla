-------------------------- MODULE MCCookieSessions --------------------------
(* Small instances of CookieSessions for TLC. *)
EXTENDS CookieSessions

(* src/src/main.cpp: with a cookie session the identity check passes and    *)
(* the upload page is shown.                                               *)
CookieRecognised == \A id \in cookies : UserOf(id) # NoUser

=============================================================================
