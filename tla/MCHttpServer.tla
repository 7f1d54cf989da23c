----------------------------- MODULE MCHttpServer -----------------------------
(* A small instance of HttpServer for TLC. *)
EXTENDS HttpServer, MCCookieSessions, TLC

(* Users are alike, and so are ids and handles. *)
Alike == Permutations(Users) \cup Permutations(SessionIds) \cup Permutations(Handles)

=============================================================================
