------------------------------- MODULE MCTab -------------------------------
(***************************************************************************)
(* TLC instance of Tab: two roles, three sessions or dashboard tokens and  *)
(* a feed of one event, in StrictMode as main.tsx runs the application.    *)
(***************************************************************************)
EXTENDS Tab

RolesDef == {"buyer", "seller"}
EventsDef == {"e1", "e2"}

=============================================================================
