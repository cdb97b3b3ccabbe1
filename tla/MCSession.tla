----------------------------- MODULE MCSession -----------------------------
(***************************************************************************)
(* Session for TLC: the application's middleware inside and outside of the *)
(* session's and of Cors.                                                  *)
(***************************************************************************)
EXTENDS Session, TLC

MCChains == {<<"cors", "app", "session">>, <<"app", "cors">>}

\* Which user it is and which key an entry has makes no difference.
Symmetric == Permutations(Users) \cup Permutations(Keys)

MCPreflight == <<"Access-Control-Allow-Methods", "Access-Control-Max-Age">>
=============================================================================
