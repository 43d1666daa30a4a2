------------------------------ MODULE MCSession ------------------------------
(* Session on small instances. *)
EXTENDS Session

\* A password, with and without auth-nocache: without a password there is nothing
\* to fall back on, and nothing but the name to lose.
WithPassword == [password : {TRUE}, nocache : BOOLEAN]
==============================================================================
