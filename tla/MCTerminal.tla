------------------------------ MODULE MCTerminal ------------------------------
(***************************************************************************)
(* Model checking of Terminal: what is started in it.                      *)
(***************************************************************************)
EXTENDS Terminal, TLC

CONSTANTS c1, c2, c3, ann, bob

Asks(a1, a2, a3, n) == [asks |-> (c1 :> a1) @@ (c2 :> a2) @@ (c3 :> a3), copies |-> n]

\* Two accounts, with a logout in between; three logins, for two closing agents and
\* one that starts; and copies from an interface.
LogInAndOut == Asks(ann, bob, Logout, 0)
OneAccount  == Asks(ann, ann, Logout, 0)
Copying     == Asks(ann, Logout, Logout, 2)

Started == {LogInAndOut, OneAccount, Copying}
=============================================================================
