------------------------------ MODULE MCAccounts ------------------------------
(***************************************************************************)
(* Model checking of Accounts: what the clients set out to do.             *)
(***************************************************************************)
EXTENDS Accounts

CONSTANTS c1, c2, c3, here, there, ann, bob

Do(op, email) == [op |-> op, email |-> email]
Times(n, o)   == [i \in 1 .. n |-> o]

TwoSources  == (c1 :> here) @@ (c2 :> here) @@ (c3 :> there)
ShortDelays == <<1, 2>>
DrawnUUIDs  == <<3, 7, 1, 8, 5, 2, 9, 4, 6, 12, 10, 11, 15, 13, 14, 18, 16, 17>>

Admin == <<Do("bootstrap", ann), Do("login", ann)>>

\* Two bootstraps, then logins of whoever won or lost.
BootstrapRace ==
    (c1 :> Admin) @@ (c2 :> <<Do("bootstrap", bob), Do("login", bob)>>) @@ (c3 :> <<>>)

\* Two registrations and a revocation want one invitation.
InviteRace ==
    (c1 :> Admin \o <<Do("invite", bob), Do("uninvite", bob)>>) @@
    (c2 :> <<Do("register", bob)>>) @@ (c3 :> <<Do("register", bob)>>)

\* Two invitations of one person.
InvitedTwice ==
    (c1 :> Admin \o Times(2, Do("invite", bob))) @@
    (c2 :> <<Do("register", bob)>>) @@ (c3 :> <<Do("register", bob)>>)

\* Who was invited is no administrator.
Invited ==
    (c1 :> Append(Admin, Do("invite", bob))) @@
    (c2 :> <<Do("register", bob), Do("login", bob), Do("invite", bob)>>) @@ (c3 :> <<>>)

\* Two sessions of one account revoke each other.
Revocations ==
    (c1 :> Admin \o <<Do("revoke", ann), Do("use", ann)>>) @@
    (c2 :> <<Do("login", ann), Do("revoke", ann)>>) @@ (c3 :> <<>>)

\* Clients of one origin keep trying to log in.
Guesses ==
    (c1 :> Times(3, Do("login", bob))) @@ (c2 :> Times(2, Do("login", bob))) @@ (c3 :> <<>>)

\* A user pages through the activity while more is recorded.
Paging ==
    (c1 :> Append(Admin, Do("activity", ann))) @@
    (c2 :> <<Do("login", ann), Do("allActivity", ann)>>) @@ (c3 :> <<>>)

Errands == {BootstrapRace, InviteRace, InvitedTwice, Invited, Revocations, Guesses, Paging}
=============================================================================
