---------------------------- MODULE AccountsProofs ----------------------------
(***************************************************************************)
(* Proofs about Accounts, for any clients, workloads and delays: racing    *)
(* bootstraps and registrations keep the rows of an instance consistent,   *)
(* and a request sent after its session was revoked is never acted upon.   *)
(* Logins that race past the limiter are bounded, the audit tells what     *)
(* happened, once, and paging through it misses nothing.                   *)
(*                                                                         *)
(* All rest on what a handler may take for granted at each of its stages   *)
(* although others have moved since it looked: these are the parts of      *)
(* IInv. The limiter needs a count of those who passed and are still to be *)
(* charged, the audit needs what is due to be recorded next to what was,   *)
(* and paging needs what is still to come after a cursor.                  *)
(***************************************************************************)
EXTENDS Accounts, FiniteSetTheorems, FunctionTheorems, TLAPS

-----------------------------------------------------------------------------
(* The inductive invariant *)

Id      == Client \X Nat
Account == [id : Id, email : Email, administrator : BOOLEAN]
Invite  == [email : Email, created : Nat, consumedBy : SUBSET Id, revoked : BOOLEAN]
Token   == [account : Id, administrator : BOOLEAN, revoked : BOOLEAN, used : Nat]
Started == [account : SUBSET Account, expires : Nat]

Registering == {"record", "begun", "invited"}
Calling     == {"sent", "found", "act"}

\* What a handler knows, by its stage.
Request ==
    [stage : {"idle", "finish", "locked", "begin", "answered"}]
    \cup [stage : {"record"}, invite : Nat]
    \cup [stage : {"begun", "invited"}, invite : Nat, at : Nat]
    \cup [stage : {"issue"}, account : Account]
    \cup [stage : Calling, target : Nat, live : BOOLEAN]

\* What is left to record is of no concern here.
Auditing(r) == r = [stage |-> "audit", log |-> r.log]

TypeOK ==
    /\ now \in Nat
    /\ accounts \subseteq Account
    /\ invites \in Seq(Invite)
    /\ tokens \in Seq(Token)
    /\ pending \in [Client -> SUBSET Started]
    /\ todo \in [Client -> Seq(Ops)]
    /\ token \in [Client -> Nat]
    /\ req = [c \in Client |-> req[c]]
    /\ \A c \in Client : req[c] \in Request \/ Auditing(req[c])

\* Who is served has something to do.
BusyHasTask == \A c \in Client : req[c].stage # "idle" => todo[c] # <<>>

\* The advisory lock of bootstrap is held by one, and nobody else makes an
\* account under it.
LockExcludes ==
    \A c \in Client : req[c].stage = "locked" =>
        accounts = {} /\ \A d \in Client : req[d].stage = "locked" => c = d

\* Logins and invitations come from accounts.
AccountsComeFirst ==
    /\ tokens # <<>> \/ invites # <<>> => accounts # {}
    /\ \A c \in Client : \A p \in pending[c] : p.account \subseteq accounts
    /\ \A c \in Client : req[c].stage = "issue" => req[c].account \in accounts

\* An account carries the operation that made it, which is over but for its audit.
IdsAreSpent ==
    \A a \in accounts : \A c \in Client :
        a.id[1] = c => \/ a.id[2] > Len(todo[c])
                       \/ a.id[2] = Len(todo[c]) /\ req[c].stage = "audit"

\* A registration has an invitation; at its last stage it holds the row, and what
\* it saw there still holds.
RowsAreHeld ==
    \A c \in Client :
        /\ req[c].stage \in Registering => req[c].invite \in DOMAIN invites
        /\ req[c].stage = "invited" =>
            /\ invites[req[c].invite].email = Typed(c)
            /\ invites[req[c].invite].consumedBy = {}
            /\ ~invites[req[c].invite].revoked
            /\ \A d \in Client :
                req[d].stage = "invited" /\ req[d].invite = req[c].invite => c = d

\* A request carries a token that was issued; one sent in vain meets a revoked
\* row, and one that is past the lookup was not sent in vain.
CallsAreLive ==
    \A c \in Client :
        /\ token[c] <= Len(tokens)
        /\ req[c].stage \in Calling => token[c] # 0
        /\ req[c].stage = "sent" /\ ~req[c].live => tokens[token[c]].revoked
        /\ req[c].stage \in {"found", "act"} => req[c].live

IInv ==
    /\ TypeOK /\ BusyHasTask /\ LockExcludes /\ AccountsComeFirst /\ IdsAreSpent
    /\ RowsAreHeld /\ CallsAreLive /\ RegistrationInv

-----------------------------------------------------------------------------
(* Helpers *)

\* A client that is served has an operation, with an email.
LEMMA TaskOf ==
    ASSUME TypeOK, NEW c \in Client, todo[c] # <<>>
    PROVE  /\ Head(todo[c]) \in Ops /\ Typed(c) \in Email
           /\ Tail(todo[c]) \in Seq(Ops) /\ Len(Tail(todo[c])) = Len(todo[c]) - 1
           /\ Len(todo[c]) \in Nat /\ NewAccountID(c) \in Id
<1>1. todo[c] \in Seq(Ops)
    BY DEF TypeOK
<1>2. Head(todo[c]) \in Ops
    BY <1>1
<1> QED
    BY <1>1, <1>2 DEF Typed, Email, NewAccountID, Id

\* What answering or giving up an operation does to a client and to the others.
LEMMA DoneMoves ==
    ASSUME TypeOK, NEW c \in Client, todo[c] # <<>>, Done(c)
    PROVE  /\ todo' \in [Client -> Seq(Ops)]
           /\ req' = [d \in Client |-> req'[d]]
           /\ req'[c] = Idle /\ todo'[c] = Tail(todo[c]) /\ Len(todo'[c]) < Len(todo[c])
           /\ \A d \in Client : d # c => req'[d] = req[d] /\ todo'[d] = todo[d]
           /\ \A d \in Client : Len(todo'[d]) <= Len(todo[d])
<1>1. /\ todo \in [Client -> Seq(Ops)] /\ req = [d \in Client |-> req[d]]
      /\ todo' = [todo EXCEPT ![c] = Tail(todo[c])]
      /\ req' = [req EXCEPT ![c] = Idle]
    BY DEF Done, TypeOK
<1>2. /\ Tail(todo[c]) \in Seq(Ops) /\ Len(Tail(todo[c])) = Len(todo[c]) - 1
      /\ Len(todo[c]) \in Nat
    BY TaskOf
<1>3. /\ todo'[c] = Tail(todo[c]) /\ req'[c] = Idle
      /\ \A d \in Client : d # c => req'[d] = req[d] /\ todo'[d] = todo[d]
    BY <1>1
<1>4. todo' \in [Client -> Seq(Ops)] /\ req' = [d \in Client |-> req'[d]]
    BY <1>1, <1>2
<1>5. \A d \in Client : Len(todo[d]) \in Nat
    BY <1>1
<1> QED
    BY <1>2, <1>3, <1>4, <1>5

\* The same of going on with it.
LEMMA GotoMoves ==
    ASSUME TypeOK, NEW c \in Client, NEW r, Goto(c, r)
    PROVE  /\ todo' \in [Client -> Seq(Ops)] /\ todo' = todo
           /\ req' = [d \in Client |-> req'[d]]
           /\ req'[c] = r
           /\ \A d \in Client : d # c => req'[d] = req[d]
BY DEF Goto, TypeOK

\* A row that is overwritten leaves a table of rows.
LEMMA RowUpdated ==
    ASSUME NEW S, NEW s \in Seq(S), NEW i \in 1 .. Len(s), NEW x \in S
    PROVE  LET t == [s EXCEPT ![i] = x] IN
           /\ t \in Seq(S) /\ Len(t) = Len(s) /\ t[i] = x
           /\ \A j \in 1 .. Len(s) : j # i => t[j] = s[j]
OBVIOUS

\* The only shape of a handler at each stage.
LEMMA ShapeOf ==
    ASSUME TypeOK, NEW c \in Client
    PROVE  /\ req[c].stage \in Registering => req[c].invite \in Nat
           /\ req[c].stage \in {"begun", "invited"} =>
                req[c] = [stage |-> req[c].stage, invite |-> req[c].invite, at |-> req[c].at]
                /\ req[c].at \in Nat
           /\ req[c].stage = "issue" => req[c].account \in Account
           /\ req[c].stage \in Calling =>
                req[c] = [stage |-> req[c].stage, target |-> req[c].target, live |-> req[c].live]
                /\ req[c].target \in Nat /\ req[c].live \in BOOLEAN
           /\ req[c].stage = "audit" => req[c] = [stage |-> "audit", log |-> req[c].log]
<1>1. req[c] \in Request \/ Auditing(req[c])
    BY DEF TypeOK
<1>2. CASE Auditing(req[c])
    BY <1>2 DEF Auditing, Registering, Calling
<1>3. CASE req[c] \in Request
    BY <1>3 DEF Request, Registering, Calling
<1> QED
    BY <1>1, <1>2, <1>3

\* The invariant holds at first.
LEMMA InitIInv == Init => IInv
<1> SUFFICES ASSUME Init PROVE IInv
    OBVIOUS
<1>1. todo \in [Client -> Seq(Ops)]
    BY WorkloadsAssumption DEF Init
<1>2. TypeOK
    BY <1>1 DEF Init, TypeOK, Idle, Request, Started
<1>3. BusyHasTask /\ LockExcludes /\ AccountsComeFirst /\ IdsAreSpent
    BY DEF Init, BusyHasTask, LockExcludes, AccountsComeFirst, IdsAreSpent, Idle
<1>4. RowsAreHeld /\ CallsAreLive
    BY DEF Init, RowsAreHeld, CallsAreLive, Idle, Registering, Calling
<1>5. RegistrationInv
    BY DEF Init, RegistrationInv, OneAdministrator, InvitesAdmitOnce
<1> QED
    BY <1>2, <1>3, <1>4, <1>5 DEF IInv

-----------------------------------------------------------------------------
(* Steps that make no account and change no invitation *)

\* A step of one client that at most logs in, or issues or revokes tokens, keeps
\* the invariant if it brings the client to a stage whose knowledge it has.
LEMMA ClientStep ==
    ASSUME IInv, NEW c \in Client, UNCHANGED <<now, accounts, invites>>,
           todo' \in [Client -> Seq(Ops)],
           req' = [d \in Client |-> req'[d]],
           \A d \in Client : d # c => req'[d] = req[d] /\ todo'[d] = todo[d],
           req'[c] \in Request \/ Auditing(req'[c]),
           req'[c].stage # "idle" => todo'[c] # <<>>,
           \/ Len(todo'[c]) < Len(todo[c])
           \/ Len(todo'[c]) = Len(todo[c])
              /\ (req[c].stage = "audit" => req'[c].stage = "audit"),
           req'[c].stage = "locked" =>
               accounts = {} /\ \A d \in Client : req[d].stage # "locked",
           req'[c].stage = "issue" => req'[c].account \in accounts,
           req'[c].stage \in Registering => req'[c].invite \in DOMAIN invites,
           req'[c].stage = "invited" =>
               /\ invites[req'[c].invite].email = Typed(c) /\ todo'[c] = todo[c]
               /\ invites[req'[c].invite].consumedBy = {}
               /\ ~invites[req'[c].invite].revoked
               /\ RowFree(req'[c].invite),
           pending' \in [Client -> SUBSET Started],
           \A d \in Client : \A p \in pending'[d] : p.account \subseteq accounts,
           tokens' \in Seq(Token), Len(tokens) <= Len(tokens'),
           tokens' # <<>> => accounts # {},
           \A s \in 1 .. Len(tokens) : tokens[s].revoked => tokens'[s].revoked,
           token' \in [Client -> Nat],
           \A d \in Client : d # c => token'[d] = token[d],
           token'[c] <= Len(tokens'),
           req'[c].stage \in Calling => token'[c] # 0,
           req'[c].stage = "sent" /\ ~req'[c].live => tokens'[token'[c]].revoked,
           req'[c].stage \in {"found", "act"} => req'[c].live
    PROVE  IInv'
<1> USE DEF IInv
<1>1. TypeOK'
    BY DEF TypeOK
<1>2. BusyHasTask'
    BY ZenonT(40) DEF BusyHasTask
<1>3. LockExcludes'
    <2> SUFFICES ASSUME NEW d \in Client, req'[d].stage = "locked"
                 PROVE  accounts = {} /\ \A e \in Client : req'[e].stage = "locked" => d = e
        BY DEF LockExcludes
    <2>1. CASE d = c
        BY <2>1
    <2>2. CASE d # c
        <3>1. req[d].stage = "locked"
            BY <2>2
        <3>2. accounts = {} /\ \A e \in Client : req[e].stage = "locked" => d = e
            BY <3>1 DEF LockExcludes
        <3> QED
            BY <2>2, <3>1, <3>2
    <2> QED
        BY <2>1, <2>2
<1>4. AccountsComeFirst'
    BY DEF AccountsComeFirst
<1>5. IdsAreSpent'
    <2> SUFFICES ASSUME NEW a \in accounts, NEW d \in Client, a.id[1] = d
                 PROVE  \/ a.id[2] > Len(todo'[d])
                        \/ a.id[2] = Len(todo'[d]) /\ req'[d].stage = "audit"
        BY DEF IdsAreSpent
    <2>1. a.id[2] \in Nat /\ Len(todo[d]) \in Nat /\ Len(todo'[d]) \in Nat
        <3>1. a.id \in Client \X Nat
            BY DEF TypeOK, Account, Id
        <3>2. todo[d] \in Seq(Ops) /\ todo'[d] \in Seq(Ops)
            BY DEF TypeOK
        <3> QED
            BY <3>1, <3>2
    <2>2. \/ a.id[2] > Len(todo[d])
          \/ a.id[2] = Len(todo[d]) /\ req[d].stage = "audit"
        BY DEF IdsAreSpent
    <2>3. CASE d # c
        BY <2>2, <2>3
    <2>4. CASE d = c
        BY <2>1, <2>2, <2>4
    <2> QED
        BY <2>3, <2>4
<1>6. RowsAreHeld'
    <2> SUFFICES ASSUME NEW d \in Client
                 PROVE  /\ req'[d].stage \in Registering => req'[d].invite \in DOMAIN invites
                        /\ req'[d].stage = "invited" =>
                            /\ invites[req'[d].invite].email = Head(todo'[d]).email
                            /\ invites[req'[d].invite].consumedBy = {}
                            /\ ~invites[req'[d].invite].revoked
                            /\ \A e \in Client :
                                req'[e].stage = "invited" /\ req'[e].invite = req'[d].invite
                                    => d = e
        BY DEF RowsAreHeld, Typed
    <2>1. CASE d = c
        <3>1. ASSUME req'[c].stage = "invited", NEW e \in Client, e # c,
                     req'[e].stage = "invited"
              PROVE  req'[e].invite # req'[c].invite
            <4>1. RowFree(req'[c].invite) /\ req'[e] = req[e]
                BY <3>1
            <4> QED
                BY <3>1, <4>1 DEF RowFree
        <3> QED
            BY <2>1, <3>1 DEF Typed
    <2>2. CASE d # c
        <3>1. /\ req[d].stage \in Registering => req[d].invite \in DOMAIN invites
              /\ req[d].stage = "invited" =>
                  /\ invites[req[d].invite].email = Head(todo[d]).email
                  /\ invites[req[d].invite].consumedBy = {}
                  /\ ~invites[req[d].invite].revoked
                  /\ \A e \in Client :
                      req[e].stage = "invited" /\ req[e].invite = req[d].invite => d = e
            BY DEF RowsAreHeld, Typed
        <3>2. req'[d] = req[d] /\ todo'[d] = todo[d]
            BY <2>2
        <3>3. ASSUME NEW e \in Client, req[d].stage = "invited",
                     req'[e].stage = "invited", req'[e].invite = req[d].invite
              PROVE  d = e
            <4>1. CASE e = c
                BY <3>3, <4>1 DEF RowFree
            <4>2. CASE e # c
                BY <3>1, <3>3, <4>2
            <4> QED
                BY <4>1, <4>2
        <3> QED
            BY <3>1, <3>2, <3>3
    <2> QED
        BY <2>1, <2>2
<1>7. CallsAreLive'
    <2> SUFFICES ASSUME NEW d \in Client
                 PROVE  /\ token'[d] <= Len(tokens')
                        /\ req'[d].stage \in Calling => token'[d] # 0
                        /\ req'[d].stage = "sent" /\ ~req'[d].live =>
                            tokens'[token'[d]].revoked
                        /\ req'[d].stage \in {"found", "act"} => req'[d].live
        BY DEF CallsAreLive
    <2>1. CASE d = c
        BY <2>1
    <2>2. CASE d # c
        <3>1. /\ token[d] <= Len(tokens) /\ token[d] \in Nat
              /\ Len(tokens) \in Nat /\ Len(tokens') \in Nat
              /\ req[d].stage \in Calling => token[d] # 0
              /\ req[d].stage = "sent" /\ ~req[d].live => tokens[token[d]].revoked
              /\ req[d].stage \in {"found", "act"} => req[d].live
            BY DEF CallsAreLive, TypeOK
        <3>2. req[d].stage = "sent" => token[d] \in 1 .. Len(tokens)
            BY <3>1 DEF Calling
        <3> QED
            BY <2>2, <3>1, <3>2
    <2> QED
        BY <2>1, <2>2
<1>8. RegistrationInv'
    BY ZenonT(40) DEF RegistrationInv, OneAdministrator, InvitesAdmitOnce
<1> QED
    BY <1>1, <1>2, <1>3, <1>4, <1>5, <1>6, <1>7, <1>8

\* What such a step may do to the tables and to the started logins.
Frame ==
    /\ UNCHANGED <<now, accounts, invites, token>>
    /\ pending' \in [Client -> SUBSET Started]
    /\ \A d \in Client : \A p \in pending'[d] : p.account \subseteq accounts
    /\ tokens' \in Seq(Token) /\ Len(tokens') = Len(tokens)
    /\ \A s \in 1 .. Len(tokens) : tokens[s].revoked => tokens'[s].revoked

\* Nothing of this changes in most of them.
LEMMA FrameUnchanged ==
    ASSUME IInv, UNCHANGED <<now, accounts, invites, token, tokens, pending>>
    PROVE  Frame
BY DEF IInv, TypeOK, AccountsComeFirst, Frame

\* Whatever a client stops doing, it may stop.
LEMMA DoneStep ==
    ASSUME IInv, NEW c \in Client, todo[c] # <<>>, Done(c), Frame
    PROVE  IInv'
<1>1. /\ todo' \in [Client -> Seq(Ops)]
      /\ req' = [d \in Client |-> req'[d]]
      /\ req'[c] = Idle /\ Len(todo'[c]) < Len(todo[c])
      /\ \A d \in Client : d # c => req'[d] = req[d] /\ todo'[d] = todo[d]
    BY DoneMoves DEF IInv
<1>2. Idle \in Request /\ Idle.stage = "idle"
    BY DEF Idle, Request
<1>3. tokens # <<>> => accounts # {}
    BY DEF IInv, AccountsComeFirst
<1>4. /\ tokens \in Seq(Token) /\ token \in [Client -> Nat]
      /\ token[c] <= Len(tokens)
    BY DEF IInv, TypeOK, CallsAreLive
<1>5. tokens' # <<>> => accounts # {}
    BY <1>3, <1>4 DEF Frame
<1>6. /\ UNCHANGED <<now, accounts, invites>> /\ token' = token
      /\ pending' \in [Client -> SUBSET Started]
      /\ \A d \in Client : \A p \in pending'[d] : p.account \subseteq accounts
      /\ tokens' \in Seq(Token) /\ Len(tokens) <= Len(tokens') /\ token'[c] <= Len(tokens')
      /\ \A s \in 1 .. Len(tokens) : tokens[s].revoked => tokens'[s].revoked
    BY <1>4 DEF Frame
<1>7. /\ req'[c] \in Request /\ req'[c].stage = "idle"
      /\ req'[c].stage \notin Registering \cup Calling
    BY <1>1, <1>2 DEF Registering, Calling
<1> QED
    BY <1>1, <1>4, <1>5, <1>6, <1>7, ClientStep

\* It may go on to a stage whose knowledge it has.
LEMMA GotoStep ==
    ASSUME IInv, NEW c \in Client, todo[c] # <<>>, NEW r, Goto(c, r), Frame,
           r \in Request \/ Auditing(r),
           req[c].stage = "audit" => r.stage = "audit",
           r.stage = "locked" =>
               accounts = {} /\ \A d \in Client : req[d].stage # "locked",
           r.stage = "issue" => r.account \in accounts,
           r.stage \in Registering => r.invite \in DOMAIN invites,
           r.stage = "invited" =>
               /\ invites[r.invite].email = Typed(c)
               /\ invites[r.invite].consumedBy = {}
               /\ ~invites[r.invite].revoked
               /\ RowFree(r.invite),
           r.stage \in Calling => token[c] # 0,
           r.stage = "sent" /\ ~r.live => tokens'[token[c]].revoked,
           r.stage \in {"found", "act"} => r.live
    PROVE  IInv'
<1>1. /\ todo' \in [Client -> Seq(Ops)] /\ todo' = todo
      /\ req' = [d \in Client |-> req'[d]]
      /\ req'[c] = r
      /\ \A d \in Client : d # c => req'[d] = req[d]
    BY GotoMoves DEF IInv
<1>2. tokens # <<>> => accounts # {}
    BY DEF IInv, AccountsComeFirst
<1>3. /\ tokens \in Seq(Token) /\ token \in [Client -> Nat]
      /\ token[c] <= Len(tokens)
    BY DEF IInv, TypeOK, CallsAreLive
<1>4. tokens' # <<>> => accounts # {}
    BY <1>2, <1>3 DEF Frame
<1>5. /\ UNCHANGED <<now, accounts, invites>> /\ token' = token
      /\ pending' \in [Client -> SUBSET Started]
      /\ \A d \in Client : \A p \in pending'[d] : p.account \subseteq accounts
      /\ tokens' \in Seq(Token) /\ Len(tokens) <= Len(tokens') /\ token'[c] <= Len(tokens')
      /\ \A s \in 1 .. Len(tokens) : tokens[s].revoked => tokens'[s].revoked
    BY <1>3 DEF Frame
<1> QED
    BY ZenonT(40), <1>1, <1>3, <1>4, <1>5, ClientStep

\* The stages of a bootstrap, up to the account.
LEMMA BootstrapSteps ==
    ASSUME IInv, NEW c \in Client, BootstrapStart(c) \/ BootstrapLock(c)
    PROVE  IInv'
<1>1. todo[c] # <<>> /\ req[c].stage \in {"idle", "finish"} /\ Frame
    BY FrameUnchanged DEF BootstrapStart, BootstrapLock, At, db, cache
<1>2. CASE Done(c)
    BY <1>1, <1>2, DoneStep
<1>3. CASE Goto(c, [stage |-> "finish"])
    BY <1>1, <1>3, GotoStep DEF Request, Registering, Calling
<1>4. CASE /\ Goto(c, [stage |-> "locked"]) /\ accounts = {}
           /\ \A d \in Client : req[d].stage # "locked"
    BY <1>1, <1>4, GotoStep DEF Request, Registering, Calling
<1> QED
    BY <1>2, <1>3, <1>4 DEF BootstrapStart, BootstrapLock

\* The stages of a registration, up to the account.
LEMMA RegistrationSteps ==
    ASSUME IInv, NEW c \in Client, RegisterStart(c) \/ RegisterFinish(c) \/ LockInvite(c)
    PROVE  IInv'
<1>1. /\ todo[c] # <<>> /\ req[c].stage \in {"idle", "record", "begun"} /\ Frame
      /\ invites \in Seq(Invite) /\ now \in Nat
    BY FrameUnchanged DEF RegisterStart, RegisterFinish, LockInvite, At, db, cache, IInv, TypeOK
<1>2. /\ req[c].stage \in Registering => req[c].invite \in DOMAIN invites
      /\ req[c].stage = "begun" =>
            req[c] = [stage |-> "begun", invite |-> req[c].invite, at |-> req[c].at]
            /\ req[c].at \in Nat
    BY ShapeOf DEF IInv, RowsAreHeld
<1>3. DOMAIN invites \subseteq Nat
    BY <1>1
<1>4. CASE Done(c)
    BY <1>1, <1>4, DoneStep
<1>5. ASSUME NEW i \in DOMAIN invites, Goto(c, [stage |-> "record", invite |-> i]) PROVE IInv'
    BY <1>1, <1>3, <1>5, GotoStep DEF Request, Registering, Calling
<1>6. CASE RegisterFinish(c)
    BY <1>1, <1>2, <1>3, <1>6, GotoStep DEF RegisterFinish, At, Request, Registering, Calling
<1>7. CASE LockInvite(c) /\ ~Done(c)
    <2>1. req[c].stage = "begun"
        BY <1>7 DEF LockInvite, At
    <2> DEFINE r == [stage |-> "invited", invite |-> req[c].invite, at |-> req[c].at]
    <2>2. Goto(c, r)
        BY <1>2, <1>7, <2>1 DEF LockInvite
    <2>3. /\ invites[r.invite].email = Typed(c)
          /\ invites[r.invite].consumedBy = {}
          /\ ~invites[r.invite].revoked
          /\ RowFree(r.invite)
        BY <1>7 DEF LockInvite, InviteValid
    <2>4. r \in Request /\ r.stage = "invited" /\ r.invite \in DOMAIN invites
        BY <1>2, <1>3, <2>1 DEF Request, Registering
    <2> HIDE DEF r
    <2> QED
        BY <1>1, <2>1, <2>2, <2>3, <2>4, GotoStep DEF Registering, Calling
<1> QED
    <2>1. CASE RegisterStart(c)
        BY <1>1, <1>4, <1>5, <2>1 DEF RegisterStart
    <2> QED
        BY <1>4, <1>6, <1>7, <2>1

\* Recording what happened is a stage of no consequence here.
LEMMA LogStep ==
    ASSUME IInv, NEW c \in Client, todo[c] # <<>>, NEW es, Log(c, es), Frame
    PROVE  IInv'
<1> DEFINE r == [stage |-> "audit", log |-> es]
<1>1. Goto(c, r) /\ Auditing(r) /\ r.stage = "audit"
    BY DEF Log, Auditing
<1> HIDE DEF r
<1> QED
    BY <1>1, GotoStep DEF Registering, Calling

\* A login that starts, fails or is given up.
LEMMA LoginSteps ==
    ASSUME IInv, NEW c \in Client,
           LoginStart(c) \/ BeginLogin(c) \/ ReportLoginFailure(c) \/ AbandonLogin(c)
    PROVE  IInv'
<1>1. todo[c] # <<>> /\ req[c].stage \in {"idle", "begin", "answered"}
    BY DEF LoginStart, BeginLogin, ReportLoginFailure, AbandonLogin, At
<1>2. CASE LoginStart(c)
    <2>1. Frame
        BY <1>2, FrameUnchanged DEF LoginStart, db, cache
    <2>2. CASE Goto(c, [stage |-> "begin"])
        BY <1>1, <2>1, <2>2, GotoStep DEF Request, Registering, Calling
    <2>3. CASE \E es : Log(c, es)
        BY <1>1, <2>1, <2>3, LogStep
    <2> QED
        BY <1>2, <2>2, <2>3 DEF LoginStart
<1>3. CASE BeginLogin(c)
    <2> DEFINE p == [account |-> FindAccount(Typed(c)), expires |-> now + LoginLife]
    <2>1. p \in Started /\ p.account \subseteq accounts
        BY SMTT(30), AccountsAssumption DEF AccountsAssumption, FindAccount, Started, IInv, TypeOK
    <2>2. pending' = [pending EXCEPT ![c] = {p}]
        BY <1>3 DEF BeginLogin
    <2> HIDE DEF p
    <2>3. Frame
        BY <1>3, <2>1, <2>2 DEF Frame, BeginLogin, db, IInv, TypeOK, AccountsComeFirst
    <2> QED
        BY <1>1, <1>3, <2>3, GotoStep DEF BeginLogin, Request, Registering, Calling
<1>4. CASE ReportLoginFailure(c)
    <2>1. Frame
        BY <1>4 DEF Frame, ReportLoginFailure, db, IInv, TypeOK, AccountsComeFirst
    <2> QED
        BY <1>1, <1>4, <2>1, DoneStep, LogStep DEF ReportLoginFailure, LoginFailed
<1>5. CASE AbandonLogin(c)
    BY <1>1, <1>5, FrameUnchanged, DoneStep DEF AbandonLogin, db, cache
<1> QED
    BY <1>2, <1>3, <1>4, <1>5

\* A login that succeeds, or finds what it started gone.
LEMMA FinishLoginStep ==
    ASSUME IInv, NEW c \in Client, FinishLogin(c)
    PROVE  IInv'
<1>1. todo[c] # <<>> /\ req[c].stage = "answered"
    BY DEF FinishLogin, At
<1>2. Frame
    BY DEF Frame, FinishLogin, db, IInv, TypeOK, AccountsComeFirst
<1>3. CASE LoginFailed(c, pending[c])
    BY <1>1, <1>2, <1>3, LogStep DEF LoginFailed
<1>4. ASSUME NEW p \in pending[c], NEW a \in p.account,
             Goto(c, [stage |-> "issue", account |-> a])
      PROVE  IInv'
    <2>1. a \in accounts /\ a \in Account
        BY DEF IInv, TypeOK, AccountsComeFirst
    <2> QED
        BY <1>1, <1>2, <1>4, <2>1, GotoStep DEF Request, Registering, Calling
<1> QED
    BY <1>3, <1>4 DEF FinishLogin

\* The token goes to an account there is.
LEMMA IssueStep ==
    ASSUME IInv, NEW c \in Client, IssueAccessToken(c)
    PROVE  IInv'
<1>1. /\ todo[c] # <<>> /\ req[c].stage = "issue"
      /\ req[c].account \in accounts /\ req[c].account \in Account
    BY ShapeOf DEF IssueAccessToken, At, IInv, AccountsComeFirst
<1> DEFINE new == [account |-> req[c].account.id, administrator |-> req[c].account.administrator,
                   revoked |-> FALSE, used |-> now]
<1>2. new \in Token /\ tokens \in Seq(Token) /\ token \in [Client -> Nat]
      /\ token[c] <= Len(tokens) /\ now \in Nat
    BY <1>1 DEF Account, Token, IInv, TypeOK, CallsAreLive
<1>3. tokens' = Append(tokens, new) /\ token' = [token EXCEPT ![c] = Len(tokens) + 1]
    BY DEF IssueAccessToken
<1>4. PICK es : Goto(c, [stage |-> "audit", log |-> es])
    BY DEF IssueAccessToken, Log
<1>5. /\ todo' \in [Client -> Seq(Ops)] /\ todo' = todo
      /\ req' = [d \in Client |-> req'[d]]
      /\ req'[c] = [stage |-> "audit", log |-> es]
      /\ \A d \in Client : d # c => req'[d] = req[d]
    BY <1>4, GotoMoves DEF IInv
<1> HIDE DEF new
<1>6. /\ tokens' \in Seq(Token) /\ Len(tokens) <= Len(tokens')
      /\ \A s \in 1 .. Len(tokens) : tokens[s].revoked => tokens'[s].revoked
    BY <1>2, <1>3
<1>7. /\ token' \in [Client -> Nat] /\ token'[c] <= Len(tokens')
      /\ \A d \in Client : d # c => token'[d] = token[d]
    BY <1>2, <1>3
<1>8. /\ UNCHANGED <<now, accounts, invites>>
      /\ pending' \in [Client -> SUBSET Started]
      /\ \A d \in Client : \A p \in pending'[d] : p.account \subseteq accounts
    BY DEF IssueAccessToken, cache, IInv, TypeOK, AccountsComeFirst
<1>9. /\ Auditing(req'[c]) /\ req'[c].stage = "audit"
      /\ req'[c].stage \notin Registering \cup Calling
    BY <1>5 DEF Auditing, Registering, Calling
<1> QED
    BY <1>1, <1>5, <1>6, <1>7, <1>8, <1>9, ClientStep

\* A request, up to its handler: what was sent after a revocation gets no further
\* than the lookup.
LEMMA CallSteps ==
    ASSUME IInv, NEW c \in Client,
           Call(c) \/ FindAccessToken(c) \/ TouchAccessToken(c) \/ Use(c)
    PROVE  IInv'
<1>1. /\ todo[c] # <<>> /\ req[c].stage \in {"idle", "sent", "found", "act"}
      /\ UNCHANGED <<now, accounts, invites, token>>
    BY DEF Call, FindAccessToken, TouchAccessToken, Use, AtCall, At, db, cache
<1>2. /\ token[c] \in Nat /\ token[c] <= Len(tokens)
      /\ tokens \in Seq(Token) /\ invites \in Seq(Invite) /\ now \in Nat
    BY DEF IInv, TypeOK, CallsAreLive
<1>3. req[c].stage \in Calling =>
        /\ req[c] = [stage |-> req[c].stage, target |-> req[c].target, live |-> req[c].live]
        /\ req[c].target \in Nat /\ req[c].live \in BOOLEAN
        /\ token[c] # 0
        /\ req[c].stage = "sent" /\ ~req[c].live => tokens[token[c]].revoked
        /\ req[c].stage \in {"found", "act"} => req[c].live
    BY ShapeOf DEF IInv, CallsAreLive
<1>4. CASE Call(c)
    <2>1. Frame
        BY <1>4, FrameUnchanged DEF Call, db, cache
    <2>2. CASE Done(c)
        BY <1>1, <2>1, <2>2, DoneStep
    <2>3. CASE Targets(c) # {}
        <3>1. token[c] # 0
            BY <2>3 DEF Targets
        <3>2. token[c] \in 1 .. Len(tokens) /\ Row(c) = tokens[token[c]] /\ Row(c).revoked \in BOOLEAN
            <4>1. token[c] \in 1 .. Len(tokens)
                BY <1>2, <3>1
            <4>2. tokens[token[c]] \in Token
                BY <1>2, <4>1
            <4> QED
                BY <4>1, <4>2 DEF Row, Token
        <3>3. Targets(c) \subseteq Nat
            BY <1>2, <3>2 DEF Targets, ListSessions
        <3>4. PICK target \in Targets(c) :
                Goto(c, [stage |-> "sent", target |-> target, live |-> ~Row(c).revoked])
            BY <1>4, <2>3 DEF Call
        <3> DEFINE r == [stage |-> "sent", target |-> target, live |-> ~Row(c).revoked]
        <3>5. r \in Request /\ r.stage = "sent" /\ (~r.live => tokens'[token[c]].revoked)
            BY <1>4, <3>2, <3>3 DEF Request, Calling, Call, db
        <3>6. Goto(c, r)
            BY <3>4
        <3> HIDE DEF r
        <3> QED
            BY <1>1, <2>1, <3>1, <3>5, <3>6, GotoStep DEF Registering
    <2> QED
        BY <1>4, <2>2, <2>3 DEF Call
<1>5. CASE FindAccessToken(c)
    <2>1. Frame
        BY <1>5, FrameUnchanged DEF FindAccessToken, db, cache
    <2>2. req[c].stage = "sent"
        BY <1>5 DEF FindAccessToken, AtCall, At
    <2>3. CASE Done(c)
        BY <1>1, <2>1, <2>3, DoneStep
    <2>4. CASE ~Row(c).revoked /\ Goto(c, [req[c] EXCEPT !.stage = "found"])
        <3> DEFINE r == [stage |-> "found", target |-> req[c].target, live |-> req[c].live]
        <3>1. Goto(c, r)
            BY <1>3, <2>2, <2>4 DEF Calling
        <3>2. r.live /\ r \in Request /\ r.stage = "found" /\ token[c] # 0
            BY <1>3, <2>2, <2>4 DEF Calling, Row, Request
        <3> HIDE DEF r
        <3> QED
            BY <1>1, <2>1, <2>2, <3>1, <3>2, GotoStep DEF Registering
    <2> QED
        BY <1>5, <2>3, <2>4 DEF FindAccessToken
<1>6. CASE TouchAccessToken(c)
    <2>1. req[c].stage = "found"
        BY <1>6 DEF TouchAccessToken, AtCall, At
    <2>2. tokens' = [tokens EXCEPT ![token[c]] = [@ EXCEPT !.used = now]]
        BY <1>6 DEF TouchAccessToken
    <2>3. /\ tokens' \in Seq(Token) /\ Len(tokens') = Len(tokens)
          /\ \A s \in 1 .. Len(tokens) : tokens[s].revoked => tokens'[s].revoked
        <3> DEFINE row == [tokens[token[c]] EXCEPT !.used = now]
        <3>1. token[c] \in 1 .. Len(tokens)
            BY <1>2, <1>3, <2>1 DEF Calling
        <3>2. tokens[token[c]] \in Token
            BY <1>2, <3>1
        <3>3. row \in Token /\ row.revoked = tokens[token[c]].revoked
            BY <1>2, <3>2 DEF Token
        <3>4. tokens' = [tokens EXCEPT ![token[c]] = row]
            BY <2>2
        <3> HIDE DEF row
        <3> QED
            BY <1>2, <3>1, <3>3, <3>4, RowUpdated
    <2>4. Frame
        BY <1>1, <1>6, <2>3 DEF Frame, TouchAccessToken, cache, IInv, TypeOK, AccountsComeFirst
    <2>5. CASE Done(c)
        BY <1>1, <2>4, <2>5, DoneStep
    <2>6. CASE Goto(c, [req[c] EXCEPT !.stage = "act"])
        <3> DEFINE r == [stage |-> "act", target |-> req[c].target, live |-> req[c].live]
        <3>1. Goto(c, r)
            BY <1>3, <2>1, <2>6 DEF Calling
        <3>2. r.live /\ r \in Request /\ r.stage = "act" /\ token[c] # 0
            BY <1>3, <2>1 DEF Calling, Request
        <3> HIDE DEF r
        <3> QED
            BY <1>1, <2>1, <2>4, <3>1, <3>2, GotoStep DEF Registering
    <2> QED
        BY <1>6, <2>5, <2>6 DEF TouchAccessToken
<1>7. CASE Use(c)
    BY <1>1, <1>7, FrameUnchanged, DoneStep DEF Use, db, cache
<1> QED
    BY <1>4, <1>5, <1>6, <1>7

\* Revoking sets what is never reset.
LEMMA RevokeSessionStep ==
    ASSUME IInv, NEW c \in Client, RevokeSession(c)
    PROVE  IInv'
<1>1. todo[c] # <<>> /\ UNCHANGED <<now, accounts, invites, token, pending>>
    BY DEF RevokeSession, At, cache
<1>2. tokens \in Seq(Token)
    BY DEF IInv, TypeOK
<1>3. CASE /\ req[c].target \in ListSessions(Row(c).account)
           /\ tokens' = [tokens EXCEPT ![req[c].target] = [@ EXCEPT !.revoked = TRUE]]
           /\ \E es : Log(c, es)
    <2>1. req[c].target \in 1 .. Len(tokens)
        BY <1>2, <1>3 DEF ListSessions
    <2>2. /\ tokens' \in Seq(Token) /\ Len(tokens') = Len(tokens)
          /\ \A s \in 1 .. Len(tokens) : tokens[s].revoked => tokens'[s].revoked
        <3> DEFINE row == [tokens[req[c].target] EXCEPT !.revoked = TRUE]
        <3>1. tokens[req[c].target] \in Token
            BY <1>2, <2>1
        <3>2. row \in Token /\ row.revoked
            BY <3>1 DEF Token
        <3>3. tokens' = [tokens EXCEPT ![req[c].target] = row]
            BY <1>3
        <3> HIDE DEF row
        <3> QED
            BY <1>2, <2>1, <3>2, <3>3, RowUpdated
    <2>3. Frame
        BY <1>1, <2>2 DEF Frame, IInv, TypeOK, AccountsComeFirst
    <2> QED
        BY <1>1, <1>3, <2>3, LogStep
<1>4. CASE Done(c) /\ UNCHANGED tokens
    BY <1>1, <1>4, FrameUnchanged, DoneStep
<1> QED
    BY <1>3, <1>4 DEF RevokeSession

\* Reading and recording the activity touches nothing else.
LEMMA ActivitySteps ==
    ASSUME IInv, NEW c \in Client, ListActivity(c) \/ RecordEvent(c)
    PROVE  IInv'
<1>1. todo[c] # <<>> /\ UNCHANGED <<now, accounts, invites, token, tokens, pending>>
    BY DEF ListActivity, RecordEvent, AtCall, At, cache
<1>2. Frame
    BY <1>1, FrameUnchanged
<1>3. CASE Done(c)
    BY <1>1, <1>2, <1>3, DoneStep
<1>4. CASE ListActivity(c) /\ Goto(c, Idle)
    <2>1. req[c].stage = "act"
        BY <1>4 DEF ListActivity, AtCall, At
    <2> QED
        BY <1>1, <1>2, <1>4, <2>1, GotoStep DEF Idle, Request, Registering, Calling
<1>5. ASSUME NEW rest, RecordEvent(c), Goto(c, [req[c] EXCEPT !.log = rest]) PROVE IInv'
    <2>1. req[c] = [stage |-> "audit", log |-> req[c].log]
        BY <1>5, ShapeOf DEF RecordEvent, IInv
    <2>2. [req[c] EXCEPT !.log = rest] = [stage |-> "audit", log |-> rest]
        BY <2>1
    <2> QED
        BY <1>1, <1>2, <1>5, <2>2, LogStep DEF Log
<1>6. CASE ListActivity(c)
    BY <1>3, <1>4, <1>6 DEF ListActivity, Goto
<1>7. CASE RecordEvent(c)
    BY <1>3, <1>5, <1>7 DEF RecordEvent
<1> QED
    BY <1>6, <1>7

-----------------------------------------------------------------------------
(* Accounts and invitations *)

\* A step of one client that is not itself about to hold a row leaves the other
\* registrations what they know, if it leaves the rows they hold alone.
LEMMA RowsStayHeld ==
    ASSUME IInv, NEW c \in Client,
           req'[c].stage \notin Registering,
           \A d \in Client : d # c => req'[d] = req[d] /\ todo'[d] = todo[d],
           DOMAIN invites \subseteq DOMAIN invites',
           \A d \in Client : d # c /\ req[d].stage = "invited" =>
                invites'[req[d].invite] = invites[req[d].invite]
    PROVE  RowsAreHeld'
<1> SUFFICES ASSUME NEW d \in Client, req'[d].stage \in Registering
             PROVE  /\ req'[d].invite \in DOMAIN invites'
                    /\ req'[d].stage = "invited" =>
                        /\ invites'[req'[d].invite].email = Head(todo'[d]).email
                        /\ invites'[req'[d].invite].consumedBy = {}
                        /\ ~invites'[req'[d].invite].revoked
                        /\ \A e \in Client :
                            req'[e].stage = "invited" /\ req'[e].invite = req'[d].invite
                                => d = e
    BY DEF RowsAreHeld, Typed, Registering
<1>1. d # c /\ req'[d] = req[d] /\ todo'[d] = todo[d]
    OBVIOUS
<1>2. /\ req[d].stage \in Registering => req[d].invite \in DOMAIN invites
      /\ req[d].stage = "invited" =>
            /\ invites[req[d].invite].email = Head(todo[d]).email
            /\ invites[req[d].invite].consumedBy = {}
            /\ ~invites[req[d].invite].revoked
            /\ \A e \in Client :
                req[e].stage = "invited" /\ req[e].invite = req[d].invite => d = e
    BY DEF IInv, RowsAreHeld, Typed
<1>3. ASSUME NEW e \in Client, req'[e].stage = "invited"
      PROVE  req[e].stage = "invited" /\ req[e].invite = req'[e].invite
    BY <1>3 DEF Registering
<1> QED
    BY <1>1, <1>2, <1>3

\* The administrator is the first account, which nobody else made under the lock.
LEMMA CreateBootstrapStep ==
    ASSUME IInv, NEW c \in Client, CreateBootstrap(c)
    PROVE  IInv'
<1> DEFINE new == [id |-> NewAccountID(c), email |-> Typed(c), administrator |-> TRUE]
<1> USE DEF IInv
<1>1. /\ todo[c] # <<>> /\ req[c].stage = "locked" /\ Done(c)
      /\ UNCHANGED <<now, invites, tokens, token, pending>>
    BY DEF CreateBootstrap, At, cache
<1>2. accounts = {} /\ \A d \in Client : req[d].stage = "locked" => c = d
    BY <1>1 DEF LockExcludes
<1>3. accounts' = {new} /\ new \in Account /\ NewAccountID(c) \in Id
    BY <1>1, <1>2, TaskOf DEF CreateBootstrap, FindAccount, Account
<1>4. /\ todo' \in [Client -> Seq(Ops)]
      /\ req' = [d \in Client |-> req'[d]]
      /\ req'[c] = Idle /\ Len(todo'[c]) < Len(todo[c])
      /\ \A d \in Client : d # c => req'[d] = req[d] /\ todo'[d] = todo[d]
    BY <1>1, DoneMoves
<1>5. Idle \in Request /\ req'[c].stage = "idle"
    BY <1>4 DEF Idle, Request
<1>6. TypeOK'
    BY <1>1, <1>3, <1>4, <1>5 DEF TypeOK
<1>7. BusyHasTask'
    BY <1>4, <1>5 DEF BusyHasTask
<1>8. LockExcludes'
    BY <1>2, <1>4, <1>5 DEF LockExcludes
<1>9. AccountsComeFirst'
    BY <1>1, <1>2, <1>3, <1>4, <1>5 DEF AccountsComeFirst
<1>10. IdsAreSpent'
    BY <1>3, <1>4 DEF IdsAreSpent, NewAccountID
<1>11. RowsAreHeld'
    BY <1>1, <1>4, <1>5, RowsStayHeld DEF Registering
<1>12. CallsAreLive'
    BY <1>1, <1>4, <1>5 DEF CallsAreLive, Calling
<1>13. RegistrationInv'
    BY <1>1, <1>3 DEF RegistrationInv, OneAdministrator, InvitesAdmitOnce
<1> QED
    BY <1>6, <1>7, <1>8, <1>9, <1>10, <1>11, <1>12, <1>13

\* The client that holds the row of an invitation consumes it as it has seen it.
LEMMA CreateInvitedAccountStep ==
    ASSUME IInv, NEW c \in Client, CreateInvitedAccount(c)
    PROVE  IInv'
<1> DEFINE i   == req[c].invite
           new == [id |-> NewAccountID(c), email |-> Typed(c), administrator |-> FALSE]
           row == [invites[i] EXCEPT !.consumedBy = {NewAccountID(c)}]
<1>1. /\ todo[c] # <<>> /\ req[c].stage = "invited"
      /\ UNCHANGED <<now, tokens, token, pending>>
    BY DEF CreateInvitedAccount, At, cache
<1>2. CASE FindAccount(Typed(c)) # {}
    BY <1>1, <1>2, FrameUnchanged, DoneStep DEF CreateInvitedAccount
<1>3. CASE FindAccount(Typed(c)) = {}
    <2> USE DEF IInv
    <2>1. /\ i \in 1 .. Len(invites) /\ invites \in Seq(Invite) /\ invites[i] \in Invite
          /\ invites[i].email = Typed(c) /\ invites[i].consumedBy = {} /\ ~invites[i].revoked
          /\ \A d \in Client : req[d].stage = "invited" /\ req[d].invite = i => c = d
        <3>1. invites \in Seq(Invite)
            BY DEF TypeOK
        <3> QED
            BY <1>1, <3>1 DEF RowsAreHeld, Registering
    <2>2. NewAccountID(c) \in Id /\ new \in Account
        BY <1>1, TaskOf DEF Account
    <2>3. /\ row \in Invite /\ row.consumedBy = {new.id} /\ row.email = new.email
          /\ row.revoked = FALSE
        BY <2>1, <2>2 DEF Invite
    <2>4. /\ accounts' = accounts \cup {new}
          /\ invites' = [invites EXCEPT ![i] = row]
        BY <1>3 DEF CreateInvitedAccount
    <2>5. PICK es : Goto(c, [stage |-> "audit", log |-> es])
        BY <1>3 DEF CreateInvitedAccount, Log
    <2>6. /\ todo' = todo /\ todo' \in [Client -> Seq(Ops)]
          /\ req' = [d \in Client |-> req'[d]]
          /\ req'[c] = [stage |-> "audit", log |-> es]
          /\ \A d \in Client : d # c => req'[d] = req[d]
        BY <2>5, GotoMoves
    <2>7. Auditing(req'[c]) /\ req'[c].stage = "audit"
        BY <2>6 DEF Auditing
    <2>8. new.id = <<c, Len(todo[c])>> /\ ~new.administrator /\ new.email = Typed(c)
        BY DEF NewAccountID
    <2> HIDE DEF new, row
    <2>9. /\ invites' \in Seq(Invite) /\ Len(invites') = Len(invites)
          /\ DOMAIN invites = 1 .. Len(invites) /\ DOMAIN invites' = 1 .. Len(invites)
          /\ invites'[i] = row
          /\ \A j \in 1 .. Len(invites) : j # i => invites'[j] = invites[j]
        <3>1. /\ invites' \in Seq(Invite) /\ Len(invites') = Len(invites) /\ invites'[i] = row
              /\ \A j \in 1 .. Len(invites) : j # i => invites'[j] = invites[j]
            BY <2>1, <2>3, <2>4, RowUpdated
        <3> QED
            BY <2>1, <3>1
    <2>10. TypeOK'
        BY <1>1, <2>2, <2>4, <2>6, <2>7, <2>9 DEF TypeOK
    <2>11. BusyHasTask'
        BY <1>1, <2>6 DEF BusyHasTask
    <2>12. accounts # {}
        BY <2>1 DEF AccountsComeFirst
    <2>13. LockExcludes'
        BY <2>6, <2>7, <2>12 DEF LockExcludes
    <2>14. AccountsComeFirst'
        BY <1>1, <2>4, <2>6, <2>7 DEF AccountsComeFirst
    <2>15. \A a \in accounts : a.id # new.id
        <3> SUFFICES ASSUME NEW a \in accounts, a.id = new.id PROVE FALSE
            OBVIOUS
        <3>1. a.id[1] = c /\ a.id[2] = Len(todo[c]) /\ Len(todo[c]) \in Nat
            BY <1>1, <2>8, TaskOf
        <3>2. a.id[2] > Len(todo[c]) \/ req[c].stage = "audit"
            BY <3>1 DEF IdsAreSpent
        <3> QED
            BY <1>1, <3>1, <3>2
    <2>16. IdsAreSpent'
        <3>1. ASSUME NEW a \in accounts, NEW d \in Client, a.id[1] = d
              PROVE  \/ a.id[2] > Len(todo'[d])
                     \/ a.id[2] = Len(todo'[d]) /\ req'[d].stage = "audit"
            BY <1>1, <2>6, <2>7, <3>1 DEF IdsAreSpent
        <3>2. new.id[1] = c /\ new.id[2] = Len(todo[c])
            BY <2>8
        <3> QED
            BY <2>4, <2>6, <2>7, <3>1, <3>2 DEF IdsAreSpent
    <2>17. RowsAreHeld'
        <3>1. req'[c].stage \notin Registering
            BY <2>7 DEF Registering
        <3>2. \A d \in Client : d # c /\ req[d].stage = "invited" => req[d].invite # i
            BY <2>1
        <3>3. \A d \in Client : d # c /\ req[d].stage = "invited" =>
                req[d].invite \in DOMAIN invites /\ invites'[req[d].invite] = invites[req[d].invite]
            BY <2>9, <3>2 DEF RowsAreHeld, Registering
        <3> QED
            BY <2>6, <2>9, <3>1, <3>3, RowsStayHeld
    <2>18. CallsAreLive'
        BY <1>1, <2>6, <2>7 DEF CallsAreLive, Calling
    <2>19. OneAdministrator'
        BY <2>4, <2>8 DEF RegistrationInv, OneAdministrator
    <2>20. InvitesAdmitOnce'
        <3>1. ASSUME NEW a \in accounts', ~a.administrator
              PROVE  \E j \in DOMAIN invites' :
                        invites'[j].consumedBy = {a.id} /\ invites'[j].email = a.email
            <4>1. CASE a = new
                BY <2>1, <2>3, <2>9, <4>1
            <4>2. CASE a \in accounts
                <5>1. PICK j \in DOMAIN invites :
                        invites[j].consumedBy = {a.id} /\ invites[j].email = a.email
                    BY <3>1, <4>2 DEF RegistrationInv, InvitesAdmitOnce
                <5> QED
                    BY <2>1, <2>9, <5>1
            <4> QED
                BY <2>4, <4>1, <4>2
        <3>2. \A j \in DOMAIN invites' : invites'[j].consumedBy # {} => ~invites'[j].revoked
            BY <2>3, <2>9 DEF RegistrationInv, InvitesAdmitOnce
        <3>3. \A a \in accounts : a.email # new.email
            BY <1>3, <2>8 DEF FindAccount
        <3>4. \A a, b \in accounts' : a.email = b.email \/ a.id = b.id => a = b
            BY <2>4, <2>15, <3>3 DEF RegistrationInv, InvitesAdmitOnce
        <3> QED
            BY <3>1, <3>2, <3>4 DEF InvitesAdmitOnce
    <2> QED
        BY <2>10, <2>11, <2>13, <2>14, <2>16, <2>17, <2>18, <2>19, <2>20 DEF RegistrationInv
<1> QED
    BY <1>2, <1>3

\* A new invitation is nobody's yet.
LEMMA CreateInviteStep ==
    ASSUME IInv, NEW c \in Client, CreateInvite(c)
    PROVE  IInv'
<1> DEFINE row == [email |-> Typed(c), created |-> now, consumedBy |-> {}, revoked |-> FALSE]
<1> USE DEF IInv
<1>1. /\ todo[c] # <<>> /\ req[c].stage = "act"
      /\ UNCHANGED <<now, accounts, tokens, token, pending>>
    BY DEF CreateInvite, At, cache
<1>2. /\ invites \in Seq(Invite) /\ row \in Invite
      /\ invites' = Append(invites, row)
    BY <1>1, TaskOf DEF CreateInvite, Invite, TypeOK
<1>3. PICK es : Goto(c, [stage |-> "audit", log |-> es])
    BY DEF CreateInvite, Log
<1>4. /\ todo' = todo /\ todo' \in [Client -> Seq(Ops)]
      /\ req' = [d \in Client |-> req'[d]]
      /\ req'[c] = [stage |-> "audit", log |-> es]
      /\ \A d \in Client : d # c => req'[d] = req[d]
    BY <1>3, GotoMoves
<1>5. Auditing(req'[c]) /\ req'[c].stage = "audit"
    BY <1>4 DEF Auditing
<1>6. row.consumedBy = {} /\ row.revoked = FALSE
    OBVIOUS
<1> HIDE DEF row
<1>7. /\ invites' \in Seq(Invite) /\ Len(invites') = Len(invites) + 1
      /\ DOMAIN invites = 1 .. Len(invites) /\ DOMAIN invites' = 1 .. Len(invites) + 1
      /\ invites'[Len(invites) + 1] = row
      /\ \A j \in 1 .. Len(invites) : invites'[j] = invites[j]
    BY <1>2
<1>8. accounts # {}
    <2>1. token[c] # 0 /\ token[c] <= Len(tokens) /\ token[c] \in Nat
        BY <1>1 DEF CallsAreLive, Calling, TypeOK
    <2> QED
        BY <2>1 DEF AccountsComeFirst
<1>9. TypeOK'
    BY <1>1, <1>4, <1>5, <1>7 DEF TypeOK
<1>10. BusyHasTask'
    BY <1>1, <1>4 DEF BusyHasTask
<1>11. LockExcludes'
    BY <1>4, <1>5, <1>8 DEF LockExcludes
<1>12. AccountsComeFirst'
    BY <1>1, <1>4, <1>5, <1>8 DEF AccountsComeFirst
<1>13. IdsAreSpent'
    BY <1>1, <1>4, <1>5 DEF IdsAreSpent
<1>14. RowsAreHeld'
    <2>1. \A d \in Client : req[d].stage = "invited" => req[d].invite \in 1 .. Len(invites)
        BY <1>7 DEF RowsAreHeld, Registering
    <2>2. DOMAIN invites \subseteq DOMAIN invites'
        BY <1>2, <1>7
    <2> QED
        BY <1>4, <1>5, <1>7, <2>1, <2>2, RowsStayHeld DEF Registering
<1>15. CallsAreLive'
    BY <1>1, <1>4, <1>5 DEF CallsAreLive, Calling
<1>16. RegistrationInv'
    <2>1. DOMAIN invites \subseteq DOMAIN invites'
        BY <1>2, <1>7
    <2>2. \A j \in DOMAIN invites' : invites'[j].consumedBy # {} => j \in DOMAIN invites
        BY <1>2, <1>6, <1>7
    <2> QED
        <3>1. OneAdministrator'
            BY <1>1 DEF RegistrationInv, OneAdministrator
        <3>2. \A j \in DOMAIN invites : invites'[j] = invites[j]
            BY <1>7
        <3>3. ASSUME NEW a \in accounts, ~a.administrator
              PROVE  \E j \in DOMAIN invites' :
                        invites'[j].consumedBy = {a.id} /\ invites'[j].email = a.email
            <4>1. PICK j \in DOMAIN invites :
                    invites[j].consumedBy = {a.id} /\ invites[j].email = a.email
                BY <3>3 DEF RegistrationInv, InvitesAdmitOnce
            <4> QED
                BY <2>1, <3>2, <4>1
        <3>4. \A j \in DOMAIN invites' : invites'[j].consumedBy # {} => ~invites'[j].revoked
            BY <2>2, <3>2 DEF RegistrationInv, InvitesAdmitOnce
        <3> QED
            BY <1>1, <3>1, <3>3, <3>4 DEF RegistrationInv, InvitesAdmitOnce
<1> QED
    BY <1>9, <1>10, <1>11, <1>12, <1>13, <1>14, <1>15, <1>16

\* Revoking an invitation waits for its row, and spares a consumed one.
LEMMA RevokeInviteStep ==
    ASSUME IInv, NEW c \in Client, RevokeInvite(c)
    PROVE  IInv'
<1> DEFINE i   == req[c].target
           row == [invites[i] EXCEPT !.revoked = TRUE]
<1> USE DEF IInv
<1>1. /\ todo[c] # <<>> /\ req[c].stage = "act" /\ RowFree(i)
      /\ UNCHANGED <<now, accounts, tokens, token, pending>>
      /\ invites \in Seq(Invite)
    BY DEF RevokeInvite, At, cache, TypeOK
<1>2. CASE Done(c) /\ UNCHANGED invites
    BY <1>1, <1>2, FrameUnchanged, DoneStep
<1>3. CASE invites' = invites /\ \E es : Log(c, es)
    BY <1>1, <1>3, FrameUnchanged, LogStep
<1>4. CASE /\ i \in 1 .. Len(invites) /\ invites[i].consumedBy = {}
           /\ invites' = [invites EXCEPT ![i] = row] /\ \E es : Log(c, es)
    <2>1. PICK es : Goto(c, [stage |-> "audit", log |-> es])
        BY <1>4 DEF Log
    <2>2. /\ todo' = todo /\ todo' \in [Client -> Seq(Ops)]
          /\ req' = [d \in Client |-> req'[d]]
          /\ req'[c] = [stage |-> "audit", log |-> es]
          /\ \A d \in Client : d # c => req'[d] = req[d]
        BY <2>1, GotoMoves
    <2>3. Auditing(req'[c]) /\ req'[c].stage = "audit"
        BY <2>2 DEF Auditing
    <2>4. row \in Invite /\ row.consumedBy = {} /\ row.email = invites[i].email
        <3>1. invites[i] \in Invite
            BY <1>1, <1>4
        <3> QED
            BY <1>4, <3>1 DEF Invite
    <2> HIDE DEF row
    <2>5. /\ invites' \in Seq(Invite) /\ Len(invites') = Len(invites) /\ invites'[i] = row
          /\ \A j \in 1 .. Len(invites) : j # i => invites'[j] = invites[j]
        BY <1>1, <1>4, <2>4, RowUpdated
    <2>6. DOMAIN invites = 1 .. Len(invites) /\ DOMAIN invites' = 1 .. Len(invites)
        BY <1>1, <2>5
    <2>7. TypeOK'
        BY <1>1, <2>2, <2>3, <2>5 DEF TypeOK
    <2>8. BusyHasTask'
        BY <1>1, <2>2 DEF BusyHasTask
    <2>9. LockExcludes'
        BY <1>1, <2>2, <2>3 DEF LockExcludes
    <2>10. AccountsComeFirst'
        <3>1. accounts # {}
            BY <1>1, <1>4 DEF AccountsComeFirst
        <3> QED
            BY <1>1, <2>2, <2>3, <3>1 DEF AccountsComeFirst
    <2>11. IdsAreSpent'
        BY <1>1, <2>2, <2>3 DEF IdsAreSpent
    <2>12. RowsAreHeld'
        <3>1. \A d \in Client : req[d].stage = "invited" =>
                req[d].invite \in 1 .. Len(invites) /\ req[d].invite # i
            BY <1>1, <2>6 DEF RowsAreHeld, Registering, RowFree
        <3> QED
            BY <2>2, <2>3, <2>5, <2>6, <3>1, RowsStayHeld DEF Registering
    <2>13. CallsAreLive'
        BY <1>1, <2>2, <2>3 DEF CallsAreLive, Calling
    <2>14. OneAdministrator'
        BY <1>1 DEF RegistrationInv, OneAdministrator
    <2>15. InvitesAdmitOnce'
        <3>1. \A j \in 1 .. Len(invites) :
                /\ invites'[j].consumedBy = invites[j].consumedBy
                /\ invites'[j].email = invites[j].email
                /\ invites[j].consumedBy # {} => invites'[j].revoked = invites[j].revoked
            BY <1>4, <2>4, <2>5
        <3> QED
            <4>1. ASSUME NEW a \in accounts, ~a.administrator
                  PROVE  \E j \in DOMAIN invites' :
                            invites'[j].consumedBy = {a.id} /\ invites'[j].email = a.email
                <5>1. PICK j \in DOMAIN invites :
                        invites[j].consumedBy = {a.id} /\ invites[j].email = a.email
                    BY <4>1 DEF RegistrationInv, InvitesAdmitOnce
                <5> QED
                    BY <2>6, <3>1, <5>1
            <4>2. \A j \in DOMAIN invites' : invites'[j].consumedBy # {} => ~invites'[j].revoked
                BY <2>6, <3>1 DEF RegistrationInv, InvitesAdmitOnce
            <4> QED
                BY <1>1, <4>1, <4>2 DEF RegistrationInv, InvitesAdmitOnce
    <2> QED
        BY <2>7, <2>8, <2>9, <2>10, <2>11, <2>12, <2>13, <2>14, <2>15 DEF RegistrationInv
<1>5. CASE i \notin 1 .. Len(invites)
    <2>1. invites = [j \in 1 .. Len(invites) |-> invites[j]]
        BY <1>1
    <2>2. [invites EXCEPT ![i] = row] = [j \in 1 .. Len(invites) |-> invites[j]]
        BY <1>5, <2>1
    <2>3. [invites EXCEPT ![i] = row] = invites
        BY <2>1, <2>2
    <2> QED
        BY <1>2, <1>3, <2>3 DEF RevokeInvite
<1> QED
    BY <1>1, <1>2, <1>4, <1>5 DEF RevokeInvite

-----------------------------------------------------------------------------
(* Time and restarts *)

\* A step that moves the clock at most keeps the invariant: no stage takes the time
\* for granted.
LEMMA NothingMoves ==
    ASSUME IInv, UNCHANGED <<accounts, invites, tokens, pending, todo, req, token>>,
           now' \in Nat
    PROVE  IInv'
<1> USE DEF IInv
<1>1. UNCHANGED <<accounts, invites, tokens, pending, todo, req, token>>
    OBVIOUS
<1>2. TypeOK'
    BY <1>1 DEF TypeOK
<1>3. BusyHasTask' /\ LockExcludes' /\ AccountsComeFirst' /\ IdsAreSpent'
    BY <1>1 DEF BusyHasTask, LockExcludes, AccountsComeFirst, IdsAreSpent
<1>4. RowsAreHeld' /\ CallsAreLive'
    BY <1>1 DEF RowsAreHeld, CallsAreLive, Typed
<1>5. RegistrationInv'
    BY <1>1 DEF RegistrationInv, OneAdministrator, InvitesAdmitOnce
<1> QED
    BY <1>2, <1>3, <1>4, <1>5

\* A restart ends whatever holds a lock or has looked something up.
LEMMA CrashStep ==
    ASSUME IInv, Crash
    PROVE  IInv'
<1> USE DEF IInv
<1>1. /\ UNCHANGED <<now, accounts, invites, tokens, token>>
      /\ pending' = [c \in Client |-> {}]
      /\ req' = [c \in Client |-> IF req[c].stage \in Between THEN req[c] ELSE Idle]
      /\ todo' = [c \in Client |-> IF req[c].stage \in Between THEN todo[c] ELSE Tail(todo[c])]
    BY DEF Crash, db
<1>2. ASSUME NEW c \in Client
      PROVE  \/ /\ req[c].stage \in Between
                /\ req'[c] = req[c] /\ todo'[c] = todo[c]
             \/ /\ todo[c] # <<>>
                /\ req'[c] = Idle /\ todo'[c] = Tail(todo[c])
                /\ todo'[c] \in Seq(Ops) /\ Len(todo'[c]) = Len(todo[c]) - 1
                /\ Len(todo[c]) \in Nat
    BY <1>1, TaskOf DEF Between, BusyHasTask
<1>3. Idle \in Request /\ Idle.stage = "idle"
    BY DEF Idle, Request
<1>4. ASSUME NEW c \in Client
      PROVE  /\ req'[c].stage \in Between
             /\ req'[c].stage \notin Calling \cup {"issue", "locked", "invited", "audit", "begun"}
    BY <1>2, <1>3 DEF Between, Calling
<1>5. TypeOK'
    <2>1. todo' \in [Client -> Seq(Ops)]
        BY <1>1, <1>2 DEF TypeOK
    <2>2. \A c \in Client : req'[c] \in Request \/ Auditing(req'[c])
        BY <1>2, <1>3 DEF TypeOK
    <2>3. req' = [c \in Client |-> req'[c]] /\ pending' \in [Client -> SUBSET Started]
        BY <1>1
    <2> QED
        BY <1>1, <2>1, <2>2, <2>3 DEF TypeOK
<1>6. BusyHasTask'
    BY <1>2, <1>3 DEF BusyHasTask
<1>7. LockExcludes'
    BY <1>4 DEF LockExcludes
<1>8. AccountsComeFirst'
    BY <1>1, <1>4 DEF AccountsComeFirst
<1>9. IdsAreSpent'
    <2> SUFFICES ASSUME NEW a \in accounts, NEW c \in Client, a.id[1] = c
                 PROVE  a.id[2] > Len(todo'[c])
        BY <1>1 DEF IdsAreSpent
    <2>1. a.id \in Client \X Nat
        BY DEF TypeOK, Account, Id
    <2>2. \/ a.id[2] > Len(todo[c])
          \/ a.id[2] = Len(todo[c]) /\ req[c].stage = "audit"
        BY DEF IdsAreSpent
    <2> QED
        BY <1>2, <2>1, <2>2 DEF Between
<1>10. RowsAreHeld'
    BY <1>1, <1>2, <1>3, <1>4 DEF RowsAreHeld, Registering
<1>11. CallsAreLive'
    BY <1>1, <1>4 DEF CallsAreLive, Calling
<1>12. RegistrationInv'
    BY <1>1 DEF RegistrationInv, OneAdministrator, InvitesAdmitOnce
<1> QED
    BY <1>5, <1>6, <1>7, <1>8, <1>9, <1>10, <1>11, <1>12

-----------------------------------------------------------------------------
(* The theorems *)

\* Every step preserves the invariant.
LEMMA StepIInv == IInv /\ [Next]_vars => IInv'
<1> SUFFICES ASSUME IInv, [Next]_vars PROVE IInv'
    OBVIOUS
<1>1. ASSUME NEW c \in Client, Bootstrap(c) PROVE IInv'
    BY <1>1, BootstrapSteps, CreateBootstrapStep DEF Bootstrap
<1>2. ASSUME NEW c \in Client, Register(c) PROVE IInv'
    BY <1>2, RegistrationSteps, CreateInvitedAccountStep DEF Register
<1>3. ASSUME NEW c \in Client, Login(c) PROVE IInv'
    BY <1>3, LoginSteps, FinishLoginStep, IssueStep DEF Login
<1>4. ASSUME NEW c \in Client, Session(c) PROVE IInv'
    BY <1>4, CallSteps, RevokeSessionStep, CreateInviteStep, RevokeInviteStep, ActivitySteps
    DEF Session
<1>5. ASSUME NEW c \in Client, RecordEvent(c) PROVE IInv'
    BY <1>5, ActivitySteps
<1>6. CASE UNCHANGED vars
    <2>1. /\ UNCHANGED <<accounts, invites, tokens, pending, todo, req, token>>
          /\ now' \in Nat
        BY <1>6 DEF vars, db, cache, IInv, TypeOK
    <2> QED
        BY <2>1, NothingMoves
<1>7. CASE Tick
    <2>1. /\ UNCHANGED <<accounts, invites, tokens, pending, todo, req, token>>
          /\ now' \in Nat
        BY <1>7 DEF Tick, db, cache, IInv, TypeOK
    <2> QED
        BY <2>1, NothingMoves
<1> QED
    BY <1>1, <1>2, <1>3, <1>4, <1>5, <1>6, <1>7, CrashStep DEF Next, Finished

\* The invariant holds throughout.
LEMMA Invariant == Spec => []IInv
BY InitIInv, StepIInv, PTL DEF Spec

\* Every reachable state is well typed (auth.go, invite.go, db.go).
THEOREM AccountsTypes == Spec => []TypeOK
<1>1. IInv => TypeOK
    BY DEF IInv
<1> QED
    BY <1>1, Invariant, PTL

\* Whatever bootstraps, registrations, revocations of invitations and restarts race,
\* there is one administrator, and each other account consumed an invitation of its
\* own, which was not revoked (CreateBootstrap, CreateInvitedAccount, RevokeInvite).
THEOREM RegistrationIsSafe == Spec => []RegistrationInv
<1>1. IInv => RegistrationInv
    BY DEF IInv
<1> QED
    BY <1>1, Invariant, PTL

\* A request sent after its session was revoked is never acted upon, however its
\* lookup and others' revocations interleave (AuthenticateToken, RevokeSession).
THEOREM RevocationHolds == Spec => []RevokedIsRejected
<1>1. IInv => RevokedIsRejected
    BY DEF IInv, CallsAreLive, RevokedIsRejected
<1> QED
    BY <1>1, Invariant, PTL

-----------------------------------------------------------------------------
(* The login limiter *)

\* The logins of an account and source that have passed the limiter and are still
\* to be charged.
Waiting(k) == {c \in Client : req[c].stage = "begin" /\ KeyOf(c) = k}

ClientsOf(source) == {c \in Client : SourceOf[c] = source}

BurstTypes ==
    /\ attempts \in [Key -> [failures : 0 .. MostFailures, last : Nat]]
    /\ burst \in [Key -> Nat]

\* What was admitted since the clock moved has been charged; once it is too much
\* nobody else passes until the clock moves.
Charged(k) ==
    /\ burst[k] > 0 => attempts[k].failures > 0 /\ attempts[k].last = now
    /\ attempts[k].failures < FirstDelayed => burst[k] <= attempts[k].failures
    /\ burst[k] > 0 /\ attempts[k].failures >= FirstDelayed =>
        burst[k] + Cardinality(Waiting(k)) <
            FirstDelayed + Cardinality(ClientsOf(k[2]))

BurstInv == BurstTypes /\ \A k \in Key : Charged(k)

\* What the assumptions say of the limiter.
LEMMA LimiterAssumption ==
    /\ IsFiniteSet(Client)
    /\ FirstDelayed \in Nat /\ FirstDelayed > 0 /\ FailureReset \in Nat /\ FailureReset > 0
    /\ MostFailures \in Nat /\ FirstDelayed <= MostFailures
    /\ \A n \in FirstDelayed .. MostFailures :
        Delays[n - FirstDelayed + 1] \in Nat /\ Delays[n - FirstDelayed + 1] > 0
<1>1. /\ Delays \in Seq(Nat \ {0}) /\ Len(Delays) \in Nat /\ Len(Delays) > 0
      /\ FirstDelayed \in Nat \ {0}
    BY AccountsAssumption DEF AccountsAssumption
<1>2. MostFailures = FirstDelayed + Len(Delays) - 1
    BY DEF MostFailures
<1>3. \A n \in FirstDelayed .. MostFailures : n - FirstDelayed + 1 \in 1 .. Len(Delays)
    BY <1>1, <1>2
<1>4. \A i \in 1 .. Len(Delays) : Delays[i] \in Nat /\ Delays[i] > 0
    BY <1>1
<1>5. \A n \in FirstDelayed .. MostFailures :
        Delays[n - FirstDelayed + 1] \in Nat /\ Delays[n - FirstDelayed + 1] > 0
    BY Zenon, <1>3, <1>4
<1>6. MostFailures \in Nat /\ FirstDelayed <= MostFailures
    BY <1>1, <1>2
<1>7. IsFiniteSet(Client) /\ FailureReset \in Nat /\ FailureReset > 0
    BY AccountsAssumption DEF AccountsAssumption
<1> QED
    BY <1>1, <1>5, <1>6, <1>7

LEMMA LimiterBounds ==
    /\ FirstDelayed \in Nat /\ FirstDelayed > 0 /\ FailureReset \in Nat /\ FailureReset > 0
    /\ MostFailures \in Nat /\ FirstDelayed <= MostFailures
BY LimiterAssumption

\* Those waiting are some of the clients there.
LEMMA WaitingIsBounded ==
    ASSUME NEW k \in Key
    PROVE  /\ IsFiniteSet(Waiting(k)) /\ Cardinality(Waiting(k)) \in Nat
           /\ Cardinality(ClientsOf(k[2])) \in Nat
           /\ Cardinality(Waiting(k)) <= Cardinality(ClientsOf(k[2]))
<1>1. Waiting(k) \subseteq ClientsOf(k[2]) /\ ClientsOf(k[2]) \subseteq Client
    BY DEF Waiting, ClientsOf, KeyOf
<1>2. IsFiniteSet(ClientsOf(k[2]))
    BY <1>1, LimiterAssumption, FS_Subset
<1> QED
    BY <1>1, <1>2, FS_Subset, FS_CardinalityType

\* The steps that end in something to record.
Logs(c) ==
    \/ CreateInvitedAccount(c) \/ LoginStart(c) \/ FinishLogin(c) \/ ReportLoginFailure(c)
    \/ IssueAccessToken(c) \/ RevokeSession(c) \/ CreateInvite(c) \/ RevokeInvite(c)
    \/ RecordEvent(c)

\* A step of a client, and by which it comes to wait at the limiter, to have called,
\* to be let in and to have something to record.
Moves(c) ==
    /\ todo[c] # <<>>
    /\ \/ Done(c)
       \/ \E r :
            /\ Goto(c, r)
            /\ r.stage = "begin" => LoginStart(c)
            /\ r.stage \in Calling =>
                \/ Call(c)
                \/ req[c].stage \in Calling /\ r.target = req[c].target
            /\ r.stage = "act" => TouchAccessToken(c)
            /\ r.stage = "audit" => Logs(c)

LEMMA ClientMoves ==
    ASSUME IInv, NEW c \in Client,
           Bootstrap(c) \/ Register(c) \/ Login(c) \/ Session(c) \/ RecordEvent(c)
    PROVE  Moves(c)
<1> USE DEF Calling
<1>0. TypeOK
    BY DEF IInv
<1>1. ASSUME NEW es, Log(c, es), todo[c] # <<>>, Logs(c) PROVE Moves(c)
    BY <1>1 DEF Log, Moves
<1>2. ASSUME NEW r, Goto(c, r), todo[c] # <<>>, r.stage \notin Calling \cup {"begin", "audit"}
      PROVE  Moves(c)
    BY <1>2 DEF Moves
<1>3. Done(c) /\ todo[c] # <<>> => Moves(c)
    BY DEF Moves
<1>4. CASE Bootstrap(c)
    <2>1. todo[c] # <<>>
        BY <1>4 DEF Bootstrap, BootstrapStart, BootstrapLock, CreateBootstrap, At
    <2>2. Done(c) \/ Goto(c, [stage |-> "finish"]) \/ Goto(c, [stage |-> "locked"])
        BY <1>4 DEF Bootstrap, BootstrapStart, BootstrapLock, CreateBootstrap
    <2> QED
        BY <1>2, <1>3, <2>1, <2>2
<1>5. CASE RegisterStart(c) \/ RegisterFinish(c)
    <2>1. \/ Done(c)
          \/ \E i : Goto(c, [stage |-> "record", invite |-> i])
          \/ \E i, at : Goto(c, [stage |-> "begun", invite |-> i, at |-> at])
        BY Zenon, <1>5 DEF RegisterStart, RegisterFinish
    <2>2. todo[c] # <<>>
        BY <1>5 DEF RegisterStart, RegisterFinish, At
    <2> QED
        BY <1>2, <1>3, <2>1, <2>2
<1>6. CASE LockInvite(c)
    <2>1. [req[c] EXCEPT !.stage = "invited"].stage = "invited"
        BY <1>0, <1>6, ShapeOf DEF LockInvite, At
    <2> QED
        BY <1>2, <1>3, <1>6, <2>1 DEF LockInvite, At
<1>7. CASE CreateInvitedAccount(c)
    <2>1. todo[c] # <<>> /\ Logs(c) /\ (Done(c) \/ \E es : Log(c, es))
        BY Zenon, <1>7 DEF CreateInvitedAccount, At, Logs
    <2> QED
        BY <1>1, <1>3, <2>1
<1>8. CASE LoginStart(c)
    <2>1. todo[c] # <<>> /\ Logs(c)
        BY <1>8 DEF LoginStart, At, Logs
    <2>2. Goto(c, [stage |-> "begin"]) \/ \E es : Log(c, es)
        BY Zenon, <1>8 DEF LoginStart
    <2> QED
        BY <1>1, <1>8, <2>1, <2>2 DEF Moves
<1>9. CASE BeginLogin(c) \/ AbandonLogin(c)
    BY <1>2, <1>3, <1>9 DEF BeginLogin, AbandonLogin, At
<1>10. CASE FinishLogin(c)
    <2>1. \/ \E es : Log(c, es)
          \/ \E a : Goto(c, [stage |-> "issue", account |-> a])
        BY Zenon, <1>10 DEF FinishLogin, LoginFailed
    <2>2. todo[c] # <<>> /\ Logs(c)
        BY <1>10 DEF FinishLogin, At, Logs
    <2> QED
        BY <1>1, <1>2, <2>1, <2>2
<1>11. CASE ReportLoginFailure(c) \/ IssueAccessToken(c)
    <2>1. Done(c) \/ \E es : Log(c, es)
        BY Zenon, <1>11 DEF ReportLoginFailure, IssueAccessToken, LoginFailed
    <2>2. todo[c] # <<>> /\ Logs(c)
        BY <1>11 DEF ReportLoginFailure, IssueAccessToken, At, Logs
    <2> QED
        BY <1>1, <1>3, <2>1, <2>2
<1>12. CASE Call(c)
    <2>1. \/ Done(c)
          \/ \E target, live : Goto(c, [stage |-> "sent", target |-> target, live |-> live])
        BY Zenon, <1>12 DEF Call
    <2>2. todo[c] # <<>>
        BY <1>12 DEF Call, AtCall, At
    <2>3. ASSUME NEW r, Goto(c, r), r.stage = "sent" PROVE Moves(c)
        BY <1>12, <2>2, <2>3 DEF Moves
    <2> QED
        BY <1>3, <2>1, <2>2, <2>3
<1>13. CASE FindAccessToken(c) \/ TouchAccessToken(c)
    <2>1. /\ [req[c] EXCEPT !.stage = "found"].stage = "found"
          /\ [req[c] EXCEPT !.stage = "found"].target = req[c].target
          /\ [req[c] EXCEPT !.stage = "act"].stage = "act"
          /\ [req[c] EXCEPT !.stage = "act"].target = req[c].target
        BY <1>0, <1>13, ShapeOf DEF FindAccessToken, TouchAccessToken, AtCall, At
    <2>2. todo[c] # <<>> /\ req[c].stage \in Calling
        BY <1>13 DEF FindAccessToken, TouchAccessToken, AtCall, At
    <2>3. ASSUME NEW r, Goto(c, r), r.stage = "found" \/ (r.stage = "act" /\ TouchAccessToken(c)),
                 r.target = req[c].target
          PROVE  Moves(c)
        BY <2>2, <2>3 DEF Moves
    <2>4. \/ Done(c)
          \/ Goto(c, [req[c] EXCEPT !.stage = "found"])
          \/ (TouchAccessToken(c) /\ Goto(c, [req[c] EXCEPT !.stage = "act"]))
        BY Zenon, <1>13 DEF FindAccessToken, TouchAccessToken
    <2> QED
        BY <1>3, <2>1, <2>2, <2>3, <2>4
<1>14. CASE RevokeSession(c) \/ CreateInvite(c) \/ RevokeInvite(c)
    <2>1. Done(c) \/ \E es : Log(c, es)
        BY Zenon, <1>14 DEF RevokeSession, CreateInvite, RevokeInvite
    <2>2. todo[c] # <<>> /\ Logs(c)
        BY <1>14 DEF RevokeSession, CreateInvite, RevokeInvite, At, Logs
    <2> QED
        BY <1>1, <1>3, <2>1, <2>2
<1>15. CASE Use(c) \/ ListActivity(c)
    <2>1. Done(c) \/ Goto(c, Idle)
        BY Zenon, <1>15 DEF Use, ListActivity, Goto
    <2>2. todo[c] # <<>> /\ Idle.stage = "idle"
        BY <1>15 DEF Use, ListActivity, AtCall, At, Idle
    <2> QED
        BY <1>2, <1>3, <2>1, <2>2
<1>16. CASE RecordEvent(c)
    <2>1. \A rest : [req[c] EXCEPT !.log = rest].stage = "audit"
        BY <1>0, <1>16, ShapeOf DEF RecordEvent
    <2>2. Done(c) \/ \E rest : Goto(c, [req[c] EXCEPT !.log = rest])
        BY Zenon, <1>16 DEF RecordEvent
    <2>3. todo[c] # <<>> /\ Logs(c)
        BY <1>16 DEF RecordEvent, Logs
    <2>4. ASSUME NEW r, Goto(c, r), r.stage = "audit" PROVE Moves(c)
        BY <2>3, <2>4 DEF Moves
    <2> QED
        BY <1>3, <2>1, <2>2, <2>3, <2>4
<1> QED
    BY <1>4, <1>5, <1>6, <1>7, <1>8, <1>9, <1>10, <1>11, <1>12, <1>13, <1>14, <1>15, <1>16
       DEF Register, Login, Session

\* Only the login that starts comes to wait.
LEMMA FewerWait ==
    ASSUME IInv, NEW c \in Client, Moves(c), NEW k \in Key
    PROVE  /\ Waiting(k)' \subseteq Waiting(k) \cup {c}
           /\ ~LoginStart(c) => Waiting(k)' \subseteq Waiting(k) \ {c}
           /\ c \in Waiting(k)' => k = KeyOf(c)
<1>1. TypeOK /\ todo[c] # <<>>
    BY DEF IInv, Moves
<1>2. CASE Done(c)
    BY <1>1, <1>2, DoneMoves DEF Waiting, KeyOf, Typed, Idle
<1>3. ASSUME NEW r, Goto(c, r), r.stage = "begin" => LoginStart(c)
      PROVE  /\ Waiting(k)' \subseteq Waiting(k) \cup {c}
             /\ ~LoginStart(c) => Waiting(k)' \subseteq Waiting(k) \ {c}
             /\ c \in Waiting(k)' => k = KeyOf(c)
    BY <1>1, <1>3, GotoMoves DEF Waiting, KeyOf, Typed
<1> QED
    BY <1>2, <1>3 DEF Moves, Waiting, Idle

\* Unless a login starts, is charged or succeeds, those waiting at most give up.
LEMMA CalmKeepsBurst ==
    ASSUME BurstInv, UNCHANGED <<now, attempts, burst>>,
           \A k \in Key : Waiting(k)' \subseteq Waiting(k)
    PROVE  BurstInv'
<1> SUFFICES ASSUME NEW k \in Key PROVE Charged(k)'
    BY DEF BurstInv, BurstTypes
<1>1. Cardinality(Waiting(k)') <= Cardinality(Waiting(k))
    BY WaitingIsBounded, FS_Subset
<1>2. Charged(k) /\ burst[k] \in Nat
    BY DEF BurstInv, BurstTypes
<1>3. Cardinality(Waiting(k)') \in Nat /\ Cardinality(Waiting(k)) \in Nat
    BY WaitingIsBounded, FS_Subset, FS_CardinalityType
<1>4. Cardinality(ClientsOf(k[2])) \in Nat /\ ClientsOf(k[2])' = ClientsOf(k[2])
    BY WaitingIsBounded DEF ClientsOf
<1> QED
    BY <1>1, <1>2, <1>3, <1>4, LimiterBounds DEF Charged

\* A login passes the limiter only if what was admitted leaves no delay.
LEMMA StartKeepsBurst ==
    ASSUME IInv, BurstInv, NEW c \in Client, LoginStart(c)
    PROVE  BurstInv'
<1>1. TypeOK /\ todo[c] # <<>> /\ UNCHANGED <<now, attempts, burst>> /\ now \in Nat
    BY DEF LoginStart, At, cache, IInv, TypeOK
<1>2. PICK key \in Key : key = KeyOf(c)
    BY <1>1, TaskOf DEF KeyOf, Key
<1>3. Moves(c)
    BY ClientMoves DEF Login
<1>4. \A k \in Key : k # key => Waiting(k)' \subseteq Waiting(k)
    BY <1>2, <1>3, FewerWait
<1>5. CASE RetryAfter(attempts[key]) > 0
    <2>1. PICK es : Goto(c, [stage |-> "audit", log |-> es])
        BY <1>2, <1>5 DEF LoginStart, Log
    <2>2. req'[c].stage = "audit"
        BY <1>1, <2>1, GotoMoves
    <2>3. c \notin Waiting(key)'
        BY <2>2 DEF Waiting
    <2>4. Waiting(key)' \subseteq Waiting(key)
        BY <1>2, <1>3, <2>3, FewerWait
    <2> QED
        BY <1>1, <1>4, <2>4, CalmKeepsBurst
<1>6. CASE ~(RetryAfter(attempts[key]) > 0)
    <2>1. Charged(key)' 
        <3>1. /\ attempts[key].failures \in 0 .. MostFailures /\ attempts[key].last \in Nat
              /\ burst[key] \in Nat /\ Charged(key)
            BY <1>2 DEF BurstInv, BurstTypes
        <3>2. burst[key] > 0 => attempts[key].failures < FirstDelayed
            <4> DEFINE a     == attempts[key]
                       delay == Delays[a.failures - FirstDelayed + 1]
            <4> SUFFICES ASSUME burst[key] > 0, a.failures >= FirstDelayed PROVE FALSE
                BY <3>1, LimiterBounds
            <4>1. a.last = now /\ now \in Nat
                BY <1>1, <3>1 DEF Charged
            <4>2. a.failures \in FirstDelayed .. MostFailures
                BY <3>1, LimiterBounds
            <4>3. delay \in Nat /\ delay > 0
                BY ONLY <4>2, LimiterAssumption
            <4>4. RetryAfter(a) = IF a.last + delay - now > 0 THEN a.last + delay - now ELSE 0
                BY <3>1, LimiterBounds DEF RetryAfter
            <4> HIDE DEF a, delay
            <4>5. RetryAfter(a) > 0
                BY <4>1, <4>3, <4>4
            <4> QED
                BY <1>6, <4>5 DEF a
        <3> QED
            BY <1>1, <3>1, <3>2, LimiterBounds DEF Charged
    <2>2. ASSUME NEW k \in Key, k # key PROVE Charged(k)'
        <3>1. Cardinality(Waiting(k)') <= Cardinality(Waiting(k))
            BY <1>4, <2>2, WaitingIsBounded, FS_Subset
        <3>2. Charged(k) /\ burst[k] \in Nat
            BY DEF BurstInv, BurstTypes
        <3>3. Cardinality(Waiting(k)') \in Nat /\ Cardinality(Waiting(k)) \in Nat
            BY <1>4, <2>2, WaitingIsBounded, FS_Subset, FS_CardinalityType
        <3>4. Cardinality(ClientsOf(k[2])) \in Nat /\ ClientsOf(k[2])' = ClientsOf(k[2])
            BY WaitingIsBounded DEF ClientsOf
        <3> QED
            BY <1>1, <3>1, <3>2, <3>3, <3>4, LimiterBounds DEF Charged
    <2> QED
        BY <1>1, <2>1, <2>2 DEF BurstInv, BurstTypes
<1> QED
    BY <1>5, <1>6

\* A login that is charged no longer waits.
LEMMA ChargeKeepsBurst ==
    ASSUME IInv, BurstInv, NEW c \in Client, BeginLogin(c)
    PROVE  BurstInv'
<1>1. /\ TypeOK /\ todo[c] # <<>> /\ req[c].stage = "begin" /\ now' = now /\ now \in Nat
    BY DEF BeginLogin, At, IInv, TypeOK
<1>2. PICK key \in Key : key = KeyOf(c)
    BY <1>1, TaskOf DEF KeyOf, Key
<1> DEFINE new == RecordFailure(attempts[key])
<1>3. Moves(c) /\ ~LoginStart(c)
    BY <1>1, ClientMoves DEF Login, LoginStart, At
<1>4. /\ attempts' = [attempts EXCEPT ![key] = new]
      /\ burst' = [burst EXCEPT ![key] = burst[key] + 1]
    BY <1>2 DEF BeginLogin
<1>5. /\ attempts[key].failures \in 0 .. MostFailures /\ attempts[key].last \in Nat
      /\ burst[key] \in Nat /\ Charged(key)
    BY <1>2 DEF BurstInv, BurstTypes
<1>6. /\ new \in [failures : 0 .. MostFailures, last : Nat]
      /\ new.last = now /\ new.failures > 0
      /\ attempts[key].failures < FirstDelayed => new.failures <= attempts[key].failures + 1
      /\ burst[key] > 0 =>
            IF attempts[key].failures < FirstDelayed
            THEN new.failures = attempts[key].failures + 1
                 \/ (new.failures = MostFailures /\ attempts[key].failures = MostFailures)
            ELSE new.failures >= FirstDelayed
    <2> DEFINE n == attempts[key].failures
               m == IF n > 0 /\ now - attempts[key].last >= FailureReset THEN 1
                    ELSE IF n < MostFailures THEN n + 1 ELSE MostFailures
    <2>1. new = [failures |-> m, last |-> now]
        BY DEF RecordFailure
    <2>2. n \in Nat /\ n <= MostFailures /\ (burst[key] > 0 => n > 0 /\ attempts[key].last = now)
        BY <1>5, LimiterBounds DEF Charged
    <2>3. m \in 0 .. MostFailures /\ m > 0 /\ m <= n + 1
        BY <1>1, <1>5, <2>2, LimiterBounds
    <2>4. burst[key] > 0 => m = IF n < MostFailures THEN n + 1 ELSE MostFailures
        BY <1>1, <2>2, LimiterBounds
    <2> HIDE DEF m, n, new
    <2>5. new.failures = m /\ new.last = now
        BY <2>1
    <2>6. new \in [failures : 0 .. MostFailures, last : Nat]
        BY <1>1, <2>1, <2>3
    <2>7. burst[key] > 0 =>
            IF n < FirstDelayed
            THEN m = n + 1 \/ (m = MostFailures /\ n = MostFailures)
            ELSE m >= FirstDelayed
        BY <2>2, <2>4, LimiterBounds
    <2> QED
        BY <2>3, <2>5, <2>6, <2>7 DEF n
<1> HIDE DEF new
<1>7. BurstTypes'
    BY <1>2, <1>4, <1>5, <1>6 DEF BurstInv, BurstTypes
<1>8. /\ attempts'[key] = new /\ burst'[key] = burst[key] + 1
      /\ \A k \in Key : k # key => attempts'[k] = attempts[k] /\ burst'[k] = burst[k]
    BY <1>2, <1>4 DEF BurstInv, BurstTypes
<1>9. Charged(key)'
    <2>1. c \in Waiting(key) /\ Waiting(key)' \subseteq Waiting(key) \ {c}
        BY <1>1, <1>2, <1>3, FewerWait DEF Waiting
    <2>2. /\ Cardinality(Waiting(key) \ {c}) = Cardinality(Waiting(key)) - 1
          /\ Cardinality(Waiting(key)') <= Cardinality(Waiting(key) \ {c})
          /\ Cardinality(Waiting(key)') \in Nat
        BY <1>2, <2>1, WaitingIsBounded, FS_RemoveElement, FS_Subset, FS_CardinalityType
    <2>3. /\ Cardinality(Waiting(key)) \in Nat /\ Cardinality(ClientsOf(key[2])) \in Nat
          /\ Cardinality(Waiting(key)) <= Cardinality(ClientsOf(key[2]))
        BY <1>2, WaitingIsBounded
    <2>4. ClientsOf(key[2])' = ClientsOf(key[2])
        BY DEF ClientsOf
    <2>5. new.failures \in Nat
        BY <1>6, LimiterBounds
    <2>6. burst'[key] > 0 => new.failures > 0 /\ new.last = now'
        BY <1>1, <1>6
    <2>7. new.failures < FirstDelayed => burst'[key] <= new.failures
        BY <1>5, <1>6, <1>8, <2>5, LimiterBounds DEF Charged
    <2>8. new.failures >= FirstDelayed =>
            burst'[key] + Cardinality(Waiting(key)') <
                FirstDelayed + Cardinality(ClientsOf(key[2]))
        <3>1. CASE attempts[key].failures < FirstDelayed \/ burst[key] = 0
            <4>1. burst[key] < FirstDelayed
                BY <1>5, <3>1, LimiterBounds DEF Charged
            <4> QED
                BY <1>5, <1>8, <2>2, <2>3, <4>1, LimiterBounds
        <3>2. CASE attempts[key].failures >= FirstDelayed /\ burst[key] > 0
            <4>1. burst[key] + Cardinality(Waiting(key)) <
                    FirstDelayed + Cardinality(ClientsOf(key[2]))
                BY <1>5, <3>2 DEF Charged
            <4> QED
                BY <1>5, <1>8, <2>2, <2>3, <4>1, LimiterBounds
        <3> QED
            BY <1>5, <3>1, <3>2, LimiterBounds
    <2> QED
        BY <1>8, <2>4, <2>6, <2>7, <2>8 DEF Charged
<1>10. ASSUME NEW k \in Key, k # key PROVE Charged(k)'
    <2>1. Cardinality(Waiting(k)') <= Cardinality(Waiting(k)) /\ Cardinality(Waiting(k)') \in Nat
        BY <1>3, FewerWait, WaitingIsBounded, FS_Subset, FS_CardinalityType
    <2>2. Charged(k) /\ burst[k] \in Nat
        BY DEF BurstInv, BurstTypes
    <2>3. /\ Cardinality(Waiting(k)) \in Nat
          /\ Cardinality(ClientsOf(k[2])) \in Nat /\ ClientsOf(k[2])' = ClientsOf(k[2])
        BY WaitingIsBounded DEF ClientsOf
    <2> QED
        BY <1>1, <1>8, <1>10, <2>1, <2>2, <2>3, LimiterBounds DEF Charged
<1> QED
    BY <1>7, <1>9, <1>10 DEF BurstInv

\* A login that succeeds clears its key.
LEMMA SuccessKeepsBurst ==
    ASSUME IInv, BurstInv, NEW c \in Client, FinishLogin(c)
    PROVE  BurstInv'
<1>1. TypeOK /\ todo[c] # <<>> /\ now' = now /\ req[c].stage = "answered"
    BY DEF FinishLogin, At, IInv
<1>2. PICK key \in Key : key = KeyOf(c)
    BY <1>1, TaskOf DEF KeyOf, Key
<1>3. Moves(c) /\ ~LoginStart(c)
    BY <1>1, ClientMoves DEF Login, LoginStart, At
<1>4. \A k \in Key : Waiting(k)' \subseteq Waiting(k)
    BY <1>3, FewerWait
<1>5. CASE UNCHANGED <<attempts, burst>>
    BY <1>1, <1>4, <1>5, CalmKeepsBurst
<1>6. CASE /\ attempts' = [attempts EXCEPT ![key] = [failures |-> 0, last |-> 0]]
           /\ burst' = [burst EXCEPT ![key] = 0]
    <2>1. BurstTypes'
        BY <1>6, LimiterBounds DEF BurstInv, BurstTypes
    <2>2. Charged(key)'
        BY <1>6, LimiterBounds DEF BurstInv, BurstTypes, Charged
    <2>3. ASSUME NEW k \in Key, k # key PROVE Charged(k)'
        <3>1. attempts'[k] = attempts[k] /\ burst'[k] = burst[k]
            BY <1>6, <2>3 DEF BurstInv, BurstTypes
        <3>2. Cardinality(Waiting(k)') <= Cardinality(Waiting(k)) /\ Cardinality(Waiting(k)') \in Nat
            BY <1>4, WaitingIsBounded, FS_Subset, FS_CardinalityType
        <3>3. Charged(k) /\ burst[k] \in Nat
            BY DEF BurstInv, BurstTypes
        <3>4. /\ Cardinality(Waiting(k)) \in Nat
              /\ Cardinality(ClientsOf(k[2])) \in Nat /\ ClientsOf(k[2])' = ClientsOf(k[2])
            BY WaitingIsBounded DEF ClientsOf
        <3> QED
            BY <1>1, <3>1, <3>2, <3>3, <3>4, LimiterBounds DEF Charged
    <2> QED
        BY <2>1, <2>2, <2>3 DEF BurstInv
<1> QED
    BY Zenon, <1>2, <1>5, <1>6 DEF FinishLogin

\* When the clock moves the count starts again.
LEMMA ClearsBurst ==
    ASSUME BurstInv, burst' = [k \in Key |-> 0],
           attempts' \in [Key -> [failures : 0 .. MostFailures, last : Nat]]
    PROVE  BurstInv'
BY LimiterBounds DEF BurstInv, BurstTypes, Charged

LEMMA InitBurst == Init => BurstInv
<1> SUFFICES ASSUME Init PROVE BurstInv
    OBVIOUS
<1>1. BurstTypes
    BY LimiterBounds DEF Init, BurstTypes
<1>2. \A k \in Key : burst[k] = 0 /\ attempts[k].failures = 0
    BY DEF Init
<1> QED
    BY <1>1, <1>2, LimiterBounds DEF BurstInv, Charged

LEMMA StepBurst == IInv /\ BurstInv /\ [Next]_vars => BurstInv'
<1> SUFFICES ASSUME IInv, BurstInv, [Next]_vars PROVE BurstInv'
    OBVIOUS
<1>1. ASSUME NEW c \in Client, LoginStart(c) \/ BeginLogin(c) \/ FinishLogin(c)
      PROVE  BurstInv'
    BY <1>1, StartKeepsBurst, ChargeKeepsBurst, SuccessKeepsBurst
<1>2. ASSUME NEW c \in Client, UNCHANGED <<now, attempts, burst>>, ~LoginStart(c),
             Bootstrap(c) \/ Register(c) \/ Login(c) \/ Session(c) \/ RecordEvent(c)
      PROVE  BurstInv'
    <2>1. Moves(c)
        BY <1>2, ClientMoves
    <2>2. \A k \in Key : Waiting(k)' \subseteq Waiting(k)
        BY <1>2, <2>1, FewerWait
    <2> QED
        BY <1>2, <2>2, CalmKeepsBurst
<1>3. ASSUME NEW c \in Client,
             Bootstrap(c) \/ Register(c) \/ Login(c) \/ Session(c) \/ RecordEvent(c)
      PROVE  LoginStart(c) \/ BeginLogin(c) \/ FinishLogin(c) \/ UNCHANGED <<now, attempts, burst>>
    <2>1. CASE Bootstrap(c) \/ Register(c) \/ RecordEvent(c)
        BY <2>1 DEF Bootstrap, BootstrapStart, BootstrapLock, CreateBootstrap, Register,
           RegisterStart, RegisterFinish, LockInvite, CreateInvitedAccount, RecordEvent, cache
    <2>2. CASE Login(c)
        BY <2>2 DEF Login, ReportLoginFailure, AbandonLogin, IssueAccessToken, cache
    <2>3. CASE Session(c)
        BY <2>3 DEF Session, Call, FindAccessToken, TouchAccessToken, Use, RevokeSession,
           CreateInvite, RevokeInvite, ListActivity, cache
    <2> QED
        BY <1>3, <2>1, <2>2, <2>3
<1>4. CASE Tick
    BY <1>4, ClearsBurst DEF Tick, cache, BurstInv, BurstTypes
<1>5. CASE Crash
    <2>1. attempts' \in [Key -> [failures : 0 .. MostFailures, last : Nat]]
        BY <1>5, LimiterBounds DEF Crash
    <2> QED
        BY <1>5, <2>1, ClearsBurst DEF Crash
<1>6. CASE UNCHANGED vars
    <2>1. UNCHANGED <<now, attempts, burst>> /\ \A k \in Key : Waiting(k)' = Waiting(k)
        BY <1>6 DEF vars, cache, Waiting, KeyOf, Typed
    <2> QED
        BY <2>1, CalmKeepsBurst
<1> QED
    BY <1>1, <1>2, <1>3, <1>4, <1>5, <1>6 DEF Next, Finished

\* However logins that start together are checked and charged, fewer of them pass than
\* there are failures free of delay and clients at that origin together (startLogin,
\* LoginLimiter).
THEOREM BurstsAreBounded == Spec => []BurstIsBounded
<1>1. BurstInv => BurstIsBounded
    <2> SUFFICES ASSUME BurstInv, NEW k \in Key
                 PROVE  burst[k] < FirstDelayed + Cardinality(ClientsOf(k[2]))
        BY DEF BurstIsBounded, ClientsOf
    <2>1. /\ burst[k] \in Nat /\ attempts[k].failures \in 0 .. MostFailures /\ Charged(k)
        BY DEF BurstInv, BurstTypes
    <2> QED
        BY <2>1, WaitingIsBounded, LimiterBounds DEF Charged
<1> QED
    BY <1>1, Invariant, InitBurst, StepBurst, PTL DEF Spec

-----------------------------------------------------------------------------
(* The activity audit *)

Types == {"login.throttled", "login.failed", "login.succeeded", "session.created",
          "session.revoked", "invite.created", "invite.revoked", "registration.succeeded"}
Fact  == [type : Types, account : SUBSET Id, session : Nat, invite : Nat]
Entry == [event : Fact, at : Int]

\* What an event says has happened: the tables show it.
Happened(x) ==
    /\ x.type \in {"login.succeeded", "session.created"} =>
        x.session \in DOMAIN tokens /\ {tokens[x.session].account} = x.account
    /\ x.type = "session.revoked" =>
        x.session \in DOMAIN tokens /\ tokens[x.session].revoked
    /\ x.type = "invite.created" => x.invite \in DOMAIN invites
    /\ x.type = "invite.revoked" =>
        x.invite \in DOMAIN invites /\ invites[x.invite].revoked
    /\ x.type = "registration.succeeded" =>
        /\ \E a \in accounts : x.account = {a.id}
        /\ \E i \in DOMAIN invites : invites[i].consumedBy = x.account

\* Two events about one effect.
Same(x, y) ==
    /\ x.type = y.type
    /\ \/ x.type \in {"session.revoked", "session.created"} /\ x.session = y.session
       \/ x.type \in {"invite.revoked", "invite.created"} /\ x.invite = y.invite
       \/ x.type = "registration.succeeded" /\ x.account = y.account

\* What a client has still to record.
Due(c) == IF req[c].stage = "audit" THEN DOMAIN req[c].log ELSE {}

LogsAreTyped ==
    \A c \in Client : req[c].stage = "audit" => req[c].log \in Seq(Entry) \ {<<>>}

\* An invitation that is to be revoked was listed.
TargetsAreListed ==
    \A c \in Client :
        req[c].stage \in Calling /\ Head(todo[c]).op = "uninvite" =>
            req[c].target \in DOMAIN invites

\* What is recorded or still to be recorded has happened, and nothing twice.
RecordedHappened == \A e \in events : Happened(e.event)
DueHappened      == \A c \in Client : \A i \in Due(c) : Happened(req[c].log[i].event)
RecordedOnce     == \A e, g \in events : Same(e.event, g.event) => e = g
DueIsNew         == \A e \in events : \A c \in Client : \A i \in Due(c) :
                        ~Same(e.event, req[c].log[i].event)
DueOnce          == \A c, d \in Client : \A i \in Due(c) : \A j \in Due(d) :
                        Same(req[c].log[i].event, req[d].log[j].event) => c = d /\ i = j

AuditInv ==
    /\ LogsAreTyped /\ TargetsAreListed
    /\ RecordedHappened /\ DueHappened /\ RecordedOnce /\ DueIsNew /\ DueOnce

\* Rows stay, what is revoked stays revoked, and what is consumed stays so.
TablesGrow ==
    /\ DOMAIN tokens \subseteq DOMAIN tokens'
    /\ \A s \in DOMAIN tokens :
        /\ tokens'[s].account = tokens[s].account
        /\ tokens'[s].administrator = tokens[s].administrator
        /\ tokens[s].revoked => tokens'[s].revoked
    /\ DOMAIN invites \subseteq DOMAIN invites'
    /\ \A i \in DOMAIN invites :
        /\ invites[i].revoked => invites'[i].revoked
        /\ invites[i].consumedBy # {} => invites'[i].consumedBy = invites[i].consumedBy
    /\ accounts \subseteq accounts'

LEMMA StepGrows == IInv /\ [Next]_vars => TablesGrow
<1> SUFFICES ASSUME IInv, [Next]_vars PROVE TablesGrow
    OBVIOUS
<1>1. tokens \in Seq(Token) /\ invites \in Seq(Invite)
    BY DEF IInv, TypeOK
<1>2. CASE UNCHANGED <<tokens, invites, accounts>>
    BY <1>2 DEF TablesGrow
<1>3. ASSUME NEW c \in Client, CreateBootstrap(c) PROVE TablesGrow
    BY <1>3 DEF CreateBootstrap, TablesGrow
<1>4. ASSUME NEW c \in Client, CreateInvitedAccount(c) PROVE TablesGrow
    <2>1. req[c].stage = "invited"
        BY <1>4 DEF CreateInvitedAccount, At
    <2>2. invites[req[c].invite].consumedBy = {} /\ req[c].invite \in DOMAIN invites
        BY <2>1 DEF IInv, RowsAreHeld, Registering
    <2>3. CASE UNCHANGED <<accounts, invites>>
        BY <1>4, <2>3 DEF CreateInvitedAccount, TablesGrow
    <2>4. CASE invites' = [invites EXCEPT ![req[c].invite].consumedBy = {NewAccountID(c)}]
        <3>1. /\ DOMAIN invites' = DOMAIN invites
              /\ \A i \in DOMAIN invites : i # req[c].invite => invites'[i] = invites[i]
              /\ invites'[req[c].invite].revoked = invites[req[c].invite].revoked
            <4>1. PICK i \in DOMAIN invites : i = req[c].invite
                BY <2>2
            <4>2. invites[i] \in Invite
                BY <1>1
            <4>3. invites' = [invites EXCEPT ![i] = [invites[i] EXCEPT !.consumedBy = {NewAccountID(c)}]]
                BY <2>4, <4>1
            <4>4. [invites[i] EXCEPT !.consumedBy = {NewAccountID(c)}].revoked = invites[i].revoked
                BY <4>2 DEF Invite
            <4> QED
                BY <1>1, <4>1, <4>3, <4>4
        <3>2. accounts \subseteq accounts' /\ UNCHANGED tokens
            BY <1>4 DEF CreateInvitedAccount
        <3> QED
            BY <2>2, <3>1, <3>2 DEF TablesGrow
    <2> QED
        BY Zenon, <1>4, <2>3, <2>4 DEF CreateInvitedAccount
<1>5. ASSUME NEW c \in Client, IssueAccessToken(c) PROVE TablesGrow
    <2>1. PICK t : tokens' = Append(tokens, t)
        BY Zenon, <1>5 DEF IssueAccessToken
    <2>2. /\ DOMAIN tokens \subseteq DOMAIN tokens'
          /\ \A s \in DOMAIN tokens : tokens'[s] = tokens[s]
        BY <1>1, <2>1
    <2> QED
        BY <1>5, <2>2 DEF IssueAccessToken, TablesGrow
<1>6. ASSUME NEW c \in Client, TouchAccessToken(c) PROVE TablesGrow
    <2>1. tokens' = [tokens EXCEPT ![token[c]].used = now]
        BY <1>6 DEF TouchAccessToken
    <2>2. /\ DOMAIN tokens' = DOMAIN tokens
          /\ \A s \in DOMAIN tokens : /\ tokens'[s].account = tokens[s].account
                                      /\ tokens'[s].administrator = tokens[s].administrator
                                      /\ tokens'[s].revoked = tokens[s].revoked
        BY <1>1, <2>1 DEF Token
    <2> QED
        BY <1>6, <2>2 DEF TouchAccessToken, TablesGrow
<1>7. ASSUME NEW c \in Client, RevokeSession(c) PROVE TablesGrow
    <2>1. CASE UNCHANGED tokens
        BY <1>7, <2>1 DEF RevokeSession, TablesGrow
    <2>2. CASE tokens' = [tokens EXCEPT ![req[c].target].revoked = TRUE]
        <3>1. /\ DOMAIN tokens' = DOMAIN tokens
              /\ \A s \in DOMAIN tokens : /\ tokens'[s].account = tokens[s].account
                                          /\ tokens'[s].administrator = tokens[s].administrator
                                          /\ tokens[s].revoked => tokens'[s].revoked
            BY <1>1, <2>2 DEF Token
        <3> QED
            BY <1>7, <3>1 DEF RevokeSession, TablesGrow
    <2> QED
        BY Zenon, <1>7, <2>1, <2>2 DEF RevokeSession
<1>8. ASSUME NEW c \in Client, CreateInvite(c) PROVE TablesGrow
    <2>1. PICK n : invites' = Append(invites, n)
        BY Zenon, <1>8 DEF CreateInvite
    <2>2. /\ DOMAIN invites \subseteq DOMAIN invites'
          /\ \A i \in DOMAIN invites : invites'[i] = invites[i]
        BY <1>1, <2>1
    <2> QED
        BY <1>8, <2>2 DEF CreateInvite, TablesGrow
<1>9. ASSUME NEW c \in Client, RevokeInvite(c) PROVE TablesGrow
    <2>1. CASE UNCHANGED invites
        BY <1>9, <2>1 DEF RevokeInvite, TablesGrow
    <2>2. CASE invites' = [invites EXCEPT ![req[c].target].revoked = TRUE]
        <3>1. /\ DOMAIN invites' = DOMAIN invites
              /\ \A i \in DOMAIN invites :
                    /\ invites'[i].consumedBy = invites[i].consumedBy
                    /\ invites[i].revoked => invites'[i].revoked
            BY <1>1, <2>2 DEF Invite
        <3> QED
            BY <1>9, <3>1 DEF RevokeInvite, TablesGrow
    <2> QED
        BY Zenon, <1>9, <2>1, <2>2 DEF RevokeInvite
<1>10. ASSUME NEW c \in Client, Bootstrap(c) \/ Register(c) \/ Login(c) \/ Session(c) \/ RecordEvent(c)
       PROVE  TablesGrow
    <2>1. CASE Bootstrap(c) \/ Register(c) \/ RecordEvent(c)
        BY <1>2, <1>3, <1>4, <2>1 DEF Bootstrap, BootstrapStart, BootstrapLock, Register,
           RegisterStart, RegisterFinish, LockInvite, RecordEvent, db
    <2>2. CASE Login(c)
        BY <1>2, <1>5, <2>2 DEF Login, LoginStart, BeginLogin, FinishLogin,
           ReportLoginFailure, AbandonLogin, db
    <2>3. CASE Session(c)
        BY <1>2, <1>6, <1>7, <1>8, <1>9, <2>3 DEF Session, Call, FindAccessToken, Use,
           ListActivity, db
    <2> QED
        BY <1>10, <2>1, <2>2, <2>3
<1> QED
    BY <1>2, <1>10 DEF Next, Tick, Crash, Finished, vars, db

\* So what has happened has happened for good.
LEMMA HappenedStays ==
    ASSUME TablesGrow, NEW x, Happened(x)
    PROVE  Happened(x)'
<1>1. x.type = "registration.succeeded" =>
        /\ \E a \in accounts' : x.account = {a.id}
        /\ \E i \in DOMAIN invites' : invites'[i].consumedBy = x.account
    BY DEF Happened, TablesGrow
<1>2. x.type \in {"login.succeeded", "session.created"} =>
        x.session \in DOMAIN tokens' /\ {tokens'[x.session].account} = x.account
    BY DEF Happened, TablesGrow
<1>3. x.type = "session.revoked" =>
        x.session \in DOMAIN tokens' /\ tokens'[x.session].revoked
    BY DEF Happened, TablesGrow
<1>4. /\ x.type = "invite.created" => x.invite \in DOMAIN invites'
      /\ x.type = "invite.revoked" =>
            x.invite \in DOMAIN invites' /\ invites'[x.invite].revoked
    BY DEF Happened, TablesGrow
<1> QED
    BY <1>1, <1>2, <1>3, <1>4 DEF Happened

\* A step that leaves nothing more to record keeps the audit true.
LEMMA CalmKeepsAudit ==
    ASSUME IInv, AuditInv, TablesGrow, TargetsAreListed', events' \subseteq events,
           \A c \in Client : req'[c].stage = "audit" => req'[c] = req[c]
    PROVE  AuditInv'
<1>1. \A c \in Client : \A i \in Due(c)' :
        /\ req[c].stage = "audit" /\ i \in Due(c)
        /\ req'[c].log[i].event = req[c].log[i].event
    BY DEF Due
<1>2. LogsAreTyped'
    BY DEF AuditInv, LogsAreTyped
<1>3. RecordedHappened'
    BY HappenedStays DEF AuditInv, RecordedHappened
<1>4. DueHappened'
    <2>1. ASSUME NEW x, Happened(x) PROVE Happened(x)'
        BY <2>1, HappenedStays
    <2>2. ASSUME NEW c \in Client, NEW i \in Due(c)', NEW x, x = req'[c].log[i].event
          PROVE  Happened(x)'
        <3>1. x = req[c].log[i].event /\ i \in Due(c)
            BY <1>1, <2>2
        <3>2. Happened(x)
            BY <3>1 DEF AuditInv, DueHappened
        <3> QED
            BY <2>1, <3>2
    <2> QED
        BY <2>2 DEF DueHappened
<1>5. RecordedOnce'
    BY DEF AuditInv, RecordedOnce, Same
<1>6. DueIsNew'
    <2>1. ASSUME NEW e \in events', NEW c \in Client, NEW i \in Due(c)'
          PROVE  ~Same(e.event, req'[c].log[i].event)
        <3>1. e \in events /\ i \in Due(c) /\ req'[c].log[i].event = req[c].log[i].event
            BY <1>1
        <3> QED
            BY <3>1 DEF AuditInv, DueIsNew
    <2> QED
        BY <2>1 DEF DueIsNew, Same
<1>7. DueOnce'
    <2>1. ASSUME NEW c \in Client, NEW d \in Client, NEW i \in Due(c)', NEW j \in Due(d)',
                 Same(req'[c].log[i].event, req'[d].log[j].event)
          PROVE  c = d /\ i = j
        BY <1>1, <2>1 DEF AuditInv, DueOnce
    <2> QED
        BY <2>1 DEF DueOnce, Same
<1> QED
    BY <1>2, <1>3, <1>4, <1>5, <1>6, <1>7 DEF AuditInv

\* What is new to record has happened with the step, and neither had before nor
\* happened twice in it.
News(es) ==
    /\ es \in Seq(Entry) \ {<<>>}
    /\ \A i \in DOMAIN es : Happened(es[i].event)'
    /\ \A i \in DOMAIN es : \A y : Happened(y) => ~Same(es[i].event, y) /\ ~Same(y, es[i].event)
    /\ \A i, j \in DOMAIN es : Same(es[i].event, es[j].event) => i = j

LEMMA NewsKeepsAudit ==
    ASSUME IInv, AuditInv, TablesGrow, UNCHANGED events, NEW c \in Client,
           NEW es, Log(c, es), News(es)
    PROVE  AuditInv'
<1>1. /\ todo' = todo
      /\ req'[c] = [stage |-> "audit", log |-> es]
      /\ \A d \in Client : d # c => req'[d] = req[d]
    BY GotoMoves DEF Log, IInv
<1>2. Due(c)' = DOMAIN es /\ req'[c].stage = "audit" /\ req'[c].log = es
    BY <1>1 DEF Due
<1>3. \A d \in Client : d # c => Due(d)' = Due(d) /\ req'[d].log = req[d].log
    BY <1>1 DEF Due
<1>4. LogsAreTyped'
    BY <1>1 DEF AuditInv, LogsAreTyped, News
<1>5. TargetsAreListed'
    BY <1>1 DEF AuditInv, TargetsAreListed, TablesGrow, Calling
<1>6. RecordedHappened'
    BY HappenedStays DEF AuditInv, RecordedHappened
<1>7. DueHappened'
    <2>1. ASSUME NEW d \in Client, NEW i \in Due(d)', NEW x, x = req'[d].log[i].event
          PROVE  Happened(x)'
        <3>1. CASE d = c
            <4>1. i \in DOMAIN es /\ x = es[i].event
                BY <1>2, <2>1, <3>1
            <4> QED
                BY <4>1 DEF News
        <3>2. CASE d # c
            <4>1. i \in Due(d) /\ x = req[d].log[i].event
                BY <1>3, <2>1, <3>2
            <4>2. Happened(x)
                BY <4>1 DEF AuditInv, DueHappened
            <4> QED
                BY <4>2, HappenedStays
        <3> QED
            BY <3>1, <3>2
    <2> QED
        BY <2>1 DEF DueHappened
<1>8. RecordedOnce'
    BY DEF AuditInv, RecordedOnce, Same
<1>9. DueIsNew'
    <2>1. ASSUME NEW e \in events, NEW i \in DOMAIN es PROVE ~Same(e.event, es[i].event)
        BY DEF News, AuditInv, RecordedHappened
    <2>2. ASSUME NEW e \in events, NEW d \in Client, d # c, NEW i \in Due(d)
          PROVE  ~Same(e.event, req[d].log[i].event)
        BY DEF AuditInv, DueIsNew
    <2>3. ASSUME NEW e \in events', NEW d \in Client, NEW i \in Due(d)'
          PROVE  ~Same(e.event, req'[d].log[i].event)
        <3>1. e \in events
            OBVIOUS
        <3>2. CASE d = c
            BY <1>2, <2>1, <3>1, <3>2
        <3>3. CASE d # c
            BY <1>3, <2>2, <3>1, <3>3
        <3> QED
            BY <3>2, <3>3
    <2> QED
        BY <2>3 DEF DueIsNew, Same
<1>10. DueOnce'
    <2>1. ASSUME NEW d \in Client, d # c, NEW j \in Due(d), NEW i \in DOMAIN es
          PROVE  /\ ~Same(es[i].event, req[d].log[j].event)
                 /\ ~Same(req[d].log[j].event, es[i].event)
        BY DEF News, AuditInv, DueHappened
    <2>2. ASSUME NEW i \in DOMAIN es, NEW j \in DOMAIN es, Same(es[i].event, es[j].event)
          PROVE  i = j
        BY <2>2 DEF News
    <2>3. ASSUME NEW a \in Client, NEW b \in Client, a # c, b # c,
                 NEW i \in Due(a), NEW j \in Due(b),
                 Same(req[a].log[i].event, req[b].log[j].event)
          PROVE  a = b /\ i = j
        BY <2>3 DEF AuditInv, DueOnce
    <2>4. ASSUME NEW a \in Client, NEW b \in Client, NEW i \in Due(a)', NEW j \in Due(b)',
                 Same(req'[a].log[i].event, req'[b].log[j].event)
          PROVE  a = b /\ i = j
        <3>1. CASE a = c /\ b = c
            BY <1>2, <2>2, <2>4, <3>1
        <3>2. CASE a = c /\ b # c
            BY <1>2, <1>3, <2>1, <2>4, <3>2
        <3>3. CASE a # c /\ b = c
            BY <1>2, <1>3, <2>1, <2>4, <3>3
        <3>4. CASE a # c /\ b # c
            BY <1>3, <2>3, <2>4, <3>4
        <3> QED
            BY <3>1, <3>2, <3>3, <3>4
    <2> QED
        BY <2>4 DEF DueOnce, Same
<1> QED
    BY <1>4, <1>5, <1>6, <1>7, <1>8, <1>9, <1>10 DEF AuditInv

\* An event that is recorded was due, and is not any longer.
LEMMA RecordKeepsAudit ==
    ASSUME IInv, AuditInv, TablesGrow, TargetsAreListed', NEW c \in Client, RecordEvent(c)
    PROVE  AuditInv'
<1>1. /\ TypeOK /\ todo[c] # <<>> /\ req[c].stage = "audit"
      /\ req[c] = [stage |-> "audit", log |-> req[c].log]
    BY ShapeOf DEF RecordEvent, IInv
<1>2. PICK log \in Seq(Entry) \ {<<>>} : log = req[c].log
    BY <1>1 DEF AuditInv, LogsAreTyped
<1>3. PICK new : /\ new.event = Head(log).event
                 /\ events' = Retained \cup {new}
    <2> DEFINE new == [id |-> UUIDs[drawn + 1], event |-> Head(log).event,
                       at |-> IF Head(log).at = Unset THEN now ELSE Head(log).at]
    <2>1. new.event = Head(log).event /\ events' = Retained \cup {new}
        BY <1>2 DEF RecordEvent
    <2> QED
        BY <2>1
<1>4. Retained \subseteq events
    BY DEF Retained
<1>5. PICK left \in Seq(Entry) :
        /\ \A i \in DOMAIN left : i + 1 \in DOMAIN log /\ left[i] = log[i + 1]
        /\ \A d \in Client : d # c => req'[d] = req[d]
        /\ IF left = <<>> THEN req'[c] = Idle ELSE req'[c] = [stage |-> "audit", log |-> left]
    <2> DEFINE left == Tail(log)
    <2>1. /\ left \in Seq(Entry)
          /\ \A i \in DOMAIN left : i + 1 \in DOMAIN log /\ left[i] = log[i + 1]
        BY <1>2
    <2>2. CASE left = <<>>
        <3>1. Done(c)
            BY <1>2, <2>2 DEF RecordEvent
        <3> QED
            BY <1>1, <2>1, <2>2, <3>1, DoneMoves
    <2>3. CASE left # <<>>
        <3>1. Goto(c, [req[c] EXCEPT !.log = left])
            BY <1>2, <2>3 DEF RecordEvent
        <3>2. [req[c] EXCEPT !.log = left] = [stage |-> "audit", log |-> left]
            <4> HIDE DEF left
            <4> QED
                BY <1>1
        <3>3. Goto(c, [stage |-> "audit", log |-> left])
            BY <3>1, <3>2
        <3> QED
            BY ZenonT(40), <1>1, <2>1, <2>3, <3>3, GotoMoves
    <2> QED
        BY <2>2, <2>3
<1>6. /\ Due(c) = DOMAIN log /\ 1 \in Due(c) /\ new.event = req[c].log[1].event
    BY <1>1, <1>2, <1>3 DEF Due
<1>7. \A i \in Due(c)' : /\ i \in DOMAIN left /\ i + 1 \in Due(c) /\ i + 1 # 1
                         /\ req'[c].log[i].event = req[c].log[i + 1].event
    BY <1>2, <1>5, <1>6 DEF Due, Idle
<1>8. \A d \in Client : d # c => Due(d)' = Due(d) /\ req'[d].log = req[d].log
    BY <1>5 DEF Due
<1>9. \A x, y : Same(x, y) => Same(y, x)
    BY DEF Same
<1>10. LogsAreTyped'
    BY <1>5 DEF AuditInv, LogsAreTyped, Idle
<1>11. RecordedHappened'
    <2>1. Happened(new.event)
        BY <1>6 DEF AuditInv, DueHappened
    <2>2. ASSUME NEW e \in events' PROVE Happened(e.event)
        BY <1>3, <1>4, <2>1 DEF AuditInv, RecordedHappened
    <2> QED
        BY <2>2, HappenedStays DEF RecordedHappened
<1>12. DueHappened'
    <2>1. ASSUME NEW d \in Client, NEW i \in Due(d)', NEW x, x = req'[d].log[i].event
          PROVE  Happened(x)'
        <3>1. Happened(x)
            BY <1>7, <1>8, <2>1 DEF AuditInv, DueHappened
        <3> QED
            BY <3>1, HappenedStays
    <2> QED
        BY <2>1 DEF DueHappened
<1>13. RecordedOnce'
    <2>1. \A e \in events : ~Same(e.event, new.event) /\ ~Same(new.event, e.event)
        BY <1>6, <1>9 DEF AuditInv, DueIsNew
    <2>2. ASSUME NEW e \in events', NEW g \in events', Same(e.event, g.event) PROVE e = g
        BY <1>3, <1>4, <2>1, <2>2 DEF AuditInv, RecordedOnce
    <2> QED
        BY <2>2 DEF RecordedOnce, Same
<1>14. DueIsNew'
    <2>1. ASSUME NEW e \in events', NEW d \in Client, NEW i \in Due(d)'
          PROVE  ~Same(e.event, req'[d].log[i].event)
        <3>1. PICK j \in Due(d) : /\ req'[d].log[i].event = req[d].log[j].event
                                  /\ d = c => j # 1
            BY <1>7, <1>8
        <3>2. ~Same(new.event, req[d].log[j].event)
            BY <1>6, <3>1 DEF AuditInv, DueOnce
        <3>3. e \in events => ~Same(e.event, req[d].log[j].event)
            BY DEF AuditInv, DueIsNew
        <3> QED
            BY <1>3, <1>4, <3>1, <3>2, <3>3
    <2> QED
        BY <2>1 DEF DueIsNew, Same
<1>15. DueOnce'
    <2>1. ASSUME NEW a \in Client, NEW b \in Client, NEW i \in Due(a)', NEW j \in Due(b)',
                 Same(req'[a].log[i].event, req'[b].log[j].event)
          PROVE  a = b /\ i = j
        <3>1. CASE a = c /\ b = c
            <4>1. i + 1 = j + 1 /\ i \in DOMAIN left /\ j \in DOMAIN left
                BY <1>7, <2>1, <3>1 DEF AuditInv, DueOnce
            <4> QED
                BY <1>5, <3>1, <4>1
        <3>2. CASE a = c /\ b # c
            BY <1>7, <1>8, <2>1, <3>2 DEF AuditInv, DueOnce
        <3>3. CASE a # c /\ b = c
            BY <1>7, <1>8, <2>1, <3>3 DEF AuditInv, DueOnce
        <3>4. CASE a # c /\ b # c
            BY <1>8, <2>1, <3>4 DEF AuditInv, DueOnce
        <3> QED
            BY <3>1, <3>2, <3>3, <3>4
    <2> QED
        BY <2>1 DEF DueOnce, Same
<1> QED
    BY <1>10, <1>11, <1>12, <1>13, <1>14, <1>15 DEF AuditInv

\* Whom a client calls about is settled when it calls.
LEMMA StepTargets ==
    ASSUME IInv, AuditInv, [Next]_vars
    PROVE  TargetsAreListed'
<1>1. TablesGrow /\ TypeOK /\ TargetsAreListed
    BY StepGrows DEF IInv, AuditInv
<1>2. DOMAIN invites \subseteq DOMAIN invites'
    BY <1>1 DEF TablesGrow
<1>3. ASSUME NEW c \in Client, Moves(c) PROVE TargetsAreListed'
    <2>1. \A d \in Client : d # c => req'[d] = req[d] /\ todo'[d] = todo[d]
        BY <1>1, <1>3, DoneMoves, GotoMoves DEF Moves
    <2>2. req'[c].stage \in Calling /\ Head(todo'[c]).op = "uninvite" =>
            req'[c].target \in DOMAIN invites
        <3>1. CASE Done(c)
            BY <1>1, <1>3, <3>1, DoneMoves DEF Moves, Idle, Calling
        <3>2. CASE Call(c)
            <4>1. ASSUME NEW target \in Targets(c), NEW live,
                         Goto(c, [stage |-> "sent", target |-> target, live |-> live]),
                         Head(todo[c]).op = "uninvite"
                  PROVE  req'[c].target \in DOMAIN invites /\ todo' = todo
                <5>1. target \in DOMAIN invites
                    BY <4>1 DEF Targets
                <5> QED
                    BY <1>1, <4>1, <5>1, GotoMoves
            <4>2. CASE ~Done(c)
                <5>1. \E target \in Targets(c) : \E live :
                        Goto(c, [stage |-> "sent", target |-> target, live |-> live])
                    BY Zenon, <3>2, <4>2 DEF Call
                <5>2. todo' = todo
                    BY <1>1, <5>1, GotoMoves
                <5> QED
                    BY <4>1, <5>1, <5>2
            <4> QED
                BY <3>1, <4>2
        <3>3. ASSUME NEW r, Goto(c, r), r.stage \in Calling =>
                        req[c].stage \in Calling /\ r.target = req[c].target
              PROVE  req'[c].stage \in Calling /\ Head(todo'[c]).op = "uninvite" =>
                        req'[c].target \in DOMAIN invites
            BY <1>1, <3>3, GotoMoves DEF TargetsAreListed
        <3> QED
            BY <1>3, <3>1, <3>2, <3>3 DEF Moves
    <2> QED
        BY <1>1, <1>2, <2>1, <2>2 DEF TargetsAreListed
<1>4. CASE UNCHANGED <<req, todo>>
    BY <1>1, <1>2, <1>4 DEF TargetsAreListed
<1>5. CASE Crash
    <2>1. \A c \in Client : req'[c].stage \notin Calling
        BY <1>5 DEF Crash, Between, Calling, Idle
    <2> QED
        BY <2>1 DEF TargetsAreListed
<1> QED
    BY <1>3, <1>4, <1>5, ClientMoves DEF Next, Tick, Finished, vars

\* What leaves a step with nothing new to record.
NoNews == \A d \in Client : req'[d].stage = "audit" => req'[d] = req[d]

LEMMA MovesOn ==
    ASSUME IInv, NEW c \in Client, todo[c] # <<>>,
           Done(c) \/ \E r : Goto(c, r) /\ r.stage # "audit"
    PROVE  NoNews
BY DoneMoves, GotoMoves DEF NoNews, IInv, Idle

LEMMA OneNews ==
    ASSUME NEW x \in Fact, NEW at \in Int, Happened(x)',
           \A y : Happened(y) => ~Same(x, y)
    PROVE  News(<<Stamped(x, at)>>)
<1>0. PICK es : es = <<Stamped(x, at)>>
    OBVIOUS
<1>1. es \in Seq(Entry) \ {<<>>} /\ DOMAIN es = {1} /\ es[1].event = x
    BY <1>0 DEF Stamped, Entry
<1>2. \A y : Happened(y) => ~Same(x, y) /\ ~Same(y, x)
    BY DEF Same
<1>3. News(es)
    BY <1>1, <1>2 DEF News
<1> QED
    BY <1>0, <1>3

\* A login that fails tells of no effect.
LEMMA OnlySays ==
    ASSUME NEW x \in Fact, x.type \in {"login.throttled", "login.failed"}
    PROVE  News(<<Stamped(x, Unset)>>)
<1>1. Happened(x)' /\ \A y : ~Same(x, y)
    BY DEF Happened, Same
<1> QED
    BY <1>1, OneNews DEF Unset

Tells(c) == NoNews \/ \E es : Log(c, es) /\ News(es)

LEMMA LoginTells ==
    ASSUME IInv, NEW c \in Client,
           LoginStart(c) \/ FinishLogin(c) \/ ReportLoginFailure(c)
    PROVE  Tells(c)
<1>1. todo[c] # <<>> /\ accounts \subseteq Account /\ pending[c] \subseteq Started
    BY DEF LoginStart, FinishLogin, ReportLoginFailure, At, IInv, TypeOK
<1>2. ASSUME NEW account \in SUBSET Id, NEW type \in {"login.throttled", "login.failed"},
             Log(c, <<Stamped(Event(type, account, 0, 0), Unset)>>)
      PROVE  Tells(c)
    <2> DEFINE x == Event(type, account, 0, 0)
    <2>1. x \in Fact /\ x.type = type
        BY DEF Event, Fact, Types
    <2> HIDE DEF x
    <2>2. News(<<Stamped(x, Unset)>>)
        BY <2>1, OnlySays
    <2> QED
        BY <1>2, <2>2 DEF x, Tells
<1>3. CASE LoginFailed(c, pending[c])
    <2>1. PICK account : account = UNION {{a.id : a \in p.account} : p \in pending[c]}
        OBVIOUS
    <2>2. account \in SUBSET Id
        BY <1>1, <2>1 DEF Started, Account
    <2>3. Log(c, <<Stamped(Event("login.failed", account, 0, 0), Unset)>>)
        BY <1>3, <2>1 DEF LoginFailed
    <2> QED
        BY <1>2, <2>2, <2>3
<1>4. CASE LoginStart(c)
    <2>1. PICK account : account = {a.id : a \in FindAccount(Typed(c))}
        OBVIOUS
    <2>2. account \in SUBSET Id
        BY <1>1, <2>1 DEF FindAccount, Account
    <2>3. CASE Goto(c, [stage |-> "begin"])
        BY <1>1, <2>3, MovesOn DEF Tells
    <2>4. CASE Log(c, <<Stamped(Event("login.throttled", account, 0, 0), Unset)>>)
        BY <1>2, <2>2, <2>4
    <2> QED
        BY <1>4, <2>1, <2>3, <2>4 DEF LoginStart
<1>5. CASE FinishLogin(c)
    <2>1. LoginFailed(c, pending[c]) \/ \E a : Goto(c, [stage |-> "issue", account |-> a])
        BY Zenon, <1>5 DEF FinishLogin
    <2>2. ASSUME NEW a, Goto(c, [stage |-> "issue", account |-> a]) PROVE NoNews
        <3>1. PICK r : Goto(c, r) /\ r.stage # "audit"
            BY <2>2
        <3> QED
            BY <1>1, <3>1, MovesOn
    <2> QED
        BY <1>3, <2>1, <2>2 DEF Tells
<1>6. CASE ReportLoginFailure(c)
    BY <1>1, <1>3, <1>6, MovesOn DEF ReportLoginFailure, Tells
<1> QED
    BY <1>4, <1>5, <1>6

\* A session is told of with its account.
LEMMA IssueTells ==
    ASSUME IInv, NEW c \in Client, IssueAccessToken(c)
    PROVE  Tells(c)
<1>1. /\ todo[c] # <<>> /\ req[c].stage = "issue" /\ req[c].account \in Account
      /\ tokens \in Seq(Token) /\ now \in Nat
    BY ShapeOf DEF IssueAccessToken, At, IInv, TypeOK
<1>2. PICK s, id, at : s = Len(tokens) + 1 /\ id = req[c].account.id /\ at = now
    OBVIOUS
<1>3. s \in Nat /\ id \in Id /\ at \in Int /\ s \notin DOMAIN tokens
    BY <1>1, <1>2 DEF Account
<1>4. PICK x, z : x = SessionEvent("login.succeeded", id, s) /\ z = SessionEvent("session.created", id, s)
    OBVIOUS
<1>5. /\ x \in Fact /\ x.type = "login.succeeded" /\ x.session = s /\ x.account = {id}
      /\ z \in Fact /\ z.type = "session.created" /\ z.session = s /\ z.account = {id}
    BY <1>3, <1>4 DEF SessionEvent, Event, Fact, Types
<1>6. PICK es : es = <<Stamped(x, at), Stamped(z, at)>>
    OBVIOUS
<1>7. Log(c, es)
    BY <1>2, <1>4, <1>6 DEF IssueAccessToken
<1>8. s \in DOMAIN tokens' /\ tokens'[s].account = id
    BY <1>1, <1>2 DEF IssueAccessToken
<1>9. Happened(x)' /\ Happened(z)'
    BY <1>5, <1>8 DEF Happened
<1>10. \A y : Happened(y) => ~Same(x, y) /\ ~Same(y, x) /\ ~Same(z, y) /\ ~Same(y, z)
    BY <1>3, <1>5 DEF Happened, Same
<1>11. /\ es \in Seq(Entry) \ {<<>>} /\ DOMAIN es = {1, 2}
       /\ es[1].event = x /\ es[2].event = z
    BY <1>3, <1>5, <1>6 DEF Stamped, Entry
<1>12. ~Same(x, z) /\ ~Same(z, x)
    BY <1>5 DEF Same
<1>13. News(es)
    BY <1>9, <1>10, <1>11, <1>12 DEF News
<1> QED
    BY <1>7, <1>13 DEF Tells

\* A session is revoked once.
LEMMA RevokeSessionTells ==
    ASSUME IInv, NEW c \in Client, RevokeSession(c)
    PROVE  Tells(c)
<1>1. /\ todo[c] # <<>> /\ tokens \in Seq(Token)
    BY DEF RevokeSession, At, IInv, TypeOK
<1>2. CASE Done(c)
    BY <1>1, <1>2, MovesOn DEF Tells
<1>3. CASE ~Done(c)
    <2>1. PICK s, id : s = req[c].target /\ id = Row(c).account
        OBVIOUS
    <2>2. s \in DOMAIN tokens /\ tokens[s].account = id /\ ~tokens[s].revoked
        BY <1>3, <2>1 DEF RevokeSession, ListSessions
    <2>3. s \in Nat /\ id \in Id
        <3>1. s \in Nat /\ tokens[s] \in Token
            BY <1>1, <2>2
        <3> QED
            BY <2>2, <3>1 DEF Token
    <2>4. PICK x : x = SessionEvent("session.revoked", id, s)
        OBVIOUS
    <2>5. x \in Fact /\ x.type = "session.revoked" /\ x.session = s
        BY <2>3, <2>4 DEF SessionEvent, Event, Fact, Types
    <2>6. Log(c, <<Stamped(x, Unset)>>) /\ tokens' = [tokens EXCEPT ![s].revoked = TRUE]
        BY <1>3, <2>1, <2>4 DEF RevokeSession
    <2>7. s \in DOMAIN tokens' /\ tokens'[s].revoked
        <3>1. PICK row : row = [tokens[s] EXCEPT !.revoked = TRUE]
            OBVIOUS
        <3>2. tokens[s] \in Token
            BY <1>1, <2>2
        <3>3. row.revoked
            BY <3>1, <3>2 DEF Token
        <3>4. tokens' = [tokens EXCEPT ![s] = row]
            BY <2>6, <3>1
        <3> QED
            BY <1>1, <2>2, <3>3, <3>4
    <2>8. Happened(x)'
        BY <2>5, <2>7 DEF Happened
    <2>9. \A y : Happened(y) => ~Same(x, y)
        BY <2>2, <2>5 DEF Happened, Same
    <2>10. News(<<Stamped(x, Unset)>>)
        BY <2>5, <2>8, <2>9, OneNews DEF Unset
    <2> QED
        BY <2>6, <2>10 DEF Tells
<1> QED
    BY <1>2, <1>3

\* So is an invitation, and only one that was listed.
LEMMA InviteTells ==
    ASSUME IInv, AuditInv, NEW c \in Client, CreateInvite(c) \/ RevokeInvite(c)
    PROVE  Tells(c)
<1>1. /\ todo[c] # <<>> /\ req[c].stage = "act" /\ tokens \in Seq(Token)
      /\ invites \in Seq(Invite) /\ now \in Nat /\ token \in [Client -> Nat]
    BY DEF CreateInvite, RevokeInvite, At, IInv, TypeOK
<1>2. PICK id : id = Row(c).account
    OBVIOUS
<1>3. id \in Id
    <2>1. token[c] \in DOMAIN tokens
        BY <1>1 DEF IInv, CallsAreLive, Calling
    <2> QED
        <3>1. tokens[token[c]] \in Token
            BY <1>1, <2>1
        <3> QED
            BY <1>2, <3>1 DEF Row, Token
<1>4. CASE CreateInvite(c)
    <2>1. PICK i, at : i = Len(invites) + 1 /\ at = now
        OBVIOUS
    <2>2. i \in Nat /\ at \in Int /\ i \notin DOMAIN invites
        BY <1>1, <2>1
    <2>3. PICK x : x = Event("invite.created", {id}, 0, i)
        OBVIOUS
    <2>4. x \in Fact /\ x.type = "invite.created" /\ x.invite = i
        BY <1>3, <2>2, <2>3 DEF Event, Fact, Types
    <2>5. Log(c, <<Stamped(x, at)>>)
        BY <1>2, <1>4, <2>1, <2>3 DEF CreateInvite, InviteEvent
    <2>6. i \in DOMAIN invites'
        BY <1>1, <1>4, <2>1 DEF CreateInvite
    <2>7. Happened(x)'
        BY <2>4, <2>6 DEF Happened
    <2>8. \A y : Happened(y) => ~Same(x, y)
        BY <2>2, <2>4 DEF Happened, Same
    <2>9. News(<<Stamped(x, at)>>)
        BY <2>2, <2>4, <2>7, <2>8, OneNews
    <2> QED
        BY <2>5, <2>9 DEF Tells
<1>5. CASE RevokeInvite(c) /\ Done(c)
    BY <1>1, <1>5, MovesOn DEF Tells
<1>6. CASE RevokeInvite(c) /\ ~Done(c)
    <2>1. PICK i : i = req[c].target
        OBVIOUS
    <2>2. i \in DOMAIN invites
        BY <1>1, <1>6, <2>1 DEF RevokeInvite, At, AuditInv, TargetsAreListed, Calling
    <2>3. i \in Nat /\ ~invites[i].revoked
        BY <1>1, <1>6, <2>1, <2>2 DEF RevokeInvite
    <2>4. PICK x : x = Event("invite.revoked", {id}, 0, i)
        OBVIOUS
    <2>5. x \in Fact /\ x.type = "invite.revoked" /\ x.invite = i
        BY <1>3, <2>3, <2>4 DEF Event, Fact, Types
    <2>6. Log(c, <<Stamped(x, Unset)>>) /\ invites' = [invites EXCEPT ![i].revoked = TRUE]
        BY <1>2, <1>6, <2>1, <2>4 DEF RevokeInvite, InviteEvent
    <2>7. i \in DOMAIN invites' /\ invites'[i].revoked
        <3>1. PICK row : row = [invites[i] EXCEPT !.revoked = TRUE]
            OBVIOUS
        <3>2. invites[i] \in Invite
            BY <1>1, <2>2
        <3>3. row.revoked
            BY <3>1, <3>2 DEF Invite
        <3>4. invites' = [invites EXCEPT ![i] = row]
            BY <2>6, <3>1
        <3> QED
            BY <1>1, <2>2, <3>3, <3>4
    <2>8. Happened(x)'
        BY <2>5, <2>7 DEF Happened
    <2>9. \A y : Happened(y) => ~Same(x, y)
        BY <2>3, <2>5 DEF Happened, Same
    <2>10. News(<<Stamped(x, Unset)>>)
        BY <2>5, <2>8, <2>9, OneNews DEF Unset
    <2> QED
        BY <2>6, <2>10 DEF Tells
<1> QED
    BY <1>4, <1>5, <1>6

\* A registration is told of under an ID that no account had.
LEMMA RegistrationTells ==
    ASSUME IInv, NEW c \in Client, CreateInvitedAccount(c)
    PROVE  Tells(c)
<1>1. /\ TypeOK /\ todo[c] # <<>> /\ req[c].stage = "invited"
      /\ invites \in Seq(Invite) /\ req[c].at \in Nat
    BY ShapeOf DEF CreateInvitedAccount, At, IInv, TypeOK
<1>2. CASE Done(c)
    BY <1>1, <1>2, MovesOn DEF Tells
<1>3. CASE ~Done(c)
    <2>1. PICK id, at, i : id = NewAccountID(c) /\ at = req[c].at /\ i = req[c].invite
        OBVIOUS
    <2>2. id \in Id /\ at \in Int /\ i \in DOMAIN invites
        BY <1>1, <2>1, TaskOf DEF IInv, RowsAreHeld, Registering
    <2>3. \A a \in accounts : a.id # id
        <3>1. Len(todo[c]) \in Nat
            BY <1>1, TaskOf
        <3> QED
            BY <1>1, <2>1, <3>1 DEF IInv, IdsAreSpent, NewAccountID
    <2>4. PICK x : x = Event("registration.succeeded", {id}, 0, 0)
        OBVIOUS
    <2>5. x \in Fact /\ x.type = "registration.succeeded" /\ x.account = {id}
        BY <2>2, <2>4 DEF Event, Fact, Types
    <2>6. /\ Log(c, <<Stamped(x, at)>>)
          /\ \E a \in accounts' : a.id = id
          /\ invites' = [invites EXCEPT ![i].consumedBy = {id}]
        <3>1. /\ accounts' = accounts \cup
                     {[id |-> NewAccountID(c), email |-> Typed(c), administrator |-> FALSE]}
              /\ invites' = [invites EXCEPT ![req[c].invite].consumedBy = {NewAccountID(c)}]
              /\ Log(c, <<Stamped(Event("registration.succeeded", {NewAccountID(c)}, 0, 0),
                                  req[c].at)>>)
            BY Zenon, <1>3 DEF CreateInvitedAccount
        <3>2. PICK row : row = [id |-> id, email |-> Typed(c), administrator |-> FALSE]
            OBVIOUS
        <3>3. row \in accounts' /\ row.id = id
            BY <2>1, <3>1, <3>2
        <3> QED
            BY <2>1, <2>4, <3>1, <3>3
    <2>7. i \in DOMAIN invites' /\ invites'[i].consumedBy = {id}
        <3>1. PICK row : row = [invites[i] EXCEPT !.consumedBy = {id}]
            OBVIOUS
        <3>2. invites[i] \in Invite
            BY <1>1, <2>2
        <3>3. row.consumedBy = {id}
            BY <3>1, <3>2 DEF Invite
        <3>4. invites' = [invites EXCEPT ![i] = row]
            BY <2>6, <3>1
        <3> QED
            BY <1>1, <2>2, <3>3, <3>4
    <2>8. Happened(x)'
        BY <2>5, <2>6, <2>7 DEF Happened
    <2>9. \A y : Happened(y) => ~Same(x, y)
        BY <2>3, <2>5 DEF Happened, Same
    <2>10. News(<<Stamped(x, at)>>)
        BY <2>2, <2>5, <2>8, <2>9, OneNews
    <2> QED
        BY <2>6, <2>10 DEF Tells
<1> QED
    BY <1>2, <1>3

LEMMA InitAudit == Init => AuditInv
BY DEF Init, Idle, AuditInv, LogsAreTyped, TargetsAreListed, RecordedHappened, DueHappened,
   RecordedOnce, DueIsNew, DueOnce, Due, Calling

LEMMA StepAudit == IInv /\ AuditInv /\ [Next]_vars => AuditInv'
<1> SUFFICES ASSUME IInv, AuditInv, [Next]_vars PROVE AuditInv'
    OBVIOUS
<1>1. TablesGrow /\ TargetsAreListed'
    BY StepGrows, StepTargets
<1>2. ASSUME NoNews, events' \subseteq events PROVE AuditInv'
    BY <1>1, <1>2, CalmKeepsAudit DEF NoNews
<1>3. ASSUME NEW c \in Client, RecordEvent(c) PROVE AuditInv'
    BY <1>1, <1>3, RecordKeepsAudit
<1>4. ASSUME NEW c \in Client, Logs(c), ~RecordEvent(c) PROVE AuditInv'
    <2>1. Tells(c)
        BY <1>4, LoginTells, IssueTells, RevokeSessionTells, InviteTells, RegistrationTells
           DEF Logs
    <2>2. UNCHANGED events
        BY <1>4 DEF Logs, CreateInvitedAccount, LoginStart, FinishLogin, ReportLoginFailure,
           IssueAccessToken, RevokeSession, CreateInvite, RevokeInvite, db
    <2> QED
        BY <1>1, <1>2, <2>1, <2>2, NewsKeepsAudit DEF Tells
<1>5. ASSUME NEW c \in Client, ~Logs(c),
             Bootstrap(c) \/ Register(c) \/ Login(c) \/ Session(c) \/ RecordEvent(c)
      PROVE  AuditInv'
    <2>1. NoNews
        <3>1. Moves(c)
            BY <1>5, ClientMoves
        <3> QED
            BY <1>5, <3>1, MovesOn DEF Moves
    <2>2. events' \subseteq events
        <3>1. CASE Bootstrap(c) \/ Register(c) \/ Login(c)
            BY <1>5, <3>1 DEF Logs, Bootstrap, BootstrapStart, BootstrapLock, CreateBootstrap,
               Register, RegisterStart, RegisterFinish, LockInvite, Login, BeginLogin,
               AbandonLogin, db
        <3>2. CASE Session(c) /\ ~ListActivity(c)
            BY <1>5, <3>2 DEF Logs, Session, Call, FindAccessToken, TouchAccessToken, Use, db
        <3>3. CASE ListActivity(c)
            <4>1. events' = Retained
                BY Zenon, <3>3 DEF ListActivity
            <4> QED
                BY <4>1 DEF Retained
        <3> QED
            BY <1>5, <3>1, <3>2, <3>3 DEF Logs
    <2> QED
        BY <1>2, <2>1, <2>2
<1>6. CASE Tick \/ UNCHANGED vars
    BY <1>2, <1>6 DEF Tick, vars, db, NoNews
<1>7. CASE Crash
    <2>1. NoNews
        BY <1>7 DEF Crash, NoNews, Between, Idle
    <2> QED
        BY <1>2, <1>7, <2>1 DEF Crash, db
<1> QED
    BY <1>3, <1>4, <1>5, <1>6, <1>7 DEF Next, Finished

\* An event of the audit tells of an effect that the tables show, though it is recorded
\* after the effect and apart from it, and no effect is told of twice, whoever raced for
\* it (recordAudit, AuditLog.Record, SessionService.revoke, RevokeInvite).
THEOREM AuditTellsTheTruth == Spec => []AuditIsTrue
<1>1. AuditInv => AuditIsTrue
    <2> SUFFICES ASSUME AuditInv PROVE AuditIsTrue
        OBVIOUS
    <2>1. \A e \in events : Happened(e.event)
        BY DEF AuditInv, RecordedHappened
    <2>2. \A e, g \in events : Same(e.event, g.event) => e = g
        BY DEF AuditInv, RecordedOnce
    <2> QED
        BY <2>1, <2>2 DEF AuditIsTrue, Happened, Same
<1> QED
    BY <1>1, Invariant, InitAudit, StepAudit, PTL DEF Spec

-----------------------------------------------------------------------------
(* Paging through the activity *)

Listed == [id : Nat, event : Fact, at : Int]
Walk   == [open : BOOLEAN, known : SUBSET Listed, seen : Seq(Listed), cursor : SUBSET Listed]

\* The events that are listed before one.
Ahead(S, e) == {f \in S : Newer(f, e)}

LEMMA NewerOrders ==
    /\ \A e, f, g \in Listed : Newer(e, f) /\ Newer(f, g) => Newer(e, g)
    /\ \A e \in Listed : ~Newer(e, e)
    /\ \A e, f \in Listed : e.id # f.id => Newer(e, f) \/ Newer(f, e)
<1>1. \A e \in Listed : e.id \in Int /\ e.at \in Int
    BY DEF Listed
<1> QED
    BY <1>1 DEF Newer

\* Events with different IDs are listed in full and in order.
LEMMA NewestFirstOrders ==
    ASSUME NEW S \in SUBSET Listed, IsFiniteSet(S), \A e, g \in S : e.id = g.id => e = g
    PROVE  /\ NewestFirst(S) \in Seq(S)
           /\ Cardinality(S) \in Nat /\ Len(NewestFirst(S)) = Cardinality(S)
           /\ \A e \in S : \E i \in 1 .. Cardinality(S) : NewestFirst(S)[i] = e
           /\ \A i, j \in 1 .. Cardinality(S) :
                i < j => Newer(NewestFirst(S)[i], NewestFirst(S)[j])
<1> DEFINE rank == [e \in S |-> Cardinality(Ahead(S, e)) + 1]
           size == Cardinality(S)
<1>1. size \in Nat
    BY FS_CardinalityType
<1>2. ASSUME NEW e \in S
      PROVE  /\ IsFiniteSet(Ahead(S, e)) /\ Cardinality(Ahead(S, e)) \in Nat
             /\ Cardinality(Ahead(S, e)) < size
    <2>1. Ahead(S, e) \in SUBSET S /\ e \notin Ahead(S, e)
        BY NewerOrders DEF Ahead
    <2>2. /\ IsFiniteSet(Ahead(S, e)) /\ Cardinality(Ahead(S, e)) <= size
          /\ Cardinality(Ahead(S, e)) = size => Ahead(S, e) = S
        BY <2>1, FS_Subset
    <2> QED
        BY <1>1, <2>1, <2>2, FS_CardinalityType
<1>3. ASSUME NEW e \in S, NEW g \in S, Newer(e, g)
      PROVE  Cardinality(Ahead(S, e)) < Cardinality(Ahead(S, g))
    <2>1. Ahead(S, e) \in SUBSET Ahead(S, g) /\ e \in Ahead(S, g) /\ e \notin Ahead(S, e)
        BY <1>3, NewerOrders DEF Ahead
    <2>2. /\ Cardinality(Ahead(S, e)) <= Cardinality(Ahead(S, g))
          /\ Cardinality(Ahead(S, g)) = Cardinality(Ahead(S, e)) => Ahead(S, g) = Ahead(S, e)
        BY <1>2, <2>1, FS_Subset
    <2> QED
        BY <1>2, <2>1, <2>2
<1>4. rank \in [S -> 1 .. size]
    BY <1>1, <1>2
<1>5. \A e, g \in S : Newer(e, g) => rank[e] < rank[g]
    BY <1>2, <1>3
<1>6. \A e, g \in S : e # g => Newer(e, g) \/ Newer(g, e)
    <2> HIDE DEF rank
    <2> QED
        BY NewerOrders
<1>7. \A e, g \in S : rank[e] = rank[g] => e = g
    <2>1. \A e \in S : rank[e] \in Nat
        BY <1>4, <1>1
    <2> HIDE DEF rank
    <2> QED
        BY <1>5, <1>6, <2>1
<1>8. rank \in Surjection(S, 1 .. size)
    <2>1. rank \in Injection(S, 1 .. size)
        <3> HIDE DEF rank, size
        <3> QED
            BY <1>4, <1>7, Fun_IsInj
    <2>2. IsFiniteSet(1 .. size) /\ Cardinality(1 .. size) = size
        <3>1. 1 \in Int /\ size \in Int
            BY <1>1
        <3>2. /\ IsFiniteSet(1 .. size)
              /\ Cardinality(1 .. size) = IF 1 > size THEN 0 ELSE size - 1 + 1
            BY <3>1, FS_Interval
        <3> HIDE DEF size
        <3> QED
            BY <1>1, <3>2
    <2> HIDE DEF rank
    <2> QED
        BY <2>1, <2>2, FS_Injection
<1>9. \A i \in 1 .. size : \E e \in S : rank[e] = i
    <2> HIDE DEF rank, size
    <2> QED
        BY <1>8, Fun_SurjectionProperties
<1>10. ASSUME NEW i \in 1 .. size
       PROVE  NewestFirst(S)[i] \in S /\ rank[NewestFirst(S)[i]] = i
    <2>1. NewestFirst(S)[i] = CHOOSE e \in S : Cardinality(Ahead(S, e)) = i - 1
        BY DEF NewestFirst, Ahead
    <2>2. \E e \in S : Cardinality(Ahead(S, e)) = i - 1
        <3>1. PICK e \in S : rank[e] = i
            BY <1>9
        <3>2. Cardinality(Ahead(S, e)) + 1 = i /\ Cardinality(Ahead(S, e)) \in Nat
            BY <1>2, <3>1
        <3> QED
            BY <3>2
    <2>3. NewestFirst(S)[i] \in S /\ Cardinality(Ahead(S, NewestFirst(S)[i])) = i - 1
        BY <2>1, <2>2
    <2> QED
        BY <1>1, <2>3
<1>11. /\ NewestFirst(S) \in Seq(S) /\ Len(NewestFirst(S)) = size
    <2>1. NewestFirst(S) = [i \in 1 .. size |-> NewestFirst(S)[i]]
        <3> DEFINE Nth(i) == CHOOSE e \in S : Cardinality({f \in S : Newer(f, e)}) = i - 1
        <3>1. NewestFirst(S) = [i \in 1 .. size |-> Nth(i)]
            BY DEF NewestFirst
        <3> HIDE DEF Nth
        <3> QED
            BY <3>1
    <2> HIDE DEF rank, size
    <2> QED
        BY <1>1, <1>10, <2>1
<1>12. \A e \in S : \E i \in 1 .. size : NewestFirst(S)[i] = e
    <2> HIDE DEF rank, size
    <2> QED
        BY <1>4, <1>7, <1>10
<1>13. \A i, j \in 1 .. size : i < j => Newer(NewestFirst(S)[i], NewestFirst(S)[j])
    <2> HIDE DEF rank, size
    <2> QED
        BY <1>1, <1>5, <1>6, <1>10
<1> QED
    BY <1>1, <1>11, <1>12, <1>13

Descends(s) == \A i, j \in DOMAIN s : i < j => Newer(s[i], s[j])

\* A page that follows what was seen extends it in order.
LEMMA PageFollows ==
    ASSUME NEW start \in Seq(Listed), NEW page \in Seq(Listed),
           Descends(start), Descends(page),
           start # <<>> => \A j \in DOMAIN page : Newer(Last(start), page[j])
    PROVE  /\ start \o page \in Seq(Listed) /\ Descends(start \o page)
           /\ ToSet(start \o page) = ToSet(start) \cup ToSet(page)
           /\ page # <<>> => start \o page # <<>> /\ Last(start \o page) = Last(page)
<1> DEFINE seen == start \o page
<1>1. /\ seen \in Seq(Listed) /\ Len(start) \in Nat /\ Len(page) \in Nat
      /\ DOMAIN start = 1 .. Len(start) /\ DOMAIN page = 1 .. Len(page)
      /\ DOMAIN seen = 1 .. Len(start) + Len(page)
      /\ Len(seen) = Len(start) + Len(page)
    OBVIOUS
<1>2. /\ \A i \in 1 .. Len(start) : seen[i] = start[i] /\ start[i] \in Listed
      /\ \A i \in 1 .. Len(page) : seen[Len(start) + i] = page[i] /\ page[i] \in Listed
    OBVIOUS
<1>3. \A i \in DOMAIN seen :
        i \in 1 .. Len(start) \/ \E k \in 1 .. Len(page) : i = Len(start) + k
    <2>1. \A i \in DOMAIN seen : ~(i \in 1 .. Len(start)) =>
            i - Len(start) \in 1 .. Len(page) /\ i = Len(start) + (i - Len(start))
        BY <1>1
    <2> HIDE DEF seen
    <2> QED
        BY <2>1
<1>4. \A i \in 1 .. Len(start), k \in 1 .. Len(page) : Newer(start[i], page[k])
    <2> SUFFICES ASSUME NEW i \in 1 .. Len(start), NEW k \in 1 .. Len(page)
                 PROVE  Newer(start[i], page[k])
        OBVIOUS
    <2>1. start # <<>> /\ Len(start) \in 1 .. Len(start) /\ Last(start) = start[Len(start)]
        BY <1>1 DEF Last
    <2>2. Newer(start[Len(start)], page[k])
        BY <1>1, <2>1
    <2>3. i < Len(start) => Newer(start[i], start[Len(start)])
        BY <1>1, <2>1 DEF Descends
    <2>4. i < Len(start) \/ i = Len(start)
        <3>1. Len(start) \in Nat /\ i \in 1 .. Len(start)
            BY <1>1
        <3> QED
            BY <3>1
    <2> QED
        BY <1>2, <2>1, <2>2, <2>3, <2>4, NewerOrders
<1>5. ASSUME NEW i \in DOMAIN seen, NEW j \in DOMAIN seen, i < j
      PROVE  Newer(seen[i], seen[j])
    <2>1. CASE i \in 1 .. Len(start) /\ j \in 1 .. Len(start)
        <3> HIDE DEF seen
        <3> QED
            BY <1>1, <1>2, <1>5, <2>1 DEF Descends
    <2>2. CASE \E k \in 1 .. Len(page) : j = Len(start) + k
        <3>1. PICK k \in 1 .. Len(page) : j = Len(start) + k
            BY <2>2
        <3>2. CASE i \in 1 .. Len(start)
            <4> HIDE DEF seen
            <4> QED
                BY <1>2, <1>4, <3>1, <3>2
        <3>3. CASE \E h \in 1 .. Len(page) : i = Len(start) + h
            <4>1. PICK h \in 1 .. Len(page) : i = Len(start) + h
                BY <3>3
            <4>2. h < k
                BY <1>1, <1>5, <3>1, <4>1
            <4> HIDE DEF seen
            <4> QED
                BY <1>1, <1>2, <3>1, <4>1, <4>2 DEF Descends
        <3> HIDE DEF seen
        <3> QED
            BY <1>3, <3>2, <3>3
    <2>3. i \in 1 .. Len(start) \/ ~(j \in 1 .. Len(start))
        BY <1>1, <1>5
    <2> HIDE DEF seen
    <2> QED
        BY <1>3, <2>1, <2>2, <2>3
<1>6. ToSet(seen) = ToSet(start) \cup ToSet(page)
    <2>1. /\ \A i \in DOMAIN start : i \in DOMAIN seen
          /\ \A k \in DOMAIN page : Len(start) + k \in DOMAIN seen
        BY <1>1
    <2> HIDE DEF seen
    <2>2. ASSUME NEW e \in ToSet(seen) PROVE e \in ToSet(start) \cup ToSet(page)
        <3>1. PICK i \in DOMAIN seen : e = seen[i]
            BY DEF ToSet
        <3>2. \/ i \in DOMAIN start /\ e = start[i]
              \/ \E k \in DOMAIN page : e = page[k]
            BY <1>1, <1>2, <1>3, <3>1
        <3> QED
            BY <3>2 DEF ToSet
    <2>3. ASSUME NEW i \in DOMAIN start PROVE start[i] \in ToSet(seen)
        <3>1. i \in DOMAIN seen /\ seen[i] = start[i]
            BY <1>1, <1>2, <2>1
        <3> QED
            BY <3>1 DEF ToSet
    <2>4. ASSUME NEW k \in DOMAIN page PROVE page[k] \in ToSet(seen)
        <3>1. Len(start) + k \in DOMAIN seen /\ seen[Len(start) + k] = page[k]
            BY <1>1, <1>2, <2>1
        <3> QED
            BY <3>1 DEF ToSet
    <2>5. ToSet(start) \subseteq ToSet(seen) /\ ToSet(page) \subseteq ToSet(seen)
        <3>1. ASSUME NEW e \in ToSet(start) PROVE e \in ToSet(seen)
            BY <2>3 DEF ToSet
        <3>2. ASSUME NEW e \in ToSet(page) PROVE e \in ToSet(seen)
            BY <2>4 DEF ToSet
        <3> QED
            BY <3>1, <3>2
    <2> QED
        BY <2>2, <2>5
<1>7. page # <<>> => seen # <<>> /\ Last(seen) = Last(page)
    <2> SUFFICES ASSUME page # <<>> PROVE seen # <<>> /\ Last(seen) = Last(page)
        OBVIOUS
    <2>1. Len(page) \in 1 .. Len(page) /\ Len(seen) # 0
        BY <1>1
    <2>2. Last(seen) = seen[Len(start) + Len(page)] /\ Last(page) = page[Len(page)]
        BY <1>1 DEF Last
    <2>3. seen # <<>>
        BY <2>1
    <2> HIDE DEF seen
    <2> QED
        BY <1>2, <2>1, <2>2, <2>3
<1> HIDE DEF seen
<1>8. Descends(seen)
    BY <1>5 DEF Descends
<1> QED
    BY <1>1, <1>6, <1>7, <1>8 DEF seen

DrawnIds == {UUIDs[j] : j \in 1 .. drawn}

\* The rows of the audit are apart by their IDs.
EventsAreDrawn ==
    /\ events \in SUBSET Listed /\ IsFiniteSet(events)
    /\ drawn \in 0 .. Len(UUIDs)
    /\ \A e \in events : e.id \in DrawnIds
    /\ \A e, g \in events : e.id = g.id => e = g

\* What a client has seen runs from newer to older, up to its cursor.
SeenInOrder(c) ==
    /\ Descends(walk[c].seen)
    /\ walk[c].open => walk[c].seen # <<>> /\ walk[c].cursor = {Last(walk[c].seen)}
    /\ ~walk[c].open => walk[c].cursor = {}

\* Until it is at the end it keeps asking the same, and may.
WalkerStays(c) ==
    walk[c].open =>
        /\ todo[c] # <<>> /\ Head(todo[c]).op \in {"activity", "allActivity"}
        /\ req[c].stage \in {"idle"} \cup Calling
        /\ token[c] \in DOMAIN tokens
        /\ Head(todo[c]).op = "allActivity" => Row(c).administrator

\* What was there at first has been seen, or is still to come.
KnownIsSeen(c) ==
    /\ \A e \in walk[c].known :
        e.id \in DrawnIds /\ \A g \in events : e.id = g.id => e = g
    /\ \A e \in walk[c].known \cap events :
        \/ e \in ToSet(walk[c].seen)
        \/ walk[c].open /\ e \in Asked(c, {e}) /\ Newer(Last(walk[c].seen), e)

Walks(c) == SeenInOrder(c) /\ WalkerStays(c) /\ KnownIsSeen(c)

\* Whoever is served as an administrator is one.
AdminsAct(c) ==
    req[c].stage = "act" /\ Head(todo[c]).op \in AdminOps => Row(c).administrator

PagingInv ==
    /\ walk \in [Client -> Walk]
    /\ EventsAreDrawn
    /\ \A c \in Client : Walks(c) /\ AdminsAct(c)

\* What is recorded gets an ID of its own.
EventsFollow ==
    /\ DrawnIds \subseteq DrawnIds'
    /\ \A g \in events' : g \in events \/ g.id \notin DrawnIds

\* What comes of a walk nobody takes further.
LEMMA WalkKept ==
    ASSUME PagingInv, TablesGrow, EventsFollow, NEW c \in Client, walk'[c] = walk[c],
           walk[c].open => /\ todo'[c] = todo[c] /\ token'[c] = token[c]
                           /\ req'[c].stage \in {"idle"} \cup Calling
    PROVE  Walks(c)'
<1>1. Walks(c)
    BY DEF PagingInv
<1>2. SeenInOrder(c)'
    BY <1>1 DEF Walks, SeenInOrder
<1>3. walk[c].open =>
        /\ token'[c] \in DOMAIN tokens' /\ Row(c)'.administrator = Row(c).administrator
        /\ Row(c)'.account = Row(c).account
        /\ Head(todo'[c]).op = Head(todo[c]).op
    BY <1>1 DEF Walks, WalkerStays, TablesGrow, Row
<1>4. WalkerStays(c)'
    BY <1>1, <1>3 DEF Walks, WalkerStays
<1>5. \A e : walk[c].open /\ e \in Asked(c, {e}) => e \in Asked(c, {e})'
    BY <1>3 DEF Asked
<1>6. \A e \in walk[c].known : \A g \in events' : e.id = g.id => e = g
    BY <1>1 DEF Walks, KnownIsSeen, EventsFollow
<1>7. \A e \in walk[c].known \cap events' : e \in events
    BY <1>1 DEF Walks, KnownIsSeen, EventsFollow
<1>8. \A e \in walk[c].known : e.id \in DrawnIds'
    BY <1>1 DEF Walks, KnownIsSeen, EventsFollow
<1>9. \A e \in walk[c].known \cap events' :
        \/ e \in ToSet(walk[c].seen)
        \/ walk[c].open /\ e \in Asked(c, {e})' /\ Newer(Last(walk[c].seen), e)
    BY <1>1, <1>5, <1>7 DEF Walks, KnownIsSeen
<1>10. \A s, e : Newer(s, e)' <=> Newer(s, e)
    BY DEF Newer
<1>11. KnownIsSeen(c)'
    BY <1>6, <1>8, <1>9 DEF KnownIsSeen, Newer
<1> QED
    BY <1>2, <1>4, <1>11 DEF Walks

\* A client that gives up walks no more.
LEMMA NoWalkIsTrue ==
    ASSUME NEW c \in Client, walk'[c] = NoWalk
    PROVE  Walks(c)'
<1>1. walk'[c].open = FALSE /\ walk'[c].known = {} /\ walk'[c].seen = <<>> /\ walk'[c].cursor = {}
    BY DEF NoWalk
<1>2. Descends(walk'[c].seen)
    BY <1>1 DEF Descends
<1> QED
    BY <1>1, <1>2 DEF Walks, SeenInOrder, WalkerStays, KnownIsSeen, Descends, Newer

LEMMA NoWalkType == NoWalk \in Walk
BY DEF NoWalk, Walk

LEMMA InitPaging == Init => PagingInv
<1> SUFFICES ASSUME Init PROVE PagingInv
    OBVIOUS
<1>1. walk = [c \in Client |-> NoWalk]
    BY DEF Init
<1>2. walk \in [Client -> Walk]
    BY <1>1, NoWalkType
<1>3. EventsAreDrawn
    <2>1. events = {} /\ drawn = 0 /\ Len(UUIDs) \in Nat
        BY AccountsAssumption DEF Init, AccountsAssumption
    <2> QED
        BY <2>1, FS_EmptySet DEF EventsAreDrawn
<1>4. ASSUME NEW c \in Client PROVE Walks(c)
    <2>1. walk[c].open = FALSE /\ walk[c].known = {} /\ walk[c].seen = <<>> /\ walk[c].cursor = {}
        BY <1>1 DEF NoWalk
    <2>2. Descends(walk[c].seen)
        BY <2>1 DEF Descends
    <2> QED
        BY <2>1, <2>2 DEF Walks, SeenInOrder, WalkerStays, KnownIsSeen
<1>5. ASSUME NEW c \in Client PROVE AdminsAct(c)
    BY DEF Init, Idle, AdminsAct
<1> QED
    BY <1>2, <1>3, <1>4, <1>5 DEF PagingInv

LEMMA StepEvents ==
    ASSUME IInv, AuditInv, PagingInv, [Next]_vars
    PROVE  EventsAreDrawn' /\ EventsFollow
<1>1. EventsAreDrawn /\ Len(UUIDs) \in Nat
    BY AccountsAssumption DEF PagingInv, AccountsAssumption
<1>2. CASE events' \subseteq events /\ drawn' = drawn
    <2>1. IsFiniteSet(events')
        BY <1>1, <1>2, FS_Subset DEF EventsAreDrawn
    <2>2. DrawnIds' = DrawnIds
        BY <1>2 DEF DrawnIds
    <2>3. EventsAreDrawn'
        BY <1>1, <1>2, <2>1, <2>2 DEF EventsAreDrawn
    <2> QED
        BY <1>2, <2>2, <2>3 DEF EventsFollow
<1>3. ASSUME NEW c \in Client, RecordEvent(c) PROVE EventsAreDrawn' /\ EventsFollow
    <2>1. PICK log \in Seq(Entry) \ {<<>>} : log = req[c].log
        BY <1>3 DEF RecordEvent, AuditInv, LogsAreTyped
    <2>2. drawn < Len(UUIDs) /\ drawn \in Nat /\ drawn' = drawn + 1 /\ drawn + 1 \in 1 .. Len(UUIDs)
        BY <1>1, <1>3 DEF RecordEvent, EventsAreDrawn
    <2>3. UUIDs \in Seq(Nat) /\ \A i, j \in DOMAIN UUIDs : UUIDs[i] = UUIDs[j] => i = j
        BY AccountsAssumption DEF AccountsAssumption, IsInjective
    <2>4. UUIDs[drawn + 1] \in Nat /\ UUIDs[drawn + 1] \notin DrawnIds
        <3>1. \A j \in 1 .. drawn : j \in DOMAIN UUIDs /\ j # drawn + 1
            BY <2>2, <2>3
        <3> QED
            BY <2>2, <2>3, <3>1 DEF DrawnIds
    <2>5. DrawnIds' = DrawnIds \cup {UUIDs[drawn + 1]}
        <3>1. 1 .. drawn' = (1 .. drawn) \cup {drawn + 1}
            BY <2>2
        <3> QED
            BY <3>1 DEF DrawnIds
    <2>6. PICK new \in Listed : new.id = UUIDs[drawn + 1] /\ events' = Retained \cup {new}
        <3>1. Head(log) \in Entry /\ now \in Int
            BY <2>1 DEF IInv, TypeOK
        <3> DEFINE new == [id |-> UUIDs[drawn + 1], event |-> Head(log).event,
                           at |-> IF Head(log).at = Unset THEN now ELSE Head(log).at]
        <3>2. new \in Listed /\ new.id = UUIDs[drawn + 1]
            BY <2>4, <3>1 DEF Listed, Entry
        <3>3. events' = Retained \cup {new}
            BY <1>3, <2>1 DEF RecordEvent
        <3> QED
            BY <3>2, <3>3
    <2>7. Retained \in SUBSET events
        BY DEF Retained
    <2>8. IsFiniteSet(events')
        BY <1>1, <2>6, <2>7, FS_Subset, FS_AddElement DEF EventsAreDrawn
    <2>9. \A e, g \in events' : e.id = g.id => e = g
        BY <1>1, <2>4, <2>6, <2>7 DEF EventsAreDrawn
    <2>10. EventsAreDrawn'
        BY <1>1, <2>2, <2>5, <2>6, <2>7, <2>8, <2>9 DEF EventsAreDrawn
    <2> QED
        BY <2>4, <2>5, <2>6, <2>7, <2>10 DEF EventsFollow
<1>4. ASSUME NEW c \in Client, Bootstrap(c) \/ Register(c) \/ Login(c) \/ Session(c)
      PROVE  events' \subseteq events /\ drawn' = drawn
    <2>1. CASE Bootstrap(c) \/ Register(c)
        BY <2>1 DEF Bootstrap, BootstrapStart, BootstrapLock, CreateBootstrap, Register,
           RegisterStart, RegisterFinish, LockInvite, CreateInvitedAccount, db
    <2>2. CASE Login(c)
        BY <2>2 DEF Login, LoginStart, BeginLogin, FinishLogin, IssueAccessToken,
           ReportLoginFailure, AbandonLogin, db
    <2>3. CASE ListActivity(c)
        BY <2>3 DEF ListActivity, Retained
    <2>4. CASE Session(c) /\ ~ListActivity(c)
        BY <2>4 DEF Session, Call, FindAccessToken, TouchAccessToken, Use, RevokeSession,
           CreateInvite, RevokeInvite, db
    <2> QED
        BY <1>4, <2>1, <2>2, <2>3, <2>4
<1>5. Tick \/ Crash \/ Finished \/ UNCHANGED vars => UNCHANGED <<events, drawn>>
    BY DEF Tick, Crash, Finished, vars, db
<1> QED
    BY <1>2, <1>3, <1>4, <1>5 DEF Next

\* A client that is not at the end of its walk is at one of its requests.
LEMMA WalkersCall ==
    ASSUME NEW c \in Client, WalkerStays(c), walk[c].open,
           Bootstrap(c) \/ Register(c) \/ Login(c) \/ Session(c) \/ RecordEvent(c)
    PROVE  Call(c) \/ FindAccessToken(c) \/ TouchAccessToken(c) \/ ListActivity(c)
<1>1. /\ Head(todo[c]).op \in {"activity", "allActivity"}
      /\ req[c].stage \in {"idle", "sent", "found", "act"}
    BY DEF WalkerStays, Calling
<1>2. /\ ~Bootstrap(c) /\ ~Register(c) /\ ~RecordEvent(c)
      /\ ~Use(c) /\ ~RevokeSession(c) /\ ~CreateInvite(c) /\ ~RevokeInvite(c)
    BY <1>1 DEF Bootstrap, BootstrapStart, BootstrapLock, CreateBootstrap, Register,
       RegisterStart, RegisterFinish, LockInvite, CreateInvitedAccount, RecordEvent,
       Use, RevokeSession, CreateInvite, RevokeInvite, At
<1>3. ~Login(c)
    BY <1>1 DEF Login, LoginStart, BeginLogin, FinishLogin, ReportLoginFailure, AbandonLogin,
       IssueAccessToken, At
<1> QED
    BY <1>2, <1>3 DEF Session

LEMMA StepAdmins ==
    ASSUME IInv, PagingInv, TablesGrow, NEW c \in Client, Moves(c),
           token'[c] = token[c] \/ IssueAccessToken(c)
    PROVE  AdminsAct(c)'
<1>1. TypeOK /\ todo[c] # <<>>
    BY DEF IInv, Moves
<1>2. CASE Done(c)
    BY <1>1, <1>2, DoneMoves DEF AdminsAct, Idle
<1>3. ASSUME NEW r, Goto(c, r), r.stage = "act" => TouchAccessToken(c)
      PROVE  AdminsAct(c)'
    <2>1. req'[c] = r /\ todo' = todo
        BY <1>1, <1>3, GotoMoves
    <2>2. CASE r.stage # "act"
        BY <2>1, <2>2 DEF AdminsAct
    <2>3. CASE r.stage = "act"
        <3>1. TouchAccessToken(c)
            BY <1>3, <2>3
        <3>2. req[c].stage = "found" /\ token' = token
            BY <3>1 DEF TouchAccessToken, AtCall, At
        <3>3. token[c] \in DOMAIN tokens
            BY <1>1, <3>2 DEF IInv, CallsAreLive, TypeOK, Calling
        <3>4. Head(todo[c]).op \in AdminOps => Row(c).administrator
            <4>1. req'[c].stage # "idle"
                BY <2>1, <2>3
            <4>2. ~Done(c)
                BY <1>1, <4>1, DoneMoves DEF Idle
            <4> QED
                BY <3>1, <4>2 DEF TouchAccessToken
        <3>5. Row(c)'.administrator = Row(c).administrator
            BY <3>2, <3>3 DEF Row, TablesGrow
        <3> QED
            BY <2>1, <3>4, <3>5 DEF AdminsAct
    <2> QED
        BY <2>2, <2>3
<1> QED
    BY <1>2, <1>3 DEF Moves

\* The page a client gets.
LEMMA PageOf ==
    ASSUME NEW S \in SUBSET Listed, IsFiniteSet(S), \A e, g \in S : e.id = g.id => e = g,
           NEW page,
           page = IF Len(NewestFirst(S)) > PageSize THEN SubSeq(NewestFirst(S), 1, PageSize)
                                                   ELSE NewestFirst(S)
    PROVE  /\ page \in Seq(Listed) /\ Descends(page)
           /\ \A j \in DOMAIN page : page[j] \in S
           /\ Len(NewestFirst(S)) > PageSize =>
                page # <<>> /\ \A e \in S : e \in ToSet(page) \/ Newer(Last(page), e)
           /\ ~(Len(NewestFirst(S)) > PageSize) => S \subseteq ToSet(page)
<1>1. PageSize \in Nat /\ PageSize > 0
    BY AccountsAssumption DEF AccountsAssumption
<1>0. PICK n \in Nat : n = Cardinality(S)
    BY NewestFirstOrders
<1>2. PICK found \in Seq(S) :
        /\ found = NewestFirst(S) /\ Len(found) = n
        /\ \A e \in S : \E i \in 1 .. n : found[i] = e
        /\ \A i, j \in 1 .. n : i < j => Newer(found[i], found[j])
    BY <1>0, NewestFirstOrders
<1>3. \A i \in 1 .. n : found[i] \in S
    BY <1>2
<1>4. CASE n > PageSize
    <2>1. /\ page = SubSeq(found, 1, PageSize)
          /\ page \in Seq(S) /\ Len(page) = PageSize /\ DOMAIN page = 1 .. PageSize
          /\ \A i \in 1 .. PageSize : page[i] = found[i]
        BY <1>1, <1>2, <1>4
    <2>2. /\ \A i \in 1 .. PageSize : i \in 1 .. n
          /\ \A i \in 1 .. n : i \in 1 .. PageSize \/ PageSize < i
          /\ PageSize \in 1 .. PageSize /\ PageSize \in 1 .. n
        BY <1>1, <1>2, <1>4
    <2>3. Last(page) = found[PageSize] /\ page # <<>>
        BY <1>1, <2>1, <2>2 DEF Last
    <2>4. Descends(page)
        BY <1>2, <2>1, <2>2 DEF Descends
    <2>5. ASSUME NEW e \in S PROVE e \in ToSet(page) \/ Newer(Last(page), e)
        <3>1. PICK i \in 1 .. n : found[i] = e
            BY <1>2
        <3>2. CASE i \in 1 .. PageSize
            BY <2>1, <3>1, <3>2 DEF ToSet
        <3>3. CASE PageSize < i
            BY <1>2, <2>2, <2>3, <3>1, <3>3
        <3> QED
            BY <2>2, <3>2, <3>3
    <2>6. page \in Seq(Listed) /\ \A j \in DOMAIN page : page[j] \in S
        BY <2>1
    <2> QED
        BY <1>2, <1>4, <2>3, <2>4, <2>5, <2>6
<1>5. CASE ~(n > PageSize)
    <2>1. page = found /\ DOMAIN page = 1 .. n
        BY <1>2, <1>5
    <2>2. Descends(page)
        BY <1>2, <2>1 DEF Descends
    <2>3. ASSUME NEW e \in S PROVE e \in ToSet(page)
        <3>1. PICK i \in 1 .. n : found[i] = e
            BY <1>2
        <3>2. i \in DOMAIN page /\ page[i] = e
            BY <2>1, <3>1
        <3> QED
            BY <3>2 DEF ToSet
    <2>4. page \in Seq(S)
        BY <2>1
    <2>5. page \in Seq(Listed) /\ \A j \in DOMAIN page : page[j] \in S
        BY <2>4
    <2> QED
        BY <1>2, <1>5, <2>2, <2>3, <2>5
<1> QED
    BY <1>4, <1>5

\* The next page takes the walk further, or to its end.
LEMMA ListingWalks ==
    ASSUME IInv, AuditInv, PagingInv, TablesGrow, EventsFollow, NEW c \in Client, ListActivity(c)
    PROVE  walk' \in [Client -> Walk] /\ Walks(c)' /\ \A d \in Client : d # c => walk'[d] = walk[d]
<1>1. /\ Walks(c) /\ walk \in [Client -> Walk] /\ EventsAreDrawn /\ TypeOK /\ AdminsAct(c)
      /\ walk[c] \in Walk
    BY DEF PagingInv, IInv
<1>2. PICK S : S = Asked(c, Beyond(walk[c].cursor))
    OBVIOUS
<1>3. /\ Retained \subseteq events /\ events' = Retained /\ UNCHANGED <<tokens, token>>
      /\ Head(todo[c]).op \in {"activity", "allActivity"}
      /\ todo[c] # <<>> /\ req[c].stage = "act"
    BY DEF ListActivity, Retained, AtCall, At
<1>4. S \subseteq Retained
    BY <1>2 DEF Asked, Beyond
<1>5. S \in SUBSET Listed /\ IsFiniteSet(S) /\ \A e, g \in S : e.id = g.id => e = g
    BY <1>1, <1>3, <1>4, FS_Subset DEF EventsAreDrawn
<1>6. PICK more \in BOOLEAN : more = (Len(NewestFirst(S)) > PageSize)
    <2>1. (Len(NewestFirst(S)) > PageSize) \in BOOLEAN
        OBVIOUS
    <2> QED
        BY Zenon, <2>1
<1>7. PICK page : page = IF Len(NewestFirst(S)) > PageSize THEN SubSeq(NewestFirst(S), 1, PageSize)
                                                          ELSE NewestFirst(S)
    OBVIOUS
<1>8. /\ page \in Seq(Listed) /\ Descends(page)
      /\ \A j \in DOMAIN page : page[j] \in S
      /\ more => page # <<>> /\ \A e \in S : e \in ToSet(page) \/ Newer(Last(page), e)
      /\ ~more => S \subseteq ToSet(page)
    <2>1. /\ page \in Seq(Listed) /\ Descends(page)
          /\ \A j \in DOMAIN page : page[j] \in S
          /\ Len(NewestFirst(S)) > PageSize =>
                page # <<>> /\ \A e \in S : e \in ToSet(page) \/ Newer(Last(page), e)
          /\ ~(Len(NewestFirst(S)) > PageSize) => S \subseteq ToSet(page)
        BY ZenonT(40), <1>5, <1>7, PageOf
    <2> QED
        BY <1>6, <2>1
<1>9. PICK known : known = IF walk[c].open THEN walk[c].known ELSE Asked(c, Retained)
    OBVIOUS
<1>10. PICK start : start = IF walk[c].open THEN walk[c].seen ELSE <<>>
    OBVIOUS
<1>11. /\ walk' = [walk EXCEPT ![c] =
               [open |-> more, known |-> known, seen |-> start \o page,
                cursor |-> IF more THEN {Last(page)} ELSE {}]]
       /\ IF more THEN req' = [req EXCEPT ![c] = Idle] /\ UNCHANGED todo ELSE Done(c)
    BY <1>2, <1>6, <1>7, <1>9, <1>10 DEF ListActivity
<1>12. start \in Seq(Listed) /\ known \in SUBSET Listed
    <2>1. Asked(c, Retained) \subseteq events
        BY <1>3 DEF Asked
    <2> QED
        BY <1>1, <1>9, <1>10, <2>1 DEF Walk, EventsAreDrawn
<1>13. /\ Descends(start)
       /\ start # <<>> => \A j \in DOMAIN page : Newer(Last(start), page[j])
    <2>1. CASE ~walk[c].open
        BY <1>10, <2>1 DEF Descends
    <2>2. CASE walk[c].open
        <3>1. Descends(start) /\ walk[c].cursor = {Last(start)}
            BY <1>1, <1>10, <2>2 DEF Walks, SeenInOrder
        <3>2. \A e \in S : Newer(Last(start), e)
            BY <1>2, <3>1 DEF Asked, Beyond
        <3> QED
            BY <1>8, <3>1, <3>2
    <2> QED
        BY <2>1, <2>2
<1>14. /\ start \o page \in Seq(Listed) /\ Descends(start \o page)
       /\ ToSet(start \o page) = ToSet(start) \cup ToSet(page)
       /\ page # <<>> => start \o page # <<>> /\ Last(start \o page) = Last(page)
    BY <1>8, <1>12, <1>13, PageFollows
<1>15. PICK seen \in Seq(Listed) :
        /\ seen = start \o page /\ Descends(seen) /\ ToSet(seen) = ToSet(start) \cup ToSet(page)
        /\ page # <<>> => seen # <<>> /\ Last(seen) = Last(page)
    BY <1>14
<1>16. PICK cursor : cursor = IF more THEN {Last(page)} ELSE {}
    OBVIOUS
<1>17. cursor \in SUBSET Listed
    <2>1. more => Last(page) \in Listed
        <3>1. more => Len(page) \in DOMAIN page
            BY <1>8
        <3> QED
            BY <1>8, <3>1 DEF Last
    <2> QED
        BY <1>16, <2>1
<1>18. walk' = [walk EXCEPT ![c] = [open |-> more, known |-> known, seen |-> seen, cursor |-> cursor]]
    BY <1>11, <1>15, <1>16
<1>19. /\ walk' \in [Client -> Walk] /\ \A d \in Client : d # c => walk'[d] = walk[d]
       /\ walk'[c].open = more /\ walk'[c].known = known /\ walk'[c].seen = seen
       /\ walk'[c].cursor = cursor
    <2>1. [open |-> more, known |-> known, seen |-> seen, cursor |-> cursor] \in Walk
        BY <1>6, <1>12, <1>15, <1>17 DEF Walk
    <2> QED
        BY <1>1, <1>18, <2>1
<1>20. SeenInOrder(c)'
    <2>1. Descends(walk'[c].seen)
        BY <1>15, <1>19
    <2>2. more => seen # <<>> /\ cursor = {Last(seen)}
        BY <1>8, <1>15, <1>16
    <2>3. ~more => cursor = {}
        BY <1>16
    <2>4. Descends(walk[c].seen)'
        BY <2>1 DEF Descends, Newer
    <2> QED
        BY <1>19, <2>2, <2>3, <2>4 DEF SeenInOrder
<1>21. token[c] \in DOMAIN tokens
    BY <1>1, <1>3 DEF IInv, CallsAreLive, TypeOK, Calling
<1>22. WalkerStays(c)'
    <2> SUFFICES ASSUME more PROVE WalkerStays(c)'
        BY <1>19 DEF WalkerStays
    <2>1. todo' = todo /\ req'[c] = Idle
        BY <1>1, <1>11 DEF TypeOK
    <2>2. Row(c)' = Row(c)
        BY <1>3 DEF Row
    <2>3. Head(todo[c]).op = "allActivity" => Row(c).administrator
        BY <1>1, <1>3 DEF AdminsAct, AdminOps
    <2> QED
        BY <1>3, <1>21, <2>1, <2>2, <2>3 DEF WalkerStays, Idle
<1>23. KnownIsSeen(c)'
    <2>1. ASSUME NEW e \in known
          PROVE  e.id \in DrawnIds' /\ \A g \in events' : e.id = g.id => e = g
        <3>1. CASE walk[c].open
            BY <1>1, <1>3, <1>9, <2>1, <3>1 DEF Walks, KnownIsSeen, EventsFollow
        <3>2. CASE ~walk[c].open
            <4>1. e \in events
                BY <1>3, <1>9, <2>1, <3>2 DEF Asked
            <4> QED
                BY <1>1, <1>3, <4>1 DEF EventsAreDrawn, EventsFollow
        <3> QED
            BY <3>1, <3>2
    <2>2. ASSUME NEW e \in known, e \in Retained PROVE e \in ToSet(start) \/ e \in S
        <3>1. CASE walk[c].open
            <4>1. e \in ToSet(start) \/ (e \in Asked(c, {e}) /\ Newer(Last(start), e))
                BY <1>1, <1>3, <1>9, <1>10, <2>2, <3>1 DEF Walks, KnownIsSeen
            <4>2. walk[c].cursor = {Last(start)}
                BY <1>1, <1>10, <3>1 DEF Walks, SeenInOrder
            <4> QED
                BY <1>2, <2>2, <4>1, <4>2 DEF Asked, Beyond
        <3>2. CASE ~walk[c].open
            <4>1. walk[c].cursor = {} /\ e \in Asked(c, Retained)
                BY <1>1, <1>9, <3>2 DEF Walks, SeenInOrder
            <4> QED
                BY <1>2, <2>2, <4>1 DEF Asked, Beyond
        <3> QED
            BY <3>1, <3>2
    <2>3. ASSUME NEW e \in S, more PROVE e \in Asked(c, {e})'
        <3>1. todo' = todo /\ Row(c)' = Row(c)
            BY <1>3, <1>11, <2>3 DEF Row
        <3> QED
            BY <1>2, <2>3, <3>1 DEF Asked
    <2>4. ASSUME NEW e \in known, e \in Retained
          PROVE  \/ e \in ToSet(seen)
                 \/ more /\ e \in Asked(c, {e})' /\ Newer(Last(seen), e)
        <3>1. CASE e \in ToSet(start)
            BY <1>15, <3>1
        <3>2. CASE e \in S /\ ~more
            BY <1>8, <1>15, <3>2
        <3>3. CASE e \in S /\ more
            <4>1. e \in ToSet(page) \/ Newer(Last(page), e)
                BY <1>8, <3>3
            <4>2. Last(seen) = Last(page) /\ e \in Asked(c, {e})'
                BY <1>8, <1>15, <2>3, <3>3
            <4> QED
                BY <1>15, <3>3, <4>1, <4>2
        <3> QED
            BY <2>2, <2>4, <3>1, <3>2, <3>3
    <2> QED
        BY <1>3, <1>19, <2>1, <2>4 DEF KnownIsSeen, Newer
<1> QED
    BY <1>19, <1>20, <1>22, <1>23 DEF Walks

\* A step of one client, as the other clients' walks see it and its own.
LEMMA ClientWalks ==
    ASSUME IInv, AuditInv, PagingInv, TablesGrow, EventsFollow, NEW c \in Client,
           Bootstrap(c) \/ Register(c) \/ Login(c) \/ Session(c) \/ RecordEvent(c)
    PROVE  walk' \in [Client -> Walk] /\ \A d \in Client : Walks(d)' /\ AdminsAct(d)'
<1>1. /\ TypeOK /\ todo[c] # <<>> /\ Moves(c) /\ walk \in [Client -> Walk]
      /\ token \in [Client -> Nat]
    BY ClientMoves DEF IInv, TypeOK, Moves, PagingInv
<1>2. \A d \in Client : d # c => req'[d] = req[d] /\ todo'[d] = todo[d]
    BY <1>1, DoneMoves, GotoMoves DEF Moves
<1>3. /\ \A d \in Client : d # c => token'[d] = token[d]
      /\ token'[c] = token[c] \/ IssueAccessToken(c)
    <2>1. CASE IssueAccessToken(c)
        BY <1>1, <2>1 DEF IssueAccessToken
    <2>2. CASE ~IssueAccessToken(c)
        BY <2>2 DEF Bootstrap, BootstrapStart, BootstrapLock, CreateBootstrap, Register,
           RegisterStart, RegisterFinish, LockInvite, CreateInvitedAccount, Login, LoginStart,
           BeginLogin, FinishLogin, ReportLoginFailure, AbandonLogin, RecordEvent, Session,
           Call, FindAccessToken, TouchAccessToken, Use, RevokeSession, CreateInvite,
           RevokeInvite, ListActivity
    <2> QED
        BY <2>1, <2>2
<1>4. /\ walk' \in [Client -> Walk] /\ \A d \in Client : d # c => walk'[d] = walk[d]
      /\ walk'[c] = walk[c] \/ Walks(c)'
    <2>1. CASE ListActivity(c)
        BY <2>1, ListingWalks
    <2>2. CASE FindAccessToken(c)
        <3>1. CASE walk' = walk
            BY <1>1, <3>1
        <3>2. CASE walk' = [walk EXCEPT ![c] = NoWalk]
            <4>1. walk'[c] = NoWalk /\ walk' \in [Client -> Walk]
                BY <1>1, <3>2, NoWalkType
            <4> QED
                BY <3>2, <4>1, NoWalkIsTrue
        <3> QED
            BY <2>2, <3>1, <3>2 DEF FindAccessToken
    <2>3. CASE ~ListActivity(c) /\ ~FindAccessToken(c)
        <3>1. walk' = walk
            BY <2>3 DEF Bootstrap, BootstrapStart, BootstrapLock, CreateBootstrap, Register,
               RegisterStart, RegisterFinish, LockInvite, CreateInvitedAccount, Login, LoginStart,
               BeginLogin, FinishLogin, ReportLoginFailure, AbandonLogin, IssueAccessToken,
               RecordEvent, Session, Call, TouchAccessToken, Use, RevokeSession, CreateInvite,
               RevokeInvite
        <3> QED
            BY <1>1, <3>1
    <2> QED
        BY <2>1, <2>2, <2>3
<1>5. ASSUME NEW d \in Client, d # c PROVE Walks(d)' /\ AdminsAct(d)'
    <2>1. Walks(d) /\ AdminsAct(d)
        BY DEF PagingInv
    <2>2. Walks(d)'
        <3>1. walk[d].open => req[d].stage \in {"idle"} \cup Calling
            BY <2>1 DEF Walks, WalkerStays
        <3> QED
            BY <1>2, <1>3, <1>4, <1>5, <3>1, WalkKept
    <2>3. AdminsAct(d)'
        <3>1. req[d].stage = "act" => token[d] \in DOMAIN tokens
            BY <1>1 DEF IInv, CallsAreLive, TypeOK, Calling
        <3> QED
            BY <1>2, <1>3, <1>5, <2>1, <3>1 DEF AdminsAct, TablesGrow, Row
    <2> QED
        BY <2>2, <2>3
<1>6. AdminsAct(c)'
    BY <1>1, <1>3, StepAdmins
<1>7. Walks(c)'
    <2> SUFFICES ASSUME ~(Walks(c)') PROVE FALSE
        OBVIOUS
    <2>1. walk'[c] = walk[c] /\ WalkerStays(c)
        BY <1>4 DEF PagingInv, Walks
    <2>2. CASE ~walk[c].open
        BY <2>1, <2>2, WalkKept
    <2>3. CASE walk[c].open /\ ListActivity(c)
        BY <2>3, ListingWalks
    <2>4. CASE walk[c].open /\ ~ListActivity(c)
        <3>1. Call(c) \/ FindAccessToken(c) \/ TouchAccessToken(c)
            BY <2>1, <2>4, WalkersCall
        <3>2. token' = token
            BY <3>1 DEF Call, FindAccessToken, TouchAccessToken
        <3>3. ~Done(c)
            <4>1. CASE Call(c)
                <5>1. Targets(c) # {}
                    <6>1. token[c] # 0
                        BY <2>1, <2>4, <1>1 DEF WalkerStays, TypeOK
                    <6>2. Head(todo[c]).op # "revoke" /\ Head(todo[c]).op # "uninvite"
                        BY <2>1, <2>4 DEF WalkerStays
                    <6>3. Targets(c) = {0}
                        BY <6>1, <6>2 DEF Targets
                    <6> QED
                        BY <6>3
                <5>2. \E target \in Targets(c) :
                        Goto(c, [stage |-> "sent", target |-> target, live |-> ~Row(c).revoked])
                    BY <4>1, <5>1 DEF Call
                <5>3. req'[c].stage = "sent"
                    BY <1>1, <5>2, GotoMoves
                <5> QED
                    BY <1>1, <5>3, DoneMoves DEF Idle
            <4>2. CASE FindAccessToken(c)
                <5>1. walk' # [walk EXCEPT ![c] = NoWalk]
                    <6>1. NoWalk.open = FALSE
                        BY DEF NoWalk
                    <6> QED
                        BY <1>1, <2>1, <2>4, <6>1
                <5>2. Goto(c, [req[c] EXCEPT !.stage = "found"])
                    BY Zenon, <4>2, <5>1 DEF FindAccessToken
                <5>3. [req[c] EXCEPT !.stage = "found"].stage = "found"
                    BY <1>1, <4>2, ShapeOf DEF FindAccessToken, AtCall, At, Calling
                <5>4. req'[c].stage = "found"
                    BY <1>1, <5>2, <5>3, GotoMoves
                <5> QED
                    BY <1>1, <5>4, DoneMoves DEF Idle
            <4>3. CASE TouchAccessToken(c)
                <5>1. ~(Head(todo[c]).op \in AdminOps /\ ~Row(c).administrator)
                    BY <2>1, <2>4 DEF WalkerStays, AdminOps
                <5>2. Goto(c, [req[c] EXCEPT !.stage = "act"])
                    BY Zenon, <4>3, <5>1 DEF TouchAccessToken
                <5>3. [req[c] EXCEPT !.stage = "act"].stage = "act"
                    BY <1>1, <4>3, ShapeOf DEF TouchAccessToken, AtCall, At, Calling
                <5>4. req'[c].stage = "act"
                    BY <1>1, <5>2, <5>3, GotoMoves
                <5> QED
                    BY <1>1, <5>4, DoneMoves DEF Idle
            <4> QED
                BY <3>1, <4>1, <4>2, <4>3
        <3>4. PICK r : Goto(c, r)
            BY <1>1, <3>3 DEF Moves
        <3>5. todo' = todo
            BY <1>1, <3>4, GotoMoves
        <3>6. req'[c].stage \in Calling
            <4>1. CASE Call(c)
                <5>1. \E target \in Targets(c) :
                        Goto(c, [stage |-> "sent", target |-> target, live |-> ~Row(c).revoked])
                    BY <3>3, <4>1 DEF Call
                <5> QED
                    BY <1>1, <5>1, GotoMoves DEF Calling
            <4>2. CASE FindAccessToken(c) \/ TouchAccessToken(c)
                <5>1. \/ Goto(c, [req[c] EXCEPT !.stage = "found"])
                      \/ Goto(c, [req[c] EXCEPT !.stage = "act"])
                    BY Zenon, <3>3, <4>2 DEF FindAccessToken, TouchAccessToken
                <5>2. /\ [req[c] EXCEPT !.stage = "found"].stage = "found"
                      /\ [req[c] EXCEPT !.stage = "act"].stage = "act"
                    BY <1>1, <4>2, ShapeOf DEF FindAccessToken, TouchAccessToken, AtCall, At, Calling
                <5> QED
                    BY <1>1, <5>1, <5>2, GotoMoves DEF Calling
            <4> QED
                BY <3>1, <4>1, <4>2
        <3> QED
            BY <2>1, <3>2, <3>5, <3>6, WalkKept
    <2> QED
        BY <2>2, <2>3, <2>4
<1> QED
    BY <1>4, <1>5, <1>6, <1>7

\* A restart ends the walks whose request it cuts off.
LEMMA CrashWalks ==
    ASSUME IInv, PagingInv, TablesGrow, EventsFollow, Crash
    PROVE  walk' \in [Client -> Walk] /\ \A d \in Client : Walks(d)' /\ AdminsAct(d)'
<1>1. walk \in [Client -> Walk] /\ TypeOK
    BY DEF PagingInv, IInv
<1>2. \A d \in Client :
        /\ walk'[d] = IF req[d].stage \in Between THEN walk[d] ELSE NoWalk
        /\ req'[d] = IF req[d].stage \in Between THEN req[d] ELSE Idle
        /\ todo'[d] = IF req[d].stage \in Between THEN todo[d] ELSE Tail(todo[d])
        /\ token'[d] = token[d]
    BY DEF Crash
<1>3. walk' \in [Client -> Walk]
    <2>1. walk' = [d \in Client |-> IF req[d].stage \in Between THEN walk[d] ELSE NoWalk]
        BY DEF Crash
    <2> QED
        BY <1>1, <2>1, NoWalkType
<1>4. ASSUME NEW d \in Client PROVE Walks(d)' /\ AdminsAct(d)'
    <2>1. Walks(d) /\ AdminsAct(d)
        BY DEF PagingInv
    <2>2. AdminsAct(d)'
        <3>1. req'[d].stage # "act"
            BY <1>2 DEF Between, Idle
        <3> QED
            BY <3>1 DEF AdminsAct
    <2>3. CASE req[d].stage \in Between
        <3>1. walk[d].open => req'[d].stage \in {"idle"} \cup Calling
            BY <1>2, <2>1, <2>3 DEF Walks, WalkerStays
        <3> QED
            BY <1>2, <2>2, <2>3, <3>1, WalkKept
    <2>4. CASE req[d].stage \notin Between
        BY <1>2, <2>2, <2>4, NoWalkIsTrue
    <2> QED
        BY <2>3, <2>4
<1> QED
    BY <1>3, <1>4

LEMMA StepPaging == IInv /\ AuditInv /\ PagingInv /\ [Next]_vars => PagingInv'
<1> SUFFICES ASSUME IInv, AuditInv, PagingInv, [Next]_vars PROVE PagingInv'
    OBVIOUS
<1>1. TablesGrow /\ EventsAreDrawn' /\ EventsFollow
    BY StepGrows, StepEvents
<1>2. CASE UNCHANGED <<tokens, token, todo, req, walk>>
    <2>1. ASSUME NEW d \in Client PROVE Walks(d)' /\ AdminsAct(d)'
        <3>1. Walks(d) /\ AdminsAct(d)
            BY DEF PagingInv
        <3>2. walk[d].open => req'[d].stage \in {"idle"} \cup Calling
            BY <1>2, <3>1 DEF Walks, WalkerStays
        <3>3. AdminsAct(d)'
            BY <1>2, <3>1 DEF AdminsAct, Row
        <3> QED
            BY <1>1, <1>2, <3>2, <3>3, WalkKept
    <2> QED
        BY <1>1, <1>2, <2>1 DEF PagingInv
<1>3. ASSUME NEW c \in Client, Bootstrap(c) \/ Register(c) \/ Login(c) \/ Session(c) \/ RecordEvent(c)
      PROVE  PagingInv'
    BY <1>1, <1>3, ClientWalks DEF PagingInv
<1>4. CASE Crash
    BY <1>1, <1>4, CrashWalks DEF PagingInv
<1>5. CASE Tick \/ Finished \/ UNCHANGED vars
    BY <1>2, <1>5 DEF Tick, Finished, vars, db
<1> QED
    BY <1>3, <1>4, <1>5 DEF Next

\* Whoever pages through the activity to its end has seen every event that was
\* there at first and is still kept, and none twice, whatever is recorded and
\* discarded meanwhile.
THEOREM PagesMissNothing == Spec => []PagingIsComplete
<1>1. PagingInv => PagingIsComplete
    <2> SUFFICES ASSUME PagingInv, NEW c \in Client
                 PROVE  /\ IsInjective(walk[c].seen)
                        /\ ~walk[c].open => walk[c].known \cap events \subseteq ToSet(walk[c].seen)
        BY DEF PagingIsComplete
    <2>1. Walks(c) /\ walk[c] \in Walk
        BY DEF PagingInv
    <2>2. PICK seen \in Seq(Listed) : seen = walk[c].seen /\ Descends(seen)
        BY <2>1 DEF Walks, SeenInOrder, Walk
    <2>3. ASSUME NEW i \in DOMAIN seen, NEW j \in DOMAIN seen, seen[i] = seen[j] PROVE i = j
        <3>1. seen[i] \in Listed /\ DOMAIN seen = 1 .. Len(seen) /\ Len(seen) \in Nat
            OBVIOUS
        <3>2. ~(i < j) /\ ~(j < i)
            BY <2>2, <2>3, <3>1, NewerOrders DEF Descends
        <3> QED
            BY <3>1, <3>2
    <2>4. IsInjective(walk[c].seen)
        BY <2>2, <2>3 DEF IsInjective
    <2>5. ~walk[c].open => walk[c].known \cap events \subseteq ToSet(walk[c].seen)
        BY <2>1 DEF Walks, KnownIsSeen
    <2> QED
        BY <2>4, <2>5
<1> QED
    BY <1>1, Invariant, InitAudit, StepAudit, InitPaging, StepPaging, PTL DEF Spec

=============================================================================
