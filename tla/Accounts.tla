------------------------------- MODULE Accounts -------------------------------
(***************************************************************************)
(* Accounts of one TermKeep instance: bootstrap, invitations, registration,*)
(* OPAQUE logins under the login limiter, online sessions and the activity *)
(* audit (internal/server/auth.go, session.go, invite.go, audit.go,        *)
(* login_limiter.go and their half of db.go), driven by clients that run   *)
(* the client package's Bootstrap, Register, Login and session calls.      *)
(*                                                                         *)
(* A client performs the operations of its list one after another.  An     *)
(* action is one critical section or one database statement of a handler,  *)
(* so handlers of different clients interleave wherever they can.  A row   *)
(* lock is held by whoever is at the stage that holds it.                  *)
(***************************************************************************)
EXTENDS Integers, Sequences, FiniteSets, SequencesExt

CONSTANTS
    Client,       \* processes talking to the server, one request at a time
    SourceOf,     \* the network origin the server sees for each client
    Workloads,    \* what the clients may set out to do, for model checking
    FirstDelayed, \* failures from which a login is delayed: 5
    Delays,       \* the delays in order: 1, 5, 10 and 15 minutes
    FailureReset, \* loginFailureReset: 24 hours
    LoginLife,    \* how long a started login waits for its finish: 5 minutes
    InviteLife,   \* how long an invitation is valid: 48 hours
    Retention,    \* AUDIT_RETENTION_DAYS: 90 days
    PageSize,     \* events on a page of activity
    UUIDs,        \* the random event IDs, in the order they are drawn
    MaxTime,      \* bound on the clock, for model checking
    MaxCrashes    \* bound on server restarts, for model checking

ASSUME AccountsAssumption ==
    /\ IsFiniteSet(Client)
    /\ {FirstDelayed, FailureReset} \subseteq Nat \ {0}
    /\ Delays \in Seq(Nat \ {0}) /\ Delays # <<>>
    /\ {LoginLife, InviteLife, Retention, MaxTime, MaxCrashes} \subseteq Nat
    /\ PageSize \in Nat \ {0}
    /\ UUIDs \in Seq(Nat) /\ IsInjective(UUIDs)

VARIABLES
    now,      \* the clock
    accounts, \* table accounts, with opaque_records and vault_envelopes
    invites,  \* table invites; an invitation is known by its position
    tokens,   \* table access_tokens; a session is known by its position
    events,   \* table audit_events
    drawn,    \* how many event IDs have been drawn
    pending,  \* AuthService.pending: the started login of each client
    attempts, \* LoginLimiter.attempts
    todo,     \* what each client has still to do
    req,      \* how far each client and the handler serving it have got
    token,    \* the access token of each client, 0 for none
    walk,     \* the activity each client has paged through
    burst,    \* logins admitted of an account and source since the clock moved
    crashes   \* restarts so far

db    == <<accounts, invites, tokens, events, drawn>>
cache == <<pending, attempts>>
vars  == <<now, db, cache, todo, req, token, walk, burst, crashes>>

Ops    == UNION {{w[c][i] : i \in DOMAIN w[c]} : w \in Workloads, c \in Client}

ASSUME WorkloadsAssumption == Workloads \subseteq [Client -> Seq(Ops)]

Email  == {o.email : o \in Ops}
Key    == Email \X {SourceOf[c] : c \in Client}
Idle   == [stage |-> "idle"]
NoWalk == [open |-> FALSE, known |-> {}, seen |-> <<>>, cursor |-> {}]

At(c, op, stage) == todo[c] # <<>> /\ Head(todo[c]).op = op /\ req[c].stage = stage
Typed(c)         == Head(todo[c]).email
NewAccountID(c)  == <<c, Len(todo[c])>>   \* minted for this operation
KeyOf(c)         == <<Typed(c), SourceOf[c]>>
Goto(c, r)       == req' = [req EXCEPT ![c] = r] /\ UNCHANGED todo
Done(c)          == req' = [req EXCEPT ![c] = Idle] /\ todo' = [todo EXCEPT ![c] = Tail(@)]

\* recordAudit runs after the effect, in a transaction of its own.
Log(c, es) == Goto(c, [stage |-> "audit", log |-> es])
Event(type, account, session, invite) ==
    [type |-> type, account |-> account, session |-> session, invite |-> invite]
Stamped(e, at) == [event |-> e, at |-> at]
Unset == -1

FindAccount(email) == {a \in accounts : a.email = email}

Init ==
    /\ now = 0
    /\ accounts = {}
    /\ invites = <<>>
    /\ tokens = <<>>
    /\ events = {}
    /\ drawn = 0
    /\ pending = [c \in Client |-> {}]
    /\ attempts = [k \in Key |-> [failures |-> 0, last |-> 0]]
    /\ todo \in Workloads
    /\ req = [c \in Client |-> Idle]
    /\ token = [c \in Client |-> 0]
    /\ walk = [c \in Client |-> NoWalk]
    /\ burst = [k \in Key |-> 0]
    /\ crashes = 0

-----------------------------------------------------------------------------
(* The login limiter *)

MostFailures == FirstDelayed + Len(Delays) - 1

\* Failures beyond those of the longest delay are all alike.
RecordFailure(a) ==
    [failures |-> IF a.failures > 0 /\ now - a.last >= FailureReset THEN 1
                  ELSE IF a.failures < MostFailures THEN a.failures + 1
                  ELSE MostFailures,
     last     |-> now]

RetryAfter_OneLate(a) ==
    IF a.failures <= FirstDelayed THEN 0
    ELSE LET left == a.last + Delays[a.failures - FirstDelayed + 1] - now IN
         IF left > 0 THEN left ELSE 0

RetryAfter(a) ==
    IF a.failures < FirstDelayed THEN 0
    ELSE LET left == a.last + Delays[a.failures - FirstDelayed + 1] - now IN
         IF left > 0 THEN left ELSE 0

-----------------------------------------------------------------------------
(* Bootstrap *)

\* startBootstrap: the early rejection.
BootstrapStart(c) ==
    /\ At(c, "bootstrap", "idle")
    /\ IF accounts = {} THEN Goto(c, [stage |-> "finish"]) ELSE Done(c)
    /\ UNCHANGED <<now, db, cache, token, walk, burst, crashes>>

\* finishBootstrap up to the question CreateBootstrap asks under its advisory lock.
BootstrapLock(c) ==
    /\ At(c, "bootstrap", "finish")
    /\ \A d \in Client : req[d].stage # "locked"
    /\ IF accounts = {} THEN Goto(c, [stage |-> "locked"]) ELSE Done(c)
    /\ UNCHANGED <<now, db, cache, token, walk, burst, crashes>>

\* The rest of CreateBootstrap; accounts.email is unique.
CreateBootstrap(c) ==
    /\ At(c, "bootstrap", "locked")
    /\ accounts' = IF FindAccount(Typed(c)) # {} THEN accounts
                   ELSE accounts \cup
                       {[id |-> NewAccountID(c), email |-> Typed(c), administrator |-> TRUE]}
    /\ Done(c)
    /\ UNCHANGED <<now, invites, tokens, events, drawn, cache, token, walk, burst, crashes>>

Bootstrap(c) == BootstrapStart(c) \/ BootstrapLock(c) \/ CreateBootstrap(c)

-----------------------------------------------------------------------------
(* Invitations and registration *)

\* The condition of ValidateInvite, and again of CreateInvitedAccount.
InviteValid(i, email, at) ==
    /\ invites[i].email = email
    /\ invites[i].consumedBy = {}
    /\ ~invites[i].revoked
    /\ invites[i].created + InviteLife > at

RowFree_NoLock(i) == TRUE

\* No registration holds the invitation's row.
RowFree(i) == \A d \in Client : req[d].stage = "invited" => req[d].invite # i

\* startRegistration, with an invitation's token received out of band, or a wrong one.
RegisterStart(c) ==
    /\ At(c, "register", "idle")
    /\ \E i \in 0 .. Len(invites) :
        IF i > 0 /\ InviteValid(i, Typed(c), now)
        THEN Goto(c, [stage |-> "record", invite |-> i])
        ELSE Done(c)
    /\ UNCHANGED <<now, db, cache, token, walk, burst, crashes>>

\* finishRegistration takes the time, then opens the transaction.
RegisterFinish(c) ==
    /\ At(c, "register", "record")
    /\ Goto(c, [stage |-> "begun", invite |-> req[c].invite, at |-> now])
    /\ UNCHANGED <<now, db, cache, token, walk, burst, crashes>>

\* SELECT ... FOR UPDATE: waits for the row, then looks at what it has become.
LockInvite(c) ==
    /\ At(c, "register", "begun")
    /\ RowFree(req[c].invite)
    /\ IF InviteValid(req[c].invite, Typed(c), req[c].at)
       THEN Goto(c, [req[c] EXCEPT !.stage = "invited"])
       ELSE Done(c)
    /\ UNCHANGED <<now, db, cache, token, walk, burst, crashes>>

\* The rest of CreateInvitedAccount: the account and the consumed invitation
\* commit together, or the email is taken and both are rolled back.
CreateInvitedAccount(c) ==
    /\ At(c, "register", "invited")
    /\ IF FindAccount(Typed(c)) # {}
       THEN Done(c) /\ UNCHANGED <<accounts, invites>>
       ELSE /\ accounts' = accounts \cup
                   {[id |-> NewAccountID(c), email |-> Typed(c), administrator |-> FALSE]}
            /\ invites' = [invites EXCEPT ![req[c].invite].consumedBy = {NewAccountID(c)}]
            /\ Log(c, <<Stamped(Event("registration.succeeded", {NewAccountID(c)}, 0, 0),
                                req[c].at)>>)
    /\ UNCHANGED <<now, tokens, events, drawn, cache, token, walk, burst, crashes>>

Register(c) ==
    RegisterStart(c) \/ RegisterFinish(c) \/ LockInvite(c) \/ CreateInvitedAccount(c)

-----------------------------------------------------------------------------
(* Login *)

\* startLogin, up to the answer of the limiter.
LoginStart(c) ==
    /\ At(c, "login", "idle")
    /\ IF RetryAfter(attempts[KeyOf(c)]) > 0
       THEN Log(c, <<Stamped(Event("login.throttled",
                         {a.id : a \in FindAccount(Typed(c))}, 0, 0), Unset)>>)
       ELSE Goto(c, [stage |-> "begin"])
    /\ UNCHANGED <<now, db, cache, token, walk, burst, crashes>>

\* beginLogin and the charge: a started login counts as a failure until it
\* succeeds.  An unknown email gets a fake record.
BeginLogin(c) ==
    /\ At(c, "login", "begin")
    /\ pending' = [pending EXCEPT ![c] =
            {[account |-> FindAccount(Typed(c)), expires |-> now + LoginLife]}]
    /\ attempts' = [attempts EXCEPT ![KeyOf(c)] = RecordFailure(@)]
    /\ burst' = [burst EXCEPT ![KeyOf(c)] = @ + 1]
    /\ Goto(c, [stage |-> "answered"])
    /\ UNCHANGED <<now, db, token, walk, crashes>>

LoginFailed(c, started) ==
    Log(c, <<Stamped(Event("login.failed",
                 UNION {{a.id : a \in p.account} : p \in started}, 0, 0), Unset)>>)

\* A client with the right password sends KE3: completeLogin takes the started
\* login out of the map, and its success resets the limiter.
FinishLogin(c) ==
    /\ At(c, "login", "answered")
    /\ FindAccount(Typed(c)) # {}
    /\ LET good == {p \in pending[c] : now <= p.expires /\ p.account # {}} IN
        /\ pending' = [pending EXCEPT ![c] = {}]
        /\ IF good = {}
           THEN LoginFailed(c, pending[c]) /\ UNCHANGED <<attempts, burst>>
           ELSE /\ attempts' = [attempts EXCEPT ![KeyOf(c)] = [failures |-> 0, last |-> 0]]
                /\ burst' = [burst EXCEPT ![KeyOf(c)] = 0]
                /\ \E p \in good : \E a \in p.account :
                    Goto(c, [stage |-> "issue", account |-> a])
    /\ UNCHANGED <<now, db, token, walk, crashes>>

\* A client with the wrong password, or of an unknown email, cannot make KE3.
ReportLoginFailure(c) ==
    /\ At(c, "login", "answered")
    /\ pending' = [pending EXCEPT ![c] = {}]
    /\ IF pending[c] = {} THEN Done(c) ELSE LoginFailed(c, pending[c])
    /\ UNCHANGED <<now, db, attempts, token, walk, burst, crashes>>

\* The user interrupts a login; nothing ever removes what it started.
AbandonLogin(c) ==
    /\ At(c, "login", "answered")
    /\ Done(c)
    /\ UNCHANGED <<now, db, cache, token, walk, burst, crashes>>

SessionEvent(type, account, s) == Event(type, {account}, s, 0)

\* issueAccessToken
IssueAccessToken(c) ==
    /\ At(c, "login", "issue")
    /\ LET a == req[c].account
           s == Len(tokens) + 1
       IN  /\ tokens' = Append(tokens,
                [account |-> a.id, administrator |-> a.administrator,
                 revoked |-> FALSE, used |-> now])
           /\ token' = [token EXCEPT ![c] = s]
           /\ Log(c, <<Stamped(SessionEvent("login.succeeded", a.id, s), now),
                       Stamped(SessionEvent("session.created", a.id, s), now)>>)
    /\ UNCHANGED <<now, accounts, invites, events, drawn, cache, walk, burst, crashes>>

Login(c) ==
    \/ LoginStart(c) \/ BeginLogin(c) \/ FinishLogin(c)
    \/ ReportLoginFailure(c) \/ AbandonLogin(c) \/ IssueAccessToken(c)

-----------------------------------------------------------------------------
(* Authenticated requests *)

TokenOps == {"use", "revoke", "invite", "uninvite", "activity", "allActivity"}
AdminOps == {"invite", "uninvite", "allActivity"}

\* The stages of a request made with the client's token.
AtCall(c, stage) == \E op \in TokenOps : At(c, op, stage)
Row(c) == tokens[token[c]]

\* ListSessions: what the user picks a session to revoke from.
ListSessions(account) ==
    {s \in DOMAIN tokens : tokens[s].account = account /\ ~tokens[s].revoked}

Targets(c) ==
    IF token[c] = 0 THEN {}
    ELSE CASE Head(todo[c]).op = "revoke"   -> ListSessions(Row(c).account) \cup {token[c]}
           [] Head(todo[c]).op = "uninvite" -> DOMAIN invites
           [] OTHER                        -> {0}

\* The client sends the request, if it has a token; "live" remembers that the
\* token had not been revoked by then.
Call(c) ==
    /\ AtCall(c, "idle")
    /\ IF Targets(c) = {} THEN Done(c)
       ELSE \E target \in Targets(c) :
            Goto(c, [stage |-> "sent", target |-> target, live |-> ~Row(c).revoked])
    /\ UNCHANGED <<now, db, cache, token, walk, burst, crashes>>

FindAccessToken_IgnoresRevocation(c) ==
    /\ AtCall(c, "sent")
    /\ Goto(c, [req[c] EXCEPT !.stage = "found"])
    /\ UNCHANGED <<now, db, cache, token, walk, burst, crashes>>

\* AuthenticateToken, the lookup.
FindAccessToken(c) ==
    /\ AtCall(c, "sent")
    /\ IF Row(c).revoked
       THEN Done(c) /\ walk' = [walk EXCEPT ![c] = NoWalk]
       ELSE Goto(c, [req[c] EXCEPT !.stage = "found"]) /\ UNCHANGED walk
    /\ UNCHANGED <<now, db, cache, token, burst, crashes>>

\* AuthenticateToken, the touch, and authenticateAdministrator: a revocation
\* since the lookup goes unnoticed.
TouchAccessToken(c) ==
    /\ AtCall(c, "found")
    /\ tokens' = [tokens EXCEPT ![token[c]].used = now]
    /\ IF Head(todo[c]).op \in AdminOps /\ ~Row(c).administrator
       THEN Done(c)
       ELSE Goto(c, [req[c] EXCEPT !.stage = "act"])
    /\ UNCHANGED <<now, accounts, invites, events, drawn, cache, token, walk, burst, crashes>>

\* Any other endpoint: synchronization, items, the lists of sessions, invites
\* and accounts.
Use(c) ==
    /\ At(c, "use", "act")
    /\ Done(c)
    /\ UNCHANGED <<now, db, cache, token, walk, burst, crashes>>

RevokeSession_Again(c) ==
    /\ At(c, "revoke", "act")
    /\ tokens' = [tokens EXCEPT ![req[c].target].revoked = TRUE]
    /\ Log(c, <<Stamped(SessionEvent("session.revoked", Row(c).account, req[c].target), Unset)>>)
    /\ UNCHANGED <<now, accounts, invites, events, drawn, cache, token, walk, burst, crashes>>

\* SessionService.revoke
RevokeSession(c) ==
    /\ At(c, "revoke", "act")
    /\ LET s == req[c].target IN
        IF s \in ListSessions(Row(c).account)
        THEN /\ tokens' = [tokens EXCEPT ![s].revoked = TRUE]
             /\ Log(c, <<Stamped(SessionEvent("session.revoked", Row(c).account, s), Unset)>>)
        ELSE Done(c) /\ UNCHANGED tokens
    /\ UNCHANGED <<now, accounts, invites, events, drawn, cache, token, walk, burst, crashes>>

InviteEvent(type, c, i) == Event(type, {Row(c).account}, 0, i)

CreateInvite(c) ==
    /\ At(c, "invite", "act")
    /\ invites' = Append(invites, [email |-> Typed(c), created |-> now,
                                   consumedBy |-> {}, revoked |-> FALSE])
    /\ Log(c, <<Stamped(InviteEvent("invite.created", c, Len(invites) + 1), now)>>)
    /\ UNCHANGED <<now, accounts, tokens, events, drawn, cache, token, walk, burst, crashes>>

\* RevokeInvite waits for the row too.
RevokeInvite(c) ==
    /\ At(c, "uninvite", "act")
    /\ RowFree(req[c].target)
    /\ LET i == req[c].target IN
        IF invites[i].consumedBy = {} /\ ~invites[i].revoked
        THEN /\ invites' = [invites EXCEPT ![i].revoked = TRUE]
             /\ Log(c, <<Stamped(InviteEvent("invite.revoked", c, i), Unset)>>)
        ELSE Done(c) /\ UNCHANGED invites
    /\ UNCHANGED <<now, accounts, tokens, events, drawn, cache, token, walk, burst, crashes>>

-----------------------------------------------------------------------------
(* The activity audit *)

\* DeleteAuditEventsBefore, done whenever events are recorded or listed.
Retained == {e \in events : e.at >= now - Retention}

\* AuditLog.Record.  Pruning and insertion are two statements but one step, as pruning
\* and reading are in ListActivity: what the first deletes, every reader deletes before
\* it reads, so nobody sees a table between the two.
RecordEvent(c) ==
    /\ todo[c] # <<>>
    /\ req[c].stage = "audit"
    /\ drawn < Len(UUIDs)
    /\ LET next == Head(req[c].log)
           rest == Tail(req[c].log)
       IN  /\ events' = Retained \cup
                {[id    |-> UUIDs[drawn + 1],
                  event |-> next.event,
                  at    |-> IF next.at = Unset THEN now ELSE next.at]}
           /\ IF rest = <<>> THEN Done(c) ELSE Goto(c, [req[c] EXCEPT !.log = rest])
    /\ drawn' = drawn + 1
    /\ UNCHANGED <<now, accounts, invites, tokens, cache, token, walk, burst, crashes>>

Newer(e, f) == e.at > f.at \/ (e.at = f.at /\ e.id > f.id)

Beyond_SameInstantSkipped(cursor) == {e \in Retained : \A last \in cursor : last.at > e.at}

\* What follows the cursor: the event a page ended with.
Beyond(cursor) == {e \in Retained : \A last \in cursor : Newer(last, e)}

\* ORDER BY occurred_at DESC, uuid DESC: an event comes after the newer ones.
NewestFirst(S) ==
    [i \in 1 .. Cardinality(S) |->
        CHOOSE e \in S : Cardinality({f \in S : Newer(f, e)}) = i - 1]

\* The events the client asks about: of all accounts, or of its own.
Asked(c, es) ==
    {e \in es : Head(todo[c]).op = "allActivity" \/ e.event.account = {Row(c).account}}

\* ActivityService.list answers with one page; the client keeps asking for the
\* next one.
ListActivity(c) ==
    /\ AtCall(c, "act")
    /\ Head(todo[c]).op \in {"activity", "allActivity"}
    /\ LET found    == NewestFirst(Asked(c, Beyond(walk[c].cursor)))
           more     == Len(found) > PageSize
           page     == IF more THEN SubSeq(found, 1, PageSize) ELSE found
           known    == IF walk[c].open THEN walk[c].known ELSE Asked(c, Retained)
           seen     == (IF walk[c].open THEN walk[c].seen ELSE <<>>) \o page
       IN  /\ events' = Retained
           /\ walk' = [walk EXCEPT ![c] =
                  [open   |-> more,
                   known  |-> known,
                   seen   |-> seen,
                   cursor |-> IF more THEN {Last(page)} ELSE {}]]
           /\ IF more THEN req' = [req EXCEPT ![c] = Idle] /\ UNCHANGED todo ELSE Done(c)
    /\ UNCHANGED <<now, accounts, invites, tokens, drawn, cache, token, burst, crashes>>

-----------------------------------------------------------------------------
(* Time and restarts *)

Tick ==
    /\ now < MaxTime
    /\ now' = now + 1
    /\ burst' = [k \in Key |-> 0]
    /\ UNCHANGED <<db, cache, todo, req, token, walk, crashes>>

\* The stages at which a client waits for no answer.
Between == {"idle", "finish", "record", "answered"}

\* The server restarts: what it kept in memory is gone, open transactions are
\* rolled back, and requests under way fail.
Crash ==
    /\ crashes < MaxCrashes
    /\ crashes' = crashes + 1
    /\ pending' = [c \in Client |-> {}]
    /\ attempts' = [k \in Key |-> [failures |-> 0, last |-> 0]]
    /\ burst' = [k \in Key |-> 0]
    /\ todo' = [c \in Client |-> IF req[c].stage \in Between THEN todo[c] ELSE Tail(todo[c])]
    /\ req' = [c \in Client |-> IF req[c].stage \in Between THEN req[c] ELSE Idle]
    /\ walk' = [c \in Client |-> IF req[c].stage \in Between THEN walk[c] ELSE NoWalk]
    /\ UNCHANGED <<now, db, token>>

Finished == (\A c \in Client : todo[c] = <<>>) /\ UNCHANGED vars

Session(c) ==
    \/ Call(c) \/ FindAccessToken(c) \/ TouchAccessToken(c)
    \/ Use(c) \/ RevokeSession(c) \/ CreateInvite(c) \/ RevokeInvite(c) \/ ListActivity(c)

Next ==
    \/ \E c \in Client : Bootstrap(c) \/ Register(c) \/ Login(c) \/ Session(c) \/ RecordEvent(c)
    \/ Tick \/ Crash \/ Finished

Spec == Init /\ [][Next]_vars

-----------------------------------------------------------------------------
(* Properties *)

\* Racing bootstraps leave one administrator.
OneAdministrator == \A a, b \in accounts : a.administrator /\ b.administrator => a = b

\* Whatever registrations, revocations and restarts race for an invitation, it
\* admits one account, of its own email, or none; and once revoked, none ever.
InvitesAdmitOnce ==
    /\ \A a \in accounts : ~a.administrator =>
        \E i \in DOMAIN invites : invites[i].consumedBy = {a.id} /\ invites[i].email = a.email
    /\ \A i \in DOMAIN invites : invites[i].consumedBy # {} => ~invites[i].revoked
    /\ \A a, b \in accounts : a.email = b.email \/ a.id = b.id => a = b

\* The rows of an instance stay consistent.
RegistrationInv == OneAdministrator /\ InvitesAdmitOnce

\* "A revoked session is rejected on its next online operation": a request sent
\* after the revocation is never acted upon, whatever was under way by then.
RevokedIsRejected == \A c \in Client : req[c].stage = "act" => req[c].live

\* The audit tells what happened, and tells it once: an event follows its
\* effect, and a race for one effect leaves one event.
AuditIsTrue ==
    LET of(type) == {e \in events : e.event.type = type}
        once(S, f(_)) == \A e, g \in S : f(e.event) = f(g.event) => e = g
        session(x) == x.session
        invite(x) == x.invite
        account(x) == x.account
    IN  /\ \A e \in of("session.revoked") : tokens[e.event.session].revoked
        /\ \A e \in of("login.succeeded") \cup of("session.created") :
            {tokens[e.event.session].account} = e.event.account
        /\ \A e \in of("registration.succeeded") : \E i \in DOMAIN invites :
            invites[i].consumedBy = e.event.account
        /\ \A e \in of("invite.revoked") : invites[e.event.invite].revoked
        /\ once(of("session.revoked"), session) /\ once(of("session.created"), session)
        /\ once(of("invite.revoked"), invite) /\ once(of("invite.created"), invite)
        /\ once(of("registration.succeeded"), account)

\* The limiter is read and charged apart, so logins that start together pass
\* together: but no more of them than there are clients at that origin, beyond
\* the failures that are free.
BurstIsBounded ==
    \A k \in Key : burst[k] < FirstDelayed + Cardinality({c \in Client : SourceOf[c] = k[2]})

\* Whoever pages to the end sees every event that was there when the paging
\* began and is still retained, and none twice, whatever is recorded meanwhile.
PagingIsComplete ==
    \A c \in Client :
        /\ IsInjective(walk[c].seen)
        /\ ~walk[c].open => walk[c].known \cap events \subseteq ToSet(walk[c].seen)

=============================================================================
