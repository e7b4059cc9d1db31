----------------------------- MODULE SessionAgent -----------------------------
(***************************************************************************)
(* The agent that holds the unlocked vault key of one terminal: a Unix     *)
(* socket served one connection at a time, an inactivity timer, a monitor  *)
(* of the shell that owns the session, a signal handler, and Close, which  *)
(* any of the four may run, at any time, and only one of them does.        *)
(*                                                                         *)
(* Close runs without a lock against the handler.  Its statements are the  *)
(* steps of this model, so that a request in progress sees the key as it   *)
(* is being cleared: the bytes first, then the reference to them.          *)
(*                                                                         *)
(* One tick is the period at which an open online interface polls.         *)
(*                                                                         *)
(* A definition named X_Y is X with a mistake in it, and no part of the    *)
(* model: it shows that some property would notice the mistake.            *)
(***************************************************************************)
EXTENDS Naturals

CONSTANTS
    Client,     \* connections to the socket, each made once ...
    Interface,  \* ... but open interfaces, which come again at every tick
    AutoLocks   \* the inactivity timeouts a session may have, 0 for "off"

ASSUME AutoLockAssumption ==
    /\ AutoLocks \subseteq Nat
    /\ Interface \subseteq Client

\* What a connection may be: a request, one that never comes, another user's.
Request == {"status", "access-token", "vault", "logout"}
Kind    == Request \cup {"stalled", "foreign"}

\* What a client gets.  A vault request (seal or open) done with cleared bytes
\* is answered, but spoiled.
Answer == {"info", "token", "opened", "locked", "spoiled", "refused", "hangup"}
Secret == {"token", "opened"}

\* The statements of Close, in order; "open" before it, "finished" after it.
Stages == {"open", "entered", "untimed", "wiped", "keyless", "tokenless",
           "deaf", "unlinked", "finished"}

VARIABLES
    autoLockFor,  \* the timeout this session was created with
    online,       \* whether it holds an access token
    material,     \* what RunAgentProcess keeps of the key and the token
    owner,        \* the process with the PID of the owning shell
    main,         \* the agent's main goroutine, which serves connections
    handling,     \* the connection being handled: at most one
    held,         \* what the handler has read of the vault key or the token
    client,       \* each connection: its kind until answered, then its answer
    timer,        \* ticks left of the inactivity timer ...
    armed,        \* ... while it runs
    closed,       \* the flag under timerMu
    stage,        \* how far Close has come
    key, token,   \* the secrets in memory
    revoking,     \* Close's own copy of the token
    listening,    \* the listener accepts connections
    socket,       \* the socket file exists
    revocations   \* attempts to revoke the token at the server

session == <<autoLockFor, online, material>>
requests == <<handling, held, client>>
clock == <<timer, armed, closed>>
closing == <<stage, key, token, revoking, listening, socket, revocations>>
vars == <<session, owner, main, requests, clock, closing>>

\* RunAgentProcess reads a whole key, and a token unless the login was offline, and
\* keeps them while NewAgent works with copies.
Init ==
    /\ autoLockFor \in AutoLocks
    /\ online \in BOOLEAN
    /\ material = {"key"} \cup (IF online THEN {"token"} ELSE {})
    /\ owner = "alive"
    /\ main = "serving"
    /\ handling = {}
    /\ held = "nothing"
    /\ client = [c \in Client |-> "absent"]
    /\ timer = autoLockFor
    /\ armed = (autoLockFor > 0)
    /\ closed = FALSE
    /\ stage = "open"
    /\ key = "whole"
    /\ token = IF online THEN "whole" ELSE "none"
    /\ revoking = "none"
    /\ listening = TRUE
    /\ socket = TRUE
    /\ revocations = 0

Running == main # "exited"
Free    == main = "serving" /\ handling = {}

-----------------------------------------------------------------------------
(* Clients and the handler *)

\* An interface polls if it is online.
Connect(c) ==
    /\ Running
    /\ c \in Interface => online
    /\ listening
    /\ client[c] = "absent"
    /\ \E k \in IF c \in Interface THEN {"vault"} ELSE Kind :
            client' = [client EXCEPT ![c] = k]
    /\ UNCHANGED <<session, owner, main, handling, held, clock, closing>>

\* Serve accepts the next connection and waits for its request.
Accept(c) ==
    /\ Free
    /\ listening
    /\ client[c] \in Kind
    /\ handling' = {c}
    /\ UNCHANGED <<session, owner, main, held, client, clock, closing>>

\* A connection still in the backlog when the listener closes is reset.
Reset(c) ==
    /\ ~listening
    /\ client[c] \in Kind
    /\ c \notin handling
    /\ client' = [client EXCEPT ![c] = "hangup"]
    /\ UNCHANGED <<session, owner, main, handling, held, clock, closing>>

\* Another user is hung up on, and so is who says nothing for two seconds.
HangUp_Patiently(c) ==
    /\ c \in handling
    /\ held = "nothing"
    /\ client[c] = "foreign"
    /\ client' = [client EXCEPT ![c] = "hangup"]
    /\ handling' = {}
    /\ UNCHANGED <<session, owner, main, held, clock, closing>>

HangUp(c) ==
    /\ c \in handling
    /\ held = "nothing"
    /\ client[c] \in {"foreign", "stalled"}
    /\ client' = [client EXCEPT ![c] = "hangup"]
    /\ handling' = {}
    /\ UNCHANGED <<session, owner, main, held, clock, closing>>

\* touch: a request restarts the inactivity timer unless the agent is closed.
Touch_Closed ==
    /\ timer' = IF autoLockFor > 0 THEN autoLockFor ELSE timer
    /\ armed' = (autoLockFor > 0)
    /\ UNCHANGED closed

Touch_Stopping ==
    /\ timer' = IF ~closed /\ autoLockFor > 0 THEN autoLockFor ELSE timer
    /\ armed' = FALSE
    /\ UNCHANGED closed

Touch ==
    /\ timer' = IF ~closed /\ autoLockFor > 0 THEN autoLockFor ELSE timer
    /\ armed' = (armed \/ (~closed /\ autoLockFor > 0))
    /\ UNCHANGED closed

\* The request is read; what it needs is referred to, not copied.
Read(c) ==
    /\ c \in handling
    /\ held = "nothing"
    /\ client[c] \in Request
    /\ Touch
    /\ held' = CASE client[c] = "vault"        -> IF key = "none" THEN "none" ELSE "bytes"
                 [] client[c] = "access-token" -> IF token = "none" THEN "none" ELSE "bytes"
                 [] OTHER                      -> "none"
    /\ UNCHANGED <<session, owner, main, handling, client, closing>>

\* The reply uses the bytes as they are by now.
ReplyTo(c) ==
    CASE client[c] = "status"       -> "info"
      [] client[c] = "logout"       -> "locked"
      [] client[c] = "vault"        -> IF held = "none" THEN "refused"
                                       ELSE IF key = "whole" THEN "opened" ELSE "spoiled"
      [] client[c] = "access-token" -> IF held = "none" THEN "refused"
                                       ELSE IF token = "whole" THEN "token" ELSE "spoiled"

\* A logout is answered, then the handler itself runs Close.
Reply_Detached(c) ==
    /\ c \in handling
    /\ held # "nothing"
    /\ client' = [client EXCEPT ![c] = ReplyTo(c)]
    /\ handling' = {}
    /\ held' = "nothing"
    /\ main' = main
    /\ UNCHANGED <<session, owner, clock, closing>>

Reply(c) ==
    /\ c \in handling
    /\ held # "nothing"
    /\ client' = [client EXCEPT ![c] = ReplyTo(c)]
    /\ handling' = {}
    /\ held' = "nothing"
    /\ main' = IF client[c] = "logout" THEN "logging out" ELSE main
    /\ UNCHANGED <<session, owner, clock, closing>>

-----------------------------------------------------------------------------
(* Close, statement by statement *)

\* closeOnce: whoever comes first enters.  The token is copied before all else.
Enter ==
    /\ stage = "open"
    /\ stage' = "entered"
    /\ revoking' = token
    /\ UNCHANGED <<key, token, listening, socket, revocations>>

\* Who may enter it: the timer's goroutine, the owner's, the signal's, and the
\* main goroutine, after a logout and when it returns.
MonitorAutoLock ==
    /\ Running
    /\ armed
    /\ timer = 0
    /\ Enter
    /\ UNCHANGED <<session, owner, main, requests, clock>>

OwnerChanged_ByPID == owner = "gone"

\* The PID may be another process's by now; its start time tells.
OwnerChanged == owner # "alive"

MonitorOwner ==
    /\ Running
    /\ OwnerChanged
    /\ Enter
    /\ UNCHANGED <<session, owner, main, requests, clock>>

Signalled ==
    /\ Running
    /\ Enter
    /\ UNCHANGED <<session, owner, main, requests, clock>>

LogOut ==
    /\ main = "logging out"
    /\ Enter
    /\ UNCHANGED <<session, owner, main, requests, clock>>

\* Stop the timer and raise the flag, under timerMu.
StopTimer ==
    /\ stage = "entered"
    /\ stage' = "untimed"
    /\ closed' = TRUE
    /\ armed' = FALSE
    /\ UNCHANGED <<session, owner, main, requests, timer, key, token, revoking,
                   listening, socket, revocations>>

\* Clear the bytes of the key, and then the reference to them.
WipeKey ==
    /\ stage = "untimed"
    /\ stage' = "wiped"
    /\ key' = "wiped"
    /\ UNCHANGED <<session, owner, main, requests, clock, token, revoking,
                   listening, socket, revocations>>

ForgetKey ==
    /\ stage = "wiped"
    /\ stage' = "keyless"
    /\ key' = "none"
    /\ token' = IF token = "none" THEN "none" ELSE "wiped"
    /\ UNCHANGED <<session, owner, main, requests, clock, revoking,
                   listening, socket, revocations>>

ForgetToken ==
    /\ stage = "keyless"
    /\ stage' = "tokenless"
    /\ token' = "none"
    /\ UNCHANGED <<session, owner, main, requests, clock, key, revoking,
                   listening, socket, revocations>>

\* Closing the listener unlinks its socket; Close removes the path once more.
CloseListener ==
    /\ stage = "tokenless"
    /\ stage' = "deaf"
    /\ listening' = FALSE
    /\ socket' = FALSE
    /\ UNCHANGED <<session, owner, main, requests, clock, key, token, revoking, revocations>>

Unlink ==
    /\ stage = "deaf"
    /\ stage' = "unlinked"
    /\ socket' = FALSE
    /\ UNCHANGED <<session, owner, main, requests, clock, key, token, revoking,
                   listening, revocations>>

\* Without a deadline the server may let Close wait for ever.
Revoke_Untimed ==
    /\ stage = "unlinked"
    /\ revoking = "none"
    /\ stage' = "finished"
    /\ UNCHANGED <<session, owner, main, requests, clock, key, token, revoking,
                   listening, socket, revocations>>

\* Revoke the token, for at most two seconds, with whatever result; clear the copy.
Revoke ==
    /\ stage = "unlinked"
    /\ stage' = "finished"
    /\ revocations' = IF revoking = "none" THEN revocations ELSE revocations + 1
    /\ revoking' = "none"
    /\ UNCHANGED <<session, owner, main, requests, clock, key, token, listening, socket>>

CloseStep ==
    /\ Running
    /\ \/ StopTimer \/ WipeKey \/ ForgetKey \/ ForgetToken
       \/ CloseListener \/ Unlink \/ Revoke

\* The handler's Close, like any later one, waits for the first to finish.
LoggedOut ==
    /\ main = "logging out"
    /\ stage = "finished"
    /\ main' = "serving"
    /\ UNCHANGED <<session, owner, requests, clock, closing>>

\* Serve returns when the listener is closed.
Return ==
    /\ Free
    /\ ~listening
    /\ main' = "returning"
    /\ UNCHANGED <<session, owner, requests, clock, closing>>

\* What RunAgentProcess has deferred: Close, which waits for whoever runs it, then
\* the token it was given, then the key.
ClearMaterial ==
    /\ main = "returning"
    /\ stage = "finished"
    /\ material # {}
    /\ material' = IF "token" \in material THEN material \ {"token"} ELSE {}
    /\ UNCHANGED <<autoLockFor, online, owner, main, requests, clock, closing>>

Exit_AtOnce ==
    /\ main = "returning"
    /\ main' = "exited"
    /\ UNCHANGED <<session, owner, requests, clock, closing>>

Exit ==
    /\ main = "returning"
    /\ stage = "finished"
    /\ material = {}
    /\ main' = "exited"
    /\ UNCHANGED <<session, owner, requests, clock, closing>>

-----------------------------------------------------------------------------
(* The environment *)

Tick_PastZero ==
    /\ Running
    /\ armed
    /\ timer' = timer - 1
    /\ UNCHANGED <<session, owner, main, requests, armed, closed, closing>>

\* The timer runs down, and the open interfaces, which by now have their answer,
\* are about to poll again.
Tick ==
    /\ Running
    /\ armed /\ timer > 0
    /\ online => \A c \in Interface : client[c] \in Answer
    /\ timer' = timer - 1
    /\ client' = [c \in Client |->
            IF c \in Interface /\ client[c] \in Answer THEN "absent" ELSE client[c]]
    /\ UNCHANGED <<session, owner, main, handling, held, armed, closed, closing>>

OwnerExits ==
    /\ owner = "alive"
    /\ owner' = "gone"
    /\ UNCHANGED <<session, main, requests, clock, closing>>

PIDReused ==
    /\ owner = "gone"
    /\ owner' = "another"
    /\ UNCHANGED <<session, main, requests, clock, closing>>

Handle(c) == Accept(c) \/ Reset(c) \/ HangUp(c) \/ Read(c) \/ Reply(c)

Next ==
    \/ \E c \in Client : Connect(c) \/ Handle(c)
    \/ MonitorAutoLock \/ MonitorOwner \/ Signalled \/ LogOut
    \/ CloseStep \/ LoggedOut \/ Return \/ ClearMaterial \/ Exit
    \/ Tick \/ OwnerExits \/ PIDReused

Spec == Init /\ [][Next]_vars

\* Goroutines are scheduled, connections have deadlines, time passes, and an
\* open interface polls.  No client has to come, no signal, and no shell to exit.
FairSpec ==
    /\ Spec
    /\ \A c \in Client : WF_vars(Handle(c))
    /\ \A c \in Interface : WF_vars(Connect(c))
    /\ WF_vars(MonitorAutoLock)
    /\ WF_vars(MonitorOwner)
    /\ WF_vars(LogOut)
    /\ WF_vars(CloseStep)
    /\ WF_vars(LoggedOut)
    /\ WF_vars(Return)
    /\ WF_vars(ClearMaterial)
    /\ WF_vars(Exit)
    /\ WF_vars(Tick)

-----------------------------------------------------------------------------

\* The type invariant.
TypeOK ==
    /\ autoLockFor \in AutoLocks
    /\ online \in BOOLEAN
    /\ material \subseteq {"key", "token"}
    /\ owner \in {"alive", "gone", "another"}
    /\ main \in {"serving", "logging out", "returning", "exited"}
    /\ handling \subseteq Client
    /\ held \in {"nothing", "bytes", "none"}
    /\ client \in [Client -> {"absent"} \cup Kind \cup Answer]
    /\ timer \in 0 .. autoLockFor
    /\ armed \in BOOLEAN
    /\ closed \in BOOLEAN
    /\ stage \in Stages
    /\ key \in {"whole", "wiped", "none"}
    /\ token \in {"whole", "wiped", "none"}
    /\ revoking \in {"whole", "wiped", "none"}
    /\ listening \in BOOLEAN
    /\ socket \in BOOLEAN
    /\ revocations \in Nat

\* No copy of the key or the token is left: neither the agent's, nor what Close keeps
\* to revoke the token, nor what RunAgentProcess was launched with.
NoSecrets == key = "none" /\ token = "none" /\ revoking = "none" /\ material = {}

\* Whoever closes the session first, and whoever else tries: when the process
\* ends every copy of its secrets is cleared, what it was launched with included, its
\* socket gone, and its token, if it had one, has been sent to the server for
\* revocation exactly once.
ExitsClean ==
    main = "exited" =>
        /\ NoSecrets
        /\ ~socket
        /\ revocations = IF online THEN 1 ELSE 0

\* A request that arrives while the agent closes does not start the timer that
\* Close has stopped.
TimerStaysStopped == closed => ~armed

\* Once the session socket is gone no secret stays in memory for long, although the
\* token outlives it for its revocation, and what the agent was launched with for as
\* long as the main goroutine serves its last connection and waits for Close: neither
\* a server that does not answer nor a client that says nothing keeps them.
NoSocketNoSecrets == ~socket ~> NoSecrets

\* Once a logout has been answered no connection is given a secret any more,
\* the ones that were waiting when it came included.
NothingAfterLogout ==
    [][\A c \in Client :
        client'[c] \in Secret /\ client[c] \notin Secret =>
            \A d \in Client : client[d] # "locked"]_vars

\* A session whose shell is gone ends, even if its PID lives on.
OwnerGoneLocks == owner # "alive" ~> main = "exited"

\* Every connection is answered or hung up, whatever the ones before it do.
EveryoneIsAnswered ==
    \A c \in Client : client[c] \in Kind ~> client[c] \in Answer

\* A session that is not used any more locks, if it has a timeout.  Every
\* client but an interface comes once, so sooner or later nobody uses it.
IdleSessionLocks == autoLockFor > 0 ~> main = "exited"

\* No request is answered with the result of using cleared bytes.
NoAnswerSpoiled == \A c \in Client : client[c] # "spoiled"
=============================================================================
