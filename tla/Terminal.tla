------------------------------- MODULE Terminal -------------------------------
(***************************************************************************)
(* One terminal, with what is started in it: logins, which look for the    *)
(* terminal's agent, prove the password to the server or to the local      *)
(* cache, start an agent of their own and open the interface; logouts; the *)
(* agents; the socket path, of which there is one; and the clipboard.      *)
(*                                                                         *)
(* A login may be stopped where it asks for the password, or put in the    *)
(* background, so the commands of a terminal interleave.  What an agent    *)
(* does between its start and its end is the subject of SessionAgent: here *)
(* it is a phase.                                                          *)
(*                                                                         *)
(* A definition named X_Y is X with a mistake in it, and no part of the    *)
(* model: it shows that some property would notice the mistake.            *)
(***************************************************************************)
EXTENDS Naturals

CONSTANTS
    Command,    \* the programs started in the terminal
    Email,      \* accounts
    Secret,     \* what the user copies from a vault
    Logout,     \* not an account
    Nobody,     \* not a command
    Errands     \* what the commands are: bounds of an instance

ASSUME TerminalAssumption ==
    /\ Logout \notin Email
    /\ Nobody \notin Command
    /\ {"", "other"} \cap Secret = {}
    /\ Errands \subseteq [asks : [Command -> Email \cup {Logout}], copies : Nat]

\* What a request meets, and where a command and its agent have come.
Weather   == {"healthy", "down", "tls error"}
Progress  == {"new", "asking", "proving", "checking", "launching", "sending", "awaiting",
              "opening", "viewing", "open", "refused", "shut out", "interrupted", "done"}
Phase     == {"absent", "started", "fed", "failed",
              "serving", "wiped", "deaf", "unlinked", "dead"}

VARIABLES
    errand,     \* what each command is, and how often it may copy a secret
    server,     \* how the server is to be reached
    cache,      \* the accounts with an authorized cache on this device
    at,         \* how far each command is
    right,      \* whether the password given to it is the account's
    outage,     \* the server was down between its online attempt and the check
    met,        \* how the server was as its online attempt failed, until the fallback
    token,      \* the online session it was given
    agent,      \* the agent it has started
    path,       \* the agent, dead or alive, whose socket file is at the path
    bears,      \* the login whose token an interface uses
    shows,      \* the login whose vault an interface shows
    board,      \* the content of the clipboard, "" if empty
    cleanups,   \* copies made and not yet cleaned up
    abandoned   \* secrets whose cleanup a program or a clipboard command failed

given == <<errand, right>>
login == <<cache, outage, met, token>>
agents == <<agent, path>>
interfaces == <<bears, shows>>
clipboard == <<board, cleanups, abandoned>>
vars == <<given, server, login, at, agents, interfaces, clipboard>>

email(c) == errand.asks[c]

Init ==
    /\ errand \in Errands
    /\ server \in Weather
    /\ cache = {}
    /\ at = [c \in Command |-> "new"]
    /\ right = [c \in Command |-> FALSE]
    /\ outage = [c \in Command |-> FALSE]
    /\ met = [c \in Command |-> "healthy"]
    /\ token = [c \in Command |-> "none"]
    /\ agent = [c \in Command |-> "absent"]
    /\ path = Nobody
    /\ bears = [c \in Command |-> Nobody]
    /\ shows = [c \in Command |-> Nobody]
    /\ board = ""
    /\ cleanups = {}
    /\ abandoned = {}

\* An agent answers until its listener is closed, cleared or not.
Answers(a)  == a # Nobody /\ agent[a] \in {"serving", "wiped"}
Reachable   == Answers(path)

Goes(c, from, to) == at[c] = from /\ at' = [at EXCEPT ![c] = to]

-----------------------------------------------------------------------------
(* termkeep login *)

\* A session of the account is used again, one of another account is in the way.
\* A call on the socket may fail or time out though the agent is alive: it may be
\* busy for longer with another connection.
Status(c) ==
    /\ email(c) \in Email
    /\ \/ Goes(c, "new", "asking")
       \/ Reachable /\ email(path) = email(c) /\ Goes(c, "new", "opening")
       \/ Reachable /\ email(path) # email(c) /\ Goes(c, "new", "refused")
    /\ UNCHANGED <<given, server, login, agents, interfaces, clipboard>>

ReadMasterPassword(c) ==
    /\ Goes(c, "asking", "proving")
    /\ \E b \in BOOLEAN : right' = [right EXCEPT ![c] = b]
    /\ UNCHANGED <<errand, server, login, agents, interfaces, clipboard>>

\* The server issues a token.  The client authorizes its cache, which may fail: the
\* account of that name may be another by now.
LoginOnline(c) ==
    /\ server = "healthy" /\ right[c]
    /\ token' = [token EXCEPT ![c] = "live"]
    /\ \/ Goes(c, "proving", "launching") /\ cache' = cache \cup {email(c)}
       \/ Goes(c, "proving", "refused") /\ UNCHANGED cache
    /\ UNCHANGED <<given, server, outage, met, agents, interfaces, clipboard>>

\* A login fails for the server, the password, the delay after failures, or a lost
\* answer: that of a token just issued, too.
LoginFails(c) ==
    /\ Goes(c, "proving", "checking")
    /\ outage' = [outage EXCEPT ![c] = server = "down"]
    /\ met' = [met EXCEPT ![c] = server]
    /\ \/ UNCHANGED token
       \/ server = "healthy" /\ right[c] /\ token' = [token EXCEPT ![c] = "live"]
    /\ UNCHANGED <<given, server, cache, agents, interfaces, clipboard>>

MayFallBack == server \notin {"healthy", "tls error"}

\* CheckStatus asks the server anew, and nobody asks why the attempt failed.  The cache
\* is tried only if the server could not answer the check, and opens only with the
\* right password.
LoginOffline(c) ==
    /\ MayFallBack
    /\ right[c] /\ email(c) \in cache
    /\ Goes(c, "checking", "launching")
    /\ token' = [token EXCEPT ![c] = IF @ = "live" THEN "lost" ELSE @]
    /\ met' = [met EXCEPT ![c] = "healthy"]
    /\ UNCHANGED <<given, server, cache, outage, agents, interfaces, clipboard>>

\* Nor is it certain that the cache can be read.
LoginRefused(c) ==
    /\ Goes(c, "checking", "refused")
    /\ met' = [met EXCEPT ![c] = "healthy"]
    /\ UNCHANGED <<given, server, cache, outage, token, agents, interfaces, clipboard>>

-----------------------------------------------------------------------------
(* Launch *)

Start(c) ==
    /\ \/ Goes(c, "launching", "sending") /\ agent' = [agent EXCEPT ![c] = "started"]
       \/ Goes(c, "launching", "refused") /\ UNCHANGED agent
    /\ UNCHANGED <<given, server, login, path, interfaces, clipboard>>

\* A process that is killed leaves its socket file where it is.
Killed(a) ==
    agent' = [agent EXCEPT ![a] =
        CASE @ \in {"started", "fed"}                          -> "failed"
          [] @ \in {"serving", "wiped", "deaf", "unlinked"}    -> "dead"
          [] OTHER                                             -> @]

\* The material goes through a pipe, which a dead child does not read.
Send(c) ==
    /\ \/ /\ agent[c] = "started"
          /\ Goes(c, "sending", "awaiting")
          /\ agent' = [agent EXCEPT ![c] = "fed"]
       \/ /\ Goes(c, "sending", "refused")
          /\ Killed(c)
    /\ UNCHANGED <<given, server, login, path, interfaces, clipboard>>

Ready_Anyone(c) == Reachable

\* Every 10 ms: the child is ready when a status at the path is its own.
Ready(c) == Reachable /\ path = c

Launched(c) ==
    /\ Ready(c)
    /\ Goes(c, "awaiting", "opening")
    /\ UNCHANGED <<given, server, login, agents, interfaces, clipboard>>

ChildExited(c) ==
    /\ agent[c] \in {"failed", "dead"}
    /\ Goes(c, "awaiting", "refused")
    /\ UNCHANGED <<given, server, login, agents, interfaces, clipboard>>

\* After 3 seconds, or 5 with what came before; the child may be ready by now.
GiveUp(c) ==
    /\ Goes(c, "awaiting", "refused")
    /\ Killed(c)
    /\ UNCHANGED <<given, server, login, path, interfaces, clipboard>>

-----------------------------------------------------------------------------
(* The agents *)

\* ListenUnix fails where there is a file, whether or not somebody listens on it.
NewAgent(a) ==
    /\ agent[a] = "fed"
    /\ IF path = Nobody
       THEN path' = a /\ agent' = [agent EXCEPT ![a] = "serving"]
       ELSE UNCHANGED path /\ agent' = [agent EXCEPT ![a] = "failed"]
    /\ UNCHANGED <<given, server, login, at, interfaces, clipboard>>

\* A child whose parent is gone reads the end of the pipe, and what it needs of the
\* system may be missing.
StartFails(a) ==
    /\ agent[a] \in {"started", "fed"}
    /\ agent' = [agent EXCEPT ![a] = "failed"]
    /\ UNCHANGED <<given, server, login, at, path, interfaces, clipboard>>

\* The timer, the shell's end, a signal: Close begins with the agent's own copies of
\* the secrets.
Lock(a) ==
    /\ agent[a] = "serving"
    /\ agent' = [agent EXCEPT ![a] = "wiped"]
    /\ UNCHANGED <<given, server, login, at, path, interfaces, clipboard>>

\* Both unlink the path, whatever is there: the listener as it closes ...
CloseListener(a) ==
    /\ agent[a] = "wiped"
    /\ agent' = [agent EXCEPT ![a] = "deaf"]
    /\ path' = Nobody
    /\ UNCHANGED <<given, server, login, at, interfaces, clipboard>>

\* ... and then Close itself.
Unlink(a) ==
    /\ agent[a] = "deaf"
    /\ agent' = [agent EXCEPT ![a] = "unlinked"]
    /\ path' = Nobody
    /\ UNCHANGED <<given, server, login, at, interfaces, clipboard>>

\* The token is revoked if the server can be reached within two seconds.
Revoke(a) ==
    /\ agent[a] = "unlinked"
    /\ agent' = [agent EXCEPT ![a] = "dead"]
    /\ \/ server = "healthy"
          /\ token' = [token EXCEPT ![a] = IF @ = "live" THEN "revoked" ELSE @]
       \/ UNCHANGED token
    /\ UNCHANGED <<given, server, cache, outage, met, at, path, interfaces, clipboard>>

\* An agent is killed from outside.
Crash(a) ==
    /\ agent[a] \in {"serving", "wiped", "deaf", "unlinked"}
    /\ Killed(a)
    /\ UNCHANGED <<given, server, login, at, path, interfaces, clipboard>>

AgentStep(a) ==
    \/ NewAgent(a) \/ StartFails(a) \/ Lock(a)
    \/ CloseListener(a) \/ Unlink(a) \/ Revoke(a) \/ Crash(a)

-----------------------------------------------------------------------------
(* The interface, and termkeep logout *)

\* An empty token is an offline session's, or that of an agent about to end.
TokenOf(a) == IF agent[a] = "serving" /\ token[a] \in {"live", "revoked"} THEN a ELSE Nobody

AccessToken(c) ==
    /\ \/ /\ Reachable
          /\ Goes(c, "opening", "viewing")
          /\ bears' = [bears EXCEPT ![c] = TokenOf(path)]
       \/ Goes(c, "opening", "shut out") /\ UNCHANGED bears
    /\ UNCHANGED <<given, server, login, agents, shows, clipboard>>

\* Whose vault it is, the agent is asked once more; then its cache is opened.
RunVault(c) ==
    /\ \/ /\ Reachable /\ email(path) \in cache
          /\ Goes(c, "viewing", "open")
          /\ shows' = [shows EXCEPT ![c] = path]
       \/ Goes(c, "viewing", "shut out") /\ UNCHANGED shows
    /\ UNCHANGED <<given, server, login, agents, bears, clipboard>>

\* The handler of the request runs Close.
LogOut(c) ==
    /\ email(c) = Logout
    /\ \/ /\ Reachable
          /\ Goes(c, "new", "done")
          /\ agent' = [agent EXCEPT ![path] = "wiped"]
       \/ Goes(c, "new", "refused") /\ UNCHANGED agent
    /\ UNCHANGED <<given, server, login, path, interfaces, clipboard>>

\* ^C ends a command before its interface is open; its child has its own session
\* and lives on.
Interrupt(c) ==
    /\ at[c] \notin {"open", "refused", "shut out", "interrupted", "done"}
    /\ at' = [at EXCEPT ![c] = "interrupted"]
    /\ UNCHANGED <<given, server, login, agents, interfaces, clipboard>>

-----------------------------------------------------------------------------
(* The clipboard *)

Pending_Single(k) == IF cleanups = {} THEN {k} ELSE cleanups

\* Every copy has a goroutine of its own.
Pending(k) == cleanups \cup {k}

\* The copies of an interface are numbered to tell them apart.
Copy(c, s) ==
    /\ at[c] = "open"
    /\ errand.copies > 0
    /\ errand' = [errand EXCEPT !.copies = @ - 1]
    /\ \/ /\ board' = s
          /\ cleanups' = Pending([by |-> c, copy |-> errand.copies, value |-> s, same |-> FALSE])
          /\ abandoned' = abandoned \ {s}
       \/ UNCHANGED clipboard
    /\ UNCHANGED <<right, server, login, at, agents, interfaces>>

\* 30 seconds later, and in any order if the machine has slept: read, ...
Compare(k) ==
    /\ ~k.same
    /\ \/ /\ board = k.value
          /\ cleanups' = (cleanups \ {k}) \cup {[k EXCEPT !.same = TRUE]}
          /\ UNCHANGED abandoned
       \/ /\ board # k.value
          /\ cleanups' = cleanups \ {k}
          /\ UNCHANGED abandoned
       \/ /\ cleanups' = cleanups \ {k}
          /\ abandoned' = abandoned \cup {k.value}
    /\ UNCHANGED <<given, server, login, at, agents, interfaces, board>>

\* ... and write.  Each is a command, which may fail.
Clear(k) ==
    /\ k.same
    /\ cleanups' = cleanups \ {k}
    /\ \/ board' = "" /\ UNCHANGED abandoned
       \/ UNCHANGED board /\ abandoned' = abandoned \cup {k.value}
    /\ UNCHANGED <<given, server, login, at, agents, interfaces>>

\* The user copies something else, which matters where it replaces a secret.
CopyElsewhere ==
    /\ board \in Secret
    /\ board' = "other"
    /\ UNCHANGED <<given, server, login, at, agents, interfaces, cleanups, abandoned>>

\* The goroutines end with the process.
Quit(c) ==
    /\ Goes(c, "open", "done")
    /\ LET lost == {k \in cleanups : k.by = c} IN
        /\ cleanups' = cleanups \ lost
        /\ abandoned' = abandoned \cup {k.value : k \in lost}
    /\ UNCHANGED <<given, server, login, agents, interfaces, board>>

-----------------------------------------------------------------------------

\* The server, the network and its certificates come and go.
Change(w) ==
    /\ server # w
    /\ server' = w
    /\ outage' = [c \in Command |-> outage[c] \/ (w = "down" /\ at[c] = "checking")]
    /\ UNCHANGED <<given, cache, met, token, at, agents, interfaces, clipboard>>

\* termkeep bootstrap and termkeep register authorize a cache and start no agent.
Enrol(e) ==
    /\ server = "healthy"
    /\ e \notin cache
    /\ cache' = cache \cup {e}
    /\ UNCHANGED <<given, server, outage, met, token, at, agents, interfaces, clipboard>>

Login(c)  == Status(c) \/ ReadMasterPassword(c) \/ LoginOnline(c) \/ LoginFails(c)
             \/ LoginOffline(c) \/ LoginRefused(c)
Launch(c) == Start(c) \/ Send(c) \/ Launched(c) \/ ChildExited(c) \/ GiveUp(c)

Next ==
    \/ \E c \in Command :
        \/ Login(c) \/ Launch(c) \/ AgentStep(c)
        \/ AccessToken(c) \/ RunVault(c) \/ LogOut(c) \/ Interrupt(c) \/ Quit(c)
        \/ \E s \in Secret : Copy(c, s)
    \/ \E k \in cleanups : Compare(k) \/ Clear(k)
    \/ CopyElsewhere
    \/ \E w \in Weather : Change(w)
    \/ \E e \in Email : Enrol(e)

Spec == Init /\ [][Next]_vars

-----------------------------------------------------------------------------

\* The type invariant.
TypeOK ==
    /\ errand \in [asks : [Command -> Email \cup {Logout}], copies : Nat]
    /\ server \in Weather
    /\ cache \subseteq Email
    /\ at \in [Command -> Progress]
    /\ right \in [Command -> BOOLEAN]
    /\ outage \in [Command -> BOOLEAN]
    /\ met \in [Command -> Weather]
    /\ token \in [Command -> {"none", "live", "lost", "revoked"}]
    /\ agent \in [Command -> Phase]
    /\ path \in Command \cup {Nobody}
    /\ bears \in [Command -> Command \cup {Nobody}]
    /\ shows \in [Command -> Command \cup {Nobody}]
    /\ board \in Secret \cup {"", "other"}
    /\ cleanups \subseteq [by : Command, copy : Nat, value : Secret, same : BOOLEAN]
    /\ abandoned \subseteq Secret

\* A process between its start and its end has the key: the pipe's, the agent's, or,
\* until Close has returned, the one it was launched with.
Alive(c) == agent[c] \notin {"absent", "failed", "dead"}

\* A login that has reported a failure leaves no process with the key of its vault,
\* ready, still becoming so or about to end.
FailureLeavesNoKey == \A c \in Command : at[c] = "refused" => ~Alive(c)

\* A login that goes on to its interface has seen an agent of its own serve, if it
\* started one, and not the one of a login that came first.
SuccessIsItsOwn ==
    \A c \in Command :
        at[c] \in {"opening", "viewing", "open"} =>
            agent[c] \notin {"started", "fed", "failed"}

\* A session without a token was unlocked from a cache of that account which an
\* enrolment or an online login had authorized, and the server was down at the online
\* attempt or had gone down by the check that followed: it is not enough that it
\* refused the login, or never proved who it is.
OfflineOnlyInOutage ==
    \A c \in Command :
        agent[c] # "absent" /\ token[c] \in {"none", "lost"} =>
            right[c] /\ email(c) \in cache /\ outage[c]

\* "A TLS validation failure never permits offline fallback", says the user's guide.
\* This does not hold and no run checks it: LoginWithCache has the reason why the
\* attempt failed and decides by the check alone, so that a server which could not
\* prove who it is at the attempt, and is down at the check, permits it.
TLSFailureNeverFallsBack ==
    [][\A c \in Command :
        LoginOffline(c) => met[c] # "tls error"]_vars

\* What a login says of its session is true.
SessionsAreEarned ==
    /\ FailureLeavesNoKey
    /\ SuccessIsItsOwn
    /\ OfflineOnlyInOutage

\* A secret on the clipboard is due to be cleared, however many copies, of the same
\* secret or others, were made before and after, as long as the interface it was
\* copied from stays open and the clipboard's commands work.
CopiedIsDue ==
    board \in Secret \ abandoned => \E k \in cleanups : k.value = board
=============================================================================
