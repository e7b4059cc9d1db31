--------------------------- MODULE SessionAgentProofs ---------------------------
(***************************************************************************)
(* What holds of every session, with any clients and any timeouts.  The    *)
(* invariant says what each stage of Close has done to the memory, the     *)
(* timer, the socket and the token, and that a session which has answered  *)
(* a logout handles no connection any more.                                *)
(***************************************************************************)
EXTENDS SessionAgent, TLAPS

\* The stages before the timer is stopped, the key is wiped, and so on.
BeforeUntimed == {"open", "entered"}
BeforeWiped   == BeforeUntimed \cup {"untimed"}
BeforeKeyless == BeforeWiped \cup {"wiped"}
BeforeDeaf    == BeforeKeyless \cup {"keyless", "tokenless"}

SecretsByStage ==
    /\ key = IF stage \in BeforeWiped THEN "whole"
             ELSE IF stage = "wiped" THEN "wiped" ELSE "none"
    /\ token = IF online /\ stage \in BeforeKeyless THEN "whole"
               ELSE IF online /\ stage = "keyless" THEN "wiped" ELSE "none"
    /\ revoking = IF online /\ stage \notin {"open", "finished"} THEN "whole" ELSE "none"
    /\ revocations = IF online /\ stage = "finished" THEN 1 ELSE 0

SocketByStage ==
    /\ listening <=> (stage \in BeforeDeaf)
    /\ socket <=> (stage \in BeforeDeaf)

TimerByStage ==
    /\ closed <=> (stage \notin BeforeUntimed)
    /\ closed => ~armed

Serving ==
    /\ main = "exited" => stage = "finished" /\ material = {}
    /\ main # "serving" => handling = {}
    /\ handling = {} => held = "nothing"
    /\ \A c, d \in handling : c = d
    /\ \A c \in handling : held # "nothing" => client[c] \in Request

LoggedOutOfService ==
    (\E d \in Client : client[d] = "locked") =>
        handling = {} /\ (main # "serving" \/ ~listening)

IInv ==
    /\ TypeOK
    /\ SecretsByStage
    /\ SocketByStage
    /\ TimerByStage
    /\ Serving
    /\ LoggedOutOfService

USE DEF BeforeUntimed, BeforeWiped, BeforeKeyless, BeforeDeaf

LEMMA InitInvariant == Init => IInv
<1> SUFFICES ASSUME Init PROVE IInv
  OBVIOUS
<1>1. timer \in 0 .. autoLockFor
  BY AutoLockAssumption DEF AutoLockAssumption, Init
<1>2. client \in [Client -> {"absent"} \cup Kind \cup Answer]
  BY DEF Init
<1>3. \A d \in Client : client[d] # "locked"
  BY DEF Init
<1>4. TypeOK
  <2>1. armed \in BOOLEAN
    BY DEF Init
  <2>2. token \in {"whole", "wiped", "none"}
    BY DEF Init
  <2> QED
    BY <1>1, <1>2, <2>1, <2>2 DEF TypeOK, Init, Stages
<1>5. SecretsByStage /\ SocketByStage /\ TimerByStage
  BY DEF Init, SecretsByStage, SocketByStage, TimerByStage
<1>6. Serving /\ LoggedOutOfService
  BY <1>3 DEF Init, Serving, LoggedOutOfService
<1> QED
  BY <1>4, <1>5, <1>6 DEF IInv

-----------------------------------------------------------------------------
(* The steps, one lemma for each part of the agent *)


\* A step that moves neither Close nor its clock keeps what the stage of Close
\* says of the memory, the socket and the timer.
LEMMA Elsewhere ==
    ASSUME IInv, UNCHANGED <<session, clock, closing>>
    PROVE  /\ SecretsByStage' /\ SocketByStage' /\ TimerByStage'
           /\ timer' \in 0 .. autoLockFor'
  BY DEF IInv, TypeOK, SecretsByStage, SocketByStage, TimerByStage, session, clock, closing

\* The type invariant is kept if the variables a step changes keep their types.
LEMMA TypeKept ==
    ASSUME TypeOK, UNCHANGED <<session, closing>>,
           owner' \in {"alive", "gone", "another"},
           main' \in {"serving", "logging out", "returning", "exited"},
           handling' \subseteq Client,
           held' \in {"nothing", "bytes", "none"},
           client' \in [Client -> {"absent"} \cup Kind \cup Answer],
           timer' \in 0 .. autoLockFor,
           armed' \in BOOLEAN, closed' \in BOOLEAN
    PROVE  TypeOK'
  BY DEF TypeOK, session, closing

LEMMA ReplyIsAnswer ==
    ASSUME NEW c \in Client, client[c] \in Request
    PROVE  /\ ReplyTo(c) \in Answer
           /\ ReplyTo(c) = "locked" => client[c] = "logout"
  BY DEF Request, ReplyTo, Answer

LEMMA ConnectStep == ASSUME IInv, NEW c \in Client, Connect(c) PROVE IInv'
<1>1. PICK k \in Kind : client' = [client EXCEPT ![c] = k]
  BY DEF Connect, Kind, Request
<1>2. client' \in [Client -> {"absent"} \cup Kind \cup Answer]
  BY <1>1 DEF IInv, TypeOK
<1>3. \A d \in Client : client'[d] = "locked" => client[d] = "locked"
  BY <1>1 DEF Kind, Request, IInv, TypeOK
<1>4. TypeOK'
  BY <1>2, TypeKept DEF Connect, IInv, TypeOK, clock
<1>5. Serving'
  <2>1. client[c] = "absent" /\ UNCHANGED <<main, stage, handling, held, material>>
    BY DEF Connect, closing, session
  <2>2. \A d \in handling : d # c => client'[d] = client[d]
    BY <1>1 DEF IInv, TypeOK
  <2>3. held # "nothing" => c \notin handling
    BY <2>1 DEF IInv, Serving, Request
  <2> QED
    BY <2>1, <2>2, <2>3 DEF IInv, Serving
<1>6. LoggedOutOfService'
  BY <1>3 DEF Connect, IInv, LoggedOutOfService, closing
<1> QED
  BY <1>4, <1>5, <1>6, Elsewhere DEF Connect, IInv

LEMMA AcceptStep == ASSUME IInv, NEW c \in Client, Accept(c) PROVE IInv'
<1>1. TypeOK'
  BY TypeKept DEF Accept, IInv, TypeOK, clock
<1>2. Serving'
  <2>1. /\ handling' = {c} /\ main = "serving" /\ held = "nothing"
        /\ UNCHANGED <<main, held, client, stage>>
    BY DEF Accept, Free, IInv, Serving, closing
  <2> QED
    BY <2>1 DEF Serving
<1>3. LoggedOutOfService'
  BY DEF Accept, Free, IInv, LoggedOutOfService, closing
<1> QED
  BY <1>1, <1>2, <1>3, Elsewhere DEF Accept, IInv

LEMMA HangUpStep == ASSUME IInv, NEW c \in Client, Reset(c) \/ HangUp(c) PROVE IInv'
<1>1. client' = [client EXCEPT ![c] = "hangup"] /\ handling' \subseteq handling
  BY DEF Reset, HangUp
<1>2. client' \in [Client -> {"absent"} \cup Kind \cup Answer]
  BY <1>1 DEF IInv, TypeOK, Answer
<1>3. \A d \in Client : client'[d] = "locked" => client[d] = "locked"
  BY <1>1 DEF IInv, TypeOK
<1>4. TypeOK'
  BY <1>1, <1>2, TypeKept DEF Reset, HangUp, IInv, TypeOK, clock
<1>5. Serving'
  <2>1. CASE Reset(c)
    <3>1. \A d \in handling : client'[d] = client[d]
      BY <1>1, <2>1 DEF Reset, IInv, TypeOK
    <3>2. UNCHANGED <<main, stage, handling, held, material>>
      BY <2>1 DEF Reset, closing, session
    <3> QED
      BY <3>1, <3>2 DEF IInv, Serving
  <2>2. CASE HangUp(c)
    BY <2>2 DEF HangUp, IInv, Serving, closing, session
  <2> QED
    BY <2>1, <2>2
<1>6. LoggedOutOfService'
  BY <1>1, <1>3 DEF Reset, HangUp, IInv, LoggedOutOfService, closing
<1> QED
  BY <1>4, <1>5, <1>6, Elsewhere DEF Reset, HangUp, IInv

\* A request does not start a timer that has been stopped.
LEMMA ReadStep == ASSUME IInv, NEW c \in Client, Read(c) PROVE IInv'
<1>0. autoLockFor \in Nat
  BY AutoLockAssumption DEF AutoLockAssumption, IInv, TypeOK
<1>1. timer' \in 0 .. autoLockFor
  <2>1. timer' = timer \/ timer' = autoLockFor
    BY DEF Read, Touch
  <2>2. timer \in 0 .. autoLockFor
    BY DEF IInv, TypeOK
  <2> QED
    BY <1>0, <2>1, <2>2
<1>2. armed' \in BOOLEAN
  BY DEF Read, Touch, IInv, TypeOK
<1>3. held' \in {"nothing", "bytes", "none"}
  BY DEF Read
<1>4. TypeOK'
  BY <1>1, <1>2, <1>3, TypeKept DEF Read, Touch, IInv, TypeOK
<1>5. SecretsByStage' /\ SocketByStage'
  BY DEF Read, IInv, SecretsByStage, SocketByStage, session, closing
<1>6. TimerByStage'
  BY DEF Read, Touch, IInv, TimerByStage, closing
<1>7. Serving' /\ LoggedOutOfService'
  <2>1. client[c] \in Request /\ c \in handling
        /\ UNCHANGED <<main, handling, client, stage, listening>>
    BY DEF Read, closing
  <2> QED
    BY <2>1 DEF IInv, Serving, LoggedOutOfService
<1> QED
  BY <1>4, <1>5, <1>6, <1>7 DEF IInv

\* Who replies to a logout handles no other connection, and leaves the main
\* goroutine to Close.
LEMMA ReplyStep == ASSUME IInv, NEW c \in Client, Reply(c) PROVE IInv'
<1>1. client[c] \in Request
  BY DEF Reply, IInv, Serving
<1>2. client' = [client EXCEPT ![c] = ReplyTo(c)] /\ handling' = {}
  BY DEF Reply
<1>3. client' \in [Client -> {"absent"} \cup Kind \cup Answer]
  BY <1>1, <1>2, ReplyIsAnswer DEF IInv, TypeOK
<1>4. TypeOK'
  <2>1. main' \in {"serving", "logging out", "returning", "exited"}
    BY DEF Reply, IInv, TypeOK
  <2> QED
    BY <1>3, <2>1, TypeKept DEF Reply, IInv, TypeOK, clock
<1>5. Serving'
  <2>1. c \in handling /\ main = "serving"
    BY DEF Reply, IInv, Serving, TypeOK
  <2> QED
    BY <1>2, <2>1 DEF Reply, IInv, Serving, closing
<1>6. LoggedOutOfService'
  <2>1. \A d \in Client : client[d] # "locked"
    BY DEF Reply, IInv, LoggedOutOfService
  <2>2. \A d \in Client : client'[d] = "locked" => client[c] = "logout"
    BY <1>1, <1>2, <2>1, ReplyIsAnswer DEF IInv, TypeOK
  <2> QED
    BY <1>2, <2>2 DEF Reply, LoggedOutOfService
<1> QED
  BY <1>4, <1>5, <1>6, Elsewhere DEF Reply, IInv

\* Whoever enters Close finds everything as NewAgent left it.
LEMMA EnterStep ==
    ASSUME IInv, Enter, UNCHANGED <<session, owner, main, requests, clock>>
    PROVE  IInv'
<1>1. TypeOK'
  <2>1. stage' \in Stages /\ revoking' \in {"whole", "wiped", "none"}
    BY DEF Enter, IInv, TypeOK, Stages
  <2>2. UNCHANGED <<autoLockFor, online, material, owner, main, handling, held, client, timer, armed,
                    closed, key, token, listening, socket, revocations>>
    BY DEF Enter, session, requests, clock
  <2>3. material' \subseteq {"key", "token"}
    BY <2>2 DEF IInv, TypeOK
  <2> QED
    BY <2>1, <2>2, <2>3, ZenonT(40) DEF IInv, TypeOK
<1>2. SecretsByStage' /\ SocketByStage' /\ TimerByStage'
  BY DEF Enter, IInv, SecretsByStage, SocketByStage, TimerByStage, session, clock, TypeOK
<1>3. Serving' /\ LoggedOutOfService'
  BY DEF Enter, IInv, Serving, LoggedOutOfService, requests
<1> QED
  BY <1>1, <1>2, <1>3 DEF IInv

\* Every statement of Close finds what the ones before it have left.
LEMMA CloseStepKeeps == ASSUME IInv, CloseStep PROVE IInv'
<1>1. UNCHANGED <<session, owner, main, requests, timer>>
  BY DEF CloseStep, StopTimer, WipeKey, ForgetKey, ForgetToken, CloseListener, Unlink,
         Revoke, clock
<1>2. stage' \in Stages /\ stage # "finished" /\ stage # "open" /\ stage' # "open"
  BY DEF CloseStep, StopTimer, WipeKey, ForgetKey, ForgetToken, CloseListener, Unlink,
         Revoke, Stages
<1>3. TimerByStage' /\ armed' \in BOOLEAN /\ closed' \in BOOLEAN
  <2>1. CASE StopTimer
    BY <2>1 DEF StopTimer, TimerByStage
  <2>2. CASE ~StopTimer
    <3>1. /\ stage \notin BeforeUntimed /\ stage' \notin BeforeUntimed
          /\ UNCHANGED <<armed, closed>>
      BY <2>2 DEF CloseStep, WipeKey, ForgetKey, ForgetToken, CloseListener, Unlink,
                  Revoke, clock
    <3> QED
      BY <3>1 DEF IInv, TypeOK, TimerByStage
  <2> QED
    BY <2>1, <2>2
<1>4. SocketByStage' /\ listening' \in BOOLEAN /\ socket' \in BOOLEAN
  <2>1. CASE StopTimer \/ WipeKey \/ ForgetKey \/ ForgetToken
    <3>1. /\ stage \in BeforeDeaf /\ stage' \in BeforeDeaf
          /\ UNCHANGED <<listening, socket>>
      BY <2>1 DEF StopTimer, WipeKey, ForgetKey, ForgetToken
    <3> QED
      BY <3>1 DEF IInv, TypeOK, SocketByStage
  <2>2. CASE CloseListener
    BY <2>2 DEF CloseListener, SocketByStage
  <2>3. CASE Unlink \/ Revoke
    <3>1. stage \notin BeforeDeaf /\ stage' \notin BeforeDeaf
      BY <2>3 DEF Unlink, Revoke
    <3>2. ~listening /\ listening' = listening /\ listening \in BOOLEAN
      BY <2>3, <3>1 DEF Unlink, Revoke, IInv, TypeOK, SocketByStage
    <3>3. ~socket /\ socket \in BOOLEAN
      BY <3>1 DEF IInv, TypeOK, SocketByStage
    <3>4. socket' = FALSE \/ socket' = socket
      BY <2>3 DEF Unlink, Revoke
    <3>5. ~socket'
      BY <3>3, <3>4
    <3>6. socket' \in BOOLEAN
      BY <3>3, <3>4
    <3> QED
      BY <3>1, <3>2, <3>5, <3>6 DEF SocketByStage
  <2> QED
    BY <2>1, <2>2, <2>3 DEF CloseStep
<1>5. /\ SecretsByStage'
      /\ key' \in {"whole", "wiped", "none"}
      /\ token' \in {"whole", "wiped", "none"}
      /\ revoking' \in {"whole", "wiped", "none"}
      /\ revocations' \in Nat
  <2>1. CASE StopTimer
    BY <2>1 DEF StopTimer, session, IInv, TypeOK, SecretsByStage
  <2>2. CASE WipeKey
    BY <2>2 DEF WipeKey, session, IInv, TypeOK, SecretsByStage
  <2>3. CASE ForgetKey
    BY <2>3 DEF ForgetKey, session, IInv, TypeOK, SecretsByStage
  <2>4. CASE ForgetToken
    BY <2>4 DEF ForgetToken, session, IInv, TypeOK, SecretsByStage
  <2>5. CASE CloseListener
    BY <2>5 DEF CloseListener, session, IInv, TypeOK, SecretsByStage
  <2>6. CASE Unlink
    BY <2>6 DEF Unlink, session, IInv, TypeOK, SecretsByStage
  <2>7. CASE Revoke
    <3>1. revocations = 0 /\ (revoking = "none" <=> ~online)
      BY <2>7 DEF Revoke, IInv, TypeOK, SecretsByStage
    <3>2. revocations' = IF online THEN 1 ELSE 0
      <4>1. online \in BOOLEAN
        BY DEF IInv, TypeOK
      <4>2. revocations' = IF revoking = "none" THEN revocations ELSE revocations + 1
        BY <2>7 DEF Revoke
      <4> QED
        BY <3>1, <4>1, <4>2
    <3>3. revoking' = "none" /\ UNCHANGED <<online, key, token>> /\ stage' = "finished"
      BY <2>7 DEF Revoke, session
    <3>4. key = "none" /\ token = "none"
      BY <2>7 DEF Revoke, IInv, SecretsByStage
    <3> QED
      BY <3>2, <3>3, <3>4 DEF SecretsByStage
  <2> QED
    BY <2>1, <2>2, <2>3, <2>4, <2>5, <2>6, <2>7 DEF CloseStep
<1>6. TypeOK'
  BY <1>1, <1>2, <1>3, <1>4, <1>5 DEF IInv, TypeOK, session, requests
<1>7. Serving' /\ LoggedOutOfService'
  <2>1. listening' => listening
    BY DEF CloseStep, StopTimer, WipeKey, ForgetKey, ForgetToken, CloseListener, Unlink, Revoke
  <2> QED
    BY <1>1, <1>2, <2>1 DEF IInv, Serving, LoggedOutOfService, requests
<1> QED
  BY <1>3, <1>4, <1>5, <1>6, <1>7 DEF IInv

\* The main goroutine leaves the connections to nobody, and ends without what it was
\* launched with.
LEMMA MainStep == ASSUME IInv, LoggedOut \/ Return \/ Exit PROVE IInv'
<1>1. TypeOK'
  BY TypeKept DEF LoggedOut, Return, Exit, IInv, TypeOK, requests, clock
<1>2. /\ handling = {} /\ main' \in {"serving", "returning", "exited"}
      /\ main' = "exited" => stage = "finished" /\ material = {}
  BY DEF LoggedOut, Return, Exit, Free, IInv, Serving
<1>3. ~listening
  BY DEF LoggedOut, Return, Exit, IInv, Serving, SocketByStage
<1>4. UNCHANGED <<handling, held, client, stage, listening, material>>
  BY DEF LoggedOut, Return, Exit, requests, closing, session
<1>5. Serving' /\ LoggedOutOfService'
  BY <1>2, <1>3, <1>4 DEF IInv, Serving, LoggedOutOfService
<1> QED
  BY <1>1, <1>5, Elsewhere DEF LoggedOut, Return, Exit, IInv

\* The deferred clearing concerns nothing else.
LEMMA ClearMaterialStep == ASSUME IInv, ClearMaterial PROVE IInv'
<1>1. material' \subseteq material
  BY DEF ClearMaterial
<1>2. UNCHANGED <<autoLockFor, online, owner, main, requests, clock, closing>>
  BY DEF ClearMaterial
<1>3. TypeOK'
  <2>1. material' \subseteq {"key", "token"}
    BY <1>1 DEF IInv, TypeOK
  <2>2. /\ UNCHANGED <<autoLockFor, online, owner, main, handling, held, client>>
        /\ UNCHANGED <<timer, armed, closed, stage, key, token, revoking>>
        /\ UNCHANGED <<listening, socket, revocations>>
    BY <1>2 DEF requests, clock, closing
  <2>3. armed' \in BOOLEAN /\ closed' \in BOOLEAN /\ listening' \in BOOLEAN /\ socket' \in BOOLEAN
    BY <2>2 DEF IInv, TypeOK
  <2>4. online' \in BOOLEAN /\ timer' \in 0 .. autoLockFor'
    BY <2>2 DEF IInv, TypeOK
  <2> QED
    BY <2>1, <2>2, <2>3, <2>4 DEF IInv, TypeOK
<1>4. SecretsByStage' /\ SocketByStage' /\ TimerByStage'
  BY <1>2 DEF IInv, TypeOK, SecretsByStage, SocketByStage, TimerByStage, clock, closing
<1>5. Serving' /\ LoggedOutOfService'
  BY <1>1, <1>2 DEF IInv, Serving, LoggedOutOfService, requests, closing
<1> QED
  BY <1>3, <1>4, <1>5 DEF IInv

LEMMA TickStep == ASSUME IInv, Tick PROVE IInv'
<1>1. timer' \in 0 .. autoLockFor
  <2>1. autoLockFor \in Nat /\ timer \in 0 .. autoLockFor
    BY AutoLockAssumption DEF AutoLockAssumption, IInv, TypeOK
  <2>2. timer > 0 /\ timer' = timer - 1
    BY DEF Tick
  <2> QED
    BY <2>1, <2>2
<1>2. client' \in [Client -> {"absent"} \cup Kind \cup Answer]
  BY DEF Tick, IInv, TypeOK
<1>3. \A d \in Client :
        /\ client'[d] = "locked" => client[d] = "locked"
        /\ client[d] \in Request => client'[d] \in Request
  BY DEF Tick, IInv, TypeOK, Request, Answer
<1>4. TypeOK'
  BY <1>1, <1>2, TypeKept DEF Tick, IInv, TypeOK
<1>5. SecretsByStage' /\ SocketByStage' /\ TimerByStage'
  BY DEF Tick, IInv, SecretsByStage, SocketByStage, TimerByStage, session, closing
<1>6. Serving' /\ LoggedOutOfService'
  BY <1>3 DEF Tick, IInv, TypeOK, Serving, LoggedOutOfService, closing, session
<1> QED
  BY <1>4, <1>5, <1>6 DEF IInv

LEMMA OwnerStep == ASSUME IInv, OwnerExits \/ PIDReused PROVE IInv'
<1>1. TypeOK'
  BY TypeKept DEF OwnerExits, PIDReused, IInv, TypeOK, requests, clock
<1>2. Serving' /\ LoggedOutOfService'
  BY DEF OwnerExits, PIDReused, IInv, Serving, LoggedOutOfService, requests, closing,
         session
<1> QED
  BY <1>1, <1>2, Elsewhere DEF OwnerExits, PIDReused, IInv

LEMMA StepInvariant == IInv /\ [Next]_vars => IInv'
<1> SUFFICES ASSUME IInv, [Next]_vars PROVE IInv'
  OBVIOUS
<1>1. CASE \E c \in Client : Connect(c) \/ Handle(c)
  BY <1>1, ConnectStep, AcceptStep, HangUpStep, ReadStep, ReplyStep DEF Handle
<1>2. CASE MonitorAutoLock \/ MonitorOwner \/ Signalled \/ LogOut
  BY <1>2, EnterStep DEF MonitorAutoLock, MonitorOwner, Signalled, LogOut
<1>3. CASE CloseStep
  BY <1>3, CloseStepKeeps
<1>4. CASE LoggedOut \/ Return \/ ClearMaterial \/ Exit
  BY <1>4, MainStep, ClearMaterialStep
<1>5. CASE Tick \/ OwnerExits \/ PIDReused
  BY <1>5, TickStep, OwnerStep
<1>6. CASE UNCHANGED vars
  <2>1. TypeOK'
    BY <1>6, TypeKept DEF vars, requests, clock, IInv, TypeOK
  <2>2. Serving' /\ LoggedOutOfService'
    BY <1>6 DEF vars, session, requests, closing, IInv, Serving, LoggedOutOfService
  <2> QED
    BY <1>6, <2>1, <2>2, Elsewhere DEF vars, IInv
<1> QED
  BY <1>1, <1>2, <1>3, <1>4, <1>5, <1>6 DEF Next

THEOREM Invariant == Spec => []IInv
  BY InitInvariant, StepInvariant, PTL DEF Spec

-----------------------------------------------------------------------------
(* The theorems *)

\* The types are right in every state of every session.
THEOREM SessionTypes == Spec => []TypeOK
<1>1. IInv => TypeOK
  BY DEF IInv
<1> QED
  BY Invariant, <1>1, PTL

\* However Close was raced for, an ended session has cleared every copy of its
\* secrets, removed its socket and revoked its token once.
THEOREM SessionExitsClean == Spec => []ExitsClean
<1>1. IInv => ExitsClean
  BY DEF IInv, Serving, SecretsByStage, SocketByStage, ExitsClean, NoSecrets
<1> QED
  BY Invariant, <1>1, PTL

\* touch never restarts the timer that Close has stopped.
THEOREM SessionTimerStaysStopped == Spec => []TimerStaysStopped
<1>1. IInv => TimerStaysStopped
  BY DEF IInv, TimerByStage, TimerStaysStopped
<1> QED
  BY Invariant, <1>1, PTL

\* An answered logout is the last answer with a secret in it.
THEOREM SessionNothingAfterLogout == Spec => NothingAfterLogout
<1> DEFINE Guarded == \A c \in Client :
        client'[c] \in Secret /\ client[c] \notin Secret =>
            \A d \in Client : client[d] # "locked"
<1>1. ASSUME IInv, Next PROVE Guarded
  <2> SUFFICES ASSUME NEW c \in Client, client'[c] \in Secret, client[c] \notin Secret
               PROVE  \A d \in Client : client[d] # "locked"
    OBVIOUS
  <2>1. PICK b \in Client : Reply(b)
    <3>1. ASSUME NEW b \in Client, Connect(b) \/ Reset(b) \/ HangUp(b) PROVE FALSE
      <4>1. \E k \in Kind \cup {"hangup"} : client' = [client EXCEPT ![b] = k]
        BY <3>1 DEF Connect, Reset, HangUp, Kind, Request
      <4> QED
        BY <4>1 DEF IInv, TypeOK, Kind, Request, Secret
    <3>2. ASSUME NEW b \in Client, Accept(b) \/ Read(b) PROVE FALSE
      BY <3>2 DEF Accept, Read
    <3>3. ~ (MonitorAutoLock \/ MonitorOwner \/ Signalled \/ LogOut \/ CloseStep
             \/ LoggedOut \/ Return \/ ClearMaterial \/ Exit \/ OwnerExits \/ PIDReused)
      BY DEF MonitorAutoLock, MonitorOwner, Signalled, LogOut, CloseStep, StopTimer,
             WipeKey, ForgetKey, ForgetToken, CloseListener, Unlink, Revoke, LoggedOut,
             Return, ClearMaterial, Exit, OwnerExits, PIDReused, requests
    <3>4. ~Tick
      BY DEF Tick, Secret
    <3> QED
      BY <1>1, <3>1, <3>2, <3>3, <3>4 DEF Next, Handle
  <2> QED
    BY <1>1, <2>1 DEF Reply, IInv, LoggedOutOfService
<1>2. ASSUME IInv, UNCHANGED vars PROVE Guarded
  BY <1>2 DEF vars, requests
<1>3. IInv /\ [Next]_vars => [Guarded]_vars
  BY <1>1, <1>2
<1> QED
  BY Invariant, <1>3, PTL DEF Spec, NothingAfterLogout
=============================================================================
