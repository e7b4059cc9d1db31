---------------------------- MODULE TerminalProofs ----------------------------
(***************************************************************************)
(* Proofs about Terminal, for any commands, accounts and secrets.          *)
(*                                                                         *)
(* What a login reports depends on what its own agent may be at each of    *)
(* its steps, and a session without a token on what the login had seen of  *)
(* the server before it started the agent: these are the parts of IInv.    *)
(***************************************************************************)
EXTENDS Terminal, TLAPS

Early == {"new", "asking", "proving", "checking", "launching"}

\* Only a login gets past its first step.
LogoutIsShort ==
    \A c \in Command :
        email(c) \notin Email => at[c] \in {"new", "refused", "interrupted", "done"}

\* A command that has not started an agent has none.
EarlyHasNone == \A c \in Command : at[c] \in Early => agent[c] = "absent"

\* A check that finds the server down was made in an outage.
CheckedInOutage ==
    \A c \in Command : at[c] = "checking" /\ server = "down" => outage[c]

\* What OfflineOnlyInOutage says, from when the login has fallen back.
OfflineEarned ==
    \A c \in Command :
        (at[c] = "launching" \/ agent[c] # "absent") /\ token[c] \in {"none", "lost"} =>
            right[c] /\ email(c) \in cache /\ outage[c]

Parts ==
    /\ LogoutIsShort
    /\ EarlyHasNone
    /\ CheckedInOutage
    /\ OfflineEarned
    /\ FailureLeavesNoKey
    /\ SuccessIsItsOwn

IInv == TypeOK /\ Parts

-----------------------------------------------------------------------------
(* Types *)

\* A terminal starts well typed.
LEMMA InitTypeOK == Init => TypeOK
<1> SUFFICES ASSUME Init PROVE TypeOK
    OBVIOUS
<1>1. errand \in [asks : [Command -> Email \cup {Logout}], copies : Nat]
    BY TerminalAssumption DEF TerminalAssumption, Init
<1>2. server \in Weather /\ cache \subseteq Email
    BY DEF Init
<1>3. at \in [Command -> Progress] /\ agent \in [Command -> Phase]
    BY DEF Init, Progress, Phase
<1>4. right \in [Command -> BOOLEAN] /\ outage \in [Command -> BOOLEAN]
    BY Zenon DEF Init
<1>5. /\ token \in [Command -> {"none", "live", "lost", "revoked"}]
      /\ met \in [Command -> Weather]
    BY DEF Init, Weather
<1>6. /\ path \in Command \cup {Nobody}
      /\ bears \in [Command -> Command \cup {Nobody}]
      /\ shows \in [Command -> Command \cup {Nobody}]
    BY DEF Init
<1>7. /\ board \in Secret \cup {"", "other"}
      /\ cleanups \subseteq [by : Command, copy : Nat, value : Secret, same : BOOLEAN]
      /\ abandoned \subseteq Secret
    BY DEF Init
<1> QED
    BY <1>1, <1>2, <1>3, <1>4, <1>5, <1>6, <1>7 DEF TypeOK

\* The steps of a login, of its launch and of the interface keep the types, if only
\* logins take them.
LEMMA LoginTypeOK ==
    ASSUME TypeOK, LogoutIsShort, NEW c \in Command, Login(c)
    PROVE  TypeOK'
<1> USE DEF TypeOK, given, agents, interfaces, clipboard, Goes, Progress, Phase, Weather
<1>1. CASE Status(c)
    BY <1>1 DEF Status, login
<1>2. CASE ReadMasterPassword(c)
    BY <1>2 DEF ReadMasterPassword, login
<1>3. CASE LoginOnline(c)
    <2>1. email(c) \in Email
        BY <1>3 DEF LogoutIsShort, LoginOnline
    <2>2. cache' \subseteq Email /\ token' \in [Command -> {"none", "live", "lost", "revoked"}]
        BY <1>3, <2>1 DEF LoginOnline
    <2> QED
        BY <1>3, <2>2 DEF LoginOnline
<1>4. CASE LoginFails(c)
    BY <1>4 DEF LoginFails
<1>5. CASE LoginOffline(c)
    BY <1>5 DEF LoginOffline
<1>6. CASE LoginRefused(c)
    BY <1>6 DEF LoginRefused, login
<1> QED
    BY <1>1, <1>2, <1>3, <1>4, <1>5, <1>6 DEF Login

\* The steps of a launch keep the types.
LEMMA LaunchTypeOK ==
    ASSUME TypeOK, NEW c \in Command, Launch(c)
    PROVE  TypeOK'
<1> USE DEF TypeOK, given, login, interfaces, clipboard, Goes, Progress, Phase
<1>1. CASE Start(c)
    BY <1>1 DEF Start
<1>2. CASE Send(c)
    BY <1>2 DEF Send, Killed
<1>3. CASE Launched(c)
    BY <1>3 DEF Launched, agents
<1>4. CASE ChildExited(c)
    BY <1>4 DEF ChildExited, agents
<1>5. CASE GiveUp(c)
    BY <1>5 DEF GiveUp, Killed
<1> QED
    BY <1>1, <1>2, <1>3, <1>4, <1>5 DEF Launch

\* The agents' steps keep the types.
LEMMA AgentTypeOK ==
    ASSUME TypeOK, NEW a \in Command, AgentStep(a)
    PROVE  TypeOK'
<1> USE DEF TypeOK, given, interfaces, clipboard, Phase
<1>1. CASE NewAgent(a)
    BY <1>1 DEF NewAgent, login
<1>2. CASE StartFails(a)
    BY <1>2 DEF StartFails, login
<1>3. CASE Lock(a)
    BY <1>3 DEF Lock, login
<1>4. CASE CloseListener(a)
    BY <1>4 DEF CloseListener, login
<1>5. CASE Unlink(a)
    BY <1>5 DEF Unlink, login
<1>6. CASE Revoke(a)
    BY <1>6 DEF Revoke
<1>7. CASE Crash(a)
    BY <1>7 DEF Crash, Killed, login
<1> QED
    BY <1>1, <1>2, <1>3, <1>4, <1>5, <1>6, <1>7 DEF AgentStep

\* Opening an interface, logging out and ^C keep the types.
LEMMA InterfaceTypeOK ==
    ASSUME TypeOK, NEW c \in Command,
           AccessToken(c) \/ RunVault(c) \/ LogOut(c) \/ Interrupt(c)
    PROVE  TypeOK'
<1> USE DEF TypeOK, given, login, clipboard, Goes, Progress, Phase
<1>1. CASE AccessToken(c)
    <2>1. at' \in [Command -> Progress]
        BY ZenonT(40), <1>1 DEF AccessToken
    <2>2. Reachable => TokenOf(path) \in Command \cup {Nobody}
        BY DEF Reachable, Answers, TokenOf
    <2>3. bears' \in [Command -> Command \cup {Nobody}]
        BY <1>1, <2>2 DEF AccessToken
    <2> QED
        BY <1>1, <2>1, <2>3 DEF AccessToken, agents
<1>2. CASE RunVault(c)
    <2>1. at' \in [Command -> Progress]
        BY ZenonT(40), <1>2 DEF RunVault
    <2>2. shows' \in [Command -> Command \cup {Nobody}]
        BY <1>2 DEF RunVault
    <2> QED
        BY <1>2, <2>1, <2>2 DEF RunVault, agents
<1>3. CASE LogOut(c)
    BY <1>3 DEF LogOut, interfaces
<1>4. CASE Interrupt(c)
    BY <1>4 DEF Interrupt, agents, interfaces
<1> QED
    BY <1>1, <1>2, <1>3, <1>4

\* The steps that concern the clipboard; Clean is any of its cleanups'.
Clean == \E k \in cleanups : Compare(k) \/ Clear(k)

\* A copy leaves one fewer.
LEMMA OneLess == \A n \in Nat : n > 0 => n - 1 \in Nat
OBVIOUS

LEMMA ClipboardTypeOK ==
    ASSUME TypeOK,
           (\E c \in Command : Quit(c) \/ \E s \in Secret : Copy(c, s)) \/ Clean \/ CopyElsewhere
    PROVE  TypeOK'
<1> USE DEF TypeOK, given, login, agents, interfaces
<1> DEFINE Cleanups == [by : Command, copy : Nat, value : Secret, same : BOOLEAN]
<1>1. CASE \E c \in Command : Quit(c)
    <2>1. PICK c \in Command : Quit(c)
        BY <1>1
    <2>2. at' \in [Command -> Progress]
        BY <2>1 DEF Quit, Goes, Progress
    <2>3. cleanups' \subseteq cleanups
        BY <2>1 DEF Quit
    <2>4. abandoned' \subseteq abandoned \cup {k.value : k \in cleanups}
        BY <2>1 DEF Quit
    <2>5. \A k \in cleanups : k.value \in Secret
        OBVIOUS
    <2>6. {k.value : k \in cleanups} \subseteq Secret
        BY <2>5, ZenonT(40)
    <2>7. abandoned' \subseteq Secret
        BY <2>4, <2>6
    <2> QED
        BY <2>1, <2>2, <2>3, <2>7 DEF Quit
<1>2. CASE \E c \in Command, s \in Secret : Copy(c, s)
    <2>1. PICK c \in Command, s \in Secret : Copy(c, s)
        BY <1>2
    <2>2. errand' \in [asks : [Command -> Email \cup {Logout}], copies : Nat]
        <3>a. errand.copies \in Nat
            OBVIOUS
        <3>b. errand.copies > 0
            BY <2>1 DEF Copy
        <3>1. errand.copies - 1 \in Nat
            BY <3>a, <3>b, OneLess
        <3>2. errand' = [errand EXCEPT !.copies = errand.copies - 1]
            BY <2>1 DEF Copy
        <3> QED
            BY <3>1, <3>2
    <2>3. CASE UNCHANGED clipboard
        BY <2>1, <2>2, <2>3 DEF Copy, clipboard
    <2>4. CASE ~UNCHANGED clipboard
        <3>1. [by |-> c, copy |-> errand.copies, value |-> s, same |-> FALSE] \in Cleanups
            OBVIOUS
        <3>2. cleanups' \subseteq Cleanups /\ board' = s /\ abandoned' \subseteq Secret
            BY <2>1, <2>4, <3>1 DEF Copy, Pending
        <3> QED
            BY <2>1, <2>2, <3>2 DEF Copy
    <2> QED
        BY <2>3, <2>4
<1>3. CASE \E k \in cleanups : Compare(k)
    <2>1. PICK k \in cleanups : Compare(k)
        BY <1>3
    <2>2. k \in Cleanups
        OBVIOUS
    <2>3. [k EXCEPT !.same = TRUE] \in Cleanups
        BY <2>2
    <2>4. cleanups' \subseteq Cleanups /\ abandoned' \subseteq Secret
        BY <2>1, <2>2, <2>3 DEF Compare
    <2> QED
        BY <2>1, <2>4 DEF Compare
<1>4. CASE \E k \in cleanups : Clear(k)
    BY <1>4 DEF Clear
<1>5. CASE CopyElsewhere
    BY <1>5 DEF CopyElsewhere
<1> QED
    BY <1>1, <1>2, <1>3, <1>4, <1>5 DEF Clean
-----------------------------------------------------------------------------
(* The parts of the invariant, over the steps that disturb them *)

\* The parts hold at the start, where every command is new.
LEMMA InitParts == Init => Parts
BY DEF Init, Parts, LogoutIsShort, EarlyHasNone, CheckedInOutage, OfflineEarned,
       FailureLeavesNoKey, SuccessIsItsOwn, Alive, email

\* The steps of a login keep the parts: it has no agent yet, and falls back in an
\* outage only.
LEMMA LoginParts ==
    ASSUME TypeOK, Parts, NEW c \in Command, Login(c)
    PROVE  Parts'
<1> USE DEF TypeOK, Parts, LogoutIsShort, EarlyHasNone, CheckedInOutage, OfflineEarned,
            FailureLeavesNoKey, SuccessIsItsOwn, Alive, Early, email, Goes, given, agents
<1>1. CASE Status(c)
    <2>1. /\ agent[c] = "absent"
          /\ email(c) \in Email
          /\ \E x \in {"asking", "opening", "refused"} : at' = [at EXCEPT ![c] = x]
        BY <1>1 DEF Status
    <2>2. UNCHANGED <<errand, right, server, cache, outage, token, agent>>
        BY <1>1 DEF Status, login
    <2>3. PICK x \in {"asking", "opening", "refused"} : \A d \in Command : at'[d] = IF d = c THEN x ELSE at[d]
        BY <2>1
    <2> QED
        BY ZenonT(40), <2>1, <2>2, <2>3
<1>2. CASE ReadMasterPassword(c)
    BY ZenonT(40), <1>2 DEF ReadMasterPassword, login
<1>3. CASE LoginOnline(c)
    BY ZenonT(90), <1>3 DEF LoginOnline
<1>4. CASE LoginFails(c)
    BY ZenonT(40), <1>4 DEF LoginFails
<1>5. CASE LoginOffline(c)
    BY ZenonT(40), <1>5 DEF LoginOffline, MayFallBack, Weather
<1>6. CASE LoginRefused(c)
    BY <1>6 DEF LoginRefused, login
<1> QED
    BY <1>1, <1>2, <1>3, <1>4, <1>5, <1>6 DEF Login

\* Whoever is killed has ended, and nobody else.
LEMMA KilledEnds ==
    ASSUME TypeOK, NEW c \in Command, Killed(c)
    PROVE  /\ ~Alive(c)'
           /\ agent'[c] = "absent" <=> agent[c] = "absent"
           /\ \A d \in Command : d # c => agent'[d] = agent[d]
<1>1. PICK x \in {"absent", "failed", "dead"} :
        /\ agent' = [agent EXCEPT ![c] = x]
        /\ x = "absent" <=> agent[c] = "absent"
    <2>1. agent[c] \in {"absent", "started", "fed", "failed", "serving", "wiped", "deaf",
                        "unlinked", "dead"}
        BY DEF TypeOK, Phase
    <2> QED
        BY ZenonT(40), <2>1 DEF Killed
<1> QED
    BY <1>1 DEF TypeOK, Alive

\* A launch that fails after its child was started kills it.
LEMMA RefusedParts ==
    ASSUME TypeOK, Parts, NEW c \in Command, at[c] \in {"sending", "awaiting"},
           at' = [at EXCEPT ![c] = "refused"], Killed(c), UNCHANGED <<given, server, login>>
    PROVE  Parts'
<1>1. at'[c] = "refused" /\ \A d \in Command : d # c => at'[d] = at[d]
    BY DEF TypeOK
<1>2. UNCHANGED <<errand, right, server, cache, outage, token>>
    BY DEF given, login
<1>3. /\ ~Alive(c)'
      /\ agent'[c] = "absent" <=> agent[c] = "absent"
      /\ \A d \in Command : d # c => agent'[d] = agent[d]
    BY KilledEnds
<1>4. LogoutIsShort' /\ EarlyHasNone' /\ CheckedInOutage'
    BY <1>1, <1>2, <1>3 DEF Parts, LogoutIsShort, EarlyHasNone, CheckedInOutage, Early, email
<1>5. OfflineEarned'
    BY <1>1, <1>2, <1>3 DEF Parts, OfflineEarned, email
<1>6. FailureLeavesNoKey' /\ SuccessIsItsOwn'
    BY <1>1, <1>3 DEF Parts, FailureLeavesNoKey, SuccessIsItsOwn, Alive
<1> QED
    BY <1>4, <1>5, <1>6 DEF Parts

\* The steps of a launch keep the parts: who gives up kills.
LEMMA LaunchParts ==
    ASSUME TypeOK, Parts, NEW c \in Command, Launch(c)
    PROVE  Parts'
<1> USE DEF TypeOK, Parts, LogoutIsShort, EarlyHasNone, CheckedInOutage, OfflineEarned,
            FailureLeavesNoKey, SuccessIsItsOwn, Alive, Early, email, Goes, given, login
<1>1. CASE Start(c)
    <2>1. CASE Goes(c, "launching", "sending") /\ agent' = [agent EXCEPT ![c] = "started"]
        BY ZenonT(40), <1>1, <2>1 DEF Start
    <2>2. CASE Goes(c, "launching", "refused") /\ UNCHANGED agent
        BY ZenonT(40), <1>1, <2>2 DEF Start
    <2> QED
        BY <1>1, <2>1, <2>2 DEF Start
<1>2. CASE Send(c)
    <2>1. CASE /\ agent[c] = "started"
               /\ Goes(c, "sending", "awaiting")
               /\ agent' = [agent EXCEPT ![c] = "fed"]
        BY ZenonT(40), <1>2, <2>1 DEF Send
    <2>2. CASE Goes(c, "sending", "refused") /\ Killed(c)
        BY <1>2, <2>2, RefusedParts DEF Send
    <2> QED
        BY <1>2, <2>1, <2>2 DEF Send
<1>3. CASE Launched(c)
    BY <1>3 DEF Launched, Ready, Reachable, Answers, agents
<1>4. CASE ChildExited(c)
    BY <1>4 DEF ChildExited, agents
<1>5. CASE GiveUp(c)
    BY <1>5, RefusedParts DEF GiveUp
<1> QED
    BY <1>1, <1>2, <1>3, <1>4, <1>5 DEF Launch

\* The agents' steps keep the parts: none comes to life again.
LEMMA AgentParts ==
    ASSUME TypeOK, Parts, NEW a \in Command, AgentStep(a)
    PROVE  Parts'
<1> USE DEF TypeOK, Parts, LogoutIsShort, EarlyHasNone, CheckedInOutage, OfflineEarned,
            FailureLeavesNoKey, SuccessIsItsOwn, Alive, Early, email, given
<1>1. CASE NewAgent(a)
    BY ZenonT(40), <1>1 DEF NewAgent, login
<1>2. CASE StartFails(a)
    BY <1>2 DEF StartFails, login
<1>3. CASE Lock(a)
    BY <1>3 DEF Lock, login
<1>4. CASE CloseListener(a)
    BY <1>4 DEF CloseListener, login
<1>5. CASE Unlink(a)
    BY <1>5 DEF Unlink, login
<1>6. CASE Revoke(a)
    BY ZenonT(40), <1>6 DEF Revoke
<1>7. CASE Crash(a)
    BY <1>7 DEF Crash, Killed, login
<1> QED
    BY <1>1, <1>2, <1>3, <1>4, <1>5, <1>6, <1>7 DEF AgentStep

\* Opening an interface, logging out, ^C and quitting keep the parts.
LEMMA InterfaceParts ==
    ASSUME TypeOK, Parts, NEW c \in Command,
           AccessToken(c) \/ RunVault(c) \/ LogOut(c) \/ Interrupt(c) \/ Quit(c)
    PROVE  Parts'
<1> USE DEF TypeOK, Parts, LogoutIsShort, EarlyHasNone, CheckedInOutage, OfflineEarned,
            FailureLeavesNoKey, SuccessIsItsOwn, Alive, Early, email, Goes, given, login
<1>1. CASE AccessToken(c)
    <2>1. /\ agent[c] \notin {"started", "fed", "failed"}
          /\ email(c) \in Email
          /\ \E x \in {"viewing", "shut out"} : at' = [at EXCEPT ![c] = x]
        BY <1>1 DEF AccessToken
    <2>2. UNCHANGED <<errand, right, server, cache, outage, token, agent>>
        BY <1>1 DEF AccessToken, agents
    <2>3. PICK x \in {"viewing", "shut out"} : \A d \in Command : at'[d] = IF d = c THEN x ELSE at[d]
        BY <2>1
    <2> QED
        BY <2>1, <2>2, <2>3
<1>2. CASE RunVault(c)
    <2>1. /\ agent[c] \notin {"started", "fed", "failed"}
          /\ email(c) \in Email
          /\ \E x \in {"open", "shut out"} : at' = [at EXCEPT ![c] = x]
        BY <1>2 DEF RunVault
    <2>2. UNCHANGED <<errand, right, server, cache, outage, token, agent>>
        BY <1>2 DEF RunVault, agents
    <2>3. PICK x \in {"open", "shut out"} : \A d \in Command : at'[d] = IF d = c THEN x ELSE at[d]
        BY <2>1
    <2> QED
        BY <2>1, <2>2, <2>3
<1>3. CASE LogOut(c)
    <2>1. CASE /\ Reachable
               /\ Goes(c, "new", "done")
               /\ agent' = [agent EXCEPT ![path] = "wiped"]
        <3>1. path \in Command /\ path # c /\ agent[path] \in {"serving", "wiped"}
            BY <2>1 DEF Reachable, Answers
        <3> QED
            BY ZenonT(40), <1>3, <2>1, <3>1 DEF LogOut
    <2>2. CASE Goes(c, "new", "refused") /\ UNCHANGED agent
        BY <1>3, <2>2 DEF LogOut
    <2> QED
        BY <1>3, <2>1, <2>2 DEF LogOut
<1>4. CASE Interrupt(c)
    BY ZenonT(40), <1>4 DEF Interrupt, agents
<1>5. CASE Quit(c)
    BY <1>5 DEF Quit, agents
<1> QED
    BY <1>1, <1>2, <1>3, <1>4, <1>5

\* What is left changes neither a command nor an agent.
LEMMA OtherParts ==
    ASSUME TypeOK, Parts,
           \/ \E c \in Command, s \in Secret : Copy(c, s)
           \/ Clean \/ CopyElsewhere
           \/ \E w \in Weather : Change(w)
           \/ \E e \in Email : Enrol(e)
    PROVE  Parts'
<1> USE DEF TypeOK, Parts, LogoutIsShort, EarlyHasNone, CheckedInOutage, OfflineEarned,
            FailureLeavesNoKey, SuccessIsItsOwn, Alive, Early, email, given, agents
<1>1. CASE \E c \in Command, s \in Secret : Copy(c, s)
    <2>1. errand'.asks = errand.asks
        BY <1>1 DEF Copy
    <2>2. UNCHANGED <<right, server, cache, outage, token, at, agent>>
        BY <1>1 DEF Copy, login
    <2> QED
        BY <2>1, <2>2
<1>2. CASE Clean \/ CopyElsewhere
    BY ZenonT(40), <1>2 DEF Clean, Compare, Clear, CopyElsewhere, login
<1>3. CASE \E w \in Weather : Change(w)
    <2>1. PICK w \in Weather : Change(w)
        BY <1>3
    <2>2. /\ \A c \in Command : outage[c] => outage'[c]
          /\ server' = "down" => \A c \in Command : at[c] = "checking" => outage'[c]
        BY <2>1 DEF Change
    <2>3. UNCHANGED <<errand, right, cache, token, at, agent>>
        BY <2>1 DEF Change
    <2> QED
        BY <2>2, <2>3
<1>4. CASE \E e \in Email : Enrol(e)
    BY <1>4 DEF Enrol
<1> QED
    BY <1>1, <1>2, <1>3, <1>4

\* The invariant holds at the start.
LEMMA InitInvariant == Init => IInv
BY InitTypeOK, InitParts DEF IInv

\* Every step preserves the invariant.
LEMMA StepInvariant == IInv /\ [Next]_vars => IInv'
<1> SUFFICES ASSUME IInv, [Next]_vars PROVE IInv'
    OBVIOUS
<1> USE DEF IInv
<1>1. ASSUME NEW c \in Command, Login(c) PROVE IInv'
    BY <1>1, LoginTypeOK, LoginParts DEF Parts
<1>2. ASSUME NEW c \in Command, Launch(c) PROVE IInv'
    BY <1>2, LaunchTypeOK, LaunchParts
<1>3. ASSUME NEW c \in Command, AgentStep(c) PROVE IInv'
    BY <1>3, AgentTypeOK, AgentParts
<1>4. ASSUME NEW c \in Command, AccessToken(c) \/ RunVault(c) \/ LogOut(c) \/ Interrupt(c)
      PROVE  IInv'
    BY <1>4, InterfaceTypeOK, InterfaceParts
<1>5. ASSUME NEW c \in Command, Quit(c) PROVE IInv'
    BY <1>5, ClipboardTypeOK, InterfaceParts
<1>6. ASSUME NEW c \in Command, NEW s \in Secret, Copy(c, s) PROVE IInv'
    BY <1>6, ClipboardTypeOK, OtherParts
<1>7. CASE Clean \/ CopyElsewhere
    BY <1>7, ClipboardTypeOK, OtherParts
<1>8. ASSUME NEW w \in Weather, Change(w) PROVE IInv'
    <2>1. TypeOK'
        BY <1>8 DEF Change, TypeOK, given, agents, interfaces, clipboard
    <2> QED
        BY <1>8, <2>1, OtherParts
<1>9. ASSUME NEW e \in Email, Enrol(e) PROVE IInv'
    <2>1. TypeOK'
        BY <1>9 DEF Enrol, TypeOK, given, agents, interfaces, clipboard
    <2> QED
        BY <1>9, <2>1, OtherParts
<1>10. CASE UNCHANGED vars
    <2>1. TypeOK'
        BY <1>10 DEF vars, TypeOK, given, login, agents, interfaces, clipboard
    <2>2. Parts'
        BY <1>10 DEF vars, given, login, agents, Parts, LogoutIsShort, EarlyHasNone,
                     CheckedInOutage, OfflineEarned, FailureLeavesNoKey, SuccessIsItsOwn,
                     Alive, email
    <2> QED
        BY <2>1, <2>2
<1> QED
    BY <1>1, <1>2, <1>3, <1>4, <1>5, <1>6, <1>7, <1>8, <1>9, <1>10 DEF Next, Clean

\* The invariant holds in every reachable state.
LEMMA Invariant == Spec => []IInv
BY InitInvariant, StepInvariant, PTL DEF Spec

\* Every reachable state is well typed (Terminal.tla, the launcher, the agents and the
\* clipboard).
THEOREM TerminalTypes == Spec => []TypeOK
<1>1. IInv => TypeOK
    BY DEF IInv
<1> QED
    BY <1>1, Invariant, PTL

\* What a login reports of its session is true (runLogin, LoginWithCache, Launch): a
\* failure leaves no process with the key, a success has seen the login's own agent
\* serve, and a session without a token was unlocked from an authorized cache by a
\* login that met an outage, at its online attempt or before the check that followed.
THEOREM LoginsTellTheTruth == Spec => []SessionsAreEarned
<1>1. IInv => SessionsAreEarned
    BY DEF IInv, Parts, SessionsAreEarned, OfflineEarned, OfflineOnlyInOutage
<1> QED
    BY <1>1, Invariant, PTL

-----------------------------------------------------------------------------
(* The clipboard *)

\* Every step keeps copied secrets due.
LEMMA StepCopiedIsDue == IInv /\ CopiedIsDue /\ [Next]_vars => CopiedIsDue'
<1> SUFFICES ASSUME TypeOK, CopiedIsDue, [Next]_vars,
                    board' \in Secret, board' \notin abandoned'
             PROVE  \E k \in cleanups' : k.value = board'
    BY DEF IInv, CopiedIsDue
<1> USE DEF CopiedIsDue
<1>1. CASE UNCHANGED clipboard
    BY <1>1 DEF clipboard
<1>2. ASSUME NEW c \in Command, Quit(c) PROVE \E k \in cleanups' : k.value = board'
    <2>1. \A k \in cleanups : k \notin cleanups' => k.value \in abandoned'
        BY <1>2 DEF Quit
    <2>2. board' = board /\ abandoned \subseteq abandoned'
        BY <1>2 DEF Quit
    <2> QED
        BY <2>1, <2>2
<1>3. ASSUME NEW c \in Command, NEW s \in Secret, Copy(c, s), ~UNCHANGED clipboard
      PROVE  \E k \in cleanups' : k.value = board'
    <2> DEFINE k == [by |-> c, copy |-> errand.copies, value |-> s, same |-> FALSE]
    <2>1. board' = s /\ k \in cleanups'
        BY <1>3 DEF Copy, Pending
    <2> QED
        BY <2>1
<1>4. ASSUME NEW k \in cleanups, Compare(k) PROVE \E d \in cleanups' : d.value = board'
    <2>1. board' = board /\ abandoned \subseteq abandoned'
        BY <1>4 DEF Compare
    <2>2. PICK d \in cleanups : d.value = board
        BY <2>1
    <2>3. CASE cleanups' = (cleanups \ {k}) \cup {[k EXCEPT !.same = TRUE]}
        <3>1. [k EXCEPT !.same = TRUE].value = k.value
            BY DEF TypeOK
        <3> QED
            BY <2>1, <2>2, <2>3, <3>1
    <2>4. CASE cleanups' = cleanups \ {k} /\ k.value # board
        BY <2>1, <2>2, <2>4
    <2>5. CASE k.value \in abandoned' /\ cleanups' = cleanups \ {k}
        BY <2>1, <2>2, <2>5
    <2> QED
        BY <1>4, <2>3, <2>4, <2>5 DEF Compare
<1>5. ASSUME NEW k \in cleanups, Clear(k) PROVE \E d \in cleanups' : d.value = board'
    <2>1. board' # ""
        BY TerminalAssumption DEF TerminalAssumption
    <2>2. /\ board' = board /\ abandoned' = abandoned \cup {k.value}
          /\ cleanups' = cleanups \ {k}
        BY <1>5, <2>1 DEF Clear
    <2> QED
        BY <2>2
<1>6. CASE CopyElsewhere
    BY <1>6, TerminalAssumption DEF TerminalAssumption, CopyElsewhere
<1>7. ASSUME NEW c \in Command, Login(c) PROVE UNCHANGED clipboard
    BY <1>7 DEF Login, Status, ReadMasterPassword, LoginOnline, LoginFails, LoginOffline,
                LoginRefused
<1>8. ASSUME NEW c \in Command, Launch(c) PROVE UNCHANGED clipboard
    BY <1>8 DEF Launch, Start, Send, Launched, ChildExited, GiveUp
<1>9. ASSUME NEW c \in Command, AgentStep(c) PROVE UNCHANGED clipboard
    BY <1>9 DEF AgentStep, NewAgent, StartFails, Lock, CloseListener, Unlink, Revoke, Crash
<1>10. ASSUME NEW c \in Command, AccessToken(c) \/ RunVault(c) \/ LogOut(c) \/ Interrupt(c)
       PROVE  UNCHANGED clipboard
    BY <1>10 DEF AccessToken, RunVault, LogOut, Interrupt
<1>11. CASE (\E w \in Weather : Change(w)) \/ (\E e \in Email : Enrol(e)) \/ UNCHANGED vars
    <2>1. UNCHANGED clipboard
        BY <1>11 DEF Change, Enrol, vars
    <2> QED
        BY <1>1, <2>1
<1> QED
    BY <1>1, <1>2, <1>3, <1>4, <1>5, <1>6, <1>7, <1>8, <1>9, <1>10, <1>11 DEF Next

\* A copied secret is due to be cleared as long as its interface stays open and the
\* clipboard's commands work (clipboard.Copy, copySecret).
THEOREM CopiesStayDue == Spec => []CopiedIsDue
<1>1. Init => CopiedIsDue
    BY TerminalAssumption DEF TerminalAssumption, Init, CopiedIsDue
<1> QED
    BY <1>1, Invariant, StepCopiedIsDue, PTL DEF Spec
=============================================================================
