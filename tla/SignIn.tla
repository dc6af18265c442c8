------------------------------- MODULE SignIn -------------------------------
(***************************************************************************)
(* Signing in to the console: the pages of LoginPages against the handlers *)
(* of LoginServer, while an administrator disables the account or resets   *)
(* its factors.  Requests fail, handlers die between two statements and    *)
(* answers are lost.                                                       *)
(***************************************************************************)
EXTENDS LoginPages

vars == <<serverVars, browserVars, journey>>

(* A behaviour starts with the browser at /login, or with its password     *)
(* already accepted and the tabs on the page it was sent to.               *)
Init ==
    /\ LInit
    /\ pendingCookie = last /\ sessionCookie = 0 /\ keyCookie = NoTab
    /\ tab = [t \in Tabs |-> IF last = 0 THEN LoginPage
                             ELSE IF pending[last] = "verify" THEN VerifyPage ELSE SetupPage]
    /\ sent = 0
    /\ journey \in Journeys

Environment ==
    \/ "expire" \in journey.uses /\ LockExpires
    \/ "disable" \in journey.uses /\ DisableAdmin
    \/ RevokeSessions
    \/ "reset" \in journey.uses /\ ResetMFA

Next ==
    /\ \/ \E t \in Tabs : PageStep(t)
       \/ \E h \in Handlers : (ServerStep(h) \/ HandlerFails(h)) /\ UNCHANGED browserVars
       \/ \E h \in Handlers : Answer(h) \/ LoseAnswer(h)
       \/ Environment /\ UNCHANGED browserVars
    /\ UNCHANGED journey

Spec == Init /\ [][Next]_vars

-----------------------------------------------------------------------------
(* Types *)

Steps == {"none", "arrived", "accepted", "insert", "resolved", "matched", "enable", "codes",
          "finish", "fail", "drop", "mint", "done"}
Ops == {"idle", "password", "state", "passbegin", "passfinish", "logout", "me", "poll", "lockstatus"}
       \cup PendingOps \cup EnrollOps
Results == Kinds \cup {"none", "locked", "disabled", "wrong", "expired", "invalid", "ok", "already",
                       "policy", "session", "idle", "unauthorized", "error"}
CallType == [op : Ops, tab : Tabs \cup {NoTab}, login : 0..MaxLogins, session : 0..MaxLogins,
             step : Steps, arg : RecoveryCodes \cup {"right", "wrong", "none", "probe", "unlock"},
             result : Results, seen : SUBSET (Factors \cup {"recovery"}), heard : BOOLEAN]

ServerTypeOK ==
    /\ policy \in Policies /\ status \in {"active", "disabling", "disabled"}
    /\ factors \in SUBSET Factors /\ codes \in SUBSET RecoveryCodes
    /\ last \in 0..MaxLogins
    /\ pending \in [Logins -> Kinds \cup {"none", "finished", "dropped"}]
    /\ attempts \in [Logins -> Nat] /\ secret \in [Logins -> BOOLEAN]
    /\ live \in SUBSET Logins /\ locked \in BOOLEAN
    /\ ceremony \in [Tabs \cup Handlers ->
          [purpose : {"none", "login", "enroll", "passwordless"}, login : 0..MaxLogins]]
    /\ call \in [Handlers -> CallType]
    /\ minted \in [Logins -> Nat] /\ spent \in [RecoveryCodes -> Nat]
    /\ cut \in 0..MaxLogins /\ late \in SUBSET Logins

Phases == {"loading", "form", "asked", "choose", "totp", "passkey", "review", "codes",
           "expired", "disabled", "shown"}
ViewType == [page : Pages, phase : Phases,
             busy : {"no", "work", "leave"}, keying : BOOLEAN, prompt : BOOLEAN,
             offered : SUBSET (Factors \cup {"recovery"}), picked : SUBSET (Factors \cup {"recovery"}),
             added : SUBSET Factors, keyed : BOOLEAN,
             over : {"off", "on", "zero"}, won : BOOLEAN]

BrowserTypeOK ==
    /\ tab \in [Tabs -> ViewType]
    /\ pendingCookie \in 0..MaxLogins /\ sessionCookie \in 0..MaxLogins
    /\ keyCookie \in Tabs \cup {NoTab}
    /\ journey \in Journeys /\ sent \in 0..journey.steps

(* Every variable has its type. *)
STypeOK == ServerTypeOK /\ BrowserTypeOK

-----------------------------------------------------------------------------
(* A login attempt is worth one session, however many tabs prove a factor  *)
(* for it at the same time (finishMFALogin).                               *)
OneSessionPerLogin == \A i \in Logins : minted[i] <= 1

(* A recovery code opens one login (consumeRecoveryCode).                  *)
RecoveryCodeOnce == \A c \in RecoveryCodes : spent[c] <= 1

(* A login whose pending row was dropped, by too many wrong factors, a     *)
(* sign-out or a revocation, never becomes a session, whatever its         *)
(* requests had already checked.                                           *)
AbandonedStaysOut == \A i \in Logins : pending[i] # "finished" => minted[i] = 0

(* After a revocation no login that had begun before it has a session,     *)
(* except those whose pending row was already consumed and whose session   *)
(* was inserted afterwards (late); and a disabled account has no others.   *)
RevokedStaysOut ==
    /\ \A i \in live : i <= cut => i \in late
    /\ status = "disabled" => live \subseteq late

(* The setup page runs one enrolment step at a time, whatever the user     *)
(* presses while another one, or a restart, is in flight.                  *)
OneEnrolStepAtATime ==
    \A t \in Tabs : tab[t].page = "setup" =>
        Cardinality({h \in Handlers : call[h].tab = t /\ call[h].heard /\ call[h].op \in EnrollOps}) <= 1

(* What the setup page says of setup_methods, that they are the methods    *)
(* the deployment can offer: as long as a factor is to be added, some      *)
(* choice of the offered and required ones can be continued.               *)
SetupCanProceed ==
    \A t \in Tabs : On(t, "setup", "choose") /\ tab[t].added # Factors =>
        \E picked \in SUBSET Factors : CanContinue([tab[t] EXCEPT !.picked = picked \cup Required])

=============================================================================
