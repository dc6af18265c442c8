----------------------------- MODULE LoginPages -----------------------------
(***************************************************************************)
(* The sign-in pages of the console in the tabs of one browser: /login,    *)
(* /mfa-verify, /mfa-setup and the authenticated shell.  A tab is the      *)
(* React state of the page it shows; the cookies belong to the browser, so *)
(* a tab answers for a login another tab has replaced or abandoned.        *)
(*                                                                         *)
(* Every navigation of these pages is a full page load: it starts from the *)
(* page's initial state and nobody listens to the requests still running.  *)
(***************************************************************************)
EXTENDS LoginServer

CONSTANT
    Journeys   \* what one behaviour may use (bound): the pages opened and the
               \* requests sent (uses), and how many requests (steps)

ASSUME JourneyAssumption == \A j \in Journeys : j.steps \in Nat

VARIABLES
    tab,            \* what each tab shows
    pendingCookie,  \* the login of wgc_mfa_pending, 0 without one
    sessionCookie,  \* the login whose session the browser holds, 0 without one
    keyCookie,      \* the tab of the ceremony wgc_passkey_login names
    sent,           \* requests so far
    journey         \* the bound of this behaviour, fixed

browserVars == <<tab, pendingCookie, sessionCookie, keyCookie, sent>>
cookies     == <<pendingCookie, sessionCookie, keyCookie>>

Pages == {"login", "verify", "setup", "app"}

-----------------------------------------------------------------------------
(* The state a page starts from.  busy and keying are the request in       *)
(* flight a page disables itself for, prompt an open passkey dialog of the *)
(* browser, over the lockout overlay, won the success overlay.             *)
Blank == [page |-> "login", phase |-> "loading", busy |-> "no", keying |-> FALSE,
          prompt |-> FALSE, offered |-> {}, picked |-> {}, added |-> {},
          keyed |-> FALSE, over |-> "off", won |-> FALSE]

LoginPage  == Blank
VerifyPage == [Blank EXCEPT !.page = "verify"]
SetupPage  == [Blank EXCEPT !.page = "setup"]
AppPage    == [Blank EXCEPT !.page = "app"]
Opened(p)  == CHOOSE v \in {LoginPage, VerifyPage, SetupPage, AppPage} : v.page = p

On(t, page, phase) == tab[t].page = page /\ tab[t].phase = phase
Show(t, v) == tab' = [tab EXCEPT ![t] = v]

(* The requests of a tab that leaves its page find nobody listening, and   *)
(* its ceremony is cancelled.                                              *)
Deafened(t) == [h \in Handlers |->
    IF call[h].tab = t /\ call[h].op # "idle" THEN [call[h] EXCEPT !.heard = FALSE] ELSE call[h]]

Leave(t, p) ==
    /\ Show(t, Opened(p))
    /\ call' = Deafened(t)
    /\ ceremony' = [ceremony EXCEPT ![t] = NoCeremony]
    /\ UNCHANGED <<Account, Rows, secret, History, locked, cookies, sent>>

(* apiFetch: the request takes the cookies along, the tab shows v meanwhile. *)
Send(t, op, arg, v) ==
    /\ op \in journey.uses /\ sent < journey.steps /\ sent' = sent + 1
    /\ \E h \in Handlers :
          /\ call[h].op = "idle"
          /\ call' = [call EXCEPT ![h] = Request(op, t, pendingCookie, sessionCookie, arg)]
    /\ Show(t, v)
    /\ UNCHANGED <<Account, Rows, Tokens, History, locked, cookies>>

(* The user opens or reloads a page. *)
Visit(t, p) == p \in journey.uses /\ Leave(t, p)

-----------------------------------------------------------------------------
(* login.tsx *)
ProbeLockout(t) ==
    /\ On(t, "login", "loading")
    /\ Send(t, "lockstatus", "probe", [tab[t] EXCEPT !.phase = "form"])

CanSubmit(v) == v.busy = "no" /\ v.over = "off"

SubmitPassword(t) ==
    /\ tab[t].page = "login" /\ CanSubmit(tab[t])
    /\ \E arg \in {"right", "wrong"} :
          Send(t, "password", arg, [tab[t] EXCEPT !.busy = "work"])

CanUsePasskey(v) == ~v.keying /\ v.busy = "no" /\ v.over = "off"

PasskeySignIn(t) ==
    /\ tab[t].page = "login" /\ CanUsePasskey(tab[t])
    /\ Send(t, "passbegin", "none", [tab[t] EXCEPT !.keying = TRUE, !.won = FALSE])

(* The lockout overlay is mounted with the first answer that names a lock. *)
(* A later one changes its total, never the seconds it counts.             *)
Locked(v) == [v EXCEPT !.over = IF @ = "off" THEN "on" ELSE @]

(* The answers: the state the page is in afterwards. *)
PasswordAnswered(c, v) ==
    IF c.result = "verify" THEN VerifyPage
    ELSE IF c.result = "enroll" THEN SetupPage
    ELSE IF c.result = "locked" THEN [Locked(v) EXCEPT !.busy = "no"]
    ELSE [v EXCEPT !.busy = "no", !.won = FALSE]

PasskeyAnswered(c, v) ==
    IF c.result = "ok" THEN [v EXCEPT !.prompt = TRUE]
    ELSE IF c.result = "locked" THEN [Locked(v) EXCEPT !.keying = FALSE]
    ELSE [v EXCEPT !.keying = FALSE, !.won = c.result = "session"]

LockoutAnswered(c, v) ==
    IF c.result = "locked" THEN Locked(v)
    ELSE IF c.arg = "unlock" THEN [v EXCEPT !.over = "off", !.busy = "no"]
    ELSE v

(* LoginLockoutOverlay: onUnlock is called once, when the countdown the    *)
(* overlay started with reaches zero.                                      *)
CountdownEnds(t) ==
    /\ tab[t].over = "on"
    /\ \/ /\ tab[t].page = "login"
          /\ Send(t, "lockstatus", "unlock", [tab[t] EXCEPT !.over = "zero"])
       \/ /\ tab[t].page = "verify"
          /\ Show(t, [tab[t] EXCEPT !.over = "off", !.busy = "no"])
          /\ UNCHANGED <<serverVars, cookies, sent>>

-----------------------------------------------------------------------------
(* The passkey dialog of the browser, on any of the three pages: the user  *)
(* confirms (the assertion may be worth nothing) or cancels.               *)
PromptPurpose(v) ==
    IF v.page = "login" THEN "passwordless" ELSE IF v.page = "verify" THEN "login" ELSE "enroll"
FinishOp(v) ==
    IF v.page = "login" THEN "passfinish" ELSE IF v.page = "verify" THEN "keyfinish" ELSE "ekeyfinish"

ConfirmPrompt(t) ==
    LET v == tab[t] IN
    /\ v.prompt /\ FinishOp(v) \in journey.uses /\ sent < journey.steps /\ sent' = sent + 1
    /\ \E h \in Handlers, arg \in {"right", "wrong"} :
          /\ call[h].op = "idle"
          /\ call' = [call EXCEPT ![h] = Request(FinishOp(v), t, pendingCookie, sessionCookie, arg)]
          /\ ceremony' = [ceremony EXCEPT ![t] = NoCeremony,
                ![h] = IF v.page = "login" /\ keyCookie # t THEN NoCeremony ELSE ceremony[t]]
    /\ Show(t, [v EXCEPT !.prompt = FALSE])
    /\ UNCHANGED <<Account, Rows, secret, History, locked, cookies>>

CancelPrompt(t) ==
    LET v == tab[t] IN
    /\ v.prompt
    /\ Show(t, [v EXCEPT !.prompt = FALSE, !.keying = FALSE,
                         !.busy = IF v.page = "login" THEN @ ELSE "no"])
    /\ ceremony' = [ceremony EXCEPT ![t] = NoCeremony]
    /\ UNCHANGED <<Account, Rows, secret, History, locked, call, cookies, sent>>

-----------------------------------------------------------------------------
(* mfa-verify.tsx *)
LoadState(t) ==
    /\ tab[t].page \in {"verify", "setup"} /\ tab[t].phase = "loading"
    /\ Send(t, "state", "none", [tab[t] EXCEPT !.phase = "asked"])

(* A bug: the phase is what the server calls the pending login.            *)
StateIsPhase(c, v) == [v EXCEPT !.phase = c.result, !.offered = c.seen]

VerifyStateAnswered(c, v) ==
    IF c.result = "verify" THEN [v EXCEPT !.phase = "choose", !.offered = c.seen]
    ELSE IF c.result = "disabled" THEN [v EXCEPT !.phase = "disabled"]
    ELSE [v EXCEPT !.phase = "expired"]

(* What the buttons of the page are enabled for. *)
Idling(v)        == v.busy = "no"
MayTOTP(v)       == Idling(v) /\ "totp" \in v.offered
MayRecover(v)    == Idling(v) /\ "recovery" \in v.offered
MayUsePasskey(v) == Idling(v) /\ "passkey" \in v.offered
MayRestart(v)    == v.phase \notin {"loading", "asked"} /\ v.busy # "leave"

Working(t) == [tab[t] EXCEPT !.busy = "work"]

SubmitTOTP(t) ==
    /\ On(t, "verify", "choose") /\ MayTOTP(tab[t])
    /\ \E arg \in {"right", "wrong"} : Send(t, "totp", arg, Working(t))

SubmitRecovery(t) ==
    /\ On(t, "verify", "choose") /\ MayRecover(tab[t])
    /\ \E code \in RecoveryCodes : Send(t, "recovery", code, Working(t))

UsePasskey(t) ==
    /\ On(t, "verify", "choose") /\ MayUsePasskey(tab[t])
    /\ Send(t, "keybegin", "none", Working(t))

(* handleFatalError and the success of the three methods; the last lines   *)
(* of each handler set busy to null whatever else is in flight.            *)
FactorAnswered(c, v) ==
    IF c.op = "keybegin" /\ c.result = "ok" THEN [v EXCEPT !.prompt = TRUE]
    ELSE [v EXCEPT !.busy = "no",
            !.won   = @ \/ c.result = "session",
            !.phase = IF c.result \in {"expired", "disabled"} THEN c.result ELSE @,
            !.over  = IF c.result = "locked" THEN Locked(v).over ELSE @]

(* restart, on both challenge pages. *)
Restart(t) ==
    /\ tab[t].page \in {"verify", "setup"} /\ MayRestart(tab[t])
    /\ Send(t, "logout", "none", [tab[t] EXCEPT !.busy = "leave"])

SuccessShown(t) == tab[t].won /\ Leave(t, "app")

-----------------------------------------------------------------------------
(* mfa-setup.tsx, forced enrolment *)
SetupStateAnswered(c, v) ==
    IF c.result = "enroll"
    THEN [v EXCEPT !.phase = "choose", !.offered = c.seen, !.picked = Required]
    ELSE [v EXCEPT !.phase = "expired"]

Offers(v, f) == v.offered = {} \/ f \in v.offered

CanContinue(v) ==
    /\ "passkey" \in Required => Offers(v, "passkey")
    /\ v.picked \cup Required # {}
    /\ Required \subseteq v.picked \cup v.added
    /\ v.added # Factors

MayToggle(v, f)    == f \notin Required /\ f \notin v.added /\ Offers(v, f)
MayContinue(v)     == Idling(v) /\ CanContinue(v)
MayBeginTOTP(v)    == Idling(v) /\ ~v.keyed
MayFinishTOTP(v)   == Idling(v) /\ v.keyed
MayStartPasskey(v) == Idling(v) /\ Offers(v, "passkey")
MayComplete(v)     == Idling(v) /\ v.added # {}

ToggleFactor(t, f) ==
    /\ On(t, "setup", "choose") /\ MayToggle(tab[t], f)
    /\ Show(t, [tab[t] EXCEPT !.picked = IF f \in @ THEN @ \ {f} ELSE @ \cup {f}])
    /\ UNCHANGED <<serverVars, cookies, sent>>

(* advanceToNext: the first picked factor that is not added yet, the       *)
(* authenticator app before the passkey.                                   *)
NextPhase(v) ==
    IF "totp" \in v.picked \ v.added THEN "totp"
    ELSE IF "passkey" \in v.picked \ v.added THEN "passkey"
    ELSE "review"

(* startTOTP reuses the key it has.                                        *)
ContinueSetup(t) ==
    LET v == tab[t]  w == [v EXCEPT !.phase = NextPhase(v)] IN
    /\ On(t, "setup", "choose") /\ MayContinue(v)
    /\ \/ /\ w.phase = "totp" /\ ~v.keyed
          /\ Send(t, "etotpbegin", "none", [w EXCEPT !.busy = "work"])
       \/ /\ w.phase # "totp" \/ v.keyed
          /\ Show(t, w) /\ UNCHANGED <<serverVars, cookies, sent>>

BeginTOTP(t) ==
    /\ On(t, "setup", "totp") /\ MayBeginTOTP(tab[t])
    /\ Send(t, "etotpbegin", "none", Working(t))

FinishTOTP(t) ==
    /\ On(t, "setup", "totp") /\ MayFinishTOTP(tab[t])
    /\ \E arg \in {"right", "wrong"} : Send(t, "etotpfinish", arg, Working(t))

(* A bug: the button does not look at busy.                                *)
StartPasskeyAnyTime(t) ==
    /\ On(t, "setup", "passkey") /\ Offers(tab[t], "passkey")
    /\ Send(t, "ekeybegin", "none", Working(t))

StartPasskey(t) ==
    /\ On(t, "setup", "passkey") /\ MayStartPasskey(tab[t])
    /\ Send(t, "ekeybegin", "none", Working(t))

BackToChoose(t) ==
    /\ tab[t].page = "setup" /\ tab[t].phase \in {"totp", "passkey", "review"} /\ Idling(tab[t])
    /\ Show(t, [tab[t] EXCEPT !.phase = "choose"])
    /\ UNCHANGED <<serverVars, cookies, sent>>

CompleteSetup(t) ==
    /\ On(t, "setup", "review") /\ MayComplete(tab[t])
    /\ Send(t, "complete", "none", Working(t))

(* The recovery codes have been saved. *)
DismissRecovery(t) ==
    /\ On(t, "setup", "codes") /\ ~tab[t].won
    /\ Show(t, [tab[t] EXCEPT !.won = TRUE])
    /\ UNCHANGED <<serverVars, cookies, sent>>

(* failPending, on every answer of the enrolment routes. *)
Idled(v) == [v EXCEPT !.busy = "no"]
Fails(c) == c.result \in {"expired", "disabled"}

BeginTOTPAnswered(c, v) ==
    IF Fails(c) THEN [Idled(v) EXCEPT !.phase = "expired"]
    ELSE IF c.result = "already" THEN [Idled(v) EXCEPT !.phase = "choose", !.added = @ \cup {"totp"}]
    ELSE IF c.result = "ok" THEN [Idled(v) EXCEPT !.keyed = TRUE]
    ELSE Idled(v)

Advanced(v, f) ==
    LET w == [v EXCEPT !.added = @ \cup {f}] IN [Idled(w) EXCEPT !.phase = NextPhase(w)]

EnrollAnswered(c, v) ==
    IF Fails(c) THEN [Idled(v) EXCEPT !.phase = "expired"]
    ELSE IF c.op = "ekeybegin" /\ c.result = "ok" THEN [v EXCEPT !.prompt = TRUE]
    ELSE IF c.result = "ok" THEN Advanced(v, IF c.op = "etotpfinish" THEN "totp" ELSE "passkey")
    ELSE Idled(v)

CompleteAnswered(c, v) ==
    IF Fails(c) THEN [Idled(v) EXCEPT !.phase = "expired"]
    ELSE IF c.result = "session" THEN [Idled(v) EXCEPT !.phase = "codes"]
    ELSE IF c.result = "policy" THEN [Idled(v) EXCEPT !.phase = "choose", !.picked = @ \cup c.seen]
    ELSE Idled(v)

-----------------------------------------------------------------------------
(* _authenticated.tsx: the probe of beforeLoad, the poll of the layout,    *)
(* and sign-out, which leaves the shell whatever becomes of the request.   *)
LoadApp(t) ==
    /\ On(t, "app", "loading")
    /\ Send(t, "me", "none", [tab[t] EXCEPT !.phase = "asked"])

Poll(t) ==
    /\ On(t, "app", "shown") /\ \A h \in Handlers : ~(call[h].tab = t /\ call[h].op = "poll")
    /\ Send(t, "poll", "none", tab[t])

SignOut(t) ==
    /\ On(t, "app", "shown") /\ Idling(tab[t])
    /\ Send(t, "logout", "none", [tab[t] EXCEPT !.busy = "leave"])

AppAnswered(c, v) ==
    IF c.op = "me" THEN IF c.result = "ok" THEN [v EXCEPT !.phase = "shown"] ELSE LoginPage
    ELSE IF c.result \in {"unauthorized", "idle"} THEN LoginPage ELSE v

-----------------------------------------------------------------------------
Heard(c, v) ==
    CASE c.op = "lockstatus" -> LockoutAnswered(c, v)
      [] c.op = "password" -> PasswordAnswered(c, v)
      [] c.op \in {"passbegin", "passfinish"} -> PasskeyAnswered(c, v)
      [] c.op = "state" -> IF v.page = "verify" THEN VerifyStateAnswered(c, v)
                           ELSE SetupStateAnswered(c, v)
      [] c.op \in PendingOps -> FactorAnswered(c, v)
      [] c.op = "etotpbegin" -> BeginTOTPAnswered(c, v)
      [] c.op \in {"etotpfinish", "ekeybegin", "ekeyfinish"} -> EnrollAnswered(c, v)
      [] c.op = "complete" -> CompleteAnswered(c, v)
      [] c.op = "logout" -> LoginPage
      [] OTHER -> AppAnswered(c, v)

(* The cookies an answer sets, on the browser and not on the page. *)
SetCookies(c) ==
    /\ pendingCookie' = IF c.op = "password" /\ c.result \in Kinds THEN c.login
                        ELSE IF c.result = "session" \/ (c.op = "logout" /\ c.result = "ok") THEN 0
                        ELSE pendingCookie
    /\ sessionCookie' = IF c.result = "session" THEN c.login
                        ELSE IF (c.op = "logout" /\ c.result = "ok") \/ c.result = "idle" THEN 0
                        ELSE sessionCookie
    /\ keyCookie' = IF c.op = "passbegin" /\ c.result = "ok" THEN c.tab
                    ELSE IF c.result = "session" THEN NoTab
                    ELSE keyCookie

Answer(h) ==
    LET c == call[h]  t == c.tab  v == Heard(c, tab[t])
        leaves == c.heard /\ v.page # tab[t].page
    IN  /\ c.step = "done"
        /\ SetCookies(c)
        /\ tab' = IF c.heard THEN [tab EXCEPT ![t] = v] ELSE tab
        /\ call' = [g \in Handlers |-> IF g = h THEN Idle ELSE IF leaves THEN Deafened(t)[g] ELSE call[g]]
        /\ ceremony' = [ceremony EXCEPT ![h] = NoCeremony, ![t] = IF leaves THEN NoCeremony ELSE @]
        /\ UNCHANGED <<Account, Rows, secret, History, locked, sent>>

(* The answer is lost on the way. *)
LoseAnswer(h) ==
    /\ call[h].step = "done" /\ call[h].result # "error"
    /\ Done(h, "error")
    /\ UNCHANGED <<Account, Rows, Tokens, History, locked, browserVars>>

PageStep(t) ==
    \/ \E p \in Pages : Visit(t, p)
    \/ ProbeLockout(t) \/ SubmitPassword(t) \/ PasskeySignIn(t) \/ CountdownEnds(t)
    \/ ConfirmPrompt(t) \/ CancelPrompt(t)
    \/ LoadState(t) \/ SubmitTOTP(t) \/ SubmitRecovery(t) \/ UsePasskey(t) \/ Restart(t) \/ SuccessShown(t)
    \/ \E f \in Factors : ToggleFactor(t, f)
    \/ ContinueSetup(t) \/ BeginTOTP(t) \/ FinishTOTP(t) \/ StartPasskey(t) \/ BackToChoose(t)
    \/ CompleteSetup(t) \/ DismissRecovery(t)
    \/ LoadApp(t) \/ Poll(t) \/ SignOut(t)

=============================================================================
