---------------------------- MODULE LoginServer ----------------------------
(***************************************************************************)
(* The login handlers of the API for one administrator account: password,  *)
(* second factor, forced enrolment, passwordless passkey, logout, and the  *)
(* administrative actions that run against a login in progress.  A handler *)
(* is a sequence of SQL statements, one action each, so the handlers of    *)
(* several browser tabs interleave statement by statement and any of them  *)
(* may fail or die between two statements.                                 *)
(*                                                                         *)
(* A login attempt is a number: its pending row (pending_kind), its        *)
(* attempt counter and the session row minted from it.  Whether a typed    *)
(* code is right, and whether a failure reaches the lockout threshold, is  *)
(* chosen.  Passkeys are available on the deployment.                      *)
(***************************************************************************)
EXTENDS Naturals, FiniteSets

CONSTANTS
    Tabs,            \* tabs of one browser: they share its cookies
    Handlers,        \* requests in progress at one time (bound)
    MaxLogins,       \* login attempts of a behaviour (bound)
    MaxAttempts,     \* mfaMaxAttempts
    RecoveryCodes,   \* one batch of recovery codes
    Policies         \* the policies explored: "any", "totp", "passkey", "both"

ASSUME LoginAssumption ==
    /\ MaxLogins \in Nat \ {0} /\ MaxAttempts \in Nat \ {0}
    /\ RecoveryCodes # {}
    /\ IsFiniteSet(Tabs) /\ Tabs # {}
    /\ Tabs \cap Handlers = {}
    /\ {"right", "wrong", "none"} \cap RecoveryCodes = {}
    /\ Policies \subseteq {"any", "totp", "passkey", "both"}

VARIABLES
    policy,     \* the MFA policy of the organisation, fixed
    status,     \* admins.status
    factors,    \* the enrolled factors
    codes,      \* backup_codes_hash
    last,       \* the number of login attempts so far
    pending,    \* per login: its pending row ("verify", "enroll"), or how it went
    attempts,   \* per login: mfa_attempts
    secret,     \* per login: a stored TOTP enrolment secret
    live,       \* the logins whose session row exists
    locked,     \* ipLoginLockout holds a lock on this address
    ceremony,   \* the WebAuthn challenge a tab holds or a request redeems
    call,       \* per handler: the request it serves
    minted,     \* per login: how many sessions it was given (history)
    spent,      \* per recovery code: how often it opened a login (history)
    cut,        \* the logins up to this one were there at a revocation (history)
    late        \* of them, those whose session row was still to come (history)

Account  == <<policy, status, factors, codes>>
Rows     == <<last, pending, attempts, live>>
Tokens   == <<secret, ceremony>>
History  == <<minted, spent, cut, late>>
serverVars == <<Account, Rows, Tokens, History, locked, call>>

-----------------------------------------------------------------------------
Logins  == 1..MaxLogins
Factors == {"totp", "passkey"}
Kinds   == {"verify", "enroll"}

NoCeremony == [purpose |-> "none", login |-> 0]
NoTab == "no tab"
Idle == [op |-> "idle", tab |-> NoTab, login |-> 0, session |-> 0,
         step |-> "none", arg |-> "none", result |-> "none", seen |-> {}, heard |-> FALSE]

PendingOps == {"totp", "recovery", "keybegin", "keyfinish"}
EnrollOps  == {"etotpbegin", "etotpfinish", "ekeybegin", "ekeyfinish", "complete"}

(* policySatisfied and missingMethodsForPolicy, on a deployment with passkeys. *)
Required == IF policy = "both" THEN Factors ELSE Factors \cap {policy}
Satisfied(f) == f # {} /\ Required \subseteq f
Missing(f) == IF policy = "any" THEN (IF f = {} THEN Factors ELSE {}) ELSE Required \ f

LInit ==
    /\ policy \in Policies
    /\ status = "active"
    /\ factors \in SUBSET Factors
    /\ codes = IF factors = {} THEN {} ELSE RecoveryCodes
    /\ last \in {0, 1}
    /\ pending = [i \in Logins |-> IF i > last THEN "none" ELSE IF Satisfied(factors) THEN "verify" ELSE "enroll"]
    /\ attempts = [i \in Logins |-> 0]
    /\ secret = [i \in Logins |-> FALSE]
    /\ live = {}
    /\ locked = FALSE
    /\ ceremony = [x \in Tabs \cup Handlers |-> NoCeremony]
    /\ call = [h \in Handlers |-> Idle]
    /\ minted = [i \in Logins |-> 0]
    /\ spent = [c \in RecoveryCodes |-> 0]
    /\ cut = 0
    /\ late = {}

-----------------------------------------------------------------------------
(* Login i has a pending row of one of these kinds. *)
Waits(i, kinds) == i # 0 /\ pending[i] \in kinds

(* The pending rows of these logins are deleted, if they are still there. *)
Dropped(S) == [i \in Logins |-> IF i \in S /\ pending[i] \in Kinds THEN "dropped" ELSE pending[i]]

(* A request the browser sends carries the cookies of that moment. *)
Request(op, t, login, session, arg) ==
    [op |-> op, tab |-> t, login |-> login, session |-> session,
     step |-> "arrived", arg |-> arg, result |-> "none", seen |-> {}, heard |-> TRUE]

At(h, op, step) == call[h].op = op /\ call[h].step = step

Done(h, result) == call' = [call EXCEPT ![h] = [@ EXCEPT !.step = "done", !.result = result]]
Goto(h, step)   == call' = [call EXCEPT ![h] = [@ EXCEPT !.step = step]]
Report(h, result, seen) ==
    call' = [call EXCEPT ![h] = [@ EXCEPT !.step = "done", !.result = result, !.seen = seen]]
Serve(h, step, login) == call' = [call EXCEPT ![h] = [@ EXCEPT !.step = step, !.login = login]]

(* loginLockoutTracker.recordFailure: one more failure, which may be the   *)
(* one that locks the address.                                             *)
RecordFailure(h, result) ==
    \/ UNCHANGED locked /\ Done(h, result)
    \/ locked' = TRUE /\ Done(h, "locked")

LockExpires ==
    /\ locked /\ locked' = FALSE
    /\ UNCHANGED <<Account, Rows, Tokens, History, call>>

(* Login: the lock, the account's status, then the password. *)
PasswordCheck(h) ==
    /\ At(h, "password", "arrived")
    /\ \/ locked /\ Done(h, "locked") /\ UNCHANGED locked
       \/ ~locked /\ status # "active" /\ Done(h, "disabled") /\ UNCHANGED locked
       \/ ~locked /\ status = "active" /\ call[h].arg = "wrong" /\ RecordFailure(h, "wrong")
       \/ ~locked /\ status = "active" /\ call[h].arg = "right" /\ Goto(h, "accepted") /\ UNCHANGED locked
    /\ UNCHANGED <<Account, Rows, Tokens, History>>

(* The password is right: the failures of the address are forgotten, an    *)
(* invited account whose time is over is turned away, and the factors      *)
(* decide what will be pending.                                            *)
PasswordAccept(h) ==
    /\ At(h, "password", "accepted")
    /\ locked' = FALSE
    /\ \/ Done(h, "error")
       \/ call' = [call EXCEPT ![h] = [@ EXCEPT !.step = "insert",
                      !.result = IF Satisfied(factors) THEN "verify" ELSE "enroll"]]
    /\ UNCHANGED <<Account, Rows, Tokens, History>>

CreatePending(h) ==
    /\ At(h, "password", "insert")
    /\ \/ last = MaxLogins /\ Done(h, "error") /\ UNCHANGED <<last, pending>>
       \/ /\ last < MaxLogins
          /\ last' = last + 1
          /\ pending' = [pending EXCEPT ![last + 1] = call[h].result]
          /\ Serve(h, "done", last + 1)
    /\ UNCHANGED <<Account, attempts, live, locked, Tokens, History>>

(* MFAState: what the challenge pages learn of the pending login. *)
ReadState(h) ==
    /\ At(h, "state", "arrived")
    /\ LET i == call[h].login IN
       \/ ~Waits(i, Kinds) /\ Done(h, "expired")
       \/ Waits(i, Kinds) /\ status # "active" /\ Done(h, "disabled")
       \/ /\ Waits(i, Kinds) /\ status = "active"
          /\ Report(h, pending[i], IF pending[i] = "verify"
                                   THEN factors \cup (IF codes = {} THEN {} ELSE {"recovery"})
                                   ELSE Missing(factors))
    /\ UNCHANGED <<Account, Rows, Tokens, History, locked>>

(* resolvePendingMFA with the kind the handler wants, then the status of   *)
(* the account: the only time it is looked at.                             *)
Resolve(h) ==
    LET c == call[h]  i == c.login
        kind == IF c.op \in PendingOps THEN "verify" ELSE "enroll"
    IN  /\ c.op \in PendingOps \cup EnrollOps /\ c.step = "arrived"
        /\ \/ ~Waits(i, {kind}) /\ Done(h, "expired")
           \/ Waits(i, {kind}) /\ status # "active" /\ Done(h, "disabled")
           \/ Waits(i, {kind}) /\ status = "active" /\ Goto(h, "resolved")
        /\ UNCHANGED <<Account, Rows, Tokens, History, locked>>

-----------------------------------------------------------------------------
(* A bug: a proven factor mints the session and leaves the row for later.  *)
CheckAndMint(h) ==
    /\ At(h, "totp", "resolved")
    /\ \/ call[h].arg = "right" /\ Goto(h, "mint")
       \/ call[h].arg = "wrong" /\ Goto(h, "fail")
    /\ UNCHANGED <<Account, Rows, Tokens, History, locked>>

(* MFATOTPVerify *)
CheckTOTP(h) ==
    /\ At(h, "totp", "resolved")
    /\ \/ "totp" \notin factors /\ Done(h, "invalid")
       \/ "totp" \in factors /\ call[h].arg = "right" /\ Goto(h, "finish")
       \/ "totp" \in factors /\ call[h].arg = "wrong" /\ Goto(h, "fail")
    /\ UNCHANGED <<Account, Rows, Tokens, History, locked>>

(* consumeRecoveryCode: read the hashes, then remove the one that matched  *)
(* if it is still there.                                                   *)
ReadRecovery(h) ==
    /\ At(h, "recovery", "resolved")
    /\ \/ call[h].arg \in codes /\ Goto(h, "matched")
       \/ call[h].arg \notin codes /\ Goto(h, "fail")
    /\ UNCHANGED <<Account, Rows, Tokens, History, locked>>

(* A bug: the code is removed without asking whether it is still there.    *)
RemoveUnchecked(h) ==
    /\ At(h, "recovery", "matched")
    /\ codes' = codes \ {call[h].arg}
    /\ spent' = [spent EXCEPT ![call[h].arg] = @ + 1]
    /\ Goto(h, "finish")
    /\ UNCHANGED <<policy, status, factors, Rows, Tokens, locked, minted, cut, late>>

RemoveRecovery(h) ==
    /\ At(h, "recovery", "matched")
    /\ \/ /\ call[h].arg \in codes
          /\ codes' = codes \ {call[h].arg}
          /\ spent' = [spent EXCEPT ![call[h].arg] = @ + 1]
          /\ Goto(h, "finish")
       \/ call[h].arg \notin codes /\ Goto(h, "fail") /\ UNCHANGED <<codes, spent>>
    /\ UNCHANGED <<policy, status, factors, Rows, Tokens, locked, minted, cut, late>>

(* MFAPasskeyLoginBegin, MFAEnrollPasskeyBegin: a challenge bound to the   *)
(* pending login.  One nobody waits for is never redeemed.                 *)
BeginCeremony(h) ==
    /\ call[h].op \in {"keybegin", "ekeybegin"} /\ call[h].step = "resolved"
    /\ \/ /\ call[h].op = "keybegin" /\ "passkey" \notin factors
          /\ Done(h, "invalid") /\ UNCHANGED ceremony
       \/ /\ call[h].op = "ekeybegin" \/ "passkey" \in factors
          /\ ceremony' = IF call[h].heard
                         THEN [ceremony EXCEPT ![call[h].tab] =
                                 [purpose |-> IF call[h].op = "keybegin" THEN "login" ELSE "enroll",
                                  login   |-> call[h].login]]
                         ELSE ceremony
          /\ Done(h, "ok")
    /\ UNCHANGED <<Account, Rows, secret, locked, History>>

Claims(h, purpose) == ceremony[h] = [purpose |-> purpose, login |-> call[h].login]

(* MFAPasskeyLoginFinish: the claim consumes the challenge whatever the    *)
(* assertion is worth.                                                     *)
CheckPasskey(h) ==
    /\ At(h, "keyfinish", "resolved")
    /\ ceremony' = [ceremony EXCEPT ![h] = NoCeremony]
    /\ Goto(h, IF Claims(h, "login") /\ call[h].arg = "right" /\ "passkey" \in factors
                THEN "finish" ELSE "fail")
    /\ UNCHANGED <<Account, Rows, secret, History, locked>>

-----------------------------------------------------------------------------
(* Forced enrolment. *)
EnrollTOTPBegin(h) ==
    /\ At(h, "etotpbegin", "resolved")
    /\ \/ "totp" \in factors /\ Done(h, "already") /\ UNCHANGED secret
       \/ "totp" \notin factors /\ Done(h, "ok") /\ secret' = [secret EXCEPT ![call[h].login] = TRUE]
    /\ UNCHANGED <<Account, Rows, ceremony, locked, History>>

EnrollTOTPCheck(h) ==
    /\ At(h, "etotpfinish", "resolved")
    /\ \/ ~secret[call[h].login] /\ Done(h, "invalid")
       \/ secret[call[h].login] /\ call[h].arg = "right" /\ Goto(h, "enable")
       \/ secret[call[h].login] /\ call[h].arg = "wrong" /\ Goto(h, "fail")
    /\ UNCHANGED <<Account, Rows, Tokens, History, locked>>

EnrollTOTPEnable(h) ==
    /\ At(h, "etotpfinish", "enable")
    /\ factors' = factors \cup {"totp"}
    /\ Done(h, "ok")
    /\ UNCHANGED <<policy, status, codes, Rows, Tokens, locked, History>>

EnrollPasskeyFinish(h) ==
    /\ At(h, "ekeyfinish", "resolved")
    /\ ceremony' = [ceremony EXCEPT ![h] = NoCeremony]
    /\ \/ /\ Claims(h, "enroll") /\ call[h].arg = "right"
          /\ factors' = factors \cup {"passkey"} /\ Done(h, "ok")
       \/ ~(Claims(h, "enroll") /\ call[h].arg = "right") /\ Done(h, "invalid") /\ UNCHANGED factors
    /\ UNCHANGED <<policy, status, codes, Rows, secret, locked, History>>

(* MFAEnrollComplete: the policy, the recovery codes, and only then the   *)
(* login.                                                                  *)
CheckPolicy(h) ==
    /\ At(h, "complete", "resolved")
    /\ \/ ~Satisfied(factors) /\ Report(h, "policy", Missing(factors))
       \/ Satisfied(factors) /\ Goto(h, "codes")
    /\ UNCHANGED <<Account, Rows, Tokens, History, locked>>

EnsureCodes(h) ==
    /\ At(h, "complete", "codes")
    /\ Goto(h, "finish")
    /\ \/ codes = {} /\ codes' = RecoveryCodes /\ spent' = [c \in RecoveryCodes |-> 0]
       \/ codes # {} /\ UNCHANGED <<codes, spent>>
    /\ UNCHANGED <<policy, status, factors, Rows, Tokens, locked, minted, cut, late>>

-----------------------------------------------------------------------------
(* A bug: finishing what another request has finished counts as finishing. *)
FinishAgain(h) ==
    LET i == call[h].login IN
    /\ call[h].step = "finish"
    /\ \/ pending[i] # "dropped" /\ pending' = [pending EXCEPT ![i] = "finished"] /\ Goto(h, "mint")
       \/ pending[i] = "dropped" /\ UNCHANGED pending /\ Done(h, "expired")
    /\ UNCHANGED <<Account, Tokens, last, attempts, live, locked, History>>

(* finishMFALogin: the pending row goes first; who deletes it, wins.  The   *)
(* admin's ceremonies go with it, unless the statement that clears them     *)
(* fails, which is ignored.                                                 *)
FinishLogin(h) ==
    LET i == call[h].login IN
    /\ call[h].step = "finish"
    /\ \/ /\ pending[i] \in Kinds
          /\ pending' = [pending EXCEPT ![i] = "finished"]
          /\ \/ /\ ceremony' = [x \in DOMAIN ceremony |->
                      IF ceremony[x].purpose \in {"login", "enroll"} THEN NoCeremony ELSE ceremony[x]]
                /\ secret' = [j \in Logins |-> FALSE]
             \/ UNCHANGED Tokens
          /\ Goto(h, "mint")
       \/ pending[i] \notin Kinds /\ Done(h, "expired") /\ UNCHANGED <<pending, ceremony, secret>>
    /\ UNCHANGED <<Account, last, attempts, live, locked, History>>

(* mintLoginSession: a statement of its own. *)
Mint(h) ==
    /\ call[h].step = "mint"
    /\ live' = live \cup {call[h].login}
    /\ minted' = [minted EXCEPT ![call[h].login] = @ + 1]
    /\ locked' = FALSE
    /\ Done(h, "session")
    /\ UNCHANGED <<Account, last, pending, attempts, Tokens, spent, cut, late>>

(* recordMFAFailure: count, and at the limit drop the pending row; the     *)
(* error of that statement is ignored.                                     *)
CountFailure(h) ==
    LET i == call[h].login IN
    /\ call[h].step = "fail"
    /\ \/ pending[i] \notin Kinds /\ Done(h, "expired") /\ UNCHANGED <<attempts, locked>>
       \/ /\ pending[i] \in Kinds
          /\ attempts' = [attempts EXCEPT ![i] = @ + 1]
          /\ \/ attempts[i] + 1 >= MaxAttempts /\ Goto(h, "drop") /\ locked' \in {locked, TRUE}
             \/ attempts[i] + 1 < MaxAttempts /\ RecordFailure(h, "invalid")
    /\ UNCHANGED <<Account, last, pending, live, Tokens, History>>

DropPending(h) ==
    /\ call[h].step = "drop"
    /\ pending' \in {pending, Dropped({call[h].login})}
    /\ Done(h, "locked")
    /\ UNCHANGED <<Account, last, attempts, live, Tokens, locked, History>>

-----------------------------------------------------------------------------
(* PasskeyPasswordlessBegin and Finish: no account until the assertion has *)
(* been checked; the cookie of the ceremony must be the one it began with. *)
PasswordlessBegin(h) ==
    /\ At(h, "passbegin", "arrived")
    /\ \/ locked /\ Done(h, "locked") /\ UNCHANGED ceremony
       \/ /\ ~locked /\ Done(h, "ok")
          /\ ceremony' = IF call[h].heard
                         THEN [ceremony EXCEPT ![call[h].tab] = [purpose |-> "passwordless", login |-> 0]]
                         ELSE ceremony
    /\ UNCHANGED <<Account, Rows, secret, locked, History>>

PasswordlessFinish(h) ==
    /\ At(h, "passfinish", "arrived")
    /\ ceremony' = [ceremony EXCEPT ![h] = NoCeremony]
    /\ \/ /\ ceremony[h].purpose # "passwordless"
          /\ Done(h, "expired") /\ UNCHANGED <<locked, last, pending>>
       \/ /\ ceremony[h].purpose = "passwordless"
          /\ call[h].arg = "wrong" \/ status # "active" \/ "passkey" \notin factors
          /\ RecordFailure(h, "invalid") /\ UNCHANGED <<last, pending>>
       \/ /\ ceremony[h].purpose = "passwordless" /\ last = MaxLogins
          /\ Done(h, "error") /\ UNCHANGED <<locked, last, pending>>
       \/ /\ ceremony[h].purpose = "passwordless"
          /\ call[h].arg = "right" /\ status = "active" /\ "passkey" \in factors
          /\ last < MaxLogins
          /\ last' = last + 1 /\ pending' = [pending EXCEPT ![last + 1] = "finished"]
          /\ Serve(h, "mint", last + 1)
          /\ UNCHANGED locked
    /\ UNCHANGED <<Account, attempts, live, secret, History>>

(* Logout deletes the rows of the cookies the request came with.  The      *)
(* errors of its two statements are ignored.                               *)
Logout(h) ==
    /\ At(h, "logout", "arrived")
    /\ live' \in {live, live \ {call[h].session}}
    /\ pending' \in {pending, Dropped({call[h].login})}
    /\ Done(h, "ok")
    /\ UNCHANGED <<Account, last, attempts, Tokens, locked, History>>

(* AuthMiddleware: the row of the session cookie.  It looks neither at the *)
(* account's status nor at its factors, and drops a session left idle.     *)
ReadSession(h) ==
    LET s == call[h].session IN
    /\ call[h].op \in {"me", "poll"} /\ call[h].step = "arrived"
    /\ \/ s \in live /\ Done(h, "ok") /\ UNCHANGED live
       \/ s \in live /\ Done(h, "idle") /\ live' = live \ {s}
       \/ s \notin live /\ Done(h, "unauthorized") /\ UNCHANGED live
    /\ UNCHANGED <<Account, last, pending, attempts, Tokens, locked, History>>

(* LoginLockoutStatus *)
ReadLock(h) ==
    /\ At(h, "lockstatus", "arrived")
    /\ Done(h, IF locked THEN "locked" ELSE "ok")
    /\ UNCHANGED <<Account, Rows, Tokens, locked, History>>

-----------------------------------------------------------------------------
(* The logins whose pending row is gone and whose session is to come. *)
Minting == {call[h].login : h \in {g \in Handlers : call[g].step = "mint"}}

(* A bug: sessions are revoked and logins in progress forgotten.           *)
RevokeSessionsOnly ==
    /\ live' = {} /\ UNCHANGED pending
    /\ cut' = last
    /\ late' = late \cup Minting

(* revokeAdminSessions, also the first statement of ResetAdminMFA. *)
RevokeRows ==
    /\ live' = {}
    /\ pending' = Dropped(Logins)
    /\ cut' = last
    /\ late' = late \cup Minting

(* UpdateAdmin with status disabled: the column, then the sessions. *)
DisableAdmin ==
    /\ status = "active" /\ status' = "disabling"
    /\ UNCHANGED <<policy, factors, codes, Rows, Tokens, History, locked, call>>

RevokeSessions ==
    /\ status = "disabling" /\ status' = "disabled"
    /\ RevokeRows
    /\ UNCHANGED <<policy, factors, codes, last, attempts, Tokens, minted, spent, locked, call>>

(* ResetAdminMFA, one transaction. *)
ResetMFA ==
    /\ factors # {} /\ factors' = {} /\ codes' = {}
    /\ RevokeRows
    /\ secret' = [i \in Logins |-> FALSE]
    /\ ceremony' = [x \in DOMAIN ceremony |->
          IF ceremony[x].purpose = "passwordless" THEN ceremony[x] ELSE NoCeremony]
    /\ UNCHANGED <<policy, status, last, attempts, minted, spent, locked, call>>

(* A statement fails, or the API process dies with the request. *)
HandlerFails(h) ==
    /\ call[h].step \notin {"none", "done"}
    /\ Done(h, "error")
    /\ UNCHANGED <<Account, Rows, Tokens, History, locked>>

ServerStep(h) ==
    \/ PasswordCheck(h) \/ PasswordAccept(h) \/ CreatePending(h) \/ ReadState(h) \/ Resolve(h)
    \/ CheckTOTP(h) \/ ReadRecovery(h) \/ RemoveRecovery(h) \/ BeginCeremony(h) \/ CheckPasskey(h)
    \/ EnrollTOTPBegin(h) \/ EnrollTOTPCheck(h) \/ EnrollTOTPEnable(h) \/ EnrollPasskeyFinish(h)
    \/ CheckPolicy(h) \/ EnsureCodes(h) \/ FinishLogin(h) \/ Mint(h)
    \/ CountFailure(h) \/ DropPending(h)
    \/ PasswordlessBegin(h) \/ PasswordlessFinish(h) \/ Logout(h) \/ ReadSession(h) \/ ReadLock(h)

=============================================================================
