---------------------------- MODULE SignInProofs ----------------------------
(***************************************************************************)
(* The types and the safety properties of SignIn, of its server and of the *)
(* setup page, for any number of tabs, handlers, logins, attempts and      *)
(* recovery codes.                                                         *)
(***************************************************************************)
EXTENDS SignIn, FiniteSetTheorems, TLAPS

-----------------------------------------------------------------------------
(* The steps of a handler that has resolved its login. *)
AtWork == {"resolved", "matched", "enable", "codes", "finish", "fail", "drop", "mint"}

(* Login attempts are numbered in the order they begin, and a handler that *)
(* works for one has seen its row.                                         *)
Numbered ==
    /\ \A i \in Logins : i > last => pending[i] = "none"
    /\ \A h \in Handlers : call[h].step \in AtWork => call[h].login \in 1..last

(* A session is minted by the one handler that consumed the pending row.   *)
MintedOnce ==
    /\ \A i \in Logins : minted[i] = 0 \/ (minted[i] = 1 /\ pending[i] = "finished")
    /\ \A h \in Handlers : call[h].step = "mint" =>
          /\ pending[call[h].login] = "finished" /\ minted[call[h].login] = 0
          /\ \A g \in Handlers : call[g].step = "mint" /\ call[g].login = call[h].login => g = h

(* What the last revocation met is not pending any more. *)
CutOff ==
    /\ cut <= last
    /\ \A i \in Logins : pending[i] \in Kinds => i > cut
    /\ \A i \in live : minted[i] = 1 /\ (i <= cut => i \in late)
    /\ \A h \in Handlers : call[h].step = "mint" /\ call[h].login <= cut => call[h].login \in late
    /\ status = "disabled" =>
          /\ \A i \in live : i <= cut
          /\ \A h \in Handlers : call[h].step \in AtWork => call[h].login <= cut

LoginInv == Numbered /\ MintedOnce /\ CutOff

(* A recovery code that is still stored has opened nothing. *)
Unspent == \A c \in RecoveryCodes : spent[c] <= 1 /\ (c \in codes => spent[c] = 0)

(* What a handler holds at the steps that use it. *)
Held == \A h \in Handlers : call[h].step = "insert" => call[h].result \in Kinds

IInv == STypeOK /\ Held /\ LoginInv /\ Unspent
-----------------------------------------------------------------------------
(* A step that leaves the rows alone and takes no handler to work. *)
Follows ==
    \A g \in Handlers : call'[g].step \in AtWork =>
        /\ call[g].step \in AtWork /\ call'[g].login = call[g].login
        /\ call'[g].step = "mint" => call[g].step = "mint"

SameRows == UNCHANGED <<status, last, pending, live, minted, cut, late>>

(* The numbers of logins. *)
LEMMA Numbers == MaxLogins \in Nat \ {0} /\ Logins = 1..MaxLogins
  BY LoginAssumption DEF Logins

Moves == call' \in [Handlers -> CallType] /\ Held' /\ Follows

LEMMA Typed == STypeOK => call \in [Handlers -> CallType]
  BY DEF STypeOK, ServerTypeOK

LEMMA StepNames == {"done", "insert", "mint"} \subseteq Steps
  BY DEF Steps

(* What a handler may do to its record. *)
LEMMA DoneRecord ==
  ASSUME NEW c \in CallType, NEW step \in Steps, NEW result \in Results
  PROVE  [c EXCEPT !.step = step, !.result = result] \in CallType
  BY DEF CallType

LEMMA ReportRecord ==
  ASSUME NEW c \in CallType, NEW step \in Steps, NEW result \in Results,
         NEW seen \in SUBSET (Factors \cup {"recovery"})
  PROVE  [c EXCEPT !.step = step, !.result = result, !.seen = seen] \in CallType
  BY DEF CallType

LEMMA ServeRecord ==
  ASSUME NEW c \in CallType, NEW step \in Steps, NEW login \in 0..MaxLogins
  PROVE  [c EXCEPT !.step = step, !.login = login] \in CallType
  BY DEF CallType

(* A handler that answers is not at work any more. *)
LEMMA DoneMoves ==
  ASSUME STypeOK, Held, NEW h \in Handlers, NEW result \in Results, Done(h, result)
  PROVE  Moves
<1>1. call' \in [Handlers -> CallType] BY Typed, StepNames, DoneRecord DEF Done
<1>2. call'[h].step = "done" /\ \A g \in Handlers : g # h => call'[g] = call[g]
  BY Typed DEF Done, CallType
<1> QED BY <1>1, <1>2 DEF Moves, Held, Follows, AtWork

LEMMA ReportMoves ==
  ASSUME STypeOK, Held, NEW h \in Handlers, NEW result \in Results,
         NEW seen \in SUBSET (Factors \cup {"recovery"}), Report(h, result, seen)
  PROVE  Moves
<1>1. call' \in [Handlers -> CallType] BY Typed, StepNames, ReportRecord DEF Report
<1>2. call'[h].step = "done" /\ \A g \in Handlers : g # h => call'[g] = call[g]
  BY Typed DEF Report, CallType
<1> QED BY <1>1, <1>2 DEF Moves, Held, Follows, AtWork

(* A handler at work goes on with its login. *)
LEMMA GotoMoves ==
  ASSUME STypeOK, Held, NEW h \in Handlers, NEW step \in Steps, Goto(h, step),
         call[h].step \in AtWork \/ step \notin AtWork, step \notin {"mint", "insert"}
  PROVE  Moves
<1>1. call' \in [Handlers -> CallType] BY Typed DEF Goto, CallType
<1>2. /\ call'[h].step = step /\ call'[h].login = call[h].login
      /\ \A g \in Handlers : g # h => call'[g] = call[g]
  BY Typed DEF Goto, CallType
<1> QED BY <1>1, <1>2 DEF Moves, Held, Follows

(* Such a step keeps what is known of the logins. *)
LEMMA QuietKeeps ==
  ASSUME STypeOK, LoginInv, Follows, SameRows
  PROVE  LoginInv'
<1> USE Numbers DEF SameRows, Follows, AtWork
<1>1. Numbered' BY DEF LoginInv, Numbered
<1>2. MintedOnce' BY DEF LoginInv, MintedOnce
<1>3. CutOff' BY DEF LoginInv, CutOff
<1> QED BY <1>1, <1>2, <1>3 DEF LoginInv

(* The pending rows of some logins are dropped, and sessions deleted. *)
LEMMA DropKeeps ==
  ASSUME STypeOK, LoginInv, Follows, NEW S, pending' \in {pending, Dropped(S)},
         live' \subseteq live, UNCHANGED <<status, last, minted, cut, late>>
  PROVE  LoginInv'
<1> USE Numbers DEF Follows, AtWork
<1>1. /\ pending' \in [Logins -> Kinds \cup {"none", "finished", "dropped"}]
      /\ \A i \in Logins : pending'[i] = pending[i] \/ (pending[i] \in Kinds /\ pending'[i] = "dropped")
  BY DEF STypeOK, ServerTypeOK, Dropped
<1>2. Numbered' BY <1>1 DEF LoginInv, Numbered, Kinds
<1>3. \A i \in Logins : pending[i] = "finished" => pending'[i] = "finished"
  BY <1>1 DEF Kinds
<1>4. \A h \in Handlers : call[h].step = "mint" => call[h].login \in Logins
  BY DEF LoginInv, Numbered, STypeOK, ServerTypeOK
<1>5. MintedOnce' BY <1>3, <1>4 DEF LoginInv, MintedOnce
<1>6. CutOff' BY <1>1 DEF LoginInv, CutOff, Kinds
<1> QED BY <1>2, <1>5, <1>6 DEF LoginInv

-----------------------------------------------------------------------------
(* The steps of the server that take no handler to its session. *)
LEMMA QuietSteps ==
  ASSUME STypeOK, Held, NEW h \in Handlers,
         \/ PasswordCheck(h) \/ PasswordAccept(h) \/ ReadState(h)
         \/ CheckTOTP(h) \/ ReadRecovery(h) \/ RemoveRecovery(h) \/ BeginCeremony(h) \/ CheckPasskey(h)
         \/ EnrollTOTPBegin(h) \/ EnrollTOTPCheck(h) \/ EnrollTOTPEnable(h) \/ EnrollPasskeyFinish(h)
         \/ CheckPolicy(h) \/ EnsureCodes(h) \/ CountFailure(h)
         \/ PasswordlessBegin(h) \/ ReadLock(h) \/ HandlerFails(h)
  PROVE  Moves /\ SameRows
<1> DEFINE ByDone == \E result \in Results : Done(h, result)
           ByGoto ==
             \E step \in Steps : /\ Goto(h, step) /\ step \notin {"mint", "insert"}
                                 /\ call[h].step \in AtWork \/ step \notin AtWork
<1>2. ByDone \/ ByGoto => Moves BY DoneMoves, GotoMoves
<1> HIDE DEF ByDone, ByGoto
<1> USE DEF SameRows, Account, Rows, History
<1>3. CASE PasswordCheck(h)
  BY <1>2, <1>3 DEF PasswordCheck, RecordFailure, ByDone, ByGoto, AtWork, Results, Steps
<1>4. CASE PasswordAccept(h)
  <2> DEFINE kind == IF Satisfied(factors) THEN "verify" ELSE "enroll"
             Accepts == call' = [call EXCEPT ![h] = [@ EXCEPT !.step = "insert", !.result = kind]]
  <2>1. /\ At(h, "password", "accepted") /\ (Done(h, "error") \/ Accepts)
        /\ UNCHANGED <<Account, Rows, Tokens, History>>
    BY <1>4 DEF PasswordAccept
  <2>2. kind \in Kinds
    BY DEF Kinds
  <2> HIDE DEF kind
  <2>3. CASE Done(h, "error")
    BY <1>2, <2>1, <2>3 DEF ByDone, Results
  <2>4. CASE Accepts
    <3>1. call' \in [Handlers -> CallType]
      BY <2>2, <2>4, Typed, StepNames, DoneRecord, Kinds \subseteq Results, ZenonT(60) DEF Results, Kinds
    <3>2. /\ call'[h].step = "insert" /\ call'[h].result \in Kinds
          /\ \A g \in Handlers : g # h => call'[g] = call[g]
      BY <2>2, <2>4, Typed DEF CallType
    <3> QED BY <2>1, <3>1, <3>2, SMTT(30) DEF Moves, Held, Follows, AtWork
  <2> QED BY <2>1, <2>3, <2>4
<1>5. CASE ReadState(h)
  <2>1. CASE Waits(call[h].login, Kinds) /\ status = "active"
    <3> DEFINE i == call[h].login
               seen == IF pending[i] = "verify"
                       THEN factors \cup (IF codes = {} THEN {} ELSE {"recovery"})
                       ELSE Missing(factors)
    <3>1. pending[i] \in Results BY <2>1 DEF Waits, Results
    <3>2. seen \in SUBSET (Factors \cup {"recovery"})
      BY DEF STypeOK, ServerTypeOK, Missing, Required, Factors
    <3>3. Report(h, pending[i], seen) BY <1>5, <2>1 DEF ReadState
    <3> QED BY <1>5, <3>1, <3>2, <3>3, ReportMoves DEF ReadState
  <2>2. CASE ~(Waits(call[h].login, Kinds) /\ status = "active")
    BY <1>2, <1>5, <2>2 DEF ReadState, ByDone, Results
  <2> QED BY <2>1, <2>2
<1>6. CASE CheckTOTP(h)
  BY <1>2, <1>6 DEF CheckTOTP, At, ByDone, ByGoto, AtWork, Results, Steps
<1>7. CASE ReadRecovery(h)
  BY <1>2, <1>7 DEF ReadRecovery, At, ByGoto, AtWork, Steps
<1>8. CASE RemoveRecovery(h)
  BY <1>2, <1>8 DEF RemoveRecovery, At, ByGoto, AtWork, Steps
<1>9. CASE BeginCeremony(h)
  BY <1>2, <1>9 DEF BeginCeremony, ByDone, Results
<1>10. CASE CheckPasskey(h)
  BY <1>2, <1>10 DEF CheckPasskey, At, ByGoto, AtWork, Steps
<1>11. CASE EnrollTOTPBegin(h)
  BY <1>2, <1>11 DEF EnrollTOTPBegin, ByDone, Results
<1>12. CASE EnrollTOTPCheck(h)
  BY <1>2, <1>12 DEF EnrollTOTPCheck, At, ByDone, ByGoto, AtWork, Results, Steps
<1>13. CASE EnrollTOTPEnable(h)
  BY <1>2, <1>13 DEF EnrollTOTPEnable, ByDone, Results
<1>14. CASE EnrollPasskeyFinish(h)
  BY <1>2, <1>14 DEF EnrollPasskeyFinish, ByDone, Results
<1>15. CASE CheckPolicy(h)
  <2>1. CASE Report(h, "policy", Missing(factors))
    <3>1. Missing(factors) \in SUBSET (Factors \cup {"recovery"}) /\ "policy" \in Results
      BY DEF STypeOK, ServerTypeOK, Missing, Required, Factors, Results
    <3> QED BY <1>15, <2>1, <3>1, ReportMoves DEF CheckPolicy
  <2>2. CASE Goto(h, "codes")
    BY <1>2, <1>15, <2>2 DEF CheckPolicy, At, ByGoto, AtWork, Steps
  <2> QED BY <1>15, <2>1, <2>2 DEF CheckPolicy
<1>16. CASE EnsureCodes(h)
  BY <1>2, <1>16 DEF EnsureCodes, At, ByGoto, AtWork, Steps
<1>17. CASE CountFailure(h)
  BY <1>2, <1>17 DEF CountFailure, RecordFailure, ByDone, ByGoto, AtWork, Results, Steps
<1>18. CASE PasswordlessBegin(h)
  BY <1>2, <1>18 DEF PasswordlessBegin, ByDone, Results
<1>19. CASE ReadLock(h)
  BY <1>2, <1>19 DEF ReadLock, ByDone, Results
<1>20. CASE HandlerFails(h)
  BY <1>2, <1>20 DEF HandlerFails, ByDone, Results
<1> QED BY <1>3, <1>4, <1>5, <1>6, <1>7, <1>8, <1>9, <1>10, <1>11, <1>12, <1>13, <1>14, <1>15,
           <1>16, <1>17, <1>18, <1>19, <1>20

-----------------------------------------------------------------------------
(* The steps of the server that take a login further. *)
TypedCalls == call' \in [Handlers -> CallType] /\ Held'

LEMMA ServeMoves ==
  ASSUME STypeOK, Held, NEW h \in Handlers, NEW step \in {"done", "mint"}, NEW login \in 0..MaxLogins,
         Serve(h, step, login)
  PROVE  /\ TypedCalls
         /\ call'[h].step = step /\ call'[h].login = login
         /\ \A g \in Handlers : g # h => call'[g] = call[g]
<1>1. call' \in [Handlers -> CallType] BY Typed, StepNames, ServeRecord DEF Serve
<1>2. /\ call'[h].step = step /\ call'[h].login = login
      /\ \A g \in Handlers : g # h => call'[g] = call[g]
  BY Typed DEF Serve, CallType
<1> QED BY <1>1, <1>2 DEF TypedCalls, Held

LEMMA GotoServes ==
  ASSUME STypeOK, Held, NEW h \in Handlers, NEW step \in Steps \ {"insert"}, Goto(h, step)
  PROVE  /\ TypedCalls
         /\ call'[h].step = step /\ call'[h].login = call[h].login
         /\ \A g \in Handlers : g # h => call'[g] = call[g]
<1>1. call' \in [Handlers -> CallType] BY Typed DEF Goto, CallType
<1>2. /\ call'[h].step = step /\ call'[h].login = call[h].login
      /\ \A g \in Handlers : g # h => call'[g] = call[g]
  BY Typed DEF Goto, CallType
<1> QED BY <1>1, <1>2 DEF TypedCalls, Held

(* What the numbering says of the rows a handler works with. *)
LEMMA RowFacts ==
  ASSUME STypeOK, LoginInv
  PROVE  /\ last \in Nat /\ last <= MaxLogins /\ cut \in Nat /\ cut <= last
         /\ pending \in [Logins -> Kinds \cup {"none", "finished", "dropped"}]
         /\ minted \in [Logins -> Nat]
         /\ \A i \in Logins : pending[i] \in Kinds => i <= last /\ i > cut /\ minted[i] = 0
         /\ \A i \in Logins : i > last => pending[i] = "none" /\ minted[i] = 0 /\ i \notin live
         /\ \A h \in Handlers : call[h].step \in AtWork => call[h].login \in Logins /\ call[h].login <= last
<1> USE Numbers DEF STypeOK, ServerTypeOK
<1>1. last \in Nat /\ last <= MaxLogins /\ cut \in Nat /\ cut <= last BY DEF LoginInv, CutOff
<1>2. \A i \in Logins : pending[i] \in Kinds => i <= last /\ i > cut /\ minted[i] = 0
  BY <1>1 DEF LoginInv, Numbered, MintedOnce, CutOff, Kinds
<1>3. \A i \in Logins : i > last => pending[i] = "none" /\ minted[i] = 0 /\ i \notin live
  BY <1>1 DEF LoginInv, Numbered, MintedOnce, CutOff
<1>4. \A h \in Handlers : call[h].step \in AtWork => call[h].login \in Logins /\ call[h].login <= last
  BY <1>1 DEF LoginInv, Numbered
<1> QED BY <1>1, <1>2, <1>3, <1>4

(* The next number is taken: by a pending row, or by a passkey sign-in.    *)
LEMMA NextKeeps ==
  ASSUME STypeOK, LoginInv, NEW h \in Handlers, NEW kind \in Kinds \cup {"finished"}, last < MaxLogins,
         last' = last + 1, pending' = [pending EXCEPT ![last + 1] = kind],
         UNCHANGED <<status, live, minted, cut, late>>,
         \A g \in Handlers : g # h => call'[g] = call[g],
         \/ call'[h].step = "done"
         \/ /\ call'[h].step = "mint" /\ call'[h].login = last + 1
            /\ kind = "finished" /\ status # "disabled"
  PROVE  LoginInv'
<1> USE Numbers, RowFacts
<1>1. last + 1 \in Logins /\ pending[last + 1] = "none" /\ minted[last + 1] = 0 OBVIOUS
<1>2. \A i \in Logins : pending'[i] = IF i = last + 1 THEN kind ELSE pending[i] OBVIOUS
<1>3. Numbered' BY <1>2 DEF LoginInv, Numbered, AtWork
<1>4. \A i \in Logins : minted'[i] = 0 \/ (minted'[i] = 1 /\ pending'[i] = "finished")
  BY <1>1, <1>2 DEF LoginInv, MintedOnce
<1>5. ASSUME NEW g \in Handlers, call'[g].step = "mint"
      PROVE  /\ pending'[call'[g].login] = "finished" /\ minted'[call'[g].login] = 0
             /\ \A f \in Handlers : call'[f].step = "mint" /\ call'[f].login = call'[g].login => f = g
  <2>1. \A f \in Handlers : f # h /\ call'[f].step = "mint" =>
            /\ call[f].step = "mint" /\ call'[f].login = call[f].login
            /\ call[f].login \in Logins /\ call[f].login # last + 1
    BY DEF AtWork
  <2>2. CASE g = h
    BY <1>1, <1>2, <1>5, <2>1, <2>2
  <2>3. CASE g # h
    <3>1. pending[call[g].login] = "finished" /\ minted[call[g].login] = 0
      BY <1>5, <2>1, <2>3 DEF LoginInv, MintedOnce
    <3>2. \A f \in Handlers \ {h} : call'[f].step = "mint" /\ call'[f].login = call'[g].login => f = g
      BY <1>5, <2>1, <2>3 DEF LoginInv, MintedOnce
    <3> QED BY <1>2, <1>5, <2>1, <2>3, <3>1, <3>2
  <2> QED BY <2>2, <2>3
<1>7. MintedOnce' BY <1>4, <1>5 DEF MintedOnce
<1>6. CutOff'
  <2>1. \A i \in Logins : pending'[i] \in Kinds => i > cut
    BY <1>2 DEF LoginInv, CutOff
  <2>2. \A g \in Handlers : call'[g].step = "mint" /\ call'[g].login <= cut => call'[g].login \in late
    BY DEF LoginInv, CutOff
  <2>3. status = "disabled" => \A g \in Handlers : call'[g].step \in AtWork => call'[g].login <= cut
    BY DEF LoginInv, CutOff, AtWork
  <2> QED BY <2>1, <2>2, <2>3 DEF LoginInv, CutOff
<1> QED BY <1>3, <1>6, <1>7 DEF LoginInv

LEMMA CreateKeeps ==
  ASSUME STypeOK, Held, LoginInv, NEW h \in Handlers, CreatePending(h)
  PROVE  LoginInv' /\ TypedCalls
<1>1. CASE Done(h, "error") /\ UNCHANGED <<last, pending>>
  BY <1>1, DoneMoves, QuietKeeps
  DEF CreatePending, Moves, TypedCalls, SameRows, Account, History, Results
<1>2. CASE /\ last < MaxLogins /\ last' = last + 1
           /\ pending' = [pending EXCEPT ![last + 1] = call[h].result]
           /\ Serve(h, "done", last + 1)
  <2>1. call[h].result \in Kinds /\ last + 1 \in 0..MaxLogins
    BY <1>2, RowFacts, Numbers DEF CreatePending, At, Held
  <2>2. TypedCalls /\ call'[h].step = "done" /\ \A g \in Handlers : g # h => call'[g] = call[g]
    BY <1>2, <2>1, ServeMoves
  <2>3. UNCHANGED <<status, live, minted, cut, late>> BY DEF CreatePending, Account, History
  <2> QED BY <1>2, <2>1, <2>2, <2>3, NextKeeps
<1> QED BY <1>1, <1>2 DEF CreatePending

LEMMA PasswordlessKeeps ==
  ASSUME STypeOK, Held, LoginInv, NEW h \in Handlers, PasswordlessFinish(h)
  PROVE  LoginInv' /\ TypedCalls
<1>1. CASE \E result \in Results : Done(h, result) /\ UNCHANGED <<last, pending>>
  BY <1>1, DoneMoves, QuietKeeps
  DEF PasswordlessFinish, Moves, TypedCalls, SameRows, Account, History
<1>2. CASE /\ status = "active" /\ last < MaxLogins
           /\ last' = last + 1 /\ pending' = [pending EXCEPT ![last + 1] = "finished"]
           /\ Serve(h, "mint", last + 1)
  <2>1. last + 1 \in 0..MaxLogins BY <1>2, RowFacts, Numbers
  <2>2. /\ TypedCalls /\ call'[h].step = "mint" /\ call'[h].login = last + 1
        /\ \A g \in Handlers : g # h => call'[g] = call[g]
    BY <1>2, <2>1, ServeMoves
  <2>3. UNCHANGED <<status, live, minted, cut, late>> BY DEF PasswordlessFinish, Account, History
  <2> QED BY <1>2, <2>2, <2>3, NextKeeps
<1> QED BY <1>1, <1>2 DEF PasswordlessFinish, RecordFailure, Results

(* A handler finds its login pending. *)
LEMMA ResolveKeeps ==
  ASSUME STypeOK, Held, LoginInv, NEW h \in Handlers, Resolve(h)
  PROVE  LoginInv' /\ TypedCalls
<1>1. SameRows BY DEF Resolve, SameRows, Account, Rows, History
<1>2. CASE \E result \in Results : Done(h, result)
  BY <1>1, <1>2, DoneMoves, QuietKeeps DEF Moves, TypedCalls
<1>3. CASE /\ \E kind \in Kinds : Waits(call[h].login, {kind})
           /\ status = "active" /\ Goto(h, "resolved")
  <2>1. /\ TypedCalls /\ call'[h].step = "resolved" /\ call'[h].login = call[h].login
        /\ \A g \in Handlers : g # h => call'[g] = call[g]
    BY <1>3, GotoServes DEF Steps
  <2>2. call[h].login \in Logins /\ pending[call[h].login] \in Kinds
    BY <1>3, Typed, Numbers DEF Waits, CallType
  <2>3. Numbered'
    BY <1>1, <2>1, <2>2, RowFacts, Numbers DEF LoginInv, Numbered, SameRows, AtWork
  <2>4. MintedOnce' BY <1>1, <2>1 DEF LoginInv, MintedOnce, SameRows
  <2>5. CutOff' BY <1>1, <1>3, <2>1 DEF LoginInv, CutOff, SameRows
  <2> QED BY <2>1, <2>3, <2>4, <2>5 DEF LoginInv
<1> QED BY <1>2, <1>3 DEF Resolve, Results, Kinds

(* The handler that consumes the pending row goes on to the session. *)
LEMMA FinishKeeps ==
  ASSUME STypeOK, Held, LoginInv, NEW h \in Handlers, FinishLogin(h)
  PROVE  LoginInv' /\ TypedCalls
<1> DEFINE i == call[h].login
<1>1. UNCHANGED <<status, last, live, minted, cut, late>> BY DEF FinishLogin, Account, History
<1>2. CASE Done(h, "expired") /\ UNCHANGED pending
  BY <1>1, <1>2, DoneMoves, QuietKeeps DEF Moves, TypedCalls, SameRows, Results
<1>3. CASE pending[i] \in Kinds /\ pending' = [pending EXCEPT ![i] = "finished"] /\ Goto(h, "mint")
  <2>1. /\ TypedCalls /\ call'[h].step = "mint" /\ call'[h].login = i
        /\ \A g \in Handlers : g # h => call'[g] = call[g]
    BY <1>3, GotoServes DEF Steps
  <2>2. i \in Logins /\ i <= last /\ i > cut /\ minted[i] = 0
    BY <1>3, RowFacts DEF FinishLogin, AtWork
  <2>3. \A j \in Logins : pending'[j] = IF j = i THEN "finished" ELSE pending[j]
    BY <1>3, RowFacts
  <2>4. \A g \in Handlers : g # h /\ call[g].step = "mint" => call[g].login \in Logins /\ call[g].login # i
    BY <1>3, RowFacts DEF LoginInv, MintedOnce, AtWork, Kinds
  <2>5. Numbered'
    <3>1. \A g \in Handlers : call'[g].step \in AtWork => call'[g].login \in 1..last
      BY <2>1, <2>2, Numbers DEF LoginInv, Numbered
    <3>2. \A j \in Logins : j > last => pending'[j] = "none"
      BY <2>2, <2>3, RowFacts, Numbers DEF LoginInv, Numbered
    <3> QED BY <1>1, <3>1, <3>2 DEF Numbered
  <2>6. MintedOnce'
    <3>1. \A j \in Logins : minted'[j] = 0 \/ (minted'[j] = 1 /\ pending'[j] = "finished")
      BY <1>1, <2>3 DEF LoginInv, MintedOnce
    <3>2. \A g \in Handlers : call'[g].step = "mint" =>
             pending'[call'[g].login] = "finished" /\ minted'[call'[g].login] = 0
      BY <1>1, <2>1, <2>2, <2>3, <2>4 DEF LoginInv, MintedOnce
    <3>3. \A g, k \in Handlers :
             call'[g].step = "mint" /\ call'[k].step = "mint" /\ call'[k].login = call'[g].login => k = g
      BY <2>1, <2>4 DEF LoginInv, MintedOnce
    <3> QED BY <3>1, <3>2, <3>3 DEF MintedOnce
  <2>7. CutOff'
    <3>1. \A j \in Logins : pending'[j] \in Kinds => j > cut
      BY <2>3 DEF LoginInv, CutOff, Kinds
    <3>2. \A g \in Handlers : call'[g].step = "mint" /\ call'[g].login <= cut => call'[g].login \in late
      <4>1. SUFFICES ASSUME NEW g \in Handlers, call'[g].step = "mint", call'[g].login <= cut
                     PROVE  call'[g].login \in late
        OBVIOUS
      <4>2. CASE g = h BY <4>1, <4>2, <2>1, <2>2, RowFacts, Numbers
      <4>3. CASE g # h BY <4>1, <4>3, <2>1 DEF LoginInv, CutOff
      <4> QED BY <4>2, <4>3
    <3>3. call[h].step \in AtWork BY DEF FinishLogin, AtWork
    <3>4. \A g \in Handlers : call'[g].step \in AtWork => call[g].step \in AtWork /\ call'[g].login = call[g].login
      BY <2>1, <3>3
    <3> QED BY <1>1, <3>1, <3>2, <3>4 DEF LoginInv, CutOff
  <2> QED BY <2>1, <2>5, <2>6, <2>7 DEF LoginInv
<1> QED BY <1>2, <1>3 DEF FinishLogin

LEMMA MintKeeps ==
  ASSUME STypeOK, Held, LoginInv, NEW h \in Handlers, Mint(h)
  PROVE  LoginInv' /\ TypedCalls
<1> DEFINE i == call[h].login
<1>1. /\ call[h].step = "mint" /\ live' = live \cup {i} /\ minted' = [minted EXCEPT ![i] = @ + 1]
      /\ UNCHANGED <<status, last, pending, cut, late>>
  BY DEF Mint, Account
<1>2. /\ call' \in [Handlers -> CallType] /\ Held' /\ Follows
      /\ call'[h].step = "done" /\ \A g \in Handlers : g # h => call'[g] = call[g]
  <2>1. Done(h, "session") BY DEF Mint
  <2>2. Moves BY <2>1, DoneMoves DEF Results
  <2> QED BY <2>1, <2>2, Typed DEF Moves, Done, CallType
<1>3. i \in Logins /\ minted[i] = 0 /\ pending[i] = "finished"
  BY <1>1, RowFacts DEF LoginInv, MintedOnce, AtWork
<1>4. \A j \in Logins : minted'[j] = IF j = i THEN 1 ELSE minted[j]
  BY <1>1, <1>3, RowFacts
<1>5. \A g \in Handlers : call'[g].step = "mint" =>
         g # h /\ call[g].step = "mint" /\ call[g].login # i /\ call[g].login \in Logins
  BY <1>1, <1>2, RowFacts DEF LoginInv, MintedOnce, AtWork
<1>6. Numbered' BY <1>1, <1>2 DEF LoginInv, Numbered, Follows
<1>7. MintedOnce'
  <2>1. \A j \in Logins : minted'[j] = 0 \/ (minted'[j] = 1 /\ pending'[j] = "finished")
    BY <1>1, <1>3, <1>4 DEF LoginInv, MintedOnce
  <2> QED BY <1>1, <1>2, <1>4, <1>5, <2>1 DEF LoginInv, MintedOnce
<1>8. CutOff'
  <2>1. \A j \in live' : minted'[j] = 1 /\ (j <= cut => j \in late)
    BY <1>1, <1>3, <1>4, RowFacts DEF LoginInv, CutOff, STypeOK, ServerTypeOK
  <2>2. status = "disabled" => \A j \in live' : j <= cut
    BY <1>1 DEF LoginInv, CutOff, AtWork
  <2> QED BY <1>1, <1>2, <2>1, <2>2 DEF LoginInv, CutOff, Follows, AtWork
<1> QED BY <1>2, <1>6, <1>7, <1>8 DEF LoginInv, TypedCalls

(* Sessions and pending rows are deleted by one request. *)
LEMMA DeleteKeeps ==
  ASSUME STypeOK, Held, LoginInv, NEW h \in Handlers, DropPending(h) \/ Logout(h) \/ ReadSession(h)
  PROVE  LoginInv' /\ TypedCalls
<1>1. /\ \E result \in Results : Done(h, result)
      /\ \E S \in SUBSET Logins : pending' \in {pending, Dropped(S)}
      /\ live' \subseteq live /\ UNCHANGED <<status, last, minted, cut, late>>
  <2>1. CASE DropPending(h)
    <3>1. CASE call[h].login \in Logins
      BY <2>1, <3>1 DEF DropPending, Account, History, Results
    <3>2. CASE call[h].login \notin Logins
      <4>1. Dropped({call[h].login}) = Dropped({}) BY <3>2 DEF Dropped
      <4> QED BY <2>1, <4>1 DEF DropPending, Account, History, Results
    <3> QED BY <3>1, <3>2
  <2>2. CASE Logout(h)
    <3>1. CASE call[h].login \in Logins
      BY <2>2, <3>1 DEF Logout, Account, History, Results
    <3>2. CASE call[h].login \notin Logins
      <4>1. Dropped({call[h].login}) = Dropped({}) BY <3>2 DEF Dropped
      <4> QED BY <2>2, <4>1 DEF Logout, Account, History, Results
    <3> QED BY <3>1, <3>2
  <2>3. CASE ReadSession(h)
    BY <2>3 DEF ReadSession, Account, History, Results
  <2> QED BY <2>1, <2>2, <2>3
<1>2. Moves BY <1>1, DoneMoves
<1> QED BY <1>1, <1>2, DropKeeps DEF Moves, TypedCalls

-----------------------------------------------------------------------------
(* A revocation: nothing is pending, and every session that still comes is *)
(* late.                                                                   *)
LEMMA RevokeKeeps ==
  ASSUME STypeOK, LoginInv, RevokeRows, UNCHANGED <<last, minted, call>>
  PROVE  LoginInv'
<1>1. /\ live' = {} /\ cut' = last /\ late' = late \cup Minting /\ pending' = Dropped(Logins)
  BY DEF RevokeRows
<1>2. \A i \in Logins : pending'[i] = IF pending[i] \in Kinds THEN "dropped" ELSE pending[i]
  BY <1>1 DEF Dropped
<1>3. \A h \in Handlers : call[h].step = "mint" => call[h].login \in late' /\ call[h].login \in Logins
  BY <1>1, RowFacts DEF Minting, AtWork
<1>4. Numbered' BY <1>2 DEF LoginInv, Numbered, Kinds
<1>5. MintedOnce' BY <1>2, <1>3 DEF LoginInv, MintedOnce, Kinds
<1>6. \A h \in Handlers : call[h].step \in AtWork => call[h].login <= cut'
  BY <1>1, RowFacts
<1>7. \A i \in Logins : pending'[i] \notin Kinds BY <1>2 DEF Kinds
<1>8. CutOff' BY <1>1, <1>3, <1>6, <1>7, RowFacts DEF CutOff
<1> QED BY <1>4, <1>5, <1>8 DEF LoginInv

(* What other administrators, and time, do. *)
LEMMA EnvironmentKeeps ==
  ASSUME STypeOK, Held, LoginInv, Environment
  PROVE  LoginInv' /\ TypedCalls
<1>1. UNCHANGED call
  BY DEF Environment, LockExpires, DisableAdmin, RevokeSessions, ResetMFA
<1>2. TypedCalls BY <1>1, Typed DEF TypedCalls, Held
<1>3. CASE LockExpires
  BY <1>1, <1>2, <1>3, QuietKeeps DEF LockExpires, Follows, SameRows, Account, Rows, History
<1>4. CASE DisableAdmin
  <2>1. status # "disabled" /\ status' # "disabled" BY <1>4 DEF DisableAdmin
  <2> QED BY <1>1, <1>2, <1>4, <2>1 DEF DisableAdmin, Rows, History, LoginInv, Numbered, MintedOnce, CutOff
<1>5. CASE RevokeSessions
  BY <1>1, <1>2, <1>5, RevokeKeeps DEF RevokeSessions
<1>6. CASE ResetMFA
  BY <1>1, <1>2, <1>6, RevokeKeeps DEF ResetMFA
<1> QED BY <1>2, <1>3, <1>4, <1>5, <1>6 DEF Environment

(* The types of the server's variables, by group. *)
AccountOK == /\ policy \in Policies /\ status \in {"active", "disabling", "disabled"}
             /\ factors \in SUBSET Factors /\ codes \in SUBSET RecoveryCodes
RowsOK    == /\ last \in 0..MaxLogins /\ pending \in [Logins -> Kinds \cup {"none", "finished", "dropped"}]
             /\ attempts \in [Logins -> Nat] /\ live \in SUBSET Logins
TokensOK  == /\ secret \in [Logins -> BOOLEAN]
             /\ ceremony \in [Tabs \cup Handlers ->
                   [purpose : {"none", "login", "enroll", "passwordless"}, login : 0..MaxLogins]]
HistoryOK == /\ minted \in [Logins -> Nat] /\ spent \in [RecoveryCodes -> Nat]
             /\ cut \in 0..MaxLogins /\ late \in SUBSET Logins

LEMMA Groups == ServerTypeOK <=> /\ AccountOK /\ RowsOK /\ TokensOK /\ HistoryOK
                                 /\ locked \in BOOLEAN /\ call \in [Handlers -> CallType]
  BY DEF ServerTypeOK, AccountOK, RowsOK, TokensOK, HistoryOK

LEMMA Groups2 == ServerTypeOK' <=> /\ AccountOK' /\ RowsOK' /\ TokensOK' /\ HistoryOK'
                                   /\ locked' \in BOOLEAN /\ call' \in [Handlers -> CallType]
  BY DEF ServerTypeOK, AccountOK, RowsOK, TokensOK, HistoryOK

LEMMA SameGroups ==
  /\ AccountOK /\ UNCHANGED Account => AccountOK'
  /\ RowsOK /\ UNCHANGED Rows => RowsOK'
  /\ TokensOK /\ UNCHANGED Tokens => TokensOK'
  /\ HistoryOK /\ UNCHANGED History => HistoryOK'
<1>1. AccountOK /\ UNCHANGED Account => AccountOK' BY DEF Account, AccountOK
<1>2. RowsOK /\ UNCHANGED Rows => RowsOK' BY DEF Rows, RowsOK
<1>3. TokensOK /\ UNCHANGED Tokens => TokensOK' BY DEF Tokens, TokensOK
<1>4. HistoryOK /\ UNCHANGED History => HistoryOK' BY DEF History, HistoryOK
<1> QED BY <1>1, <1>2, <1>3, <1>4

LEMMA ServerTypes ==
  ASSUME STypeOK, Held, LoginInv, TypedCalls, NEW h \in Handlers, ServerStep(h) \/ HandlerFails(h)
  PROVE  ServerTypeOK'
<1>1. /\ AccountOK /\ RowsOK /\ TokensOK /\ HistoryOK /\ locked \in BOOLEAN
      /\ call' \in [Handlers -> CallType] /\ call[h] \in CallType
  BY Groups, Typed DEF STypeOK, TypedCalls
<1>2. CASE PasswordCheck(h) \/ PasswordAccept(h) \/ ReadState(h) \/ Resolve(h) \/ CheckTOTP(h)
           \/ ReadRecovery(h) \/ CheckPolicy(h) \/ ReadLock(h) \/ HandlerFails(h)
  BY <1>1, <1>2, Groups2, SameGroups DEF PasswordCheck, RecordFailure, PasswordAccept, ReadState, Resolve,
     CheckTOTP, ReadRecovery, CheckPolicy, ReadLock, HandlerFails
<1>3. CASE CreatePending(h)
  <2>1. last < MaxLogins => call[h].result \in Kinds BY <1>3 DEF CreatePending, At, Held
  <2>2. RowsOK' BY <1>1, <1>3, <2>1, Numbers DEF CreatePending, RowsOK
  <2> QED BY <1>1, <1>3, <2>2, Groups2, SameGroups DEF CreatePending
<1>4. CASE RemoveRecovery(h)
  <2>1. AccountOK' BY <1>1, <1>4 DEF RemoveRecovery, AccountOK
  <2>2. HistoryOK' BY <1>1, <1>4 DEF RemoveRecovery, HistoryOK
  <2> QED BY <1>1, <1>4, <2>1, <2>2, Groups2, SameGroups DEF RemoveRecovery
<1>5. CASE BeginCeremony(h)
  <2>1. call[h].login \in 0..MaxLogins BY <1>1 DEF CallType
  <2>2. TokensOK' BY <1>1, <1>5, <2>1 DEF BeginCeremony, TokensOK
  <2> QED BY <1>1, <1>5, <2>2, Groups2, SameGroups DEF BeginCeremony
<1>6. NoCeremony \in [purpose : {"none", "login", "enroll", "passwordless"}, login : 0..MaxLogins]
  BY Numbers DEF NoCeremony
<1>7. CASE CheckPasskey(h)
  <2>1. TokensOK' BY <1>1, <1>6, <1>7 DEF CheckPasskey, TokensOK
  <2> QED BY <1>1, <1>7, <2>1, Groups2, SameGroups DEF CheckPasskey
<1>8. CASE EnrollTOTPBegin(h)
  <2>1. TokensOK' BY <1>1, <1>8 DEF EnrollTOTPBegin, TokensOK
  <2> QED BY <1>1, <1>8, <2>1, Groups2, SameGroups DEF EnrollTOTPBegin
<1>9. CASE EnrollTOTPCheck(h)
  BY <1>1, <1>9, Groups2, SameGroups DEF EnrollTOTPCheck
<1>10. CASE EnrollTOTPEnable(h)
  <2>1. AccountOK' BY <1>1, <1>10 DEF EnrollTOTPEnable, AccountOK, Factors
  <2> QED BY <1>1, <1>10, <2>1, Groups2, SameGroups DEF EnrollTOTPEnable
<1>11. CASE EnrollPasskeyFinish(h)
  <2>1. AccountOK' BY <1>1, <1>11 DEF EnrollPasskeyFinish, AccountOK, Factors
  <2>2. TokensOK' BY <1>1, <1>6, <1>11 DEF EnrollPasskeyFinish, TokensOK
  <2> QED BY <1>1, <1>11, <2>1, <2>2, Groups2, SameGroups DEF EnrollPasskeyFinish
<1>12. CASE EnsureCodes(h)
  <2>1. AccountOK' BY <1>1, <1>12 DEF EnsureCodes, AccountOK
  <2>2. HistoryOK' BY <1>1, <1>12 DEF EnsureCodes, HistoryOK
  <2> QED BY <1>1, <1>12, <2>1, <2>2, Groups2, SameGroups DEF EnsureCodes
<1>13. CASE FinishLogin(h)
  <2>1. RowsOK' BY <1>1, <1>13 DEF FinishLogin, RowsOK
  <2>2. TokensOK' BY <1>1, <1>6, <1>13 DEF FinishLogin, Tokens, TokensOK
  <2> QED BY <1>1, <1>13, <2>1, <2>2, Groups2, SameGroups DEF FinishLogin
<1>14. CASE PasswordlessBegin(h)
  <2>1. /\ \/ UNCHANGED ceremony
           \/ ceremony' = [ceremony EXCEPT ![call[h].tab] = [purpose |-> "passwordless", login |-> 0]]
        /\ UNCHANGED secret
    BY <1>14 DEF PasswordlessBegin
  <2>2. [purpose |-> "passwordless", login |-> 0]
            \in [purpose : {"none", "login", "enroll", "passwordless"}, login : 0..MaxLogins]
    BY Numbers
  <2>3. TokensOK'
    <3> DEFINE token == [purpose |-> "passwordless", login |-> 0]
    <3> HIDE DEF token
    <3>1. TokensOK BY <1>1
    <3>2. token \in [purpose : {"none", "login", "enroll", "passwordless"}, login : 0..MaxLogins]
      BY <2>2 DEF token
    <3>3. /\ ceremony' \in {ceremony, [ceremony EXCEPT ![call[h].tab] = token]}
          /\ UNCHANGED secret
      BY <2>1 DEF token
    <3> QED BY <3>1, <3>2, <3>3 DEF TokensOK
  <2> QED BY <1>1, <1>14, <2>3, Groups2, SameGroups DEF PasswordlessBegin
<1>15. CASE CountFailure(h)
  <2>1. /\ attempts' \in {attempts, [attempts EXCEPT ![call[h].login] = @ + 1]}
        /\ UNCHANGED <<last, pending, live>>
    BY <1>15 DEF CountFailure
  <2>3. RowsOK' BY <1>1, <2>1 DEF RowsOK
  <2>2. locked' \in BOOLEAN BY <1>1, <1>15 DEF CountFailure, RecordFailure
  <2> QED BY <1>1, <1>15, <2>2, <2>3, Groups2, SameGroups DEF CountFailure
<1>16. CASE DropPending(h) \/ Logout(h) \/ ReadSession(h)
  <2>1. RowsOK' BY <1>1, <1>16 DEF DropPending, Logout, ReadSession, Dropped, RowsOK
  <2> QED BY <1>1, <1>16, <2>1, Groups2, SameGroups DEF DropPending, Logout, ReadSession
<1>17. CASE PasswordlessFinish(h)
  <2>1. RowsOK'
    <3>1. UNCHANGED <<attempts, live>> BY <1>17 DEF PasswordlessFinish
    <3>2. CASE UNCHANGED <<last, pending>> BY <1>1, <3>1, <3>2 DEF RowsOK
    <3>3. CASE last < MaxLogins /\ last' = last + 1 /\ pending' = [pending EXCEPT ![last + 1] = "finished"]
      BY <1>1, <3>1, <3>3, Numbers DEF RowsOK
    <3> QED BY <1>17, <3>2, <3>3 DEF PasswordlessFinish
  <2>2. TokensOK' BY <1>1, <1>6, <1>17 DEF PasswordlessFinish, TokensOK
  <2>3. locked' \in BOOLEAN BY <1>1, <1>17 DEF PasswordlessFinish, RecordFailure
  <2> QED BY <1>1, <1>17, <2>1, <2>2, <2>3, Groups2, SameGroups DEF PasswordlessFinish
<1>18. CASE Mint(h)
  <2>1. call[h].login \in Logins BY <1>18, RowFacts DEF Mint, AtWork
  <2>2. HistoryOK' BY <1>1, <1>18, <2>1 DEF Mint, HistoryOK
  <2>3. RowsOK' BY <1>1, <1>18, <2>1 DEF Mint, RowsOK
  <2> QED BY <1>1, <1>18, <2>2, <2>3, Groups2, SameGroups DEF Mint
<1> QED BY <1>2, <1>3, <1>4, <1>5, <1>7, <1>8, <1>9, <1>10, <1>11, <1>12, <1>13, <1>14,
           <1>15, <1>16, <1>17, <1>18 DEF ServerStep

LEMMA EnvironmentTypes ==
  ASSUME STypeOK, LoginInv, Environment, TypedCalls
  PROVE  ServerTypeOK'
<1>1. /\ AccountOK /\ RowsOK /\ TokensOK /\ HistoryOK /\ locked \in BOOLEAN
      /\ call' \in [Handlers -> CallType]
  BY Groups DEF STypeOK, TypedCalls
<1>2. CASE LockExpires
  BY <1>1, <1>2, Groups2, SameGroups DEF LockExpires
<1>3. CASE DisableAdmin
  <2>1. AccountOK' BY <1>1, <1>3 DEF DisableAdmin, AccountOK
  <2> QED BY <1>1, <1>3, <2>1, Groups2, SameGroups DEF DisableAdmin
<1>4. Minting \in SUBSET Logins BY RowFacts DEF Minting, AtWork
<1>5. CASE RevokeSessions
  <2>1. AccountOK' BY <1>1, <1>5 DEF RevokeSessions, AccountOK
  <2>2. RowsOK' BY <1>1, <1>5 DEF RevokeSessions, RevokeRows, RowsOK, Dropped
  <2>3. HistoryOK' BY <1>1, <1>4, <1>5 DEF RevokeSessions, RevokeRows, HistoryOK, RowsOK
  <2> QED BY <1>1, <1>5, <2>1, <2>2, <2>3, Groups2, SameGroups DEF RevokeSessions
<1>6. CASE ResetMFA
  <2>1. AccountOK' BY <1>1, <1>6 DEF ResetMFA, AccountOK
  <2>2. RowsOK' BY <1>1, <1>6 DEF ResetMFA, RevokeRows, RowsOK, Dropped
  <2>3. HistoryOK' BY <1>1, <1>4, <1>6 DEF ResetMFA, RevokeRows, HistoryOK, RowsOK
  <2>4. TokensOK'
    <3>1. NoCeremony \in [purpose : {"none", "login", "enroll", "passwordless"}, login : 0..MaxLogins]
      BY Numbers DEF NoCeremony
    <3> QED BY <1>1, <1>6, <3>1 DEF ResetMFA, TokensOK
  <2> QED BY <1>1, <1>6, <2>1, <2>2, <2>3, <2>4, Groups2, SameGroups DEF ResetMFA
<1> QED BY <1>2, <1>3, <1>5, <1>6 DEF Environment

-----------------------------------------------------------------------------
(* What an answer makes of the page that hears it. *)
LEMMA PhaseNames == {"form", "asked", "shown", "choose", "codes", "expired", "disabled"} \subseteq Phases
  BY DEF Phases

LEMMA LockedTyped ==
  ASSUME NEW v \in ViewType
  PROVE  Locked(v) \in ViewType
<1>1. [v EXCEPT !.over = IF @ = "off" THEN "on" ELSE @] \in ViewType BY DEF ViewType
<1> QED BY <1>1 DEF Locked

LEMMA PagesTyped == {LoginPage, VerifyPage, SetupPage, AppPage} \subseteq ViewType
<1>1. Blank \in ViewType BY DEF Blank, ViewType, Pages, Phases
<1>2. [Blank EXCEPT !.page = "verify"] \in ViewType BY <1>1 DEF ViewType, Pages
<1>3. [Blank EXCEPT !.page = "setup"] \in ViewType BY <1>1 DEF ViewType, Pages
<1>4. [Blank EXCEPT !.page = "app"] \in ViewType BY <1>1 DEF ViewType, Pages
<1> QED BY <1>1, <1>2, <1>3, <1>4 DEF LoginPage, VerifyPage, SetupPage, AppPage

LEMMA OpenedTyped ==
  ASSUME NEW p \in Pages
  PROVE  Opened(p) \in ViewType
<1>1. \E v \in {LoginPage, VerifyPage, SetupPage, AppPage} : v.page = p
  BY DEF Pages, LoginPage, VerifyPage, SetupPage, AppPage, Blank
<1>2. Opened(p) \in {LoginPage, VerifyPage, SetupPage, AppPage} BY <1>1 DEF Opened
<1> QED BY <1>2, PagesTyped

LEMMA IdledTyped ==
  ASSUME NEW v \in ViewType
  PROVE  Idled(v) \in ViewType
<1>1. [v EXCEPT !.busy = "no"] \in ViewType BY DEF ViewType
<1> QED BY <1>1 DEF Idled

LEMMA PhaseTyped ==
  ASSUME NEW v \in ViewType,
         NEW phase \in Phases
  PROVE  [v EXCEPT !.phase = phase] \in ViewType
  BY DEF ViewType

LEMMA NextPhaseTyped ==
  ASSUME NEW v
  PROVE  NextPhase(v) \in Phases
  BY DEF NextPhase, Phases

LEMMA AddedTyped ==
  ASSUME NEW v \in ViewType, NEW f \in Factors
  PROVE  [v EXCEPT !.added = @ \cup {f}] \in ViewType
  BY DEF ViewType

LEMMA AdvancedTyped ==
  ASSUME NEW v \in ViewType, NEW f \in Factors
  PROVE  Advanced(v, f) \in ViewType
<1> DEFINE w == [v EXCEPT !.added = @ \cup {f}]
<1>1. w \in ViewType BY AddedTyped
<1> HIDE DEF w
<1>2. Idled(w) \in ViewType BY <1>1, IdledTyped
<1>3. [Idled(w) EXCEPT !.phase = NextPhase(w)] \in ViewType BY <1>2, PhaseTyped, NextPhaseTyped
<1> QED BY <1>3 DEF Advanced, w

(* The pages of the sign-in. *)
LEMMA LoginAnswers ==
  ASSUME NEW c \in CallType, NEW v \in ViewType
  PROVE  /\ PasswordAnswered(c, v) \in ViewType
         /\ PasskeyAnswered(c, v) \in ViewType
         /\ LockoutAnswered(c, v) \in ViewType
<1> USE LockedTyped
<1>1. PasswordAnswered(c, v) \in ViewType
  <2>1. [v EXCEPT !.busy = "no", !.won = FALSE] \in ViewType BY DEF ViewType
  <2>2. [Locked(v) EXCEPT !.busy = "no"] \in ViewType BY IdledTyped DEF Idled
  <2> QED BY <2>1, <2>2, PagesTyped DEF PasswordAnswered
<1>2. PasskeyAnswered(c, v) \in ViewType
  <2>1. [v EXCEPT !.prompt = TRUE] \in ViewType BY DEF ViewType
  <2>2. [Locked(v) EXCEPT !.keying = FALSE] \in ViewType BY DEF ViewType
  <2>3. \A b \in BOOLEAN : [v EXCEPT !.keying = FALSE, !.won = b] \in ViewType BY DEF ViewType
  <2> QED BY <2>1, <2>2, <2>3 DEF PasskeyAnswered
<1>3. LockoutAnswered(c, v) \in ViewType
  <2>1. [v EXCEPT !.over = "off", !.busy = "no"] \in ViewType BY DEF ViewType
  <2> QED BY <2>1 DEF LockoutAnswered
<1> QED BY <1>1, <1>2, <1>3

LEMMA FactorView ==
  ASSUME NEW v \in ViewType, NEW won \in BOOLEAN, NEW over \in {"off", "on", "zero"},
         NEW phase \in Phases
  PROVE  [v EXCEPT !.busy = "no", !.won = won, !.phase = phase, !.over = over] \in ViewType
<1> DEFINE w == [v EXCEPT !.busy = "no", !.won = won]
<1>1. w \in ViewType BY DEF ViewType
<1>2. [v EXCEPT !.busy = "no", !.won = won, !.phase = phase, !.over = over]
         = [w EXCEPT !.phase = phase, !.over = over]
  BY DEF ViewType
<1> HIDE DEF w
<1>3. [w EXCEPT !.phase = phase, !.over = over] \in ViewType BY <1>1, PhaseNames DEF ViewType
<1> QED BY <1>2, <1>3

(* The pages of the second factor. *)
LEMMA ChallengeAnswers ==
  ASSUME NEW c \in CallType, NEW v \in ViewType
  PROVE  /\ VerifyStateAnswered(c, v) \in ViewType
         /\ SetupStateAnswered(c, v) \in ViewType
         /\ FactorAnswered(c, v) \in ViewType
<1>1. c.seen \in SUBSET (Factors \cup {"recovery"}) BY DEF CallType
<1>2. VerifyStateAnswered(c, v) \in ViewType
  <2>1. [v EXCEPT !.phase = "choose", !.offered = c.seen] \in ViewType BY <1>1, PhaseNames DEF ViewType
  <2> QED BY <2>1, PhaseTyped, PhaseNames DEF VerifyStateAnswered
<1>3. SetupStateAnswered(c, v) \in ViewType
  <2>1. Required \in SUBSET (Factors \cup {"recovery"}) BY DEF Required
  <2>2. [v EXCEPT !.phase = "choose", !.offered = c.seen, !.picked = Required] \in ViewType
    BY <1>1, <2>1, PhaseNames DEF ViewType
  <2> QED BY <2>2, PhaseTyped, PhaseNames DEF SetupStateAnswered
<1>4. FactorAnswered(c, v) \in ViewType
  <2>1. [v EXCEPT !.prompt = TRUE] \in ViewType BY DEF ViewType
  <2> DEFINE phase == IF c.result \in {"expired", "disabled"} THEN c.result ELSE v.phase
             over  == IF c.result = "locked" THEN Locked(v).over ELSE v.over
             won   == v.won \/ c.result = "session"
  <2>2. /\ phase \in Phases
        /\ over \in {"off", "on", "zero"} /\ won \in BOOLEAN
    BY LockedTyped, PhaseNames DEF ViewType
  <2> HIDE DEF phase, over, won
  <2>3. [v EXCEPT !.busy = "no", !.won = won, !.phase = phase, !.over = over] \in ViewType
    BY <2>2, FactorView
  <2> QED BY <2>1, <2>3 DEF FactorAnswered, phase, over, won
<1> QED BY <1>2, <1>3, <1>4

(* The page of the enrolment, and the shell. *)
LEMMA EnrolAnswers ==
  ASSUME NEW c \in CallType, NEW v \in ViewType
  PROVE  /\ BeginTOTPAnswered(c, v) \in ViewType
         /\ EnrollAnswered(c, v) \in ViewType
         /\ CompleteAnswered(c, v) \in ViewType
         /\ AppAnswered(c, v) \in ViewType
<1>1. Idled(v) \in ViewType BY IdledTyped
<1>2. [Idled(v) EXCEPT !.phase = "expired"] \in ViewType BY <1>1, PhaseTyped, PhaseNames
<1>3. BeginTOTPAnswered(c, v) \in ViewType
  <2>1. [Idled(v) EXCEPT !.phase = "choose", !.added = @ \cup {"totp"}] \in ViewType
    BY <1>1, PhaseNames DEF ViewType, Factors
  <2>2. [Idled(v) EXCEPT !.keyed = TRUE] \in ViewType BY <1>1, PhaseNames DEF ViewType
  <2> QED BY <1>1, <1>2, <2>1, <2>2 DEF BeginTOTPAnswered
<1>4. EnrollAnswered(c, v) \in ViewType
  <2>1. [v EXCEPT !.prompt = TRUE] \in ViewType BY DEF ViewType
  <2>2. {"totp", "passkey"} \subseteq Factors BY DEF Factors
  <2> QED BY <1>1, <1>2, <2>1, <2>2, AdvancedTyped DEF EnrollAnswered
<1>5. CompleteAnswered(c, v) \in ViewType
  <2>1. [Idled(v) EXCEPT !.phase = "codes"] \in ViewType BY <1>1, PhaseTyped, PhaseNames
  <2>2. c.seen \in SUBSET (Factors \cup {"recovery"}) BY DEF CallType
  <2>3. [Idled(v) EXCEPT !.phase = "choose", !.picked = @ \cup c.seen] \in ViewType
    BY <1>1, <2>2, PhaseNames DEF ViewType
  <2> QED BY <1>1, <1>2, <2>1, <2>3 DEF CompleteAnswered
<1>6. AppAnswered(c, v) \in ViewType
  BY PagesTyped, PhaseTyped, PhaseNames DEF AppAnswered
<1> QED BY <1>3, <1>4, <1>5, <1>6

LEMMA HeardTyped ==
  ASSUME NEW c \in CallType, NEW v \in ViewType
  PROVE  Heard(c, v) \in ViewType
  BY LoginAnswers, ChallengeAnswers, EnrolAnswers, PagesTyped DEF Heard

-----------------------------------------------------------------------------
(* The steps of the browser: they keep every type, and take no handler to  *)
(* work.                                                                   *)
Browses == STypeOK' /\ Moves /\ SameRows /\ UNCHANGED <<codes, spent>>

LEMMA BrowserParts ==
  STypeOK => /\ AccountOK /\ RowsOK /\ TokensOK /\ HistoryOK /\ locked \in BOOLEAN
             /\ call \in [Handlers -> CallType]
             /\ tab \in [Tabs -> ViewType]
             /\ pendingCookie \in 0..MaxLogins /\ sessionCookie \in 0..MaxLogins
             /\ keyCookie \in Tabs \cup {NoTab}
             /\ journey \in Journeys /\ journey.steps \in Nat /\ sent \in 0..journey.steps
  BY Groups, JourneyAssumption DEF STypeOK, BrowserTypeOK

(* It is enough to look at what such a step may change. *)
LEMMA BrowsesWhen ==
  ASSUME STypeOK, UNCHANGED <<Account, Rows, History, locked, secret, journey>>,
         ceremony' \in [Tabs \cup Handlers ->
             [purpose : {"none", "login", "enroll", "passwordless"}, login : 0..MaxLogins]],
         Moves, tab' \in [Tabs -> ViewType],
         pendingCookie' \in 0..MaxLogins, sessionCookie' \in 0..MaxLogins,
         keyCookie' \in Tabs \cup {NoTab}, sent' \in 0..journey.steps
  PROVE  Browses
<1>1. ServerTypeOK'
  <2>1. TokensOK' BY BrowserParts DEF TokensOK
  <2> QED BY <2>1, BrowserParts, SameGroups, Groups2 DEF Moves
<1>2. BrowserTypeOK' BY BrowserParts DEF BrowserTypeOK
<1>3. SameRows /\ UNCHANGED <<codes, spent>> BY DEF SameRows, Account, Rows, History
<1> QED BY <1>1, <1>2, <1>3 DEF Browses, STypeOK

LEMMA StillMoves == STypeOK /\ Held /\ UNCHANGED call => Moves
  BY Typed DEF Moves, Held, Follows

LEMMA DeafMoves ==
  ASSUME STypeOK, Held, NEW t, call' = Deafened(t)
  PROVE  Moves
<1>1. \A h \in Handlers : call'[h] \in {call[h], [call[h] EXCEPT !.heard = FALSE]} BY DEF Deafened
<1>2. \A h \in Handlers : [call[h] EXCEPT !.heard = FALSE] \in CallType BY Typed DEF CallType
<1>3. call' \in [Handlers -> CallType] BY <1>1, <1>2, Typed DEF Deafened
<1>4. \A h \in Handlers : /\ call'[h].step = call[h].step /\ call'[h].login = call[h].login
                          /\ call'[h].result = call[h].result
  BY <1>1, Typed DEF CallType
<1> QED BY <1>3, <1>4 DEF Moves, Held, Follows

(* A request takes the cookies along. *)
LEMMA RequestTyped ==
  ASSUME NEW op \in Ops, NEW t \in Tabs, NEW login \in 0..MaxLogins, NEW session \in 0..MaxLogins,
         NEW arg \in RecoveryCodes \cup {"right", "wrong", "none", "probe", "unlock"}
  PROVE  /\ Request(op, t, login, session, arg) \in CallType
         /\ Request(op, t, login, session, arg).step = "arrived"
<1>1. "arrived" \in Steps /\ "none" \in Results BY DEF Steps, Results
<1> QED BY <1>1 DEF Request, CallType

LEMMA RequestMoves ==
  ASSUME STypeOK, Held, NEW h \in Handlers, NEW op \in Ops, NEW t \in Tabs,
         NEW arg \in RecoveryCodes \cup {"right", "wrong", "none", "probe", "unlock"},
         call' = [call EXCEPT ![h] = Request(op, t, pendingCookie, sessionCookie, arg)]
  PROVE  Moves
<1> DEFINE r == Request(op, t, pendingCookie, sessionCookie, arg)
<1>1. r \in CallType /\ r.step = "arrived" BY BrowserParts, RequestTyped
<1> HIDE DEF r
<1>2. call' = [call EXCEPT ![h] = r] BY DEF r
<1> QED BY <1>1, <1>2, Typed DEF Moves, Held, Follows, AtWork

LEMMA SendBrowses ==
  ASSUME STypeOK, Held, UNCHANGED journey, NEW t \in Tabs, NEW op \in Ops, NEW v \in ViewType,
         NEW arg \in RecoveryCodes \cup {"right", "wrong", "none", "probe", "unlock"}, Send(t, op, arg, v)
  PROVE  Browses
<1>1. Moves BY RequestMoves DEF Send
<1>2. sent' \in 0..journey.steps BY BrowserParts DEF Send
<1>3. tab' \in [Tabs -> ViewType] BY BrowserParts DEF Send, Show
<1> QED BY <1>1, <1>2, <1>3, BrowserParts, BrowsesWhen DEF Send, cookies, Tokens, TokensOK

LEMMA ShowBrowses ==
  ASSUME STypeOK, Held, UNCHANGED <<journey, serverVars, cookies, sent>>,
         NEW t \in Tabs, NEW v \in ViewType, Show(t, v)
  PROVE  Browses
<1>1. UNCHANGED <<Account, Rows, History, locked, secret, ceremony, call>> BY DEF serverVars, Tokens
<1>2. tab' \in [Tabs -> ViewType] BY BrowserParts DEF Show
<1> QED BY <1>1, <1>2, StillMoves, BrowserParts, BrowsesWhen DEF cookies, TokensOK

LEMMA LeaveBrowses ==
  ASSUME STypeOK, Held, UNCHANGED journey, NEW t \in Tabs, NEW p \in Pages, Leave(t, p)
  PROVE  Browses
<1>1. Moves BY DeafMoves DEF Leave
<1>2. tab' \in [Tabs -> ViewType] BY BrowserParts, OpenedTyped DEF Leave, Show
<1>3. ceremony' \in [Tabs \cup Handlers ->
         [purpose : {"none", "login", "enroll", "passwordless"}, login : 0..MaxLogins]]
  BY BrowserParts, Numbers DEF Leave, TokensOK, NoCeremony
<1> QED BY <1>1, <1>2, <1>3, BrowserParts, BrowsesWhen DEF Leave, cookies

-----------------------------------------------------------------------------
(* What the pages show while a request is out. *)
LEMMA ViewTyped ==
  ASSUME STypeOK, NEW t \in Tabs
  PROVE  tab[t] \in ViewType
  BY DEF STypeOK, BrowserTypeOK

LEMMA BusyTyped ==
  ASSUME NEW v \in ViewType, NEW busy \in {"no", "work", "leave"}
  PROVE  [v EXCEPT !.busy = busy] \in ViewType
  BY DEF ViewType

LEMMA Names ==
  /\ {"password", "state", "passbegin", "passfinish", "logout", "me", "poll", "lockstatus", "totp",
      "recovery", "keybegin", "keyfinish", "etotpbegin", "etotpfinish", "ekeybegin", "ekeyfinish",
      "complete"} \subseteq Ops
  /\ {"right", "wrong", "none", "probe", "unlock"} \subseteq
         RecoveryCodes \cup {"right", "wrong", "none", "probe", "unlock"}
  BY DEF Ops, PendingOps, EnrollOps

(* login.tsx and the shell. *)
LEMMA SignInSteps ==
  ASSUME STypeOK, Held, UNCHANGED journey, NEW t \in Tabs,
         \/ ProbeLockout(t) \/ SubmitPassword(t) \/ PasskeySignIn(t) \/ CountdownEnds(t)
         \/ LoadApp(t) \/ Poll(t) \/ SignOut(t)
  PROVE  Browses
<1> DEFINE v == tab[t]
<1>1. v \in ViewType BY ViewTyped
<1> HIDE DEF v
<1> USE Names
<1>2. CASE ProbeLockout(t)
  <2>1. [v EXCEPT !.phase = "form"] \in ViewType BY <1>1, PhaseTyped, PhaseNames
  <2> QED BY <1>2, <2>1, SendBrowses DEF ProbeLockout, v
<1>3. CASE SubmitPassword(t)
  <2>1. [v EXCEPT !.busy = "work"] \in ViewType BY <1>1, BusyTyped
  <2> QED BY <1>3, <2>1, SendBrowses DEF SubmitPassword, v
<1>4. CASE PasskeySignIn(t)
  <2>1. [v EXCEPT !.keying = TRUE, !.won = FALSE] \in ViewType BY <1>1 DEF ViewType
  <2> QED BY <1>4, <2>1, SendBrowses DEF PasskeySignIn, v
<1>5. CASE CountdownEnds(t)
  <2>1. [v EXCEPT !.over = "zero"] \in ViewType BY <1>1 DEF ViewType
  <2>2. [v EXCEPT !.over = "off", !.busy = "no"] \in ViewType BY <1>1 DEF ViewType
  <2>3. CASE Send(t, "lockstatus", "unlock", [v EXCEPT !.over = "zero"])
    BY <2>1, <2>3, SendBrowses
  <2>4. CASE /\ Show(t, [v EXCEPT !.over = "off", !.busy = "no"])
             /\ UNCHANGED <<serverVars, cookies, sent>>
    BY <2>2, <2>4, ShowBrowses
  <2> QED BY <1>5, <2>3, <2>4 DEF CountdownEnds, v
<1>6. CASE LoadApp(t)
  <2>1. [v EXCEPT !.phase = "asked"] \in ViewType BY <1>1, PhaseTyped, PhaseNames
  <2> QED BY <1>6, <2>1, SendBrowses DEF LoadApp, v
<1>7. CASE Poll(t)
  BY <1>1, <1>7, SendBrowses DEF Poll, v
<1>8. CASE SignOut(t)
  <2>1. [v EXCEPT !.busy = "leave"] \in ViewType BY <1>1, BusyTyped
  <2> QED BY <1>8, <2>1, SendBrowses DEF SignOut, v
<1> QED BY <1>2, <1>3, <1>4, <1>5, <1>6, <1>7, <1>8

(* The passkey dialog. *)
LEMMA PromptSteps ==
  ASSUME STypeOK, Held, UNCHANGED journey, NEW t \in Tabs, ConfirmPrompt(t) \/ CancelPrompt(t)
  PROVE  Browses
<1> DEFINE v == tab[t]
           Challenges == [purpose : {"none", "login", "enroll", "passwordless"}, login : 0..MaxLogins]
<1>1. v \in ViewType BY ViewTyped
<1>2. ceremony \in [Tabs \cup Handlers -> Challenges] /\ NoCeremony \in Challenges
  BY BrowserParts, Numbers DEF TokensOK, NoCeremony
<1> HIDE DEF v, Challenges
<1>3. CASE ConfirmPrompt(t)
  <2>1. PICK h \in Handlers, arg \in {"right", "wrong"} :
          /\ call' = [call EXCEPT ![h] = Request(FinishOp(v), t, pendingCookie, sessionCookie, arg)]
          /\ ceremony' = [ceremony EXCEPT ![t] = NoCeremony,
                ![h] = IF v.page = "login" /\ keyCookie # t THEN NoCeremony ELSE ceremony[t]]
    BY <1>3 DEF ConfirmPrompt, v
  <2>2. FinishOp(v) \in Ops BY Names DEF FinishOp
  <2>3. Moves BY <2>1, <2>2, RequestMoves
  <2>4. ceremony[t] \in Challenges BY <1>2
  <2>5. ceremony' \in [Tabs \cup Handlers -> Challenges] BY <1>2, <2>1, <2>4
  <2>6. [v EXCEPT !.prompt = FALSE] \in ViewType BY <1>1 DEF ViewType
  <2>7. tab' \in [Tabs -> ViewType] BY <1>3, <2>6, BrowserParts DEF ConfirmPrompt, Show, v
  <2>8. sent' \in 0..journey.steps BY <1>3, BrowserParts DEF ConfirmPrompt
  <2> QED BY <1>3, <2>3, <2>5, <2>7, <2>8, BrowserParts, BrowsesWhen
          DEF ConfirmPrompt, cookies, Challenges
<1>4. CASE CancelPrompt(t)
  <2> DEFINE busy == IF v.page = "login" THEN v.busy ELSE "no"
  <2>1. busy \in {"no", "work", "leave"} BY <1>1 DEF ViewType
  <2> HIDE DEF busy
  <2>2. [v EXCEPT !.prompt = FALSE, !.keying = FALSE, !.busy = busy] \in ViewType
    BY <1>1, <2>1 DEF ViewType
  <2>3. tab' = [tab EXCEPT ![t] = [v EXCEPT !.prompt = FALSE, !.keying = FALSE, !.busy = busy]]
    BY <1>4 DEF CancelPrompt, Show, v, busy
  <2>4. tab' \in [Tabs -> ViewType] BY <2>2, <2>3, BrowserParts
  <2>5. ceremony' \in [Tabs \cup Handlers -> Challenges] BY <1>2, <1>4 DEF CancelPrompt
  <2> QED BY <1>4, <2>4, <2>5, StillMoves, BrowserParts, BrowsesWhen
          DEF CancelPrompt, cookies, Challenges
<1> QED BY <1>3, <1>4

(* mfa-verify.tsx *)
LEMMA VerifySteps ==
  ASSUME STypeOK, Held, UNCHANGED journey, NEW t \in Tabs,
         \/ LoadState(t) \/ SubmitTOTP(t) \/ SubmitRecovery(t) \/ UsePasskey(t) \/ Restart(t)
         \/ SuccessShown(t) \/ \E p \in Pages : Visit(t, p)
  PROVE  Browses
<1> DEFINE v == tab[t]
<1>1. v \in ViewType BY ViewTyped
<1> HIDE DEF v
<1> USE Names
<1>2. CASE LoadState(t)
  <2>1. [v EXCEPT !.phase = "asked"] \in ViewType BY <1>1, PhaseTyped, PhaseNames
  <2> QED BY <1>2, <2>1, SendBrowses DEF LoadState, v
<1>3. Working(t) \in ViewType BY <1>1, BusyTyped DEF Working, v
<1>4. CASE SubmitTOTP(t)
  BY <1>3, <1>4, SendBrowses DEF SubmitTOTP
<1>5. CASE SubmitRecovery(t)
  BY <1>3, <1>5, SendBrowses DEF SubmitRecovery
<1>6. CASE UsePasskey(t)
  BY <1>3, <1>6, SendBrowses DEF UsePasskey
<1>7. CASE Restart(t)
  <2>1. [v EXCEPT !.busy = "leave"] \in ViewType BY <1>1, BusyTyped
  <2> QED BY <1>7, <2>1, SendBrowses DEF Restart, v
<1>8. CASE SuccessShown(t) \/ \E p \in Pages : Visit(t, p)
  BY <1>8, LeaveBrowses DEF SuccessShown, Visit, Pages
<1> QED BY <1>2, <1>4, <1>5, <1>6, <1>7, <1>8

(* mfa-setup.tsx *)
LEMMA SetupSteps ==
  ASSUME STypeOK, Held, UNCHANGED journey, NEW t \in Tabs,
         \/ \E f \in Factors : ToggleFactor(t, f)
         \/ ContinueSetup(t) \/ BeginTOTP(t) \/ FinishTOTP(t) \/ StartPasskey(t) \/ BackToChoose(t)
         \/ CompleteSetup(t) \/ DismissRecovery(t)
  PROVE  Browses
<1> DEFINE v == tab[t]
<1>1. v \in ViewType BY ViewTyped
<1> HIDE DEF v
<1> USE Names
<1>2. ASSUME NEW f \in Factors, ToggleFactor(t, f) PROVE Browses
  <2> DEFINE picked == IF f \in v.picked THEN v.picked \ {f} ELSE v.picked \cup {f}
  <2>1. picked \in SUBSET (Factors \cup {"recovery"}) BY <1>1 DEF ViewType
  <2> HIDE DEF picked
  <2>2. [v EXCEPT !.picked = picked] \in ViewType BY <1>1, <2>1 DEF ViewType
  <2>3. Show(t, [v EXCEPT !.picked = picked]) BY <1>2 DEF ToggleFactor, Show, v, picked
  <2> QED BY <1>2, <2>2, <2>3, ShowBrowses DEF ToggleFactor
<1>3. CASE ContinueSetup(t)
  <2> DEFINE w == [v EXCEPT !.phase = NextPhase(v)]
  <2>1. w \in ViewType BY <1>1, NextPhaseTyped, PhaseTyped
  <2> HIDE DEF w
  <2>2. [w EXCEPT !.busy = "work"] \in ViewType BY <2>1, BusyTyped
  <2>3. CASE Send(t, "etotpbegin", "none", [w EXCEPT !.busy = "work"]) BY <2>2, <2>3, SendBrowses
  <2>4. CASE Show(t, w) /\ UNCHANGED <<serverVars, cookies, sent>> BY <2>1, <2>4, ShowBrowses
  <2> QED BY <1>3, <2>3, <2>4 DEF ContinueSetup, w, v
<1>4. Working(t) \in ViewType BY <1>1, BusyTyped DEF Working, v
<1>5. CASE BeginTOTP(t)
  BY <1>4, <1>5, SendBrowses DEF BeginTOTP
<1>6. CASE FinishTOTP(t)
  BY <1>4, <1>6, SendBrowses DEF FinishTOTP
<1>7. CASE StartPasskey(t)
  BY <1>4, <1>7, SendBrowses DEF StartPasskey
<1>8. CASE BackToChoose(t)
  <2>1. [v EXCEPT !.phase = "choose"] \in ViewType BY <1>1, PhaseTyped, PhaseNames
  <2> QED BY <1>8, <2>1, ShowBrowses DEF BackToChoose, v
<1>9. CASE CompleteSetup(t)
  BY <1>4, <1>9, SendBrowses DEF CompleteSetup
<1>10. CASE DismissRecovery(t)
  <2>1. [v EXCEPT !.won = TRUE] \in ViewType BY <1>1 DEF ViewType
  <2> QED BY <1>10, <2>1, ShowBrowses DEF DismissRecovery, v
<1> QED BY <1>2, <1>3, <1>5, <1>6, <1>7, <1>8, <1>9, <1>10

LEMMA PageSteps ==
  ASSUME STypeOK, Held, UNCHANGED journey, NEW t \in Tabs, PageStep(t)
  PROVE  Browses
  BY SignInSteps, PromptSteps, VerifySteps, SetupSteps DEF PageStep

(* The answers. *)
LEMMA AnswerSteps ==
  ASSUME STypeOK, Held, UNCHANGED journey, NEW h \in Handlers, Answer(h) \/ LoseAnswer(h)
  PROVE  Browses
<1> DEFINE Challenges == [purpose : {"none", "login", "enroll", "passwordless"}, login : 0..MaxLogins]
<1>1. call[h] \in CallType BY Typed
<1>2. ceremony \in [Tabs \cup Handlers -> Challenges] /\ NoCeremony \in Challenges
  BY BrowserParts, Numbers DEF TokensOK, NoCeremony
<1> HIDE DEF Challenges
<1>3. CASE LoseAnswer(h)
  <2>1. Moves BY <1>3, DoneMoves DEF LoseAnswer, Results
  <2> QED BY <1>2, <1>3, <2>1, BrowserParts, BrowsesWhen
          DEF LoseAnswer, Tokens, browserVars, cookies, Challenges
<1>4. CASE Answer(h)
  <2> DEFINE c == call[h]
             t == c.tab
             v == Heard(c, tab[t])
             leaves == c.heard /\ v.page # tab[t].page
  <2>1. /\ SetCookies(c) /\ tab' = IF c.heard THEN [tab EXCEPT ![t] = v] ELSE tab
        /\ call' = [g \in Handlers |-> IF g = h THEN Idle ELSE IF leaves THEN Deafened(t)[g] ELSE call[g]]
        /\ ceremony' = [ceremony EXCEPT ![h] = NoCeremony, ![t] = IF leaves THEN NoCeremony ELSE @]
        /\ UNCHANGED <<Account, Rows, secret, History, locked, sent>>
    BY <1>4 DEF Answer
  <2>2. c \in CallType /\ t \in Tabs \cup {NoTab} BY <1>1 DEF CallType
  <2>3. t \in Tabs => v \in ViewType BY <2>2, ViewTyped, HeardTyped
  <2> HIDE DEF c, t, v, leaves
  <2>4. tab' \in [Tabs -> ViewType] BY <2>1, <2>3, BrowserParts
  <2>5. ceremony' \in [Tabs \cup Handlers -> Challenges] BY <1>2, <2>1
  <2>6. Moves
    <3>1. Idle \in CallType /\ Idle.step \notin AtWork \cup {"insert"}
      BY Numbers DEF Idle, CallType, Ops, Steps, Results, AtWork
    <3>2. \A g \in Handlers : call'[g] \in {Idle, call[g], [call[g] EXCEPT !.heard = FALSE]}
      BY <2>1 DEF Deafened
    <3>3. \A g \in Handlers : [call[g] EXCEPT !.heard = FALSE] \in CallType BY Typed DEF CallType
    <3>4. call' \in [Handlers -> CallType] BY <2>1, <3>1, <3>2, <3>3, Typed
    <3>5. \A g \in Handlers :
             call'[g] = Idle \/ /\ call'[g].step = call[g].step /\ call'[g].login = call[g].login
                                /\ call'[g].result = call[g].result
      BY <3>2, Typed DEF CallType
    <3> QED BY <3>1, <3>4, <3>5 DEF Moves, Held, Follows
  <2>7. /\ pendingCookie' \in 0..MaxLogins /\ sessionCookie' \in 0..MaxLogins
        /\ keyCookie' \in Tabs \cup {NoTab}
    BY <2>1, <2>2, BrowserParts, Numbers DEF SetCookies, CallType
  <2> QED BY <2>1, <2>4, <2>5, <2>6, <2>7, BrowserParts, BrowsesWhen DEF Challenges
<1> QED BY <1>3, <1>4

-----------------------------------------------------------------------------
(* The recovery codes. *)
LEMMA UnspentKeeps ==
  ASSUME STypeOK, Unspent,
         \/ \E h \in Handlers : ServerStep(h) \/ HandlerFails(h)
         \/ Environment
         \/ UNCHANGED <<codes, spent>>
  PROVE  Unspent'
<1>1. CASE UNCHANGED <<codes, spent>> BY <1>1 DEF Unspent
<1>2. CASE codes' = {} /\ UNCHANGED spent BY <1>2 DEF Unspent
<1>3. ASSUME NEW h \in Handlers, RemoveRecovery(h) PROVE Unspent'
  <2>1. CASE UNCHANGED <<codes, spent>> BY <2>1, <1>1
  <2>2. CASE /\ call[h].arg \in codes /\ codes' = codes \ {call[h].arg}
             /\ spent' = [spent EXCEPT ![call[h].arg] = @ + 1]
    BY <2>2 DEF Unspent, STypeOK, ServerTypeOK
  <2> QED BY <1>3, <2>1, <2>2 DEF RemoveRecovery
<1>4. ASSUME NEW h \in Handlers, EnsureCodes(h) PROVE Unspent'
  BY <1>1, <1>4, SMTT(30) DEF EnsureCodes, Unspent
<1>5. ASSUME NEW h \in Handlers, ServerStep(h) \/ HandlerFails(h), ~RemoveRecovery(h), ~EnsureCodes(h)
      PROVE  UNCHANGED <<codes, spent>>
  BY <1>5 DEF ServerStep, HandlerFails, PasswordCheck, PasswordAccept, CreatePending, ReadState, Resolve,
     CheckTOTP, ReadRecovery, BeginCeremony, CheckPasskey, EnrollTOTPBegin, EnrollTOTPCheck,
     EnrollTOTPEnable, EnrollPasskeyFinish, CheckPolicy, FinishLogin, Mint, CountFailure, DropPending,
     PasswordlessBegin, PasswordlessFinish, Logout, ReadSession, ReadLock, Account, History
<1>6. CASE Environment
  BY <1>1, <1>2, <1>6
  DEF Environment, LockExpires, DisableAdmin, RevokeSessions, ResetMFA, RevokeRows, Account, History
<1> QED BY <1>1, <1>3, <1>4, <1>5, <1>6

-----------------------------------------------------------------------------
LEMMA InitKeeps == Init => IInv
<1> SUFFICES ASSUME Init PROVE IInv OBVIOUS
<1> USE Numbers
<1>1. LInit BY DEF Init
<1>2. ServerTypeOK
  <2>1. AccountOK BY <1>1 DEF LInit, AccountOK
  <2>2. RowsOK BY <1>1 DEF LInit, RowsOK, Kinds
  <2>3. TokensOK BY <1>1 DEF LInit, TokensOK, NoCeremony
  <2>4. HistoryOK BY <1>1 DEF LInit, HistoryOK
  <2>5. Idle \in CallType BY DEF Idle, CallType, Ops, Steps, Results
  <2> QED BY <1>1, <2>1, <2>2, <2>3, <2>4, <2>5, Groups DEF LInit
<1>3. BrowserTypeOK
  <2>1. tab \in [Tabs -> ViewType] BY PagesTyped DEF Init
  <2>2. sent \in 0..journey.steps BY JourneyAssumption DEF Init
  <2> QED BY <1>2, <2>1, <2>2 DEF Init, BrowserTypeOK, ServerTypeOK
<1>4. \A h \in Handlers : call[h].step = "none" BY <1>1 DEF LInit, Idle
<1>5. Held BY <1>4 DEF Held
<1>6. LoginInv
  BY <1>1, <1>4 DEF LInit, LoginInv, Numbered, MintedOnce, CutOff, AtWork, Kinds
<1>7. Unspent BY <1>1 DEF LInit, Unspent
<1> QED BY <1>2, <1>3, <1>5, <1>6, <1>7 DEF IInv, STypeOK

(* One step of the server, of time, or of the browser. *)
LEMMA ServerKeeps ==
  ASSUME STypeOK, Held, LoginInv, NEW h \in Handlers, ServerStep(h) \/ HandlerFails(h)
  PROVE  LoginInv' /\ TypedCalls
<1>1. CASE \/ PasswordCheck(h) \/ PasswordAccept(h) \/ ReadState(h)
           \/ CheckTOTP(h) \/ ReadRecovery(h) \/ RemoveRecovery(h) \/ BeginCeremony(h) \/ CheckPasskey(h)
           \/ EnrollTOTPBegin(h) \/ EnrollTOTPCheck(h) \/ EnrollTOTPEnable(h) \/ EnrollPasskeyFinish(h)
           \/ CheckPolicy(h) \/ EnsureCodes(h) \/ CountFailure(h)
           \/ PasswordlessBegin(h) \/ ReadLock(h) \/ HandlerFails(h)
  <2>1. Moves /\ SameRows BY <1>1, QuietSteps
  <2> QED BY <2>1, QuietKeeps DEF Moves, TypedCalls
<1> QED BY <1>1, CreateKeeps, ResolveKeeps, FinishKeeps, MintKeeps, DeleteKeeps, PasswordlessKeeps
    DEF ServerStep

LEMMA StepKeeps == IInv /\ [Next]_vars => IInv'
<1> SUFFICES ASSUME IInv, [Next]_vars PROVE IInv' OBVIOUS
<1> USE DEF IInv
<1>1. ASSUME Browses PROVE IInv'
  BY <1>1, QuietKeeps, UnspentKeeps DEF Browses, Moves
<1>2. ASSUME ServerTypeOK', TypedCalls, LoginInv', Unspent', UNCHANGED <<browserVars, journey>>
      PROVE  IInv'
  <2>1. BrowserTypeOK' BY <1>2 DEF STypeOK, BrowserTypeOK, browserVars, cookies
  <2> QED BY <1>2, <2>1 DEF STypeOK, TypedCalls
<1>3. ASSUME NEW t \in Tabs, PageStep(t), UNCHANGED journey PROVE IInv'
  BY <1>1, <1>3, PageSteps
<1>4. ASSUME NEW h \in Handlers, ServerStep(h) \/ HandlerFails(h), UNCHANGED <<browserVars, journey>>
      PROVE  IInv'
  BY <1>2, <1>4, ServerKeeps, ServerTypes, UnspentKeeps
<1>5. ASSUME NEW h \in Handlers, Answer(h) \/ LoseAnswer(h), UNCHANGED journey PROVE IInv'
  BY <1>1, <1>5, AnswerSteps
<1>6. CASE Environment /\ UNCHANGED <<browserVars, journey>>
  BY <1>2, <1>6, EnvironmentKeeps, EnvironmentTypes, UnspentKeeps
<1>7. CASE UNCHANGED vars
  <2>1. UNCHANGED <<Account, Rows, History, Tokens, locked, call, browserVars, journey>>
    BY <1>7 DEF vars, serverVars
  <2>2. Moves /\ SameRows /\ UNCHANGED <<codes, spent>>
    BY <2>1, StillMoves DEF SameRows, Account, Rows, History
  <2>3. ServerTypeOK' BY <2>1, <2>2, BrowserParts, SameGroups, Groups2 DEF Moves
  <2>4. TypedCalls BY <2>2 DEF Moves, TypedCalls
  <2> QED BY <1>2, <2>1, <2>2, <2>3, <2>4, QuietKeeps, UnspentKeeps DEF Moves
<1> QED BY <1>3, <1>4, <1>5, <1>6, <1>7 DEF Next

LEMMA Inductive == Spec => []IInv
  BY InitKeeps, StepKeeps, PTL DEF Spec

(* Every variable of the server and of the browser's tabs has its type,    *)
(* for any number of tabs, requests, logins and attempts.                  *)
THEOREM TypesHold == Spec => []STypeOK
<1>1. IInv => STypeOK BY DEF IInv
<1> QED BY Inductive, <1>1, PTL

(* A login attempt is worth one session at most, however many tabs prove   *)
(* however many factors for it: the row one of them deletes is the login.  *)
THEOREM LoginWorthOneSession == Spec => []OneSessionPerLogin
<1>1. IInv => OneSessionPerLogin BY DEF IInv, LoginInv, MintedOnce, OneSessionPerLogin
<1> QED BY Inductive, <1>1, PTL

(* A login whose pending row was dropped never becomes a session.          *)
THEOREM AbandonedNeverIn == Spec => []AbandonedStaysOut
<1>1. IInv => AbandonedStaysOut BY DEF IInv, LoginInv, MintedOnce, AbandonedStaysOut
<1> QED BY Inductive, <1>1, PTL

(* After a revocation no older login has a session but the late ones, and  *)
(* a disabled account has no session but those.                            *)
THEOREM RevokedNeverIn == Spec => []RevokedStaysOut
<1>1. IInv => RevokedStaysOut BY DEF IInv, LoginInv, CutOff, RevokedStaysOut
<1> QED BY Inductive, <1>1, PTL

(* A recovery code opens one login at most: who removes it, wins.          *)
THEOREM CodeOpensOnce == Spec => []RecoveryCodeOnce
<1>1. IInv => RecoveryCodeOnce BY DEF IInv, Unspent, RecoveryCodeOnce
<1> QED BY Inductive, <1>1, PTL

-----------------------------------------------------------------------------
(* One enrolment step at a time.  A tab hears the answers of the page it   *)
(* shows; on the setup page an enrolment request, or the passkey dialog    *)
(* between two of them, keeps the page busy.                               *)
OpsOf(page) ==
    CASE page = "login"  -> {"password", "lockstatus", "passbegin", "passfinish"}
      [] page = "verify" -> {"state", "logout"} \cup PendingOps
      [] page = "setup"  -> {"state", "logout"} \cup EnrollOps
      [] page = "app"    -> {"me", "poll", "logout"}

Awaits(t, h) == call[h].heard /\ call[h].tab = t
Enrols(t, h) == Awaits(t, h) /\ call[h].op \in EnrollOps

HearsItsPage(t) == \A h \in Handlers : Awaits(t, h) => call[h].op \in OpsOf(tab[t].page)

KeepsBusy(t) == tab[t].page = "setup" =>
    /\ tab[t].prompt => tab[t].busy # "no"
    /\ \A h \in Handlers : Enrols(t, h) =>
          /\ tab[t].busy # "no" /\ ~tab[t].prompt
          /\ \A g \in Handlers : Enrols(t, g) => g = h

(* The shell opens no passkey dialog. *)
NoDialog(t) == tab[t].page = "app" => ~tab[t].prompt

TabInv(t) == HearsItsPage(t) /\ KeepsBusy(t) /\ NoDialog(t)
TabsInv   == \A t \in Tabs : TabInv(t)

(* Nobody starts to listen for tab t. *)
NoNews(t) == \A h \in Handlers : Awaits(t, h)' => Awaits(t, h) /\ call'[h].op = call[h].op

(* A tab that is not touched keeps what is known of it. *)
LEMMA UntouchedTab ==
  ASSUME NEW t \in Tabs, TabInv(t), NoNews(t), tab'[t] = tab[t]
  PROVE  TabInv(t)'
  BY DEF TabInv, HearsItsPage, KeepsBusy, NoDialog, NoNews, Enrols

(* So does one that shows something else of the same page. *)
LEMMA ShownTab ==
  ASSUME NEW t \in Tabs, TabInv(t), NoNews(t), tab'[t].page = tab[t].page,
         tab[t].page \in {"setup", "app"} => tab'[t].busy = tab[t].busy /\ tab'[t].prompt = tab[t].prompt
  PROVE  TabInv(t)'
  BY DEF TabInv, HearsItsPage, KeepsBusy, NoDialog, NoNews, Enrols

(* A page that was just loaded waits for nothing. *)
LEMMA LoadedTab ==
  ASSUME NEW t \in Tabs, \A h \in Handlers : ~Awaits(t, h)', ~tab'[t].prompt
  PROVE  TabInv(t)'
  BY DEF TabInv, HearsItsPage, KeepsBusy, NoDialog, Enrols

LEMMA NoIdleOp == \A page \in Pages : "idle" \notin OpsOf(page)
  BY DEF OpsOf, Pages, PendingOps, EnrollOps

(* A request that is sent from the page that will hear its answer. *)
LEMMA SentRequest ==
  ASSUME STypeOK, TabsInv, NEW t \in Tabs, NEW g \in Handlers, call[g].op = "idle",
         NEW r, r.tab = t, r.op \in OpsOf(tab[t].page), call' = [call EXCEPT ![g] = r],
         NEW v, tab' = [tab EXCEPT ![t] = v], v.page = tab[t].page,
         tab[t].page = "app" => v.prompt = tab[t].prompt,
         tab[t].page = "setup" =>
            \/ r.op \notin EnrollOps /\ v.prompt = tab[t].prompt /\ (v.busy = tab[t].busy \/ v.busy # "no")
            \/ /\ r.op \in EnrollOps /\ v.busy # "no" /\ ~v.prompt
               /\ \A h \in Handlers : ~Enrols(t, h)
  PROVE  TabsInv'
<1>1. call \in [Handlers -> CallType] /\ tab \in [Tabs -> ViewType] BY BrowserParts
<1>2. /\ call'[g] = r /\ \A h \in Handlers : h # g => call'[h] = call[h]
      /\ tab'[t] = v /\ \A u \in Tabs : u # t => tab'[u] = tab[u]
  BY <1>1
<1>3. TabInv(t) BY DEF TabsInv
<1>4. HearsItsPage(t)' BY <1>2, <1>3 DEF TabInv, HearsItsPage, Awaits
<1>5. \A h \in Handlers : h # g => (Enrols(t, h)' <=> Enrols(t, h)) BY <1>2 DEF Enrols, Awaits
<1>6. Enrols(t, g)' => r.op \in EnrollOps BY <1>2 DEF Enrols
<1>7. KeepsBusy(t)'
  <2>1. SUFFICES ASSUME v.page = "setup" PROVE KeepsBusy(t)' BY <1>2 DEF KeepsBusy
  <2>2. CASE r.op \notin EnrollOps
    BY <1>2, <1>3, <1>5, <1>6, <2>1, <2>2 DEF TabInv, KeepsBusy
  <2>3. CASE r.op \in EnrollOps
    BY <1>2, <1>5, <2>1, <2>3 DEF KeepsBusy
  <2> QED BY <2>2, <2>3
<1>9. NoDialog(t)' BY <1>2, <1>3 DEF TabInv, NoDialog
<1>8. ASSUME NEW u \in Tabs, u # t PROVE TabInv(u)'
  <2>1. NoNews(u) BY <1>2, <1>8 DEF NoNews, Awaits
  <2> QED BY <1>2, <1>8, <2>1, UntouchedTab DEF TabsInv
<1> QED BY <1>3, <1>4, <1>7, <1>8, <1>9 DEF TabsInv, TabInv

(* Nothing a handler does moves a request to another tab or operation. *)
SameEars == \A h \in Handlers : /\ call'[h].op = call[h].op /\ call'[h].tab = call[h].tab
                                /\ call'[h].heard = call[h].heard

LEMMA HandlerMoves ==
  ASSUME STypeOK, NEW h \in Handlers, NEW result, NEW step, NEW seen, NEW login,
         \/ Done(h, result) \/ Goto(h, step) \/ Report(h, result, seen) \/ Serve(h, step, login)
  PROVE  SameEars
<1> USE Typed DEF SameEars, CallType
<1>1. CASE Done(h, result) BY <1>1 DEF Done
<1>2. CASE Goto(h, step) BY <1>2 DEF Goto
<1>3. CASE Report(h, result, seen) BY <1>3 DEF Report
<1>4. CASE Serve(h, step, login) BY <1>4 DEF Serve
<1> QED BY <1>1, <1>2, <1>3, <1>4

LEMMA ServerEars ==
  ASSUME STypeOK, NEW h \in Handlers, ServerStep(h) \/ HandlerFails(h)
  PROVE  SameEars
<1> DEFINE ByDone   == \E result : Done(h, result)
           ByGoto   == \E step : Goto(h, step)
           ByReport == \E result, seen : Report(h, result, seen)
           ByServe  == \E step, login : Serve(h, step, login)
<1>1. ByDone \/ ByGoto \/ ByReport \/ ByServe => SameEars BY HandlerMoves
<1>2. /\ \A result : Done(h, result) => ByDone
      /\ \A step : Goto(h, step) => ByGoto
      /\ \A result, seen : Report(h, result, seen) => ByReport
      /\ \A step, login : Serve(h, step, login) => ByServe
  OBVIOUS
<1> HIDE DEF ByDone, ByGoto, ByReport, ByServe
<1>3. CASE PasswordAccept(h)
  <2>1. CASE Done(h, "error") BY <1>1, <1>2, <2>1
  <2>2. CASE call' = [call EXCEPT ![h] = [@ EXCEPT !.step = "insert",
                         !.result = IF Satisfied(factors) THEN "verify" ELSE "enroll"]]
    BY <2>2, Typed DEF SameEars, CallType
  <2> QED BY <1>3, <2>1, <2>2 DEF PasswordAccept
<1>4. CASE PasswordCheck(h) BY <1>1, <1>2, <1>4 DEF PasswordCheck, RecordFailure
<1>5. CASE CreatePending(h) \/ ReadState(h) \/ Resolve(h)
  BY <1>1, <1>2, <1>5 DEF CreatePending, ReadState, Resolve
<1>6. CASE CheckTOTP(h) \/ ReadRecovery(h) \/ RemoveRecovery(h) \/ BeginCeremony(h) \/ CheckPasskey(h)
  BY <1>1, <1>2, <1>6 DEF CheckTOTP, ReadRecovery, RemoveRecovery, BeginCeremony, CheckPasskey
<1>7. CASE \/ EnrollTOTPBegin(h) \/ EnrollTOTPCheck(h) \/ EnrollTOTPEnable(h)
           \/ EnrollPasskeyFinish(h) \/ CheckPolicy(h) \/ EnsureCodes(h)
  BY <1>1, <1>2, <1>7 DEF EnrollTOTPBegin, EnrollTOTPCheck, EnrollTOTPEnable, EnrollPasskeyFinish,
     CheckPolicy, EnsureCodes
<1>8. CASE FinishLogin(h) \/ Mint(h) \/ CountFailure(h) \/ DropPending(h)
  BY <1>1, <1>2, <1>8 DEF FinishLogin, Mint, CountFailure, RecordFailure, DropPending
<1>9. CASE PasswordlessBegin(h) BY <1>1, <1>2, <1>9 DEF PasswordlessBegin
<1>10. CASE PasswordlessFinish(h) BY <1>1, <1>2, <1>10 DEF PasswordlessFinish, RecordFailure
<1>11. CASE Logout(h) BY <1>1, <1>2, <1>11 DEF Logout
<1>13. CASE ReadSession(h) BY <1>1, <1>2, <1>13 DEF ReadSession
<1>12. CASE ReadLock(h) \/ HandlerFails(h) BY <1>1, <1>2, <1>12 DEF ReadLock, HandlerFails
<1> QED BY <1>3, <1>4, <1>5, <1>6, <1>7, <1>8, <1>9, <1>10, <1>11, <1>12, <1>13 DEF ServerStep

(* A step after which every tab listens for what it did before. *)
LEMMA SameEarsKeep ==
  ASSUME TabsInv, SameEars \/ UNCHANGED call, UNCHANGED tab
  PROVE  TabsInv'
<1> SUFFICES ASSUME NEW t \in Tabs PROVE TabInv(t)' BY DEF TabsInv
<1>1. NoNews(t) BY DEF SameEars, NoNews, Awaits
<1> QED BY <1>1, UntouchedTab DEF TabsInv

(* The page shows something else. *)
LEMMA ShowKeeps ==
  ASSUME STypeOK, TabsInv, NEW t \in Tabs, NEW v, tab' = [tab EXCEPT ![t] = v], UNCHANGED call,
         v.page = tab[t].page,
         tab[t].page \in {"setup", "app"} => v.busy = tab[t].busy /\ v.prompt = tab[t].prompt
  PROVE  TabsInv'
<1>1. tab \in [Tabs -> ViewType] BY BrowserParts
<1>2. \A u \in Tabs : NoNews(u) BY DEF NoNews, Awaits
<1>3. tab'[t] = v /\ \A u \in Tabs : u # t => tab'[u] = tab[u] BY <1>1
<1>4. TabInv(t)' BY <1>2, <1>3, ShownTab DEF TabsInv
<1>5. \A u \in Tabs : u # t => TabInv(u)' BY <1>2, <1>3, UntouchedTab DEF TabsInv
<1> QED BY <1>4, <1>5 DEF TabsInv

(* A tab that leaves its page is deaf to what it sent from there. *)
LEMMA DeafEars ==
  ASSUME STypeOK, TabsInv, NEW t, NEW d, d = Deafened(t)
  PROVE  /\ \A h \in Handlers : /\ d[h].op = call[h].op /\ d[h].tab = call[h].tab
                                /\ d[h].heard => call[h].heard
         /\ t \in Tabs => \A h \in Handlers : ~(d[h].heard /\ d[h].tab = t)
<1>1. \A h \in Handlers : call[h] \in CallType BY Typed
<1>2. \A h \in Handlers :
         d[h] = IF call[h].tab = t /\ call[h].op # "idle" THEN [call[h] EXCEPT !.heard = FALSE] ELSE call[h]
  BY DEF Deafened
<1>3. \A h \in Handlers : /\ d[h].op = call[h].op /\ d[h].tab = call[h].tab
                          /\ d[h].heard => call[h].heard
  BY <1>1, <1>2 DEF CallType
<1>4. ASSUME t \in Tabs, NEW h \in Handlers, d[h].heard, d[h].tab = t PROVE FALSE
  <2>1. Awaits(t, h) BY <1>3, <1>4 DEF Awaits
  <2>2. call[h].op \in OpsOf(tab[t].page) BY <1>4, <2>1 DEF TabsInv, TabInv, HearsItsPage
  <2>3. tab[t].page \in Pages BY <1>4, BrowserParts DEF ViewType
  <2>4. call[h].op # "idle" BY <2>2, <2>3, NoIdleOp
  <2>5. ~d[h].heard BY <1>1, <1>2, <2>1, <2>4 DEF Awaits, CallType
  <2> QED BY <1>4, <2>5
<1> QED BY <1>3, <1>4

LEMMA LeaveKeeps ==
  ASSUME STypeOK, TabsInv, NEW t \in Tabs, NEW p \in Pages, Leave(t, p)
  PROVE  TabsInv'
<1>1. tab \in [Tabs -> ViewType] BY BrowserParts
<1>2. call' = Deafened(t) /\ tab' = [tab EXCEPT ![t] = Opened(p)] BY DEF Leave, Show
<1>3. ~Opened(p).prompt
  <2>1. \E v \in {LoginPage, VerifyPage, SetupPage, AppPage} : v.page = p
    BY DEF Pages, LoginPage, VerifyPage, SetupPage, AppPage, Blank
  <2>2. Opened(p) \in {LoginPage, VerifyPage, SetupPage, AppPage} BY <2>1 DEF Opened
  <2> QED BY <2>2 DEF LoginPage, VerifyPage, SetupPage, AppPage, Blank
<1>4. tab'[t] = Opened(p) /\ \A u \in Tabs : u # t => tab'[u] = tab[u] BY <1>1, <1>2
<1>5. TabInv(t)' BY <1>2, <1>3, <1>4, DeafEars, LoadedTab DEF Awaits
<1>6. \A u \in Tabs : NoNews(u) BY <1>2, DeafEars DEF NoNews, Awaits
<1>7. \A u \in Tabs : u # t => TabInv(u)' BY <1>4, <1>6, UntouchedTab DEF TabsInv
<1> QED BY <1>5, <1>7 DEF TabsInv

(* What a page sends. *)
LEMMA SendKeeps ==
  ASSUME STypeOK, TabsInv, NEW t \in Tabs, NEW op, NEW arg, NEW v, Send(t, op, arg, v),
         op \in OpsOf(tab[t].page), v.page = tab[t].page, v.prompt = tab[t].prompt,
         tab[t].page = "setup" =>
            /\ (v.busy = tab[t].busy \/ v.busy # "no")
            /\ op \in EnrollOps => tab[t].busy = "no" /\ v.busy # "no"
  PROVE  TabsInv'
<1>1. PICK g \in Handlers :
        /\ call[g].op = "idle"
        /\ call' = [call EXCEPT ![g] = Request(op, t, pendingCookie, sessionCookie, arg)]
  BY DEF Send
<1>2. PICK r : r = Request(op, t, pendingCookie, sessionCookie, arg) OBVIOUS
<1>3. r.tab = t /\ r.op = op BY <1>2 DEF Request
<1>4. tab' = [tab EXCEPT ![t] = v] BY DEF Send, Show
<1>5. tab[t].page = "setup" /\ tab[t].busy = "no" => ~tab[t].prompt /\ \A h \in Handlers : ~Enrols(t, h)
  BY DEF TabsInv, TabInv, KeepsBusy
<1>6. call' = [call EXCEPT ![g] = r] BY <1>1, <1>2
<1>7. tab[t].page = "setup" =>
        \/ r.op \notin EnrollOps /\ v.prompt = tab[t].prompt /\ (v.busy = tab[t].busy \/ v.busy # "no")
        \/ /\ r.op \in EnrollOps /\ v.busy # "no" /\ ~v.prompt
           /\ \A h \in Handlers : ~Enrols(t, h)
  BY <1>3, <1>5
<1>8. r.op \in OpsOf(tab[t].page) /\ call[g].op = "idle" BY <1>1, <1>3
<1>9. v.page = tab[t].page /\ (tab[t].page = "app" => v.prompt = tab[t].prompt) OBVIOUS
<1> QED BY <1>3, <1>4, <1>6, <1>7, <1>8, <1>9, SentRequest

(* What each page may send. *)
LEMMA PageOps ==
  /\ OpsOf("login") = {"password", "lockstatus", "passbegin", "passfinish"}
  /\ OpsOf("verify") = {"state", "logout", "totp", "recovery", "keybegin", "keyfinish"}
  /\ OpsOf("setup") = {"state", "logout", "etotpbegin", "etotpfinish", "ekeybegin", "ekeyfinish", "complete"}
  /\ OpsOf("app") = {"me", "poll", "logout"}
  /\ EnrollOps = {"etotpbegin", "etotpfinish", "ekeybegin", "ekeyfinish", "complete"}
  BY DEF OpsOf, PendingOps, EnrollOps

(* login.tsx, mfa-verify.tsx and the shell, and the ways off a page. *)
LEMMA OtherPagesKeep ==
  ASSUME STypeOK, TabsInv, NEW t \in Tabs,
         \/ ProbeLockout(t) \/ SubmitPassword(t) \/ PasskeySignIn(t) \/ CountdownEnds(t)
         \/ SubmitTOTP(t) \/ SubmitRecovery(t) \/ UsePasskey(t)
         \/ LoadApp(t) \/ Poll(t) \/ SignOut(t)
  PROVE  TabsInv'
<1> DEFINE v == tab[t]
<1>1. v \in ViewType BY ViewTyped
<1> HIDE DEF v
<1> USE PageOps DEF On
<1>2. \A x \in Phases : LET w == [v EXCEPT !.phase = x] IN w.page = v.page /\ w.prompt = v.prompt
  BY <1>1 DEF ViewType
<1>3. \A x : LET w == [v EXCEPT !.busy = x] IN w.page = v.page /\ w.prompt = v.prompt
  BY <1>1 DEF ViewType
<1>4. CASE ProbeLockout(t) BY <1>2, <1>4, PhaseNames, SendKeeps DEF ProbeLockout, v
<1>5. CASE SubmitPassword(t) BY <1>3, <1>5, SendKeeps DEF SubmitPassword, v
<1>6. CASE PasskeySignIn(t)
  <2>1. LET w == [v EXCEPT !.keying = TRUE, !.won = FALSE] IN w.page = v.page /\ w.prompt = v.prompt
    BY <1>1 DEF ViewType
  <2> QED BY <1>6, <2>1, SendKeeps DEF PasskeySignIn, v
<1>7. CASE CountdownEnds(t)
  <2>1. LET w == [v EXCEPT !.over = "zero"] IN w.page = v.page /\ w.prompt = v.prompt
    BY <1>1 DEF ViewType
  <2>2. [v EXCEPT !.over = "off", !.busy = "no"].page = v.page BY <1>1 DEF ViewType
  <2>3. CASE v.page = "login" /\ Send(t, "lockstatus", "unlock", [v EXCEPT !.over = "zero"])
    BY <2>1, <2>3, SendKeeps DEF v
  <2>4. CASE /\ v.page = "verify" /\ Show(t, [v EXCEPT !.over = "off", !.busy = "no"])
             /\ UNCHANGED serverVars
    BY <2>2, <2>4, ShowKeeps DEF Show, serverVars, v
  <2> QED BY <1>7, <2>3, <2>4 DEF CountdownEnds, v
<1>8. CASE SubmitTOTP(t) BY <1>3, <1>8, SendKeeps DEF SubmitTOTP, Working, v
<1>9. CASE SubmitRecovery(t) BY <1>3, <1>9, SendKeeps DEF SubmitRecovery, Working, v
<1>10. CASE UsePasskey(t) BY <1>3, <1>10, SendKeeps DEF UsePasskey, Working, v
<1>11. CASE LoadApp(t) BY <1>2, <1>11, PhaseNames, SendKeeps DEF LoadApp, v
<1>12. CASE Poll(t) BY <1>12, SendKeeps DEF Poll, v
<1>13. CASE SignOut(t) BY <1>3, <1>13, SendKeeps DEF SignOut, v
<1> QED BY <1>4, <1>5, <1>6, <1>7, <1>8, <1>9, <1>10, <1>11, <1>12, <1>13

(* The steps of both challenge pages, and of the setup page. *)
LEMMA SetupPageKeeps ==
  ASSUME STypeOK, TabsInv, NEW t \in Tabs,
         \/ LoadState(t) \/ Restart(t)
         \/ \E f \in Factors : ToggleFactor(t, f)
         \/ ContinueSetup(t) \/ BeginTOTP(t) \/ FinishTOTP(t) \/ StartPasskey(t) \/ BackToChoose(t)
         \/ CompleteSetup(t) \/ DismissRecovery(t)
  PROVE  TabsInv'
<1> DEFINE v == tab[t]
<1>1. v \in ViewType BY ViewTyped
<1> HIDE DEF v
<1> USE PageOps DEF On
<1>2. ASSUME NEW x
      PROVE  LET w == [v EXCEPT !.phase = x] IN w.page = v.page /\ w.busy = v.busy /\ w.prompt = v.prompt
  BY <1>1 DEF ViewType
<1>3. ASSUME NEW x
      PROVE  LET w == [v EXCEPT !.busy = x] IN w.page = v.page /\ w.busy = x /\ w.prompt = v.prompt
  BY <1>1 DEF ViewType
<1>14. LET w == Working(t) IN w.page = v.page /\ w.busy = "work" /\ w.prompt = v.prompt
  BY <1>3 DEF Working, v
<1>4. CASE LoadState(t) BY <1>2, <1>4, SendKeeps DEF LoadState, v
<1>5. CASE Restart(t)
  <2>1. PICK w : w = [v EXCEPT !.busy = "leave"] OBVIOUS
  <2>2. w.page = v.page /\ w.busy = "leave" /\ w.prompt = v.prompt BY <1>3, <2>1
  <2>3. Send(t, "logout", "none", w) /\ v.page \in {"verify", "setup"} BY <1>5, <2>1 DEF Restart, v
  <2>4. "logout" \in OpsOf(v.page) /\ "logout" \notin EnrollOps BY <2>3
  <2> QED BY <2>2, <2>3, <2>4, SendKeeps DEF v
<1>6. ASSUME NEW f \in Factors, ToggleFactor(t, f) PROVE TabsInv'
  <2> DEFINE picked == IF f \in v.picked THEN v.picked \ {f} ELSE v.picked \cup {f}
             w == [v EXCEPT !.picked = picked]
  <2>1. w.page = v.page /\ w.busy = v.busy /\ w.prompt = v.prompt BY <1>1 DEF ViewType
  <2>2. tab' = [tab EXCEPT ![t] = w] /\ UNCHANGED call
    BY <1>6 DEF ToggleFactor, Show, serverVars, v
  <2> QED BY <2>1, <2>2, ShowKeeps DEF v
<1>7. CASE ContinueSetup(t)
  <2> DEFINE w == [v EXCEPT !.phase = NextPhase(v)]
  <2>1. w.page = v.page /\ w.busy = v.busy /\ w.prompt = v.prompt BY <1>2
  <2>2. w \in ViewType BY <1>1, PhaseTyped, NextPhaseTyped
  <2> HIDE DEF w
  <2>3. LET x == [w EXCEPT !.busy = "work"] IN x.page = v.page /\ x.busy = "work" /\ x.prompt = v.prompt
    BY <2>1, <2>2 DEF ViewType
  <2>4. v.page = "setup" /\ v.busy = "no" BY <1>7 DEF ContinueSetup, MayContinue, Idling, v
  <2>5. CASE Send(t, "etotpbegin", "none", [w EXCEPT !.busy = "work"])
    BY <2>3, <2>4, <2>5, SendKeeps DEF v
  <2>6. CASE Show(t, w) /\ UNCHANGED serverVars
    BY <2>1, <2>6, ShowKeeps DEF Show, serverVars, v
  <2> QED BY <1>7, <2>5, <2>6 DEF ContinueSetup, w, v
<1>8. CASE BeginTOTP(t)
  <2>1. v.page = "setup" /\ v.busy = "no" BY <1>8 DEF BeginTOTP, MayBeginTOTP, Idling, v
  <2> QED BY <1>14, <1>8, <2>1, SendKeeps DEF BeginTOTP, v
<1>9. CASE FinishTOTP(t)
  <2>1. v.page = "setup" /\ v.busy = "no" BY <1>9 DEF FinishTOTP, MayFinishTOTP, Idling, v
  <2> QED BY <1>14, <1>9, <2>1, SendKeeps DEF FinishTOTP, v
<1>10. CASE StartPasskey(t)
  <2>1. v.page = "setup" /\ v.busy = "no" BY <1>10 DEF StartPasskey, MayStartPasskey, Idling, v
  <2> QED BY <1>14, <1>10, <2>1, SendKeeps DEF StartPasskey, v
<1>11. CASE BackToChoose(t) BY <1>2, <1>11, ShowKeeps DEF BackToChoose, Show, serverVars, v
<1>12. CASE CompleteSetup(t)
  <2>1. v.page = "setup" /\ v.busy = "no" BY <1>12 DEF CompleteSetup, MayComplete, Idling, v
  <2> QED BY <1>14, <1>12, <2>1, SendKeeps DEF CompleteSetup, v
<1>13. CASE DismissRecovery(t)
  <2>1. LET w == [v EXCEPT !.won = TRUE] IN w.page = v.page /\ w.busy = v.busy /\ w.prompt = v.prompt
    BY <1>1 DEF ViewType
  <2> QED BY <1>13, <2>1, ShowKeeps DEF DismissRecovery, Show, serverVars, v
<1> QED BY <1>4, <1>5, <1>6, <1>7, <1>8, <1>9, <1>10, <1>11, <1>12, <1>13

(* The passkey dialog: it is open only between two enrolment requests. *)
LEMMA PromptKeeps ==
  ASSUME STypeOK, TabsInv, NEW t \in Tabs, ConfirmPrompt(t) \/ CancelPrompt(t)
  PROVE  TabsInv'
<1> DEFINE v == tab[t]
<1>1. v \in ViewType /\ tab \in [Tabs -> ViewType] BY ViewTyped, BrowserParts
<1> HIDE DEF v
<1> USE PageOps
<1>2. v.prompt /\ v.page = "setup" => v.busy # "no" /\ \A h \in Handlers : ~Enrols(t, h)
  BY DEF TabsInv, TabInv, KeepsBusy, v
<1>3. CASE ConfirmPrompt(t)
  <2>6. PICK w : w = [v EXCEPT !.prompt = FALSE] OBVIOUS
  <2>1. v.prompt /\ tab' = [tab EXCEPT ![t] = w] BY <1>3, <2>6 DEF ConfirmPrompt, Show, v
  <2>9. PICK g \in Handlers, arg \in {"right", "wrong"} :
          /\ call[g].op = "idle"
          /\ call' = [call EXCEPT ![g] = Request(FinishOp(v), t, pendingCookie, sessionCookie, arg)]
    BY <1>3 DEF ConfirmPrompt, v
  <2>2. PICK r : call[g].op = "idle" /\ r.tab = t /\ r.op = FinishOp(v) /\ call' = [call EXCEPT ![g] = r]
    <3>1. LET r == Request(FinishOp(v), t, pendingCookie, sessionCookie, arg) IN
            r.tab = t /\ r.op = FinishOp(v)
      BY DEF Request
    <3> QED BY <2>9, <3>1
  <2>3. w.page = v.page /\ w.busy = v.busy /\ ~w.prompt BY <1>1, <2>6 DEF ViewType
  <2>4. v.page # "app" BY <2>1 DEF TabsInv, TabInv, NoDialog, v
  <2>5. FinishOp(v) \in OpsOf(v.page) /\ (v.page = "setup" => FinishOp(v) \in EnrollOps)
    BY <1>1, <2>4 DEF FinishOp, ViewType, Pages
  <2>7. r.op \in OpsOf(v.page) /\ (v.page = "setup" => r.op \in EnrollOps) BY <2>2, <2>5
  <2>8. v.page = "setup" => w.busy # "no" /\ \A h \in Handlers : ~Enrols(t, h) BY <1>2, <2>1, <2>3
  <2> QED BY <2>1, <2>2, <2>3, <2>4, <2>7, <2>8, SentRequest DEF v
<1>4. CASE CancelPrompt(t)
  <2> DEFINE busy == IF v.page = "login" THEN v.busy ELSE "no"
             w == [v EXCEPT !.prompt = FALSE, !.keying = FALSE, !.busy = busy]
  <2>1. v.prompt /\ tab' = [tab EXCEPT ![t] = w] /\ UNCHANGED call
    BY <1>4 DEF CancelPrompt, Show, v
  <2>2. w.page = v.page /\ ~w.prompt BY <1>1 DEF ViewType
  <2> HIDE DEF w
  <2>3. tab'[t] = w /\ \A u \in Tabs : u # t => tab'[u] = tab[u] BY <1>1, <2>1
  <2>4. \A u \in Tabs : NoNews(u) BY <2>1 DEF NoNews, Awaits
  <2>5. \A h \in Handlers : Enrols(t, h)' <=> Enrols(t, h) BY <2>1 DEF Enrols, Awaits
  <2>6. HearsItsPage(t)' BY <2>2, <2>3, <2>4 DEF v, TabsInv, TabInv, HearsItsPage, NoNews
  <2>7. KeepsBusy(t)' BY <1>2, <2>1, <2>2, <2>3, <2>5 DEF KeepsBusy
  <2>8. \A u \in Tabs : u # t => TabInv(u)' BY <2>3, <2>4, UntouchedTab DEF TabsInv
  <2>9. NoDialog(t)' BY <2>2, <2>3 DEF NoDialog
  <2> QED BY <2>6, <2>7, <2>8, <2>9 DEF TabsInv, TabInv
<1> QED BY <1>3, <1>4

-----------------------------------------------------------------------------
(* What the page shows that heard an answer. *)
Shows(c, v, w) ==
    /\ w.page # v.page => ~w.prompt
    /\ w.page = "app" /\ v.page = "app" => w.prompt = v.prompt
    /\ w.page = "setup" /\ v.page = "setup" =>
          \/ c.op = "state" /\ w.busy = v.busy /\ w.prompt = v.prompt
          \/ c.op \in EnrollOps /\ (w.prompt => v.prompt \/ w.busy = v.busy)

LEMMA NewPages ==
  /\ LoginPage.page = "login" /\ ~LoginPage.prompt
  /\ VerifyPage.page = "verify" /\ ~VerifyPage.prompt
  /\ SetupPage.page = "setup" /\ ~SetupPage.prompt
  /\ AppPage.page = "app" /\ ~AppPage.prompt
  BY DEF LoginPage, VerifyPage, SetupPage, AppPage, Blank

LEMMA LoginShows ==
  ASSUME NEW c \in CallType, NEW v \in ViewType, v.page = "login", c.op \in OpsOf("login")
  PROVE  Shows(c, v, Heard(c, v))
<1> USE NewPages DEF Shows
<1>1. Locked(v).page = "login" /\ Locked(v) \in ViewType BY LockedTyped DEF Locked, ViewType
<1>2. CASE c.op = "password"
  <2>1. [Locked(v) EXCEPT !.busy = "no"].page = "login" BY <1>1 DEF ViewType
  <2>2. [v EXCEPT !.busy = "no", !.won = FALSE].page = "login" BY DEF ViewType
  <2>3. Shows(c, v, PasswordAnswered(c, v)) BY <2>1, <2>2 DEF PasswordAnswered
  <2> QED BY <1>2, <2>3 DEF Heard, PendingOps
<1>3. CASE c.op = "lockstatus"
  <2>1. [v EXCEPT !.over = "off", !.busy = "no"].page = "login" BY DEF ViewType
  <2>2. LockoutAnswered(c, v).page = "login" BY <1>1, <2>1 DEF LockoutAnswered
  <2> QED BY <1>3, <2>2 DEF Heard, PendingOps
<1>4. CASE c.op \in {"passbegin", "passfinish"}
  <2>1. [v EXCEPT !.prompt = TRUE].page = "login" BY DEF ViewType
  <2>2. [Locked(v) EXCEPT !.keying = FALSE].page = "login" BY <1>1 DEF ViewType
  <2>3. \A b : [v EXCEPT !.keying = FALSE, !.won = b].page = "login" BY DEF ViewType
  <2>4. PasskeyAnswered(c, v).page = "login" BY <2>1, <2>2, <2>3 DEF PasskeyAnswered
  <2>5. Heard(c, v) = PasskeyAnswered(c, v) BY <1>4 DEF Heard, PendingOps
  <2> QED BY <2>4, <2>5
<1> QED BY <1>2, <1>3, <1>4, PageOps

LEMMA VerifyShows ==
  ASSUME NEW c \in CallType, NEW v \in ViewType, v.page = "verify", c.op \in OpsOf("verify")
  PROVE  Shows(c, v, Heard(c, v))
<1> USE NewPages DEF Shows
<1>1. CASE c.op = "state"
  <2>1. \A x, y : [v EXCEPT !.phase = x, !.offered = y].page = "verify" BY DEF ViewType
  <2>2. \A x : [v EXCEPT !.phase = x].page = "verify" BY DEF ViewType
  <2>3. VerifyStateAnswered(c, v).page = "verify" BY <2>1, <2>2 DEF VerifyStateAnswered
  <2> QED BY <1>1, <2>3 DEF Heard, PendingOps
<1>2. CASE c.op = "logout"
  <2>1. Heard(c, v) = LoginPage BY <1>2 DEF Heard, PendingOps
  <2> QED BY <2>1
<1>3. CASE c.op \in PendingOps
  <2>1. [v EXCEPT !.prompt = TRUE].page = "verify" BY DEF ViewType
  <2>2. \A x, y, z : [v EXCEPT !.busy = "no", !.won = x, !.phase = y, !.over = z].page = "verify"
    BY DEF ViewType
  <2>3. FactorAnswered(c, v).page = "verify" BY <2>1, <2>2 DEF FactorAnswered
  <2>4. Heard(c, v) = FactorAnswered(c, v) BY <1>3 DEF Heard, PendingOps
  <2> QED BY <2>3, <2>4
<1> QED BY <1>1, <1>2, <1>3 DEF OpsOf

LEMMA AppShows ==
  ASSUME NEW c \in CallType, NEW v \in ViewType, v.page = "app", c.op \in OpsOf("app")
  PROVE  Shows(c, v, Heard(c, v))
<1>1. \A x : LET w == [v EXCEPT !.phase = x] IN w.page = "app" /\ w.prompt = v.prompt BY DEF ViewType
<1>2. CASE c.op = "logout"
  <2>1. Heard(c, v) = LoginPage BY <1>2 DEF Heard, PendingOps
  <2> QED BY <2>1, NewPages DEF Shows
<1>3. CASE c.op \in {"me", "poll"}
  <2>1. Heard(c, v) = AppAnswered(c, v) BY <1>3 DEF Heard, PendingOps
  <2>2. AppAnswered(c, v) = LoginPage \/ (AppAnswered(c, v).page = "app" /\ AppAnswered(c, v).prompt = v.prompt)
    BY <1>1 DEF AppAnswered
  <2> QED BY <2>1, <2>2, NewPages DEF Shows
<1> QED BY <1>2, <1>3, PageOps

LEMMA SetupShows ==
  ASSUME NEW c \in CallType, NEW v \in ViewType, v.page = "setup", c.op \in OpsOf("setup")
  PROVE  Shows(c, v, Heard(c, v))
<1> DEFINE Stays(w) == w.page = "setup" /\ (w.prompt => v.prompt \/ w.busy = v.busy)
<1>1. CASE c.op = "state"
  <2>1. Heard(c, v) = SetupStateAnswered(c, v) BY <1>1 DEF Heard, PendingOps
  <2>2. \A x : LET w == [v EXCEPT !.phase = x] IN
          w.page = "setup" /\ w.busy = v.busy /\ w.prompt = v.prompt
    BY DEF ViewType
  <2>3. \A x, y, z : LET w == [v EXCEPT !.phase = x, !.offered = y, !.picked = z] IN
          w.page = "setup" /\ w.busy = v.busy /\ w.prompt = v.prompt
    BY DEF ViewType
  <2>4. LET w == SetupStateAnswered(c, v) IN w.page = "setup" /\ w.busy = v.busy /\ w.prompt = v.prompt
    BY <2>2, <2>3 DEF SetupStateAnswered
  <2> QED BY <1>1, <2>1, <2>4 DEF Shows
<1>2. CASE c.op = "logout"
  <2>1. Heard(c, v) = LoginPage BY <1>2 DEF Heard, PendingOps
  <2> QED BY <2>1, NewPages DEF Shows
<1>3. CASE c.op \in EnrollOps
  <2>1. Idled(v) \in ViewType /\ Idled(v).page = "setup" /\ Idled(v).prompt = v.prompt
    BY IdledTyped DEF Idled, ViewType
  <2>2. ASSUME NEW x PROVE Stays([Idled(v) EXCEPT !.phase = x]) BY <2>1 DEF ViewType
  <2>3. ASSUME NEW x, NEW y PROVE Stays([Idled(v) EXCEPT !.phase = x, !.added = y]) BY <2>1 DEF ViewType
  <2>4. ASSUME NEW x, NEW y PROVE Stays([Idled(v) EXCEPT !.phase = x, !.picked = y]) BY <2>1 DEF ViewType
  <2>5. Stays([Idled(v) EXCEPT !.keyed = TRUE]) /\ Stays(Idled(v)) BY <2>1 DEF ViewType
  <2>6. Stays([v EXCEPT !.prompt = TRUE]) BY DEF ViewType
  <2>7. ASSUME NEW f PROVE Stays(Advanced(v, f))
    <3> DEFINE added == v.added \cup {f}
               w == [v EXCEPT !.added = added]
    <3>1. Idled(w).page = "setup" /\ Idled(w).prompt = v.prompt BY DEF Idled, ViewType
    <3>2. [Idled(w) EXCEPT !.phase = NextPhase(w)].page = "setup"
          /\ [Idled(w) EXCEPT !.phase = NextPhase(w)].prompt = v.prompt
      BY <3>1 DEF Idled, ViewType
    <3>3. Advanced(v, f) = [Idled(w) EXCEPT !.phase = NextPhase(w)] BY DEF Advanced
    <3> QED BY <3>2, <3>3
  <2> HIDE DEF Stays
  <2>8. Stays(BeginTOTPAnswered(c, v)) BY <2>2, <2>3, <2>5 DEF BeginTOTPAnswered
  <2>9. Stays(EnrollAnswered(c, v)) BY <2>2, <2>5, <2>6, <2>7 DEF EnrollAnswered
  <2>10. Stays(CompleteAnswered(c, v)) BY <2>2, <2>4, <2>5 DEF CompleteAnswered
  <2>11. Heard(c, v) \in {BeginTOTPAnswered(c, v), EnrollAnswered(c, v), CompleteAnswered(c, v)}
    BY <1>3 DEF Heard, EnrollOps, PendingOps
  <2>12. Stays(Heard(c, v)) BY <2>8, <2>9, <2>10, <2>11
  <2> QED BY <1>3, <2>12 DEF Stays, Shows
<1> QED BY <1>1, <1>2, <1>3 DEF OpsOf

LEMMA HeardShows ==
  ASSUME NEW c \in CallType, NEW v \in ViewType, c.op \in OpsOf(v.page)
  PROVE  Shows(c, v, Heard(c, v))
<1>1. v.page \in Pages BY DEF ViewType
<1> QED BY <1>1, LoginShows, VerifyShows, SetupShows, AppShows DEF Pages

(* An answer: its request is forgotten, and if the page is left with it so *)
(* is every other request of the tab.                                      *)
LEMMA AnswerTabs ==
  ASSUME STypeOK, TabsInv, NEW h \in Handlers, Answer(h)
  PROVE  TabsInv'
<1>1. PICK c, t, v, d : /\ c = call[h] /\ t = c.tab /\ v = Heard(c, tab[t]) /\ d = Deafened(t)
  OBVIOUS
<1>2. /\ tab' = IF c.heard THEN [tab EXCEPT ![t] = v] ELSE tab
      /\ call' = [g \in Handlers |-> IF g = h THEN Idle
                                     ELSE IF c.heard /\ v.page # tab[t].page THEN d[g] ELSE call[g]]
  BY <1>1 DEF Answer
<1>3. c \in CallType /\ tab \in [Tabs -> ViewType] BY <1>1, Typed, BrowserParts
<1>4. ~Idle.heard BY DEF Idle
<1>5. \A g \in Handlers : d[g].op = call[g].op /\ d[g].tab = call[g].tab /\ (d[g].heard => call[g].heard)
  BY <1>1, DeafEars
<1>6. \A g \in Handlers : call'[g].heard =>
         /\ g # h /\ call[g].heard
         /\ call'[g].op = call[g].op /\ call'[g].tab = call[g].tab
  BY <1>2, <1>4, <1>5
<1>7. \A u \in Tabs : NoNews(u) BY <1>6 DEF NoNews, Awaits
<1>8. ASSUME NEW u \in Tabs, ~(c.heard /\ u = t) PROVE TabInv(u)'
  <2>1. tab'[u] = tab[u] BY <1>2, <1>3, <1>8
  <2> QED BY <1>7, <2>1, UntouchedTab DEF TabsInv
<1>9. ASSUME t \in Tabs, c.heard PROVE TabInv(t)'
  <2>1. tab'[t] = v /\ tab[t] \in ViewType BY <1>2, <1>3, <1>9
  <2>2. Awaits(t, h) BY <1>1, <1>9 DEF Awaits
  <2>3. TabInv(t) BY <1>9 DEF TabsInv
  <2>4. c.op \in OpsOf(tab[t].page) BY <1>1, <2>2, <2>3 DEF TabInv, HearsItsPage
  <2>5. Shows(c, tab[t], v) BY <1>1, <1>3, <2>1, <2>4, HeardShows
  <2>6. CASE v.page # tab[t].page
    <3>1. \A g \in Handlers : ~(d[g].heard /\ d[g].tab = t) BY <1>1, <1>9, DeafEars
    <3>2. \A g \in Handlers : ~Awaits(t, g)' BY <1>2, <1>4, <1>9, <2>6, <3>1 DEF Awaits
    <3>3. ~v.prompt BY <2>5, <2>6 DEF Shows
    <3> QED BY <1>9, <2>1, <3>2, <3>3, LoadedTab
  <2>7. CASE v.page = tab[t].page /\ v.page # "setup"
    <3>1. HearsItsPage(t)' BY <1>7, <1>9, <2>1, <2>3, <2>7 DEF TabInv, HearsItsPage, NoNews
    <3>2. KeepsBusy(t)' BY <2>1, <2>7 DEF KeepsBusy
    <3>3. NoDialog(t)' BY <2>1, <2>3, <2>5, <2>7 DEF TabInv, NoDialog, Shows
    <3> QED BY <3>1, <3>2, <3>3 DEF TabInv
  <2>8. CASE v.page = "setup" /\ tab[t].page = "setup"
    <3>1. CASE c.op = "state" /\ v.busy = tab[t].busy /\ v.prompt = tab[t].prompt
      BY <1>7, <1>9, <2>1, <2>3, <2>8, <3>1, ShownTab
    <3>2. CASE c.op \in EnrollOps /\ (v.prompt => tab[t].prompt \/ v.busy = tab[t].busy)
      <4>1. Enrols(t, h) BY <1>1, <2>2, <3>2 DEF Enrols
      <4>2. /\ tab[t].busy # "no" /\ ~tab[t].prompt
            /\ \A g \in Handlers : Enrols(t, g) => g = h
        BY <2>3, <2>8, <4>1 DEF TabInv, KeepsBusy
      <4>3. \A g \in Handlers : ~Enrols(t, g)' BY <1>6, <4>2 DEF Enrols, Awaits
      <4>4. KeepsBusy(t)' BY <2>1, <3>2, <4>2, <4>3 DEF KeepsBusy
      <4>5. HearsItsPage(t)' BY <1>7, <1>9, <2>1, <2>3, <2>8 DEF TabInv, HearsItsPage, NoNews
      <4>6. NoDialog(t)' BY <2>1, <2>8 DEF NoDialog
      <4> QED BY <4>4, <4>5, <4>6 DEF TabInv
    <3> QED BY <2>5, <2>8, <3>1, <3>2 DEF Shows
  <2> QED BY <2>6, <2>7, <2>8
<1> QED BY <1>8, <1>9 DEF TabsInv

LEMMA PagesKeep ==
  ASSUME STypeOK, TabsInv, NEW t \in Tabs, PageStep(t)
  PROVE  TabsInv'
<1>1. CASE SuccessShown(t) \/ \E p \in Pages : Visit(t, p)
  BY <1>1, LeaveKeeps DEF SuccessShown, Visit, Pages
<1> QED BY <1>1, OtherPagesKeep, SetupPageKeeps, PromptKeeps DEF PageStep

LEMMA TabsKept == STypeOK /\ TabsInv /\ [Next]_vars => TabsInv'
<1> SUFFICES ASSUME STypeOK, TabsInv, [Next]_vars PROVE TabsInv' OBVIOUS
<1>1. ASSUME NEW t \in Tabs, PageStep(t) PROVE TabsInv' BY <1>1, PagesKeep
<1>2. ASSUME NEW h \in Handlers, ServerStep(h) \/ HandlerFails(h), UNCHANGED browserVars PROVE TabsInv'
  BY <1>2, ServerEars, SameEarsKeep DEF browserVars
<1>3. ASSUME NEW h \in Handlers, Answer(h) PROVE TabsInv' BY <1>3, AnswerTabs
<1>4. ASSUME NEW h \in Handlers, LoseAnswer(h) PROVE TabsInv'
  <2>1. SameEars BY <1>4, HandlerMoves DEF LoseAnswer
  <2> QED BY <1>4, <2>1, SameEarsKeep DEF LoseAnswer, browserVars
<1>5. CASE Environment /\ UNCHANGED browserVars
  <2>1. UNCHANGED call BY <1>5 DEF Environment, LockExpires, DisableAdmin, RevokeSessions, ResetMFA
  <2> QED BY <1>5, <2>1, SameEarsKeep DEF browserVars
<1>6. CASE UNCHANGED vars BY <1>6, SameEarsKeep DEF vars, serverVars, browserVars
<1> QED BY <1>1, <1>2, <1>3, <1>4, <1>5, <1>6 DEF Next

LEMMA TabsBegin == Init => TabsInv
<1> SUFFICES ASSUME Init, NEW t \in Tabs PROVE TabInv(t) BY DEF TabsInv
<1>1. \A h \in Handlers : ~Awaits(t, h) BY DEF Init, LInit, Idle, Awaits
<1>2. tab[t] \in {LoginPage, VerifyPage, SetupPage} BY DEF Init
<1> QED BY <1>1, <1>2, NewPages DEF TabInv, HearsItsPage, KeepsBusy, NoDialog, Enrols

LEMMA TabsHold == Spec => []TabsInv
<1>1. IInv => STypeOK BY DEF IInv
<1>2. Spec => []STypeOK BY Inductive, <1>1, PTL
<1> QED BY TabsBegin, TabsKept, <1>2, PTL DEF Spec

(* The setup page runs one enrolment step at a time: the key of the        *)
(* authenticator, its code, the passkey ceremony and the completion never  *)
(* race each other for one pending login, whatever the user presses and    *)
(* whichever answers are late or lost.                                     *)
THEOREM EnrolsOneStepAtATime == Spec => []OneEnrolStepAtATime
<1>1. TabsInv => OneEnrolStepAtATime
  <2> SUFFICES ASSUME TabsInv, NEW t \in Tabs, tab[t].page = "setup"
               PROVE  Cardinality({h \in Handlers : Enrols(t, h)}) <= 1
    BY DEF OneEnrolStepAtATime, Enrols, Awaits
  <2>1. \A g, h \in Handlers : Enrols(t, g) /\ Enrols(t, h) => g = h
    BY DEF TabsInv, TabInv, KeepsBusy
  <2>2. CASE {h \in Handlers : Enrols(t, h)} = {}
    BY <2>2, FS_EmptySet
  <2>3. CASE \E h \in Handlers : Enrols(t, h)
    <3>1. PICK h \in Handlers : {g \in Handlers : Enrols(t, g)} = {h} BY <2>1, <2>3
    <3> QED BY <3>1, FS_Singleton
  <2> QED BY <2>2, <2>3
<1> QED BY TabsHold, <1>1, PTL

=============================================================================
