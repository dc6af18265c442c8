--------------------------- MODULE ConsoleSendProofs ---------------------------
(***************************************************************************)
(* What the pages send, and what the dialog waits for, for every set of    *)
(* rows, requests and plans: a dialog that is busy is freed, a form sends  *)
(* one request at a time, a blocking rule names what is its own.           *)
(*                                                                         *)
(* Every step of a page is one of five kinds (PageStep): it leaves the     *)
(* requests as they are, forgets some, sends one, opens the dialog, or     *)
(* hears an answer.  The pages are gone through once to show that; the     *)
(* invariant is then kept by each kind, and by the steps of the dialog.    *)
(***************************************************************************)
EXTENDS ConsoleProofs

Exclusive == OneAtATime \cup SavesServer

(* Two requests that may not both be running for one page.                 *)
Rivals(p, q) == (p = q /\ p \in OneAtATime) \/ {p, q} \subseteq SavesServer

(* A rule that has what its scope needs, and nothing else.                 *)
OwnRule(d) ==
    /\ PeersOwned(d) /\ (d.user = None \/ d.dept = None)
    /\ d.scope = "user" => d.user # None
    /\ d.scope = "department" => d.dept # None
    /\ (d.group = None) # (d.text = None)

Fine(a) ==
    /\ a.op # "none"
    /\ a.op = "addrule" => OwnRule(a.arg)
    /\ a.op = "status" => a.arg.status \in Statuses

(* An action a page may ask for now.                                       *)
MayAsk(a) ==
    /\ ~Covered /\ Fine(a)
    /\ a.op \in OneAtATime => ~Pending(a.op)
    /\ a.op \in SavesServer => ~SavePending

-----------------------------------------------------------------------------
(* The kinds of steps.                                                     *)
GateStays == UNCHANGED <<plan, dialog, ceremony>>

Stays   == GateStays /\ (calls' = calls \/ \E h \in Slots : \E s : Answered(h, s))
Forgets == GateStays /\ \E ops : ops \cap Exclusive = {} /\ calls' = Unfollowed(ops)
Sends ==
    /\ GateStays
    /\ \E a, via, u :
          /\ MayAsk(a) /\ Send(a, via, "none", NoGate, u)
          /\ via = "plain" \/ (via = "probe" /\ page # "peers")
Opens ==
    /\ UNCHANGED <<plan, calls, ceremony>> /\ page # "peers"
    /\ \E a : MayAsk(a) /\ dialog' = [dialog EXCEPT !.gate = a]
Hears ==
    /\ UNCHANGED <<plan, ceremony>>
    /\ \E h \in Slots :
          /\ calls[h] # NoCall /\ calls' = [calls EXCEPT ![h] = NoCall]
          /\ dialog' = DialogAfter(h) \/ (page = "peers" /\ dialog' = dialog)

PageStep == Stays \/ Forgets \/ Sends \/ Opens \/ Hears

-----------------------------------------------------------------------------
(* The vocabulary of the pages.                                            *)
LEMMA DoStep == ASSUME NEW u, Do(u) PROVE PageStep
BY DEF Do, Local, gateVars, PageStep, Stays, GateStays

LEMMA ForgetStep ==
    ASSUME NEW u, NEW ops, Forget(u, ops), ops \cap Exclusive = {} PROVE PageStep
BY DEF Forget, gateVars, PageStep, Forgets, GateStays

LEMMA AskStep ==
    ASSUME NEW op, NEW t, NEW arg, NEW u, Ask(op, t, arg, u), MayAsk(Act(op, t, arg)) PROVE PageStep
<1>1. GateStays
  BY DEF Ask, Send, gateVars, GateStays
<1> QED BY <1>1 DEF Ask, PageStep, Sends

LEMMA GateStep == ASSUME NEW a, NEW u, Gate(a, u), MayAsk(a), page # "peers" PROVE PageStep
<1>1. CASE dialog' = [dialog EXCEPT !.gate = a] /\ Local(u) /\ UNCHANGED ceremony
  BY <1>1 DEF Local, PageStep, Opens
<1>2. CASE Send(a, "probe", "none", NoGate, u) /\ UNCHANGED gateVars
  <2>1. GateStays
    BY <1>2 DEF Send, gateVars, GateStays
  <2> QED BY <1>2, <2>1 DEF PageStep, Sends
<1> QED BY <1>1, <1>2 DEF Gate

LEMMA ConfirmStep == ASSUME NEW a, Confirm(a), MayAsk(a), page # "peers" PROVE PageStep
BY DEF Confirm, Local, PageStep, Opens

LEMMA AnsweredStep == ASSUME NEW h \in Slots, NEW s, Answered(h, s), GateStays PROVE PageStep
BY DEF PageStep, Stays

LEMMA CarryStep == ASSUME NEW h \in Slots, NEW lists, Carry(h, lists) PROVE PageStep
BY AnsweredStep DEF Carry, Commit, gateVars, GateStays

LEMMA DeclineStep == ASSUME NEW h \in Slots, Decline(h) PROVE PageStep
BY AnsweredStep DEF Decline, Reject, gateVars, GateStays

LEMMA AnswerStep == ASSUME NEW h \in Slots, NEW u, NEW keys, Answer(h, u, keys) PROVE PageStep
BY DEF Answer, Ready, Fails, Succeeds, PageStep, Hears

(* What may be asked for, by the name of the request.                      *)
LEMMA MayAskPlain ==
    ASSUME NEW op, NEW t, NEW arg, ~Covered, op \notin Exclusive \cup {"none", "addrule", "status"}
    PROVE  MayAsk(Act(op, t, arg))
BY DEF MayAsk, Fine, Act, Exclusive

LEMMA MayAskAlone ==
    ASSUME NEW op, NEW t, NEW arg, ~Covered, op \in OneAtATime, ~Pending(op)
    PROVE  MayAsk(Act(op, t, arg))
BY DEF MayAsk, Fine, Act, OneAtATime, SavesServer

LEMMA MayAskServer ==
    ASSUME NEW op, NEW t, NEW arg, ~Covered, op \in SavesServer, ~SavePending
    PROVE  MayAsk(Act(op, t, arg))
BY DEF MayAsk, Fine, Act, OneAtATime, SavesServer

-----------------------------------------------------------------------------
(* The pages.                                                              *)
LEMMA AdminsStep == ASSUME AdminsNext PROVE PageStep
<1> USE DoStep, AskStep, CarryStep, DeclineStep, GateStep, AnswerStep
<1>1. CASE InviteAdmin
  BY <1>1, MayAskAlone DEF InviteAdmin, On, OneAtATime
<1>2. ASSUME NEW t \in Targets, AdminRowAction(t) PROVE PageStep
  <2>1. PICK a \in AdminOffers(t) : Gate(a, ui) /\ ~Covered /\ page # "peers"
    BY <1>2 DEF AdminRowAction, On
  <2>2. MayAsk(a)
    BY <2>1 DEF AdminOffers, MayAsk, Fine, Act, OneAtATime, SavesServer, Statuses
  <2> QED BY <2>1, <2>2
<1>3. ASSUME NEW t \in Targets, BeginEmailEdit(t) \/ CommitEmailEdit(t) PROVE PageStep
  BY <1>3, MayAskPlain DEF BeginEmailEdit, CommitEmailEdit, On, Exclusive, OneAtATime, SavesServer
<1>4. ASSUME NEW h \in Slots, AdminAnswered(h) PROVE PageStep
  BY <1>4, SMTT(30) DEF AdminAnswered
<1>5. ASSUME NEW h \in Slots,
             UpdateAdmin(h) \/ ResetAdminPassword(h) \/ ResetAdminMFA(h) \/ CreateAdmin(h)
      PROVE  PageStep
  BY <1>5 DEF UpdateAdmin, ResetAdminPassword, ResetAdminMFA, CreateAdmin
<1> QED BY <1>1, <1>2, <1>3, <1>4, <1>5 DEF AdminsNext

LEMMA ServersStep == ASSUME ServersNext PROVE PageStep
<1> USE DoStep, AskStep, CarryStep, DeclineStep, GateStep, AnswerStep
<1>1. CASE OpenServerForm
  BY <1>1 DEF OpenServerForm
<1>2. CASE SubmitServer
  BY <1>2, MayAskServer DEF SubmitServer, On, SavesServer
<1>3. ASSUME NEW t \in Targets, ServerRowAction(t) PROVE PageStep
  BY <1>3, MayAskPlain DEF ServerRowAction, On, Exclusive, OneAtATime, SavesServer
<1>4. ASSUME NEW h \in Slots, ServerAnswered(h) PROVE PageStep
  BY <1>4 DEF ServerAnswered
<1>5. ASSUME NEW h \in Slots,
             UpdateServer(h) \/ CreateServer(h) \/ DeleteServer(h) \/ GetServerHostConfig(h)
      PROVE  PageStep
  BY <1>5 DEF UpdateServer, CreateServer, DeleteServer, GetServerHostConfig
<1> QED BY <1>1, <1>2, <1>3, <1>4, <1>5 DEF ServersNext

LEMMA NodesStep == ASSUME NodesNext PROVE PageStep
<1> USE DoStep, AskStep, CarryStep, DeclineStep, GateStep, AnswerStep
<1>1. CASE NodeForm
  BY <1>1, MayAskAlone DEF NodeForm, On, OneAtATime
<1>2. ASSUME NEW t \in Targets, NodeRowAction(t) PROVE PageStep
  BY <1>2, MayAskPlain DEF NodeRowAction, On, Exclusive, OneAtATime, SavesServer
<1>3. ASSUME NEW h \in Slots, NodeAnswered(h) PROVE PageStep
  BY <1>3 DEF NodeAnswered
<1>4. ASSUME NEW h \in Slots, CreateNode(h) \/ RotateNodeToken(h) \/ DeleteNode(h)
      PROVE  PageStep
  BY <1>4 DEF CreateNode, RotateNodeToken, DeleteNode
<1> QED BY <1>1, <1>2, <1>3, <1>4 DEF NodesNext

LEMMA BackupsStep == ASSUME BackupsNext PROVE PageStep
<1> USE DoStep, AskStep, CarryStep, DeclineStep, GateStep, AnswerStep
<1>1. CASE CreateBackup \/ PickFile
  BY <1>1, MayAskAlone DEF CreateBackup, PickFile, On, OneAtATime
<1>2. ASSUME NEW t \in Targets, BackupRowAction(t) PROVE PageStep
  BY <1>2, MayAskPlain DEF BackupRowAction, On, Exclusive, OneAtATime, SavesServer
<1>3. ASSUME NEW h \in Slots, BackupAnswered(h) PROVE PageStep
  BY <1>3 DEF BackupAnswered
<1>4. ASSUME NEW h \in Slots, WriteBackup(h) \/ ReadBackup(h) \/ RemoveBackup(h)
      PROVE  PageStep
  BY <1>4 DEF WriteBackup, ReadBackup, RemoveBackup
<1> QED BY <1>1, <1>2, <1>3, <1>4 DEF BackupsNext

LEMMA GatedStep == ASSUME GatedNext PROVE PageStep
<1>1. CASE EditText \/ CancelEmailEdit
  BY <1>1, DoStep DEF EditText, CancelEmailEdit
<1> QED BY <1>1, AdminsStep, ServersStep, NodesStep, BackupsStep DEF GatedNext

LEMMA UsersStep == ASSUME UsersNext PROVE PageStep
<1> USE DoStep, ForgetStep, AskStep, CarryStep, DeclineStep, AnswerStep
<1>1. CASE InviteForm \/ DismissResent
  BY <1>1 DEF InviteForm, DismissResent
<1>2. {"edituser"} \cap Exclusive = {}
  BY DEF Exclusive, OneAtATime, SavesServer
<1>3. CASE CloseEditUser \/ EditUserForm
  BY <1>2, <1>3 DEF CloseEditUser, EditUserForm
<1>4. CASE HandleInvite
  BY <1>4, MayAskAlone DEF HandleInvite, On, OneAtATime
<1>5. CASE HandleSaveUser
  BY <1>5, MayAskPlain DEF HandleSaveUser, On, Exclusive, OneAtATime, SavesServer
<1>6. ASSUME NEW t \in Targets, UserRowAction(t) PROVE PageStep
  BY <1>6, MayAskPlain DEF UserRowAction, UserOffers, UsersClear, On, Exclusive, OneAtATime, SavesServer
<1>7. ASSUME NEW t \in Targets, OpenEditUser(t) PROVE PageStep
  BY <1>2, <1>7 DEF OpenEditUser
<1>8. ASSUME NEW h \in Slots, UserAnswered(h) PROVE PageStep
  BY <1>8 DEF UserAnswered
<1>9. ASSUME NEW h \in Slots, CreateUser(h) \/ ResendUserInvite(h) \/ SetUserStatus(h)
      PROVE  PageStep
  BY <1>9 DEF CreateUser, ResendUserInvite, SetUserStatus
<1>10. ASSUME NEW h \in Slots, UpdateUser(h) PROVE PageStep
  BY <1>10, AnsweredStep DEF UpdateUser, GateStays, gateVars
<1> QED BY <1>1, <1>3, <1>4, <1>5, <1>6, <1>7, <1>8, <1>9, <1>10 DEF UsersNext

LEMMA DepartmentsStep == ASSUME DepartmentsNext PROVE PageStep
<1> USE DoStep, ForgetStep, AskStep, CarryStep, DeclineStep, AnswerStep
<1>1. SaveDepartment \cap Exclusive = {}
  BY DEF SaveDepartment, Exclusive, OneAtATime, SavesServer
<1>2. CASE OpenDepartment \/ CloseDepartment \/ DepartmentForm
  BY <1>1, <1>2 DEF OpenDepartment, CloseDepartment, DepartmentForm
<1>3. CASE HandleSave
  BY <1>3, MayAskPlain DEF HandleSave, On, Exclusive, OneAtATime, SavesServer
<1>4. ASSUME NEW t \in Targets, ConfirmDelete(t) PROVE PageStep
  BY <1>4, MayAskPlain DEF ConfirmDelete, On, Exclusive, OneAtATime, SavesServer
<1>5. ASSUME NEW h \in Slots, DepartmentAnswered(h) PROVE PageStep
  BY <1>5 DEF DepartmentAnswered
<1>6. ASSUME NEW h \in Slots,
             CreateDepartment(h) \/ UpdateDepartment(h) \/ DeleteDepartment(h)
      PROVE  PageStep
  BY <1>6 DEF CreateDepartment, UpdateDepartment, DeleteDepartment
<1> QED BY <1>2, <1>3, <1>4, <1>5, <1>6 DEF DepartmentsNext

LEMMA PeersStep == ASSUME PeersNext, page = "peers" PROVE PageStep
<1> USE DoStep, ForgetStep, AskStep, CarryStep, DeclineStep, AnswerStep
<1>1. {"addpeer"} \cap Exclusive = {}
  BY DEF Exclusive, OneAtATime, SavesServer
<1>2. CASE OpenAdd \/ CloseAdd \/ PeerForm \/ DismissPeerResult
  BY <1>1, <1>2 DEF OpenAdd, CloseAdd, PeerForm, DismissPeerResult
<1>3. CASE SubmitPeer
  <2>1. ~Covered /\ ~Pending("editpeer")
    BY <1>3 DEF SubmitPeer, PeerFormShown, On
  <2>2. \A t, arg : MayAsk(Act("editpeer", t, arg))
    BY <2>1, MayAskAlone DEF OneAtATime
  <2>3. \A t, arg : MayAsk(Act("addpeer", t, arg))
    BY <2>1, MayAskPlain DEF Exclusive, OneAtATime, SavesServer
  <2> QED BY <1>3, <2>2, <2>3 DEF SubmitPeer
<1>4. CASE ConfirmResend
  BY <1>4, MayAskPlain DEF ConfirmResend, On, Exclusive, OneAtATime, SavesServer
<1>5. ASSUME NEW t \in Targets, OpenEditPeer(t) \/ PeerRowAction(t) PROVE PageStep
  BY <1>5, MayAskPlain
     DEF OpenEditPeer, PeerRowAction, PeersClear, On, Exclusive, OneAtATime, SavesServer
<1>6. ASSUME NEW h \in Slots, PeerAnswered(h) PROVE PageStep
  <2>1. CASE Fails(h, ui, {"rows"}) /\ UNCHANGED gateVars
    <3>1. calls[h] # NoCall \/ calls[h] = NoCall
      OBVIOUS
    <3>2. CASE calls[h] # NoCall
      BY <2>1, <3>2 DEF Fails, Succeeds, gateVars, PageStep, Hears
    <3>3. CASE calls[h] = NoCall
      BY <1>6, <3>3 DEF PeerAnswered, NoCall, Answer, Ready
    <3> QED BY <3>2, <3>3
  <2> QED BY <1>6, <2>1 DEF PeerAnswered
<1>7. ASSUME NEW h \in Slots,
             CreatePeer(h) \/ UpdatePeer(h) \/ DeletePeer(h) \/ ReadPeerConfig(h)
      PROVE  PageStep
  BY <1>7 DEF CreatePeer, UpdatePeer, DeletePeer, ReadPeerConfig
<1> QED BY <1>2, <1>3, <1>4, <1>5, <1>6, <1>7 DEF PeersNext

LEMMA DirectoryStep == ASSUME DirectoryNext PROVE PageStep
BY UsersStep, DepartmentsStep, PeersStep DEF DirectoryNext

LEMMA ProfileStep == ASSUME ProfileNext PROVE PageStep
<1> USE DoStep, AskStep, CarryStep, DeclineStep, AnswerStep
<1>0. page # "peers"
  BY DEF ProfileNext
<1>1. CASE StartFactorAction
  <2>1. PICK a \in ProfileOffers : Confirm(a) /\ ~Covered
    BY <1>1 DEF StartFactorAction, On
  <2>2. MayAsk(a)
    BY <2>1 DEF ProfileOffers, MayAsk, Fine, Act, OneAtATime, SavesServer
  <2> QED BY <1>0, <2>1, <2>2, ConfirmStep
<1>2. CASE VerifyTOTPEnrollment \/ DismissCodes \/ ChangePassword \/ RevokeOthers
  BY <1>2, MayAskAlone
     DEF VerifyTOTPEnrollment, DismissCodes, ChangePassword, RevokeOthers, On, OneAtATime
<1>3. ASSUME NEW t \in Targets, RevokeSession(t) PROVE PageStep
  BY <1>3, MayAskPlain DEF RevokeSession, On, Exclusive, OneAtATime, SavesServer
<1>4. ASSUME NEW h \in Slots, ProfileAnswered(h) PROVE PageStep
  BY <1>4 DEF ProfileAnswered
<1>5. ASSUME NEW h \in Slots,
             RegisterPasskey(h) \/ AddPasskeyBegin(h) \/ CheckLastFactor(h) \/ ReplacePassword(h)
      PROVE  PageStep
  BY <1>5, AnsweredStep
     DEF RegisterPasskey, AddPasskeyBegin, CheckLastFactor, ReplacePassword, GateStays, gateVars
<1>6. ASSUME NEW h \in Slots,
             \/ AddTOTPBegin(h) \/ AddTOTPFinish(h) \/ AddTOTPRemove(h) \/ AddPasskeyFinish(h)
             \/ RegenerateRecoveryCodes(h) \/ RevokeMySession(h) \/ RevokeMyOtherSessions(h)
      PROVE  PageStep
  BY <1>6 DEF AddTOTPBegin, AddTOTPFinish, AddTOTPRemove, AddPasskeyFinish, RegenerateRecoveryCodes,
              RevokeMySession, RevokeMyOtherSessions
<1>7. ASSUME NEW h \in Slots, DeletePasskey(h) PROVE PageStep
  BY <1>7, AnsweredStep DEF DeletePasskey, Commit, GateStays
<1> QED BY <1>1, <1>2, <1>3, <1>4, <1>5, <1>6, <1>7 DEF ProfileNext

LEMMA SettingsStep == ASSUME SettingsNext PROVE PageStep
<1> USE DoStep, AskStep, CarryStep, DeclineStep, AnswerStep
<1>0. page # "peers"
  BY DEF SettingsNext, SettingsPageNames
<1>1. CASE EditSetting \/ ChooseTemplate
  BY <1>1 DEF EditSetting, ChooseTemplate
<1>2. CASE SaveSMTP \/ TestSMTP \/ SaveTimezone \/ SaveTemplate
  BY <1>2, MayAskAlone DEF SaveSMTP, TestSMTP, SaveTimezone, SaveTemplate, OnForm, On, OneAtATime
<1>3. ASSUME NEW op \in {"savestepup", "savepolicy", "savelockout", "saveexpiry"}, SaveSection(op)
      PROVE  PageStep
  BY <1>0, <1>3, ConfirmStep, MayAskPlain
     DEF SaveSection, OnForm, On, Exclusive, OneAtATime, SavesServer
<1>4. ASSUME NEW h \in Slots, SettingsAnswered(h) PROVE PageStep
  BY <1>4 DEF SettingsAnswered
<1>5. ASSUME NEW h \in Slots,
             \/ UpdateSMTPConfig(h) \/ SendTestEmail(h) \/ UpdateTimezoneConfig(h)
             \/ UpdateEmailTemplate(h) \/ UpdateMFAPolicyConfig(h) \/ UpdateSecurityConfig(h)
      PROVE  PageStep
  BY <1>5 DEF UpdateSMTPConfig, SendTestEmail, UpdateTimezoneConfig, UpdateEmailTemplate,
              UpdateMFAPolicyConfig, UpdateSecurityConfig
<1>6. ASSUME NEW h \in Slots, UpdateStepUpConfig(h) PROVE PageStep
  BY <1>6, AnsweredStep DEF UpdateStepUpConfig, Commit, GateStays
<1> QED BY <1>1, <1>2, <1>3, <1>4, <1>5, <1>6
        DEF SettingsNext, SaveStepUp, SavePolicy, SaveLockout, SaveExpiry

LEMMA NetworkStays == ASSUME Network \/ Others PROVE Stays
<1>1. ASSUME NEW k \in Lists, ReadList(k) \/ PollList(k) \/ (ListFails(k) /\ UNCHANGED gateVars)
      PROVE  Stays
  BY <1>1 DEF ReadList, ServeList, ListArrives, PollList, Poll, ListFails, Stays, GateStays, gateVars
<1>2. ASSUME NEW h \in Slots, Refuse(h) \/ LoseAnswer(h), UNCHANGED gateVars
      PROVE  Stays
  BY <1>2 DEF Refuse, LoseAnswer, Stays, GateStays, gateVars
<1>3. CASE Others
  BY <1>3 DEF Others, Outsider, Stays, GateStays, gateVars
<1> QED BY <1>1, <1>2, <1>3 DEF Network

LEMMA CheckProofStays == ASSUME NEW h \in Slots, CheckProof(h) PROVE Stays
<1>1. PICK s : Answered(h, s) /\ GateStays
  BY DEF CheckProof, CodeAccepted, StampRedeemed, GraceCovers, ProofMissing, Allow, GateStays, gateVars
<1> QED BY <1>1 DEF Stays

-----------------------------------------------------------------------------
(* The form of a rule, as every change of it leaves it.                    *)
DraftShape(d) ==
    d = [scope |-> d.scope, user |-> d.user, peers |-> d.peers, dept |-> d.dept,
         target |-> d.target, group |-> d.group, text |-> d.text]

OwnDraft(d) ==
    /\ DraftShape(d)
    /\ d.scope \in Scopes /\ d.target \in {"text", "group"}
    /\ d.scope = "user" => d.peers \subseteq {d.user}

UiShape(u) == u = [modal |-> u.modal, target |-> u.target, draft |-> u.draft, result |-> u.result]

RuleUi(u) == UiShape(u) /\ OwnDraft(u.draft)

LEMMA ModalKeeps == ASSUME NEW u, RuleUi(u), NEW m PROVE RuleUi([u EXCEPT !.modal = m])
<1> DEFINE v == [u EXCEPT !.modal = m]
<1>1. v = [modal |-> m, target |-> u.target, draft |-> u.draft, result |-> u.result]
  BY DEF RuleUi, UiShape
<1> QED BY <1>1 DEF RuleUi, UiShape

LEMMA TargetKeeps == ASSUME NEW u, RuleUi(u), NEW m PROVE RuleUi([u EXCEPT !.target = m])
<1> DEFINE v == [u EXCEPT !.target = m]
<1>1. v = [modal |-> u.modal, target |-> m, draft |-> u.draft, result |-> u.result]
  BY DEF RuleUi, UiShape
<1> QED BY <1>1 DEF RuleUi, UiShape

LEMMA ResultKeeps == ASSUME NEW u, RuleUi(u), NEW m PROVE RuleUi([u EXCEPT !.result = m])
<1> DEFINE v == [u EXCEPT !.result = m]
<1>1. v = [modal |-> u.modal, target |-> u.target, draft |-> u.draft, result |-> m]
  BY DEF RuleUi, UiShape
<1> QED BY <1>1 DEF RuleUi, UiShape

LEMMA DraftKeeps ==
    ASSUME NEW u, RuleUi(u), NEW d, OwnDraft(d) PROVE RuleUi([u EXCEPT !.draft = d])
<1> DEFINE v == [u EXCEPT !.draft = d]
<1>1. v = [modal |-> u.modal, target |-> u.target, draft |-> d, result |-> u.result]
  BY DEF RuleUi, UiShape
<1> QED BY <1>1 DEF RuleUi, UiShape

LEMMA NoRuleOwn == OwnDraft(NoRule)
BY DEF OwnDraft, DraftShape, NoRule, Scopes

LEMMA BlankRulesOwn == RuleUi(BlankRules)
<1>1. BlankRules = [modal |-> "none", target |-> None, draft |-> NoRule, result |-> None]
  BY DEF BlankRules, Blank
<1> QED BY <1>1, NoRuleOwn DEF RuleUi, UiShape

(* The request a form makes is of its own, whatever was chosen before.     *)
LEMMA RuleOfOwn ==
    ASSUME NEW d, OwnDraft(d), CanSubmit(d)
    PROVE  OwnRule(RuleOf(d))
<1> DEFINE r == RuleOf(d)
<1>1. DOMAIN d = {"scope", "user", "peers", "dept", "target", "group", "text"}
  BY DEF OwnDraft, DraftShape
<1>2. r = [k \in {"scope", "user", "peers", "dept", "target", "group", "text"} |->
          IF k = "user" THEN (IF d.scope = "user" THEN d.user ELSE None)
          ELSE IF k = "peers" THEN (IF d.scope = "user" /\ d.user # None THEN d.peers ELSE {})
          ELSE IF k = "dept" THEN (IF d.scope = "department" THEN d.dept ELSE None)
          ELSE IF k = "group" THEN (IF d.target = "group" THEN d.group ELSE None)
          ELSE IF k = "text" THEN (IF d.target = "text" THEN d.text ELSE None) ELSE d[k]]
  BY <1>1 DEF RuleOf
<1>3. r = [scope |-> d.scope,
           user  |-> IF d.scope = "user" THEN d.user ELSE None,
           peers |-> IF d.scope = "user" /\ d.user # None THEN d.peers ELSE {},
           dept  |-> IF d.scope = "department" THEN d.dept ELSE None,
           target |-> d.target,
           group |-> IF d.target = "group" THEN d.group ELSE None,
           text  |-> IF d.target = "text" THEN d.text ELSE None]
  BY <1>2
<1>4. PeersOwned(r)
  BY <1>3 DEF OwnDraft, PeersOwned
<1>5. r.user = None \/ r.dept = None
  BY <1>3
<1>6. (r.scope = "user" => r.user # None) /\ (r.scope = "department" => r.dept # None)
  BY <1>3 DEF CanSubmit
<1>7. (r.group = None) # (r.text = None)
  BY <1>3 DEF OwnDraft, CanSubmit
<1> QED BY <1>4, <1>5, <1>6, <1>7 DEF OwnRule

(* The choices in the form.                                                *)
LEMMA ScopeOwn ==
    ASSUME NEW d, OwnDraft(d), NEW s \in Scopes
    PROVE  OwnDraft([d EXCEPT !.scope = s, !.user = None, !.peers = {}, !.dept = None])
<1> DEFINE e == [d EXCEPT !.scope = s, !.user = None, !.peers = {}, !.dept = None]
<1>1. DOMAIN d = {"scope", "user", "peers", "dept", "target", "group", "text"}
  BY DEF OwnDraft, DraftShape
<1>2. e = [k \in {"scope", "user", "peers", "dept", "target", "group", "text"} |->
          IF k = "scope" THEN s
          ELSE IF k = "user" THEN None
          ELSE IF k = "peers" THEN {}
          ELSE IF k = "dept" THEN None ELSE d[k]]
  BY <1>1
<1>3. e = [scope |-> s, user |-> None, peers |-> {}, dept |-> None,
           target |-> d.target, group |-> d.group, text |-> d.text]
  BY <1>2
<1> QED BY <1>3 DEF OwnDraft, DraftShape

LEMMA UserOwn ==
    ASSUME NEW d, OwnDraft(d), NEW u PROVE OwnDraft([d EXCEPT !.user = u, !.peers = {}])
<1> DEFINE e == [d EXCEPT !.user = u, !.peers = {}]
<1>1. DOMAIN d = {"scope", "user", "peers", "dept", "target", "group", "text"}
  BY DEF OwnDraft, DraftShape
<1>2. e = [k \in {"scope", "user", "peers", "dept", "target", "group", "text"} |->
          IF k = "user" THEN u ELSE IF k = "peers" THEN {} ELSE d[k]]
  BY <1>1
<1>3. e = [scope |-> d.scope, user |-> u, peers |-> {}, dept |-> d.dept,
           target |-> d.target, group |-> d.group, text |-> d.text]
  BY <1>2
<1> QED BY <1>3 DEF OwnDraft, DraftShape

LEMMA PeersOwn ==
    ASSUME NEW d, OwnDraft(d), NEW p \in SUBSET {d.user} PROVE OwnDraft([d EXCEPT !.peers = p])
<1> DEFINE e == [d EXCEPT !.peers = p]
<1>1. e = [scope |-> d.scope, user |-> d.user, peers |-> p, dept |-> d.dept,
           target |-> d.target, group |-> d.group, text |-> d.text]
  BY DEF OwnDraft, DraftShape
<1> QED BY <1>1 DEF OwnDraft, DraftShape

LEMMA DeptOwn == ASSUME NEW d, OwnDraft(d), NEW p PROVE OwnDraft([d EXCEPT !.dept = p])
<1> DEFINE e == [d EXCEPT !.dept = p]
<1>1. e = [scope |-> d.scope, user |-> d.user, peers |-> d.peers, dept |-> p,
           target |-> d.target, group |-> d.group, text |-> d.text]
  BY DEF OwnDraft, DraftShape
<1> QED BY <1>1 DEF OwnDraft, DraftShape

LEMMA KindOwn ==
    ASSUME NEW d, OwnDraft(d), NEW x \in {"text", "group"}, NEW g
    PROVE  OwnDraft([d EXCEPT !.target = x, !.group = g])
<1> DEFINE e == [d EXCEPT !.target = x, !.group = g]
<1>1. DOMAIN d = {"scope", "user", "peers", "dept", "target", "group", "text"}
  BY DEF OwnDraft, DraftShape
<1>2. e = [k \in {"scope", "user", "peers", "dept", "target", "group", "text"} |->
          IF k = "target" THEN x ELSE IF k = "group" THEN g ELSE d[k]]
  BY <1>1
<1>3. e = [scope |-> d.scope, user |-> d.user, peers |-> d.peers, dept |-> d.dept,
           target |-> x, group |-> g, text |-> d.text]
  BY <1>2
<1> QED BY <1>3 DEF OwnDraft, DraftShape

LEMMA TextOwn == ASSUME NEW d, OwnDraft(d), NEW x PROVE OwnDraft([d EXCEPT !.text = x])
<1> DEFINE e == [d EXCEPT !.text = x]
<1>1. e = [scope |-> d.scope, user |-> d.user, peers |-> d.peers, dept |-> d.dept,
           target |-> d.target, group |-> d.group, text |-> x]
  BY DEF OwnDraft, DraftShape
<1> QED BY <1>1 DEF OwnDraft, DraftShape

LEMMA GroupOwn == ASSUME NEW d, OwnDraft(d), NEW g PROVE OwnDraft([d EXCEPT !.group = g])
<1> DEFINE e == [d EXCEPT !.group = g]
<1>1. e = [scope |-> d.scope, user |-> d.user, peers |-> d.peers, dept |-> d.dept,
           target |-> d.target, group |-> g, text |-> d.text]
  BY DEF OwnDraft, DraftShape
<1> QED BY <1>1 DEF OwnDraft, DraftShape

LEMMA ReopenedOwn ==
    ASSUME NEW d, OwnDraft(d)
    PROVE  OwnDraft([d EXCEPT !.target = "text", !.group = None, !.peers = {}])
<1> DEFINE e == [d EXCEPT !.target = "text", !.group = None, !.peers = {}]
<1>1. DOMAIN d = {"scope", "user", "peers", "dept", "target", "group", "text"}
  BY DEF OwnDraft, DraftShape
<1>2. e = [k \in {"scope", "user", "peers", "dept", "target", "group", "text"} |->
          IF k = "target" THEN "text"
          ELSE IF k = "group" THEN None
          ELSE IF k = "peers" THEN {} ELSE d[k]]
  BY <1>1
<1>3. e = [scope |-> d.scope, user |-> d.user, peers |-> {}, dept |-> d.dept,
           target |-> "text", group |-> None, text |-> d.text]
  BY <1>2
<1> QED BY <1>3 DEF OwnDraft, DraftShape

LEMMA AddedOwn ==
    ASSUME NEW s \in Scopes PROVE OwnDraft([NoRule EXCEPT !.scope = s])
<1> DEFINE e == [NoRule EXCEPT !.scope = s]
<1>1. e = [scope |-> s, user |-> None, peers |-> {}, dept |-> None,
           target |-> "text", group |-> None, text |-> None]
  BY DEF NoRule
<1> QED BY <1>1 DEF OwnDraft, DraftShape

(* A form that opens or closes with what it shows then.                    *)
LEMMA ModalDraftKeeps ==
    ASSUME NEW u, RuleUi(u), NEW m, NEW d, OwnDraft(d)
    PROVE  RuleUi([u EXCEPT !.modal = m, !.draft = d])
<1> DEFINE v == [u EXCEPT !.modal = m, !.draft = d]
<1>1. DOMAIN u = {"modal", "target", "draft", "result"}
  BY DEF RuleUi, UiShape
<1>2. v = [k \in {"modal", "target", "draft", "result"} |->
          IF k = "modal" THEN m ELSE IF k = "draft" THEN d ELSE u[k]]
  BY <1>1
<1>3. v = [modal |-> m, target |-> u.target, draft |-> d, result |-> u.result]
  BY <1>2
<1> QED BY <1>3 DEF RuleUi, UiShape

LEMMA ModalTargetKeeps ==
    ASSUME NEW u, RuleUi(u), NEW m, NEW t PROVE RuleUi([u EXCEPT !.modal = m, !.target = t])
<1> DEFINE v == [u EXCEPT !.modal = m, !.target = t]
<1>1. DOMAIN u = {"modal", "target", "draft", "result"}
  BY DEF RuleUi, UiShape
<1>2. v = [k \in {"modal", "target", "draft", "result"} |->
          IF k = "modal" THEN m ELSE IF k = "target" THEN t ELSE u[k]]
  BY <1>1
<1>3. v = [modal |-> m, target |-> t, draft |-> u.draft, result |-> u.result]
  BY <1>2
<1> QED BY <1>3 DEF RuleUi, UiShape

LEMMA GroupModalKeeps ==
    ASSUME NEW u, RuleUi(u), NEW m, NEW t, NEW r
    PROVE  RuleUi([u EXCEPT !.modal = m, !.target = t, !.result = r])
<1> DEFINE v == [u EXCEPT !.modal = m, !.target = t, !.result = r]
<1>1. DOMAIN u = {"modal", "target", "draft", "result"}
  BY DEF RuleUi, UiShape
<1>2. v = [k \in {"modal", "target", "draft", "result"} |->
          IF k = "modal" THEN m ELSE IF k = "target" THEN t ELSE IF k = "result" THEN r ELSE u[k]]
  BY <1>1
<1>3. v = [modal |-> m, target |-> t, draft |-> u.draft, result |-> r]
  BY <1>2
<1> QED BY <1>3 DEF RuleUi, UiShape

LEMMA RulesStep ==
    ASSUME RulesNext, RuleUi(ui) PROVE PageStep /\ RuleUi(ui')
<1> DEFINE Good == PageStep /\ RuleUi(ui')
<1>1. {"addrule"} \cap Exclusive = {} /\ SaveGroup \cap Exclusive = {}
  BY DEF SaveGroup, Exclusive, OneAtATime, SavesServer
<1>2. OwnDraft(ui.draft)
  BY DEF RuleUi
<1>3. ASSUME NEW d, Edited(d), OwnDraft(d) PROVE Good
  BY <1>1, <1>3, ForgetStep, DraftKeeps DEF Edited, Forget
<1>4. CASE OpenAddModal
  <2>1. PICK d : OwnDraft(d) /\ Forget([ui EXCEPT !.modal = "add", !.draft = d], {"addrule"})
    BY <1>2, <1>4, ReopenedOwn, NoRuleOwn DEF OpenAddModal
  <2> QED BY <1>1, <2>1, ForgetStep, ModalDraftKeeps DEF Forget
<1>5. CASE CloseAddModal
  BY <1>1, <1>5, ForgetStep, ModalKeeps DEF CloseAddModal, Forget
<1>6. CASE ChooseScope
  BY <1>2, <1>3, <1>6, ScopeOwn DEF ChooseScope
<1>7. CASE ChooseUser
  BY <1>2, <1>3, <1>7, UserOwn DEF ChooseUser
<1>8. CASE TickPeer
  <2>1. PICK p \in SUBSET {ui.draft.user} : Do([ui EXCEPT !.draft.peers = p])
    BY <1>8 DEF TickPeer
  <2>2. [ui EXCEPT !.draft.peers = p] = [ui EXCEPT !.draft = [ui.draft EXCEPT !.peers = p]]
    OBVIOUS
  <2>3. RuleUi([ui EXCEPT !.draft = [ui.draft EXCEPT !.peers = p]])
    BY <1>2, PeersOwn, DraftKeeps
  <2> QED BY <2>1, <2>2, <2>3, DoStep DEF Do, Local
<1>9. CASE ChooseDepartment
  BY <1>2, <1>3, <1>9, DeptOwn DEF ChooseDepartment
<1>10. CASE ChooseTarget
  <2>1. PICK x \in {"text", "group"} :
           Edited([ui.draft EXCEPT !.target = x, !.group = IF Keeps THEN @ ELSE None])
    BY <1>10 DEF ChooseTarget
  <2>2. PICK g : Edited([ui.draft EXCEPT !.target = x, !.group = g])
    <3>1. Edited([ui.draft EXCEPT !.target = x, !.group = IF Keeps THEN ui.draft.group ELSE None])
      BY <2>1
    <3> QED BY <3>1
  <2> QED BY <1>2, <1>3, <2>2, KindOwn
<1>11. CASE TypeTarget
  BY <1>2, <1>3, <1>11, TextOwn, GroupOwn DEF TypeTarget
<1>12. CASE HandleAdd
  <2>1. Ask("addrule", None, RuleOf(ui.draft), ui) /\ ~Covered
    BY <1>12 DEF HandleAdd, RuleForm, OnRules, On
  <2>2. OwnRule(RuleOf(ui.draft))
    BY <1>2, <1>12, RuleOfOwn DEF HandleAdd
  <2>3. MayAsk(Act("addrule", None, RuleOf(ui.draft)))
    BY <2>1, <2>2 DEF MayAsk, Fine, Act, OneAtATime, SavesServer
  <2> QED BY <2>1, <2>3, AskStep DEF Ask, Send
<1>13. ASSUME NEW op \in {"delrule", "addgroup", "editgroup", "delgroup"}, NEW t, NEW arg,
              Ask(op, t, arg, ui), OnRules
       PROVE  Good
  <2>1. MayAsk(Act(op, t, arg))
    BY <1>13, MayAskPlain DEF OnRules, On, Exclusive, OneAtATime, SavesServer
  <2> QED BY <1>13, <2>1, AskStep DEF Ask, Send
<1>14. ASSUME NEW m, NEW t, NEW r,
              \/ Forget([ui EXCEPT !.modal = m, !.target = t, !.result = r], SaveGroup)
              \/ Forget([ui EXCEPT !.modal = m, !.target = t], SaveGroup)
              \/ Forget([ui EXCEPT !.result = r], SaveGroup)
       PROVE  Good
  <2>1. PICK u : Forget(u, SaveGroup) /\ RuleUi(u)
    <3>1. /\ RuleUi([ui EXCEPT !.modal = m, !.target = t, !.result = r])
          /\ RuleUi([ui EXCEPT !.modal = m, !.target = t])
          /\ RuleUi([ui EXCEPT !.result = r])
      BY GroupModalKeeps, ModalTargetKeeps, ResultKeeps
    <3> QED BY <1>14, <3>1
  <2> QED BY <1>1, <2>1, ForgetStep DEF Forget
<1>15. CASE OpenGroupModal \/ CloseGroupModal \/ GroupForm
  BY <1>14, <1>15 DEF OpenGroupModal, CloseGroupModal, GroupForm
<1>16. CASE HandleSaveGroup
  BY <1>13, <1>16 DEF HandleSaveGroup
<1>17. ASSUME NEW t \in Targets, DeleteRule(t) \/ ConfirmDeleteGroup(t) PROVE Good
  BY <1>13, <1>17 DEF DeleteRule, ConfirmDeleteGroup, RulesClear, GroupSeen
<1>18. ASSUME NEW h \in Slots, NEW u, NEW keys, Answer(h, u, keys), RuleUi(u) PROVE Good
  BY <1>18, AnswerStep DEF Answer, Fails, Succeeds
<1>19. ASSUME NEW h \in Slots, RuleAnswered(h) PROVE Good
  <2>1. RuleUi(RuleAdded)
    <3> DEFINE s == IF Keeps THEN ui.draft.scope ELSE "global"
               d == [NoRule EXCEPT !.scope = s]
    <3>1. OwnDraft(d)
      BY <1>2, AddedOwn DEF OwnDraft, Scopes
    <3>2. RuleAdded = [ui EXCEPT !.modal = IF ui.modal = "add" THEN "none" ELSE ui.modal, !.draft = d]
      BY DEF RuleAdded
    <3> QED BY <3>1, <3>2, ModalDraftKeeps
  <2> QED BY <1>18, <1>19, <2>1 DEF RuleAnswered
<1>20. ASSUME NEW h \in Slots, GroupAnswered(h) PROVE Good
  <2>1. \A m : RuleUi([ui EXCEPT !.modal = m, !.target = None])
    BY ModalTargetKeeps
  <2> QED BY <1>18, <1>20, <2>1 DEF GroupAnswered
<1>21. ASSUME NEW h \in Slots,
              CreateRule(h) \/ DropRule(h) \/ CreateGroup(h) \/ UpdateGroup(h) \/ DeleteGroup(h)
       PROVE  Good
  <2>1. Decline(h) \/ \E lists : Carry(h, lists)
    BY <1>21 DEF CreateRule, DropRule, CreateGroup, UpdateGroup, DeleteGroup
  <2> QED BY <2>1, CarryStep, DeclineStep DEF Carry, Commit, Decline, Reject
<1> QED BY <1>4, <1>5, <1>6, <1>7, <1>8, <1>9, <1>10, <1>11, <1>12, <1>15, <1>16, <1>17, <1>19, <1>20,
           <1>21 DEF RulesNext

-----------------------------------------------------------------------------
(* The invariant.  A busy dialog waits for one thing: a request it sent or *)
(* a ceremony it began, and the page has not been left since.  What is     *)
(* running, what the dialog asks for and what the ceremony is for do not   *)
(* rival each other, other than the dialog the request it waits for.       *)
Runs(h)   == calls[h] # NoCall
Heard(h)  == Runs(h) /\ calls[h].here
Waited(h) == Heard(h) /\ calls[h].via = "dialog"
Held      == ceremony.at # "none" /\ ceremony.here

FineInv ==
    /\ \A h \in Slots : Runs(h) => Fine(calls[h].act)
    /\ Covered => Fine(dialog.gate)
    /\ ceremony.at # "none" => Fine(ceremony.act)

WaitInv ==
    /\ dialog = [gate |-> dialog.gate, busy |-> dialog.busy]
    /\ ceremony = [act |-> ceremony.act, at |-> ceremony.at, here |-> ceremony.here]
    /\ \A g, h \in Slots : Waited(g) /\ Waited(h) => g = h
    /\ Held => dialog.busy = "passkey" /\ \A h \in Slots : ~Waited(h)
    /\ dialog.busy = "no" => \A h \in Slots : ~Waited(h)
    /\ dialog.busy # "no" => Covered /\ (Held \/ \E h \in Slots : Waited(h))

RivalInv ==
    /\ \A h \in Slots : Heard(h) /\ calls[h].act.op \in Exclusive => calls[h].latest
    /\ \A g, h \in Slots : g # h /\ Heard(g) /\ Heard(h) => ~Rivals(calls[g].act.op, calls[h].act.op)
    /\ Covered => \A h \in Slots : Heard(h) /\ ~Waited(h) => ~Rivals(calls[h].act.op, dialog.gate.op)
    /\ Held => \A h \in Slots : Heard(h) => ~Rivals(calls[h].act.op, ceremony.act.op)

PeersInv ==
    page = "peers" =>
        dialog = Closed /\ ceremony = NoCeremony /\ \A h \in Slots : Runs(h) => calls[h].via = "plain"

SendInv == FineInv /\ WaitInv /\ RivalInv /\ PeersInv

-----------------------------------------------------------------------------
(* A request that goes on being what the invariant sees of it.             *)
Alike(c, d) ==
    /\ c = NoCall <=> d = NoCall
    /\ d.act = c.act /\ d.via = c.via /\ d.here = c.here
    /\ c.here /\ c.act.op \in Exclusive /\ c.latest => d.latest

LEMMA StageAlike == ASSUME NEW c, AsNamed(c), NEW s PROVE Alike(c, [c EXCEPT !.stage = s])
<1>1. CASE c = NoCall
  <2>1. [c EXCEPT !.stage = s] = c
    BY <1>1 DEF NoCall
  <2> QED BY <2>1 DEF Alike
<1>2. CASE c # NoCall
  <2> DEFINE d == [c EXCEPT !.stage = s]
  <2>1. d = [act |-> c.act, via |-> c.via, proof |-> c.proof, named |-> c.named, stage |-> s,
             here |-> c.here, latest |-> c.latest]
    BY <1>2 DEF AsNamed, IsCall
  <2>2. d # NoCall
    BY <2>1 DEF NoCall
  <2> QED BY <1>2, <2>1, <2>2 DEF Alike
<1> QED BY <1>1, <1>2

LEMMA LatestAlike ==
    ASSUME NEW c, AsNamed(c), NEW s, ~(c # NoCall /\ c.here /\ c.act.op \in Exclusive)
    PROVE  Alike(c, [c EXCEPT !.latest = s])
<1>1. CASE c = NoCall
  <2>1. [c EXCEPT !.latest = s] = c
    BY <1>1 DEF NoCall
  <2> QED BY <2>1 DEF Alike
<1>2. CASE c # NoCall
  <2> DEFINE d == [c EXCEPT !.latest = s]
  <2>1. d = [act |-> c.act, via |-> c.via, proof |-> c.proof, named |-> c.named, stage |-> c.stage,
             here |-> c.here, latest |-> s]
    BY <1>2 DEF AsNamed, IsCall
  <2>2. d # NoCall
    BY <2>1 DEF NoCall
  <2> QED BY <1>2, <2>1, <2>2 DEF Alike
<1> QED BY <1>1, <1>2

LEMMA AlikeKeeps ==
    ASSUME SendInv, GateStays, \A g \in Slots : Alike(calls[g], calls'[g]) PROVE SendInv'
<1>1. \A g \in Slots : /\ Runs(g)' = Runs(g) /\ Heard(g)' = Heard(g) /\ Waited(g)' = Waited(g)
                       /\ calls'[g].act = calls[g].act /\ calls'[g].via = calls[g].via
  BY DEF Alike, Runs, Heard, Waited
<1>2. Covered' = Covered /\ Held' = Held /\ dialog' = dialog /\ ceremony' = ceremony /\ page' = page
  BY DEF GateStays, Covered, Held, page
<1>3. FineInv'
  BY <1>1, <1>2 DEF SendInv, FineInv, Fine, OwnRule, PeersOwned
<1>4. WaitInv'
  BY <1>1, <1>2 DEF SendInv, WaitInv
<1>5. RivalInv'
  BY <1>1, <1>2 DEF SendInv, RivalInv, Rivals, Alike, Heard
<1>6. PeersInv'
  BY <1>1, <1>2 DEF SendInv, PeersInv
<1> QED BY <1>3, <1>4, <1>5, <1>6 DEF SendInv

LEMMA StaysKeeps == ASSUME CallInv, SendInv, Stays PROVE SendInv'
<1>1. CASE calls' = calls
  BY <1>1, AlikeKeeps DEF Stays, Alike
<1>2. CASE \E h \in Slots : \E s : Answered(h, s)
  <2>0. PICK h \in Slots : \E s : Answered(h, s)
    BY <1>2
  <2>1. PICK s : Answered(h, s)
    BY <2>0
  <2>2. ASSUME NEW g \in Slots PROVE Alike(calls[g], calls'[g])
    <3>1. calls'[g] = IF g = h THEN [calls[g] EXCEPT !.stage = s] ELSE calls[g]
      BY <2>1 DEF Answered, CallInv
    <3>2. Alike(calls[g], calls[g]) /\ Alike(calls[g], [calls[g] EXCEPT !.stage = s])
      BY StageAlike DEF CallInv, Alike
    <3> QED BY <3>1, <3>2
  <2> QED BY <2>2, AlikeKeeps DEF Stays
<1> QED BY <1>1, <1>2 DEF Stays

LEMMA ForgetsKeeps == ASSUME CallInv, SendInv, Forgets PROVE SendInv'
<1>1. PICK ops : ops \cap Exclusive = {} /\ calls' = Unfollowed(ops)
  BY DEF Forgets
<1>2. ASSUME NEW g \in Slots PROVE Alike(calls[g], calls'[g])
  <2>1. calls'[g] = IF calls[g].act.op \in ops THEN [calls[g] EXCEPT !.latest = FALSE] ELSE calls[g]
    BY <1>1 DEF Unfollowed
  <2>2. CASE calls[g].act.op \in ops
    BY <1>1, <2>1, <2>2, LatestAlike DEF CallInv
  <2>3. CASE calls[g].act.op \notin ops
    BY <2>1, <2>3 DEF Alike
  <2> QED BY <2>2, <2>3
<1> QED BY <1>2, AlikeKeeps DEF Forgets

(* Nothing that is running rivals what may be asked for.                   *)
LEMMA MayAskFree ==
    ASSUME SendInv, NEW a, MayAsk(a)
    PROVE  \A h \in Slots : Heard(h) => ~Rivals(calls[h].act.op, a.op)
<1> SUFFICES ASSUME NEW h \in Slots, Heard(h), Rivals(calls[h].act.op, a.op) PROVE FALSE
  OBVIOUS
<1>1. calls[h].latest
  BY DEF SendInv, RivalInv, Rivals, Exclusive
<1>2. Pending(calls[h].act.op)
  BY <1>1 DEF Pending, Running, Heard
<1>3. CASE calls[h].act.op = a.op /\ a.op \in OneAtATime
  BY <1>2, <1>3 DEF MayAsk
<1>4. CASE {calls[h].act.op, a.op} \subseteq SavesServer
  BY <1>2, <1>4 DEF MayAsk, SavePending, SavesServer
<1> QED BY <1>3, <1>4 DEF Rivals

(* A request that is sent while nothing it rivals is running.              *)
LEMMA SentAlike ==
    ASSUME CallInv, NEW a, NEW via, NEW proof, NEW named, NEW h \in Slots, calls[h] = NoCall,
           calls' = Sent(a, via, proof, named, h),
           \A g \in Slots : Heard(g) => ~Rivals(calls[g].act.op, a.op)
    PROVE  /\ calls'[h] = Request(a, via, proof, named) /\ calls'[h] # NoCall
           /\ \A g \in Slots \ {h} : Alike(calls[g], calls'[g])
<1>1. calls'[h] = Request(a, via, proof, named)
  BY DEF Sent
<1>2. calls'[h] # NoCall
  BY <1>1 DEF Request, NoCall
<1>3. ASSUME NEW g \in Slots \ {h} PROVE Alike(calls[g], calls'[g])
  <2>1. calls'[g] = IF calls[g].act.op = a.op THEN [calls[g] EXCEPT !.latest = FALSE] ELSE calls[g]
    BY DEF Sent
  <2>2. CASE calls[g].act.op = a.op
    <3>1. ~(calls[g] # NoCall /\ calls[g].here /\ calls[g].act.op \in Exclusive)
      BY <2>2 DEF Heard, Runs, Rivals, Exclusive
    <3> QED BY <2>1, <2>2, <3>1, LatestAlike DEF CallInv
  <2>3. CASE calls[g].act.op # a.op
    BY <2>1, <2>3 DEF Alike
  <2> QED BY <2>2, <2>3
<1> QED BY <1>1, <1>2, <1>3

(* What the others are after such a step.                                  *)
LEMMA OthersAlike ==
    ASSUME NEW h \in Slots, \A g \in Slots \ {h} : Alike(calls[g], calls'[g])
    PROVE  \A g \in Slots \ {h} :
              /\ Runs(g)' = Runs(g) /\ Heard(g)' = Heard(g) /\ Waited(g)' = Waited(g)
              /\ calls'[g].act = calls[g].act /\ calls'[g].via = calls[g].via
              /\ calls[g].here /\ calls[g].act.op \in Exclusive /\ calls[g].latest => calls'[g].latest
BY DEF Alike, Runs, Heard, Waited

LEMMA RivalsSymmetric == ASSUME NEW p, NEW q PROVE Rivals(p, q) <=> Rivals(q, p)
BY DEF Rivals

LEMMA SendsKeeps == ASSUME CallInv, SendInv, Sends PROVE SendInv'
<1>1. PICK a, via, u : /\ MayAsk(a) /\ Send(a, via, "none", NoGate, u)
                       /\ via = "plain" \/ (via = "probe" /\ page # "peers")
  BY DEF Sends
<1>2. PICK h \in Slots : calls[h] = NoCall /\ calls' = Sent(a, via, "none", NoGate, h)
  BY <1>1 DEF Send
<1>3. \A g \in Slots : Heard(g) => ~Rivals(calls[g].act.op, a.op)
  BY <1>1, MayAskFree
<1>4. /\ calls'[h] # NoCall /\ calls'[h].act = a /\ calls'[h].via = via
      /\ calls'[h].here = TRUE /\ calls'[h].latest = TRUE
  <2>1. calls'[h] = Request(a, via, "none", NoGate) /\ calls'[h] # NoCall
    BY <1>2, <1>3, SentAlike
  <2> QED BY <2>1 DEF Request
<1>5. \A g \in Slots \ {h} :
         /\ Runs(g)' = Runs(g) /\ Heard(g)' = Heard(g) /\ Waited(g)' = Waited(g)
         /\ calls'[g].act = calls[g].act /\ calls'[g].via = calls[g].via
         /\ calls[g].here /\ calls[g].act.op \in Exclusive /\ calls[g].latest => calls'[g].latest
  BY <1>2, <1>3, SentAlike, OthersAlike
<1>6. Covered' = Covered /\ Held' = Held /\ dialog' = dialog /\ ceremony' = ceremony /\ page' = page
  BY DEF Sends, GateStays, Covered, Held, page
<1>7. ~Covered /\ ~Held /\ Fine(a) /\ dialog.busy = "no"
  BY <1>1 DEF MayAsk, SendInv, WaitInv
<1>8. ~Runs(h) /\ ~Waited(h) /\ ~Waited(h)'
  BY <1>1, <1>2, <1>4 DEF Runs, Heard, Waited
<1>9. FineInv'
  <2>1. ASSUME NEW g \in Slots, Runs(g)' PROVE Fine(calls'[g].act)
    BY <1>4, <1>5, <1>7, <2>1 DEF SendInv, FineInv
  <2> QED BY <1>6, <1>7, <2>1 DEF SendInv, FineInv, Fine, OwnRule, PeersOwned
<1>10. WaitInv'
  BY <1>5, <1>6, <1>8 DEF SendInv, WaitInv
<1>11. RivalInv'
  <2>1. ASSUME NEW g \in Slots, Heard(g)', calls'[g].act.op \in Exclusive PROVE calls'[g].latest
    BY <1>4, <1>5, <2>1 DEF SendInv, RivalInv, Heard
  <2>2. ASSUME NEW f \in Slots, NEW g \in Slots, f # g, Heard(f)', Heard(g)'
        PROVE  ~Rivals(calls'[f].act.op, calls'[g].act.op)
    <3>1. CASE f = h
      BY <1>3, <1>4, <1>5, <2>2, <3>1, RivalsSymmetric
    <3>2. CASE g = h
      BY <1>3, <1>4, <1>5, <2>2, <3>2
    <3>3. CASE f # h /\ g # h
      BY <1>5, <2>2, <3>3 DEF SendInv, RivalInv
    <3> QED BY <3>1, <3>2, <3>3
  <2> QED BY <1>6, <1>7, <2>1, <2>2 DEF RivalInv, Rivals
<1>12. PeersInv'
  BY <1>1, <1>4, <1>5, <1>6 DEF SendInv, PeersInv
<1> QED BY <1>9, <1>10, <1>11, <1>12 DEF SendInv

LEMMA FineNamed == ASSUME NEW a, Fine(a) PROVE a # NoGate
BY DEF Fine, NoGate, Act

(* The dialog is about another action.                                     *)
LEMMA GateOf ==
    ASSUME WaitInv, NEW a, dialog' = [dialog EXCEPT !.gate = a]
    PROVE  /\ dialog' = [gate |-> dialog'.gate, busy |-> dialog'.busy]
           /\ dialog'.gate = a /\ dialog'.busy = dialog.busy
BY DEF WaitInv

LEMMA OpensKeeps == ASSUME CallInv, SendInv, Opens PROVE SendInv'
<1>1. PICK a : MayAsk(a) /\ dialog' = [dialog EXCEPT !.gate = a]
  BY DEF Opens
<1>2. /\ dialog' = [gate |-> dialog'.gate, busy |-> dialog'.busy]
      /\ dialog'.gate = a /\ dialog'.busy = dialog.busy
  BY <1>1, GateOf DEF SendInv
<1>3. \A g \in Slots : Heard(g) => ~Rivals(calls[g].act.op, a.op)
  BY <1>1, MayAskFree
<1>4. Covered' /\ Held' = Held /\ page' = page /\ page # "peers"
  BY <1>1, <1>2, FineNamed DEF Opens, Held, page, Covered, MayAsk
<1>5. \A h \in Slots : Runs(h)' = Runs(h) /\ Heard(h)' = Heard(h) /\ Waited(h)' = Waited(h)
  BY DEF Opens, Runs, Heard, Waited
<1>6. calls' = calls /\ ceremony' = ceremony
  BY DEF Opens
<1>7. ~Covered /\ Fine(a)
  BY <1>1 DEF MayAsk
<1>8. FineInv'
  BY <1>2, <1>5, <1>6, <1>7 DEF SendInv, FineInv, Fine, OwnRule, PeersOwned
<1>9. WaitInv'
  BY <1>2, <1>4, <1>5, <1>6 DEF SendInv, WaitInv
<1>10. RivalInv'
  BY <1>2, <1>3, <1>4, <1>5, <1>6 DEF SendInv, RivalInv, Rivals
<1>11. PeersInv'
  BY <1>4 DEF PeersInv
<1> QED BY <1>8, <1>9, <1>10, <1>11 DEF SendInv

LEMMA HearsKeeps == ASSUME CallInv, SendInv, Hears PROVE SendInv'
<1>1. PICK h \in Slots :
         /\ calls[h] # NoCall /\ calls' = [calls EXCEPT ![h] = NoCall]
         /\ dialog' = DialogAfter(h) \/ (page = "peers" /\ dialog' = dialog)
  BY DEF Hears
<1> DEFINE c == calls[h]
<1>2. /\ calls'[h] = NoCall /\ ~Runs(h)' /\ ~Heard(h)' /\ ~Waited(h)'
      /\ \A g \in Slots \ {h} : /\ calls'[g] = calls[g]
                                /\ Runs(g)' = Runs(g) /\ Heard(g)' = Heard(g) /\ Waited(g)' = Waited(g)
  BY <1>1 DEF CallInv, Runs, Heard, Waited
<1>3. page' = page /\ ceremony' = ceremony /\ Held' = Held
  BY DEF Hears, Held, page
<1>4. Runs(h) /\ Fine(c.act) /\ c.act # NoGate
  BY <1>1, FineNamed DEF Runs, SendInv, FineInv
<1>5. ASSUME Waited(h), dialog'.busy = "no", dialog'.gate \in {dialog.gate, NoGate},
             dialog' = [gate |-> dialog'.gate, busy |-> dialog'.busy]
      PROVE  FineInv' /\ WaitInv' /\ RivalInv'
  <2>1. (Covered' => Covered /\ dialog'.gate = dialog.gate) /\ ~Held
    BY <1>5 DEF Covered, SendInv, WaitInv
  <2>2. \A g \in Slots : ~Waited(g)'
    BY <1>2, <1>5 DEF SendInv, WaitInv
  <2>3. FineInv'
    BY <1>2, <1>3, <2>1 DEF SendInv, FineInv, Fine, OwnRule, PeersOwned
  <2>4. WaitInv'
    BY <1>3, <1>5, <2>1, <2>2 DEF SendInv, WaitInv
  <2>5. RivalInv'
    <3>1. \A g \in Slots : Heard(g)' => g # h /\ Heard(g) /\ ~Waited(g)
      BY <1>2, <2>2
    <3> QED BY <1>2, <1>3, <2>1, <3>1 DEF SendInv, RivalInv, Rivals
  <2> QED BY <2>3, <2>4, <2>5
<1>6. ASSUME ~Waited(h), dialog' = dialog PROVE FineInv' /\ WaitInv' /\ RivalInv'
  <2>1. Covered' = Covered
    BY <1>6 DEF Covered
  <2>2. FineInv'
    BY <1>2, <1>3, <1>6, <2>1 DEF SendInv, FineInv, Fine, OwnRule, PeersOwned
  <2>3. WaitInv'
    BY <1>2, <1>3, <1>6, <2>1 DEF SendInv, WaitInv
  <2>4. RivalInv'
    BY <1>2, <1>3, <1>6, <2>1 DEF SendInv, RivalInv, Rivals
  <2> QED BY <2>2, <2>3, <2>4
<1>7. ASSUME Heard(h), ~Waited(h), dialog' = [dialog EXCEPT !.gate = c.act]
      PROVE  FineInv' /\ WaitInv' /\ RivalInv'
  <2>1. /\ dialog' = [gate |-> dialog'.gate, busy |-> dialog'.busy]
        /\ dialog'.gate = c.act /\ dialog'.busy = dialog.busy
    BY <1>7, GateOf DEF SendInv
  <2>2. Covered'
    BY <1>4, <2>1, SMTT(30) DEF Covered
  <2>3. FineInv'
    BY <1>2, <1>3, <1>4, <2>1 DEF SendInv, FineInv, Fine, OwnRule, PeersOwned
  <2>4. WaitInv'
    BY <1>2, <1>3, <1>7, <2>1, <2>2 DEF SendInv, WaitInv
  <2>5. RivalInv'
    BY <1>2, <1>3, <1>7, <2>1 DEF SendInv, RivalInv, Rivals
  <2> QED BY <2>3, <2>4, <2>5
<1>8. FineInv' /\ WaitInv' /\ RivalInv'
  <2>1. CASE page = "peers"
    <3>1. ~Waited(h) /\ dialog' = dialog
      BY <1>1, <1>4, <2>1 DEF SendInv, PeersInv, Waited, DialogAfter
    <3> QED BY <1>6, <3>1
  <2>2. CASE dialog' = DialogAfter(h)
    <3>1. CASE ~c.here
      BY <1>6, <2>2, <3>1 DEF DialogAfter, Waited, Heard
    <3>2. CASE c.here /\ c.via = "dialog"
      <4>1. Waited(h)
        BY <1>4, <3>2 DEF Waited, Heard
      <4>2. dialog' = Closed \/ dialog' = [dialog EXCEPT !.busy = "no"]
        BY <2>2, <3>2 DEF DialogAfter
      <4>3. /\ dialog'.busy = "no" /\ dialog'.gate \in {dialog.gate, NoGate}
            /\ dialog' = [gate |-> dialog'.gate, busy |-> dialog'.busy]
        BY <4>2 DEF Closed, SendInv, WaitInv
      <4> QED BY <1>5, <4>1, <4>3
    <3>3. CASE c.here /\ c.via # "dialog"
      BY <1>4, <1>6, <1>7, <2>2, <3>3 DEF DialogAfter, Waited, Heard
    <3> QED BY <3>1, <3>2, <3>3
  <2> QED BY <1>1, <2>1, <2>2
<1>9. PeersInv'
  <2> SUFFICES ASSUME page = "peers"
               PROVE  /\ dialog' = Closed /\ ceremony' = NoCeremony
                      /\ \A g \in Slots : Runs(g)' => calls'[g].via = "plain"
    BY <1>3 DEF PeersInv
  <2>1. dialog' = dialog
    BY <1>1, <1>4 DEF SendInv, PeersInv, DialogAfter
  <2> QED BY <1>2, <1>3, <2>1 DEF SendInv, PeersInv
<1> QED BY <1>8, <1>9 DEF SendInv

LEMMA PageStepKeeps == ASSUME CallInv, SendInv, PageStep PROVE SendInv'
BY StaysKeeps, ForgetsKeeps, SendsKeeps, OpensKeeps, HearsKeeps DEF PageStep

-----------------------------------------------------------------------------
(* The steps of the dialog.                                                *)
LEMMA LiveFine == ASSUME NEW a, Fine(a) PROVE Fine(Live(a))
BY DEF Fine, Live, Act

LEMMA LiveRivals == ASSUME NEW a, NEW p PROVE Rivals(p, Live(a).op) <=> Rivals(p, a.op)
<1>1. CASE a.op # "saveserver"
  BY <1>1 DEF Live
<1>2. CASE a.op = "saveserver"
  <2>1. Live(a).op \in SavesServer
    BY <1>2 DEF Live, Act, SavesServer
  <2> QED BY <1>2, <2>1 DEF Rivals, OneAtATime, SavesServer
<1> QED BY <1>1, <1>2

(* An action is sent out of the dialog: it was asked for and then waited   *)
(* for nothing else.                                                       *)
LEMMA DialogSends ==
    ASSUME CallInv, SendInv, plan' = plan, page # "peers",
           NEW a, NEW proof, NEW named, NEW h \in Slots, calls[h] = NoCall, Fine(a),
           calls' = Sent(a, "dialog", proof, named, h),
           \A g \in Slots : ~Waited(g),
           \A g \in Slots : Heard(g) => ~Rivals(calls[g].act.op, a.op),
           Covered, dialog' = [gate |-> dialog.gate, busy |-> dialog'.busy], dialog'.busy # "no",
           ceremony' = [act |-> ceremony'.act, at |-> ceremony'.at, here |-> ceremony'.here],
           ~Held', ceremony'.at # "none" => Fine(ceremony'.act)
    PROVE  SendInv'
<1>1. /\ calls'[h] # NoCall /\ calls'[h].act = a /\ calls'[h].via = "dialog"
      /\ calls'[h].here = TRUE /\ calls'[h].latest = TRUE
  <2>1. calls'[h] = Request(a, "dialog", proof, named) /\ calls'[h] # NoCall
    BY SentAlike
  <2> QED BY <2>1 DEF Request
<1>2. \A g \in Slots \ {h} :
         /\ Runs(g)' = Runs(g) /\ Heard(g)' = Heard(g) /\ Waited(g)' = Waited(g)
         /\ calls'[g].act = calls[g].act /\ calls'[g].via = calls[g].via
         /\ calls[g].here /\ calls[g].act.op \in Exclusive /\ calls[g].latest => calls'[g].latest
  <2>1. \A g \in Slots \ {h} : Alike(calls[g], calls'[g])
    BY SentAlike
  <2> QED BY <2>1, OthersAlike
<1>3. Runs(h)' /\ Heard(h)' /\ Waited(h)'
  BY <1>1 DEF Runs, Heard, Waited
<1>4. dialog'.gate = dialog.gate /\ Covered'
  BY SMTT(30) DEF Covered
<1>5. FineInv'
  <2>1. ASSUME NEW g \in Slots, Runs(g)' PROVE Fine(calls'[g].act)
    BY <1>1, <1>2, <2>1 DEF SendInv, FineInv
  <2> QED BY <1>4, <2>1 DEF SendInv, FineInv, Fine, OwnRule, PeersOwned
<1>6. WaitInv'
  <2>1. \A g \in Slots : Waited(g)' <=> g = h
    BY <1>2, <1>3
  <2> QED BY <1>4, <2>1 DEF WaitInv
<1>7. RivalInv'
  <2>1. ASSUME NEW g \in Slots, Heard(g)', calls'[g].act.op \in Exclusive PROVE calls'[g].latest
    BY <1>1, <1>2, <2>1 DEF SendInv, RivalInv, Heard
  <2>2. ASSUME NEW f \in Slots, NEW g \in Slots, f # g, Heard(f)', Heard(g)'
        PROVE  ~Rivals(calls'[f].act.op, calls'[g].act.op)
    <3>1. CASE f = h
      BY <1>1, <1>2, <2>2, <3>1, RivalsSymmetric
    <3>2. CASE g = h
      BY <1>1, <1>2, <2>2, <3>2
    <3>3. CASE f # h /\ g # h
      BY <1>2, <2>2, <3>3 DEF SendInv, RivalInv
    <3> QED BY <3>1, <3>2, <3>3
  <2>3. ASSUME NEW g \in Slots, Heard(g)', ~Waited(g)'
        PROVE  ~Rivals(calls'[g].act.op, dialog'.gate.op)
    BY <1>2, <1>3, <1>4, <2>3 DEF SendInv, RivalInv
  <2> QED BY <2>1, <2>2, <2>3 DEF RivalInv, Rivals
<1>8. PeersInv'
  BY DEF PeersInv, page
<1> QED BY <1>5, <1>6, <1>7, <1>8 DEF SendInv

LEMMA SubmitKeeps == ASSUME CallInv, SendInv, SubmitCode PROVE SendInv'
<1>1. PICK proof : Send(Live(dialog.gate), "dialog", proof, dialog.gate, ui)
  BY DEF SubmitCode
<1> DEFINE a == Live(dialog.gate)
<1>2. PICK h \in Slots : calls[h] = NoCall /\ calls' = Sent(a, "dialog", proof, dialog.gate, h)
  BY <1>1 DEF Send
<1>3. /\ Covered /\ dialog.busy = "no" /\ plan' = plan /\ ceremony' = ceremony
      /\ dialog' = [dialog EXCEPT !.busy = "code"]
  BY <1>1 DEF SubmitCode, Send, Covered
<1>4. (\A g \in Slots : ~Waited(g)) /\ ~Held /\ Held' = Held
  BY <1>3 DEF SendInv, WaitInv, Held
<1>5. \A g \in Slots : Heard(g) => ~Rivals(calls[g].act.op, a.op)
  BY <1>3, <1>4, LiveRivals DEF SendInv, RivalInv
<1>6. Fine(a) /\ page # "peers"
  <2>1. Fine(dialog.gate)
    BY <1>3 DEF SendInv, FineInv
  <2>2. page # "peers"
    BY <1>3 DEF SendInv, PeersInv, Covered, Closed
  <2> QED BY <2>1, <2>2, LiveFine
<1>7. dialog' = [gate |-> dialog.gate, busy |-> dialog'.busy] /\ dialog'.busy # "no"
  BY <1>3 DEF SendInv, WaitInv
<1>8. /\ ceremony' = [act |-> ceremony'.act, at |-> ceremony'.at, here |-> ceremony'.here]
      /\ ceremony'.at # "none" => Fine(ceremony'.act)
  BY <1>3 DEF SendInv, WaitInv, FineInv
<1> HIDE DEF a
<1> QED BY <1>2, <1>3, <1>4, <1>5, <1>6, <1>7, <1>8, DialogSends

LEMMA RunHeldKeeps == ASSUME CallInv, SendInv, RunHeldAction PROVE SendInv'
<1>1. ceremony.at # "none" /\ ceremony' = NoCeremony /\ dialog' = dialog /\ ~Held'
  BY DEF RunHeldAction, NoCeremony, Held
<1>2. Fine(ceremony.act) /\ page # "peers"
  BY <1>1 DEF SendInv, FineInv, PeersInv, NoCeremony
<1>3. /\ ceremony' = [act |-> ceremony'.act, at |-> ceremony'.at, here |-> ceremony'.here]
      /\ ceremony'.at = "none"
  BY <1>1 DEF NoCeremony
<1>4. CASE ceremony.here
  <2> DEFINE a == Live(ceremony.act)
  <2>1. Send(a, "dialog", "none", ceremony.act, ui)
    BY <1>4 DEF RunHeldAction
  <2>2. PICK h \in Slots : calls[h] = NoCall /\ calls' = Sent(a, "dialog", "none", ceremony.act, h)
    BY <2>1 DEF Send
  <2>3. plan' = plan /\ Held
    BY <1>1, <1>4, <2>1 DEF Send, Held
  <2>4. Covered /\ dialog.busy # "no" /\ \A g \in Slots : ~Waited(g)
    BY <2>3 DEF SendInv, WaitInv
  <2>5. \A g \in Slots : Heard(g) => ~Rivals(calls[g].act.op, a.op)
    BY <2>3, LiveRivals DEF SendInv, RivalInv
  <2>6. Fine(a)
    BY <1>2, LiveFine
  <2>7. dialog' = [gate |-> dialog.gate, busy |-> dialog'.busy] /\ dialog'.busy # "no"
    BY <1>1, <2>4 DEF SendInv, WaitInv
  <2> HIDE DEF a
  <2> QED BY <1>1, <1>2, <1>3, <2>2, <2>3, <2>4, <2>5, <2>6, <2>7, DialogSends
<1>5. CASE ~ceremony.here
  <2> DEFINE r == [Request(ceremony.act, "dialog", "none", ceremony.act) EXCEPT !.here = FALSE]
  <2>1. PICK h \in Slots : calls[h] = NoCall /\ calls' = [calls EXCEPT ![h] = r]
    BY <1>5 DEF RunHeldAction, SendUnfollowed
  <2>2. plan' = plan
    BY <1>5 DEF RunHeldAction, SendUnfollowed
  <2>3. r.act = ceremony.act /\ r.here = FALSE
    BY DEF Request
  <2>4. /\ calls'[h].act = ceremony.act /\ ~Heard(h)' /\ ~Waited(h)' /\ ~Heard(h) /\ ~Waited(h)
        /\ \A g \in Slots \ {h} : calls'[g] = calls[g]
    BY <2>1, <2>3 DEF CallInv, Heard, Waited, Runs
  <2>5. \A g \in Slots : /\ Heard(g)' = Heard(g) /\ Waited(g)' = Waited(g)
                         /\ g # h => Runs(g)' = Runs(g)
    BY <2>4 DEF Heard, Waited, Runs
  <2>6. ~Held /\ Covered' = Covered
    BY <1>1, <1>5 DEF Held, Covered
  <2>7. FineInv'
    <3>1. ASSUME NEW g \in Slots, Runs(g)' PROVE Fine(calls'[g].act)
      BY <1>2, <2>4, <2>5, <3>1 DEF SendInv, FineInv
    <3> QED BY <1>1, <1>3, <2>6, <3>1 DEF SendInv, FineInv, Fine, OwnRule, PeersOwned
  <2>8. WaitInv'
    BY <1>1, <1>3, <2>5, <2>6 DEF SendInv, WaitInv
  <2>9. RivalInv'
    <3>1. \A g \in Slots : Heard(g) => calls'[g] = calls[g]
      BY <2>4
    <3> QED BY <1>1, <2>5, <2>6, <3>1 DEF SendInv, RivalInv, Rivals
  <2>10. PeersInv'
    BY <1>2, <2>2 DEF PeersInv, page
  <2> QED BY <2>7, <2>8, <2>9, <2>10 DEF SendInv
<1> QED BY <1>4, <1>5

(* The page is left, or gives way to the login page.                       *)
LEMMA GoneKeeps ==
    ASSUME SendInv, plan' = plan, dialog' = Closed,
           ceremony' = NoCeremony
             \/ (ceremony' = [act |-> ceremony'.act, at |-> ceremony.at, here |-> FALSE]
                 /\ ceremony # NoCeremony
                 /\ (ceremony.at # "none" => Fine(ceremony'.act))),
           \A g \in Slots : calls'[g] = NoCall
                \/ (calls[g] # NoCall /\ calls'[g].act = calls[g].act /\ calls'[g].via = calls[g].via
                    /\ calls'[g].here = FALSE)
    PROVE  SendInv'
<1>1. \A g \in Slots : ~Heard(g)' /\ ~Waited(g)' /\ (Runs(g)' => Runs(g))
  BY DEF Heard, Waited, Runs
<1>2. ~Covered' /\ ~Held' /\ page' = page
  BY SMTT(30) DEF Covered, Closed, Held, NoCeremony, page
<1>3. FineInv'
  <2>1. ASSUME NEW g \in Slots, Runs(g)' PROVE Fine(calls'[g].act)
    BY <2>1 DEF Runs, SendInv, FineInv
  <2> QED BY <1>2, <2>1 DEF SendInv, FineInv, Fine, OwnRule, PeersOwned, NoCeremony
<1>4. WaitInv'
  BY <1>1, <1>2 DEF WaitInv, Closed, NoCeremony
<1>5. RivalInv'
  BY <1>1, <1>2 DEF RivalInv
<1>6. PeersInv'
  BY <1>1, <1>2 DEF SendInv, PeersInv, Runs
<1> QED BY <1>3, <1>4, <1>5, <1>6 DEF SendInv

LEMMA HereFalse ==
    ASSUME CallInv, NEW g \in Slots, calls[g] # NoCall, NEW d, d = [calls[g] EXCEPT !.here = FALSE]
    PROVE  d.act = calls[g].act /\ d.via = calls[g].via /\ d.here = FALSE
<1>1. IsCall(calls[g])
  BY DEF CallInv, AsNamed
<1>2. d = [act |-> calls[g].act, via |-> calls[g].via, proof |-> calls[g].proof,
           named |-> calls[g].named, stage |-> calls[g].stage, here |-> FALSE,
           latest |-> calls[g].latest]
  BY <1>1 DEF IsCall
<1> QED BY <1>2

LEMMA LeaveKeeps == ASSUME CallInv, SendInv, NEW u, Leave(u) PROVE SendInv'
<1>1. /\ plan' = plan /\ dialog' = Closed
      /\ ceremony' = IF ceremony = NoCeremony THEN NoCeremony
                     ELSE [ceremony EXCEPT !.act = Live(@), !.here = FALSE]
      /\ calls' = [h \in Slots |->
                      IF calls[h] = NoCall THEN NoCall ELSE [calls[h] EXCEPT !.here = FALSE]]
  BY DEF Leave, Unmount
<1>2. \A g \in Slots : calls'[g] = NoCall
         \/ (calls[g] # NoCall /\ calls'[g].act = calls[g].act /\ calls'[g].via = calls[g].via
             /\ calls'[g].here = FALSE)
  BY <1>1, HereFalse
<1>3. ceremony' = NoCeremony
        \/ (ceremony' = [act |-> ceremony'.act, at |-> ceremony.at, here |-> FALSE]
            /\ ceremony # NoCeremony
            /\ (ceremony.at # "none" => Fine(ceremony'.act)))
  <2>1. CASE ceremony = NoCeremony
    BY <1>1, <2>1
  <2>2. CASE ceremony # NoCeremony
    <3> DEFINE live == Live(ceremony.act)
    <3>1. DOMAIN ceremony = {"act", "at", "here"}
      BY DEF SendInv, WaitInv
    <3>2. ceremony' = [ceremony EXCEPT !.act = live, !.here = FALSE]
      BY <1>1, <2>2
    <3> HIDE DEF live
    <3>3. ceremony' = [k \in {"act", "at", "here"} |->
                          IF k = "act" THEN live ELSE IF k = "here" THEN FALSE ELSE ceremony[k]]
      BY <3>1, <3>2
    <3>4. ceremony' = [act |-> live, at |-> ceremony.at, here |-> FALSE]
      BY <3>3
    <3>5. ceremony.at # "none" => Fine(live)
      BY LiveFine DEF SendInv, FineInv, live
    <3> QED BY <2>2, <3>4, <3>5
  <2> QED BY <2>1, <2>2
<1> QED BY <1>1, <1>2, <1>3, GoneKeeps

LEMMA RedirectKeeps ==
    ASSUME CallInv, SendInv, NEW h \in Slots, NEW u, RedirectToLogin(h, u) PROVE SendInv'
<1>1. /\ plan' = plan /\ dialog' = Closed /\ ceremony' = NoCeremony
      /\ calls' = [g \in Slots |-> IF g = h \/ calls[g] = NoCall THEN NoCall
                                   ELSE [calls[g] EXCEPT !.here = FALSE]]
  BY DEF RedirectToLogin
<1>2. \A g \in Slots : calls'[g] = NoCall
         \/ (calls[g] # NoCall /\ calls'[g].act = calls[g].act /\ calls'[g].via = calls[g].via
             /\ calls'[g].here = FALSE)
  BY <1>1, HereFalse
<1> QED BY <1>1, <1>2, GoneKeeps

(* The steps that leave the requests as they are.                          *)
LEMMA DialogOnlyKeeps ==
    ASSUME SendInv, plan' = plan, calls' = calls, page # "peers" \/ UNCHANGED <<dialog, ceremony>>,
           dialog' = [gate |-> dialog'.gate, busy |-> dialog'.busy],
           ceremony' = [act |-> ceremony'.act, at |-> ceremony'.at, here |-> ceremony'.here],
           dialog'.gate \in {dialog.gate, NoGate},
           ceremony'.at # "none" => Fine(ceremony'.act),
           Held' => /\ dialog'.busy = "passkey" /\ \A h \in Slots : ~Waited(h)
                    /\ \A h \in Slots : Heard(h) => ~Rivals(calls[h].act.op, ceremony'.act.op),
           dialog'.busy = "no" => \A h \in Slots : ~Waited(h),
           dialog'.busy # "no" => Covered' /\ (Held' \/ \E h \in Slots : Waited(h))
    PROVE  SendInv'
<1>1. \A h \in Slots : Runs(h)' = Runs(h) /\ Heard(h)' = Heard(h) /\ Waited(h)' = Waited(h)
  BY DEF Runs, Heard, Waited
<1>2. Covered' => Covered /\ dialog'.gate = dialog.gate
  BY DEF Covered
<1>3. FineInv'
  BY <1>1, <1>2 DEF SendInv, FineInv, Fine, OwnRule, PeersOwned
<1>4. WaitInv'
  BY <1>1 DEF SendInv, WaitInv
<1>5. RivalInv'
  BY <1>1, <1>2 DEF SendInv, RivalInv, Rivals
<1>6. PeersInv'
  BY <1>1 DEF SendInv, PeersInv, page
<1> QED BY <1>3, <1>4, <1>5, <1>6 DEF SendInv

LEMMA UsePasskeyKeeps == ASSUME SendInv, UsePasskey PROVE SendInv'
<1>1. /\ Covered /\ dialog.busy = "no" /\ plan' = plan /\ calls' = calls
      /\ ceremony' = [act |-> dialog.gate, at |-> "prompt", here |-> TRUE]
      /\ dialog' = [dialog EXCEPT !.busy = "passkey"]
  BY DEF UsePasskey, Covered, pageVars
<1>2. dialog' = [gate |-> dialog.gate, busy |-> "passkey"]
  BY <1>1 DEF SendInv, WaitInv
<1>3. \A h \in Slots : ~Waited(h)
  BY <1>1 DEF SendInv, WaitInv
<1>4. \A h \in Slots : Heard(h) => ~Rivals(calls[h].act.op, dialog.gate.op)
  BY <1>1, <1>3 DEF SendInv, RivalInv
<1>5. Fine(dialog.gate) /\ page # "peers"
  BY <1>1 DEF SendInv, FineInv, PeersInv, Covered, Closed
<1>6. Covered' /\ Held'
  BY <1>1, <1>2 DEF Covered, Held
<1>7. /\ dialog'.gate = dialog.gate /\ dialog'.busy = "passkey" /\ ceremony'.act = dialog.gate
      /\ dialog' = [gate |-> dialog'.gate, busy |-> dialog'.busy]
      /\ ceremony' = [act |-> ceremony'.act, at |-> ceremony'.at, here |-> ceremony'.here]
  BY <1>1, <1>2
<1> QED BY <1>1, <1>3, <1>4, <1>5, <1>6, <1>7, DialogOnlyKeeps

(* A dialog that is not busy is closed.                                    *)
LEMMA ClosesKeeps ==
    ASSUME SendInv, plan' = plan, calls' = calls, ceremony' = ceremony,
           dialog.busy = "no", dialog' = Closed
    PROVE  SendInv'
<1>1. (\A h \in Slots : ~Waited(h)) /\ ~Held /\ Held' = Held
  BY DEF SendInv, WaitInv, Held
<1>2. page # "peers" \/ UNCHANGED <<dialog, ceremony>>
  BY DEF SendInv, PeersInv
<1>3. /\ dialog'.gate = NoGate /\ dialog'.busy = "no"
      /\ dialog' = [gate |-> dialog'.gate, busy |-> dialog'.busy]
  BY DEF Closed
<1>4. /\ ceremony' = [act |-> ceremony'.act, at |-> ceremony'.at, here |-> ceremony'.here]
      /\ ceremony'.at # "none" => Fine(ceremony'.act)
  BY DEF SendInv, WaitInv, FineInv
<1> QED BY <1>1, <1>2, <1>3, <1>4, DialogOnlyKeeps

LEMMA StampSessionKeeps == ASSUME SendInv, StampSession PROVE SendInv'
<1>1. /\ plan' = plan /\ calls' = calls /\ dialog' = dialog /\ ceremony.at = "prompt"
      /\ ceremony' = [ceremony EXCEPT !.at = "stamped"]
  BY DEF StampSession, pageVars
<1>2. ceremony' = [act |-> ceremony.act, at |-> "stamped", here |-> ceremony.here]
  BY <1>1 DEF SendInv, WaitInv
<1>3. /\ ceremony'.act = ceremony.act /\ Held' = Held /\ Covered' = Covered
      /\ ceremony' = [act |-> ceremony'.act, at |-> ceremony'.at, here |-> ceremony'.here]
  BY <1>1, <1>2 DEF Held, Covered
<1>4. Fine(ceremony.act) /\ page # "peers"
  BY <1>1 DEF SendInv, FineInv, PeersInv, NoCeremony
<1>5. /\ dialog = [gate |-> dialog.gate, busy |-> dialog.busy]
      /\ Held => dialog.busy = "passkey" /\ \A h \in Slots : ~Waited(h)
      /\ dialog.busy = "no" => \A h \in Slots : ~Waited(h)
      /\ dialog.busy # "no" => Covered /\ (Held \/ \E h \in Slots : Waited(h))
      /\ Held => \A h \in Slots : Heard(h) => ~Rivals(calls[h].act.op, ceremony.act.op)
  BY DEF SendInv, WaitInv, RivalInv
<1> QED BY <1>1, <1>3, <1>4, <1>5, DialogOnlyKeeps

LEMMA CeremonyFailsKeeps == ASSUME SendInv, CeremonyFails PROVE SendInv'
<1>1. /\ plan' = plan /\ calls' = calls /\ ceremony.at # "none" /\ ceremony' = NoCeremony
      /\ dialog' = IF ceremony.here THEN [dialog EXCEPT !.busy = "no"] ELSE dialog
  BY DEF CeremonyFails, pageVars
<1>2. page # "peers" /\ ~Held'
  BY <1>1 DEF SendInv, PeersInv, NoCeremony, Held
<1>3. /\ ceremony' = [act |-> ceremony'.act, at |-> ceremony'.at, here |-> ceremony'.here]
      /\ ceremony'.at = "none"
  BY <1>1 DEF NoCeremony
<1>4. CASE ceremony.here
  <2>1. dialog' = [gate |-> dialog.gate, busy |-> "no"]
    BY <1>1, <1>4 DEF SendInv, WaitInv
  <2>2. \A h \in Slots : ~Waited(h)
    BY <1>1, <1>4 DEF SendInv, WaitInv, Held
  <2>3. /\ dialog'.gate = dialog.gate /\ dialog'.busy = "no"
        /\ dialog' = [gate |-> dialog'.gate, busy |-> dialog'.busy]
    BY <2>1
  <2> QED BY <1>1, <1>2, <1>3, <2>2, <2>3, DialogOnlyKeeps
<1>5. CASE ~ceremony.here
  <2>1. dialog' = dialog /\ ~Held /\ Covered' = Covered
    BY <1>1, <1>5 DEF Held, Covered
  <2>2. /\ dialog = [gate |-> dialog.gate, busy |-> dialog.busy]
        /\ dialog.busy = "no" => \A h \in Slots : ~Waited(h)
        /\ dialog.busy # "no" => Covered /\ \E h \in Slots : Waited(h)
    BY <2>1 DEF SendInv, WaitInv
  <2> QED BY <1>1, <1>2, <1>3, <2>1, <2>2, DialogOnlyKeeps
<1> QED BY <1>4, <1>5

LEMMA DialogStepKeeps == ASSUME CallInv, SendInv, Dialog PROVE SendInv'
<1>1. CASE CloseDialog
  BY <1>1, ClosesKeeps DEF CloseDialog, pageVars
<1>2. ASSUME NEW u, Escape(u) PROVE SendInv'
  <2>1. CASE dialog.busy = "no"
    BY <1>2, <2>1, ClosesKeeps DEF Escape, Local
  <2>2. CASE dialog.busy # "no"
    <3>1. Stays
      BY <1>2, <2>2 DEF Escape, Local, Stays, GateStays
    <3> QED BY <3>1, StaysKeeps
  <2> QED BY <2>1, <2>2
<1>3. CASE ProofExpires
  <2>1. Stays
    BY <1>3 DEF ProofExpires, pageVars, Stays, GateStays
  <2> QED BY <2>1, StaysKeeps
<1>4. ASSUME NEW h \in Slots, CheckProof(h) PROVE SendInv'
  BY <1>4, CheckProofStays, StaysKeeps
<1> QED BY <1>1, <1>2, <1>3, <1>4, SubmitKeeps, UsePasskeyKeeps, StampSessionKeeps, CeremonyFailsKeeps,
           RunHeldKeeps, RedirectKeeps DEF Dialog

-----------------------------------------------------------------------------
(* The form of a rule is touched by its own page only.                     *)
FormInv == page \in RulePages => RuleUi(ui)

LEMMA DialogForm == ASSUME FormInv, Dialog PROVE FormInv'
<1> SUFFICES ASSUME page \in RulePages, RuleUi(ui), plan' = plan PROVE RuleUi(ui')
  <2>1. plan' = plan
    BY DEF Dialog, SubmitCode, UsePasskey, CloseDialog, Escape, Local, StampSession, CeremonyFails,
           RunHeldAction, ProofExpires, CheckProof, CodeAccepted, StampRedeemed, GraceCovers, ProofMissing,
           Allow, RedirectToLogin, Send, SendUnfollowed, pageVars
  <2> QED BY <2>1 DEF FormInv, page
<1>1. page \notin GatePages
  BY DEF RulePages, GatePages, GatedPageNames
<1>2. ASSUME NEW h \in Slots, RedirectToLogin(h, BlankPage) PROVE RuleUi(ui')
  <2>1. BlankPage = BlankRules
    BY DEF BlankPage, RulePages
  <2>2. ui' = [BlankRules EXCEPT !.modal = "login"]
    BY <1>2, <2>1 DEF RedirectToLogin
  <2> QED BY <2>2, BlankRulesOwn, ModalKeeps
<1>3. CASE SubmitCode \/ RunHeldAction
  BY <1>3 DEF SubmitCode, RunHeldAction, Send, SendUnfollowed
<1>4. CASE UsePasskey \/ CloseDialog \/ StampSession \/ CeremonyFails \/ ProofExpires
  BY <1>4 DEF UsePasskey, CloseDialog, StampSession, CeremonyFails, ProofExpires, pageVars
<1>5. ASSUME NEW h \in Slots, CheckProof(h) PROVE RuleUi(ui')
  BY <1>5 DEF CheckProof, CodeAccepted, StampRedeemed, GraceCovers, ProofMissing, Allow
<1> QED BY <1>1, <1>2, <1>3, <1>4, <1>5 DEF Dialog

LEMMA NetworkForm == ASSUME FormInv, Network \/ Others PROVE FormInv'
<1>1. CASE Others
  BY <1>1 DEF Others, Outsider, FormInv, page
<1>2. CASE Network
  <2>1. plan' = plan /\ (page \in RulePages => ui' = ui)
    BY <1>2 DEF Network, ReadList, PollList, ServeList, ListArrives, ListFails, Poll, Refuse, LoseAnswer,
                Arriving, RulePages, SettingsPageNames
  <2> QED BY <2>1 DEF FormInv, page
<1> QED BY <1>1, <1>2

LEMMA NavigateForm == ASSUME FormInv, Navigate PROVE FormInv'
<1>1. plan' = plan /\ ui' = BlankPage
  BY DEF Navigate, Leave, Unmount, Mount
<1>2. page \in RulePages => BlankPage = BlankRules
  BY DEF BlankPage, RulePages
<1> QED BY <1>1, <1>2, BlankRulesOwn DEF FormInv, page

-----------------------------------------------------------------------------
PagesInv == GateInv /\ SendInv /\ FormInv

LEMMA PagesInvInit == ASSUME Init PROVE PagesInv
<1>1. GateInv
  BY GateInvInit
<1>2. /\ dialog = Closed /\ ceremony = NoCeremony /\ ~Covered /\ ~Held
      /\ \A h \in Slots : ~Runs(h) /\ ~Heard(h) /\ ~Waited(h)
  BY DEF Init, Covered, Closed, Held, NoCeremony, Runs, Heard, Waited
<1>3. FineInv /\ RivalInv /\ PeersInv
  BY <1>2 DEF FineInv, RivalInv, PeersInv, NoCeremony
<1>4. WaitInv
  BY <1>2 DEF WaitInv, Closed, NoCeremony
<1>5. FormInv
  BY BlankRulesOwn DEF Init, FormInv, BlankPage, RulePages
<1> QED BY <1>1, <1>3, <1>4, <1>5 DEF PagesInv, SendInv

LEMMA PagesInvNext == ASSUME PagesInv, [Next]_vars PROVE PagesInv'
<1> USE DEF PagesInv
<1>1. GateInv' /\ CallInv
  BY GateInvNext DEF GateInv
<1>2. ASSUME PageStep PROVE SendInv'
  BY <1>1, <1>2, PageStepKeeps
<1>3. ASSUME PageStep PROVE plan' = plan
  BY <1>3 DEF PageStep, Stays, Forgets, Sends, Opens, Hears, GateStays
<1>4. CASE GatedNext \/ ProfileNext \/ DirectoryNext \/ SettingsNext
  <2>1. PageStep
    BY <1>4, GatedStep, ProfileStep, DirectoryStep, SettingsStep, PeersStep
  <2>2. page \notin RulePages
    BY <1>4 DEF GatedNext, ProfileNext, DirectoryNext, SettingsNext, SettingsPageNames, RulePages
  <2> QED BY <1>1, <1>2, <1>3, <2>1, <2>2 DEF FormInv, page
<1>5. CASE RulesNext
  <2>1. PageStep /\ RuleUi(ui')
    BY <1>5, RulesStep DEF RulesNext, FormInv
  <2> QED BY <1>1, <1>2, <2>1 DEF FormInv
<1>6. CASE Dialog
  BY <1>1, <1>6, DialogStepKeeps, DialogForm
<1>7. CASE Network \/ Others
  BY <1>1, <1>7, NetworkStays, StaysKeeps, NetworkForm
<1>8. CASE Navigate
  <2>1. SendInv'
    <3>1. CASE Mount(BlankPage) /\ UNCHANGED gateVars
      <4>1. Stays
        BY <3>1 DEF Mount, gateVars, Stays, GateStays
      <4> QED BY <1>1, <4>1, StaysKeeps
    <3>2. CASE Leave(BlankPage)
      BY <1>1, <3>2, LeaveKeeps
    <3> QED BY <1>8, <3>1, <3>2 DEF Navigate
  <2> QED BY <1>1, <1>8, <2>1, NavigateForm
<1>9. CASE UNCHANGED vars
  <2>1. Stays
    BY <1>9 DEF vars, pageVars, gateVars, Stays, GateStays
  <2> QED BY <1>1, <1>9, <2>1, StaysKeeps DEF FormInv, page, vars, pageVars
<1> QED BY <1>4, <1>5, <1>6, <1>7, <1>8, <1>9 DEF Next

(* The inductive invariant of the pages and the dialog. *)
THEOREM PagesInvariant == Spec => []PagesInv
BY PagesInvInit, PagesInvNext, PTL DEF Spec

(* A dialog that waits (its buttons disabled, closing refused) waits for a *)
(* request it sent or a ceremony it began, on the page it is on: whatever  *)
(* ends them frees it (runAction's finally), whichever probe reopens it or *)
(* closes the form under it meanwhile.                                     *)
THEOREM BusyDialogWaits == Spec => []BusyDialogIsFreed
<1>1. PagesInv => BusyDialogIsFreed
  BY DEF PagesInv, SendInv, WaitInv, BusyDialogIsFreed, Flying, Held, Waited, Heard, Runs
<1> QED BY <1>1, PagesInvariant, PTL

(* A form sends one request at a time: its button is disabled while the    *)
(* request it shows is pending, a step-up asked for in between included.   *)
THEOREM OneSave == Spec => []OneSaveAtATime
<1>1. PagesInv => OneSaveAtATime
  BY DEF PagesInv, SendInv, RivalInv, OneSaveAtATime, Flying, Heard, Runs, Rivals
<1> QED BY <1>1, PagesInvariant, PTL

(* A blocking rule that is asked for has what its scope needs and nothing  *)
(* of a choice made before, however the form was filled in and reopened.   *)
THEOREM RulesAreTheirOwn == Spec => []RuleNamesItsOwn
<1>1. PagesInv => RuleNamesItsOwn
  BY DEF PagesInv, SendInv, FineInv, Fine, OwnRule, RuleNamesItsOwn, Flying, Runs
<1> QED BY <1>1, PagesInvariant, PTL

-----------------------------------------------------------------------------
(* The Add-Peer form: what is asked for in one session carries one request *)
(* id, and the server makes one peer of an id.  Ids holds, of every row    *)
(* and every create that is running, the session and the id it carries.    *)
Ids ==
    {<<truth.rows[t].session, truth.rows[t].id>> : t \in Targets}
      \cup {<<calls[h].act.arg.session, calls[h].act.arg.id>> : h \in Running("addpeer")}

PeerShape(r) == r = [status |-> r.status, name |-> r.name, id |-> r.id, session |-> r.session]

RowsInv ==
    /\ DOMAIN truth = {"rows"}
    /\ truth.rows = [t \in Targets |-> truth.rows[t]]
    /\ \A t \in Targets : PeerShape(truth.rows[t])
    /\ \A s, t \in Targets : truth.rows[s].id = truth.rows[t].id /\ truth.rows[s].id # 0 => s = t

IdsInv ==
    /\ asked \in Nat
    /\ \A p \in Ids : p[1] \in 0..asked /\ p[2] \in 0..asked /\ (p[1] = 0 <=> p[2] = 0)
    /\ \A p, q \in Ids : p[1] = q[1] => p[2] = q[2]

(* A form that can be sent carries the id of what was sent in its session. *)
AddForm(u) ==
    /\ UiShape(u) /\ u.draft = [name |-> u.draft.name, id |-> u.draft.id, session |-> u.draft.session]
    /\ u.draft.id \in 0..asked + 1 /\ u.draft.session \in 0..asked + 1
    /\ u.modal = "add" => u.draft.id # 0 /\ u.draft.session # 0
    /\ u.modal = "add" /\ "link" \notin u.result =>
          \A p \in Ids : p[1] = u.draft.session => p[2] = u.draft.id

SessionInv == page = "peers" => RowsInv /\ IdsInv /\ AddForm(ui)

(* A step that carries no new session.                                     *)
LEMMA QuietSession ==
    ASSUME RowsInv', IdsInv, plan' = plan, asked' \in {asked, asked + 1}, Ids' \subseteq Ids,
           NEW u, u = ui', AddForm(u)
    PROVE  SessionInv'
<1>1. IdsInv'
  BY DEF IdsInv
<1>2. AddForm(ui)'
  BY DEF AddForm, IdsInv
<1> QED BY <1>1, <1>2 DEF SessionInv

(* The creates that run on.                                                *)
LEMMA IdsKept ==
    ASSUME \A t \in Targets : truth'.rows[t].session = truth.rows[t].session
                              /\ truth'.rows[t].id = truth.rows[t].id,
           \A h \in Slots : calls'[h].act.op = "addpeer" => calls'[h].act = calls[h].act
    PROVE  Ids' \subseteq Ids
BY DEF Ids, Running

LEMMA RowsKept == ASSUME RowsInv, truth' = truth PROVE RowsInv'
BY DEF RowsInv, PeerShape

LEMMA SessionKept ==
    ASSUME RowsInv, IdsInv, plan' = plan, truth' = truth, asked' \in {asked, asked + 1},
           \A h \in Slots : calls'[h].act.op = "addpeer" => calls'[h].act = calls[h].act,
           NEW u, u = ui', AddForm(u)
    PROVE  SessionInv'
<1>1. Ids' \subseteq Ids
  BY IdsKept
<1> QED BY <1>1, RowsKept, QuietSession

LEMMA AnsweredActs ==
    ASSUME CallInv, NEW g \in Slots, NEW s, Answered(g, s)
    PROVE  \A h \in Slots : calls'[h].act = calls[h].act
<1>1. ASSUME NEW h \in Slots PROVE calls'[h].act = calls[h].act
  <2>1. calls'[h] = IF h = g THEN [calls[h] EXCEPT !.stage = s] ELSE calls[h]
    BY DEF Answered, CallInv
  <2>2. Alike(calls[h], [calls[h] EXCEPT !.stage = s])
    BY StageAlike DEF CallInv
  <2> QED BY <2>1, <2>2 DEF Alike
<1> QED BY <1>1

LEMMA EndedActs ==
    ASSUME CallInv, NEW g \in Slots, calls' = [calls EXCEPT ![g] = NoCall]
    PROVE  \A h \in Slots : calls'[h].act.op = "addpeer" => calls'[h].act = calls[h].act
BY DEF CallInv, NoCall

(* A change of the row of t, other than of its session.                    *)
LEMMA RowChanges ==
    ASSUME RowsInv, IdsInv, plan' = plan, asked' = asked, NEW t, NEW r, truth' = Put(t, r),
           t \in Targets => /\ PeerShape(r)
                            /\ r.id = truth.rows[t].id /\ r.session = truth.rows[t].session,
           \A h \in Slots : calls'[h].act.op = "addpeer" => calls'[h].act = calls[h].act,
           NEW u, u = ui', AddForm(u)
    PROVE  SessionInv'
<1>1. /\ DOMAIN truth' = {"rows"} /\ truth'.rows = [truth.rows EXCEPT ![t] = r]
  BY DEF RowsInv, Put
<1>2. /\ truth'.rows = [s \in Targets |-> truth'.rows[s]]
      /\ \A s \in Targets : truth'.rows[s] = IF s = t THEN r ELSE truth.rows[s]
  BY <1>1 DEF RowsInv
<1>3. \A s \in Targets : /\ PeerShape(truth'.rows[s])
                         /\ truth'.rows[s].id = truth.rows[s].id
                         /\ truth'.rows[s].session = truth.rows[s].session
  BY <1>2 DEF RowsInv
<1>4. RowsInv'
  BY <1>1, <1>2, <1>3 DEF RowsInv, PeerShape
<1>5. Ids' \subseteq Ids
  BY <1>3, IdsKept
<1> QED BY <1>4, <1>5, QuietSession

LEMMA NameKeepsShape ==
    ASSUME NEW r, PeerShape(r), NEW n
    PROVE  LET q == [r EXCEPT !.name = n] IN PeerShape(q) /\ q.id = r.id /\ q.session = r.session
<1> DEFINE q == [r EXCEPT !.name = n]
<1>1. q = [status |-> r.status, name |-> n, id |-> r.id, session |-> r.session]
  BY DEF PeerShape
<1> QED BY <1>1 DEF PeerShape

LEMMA StatusKeepsShape ==
    ASSUME NEW r, PeerShape(r), NEW n
    PROVE  LET q == [r EXCEPT !.status = n] IN PeerShape(q) /\ q.id = r.id /\ q.session = r.session
<1> DEFINE q == [r EXCEPT !.status = n]
<1>1. q = [status |-> n, name |-> r.name, id |-> r.id, session |-> r.session]
  BY DEF PeerShape
<1> QED BY <1>1 DEF PeerShape

(* The states of the page, written out.                                    *)
PeersUi(m, t, d, r) == [modal |-> m, target |-> t, draft |-> d, result |-> r]
AddDraft(n, i, s)   == [name |-> n, id |-> i, session |-> s]

LEMMA AddFormOf ==
    ASSUME NEW m, NEW t, NEW n, NEW i \in 0..asked + 1, NEW s \in 0..asked + 1, NEW r,
           m = "add" => i # 0 /\ s # 0,
           m = "add" /\ "link" \notin r => \A p \in Ids : p[1] = s => p[2] = i
    PROVE  AddForm(PeersUi(m, t, AddDraft(n, i, s), r))
BY DEF AddForm, UiShape, PeersUi, AddDraft

LEMMA AddFormIs ==
    ASSUME NEW u, AddForm(u)
    PROVE  u = PeersUi(u.modal, u.target, AddDraft(u.draft.name, u.draft.id, u.draft.session), u.result)
BY DEF AddForm, UiShape, PeersUi, AddDraft

LEMMA UiFields == ASSUME NEW u, UiShape(u) PROVE DOMAIN u = {"modal", "target", "draft", "result"}
BY DEF UiShape

LEMMA ModalOf ==
    ASSUME NEW u, UiShape(u), NEW m
    PROVE  [u EXCEPT !.modal = m] = PeersUi(m, u.target, u.draft, u.result)
BY DEF UiShape, PeersUi

LEMMA ResultOf ==
    ASSUME NEW u, UiShape(u), NEW r
    PROVE  [u EXCEPT !.result = r] = PeersUi(u.modal, u.target, u.draft, r)
BY DEF UiShape, PeersUi

LEMMA ModalTargetOf ==
    ASSUME NEW u, UiShape(u), NEW m, NEW t
    PROVE  [u EXCEPT !.modal = m, !.target = t] = PeersUi(m, t, u.draft, u.result)
<1> DEFINE v == [u EXCEPT !.modal = m, !.target = t]
<1>1. v = [k \in {"modal", "target", "draft", "result"} |->
             IF k = "modal" THEN m ELSE IF k = "target" THEN t ELSE u[k]]
  BY UiFields
<1>2. v = [modal |-> m, target |-> t, draft |-> u.draft, result |-> u.result]
  BY <1>1
<1> QED BY <1>2 DEF PeersUi

LEMMA OpenedOf ==
    ASSUME NEW u, UiShape(u), NEW m, NEW t, NEW d
    PROVE  [u EXCEPT !.modal = m, !.target = t, !.draft = d] = PeersUi(m, t, d, u.result)
<1> DEFINE v == [u EXCEPT !.modal = m, !.target = t, !.draft = d]
<1>1. v = [k \in {"modal", "target", "draft", "result"} |->
             IF k = "modal" THEN m ELSE IF k = "target" THEN t ELSE IF k = "draft" THEN d ELSE u[k]]
  BY UiFields
<1>2. v = [modal |-> m, target |-> t, draft |-> d, result |-> u.result]
  BY <1>1
<1> QED BY <1>2 DEF PeersUi

LEMMA NamedOf ==
    ASSUME NEW u, AddForm(u), NEW n
    PROVE  [u EXCEPT !.draft.name = n]
             = PeersUi(u.modal, u.target, AddDraft(n, u.draft.id, u.draft.session), u.result)
<1>1. [u.draft EXCEPT !.name = n] = AddDraft(n, u.draft.id, u.draft.session)
  BY DEF AddForm, AddDraft
<1>2. [u EXCEPT !.draft.name = n] = [u EXCEPT !.draft = [u.draft EXCEPT !.name = n]]
  OBVIOUS
<1>3. [u EXCEPT !.draft = [u.draft EXCEPT !.name = n]]
        = PeersUi(u.modal, u.target, [u.draft EXCEPT !.name = n], u.result)
  BY DEF AddForm, UiShape, PeersUi
<1> QED BY <1>1, <1>2, <1>3

EditedUi(u, m, t, n) == [u EXCEPT !.modal = m, !.target = t, !.draft.name = n]

LEMMA EditedOf ==
    ASSUME NEW u, AddForm(u), NEW m, NEW t, NEW n
    PROVE  EditedUi(u, m, t, n)
             = PeersUi(m, t, AddDraft(n, u.draft.id, u.draft.session), u.result)
<1> DEFINE d == [u.draft EXCEPT !.name = n]
           v == [u EXCEPT !.modal = m, !.target = t, !.draft.name = n]
<1>1. d = AddDraft(n, u.draft.id, u.draft.session)
  BY DEF AddForm, AddDraft
<1>2. v = [k \in {"modal", "target", "draft", "result"} |->
             IF k = "modal" THEN m ELSE IF k = "target" THEN t ELSE IF k = "draft" THEN d ELSE u[k]]
  BY UiFields DEF AddForm
<1>3. v = [modal |-> m, target |-> t, draft |-> d, result |-> u.result]
  BY <1>2
<1> QED BY <1>1, <1>3 DEF PeersUi, EditedUi

LEMMA LatestAct ==
    ASSUME NEW c, AsNamed(c), NEW s PROVE [c EXCEPT !.latest = s].act = c.act
<1>1. CASE c = NoCall
  BY <1>1 DEF NoCall
<1>2. CASE c # NoCall
  <2>1. [c EXCEPT !.latest = s]
          = [act |-> c.act, via |-> c.via, proof |-> c.proof, named |-> c.named, stage |-> c.stage,
             here |-> c.here, latest |-> s]
    BY <1>2 DEF AsNamed, IsCall
  <2> QED BY <2>1
<1> QED BY <1>1, <1>2

LEMMA ForgottenActs ==
    ASSUME CallInv, NEW ops, calls' = Unfollowed(ops)
    PROVE  \A h \in Slots : calls'[h].act = calls[h].act
<1>1. ASSUME NEW h \in Slots PROVE calls'[h].act = calls[h].act
  <2>1. calls'[h] = calls[h] \/ calls'[h] = [calls[h] EXCEPT !.latest = FALSE]
    BY DEF Unfollowed
  <2>2. [calls[h] EXCEPT !.latest = FALSE].act = calls[h].act
    BY LatestAct DEF CallInv
  <2> QED BY <2>1, <2>2
<1> QED BY <1>1

LEMMA SentActs ==
    ASSUME CallInv, NEW a, NEW via, NEW proof, NEW named, NEW u, Send(a, via, proof, named, u)
    PROVE  /\ plan' = plan /\ truth' = truth /\ asked' = asked + 1 /\ ui' = u
           /\ \E g \in Slots : /\ calls'[g].act = a
                               /\ \A h \in Slots \ {g} : calls'[h].act = calls[h].act
<1>1. PICK g \in Slots : calls' = Sent(a, via, proof, named, g)
  BY DEF Send
<1>2. calls'[g].act = a
  BY <1>1 DEF Sent, Request
<1>3. ASSUME NEW h \in Slots \ {g} PROVE calls'[h].act = calls[h].act
  <2>1. calls'[h] = calls[h] \/ calls'[h] = [calls[h] EXCEPT !.latest = FALSE]
    BY <1>1 DEF Sent
  <2>2. [calls[h] EXCEPT !.latest = FALSE].act = calls[h].act
    BY LatestAct DEF CallInv
  <2> QED BY <2>1, <2>2
<1> QED BY <1>2, <1>3 DEF Send

(* The steps of the page, by what they are made of.                        *)
LEMMA SessionDo ==
    ASSUME RowsInv, IdsInv, NEW u, Do(u), AddForm(u) PROVE SessionInv'
BY SessionKept DEF Do, Local

LEMMA SessionForget ==
    ASSUME CallInv, RowsInv, IdsInv, NEW u, NEW ops, Forget(u, ops), AddForm(u) PROVE SessionInv'
<1>1. \A h \in Slots : calls'[h].act = calls[h].act
  BY ForgottenActs DEF Forget
<1> QED BY <1>1, SessionKept DEF Forget

LEMMA SessionAsk ==
    ASSUME CallInv, RowsInv, IdsInv, NEW op, NEW t, NEW arg, NEW u, Ask(op, t, arg, u), op # "addpeer",
           AddForm(u)
    PROVE  SessionInv'
<1>1. /\ plan' = plan /\ truth' = truth /\ asked' = asked + 1 /\ ui' = u
      /\ \E g \in Slots : /\ calls'[g].act = Act(op, t, arg)
                          /\ \A h \in Slots \ {g} : calls'[h].act = calls[h].act
  BY SentActs DEF Ask
<1>2. \A h \in Slots : calls'[h].act.op = "addpeer" => calls'[h].act = calls[h].act
  BY <1>1 DEF Act
<1> QED BY <1>1, <1>2, SessionKept

LEMMA SessionAdds ==
    ASSUME CallInv, RowsInv, IdsInv, AddForm(ui), Ask("addpeer", None, ui.draft, ui),
           ui.modal = "add", "link" \notin ui.result
    PROVE  SessionInv'
<1> DEFINE s == ui.draft.session
           i == ui.draft.id
<1>1. /\ plan' = plan /\ truth' = truth /\ asked' = asked + 1 /\ ui' = ui
      /\ \E g \in Slots : /\ calls'[g].act = Act("addpeer", None, ui.draft)
                          /\ \A h \in Slots \ {g} : calls'[h].act = calls[h].act
  BY SentActs DEF Ask
<1>2. Ids' \subseteq Ids \cup {<<s, i>>}
  BY <1>1 DEF Ids, Running, Act
<1>3. s \in 1..asked + 1 /\ i \in 1..asked + 1 /\ \A p \in Ids : p[1] = s => p[2] = i
  BY DEF AddForm, IdsInv
<1>4. IdsInv'
  <2> HIDE DEF s, i
  <2>1. asked' \in Nat /\ asked \in Nat
    BY <1>1 DEF IdsInv
  <2>2. \A p \in Ids' : p[1] \in 0..asked' /\ p[2] \in 0..asked' /\ (p[1] = 0 <=> p[2] = 0)
    BY <1>1, <1>2, <1>3, <2>1 DEF IdsInv
  <2>3. \A p, q \in Ids' : p[1] = q[1] => p[2] = q[2]
    BY <1>2, <1>3 DEF IdsInv
  <2> QED BY <2>1, <2>2, <2>3 DEF IdsInv
<1>5. AddForm(ui)'
  <2>1. /\ ui.draft.id \in 0..asked' + 1 /\ ui.draft.session \in 0..asked' + 1
    BY <1>1, <1>3 DEF IdsInv
  <2>2. \A p \in Ids' : p[1] = ui.draft.session => p[2] = ui.draft.id
    BY <1>2, <1>3
  <2> QED BY <1>1, <2>1, <2>2 DEF AddForm, UiShape
<1> QED BY <1>1, <1>4, <1>5, RowsKept DEF SessionInv

LEMMA SessionAnswer ==
    ASSUME CallInv, RowsInv, IdsInv, AddForm(ui), NEW h \in Slots, NEW u, NEW keys,
           Succeeds(h, u, keys), AddForm(u)
    PROVE  SessionInv'
<1>1. /\ plan' = plan /\ truth' = truth /\ asked' = asked
      /\ ui' = (IF calls[h].here THEN u ELSE ui) /\ calls' = [calls EXCEPT ![h] = NoCall]
  BY DEF Succeeds
<1>2. \A g \in Slots : calls'[g].act.op = "addpeer" => calls'[g].act = calls[g].act
  BY <1>1, EndedActs
<1>3. AddForm(IF calls[h].here THEN u ELSE ui)
  OBVIOUS
<1>4. PICK w : w = (IF calls[h].here THEN u ELSE ui)
  OBVIOUS
<1> QED BY <1>1, <1>2, <1>3, <1>4, SessionKept

LEMMA SessionAnswered ==
    ASSUME CallInv, RowsInv, IdsInv, AddForm(ui), NEW h \in Slots, NEW u, NEW keys,
           Answer(h, u, keys), AddForm(u)
    PROVE  SessionInv'
BY SessionAnswer DEF Answer, Fails

LEMMA PeersSession ==
    ASSUME CallInv, RowsInv, IdsInv, AddForm(ui), PeersNext, page = "peers" PROVE SessionInv'
<1> DEFINE i == ui.draft.id
           s == ui.draft.session
<1>1. /\ FreshId \in 0..asked + 1 /\ FreshId # 0 /\ i \in 0..asked + 1 /\ s \in 0..asked + 1
      /\ UiShape(ui)
  BY DEF FreshId, IdsInv, AddForm
<1>2. ui = PeersUi(ui.modal, ui.target, AddDraft(ui.draft.name, i, s), ui.result)
  BY AddFormIs
<1>3. ASSUME NEW m, NEW t, NEW r, m = "add" => ui.modal = "add" /\ ("link" \notin r => "link" \notin ui.result)
      PROVE  AddForm(PeersUi(m, t, ui.draft, r))
  <2>1. ui.draft = AddDraft(ui.draft.name, i, s)
    BY DEF AddForm, AddDraft
  <2>2. AddForm(PeersUi(m, t, AddDraft(ui.draft.name, i, s), r))
    <3>1. m = "add" => i # 0 /\ s # 0
      BY <1>3 DEF AddForm
    <3>2. m = "add" /\ "link" \notin r => \A p \in Ids : p[1] = s => p[2] = i
      BY <1>3 DEF AddForm
    <3> HIDE DEF i, s
    <3> QED BY <1>1, <3>1, <3>2, AddFormOf
  <2> QED BY <2>1, <2>2
<1>4. ASSUME OpenAdd PROVE SessionInv'
  <2> DEFINE d == [name |-> None, id |-> FreshId, session |-> FreshId]
  <2>1. Forget([ui EXCEPT !.modal = "add", !.target = None, !.draft = d], {"addpeer"})
    BY <1>4 DEF OpenAdd
  <2>2. [ui EXCEPT !.modal = "add", !.target = None, !.draft = d]
          = PeersUi("add", None, AddDraft(None, FreshId, FreshId), ui.result)
    BY <1>1, OpenedOf DEF AddDraft
  <2>3. \A p \in Ids : p[1] # FreshId
    BY DEF IdsInv, FreshId
  <2>4. AddForm(PeersUi("add", None, AddDraft(None, FreshId, FreshId), ui.result))
    BY <1>1, <2>3, AddFormOf
  <2> QED BY <2>1, <2>2, <2>4, SessionForget
<1>5. ASSUME CloseAdd PROVE SessionInv'
  <2>1. PICK m, t, r : m # "add" /\ Forget([ui EXCEPT !.modal = m, !.target = t, !.result = r,
                                                      !.draft.id = FreshId], {"addpeer"})
    <3> DEFINE m == IF ui.modal = "confirm" THEN ui.modal ELSE "none"
               t == IF ui.modal = "confirm" THEN ui.target ELSE None
               r == ui.result \ {"link"}
    <3>1. m # "add" /\ Forget([ui EXCEPT !.modal = m, !.target = t, !.result = r,
                                         !.draft.id = FreshId], {"addpeer"})
      BY <1>5 DEF CloseAdd
    <3> QED BY <3>1
  <2>2. [ui EXCEPT !.modal = m, !.target = t, !.result = r, !.draft.id = FreshId]
          = PeersUi(m, t, AddDraft(ui.draft.name, FreshId, s), r)
    <3> DEFINE d == [ui.draft EXCEPT !.id = FreshId]
               v == [ui EXCEPT !.modal = m, !.target = t, !.result = r, !.draft.id = FreshId]
    <3>1. d = AddDraft(ui.draft.name, FreshId, s)
      BY DEF AddForm, AddDraft
    <3>2. v = [k \in {"modal", "target", "draft", "result"} |->
                 IF k = "modal" THEN m ELSE IF k = "target" THEN t ELSE IF k = "draft" THEN d ELSE r]
      BY UiFields DEF AddForm
    <3>3. v = [modal |-> m, target |-> t, draft |-> d, result |-> r]
      BY <3>2
    <3> QED BY <3>1, <3>3 DEF PeersUi
  <2>3. AddForm(PeersUi(m, t, AddDraft(ui.draft.name, FreshId, s), r))
    BY <1>1, <2>1, AddFormOf
  <2> QED BY <2>1, <2>2, <2>3, SessionForget
<1>6. ASSUME NEW t \in Targets, OpenEditPeer(t) PROVE SessionInv'
  <2>1. PICK n : Do(EditedUi(ui, "edit", t, n))
    BY <1>6 DEF OpenEditPeer, EditedUi
  <2>2. EditedUi(ui, "edit", t, n) = PeersUi("edit", t, AddDraft(n, i, s), ui.result)
    BY <1>1, EditedOf
  <2>3. AddForm(PeersUi("edit", t, AddDraft(n, i, s), ui.result))
    BY <1>1, AddFormOf
  <2> QED BY <2>1, <2>2, <2>3, SessionDo
<1>7. ASSUME PeerForm PROVE SessionInv'
  <2>1. PICK n : Do([ui EXCEPT !.draft.name = n])
    BY <1>7 DEF PeerForm
  <2>2. [ui EXCEPT !.draft.name = n] = PeersUi(ui.modal, ui.target, AddDraft(n, i, s), ui.result)
    BY NamedOf
  <2>3. AddForm(PeersUi(ui.modal, ui.target, AddDraft(n, i, s), ui.result))
    <3>1. /\ ui.modal = "add" => i # 0 /\ s # 0
          /\ ui.modal = "add" /\ "link" \notin ui.result => \A p \in Ids : p[1] = s => p[2] = i
      BY DEF AddForm
    <3> HIDE DEF i, s
    <3> QED BY <1>1, <3>1, AddFormOf
  <2> QED BY <2>1, <2>2, <2>3, SessionDo
<1>8. ASSUME SubmitPeer PROVE SessionInv'
  <2>1. CASE ui.modal = "edit"
    BY <1>8, <2>1, SessionAsk DEF SubmitPeer
  <2>2. CASE ui.modal # "edit"
    BY <1>8, <2>2, SessionAdds DEF SubmitPeer, PeerFormShown
  <2> QED BY <2>1, <2>2
<1>9. ASSUME NEW t \in Targets, PeerRowAction(t) PROVE SessionInv'
  <2>1. CASE \E op \in {"delpeer", "peerconfig"} : Ask(op, t, None, ui)
    BY <2>1, SessionAsk
  <2>2. CASE Do([ui EXCEPT !.modal = "confirm", !.target = t])
    <3>1. [ui EXCEPT !.modal = "confirm", !.target = t] = PeersUi("confirm", t, ui.draft, ui.result)
      BY <1>1, ModalTargetOf
    <3>2. AddForm(PeersUi("confirm", t, ui.draft, ui.result))
      BY <1>3
    <3> QED BY <2>2, <3>1, <3>2, SessionDo
  <2> QED BY <1>9, <2>1, <2>2 DEF PeerRowAction
<1>10. ASSUME ConfirmResend PROVE SessionInv'
  <2> DEFINE closed == [ui EXCEPT !.modal = "none", !.target = None]
  <2>1. closed = PeersUi("none", None, ui.draft, ui.result)
    BY <1>1, ModalTargetOf
  <2>2. AddForm(closed)
    BY <1>3, <2>1
  <2>3. Do(closed) \/ Ask("resendpeer", ui.target, None, closed)
    BY <1>10 DEF ConfirmResend
  <2> HIDE DEF closed
  <2> QED BY <2>2, <2>3, SessionDo, SessionAsk
<1>11. ASSUME DismissPeerResult PROVE SessionInv'
  <2>1. Do([ui EXCEPT !.result = ui.result \ {"shown"}])
    BY <1>11 DEF DismissPeerResult
  <2>2. [ui EXCEPT !.result = ui.result \ {"shown"}]
          = PeersUi(ui.modal, ui.target, ui.draft, ui.result \ {"shown"})
    BY <1>1, ResultOf
  <2>3. AddForm(PeersUi(ui.modal, ui.target, ui.draft, ui.result \ {"shown"}))
    BY <1>3
  <2> QED BY <2>1, <2>2, <2>3, SessionDo
<1>12. ASSUME NEW link \in BOOLEAN PROVE AddForm(CreateSucceeded(link))
  <2> DEFINE d == [name |-> None, id |-> FreshId, session |-> s]
             done == [ui EXCEPT !.draft = d]
  <2>1. done = PeersUi(ui.modal, ui.target, AddDraft(None, FreshId, s), ui.result)
    BY <1>1 DEF UiShape, PeersUi, AddDraft
  <2>2. UiShape(done)
    BY <2>1 DEF UiShape, PeersUi
  <2>3. CreateSucceeded(link) = IF link THEN [done EXCEPT !.result = done.result \cup {"link"}]
                                ELSE [done EXCEPT !.modal = IF done.modal = "add" THEN "none" ELSE done.modal]
    BY DEF CreateSucceeded
  <2>4. PICK m, r : /\ CreateSucceeded(link) = PeersUi(m, ui.target, AddDraft(None, FreshId, s), r)
                    /\ m = "add" => "link" \in r /\ ui.modal = "add"
    <3> DEFINE e == AddDraft(None, FreshId, s)
    <3>1. done.modal = ui.modal /\ done.target = ui.target /\ done.draft = e /\ done.result = ui.result
      BY <2>1 DEF PeersUi
    <3> HIDE DEF done, e
    <3>2. CASE link
      <4>1. CreateSucceeded(link) = PeersUi(ui.modal, ui.target, e, ui.result \cup {"link"})
        BY <2>2, <2>3, <3>1, <3>2, ResultOf
      <4> QED BY <4>1 DEF e
    <3>3. CASE ~link
      <4> DEFINE m == IF ui.modal = "add" THEN "none" ELSE ui.modal
      <4>1. CreateSucceeded(link) = PeersUi(m, ui.target, e, ui.result)
        BY <2>2, <2>3, <3>1, <3>3, ModalOf
      <4>2. m # "add"
        OBVIOUS
      <4> QED BY <4>1, <4>2 DEF e
    <3> QED BY <3>2, <3>3
  <2>5. m = "add" => s # 0
    BY <2>4 DEF AddForm
  <2>6. AddForm(PeersUi(m, ui.target, AddDraft(None, FreshId, s), r))
    <3> HIDE DEF i, s
    <3> QED BY <1>1, <2>4, <2>5, AddFormOf
  <2> QED BY <2>4, <2>6
<1>13. ASSUME NEW h \in Slots, PeerAnswered(h) PROVE SessionInv'
  <2>1. CASE \E link \in BOOLEAN : Answer(h, CreateSucceeded(link), {"rows"})
    BY <1>12, <2>1, SessionAnswered
  <2>2. CASE Fails(h, ui, {"rows"})
    BY <2>2, SessionAnswer DEF Fails
  <2>3. ASSUME NEW keys, Answer(h, [ui EXCEPT !.modal = IF @ = "edit" THEN "none" ELSE @,
                                              !.target = IF ui.modal = "edit" THEN None ELSE @], keys)
        PROVE  SessionInv'
    <3>1. PICK m, t : /\ Answer(h, [ui EXCEPT !.modal = m, !.target = t], keys)
                      /\ m = "add" => ui.modal = "add"
      <4> DEFINE m == IF ui.modal = "edit" THEN "none" ELSE ui.modal
                 t == IF ui.modal = "edit" THEN None ELSE ui.target
      <4>1. Answer(h, [ui EXCEPT !.modal = m, !.target = t], keys) /\ (m = "add" => ui.modal = "add")
        BY <2>3
      <4> HIDE DEF m, t
      <4> QED BY <4>1, Zenon
    <3>2. [ui EXCEPT !.modal = m, !.target = t] = PeersUi(m, t, ui.draft, ui.result)
      BY <1>1, ModalTargetOf
    <3>3. AddForm(PeersUi(m, t, ui.draft, ui.result))
      BY <1>3, <3>1
    <3> QED BY <3>1, <3>2, <3>3, SessionAnswered
  <2>4. ASSUME NEW keys, Answer(h, [ui EXCEPT !.result = ui.result \cup {"shown"}], keys) PROVE SessionInv'
    <3>1. [ui EXCEPT !.result = ui.result \cup {"shown"}]
            = PeersUi(ui.modal, ui.target, ui.draft, ui.result \cup {"shown"})
      BY <1>1, ResultOf
    <3>2. AddForm(PeersUi(ui.modal, ui.target, ui.draft, ui.result \cup {"shown"}))
      BY <1>3
    <3> QED BY <2>4, <3>1, <3>2, SessionAnswered
  <2>5. CASE Answer(h, ui, {"rows"})
    BY <2>5, SessionAnswered
  <2> QED BY <1>13, <2>1, <2>2, <2>3, <2>4, <2>5 DEF PeerAnswered
<1>14. ASSUME NEW h \in Slots, NEW lists, Carry(h, lists)
       PROVE  /\ plan' = plan /\ asked' = asked /\ ui' = ui /\ truth' = lists
              /\ \A g \in Slots : calls'[g].act = calls[g].act
  BY <1>14, AnsweredActs DEF Carry, Commit
<1>15. ASSUME NEW h \in Slots, Decline(h) \/ Carry(h, truth) PROVE SessionInv'
  <2>1. /\ plan' = plan /\ asked' = asked /\ ui' = ui /\ truth' = truth
        /\ \A g \in Slots : calls'[g].act = calls[g].act
    BY <1>14, <1>15, AnsweredActs DEF Decline, Reject
  <2> QED BY <2>1, SessionKept
<1>16. ASSUME NEW h \in Slots, NEW t, NEW r, Carry(h, Put(t, r)),
              t \in Targets => /\ PeerShape(r)
                               /\ r.id = truth.rows[t].id /\ r.session = truth.rows[t].session
       PROVE  SessionInv'
  BY <1>14, <1>16, RowChanges
<1>17. ASSUME NEW h \in Slots, CreatePeer(h) PROVE SessionInv'
  <2> DEFINE d == calls[h].act.arg
  <2>1. Due(h, {"addpeer"})
    BY <1>17 DEF CreatePeer
  <2>2. h \in Running("addpeer")
    BY <2>1 DEF Due, Running
  <2>3. ASSUME NEW t \in Free, Carry(h, Put(t, PeerRow(d))), \A q \in Targets : truth.rows[q].id # d.id
        PROVE  SessionInv'
    <3>1. t \in Targets
      BY DEF Free
    <3> DEFINE r == PeerRow(d)
    <3>2. /\ r.id = d.id /\ r.session = d.session /\ PeerShape(r)
      BY DEF PeerRow, PeerShape
    <3>3. DOMAIN truth' = {"rows"} /\ truth'.rows = [truth.rows EXCEPT ![t] = r]
      BY <1>14, <2>3 DEF RowsInv, Put
    <3> HIDE DEF r
    <3>4. /\ truth'.rows = [q \in Targets |-> truth'.rows[q]]
          /\ \A q \in Targets : truth'.rows[q] = IF q = t THEN r ELSE truth.rows[q]
      BY <3>1, <3>3 DEF RowsInv
    <3>5. RowsInv'
      <4>1. \A q \in Targets : PeerShape(truth'.rows[q])
        BY <3>2, <3>4 DEF RowsInv
      <4>2. \A p, q \in Targets : truth'.rows[p].id = truth'.rows[q].id /\ truth'.rows[p].id # 0 => p = q
        BY <2>3, <3>2, <3>4 DEF RowsInv
      <4> QED BY <3>3, <3>4, <4>1, <4>2 DEF RowsInv, PeerShape
    <3>6. Ids' \subseteq Ids
      <4>1. ASSUME NEW q \in Targets PROVE <<truth'.rows[q].session, truth'.rows[q].id>> \in Ids
        BY <2>2, <3>2, <3>4 DEF Ids
      <4>2. ASSUME NEW g \in Slots, calls'[g].act.op = "addpeer"
            PROVE  <<calls'[g].act.arg.session, calls'[g].act.arg.id>> \in Ids
        BY <1>14, <2>3, <4>2 DEF Ids, Running
      <4> QED BY <4>1, <4>2 DEF Ids, Running
    <3> QED BY <1>14, <2>3, <3>5, <3>6, QuietSession
  <2> QED BY <1>15, <1>17, <2>3 DEF CreatePeer
<1>18. ASSUME NEW h \in Slots, UpdatePeer(h) \/ DeletePeer(h) \/ ReadPeerConfig(h) PROVE SessionInv'
  <2> DEFINE t == calls[h].act.target
  <2>1. CASE ReadPeerConfig(h)
    BY <1>15, <2>1 DEF ReadPeerConfig
  <2>2. CASE UpdatePeer(h)
    <3> DEFINE r == [truth.rows[t] EXCEPT !.name = calls[h].act.arg.name]
    <3>1. t \in Targets => PeerShape(r) /\ r.id = truth.rows[t].id /\ r.session = truth.rows[t].session
      BY NameKeepsShape DEF RowsInv
    <3>2. Carry(h, Put(t, r))
      BY <2>2 DEF UpdatePeer, Renamed
    <3> HIDE DEF r
    <3> QED BY <1>16, <3>1, <3>2
  <2>3. CASE DeletePeer(h)
    <3> DEFINE r == [truth.rows[t] EXCEPT !.status = "removed"]
    <3>1. t \in Targets => PeerShape(r) /\ r.id = truth.rows[t].id /\ r.session = truth.rows[t].session
      BY StatusKeepsShape DEF RowsInv
    <3>2. Carry(h, Put(t, r))
      BY <2>3 DEF DeletePeer, WithStatus
    <3> HIDE DEF r
    <3> QED BY <1>16, <3>1, <3>2
  <2> QED BY <1>18, <2>1, <2>2, <2>3
<1> QED BY <1>4, <1>5, <1>6, <1>7, <1>8, <1>9, <1>10, <1>11, <1>13, <1>17, <1>18 DEF PeersNext

-----------------------------------------------------------------------------
(* The steps that are not the page's.                                      *)
LEMMA BlankForm ==
    ASSUME asked \in Nat, NEW m, m # "add", NEW u, u = [BlankPeers EXCEPT !.modal = m] PROVE AddForm(u)
<1>1. u = PeersUi(m, None, AddDraft(None, 0, 0), {})
  BY DEF BlankPeers, Blank, NoPeer, PeersUi, AddDraft
<1>2. 0 \in 0..asked + 1
  OBVIOUS
<1> QED BY <1>1, <1>2, AddFormOf

LEMMA BlankPeersForm == ASSUME asked \in Nat, page = "peers" PROVE AddForm(BlankPage)
<1>1. BlankPage = BlankPeers
  BY DEF BlankPage
<1>2. BlankPeers = PeersUi("none", None, AddDraft(None, 0, 0), {})
  <2>1. [Blank EXCEPT !.draft = NoPeer]
          = [modal |-> "none", target |-> None, draft |-> NoPeer, result |-> None]
    BY DEF Blank
  <2>2. PICK b : b = [Blank EXCEPT !.draft = NoPeer]
    OBVIOUS
  <2>3. b.modal = "none" /\ b.target = None /\ b.draft = NoPeer /\ UiShape(b)
    BY <2>1, <2>2 DEF UiShape
  <2>4. BlankPeers = [b EXCEPT !.result = {}]
    BY <2>2 DEF BlankPeers
  <2>5. [b EXCEPT !.result = {}] = PeersUi(b.modal, b.target, b.draft, {})
    BY <2>3, ResultOf
  <2> QED BY <2>3, <2>4, <2>5 DEF NoPeer, AddDraft
<1>3. 0 \in 0..asked + 1
  OBVIOUS
<1> QED BY <1>1, <1>2, <1>3, AddFormOf

LEMMA SessionInit == ASSUME Init PROVE SessionInv
<1> SUFFICES ASSUME page = "peers" PROVE RowsInv /\ IdsInv /\ AddForm(ui)
  BY DEF SessionInv
<1>1. asked = 0 /\ AddForm(ui)
  BY BlankPeersForm DEF Init
<1>2. \A t \in Targets : StartRow(t) = [status |-> StartRow(t).status, name |-> "old", id |-> 0, session |-> 0]
  BY DEF StartRow, PeerRow, NoPeer
<1>3. truth = [rows |-> [t \in Targets |-> StartRow(t)]]
  BY DEF Init, StartLists, SettingsPageNames, RulePages
<1>4. RowsInv
  BY <1>2, <1>3 DEF RowsInv, PeerShape
<1>5. Running("addpeer") = {}
  BY DEF Init, Running, NoCall
<1>6. \A p \in Ids : p = <<0, 0>>
  BY <1>2, <1>3, <1>5 DEF Ids
<1>7. IdsInv
  BY <1>1, <1>6 DEF IdsInv
<1> QED BY <1>1, <1>4, <1>7

LEMMA SessionDialog ==
    ASSUME CallInv, PeersInv, RowsInv, IdsInv, AddForm(ui), page = "peers", Dialog PROVE SessionInv'
<1>1. dialog = Closed /\ dialog.gate = NoGate /\ ceremony.at = "none" /\ page \notin GatePages
  BY DEF PeersInv, Closed, NoCeremony, GatePages, GatedPageNames
<1>2. ~(SubmitCode \/ UsePasskey \/ CloseDialog \/ StampSession \/ CeremonyFails \/ RunHeldAction)
  BY <1>1 DEF SubmitCode, UsePasskey, CloseDialog, StampSession, CeremonyFails, RunHeldAction
<1>3. CASE ProofExpires
  <2>1. plan' = plan /\ truth' = truth /\ asked' = asked /\ calls' = calls /\ ui' = ui
    BY <1>3 DEF ProofExpires, pageVars
  <2> QED BY <2>1, SessionKept
<1>4. ASSUME NEW h \in Slots, CheckProof(h) PROVE SessionInv'
  <2>1. PICK s : Answered(h, s)
    BY <1>4 DEF CheckProof, CodeAccepted, StampRedeemed, GraceCovers, ProofMissing, Allow
  <2>2. plan' = plan /\ truth' = truth /\ asked' = asked /\ ui' = ui
    BY <1>4 DEF CheckProof, CodeAccepted, StampRedeemed, GraceCovers, ProofMissing, Allow
  <2>3. \A g \in Slots : calls'[g].act = calls[g].act
    BY <2>1, AnsweredActs
  <2> QED BY <2>2, <2>3, SessionKept
<1>5. ASSUME NEW h \in Slots, RedirectToLogin(h, BlankPage) PROVE SessionInv'
  <2>1. /\ plan' = plan /\ truth' = truth /\ asked' = asked
        /\ ui' = [BlankPage EXCEPT !.modal = "login"]
        /\ calls' = [g \in Slots |-> IF g = h \/ calls[g] = NoCall THEN NoCall
                                     ELSE [calls[g] EXCEPT !.here = FALSE]]
    BY <1>5 DEF RedirectToLogin
  <2>2. ASSUME NEW g \in Slots, calls'[g].act.op = "addpeer" PROVE calls'[g].act = calls[g].act
    <3>1. CASE g = h \/ calls[g] = NoCall
      BY <2>1, <2>2, <3>1 DEF NoCall
    <3>2. CASE ~(g = h \/ calls[g] = NoCall)
      BY <2>1, <3>2, HereFalse
    <3> QED BY <3>1, <3>2
  <2>3. ui' = [BlankPeers EXCEPT !.modal = "login"]
    BY <2>1 DEF BlankPage
  <2>4. AddForm([BlankPeers EXCEPT !.modal = "login"])
    BY BlankForm DEF IdsInv
  <2> QED BY <2>1, <2>2, <2>3, <2>4, SessionKept
<1> QED BY <1>1, <1>2, <1>3, <1>4, <1>5 DEF Dialog

LEMMA SessionNetwork ==
    ASSUME CallInv, RowsInv, IdsInv, AddForm(ui), page = "peers", Network PROVE SessionInv'
<1>1. plan' = plan /\ truth' = truth /\ asked' = asked /\ ui' = ui
  BY DEF Network, ReadList, PollList, ServeList, ListArrives, ListFails, Poll, Refuse, LoseAnswer, Arriving,
         SettingsPageNames
<1>2. calls' = calls \/ \E h \in Slots : \E s : Answered(h, s)
  BY DEF Network, ReadList, PollList, ServeList, ListArrives, ListFails, Poll, Refuse, LoseAnswer
<1>3. \A g \in Slots : calls'[g].act = calls[g].act
  BY <1>2, AnsweredActs
<1> QED BY <1>1, <1>3, SessionKept

LEMMA SessionOthers ==
    ASSUME RowsInv, IdsInv, AddForm(ui), page = "peers", Others PROVE SessionInv'
<1>1. PICK t \in Targets : truth' = WithStatus(t, "removed")
  BY DEF Others, Outsider, Elsewhere, SettingsPageNames
<1>2. plan' = plan /\ asked' = asked /\ ui' = ui /\ calls' = calls
  BY DEF Others, Outsider
<1> DEFINE r == [truth.rows[t] EXCEPT !.status = "removed"]
<1>3. PeerShape(r) /\ r.id = truth.rows[t].id /\ r.session = truth.rows[t].session
  BY StatusKeepsShape DEF RowsInv
<1>4. truth' = Put(t, r)
  BY <1>1 DEF WithStatus
<1> HIDE DEF r
<1> QED BY <1>2, <1>3, <1>4, RowChanges

LEMMA SessionNavigate ==
    ASSUME CallInv, RowsInv, IdsInv, AddForm(ui), page = "peers", Navigate PROVE SessionInv'
<1>1. plan' = plan /\ truth' = truth /\ asked' = asked /\ ui' = BlankPage /\ AddForm(BlankPage)
  BY BlankPeersForm DEF Navigate, Leave, Unmount, Mount, IdsInv
<1>2. ASSUME NEW g \in Slots PROVE calls'[g].act = calls[g].act
  <2>1. \/ calls' = calls
        \/ calls' = [h \in Slots |->
                       IF calls[h] = NoCall THEN NoCall ELSE [calls[h] EXCEPT !.here = FALSE]]
    BY DEF Navigate, Leave, Unmount, Mount
  <2>2. CASE calls[g] = NoCall
    BY <2>1, <2>2
  <2>3. CASE calls[g] # NoCall
    BY <2>1, <2>3, HereFalse
  <2> QED BY <2>2, <2>3
<1> QED BY <1>1, <1>2, SessionKept

LEMMA PagesPlan == ASSUME PagesInv, [Next]_vars PROVE plan' = plan
<1>1. CASE GatedNext \/ ProfileNext \/ DirectoryNext \/ SettingsNext \/ RulesNext \/ Network \/ Others
  <2>1. PageStep
    BY <1>1, GatedStep, ProfileStep, DirectoryStep, SettingsStep, NetworkStays, RulesStep
    DEF RulesNext, PagesInv, FormInv, PageStep
  <2> QED BY <2>1 DEF PageStep, Stays, Forgets, Sends, Opens, Hears, GateStays
<1>2. CASE Navigate
  BY <1>2 DEF Navigate, Leave, Unmount, Mount
<1>3. CASE Dialog
  BY <1>3 DEF Dialog, SubmitCode, UsePasskey, CloseDialog, Escape, Local, StampSession, CeremonyFails,
         RunHeldAction, ProofExpires, CheckProof, CodeAccepted, StampRedeemed, GraceCovers, ProofMissing,
         Allow, RedirectToLogin, Send, SendUnfollowed, pageVars
<1>4. CASE UNCHANGED vars
  BY <1>4 DEF vars, pageVars
<1> QED BY <1>1, <1>2, <1>3, <1>4 DEF Next

LEMMA SessionNext == ASSUME PagesInv, SessionInv, [Next]_vars PROVE SessionInv'
<1>1. CallInv /\ PeersInv
  BY DEF PagesInv, GateInv, SendInv
<1>2. plan' = plan
  BY PagesPlan
<1>3. CASE page # "peers"
  BY <1>2, <1>3 DEF SessionInv, page
<1>4. CASE page = "peers"
  <2>1. RowsInv /\ IdsInv /\ AddForm(ui)
    BY <1>4 DEF SessionInv
  <2>2. ~(GatedNext \/ ProfileNext \/ RulesNext \/ SettingsNext)
    BY <1>4 DEF GatedNext, ProfileNext, RulesNext, SettingsNext, SettingsPageNames, RulePages
  <2>3. CASE DirectoryNext
    BY <1>1, <1>4, <2>1, <2>3, PeersSession DEF DirectoryNext
  <2>4. CASE Dialog
    BY <1>1, <1>4, <2>1, <2>4, SessionDialog
  <2>5. CASE Network
    BY <1>1, <1>4, <2>1, <2>5, SessionNetwork
  <2>6. CASE Others
    BY <1>4, <2>1, <2>6, SessionOthers
  <2>7. CASE Navigate
    BY <1>1, <1>4, <2>1, <2>7, SessionNavigate
  <2>8. CASE UNCHANGED vars
    <3>1. plan' = plan /\ truth' = truth /\ asked' = asked /\ calls' = calls /\ ui' = ui
      BY <2>8 DEF vars, pageVars
    <3> QED BY <2>1, <3>1, SessionKept
  <2> QED BY <2>2, <2>3, <2>4, <2>5, <2>6, <2>7, <2>8 DEF Next
<1> QED BY <1>3, <1>4

(* One session of the Add-Peer form makes one peer, however often it is    *)
(* sent again after its answer was lost, and whoever removes peers, leaves *)
(* the page or is sent to the login page meanwhile: the id of the session  *)
(* (requestIdRef) changes only when what was sent with it was answered or  *)
(* the session ends, and the server makes one peer of an id.               *)
THEOREM OneSessionOnePeer == Spec => []OnePeerPerSession
<1>1. Init => PagesInv /\ SessionInv
  BY PagesInvInit, SessionInit
<1>2. PagesInv /\ SessionInv /\ [Next]_vars => (PagesInv /\ SessionInv)'
  BY PagesInvNext, SessionNext
<1>3. SessionInv => OnePeerPerSession
  <2> SUFFICES ASSUME RowsInv, IdsInv, NEW s \in Targets, NEW t \in Targets,
                      truth.rows[s].session = truth.rows[t].session, truth.rows[s].session # 0
               PROVE  s = t
    BY DEF SessionInv, OnePeerPerSession
  <2> DEFINE p == <<truth.rows[s].session, truth.rows[s].id>>
             q == <<truth.rows[t].session, truth.rows[t].id>>
  <2>1. p \in Ids /\ q \in Ids
    BY DEF Ids
  <2>2. p[1] = q[1] /\ p[1] # 0
    OBVIOUS
  <2>3. p[2] = q[2] /\ p[2] # 0
    BY <2>1, <2>2 DEF IdsInv
  <2> QED BY <2>3 DEF RowsInv
<1> QED BY <1>1, <1>2, <1>3, PTL DEF Spec

=============================================================================
