---------------------------- MODULE ConsoleProofs ----------------------------
(***************************************************************************)
(* Two facts about the step-up gate, for every set of rows, requests and   *)
(* plans: a passkey ceremony proves one action, and what is sent out of    *)
(* the dialog is what the dialog asked for.  The pages only matter in that *)
(* everything they do is harmless to both; what is left are the steps of   *)
(* the dialog and of the proof.                                            *)
(***************************************************************************)
EXTENDS Console, TLAPS

-----------------------------------------------------------------------------
(* The stamp that is still there is one that was not redeemed.             *)
StampInv ==
    /\ stamps \in Nat /\ redeemed \in Nat /\ redeemed <= stamps
    /\ stamp => redeemed < stamps

(* A slot holds a request, with all of its fields, or none.                *)
IsCall(c) ==
    c = [act |-> c.act, via |-> c.via, proof |-> c.proof, named |-> c.named, stage |-> c.stage,
         here |-> c.here, latest |-> c.latest]

AsNamed(c) ==
    c = NoCall \/ (IsCall(c) /\ (c.via = "dialog" /\ c.named.op # "saveserver" => c.act = c.named))

CallInv ==
    /\ calls = [h \in Slots |-> calls[h]]
    /\ \A h \in Slots : AsNamed(calls[h])

(* What a page does: no stamp is made or redeemed, no request is altered.  *)
Spares   == UNCHANGED <<stamp, stamps, redeemed>>
Harmless == Spares /\ (CallInv => CallInv')

-----------------------------------------------------------------------------
(* Changing what is not named in a request keeps it as it was named.       *)
LEMMA StageKeeps == ASSUME NEW c, AsNamed(c), NEW s PROVE AsNamed([c EXCEPT !.stage = s])
<1>1. CASE c = NoCall
  <2>1. [c EXCEPT !.stage = s] = c
    BY <1>1 DEF NoCall
  <2> QED BY <2>1, <1>1 DEF AsNamed
<1>2. CASE c # NoCall
  <2> DEFINE d == [c EXCEPT !.stage = s]
  <2>1. IsCall(c)
    BY <1>2 DEF AsNamed
  <2>2. d = [act |-> c.act, via |-> c.via, proof |-> c.proof, named |-> c.named, stage |-> s,
             here |-> c.here, latest |-> c.latest]
    BY <2>1 DEF IsCall
  <2>3. d.act = c.act /\ d.via = c.via /\ d.named = c.named
    BY <2>2
  <2>4. IsCall(d)
    BY <2>2 DEF IsCall
  <2> QED BY <1>2, <2>3, <2>4 DEF AsNamed
<1> QED BY <1>1, <1>2

LEMMA HereKeeps == ASSUME NEW c, AsNamed(c), NEW s PROVE AsNamed([c EXCEPT !.here = s])
<1>1. CASE c = NoCall
  <2>1. [c EXCEPT !.here = s] = c
    BY <1>1 DEF NoCall
  <2> QED BY <2>1, <1>1 DEF AsNamed
<1>2. CASE c # NoCall
  <2> DEFINE d == [c EXCEPT !.here = s]
  <2>1. IsCall(c)
    BY <1>2 DEF AsNamed
  <2>2. d = [act |-> c.act, via |-> c.via, proof |-> c.proof, named |-> c.named, stage |-> c.stage,
             here |-> s, latest |-> c.latest]
    BY <2>1 DEF IsCall
  <2>3. d.act = c.act /\ d.via = c.via /\ d.named = c.named
    BY <2>2
  <2>4. IsCall(d)
    BY <2>2 DEF IsCall
  <2> QED BY <1>2, <2>3, <2>4 DEF AsNamed
<1> QED BY <1>1, <1>2

LEMMA LatestKeeps == ASSUME NEW c, AsNamed(c), NEW s PROVE AsNamed([c EXCEPT !.latest = s])
<1>1. CASE c = NoCall
  <2>1. [c EXCEPT !.latest = s] = c
    BY <1>1 DEF NoCall
  <2> QED BY <2>1, <1>1 DEF AsNamed
<1>2. CASE c # NoCall
  <2> DEFINE d == [c EXCEPT !.latest = s]
  <2>1. IsCall(c)
    BY <1>2 DEF AsNamed
  <2>2. d = [act |-> c.act, via |-> c.via, proof |-> c.proof, named |-> c.named, stage |-> c.stage,
             here |-> c.here, latest |-> s]
    BY <2>1 DEF IsCall
  <2>3. d.act = c.act /\ d.via = c.via /\ d.named = c.named
    BY <2>2
  <2>4. IsCall(d)
    BY <2>2 DEF IsCall
  <2> QED BY <1>2, <2>3, <2>4 DEF AsNamed
<1> QED BY <1>1, <1>2

-----------------------------------------------------------------------------
(* What the steps of the pages are made of.                                *)
LEMMA SameCalls == ASSUME calls' = calls, CallInv PROVE CallInv'
BY DEF CallInv, AsNamed, IsCall

(* Requests that are each as named make a CallInv.                         *)
LEMMA AllAsNamed ==
    ASSUME NEW f, calls' = [h \in Slots |-> f[h]], \A h \in Slots : AsNamed(f[h])
    PROVE  CallInv'
<1>1. \A h \in Slots : calls'[h] = f[h]
  OBVIOUS
<1>2. calls' = [h \in Slots |-> calls'[h]]
  BY <1>1
<1> QED BY <1>1, <1>2 DEF CallInv, AsNamed, IsCall

LEMMA AnsweredKeeps ==
    ASSUME CallInv, NEW h \in Slots, NEW s, Answered(h, s)
    PROVE  CallInv'
<1> DEFINE f == [calls EXCEPT ![h].stage = s]
<1>1. f = [g \in Slots |-> f[g]]
  BY DEF CallInv
<1>2. ASSUME NEW g \in Slots PROVE AsNamed(f[g])
  <2>1. f[g] = IF g = h THEN [calls[g] EXCEPT !.stage = s] ELSE calls[g]
    BY DEF CallInv
  <2>2. AsNamed(calls[g]) /\ AsNamed([calls[g] EXCEPT !.stage = s])
    BY StageKeeps DEF CallInv
  <2> QED BY <2>1, <2>2
<1> QED BY <1>1, <1>2, AllAsNamed DEF Answered

LEMMA ForgottenKeeps ==
    ASSUME CallInv, NEW ops, calls' = Unfollowed(ops)
    PROVE  CallInv'
<1> DEFINE f == Unfollowed(ops)
<1>1. f = [g \in Slots |-> f[g]]
  BY DEF Unfollowed
<1>2. ASSUME NEW g \in Slots PROVE AsNamed(f[g])
  <2>1. f[g] = calls[g] \/ f[g] = [calls[g] EXCEPT !.latest = FALSE]
    BY DEF Unfollowed
  <2>2. AsNamed(calls[g]) /\ AsNamed([calls[g] EXCEPT !.latest = FALSE])
    BY LatestKeeps DEF CallInv
  <2> QED BY <2>1, <2>2
<1> QED BY <1>1, <1>2, AllAsNamed

LEMMA EndedKeeps ==
    ASSUME CallInv, NEW h \in Slots, calls' = [calls EXCEPT ![h] = NoCall]
    PROVE  CallInv'
<1> DEFINE f == [calls EXCEPT ![h] = NoCall]
<1>1. f = [g \in Slots |-> f[g]]
  BY DEF CallInv
<1>2. ASSUME NEW g \in Slots PROVE AsNamed(f[g])
  BY DEF CallInv, AsNamed
<1> QED BY <1>1, <1>2, AllAsNamed

(* The page is left or gives way to the login page, which ends some of its *)
(* requests' followings, and one of them perhaps altogether.               *)
LEMMA LeftKeeps ==
    ASSUME CallInv, calls' = [g \in Slots |-> calls'[g]],
           \A g \in Slots : calls'[g] \in {NoCall, [calls[g] EXCEPT !.here = FALSE]}
    PROVE  CallInv'
<1>1. ASSUME NEW g \in Slots PROVE AsNamed(calls'[g])
  <2>1. AsNamed(NoCall)
    BY DEF AsNamed
  <2>2. AsNamed([calls[g] EXCEPT !.here = FALSE])
    BY HereKeeps DEF CallInv
  <2> QED BY <2>1, <2>2
<1> QED BY <1>1, AllAsNamed

(* A request sent as it is named, if it is sent out of the dialog.         *)
LEMMA SentKeeps ==
    ASSUME CallInv, NEW a, NEW via, NEW proof, NEW named, NEW u, Send(a, via, proof, named, u),
           via = "dialog" /\ named.op # "saveserver" => a = named
    PROVE  CallInv'
<1>1. PICK h \in Slots : calls' = Sent(a, via, proof, named, h)
  BY DEF Send
<1> DEFINE f == Sent(a, via, proof, named, h)
<1>2. f = [g \in Slots |-> f[g]]
  BY DEF Sent
<1>3. ASSUME NEW g \in Slots PROVE AsNamed(f[g])
  <2>1. \/ f[g] = Request(a, via, proof, named)
        \/ f[g] = [calls[g] EXCEPT !.latest = FALSE]
        \/ f[g] = calls[g]
    BY DEF Sent
  <2>2. AsNamed(Request(a, via, proof, named))
    BY DEF AsNamed, IsCall, Request
  <2>3. AsNamed(calls[g]) /\ AsNamed([calls[g] EXCEPT !.latest = FALSE])
    BY LatestKeeps DEF CallInv
  <2> QED BY <2>1, <2>2, <2>3
<1> QED BY <1>1, <1>2, <1>3, AllAsNamed

LEMMA SentAwayKeeps ==
    ASSUME CallInv, NEW a, NEW proof, NEW named, SendUnfollowed(a, "dialog", proof, named),
           named.op # "saveserver" => a = named
    PROVE  CallInv'
<1> DEFINE r == [Request(a, "dialog", proof, named) EXCEPT !.here = FALSE]
<1>1. PICK h \in Slots : calls' = [calls EXCEPT ![h] = r]
  BY DEF SendUnfollowed
<1> DEFINE f == [calls EXCEPT ![h] = r]
<1>2. f = [g \in Slots |-> f[g]]
  BY DEF CallInv
<1>3. AsNamed(r)
  <2>1. AsNamed(Request(a, "dialog", proof, named))
    BY DEF AsNamed, IsCall, Request
  <2> QED BY <2>1, HereKeeps
<1>4. ASSUME NEW g \in Slots PROVE AsNamed(f[g])
  BY <1>3 DEF CallInv
<1> QED BY <1>1, <1>2, <1>4, AllAsNamed

-----------------------------------------------------------------------------
(* The vocabulary of the pages is harmless.                                *)
LEMMA LocalHarmless == ASSUME NEW u, Local(u), Spares PROVE Harmless
BY SameCalls DEF Local, Harmless

LEMMA DoHarmless == ASSUME NEW u, Do(u) PROVE Harmless
BY LocalHarmless DEF Do, Spares, gateVars

LEMMA ForgetHarmless == ASSUME NEW u, NEW ops, Forget(u, ops) PROVE Harmless
BY ForgottenKeeps DEF Forget, Harmless, Spares, gateVars

LEMMA AskHarmless == ASSUME NEW op, NEW t, NEW arg, NEW u, Ask(op, t, arg, u) PROVE Harmless
<1>1. Send(Act(op, t, arg), "plain", "none", NoGate, u) /\ Spares
  BY DEF Ask, Spares, gateVars
<1>2. CallInv => CallInv'
  BY <1>1, SentKeeps
<1> QED BY <1>1, <1>2 DEF Harmless

LEMMA AnsweredHarmless == ASSUME NEW h \in Slots, NEW s, Answered(h, s), Spares PROVE Harmless
BY AnsweredKeeps DEF Harmless

LEMMA CarryHarmless == ASSUME NEW h \in Slots, NEW lists, Carry(h, lists) PROVE Harmless
BY AnsweredHarmless DEF Carry, Commit, Spares, gateVars

LEMMA DeclineHarmless == ASSUME NEW h \in Slots, Decline(h) PROVE Harmless
BY AnsweredHarmless DEF Decline, Reject, Spares, gateVars

LEMMA GateHarmless == ASSUME NEW a, NEW u, Gate(a, u) PROVE Harmless
<1>1. CASE Local(u) /\ UNCHANGED proofVars
  BY <1>1, LocalHarmless DEF Spares, proofVars
<1>2. CASE Send(a, "probe", "none", NoGate, u) /\ UNCHANGED gateVars
  <2>1. CallInv => CallInv'
    BY <1>2, SentKeeps
  <2> QED BY <1>2, <2>1 DEF Harmless, Spares, gateVars
<1> QED BY <1>1, <1>2 DEF Gate

LEMMA ConfirmHarmless == ASSUME NEW a, Confirm(a) PROVE Harmless
BY LocalHarmless DEF Confirm, Spares, proofVars

LEMMA FailsHarmless ==
    ASSUME NEW h \in Slots, NEW u, NEW keys, Fails(h, u, keys), Spares PROVE Harmless
BY EndedKeeps DEF Fails, Succeeds, Harmless

LEMMA AnswerHarmless == ASSUME NEW h \in Slots, NEW u, NEW keys, Answer(h, u, keys) PROVE Harmless
BY EndedKeeps DEF Answer, Fails, Succeeds, Harmless, Spares, proofVars

-----------------------------------------------------------------------------
(* So are the pages.                                                       *)
LEMMA AdminsHarmless == ASSUME AdminsNext PROVE Harmless
<1> USE DoHarmless, AskHarmless, CarryHarmless, DeclineHarmless, GateHarmless, AnswerHarmless
<1>1. CASE InviteAdmin
  BY <1>1 DEF InviteAdmin
<1>2. ASSUME NEW t \in Targets, AdminRowAction(t) \/ BeginEmailEdit(t) \/ CommitEmailEdit(t)
      PROVE  Harmless
  BY <1>2 DEF AdminRowAction, BeginEmailEdit, CommitEmailEdit
<1>3. ASSUME NEW h \in Slots, AdminAnswered(h)
      PROVE  Harmless
  BY <1>3 DEF AdminAnswered
<1>4. ASSUME NEW h \in Slots,
             UpdateAdmin(h) \/ ResetAdminPassword(h) \/ ResetAdminMFA(h) \/ CreateAdmin(h)
      PROVE  Harmless
  BY <1>4 DEF UpdateAdmin, ResetAdminPassword, ResetAdminMFA, CreateAdmin
<1> QED BY <1>1, <1>2, <1>3, <1>4 DEF AdminsNext

LEMMA ServersHarmless == ASSUME ServersNext PROVE Harmless
<1> USE DoHarmless, AskHarmless, CarryHarmless, DeclineHarmless, AnswerHarmless, GateHarmless
<1>1. CASE OpenServerForm \/ SubmitServer
  BY <1>1 DEF OpenServerForm, SubmitServer
<1>2. ASSUME NEW t \in Targets,
             ServerRowAction(t)
      PROVE  Harmless
  BY <1>2 DEF ServerRowAction
<1>3. ASSUME NEW h \in Slots,
             ServerAnswered(h)
      PROVE  Harmless
  BY <1>3 DEF ServerAnswered
<1>4. ASSUME NEW h \in Slots,
             UpdateServer(h) \/ CreateServer(h) \/ DeleteServer(h)
             \/ GetServerHostConfig(h)
      PROVE  Harmless
  BY <1>4 DEF UpdateServer, CreateServer, DeleteServer, GetServerHostConfig
<1> QED BY <1>1, <1>2, <1>3, <1>4 DEF ServersNext

LEMMA NodesHarmless == ASSUME NodesNext PROVE Harmless
<1> USE DoHarmless, AskHarmless, CarryHarmless, DeclineHarmless, AnswerHarmless, GateHarmless
<1>1. CASE NodeForm
  BY <1>1 DEF NodeForm
<1>2. ASSUME NEW t \in Targets,
             NodeRowAction(t)
      PROVE  Harmless
  BY <1>2 DEF NodeRowAction
<1>3. ASSUME NEW h \in Slots,
             NodeAnswered(h)
      PROVE  Harmless
  BY <1>3 DEF NodeAnswered
<1>4. ASSUME NEW h \in Slots,
             CreateNode(h) \/ RotateNodeToken(h) \/ DeleteNode(h)
      PROVE  Harmless
  BY <1>4 DEF CreateNode, RotateNodeToken, DeleteNode
<1> QED BY <1>1, <1>2, <1>3, <1>4 DEF NodesNext

LEMMA BackupsHarmless == ASSUME BackupsNext PROVE Harmless
<1> USE DoHarmless, AskHarmless, CarryHarmless, DeclineHarmless, AnswerHarmless, GateHarmless
<1>1. CASE CreateBackup \/ PickFile
  BY <1>1 DEF CreateBackup, PickFile
<1>2. ASSUME NEW t \in Targets,
             BackupRowAction(t)
      PROVE  Harmless
  BY <1>2 DEF BackupRowAction
<1>3. ASSUME NEW h \in Slots,
             BackupAnswered(h)
      PROVE  Harmless
  BY <1>3 DEF BackupAnswered
<1>4. ASSUME NEW h \in Slots,
             WriteBackup(h) \/ ReadBackup(h) \/ RemoveBackup(h)
      PROVE  Harmless
  BY <1>4 DEF WriteBackup, ReadBackup, RemoveBackup
<1> QED BY <1>1, <1>2, <1>3, <1>4 DEF BackupsNext

LEMMA GatedHarmless == ASSUME GatedNext PROVE Harmless
<1>1. CASE EditText \/ CancelEmailEdit
  BY <1>1, DoHarmless DEF EditText, CancelEmailEdit
<1> QED BY <1>1, AdminsHarmless, ServersHarmless, NodesHarmless, BackupsHarmless DEF GatedNext

LEMMA UsersHarmless == ASSUME UsersNext PROVE Harmless
<1> USE DoHarmless, ForgetHarmless, AskHarmless, CarryHarmless, DeclineHarmless, AnswerHarmless
<1>1. CASE InviteForm \/ HandleInvite \/ DismissResent \/ CloseEditUser \/ EditUserForm
         \/ HandleSaveUser
  BY <1>1 DEF InviteForm, HandleInvite, DismissResent, CloseEditUser, EditUserForm, HandleSaveUser
<1>2. ASSUME NEW t \in Targets,
             UserRowAction(t) \/ OpenEditUser(t)
      PROVE  Harmless
  BY <1>2 DEF UserRowAction, OpenEditUser
<1>3. ASSUME NEW h \in Slots,
             UserAnswered(h)
      PROVE  Harmless
  BY <1>3 DEF UserAnswered
<1>4. ASSUME NEW h \in Slots,
             CreateUser(h) \/ ResendUserInvite(h) \/ SetUserStatus(h)
      PROVE  Harmless
  BY <1>4 DEF CreateUser, ResendUserInvite, SetUserStatus
<1>5. ASSUME NEW h \in Slots,
             UpdateUser(h)
      PROVE  Harmless
  BY <1>5, AnsweredHarmless DEF UpdateUser, Spares, gateVars
<1> QED BY <1>1, <1>2, <1>3, <1>4, <1>5 DEF UsersNext

LEMMA DepartmentsHarmless == ASSUME DepartmentsNext PROVE Harmless
<1> USE DoHarmless, ForgetHarmless, AskHarmless, CarryHarmless, DeclineHarmless, AnswerHarmless
<1>1. CASE OpenDepartment \/ CloseDepartment \/ DepartmentForm \/ HandleSave
  BY <1>1 DEF OpenDepartment, CloseDepartment, DepartmentForm, HandleSave
<1>2. ASSUME NEW t \in Targets,
             ConfirmDelete(t)
      PROVE  Harmless
  BY <1>2 DEF ConfirmDelete
<1>3. ASSUME NEW h \in Slots,
             DepartmentAnswered(h)
      PROVE  Harmless
  BY <1>3 DEF DepartmentAnswered
<1>4. ASSUME NEW h \in Slots,
             CreateDepartment(h) \/ UpdateDepartment(h) \/ DeleteDepartment(h)
      PROVE  Harmless
  BY <1>4 DEF CreateDepartment, UpdateDepartment, DeleteDepartment
<1> QED BY <1>1, <1>2, <1>3, <1>4 DEF DepartmentsNext

LEMMA PeersHarmless == ASSUME PeersNext PROVE Harmless
<1> USE DoHarmless, ForgetHarmless, AskHarmless, CarryHarmless, DeclineHarmless, AnswerHarmless
<1>1. CASE OpenAdd \/ CloseAdd \/ PeerForm \/ SubmitPeer \/ ConfirmResend
         \/ DismissPeerResult
  BY <1>1 DEF OpenAdd, CloseAdd, PeerForm, SubmitPeer, ConfirmResend, DismissPeerResult
<1>2. ASSUME NEW t \in Targets,
             OpenEditPeer(t) \/ PeerRowAction(t)
      PROVE  Harmless
  BY <1>2 DEF OpenEditPeer, PeerRowAction
<1>3. ASSUME NEW h \in Slots,
             PeerAnswered(h)
      PROVE  Harmless
  BY <1>3, FailsHarmless DEF PeerAnswered, Spares, gateVars
<1>4. ASSUME NEW h \in Slots,
             CreatePeer(h) \/ UpdatePeer(h) \/ DeletePeer(h) \/ ReadPeerConfig(h)
      PROVE  Harmless
  BY <1>4 DEF CreatePeer, UpdatePeer, DeletePeer, ReadPeerConfig
<1> QED BY <1>1, <1>2, <1>3, <1>4 DEF PeersNext

LEMMA DirectoryHarmless == ASSUME DirectoryNext PROVE Harmless
BY UsersHarmless, DepartmentsHarmless, PeersHarmless DEF DirectoryNext

LEMMA RulesHarmless == ASSUME RulesNext PROVE Harmless
<1> USE DoHarmless, ForgetHarmless, AskHarmless, CarryHarmless, DeclineHarmless, AnswerHarmless
<1>1. CASE OpenAddModal \/ CloseAddModal \/ ChooseScope \/ ChooseUser \/ TickPeer
         \/ ChooseDepartment \/ ChooseTarget \/ TypeTarget \/ HandleAdd
  BY <1>1 DEF OpenAddModal, CloseAddModal, ChooseScope, ChooseUser, TickPeer, ChooseDepartment,
              ChooseTarget, TypeTarget, HandleAdd, Edited
<1>2. CASE OpenGroupModal \/ CloseGroupModal \/ GroupForm \/ HandleSaveGroup
  BY <1>2 DEF OpenGroupModal, CloseGroupModal, GroupForm, HandleSaveGroup
<1>3. ASSUME NEW t \in Targets,
             DeleteRule(t) \/ ConfirmDeleteGroup(t)
      PROVE  Harmless
  BY <1>3 DEF DeleteRule, ConfirmDeleteGroup
<1>4. ASSUME NEW h \in Slots,
             RuleAnswered(h) \/ GroupAnswered(h)
      PROVE  Harmless
  BY <1>4 DEF RuleAnswered, GroupAnswered
<1>5. ASSUME NEW h \in Slots,
             CreateRule(h) \/ DropRule(h) \/ CreateGroup(h) \/ UpdateGroup(h)
             \/ DeleteGroup(h)
      PROVE  Harmless
  BY <1>5 DEF CreateRule, DropRule, CreateGroup, UpdateGroup, DeleteGroup
<1> QED BY <1>1, <1>2, <1>3, <1>4, <1>5 DEF RulesNext

LEMMA SettingsHarmless == ASSUME SettingsNext PROVE Harmless
<1> USE DoHarmless, ForgetHarmless, AskHarmless, CarryHarmless, DeclineHarmless, AnswerHarmless
<1>1. CASE EditSetting \/ ChooseTemplate \/ SaveSMTP \/ TestSMTP \/ SaveTimezone
         \/ SaveTemplate
  BY <1>1 DEF EditSetting, ChooseTemplate, SaveSMTP, TestSMTP, SaveTimezone, SaveTemplate
<1>2. CASE SaveStepUp \/ SavePolicy \/ SaveLockout \/ SaveExpiry
  BY <1>2, ConfirmHarmless DEF SaveStepUp, SavePolicy, SaveLockout, SaveExpiry, SaveSection
<1>3. ASSUME NEW h \in Slots,
             SettingsAnswered(h)
      PROVE  Harmless
  BY <1>3 DEF SettingsAnswered
<1>4. ASSUME NEW h \in Slots,
             UpdateSMTPConfig(h) \/ SendTestEmail(h) \/ UpdateTimezoneConfig(h)
             \/ UpdateEmailTemplate(h)
      PROVE  Harmless
  BY <1>4 DEF UpdateSMTPConfig, SendTestEmail, UpdateTimezoneConfig, UpdateEmailTemplate
<1>5. ASSUME NEW h \in Slots,
             UpdateMFAPolicyConfig(h) \/ UpdateSecurityConfig(h)
      PROVE  Harmless
  BY <1>5 DEF UpdateMFAPolicyConfig, UpdateSecurityConfig
<1>6. ASSUME NEW h \in Slots,
             UpdateStepUpConfig(h)
      PROVE  Harmless
  BY <1>6, AnsweredHarmless DEF UpdateStepUpConfig, Commit, Spares, proofVars
<1> QED BY <1>1, <1>2, <1>3, <1>4, <1>5, <1>6 DEF SettingsNext

LEMMA NetworkHarmless == ASSUME Network \/ Others PROVE Harmless
<1>1. ASSUME NEW k \in Lists, ReadList(k) \/ PollList(k) \/ (ListFails(k) /\ UNCHANGED gateVars)
      PROVE  Harmless
  BY <1>1, SameCalls DEF ReadList, ServeList, ListArrives, PollList, Poll, ListFails, Harmless, Spares,
                         gateVars
<1>2. ASSUME NEW h \in Slots, Refuse(h) \/ LoseAnswer(h), UNCHANGED gateVars
      PROVE  Harmless
  BY <1>2, AnsweredHarmless DEF Refuse, LoseAnswer, Spares, gateVars
<1>3. CASE Others
  BY <1>3, SameCalls DEF Others, Outsider, Harmless, Spares, gateVars
<1> QED BY <1>1, <1>2, <1>3 DEF Network

LEMMA NavigateHarmless == ASSUME Navigate PROVE Harmless
<1>1. CASE Leave(BlankPage)
  <2>1. /\ calls' = [g \in Slots |-> calls'[g]]
        /\ \A g \in Slots : calls'[g] \in {NoCall, [calls[g] EXCEPT !.here = FALSE]}
    BY <1>1 DEF Leave, Unmount
  <2>2. CallInv => CallInv'
    BY <2>1, LeftKeeps
  <2> QED BY <1>1, <2>2 DEF Leave, Harmless, Spares, proofVars
<1>2. CASE Mount(BlankPage) /\ UNCHANGED gateVars
  BY <1>2, SameCalls DEF Mount, Harmless, Spares, gateVars
<1> QED BY <1>1, <1>2 DEF Navigate

-----------------------------------------------------------------------------
(* The steps that are about the proof keep both parts, the others spare it. *)
GateInv == StampInv /\ CallInv

LEMMA HarmlessKeeps == ASSUME GateInv, Harmless PROVE GateInv'
BY DEF GateInv, StampInv, Harmless, Spares

LEMMA ProfileKeeps == ASSUME GateInv, ProfileNext PROVE GateInv'
<1> USE DoHarmless, AskHarmless, CarryHarmless, DeclineHarmless, AnswerHarmless, HarmlessKeeps
<1>1. CASE StartFactorAction
  BY <1>1, ConfirmHarmless DEF StartFactorAction
<1>2. CASE VerifyTOTPEnrollment \/ DismissCodes \/ ChangePassword \/ RevokeOthers
  BY <1>2 DEF VerifyTOTPEnrollment, DismissCodes, ChangePassword, RevokeOthers
<1>3. ASSUME NEW t \in Targets, RevokeSession(t) PROVE GateInv'
  BY <1>3 DEF RevokeSession
<1>4. ASSUME NEW h \in Slots, ProfileAnswered(h) PROVE GateInv'
  BY <1>4 DEF ProfileAnswered
<1>5. ASSUME NEW h \in Slots,
             RegisterPasskey(h) \/ AddPasskeyBegin(h) \/ CheckLastFactor(h) \/ ReplacePassword(h)
      PROVE  GateInv'
  BY <1>5, AnsweredHarmless
     DEF RegisterPasskey, AddPasskeyBegin, CheckLastFactor, ReplacePassword, Spares, gateVars
<1>6. ASSUME NEW h \in Slots,
             \/ AddTOTPBegin(h) \/ AddTOTPFinish(h) \/ AddTOTPRemove(h) \/ AddPasskeyFinish(h)
             \/ RegenerateRecoveryCodes(h) \/ RevokeMySession(h) \/ RevokeMyOtherSessions(h)
      PROVE  GateInv'
  BY <1>6 DEF AddTOTPBegin, AddTOTPFinish, AddTOTPRemove, AddPasskeyFinish, RegenerateRecoveryCodes,
              RevokeMySession, RevokeMyOtherSessions
<1>7. ASSUME NEW h \in Slots, DeletePasskey(h) PROVE GateInv'
  <2>1. CASE Decline(h)
    BY <2>1
  <2>2. CASE Answered(h, "ok") /\ stamp' = FALSE /\ UNCHANGED <<stamps, redeemed>>
    <3>1. StampInv'
      BY <2>2 DEF GateInv, StampInv
    <3> QED BY <2>2, <3>1, AnsweredKeeps DEF GateInv
  <2> QED BY <1>7, <2>1, <2>2 DEF DeletePasskey, Commit
<1> QED BY <1>1, <1>2, <1>3, <1>4, <1>5, <1>6, <1>7 DEF ProfileNext

(* CheckProof: a stamp is redeemed by clearing it, a code makes none.      *)
LEMMA CheckProofKeeps == ASSUME GateInv, NEW h \in Slots, CheckProof(h) PROVE GateInv'
<1>1. CallInv'
  BY AnsweredKeeps DEF CheckProof, CodeAccepted, StampRedeemed, GraceCovers, ProofMissing, Allow, GateInv
<1>2. CASE StampRedeemed(h)
  BY <1>1, <1>2 DEF StampRedeemed, GateInv, StampInv
<1>3. CASE CodeAccepted(h) \/ GraceCovers(h) \/ ProofMissing(h)
  BY <1>1, <1>3 DEF CodeAccepted, GraceCovers, ProofMissing, GateInv, StampInv, gateVars
<1> QED BY <1>2, <1>3 DEF CheckProof

(* What is sent out of the dialog is Live of the action that was named,    *)
(* which is another action only for a saved server.                        *)
LEMMA DialogKeeps == ASSUME GateInv, Dialog PROVE GateInv'
<1> USE HarmlessKeeps
<1>1. ASSUME NEW a PROVE a.op # "saveserver" => Live(a) = a
  BY DEF Live
<1>2. CASE SubmitCode
  <2>1. PICK proof : Send(Live(dialog.gate), "dialog", proof, dialog.gate, ui)
    BY <1>2 DEF SubmitCode
  <2>2. CallInv'
    BY <2>1, <1>1, SentKeeps DEF GateInv
  <2> QED BY <1>2, <2>2 DEF SubmitCode, GateInv, StampInv, proofVars
<1>3. CASE RunHeldAction
  <2>1. CallInv'
    BY <1>3, <1>1, SentKeeps, SentAwayKeeps DEF RunHeldAction, GateInv
  <2> QED BY <1>3, <2>1 DEF RunHeldAction, GateInv, StampInv, proofVars
<1>4. CASE StampSession \/ CeremonyFails \/ ProofExpires \/ UsePasskey \/ CloseDialog
  <2>1. CallInv'
    BY <1>4, SameCalls DEF StampSession, CeremonyFails, ProofExpires, UsePasskey, CloseDialog, pageVars,
                           GateInv
  <2>2. StampInv'
    BY <1>4 DEF StampSession, CeremonyFails, ProofExpires, UsePasskey, CloseDialog, proofVars,
                GateInv, StampInv
  <2> QED BY <2>1, <2>2 DEF GateInv
<1>5. ASSUME NEW u, Escape(u) PROVE GateInv'
  BY <1>5, LocalHarmless DEF Escape, Spares, proofVars
<1>6. ASSUME NEW h \in Slots, NEW u, RedirectToLogin(h, u) PROVE GateInv'
  <2>1. /\ calls' = [g \in Slots |-> calls'[g]]
        /\ \A g \in Slots : calls'[g] \in {NoCall, [calls[g] EXCEPT !.here = FALSE]}
    BY <1>6 DEF RedirectToLogin
  <2>2. CallInv'
    BY <2>1, LeftKeeps DEF GateInv
  <2> QED BY <1>6, <2>2 DEF RedirectToLogin, GateInv, StampInv, proofVars
<1> QED BY <1>2, <1>3, <1>4, <1>5, <1>6, CheckProofKeeps DEF Dialog

-----------------------------------------------------------------------------
LEMMA GateInvInit == ASSUME Init PROVE GateInv
<1>1. StampInv
  BY DEF Init, StampInv
<1>2. CallInv
  BY DEF Init, CallInv, AsNamed
<1> QED BY <1>1, <1>2 DEF GateInv

LEMMA GateInvNext == ASSUME GateInv, [Next]_vars PROVE GateInv'
<1>1. CASE Next
  BY <1>1, GatedHarmless, DirectoryHarmless, RulesHarmless, SettingsHarmless, NetworkHarmless,
     NavigateHarmless, HarmlessKeeps, ProfileKeeps, DialogKeeps DEF Next
<1>2. CASE UNCHANGED vars
  BY <1>2, SameCalls, HarmlessKeeps DEF vars, pageVars, gateVars, Harmless, Spares
<1> QED BY <1>1, <1>2

(* The inductive invariant of the gate. *)
THEOREM GateInvariant == Spec => []GateInv
BY GateInvInit, GateInvNext, PTL DEF Spec

(* A passkey ceremony proves one action: the statement that finds the      *)
(* stamp of a session clears it (consumePasskeyStepUp), so actions that    *)
(* were carried out on a stamp are never more than ceremonies.             *)
THEOREM StampProvesOnce == Spec => []OneProofOneAction
<1>1. GateInv => OneProofOneAction
  BY DEF GateInv, StampInv, OneProofOneAction
<1> QED BY <1>1, GateInvariant, PTL

(* What ConfirmMFA sends, for a code or after a ceremony, is the action it *)
(* was opened for, while other probes are answered, the dialog is reopened *)
(* or its page is left (runAction holds on to its action).                 *)
THEOREM DialogSendsItsAction == Spec => []ConfirmedActsAsNamed
<1>1. GateInv => ConfirmedActsAsNamed
  BY DEF GateInv, CallInv, AsNamed, ConfirmedActsAsNamed, Flying
<1> QED BY <1>1, GateInvariant, PTL

=============================================================================
