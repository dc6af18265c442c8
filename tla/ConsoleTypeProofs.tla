--------------------------- MODULE ConsoleTypeProofs ---------------------------
(***************************************************************************)
(* Every variable of the console keeps its type, for every set of rows,    *)
(* requests and plans: in particular no handler, in whatever order the     *)
(* requests and the proofs reach it, gives a row a status no page knows,   *)
(* and no request is in a stage that nothing answers.                      *)
(***************************************************************************)
EXTENDS ConsoleListProofs

Stages == {"sent", "checked", "allowed", "prompt", "finish", "ok", "error", "lost", "mfa", "denied"}

CallOK(c) == c.via \in {"plain", "probe", "dialog"} /\ c.proof \in {"none", "right", "wrong"}
             /\ c.stage \in Stages

CallsOK == \A h \in Slots : calls[h] # NoCall => CallOK(calls[h])

CountsOK ==
    /\ plan \in Plans /\ shown \in BOOLEAN /\ doubt \subseteq Lists
    /\ asked \in 0..plan.calls /\ mishaps \in 0..plan.mishaps

GateOK ==
    /\ DOMAIN dialog = {"gate", "busy"} /\ DOMAIN ceremony = {"act", "at", "here"}
    /\ dialog.busy \in {"no", "code", "passkey"} /\ ceremony.at \in {"none", "prompt", "stamped"}
    /\ window \in BOOLEAN /\ grace \in BOOLEAN /\ stamp \in BOOLEAN /\ stamps \in 0..MaxStamps

(* The rows of a list, on every page that has rows.                        *)
RowOK(r)    == "status" \in DOMAIN r /\ r.status \in Statuses
RowsOK(f)   == DOMAIN f = Targets /\ \A t \in Targets : RowOK(f[t])
StatusInv   == page \notin SettingsPageNames => RowsOK(truth.rows)

TypeInv == CountsOK /\ CallsOK /\ GateOK /\ StatusInv

LEMMA PlanTypes == ASSUME CountsOK PROVE plan.calls \in Nat /\ plan.mishaps \in Nat
BY PlanAssumption DEF CountsOK

-----------------------------------------------------------------------------
(* The requests.                                                           *)
LEMMA StageOf ==
    ASSUME NEW c, AsNamed(c), NEW s
    PROVE  /\ c = NoCall => [c EXCEPT !.stage = s] = NoCall
           /\ CallOK(c) /\ c # NoCall /\ s \in Stages => CallOK([c EXCEPT !.stage = s])
<1>1. CASE c = NoCall
  BY <1>1 DEF NoCall
<1>2. CASE c # NoCall
  <2>1. IsCall(c)
    BY <1>2 DEF AsNamed
  <2>2. [c EXCEPT !.stage = s] =
            [act |-> c.act, via |-> c.via, proof |-> c.proof, named |-> c.named, stage |-> s,
             here |-> c.here, latest |-> c.latest]
    BY <2>1 DEF IsCall
  <2> QED BY <1>2, <2>2 DEF CallOK
<1> QED BY <1>1, <1>2

LEMMA LatestOf ==
    ASSUME NEW c, AsNamed(c), NEW s
    PROVE  /\ c = NoCall => [c EXCEPT !.latest = s] = NoCall
           /\ CallOK(c) /\ c # NoCall => CallOK([c EXCEPT !.latest = s])
<1>1. CASE c = NoCall
  BY <1>1 DEF NoCall
<1>2. CASE c # NoCall
  <2>1. IsCall(c)
    BY <1>2 DEF AsNamed
  <2>2. [c EXCEPT !.latest = s] =
            [act |-> c.act, via |-> c.via, proof |-> c.proof, named |-> c.named, stage |-> c.stage,
             here |-> c.here, latest |-> s]
    BY <2>1 DEF IsCall
  <2> QED BY <1>2, <2>2 DEF CallOK
<1> QED BY <1>1, <1>2

LEMMA HereOf ==
    ASSUME NEW c, AsNamed(c), NEW s, CallOK(c), c # NoCall PROVE CallOK([c EXCEPT !.here = s])
<1>1. IsCall(c)
  BY DEF AsNamed
<1>2. [c EXCEPT !.here = s] =
          [act |-> c.act, via |-> c.via, proof |-> c.proof, named |-> c.named, stage |-> c.stage,
           here |-> s, latest |-> c.latest]
  BY <1>1 DEF IsCall
<1> QED BY <1>2 DEF CallOK

LEMMA AnsweredOK ==
    ASSUME CallInv, CallsOK, NEW h \in Slots, NEW s \in Stages, Answered(h, s) PROVE CallsOK'
<1> SUFFICES ASSUME NEW g \in Slots, calls'[g] # NoCall PROVE CallOK(calls'[g])
  BY DEF CallsOK, CallOK
<1>1. calls'[g] = IF g = h THEN [calls[g] EXCEPT !.stage = s] ELSE calls[g]
  BY DEF Answered, CallInv
<1>2. AsNamed(calls[g])
  BY DEF CallInv
<1> QED BY <1>1, <1>2, StageOf DEF CallsOK

LEMMA UnfollowedOK ==
    ASSUME CallInv, CallsOK, NEW ops, calls' = Unfollowed(ops) PROVE CallsOK'
<1> SUFFICES ASSUME NEW g \in Slots, calls'[g] # NoCall PROVE CallOK(calls'[g])
  BY DEF CallsOK, CallOK
<1>1. calls'[g] = calls[g] \/ calls'[g] = [calls[g] EXCEPT !.latest = FALSE]
  BY DEF Unfollowed
<1>2. AsNamed(calls[g])
  BY DEF CallInv
<1> QED BY <1>1, <1>2, LatestOf DEF CallsOK

LEMMA EndedOK ==
    ASSUME CallInv, CallsOK, NEW h \in Slots, calls' = [calls EXCEPT ![h] = NoCall] PROVE CallsOK'
BY DEF CallInv, CallsOK, CallOK

LEMMA RequestOK ==
    ASSUME NEW a, NEW via \in {"plain", "probe", "dialog"}, NEW proof \in {"none", "right", "wrong"},
           NEW named
    PROVE  CallOK(Request(a, via, proof, named))
BY DEF CallOK, Request, Stages

LEMMA RequestAwayOK ==
    ASSUME NEW a, NEW via \in {"plain", "probe", "dialog"}, NEW proof \in {"none", "right", "wrong"},
           NEW named
    PROVE  CallOK([Request(a, via, proof, named) EXCEPT !.here = FALSE])
BY DEF CallOK, Request, Stages

LEMMA SentOK ==
    ASSUME CallInv, CallsOK, NEW h \in Slots, NEW a, NEW via \in {"plain", "probe", "dialog"},
           NEW proof \in {"none", "right", "wrong"}, NEW named, calls' = Sent(a, via, proof, named, h)
    PROVE  CallsOK'
<1> SUFFICES ASSUME NEW g \in Slots, calls'[g] # NoCall PROVE CallOK(calls'[g])
  BY DEF CallsOK, CallOK
<1>1. \/ calls'[g] = Request(a, via, proof, named)
      \/ calls'[g] = calls[g] \/ calls'[g] = [calls[g] EXCEPT !.latest = FALSE]
  BY DEF Sent
<1>2. AsNamed(calls[g])
  BY DEF CallInv
<1>3. CASE calls'[g] = Request(a, via, proof, named)
  BY <1>3, RequestOK
<1>4. CASE calls'[g] = calls[g] \/ calls'[g] = [calls[g] EXCEPT !.latest = FALSE]
  BY <1>2, <1>4, LatestOf DEF CallsOK
<1> QED BY <1>1, <1>3, <1>4

-----------------------------------------------------------------------------
(* The vocabulary of the pages.                                            *)
LEMMA CountsSame ==
    ASSUME CountsOK, UNCHANGED <<plan, shown, asked, mishaps, doubt>>, DOMAIN truth' = Lists PROVE CountsOK'
BY DEF CountsOK, Lists

LEMMA MishapCounts ==
    ASSUME CountsOK, Mishap, UNCHANGED <<plan, shown, asked>>, DOMAIN truth' = Lists, doubt' \subseteq Lists
    PROVE  CountsOK'
<1>1. mishaps \in Nat /\ mishaps + 1 <= plan.mishaps /\ mishaps' = mishaps + 1
  BY PlanTypes DEF CountsOK, Mishap
<1>2. mishaps' \in 0..plan.mishaps
  BY <1>1, PlanTypes
<1> QED BY <1>2 DEF CountsOK, Lists

LEMMA GateSame == ASSUME GateOK, UNCHANGED gateVars PROVE GateOK'
BY DEF GateOK, gateVars

LEMMA StatusSame == ASSUME StatusInv, UNCHANGED <<plan, truth>> PROVE StatusInv'
BY DEF StatusInv, page, RowsOK, RowOK

LEMMA CallsSame == ASSUME CallsOK, calls' = calls PROVE CallsOK'
BY DEF CallsOK, CallOK

LEMMA LocalTypes == ASSUME TypeInv, NEW u, Local(u), GateOK' PROVE TypeInv'
BY CountsSame, StatusSame, CallsSame DEF TypeInv, Local, cacheVars, Lists

LEMMA DoTypes == ASSUME TypeInv, NEW u, Do(u) PROVE TypeInv'
BY LocalTypes, GateSame DEF Do, TypeInv

LEMMA ForgetTypes == ASSUME CallInv, TypeInv, NEW u, NEW ops, Forget(u, ops) PROVE TypeInv'
BY CountsSame, StatusSame, UnfollowedOK, GateSame DEF TypeInv, Forget, cacheVars, Lists

LEMMA SendTypes ==
    ASSUME CallInv, TypeInv, NEW a, NEW via \in {"plain", "probe", "dialog"},
           NEW proof \in {"none", "right", "wrong"}, NEW named, NEW u, Send(a, via, proof, named, u), GateOK'
    PROVE  TypeInv'
<1>1. UNCHANGED <<plan, shown, truth, doubt, mishaps>> /\ asked < plan.calls /\ asked' = asked + 1
  BY DEF Send, Uses, cacheVars
<1>2. CountsOK'
  BY <1>1, PlanTypes DEF TypeInv, CountsOK, Lists
<1>3. CallsOK'
  BY SentOK DEF Send, TypeInv
<1> QED BY <1>1, <1>2, <1>3, StatusSame DEF TypeInv

LEMMA SendAwayTypes ==
    ASSUME CallInv, TypeInv, NEW a, NEW via \in {"plain", "probe", "dialog"},
           NEW proof \in {"none", "right", "wrong"}, NEW named,
           SendUnfollowed(a, via, proof, named), GateOK'
    PROVE  TypeInv'
<1>1. UNCHANGED <<plan, shown, truth, doubt, mishaps>> /\ asked < plan.calls /\ asked' = asked + 1
  BY DEF SendUnfollowed, Uses, cacheVars
<1>2. CountsOK'
  BY <1>1, PlanTypes DEF TypeInv, CountsOK, Lists
<1>3. PICK h \in Slots : calls' = [calls EXCEPT ![h] = [Request(a, via, proof, named) EXCEPT !.here = FALSE]]
  BY DEF SendUnfollowed
<1> DEFINE r == [Request(a, via, proof, named) EXCEPT !.here = FALSE]
<1>4. CallOK(r)
  BY RequestAwayOK
<1> HIDE DEF r
<1>5. CallsOK'
  BY <1>3, <1>4 DEF CallInv, CallsOK, CallOK, TypeInv, r
<1> QED BY <1>1, <1>2, <1>5, StatusSame DEF TypeInv

LEMMA AskTypes ==
    ASSUME CallInv, TypeInv, NEW op, NEW t, NEW arg, NEW u, Ask(op, t, arg, u) PROVE TypeInv'
BY SendTypes, GateSame DEF Ask, TypeInv

LEMMA GateTypes == ASSUME CallInv, TypeInv, NEW a, NEW u, Gate(a, u) PROVE TypeInv'
<1>1. CASE Send(a, "probe", "none", NoGate, u) /\ UNCHANGED gateVars
  BY <1>1, SendTypes, GateSame DEF TypeInv
<1>2. CASE dialog' = [dialog EXCEPT !.gate = a] /\ Local(u) /\ UNCHANGED <<window, ceremony, proofVars>>
  <2>1. dialog'.busy = dialog.busy /\ DOMAIN dialog' = DOMAIN dialog
    BY <1>2
  <2>2. GateOK'
    BY <1>2, <2>1 DEF TypeInv, GateOK, proofVars
  <2> QED BY <1>2, <2>2, LocalTypes
<1> QED BY <1>1, <1>2 DEF Gate

LEMMA ConfirmTypes == ASSUME TypeInv, NEW a, Confirm(a) PROVE TypeInv'
<1>1. dialog'.busy = dialog.busy /\ DOMAIN dialog' = DOMAIN dialog
  BY DEF Confirm
<1>2. GateOK'
  BY <1>1 DEF TypeInv, GateOK, proofVars, Confirm
<1> QED BY <1>2, LocalTypes DEF Confirm

LEMMA AnsweredTypes ==
    ASSUME CallInv, TypeInv, NEW h \in Slots, NEW s \in Stages, Answered(h, s),
           UNCHANGED <<plan, shown, truth, doubt, asked, mishaps>>, GateOK'
    PROVE  TypeInv'
BY AnsweredOK, CountsSame, StatusSame DEF TypeInv, Lists

LEMMA DeclineTypes == ASSUME CallInv, TypeInv, NEW h \in Slots, Decline(h) PROVE TypeInv'
BY AnsweredTypes, GateSame DEF Decline, Reject, TypeInv, Stages, cacheVars

LEMMA CommitTypes ==
    ASSUME CallInv, TypeInv, NEW h \in Slots, NEW lists, Commit(h, lists), DOMAIN lists = Lists,
           page \notin SettingsPageNames => RowsOK(lists.rows), GateOK'
    PROVE  TypeInv'
<1>1. UNCHANGED <<plan, shown, doubt, asked, mishaps>> /\ truth' = lists /\ Answered(h, "ok")
  BY DEF Commit, cacheVars
<1>2. CountsOK'
  BY <1>1, CountsSame DEF TypeInv
<1>3. StatusInv'
  BY <1>1 DEF StatusInv, page, RowsOK, RowOK
<1> QED BY <1>1, <1>2, <1>3, AnsweredOK DEF TypeInv, Stages

LEMMA CarryTypes ==
    ASSUME CallInv, TypeInv, NEW h \in Slots, NEW lists, Carry(h, lists), DOMAIN lists = Lists,
           page \notin SettingsPageNames => RowsOK(lists.rows)
    PROVE  TypeInv'
BY CommitTypes, GateSame DEF Carry, TypeInv

LEMMA SameTypes == ASSUME CallInv, TypeInv, NEW h \in Slots, Carry(h, truth) PROVE TypeInv'
BY CarryTypes DEF TypeInv, StatusInv, Lists

LEMMA RefreshedDoubt ==
    ASSUME doubt \subseteq Lists, NEW keys, Refreshed(keys) PROVE doubt' \subseteq Lists
BY DEF Refreshed, Overtaken

LEMMA SucceedsTypes ==
    ASSUME CallInv, TypeInv, NEW h \in Slots, NEW u, NEW keys, Succeeds(h, u, keys), GateOK'
    PROVE  TypeInv'
<1>1. UNCHANGED <<plan, shown, truth, asked, mishaps>> /\ calls' = [calls EXCEPT ![h] = NoCall]
  BY DEF Succeeds
<1>2. doubt' \subseteq Lists
  BY RefreshedDoubt DEF Succeeds, TypeInv, CountsOK
<1>3. CountsOK'
  BY <1>1, <1>2 DEF TypeInv, CountsOK, Lists
<1> QED BY <1>1, <1>3, EndedOK, StatusSame DEF TypeInv

LEMMA DialogAfterOK ==
    ASSUME GateOK, NEW h, dialog' = DialogAfter(h), UNCHANGED <<window, ceremony, proofVars>> PROVE GateOK'
<1>1. dialog'.busy \in {"no", "code", "passkey"} /\ DOMAIN dialog' = {"gate", "busy"}
  <2>1. CASE dialog' = Closed \/ dialog' = dialog
    BY <2>1 DEF GateOK, Closed
  <2>2. CASE dialog' = [dialog EXCEPT !.busy = "no"]
    BY <2>2 DEF GateOK
  <2>3. CASE dialog' = [dialog EXCEPT !.gate = calls[h].act]
    BY <2>3 DEF GateOK
  <2> QED BY <2>1, <2>2, <2>3 DEF DialogAfter
<1> QED BY <1>1 DEF GateOK, proofVars

LEMMA AnswerTypes ==
    ASSUME CallInv, TypeInv, NEW h \in Slots, NEW u, NEW keys, Answer(h, u, keys)
    PROVE  TypeInv'
<1>1. GateOK'
  BY DialogAfterOK DEF Answer, TypeInv
<1>2. \E v, read : Succeeds(h, v, read)
  BY DEF Answer, Fails
<1> QED BY <1>1, <1>2, SucceedsTypes

-----------------------------------------------------------------------------
(* Rows.                                                                   *)
LEMMA RowOf == ASSUME NEW status \in Statuses PROVE RowOK(Row(status))
BY DEF RowOK, Row

LEMMA NewRows ==
    /\ RowOK(NoRow) /\ RowOK(Row("active"))
    /\ RowOK([Row("active") EXCEPT !.keyed = FALSE]) /\ RowOK([Row("invited") EXCEPT !.keyed = FALSE])
    /\ \A n : RowOK([Row("active") EXCEPT !.name = n])
<1>1. RowOK(NoRow) /\ RowOK(Row("active"))
  BY RowOf DEF NoRow, Statuses
<1>2. \A k : RowOK([Row("active") EXCEPT !.keyed = k]) /\ RowOK([Row("invited") EXCEPT !.keyed = k])
  BY DEF RowOK, Row, Statuses
<1>3. \A n : RowOK([Row("active") EXCEPT !.name = n])
  BY DEF RowOK, Row, Statuses
<1> QED BY <1>1, <1>2, <1>3

LEMMA RowEdits ==
    ASSUME NEW r, RowOK(r), NEW x
    PROVE  /\ RowOK([r EXCEPT !.name = x]) /\ RowOK([r EXCEPT !.role = x]) /\ RowOK([r EXCEPT !.keyed = x])
           /\ x \in Statuses => RowOK([r EXCEPT !.status = x])
BY DEF RowOK

LEMMA PutTypes ==
    ASSUME CallInv, KeysInv, TypeInv, page \notin SettingsPageNames, NEW h \in Slots, NEW t, NEW r,
           t \in Targets => RowOK(r), Carry(h, Put(t, r))
    PROVE  TypeInv'
<1>1. "rows" \in Lists
  BY DEF KeysInv, Keys, Lists
<1>2. DOMAIN Put(t, r) = Lists /\ Put(t, r).rows = [truth.rows EXCEPT ![t] = r]
  BY <1>1 DEF Put, Lists
<1>3. RowsOK([truth.rows EXCEPT ![t] = r])
  BY DEF TypeInv, StatusInv, RowsOK
<1> QED BY <1>2, <1>3, CarryTypes

LEMMA StatusTypes ==
    ASSUME CallInv, KeysInv, TypeInv, page \notin SettingsPageNames, NEW h \in Slots, NEW t,
           NEW s \in Statuses, Carry(h, WithStatus(t, s))
    PROVE  TypeInv'
<1>1. t \in Targets => RowOK([truth.rows[t] EXCEPT !.status = s])
  BY RowEdits DEF TypeInv, StatusInv, RowsOK
<1> QED BY <1>1, PutTypes DEF WithStatus

LEMMA RenamedTypes ==
    ASSUME CallInv, KeysInv, TypeInv, page \notin SettingsPageNames, NEW h \in Slots, NEW t, NEW n,
           Carry(h, Renamed(t, n))
    PROVE  TypeInv'
<1>1. t \in Targets => RowOK([truth.rows[t] EXCEPT !.name = n])
  BY RowEdits DEF TypeInv, StatusInv, RowsOK
<1> QED BY <1>1, PutTypes DEF Renamed

-----------------------------------------------------------------------------
(* The pages.                                                              *)
LEMMA AdminsTypes ==
    ASSUME CallInv, KeysInv, FineInv, TypeInv, page = "admins", AdminsNext PROVE TypeInv'
<1> USE DoTypes, AskTypes, GateTypes DEF SettingsPageNames
<1>1. CASE InviteAdmin
  BY <1>1 DEF InviteAdmin
<1>2. ASSUME NEW t \in Targets, AdminRowAction(t) \/ BeginEmailEdit(t) \/ CommitEmailEdit(t) PROVE TypeInv'
  BY <1>2 DEF AdminRowAction, BeginEmailEdit, CommitEmailEdit
<1>3. ASSUME NEW h \in Slots, AdminAnswered(h) PROVE TypeInv'
  BY <1>3, AnswerTypes DEF AdminAnswered
<1>4. ASSUME NEW h \in Slots, ResetAdminPassword(h) PROVE TypeInv'
  BY <1>4, SameTypes DEF ResetAdminPassword
<1>5. ASSUME NEW h \in Slots, ResetAdminMFA(h) PROVE TypeInv'
  <2> DEFINE t == calls[h].act.target
  <2>1. t \in Targets => RowOK([truth.rows[t] EXCEPT !.keyed = FALSE])
    BY RowEdits DEF TypeInv, StatusInv, RowsOK
  <2> QED BY <1>5, <2>1, PutTypes DEF ResetAdminMFA
<1>6. ASSUME NEW h \in Slots, CreateAdmin(h) PROVE TypeInv'
  BY <1>6, NewRows, PutTypes DEF CreateAdmin
<1>7. ASSUME NEW h \in Slots, UpdateAdmin(h) PROVE TypeInv'
  <2> DEFINE a == calls[h].act
             r == truth.rows[a.target]
  <2>1. a.target \in Targets => RowOK(r)
    BY DEF TypeInv, StatusInv, RowsOK
  <2>2. CASE Due(h, {"role"}) /\ Carry(h, Put(a.target, [r EXCEPT !.role = a.arg]))
    BY <2>1, <2>2, RowEdits, PutTypes
  <2>3. CASE Due(h, {"status"})
             /\ Carry(h, Put(a.target, [r EXCEPT !.role = a.arg.role, !.status = a.arg.status]))
    <3>1. a.arg.status \in Statuses
      BY <2>3, DueStage DEF FineInv, Fine, Runs
    <3>2. a.target \in Targets => RowOK([r EXCEPT !.role = a.arg.role, !.status = a.arg.status])
      BY <2>1, <3>1 DEF RowOK
    <3> QED BY <2>3, <3>2, PutTypes
  <2>4. CASE Carry(h, Renamed(a.target, a.arg)) \/ Decline(h)
    BY <2>4, RenamedTypes, DeclineTypes
  <2> QED BY <1>7, <2>2, <2>3, <2>4 DEF UpdateAdmin
<1> QED BY <1>1, <1>2, <1>3, <1>4, <1>5, <1>6, <1>7 DEF AdminsNext

LEMMA ServersTypes == ASSUME CallInv, KeysInv, TypeInv, page = "servers", ServersNext PROVE TypeInv'
<1> USE DoTypes, AskTypes, GateTypes DEF SettingsPageNames
<1>1. CASE OpenServerForm \/ SubmitServer
  BY <1>1 DEF OpenServerForm, SubmitServer
<1>2. ASSUME NEW t \in Targets, ServerRowAction(t) PROVE TypeInv'
  BY <1>2 DEF ServerRowAction
<1>3. ASSUME NEW h \in Slots, ServerAnswered(h) PROVE TypeInv'
  BY <1>3, AnswerTypes DEF ServerAnswered
<1>4. ASSUME NEW h \in Slots,
             UpdateServer(h) \/ CreateServer(h) \/ DeleteServer(h) \/ GetServerHostConfig(h)
      PROVE  TypeInv'
  BY <1>4, NewRows, PutTypes, RenamedTypes, SameTypes, DeclineTypes
     DEF UpdateServer, CreateServer, DeleteServer, GetServerHostConfig
<1> QED BY <1>1, <1>2, <1>3, <1>4 DEF ServersNext

LEMMA NodesTypes == ASSUME CallInv, KeysInv, TypeInv, page = "nodes", NodesNext PROVE TypeInv'
<1> USE DoTypes, AskTypes, GateTypes DEF SettingsPageNames
<1>1. CASE NodeForm
  BY <1>1 DEF NodeForm
<1>2. ASSUME NEW t \in Targets, NodeRowAction(t) PROVE TypeInv'
  BY <1>2 DEF NodeRowAction
<1>3. ASSUME NEW h \in Slots, NodeAnswered(h) PROVE TypeInv'
  BY <1>3, AnswerTypes DEF NodeAnswered
<1>4. ASSUME NEW h \in Slots, CreateNode(h) \/ RotateNodeToken(h) \/ DeleteNode(h) PROVE TypeInv'
  BY <1>4, NewRows, PutTypes, SameTypes, DeclineTypes DEF CreateNode, RotateNodeToken, DeleteNode
<1> QED BY <1>1, <1>2, <1>3, <1>4 DEF NodesNext

LEMMA BackupsTypes == ASSUME CallInv, KeysInv, TypeInv, page = "backups", BackupsNext PROVE TypeInv'
<1> USE DoTypes, AskTypes, GateTypes DEF SettingsPageNames
<1>1. CASE CreateBackup \/ PickFile
  BY <1>1 DEF CreateBackup, PickFile
<1>2. ASSUME NEW t \in Targets, BackupRowAction(t) PROVE TypeInv'
  BY <1>2 DEF BackupRowAction
<1>3. ASSUME NEW h \in Slots, BackupAnswered(h) PROVE TypeInv'
  BY <1>3, AnswerTypes DEF BackupAnswered
<1>4. ASSUME NEW h \in Slots, WriteBackup(h) \/ ReadBackup(h) \/ RemoveBackup(h) PROVE TypeInv'
  BY <1>4, NewRows, PutTypes, SameTypes, DeclineTypes DEF WriteBackup, ReadBackup, RemoveBackup
<1> QED BY <1>1, <1>2, <1>3, <1>4 DEF BackupsNext

LEMMA GatedTypes == ASSUME CallInv, KeysInv, FineInv, TypeInv, GatedNext PROVE TypeInv'
<1>1. CASE EditText \/ CancelEmailEdit
  BY <1>1, DoTypes DEF EditText, CancelEmailEdit
<1> QED BY <1>1, AdminsTypes, ServersTypes, NodesTypes, BackupsTypes DEF GatedNext

LEMMA UsersTypes == ASSUME CallInv, KeysInv, TypeInv, page = "users", UsersNext PROVE TypeInv'
<1> USE DoTypes, AskTypes, ForgetTypes DEF SettingsPageNames
<1>1. CASE InviteForm \/ HandleInvite \/ DismissResent \/ CloseEditUser \/ EditUserForm \/ HandleSaveUser
  BY <1>1 DEF InviteForm, HandleInvite, DismissResent, CloseEditUser, EditUserForm, HandleSaveUser
<1>2. ASSUME NEW t \in Targets, UserRowAction(t) \/ OpenEditUser(t) PROVE TypeInv'
  BY <1>2 DEF UserRowAction, OpenEditUser
<1>3. ASSUME NEW h \in Slots, UserAnswered(h) PROVE TypeInv'
  BY <1>3, AnswerTypes DEF UserAnswered
<1>4. ASSUME NEW h \in Slots, CreateUser(h) \/ ResendUserInvite(h) PROVE TypeInv'
  BY <1>4, NewRows, PutTypes, SameTypes, DeclineTypes DEF CreateUser, ResendUserInvite
<1>5. ASSUME NEW h \in Slots, SetUserStatus(h) PROVE TypeInv'
  BY <1>5, StatusTypes DEF SetUserStatus, Statuses
<1>6. ASSUME NEW h \in Slots, UpdateUser(h) PROVE TypeInv'
  <2> DEFINE a == calls[h].act
             named == [truth.rows[a.target] EXCEPT !.name = a.arg.name]
  <2>1. a.target \in Targets => RowOK(named)
    BY RowEdits DEF TypeInv, StatusInv, RowsOK
  <2>2. CASE Carry(h, Put(a.target, [named EXCEPT !.keyed = a.arg.keyed]))
    <3>1. a.target \in Targets => RowOK([named EXCEPT !.keyed = a.arg.keyed])
      BY <2>1, RowEdits
    <3> QED BY <2>2, <3>1, PutTypes
  <2>3. CASE /\ Mishap /\ truth' = Put(a.target, named) /\ doubt' = Lists /\ Answered(h, "error")
             /\ UNCHANGED <<plan, shown, ui, view, fetch, asked, gateVars>>
    <3>1. "rows" \in Lists
      BY DEF KeysInv, Keys, Lists
    <3>2. DOMAIN truth' = Lists /\ truth'.rows = [truth.rows EXCEPT ![a.target] = named]
      BY <2>3, <3>1 DEF Put, Lists
    <3> HIDE DEF named
    <3>3. RowsOK([truth.rows EXCEPT ![a.target] = named])
      <4>1. RowsOK(truth.rows)
        BY DEF TypeInv, StatusInv
      <4> QED BY <2>1, <4>1 DEF RowsOK
    <3>4. StatusInv'
      BY <2>3, <3>2, <3>3 DEF StatusInv, page, RowsOK, RowOK
    <3>5. CountsOK'
      BY <2>3, <3>2, MishapCounts DEF TypeInv
    <3>6. CallsOK'
      BY <2>3, AnsweredOK DEF TypeInv, Stages
    <3> QED BY <2>3, <3>4, <3>5, <3>6, GateSame DEF TypeInv
  <2> QED BY <1>6, <2>2, <2>3 DEF UpdateUser
<1> QED BY <1>1, <1>2, <1>3, <1>4, <1>5, <1>6 DEF UsersNext

LEMMA DepartmentsTypes ==
    ASSUME CallInv, KeysInv, TypeInv, page = "departments", DepartmentsNext PROVE TypeInv'
<1> USE DoTypes, AskTypes, ForgetTypes DEF SettingsPageNames
<1>1. CASE OpenDepartment \/ CloseDepartment \/ DepartmentForm \/ HandleSave
  BY <1>1 DEF OpenDepartment, CloseDepartment, DepartmentForm, HandleSave
<1>2. ASSUME NEW t \in Targets, ConfirmDelete(t) PROVE TypeInv'
  BY <1>2 DEF ConfirmDelete
<1>3. ASSUME NEW h \in Slots, DepartmentAnswered(h) PROVE TypeInv'
  BY <1>3, AnswerTypes DEF DepartmentAnswered
<1>4. ASSUME NEW h \in Slots, CreateDepartment(h) \/ UpdateDepartment(h) \/ DeleteDepartment(h)
      PROVE  TypeInv'
  BY <1>4, NewRows, PutTypes, RenamedTypes, DeclineTypes
     DEF CreateDepartment, UpdateDepartment, DeleteDepartment
<1> QED BY <1>1, <1>2, <1>3, <1>4 DEF DepartmentsNext

LEMMA PeersTypes == ASSUME CallInv, KeysInv, TypeInv, page = "peers", PeersNext PROVE TypeInv'
<1> USE DoTypes, AskTypes, ForgetTypes DEF SettingsPageNames
<1>1. CASE OpenAdd \/ CloseAdd \/ PeerForm \/ SubmitPeer
  BY <1>1 DEF OpenAdd, CloseAdd, PeerForm, SubmitPeer
<1>2. CASE ConfirmResend \/ DismissPeerResult
  BY <1>2 DEF ConfirmResend, DismissPeerResult
<1>3. ASSUME NEW t \in Targets, OpenEditPeer(t) \/ PeerRowAction(t) PROVE TypeInv'
  BY <1>3 DEF OpenEditPeer, PeerRowAction
<1>4. ASSUME NEW h \in Slots, PeerAnswered(h) PROVE TypeInv'
  <2>1. CASE \E u, keys : Answer(h, u, keys)
    BY <2>1, AnswerTypes
  <2>2. CASE Fails(h, ui, {"rows"}) /\ UNCHANGED gateVars
    BY <2>2, SucceedsTypes, GateSame DEF Fails, TypeInv
  <2> QED BY <1>4, <2>1, <2>2 DEF PeerAnswered
<1>5. ASSUME NEW h \in Slots, CreatePeer(h) PROVE TypeInv'
  <2>1. \A d : RowOK(PeerRow(d))
    BY DEF RowOK, PeerRow, Statuses
  <2> QED BY <1>5, <2>1, PutTypes, SameTypes, DeclineTypes DEF CreatePeer
<1>6. ASSUME NEW h \in Slots, UpdatePeer(h) \/ DeletePeer(h) \/ ReadPeerConfig(h) PROVE TypeInv'
  BY <1>6, RenamedTypes, StatusTypes, SameTypes, DeclineTypes
     DEF UpdatePeer, DeletePeer, ReadPeerConfig, Statuses
<1> QED BY <1>1, <1>2, <1>3, <1>4, <1>5, <1>6 DEF PeersNext

LEMMA DirectoryTypes == ASSUME CallInv, KeysInv, TypeInv, DirectoryNext PROVE TypeInv'
BY UsersTypes, DepartmentsTypes, PeersTypes DEF DirectoryNext

LEMMA RuleLists ==
    ASSUME KeysInv, page \in RulePages
    PROVE  /\ \A rules, groups : DOMAIN Counted(rules, groups) = Lists /\ Counted(rules, groups).rows = rules
           /\ \A x : DOMAIN [truth EXCEPT !.groups = x] = Lists /\ [truth EXCEPT !.groups = x]["rows"] = truth.rows
BY OnRuleLists DEF Counted, Lists

LEMMA RuleTypes ==
    ASSUME CallInv, KeysInv, TypeInv, page \in RulePages, NEW h \in Slots, NEW rules, NEW groups,
           RowsOK(rules), Carry(h, Counted(rules, groups))
    PROVE  TypeInv'
<1>1. DOMAIN Counted(rules, groups) = Lists /\ Counted(rules, groups).rows = rules
  BY RuleLists
<1> QED BY <1>1, CarryTypes

LEMMA GroupTypes ==
    ASSUME CallInv, KeysInv, TypeInv, page \in RulePages, NEW h \in Slots, NEW x,
           Carry(h, [truth EXCEPT !.groups = x])
    PROVE  TypeInv'
<1> DEFINE lists == [truth EXCEPT !.groups = x]
<1>1. DOMAIN lists = Lists /\ lists.rows = truth.rows
  BY RuleLists
<1>2. RowsOK(lists.rows)
  BY <1>1 DEF TypeInv, StatusInv, RulePages, SettingsPageNames
<1> HIDE DEF lists
<1>3. Carry(h, lists)
  BY DEF lists
<1> QED BY <1>1, <1>2, <1>3, CarryTypes

LEMMA RulesTypes == ASSUME CallInv, KeysInv, TypeInv, RulesNext PROVE TypeInv'
<1> USE DoTypes, AskTypes, ForgetTypes
<1>0. page \in RulePages /\ RowsOK(truth.rows)
  BY DEF RulesNext, TypeInv, StatusInv, RulePages, SettingsPageNames
<1>1. CASE OpenAddModal \/ CloseAddModal \/ ChooseScope \/ ChooseUser \/ TickPeer
         \/ ChooseDepartment \/ ChooseTarget \/ TypeTarget \/ HandleAdd
  BY <1>1 DEF OpenAddModal, CloseAddModal, ChooseScope, ChooseUser, TickPeer, ChooseDepartment,
              ChooseTarget, TypeTarget, HandleAdd, Edited
<1>2. CASE OpenGroupModal \/ CloseGroupModal \/ GroupForm \/ HandleSaveGroup
  BY <1>2 DEF OpenGroupModal, CloseGroupModal, GroupForm, HandleSaveGroup
<1>3. ASSUME NEW t \in Targets, DeleteRule(t) \/ ConfirmDeleteGroup(t) PROVE TypeInv'
  BY <1>3 DEF DeleteRule, ConfirmDeleteGroup
<1>4. ASSUME NEW h \in Slots, RuleAnswered(h) \/ GroupAnswered(h) PROVE TypeInv'
  BY <1>4, AnswerTypes DEF RuleAnswered, GroupAnswered
<1>5. ASSUME NEW h \in Slots, CreateRule(h) PROVE TypeInv'
  <2>1. \A t, d : RowsOK([truth.rows EXCEPT ![t] = RuleRow(d)])
    BY <1>0 DEF RowsOK, RowOK, RuleRow, Statuses
  <2>2. PICK rules : Decline(h) \/ (RowsOK(rules) /\ Carry(h, Counted(rules, truth.groups)))
    BY <1>5, <2>1 DEF CreateRule, Free
  <2> QED BY <1>0, <2>2, DeclineTypes, RuleTypes
<1>6. ASSUME NEW h \in Slots, DropRule(h) PROVE TypeInv'
  <2>1. \A t : RowsOK([truth.rows EXCEPT ![t] = NoRow])
    BY <1>0, NewRows DEF RowsOK
  <2> QED BY <1>0, <1>6, <2>1, DeclineTypes, RuleTypes DEF DropRule
<1>7. ASSUME NEW h \in Slots, CreateGroup(h) \/ UpdateGroup(h) PROVE TypeInv'
  <2>1. PICK x : Decline(h) \/ Carry(h, [truth EXCEPT !.groups = x])
    BY <1>7 DEF CreateGroup, UpdateGroup
  <2> QED BY <1>0, <2>1, DeclineTypes, GroupTypes
<1>8. ASSUME NEW h \in Slots, DeleteGroup(h) PROVE TypeInv'
  <2> DEFINE g == calls[h].act.target
             left == [t \in Targets |->
                         IF Exists(t) /\ truth.rows[t].rule.group = g THEN NoRow ELSE truth.rows[t]]
  <2>1. RowsOK(left)
    BY <1>0, NewRows DEF RowsOK
  <2>2. Decline(h) \/ \E groups : Carry(h, Counted(left, groups))
    BY <1>8 DEF DeleteGroup
  <2> QED BY <1>0, <2>1, <2>2, DeclineTypes, RuleTypes
<1> QED BY <1>1, <1>2, <1>3, <1>4, <1>5, <1>6, <1>7, <1>8 DEF RulesNext

-----------------------------------------------------------------------------
(* The profile: what ends the other sessions leaves a row or takes it.     *)
LEMMA ProfileLists ==
    ASSUME KeysInv, page = "profile"
    PROVE  /\ \A f : DOMAIN WithFactors(f) = Lists /\ WithFactors(f).rows = OthersRevoked
           /\ \A x : DOMAIN [truth EXCEPT !.mfa = x] = Lists /\ [truth EXCEPT !.mfa = x]["rows"] = truth.rows
           /\ DOMAIN [truth EXCEPT !.rows = OthersRevoked] = Lists
           /\ [truth EXCEPT !.rows = OthersRevoked]["rows"] = OthersRevoked
BY OnProfile DEF WithFactors, Lists

LEMMA RevokedRows == ASSUME RowsOK(truth.rows) PROVE RowsOK(OthersRevoked)
BY NewRows DEF RowsOK, OthersRevoked

LEMMA FactorTypes ==
    ASSUME CallInv, KeysInv, TypeInv, page = "profile", NEW h \in Slots, NEW f,
           Commit(h, WithFactors(f)), GateOK'
    PROVE  TypeInv'
<1>1. RowsOK(OthersRevoked)
  BY RevokedRows DEF TypeInv, StatusInv, SettingsPageNames
<1>2. DOMAIN WithFactors(f) = Lists /\ WithFactors(f).rows = OthersRevoked
  BY ProfileLists
<1> QED BY <1>1, <1>2, CommitTypes

LEMMA MfaTypes ==
    ASSUME CallInv, KeysInv, TypeInv, page = "profile", NEW h \in Slots, NEW x,
           Carry(h, [truth EXCEPT !.mfa = x])
    PROVE  TypeInv'
<1> DEFINE lists == [truth EXCEPT !.mfa = x]
<1>1. DOMAIN lists = Lists /\ lists.rows = truth.rows
  BY ProfileLists
<1>2. RowsOK(lists.rows)
  BY <1>1 DEF TypeInv, StatusInv, SettingsPageNames
<1> HIDE DEF lists
<1>3. Carry(h, lists)
  BY DEF lists
<1> QED BY <1>1, <1>2, <1>3, CarryTypes

LEMMA RevokedTypes ==
    ASSUME CallInv, KeysInv, TypeInv, page = "profile", NEW h \in Slots,
           Carry(h, [truth EXCEPT !.rows = OthersRevoked])
    PROVE  TypeInv'
<1> DEFINE lists == [truth EXCEPT !.rows = OthersRevoked]
<1>1. DOMAIN lists = Lists /\ lists.rows = OthersRevoked
  BY ProfileLists
<1>2. RowsOK(OthersRevoked)
  BY RevokedRows DEF TypeInv, StatusInv, SettingsPageNames
<1> HIDE DEF lists
<1>3. Carry(h, lists)
  BY DEF lists
<1> QED BY <1>1, <1>2, <1>3, CarryTypes

LEMMA StagedTypes ==
    ASSUME CallInv, TypeInv, NEW h \in Slots, NEW s \in Stages, Answered(h, s),
           UNCHANGED <<plan, shown, ui, truth, cacheVars, asked, mishaps, gateVars>>
    PROVE  TypeInv'
BY AnsweredTypes, GateSame DEF TypeInv, cacheVars

LEMMA ProfileTypes == ASSUME CallInv, KeysInv, TypeInv, ProfileNext PROVE TypeInv'
<1> USE DoTypes, AskTypes DEF ProfileNext
<1>1. CASE StartFactorAction
  BY <1>1, ConfirmTypes DEF StartFactorAction
<1>2. CASE VerifyTOTPEnrollment \/ DismissCodes \/ ChangePassword \/ RevokeOthers
  BY <1>2 DEF VerifyTOTPEnrollment, DismissCodes, ChangePassword, RevokeOthers
<1>3. ASSUME NEW t \in Targets, RevokeSession(t) PROVE TypeInv'
  BY <1>3 DEF RevokeSession
<1>4. ASSUME NEW h \in Slots, RegisterPasskey(h) \/ AddPasskeyBegin(h) \/ CheckLastFactor(h) PROVE TypeInv'
  BY <1>4, StagedTypes, DeclineTypes DEF RegisterPasskey, AddPasskeyBegin, CheckLastFactor, Stages
<1>5. ASSUME NEW h \in Slots, ProfileAnswered(h) PROVE TypeInv'
  BY <1>5, AnswerTypes DEF ProfileAnswered
<1>6. ASSUME NEW h \in Slots, AddTOTPBegin(h) PROVE TypeInv'
  BY <1>6, SameTypes, DeclineTypes DEF AddTOTPBegin
<1>7. ASSUME NEW h \in Slots, AddTOTPFinish(h) \/ AddTOTPRemove(h) PROVE TypeInv'
  <2>1. (\E f : Commit(h, WithFactors(f)) /\ UNCHANGED gateVars) \/ Decline(h)
    BY <1>7 DEF AddTOTPFinish, AddTOTPRemove, Carry
  <2> QED BY <2>1, FactorTypes, GateSame, DeclineTypes DEF TypeInv
<1>8. ASSUME NEW h \in Slots, DeletePasskey(h) PROVE TypeInv'
  <2>1. CASE Decline(h)
    BY <2>1, DeclineTypes
  <2>2. CASE ~Decline(h)
    <3>1. PICK f : Commit(h, WithFactors(f))
      BY <1>8, <2>2 DEF DeletePasskey
    <3>2. grace' = FALSE /\ stamp' = FALSE /\ UNCHANGED <<window, dialog, ceremony, stamps, redeemed>>
      BY <1>8, <2>2 DEF DeletePasskey
    <3>3. GateOK'
      BY <3>2 DEF GateOK, TypeInv
    <3> QED BY <3>1, <3>3, FactorTypes
  <2> QED BY <2>1, <2>2
<1>9. ASSUME NEW h \in Slots, AddPasskeyFinish(h) \/ RegenerateRecoveryCodes(h) PROVE TypeInv'
  <2>1. PICK x : Decline(h) \/ Carry(h, [truth EXCEPT !.mfa = x])
    BY <1>9 DEF AddPasskeyFinish, RegenerateRecoveryCodes
  <2> QED BY <2>1, MfaTypes, DeclineTypes
<1>10. ASSUME NEW h \in Slots, ReplacePassword(h) \/ RevokeMyOtherSessions(h) PROVE TypeInv'
  BY <1>10, RevokedTypes, StagedTypes DEF ReplacePassword, RevokeMyOtherSessions, Stages
<1>11. ASSUME NEW h \in Slots, RevokeMySession(h) PROVE TypeInv'
  BY <1>11, NewRows, PutTypes, DeclineTypes DEF RevokeMySession, SettingsPageNames
<1> QED BY <1>1, <1>2, <1>3, <1>4, <1>5, <1>6, <1>7, <1>8, <1>9, <1>10, <1>11

-----------------------------------------------------------------------------
(* The settings, which have no rows.                                       *)
LEMMA SettingTypes ==
    ASSUME CallInv, TypeInv, page \in SettingsPageNames, NEW h \in Slots, NEW key, NEW x,
           Commit(h, [truth EXCEPT ![key] = x]), GateOK'
    PROVE  TypeInv'
<1>1. DOMAIN [truth EXCEPT ![key] = x] = Lists
  BY DEF Lists
<1> QED BY <1>1, CommitTypes

LEMMA SettingsTypes == ASSUME CallInv, TypeInv, SettingsNext PROVE TypeInv'
<1> USE DoTypes, AskTypes
<1>0. page \in SettingsPageNames
  BY DEF SettingsNext
<1>1. CASE EditSetting \/ ChooseTemplate \/ SaveSMTP \/ TestSMTP \/ SaveTimezone \/ SaveTemplate
  BY <1>1 DEF EditSetting, ChooseTemplate, SaveSMTP, TestSMTP, SaveTimezone, SaveTemplate
<1>2. CASE SaveStepUp \/ SavePolicy \/ SaveLockout \/ SaveExpiry
  BY <1>2, ConfirmTypes DEF SaveStepUp, SavePolicy, SaveLockout, SaveExpiry, SaveSection
<1>3. ASSUME NEW h \in Slots, SettingsAnswered(h) PROVE TypeInv'
  BY <1>3, AnswerTypes DEF SettingsAnswered
<1>4. ASSUME NEW h \in Slots, SendTestEmail(h) PROVE TypeInv'
  BY <1>0, <1>4, CarryTypes DEF SendTestEmail, Lists
<1>5. ASSUME NEW h \in Slots,
             \/ UpdateSMTPConfig(h) \/ UpdateTimezoneConfig(h)
             \/ UpdateMFAPolicyConfig(h) \/ UpdateSecurityConfig(h)
      PROVE  TypeInv'
  <2>1. PICK key, x : Commit(h, [truth EXCEPT ![key] = x]) /\ UNCHANGED gateVars
    BY <1>5 DEF UpdateSMTPConfig, UpdateTimezoneConfig, UpdateMFAPolicyConfig, UpdateSecurityConfig, Carry
  <2> QED BY <1>0, <2>1, SettingTypes, GateSame DEF TypeInv
<1>6. ASSUME NEW h \in Slots, UpdateEmailTemplate(h) PROVE TypeInv'
  <2> DEFINE a == calls[h].act
             x == [truth.templates EXCEPT ![a.target] = a.arg]
  <2>1. [truth EXCEPT !.templates[a.target] = a.arg] = [truth EXCEPT !["templates"] = x]
    OBVIOUS
  <2>2. Commit(h, [truth EXCEPT !["templates"] = x]) /\ UNCHANGED gateVars
    BY <1>6, <2>1 DEF UpdateEmailTemplate, Carry
  <2> HIDE DEF x
  <2> QED BY <1>0, <2>2, SettingTypes, GateSame DEF TypeInv
<1>7. ASSUME NEW h \in Slots, UpdateStepUpConfig(h) PROVE TypeInv'
  <2>1. Commit(h, [truth EXCEPT !["stepup"] = calls[h].act.arg])
    BY <1>7 DEF UpdateStepUpConfig
  <2>2. window' \in BOOLEAN /\ UNCHANGED <<dialog, ceremony, proofVars>>
    BY <1>7 DEF UpdateStepUpConfig
  <2>3. GateOK'
    BY <2>2 DEF GateOK, TypeInv, proofVars
  <2> QED BY <1>0, <2>1, <2>3, SettingTypes
<1> QED BY <1>1, <1>2, <1>3, <1>4, <1>5, <1>6, <1>7 DEF SettingsNext

-----------------------------------------------------------------------------
(* The dialog and the proofs.                                              *)
LEMMA SamePageTypes == ASSUME TypeInv, UNCHANGED pageVars, GateOK' PROVE TypeInv'
BY CountsSame, CallsSame, StatusSame DEF TypeInv, pageVars, Lists

LEMMA BusyOf ==
    ASSUME GateOK, NEW b
    PROVE  [dialog EXCEPT !.busy = b].busy = b /\ DOMAIN [dialog EXCEPT !.busy = b] = {"gate", "busy"}
BY DEF GateOK

LEMMA GateTypesOf ==
    ASSUME GateOK, dialog'.busy \in {"no", "code", "passkey"}, DOMAIN dialog' = {"gate", "busy"},
           ceremony'.at \in {"none", "prompt", "stamped"}, DOMAIN ceremony' = {"act", "at", "here"},
           UNCHANGED <<window, grace, stamp, stamps>>
    PROVE  GateOK'
BY DEF GateOK

LEMMA SubmitTypes == ASSUME CallInv, TypeInv, SubmitCode PROVE TypeInv'
<1>1. dialog' = [dialog EXCEPT !.busy = "code"] /\ UNCHANGED <<window, ceremony, proofVars>>
  BY DEF SubmitCode
<1>2. GateOK'
  BY <1>1, BusyOf DEF TypeInv, GateOK, proofVars
<1>3. PICK proof \in {"right", "wrong"} : Send(Live(dialog.gate), "dialog", proof, dialog.gate, ui)
  BY DEF SubmitCode
<1> QED BY <1>2, <1>3, SendTypes

LEMMA PasskeyTypes == ASSUME TypeInv, UsePasskey PROVE TypeInv'
<1>1. dialog' = [dialog EXCEPT !.busy = "passkey"] /\ UNCHANGED <<pageVars, window, proofVars>>
      /\ ceremony' = [act |-> dialog.gate, at |-> "prompt", here |-> TRUE]
  BY DEF UsePasskey
<1>2. GateOK'
  BY <1>1, BusyOf, GateTypesOf DEF TypeInv, proofVars
<1> QED BY <1>1, <1>2, SamePageTypes

LEMMA StampTypes == ASSUME TypeInv, StampSession PROVE TypeInv'
<1>1. ceremony' = [ceremony EXCEPT !.at = "stamped"] /\ stamp' = TRUE /\ stamps' = stamps + 1
      /\ stamps < MaxStamps /\ UNCHANGED <<pageVars, window, dialog, grace>>
  BY DEF StampSession
<1>2. ceremony'.at = "stamped" /\ DOMAIN ceremony' = {"act", "at", "here"}
  BY <1>1 DEF TypeInv, GateOK
<1>3. stamps' \in 0..MaxStamps
  BY <1>1, StampAssumption DEF TypeInv, GateOK
<1>4. GateOK'
  BY <1>1, <1>2, <1>3 DEF TypeInv, GateOK
<1> QED BY <1>1, <1>4, SamePageTypes

LEMMA CeremonyTypes == ASSUME TypeInv, CeremonyFails PROVE TypeInv'
<1>1. ceremony' = NoCeremony /\ dialog' \in {dialog, [dialog EXCEPT !.busy = "no"]}
      /\ UNCHANGED <<pageVars, window, proofVars>>
  BY DEF CeremonyFails
<1>2. dialog'.busy \in {"no", "code", "passkey"} /\ DOMAIN dialog' = {"gate", "busy"}
  BY <1>1, BusyOf DEF TypeInv, GateOK
<1>3. GateOK'
  BY <1>1, <1>2, GateTypesOf DEF TypeInv, proofVars, NoCeremony
<1> QED BY <1>1, <1>3, SamePageTypes

LEMMA HeldTypes == ASSUME CallInv, TypeInv, RunHeldAction PROVE TypeInv'
<1>1. ceremony' = NoCeremony /\ UNCHANGED <<window, dialog, proofVars>>
  BY DEF RunHeldAction
<1>2. GateOK'
  BY <1>1, GateTypesOf DEF TypeInv, GateOK, proofVars, NoCeremony
<1>3. CASE Send(Live(ceremony.act), "dialog", "none", ceremony.act, ui)
  BY <1>2, <1>3, SendTypes
<1>4. CASE SendUnfollowed(ceremony.act, "dialog", "none", ceremony.act)
  BY <1>2, <1>4, SendAwayTypes
<1> QED BY <1>3, <1>4 DEF RunHeldAction

LEMMA CloseTypes == ASSUME TypeInv, CloseDialog \/ ProofExpires PROVE TypeInv'
<1>1. CASE CloseDialog
  <2>1. GateOK'
    BY <1>1, GateTypesOf DEF CloseDialog, TypeInv, GateOK, Closed, proofVars
  <2> QED BY <1>1, <2>1, SamePageTypes DEF CloseDialog
<1>2. CASE ProofExpires
  <2>1. GateOK'
    BY <1>2 DEF ProofExpires, TypeInv, GateOK
  <2> QED BY <1>2, <2>1, SamePageTypes DEF ProofExpires
<1> QED BY <1>1, <1>2

LEMMA EscapeTypes == ASSUME TypeInv, NEW u, Escape(u) PROVE TypeInv'
<1>1. dialog' \in {Closed, dialog} /\ Local(u) /\ UNCHANGED <<window, ceremony, proofVars>>
  BY DEF Escape
<1>2. GateOK'
  BY <1>1, GateTypesOf DEF TypeInv, GateOK, Closed, proofVars
<1> QED BY <1>1, <1>2, LocalTypes

LEMMA CheckTypes == ASSUME CallInv, TypeInv, NEW h \in Slots, CheckProof(h) PROVE TypeInv'
<1>1. PICK s \in Stages : Answered(h, s)
  BY DEF CheckProof, CodeAccepted, StampRedeemed, GraceCovers, ProofMissing, Allow, Stages
<1>2. UNCHANGED <<plan, shown, truth, doubt, asked, mishaps>>
  BY DEF CheckProof, CodeAccepted, StampRedeemed, GraceCovers, ProofMissing, Allow, cacheVars
<1>3. GateOK'
  BY DEF CheckProof, CodeAccepted, StampRedeemed, GraceCovers, ProofMissing, gateVars, GateOK, TypeInv
<1> QED BY <1>1, <1>2, <1>3, AnsweredTypes

(* A page that is left: its requests lose their page.                      *)
LEMMA AwayOK ==
    ASSUME CallInv, CallsOK,
           \A g \in Slots : calls'[g] = NoCall
                            \/ (calls[g] # NoCall /\ calls'[g] = [calls[g] EXCEPT !.here = FALSE])
    PROVE  CallsOK'
<1> SUFFICES ASSUME NEW g \in Slots, calls'[g] # NoCall PROVE CallOK(calls'[g])
  BY DEF CallsOK, CallOK
<1>1. calls[g] # NoCall /\ calls'[g] = [calls[g] EXCEPT !.here = FALSE]
  OBVIOUS
<1>2. AsNamed(calls[g]) /\ CallOK(calls[g])
  BY <1>1 DEF CallInv, CallsOK
<1> QED BY <1>1, <1>2, HereOf

LEMMA LoginTypes == ASSUME CallInv, TypeInv, NEW h \in Slots, NEW u, RedirectToLogin(h, u) PROVE TypeInv'
<1>1. shown' = FALSE /\ doubt' = {} /\ UNCHANGED <<plan, truth, asked, mishaps, window, proofVars>>
      /\ dialog' = Closed /\ ceremony' = NoCeremony
  BY DEF RedirectToLogin
<1>2. CountsOK'
  BY <1>1 DEF TypeInv, CountsOK
<1>3. CallsOK'
  BY AwayOK DEF RedirectToLogin, TypeInv
<1>4. GateOK'
  BY <1>1, GateTypesOf DEF TypeInv, GateOK, Closed, NoCeremony, proofVars
<1> QED BY <1>1, <1>2, <1>3, <1>4, StatusSame DEF TypeInv

LEMMA DialogTypes == ASSUME CallInv, TypeInv, Dialog PROVE TypeInv'
BY SubmitTypes, PasskeyTypes, CloseTypes, EscapeTypes, StampTypes, CeremonyTypes, HeldTypes, CheckTypes,
   LoginTypes DEF Dialog

-----------------------------------------------------------------------------
(* The network, the others, and leaving the page.                          *)
LEMMA FetchTypes ==
    ASSUME TypeInv, NEW k \in Lists, NEW u, ServeList(k) \/ ListArrives(k, u) \/ ListFails(k) \/ Poll(k),
           UNCHANGED gateVars
    PROVE  TypeInv'
<1>1. UNCHANGED <<plan, shown, truth, calls, asked>> /\ doubt' \subseteq Lists
  BY DEF ServeList, ListArrives, ListFails, Poll, TypeInv, CountsOK
<1>2. CountsOK'
  <2>1. CASE Mishap
    BY <1>1, <2>1, MishapCounts DEF TypeInv, Lists
  <2>2. CASE mishaps' = mishaps
    BY <1>1, <2>2 DEF TypeInv, CountsOK, Lists
  <2> QED BY <2>1, <2>2 DEF ServeList, ListArrives, ListFails, Poll
<1> QED BY <1>1, <1>2, CallsSame, StatusSame, GateSame DEF TypeInv

LEMMA NetworkTypes == ASSUME CallInv, TypeInv, Network PROVE TypeInv'
<1>1. ASSUME NEW k \in Lists, ReadList(k) \/ PollList(k) \/ (ListFails(k) /\ UNCHANGED gateVars)
      PROVE  TypeInv'
  BY <1>1, FetchTypes DEF ReadList, PollList
<1>2. ASSUME NEW h \in Slots, Refuse(h) \/ LoseAnswer(h), UNCHANGED gateVars PROVE TypeInv'
  <2>1. UNCHANGED <<plan, shown, truth, asked>> /\ Mishap /\ doubt' \subseteq Lists
    BY <1>2 DEF Refuse, LoseAnswer, cacheVars, TypeInv, CountsOK
  <2>2. PICK s \in Stages : Answered(h, s)
    BY <1>2 DEF Refuse, LoseAnswer, Stages
  <2>3. CountsOK'
    BY <2>1, MishapCounts DEF TypeInv, Lists
  <2> QED BY <1>2, <2>1, <2>2, <2>3, AnsweredOK, StatusSame, GateSame DEF TypeInv
<1> QED BY <1>1, <1>2 DEF Network

LEMMA OthersTypes == ASSUME KeysInv, TypeInv, Others, DOMAIN truth' = Lists PROVE TypeInv'
<1>1. PICK t \in Targets : \E lists \in Elsewhere(t) : Outsider(lists) /\ UNCHANGED gateVars
  BY DEF Others
<1>2. PICK lists \in Elsewhere(t) : Outsider(lists) /\ UNCHANGED gateVars
  BY <1>1
<1>3. UNCHANGED <<plan, shown, asked, calls>> /\ truth' = lists /\ Mishap /\ doubt' \subseteq Lists
  BY <1>2 DEF Outsider, TypeInv, CountsOK
<1>4. CountsOK'
  BY <1>3, MishapCounts DEF TypeInv
<1>5. ASSUME page \notin SettingsPageNames PROVE RowsOK(lists.rows)
  <2>1. RowsOK(truth.rows) /\ "rows" \in Lists
    BY <1>5 DEF TypeInv, StatusInv, KeysInv, Keys, Lists
  <2>2. \A r : Put(t, r).rows = [truth.rows EXCEPT ![t] = r]
    BY <2>1 DEF Put, Lists
  <2>3. \A r : RowOK(r) => RowsOK(Put(t, r).rows)
    BY <2>1, <2>2 DEF RowsOK
  <2>4. RowOK([truth.rows[t] EXCEPT !.role = "super_admin"])
        /\ \A s \in Statuses : RowOK([truth.rows[t] EXCEPT !.status = s])
    BY <2>1, RowEdits DEF RowsOK
  <2>5. CASE page = "admins"
    BY <1>2, <2>3, <2>4, <2>5 DEF Elsewhere, WithStatus, Statuses, SettingsPageNames
  <2>6. CASE page \in {"users", "peers"}
    BY <1>2, <2>3, <2>4, <2>6 DEF Elsewhere, WithStatus, Statuses, SettingsPageNames
  <2>7. CASE page \in RulePages
    <3>1. RowsOK([truth.rows EXCEPT ![t] = NoRow])
      BY <2>1, NewRows DEF RowsOK
    <3>2. lists = Counted([truth.rows EXCEPT ![t] = NoRow], truth.groups)
      BY <1>2, <2>7 DEF Elsewhere, RulePages, SettingsPageNames
    <3> QED BY <2>7, <3>1, <3>2, RuleLists
  <2>8. CASE page \notin {"admins", "users", "peers"} \cup RulePages
    <3>1. lists = Put(t, NoRow) \/ lists = Put(t, Row("active"))
      BY <1>2, <1>5, <2>8 DEF Elsewhere
    <3> QED BY <2>3, <3>1, NewRows
  <2> QED BY <2>5, <2>6, <2>7, <2>8
<1>6. StatusInv'
  BY <1>3, <1>5 DEF StatusInv, page, RowsOK, RowOK
<1> QED BY <1>2, <1>3, <1>4, <1>6, CallsSame, GateSame DEF TypeInv

LEMMA NavigateTypes == ASSUME CallInv, TypeInv, Navigate PROVE TypeInv'
<1>1. CASE Leave(BlankPage)
  <2>1. Mishap /\ shown' = FALSE /\ UNCHANGED <<plan, truth, doubt, asked, window, proofVars>> /\ dialog' = Closed
    BY <1>1 DEF Leave, Unmount, cacheVars
  <2>2. CountsOK'
    <3>1. mishaps \in Nat /\ mishaps + 1 <= plan.mishaps /\ mishaps' = mishaps + 1
      BY <2>1, PlanTypes DEF TypeInv, CountsOK, Mishap
    <3>2. mishaps' \in 0..plan.mishaps
      BY <3>1, PlanTypes DEF TypeInv
    <3> QED BY <2>1, <3>2 DEF TypeInv, CountsOK, Lists
  <2>3. CallsOK'
    BY <1>1, AwayOK DEF Leave, Unmount, TypeInv
  <2>4. ceremony'.at \in {"none", "prompt", "stamped"} /\ DOMAIN ceremony' = {"act", "at", "here"}
    <3>1. CASE ceremony' = NoCeremony
      BY <3>1 DEF NoCeremony
    <3>2. CASE ceremony' = [ceremony EXCEPT !.act = Live(@), !.here = FALSE]
      BY <3>2 DEF TypeInv, GateOK
    <3> QED BY <1>1, <3>1, <3>2 DEF Leave
  <2>5. GateOK'
    BY <2>1, <2>4, GateTypesOf DEF TypeInv, Closed, proofVars
  <2> QED BY <2>1, <2>2, <2>3, <2>5, StatusSame DEF TypeInv
<1>2. CASE Mount(BlankPage) /\ UNCHANGED gateVars
  <2>1. shown' = TRUE /\ UNCHANGED <<plan, truth, calls, asked, mishaps>> /\ doubt' \subseteq Lists
    BY <1>2 DEF Mount, Overtaken
  <2>2. CountsOK'
    BY <2>1 DEF TypeInv, CountsOK, Lists
  <2> QED BY <1>2, <2>1, <2>2, CallsSame, StatusSame, GateSame DEF TypeInv
<1> QED BY <1>1, <1>2 DEF Navigate

-----------------------------------------------------------------------------
LEMMA StartRows == ASSUME plan \in Plans, NEW t PROVE RowOK(StartRow(t))
<1>1. plan.others \in Statuses
  BY PlanAssumption
<1>2. "active" \in Statuses
  BY DEF Statuses
<1>3. \A n, s : s \in Statuses => RowOK([PeerRow(NoPeer) EXCEPT !.name = n, !.status = s])
  BY DEF RowOK, PeerRow
<1>4. \A s \in Statuses : RowOK(Row(s)) /\ RowOK([Row(s) EXCEPT !.role = "super_admin"])
  BY DEF RowOK, Row
<1>5. \A d : RowOK(RuleRow(d))
  BY <1>2 DEF RowOK, RuleRow
<1> QED BY <1>1, <1>2, <1>3, <1>4, <1>5 DEF StartRow

LEMMA TypeInit == ASSUME Init PROVE TypeInv
<1>1. CountsOK
  BY PlanAssumption DEF Init, CountsOK
<1>2. CallsOK
  BY DEF Init, CallsOK
<1>3. GateOK
  <2>1. dialog = Closed /\ ceremony = NoCeremony /\ stamp = FALSE /\ stamps = 0
    BY DEF Init
  <2>2. window \in BOOLEAN
    <3>1. window \in (IF page \in GatePages \ {"security"} THEN BOOLEAN ELSE {FALSE})
      BY DEF Init
    <3> QED BY <3>1
  <2>3. grace \in BOOLEAN
    <3>1. grace \in {FALSE, window}
      BY DEF Init
    <3> QED BY <2>2, <3>1
  <2>4. stamps \in 0..MaxStamps
    BY <2>1, StampAssumption
  <2>5. /\ DOMAIN dialog = {"gate", "busy"} /\ dialog.busy = "no"
        /\ DOMAIN ceremony = {"act", "at", "here"} /\ ceremony.at = "none"
    BY <2>1 DEF Closed, NoCeremony
  <2>6. stamp \in BOOLEAN
    BY <2>1
  <2> QED BY <2>2, <2>3, <2>4, <2>5, <2>6 DEF GateOK
<1>4. ASSUME page \notin SettingsPageNames PROVE RowsOK(truth.rows)
  <2> DEFINE start == [t \in Targets |-> StartRow(t)]
  <2>1. truth.rows = start
    <3>1. truth \in StartLists
      BY DEF Init
    <3> HIDE DEF start
    <3>2. \A m, g : [rows |-> start, mfa |-> m].rows = start /\ [rows |-> start, groups |-> g].rows = start
      OBVIOUS
    <3>3. CASE page = "profile"
      <4>1. PICK m : truth = [rows |-> start, mfa |-> m]
        BY <3>1, <3>3 DEF StartLists, start, SettingsPageNames
      <4> QED BY <3>2, <4>1
    <3>4. CASE page \in RulePages
      <4>1. PICK g : truth = [rows |-> start, groups |-> g]
        BY <3>1, <3>4 DEF StartLists, start, SettingsPageNames, RulePages
      <4> QED BY <3>2, <4>1
    <3>5. CASE page \notin {"profile"} \cup RulePages
      <4>1. truth = [rows |-> start]
        BY <1>4, <3>1, <3>5 DEF StartLists, start
      <4> QED BY <4>1
    <3> QED BY <3>3, <3>4, <3>5
  <2>2. plan \in Plans
    BY DEF Init
  <2> QED BY <2>1, <2>2, StartRows DEF RowsOK
<1> QED BY <1>1, <1>2, <1>3, <1>4 DEF TypeInv, StatusInv

LEMMA TypeNext == ASSUME PagesInv, ShowsInv, ShowsInv', TypeInv, [Next]_vars PROVE TypeInv'
<1>1. CallInv /\ FineInv /\ KeysInv /\ KeysInv'
  BY DEF PagesInv, GateInv, SendInv, ShowsInv
<1>2. CASE GatedNext \/ ProfileNext \/ DirectoryNext \/ RulesNext \/ SettingsNext
  BY <1>1, <1>2, GatedTypes, ProfileTypes, DirectoryTypes, RulesTypes, SettingsTypes
<1>3. CASE Dialog \/ Network \/ Navigate
  BY <1>1, <1>3, DialogTypes, NetworkTypes, NavigateTypes
<1>4. CASE Others
  <2>1. DOMAIN truth' = Lists
    <3>1. plan' = plan
      BY <1>4 DEF Others, Outsider
    <3> QED BY <1>1, <3>1 DEF KeysInv, Keys, StartSettings, page, Lists
  <2> QED BY <1>1, <1>4, <2>1, OthersTypes
<1>5. CASE UNCHANGED vars
  <2>1. UNCHANGED pageVars /\ UNCHANGED gateVars
    BY <1>5 DEF vars
  <2> QED BY <2>1, GateSame, SamePageTypes DEF TypeInv
<1> QED BY <1>2, <1>3, <1>4, <1>5 DEF Next

(* Every variable keeps its type, for every set of rows and slots and any  *)
(* plans: requests, mishaps and stamps stay within their bounds, every     *)
(* request is at a stage that an action answers, and every row of a list   *)
(* has a status that the pages know, whatever handlers and other           *)
(* administrators did to it.                                               *)
THEOREM ConsoleTypes == Spec => []CTypeOK
<1>1. Init => PagesInv /\ ShowsInv /\ TypeInv
  BY PagesInvInit, ShowsInit, TypeInit
<1>2. PagesInv /\ ShowsInv /\ TypeInv /\ [Next]_vars => (PagesInv /\ ShowsInv /\ TypeInv)'
  BY PagesInvNext, ShowsNext, TypeNext
<1>3. ShowsInv /\ TypeInv => CTypeOK
  <2> SUFFICES ASSUME ShowsInv, TypeInv PROVE CTypeOK
    OBVIOUS
  <2>1. \A k \in Lists : fetch[k].at \in {"idle", "asked", "read"}
    BY DEF ShowsInv, KeysInv, Lists, FetchShape, Idle, Asked
  <2>2. "rows" \in Lists => \A t \in Targets : truth.rows[t].status \in Statuses
    <3> SUFFICES ASSUME "rows" \in Lists PROVE \A t \in Targets : truth.rows[t].status \in Statuses
      OBVIOUS
    <3>1. page \notin SettingsPageNames
      BY DEF ShowsInv, KeysInv, Keys, Lists, StartSettings
    <3> QED BY <3>1 DEF TypeInv, StatusInv, RowsOK, RowOK
  <2>3. \A h \in Flying : CallOK(calls[h])
    BY DEF TypeInv, CallsOK, Flying
  <2>4. {window, grace, stamp} \subseteq BOOLEAN
    BY DEF TypeInv, GateOK
  <2> QED BY <2>1, <2>2, <2>3, <2>4 DEF TypeInv, CountsOK, GateOK, CallOK, Stages, CTypeOK
<1> QED BY <1>1, <1>2, <1>3, PTL DEF Spec

================================================================================
