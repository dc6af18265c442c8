--------------------------- MODULE ConsoleListProofs ---------------------------
(***************************************************************************)
(* What the pages show, for every set of rows, requests and plans: a list  *)
(* that is shown with no fetch and no request under way is the server's,   *)
(* what is typed into a mail template stays, and so does the row that an   *)
(* open form is about.                                                     *)
(*                                                                         *)
(* Every step of a page is one of four kinds (ListStep): it leaves the     *)
(* lists and the requests that were carried out as they are, has the       *)
(* server change the lists that the answer will read anew, hears an        *)
(* answer, or leaves every list in doubt.                                  *)
(***************************************************************************)
EXTENDS ConsoleSendProofs

(* The lists of a page.                                                    *)
Keys ==
    IF page \in SettingsPageNames THEN DOMAIN StartSettings
    ELSE IF page = "profile" THEN {"rows", "mfa"}
    ELSE IF page \in RulePages THEN {"rows", "groups"} ELSE {"rows"}

FetchShape(f) == f = Idle \/ f = Asked \/ (f.at = "read" /\ f = [at |-> "read", got |-> f.got])

KeysInv ==
    /\ DOMAIN truth = Keys /\ view = [k \in Keys |-> view[k]] /\ fetch = [k \in Keys |-> fetch[k]]
    /\ \A k \in Keys : FetchShape(fetch[k])

(* What the answer of a request reads anew.                                *)
ReadOnly == {"hostsetup", "rotate", "download", "resendpeer", "peerconfig"}

Changes(a) ==
    IF page \in SettingsPageNames THEN (IF a.op = "testsmtp" THEN {} ELSE {ListOf(a.target)})
    ELSE IF page = "profile" THEN ProfileRefreshes(a.op)
    ELSE IF page \in RulePages THEN {"rows", "groups"}
    ELSE IF a.op \in ReadOnly THEN {} ELSE {"rows"}

(* A list is the server's, or will be read: a fetch was not answered yet,  *)
(* or a request was carried out whose answer is still to be heard.         *)
Done(h) == calls[h] # NoCall /\ calls[h].stage = "ok"

Fresh(k) ==
    \/ fetch[k] = Asked
    \/ fetch[k].at = "read" /\ fetch[k].got = truth[k]
    \/ fetch[k] = Idle /\ view[k] = truth[k]
    \/ \E h \in Slots : Done(h) /\ k \in Changes(calls[h].act)

ListInv == shown => \A k \in Lists \ (doubt \cup Unread) : Fresh(k)

-----------------------------------------------------------------------------
(* The kinds of steps.                                                     *)
OksStay  == \A h \in Slots : Done(h) => Done(h)' /\ calls'[h].act = calls[h].act
Idles    == UNCHANGED <<plan, shown, truth, view, fetch, doubt>> /\ OksStay
Carries  ==
    \E h \in Slots : \E lists :
        /\ calls[h] # NoCall /\ ~Done(h) /\ Commit(h, lists)
        /\ DOMAIN lists = Lists
        /\ \A k \in Lists : lists[k] # truth[k] => k \in Changes(calls[h].act) \cup Unread
Ends ==
    \E h \in Slots : \E u, keys :
        /\ calls[h] # NoCall /\ Succeeds(h, u, keys)
        /\ Done(h) => Changes(calls[h].act) \subseteq keys
Doubts == UNCHANGED <<plan, shown, view, fetch>> /\ DOMAIN truth' = Lists /\ doubt' = Lists

ListStep == Idles \/ Carries \/ Ends \/ Doubts

(* The answers stay about the same lists.                                  *)
Steady == \A a : Changes(a)' = Changes(a)

LEMMA ReadFetch == ASSUME NEW f, FetchShape(f) PROVE f.at = "read" <=> (f # Idle /\ f # Asked)
BY DEF FetchShape, Idle, Asked

LEMMA ListStepPlan ==
    ASSUME KeysInv, ListStep PROVE plan' = plan /\ shown' = shown /\ Lists' = Lists /\ Keys' = Keys
<1>1. plan' = plan /\ shown' = shown
  BY DEF ListStep, Idles, Carries, Ends, Doubts, Commit, Succeeds
<1>2. DOMAIN truth' = DOMAIN truth
  BY DEF ListStep, Idles, Carries, Ends, Doubts, Commit, Succeeds, Lists
<1>3. Keys' = Keys
  BY <1>1 DEF Keys, page, StartSettings
<1> QED BY <1>1, <1>2, <1>3 DEF Lists

LEMMA RefreshedFetch ==
    ASSUME KeysInv, NEW keys, Refreshed(keys)
    PROVE  fetch' = [k \in Keys |-> fetch'[k]] /\ \A k \in Keys : fetch'[k] \in {Asked, fetch[k]}
BY DEF Refreshed, KeysInv, Lists

LEMMA ListStepCache ==
    ASSUME KeysInv, ListStep
    PROVE  /\ view' = view /\ fetch' = [k \in Keys |-> fetch'[k]]
           /\ \A k \in Keys : fetch'[k] \in {Asked, fetch[k]}
<1>1. view' = view
  BY DEF ListStep, Idles, Carries, Ends, Doubts, Commit, Succeeds, cacheVars
<1>2. CASE fetch' = fetch
  BY <1>1, <1>2 DEF KeysInv
<1>3. CASE Ends
  BY <1>1, <1>3, RefreshedFetch DEF Ends, Succeeds
<1> QED BY <1>2, <1>3 DEF ListStep, Idles, Carries, Doubts, Commit, cacheVars

LEMMA ListStepKeys == ASSUME KeysInv, ListStep PROVE KeysInv'
<1>1. Keys' = Keys /\ DOMAIN truth' = Keys
  BY ListStepPlan DEF KeysInv, Lists
<1>2. \A k \in Keys : FetchShape(fetch'[k])
  BY ListStepCache DEF KeysInv, FetchShape
<1> QED BY <1>1, <1>2, ListStepCache DEF KeysInv

LEMMA IdlesKeeps == ASSUME KeysInv, ListInv, Idles, Steady PROVE ListInv'
<1>1. Lists' = Lists /\ Unread' = Unread /\ shown' = shown /\ doubt' = doubt
  BY DEF Idles, Lists, Unread, page
<1>2. ASSUME NEW k, Fresh(k) PROVE Fresh(k)'
  BY <1>2 DEF Fresh, Idles, OksStay, Steady
<1> QED BY <1>1, <1>2 DEF ListInv

LEMMA CarriesKeeps == ASSUME KeysInv, ListInv, CallInv, Carries, Steady PROVE ListInv'
<1> DEFINE Carried(h, lists) ==
        /\ calls[h] # NoCall /\ ~Done(h) /\ Commit(h, lists)
        /\ DOMAIN lists = Lists
        /\ \A k \in Lists : lists[k] # truth[k] => k \in Changes(calls[h].act) \cup Unread
<1>0. PICK h \in Slots : \E lists : Carried(h, lists)
  BY DEF Carries
<1>1. PICK lists : Carried(h, lists)
  BY <1>0
<1>2. /\ plan' = plan /\ truth' = lists /\ shown' = shown /\ view' = view /\ fetch' = fetch /\ doubt' = doubt
      /\ Answered(h, "ok")
  BY <1>1 DEF Commit, cacheVars
<1>3. Lists' = Lists /\ Unread' = Unread
  BY <1>1, <1>2 DEF Lists, Unread, page
<1>4. Done(h)' /\ calls'[h].act = calls[h].act
  <2>1. calls'[h] = [calls[h] EXCEPT !.stage = "ok"]
    BY <1>2 DEF Answered, CallInv
  <2>2. IsCall(calls[h])
    BY <1>1 DEF CallInv, AsNamed
  <2>3. calls'[h] = [act |-> calls[h].act, via |-> calls[h].via, proof |-> calls[h].proof,
                     named |-> calls[h].named, stage |-> "ok", here |-> calls[h].here,
                     latest |-> calls[h].latest]
    BY <2>1, <2>2 DEF IsCall
  <2>4. calls'[h] # NoCall
    BY <2>3 DEF NoCall
  <2> QED BY <2>3, <2>4 DEF Done
<1>5. ASSUME NEW g \in Slots, Done(g) PROVE Done(g)' /\ calls'[g].act = calls[g].act
  BY <1>1, <1>2, <1>5 DEF Done, Answered, CallInv
<1>6. ASSUME NEW k \in Lists \ (doubt \cup Unread), Fresh(k) PROVE Fresh(k)'
  <2>1. CASE lists[k] = truth[k]
    BY <1>2, <1>5, <1>6, <2>1 DEF Fresh, Steady
  <2>2. CASE lists[k] # truth[k]
    BY <1>1, <1>4, <2>2 DEF Fresh, Steady
  <2> QED BY <2>1, <2>2
<1> QED BY <1>2, <1>3, <1>6 DEF ListInv

LEMMA EndsKeeps == ASSUME KeysInv, ListInv, CallInv, Ends, Steady PROVE ListInv'
<1> DEFINE Ended(h, u, keys) == /\ calls[h] # NoCall /\ Succeeds(h, u, keys)
                                /\ Done(h) => Changes(calls[h].act) \subseteq keys
<1>0. PICK h \in Slots : \E u, keys : Ended(h, u, keys)
  BY DEF Ends
<1>1. PICK u, keys : Ended(h, u, keys)
  BY <1>0
<1>2. /\ plan' = plan /\ truth' = truth /\ shown' = shown /\ view' = view
      /\ calls' = [calls EXCEPT ![h] = NoCall] /\ Refreshed(keys)
  BY <1>1 DEF Succeeds
<1>3. Lists' = Lists /\ Unread' = Unread
  BY <1>2 DEF Lists, Unread, page
<1> SUFFICES ASSUME shown, NEW k \in Lists \ (doubt' \cup Unread) PROVE Fresh(k)'
  BY <1>2, <1>3 DEF ListInv
<1> DEFINE first == {j \in keys \cap Lists : fetch[j] # Idle /\ view[j] = NoData}
<1>4. /\ fetch' = [j \in Lists |-> IF j \in keys \ first THEN Asked ELSE fetch[j]]
      /\ doubt' = (doubt \ keys) \cup Overtaken(first)
  BY <1>2 DEF Refreshed
<1>5. CASE k \in keys \ first
  BY <1>4, <1>5 DEF Fresh
<1>6. CASE k \in first
  <2>1. fetch'[k] = fetch[k] /\ fetch[k] # Idle /\ fetch[k].at # "read"
    BY <1>4, <1>6 DEF Overtaken
  <2>2. FetchShape(fetch[k])
    BY DEF KeysInv, Lists
  <2>3. fetch[k] = Asked
    BY <2>1, <2>2 DEF FetchShape
  <2> QED BY <2>1, <2>3 DEF Fresh
<1>7. CASE k \notin keys
  <2>1. fetch'[k] = fetch[k] /\ k \notin doubt
    BY <1>4, <1>7
  <2>2. Fresh(k)
    BY <2>1 DEF ListInv
  <2>3. ASSUME NEW g \in Slots, Done(g), k \in Changes(calls[g].act)
        PROVE  Done(g)' /\ calls'[g].act = calls[g].act
    <3>1. g # h
      BY <1>1, <1>7, <2>3
    <3> QED BY <1>2, <2>3, <3>1 DEF Done, CallInv
  <2> QED BY <1>2, <2>1, <2>2, <2>3 DEF Fresh, Steady
<1> QED BY <1>5, <1>6, <1>7

LEMMA DoubtsKeeps == ASSUME Doubts PROVE ListInv'
BY DEF Doubts, ListInv, Lists

LEMMA ListStepKeeps == ASSUME KeysInv, ListInv, CallInv, ListStep, Steady PROVE ListInv'
BY IdlesKeeps, CarriesKeeps, EndsKeeps, DoubtsKeeps DEF ListStep

-----------------------------------------------------------------------------
(* The vocabulary of the pages.                                            *)
LEMMA SameList ==
    ASSUME UNCHANGED <<plan, shown, truth, view, fetch, doubt>>, calls' = calls PROVE ListStep
BY DEF ListStep, Idles, OksStay, Done

LEMMA DoList == ASSUME NEW u, Do(u) PROVE ListStep
BY SameList DEF Do, Local, cacheVars

LEMMA LatestOk ==
    ASSUME NEW c, AsNamed(c), c # NoCall, NEW s, NEW d, d = [c EXCEPT !.latest = s]
    PROVE  d # NoCall /\ d.stage = c.stage /\ d.act = c.act
<1>1. IsCall(c)
  BY DEF AsNamed
<1>2. d = [act |-> c.act, via |-> c.via, proof |-> c.proof, named |-> c.named, stage |-> c.stage,
           here |-> c.here, latest |-> s]
  BY <1>1 DEF IsCall
<1> QED BY <1>2 DEF NoCall

LEMMA ForgetList == ASSUME CallInv, NEW u, NEW ops, Forget(u, ops) PROVE ListStep
<1>1. UNCHANGED <<plan, shown, truth, view, fetch, doubt>> /\ calls' = Unfollowed(ops)
  BY DEF Forget, cacheVars
<1>2. ASSUME NEW h \in Slots, Done(h) PROVE Done(h)' /\ calls'[h].act = calls[h].act
  <2>1. calls'[h] = calls[h] \/ calls'[h] = [calls[h] EXCEPT !.latest = FALSE]
    BY <1>1 DEF Unfollowed
  <2>2. AsNamed(calls[h])
    BY DEF CallInv
  <2> QED BY <1>2, <2>1, <2>2, LatestOk DEF Done
<1> QED BY <1>1, <1>2 DEF ListStep, Idles, OksStay

LEMMA SendList ==
    ASSUME CallInv, NEW a, NEW via, NEW proof, NEW named, NEW u, Send(a, via, proof, named, u)
    PROVE  ListStep
<1>1. UNCHANGED <<plan, shown, truth, view, fetch, doubt>>
  BY DEF Send, cacheVars
<1>2. PICK g \in Slots : calls[g] = NoCall /\ calls' = Sent(a, via, proof, named, g)
  BY DEF Send
<1>3. ASSUME NEW h \in Slots, Done(h) PROVE Done(h)' /\ calls'[h].act = calls[h].act
  <2>1. calls'[h] = calls[h] \/ calls'[h] = [calls[h] EXCEPT !.latest = FALSE]
    BY <1>2, <1>3 DEF Sent, Done
  <2>2. AsNamed(calls[h])
    BY DEF CallInv
  <2> QED BY <1>3, <2>1, <2>2, LatestOk DEF Done
<1> QED BY <1>1, <1>3 DEF ListStep, Idles, OksStay

LEMMA SendAwayList ==
    ASSUME CallInv, NEW a, NEW via, NEW proof, NEW named, SendUnfollowed(a, via, proof, named)
    PROVE  ListStep
<1>1. UNCHANGED <<plan, shown, truth, view, fetch, doubt>>
  BY DEF SendUnfollowed, cacheVars
<1>2. ASSUME NEW h \in Slots, Done(h) PROVE calls'[h] = calls[h]
  BY <1>2 DEF SendUnfollowed, CallInv, Done
<1> QED BY <1>1, <1>2 DEF ListStep, Idles, OksStay, Done

LEMMA AskList ==
    ASSUME CallInv, NEW op, NEW t, NEW arg, NEW u, Ask(op, t, arg, u) PROVE ListStep
BY SendList DEF Ask

LEMMA GateList == ASSUME CallInv, NEW a, NEW u, Gate(a, u) PROVE ListStep
<1>1. CASE Local(u)
  BY <1>1, SameList DEF Local, cacheVars
<1>2. CASE Send(a, "probe", "none", NoGate, u)
  BY <1>2, SendList
<1> QED BY <1>1, <1>2 DEF Gate

LEMMA ConfirmList == ASSUME NEW a, Confirm(a) PROVE ListStep
BY SameList DEF Confirm, Local, cacheVars

LEMMA AnsweredList ==
    ASSUME CallInv, NEW h \in Slots, NEW s, Answered(h, s), calls[h].stage # "ok",
           UNCHANGED <<plan, shown, truth, view, fetch, doubt>>
    PROVE  ListStep
<1>1. ASSUME NEW g \in Slots, Done(g) PROVE calls'[g] = calls[g]
  BY <1>1 DEF Answered, CallInv, Done
<1> QED BY <1>1 DEF ListStep, Idles, OksStay, Done

LEMMA RejectList == ASSUME CallInv, NEW h \in Slots, Decline(h), calls[h].stage # "ok" PROVE ListStep
BY AnsweredList DEF Decline, Reject, cacheVars

LEMMA DueStage ==
    ASSUME NEW h, NEW ops, Due(h, ops), "none" \notin ops
    PROVE  calls[h] # NoCall /\ calls[h].stage # "ok" /\ ~Done(h) /\ calls[h].act.op \in ops
BY DEF Due, Done, NoCall

LEMMA CommitList ==
    ASSUME NEW h \in Slots, NEW lists, Commit(h, lists), DOMAIN lists = Lists,
           calls[h] # NoCall, calls[h].stage # "ok",
           \A k \in Lists : lists[k] # truth[k] => k \in Changes(calls[h].act) \cup Unread
    PROVE  ListStep
BY DEF ListStep, Carries, Done

LEMMA SameCarry ==
    ASSUME NEW h \in Slots, Carry(h, truth), calls[h] # NoCall, calls[h].stage # "ok" PROVE ListStep
BY CommitList DEF Carry, Lists

LEMMA AnswerList ==
    ASSUME NEW h \in Slots, NEW u, NEW keys, Answer(h, u, keys), Changes(calls[h].act) \subseteq keys
    PROVE  ListStep
<1>1. calls[h] # NoCall
  BY DEF Answer, Ready
<1>2. CASE calls[h].stage = "ok"
  BY <1>1, <1>2 DEF Answer, ListStep, Ends
<1>3. CASE calls[h].stage # "ok"
  <2>1. Succeeds(h, ui, {})
    BY <1>3 DEF Answer, Fails
  <2> QED BY <1>1, <1>3, <2>1 DEF ListStep, Ends, Done
<1> QED BY <1>2, <1>3

-----------------------------------------------------------------------------
(* The pages with one list, of rows.                                       *)
RowPages == {"admins", "servers", "nodes", "backups", "users", "departments", "peers"}

LEMMA OnRows ==
    ASSUME KeysInv, page \in RowPages
    PROVE  /\ Lists = {"rows"}
           /\ \A a : Changes(a) \subseteq {"rows"} /\ (a.op \in ReadOnly => Changes(a) = {})
           /\ \A a : a.op \notin ReadOnly => Changes(a) = {"rows"}
BY DEF KeysInv, Lists, Keys, Changes, RowPages, SettingsPageNames, RulePages

LEMMA RowsAnswer ==
    ASSUME KeysInv, page \in RowPages, NEW h \in Slots, NEW u, NEW keys, Answer(h, u, keys),
           "rows" \in keys \/ calls[h].act.op \in ReadOnly
    PROVE  ListStep
<1>1. Changes(calls[h].act) \subseteq keys
  BY OnRows
<1> QED BY <1>1, AnswerList

LEMMA PutCarry ==
    ASSUME KeysInv, page \in RowPages, NEW h \in Slots, NEW t, NEW r, Carry(h, Put(t, r)),
           calls[h] # NoCall, calls[h].stage # "ok", calls[h].act.op \notin ReadOnly
    PROVE  ListStep
<1>1. DOMAIN Put(t, r) = Lists
  BY DEF Put, Lists
<1>2. \A k \in Lists : k \in Changes(calls[h].act)
  BY OnRows
<1> QED BY <1>1, <1>2, CommitList DEF Carry

LEMMA StatusCarry ==
    ASSUME KeysInv, page \in RowPages, NEW h \in Slots, NEW t, NEW s,
           Carry(h, WithStatus(t, s)) \/ Carry(h, Renamed(t, s)),
           calls[h] # NoCall, calls[h].stage # "ok", calls[h].act.op \notin ReadOnly
    PROVE  ListStep
BY PutCarry DEF WithStatus, Renamed

LEMMA AdminsList == ASSUME CallInv, KeysInv, page = "admins", AdminsNext PROVE ListStep
<1> USE DoList, AskList, GateList DEF RowPages
<1>1. CASE InviteAdmin
  BY <1>1 DEF InviteAdmin
<1>2. ASSUME NEW t \in Targets, AdminRowAction(t) \/ BeginEmailEdit(t) \/ CommitEmailEdit(t)
      PROVE  ListStep
  BY <1>2 DEF AdminRowAction, BeginEmailEdit, CommitEmailEdit
<1>3. ASSUME NEW h \in Slots, AdminAnswered(h) PROVE ListStep
  BY <1>3, RowsAnswer, SMTT(30) DEF AdminAnswered
<1>4. ASSUME NEW h \in Slots, UpdateAdmin(h) PROVE ListStep
  <2>1. calls[h] # NoCall /\ calls[h].stage # "ok" /\ calls[h].act.op \in {"role", "status", "email"}
    BY <1>4, DueStage DEF UpdateAdmin
  <2>2. calls[h].act.op \notin ReadOnly
    BY <2>1 DEF ReadOnly
  <2> QED BY <1>4, <2>1, <2>2, PutCarry, StatusCarry, RejectList, SMTT(30) DEF UpdateAdmin
<1>5. ASSUME NEW h \in Slots, ResetAdminPassword(h) PROVE ListStep
  BY <1>5, DueStage, SameCarry DEF ResetAdminPassword
<1>6. ASSUME NEW h \in Slots, ResetAdminMFA(h) \/ CreateAdmin(h) PROVE ListStep
  <2>1. calls[h] # NoCall /\ calls[h].stage # "ok" /\ calls[h].act.op \in {"resetmfa", "inviteadmin"}
    BY <1>6, DueStage DEF ResetAdminMFA, CreateAdmin
  <2>2. calls[h].act.op \notin ReadOnly
    BY <2>1 DEF ReadOnly
  <2> QED BY <1>6, <2>1, <2>2, PutCarry DEF ResetAdminMFA, CreateAdmin
<1> QED BY <1>1, <1>2, <1>3, <1>4, <1>5, <1>6 DEF AdminsNext

LEMMA ServersList == ASSUME CallInv, KeysInv, page = "servers", ServersNext PROVE ListStep
<1> USE DoList, AskList, GateList DEF RowPages
<1>1. CASE OpenServerForm \/ SubmitServer
  BY <1>1 DEF OpenServerForm, SubmitServer
<1>2. ASSUME NEW t \in Targets, ServerRowAction(t) PROVE ListStep
  BY <1>2 DEF ServerRowAction
<1>3. ASSUME NEW h \in Slots, ServerAnswered(h) PROVE ListStep
  <2>1. PICK u, keys : Answer(h, u, keys) /\ ("rows" \in keys \/ calls[h].act.op \in ReadOnly)
    BY <1>3 DEF ServerAnswered, ReadOnly
  <2> QED BY <2>1, RowsAnswer
<1>4. ASSUME NEW h \in Slots, UpdateServer(h) \/ CreateServer(h) \/ DeleteServer(h) PROVE ListStep
  <2>1. calls[h] # NoCall /\ calls[h].stage # "ok"
        /\ calls[h].act.op \in {"saveserver", "addserver", "delserver"}
    BY <1>4, DueStage DEF UpdateServer, CreateServer, DeleteServer
  <2>2. calls[h].act.op \notin ReadOnly
    BY <2>1 DEF ReadOnly
  <2> QED BY <1>4, <2>1, <2>2, PutCarry, StatusCarry, RejectList DEF UpdateServer, CreateServer, DeleteServer
<1>5. ASSUME NEW h \in Slots, GetServerHostConfig(h) PROVE ListStep
  BY <1>5, DueStage, SameCarry, RejectList DEF GetServerHostConfig
<1> QED BY <1>1, <1>2, <1>3, <1>4, <1>5 DEF ServersNext

LEMMA NodesList == ASSUME CallInv, KeysInv, page = "nodes", NodesNext PROVE ListStep
<1> USE DoList, AskList, GateList DEF RowPages
<1>1. CASE NodeForm
  BY <1>1 DEF NodeForm
<1>2. ASSUME NEW t \in Targets, NodeRowAction(t) PROVE ListStep
  BY <1>2 DEF NodeRowAction
<1>3. ASSUME NEW h \in Slots, NodeAnswered(h) PROVE ListStep
  <2>1. PICK u, keys : Answer(h, u, keys) /\ ("rows" \in keys \/ calls[h].act.op \in ReadOnly)
    BY <1>3 DEF NodeAnswered, ReadOnly
  <2> QED BY <2>1, RowsAnswer
<1>4. ASSUME NEW h \in Slots, CreateNode(h) \/ DeleteNode(h) PROVE ListStep
  <2>1. calls[h] # NoCall /\ calls[h].stage # "ok" /\ calls[h].act.op \in {"addnode", "delnode"}
    BY <1>4, DueStage DEF CreateNode, DeleteNode
  <2>2. calls[h].act.op \notin ReadOnly
    BY <2>1 DEF ReadOnly
  <2> QED BY <1>4, <2>1, <2>2, PutCarry, RejectList DEF CreateNode, DeleteNode
<1>5. ASSUME NEW h \in Slots, RotateNodeToken(h) PROVE ListStep
  BY <1>5, DueStage, SameCarry, RejectList DEF RotateNodeToken
<1> QED BY <1>1, <1>2, <1>3, <1>4, <1>5 DEF NodesNext

LEMMA BackupsList == ASSUME CallInv, KeysInv, page = "backups", BackupsNext PROVE ListStep
<1> USE DoList, AskList, GateList DEF RowPages
<1>1. CASE CreateBackup \/ PickFile
  BY <1>1 DEF CreateBackup, PickFile
<1>2. ASSUME NEW t \in Targets, BackupRowAction(t) PROVE ListStep
  BY <1>2 DEF BackupRowAction
<1>3. ASSUME NEW h \in Slots, BackupAnswered(h) PROVE ListStep
  <2>1. PICK u, keys : Answer(h, u, keys) /\ ("rows" \in keys \/ calls[h].act.op \in ReadOnly)
    BY <1>3 DEF BackupAnswered, ReadOnly
  <2> QED BY <2>1, RowsAnswer
<1>4. ASSUME NEW h \in Slots, WriteBackup(h) \/ RemoveBackup(h) PROVE ListStep
  <2>1. calls[h] # NoCall /\ calls[h].stage # "ok" /\ calls[h].act.op \in {"addbackup", "delbackup"}
    BY <1>4, DueStage DEF WriteBackup, RemoveBackup
  <2>2. calls[h].act.op \notin ReadOnly
    BY <2>1 DEF ReadOnly
  <2> QED BY <1>4, <2>1, <2>2, PutCarry, RejectList DEF WriteBackup, RemoveBackup
<1>5. ASSUME NEW h \in Slots, ReadBackup(h) PROVE ListStep
  BY <1>5, DueStage, SameCarry, RejectList DEF ReadBackup
<1> QED BY <1>1, <1>2, <1>3, <1>4, <1>5 DEF BackupsNext

LEMMA GatedList == ASSUME CallInv, KeysInv, GatedNext PROVE ListStep
<1>1. CASE EditText \/ CancelEmailEdit
  BY <1>1, DoList DEF EditText, CancelEmailEdit
<1> QED BY <1>1, AdminsList, ServersList, NodesList, BackupsList DEF GatedNext

LEMMA UsersList == ASSUME CallInv, KeysInv, page = "users", UsersNext PROVE ListStep
<1> USE DoList, AskList, ForgetList DEF RowPages
<1>1. CASE InviteForm \/ HandleInvite \/ DismissResent \/ CloseEditUser \/ EditUserForm \/ HandleSaveUser
  BY <1>1 DEF InviteForm, HandleInvite, DismissResent, CloseEditUser, EditUserForm, HandleSaveUser
<1>2. ASSUME NEW t \in Targets, UserRowAction(t) \/ OpenEditUser(t) PROVE ListStep
  BY <1>2 DEF UserRowAction, OpenEditUser
<1>3. ASSUME NEW h \in Slots, UserAnswered(h) PROVE ListStep
  BY <1>3, RowsAnswer DEF UserAnswered
<1>4. ASSUME NEW h \in Slots, CreateUser(h) \/ SetUserStatus(h) PROVE ListStep
  <2>1. calls[h] # NoCall /\ calls[h].stage # "ok"
        /\ calls[h].act.op \in {"inviteuser", "suspend", "resume", "removeuser"}
    BY <1>4, DueStage DEF CreateUser, SetUserStatus
  <2>2. calls[h].act.op \notin ReadOnly
    BY <2>1 DEF ReadOnly
  <2> QED BY <1>4, <2>1, <2>2, PutCarry, StatusCarry, RejectList DEF CreateUser, SetUserStatus
<1>5. ASSUME NEW h \in Slots, ResendUserInvite(h) PROVE ListStep
  BY <1>5, DueStage, SameCarry, RejectList DEF ResendUserInvite
<1>6. ASSUME NEW h \in Slots, UpdateUser(h) PROVE ListStep
  <2>1. calls[h] # NoCall /\ calls[h].stage # "ok" /\ calls[h].act.op = "edituser"
    BY <1>6, DueStage DEF UpdateUser
  <2>2. calls[h].act.op \notin ReadOnly
    BY <2>1 DEF ReadOnly
  <2>3. CASE \E t, r : Carry(h, Put(t, r))
    BY <2>1, <2>2, <2>3, PutCarry
  <2>4. CASE ~(\E t, r : Carry(h, Put(t, r)))
    <3>1. /\ \E t, r : truth' = Put(t, r)
          /\ doubt' = Lists /\ UNCHANGED <<plan, shown, view, fetch>>
      BY <1>6, <2>4 DEF UpdateUser
    <3>2. DOMAIN truth' = Lists
      BY <3>1 DEF Put, Lists
    <3> QED BY <3>1, <3>2 DEF ListStep, Doubts
  <2> QED BY <2>3, <2>4
<1> QED BY <1>1, <1>2, <1>3, <1>4, <1>5, <1>6 DEF UsersNext

LEMMA DepartmentsList == ASSUME CallInv, KeysInv, page = "departments", DepartmentsNext PROVE ListStep
<1> USE DoList, AskList, ForgetList DEF RowPages
<1>1. CASE OpenDepartment \/ CloseDepartment \/ DepartmentForm \/ HandleSave
  BY <1>1 DEF OpenDepartment, CloseDepartment, DepartmentForm, HandleSave
<1>2. ASSUME NEW t \in Targets, ConfirmDelete(t) PROVE ListStep
  BY <1>2 DEF ConfirmDelete
<1>3. ASSUME NEW h \in Slots, DepartmentAnswered(h) PROVE ListStep
  BY <1>3, RowsAnswer DEF DepartmentAnswered
<1>4. ASSUME NEW h \in Slots, CreateDepartment(h) \/ UpdateDepartment(h) \/ DeleteDepartment(h)
      PROVE  ListStep
  <2>1. calls[h] # NoCall /\ calls[h].stage # "ok" /\ calls[h].act.op \in {"adddept", "editdept", "deldept"}
    BY <1>4, DueStage DEF CreateDepartment, UpdateDepartment, DeleteDepartment
  <2>2. calls[h].act.op \notin ReadOnly
    BY <2>1 DEF ReadOnly
  <2> QED BY <1>4, <2>1, <2>2, PutCarry, StatusCarry, RejectList
          DEF CreateDepartment, UpdateDepartment, DeleteDepartment
<1> QED BY <1>1, <1>2, <1>3, <1>4 DEF DepartmentsNext

LEMMA PeersList == ASSUME CallInv, KeysInv, page = "peers", PeersNext PROVE ListStep
<1> USE DoList, AskList, ForgetList DEF RowPages
<1>1. CASE OpenAdd \/ CloseAdd \/ PeerForm \/ SubmitPeer \/ ConfirmResend \/ DismissPeerResult
  BY <1>1 DEF OpenAdd, CloseAdd, PeerForm, SubmitPeer, ConfirmResend, DismissPeerResult
<1>2. ASSUME NEW t \in Targets, OpenEditPeer(t) \/ PeerRowAction(t) PROVE ListStep
  BY <1>2 DEF OpenEditPeer, PeerRowAction
<1>3. ASSUME NEW h \in Slots, PeerAnswered(h) PROVE ListStep
  <2>1. CASE \E u, keys : Answer(h, u, keys) /\ ("rows" \in keys \/ calls[h].act.op \in ReadOnly)
    BY <2>1, RowsAnswer
  <2>2. CASE Fails(h, ui, {"rows"}) /\ calls[h].act.op = "addpeer"
    BY <2>2 DEF Fails, NoCall, ListStep, Ends, Done
  <2> QED BY <1>3, <2>1, <2>2 DEF PeerAnswered, ReadOnly
<1>4. ASSUME NEW h \in Slots, CreatePeer(h) PROVE ListStep
  <2>1. calls[h] # NoCall /\ calls[h].stage # "ok" /\ calls[h].act.op = "addpeer"
    BY <1>4, DueStage DEF CreatePeer
  <2>2. calls[h].act.op \notin ReadOnly
    BY <2>1 DEF ReadOnly
  <2> QED BY <1>4, <2>1, <2>2, SameCarry, PutCarry, RejectList DEF CreatePeer
<1>5. ASSUME NEW h \in Slots, UpdatePeer(h) \/ DeletePeer(h) PROVE ListStep
  <2>1. calls[h] # NoCall /\ calls[h].stage # "ok" /\ calls[h].act.op \in {"editpeer", "delpeer"}
    BY <1>5, DueStage DEF UpdatePeer, DeletePeer
  <2>2. calls[h].act.op \notin ReadOnly
    BY <2>1 DEF ReadOnly
  <2> QED BY <1>5, <2>1, <2>2, StatusCarry DEF UpdatePeer, DeletePeer
<1>6. ASSUME NEW h \in Slots, ReadPeerConfig(h) PROVE ListStep
  BY <1>6, DueStage, SameCarry, RejectList DEF ReadPeerConfig
<1> QED BY <1>1, <1>2, <1>3, <1>4, <1>5, <1>6 DEF PeersNext

LEMMA DirectoryList == ASSUME CallInv, KeysInv, DirectoryNext PROVE ListStep
BY UsersList, DepartmentsList, PeersList DEF DirectoryNext

-----------------------------------------------------------------------------
(* The rules, which are counted by their groups.                           *)
LEMMA OnRuleLists ==
    ASSUME KeysInv, page \in RulePages
    PROVE  Lists = {"rows", "groups"} /\ \A a : Changes(a) = Lists
BY DEF KeysInv, Lists, Keys, Changes, RulePages, SettingsPageNames

LEMMA RuleCarry ==
    ASSUME KeysInv, page \in RulePages, NEW h \in Slots, NEW lists, Carry(h, lists),
           DOMAIN lists = Lists, calls[h] # NoCall, calls[h].stage # "ok"
    PROVE  ListStep
BY OnRuleLists, CommitList DEF Carry

LEMMA RulesList == ASSUME CallInv, KeysInv, RulesNext PROVE ListStep
<1> USE DoList, AskList, ForgetList
<1>1. CASE OpenAddModal \/ CloseAddModal \/ ChooseScope \/ ChooseUser \/ TickPeer
         \/ ChooseDepartment \/ ChooseTarget \/ TypeTarget \/ HandleAdd
  BY <1>1 DEF OpenAddModal, CloseAddModal, ChooseScope, ChooseUser, TickPeer, ChooseDepartment,
              ChooseTarget, TypeTarget, HandleAdd, Edited
<1>2. CASE OpenGroupModal \/ CloseGroupModal \/ GroupForm \/ HandleSaveGroup
  BY <1>2 DEF OpenGroupModal, CloseGroupModal, GroupForm, HandleSaveGroup
<1>3. ASSUME NEW t \in Targets, DeleteRule(t) \/ ConfirmDeleteGroup(t) PROVE ListStep
  BY <1>3 DEF DeleteRule, ConfirmDeleteGroup
<1>4. ASSUME NEW h \in Slots, RuleAnswered(h) \/ GroupAnswered(h) PROVE ListStep
  <2>1. PICK u : Answer(h, u, {"rows", "groups"})
    BY <1>4 DEF RuleAnswered, GroupAnswered
  <2>2. Changes(calls[h].act) \subseteq {"rows", "groups"}
    BY OnRuleLists DEF RulesNext
  <2> QED BY <2>1, <2>2, AnswerList
<1>5. ASSUME NEW h \in Slots,
             CreateRule(h) \/ DropRule(h) \/ CreateGroup(h) \/ UpdateGroup(h) \/ DeleteGroup(h)
      PROVE  ListStep
  <2>1. calls[h] # NoCall /\ calls[h].stage # "ok"
    BY <1>5, DueStage DEF CreateRule, DropRule, CreateGroup, UpdateGroup, DeleteGroup
  <2>2. \A rules, groups : DOMAIN Counted(rules, groups) = Lists
    BY DEF Counted, Lists
  <2>3. CASE Decline(h)
    BY <2>1, <2>3, RejectList
  <2>4. CASE \E lists : Carry(h, lists) /\ DOMAIN lists = Lists
    BY <2>1, <2>4, RuleCarry DEF RulesNext
  <2>5. CASE CreateRule(h) \/ DropRule(h) \/ DeleteGroup(h)
    BY <2>2, <2>3, <2>4, <2>5 DEF CreateRule, DropRule, DeleteGroup
  <2>6. \A x : DOMAIN [truth EXCEPT !.groups = x] = Lists
    BY DEF Lists
  <2>7. CASE CreateGroup(h)
    <3>1. PICK x : Decline(h) \/ Carry(h, [truth EXCEPT !.groups = x])
      BY <2>7 DEF CreateGroup
    <3> QED BY <2>3, <2>4, <2>6, <3>1
  <2>8. CASE UpdateGroup(h)
    <3>1. PICK x : Decline(h) \/ Carry(h, [truth EXCEPT !.groups = x])
      BY <2>8 DEF UpdateGroup
    <3> QED BY <2>3, <2>4, <2>6, <3>1
  <2> QED BY <1>5, <2>5, <2>7, <2>8
<1> QED BY <1>1, <1>2, <1>3, <1>4, <1>5 DEF RulesNext

-----------------------------------------------------------------------------
(* The profile page does not read everything anew that its requests        *)
(* change; what it does not is Unread when the plan has such a request.    *)
UsesInv == \A h \in Slots : calls[h] # NoCall => calls[h].act.op \in plan.uses

LEMMA OnProfile ==
    ASSUME KeysInv, page = "profile"
    PROVE  /\ Lists = {"rows", "mfa"} /\ \A a : Changes(a) = ProfileRefreshes(a.op)
           /\ \A f : DOMAIN WithFactors(f) = Lists
           /\ \A x : DOMAIN [truth EXCEPT !.mfa = x] = Lists /\ DOMAIN [truth EXCEPT !.rows = x] = Lists
           /\ \A x : [truth EXCEPT !.mfa = x]["rows"] = truth.rows
           /\ \A x : [truth EXCEPT !.rows = x]["mfa"] = truth.mfa
BY DEF KeysInv, Lists, Keys, Changes, SettingsPageNames, RulePages, WithFactors

(* A request that ends the other sessions.                                 *)
LEMMA FactorCommit ==
    ASSUME KeysInv, UsesInv, page = "profile", NEW h \in Slots, NEW f, Commit(h, WithFactors(f)),
           calls[h] # NoCall, calls[h].stage # "ok",
           calls[h].act.op \in {"totpfinish", "deltotp", "delkey"}
    PROVE  ListStep
<1>1. "rows" \in Unread
  BY DEF Unread, UsesInv
<1>2. "mfa" \in Changes(calls[h].act)
  BY OnProfile DEF ProfileRefreshes
<1>3. \A k \in Lists : k \in Changes(calls[h].act) \cup Unread
  BY <1>1, <1>2, OnProfile
<1> QED BY <1>3, OnProfile, CommitList

LEMMA RowsCommit ==
    ASSUME KeysInv, UsesInv, page = "profile", NEW h \in Slots, NEW x, Carry(h, [truth EXCEPT !.rows = x]),
           calls[h] # NoCall, calls[h].stage # "ok",
           calls[h].act.op \in {"passwd", "revoke", "revokeothers"}
    PROVE  ListStep
<1>1. "rows" \in Changes(calls[h].act) \cup Unread
  BY OnProfile DEF ProfileRefreshes, Unread, UsesInv
<1> QED BY <1>1, OnProfile, CommitList DEF Carry

LEMMA MfaCommit ==
    ASSUME KeysInv, UsesInv, page = "profile", NEW h \in Slots, NEW x, Carry(h, [truth EXCEPT !.mfa = x]),
           calls[h] # NoCall, calls[h].stage # "ok", calls[h].act.op \in {"addkey", "newcodes"}
    PROVE  ListStep
<1>1. "mfa" \in Changes(calls[h].act) \cup Unread
  BY OnProfile DEF ProfileRefreshes, Unread, UsesInv
<1> QED BY <1>1, OnProfile, CommitList DEF Carry

LEMMA ProfileList == ASSUME CallInv, KeysInv, UsesInv, ProfileNext PROVE ListStep
<1> USE DoList, AskList DEF ProfileNext
<1>1. CASE StartFactorAction
  BY <1>1, ConfirmList DEF StartFactorAction
<1>2. CASE VerifyTOTPEnrollment \/ DismissCodes \/ ChangePassword \/ RevokeOthers
  BY <1>2 DEF VerifyTOTPEnrollment, DismissCodes, ChangePassword, RevokeOthers
<1>3. ASSUME NEW t \in Targets, RevokeSession(t) PROVE ListStep
  BY <1>3 DEF RevokeSession
<1>4. ASSUME NEW h \in Slots, RegisterPasskey(h) PROVE ListStep
  BY <1>4, AnsweredList DEF RegisterPasskey, cacheVars
<1>5. ASSUME NEW h \in Slots, ProfileAnswered(h) PROVE ListStep
  BY <1>5, AnswerList, OnProfile DEF ProfileAnswered
<1>6. ASSUME NEW h \in Slots, AddTOTPBegin(h) PROVE ListStep
  BY <1>6, DueStage, SameCarry, RejectList DEF AddTOTPBegin
<1>7. ASSUME NEW h \in Slots, AddTOTPFinish(h) \/ AddTOTPRemove(h) \/ DeletePasskey(h) PROVE ListStep
  <2>1. calls[h] # NoCall /\ calls[h].stage # "ok"
        /\ calls[h].act.op \in {"totpfinish", "deltotp", "delkey"}
    BY <1>7, DueStage DEF AddTOTPFinish, AddTOTPRemove, DeletePasskey
  <2>2. (\E f : Commit(h, WithFactors(f))) \/ Decline(h)
    BY <1>7 DEF AddTOTPFinish, AddTOTPRemove, DeletePasskey, Carry
  <2> QED BY <2>1, <2>2, FactorCommit, RejectList
<1>8. ASSUME NEW h \in Slots, AddPasskeyBegin(h) \/ CheckLastFactor(h) PROVE ListStep
  <2>1. calls[h].stage # "ok"
    BY <1>8, DueStage DEF AddPasskeyBegin, CheckLastFactor
  <2> QED BY <1>8, <2>1, AnsweredList, RejectList DEF AddPasskeyBegin, CheckLastFactor, cacheVars
<1>9. ASSUME NEW h \in Slots, AddPasskeyFinish(h) \/ RegenerateRecoveryCodes(h) PROVE ListStep
  <2>1. calls[h].stage # "ok" /\ calls[h].act.op \in {"addkey", "newcodes"}
    BY <1>9, DueStage DEF AddPasskeyFinish, RegenerateRecoveryCodes
  <2>2. calls[h] # NoCall
    BY <2>1 DEF NoCall
  <2>3. PICK x : Decline(h) \/ Carry(h, [truth EXCEPT !.mfa = x])
    BY <1>9 DEF AddPasskeyFinish, RegenerateRecoveryCodes
  <2> QED BY <2>1, <2>2, <2>3, MfaCommit, RejectList
<1>10. ASSUME NEW h \in Slots, ReplacePassword(h) \/ RevokeMySession(h) \/ RevokeMyOtherSessions(h)
       PROVE  ListStep
  <2>1. calls[h] # NoCall /\ calls[h].stage # "ok"
        /\ calls[h].act.op \in {"passwd", "revoke", "revokeothers"}
    BY <1>10, DueStage DEF ReplacePassword, RevokeMySession, RevokeMyOtherSessions
  <2>2. CASE \E x : Carry(h, [truth EXCEPT !.rows = x])
    BY <2>1, <2>2, RowsCommit
  <2>3. CASE Decline(h) \/ \E s : Answered(h, s) /\ UNCHANGED <<plan, shown, truth, cacheVars>>
    BY <2>1, <2>3, RejectList, AnsweredList, SMTT(30) DEF cacheVars
  <2> QED BY <1>10, <2>2, <2>3 DEF ReplacePassword, RevokeMySession, RevokeMyOtherSessions, Put
<1> QED BY <1>1, <1>2, <1>3, <1>4, <1>5, <1>6, <1>7, <1>8, <1>9, <1>10

-----------------------------------------------------------------------------
(* What is asked for on a tab of the settings, in a request, by the dialog *)
(* or by a ceremony: the setting of its form, with all of the row that the *)
(* server keeps it in.                                                     *)
SettingList == [savesmtp |-> "smtp", savezone |-> "zone", savestepup |-> "stepup",
                savepolicy |-> "policy", savelockout |-> "security", saveexpiry |-> "security"]

SettingAct(a) ==
    a.op \in DOMAIN Setting =>
        LET k == SettingList[a.op] IN
        a.target = Setting[a.op] /\ (k \in DOMAIN StartSettings => DOMAIN a.arg = DOMAIN StartSettings[k])

Known(a) == page \in SettingsPageNames => SettingAct(a)

ActsInv ==
    /\ UsesInv
    /\ \A h \in Slots : Known(calls[h].act)
    /\ Known(dialog.gate) /\ Known(ceremony.act)

(* A request goes on being about the same, or ends.                        *)
SameAct(h) == calls'[h] = NoCall \/ (calls[h] # NoCall /\ calls'[h].act = calls[h].act)
NewAct(a)  == a.op \in plan.uses /\ Known(a)

LEMMA ActsKept ==
    ASSUME ActsInv, plan' = plan,
           \A h \in Slots : SameAct(h) \/ NewAct(calls'[h].act),
           dialog'.gate = dialog.gate \/ Known(dialog'.gate),
           ceremony'.act = ceremony.act \/ Known(ceremony'.act)
    PROVE  ActsInv'
<1>1. \A a : Known(a)' = Known(a)
  BY DEF Known, SettingAct, StartSettings, SettingList, Setting, page
<1>2. Known(NoCall.act)
  BY DEF Known, NoCall, SettingAct, Setting
<1>3. \A h \in Slots : Known(calls'[h].act)
  BY <1>2 DEF ActsInv, SameAct, NewAct
<1>4. \A h \in Slots : calls'[h] # NoCall => calls'[h].act.op \in plan.uses
  BY DEF ActsInv, UsesInv, SameAct, NewAct
<1>5. Known(dialog'.gate) /\ Known(ceremony'.act)
  BY DEF ActsInv
<1>6. UsesInv'
  BY <1>4 DEF UsesInv
<1> QED BY <1>1, <1>3, <1>5, <1>6 DEF ActsInv, Known, SettingAct, StartSettings, page

LEMMA KnownNoGate == Known(NoGate)
BY DEF Known, SettingAct, NoGate, Act, Setting

LEMMA AnsweredSame ==
    ASSUME CallInv, NEW g \in Slots, NEW s, Answered(g, s) PROVE \A h \in Slots : SameAct(h)
<1>1. ASSUME NEW h \in Slots PROVE SameAct(h)
  <2>1. calls'[h] = IF h = g THEN [calls[h] EXCEPT !.stage = s] ELSE calls[h]
    BY DEF Answered, CallInv
  <2>2. Alike(calls[h], [calls[h] EXCEPT !.stage = s])
    BY StageAlike DEF CallInv
  <2> QED BY <2>1, <2>2 DEF Alike, SameAct
<1> QED BY <1>1

LEMMA SentSame ==
    ASSUME CallInv, NEW a, NEW via, NEW proof, NEW named, NEW u, Send(a, via, proof, named, u), Known(a)
    PROVE  \A h \in Slots : SameAct(h) \/ NewAct(calls'[h].act)
<1>1. PICK g \in Slots : calls' = Sent(a, via, proof, named, g)
  BY DEF Send
<1>2. NewAct(calls'[g].act)
  <2>1. calls'[g].act = a
    BY <1>1 DEF Sent, Request
  <2> QED BY <2>1 DEF NewAct, Send, Uses
<1>3. ASSUME NEW h \in Slots \ {g} PROVE SameAct(h)
  <2>1. calls'[h] = calls[h] \/ (calls'[h] = [calls[h] EXCEPT !.latest = FALSE] /\ calls[h].act.op = a.op)
    BY <1>1 DEF Sent
  <2>2. AsNamed(calls[h])
    BY DEF CallInv
  <2>3. CASE calls[h] # NoCall
    BY <2>1, <2>2, <2>3, LatestOk DEF SameAct
  <2>4. CASE calls[h] = NoCall
    BY <2>1, <2>4 DEF SameAct, NoCall
  <2> QED BY <2>3, <2>4
<1> QED BY <1>2, <1>3

LEMMA SentAwaySame ==
    ASSUME CallInv, NEW a, NEW via, NEW proof, NEW named, SendUnfollowed(a, via, proof, named), Known(a)
    PROVE  \A h \in Slots : SameAct(h) \/ NewAct(calls'[h].act)
<1> DEFINE r == [Request(a, via, proof, named) EXCEPT !.here = FALSE]
<1>1. PICK g \in Slots : calls' = [calls EXCEPT ![g] = r]
  BY DEF SendUnfollowed
<1>2. r.act = a
  BY DEF Request
<1>3. NewAct(calls'[g].act)
  BY <1>1, <1>2 DEF CallInv, NewAct, SendUnfollowed, Uses
<1>4. ASSUME NEW h \in Slots \ {g} PROVE SameAct(h)
  BY <1>1 DEF CallInv, SameAct
<1> QED BY <1>3, <1>4

(* The page is left or gives way: what is still running was running.       *)
LEMMA GoneSame ==
    ASSUME CallInv,
           \A g \in Slots : calls'[g] = NoCall
             \/ (calls[g] # NoCall /\ calls'[g] = [calls[g] EXCEPT !.here = FALSE])
    PROVE  \A h \in Slots : SameAct(h)
BY HereFalse DEF SameAct

LEMMA HeardGate ==
    ASSUME WaitInv, NEW h
    PROVE  DialogAfter(h).gate \in {dialog.gate, NoGate, calls[h].act}
<1>1. [dialog EXCEPT !.busy = "no"].gate = dialog.gate /\ [dialog EXCEPT !.gate = calls[h].act].gate = calls[h].act
  BY DEF WaitInv
<1> QED BY <1>1 DEF DialogAfter, Closed

(* The pages.  One that is not of the settings is asked nothing here.      *)
LEMMA StaysActs == ASSUME CallInv, ActsInv, Stays PROVE ActsInv'
<1>1. \A h \in Slots : SameAct(h)
  BY AnsweredSame DEF Stays, SameAct
<1> QED BY <1>1, ActsKept DEF Stays, GateStays

LEMMA HearsActs == ASSUME CallInv, WaitInv, ActsInv, Hears PROVE ActsInv'
<1>1. PICK h \in Slots : /\ calls' = [calls EXCEPT ![h] = NoCall]
                         /\ dialog' = DialogAfter(h) \/ dialog' = dialog
  BY DEF Hears
<1>2. \A g \in Slots : SameAct(g)
  BY <1>1 DEF CallInv, SameAct
<1>3. dialog'.gate \in {dialog.gate, NoGate, calls[h].act}
  BY <1>1, HeardGate
<1>4. Known(dialog'.gate)
  BY <1>3, KnownNoGate DEF ActsInv
<1> QED BY <1>2, <1>4, ActsKept DEF Hears

LEMMA OtherPageActs ==
    ASSUME CallInv, WaitInv, ActsInv, PageStep, page \notin SettingsPageNames PROVE ActsInv'
<1>1. \A a : Known(a)
  BY DEF Known
<1>2. CASE Forgets
  <2>1. PICK ops : calls' = Unfollowed(ops)
    BY <1>2 DEF Forgets
  <2>2. ASSUME NEW h \in Slots PROVE SameAct(h)
    <3>1. calls'[h] = calls[h] \/ (calls'[h] = [calls[h] EXCEPT !.latest = FALSE])
      BY <2>1 DEF Unfollowed
    <3>2. AsNamed(calls[h])
      BY DEF CallInv
    <3>3. CASE calls[h] # NoCall
      BY <3>1, <3>2, <3>3, LatestOk DEF SameAct
    <3>4. CASE calls[h] = NoCall
      BY <3>1, <3>4 DEF SameAct, NoCall
    <3> QED BY <3>3, <3>4
  <2> QED BY <1>2, <2>2, ActsKept DEF Forgets, GateStays
<1>3. CASE Sends
  <2>1. PICK a, via, u : Send(a, via, "none", NoGate, u)
    BY <1>3 DEF Sends
  <2>2. \A h \in Slots : SameAct(h) \/ NewAct(calls'[h].act)
    BY <1>1, <2>1, SentSame
  <2> QED BY <1>3, <2>2, ActsKept DEF Sends, GateStays
<1>4. CASE Opens
  <2>1. \A h \in Slots : SameAct(h)
    BY <1>4 DEF Opens, SameAct
  <2> QED BY <1>1, <1>4, <2>1, ActsKept DEF Opens
<1> QED BY <1>2, <1>3, <1>4, StaysActs, HearsActs DEF PageStep

-----------------------------------------------------------------------------
(* The settings keep the names they have.                                  *)
Shaped(k, x) ==
    /\ DOMAIN x = DOMAIN StartSettings[k]
    /\ page = "templates" => x = [t \in Targets |-> x[t]]

ShapeInv ==
    page \in SettingsPageNames =>
        \A k \in Lists :
            /\ Shaped(k, truth[k])
            /\ view[k] = NoData \/ Shaped(k, view[k])
            /\ fetch[k].at = "read" => Shaped(k, fetch[k].got)

LEMMA ShapeKept ==
    ASSUME ShapeInv, plan' = plan, Lists' = Lists,
           page \in SettingsPageNames =>
               \A k \in Lists :
                   /\ Shaped(k, truth'[k])
                   /\ view'[k] \in {NoData, view[k]} \/ (fetch[k].at = "read" /\ view'[k] = fetch[k].got)
                   /\ fetch'[k] \in {Idle, Asked, fetch[k]} \/ fetch'[k].got = truth[k]
    PROVE  ShapeInv'
<1> SUFFICES ASSUME page \in SettingsPageNames, NEW k \in Lists
             PROVE  /\ Shaped(k, truth'[k])
                    /\ view'[k] = NoData \/ Shaped(k, view'[k])
                    /\ fetch'[k].at = "read" => Shaped(k, fetch'[k].got)
  BY SMTT(30) DEF ShapeInv, Shaped, StartSettings, page
<1>1. view'[k] = NoData \/ Shaped(k, view'[k])
  BY DEF ShapeInv
<1>2. fetch'[k].at = "read" => Shaped(k, fetch'[k].got)
  BY DEF ShapeInv, Idle, Asked
<1> QED BY <1>1, <1>2

LEMMA ShapeNames ==
    ASSUME KeysInv, ShapeInv, page \in SettingsPageNames
    PROVE  Lists = DOMAIN StartSettings /\ \A k \in Lists : DOMAIN truth[k] = DOMAIN StartSettings[k]
<1>1. Lists = DOMAIN StartSettings
  BY DEF KeysInv, Keys, Lists
<1>2. ASSUME NEW k \in Lists PROVE DOMAIN truth[k] = DOMAIN StartSettings[k]
  BY DEF ShapeInv, Shaped
<1> QED BY <1>1, <1>2

LEMMA ListIs ==
    ASSUME NEW f, NEW k \in Lists, f \in DOMAIN truth[k], \A j \in Lists : f \in DOMAIN truth[j] => j = k
    PROVE  ListOf(f) = k
BY DEF ListOf

(* The list of the setting that a request is about.                        *)
LEMMA SettingHome ==
    ASSUME KeysInv, ShapeInv, page \in SettingsPageNames, NEW op \in DOMAIN Setting,
           SettingList[op] \in Lists
    PROVE  ListOf(Setting[op]) = SettingList[op]
<1> DEFINE f == Setting[op]
           k == SettingList[op]
<1>1. op \in {"savesmtp", "savezone", "savestepup", "savepolicy", "savelockout", "saveexpiry"}
  BY DEF Setting
<1>2. Lists = DOMAIN StartSettings /\ \A j \in Lists : DOMAIN truth[j] = DOMAIN StartSettings[j]
  BY ShapeNames
<1>3. f \in DOMAIN StartSettings[k] /\ \A j \in DOMAIN StartSettings : f \in DOMAIN StartSettings[j] => j = k
  <2>1. CASE page = "security"
    <3>1. StartSettings = [stepup   |-> [minutes |-> "old"], policy |-> [methods |-> "old"],
                           security |-> [lockout |-> "old", expiry |-> "old"]]
      BY <2>1 DEF StartSettings
    <3> QED BY <1>1, <1>2, <3>1 DEF Setting, SettingList
  <2>2. CASE page = "templates"
    <3>1. StartSettings = [templates |-> [t \in Targets |-> "old"]]
      BY <2>2 DEF StartSettings
    <3> QED BY <1>1, <1>2, <3>1 DEF Setting, SettingList
  <2>3. CASE page = "smtp"
    <3>1. StartSettings = [smtp |-> [host |-> "old"]]
      BY <2>3 DEF StartSettings
    <3> QED BY <1>1, <1>2, <3>1 DEF Setting, SettingList
  <2>4. CASE page = "timezone"
    <3>1. StartSettings = [zone |-> [timezone |-> "old"]]
      BY <2>4 DEF StartSettings
    <3> QED BY <1>1, <1>2, <3>1 DEF Setting, SettingList
  <2> QED BY <2>1, <2>2, <2>3, <2>4 DEF SettingsPageNames
<1> HIDE DEF f, k
<1>4. ListOf(f) = k
  BY <1>2, <1>3, ListIs DEF k
<1> QED BY <1>4 DEF f, k

LEMMA TemplateHome ==
    ASSUME KeysInv, ShapeInv, page = "templates"
    PROVE  /\ Lists = {"templates"} /\ DOMAIN truth.templates = Targets
           /\ \A t \in Targets : ListOf(t) = "templates"
<1>1. StartSettings = [templates |-> [t \in Targets |-> "old"]]
  BY DEF StartSettings
<1>2. Lists = {"templates"} /\ DOMAIN truth.templates = Targets
  BY <1>1, ShapeNames DEF SettingsPageNames
<1> QED BY <1>2, ListIs

(* The lists of the settings stay where they are.                          *)
LEMMA ListsOfStay ==
    ASSUME Lists' = Lists, \A k \in Lists : DOMAIN truth'[k] = DOMAIN truth[k]
    PROVE  \A f : ListOf(f)' = ListOf(f)
BY DEF ListOf

-----------------------------------------------------------------------------
(* The tabs of the settings.                                               *)
Sections == {"savestepup", "savepolicy", "savelockout", "saveexpiry"}

LEMMA SectionKnown ==
    ASSUME KeysInv, ShapeInv, page \in SettingsPageNames, NEW op \in Sections, OnForm(op), NEW x
    PROVE  SettingAct(Act(op, Setting[op], [view[ListOf(Setting[op])] EXCEPT ![Setting[op]] = x]))
<1> DEFINE f == Setting[op]
           k == SettingList[op]
           v == [view[ListOf(f)] EXCEPT ![f] = x]
<1>1. op \in DOMAIN Setting
  BY DEF Setting, Sections
<1>2. ASSUME k \in DOMAIN StartSettings PROVE DOMAIN v = DOMAIN StartSettings[k]
  <2>1. k \in Lists
    BY <1>2, ShapeNames
  <2>2. ListOf(f) = k
    BY <1>1, <2>1, SettingHome
  <2>3. op \notin {"savetemplate", "testsmtp"}
    BY DEF Sections
  <2>4. FormOf(op) = f
    BY <2>3 DEF FormOf
  <2>5. view[k] # NoData
    BY <2>2, <2>4 DEF OnForm
  <2>6. DOMAIN view[k] = DOMAIN StartSettings[k]
    BY <2>1, <2>5 DEF ShapeInv, Shaped
  <2> QED BY <2>2, <2>6
<1> HIDE DEF v
<1>3. SettingAct(Act(op, f, v))
  BY <1>1, <1>2 DEF SettingAct, Act
<1> QED BY <1>3 DEF v

LEMMA SettingsActs == ASSUME CallInv, WaitInv, KeysInv, ShapeInv, ActsInv, SettingsNext PROVE ActsInv'
<1> USE DEF SettingsNext
<1>1. ASSUME NEW op, NEW t, NEW arg, NEW u, Ask(op, t, arg, u), SettingAct(Act(op, t, arg)) PROVE ActsInv'
  <2>1. \A h \in Slots : SameAct(h) \/ NewAct(calls'[h].act)
    BY <1>1, SentSame DEF Ask, Known
  <2>2. plan' = plan /\ dialog' = dialog /\ ceremony' = ceremony
    BY <1>1 DEF Ask, Send, gateVars
  <2> QED BY <2>1, <2>2, ActsKept
<1>2. CASE EditSetting \/ ChooseTemplate
  <2>1. Stays
    BY <1>2 DEF EditSetting, ChooseTemplate, Do, Local, gateVars, Stays, GateStays
  <2> QED BY <2>1, StaysActs
<1>3. CASE SaveSMTP
  <2>1. DOMAIN [host |-> ui.draft.host] = {"host"}
    OBVIOUS
  <2>2. "smtp" \in DOMAIN StartSettings => StartSettings.smtp = [host |-> "old"]
    BY DEF StartSettings
  <2>3. SettingAct(Act("savesmtp", "host", [host |-> ui.draft.host]))
    BY <2>1, <2>2 DEF SettingAct, Act, Setting, SettingList
  <2> QED BY <1>1, <1>3, <2>3 DEF SaveSMTP
<1>4. CASE SaveTimezone
  <2>1. \A z : DOMAIN [timezone |-> z] = {"timezone"}
    OBVIOUS
  <2>2. "zone" \in DOMAIN StartSettings => StartSettings.zone = [timezone |-> "old"]
    BY DEF StartSettings
  <2>3. \A z : SettingAct(Act("savezone", "timezone", [timezone |-> z]))
    BY <2>1, <2>2 DEF SettingAct, Act, Setting, SettingList
  <2> QED BY <1>1, <1>4, <2>3 DEF SaveTimezone
<1>5. CASE TestSMTP \/ SaveTemplate
  <2>1. \A t, arg : SettingAct(Act("testsmtp", t, arg)) /\ SettingAct(Act("savetemplate", t, arg))
    BY DEF SettingAct, Act, Setting
  <2> QED BY <1>1, <1>5, <2>1 DEF TestSMTP, SaveTemplate
<1>6. ASSUME NEW op \in Sections, SaveSection(op) PROVE ActsInv'
  <2> DEFINE a == Act(op, Setting[op], [view[ListOf(Setting[op])] EXCEPT ![Setting[op]] = ui.draft[Setting[op]]])
  <2>1. Confirm(a) /\ SettingAct(a)
    BY <1>6, SectionKnown DEF SaveSection
  <2> HIDE DEF a
  <2>2. plan' = plan /\ calls' = calls /\ ceremony' = ceremony /\ dialog'.gate = a
    BY <2>1, GateOf DEF Confirm, Local
  <2> QED BY <2>1, <2>2, ActsKept DEF SameAct, Known
<1>7. ASSUME NEW h \in Slots, SettingsAnswered(h) PROVE ActsInv'
  <2>1. PICK u, keys : Answer(h, u, keys)
    BY <1>7 DEF SettingsAnswered
  <2>2. Hears
    BY <2>1 DEF Answer, Ready, Fails, Succeeds, Hears
  <2> QED BY <2>2, HearsActs
<1>8. ASSUME NEW h \in Slots,
             \/ UpdateSMTPConfig(h) \/ SendTestEmail(h) \/ UpdateTimezoneConfig(h) \/ UpdateEmailTemplate(h)
             \/ UpdateStepUpConfig(h) \/ UpdateMFAPolicyConfig(h) \/ UpdateSecurityConfig(h)
      PROVE  ActsInv'
  <2>1. PICK x : Answered(h, x)
    BY <1>8 DEF UpdateSMTPConfig, SendTestEmail, UpdateTimezoneConfig, UpdateEmailTemplate,
                UpdateStepUpConfig, UpdateMFAPolicyConfig, UpdateSecurityConfig, Carry, Commit
  <2>2. GateStays
    BY <1>8 DEF UpdateSMTPConfig, SendTestEmail, UpdateTimezoneConfig, UpdateEmailTemplate,
                UpdateStepUpConfig, UpdateMFAPolicyConfig, UpdateSecurityConfig, Carry, Commit, gateVars,
                GateStays
  <2> QED BY <2>1, <2>2, StaysActs DEF Stays
<1> QED BY <1>2, <1>3, <1>4, <1>5, <1>6, <1>7, <1>8
        DEF SaveStepUp, SavePolicy, SaveLockout, SaveExpiry, Sections

(* What the server does with a request: the list it changes is the one     *)
(* that the answer reads anew.                                             *)
LEMMA SettingCommit ==
    ASSUME KeysInv, ShapeInv, page \in SettingsPageNames, NEW h \in Slots, NEW key, NEW x,
           Commit(h, [truth EXCEPT ![key] = x]), calls[h] # NoCall, calls[h].stage # "ok",
           calls[h].act.op # "testsmtp",
           key \in Lists => Shaped(key, x) /\ (ListOf(calls[h].act.target) = key \/ x = truth[key])
    PROVE  ListStep /\ \A k \in Lists : Shaped(k, truth'[k])
<1> DEFINE lists == [truth EXCEPT ![key] = x]
<1>1. DOMAIN lists = Lists /\ \A k \in Lists : lists[k] = IF k = key THEN x ELSE truth[k]
  BY DEF Lists
<1>2. truth' = lists
  BY DEF Commit
<1>3. ASSUME NEW k \in Lists PROVE Shaped(k, truth'[k])
  BY <1>1, <1>2 DEF ShapeInv
<1>4. ASSUME NEW k \in Lists, lists[k] # truth[k] PROVE k \in Changes(calls[h].act)
  <2>1. k = key /\ ListOf(calls[h].act.target) = k
    BY <1>1, <1>4
  <2> QED BY <2>1 DEF Changes
<1> HIDE DEF lists
<1>5. Commit(h, lists)
  BY DEF lists
<1>6. ListStep
  BY <1>1, <1>4, <1>5, CommitList
<1> QED BY <1>3, <1>6

LEMMA SavedSetting ==
    ASSUME KeysInv, ShapeInv, ActsInv, page \in SettingsPageNames, NEW h \in Slots,
           NEW op \in DOMAIN Setting, calls[h].act.op = op, SettingList[op] \in Lists
    PROVE  /\ Shaped(SettingList[op], calls[h].act.arg)
           /\ ListOf(calls[h].act.target) = SettingList[op]
<1>1. SettingAct(calls[h].act) /\ Lists = DOMAIN StartSettings
  BY ShapeNames DEF ActsInv, Known
<1>2. ListOf(calls[h].act.target) = SettingList[op]
  BY <1>1, SettingHome DEF SettingAct
<1>3. page # "templates"
  <2>1. SettingList[op] # "templates"
    BY DEF Setting, SettingList
  <2> QED BY <2>1, TemplateHome
<1> QED BY <1>1, <1>2, <1>3 DEF SettingAct, Shaped

LEMMA SettingsServer ==
    ASSUME KeysInv, ShapeInv, ActsInv, page \in SettingsPageNames, NEW h \in Slots,
           \/ UpdateSMTPConfig(h) \/ UpdateTimezoneConfig(h) \/ UpdateStepUpConfig(h)
           \/ UpdateMFAPolicyConfig(h) \/ UpdateSecurityConfig(h) \/ UpdateEmailTemplate(h)
    PROVE  ListStep /\ \A k \in Lists : Shaped(k, truth'[k])
<1> DEFINE a == calls[h].act
<1>1. calls[h] # NoCall /\ calls[h].stage # "ok" /\ a.op \in DOMAIN Setting \cup {"savetemplate"}
  BY DueStage DEF UpdateSMTPConfig, UpdateTimezoneConfig, UpdateStepUpConfig, UpdateMFAPolicyConfig,
                  UpdateSecurityConfig, UpdateEmailTemplate, Setting
<1>2. a.op # "testsmtp"
  BY <1>1 DEF Setting
<1>3. ASSUME NEW op \in DOMAIN Setting, a.op = op, Commit(h, [truth EXCEPT ![SettingList[op]] = a.arg])
      PROVE  ListStep /\ \A k \in Lists : Shaped(k, truth'[k])
  <2> DEFINE key == SettingList[op]
             x == a.arg
  <2>1. key \in Lists => Shaped(key, x) /\ ListOf(a.target) = key
    BY <1>3, SavedSetting
  <2> HIDE DEF key, x
  <2>2. Commit(h, [truth EXCEPT ![key] = x])
    BY <1>3 DEF key, x
  <2> QED BY <1>1, <1>2, <2>1, <2>2, SettingCommit
<1>4. CASE UpdateSMTPConfig(h)
  <2>1. a.op = "savesmtp" /\ Commit(h, [truth EXCEPT !["smtp"] = a.arg])
    BY <1>4 DEF UpdateSMTPConfig, Due, Carry
  <2> QED BY <1>3, <2>1 DEF Setting, SettingList
<1>5. CASE UpdateTimezoneConfig(h)
  <2>1. a.op = "savezone" /\ Commit(h, [truth EXCEPT !["zone"] = a.arg])
    BY <1>5 DEF UpdateTimezoneConfig, Due, Carry
  <2> QED BY <1>3, <2>1 DEF Setting, SettingList
<1>6. CASE UpdateStepUpConfig(h)
  <2>1. a.op = "savestepup" /\ Commit(h, [truth EXCEPT !["stepup"] = a.arg])
    BY <1>6 DEF UpdateStepUpConfig, Due
  <2> QED BY <1>3, <2>1 DEF Setting, SettingList
<1>7. CASE UpdateMFAPolicyConfig(h)
  <2>1. a.op = "savepolicy" /\ Commit(h, [truth EXCEPT !["policy"] = a.arg])
    BY <1>7 DEF UpdateMFAPolicyConfig, Due, Carry
  <2> QED BY <1>3, <2>1 DEF Setting, SettingList
<1>8. CASE UpdateSecurityConfig(h)
  <2>1. a.op \in {"savelockout", "saveexpiry"} /\ Commit(h, [truth EXCEPT !["security"] = a.arg])
    BY <1>8 DEF UpdateSecurityConfig, Due, Carry
  <2> QED BY <1>3, <2>1 DEF Setting, SettingList
<1>9. CASE UpdateEmailTemplate(h)
  <2> DEFINE key == "templates"
             x == [truth.templates EXCEPT ![a.target] = a.arg]
  <2>1. Commit(h, [truth EXCEPT ![key] = x])
    <3>1. [truth EXCEPT !.templates[a.target] = a.arg] = [truth EXCEPT ![key] = x]
      OBVIOUS
    <3> QED BY <1>9, <3>1 DEF UpdateEmailTemplate, Carry
  <2>2. ASSUME key \in Lists PROVE Shaped(key, x) /\ (ListOf(a.target) = key \/ x = truth[key])
    <3>1. page = "templates"
      BY <2>2, ShapeNames DEF StartSettings, SettingsPageNames
    <3>2. truth.templates = [t \in Targets |-> truth.templates[t]] /\ Shaped(key, truth.templates)
      BY <2>2, <3>1 DEF ShapeInv, Shaped
    <3>3. Shaped(key, x)
      BY <3>2 DEF Shaped
    <3>4. CASE a.target \in Targets
      BY <3>1, <3>3, <3>4, TemplateHome
    <3>5. CASE a.target \notin Targets
      <4>1. x = truth.templates
        BY <3>2, <3>5
      <4> QED BY <3>3, <4>1
    <3> QED BY <3>4, <3>5
  <2> HIDE DEF x, key
  <2> QED BY <1>1, <1>2, <2>1, <2>2, SettingCommit
<1> QED BY <1>4, <1>5, <1>6, <1>7, <1>8, <1>9

LEMMA SettingsList ==
    ASSUME CallInv, KeysInv, ShapeInv, ActsInv, SettingsNext
    PROVE  ListStep /\ (\A k \in Lists : Shaped(k, truth'[k]))
<1>0. page \in SettingsPageNames
  BY DEF SettingsNext
<1>1. ASSUME truth' = truth PROVE \A k \in Lists : Shaped(k, truth'[k])
  BY <1>0, <1>1 DEF ShapeInv
<1>2. CASE EditSetting \/ ChooseTemplate
  <2>1. PICK u : Do(u)
    BY <1>2 DEF EditSetting, ChooseTemplate
  <2>2. truth' = truth
    BY <2>1 DEF Do, Local
  <2> QED BY <1>1, <2>1, <2>2, DoList
<1>3. CASE SaveSMTP \/ TestSMTP \/ SaveTimezone \/ SaveTemplate
  <2>1. PICK op, t, arg, u : Ask(op, t, arg, u)
    BY <1>3 DEF SaveSMTP, TestSMTP, SaveTimezone, SaveTemplate
  <2>2. truth' = truth
    BY <2>1 DEF Ask, Send
  <2> QED BY <1>1, <2>1, <2>2, AskList
<1>4. ASSUME NEW op, SaveSection(op) PROVE ListStep /\ \A k \in Lists : Shaped(k, truth'[k])
  <2>1. PICK a : Confirm(a)
    BY <1>4 DEF SaveSection
  <2>2. truth' = truth
    BY <2>1 DEF Confirm, Local
  <2> QED BY <1>1, <2>1, <2>2, ConfirmList
<1>5. ASSUME NEW h \in Slots, SettingsAnswered(h) PROVE ListStep /\ \A k \in Lists : Shaped(k, truth'[k])
  <2> DEFINE a == calls[h].act
  <2>1. \/ a.op = "testsmtp" /\ Answer(h, ui, {})
        \/ a.op # "testsmtp" /\ Answer(h, ui, {ListOf(a.target)})
    BY <1>5 DEF SettingsAnswered, Setting
  <2>2. ListStep
    BY <1>0, <2>1, AnswerList DEF Changes
  <2>3. truth' = truth
    BY <2>1 DEF Answer, Succeeds, Fails
  <2> QED BY <1>1, <2>2, <2>3
<1>6. ASSUME NEW h \in Slots, SendTestEmail(h) PROVE ListStep /\ \A k \in Lists : Shaped(k, truth'[k])
  <2>1. calls[h] # NoCall /\ calls[h].stage # "ok" /\ Carry(h, truth)
    BY <1>6, DueStage DEF SendTestEmail
  <2>2. truth' = truth
    BY <2>1 DEF Carry, Commit
  <2> QED BY <1>1, <2>1, <2>2, SameCarry
<1> QED BY <1>0, <1>2, <1>3, <1>4, <1>5, <1>6, SettingsServer
        DEF SettingsNext, SaveStepUp, SavePolicy, SaveLockout, SaveExpiry

-----------------------------------------------------------------------------
(* The dialog asks for what the page asked for.                            *)
LEMMA LiveKnown == ASSUME NEW a, Known(a) PROVE Known(Live(a))
<1>1. CASE a.op # "saveserver"
  BY <1>1 DEF Live
<1>2. CASE a.op = "saveserver"
  <2>1. Live(a).op \in {"addserver", "saveserver"}
    BY <1>2 DEF Live, Act
  <2>2. Live(a).op \notin DOMAIN Setting
    BY <2>1 DEF Setting
  <2> QED BY <2>2 DEF Known, SettingAct
<1> QED BY <1>1, <1>2

LEMMA SubmitActs == ASSUME CallInv, WaitInv, ActsInv, SubmitCode PROVE ActsInv'
<1>1. PICK proof : Send(Live(dialog.gate), "dialog", proof, dialog.gate, ui)
  BY DEF SubmitCode
<1>2. Known(Live(dialog.gate))
  BY LiveKnown DEF ActsInv
<1>3. \A h \in Slots : SameAct(h) \/ NewAct(calls'[h].act)
  BY <1>1, <1>2, SentSame
<1>4. dialog'.gate = dialog.gate /\ ceremony' = ceremony
  BY DEF SubmitCode, WaitInv
<1> QED BY <1>1, <1>3, <1>4, ActsKept DEF Send

LEMMA RunHeldActs == ASSUME CallInv, ActsInv, RunHeldAction PROVE ActsInv'
<1>1. Known(ceremony.act) /\ Known(Live(ceremony.act))
  BY LiveKnown DEF ActsInv
<1>2. \A h \in Slots : SameAct(h) \/ NewAct(calls'[h].act)
  BY <1>1, SentSame, SentAwaySame DEF RunHeldAction
<1>3. plan' = plan /\ dialog' = dialog /\ ceremony' = NoCeremony
  BY DEF RunHeldAction, Send, SendUnfollowed
<1>4. Known(ceremony'.act)
  BY <1>3, KnownNoGate DEF NoCeremony
<1> QED BY <1>2, <1>3, <1>4, ActsKept

LEMMA DialogActs == ASSUME CallInv, WaitInv, ActsInv, Dialog PROVE ActsInv'
<1>1. CASE CloseDialog \/ UsePasskey \/ StampSession \/ CeremonyFails
  <2>1. plan' = plan /\ calls' = calls
    BY <1>1 DEF CloseDialog, UsePasskey, StampSession, CeremonyFails, pageVars
  <2>2. dialog'.gate \in {dialog.gate, NoGate}
    BY <1>1 DEF CloseDialog, UsePasskey, StampSession, CeremonyFails, Closed, WaitInv
  <2>3. ceremony'.act \in {ceremony.act, dialog.gate, NoGate}
    BY <1>1 DEF CloseDialog, UsePasskey, StampSession, CeremonyFails, NoCeremony, WaitInv
  <2>4. Known(dialog'.gate) /\ Known(ceremony'.act)
    BY <2>2, <2>3, KnownNoGate DEF ActsInv
  <2>5. \A h \in Slots : SameAct(h)
    BY <2>1 DEF SameAct
  <2> QED BY <2>1, <2>4, <2>5, ActsKept
<1>2. ASSUME NEW u, Escape(u) PROVE ActsInv'
  <2>1. plan' = plan /\ calls' = calls /\ ceremony' = ceremony /\ dialog'.gate \in {dialog.gate, NoGate}
    BY <1>2 DEF Escape, Local, Closed
  <2>2. Known(dialog'.gate)
    BY <2>1, KnownNoGate DEF ActsInv
  <2> QED BY <2>1, <2>2, ActsKept DEF SameAct
<1>3. CASE ProofExpires
  <2>1. Stays
    BY <1>3 DEF ProofExpires, pageVars, Stays, GateStays
  <2> QED BY <2>1, StaysActs
<1>4. ASSUME NEW h \in Slots, CheckProof(h) PROVE ActsInv'
  BY <1>4, CheckProofStays, StaysActs
<1>5. ASSUME NEW h \in Slots, RedirectToLogin(h, BlankPage) PROVE ActsInv'
  <2>1. /\ plan' = plan /\ dialog' = Closed /\ ceremony' = NoCeremony
        /\ calls' = [g \in Slots |-> IF g = h \/ calls[g] = NoCall THEN NoCall
                                     ELSE [calls[g] EXCEPT !.here = FALSE]]
    BY <1>5 DEF RedirectToLogin
  <2>2. \A g \in Slots : SameAct(g)
    BY <2>1, GoneSame
  <2>3. Known(dialog'.gate) /\ Known(ceremony'.act)
    BY <2>1, KnownNoGate DEF Closed, NoCeremony
  <2> QED BY <2>1, <2>2, <2>3, ActsKept
<1> QED BY <1>1, <1>2, <1>3, <1>4, <1>5, SubmitActs, RunHeldActs DEF Dialog

LEMMA NavigateActs == ASSUME CallInv, WaitInv, ActsInv, Navigate PROVE ActsInv'
<1>1. CASE Mount(BlankPage) /\ UNCHANGED gateVars
  <2>1. Stays
    BY <1>1 DEF Mount, gateVars, Stays, GateStays
  <2> QED BY <2>1, StaysActs
<1>2. CASE Leave(BlankPage)
  <2>1. /\ plan' = plan /\ dialog' = Closed
        /\ ceremony' = IF ceremony = NoCeremony THEN NoCeremony
                       ELSE [ceremony EXCEPT !.act = Live(@), !.here = FALSE]
        /\ calls' = [h \in Slots |->
                        IF calls[h] = NoCall THEN NoCall ELSE [calls[h] EXCEPT !.here = FALSE]]
    BY <1>2 DEF Leave, Unmount
  <2>2. \A g \in Slots : SameAct(g)
    BY <2>1, GoneSame
  <2>3. Known(dialog'.gate)
    BY <2>1, KnownNoGate DEF Closed
  <2>4. Known(ceremony'.act)
    <3>1. CASE ceremony = NoCeremony
      BY <2>1, <3>1, KnownNoGate DEF NoCeremony
    <3>2. CASE ceremony # NoCeremony
      <4>1. ceremony'.act = Live(ceremony.act)
        <5> DEFINE live == Live(ceremony.act)
        <5>1. ceremony' = [ceremony EXCEPT !.act = live, !.here = FALSE]
          BY <2>1, <3>2
        <5> HIDE DEF live
        <5>2. ceremony'.act = live
          BY <5>1 DEF WaitInv
        <5> QED BY <5>2 DEF live
      <4> QED BY <4>1, LiveKnown DEF ActsInv
    <3> QED BY <3>1, <3>2
  <2> QED BY <2>1, <2>2, <2>3, <2>4, ActsKept
<1> QED BY <1>1, <1>2 DEF Navigate

-----------------------------------------------------------------------------
(* The inductive invariant of the lists.                                   *)
ShowsInv == KeysInv /\ ShapeInv /\ ActsInv /\ ListInv

LEMMA SteadyLists ==
    ASSUME plan' = plan, Lists' = Lists,
           page \in SettingsPageNames => \A k \in Lists : DOMAIN truth'[k] = DOMAIN truth[k]
    PROVE  Steady
<1>1. page' = page
  BY DEF page
<1>2. CASE page \in SettingsPageNames
  <2>1. \A f : ListOf(f)' = ListOf(f)
    BY <1>2, ListsOfStay
  <2> QED BY <1>1, <1>2, <2>1 DEF Steady, Changes
<1>3. CASE page \notin SettingsPageNames
  BY <1>1, <1>3 DEF Steady, Changes, ProfileRefreshes
<1> QED BY <1>2, <1>3

LEMMA ShapedSteady ==
    ASSUME KeysInv, ShapeInv, plan' = plan, Lists' = Lists,
           page \in SettingsPageNames => \A k \in Lists : Shaped(k, truth'[k])
    PROVE  Steady
BY ShapeNames, SteadyLists DEF Shaped

LEMMA SameShaped ==
    ASSUME ShapeInv, truth' = truth
    PROVE  page \in SettingsPageNames => \A k \in Lists : Shaped(k, truth'[k])
BY DEF ShapeInv

LEMMA ListStepShows ==
    ASSUME CallInv, ShowsInv, ListStep, ActsInv',
           page \in SettingsPageNames => \A k \in Lists : Shaped(k, truth'[k])
    PROVE  ShowsInv'
<1>1. plan' = plan /\ Lists' = Lists
  BY ListStepPlan DEF ShowsInv
<1>2. Steady
  BY <1>1, ShapedSteady DEF ShowsInv
<1>3. KeysInv' /\ ListInv'
  BY <1>2, ListStepKeys, ListStepKeeps DEF ShowsInv
<1>4. view' = view /\ \A k \in Lists : fetch'[k] \in {Asked, fetch[k]}
  BY ListStepCache DEF ShowsInv, KeysInv, Lists
<1>5. ShapeInv'
  BY <1>1, <1>4, ShapeKept DEF ShowsInv
<1> QED BY <1>3, <1>5 DEF ShowsInv

LEMMA SameListShows ==
    ASSUME CallInv, ShowsInv, ListStep, ActsInv', truth' = truth PROVE ShowsInv'
BY SameShaped, ListStepShows DEF ShowsInv

-----------------------------------------------------------------------------
(* The network.                                                            *)
LEMMA SameDone ==
    ASSUME calls' = calls, Steady, NEW k
    PROVE  (\E h \in Slots : Done(h) /\ k \in Changes(calls[h].act))
             => (\E h \in Slots : Done(h) /\ k \in Changes(calls[h].act))'
BY DEF Done, Steady

(* Another administrator changes a list, which is in doubt then.           *)
LEMMA OthersShows == ASSUME CallInv, ShowsInv, ActsInv', Others PROVE ShowsInv'
<1>1. PICK t, lists : t \in Targets /\ lists \in Elsewhere(t) /\ Outsider(lists)
  BY DEF Others
<1>2. /\ plan' = plan /\ truth' = lists /\ shown' = shown /\ view' = view /\ fetch' = fetch /\ calls' = calls
      /\ doubt' = doubt \cup {k \in Lists : lists[k] # truth[k]}
  BY <1>1 DEF Outsider
<1>3. DOMAIN lists = Lists /\ (page \in SettingsPageNames => \A k \in Lists : Shaped(k, lists[k]))
  <2>1. CASE page \in SettingsPageNames
    <3>1. PICK f : lists = [truth EXCEPT ![ListOf(f)] = [@ EXCEPT ![f] = "new"]]
      BY <1>1, <2>1 DEF Elsewhere
    <3> DEFINE j == ListOf(f)
               x == [truth[j] EXCEPT ![f] = "new"]
    <3>2. lists = [truth EXCEPT ![j] = x]
      BY <3>1
    <3>3. ASSUME NEW k \in Lists PROVE Shaped(k, lists[k])
      <4>1. Shaped(k, truth[k])
        BY <2>1 DEF ShowsInv, ShapeInv
      <4>2. CASE k = j
        <5>1. lists[k] = [truth[k] EXCEPT ![f] = "new"]
          BY <3>2, <4>2 DEF Lists
        <5> QED BY <4>1, <5>1 DEF Shaped
      <4>3. CASE k # j
        BY <3>2, <4>1, <4>3 DEF Lists
      <4> QED BY <4>2, <4>3
    <3> QED BY <3>2, <3>3 DEF Lists
  <2>2. CASE page \notin SettingsPageNames
    BY <1>1, <2>2 DEF Elsewhere, Put, WithStatus, Counted, Lists, ShowsInv, KeysInv, Keys, RulePages
  <2> QED BY <2>1, <2>2
<1>4. Lists' = Lists /\ Keys' = Keys /\ Unread' = Unread
  BY <1>2, <1>3 DEF Lists, Keys, StartSettings, Unread, page
<1>5. Steady
  BY <1>2, <1>3, <1>4, ShapedSteady DEF ShowsInv
<1>6. KeysInv'
  BY <1>2, <1>4 DEF ShowsInv, KeysInv, Lists
<1>7. ShapeInv'
  BY <1>2, <1>3, <1>4, ShapeKept DEF ShowsInv
<1>8. ASSUME NEW k \in Lists \ (doubt' \cup Unread), Fresh(k) PROVE Fresh(k)'
  BY <1>2, <1>5, <1>8, SameDone DEF Fresh
<1>9. ListInv'
  BY <1>2, <1>4, <1>8 DEF ShowsInv, ListInv
<1> QED BY <1>6, <1>7, <1>9 DEF ShowsInv

(* A fetch is served, answered, lost or begun.                             *)
LEMMA FetchShows ==
    ASSUME ShowsInv, ActsInv', NEW k \in Lists, NEW u,
           ServeList(k) \/ ListArrives(k, u) \/ ListFails(k) \/ Poll(k)
    PROVE  ShowsInv'
<1>1. UNCHANGED <<plan, shown, truth, calls>>
  BY DEF ServeList, ListArrives, ListFails, Poll
<1>2. Lists' = Lists /\ Keys' = Keys /\ Unread' = Unread /\ Lists = Keys
  BY <1>1 DEF Lists, Keys, StartSettings, Unread, page, ShowsInv, KeysInv
<1>3. Steady
  BY <1>1, <1>2, SteadyLists
<1>4. /\ view = [j \in Keys |-> view[j]] /\ fetch = [j \in Keys |-> fetch[j]]
      /\ \A j \in Keys : FetchShape(fetch[j])
  BY DEF ShowsInv, KeysInv
<1>5. /\ view' = [j \in Keys |-> view'[j]] /\ fetch' = [j \in Keys |-> fetch'[j]]
      /\ \A j \in Keys \ {k} : view'[j] = view[j] /\ fetch'[j] = fetch[j]
  BY <1>4 DEF ServeList, ListArrives, ListFails, Poll
<1>6. \/ fetch[k] = Asked /\ fetch'[k] = [at |-> "read", got |-> truth[k]] /\ view'[k] = view[k] /\ doubt' = doubt
      \/ /\ fetch[k].at = "read" /\ fetch'[k] = Idle /\ view'[k] = fetch[k].got /\ doubt' = doubt
      \/ fetch'[k] = Idle /\ view'[k] = view[k] /\ doubt' = doubt \cup {k}
      \/ fetch'[k] = Asked /\ view'[k] = view[k] /\ doubt' = doubt \ {k}
  BY <1>2, <1>4 DEF ServeList, ListArrives, ListFails, Poll
<1>7. KeysInv'
  <2>1. FetchShape(fetch'[k])
    BY <1>6 DEF FetchShape
  <2> QED BY <1>1, <1>2, <1>4, <1>5, <2>1 DEF KeysInv, Lists, FetchShape
<1>8. ShapeInv'
  <2>1. \A j \in Lists :
           /\ view'[j] \in {NoData, view[j]} \/ (fetch[j].at = "read" /\ view'[j] = fetch[j].got)
           /\ fetch'[j] \in {Idle, Asked, fetch[j]} \/ fetch'[j].got = truth[j]
    BY <1>2, <1>5, <1>6
  <2> QED BY <1>1, <1>2, <2>1, SameShaped, ShapeKept DEF ShowsInv
<1>9. ASSUME NEW j \in Lists \ (doubt' \cup Unread), shown PROVE Fresh(j)'
  <2>1. CASE j # k
    <3>1. Fresh(j)
      BY <1>6, <1>9, <2>1 DEF ShowsInv, ListInv
    <3> QED BY <1>1, <1>2, <1>3, <1>5, <2>1, <3>1, SameDone DEF Fresh
  <2>2. CASE j = k
    <3>1. CASE fetch'[k] = Asked
      BY <2>2, <3>1 DEF Fresh
    <3>2. CASE fetch'[k] = [at |-> "read", got |-> truth[k]]
      BY <1>1, <2>2, <3>2 DEF Fresh
    <3>3. CASE fetch[k].at = "read" /\ fetch'[k] = Idle /\ view'[k] = fetch[k].got /\ doubt' = doubt
      <4>1. Fresh(k)
        BY <1>9, <2>2, <3>3 DEF ShowsInv, ListInv
      <4> QED BY <1>1, <1>3, <2>2, <3>3, <4>1, SameDone DEF Fresh, Idle, Asked
    <3> QED BY <1>6, <1>9, <2>2, <3>1, <3>2, <3>3
  <2> QED BY <2>1, <2>2
<1>10. ListInv'
  BY <1>1, <1>2, <1>9 DEF ListInv
<1> QED BY <1>7, <1>8, <1>10 DEF ShowsInv

LEMMA NetworkShows == ASSUME CallInv, ShowsInv, ActsInv', Network PROVE ShowsInv'
<1>1. ASSUME NEW k \in Lists, ReadList(k) \/ PollList(k) \/ ListFails(k) PROVE ShowsInv'
  BY <1>1, FetchShows DEF ReadList, PollList
<1>2. ASSUME NEW h \in Slots, Refuse(h) PROVE ShowsInv'
  <2>1. ListStep
    <3>1. calls[h].stage # "ok" /\ \E s : Answered(h, s)
      BY <1>2 DEF Refuse
    <3> QED BY <1>2, <3>1, AnsweredList DEF Refuse, cacheVars
  <2> QED BY <1>2, <2>1, SameListShows DEF Refuse
<1>3. ASSUME NEW h \in Slots, LoseAnswer(h) PROVE ShowsInv'
  <2>1. ListStep
    BY <1>3 DEF LoseAnswer, ListStep, Doubts, Lists
  <2> QED BY <1>3, <2>1, SameListShows DEF LoseAnswer
<1> QED BY <1>1, <1>2, <1>3 DEF Network

-----------------------------------------------------------------------------
(* The dialog, and leaving the page.                                       *)
LEMMA CheckProofList == ASSUME CallInv, NEW h \in Slots, CheckProof(h) PROVE ListStep /\ truth' = truth
<1>1. PICK s : Answered(h, s)
  BY DEF CheckProof, CodeAccepted, StampRedeemed, GraceCovers, ProofMissing, Allow
<1>2. UNCHANGED <<plan, shown, truth, view, fetch, doubt>>
  BY DEF CheckProof, CodeAccepted, StampRedeemed, GraceCovers, ProofMissing, Allow, cacheVars
<1>3. calls[h].stage # "ok"
  BY DEF CheckProof, CodeAccepted, StampRedeemed, GraceCovers, ProofMissing, Asks
<1> QED BY <1>1, <1>2, <1>3, AnsweredList

LEMMA HiddenShows ==
    ASSUME ShowsInv, ActsInv', plan' = plan, truth' = truth, shown' = FALSE,
           \/ view' = view /\ fetch' = fetch
           \/ view' = [k \in Lists |-> NoData] /\ fetch' = [k \in Lists |-> Idle]
    PROVE  ShowsInv'
<1>1. Lists' = Lists /\ Keys' = Keys /\ Lists = Keys
  BY DEF Lists, Keys, StartSettings, page, ShowsInv, KeysInv
<1>2. KeysInv'
  BY <1>1 DEF ShowsInv, KeysInv, Lists, FetchShape
<1>3. ShapeInv'
  BY <1>1, SameShaped, ShapeKept DEF ShowsInv
<1> QED BY <1>2, <1>3 DEF ShowsInv, ListInv

LEMMA DialogShows == ASSUME CallInv, ShowsInv, ActsInv', Dialog PROVE ShowsInv'
<1>1. CASE SubmitCode \/ RunHeldAction
  <2>1. ListStep
    BY <1>1, SendList, SendAwayList DEF SubmitCode, RunHeldAction
  <2> QED BY <1>1, <2>1, SameListShows DEF SubmitCode, RunHeldAction, Send, SendUnfollowed
<1>2. CASE UsePasskey \/ CloseDialog \/ StampSession \/ CeremonyFails \/ ProofExpires
  <2>1. UNCHANGED <<plan, shown, truth, view, fetch, doubt>> /\ calls' = calls
    BY <1>2 DEF UsePasskey, CloseDialog, StampSession, CeremonyFails, ProofExpires, pageVars
  <2> QED BY <2>1, SameList, SameListShows
<1>3. ASSUME NEW u, Escape(u) PROVE ShowsInv'
  <2>1. UNCHANGED <<plan, shown, truth, view, fetch, doubt>> /\ calls' = calls
    BY <1>3 DEF Escape, Local, cacheVars
  <2> QED BY <2>1, SameList, SameListShows
<1>4. ASSUME NEW h \in Slots, CheckProof(h) PROVE ShowsInv'
  BY <1>4, CheckProofList, SameListShows
<1>5. ASSUME NEW h \in Slots, RedirectToLogin(h, BlankPage) PROVE ShowsInv'
  BY <1>5, HiddenShows DEF RedirectToLogin
<1> QED BY <1>1, <1>2, <1>3, <1>4, <1>5 DEF Dialog

LEMMA NavigateShows == ASSUME ShowsInv, ActsInv', Navigate PROVE ShowsInv'
<1>1. CASE Leave(BlankPage)
  BY <1>1, HiddenShows DEF Leave, Unmount, cacheVars
<1>2. CASE Mount(BlankPage)
  <2>1. /\ plan' = plan /\ truth' = truth /\ view' = view
        /\ fetch' = [k \in Lists |-> IF fetch[k] = Idle THEN Asked ELSE fetch[k]]
        /\ doubt' = Overtaken(Lists)
    BY <1>2 DEF Mount
  <2>2. Lists' = Lists /\ Keys' = Keys /\ Lists = Keys
    BY <2>1 DEF Lists, Keys, StartSettings, page, ShowsInv, KeysInv
  <2>3. \A k \in Keys : FetchShape(fetch[k])
    BY DEF ShowsInv, KeysInv
  <2>4. KeysInv'
    BY <2>1, <2>2, <2>3 DEF ShowsInv, KeysInv, Lists, FetchShape
  <2>5. ShapeInv'
    BY <2>1, <2>2, SameShaped, ShapeKept DEF ShowsInv
  <2>6. ASSUME NEW k \in Lists \ doubt' PROVE fetch'[k] = Asked
    <3>1. fetch[k].at # "read"
      BY <2>1, <2>6 DEF Overtaken
    <3> QED BY <2>1, <2>2, <2>3, <3>1 DEF FetchShape
  <2>7. ListInv'
    BY <2>2, <2>6 DEF ListInv, Fresh
  <2> QED BY <2>4, <2>5, <2>7 DEF ShowsInv
<1> QED BY <1>1, <1>2 DEF Navigate

LEMMA ShowsInit == ASSUME Init PROVE ShowsInv
<1>1. Lists = Keys
  BY DEF Init, Lists, Keys, StartLists
<1>2. KeysInv
  BY <1>1 DEF Init, KeysInv, Lists, FetchShape
<1>3. ASSUME page \in SettingsPageNames, NEW k \in Lists PROVE Shaped(k, truth[k])
  <2>1. truth = StartSettings
    BY <1>3 DEF Init, StartLists
  <2>2. page = "templates" => truth = [templates |-> [t \in Targets |-> "old"]]
    BY <2>1 DEF StartSettings
  <2> QED BY <1>3, <2>1, <2>2 DEF Shaped, Lists
<1>4. ShapeInv
  BY <1>3 DEF Init, ShapeInv, Asked
<1>5. ActsInv
  <2>1. \A h \in Slots : calls[h] = NoCall
    BY DEF Init
  <2>2. dialog.gate = NoGate /\ ceremony.act = NoGate
    BY DEF Init, Closed, NoCeremony
  <2>3. Known(NoCall.act)
    BY DEF Known, NoCall, SettingAct, Setting
  <2> QED BY <2>1, <2>2, <2>3, KnownNoGate DEF ActsInv, UsesInv
<1>6. ListInv
  BY DEF Init, ListInv, Fresh
<1> QED BY <1>2, <1>4, <1>5, <1>6 DEF ShowsInv

LEMMA ShowsNext == ASSUME PagesInv, ShowsInv, [Next]_vars PROVE ShowsInv'
<1>1. CallInv /\ WaitInv /\ FormInv /\ KeysInv /\ ShapeInv /\ ActsInv /\ UsesInv
  BY DEF PagesInv, GateInv, SendInv, ShowsInv, ActsInv
<1>2. CASE GatedNext \/ ProfileNext \/ DirectoryNext \/ RulesNext
  <2>1. page \notin SettingsPageNames
    BY <1>2 DEF GatedNext, ProfileNext, DirectoryNext, RulesNext, RulePages, SettingsPageNames
  <2>2. PageStep
    BY <1>1, <1>2, GatedStep, ProfileStep, DirectoryStep, RulesStep DEF RulesNext, FormInv
  <2>3. ActsInv'
    BY <1>1, <2>1, <2>2, OtherPageActs
  <2>4. ListStep
    BY <1>1, <1>2, GatedList, ProfileList, DirectoryList, RulesList
  <2> QED BY <1>1, <2>1, <2>3, <2>4, ListStepShows
<1>3. CASE SettingsNext
  <2>1. ActsInv'
    BY <1>1, <1>3, SettingsActs
  <2>2. ListStep /\ \A k \in Lists : Shaped(k, truth'[k])
    BY <1>1, <1>3, SettingsList
  <2> QED BY <1>1, <2>1, <2>2, ListStepShows
<1>4. CASE Dialog
  BY <1>1, <1>4, DialogActs, DialogShows
<1>5. CASE Network \/ Others
  <2>1. ActsInv'
    BY <1>1, <1>5, NetworkStays, StaysActs
  <2> QED BY <1>1, <1>5, <2>1, NetworkShows, OthersShows
<1>6. CASE Navigate
  BY <1>1, <1>6, NavigateActs, NavigateShows
<1>7. CASE UNCHANGED vars
  <2>1. UNCHANGED <<plan, shown, truth, view, fetch, doubt>> /\ calls' = calls /\ Stays
    BY <1>7 DEF vars, pageVars, gateVars, Stays, GateStays
  <2> QED BY <1>1, <2>1, StaysActs, SameList, SameListShows
<1> QED BY <1>2, <1>3, <1>4, <1>5, <1>6, <1>7 DEF Next

(* A list that is shown with no fetch and no request under way is the      *)
(* server's, whatever was asked for, overtaken, refused or fetched in the  *)
(* meantime: a mutation reads the lists it changes anew when its answer    *)
(* comes (invalidateQueries), and until then its answer is still to come.  *)
(* What is in doubt is excepted: a change by others, a fetch that failed   *)
(* or an answer that was lost, and what the profile page never reads.      *)
THEOREM SettledListsAreTrue == Spec => []SettledListIsTrue
<1>1. Init => PagesInv /\ ShowsInv
  BY PagesInvInit, ShowsInit
<1>2. PagesInv /\ ShowsInv /\ [Next]_vars => (PagesInv /\ ShowsInv)'
  BY PagesInvNext, ShowsNext
<1>3. ShowsInv => SettledListIsTrue
  BY DEF ShowsInv, ListInv, Fresh, Done, SettledListIsTrue, Flying, Idle, Asked
<1> QED BY <1>1, <1>2, <1>3, PTL DEF Spec

-----------------------------------------------------------------------------
(* What is typed into the mail templates.                                  *)
TextForm(u) == UiShape(u) /\ DOMAIN u.draft = Targets

TextInv == page = "templates" => TextForm(ui)

(* No text changes, other than by typing or with the whole tab.            *)
TextsStay == \A t \in Targets : ui.draft[t] \in {None, ui'.draft[t]}
TextStep  == TextForm(ui') /\ (EditSetting \/ ~(shown /\ shown') \/ TextsStay)

LEMMA SameText == ASSUME TextForm(ui), ui' = ui PROVE TextStep
BY DEF TextStep, TextsStay

LEMMA BlankText ==
    ASSUME KeysInv, ShapeInv, page = "templates", NEW m
    PROVE  TextForm(BlankPage) /\ TextForm([BlankPage EXCEPT !.modal = m])
<1> DEFINE d == [f \in UNION {DOMAIN truth[k] : k \in Lists} |->
                    IF view[ListOf(f)] = NoData THEN None ELSE view[ListOf(f)][f]]
<1>1. DOMAIN d = Targets
  BY TemplateHome
<1>2. BlankPage = [Blank EXCEPT !.target = Self, !.draft = d]
  BY DEF BlankPage, BlankSettings, RulePages, SettingsPageNames
<1> HIDE DEF d
<1>3. Blank = [modal |-> "none", target |-> None, draft |-> None, result |-> None]
  BY DEF Blank
<1>4. PICK b : b = Blank
  OBVIOUS
<1>5. BlankPage = [k \in {"modal", "target", "draft", "result"} |->
                     IF k = "target" THEN Self ELSE IF k = "draft" THEN d ELSE b[k]]
  <2>1. DOMAIN b = {"modal", "target", "draft", "result"}
    BY <1>3, <1>4
  <2> QED BY <1>2, <1>4, <2>1
<1>6. BlankPage = [modal |-> BlankPage.modal, target |-> Self, draft |-> d, result |-> BlankPage.result]
  BY <1>5
<1>7. [BlankPage EXCEPT !.modal = m] = [modal |-> m, target |-> Self, draft |-> d, result |-> BlankPage.result]
  BY <1>6
<1> QED BY <1>1, <1>6, <1>7 DEF TextForm, UiShape

LEMMA TypedText ==
    ASSUME TextForm(ui), page = "templates", SettingsNext
    PROVE  TextStep
<1>1. CASE EditSetting
  <2>1. PICK f, n : ui' = [ui EXCEPT !.draft = [@ EXCEPT ![f] = n]]
    BY <1>1 DEF EditSetting, Do, Local
  <2> DEFINE d == [ui.draft EXCEPT ![f] = n]
  <2>2. DOMAIN d = Targets
    BY DEF TextForm
  <2>3. ui' = [ui EXCEPT !.draft = d]
    BY <2>1
  <2> HIDE DEF d
  <2>4. ui' = [modal |-> ui.modal, target |-> ui.target, draft |-> d, result |-> ui.result]
    BY <2>3 DEF TextForm, UiShape
  <2> QED BY <1>1, <2>2, <2>4 DEF TextStep, TextForm, UiShape
<1>2. CASE ChooseTemplate
  <2>1. PICK t : ui' = [ui EXCEPT !.target = t]
    BY <1>2 DEF ChooseTemplate, Do, Local
  <2>2. ui' = [modal |-> ui.modal, target |-> t, draft |-> ui.draft, result |-> ui.result]
    BY <2>1 DEF TextForm, UiShape
  <2> QED BY <2>2 DEF TextStep, TextsStay, TextForm, UiShape
<1>3. CASE ~(EditSetting \/ ChooseTemplate)
  <2>1. ui' = ui
    BY <1>3 DEF SettingsNext, SaveSMTP, TestSMTP, SaveTimezone, SaveTemplate, SaveStepUp, SavePolicy,
                SaveLockout, SaveExpiry, SaveSection, SettingsAnswered, UpdateSMTPConfig, SendTestEmail,
                UpdateTimezoneConfig, UpdateEmailTemplate, UpdateStepUpConfig, UpdateMFAPolicyConfig,
                UpdateSecurityConfig, Ask, Send, Confirm, Local, Answer, Succeeds, Fails, Carry, Commit
  <2> QED BY <2>1, SameText
<1> QED BY <1>1, <1>2, <1>3

LEMMA ShownText ==
    ASSUME TextForm(ui), page = "templates", NEW k, ui' = SettingsShown(k) PROVE TextStep
<1> DEFINE got == fetch[k].got
           d == [f \in DOMAIN ui.draft |->
                   IF f \in DOMAIN got /\ (page = "templates" => ui.draft[f] = None) THEN got[f] ELSE ui.draft[f]]
<1>1. CASE ~shown \/ got = view[k]
  BY <1>1, SameText DEF SettingsShown
<1>2. CASE ~(~shown \/ got = view[k])
  <2>1. ui' = [ui EXCEPT !.draft = d]
    BY <1>2 DEF SettingsShown
  <2>2. DOMAIN d = Targets /\ \A t \in Targets : ui.draft[t] \in {None, d[t]}
    BY DEF TextForm
  <2> HIDE DEF d
  <2>3. ui' = [modal |-> ui.modal, target |-> ui.target, draft |-> d, result |-> ui.result]
    BY <2>1 DEF TextForm, UiShape
  <2> QED BY <2>2, <2>3 DEF TextStep, TextsStay, TextForm, UiShape
<1> QED BY <1>1, <1>2

LEMMA TextNext ==
    ASSUME KeysInv, ShapeInv, TextForm(ui), page = "templates", Next PROVE TextStep
<1>1. ~(GatedNext \/ ProfileNext \/ DirectoryNext \/ RulesNext) /\ page \notin GatePages
  BY DEF GatedNext, ProfileNext, DirectoryNext, RulesNext, RulePages, GatePages, GatedPageNames
<1>2. CASE Others
  BY <1>2, SameText DEF Others, Outsider
<1>3. CASE Network
  <2>1. ui' = ui \/ \E k : ui' = SettingsShown(k)
    BY <1>3 DEF Network, ReadList, PollList, ServeList, ListArrives, ListFails, Poll, Refuse, LoseAnswer,
                Arriving
  <2> QED BY <2>1, SameText, ShownText
<1>4. CASE Navigate
  <2>1. ui' = BlankPage /\ ~(shown /\ shown')
    BY <1>4 DEF Navigate, Leave, Unmount, Mount
  <2> QED BY <2>1, BlankText DEF TextStep
<1>5. CASE Dialog
  <2>1. ASSUME NEW h \in Slots, RedirectToLogin(h, BlankPage) PROVE TextStep
    BY <2>1, BlankText DEF RedirectToLogin, TextStep
  <2>2. CASE ~ \E h \in Slots : RedirectToLogin(h, BlankPage)
    <3>1. ui' = ui
      BY <1>1, <1>5, <2>2 DEF Dialog, SubmitCode, UsePasskey, CloseDialog, StampSession, CeremonyFails,
             RunHeldAction, ProofExpires, CheckProof, CodeAccepted, StampRedeemed, GraceCovers,
             ProofMissing, Allow, Send, SendUnfollowed, pageVars
    <3> QED BY <3>1, SameText
  <2> QED BY <2>1, <2>2
<1> QED BY <1>1, <1>2, <1>3, <1>4, <1>5, TypedText DEF Next

LEMMA TextKept == ASSUME PagesInv, ShowsInv, TextInv, [Next]_vars PROVE TextInv'
<1>1. page' = page
  BY PagesPlan DEF page
<1>2. CASE Next
  BY <1>1, <1>2, TextNext DEF TextInv, ShowsInv, TextStep
<1>3. CASE UNCHANGED vars
  BY <1>1, <1>3 DEF TextInv, vars, pageVars
<1> QED BY <1>2, <1>3

(* What is typed into a mail template stays while its tab is there,        *)
(* whatever is saved, read anew, changed by others or chosen meanwhile:    *)
(* the effect of the templates that arrive fills in only what was not      *)
(* shown yet.                                                              *)
THEOREM TemplatesKeepTheirText == Spec => TypedTextStays
<1>1. Init => PagesInv /\ ShowsInv
  BY PagesInvInit, ShowsInit
<1>2. Init => TextInv
  <2> SUFFICES ASSUME Init, page = "templates" PROVE TextForm(ui)
    BY DEF TextInv
  <2>1. ui = BlankPage
    BY DEF Init
  <2> QED BY <1>1, <2>1, BlankText DEF ShowsInv
<1>3. PagesInv /\ ShowsInv /\ TextInv /\ [Next]_vars => (PagesInv /\ ShowsInv /\ TextInv)'
  BY PagesInvNext, ShowsNext, TextKept
<1> DEFINE Stay == page = "templates" /\ shown /\ shown' /\ ~EditSetting
                     => \A t \in Targets : ui.draft[t] \in {None, ui'.draft[t]}
<1>4. PagesInv /\ ShowsInv /\ TextInv /\ [Next]_vars => [Stay]_vars
  <2> SUFFICES ASSUME ShowsInv, TextInv, Next, page = "templates", shown, shown', ~EditSetting
               PROVE  TextsStay
    BY DEF TextsStay
  <2> QED BY TextNext DEF TextStep, ShowsInv, TextInv
<1> QED BY <1>1, <1>2, <1>3, <1>4, PTL DEF Spec, TypedTextStays

-----------------------------------------------------------------------------
(* The row an open form is about.                                          *)
UiKeys  == {"modal", "target", "draft", "result"}
IsUi(u) == u = [k \in UiKeys |-> u[k]]

RowForm(u) ==
    /\ IsUi(u)
    /\ page = "users" /\ u.modal # "edit" => u.target = None
    /\ page \in RulePages /\ u.modal # "group" => u.target = None

RowInv == page \in RowForms => RowForm(ui)

SameRow(u) == ui.modal # "none" /\ u.modal = ui.modal => u.target = ui.target

(* What may be shown next.                                                 *)
RowNext(u) == RowForm(u) /\ SameRow(u)

LEMMA RowSame == ASSUME RowForm(ui) PROVE RowNext(ui)
BY DEF RowNext, SameRow

LEMMA RowDo == ASSUME NEW u, RowNext(u), Do(u) PROVE RowNext(ui')
BY DEF Do, Local

LEMMA RowForget == ASSUME NEW u, NEW ops, RowNext(u), Forget(u, ops) PROVE RowNext(ui')
BY DEF Forget

LEMMA RowAsk == ASSUME NEW op, NEW t, NEW arg, NEW u, RowNext(u), Ask(op, t, arg, u) PROVE RowNext(ui')
BY DEF Ask, Send

LEMMA RowGate == ASSUME NEW a, NEW u, RowNext(u), Gate(a, u) PROVE RowNext(ui')
BY DEF Gate, Send, Local

LEMMA RowCarry == ASSUME NEW h, NEW lists, RowForm(ui), Carry(h, lists) PROVE RowNext(ui')
BY RowSame DEF Carry, Commit

LEMMA RowDecline == ASSUME NEW h, RowForm(ui), Decline(h) PROVE RowNext(ui')
BY RowSame DEF Decline, Reject

LEMMA RowAnswer ==
    ASSUME NEW h, NEW u, NEW keys, RowForm(ui), RowNext(u), Answer(h, u, keys) PROVE RowNext(ui')
BY RowSame DEF Answer, Succeeds, Fails

(* The pages.                                                              *)
LEMMA ServersRow == ASSUME page = "servers", RowForm(ui), ServersNext \/ EditText PROVE RowNext(ui')
<1> USE RowSame, RowDo, RowAsk, RowGate, RowCarry, RowDecline
<1>1. page \notin RulePages /\ page # "users" /\ IsUi(ui)
  BY DEF RulePages, RowForm
<1>2. CASE OpenServerForm \/ EditText
  BY <1>1, <1>2 DEF IsUi, UiKeys, OpenServerForm, EditText, RowNext, RowForm, SameRow
<1>3. CASE SubmitServer \/ \E t \in Targets : ServerRowAction(t)
  BY <1>3 DEF SubmitServer, ServerRowAction
<1>4. ASSUME NEW h \in Slots, ServerAnswered(h) PROVE RowNext(ui')
  <2>1. RowNext(ServerSucceeded(calls[h].act))
    BY <1>1 DEF IsUi, UiKeys, ServerSucceeded, RowNext, RowForm, SameRow
  <2> QED BY <1>4, <2>1, RowAnswer DEF ServerAnswered
<1>5. ASSUME NEW h \in Slots,
             UpdateServer(h) \/ CreateServer(h) \/ DeleteServer(h) \/ GetServerHostConfig(h)
      PROVE  RowNext(ui')
  BY <1>5 DEF UpdateServer, CreateServer, DeleteServer, GetServerHostConfig
<1> QED BY <1>2, <1>3, <1>4, <1>5 DEF ServersNext

LEMMA UsersRow == ASSUME page = "users", RowForm(ui), UsersNext PROVE RowNext(ui')
<1> USE RowSame, RowDo, RowForget, RowAsk, RowCarry, RowDecline
<1>1. page \notin RulePages /\ IsUi(ui) /\ (ui.modal # "edit" => ui.target = None)
  BY DEF RulePages, RowForm
<1> USE DEF RowNext, RowForm, SameRow
<1>2. CASE InviteForm \/ DismissResent
  BY <1>1, <1>2 DEF IsUi, UiKeys, InviteForm, UsersClear, DismissResent
<1>3. CASE HandleInvite \/ HandleSaveUser \/ \E t \in Targets : UserRowAction(t)
  BY <1>3 DEF HandleInvite, HandleSaveUser, UserRowAction
<1>4. CASE CloseEditUser \/ EditUserForm \/ \E t \in Targets : OpenEditUser(t)
  BY <1>1, <1>4 DEF IsUi, UiKeys, CloseEditUser, EditUserForm, OpenEditUser, UsersClear
<1>5. ASSUME NEW h \in Slots, UserAnswered(h) PROVE RowNext(ui')
  <2>1. RowNext(UserSucceeded(calls[h].act))
    BY <1>1 DEF IsUi, UiKeys, UserSucceeded
  <2> QED BY <1>5, <2>1, RowAnswer DEF UserAnswered
<1>6. ASSUME NEW h \in Slots,
             CreateUser(h) \/ ResendUserInvite(h) \/ SetUserStatus(h) \/ UpdateUser(h)
      PROVE  RowNext(ui')
  BY <1>6 DEF CreateUser, ResendUserInvite, SetUserStatus, UpdateUser
<1> QED BY <1>2, <1>3, <1>4, <1>5, <1>6 DEF UsersNext

LEMMA DepartmentsRow == ASSUME page = "departments", RowForm(ui), DepartmentsNext PROVE RowNext(ui')
<1> USE RowSame, RowForget, RowAsk, RowCarry, RowDecline
<1>1. page \notin RulePages /\ page # "users" /\ IsUi(ui)
  BY DEF RulePages, RowForm
<1> USE DEF RowNext, RowForm, SameRow
<1>2. CASE OpenDepartment \/ CloseDepartment \/ DepartmentForm
  BY <1>1, <1>2 DEF IsUi, UiKeys, OpenDepartment, CloseDepartment, DepartmentForm
<1>3. CASE HandleSave \/ \E t \in Targets : ConfirmDelete(t)
  BY <1>3 DEF HandleSave, ConfirmDelete
<1>4. ASSUME NEW h \in Slots, DepartmentAnswered(h) PROVE RowNext(ui')
  BY <1>1, <1>4, RowAnswer DEF IsUi, UiKeys, DepartmentAnswered
<1>5. ASSUME NEW h \in Slots, CreateDepartment(h) \/ UpdateDepartment(h) \/ DeleteDepartment(h)
      PROVE  RowNext(ui')
  BY <1>5 DEF CreateDepartment, UpdateDepartment, DeleteDepartment
<1> QED BY <1>2, <1>3, <1>4, <1>5 DEF DepartmentsNext

LEMMA PeersRow == ASSUME page = "peers", RowForm(ui), PeersNext PROVE RowNext(ui')
<1> USE RowSame, RowDo, RowForget, RowAsk, RowCarry, RowDecline
<1>1. page \notin RulePages /\ page # "users" /\ IsUi(ui)
  BY DEF RulePages, RowForm
<1> USE DEF RowNext, RowForm, SameRow
<1>2. CASE OpenAdd \/ PeerForm \/ DismissPeerResult \/ \E t \in Targets : OpenEditPeer(t)
  BY <1>1, <1>2
     DEF IsUi, UiKeys, OpenAdd, PeersClear, PeerForm, DismissPeerResult, OpenEditPeer
<1>3. CASE CloseAdd
  BY <1>1, <1>3 DEF IsUi, UiKeys, CloseAdd
<1>4. CASE SubmitPeer \/ ConfirmResend \/ \E t \in Targets : PeerRowAction(t)
  BY <1>1, <1>4 DEF IsUi, UiKeys, SubmitPeer, ConfirmResend, PeerRowAction, PeersClear
<1>5. ASSUME NEW h \in Slots, PeerAnswered(h) PROVE RowNext(ui')
  <2>1. \A link \in BOOLEAN : RowNext(CreateSucceeded(link))
    BY <1>1 DEF IsUi, UiKeys, CreateSucceeded
  <2>2. CASE \E link \in BOOLEAN : Answer(h, CreateSucceeded(link), {"rows"})
    BY <2>1, <2>2, RowAnswer
  <2>3. CASE Fails(h, ui, {"rows"})
    BY <2>3 DEF Fails, Succeeds
  <2> QED BY <1>1, <1>5, <2>2, <2>3, RowAnswer DEF IsUi, UiKeys, PeerAnswered
<1>6. ASSUME NEW h \in Slots, CreatePeer(h) \/ UpdatePeer(h) \/ DeletePeer(h) \/ ReadPeerConfig(h)
      PROVE  RowNext(ui')
  BY <1>6 DEF CreatePeer, UpdatePeer, DeletePeer, ReadPeerConfig
<1> QED BY <1>2, <1>3, <1>4, <1>5, <1>6 DEF PeersNext

LEMMA RulesRow == ASSUME page \in RulePages, RowForm(ui), RulesNext PROVE RowNext(ui')
<1> USE RowSame, RowDo, RowForget, RowAsk, RowCarry, RowDecline
<1>1. page # "users" /\ IsUi(ui) /\ (ui.modal # "group" => ui.target = None)
  BY DEF RulePages, RowForm
<1> USE DEF RowNext, RowForm, SameRow
<1>2. CASE OpenAddModal \/ CloseAddModal
  BY <1>1, <1>2 DEF IsUi, UiKeys, OpenAddModal, CloseAddModal, RulesClear, RuleForm
<1>3. CASE \/ ChooseScope \/ ChooseUser \/ ChooseDepartment \/ ChooseTarget \/ TypeTarget
  <2>1. PICK d : Edited(d)
    BY <1>3 DEF ChooseScope, ChooseUser, ChooseDepartment, ChooseTarget, TypeTarget
  <2> QED BY <1>1, <2>1 DEF IsUi, UiKeys, Edited
<1>4. CASE TickPeer
  <2>1. PICK peers : Do([ui EXCEPT !.draft.peers = peers])
    BY <1>4 DEF TickPeer
  <2>2. [ui EXCEPT !.draft.peers = peers] = [ui EXCEPT !.draft = [ui.draft EXCEPT !.peers = peers]]
    OBVIOUS
  <2> QED BY <1>1, <2>1, <2>2 DEF IsUi, UiKeys
<1>5. CASE OpenGroupModal \/ CloseGroupModal \/ GroupForm
  BY <1>1, <1>5 DEF IsUi, UiKeys, OpenGroupModal, CloseGroupModal, GroupForm
<1>6. CASE HandleAdd \/ HandleSaveGroup \/ \E t \in Targets : DeleteRule(t) \/ ConfirmDeleteGroup(t)
  BY <1>6 DEF HandleAdd, HandleSaveGroup, DeleteRule, ConfirmDeleteGroup
<1>7. ASSUME NEW h \in Slots, RuleAnswered(h) \/ GroupAnswered(h) PROVE RowNext(ui')
  <2>1. RowNext(RuleAdded)
    BY <1>1 DEF IsUi, UiKeys, RuleAdded
  <2> QED BY <1>1, <1>7, <2>1, RowAnswer DEF IsUi, UiKeys, RuleAnswered, GroupAnswered
<1>8. ASSUME NEW h \in Slots,
             \/ CreateRule(h) \/ DropRule(h) \/ CreateGroup(h) \/ UpdateGroup(h) \/ DeleteGroup(h)
      PROVE  RowNext(ui')
  BY <1>8 DEF CreateRule, DropRule, CreateGroup, UpdateGroup, DeleteGroup
<1> QED BY <1>2, <1>3, <1>4, <1>5, <1>6, <1>7, <1>8 DEF RulesNext

(* A page that opens has no form open.                                     *)
LEMMA BlankRow ==
    ASSUME page \in RowForms, NEW m
    PROVE  RowForm(BlankPage) /\ RowForm([BlankPage EXCEPT !.modal = m])
<1>1. page \notin SettingsPageNames
  BY DEF RowForms, RulePages, SettingsPageNames
<1> QED BY <1>1 DEF BlankPage, BlankUsers, BlankPeers, BlankRules, Blank, RowForm, IsUi, UiKeys

LEMMA RowDialog ==
    ASSUME page \in RowForms, RowForm(ui), Dialog
    PROVE  RowForm(ui') /\ (shown /\ shown' => SameRow(ui'))
<1> USE DEF RowNext
<1>1. CASE page \in GatePages /\ Escape(IF page = "security" THEN ui ELSE Escaped)
  <2>1. page = "servers"
    BY <1>1 DEF RowForms, RulePages, GatePages, GatedPageNames
  <2>2. ui' = [ui EXCEPT !.modal = "none", !.result = None, !.target = None]
    BY <1>1, <2>1 DEF Escape, Escaped, Local
  <2> QED BY <2>1, <2>2 DEF RowForm, SameRow, IsUi, UiKeys, RulePages
<1>2. ASSUME NEW h \in Slots, RedirectToLogin(h, BlankPage)
      PROVE  RowForm(ui') /\ ~shown'
  BY <1>2, BlankRow DEF RedirectToLogin
<1>3. CASE ~(page \in GatePages /\ Escape(IF page = "security" THEN ui ELSE Escaped))
           /\ ~ \E h \in Slots : RedirectToLogin(h, BlankPage)
  <2>1. ui' = ui
    BY <1>3 DEF Dialog, SubmitCode, UsePasskey, CloseDialog, StampSession, CeremonyFails, RunHeldAction,
                ProofExpires, CheckProof, CodeAccepted, StampRedeemed, GraceCovers, ProofMissing, Allow,
                Send, SendUnfollowed, pageVars
  <2> QED BY <2>1 DEF SameRow
<1> QED BY <1>1, <1>2, <1>3

LEMMA RowKept ==
    ASSUME page \in RowForms, RowForm(ui), Next
    PROVE  RowForm(ui') /\ (shown /\ shown' => SameRow(ui'))
<1> USE DEF RowNext
<1>1. page \notin SettingsPageNames /\ page \notin {"profile", "admins", "nodes", "backups"}
  BY DEF RowForms, RulePages, SettingsPageNames
<1>2. CASE GatedNext
  BY <1>1, <1>2, ServersRow DEF GatedNext
<1>3. CASE DirectoryNext
  BY <1>3, UsersRow, DepartmentsRow, PeersRow DEF DirectoryNext
<1>4. CASE RulesNext
  BY <1>4, RulesRow DEF RulesNext
<1>5. CASE ProfileNext \/ SettingsNext
  BY <1>1, <1>5 DEF ProfileNext, SettingsNext
<1>6. CASE Dialog
  BY <1>6, RowDialog
<1>7. CASE Network \/ Others
  <2>1. ui' = ui
    BY <1>1, <1>7 DEF Network, ReadList, PollList, ServeList, ListArrives, ListFails, Poll, Refuse,
                      LoseAnswer, Arriving, Others, Outsider
  <2> QED BY <2>1 DEF SameRow
<1>8. CASE Navigate
  BY <1>8, BlankRow DEF Navigate, Leave, Unmount, Mount
<1> QED BY <1>2, <1>3, <1>4, <1>5, <1>6, <1>7, <1>8 DEF Next

(* While a form stays open it is about the row it was opened for, or about *)
(* a new one, whatever answers come late, for a form that was closed or    *)
(* reset meanwhile: onSuccess closes the form that is open and clears its  *)
(* row in one step, or touches neither.                                    *)
THEOREM FormsKeepTheirRow == Spec => FormKeepsItsRow
<1>1. Init => PagesInv
  BY PagesInvInit
<1>2. Init => RowInv
  BY BlankRow DEF Init, RowInv
<1>3. PagesInv /\ [Next]_vars => PagesInv'
  BY PagesInvNext
<1>4. PagesInv /\ RowInv /\ [Next]_vars => RowInv'
  <2> SUFFICES ASSUME PagesInv, RowInv, [Next]_vars, page' \in RowForms' PROVE RowForm(ui)'
    BY DEF RowInv
  <2>1. page' = page
    BY PagesPlan DEF page
  <2>2. page \in RowForms
    BY <2>1 DEF RowForms, RulePages
  <2>3. CASE Next
    BY <2>1, <2>2, <2>3, RowKept DEF RowInv, RowForm, IsUi, UiKeys, RulePages
  <2>4. CASE UNCHANGED vars
    BY <2>1, <2>2, <2>4 DEF RowInv, RowForm, IsUi, UiKeys, RulePages, vars, pageVars
  <2> QED BY <2>3, <2>4
<1> DEFINE Stay == shown /\ shown' /\ page \in RowForms /\ ui.modal # "none" /\ ui'.modal = ui.modal
                     => ui'.target = ui.target
<1>5. RowInv /\ [Next]_vars => [Stay]_vars
  BY RowKept DEF RowInv, SameRow
<1> QED BY <1>1, <1>2, <1>3, <1>4, <1>5, PTL DEF Spec, FormKeepsItsRow

=============================================================================
