---------------------------- MODULE DirectoryPages ----------------------------
(***************************************************************************)
(* The pages of the people and their devices: users, departments, peers.   *)
(* Their forms reset the mutation when they are opened, closed or typed    *)
(* in: the request runs on, the page no longer waits for it.               *)
(***************************************************************************)
EXTENDS StepUp

Removed(t) == view.rows[t].status = "removed"

-----------------------------------------------------------------------------
(* users.tsx.  The links of an invitation and of a resent one are results  *)
(* that stay until they are dismissed; a row's department is its `keyed'.  *)
NoUser     == [name |-> "old", keyed |-> FALSE]
BlankUsers == [Blank EXCEPT !.draft = NoUser, !.result = {}]

UsersClear == On("users") /\ ui.modal = "none" /\ "resent" \notin ui.result

InviteForm ==
    /\ On("users")
    /\ \/ UsersClear /\ Uses("inviteuser") /\ Do([ui EXCEPT !.modal = "add"])
       \/ ui.modal = "add" /\ Do([ui EXCEPT !.modal = "none"])
       \/ ui.modal = "add" /\ "invited" \in ui.result
          /\ Do([ui EXCEPT !.modal = "none", !.result = @ \ {"invited"}])

(* Mutant of HandleInvite: the button stays enabled while it runs.         *)
HandleInviteAgain ==
    /\ On("users") /\ ui.modal = "add" /\ "invited" \notin ui.result
    /\ \E t \in Targets : Ask("inviteuser", t, None, ui)

HandleInvite ==
    /\ On("users") /\ ui.modal = "add" /\ ~Pending("inviteuser") /\ "invited" \notin ui.result
    /\ \E t \in Targets : Ask("inviteuser", t, None, ui)

DismissResent == On("users") /\ "resent" \in ui.result /\ Do([ui EXCEPT !.result = @ \ {"resent"}])

UserOffers(status) ==
    {"removeuser"} \cup (IF status = "invited" THEN {"resend"}
                         ELSE IF status = "active" THEN {"suspend"}
                         ELSE IF status = "suspended" THEN {"resume"} ELSE {})

UserRowAction(t) ==
    /\ UsersClear /\ Seen(t) /\ ~Removed(t)
    /\ \E op \in UserOffers(view.rows[t].status) :
          (op = "resend" => ~Pending("resend")) /\ Ask(op, t, None, ui)

OpenEditUser(t) ==
    /\ UsersClear /\ Seen(t) /\ ~Removed(t) /\ Uses("edituser")
    /\ Forget([ui EXCEPT !.modal = "edit", !.target = t,
                         !.draft = [name |-> view.rows[t].name, keyed |-> view.rows[t].keyed]],
              {"edituser"})

CloseEditUser ==
    /\ On("users") /\ ui.modal = "edit"
    /\ Forget([ui EXCEPT !.modal = "none", !.target = None, !.draft = NoUser], {"edituser"})

EditUserForm ==
    /\ On("users") /\ ui.modal = "edit"
    /\ \E d \in {[ui.draft EXCEPT !.name = n] : n \in Texts} \cup {[ui.draft EXCEPT !.keyed = ~@]} :
          d # ui.draft /\ Forget([ui EXCEPT !.draft = d], {"edituser"})

HandleSaveUser ==
    /\ On("users") /\ ui.modal = "edit" /\ ~Pending("edituser")
    /\ Ask("edituser", ui.target, ui.draft, ui)

UserSucceeded(a) ==
    IF a.op = "inviteuser" THEN [ui EXCEPT !.result = @ \cup {"invited"}]
    ELSE IF a.op = "resend" THEN [ui EXCEPT !.result = @ \cup {"resent"}]
    ELSE IF a.op = "edituser"
    THEN [ui EXCEPT !.modal = IF @ = "edit" THEN "none" ELSE @, !.target = None, !.draft = NoUser]
    ELSE ui

UserOps == {"inviteuser", "resend", "suspend", "resume", "removeuser", "edituser"}
UserAnswered(h) == calls[h].act.op \in UserOps /\ Answer(h, UserSucceeded(calls[h].act), {"rows"})

(* The server.  An address of a removed user revives the row.              *)
CreateUser(h) ==
    LET t == calls[h].act.target IN
    /\ Due(h, {"inviteuser"})
    /\ IF truth.rows[t].status \in {"none", "removed"}
       THEN Carry(h, Put(t, [Row("invited") EXCEPT !.keyed = FALSE]))
       ELSE Decline(h)

ResendUserInvite(h) ==
    /\ Due(h, {"resend"})
    /\ IF truth.rows[calls[h].act.target].status = "invited" THEN Carry(h, truth) ELSE Decline(h)

(* Mutant of SetUserStatus: the column takes a word no reader knows.       *)
SetUserWord(h) ==
    LET t == calls[h].act.target IN
    \/ Due(h, {"suspend"})    /\ Carry(h, WithStatus(t, "suspended"))
    \/ Due(h, {"resume"})     /\ Carry(h, WithStatus(t, "resumed"))
    \/ Due(h, {"removeuser"}) /\ Carry(h, WithStatus(t, "removed"))

(* None of these looks at the status the row has by now.                   *)
SetUserStatus(h) ==
    LET t == calls[h].act.target IN
    \/ Due(h, {"suspend"})    /\ Carry(h, WithStatus(t, "suspended"))
    \/ Due(h, {"resume"})     /\ Carry(h, WithStatus(t, "active"))
    \/ Due(h, {"removeuser"}) /\ Carry(h, WithStatus(t, "removed"))

(* The fields are written one by one: when the department is gone by then, *)
(* the request fails and the name is changed all the same.                 *)
UpdateUser(h) ==
    LET a == calls[h].act
        named == [truth.rows[a.target] EXCEPT !.name = a.arg.name] IN
    /\ Due(h, {"edituser"})
    /\ \/ Carry(h, Put(a.target, [named EXCEPT !.keyed = a.arg.keyed]))
       \/ /\ a.arg.keyed /\ Mishap
          /\ truth' = Put(a.target, named) /\ doubt' = Lists
          /\ Answered(h, "error")
          /\ UNCHANGED <<plan, shown, ui, view, fetch, asked, gateVars>>

UsersNext ==
    \/ InviteForm \/ HandleInvite \/ DismissResent \/ CloseEditUser \/ EditUserForm \/ HandleSaveUser
    \/ \E t \in Targets : UserRowAction(t) \/ OpenEditUser(t)
    \/ \E h \in Slots : \/ UserAnswered(h) \/ CreateUser(h) \/ ResendUserInvite(h)
                        \/ SetUserStatus(h) \/ UpdateUser(h)

-----------------------------------------------------------------------------
(* departments.tsx *)
SaveDepartment == {"adddept", "editdept"}

OpenDepartment ==
    /\ On("departments") /\ view.rows # NoData /\ ui.modal = "none"
    /\ \/ Uses("adddept") /\ Forget([ui EXCEPT !.modal = "form", !.target = None, !.draft = None],
                                    SaveDepartment)
       \/ Uses("editdept") /\ \E t \in Targets : Seen(t) /\
             Forget([ui EXCEPT !.modal = "form", !.target = t, !.draft = view.rows[t].name], SaveDepartment)

CloseDepartment ==
    On("departments") /\ ui.modal = "form"
    /\ Forget([ui EXCEPT !.modal = "none", !.target = None], SaveDepartment)

DepartmentForm ==
    /\ On("departments") /\ ui.modal = "form"
    /\ \E n \in Texts \ {ui.draft} : Forget([ui EXCEPT !.draft = n], SaveDepartment)

HandleSave ==
    /\ On("departments") /\ ui.modal = "form" /\ ui.draft # None
    /\ ~Pending("adddept") /\ ~Pending("editdept")
    /\ IF ui.target = None THEN Ask("adddept", None, ui.draft, ui)
       ELSE Ask("editdept", ui.target, ui.draft, ui)

ConfirmDelete(t) ==
    On("departments") /\ Seen(t) /\ ui.modal = "none" /\ Ask("deldept", t, None, ui)

(* Mutant of DepartmentAnswered: a form about another department stays.    *)
DepartmentAnsweredLate(h) ==
    LET same == ui.target = calls[h].act.target IN
    /\ calls[h].act.op \in SaveDepartment \cup {"deldept"}
    /\ Answer(h, IF calls[h].act.op = "deldept" THEN ui
                 ELSE [ui EXCEPT !.modal = IF same THEN "none" ELSE @, !.target = None], {"rows"})

DepartmentAnswered(h) ==
    /\ calls[h].act.op \in SaveDepartment \cup {"deldept"}
    /\ Answer(h, IF calls[h].act.op = "deldept" THEN ui ELSE [ui EXCEPT !.modal = "none", !.target = None],
              {"rows"})

(* The server. *)
CreateDepartment(h) ==
    /\ Due(h, {"adddept"})
    /\ \/ \E t \in Free : Carry(h, Put(t, [Row("active") EXCEPT !.name = calls[h].act.arg]))
       \/ Free = {} /\ Decline(h)

UpdateDepartment(h) ==
    LET a == calls[h].act IN
    Due(h, {"editdept"}) /\ IF Exists(a.target) THEN Carry(h, Renamed(a.target, a.arg)) ELSE Decline(h)

DeleteDepartment(h) ==
    LET t == calls[h].act.target IN
    Due(h, {"deldept"}) /\ IF Exists(t) THEN Carry(h, Put(t, NoRow)) ELSE Decline(h)

DepartmentsNext ==
    \/ OpenDepartment \/ CloseDepartment \/ DepartmentForm \/ HandleSave
    \/ \E t \in Targets : ConfirmDelete(t)
    \/ \E h \in Slots : \/ DepartmentAnswered(h) \/ CreateDepartment(h) \/ UpdateDepartment(h)
                        \/ DeleteDepartment(h)

-----------------------------------------------------------------------------
(* peers.tsx.  The draft carries the request id of the Add-Peer session    *)
(* (requestIdRef), and the session it belongs to, for the property.        *)
NoPeer     == [name |-> None, id |-> 0, session |-> 0]
BlankPeers == [Blank EXCEPT !.draft = NoPeer, !.result = {}]

(* generateRequestId: no request so far carries it. *)
FreshId == asked + 1

PeersClear == On("peers") /\ view.rows # NoData /\ ui.modal = "none" /\ ui.result = {}

OpenAdd ==
    /\ PeersClear /\ Uses("addpeer")
    /\ Forget([ui EXCEPT !.modal = "add", !.target = None,
                         !.draft = [name |-> None, id |-> FreshId, session |-> FreshId]], {"addpeer"})

(* The dialog of the form, or of the link that took its place.             *)
CloseAdd ==
    /\ On("peers") /\ (ui.modal \in {"add", "edit"} \/ "link" \in ui.result)
    /\ Forget([ui EXCEPT !.modal  = IF @ = "confirm" THEN @ ELSE "none",
                         !.target = IF ui.modal = "confirm" THEN @ ELSE None,
                         !.result = @ \ {"link"}, !.draft.id = FreshId], {"addpeer"})

OpenEditPeer(t) ==
    /\ PeersClear /\ Seen(t) /\ ~Removed(t) /\ Uses("editpeer")
    /\ Do([ui EXCEPT !.modal = "edit", !.target = t, !.draft.name = view.rows[t].name])

PeerFormShown == On("peers") /\ ui.modal \in {"add", "edit"} /\ "link" \notin ui.result

PeerForm ==
    PeerFormShown /\ \E n \in Texts \ {ui.draft.name} : Do([ui EXCEPT !.draft.name = n])

(* Mutant of SubmitPeer: every attempt has a request id of its own.        *)
SubmitPeerAfresh ==
    /\ PeerFormShown /\ ui.draft.name # None /\ ~Pending("addpeer") /\ ~Pending("editpeer")
    /\ IF ui.modal = "edit" THEN Ask("editpeer", ui.target, ui.draft, ui)
       ELSE Ask("addpeer", None, [ui.draft EXCEPT !.id = FreshId], ui)

SubmitPeer ==
    /\ PeerFormShown /\ ui.draft.name # None /\ ~Pending("addpeer") /\ ~Pending("editpeer")
    /\ IF ui.modal = "edit" THEN Ask("editpeer", ui.target, ui.draft, ui)
       ELSE Ask("addpeer", None, ui.draft, ui)

PeerRowAction(t) ==
    /\ PeersClear /\ Seen(t) /\ ~Removed(t)
    /\ \/ \E op \in {"delpeer", "peerconfig"} : Ask(op, t, None, ui)
       \/ ~Pending("resendpeer") /\ Uses("resendpeer")
          /\ Do([ui EXCEPT !.modal = "confirm", !.target = t])

ConfirmResend ==
    /\ On("peers") /\ ui.modal = "confirm"
    /\ LET closed == [ui EXCEPT !.modal = "none", !.target = None] IN
       Do(closed) \/ Ask("resendpeer", ui.target, None, closed)

(* The code to scan and the link sent again, each in a dialog of its own.  *)
DismissPeerResult == On("peers") /\ "shown" \in ui.result /\ Do([ui EXCEPT !.result = @ \ {"shown"}])

(* A create that succeeded ends the session or shows its link (a replay    *)
(* has none); one that failed leaves the form open, with its request id.   *)
CreateSucceeded(link) ==
    LET done == [ui EXCEPT !.draft = [name |-> None, id |-> FreshId, session |-> @.session]] IN
    IF link THEN [done EXCEPT !.result = @ \cup {"link"}]
    ELSE [done EXCEPT !.modal = IF @ = "add" THEN "none" ELSE @]

PeerAnswered(h) ==
    LET a == calls[h].act IN
    \/ a.op = "addpeer" /\ calls[h].stage = "ok"
       /\ \E link \in BOOLEAN : Answer(h, CreateSucceeded(link), {"rows"})
    \/ a.op = "addpeer" /\ Fails(h, ui, {"rows"}) /\ UNCHANGED gateVars
    \/ a.op = "editpeer" /\ Answer(h, [ui EXCEPT !.modal = IF @ = "edit" THEN "none" ELSE @,
                                                 !.target = IF ui.modal = "edit" THEN None ELSE @], {"rows"})
    \/ a.op = "delpeer" /\ Answer(h, ui, {"rows"})
    \/ a.op \in {"resendpeer", "peerconfig"} /\ Answer(h, [ui EXCEPT !.result = @ \cup {"shown"}], {})

(* The server answers a request id it knows with the peer it has.          *)
PeerRow(d) == [status |-> "active", name |-> d.name, id |-> d.id, session |-> d.session]

CreatePeer(h) ==
    LET d == calls[h].act.arg IN
    /\ Due(h, {"addpeer"})
    /\ IF \E t \in Targets : truth.rows[t].id = d.id THEN Carry(h, truth)
       ELSE \/ \E t \in Free : Carry(h, Put(t, PeerRow(d)))
            \/ Free = {} /\ Decline(h)

UpdatePeer(h) == Due(h, {"editpeer"}) /\ Carry(h, Renamed(calls[h].act.target, calls[h].act.arg.name))

DeletePeer(h) == Due(h, {"delpeer"}) /\ Carry(h, WithStatus(calls[h].act.target, "removed"))

ReadPeerConfig(h) ==
    \/ Due(h, {"peerconfig"}) /\ Carry(h, truth)
    \/ /\ Due(h, {"resendpeer"})
       /\ IF truth.rows[calls[h].act.target].status = "active" THEN Carry(h, truth) ELSE Decline(h)

PeersNext ==
    \/ OpenAdd \/ CloseAdd \/ PeerForm \/ SubmitPeer \/ ConfirmResend \/ DismissPeerResult
    \/ \E t \in Targets : OpenEditPeer(t) \/ PeerRowAction(t)
    \/ \E h \in Slots : \/ PeerAnswered(h) \/ CreatePeer(h) \/ UpdatePeer(h) \/ DeletePeer(h)
                        \/ ReadPeerConfig(h)

-----------------------------------------------------------------------------
DirectoryNext ==
    \/ page = "users"       /\ UsersNext
    \/ page = "departments" /\ DepartmentsNext
    \/ page = "peers"       /\ PeersNext

=============================================================================
