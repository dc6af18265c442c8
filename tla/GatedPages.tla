----------------------------- MODULE GatedPages -----------------------------
(***************************************************************************)
(* The pages whose actions ask for a step-up: admins, servers, nodes and   *)
(* backups.  Offers(t) is what the buttons of row t let the user ask for.  *)
(***************************************************************************)
EXTENDS StepUp

GatedPageNames == {"admins", "servers", "nodes", "backups"}

-----------------------------------------------------------------------------
(* admins.tsx.  The role and the status are sent as the row shows them.    *)
AdminOffers(t) ==
    LET r == view.rows[t] IN
    IF r.status # "active" THEN {Act("status", t, [role |-> r.role, status |-> "active"])}
    ELSE {Act("password", t, None)}
      \cup (IF t = Self THEN {}
            ELSE {Act("status", t, [role |-> r.role, status |-> "disabled"])}
              \cup {Act("role", t, role) : role \in {"admin", "super_admin"} \ {r.role}}
              \cup (IF r.keyed THEN {Act("resetmfa", t, None)} ELSE {}))

AdminRowAction(t) ==
    /\ On("admins") /\ Seen(t) /\ ui.modal = "none"
    /\ \E a \in AdminOffers(t) : Gate(a, ui)

BeginEmailEdit(t) ==
    /\ On("admins") /\ Seen(t) /\ ui.modal = "none" /\ view.rows[t].status = "active"
    /\ Uses("email") /\ Do([ui EXCEPT !.target = t, !.draft = view.rows[t].name])

(* Enter commits whether or not an earlier change is still on its way; the *)
(* Save button, which is disabled meanwhile, adds nothing to it.           *)
CommitEmailEdit(t) ==
    /\ On("admins") /\ Seen(t) /\ ui.target = t /\ ui.modal = "none"
    /\ LET closed == [ui EXCEPT !.target = None] IN
       IF ui.draft = view.rows[t].name THEN Do(closed) ELSE Gate(Act("email", t, ui.draft), closed)

InviteAdmin ==
    /\ On("admins")
    /\ \/ ui.modal = "none" /\ Uses("inviteadmin") /\ Do([ui EXCEPT !.modal = "add"])
       \/ ui.modal = "add" /\ ~Pending("inviteadmin") /\ Ask("inviteadmin", None, "old", ui)

AdminSucceeded(a) ==
    IF a.op = "inviteadmin" THEN [ui EXCEPT !.modal = "none"]
    ELSE IF a.op = "email" THEN [ui EXCEPT !.target = None]
    ELSE ui

AdminOps == {"role", "status", "email", "password", "resetmfa", "inviteadmin"}
AdminAnswered(h) == calls[h].act.op \in AdminOps /\ Answer(h, AdminSucceeded(calls[h].act), {"rows"})

(* The server.  A field the request leaves out keeps its value.            *)
UpdateAdmin(h) ==
    LET a == calls[h].act
        r == truth.rows[a.target] IN
    \/ Due(h, {"role"}) /\ Carry(h, Put(a.target, [r EXCEPT !.role = a.arg]))
    \/ Due(h, {"status"})
       /\ Carry(h, Put(a.target, [r EXCEPT !.role = a.arg.role, !.status = a.arg.status]))
    \/ Due(h, {"email"}) /\ r.status = "active" /\ Carry(h, Renamed(a.target, a.arg))
    \/ Due(h, {"email"}) /\ r.status # "active" /\ Decline(h)

ResetAdminPassword(h) == Due(h, {"password"}) /\ Carry(h, truth)

ResetAdminMFA(h) ==
    LET t == calls[h].act.target IN
    Due(h, {"resetmfa"}) /\ Carry(h, Put(t, [truth.rows[t] EXCEPT !.keyed = FALSE]))

CreateAdmin(h) ==
    /\ Due(h, {"inviteadmin"})
    /\ \E t \in Free : Carry(h, Put(t, [Row("active") EXCEPT !.keyed = FALSE]))

AdminsNext ==
    \/ InviteAdmin
    \/ \E t \in Targets : AdminRowAction(t) \/ BeginEmailEdit(t) \/ CommitEmailEdit(t)
    \/ \E h \in Slots : \/ AdminAnswered(h) \/ UpdateAdmin(h) \/ ResetAdminPassword(h)
                        \/ ResetAdminMFA(h) \/ CreateAdmin(h)

-----------------------------------------------------------------------------
(* servers.tsx *)
OpenServerForm ==
    /\ On("servers") /\ view.rows # NoData /\ ui.modal = "none"
    /\ \/ Uses("addserver") /\ Do([ui EXCEPT !.modal = "form", !.target = None, !.draft = "old"])
       \/ Uses("saveserver") /\ \E t \in Targets :
             Seen(t) /\ Do([ui EXCEPT !.modal = "form", !.target = t, !.draft = view.rows[t].name])

SavePending == Pending("saveserver") \/ Pending("addserver")

SubmitServer ==
    /\ On("servers") /\ ui.modal = "form" /\ ~SavePending
    /\ IF ui.target = None THEN Ask("addserver", None, ui.draft, ui)
       ELSE Gate(Act("saveserver", ui.target, ui.draft), ui)

ServerRowAction(t) ==
    /\ On("servers") /\ Seen(t) /\ ui.modal = "none" /\ ui.result = None
    /\ \E op \in {"delserver", "hostsetup"} : Gate(Act(op, t, None), ui)

ServerSucceeded(a) ==
    IF a.op \in {"saveserver", "addserver"}
    THEN [ui EXCEPT !.modal = "none", !.target = None, !.draft = "old"]
    ELSE IF a.op = "hostsetup" THEN [ui EXCEPT !.result = a.target]
    ELSE ui

ServerOps == {"saveserver", "addserver", "delserver", "hostsetup"}
ServerAnswered(h) ==
    /\ calls[h].act.op \in ServerOps
    /\ Answer(h, ServerSucceeded(calls[h].act),
              IF calls[h].act.op = "hostsetup" THEN {} ELSE {"rows"})

UpdateServer(h) ==
    LET a == calls[h].act IN
    /\ Due(h, {"saveserver"})
    /\ IF Exists(a.target) THEN Carry(h, Renamed(a.target, a.arg)) ELSE Decline(h)

CreateServer(h) ==
    /\ Due(h, {"addserver"})
    /\ \/ \E t \in Free : Carry(h, Put(t, [Row("active") EXCEPT !.name = calls[h].act.arg]))
       \/ Free = {} /\ Decline(h)

DeleteServer(h) ==
    LET t == calls[h].act.target IN
    Due(h, {"delserver"}) /\ IF Exists(t) THEN Carry(h, Put(t, NoRow)) ELSE Decline(h)

GetServerHostConfig(h) ==
    Due(h, {"hostsetup"}) /\ IF Exists(calls[h].act.target) THEN Carry(h, truth) ELSE Decline(h)

ServersNext ==
    \/ OpenServerForm \/ SubmitServer
    \/ \E t \in Targets : ServerRowAction(t)
    \/ \E h \in Slots : \/ ServerAnswered(h) \/ UpdateServer(h) \/ CreateServer(h)
                        \/ DeleteServer(h) \/ GetServerHostConfig(h)

-----------------------------------------------------------------------------
(* nodes.tsx.  A new token is shown once, in the dialog of the form.       *)
NodeForm ==
    /\ On("nodes")
    /\ \/ ui.modal = "none" /\ ui.result = None /\ Uses("addnode")
          /\ Do([ui EXCEPT !.modal = "form"])
       \/ /\ ui.modal = "form" /\ ui.result = None /\ ~Pending("addnode")
          /\ Ask("addnode", None, "old", ui)

NodeRowAction(t) ==
    /\ On("nodes") /\ Seen(t) /\ ui.modal = "none" /\ ui.result = None
    /\ \E op \in {"delnode", "rotate"} : Gate(Act(op, t, None), ui)

NodeSucceeded(a) ==
    IF a.op = "delnode" THEN ui ELSE [ui EXCEPT !.result = IF a.op = "rotate" THEN a.target ELSE "new"]

NodeOps == {"addnode", "delnode", "rotate"}
NodeAnswered(h) ==
    /\ calls[h].act.op \in NodeOps
    /\ Answer(h, NodeSucceeded(calls[h].act), IF calls[h].act.op = "rotate" THEN {} ELSE {"rows"})

CreateNode(h) ==
    /\ Due(h, {"addnode"})
    /\ \/ \E t \in Free : Carry(h, Put(t, Row("active")))
       \/ Free = {} /\ Decline(h)

RotateNodeToken(h) ==
    Due(h, {"rotate"}) /\ IF Exists(calls[h].act.target) THEN Carry(h, truth) ELSE Decline(h)

DeleteNode(h) ==
    LET t == calls[h].act.target IN
    Due(h, {"delnode"}) /\ IF Exists(t) THEN Carry(h, Put(t, NoRow)) ELSE Decline(h)

NodesNext ==
    \/ NodeForm
    \/ \E t \in Targets : NodeRowAction(t)
    \/ \E h \in Slots : NodeAnswered(h) \/ CreateNode(h) \/ RotateNodeToken(h) \/ DeleteNode(h)

-----------------------------------------------------------------------------
(* backups.tsx.  Several rows share the button state of one mutation.      *)
CreateBackup ==
    On("backups") /\ ~Pending("addbackup") /\ Ask("addbackup", None, None, ui)

PickFile ==
    On("backups") /\ ~Pending("upload") /\ Gate(Act("upload", None, None), ui)

BackupRowAction(t) ==
    /\ On("backups") /\ Seen(t)
    /\ \/ ~Pending("restore") /\ \E op \in {"download", "restore"} : Gate(Act(op, t, None), ui)
       \/ Gate(Act("delbackup", t, None), ui)

BackupOps == {"addbackup", "upload", "download", "restore", "delbackup"}
BackupAnswered(h) ==
    /\ calls[h].act.op \in BackupOps
    /\ Answer(h, ui, IF calls[h].act.op = "download" THEN {} ELSE {"rows"})

WriteBackup(h) ==
    /\ Due(h, {"addbackup"})
    /\ \/ \E t \in Free : Carry(h, Put(t, Row("active")))
       \/ Free = {} /\ Decline(h)

(* Neither changes the files; a restore replaces the database.             *)
ReadBackup(h) ==
    \/ Due(h, {"upload"}) /\ Carry(h, truth)
    \/ /\ Due(h, {"download", "restore"})
       /\ IF Exists(calls[h].act.target) THEN Carry(h, truth) ELSE Decline(h)

RemoveBackup(h) ==
    LET t == calls[h].act.target IN
    Due(h, {"delbackup"}) /\ IF Exists(t) THEN Carry(h, Put(t, NoRow)) ELSE Decline(h)

BackupsNext ==
    \/ CreateBackup \/ PickFile
    \/ \E t \in Targets : BackupRowAction(t)
    \/ \E h \in Slots : BackupAnswered(h) \/ WriteBackup(h) \/ ReadBackup(h) \/ RemoveBackup(h)

-----------------------------------------------------------------------------
(* The text of an open form, and the forms Escape or Cancel closes.  The    *)
(* inline editor of the admins page is no modal: it closes on its own.     *)
EditText ==
    /\ page \in {"admins", "servers"} /\ On(page)
    /\ IF page = "admins" THEN ui.target # None ELSE ui.modal = "form"
    /\ \E n \in Texts \ {ui.draft} : Do([ui EXCEPT !.draft = n])

CancelEmailEdit == On("admins") /\ ui.target # None /\ Do([ui EXCEPT !.target = None])

Escaped == [ui EXCEPT !.modal = "none", !.result = None,
                      !.target = IF page = "admins" THEN @ ELSE None]

GatedNext ==
    \/ page = "admins"  /\ (AdminsNext \/ CancelEmailEdit \/ EditText)
    \/ page = "servers" /\ (ServersNext \/ EditText)
    \/ page = "nodes"   /\ NodesNext
    \/ page = "backups" /\ BackupsNext

=============================================================================
