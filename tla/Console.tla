------------------------------- MODULE Console -------------------------------
(***************************************************************************)
(* The console in the browser of one administrator: one of its pages, the  *)
(* query cache, the step-up gate and the requests in flight, against the   *)
(* server's handlers and what other administrators do meanwhile.           *)
(***************************************************************************)
EXTENDS GatedPages, ProfilePage, DirectoryPages, RulesPages, SettingsPages

vars == <<pageVars, gateVars>>

GatePages == GatedPageNames \cup {"profile", "security"}

BlankPage ==
    IF page = "users" THEN BlankUsers
    ELSE IF page = "peers" THEN BlankPeers
    ELSE IF page \in RulePages THEN BlankRules
    ELSE IF page \in SettingsPageNames THEN BlankSettings
    ELSE Blank

(* The lists at the start: the row Self, and plan.others for the others.   *)
StartRow(t) ==
    LET status == IF t = Self /\ page # "peers" THEN "active" ELSE plan.others IN
    IF page = "peers" THEN [PeerRow(NoPeer) EXCEPT !.name = "old", !.status = status]
    ELSE IF page \in RulePages /\ status # "none"
    THEN RuleRow([NoRule EXCEPT !.target = "group", !.group = Self])
    ELSE IF page = "admins" /\ t = Self THEN [Row(status) EXCEPT !.role = "super_admin"]
    ELSE Row(status)

StartLists ==
    LET rows == [t \in Targets |-> StartRow(t)] IN
    IF page \in SettingsPageNames THEN {StartSettings}
    ELSE IF page = "profile"
    THEN {[rows |-> rows, mfa |-> [totp |-> totp, keys |-> {Self}, codes |-> TRUE]] : totp \in BOOLEAN}
    ELSE IF page \in RulePages
    THEN {[rows |-> rows,
           groups |-> [g \in Targets |->
               IF g # Self THEN NoGroup
               ELSE [NoGroup EXCEPT !.status = "active",
                                    !.used = Cardinality({t \in Targets : rows[t].status # "none"})]]]}
    ELSE {[rows |-> rows]}

Init ==
    /\ plan \in Plans
    /\ shown = TRUE
    /\ truth \in StartLists
    /\ view = [k \in Lists |-> NoData] /\ ui = BlankPage /\ fetch = [k \in Lists |-> Asked]
    /\ calls = [h \in Slots |-> NoCall]
    /\ asked = 0 /\ mishaps = 0 /\ doubt = {}
    /\ window \in (IF page \in GatePages \ {"security"} THEN BOOLEAN ELSE {FALSE}) /\ grace \in {FALSE, window}
    /\ dialog = Closed /\ ceremony = NoCeremony
    /\ stamp = FALSE /\ stamps = 0 /\ redeemed = 0

(* What another administrator, or another session, may change.             *)
Elsewhere(t) ==
    IF page \in SettingsPageNames
    THEN {[truth EXCEPT ![ListOf(f)] = [@ EXCEPT ![f] = "new"]] : f \in DOMAIN BlankSettings.draft \ {"minutes"}}
    ELSE IF page = "admins"
    THEN {Put(t, [truth.rows[t] EXCEPT !.role = "super_admin"]), WithStatus(t, "disabled")}
    ELSE IF page \in {"users", "peers"} THEN {WithStatus(t, "removed")}
    ELSE IF page \in RulePages THEN {Counted([truth.rows EXCEPT ![t] = NoRow], truth.groups)}
    ELSE IF page = "profile" /\ t = Self THEN {}
    ELSE {Put(t, NoRow), Put(t, Row("active"))}

Others ==
    \E t \in Targets : \E lists \in Elsewhere(t) : lists # truth /\ Outsider(lists) /\ UNCHANGED gateVars

(* The lists with a refetchInterval.                                       *)
Polled == IF page \in {"nodes", "peers", "profile"} THEN {"rows"} ELSE {}

Arriving(k) == IF page \in SettingsPageNames THEN SettingsShown(k) ELSE ui

ReadList(k)  == (ServeList(k) \/ ListArrives(k, Arriving(k))) /\ UNCHANGED gateVars
PollList(k)  == k \in Polled /\ Poll(k) /\ UNCHANGED gateVars

Network ==
    \/ \E k \in Lists : ReadList(k) \/ PollList(k) \/ (ListFails(k) /\ UNCHANGED gateVars)
    \/ \E h \in Slots : (Refuse(h) \/ LoseAnswer(h)) /\ UNCHANGED gateVars

Dialog ==
    \/ SubmitCode \/ UsePasskey \/ CloseDialog
    \/ page \in GatePages /\ Escape(IF page = "security" THEN ui ELSE Escaped)
    \/ StampSession \/ CeremonyFails \/ RunHeldAction \/ ProofExpires
    \/ \E h \in Slots : CheckProof(h) \/ RedirectToLogin(h, BlankPage)

Navigate == Leave(BlankPage) \/ (Mount(BlankPage) /\ UNCHANGED gateVars)

Next == GatedNext \/ ProfileNext \/ DirectoryNext \/ RulesNext \/ SettingsNext
        \/ Dialog \/ Network \/ Navigate \/ Others

Spec == Init /\ [][Next]_vars

(* The server answers, answers arrive, and the timer of a list fires.      *)
Fairness == WF_vars(\E k \in Lists : ReadList(k)) /\ WF_vars(\E k \in Lists : PollList(k))

FairSpec == Spec /\ Fairness

-----------------------------------------------------------------------------
Flying == {h \in Slots : calls[h] # NoCall}

CTypeOK ==
    /\ plan \in Plans /\ shown \in BOOLEAN /\ doubt \subseteq Lists
    /\ asked \in 0..plan.calls /\ mishaps \in 0..plan.mishaps
    /\ \A k \in Lists : fetch[k].at \in {"idle", "asked", "read"}
    /\ "rows" \in Lists => \A t \in Targets : truth.rows[t].status \in Statuses
    /\ \A h \in Flying : /\ calls[h].via \in {"plain", "probe", "dialog"}
                         /\ calls[h].proof \in {"none", "right", "wrong"}
                         /\ calls[h].stage \in {"sent", "checked", "allowed", "prompt", "finish",
                                               "ok", "error", "lost", "mfa", "denied"}
    /\ dialog.busy \in {"no", "code", "passkey"} /\ ceremony.at \in {"none", "prompt", "stamped"}
    /\ {window, grace, stamp} \subseteq BOOLEAN /\ stamps \in 0..MaxStamps

(* A list no fetch is under way for, with no request out, shows what the   *)
(* server has: every mutation reads the lists it changes anew, and drops   *)
(* the fetch that was in flight.  (Unless others changed it or a fetch     *)
(* failed since it was read; the profile page does not read everything.)   *)
Unread == IF page = "profile"
          THEN (IF "newcodes" \in plan.uses THEN {"mfa"} ELSE {})
            \cup (IF plan.uses \cap {"totpfinish", "deltotp", "delkey", "passwd"} # {} THEN {"rows"} ELSE {})
          ELSE {}

SettledListIsTrue ==
    (shown /\ Flying = {}) =>
        \A k \in Lists \ (doubt \cup Unread) : fetch[k] = Idle => view[k] = truth[k]

(* What is sent out of the dialog is what the dialog asked for: no click   *)
(* confirms another action, whichever probe or ceremony ends meanwhile.    *)
(* (A saved server is the form's at the time it is sent.)                  *)
ConfirmedActsAsNamed ==
    \A h \in Flying :
        calls[h].via = "dialog" /\ calls[h].named.op # "saveserver" => calls[h].act = calls[h].named

(* A passkey ceremony proves one action, whatever else is in flight.       *)
OneProofOneAction == redeemed <= stamps

(* A dialog that waits has something to wait for: it can be used or closed *)
(* again, however its request or its ceremony ends.                        *)
BusyDialogIsFreed ==
    dialog.busy # "no" =>
        \/ \E h \in Flying : calls[h].via = "dialog" /\ calls[h].here
        \/ dialog.busy = "passkey" /\ ceremony.at # "none" /\ ceremony.here

(* One form sends one request at a time, so that the last one typed is the *)
(* one that stays.  (Users, departments and rules forget theirs; the email *)
(* editor of the admins page does not wait: Enter sends another.)          *)
OneAtATime == {"inviteadmin", "addnode", "addbackup", "upload", "totpfinish", "passwd",
               "revokeothers", "inviteuser", "editpeer", "savesmtp", "testsmtp", "savezone", "savetemplate"}
SavesServer == {"addserver", "saveserver"}

OneSaveAtATime ==
    \A g, h \in Flying :
        LET one == calls[g].act.op
            two == calls[h].act.op IN
        /\ g # h /\ calls[g].here /\ calls[h].here
        => ~(one = two /\ one \in OneAtATime) /\ ~({one, two} \subseteq SavesServer)

(* A request that was reset, or answered late, closes the form that is     *)
(* open by then as a whole or leaves it alone: while a form stays open, it *)
(* never turns to another row, nor an edit into something new.  (The       *)
(* inline editor of the admins page is no form of this kind.)              *)
RowForms == {"servers", "users", "departments", "peers"} \cup RulePages

FormKeepsItsRow ==
    [][shown /\ shown' /\ page \in RowForms /\ ui.modal # "none" /\ ui'.modal = ui.modal
       => ui'.target = ui.target]_vars

(* One Add-Peer session makes one peer, however often it is sent again     *)
(* after an answer was lost.                                               *)
OnePeerPerSession ==
    page = "peers" =>
        \A s, t \in Targets :
            truth.rows[s].session = truth.rows[t].session /\ truth.rows[s].session # 0 => s = t

(* A rule that is asked for has what its scope needs and nothing of a      *)
(* choice that was made before: the peers are those of its user.           *)
RuleNamesItsOwn ==
    \A h \in Flying : calls[h].act.op = "addrule" =>
        LET d == calls[h].act.arg IN
        /\ PeersOwned(d) /\ (d.user = None \/ d.dept = None)
        /\ d.scope = "user" => d.user # None
        /\ d.scope = "department" => d.dept # None
        /\ (d.group = None) # (d.text = None)

(* What was typed into a mail template is changed by typing only, for as   *)
(* long as the tab is there: not by the choice of another, nor by the      *)
(* templates that are read anew when one of them was saved.                *)
TypedTextStays ==
    [][page = "templates" /\ shown /\ shown' /\ ~EditSetting
       => \A t \in Targets : ui.draft[t] \in {None, ui'.draft[t]}]_vars

(* A list with a timer catches up with what changed elsewhere, after       *)
(* fetches that failed and on a page that was left and entered again.      *)
PolledListConverges == <>[](shown => \A k \in Polled : view[k] = truth[k])

=============================================================================
