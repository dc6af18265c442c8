----------------------------- MODULE SettingsPages -----------------------------
(***************************************************************************)
(* config.tsx: the tabs of the settings, each a page here, as a tab that is *)
(* not selected is unmounted.  A list is the settings one query reads, a    *)
(* function of their names; ui.draft is what the forms of the tab show.     *)
(* The sections of the security tab each have a dialog of their own, one of *)
(* which is open at a time; two of them, lockout and expiry, are half of    *)
(* one row of the server's each, and each saves the whole row.              *)
(*                                                                          *)
(* The administrator is a super_admin; a form whose settings could not be   *)
(* read is not used, and the mail password, which is never read, left out.  *)
(***************************************************************************)
EXTENDS StepUp

SettingsPageNames == {"smtp", "templates", "timezone", "security"}

StartSettings ==
    IF page = "security"
    THEN [stepup   |-> [minutes |-> "old"], policy |-> [methods |-> "old"],
          security |-> [lockout |-> "old", expiry |-> "old"]]
    ELSE IF page = "templates" THEN [templates |-> [t \in Targets |-> "old"]]
    ELSE IF page = "smtp" THEN [smtp |-> [host |-> "old"]]
    ELSE [zone |-> [timezone |-> "old"]]

ListOf(f) == CHOOSE k \in Lists : f \in DOMAIN truth[k]

(* A tab that opens takes its draft from what was read before.             *)
BlankSettings ==
    [Blank EXCEPT !.target = IF page = "templates" THEN Self ELSE None,
                  !.draft = [f \in UNION {DOMAIN truth[k] : k \in Lists} |->
                                IF view[ListOf(f)] = NoData THEN None ELSE view[ListOf(f)][f]]]

(* Mutant of SettingsShown: a template is treated like the rest.           *)
SettingsOverwritten(k) ==
    IF ~shown \/ fetch[k].got = view[k] THEN ui
    ELSE [ui EXCEPT !.draft = [f \in DOMAIN @ |-> IF f \in DOMAIN fetch[k].got THEN fetch[k].got[f] ELSE @[f]]]

(* The effects of a list that arrives changed: its part of the draft is    *)
(* overwritten, typed in or not; but the draft of a template is kept.      *)
SettingsShown(k) ==
    LET got == fetch[k].got
        replaced(f) == f \in DOMAIN got /\ (page = "templates" => ui.draft[f] = None) IN
    IF ~shown \/ got = view[k] THEN ui
    ELSE [ui EXCEPT !.draft = [f \in DOMAIN @ |-> IF replaced(f) THEN got[f] ELSE @[f]]]

-----------------------------------------------------------------------------
(* The forms.                                                              *)
Setting == [savesmtp |-> "host", savezone |-> "timezone", savestepup |-> "minutes",
            savepolicy |-> "methods", savelockout |-> "lockout", saveexpiry |-> "expiry"]

FormOf(op) == IF op = "savetemplate" THEN ui.target ELSE IF op = "testsmtp" THEN "host" ELSE Setting[op]

OnForm(op) == page \in SettingsPageNames /\ On(page) /\ Uses(op) /\ view[ListOf(FormOf(op))] # NoData
Dirty(f)   == ui.draft[f] # view[ListOf(f)][f]

EditSetting ==
    \E op \in DOMAIN Setting \cup {"savetemplate"} :
        /\ OnForm(op)
        /\ \E n \in Texts \ {ui.draft[FormOf(op)]} : Do([ui EXCEPT !.draft = [@ EXCEPT ![FormOf(op)] = n]])

ChooseTemplate ==
    OnForm("savetemplate") /\ \E t \in Targets \ {ui.target} : Do([ui EXCEPT !.target = t])

SaveSMTP ==
    OnForm("savesmtp") /\ ~Pending("savesmtp") /\ Ask("savesmtp", "host", [host |-> ui.draft.host], ui)

TestSMTP == OnForm("testsmtp") /\ ~Pending("testsmtp") /\ Ask("testsmtp", None, None, ui)

(* What was typed, or no timezone: the browser's.                          *)
SaveTimezone ==
    /\ OnForm("savezone") /\ ~Pending("savezone")
    /\ \E z \in {ui.draft.timezone, None} :
          /\ z # view[ListOf("timezone")].timezone
          /\ Ask("savezone", "timezone", [timezone |-> z], ui)

SaveTemplate ==
    /\ OnForm("savetemplate") /\ Dirty(ui.target) /\ ~Pending("savetemplate")
    /\ Ask("savetemplate", ui.target, ui.draft[ui.target], ui)

(* What is saved is captured when the dialog opens: of the row of lockout  *)
(* and expiry one half from the draft, the other as it was read last.      *)
SaveSection(op) ==
    LET f == Setting[op] IN
    /\ OnForm(op) /\ Dirty(f)
    /\ Confirm(Act(op, f, [view[ListOf(f)] EXCEPT ![f] = ui.draft[f]]))

SaveStepUp  == SaveSection("savestepup")
SavePolicy  == SaveSection("savepolicy")
SaveLockout == SaveSection("savelockout")
SaveExpiry  == SaveSection("saveexpiry")

SettingsAnswered(h) ==
    LET a == calls[h].act IN
    \/ a.op = "testsmtp" /\ Answer(h, ui, {})
    \/ a.op \in DOMAIN Setting \cup {"savetemplate"} /\ Answer(h, ui, {ListOf(a.target)})

-----------------------------------------------------------------------------
(* The server. *)
UpdateSMTPConfig(h)     == Due(h, {"savesmtp"}) /\ Carry(h, [truth EXCEPT !.smtp = calls[h].act.arg])
SendTestEmail(h)        == Due(h, {"testsmtp"}) /\ Carry(h, truth)
UpdateTimezoneConfig(h) == Due(h, {"savezone"}) /\ Carry(h, [truth EXCEPT !.zone = calls[h].act.arg])

UpdateEmailTemplate(h) ==
    LET a == calls[h].act IN
    Due(h, {"savetemplate"}) /\ Carry(h, [truth EXCEPT !.templates[a.target] = a.arg])

(* "old" asks for a proof every time, "new" has a window.                  *)
UpdateStepUpConfig(h) ==
    /\ Due(h, {"savestepup"})
    /\ Commit(h, [truth EXCEPT !.stepup = calls[h].act.arg])
    /\ window' = (calls[h].act.arg.minutes = "new")
    /\ UNCHANGED <<dialog, ceremony, proofVars>>

UpdateMFAPolicyConfig(h) == Due(h, {"savepolicy"}) /\ Carry(h, [truth EXCEPT !.policy = calls[h].act.arg])

UpdateSecurityConfig(h) ==
    Due(h, {"savelockout", "saveexpiry"}) /\ Carry(h, [truth EXCEPT !.security = calls[h].act.arg])

SettingsNext ==
    /\ page \in SettingsPageNames
    /\ \/ EditSetting \/ ChooseTemplate \/ SaveSMTP \/ TestSMTP \/ SaveTimezone \/ SaveTemplate
       \/ SaveStepUp \/ SavePolicy \/ SaveLockout \/ SaveExpiry
       \/ \E h \in Slots :
             \/ SettingsAnswered(h)
             \/ UpdateSMTPConfig(h) \/ SendTestEmail(h) \/ UpdateTimezoneConfig(h) \/ UpdateEmailTemplate(h)
             \/ UpdateStepUpConfig(h) \/ UpdateMFAPolicyConfig(h) \/ UpdateSecurityConfig(h)

=============================================================================
