------------------------------ MODULE RulesPages ------------------------------
(***************************************************************************)
(* domain-rules.tsx and ip-rules.tsx: blocking rules for everyone, for a   *)
(* user or some of the user's peers, or for a department, and the groups   *)
(* of targets a rule may name.  The domain page keeps more of a form that  *)
(* was left than the other.                                                *)
(*                                                                         *)
(* truth.rows are the rules, truth.groups the groups; a user is a member   *)
(* of Targets and has one peer, which goes by the user's name.             *)
(***************************************************************************)
EXTENDS StepUp

RulePages == {"domain-rules", "ip-rules"}
Keeps     == page = "domain-rules"
OnRules   == page \in RulePages /\ On(page)
Scopes    == {"global", "user", "department"}

(* The form, which is also what a request carries.                         *)
NoRule ==
    [scope |-> "global", user |-> None, peers |-> {}, dept |-> None,
     target |-> "text", group |-> None, text |-> None]
NoGroup    == [status |-> "none", name |-> "old", used |-> 0]
BlankRules == [Blank EXCEPT !.draft = NoRule]

RulesClear == OnRules /\ view.rows # NoData /\ ui.modal = "none"
RuleForm   == OnRules /\ ui.modal = "add"
Edited(d)  == Forget([ui EXCEPT !.draft = d], {"addrule"})

-----------------------------------------------------------------------------
(* The form of a rule.                                                     *)
OpenAddModal ==
    /\ RulesClear /\ Uses("addrule")
    /\ Forget([ui EXCEPT !.modal = "add",
                         !.draft = IF Keeps THEN [@ EXCEPT !.target = "text", !.group = None, !.peers = {}]
                                   ELSE NoRule], {"addrule"})

CloseAddModal == RuleForm /\ Forget([ui EXCEPT !.modal = "none"], {"addrule"})

ChooseScope ==
    /\ RuleForm
    /\ \E s \in Scopes \ {ui.draft.scope} :
          Edited([ui.draft EXCEPT !.scope = s, !.user = None, !.peers = {}, !.dept = None])

(* Mutant of ChooseUser: the boxes ticked for another user stay ticked.    *)
ChooseUserOnly ==
    /\ RuleForm /\ ui.draft.scope = "user"
    /\ \E u \in Targets \ {ui.draft.user} : Edited([ui.draft EXCEPT !.user = u])

ChooseUser ==
    /\ RuleForm /\ ui.draft.scope = "user"
    /\ \E u \in Targets \ {ui.draft.user} : Edited([ui.draft EXCEPT !.user = u, !.peers = {}])

(* The boxes of the chosen user's peers; ticking one resets nothing.       *)
TickPeer ==
    /\ RuleForm /\ ui.draft.scope = "user" /\ ui.draft.user # None
    /\ \E peers \in SUBSET {ui.draft.user} :
          peers # ui.draft.peers /\ Do([ui EXCEPT !.draft.peers = peers])

ChooseDepartment ==
    /\ RuleForm /\ ui.draft.scope = "department" /\ ui.draft.dept = None
    /\ Edited([ui.draft EXCEPT !.dept = "department"])

ChooseTarget ==
    /\ RuleForm
    /\ \E k \in {"text", "group"} \ {ui.draft.target} :
          Edited([ui.draft EXCEPT !.target = k, !.group = IF Keeps THEN @ ELSE None])

TypeTarget ==
    /\ RuleForm
    /\ \/ ui.draft.target = "text" /\ ui.draft.text = None /\ Edited([ui.draft EXCEPT !.text = "old"])
       \/ /\ ui.draft.target = "group" /\ view.groups # NoData
          /\ \E g \in Targets \ {ui.draft.group} :
                view.groups[g].status # "none" /\ Edited([ui.draft EXCEPT !.group = g])

CanSubmit(d) ==
    /\ IF d.target = "group" THEN d.group # None ELSE d.text # None
    /\ d.scope = "user" => d.user # None
    /\ d.scope = "department" => d.dept # None

(* What handleAdd makes of the form, and what the form shows by then.      *)
RuleOf(d) ==
    [d EXCEPT !.user  = IF d.scope = "user" THEN @ ELSE None,
              !.peers = IF d.scope = "user" /\ d.user # None THEN @ ELSE {},
              !.dept  = IF d.scope = "department" THEN @ ELSE None,
              !.group = IF d.target = "group" THEN @ ELSE None,
              !.text  = IF d.target = "text" THEN @ ELSE None]

HandleAdd ==
    /\ RuleForm /\ CanSubmit(ui.draft) /\ ~Pending("addrule")
    /\ Ask("addrule", None, RuleOf(ui.draft), ui)

DeleteRule(t) == RulesClear /\ Seen(t) /\ Ask("delrule", t, None, ui)

RuleAdded ==
    [ui EXCEPT !.modal = IF @ = "add" THEN "none" ELSE @,
               !.draft = [NoRule EXCEPT !.scope = IF Keeps THEN ui.draft.scope ELSE "global"]]

RuleAnswered(h) ==
    \/ calls[h].act.op = "addrule" /\ Answer(h, RuleAdded, {"rows", "groups"})
    \/ calls[h].act.op = "delrule" /\ Answer(h, ui, {"rows", "groups"})

-----------------------------------------------------------------------------
(* The dialog of a group.                                                  *)
SaveGroup    == {"addgroup", "editgroup"}
GroupName    == ui.result   \* the text in the dialog
GroupSeen(g) == OnRules /\ view.groups # NoData /\ view.groups[g].status # "none" /\ ui.modal = "none"

OpenGroupModal ==
    /\ OnRules /\ view.groups # NoData /\ ui.modal = "none"
    /\ \/ Uses("addgroup") /\ Forget([ui EXCEPT !.modal = "group", !.target = None, !.result = None], SaveGroup)
       \/ Uses("editgroup") /\ \E g \in Targets : GroupSeen(g)
             /\ Forget([ui EXCEPT !.modal = "group", !.target = g, !.result = view.groups[g].name], SaveGroup)

CloseGroupModal ==
    /\ OnRules /\ ui.modal = "group"
    /\ Forget([ui EXCEPT !.modal = "none", !.target = None], SaveGroup)

GroupForm ==
    /\ OnRules /\ ui.modal = "group"
    /\ \E n \in Texts \ {GroupName} : Forget([ui EXCEPT !.result = n], SaveGroup)

HandleSaveGroup ==
    /\ OnRules /\ ui.modal = "group" /\ GroupName # None
    /\ ~Pending("addgroup") /\ ~Pending("editgroup")
    /\ IF ui.target = None THEN Ask("addgroup", None, GroupName, ui)
       ELSE Ask("editgroup", ui.target, GroupName, ui)

ConfirmDeleteGroup(g) == GroupSeen(g) /\ Ask("delgroup", g, None, ui)

GroupAnswered(h) ==
    \/ calls[h].act.op \in SaveGroup
       /\ Answer(h, [ui EXCEPT !.modal = IF @ = "group" THEN "none" ELSE @, !.target = None], {"rows", "groups"})
    \/ calls[h].act.op = "delgroup" /\ Answer(h, ui, {"rows", "groups"})

-----------------------------------------------------------------------------
(* The server.  A group counts the rules that name it, and takes them      *)
(* with it when it is deleted; peers must belong to the user of the rule.  *)
RuleRow(d) == [status |-> "active", rule |-> d]

Counted(rules, groups) ==
    [truth EXCEPT !.rows   = rules,
                  !.groups = [g \in Targets |-> [groups[g] EXCEPT !.used =
                      Cardinality({t \in Targets : rules[t].status # "none" /\ rules[t].rule.group = g})]]]

GroupExists(g) == truth.groups[g].status # "none"
Stored(d)      == \E t \in Targets : truth.rows[t] = RuleRow(d)
PeersOwned(d)  == d.peers = {} \/ (d.scope = "user" /\ d.peers \subseteq {d.user})

CreateRule(h) ==
    LET d == calls[h].act.arg IN
    /\ Due(h, {"addrule"})
    /\ IF PeersOwned(d) /\ (d.target = "group" => GroupExists(d.group)) /\ ~Stored(d)
       THEN \/ \E t \in Free : Carry(h, Counted([truth.rows EXCEPT ![t] = RuleRow(d)], truth.groups))
            \/ Free = {} /\ Decline(h)
       ELSE Decline(h)

(* The domain page's handler does not look whether the rule was there.     *)
DropRule(h) ==
    LET t == calls[h].act.target IN
    /\ Due(h, {"delrule"})
    /\ IF Keeps \/ Exists(t) THEN Carry(h, Counted([truth.rows EXCEPT ![t] = NoRow], truth.groups))
       ELSE Decline(h)

CreateGroup(h) ==
    /\ Due(h, {"addgroup"})
    /\ LET free == {g \in Targets : ~GroupExists(g)} IN
       \/ \E g \in free : Carry(h, [truth EXCEPT !.groups[g] =
                                       [NoGroup EXCEPT !.status = "active", !.name = calls[h].act.arg]])
       \/ free = {} /\ Decline(h)

UpdateGroup(h) ==
    LET a == calls[h].act IN
    /\ Due(h, {"editgroup"})
    /\ IF GroupExists(a.target) THEN Carry(h, [truth EXCEPT !.groups[a.target].name = a.arg]) ELSE Decline(h)

DeleteGroup(h) ==
    LET g == calls[h].act.target
        left == [t \in Targets |-> IF Exists(t) /\ truth.rows[t].rule.group = g THEN NoRow ELSE truth.rows[t]] IN
    /\ Due(h, {"delgroup"})
    /\ IF GroupExists(g) THEN Carry(h, Counted(left, [truth.groups EXCEPT ![g] = NoGroup])) ELSE Decline(h)

-----------------------------------------------------------------------------
RulesNext ==
    /\ page \in RulePages
    /\ \/ OpenAddModal \/ CloseAddModal \/ ChooseScope \/ ChooseUser \/ TickPeer \/ ChooseDepartment
       \/ ChooseTarget \/ TypeTarget \/ HandleAdd
       \/ OpenGroupModal \/ CloseGroupModal \/ GroupForm \/ HandleSaveGroup
       \/ \E t \in Targets : DeleteRule(t) \/ ConfirmDeleteGroup(t)
       \/ \E h \in Slots : \/ RuleAnswered(h) \/ GroupAnswered(h)
                           \/ CreateRule(h) \/ DropRule(h)
                           \/ CreateGroup(h) \/ UpdateGroup(h) \/ DeleteGroup(h)

=============================================================================
