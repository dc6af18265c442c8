----------------------------- MODULE ProfilePage -----------------------------
(***************************************************************************)
(* profile.tsx with ActiveSessions: the administrator's password, factors, *)
(* recovery codes and sessions.  truth.mfa is what /api/admins/me/mfa      *)
(* reports, truth.rows the sessions; the row Self is this session.         *)
(***************************************************************************)
EXTENDS StepUp

Factors == [totp : BOOLEAN, keys : SUBSET Targets, codes : BOOLEAN]

HasStatus == shown /\ view.mfa # NoData

-----------------------------------------------------------------------------
(* The page.  Every change of a factor opens the dialog; none is tried     *)
(* without a proof first.                                                  *)
ProfileOffers ==
    {Act("addkey", t, None) : t \in Targets \ view.mfa.keys}
      \cup (IF view.mfa.totp THEN {Act("deltotp", None, None)} ELSE {Act("addtotp", None, None)})
      \cup {Act("delkey", t, None) : t \in view.mfa.keys}
      \cup {Act("newcodes", None, None)}

StartFactorAction ==
    /\ On("profile") /\ HasStatus /\ ui.modal = "none"
    /\ \E a \in ProfileOffers : Confirm(a)

VerifyTOTPEnrollment ==
    /\ On("profile") /\ ui.modal = "totp" /\ ~Pending("totpfinish")
    /\ \E code \in {"right", "wrong"} : Ask("totpfinish", None, code, ui)

(* The codes are shown once; the button needs the acknowledgement, Escape  *)
(* and the backdrop do not.                                                *)
DismissCodes == On("profile") /\ ui.modal = "codes" /\ Do([ui EXCEPT !.modal = "none"])

ChangePassword ==
    /\ On("profile") /\ ui.modal = "none" /\ ~Pending("passwd")
    /\ \E pw \in {"right", "wrong"} : Ask("passwd", None, pw, ui)

RevokeSession(t) ==
    /\ On("profile") /\ Seen(t) /\ t # Self /\ ui.modal = "none"
    /\ ~Pending("revoke") /\ Ask("revoke", t, None, ui)

RevokeOthers ==
    /\ On("profile") /\ (\E t \in Targets \ {Self} : Seen(t)) /\ ui.modal = "none"
    /\ ~Pending("revokeothers") /\ Ask("revokeothers", None, None, ui)

(* addPasskey: between its two requests the browser makes the credential.  *)
RegisterPasskey(h) ==
    /\ calls[h].act.op = "addkey" /\ calls[h].stage = "prompt"
    /\ \E next \in {"finish", "error"} : Answered(h, next)
    /\ UNCHANGED <<plan, shown, ui, truth, cacheVars, asked, mishaps, gateVars>>

ProfileSucceeded(a) ==
    IF a.op = "addtotp" THEN [ui EXCEPT !.modal = "totp"]
    ELSE IF a.op = "totpfinish" THEN [ui EXCEPT !.modal = IF @ = "totp" THEN "none" ELSE @]
    ELSE IF a.op = "newcodes" THEN [ui EXCEPT !.modal = "codes"]
    ELSE ui

(* refreshMFA, after a factor was added or removed.                        *)
ProfileRefreshes(op) ==
    IF op \in {"addkey", "totpfinish", "deltotp", "delkey"} THEN {"mfa"}
    ELSE IF op \in {"revoke", "revokeothers"} THEN {"rows"}
    ELSE {}

ProfileOps == {"addkey", "addtotp", "totpfinish", "deltotp", "delkey", "newcodes", "passwd",
               "revoke", "revokeothers"}
ProfileAnswered(h) ==
    /\ calls[h].act.op \in ProfileOps
    /\ Answer(h, ProfileSucceeded(calls[h].act), ProfileRefreshes(calls[h].act.op))

-----------------------------------------------------------------------------
(* The server.  A change of a factor ends the other sessions.              *)
OthersRevoked == [t \in Targets |-> IF t = Self THEN truth.rows[t] ELSE NoRow]

WithFactors(f) == [truth EXCEPT !.mfa = f, !.rows = OthersRevoked]

AddTOTPBegin(h) ==
    Due(h, {"addtotp"}) /\ IF truth.mfa.totp THEN Decline(h) ELSE Carry(h, truth)

AddTOTPFinish(h) ==
    /\ Due(h, {"totpfinish"})
    /\ IF calls[h].act.arg = "right"
       THEN Carry(h, WithFactors([truth.mfa EXCEPT !.totp = TRUE]))
       ELSE Decline(h)

AddTOTPRemove(h) ==
    /\ Due(h, {"deltotp"})
    /\ IF truth.mfa.totp /\ truth.mfa.keys # {}
       THEN Carry(h, WithFactors([truth.mfa EXCEPT !.totp = FALSE, !.codes = FALSE]))
       ELSE Decline(h)

AddPasskeyBegin(h) ==
    /\ Due(h, {"addkey"})
    /\ Answered(h, "prompt")
    /\ UNCHANGED <<plan, shown, ui, truth, cacheVars, asked, mishaps, gateVars>>

AddPasskeyFinish(h) ==
    LET t == calls[h].act.target IN
    /\ calls[h].act.op = "addkey" /\ calls[h].stage = "finish"
    /\ IF t \in truth.mfa.keys THEN Decline(h)
       ELSE Carry(h, [truth EXCEPT !.mfa.keys = @ \cup {t}])

(* The check for another factor, the proof and the deletion are apart.     *)
CheckLastFactor(h) ==
    LET f == truth.mfa IN
    /\ calls[h].act.op = "delkey" /\ calls[h].stage = "sent"
    /\ IF calls[h].act.target \in f.keys /\ (f.totp \/ Cardinality(f.keys) > 1)
       THEN /\ Answered(h, "checked")
            /\ UNCHANGED <<plan, shown, ui, truth, cacheVars, asked, mishaps, gateVars>>
       ELSE Decline(h)

DeletePasskey(h) ==
    LET t == calls[h].act.target IN
    /\ Due(h, {"delkey"})
    /\ IF t \in truth.mfa.keys
       THEN /\ Commit(h, WithFactors([truth.mfa EXCEPT !.keys = @ \ {t}]))
            /\ grace' = FALSE /\ stamp' = FALSE
            /\ UNCHANGED <<window, dialog, ceremony, stamps, redeemed>>
       ELSE Decline(h)

RegenerateRecoveryCodes(h) ==
    Due(h, {"newcodes"}) /\ Carry(h, [truth EXCEPT !.mfa.codes = TRUE])

ReplacePassword(h) ==
    /\ Due(h, {"passwd"})
    /\ IF calls[h].act.arg = "right" THEN Carry(h, [truth EXCEPT !.rows = OthersRevoked])
       ELSE /\ Answered(h, "denied")
            /\ UNCHANGED <<plan, shown, ui, truth, cacheVars, asked, mishaps, gateVars>>

RevokeMySession(h) ==
    LET t == calls[h].act.target IN
    Due(h, {"revoke"}) /\ IF t # Self /\ Exists(t) THEN Carry(h, Put(t, NoRow)) ELSE Decline(h)

RevokeMyOtherSessions(h) ==
    Due(h, {"revokeothers"}) /\ Carry(h, [truth EXCEPT !.rows = OthersRevoked])

ProfileNext ==
    /\ page = "profile"
    /\ \/ StartFactorAction \/ VerifyTOTPEnrollment \/ DismissCodes \/ ChangePassword \/ RevokeOthers
       \/ \E t \in Targets : RevokeSession(t)
       \/ \E h \in Slots :
             \/ RegisterPasskey(h) \/ ProfileAnswered(h)
             \/ AddTOTPBegin(h) \/ AddTOTPFinish(h) \/ AddTOTPRemove(h)
             \/ AddPasskeyBegin(h) \/ AddPasskeyFinish(h) \/ CheckLastFactor(h) \/ DeletePasskey(h)
             \/ RegenerateRecoveryCodes(h) \/ ReplacePassword(h)
             \/ RevokeMySession(h) \/ RevokeMyOtherSessions(h)

=============================================================================
