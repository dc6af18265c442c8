------------------------------- MODULE StepUp -------------------------------
(***************************************************************************)
(* The step-up gate: gateMFA of a page, the ConfirmMFA dialog, and what    *)
(* the server accepts as the proof of a gated action: a code, the grace    *)
(* window of an earlier code, or the stamp of a passkey ceremony, which is *)
(* good for one action.                                                    *)
(*                                                                         *)
(* runAction holds on to the action of the dialog it was clicked in, while *)
(* the ceremony runs and the dialog may already be about another action.   *)
(***************************************************************************)
EXTENDS ConsolePage

CONSTANTS
    Self,       \* the row of the administrator at the page, or of this session
    MaxStamps   \* passkey ceremonies completed (bound)

ASSUME StampAssumption == MaxStamps \in Nat

VARIABLES
    window,    \* the grace window is configured
    dialog,    \* ConfirmMFA: the action it asks for, and what it waits for
    ceremony,  \* the passkey ceremony of runAction
    grace,     \* the session verified a code within the window
    stamp,     \* the session carries a fresh passkey stamp
    stamps,    \* ceremonies completed
    redeemed   \* actions carried out on a stamp

gateVars  == <<window, dialog, ceremony, grace, stamp, stamps, redeemed>>
proofVars == <<grace, stamp, stamps, redeemed>>

NoGate     == Act("none", None, None)
Closed     == [gate |-> NoGate, busy |-> "no"]
NoCeremony == [act |-> NoGate, at |-> "none", here |-> FALSE]

(* saveMutation of the servers page reads the form when it is sent, not    *)
(* when the dialog asked for it; every other action is a closure.          *)
Live(a) ==
    IF a.op # "saveserver" THEN a
    ELSE IF ui.target = None THEN Act("addserver", None, ui.draft)
    ELSE Act("saveserver", ui.target, ui.draft)

-----------------------------------------------------------------------------
(* gateMFA: with a window configured the action is tried without a code    *)
(* first; the window is 0 until it has been read.                          *)
Gate(a, u) ==
    /\ Uses(a.op)
    /\ \/ /\ dialog' = [dialog EXCEPT !.gate = a]
          /\ Local(u)
          /\ UNCHANGED <<window, ceremony, proofVars>>
       \/ /\ window
          /\ Send(a, "probe", "none", NoGate, u)
          /\ UNCHANGED gateVars

(* A page that opens the dialog at once.                                   *)
Confirm(a) ==
    /\ Uses(a.op)
    /\ dialog' = [dialog EXCEPT !.gate = a]
    /\ Local(ui)
    /\ UNCHANGED <<window, ceremony, proofVars>>

(* The dialog. *)
SubmitCode ==
    /\ dialog.gate # NoGate /\ dialog.busy = "no"
    /\ \E proof \in {"right", "wrong"} :
          Send(Live(dialog.gate), "dialog", proof, dialog.gate, ui)
    /\ dialog' = [dialog EXCEPT !.busy = "code"]
    /\ UNCHANGED <<window, ceremony, proofVars>>

UsePasskey ==
    /\ dialog.gate # NoGate /\ dialog.busy = "no" /\ asked < plan.calls
    /\ ceremony' = [act |-> dialog.gate, at |-> "prompt", here |-> TRUE]
    /\ dialog' = [dialog EXCEPT !.busy = "passkey"]
    /\ UNCHANGED <<pageVars, window, proofVars>>

CloseDialog ==
    /\ dialog.gate # NoGate /\ dialog.busy = "no"
    /\ dialog' = Closed
    /\ UNCHANGED <<pageVars, window, ceremony, proofVars>>

(* Escape reaches every modal on the page: the form under the dialog       *)
(* closes, the dialog does not while it is busy.                           *)
Escape(u) ==
    /\ shown
    /\ ui # u \/ (dialog.gate # NoGate /\ dialog.busy = "no")
    /\ ceremony.at # "prompt"
    /\ dialog' = IF dialog.busy = "no" THEN Closed ELSE dialog
    /\ Local(u)
    /\ UNCHANGED <<window, ceremony, proofVars>>

-----------------------------------------------------------------------------
(* The ceremony: the prompt is confirmed and the server stamps the         *)
(* session; the answer arrives and the action is sent without a code.      *)
StampSession ==
    /\ ceremony.at = "prompt" /\ stamps < MaxStamps
    /\ ceremony' = [ceremony EXCEPT !.at = "stamped"]
    /\ stamp' = TRUE /\ stamps' = stamps + 1
    /\ UNCHANGED <<pageVars, window, dialog, grace, redeemed>>

CeremonyFails ==
    /\ ceremony.at # "none"
    /\ ceremony' = NoCeremony
    /\ dialog' = IF ceremony.here THEN [dialog EXCEPT !.busy = "no"] ELSE dialog
    /\ UNCHANGED <<pageVars, window, proofVars>>

(* Mutant of RunHeldAction: runAction reads the action the dialog has now.  *)
RunShownAction ==
    /\ ceremony.at = "stamped"
    /\ Send(Live(dialog.gate), "dialog", "none", ceremony.act, ui)
    /\ ceremony' = NoCeremony
    /\ UNCHANGED <<window, dialog, proofVars>>

(* The action of a page that was left is sent all the same, as it was when *)
(* it was left; a page that is entered again does not follow it.           *)
RunHeldAction ==
    /\ ceremony.at = "stamped"
    /\ IF ceremony.here THEN Send(Live(ceremony.act), "dialog", "none", ceremony.act, ui)
       ELSE SendUnfollowed(ceremony.act, "dialog", "none", ceremony.act)
    /\ ceremony' = NoCeremony
    /\ UNCHANGED <<window, dialog, proofVars>>

-----------------------------------------------------------------------------
(* verifyActorMFA, and verifyActorMFACode for the strict actions, which    *)
(* the window does not cover.                                              *)
Gated  == {"role", "status", "email", "password", "resetmfa", "saveserver", "delserver",
           "hostsetup", "delnode", "rotate", "download", "restore", "upload", "delbackup",
           "addkey", "addtotp", "deltotp", "delkey", "newcodes",
           "savestepup", "savepolicy", "savelockout", "saveexpiry"}
Strict == {"deltotp", "delkey", "newcodes", "savestepup", "savepolicy", "savelockout", "saveexpiry"}

(* A request the handler may act on. *)
Due(h, ops) ==
    /\ calls[h].act.op \in ops
    /\ calls[h].stage = IF calls[h].act.op \in Gated THEN "allowed" ELSE "sent"

(* DeletePasskey looks for another factor before it looks for the proof.   *)
Asks(h, ops) ==
    /\ calls[h].act.op \in ops
    /\ calls[h].stage = IF calls[h].act.op = "delkey" THEN "checked" ELSE "sent"

Allow(h) == Answered(h, "allowed") /\ UNCHANGED <<plan, shown, ui, truth, cacheVars, asked, mishaps>>

CodeAccepted(h) ==
    /\ Asks(h, Gated) /\ calls[h].proof = "right"
    /\ Allow(h)
    /\ grace' = TRUE
    /\ UNCHANGED <<window, dialog, ceremony, stamp, stamps, redeemed>>

(* Mutant of StampRedeemed: the stamp is read and left.                    *)
StampLooked(h) ==
    /\ Asks(h, Gated) /\ calls[h].proof # "right" /\ stamp
    /\ Allow(h)
    /\ redeemed' = redeemed + 1
    /\ UNCHANGED <<window, dialog, ceremony, grace, stamp, stamps>>

(* consumePasskeyStepUp: one statement reads the stamp and clears it.      *)
StampRedeemed(h) ==
    /\ Asks(h, Gated) /\ calls[h].proof # "right" /\ stamp
    /\ Allow(h)
    /\ stamp' = FALSE /\ redeemed' = redeemed + 1
    /\ UNCHANGED <<window, dialog, ceremony, grace, stamps>>

GraceCovers(h) ==
    /\ Asks(h, Gated \ Strict) /\ calls[h].proof = "none" /\ ~stamp /\ window /\ grace
    /\ Allow(h)
    /\ UNCHANGED gateVars

(* The answer is 400 without a proof, and 401 with a wrong one.            *)
ProofMissing(h) ==
    /\ Asks(h, Gated) /\ calls[h].proof # "right" /\ ~stamp
    /\ ~(calls[h].proof = "none" /\ window /\ grace /\ calls[h].act.op \notin Strict)
    /\ Answered(h, IF calls[h].proof = "none" THEN "mfa" ELSE "denied")
    /\ UNCHANGED <<plan, shown, ui, truth, cacheVars, asked, mishaps, gateVars>>

CheckProof(h) == CodeAccepted(h) \/ StampRedeemed(h) \/ GraceCovers(h) \/ ProofMissing(h)

(* apiFetch takes every 401 for the end of the session, also one that says *)
(* that a code or a password was wrong: the console gives way to the login *)
(* page, whatever page the user is on by then, and is gone with its cache. *)
RedirectToLogin(h, u) ==
    /\ calls[h] # NoCall /\ calls[h].stage = "denied"
    /\ shown' = FALSE /\ ui' = [u EXCEPT !.modal = "login"]
    /\ calls' = [g \in Slots |-> IF g = h \/ calls[g] = NoCall THEN NoCall
                                 ELSE [calls[g] EXCEPT !.here = FALSE]]
    /\ view' = [k \in Lists |-> NoData] /\ fetch' = [k \in Lists |-> Idle] /\ doubt' = {}
    /\ dialog' = Closed /\ ceremony' = NoCeremony
    /\ UNCHANGED <<plan, truth, asked, mishaps, window, proofVars>>

(* Time: the grace window or the ninety seconds of the stamp run out.      *)
ProofExpires ==
    /\ \/ grace /\ grace' = FALSE /\ stamp' = stamp
       \/ stamp /\ stamp' = FALSE /\ grace' = grace
    /\ UNCHANGED <<pageVars, window, dialog, ceremony, stamps, redeemed>>

-----------------------------------------------------------------------------
(* What an answer does to the dialog: the action of the dialog is done, or *)
(* asks again; a probe the server wants a proof for opens it.              *)
Ready(h) == calls[h] # NoCall /\ calls[h].stage \in {"ok", "error", "lost", "mfa"}
Covered  == dialog.gate # NoGate   \* the dialog is over the page

(* Mutant of DialogAfter: a failed action leaves the dialog waiting.       *)
DialogUnlessFailed(h) ==
    LET c == calls[h] IN
    IF c.here /\ c.via = "dialog" /\ c.stage = "ok" THEN Closed
    ELSE IF c.here /\ c.via = "probe" /\ c.stage = "mfa" THEN [dialog EXCEPT !.gate = c.act]
    ELSE dialog

DialogAfter(h) ==
    LET c == calls[h] IN
    IF ~c.here THEN dialog
    ELSE IF c.via = "dialog" THEN
        IF c.stage = "ok" THEN Closed ELSE [dialog EXCEPT !.busy = "no"]
    ELSE IF c.via = "probe" /\ c.stage = "mfa" THEN [dialog EXCEPT !.gate = c.act]
    ELSE dialog

(* The answer of request h: the page shows u and reads keys anew when it   *)
(* succeeded, and stays as it is with the error on it when it did not.     *)
Answer(h, u, keys) ==
    /\ Ready(h)
    /\ IF calls[h].stage = "ok" THEN Succeeds(h, u, keys) ELSE Fails(h, ui, {})
    /\ dialog' = DialogAfter(h)
    /\ UNCHANGED <<window, ceremony, proofVars>>

(* A page is left with its dialog; a ceremony that runs keeps its action.  *)
Leave(u) ==
    /\ Unmount(u)
    /\ ceremony.at # "prompt"
    /\ dialog' = Closed
    /\ ceremony' = IF ceremony = NoCeremony THEN NoCeremony
                   ELSE [ceremony EXCEPT !.act = Live(@), !.here = FALSE]
    /\ UNCHANGED <<window, proofVars>>

-----------------------------------------------------------------------------
(* What the pages are written with: the page is there and no dialog covers *)
(* it; it changes its state, forgets its request (mutation.reset), sends a *)
(* request that needs no proof; the server carries one out or declines it. *)
On(p) == page = p /\ shown /\ ~Covered

Do(u) == Local(u) /\ UNCHANGED gateVars

Forget(u, ops) ==
    /\ ui' = u /\ calls' = Unfollowed(ops)
    /\ UNCHANGED <<plan, shown, truth, asked, cacheVars, mishaps, gateVars>>

Ask(op, t, arg, u) == Send(Act(op, t, arg), "plain", "none", NoGate, u) /\ UNCHANGED gateVars
Carry(h, lists) == Commit(h, lists) /\ UNCHANGED gateVars
Decline(h) == Reject(h) /\ UNCHANGED gateVars

=============================================================================
