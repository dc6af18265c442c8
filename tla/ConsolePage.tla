----------------------------- MODULE ConsolePage -----------------------------
(***************************************************************************)
(* What every page of the console is built from: lists the query cache     *)
(* keeps, requests, and a page that may be left and entered again while    *)
(* its requests are still running.  The pages themselves are the modules   *)
(* that extend this one; one behaviour shows one page.                     *)
(*                                                                         *)
(* A list is read by one request that the server answers at some moment:   *)
(* fetch[k] is Idle, Asked, or on its way back with what the server read.  *)
(***************************************************************************)
EXTENDS Naturals, FiniteSets

CONSTANTS
    Targets,      \* the rows of a list
    Slots,        \* requests in flight at one time (bound)
    Plans         \* what one behaviour is about (bound): its page, the requests
                  \* it uses, how many of them it sends, and the mishaps: failures,
                  \* changes by others, times the page is left

VARIABLES
    plan,     \* the page this behaviour is about, and its mishaps; fixed
    shown,    \* it is mounted
    ui,       \* its React state
    truth,    \* the lists at the server
    view,     \* the lists in the cache
    fetch,    \* the fetches running
    calls,    \* the requests running
    asked,    \* requests so far
    mishaps,  \* so far
    doubt     \* the lists the page has an excuse for showing wrongly

cacheVars == <<view, fetch, doubt>>
pageVars  == <<plan, shown, ui, truth, view, fetch, calls, asked, mishaps, doubt>>

page == plan.page

None   == "none"
NoData == <<>>
Idle   == [at |-> "idle", got |-> NoData]
Asked  == [at |-> "asked", got |-> NoData]
NoCall == [act |-> [op |-> "none"]]

Refetching == {"users", "departments", "domain-rules", "ip-rules"}

Lists == DOMAIN truth

(* A row of a list of people, devices, machines or files.                  *)
Texts    == {"old", "new"}
Statuses == {"none", "active", "disabled", "invited", "suspended", "removed"}

ASSUME PlanAssumption ==
    \A p \in Plans : p.calls \in Nat /\ p.mishaps \in Nat /\ p.others \in Statuses

Row(status) == [status |-> status, name |-> "old", role |-> "admin", keyed |-> TRUE]
NoRow       == Row("none")

Exists(t)  == truth.rows[t].status # "none"
Seen(t)    == shown /\ view.rows # NoData /\ view.rows[t].status # "none"
Free       == {t \in Targets : ~Exists(t)}

Put(t, r)      == [truth EXCEPT !.rows[t] = r]
Renamed(t, n)  == Put(t, [truth.rows[t] EXCEPT !.name = n])
WithStatus(t, s) == Put(t, [truth.rows[t] EXCEPT !.status = s])

(* What a page with nothing open looks like.                               *)
Blank == [modal |-> "none", target |-> None, draft |-> None, result |-> None]

Uses(op) == op \in plan.uses /\ asked < plan.calls
Mishap   == mishaps < plan.mishaps /\ mishaps' = mishaps + 1

(* What a request asks for. *)
Act(op, t, arg) == [op |-> op, target |-> t, arg |-> arg]

(* Two requests of one mutation: the page follows the later one only. *)
Request(a, via, proof, named) ==
    [act |-> a, via |-> via, proof |-> proof, named |-> named, stage |-> "sent",
     here |-> TRUE, latest |-> TRUE]

Sent(a, via, proof, named, h) ==
    [g \in Slots |->
        IF g = h THEN Request(a, via, proof, named)
        ELSE IF calls[g].act.op = a.op THEN [calls[g] EXCEPT !.latest = FALSE]
        ELSE calls[g]]

(* apiFetch, from a page that shows u meanwhile. *)
Send(a, via, proof, named, u) ==
    /\ Uses(a.op) /\ asked' = asked + 1
    /\ \E h \in Slots : calls[h] = NoCall /\ calls' = Sent(a, via, proof, named, h)
    /\ ui' = u
    /\ UNCHANGED <<plan, shown, truth, cacheVars, mishaps>>

(* The same, from a page that was left meanwhile: what is shown by now has *)
(* mutations of its own and does not hear of this request.                 *)
SendUnfollowed(a, via, proof, named) ==
    /\ Uses(a.op) /\ asked' = asked + 1
    /\ \E h \in Slots :
          /\ calls[h] = NoCall
          /\ calls' = [calls EXCEPT ![h] = [Request(a, via, proof, named) EXCEPT !.here = FALSE]]
    /\ UNCHANGED <<plan, shown, ui, truth, cacheVars, mishaps>>

(* mutation.isPending: the mutation was not reset since. *)
Running(op) == {h \in Slots : calls[h].act.op = op}
Pending(op) == \E h \in Running(op) : calls[h].here /\ calls[h].latest

(* mutation.reset(): the page stops following the request, nobody stops it. *)
Unfollowed(ops) ==
    [h \in Slots |-> IF calls[h].act.op \in ops THEN [calls[h] EXCEPT !.latest = FALSE] ELSE calls[h]]

(* The user does something no request is needed for. *)
Local(u) == ui' = u /\ UNCHANGED <<plan, shown, truth, calls, asked, cacheVars, mishaps>>

-----------------------------------------------------------------------------
(* Queries.  A mounted page reads every list it shows when it opens; a     *)
(* fetch that is running already serves it.                                *)
Overtaken(keys) == {k \in keys : fetch[k].at = "read"}

Mount(u) ==
    /\ ~shown /\ ui.modal # "login" /\ shown' = TRUE
    /\ ui' = u
    /\ fetch' = [k \in Lists |-> IF fetch[k] = Idle THEN Asked ELSE fetch[k]]
    /\ doubt' = Overtaken(Lists)
    /\ UNCHANGED <<plan, truth, view, calls, asked, mishaps>>

(* The page is left: its requests run on, its state is gone.               *)
Unmount(u) ==
    /\ shown /\ shown' = FALSE
    /\ Mishap
    /\ ui' = u
    /\ calls' = [h \in Slots |->
                    IF calls[h] = NoCall THEN NoCall ELSE [calls[h] EXCEPT !.here = FALSE]]
    /\ UNCHANGED <<plan, truth, cacheVars, asked>>

(* Mutant of Refreshed: the fetch in flight is taken for the new one.      *)
RefreshedBehind(keys) ==
    /\ fetch' = [k \in Lists |-> IF k \in keys /\ fetch[k] = Idle THEN Asked ELSE fetch[k]]
    /\ doubt' = doubt \ keys

(* invalidateQueries: a list that is shown is read anew, and a fetch in    *)
(* flight is dropped for it, unless it is the very first: that one stays.  *)
(* refetch(), which some pages use instead, reads a page that was left too. *)
Refreshed(keys) ==
    IF ~shown /\ page \notin Refetching THEN UNCHANGED <<fetch, doubt>>
    ELSE LET first == {k \in keys \cap Lists : fetch[k] # Idle /\ view[k] = NoData} IN
         /\ fetch' = [k \in Lists |-> IF k \in keys \ first THEN Asked ELSE fetch[k]]
         /\ doubt' = (doubt \ keys) \cup Overtaken(first)

ServeList(k) ==
    /\ fetch[k] = Asked
    /\ fetch' = [fetch EXCEPT ![k] = [at |-> "read", got |-> truth[k]]]
    /\ UNCHANGED <<plan, shown, ui, truth, view, calls, asked, mishaps, doubt>>

(* The page shows u from then on. *)
ListArrives(k, u) ==
    /\ fetch[k].at = "read" /\ ui' = u
    /\ view' = [view EXCEPT ![k] = fetch[k].got]
    /\ fetch' = [fetch EXCEPT ![k] = Idle]
    /\ UNCHANGED <<plan, shown, truth, calls, asked, mishaps, doubt>>

(* The page keeps what it has when a fetch and its retry fail. *)
ListFails(k) ==
    /\ fetch[k] # Idle /\ Mishap
    /\ fetch' = [fetch EXCEPT ![k] = Idle]
    /\ doubt' = doubt \cup {k}
    /\ UNCHANGED <<plan, shown, ui, truth, view, calls, asked>>

(* Mutant of Poll: a failed fetch stops the timer.                         *)
PollWhileFine(k) ==
    /\ shown /\ fetch[k] = Idle /\ k \notin doubt
    /\ fetch' = [fetch EXCEPT ![k] = Asked]
    /\ UNCHANGED <<plan, shown, ui, truth, view, calls, asked, mishaps, doubt>>

(* refetchInterval of the lists that have one. *)
Poll(k) ==
    /\ shown /\ fetch[k] = Idle
    /\ fetch' = [fetch EXCEPT ![k] = Asked]
    /\ doubt' = doubt \ {k}
    /\ UNCHANGED <<plan, shown, ui, truth, view, calls, asked, mishaps>>

-----------------------------------------------------------------------------
(* The server's side of a request: it is carried out or refused. *)
At(h, stage, ops) == calls[h] # NoCall /\ calls[h].stage = stage /\ calls[h].act.op \in ops

Answered(h, result) == calls' = [calls EXCEPT ![h].stage = result]

Commit(h, lists) ==
    /\ truth' = lists
    /\ Answered(h, "ok")
    /\ UNCHANGED <<plan, shown, ui, cacheVars, asked, mishaps>>

Reject(h) ==
    /\ Answered(h, "error")
    /\ UNCHANGED <<plan, shown, ui, truth, cacheVars, asked, mishaps>>

(* A failing statement, a validation the model leaves out, a lost request; *)
(* a request whose session was ended elsewhere.                            *)
Refuse(h) ==
    /\ calls[h] # NoCall /\ calls[h].stage \in {"sent", "allowed"}
    /\ Mishap
    /\ \E answer \in {"error", "denied"} :
          (answer = "denied" => calls[h].stage = "sent") /\ Answered(h, answer)
    /\ UNCHANGED <<plan, shown, ui, truth, cacheVars, asked>>

(* The answer of a request that was carried out is lost. *)
LoseAnswer(h) ==
    /\ calls[h] # NoCall /\ calls[h].stage = "ok" /\ Mishap
    /\ Answered(h, "lost")
    /\ doubt' = Lists
    /\ UNCHANGED <<plan, shown, ui, truth, view, fetch, asked>>

(* Another administrator changes a row. *)
Outsider(lists) ==
    /\ Mishap
    /\ truth' = lists
    /\ doubt' = doubt \cup {k \in Lists : lists[k] # truth[k]}
    /\ UNCHANGED <<plan, shown, ui, view, fetch, calls, asked>>

(* onSuccess of the mutation: the state it sets, if its page is still      *)
(* there, and the lists it has read anew, in any case.                     *)
Succeeds(h, u, keys) ==
    /\ calls' = [calls EXCEPT ![h] = NoCall]
    /\ ui' = IF calls[h].here THEN u ELSE ui
    /\ Refreshed(keys)
    /\ UNCHANGED <<plan, shown, truth, view, asked, mishaps>>

Fails(h, u, keys) == calls[h].stage \in {"error", "lost", "mfa"} /\ Succeeds(h, u, keys)

=============================================================================
