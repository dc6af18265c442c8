------------------------------ MODULE SyncQueue ------------------------------
(***************************************************************************)
(* The per-server kernel-sync queue of the console's API process           *)
(* (backend/internal/api/wgsync.go) with the database rows it reads and    *)
(* the HTTP handlers that feed it.                                         *)
(*                                                                         *)
(* A handler commits its change and only afterwards asks for a sync, so a  *)
(* handler is two or more steps here: the commit, and the calls it still   *)
(* owes the queue (`call').  The queue keeps one job per server in a map   *)
(* guarded by a mutex; a goroutine (a "runner") makes passes over it.      *)
(* Every pass re-reads the database, then calls wg-helper; the call is a   *)
(* step of its own here and its effect on the kernel is KernelSync's       *)
(* business.  The API process may crash at any moment: the map, the        *)
(* runners and the handlers are memory, the rows are not.                  *)
(***************************************************************************)

CONSTANTS
    Server,    \* server rows the console may ever hold (uuids, never reused)
    Peer,      \* peers, named by their unique public key
    User,      \* VPN users
    Owner,     \* the user a peer belongs to
    ModeOf,    \* managed_mode of a server: "local" is applied on this host
    Handler,   \* HTTP requests that may be in progress at the same time
    Runner,    \* goroutines that may run runServerSync at the same time
    NoServer   \* not a server

ASSUME OwnerAssumption  == Owner \in [Peer -> User]
ASSUME ModeAssumption   == ModeOf \in [Server -> {"local", "remote", "manual"}]
ASSUME ServerAssumption == NoServer \notin Server

VARIABLES
    srv,       \* servers table: has the row been created, is it still there
    peer,      \* peers table: status and server_id
    call,      \* what each handler still has to ask of the queue
    queued,    \* the keys of serverSyncJobs
    job,       \* serverSyncJobs: the job of each key
    runner,    \* the goroutines inside runServerSync
    delivered, \* history: what the queue last told wg-helper about a server
    lost       \* history: a change was dropped and nothing is left to retry it

dbVars    == <<srv, peer>>
queueVars == <<queued, job>>
vars      == <<srv, peer, call, queued, job, runner, delivered, lost>>

-----------------------------------------------------------------------------
(* The rows.  A peer is desired on its server while its status is active.  *)

NoRow == [st |-> "none", srv |-> NoServer]

Desired(s) == {p \in Peer : peer[p].srv = s /\ peer[p].st = "active"}

\* The calls a handler owes the queue after its commit.
NoCall         == [op |-> "none"]
SyncCall(S)    == [op |-> "sync", srvs |-> S]     \* requestServerSync for each
PeerCall(p)    == [op |-> "peer", peer |-> p]     \* requestPeerServerSync
UserCall(u)    == [op |-> "user", user |-> u]     \* resyncServersOfUser
Ask(S)         == IF S = {} THEN NoCall ELSE SyncCall(S)
RemovalCall(s) == [op |-> "removal", srv |-> s]   \* requestServerRemoval

Call == {NoCall} \cup {SyncCall(S) : S \in SUBSET Server}
                 \cup {PeerCall(p) : p \in Peer}
                 \cup {UserCall(u) : u \in User}
                 \cup {RemovalCall(s) : s \in Server}

\* serverSyncJob.  The interface name it captures is the row's, which no
\* handler ever changes, so it is not a field here.
NewJob == [running |-> FALSE, dirty |-> FALSE, remove |-> FALSE]
Job    == [running : BOOLEAN, dirty : BOOLEAN, remove : BOOLEAN]

Idle   == [pc |-> "idle", srv |-> NoServer]
PCs    == {"idle", "top", "server", "peers", "applying", "decide",
           "remove", "removing", "finish"}

Nothing      == [kind |-> "nothing", peers |-> {}]
Applied(P)   == [kind |-> "apply", peers |-> P]
TornDown     == [kind |-> "remove", peers |-> {}]
Delivery     == [kind : {"nothing", "apply", "remove"}, peers : SUBSET Peer]

\* What the database asks wg-helper for.  A server that is not managed on
\* this host asks for nothing until it is deleted.
Want(s) == CASE srv[s] = "deleted" -> TornDown
             [] srv[s] = "present" /\ ModeOf[s] = "local" -> Applied(Desired(s))
             [] OTHER -> Nothing

Stale(s) == Want(s).kind # "nothing" /\ delivered[s] # Want(s)

TypeOK ==
    /\ srv \in [Server -> {"new", "present", "deleted"}]
    /\ peer \in [Peer -> [st : {"none", "active", "suspended", "removed"},
                          srv : Server \cup {NoServer}]]
    /\ call \in [Handler -> Call]
    /\ queued \in SUBSET Server
    /\ job \in [Server -> Job]
    /\ runner \in [Runner -> [pc : PCs, srv : Server \cup {NoServer}]]
    /\ delivered \in [Server -> Delivery]
    /\ lost \in [Server -> BOOLEAN]

Init ==
    /\ srv = [s \in Server |-> "new"]
    /\ peer = [p \in Peer |-> NoRow]
    /\ call = [h \in Handler |-> NoCall]
    /\ queued = {}
    /\ job = [s \in Server |-> NewJob]
    /\ runner = [r \in Runner |-> Idle]
    /\ delivered = [s \in Server |-> Nothing]
    /\ lost = [s \in Server |-> FALSE]

-----------------------------------------------------------------------------
(* The handlers' commits.  Each is one transaction or one statement; the   *)
(* sync it asks for comes later, in a step of its own.                     *)

Commit(h, c) ==
    /\ call[h] = NoCall
    /\ call' = [call EXCEPT ![h] = c]
    /\ UNCHANGED <<queued, job, runner, delivered, lost>>

CreateServer(h, s) ==
    /\ srv[s] = "new"
    /\ srv' = [srv EXCEPT ![s] = "present"]
    /\ Commit(h, IF ModeOf[s] = "local" THEN SyncCall({s}) ELSE NoCall)
    /\ UNCHANGED peer

\* Both deletes and a commit; no statement minds that the rows may be gone
\* since the handler looked them up.
DeleteServer(h, s) ==
    /\ srv[s] # "new"
    /\ srv' = [srv EXCEPT ![s] = "deleted"]
    /\ peer' = [p \in Peer |-> IF peer[p].srv = s THEN NoRow ELSE peer[p]]
    /\ Commit(h, RemovalCall(s))

\* The insert of CreatePeer and of an accepted invite (claim.go).  The
\* foreign key fails it when the server is gone.
CreatePeer(h, p, s) ==
    /\ srv[s] = "present"
    /\ peer[p].st = "none"
    /\ peer' = [peer EXCEPT ![p] = [st |-> "active", srv |-> s]]
    /\ Commit(h, SyncCall({s}))
    /\ UNCHANGED srv

\* SuspendPeer, ResumePeer and DeletePeer write the status whatever it was;
\* UpdatePeer (a rename) leaves it and asks for a sync all the same.
SetPeerStatus(h, p, st) ==
    /\ peer[p].st # "none"
    /\ peer' = [peer EXCEPT ![p].st = st]
    /\ Commit(h, PeerCall(p))
    /\ UNCHANGED srv

SuspendPeer(h, p) == SetPeerStatus(h, p, "suspended")
ResumePeer(h, p)  == SetPeerStatus(h, p, "active")
DeletePeer(h, p)  == SetPeerStatus(h, p, "removed")
UpdatePeer(h, p)  == SetPeerStatus(h, p, peer[p].st)

\* SuspendUser, ResumeUser and DeleteUser move every peer of the user that is
\* in one of the statuses `from'.
SetUserPeers(h, u, from, to) ==
    /\ peer' = [p \in Peer |-> IF Owner[p] = u /\ peer[p].st \in from
                               THEN [peer[p] EXCEPT !.st = to] ELSE peer[p]]
    /\ Commit(h, UserCall(u))
    /\ UNCHANGED srv

SuspendUser(h, u) == SetUserPeers(h, u, {"active"}, "suspended")
ResumeUser(h, u)  == SetUserPeers(h, u, {"suspended"}, "active")
DeleteUser(h, u)  == SetUserPeers(h, u, {"active", "suspended"}, "removed")

-----------------------------------------------------------------------------
(* The queue's entry points, each one critical section of serverSyncMu.    *)

CurrentJob(s) == IF s \in queued THEN job[s] ELSE NewJob

\* Mutant: the goroutine is started whether or not one is running.
EnqueueAlwaysStarts(s, j) ==
    /\ queued' = queued \cup {s}
    /\ job' = [job EXCEPT ![s] = [j EXCEPT !.running = TRUE]]
    /\ \E r \in Runner :
         /\ runner[r] = Idle
         /\ runner' = [runner EXCEPT ![r] = [pc |-> "top", srv |-> s]]

\* Store the job, mark it running and start a goroutine if none was.
Enqueue(s, j) ==
    /\ queued' = queued \cup {s}
    /\ job' = [job EXCEPT ![s] = [j EXCEPT !.running = TRUE]]
    /\ IF j.running
       THEN UNCHANGED runner
       ELSE \E r \in Runner :
              /\ runner[r] = Idle
              /\ runner' = [runner EXCEPT ![r] = [pc |-> "top", srv |-> s]]

\* Mutant: a request that finds a running job takes its pass for its own.
RequestJoinsRunningPass(s) ==
    IF CurrentJob(s).running
    THEN UNCHANGED <<queued, job, runner>>
    ELSE Enqueue(s, [CurrentJob(s) EXCEPT !.dirty = TRUE])

\* An apply asked of a server that is being torn down is dropped.
RequestServerSync(s) ==
    IF CurrentJob(s).remove
    THEN UNCHANGED <<queued, job, runner>>
    ELSE Enqueue(s, [CurrentJob(s) EXCEPT !.dirty = TRUE])

\* The handler asks for the next of the servers it knows; the rows of
\* resyncServersOfUser come in any order.
AskSync(h) ==
    /\ call[h].op = "sync"
    /\ \E s \in call[h].srvs :
         /\ RequestServerSync(s)
         /\ call' = [call EXCEPT ![h] = Ask(call[h].srvs \ {s})]
    /\ UNCHANGED <<srv, peer, delivered, lost>>

\* Mutant: an outer join lists the peer a user does not have.
ServersOfOuterJoin(u) == {peer[p].srv : p \in {q \in Peer : Owner[q] = u}}

ServersOf(u) == {peer[p].srv : p \in {q \in Peer : Owner[q] = u}} \ {NoServer}

\* Mutant: a missing peers row is not noticed.
ResolvedWithoutRow(c) == IF c.op = "peer" THEN {peer[c.peer].srv} ELSE ServersOf(c.user)

\* The servers a peer or a user call resolves to; none when the row is gone.
Resolved(c) == IF c.op = "peer" THEN {peer[c.peer].srv} \ {NoServer}
               ELSE ServersOf(c.user)

ResolveCall(h) ==
    /\ call[h].op \in {"peer", "user"}
    /\ call' = [call EXCEPT ![h] = Ask(Resolved(call[h]))]
    /\ UNCHANGED <<srv, peer, queued, job, runner, delivered, lost>>

\* The lookup fails, at once or after some rows: both helpers return silently
\* and the change that was just committed is not asked for.
LookupFails(h) ==
    /\ call[h].op \in {"peer", "user"}
    /\ \E S \in SUBSET Resolved(call[h]) :
         /\ S # Resolved(call[h])
         /\ call' = [call EXCEPT ![h] = Ask(S)]
         /\ lost' = [s \in Server |-> lost[s] \/ (s \in Resolved(call[h]) \ S /\ Stale(s))]
    /\ UNCHANGED <<srv, peer, queued, job, runner, delivered>>

RequestServerRemoval(h) ==
    /\ call[h].op = "removal"
    /\ LET s == call[h].srv IN Enqueue(s, [CurrentJob(s) EXCEPT !.remove = TRUE])
    /\ call' = [call EXCEPT ![h] = NoCall]
    /\ UNCHANGED <<srv, peer, delivered, lost>>

-----------------------------------------------------------------------------
(* runServerSync.  A pass starts under the lock, works without it, and     *)
(* decides under it again whether another pass is due.                     *)

Goto(r, pc) == runner' = [runner EXCEPT ![r].pc = pc]

TakePass(r) ==
    /\ runner[r].pc = "top"
    /\ job' = [job EXCEPT ![runner[r].srv].dirty = FALSE]
    /\ Goto(r, IF job[runner[r].srv].remove THEN "remove" ELSE "server")
    /\ UNCHANGED <<srv, peer, call, queued, delivered, lost>>

\* Mutant: a missing servers row is not noticed.
ReadServerWithoutRow(r) ==
    /\ runner[r].pc = "server"
    /\ Goto(r, IF ModeOf[runner[r].srv] = "local" THEN "peers" ELSE "decide")
    /\ UNCHANGED <<srv, peer, call, queued, job, delivered, lost>>

\* syncServerToKernel's first query: no row is an error, a server that is not
\* local has nothing to apply; either way the pass is over.
ReadServer(r) ==
    /\ runner[r].pc = "server"
    /\ LET s == runner[r].srv IN
       Goto(r, IF srv[s] = "present" /\ ModeOf[s] = "local" THEN "peers" ELSE "decide")
    /\ UNCHANGED <<srv, peer, call, queued, job, delivered, lost>>

\* Its second query, and the apply sent with what was read.
SendApply(r) ==
    /\ runner[r].pc = "peers"
    /\ LET s == runner[r].srv IN
       /\ delivered' = [delivered EXCEPT ![s] = Applied(Desired(s))]
       /\ lost' = [lost EXCEPT ![s] = lost[s] /\ srv[s] # "present"]
    /\ Goto(r, "applying")
    /\ UNCHANGED <<srv, peer, call, queued, job>>

\* The rows of the peers query stop early; the loop over them does not ask
\* why, and the apply goes out with the peers that came.
SendTruncated(r) ==
    /\ runner[r].pc = "peers"
    /\ LET s == runner[r].srv IN
       /\ \E P \in SUBSET Desired(s) :
            P # Desired(s) /\ delivered' = [delivered EXCEPT ![s] = Applied(P)]
       /\ lost' = [lost EXCEPT ![s] = TRUE]
    /\ Goto(r, "applying")
    /\ UNCHANGED <<srv, peer, call, queued, job>>

\* A query, the decryption of the key or the CIDR fails: the error is logged
\* and the pass counts as made.
ReadFails(r) ==
    /\ runner[r].pc \in {"server", "peers"}
    /\ LET s == runner[r].srv IN lost' = [lost EXCEPT ![s] = lost[s] \/ Stale(s)]
    /\ Goto(r, "decide")
    /\ UNCHANGED <<srv, peer, call, queued, job, delivered>>

\* wg-helper answered, refused or timed out: the runner goes on regardless.
Return(r) ==
    /\ runner[r].pc \in {"applying", "removing"}
    /\ Goto(r, IF runner[r].pc = "applying" THEN "decide" ELSE "finish")
    /\ UNCHANGED <<srv, peer, call, queued, job, delivered, lost>>

\* Drop the job from the map and return.
Retire(r) ==
    /\ queued' = queued \ {runner[r].srv}
    /\ job' = [job EXCEPT ![runner[r].srv] = NewJob]
    /\ runner' = [runner EXCEPT ![r] = Idle]

\* Mutant: a removal that arrived during the pass does not call for another.
DecideIgnoresRemoval(r) ==
    /\ runner[r].pc = "decide"
    /\ IF job[runner[r].srv].dirty
       THEN Goto(r, "top") /\ UNCHANGED <<queued, job>>
       ELSE Retire(r)
    /\ UNCHANGED <<srv, peer, call, delivered, lost>>

Decide(r) ==
    /\ runner[r].pc = "decide"
    /\ LET j == job[runner[r].srv] IN
       IF j.remove \/ j.dirty
       THEN Goto(r, "top") /\ UNCHANGED <<queued, job>>
       ELSE Retire(r)
    /\ UNCHANGED <<srv, peer, call, delivered, lost>>

SendRemove(r) ==
    /\ runner[r].pc = "remove"
    /\ LET s == runner[r].srv IN
       /\ delivered' = [delivered EXCEPT ![s] = TornDown]
       /\ lost' = [lost EXCEPT ![s] = FALSE]
    /\ Goto(r, "removing")
    /\ UNCHANGED <<srv, peer, call, queued, job>>

Finish(r) ==
    /\ runner[r].pc = "finish"
    /\ Retire(r)
    /\ UNCHANGED <<srv, peer, call, delivered, lost>>

-----------------------------------------------------------------------------
\* The API process dies and comes back with an empty map.
Crash ==
    /\ call' = [h \in Handler |-> NoCall]
    /\ queued' = {}
    /\ job' = [s \in Server |-> NewJob]
    /\ runner' = [r \in Runner |-> Idle]
    /\ lost' = [s \in Server |-> lost[s] \/ Stale(s)]
    /\ UNCHANGED <<srv, peer, delivered>>

Admin(h) ==
    \/ \E s \in Server : CreateServer(h, s)
    \/ \E s \in Server : DeleteServer(h, s)
    \/ \E p \in Peer, s \in Server : CreatePeer(h, p, s)
    \/ \E p \in Peer : SuspendPeer(h, p)
    \/ \E p \in Peer : ResumePeer(h, p)
    \/ \E p \in Peer : DeletePeer(h, p)
    \/ \E p \in Peer : UpdatePeer(h, p)
    \/ \E u \in User : SuspendUser(h, u)
    \/ \E u \in User : ResumeUser(h, u)
    \/ \E u \in User : DeleteUser(h, u)

Answer(h) == AskSync(h) \/ ResolveCall(h) \/ LookupFails(h) \/ RequestServerRemoval(h)

Pass(r) == TakePass(r) \/ ReadServer(r) \/ SendApply(r) \/ SendTruncated(r) \/ ReadFails(r)
           \/ Return(r) \/ Decide(r) \/ SendRemove(r) \/ Finish(r)

Next ==
    \/ \E h \in Handler : Admin(h) \/ Answer(h)
    \/ \E r \in Runner : Pass(r)
    \/ Crash

\* A handler runs to its end once it has committed, a goroutine is scheduled,
\* and a wg-helper call ends because its client has a timeout.
Fairness ==
    /\ \A h \in Handler : WF_vars(Answer(h))
    /\ \A r \in Runner : WF_vars(Pass(r))

SafetySpec == Init /\ [][Next]_vars
Spec       == SafetySpec /\ Fairness

-----------------------------------------------------------------------------
(* Properties.                                                             *)

Working(s) == {r \in Runner : runner[r] # Idle /\ runner[r].srv = s}

\* "Per server there is at most one goroutine": a job is in the map exactly
\* while one runner works for that server, so two applies of one server are
\* never in flight from the queue.
OneRunnerPerServer ==
    /\ \A s \in Server : (s \in queued) <=> (Working(s) # {})
    /\ \A r, q \in Runner :
         runner[r] # Idle /\ runner[q] # Idle /\ runner[r].srv = runner[q].srv => r = q

\* Somebody is still going to read the rows of s: a handler that has not asked
\* yet, a job marked dirty or for removal, or a pass before its last read.
Owed(s) ==
    \/ \E h \in Handler :
         \/ call[h].op = "sync" /\ s \in call[h].srvs
         \/ call[h].op = "peer" /\ peer[call[h].peer].srv = s
         \/ call[h].op = "user" /\ s \in ServersOf(call[h].user)
         \/ call[h].op = "removal" /\ s = call[h].srv
    \/ s \in queued /\ (job[s].dirty \/ job[s].remove)
    \/ \E r \in Runner : runner[r].srv = s /\ runner[r].pc \in {"server", "peers"}

\* "The newest committed state always wins": whenever what the queue last told
\* wg-helper differs from the rows, someone is still due to read them, unless
\* an error or a crash dropped the change.
NoLostChange == \A s \in Server : Stale(s) => Owed(s) \/ lost[s]

\* "Teardown is terminal": once the queue has sent the removal of a server it
\* never tells wg-helper anything else about it, whatever stragglers ask.
TeardownIsTerminal ==
    [][\A s \in Server : delivered[s] = TornDown => delivered'[s] = TornDown]_vars
=============================================================================
