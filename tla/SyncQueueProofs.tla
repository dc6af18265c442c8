--------------------------- MODULE SyncQueueProofs ---------------------------
(***************************************************************************)
(* What the kernel-sync queue guarantees for any number of servers, peers, *)
(* handlers and goroutines; in the last part, that each of its steps is    *)
(* one DesiredState allows, or a stutter.  (That what is neither told nor  *)
(* lost is told in the end needs fairness and is checked by TLC.)          *)
(***************************************************************************)
EXTENDS SyncQueueRefinement, TLAPS

-----------------------------------------------------------------------------
(* The inductive invariant.  NoLostChange is not inductive by itself: that *)
(* a pass which finds no row may end, and that a job may be dropped, rests *)
(* on where a removal can be at that moment.                               *)

\* The job map: only jobs in it say anything, and they are running.
JobMap == \A s \in Server : IF s \in queued THEN job[s].running ELSE job[s] = NewJob

RunnerShape == \A r \in Runner :
    /\ runner[r].pc = "idle" => runner[r] = Idle
    /\ runner[r].pc # "idle" => runner[r].srv \in queued
    /\ runner[r].pc = "peers" => ModeOf[runner[r].srv] = "local"
    /\ runner[r].pc \in {"remove", "removing", "finish"} => job[runner[r].srv].remove
    /\ runner[r].pc \in {"removing", "finish"} => delivered[runner[r].srv] = TornDown

OneRunner == \A r, q \in Runner :
    runner[r].pc # "idle" /\ runner[q].pc # "idle" /\ runner[r].srv = runner[q].srv => r = q

HasRunner == \A s \in queued : \E r \in Runner : runner[r].pc # "idle" /\ runner[r].srv = s

PeerRows == \A p \in Peer :
    IF peer[p].st = "none" THEN peer[p] = NoRow
    ELSE peer[p].srv \in Server /\ srv[peer[p].srv] = "present"

\* A removal is only ever asked for a deleted server, and a deleted server
\* whose removal was not sent still has it asked for.
RemovalPending(s) ==
    \/ \E h \in Handler : call[h] = RemovalCall(s)
    \/ s \in queued /\ job[s].remove

Removals == \A s \in Server :
    /\ RemovalPending(s) => srv[s] = "deleted"
    /\ srv[s] = "deleted" => delivered[s] = TornDown \/ lost[s] \/ RemovalPending(s)

\* A server is only torn down when its row is gone, and then no pass holds it.
TornDownForGood == \A s \in Server : delivered[s] = TornDown =>
    /\ srv[s] = "deleted"
    /\ \A r \in Runner : ~(runner[r].srv = s /\ runner[r].pc = "peers")

QueueInv ==
    /\ TypeOK
    /\ JobMap
    /\ RunnerShape
    /\ OneRunner
    /\ HasRunner
    /\ PeerRows
    /\ Removals
    /\ TornDownForGood
    /\ NoLostChange

-----------------------------------------------------------------------------
(* Types.                                                                  *)

\* Enqueue, the common tail of both requests, keeps the types of the queue.
LEMMA EnqueueType ==
  ASSUME TypeOK, NEW s \in Server, NEW j \in Job, Enqueue(s, j)
  PROVE  /\ queued' \in SUBSET Server
         /\ job' \in [Server -> Job]
         /\ runner' \in [Runner -> [pc : PCs, srv : Server \cup {NoServer}]]
<1>1. queued' \in SUBSET Server
  BY DEF Enqueue, TypeOK
<1>2. job' \in [Server -> Job]
  BY DEF Enqueue, TypeOK, Job
<1>3. runner' \in [Runner -> [pc : PCs, srv : Server \cup {NoServer}]]
  BY DEF Enqueue, TypeOK, PCs
<1>4. QED
  BY <1>1, <1>2, <1>3

LEMMA CurrentJobType ==
  ASSUME TypeOK, NEW s \in Server
  PROVE  CurrentJob(s) \in Job
BY DEF CurrentJob, TypeOK, NewJob, Job

\* Every variable keeps its type.
LEMMA TypePreserved ==
  ASSUME TypeOK, Next
  PROVE  TypeOK'
<1>1. ASSUME NEW h \in Handler, NEW c \in Call, Commit(h, c)
      PROVE  /\ call' \in [Handler -> Call]
             /\ UNCHANGED <<queued, job, runner, delivered, lost>>
  BY <1>1 DEF Commit, TypeOK
<1>2. ASSUME NEW h \in Handler, Admin(h)
      PROVE  TypeOK'
  <2>1. ASSUME NEW s \in Server, CreateServer(h, s)  PROVE TypeOK'
    <3>1. (IF ModeOf[s] = "local" THEN SyncCall({s}) ELSE NoCall) \in Call
      BY DEF Call
    <3>2. QED
      BY <1>1, <2>1, <3>1 DEF CreateServer, TypeOK
  <2>2. ASSUME NEW s \in Server, DeleteServer(h, s)  PROVE TypeOK'
    <3>1. RemovalCall(s) \in Call
      BY DEF Call
    <3>2. peer' \in [Peer -> [st : {"none", "active", "suspended", "removed"},
                               srv : Server \cup {NoServer}]]
      BY <2>2 DEF DeleteServer, TypeOK, NoRow
    <3>3. QED
      BY <1>1, <2>2, <3>1, <3>2 DEF DeleteServer, TypeOK
  <2>3. ASSUME NEW p \in Peer, NEW s \in Server, CreatePeer(h, p, s)  PROVE TypeOK'
    <3>1. SyncCall({s}) \in Call
      BY DEF Call
    <3>2. QED
      BY <1>1, <2>3, <3>1 DEF CreatePeer, TypeOK
  <2>4. ASSUME NEW p \in Peer, NEW st \in {"active", "suspended", "removed", peer[p].st},
               SetPeerStatus(h, p, st)
        PROVE  TypeOK'
    <3>1. PeerCall(p) \in Call
      BY DEF Call
    <3>2. peer' \in [Peer -> [st : {"none", "active", "suspended", "removed"},
                               srv : Server \cup {NoServer}]]
      BY <2>4 DEF SetPeerStatus, TypeOK
    <3>3. QED
      BY <1>1, <2>4, <3>1, <3>2 DEF SetPeerStatus, TypeOK
  <2>5. ASSUME NEW u \in User, NEW from, NEW to \in {"active", "suspended", "removed"},
               SetUserPeers(h, u, from, to)
        PROVE  TypeOK'
    <3>1. UserCall(u) \in Call
      BY DEF Call
    <3>2. peer' \in [Peer -> [st : {"none", "active", "suspended", "removed"},
                               srv : Server \cup {NoServer}]]
      BY <2>5 DEF SetUserPeers, TypeOK
    <3>3. QED
      BY <1>1, <2>5, <3>1, <3>2 DEF SetUserPeers, TypeOK
  <2>6. QED
    BY <1>2, <2>1, <2>2, <2>3, <2>4, <2>5
       DEF Admin, SuspendPeer, ResumePeer, DeletePeer, UpdatePeer,
           SuspendUser, ResumeUser, DeleteUser
<1>3. ASSUME NEW h \in Handler, AskSync(h)
      PROVE  TypeOK'
  <2>1. PICK s \in call[h].srvs :
          /\ RequestServerSync(s)
          /\ call' = [call EXCEPT ![h] = Ask(call[h].srvs \ {s})]
    BY <1>3 DEF AskSync
  <2>2. call[h].srvs \in SUBSET Server
    BY <1>3 DEF AskSync, TypeOK, Call, NoCall, SyncCall, PeerCall, UserCall, RemovalCall
  <2>3. call' \in [Handler -> Call]
    BY <2>1, <2>2 DEF TypeOK, Call, Ask
  <2>4. CASE CurrentJob(s).remove
    BY <1>3, <2>1, <2>3, <2>4 DEF AskSync, RequestServerSync, TypeOK
  <2>5. CASE ~CurrentJob(s).remove
    <3>1. [CurrentJob(s) EXCEPT !.dirty = TRUE] \in Job
      BY <2>2, CurrentJobType DEF Job
    <3>2. Enqueue(s, [CurrentJob(s) EXCEPT !.dirty = TRUE])
      BY <2>1, <2>5 DEF RequestServerSync
    <3>3. QED
      BY <1>3, <2>2, <2>3, <3>1, <3>2, EnqueueType DEF AskSync, TypeOK
  <2>6. QED
    BY <2>4, <2>5
<1>4. ASSUME NEW h \in Handler, ResolveCall(h)
      PROVE  TypeOK'
  <2>1. Resolved(call[h]) \in SUBSET Server
    BY <1>4 DEF ResolveCall, Resolved, ServersOf, TypeOK, Call, NoCall, SyncCall,
                PeerCall, UserCall, RemovalCall
  <2>2. QED
    BY <1>4, <2>1 DEF ResolveCall, TypeOK, Call, Ask
<1>5. ASSUME NEW h \in Handler, LookupFails(h)
      PROVE  TypeOK'
  <2>1. Resolved(call[h]) \in SUBSET Server
    BY <1>5 DEF LookupFails, Resolved, ServersOf, TypeOK, Call, NoCall, SyncCall,
                PeerCall, UserCall, RemovalCall
  <2>2. QED
    BY <1>5, <2>1 DEF LookupFails, TypeOK, Call, Ask
<1>6. ASSUME NEW h \in Handler, RequestServerRemoval(h)
      PROVE  TypeOK'
  <2>1. call[h].srv \in Server
    BY <1>6 DEF RequestServerRemoval, TypeOK, Call, NoCall, SyncCall, PeerCall,
                UserCall, RemovalCall
  <2>2. [CurrentJob(call[h].srv) EXCEPT !.remove = TRUE] \in Job
    BY <2>1, CurrentJobType DEF Job
  <2>3. Enqueue(call[h].srv, [CurrentJob(call[h].srv) EXCEPT !.remove = TRUE])
    BY <1>6 DEF RequestServerRemoval
  <2>4. call' \in [Handler -> Call]
    BY <1>6 DEF RequestServerRemoval, TypeOK, Call
  <2>5. QED
    BY <1>6, <2>1, <2>2, <2>3, <2>4, EnqueueType DEF RequestServerRemoval, TypeOK
<1>7. ASSUME NEW r \in Runner, Pass(r)
      PROVE  TypeOK'
  <2>1. CASE TakePass(r)
    <3>1. job' \in [Server -> Job]
      BY <2>1 DEF TakePass, TypeOK, Job
    <3>2. runner' \in [Runner -> [pc : PCs, srv : Server \cup {NoServer}]]
      BY <2>1 DEF TakePass, Goto, TypeOK, PCs
    <3>3. QED
      BY <2>1, <3>1, <3>2 DEF TakePass, TypeOK
  <2>2. CASE ReadServer(r)
    BY <2>2 DEF ReadServer, Goto, TypeOK, PCs
  <2>3. CASE SendApply(r)
    BY <2>3 DEF SendApply, Goto, TypeOK, PCs, Applied, Delivery, Desired
  <2>4. CASE SendTruncated(r)
    <3>1. PICK P \in SUBSET Desired(runner[r].srv) :
            delivered' = [delivered EXCEPT ![runner[r].srv] = Applied(P)]
      BY <2>4 DEF SendTruncated
    <3>2. Applied(P) \in Delivery
      BY DEF Applied, Delivery, Desired
    <3>3. delivered' \in [Server -> Delivery]
      BY <3>1, <3>2 DEF TypeOK
    <3>4. runner' \in [Runner -> [pc : PCs, srv : Server \cup {NoServer}]]
      BY <2>4 DEF SendTruncated, Goto, TypeOK, PCs
    <3>5. QED
      BY <2>4, <3>3, <3>4 DEF SendTruncated, TypeOK
  <2>5. CASE ReadFails(r)
    BY <2>5 DEF ReadFails, Goto, TypeOK, PCs, Stale
  <2>6. CASE Return(r)
    BY <2>6 DEF Return, Goto, TypeOK, PCs
  <2>7. CASE Decide(r)
    <3>1. ASSUME Goto(r, "top"), UNCHANGED <<queued, job>>  PROVE TypeOK'
      BY <2>7, <3>1 DEF Decide, Goto, TypeOK, PCs
    <3>2. ASSUME Retire(r)  PROVE TypeOK'
      BY <2>7, <3>2 DEF Decide, Retire, TypeOK, PCs, NewJob, Job, Idle
    <3>3. QED
      BY <2>7, <3>1, <3>2 DEF Decide
  <2>8. CASE SendRemove(r)
    BY <2>8 DEF SendRemove, Goto, TypeOK, PCs, TornDown, Delivery
  <2>9. CASE Finish(r)
    BY <2>9 DEF Finish, Retire, TypeOK, PCs, NewJob, Job, Idle
  <2>10. QED
    BY <1>7, <2>1, <2>2, <2>3, <2>4, <2>5, <2>6, <2>7, <2>8, <2>9 DEF Pass
<1>8. CASE Crash
  BY <1>8 DEF Crash, TypeOK, Call, NewJob, Job, Idle, PCs, Stale
<1>9. QED
  BY <1>2, <1>3, <1>4, <1>5, <1>6, <1>7, <1>8 DEF Next, Answer

LEMMA TypeInit == Init => TypeOK
BY DEF Init, TypeOK, NoRow, Call, NewJob, Job, Idle, PCs, Nothing, Delivery

\* The variables of the queue always have their types.
THEOREM TypeCorrect == SafetySpec => []TypeOK
<1>1. TypeOK /\ [Next]_vars => TypeOK'
  <2>1. TypeOK /\ UNCHANGED vars => TypeOK'
    BY DEF vars, TypeOK
  <2>2. QED
    BY <2>1, TypePreserved
<1>2. QED
  BY TypeInit, <1>1, PTL DEF SafetySpec

-----------------------------------------------------------------------------
(* The handlers' commits.                                                  *)

\* The calls the handlers can hold, by their tag.
LEMMA CallTags ==
  ASSUME TypeOK, NEW h \in Handler
  PROVE  /\ call[h].op = "sync" => call[h].srvs \in SUBSET Server
         /\ call[h].op = "peer" => call[h].peer \in Peer
         /\ call[h].op = "user" => call[h].user \in User
         /\ call[h].op = "removal" =>
              call[h].srv \in Server /\ call[h] = RemovalCall(call[h].srv)
BY DEF TypeOK, Call, NoCall, SyncCall, PeerCall, UserCall, RemovalCall

\* A commit leaves everything that was owed owed, where it moves no peer away.
LEMMA CommitOwes ==
  ASSUME TypeOK, NEW h \in Handler, NEW c, Commit(h, c), NEW t \in Server,
         \A p \in Peer : peer[p].srv = t => peer'[p].srv = t
  PROVE  Owed(t) => Owed(t)'
<1>1. \A g \in Handler : call[g].op # "none" => call'[g] = call[g]
  BY DEF Commit, NoCall, TypeOK
<1>2. ASSUME NEW g \in Handler, call[g].op = "sync", t \in call[g].srvs  PROVE Owed(t)'
  BY <1>1, <1>2 DEF Owed
<1>3. ASSUME NEW g \in Handler, call[g].op = "peer", peer[call[g].peer].srv = t
      PROVE  Owed(t)'
  BY <1>1, <1>3, CallTags DEF Owed
<1>4. ASSUME NEW g \in Handler, call[g].op = "user", t \in ServersOf(call[g].user)
      PROVE  Owed(t)'
  <2>1. t \in ServersOf(call[g].user)'
    BY <1>1, <1>4, CallTags, ServerAssumption DEF ServersOf
  <2>2. QED
    BY <1>1, <1>4, <2>1 DEF Owed
<1>5. ASSUME NEW g \in Handler, call[g].op = "removal", t = call[g].srv  PROVE Owed(t)'
  BY <1>1, <1>5 DEF Owed
<1>6. ASSUME \/ t \in queued /\ (job[t].dirty \/ job[t].remove)
             \/ \E r \in Runner : runner[r].srv = t /\ runner[r].pc \in {"server", "peers"}
      PROVE  Owed(t)'
  BY <1>6 DEF Owed, Commit
<1>7. QED
  BY <1>2, <1>3, <1>4, <1>5, <1>6 DEF Owed

\* A commit leaves the queue and the pending removals alone.
LEMMA CommitRest ==
  ASSUME QueueInv, NEW h \in Handler, NEW c, Commit(h, c)
  PROVE  /\ JobMap' /\ RunnerShape' /\ OneRunner' /\ HasRunner'
         /\ \A t \in Server : RemovalPending(t) => RemovalPending(t)'
         /\ \A t \in Server : RemovalPending(t)' => RemovalPending(t) \/ c = RemovalCall(t)
<1>1. JobMap' /\ RunnerShape' /\ OneRunner' /\ HasRunner'
  BY DEF QueueInv, Commit, JobMap, RunnerShape, OneRunner, HasRunner
<1>2. \A t \in Server : RemovalPending(t) => RemovalPending(t)'
  BY DEF QueueInv, TypeOK, Commit, RemovalPending, NoCall, RemovalCall
<1>3. \A t \in Server : RemovalPending(t)' => RemovalPending(t) \/ c = RemovalCall(t)
  BY DEF QueueInv, TypeOK, Commit, RemovalPending
<1>4. QED
  BY <1>1, <1>2, <1>3

LEMMA CreateServerInv ==
  ASSUME QueueInv, TypeOK', NEW h \in Handler, NEW s \in Server, CreateServer(h, s)
  PROVE  QueueInv'
<1> DEFINE c == IF ModeOf[s] = "local" THEN SyncCall({s}) ELSE NoCall
<1>1. Commit(h, c) /\ peer' = peer /\ srv[s] = "new"
      /\ srv' = [srv EXCEPT ![s] = "present"] /\ delivered' = delivered /\ lost' = lost
      /\ runner' = runner
  BY DEF CreateServer, Commit
<1>2. \A t \in Server : c # RemovalCall(t)
  BY DEF SyncCall, NoCall, RemovalCall
<1> HIDE DEF c
<1>3. \A t \in Server : srv'[t] = IF t = s THEN "present" ELSE srv[t]
  BY <1>1 DEF QueueInv, TypeOK
<1>4. PeerRows'
  BY <1>1, <1>3 DEF QueueInv, PeerRows
<1>5. Removals'
  BY <1>1, <1>2, <1>3, CommitRest DEF QueueInv, Removals
<1>6. TornDownForGood'
  BY <1>1, <1>3 DEF QueueInv, TornDownForGood, TornDown
<1>7. ASSUME NEW t \in Server, Stale(t)'  PROVE Owed(t)' \/ lost'[t]
  <2>1. CASE t = s
    <3>1. ModeOf[s] = "local"
      BY <1>3, <1>7, <2>1 DEF Stale, Want, Nothing
    <3>2. call'[h] = SyncCall({s})
      BY <1>1, <3>1 DEF Commit, c, QueueInv, TypeOK
    <3>3. QED
      BY <2>1, <3>2 DEF Owed, SyncCall
  <2>2. CASE t # s
    <3>1. Stale(t)
      BY <1>1, <1>3, <1>7, <2>2 DEF Stale, Want, Desired
    <3>2. QED
      BY <1>1, <3>1, CommitOwes DEF QueueInv, NoLostChange
  <2>3. QED
    BY <2>1, <2>2
<1>8. QED
  BY <1>1, <1>4, <1>5, <1>6, <1>7, CommitRest DEF QueueInv, NoLostChange

LEMMA DeleteServerInv ==
  ASSUME QueueInv, TypeOK', NEW h \in Handler, NEW s \in Server, DeleteServer(h, s)
  PROVE  QueueInv'
<1>1. Commit(h, RemovalCall(s))
      /\ srv' = [srv EXCEPT ![s] = "deleted"] /\ delivered' = delivered /\ lost' = lost
      /\ runner' = runner
      /\ peer' = [p \in Peer |-> IF peer[p].srv = s THEN NoRow ELSE peer[p]]
  BY DEF DeleteServer, Commit
<1>2. \A t \in Server : srv'[t] = IF t = s THEN "deleted" ELSE srv[t]
  BY <1>1 DEF QueueInv, TypeOK
<1>3. call'[h] = RemovalCall(s)
  BY <1>1 DEF Commit, QueueInv, TypeOK
<1>4. PeerRows'
  BY <1>1, <1>2 DEF QueueInv, PeerRows, NoRow
<1>5. Removals'
  <2>1. ASSUME NEW t \in Server, RemovalPending(t)'  PROVE srv'[t] = "deleted"
    <3>1. RemovalPending(t) \/ t = s
      BY <1>1, <2>1, CommitRest DEF RemovalCall
    <3>2. QED
      BY <1>2, <3>1 DEF QueueInv, Removals
  <2>2. ASSUME NEW t \in Server, srv'[t] = "deleted"
        PROVE  delivered'[t] = TornDown \/ lost'[t] \/ RemovalPending(t)'
    <3>1. CASE t = s
      BY <1>3, <3>1 DEF RemovalPending
    <3>2. CASE t # s
      BY <1>1, <1>2, <2>2, <3>2, CommitRest DEF QueueInv, Removals
    <3>3. QED
      BY <3>1, <3>2
  <2>3. QED
    BY <2>1, <2>2 DEF Removals
<1>6. TornDownForGood'
  BY <1>1, <1>2 DEF QueueInv, TornDownForGood, TornDown
<1>7. ASSUME NEW t \in Server, Stale(t)'  PROVE Owed(t)' \/ lost'[t]
  <2>1. CASE t = s
    BY <1>3, <2>1 DEF Owed, RemovalCall
  <2>2. CASE t # s
    <3>1. Desired(t)' = Desired(t)
      BY <1>1, <2>2, ServerAssumption DEF Desired, NoRow
    <3>2. Stale(t)
      BY <1>1, <1>2, <1>7, <2>2, <3>1 DEF Stale, Want
    <3>3. \A p \in Peer : peer[p].srv = t => peer'[p].srv = t
      BY <1>1, <2>2
    <3>4. QED
      BY <1>1, <3>2, <3>3, CommitOwes DEF QueueInv, NoLostChange
  <2>3. QED
    BY <2>1, <2>2
<1>8. QED
  BY <1>1, <1>4, <1>5, <1>6, <1>7, CommitRest DEF QueueInv, NoLostChange

\* What a commit that leaves the servers alone keeps.
LEMMA PeerCommitInv ==
  ASSUME QueueInv, NEW h \in Handler, NEW c, Commit(h, c), srv' = srv,
         \A t \in Server : c # RemovalCall(t)
  PROVE  Removals' /\ TornDownForGood'
<1>1. Removals'
  BY CommitRest DEF QueueInv, Removals, Commit
<1>2. TornDownForGood'
  BY DEF QueueInv, TornDownForGood, TornDown, Commit
<1>3. QED
  BY <1>1, <1>2

\* A server whose peers did not change is stale only if it was.
LEMMA SameDesired ==
  ASSUME NEW t \in Server, srv' = srv, delivered' = delivered, Stale(t)',
         Desired(t)' = Desired(t)
  PROVE  Stale(t)
BY DEF Stale, Want

LEMMA CreatePeerInv ==
  ASSUME QueueInv, TypeOK', NEW h \in Handler, NEW p \in Peer, NEW s \in Server,
         CreatePeer(h, p, s)
  PROVE  QueueInv'
<1>1. Commit(h, SyncCall({s})) /\ srv' = srv /\ delivered' = delivered /\ lost' = lost
      /\ srv[s] = "present" /\ peer[p].st = "none"
      /\ peer' = [peer EXCEPT ![p] = [st |-> "active", srv |-> s]]
  BY DEF CreatePeer, Commit
<1>2. \A q \in Peer : peer'[q] = IF q = p THEN [st |-> "active", srv |-> s] ELSE peer[q]
  BY <1>1 DEF QueueInv, TypeOK
<1>3. peer[p].srv = NoServer
  BY <1>1 DEF QueueInv, PeerRows, NoRow
<1>4. PeerRows'
  BY <1>1, <1>2 DEF QueueInv, PeerRows
<1>5. \A t \in Server : SyncCall({s}) # RemovalCall(t)
  BY DEF SyncCall, RemovalCall
<1>6. ASSUME NEW t \in Server, Stale(t)'  PROVE Owed(t)' \/ lost'[t]
  <2>1. CASE t = s
    <3>1. call'[h] = SyncCall({s})
      BY <1>1 DEF Commit, QueueInv, TypeOK
    <3>2. QED
      BY <2>1, <3>1 DEF Owed, SyncCall
  <2>2. CASE t # s
    <3>1. Desired(t)' = Desired(t)
      BY <1>2, <1>3, <2>2, ServerAssumption DEF Desired
    <3>2. \A q \in Peer : peer[q].srv = t => peer'[q].srv = t
      BY <1>2, <1>3, ServerAssumption
    <3>3. QED
      BY <1>1, <1>6, <3>1, <3>2, SameDesired, CommitOwes DEF QueueInv, NoLostChange
  <2>3. QED
    BY <2>1, <2>2
<1>7. QED
  BY <1>1, <1>4, <1>5, <1>6, CommitRest, PeerCommitInv DEF QueueInv, NoLostChange

LEMMA SetPeerStatusInv ==
  ASSUME QueueInv, TypeOK', NEW h \in Handler, NEW p \in Peer,
         NEW st \in {"active", "suspended", "removed", peer[p].st}, SetPeerStatus(h, p, st)
  PROVE  QueueInv'
<1>1. Commit(h, PeerCall(p)) /\ srv' = srv /\ delivered' = delivered /\ lost' = lost
      /\ peer[p].st # "none" /\ peer' = [peer EXCEPT ![p].st = st]
  BY DEF SetPeerStatus, Commit
<1>2. \A q \in Peer : peer'[q].srv = peer[q].srv /\ (q # p => peer'[q] = peer[q])
  BY <1>1 DEF QueueInv, TypeOK
<1>3. peer'[p].st = st /\ st # "none"
  BY <1>1 DEF QueueInv, TypeOK
<1>4. PeerRows'
  BY <1>1, <1>2, <1>3 DEF QueueInv, PeerRows
<1>5. \A t \in Server : PeerCall(p) # RemovalCall(t)
  BY DEF PeerCall, RemovalCall
<1>6. ASSUME NEW t \in Server, Stale(t)'  PROVE Owed(t)' \/ lost'[t]
  <2>1. CASE t = peer[p].srv
    <3>1. call'[h] = PeerCall(p)
      BY <1>1 DEF Commit, QueueInv, TypeOK
    <3>2. QED
      BY <1>2, <2>1, <3>1 DEF Owed, PeerCall
  <2>2. CASE t # peer[p].srv
    <3>1. Desired(t)' = Desired(t)
      BY <1>2, <2>2 DEF Desired
    <3>2. QED
      BY <1>1, <1>2, <1>6, <3>1, SameDesired, CommitOwes DEF QueueInv, NoLostChange
  <2>3. QED
    BY <2>1, <2>2
<1>7. QED
  BY <1>1, <1>4, <1>5, <1>6, CommitRest, PeerCommitInv DEF QueueInv, NoLostChange

LEMMA SetUserPeersInv ==
  ASSUME QueueInv, TypeOK', NEW h \in Handler, NEW u \in User, NEW from, "none" \notin from,
         NEW to \in {"active", "suspended", "removed"}, SetUserPeers(h, u, from, to)
  PROVE  QueueInv'
<1>1. Commit(h, UserCall(u)) /\ srv' = srv /\ delivered' = delivered /\ lost' = lost
      /\ peer' = [p \in Peer |-> IF Owner[p] = u /\ peer[p].st \in from
                                 THEN [peer[p] EXCEPT !.st = to] ELSE peer[p]]
  BY DEF SetUserPeers, Commit
<1>2. \A q \in Peer : peer'[q].srv = peer[q].srv /\ (Owner[q] # u => peer'[q] = peer[q])
  BY <1>1 DEF QueueInv, TypeOK
<1>3. PeerRows'
  <2>1. \A q \in Peer : peer'[q] = peer[q] \/ (peer[q].st # "none" /\ peer'[q].st = to)
    BY <1>1 DEF QueueInv, TypeOK
  <2>2. QED
    BY <1>1, <1>2, <2>1 DEF QueueInv, PeerRows
<1>4. \A t \in Server : UserCall(u) # RemovalCall(t)
  BY DEF UserCall, RemovalCall
<1>5. ASSUME NEW t \in Server, Stale(t)'  PROVE Owed(t)' \/ lost'[t]
  <2>1. CASE t \in ServersOf(u)
    <3>1. call'[h] = UserCall(u)
      BY <1>1 DEF Commit, QueueInv, TypeOK
    <3>2. t \in ServersOf(u)'
      BY <1>2, <2>1 DEF ServersOf
    <3>3. QED
      BY <3>1, <3>2 DEF Owed, UserCall
  <2>2. CASE t \notin ServersOf(u)
    <3>1. \A q \in Peer : peer[q].srv = t => Owner[q] # u
      BY <2>2, ServerAssumption DEF ServersOf
    <3>2. Desired(t)' = Desired(t)
      BY <1>2, <3>1 DEF Desired
    <3>3. QED
      BY <1>1, <1>2, <1>5, <3>2, SameDesired, CommitOwes DEF QueueInv, NoLostChange
  <2>3. QED
    BY <2>1, <2>2
<1>6. QED
  BY <1>1, <1>3, <1>4, <1>5, CommitRest, PeerCommitInv DEF QueueInv, NoLostChange

LEMMA AdminInv ==
  ASSUME QueueInv, TypeOK', NEW h \in Handler, Admin(h)
  PROVE  QueueInv'
<1>1. ASSUME NEW p \in Peer,
             SuspendPeer(h, p) \/ ResumePeer(h, p) \/ DeletePeer(h, p) \/ UpdatePeer(h, p)
      PROVE  QueueInv'
  BY <1>1, SetPeerStatusInv DEF SuspendPeer, ResumePeer, DeletePeer, UpdatePeer
<1>2. ASSUME NEW u \in User, SuspendUser(h, u) \/ ResumeUser(h, u) \/ DeleteUser(h, u)
      PROVE  QueueInv'
  BY <1>2, SetUserPeersInv DEF SuspendUser, ResumeUser, DeleteUser
<1>3. QED
  BY <1>1, <1>2, CreateServerInv, DeleteServerInv, CreatePeerInv DEF Admin

-----------------------------------------------------------------------------
(* The queue's entry points.                                               *)

\* What Enqueue keeps when the job it stores is the server's own, marked.
LEMMA EnqueueShape ==
  ASSUME QueueInv, TypeOK', NEW s \in Server, NEW j \in Job, Enqueue(s, j),
         j.running <=> s \in queued, s \in queued /\ job[s].remove => j.remove,
         delivered' = delivered
  PROVE  /\ JobMap' /\ RunnerShape' /\ OneRunner' /\ HasRunner'
         /\ \A t \in Server : t # s => job'[t] = job[t] /\ (t \in queued' <=> t \in queued)
         /\ s \in queued' /\ job'[s].dirty = j.dirty /\ job'[s].remove = j.remove
         /\ \A r \in Runner : runner'[r] = runner[r]
                              \/ (runner[r] = Idle /\ runner'[r] = [pc |-> "top", srv |-> s])
<1>1. /\ \A t \in Server : t # s => job'[t] = job[t] /\ (t \in queued' <=> t \in queued)
      /\ queued' = queued \cup {s} /\ job'[s] = [j EXCEPT !.running = TRUE]
  BY DEF Enqueue, QueueInv, TypeOK
<1>2. \A r \in Runner : runner'[r] = runner[r]
                        \/ (runner[r] = Idle /\ runner'[r] = [pc |-> "top", srv |-> s])
  BY DEF Enqueue, QueueInv, TypeOK
<1>3. job'[s].running /\ job'[s].dirty = j.dirty /\ job'[s].remove = j.remove
  BY <1>1 DEF Job
<1>4. JobMap'
  BY <1>1, <1>3 DEF QueueInv, JobMap, NewJob
<1>5. RunnerShape'
  <2> SUFFICES ASSUME NEW r \in Runner
               PROVE  /\ runner'[r].pc = "idle" => runner'[r] = Idle
                      /\ runner'[r].pc # "idle" => runner'[r].srv \in queued'
                      /\ runner'[r].pc = "peers" => ModeOf[runner'[r].srv] = "local"
                      /\ runner'[r].pc \in {"remove", "removing", "finish"}
                           => job'[runner'[r].srv].remove
                      /\ runner'[r].pc \in {"removing", "finish"}
                           => delivered'[runner'[r].srv] = TornDown
    BY DEF RunnerShape, Idle, TornDown
  <2>1. CASE runner'[r] = [pc |-> "top", srv |-> s]
    BY <1>1, <2>1
  <2>2. CASE runner'[r] = runner[r]
    <3>1. runner[r].pc # "idle" => runner[r].srv \in Server /\ runner[r].srv \in queued
      BY DEF QueueInv, TypeOK, RunnerShape
    <3>2. runner[r].pc \in {"remove", "removing", "finish"} => job'[runner[r].srv].remove
      BY <1>1, <1>3, <3>1 DEF QueueInv, RunnerShape
    <3>3. QED
      BY <1>1, <2>2, <3>1, <3>2 DEF QueueInv, RunnerShape
  <2>3. QED
    BY <1>2, <2>1, <2>2
<1>6. OneRunner'
  <2>1. CASE j.running
    BY <2>1 DEF Enqueue, QueueInv, OneRunner
  <2>2. CASE ~j.running
    <3>1. PICK n \in Runner : /\ runner[n] = Idle
                              /\ runner' = [runner EXCEPT ![n] = [pc |-> "top", srv |-> s]]
      BY <2>2 DEF Enqueue
    <3>2. \A r \in Runner : runner[r].pc # "idle" => runner[r].srv # s
      BY <2>2 DEF QueueInv, RunnerShape
    <3>3. \A r \in Runner :
            runner'[r] = IF r = n THEN [pc |-> "top", srv |-> s] ELSE runner[r]
      BY <3>1 DEF QueueInv, TypeOK
    <3>4. QED
      BY <3>2, <3>3 DEF QueueInv, OneRunner
  <2>3. QED
    BY <2>1, <2>2
<1>7. HasRunner'
  <2>1. \A r \in Runner : runner[r].pc # "idle" => runner'[r] = runner[r]
    BY <1>2 DEF Idle
  <2>2. s \notin queued => \E r \in Runner : runner'[r].pc # "idle" /\ runner'[r].srv = s
    BY SMTT(30) DEF Enqueue, QueueInv, TypeOK
  <2>3. QED
    BY <1>1, <2>1, <2>2 DEF QueueInv, HasRunner
<1>8. QED
  BY <1>1, <1>2, <1>3, <1>4, <1>5, <1>6, <1>7

\* The server's own job agrees with the map.
LEMMA CurrentJobRuns ==
  ASSUME QueueInv, NEW s \in Server
  PROVE  /\ CurrentJob(s) \in Job
         /\ CurrentJob(s).running <=> s \in queued
         /\ CurrentJob(s).remove <=> s \in queued /\ job[s].remove
BY CurrentJobType DEF QueueInv, JobMap, CurrentJob, NewJob

LEMMA AskSyncInv ==
  ASSUME QueueInv, TypeOK', NEW h \in Handler, AskSync(h)
  PROVE  QueueInv'
<1>1. PICK s \in call[h].srvs :
        /\ RequestServerSync(s)
        /\ call' = [call EXCEPT ![h] = Ask(call[h].srvs \ {s})]
  BY DEF AskSync
<1>2. call[h].op = "sync" /\ s \in Server
      /\ UNCHANGED <<srv, peer, delivered, lost>>
  BY CallTags DEF AskSync, QueueInv
<1>3. \A t \in Server : Stale(t)' = Stale(t)
  BY <1>2 DEF Stale, Want, Desired
<1>4. /\ \A g \in Handler : g # h => call'[g] = call[g]
      /\ call'[h].op \in {"none", "sync"}
      /\ \A t \in Server : t # s /\ t \in call[h].srvs =>
           call'[h].op = "sync" /\ t \in call'[h].srvs
  BY <1>1 DEF QueueInv, TypeOK, NoCall, SyncCall, Ask
<1>5. CASE CurrentJob(s).remove
  <2>1. UNCHANGED <<queued, job, runner>> /\ s \in queued /\ job[s].remove
    BY <1>1, <1>2, <1>5, CurrentJobRuns DEF RequestServerSync
  <2>2. \A t \in Server : RemovalPending(t)' <=> RemovalPending(t)
    BY <1>2, <1>4, <2>1 DEF RemovalPending, RemovalCall
  <2>3. \A t \in Server : Owed(t) => Owed(t)'
    BY <1>2, <1>4, <2>1 DEF Owed, ServersOf
  <2>4. JobMap' /\ RunnerShape' /\ OneRunner' /\ HasRunner' /\ PeerRows' /\ TornDownForGood'
    BY <1>2, <2>1 DEF QueueInv, JobMap, RunnerShape, OneRunner, HasRunner, PeerRows,
                      TornDownForGood, TornDown
  <2>5. Removals' /\ NoLostChange'
    BY <1>2, <1>3, <2>2, <2>3 DEF QueueInv, Removals, NoLostChange
  <2>6. QED
    BY <2>4, <2>5 DEF QueueInv
<1>6. CASE ~CurrentJob(s).remove
  <2>1. PICK j \in Job : /\ Enqueue(s, j)
                         /\ j.running <=> s \in queued
                         /\ ~j.remove /\ j.dirty /\ ~(s \in queued /\ job[s].remove)
    <3> DEFINE k == [CurrentJob(s) EXCEPT !.dirty = TRUE]
    <3>1. /\ k \in Job /\ Enqueue(s, k)
          /\ k.running <=> s \in queued
          /\ ~k.remove /\ k.dirty /\ ~(s \in queued /\ job[s].remove)
      BY <1>1, <1>2, <1>6, CurrentJobRuns DEF RequestServerSync, Job
    <3> HIDE DEF k
    <3>2. QED
      BY <3>1
  <2>2. /\ JobMap' /\ RunnerShape' /\ OneRunner' /\ HasRunner'
        /\ \A t \in Server : t # s => job'[t] = job[t] /\ (t \in queued' <=> t \in queued)
        /\ s \in queued' /\ job'[s].dirty /\ ~job'[s].remove
        /\ \A r \in Runner : runner'[r] = runner[r]
                             \/ (runner[r] = Idle /\ runner'[r] = [pc |-> "top", srv |-> s])
    BY <1>2, <2>1, EnqueueShape DEF QueueInv
  <2>3. \A t \in Server : RemovalPending(t)' <=> RemovalPending(t)
    BY <1>2, <1>4, <2>1, <2>2 DEF RemovalPending, RemovalCall
  <2>4. ASSUME NEW t \in Server, Owed(t)  PROVE Owed(t)'
    <3>1. CASE t = s
      BY <2>2, <3>1 DEF Owed
    <3>2. CASE t # s
      BY <1>2, <1>4, <2>2, <2>4, <3>2 DEF Owed, ServersOf, Idle
    <3>3. QED
      BY <3>1, <3>2
  <2>5. PeerRows' /\ TornDownForGood'
    BY <1>2, <2>2 DEF QueueInv, PeerRows, TornDownForGood, TornDown
  <2>6. Removals' /\ NoLostChange'
    BY <1>2, <1>3, <2>3, <2>4 DEF QueueInv, Removals, NoLostChange
  <2>7. QED
    BY <2>2, <2>5, <2>6 DEF QueueInv
<1>7. QED
  BY <1>5, <1>6

LEMMA RequestServerRemovalInv ==
  ASSUME QueueInv, TypeOK', NEW h \in Handler, RequestServerRemoval(h)
  PROVE  QueueInv'
<1>1. PICK s \in Server : s = call[h].srv /\ call[h] = RemovalCall(s)
  BY CallTags DEF RequestServerRemoval, QueueInv
<1>2. PICK j \in Job : Enqueue(s, j) /\ (j.running <=> s \in queued) /\ j.remove
  <2> DEFINE k == [CurrentJob(s) EXCEPT !.remove = TRUE]
  <2>1. k \in Job /\ Enqueue(s, k) /\ (k.running <=> s \in queued) /\ k.remove
    BY <1>1, CurrentJobRuns DEF RequestServerRemoval, Job
  <2> HIDE DEF k
  <2>2. QED
    BY <2>1
<1>3. call[h].op = "removal" /\ UNCHANGED <<srv, peer, delivered, lost>>
  BY DEF RequestServerRemoval
<1>4. /\ \A g \in Handler : g # h => call'[g] = call[g]
      /\ call'[h] = NoCall
  BY DEF RequestServerRemoval, QueueInv, TypeOK
<1>5. srv[s] = "deleted"
  BY <1>1 DEF QueueInv, Removals, RemovalPending
<1>6. \A t \in Server : Stale(t)' = Stale(t)
  BY <1>3 DEF Stale, Want, Desired
<1>7. /\ JobMap' /\ RunnerShape' /\ OneRunner' /\ HasRunner'
      /\ \A t \in Server : t # s => job'[t] = job[t] /\ (t \in queued' <=> t \in queued)
      /\ s \in queued' /\ job'[s].remove
      /\ \A r \in Runner : runner'[r] = runner[r]
                           \/ (runner[r] = Idle /\ runner'[r] = [pc |-> "top", srv |-> s])
  BY <1>2, <1>3, EnqueueShape DEF QueueInv
<1>8. \A t \in Server : t # s => (RemovalPending(t)' <=> RemovalPending(t))
  BY <1>1, <1>4, <1>7 DEF RemovalPending, RemovalCall, NoCall
<1>9. RemovalPending(s)'
  BY <1>7 DEF RemovalPending
<1>10. ASSUME NEW t \in Server, Owed(t)  PROVE Owed(t)'
  <2>1. CASE t = s
    BY <1>7, <2>1 DEF Owed
  <2>2. CASE t # s
    <3>1. \A g \in Handler : g = h => call[g].op = "removal" /\ call[g].srv # t
      BY <1>1, <1>3, <2>2
    <3>2. \A g \in Handler : g # h => call'[g] = call[g]
      BY <1>4
    <3>3. peer' = peer
      BY <1>3
    <3>4. \A r \in Runner : runner[r].pc \in {"server", "peers"} => runner'[r] = runner[r]
      BY <1>7 DEF Idle
    <3>5. job'[t] = job[t] /\ (t \in queued' <=> t \in queued)
      BY <1>7, <2>2
    <3>6. QED
      BY <1>10, <3>1, <3>2, <3>3, <3>4, <3>5 DEF Owed, ServersOf
  <2>3. QED
    BY <2>1, <2>2
<1>11. PeerRows' /\ TornDownForGood'
  BY <1>7, <1>3 DEF QueueInv, PeerRows, TornDownForGood, TornDown
<1>12. Removals' /\ NoLostChange'
  BY <1>5, <1>6, <1>8, <1>9, <1>10, <1>3 DEF QueueInv, Removals, NoLostChange
<1>13. QED
  BY <1>7, <1>11, <1>12 DEF QueueInv

\* What a lookup, which only touches the handler's call and lost, keeps.
LEMMA LookupKeeps ==
  ASSUME QueueInv, NEW h \in Handler, call[h].op \in {"peer", "user"},
         NEW c, call' = [call EXCEPT ![h] = c], \A t \in Server : c # RemovalCall(t),
         UNCHANGED <<srv, peer, queued, job, runner, delivered>>,
         \A t \in Server : lost[t] => lost'[t]
  PROVE  /\ JobMap' /\ RunnerShape' /\ OneRunner' /\ HasRunner'
         /\ PeerRows' /\ Removals' /\ TornDownForGood'
         /\ \A g \in Handler : g # h => call'[g] = call[g]
         /\ call'[h] = c
<1>1. /\ \A g \in Handler : g # h => call'[g] = call[g]
      /\ call'[h] = c
  BY DEF QueueInv, TypeOK
<1>2. \A t \in Server : RemovalPending(t)' <=> RemovalPending(t)
  BY <1>1 DEF RemovalPending, RemovalCall
<1>3. Removals'
  BY <1>2 DEF QueueInv, Removals, TornDown
<1>4. QED
  BY <1>1, <1>3 DEF QueueInv, JobMap, RunnerShape, OneRunner, HasRunner, PeerRows,
                    TornDownForGood, TornDown

\* What is owed through a lookup is what the lookup resolves to.
LEMMA OwedThroughLookup ==
  ASSUME TypeOK, NEW h \in Handler, call[h].op \in {"peer", "user"}, NEW t \in Server,
         \/ call[h].op = "peer" /\ peer[call[h].peer].srv = t
         \/ call[h].op = "user" /\ t \in ServersOf(call[h].user)
  PROVE  t \in Resolved(call[h])
BY ServerAssumption DEF Resolved

LEMMA ResolveCallInv ==
  ASSUME QueueInv, TypeOK', NEW h \in Handler, ResolveCall(h)
  PROVE  QueueInv'
<1> DEFINE c == Ask(Resolved(call[h]))
<1>1. call[h].op \in {"peer", "user"} /\ call' = [call EXCEPT ![h] = c]
      /\ UNCHANGED <<srv, peer, queued, job, runner, delivered, lost>>
  BY DEF ResolveCall
<1>2. \A t \in Server : c # RemovalCall(t)
  BY DEF Ask, NoCall, SyncCall, RemovalCall
<1>3. \A t \in Resolved(call[h]) : c.op = "sync" /\ t \in c.srvs
  BY DEF Ask, SyncCall
<1> HIDE DEF c
<1>4. /\ JobMap' /\ RunnerShape' /\ OneRunner' /\ HasRunner'
      /\ PeerRows' /\ Removals' /\ TornDownForGood'
      /\ \A g \in Handler : g # h => call'[g] = call[g]
      /\ call'[h] = c
  BY <1>1, <1>2, LookupKeeps
<1>5. ASSUME NEW t \in Server, Owed(t)  PROVE Owed(t)'
  <2>1. CASE \/ call[h].op = "peer" /\ peer[call[h].peer].srv = t
             \/ call[h].op = "user" /\ t \in ServersOf(call[h].user)
    <3>1. t \in Resolved(call[h])
      BY <1>1, <2>1, OwedThroughLookup DEF QueueInv
    <3>2. QED
      BY <1>3, <1>4, <3>1 DEF Owed
  <2>2. CASE ~(\/ call[h].op = "peer" /\ peer[call[h].peer].srv = t
               \/ call[h].op = "user" /\ t \in ServersOf(call[h].user))
    BY <1>1, <1>4, <1>5, <2>2 DEF Owed, ServersOf
  <2>3. QED
    BY <2>1, <2>2
<1>6. NoLostChange'
  BY <1>1, <1>5 DEF QueueInv, NoLostChange, Stale, Want, Desired
<1>7. QED
  BY <1>4, <1>6 DEF QueueInv

LEMMA LookupFailsInv ==
  ASSUME QueueInv, TypeOK', NEW h \in Handler, LookupFails(h)
  PROVE  QueueInv'
<1> PICK S \in SUBSET Resolved(call[h]) :
         /\ call' = [call EXCEPT ![h] = Ask(S)]
         /\ lost' = [s \in Server |-> lost[s] \/ (s \in Resolved(call[h]) \ S /\ Stale(s))]
  BY DEF LookupFails
<1> DEFINE c == Ask(S)
<1>1. /\ call[h].op \in {"peer", "user"} /\ call' = [call EXCEPT ![h] = c]
      /\ UNCHANGED <<srv, peer, queued, job, runner, delivered>>
      /\ \A t \in Server : lost'[t] = (lost[t] \/ (t \in Resolved(call[h]) \ S /\ Stale(t)))
  BY DEF LookupFails
<1>2. /\ \A t \in Server : c # RemovalCall(t)
      /\ \A t \in S : c.op = "sync" /\ t \in c.srvs
  BY DEF Ask, NoCall, SyncCall, RemovalCall
<1> HIDE DEF c
<1>3. /\ JobMap' /\ RunnerShape' /\ OneRunner' /\ HasRunner'
      /\ PeerRows' /\ Removals' /\ TornDownForGood'
      /\ \A g \in Handler : g # h => call'[g] = call[g]
      /\ call'[h] = c
  BY <1>1, <1>2, LookupKeeps
<1>4. ASSUME NEW t \in Server, Stale(t)'  PROVE Owed(t)' \/ lost'[t]
  <2>1. Stale(t)
    BY <1>1, <1>4 DEF Stale, Want, Desired
  <2>2. CASE \/ call[h].op = "peer" /\ peer[call[h].peer].srv = t
             \/ call[h].op = "user" /\ t \in ServersOf(call[h].user)
    <3>1. t \in Resolved(call[h])
      BY <1>1, <2>2, OwedThroughLookup DEF QueueInv
    <3>2. CASE t \in S
      BY <1>2, <1>3, <3>2 DEF Owed
    <3>3. CASE t \notin S
      BY <1>1, <2>1, <3>1, <3>3
    <3>4. QED
      BY <3>2, <3>3
  <2>3. CASE ~(\/ call[h].op = "peer" /\ peer[call[h].peer].srv = t
               \/ call[h].op = "user" /\ t \in ServersOf(call[h].user))
    <3>1. Owed(t) => Owed(t)'
      BY <1>1, <1>3, <2>3 DEF Owed, ServersOf
    <3>2. QED
      BY <1>1, <2>1, <3>1 DEF QueueInv, NoLostChange
  <2>4. QED
    BY <2>2, <2>3
<1>5. QED
  BY <1>3, <1>4 DEF QueueInv, NoLostChange

-----------------------------------------------------------------------------
(* The passes.                                                             *)

\* The server of a working goroutine has a job, and no other goroutine has it.
LEMMA WorkingRunner ==
  ASSUME QueueInv, NEW r \in Runner, runner[r].pc # "idle"
  PROVE  /\ runner[r].srv \in Server /\ runner[r].srv \in queued
         /\ \A q \in Runner : q # r /\ runner[q].pc # "idle" => runner[q].srv # runner[r].srv
BY DEF QueueInv, TypeOK, RunnerShape, OneRunner

\* What a goroutine that goes on to another step keeps.
LEMMA GotoKeeps ==
  ASSUME QueueInv, NEW r \in Runner, runner[r].pc # "idle",
         NEW pc, pc # "idle", Goto(r, pc), queued' = queued
  PROVE  /\ runner'[r].pc = pc /\ runner'[r].srv = runner[r].srv
         /\ \A q \in Runner : q # r => runner'[q] = runner[q]
         /\ OneRunner' /\ HasRunner'
<1>1. /\ runner'[r].pc = pc /\ runner'[r].srv = runner[r].srv
      /\ \A q \in Runner : q # r => runner'[q] = runner[q]
  BY DEF Goto, QueueInv, TypeOK
<1>2. \A q \in Runner : runner'[q].srv = runner[q].srv
                        /\ (runner'[q].pc # "idle" <=> runner[q].pc # "idle")
  BY <1>1
<1>3. OneRunner'
  BY <1>2 DEF QueueInv, OneRunner
<1>4. HasRunner'
  BY <1>2 DEF QueueInv, HasRunner
<1>5. QED
  BY <1>1, <1>3, <1>4

\* What is owed to a server a goroutine is not working for stays owed.
LEMMA OtherServerOwed ==
  ASSUME QueueInv, NEW r \in Runner, NEW t \in Server, Owed(t), t # runner[r].srv,
         UNCHANGED <<peer, call>>,
         job'[t] = job[t], t \in queued' <=> t \in queued,
         \A q \in Runner : q # r => runner'[q] = runner[q]
  PROVE  Owed(t)'
BY DEF Owed, ServersOf

\* A pass that neither moves the rows nor the job only changes what is owed
\* through the goroutine itself.
LEMMA SameServerOwed ==
  ASSUME QueueInv, NEW r \in Runner, NEW t \in Server, Owed(t),
         runner[r].pc \notin {"server", "peers"},
         UNCHANGED <<peer, call>>,
         job'[t].dirty = job[t].dirty, job'[t].remove = job[t].remove,
         t \in queued' <=> t \in queued,
         \A q \in Runner : q # r => runner'[q] = runner[q]
  PROVE  Owed(t)'
BY DEF Owed, ServersOf

\* A pending removal is a thing owed.
LEMMA RemovalOwed ==
  ASSUME NEW t \in Server, RemovalPending(t)
  PROVE  Owed(t)
BY DEF RemovalPending, Owed, RemovalCall

LEMMA TakePassInv ==
  ASSUME QueueInv, TypeOK', NEW r \in Runner, TakePass(r)
  PROVE  QueueInv'
<1>1. PICK s \in Server : s = runner[r].srv /\ s \in queued
  BY WorkingRunner DEF TakePass
<1>2. /\ runner[r].pc = "top"
      /\ UNCHANGED <<srv, peer, call, queued, delivered, lost>>
      /\ Goto(r, IF job[s].remove THEN "remove" ELSE "server")
      /\ job' = [job EXCEPT ![s].dirty = FALSE]
  BY <1>1 DEF TakePass
<1>3. /\ runner'[r].pc = (IF job[s].remove THEN "remove" ELSE "server")
      /\ runner'[r].srv = s
      /\ \A q \in Runner : q # r => runner'[q] = runner[q]
      /\ OneRunner' /\ HasRunner'
  BY <1>1, <1>2, GotoKeeps
<1>4. /\ \A t \in Server : t # s => job'[t] = job[t]
      /\ job'[s].running = job[s].running /\ job'[s].remove = job[s].remove
  BY <1>2 DEF QueueInv, TypeOK, Job
<1>5. JobMap'
  BY <1>1, <1>2, <1>4 DEF QueueInv, JobMap, NewJob
<1>6. \A t \in Server : job'[t].remove = job[t].remove
  BY <1>4
<1>7. RunnerShape'
  <2>1. \A q \in Runner : runner[q].pc # "idle" => runner[q].srv \in Server
    BY WorkingRunner
  <2>2. QED
    BY <1>1, <1>2, <1>3, <1>6, <2>1 DEF QueueInv, RunnerShape, Idle, TornDown
<1>8. \A t \in Server : RemovalPending(t)' <=> RemovalPending(t)
  BY <1>2, <1>6 DEF RemovalPending, RemovalCall
<1>9. PeerRows' /\ Removals'
  BY <1>2, <1>8 DEF QueueInv, PeerRows, Removals, TornDown
<1>10. TornDownForGood'
  BY <1>2, <1>3 DEF QueueInv, TornDownForGood, TornDown
<1>11. ASSUME NEW t \in Server, Owed(t)  PROVE Owed(t)'
  <2>1. CASE t = s
    <3>1. CASE job[s].remove
      BY <1>1, <1>2, <1>6, <2>1, <3>1 DEF Owed
    <3>2. CASE ~job[s].remove
      BY <1>3, <2>1, <3>2 DEF Owed
    <3>3. QED
      BY <3>1, <3>2
  <2>2. CASE t # s
    BY <1>1, <1>2, <1>3, <1>4, <1>11, <2>2, OtherServerOwed
  <2>3. QED
    BY <2>1, <2>2
<1>12. NoLostChange'
  BY <1>2, <1>11 DEF QueueInv, NoLostChange, Stale, Want, Desired
<1>13. QED
  BY <1>3, <1>5, <1>7, <1>9, <1>10, <1>12 DEF QueueInv

\* The invariant after a step that leaves rows, calls and jobs alone, but for
\* where the goroutine stands and what the queue has told wg-helper.
LEMMA PassKeeps ==
  ASSUME QueueInv, NEW r \in Runner, runner[r].pc # "idle", NEW pc, pc # "idle", Goto(r, pc),
         UNCHANGED <<srv, peer, call, queued, job>>,
         \A t \in Server : t # runner[r].srv => delivered'[t] = delivered[t]
  PROVE  /\ runner'[r].pc = pc /\ runner'[r].srv = runner[r].srv
         /\ \A q \in Runner : q # r => runner'[q] = runner[q]
         /\ JobMap' /\ OneRunner' /\ HasRunner' /\ PeerRows'
         /\ \A t \in Server : Want(t)' = Want(t) /\ (RemovalPending(t)' <=> RemovalPending(t))
         /\ (/\ pc = "peers" => ModeOf[runner[r].srv] = "local"
             /\ pc \in {"remove", "removing", "finish"} => job[runner[r].srv].remove
             /\ pc \in {"removing", "finish"} => delivered'[runner[r].srv] = TornDown)
            => RunnerShape'
<1>1. /\ runner'[r].pc = pc /\ runner'[r].srv = runner[r].srv
      /\ \A q \in Runner : q # r => runner'[q] = runner[q]
      /\ OneRunner' /\ HasRunner'
  BY GotoKeeps
<1>2. JobMap' /\ PeerRows'
  BY DEF QueueInv, JobMap, PeerRows
<1>3. \A t \in Server : Want(t)' = Want(t) /\ (RemovalPending(t)' <=> RemovalPending(t))
  BY DEF Want, Desired, RemovalPending, RemovalCall
<1>4. ASSUME pc = "peers" => ModeOf[runner[r].srv] = "local",
             pc \in {"remove", "removing", "finish"} => job[runner[r].srv].remove,
             pc \in {"removing", "finish"} => delivered'[runner[r].srv] = TornDown
      PROVE  RunnerShape'
  <2> SUFFICES ASSUME NEW q \in Runner
               PROVE  /\ runner'[q].pc = "idle" => runner'[q] = Idle
                      /\ runner'[q].pc # "idle" => runner'[q].srv \in queued'
                      /\ runner'[q].pc = "peers" => ModeOf[runner'[q].srv] = "local"
                      /\ runner'[q].pc \in {"remove", "removing", "finish"}
                           => job'[runner'[q].srv].remove
                      /\ runner'[q].pc \in {"removing", "finish"}
                           => delivered'[runner'[q].srv] = TornDown
    BY DEF RunnerShape, Idle, TornDown
  <2>1. CASE q = r
    BY <1>1, <1>4, <2>1, WorkingRunner
  <2>2. CASE q # r
    <3>1. runner[q].pc # "idle" => runner[q].srv \in Server /\ runner[q].srv # runner[r].srv
      BY <2>2, WorkingRunner
    <3>2. QED
      BY <1>1, <2>2, <3>1 DEF QueueInv, RunnerShape
  <2>3. QED
    BY <2>1, <2>2
<1>5. QED
  BY <1>1, <1>2, <1>3, <1>4

\* A deleted server that was not torn down and is not lost is owed its removal.
LEMMA DeletedIsOwed ==
  ASSUME QueueInv, NEW t \in Server, srv[t] = "deleted", Stale(t)
  PROVE  lost[t] \/ RemovalPending(t)
BY DEF QueueInv, Removals, Stale, Want

LEMMA ReadServerInv ==
  ASSUME QueueInv, TypeOK', NEW r \in Runner, ReadServer(r)
  PROVE  QueueInv'
<1>1. PICK s \in Server : s = runner[r].srv
  BY WorkingRunner DEF ReadServer
<1> DEFINE pc == IF srv[s] = "present" /\ ModeOf[s] = "local" THEN "peers" ELSE "decide"
<1>2. /\ runner[r].pc = "server" /\ Goto(r, pc)
      /\ UNCHANGED <<srv, peer, call, queued, job, delivered, lost>>
  BY <1>1 DEF ReadServer
<1>3. /\ runner'[r].pc = pc /\ runner'[r].srv = s
      /\ \A q \in Runner : q # r => runner'[q] = runner[q]
      /\ JobMap' /\ OneRunner' /\ HasRunner' /\ PeerRows' /\ RunnerShape'
      /\ \A t \in Server : Want(t)' = Want(t) /\ (RemovalPending(t)' <=> RemovalPending(t))
  BY <1>1, <1>2, PassKeeps
<1>4. Removals'
  BY <1>2, <1>3 DEF QueueInv, Removals, TornDown
<1>5. TornDownForGood'
  <2>1. pc = "peers" => srv[s] # "deleted"
    OBVIOUS
  <2>2. QED
    BY <1>2, <1>3, <2>1 DEF QueueInv, TornDownForGood, TornDown
<1>6. ASSUME NEW t \in Server, Stale(t)'  PROVE Owed(t)' \/ lost'[t]
  <2>1. Stale(t)
    BY <1>2, <1>3, <1>6 DEF Stale
  <2>2. CASE t = s /\ pc = "peers"
    BY <1>3, <2>2 DEF Owed
  <2>3. CASE t = s /\ pc = "decide"
    <3>1. srv[s] = "deleted"
      BY <2>1, <2>3 DEF QueueInv, TypeOK, Stale, Want, Nothing
    <3>2. lost[s] \/ RemovalPending(s)
      BY <2>1, <2>3, <3>1, DeletedIsOwed
    <3>3. RemovalPending(s) => Owed(s)'
      BY <1>2, <1>3 DEF RemovalPending, Owed, RemovalCall
    <3>4. QED
      BY <1>2, <2>3, <3>2, <3>3
  <2>4. CASE t # s
    BY <1>1, <1>2, <1>3, <2>1, <2>4, OtherServerOwed DEF QueueInv, NoLostChange
  <2>5. QED
    BY <2>2, <2>3, <2>4
<1>7. QED
  BY <1>3, <1>4, <1>5, <1>6 DEF QueueInv, NoLostChange

LEMMA SendApplyInv ==
  ASSUME QueueInv, TypeOK', NEW r \in Runner, SendApply(r)
  PROVE  QueueInv'
<1>1. PICK s \in Server : s = runner[r].srv
  BY WorkingRunner DEF SendApply
<1>2. /\ runner[r].pc = "peers" /\ Goto(r, "applying")
      /\ UNCHANGED <<srv, peer, call, queued, job>>
  BY DEF SendApply
<1>3. /\ \A t \in Server : t # s => delivered'[t] = delivered[t] /\ lost'[t] = lost[t]
      /\ delivered'[s] = Applied(Desired(s)) /\ lost'[s] = (lost[s] /\ srv[s] # "present")
  BY <1>1 DEF SendApply, QueueInv, TypeOK
<1>4. /\ runner'[r].pc = "applying" /\ runner'[r].srv = s
      /\ \A q \in Runner : q # r => runner'[q] = runner[q]
      /\ JobMap' /\ OneRunner' /\ HasRunner' /\ PeerRows' /\ RunnerShape'
      /\ \A t \in Server : Want(t)' = Want(t) /\ (RemovalPending(t)' <=> RemovalPending(t))
  BY <1>1, <1>2, <1>3, PassKeeps
<1>5. ModeOf[s] = "local" /\ delivered[s] # TornDown
  BY <1>1, <1>2 DEF QueueInv, RunnerShape, TornDownForGood, TornDown
<1>6. Applied(Desired(s)) # TornDown
  BY DEF Applied, TornDown
<1>7. Removals'
  <2>1. srv[s] = "deleted" => lost'[s] \/ RemovalPending(s)'
    BY <1>3, <1>4, <1>5 DEF QueueInv, Removals
  <2>2. QED
    BY <1>2, <1>3, <1>4, <2>1 DEF QueueInv, Removals, TornDown
<1>8. TornDownForGood'
  <2>1. \A t \in Server : delivered'[t] = TornDown => t # s /\ delivered[t] = TornDown
    BY <1>3, <1>6
  <2>2. QED
    BY <1>2, <1>4, <2>1 DEF QueueInv, TornDownForGood, TornDown
<1>9. ASSUME NEW t \in Server, Stale(t)'  PROVE Owed(t)' \/ lost'[t]
  <2>1. CASE t = s
    <3>1. srv[s] = "deleted"
      BY <1>3, <1>4, <1>5, <1>9, <2>1 DEF QueueInv, TypeOK, Stale, Want, Nothing
    <3>2. lost'[s] \/ RemovalPending(s)
      BY <1>3, <1>5, <3>1 DEF QueueInv, Removals
    <3>3. RemovalPending(s) => Owed(s)'
      BY <1>2 DEF RemovalPending, Owed, RemovalCall
    <3>4. QED
      BY <2>1, <3>2, <3>3
  <2>2. CASE t # s
    <3>1. Stale(t)
      BY <1>3, <1>4, <1>9, <2>2 DEF Stale
    <3>2. QED
      BY <1>1, <1>2, <1>3, <1>4, <2>2, <3>1, OtherServerOwed DEF QueueInv, NoLostChange
  <2>3. QED
    BY <2>1, <2>2
<1>10. QED
  BY <1>4, <1>7, <1>8, <1>9 DEF QueueInv, NoLostChange

LEMMA SendTruncatedInv ==
  ASSUME QueueInv, TypeOK', NEW r \in Runner, SendTruncated(r)
  PROVE  QueueInv'
<1>1. PICK s \in Server : s = runner[r].srv
  BY WorkingRunner DEF SendTruncated
<1>2. /\ runner[r].pc = "peers" /\ Goto(r, "applying")
      /\ UNCHANGED <<srv, peer, call, queued, job>>
  BY DEF SendTruncated
<1>3. PICK P \in SUBSET Desired(s) : delivered' = [delivered EXCEPT ![s] = Applied(P)]
  BY <1>1 DEF SendTruncated
<1>4. /\ \A t \in Server : t # s => delivered'[t] = delivered[t] /\ lost'[t] = lost[t]
      /\ delivered'[s] = Applied(P) /\ lost'[s]
  BY <1>1, <1>3 DEF SendTruncated, QueueInv, TypeOK
<1>5. /\ runner'[r].pc = "applying" /\ runner'[r].srv = s
      /\ \A q \in Runner : q # r => runner'[q] = runner[q]
      /\ JobMap' /\ OneRunner' /\ HasRunner' /\ PeerRows' /\ RunnerShape'
      /\ \A t \in Server : Want(t)' = Want(t) /\ (RemovalPending(t)' <=> RemovalPending(t))
  BY <1>1, <1>2, <1>4, PassKeeps
<1>6. Removals'
  BY <1>2, <1>4, <1>5 DEF QueueInv, Removals, TornDown
<1>7. TornDownForGood'
  <2>1. \A t \in Server : delivered'[t] = TornDown => t # s /\ delivered[t] = TornDown
    BY <1>4 DEF Applied, TornDown
  <2>2. QED
    BY <1>2, <1>5, <2>1 DEF QueueInv, TornDownForGood, TornDown
<1>8. ASSUME NEW t \in Server, Stale(t)'  PROVE Owed(t)' \/ lost'[t]
  <2>1. CASE t = s
    BY <1>4, <2>1
  <2>2. CASE t # s
    <3>1. Stale(t)
      BY <1>4, <1>5, <1>8, <2>2 DEF Stale
    <3>2. QED
      BY <1>1, <1>2, <1>4, <1>5, <2>2, <3>1, OtherServerOwed DEF QueueInv, NoLostChange
  <2>3. QED
    BY <2>1, <2>2
<1>9. QED
  BY <1>5, <1>6, <1>7, <1>8 DEF QueueInv, NoLostChange

LEMMA ReadFailsInv ==
  ASSUME QueueInv, TypeOK', NEW r \in Runner, ReadFails(r)
  PROVE  QueueInv'
<1>1. PICK s \in Server : s = runner[r].srv
  BY WorkingRunner DEF ReadFails
<1>2. /\ runner[r].pc \in {"server", "peers"} /\ Goto(r, "decide")
      /\ UNCHANGED <<srv, peer, call, queued, job, delivered>>
  BY DEF ReadFails
<1>3. /\ \A t \in Server : t # s => lost'[t] = lost[t]
      /\ lost'[s] = (lost[s] \/ Stale(s))
  BY <1>1 DEF ReadFails, QueueInv, TypeOK
<1>4. /\ runner'[r].pc = "decide" /\ runner'[r].srv = s
      /\ \A q \in Runner : q # r => runner'[q] = runner[q]
      /\ JobMap' /\ OneRunner' /\ HasRunner' /\ PeerRows' /\ RunnerShape'
      /\ \A t \in Server : Want(t)' = Want(t) /\ (RemovalPending(t)' <=> RemovalPending(t))
  BY <1>1, <1>2, PassKeeps
<1>5. Removals'
  BY <1>2, <1>3, <1>4 DEF QueueInv, Removals, TornDown
<1>6. TornDownForGood'
  BY <1>2, <1>4 DEF QueueInv, TornDownForGood, TornDown
<1>7. ASSUME NEW t \in Server, Stale(t)'  PROVE Owed(t)' \/ lost'[t]
  <2>1. Stale(t)
    BY <1>2, <1>4, <1>7 DEF Stale
  <2>2. CASE t = s
    BY <1>3, <2>1, <2>2
  <2>3. CASE t # s
    BY <1>1, <1>2, <1>3, <1>4, <2>1, <2>3, OtherServerOwed DEF QueueInv, NoLostChange
  <2>4. QED
    BY <2>2, <2>3
<1>8. QED
  BY <1>4, <1>5, <1>6, <1>7 DEF QueueInv, NoLostChange

LEMMA ReturnInv ==
  ASSUME QueueInv, TypeOK', NEW r \in Runner, Return(r)
  PROVE  QueueInv'
<1>1. PICK s \in Server : s = runner[r].srv
  BY WorkingRunner DEF Return
<1> DEFINE pc == IF runner[r].pc = "applying" THEN "decide" ELSE "finish"
<1>2. /\ runner[r].pc \in {"applying", "removing"} /\ Goto(r, pc)
      /\ UNCHANGED <<srv, peer, call, queued, job, delivered, lost>>
  BY DEF Return
<1>3. pc = "finish" => job[s].remove /\ delivered[s] = TornDown
  BY <1>1, <1>2 DEF QueueInv, RunnerShape
<1>4. /\ runner'[r].pc = pc /\ runner'[r].srv = s
      /\ \A q \in Runner : q # r => runner'[q] = runner[q]
      /\ JobMap' /\ OneRunner' /\ HasRunner' /\ PeerRows' /\ RunnerShape'
      /\ \A t \in Server : Want(t)' = Want(t) /\ (RemovalPending(t)' <=> RemovalPending(t))
  BY <1>1, <1>2, <1>3, PassKeeps
<1>5. Removals'
  BY <1>2, <1>4 DEF QueueInv, Removals, TornDown
<1>6. TornDownForGood'
  BY <1>2, <1>4 DEF QueueInv, TornDownForGood, TornDown
<1>7. \A t \in Server : Owed(t) => Owed(t)'
  BY <1>2, <1>4, SameServerOwed
<1>8. NoLostChange'
  BY <1>2, <1>4, <1>7 DEF QueueInv, NoLostChange, Stale
<1>9. QED
  BY <1>4, <1>5, <1>6, <1>8 DEF QueueInv

LEMMA SendRemoveInv ==
  ASSUME QueueInv, TypeOK', NEW r \in Runner, SendRemove(r)
  PROVE  QueueInv'
<1>1. PICK s \in Server : s = runner[r].srv /\ s \in queued
  BY WorkingRunner DEF SendRemove
<1>2. /\ runner[r].pc = "remove" /\ Goto(r, "removing")
      /\ UNCHANGED <<srv, peer, call, queued, job>>
  BY DEF SendRemove
<1>3. /\ \A t \in Server : t # s => delivered'[t] = delivered[t] /\ lost'[t] = lost[t]
      /\ delivered'[s] = TornDown
  BY <1>1 DEF SendRemove, QueueInv, TypeOK
<1>4. job[s].remove /\ srv[s] = "deleted"
  BY <1>1, <1>2 DEF QueueInv, RunnerShape, Removals, RemovalPending
<1>5. /\ runner'[r].pc = "removing" /\ runner'[r].srv = s
      /\ \A q \in Runner : q # r => runner'[q] = runner[q]
      /\ JobMap' /\ OneRunner' /\ HasRunner' /\ PeerRows' /\ RunnerShape'
      /\ \A t \in Server : Want(t)' = Want(t) /\ (RemovalPending(t)' <=> RemovalPending(t))
  BY <1>1, <1>2, <1>3, <1>4, PassKeeps
<1>6. Removals'
  BY <1>2, <1>3, <1>4, <1>5 DEF QueueInv, Removals, TornDown
<1>7. TornDownForGood'
  <2>1. \A q \in Runner : ~(runner'[q].srv = s /\ runner'[q].pc = "peers")
    BY <1>1, <1>2, <1>5, WorkingRunner
  <2>2. QED
    BY <1>2, <1>3, <1>4, <1>5, <2>1 DEF QueueInv, TornDownForGood, TornDown
<1>8. ASSUME NEW t \in Server, Stale(t)'  PROVE Owed(t)' \/ lost'[t]
  <2>1. t # s
    BY <1>2, <1>3, <1>4, <1>8 DEF Stale, Want, TornDown
  <2>2. Stale(t)
    BY <1>3, <1>5, <1>8, <2>1 DEF Stale
  <2>3. QED
    BY <1>1, <1>2, <1>3, <1>5, <2>1, <2>2, OtherServerOwed DEF QueueInv, NoLostChange
<1>9. QED
  BY <1>5, <1>6, <1>7, <1>8 DEF QueueInv, NoLostChange

\* What a goroutine that drops its job keeps.
LEMMA RetireKeeps ==
  ASSUME QueueInv, NEW r \in Runner, runner[r].pc # "idle", Retire(r),
         UNCHANGED <<srv, peer, call, delivered, lost>>
  PROVE  /\ JobMap' /\ RunnerShape' /\ OneRunner' /\ HasRunner' /\ PeerRows' /\ TornDownForGood'
         /\ runner'[r].pc = "idle"
         /\ \A q \in Runner : q # r => runner'[q] = runner[q]
         /\ \A t \in Server : /\ Stale(t)' <=> Stale(t)
                              /\ t # runner[r].srv => job'[t] = job[t]
                                                      /\ (t \in queued' <=> t \in queued)
<1>1. PICK s \in Server : s = runner[r].srv
  BY WorkingRunner
<1>2. /\ queued' = queued \ {s}
      /\ \A t \in Server : job'[t] = IF t = s THEN NewJob ELSE job[t]
      /\ runner'[r] = Idle
      /\ \A q \in Runner : q # r => runner'[q] = runner[q]
  BY <1>1 DEF Retire, QueueInv, TypeOK
<1>3. JobMap'
  BY <1>1, <1>2 DEF QueueInv, JobMap, NewJob
<1>4. RunnerShape'
  <2> SUFFICES ASSUME NEW q \in Runner
               PROVE  /\ runner'[q].pc = "idle" => runner'[q] = Idle
                      /\ runner'[q].pc # "idle" => runner'[q].srv \in queued'
                      /\ runner'[q].pc = "peers" => ModeOf[runner'[q].srv] = "local"
                      /\ runner'[q].pc \in {"remove", "removing", "finish"}
                           => job'[runner'[q].srv].remove
                      /\ runner'[q].pc \in {"removing", "finish"}
                           => delivered'[runner'[q].srv] = TornDown
    BY DEF RunnerShape, Idle, TornDown
  <2>1. CASE q = r
    BY <1>2, <2>1 DEF Idle
  <2>2. CASE q # r
    <3>1. runner[q].pc # "idle" => runner[q].srv \in Server /\ runner[q].srv # s
      BY <1>1, <2>2, WorkingRunner
    <3>2. QED
      BY <1>2, <2>2, <3>1 DEF QueueInv, RunnerShape
  <2>3. QED
    BY <2>1, <2>2
<1>5. OneRunner'
  BY <1>2 DEF QueueInv, OneRunner, Idle
<1>6. HasRunner'
  BY <1>1, <1>2 DEF QueueInv, HasRunner
<1>7. PeerRows'
  BY DEF QueueInv, PeerRows, NoRow
<1>8. TornDownForGood'
  BY <1>2 DEF QueueInv, TornDownForGood, TornDown, Idle
<1>9. \A t \in Server : Stale(t)' <=> Stale(t)
  BY DEF Stale, Want, Desired
<1>10. QED
  BY <1>1, <1>2, <1>3, <1>4, <1>5, <1>6, <1>7, <1>8, <1>9 DEF Idle

LEMMA DecideInv ==
  ASSUME QueueInv, TypeOK', NEW r \in Runner, Decide(r)
  PROVE  QueueInv'
<1>1. PICK s \in Server : s = runner[r].srv
  BY WorkingRunner DEF Decide
<1>2. runner[r].pc = "decide" /\ UNCHANGED <<srv, peer, call, delivered, lost>>
  BY DEF Decide
<1>3. CASE job[s].remove \/ job[s].dirty
  <2>1. Goto(r, "top") /\ UNCHANGED <<queued, job>>
    BY <1>1, <1>3 DEF Decide
  <2>2. /\ runner'[r].pc = "top" /\ runner'[r].srv = s
        /\ \A q \in Runner : q # r => runner'[q] = runner[q]
        /\ JobMap' /\ OneRunner' /\ HasRunner' /\ PeerRows' /\ RunnerShape'
        /\ \A t \in Server : Want(t)' = Want(t) /\ (RemovalPending(t)' <=> RemovalPending(t))
    BY <1>1, <1>2, <2>1, PassKeeps
  <2>3. Removals' /\ TornDownForGood'
    BY <1>2, <2>2 DEF QueueInv, Removals, TornDownForGood, TornDown
  <2>4. \A t \in Server : Owed(t) => Owed(t)'
    BY <1>2, <2>1, <2>2, SameServerOwed
  <2>5. NoLostChange'
    BY <1>2, <2>2, <2>4 DEF QueueInv, NoLostChange, Stale
  <2>6. QED
    BY <2>2, <2>3, <2>5 DEF QueueInv
<1>4. CASE ~(job[s].remove \/ job[s].dirty)
  <2>1. Retire(r)
    BY <1>1, <1>4 DEF Decide
  <2>2. /\ JobMap' /\ RunnerShape' /\ OneRunner' /\ HasRunner' /\ PeerRows' /\ TornDownForGood'
        /\ runner'[r].pc = "idle"
        /\ \A q \in Runner : q # r => runner'[q] = runner[q]
        /\ \A t \in Server : /\ Stale(t)' <=> Stale(t)
                             /\ t # s => job'[t] = job[t] /\ (t \in queued' <=> t \in queued)
    BY <1>1, <1>2, <2>1, RetireKeeps
  <2>3. ~job'[s].remove
    BY <1>1, <2>1 DEF Retire, QueueInv, TypeOK, NewJob
  <2>4. \A t \in Server : RemovalPending(t)' <=> RemovalPending(t)
    BY <1>2, <1>4, <2>2, <2>3 DEF RemovalPending, RemovalCall
  <2>5. Removals'
    BY <1>2, <2>4 DEF QueueInv, Removals, TornDown
  <2>6. ASSUME NEW t \in Server, Owed(t)  PROVE Owed(t)'
    <3>1. CASE t # s
      BY <1>1, <1>2, <2>2, <2>6, <3>1, OtherServerOwed
    <3>2. CASE t = s
      BY <1>2, <1>4, <2>2, <2>6, <3>2 DEF Owed, ServersOf
    <3>3. QED
      BY <3>1, <3>2
  <2>7. NoLostChange'
    BY <1>2, <2>2, <2>6 DEF QueueInv, NoLostChange
  <2>8. QED
    BY <2>2, <2>5, <2>7 DEF QueueInv
<1>5. QED
  BY <1>3, <1>4

LEMMA FinishInv ==
  ASSUME QueueInv, TypeOK', NEW r \in Runner, Finish(r)
  PROVE  QueueInv'
<1>1. PICK s \in Server : s = runner[r].srv
  BY WorkingRunner DEF Finish
<1>2. runner[r].pc = "finish" /\ Retire(r) /\ UNCHANGED <<srv, peer, call, delivered, lost>>
  BY DEF Finish
<1>3. delivered[s] = TornDown /\ srv[s] = "deleted"
  BY <1>1, <1>2 DEF QueueInv, RunnerShape, TornDownForGood
<1>4. /\ JobMap' /\ RunnerShape' /\ OneRunner' /\ HasRunner' /\ PeerRows' /\ TornDownForGood'
      /\ runner'[r].pc = "idle"
      /\ \A q \in Runner : q # r => runner'[q] = runner[q]
      /\ \A t \in Server : /\ Stale(t)' <=> Stale(t)
                           /\ t # s => job'[t] = job[t] /\ (t \in queued' <=> t \in queued)
  BY <1>1, <1>2, RetireKeeps
<1>5. /\ \A t \in Server : RemovalPending(t)' => RemovalPending(t) \/ t = s
      /\ \A t \in Server : t # s => (RemovalPending(t)' <=> RemovalPending(t))
  BY <1>2, <1>4 DEF RemovalPending, RemovalCall
<1>6. Removals'
  BY <1>2, <1>3, <1>5 DEF QueueInv, Removals, TornDown
<1>7. ASSUME NEW t \in Server, Stale(t)'  PROVE Owed(t)' \/ lost'[t]
  <2>1. Stale(t) /\ t # s
    BY <1>3, <1>4, <1>7 DEF Stale, Want
  <2>2. QED
    BY <1>1, <1>2, <1>4, <2>1, OtherServerOwed DEF QueueInv, NoLostChange
<1>8. QED
  BY <1>4, <1>6, <1>7 DEF QueueInv, NoLostChange

LEMMA CrashInv ==
  ASSUME QueueInv, TypeOK', Crash
  PROVE  QueueInv'
<1>1. /\ UNCHANGED <<srv, peer, delivered>> /\ queued' = {}
      /\ \A h \in Handler : call'[h] = NoCall
      /\ \A r \in Runner : runner'[r] = Idle
      /\ \A s \in Server : job'[s] = NewJob /\ lost'[s] = (lost[s] \/ Stale(s))
  BY DEF Crash
<1>2. JobMap' /\ RunnerShape' /\ OneRunner' /\ HasRunner' /\ PeerRows'
  BY <1>1 DEF QueueInv, JobMap, NewJob, RunnerShape, OneRunner, HasRunner, PeerRows, Idle, NoRow
<1>3. \A s \in Server : ~RemovalPending(s)'
  BY <1>1 DEF RemovalPending, NoCall, RemovalCall
<1>4. Removals'
  <2>1. \A s \in Server : srv[s] = "deleted" => delivered[s] = TornDown \/ Stale(s)
    BY DEF Stale, Want, TornDown
  <2>2. QED
    BY <1>1, <1>3, <2>1 DEF Removals, TornDown
<1>5. TornDownForGood'
  BY <1>1 DEF QueueInv, TornDownForGood, TornDown, Idle
<1>6. NoLostChange'
  BY <1>1 DEF NoLostChange, Stale, Want, Desired
<1>7. QED
  BY <1>2, <1>4, <1>5, <1>6 DEF QueueInv

-----------------------------------------------------------------------------
(* The invariant, and what it says of the specification.                   *)

LEMMA QueueInvInit == Init => QueueInv
<1> SUFFICES ASSUME Init  PROVE QueueInv
  OBVIOUS
<1>1. TypeOK
  BY TypeInit
<1>2. JobMap /\ RunnerShape /\ OneRunner /\ HasRunner /\ PeerRows
  BY DEF Init, JobMap, RunnerShape, OneRunner, HasRunner, PeerRows, Idle, NewJob, NoRow
<1>3. Removals /\ TornDownForGood
  BY DEF Init, Removals, RemovalPending, TornDownForGood, NoCall, RemovalCall, Nothing, TornDown
<1>4. NoLostChange
  BY DEF Init, NoLostChange, Stale, Want, Nothing
<1>5. QED
  BY <1>1, <1>2, <1>3, <1>4 DEF QueueInv

LEMMA QueueInvStep == QueueInv /\ [Next]_vars => QueueInv'
<1> SUFFICES ASSUME QueueInv, [Next]_vars  PROVE QueueInv'
  OBVIOUS
<1>1. CASE UNCHANGED vars
  <2>1. TypeOK' /\ JobMap' /\ RunnerShape' /\ OneRunner' /\ HasRunner' /\ PeerRows'
    BY <1>1 DEF vars, QueueInv, TypeOK, JobMap, RunnerShape, OneRunner, HasRunner, PeerRows
  <2>2. Removals' /\ TornDownForGood'
    BY <1>1 DEF vars, QueueInv, Removals, RemovalPending, TornDownForGood
  <2>3. \A s \in Server : (Stale(s)' <=> Stale(s)) /\ (Owed(s)' <=> Owed(s))
    BY <1>1 DEF vars, Stale, Want, Desired, Owed, ServersOf
  <2>4. NoLostChange'
    BY <1>1, <2>3 DEF vars, QueueInv, NoLostChange
  <2>5. QED
    BY <2>1, <2>2, <2>4 DEF QueueInv
<1>2. CASE Next
  <2>1. TypeOK'
    BY <1>2, TypePreserved DEF QueueInv
  <2>2. ASSUME NEW h \in Handler, Admin(h) \/ Answer(h)  PROVE QueueInv'
    BY <2>1, <2>2, AdminInv, AskSyncInv, ResolveCallInv, LookupFailsInv, RequestServerRemovalInv
       DEF Answer
  <2>3. ASSUME NEW r \in Runner, Pass(r)  PROVE QueueInv'
    BY <2>1, <2>3, TakePassInv, ReadServerInv, SendApplyInv, SendTruncatedInv, ReadFailsInv,
       ReturnInv, DecideInv, SendRemoveInv, FinishInv DEF Pass
  <2>4. QED
    BY <1>2, <2>1, <2>2, <2>3, CrashInv DEF Next
<1>3. QED
  BY <1>1, <1>2

\* The inductive invariant holds of every reachable state.
THEOREM QueueInvariant == SafetySpec => []QueueInv
BY QueueInvInit, QueueInvStep, PTL DEF SafetySpec

\* The newest committed state wins, for any number of servers and handlers:
\* whatever wg-helper has not been told yet is either still owed or was dropped
\* by an error or a crash.
THEOREM NothingForgotten == SafetySpec => []NoLostChange
<1>1. QueueInv => NoLostChange
  BY DEF QueueInv
<1>2. QED
  BY <1>1, QueueInvariant, PTL

\* At most one goroutine works for a server, and a job in the map has one.
THEOREM SingleRunner == SafetySpec => []OneRunnerPerServer
<1>1. QueueInv => OneRunnerPerServer
  <2> SUFFICES ASSUME QueueInv  PROVE OneRunnerPerServer
    OBVIOUS
  <2>1. \A r \in Runner : runner[r] # Idle <=> runner[r].pc # "idle"
    BY DEF QueueInv, RunnerShape, Idle
  <2>2. ASSUME NEW s \in Server  PROVE (s \in queued) <=> (Working(s) # {})
    <3>1. ASSUME s \in queued  PROVE Working(s) # {}
      BY <2>1, <3>1 DEF QueueInv, HasRunner, Working
    <3>2. ASSUME Working(s) # {}  PROVE s \in queued
      BY <2>1, <3>2 DEF QueueInv, RunnerShape, Working
    <3>3. QED
      BY <3>1, <3>2
  <2>3. QED
    BY <2>1, <2>2 DEF QueueInv, OneRunner, OneRunnerPerServer
<1>2. QED
  BY <1>1, QueueInvariant, PTL

\* Only a pass that sends something tells wg-helper anything, and only about its
\* own server.
LEMMA Told ==
  ASSUME QueueInv, [Next]_vars, NEW s \in Server, delivered'[s] # delivered[s]
  PROVE  \E r \in Runner : /\ runner[r].srv = s
                           /\ SendApply(r) \/ SendTruncated(r) \/ SendRemove(r)
<1>1. delivered' # delivered
  OBVIOUS
<1>2. PICK r \in Runner : SendApply(r) \/ SendTruncated(r) \/ SendRemove(r)
  <2>1. ASSUME NEW h \in Handler, Admin(h) \/ Answer(h)  PROVE delivered' = delivered
    BY <2>1 DEF Admin, CreateServer, DeleteServer, CreatePeer, SuspendPeer, ResumePeer,
                DeletePeer, UpdatePeer, SetPeerStatus, SuspendUser, ResumeUser, DeleteUser,
                SetUserPeers, Commit, Answer, AskSync, ResolveCall, LookupFails,
                RequestServerRemoval
  <2>2. ASSUME NEW q \in Runner, Pass(q), ~SendApply(q), ~SendTruncated(q), ~SendRemove(q)
        PROVE  delivered' = delivered
    BY <2>2 DEF Pass, TakePass, ReadServer, ReadFails, Return, Decide, Finish
  <2>3. Crash => delivered' = delivered
    BY DEF Crash
  <2>4. UNCHANGED vars => delivered' = delivered
    BY DEF vars
  <2>5. QED
    BY <1>1, <2>1, <2>2, <2>3, <2>4 DEF Next
<1>3. runner[r].srv = s
  BY <1>2 DEF SendApply, SendTruncated, SendRemove, QueueInv, TypeOK
<1>4. QED
  BY <1>2, <1>3

\* Teardown is terminal: a server wg-helper was told to remove is never the
\* subject of another apply, whatever handlers and passes were under way.
THEOREM TornDownStays == SafetySpec => TeardownIsTerminal
<1>1. ASSUME QueueInv, [Next]_vars, NEW s \in Server, delivered[s] = TornDown
      PROVE  delivered'[s] = TornDown
  <2> SUFFICES ASSUME delivered'[s] # delivered[s]  PROVE delivered'[s] = TornDown
    BY <1>1
  <2>1. PICK r \in Runner : /\ runner[r].srv = s
                            /\ SendApply(r) \/ SendTruncated(r) \/ SendRemove(r)
    BY <1>1, Told
  <2>2. ~SendApply(r) /\ ~SendTruncated(r)
    BY <1>1, <2>1 DEF SendApply, SendTruncated, QueueInv, TornDownForGood
  <2>3. QED
    BY <1>1, <2>1, <2>2 DEF SendRemove, QueueInv, TypeOK
<1>2. QueueInv /\ [Next]_vars
        => [\A s \in Server : delivered[s] = TornDown => delivered'[s] = TornDown]_vars
  BY <1>1
<1>3. QED
  BY <1>2, QueueInvariant, PTL DEF SafetySpec, TeardownIsTerminal

-----------------------------------------------------------------------------
(* The queue only ever works for servers that were created.                *)

KnownServers ==
    /\ \A s \in queued : srv[s] # "new"
    /\ \A h \in Handler : call[h].op = "sync" => \A s \in call[h].srvs : srv[s] # "new"

LEMMA ResolvedKnown ==
  ASSUME QueueInv, NEW h \in Handler, call[h].op \in {"peer", "user"},
         NEW s \in Resolved(call[h])
  PROVE  s \in Server /\ srv[s] = "present"
<1>1. \A p \in Peer : peer[p].srv # NoServer
                      => peer[p].srv \in Server /\ srv[peer[p].srv] = "present"
  BY DEF QueueInv, PeerRows, NoRow
<1>2. call[h].op = "peer" => call[h].peer \in Peer
  BY CallTags DEF QueueInv
<1>3. QED
  BY <1>1, <1>2 DEF Resolved, ServersOf

\* A step of the handlers' commits never makes a created server new again.
LEMMA KnownCommit ==
  ASSUME QueueInv, KnownServers, NEW h \in Handler, Admin(h)
  PROVE  KnownServers' /\ UNCHANGED <<queued, job, runner, delivered, lost>>
                       /\ \A s \in Server : (srv[s] # "new" => srv'[s] # "new")
                                            /\ (srv[s] = "deleted" => srv'[s] = "deleted")
<1>1. PICK c : /\ Commit(h, c)
               /\ c.op = "sync" => \A s \in c.srvs : srv'[s] # "new"
  <2>1. ASSUME NEW s \in Server, CreateServer(h, s)
        PROVE  \E c : /\ Commit(h, c)
                      /\ c.op = "sync" => \A t \in c.srvs : srv'[t] # "new"
    <3>1. srv'[s] = "present"
      BY <2>1 DEF CreateServer, QueueInv, TypeOK
    <3>2. CASE ModeOf[s] = "local"
      BY <2>1, <3>1, <3>2 DEF CreateServer, SyncCall
    <3>3. CASE ModeOf[s] # "local"
      BY <2>1, <3>3 DEF CreateServer, NoCall
    <3>4. QED
      BY <3>2, <3>3
  <2>2. ASSUME NEW s \in Server, DeleteServer(h, s)
        PROVE  \E c : /\ Commit(h, c)
                      /\ c.op = "sync" => \A t \in c.srvs : srv'[t] # "new"
    BY <2>2 DEF DeleteServer, RemovalCall
  <2>3. ASSUME NEW s \in Server, NEW p \in Peer, CreatePeer(h, p, s)
        PROVE  \E c : /\ Commit(h, c)
                      /\ c.op = "sync" => \A t \in c.srvs : srv'[t] # "new"
    BY <2>3 DEF CreatePeer, SyncCall
  <2>4. ASSUME NEW p \in Peer, NEW st, SetPeerStatus(h, p, st)
        PROVE  \E c : /\ Commit(h, c)
                      /\ c.op = "sync" => \A t \in c.srvs : srv'[t] # "new"
    BY <2>4 DEF SetPeerStatus, PeerCall
  <2>5. ASSUME NEW u \in User, NEW from, NEW to, SetUserPeers(h, u, from, to)
        PROVE  \E c : /\ Commit(h, c)
                      /\ c.op = "sync" => \A t \in c.srvs : srv'[t] # "new"
    BY <2>5 DEF SetUserPeers, UserCall
  <2>6. QED
    BY <2>1, <2>2, <2>3, <2>4, <2>5 DEF Admin, SuspendPeer, ResumePeer, DeletePeer,
       UpdatePeer, SuspendUser, ResumeUser, DeleteUser
<1>2. \A s \in Server : (srv[s] # "new" => srv'[s] # "new")
                        /\ (srv[s] = "deleted" => srv'[s] = "deleted")
  BY DEF Admin, CreateServer, DeleteServer, CreatePeer, SuspendPeer, ResumePeer, DeletePeer,
         UpdatePeer, SetPeerStatus, SuspendUser, ResumeUser, DeleteUser, SetUserPeers,
         QueueInv, TypeOK
<1>3. KnownServers'
  <2>1. \A s \in queued' : srv'[s] # "new"
    BY <1>1, <1>2 DEF Commit, KnownServers, QueueInv, TypeOK
  <2>2. ASSUME NEW g \in Handler, call'[g].op = "sync", NEW s \in call'[g].srvs
        PROVE  srv'[s] # "new"
    <3>1. CASE g = h
      BY <1>1, <2>2, <3>1 DEF Commit, QueueInv, TypeOK
    <3>2. CASE g # h
      <4>1. call'[g] = call[g]
        BY <1>1, <3>2 DEF Commit, QueueInv, TypeOK
      <4>2. QED
        BY <1>2, <2>2, <4>1, CallTags DEF KnownServers, QueueInv
    <3>3. QED
      BY <3>1, <3>2
  <2>3. QED
    BY <2>1, <2>2 DEF KnownServers
<1>4. QED
  BY <1>1, <1>2, <1>3 DEF Commit

LEMMA KnownStep == QueueInv /\ KnownServers /\ [Next]_vars => KnownServers'
<1> SUFFICES ASSUME QueueInv, KnownServers, [Next]_vars  PROVE KnownServers'
  OBVIOUS
<1>1. ASSUME NEW h \in Handler, AskSync(h)  PROVE KnownServers'
  <2>1. PICK s \in call[h].srvs :
          /\ RequestServerSync(s)
          /\ call' = [call EXCEPT ![h] = Ask(call[h].srvs \ {s})]
    BY <1>1 DEF AskSync
  <2>2. srv' = srv /\ call[h].op = "sync" /\ srv[s] # "new"
    BY <1>1 DEF AskSync, KnownServers
  <2>3. queued' \subseteq queued \cup {s}
    BY <2>1 DEF RequestServerSync, Enqueue
  <2>4. \A g \in Handler : call'[g].op = "sync" =>
          call[g].op = "sync" /\ call'[g].srvs \subseteq call[g].srvs
    BY <2>1, <2>2 DEF QueueInv, TypeOK, NoCall, SyncCall, Ask
  <2>5. QED
    BY <2>2, <2>3, <2>4 DEF KnownServers
<1>2. ASSUME NEW h \in Handler, ResolveCall(h) \/ LookupFails(h)  PROVE KnownServers'
  <2>1. PICK S \in SUBSET Resolved(call[h]) :
          /\ srv' = srv /\ queued' = queued /\ call[h].op \in {"peer", "user"}
          /\ call' = [call EXCEPT ![h] = Ask(S)]
    BY <1>2 DEF ResolveCall, LookupFails
  <2>2. \A s \in S : srv[s] # "new"
    BY <2>1, ResolvedKnown
  <2>3. \A g \in Handler : g # h => call'[g] = call[g]
    BY <2>1 DEF QueueInv, TypeOK
  <2>4. call'[h].op = "sync" => call'[h].srvs = S
    BY <2>1 DEF QueueInv, TypeOK, NoCall, SyncCall, Ask
  <2>5. QED
    BY <2>1, <2>2, <2>3, <2>4 DEF KnownServers
<1>3. ASSUME NEW h \in Handler, RequestServerRemoval(h)  PROVE KnownServers'
  <2>1. call[h].srv \in Server /\ srv[call[h].srv] = "deleted"
    BY <1>3, CallTags DEF RequestServerRemoval, QueueInv, Removals, RemovalPending
  <2>2. queued' = queued \cup {call[h].srv} /\ srv' = srv
        /\ call' = [call EXCEPT ![h] = NoCall]
    BY <1>3 DEF RequestServerRemoval, Enqueue
  <2>3. QED
    BY <2>1, <2>2 DEF KnownServers, QueueInv, TypeOK, NoCall
<1>4. ASSUME NEW r \in Runner, Pass(r)  PROVE KnownServers'
  <2>1. srv' = srv /\ call' = call /\ queued' \subseteq queued
    BY <1>4 DEF Pass, TakePass, ReadServer, SendApply, SendTruncated, ReadFails, Return, Decide, Retire,
                SendRemove, Finish
  <2>2. QED
    BY <2>1 DEF KnownServers
<1>5. ASSUME Crash  PROVE KnownServers'
  BY <1>5 DEF Crash, KnownServers, NoCall
<1>6. ASSUME UNCHANGED vars  PROVE KnownServers'
  BY <1>6 DEF vars, KnownServers
<1>7. QED
  BY <1>1, <1>2, <1>3, <1>4, <1>5, <1>6, KnownCommit DEF Next, Answer

\* The queue never works for a server that was not created.
THEOREM QueueKnowsItsServers == SafetySpec => []KnownServers
<1>1. Init => KnownServers
  BY DEF Init, KnownServers, NoCall
<1>2. QED
  BY <1>1, KnownStep, QueueInvariant, PTL DEF SafetySpec

-----------------------------------------------------------------------------
(* The steps, mapped.                                                      *)

\* What the rows ask for is something the promise knows.
LEMMA WantIsWish ==
  ASSUME TypeOK
  PROVE  \A s \in Server : Want(s) \in Promise!Wish
BY DEF Want, Nothing, TornDown, Applied, Desired, Promise!Wish, Promise!Nothing,
       Promise!Remove, Promise!Apply

\* A removal is wanted of the deleted servers and of no other.
LEMMA WantRemove ==
  ASSUME NEW s \in Server
  PROVE  Want(s) = Promise!Remove <=> srv[s] = "deleted"
BY DEF Want, Nothing, TornDown, Applied, Promise!Remove

\* A commit is a Change.
LEMMA AdminMaps ==
  ASSUME QueueInv, KnownServers, TypeOK', NEW h \in Handler, Admin(h)
  PROVE  Promise!Change
<1>1. [s \in Server |-> Want(s)]' \in [Server -> Promise!Wish]
  <2>1. \A s \in Server : Want(s)' \in Promise!Wish
    BY DEF TypeOK, Want, Nothing, TornDown, Applied, Desired, Promise!Wish, Promise!Nothing,
           Promise!Remove, Promise!Apply
  <2>2. QED
    BY <2>1
<1>2. \A s \in Server : srv[s] = "deleted" => srv'[s] = "deleted"
  BY KnownCommit
<1>3. \A s \in Server : Want(s) = Promise!Remove => Want(s)' = Promise!Remove
  BY <1>2, WantRemove DEF Want, TornDown, Promise!Remove
<1>4. UNCHANGED <<delivered, lost>>
  BY KnownCommit
<1>5. QED
  BY <1>1, <1>3, <1>4 DEF Promise!Change

\* What wg-helper is told is what the rows ask for, or the empty apply of a
\* server deleted under the pass.
LEMMA SendApplyMaps ==
  ASSUME QueueInv, KnownServers, NEW r \in Runner, SendApply(r)
  PROVE  \E s \in Server : Promise!Follow(s) \/ Promise!Straggle(s)
<1>1. PICK s \in Server : s = runner[r].srv /\ s \in queued
  BY WorkingRunner DEF SendApply
<1>2. /\ delivered' = [delivered EXCEPT ![s] = Applied(Desired(s))]
      /\ lost' = [lost EXCEPT ![s] = lost[s] /\ srv[s] # "present"]
      /\ UNCHANGED <<srv, peer>> /\ runner[r].pc = "peers"
  BY <1>1 DEF SendApply
<1>3. ModeOf[s] = "local" /\ delivered[s] # TornDown /\ srv[s] # "new"
  BY <1>1, <1>2 DEF QueueInv, RunnerShape, TornDownForGood, KnownServers
<1>4. [t \in Server |-> Want(t)]' = [t \in Server |-> Want(t)]
  BY <1>2 DEF Want, Desired
<1>5. CASE srv[s] = "present"
  <2>1. Want(s) = Applied(Desired(s)) /\ Want(s) # Promise!Nothing
    BY <1>3, <1>5 DEF Want, Applied, Promise!Nothing
  <2>2. lost' = [lost EXCEPT ![s] = FALSE]
    BY <1>2, <1>5
  <2>3. Promise!Follow(s)
    BY <1>2, <1>4, <2>1, <2>2 DEF Promise!Follow
  <2>4. QED
    BY <2>3
<1>6. CASE srv[s] = "deleted"
  <2>1. Want(s) = Promise!Remove
    BY <1>6, WantRemove
  <2>2. Desired(s) = {}
    BY <1>6 DEF QueueInv, PeerRows, Desired
  <2>3. delivered' = [delivered EXCEPT ![s] = Promise!Apply({})]
    BY <1>2, <2>2 DEF Applied, Promise!Apply
  <2>4. lost' = lost
    <3>1. lost[s] = (lost[s] /\ srv[s] # "present")
      BY <1>6 DEF QueueInv, TypeOK
    <3>2. QED
      BY <1>2, <3>1 DEF QueueInv, TypeOK
  <2>5. Promise!Straggle(s)
    BY <1>3, <1>4, <2>1, <2>3, <2>4 DEF Promise!Straggle, TornDown, Promise!Remove
  <2>6. QED
    BY <2>5
<1>7. QED
  BY <1>3, <1>5, <1>6 DEF QueueInv, TypeOK

LEMMA SendTruncatedMaps ==
  ASSUME QueueInv, KnownServers, NEW r \in Runner, SendTruncated(r)
  PROVE  \E s \in Server : Promise!Shorten(s)
<1>1. PICK s \in Server : s = runner[r].srv /\ s \in queued
  BY WorkingRunner DEF SendTruncated
<1>2. PICK P \in SUBSET Desired(s) :
        /\ P # Desired(s)
        /\ delivered' = [delivered EXCEPT ![s] = Applied(P)]
        /\ lost' = [lost EXCEPT ![s] = TRUE]
        /\ UNCHANGED <<srv, peer>> /\ runner[r].pc = "peers"
  BY <1>1 DEF SendTruncated
<1>3. srv[s] = "present" /\ ModeOf[s] = "local"
  BY <1>1, <1>2 DEF QueueInv, PeerRows, RunnerShape, Desired
<1>4. Want(s).kind = "apply" /\ Want(s).peers = Desired(s)
  BY <1>3 DEF Want, Applied
<1>5. [t \in Server |-> Want(t)]' = [t \in Server |-> Want(t)]
  BY <1>2 DEF Want, Desired
<1>6. Promise!Shorten(s)
  BY <1>2, <1>4, <1>5 DEF Promise!Shorten, Promise!Apply, Applied
<1>7. QED
  BY <1>6

LEMMA SendRemoveMaps ==
  ASSUME QueueInv, NEW r \in Runner, SendRemove(r)
  PROVE  \E s \in Server : Promise!Follow(s)
<1>1. PICK s \in Server : s = runner[r].srv /\ s \in queued
  BY WorkingRunner DEF SendRemove
<1>2. /\ delivered' = [delivered EXCEPT ![s] = TornDown]
      /\ lost' = [lost EXCEPT ![s] = FALSE]
      /\ UNCHANGED <<srv, peer>> /\ runner[r].pc = "remove"
  BY <1>1 DEF SendRemove
<1>3. srv[s] = "deleted"
  BY <1>1, <1>2 DEF QueueInv, RunnerShape, Removals, RemovalPending
<1>4. Want(s) = TornDown /\ Want(s) # Promise!Nothing
  BY <1>3 DEF Want, TornDown, Promise!Nothing
<1>5. [t \in Server |-> Want(t)]' = [t \in Server |-> Want(t)]
  BY <1>2 DEF Want, Desired
<1>6. Promise!Follow(s)
  BY <1>2, <1>4, <1>5 DEF Promise!Follow
<1>7. QED
  BY <1>6

\* The steps that can drop a change mark it lost and do nothing else.
LEMMA LosingMaps ==
  ASSUME TypeOK', UNCHANGED <<srv, peer, delivered>>,
         \A s \in Server : lost[s] => lost'[s]
  PROVE  Promise!Lose
BY DEF Promise!Lose, TypeOK, Want, Desired

\* Every step is one of the promise's, or a stutter.
LEMMA StepMaps ==
  QueueInv /\ KnownServers /\ TypeOK' /\ [Next]_vars => [Promise!Next]_(Promise!vars)
<1> SUFFICES ASSUME QueueInv, KnownServers, TypeOK', [Next]_vars
             PROVE  [Promise!Next]_(Promise!vars)
  OBVIOUS
<1>1. ASSUME UNCHANGED <<srv, peer, delivered, lost>>  PROVE UNCHANGED Promise!vars
  BY <1>1 DEF Promise!vars, Want, Desired
<1>2. ASSUME NEW h \in Handler, Admin(h)  PROVE Promise!Next
  BY <1>2, AdminMaps DEF Promise!Next
<1>3. ASSUME NEW h \in Handler, LookupFails(h)  PROVE Promise!Next
  <2>1. UNCHANGED <<srv, peer, delivered>>
    BY <1>3 DEF LookupFails
  <2>2. \A s \in Server : lost[s] => lost'[s]
    BY <1>3 DEF LookupFails
  <2>3. QED
    BY <2>1, <2>2, LosingMaps DEF Promise!Next
<1>4. ASSUME NEW h \in Handler, AskSync(h) \/ ResolveCall(h) \/ RequestServerRemoval(h)
      PROVE  UNCHANGED Promise!vars
  BY <1>1, <1>4 DEF AskSync, ResolveCall, RequestServerRemoval
<1>5. ASSUME NEW r \in Runner,
             TakePass(r) \/ ReadServer(r) \/ Return(r) \/ Decide(r) \/ Finish(r)
      PROVE  UNCHANGED Promise!vars
  BY <1>1, <1>5 DEF TakePass, ReadServer, Return, Decide, Finish
<1>6. ASSUME NEW r \in Runner, ReadFails(r)  PROVE Promise!Next
  <2>1. UNCHANGED <<srv, peer, delivered>>
    BY <1>6 DEF ReadFails
  <2>2. \A s \in Server : lost[s] => lost'[s]
    BY <1>6 DEF ReadFails, QueueInv, TypeOK
  <2>3. QED
    BY <2>1, <2>2, LosingMaps DEF Promise!Next
<1>7. ASSUME NEW r \in Runner, SendApply(r) \/ SendTruncated(r) \/ SendRemove(r)
      PROVE  Promise!Next
  BY <1>7, SendApplyMaps, SendTruncatedMaps, SendRemoveMaps DEF Promise!Next
<1>8. ASSUME Crash  PROVE Promise!Next
  <2>1. UNCHANGED <<srv, peer, delivered>> /\ \A s \in Server : lost[s] => lost'[s]
    BY <1>8 DEF Crash
  <2>2. QED
    BY <2>1, LosingMaps DEF Promise!Next
<1>9. ASSUME UNCHANGED vars  PROVE UNCHANGED Promise!vars
  BY <1>1, <1>9 DEF vars
<1>10. QED
  BY <1>2, <1>3, <1>4, <1>5, <1>6, <1>7, <1>8, <1>9 DEF Next, Answer, Pass

LEMMA InitMaps == Init => Promise!Init
BY DEF Init, Want, Nothing, Promise!Init, Promise!Nothing

\* The queue implements the promise: wg-helper is only ever told what the rows
\* ask for at that moment (or a part of it, and the rest is marked lost, or an
\* empty apply of a server deleted under the pass), never anything after a
\* removal, and what is lost stays lost until the rows are told.
THEOREM ImplementsPromise == SafetySpec => Promise!SafetySpec
<1>1. QueueInv /\ [Next]_vars => TypeOK'
  BY QueueInvStep DEF QueueInv
<1>2. QueueInv /\ KnownServers /\ [Next]_vars => [Promise!Next]_(Promise!vars)
  BY <1>1, StepMaps
<1>3. QED
  BY <1>2, InitMaps, QueueInvariant, QueueKnowsItsServers, PTL
     DEF SafetySpec, Promise!SafetySpec
=============================================================================
