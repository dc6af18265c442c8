--------------------------- MODULE PeerProvisioning ---------------------------
(***************************************************************************)
(* How VPN users and their peers come and go: the handlers of              *)
(* backend/internal/api/users.go, claim.go and peers.go over the users,    *)
(* invites and peers tables, for one server.                               *)
(*                                                                         *)
(* Every statement of a handler that is not in a transaction is a step of  *)
(* its own; what a handler read earlier is in its record `call'.  A        *)
(* statement may fail and end its handler, so may a crash of the process   *)
(* or a client that gives up: all of them leave the rows as they are and   *)
(* are the one action Fail.  The kernel sync each handler asks for is      *)
(* SyncQueue's business.                                                   *)
(***************************************************************************)
EXTENDS AddressPool, FiniteSets

CONSTANTS
    User,      \* VPN users, named by their row
    Token,     \* invite tokens (random, never reused)
    Request,   \* idempotency keys of "Add Peer", one per modal session
    Row,       \* ids of peer rows: a bound on their number
    Handler,   \* requests that may be in progress at the same time
    Net,       \* network_cidr of the server
    NoUser, NoId, NoPeer

ASSUME NetAssumption == Net \in Networks
ASSUME IdAssumption  ==
    /\ NoUser \notin User /\ NoId \notin Request \cup Token
    /\ Request \cap Token = {}
    /\ NoPeer \notin [user : User, ip : Nat, by : Request \cup Token \cup {NoId},
                      status : {"active", "suspended", "removed"}]

VARIABLES
    user,      \* users table: status
    invite,    \* invites table, by token
    peer,      \* peers table
    mailed,    \* config links emailed for the create with a request id
    call,      \* the handlers in progress
    removal    \* history: did a DeleteUser run to its end that met no other
               \* call about the user, and has no admin touched the user since

pvars == <<user, invite, peer, mailed, call, removal>>

Peer == [user : User, ip : Candidates(Net), by : Request \cup Token \cup {NoId},
         status : {"active", "suspended", "removed"}]

Rows    == {r \in Row : peer[r] # NoPeer}
RowsBy(b) == {r \in Rows : peer[r].by = b}

Idle == [at |-> "idle", user |-> NoUser, by |-> NoId, ip |-> NoAddress,
         mail |-> FALSE]

Steps == {"replay", "pick", "insert", "reread", "link",        \* CreatePeer
          "find", "activate", "accept",                        \* ClaimUser
          "lookup", "revive", "resend", "invite",              \* invites
          "dropInvites", "dropUser", "dropPeers"}              \* DeleteUser

Calls == [at : Steps \cup {"idle", "answered"}, user : User \cup {NoUser},
          by : Request \cup Token \cup {NoId},
          ip : Candidates(Net) \cup {NoAddress}, mail : BOOLEAN]

PTypeOK ==
    /\ user \in [User -> {"none", "invited", "active", "suspended", "removed"}]
    /\ invite \in [Token -> [of : User \cup {NoUser},
                             state : {"unissued", "pending", "accepted", "deleted"}]]
    /\ peer \in [Row -> Peer \cup {NoPeer}]
    /\ mailed \in [Request -> Nat]
    /\ call \in [Handler -> Calls]
    /\ removal \in [User -> {"no", "going", "sealed"}]

PInit ==
    /\ user = [u \in User |-> "none"]
    /\ invite = [t \in Token |-> [of |-> NoUser, state |-> "unissued"]]
    /\ peer = [r \in Row |-> NoPeer]
    /\ mailed = [q \in Request |-> 0]
    /\ call = [h \in Handler |-> Idle]
    /\ removal = [u \in User |-> "no"]

Running(h)  == call[h].at \notin {"idle", "answered"}
About(u)    == {h \in Handler : Running(h) /\ call[h].user = u}
GoTo(h, at) == call' = [call EXCEPT ![h].at = at]
End(h)      == call' = [call EXCEPT ![h] = Idle]

\* The history: a call about u that starts meets a removal in progress; an
\* admin's step about u moreover reopens a finished one.
Meets(u)   == removal' = [removal EXCEPT
                  ![u] = IF removal[u] = "going" THEN "no" ELSE removal[u]]
Reopens(u) == removal' = [removal EXCEPT ![u] = "no"]

Start(h, at, u, b, mail) ==
    /\ ~Running(h)
    /\ call' = [call EXCEPT ![h] = [at |-> at, user |-> u, by |-> b,
                                    ip |-> NoAddress, mail |-> mail]]
    /\ UNCHANGED <<user, invite, peer, mailed>>

-----------------------------------------------------------------------------
(* CreatePeer.  A retry is a second call with the same request id.         *)

StartCreate(h, u, b, mail) ==
    /\ user[u] # "none"
    /\ Start(h, IF b = NoId THEN "pick" ELSE "replay", u, b, mail)
    /\ Reopens(u)

\* The answer to a create with a request id stays visible until the next call.
Answer(h, ip) ==
    call' = [call EXCEPT ![h] = IF call[h].by \in Request
        THEN [Idle EXCEPT !.at = "answered", !.by = call[h].by, !.ip = ip]
        ELSE Idle]

Replay(h) ==
    /\ call[h].at = "replay"
    /\ IF RowsBy(call[h].by) = {}
       THEN GoTo(h, "pick")
       ELSE \E r \in RowsBy(call[h].by) : Answer(h, peer[r].ip)
    /\ UNCHANGED <<user, invite, peer, mailed, removal>>

Used == {peer[r].ip : r \in Rows}

\* Mutant: a full network is not noticed.
PickUnchecked(h) ==
    /\ call[h].at = "pick"
    /\ call' = [call EXCEPT ![h] =
                    [@ EXCEPT !.at = "insert", !.ip = NextAvailable(Net, Used)]]
    /\ UNCHANGED <<user, invite, peer, mailed, removal>>

\* nextAvailableIP, also for ClaimUser.  The insert comes later.  The list of
\* used addresses may have been cut short: the loop does not check rows.Err.
Pick(h) ==
    /\ call[h].at = "pick"
    /\ \E seen \in SUBSET Used :
         LET a == NextAvailable(Net, seen) IN
         IF a = NoAddress THEN End(h)
         ELSE call' = [call EXCEPT ![h] = [@ EXCEPT !.at = "insert", !.ip = a]]
    /\ UNCHANGED <<user, invite, peer, mailed, removal>>

AddressTaken(c) == c.ip \in Used
RequestTaken(c) == c.by \in Request /\ RowsBy(c.by) # {}

\* Mutants: the table without one of its two unique indexes.
NoAddressIndex(c) == RequestTaken(c)
NoRequestIndex(c) == AddressTaken(c)

\* UNIQUE (server_id, allowed_ip) and the partial index on create_request_id.
UniqueViolation(c) == AddressTaken(c) \/ RequestTaken(c)

AddRow(h) ==
    \E r \in Row \ Rows :
        /\ \A q \in Row \ Rows : r <= q
        /\ peer' = [peer EXCEPT ![r] = [user |-> call[h].user, ip |-> call[h].ip,
                                        by |-> call[h].by, status |-> "active"]]

Insert(h) ==
    /\ call[h].at = "insert"
    /\ IF UniqueViolation(call[h])
       THEN /\ IF call[h].by \in Request THEN GoTo(h, "reread") ELSE End(h)
            /\ UNCHANGED peer
       ELSE /\ AddRow(h)
            /\ IF call[h].mail THEN GoTo(h, "link") ELSE Answer(h, call[h].ip)
    /\ UNCHANGED <<user, invite, mailed, removal>>

\* Mutant: the loser of the race reports the address it had picked itself.
RereadReportsOwn(h) ==
    /\ call[h].at = "reread"
    /\ IF RowsBy(call[h].by) = {} THEN End(h) ELSE Answer(h, call[h].ip)
    /\ UNCHANGED <<user, invite, peer, mailed, removal>>

\* The loser reads the winner's row; none means another create took the address.
Reread(h) ==
    /\ call[h].at = "reread"
    /\ IF RowsBy(call[h].by) = {}
       THEN End(h)
       ELSE \E r \in RowsBy(call[h].by) : Answer(h, peer[r].ip)
    /\ UNCHANGED <<user, invite, peer, mailed, removal>>

\* The access token and its email.
Link(h) ==
    /\ call[h].at = "link"
    /\ mailed' = [q \in Request |-> mailed[q] + (IF q = call[h].by THEN 1 ELSE 0)]
    /\ Answer(h, call[h].ip)
    /\ UNCHANGED <<user, invite, peer, removal>>

-----------------------------------------------------------------------------
(* Invites: CreateUser, ResendUserInvite, ClaimUser.                       *)

StartCreateUser(h, u) == Start(h, "lookup", u, NoId, FALSE) /\ Reopens(u)

\* A removed row is revived by a later statement, any other is a conflict.  A
\* missing one is inserted; the unique index on email makes that one step.
Lookup(h) ==
    /\ call[h].at = "lookup"
    /\ LET u == call[h].user IN
       \/ /\ user[u] = "none"
          /\ user' = [user EXCEPT ![u] = "invited"]
          /\ GoTo(h, "invite")
       \/ user[u] = "removed" /\ GoTo(h, "revive") /\ UNCHANGED user
       \/ user[u] \notin {"none", "removed"} /\ End(h) /\ UNCHANGED user
    /\ UNCHANGED <<invite, peer, mailed, removal>>

Revive(h) ==
    /\ call[h].at = "revive"
    /\ user' = [user EXCEPT ![call[h].user] = "invited"]
    /\ GoTo(h, "invite")
    /\ UNCHANGED <<invite, peer, mailed, removal>>

StartResend(h, u) == Start(h, "resend", u, NoId, FALSE) /\ Meets(u)

Resend(h) ==
    /\ call[h].at = "resend"
    /\ IF user[call[h].user] = "invited" THEN GoTo(h, "invite") ELSE End(h)
    /\ UNCHANGED <<user, invite, peer, mailed, removal>>

\* issueUserInvite: whatever the user's status has become.
IssueInvite(h) ==
    /\ call[h].at = "invite"
    /\ \E t \in Token :
         /\ invite[t].state = "unissued"
         /\ invite' = [invite EXCEPT ![t] = [of |-> call[h].user, state |-> "pending"]]
    /\ End(h)
    /\ UNCHANGED <<user, peer, mailed, removal>>

StartClaim(h, t) ==
    /\ invite[t].of # NoUser
    /\ Start(h, "find", invite[t].of, t, FALSE)
    /\ Meets(invite[t].of)

\* An expired invite is a claim that fails here (Fail).
Find(h) ==
    /\ call[h].at = "find"
    /\ IF invite[call[h].by].state = "pending" THEN GoTo(h, "activate") ELSE End(h)
    /\ UNCHANGED <<user, invite, peer, mailed, removal>>

Activate(h) ==
    /\ call[h].at = "activate"
    /\ user' = [user EXCEPT ![call[h].user] = "active"]
    /\ GoTo(h, "accept")
    /\ UNCHANGED <<invite, peer, mailed, removal>>

\* The update does not ask whether the invite is still pending, or still there.
Accept(h) ==
    /\ call[h].at = "accept"
    /\ invite' = [invite EXCEPT ![call[h].by].state =
                      IF invite[call[h].by].state = "deleted" THEN "deleted"
                      ELSE "accepted"]
    /\ GoTo(h, "pick")
    /\ UNCHANGED <<user, peer, mailed, removal>>

-----------------------------------------------------------------------------
(* DeleteUser: three statements.                                           *)

StartDelete(h, u) ==
    /\ user[u] # "none"
    /\ Start(h, "dropInvites", u, NoId, FALSE)
    /\ removal' = [removal EXCEPT ![u] = IF About(u) = {} THEN "going" ELSE "no"]

DropInvites(h) ==
    /\ call[h].at = "dropInvites"
    /\ invite' = [t \in Token |-> IF invite[t].of = call[h].user
                                  THEN [invite[t] EXCEPT !.state = "deleted"]
                                  ELSE invite[t]]
    /\ GoTo(h, "dropUser")
    /\ UNCHANGED <<user, peer, mailed, removal>>

DropUser(h) ==
    /\ call[h].at = "dropUser"
    /\ user' = [user EXCEPT ![call[h].user] = "removed"]
    /\ GoTo(h, "dropPeers")
    /\ UNCHANGED <<invite, peer, mailed, removal>>

\* The peers of u in one of the statuses `from' move to `to'.
Moved(u, from, to) ==
    [r \in Row |-> IF r \in Rows /\ peer[r].user = u /\ peer[r].status \in from
                   THEN [peer[r] EXCEPT !.status = to] ELSE peer[r]]

FinishRemoval(h) ==
    /\ removal' = [removal EXCEPT ![call[h].user] = IF @ = "going" THEN "sealed" ELSE @]
    /\ End(h)
    /\ UNCHANGED <<user, invite, mailed>>

\* Mutant: suspended peers are left as they are.
DropActivePeers(h) ==
    /\ call[h].at = "dropPeers"
    /\ peer' = Moved(call[h].user, {"active"}, "removed")
    /\ FinishRemoval(h)

DropPeers(h) ==
    /\ call[h].at = "dropPeers"
    /\ peer' = Moved(call[h].user, {"active", "suspended"}, "removed")
    /\ FinishRemoval(h)

-----------------------------------------------------------------------------
(* The handlers that are one statement or one transaction.                 *)

SetUser(u, status, from, to) ==
    /\ user[u] # "none"
    /\ user' = [user EXCEPT ![u] = status]
    /\ peer' = Moved(u, from, to)
    /\ Reopens(u)
    /\ UNCHANGED <<invite, mailed, call>>

SuspendUser(u) == SetUser(u, "suspended", {"active"}, "suspended")
ResumeUser(u)  == SetUser(u, "active", {"suspended"}, "active")

\* Whatever the status was, also of a removed peer.
SetPeer(r, status) ==
    /\ r \in Rows
    /\ peer' = [peer EXCEPT ![r].status = status]
    /\ Reopens(peer[r].user)
    /\ UNCHANGED <<user, invite, mailed, call>>

SuspendPeer(r) == SetPeer(r, "suspended")
ResumePeer(r)  == SetPeer(r, "active")
DeletePeer(r)  == SetPeer(r, "removed")

-----------------------------------------------------------------------------

\* A statement fails, the process dies, the client gives up: the handler ends
\* and what it has committed stays.
Fail(h) ==
    /\ Running(h)
    /\ End(h)
    /\ Meets(call[h].user)
    /\ UNCHANGED <<user, invite, peer, mailed>>

HandlerStep(h) ==
    \/ Replay(h) \/ Pick(h) \/ Insert(h) \/ Reread(h) \/ Link(h)
    \/ Lookup(h) \/ Revive(h) \/ Resend(h) \/ IssueInvite(h)
    \/ Find(h) \/ Activate(h) \/ Accept(h)
    \/ DropInvites(h) \/ DropUser(h) \/ DropPeers(h)
    \/ Fail(h)

Arrives(h) ==
    \/ \E u \in User, b \in Request, mail \in BOOLEAN : StartCreate(h, u, b, mail)
    \/ \E u \in User : StartCreate(h, u, NoId, FALSE)   \* its emails are not counted
    \/ \E u \in User : StartCreateUser(h, u) \/ StartResend(h, u) \/ StartDelete(h, u)
    \/ \E t \in Token : StartClaim(h, t)

PNext ==
    \/ \E h \in Handler : Arrives(h) \/ HandlerStep(h)
    \/ \E u \in User : SuspendUser(u) \/ ResumeUser(u)
    \/ \E r \in Row : SuspendPeer(r) \/ ResumePeer(r) \/ DeletePeer(r)

PSpec == PInit /\ [][PNext]_pvars

-----------------------------------------------------------------------------
(* Properties.                                                             *)

\* "Must not insert or email again" (peers.go): however often a create is
\* retried, overlapping or after a crash, its request id gets one peer and one
\* email at most.
RequestOnce ==
    \A q \in Request : Cardinality(RowsBy(q)) <= 1 /\ mailed[q] <= 1

\* "The loser re-reads the winner's row" (migration 027): every attempt that
\* is answered with an address is answered with the address of the one peer
\* that carries its request id.
AnswersAgree ==
    \A h \in Handler : call[h].at = "answered" =>
        \E r \in RowsBy(call[h].by) : peer[r].ip = call[h].ip

\* "The first unused host address in the server's network CIDR" (peers.go),
\* although the choice and the insert are two statements: no two peers share
\* an address, and each has one inside the network that is not the gateway's.
AddressesFit ==
    \A r \in Rows :
        /\ InNetwork(Net, peer[r].ip) /\ peer[r].ip # Gateway(Net)
        /\ \A q \in Rows \ {r} : peer[q].ip # peer[r].ip

\* A removal that met no other call about the user is final: whatever old
\* invite links, resends and claims still come, only an admin's act on the
\* user or a peer brings the user, an invite or a peer back.
RemovalIsFinal ==
    \A u \in User : removal[u] = "sealed" =>
        /\ user[u] = "removed"
        /\ \A t \in Token : invite[t].of = u => invite[t].state # "pending"
        /\ \A r \in Rows : peer[r].user = u => peer[r].status = "removed"

\* An invite link that is "already used" is a form "that cannot succeed"
\* (claim.go): one invite makes one peer.
InviteOnce == \A t \in Token : Cardinality(RowsBy(t)) <= 1
=============================================================================
