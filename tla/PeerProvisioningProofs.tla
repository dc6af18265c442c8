------------------------ MODULE PeerProvisioningProofs ------------------------
(***************************************************************************)
(* What the address scan returns, for every byte width, network and set of *)
(* used addresses; and the safety properties of PeerProvisioning for any   *)
(* number of users, tokens, request ids, handlers and rows.                *)
(***************************************************************************)
EXTENDS PeerProvisioning, FiniteSetTheorems, WellFoundedInduction, TLAPS

Less == {p \in Nat \X Nat : p[1] < p[2]}

\* A nonempty set of numbers has a least element.
LEMMA LeastExists ==
    ASSUME NEW T, T \subseteq Nat, T # {}
    PROVE  \E x \in T : \A y \in T : x <= y
<1>1. IsWellFoundedOn(Less, Nat)
  <2>1. OpToRel(<, Nat) = Less
    BY DEF OpToRel, Less
  <2> QED
    BY <2>1, NatLessThanWellFounded
<1>2. PICK x \in T : \A y \in T : ~ (<<y, x>> \in Less)
  BY <1>1, WFMin
<1>3. ASSUME NEW y \in T PROVE x <= y
  <2>1. x \in Nat /\ y \in Nat
    OBVIOUS
  <2>2. <<y, x>> \in Nat \X Nat /\ ~ (<<y, x>> \in Less)
    BY <1>2, <2>1
  <2>3. ~ (y < x)
    BY <2>1, <2>2 DEF Less
  <2> QED
    BY <2>1, <2>3
<1> QED
  BY <1>3
\* Every candidate is an address: a byte is part of the number it is cut from.
LEMMA CandidatesAreNumbers ==
    ASSUME NEW net \in Networks
    PROVE  Candidates(net) \subseteq Nat
<1>1. net.base \in Nat
  BY DEF Networks
<1>2. net.base % Octet \in Nat /\ net.base % Octet <= net.base
  BY <1>1, OctetAssumption
<1>3. Block(net.base) \in Nat
  BY <1>1, <1>2 DEF Block
<1>4. \A i \in 2 .. Octet - 2 : i \in Nat
  BY OctetAssumption
<1> QED
  BY <1>3, <1>4 DEF Candidates

\* nextAvailableIP either returns the lowest candidate no row uses, or fails
\* because every candidate is in use.
THEOREM FirstFree ==
    ASSUME NEW net \in Networks, NEW used
    PROVE  LET a == NextAvailable(net, used) IN
             \/ a = NoAddress /\ Candidates(net) \subseteq used
             \/ /\ a \in Candidates(net) \ used
                /\ a # NoAddress
                /\ \A b \in Candidates(net) \ used : a <= b
<1>1. Free(net, used) \subseteq Nat
  BY CandidatesAreNumbers DEF Free
<1>2. CASE Free(net, used) = {}
  BY <1>2 DEF NextAvailable, Free
<1>3. CASE Free(net, used) # {}
  <2>1. \E a \in Free(net, used) : \A b \in Free(net, used) : a <= b
    BY <1>1, <1>3, LeastExists
  <2>2. /\ NextAvailable(net, used) \in Free(net, used)
        /\ \A b \in Free(net, used) : NextAvailable(net, used) <= b
    BY <1>3, <2>1, Zenon DEF NextAvailable
  <2>3. NextAvailable(net, used) # NoAddress
    BY <1>1, <2>2, AddressAssumption
  <2> QED
    BY <2>2, <2>3 DEF Free
<1> QED
  BY <1>2, <1>3

\* In a network that starts at a zero byte and spans at least one whole byte
\* (a /24 or wider) the address returned is a host address of the network: it
\* is inside, and neither the base, the gateway nor the last of its block.
THEOREM WholeBlockFits ==
    ASSUME NEW net \in Networks, NEW used,
           net.base % Octet = 0, net.size >= Octet,
           NextAvailable(net, used) # NoAddress
    PROVE  /\ InNetwork(net, NextAvailable(net, used))
           /\ NextAvailable(net, used) \notin
                {net.base, Gateway(net), net.base + Octet - 1}
<1> DEFINE a == NextAvailable(net, used)
<1>1. a \in Candidates(net)
  BY FirstFree
<1>2. net.base \in Nat /\ net.size \in Nat
  BY DEF Networks
<1>3. Block(net.base) = net.base
  BY <1>2 DEF Block
<1>4. PICK i \in 2 .. Octet - 2 : a = net.base + i
  BY <1>1, <1>3, Zenon DEF Candidates
<1>5. i \in Nat /\ 2 <= i /\ i <= Octet - 2
  BY OctetAssumption
<1>6. Gateway(net) = net.base + 1
  BY <1>3, OctetAssumption DEF Gateway, Incremented
<1>7. InNetwork(net, a)
  BY <1>2, <1>4, <1>5, OctetAssumption DEF InNetwork
<1>8. a # net.base /\ a # net.base + 1 /\ a # net.base + Octet - 1
  BY <1>2, <1>4, <1>5, OctetAssumption
<1> QED
  BY <1>6, <1>7, <1>8

-----------------------------------------------------------------------------

\* What a handler's record holds at each of its steps.
Shape(h) ==
    /\ Running(h) => call[h].user \in User
    /\ call[h].at \in {"replay", "reread", "answered"} => call[h].by \in Request
    /\ call[h].at \in {"insert", "link"} => call[h].ip \in Candidates(Net)
    /\ call[h].at \in {"find", "activate", "accept"} =>
           call[h].by \in Token /\ invite[call[h].by].of = call[h].user

CallShape == \A h \in Handler : Shape(h)

FreshTokens == \A t \in Token : invite[t].state = "unissued" <=> invite[t].of = NoUser

\* The two unique indexes of the peers table.
UniqueRows ==
    \A r, s \in Rows :
        \/ r = s
        \/ /\ peer[r].ip # peer[s].ip
           /\ peer[r].by \in Request => peer[r].by # peer[s].by

\* Only the create that inserted the row emails its link.
LinkOwed ==
    \A h \in Handler : call[h].at = "link" /\ call[h].by \in Request =>
        /\ mailed[call[h].by] = 0
        /\ \E r \in RowsBy(call[h].by) : peer[r].ip = call[h].ip
        /\ \A k \in Handler : call[k].at = "link" /\ call[k].by = call[h].by => k = h

MailedOnce ==
    \A q \in Request : mailed[q] <= 1 /\ (mailed[q] = 1 => RowsBy(q) # {})

RowInv ==
    /\ PTypeOK /\ CallShape /\ FreshTokens /\ UniqueRows
    /\ LinkOwed /\ MailedOnce /\ AnswersAgree

\* A removal that met no other call so far is alone, and holds what its
\* statements have done.
Undisturbed(u) ==
    /\ \A h, k \in About(u) : h = k
    /\ \A h \in About(u) :
         /\ call[h].at \in {"dropInvites", "dropUser", "dropPeers"}
         /\ call[h].at # "dropInvites" =>
                \A t \in Token : invite[t].of = u => invite[t].state # "pending"
         /\ call[h].at = "dropPeers" => user[u] = "removed"

\* After it, a call about the user can only be one that is about to find
\* nothing to do.
Sealed(u) ==
    /\ \A h \in About(u) : call[h].at \in {"find", "resend"}
    /\ user[u] = "removed"
    /\ \A t \in Token : invite[t].of = u => invite[t].state # "pending"
    /\ \A r \in Rows : peer[r].user = u => peer[r].status = "removed"

RemovalOk(u) == /\ removal[u] = "going" => Undisturbed(u)
                /\ removal[u] = "sealed" => Sealed(u)

RemovalInv == \A u \in User : RemovalOk(u)

-----------------------------------------------------------------------------
(* Facts about the helpers the actions are written with.                   *)

LEMMA PickedAddress ==
    ASSUME NEW used
    PROVE  NextAvailable(Net, used) \in Candidates(Net) \cup {NoAddress}
BY FirstFree, NetAssumption

LEMMA NoPeerIsNone == NoPeer \notin Peer
<1>1. Candidates(Net) \subseteq Nat
  BY CandidatesAreNumbers, NetAssumption
<1> QED
  BY <1>1, IdAssumption, Zenon DEF Peer

LEMMA IdleIsCall == Idle \in Calls
BY DEF Idle, Calls

LEMMA GoToFacts ==
    ASSUME call \in [Handler -> Calls], NEW h \in Handler,
           NEW at \in Steps, GoTo(h, at)
    PROVE  /\ call' \in [Handler -> Calls]
           /\ \A k \in Handler \ {h} : call'[k] = call[k]
           /\ call'[h].at = at
           /\ call'[h].user = call[h].user /\ call'[h].by = call[h].by
           /\ call'[h].ip = call[h].ip /\ call'[h].mail = call[h].mail
BY DEF GoTo, Calls

LEMMA EndFacts ==
    ASSUME call \in [Handler -> Calls], NEW h \in Handler, End(h)
    PROVE  /\ call' \in [Handler -> Calls]
           /\ \A k \in Handler \ {h} : call'[k] = call[k]
           /\ call'[h].at = "idle" /\ call'[h].user = NoUser
BY IdleIsCall DEF End, Idle

LEMMA AnswerFacts ==
    ASSUME call \in [Handler -> Calls], NEW h \in Handler,
           NEW ip \in Candidates(Net) \cup {NoAddress}, Answer(h, ip)
    PROVE  /\ call' \in [Handler -> Calls]
           /\ \A k \in Handler \ {h} : call'[k] = call[k]
           /\ \/ call'[h].at = "idle"
              \/ /\ call'[h].at = "answered" /\ call'[h].by \in Request
                 /\ call'[h].by = call[h].by /\ call'[h].ip = ip
<1>1. CASE call[h].by \in Request
  BY <1>1, IdleIsCall DEF Answer, Idle, Calls
<1>2. CASE call[h].by \notin Request
  BY <1>2, IdleIsCall DEF Answer, Idle
<1> QED
  BY <1>1, <1>2

LEMMA StartFacts ==
    ASSUME call \in [Handler -> Calls], NEW h \in Handler, NEW at \in Steps,
           NEW u \in User, NEW b \in Request \cup Token \cup {NoId},
           NEW mail \in BOOLEAN, Start(h, at, u, b, mail)
    PROVE  /\ call' \in [Handler -> Calls]
           /\ \A k \in Handler \ {h} : call'[k] = call[k]
           /\ call'[h].at = at /\ call'[h].user = u /\ call'[h].by = b
           /\ ~Running(h)
BY DEF Start, Calls

\* Moving peers from status to status leaves everything else of them alone.
KeepsRows ==
    /\ peer' \in [Row -> Peer \cup {NoPeer}]
    /\ \A r \in Row : /\ peer[r] = NoPeer <=> peer'[r] = NoPeer
                      /\ peer[r] # NoPeer => /\ peer'[r].user = peer[r].user
                                             /\ peer'[r].ip = peer[r].ip
                                             /\ peer'[r].by = peer[r].by

LEMMA MovedFacts ==
    ASSUME peer \in [Row -> Peer \cup {NoPeer}], NEW u, NEW from,
           NEW to \in {"active", "suspended", "removed"}, peer' = Moved(u, from, to)
    PROVE  /\ KeepsRows
           /\ \A r \in Rows : peer'[r].status =
                  IF peer[r].user = u /\ peer[r].status \in from THEN to
                  ELSE peer[r].status
<1>1. ASSUME NEW r \in Row, peer[r] # NoPeer
      PROVE  /\ peer[r] \in Peer /\ [peer[r] EXCEPT !.status = to] \in Peer
  BY <1>1 DEF Peer
<1> QED
  BY <1>1, NoPeerIsNone DEF Moved, KeepsRows, Rows, Peer

LEMMA SetPeerFacts ==
    ASSUME peer \in [Row -> Peer \cup {NoPeer}], NEW r \in Rows,
           NEW to \in {"active", "suspended", "removed"}, SetPeer(r, to)
    PROVE  KeepsRows /\ peer[r].user \in User
<1>1. peer[r] \in Peer /\ [peer[r] EXCEPT !.status = to] \in Peer
  BY DEF Peer, Rows
<1> QED
  BY <1>1, NoPeerIsNone DEF SetPeer, KeepsRows, Rows, Peer

-----------------------------------------------------------------------------
(* Most steps only move their own handler along.                           *)

\* Issued invites keep their user.
KeepsInvites ==
    \A t \in Token : invite[t].of # NoUser => invite'[t].of = invite[t].of

\* k is where it was, or has come to a point where it owes no email.
Advances(k) ==
    \/ call'[k] = call[k]
    \/ /\ call'[k].at # "link"
       /\ Shape(k)'
       /\ call'[k].at = "answered" =>
              \E r \in RowsBy(call'[k].by) : peer[r].ip = call'[k].ip

LEMMA RowsByKept ==
    ASSUME PTypeOK, KeepsRows, NEW b
    PROVE  /\ RowsBy(b)' = RowsBy(b)
           /\ \A r \in RowsBy(b) : peer'[r].ip = peer[r].ip
BY DEF PTypeOK, KeepsRows, RowsBy, Rows

LEMMA ShapeKept ==
    ASSUME PTypeOK, KeepsInvites, NEW k \in Handler,
           call'[k] = call[k], Shape(k)
    PROVE  Shape(k)'
BY IdAssumption DEF PTypeOK, KeepsInvites, Shape, Running, Calls

LEMMA StepKeepsRowInv ==
    ASSUME RowInv, PTypeOK', FreshTokens', KeepsRows, KeepsInvites, mailed' = mailed,
           \A k \in Handler : Advances(k)
    PROVE  RowInv'
<1>1. CallShape'
  <2>1. ASSUME NEW k \in Handler PROVE Shape(k)'
    BY <2>1, ShapeKept, IdAssumption DEF RowInv, CallShape, Advances
  <2> QED
    BY <2>1 DEF CallShape
<1>2. UniqueRows'
  BY DEF RowInv, UniqueRows, KeepsRows, Rows
<1>3. LinkOwed'
  <2> SUFFICES ASSUME NEW k \in Handler, call'[k].at = "link", call'[k].by \in Request
               PROVE  /\ mailed'[call'[k].by] = 0
                      /\ \E r \in RowsBy(call[k].by)' : peer'[r].ip = call'[k].ip
                      /\ \A j \in Handler : call'[j].at = "link" /\ call'[j].by = call'[k].by
                            => j = k
    BY DEF LinkOwed
  <2>1. call'[k] = call[k] /\ call[k].at = "link" /\ call[k].by \in Request
    BY DEF Advances
  <2>2. PICK r \in RowsBy(call[k].by) : peer[r].ip = call[k].ip
    BY <2>1 DEF RowInv, LinkOwed
  <2>3. r \in RowsBy(call[k].by)' /\ peer'[r].ip = call'[k].ip
    BY <2>1, <2>2 DEF RowInv, KeepsRows, RowsBy, Rows
  <2>4. ASSUME NEW j \in Handler, call'[j].at = "link", call'[j].by = call'[k].by
        PROVE  j = k
    <3>1. call'[j] = call[j]
      BY <2>4 DEF Advances
    <3> QED
      BY <2>1, <2>4, <3>1 DEF RowInv, LinkOwed
  <2>5. mailed'[call'[k].by] = 0
    BY <2>1 DEF RowInv, LinkOwed
  <2> QED
    BY <2>3, <2>4, <2>5
<1>4. MailedOnce'
  BY RowsByKept DEF RowInv, MailedOnce
<1>5. AnswersAgree'
  <2> SUFFICES ASSUME NEW k \in Handler, call'[k].at = "answered"
               PROVE  \E r \in RowsBy(call[k].by)' : peer'[r].ip = call'[k].ip
    BY DEF AnswersAgree
  <2>1. \E r \in RowsBy(call'[k].by) : peer[r].ip = call'[k].ip
    BY DEF Advances, RowInv, AnswersAgree
  <2>2. PICK r \in RowsBy(call'[k].by) : peer[r].ip = call'[k].ip
    BY <2>1
  <2>3. r \in RowsBy(call[k].by)' /\ peer'[r].ip = call'[k].ip
    BY <2>2 DEF RowInv, KeepsRows, RowsBy, Rows
  <2> QED
    BY <2>3
<1> QED
  BY <1>1, <1>2, <1>3, <1>4, <1>5 DEF RowInv

-----------------------------------------------------------------------------
(* The steps, one by one.                                                  *)

LEMMA UnchangedTables ==
    ASSUME PTypeOK
    PROVE  /\ peer' = peer => KeepsRows
           /\ invite' = invite => KeepsInvites
BY DEF PTypeOK, KeepsRows, KeepsInvites

\* A call that starts.
LEMMA StartsKeepRowInv ==
    ASSUME RowInv, NEW h \in Handler, Arrives(h)
    PROVE  RowInv'
<1> USE DEF RowInv
<1>1. ASSUME NEW at \in Steps \ {"reread", "insert", "link"}, NEW u \in User,
             NEW b \in Request \cup Token \cup {NoId}, NEW mail \in BOOLEAN,
             Start(h, at, u, b, mail),
             \/ Meets(u) \/ Reopens(u)
             \/ removal' = [removal EXCEPT ![u] = IF About(u) = {} THEN "going" ELSE "no"],
             at = "replay" => b \in Request,
             at \in {"find", "activate", "accept"} => b \in Token /\ invite[b].of = u
      PROVE  RowInv'
  <2>1. /\ call' \in [Handler -> Calls]
        /\ \A k \in Handler \ {h} : call'[k] = call[k]
        /\ call'[h].at = at /\ call'[h].user = u /\ call'[h].by = b
    BY <1>1, StartFacts DEF PTypeOK
  <2>2. UNCHANGED <<user, invite, peer, mailed>>
    BY <1>1 DEF Start
  <2>3. removal' \in [User -> {"no", "going", "sealed"}]
    BY <1>1 DEF PTypeOK, Meets, Reopens
  <2>4. PTypeOK' /\ FreshTokens'
    BY <2>1, <2>2, <2>3 DEF PTypeOK, FreshTokens
  <2>5. Shape(h)' /\ call'[h].at \notin {"link", "answered"}
    BY <1>1, <2>1, <2>2 DEF Shape, Steps
  <2>6. \A k \in Handler : Advances(k)
    BY <2>1, <2>5 DEF Advances
  <2> QED
    BY <2>2, <2>4, <2>6, UnchangedTables, StepKeepsRowInv
<1>2. CASE \E u \in User, b \in Request \cup {NoId}, mail \in BOOLEAN :
             StartCreate(h, u, b, mail)
  <2>1. PICK u \in User, b \in Request \cup {NoId}, mail \in BOOLEAN :
             StartCreate(h, u, b, mail)
    BY <1>2
  <2>2. CASE b = NoId
    BY <1>1, <2>1, <2>2 DEF StartCreate, Steps
  <2>3. CASE b # NoId
    BY <1>1, <2>1, <2>3 DEF StartCreate, Steps
  <2> QED
    BY <2>2, <2>3
<1>3. CASE \E u \in User : StartCreateUser(h, u) \/ StartResend(h, u) \/ StartDelete(h, u)
  BY <1>1, <1>3 DEF StartCreateUser, StartResend, StartDelete, Steps
<1>4. CASE \E t \in Token : StartClaim(h, t)
  <2>1. PICK t \in Token : StartClaim(h, t)
    BY <1>4
  <2>2. invite[t].of \in User
    BY <2>1 DEF StartClaim, PTypeOK
  <2> QED
    BY <1>1, <2>1, <2>2 DEF StartClaim, Steps
<1> QED
  BY <1>2, <1>3, <1>4 DEF Arrives

LEMMA LookupKeepsRowInv ==
    ASSUME RowInv, NEW h \in Handler, Lookup(h)
    PROVE  RowInv'
<1> USE DEF RowInv
<1>1. /\ call' \in [Handler -> Calls]
      /\ \A k \in Handler \ {h} : call'[k] = call[k]
      /\ \/ /\ call'[h].at \in {"invite", "revive"} /\ call'[h].user = call[h].user
            /\ call'[h].by = call[h].by /\ call'[h].ip = call[h].ip
         \/ call'[h].at = "idle"
  BY GoToFacts, EndFacts DEF Lookup, PTypeOK, Steps
<1>2. /\ KeepsRows /\ KeepsInvites /\ mailed' = mailed
      /\ removal' \in [User -> {"no", "going", "sealed"}]
  BY UnchangedTables DEF Lookup, PTypeOK, KeepsInvites, FreshTokens
<1>3. PTypeOK' /\ FreshTokens'
  BY <1>1, <1>2 DEF PTypeOK, KeepsRows, FreshTokens, Lookup, Shape
<1>4. \A k \in Handler : Advances(k)
  <2>1. Shape(h)' /\ call'[h].at \notin {"link", "answered"}
    BY <1>1, <1>2 DEF Lookup, Shape, CallShape, Running
  <2> QED
    BY <1>1, <2>1 DEF Advances
<1> QED
  BY <1>2, <1>3, <1>4, StepKeepsRowInv

LEMMA ReviveKeepsRowInv ==
    ASSUME RowInv, NEW h \in Handler, Revive(h)
    PROVE  RowInv'
<1> USE DEF RowInv
<1>1. /\ call' \in [Handler -> Calls]
      /\ \A k \in Handler \ {h} : call'[k] = call[k]
      /\ call'[h].at \in {"invite"} /\ call'[h].user = call[h].user
      /\ call'[h].by = call[h].by /\ call'[h].ip = call[h].ip
  BY GoToFacts DEF Revive, PTypeOK, Steps
<1>2. /\ KeepsRows /\ KeepsInvites /\ mailed' = mailed
      /\ removal' \in [User -> {"no", "going", "sealed"}]
  BY UnchangedTables DEF Revive, PTypeOK, KeepsInvites, FreshTokens
<1>3. PTypeOK' /\ FreshTokens'
  BY <1>1, <1>2 DEF PTypeOK, KeepsRows, FreshTokens, Revive, Shape
<1>4. \A k \in Handler : Advances(k)
  <2>1. Shape(h)' /\ call'[h].at \notin {"link", "answered"}
    BY <1>1, <1>2 DEF Revive, Shape, CallShape, Running
  <2> QED
    BY <1>1, <2>1 DEF Advances
<1> QED
  BY <1>2, <1>3, <1>4, StepKeepsRowInv

LEMMA ResendKeepsRowInv ==
    ASSUME RowInv, NEW h \in Handler, Resend(h)
    PROVE  RowInv'
<1> USE DEF RowInv
<1>1. /\ call' \in [Handler -> Calls]
      /\ \A k \in Handler \ {h} : call'[k] = call[k]
      /\ \/ /\ call'[h].at \in {"invite"} /\ call'[h].user = call[h].user
            /\ call'[h].by = call[h].by /\ call'[h].ip = call[h].ip
         \/ call'[h].at = "idle"
  BY GoToFacts, EndFacts DEF Resend, PTypeOK, Steps
<1>2. /\ KeepsRows /\ KeepsInvites /\ mailed' = mailed
      /\ removal' \in [User -> {"no", "going", "sealed"}]
  BY UnchangedTables DEF Resend, PTypeOK, KeepsInvites, FreshTokens
<1>3. PTypeOK' /\ FreshTokens'
  BY <1>1, <1>2 DEF PTypeOK, KeepsRows, FreshTokens, Resend, Shape
<1>4. \A k \in Handler : Advances(k)
  <2>1. Shape(h)' /\ call'[h].at \notin {"link", "answered"}
    BY <1>1, <1>2 DEF Resend, Shape, CallShape, Running
  <2> QED
    BY <1>1, <2>1 DEF Advances
<1> QED
  BY <1>2, <1>3, <1>4, StepKeepsRowInv

LEMMA IssueInviteKeepsRowInv ==
    ASSUME RowInv, NEW h \in Handler, IssueInvite(h)
    PROVE  RowInv'
<1> USE DEF RowInv
<1>1. /\ call' \in [Handler -> Calls]
      /\ \A k \in Handler \ {h} : call'[k] = call[k]
      /\ call'[h].at = "idle"
  BY EndFacts DEF IssueInvite, PTypeOK
<1>2. /\ KeepsRows /\ KeepsInvites /\ mailed' = mailed
      /\ removal' \in [User -> {"no", "going", "sealed"}]
  BY UnchangedTables DEF IssueInvite, PTypeOK, KeepsInvites, FreshTokens
<1>3. PTypeOK' /\ FreshTokens'
  BY <1>1, <1>2, IdAssumption DEF PTypeOK, KeepsRows, FreshTokens, IssueInvite, Shape, CallShape, Running
<1>4. \A k \in Handler : Advances(k)
  <2>1. Shape(h)' /\ call'[h].at \notin {"link", "answered"}
    BY <1>1, <1>2 DEF IssueInvite, Shape, CallShape, Running, KeepsInvites
  <2> QED
    BY <1>1, <2>1 DEF Advances
<1> QED
  BY <1>2, <1>3, <1>4, StepKeepsRowInv

LEMMA FindKeepsRowInv ==
    ASSUME RowInv, NEW h \in Handler, Find(h)
    PROVE  RowInv'
<1> USE DEF RowInv
<1>1. /\ call' \in [Handler -> Calls]
      /\ \A k \in Handler \ {h} : call'[k] = call[k]
      /\ \/ /\ call'[h].at \in {"activate"} /\ call'[h].user = call[h].user
            /\ call'[h].by = call[h].by /\ call'[h].ip = call[h].ip
         \/ call'[h].at = "idle"
  BY GoToFacts, EndFacts DEF Find, PTypeOK, Steps
<1>2. /\ KeepsRows /\ KeepsInvites /\ mailed' = mailed
      /\ removal' \in [User -> {"no", "going", "sealed"}]
  BY UnchangedTables DEF Find, PTypeOK, KeepsInvites, FreshTokens
<1>3. PTypeOK' /\ FreshTokens'
  BY <1>1, <1>2 DEF PTypeOK, KeepsRows, FreshTokens, Find, Shape
<1>4. \A k \in Handler : Advances(k)
  <2>1. Shape(h)' /\ call'[h].at \notin {"link", "answered"}
    BY <1>1, <1>2 DEF Find, Shape, CallShape, Running
  <2> QED
    BY <1>1, <2>1 DEF Advances
<1> QED
  BY <1>2, <1>3, <1>4, StepKeepsRowInv

LEMMA ActivateKeepsRowInv ==
    ASSUME RowInv, NEW h \in Handler, Activate(h)
    PROVE  RowInv'
<1> USE DEF RowInv
<1>1. /\ call' \in [Handler -> Calls]
      /\ \A k \in Handler \ {h} : call'[k] = call[k]
      /\ call'[h].at \in {"accept"} /\ call'[h].user = call[h].user
      /\ call'[h].by = call[h].by /\ call'[h].ip = call[h].ip
  BY GoToFacts DEF Activate, PTypeOK, Steps
<1>2. /\ KeepsRows /\ KeepsInvites /\ mailed' = mailed
      /\ removal' \in [User -> {"no", "going", "sealed"}]
  BY UnchangedTables DEF Activate, PTypeOK, KeepsInvites, FreshTokens
<1>3. PTypeOK' /\ FreshTokens'
  BY <1>1, <1>2 DEF PTypeOK, KeepsRows, FreshTokens, Activate, Shape
<1>4. \A k \in Handler : Advances(k)
  <2>1. Shape(h)' /\ call'[h].at \notin {"link", "answered"}
    BY <1>1, <1>2 DEF Activate, Shape, CallShape, Running
  <2> QED
    BY <1>1, <2>1 DEF Advances
<1> QED
  BY <1>2, <1>3, <1>4, StepKeepsRowInv

LEMMA AcceptKeepsRowInv ==
    ASSUME RowInv, NEW h \in Handler, Accept(h)
    PROVE  RowInv'
<1> USE DEF RowInv
<1>1. /\ call' \in [Handler -> Calls]
      /\ \A k \in Handler \ {h} : call'[k] = call[k]
      /\ call'[h].at \in {"pick"} /\ call'[h].user = call[h].user
      /\ call'[h].by = call[h].by /\ call'[h].ip = call[h].ip
  BY GoToFacts DEF Accept, PTypeOK, Steps
<1>2. /\ KeepsRows /\ KeepsInvites /\ mailed' = mailed
      /\ removal' \in [User -> {"no", "going", "sealed"}]
  BY UnchangedTables DEF Accept, PTypeOK, KeepsInvites, FreshTokens
<1>3. PTypeOK' /\ FreshTokens'
  BY <1>1, <1>2, IdAssumption DEF PTypeOK, KeepsRows, FreshTokens, Accept, Shape, CallShape, Running
<1>4. \A k \in Handler : Advances(k)
  <2>1. Shape(h)' /\ call'[h].at \notin {"link", "answered"}
    BY <1>1, <1>2 DEF Accept, Shape, CallShape, Running, KeepsInvites
  <2> QED
    BY <1>1, <2>1 DEF Advances
<1> QED
  BY <1>2, <1>3, <1>4, StepKeepsRowInv

LEMMA DropInvitesKeepsRowInv ==
    ASSUME RowInv, NEW h \in Handler, DropInvites(h)
    PROVE  RowInv'
<1> USE DEF RowInv
<1>1. /\ call' \in [Handler -> Calls]
      /\ \A k \in Handler \ {h} : call'[k] = call[k]
      /\ call'[h].at \in {"dropUser"} /\ call'[h].user = call[h].user
      /\ call'[h].by = call[h].by /\ call'[h].ip = call[h].ip
  BY GoToFacts DEF DropInvites, PTypeOK, Steps
<1>2. /\ KeepsRows /\ KeepsInvites /\ mailed' = mailed
      /\ removal' \in [User -> {"no", "going", "sealed"}]
  BY UnchangedTables DEF DropInvites, PTypeOK, KeepsInvites, FreshTokens
<1>3. PTypeOK' /\ FreshTokens'
  BY <1>1, <1>2, IdAssumption DEF PTypeOK, KeepsRows, FreshTokens, DropInvites, Shape, CallShape, Running
<1>4. \A k \in Handler : Advances(k)
  <2>1. Shape(h)' /\ call'[h].at \notin {"link", "answered"}
    BY <1>1, <1>2 DEF DropInvites, Shape, CallShape, Running, KeepsInvites
  <2> QED
    BY <1>1, <2>1 DEF Advances
<1> QED
  BY <1>2, <1>3, <1>4, StepKeepsRowInv

LEMMA DropUserKeepsRowInv ==
    ASSUME RowInv, NEW h \in Handler, DropUser(h)
    PROVE  RowInv'
<1> USE DEF RowInv
<1>1. /\ call' \in [Handler -> Calls]
      /\ \A k \in Handler \ {h} : call'[k] = call[k]
      /\ call'[h].at \in {"dropPeers"} /\ call'[h].user = call[h].user
      /\ call'[h].by = call[h].by /\ call'[h].ip = call[h].ip
  BY GoToFacts DEF DropUser, PTypeOK, Steps
<1>2. /\ KeepsRows /\ KeepsInvites /\ mailed' = mailed
      /\ removal' \in [User -> {"no", "going", "sealed"}]
  BY UnchangedTables DEF DropUser, PTypeOK, KeepsInvites, FreshTokens
<1>3. PTypeOK' /\ FreshTokens'
  BY <1>1, <1>2 DEF PTypeOK, KeepsRows, FreshTokens, DropUser, Shape
<1>4. \A k \in Handler : Advances(k)
  <2>1. Shape(h)' /\ call'[h].at \notin {"link", "answered"}
    BY <1>1, <1>2 DEF DropUser, Shape, CallShape, Running
  <2> QED
    BY <1>1, <2>1 DEF Advances
<1> QED
  BY <1>2, <1>3, <1>4, StepKeepsRowInv

LEMMA DropPeersKeepsRowInv ==
    ASSUME RowInv, NEW h \in Handler, DropPeers(h)
    PROVE  RowInv'
<1> USE DEF RowInv
<1>1. /\ call' \in [Handler -> Calls]
      /\ \A k \in Handler \ {h} : call'[k] = call[k]
      /\ call'[h].at = "idle"
  BY EndFacts DEF DropPeers, FinishRemoval, PTypeOK
<1>2. KeepsRows
  BY MovedFacts DEF DropPeers, PTypeOK
<1>3. UNCHANGED <<user, invite, mailed>>
  BY DEF DropPeers, FinishRemoval
<1>4. removal' \in [User -> {"no", "going", "sealed"}]
  BY DEF DropPeers, FinishRemoval, PTypeOK
<1>5. PTypeOK' /\ FreshTokens'
  BY <1>1, <1>2, <1>3, <1>4 DEF PTypeOK, FreshTokens, KeepsRows
<1>6. \A k \in Handler : Advances(k)
  BY <1>1 DEF Advances, Shape, Running
<1> QED
  BY <1>2, <1>3, <1>5, <1>6, UnchangedTables, StepKeepsRowInv

LEMMA FailKeepsRowInv ==
    ASSUME RowInv, NEW h \in Handler, Fail(h)
    PROVE  RowInv'
<1> USE DEF RowInv
<1>1. /\ call' \in [Handler -> Calls]
      /\ \A k \in Handler \ {h} : call'[k] = call[k]
      /\ call'[h].at = "idle"
  BY EndFacts DEF Fail, PTypeOK
<1>2. /\ KeepsRows /\ KeepsInvites /\ mailed' = mailed
      /\ removal' \in [User -> {"no", "going", "sealed"}]
  BY UnchangedTables DEF Fail, Meets, PTypeOK, KeepsInvites
<1>3. PTypeOK' /\ FreshTokens'
  BY <1>1, <1>2 DEF PTypeOK, KeepsRows, FreshTokens, Fail, Shape
<1>4. \A k \in Handler : Advances(k)
  <2>1. Shape(h)' /\ call'[h].at \notin {"link", "answered"}
    BY <1>1, <1>2 DEF Fail, Shape, CallShape, Running
  <2> QED
    BY <1>1, <2>1 DEF Advances
<1> QED
  BY <1>2, <1>3, <1>4, StepKeepsRowInv

\* The steps that may answer the client.
LEMMA AnswersKeepRowInv ==
    ASSUME RowInv, NEW h \in Handler, NEW ip \in Candidates(Net) \cup {NoAddress},
           Answer(h, ip), UNCHANGED <<user, invite, peer, mailed, removal>>,
           call[h].by \in Request => \E r \in RowsBy(call[h].by) : peer[r].ip = ip
    PROVE  RowInv'
<1> USE DEF RowInv
<1>1. /\ call' \in [Handler -> Calls]
      /\ \A k \in Handler \ {h} : call'[k] = call[k]
      /\ \/ call'[h].at = "idle"
         \/ /\ call'[h].at = "answered" /\ call'[h].by \in Request
            /\ call'[h].by = call[h].by /\ call'[h].ip = ip
  BY AnswerFacts DEF PTypeOK
<1>2. PTypeOK' /\ FreshTokens'
  BY <1>1 DEF PTypeOK, FreshTokens
<1>3. \A k \in Handler : Advances(k)
  BY <1>1 DEF Advances, Shape, Running
<1> QED
  BY <1>2, <1>3, UnchangedTables, StepKeepsRowInv

LEMMA MovesKeepRowInv ==
    ASSUME RowInv, NEW h \in Handler, NEW at \in Steps \ {"link"}, GoTo(h, at),
           UNCHANGED <<user, invite, peer, mailed, removal>>,
           Running(h), at \in {"replay", "reread"} => call[h].by \in Request,
           at = "insert" => call[h].ip \in Candidates(Net),
           at \notin {"find", "activate", "accept"}
    PROVE  RowInv'
<1> USE DEF RowInv
<1>1. /\ call' \in [Handler -> Calls]
      /\ \A k \in Handler \ {h} : call'[k] = call[k]
      /\ call'[h].at = at /\ call'[h].user = call[h].user
      /\ call'[h].by = call[h].by /\ call'[h].ip = call[h].ip
  BY GoToFacts DEF PTypeOK
<1>2. PTypeOK' /\ FreshTokens'
  BY <1>1 DEF PTypeOK, FreshTokens
<1>3. Shape(h)' /\ call'[h].at # "answered"
  BY <1>1 DEF Shape, CallShape, Running, Steps
<1>4. \A k \in Handler : Advances(k)
  BY <1>1, <1>3 DEF Advances
<1> QED
  BY <1>2, <1>4, UnchangedTables, StepKeepsRowInv

LEMMA EndsKeepRowInv ==
    ASSUME RowInv, NEW h \in Handler, End(h),
           UNCHANGED <<user, invite, peer, mailed, removal>>
    PROVE  RowInv'
<1> USE DEF RowInv
<1>1. /\ call' \in [Handler -> Calls]
      /\ \A k \in Handler \ {h} : call'[k] = call[k]
      /\ call'[h].at = "idle"
  BY EndFacts DEF PTypeOK
<1>2. PTypeOK' /\ FreshTokens'
  BY <1>1 DEF PTypeOK, FreshTokens
<1>3. \A k \in Handler : Advances(k)
  BY <1>1 DEF Advances, Shape, Running
<1> QED
  BY <1>2, <1>3, UnchangedTables, StepKeepsRowInv

LEMMA RowAddress ==
    ASSUME PTypeOK, NEW r \in Rows
    PROVE  peer[r] \in Peer /\ peer[r].ip \in Candidates(Net)
BY DEF PTypeOK, Rows, Peer

LEMMA ReplayKeepsRowInv ==
    ASSUME RowInv, NEW h \in Handler, Replay(h)
    PROVE  RowInv'
<1> USE DEF RowInv
<1>1. CASE RowsBy(call[h].by) = {}
  BY <1>1, MovesKeepRowInv DEF Replay, Running, Steps
<1>2. CASE RowsBy(call[h].by) # {}
  <2>1. PICK r \in RowsBy(call[h].by) : Answer(h, peer[r].ip)
    BY <1>2 DEF Replay
  <2>2. peer[r].ip \in Candidates(Net)
    BY <2>1, RowAddress DEF RowsBy
  <2> QED
    BY <2>1, <2>2, AnswersKeepRowInv DEF Replay
<1> QED
  BY <1>1, <1>2

LEMMA RereadKeepsRowInv ==
    ASSUME RowInv, NEW h \in Handler, Reread(h)
    PROVE  RowInv'
<1> USE DEF RowInv
<1>1. CASE RowsBy(call[h].by) = {}
  BY <1>1, EndsKeepRowInv DEF Reread
<1>2. CASE RowsBy(call[h].by) # {}
  <2>1. PICK r \in RowsBy(call[h].by) : Answer(h, peer[r].ip)
    BY <1>2 DEF Reread
  <2>2. peer[r].ip \in Candidates(Net)
    BY <2>1, RowAddress DEF RowsBy
  <2> QED
    BY <2>1, <2>2, AnswersKeepRowInv DEF Reread
<1> QED
  BY <1>1, <1>2

LEMMA PickKeepsRowInv ==
    ASSUME RowInv, NEW h \in Handler, Pick(h)
    PROVE  RowInv'
<1> USE DEF RowInv
<1>1. PICK seen \in SUBSET Used :
        LET a == NextAvailable(Net, seen) IN
        IF a = NoAddress THEN End(h)
        ELSE call' = [call EXCEPT ![h] = [@ EXCEPT !.at = "insert", !.ip = a]]
  BY DEF Pick
<1> DEFINE a == NextAvailable(Net, seen)
<1>2. CASE a = NoAddress
  BY <1>1, <1>2, EndsKeepRowInv DEF Pick
<1>3. CASE a # NoAddress
  <2>1. a \in Candidates(Net)
    BY <1>3, PickedAddress
  <2> HIDE DEF a
  <2>2. call' = [call EXCEPT ![h] = [call[h] EXCEPT !.at = "insert", !.ip = a]]
    BY <1>1, <1>3 DEF a
  <2>3. /\ call' \in [Handler -> Calls]
        /\ \A k \in Handler \ {h} : call'[k] = call[k]
        /\ call'[h].at = "insert" /\ call'[h].user = call[h].user
        /\ call'[h].ip = a
    <3> DEFINE d == [call[h] EXCEPT !.at = "insert"]
    <3>1. d \in Calls /\ d.at = "insert" /\ d.user = call[h].user
      BY DEF PTypeOK, Calls, Steps
    <3>2. call' = [call EXCEPT ![h] = [d EXCEPT !.ip = a]]
      BY <2>2
    <3> HIDE DEF d
    <3>3. /\ [d EXCEPT !.ip = a] \in Calls
          /\ [d EXCEPT !.ip = a].at = d.at /\ [d EXCEPT !.ip = a].user = d.user
          /\ [d EXCEPT !.ip = a].ip = a
      BY <2>1, <3>1 DEF Calls
    <3> QED
      BY <3>1, <3>2, <3>3 DEF PTypeOK
  <2>4. UNCHANGED <<user, invite, peer, mailed, removal>>
    BY DEF Pick
  <2>5. PTypeOK' /\ FreshTokens'
    BY <2>3, <2>4 DEF PTypeOK, FreshTokens
  <2>6. Shape(h)'
    BY <2>1, <2>3 DEF Shape, CallShape, Running, Pick
  <2>7. \A k \in Handler : Advances(k)
    BY <2>3, <2>6 DEF Advances
  <2> QED
    BY <2>4, <2>5, <2>7, UnchangedTables, StepKeepsRowInv
<1> QED
  BY <1>2, <1>3

\* The insert: past both unique indexes, the row is the first with its address
\* and the first with its request id.
LEMMA InsertKeepsRowInv ==
    ASSUME RowInv, NEW h \in Handler, Insert(h)
    PROVE  RowInv'
<1> USE DEF RowInv
<1> DEFINE c == call[h]
<1>1. /\ UNCHANGED <<user, invite, mailed, removal>> /\ KeepsInvites
      /\ c.at = "insert" /\ c.user \in User /\ c.ip \in Candidates(Net)
      /\ c \in Calls
  BY UnchangedTables DEF Insert, CallShape, Shape, Running, PTypeOK
<1>2. CASE UniqueViolation(c)
  <2>1. CASE c.by \in Request
    BY <1>1, <1>2, <2>1, MovesKeepRowInv DEF Insert, Running, Steps
  <2>2. CASE c.by \notin Request
    BY <1>1, <1>2, <2>2, EndsKeepRowInv DEF Insert
  <2> QED
    BY <2>1, <2>2
<1>3. CASE ~UniqueViolation(c)
  <2>1. PICK n \in Row \ Rows :
           peer' = [peer EXCEPT ![n] = [user |-> c.user, ip |-> c.ip, by |-> c.by,
                                        status |-> "active"]]
    BY <1>3 DEF Insert, AddRow
  <2>2. peer'[n] \in Peer /\ peer'[n] # NoPeer /\ peer'[n].ip = c.ip /\ peer'[n].by = c.by
    <3>1. peer'[n] = [user |-> c.user, ip |-> c.ip, by |-> c.by, status |-> "active"]
      BY <2>1 DEF PTypeOK
    <3>2. c.by \in Request \cup Token \cup {NoId}
      BY <1>1 DEF Calls
    <3>3. peer'[n] \in Peer
      BY <1>1, <3>1, <3>2 DEF Peer
    <3> QED
      BY <3>1, <3>3, NoPeerIsNone
  <2>3. /\ \A r \in Row \ {n} : peer'[r] = peer[r]
        /\ peer' \in [Row -> Peer \cup {NoPeer}]
        /\ peer[n] = NoPeer
        /\ Rows' = Rows \cup {n}
    BY <2>1, <2>2 DEF PTypeOK, Rows
  <2>4. /\ \A r \in Rows : peer[r].ip # c.ip
        /\ c.by \in Request => \A r \in Rows : peer[r].by # c.by
    BY <1>3 DEF UniqueViolation, AddressTaken, RequestTaken, Used, RowsBy
  <2>5. UniqueRows'
    <3> SUFFICES ASSUME NEW r \in Rows', NEW s \in Rows', r # s
                 PROVE  /\ peer'[r].ip # peer'[s].ip
                        /\ peer'[r].by \in Request => peer'[r].by # peer'[s].by
      BY DEF UniqueRows
    <3>1. CASE r = n
      BY <2>2, <2>3, <2>4, <3>1 DEF Rows
    <3>2. CASE s = n
      BY <2>2, <2>3, <2>4, <3>2 DEF Rows
    <3>3. CASE r # n /\ s # n
      BY <2>3, <3>3 DEF Rows, UniqueRows
    <3> QED
      BY <3>1, <3>2, <3>3
  <2>6. \A r \in Rows : r \in Rows' /\ peer'[r] = peer[r]
    BY <2>3 DEF Rows
  <2>7. \A b : RowsBy(b) \subseteq RowsBy(b)'
    BY <2>6 DEF RowsBy
  <2>8. c.by \in Request => mailed[c.by] = 0
    <3>1. c.by \in Request => RowsBy(c.by) = {}
      BY <2>4 DEF RowsBy
    <3>2. c.by \in Request => mailed[c.by] \in Nat /\ mailed[c.by] <= 1 /\ mailed[c.by] # 1
      BY <3>1 DEF MailedOnce, PTypeOK
    <3> QED
      BY <3>2
  <2>9. n \in Rows' /\ peer'[n].by = c.by /\ peer'[n].ip = c.ip
    BY <2>2, <2>3
  <2>10. /\ call' \in [Handler -> Calls]
         /\ \A k \in Handler \ {h} : call'[k] = call[k]
         /\ \/ /\ call'[h].at = "link" /\ call'[h].user = c.user
               /\ call'[h].by = c.by /\ call'[h].ip = c.ip
            \/ call'[h].at = "idle"
            \/ /\ call'[h].at = "answered" /\ call'[h].by \in Request
               /\ call'[h].by = c.by /\ call'[h].ip = c.ip
    <3>1. CASE c.mail
      <4>1. GoTo(h, "link")
        BY <1>3, <3>1 DEF Insert
      <4> QED
        BY <4>1, GoToFacts DEF PTypeOK, Steps
    <3>2. CASE ~c.mail
      <4>1. Answer(h, c.ip)
        BY <1>3, <3>2 DEF Insert
      <4> QED
        BY <1>1, <4>1, AnswerFacts DEF PTypeOK
    <3> QED
      BY <3>1, <3>2
  <2>11. PTypeOK' /\ FreshTokens'
    BY <1>1, <2>3, <2>10 DEF PTypeOK, FreshTokens
  <2>12. CallShape'
    <3>1. Shape(h)'
      BY <1>1, <2>10 DEF Shape, Running
    <3>2. \A k \in Handler \ {h} : Shape(k)'
      BY <1>1, <2>10, ShapeKept DEF CallShape
    <3> QED
      BY <3>1, <3>2 DEF CallShape
  <2>13. LinkOwed'
    <3> SUFFICES ASSUME NEW k \in Handler, call'[k].at = "link", call'[k].by \in Request
                 PROVE  /\ mailed'[call'[k].by] = 0
                        /\ \E r \in RowsBy(call[k].by)' : peer'[r].ip = call'[k].ip
                        /\ \A j \in Handler : call'[j].at = "link" /\ call'[j].by = call'[k].by
                              => j = k
      BY DEF LinkOwed
    <3>1. \A j \in Handler \ {h} : call[j].at = "link" /\ call[j].by \in Request =>
             /\ call[j].by # c.by
             /\ call'[j] = call[j]
      <4> SUFFICES ASSUME NEW j \in Handler \ {h}, call[j].at = "link", call[j].by \in Request
                   PROVE  call[j].by # c.by
        BY <2>10
      <4>1. RowsBy(call[j].by) # {}
        BY DEF LinkOwed
      <4> QED
        BY <2>4, <4>1 DEF RowsBy
    <3>2. CASE k = h
      <4>1. call'[h].at = "link" /\ call'[h].by = c.by /\ call'[h].ip = c.ip
        BY <2>10, <3>2
      <4>2. mailed'[call'[k].by] = 0
        BY <1>1, <2>8, <3>2, <4>1
      <4>3. n \in RowsBy(call[k].by)' /\ peer'[n].ip = call'[k].ip
        BY <2>9, <3>2, <4>1 DEF RowsBy
      <4>4. ASSUME NEW j \in Handler, call'[j].at = "link", call'[j].by = call'[k].by
            PROVE  j = k
        BY <2>10, <3>1, <3>2, <4>1, <4>4
      <4> QED
        BY <4>2, <4>3, <4>4
    <3>3. CASE k # h
      <4>1. call'[k] = call[k]
        BY <2>10, <3>3
      <4>2. /\ mailed[call[k].by] = 0
            /\ \E r \in RowsBy(call[k].by) : peer[r].ip = call[k].ip
            /\ \A j \in Handler : call[j].at = "link" /\ call[j].by = call[k].by => j = k
        BY <4>1 DEF LinkOwed
      <4>3. PICK r \in RowsBy(call[k].by) : peer[r].ip = call[k].ip
        BY <4>2
      <4>4. r \in RowsBy(call[k].by)' /\ peer'[r].ip = call'[k].ip
        BY <2>6, <4>1, <4>3 DEF RowsBy
      <4>5. ASSUME NEW j \in Handler, call'[j].at = "link", call'[j].by = call'[k].by
            PROVE  j = k
        BY <2>10, <3>1, <3>3, <4>1, <4>2, <4>5
      <4> QED
        BY <1>1, <4>1, <4>2, <4>4, <4>5
    <3> QED
      BY <3>2, <3>3
  <2>14. MailedOnce'
    <3> SUFFICES ASSUME NEW q \in Request
                 PROVE  mailed'[q] <= 1 /\ (mailed'[q] = 1 => RowsBy(q)' # {})
      BY DEF MailedOnce
    <3>1. mailed'[q] = mailed[q]
      BY <1>1
    <3> QED
      BY <2>7, <3>1 DEF MailedOnce
  <2>15. AnswersAgree'
    <3> SUFFICES ASSUME NEW k \in Handler, call'[k].at = "answered"
                 PROVE  \E r \in RowsBy(call[k].by)' : peer'[r].ip = call'[k].ip
      BY DEF AnswersAgree
    <3>1. CASE k = h
      <4>1. n \in RowsBy(call[k].by)' /\ peer'[n].ip = call'[k].ip
        BY <2>9, <2>10, <3>1 DEF RowsBy
      <4> QED
        BY <4>1
    <3>2. CASE k # h
      <4>1. call'[k] = call[k]
        BY <2>10, <3>2
      <4>2. PICK r \in RowsBy(call[k].by) : peer[r].ip = call[k].ip
        BY <4>1 DEF AnswersAgree
      <4>3. r \in RowsBy(call[k].by)' /\ peer'[r].ip = call'[k].ip
        BY <2>6, <4>1, <4>2 DEF RowsBy
      <4> QED
        BY <4>3
    <3> QED
      BY <3>1, <3>2
  <2> QED
    BY <2>5, <2>11, <2>12, <2>13, <2>14, <2>15
<1> QED
  BY <1>2, <1>3

\* The email: nobody else is about to send one for the same request id.
LEMMA LinkKeepsRowInv ==
    ASSUME RowInv, NEW h \in Handler, Link(h)
    PROVE  RowInv'
<1> USE DEF RowInv
<1> DEFINE c == call[h]
<1>1. /\ UNCHANGED <<user, invite, peer, removal>> /\ KeepsInvites /\ KeepsRows
      /\ c.at = "link" /\ c.ip \in Candidates(Net)
  BY UnchangedTables DEF Link, CallShape, Shape
<1>2. /\ call' \in [Handler -> Calls]
      /\ \A k \in Handler \ {h} : call'[k] = call[k]
      /\ \/ call'[h].at = "idle"
         \/ /\ call'[h].at = "answered" /\ call'[h].by \in Request
            /\ call'[h].by = c.by /\ call'[h].ip = c.ip
  BY <1>1, AnswerFacts DEF Link, PTypeOK
<1>3. /\ mailed' \in [Request -> Nat]
      /\ \A q \in Request : mailed'[q] = mailed[q] + (IF q = c.by THEN 1 ELSE 0)
  BY DEF Link, PTypeOK
<1>4. PTypeOK' /\ FreshTokens'
  BY <1>1, <1>2, <1>3 DEF PTypeOK, FreshTokens
<1>5. CallShape'
  <2>1. Shape(h)'
    BY <1>2 DEF Shape, Running
  <2>2. \A k \in Handler \ {h} : Shape(k)'
    BY <1>1, <1>2, ShapeKept DEF CallShape
  <2> QED
    BY <2>1, <2>2 DEF CallShape
<1>6. UniqueRows'
  BY <1>1 DEF UniqueRows, Rows
<1>7. c.by \in Request => /\ mailed[c.by] = 0
                          /\ \E r \in RowsBy(c.by) : peer[r].ip = c.ip
                          /\ \A k \in Handler : call[k].at = "link" /\ call[k].by = c.by => k = h
  BY <1>1 DEF LinkOwed
<1>8. \A k \in Handler : call'[k].at = "link" => k # h /\ call'[k] = call[k]
  BY <1>2
<1>9. LinkOwed'
  <2> SUFFICES ASSUME NEW k \in Handler, call'[k].at = "link", call'[k].by \in Request
               PROVE  /\ mailed'[call'[k].by] = 0
                      /\ \E r \in RowsBy(call[k].by)' : peer'[r].ip = call'[k].ip
                      /\ \A j \in Handler : call'[j].at = "link" /\ call'[j].by = call'[k].by
                            => j = k
    BY DEF LinkOwed
  <2>1. k # h /\ call'[k] = call[k] /\ call[k].by # c.by
    BY <1>1, <1>7, <1>8
  <2>2. mailed[call[k].by] = 0 /\ \E r \in RowsBy(call[k].by) : peer[r].ip = call[k].ip
    BY <2>1 DEF LinkOwed
  <2>3. \A j \in Handler : call'[j].at = "link" /\ call'[j].by = call'[k].by => j = k
    BY <1>8, <2>1 DEF LinkOwed
  <2>4. \E r \in RowsBy(call[k].by)' : peer'[r].ip = call'[k].ip
    BY <1>1, <2>1, <2>2 DEF RowsBy, Rows
  <2>5. mailed'[call'[k].by] = 0
    BY <1>3, <2>1, <2>2
  <2> QED
    BY <2>3, <2>4, <2>5
<1>10. MailedOnce'
  <2> SUFFICES ASSUME NEW q \in Request
               PROVE  mailed'[q] <= 1 /\ (mailed'[q] = 1 => RowsBy(q)' # {})
    BY DEF MailedOnce
  <2>1. RowsBy(q)' = RowsBy(q)
    BY <1>1 DEF RowsBy, Rows
  <2>2. CASE q = c.by
    <3>1. mailed'[q] = 1 /\ RowsBy(q) # {}
      BY <1>3, <1>7, <2>2
    <3> QED
      BY <2>1, <3>1
  <2>3. CASE q # c.by
    <3>1. mailed'[q] = mailed[q]
      BY <1>3, <2>3 DEF PTypeOK
    <3> QED
      BY <2>1, <3>1 DEF MailedOnce
  <2> QED
    BY <2>2, <2>3
<1>11. AnswersAgree'
  <2> SUFFICES ASSUME NEW k \in Handler, call'[k].at = "answered"
               PROVE  \E r \in RowsBy(call[k].by)' : peer'[r].ip = call'[k].ip
    BY DEF AnswersAgree
  <2>1. \E r \in RowsBy(call'[k].by) : peer[r].ip = call'[k].ip
    BY <1>2, <1>7 DEF AnswersAgree
  <2> QED
    BY <1>1, <2>1 DEF RowsBy, Rows
<1> QED
  BY <1>4, <1>5, <1>6, <1>9, <1>10, <1>11

\* What an administrator does to a user or a peer in one transaction.
LEMMA AdminsKeepRowInv ==
    ASSUME RowInv,
           \/ \E u \in User : SuspendUser(u) \/ ResumeUser(u)
           \/ \E r \in Row : SuspendPeer(r) \/ ResumePeer(r) \/ DeletePeer(r)
    PROVE  RowInv'
<1> USE DEF RowInv
<1>1. ASSUME NEW u \in User, NEW status \in {"suspended", "active"}, NEW from,
             SetUser(u, status, from, status)
      PROVE  RowInv'
  <2>1. KeepsRows
    BY <1>1, MovedFacts DEF SetUser, PTypeOK
  <2>2. PTypeOK' /\ FreshTokens' /\ KeepsInvites
    BY <1>1, <2>1, UnchangedTables DEF SetUser, Reopens, PTypeOK, FreshTokens, KeepsRows
  <2>3. mailed' = mailed /\ call' = call
    BY <1>1 DEF SetUser
  <2> QED
    BY <2>1, <2>2, <2>3, StepKeepsRowInv DEF Advances
<1>2. ASSUME NEW r \in Row, NEW status \in {"suspended", "active", "removed"},
             SetPeer(r, status)
      PROVE  RowInv'
  <2>1. KeepsRows
    BY <1>2, SetPeerFacts DEF SetPeer, PTypeOK
  <2>2. PTypeOK' /\ FreshTokens' /\ KeepsInvites
    BY <1>2, <2>1, UnchangedTables DEF SetPeer, Reopens, PTypeOK, FreshTokens, KeepsRows
  <2>3. mailed' = mailed /\ call' = call
    BY <1>2 DEF SetPeer
  <2> QED
    BY <2>1, <2>2, <2>3, StepKeepsRowInv DEF Advances
<1> QED
  BY <1>1, <1>2 DEF SuspendUser, ResumeUser, SuspendPeer, ResumePeer, DeletePeer

-----------------------------------------------------------------------------

LEMMA StutterKeepsRowInv ==
    ASSUME RowInv, UNCHANGED pvars
    PROVE  RowInv'
<1> USE DEF RowInv
<1>1. PTypeOK' /\ FreshTokens' /\ mailed' = mailed /\ call' = call
  BY DEF pvars, PTypeOK, FreshTokens
<1> QED
  BY <1>1, UnchangedTables, StepKeepsRowInv DEF pvars, Advances

LEMMA RowInvInit ==
    ASSUME PInit PROVE RowInv
<1> USE DEF PInit
<1>1. PTypeOK
  BY IdleIsCall DEF PTypeOK
<1>2. \A h \in Handler : call[h].at = "idle"
  BY DEF Idle
<1>3. CallShape /\ LinkOwed /\ AnswersAgree
  BY <1>2 DEF CallShape, Shape, Running, LinkOwed, AnswersAgree
<1>4. Rows = {}
  BY DEF Rows
<1>5. FreshTokens /\ UniqueRows /\ MailedOnce
  BY <1>4, IdAssumption DEF FreshTokens, UniqueRows, MailedOnce
<1> QED
  BY <1>1, <1>3, <1>5 DEF RowInv

\* The inductive invariant behind the theorems about rows, emails and answers.
THEOREM RowInvariant == PSpec => []RowInv
<1>1. PInit => RowInv
  BY RowInvInit
<1>2. RowInv /\ [PNext]_pvars => RowInv'
  <2> SUFFICES ASSUME RowInv, PNext PROVE RowInv'
    BY StutterKeepsRowInv
  <2>1. CASE \E h \in Handler : Arrives(h)
    BY <2>1, StartsKeepRowInv
  <2>2. CASE \E h \in Handler : HandlerStep(h)
    BY <2>2, ReplayKeepsRowInv, PickKeepsRowInv, InsertKeepsRowInv, RereadKeepsRowInv,
       LinkKeepsRowInv, LookupKeepsRowInv, ReviveKeepsRowInv, ResendKeepsRowInv,
       IssueInviteKeepsRowInv, FindKeepsRowInv, ActivateKeepsRowInv,
       AcceptKeepsRowInv, DropInvitesKeepsRowInv, DropUserKeepsRowInv,
       DropPeersKeepsRowInv, FailKeepsRowInv DEF HandlerStep
  <2>3. CASE \/ \E u \in User : SuspendUser(u) \/ ResumeUser(u)
             \/ \E r \in Row : SuspendPeer(r) \/ ResumePeer(r) \/ DeletePeer(r)
    BY <2>3, AdminsKeepRowInv
  <2> QED
    BY <2>1, <2>2, <2>3 DEF PNext
<1> QED
  BY <1>1, <1>2, PTL DEF PSpec

\* Every state has the types that PTypeOK gives.
THEOREM PTypeCorrect == PSpec => []PTypeOK
<1>1. RowInv => PTypeOK
  BY DEF RowInv
<1> QED
  BY <1>1, RowInvariant, PTL

\* However often and however concurrently a create is retried, its request id
\* gets at most one peer and one email.
THEOREM OneTryCounts == PSpec => []RequestOnce
<1>1. RowInv => RequestOnce
  <2> SUFFICES ASSUME RowInv, NEW q \in Request
               PROVE  Cardinality(RowsBy(q)) <= 1 /\ mailed[q] <= 1
    BY DEF RequestOnce
  <2>1. mailed[q] <= 1
    BY DEF RowInv, MailedOnce
  <2>2. CASE RowsBy(q) = {}
    BY <2>1, <2>2, FS_EmptySet
  <2>3. CASE RowsBy(q) # {}
    <3>1. PICK r \in RowsBy(q) : TRUE
      BY <2>3
    <3>2. \A s \in RowsBy(q) : s = r
      BY DEF RowInv, UniqueRows, RowsBy
    <3>3. RowsBy(q) = {r}
      BY <3>1, <3>2
    <3>4. Cardinality({r}) = 1
      BY FS_Singleton
    <3> QED
      BY <2>1, <3>3, <3>4
  <2> QED
    BY <2>2, <2>3
<1> QED
  BY <1>1, RowInvariant, PTL

\* Whatever attempt of a create is answered with an address, it is that of the
\* one peer the request id has.
THEOREM AnswersAreTrue == PSpec => []AnswersAgree
<1>1. RowInv => AnswersAgree
  BY DEF RowInv
<1> QED
  BY <1>1, RowInvariant, PTL

\* In a network that starts at a zero byte and spans a whole byte or more, the
\* addresses of the peers are distinct and host addresses of the network.
THEOREM AddressesStayInside ==
    ASSUME Net.base % Octet = 0, Net.size >= Octet
    PROVE  PSpec => []AddressesFit
<1>1. RowInv => AddressesFit
  <2> SUFFICES ASSUME RowInv, NEW r \in Rows
               PROVE  /\ InNetwork(Net, peer[r].ip) /\ peer[r].ip # Gateway(Net)
                      /\ \A q \in Rows \ {r} : peer[q].ip # peer[r].ip
    BY DEF AddressesFit
  <2>1. PICK i \in 2 .. Octet - 2 : peer[r].ip = Block(Net.base) + i
    BY RowAddress, Zenon DEF RowInv, Candidates
  <2>2. Net.base \in Nat /\ Net.size \in Nat
    BY NetAssumption DEF Networks
  <2>3. Block(Net.base) = Net.base
    BY <2>2 DEF Block
  <2>4. Gateway(Net) = Net.base + 1
    BY <2>3, OctetAssumption DEF Gateway, Incremented
  <2>5. i \in Nat /\ 2 <= i /\ i <= Octet - 2
    BY OctetAssumption
  <2>6. InNetwork(Net, peer[r].ip) /\ peer[r].ip # Net.base + 1
    BY <2>1, <2>2, <2>3, <2>5, OctetAssumption DEF InNetwork
  <2>7. \A q \in Rows \ {r} : peer[q].ip # peer[r].ip
    BY DEF RowInv, UniqueRows
  <2> QED
    BY <2>4, <2>6, <2>7
<1> QED
  BY <1>1, RowInvariant, PTL

-----------------------------------------------------------------------------
(* Removal.                                                                *)

\* The step opens nothing for u.
Keeps(u) ==
    /\ removal'[u] = removal[u]
    /\ user[u] = "removed" => user'[u] = "removed"
    /\ \A t \in Token : invite'[t].of = u /\ invite'[t].state = "pending" =>
                           invite[t].of = u /\ invite[t].state = "pending"
    /\ \A r \in Rows' : peer'[r].user = u =>
           \/ peer'[r].status = "removed"
           \/ r \in Rows /\ peer[r].user = u /\ peer'[r].status = peer[r].status

\* The call of h ends or stays about its user; the others do nothing.
OwnCall(h) ==
    /\ \A k \in Handler \ {h} : call'[k] = call[k]
    /\ Running(h)' => call'[h].user = call[h].user

LEMMA KeepsRemovalOk ==
    ASSUME NEW u \in User, RemovalOk(u), Keeps(u),
           \A k \in Handler : Running(k)' /\ call'[k].user = u => call'[k] = call[k]
    PROVE  RemovalOk(u)'
<1>1. \A k \in About(u)' : k \in About(u) /\ call'[k] = call[k]
  BY DEF About, Running
<1>2. CASE removal'[u] = "going"
  BY <1>1, <1>2 DEF RemovalOk, Undisturbed, Keeps
<1>3. CASE removal'[u] = "sealed"
  BY <1>1, <1>3 DEF RemovalOk, Sealed, Keeps
<1> QED
  BY <1>2, <1>3 DEF RemovalOk

\* So a handler's step is only about its own user.
LEMMA OwnUserOnly ==
    ASSUME RemovalInv, NEW h \in Handler, NEW v \in User, call[h].user = v,
           OwnCall(h), \A u \in User \ {v} : Keeps(u), RemovalOk(v)'
    PROVE  RemovalInv'
<1> SUFFICES ASSUME NEW u \in User PROVE RemovalOk(u)'
  BY DEF RemovalInv
<1>1. CASE u = v
  BY <1>1
<1>2. CASE u # v
  <2>1. ASSUME NEW k \in Handler, Running(k)', call'[k].user = u
        PROVE  call'[k] = call[k]
    BY <1>2, <2>1 DEF OwnCall, Running
  <2> QED
    BY <1>2, <2>1, KeepsRemovalOk DEF RemovalInv
<1> QED
  BY <1>1, <1>2

\* Creates, claims past their lookup and invites on their way run only while
\* no removal is in progress or final.
LEMMA BusyKeeps ==
    ASSUME RemovalInv, NEW h \in Handler, Running(h), removal' = removal,
           NEW v \in User, call[h].user = v,
           call[h].at \notin {"find", "resend", "dropInvites", "dropUser", "dropPeers"}
    PROVE  RemovalOk(v)'
<1>1. h \in About(v)
  BY DEF About
<1>2. removal[v] \notin {"going", "sealed"}
  BY <1>1 DEF RemovalInv, RemovalOk, Undisturbed, Sealed
<1> QED
  BY <1>2 DEF RemovalOk

\* What every step of a handler does to the calls.
LEMMA StepsOwnCall ==
    ASSUME RowInv, NEW h \in Handler, HandlerStep(h)
    PROVE  OwnCall(h) /\ Running(h) /\ call[h].user \in User
<1> USE DEF RowInv
<1>1. call \in [Handler -> Calls]
  BY DEF PTypeOK
<1>2. Running(h) /\ call[h].user \in User
  <2>1. Running(h)
    BY DEF HandlerStep, Running, Replay, Pick, Insert, Reread, Link, Lookup, Revive,
       Resend, IssueInvite, Find, Activate, Accept, DropInvites, DropUser, DropPeers, Fail
  <2> QED
    BY <2>1, SMTT(30) DEF CallShape, Shape
<1>3. ASSUME NEW at \in Steps, GoTo(h, at) PROVE OwnCall(h)
  BY <1>1, <1>3, GoToFacts DEF OwnCall
<1>4. ASSUME End(h) PROVE OwnCall(h)
  BY <1>1, <1>4, EndFacts DEF OwnCall, Running
<1>5. ASSUME NEW ip \in Candidates(Net), Answer(h, ip) PROVE OwnCall(h)
  BY <1>1, <1>5, AnswerFacts DEF OwnCall, Running
<1>6. CASE Replay(h) \/ Reread(h)
  <2>1. \A r \in RowsBy(call[h].by) : peer[r].ip \in Candidates(Net)
    BY RowAddress DEF RowsBy
  <2> QED
    BY <1>2, <1>3, <1>4, <1>5, <1>6, <2>1 DEF Replay, Reread, Steps
<1>7. CASE Pick(h)
  <2>1. \/ End(h)
        \/ \E a : call' = [call EXCEPT ![h] = [@ EXCEPT !.at = "insert", !.ip = a]]
    BY <1>7 DEF Pick
  <2>2. ASSUME NEW a,
               call' = [call EXCEPT ![h] = [call[h] EXCEPT !.at = "insert", !.ip = a]]
        PROVE  OwnCall(h)
    <3> DEFINE d == [[call[h] EXCEPT !.at = "insert"] EXCEPT !.ip = a]
    <3>1. d.user = call[h].user
      BY <1>1 DEF Calls
    <3> QED
      BY <1>1, <2>2, <3>1 DEF OwnCall
  <2> QED
    BY <1>2, <1>4, <2>1, <2>2
<1>8. CASE Insert(h) \/ Link(h)
  <2>1. call[h].ip \in Candidates(Net)
    BY <1>8 DEF Insert, Link, CallShape, Shape
  <2> QED
    BY <1>2, <1>3, <1>4, <1>5, <1>8, <2>1 DEF Insert, Link, Steps
<1>9. CASE Lookup(h) \/ Revive(h) \/ Resend(h) \/ Find(h) \/ Activate(h) \/ Accept(h)
  BY <1>2, <1>3, <1>4, <1>9 DEF Lookup, Revive, Resend, Find, Activate, Accept, Steps
<1>10. CASE IssueInvite(h) \/ DropInvites(h) \/ DropUser(h) \/ DropPeers(h) \/ Fail(h)
  BY <1>2, <1>3, <1>4, <1>10 DEF IssueInvite, DropInvites, DropUser, DropPeers, FinishRemoval,
     Fail, Steps
<1> QED
  BY <1>2, <1>6, <1>7, <1>8, <1>9, <1>10 DEF HandlerStep

\* The steps that never belong to a removal.
LEMMA BusyStepsKeepRemovalInv ==
    ASSUME RowInv, RemovalInv, NEW h \in Handler,
           \/ Replay(h) \/ Pick(h) \/ Insert(h) \/ Reread(h) \/ Link(h)
           \/ Lookup(h) \/ Revive(h) \/ IssueInvite(h) \/ Activate(h) \/ Accept(h)
    PROVE  RemovalInv'
<1> PICK v \in User : v = call[h].user
  BY StepsOwnCall DEF HandlerStep
<1>1. OwnCall(h) /\ Running(h) /\ v \in User
  BY StepsOwnCall, SMTT(30) DEF HandlerStep
<1>2. /\ removal' = removal
      /\ call[h].at \notin {"find", "resend", "dropInvites", "dropUser", "dropPeers"}
  BY DEF Replay, Pick, Insert, Reread, Link, Lookup, Revive, IssueInvite, Activate, Accept
<1>3. RemovalOk(v)'
  BY <1>1, <1>2, BusyKeeps
<1>4. ASSUME NEW u \in User \ {v}
      PROVE  user[u] = "removed" => user'[u] = "removed"
  BY <1>4 DEF Replay, Pick, Insert, Reread, Link, Lookup, Revive, IssueInvite, Activate,
     Accept, RowInv, PTypeOK
<1>5. ASSUME NEW u \in User \ {v}, NEW t \in Token,
             invite'[t].of = u, invite'[t].state = "pending"
      PROVE  invite[t].of = u /\ invite[t].state = "pending"
  <2>1. CASE invite' = invite
    BY <1>5, <2>1
  <2>2. CASE IssueInvite(h)
    BY <1>5, <2>2 DEF IssueInvite, RowInv, PTypeOK
  <2>3. CASE Accept(h)
    BY <1>5, <2>3, SMTT(30) DEF Accept, RowInv, PTypeOK
  <2> QED
    BY <2>1, <2>2, <2>3 DEF Replay, Pick, Insert, Reread, Link, Lookup, Revive, Activate
<1>6. ASSUME NEW u \in User \ {v}, NEW r \in Rows', peer'[r].user = u
      PROVE  r \in Rows /\ peer[r].user = u /\ peer'[r].status = peer[r].status
  <2>1. CASE peer' = peer
    BY <1>6, <2>1 DEF Rows
  <2>2. CASE Insert(h) /\ peer' # peer
    <3>1. PICK n \in Row \ Rows :
            peer' = [peer EXCEPT ![n] = [user |-> v, ip |-> call[h].ip, by |-> call[h].by,
                                         status |-> "active"]]
      BY <2>2 DEF Insert, AddRow
    <3>2. r # n
      BY <1>6, <3>1 DEF RowInv, PTypeOK
    <3> QED
      BY <1>6, <3>1, <3>2 DEF RowInv, PTypeOK, Rows
  <2> QED
    BY <2>1, <2>2 DEF Replay, Pick, Insert, Reread, Link, Lookup, Revive, IssueInvite,
       Activate, Accept
<1>7. \A u \in User \ {v} : Keeps(u)
  BY <1>2, <1>4, <1>5, <1>6 DEF Keeps
<1> QED
  BY <1>1, <1>3, <1>7, OwnUserOnly

\* A step that leaves the tables as they are, and its user's removal undisturbed.
LEMMA LateCallsKeepRemovalInv ==
    ASSUME RowInv, RemovalInv, NEW h \in Handler, Find(h) \/ Resend(h)
    PROVE  RemovalInv'
<1> PICK v \in User : v = call[h].user
  BY StepsOwnCall DEF HandlerStep
<1>1. OwnCall(h) /\ h \in About(v)
  BY StepsOwnCall DEF HandlerStep, About
<1>2. UNCHANGED <<user, invite, peer, removal>>
  BY DEF Find, Resend
<1>3. \A u \in User : Keeps(u)
  BY <1>2 DEF Keeps, Rows
<1>4. removal[v] # "going"
  BY <1>1 DEF RemovalInv, RemovalOk, Undisturbed, Find, Resend
<1>5. RemovalOk(v)'
  <2>1. CASE removal[v] = "sealed"
    <3>1. Sealed(v)
      BY <2>1 DEF RemovalInv, RemovalOk
    <3>2. End(h)
      <4>1. CASE Find(h)
        <5>1. call[h].by \in Token /\ invite[call[h].by].of = v
          BY <4>1 DEF Find, RowInv, CallShape, Shape
        <5> QED
          BY <3>1, <4>1, <5>1 DEF Sealed, Find
      <4>2. CASE Resend(h)
        BY <3>1, <4>2 DEF Sealed, Resend
      <4> QED
        BY <4>1, <4>2
    <3>3. ~Running(h)'
      BY <3>2, EndFacts DEF RowInv, PTypeOK, Running
    <3>4. ASSUME NEW k \in Handler, Running(k)', call'[k].user = v
          PROVE  call'[k] = call[k]
      BY <1>1, <3>3, <3>4 DEF OwnCall, Running
    <3> QED
      BY <1>3, <3>4, KeepsRemovalOk DEF RemovalInv
  <2>2. CASE removal[v] # "sealed"
    BY <1>2, <1>4, <2>2 DEF RemovalOk
  <2> QED
    BY <2>1, <2>2
<1> QED
  BY <1>1, <1>3, <1>5, OwnUserOnly

LEMMA DropInvitesKeepsRemovalInv ==
    ASSUME RowInv, RemovalInv, NEW h \in Handler, DropInvites(h)
    PROVE  RemovalInv'
<1> PICK v \in User : v = call[h].user
  BY StepsOwnCall DEF HandlerStep
<1>1. OwnCall(h) /\ h \in About(v)
  BY StepsOwnCall DEF HandlerStep, About
<1>2. /\ UNCHANGED <<user, peer, removal>>
      /\ invite' = [t \in Token |-> IF invite[t].of = v
                                    THEN [invite[t] EXCEPT !.state = "deleted"]
                                    ELSE invite[t]]
  BY DEF DropInvites
<1>3. \A t \in Token : /\ invite'[t].of = invite[t].of
                       /\ invite'[t].of = v => invite'[t].state = "deleted"
                       /\ invite'[t].of # v => invite'[t].state = invite[t].state
  BY <1>2 DEF RowInv, PTypeOK
<1>4. \A u \in User \ {v} : Keeps(u)
  BY <1>2, <1>3 DEF Keeps, Rows
<1>5. call'[h].at = "dropUser" /\ call'[h].user = v
  BY GoToFacts DEF DropInvites, RowInv, PTypeOK, Steps
<1>6. removal[v] # "sealed"
  BY <1>1 DEF RemovalInv, RemovalOk, Sealed, DropInvites
<1>7. RemovalOk(v)'
  <2>1. CASE removal[v] = "going"
    <3>1. \A k \in About(v) : k = h
      BY <1>1, <2>1 DEF RemovalInv, RemovalOk, Undisturbed
    <3>2. \A k \in About(v)' : k = h
      BY <1>1, <3>1 DEF About, OwnCall, Running
    <3>3. Undisturbed(v)'
      BY <1>3, <1>5, <3>2 DEF Undisturbed
    <3> QED
      BY <1>2, <2>1, <3>3 DEF RemovalOk
  <2>2. CASE removal[v] # "going"
    BY <1>2, <1>6, <2>2 DEF RemovalOk
  <2> QED
    BY <2>1, <2>2
<1> QED
  BY <1>1, <1>4, <1>7, OwnUserOnly

LEMMA DropUserKeepsRemovalInv ==
    ASSUME RowInv, RemovalInv, NEW h \in Handler, DropUser(h)
    PROVE  RemovalInv'
<1> PICK v \in User : v = call[h].user
  BY StepsOwnCall DEF HandlerStep
<1>1. OwnCall(h) /\ h \in About(v) /\ call[h].at = "dropUser"
  BY StepsOwnCall DEF HandlerStep, About, DropUser
<1>2. /\ UNCHANGED <<invite, peer, removal>> /\ user'[v] = "removed"
      /\ \A u \in User \ {v} : user'[u] = user[u]
  BY DEF DropUser, RowInv, PTypeOK
<1>3. \A u \in User \ {v} : Keeps(u)
  BY <1>2 DEF Keeps, Rows
<1>4. call'[h].at = "dropPeers" /\ call'[h].user = v
  BY GoToFacts DEF DropUser, RowInv, PTypeOK, Steps
<1>5. removal[v] # "sealed"
  BY <1>1 DEF RemovalInv, RemovalOk, Sealed
<1>6. RemovalOk(v)'
  <2>1. CASE removal[v] = "going"
    <3>1. /\ \A k \in About(v) : k = h
          /\ \A t \in Token : invite[t].of = v => invite[t].state # "pending"
      BY <1>1, <2>1 DEF RemovalInv, RemovalOk, Undisturbed
    <3>2. \A k \in About(v)' : k = h
      BY <1>1, <3>1 DEF About, OwnCall, Running
    <3>3. Undisturbed(v)'
      BY <1>2, <1>4, <3>1, <3>2 DEF Undisturbed
    <3> QED
      BY <1>2, <2>1, <3>3 DEF RemovalOk
  <2>2. CASE removal[v] # "going"
    BY <1>2, <1>5, <2>2 DEF RemovalOk
  <2> QED
    BY <2>1, <2>2
<1> QED
  BY <1>1, <1>3, <1>6, OwnUserOnly

\* The last statement: what was undisturbed so far is now sealed.
LEMMA DropPeersKeepsRemovalInv ==
    ASSUME RowInv, RemovalInv, NEW h \in Handler, DropPeers(h)
    PROVE  RemovalInv'
<1> PICK v \in User : v = call[h].user
  BY StepsOwnCall DEF HandlerStep
<1>1. OwnCall(h) /\ h \in About(v) /\ call[h].at = "dropPeers"
  BY StepsOwnCall DEF HandlerStep, About, DropPeers
<1>2. /\ UNCHANGED <<user, invite>>
      /\ removal'[v] = IF removal[v] = "going" THEN "sealed" ELSE removal[v]
      /\ \A u \in User \ {v} : removal'[u] = removal[u]
  BY DEF DropPeers, FinishRemoval, RowInv, PTypeOK
<1>3. /\ KeepsRows
      /\ \A r \in Rows : peer'[r].status =
            IF peer[r].user = v /\ peer[r].status \in {"active", "suspended"}
            THEN "removed" ELSE peer[r].status
  BY MovedFacts DEF DropPeers, RowInv, PTypeOK
<1>4. \A r \in Rows' : /\ r \in Rows /\ peer'[r].user = peer[r].user
                       /\ peer[r].status \in {"active", "suspended", "removed"}
  BY <1>3 DEF KeepsRows, Rows, RowInv, PTypeOK, Peer
<1>5. \A u \in User \ {v} : Keeps(u)
  BY <1>2, <1>3, <1>4 DEF Keeps
<1>6. ~Running(h)'
  BY EndFacts DEF DropPeers, FinishRemoval, RowInv, PTypeOK, Running
<1>7. removal[v] # "sealed"
  BY <1>1 DEF RemovalInv, RemovalOk, Sealed
<1>8. RemovalOk(v)'
  <2>1. CASE removal[v] = "going"
    <3>1. /\ \A k \in About(v) : k = h
          /\ \A t \in Token : invite[t].of = v => invite[t].state # "pending"
          /\ user[v] = "removed"
      BY <1>1, <2>1 DEF RemovalInv, RemovalOk, Undisturbed
    <3>2. About(v)' = {}
      BY <1>1, <1>6, <3>1 DEF About, OwnCall, Running
    <3>3. \A r \in Rows' : peer'[r].user = v => peer'[r].status = "removed"
      BY <1>3, <1>4
    <3>4. Sealed(v)'
      BY <1>2, <3>1, <3>2, <3>3 DEF Sealed
    <3> QED
      BY <1>2, <2>1, <3>4 DEF RemovalOk
  <2>2. CASE removal[v] # "going"
    BY <1>2, <1>7, <2>2 DEF RemovalOk
  <2> QED
    BY <2>1, <2>2
<1> QED
  BY <1>1, <1>5, <1>8, OwnUserOnly

LEMMA FailKeepsRemovalInv ==
    ASSUME RowInv, RemovalInv, NEW h \in Handler, Fail(h)
    PROVE  RemovalInv'
<1> PICK v \in User : v = call[h].user
  BY StepsOwnCall DEF HandlerStep
<1>1. OwnCall(h)
  BY StepsOwnCall DEF HandlerStep
<1>2. /\ UNCHANGED <<user, invite, peer>>
      /\ removal'[v] = IF removal[v] = "going" THEN "no" ELSE removal[v]
      /\ \A u \in User \ {v} : removal'[u] = removal[u]
  BY DEF Fail, Meets, RowInv, PTypeOK
<1>3. \A u \in User \ {v} : Keeps(u)
  BY <1>2 DEF Keeps, Rows
<1>4. ~Running(h)'
  BY EndFacts DEF Fail, RowInv, PTypeOK, Running
<1>5. RemovalOk(v)'
  <2>1. CASE removal[v] = "going"
    BY <1>2, <2>1 DEF RemovalOk
  <2>2. CASE removal[v] # "going"
    <3>1. Keeps(v)
      BY <1>2, <2>2 DEF Keeps, Rows
    <3>2. ASSUME NEW k \in Handler, Running(k)', call'[k].user = v
          PROVE  call'[k] = call[k]
      BY <1>1, <1>4, <3>2 DEF OwnCall, Running
    <3> QED
      BY <3>1, <3>2, KeepsRemovalOk DEF RemovalInv
  <2> QED
    BY <2>1, <2>2
<1> QED
  BY <1>1, <1>3, <1>5, OwnUserOnly

\* A new call about v ends the history of v, except that a claim or a resend
\* may come after a removal, and that a removal about which nothing else runs
\* begins one.
LEMMA StartKeepsRemovalInv ==
    ASSUME RowInv, RemovalInv, NEW h \in Handler, NEW v \in User,
           NEW at \in Steps, NEW b \in Request \cup Token \cup {NoId},
           NEW mail \in BOOLEAN, Start(h, at, v, b, mail),
           \/ Reopens(v)
           \/ Meets(v) /\ at \in {"find", "resend"}
           \/ /\ removal' = [removal EXCEPT ![v] = IF About(v) = {} THEN "going" ELSE "no"]
              /\ at = "dropInvites"
    PROVE  RemovalInv'
<1>1. /\ \A k \in Handler \ {h} : call'[k] = call[k]
      /\ call'[h].at = at /\ call'[h].user = v
  BY StartFacts DEF RowInv, PTypeOK
<1>2. /\ UNCHANGED <<user, invite, peer>>
      /\ \A u \in User \ {v} : removal'[u] = removal[u]
  BY DEF Start, Reopens, Meets, RowInv, PTypeOK
<1>3. ASSUME NEW u \in User \ {v} PROVE RemovalOk(u)'
  <2>1. Keeps(u)
    BY <1>2 DEF Keeps, Rows
  <2>2. ASSUME NEW k \in Handler, Running(k)', call'[k].user = u
        PROVE  call'[k] = call[k]
    BY <1>1, <2>2
  <2> QED
    BY <2>1, <2>2, KeepsRemovalOk DEF RemovalInv
<1>4. \A k \in About(v)' : k = h \/ (k \in About(v) /\ call'[k] = call[k])
  <2>1. ASSUME NEW k \in About(v)', k # h PROVE k \in About(v) /\ call'[k] = call[k]
    <3>1. k \in Handler /\ Running(k)' /\ call'[k].user = v
      BY <2>1 DEF About
    <3>2. call'[k] = call[k]
      BY <1>1, <2>1, <3>1
    <3> QED
      BY <3>1, <3>2 DEF About, Running
  <2> QED
    BY <2>1
<1>5. RemovalOk(v)'
  <2>1. CASE Reopens(v)
    BY <2>1 DEF Reopens, RemovalOk, RowInv, PTypeOK
  <2>2. CASE Meets(v) /\ at \in {"find", "resend"}
    <3>1. removal'[v] = IF removal[v] = "going" THEN "no" ELSE removal[v]
      BY <2>2 DEF Meets, RowInv, PTypeOK
    <3>2. CASE removal[v] = "sealed"
      <4>1. Sealed(v)
        BY <3>2 DEF RemovalInv, RemovalOk
      <4>2. \A k \in About(v)' : call'[k].at \in {"find", "resend"}
        BY <1>1, <1>4, <2>2, <4>1 DEF Sealed
      <4>3. Sealed(v)'
        BY <1>2, <4>1, <4>2 DEF Sealed, Rows
      <4> QED
        BY <3>1, <3>2, <4>3 DEF RemovalOk
    <3>3. CASE removal[v] # "sealed"
      BY <3>1, <3>3 DEF RemovalOk
    <3> QED
      BY <3>2, <3>3
  <2>3. CASE /\ removal' = [removal EXCEPT ![v] = IF About(v) = {} THEN "going" ELSE "no"]
             /\ at = "dropInvites"
    <3>1. removal'[v] = IF About(v) = {} THEN "going" ELSE "no"
      BY <2>3 DEF RowInv, PTypeOK
    <3>2. CASE About(v) = {}
      <4>1. \A k \in About(v)' : k = h
        BY <1>4, <3>2
      <4>2. Undisturbed(v)'
        BY <1>1, <2>3, <4>1 DEF Undisturbed
      <4> QED
        BY <3>1, <3>2, <4>2 DEF RemovalOk
    <3>3. CASE About(v) # {}
      BY <3>1, <3>3 DEF RemovalOk
    <3> QED
      BY <3>2, <3>3
  <2> QED
    BY <2>1, <2>2, <2>3
<1> QED
  BY <1>3, <1>5 DEF RemovalInv

LEMMA ArrivesKeepsRemovalInv ==
    ASSUME RowInv, RemovalInv, NEW h \in Handler, Arrives(h)
    PROVE  RemovalInv'
<1>1. CASE \E u \in User, b \in Request \cup {NoId}, mail \in BOOLEAN :
             StartCreate(h, u, b, mail)
  <2>1. PICK u \in User, b \in Request \cup {NoId}, mail \in BOOLEAN :
             StartCreate(h, u, b, mail)
    BY <1>1
  <2>2. CASE b = NoId
    BY <2>1, <2>2, StartKeepsRemovalInv DEF StartCreate, Steps
  <2>3. CASE b # NoId
    BY <2>1, <2>3, StartKeepsRemovalInv DEF StartCreate, Steps
  <2> QED
    BY <2>2, <2>3
<1>2. CASE \E u \in User : StartCreateUser(h, u) \/ StartResend(h, u) \/ StartDelete(h, u)
  BY <1>2, StartKeepsRemovalInv DEF StartCreateUser, StartResend, StartDelete, Steps
<1>3. CASE \E t \in Token : StartClaim(h, t)
  <2>1. PICK t \in Token : StartClaim(h, t)
    BY <1>3
  <2>2. invite[t].of \in User
    BY <2>1 DEF StartClaim, RowInv, PTypeOK
  <2> QED
    BY <2>1, <2>2, StartKeepsRemovalInv DEF StartClaim, Steps
<1> QED
  BY <1>1, <1>2, <1>3 DEF Arrives

LEMMA AdminsKeepRemovalInv ==
    ASSUME RowInv, RemovalInv,
           \/ \E u \in User : SuspendUser(u) \/ ResumeUser(u)
           \/ \E r \in Row : SuspendPeer(r) \/ ResumePeer(r) \/ DeletePeer(r)
    PROVE  RemovalInv'
<1>1. ASSUME NEW v \in User, call' = call, invite' = invite, Reopens(v), KeepsRows,
             \A u \in User \ {v} : user'[u] = user[u],
             \A r \in Rows : peer[r].user # v => peer'[r].status = peer[r].status
      PROVE  RemovalInv'
  <2>1. removal'[v] = "no" /\ \A u \in User \ {v} : removal'[u] = removal[u]
    BY <1>1 DEF Reopens, RowInv, PTypeOK
  <2>2. \A r \in Rows' : r \in Rows /\ peer'[r].user = peer[r].user
    BY <1>1 DEF KeepsRows, Rows
  <2>3. \A u \in User \ {v} : Keeps(u)
    BY <1>1, <2>1, <2>2 DEF Keeps
  <2>4. RemovalOk(v)'
    BY <2>1 DEF RemovalOk
  <2>5. \A u \in User \ {v} : RemovalOk(u)'
    BY <1>1, <2>3, KeepsRemovalOk DEF RemovalInv
  <2> QED
    BY <2>4, <2>5 DEF RemovalInv
<1>2. ASSUME NEW v \in User, NEW status \in {"suspended", "active"}, NEW from,
             SetUser(v, status, from, status)
      PROVE  RemovalInv'
  <2>1. /\ KeepsRows
        /\ \A r \in Rows : peer[r].user # v => peer'[r].status = peer[r].status
    BY <1>2, MovedFacts DEF SetUser, RowInv, PTypeOK
  <2> QED
    BY <1>1, <1>2, <2>1 DEF SetUser, RowInv, PTypeOK
<1>3. ASSUME NEW r \in Row, NEW status \in {"suspended", "active", "removed"},
             SetPeer(r, status)
      PROVE  RemovalInv'
  <2>1. r \in Rows /\ KeepsRows /\ peer[r].user \in User
    BY <1>3, SetPeerFacts DEF SetPeer, RowInv, PTypeOK
  <2>2. \A s \in Rows \ {r} : peer'[s] = peer[s]
    BY <1>3 DEF SetPeer, RowInv, PTypeOK, Rows
  <2> QED
    BY <1>1, <1>3, <2>1, <2>2 DEF SetPeer
<1> QED
  BY <1>2, <1>3 DEF SuspendUser, ResumeUser, SuspendPeer, ResumePeer, DeletePeer

\* A DeleteUser that met no other call about its user is final until an admin
\* acts on the user again.
THEOREM RemovedStays == PSpec => []RemovalIsFinal
<1>1. PInit => RemovalInv
  BY DEF PInit, RemovalInv, RemovalOk
<1>2. RowInv /\ RemovalInv /\ [PNext]_pvars => RemovalInv'
  <2> SUFFICES ASSUME RowInv, RemovalInv, [PNext]_pvars PROVE RemovalInv'
    OBVIOUS
  <2>1. CASE UNCHANGED pvars
    BY <2>1 DEF pvars, RemovalInv, RemovalOk, Undisturbed, Sealed, About, Running, Rows
  <2>2. CASE \E h \in Handler : Arrives(h)
    BY <2>2, ArrivesKeepsRemovalInv
  <2>3. CASE \E h \in Handler : HandlerStep(h)
    BY <2>3, BusyStepsKeepRemovalInv, LateCallsKeepRemovalInv,
       DropInvitesKeepsRemovalInv, DropUserKeepsRemovalInv, DropPeersKeepsRemovalInv,
       FailKeepsRemovalInv DEF HandlerStep
  <2>4. CASE \/ \E u \in User : SuspendUser(u) \/ ResumeUser(u)
             \/ \E r \in Row : SuspendPeer(r) \/ ResumePeer(r) \/ DeletePeer(r)
    BY <2>4, AdminsKeepRemovalInv
  <2> QED
    BY <2>1, <2>2, <2>3, <2>4 DEF PNext
<1>3. RemovalInv => RemovalIsFinal
  BY DEF RemovalInv, RemovalOk, Sealed, RemovalIsFinal
<1> QED
  BY <1>1, <1>2, <1>3, RowInvariant, PTL DEF PSpec

=============================================================================
