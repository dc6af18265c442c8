--------------------------- MODULE KernelSyncProofs ---------------------------
(***************************************************************************)
(* What the queue, wg-helper and the reconcile worker keep together, for   *)
(* any number of servers, peers, handlers, goroutines, requests in the     *)
(* helper and faults: the queue is still the queue of SyncQueue, and what  *)
(* the kernel holds of a server nothing is on its way for is what the      *)
(* database asks for.                                                      *)
(***************************************************************************)
EXTENDS KernelSync, SyncQueueProofs

-----------------------------------------------------------------------------
(* The inductive invariant.  QuietMeansApplied says nothing of a server    *)
(* while requests are executing, so it is not inductive; Trusted follows a *)
(* delivery through the helper.                                            *)

\* The worker only acts for a server it has picked.
RecShape == rec.pc \in {"server", "peers", "applying"} => rec.srv \in Server

\* The steps a request of each kind goes through.
OpShape == \A o \in Slot : op[o] # NoOp =>
    /\ op[o].step = "peers" => op[o].kind = "apply"
    /\ op[o].step = "cleanup" => op[o].kind = "remove"
    /\ op[o].kind = "remove" => op[o].step # "guards"
    /\ op[o].kind = "enforce" => op[o].step \in {"guards", "done"}

\* The requests that may change the device of s.
OnDevice(s) == {o \in Busy(IfaceOf[s]) : op[o].kind # "enforce"}

\* The kernel holds what the queue last delivered for s.
InKernel(s) ==
    LET d == kernel[IfaceOf[s]] IN
    IF delivered[s].kind = "apply"
    THEN d # NoDevice /\ d.key = s /\ d.peers = delivered[s].peers
    ELSE d = NoDevice

\* Request o is that delivery, and has done to the device what its step says.
UnderWay(s, o) ==
    /\ op[o].srv = s /\ op[o].kind = delivered[s].kind /\ op[o].peers = delivered[s].peers
    /\ op[o].step = "peers" => kernel[IfaceOf[s]] # NoDevice /\ kernel[IfaceOf[s]].key = s
    /\ op[o].step \in {"cleanup", "done"} => InKernel(s)

\* Without a doubt about s, its last delivery is the one request that touches
\* its device, or has been carried out.
TrustedFor(s) ==
    /\ \A o, q \in OnDevice(s) : o = q
    /\ \A o \in OnDevice(s) : UnderWay(s, o)
    /\ OnDevice(s) = {} => InKernel(s)

Trusted == \A s \in Server : ~doubt[s] /\ delivered[s].kind # "nothing" => TrustedFor(s)

KInv ==
    /\ QueueInv
    /\ KTypeOK
    /\ RecShape
    /\ OpShape
    /\ Trusted

-----------------------------------------------------------------------------
(* The queue of SyncQueue, in the steps it takes here.                     *)

LEMMA StepsOfQueue == [KNext]_allVars => [Next]_vars
<1> SUFFICES ASSUME [KNext]_allVars  PROVE [Next]_vars
  OBVIOUS
<1>1. ASSUME NEW h \in Handler, HandlerStep(h)  PROVE Next
  BY <1>1 DEF HandlerStep, Next
<1>2. ASSUME NEW s \in Server, NEW c \in Conf, UpdateServer(s, c)  PROVE UNCHANGED vars
  BY <1>2 DEF UpdateServer
<1>3. ASSUME NEW r \in Runner, RunnerStep(r)  PROVE Pass(r)
  BY <1>3 DEF RunnerStep, LocalStep, KReadServer, KReadFails, KSendApply, KSendTruncated,
              KSendRemove, KReturn, Pass
<1>4. ASSUME NEW o \in Slot, HelperStep(o)  PROVE UNCHANGED vars
  BY <1>4 DEF HelperStep
<1>5. Reconcile => UNCHANGED vars
  BY DEF Reconcile, StartReconcile, Probe, RecReadServer, RecSendApply, RecApplied, Probed,
         SendEnforce, Enforced, EndReconcile
<1>6. KCrash \/ HostReboot => Crash
  BY DEF KCrash, HostReboot, ApiCrash
<1>7. HelperCrash \/ GuardsFlushed => UNCHANGED vars
  BY DEF HelperCrash, GuardsFlushed
<1>8. CASE KNext
  BY <1>1, <1>2, <1>3, <1>4, <1>5, <1>6, <1>7, <1>8 DEF KNext, Next
<1>9. CASE UNCHANGED allVars
  BY <1>9 DEF allVars
<1>10. QED
  BY <1>8, <1>9

\* With a helper that refuses, fails, overlaps and crashes, and a worker that
\* calls it too, the queue is still the queue of SyncQueue: what is proved of
\* that one holds here.
THEOREM QueueImplemented == KSafetySpec => SafetySpec
<1>1. KInit => Init
  BY DEF KInit
<1>2. QED
  BY <1>1, StepsOfQueue, PTL DEF KSafetySpec, SafetySpec

-----------------------------------------------------------------------------
(* What a call and an answer do to the requests.                           *)

OpsType == op \in [Slot -> Op \cup {NoOp}]

\* A request the helper accepts takes a free slot.
LEMMA Accepted ==
  ASSUME OpsType, NEW c, NEW kind, NEW s, NEW P, Accept(c, kind, s, P)
  PROVE  \E o \in Slot :
           /\ op[o] = NoOp
           /\ op' = [op EXCEPT ![o] = [client |-> c, kind |-> kind, srv |-> s,
                                       conf |-> held[c], peers |-> P,
                                       step |-> FirstStep(kind), ok |-> TRUE]]
BY DEF Accept, FreeSlots

LEMMA AcceptKeeps ==
  ASSUME OpsType, OpShape, held \in [Client -> Conf],
         NEW c \in Client, NEW kind \in {"apply", "remove", "enforce"}, NEW s \in Server,
         NEW P \in SUBSET Peer, Accept(c, kind, s, P)
  PROVE  OpsType' /\ OpShape'
<1>1. PICK o \in Slot :
        /\ op[o] = NoOp
        /\ op' = [op EXCEPT ![o] = [client |-> c, kind |-> kind, srv |-> s,
                                    conf |-> held[c], peers |-> P,
                                    step |-> FirstStep(kind), ok |-> TRUE]]
  BY Accepted
<1>2. FirstStep(kind) \in {"guards", "link"} /\ (FirstStep(kind) = "guards" <=> kind # "remove")
  BY DEF FirstStep
<1>3. [client |-> c, kind |-> kind, srv |-> s, conf |-> held[c], peers |-> P,
       step |-> FirstStep(kind), ok |-> TRUE] \in Op
  BY <1>2 DEF Op
<1>4. OpsType'
  BY <1>1, <1>3 DEF OpsType
<1>5. OpShape'
  BY <1>1, <1>2 DEF OpShape, OpsType
<1>6. QED
  BY <1>4, <1>5

LEMMA FaultType ==
  ASSUME faults \in 0..MaxFaults, Fault \/ UNCHANGED faults
  PROVE  faults' \in 0..MaxFaults
BY ClientAssumption DEF Fault

LEMMA SendKeeps ==
  ASSUME KTypeOK, OpShape,
         NEW c \in Client, NEW kind \in {"apply", "remove", "enforce"}, NEW s \in Server,
         NEW P \in SUBSET Peer, Send(c, kind, s, P)
  PROVE  OpsType' /\ OpShape' /\ faults' \in 0..MaxFaults
<1>1. CASE Accept(c, kind, s, P) /\ UNCHANGED faults
  BY <1>1, AcceptKeeps, FaultType DEF KTypeOK, OpsType
<1>2. CASE Fault /\ UNCHANGED op
  BY <1>2, FaultType DEF KTypeOK, OpsType, OpShape
<1>3. QED
  BY <1>1, <1>2 DEF Send

\* An answer that is taken ends a finished request; a client that gives up
\* leaves the request running.
LEMMA Collected ==
  ASSUME OpsType, NEW c, NEW good, Collect(c, good)
  PROVE  /\ Fault \/ UNCHANGED faults
         /\ \/ UNCHANGED op
            \/ \E o \in Slot : /\ op[o] # NoOp /\ op[o].step = "done"
                               /\ op' = [op EXCEPT ![o] = NoOp]
            \/ \E o \in Slot : /\ op[o] # NoOp /\ op[o].step # "done"
                               /\ op' = [op EXCEPT ![o].client = Nobody]
BY DEF Collect, OpOf

LEMMA CollectKeeps ==
  ASSUME KTypeOK, OpShape, NEW c, NEW good, Collect(c, good)
  PROVE  OpsType' /\ OpShape' /\ faults' \in 0..MaxFaults
<1>1. OpsType
  BY DEF KTypeOK, OpsType
<1>2. faults' \in 0..MaxFaults
  BY <1>1, Collected, FaultType DEF KTypeOK
<1>3. ASSUME NEW o \in Slot, op' = [op EXCEPT ![o] = NoOp]  PROVE OpsType' /\ OpShape'
  BY <1>1, <1>3 DEF OpsType, OpShape
<1>4. ASSUME NEW o \in Slot, op[o] # NoOp, op' = [op EXCEPT ![o].client = Nobody]
      PROVE  OpsType' /\ OpShape'
  <2>1. op[o] \in Op
    BY <1>1, <1>4 DEF OpsType
  <2>2. [op[o] EXCEPT !.client = Nobody] \in Op
    BY <2>1 DEF Op
  <2>3. op' = [op EXCEPT ![o] = [op[o] EXCEPT !.client = Nobody]]
    BY <1>4
  <2>4. OpsType'
    BY <1>1, <2>2, <2>3 DEF OpsType
  <2>5. OpShape'
    BY <1>1, <1>4, <2>1, <2>3 DEF OpsType, OpShape, Op
  <2>6. QED
    BY <2>4, <2>5
<1>5. ASSUME UNCHANGED op  PROVE OpsType' /\ OpShape'
  BY <1>1, <1>5 DEF OpsType, OpShape
<1>6. QED
  BY <1>1, <1>2, <1>3, <1>4, <1>5, Collected

\* A request that advances keeps its server, its kind and its peers.
LEMMA Advanced ==
  ASSUME OpsType, NEW o \in Slot, op[o] # NoOp,
         NEW step \in {"guards", "link", "peers", "cleanup", "done"}, NEW ok \in BOOLEAN,
         Advance(o, step, ok)
  PROVE  /\ OpsType'
         /\ \A q \in Slot : q # o => op'[q] = op[q]
         /\ \/ op'[o] = NoOp /\ step = "done"
            \/ /\ op'[o] # NoOp /\ op'[o].step = step
               /\ op'[o].srv = op[o].srv /\ op'[o].kind = op[o].kind
               /\ op'[o].peers = op[o].peers
<1>1. op[o] \in Op
  BY DEF OpsType
<1>2. (op[o].ok /\ ok) \in BOOLEAN
  BY <1>1 DEF Op
<1> DEFINE next == [op[o] EXCEPT !.step = step, !.ok = op[o].ok /\ ok]
<1>3. /\ next \in Op
      /\ next.srv = op[o].srv /\ next.kind = op[o].kind /\ next.peers = op[o].peers
      /\ next.step = step
  BY <1>1, <1>2 DEF Op
<1>4. next # NoOp
  BY <1>3, NoneAssumption
<1>5. CASE step = "done" /\ op[o].client = Nobody
  BY <1>5 DEF Advance, OpsType
<1>6. CASE ~(step = "done" /\ op[o].client = Nobody)
  <2>1. op' = [op EXCEPT ![o] = next]
    BY <1>6 DEF Advance
  <2> HIDE DEF next
  <2>2. QED
    BY <1>3, <1>4, <2>1 DEF OpsType
<1>7. QED
  BY <1>5, <1>6

-----------------------------------------------------------------------------
(* What keeps the trust in the kernel.                                     *)

\* Nothing of what a delivery relies on has changed.
LEMMA TrustKept ==
  ASSUME Trusted, UNCHANGED <<op, kernel, delivered>>,
         \A s \in Server : doubt[s] => doubt'[s]
  PROVE  Trusted'
<1>1. \A s \in Server : TrustedFor(s) => TrustedFor(s)'
  BY DEF TrustedFor, OnDevice, Busy, UnderWay, InKernel
<1>2. QED
  BY <1>1 DEF Trusted

\* The requests of s are the same, one by one, as far as Trusted looks.
SameRequest(q) ==
    /\ (op'[q] = NoOp) <=> (op[q] = NoOp)
    /\ op[q] # NoOp => /\ op'[q].srv = op[q].srv /\ op'[q].kind = op[q].kind
                       /\ op'[q].peers = op[q].peers /\ op'[q].step = op[q].step

LEMMA TrustKeptFor ==
  ASSUME NEW s \in Server, TrustedFor(s), delivered'[s] = delivered[s],
         kernel'[IfaceOf[s]] = kernel[IfaceOf[s]],
         \A q \in Slot : SameRequest(q) \/ (q \notin OnDevice(s) /\ q \notin OnDevice(s)')
  PROVE  TrustedFor(s)'
<1>1. OnDevice(s)' = OnDevice(s)
  BY DEF SameRequest, OnDevice, Busy
<1>2. \A q \in OnDevice(s) : q \in Slot /\ SameRequest(q) /\ op[q] # NoOp
  BY <1>1 DEF OnDevice, Busy
<1>3. \A q \in OnDevice(s) : UnderWay(s, q) => UnderWay(s, q)'
  BY <1>2 DEF SameRequest, UnderWay, InKernel
<1>4. InKernel(s)' <=> InKernel(s)
  BY DEF InKernel
<1>5. QED
  BY <1>1, <1>3, <1>4 DEF TrustedFor

\* Requests that end or lose their caller: one that ends is done, and what it
\* delivered is in the kernel.
LEMMA TrustThroughEnd ==
  ASSUME Trusted, OpShape, NEW o \in Slot, op[o] # NoOp, op[o].step = "done",
         op' = [op EXCEPT ![o] = NoOp], OpsType,
         UNCHANGED <<kernel, delivered>>, \A s \in Server : doubt[s] => doubt'[s]
  PROVE  Trusted'
<1> SUFFICES ASSUME NEW s \in Server, ~doubt'[s], delivered'[s].kind # "nothing"
             PROVE  TrustedFor(s)'
  BY DEF Trusted
<1>1. TrustedFor(s)
  BY DEF Trusted
<1>2. op'[o] = NoOp /\ \A q \in Slot : q # o => op'[q] = op[q]
  BY DEF OpsType
<1>3. CASE o \in OnDevice(s)
  <2>1. OnDevice(s) = {o} /\ InKernel(s)
    BY <1>1, <1>3 DEF TrustedFor, UnderWay
  <2>2. OnDevice(s)' = {}
    BY <1>2, <2>1 DEF OnDevice, Busy
  <2>3. InKernel(s)'
    BY <2>1 DEF InKernel
  <2>4. QED
    BY <2>2, <2>3 DEF TrustedFor
<1>4. CASE o \notin OnDevice(s)
  <2>1. o \notin OnDevice(s)'
    BY <1>2 DEF OnDevice, Busy
  <2>2. \A q \in Slot : SameRequest(q) \/ (q \notin OnDevice(s) /\ q \notin OnDevice(s)')
    BY <1>2, <1>4, <2>1 DEF SameRequest
  <2>3. QED
    BY <1>1, <2>2, TrustKeptFor
<1>5. QED
  BY <1>3, <1>4

LEMMA CollectTrust ==
  ASSUME Trusted, OpShape, OpsType, NEW c, NEW good, Collect(c, good),
         UNCHANGED <<kernel, delivered, doubt>>
  PROVE  Trusted'
<1>1. CASE UNCHANGED op
  BY <1>1, TrustKept
<1>2. ASSUME NEW o \in Slot, op[o] # NoOp, op[o].step = "done", op' = [op EXCEPT ![o] = NoOp]
      PROVE  Trusted'
  BY <1>2, TrustThroughEnd
<1>3. ASSUME NEW o \in Slot, op[o] # NoOp, op' = [op EXCEPT ![o].client = Nobody]
      PROVE  Trusted'
  <2>1. op[o] \in Op
    BY <1>3 DEF OpsType
  <2>2. [op[o] EXCEPT !.client = Nobody] \in Op
    BY <2>1 DEF Op
  <2>3. /\ op'[o] = [op[o] EXCEPT !.client = Nobody]
        /\ \A q \in Slot : q # o => op'[q] = op[q]
    BY <1>3 DEF OpsType
  <2>4. SameRequest(o)
    BY <1>3, <2>1, <2>2, <2>3, NoneAssumption DEF SameRequest, Op
  <2>5. \A q \in Slot : SameRequest(q)
    BY <2>3, <2>4 DEF SameRequest
  <2>6. ASSUME NEW s \in Server, TrustedFor(s)  PROVE TrustedFor(s)'
    BY <2>5, <2>6, TrustKeptFor
  <2>7. QED
    BY <2>6 DEF Trusted
<1>4. QED
  BY <1>1, <1>2, <1>3, Collected

\* An enforce never touches a device.
LEMMA EnforceTrust ==
  ASSUME Trusted, OpsType, NEW c, NEW s \in Server, Send(c, "enforce", s, {}),
         held \in [Client -> Conf], c \in Client,
         UNCHANGED <<kernel, delivered, doubt>>
  PROVE  Trusted'
<1>1. CASE UNCHANGED op
  BY <1>1, TrustKept
<1>2. CASE Accept(c, "enforce", s, {})
  <2>1. PICK o \in Slot :
          /\ op[o] = NoOp
          /\ op' = [op EXCEPT ![o] = [client |-> c, kind |-> "enforce", srv |-> s,
                                      conf |-> held[c], peers |-> {},
                                      step |-> FirstStep("enforce"), ok |-> TRUE]]
    BY <1>2, Accepted
  <2>2. op'[o].kind = "enforce" /\ \A q \in Slot : q # o => op'[q] = op[q]
    BY <2>1 DEF OpsType
  <2>3. ASSUME NEW t \in Server, TrustedFor(t)  PROVE TrustedFor(t)'
    <3>1. o \notin OnDevice(t) /\ o \notin OnDevice(t)'
      BY <2>1, <2>2 DEF OnDevice, Busy
    <3>2. \A q \in Slot : SameRequest(q) \/ (q \notin OnDevice(t) /\ q \notin OnDevice(t)')
      BY <2>2, <3>1 DEF SameRequest
    <3>3. QED
      BY <2>3, <3>2, TrustKeptFor
  <2>4. QED
    BY <2>3 DEF Trusted
<1>3. QED
  BY <1>1, <1>2 DEF Send

\* A call for the device of s: from the queue it is what was just delivered;
\* past the queue it leaves s in doubt.
LEMMA SendTrust ==
  ASSUME Trusted, OpsType, NEW c \in Client, NEW kind \in {"apply", "remove"},
         NEW s \in Server, NEW P \in SUBSET Peer, NEW bypass \in BOOLEAN,
         held \in [Client -> Conf],
         Accept(c, kind, s, P) \/ UNCHANGED op, Doubt(s, bypass), UNCHANGED kernel,
         \A t \in Server : t # s => delivered'[t] = delivered[t],
         ~bypass => delivered'[s].kind = kind /\ delivered'[s].peers = P
  PROVE  Trusted'
<1> SUFFICES ASSUME NEW t \in Server, ~doubt'[t], delivered'[t].kind # "nothing"
             PROVE  TrustedFor(t)'
  BY DEF Trusted
<1>1. \/ t = s /\ ~bypass /\ op' # op /\ Busy(IfaceOf[s]) = {}
      \/ t # s /\ ~doubt[t] /\ IfaceOf[t] # IfaceOf[s]
  BY DEF Doubt, Others
<1>2. CASE UNCHANGED op
  <2>1. t # s /\ ~doubt[t]
    BY <1>1, <1>2
  <2>2. TrustedFor(t)
    BY <2>1 DEF Trusted
  <2>3. \A q \in Slot : SameRequest(q)
    BY <1>2 DEF SameRequest
  <2>4. QED
    BY <2>1, <2>2, <2>3, TrustKeptFor
<1>3. CASE Accept(c, kind, s, P)
  <2>1. PICK o \in Slot :
          /\ op[o] = NoOp
          /\ op' = [op EXCEPT ![o] = [client |-> c, kind |-> kind, srv |-> s,
                                      conf |-> held[c], peers |-> P,
                                      step |-> FirstStep(kind), ok |-> TRUE]]
    BY <1>3, Accepted
  <2>2. /\ op'[o].kind = kind /\ op'[o].srv = s /\ op'[o].peers = P
        /\ op'[o].step \in {"guards", "link"}
        /\ \A q \in Slot : q # o => op'[q] = op[q]
    BY <2>1 DEF OpsType, FirstStep
  <2>3. CASE t = s
    <3>1. ~bypass /\ Busy(IfaceOf[s]) = {}
      BY <1>1, <2>3
    <3>2. \A q \in Slot : q # o => q \notin OnDevice(s)'
      BY <2>2, <3>1 DEF OnDevice, Busy
    <3>3. op'[o] # NoOp
      <4>1. [client |-> c, kind |-> kind, srv |-> s, conf |-> held[c], peers |-> P,
             step |-> FirstStep(kind), ok |-> TRUE] \in Op
        BY DEF Op, FirstStep
      <4>2. QED
        BY <2>1, <4>1, NoneAssumption DEF OpsType
    <3>4. OnDevice(s)' = {o}
      BY <2>2, <3>2, <3>3 DEF OnDevice, Busy
    <3>5. UnderWay(s, o)'
      BY <2>2, <3>1 DEF UnderWay
    <3>6. QED
      BY <2>3, <3>4, <3>5 DEF TrustedFor
  <2>4. CASE t # s
    <3>1. ~doubt[t] /\ IfaceOf[t] # IfaceOf[s]
      BY <1>1, <2>4
    <3>2. TrustedFor(t)
      BY <2>4, <3>1 DEF Trusted
    <3>3. o \notin OnDevice(t) /\ o \notin OnDevice(t)'
      BY <2>1, <2>2, <3>1 DEF OnDevice, Busy
    <3>4. \A q \in Slot : SameRequest(q) \/ (q \notin OnDevice(t) /\ q \notin OnDevice(t)')
      BY <2>2, <3>3 DEF SameRequest
    <3>5. QED
      BY <2>4, <3>2, <3>4, TrustKeptFor
  <2>5. QED
    BY <2>3, <2>4
<1>4. QED
  BY <1>2, <1>3

\* A request that advances: only one on the device changes it, and then its
\* next step tells what the device is like.
LEMMA AdvanceTrust ==
  ASSUME Trusted, OpsType, NEW o \in Slot, op[o] # NoOp, NEW s, s = op[o].srv,
         NEW step \in {"guards", "link", "peers", "cleanup", "done"}, NEW ok \in BOOLEAN,
         Advance(o, step, ok), UNCHANGED delivered,
         \A t \in Server : doubt[t] => doubt'[t],
         \A j \in Iface : j # IfaceOf[s] => kernel'[j] = kernel[j],
         op[o].kind = "enforce" => UNCHANGED kernel,
         op[o].kind # "enforce" /\ ~doubt'[s] /\ UnderWay(s, o) =>
            /\ step = "peers" => kernel'[IfaceOf[s]] # NoDevice /\ kernel'[IfaceOf[s]].key = s
            /\ step \in {"cleanup", "done"} => InKernel(s)'
  PROVE  Trusted'
<1> SUFFICES ASSUME NEW t \in Server, ~doubt'[t], delivered'[t].kind # "nothing"
             PROVE  TrustedFor(t)'
  BY DEF Trusted
<1>1. TrustedFor(t)
  BY DEF Trusted
<1>2. /\ \A q \in Slot : q # o => op'[q] = op[q]
      /\ \/ op'[o] = NoOp /\ step = "done"
         \/ /\ op'[o] # NoOp /\ op'[o].step = step
            /\ op'[o].srv = op[o].srv /\ op'[o].kind = op[o].kind
            /\ op'[o].peers = op[o].peers
  BY Advanced
<1>3. IfaceOf[t] \in Iface
  BY IfaceAssumption
<1>4. CASE o \notin OnDevice(t)
  <2>1. o \notin OnDevice(t)'
    BY <1>2, <1>4 DEF OnDevice, Busy
  <2>2. \A q \in Slot : SameRequest(q) \/ (q \notin OnDevice(t) /\ q \notin OnDevice(t)')
    BY <1>2, <1>4, <2>1 DEF SameRequest
  <2>3. kernel'[IfaceOf[t]] = kernel[IfaceOf[t]]
    BY <1>3, <1>4 DEF OnDevice, Busy
  <2>4. QED
    BY <1>1, <2>2, <2>3, TrustKeptFor
<1>5. CASE o \in OnDevice(t)
  <2>1. OnDevice(t) = {o} /\ UnderWay(t, o)
    BY <1>1, <1>5 DEF TrustedFor
  <2>2. s = t /\ op[o].kind # "enforce"
    BY <1>5, <2>1 DEF OnDevice, UnderWay
  <2>3. /\ step = "peers" => kernel'[IfaceOf[t]] # NoDevice /\ kernel'[IfaceOf[t]].key = t
        /\ step \in {"cleanup", "done"} => InKernel(t)'
    BY <2>1, <2>2
  <2>4. \A q \in Slot : q # o => q \notin OnDevice(t)'
    BY <1>2, <2>1 DEF OnDevice, Busy
  <2>5. CASE op'[o] = NoOp /\ step = "done"
    <3>1. OnDevice(t)' = {}
      BY <2>4, <2>5 DEF OnDevice, Busy
    <3>2. QED
      BY <2>3, <2>5, <3>1 DEF TrustedFor
  <2>6. CASE op'[o] # NoOp /\ op'[o].step = step /\ op'[o].srv = op[o].srv
             /\ op'[o].kind = op[o].kind /\ op'[o].peers = op[o].peers
    <3>1. OnDevice(t)' = {o}
      BY <1>5, <2>4, <2>6 DEF OnDevice, Busy
    <3>2. UnderWay(t, o)'
      BY <2>1, <2>3, <2>6 DEF UnderWay
    <3>3. QED
      BY <3>1, <3>2 DEF TrustedFor
  <2>7. QED
    BY <1>2, <2>5, <2>6
<1>6. QED
  BY <1>4, <1>5

-----------------------------------------------------------------------------
(* wg-helper.                                                              *)

KSound == KTypeOK /\ RecShape /\ OpShape /\ Trusted

DeviceType == kernel \in [Iface -> Device \cup {NoDevice}]

\* What is left to show of a step of a request: that its next step is one its
\* kind has, and what it left on the device.
LEMMA RequestStep ==
  ASSUME KSound, TypeOK', NEW o \in Slot, op[o] # NoOp, NEW s, s = op[o].srv,
         NEW step \in {"guards", "link", "peers", "cleanup", "done"}, NEW ok \in BOOLEAN,
         Advance(o, step, ok), UNCHANGED <<delivered, conf, held, rec>>,
         Fault \/ UNCHANGED faults,
         guard' \in [Iface -> BOOLEAN], DeviceType',
         \/ UNCHANGED doubt
         \/ \E b \in BOOLEAN : doubt' = [doubt EXCEPT ![s] = doubt[s] \/ b],
         /\ step = "peers" => op[o].kind = "apply"
         /\ step = "cleanup" => op[o].kind = "remove"
         /\ op[o].kind = "remove" => step # "guards"
         /\ op[o].kind = "enforce" => step \in {"guards", "done"},
         \A j \in Iface : j # IfaceOf[s] => kernel'[j] = kernel[j],
         op[o].kind = "enforce" => UNCHANGED kernel,
         op[o].kind # "enforce" /\ ~doubt'[s] /\ UnderWay(s, o) =>
            /\ step = "peers" => kernel'[IfaceOf[s]] # NoDevice /\ kernel'[IfaceOf[s]].key = s
            /\ step \in {"cleanup", "done"} => InKernel(s)'
  PROVE  KSound'
<1>1. OpsType /\ op[o] \in Op /\ s \in Server
  BY DEF KSound, KTypeOK, OpsType, Op
<1>2. OpsType' /\ \A q \in Slot : q # o => op'[q] = op[q]
  BY <1>1, Advanced
<1>3. OpShape'
  BY <1>1, <1>2, Advanced DEF KSound, OpShape
<1>4. RecShape'
  BY DEF KSound, RecShape
<1>5. doubt' \in [Server -> BOOLEAN] /\ \A t \in Server : doubt[t] => doubt'[t]
  BY <1>1 DEF KSound, KTypeOK
<1>6. faults' \in 0..MaxFaults
  BY FaultType DEF KSound, KTypeOK
<1>7. KTypeOK'
  BY <1>2, <1>5, <1>6 DEF KSound, KTypeOK, OpsType, DeviceType
<1>8. Trusted'
  BY <1>1, <1>5, AdvanceTrust DEF KSound
<1>9. QED
  BY <1>3, <1>4, <1>7, <1>8 DEF KSound

LEMMA RequestTypes ==
  ASSUME KSound, NEW o \in Slot, op[o] # NoOp
  PROVE  /\ op[o] \in Op /\ op[o].srv \in Server /\ IfaceOf[op[o].srv] \in Iface
         /\ op[o].conf \in Conf /\ op[o].peers \in SUBSET Peer
         /\ op[o].kind \in {"apply", "remove", "enforce"}
         /\ op[o].step \in {"guards", "link", "peers", "cleanup", "done"}
BY IfaceAssumption DEF KSound, KTypeOK, Op

LEMMA InstallGuardsKeeps ==
  ASSUME KSound, TypeOK', NEW o \in Slot, InstallGuards(o), NEW s, s = op[o].srv,
         UNCHANGED <<faults, vars, conf, held, rec, doubt>>
  PROVE  KSound'
<1> DEFINE step == IF op[o].kind = "apply" THEN "link" ELSE "done"
<1>1. op[o] # NoOp /\ op[o].step = "guards" /\ UNCHANGED kernel /\ Advance(o, step, TRUE)
      /\ guard' = [guard EXCEPT ![IfaceOf[s]] = TRUE]
  BY DEF InstallGuards
<1>2. guard' \in [Iface -> BOOLEAN] /\ DeviceType'
  BY <1>1 DEF KSound, KTypeOK, DeviceType
<1>3. step = "done" => op[o].kind = "enforce"
  BY <1>1, RequestTypes DEF KSound, OpShape
<1>4. UNCHANGED delivered
  BY DEF vars
<1> HIDE DEF step
<1>5. step \in {"link", "done"}
  BY DEF step
<1>6. op[o].kind = "enforce" => step = "done"
  BY DEF step
<1>7. QED
  BY <1>1, <1>2, <1>3, <1>4, <1>5, <1>6, RequestStep

LEMMA SetLinkKeeps ==
  ASSUME KSound, TypeOK', NEW o \in Slot, SetLink(o), NEW s, s = op[o].srv,
         UNCHANGED <<faults, vars, conf, held, rec, doubt>>
  PROVE  KSound'
<1>1. /\ op[o] # NoOp /\ op[o].step = "link" /\ op[o].kind = "apply" /\ UNCHANGED guard
      /\ UNCHANGED delivered
  BY DEF SetLink, vars
<1> DEFINE d == kernel[IfaceOf[s]]
<1>2. guard' \in [Iface -> BOOLEAN] /\ s \in Server /\ IfaceOf[s] \in Iface
      /\ d \in Device \cup {NoDevice}
  BY <1>1, RequestTypes DEF KSound, KTypeOK
<1>3. CASE Matches(d, op[o])
  <2>1. Advance(o, "done", TRUE) /\ UNCHANGED kernel
    BY <1>3 DEF SetLink
  <2>2. DeviceType'
    BY <2>1 DEF KSound, KTypeOK, DeviceType
  <2>3. UnderWay(s, o) => InKernel(s)'
    BY <1>1, <1>3, <2>1 DEF UnderWay, InKernel, Matches, Agrees
  <2> HIDE DEF d
  <2>4. QED
    BY <1>1, <1>2, <2>1, <2>2, <2>3, RequestStep
<1>4. CASE ~Matches(d, op[o])
  <2> DEFINE new == [key |-> s, conf |-> op[o].conf,
                     peers |-> IF d = NoDevice THEN {} ELSE d.peers]
  <2>1. Advance(o, "peers", TRUE) /\ kernel' = [kernel EXCEPT ![IfaceOf[s]] = new]
    BY <1>4 DEF SetLink
  <2>2. new \in Device /\ new.key = s
    BY <1>1, <1>2, RequestTypes DEF Device
  <2>3. new # NoDevice
    BY <2>2, NoneAssumption
  <2> HIDE DEF new, d
  <2>4. DeviceType' /\ kernel'[IfaceOf[s]] = new
        /\ \A j \in Iface : j # IfaceOf[s] => kernel'[j] = kernel[j]
    BY <1>2, <2>1, <2>2 DEF KSound, KTypeOK, DeviceType
  <2>5. QED
    BY <1>1, <1>2, <2>1, <2>2, <2>3, <2>4, RequestStep
<1>5. QED
  BY <1>3, <1>4

LEMMA ReplacePeersKeeps ==
  ASSUME KSound, TypeOK', NEW o \in Slot, ReplacePeers(o), NEW s, s = op[o].srv,
         UNCHANGED <<faults, vars, conf, held, rec, doubt>>
  PROVE  KSound'
<1>1. /\ op[o] # NoOp /\ op[o].step = "peers" /\ UNCHANGED guard
      /\ UNCHANGED delivered
  BY DEF ReplacePeers, vars
<1> DEFINE d == kernel[IfaceOf[s]]
<1>2. guard' \in [Iface -> BOOLEAN] /\ s \in Server /\ IfaceOf[s] \in Iface
      /\ d \in Device \cup {NoDevice} /\ op[o].kind = "apply"
  BY <1>1, RequestTypes DEF KSound, KTypeOK, OpShape
<1>3. CASE d = NoDevice
  <2>1. Advance(o, "done", FALSE) /\ UNCHANGED kernel
    BY <1>3 DEF ReplacePeers
  <2>2. DeviceType'
    BY <2>1 DEF KSound, KTypeOK, DeviceType
  <2>3. ~UnderWay(s, o)
    BY <1>1, <1>3 DEF UnderWay
  <2> HIDE DEF d
  <2>4. QED
    BY <1>1, <1>2, <2>1, <2>2, <2>3, RequestStep
<1>4. CASE d # NoDevice
  <2> DEFINE new == [d EXCEPT !.peers = op[o].peers]
  <2>1. Advance(o, "done", TRUE) /\ kernel' = [kernel EXCEPT ![IfaceOf[s]] = new]
    BY <1>4 DEF ReplacePeers
  <2>2. new \in Device /\ new.key = d.key /\ new.peers = op[o].peers
    BY <1>1, <1>2, <1>4, RequestTypes DEF Device
  <2>3. new # NoDevice
    BY <2>2, NoneAssumption
  <2>4. UnderWay(s, o) => d.key = s /\ delivered[s].kind = "apply"
                          /\ delivered[s].peers = op[o].peers
    BY <1>1, <1>2 DEF UnderWay
  <2> HIDE DEF new, d
  <2>5. DeviceType' /\ kernel'[IfaceOf[s]] = new
        /\ \A j \in Iface : j # IfaceOf[s] => kernel'[j] = kernel[j]
    BY <1>2, <2>1, <2>2 DEF KSound, KTypeOK, DeviceType
  <2>6. UnderWay(s, o) => InKernel(s)'
    BY <1>1, <2>2, <2>3, <2>4, <2>5 DEF InKernel
  <2>7. QED
    BY <1>1, <1>2, <2>1, <2>5, <2>6, RequestStep
<1>5. QED
  BY <1>3, <1>4

LEMMA DeleteLinkKeeps ==
  ASSUME KSound, TypeOK', NEW o \in Slot, DeleteLink(o), NEW s, s = op[o].srv,
         UNCHANGED <<faults, vars, conf, held, rec, doubt>>
  PROVE  KSound'
<1>1. /\ op[o] # NoOp /\ op[o].step = "link" /\ op[o].kind = "remove" /\ UNCHANGED guard
      /\ UNCHANGED delivered /\ Advance(o, "cleanup", TRUE)
      /\ kernel' = [kernel EXCEPT ![IfaceOf[s]] = NoDevice]
  BY DEF DeleteLink, vars
<1>2. guard' \in [Iface -> BOOLEAN] /\ s \in Server /\ IfaceOf[s] \in Iface
  BY <1>1, RequestTypes DEF KSound, KTypeOK
<1>3. DeviceType' /\ kernel'[IfaceOf[s]] = NoDevice
      /\ \A j \in Iface : j # IfaceOf[s] => kernel'[j] = kernel[j]
  BY <1>1, <1>2 DEF KSound, KTypeOK, DeviceType
<1>4. UnderWay(s, o) => InKernel(s)'
  BY <1>1, <1>3 DEF UnderWay, InKernel
<1>5. QED
  BY <1>1, <1>2, <1>3, <1>4, RequestStep

LEMMA RemoveGuardsKeeps ==
  ASSUME KSound, TypeOK', NEW o \in Slot, RemoveGuards(o), NEW s, s = op[o].srv,
         UNCHANGED <<faults, vars, conf, held, rec, doubt>>
  PROVE  KSound'
<1>1. /\ op[o] # NoOp /\ op[o].step = "cleanup" /\ UNCHANGED kernel
      /\ UNCHANGED delivered /\ Advance(o, "done", TRUE)
      /\ guard' = [guard EXCEPT ![IfaceOf[s]] = FALSE]
  BY DEF RemoveGuards, vars
<1>2. guard' \in [Iface -> BOOLEAN] /\ DeviceType'
  BY <1>1 DEF KSound, KTypeOK, DeviceType
<1>3. UnderWay(s, o) => InKernel(s)'
  BY <1>1 DEF UnderWay, InKernel
<1>4. QED
  BY <1>1, <1>2, <1>3, RequestStep

LEMMA LinkFailsKeeps ==
  ASSUME KSound, TypeOK', NEW o \in Slot, LinkFails(o), NEW s, s = op[o].srv,
         doubt' = [doubt EXCEPT ![s] = doubt[s] \/ op[o].step \in {"link", "peers"}],
         Fault, UNCHANGED <<vars, conf, held, rec>>
  PROVE  KSound'
<1>1. /\ op[o] # NoOp /\ op[o].step = "link" /\ op[o].kind = "apply" /\ UNCHANGED guard
      /\ UNCHANGED delivered
  BY DEF LinkFails, vars
<1>2. PICK step \in {"peers", "done"} : Advance(o, step, FALSE)
  BY DEF LinkFails
<1>3. guard' \in [Iface -> BOOLEAN] /\ s \in Server /\ IfaceOf[s] \in Iface
  BY <1>1, RequestTypes DEF KSound, KTypeOK
<1> DEFINE unkeyed == [key |-> NoServer, conf |-> op[o].conf, peers |-> {}]
<1>4. UNCHANGED kernel \/ kernel' = [kernel EXCEPT ![IfaceOf[s]] = unkeyed]
  BY DEF LinkFails
<1>5. unkeyed \in Device
  BY <1>1, RequestTypes DEF Device
<1> HIDE DEF unkeyed
<1>6. DeviceType' /\ \A j \in Iface : j # IfaceOf[s] => kernel'[j] = kernel[j]
  BY <1>3, <1>4, <1>5 DEF KSound, KTypeOK, DeviceType
<1>7. doubt'[s] /\ \E b \in BOOLEAN : doubt' = [doubt EXCEPT ![s] = doubt[s] \/ b]
  <2>1. (op[o].step \in {"link", "peers"}) = TRUE
    BY <1>1
  <2>2. doubt' = [doubt EXCEPT ![s] = doubt[s] \/ TRUE]
    BY <2>1
  <2>3. QED
    BY <1>3, <2>2 DEF KSound, KTypeOK
<1>8. \E b \in BOOLEAN : doubt' = [doubt EXCEPT ![s] = doubt[s] \/ b]
  BY <1>7
<1>9. /\ step = "peers" => op[o].kind = "apply"
      /\ step \in {"guards", "link", "peers", "cleanup", "done"}
      /\ step # "cleanup" /\ op[o].kind # "remove" /\ op[o].kind # "enforce"
  BY <1>1, <1>2
<1>10. op[o].kind # "enforce" /\ ~doubt'[s] /\ UnderWay(s, o) =>
         /\ step = "peers" => kernel'[IfaceOf[s]] # NoDevice /\ kernel'[IfaceOf[s]].key = s
         /\ step \in {"cleanup", "done"} => InKernel(s)'
  BY <1>7
<1>11. CASE step = "peers"
  BY <1>1, <1>2, <1>3, <1>6, <1>8, <1>9, <1>10, <1>11, RequestStep, ZenonT(60)
<1>12. CASE step = "done"
  BY <1>1, <1>2, <1>3, <1>6, <1>8, <1>9, <1>10, <1>12, RequestStep, ZenonT(60)
<1>13. QED
  BY <1>11, <1>12, <1>2

LEMMA CommandFailsKeeps ==
  ASSUME KSound, TypeOK', NEW o \in Slot, CommandFails(o), NEW s, s = op[o].srv,
         doubt' = [doubt EXCEPT ![s] = doubt[s] \/ op[o].step \in {"link", "peers"}],
         Fault, UNCHANGED <<vars, conf, held, rec>>
  PROVE  KSound'
<1> DEFINE step == CASE op[o].step = "guards" /\ op[o].kind = "apply" -> "link"
                     [] op[o].step = "link" -> "cleanup"
                     [] OTHER -> "done"
<1>1. /\ op[o] # NoOp /\ UNCHANGED <<kernel, guard, delivered>> /\ Advance(o, step, FALSE)
      /\ op[o].step \in IF op[o].kind = "apply" THEN {"guards", "peers"}
                        ELSE {"guards", "link", "cleanup"}
  BY DEF CommandFails, vars
<1>2. /\ guard' \in [Iface -> BOOLEAN] /\ DeviceType' /\ s \in Server
      /\ op[o].kind \in {"apply", "remove", "enforce"}
  BY <1>1, RequestTypes DEF KSound, KTypeOK, DeviceType
<1>3. \E b \in BOOLEAN : doubt' = [doubt EXCEPT ![s] = doubt[s] \/ b]
  BY <1>1
<1>4. op[o].step \in {"link", "peers"} => doubt'[s]
  BY <1>2 DEF KSound, KTypeOK
<1>5. /\ op[o].kind = "remove" => op[o].step \in {"link", "cleanup"}
      /\ op[o].kind = "enforce" => op[o].step = "guards"
  BY <1>1 DEF KSound, OpShape
<1>6. /\ step \in {"link", "cleanup", "done"}
      /\ step = "cleanup" => op[o].kind = "remove" /\ op[o].step = "link"
      /\ op[o].kind = "enforce" => step = "done"
      /\ step = "done" /\ op[o].kind # "enforce" => op[o].step \in {"peers", "cleanup"}
  BY <1>1, <1>2, <1>5
<1>7. op[o].step = "cleanup" /\ UnderWay(s, o) => InKernel(s)'
  BY <1>1 DEF UnderWay, InKernel
<1> HIDE DEF step
<1>8. op[o].kind # "enforce" /\ ~doubt'[s] /\ UnderWay(s, o) =>
        /\ step = "peers" => kernel'[IfaceOf[s]] # NoDevice /\ kernel'[IfaceOf[s]].key = s
        /\ step \in {"cleanup", "done"} => InKernel(s)'
  BY <1>4, <1>6, <1>7
<1>9. QED
  BY <1>1, <1>2, <1>3, <1>6, <1>8, RequestStep, ZenonT(60)

LEMMA HelperStepKeeps ==
  ASSUME KSound, TypeOK', NEW o \in Slot, HelperStep(o)
  PROVE  KSound'
<1>1. op[o] # NoOp
  BY DEF HelperStep, InstallGuards, SetLink, ReplacePeers, DeleteLink, RemoveGuards,
         LinkFails, CommandFails
<1>2. PICK s \in Server : s = op[o].srv
  BY <1>1, RequestTypes
<1>3. CASE /\ \/ InstallGuards(o) \/ SetLink(o) \/ ReplacePeers(o)
              \/ DeleteLink(o) \/ RemoveGuards(o)
           /\ UNCHANGED <<faults, vars, conf, held, rec, doubt>>
  BY <1>2, <1>3, InstallGuardsKeeps, SetLinkKeeps, ReplacePeersKeeps, DeleteLinkKeeps,
     RemoveGuardsKeeps
<1>4. CASE /\ LinkFails(o) \/ CommandFails(o)
           /\ doubt' = [doubt EXCEPT ![s] = doubt[s] \/ op[o].step \in {"link", "peers"}]
           /\ Fault /\ UNCHANGED <<vars, conf, held, rec>>
  BY <1>2, <1>4, LinkFailsKeeps, CommandFailsKeeps
<1>5. QED
  BY <1>2, <1>3, <1>4 DEF HelperStep

-----------------------------------------------------------------------------
(* The steps that send nothing and collect nothing.                        *)

\* A step that leaves the requests and the devices alone and delivers nothing.
LEMMA AsideKeeps ==
  ASSUME KSound, TypeOK', UNCHANGED <<op, kernel, guard, delivered, doubt>>,
         Fault \/ UNCHANGED faults,
         conf' \in [Server -> Conf], held' \in [Client -> Conf],
         UNCHANGED rec
  PROVE  KSound'
<1>1. faults' \in 0..MaxFaults
  BY FaultType DEF KSound, KTypeOK
<1>2. KTypeOK'
  BY <1>1 DEF KSound, KTypeOK
<1>3. RecShape' /\ OpShape'
  BY DEF KSound, RecShape, OpShape
<1>4. Trusted'
  BY TrustKept DEF KSound
<1>5. QED
  BY <1>2, <1>3, <1>4 DEF KSound

\* No handler, and no step of a goroutine but a send, tells the helper anything.
LEMMA TellsNothing ==
  ASSUME \/ \E h \in Handler : Admin(h) \/ Answer(h)
         \/ \E r \in Runner : \/ TakePass(r) \/ ReadServer(r) \/ ReadFails(r)
                              \/ Return(r) \/ Decide(r) \/ Finish(r)
  PROVE  delivered' = delivered
<1>1. ASSUME NEW h \in Handler, Admin(h)  PROVE delivered' = delivered
  BY <1>1 DEF Admin, CreateServer, DeleteServer, CreatePeer, SuspendPeer, ResumePeer,
              DeletePeer, UpdatePeer, SetPeerStatus, SuspendUser, ResumeUser, DeleteUser,
              SetUserPeers, Commit
<1>2. ASSUME NEW h \in Handler, Answer(h)  PROVE delivered' = delivered
  BY <1>2 DEF Answer, AskSync, ResolveCall, LookupFails, RequestServerRemoval
<1>3. ASSUME NEW r \in Runner,
             TakePass(r) \/ ReadServer(r) \/ ReadFails(r) \/ Return(r) \/ Decide(r) \/ Finish(r)
      PROVE  delivered' = delivered
  BY <1>3 DEF TakePass, ReadServer, ReadFails, Return, Decide, Finish
<1>4. QED
  BY <1>1, <1>2, <1>3

LEMMA HandlerStepKeeps ==
  ASSUME KSound, TypeOK', NEW h \in Handler, HandlerStep(h)
  PROVE  KSound'
<1>1. UNCHANGED kvars /\ UNCHANGED delivered
  BY TellsNothing DEF HandlerStep
<1>2. QED
  BY <1>1, AsideKeeps DEF kvars, KSound, KTypeOK

LEMMA UpdateServerKeeps ==
  ASSUME KSound, TypeOK', NEW s \in Server, NEW c \in Conf, UpdateServer(s, c)
  PROVE  KSound'
<1>1. conf' \in [Server -> Conf] /\ held' \in [Client -> Conf]
  BY DEF UpdateServer, KSound, KTypeOK
<1>2. UNCHANGED <<op, kernel, guard, delivered, doubt, faults, rec>>
  BY DEF UpdateServer, helperVars, vars
<1>3. QED
  BY <1>1, <1>2, AsideKeeps

LEMMA QuietPassKeeps ==
  ASSUME QueueInv, KSound, TypeOK', NEW r \in Runner,
         \/ LocalStep(r)
         \/ runner[r].pc = "server" /\ KReadServer(r)
         \/ KReadFails(r)
  PROVE  KSound'
<1>1. CASE LocalStep(r)
  <2>1. UNCHANGED kvars /\ UNCHANGED delivered
    BY <1>1, TellsNothing DEF LocalStep
  <2>2. QED
    BY <2>1, AsideKeeps DEF kvars, KSound, KTypeOK
<1>2. CASE runner[r].pc = "server" /\ KReadServer(r)
  <2>1. runner[r].srv \in Server
    BY <1>2, WorkingRunner
  <2>2. conf' \in [Server -> Conf] /\ held' \in [Client -> Conf]
    BY <1>2, <2>1 DEF KReadServer, KSound, KTypeOK, Client
  <2>3. UNCHANGED <<op, kernel, guard, doubt, faults, rec>>
    BY <1>2 DEF KReadServer, helperVars
  <2>4. UNCHANGED delivered
    BY <1>2, TellsNothing DEF KReadServer
  <2>5. QED
    BY <2>2, <2>3, <2>4, AsideKeeps
<1>3. CASE KReadFails(r)
  <2>1. UNCHANGED <<conf, held, op, kernel, guard, doubt, rec>> /\ Fault
    BY <1>3 DEF KReadFails, helperVars
  <2>2. UNCHANGED delivered
    BY <1>3, TellsNothing DEF KReadFails
  <2>3. QED
    BY <2>1, <2>2, AsideKeeps DEF KSound, KTypeOK
<1>4. QED
  BY <1>1, <1>2, <1>3

-----------------------------------------------------------------------------
(* Calls and answers.                                                      *)

\* A call for a device and an answer keep the rest of the state's types.
LEMMA CallKeeps ==
  ASSUME KSound, TypeOK', OpsType', OpShape', Trusted', faults' \in 0..MaxFaults,
         UNCHANGED <<conf, held, kernel, guard>>, RecShape',
         rec' \in [pc : {"idle", "probe", "server", "peers", "applying",
                         "guards", "enforcing"},
                   todo : SUBSET Server, srv : Server \cup {NoServer},
                   failed : BOOLEAN],
         doubt' \in [Server -> BOOLEAN]
  PROVE  KSound'
<1>1. KTypeOK'
  BY DEF KSound, KTypeOK, OpsType
<1>2. QED
  BY <1>1 DEF KSound

LEMMA DoubtType ==
  ASSUME KSound, NEW s \in Server, NEW bypass \in BOOLEAN, Doubt(s, bypass)
  PROVE  doubt' \in [Server -> BOOLEAN]
BY DEF KSound, KTypeOK, Doubt

\* A goroutine's call for its server.
LEMMA PassSendKeeps ==
  ASSUME QueueInv, KSound, TypeOK', NEW r \in Runner, NEW s \in Server, s = runner[r].srv,
         NEW kind \in {"apply", "remove"}, NEW P \in SUBSET Peer,
         \/ Send(r, kind, s, P)
         \/ Accept(r, kind, s, P) /\ Fault,
         Doubt(s, FALSE), UNCHANGED <<conf, held, kernel, guard, rec>>,
         \A t \in Server : t # s => delivered'[t] = delivered[t],
         delivered'[s].kind = kind /\ delivered'[s].peers = P
  PROVE  KSound'
<1>1. r \in Client
  BY DEF Client
<1>2. OpsType' /\ OpShape' /\ faults' \in 0..MaxFaults
  BY <1>1, SendKeeps, AcceptKeeps, FaultType DEF KSound, KTypeOK, OpsType
<1>3. Accept(r, kind, s, P) \/ UNCHANGED op
  BY DEF Send
<1>4. Trusted'
  <2>1. Trusted /\ OpsType /\ held \in [Client -> Conf] /\ UNCHANGED kernel
    BY DEF KSound, KTypeOK, OpsType
  <2>2. FALSE \in BOOLEAN
    OBVIOUS
  <2>3. QED
    BY <1>1, <1>3, <2>1, <2>2, SendTrust
<1>5. doubt' \in [Server -> BOOLEAN]
  BY DoubtType
<1>6. RecShape'
  BY DEF KSound, RecShape
<1>7. QED
  BY <1>2, <1>4, <1>5, <1>6, CallKeeps DEF KSound, KTypeOK

LEMMA KSendApplyKeeps ==
  ASSUME QueueInv, KSound, TypeOK', NEW r \in Runner, KSendApply(r)
  PROVE  KSound'
<1>1. PICK s \in Server : s = runner[r].srv
  BY WorkingRunner DEF KSendApply, SendApply
<1>2. PICK P \in SUBSET Peer : P = Desired(s)
  BY DEF Desired
<1>3. delivered' = [delivered EXCEPT ![s] = Applied(P)]
  BY <1>1, <1>2 DEF KSendApply, SendApply
<1>4. /\ delivered'[s].kind = "apply" /\ delivered'[s].peers = P
      /\ \A t \in Server : t # s => delivered'[t] = delivered[t]
  BY <1>3 DEF QueueInv, TypeOK, Applied
<1>5. Send(r, "apply", s, P) /\ Doubt(s, FALSE) /\ UNCHANGED <<conf, held, kernel, guard, rec>>
  BY <1>1, <1>2 DEF KSendApply
<1>6. QED
  BY <1>1, <1>4, <1>5, PassSendKeeps

LEMMA KSendTruncatedKeeps ==
  ASSUME QueueInv, KSound, TypeOK', NEW r \in Runner, KSendTruncated(r)
  PROVE  KSound'
<1>1. PICK s \in Server : s = runner[r].srv
  BY WorkingRunner DEF KSendTruncated, SendTruncated
<1>2. PICK P \in SUBSET Desired(s) : delivered' = [delivered EXCEPT ![s] = Applied(P)]
  BY <1>1 DEF KSendTruncated, SendTruncated
<1>3. P \in SUBSET Peer
  BY <1>2 DEF Desired
<1>4. /\ delivered'[s].kind = "apply" /\ delivered'[s].peers = P
      /\ \A t \in Server : t # s => delivered'[t] = delivered[t]
  BY <1>2 DEF QueueInv, TypeOK, Applied
<1>5. /\ Accept(r, "apply", s, P) /\ Fault /\ Doubt(s, FALSE)
      /\ UNCHANGED <<conf, held, kernel, guard, rec>>
  BY <1>1, <1>4 DEF KSendTruncated
<1>6. QED
  BY <1>1, <1>3, <1>4, <1>5, PassSendKeeps

LEMMA KSendRemoveKeeps ==
  ASSUME QueueInv, KSound, TypeOK', NEW r \in Runner, KSendRemove(r)
  PROVE  KSound'
<1>1. PICK s \in Server : s = runner[r].srv
  BY WorkingRunner DEF KSendRemove, SendRemove
<1>2. delivered' = [delivered EXCEPT ![s] = TornDown]
  BY <1>1 DEF KSendRemove, SendRemove
<1>3. /\ delivered'[s].kind = "remove" /\ delivered'[s].peers = {}
      /\ \A t \in Server : t # s => delivered'[t] = delivered[t]
  BY <1>2 DEF QueueInv, TypeOK, TornDown
<1>4. Send(r, "remove", s, {}) /\ Doubt(s, FALSE) /\ UNCHANGED <<conf, held, kernel, guard, rec>>
  BY <1>1 DEF KSendRemove
<1>5. {} \in SUBSET Peer
  OBVIOUS
<1>6. QED
  BY <1>1, <1>3, <1>4, <1>5, PassSendKeeps

\* An answer taken, or given up.
LEMMA AnswerTakenKeeps ==
  ASSUME KSound, TypeOK', NEW c, NEW good, Collect(c, good),
         UNCHANGED <<conf, held, kernel, guard, doubt, delivered>>, RecShape',
         rec' \in [pc : {"idle", "probe", "server", "peers", "applying",
                         "guards", "enforcing"},
                   todo : SUBSET Server, srv : Server \cup {NoServer},
                   failed : BOOLEAN]
  PROVE  KSound'
<1>1. OpsType' /\ OpShape' /\ faults' \in 0..MaxFaults
  BY CollectKeeps DEF KSound
<1>2. Trusted'
  BY CollectTrust DEF KSound, KTypeOK, OpsType
<1>3. QED
  BY <1>1, <1>2, CallKeeps DEF KSound, KTypeOK

LEMMA KReturnKeeps ==
  ASSUME QueueInv, KSound, TypeOK', NEW r \in Runner, KReturn(r)
  PROVE  KSound'
<1>1. PICK good \in BOOLEAN : Collect(r, good)
  BY DEF KReturn
<1>2. UNCHANGED <<conf, held, kernel, guard, rec, doubt, delivered>>
  BY TellsNothing DEF KReturn
<1>3. RecShape'
  BY <1>2 DEF KSound, RecShape
<1>4. QED
  BY <1>1, <1>2, <1>3, AnswerTakenKeeps DEF KSound, KTypeOK

LEMMA RunnerStepKeeps ==
  ASSUME QueueInv, KSound, TypeOK', NEW r \in Runner, RunnerStep(r)
  PROVE  KSound'
BY QuietPassKeeps, KSendApplyKeeps, KSendTruncatedKeeps, KSendRemoveKeeps, KReturnKeeps
   DEF RunnerStep

-----------------------------------------------------------------------------
(* The reconcile worker.                                                   *)

RecType == rec \in [pc : {"idle", "probe", "server", "peers", "applying",
                          "guards", "enforcing"},
                    todo : SUBSET Server, srv : Server \cup {NoServer},
                    failed : BOOLEAN]

\* Every step of the worker leaves it in a state it can be in.
LEMMA RecKeeps ==
  ASSUME KSound, Reconcile
  PROVE  RecType' /\ RecShape'
<1>1. RecType /\ RecShape
  BY DEF KSound, KTypeOK, RecType
<1>2. RecIdle \in [pc : {"idle", "probe", "server", "peers", "applying",
                         "guards", "enforcing"},
                   todo : SUBSET Server, srv : Server \cup {NoServer},
                   failed : BOOLEAN] /\ RecIdle.pc = "idle"
  BY DEF RecIdle
<1>3. LocalServers \in SUBSET Server
  BY DEF LocalServers
<1>4. CASE StartReconcile
  BY <1>3, <1>4 DEF StartReconcile, RecType, RecShape, RecIdle
<1>5. CASE Probe
  <2>1. PICK s \in rec.todo :
          \/ rec' = [rec EXCEPT !.todo = rec.todo \ {s}]
          \/ rec' = [rec EXCEPT !.todo = rec.todo \ {s}, !.srv = s, !.pc = "server"]
    BY <1>5 DEF Probe
  <2>2. s \in Server
    BY <1>1, <2>1 DEF RecType
  <2>3. QED
    BY <1>1, <2>1, <2>2 DEF RecType, RecShape
<1>6. CASE RecReadServer
  BY <1>1, <1>6 DEF RecReadServer, RecType, RecShape
<1>7. CASE RecSendApply
  BY <1>1, <1>7 DEF RecSendApply, RecType, RecShape
<1>8. CASE RecApplied
  <2>1. PICK good \in BOOLEAN :
          rec' = [rec EXCEPT !.pc = "probe", !.failed = rec.failed \/ ~good]
    BY <1>8 DEF RecApplied
  <2>2. (rec.failed \/ ~good) \in BOOLEAN
    OBVIOUS
  <2>3. QED
    BY <1>1, <2>1, <2>2 DEF RecType, RecShape
<1>9. CASE Probed
  BY <1>1, <1>2, <1>3, <1>9, ZenonT(60) DEF Probed, RecType, RecShape
<1>10. CASE SendEnforce
  BY <1>1, <1>10, ZenonT(60) DEF SendEnforce, RecType, RecShape
<1>11. CASE Enforced
  <2>1. PICK good \in BOOLEAN :
          rec' = [rec EXCEPT !.pc = "guards", !.failed = rec.failed \/ ~good]
    BY <1>11 DEF Enforced
  <2>2. (rec.failed \/ ~good) \in BOOLEAN
    OBVIOUS
  <2>3. QED
    BY <1>1, <2>1, <2>2 DEF RecType, RecShape
<1>12. CASE EndReconcile
  BY <1>2, <1>12 DEF EndReconcile, RecType, RecShape
<1>13. QED
  BY <1>4, <1>5, <1>6, <1>7, <1>8, <1>9, <1>10, <1>11, <1>12 DEF Reconcile

\* A step of the worker that leaves the requests alone.
LEMMA RecAsideKeeps ==
  ASSUME KSound, TypeOK', UNCHANGED <<vars, conf, helperVars, doubt>>,
         Fault \/ UNCHANGED faults, held' \in [Client -> Conf], RecType', RecShape'
  PROVE  KSound'
<1>1. faults' \in 0..MaxFaults
  BY FaultType DEF KSound, KTypeOK
<1>2. UNCHANGED <<op, kernel, guard, delivered>>
  BY DEF helperVars, vars
<1>3. KTypeOK'
  BY <1>1, <1>2 DEF KSound, KTypeOK, RecType
<1>4. OpShape'
  BY <1>2 DEF KSound, OpShape
<1>5. Trusted'
  BY <1>2, TrustKept DEF KSound
<1>6. QED
  BY <1>3, <1>4, <1>5 DEF KSound

LEMMA RecSendApplyKeeps ==
  ASSUME KSound, TypeOK', RecSendApply, RecType', RecShape'
  PROVE  KSound'
<1>1. PICK s \in Server : s = rec.srv
  BY DEF RecSendApply, KSound, RecShape
<1>2. Reconciler \in Client
  BY DEF Client
<1>3. PICK P \in SUBSET Peer :
        \/ Send(Reconciler, "apply", s, P)
        \/ Accept(Reconciler, "apply", s, P) /\ Fault
  <2>1. Desired(s) \in SUBSET Peer
    BY DEF Desired
  <2>2. QED
    BY <1>1, <2>1 DEF RecSendApply
<1>4. Doubt(s, TRUE) /\ UNCHANGED <<conf, held, kernel, guard, delivered>>
  BY <1>1 DEF RecSendApply, vars
<1>5. OpsType' /\ OpShape' /\ faults' \in 0..MaxFaults
  BY <1>2, <1>3, SendKeeps, AcceptKeeps, FaultType DEF KSound, KTypeOK, OpsType
<1>6. Accept(Reconciler, "apply", s, P) \/ UNCHANGED op
  BY <1>3 DEF Send
<1>7. Trusted'
  BY <1>2, <1>4, <1>6, SendTrust DEF KSound, KTypeOK, OpsType
<1>8. doubt' \in [Server -> BOOLEAN]
  BY <1>4, DoubtType
<1>9. QED
  BY <1>4, <1>5, <1>7, <1>8, CallKeeps DEF RecType

LEMMA SendEnforceKeeps ==
  ASSUME KSound, TypeOK', SendEnforce, RecType', RecShape'
  PROVE  KSound'
<1>1. PICK s \in rec.todo : Send(Reconciler, "enforce", s, {})
  BY DEF SendEnforce
<1>2. s \in Server /\ Reconciler \in Client /\ {} \in SUBSET Peer
  BY DEF KSound, KTypeOK, Client
<1>3. UNCHANGED <<conf, held, kernel, guard, doubt, delivered>>
  BY DEF SendEnforce, vars
<1>4. OpsType' /\ OpShape' /\ faults' \in 0..MaxFaults
  BY <1>1, <1>2, SendKeeps DEF KSound
<1>5. Trusted'
  BY <1>1, <1>2, <1>3, EnforceTrust DEF KSound, KTypeOK, OpsType
<1>6. doubt' \in [Server -> BOOLEAN]
  BY <1>3 DEF KSound, KTypeOK
<1>7. QED
  BY <1>3, <1>4, <1>5, <1>6, CallKeeps DEF RecType

LEMMA ReconcileKeeps ==
  ASSUME KSound, TypeOK', Reconcile
  PROVE  KSound'
<1>1. RecType' /\ RecShape'
  BY RecKeeps
<1>2. CASE StartReconcile \/ Probe \/ Probed \/ EndReconcile
  <2>1. UNCHANGED <<vars, conf, held, helperVars, doubt>> /\ (Fault \/ UNCHANGED faults)
    BY <1>2 DEF StartReconcile, Probe, Probed, EndReconcile
  <2>2. held' \in [Client -> Conf]
    BY <2>1 DEF KSound, KTypeOK
  <2>3. QED
    BY <1>1, <2>1, <2>2, RecAsideKeeps
<1>3. CASE RecReadServer
  <2>1. UNCHANGED <<vars, conf, helperVars, faults, doubt>>
    BY <1>3 DEF RecReadServer
  <2>2. rec.srv \in Server
    BY <1>3 DEF RecReadServer, KSound, RecShape
  <2>3. held' \in [Client -> Conf]
    BY <1>3, <2>2 DEF RecReadServer, KSound, KTypeOK
  <2>4. QED
    BY <1>1, <2>1, <2>3, RecAsideKeeps
<1>4. CASE RecApplied \/ Enforced
  <2>1. PICK good \in BOOLEAN : Collect(Reconciler, good)
    BY <1>4 DEF RecApplied, Enforced
  <2>2. UNCHANGED <<conf, held, kernel, guard, doubt, delivered>>
    BY <1>4 DEF RecApplied, Enforced, vars
  <2>3. QED
    BY <1>1, <2>1, <2>2, AnswerTakenKeeps DEF RecType
<1>5. QED
  BY <1>1, <1>2, <1>3, <1>4, RecSendApplyKeeps, SendEnforceKeeps DEF Reconcile

-----------------------------------------------------------------------------
(* Crashes.                                                                *)

LEMMA OrphanedIs ==
  ASSUME OpsType, op' = Orphaned
  PROVE  /\ OpsType'
         /\ \A q \in Slot : \/ op'[q] = NoOp /\ (op[q] = NoOp \/ op[q].step = "done")
                            \/ SameRequest(q)
<1> SUFFICES ASSUME NEW q \in Slot
             PROVE  /\ op'[q] \in Op \cup {NoOp}
                    /\ \/ op'[q] = NoOp /\ (op[q] = NoOp \/ op[q].step = "done")
                       \/ SameRequest(q)
  BY DEF OpsType, Orphaned
<1>1. CASE op[q] = NoOp \/ op[q].step = "done"
  BY <1>1 DEF Orphaned
<1>2. CASE ~(op[q] = NoOp \/ op[q].step = "done")
  <2>1. op[q] \in Op
    BY <1>2 DEF OpsType
  <2>2. [op[q] EXCEPT !.client = Nobody] \in Op
    BY <2>1 DEF Op
  <2>3. op'[q] = [op[q] EXCEPT !.client = Nobody]
    BY <1>2 DEF Orphaned
  <2>4. SameRequest(q)
    BY <1>2, <2>1, <2>2, <2>3, NoneAssumption DEF SameRequest, Op
  <2>5. QED
    BY <2>2, <2>3, <2>4
<1>3. QED
  BY <1>1, <1>2

LEMMA KCrashKeeps ==
  ASSUME KSound, TypeOK', KCrash
  PROVE  KSound'
<1>1. /\ Fault /\ op' = Orphaned /\ rec' = RecIdle
      /\ UNCHANGED <<conf, held, kernel, guard, doubt, delivered>>
  BY DEF KCrash, ApiCrash, Crash
<1>2. /\ OpsType'
      /\ \A q \in Slot : \/ op'[q] = NoOp /\ (op[q] = NoOp \/ op[q].step = "done")
                         \/ SameRequest(q)
  BY <1>1, OrphanedIs DEF KSound, KTypeOK, OpsType
<1>3. faults' \in 0..MaxFaults
  BY <1>1, FaultType DEF KSound, KTypeOK
<1>4. RecType' /\ RecShape'
  BY <1>1 DEF RecType, RecShape, RecIdle
<1>5. OpShape'
  BY <1>2 DEF KSound, OpShape, SameRequest
<1>6. ASSUME NEW t \in Server, TrustedFor(t)  PROVE TrustedFor(t)'
  <2>1. CASE \E o \in OnDevice(t) : op[o].step = "done"
    <3>1. PICK o \in OnDevice(t) : op[o].step = "done"
      BY <2>1
    <3>2. OnDevice(t) = {o} /\ InKernel(t)
      BY <1>6, <3>1 DEF TrustedFor, UnderWay
    <3>3. op'[o] = NoOp
      BY <1>1, <3>1 DEF Orphaned, OnDevice, Busy
    <3>4. OnDevice(t)' = {}
      BY <1>2, <3>2, <3>3 DEF OnDevice, Busy, SameRequest
    <3>5. InKernel(t)'
      BY <1>1, <3>2 DEF InKernel
    <3>6. QED
      BY <3>4, <3>5 DEF TrustedFor
  <2>2. CASE \A o \in OnDevice(t) : op[o].step # "done"
    <3>1. \A q \in Slot : SameRequest(q) \/ (q \notin OnDevice(t) /\ q \notin OnDevice(t)')
      BY <1>2, <2>2 DEF OnDevice, Busy
    <3>2. QED
      BY <1>1, <1>6, <3>1, TrustKeptFor
  <2>3. QED
    BY <2>1, <2>2
<1>7. Trusted'
  BY <1>1, <1>6 DEF KSound, Trusted
<1>8. doubt' \in [Server -> BOOLEAN]
  BY <1>1 DEF KSound, KTypeOK
<1>9. QED
  BY <1>1, <1>2, <1>3, <1>4, <1>5, <1>7, <1>8, CallKeeps DEF RecType

LEMMA HelperCrashKeeps ==
  ASSUME KSound, TypeOK', HelperCrash
  PROVE  KSound'
<1>1. /\ Fault /\ op' = [o \in Slot |-> NoOp]
      /\ doubt' = [s \in Server |-> doubt[s] \/ Busy(IfaceOf[s]) # {}]
      /\ UNCHANGED <<conf, held, kernel, guard, rec, delivered>>
  BY DEF HelperCrash, vars
<1>2. OpsType' /\ OpShape'
  BY <1>1 DEF OpsType, OpShape
<1>3. faults' \in 0..MaxFaults
  BY <1>1, FaultType DEF KSound, KTypeOK
<1>4. RecType' /\ RecShape'
  BY <1>1 DEF KSound, KTypeOK, RecType, RecShape
<1>5. ASSUME NEW t \in Server, ~doubt'[t], delivered'[t].kind # "nothing"
      PROVE  TrustedFor(t)'
  <2>1. Busy(IfaceOf[t]) = {} /\ ~doubt[t]
    BY <1>1, <1>5
  <2>2. InKernel(t)
    BY <1>1, <1>5, <2>1 DEF KSound, Trusted, TrustedFor, OnDevice
  <2>3. OnDevice(t)' = {}
    BY <1>1 DEF OnDevice, Busy
  <2>4. InKernel(t)'
    BY <1>1, <2>2 DEF InKernel
  <2>5. QED
    BY <2>3, <2>4 DEF TrustedFor
<1>6. Trusted'
  BY <1>5 DEF Trusted
<1>7. doubt' \in [Server -> BOOLEAN]
  BY <1>1
<1>8. QED
  BY <1>1, <1>2, <1>3, <1>4, <1>6, <1>7, CallKeeps DEF RecType

LEMMA HostRebootKeeps ==
  ASSUME KSound, TypeOK', HostReboot
  PROVE  KSound'
<1>1. /\ Fault /\ op' = [o \in Slot |-> NoOp] /\ kernel' = [i \in Iface |-> NoDevice]
      /\ guard' = [i \in Iface |-> FALSE] /\ doubt' = [s \in Server |-> TRUE]
      /\ UNCHANGED <<conf, held>> /\ rec' = RecIdle
  BY DEF HostReboot, ApiCrash
<1>2. OpsType' /\ OpShape'
  BY <1>1 DEF OpsType, OpShape
<1>3. faults' \in 0..MaxFaults
  BY <1>1, FaultType DEF KSound, KTypeOK
<1>4. RecType' /\ RecShape'
  BY <1>1 DEF RecType, RecShape, RecIdle
<1>5. Trusted'
  BY <1>1 DEF Trusted
<1>6. KTypeOK'
  BY <1>1, <1>2, <1>3, <1>4 DEF KSound, KTypeOK, OpsType, RecType
<1>7. QED
  BY <1>2, <1>4, <1>5, <1>6 DEF KSound

LEMMA GuardsFlushedKeeps ==
  ASSUME KSound, TypeOK', GuardsFlushed
  PROVE  KSound'
<1>1. /\ Fault /\ UNCHANGED <<conf, held, kernel, op, doubt, rec, delivered>>
      /\ guard' \in [Iface -> BOOLEAN]
  BY DEF GuardsFlushed, vars, KSound, KTypeOK
<1>2. faults' \in 0..MaxFaults
  BY <1>1, FaultType DEF KSound, KTypeOK
<1>3. KTypeOK'
  BY <1>1, <1>2 DEF KSound, KTypeOK
<1>4. RecShape' /\ OpShape'
  BY <1>1 DEF KSound, RecShape, OpShape
<1>5. Trusted'
  BY <1>1, TrustKept DEF KSound
<1>6. QED
  BY <1>3, <1>4, <1>5 DEF KSound

-----------------------------------------------------------------------------
(* The invariant, and what it says of the specification.                   *)

LEMMA KInvInit == KInit => KInv
<1> SUFFICES ASSUME KInit  PROVE KInv
  OBVIOUS
<1>1. QueueInv
  BY QueueInvInit DEF KInit
<1>2. KTypeOK
  <2>1. TypeOK
    BY <1>1 DEF QueueInv
  <2>2. faults \in 0..MaxFaults
    BY ClientAssumption DEF KInit
  <2>3. QED
    BY <2>1, <2>2, IfaceAssumption DEF KInit, KTypeOK, RecIdle
<1>3. RecShape /\ OpShape
  BY DEF KInit, RecIdle, RecShape, OpShape
<1>4. Trusted
  BY DEF KInit, Init, Nothing, Trusted
<1>5. QED
  BY <1>1, <1>2, <1>3, <1>4 DEF KInv

LEMMA KInvStep == KInv /\ [KNext]_allVars => KInv'
<1> SUFFICES ASSUME KInv, [KNext]_allVars  PROVE KInv'
  OBVIOUS
<1>1. QueueInv /\ KSound
  BY DEF KInv, KSound
<1>2. QueueInv'
  BY <1>1, StepsOfQueue, QueueInvStep
<1>3. TypeOK'
  BY <1>2 DEF QueueInv
<1>4. CASE KNext
  <2>1. ASSUME NEW h \in Handler, HandlerStep(h)  PROVE KSound'
    BY <1>1, <1>3, <2>1, HandlerStepKeeps
  <2>2. ASSUME NEW s \in Server, NEW c \in Conf, UpdateServer(s, c)  PROVE KSound'
    BY <1>1, <1>3, <2>2, UpdateServerKeeps
  <2>3. ASSUME NEW r \in Runner, RunnerStep(r)  PROVE KSound'
    BY <1>1, <1>3, <2>3, RunnerStepKeeps
  <2>4. ASSUME NEW o \in Slot, HelperStep(o)  PROVE KSound'
    BY <1>1, <1>3, <2>4, HelperStepKeeps
  <2>5. KSound'
    BY <1>1, <1>3, <1>4, <2>1, <2>2, <2>3, <2>4, ReconcileKeeps, KCrashKeeps,
       HelperCrashKeeps, HostRebootKeeps, GuardsFlushedKeeps DEF KNext
  <2>6. QED
    BY <1>2, <2>5 DEF KInv, KSound
<1>5. CASE UNCHANGED allVars
  <2>1. UNCHANGED <<delivered, op, kernel, guard, doubt, faults, rec, conf, held>>
    BY <1>5 DEF allVars, vars, kvars
  <2>2. KSound'
    BY <1>1, <1>3, <2>1, AsideKeeps DEF KSound, KTypeOK
  <2>3. QED
    BY <1>2, <2>2 DEF KInv, KSound
<1>6. QED
  BY <1>4, <1>5

\* The inductive invariant holds of every reachable state.
THEOREM KernelInvariant == KSafetySpec => []KInv
BY KInvInit, KInvStep, PTL DEF KSafetySpec

\* The variables of the queue, the helper and the worker have their types.
THEOREM KernelTypes == KSafetySpec => []KTypeOK
<1>1. KInv => KTypeOK
  BY DEF KInv
<1>2. QED
  BY <1>1, KernelInvariant, PTL

\* Quiet means applied: once nothing about a local server is on its way, the
\* kernel holds its key and exactly its active peers, and nothing of a deleted
\* one, whatever timed out, crashed or interleaved before.
THEOREM QuietIsApplied == KSafetySpec => []QuietMeansApplied
<1>1. KInv => QuietMeansApplied
  <2> SUFFICES ASSUME KInv, NEW s \in Server, Quiet(s), ~lost[s], ~doubt[s]
               PROVE  /\ Managed(s) => /\ kernel[IfaceOf[s]] # NoDevice
                                       /\ kernel[IfaceOf[s]].key = s
                                       /\ kernel[IfaceOf[s]].peers = Desired(s)
                      /\ srv[s] = "deleted" => kernel[IfaceOf[s]] = NoDevice
    BY DEF QuietMeansApplied
  <2>1. ~Stale(s)
    BY DEF KInv, QueueInv, NoLostChange, Quiet
  <2>2. OnDevice(s) = {}
    BY DEF Quiet, OnDevice
  <2>3. delivered[s].kind # "nothing" => InKernel(s)
    BY <2>2 DEF KInv, Trusted, TrustedFor
  <2>4. ASSUME Managed(s)
        PROVE  /\ kernel[IfaceOf[s]] # NoDevice
               /\ kernel[IfaceOf[s]].key = s
               /\ kernel[IfaceOf[s]].peers = Desired(s)
    <3>1. delivered[s] = Applied(Desired(s))
      BY <2>1, <2>4 DEF Stale, Want, Managed, Applied
    <3>2. delivered[s].kind = "apply" /\ delivered[s].peers = Desired(s)
      BY <3>1 DEF Applied
    <3>3. QED
      BY <2>3, <3>2 DEF InKernel
  <2>5. ASSUME srv[s] = "deleted"  PROVE kernel[IfaceOf[s]] = NoDevice
    <3>1. delivered[s] = TornDown
      BY <2>1, <2>5 DEF Stale, Want, TornDown
    <3>2. delivered[s].kind = "remove"
      BY <3>1 DEF TornDown
    <3>3. QED
      BY <2>3, <3>2 DEF InKernel
  <2>6. QED
    BY <2>4, <2>5
<1>2. QED
  BY <1>1, KernelInvariant, PTL
=============================================================================
