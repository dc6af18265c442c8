------------------------------ MODULE KernelSync ------------------------------
(***************************************************************************)
(* The queue of SyncQueue at work: the wg-helper daemon that executes its  *)
(* calls (wg-helper/internal/api/handler.go), the kernel devices and       *)
(* nftables guards it writes, the HTTP client with its timeouts            *)
(* (backend/internal/wgclient), and the reconcile worker                   *)
(* (backend/internal/worker/wg_reconcile.go), which does not go through    *)
(* the queue.                                                              *)
(*                                                                         *)
(* wg-helper serves every request on a goroutine of its own and does not   *)
(* order requests for one interface, so a request is several steps here.   *)
(* A client that times out goes on; its request does too.                  *)
(***************************************************************************)
EXTENDS SyncQueue, Naturals

CONSTANTS
    Iface,          \* interface names
    IfaceOf,        \* interface_name of a server; the table has no UNIQUE on it
    Conf,           \* listen port and CIDR of a server, as one value
    InitConf,       \* the one a server is created with
    PortOf,         \* the listen port of a configuration
    Broken,         \* local servers that can never be applied: no usable key, a bad CIDR
    Slot,           \* requests wg-helper may be executing at the same time
    Reconciler,     \* the reconcile worker, as a client of wg-helper
    Nobody,         \* the client of a request whose caller has given up
    NoDevice,       \* the kernel has no such interface
    NoOp,           \* an unused slot
    MaxFaults       \* bound: faults of the environment in one behaviour

ASSUME IfaceAssumption ==
    /\ IfaceOf \in [Server -> Iface]
    /\ InitConf \in Conf /\ PortOf \in [Conf -> Nat]
    /\ Broken \subseteq Server
ASSUME ClientAssumption ==
    /\ Reconciler \notin Runner /\ Nobody \notin Runner /\ Nobody # Reconciler
    /\ MaxFaults \in Nat

VARIABLES
    conf,     \* servers table: port and CIDR
    held,     \* the configuration a client has read but not yet sent
    op,       \* what wg-helper is executing
    kernel,   \* the WireGuard device of each interface
    guard,    \* are the DNS and IP-blocking tables of the interface in place
    rec,      \* the reconcile worker
    faults,   \* faults so far
    doubt     \* history: a cause, other than a lost change, why the kernel may
              \* differ from what the queue delivered for a server; cleared
              \* when the queue delivers again

helperVars == <<op, kernel, guard>>
kvars      == <<conf, held, op, kernel, guard, rec, faults, doubt>>
allVars    == <<vars, kvars>>

Client == Runner \cup {Reconciler}
Device == [key : Server \cup {NoServer}, conf : Conf, peers : SUBSET Peer]
Op     == [client : Client \cup {Nobody}, kind : {"apply", "remove", "enforce"},
           srv : Server, conf : Conf, peers : SUBSET Peer,
           step : {"guards", "link", "peers", "cleanup", "done"}, ok : BOOLEAN]

ASSUME NoneAssumption == NoOp \notin Op /\ NoDevice \notin Device

RecIdle == [pc |-> "idle", todo |-> {}, srv |-> NoServer, failed |-> FALSE]

KTypeOK ==
    /\ TypeOK
    /\ conf \in [Server -> Conf]
    /\ held \in [Client -> Conf]
    /\ op \in [Slot -> Op \cup {NoOp}]
    /\ kernel \in [Iface -> Device \cup {NoDevice}]
    /\ guard \in [Iface -> BOOLEAN]
    /\ rec \in [pc : {"idle", "probe", "server", "peers", "applying",
                      "guards", "enforcing"},
                todo : SUBSET Server, srv : Server \cup {NoServer},
                failed : BOOLEAN]
    /\ faults \in 0..MaxFaults
    /\ doubt \in [Server -> BOOLEAN]

KInit ==
    /\ Init
    /\ conf = [s \in Server |-> InitConf]
    /\ held = [c \in Client |-> InitConf]
    /\ op = [o \in Slot |-> NoOp]
    /\ kernel = [i \in Iface |-> NoDevice]
    /\ guard = [i \in Iface |-> FALSE]
    /\ rec = RecIdle
    /\ faults = 0
    /\ doubt = [s \in Server |-> FALSE]

-----------------------------------------------------------------------------
(* Calls to wg-helper.                                                     *)

Busy(i)  == {o \in Slot : op[o] # NoOp /\ IfaceOf[op[o].srv] = i}
OpOf(c)  == {o \in Slot : op[o] # NoOp /\ op[o].client = c}
Others(s) == {t \in Server \ {s} : IfaceOf[t] = IfaceOf[s]}

Fault == faults < MaxFaults /\ faults' = faults + 1

FreeSlots == {o \in Slot : op[o] = NoOp}

FirstStep(kind) == IF kind = "remove" THEN "link" ELSE "guards"

\* The request reaches the helper, or the socket refuses it.
Accept(c, kind, s, P) ==
    /\ FreeSlots # {}
    /\ LET o == CHOOSE f \in FreeSlots : TRUE IN
       op' = [op EXCEPT ![o] = [client |-> c, kind |-> kind, srv |-> s,
                                conf |-> held[c], peers |-> P,
                                step |-> FirstStep(kind), ok |-> TRUE]]

Send(c, kind, s, P) ==
    \/ Accept(c, kind, s, P) /\ UNCHANGED faults
    \/ Fault /\ UNCHANGED op

\* What a call for s does to the trust in the kernel's state: s itself is in
\* doubt if the helper refused the call, if another request for its interface
\* is still executing or if the call bypasses the queue; another server of that
\* interface always is.
Doubt(s, bypass) ==
    doubt' = [t \in Server |->
                 IF t = s THEN bypass \/ op' = op \/ Busy(IfaceOf[s]) # {}
                 ELSE doubt[t] \/ t \in Others(s)]

\* The client takes the answer of a finished request; it goes on without one
\* when the helper refused the call or died under it.
Collect(c, good) ==
    \/ /\ \E o \in OpOf(c) :
            /\ op[o].step = "done"
            /\ good = op[o].ok
            /\ op' = [op EXCEPT ![o] = NoOp]
       /\ UNCHANGED faults
    \/ OpOf(c) = {} /\ ~good /\ UNCHANGED <<op, faults>>
    \/ /\ Fault                   \* ResponseHeaderTimeout, while the helper works
       /\ ~good
       /\ \E o \in OpOf(c) :
            /\ op[o].step # "done"
            /\ op' = [op EXCEPT ![o].client = Nobody]

-----------------------------------------------------------------------------
(* wg-helper.  An apply installs the guards, compares the device, creates  *)
(* and configures it, and replaces its peers; a removal deletes the device *)
(* and then the guards; an enforce only installs the guards.               *)

Agrees(d, o) == d.key = o.srv /\ PortOf[d.conf] = PortOf[o.conf] /\ d.peers = o.peers

\* Mutant: a device that cannot be read counts as matching.
MatchesMissing(d, o) == d = NoDevice \/ Agrees(d, o)

\* The key, the port and the peers are compared, the address is not.
Matches(d, o) == d # NoDevice /\ Agrees(d, o)

\* The next step of request o, or the end of it: an answer kept for a client
\* that waits, nothing for one that has given up.
Advance(o, step, ok) ==
    op' = [op EXCEPT ![o] = IF step = "done" /\ op[o].client = Nobody THEN NoOp
                            ELSE [op[o] EXCEPT !.step = step, !.ok = op[o].ok /\ ok]]

InstallGuards(o) ==
    /\ op[o] # NoOp /\ op[o].step = "guards"
    /\ guard' = [guard EXCEPT ![IfaceOf[op[o].srv]] = TRUE]
    /\ Advance(o, IF op[o].kind = "apply" THEN "link" ELSE "done", TRUE)
    /\ UNCHANGED kernel

SetLink(o) ==
    /\ op[o] # NoOp /\ op[o].step = "link" /\ op[o].kind = "apply"
    /\ LET i == IfaceOf[op[o].srv]
           d == kernel[i]
       IN IF Matches(d, op[o])
          THEN Advance(o, "done", TRUE) /\ UNCHANGED kernel
          ELSE /\ kernel' = [kernel EXCEPT ![i] =
                     [key |-> op[o].srv, conf |-> op[o].conf,
                      peers |-> IF d = NoDevice THEN {} ELSE d.peers]]
               /\ Advance(o, "peers", TRUE)
    /\ UNCHANGED guard

\* Mutant: ReplacePeers is not set, so peers are only added.
AddPeers(o) ==
    /\ op[o] # NoOp /\ op[o].step = "peers"
    /\ LET i == IfaceOf[op[o].srv] IN
       IF kernel[i] = NoDevice
       THEN Advance(o, "done", FALSE) /\ UNCHANGED kernel
       ELSE /\ kernel' = [kernel EXCEPT ![i].peers = kernel[i].peers \cup op[o].peers]
            /\ Advance(o, "done", TRUE)
    /\ UNCHANGED guard

ReplacePeers(o) ==
    /\ op[o] # NoOp /\ op[o].step = "peers"
    /\ LET i == IfaceOf[op[o].srv] IN
       IF kernel[i] = NoDevice
       THEN Advance(o, "done", FALSE) /\ UNCHANGED kernel
       ELSE /\ kernel' = [kernel EXCEPT ![i].peers = op[o].peers]
            /\ Advance(o, "done", TRUE)
    /\ UNCHANGED guard

DeleteLink(o) ==
    /\ op[o] # NoOp /\ op[o].step = "link" /\ op[o].kind = "remove"
    /\ kernel' = [kernel EXCEPT ![IfaceOf[op[o].srv]] = NoDevice]
    /\ Advance(o, "cleanup", TRUE)
    /\ UNCHANGED guard

RemoveGuards(o) ==
    /\ op[o] # NoOp /\ op[o].step = "cleanup"
    /\ guard' = [guard EXCEPT ![IfaceOf[op[o].srv]] = FALSE]
    /\ Advance(o, "done", TRUE)
    /\ UNCHANGED kernel

\* A command of an apply's link step fails: the device may be there by then,
\* but without the key; without a temporary key file the peers are skipped too.
LinkFails(o) ==
    /\ op[o] # NoOp /\ op[o].step = "link" /\ op[o].kind = "apply"
    /\ LET i == IfaceOf[op[o].srv]
           unkeyed == [key |-> NoServer, conf |-> op[o].conf, peers |-> {}]
       IN /\ ~Matches(kernel[i], op[o])
          /\ \/ UNCHANGED kernel
             \/ kernel[i] = NoDevice /\ kernel' = [kernel EXCEPT ![i] = unkeyed]
    /\ \E step \in {"peers", "done"} : Advance(o, step, FALSE)
    /\ UNCHANGED guard

\* A command of another step fails: a warning is added and the request carries
\* on; an enforce whose guards fail answers with that warning.
CommandFails(o) ==
    /\ op[o] # NoOp
    /\ op[o].step \in IF op[o].kind = "apply" THEN {"guards", "peers"}
                      ELSE {"guards", "link", "cleanup"}
    /\ Advance(o, CASE op[o].step = "guards" /\ op[o].kind = "apply" -> "link"
                    [] op[o].step = "link" -> "cleanup"
                    [] OTHER -> "done", FALSE)
    /\ UNCHANGED <<kernel, guard>>

HelperStep(o) ==
    /\ \/ /\ \/ InstallGuards(o) \/ SetLink(o) \/ ReplacePeers(o)
             \/ DeleteLink(o) \/ RemoveGuards(o)
          /\ UNCHANGED <<faults, doubt>>
       \/ /\ LinkFails(o) \/ CommandFails(o)
          /\ doubt' = [doubt EXCEPT ![op[o].srv] =
                           doubt[op[o].srv] \/ op[o].step \in {"link", "peers"}]
          /\ Fault
    /\ UNCHANGED <<vars, conf, held, rec>>

-----------------------------------------------------------------------------
(* The queue's steps, with what they do to the helper.                     *)

\* UpdateServer writes the row and asks the queue for nothing.
UpdateServer(s, c) ==
    /\ srv[s] = "present"
    /\ conf' = [conf EXCEPT ![s] = c]
    /\ UNCHANGED <<vars, held, helperVars, rec, faults, doubt>>

HandlerStep(h) == (Admin(h) \/ Answer(h)) /\ UNCHANGED kvars

KReadServer(r) ==
    /\ IF runner[r].srv \in Broken THEN ReadFails(r) ELSE ReadServer(r)
    /\ held' = [held EXCEPT ![r] = conf[runner[r].srv]]
    /\ UNCHANGED <<conf, helperVars, rec, faults, doubt>>

KReadFails(r) ==
    /\ ReadFails(r)
    /\ Fault
    /\ UNCHANGED <<conf, held, helperVars, rec, doubt>>

KSendApply(r) ==
    /\ SendApply(r)
    /\ Send(r, "apply", runner[r].srv, Desired(runner[r].srv))
    /\ Doubt(runner[r].srv, FALSE)
    /\ UNCHANGED <<conf, held, kernel, guard, rec>>

KSendTruncated(r) ==
    /\ SendTruncated(r)
    /\ Accept(r, "apply", runner[r].srv, delivered'[runner[r].srv].peers)
    /\ Fault
    /\ Doubt(runner[r].srv, FALSE)
    /\ UNCHANGED <<conf, held, kernel, guard, rec>>

KSendRemove(r) ==
    /\ SendRemove(r)
    /\ Send(r, "remove", runner[r].srv, {})
    /\ Doubt(runner[r].srv, FALSE)
    /\ UNCHANGED <<conf, held, kernel, guard, rec>>

KReturn(r) ==
    /\ Return(r)
    /\ \E good \in BOOLEAN : Collect(r, good)
    /\ UNCHANGED <<conf, held, kernel, guard, rec, doubt>>

LocalStep(r) == (TakePass(r) \/ Decide(r) \/ Finish(r)) /\ UNCHANGED kvars

RunnerStep(r) ==
    \/ LocalStep(r)
    \/ runner[r].pc = "server" /\ KReadServer(r)
    \/ KReadFails(r)
    \/ KSendApply(r)
    \/ KSendTruncated(r)
    \/ KSendRemove(r)
    \/ KReturn(r)

-----------------------------------------------------------------------------
(* The reconcile worker: probe every local server, apply the missing ones  *)
(* directly, then re-install the guards of all of them.                    *)

Managed(s) == srv[s] = "present" /\ ModeOf[s] = "local"

LocalServers == {s \in Server : Managed(s)}

\* A pass begins: at once when the process starts, then on a tick.  Which of
\* the two tickers may start one depends on the last verdict, but one of them
\* always may, so the tickers are not part of the state.
StartReconcile ==
    /\ rec.pc = "idle"
    /\ rec' = [RecIdle EXCEPT !.pc = "probe", !.todo = LocalServers]
    /\ UNCHANGED <<vars, conf, held, helperVars, faults, doubt>>

\* wgclient.Stats answers for a device that exists; a failed probe counts as
\* a missing device.
Probe ==
    /\ rec.pc = "probe"
    /\ \E s \in rec.todo :
         \/ /\ kernel[IfaceOf[s]] # NoDevice
            /\ rec' = [rec EXCEPT !.todo = rec.todo \ {s}]
            /\ UNCHANGED faults
         \/ /\ \/ kernel[IfaceOf[s]] = NoDevice /\ UNCHANGED faults
               \/ Fault
            /\ rec' = [rec EXCEPT !.todo = rec.todo \ {s}, !.srv = s, !.pc = "server"]
    /\ UNCHANGED <<vars, conf, held, helperVars, doubt>>

\* syncServerToKernel again, called without the queue.
RecReadServer ==
    /\ rec.pc = "server"
    /\ LET s == rec.srv IN
       IF srv[s] = "present" /\ s \notin Broken
       THEN /\ rec' = [rec EXCEPT !.pc = "peers"]
            /\ held' = [held EXCEPT ![Reconciler] = conf[s]]
       ELSE /\ rec' = [rec EXCEPT !.pc = "probe", !.failed = TRUE]
            /\ UNCHANGED held
    /\ UNCHANGED <<vars, conf, helperVars, faults, doubt>>

RecSendApply ==
    /\ rec.pc = "peers"
    /\ \/ Send(Reconciler, "apply", rec.srv, Desired(rec.srv))
       \/ /\ \E P \in SUBSET Desired(rec.srv) :     \* the rows stopped early
               P # Desired(rec.srv) /\ Accept(Reconciler, "apply", rec.srv, P)
          /\ Fault
    /\ Doubt(rec.srv, TRUE)
    /\ rec' = [rec EXCEPT !.pc = "applying"]
    /\ UNCHANGED <<vars, conf, held, kernel, guard>>

RecApplied ==
    /\ rec.pc = "applying"
    /\ \E good \in BOOLEAN :
         /\ Collect(Reconciler, good)
         /\ rec' = [rec EXCEPT !.pc = "probe", !.failed = rec.failed \/ ~good]
    /\ UNCHANGED <<vars, conf, held, kernel, guard, doubt>>

\* Mutant: the guards are repaired for the list the probes have used up.
ProbedReusesList ==
    /\ rec.pc = "probe" /\ rec.todo = {}
    /\ rec' = IF rec.failed THEN RecIdle ELSE [rec EXCEPT !.pc = "guards"]
    /\ UNCHANGED <<vars, conf, held, helperVars, faults, doubt>>

\* All servers probed.  After an error the pass ends here; otherwise it goes
\* on to the guards of the servers that are there now.
Probed ==
    /\ rec.pc = "probe" /\ rec.todo = {}
    /\ IF rec.failed
       THEN rec' = RecIdle
       ELSE rec' = [rec EXCEPT !.pc = "guards", !.todo = LocalServers]
    /\ UNCHANGED <<vars, conf, held, helperVars, faults, doubt>>

SendEnforce ==
    /\ rec.pc = "guards"
    /\ \E s \in rec.todo :
         /\ Send(Reconciler, "enforce", s, {})
         /\ rec' = [rec EXCEPT !.todo = rec.todo \ {s}, !.pc = "enforcing"]
    /\ UNCHANGED <<vars, conf, held, kernel, guard, doubt>>

Enforced ==
    /\ rec.pc = "enforcing"
    /\ \E good \in BOOLEAN :
         /\ Collect(Reconciler, good)
         /\ rec' = [rec EXCEPT !.pc = "guards", !.failed = rec.failed \/ ~good]
    /\ UNCHANGED <<vars, conf, held, kernel, guard, doubt>>

EndReconcile ==
    /\ rec.pc = "guards" /\ rec.todo = {}
    /\ rec' = RecIdle
    /\ UNCHANGED <<vars, conf, held, helperVars, faults, doubt>>

Reconcile == StartReconcile \/ Probe \/ RecReadServer \/ RecSendApply
             \/ RecApplied \/ Probed \/ SendEnforce \/ Enforced \/ EndReconcile

-----------------------------------------------------------------------------
(* Crashes.  The API's requests outlive it inside the helper; the kernel   *)
(* outlives the helper; nothing but the database outlives the host.        *)

ApiCrash ==
    /\ Crash
    /\ rec' = RecIdle

Orphaned == [o \in Slot |-> IF op[o] = NoOp \/ op[o].step = "done" THEN NoOp
                            ELSE [op[o] EXCEPT !.client = Nobody]]

KCrash ==
    /\ Fault
    /\ ApiCrash
    /\ op' = Orphaned
    /\ UNCHANGED <<conf, held, kernel, guard, doubt>>

HelperCrash ==
    /\ Fault
    /\ op' = [o \in Slot |-> NoOp]
    /\ doubt' = [s \in Server |-> doubt[s] \/ Busy(IfaceOf[s]) # {}]
    /\ UNCHANGED <<vars, conf, held, kernel, guard, rec>>

HostReboot ==
    /\ Fault
    /\ ApiCrash
    /\ op' = [o \in Slot |-> NoOp]
    /\ kernel' = [i \in Iface |-> NoDevice]
    /\ guard' = [i \in Iface |-> FALSE]
    /\ doubt' = [s \in Server |-> TRUE]
    /\ UNCHANGED <<conf, held>>

\* nft flush, ufw reload: the guards go, the device stays.
GuardsFlushed ==
    /\ Fault
    /\ \E i \in Iface : guard[i] /\ guard' = [guard EXCEPT ![i] = FALSE]
    /\ UNCHANGED <<vars, conf, held, op, kernel, rec, doubt>>

KNext ==
    \/ \E h \in Handler : HandlerStep(h)
    \/ \E s \in Server, c \in Conf : UpdateServer(s, c)
    \/ \E r \in Runner : RunnerStep(r)
    \/ \E o \in Slot : HelperStep(o)
    \/ Reconcile
    \/ KCrash \/ HelperCrash \/ HostReboot \/ GuardsFlushed

\* Goroutines are scheduled, the worker's tickers keep firing, a client's call
\* ends by its timeout and a request the helper has accepted runs to its end.
\* Healing needs nothing of the handlers.
KFairness ==
    /\ WF_allVars(Reconcile)
    /\ \A o \in Slot : WF_allVars(HelperStep(o))
    /\ \A r \in Runner : WF_allVars(RunnerStep(r))

KSafetySpec == KInit /\ [][KNext]_allVars
KSpec       == KSafetySpec /\ KFairness

-----------------------------------------------------------------------------
(* Properties.                                                             *)

\* Nothing about s is on its way: no handler, no pass, no request.
Quiet(s) == ~Owed(s) /\ Working(s) = {} /\ Busy(IfaceOf[s]) = {}

\* When nothing about a local server is on its way, its device has the
\* server's key and exactly its active peers, and a deleted server's device is
\* gone -- unless a change was lost or one of the causes `doubt' names came
\* between: a request that overlapped another of the same interface, a call
\* that was refused or whose command on the device failed, a crash of the
\* helper or of the host, an apply of the reconcile worker, or another server
\* of the same interface.  A call that times out, or whose caller dies, is
\* none of them: wg-helper finishes it.
QuietMeansApplied ==
    \A s \in Server : Quiet(s) /\ ~lost[s] /\ ~doubt[s] =>
        /\ Managed(s) => /\ kernel[IfaceOf[s]] # NoDevice
                         /\ kernel[IfaceOf[s]].key = s
                         /\ kernel[IfaceOf[s]].peers = Desired(s)
        /\ srv[s] = "deleted" => kernel[IfaceOf[s]] = NoDevice

HostServers == {s \in Server : ModeOf[s] = "local"}

\* "The tunnel self-heals": the interface of a local server that can be
\* applied comes back after whatever took it away.
SelfHeals ==
    \A s \in HostServers \ Broken :
        Managed(s) ~> kernel[IfaceOf[s]] # NoDevice \/ ~Managed(s)

\* "Re-apply unconditionally": the guards of a server that can be applied are
\* re-installed after whatever took them away.
GuardsHeal ==
    \A s \in HostServers \ Broken :
        Managed(s) /\ ~guard[IfaceOf[s]] ~> guard[IfaceOf[s]] \/ ~Managed(s)

\* "A delete racing a slow apply can never leave the interface up": the
\* comment on the queue, as it is stated.
DeleteLeavesNoDevice ==
    \A s \in Server : Quiet(s) /\ ~lost[s] /\ srv[s] = "deleted" =>
        kernel[IfaceOf[s]] = NoDevice \/ kernel[IfaceOf[s]].key # s

\* "The API pushes on server/peer create/edit/delete": the comment on the
\* worker, for an edit.
EditReachesKernel ==
    \A s \in Server : Quiet(s) /\ ~lost[s] /\ ~doubt[s] /\ Managed(s) =>
        kernel[IfaceOf[s]] # NoDevice /\ kernel[IfaceOf[s]].conf = conf[s]
=============================================================================
