# A TLA+ development of wireguard-console

wireguard-console is a web console for WireGuard servers. A Go API process keeps servers, users
and peers in PostgreSQL and asks `wg-helper`, a root daemon on the same host (or the agent loop of
the same binary on a remote node), to make the kernel match; a single-page console in the browser
drives it all. This directory holds TLA+ modules
translated from that code, the TLC configurations that check them on small instances, and proofs
checked by TLAPS. Paths below are relative to `src/`.

## Parts of the system

| part | state | operations | talks to | hard because | correct when |
|---|---|---|---|---|---|
| kernel-sync queue (`backend/internal/api/wgsync.go`) | in-memory map of jobs, one goroutine per busy server | `requestServerSync`, `requestPeerServerSync`, `requestServerRemoval`, `runServerSync` | called by handlers after their commit; reads the rows; calls wg-helper | requests arrive during a pass; reads, lookups and calls fail; the map dies with the process | one runner per server; the newest rows are what is told last; teardown is terminal |
| reconcile worker (`backend/internal/worker/wg_reconcile.go`) | verdict of the last pass | probe, direct apply, guard repair | wg-helper, the rows; *not* the queue | overlaps the queue's calls on the same interface | missing interfaces and guards come back |
| wg-helper (`wg-helper/internal/api/handler.go`, `dns_enforce.go`, `ip_block.go`) | none of its own; the kernel's devices and nftables | `/apply`, `/remove`, `/enforce`, `/stats` | called over a unix socket with a timeout | unordered concurrent requests; commands that half succeed | an apply leaves the device as asked |
| node agent (`wg-helper/internal/api/agent.go`, `nodes.go`) | interfaces of the last poll | poll, apply, remove stale, report | the console's node endpoints | restarts forget what to remove; partial answers | a node runs what is assigned to it and nothing else |
| admin login and sessions (`store.go`, `mfa_*.go`, `session.go`) | `admin_sessions`: pending and full rows | password step, factor step, enrolment, revocation | WebAuthn challenges, lockout | revocation races a login in progress | no session outlives the revocation that should have ended it; one pending row gives at most one session |
| step-up and factors (`admin_security.go`, `mfa_policy.go`, `auth/webauthn`) | stamps, challenges, credentials, recovery codes | begin, finish, consume, remove | sessions | check-then-act on the last factor; one-shot tokens | an admin keeps a factor; a token is good once |
| login lockout (`login_lockout.go`, `store.go`) | counters per IP and account | fail, reset, expire | login | lost updates | at most the configured number of tries per window |
| admin directory (`servers.go:532-945`) | `admins` | invite, update, disable, reset | sessions | check-then-act on the last super admin | an active super admin remains |
| peer provisioning (`peers.go`, `claim.go`, `users.go`, `peeraccess.go`) | `users`, `peers`, `invites`, access tokens | create, claim, suspend, resume, delete | sync queue, email queue | multi-statement handlers, retries, address allocation | one peer per request; an address per peer; an invite is used once |
| email queue (`email/queue.go`, `worker/mail.go`) | `jobs` | enqueue, lock, send, complete, fail | SMTP | crash between send and commit | every mail goes out or is recorded as failed |
| domain and IP rules (`domain_rules.go`, `ip_rules.go`, `adguard`) | rule rows, sync flags | edit, expand, push, verify | AdGuard Home, wg-helper | coalesced requests, a second writer | the newest rules are enforced |
| traffic accounting (`worker/traffic.go`, `rollup.go`, `ipblock.go`, `browse.go`) | baselines, samples, cursors | sample, roll up, purge | wg-helper, AdGuard | counter resets, restarts | nothing is counted twice |
| sign-in pages (`frontend/src/routes/login.tsx`, `mfa-verify.tsx`, `mfa-setup.tsx`, `lib/mfaClient.ts`, `lib/webauthn.ts`, `_authenticated.tsx`) | React state per tab, the cookies of the browser | password, factors, enrolment, passwordless, restart, lockout overlay | the login handlers | tabs share cookies, handlers end late, a restart overtakes them | an enrolment step at a time; the page can always go on |
| console pages (`frontend/src/routes/_authenticated/*.tsx`) | forms, dialogs, the query cache | per page: lists, forms, row actions, refetches | every handler | pages left while requests run, answers after their form, refetch races, polling | lists settle on what the server has; a form sends once; a request carries what its form shows |
| step-up dialog (`lib/ConfirmMFA.tsx`, `lib/stepup.ts`) | the action it asks for, a passkey ceremony | probe, code, passkey, close | gated pages, `admin_security.go` | a probe or ceremony ends while the dialog is about something else | it sends what it named, and one proof is one action |
| settings (`config.tsx`, `EmailTemplatesSection.tsx`) | drafts per tab | save, test | settings handlers | several forms over one row, drafts overwritten by refetches | typed text stays |
| the rest: backup tools, update, metrics, crypto, installers | little or none | I/O | | | not modelled, see the end |

PROJECT.json lists the same parts with the files they live in, and every hazard with its line.

## Plan

The order is by how much depends on a part and how hard it is to test.

1. `SyncQueue`, `DesiredState`, `SyncQueueRefinement`, `KernelSync` with the proofs: **done**.
2. `AddressPool`, `PeerProvisioning`: create with `request_id`, claim, address allocation, status
   changes in several statements, with the proofs: **done**.
3. `LoginServer`, `LoginPages`, `SignIn`: the login handlers statement by statement under the pages
   of several tabs, with revocation, and the proofs: **done**.
4. `ConsolePage`, `StepUp`, the page modules and `Console`: lists and requests of a page, the
   step-up gate, then page by page, and the proofs about the gate: **done**.
5. `NodeAgent`: polls, partial answers, agent restarts. The hazard at `agent.go:25` is its reason.
6. `RuleSync`: the pass that writes rules to AdGuard, with its coalescing and a second writer.
7. `AdminDirectory` with two acting administrators, for the last super admin; `EmailQueue`,
   `Traffic`.

Worth proving next: that `Console` implements a smaller specification of the gate (a proof, then
one action), which is now a matter of two invariants; and whatever steps 5 to 7 bring.

## Modules

* `SyncQueue` - the queue, the handlers that feed it and the rows they change.
* `DesiredState` - what the queue promises, with no queue in it.
* `SyncQueueRefinement` - `DesiredState` instantiated with what the rows ask for (`Want`) and what
  the queue told wg-helper (`delivered`).
* `KernelSync` - `SyncQueue` with wg-helper, the kernel, the HTTP client and the reconcile worker.
* `AddressPool` - the choice of a peer's and of the gateway's address, as pure functions.
* `PeerProvisioning` - users, invites and peers, and the handlers over them.
* `LoginServer` - the login handlers, an SQL statement a step. `LoginPages` extends it with the
  sign-in pages in the tabs of one browser, `SignIn` composes them and states the properties.
* `ConsolePage` - lists, the query cache and requests: what all pages are made of. `StepUp` extends
  it with the gate. On it rest `GatedPages` (admins, servers, nodes, backups), `ProfilePage`,
  `DirectoryPages` (users, departments, peers), `RulesPages` (domain and IP rules) and
  `SettingsPages`, each with its pages and the handlers behind them. `Console` composes them.
* `SyncQueueProofs` (with those of the refinement), `KernelSyncProofs`, `PeerProvisioningProofs` (with
  those of `AddressPool`), `SignInProofs` - the theorems about one model each. Those about `Console`
  are in four modules: `ConsoleProofs` (the gate), `ConsoleSendProofs` (what pages send),
  `ConsoleListProofs` (what pages show) and `ConsoleTypeProofs`.
* `MCSyncQueue`, `MCKernelSync`, `MCPeerProvisioning`, `MCSignIn`, `MCConsole` - the constants of
  the runs.

### How `SyncQueue` corresponds to the code

`srv` and `peer` are the rows. `srv` goes `new`, `present`, `deleted` and never back, because ids
are fresh uuids. A peer is its public key, which is unique in the table. The commit of a handler is
one step and leaves in `call[h]` what the handler still has to ask of the queue. It is taken in
later steps, so anything may happen in between, including a crash that forgets it. A handler that
finds nothing to do (404, validation) changes nothing and is not a step. `DeleteServer` is enabled
for a row that is already gone, because the existence check precedes the transaction.

`queued` and `job` are `serverSyncJobs` with its three flags. `runner` is the goroutines: a program
counter each, and the points between its steps are exactly the points where the code holds no lock
or waits for the database or the helper. `TakePass` and `Decide` are the two critical sections,
`ReadServer` and `SendApply` the two queries of `syncServerToKernel`; the second one and the call
are one step because nothing the runner reads lies between them. Every query may fail (`ReadFails`,
`LookupFails`), and the peers query may stop early unnoticed (`SendTruncated`).

`delivered` and `lost` are history: what the queue last told wg-helper about a server, and that a
change was dropped by an error or a crash with nothing left to retry it. `lost` is set only by the
actions of failures, so `NoLostChange` says that failures are the only way to forget a change. The
handlers also call `RequestDomainRuleSync`, whose state is no part of these modules.

### How `KernelSync` corresponds to the code

A request inside wg-helper is a slot of `op` and goes through the steps of `applyState`,
`removeInterface` or `handleEnforce`; requests interleave, since the daemon has no lock per
interface. The client (`Accept`, `Collect`) waits for the answer, or gives up after its timeout
while the request goes on as nobody's. `SetLink` skips a device that `Matches`, as `deviceMatches`
does: key, port and peers, not the address. `LinkFails` leaves a device without a key. `rec` is the
reconcile worker. The tickers are not part of the state: whichever verdict the last pass left, one
of the two tickers may start the next. `EnsureLocalDNSEnforcement` and `EnsureLocalIPBlocking` are
two loops of calls over the same servers; the model makes one call per server for both.

`doubt` is history as well. It names the causes, apart from lost changes, why a kernel may differ
from what the queue delivered: a call that is refused, a device command that fails, calls that
overlap on an interface, an apply that bypasses the queue, a reboot or helper crash, another server
with the same interface name. It is set at the step that is the cause, not when somebody learns of
it: the API may die between a refusal and its answer. `QuietMeansApplied` says there is no other
cause; a call that succeeds with nothing else going on clears the doubt.

### How `PeerProvisioning` corresponds to the code

One server. `user`, `invite` and `peer` are the three tables, `call` the requests in progress with
what they have read. A statement outside a transaction is a step of its own, so `CreatePeer` is
`Replay`, `Pick`, `Insert`, perhaps `Reread`, and `Link`; `ClaimUser` is `Find`, `Activate`,
`Accept`, then `Pick` and `Insert` as in a create; `DeleteUser` is its three statements. A retry is
a second call with the same request id, while the first is running or after it ended. `Fail` ends a
handler between two steps: a statement that fails, a process that dies, a client that gives up, an
invite that has expired. What was committed stays.

`UniqueViolation` is the two indexes of the table: the address per server, and the partial index on
the request id of migration 027. Only a create with a request id looks for the winner's row
afterwards (`Reread`). `Pick` may see a part of the used addresses only, because the loop does not
check `rows.Err`; the index makes up for it.

Users are named by their row. `CreateUser` inserts a missing row in the step of its lookup: of two
concurrent ones the unique index on the email lets one through. Emails are counted only for creates
with a request id, the others have nobody to promise anything to. Left out: access links sent again,
profile fields, and the kernel sync each handler requests. A create takes an `allowed_ip` from its
caller if there is one; the console's form sends none, and the model always asks the allocator, so
the statements about addresses are about peers created from the console and by claims.

`removal` is history: `going` while a `DeleteUser` has met no other call about its user, `sealed`
once it ended so, `no` after any act of an admin on the user or its peers. A late claim or resend
does not reset it, so `RemovalIsFinal` says they come to nothing. It excepts overlaps on purpose: a
claim that found its invite pending before the deletion activates the removed user again.

### How `SignIn` corresponds to the code

One administrator account. A login attempt is a number `i`: `pending[i]` is its row of
`admin_sessions` while it is pending (`verify`, `enroll`) and how that ended afterwards, `live` the
logins whose full session row exists. `call[h]` is a request: `op` names the route, `step` the
statement the handler is at, `arg` what was typed. Each statement is a step: `PasswordCheck`,
`PasswordAccept`, `CreatePending`; `Resolve` and the check of the factor; `ReadRecovery` and
`RemoveRecovery`; then for every factor `FinishLogin`, which deletes the pending row, and `Mint`,
which inserts the session. `CountFailure` and `DropPending` are the two statements of a wrong
factor. The administrative side is `DisableAdmin` followed by `RevokeSessions` (two statements of
`UpdateAdmin`, with `RevokeRows` as their common part) and `ResetMFA`. `HandlerFails` ends a
handler at any statement.

Whether a typed code is right, and whether a failure is the one that locks the address, is chosen.
`minted`, `spent`, `cut` and `late` are history: sessions per login, logins per recovery code, the
logins that a revocation found, and those of them whose session row was still to be inserted.

`tab[t]` is the React state of the page in tab `t`, `pendingCookie`, `sessionCookie`, `keyCookie`
the cookies all tabs share: a request carries the cookies of the moment it is sent, and its answer
sets them on the browser (`SetCookies`) even when nobody on a page listens any more. Every
navigation of these pages is a full page load, so `Leave` starts the next page from its initial
state. The enabled buttons are the operators `May...`; the answers are functions from the state of
the page to the next (`VerifyStateAnswered`, `CompleteAnswered`, ...), with each handler's final
`setBusy(null)` in them, because that is what makes the pages interesting.

### How `Console` corresponds to the code

A behaviour is about one page, which may be left and entered again. `truth` is what the server has,
`view` the query cache, `fetch[k]` the request that reads list `k`; a mutation that succeeds reads
lists anew (`Refreshed` is `invalidateQueries`, which drops a fetch in flight unless it is the very
first). `calls` are the mutations in flight: `here` says that the page that sent it is still
mounted, `latest` that the mutation was not sent or reset again since. `ui` is the React state of
the page: an open form, its row, its draft and a result that is shown.

The page modules have two kinds of actions: what the user can do, guarded by what the page shows
(`On`, `Seen`, `Pending` are the conditions of its buttons), and what a handler does to the rows
(`Carry`) or why it does not (`Decline`). The first are named after the functions of the page where
they have one, the second after the handlers of the API. What a page does with an answer is a
function from its state (`AdminSucceeded`, `UserSucceeded`, ...). `Forget` is `mutation.reset()`.

A request outlives its page. What was in flight when the page was left still commits and still has
its lists read anew, but no component hears of it. The same goes for an action held by a passkey
ceremony: `runAction` sends it when the ceremony ends, on whatever page the user is by then, and the
page that is entered again has a mutation of its own (`SendUnfollowed`).

The gate: `Gate` is `gateMFA`, which tries without a code first when the grace window is known to
be on; the server answers `mfa` and the dialog opens. `SubmitCode` and the ceremony
(`UsePasskey`, `StampSession`, `RunHeldAction`) send the action; `CheckProof` is `verifyActorMFA`,
whose passkey branch redeems the stamp of the session in one statement. `Strict` are the actions
the window does not cover. `RedirectToLogin` is what `apiFetch` makes of every 401.

Rows carry what the properties tell apart: a status, a name that is old or new, a role. A
department of a user is a flag, a peer of a rule's user goes by the user's name, a group counts the
rules that use it. `doubt` is history: the lists the page has an excuse for showing wrongly, because
somebody else changed them or a fetch failed since.

## What the runs check

| run | instance | shows |
|---|---|---|
| `sync_queue` | 1 server, 2 peers of one user, 2 handlers, 2 runners | `TypeOK`; `OneRunnerPerServer`; `NoLostChange`; `TeardownIsTerminal`; `KeepsThePromise`, the refinement of `DesiredState` with its liveness |
| `kernel_sync_safety` | 1 server, 1 peer, 1 handler, 1 runner, 2 helper requests, 1 fault | `KTypeOK`, `QuietMeansApplied` |
| `kernel_sync_healing` | 1 local and 1 remote server with one interface name, no peers, 1 fault | `SelfHeals`, `GuardsHeal` |
| `kernel_sync_delete` | 1 server, no fault | **violated**: `DeleteLeavesNoDevice`, wgsync.go:138-140 |
| `kernel_sync_edit` | 1 server, 2 configurations, no fault | **violated**: `EditReachesKernel`, wg_reconcile.go:18-19 |
| `kernel_sync_broken` | 2 local servers, one that can never be applied, 1 fault | **violated**: `GuardsHeal`, wg_reconcile.go:106-108 |
| `peer_provisioning` | 1 user, 2 invites, 1 request id, 2 handlers, 2 host addresses | `PTypeOK`, `RequestOnce`, `AnswersAgree`, `AddressesFit`, `RemovalIsFinal` |
| `peer_invite` | the same with 1 invite | **violated**: `InviteOnce`, claim.go:61 |
| `peer_network` | the same in a network of three addresses | **violated**: `AddressesFit`, peers.go:59 |
| `sign_in` | 2 tabs, 2 requests, 2 logins, 2 attempts, 1 recovery code, policies any and both, 14 journeys | `STypeOK`, `OneSessionPerLogin`, `RecoveryCodeOnce`, `AbandonedStaysOut`, `RevokedStaysOut`, `OneEnrolStepAtATime` |
| `setup_methods` | the same | **violated**: `SetupCanProceed`, mfa-setup.tsx:161-163 |
| `console` | 2 rows, 2 requests, 1 ceremony, every page, 42 plans | `CTypeOK`, `SettledListIsTrue`, `ConfirmedActsAsNamed`, `OneProofOneAction`, `BusyDialogIsFreed`, `OneSaveAtATime`, `FormKeepsItsRow`, `OnePeerPerSession`, `RuleNamesItsOwn`, `TypedTextStays`, `PolledListConverges` |

The six violated properties are sentences of the code's own comments; PROJECT.json quotes them and
tells the counterexamples.

Bounds. Servers do not share queue state (the map is keyed by server), so one server is enough for
the queue, and the theorems below hold for any number of them. Two handlers and a spare runner let
a second request, a removal and a forbidden second goroutine occur during a pass. `Slot` bounds the
requests inside the helper at two, which is what it takes for two to overlap. `MaxFaults` bounds
refused or timed-out calls, failing commands, failing reads, crashes, reboots and flushes in one
behaviour. One is enough for each cause of doubt and for each thing that must heal afterwards; what
two of them do together is the theorem's business (`QuietIsApplied` holds for every bound). In
`SyncQueue` alone failures and crashes are unbounded.

In `PeerProvisioning` the rows of different users meet only in the addresses, for which one user's
peers do as well; two handlers are a race, and the second one's slot is free again for a third call
once it ended, so a create may be retried any number of times. `Octet` is five instead of 256, which
gives two host addresses (2 and 3): enough for the second peer to fill the network and the third to
be refused. `Row` is one more than that, so it never limits the table. Two invites let a resend
overlap a claim. The theorems below need none of these bounds.

In `SignIn` two tabs and two requests are what it takes to prove two factors for one login, or to
answer for a login another tab replaced; two logins let a second password step replace the first,
and two attempts are a first failure and the one that drops the row. A journey names the requests
and page visits one behaviour may use and how many requests it sends in all (up to six, the length
of an enrolment with both factors); together they contain every request the pages send, and the
ones that race each other are in one journey. Tabs and requests are interchangeable, so both are
symmetry sets; the run has no temporal property.

In `Console` a list has the administrator's own row and another; two requests in flight are a race
between any two mutations of a page. A plan names the page, the mutations a behaviour may use, how
many of them it sends (one to three), how many mishaps it meets (failed fetches, refused or lost
requests, changes by others, leaving the page; at most two), and the status of the other row at the
start. Every mutation of every page is in a plan, and mutations that share a form, a dialog or a
list are in one plan. `MaxStamps` is one: two actions that may both use it suffice to redeem it
twice. The theorems below need none of these bounds.

Deadlock checking is off in `sign_in`, `setup_methods` and `console`, where a behaviour stops when
its journey or plan is used up; in the others an administrator can always act.

Fairness. In `SyncQueue`: a handler that has committed runs to its end, a goroutine is scheduled,
and a helper call returns because its client has a timeout. In `KernelSync`: the same for runners,
for wg-helper's goroutines once a request is accepted, and for the reconcile worker, whose tickers
keep firing. No fairness is assumed of administrators, crashes or failures, and `SelfHeals` and
`GuardsHeal` need none of the handlers either. `PeerProvisioning` and `SignIn` state safety only. `Console` assumes that a list request is answered
and that the interval of a polled list keeps firing while its page is shown (`refetchInterval`),
which `PolledListConverges` needs; nothing is assumed of the user, of mutations or of others.

### What some of the console's properties say

* `SettledListIsTrue`: when nothing is in flight, a list shows what the server has, unless `doubt`
  excuses it. The profile page is excepted where it does not read anew what it changed (`Unread`:
  new recovery codes, and the sessions that a change of factors or password ended).
* `ConfirmedActsAsNamed`: excepted is the form of a server, which `saveMutation` reads when it is
  sent; Escape closes that form under a busy dialog, so an edit may go out as a create.
* `OneSaveAtATime`: excepted are the mutations that are reset while they run (users, departments,
  rules), whose buttons are enabled again although the first request is still out, and the inline
  email editor of the admins page: its Save button waits, its Enter key does not (`admins.tsx:419`).
* `FormKeepsItsRow`: the other side of those resets. The success of a request that was forgotten
  finds another row's form open, or none; it may close it as a whole, but a form that stays open
  stays about its row. The inline email editor is no form of this kind: it moves from row to row.
* `TypedTextStays`: as long as the templates tab is there. Leaving it discards what was typed.

## What is proved

About the queue, for every value of the constants that satisfies the named assumptions (`OwnerAssumption`,
`ModeAssumption`, `ServerAssumption`):

* `SyncQueueProofs!TypeCorrect`, `SafetySpec => []TypeOK`;
* `SyncQueueProofs!QueueInvariant`, the inductive invariant `QueueInv`;
* `SyncQueueProofs!NothingForgotten`, `SafetySpec => []NoLostChange`;
* `SyncQueueProofs!SingleRunner`, `SafetySpec => []OneRunnerPerServer`;
* `SyncQueueProofs!TornDownStays`, `SafetySpec => TeardownIsTerminal`;
* `SyncQueueProofs!ImplementsPromise`, `SafetySpec => Promise!SafetySpec`: each action
  maps to an action of `DesiredState` or a stutter (`QueueKnowsItsServers` supplies the invariant
  that the servers named by handlers, jobs and runners have had a row).

None of the properties is inductive alone. `QueueInv` adds: a key is in the map exactly while a
runner works for it, and its job says so (`JobMap`, `HasRunner`, `OneRunner`); what the rows and the
job must be at each point of a runner (`RunnerShape`, for instance that a runner about to tear down
has a job marked for removal); a peer's row names an existing server (`PeerRows`); a deleted server
that was not torn down yet has a removal owed or queued (`Removals`); and once the teardown went out
the server's row is gone and no pass is between its two reads (`TornDownForGood`). `NoLostChange`
needs `RunnerShape`: a request that only sets `dirty` relies on the runner to look at it again in
`Decide`. `TeardownIsTerminal` needs the row to be gone, because a straggler that re-creates the job
gets a pass whose first read then finds nothing.

Each action has a lemma; under it one step per conjunct it can disturb. `QueueInvariant` combines
them.

About the queue with wg-helper, the kernel and the reconcile worker, from the same assumptions and
`IfaceAssumption`, `ClientAssumption` and `NoneAssumption`, for any numbers of servers, requests and
faults:

* `KernelSyncProofs!QueueImplemented`, `KSafetySpec => SafetySpec`: with a helper that refuses, fails
  and crashes the queue is still the queue of `SyncQueue`, so all the theorems above hold of it;
* `KernelTypes` (`KTypeOK`) and `QuietIsApplied` (`QuietMeansApplied`), from the inductive invariant
  `KInv`. `QuietMeansApplied` says nothing while a request executes, so it cannot be inductive.
  `Trusted` follows a delivery: without a doubt about a server there is at most one request on its
  device, that one is the last delivery and has done to the device what its step says, and when
  there is none the kernel holds the delivery. `RecShape` and `OpShape` say which requests can be at
  which step. The bound on faults plays no part in the argument.

About the peers, from `OctetAssumption`, `AddressAssumption`, `NetAssumption` and `IdAssumption`:

* `PeerProvisioningProofs!FirstFree`: the scan returns the lowest candidate no row uses, or fails because
  all are in use; `WholeBlockFits`: in a network that starts at a zero byte and spans a whole byte,
  what it returns is inside and is not the base, the gateway or the last address of its block. They
  rest on the existence of a least element, taken from the well-foundedness of `<` on `Nat`.
* `PeerProvisioningProofs!PTypeCorrect`, `OneTryCounts` (`RequestOnce`), `AnswersAreTrue`
  (`AnswersAgree`), all from `RowInvariant`, the inductive invariant `RowInv`. It adds the shape of
  a handler's record (`CallShape`), the two unique indexes (`UniqueRows`), and for the email: a
  handler about to send one is the only one for its request id, the id has a row, and nothing was
  sent (`LinkOwed`); what was sent once has a row (`MailedOnce`). That makes the second insert fail
  and the second email impossible.
* `AddressesStayInside`: `AddressesFit` for every network that starts at a zero byte and spans a
  whole byte, the condition whose absence `peer_network` shows.
* `RemovedStays`: `RemovalIsFinal`, from `RowInv` and `RemovalInv`: an undisturbed removal is the
  only call about its user and holds what its statements did so far (`Undisturbed`); after it, calls
  about the user are at a lookup that will find nothing (`Sealed`).

`RowInv` is preserved because all steps but `Insert` and `Link` leave what identifies a row alone
(`StepKeepsRowInv`), `RemovalInv` because a handler's step concerns its own user (`OwnUserOnly`).

About signing in, from `LoginAssumption` and `JourneyAssumption`, for any numbers of tabs, requests,
logins, attempts and codes: `SignInProofs!TypesHold` (`STypeOK`), `LoginWorthOneSession`
(`OneSessionPerLogin`), `AbandonedNeverIn` (`AbandonedStaysOut`), `RevokedNeverIn`
(`RevokedStaysOut`), `CodeOpensOnce` (`RecoveryCodeOnce`) and `EnrolsOneStepAtATime`
(`OneEnrolStepAtATime`). The inductive invariant `IInv` adds to
the types: what a handler holds at the steps that use it (`Held`); a login that anything refers to
has begun, and handlers at work have one (`Numbered`); a request about to mint is the only one for
its login, whose row is finished and which has no session yet (`MintedOnce`), which is why the
deletion of the pending row decides; what was begun before a revocation is dropped, finished and
gone, or late (`CutOff`); and a recovery code that is still stored opened nothing (`Unspent`). TLC
checked `IInv` on the run's instance before it was proved. Handlers that change no row are covered
by one lemma (`QuietKeeps`), those that drop rows by another (`DropKeeps`), and the steps of the
pages by the fact that they leave the server alone but for a new request. One enrolment step at a
time is about the pages and has an invariant of its own, `TabsInv`: a tab only hears answers to what
its page asks, and a setup page is busy while the passkey dialog is open or an enrolment request of
its is out, which is the only one and never beside the dialog.

About the console, for every set of rows, slots and plans; only the types need assumptions
(`PlanAssumption`: a plan's bounds are numbers and its status is one that rows have;
`StampAssumption`):

* The gate: `ConsoleProofs!StampProvesOnce` (`OneProofOneAction`) and `DialogSendsItsAction`
  (`ConfirmedActsAsNamed`), both from `GateInvariant`. The first is not inductive alone: a stamp that
  is still there must be one that was not redeemed, so `StampInv` says that redeemed actions are
  fewer than ceremonies while there is one. For the second `CallInv` says of each slot that it is
  empty or holds a whole request which, if it came out of the dialog, is the action the dialog named.
  Everything a page does is `Harmless` to both: it leaves the stamp alone and alters no request but
  its stage and whether it is followed. That is shown for the dozen operators the pages are written
  with, then page by page; what remains are the steps of the dialog, the proof, and the removal of a
  passkey, which clears the stamp.
* What pages send: `ConsoleSendProofs!BusyDialogWaits` (`BusyDialogIsFreed`), `OneSave`
  (`OneSaveAtATime`), `RulesAreTheirOwn` (`RuleNamesItsOwn`) and `OneSessionOnePeer`
  (`OnePeerPerSession`). Each step of a page is one of five kinds (`PageStep`), so the pages are gone
  through once. `WaitInv` says what the dialog waits for: its one request or its ceremony, never
  both, and nothing when it is not busy. `RivalInv` adds to `OneSaveAtATime` what is not sent yet: the
  actions that the dialog and a ceremony hold rival no request either. `FineInv` says of
  everything sent or held that its argument is one its form may make, and `FormInv` that the form of
  a rule is always such. `SessionInv` ties the rows, requests and form of the peers page together: what
  belongs to one session, rows and creates, carries one id, so does a form that can send again, and
  an id has one row.
* What pages show: `ConsoleListProofs!SettledListsAreTrue` (`SettledListIsTrue`) and
  `TemplatesKeepTheirText` (`TypedTextStays`, an action property). `ListInv` says that a list nobody
  has an excuse for is the server's or will be read: a fetch was not served yet, brings what the
  server has, or a request was carried out whose answer reads the list anew (`Fresh`). A step is one
  of four kinds (`ListStep`). For the settings the list of a form must be known: `ShapeInv` says that
  settings keep their names, `ActsInv` that a request carries all of the row it saves.
* The row a form is about: `ConsoleListProofs!FormsKeepTheirRow` (`FormKeepsItsRow`, an action
  property). `RowInv` says that the users' form has a row only while it edits one, and the rules'
  only in the group dialog, so that a form which opens or clears itself has none to lose.
* `ConsoleTypeProofs!ConsoleTypes` (`CTypeOK`), from `TypeInv` on top of these: in particular no
  handler gives a row a status no page knows, and no request is at a stage that nothing answers.

Only model-checked: liveness (`KeepsThePromise` beyond its safety part, `SelfHeals`, `GuardsHeal`,
`PolledListConverges`), because fairness and ENABLED are out of the prover's reach. Every invariant
and action property of a passing run is a theorem, but `AddressesFit`, which `AddressesStayInside`
states under the condition on the network that the run's instance satisfies.

## Met while modelling

Behaviour that differs from what a reader of the code would expect and that no run singles out.
The models have it; most are also listed as hazards.

* `api.ts:158` treats every 401 as an expired session. A wrong step-up code and a wrong current
  password are answered 401, so a typing error signs the administrator out.
* Two concurrent removals may take an account's last two factors (`mfa_passkey.go:430-431` looks
  before the proof, the deletion comes after it).
* The lockout and the invite-expiry form each save the whole row they share
  (`config.tsx:1024-1031, 1204-1211`): the later one takes back what the other just saved.
* `EmailTemplatesSection.tsx:90-92` says that switching to the SMTP tab does not discard typing; the
  tab is unmounted, so it does.
* `admins.tsx:223` sends the role of the row as shown with every change of status.
* Enter in the inline email editor sends a second change while the first is still out
  (`admins.tsx:419-421`); only its Save button waits (line 430).
* `UpdateUser` (`users.go:301`) writes field by field: it may fail after the name was changed.
* A passwordless sign-in does not ask the MFA policy (`mfa_passwordless.go:93`).
* The lockout overlay stays at 0:00 when the server still reports a lock (`login.tsx:226`).
* A passkey action of a page that was left is sent all the same when its ceremony ends, and a page
  that is entered again meanwhile does not know of it (`runAction`, `ConfirmMFA.tsx:117`, goes on).
* New recovery codes are stored before the enrolment completes; if that fails nobody has seen them.
* The dialog with new recovery codes on the profile page closes on Escape without the
  acknowledgement its button needs, and regenerating them does not refresh the status.

## What is not modelled

* The node agent, the rule pass to AdGuard, the email queue, traffic and activity accounting: the
  plan has not reached them. Their hazards are listed in PROJECT.json.
* In the parts modelled: the traffic rules, NAT and firewall commands of an apply, the content of
  the guard tables, key material, `last_handshake_at`, audit entries. Managed mode is fixed per
  server; `DeleteNode` turns `remote` into `manual`, which the queue treats alike.
* Of the login: the account lock and the lockout's counters (whether an address is locked is
  chosen), the purge of old rows, CSRF tokens, the list of sessions (the profile page has it).
* Of the WebAuthn library and the challenge table: a challenge is held by a tab and redeemed once;
  the size of the table is left out. The statement that clears an admin's challenges after a login
  may fail (`finishMFALogin` ignores its error), but is one step with the one that finishes the row.
* Of the console: filters, search, sorting, clipboard, charts and layout; validations of single
  values, which are `Refuse`; the mail password, which is never read back; the update page. The
  guard for the last super admin needs two acting administrators, and the console has one.
  Dashboard, activity and audit pages show queries and change nothing.
* Backup tools, self-update, metrics: external programs and `/proc`. Installers and scripts: outside
  the server process. Cryptography: success or failure of a call.
