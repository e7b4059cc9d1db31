# TermKeep in TLA+

TermKeep is a terminal password manager. Its server keeps end-to-end encrypted
items it cannot read; its clients keep a complete encrypted cache, work
offline, and synchronize. After a login the unlocked vault key of a terminal
lives in a small agent process behind a Unix socket.

These modules model the parts of it where interleaving, failure and order
decide whether a saved item survives, who may do what, and where a key is left:
the synchronization transaction of the server, the cache and the synchronization
of the devices, the accounts of an instance, the interface a user sits at, and
the logins, agents and clipboard of a terminal. TLC checks them on small
instances; TLAPS proves for every value of the constants the invariants of the
synchronization transaction, of the devices composed with it, of the accounts, the
agent and the terminal, and two of the interface.

    tlc -workers 2 -config server.cfg MCVaultServer      # one run
    tlapm VaultServerProofs.tla                          # the proofs of a module

Contents: [inventory](#inventory), [modules](#modules),
[runs](#runs-bounds-and-fairness), [proofs](#proofs), [findings](#findings),
[what is left out](#abstractions-and-what-is-left-out), [plan](#plan).

## Inventory

Paths are below `src/`. "Hard" says which behaviour is difficult to test.

How the parts interact. `termkeep login` authenticates to the server, authorizes
the cache file, and launches an agent for the terminal, handing it the vault key
and the access token over a pipe. The interface, and every command, asks the
agent over its socket to encrypt, decrypt, or give the token; reads and writes
the cache file under its lock; and sends the queue of the cache to the server
over HTTPS. The devices of an account meet only in the tables of the server.
Terminals of one device share the cache file and nothing else.

### Synchronization store: `internal/server/db.go`, `item.go`, `migrations/0007`-`0009`

State, per account: `vault_revisions` (immutable, a graph by parent UUIDs;
the envelope becomes NULL when scrubbed), `vault_item_heads`, `vault_items`
(a projection of items with one head), `vault_mutations` (the ledger that makes
retries harmless), `vault_changes` and `vault_sync_state` (the change log and
its cursor). One operation, `DBStore.Sync`, a serializable transaction: prune
changes older than 30 days, give every item that has been in the trash for 30
days a tombstone, apply up to 100 mutations, and answer with the changes after
the client's cursor, or with a snapshot if some of them are gone.

Hard: concurrent heads and merges in any order; tombstones racing edits;
retries of batches whose answer was lost; rollback of a half-applied batch;
commits out of the order of their times; the gap test behind every cursor;
pages ending inside the log.

Correct when: the heads are the leaves of the graph; content disappears through
a tombstone only, and through every tombstone; no current version lacks its
content; a client that follows its cursor misses nothing; purged items stay
purged; the automatic purge, which every synchronization begins with, can never
be refused.

### Encrypted cache and synchronization client: `internal/client/cache.go`, `sync.go`

State: one file per account and device, under a file lock: cached revisions,
the queue of unsent mutations, the cursor. Operations: `QueueMutation`,
`PendingMutations`, `ItemHeads` and `TrashHeads`, `ApplySyncResult`,
restoring and importing. `SyncCache` snapshots the cache, sends cursor and
queue, and applies the answer.

Hard: the cache changes between snapshot and answer; two terminals, or a poll
and a save, synchronize the same cache at once; answers arrive out of order or
not at all, while the server may still execute the request; a snapshot replaces
a graph with unsent children; tombstones scrub rivals.

Correct when: no saved change is lost; the queue can be replayed and drains;
what is pending stays visible; a synchronized cache is the server's current
state, scrubbed where the server is.

### Terminal interface: `internal/tui/tui.go`

State: the records last listed (items and, apart, the trash), folders and
filters, positions in the lists, forms, dialogs, confirmations, a flag that a
save or a synchronization runs, a polling timer. One goroutine takes keys and
messages; every command it starts runs beside it and answers with a message.
It lists, saves, edits, moves, trashes, restores, purges, merges and resolves,
removes folders with what is in them, imports, checks passwords for breaches,
and synchronizes every 30 seconds and after a save.

Hard: it acts on a list that is older than the cache; a selection is a position
in a list that changes; a confirmation waits for its second key while lists are
replaced; several commands answer in any order, some from a dialog that was
left; a save of several records fails half-way.

Correct when: no keystroke on a stale list destroys or revives what another
device did; what is confirmed is what is done; nothing is created twice; a
folder goes after what was in it; what is displayed belongs together.

### Session agent: `internal/session/agent.go`, `auto_lock.go`

State: the key and token bytes, a listener and its socket file, the inactivity
timer, a `closed` flag, `closeOnce`. Four goroutines may close it: the timer's,
the monitor of the owning shell, the signal handler, and the main one, which
also serves the connections. Hard: `Close` shares no lock with the handler; a
request may restart a timer that is being stopped; a logout closes the agent it
is served by; the shell's PID may be reused; the key and the token are in memory
more than once, and the copies are cleared at different times. Correct when: the
session ends once, no copy outlives it, and it does end.

### Logins, launcher and scope: `client/login.go`, `client/status.go`, `internal/session/launcher.go`, `scope.go`, `cmd/termkeep/main.go`

State: a login's progress, the child process and the pipe its secrets are
passed through; the path of the socket, one for a terminal and its shell; the
cache files that earlier logins authorized. A login looks for an agent, asks
for the password, proves it to the server or, in an outage, to the cache,
launches an agent, and opens the interface, which asks whatever agent is at the path.

Hard: the agent becomes ready just as the launcher gives up; two logins of one
terminal overlap; a killed agent leaves its socket behind; an agent that closes
unlinks the path of its successor; the server may change between a login's
attempt and the observation that lets it fall back.

Correct when: a login that failed leaves no agent with a key; one that
succeeded has an agent of its own account; a session without a token was earned
by the password of an authorized cache, in an outage and not by a refusal of the
server alone. That a TLS failure never permits it, as `README.md:470` has it, does
[not hold](#findings).

### Clipboard: `internal/clipboard/clipboard.go`

State: the clipboard, which every program may write, and one cleanup per copy.
Hard: compare and clear are two commands; cleanups of several copies meet.
Correct when: a copied secret stays due to be cleared until it is.

### Accounts: `internal/server/auth.go`, `session.go`, `opaque.go`, `invite.go`, `account.go`, `login_limiter.go`, `audit.go`

State: accounts, invitations, access tokens (hashed), audit events, in tables;
pending OPAQUE exchanges and the login limiter's counters, in memory.
Operations: bootstrap, invite, revoke an invitation, register, log in (two
messages), authorize, list and revoke sessions, page through the activity.

Hard: two registrations of one invitation or a revocation during one, two
bootstraps, a revocation between the look-up and the use of a token, a limiter
that is read and charged apart, events recorded apart from their effect, pages
of a log that grows and is pruned meanwhile, a restart between two messages.

Correct when: one bootstrap wins; an invitation admits one account; a revoked
session is rejected from then on; failures are limited even in bursts; the
audit is true and pages completely.

### Smaller parts

* Portable backup (`client/backup.go`): replaces a synchronized cache
  or queues the difference, and marks the cache so that no backup is restored twice.
* Import and export, password generator, TOTP, search: functions of their input.
* Cryptography (`client/vault.go`, `item.go`), HTTP wiring, the rest of the
  command line, schema migrations, the legacy item endpoints.

## Modules

| module | models | uses |
|---|---|---|
| `RevisionGraph` | what the vault promises about an item's history, abstractly | |
| `VaultServer` | `DBStore.Sync`, statement group by statement group | `RevisionGraph` (refined) |
| `VaultSync` | caches, devices, users, requests, the network | `VaultServer` (composed) |
| `SessionAgent` | one agent: connections, timer, monitor, `Close` | |
| `Accounts` | the server's accounts, invitations, logins, sessions and audit | |
| `Interface` | the keys, dialogs and commands of the interface | |
| `Terminal` | logins, logouts, agents, the socket path and the clipboard of a terminal | |
| `MCVaultServer`, `MCVaultSync`, `MCAccounts`, `MCInterface`, `MCTerminal` | symmetry and scenarios for TLC | the module of that name |
| `VaultServerProofs` | the inductive invariant of the server, and its theorems | `VaultServer` |
| `VaultServerRefinement` | the server implements `RevisionGraph` | `VaultServerProofs` |
| `VaultSyncProofs` | the devices and the network: what travels, queues, revivals | `VaultSync`, `VaultServerProofs` |
| `VaultSyncSerial` | a device that waits for one answer at a time misses nothing | `VaultSyncProofs` |
| `SessionAgentProofs` | the inductive invariant of the agent, and its theorems | `SessionAgent` |
| `AccountsProofs` | the inductive invariants of the rows, the limiter, the audit and its pages, and their theorems | `Accounts` |
| `InterfaceProofs` | the inductive invariants of warnings and checks, of selections, and of what saves and synchronizations do behind the lists | `Interface` |
| `TerminalProofs` | the inductive invariant of the terminal, and its theorems | `Terminal` |

A definition named `X_Y` is `X` with a plausible mistake. Nothing of the model
refers to it; each property has one that breaks it.

### VaultServer

`db` is the committed tables, `work` the tables as the open transaction sees
them, `tx` the time the open transaction read (a set, empty when none is open),
`now` the clock. Transactions are serializable (PostgreSQL,
`sql.LevelSerializable`), so one is open at a time; but the clock is read before
the transaction is granted, so `Begin(at)` takes any time up to `now`.

| action | code (`internal/server/db.go`) |
|---|---|
| `Begin` | opening the transaction and pruning `vault_changes` |
| `ExpireTrash(h, id)` | one item of `purgeExpiredVaultItems` |
| `AppendRevision(m)`, `Retry(m)` | `applyVaultMutation`: accepted, or known already |
| `Fail` | any error: the deferred rollback |
| `Commit(cursor)` | the answer, of which `Answer` is the content, and the commit |

`Accepts` is the chain of checks that answers 409; `Accept` is every write that
follows them, split by table (`NextHeads`, `Scrubbed`, `NextChanges`,
`NextItems`, `Extended`). Envelopes are opaque: `content` is the set of
revisions whose envelope is not NULL. A mutation's UUID is its revision's and
its base is one less than its revision number (`validMutations` insists), so
mutation and revision are one record.

### VaultSync

`cache[d]` is the cache file of a device, `view[d]` and `trash[d]` the lists its
interface shows, which `List` and `Trash` refresh at any time and on which
every keystroke acts. A `Worker` is one call of `SyncCache`: `Send` takes the
snapshot, `Receive` opens the server's transaction (at a time read at most
`scenario.lag` ticks before), `ServeExpiry`,
`ServeMutation`, `Abort` and `Reply` are the server at work on it, `Apply` is
`ApplySyncResult`, `GiveUp` the timeout or the broken connection. A request
given up may be executed later (`ReceiveLate`) or never. `Merged` is the loop
of `ApplySyncResult` over the changes of the answer; the order in which a
snapshot lists the heads of an item is that of random UUIDs, so it is chosen.

### SessionAgent

The steps of `Close` are its statements, because the handler runs between them
without a lock. `Read` is `handle` up to where it has a reference to the key or
the token, `Reply` the rest: if the bytes were cleared in between, the answer
is spoiled. A client is one connection, of a kind: the seven vault requests
differ in nothing the model tells apart, so they are `"vault"`. A `"stalled"`
one sends nothing, a `"foreign"` one has another UID. An `Interface` is a client that comes back
at every tick, as an open interface does. One tick is its polling period, so
the timeouts of 1 to 60 minutes are 2 to 120 ticks; off is 0.

A secret is in memory up to three times. `key` and `token` are the agent's copies,
which `Close` clears first. `revoking` is the token's copy that `Close` keeps until
the server has answered, or two seconds. `material` is what `RunAgentProcess` read
from the pipe: deferred calls clear it when `Serve` and `Close` have returned
(`Return`, `ClearMaterial`, `Exit`). So the socket goes before the last of them, and
`NoSocketNoSecrets` is a liveness property: once the socket is gone, they follow,
even if the server does not answer the revocation or a client says nothing.
Clearing is a best effort in the code, as it says: the bytes that decoding a
request or encoding a reply leaves behind are the runtime's, and not modelled.

### Accounts

The tables are `accounts`, `invites`, `tokens`, `events`; what a restart forgets
is `pending` (`AuthService.pending`) and `attempts` (`LoginLimiter.attempts`).
An invitation or a session is known by its position in its table. A client of
`Client` works off the list `todo` of operations it was given (`Workloads`), and
`req[c]` says how far the handler that serves it has come: one action is one
critical section or one database statement, so handlers interleave everywhere
between. Locks are stages: bootstrap's advisory lock is held at `"locked"`, the
row of an invitation at `"invited"`.

| action | code (`internal/server`) |
|---|---|
| `BootstrapStart`, `BootstrapLock`, `CreateBootstrap` | `startBootstrap`, `CreateBootstrap` up to and after its question |
| `RegisterStart`, `RegisterFinish`, `LockInvite`, `CreateInvitedAccount` | `startRegistration`, `finishRegistration`, and its transaction |
| `LoginStart`, `BeginLogin`, `FinishLogin`, `IssueAccessToken` | reading the limiter, charging it, `completeLogin`, the token |
| `ReportLoginFailure`, `AbandonLogin` | a wrong password, or a client that goes away |
| `Call`, `FindAccessToken`, `TouchAccessToken` | any authenticated request, up to its handler |
| `RevokeSession`, `CreateInvite`, `RevokeInvite`, `ListActivity` | what the handler then does |
| `RecordEvent` | `recordAudit`: after the effect, in a transaction of its own, pruning first |
| `Crash` | a restart: memory is lost, requests are broken off |

`RevokedIsRejected` needs to know when a request was sent: `req[c].live`
records whether its session was live then. `burst` counts logins admitted since
the clock moved. `UUIDs` gives event identifiers an order that is not the order
in which they are drawn, since pages are cut by time and then by identifier.

### Interface

`ui` is the `model` of the interface as far as dialogs and lists go: `show` is
the set of screens that are open, and `Focus` says which of them gets the keys.
`Key...` are the branches of the key handler, `Deliver` is the message handler.
A command occupies a slot of `jobs` until its message is delivered, so messages
come in any order; `Load`, `SaveOne`, `SavedAll` and `SyncItems` are what
commands do meanwhile. `Shown` is `setRecords`: selections are positions, and
only brought back into range. `revs` is the cache; `QueueMutation` refuses what
the cache refuses, and a save stops there. `SyncAndList` may bring one revision
of another device (`Theirs`), or fail.

`asked` is not in the code: it remembers what the last warning was about, and
what a folder's removal was to move, so that the properties can compare it
with what happens. `InOrder` and `Only` are the lists of the module, sorted and
filtered; they are written by positions, so that the proofs can say what is at one.

### Terminal

A `Command` is a `termkeep login` or a `termkeep logout` of one terminal;
`at[c]` is how far `runLogin` and `Launch` have come, and `agent[c]` the phase
of the child it starts, whose life `SessionAgent` has in detail. `path` is the
one socket file: `ListenUnix` fails while it is there, a crash leaves it there,
and `CloseListener` and `Unlink` remove whatever is there. `server` changes at
any time: `LoginFails` is the online attempt, `met` how the server was then, `outage`
whether it was down then or since, `LoginOffline`
and `LoginRefused` what follows when `CheckStatus` looks a second time. The
commands that enrol an account (`Enrol`) authorize its cache.

An interface remembers the login whose token it `bears` and the one whose vault
it `shows`. `board` is the clipboard, `cleanups` the goroutines of `Copy`,
`abandoned` the secrets whose cleanup failed or ended with its process.

## Runs, bounds and fairness

| run | instance | shows |
|---|---|---|
| `server` | 4 revisions, 1 item, times 0-1 | ten invariants of the tables, and that they implement `RevisionGraph` |
| `sync_safety` | 2 devices, 4 revisions, 4 scenarios | no change lost or hidden, caches become replicas, nothing purged comes back |
| `sync_drains` | 2 devices, 3 revisions, 1 failure, fairness | every queue drains, despite a lost message |
| `session` | 2 connections, timeouts off and 2 | the races for `Close`; what must end ends |
| `accounts` | 3 clients of 2 origins, 7 workloads, 1 restart | races of bootstraps, registrations, revocations and logins; audit and paging |
| `interface` | 11 errands, 2 commands at a time | dialogs, lists and commands in any order |
| `terminal` | 3 commands, 3 errands | what logins report, and copied secrets |
| `sync_wedged`, `sync_overlap`, `sync_scrub`, `session_autolock`, `interface_removal` | | violations, see [findings](#findings) |

Each property is stated in the comment before its definition.

### Bounds

* `RevId`, with 4 revisions of one item: a root, two rivals, and a merge,
  tombstone or third rival. Every rule of `applyVaultMutation` concerns one
  item, its heads and one new revision; what items share is the change log, in
  which revisions of one item stand for those of another, except in
  scrubbing, for which the proofs cover any number of items. With 4 revisions
  and pages of 2 an answer takes several pages and a gap may lie before, inside
  and after a page.
* `MaxTime = 1` with retentions of 0 and 1 tick: expired and not yet expired,
  pruned and not yet pruned, and a transaction of each age.
* `MaxRevision` is 2^63 - 1 in the code and never reached there; in the runs it
  bounds the chains at the number of UUIDs.
* Two devices are needed for a conflict; a third adds rivals of the same
  kind. `Overlapping` gives one of them two workers, the least that can overlap.
* A member of `Scenarios` says which device each worker serves, what its user
  does, which UUIDs there are and how far the clock runs, so that one run
  explores several subjects to the end: `Reconciles` (one device makes and trashes what
  the other edits and resolves, behind pruned history), `Discards` (permanent deletion
  by hand and by age, against edits and restoring) and `Trims` (overlapping requests of
  one cache that makes and purges, while a second device reads along), and `Delays` (as the
  first, with transactions that read the clock before they were granted). In the other
  scenarios of the composition a transaction begins with the present time; `server` has
  every delay.
* `MaxFailures = 1` in `sync_drains`, where a failure is a lost request, a lost
  answer, a late request or a database error. Safety under overlap is checked
  without failures, since an overlapping worker repeats what a retry does.
* `MaxBatch` is 2 where a queue over the limit should be met, and 100 otherwise;
  `sync_drains` keeps it at 100, because a queue over the limit never drains. Its users
  edit and purge nothing, because a purge may never drain either (`sync_wedged`).
* `accounts`: three clients are two that race and an administrator. Logins are
  delayed from the 3rd failure (5th in the code), by 1 and then 2 ticks, so
  `Guesses`, three and two logins from one origin, exceeds the free failures while two
  requests are under way. An
  invitation, a started login and the audit live for 1 tick of 2; pages hold 2
  events of the more than 4 that `Paging` makes. One restart, at any moment.
* `interface`: an errand bounds the keys of its subject, the revisions, failures
  and what another device does (one revision). Two slots are two of the user's
  commands at a time, besides two synchronizations of the interface's own. Every dialog is
  the subject of some errand, with lists, saves and messages arriving under it. One has
  an item that is no login, which may take a login's place under its password history.
* `terminal`: three commands are two logins and a logout, and the agents are as
  many as the logins. Accounts are equal in one errand and different in the
  other; the third copies twice from one interface, so that cleanups meet.
* Deadlock is not checked where UUIDs run out, an interface may be left, or
  commands and sessions end; it is in `accounts`, where `Finished` says that the
  lists are worked off, so that no client waits for a lock for ever.

### Fairness

* `sync_drains`: weak fairness of the server's transaction steps, that is, the
  server answers what it has begun. Strong fairness of each worker's next step
  (send, be received, be refused, apply), since polling repeats every 30 s; strong and
  not weak because the open transaction of another worker disables it meanwhile.
  No fairness of users, of losses, of time or of late requests.
* `session`: weak fairness of each goroutine (a connection's handling, which
  has a deadline; the monitors; `Close` step by step; the main loop), of time,
  and of an open interface's polling. None of new clients, signals, or the exit of the shell.
* `Accounts`, `Interface` and `Terminal` state none: their properties are safety.
  A user may leave any dialog, and any command may be interrupted or killed, so
  nothing there is bound to happen.

## Proofs

Every theorem holds for any sets of revisions, items, devices and clients, finite or
not, and any page size, retention and timeout, with the exceptions named below.

**Server** (`VaultServerProofs`), from `RetentionAssumption` only (retentions,
page size and bounds are natural, the page and the trash retention not 0).
The invariant is `Inv`: types, and `Good(db) /\ Good(work)`. `Good` is
what one table needs to know of the others: that heads stay leaves takes
parents being accepted earlier (`GraphIsOrdered`); that a tombstone covers all
that came before takes every earlier revision having a head descendant, which is
why cursors must be distinct and dense; that content is never lost without a
tombstone takes both. The
central lemmas `Accept...` each prove one conjunct of `Good` for the tables
after `Accept`; `AcceptGood` collects them; `Prune` and the automatic purge
reduce to them. `ExpiryStaysPossible` is proved on its own: the revision that
`purgeExpiredVaultItems` makes is always one `applyVaultMutation` accepts.
`AnswersStayComplete` is about the test that decides between a page and a snapshot
(`HasGap`), which only counts the changes kept above the client's cursor. That counting
is enough, though transactions commit out of the order of their times and pruning
leaves holes: the cursors of the accepted revisions are 1, 2, ... without a hole
or a repetition, so a full count is the whole interval; and a page takes them from
below, so it ends before the first change it leaves out.

**Refinement** (`VaultServerRefinement`): `ServerKeepsRevisionGraph`, the
committed tables implement `RevisionGraph`. A whole transaction is one abstract
step, so `RefinementInv` adds that `work` has grown from `db` as `Grown` says;
`GrownAccept` shows that each mutation keeps it so, and `ContentForgotten` that
what a transaction forgot, one of its tombstones doomed.

**Devices** (`VaultSyncProofs`), from the server's assumption and `WorkerAssumption`
(the workers of a scenario serve devices, and its bounds are within the others). A
stack of four invariants, each proved from those before it:

* `BaseInv` is about what travels: the types; the server's `Inv`, because every step of
  the composition is a step of the server or leaves it alone
  (`DevicesDriveTheServer`); one open transaction, grown from the committed tables
  (`OneTransaction`); nothing queued, sent, served or given up that no device made
  (`OnlyIssuedTravels`); one revision for each UUID (`IdsAreSpent`); and no reply that
  claims what is not committed (`RepliesAreTrue`).
* `QueueInv` joins the four properties of the queues. What makes them inductive is
  `AskedInOrder`: a request or a reply covers its cache's queue from the front. Without
  it an answer could take a parent's child out of the queue and leave the parent; with
  it what `Apply` takes out is a prefix of the queue (`OrderStep`), also when answers of
  several synchronizations of one cache arrive in any order (`AskedStep`).
* `RevivalInv`, for `NoSilentRevival`: a screen shows only what was made or accepted
  (`ShownIsKnown`), and the trash lists no item without a version that can be restored
  (`TrashCanBeRestored`), so an edit or a restoration on top of a tombstone has a
  second parent; and a UUID that a revision descends from is never drawn later for a
  tombstone (`ParentsAreKnown`).
* `SerialInv` (`VaultSyncSerial`) is for the two properties that say a cursor may be
  trusted: `SerialCacheHoldsEveryHead`, and `SyncedCacheIsReplica`, which follows from
  it and from `HeadsAreCurrent` (nothing the cache takes for a head was superseded
  before its cursor). They need that a reply under way still fits the cache it was
  asked for: it carries all heads, or all changes since the cursor the cache *still*
  has (`AsksFromCursor`, `ReplyIsComplete`, `ReplyIsCurrent`); that is where waiting for
  one answer at a time is used, and `sync_overlap` shows it fail otherwise. A request
  given up and executed late is why `AsksAll` speaks of everything the server may
  still accept: a queued revision is never both accepted before the cursor and sent
  again (`QueueIsAhead`).

`HoldsEveryHead` excuses a head that something queued supersedes, a child of it or a
purge of its item: the user has already replaced it on this device, and a merge of the
answer drops it from the cache as `ApplySyncResult` does. It asks for live heads only,
since tombstones make the caches forget the deleted ones. `SyncedCacheIsReplica` leaves
out items that were ever purged, see [findings](#findings).

**Agent** (`SessionAgentProofs`), from `AutoLockAssumption`. `ExitsClean` is
not inductive: `IInv` records for each stage of `Close` what is already
cleared, that only `finished` permits the process to end, that the main
goroutine handles nothing while it closes, and that after an answered
logout it is either closing or deaf. `SessionNothingAfterLogout` is the action
property from the last of these. That what the process was launched with is gone
when it ends is part of `Serving`; that it does go, and soon, is liveness.

**Terminal** (`TerminalProofs`), from `TerminalAssumption` (`Nobody` is no command,
`Logout` no account, and what others copy no secret), for any number of commands,
accounts and secrets. `SessionsAreEarned` joins `FailureLeavesNoKey`,
`SuccessIsItsOwn` and `OfflineOnlyInOutage`. The first is about every process between
its start and its end: one that is closing still has what it was launched with, so a
launch that fails must have killed it (`KilledEnds`). They are not inductive: `IInv` adds
that a command has no agent before it starts one (`EarlyHasNone`), that a logout
gets no further than its first step (`LogoutIsShort`), that a look at the server
which finds it down is recorded as made in an outage (`CheckedInOutage`), and that
from its falling back on, a login without a token has the right password, an
authorized cache and an outage behind it (`OfflineEarned`). `CopiedIsDue` is proved
from the types alone: its own step is inductive, because a cleanup that ends takes
with it either the secret on the clipboard or its claim.

**Accounts** (`AccountsProofs`), from `AccountsAssumption` (finitely many clients, which
the count of `BurstIsBounded` needs; delays, the first delayed failure and the reset
are positive, as the constants of `login_limiter.go` are) and `WorkloadsAssumption`
(a workload is a list of operations for each client), for any workloads and life times. `RegistrationInv` and `RevokedIsRejected` are statements
about a handler that looked something up before others moved, so `IInv` says what it
may take for granted at each of its stages: nobody makes an account under the lock
of bootstrap (`LockExcludes`), because an invitation or a token takes an account
(`AccountsComeFirst`); the row a registration holds is still as it saw it
(`RowsAreHeld`); an account carries an operation that is over, so a new one has an
identifier of its own (`IdsAreSpent`); a request sent in vain meets a revoked row,
and one past its lookup was not sent in vain (`CallsAreLive`). `ClientStep` proves
once what a step keeps that makes no account and changes no invitation; most actions
follow from it.

`BurstIsBounded` is not inductive, because the limiter is charged by an action after the
one that read it. `BurstInv` says for each account and origin (`Charged`): what was
admitted since the clock moved is among the failures charged now; while they are fewer
than the delayed ones, no more was admitted than charged; from then on nobody else
passes, so what was admitted and those who have passed and are still to be charged
(`Waiting`) stay below the bound together. Every start moves one client into `Waiting`,
every charge moves it out, and a success or a restart clears the count.

`AuditIsTrue` is about events that are recorded one by one, in transactions of their
own, after their effects. `AuditInv` therefore says the same of the logs still due at
the clients as of the events recorded: each has happened (`DueHappened`), and no two
of them, recorded or due, tell of one effect. `StepGrows` proves that no effect is ever
undone, `...Tells` that each operation logs only what was not true before it
(`NewsKeepsAudit`), and `RecordKeepsAudit` that recording moves one event from due to
recorded. A restart loses what is due, which makes the audit incomplete but not untrue.

`PagesMissNothing` is about a walk through pages of events that are recorded meanwhile,
whose identifiers have an order of their own. `PagingInv` says that no two rows have an
identifier in common, that what a walk has seen comes before its cursor and an open walk
may still ask for the same, and of each event that was there when the walk began: it was
seen, or it comes after the cursor. A page keeps that because it is the first of what
comes after the cursor (`NewestFirst`, described by its order), so what it leaves
out comes after its last row, which is the next cursor.

**Interface** (`InterfaceProofs`), from `InterfaceAssumption` (finitely many items and
command slots, the items numbers) and `ErrandsAssumption` (the cache that an errand begins
with holds typed revisions, numbered without a gap, each with parents of its own item and one
root for an item, as `QueueMutation` and `ApplySyncResult` leave it).

Nearly every branch of the handlers is calm: it starts no breach
check, leaves what the last warning was about, and either leaves the generator's
password and check as they are or closes it or forgets the check (`CalmStep`, one lemma
for each group of keys). What is left (`StepIsCalm`) are the key that warns and then
purges, the keys that start a check, and the answer of one. `PurgesAreConfirmed` needs
that a new trash list or another choice withdraws the warning, which is `CalmTrash`.
`BreachResultsAreCurrent` needs `AnswersAreCurrent`: a check under way with the
generator's number asks about its password. It is kept because a new check takes a number
that no check under way has; that one is free follows from counting the slots
(`FreshCheck`).

The other three theorems are about lists and revisions. `StepsAre` reduces every step to
one of five: a key, which at most starts a save (`Handled`); the removal of a folder
(`Removes`); a revision stored (`Stored`); an answer found, perhaps with a revision of
another device (`Brought`, `Answer`); an answer shown. `DataInv` is their invariant:

* `Held`: every list under way and on display is typed, and each selection is in range
  of what its filter lets through (`Standing`), which is `SelectionsAlwaysStand`. A key
  that changes a filter goes back to the first entry, and `Shown` and `TrashShown` bring the
  positions back into range; `FiltersPick` says what a filter leaves of a list.
* `IdsInv`: what a save still carries has numbers of its own (`Numbered`), all others
  are `Born`; a number is one revision's, and a revision's parents are of its item
  (`Known`); what is listed, or asked about, was in the cache once (`Seen`, `Asked`).
* `MovesFirst`: for each version that a removal listed and the cache still has, a
  successor is in the cache, or it is ahead of the folder in the save. This is
  `RemovalsMoveItemsFirst` with the save in the middle. A purge may take the successor out of
  the cache, but then it takes the version too, because by `Known` they are of one item.
* `OneRootPerItem` is inductive as it stands, since `QueueMutation` refuses a second root and
  what another device creates has a new identifier.

Only model-checked: liveness (`QueueDrains`, `NoSocketNoSecrets`, `OwnerGoneLocks`,
`EveryoneIsAnswered`, `IdleSessionLocks`), for which the provers have no rule. Every other property of a passing
run is stated by a theorem.

Nothing is proved about recursion; the modules use none of their own.

## Findings

Each is a run that TLC must find violated.

* **`sync_wedged`**: an item with two deleted heads cannot be purged from the
  interface. `purgeItem` makes the tombstone a child of the one version on
  display, the server refuses it, the batch rolls back, and so does every
  batch of that device from then on. Two deleted heads need no second device:
  pressing `d` twice before the list is refreshed makes them.
* **`sync_overlap`**: `ApplySyncResult` applies answers of any age. An older
  snapshot applied between two newer answers loses a head for good, since the
  cursor is past it afterwards.
* **`sync_scrub`**: resolving a conflict in favour of a tombstone scrubs the
  rival on the server; another synchronized device keeps the rival's envelope.
* **`session_autolock`**: an open online interface lists its items every 30
  seconds, which touches the inactivity timer, so an unattended terminal with
  at least one item never locks.

* **`interface_removal`**: a synchronization that answers between the two `d`s
  of a folder's removal replaces the folders, and leaves the confirmation
  standing for whatever folder has taken the position.

One more disagreement has no run of its own:

* Whether a login may fall back is judged by `CheckStatus` alone, which looks again
  after the attempt; why the attempt failed is not asked (`client/login.go:190`). A
  server that cannot prove who it is at the attempt, and is down at the check, is
  fallen back from. `README.md:470` says "A TLS validation failure never permits
  offline fallback"; the comment at `client/login.go:170` promises it of the check only, and
  that is what `OfflineOnlyInOutage` states. `TLSFailureNeverFallsBack` in
  `Terminal` is the guide's sentence. It fails in the instance of `terminal`, after
  `LoginFails` at `"tls error"`, `Change("down")` and `LoginOffline`.

Seen while modelling:

* More than 100 unsent mutations are answered with 400 (`item.go:161`); the
  client never splits its queue, so it synchronizes no more. `RefuseBatch` is
  that answer; with a small `MaxBatch` `QueueDrains` is violated.
* With permanent deletion and pruned history, `SyncedCacheIsReplica` fails without its
  exception for items once purged: a snapshot that lists a deleted rival before the
  tombstone of its item makes the client drop the rival, a head of the server. Without
  its condition that a device waits for one answer at a time it fails as
  `sync_overlap` does.
* `NoAnswerSpoiled` of `SessionAgent` fails: `Close` clears the key and the
  token without a lock while the handler uses them. The answer is spoiled, not
  a secret disclosed, and no document claims otherwise.
* The form of a one-time code stays open after its save and until the list
  arrives; saved twice, the second revision is a rival of the first and
  the item is in conflict with itself.
* The `move` dialog remembers a position among the folders; a synchronization
  that removes one lets it point past the end (`tui.go:2776`).
* The confirmation to clear a password history is not tied to the item it was
  asked for.
* An import that failed half-way cannot be retried: `QueueMutation` refuses the
  items that were made. `itemSaving` is one flag, lifted by the answer of any save.
* The socket of an agent killed outright makes every later launch of that
  shell fail (`agent.go:91`), and the second unlink of `Close` can remove the
  socket of a successor, whose agent then lives unreachable (`agent.go:356`).
* When a launch fails after an online login, the token stays live on the server.
* The clipboard is compared and then cleared: what the user copies between is
  lost; and an interface left within 30 seconds leaves the secret there.

## Abstractions and what is left out

* Envelopes, names and digests are not modelled: a retry with another content
  under the same UUID is a different record.
* In `VaultSync` the message that carries a list to the interface is not
  modelled: `List` shows the cache at some moment, and any older list may be on
  screen, but two lists do not overtake each other. `Interface` has the messages,
  over a cache that is one set of revisions.
* The legacy `PUT` and `GET /api/v1/items` write outside the revision graph and
  no client calls them; they are left out.
* In `VaultSync` only the server moves while its transaction is open. Its steps
  touch nothing that a client sees, so no behaviour of the clients is lost.
* Requests that exceed the body limit, malformed requests and unauthorized ones
  are refused before any state is read, as `RefuseBatch` is.
* In `SessionAgent` there is one agent and its socket never outlives it; several
  agents of one path are in `Terminal`, where what an agent does between its
  phases is not.
* An error of `accept` other than a closed listener makes `Serve` return and the
  deferred `Close` run. What anyone sees of it is what they see of a signal that
  comes while nobody connects, so it has no action of its own.
* In `Accounts` OPAQUE is a library and stands for its outcome: a client with
  the password, or without it. Invitation tokens reach their receivers outside the
  system.
* In `Interface`, what is typed is settled when it is entered; texts are
  numbers. Revealing and copying, the screens of sessions, activity and export, and
  rendering are left out.

Not modelled:

* Restoring a portable backup, the batch import of the command line and the
  migration of old cache files: sequential commands that hold the cache's lock
  throughout, whose difficulty is in their conversions.
* The conversions of imports and exports, the formats of envelopes and keys,
  encryption (what is sealed opens with the same key), one-time codes, the
  generator's rules and the ranking of a search: functions of strings, bytes and
  clocks, without state, which tests reach.
* The wiring of the HTTP server, the command line but for login, logout and
  enrolment, and the forward-only migrations of the schema.

## Plan

Done: `VaultServer`, `RevisionGraph`, `VaultSync`, `SessionAgent`, `Accounts`,
`Interface`, `Terminal`, their runs, and the proofs above. Left, in this order:

1. **Cache, the rest**: restoring a backup over a queue, the batch import.
2. The pure parts as operators: password history, windows of one-time codes,
   generator rules, search ranking.
