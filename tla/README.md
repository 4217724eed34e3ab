# A TLA+ model of the linked-data registry

This directory is a verification project for the registry (`src/main/java/com/epimorphics/registry`,
abbreviated `registry/` below): TLA+ modules that follow the code, TLC configurations that check
them on small instances, and theorems that TLAPS proves for every instance. `PROJECT.json` says
which lines each definition stands for and lists the runs, the mutants that show the properties
can fail, the findings, the hazards and the theorems.

## The system

The registry is a web service over one RDF triple store. A client reads and changes *registers*
and the *register items* in them; every change makes a new *version* of an item or of a register.

| Component | State | Operations | Who it interacts with |
|---|---|---|---|
| Store transactions (`store/StoreBaseImpl`, `store/impl/TDBStore`) | TDB's transactions, one flag and one count common to all threads | `beginRead`, `beginWrite`, `commit`, `abort`, `end`, `beginSafeRead`, `endSafeRead`; `lock` and `end` for backup and facets | every command, message processors, marshallers, templates, `Status.load` |
| Versioned store (`StoreBaseImpl`, `util/VersionUtil`) | roots, version resources with intervals, entity graphs, the default graph | `addToRegister`, `update` of an item or a register, `delete`, reads of current and past versions | commands, inside their transaction |
| Commands (`core/Command`, `commands/*`) | what `validate` keeps for `doExecute` | register, update, status update, delete, real delete, tag, edit, graph register, annotate, import; read, search, export, validate, compare | store, lifecycle, forwarder, message service, request log |
| Status lifecycle (`core/Status`) | statuses and successors, `needsLoad` | `load`, `needsReload`, `legalNextState` | commands; the message service announces changes |
| Caches (`store/CachingStore`, `core/RegisterCache`) | registers, members | get, flush, put; clear at a message | store, message service, `Description.descriptionFrom` |
| Message service (`message/*`) | queue of one worker, processors | `sendMessage`, `processMessages` | commands send after the commit |
| Notification (`notification/*`) | monitored registers, topics, backlog on disk | `send` (which first sends the backlog; there is no retry timer), `startup` (which wipes it) | message service, JMS broker |
| Forwarding (`core/ForwardingServiceImpl`, `util/Trie`) | trie of forwards, proxy configuration | `update`, `register`, `unregister`, `match` | commands during execution, web filter |
| Request log (`message/GenericRequestLogger`, `webapi/Replication`) | files | `writeLog`, `getLog`, replay | commands after execution |
| Security (`security/*`) | users, permissions | authentication, `isPermitted` | commands between validation and execution |
| Web API (`webapi/*`) | none but sessions | HTTP verbs to commands, templates, forms | all of the above |

A command runs in two transactions (`Command.execute`): `performValidate` opens a read
transaction for `validate()`, then the authorisation is checked in none, then `performExecute`
opens a read or write transaction for `doExecute()`, which ends with the commit. Messages and the
request log come after the commit.

What is hard here is what crosses those borders:

- **Concurrency.** Requests run in servlet threads and share the store object; its `synchronized`
  methods, TDB's writer lock and the lock of the `Status` class are three locks taken in
  different orders, and its two fields take the transactions of all threads for one.
- **Stale reads.** `CommandUpdate`, `CommandRegister` and `CommandTag` write resources that
  `validate()` read in an earlier transaction.
- **Failure.** A handler may be refused or fail anywhere before its commit; what it told the
  forwarder is not taken back. Processes stop between the commit and the messages.
- **Ordering.** Messages and log files follow the commits, outside the lock that orders them.

What makes the components correct: a command reads and writes inside its own transaction and
commits on top of what it read; updates are granted the lock; the histories of items are linear
and append-only; queries see only current entities; deleted registers leave no members; statuses
follow the lifecycle; forwards follow the delegations stored, also after a restart; listeners hear
of commits in order and end up with what is in the store; a replica that replays the log agrees
with the master; a notification is delivered at least once and the oldest first; a cached register
is the one last committed, and nobody is given one that never was.

## Modules

### `StoreTransactions`: how threads share the store

One record of state per thread (`pc`, `check`, `txn`, `view`) and the shared fields
(`inTransaction`, `safeBlockCount`, the holder of the monitor, `needsLoad`, the lock of `Status`).
Each synchronized method is one step except `beginWrite`, which waits for TDB while it holds the
monitor and so is two (`EnterBeginWrite`, `AcquireWriter`). A thread is a request that validates
and executes, a reader that brackets its own reads, a safe read block, or a direct reader that
bypasses `StoreBaseImpl`. `Status.load` appears where handlers consult a status (`ConsultStatus`,
`LoadStatus`, `LoadStatusThrows`, `StatusLoaded`). What a handler reads or writes is left out:
`committed` counts commits and `view` is the commit that a transaction reads from.

TDB is external and modelled from how the code uses it and its documented contract: one writer,
snapshot reads, no nested transactions, commit and abort give the writer lock back.

### `Lifecycle`, `VersionedStore`, `RegistryCommands`: commands and versions

`Lifecycle` holds the built-in statuses and successors. `VersionedStore` describes what the store
keeps of one versioned thing and the outcomes of `nextVersion`, `doUpdateItem`,
`doUpdateRegister`. RDF adds triples: writing a version that exists merges the two, so a version
has a *set* of statuses and graph references and a count of the writes that made it. Where a
property has several values the code takes whichever Jena returns, so an operation is a set of
outcomes. What an entity says is the number of the commit that wrote it.

`RegistryCommands` is one register with its item and members. `Validate` keeps what `validate()`
keeps (`job[t].seen`); one action per updating command executes it in one step. That execution is
atomic is what `StoreTransactions` shows (`CommitOnTop`) and what `abort` gives. `WithMembers`,
`Additions`, `EntityUpdates`, `Updated` are the helpers the commands share in the code
(`Command.addToRegister`, `applyUpdate`, `StoreBaseImpl.update`).

`VersionHistory` is the abstract specification of an item: a log of versions, each with one
status, which grows at its end or is erased. `AppendOnly` says that `RegistryCommands` implements
it, reading the log off the versions up to the current one.

### `Trie`, `Forwarding`: forwards and delegations

`Trie` has the trie as a function from addresses (sequences of segments) to nothing, a branch or a
terminal's record, and `register`, `unregister` and `match` as operators on it. The walk down from
the root, recursive in the code, becomes a condition on the addresses above: a terminal on the way
(`Blocked`) ignores what happens beneath it. `Shape` is what makes that enough, and is an invariant.

`Forwarding` has the delegations as committed (`stored`) and as the open transaction sees them
(`work`), the fields of `ForwardingServiceImpl`, the proxy's configuration file (`config`) and a
restart that registers what the store lists (`Restart`, `Load` in any order, `Started`). `Change`
is every command that ends in `checkDelegation`, `Delete` every one that takes a delegation away
without it: deletion, erasure, and an update of the item that changes the type of its entity, which
`CommandUpdate.validate` means to refuse but does not (`wouldChange` is asked about an entity that
was not loaded). `astray` is a history variable: the paths about which the service was not told, or
told what was then undone, and those that an unregistration above them cut off or that
`listDelegations` overlooked. It overlooks, by an exception that it logs, a delegated register that
names an enumeration subject and no object (`BySubject`), although `recordFor` accepts one and
`DelegationRecord.listMembers` can enumerate it. There is one writer at a time (`CommitOnTop` in
`StoreTransactions`). The base URI is taken to have no path: `register` strips the base domain and
`unregister` the base URI, so with a path nothing would ever be unregistered.

### `CommandEffects`: messages, monitor and request log

A request goes from validation to its end (`Begin`, `Execute`, `Notify`, `WriteLog`), some of them
at a time; `store` holds the number of the request that last wrote an item. `after` records which
requests were over when one began, so that order can be stated for requests that do not overlap.
Messages join the queue of the single worker, and the monitor passes them on. When a message names
an entity (`WithEntity`: registrations and updates with a definition) it reads the item again
(`Content`); when it names none, as those of status updates, annotations, deletions and patches of
the item alone, it passes on what came. `Operations` has a kind for each combination of what
validation and execution look at, what is announced and how, and what the log file is called: a
*batch* is the registration of a collection, a *patch* one of an item without its definition, a
*status update* stands for annotations and deletions too, and a *graph* for whatever is written and
not announced: graphs, imports, the members of a register whose status is updated as a whole.

A crash empties the queue. The log maps names (instant and operation) to requests; clocks only go
forward. A file is `whole` when it holds the request as it came: a batch takes the members out of
its payload before that is logged (`Intact`), and a write that fails (`WriteLogFails`) may have
emptied the file, one of the same name that another request wrote included. `Replay` carries the
whole files out in the order of their instants, and at one instant in that of the names of the
operations (`ReplayInstant`); that the names the code writes sort by instant is not claimed, for
their milliseconds are not padded. It is written as a recursive function of the instant
(`ReplayedUpTo`), so that it can be reasoned about.

Two properties hold with exceptions that their comments list. `SubscribersCatchUp` leaves out items
written by something that is not announced or that the server stopped on, and items on which a
request whose message names no entity overlapped with another one. `ReplayReconstructs` is about an
item none of whose requests overlapped, failed by accident, was logged at the instant of another one
on that item, or had its file replaced by one of the same instant and operation, and on which no
batch was carried out.

### `Outbox`, `NotificationBacklog`: the backlog of notifications

`NotificationBacklog` follows the worker through `BacklogNotificationAgent.send`: read the head of
the queue, publish it topic by topic, remove it, and so on until the backlog is empty, then publish
the one in hand. The broker may fail anywhere in a publication, two files may get one name, and the
server may stop anywhere. The disk may fail at everything the agent asks of it: a file that cannot
be written may be there all the same, whole or with nothing readable in it (`KeepFails`), a file may
fail to be read (`Unreadable`) or to be deleted (`Delete`), and the directory to be emptied at
startup (`Restart`). An empty file at the head does not end `clearBacklog` the way an unreadable one
does: it is taken for a failure of the broker (`EmptyHead`). `disturbed` and `left` are history
variables: the disk misbehaved in a way that notifications suffer from, and the files that it left
behind and the queue does not name. `Outbox` is the abstract specification: notifications accepted,
those waiting, and what each topic received; a notification is delivered the oldest first and given
up only after it was delivered, or for want of room, or at a restart. `KeepsPromise` says that the
agent implements it, with what is waiting read off the files and the one in hand.

Nothing retries on its own: if no other notification comes, those in the backlog are never sent.
No liveness of delivery is claimed, therefore.

### `RegisterCaching`: the two caches of registers

One register, threads that read it and one writer at a time. A lookup is several steps (`Hit` or
`Miss`, `Fetch`, `Put`), a write flushes first (`Flush`), deletion and import do not (`Replace`),
and a message empties `RegisterCache` later (`Clear`). Objects live in a small heap, so that two
holders of one Register object share what is done to it. Two things are. It reads its list of
members when first asked. And a command that was validated with it keeps it in its hands
(`WriteBegins`) and changes it in place before the commit: a tag adds the release to it (`Touch`),
and the update of the register that ends a registration or a tag gives it a new date and takes
its sub-registers and version number from the store (`UpdateInPlace`); after an abort that is not
undone (`Undone`). The edits of items and of graphs write through `addToRegister` (`Write`), which
leaves the object alone. What an object tells of is the number of a version (`desc`), whether it was
changed in place (`amended`), and the version its members were listed from. Each object carries the
first reason why it may differ from the store (`excuse`); the properties say that there is no other.
Both settings of `cacheRegisters` are initial states.

`RegistryCommands` models the store without `CachingStore`, as the tests configure it. With it, the
stale register that `registry_lost_update` starts from may come from the cache as well.

## Runs

| Run | Instance | What it shows |
|---|---|---|
| `store_transactions` | 3 threads, 2 commits, 1 lifecycle change | Type; a command owns its transaction; nothing stands between the writer and its commit; the safe count returns to zero; commits build on what they read. The claims about commands and writers end when the lifecycle changes, and `store_reload` says why. |
| `store_settled` | 3 threads, 2 commits, lifecycle never changed | No deadlock, and a waiting update gets the writer lock (liveness). |
| `store_safe_read` | 2 threads, lifecycle never changed | Violated: a safe read block may be in no transaction at all. |
| `store_reload` | 2 threads, 1 lifecycle change | Violated: an update that reloads the lifecycle may wait for ever for a monitor whose holder waits for that update's writer lock. |
| `registry_serial` | 1 thread, 2 items, 18 requests of every kind, 4 commits | Type; linear histories of items and the register; no stale entity in the default graph; no orphans; versions kept; lifecycle respected. |
| `registry_concurrent` | 2 threads, 2 items, all requests but CommandUpdate, 3 commits | Item histories, default graph, versions and lifecycle survive every interleaving of validation and execution; `AppendOnly` refinement. |
| `registry_lost_update` | 2 threads, 1 item, CommandUpdate and an annotation | Violated: two updates write one version. |
| `registry_self_successor` | 1 thread, 1 item | Violated: an item that supersedes itself gets one version with two statuses. |
| `forwarding` | 3 nested paths, 3 kinds of records, 4 changes, 1 restart | The trie keeps its shape and gives one match; forwards, proxy and proxy configuration follow the delegations but for the paths astray; a step changes forwards only at and beneath a path that changed. |
| `command_effects` | 1 item, 7 kinds of requests, 2 at a time, 3 in all, 1 accident (a failure, a log file not written or not to its end, or a crash) | Messages of requests that do not overlap keep their order; subscribers catch up and the log replays to the state, with the exceptions named above; what is announced is heard of unless the server stops (liveness). |
| `notification_backlog` | 2 targets, 2 topics, a limit of 2, 4 notifications, 3 broker failures, 1 disk fault, 1 restart | No files forgotten but those the disk would not write, delete or clear; first receipts in order; a successful send drains the backlog; every send ends (liveness); refinement of `Outbox`. |
| `register_caching` | 2 threads, 2 written versions, either setting | A cached register is current while nobody writes, no reader gets one older than its transaction or one never committed, the second cache catches up with the messages, each but for the named excuses and, for the last two, the object that the writer is changing in place. |

**What does not hold.** `RegisterHistoryLinear` and `NoOrphans` are checked, and proved, for one client.
With two, `CommandRegister` writes the register that its validation read, so two registrations may
share a version of the register; and a registration validated before a real delete of the register
leaves members in a register that has no item (without erasures `NoOrphans` is proved for any number
of clients). Both are counterexamples of TLC on the instance of
`registry_concurrent` and follow from the same hazard as the lost update.

The properties of the four later runs hold with exceptions, and the exceptions are what a maintainer
of the code should know. Forwards: an abort, a deletion or a change of type leaves them wrong until
the server restarts, a restart loses the delegated registers enumerated by a subject, and one path
unregistered takes those beneath it along. The proxy: a failure to write its configuration is not
made good, and after a restart with nothing to proxy the old configuration stays. Subscribers:
graphs are registered without a message, what was committed when the server stopped is never
announced, and of two requests on an item that overlap, one of them a status update, an annotation, a
deletion or a patch of the item alone, subscribers may be left with the older one. Replay: a request
that failed by accident is replayed too, and a batch registration is not, because its file has lost
the members; its replay answers that there are none. Backlog: a file that the disk would not write
to the end, delete or clear stays, and nothing ever looks for it; one that is empty at the head of
the queue keeps every later notification from being sent until a restart. Caches: a reader that
races a writer puts the old register back, deletion and import leave it there, batch registration
shares a register that may yet be undone, and ordinary registrations and tags change the object that
others read before they commit. With `cacheRegisters`, that object stays in `RegisterCache` after an
abort, from where it reaches `CachingStore` too.

**Bounds.** `Threads`: the shared flag and count relate two threads and the third is the one whose
transaction they confuse; a cycle of waiting needs two. `MaxCommits`: two commits are enough for one
to fall between another's reading and writing; three and four let a thing be made, erased and made
again, or be written after a stale version. `MaxVersions` exceeds `MaxCommits` by one, so no history
is cut off. `MaxReloads`: one change of the lifecycle starts every behaviour of the reload.
`Paths` in `forwarding` has a path, one below it and one two below it in another branch, with
`MaxChanges` enough to register two, change one and undo. `MaxRequests` in `command_effects`: two
requests overlap and the third is after one of them. `MaxAccidents`: a failure, a spoilt log file and
a crash each make exceptions of their own, so one at a time is enough. `MaxSends` in `notification_backlog`: two fill
the backlog, one is turned away, one drains it, and `MaxFailures` is one less. `MaxWrites` in
`register_caching`: the second version is what the first, cached, is stale against.
Deadlock is checked where the lifecycle is never changed (`store_settled`). In `store_transactions`
and `store_reload` it is not, because the system really does deadlock once the lifecycle changes,
and in the other runs it is not, because they end at their bounds. One bound is not a number: a
status update of a whole register names no successor common to its members.

**Fairness.** In `StoreTransactions` `WF_vars(Continue(t))` says that a thread which has begun a
request keeps running: servlet threads are scheduled, TDB gives its lock to someone when it is
free, handlers end. In `CommandEffects` the same is said of the threads that serve requests and of
the worker (`Continue(n)`, `Process`), in `NotificationBacklog` of the worker (`Work`), whose calls
of the broker return or fail. No strong fairness on the monitor is assumed (Java monitors are not
fair), no request has to arrive, and nothing has to fail or to recover.

## Proofs

`StoreTransactionsProofs` proves, for every set of threads and all bounds, type correctness,
`CommitOnTop`, `CommandOwnsTransaction`, `WriterNeverQueues` and `SafeCountReturns`. The last needs
a strengthening: the safe blocks that are open number at least `safeBlockCount`, and this is kept as
a statement on the finite set of threads that are inside one. `CommitOnTop` needs only that a
transaction's view is the last commit as long as it is the writer and that there is one writer,
and holds with the lifecycle changing as well.

`RegistryCommandsProofs` proves five properties of items under `Fresh`, that is when no request names
an item as its own successor, and there is one client at a time or no request is a CommandUpdate:
`ItemHistoriesLinear`, `NoStaleEntity`, `VersionsKept`, `LegalLifecycle` and the refinement
`AppendOnly`. `registry_lost_update` and `registry_self_successor` show that neither hypothesis can
be dropped. With one client (`Serial`) what a validation read is still what the store holds when the
request is executed; `Abreast` says so and is part of the invariant. The argument has two halves.
`Steps` says what one commit makes of one item: what it was, nothing, or the version after the
current one, written from what the transaction itself read, with one status that may follow; there
is one lemma for each command that it does no more than that. The other half says what such a step
does to a thing that is `Sound`: of its type, linear, each version with one status, the current one
with at most one entity, the default graph with no other, and no version beyond `commits + 1`.
Linearity alone is not inductive: the next version must still be free and fit within `MaxVersions`,
and a current version with two entities would let either of them stay behind.

`RegisterProofs` proves what holds of the registry for requests of every kind, those that write what
an earlier transaction read included. `TypeOK` holds under `NoSelfSuccession` for any number of
clients: versions stay within `MaxVersions` because what is read, whenever it was, has a number no
greater than the commits so far, and a commit writes the one after it. `NoOrphans` holds under
`Sheltered`, which is one client, or any number as long as nobody erases the register. It is
inductive only with what a registration relies on between its two transactions, that the register
its validation saw is still there: because nobody erases it, or because of `Abreast`. Each commit
then does one of three things to the whole registry (`WholeStep`): it erases all of it, leaves both
the register and its item in place, or makes neither and no member either. `RegisterHistoryLinear`
holds under `Serial`, of requests of every kind, self-succession too, which touches items only.
That more clients break it, and that an erasure by another one breaks `NoOrphans`, is told under
*What does not hold*.

`ForwardingProofs` proves all six properties of `forwarding` for any prefix-closed set of addresses.
The invariant speaks of one set of paths, `Known`: what the service should know of, which during a
startup is what has been loaded so far and otherwise what the open transaction accepts. `Follows`
says that outside `astray` the trie has terminals exactly where `Known` is outermost, with their
records, and that each known path has a terminal at or above it; `Closed` that a path astray has
those beneath it with it. The lemmas `RegisterFollows` and `UnregisterFollows` carry this over one
operation of the trie, `Told`, `Untold` and `Ignored` over one call of the service.

`CommandEffectsProofs` proves type correctness, `HeardInOrder` and `SubscribersCatchUp`. Messages
handled and messages queued form one line; `Lined` says that in it nothing is repeated and nothing
was over before one in front of it began. `CatchingUp` says that for an item of which subscribers
were last told something else than what is stored, a message is on the way. That one is left when another is handled
follows from `Author`: any other announced request on the item was over before the one that wrote
what is stored began, and so was heard of first, or both messages name an entity, and the one that
is left has the item read again.

`ReplayProofs` proves `ReplayReconstructs` for a log of any length and any number of items, requests,
failures and crashes. The invariant has four parts. `Settled`: an item whose requests did not overlap holds
what its last committed request left, every one of them carried out on what those of smaller numbers
left; so a replay of them in that order permits what was permitted. `Order`: a request that began
after another one was over has the greater number. `Stamps`: such requests were logged in the same
order, each under its own name. `Files`: a file holds the request it is named after. From these,
`ReplayFollows` is an induction on instants: replayed up to an instant, an item is where the requests
logged by then had left it. Neither the recursion nor the induction comes for free here. That
`ReplayedUpTo` satisfies its own equation is proved from its definition as a CHOOSE, by building
the functions up to each instant (`UpTo`). Induction on the natural numbers is stated for a set
rather than a predicate (`NaturalsInSet`), by its least counterexample in the well-founded order
of `Nat`.

`NotificationBacklogProofs` proves type correctness, `NoOrphanFiles`, `SuccessDrains`,
`FirstReceiptsInOrder` and the refinement `KeepsPromise`, over every failure of the disk. The invariant `Fit` relates the queue, the
files and what the worker is doing: two files never hold one notification, what is in files is older
than what is in hand, the topics passed have been given it, and while the disk behaves the queue is
in order. The refinement has one lemma for each action. That the backlog is full is stated in
`Outbox` without cardinality (an injection), which is what makes it provable.

`RegisterCachingProofs` proves all five properties of `register_caching` for any number of threads
and versions. The invariant follows an object from the thread that makes it to those that are given
it: `Made` says where what it tells comes from, `KeptCurrent` and `RegisterCurrent` that an object
without an excuse in one of the caches tells of the register as it is, `HeldRecent` that one in the
hands of a thread tells of nothing older than its transaction, each but for the one object that the
writer is changing (`Changing`), and `Fate` what becomes of that one: it is committed, or excused as
undone. `AmendStep` is the one lemma on changes in place. `Announced` says that no more messages
wait than there were commits. That a new object always finds a place in the heap (`FreeIsFree`) is
an argument on cardinalities: at most one object for each thread and cache is referred to.

The proofs assume only the ASSUMEs of the modules: distinct names, natural bounds, prefix-closed
addresses, finitely many threads that share a cache, and the kinds of things each request may be
about.

Only model-checked: liveness (`WriterGranted`, `CommitsAreHeard`, `SendEnds`), which with ENABLED is
beyond the prover, and the absence of deadlock in `store_settled`. Every invariant, action property
and refinement of a passing run is stated by a theorem, those of `RegistryCommands` under the
hypotheses named above.

## Not modelled

RDF content, SPARQL, paging, rendering, patches, CSV, JSON-LD and languages are data or I/O. TDB,
Jena, Shiro, the JMS broker and the Lucene index are external. Sub-registers below the one register,
batch registration and CommandImport are left out of `RegistryCommands`, and so is the content of a
custom lifecycle. Errors that are no `Exception` (they reach `end()` with the writer lock held) are
left out of `StoreTransactions`, and so is the safe block that `MonitorRegister.initMonitor` leaves
open when reading the register fails. The JavaScript under `src/main/webapp/ui/js` is third-party
libraries (jQuery, Bootstrap, CodeMirror, jsPlumb and others) and the glue of pages; the program is
the Java code. The other components are listed in `PROJECT.json`, with the reason.

## How the project grew, and what is left

The modules were written in the order in which they appear above, the store and the commands first.
What would be worth adding:

1. Batch registration and import in `RegistryCommands`, with one level of sub-registers.
2. A custom lifecycle: loading, reloading and failing to load `/system/lifecycle`, and deletion
   under it.
3. `PatchUtil`, paging and the implication of permissions as algorithms.

Each module follows the same lines: constants with named assumptions, one action for an
operation, an invariant of named conjuncts, one run for what holds and one for each real
disagreement, and the safety invariant proved where the data permits.
