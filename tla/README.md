# Verification of lazy-mcp-wrapper

`lazy-mcp-wrapper` stands between MCP clients (editors, agents) and MCP servers.
It answers the handshake itself, starts the real server at the first request
that needs it, stops it when idle, and can run as a daemon that shares one real
server between clients. This directory holds TLA+ models of its concurrent
parts, the TLC runs that check them, and TLAPS proofs.

1. Inventory of the system
2. Plan
3. The modules
4. The runs, their bounds and what they show
5. What is proved, and how
6. What is only model-checked, and what is not modelled

File names without a directory are under `src/internal/`.

## 1. Inventory

| Component | State | Operations | Talks to |
| --- | --- | --- | --- |
| Shared daemon (`daemon/daemon.go`) | five maps by MCP name (configs, proxies, loggers, closers, stats), `generation`, `retained` sets, `activeClients`, counters | bind, unregister, reload (plain, graceful, force), status, stop, shutdown | proxies (`Run`, `Close`, `Status`), client connections, config files |
| Stdio proxy (`wrapper/proxy.go`) | `Proxy.client` under `Proxy.mu`; per real process `callMu`, `nextID`, `responses`, `done`, idle timer, subscriptions | `Run` per client, `ensureReal`, `call`, `readLoop`, `waitLoop`, `touch`, `close`, `Status` | the real server over pipes, the tools cache, the daemon |
| Tools cache (`wrapper/cache.go`) | a file per config fingerprint, an invalidation mark | read, write, invalidate, clear, expire | every proxy of that config, forwarders |
| Notification path (`wrapper/proxy.go`) | a bounded channel per subscribed client, a forwarder per client | subscribe, broadcast, forward, unsubscribe | read loop, cache, client |
| Daemon client (`daemon/client.go`) | one connection, two copies | bind, copy stdin and stdout, control requests | daemon |
| Socket path and service (`daemon/daemon.go` `Serve`, `setup/agent*.go`) | the path, the unit, the manager's instance | listen, accept, stop; install, uninstall | systemd, launchd, Windows services |
| HTTP upstreams (`wrapper/proxy_http*.go`) | `Proxy.client`, `callMu`, `nextID`, `closed`, idle timer; the SDK's session | start, `call`, notifications, idle timeout, close | remote servers, OAuth |
| OAuth (`oauth/`) | credential files, login state | load, save, refresh, login with a local callback | HTTP upstreams, command line |
| Setup (`setup/`) | clients' configs and backups, wrapper files, `daemon.json` | apply, update, reverse, uninstall, watch | daemon (graceful reload), file system |
| Framing (`jsonrpc/`) | reader and writer modes | read, write, detect framing | every stream |
| Config (`wrapper/config.go`, `daemon/config.go`) | none | load, default, validate | everything |

What is hard, and what correctness means there:

- **Daemon.** Reloads interleave with binds, departures and the shutdown. A reload
  may fail half-way. Correct: all or nothing; nothing leaks; unchanged servers are
  not restarted; a graceful reload takes nothing away from a connected client.
- **Stdio proxy.** Clients contend for two mutexes; processes die at any point;
  timers fire during calls; late answers arrive during later calls. Correct: every
  request is answered, with its own answer; acks are closed once; no process runs
  unsupervised.
- **Cache and notifications.** Filling the cache, broadcasting a change and
  forwarding it are done by three goroutines. Correct: a list that the server has
  changed does not stay cached.
- **Daemon client.** Either side may close first. Correct: it ends when its stdin has
  ended, and reports success only when every answer was printed.
- **Socket path and service.** The path is a name that a starting daemon, a leaving
  daemon and setup all remove without looking whose socket it is. Correct: setup that
  succeeds leaves a daemon clients can reach, uninstall that succeeds leaves none, a
  stop is obeyed.
- **HTTP upstreams.** The event stream that answers a POST may carry answers to calls
  that timed out; timeouts and closes race with calls under way; notifications have no
  deadline. Correct: an answer goes to its caller; no backend and no armed timer is
  left; a message is done with.
- **OAuth.** Several processes refresh one credential; writes are not atomic.
  Correct: no server sees another's token; the file never mixes the credentials of two
  servers; the refresh token is lost only by the mishaps named in section 3, which the
  code does not prevent.
- **Setup.** Every operation is a sequence of file writes that can stop anywhere,
  from a plan made before the user was asked, and the rewrite of one client's config is
  itself a copy and a write. Correct: a client's reference keeps
  reaching a wrapper; the daemon's configuration loads; no definition is lost; an
  uninstall leaves nothing of the wrapper behind.
- **Watch.** Events, debouncing and the updates it makes itself. Correct: a change
  is applied in the end.

`PROJECT.json` lists the hazards one by one, each at its line.

## 2. Plan

The order is by importance to the users of the daemon.

| Step | Module | Status |
| --- | --- | --- |
| 1 | `ReloadContract`, what a daemon promises about configurations | done |
| 2 | `Daemon`, shown to implement it; `DaemonProofs` | done |
| 3 | `CallContract`, what a proxy promises its clients; `Proxy`, one shared stdio server, shown to implement it; `ProxyProofs` | done |
| 4 | `ToolsCache`, invalidation against caching; `ToolsCacheProofs` | done |
| 5 | `Setup`: setup, update, uninstall and watch over files, with failures and edits; `SetupProofs` | done; the liveness of watch planned |
| 6 | `HttpUpstream`: native (streamable, stateless) and SDK backends; `HttpUpstreamProofs` | done |
| 7 | `Credentials`: store, refresh by several processes, login callback; `CredentialsProofs` | done |
| 8 | `Service`: socket path, service managers, daemon client; `ServiceProofs` | done |
| 9 | Composition of daemon and proxy: reloads that hold `Server.mu` while a proxy starts its server | planned |
| 10 | Counters and status under separate locks; framing as an algorithm | planned |

Every invariant and action property of a passing run is a theorem, as are the two
refinements. What is left to prove comes with the modules that are planned: that the
composition of step 9 implements both contracts at once.

## 3. The modules

### ReloadContract

The promise, without mechanism: connections are offered one complete loadable
listing at every moment, and a connection is served under the config it was bound
to until it leaves.

### Daemon

One step for everything done under `Server.mu`. The five maps are always replaced
together, so one *entry* stands for what they hold under a name: proxy, open log
and counters. An entry is a config and the generation that created it; two entries
with equal configs but different births are different proxies.

| State | Code |
| --- | --- |
| `table`, `generation`, `retained` | the maps, `Server.generation`, `Server.retained` |
| `clients[c]` | `activeClients` and the proxy that `handleConn` holds |
| `openLogs` | log files not yet closed |
| `real`, `sessionReal` | real processes of shared proxies, and of session clients |
| `daemon` | serving, cancelled, in `closeResources`, exited |

`Bind`, `Unregister`, `Reload`, `Cancel` are the handlers of the same names.
`ClientGone` is the return of `Proxy.Run`, a step before `Unregister` as in
`handleConn`'s deferred calls. `Reload` covers every outcome: refused, failed after
some entries were created, done; with retention, closing, or nothing to close.
`CloseCurrent` and `CloseRetained` are two steps because `closeResources` takes no
lock.

### CallContract

The promise of a shared proxy, without processes, locks or pipes: a request is given a
number at a server and passed on once or not at all; a server answers what is pending;
an answer is given to the client whose call it is and to nobody again; a client has one
reply to a request, an answer or an error, before its next. Answers may be lost and come
in any order.

### Proxy

The life of a request in `Run`: `idle`, `ensure` (wants `Proxy.mu`), `start`,
`queue` (wants `callMu`), `wait`, `write`. A process is `up`, `stopping` (told to
stop, at most two seconds) or `exited` (`done` closed). The responses channel, the
read loop's wait for an ack and the idle timer are modelled one for one.
`CallFails` is always possible while a call waits: the timeout may fire at any time,
and Go's `select` may choose it although a response is there. `KeepReal` is
`KeepRealOnClientClose`: TRUE in the daemon, FALSE in a standalone wrapper.

Abstracted: `initialize` of the real server is one step with a good or a bad end;
the mutex held by `close` while it waits is not (a new process may start while the
old one is stopping, which the kill after two seconds bounds in the code).

`Promise` maps this module to `CallContract`: a client in `ensure`, `start` or `queue`
has asked, one that waits is passed; `pending` is what the processes have received, and
`answers` what is in a pipe or in a responses channel, so that the read loop's moves are
stutters. Starting a process anew, closing it and timing out are not in the contract:
they show as errors, answers lost, or not at all.

### ToolsCache

The tool list is a version number. A response carries the version at which the
server answered; a list_changed carries the version it announces. The real process
lives on while clients come and go (`Reconnect`). `told[c]` is the latest version
announced to client `c`, `since[c]` what it had been told when it sent its request.
`Refresh` is `--refresh-cache`: another process that fills the same file and to whose
announcements nobody listens. `faults` is a history variable with the four ways in
which a change can escape: nobody received it (`unheard`), the read loop had stopped
waiting for the ack of the response being cached (`overtaken`), the file could not be
removed (`kept`), or a refresh wrote it after the change (`refreshed`).

### HttpUpstream

`kind` selects the backend, as the config does: native with streamable or stateless
POSTs, or the SDK. `proxy_http.go` also holds an SSE transport; `LoadConfig` refuses
every configuration that asks for it (`config.go:107`), so it is left out. A caller is a
session of one proxy: it wants `Proxy.mu` (`ensure`), may start a backend and run its
handshake (`connect` for the SDK; `doing` = initialize, then initialized; `publish`),
wants `callMu` (`queue`), posts, waits and writes.

| State | Code |
| --- | --- |
| `client`, `mu` | `Proxy.client`, `Proxy.mu` across a start |
| `closed`, `done`, `timer`, `callMu`, `nextID` | the fields of `realHTTPClient` and of the SDK backend |
| `body`, `stream` | the content type of the reply to a caller's POST and what of it was not read yet |
| `asked` | what the remote server has received and not answered |

A reply is an event stream, in which `readStreamableSSEResponse` looks for the id of the
call and drops the rest, or one JSON body, which `callStreamableHTTP` returns without
looking at its id (`ReadJson`). `orderly` says of the server that it puts only the
answer to a POST's own request in a JSON body; both values are explored.

A deadline is a step that may come at any moment; a late answer then meets whatever the
code has left behind. `close` does not interrupt a POST that is under way. The remote
server and the SDK session are external: the server answers in any order, or never.

### Credentials

One credential file, any number of sessions (`StoredTokenHandler`) and `auth login`
commands, nothing shared but the file. `FileStore.Save` is two steps: the file is
opened and truncated, then written; in between every reader finds it broken, and
another process may open it too (`overlaid`). A token is the number and the server of
its grant. A server may rotate the refresh token, refuse it, or revoke all when an old
one is presented. `codes` is what a login's callback receiver has received: its own
code, a stray one, an error.

`mishap` is a history variable. It is set where a refresh token is lost in a way this
code does not prevent: refreshes of one token overlap, a session
overwrites a credential that is not the one it started from, a save fails, the process
dies while saving, the answer to a refresh is lost. `ChainUnbroken` says that these are
the only ones.

### Service

The socket path is a name: `sock` is the daemon whose socket is there. `Serve` is
taken apart at each step that touches it.

| Action | Code |
| --- | --- |
| `RemoveStale`, `Listen` | `os.Remove` and `net.Listen` at the start of `Serve` |
| `CloseListener`, `RemoveAgain`, `Exit` | the goroutine that closes the listener, the deferred `os.Remove`, `closeResources` and the end of the process |
| `AcceptFails`, `Crash`, `NeverServes` | the error paths |
| `StopCommand`, `Cancel` | `SendControl(stop)`, answered before `s.stop` cancels the context in a goroutine |
| `Begin` to `Poll` | `installLaunchAgent` and `uninstallLaunchAgent` on the three platforms, up to `pollSocket` |
| `StartMain`, `RestartMain` | the service manager |
| `Dial` to `Killed`, `Accept` to `RunReturns` | `RunClient` with its two copies, and `handleConn` |

External: systemd, launchd and the Windows service manager, as far as setup and the
unit files use them. `systemctl stop` and `launchctl bootout` return when the instance
has ended; on Windows setup sleeps for half a second and goes on, does not touch the
path, and registers no service under a name that is taken. `Restart` is on-failure, and
the plist says `KeepAlive` false.

The errors of the stop commands are dropped (`agent.go:148`, `195`), as is that of
`OpenService` on Windows, and the run goes on: `StopFails`. `left` remembers it for the
rest of an uninstall. The daemon may then live on behind a removed path, on Windows
behind a service that is still registered, and uninstall reports success:
`UninstallLeavesNothing` promises the end of the daemon only where the commands did not
fail. An install goes on, too: as long as the old instance lives, it has lost its path on
Linux, so that `pollSocket` fails; on macOS `kickstart -k` ends it; on Windows its name
is taken.

A client's stream is counted in requests: `asked`, `took`, `answered` and `printed` are
what the client wrote, the handler read, the handler wrote and stdout got.

`quiet` says that since setup began nobody but setup and the manager intervened, and
that nothing was moving then (`Settled`). It is the condition under which the two
promises of setup can be kept at all: the path can be taken away at any time by a daemon
started by hand.

### Setup

An entry of a client's config is a definition setup can wrap (`Versions`), one it
leaves direct (`Plain`), a reference to the wrapper (`Ref`) or missing. `job` is the
operation that runs: the plan, which the code computes from the files before its
first question, and what of it is still to be done. `writes`, `drops` and `updates`
shrink as `WriteFile`, `RemoveFile` and `RewriteClient` carry it out, and
`WriteListing` writes `list`, stage by stage in the order of the code (an update removes files before it
writes `daemon.json`, a setup writes it before the clients). `Refuse` declines a
stage, `Abort` is an error or a kill at any point, and `Edit` is the user, who may
change a config at any point. A watch session keeps its stamp and what it last saw; its
updates start when something has changed.

`WriteServers` reads a config and writes the backup (`CopyClient`), then overwrites the
config with what was planned (`RewriteClient`). An edit after the read and before the
write is overwritten without a copy: `raced` has the entries to which this may happen.
The read and the write of the backup are one step, since what comes between them is as
lost as what comes after. A backup's name has a resolution of a second: a run starts in
the second of the one before or in a later one (`Tick`), and `shared` says that two
operations have had one name, by that or in one watch session.

`mine` remembers what the user wrote last. `whole` and `loaded` in a job record that
nothing was declined, and that the daemon's list was absent or sound when it began. The
exceptions named in the properties are behaviours of the code. In `NoRefBroken`: an
uninstall removes wrappers, an update with `--config` does not look at the other
clients, and a name that one client keeps direct is taken off the list for all. In
`SetupKeepsDefinitions`: `raced`, `shared`, and an uninstall, which copies nothing
(`undone`). In `CompletedRunLoads` and `RewrittenEntryResolves`: a setup that began on a
list with missing files leaves it so, and one whose second stage is declined refers
clients to wrappers that are not listed; the next update repairs both.

## 4. The runs

| Run | Shows |
| --- | --- |
| `daemon` | Safety of reloads, bindings and departures, and refinement of `ReloadContract`. |
| `daemon_orphans` | Processes revived behind a replaced proxy are stopped in the end. |
| `daemon_graceful` | *Violated.* Two graceful reloads take the proxy of a connected client away (finding 1). |
| `proxy` | Replies, acks and processes under death, timeouts and late answers, refinement of `CallContract`, and that every request is answered. |
| `tools_cache` | The causes of a stale cache are exactly four; a client never gets a list older than it was told of, but for three of them (`overtaken`, `kept`, `refreshed`). |
| `tools_stale` | *Violated.* With files that can be removed, acks in time and no refresh at the wrong moment, a list_changed that nobody hears still leaves a stale cache (finding 2). |
| `setup` | References, the daemon's list and the user's definitions survive whatever is declined, fails or is edited meanwhile, but for the exceptions named in section 3; an uninstall removes every wrapper, and all references but those of a latest backup. |
| `setup_uninstall` | *Violated.* Uninstall restores a backup that already refers to the wrapper (finding 3). |
| `http` | Replies of a remote server reach their callers, in JSON bodies if the server is orderly; no backend and no armed timer is left behind; every message is done with unless the POST of a notification is held for ever. |
| `credentials` | Tokens stay with their servers, the file is of one server or broken, and a refresh token is lost only by the mishaps named. |
| `service` | Setup leaves a reachable daemon, and uninstall none if the manager obeyed; clients that succeed have printed everything; clients end and stops are obeyed. |
| `service_restart` | *Violated.* A daemon stopped on macOS stays down although it is installed (finding 4). |

Bounds.

- `daemon`: two clients (one that stays and one that leaves), two names, two
  versions, seven listings (changed, removed, added, shared to session, unloadable,
  failing after a new entry, repeating a name), two successful reloads after the
  start. Two reloads are the fewest that reuse an entry and replace it later.
- `daemon_orphans`: two listings, no symmetry, the temporal property.
- `proxy`: two clients, three requests in all, two processes, a channel of one slot. A
  late answer needs two calls on one process; a restart needs two processes; a full
  channel needs one slot; the third request finds a client with both behind it. No
  symmetry, for the sake of the liveness property (498,400 states).
- `tools_cache`: two clients, one change, two calls, subscriptions of one slot, two
  unread messages. One change against two fills covers both orders of each pair; the
  slot makes a subscription full (5.8 million states). What comes after a second fault
  is not explored (`OneFault`): of any two, one excuses each invariant for good.
- `tools_stale`: the same with one call and one unread message.
- `setup`: two clients, two names, one version, two runs in one second or in two (a
  setup and an update, or a watch session and its updates), one edit (5.6 million
  states). Two operations let the second one meet what the first left unfinished; two
  clients let them disagree on a name; one edit comes before or after each file step.
- `setup_uninstall`: one client, two names, three runs, one edit. One client is
  enough for two backups.
- `http`: two callers, of which one forwards two messages, three backends, each of the
  three kinds, orderly servers and others (651,052 states). A message starts one backend
  at most, so three are enough, and each meets what the ones before it left; the second
  message of a caller meets the answer to its first, and the other caller's call.
  Handshakes give every backend calls of its own.
- `credentials`: two sessions, one login, two servers, three tokens, symmetric sessions
  (328,923 states). Three tokens are a login and two rotations; two servers are needed
  for a token to reach the wrong one.
- `service`: one client with one request, two processes at one time, three commands,
  signals or failures, those of stop commands included, three platforms (679,774 states). Two processes are the old and
  the new one; three events are setup, an interference and another command.
- `service_restart`: macOS, no clients, two events: the setup and the stop.

Deadlock is not checked: clients stop sending at their bound, a daemon exits, tokens,
backends and the stamps of `Setup` run out.

Fairness.

- `daemon_orphans`: the idle timer of a process that no client can use fires.
  `LoadConfig` makes `idle_timeout` non-zero, and `touch` arms the timer at every
  start. Clients need not call, leave or be reloaded.
- `proxy`: strong fairness for the two mutexes (Go's `sync.Mutex` hands the
  lock to a waiter that has starved for a millisecond), weak fairness for the end of
  a start (`startup_timeout`), of a call (`call_timeout`) and of a write (the client
  reads). The real server need not answer, exit or be stopped.
- `http`: the same for the mutexes and for what has a deadline: connecting, the
  handshake's call, a call, and the steps of the wrapper itself. The server need not
  answer calls. Nothing is assumed of the POST of a native notification
  (`sendNotification` uses `context.Background` and a client without a timeout):
  `MessageIsAnswered` says of each message that it ends unless its own notification, or
  that of a handshake, which is sent under `Proxy.mu`, is held for ever (`HeldBy`).
- `service`: weak fairness of each daemon's own steps, of the two copies of a client, of
  the handler (its answers come within the call timeout, module `Proxy`; over a remote
  server, unless a notification is held, see `http`) and of setup's commands. The
  manager need not restart anything. Users, signals, crashes, what a client is asked
  and the end of its stdin have none.

Findings, each quoted with its line in `PROJECT.json`:

1. `daemon_graceful`: a set is kept only for clients of the generation just replaced.
2. `tools_stale`: the cache is dropped by the forwarder of a subscribed client only.
3. `setup_uninstall`: the latest backup may hold references already.
4. `service_restart`: the plist says `KeepAlive` false and the unit on-failure, while
   the README says that a stopped daemon is started again.

Every property of a passing run has a mutant: a plausible wrong version of one
definition with which the run finds the property violated. They stand in the modules
before the definition they replace, marked "Wrong on purpose".

## 5. What is proved, and how

Each theorem holds for every value of the constants. The assumptions are those declared
with the constants (sentinels are not members of the sets they stand beside, bounds are
natural numbers), which TLC evaluates on the instances. Every proof has the same shape:
an inductive invariant `IInv` with `Init => IInv` and `IInv /\ [Next]_vars => IInv'`,
one lemma or step per action, from which the listed theorems follow. TLC found the
invariants to hold on the instances of section 4 before they were proved.

### DaemonProofs

The safety invariants are not inductive on their own. `IInv` adds:

- `TableIsMap`: a name has at most one entry in the table.
- `BornInPast`: every entry's birth is at most the current generation, so what a
  reload creates is new.
- `OneOwner`: no entry is both in the table and retained, nor in two retained sets.
  Without it, closing one set could close the log of another.
- `ClientsOnTable`: a client of the current generation holds an entry of the table,
  and its generation is not in the future. Without it a graceful reload might keep a
  set without a user.

The three invariants, the two action properties and the refinement of
`ReloadContract` follow. `GracefulKept` is the strongest true form of the README's
promise; finding 1 says why the promise itself is false.

### ProxyProofs

`ReplyIsOwn`, `AckHasOneOwner` and `RunningIsManaged`, for any number of clients,
processes and requests and any capacity of the channel. `IInv` has two halves.

- `Life`: the holder of `Proxy.mu` is the one client that starts a process, it is the
  newest process and nobody else's; a client that queues or waits has a process.
- `Ids`: a process that is not started yet has seen nothing (`Fresh`); a client in a
  call owns the id it took (`OwnIds`), which no other client has taken on that process
  (`DistinctIds`); every id anywhere was taken (`IdsTaken`), so a new one is not yet in
  use; and an id is in one place at most, with the server, in its pipe, in the channel,
  with the client that took its response, or acknowledged (`OnePlace`). Without the last
  a second copy of a response could be taken after the first was acknowledged.

`CallsAreKept`, the refinement of `CallContract`, needs three of these: `Fresh`, so that
the initialize exchange takes the first number of a process nothing was sent to;
`OwnIds`, so that what a client takes is its call's; and `OnePlace`, so that taking it
out of the channel takes it away for good. `Lose` covers every way in which an answer
goes unheard: dropped by a later call, in the pipe of a process that exits, or unread
when the read loop returns.

### ToolsCacheProofs

`StaleIsDoomed`, `NeverOlderThanTold` and the type invariant, for any number of clients,
calls, changes and unread messages. The invariant follows a list and the news of its
change along the same pipe:

- `CallIds` and `OnePlace`: `callMu` is held by the client that waits, and a call or its
  answer is in one place, as in `Proxy`.
- `Order`: the pipe is in the order of the versions; what it announces nobody has heard
  of yet; and a list in it that is out of date is followed by the news.
- `HeldBack`: while a list may still be cached, the read loop waits for its ack, and
  the news that outdates it is unread. This is why the wait in `readLoop` is needed:
  the condition fails exactly when the ack is given up on (`overtaken`).
- `SinceTold` and `Cached`: an answer is not older than what its client had been told
  when it asked, and nobody was told of more than is cached, unless a list was
  overtaken, a file stayed, or a refresh wrote it.

`NoListOvertaken` states `HeldBack` as a theorem of its own.

### HttpUpstreamProofs

`ReplyIsOwn`, `NothingLeaks` and the type invariant, for all three kinds of backend,
orderly servers or not, and any number of callers, backends and messages. Besides these,
which are parts of the invariant, `IInv` has:

- `Mutex`, `CallMutex`: `Proxy.mu` is held by the caller inside the start of a backend,
  and there is no client then; `callMu` by the caller inside the locked part of a call.
- `Mail`, `Inboxes`: every response the server owes has an id that was taken, and if it
  is the id of a call in progress, it answers that call; the same of every event of a
  reply. A call that has timed out leaves responses behind; they carry ids that are
  never taken again. Of a JSON body only an orderly server allows to say it: there the
  code relies on the server, and so does the proof.

`CallsAreSerial` states the mutual exclusion of `callMu` as a theorem of its own.

### SetupProofs

`SetupKeepsDefinitions`, `NoRefBroken`, `CompletedRunLoads`, `RewrittenEntryResolves`,
`UpdateRepairs` and `UninstallRemovesWrappers`, for any number of clients, names,
versions, runs and edits. An operation is a plan, made from files that change while it
is carried out; the invariant says of each plan, at every point of it, how it still fits
the files:

- `Staged`: what is left of the plan is an end of its operation's stages.
- `FilesFirst`: what will be listed has its wrapper config, or the plan still writes it.
- `SetupFits`: a setup drops from the list only what it was told to skip, and has
  written the list when it comes to the clients.
- `UpdateFits`: what an update of all clients removes is neither referred to nor about
  to be.
- `UninstallFits`: what an uninstall has not removed yet is in its plan, and a reference
  is left only where the latest backup has it.
- `BackedUpApart`: a run backs up under a stamp of its own, unless operations have
  shared one. So no backup is written over.
- `CopyHolds`: between the copy of a config and its write, the backups have every
  definition but those of `raced`. Without it nothing would be known of the config the
  write overwrites.

`Min` and `Max` of the community modules are CHOSEN; that a set of naturals has a least
element is taken from the library's theorems on well-founded relations.
Each theorem has the exceptions its property names (section 3). `UninstallIsClean` is
the strongest true form of what the README of the program promises of an uninstall;
finding 3 says why the promise itself is false.

### CredentialsProofs

`UsedTokenIsForServer` and `StoredCredentialIsWhole`. `StoredWhole` and `LoadedWhole`
say that the credential on file and those that processes have loaded have both tokens
from the server they name, whether or not the file can be read at the moment;
`SessionsBound` that a session goes on with a credential only for its own server. Saves
are not locked: the proof shows that it does not matter to these two properties,
because a write replaces all of the file. Both are about servers: that two tokens are of
one grant, or of one refresh, they do not say.

`ChainUnbroken` has an invariant of its own, `CInv`. Always: a token that is held was
issued, by one server (`TokensKnown`); a session that refreshes holds the token it
started from (`Holding`); a token just issued is held by the process it was issued to
and nobody else until that process has saved it (`NewIsOwn`, a theorem as well). While
no mishap has happened: no two sessions refresh one token (`OneRefresher`), the file
holds what a session started from or has moved on (`StartedFromStored`), and what is
about to be saved is live (`SavedIsLive`). The last two are what makes a save replace a
spent token by its successor and not by an older one.

### ServiceProofs

`InstallLeavesDaemon`, `UninstallLeavesNothing` and `DoneIsComplete`. `IInv` has:

- `Streams`: how far the two sides of a connection may be apart, from which
  `DoneIsComplete` follows.
- `CancelledAlive`: only living daemons are cancelled, so that a new instance is not.
- `Jobs`: what setup has reached decides its job, the platform and what the manager was
  told; in particular the manager starts nothing while setup is taking the service down,
  unless its stop commands failed, and only on Windows and after such a failure is the
  service still registered at the end of an uninstall.
- `Calm`, while `quiet`: only the service's own instance moves; when setup starts it,
  the path is free or the service's instance serves there, and an old instance that the
  stop commands did not end has lost its path; while setup polls, what is at the path
  is a serving instance's of the service. This is the argument why
  `pollSocket` is enough on Linux and macOS; on Windows the instance that setup could
  not wait for is excluded when the service is registered.

## 6. Limits

Only model-checked: liveness (`OrphanIsReaped`, `RequestIsAnswered`,
`MessageIsAnswered`, `SessionEnds`, `StopIsObeyed`), since fairness
and ENABLED are outside the prover, and the four properties that are violated. All other
properties of the runs are theorems.

`CallContract` is a contract of the stdio proxy only. A remote server's session may end
and be opened again, and a JSON body's id is not looked at; what the HTTP upstream keeps
of the contract, that a reply is the caller's own, is `ReplyIsOwn` of `HttpUpstream`.

Not modelled, with reasons: see `components` in `PROJECT.json`. In short:

- Counters, latencies, the status answer and `last_error` of the daemon: read and
  written under separate locks, so a snapshot may be inconsistent; planned.
- Framing (`jsonrpc/`), wrapper configuration, discovery, and the formats of the
  clients' configs: sequential conversions of text without shared state.
- `http_server.go`: constructed by tests only. The SSE transport of `proxy_http.go`:
  refused by `LoadConfig`.
- Two operations of setup at one time: each is a command a user waits for.
- Flags of the command line, wording of the units beyond restart policy, and test
  servers.
- Errors of single file operations during the installation of the service: setup stops
  there with an error, and none of the promises is about such an end. (The dropped errors
  of the stop commands are modelled: `StopFails`.)
