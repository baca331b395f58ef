------------------------------- MODULE Daemon -------------------------------
(***************************************************************************)
(* The shared daemon (internal/daemon/daemon.go): the table of wrapper     *)
(* configurations it serves, client connections bound to one of them, the  *)
(* three kinds of reload, the sets of replaced resources kept for clients  *)
(* of an earlier generation, and the shutdown.                             *)
(*                                                                         *)
(* Server keeps configs, proxies, loggers, closers and stats in five maps  *)
(* keyed by MCP name that are always replaced together; here one entry     *)
(* stands for what they hold under a name: the proxy object (for a shared  *)
(* config), the open log file and the counters created when the config was *)
(* loaded.  An entry is identified by its config and by the generation     *)
(* that created it, so that an entry reused by a reload is the same entry  *)
(* and a reloaded one is not.                                              *)
(*                                                                         *)
(* Everything done under Server.mu is one step.  Left out: last_error, the *)
(* counters and the log lines, which no step reads.                        *)
(***************************************************************************)
EXTENDS Naturals, Sequences

CONSTANTS
  Names,          \* MCP names
  Versions,       \* what distinguishes two configs of one name and sharing
  Conns,          \* connections the daemon has accepted
  NoClient,       \* clients[c] of a connection that is not registered
  Broken,         \* a wrapper config file that does not load, or whose log
                  \* file cannot be opened
  Listings,       \* what daemon.json may list at a reload; <<>> stands for a
                  \* daemon.json that does not load or moves the socket
  MaxGeneration   \* bound: no reload succeeds beyond this generation

Config == [name : Names, sharing : {"shared", "session"}, ver : Versions]
Entry  == [cfg : Config, born : Nat]
Client == [gen : Nat, entry : Entry, phase : {"running", "ended"}]

ASSUME ListingsAssumption ==
  /\ Listings \subseteq Seq(Config \cup {Broken})
  /\ Broken \notin Config
ASSUME NoClientAssumption == NoClient \notin Client

VARIABLES
  table,          \* entries new connections are bound to (configs, proxies,
                  \* loggers, closers and stats)
  generation,     \* Server.generation
  clients,        \* Server.activeClients, and the entry each handler uses
  retained,       \* Server.retained: replaced entries, tagged by generation
  openLogs,       \* entries whose log file is open
  real,           \* shared entries whose real MCP process is up
  sessionReal,    \* connections whose private real MCP process is up
  daemon          \* how far the shutdown has come

vars == <<table, generation, clients, retained, openLogs, real, sessionReal,
          daemon>>

TypeOK ==
  /\ table \subseteq Entry
  /\ generation \in Nat
  /\ clients \in [Conns -> Client \cup {NoClient}]
  /\ retained \subseteq [gen : Nat, entries : SUBSET Entry]
  /\ openLogs \subseteq Entry
  /\ real \subseteq Entry
  /\ sessionReal \subseteq Conns
  /\ daemon \in {"serving", "cancelled", "closing", "closed", "exited"}

-----------------------------------------------------------------------------
Items(l) == {l[k] : k \in DOMAIN l}

\* The loop over ConfigPaths stops at the first item that does not load or
\* repeats a name.
BadAt(l, k) == l[k] = Broken \/ \E j \in 1..(k - 1) : l[j] # Broken /\ l[j].name = l[k].name
\* Wrong on purpose: a config that does not load is passed over.
LoadableSkippingBroken(l) ==
  l # <<>> /\ \A k \in DOMAIN l : l[k] = Broken \/ ~BadAt(l, k)

Loadable(l) == l # <<>> /\ \A k \in DOMAIN l : ~BadAt(l, k)

\* The items the loop has passed when it stops at a bad one.
ItemsBeforeFailure(l) == {l[k] : k \in {i \in DOMAIN l : \A j \in 1..i : ~BadAt(l, j)}}

\* An unchanged config keeps its entry, any other gets a new one.
Reused(items)   == {e \in table : e.cfg \in items}
Created(items)  == {[cfg |-> i, born |-> generation + 1] :
                      i \in {x \in items : \A e \in table : e.cfg # x}}
\* Wrong on purpose: everything replaced counts as obsolete, reused or not.
ObsoleteWithReused(items) == table
Obsolete(items) == table \ Reused(items)

Active(c)       == clients[c] # NoClient
ActiveGeneration(g) == \E c \in Conns : Active(c) /\ clients[c].gen = g
RetainedEntries == UNION {r.entries : r \in retained}

-----------------------------------------------------------------------------
\* NewServerFromConfig: generation 1 is the empty server, its first load makes
\* generation 2.
Init ==
  /\ generation = 2
  /\ \E l \in Listings : Loadable(l) /\ table = {[cfg |-> i, born |-> 2] : i \in Items(l)}
  /\ clients = [c \in Conns |-> NoClient]
  /\ retained = {}
  /\ openLogs = table
  /\ real = {}
  /\ sessionReal = {}
  /\ daemon = "serving"

\* Wrong on purpose: the proxy is looked up before the lock is taken, so that it
\* may be one a reload has replaced meanwhile.
BindLookedUpEarlier(c) ==
  /\ daemon # "exited"
  /\ clients[c] = NoClient
  /\ \E e \in table \cup RetainedEntries :
       clients' = [clients EXCEPT ![c] = [gen |-> generation, entry |-> e, phase |-> "running"]]
  /\ UNCHANGED <<table, generation, retained, openLogs, real, sessionReal, daemon>>

\* bindClient: the entry is chosen and the client registered in one critical
\* section.
Bind(c) ==
  /\ daemon # "exited"
  /\ clients[c] = NoClient
  /\ \E e \in table :
       clients' = [clients EXCEPT ![c] = [gen |-> generation, entry |-> e, phase |-> "running"]]
  /\ UNCHANGED <<table, generation, retained, openLogs, real, sessionReal, daemon>>

\* A request of a connected client: ensureReal starts the real MCP process of
\* its proxy when it is not up, also when that proxy was closed by a reload.
Call(c) ==
  /\ daemon # "exited"
  /\ Active(c)
  /\ clients[c].phase = "running"
  /\ IF clients[c].entry.cfg.sharing = "shared"
       THEN /\ clients[c].entry \notin real
            /\ real' = real \cup {clients[c].entry}
            /\ UNCHANGED sessionReal
       ELSE /\ c \notin sessionReal
            /\ sessionReal' = sessionReal \cup {c}
            /\ UNCHANGED real
  /\ UNCHANGED <<table, generation, clients, retained, openLogs, daemon>>

\* A shared real MCP process ends: its idle timer fires, or it exits.
RealStops(e) ==
  /\ e \in real
  /\ real' = real \ {e}
  /\ UNCHANGED <<table, generation, clients, retained, openLogs, sessionReal, daemon>>

SessionRealStops(c) ==
  /\ c \in sessionReal
  /\ sessionReal' = sessionReal \ {c}
  /\ UNCHANGED <<table, generation, clients, retained, openLogs, real, daemon>>

\* Proxy.Run returns.  A shared proxy keeps its real process; a session proxy
\* stops it, in Run and again in the deferred Close.
ClientGone(c) ==
  /\ daemon # "exited"
  /\ Active(c)
  /\ clients[c].phase = "running"
  /\ clients' = [clients EXCEPT ![c].phase = "ended"]
  /\ sessionReal' = sessionReal \ {c}
  /\ UNCHANGED <<table, generation, retained, openLogs, real, daemon>>

\* Wrong on purpose: the first client to leave closes its generation's sets.
IdleSetsOnFirstLeave(g, leaving) == {r \in retained : r.gen = g}

\* closeRetainedIfIdleLocked(g), once the client that is leaving is out of
\* activeClients: the sets closed, and their entries.
IdleSets(g, leaving) ==
  IF \E d \in Conns \ {leaving} : Active(d) /\ clients[d].gen = g
    THEN {}
    ELSE {r \in retained : r.gen = g}
EntriesOf(sets) == UNION {r.entries : r \in sets}

\* unregisterClient, deferred by handleConn until after the session is closed.
Unregister(c) ==
  /\ daemon # "exited"
  /\ Active(c)
  /\ clients[c].phase = "ended"
  /\ clients' = [clients EXCEPT ![c] = NoClient]
  /\ LET idle == IdleSets(clients[c].gen, c) IN
       /\ retained' = retained \ idle
       /\ openLogs' = openLogs \ EntriesOf(idle)
       /\ real' = real \ EntriesOf(idle)
  /\ UNCHANGED <<table, generation, sessionReal, daemon>>

-----------------------------------------------------------------------------
Modes == {"plain", "graceful", "force"}

\* A plain reload is refused while a client is registered.
MayReload(mode) == mode = "plain" => \A c \in Conns : ~Active(c)

\* Wrong on purpose: no cleanupCreated.
ReloadFailsLeaking(l) ==
  /\ openLogs' = openLogs \cup Created(ItemsBeforeFailure(l))
  /\ UNCHANGED <<table, generation, retained, real>>

\* Wrong on purpose: what was loaded before the failure is put into service.
ReloadFailsHalfWay(l) ==
  LET created == Created(ItemsBeforeFailure(l)) IN
  /\ table' = table \cup created
  /\ openLogs' = openLogs \cup created
  /\ UNCHANGED <<generation, retained, real>>

\* reload whose reloadFromConfigLocked fails: what was created before the
\* failure is closed again and the tables stay.
ReloadFails(l) ==
  LET created == Created(ItemsBeforeFailure(l)) IN
  /\ openLogs' = (openLogs \cup created) \ created
  /\ real' = real \ created
  /\ UNCHANGED <<table, generation, retained>>

\* Wrong on purpose: a graceful reload keeps the replaced entries for nobody.
KeepsAlways(mode) == mode = "graceful"

\* retainOrCloseResourceSetLocked: a graceful reload keeps the replaced
\* entries when a client of the generation being replaced is registered.
Keeps(mode) == mode = "graceful" /\ ActiveGeneration(generation)

ReloadSucceeds(mode, l) ==
  LET old     == Obsolete(Items(l))
      created == Created(Items(l))
      kept    == IF old # {} /\ Keeps(mode) THEN old ELSE {}
      closed  == old \ kept
  IN
  /\ generation < MaxGeneration
  /\ generation' = generation + 1
  /\ table' = Reused(Items(l)) \cup created
  /\ retained' = retained \cup
       (IF kept = {} THEN {} ELSE {[gen |-> generation, entries |-> kept]})
  /\ openLogs' = (openLogs \cup created) \ closed
  /\ real' = real \ closed

Reload(mode, l) ==
  /\ daemon # "exited"
  /\ MayReload(mode)
  /\ IF Loadable(l) THEN ReloadSucceeds(mode, l) ELSE ReloadFails(l)
  /\ UNCHANGED <<clients, sessionReal, daemon>>

-----------------------------------------------------------------------------
\* stop, or a signal: the listener closes and Serve returns.  Handlers that
\* are already running go on until the process exits.
Cancel ==
  /\ daemon = "serving"
  /\ daemon' = "cancelled"
  /\ UNCHANGED <<table, generation, clients, retained, openLogs, real, sessionReal>>

\* closeResources, deferred by Serve.  It does not take Server.mu, so handlers
\* may run between its two halves: the current maps, then the retained sets.
CloseCurrent ==
  /\ daemon = "cancelled"
  /\ daemon' = "closing"
  /\ openLogs' = openLogs \ table
  /\ real' = real \ table
  /\ UNCHANGED <<table, generation, clients, retained, sessionReal>>

CloseRetained ==
  /\ daemon = "closing"
  /\ daemon' = "closed"
  /\ openLogs' = openLogs \ RetainedEntries
  /\ real' = real \ RetainedEntries
  /\ retained' = {}
  /\ UNCHANGED <<table, generation, clients, sessionReal>>

\* The process ends with the connections, the retained sets and the files it
\* still holds.
Exit ==
  /\ daemon = "closed"
  /\ daemon' = "exited"
  /\ clients' = [c \in Conns |-> NoClient]
  /\ retained' = {}
  /\ openLogs' = {}
  /\ UNCHANGED <<table, generation, real, sessionReal>>

Next ==
  \/ \E c \in Conns : Bind(c)
  \/ \E c \in Conns : Call(c)
  \/ \E e \in real : RealStops(e)
  \/ \E c \in Conns : SessionRealStops(c)
  \/ \E c \in Conns : ClientGone(c)
  \/ \E c \in Conns : Unregister(c)
  \/ \E mode \in Modes, l \in Listings : Reload(mode, l)
  \/ Cancel
  \/ CloseCurrent
  \/ CloseRetained
  \/ Exit

Spec == Init /\ [][Next]_vars

-----------------------------------------------------------------------------
(* Fairness: the idle timer of a real process fires once no client can use *)
(* it any more (LoadConfig makes idle_timeout non-zero).  Nothing obliges a *)
(* client to call, to leave or to reload.                                   *)
Held(e) == \E c \in Conns : Active(c) /\ clients[c].entry = e

\* Wrong on purpose: a sweep over the known entries instead of a timer per
\* process.
IdleStopOfKnown(e) ==
  /\ daemon # "exited"
  /\ e \in table \cup RetainedEntries
  /\ ~Held(e)
  /\ RealStops(e)

IdleStop(e) ==
  /\ daemon # "exited"
  /\ ~Held(e)
  /\ RealStops(e)

BoundedEntry == [cfg : Config, born : 2..MaxGeneration]

FairSpec == Spec /\ \A e \in BoundedEntry : WF_vars(IdleStop(e))

-----------------------------------------------------------------------------
(* Properties                                                              *)

Serving == daemon \in {"serving", "cancelled"}

\* Before the shutdown closes resources, the open log files are exactly those
\* of the current table and of the retained sets: no reload, failed or not,
\* and no departure leaks a file or closes one that is still in use
\* (reloadFromConfigLocked, retainOrCloseResourceSetLocked,
\* closeRetainedIfIdleLocked).
OpenLogsAreOwned == Serving => openLogs = table \cup RetainedEntries

\* A retained set always has a registered client of its generation, so the
\* departure that must close it is still to come: no set stays for ever
\* (unregisterClient, closeRetainedIfIdleLocked).
RetainedSetHasUser == \A r \in retained : ActiveGeneration(r.gen)

\* Clients of one generation bound to the same shared MCP use the same proxy,
\* hence the same real MCP process, however many reloads came between their
\* binding and now (bindClient under Server.mu).
SameGenerationSameProxy ==
  \A c, d \in Conns :
    /\ Active(c) /\ Active(d)
    /\ clients[c].gen = clients[d].gen
    /\ clients[c].entry.cfg.name = clients[d].entry.cfg.name
    => clients[c].entry = clients[d].entry

\* The entry of client c is still looked after on behalf of c's generation.
GuardedFor(c) ==
  /\ Active(c)
  /\ \/ clients[c].gen = generation
     \/ \E r \in retained : r.gen = clients[c].gen /\ clients[c].entry \in r.entries

\* While the daemon serves and nothing is reloaded by force, a client whose
\* entry was current when it was replaced gracefully, or is current still,
\* keeps that entry's log file open: other clients leaving and further
\* graceful reloads do not close it.
KeepsGuarded ==
  \A c \in Conns :
    /\ Serving /\ daemon' = daemon
    /\ ~(\E l \in Listings : Reload("force", l))
    /\ GuardedFor(c)
    /\ Active(c)'
    => clients[c].entry \in openLogs'
GracefulKeepsOwnGeneration == [][KeepsGuarded]_vars

\* A reload leaves a config it finds unchanged with its entry, its open log
\* and its running real MCP process (reloadFromConfigLocked's reuse branch and
\* obsoleteResourceSetLocked).
KeepsUnchanged ==
  generation' # generation =>
    \A e \in table, f \in table' :
      e.cfg = f.cfg =>
        /\ f = e
        /\ e \in real => e \in real'
        /\ e \in openLogs => e \in openLogs'
UnchangedConfigKeepsProcess == [][KeepsUnchanged]_vars

\* README.md "Control the shared daemon": after graceful reloads existing
\* clients keep their old proxies until they disconnect.  A client that is
\* connected across a reload made with --graceful keeps its proxy's log file
\* open and its real MCP process running.
GracefulKeepsOldClients ==
  [][(\E l \in Listings : Reload("graceful", l)) =>
       \A c \in Conns :
         Active(c) =>
           /\ clients[c].entry \in openLogs => clients[c].entry \in openLogs'
           /\ clients[c].entry \in real => clients[c].entry \in real']_vars

\* A real MCP process of a replaced entry that no client holds any more, which
\* a forced reload may leave behind when a client revived it, is stopped in
\* the end by its idle timer: nothing can bind to it and revive it again.
OrphanIsReaped ==
  \A e \in BoundedEntry :
    (e \in real /\ e \notin table /\ ~Held(e)) ~> (e \notin real \/ daemon = "exited")

\* The daemon implements the contract of ReloadContract: the offer is always
\* one complete loadable listing, and a client is served under the config it
\* was bound to.
Offer == INSTANCE ReloadContract WITH
  NoConfig <- NoClient,
  offered  <- {e.cfg : e \in table},
  served   <- [c \in Conns |-> IF Active(c) THEN clients[c].entry.cfg ELSE NoClient]

KeepsContract == Offer!Contract
=============================================================================
