---------------------------- MODULE DaemonProofs ----------------------------
(***************************************************************************)
(* Proofs about Daemon, for any sets of names, versions, connections and   *)
(* listings and any bound on the generation.                               *)
(***************************************************************************)
EXTENDS Daemon, TLAPS

-----------------------------------------------------------------------------
(* The inductive invariant.                                                *)

\* The table is a map keyed by MCP name.
TableIsMap == \A e, f \in table : e.cfg.name = f.cfg.name => e = f

\* Entries are as old as the generation that serves or replaced them, so that
\* those a reload creates are new.
BornInPast ==
  /\ \A e \in table : e.born <= generation
  /\ \A r \in retained : r.gen < generation
  /\ \A r \in retained : \A e \in r.entries : e.born <= generation

\* A replaced entry has exactly one owner.
OneOwner ==
  /\ \A r \in retained : r.entries \cap table = {}
  /\ \A r, s \in retained : r # s => r.entries \cap s.entries = {}

\* A client of the current generation is bound to an entry of the table.
ClientsOnTable ==
  \A c \in Conns :
    Active(c) =>
      /\ clients[c].gen <= generation
      /\ clients[c].gen = generation => clients[c].entry \in table

IInv ==
  /\ TypeOK
  /\ TableIsMap
  /\ BornInPast
  /\ OneOwner
  /\ ClientsOnTable
  /\ OpenLogsAreOwned
  /\ RetainedSetHasUser
  /\ SameGenerationSameProxy

-----------------------------------------------------------------------------
(* Listings.                                                               *)

\* What a listing that loads contains: configs with distinct names.
LEMMA LoadableItems ==
  ASSUME NEW l \in Listings, Loadable(l)
  PROVE  /\ Items(l) \subseteq Config
         /\ \A x, y \in Items(l) : x.name = y.name => x = y
<1>1. l \in Seq(Config \cup {Broken})
  BY ListingsAssumption
<1>2. \A k \in DOMAIN l : l[k] # Broken
  BY DEF Loadable, BadAt
<1>3. DOMAIN l = 1..Len(l)  /\ Len(l) \in Nat /\ \A k \in DOMAIN l : l[k] \in Config \cup {Broken}
  BY <1>1
<1>4. \A j, k \in DOMAIN l : j < k => l[j].name # l[k].name
  <2> TAKE j, k \in DOMAIN l
  <2> HAVE j < k
  <2>1. j \in 1..(k - 1)
    BY <1>3
  <2> QED
    BY <2>1, <1>2 DEF Loadable, BadAt
<1>5. \A j, k \in DOMAIN l : l[j].name = l[k].name => j = k
  BY <1>3, <1>4
<1> QED
  BY <1>2, <1>3, <1>5 DEF Items

\* What a failing reload has loaded before the failure.
LEMMA ItemsBeforeFailureAreConfigs ==
  ASSUME NEW l \in Listings
  PROVE  ItemsBeforeFailure(l) \subseteq Config
<1>1. l \in Seq(Config \cup {Broken})
  BY ListingsAssumption
<1>2. DOMAIN l = 1..Len(l)  /\ Len(l) \in Nat /\ \A k \in DOMAIN l : l[k] \in Config \cup {Broken}
  BY <1>1
<1>3. ASSUME NEW i \in DOMAIN l, \A j \in 1..i : ~BadAt(l, j)
      PROVE  l[i] \in Config
  <2>1. i \in 1..i
    BY <1>2
  <2> QED
    BY <1>2, <1>3, <2>1 DEF BadAt
<1> QED
  BY <1>3 DEF ItemsBeforeFailure

\* Entries a reload creates are new: their generation is the next one.
LEMMA CreatedAreNew ==
  ASSUME IInv, NEW items, items \subseteq Config
  PROVE  /\ Created(items) \subseteq Entry
         /\ \A e \in Created(items) : e.born = generation + 1 /\ e.cfg \in items
         /\ Created(items) \cap table = {}
         /\ \A r \in retained : Created(items) \cap r.entries = {}
<1>1. generation \in Nat /\ table \subseteq Entry /\ retained \subseteq [gen : Nat, entries : SUBSET Entry]
  BY DEF IInv, TypeOK
<1>2. \A e \in Created(items) : e.born = generation + 1 /\ e.cfg \in items
  BY DEF Created
<1>3. Created(items) \subseteq Entry
  BY <1>1 DEF Created, Entry
<1>4. \A e \in table : e.born # generation + 1
  BY <1>1 DEF IInv, BornInPast, Entry
<1>5. \A r \in retained : \A e \in r.entries : e.born # generation + 1
  BY <1>1 DEF IInv, BornInPast, Entry
<1> QED
  BY <1>2, <1>3, <1>4, <1>5

-----------------------------------------------------------------------------
(* Init => IInv                                                            *)

LEMMA InitIInv == Init => IInv
<1> SUFFICES ASSUME Init PROVE IInv
  OBVIOUS
<1>1. PICK l \in Listings : Loadable(l) /\ table = {[cfg |-> i, born |-> 2] : i \in Items(l)}
  BY DEF Init
<1>2. Items(l) \subseteq Config /\ \A x, y \in Items(l) : x.name = y.name => x = y
  BY <1>1, LoadableItems
<1>3. table \subseteq Entry /\ \A e \in table : e.cfg \in Items(l) /\ e.born = 2
  BY <1>1, <1>2 DEF Entry
<1>4. TypeOK
  BY <1>3, NoClientAssumption DEF Init, TypeOK
<1>5. TableIsMap
  BY <1>1, <1>2 DEF TableIsMap
<1>6. BornInPast /\ OneOwner /\ RetainedSetHasUser
  BY <1>3 DEF Init, BornInPast, OneOwner, RetainedSetHasUser
<1>7. ClientsOnTable /\ SameGenerationSameProxy
  BY DEF Init, ClientsOnTable, SameGenerationSameProxy, Active
<1>8. OpenLogsAreOwned
  BY DEF Init, OpenLogsAreOwned, RetainedEntries
<1> QED
  BY <1>4, <1>5, <1>6, <1>7, <1>8 DEF IInv

-----------------------------------------------------------------------------
(* IInv /\ [Next]_vars => IInv', one lemma per kind of step.               *)

\* A client is registered under the current generation with an entry of the
\* table: the others of its generation are on the table too, which is a map.
LEMMA BindIInv == ASSUME IInv, NEW c \in Conns, Bind(c) PROVE IInv'
<1> USE DEF Active
<1>1. PICK e \in table :
        clients' = [clients EXCEPT ![c] = [gen |-> generation, entry |-> e, phase |-> "running"]]
  BY DEF Bind
<1>2. UNCHANGED <<table, generation, retained, openLogs, real, sessionReal, daemon>>
  BY DEF Bind
<1>3. e \in Entry /\ generation \in Nat /\ clients \in [Conns -> Client \cup {NoClient}]
  BY DEF IInv, TypeOK
<1>4. [gen |-> generation, entry |-> e, phase |-> "running"] \in Client
  BY <1>3 DEF Client
<1>5. TypeOK'
  BY <1>1, <1>2, <1>3, <1>4 DEF IInv, TypeOK
<1>6. (TableIsMap /\ BornInPast /\ OneOwner /\ OpenLogsAreOwned)'
  BY <1>2 DEF IInv, TableIsMap, BornInPast, OneOwner, OpenLogsAreOwned, Serving, RetainedEntries
<1>7. \A d \in Conns : clients'[d] = IF d = c THEN [gen |-> generation, entry |-> e, phase |-> "running"] ELSE clients[d]
  BY <1>1, <1>3
<1>8. ClientsOnTable'
  BY <1>2, <1>3, <1>7 DEF IInv, ClientsOnTable
<1>9. clients[c] = NoClient
  BY DEF Bind
<1>10. RetainedSetHasUser'
  BY <1>2, <1>7, <1>9 DEF IInv, RetainedSetHasUser, ActiveGeneration
<1>11. SameGenerationSameProxy'
  <2> SUFFICES ASSUME NEW x \in Conns, NEW y \in Conns, Active(x)', Active(y)',
                      clients'[x].gen = clients'[y].gen,
                      clients'[x].entry.cfg.name = clients'[y].entry.cfg.name
               PROVE  clients'[x].entry = clients'[y].entry
    BY DEF SameGenerationSameProxy
  <2>1. CASE x # c /\ y # c
    BY <2>1, <1>7 DEF IInv, SameGenerationSameProxy
  <2>2. CASE x = c \/ y = c
    <3>1. clients'[x].gen = generation /\ clients'[y].gen = generation
      BY <2>2, <1>7
    <3>2. clients'[x].entry \in table /\ clients'[y].entry \in table
      BY <3>1, <1>2, <1>8 DEF ClientsOnTable
    <3> QED
      BY <3>2 DEF IInv, TableIsMap
  <2> QED
    BY <2>1, <2>2
<1> QED
  BY <1>5, <1>6, <1>8, <1>10, <1>11 DEF IInv

\* Steps that only start or stop a real process, and the one that ends a run:
\* registrations, tables and files stay.
LEMMA RunIInv ==
  ASSUME IInv,
         \/ \E c \in Conns : Call(c) \/ SessionRealStops(c) \/ ClientGone(c)
         \/ \E e \in real : RealStops(e)
  PROVE  IInv'
<1>1. /\ UNCHANGED <<table, generation, retained, openLogs, daemon>>
      /\ real' \subseteq real \cup {clients[c].entry : c \in {x \in Conns : Active(x)}}
      /\ sessionReal' \subseteq Conns
  BY DEF Call, SessionRealStops, ClientGone, RealStops, IInv, TypeOK
<1>2. /\ clients' \in [Conns -> Client \cup {NoClient}]
      /\ \A d \in Conns :
           /\ Active(d)' <=> Active(d)
           /\ clients'[d].gen = clients[d].gen
           /\ clients'[d].entry = clients[d].entry
  <2>1. CASE \E c \in Conns : ClientGone(c)
    <3>1. PICK c \in Conns : ClientGone(c)
      BY <2>1
    <3>2. /\ clients[c] \in Client
          /\ clients' = [clients EXCEPT ![c].phase = "ended"]
          /\ clients \in [Conns -> Client \cup {NoClient}]
      BY <3>1 DEF ClientGone, Active, IInv, TypeOK
    <3>3. [clients[c] EXCEPT !.phase = "ended"] \in Client
      BY <3>2 DEF Client
    <3>4. \A d \in Conns : clients'[d] = IF d = c THEN [clients[c] EXCEPT !.phase = "ended"] ELSE clients[d]
      BY <3>2
    <3>5. clients'[c].gen = clients[c].gen /\ clients'[c].entry = clients[c].entry
      BY <3>2, <3>4 DEF Client
    <3>6. Active(c) /\ Active(c)'
      BY <3>1, <3>3, <3>4, NoClientAssumption DEF ClientGone, Active
    <3> QED
      BY <3>2, <3>3, <3>4, <3>5, <3>6 DEF Active
  <2>2. CASE UNCHANGED clients
    BY <2>2 DEF IInv, TypeOK, Active
  <2> QED
    BY <2>1, <2>2 DEF Call, SessionRealStops, RealStops
<1>3. TypeOK'
  BY <1>1, <1>2 DEF IInv, TypeOK, Active, Client
<1>4. (TableIsMap /\ BornInPast /\ OneOwner /\ OpenLogsAreOwned)'
  BY <1>1 DEF IInv, TableIsMap, BornInPast, OneOwner, OpenLogsAreOwned, Serving, RetainedEntries
<1>5. (ClientsOnTable /\ RetainedSetHasUser /\ SameGenerationSameProxy)'
  BY <1>1, <1>2 DEF IInv, ClientsOnTable, RetainedSetHasUser, ActiveGeneration, SameGenerationSameProxy
<1> QED
  BY <1>3, <1>4, <1>5 DEF IInv

\* A departure closes the sets nobody else of its generation needs; they own
\* none of the entries that stay.
LEMMA UnregisterIInv == ASSUME IInv, NEW c \in Conns, Unregister(c) PROVE IInv'
<1> DEFINE idle == IdleSets(clients[c].gen, c)
<1>1. /\ retained' = retained \ idle
      /\ openLogs' = openLogs \ EntriesOf(idle)
      /\ real' = real \ EntriesOf(idle)
      /\ clients' = [clients EXCEPT ![c] = NoClient]
      /\ UNCHANGED <<table, generation, sessionReal, daemon>>
  BY DEF Unregister
<1>2. idle \subseteq retained
  BY DEF IdleSets
<1>3. clients \in [Conns -> Client \cup {NoClient}]
  BY DEF IInv, TypeOK
<1>4. \A d \in Conns : clients'[d] = IF d = c THEN NoClient ELSE clients[d]
  BY <1>1, <1>3
<1>5. TypeOK'
  BY <1>1, <1>3 DEF IInv, TypeOK
<1>6. (TableIsMap /\ BornInPast /\ OneOwner)'
  BY <1>1 DEF IInv, TableIsMap, BornInPast, OneOwner
<1>7. (ClientsOnTable /\ SameGenerationSameProxy)'
  BY <1>1, <1>4 DEF IInv, ClientsOnTable, SameGenerationSameProxy, Active
<1>8. RetainedSetHasUser'
  <2> SUFFICES ASSUME NEW r \in retained \ idle PROVE ActiveGeneration(r.gen)'
    BY <1>1 DEF RetainedSetHasUser, ActiveGeneration
  <2>1. PICK d \in Conns : Active(d) /\ clients[d].gen = r.gen
    BY DEF IInv, RetainedSetHasUser, ActiveGeneration
  <2>2. CASE d # c
    BY <2>1, <2>2, <1>4 DEF ActiveGeneration, Active
  <2>3. CASE d = c
    <3>1. PICK x \in Conns \ {c} : Active(x) /\ clients[x].gen = clients[c].gen
      BY <2>1, <2>3 DEF IdleSets
    <3> QED
      BY <3>1, <2>1, <2>3, <1>4 DEF ActiveGeneration, Active
  <2> QED
    BY <2>2, <2>3
<1>9. OpenLogsAreOwned'
  <2> SUFFICES ASSUME Serving PROVE openLogs' = table' \cup RetainedEntries'
    BY <1>1 DEF OpenLogsAreOwned, Serving
  <2>1. openLogs = table \cup RetainedEntries
    BY DEF IInv, OpenLogsAreOwned
  <2>2. RetainedEntries' = RetainedEntries \ EntriesOf(idle)
    BY <1>1, <1>2 DEF RetainedEntries, EntriesOf, IInv, OneOwner
  <2>3. table \cap EntriesOf(idle) = {}
    BY <1>2 DEF EntriesOf, IInv, OneOwner
  <2> QED
    BY <1>1, <2>1, <2>2, <2>3
<1> QED
  BY <1>5, <1>6, <1>7, <1>8, <1>9 DEF IInv

\* A failing reload closes exactly what it created: nothing changes.
LEMMA ReloadFailsIInv ==
  ASSUME IInv, NEW l \in Listings, ReloadFails(l), UNCHANGED <<clients, sessionReal, daemon>>
  PROVE  IInv'
<1> DEFINE created == Created(ItemsBeforeFailure(l))
<1>1. /\ openLogs' = (openLogs \cup created) \ created
      /\ real' = real \ created
      /\ UNCHANGED <<table, generation, retained, clients, sessionReal, daemon>>
  BY DEF ReloadFails
<1>2. ItemsBeforeFailure(l) \subseteq Config
  BY ItemsBeforeFailureAreConfigs
<1>3. /\ created \subseteq Entry
      /\ created \cap table = {}
      /\ \A r \in retained : created \cap r.entries = {}
  BY <1>2, CreatedAreNew
<1>4. TypeOK'
  BY <1>1, <1>3 DEF IInv, TypeOK
<1>5. OpenLogsAreOwned'
  BY <1>1, <1>3 DEF IInv, OpenLogsAreOwned, Serving, RetainedEntries
<1>6. (TableIsMap /\ BornInPast /\ OneOwner /\ ClientsOnTable /\ RetainedSetHasUser /\ SameGenerationSameProxy)'
  BY <1>1 DEF IInv, TableIsMap, BornInPast, OneOwner, ClientsOnTable, RetainedSetHasUser,
              ActiveGeneration, SameGenerationSameProxy, Active
<1> QED
  BY <1>4, <1>5, <1>6 DEF IInv

\* A successful reload splits the old table into reused and obsolete entries;
\* the latter are closed or handed to one new retained set.
LEMMA ReloadSucceedsIInv ==
  ASSUME IInv, NEW mode \in Modes, NEW l \in Listings, Loadable(l), ReloadSucceeds(mode, l),
         UNCHANGED <<clients, sessionReal, daemon>>
  PROVE  IInv'
<1> DEFINE old     == Obsolete(Items(l))
           created == Created(Items(l))
           kept    == IF old # {} /\ Keeps(mode) THEN old ELSE {}
           closed  == old \ kept
           set     == [gen |-> generation, entries |-> kept]
<1>1. /\ generation' = generation + 1
      /\ table' = Reused(Items(l)) \cup created
      /\ retained' = retained \cup (IF kept = {} THEN {} ELSE {set})
      /\ openLogs' = (openLogs \cup created) \ closed
      /\ real' = real \ closed
      /\ UNCHANGED <<clients, sessionReal, daemon>>
  BY DEF ReloadSucceeds
<1>2. /\ Items(l) \subseteq Config
      /\ \A x, y \in Items(l) : x.name = y.name => x = y
  BY LoadableItems
<1>3. /\ created \subseteq Entry
      /\ \A e \in created : e.born = generation + 1 /\ e.cfg \in Items(l)
      /\ created \cap table = {}
      /\ \A r \in retained : created \cap r.entries = {}
  BY <1>2, CreatedAreNew
<1>4. /\ table \subseteq Entry /\ generation \in Nat
      /\ retained \subseteq [gen : Nat, entries : SUBSET Entry]
  BY DEF IInv, TypeOK
<1>5. /\ Reused(Items(l)) \subseteq table /\ old = table \ Reused(Items(l))
      /\ kept \subseteq old /\ closed = old \ kept
  BY DEF Reused, Obsolete
<1>6. kept # {} => ActiveGeneration(generation)
  BY DEF Keeps
<1>7. set \in [gen : Nat, entries : SUBSET Entry] /\ set.gen = generation /\ set.entries = kept
  BY <1>4, <1>5
<1> HIDE DEF old, created, kept, closed, set
<1>8. TypeOK'
  BY <1>1, <1>3, <1>4, <1>5, <1>7 DEF IInv, TypeOK
<1>9. TableIsMap'
  <2> SUFFICES ASSUME NEW e \in table', NEW f \in table', e.cfg.name = f.cfg.name
               PROVE  e = f
    BY DEF TableIsMap
  <2>1. e.cfg \in Items(l) /\ f.cfg \in Items(l)
    BY <1>1, <1>3 DEF Reused
  <2>2. e.cfg = f.cfg
    BY <2>1, <1>2
  <2>3. CASE e \in table /\ f \in table
    BY <2>3 DEF IInv, TableIsMap
  <2>4. CASE e \in created /\ f \in created
    BY <2>4, <2>2 DEF created, Created
  <2>5. CASE e \in table /\ f \in created
    BY <2>5, <2>2 DEF created, Created
  <2>6. CASE e \in created /\ f \in table
    BY <2>6, <2>2 DEF created, Created
  <2> QED
    BY <2>3, <2>4, <2>5, <2>6, <1>1, <1>5
<1>10. BornInPast'
  <2>1. \A e \in table' : e.born <= generation'
    BY <1>1, <1>3, <1>4, <1>5 DEF IInv, BornInPast, Entry
  <2>2. \A r \in retained' : r.gen < generation'
    BY <1>1, <1>4, <1>7 DEF IInv, BornInPast
  <2>3. \A r \in retained' : \A e \in r.entries : e.born <= generation'
    BY <1>1, <1>4, <1>5, <1>7 DEF IInv, BornInPast, Entry
  <2> QED
    BY <2>1, <2>2, <2>3 DEF BornInPast
<1>11. OneOwner'
  <2>1. \A r \in retained' : r.entries \cap table' = {}
    BY <1>1, <1>3, <1>5, <1>7 DEF IInv, OneOwner
  <2>2. \A r \in retained : r.entries \cap kept = {}
    BY <1>5 DEF IInv, OneOwner
  <2>3. \A r, s \in retained' : r # s => r.entries \cap s.entries = {}
    BY <1>1, <1>7, <2>2 DEF IInv, OneOwner
  <2> QED
    BY <2>1, <2>3 DEF OneOwner
<1>12. ClientsOnTable'
  BY <1>1, <1>4 DEF IInv, ClientsOnTable, Active, TypeOK, Client
<1>13. RetainedSetHasUser'
  BY <1>1, <1>6, <1>7 DEF IInv, RetainedSetHasUser, ActiveGeneration, Active
<1>14. SameGenerationSameProxy'
  BY <1>1 DEF IInv, SameGenerationSameProxy, Active
<1>15. OpenLogsAreOwned'
  <2> SUFFICES ASSUME Serving PROVE openLogs' = table' \cup RetainedEntries'
    BY <1>1 DEF OpenLogsAreOwned, Serving
  <2>1. openLogs = table \cup RetainedEntries
    BY DEF IInv, OpenLogsAreOwned
  <2>2. RetainedEntries' = RetainedEntries \cup kept
    BY <1>1, <1>7 DEF RetainedEntries
  <2>3. closed \cap RetainedEntries = {}
    BY <1>5 DEF RetainedEntries, IInv, OneOwner
  <2>4. closed \cap created = {}
    BY <1>3, <1>5
  <2> QED
    BY <1>1, <1>5, <2>1, <2>2, <2>3, <2>4
<1> QED
  BY <1>8, <1>9, <1>10, <1>11, <1>12, <1>13, <1>14, <1>15 DEF IInv

LEMMA ReloadIInv ==
  ASSUME IInv, NEW mode \in Modes, NEW l \in Listings, Reload(mode, l) PROVE IInv'
BY ReloadFailsIInv, ReloadSucceedsIInv DEF Reload

\* The shutdown.
LEMMA ShutdownIInv ==
  ASSUME IInv, Cancel \/ CloseCurrent \/ CloseRetained \/ Exit PROVE IInv'
<1>1. CASE Cancel
  BY <1>1 DEF Cancel, IInv, TypeOK, TableIsMap, BornInPast, OneOwner, ClientsOnTable, Active,
     OpenLogsAreOwned, Serving, RetainedEntries, RetainedSetHasUser, ActiveGeneration, SameGenerationSameProxy
<1>2. CASE CloseCurrent
  BY <1>2 DEF CloseCurrent, IInv, TypeOK, TableIsMap, BornInPast, OneOwner, ClientsOnTable, Active,
     OpenLogsAreOwned, Serving, RetainedSetHasUser, ActiveGeneration, SameGenerationSameProxy
<1>3. CASE CloseRetained
  BY <1>3 DEF CloseRetained, IInv, TypeOK, TableIsMap, BornInPast, OneOwner, ClientsOnTable, Active,
     OpenLogsAreOwned, Serving, RetainedSetHasUser, SameGenerationSameProxy
<1>4. CASE Exit
  BY <1>4 DEF Exit, IInv, TypeOK, TableIsMap, BornInPast, OneOwner, ClientsOnTable, Active,
     OpenLogsAreOwned, Serving, RetainedSetHasUser, SameGenerationSameProxy
<1> QED
  BY <1>1, <1>2, <1>3, <1>4

LEMMA StutterIInv == ASSUME IInv, UNCHANGED vars PROVE IInv'
BY DEF vars, IInv, TypeOK, TableIsMap, BornInPast, OneOwner, ClientsOnTable, Active, OpenLogsAreOwned,
   Serving, RetainedEntries, RetainedSetHasUser, ActiveGeneration, SameGenerationSameProxy

LEMMA NextIInv == IInv /\ [Next]_vars => IInv'
BY BindIInv, RunIInv, UnregisterIInv, ReloadIInv, ShutdownIInv, StutterIInv DEF Next

-----------------------------------------------------------------------------
(* Theorems                                                                *)

\* The inductive invariant holds in every reachable state.
THEOREM Invariant == Spec => []IInv
BY InitIInv, NextIInv, PTL DEF Spec

\* Every variable keeps its type (the daemon's maps hold entries, the retained
\* sets are sets of entries).
THEOREM TypeCorrect == Spec => []TypeOK
<1>1. IInv => TypeOK
  BY DEF IInv
<1> QED
  BY <1>1, Invariant, PTL

\* No reload and no departure leaks a log file or closes one in use
\* (reloadFromConfigLocked, retainOrCloseResourceSetLocked,
\* closeRetainedIfIdleLocked).
THEOREM LogOwnership == Spec => []OpenLogsAreOwned
<1>1. IInv => OpenLogsAreOwned
  BY DEF IInv
<1> QED
  BY <1>1, Invariant, PTL

\* Each retained set is closed by a departure that is still to come
\* (unregisterClient).
THEOREM RetainedSetsAreUsed == Spec => []RetainedSetHasUser
<1>1. IInv => RetainedSetHasUser
  BY DEF IInv
<1> QED
  BY <1>1, Invariant, PTL

\* Clients of one generation share the proxy of a shared MCP (bindClient).
THEOREM SharedProxy == Spec => []SameGenerationSameProxy
<1>1. IInv => SameGenerationSameProxy
  BY DEF IInv
<1> QED
  BY <1>1, Invariant, PTL

-----------------------------------------------------------------------------
(* Action properties, from the same invariant.                             *)

\* Where the open log of a guarded client's entry is recorded.
LEMMA GuardedIsOpen ==
  ASSUME IInv, Serving, NEW c \in Conns, GuardedFor(c)
  PROVE  clients[c].entry \in openLogs
BY DEF IInv, OpenLogsAreOwned, RetainedEntries, ClientsOnTable, GuardedFor

\* Only a reload changes the generation, and an unchanged entry is neither
\* obsolete nor created.
LEMMA StepKeepsUnchanged == ASSUME IInv, [Next]_vars PROVE [KeepsUnchanged]_vars
<1> SUFFICES ASSUME Next, generation' # generation PROVE KeepsUnchanged
  BY DEF KeepsUnchanged, vars
<1>1. PICK mode \in Modes, l \in Listings : Reload(mode, l)
  BY DEF Next, Bind, Call, RealStops, SessionRealStops, ClientGone, Unregister, Cancel,
         CloseCurrent, CloseRetained, Exit
<1>2. Loadable(l) /\ ReloadSucceeds(mode, l)
  BY <1>1 DEF Reload, ReloadFails
<1> SUFFICES ASSUME NEW e \in table, NEW f \in table', e.cfg = f.cfg
             PROVE  /\ f = e
                    /\ e \in real => e \in real'
                    /\ e \in openLogs => e \in openLogs'
  BY DEF KeepsUnchanged
<1>3. table' = Reused(Items(l)) \cup Created(Items(l))
  BY <1>2 DEF ReloadSucceeds
<1>4. f \in Reused(Items(l))
  BY <1>3 DEF Created
<1>5. f = e
  BY <1>4 DEF Reused, IInv, TableIsMap
<1>6. e \notin Obsolete(Items(l))
  BY <1>4, <1>5 DEF Obsolete
<1> QED
  BY <1>2, <1>5, <1>6 DEF ReloadSucceeds

\* Unchanged configs keep their proxy, log and real process across a reload
\* (reloadFromConfigLocked).
THEOREM UnchangedKeptAcrossReloads == Spec => UnchangedConfigKeepsProcess
<1>1. IInv /\ [Next]_vars => [KeepsUnchanged]_vars
  BY StepKeepsUnchanged
<1> QED
  BY <1>1, Invariant, PTL DEF Spec, UnchangedConfigKeepsProcess

\* Each step but a forced reload and the shutdown leaves the log of a guarded
\* client open: departures close sets of generations without clients, and a
\* graceful reload hands over the entries of its own generation.
LEMMA StepKeepsGuarded == ASSUME IInv, [Next]_vars PROVE [KeepsGuarded]_vars
<1> SUFFICES ASSUME Next, NEW c \in Conns, Serving, daemon' = daemon,
                    \A l \in Listings : ~Reload("force", l), GuardedFor(c), Active(c)'
             PROVE  clients[c].entry \in openLogs'
  BY DEF KeepsGuarded
<1>1. clients[c].entry \in openLogs
  BY GuardedIsOpen
<1>2. CASE openLogs' = openLogs
  BY <1>1, <1>2
<1>3. ASSUME NEW d \in Conns, Unregister(d) PROVE clients[c].entry \in openLogs'
  <2>1. clients \in [Conns -> Client \cup {NoClient}] /\ clients' = [clients EXCEPT ![d] = NoClient]
    BY <1>3 DEF Unregister, IInv, TypeOK
  <2>2. c # d
    BY <2>1 DEF Active
  <2>3. clients[c].entry \notin EntriesOf(IdleSets(clients[d].gen, d))
    <3> SUFFICES ASSUME NEW s \in retained, s.gen = clients[d].gen,
                        \A x \in Conns \ {d} : ~(Active(x) /\ clients[x].gen = clients[d].gen),
                        clients[c].entry \in s.entries
                 PROVE  FALSE
      BY DEF EntriesOf, IdleSets
    <3>1. Active(c) /\ clients[c].gen # s.gen
      BY <2>2 DEF GuardedFor
    <3>2. CASE clients[c].gen = generation
      BY <3>1, <3>2 DEF IInv, ClientsOnTable, OneOwner
    <3>3. CASE \E r \in retained : r.gen = clients[c].gen /\ clients[c].entry \in r.entries
      BY <3>1, <3>3 DEF IInv, OneOwner
    <3> QED
      BY <3>2, <3>3 DEF GuardedFor
  <2> QED
    BY <1>1, <1>3, <2>3 DEF Unregister
<1>4. ASSUME NEW mode \in Modes, NEW l \in Listings, Reload(mode, l)
      PROVE  clients[c].entry \in openLogs'
  <2>1. CASE ~Loadable(l)
    <3>1. /\ Created(ItemsBeforeFailure(l)) \cap table = {}
          /\ \A r \in retained : Created(ItemsBeforeFailure(l)) \cap r.entries = {}
      BY CreatedAreNew, ItemsBeforeFailureAreConfigs
    <3>2. clients[c].entry \in table \cup RetainedEntries
      BY <1>1 DEF IInv, OpenLogsAreOwned
    <3> QED
      BY <1>1, <1>4, <2>1, <3>1, <3>2 DEF Reload, ReloadFails, RetainedEntries
  <2>2. CASE Loadable(l)
    <3>1. ReloadSucceeds(mode, l)
      BY <1>4, <2>2 DEF Reload
    <3>2. mode = "graceful"
      BY <1>4 DEF Modes, Reload, MayReload, GuardedFor
    <3>3. CASE clients[c].gen = generation
      <4>1. Keeps(mode)
        BY <3>2, <3>3 DEF Keeps, ActiveGeneration, GuardedFor
      <4> QED
        BY <3>1, <4>1, <1>1 DEF ReloadSucceeds
    <3>4. CASE \E r \in retained : r.gen = clients[c].gen /\ clients[c].entry \in r.entries
      <4>1. clients[c].entry \notin Obsolete(Items(l))
        BY <3>4 DEF Obsolete, IInv, OneOwner
      <4> QED
        BY <3>1, <4>1, <1>1 DEF ReloadSucceeds
    <3> QED
      BY <3>3, <3>4 DEF GuardedFor
  <2> QED
    BY <2>1, <2>2
<1>5. ~CloseCurrent /\ ~CloseRetained /\ ~Exit
  BY DEF CloseCurrent, CloseRetained, Exit, Serving
<1> QED
  BY <1>2, <1>3, <1>4, <1>5 DEF Next, Bind, Call, RealStops, SessionRealStops, ClientGone, Cancel

\* A graceful reload keeps what a client of the generation it replaces uses
\* (retainOrCloseResourceSetLocked, closeRetainedIfIdleLocked).
THEOREM GracefulKept == Spec => GracefulKeepsOwnGeneration
<1>1. IInv /\ [Next]_vars => [KeepsGuarded]_vars
  BY StepKeepsGuarded
<1> QED
  BY <1>1, Invariant, PTL DEF Spec, GracefulKeepsOwnGeneration

-----------------------------------------------------------------------------
(* The daemon implements ReloadContract.                                   *)

LEMMA OfferLoadable == ASSUME NEW l \in Listings, Loadable(l) PROVE Offer!Loadable(l) /\ Offer!Items(l) = Items(l)
<1>1. l \in Seq(Config \cup {Broken})
  BY ListingsAssumption
<1>2. \A k \in DOMAIN l : l[k] # Broken
  BY DEF Loadable, BadAt
<1>3. DOMAIN l = 1..Len(l) /\ Len(l) \in Nat
  BY <1>1
<1>4. \A j, k \in DOMAIN l : j < k => l[j].name # l[k].name
  <2> TAKE j, k \in DOMAIN l
  <2> HAVE j < k
  <2>1. j \in 1..(k - 1)
    BY <1>3
  <2> QED
    BY <2>1, <1>2 DEF Loadable, BadAt
<1>5. \A j, k \in DOMAIN l : l[j].name = l[k].name => j = k
  BY <1>3, <1>4
<1> QED
  BY <1>2, <1>5 DEF Loadable, Offer!Loadable, Offer!Items, Items

LEMMA InitOffer == Init => Offer!ContractInit
<1> SUFFICES ASSUME Init PROVE Offer!ContractInit
  OBVIOUS
<1>1. PICK l \in Listings : Loadable(l) /\ table = {[cfg |-> i, born |-> 2] : i \in Items(l)}
  BY DEF Init
<1>2. {e.cfg : e \in table} = Items(l)
  <2>1. \A e \in table : e.cfg \in Items(l)
    BY <1>1
  <2>2. ASSUME NEW i \in Items(l) PROVE \E e \in table : e.cfg = i
    <3>1. [cfg |-> i, born |-> 2] \in table
      BY <1>1
    <3> QED
      BY <3>1
  <2> QED
    BY <2>1, <2>2
<1> QED
  BY <1>1, <1>2, OfferLoadable DEF Offer!ContractInit, Init, Active

\* After a successful reload the configs of the table are those of the listing.
LEMMA ReloadedOffer ==
  ASSUME NEW l \in Listings, NEW mode \in Modes, ReloadSucceeds(mode, l)
  PROVE  {e.cfg : e \in table'} = Items(l)
<1>1. table' = Reused(Items(l)) \cup Created(Items(l))
  BY DEF ReloadSucceeds
<1>2. \A e \in table' : e.cfg \in Items(l)
  BY <1>1 DEF Reused, Created
<1>3. ASSUME NEW i \in Items(l) PROVE \E e \in table' : e.cfg = i
  <2>1. CASE \E e \in table : e.cfg = i
    BY <2>1, <1>1 DEF Reused
  <2>2. CASE \A e \in table : e.cfg # i
    <3>1. [cfg |-> i, born |-> generation + 1] \in table'
      BY <2>2, <1>1 DEF Created
    <3> QED
      BY <3>1
  <2> QED
    BY <2>1, <2>2
<1> QED
  BY <1>2, <1>3

\* Every step of the daemon is a step of the contract or leaves its view alone.
LEMMA StepOffer ==
  ASSUME IInv, [Next]_vars
  PROVE  [Offer!ContractNext]_(Offer!contractVars)
<1> DEFINE served == [c \in Conns |-> IF Active(c) THEN clients[c].entry.cfg ELSE NoClient]
<1>1. clients \in [Conns -> Client \cup {NoClient}]
  BY DEF IInv, TypeOK
<1>2. ASSUME NEW c \in Conns, Bind(c) PROVE Offer!ContractNext
  <2>1. PICK e \in table :
          clients' = [clients EXCEPT ![c] = [gen |-> generation, entry |-> e, phase |-> "running"]]
    BY <1>2 DEF Bind
  <2>2. [gen |-> generation, entry |-> e, phase |-> "running"] \in Client
    BY DEF IInv, TypeOK, Client
  <2>3. table' = table /\ ~Active(c)
    BY <1>2 DEF Bind, Active
  <2>4. \A d \in Conns : served'[d] = IF d = c THEN e.cfg ELSE served[d]
    BY <1>1, <2>1, <2>2, NoClientAssumption DEF Active
  <2>5. served' = [served EXCEPT ![c] = e.cfg]
    BY <2>4
  <2>6. Offer!Attach(c)
    BY <2>3, <2>5 DEF Offer!Attach
  <2> QED
    BY <2>6 DEF Offer!ContractNext
<1>3. ASSUME NEW c \in Conns, Unregister(c) PROVE Offer!ContractNext
  <2>1. table' = table /\ clients' = [clients EXCEPT ![c] = NoClient]
    BY <1>3 DEF Unregister
  <2>2. served' = [d \in Conns |-> IF d \in {c} THEN NoClient ELSE served[d]]
    BY <1>1, <2>1 DEF Active
  <2>3. Offer!Detach({c})
    BY <2>1, <2>2 DEF Offer!Detach
  <2> QED
    BY <2>3 DEF Offer!ContractNext
<1>4. ASSUME Exit PROVE Offer!ContractNext
  <2>1. table' = table /\ clients' = [c \in Conns |-> NoClient]
    BY <1>4 DEF Exit
  <2>2. served' = [d \in Conns |-> IF d \in Conns THEN NoClient ELSE served[d]]
    BY <2>1 DEF Active
  <2>3. Offer!Detach(Conns)
    BY <2>1, <2>2 DEF Offer!Detach
  <2> QED
    BY <2>3 DEF Offer!ContractNext
<1>5. ASSUME NEW c \in Conns, ClientGone(c) PROVE UNCHANGED Offer!contractVars
  <2>1. table' = table /\ clients' = [clients EXCEPT ![c].phase = "ended"] /\ clients[c] \in Client
    BY <1>1, <1>5 DEF ClientGone, Active
  <2>2. [clients[c] EXCEPT !.phase = "ended"] \in Client
    BY <2>1 DEF Client
  <2>3. \A d \in Conns : clients'[d] = IF d = c THEN [clients[c] EXCEPT !.phase = "ended"] ELSE clients[d]
    BY <1>1, <2>1
  <2>4. [clients[c] EXCEPT !.phase = "ended"].entry = clients[c].entry
    BY <2>1 DEF Client
  <2>5. \A d \in Conns : served'[d] = served[d]
    BY <2>1, <2>2, <2>3, <2>4, NoClientAssumption DEF Active
  <2>6. served' = served
    BY <2>5
  <2> QED
    BY <2>1, <2>6 DEF Offer!contractVars
<1>6. ASSUME NEW mode \in Modes, NEW l \in Listings, Reload(mode, l)
      PROVE  Offer!ContractNext \/ UNCHANGED Offer!contractVars
  <2>1. served' = served
    BY <1>6 DEF Reload, Active
  <2>2. CASE Loadable(l)
    <3>1. {e.cfg : e \in table'} = Items(l)
      BY <1>6, <2>2, ReloadedOffer DEF Reload
    <3>2. Offer!Switch
      BY <2>1, <2>2, <3>1, OfferLoadable DEF Offer!Switch
    <3> QED
      BY <3>2 DEF Offer!ContractNext
  <2>3. CASE ~Loadable(l)
    BY <1>6, <2>1, <2>3 DEF Reload, ReloadFails, Offer!contractVars
  <2> QED
    BY <2>2, <2>3
<1>7. CASE UNCHANGED <<table, clients>>
  BY <1>7 DEF Offer!contractVars, Active
<1> QED
  BY <1>2, <1>3, <1>4, <1>5, <1>6, <1>7
     DEF Next, vars, Call, RealStops, SessionRealStops, Cancel, CloseCurrent, CloseRetained

\* The daemon offers one complete loadable listing at a time and serves a
\* client under the config it was bound to (reloadFromConfigLocked, bindClient).
THEOREM Refinement == Spec => KeepsContract
<1>1. IInv /\ [Next]_vars => [Offer!ContractNext]_(Offer!contractVars)
  BY StepOffer
<1> QED
  BY <1>1, InitOffer, Invariant, PTL DEF Spec, KeepsContract, Offer!Contract

=============================================================================
