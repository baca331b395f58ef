--------------------------- MODULE ReloadContract ---------------------------
(***************************************************************************)
(* What the shared daemon promises about wrapper configurations, without   *)
(* saying how: at every moment it offers one complete listing (never a     *)
(* mixture of two, never a listing it could not load in full), and a       *)
(* connection is served under the configuration it was bound to until it   *)
(* leaves, whatever is reloaded meanwhile.                                 *)
(*                                                                         *)
(* Daemon implements this module under the mapping given there.            *)
(***************************************************************************)
EXTENDS Sequences

CONSTANTS
  Conns,        \* client connections
  Listings,     \* contents the daemon config may list, sequences of configs
  Broken,       \* a wrapper config that cannot be loaded
  NoConfig      \* the configuration of a connection that is not bound

VARIABLES
  offered,      \* the configs a new connection can be bound to
  served        \* served[c]: the config connection c is served under

contractVars == <<offered, served>>

Items(l) == {l[k] : k \in DOMAIN l}

\* A listing that loads: it is not empty, every config in it loads, and no
\* two of its configs have the same name.
Loadable(l) ==
  /\ l # <<>>
  /\ Broken \notin Items(l)
  /\ \A j, k \in DOMAIN l : l[j].name = l[k].name => j = k

ContractInit ==
  /\ \E l \in Listings : Loadable(l) /\ offered = Items(l)
  /\ served = [c \in Conns |-> NoConfig]

\* A reload replaces the whole offer by one loadable listing.
Switch ==
  /\ \E l \in Listings : Loadable(l) /\ offered' = Items(l)
  /\ UNCHANGED served

Attach(c) ==
  /\ served[c] = NoConfig
  /\ \E cfg \in offered : served' = [served EXCEPT ![c] = cfg]
  /\ UNCHANGED offered

\* Connections leave one by one, or all together when the daemon exits.
Detach(gone) ==
  /\ served' = [c \in Conns |-> IF c \in gone THEN NoConfig ELSE served[c]]
  /\ UNCHANGED offered

ContractNext ==
  \/ Switch
  \/ \E c \in Conns : Attach(c)
  \/ \E gone \in SUBSET Conns : Detach(gone)

Contract == ContractInit /\ [][ContractNext]_contractVars
=============================================================================
