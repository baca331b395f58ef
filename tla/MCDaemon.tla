------------------------------ MODULE MCDaemon ------------------------------
(* Small instances of Daemon: two MCP names, two versions of a config.     *)
EXTENDS Daemon, TLC

CONSTANTS a, b

cfg(n, s, v) == [name |-> n, sharing |-> s, ver |-> v]
shared(n, v) == cfg(n, "shared", v)

\* Every way a listing can differ from the one before it: a config changed,
\* removed, added, changed to session sharing; a listing that does not load at
\* all, that fails after a new entry was created, that repeats a name.
MCListings ==
  { << shared(a, 1), shared(b, 1) >>,
    << shared(a, 1), shared(b, 2) >>,
    << shared(a, 2) >>,
    << cfg(a, "session", 1), shared(b, 1) >>,
    << >>,
    << shared(b, 2), Broken >>,
    << shared(a, 1), shared(a, 2) >> }

\* Fewer listings, for the temporal property.
MCFewListings ==
  { << shared(a, 1) >>, << shared(a, 2) >> }

ConnSymmetry == Permutations(Conns)
=============================================================================
