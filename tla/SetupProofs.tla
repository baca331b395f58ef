----------------------------- MODULE SetupProofs ------------------------------
(***************************************************************************)
(* Proofs about Setup.  An operation is a plan that is carried out while   *)
(* the files it was made from change: the inductive invariant says, of     *)
(* every plan and every point of it, what is still true of these files.    *)
(***************************************************************************)
EXTENDS Setup, WellFoundedInduction, TLAPS

-----------------------------------------------------------------------------
(* The invariant.                                                          *)

SetupStages     == {<<"files", "daemon", "clients">>, <<"daemon", "clients">>, <<"clients">>}
UpdateStages    == {<<"files", "clients", "daemon">>, <<"clients", "daemon">>, <<"daemon">>}
UninstallStages == {<<"clients", "files">>, <<"files">>}

\* A job has a part of its operation's stages before it.
Staged(j) ==
  \/ j.op = "setup" /\ j.stages \in SetupStages
  \/ j.op = "update" /\ j.stages \in UpdateStages
  \/ j.op = "uninstall" /\ j.stages \in UninstallStages

\* The wrapper config of n is there, or j is about to write it.
Coming(j, n) == HasFile(n) \/ \E w \in j.writes : w[1] = n

\* What a job will list has its wrapper config, if need be from the job itself,
\* which writes the files first.
FilesFirst(j) ==
  j.op # "uninstall" =>
    /\ j.list # {}
    /\ \A w \in j.writes : w[1] \in j.list
    /\ j.op = "update" \/ j.loaded => \A n \in j.list : Coming(j, n)
    /\ j.whole /\ Head(j.stages) # "files" => j.writes = {}

\* A setup removes nothing, drops from the list what it was told to skip, and comes
\* to the clients when the daemon's list is written.
SetupFits(j) ==
  j.op = "setup" =>
    /\ j.drops = {}
    /\ listed \subseteq j.list \cup j.skipped
    /\ j.wrapped \subseteq j.list
    /\ \A n \in j.wrapped : Coming(j, n)
    /\ j.whole /\ Head(j.stages) = "clients" => listed = j.list

\* An update of all clients removes, or leaves off the list, no wrapper that a
\* client refers to or is about to.
UpdateFits(j) ==
  j.op = "update" =>
    /\ j.drops \cap j.list = {}
    /\ j.scope = Clients =>
         \A n \in Names : (n \in j.drops \/ (HasFile(n) /\ n \notin j.list)) =>
           /\ \A k \in Clients : conf[k][n] # Ref
           /\ \A k \in DOMAIN j.updates : j.updates[k][n] # Ref

\* The latest backup of client k, which an uninstall restores, refers to n.
LatestRefers(k, n) ==
  DOMAIN backups[k] # {} /\ backups[k][Max(DOMAIN backups[k])][n] = Ref

\* An uninstall is to remove every wrapper config there is, and a reference is left,
\* or will be, only where the latest backup has it.
UninstallFits(j) ==
  j.op = "uninstall" =>
    /\ j.writes = {}
    /\ \A n \in Names : HasFile(n) => n \in j.drops
    /\ \A k \in Clients, n \in Names :
         conf[k][n] = Ref /\ k \notin DOMAIN j.updates => LatestRefers(k, n)
    /\ \A k \in DOMAIN j.updates, n \in Names :
         j.updates[k][n] = Ref => LatestRefers(k, n)
    /\ j.whole /\ Head(j.stages) = "files" => DOMAIN j.updates = {}

Fits(j) == Staged(j) /\ FilesFirst(j) /\ SetupFits(j) /\ UpdateFits(j) /\ UninstallFits(j)
JobFits == job # NoJob => Fits(job)

\* Every stamp was given out by now, and the copies a job has still to make are under
\* a name that is not in use, unless operations have had one stamp.
Stamped ==
  /\ \A k \in Clients : \A s \in DOMAIN backups[k] : s <= now
  /\ session # NoJob => shared /\ session.stamp <= now
  /\ job # NoJob => job.stamp <= now
BackedUpApart ==
  job # NoJob =>
    /\ job.op = "uninstall" => undone
    /\ ~shared /\ job.op # "uninstall" =>
         \A k \in DOMAIN job.updates \ job.copied : job.stamp \notin DOMAIN backups[k]

\* Of a client whose config is about to be overwritten there is a copy of every
\* definition, but for those written since.
CopyHolds ==
  job # NoJob =>
    \A k \in job.copied :
      /\ k \in DOMAIN job.updates
      /\ ~undone /\ ~shared =>
           \A n \in Names : mine[k][n] \in Versions /\ <<k, n>> \notin raced =>
             \E s \in DOMAIN backups[k] : backups[k][s][n] = mine[k][n]

Shape ==
  /\ DOMAIN backups = Clients
  /\ session # NoJob => DOMAIN session = {"stamp", "scope", "seen"}

IInv ==
  TypeOK /\ Shape /\ Stamped /\ BackedUpApart /\ CopyHolds /\ SetupKeepsDefinitions /\ JobFits

-----------------------------------------------------------------------------
(* Operators.                                                              *)

\* The order of the naturals as a relation, for the library's theorems.
Below == {ss \in Nat \X Nat : ss[1] < ss[2]}

\* Min and Max are CHOSEN: they are elements because sets of naturals have a least.
LEMMA LeastOfNaturals ==
  ASSUME NEW T \in SUBSET Nat, T # {}
  PROVE  \E x \in T : \A y \in T : x <= y
<1>1. IsWellFoundedOn(Below, Nat)
  BY NatLessThanWellFounded DEF OpToRel, Below
<1>2. PICK x \in T : \A y \in T : <<y, x>> \notin Below
  BY <1>1, WFMin
<1>3. \A y \in T : ~(y < x)
  BY <1>2 DEF Below
<1>4. x \in Nat /\ \A y \in T : y \in Nat
  OBVIOUS
<1>5. \A y \in T : x <= y
  BY <1>3, <1>4
<1> QED
  BY <1>5

LEMMA MinIn ==
  ASSUME NEW T \in SUBSET Nat, T # {}
  PROVE  Min(T) \in T /\ \A y \in T : Min(T) <= y
BY LeastOfNaturals DEF Min

LEMMA MaxIn ==
  ASSUME NEW m \in Nat, NEW T \in SUBSET (1..m), T # {}
  PROVE  Max(T) \in T /\ \A y \in T : Max(T) >= y
<1> DEFINE U == {m - x : x \in T}
<1>0. \A x \in T : x \in Nat /\ x <= m
  OBVIOUS
<1>1. \A x \in T : m - x \in Nat
  BY <1>0
<1>2. U \in SUBSET Nat /\ U # {}
  BY <1>1
<1> HIDE DEF U
<1>3. PICK u \in U : \A y \in U : u <= y
  BY <1>2, LeastOfNaturals
<1>4. PICK x \in T : u = m - x
  BY DEF U
<1>5. ASSUME NEW y \in T PROVE x >= y
  <2>1. m - y \in U
    BY DEF U
  <2>2. m - x <= m - y
    BY <2>1, <1>3, <1>4
  <2> QED
    BY <2>2, <1>0
<1> QED
  BY <1>5 DEF Max

\* The stages that are left, one tuple after another.
Stage == {"files", "daemon", "clients"}

LEMMA OneStage ==
  ASSUME NEW a \in Stage
  PROVE  Len(<<a>>) = 1 /\ Head(<<a>>) = a /\ <<a>> \in Seq(Stage)
OBVIOUS

LEMMA TwoStages ==
  ASSUME NEW a \in Stage, NEW b \in Stage
  PROVE  /\ Len(<<a, b>>) = 2 /\ Head(<<a, b>>) = a /\ Tail(<<a, b>>) = <<b>>
         /\ <<a, b>> \in Seq(Stage)
OBVIOUS

LEMMA ThreeStages ==
  ASSUME NEW a \in Stage, NEW b \in Stage, NEW c \in Stage
  PROVE  /\ Len(<<a, b, c>>) = 3 /\ Head(<<a, b, c>>) = a /\ Tail(<<a, b, c>>) = <<b, c>>
         /\ <<a, b, c>> \in Seq(Stage)
OBVIOUS

\* What may be left after one stage, or after the two an update skips.
LEMMA SetupStagesPass ==
  ASSUME NEW st \in SetupStages
  PROVE  /\ st \in Seq(Stage)
         /\ Head(st) \in Stage
         /\ Len(st) = 1 => Head(st) = "clients"
         /\ Len(st) # 1 => /\ Tail(st) \in SetupStages
                           /\ Head(Tail(st)) # "files"
                           /\ Head(st) # "daemon" => Head(Tail(st)) = "daemon"
<1>1. CASE st = <<"files", "daemon", "clients">>
  BY <1>1, ThreeStages, TwoStages DEF SetupStages, Stage
<1>2. CASE st = <<"daemon", "clients">>
  BY <1>2, TwoStages, OneStage DEF SetupStages, Stage
<1>3. CASE st = <<"clients">>
  BY <1>3, OneStage DEF SetupStages, Stage
<1> QED
  BY <1>1, <1>2, <1>3 DEF SetupStages

LEMMA UpdateStagesPass ==
  ASSUME NEW st \in UpdateStages
  PROVE  /\ st \in Seq(Stage)
         /\ Head(st) \in Stage
         /\ Len(st) = 1 => Head(st) = "daemon"
         /\ Len(st) # 1 => Tail(st) \in UpdateStages /\ Head(Tail(st)) # "files"
         /\ Head(st) = "files" => /\ Len(st) # 1 /\ Len(Tail(st)) # 1
                                  /\ Tail(Tail(st)) \in UpdateStages
                                  /\ Head(Tail(Tail(st))) # "files"
<1>1. CASE st = <<"files", "clients", "daemon">>
  BY <1>1, ThreeStages, TwoStages, OneStage DEF UpdateStages, Stage
<1>2. CASE st = <<"clients", "daemon">>
  BY <1>2, TwoStages, OneStage DEF UpdateStages, Stage
<1>3. CASE st = <<"daemon">>
  BY <1>3, OneStage DEF UpdateStages, Stage
<1> QED
  BY <1>1, <1>2, <1>3 DEF UpdateStages

LEMMA UninstallStagesPass ==
  ASSUME NEW st \in UninstallStages
  PROVE  /\ st \in Seq(Stage)
         /\ Head(st) \in Stage
         /\ Len(st) = 1 => Head(st) = "files"
         /\ Len(st) # 1 => Tail(st) \in UninstallStages /\ Head(st) = "clients"
<1>1. CASE st = <<"clients", "files">>
  BY <1>1, TwoStages, OneStage DEF UninstallStages, Stage
<1>2. CASE st = <<"files">>
  BY <1>2, OneStage DEF UninstallStages, Stage
<1> QED
  BY <1>1, <1>2 DEF UninstallStages

\* A scope is all clients or one.
LEMMA ScopesAreClients ==
  ASSUME NEW S \in Scopes
  PROVE  S \subseteq Clients /\ S \in SUBSET Nat
BY CountAssumption DEF Scopes, Clients

\* Updates of some clients' configs.
Updates == UNION {[K -> Config] : K \in SUBSET Clients}

LEMMA UpdatesType ==
  ASSUME NEW u
  PROVE  u \in Updates <=> /\ DOMAIN u \subseteq Clients
                           /\ u = [k \in DOMAIN u |-> u[k]]
                           /\ \A k \in DOMAIN u : u[k] \in Config
<1>1. ASSUME u \in Updates
      PROVE  DOMAIN u \subseteq Clients /\ u = [k \in DOMAIN u |-> u[k]] /\ \A k \in DOMAIN u : u[k] \in Config
  <2>1. PICK K \in SUBSET Clients : u \in [K -> Config]
    BY <1>1 DEF Updates
  <2> QED
    BY <2>1
<1>2. ASSUME DOMAIN u \subseteq Clients, u = [k \in DOMAIN u |-> u[k]], \A k \in DOMAIN u : u[k] \in Config
      PROVE  u \in Updates
  <2>1. u \in [DOMAIN u -> Config]
    BY <1>2
  <2> QED
    BY <1>2, <2>1 DEF Updates
<1> QED
  BY <1>1, <1>2

\* Without --config the definition that is written is one of a scanned client.
LEMMA DefinitionIsOne ==
  ASSUME TypeOK, NEW S \in Scopes, NEW n \in Wrappable(S)
  PROVE  Definition(S, n) \in Versions
<1> DEFINE T == {k \in S : Wraps(k, n)}
<1>1. T \in SUBSET Nat /\ T # {}
  BY ScopesAreClients DEF Wrappable
<1>2. Min(T) \in T
  BY <1>1, MinIn
<1> QED
  BY <1>2 DEF Definition, Wraps

\* A rewritten config has references for definitions and is the same otherwise.
LEMMA ClientUpdatesType ==
  ASSUME TypeOK, NEW S \in Scopes
  PROVE  /\ ClientUpdates(S) \in Updates
         /\ \A k \in DOMAIN ClientUpdates(S) :
              k \in Clients /\ \A n \in Names :
                 ClientUpdates(S)[k][n] = IF Wraps(k, n) THEN Ref ELSE conf[k][n]
<1>1. \A k \in Clients :
        /\ Rewritten(k) \in Config
        /\ \A n \in Names : Rewritten(k)[n] = IF Wraps(k, n) THEN Ref ELSE conf[k][n]
  BY DEF Rewritten, Config, TypeOK
<1>2. /\ DOMAIN ClientUpdates(S) \subseteq S
      /\ \A k \in DOMAIN ClientUpdates(S) : ClientUpdates(S)[k] = Rewritten(k)
      /\ ClientUpdates(S) = [k \in DOMAIN ClientUpdates(S) |-> ClientUpdates(S)[k]]
  BY DEF ClientUpdates
<1> HIDE DEF ClientUpdates
<1>3. S \subseteq Clients
  BY ScopesAreClients
<1>4. \A k \in DOMAIN ClientUpdates(S) : ClientUpdates(S)[k] \in Config
  BY <1>1, <1>2, <1>3
<1>5. ClientUpdates(S) \in Updates
  BY <1>2, <1>3, <1>4, UpdatesType
<1> QED
  BY <1>1, <1>2, <1>3, <1>5

\* What an uninstall puts back, from the latest backup or without one, is a config.
LEMMA RestoredType ==
  ASSUME TypeOK, NEW k \in Clients
  PROVE  Restored(k) \in Config
<1>1. CASE DOMAIN backups[k] # {}
  <2>1. DOMAIN backups[k] \in SUBSET (1..MaxRuns)
    BY DEF TypeOK, Stamps
  <2>2. Max(DOMAIN backups[k]) \in DOMAIN backups[k]
    BY <1>1, <2>1, MaxIn, CountAssumption
  <2> QED
    BY <1>1, <2>2 DEF Restored, TypeOK
<1>2. CASE DOMAIN backups[k] = {}
  <2>1. Restored(k) = [n \in Names |-> IF conf[k][n] = Ref THEN Absent ELSE conf[k][n]]
    BY <1>2 DEF Restored
  <2>2. conf[k] \in [Names -> Written \cup {Ref}] /\ Absent \in Written
    BY DEF TypeOK, Config, Written
  <2> QED
    BY <2>1, <2>2 DEF Config
<1> QED
  BY <1>1, <1>2

\* Leaving one client out of the updates.
LEMMA OneUpdateLess ==
  ASSUME NEW u \in Updates, NEW k \in DOMAIN u
  PROVE  LET v == Restrict(u, DOMAIN u \ {k})
         IN  v \in Updates /\ DOMAIN v = DOMAIN u \ {k} /\ \A j \in DOMAIN v : v[j] = u[j]
<1> DEFINE v == Restrict(u, DOMAIN u \ {k})
<1>1. DOMAIN v = DOMAIN u \ {k} /\ v = [j \in DOMAIN v |-> v[j]] /\ \A j \in DOMAIN v : v[j] = u[j]
  BY DEF Restrict
<1> HIDE DEF v
<1>2. v \in Updates
  BY <1>1, UpdatesType
<1> QED
  BY <1>1, <1>2 DEF v

-----------------------------------------------------------------------------
(* Plans fit the files they are made from.                                 *)

\* The fields of the three plans.
LEMMA SetupPlanFields ==
  ASSUME NEW S, NEW st
  PROVE  /\ SetupPlan(S, st).op = "setup" /\ SetupPlan(S, st).scope = S /\ SetupPlan(S, st).stamp = st
         /\ SetupPlan(S, st).stages = <<"files", "daemon", "clients">>
         /\ SetupPlan(S, st).whole = TRUE /\ SetupPlan(S, st).loaded = (listed = {} \/ Loads(listed))
         /\ SetupPlan(S, st).copied = {}
         /\ SetupPlan(S, st).skipped = Skipped(S) /\ SetupPlan(S, st).wrapped = Wrappable(S)
         /\ SetupPlan(S, st).writes = {<<n, Definition(S, n)>> : n \in Wrappable(S)}
         /\ SetupPlan(S, st).drops = {} /\ SetupPlan(S, st).list = Merged(S)
         /\ SetupPlan(S, st).updates = ClientUpdates(S)
BY DEF SetupPlan, Plan

LEMMA UpdatePlanFields ==
  ASSUME NEW S, NEW st
  PROVE  /\ UpdatePlan(S, st).op = "update" /\ UpdatePlan(S, st).scope = S /\ UpdatePlan(S, st).stamp = st
         /\ UpdatePlan(S, st).stages = <<"files", "clients", "daemon">>
         /\ UpdatePlan(S, st).whole = TRUE /\ UpdatePlan(S, st).loaded = (listed = {} \/ Loads(listed))
         /\ UpdatePlan(S, st).copied = {}
         /\ UpdatePlan(S, st).skipped = Skipped(S) /\ UpdatePlan(S, st).wrapped = Wrappable(S)
         /\ UpdatePlan(S, st).writes = {<<n, Definition(S, n)>> : n \in Added(S)}
         /\ UpdatePlan(S, st).drops = Removed(S) /\ UpdatePlan(S, st).list = Remaining(S)
         /\ UpdatePlan(S, st).updates = ClientUpdates(S)
BY DEF UpdatePlan, Plan

LEMMA UninstallPlanFields ==
  ASSUME NEW st
  PROVE  /\ UninstallPlan(st).op = "uninstall" /\ UninstallPlan(st).scope = Clients /\ UninstallPlan(st).stamp = st
         /\ UninstallPlan(st).stages = <<"clients", "files">>
         /\ UninstallPlan(st).whole = TRUE /\ UninstallPlan(st).loaded = (listed = {} \/ Loads(listed))
         /\ UninstallPlan(st).copied = {}
         /\ UninstallPlan(st).skipped = Skipped(Clients) /\ UninstallPlan(st).wrapped = Wrappable(Clients)
         /\ UninstallPlan(st).writes = {}
         /\ UninstallPlan(st).drops = Existing /\ UninstallPlan(st).list = {}
         /\ UninstallPlan(st).updates = [k \in ToRestore |-> Restored(k)]
BY DEF UninstallPlan, Plan

\* What every plan has in common is well typed.
LEMMA PlanParts ==
  ASSUME TypeOK, NEW S \in Scopes
  PROVE  /\ Skipped(S) \in SUBSET Names /\ Wrappable(S) \in SUBSET Names
         /\ Existing \in SUBSET Names /\ Added(S) \in SUBSET Wrappable(S)
         /\ Removed(S) \in SUBSET Names /\ Remaining(S) \in SUBSET Names
         /\ Merged(S) \in SUBSET Names
         /\ (listed = {} \/ Loads(listed)) \in BOOLEAN
BY DEF Skipped, Wrappable, Existing, Added, Removed, Remaining, Merged, TypeOK

\* The three plans are jobs.
LEMMA SetupPlanType ==
  ASSUME TypeOK, NEW S \in Scopes, NEW st \in Stamps
  PROVE  SetupPlan(S, st) \in Job
<1>1. {<<n, Definition(S, n)>> : n \in Wrappable(S)} \in SUBSET (Names \X Versions)
  BY PlanParts, DefinitionIsOne
<1>2. ClientUpdates(S) \in UNION {[K -> Config] : K \in SUBSET Clients}
  BY ClientUpdatesType DEF Updates
<1>3. <<"files", "daemon", "clients">> \in Seq({"files", "daemon", "clients"})
  BY ThreeStages DEF Stage
<1> QED
  BY <1>1, <1>2, <1>3, PlanParts DEF SetupPlan, Plan, Job

LEMMA UpdatePlanType ==
  ASSUME TypeOK, NEW S \in Scopes, NEW st \in Stamps
  PROVE  UpdatePlan(S, st) \in Job
<1>1. {<<n, Definition(S, n)>> : n \in Added(S)} \in SUBSET (Names \X Versions)
  BY PlanParts, DefinitionIsOne
<1>2. ClientUpdates(S) \in UNION {[K -> Config] : K \in SUBSET Clients}
  BY ClientUpdatesType DEF Updates
<1>3. <<"files", "clients", "daemon">> \in Seq({"files", "daemon", "clients"})
  BY ThreeStages DEF Stage
<1> QED
  BY <1>1, <1>2, <1>3, PlanParts DEF UpdatePlan, Plan, Job

LEMMA UninstallPlanType ==
  ASSUME TypeOK, NEW st \in Stamps
  PROVE  UninstallPlan(st) \in Job
<1>1. Clients \in Scopes
  BY DEF Scopes
<1>2. [k \in ToRestore |-> Restored(k)] \in UNION {[K -> Config] : K \in SUBSET Clients}
  <2>1. ToRestore \in SUBSET Clients /\ \A k \in ToRestore : Restored(k) \in Config
    BY RestoredType DEF ToRestore
  <2>2. [k \in ToRestore |-> Restored(k)] \in [ToRestore -> Config]
    BY <2>1
  <2> QED
    BY <2>1, <2>2
<1>3. <<"clients", "files">> \in Seq({"files", "daemon", "clients"})
  BY TwoStages DEF Stage
<1> QED
  BY <1>1, <1>2, <1>3, PlanParts DEF UninstallPlan, Plan, Job

\* What a setup will list is listed, and loads if the list did, or is wrapped now.
LEMMA SetupPlanFits ==
  ASSUME TypeOK, NEW S \in Scopes, NEW st, Merged(S) # {}
  PROVE  Fits(SetupPlan(S, st))
<1> DEFINE p == SetupPlan(S, st)
<1>1. /\ p.op = "setup" /\ p.stages = <<"files", "daemon", "clients">>
      /\ p.loaded = (listed = {} \/ Loads(listed))
      /\ p.skipped = Skipped(S) /\ p.wrapped = Wrappable(S)
      /\ p.writes = {<<n, Definition(S, n)>> : n \in Wrappable(S)}
      /\ p.drops = {} /\ p.list = Merged(S)
  BY SetupPlanFields
<1> HIDE DEF p
<1>2. Head(p.stages) = "files"
  BY <1>1, ThreeStages DEF Stage
<1>3. \A n \in Wrappable(S) : Coming(p, n)
  <2>1. ASSUME NEW n \in Wrappable(S)
        PROVE  \E w \in p.writes : w[1] = n
    <3>1. <<n, Definition(S, n)>> \in p.writes
      BY <1>1
    <3> QED
      BY <3>1
  <2> QED
    BY <2>1 DEF Coming
<1>4. \A w \in p.writes : w[1] \in Wrappable(S)
  BY <1>1
<1>5. Wrappable(S) \subseteq Merged(S) /\ Merged(S) \subseteq listed \cup Wrappable(S)
      /\ listed \subseteq Merged(S) \cup Skipped(S)
  BY DEF Merged
<1>6. p.loaded => \A n \in p.list : Coming(p, n)
  BY <1>1, <1>3, <1>5 DEF Loads, Coming
<1>7. FilesFirst(p)
  BY <1>1, <1>2, <1>4, <1>5, <1>6 DEF FilesFirst
<1>8. SetupFits(p)
  BY <1>1, <1>2, <1>3, <1>5 DEF SetupFits
<1>9. Staged(p) /\ UpdateFits(p) /\ UninstallFits(p)
  BY <1>1 DEF Staged, SetupStages, UpdateFits, UninstallFits
<1> QED
  BY <1>7, <1>8, <1>9 DEF Fits, p

\* An update keeps the wrappers its scanned clients refer to, or will.
LEMMA UpdatePlanFits ==
  ASSUME TypeOK, NEW S \in Scopes, NEW st, Remaining(S) # {}
  PROVE  Fits(UpdatePlan(S, st))
<1> DEFINE p == UpdatePlan(S, st)
<1>1. /\ p.op = "update" /\ p.stages = <<"files", "clients", "daemon">>
      /\ p.scope = S
      /\ p.writes = {<<n, Definition(S, n)>> : n \in Added(S)}
      /\ p.drops = Removed(S) /\ p.list = Remaining(S) /\ p.updates = ClientUpdates(S)
  BY DEF UpdatePlan, Plan
<1> HIDE DEF p
<1>2. Head(p.stages) = "files"
  BY <1>1, ThreeStages DEF Stage
<1>3. \A n \in Added(S) : Coming(p, n)
  <2>1. ASSUME NEW n \in Added(S)
        PROVE  \E w \in p.writes : w[1] = n
    <3>1. <<n, Definition(S, n)>> \in p.writes
      BY <1>1
    <3> QED
      BY <3>1
  <2> QED
    BY <2>1 DEF Coming
<1>4. \A w \in p.writes : w[1] \in Added(S)
  BY <1>1
<1>5. \A n \in Remaining(S) : n \in Added(S) \/ HasFile(n)
  BY DEF Remaining, Existing
<1>6. FilesFirst(p)
  BY <1>1, <1>2, <1>3, <1>4, <1>5 DEF FilesFirst, Coming, Remaining
<1>7. Removed(S) \cap Remaining(S) = {}
  BY DEF Remaining, Added, Removed, Existing
<1>8. ASSUME S = Clients, NEW n \in Names, n \in Removed(S) \/ (HasFile(n) /\ n \notin Remaining(S))
      PROVE  /\ \A k \in Clients : conf[k][n] # Ref
             /\ \A k \in DOMAIN p.updates : p.updates[k][n] # Ref
  <2>1. n \in Removed(S)
    BY <1>8 DEF Remaining, Existing
  <2>2. \A k \in Clients : conf[k][n] # Ref /\ ~Wraps(k, n)
    BY <1>8, <2>1 DEF Removed, Present, Wraps
  <2> QED
    BY <1>1, <2>2, ClientUpdatesType
<1>9. UpdateFits(p)
  BY <1>1, <1>7, <1>8 DEF UpdateFits
<1>10. Staged(p) /\ SetupFits(p) /\ UninstallFits(p)
  BY <1>1 DEF Staged, UpdateStages, SetupFits, UninstallFits
<1> QED
  BY <1>6, <1>9, <1>10 DEF Fits, p

\* An uninstall takes back every reference that is not in a backup.
LEMMA UninstallPlanFits ==
  ASSUME TypeOK, NEW st
  PROVE  Fits(UninstallPlan(st))
<1> DEFINE p == UninstallPlan(st)
<1>1. /\ p.op = "uninstall" /\ p.stages = <<"clients", "files">>
      /\ p.writes = {} /\ p.drops = Existing
      /\ p.updates = [k \in ToRestore |-> Restored(k)]
  BY DEF UninstallPlan, Plan
<1> HIDE DEF p
<1>2. Head(p.stages) = "clients"
  BY <1>1, TwoStages DEF Stage
<1>3. DOMAIN p.updates = ToRestore /\ \A k \in ToRestore : p.updates[k] = Restored(k)
  BY <1>1
<1>4. \A k \in Clients, n \in Names : conf[k][n] = Ref => k \in ToRestore
  BY DEF ToRestore
<1>5. ASSUME NEW k \in ToRestore, NEW n \in Names, Restored(k)[n] = Ref
      PROVE  LatestRefers(k, n)
  <2>1. CASE DOMAIN backups[k] # {}
    BY <1>5, <2>1 DEF Restored, LatestRefers
  <2>2. CASE DOMAIN backups[k] = {}
    <3>1. Restored(k) = [m \in Names |-> IF conf[k][m] = Ref THEN Absent ELSE conf[k][m]]
      BY <2>2 DEF Restored
    <3> QED
      BY <1>5, <3>1, EntriesAssumption
  <2> QED
    BY <2>1, <2>2
<1>6. \A n \in Names : HasFile(n) => n \in p.drops
  BY <1>1 DEF Existing
<1>7. UninstallFits(p)
  BY <1>1, <1>2, <1>3, <1>4, <1>5, <1>6 DEF UninstallFits
<1>8. Staged(p) /\ FilesFirst(p) /\ SetupFits(p) /\ UpdateFits(p)
  BY <1>1 DEF Staged, UninstallStages, FilesFirst, SetupFits, UpdateFits
<1> QED
  BY <1>7, <1>8 DEF Fits, p

-----------------------------------------------------------------------------
(* Initial states, edits and the start of operations.                      *)

\* Nothing is wrapped, listed or backed up at the start.
LEMMA InitIInv == Init => IInv
<1> SUFFICES ASSUME Init PROVE IInv
  OBVIOUS
<1>1. conf \in [Clients -> Config]
  <2>1. [Names -> Written] \subseteq Config
    BY DEF Config
  <2> QED
    BY <2>1 DEF Init
<1>2. /\ DOMAIN backups = Clients /\ \A k \in Clients : DOMAIN backups[k] = {}
  BY DEF Init
<1>3. TypeOK
  <2>1. files \in [Names -> Versions \cup {Absent}] /\ mine \in [Clients -> [Names -> Written]]
    BY DEF Init
  <2>2. runs \in 0..MaxRuns /\ now \in 0..runs /\ edits \in 0..MaxEdits
    BY CountAssumption DEF Init
  <2> QED
    BY <1>1, <1>2, <2>1, <2>2 DEF Init, TypeOK
<1>4. Shape /\ Stamped /\ BackedUpApart /\ CopyHolds /\ JobFits
  BY <1>2 DEF Init, Shape, Stamped, BackedUpApart, CopyHolds, JobFits
<1>5. SetupKeepsDefinitions
  BY DEF Init, SetupKeepsDefinitions
<1> QED
  BY <1>3, <1>4, <1>5 DEF IInv

\* A job fits as long as the files, the list and the clients' configs stay, or a
\* client is given something other than a reference.
LEMMA FitsKept ==
  ASSUME JobFits, UNCHANGED <<job, files, listed, backups>>,
         \A j \in Clients, n \in Names : conf'[j][n] = Ref => conf[j][n] = Ref
  PROVE  JobFits'
<1> SUFFICES ASSUME job # NoJob PROVE Fits(job)'
  BY DEF JobFits
<1>1. Fits(job)
  BY DEF JobFits
<1>2. \A n : HasFile(n)' <=> HasFile(n)
  BY DEF HasFile
<1>3. \A n : Coming(job, n)' <=> Coming(job, n)
  BY <1>2 DEF Coming
<1>4. Staged(job)'
  BY <1>1 DEF Fits, Staged
<1>5. FilesFirst(job)'
  BY <1>1, <1>3 DEF Fits, FilesFirst
<1>6. SetupFits(job)'
  BY <1>1, <1>3 DEF Fits, SetupFits
<1>7. UpdateFits(job)'
  BY <1>1, <1>2 DEF Fits, UpdateFits
<1>8. UninstallFits(job)'
  BY <1>1, <1>2 DEF Fits, UninstallFits, LatestRefers
<1> QED
  BY <1>4, <1>5, <1>6, <1>7, <1>8 DEF Fits

\* The user never writes a reference, so an edit breaks no plan; one that comes after
\* the copy of the config is not in it.
LEMMA EditKeeps ==
  ASSUME IInv, NEW k \in Clients, NEW n \in Names, NEW e \in Written, Edit(k, n, e)
  PROVE  IInv'
<1>1. /\ TypeOK /\ Shape /\ Stamped /\ BackedUpApart /\ CopyHolds /\ SetupKeepsDefinitions /\ JobFits
      /\ UNCHANGED <<backups, files, listed, job, runs, now, session, undone, shared>>
      /\ conf' = [conf EXCEPT ![k][n] = e] /\ mine' = [mine EXCEPT ![k][n] = e]
      /\ edits < MaxEdits /\ edits' = edits + 1
  BY DEF IInv, Edit, clock
<1>2. e # Ref
  BY EntriesAssumption DEF Written
<1>3. /\ conf' \in [Clients -> Config] /\ mine' \in [Clients -> [Names -> Written]]
      /\ \A j \in Clients, m \in Names : conf'[j][m] = IF j = k /\ m = n THEN e ELSE conf[j][m]
      /\ \A j \in Clients, m \in Names : mine'[j][m] = IF j = k /\ m = n THEN e ELSE mine[j][m]
  <2>1. conf \in [Clients -> [Names -> Written \cup {Ref}]] /\ mine \in [Clients -> [Names -> Written]]
    BY <1>1 DEF TypeOK, Config
  <2>2. conf' \in [Clients -> [Names -> Written \cup {Ref}]]
        /\ \A j \in Clients, m \in Names : conf'[j][m] = IF j = k /\ m = n THEN e ELSE conf[j][m]
    BY <1>1, <2>1
  <2>3. mine' \in [Clients -> [Names -> Written]]
        /\ \A j \in Clients, m \in Names : mine'[j][m] = IF j = k /\ m = n THEN e ELSE mine[j][m]
    BY <1>1, <2>1
  <2> QED
    BY <2>2, <2>3 DEF Config
<1>4. edits' \in 0..MaxEdits
  BY <1>1, CountAssumption DEF TypeOK
<1>5. /\ raced' \subseteq Clients \X Names
      /\ \A j \in Clients, m \in Names : j # k \/ m # n => (<<j, m>> \in raced' <=> <<j, m>> \in raced)
      /\ job # NoJob /\ k \in job.copied => <<k, n>> \in raced'
  BY <1>1 DEF Edit, TypeOK
<1>6. TypeOK'
  BY <1>1, <1>3, <1>4, <1>5 DEF TypeOK
<1>7. Shape' /\ Stamped' /\ BackedUpApart'
  BY <1>1 DEF Shape, Stamped, BackedUpApart
<1>8. JobFits'
  BY <1>1, <1>2, <1>3, FitsKept
<1>9. CopyHolds'
  <2> SUFFICES ASSUME job # NoJob, NEW j \in job.copied
               PROVE  /\ j \in DOMAIN job.updates
                      /\ ~undone /\ ~shared =>
                           \A m \in Names : mine'[j][m] \in Versions /\ <<j, m>> \notin raced' =>
                             \E s \in DOMAIN backups[j] : backups[j][s][m] = mine'[j][m]
    BY <1>1 DEF CopyHolds
  <2>1. job \in Job /\ j \in Clients /\ j \in DOMAIN job.updates
    BY <1>1 DEF TypeOK, Job, CopyHolds
  <2>2. ASSUME ~undone, ~shared, NEW m \in Names, mine'[j][m] \in Versions, <<j, m>> \notin raced'
        PROVE  \E s \in DOMAIN backups[j] : backups[j][s][m] = mine'[j][m]
    <3>1. j # k \/ m # n
      BY <1>5, <2>2
    <3>2. mine'[j][m] = mine[j][m] /\ <<j, m>> \notin raced
      BY <1>3, <1>5, <2>1, <2>2, <3>1
    <3> QED
      BY <1>1, <2>2, <3>2 DEF CopyHolds
  <2> QED
    BY <2>1, <2>2
<1>10. SetupKeepsDefinitions'
  <2> SUFFICES ASSUME ~undone, ~shared, NEW j \in Clients, NEW m \in Names,
                      mine'[j][m] \in Versions, <<j, m>> \notin raced'
               PROVE  \/ conf'[j][m] = mine'[j][m]
                      \/ \E s \in DOMAIN backups[j] : backups[j][s][m] = mine'[j][m]
    BY <1>1 DEF SetupKeepsDefinitions
  <2>1. CASE j = k /\ m = n
    BY <1>3, <2>1
  <2>2. CASE j # k \/ m # n
    <3>1. mine'[j][m] = mine[j][m] /\ conf'[j][m] = conf[j][m] /\ <<j, m>> \notin raced
      BY <1>3, <1>5, <2>2
    <3> QED
      BY <1>1, <3>1 DEF SetupKeepsDefinitions
  <2> QED
    BY <2>1, <2>2
<1> QED
  BY <1>6, <1>7, <1>8, <1>9, <1>10 DEF IInv

\* A job that starts: its plan fits what is there, nothing else changes but the
\* clock and what a watch session remembers.
LEMMA StartedKeeps ==
  ASSUME IInv, NEW p \in Job, Fits(p), job' = p, p.copied = {},
         UNCHANGED <<conf, backups, files, listed, edits, mine, raced>>,
         now' \in {now, now + 1}, runs' \in 0..MaxRuns, now' <= runs', p.stamp <= now',
         UNCHANGED session \/ session' = [session EXCEPT !.seen = Seen],
         session' # NoJob => session # NoJob,
         undone' \in BOOLEAN, undone => undone', p.op = "uninstall" => undone',
         shared' \in BOOLEAN, shared => shared', shared' \/ p.stamp = now + 1
  PROVE  IInv'
<1>1. TypeOK /\ Shape /\ Stamped /\ SetupKeepsDefinitions
  BY DEF IInv
<1>2. now \in Nat /\ now' \in Nat /\ now <= now' /\ now' \in 0..runs'
  BY <1>1, CountAssumption DEF TypeOK
<1>3. session' # NoJob =>
        /\ session # NoJob
        /\ session'.stamp = session.stamp /\ session'.scope = session.scope
        /\ DOMAIN session' = {"stamp", "scope", "seen"}
  BY <1>1 DEF Shape
<1>4. TypeOK'
  BY <1>1, <1>2, <1>3 DEF TypeOK
<1>5. Shape'
  BY <1>1, <1>3 DEF Shape
<1>6. p.stamp \in Nat /\ \A k \in Clients : \A s \in DOMAIN backups[k] : s \in Nat /\ s <= now
  BY <1>1 DEF Stamped, TypeOK, Job, Stamps
<1>7. Stamped'
  <2>1. session' # NoJob => shared' /\ session'.stamp <= now'
    BY <1>1, <1>2, <1>3 DEF Stamped, TypeOK, Stamps
  <2>2. \A k \in Clients : \A s \in DOMAIN backups'[k] : s <= now'
    BY <1>2, <1>6
  <2> QED
    BY <2>1, <2>2 DEF Stamped
<1>8. BackedUpApart' /\ CopyHolds'
  <2>1. DOMAIN p.updates \subseteq Clients
    BY UpdatesType DEF Job, Updates
  <2> QED
    BY <1>2, <1>6, <2>1 DEF BackedUpApart, CopyHolds
<1>9. SetupKeepsDefinitions'
  BY <1>1 DEF SetupKeepsDefinitions
<1>10. JobFits'
  <2>1. \A n : Coming(p, n)' <=> Coming(p, n)
    BY DEF Coming, HasFile
  <2>2. \A k, n : LatestRefers(k, n)' <=> LatestRefers(k, n)
    BY DEF LatestRefers
  <2>3. Staged(job)' /\ FilesFirst(job)' /\ SetupFits(job)' /\ UpdateFits(job)'
    BY <2>1 DEF Fits, Staged, FilesFirst, SetupFits, UpdateFits, Coming, HasFile
  <2>4. UninstallFits(job)'
    BY <2>2 DEF Fits, UninstallFits, HasFile
  <2> QED
    BY <2>3, <2>4 DEF JobFits, Fits
<1> QED
  BY <1>4, <1>5, <1>7, <1>8, <1>9, <1>10 DEF IInv

\* The clock runs on, or two operations have one stamp.
LEMMA TickMoves ==
  ASSUME TypeOK, Tick
  PROVE  /\ runs' \in 0..MaxRuns /\ now' \in Stamps /\ now' <= runs'
         /\ now' \in {now, now + 1} /\ (now' = now \/ now' = now + 1)
BY CountAssumption DEF TypeOK, Tick, Stamps

\* The three commands and the session's update start with a plan that fits.
LEMMA RunSetupKeeps ==
  ASSUME IInv, NEW S \in Scopes, RunSetup(S)
  PROVE  IInv'
<1>1. TypeOK /\ Tick
  BY DEF IInv, RunSetup, Begin
<1>2. PICK p : p = SetupPlan(S, now')
  OBVIOUS
<1>3. now' \in Stamps
  BY <1>1, TickMoves
<1>4. p \in Job /\ Fits(p) /\ p.stamp = now' /\ p.op = "setup" /\ p.copied = {}
  BY <1>1, <1>2, <1>3, SetupPlanType, SetupPlanFits, SetupPlanFields DEF RunSetup
<1>5. /\ job' = p /\ session' = session /\ undone' = undone /\ undone' \in BOOLEAN
      /\ UNCHANGED <<conf, backups, files, listed, edits, mine, raced>>
      /\ shared' \in BOOLEAN /\ (shared => shared') /\ (shared' \/ now' = now + 1)
  BY <1>1, <1>2, TickMoves DEF TypeOK, RunSetup, Begin
<1>6. now' <= now'
  BY <1>3, CountAssumption DEF Stamps
<1> QED
  BY <1>1, <1>4, <1>5, <1>6, TickMoves, StartedKeeps

LEMMA RunUpdateKeeps ==
  ASSUME IInv, NEW S \in Scopes, RunUpdate(S)
  PROVE  IInv'
<1>1. TypeOK /\ Tick
  BY DEF IInv, RunUpdate, Begin
<1>2. PICK p : p = UpdatePlan(S, now')
  OBVIOUS
<1>3. now' \in Stamps
  BY <1>1, TickMoves
<1>4. p \in Job /\ Fits(p) /\ p.stamp = now' /\ p.op = "update" /\ p.copied = {}
  BY <1>1, <1>2, <1>3, UpdatePlanType, UpdatePlanFits, UpdatePlanFields DEF RunUpdate
<1>5. /\ job' = p /\ session' = session /\ undone' = undone /\ undone' \in BOOLEAN
      /\ UNCHANGED <<conf, backups, files, listed, edits, mine, raced>>
      /\ shared' \in BOOLEAN /\ (shared => shared') /\ (shared' \/ now' = now + 1)
  BY <1>1, <1>2, TickMoves DEF TypeOK, RunUpdate, Begin
<1>6. now' <= now'
  BY <1>3, CountAssumption DEF Stamps
<1> QED
  BY <1>1, <1>4, <1>5, <1>6, TickMoves, StartedKeeps

LEMMA RunUninstallKeeps ==
  ASSUME IInv, RunUninstall
  PROVE  IInv'
<1>1. TypeOK /\ Tick
  BY DEF IInv, RunUninstall, Begin
<1>2. PICK p : p = UninstallPlan(now')
  OBVIOUS
<1>3. now' \in Stamps
  BY <1>1, TickMoves
<1>4. p \in Job /\ Fits(p) /\ p.stamp = now' /\ p.copied = {}
  BY <1>1, <1>2, <1>3, UninstallPlanType, UninstallPlanFits, UninstallPlanFields
<1>5. /\ job' = p /\ session' = session /\ undone' = TRUE /\ undone' \in BOOLEAN
      /\ UNCHANGED <<conf, backups, files, listed, edits, mine, raced>>
      /\ shared' \in BOOLEAN /\ (shared => shared') /\ (shared' \/ now' = now + 1)
  BY <1>1, <1>2, TickMoves DEF TypeOK, RunUninstall, Begin
<1>6. now' <= now'
  BY <1>3, CountAssumption DEF Stamps
<1> QED
  BY <1>1, <1>4, <1>5, <1>6, TickMoves, StartedKeeps

\* A watch session starts, looks or stops, and no operation starts with it.
LEMMA WatchKeeps ==
  ASSUME IInv, UNCHANGED <<conf, backups, files, listed, job, edits, mine, raced, undone>>,
         now' \in {now, now + 1}, runs' \in 0..MaxRuns, now' <= runs', shared' \in {shared, TRUE},
         session' # NoJob => /\ shared' /\ DOMAIN session' = {"stamp", "scope", "seen"}
                             /\ session'.stamp \in Stamps /\ session'.stamp <= now'
                             /\ session'.scope \in Scopes
  PROVE  IInv'
<1>1. TypeOK /\ Shape /\ Stamped /\ BackedUpApart /\ CopyHolds /\ SetupKeepsDefinitions /\ JobFits
  BY DEF IInv
<1>2. now \in Nat /\ now' \in Nat /\ now <= now' /\ now' \in 0..runs'
  BY <1>1, CountAssumption DEF TypeOK
<1>3. TypeOK'
  BY <1>1, <1>2 DEF TypeOK
<1>4. Shape'
  BY <1>1 DEF Shape
<1>5. Stamped'
  <2>1. job # NoJob => job.stamp \in Nat
    BY <1>1 DEF TypeOK, Job, Stamps
  <2>2. \A k \in Clients : \A s \in DOMAIN backups[k] : s \in Nat
    BY <1>1 DEF TypeOK, Stamps
  <2> QED
    BY <1>1, <1>2, <2>1, <2>2 DEF Stamped
<1>6. BackedUpApart' /\ CopyHolds'
  <2>1. ~shared' => ~shared
    BY <1>1 DEF TypeOK
  <2>2. BackedUpApart'
    BY <1>1, <2>1 DEF BackedUpApart
  <2>3. CopyHolds'
    BY <1>1, <2>1 DEF CopyHolds
  <2> QED
    BY <2>2, <2>3
<1>7. SetupKeepsDefinitions'
  BY <1>1 DEF SetupKeepsDefinitions, TypeOK
<1>8. JobFits'
  BY <1>1, FitsKept
<1> QED
  BY <1>3, <1>4, <1>5, <1>6, <1>7, <1>8 DEF IInv

\* From the start of a session on backup names may collide.
LEMMA StartWatchKeeps ==
  ASSUME IInv, NEW S \in Scopes, StartWatch(S)
  PROVE  IInv'
<1>1. TypeOK /\ Tick
  BY DEF IInv, StartWatch
<1>2. now' \in Stamps /\ now' <= now'
  BY <1>1, TickMoves, CountAssumption DEF Stamps
<1>3. session' = [stamp |-> now', scope |-> S, seen |-> Seen] /\ shared' = TRUE
      /\ UNCHANGED <<conf, backups, files, listed, job, edits, mine, raced, undone>>
  BY DEF StartWatch
<1>4. /\ DOMAIN session' = {"stamp", "scope", "seen"}
      /\ session'.stamp = now' /\ session'.scope = S
  BY <1>3
<1> QED
  BY <1>1, <1>2, <1>3, <1>4, TickMoves, WatchKeeps

LEMMA WatchUpdateKeeps ==
  ASSUME IInv, WatchUpdate
  PROVE  IInv'
<1>1. /\ session # NoJob /\ job = NoJob /\ session' = [session EXCEPT !.seen = Seen]
      /\ UNCHANGED <<conf, backups, files, listed, runs, now, edits, mine, raced, undone, shared>>
      /\ job' = IF Remaining(session.scope) = {} THEN NoJob
                ELSE [UpdatePlan(session.scope, session.stamp) EXCEPT !.yes = TRUE]
  BY DEF WatchUpdate, clock, history
<1>2. /\ TypeOK /\ DOMAIN session = {"stamp", "scope", "seen"} /\ shared
      /\ session.stamp \in Stamps /\ session.scope \in Scopes /\ session.stamp <= now
      /\ now \in Nat /\ now <= runs /\ runs \in 0..MaxRuns
  BY <1>1, CountAssumption DEF IInv, TypeOK, Shape, Stamped
<1>3. /\ DOMAIN session' = {"stamp", "scope", "seen"}
      /\ session'.stamp = session.stamp /\ session'.scope = session.scope
  BY <1>1, <1>2
<1>4. CASE Remaining(session.scope) = {}
  BY <1>1, <1>2, <1>3, <1>4, WatchKeeps
<1>5. CASE Remaining(session.scope) # {}
  <2>1. PICK u : u = UpdatePlan(session.scope, session.stamp)
    OBVIOUS
  <2>2. /\ u \in Job /\ Fits(u) /\ u.stamp = session.stamp /\ u.op = "update" /\ u.copied = {}
    BY <1>2, <1>5, <2>1, UpdatePlanType, UpdatePlanFits, UpdatePlanFields
  <2>3. PICK p : p = [u EXCEPT !.yes = TRUE]
    OBVIOUS
  <2>4. /\ p \in Job /\ p.stamp = u.stamp /\ p.op = u.op /\ p.copied = u.copied
        /\ p.stages = u.stages /\ p.writes = u.writes /\ p.list = u.list /\ p.loaded = u.loaded
        /\ p.whole = u.whole /\ p.drops = u.drops /\ p.updates = u.updates /\ p.scope = u.scope
    BY <2>2, <2>3 DEF Job
  <2>5. Fits(p)
    BY <2>2, <2>4 DEF Fits, Staged, FilesFirst, SetupFits, UpdateFits, UninstallFits, Coming
  <2>6. job' = p
    BY <1>1, <1>5, <2>1, <2>3
  <2>7. undone' \in BOOLEAN /\ (undone => undone') /\ shared' \in BOOLEAN
    BY <1>1, <1>2 DEF TypeOK
  <2> QED
    BY <1>1, <1>2, <2>2, <2>4, <2>5, <2>6, <2>7, StartedKeeps
<1> QED
  BY <1>4, <1>5

LEMMA StopWatchKeeps ==
  ASSUME IInv, StopWatch
  PROVE  IInv'
<1>1. now \in Nat /\ now <= runs /\ runs \in 0..MaxRuns
  BY CountAssumption DEF IInv, TypeOK
<1> QED
  BY <1>1, WatchKeeps DEF StopWatch, clock, history

-----------------------------------------------------------------------------
(* Carrying a plan out.                                                    *)

\* A wrapper config that is written is one the job lists.
LEMMA WriteFileKeeps ==
  ASSUME IInv, At("files"), NEW w \in job.writes, WriteFile(w)
  PROVE  IInv'
<1>1. /\ TypeOK /\ Shape /\ Stamped /\ BackedUpApart /\ CopyHolds /\ SetupKeepsDefinitions
      /\ job # NoJob /\ job \in Job /\ Fits(job) /\ Head(job.stages) = "files"
      /\ files' = [files EXCEPT ![w[1]] = w[2]]
      /\ job' = [job EXCEPT !.writes = @ \ {w}, !.asked = TRUE]
      /\ UNCHANGED <<conf, backups, listed, runs, now, session, edits, mine, raced, undone, shared>>
  BY DEF IInv, TypeOK, At, JobFits, WriteFile, clock, history
<1>2. w[1] \in Names /\ w[2] \in Versions /\ job.writes \in SUBSET (Names \X Versions)
  BY <1>1 DEF Job
<1>3. /\ job' \in Job /\ job'.writes = job.writes \ {w}
      /\ job'.op = job.op /\ job'.scope = job.scope /\ job'.stamp = job.stamp
      /\ job'.stages = job.stages /\ job'.whole = job.whole /\ job'.loaded = job.loaded
      /\ job'.skipped = job.skipped /\ job'.wrapped = job.wrapped
      /\ job'.copied = job.copied
      /\ job'.drops = job.drops /\ job'.list = job.list /\ job'.updates = job.updates
  BY <1>1, <1>2 DEF Job
<1>4. files' \in [Names -> Versions \cup {Absent}]
      /\ \A n \in Names : HasFile(n)' <=> HasFile(n) \/ n = w[1]
  BY <1>1, <1>2, EntriesAssumption DEF TypeOK, HasFile
<1>5. TypeOK'
  BY <1>1, <1>3, <1>4 DEF TypeOK
<1>6. Shape' /\ Stamped' /\ BackedUpApart' /\ CopyHolds'
  BY <1>1, <1>3 DEF Shape, Stamped, BackedUpApart, CopyHolds
<1>7. SetupKeepsDefinitions'
  BY <1>1 DEF SetupKeepsDefinitions
<1>8. \A n \in Names : Coming(job, n) => Coming(job, n)'
  BY <1>3, <1>4 DEF Coming
<1>9. job.list \subseteq Names /\ job.wrapped \subseteq Names
  BY <1>1 DEF Job
<1>10. Staged(job)'
  BY <1>1, <1>3 DEF Fits, Staged
<1>11. FilesFirst(job)'
  BY <1>1, <1>3, <1>8, <1>9 DEF Fits, FilesFirst
<1>12. SetupFits(job)'
  BY <1>1, <1>3, <1>8, <1>9 DEF Fits, SetupFits
<1>13. UpdateFits(job)'
  <2>1. job.op = "update" => w[1] \in job.list
    BY <1>1 DEF Fits, FilesFirst
  <2> QED
    BY <1>1, <1>3, <1>4, <2>1 DEF Fits, UpdateFits
<1>14. UninstallFits(job)'
  BY <1>1, <1>3 DEF Fits, UninstallFits
<1> QED
  BY <1>5, <1>6, <1>7, <1>10, <1>11, <1>12, <1>13, <1>14 DEF IInv, JobFits, Fits

\* A wrapper config that is removed is not one the job lists.
LEMMA RemoveFileKeeps ==
  ASSUME IInv, At("files"), NEW n \in job.drops, RemoveFile(n)
  PROVE  IInv'
<1>1. /\ TypeOK /\ Shape /\ Stamped /\ BackedUpApart /\ CopyHolds /\ SetupKeepsDefinitions
      /\ job # NoJob /\ job \in Job /\ Fits(job) /\ Head(job.stages) = "files"
      /\ files' = [files EXCEPT ![n] = Absent] /\ job.writes = {}
      /\ job' = [job EXCEPT !.drops = @ \ {n}, !.asked = TRUE]
      /\ UNCHANGED <<conf, backups, listed, runs, now, session, edits, mine, raced, undone, shared>>
  BY DEF IInv, TypeOK, At, JobFits, RemoveFile, clock, history
<1>2. n \in Names
  BY <1>1 DEF Job
<1>3. /\ job' \in Job /\ job'.writes = job.writes
      /\ job'.op = job.op /\ job'.scope = job.scope /\ job'.stamp = job.stamp
      /\ job'.stages = job.stages /\ job'.whole = job.whole /\ job'.loaded = job.loaded
      /\ job'.skipped = job.skipped /\ job'.wrapped = job.wrapped
      /\ job'.copied = job.copied
      /\ job'.drops = job.drops \ {n} /\ job'.list = job.list /\ job'.updates = job.updates
  BY <1>1 DEF Job
<1>4. files' \in [Names -> Versions \cup {Absent}]
      /\ \A m \in Names : HasFile(m)' <=> HasFile(m) /\ m # n
  BY <1>1, <1>2 DEF TypeOK, HasFile
<1>5. TypeOK'
  BY <1>1, <1>3, <1>4 DEF TypeOK
<1>6. Shape' /\ Stamped' /\ BackedUpApart' /\ CopyHolds'
  BY <1>1, <1>3 DEF Shape, Stamped, BackedUpApart, CopyHolds
<1>7. SetupKeepsDefinitions'
  BY <1>1 DEF SetupKeepsDefinitions
<1>8. job.list \subseteq Names /\ \A m \in Names : m # n /\ Coming(job, m) => Coming(job, m)'
  BY <1>1, <1>3, <1>4 DEF Coming, Job
<1>9. Staged(job)'
  BY <1>1, <1>3 DEF Fits, Staged
<1>10. job.op # "setup" /\ (job.op = "update" => n \notin job.list)
  BY <1>1 DEF Fits, SetupFits, UpdateFits
<1>11. FilesFirst(job)'
  <2>1. job.op # "uninstall" => job.op = "update"
    BY <1>10, <1>1 DEF Job
  <2> QED
    BY <1>1, <1>3, <1>8, <1>10, <2>1 DEF Fits, FilesFirst
<1>12. SetupFits(job)'
  BY <1>3, <1>10 DEF SetupFits
<1>13. UpdateFits(job)'
  BY <1>1, <1>3, <1>4 DEF Fits, UpdateFits
<1>14. UninstallFits(job)'
  BY <1>1, <1>3, <1>4 DEF Fits, UninstallFits, LatestRefers
<1> QED
  BY <1>5, <1>6, <1>7, <1>9, <1>11, <1>12, <1>13, <1>14 DEF IInv, JobFits, Fits

\* The copy has everything the user wrote that no older backup has, and no older
\* backup gives way to it.
LEMMA CopyClientKeeps ==
  ASSUME IInv, At("clients"), NEW k \in DOMAIN job.updates, CopyClient(k)
  PROVE  IInv'
<1>1. /\ TypeOK /\ Shape /\ Stamped /\ BackedUpApart /\ SetupKeepsDefinitions
      /\ job # NoJob /\ job \in Job /\ Fits(job) /\ job.op # "uninstall" /\ job.copied = {}
      /\ backups' = Backup(k)
      /\ job' = [job EXCEPT !.copied = {k}, !.asked = TRUE]
      /\ UNCHANGED <<conf, files, listed, runs, now, session, edits, mine, raced, undone, shared>>
  BY DEF IInv, TypeOK, At, JobFits, CopyClient, clock, history
<1>2. job.updates \in Updates /\ job.stamp \in Stamps
  BY <1>1 DEF Job, Updates
<1>3. k \in Clients /\ conf[k] \in Config
  BY <1>1, <1>2, UpdatesType DEF TypeOK
<1>4. /\ job' \in Job /\ job'.writes = job.writes
      /\ job'.op = job.op /\ job'.scope = job.scope /\ job'.stamp = job.stamp
      /\ job'.stages = job.stages /\ job'.whole = job.whole /\ job'.loaded = job.loaded
      /\ job'.skipped = job.skipped /\ job'.wrapped = job.wrapped
      /\ job'.copied = {k}
      /\ job'.drops = job.drops /\ job'.list = job.list /\ job'.updates = job.updates
  BY <1>1, <1>3 DEF Job
<1>5. /\ DOMAIN backups' = Clients
      /\ \A j \in Clients \ {k} : backups'[j] = backups[j]
      /\ DOMAIN backups'[k] = DOMAIN backups[k] \cup {job.stamp}
      /\ backups'[k][job.stamp] = conf[k]
      /\ \A s \in DOMAIN backups[k] \ {job.stamp} : backups'[k][s] = backups[k][s]
  BY <1>1, <1>3 DEF Backup, Shape
<1>6. TypeOK'
  <2>1. \A j \in Clients : DOMAIN backups'[j] \subseteq Stamps
                           /\ \A s \in DOMAIN backups'[j] : backups'[j][s] \in Config
    <3>1. ASSUME NEW j \in Clients, j # k
          PROVE  DOMAIN backups'[j] \subseteq Stamps /\ \A s \in DOMAIN backups'[j] : backups'[j][s] \in Config
      BY <1>1, <1>5, <3>1 DEF TypeOK
    <3>2. DOMAIN backups'[k] \subseteq Stamps /\ \A s \in DOMAIN backups'[k] : backups'[k][s] \in Config
      BY <1>1, <1>2, <1>3, <1>5 DEF TypeOK
    <3> QED
      BY <3>1, <3>2
  <2> QED
    BY <1>1, <1>4, <2>1 DEF TypeOK
<1>7. Shape'
  BY <1>1, <1>5 DEF Shape
<1>8. Stamped'
  <2>1. \A j \in Clients : \A s \in DOMAIN backups'[j] : s <= now
    BY <1>1, <1>5 DEF Stamped
  <2> QED
    BY <1>1, <1>4, <2>1 DEF Stamped
<1>9. BackedUpApart'
  <2> SUFFICES ASSUME ~shared, NEW j \in DOMAIN job.updates \ {k}
               PROVE  job.stamp \notin DOMAIN backups'[j]
    BY <1>1, <1>4 DEF BackedUpApart
  <2>1. j \in Clients /\ j # k
    BY <1>2, UpdatesType
  <2> QED
    BY <1>1, <1>5, <2>1 DEF BackedUpApart
\* A definition that was in an old backup is still in it.
<1>10. ASSUME ~shared, NEW j \in Clients, NEW n \in Names,
              \E s \in DOMAIN backups[j] : backups[j][s][n] = mine[j][n]
       PROVE  \E s \in DOMAIN backups'[j] : backups'[j][s][n] = mine[j][n]
  <2>1. CASE j # k
    BY <1>5, <1>10, <2>1
  <2>2. CASE j = k
    <3>1. job.stamp \notin DOMAIN backups[k]
      BY <1>1, <1>10 DEF BackedUpApart
    <3> QED
      BY <1>5, <1>10, <2>2, <3>1
  <2> QED
    BY <2>1, <2>2
<1>11. SetupKeepsDefinitions'
  BY <1>1, <1>10 DEF SetupKeepsDefinitions
<1>12. CopyHolds'
  <2> SUFFICES ASSUME ~undone, ~shared, NEW n \in Names, mine[k][n] \in Versions, <<k, n>> \notin raced
               PROVE  \E s \in DOMAIN backups'[k] : backups'[k][s][n] = mine[k][n]
    BY <1>1, <1>4 DEF CopyHolds
  <2>1. conf[k][n] = mine[k][n] \/ \E s \in DOMAIN backups[k] : backups[k][s][n] = mine[k][n]
    BY <1>1, <1>3 DEF SetupKeepsDefinitions
  <2>2. CASE conf[k][n] = mine[k][n]
    BY <1>5, <2>2
  <2>3. CASE \E s \in DOMAIN backups[k] : backups[k][s][n] = mine[k][n]
    BY <1>3, <1>10, <2>3
  <2> QED
    BY <2>1, <2>2, <2>3
<1>13. \A n : (Coming(job, n)' <=> Coming(job, n)) /\ (HasFile(n)' <=> HasFile(n))
  BY <1>1, <1>4 DEF Coming, HasFile
<1>14. Staged(job)' /\ FilesFirst(job)' /\ SetupFits(job)' /\ UpdateFits(job)' /\ UninstallFits(job)'
  BY <1>1, <1>4, <1>13 DEF Fits, Staged, FilesFirst, SetupFits, UpdateFits, UninstallFits
<1> QED
  BY <1>6, <1>7, <1>8, <1>9, <1>11, <1>12, <1>14 DEF IInv, JobFits, Fits

\* What is overwritten is in a backup, but for what was written since the copy.
LEMMA RewriteClientKeeps ==
  ASSUME IInv, At("clients"), NEW k \in DOMAIN job.updates, RewriteClient(k)
  PROVE  IInv'
<1>1. /\ TypeOK /\ Shape /\ Stamped /\ BackedUpApart /\ CopyHolds /\ SetupKeepsDefinitions
      /\ job # NoJob /\ job \in Job /\ Fits(job) /\ Head(job.stages) = "clients"
      /\ job.op = "uninstall" \/ job.copied = {k}
      /\ conf' = [conf EXCEPT ![k] = job.updates[k]]
      /\ job' = [job EXCEPT !.updates = Restrict(@, DOMAIN @ \ {k}), !.copied = {}, !.asked = TRUE]
      /\ UNCHANGED <<backups, files, listed, runs, now, session, edits, mine, raced, undone, shared>>
  BY DEF IInv, TypeOK, At, JobFits, RewriteClient, clock, history
<1>2. job.updates \in Updates /\ job.stamp \in Stamps
  BY <1>1 DEF Job, Updates
<1>3. k \in Clients /\ job.updates[k] \in Config
  BY <1>2, UpdatesType
<1>4. PICK v : v = Restrict(job.updates, DOMAIN job.updates \ {k})
  OBVIOUS
<1>5. v \in Updates /\ DOMAIN v = DOMAIN job.updates \ {k} /\ \A j \in DOMAIN v : v[j] = job.updates[j]
  BY <1>2, <1>4, OneUpdateLess
<1>6. job' = [job EXCEPT !.updates = v, !.copied = {}, !.asked = TRUE]
  BY <1>1, <1>4
<1>7. /\ job' \in Job /\ job'.writes = job.writes
      /\ job'.op = job.op /\ job'.scope = job.scope /\ job'.stamp = job.stamp
      /\ job'.stages = job.stages /\ job'.whole = job.whole /\ job'.loaded = job.loaded
      /\ job'.skipped = job.skipped /\ job'.wrapped = job.wrapped
      /\ job'.copied = {}
      /\ job'.drops = job.drops /\ job'.list = job.list /\ job'.updates = v
  BY <1>1, <1>5, <1>6 DEF Job, Updates
<1>8. conf' \in [Clients -> Config] /\ \A j \in Clients : conf'[j] = IF j = k THEN job.updates[k] ELSE conf[j]
  BY <1>1, <1>3 DEF TypeOK
<1>9. TypeOK'
  BY <1>1, <1>7, <1>8 DEF TypeOK
<1>10. Shape' /\ Stamped' /\ CopyHolds'
  BY <1>1, <1>7 DEF Shape, Stamped, CopyHolds
<1>11. BackedUpApart'
  <2> SUFFICES ASSUME ~shared, job.op # "uninstall", NEW j \in DOMAIN v
               PROVE  job.stamp \notin DOMAIN backups[j]
    BY <1>1, <1>7 DEF BackedUpApart
  <2>1. j \in DOMAIN job.updates \ job.copied
    BY <1>1, <1>5
  <2> QED
    BY <1>1, <2>1 DEF BackedUpApart
<1>12. SetupKeepsDefinitions'
  <2> SUFFICES ASSUME ~undone, ~shared, NEW j \in Clients, NEW n \in Names,
                      mine[j][n] \in Versions, <<j, n>> \notin raced
               PROVE  \/ conf'[j][n] = mine[j][n]
                      \/ \E s \in DOMAIN backups[j] : backups[j][s][n] = mine[j][n]
    BY <1>1 DEF SetupKeepsDefinitions
  <2>1. conf[j][n] = mine[j][n] \/ \E s \in DOMAIN backups[j] : backups[j][s][n] = mine[j][n]
    BY <1>1 DEF SetupKeepsDefinitions
  <2>2. CASE j # k
    BY <1>8, <2>1, <2>2
  <2>3. CASE j = k
    <3>1. k \in job.copied
      BY <1>1 DEF BackedUpApart
    <3> QED
      BY <1>1, <2>3, <3>1 DEF CopyHolds
  <2> QED
    BY <2>2, <2>3
<1>13. \A n \in Names : (Coming(job, n)' <=> Coming(job, n)) /\ (HasFile(n)' <=> HasFile(n))
  BY <1>1, <1>7 DEF Coming, HasFile
<1>14. job.list \subseteq Names /\ job.wrapped \subseteq Names
  BY <1>1 DEF Job
<1>15. Staged(job)' /\ FilesFirst(job)' /\ SetupFits(job)'
  BY <1>1, <1>7, <1>13, <1>14 DEF Fits, Staged, FilesFirst, SetupFits
<1>16. UpdateFits(job)'
  BY <1>1, <1>5, <1>7, <1>8, <1>13 DEF Fits, UpdateFits
<1>17. UninstallFits(job)'
  <2> SUFFICES ASSUME job.op = "uninstall" PROVE UninstallFits(job)'
    BY <1>7 DEF UninstallFits
  <2>1. \A j \in Clients, n \in Names : LatestRefers(j, n)' <=> LatestRefers(j, n)
    BY <1>1 DEF LatestRefers
  <2>2. \A j \in DOMAIN v : j \in Clients
    BY <1>5, UpdatesType
  <2>3. UninstallFits(job)
    BY <1>1 DEF Fits
  <2>4. ASSUME NEW j \in Clients, NEW n \in Names, conf'[j][n] = Ref, j \notin DOMAIN v
        PROVE  LatestRefers(j, n)'
    <3>1. CASE j = k
      BY <1>8, <2>1, <2>3, <2>4, <3>1 DEF UninstallFits
    <3>2. CASE j # k
      BY <1>5, <1>8, <2>1, <2>3, <2>4, <3>2 DEF UninstallFits
    <3> QED
      BY <3>1, <3>2
  <2>5. \A j \in DOMAIN v, n \in Names : v[j][n] = Ref => LatestRefers(j, n)'
    BY <1>5, <2>1, <2>2, <2>3 DEF UninstallFits
  <2>6. job.whole /\ Head(job.stages) = "files" => DOMAIN v = {}
    BY <1>1
  <2> QED
    BY <1>7, <1>13, <2>3, <2>4, <2>5, <2>6 DEF UninstallFits
<1> QED
  BY <1>9, <1>10, <1>11, <1>12, <1>15, <1>16, <1>17 DEF IInv, JobFits, Fits

\* A job that is over leaves nothing to say of it.
LEMMA OverKeeps ==
  ASSUME IInv, job' = NoJob, listed' \subseteq Names,
         UNCHANGED <<conf, backups, files, runs, now, session, edits, mine, raced, undone, shared>>
  PROVE  IInv'
BY DEF IInv, TypeOK, Shape, Stamped, BackedUpApart, CopyHolds, SetupKeepsDefinitions, JobFits

\* A stage of the job is behind it: what it stood for was done or, if the user
\* declined it, the job is not whole any more.
LEMMA StageOverKeeps ==
  ASSUME IInv, job # NoJob, NEW st, NEW whole \in BOOLEAN,
         st = job.stages \/ (job.op = "update" /\ Head(job.stages) = "files" /\ st = Tail(job.stages)),
         job' = After(st, whole),
         UNCHANGED <<conf, backups, files, runs, now, session, edits, mine, raced, undone, shared>>,
         listed' = listed \/ listed' = job.list,
         whole => /\ job.whole /\ st = job.stages
                  /\ Head(job.stages) = "files" => job.writes = {}
                  /\ Head(job.stages) = "daemon" => listed' = job.list
                  /\ Head(job.stages) = "clients" => DOMAIN job.updates = {}
  PROVE  IInv'
<1>1. /\ TypeOK /\ Shape /\ Stamped /\ BackedUpApart /\ CopyHolds /\ SetupKeepsDefinitions
      /\ job \in Job /\ Fits(job)
  BY DEF IInv, TypeOK, JobFits
<1>2. listed' \subseteq Names
  BY <1>1 DEF TypeOK, Job
<1>3. CASE Len(st) = 1
  BY <1>2, <1>3, OverKeeps DEF After
<1>4. CASE Len(st) # 1
  <2>1. PICK b \in BOOLEAN : job' = [job EXCEPT !.stages = Tail(st), !.whole = whole, !.asked = b]
    BY <1>1, <1>4 DEF After, Job
  <2>2. /\ job.op = "setup" => job.stages \in SetupStages
        /\ job.op = "update" => job.stages \in UpdateStages
        /\ job.op = "uninstall" => job.stages \in UninstallStages
    BY <1>1 DEF Fits, Staged
  <2>3. /\ job.op = "setup" => st \in SetupStages
        /\ job.op = "update" => st \in UpdateStages
        /\ job.op = "uninstall" => st \in UninstallStages
    BY <1>4, <2>2, UpdateStagesPass
  <2>4. /\ job.op = "setup" => /\ Tail(st) \in SetupStages
                               /\ Head(Tail(st)) = "clients" => Head(st) = "daemon"
        /\ job.op = "update" => Tail(st) \in UpdateStages
        /\ job.op = "uninstall" => Tail(st) \in UninstallStages /\ Head(st) = "clients"
        /\ job.op # "uninstall" => Head(Tail(st)) # "files"
    BY <1>1, <1>4, <2>3, SetupStagesPass, UpdateStagesPass, UninstallStagesPass DEF Job
  <2>5. Tail(st) \in Seq({"files", "daemon", "clients"})
    BY <1>1, <2>4, SetupStagesPass, UpdateStagesPass, UninstallStagesPass DEF Job, Stage
  <2>6. /\ job' \in Job /\ job'.stages = Tail(st) /\ job'.whole = whole
        /\ job'.op = job.op /\ job'.scope = job.scope /\ job'.stamp = job.stamp
        /\ job'.loaded = job.loaded /\ job'.skipped = job.skipped /\ job'.wrapped = job.wrapped
        /\ job'.writes = job.writes /\ job'.drops = job.drops
        /\ job'.list = job.list /\ job'.updates = job.updates /\ job'.copied = job.copied
    BY <1>1, <2>1, <2>5 DEF Job
  <2>7. TypeOK'
    BY <1>1, <1>2, <2>6 DEF TypeOK
  <2>8. Shape' /\ Stamped' /\ BackedUpApart' /\ CopyHolds' /\ SetupKeepsDefinitions'
    BY <1>1, <2>6 DEF Shape, Stamped, BackedUpApart, CopyHolds, SetupKeepsDefinitions
  <2>9. \A n : (Coming(job, n)' <=> Coming(job, n)) /\ (HasFile(n)' <=> HasFile(n))
    BY <2>6 DEF Coming, HasFile
  <2>10. Staged(job)'
    BY <1>1, <2>4, <2>6 DEF Staged, Job
  <2>11. FilesFirst(job)'
    BY <1>1, <2>6, <2>9 DEF Fits, FilesFirst
  <2>12. SetupFits(job)'
    BY <1>1, <2>4, <2>6, <2>9 DEF Fits, SetupFits
  <2>13. UpdateFits(job)'
    BY <1>1, <2>6, <2>9 DEF Fits, UpdateFits
  <2>14. UninstallFits(job)'
    BY <1>1, <2>4, <2>6, <2>9 DEF Fits, UninstallFits, LatestRefers
  <2> QED
    BY <2>7, <2>8, <2>10, <2>11, <2>12, <2>13, <2>14 DEF IInv, JobFits, Fits
<1> QED
  BY <1>3, <1>4

\* The ways a stage ends: nothing is left to do, the list is written, the user says
\* no, or the run is cut short.
LEMMA AdvanceKeeps == IInv /\ Advance => IInv'
<1> SUFFICES ASSUME IInv, Advance PROVE IInv'
  OBVIOUS
<1>1. /\ job # NoJob /\ job \in Job /\ Fits(job) /\ job.whole \in BOOLEAN
      /\ job' = After(job.stages, job.whole)
      /\ UNCHANGED <<conf, backups, files, listed, runs, now, session, edits, mine, raced, undone, shared>>
  BY DEF IInv, TypeOK, JobFits, Advance, StageDone, At, Job, clock, history
<1>2. /\ Head(job.stages) # "daemon" /\ (Head(job.stages) = "files" => job.writes = {})
      /\ Head(job.stages) = "clients" => DOMAIN job.updates = {}
  BY DEF Advance, StageDone, At
<1> QED
  BY <1>1, <1>2, StageOverKeeps

LEMMA WriteListingKeeps == IInv /\ WriteListing => IInv'
<1> SUFFICES ASSUME IInv, WriteListing PROVE IInv'
  OBVIOUS
<1>1. /\ job # NoJob /\ job.whole \in BOOLEAN /\ Head(job.stages) = "daemon" /\ listed' = job.list
      /\ job' = After(job.stages, job.whole)
      /\ UNCHANGED <<conf, backups, files, runs, now, session, edits, mine, raced, undone, shared>>
  BY DEF IInv, TypeOK, WriteListing, At, Job, clock, history
<1> QED
  BY <1>1, StageOverKeeps

LEMMA RefuseKeeps == IInv /\ Refuse => IInv'
<1> SUFFICES ASSUME IInv, Refuse PROVE IInv'
  OBVIOUS
<1>1. /\ job # NoJob
      /\ UNCHANGED <<conf, backups, files, listed, runs, now, session, edits, mine, raced, undone, shared>>
  BY DEF Refuse, clock, history
<1>2. CASE job.op = "update" /\ At("files")
  <2>1. job' = After(Tail(job.stages), FALSE) /\ Head(job.stages) = "files"
    BY <1>2 DEF Refuse, At
  <2> QED
    BY <1>1, <1>2, <2>1, StageOverKeeps
<1>3. CASE ~(job.op = "update" /\ At("files"))
  <2>1. job' = After(job.stages, FALSE)
    BY <1>3 DEF Refuse
  <2> QED
    BY <1>1, <2>1, StageOverKeeps
<1> QED
  BY <1>2, <1>3

LEMMA AbortKeeps == IInv /\ Abort => IInv'
<1>1. IInv => listed \subseteq Names
  BY DEF IInv, TypeOK
<1> QED
  BY <1>1, OverKeeps DEF Abort, clock, history

LEMMA UnchangedKeeps == IInv /\ UNCHANGED vars => IInv'
BY DEF IInv, vars, clock, history, TypeOK, Shape, Stamped, BackedUpApart, CopyHolds,
       SetupKeepsDefinitions, JobFits, Fits,
       Staged, FilesFirst, SetupFits, UpdateFits, UninstallFits, LatestRefers, Coming, HasFile

\* Every step keeps the invariant.
LEMMA NextKeeps == IInv /\ [Next]_vars => IInv'
<1> SUFFICES ASSUME IInv, [Next]_vars PROVE IInv'
  OBVIOUS
<1>1. CASE \E k \in Clients, n \in Names, e \in Written : Edit(k, n, e)
  BY <1>1, EditKeeps
<1>2. CASE \E S \in Scopes : RunSetup(S) \/ RunUpdate(S) \/ StartWatch(S)
  BY <1>2, RunSetupKeeps, RunUpdateKeeps, StartWatchKeeps
<1>3. CASE RunUninstall \/ WatchUpdate \/ StopWatch
  BY <1>3, RunUninstallKeeps, WatchUpdateKeeps, StopWatchKeeps
<1>4. CASE At("files") /\ \E w \in job.writes : WriteFile(w)
  BY <1>4, WriteFileKeeps
<1>5. CASE At("files") /\ \E n \in job.drops : RemoveFile(n)
  BY <1>5, RemoveFileKeeps
<1>6. CASE At("clients") /\ \E k \in DOMAIN job.updates : CopyClient(k) \/ RewriteClient(k)
  BY <1>6, CopyClientKeeps, RewriteClientKeeps
<1>7. CASE Advance \/ WriteListing \/ Refuse \/ Abort
  BY <1>7, AdvanceKeeps, WriteListingKeeps, RefuseKeeps, AbortKeeps
<1>8. CASE UNCHANGED vars
  BY <1>8, UnchangedKeeps
<1> QED
  BY <1>1, <1>2, <1>3, <1>4, <1>5, <1>6, <1>7, <1>8 DEF Next

-----------------------------------------------------------------------------
(* What a step may not do.                                                 *)

\* The steps that change a client's config, a wrapper config or the list.
LEMMA StepKinds ==
  ASSUME [Next]_vars
  PROVE  \/ UNCHANGED <<conf, files, listed>>
         \/ \E k \in Clients, n \in Names, e \in Written : Edit(k, n, e)
         \/ At("files") /\ \E w \in job.writes : WriteFile(w)
         \/ At("files") /\ \E n \in job.drops : RemoveFile(n)
         \/ At("clients") /\ \E k \in DOMAIN job.updates : RewriteClient(k)
         \/ WriteListing
BY DEF Next, vars, RunSetup, RunUpdate, RunUninstall, StartWatch, WatchUpdate, StopWatch, Begin,
       CopyClient, Advance, Refuse, Abort

\* Only the removal of a wrapper config and the writing of the list can break one.
LEMMA NoRefBrokenStep ==
  ASSUME IInv, [Next]_vars, NEW k \in Clients, NEW n \in Names,
         conf[k][n] = Ref, Resolves(n), ~Resolves(n)'
  PROVE  \/ job.op = "uninstall"
         \/ job.op = "update" /\ job.scope # Clients
         \/ job.op = "setup" /\ n \in job.skipped
<1>1. TypeOK /\ (job # NoJob => job \in Job /\ Fits(job))
  BY DEF IInv, TypeOK, JobFits
<1>2. ~UNCHANGED <<files, listed>>
  BY DEF Resolves, HasFile
<1>3. CASE At("files") /\ \E w \in job.writes : WriteFile(w)
  <2>1. PICK w \in job.writes : files' = [files EXCEPT ![w[1]] = w[2]] /\ listed' = listed
    BY <1>3 DEF WriteFile
  <2>2. w[1] \in Names /\ w[2] \in Versions
    BY <1>1, <1>3 DEF At, Job
  <2>3. HasFile(n)'
    BY <1>1, <2>1, <2>2, EntriesAssumption DEF HasFile, Resolves, TypeOK
  <2> QED
    BY <2>1, <2>3 DEF Resolves
<1>4. CASE At("files") /\ \E m \in job.drops : RemoveFile(m)
  <2>1. PICK m \in job.drops : files' = [files EXCEPT ![m] = Absent] /\ listed' = listed /\ job # NoJob
    BY <1>4 DEF RemoveFile, At
  <2>2. m = n
    BY <1>1, <2>1 DEF Resolves, HasFile, TypeOK
  <2> QED
    BY <1>1, <2>1, <2>2 DEF Fits, SetupFits, UpdateFits, Job
<1>5. CASE WriteListing
  <2>1. job # NoJob /\ listed' = job.list /\ files' = files
    BY <1>5 DEF WriteListing, At
  <2>2. n \in listed /\ n \notin job.list /\ HasFile(n)
    BY <2>1 DEF Resolves, HasFile
  <2> QED
    BY <1>1, <2>1, <2>2 DEF Fits, SetupFits, UpdateFits, Job
<1> QED
  BY <1>2, <1>3, <1>4, <1>5, StepKinds DEF Edit, RewriteClient

\* The last step of a run changes no client's config and no wrapper config, and
\* only an update writes the list with it.
LEMMA LastStep ==
  ASSUME IInv, [Next]_vars, Finishes, job.op # "uninstall"
  PROVE  /\ job \in Job /\ Fits(job) /\ UNCHANGED files
         /\ job.op = "setup" => Head(job.stages) = "clients" /\ UNCHANGED listed
         /\ job.op = "update" => /\ Head(job.stages) = "daemon" /\ UNCHANGED conf
                                 /\ listed' = job.list
<1>1. job # NoJob /\ job' = NoJob /\ Len(job.stages) = 1 /\ (Head(job.stages) = "daemon" => listed' = job.list)
  BY DEF Finishes, At
<1>2. job \in Job /\ Fits(job)
  BY <1>1 DEF IInv, TypeOK, JobFits
<1>3. /\ job.op = "setup" => Head(job.stages) = "clients"
      /\ job.op = "update" => Head(job.stages) = "daemon"
  BY <1>1, <1>2, SetupStagesPass, UpdateStagesPass DEF Fits, Staged
<1>4. job.op \in {"setup", "update"}
  BY <1>2 DEF Job
<1>5. ~\E k \in Clients, n \in Names, e \in Written : Edit(k, n, e)
  BY <1>1 DEF Edit
<1>6. UNCHANGED files
  BY <1>3, <1>4, <1>5, StepKinds DEF At, RewriteClient, WriteListing
<1>7. job.op = "setup" => UNCHANGED listed
  BY <1>3, <1>5, StepKinds DEF At, RewriteClient, WriteListing
<1>8. job.op = "update" => UNCHANGED conf
  BY <1>3, <1>5, StepKinds DEF At, RewriteClient, WriteListing
<1> QED
  BY <1>1, <1>2, <1>3, <1>6, <1>7, <1>8

\* The three other action properties, from what a fitting job has done by then.
LEMMA CompletedRunLoadsStep ==
  ASSUME IInv, [Next]_vars, Finishes, job.whole,
         job.op = "update" \/ (job.op = "setup" /\ job.loaded)
  PROVE  Loads(listed)'
<1>1. /\ job \in Job /\ Fits(job) /\ UNCHANGED files /\ job.op \in {"setup", "update"}
      /\ job.op = "setup" => Head(job.stages) = "clients" /\ UNCHANGED listed
      /\ job.op = "update" => Head(job.stages) = "daemon" /\ listed' = job.list
  BY LastStep
<1>2. job.list # {} /\ job.writes = {} /\ \A n \in job.list : HasFile(n)
  BY <1>1 DEF Fits, FilesFirst, Coming
<1>3. listed' = job.list
  BY <1>1 DEF Fits, SetupFits
<1> QED
  BY <1>1, <1>2, <1>3 DEF Loads, HasFile

LEMMA RewrittenEntryResolvesStep ==
  ASSUME IInv, [Next]_vars, NEW k \in Clients, NEW n \in Names,
         conf[k][n] # Ref, conf'[k][n] = Ref, job.op = "setup", job.whole, n \in job.wrapped
  PROVE  Resolves(n)
<1>1. TypeOK
  BY DEF IInv
<1>2. ASSUME NEW j \in Clients, NEW m \in Names, NEW e \in Written, Edit(j, m, e)
      PROVE  FALSE
  <2>1. conf \in [Clients -> [Names -> Written \cup {Ref}]] /\ conf' = [conf EXCEPT ![j][m] = e]
    BY <1>1, <1>2 DEF TypeOK, Config, Edit
  <2>2. conf'[k][n] \in {e, conf[k][n]}
    BY <2>1
  <2> QED
    BY <2>2, EntriesAssumption DEF Written
<1>3. At("clients")
  BY <1>2, StepKinds DEF WriteFile, RemoveFile, WriteListing
<1>4. job # NoJob /\ Head(job.stages) = "clients" /\ Fits(job)
  BY <1>3 DEF At, IInv, JobFits
<1>5. job.writes = {} /\ listed = job.list
  BY <1>4 DEF Fits, FilesFirst, SetupFits
<1>6. n \in job.list /\ HasFile(n)
  BY <1>4, <1>5 DEF Fits, SetupFits, Coming
<1> QED
  BY <1>5, <1>6 DEF Resolves

LEMMA UpdateRepairsStep ==
  ASSUME IInv, [Next]_vars, Finishes, job.op = "update", job.scope = Clients,
         NEW k \in Clients, NEW n \in Names, conf'[k][n] = Ref, HasFile(n)'
  PROVE  n \in listed'
<1>1. Fits(job) /\ UNCHANGED <<files, conf>> /\ listed' = job.list
  BY LastStep
<1>2. HasFile(n) /\ conf[k][n] = Ref
  BY <1>1 DEF HasFile
<1> QED
  BY <1>1, <1>2 DEF Fits, UpdateFits

LEMMA UninstallRemovesWrappersStep ==
  ASSUME IInv, [Next]_vars, Finishes, job.op = "uninstall", job.whole
  PROVE  /\ \A n \in Names : ~HasFile(n)'
         /\ \A k \in Clients, n \in Names : conf'[k][n] = Ref => LatestRefers(k, n)
<1>1. /\ job # NoJob /\ job' = NoJob /\ Len(job.stages) = 1
      /\ Head(job.stages) = "files" => job.drops = {}
  BY DEF Finishes, At
<1>2. Fits(job)
  BY <1>1 DEF IInv, JobFits
<1>3. Head(job.stages) = "files"
  BY <1>1, <1>2, UninstallStagesPass DEF Fits, Staged
<1>4. job.drops = {} /\ job.writes = {} /\ DOMAIN job.updates = {}
  BY <1>1, <1>2, <1>3 DEF Fits, UninstallFits
<1>5. UNCHANGED <<conf, files>>
  <2>1. ~\E k \in Clients, n \in Names, e \in Written : Edit(k, n, e)
    BY <1>1 DEF Edit
  <2> QED
    BY <1>3, <1>4, <2>1, StepKinds DEF At, WriteListing
<1> QED
  BY <1>2, <1>4, <1>5 DEF Fits, UninstallFits, HasFile

-----------------------------------------------------------------------------
(* Theorems.                                                               *)

\* The inductive invariant holds in every reachable state: the plan that is carried
\* out fits the files, however the user edits them and earlier runs ended.
THEOREM Invariant == Spec => []IInv
BY InitIInv, NextKeeps, PTL DEF Spec

\* Every variable keeps its type, for any number of clients, names and runs.
THEOREM TypeCorrect == Spec => []TypeOK
<1>1. IInv => TypeOK
  BY DEF IInv
<1> QED
  BY <1>1, Invariant, PTL

\* No definition a user wrote is lost without a copy, which is of the config as it is
\* when its turn comes and not when the plan was made, under a backup name of its own.
\* The property names the exceptions: a definition written between the copy and the
\* write, any once an uninstall has run, and any once two operations have shared a
\* stamp (WriteServers, backupPath).
THEOREM DefinitionsKept == Spec => []SetupKeepsDefinitions
<1>1. IInv => SetupKeepsDefinitions
  BY DEF IInv
<1> QED
  BY <1>1, Invariant, PTL

\* No step takes the wrapper from under a client's reference, but for the exceptions
\* the property names (NewPlan, NewUpdatePlan, Apply, Update).
THEOREM RefsKept == Spec => NoRefBroken
<1>1. IInv /\ [Next]_vars =>
        [\A k \in Clients, n \in Names :
           conf[k][n] = Ref /\ Resolves(n) /\ conf'[k][n] = Ref /\ ~Resolves(n)' =>
             \/ job.op = "uninstall"
             \/ job.op = "update" /\ job.scope # Clients
             \/ job.op = "setup" /\ n \in job.skipped]_vars
  BY NoRefBrokenStep
<1> QED
  BY <1>1, Invariant, PTL DEF Spec, NoRefBroken

\* The daemon starts on what a completed update has listed, whatever was edited, and
\* whichever earlier runs were cut short; on what a completed setup has listed if there
\* was no list, or one it started on, when the setup began (Apply, Update).
THEOREM CompletedRunsLoad == Spec => CompletedRunLoads
<1>1. IInv /\ [Next]_vars =>
        [Finishes /\ job.whole /\ (job.op = "update" \/ (job.op = "setup" /\ job.loaded))
           => Loads(listed)']_vars
  BY CompletedRunLoadsStep
<1> QED
  BY <1>1, Invariant, PTL DEF Spec, CompletedRunLoads

\* A setup none of whose stages the user declined comes to the clients when everything
\* they will refer to is in place (Apply's three steps).
THEOREM EntriesResolve == Spec => RewrittenEntryResolves
<1>1. IInv /\ [Next]_vars =>
        [\A k \in Clients, n \in Names :
           conf[k][n] # Ref /\ conf'[k][n] = Ref
           /\ job.op = "setup" /\ job.whole /\ n \in job.wrapped => Resolves(n)]_vars
  BY RewrittenEntryResolvesStep
<1> QED
  BY <1>1, Invariant, PTL DEF Spec, RewrittenEntryResolves

\* An update of all clients that writes the list leaves no reference to a wrapper
\* that is there and not listed (NewUpdatePlan, Update).
THEOREM UpdatesRepair == Spec => UpdateRepairs
<1>1. IInv /\ [Next]_vars =>
        [Finishes /\ job.op = "update" /\ job.scope = Clients =>
           \A k \in Clients, n \in Names :
             conf'[k][n] = Ref /\ HasFile(n)' => n \in listed']_vars
  BY UpdateRepairsStep
<1> QED
  BY <1>1, Invariant, PTL DEF Spec, UpdateRepairs

\* An uninstall of which nothing was declined takes every wrapper config away, and
\* what references it leaves are those of the latest backups (NewUninstallPlan,
\* Uninstall).
THEOREM UninstallIsClean == Spec => UninstallRemovesWrappers
<1>1. IInv /\ [Next]_vars =>
        [Finishes /\ job.op = "uninstall" /\ job.whole =>
           /\ \A n \in Names : ~HasFile(n)'
           /\ \A k \in Clients, n \in Names : conf'[k][n] = Ref =>
                DOMAIN backups[k] # {} /\ backups[k][Max(DOMAIN backups[k])][n] = Ref]_vars
  BY UninstallRemovesWrappersStep DEF LatestRefers
<1> QED
  BY <1>1, Invariant, PTL DEF Spec, UninstallRemovesWrappers
=============================================================================
