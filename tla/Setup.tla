------------------------------- MODULE Setup --------------------------------
(***************************************************************************)
(* setup, setup update, setup watch --apply and setup uninstall            *)
(* (internal/setup): operations that read the MCP client configs, make a   *)
(* plan, and carry it out file by file, asking before each stage.  They    *)
(* can stop anywhere, by an error or by being killed, and the user edits   *)
(* the same client configs meanwhile.                                      *)
(*                                                                         *)
(* One operation runs at a time.  Writing one file is one step.  A client  *)
(* config is read and copied in one step and rewritten in another: the     *)
(* copy has what was read, so an edit after the read is one after the copy.*)
(* Every wrapper config is in the managed directory; --config names one    *)
(* client config or none.                                                  *)
(* Servers are stdio: the local ports of HTTP servers are left out.        *)
(* The auto-start unit and the running daemon are left out: their failure  *)
(* ends the operation, as Abort does.                                      *)
(***************************************************************************)
EXTENDS Naturals, Sequences, FiniteSetsExt, Functions

CONSTANTS
  NumClients,  \* installed MCP clients, in the order they are scanned
  Names,       \* names of MCP servers, as canonicalName returns them
  Versions,    \* definitions of a server that setup can wrap
  Plain,       \* a definition it must leave direct
  Ref,         \* an entry that refers to the wrapper
  Absent,      \* no entry, or no wrapper config
  NoJob,       \* no operation, or no watch session, is running
  MaxRuns,     \* bound: operations and watch sessions started
  MaxEdits     \* bound: edits made by the user

ASSUME CountAssumption == NumClients \in Nat /\ MaxRuns \in Nat /\ MaxEdits \in Nat
ASSUME EntriesAssumption ==
  /\ {Plain, Ref, Absent} \cap Versions = {}
  /\ Plain # Ref /\ Plain # Absent /\ Ref # Absent

Clients == 1..NumClients
Written == Versions \cup {Plain, Absent}      \* what a user writes
Config  == [Names -> Written \cup {Ref}]      \* a client's config
Stamps  == 1..MaxRuns                         \* seconds, as in backup names

VARIABLES
  conf,        \* conf[k]: the MCP servers in the config of client k
  backups,     \* backups[k]: its backups, by the stamp in their names
  files,       \* files[n]: the wrapper config of n
  listed,      \* names that daemon.json lists; {} for no daemon.json
  job,         \* the operation that is running
  runs,        \* operations and watch sessions started so far
  now,         \* the second in which the last of them was
  session,     \* the watch session: its stamp, its scope and what it last saw
  edits,       \* edits made so far
  mine,        \* history: mine[k][n] is what the user last wrote
  raced,       \* history: <<k, n>> was last written while client k's config, which
               \* had been copied, was about to be overwritten
  undone,      \* history: an uninstall has been started
  shared       \* history: operations have had one stamp, as those of one watch session
               \* and those begun in one second do

clock   == <<runs, now>>
history == <<mine, raced, undone, shared>>
vars    == <<conf, backups, files, listed, job, clock, session, edits, history>>

Wraps(k, n)  == conf[k][n] \in Versions
HasFile(n)   == files[n] # Absent
Loads(l)     == l # {} /\ \A n \in l : HasFile(n)
Resolves(n)  == n \in listed /\ HasFile(n)

-----------------------------------------------------------------------------
(* Plans.  S is the set of clients scanned.                                *)

\* Wrong on purpose: the first client decides, even without a definition.
DefinitionOfFirst(S, n) == conf[Min(S)][n]
\* Without --config the first client that defines a name decides.
Definition(S, n) == conf[Min({k \in S : Wraps(k, n)})][n]
Wrappable(S)     == {n \in Names : \E k \in S : Wraps(k, n)}
Skipped(S)       == {n \in Names : \E k \in S : conf[k][n] = Plain}

\* replaceWithWrapperRefs.
Rewritten(k)     == [n \in Names |-> IF Wraps(k, n) THEN Ref ELSE conf[k][n]]
ClientUpdates(S) == [k \in {j \in S : Rewritten(j) # conf[j]} |-> Rewritten(k)]

\* Wrong on purpose: a skipped name is dropped even when another client has a
\* definition of it to wrap.
MergedThenSkipped(S) == (listed \cup Wrappable(S)) \ Skipped(S)
\* mergeConfigPathsByName: what is listed stays, but for names that are skipped
\* and whose wrapper config tells their name.
Merged(S) == (listed \ {n \in Skipped(S) : HasFile(n)}) \cup Wrappable(S)

\* NewUpdatePlan: wrappers of names no scanned client mentions are removed.
Existing    == {n \in Names : HasFile(n)}
\* Wrong on purpose: an entry that refers to the wrapper does not count.
PresentDirectly(S) == Wrappable(S)
Present(S)  == {n \in Names : \E k \in S : conf[k][n] \in Versions \cup {Ref}}
Added(S)    == Wrappable(S) \ Existing
Removed(S)  == Existing \ Present(S)
\* Wrong on purpose: removed wrappers stay listed.
RemainingWithRemoved(S) == Existing \cup Added(S)
\* Wrong on purpose: only what is listed already is kept.
RemainingOfListed(S) == (listed \ Removed(S)) \cup Added(S)
Remaining(S) == (Existing \ Removed(S)) \cup Added(S)

Plan(op, S, stamp, stages) ==
  [op |-> op, scope |-> S, stamp |-> stamp, stages |-> stages, asked |-> FALSE,
   yes |-> FALSE, copied |-> {}, whole |-> TRUE, loaded |-> listed = {} \/ Loads(listed),
   skipped |-> Skipped(S), wrapped |-> Wrappable(S),
   writes |-> {}, drops |-> {}, list |-> {}, updates |-> <<>>]

SetupPlan(S, stamp) ==
  [Plan("setup", S, stamp, <<"files", "daemon", "clients">>) EXCEPT
     !.writes = {<<n, Definition(S, n)>> : n \in Wrappable(S)},
     !.list = Merged(S), !.updates = ClientUpdates(S)]

UpdatePlan(S, stamp) ==
  [Plan("update", S, stamp, <<"files", "clients", "daemon">>) EXCEPT
     !.writes = {<<n, Definition(S, n)>> : n \in Added(S)},
     !.drops = Removed(S),
     !.list = Remaining(S), !.updates = ClientUpdates(S)]

\* NewUninstallPlan: the latest backup, or else the config without references.
Restored(k) ==
  IF DOMAIN backups[k] # {} THEN backups[k][Max(DOMAIN backups[k])]
  ELSE [n \in Names |-> IF conf[k][n] = Ref THEN Absent ELSE conf[k][n]]
ToRestore ==
  {k \in Clients : DOMAIN backups[k] # {} \/ \E n \in Names : conf[k][n] = Ref}

\* Wrong on purpose: only the wrappers that the daemon's list names are removed.
UninstallPlanListed(stamp) ==
  [Plan("uninstall", Clients, stamp, <<"clients", "files">>) EXCEPT
     !.drops = Existing \cap listed,
     !.updates = [k \in ToRestore |-> Restored(k)]]

UninstallPlan(stamp) ==
  [Plan("uninstall", Clients, stamp, <<"clients", "files">>) EXCEPT
     !.drops = Existing,
     !.updates = [k \in ToRestore |-> Restored(k)]]

-----------------------------------------------------------------------------
Init ==
  /\ conf \in [Clients -> [Names -> Written]]
  /\ backups = [k \in Clients |-> <<>>]
  /\ files = [n \in Names |-> Absent]
  /\ listed = {}
  /\ job = NoJob
  /\ runs = 0 /\ now = 0 /\ session = NoJob /\ edits = 0
  /\ mine = conf /\ raced = {}
  /\ undone = FALSE /\ shared = FALSE

\* The user edits a client config, whether or not an operation is running.
Edit(k, n, e) ==
  /\ edits < MaxEdits
  /\ edits' = edits + 1
  /\ e # conf[k][n]
  /\ conf' = [conf EXCEPT ![k][n] = e]
  /\ mine' = [mine EXCEPT ![k][n] = e]
  /\ raced' = IF job # NoJob /\ k \in job.copied THEN raced \cup {<<k, n>>}
              ELSE raced \ {<<k, n>>}
  /\ UNCHANGED <<backups, files, listed, job, clock, session, undone, shared>>

Scopes == {Clients} \cup {{k} : k \in Clients}

\* Each command takes its stamp when it starts, in the second of the last one or
\* in a later one.
Tick ==
  /\ runs < MaxRuns
  /\ runs' = runs + 1
  /\ now' = now + 1 \/ (now > 0 /\ now' = now)

Begin(plan) ==
  /\ job = NoJob
  /\ Tick
  /\ job' = plan
  /\ shared' = (shared \/ now' = now)
  /\ UNCHANGED <<conf, backups, files, listed, session, edits, mine, raced>>

RunSetup(S)  == Merged(S) # {} /\ Begin(SetupPlan(S, now')) /\ UNCHANGED undone
RunUpdate(S) == Remaining(S) # {} /\ Begin(UpdatePlan(S, now')) /\ UNCHANGED undone
RunUninstall == Begin(UninstallPlan(now')) /\ undone' = TRUE

\* newWatchSnapshot.
Seen == <<conf, files, listed>>

\* Watch fixes its stamp when it starts, and every update it runs uses that one.
StartWatch(S) ==
  /\ session = NoJob
  /\ Tick
  /\ session' = [stamp |-> now', scope |-> S, seen |-> Seen]
  /\ shared' = TRUE
  /\ UNCHANGED <<conf, backups, files, listed, job, edits, mine, raced, undone>>

\* The debounce timer fires: what changed is remembered, whether or not the
\* update it calls for can start.  Its questions are all answered with yes.
WatchUpdate ==
  /\ session # NoJob /\ job = NoJob
  /\ session.seen # Seen
  /\ session' = [session EXCEPT !.seen = Seen]
  /\ job' = IF Remaining(session.scope) = {} THEN NoJob
            ELSE [UpdatePlan(session.scope, session.stamp) EXCEPT !.yes = TRUE]
  /\ UNCHANGED <<conf, backups, files, listed, clock, edits, history>>

StopWatch ==
  /\ session # NoJob /\ job = NoJob
  /\ session' = NoJob
  /\ UNCHANGED <<conf, backups, files, listed, job, clock, edits, history>>

-----------------------------------------------------------------------------
(* Carrying a plan out.                                                    *)

At(stage) == job # NoJob /\ Head(job.stages) = stage

WriteFile(w) ==
  /\ files' = [files EXCEPT ![w[1]] = w[2]]
  /\ job' = [job EXCEPT !.writes = @ \ {w}, !.asked = TRUE]
  /\ UNCHANGED <<conf, backups, listed, clock, session, edits, history>>

RemoveFile(n) ==
  /\ job.writes = {}
  /\ files' = [files EXCEPT ![n] = Absent]
  /\ job' = [job EXCEPT !.drops = @ \ {n}, !.asked = TRUE]
  /\ UNCHANGED <<conf, backups, listed, clock, session, edits, history>>

\* Wrong on purpose: the backup is made of what is about to be written.
BackupAfter(k) == [backups EXCEPT ![k] = [s \in DOMAIN @ \cup {job.stamp} |->
                                            IF s = job.stamp THEN job.updates[k] ELSE @[s]]]
\* The backup has what WriteServers reads; one of the same name is overwritten.
Backup(k) == [backups EXCEPT ![k] = [s \in DOMAIN @ \cup {job.stamp} |->
                                       IF s = job.stamp THEN conf[k] ELSE @[s]]]

\* WriteServers first copies the config; an uninstall makes no copy.
CopyClient(k) ==
  /\ job.op # "uninstall" /\ job.copied = {}
  /\ backups' = Backup(k)
  /\ job' = [job EXCEPT !.copied = {k}, !.asked = TRUE]
  /\ UNCHANGED <<conf, files, listed, clock, session, edits, history>>

\* Then it overwrites the config with what was planned, whatever is there by now.
RewriteClient(k) ==
  /\ job.op = "uninstall" \/ job.copied = {k}
  /\ conf' = [conf EXCEPT ![k] = job.updates[k]]
  /\ job' = [job EXCEPT !.updates = Restrict(@, DOMAIN @ \ {k}), !.copied = {}, !.asked = TRUE]
  /\ UNCHANGED <<backups, files, listed, clock, session, edits, history>>

\* The next stage, or the end.  The first question of an update covers two.
After(stages, whole) ==
  IF Len(stages) = 1 THEN NoJob
  ELSE [job EXCEPT !.stages = Tail(stages), !.whole = whole,
                   !.asked = @ /\ job.op = "update" /\ stages[2] = "clients"]

StageDone ==
  \/ At("files") /\ job.writes = {} /\ job.drops = {}
  \/ At("clients") /\ DOMAIN job.updates = {}

Advance ==
  /\ StageDone
  /\ job' = After(job.stages, job.whole)
  /\ UNCHANGED <<conf, backups, files, listed, clock, session, edits, history>>

WriteListing ==
  /\ At("daemon")
  /\ listed' = job.list
  /\ job' = After(job.stages, job.whole)
  /\ UNCHANGED <<conf, backups, files, clock, session, edits, history>>

\* The user declines a stage.  Declining the first of an update skips two.
Refuse ==
  /\ job # NoJob /\ ~job.yes /\ ~job.asked /\ ~StageDone
  /\ job' = IF job.op = "update" /\ At("files")
            THEN After(Tail(job.stages), FALSE) ELSE After(job.stages, FALSE)
  /\ UNCHANGED <<conf, backups, files, listed, clock, session, edits, history>>

\* A step fails, or the process is killed.
Abort ==
  /\ job # NoJob
  /\ job' = NoJob
  /\ UNCHANGED <<conf, backups, files, listed, clock, session, edits, history>>

Next ==
  \/ \E k \in Clients, n \in Names, e \in Written : Edit(k, n, e)
  \/ \E S \in Scopes : RunSetup(S) \/ RunUpdate(S) \/ StartWatch(S)
  \/ RunUninstall
  \/ WatchUpdate \/ StopWatch
  \/ At("files") /\ \E w \in job.writes : WriteFile(w)
  \/ At("files") /\ \E n \in job.drops : RemoveFile(n)
  \/ At("clients") /\ \E k \in DOMAIN job.updates : CopyClient(k) \/ RewriteClient(k)
  \/ Advance \/ WriteListing \/ Refuse \/ Abort

Spec == Init /\ [][Next]_vars

-----------------------------------------------------------------------------
Job ==
  [op: {"setup", "update", "uninstall"}, scope: Scopes, stamp: Stamps,
   stages: Seq({"files", "daemon", "clients"}), asked: BOOLEAN, yes: BOOLEAN,
   copied: SUBSET Clients, whole: BOOLEAN, loaded: BOOLEAN, skipped: SUBSET Names, wrapped: SUBSET Names,
   writes: SUBSET (Names \X Versions), drops: SUBSET Names,
   list: SUBSET Names, updates: UNION {[K -> Config] : K \in SUBSET Clients}]

\* The state is well typed.
TypeOK ==
  /\ conf \in [Clients -> Config]
  /\ \A k \in Clients : DOMAIN backups[k] \subseteq Stamps
                         /\ \A s \in DOMAIN backups[k] : backups[k][s] \in Config
  /\ files \in [Names -> Versions \cup {Absent}]
  /\ listed \subseteq Names
  /\ job # NoJob => job \in Job
  /\ runs \in 0..MaxRuns /\ now \in 0..runs /\ edits \in 0..MaxEdits
  /\ session # NoJob => session.stamp \in Stamps /\ session.scope \in Scopes
  /\ mine \in [Clients -> [Names -> Written]]
  /\ raced \subseteq Clients \X Names
  /\ undone \in BOOLEAN /\ shared \in BOOLEAN

\* A client's entry that reaches a wrapper keeps reaching it, whatever runs,
\* fails or is declined, but for an uninstall, for an update that looks at part
\* of the clients (--config), and for a name that setup was told by some client
\* to leave direct (NewPlan, NewUpdatePlan).
NoRefBroken ==
  [][\A k \in Clients, n \in Names :
       conf[k][n] = Ref /\ Resolves(n) /\ conf'[k][n] = Ref /\ ~Resolves(n)' =>
         \/ job.op = "uninstall"
         \/ job.op = "update" /\ job.scope # Clients
         \/ job.op = "setup" /\ n \in job.skipped]_vars

\* A run ends with its last stage carried out.
Finishes ==
  /\ job # NoJob /\ job' = NoJob /\ Len(job.stages) = 1
  /\ At("daemon") => listed' = job.list
  /\ At("clients") => DOMAIN job.updates = {}
  /\ At("files") => job.drops = {}

\* The daemon does not start on a list that names a missing wrapper config.  A
\* run of which nothing was declined leaves a list it starts on: an update
\* always, setup when there was none or a good one before (Apply, Update).
CompletedRunLoads ==
  [][Finishes /\ job.whole /\ (job.op = "update" \/ (job.op = "setup" /\ job.loaded))
       => Loads(listed)']_vars

\* A setup of which nothing was declined turns a definition it wraps into a
\* reference only when the wrapper is on disk and listed (Apply's three steps).
RewrittenEntryResolves ==
  [][\A k \in Clients, n \in Names :
       conf[k][n] # Ref /\ conf'[k][n] = Ref
       /\ job.op = "setup" /\ job.whole /\ n \in job.wrapped => Resolves(n)]_vars

\* However earlier runs ended, an update of all clients that writes the daemon's
\* list leaves no entry whose wrapper is on disk but not listed, even if the user
\* declined the wrapper configs and the clients (Update).
UpdateRepairs ==
  [][Finishes /\ job.op = "update" /\ job.scope = Clients =>
       \A k \in Clients, n \in Names :
         conf'[k][n] = Ref /\ HasFile(n)' => n \in listed']_vars

\* What the user wrote for a server is in the client's config or in one of its
\* backups, even if it was written after the run that overwrites it had made its
\* plan.  Not so what is written between that run's copy of the config and its write
\* (raced); once an uninstall has run, which makes no copy (undone); and once two
\* operations have had one backup name, whose resolution is a second and which
\* setup watch uses throughout (shared).  (WriteServers, backupPath, Watch.)
SetupKeepsDefinitions ==
  ~undone /\ ~shared =>
    \A k \in Clients, n \in Names :
      mine[k][n] \in Versions /\ <<k, n>> \notin raced =>
        \/ conf[k][n] = mine[k][n]
        \/ \E s \in DOMAIN backups[k] : backups[k][s][n] = mine[k][n]

\* However earlier runs ended, an uninstall of which nothing was declined removes
\* every wrapper config, listed or not, and leaves a reference only where the
\* latest backup of that client has it, even if the user edits meanwhile
\* (NewUninstallPlan, Uninstall).
UninstallRemovesWrappers ==
  [][Finishes /\ job.op = "uninstall" /\ job.whole =>
       /\ \A n \in Names : ~HasFile(n)'
       /\ \A k \in Clients, n \in Names : conf'[k][n] = Ref =>
            DOMAIN backups[k] # {} /\ backups[k][Max(DOMAIN backups[k])][n] = Ref]_vars

\* README: setup and setup uninstall are reversible.  An uninstall of which
\* nothing was declined leaves no reference to the wrapper (Uninstall).
UninstallLeavesNoRefs ==
  [][Finishes /\ job.op = "uninstall" /\ job.whole =>
       \A k \in Clients, n \in Names : conf'[k][n] # Ref]_vars
=============================================================================
