------------------------------ MODULE Service ------------------------------
(***************************************************************************)
(* The daemon as a service: the socket path that every process finds it    *)
(* by, the service manager and setup that start and stop it, and the       *)
(* client processes that sit between an AI client and a connection         *)
(* (internal/daemon/daemon.go Serve and handleConn, internal/daemon/       *)
(* client.go, internal/setup/agent.go).                                    *)
(*                                                                         *)
(* The path is a name that anybody may remove or take: a starting daemon   *)
(* removes what it finds there, a leaving one removes it twice, setup      *)
(* removes it too, and none of them looks whose socket it is.              *)
(*                                                                         *)
(* External: systemd, launchd and the Windows service manager.  systemctl  *)
(* stop and launchctl bootout return when the instance has ended, or fail; *)
(* launchctl remove does not wait; kickstart -k ends the instance and      *)
(* starts another; Windows registers no service under a name whose old     *)
(* instance has not ended, or that is still registered.  Left out: the     *)
(* requests themselves (module Proxy), reload (module Daemon), the         *)
(* directories, errors of file operations, at which setup stops.           *)
(***************************************************************************)
EXTENDS Integers, FiniteSets

CONSTANTS
    Platforms,    \* a subset of {"linux", "darwin", "windows"}
    Clients,      \* `lazy-mcp-wrapper client' processes
    MaxDaemons,   \* bound on daemon processes at one time
    MaxRequests,  \* bound on requests one client sends
    MaxEvents     \* bound on commands of users, signals and failures

ASSUME ServiceAssumption ==
    /\ Platforms \subseteq {"linux", "darwin", "windows"}
    /\ MaxDaemons \in Nat \ {0}
    /\ MaxRequests \in Nat /\ MaxEvents \in Nat

Daemons == 1 .. MaxDaemons

VARIABLES
    platform,   \* currentGOOS
    phase,      \* daemon -> where its Serve is
    cancelled,  \* daemons whose Serve context is cancelled
    told,       \* daemons that answered a stop request
    sock,       \* the daemon whose socket is at the path, 0 when nothing is
    main,       \* the service manager's instance, 0 before the first
    wanted,     \* the manager was told to run the service
    unit,       \* the plist, the unit file or the registered service exists
    setup,      \* where setup or uninstall is
    left,       \* the stop commands of this run failed (of an install, until it cleans up)
    events,     \* how many commands, signals and failures there were
    quiet,      \* history: nothing but setup and the manager intervened since
                \* setup began
    conn        \* client -> its process, its connection and the handler

daemonVars == <<phase, cancelled, sock>>
serviceVars == <<platform, main, wanted, unit, setup, left>>
userVars == <<told, events, quiet>>
vars == <<daemonVars, serviceVars, userVars, conn>>

Alive(d) == phase[d] \notin {"exited", "failed"}

\* The place of a process that ended is free for another.
Free == {d \in Daemons : ~Alive(d)}

\* A dial of the path succeeds: the listener there still accepts.
Connectable == sock # 0 /\ phase[sock] = "serving"

Connection ==
    [at : {"idle", "binding", "copying", "done", "failed"}, to : 0 .. MaxDaemons,
     handler : {"none", "reading", "running", "lost", "broken", "ended"},
     asked : 0 .. MaxRequests, took : 0 .. MaxRequests,
     answered : 0 .. MaxRequests, printed : 0 .. MaxRequests,
     in : BOOLEAN, out : BOOLEAN]

TypeOK ==
    /\ platform \in Platforms
    /\ phase \in [Daemons -> {"removing", "binding", "serving", "unlinked",
                              "failing", "closing", "exited", "failed"}]
    /\ cancelled \subseteq Daemons /\ told \subseteq Daemons
    /\ sock \in 0 .. MaxDaemons /\ main \in 0 .. MaxDaemons
    /\ wanted \in BOOLEAN /\ unit \in BOOLEAN /\ quiet \in BOOLEAN /\ left \in BOOLEAN
    /\ events \in 0 .. MaxEvents
    /\ setup \in [job : {"install", "uninstall"},
                  at : {"idle", "check", "reload", "stop", "stopping", "clean",
                        "write", "start", "kick", "kicking", "poll", "ok", "failed"}]
    /\ conn \in [Clients -> Connection]

Init ==
    /\ platform \in Platforms
    /\ phase = [d \in Daemons |-> "exited"]
    /\ cancelled = {} /\ told = {}
    /\ sock = 0 /\ main = 0
    /\ wanted = FALSE /\ unit = FALSE /\ quiet = FALSE /\ events = 0
    /\ setup = [job |-> "install", at |-> "idle"] /\ left = FALSE
    /\ conn = [c \in Clients |->
                  [at |-> "idle", to |-> 0, handler |-> "none", asked |-> 0, took |-> 0,
                   answered |-> 0, printed |-> 0, in |-> FALSE, out |-> FALSE]]

-----------------------------------------------------------------------------
(* Serve, step by step.                                                    *)

\* A command, a signal or a failure, bounded by MaxEvents.
Event == events < MaxEvents /\ events' = events + 1

To(d, p) == phase' = [phase EXCEPT ![d] = p]

\* A process begins.
Launched(d) == d \in Free /\ To(d, "removing")

\* It ends, and its connections with it: before the bind line was answered they
\* are lost, after it broken off.
Ends(d, p) ==
    /\ To(d, p)
    /\ cancelled' = cancelled \ {d}
    /\ told' = told \ {d}
    /\ conn' = [c \in Clients |->
          IF conn[c].to # d THEN conn[c]
          ELSE IF conn[c].handler = "running" THEN [conn[c] EXCEPT !.handler = "broken"]
          ELSE IF conn[c].handler \in {"none", "reading"} THEN [conn[c] EXCEPT !.handler = "lost"]
          ELSE conn[c]]

\* runDaemon before Serve: a configuration that does not load, or a signal that
\* comes before NotifyContext, ends the process.
NeverServes(d) ==
    /\ phase[d] = "removing"
    /\ \/ Ends(d, "failed")
       \/ d \in cancelled /\ Ends(d, "exited")
    /\ UNCHANGED <<sock, serviceVars, events, quiet>>

\* os.Remove(socketPath): whatever is at the path goes.
RemoveStale(d) ==
    /\ phase[d] = "removing"
    /\ sock' = 0
    /\ To(d, "binding")
    /\ UNCHANGED <<cancelled, serviceVars, userVars, conn>>

\* net.Listen: an address in use ends the process with an error.
Listen(d) ==
    /\ phase[d] = "binding"
    /\ IF sock = 0
       THEN /\ sock' = d
            /\ To(d, "serving")
            /\ UNCHANGED <<cancelled, told, conn>>
       ELSE Ends(d, "failed") /\ UNCHANGED sock
    /\ UNCHANGED <<serviceVars, events, quiet>>

\* Wrong on purpose: waits for the clients to leave first.
CloseListenerIdle(d) ==
    /\ phase[d] = "serving" /\ d \in cancelled
    /\ \A c \in Clients : conn[c].to = d => conn[c].handler # "running"
    /\ sock' = 0
    /\ To(d, "unlinked")
    /\ UNCHANGED <<cancelled, serviceVars, userVars, conn>>

\* The goroutine that waits for the context closes the listener, and Close
\* removes the path before the descriptor.
CloseListener(d) ==
    /\ phase[d] = "serving" /\ d \in cancelled
    /\ sock' = 0
    /\ To(d, "unlinked")
    /\ UNCHANGED <<cancelled, serviceVars, userVars, conn>>

\* Accept failed.  With a cancelled context Serve returns nil: its deferred
\* os.Remove takes the path once more.
RemoveAgain(d) ==
    /\ phase[d] = "unlinked"
    /\ sock' = 0
    /\ To(d, "closing")
    /\ UNCHANGED <<cancelled, serviceVars, userVars, conn>>

\* Accept failed with a live context: the same deferred calls, and an error.
AcceptFails(d) ==
    /\ phase[d] = "serving" /\ d \notin cancelled
    /\ Event
    /\ sock' = 0
    /\ To(d, "failing")
    /\ quiet' = FALSE
    /\ UNCHANGED <<cancelled, serviceVars, told, conn>>

\* closeResources, and the process ends with all its connections.
Exit(d) ==
    /\ \/ phase[d] = "closing" /\ Ends(d, "exited")
       \/ phase[d] = "failing" /\ Ends(d, "failed")
    /\ UNCHANGED <<sock, serviceVars, events, quiet>>

\* A crash or SIGKILL leaves the socket file behind.
Crash(d) ==
    /\ Alive(d)
    /\ Event
    /\ Ends(d, "failed")
    /\ quiet' = FALSE
    /\ UNCHANGED <<sock, serviceVars>>

-----------------------------------------------------------------------------
(* The user: a daemon started by hand, signals, and the stop command.      *)

StartByHand(d) ==
    /\ Launched(d) /\ d # main
    /\ Event
    /\ quiet' = FALSE
    /\ UNCHANGED <<sock, cancelled, serviceVars, told, conn>>

\* SIGTERM or SIGINT to a daemon, or a stop control to the Windows service.
Signal(d) ==
    /\ Alive(d) /\ d \notin cancelled
    /\ Event
    /\ cancelled' = cancelled \union {d}
    /\ quiet' = FALSE
    /\ UNCHANGED <<phase, sock, serviceVars, told, conn>>

\* SendControl(stop) dials the path; the handler answers before it stops
\* anything, and the command returns.
StopCommand ==
    /\ Connectable /\ sock \notin told
    /\ Event
    /\ told' = told \union {sock}
    /\ quiet' = FALSE
    /\ UNCHANGED <<daemonVars, serviceVars, conn>>

\* s.stop cancels the context in a goroutine of its own.
Cancel(d) ==
    /\ d \in told \ cancelled /\ Alive(d)
    /\ cancelled' = cancelled \union {d}
    /\ UNCHANGED <<phase, sock, serviceVars, userVars, conn>>

-----------------------------------------------------------------------------
(* The service manager, as far as setup and the unit files use it.         *)

MainAlive == main # 0 /\ Alive(main)

\* Start an instance unless one runs.
StartMain ==
    IF MainAlive THEN UNCHANGED <<phase, main>>
    ELSE \E d \in Free : Launched(d) /\ main' = d

\* systemd: Restart=on-failure.  The plist says KeepAlive false.
RestartMain ==
    /\ platform = "linux" /\ wanted
    /\ main # 0 /\ phase[main] = "failed"
    /\ StartMain
    /\ UNCHANGED <<cancelled, sock, platform, left, wanted, unit, setup, userVars, conn>>

-----------------------------------------------------------------------------
(* installLaunchAgent and uninstallLaunchAgent, called by setup and by     *)
(* uninstall.                                                              *)

Step(p) == setup' = [setup EXCEPT !.at = p]
Darwin == platform = "darwin"
Windows == platform = "windows"

\* Nothing is on its way out or in.  On Windows, where setup leaves the path
\* alone, a daemon started by hand would also answer setup's poll until the
\* service's own takes the path.
Settled ==
    /\ told = {} /\ cancelled = {}
    /\ \A d \in Daemons : Alive(d) => phase[d] = "serving" /\ (Windows => d = main)

Begin(job) ==
    /\ setup.at \in {"idle", "ok", "failed"}
    /\ Event
    /\ setup' = [job |-> job,
                 at |-> IF job = "install" /\ Darwin THEN "check" ELSE "stop"]
    /\ quiet' = Settled
    /\ left' = FALSE
    /\ UNCHANGED <<daemonVars, platform, main, wanted, unit, told, conn>>

\* daemonConnectable: on macOS a daemon that answers is reloaded, not replaced.
Check ==
    /\ setup.at = "check"
    /\ IF Connectable THEN unit' = TRUE /\ Step("reload")
                      ELSE UNCHANGED unit /\ Step("stop")
    /\ UNCHANGED <<daemonVars, platform, left, main, wanted, userVars, conn>>

\* SendControl(reload): an error when nobody answers or the reload is refused.
Reload ==
    /\ setup.at = "reload"
    /\ \/ Connectable /\ Step("ok")
       \/ Step("failed")
    /\ UNCHANGED <<daemonVars, platform, left, main, wanted, unit, userVars, conn>>

\* systemctl stop and disable; launchctl bootout and remove; a stop control.
Stop ==
    /\ setup.at = "stop"
    /\ wanted' = FALSE
    /\ cancelled' = IF MainAlive THEN cancelled \union {main} ELSE cancelled
    /\ Step("stopping")
    /\ UNCHANGED <<phase, sock, platform, left, main, unit, userVars, conn>>

\* They fail: their errors are dropped, and so is that of OpenService, and the run
\* goes on while the instance lives.  On macOS remove may still have told it to end.
StopFails ==
    /\ setup.at = "stop"
    /\ Event
    /\ left' = TRUE
    /\ \/ UNCHANGED cancelled
       \/ Darwin /\ MainAlive /\ cancelled' = cancelled \union {main}
    /\ Step("clean")
    /\ UNCHANGED <<phase, sock, platform, main, wanted, unit, told, quiet, conn>>

\* Wrong on purpose: goes on while the instance is leaving.
StoppedUnawaited ==
    /\ setup.at = "stopping"
    /\ Step("clean")
    /\ UNCHANGED <<daemonVars, platform, left, main, wanted, unit, userVars, conn>>

\* The command returns when the instance has ended.  On Windows setup sleeps
\* for half a second and goes on.
Stopped ==
    /\ setup.at = "stopping"
    /\ Windows \/ ~MainAlive
    /\ Step("clean")
    /\ UNCHANGED <<daemonVars, platform, left, main, wanted, unit, userVars, conn>>

\* The socket and the plist or unit file are removed, in one step: nobody reads
\* the file meanwhile.  On Windows the service is deleted, if it could be opened.
Clean ==
    /\ setup.at = "clean"
    /\ sock' = IF Windows THEN sock ELSE 0
    /\ unit' \in IF Windows /\ left THEN {unit, FALSE} ELSE {FALSE}
    /\ Step(IF setup.job = "install" THEN "write" ELSE "ok")
    /\ left' = (left /\ setup.job = "uninstall")
    /\ UNCHANGED <<phase, cancelled, platform, main, wanted, userVars, conn>>

WriteUnit ==
    /\ setup.at = "write"
    /\ IF Windows /\ (MainAlive \/ unit) THEN Step("failed") /\ UNCHANGED unit
                                         ELSE Step("start") /\ unit' = TRUE
    /\ UNCHANGED <<daemonVars, platform, left, main, wanted, userVars, conn>>

\* systemctl enable and start; launchctl bootstrap, which starts the service
\* because of RunAtLoad, then enable and kickstart -k.
Start ==
    /\ setup.at = "start"
    /\ \/ StartMain /\ wanted' = TRUE /\ Step(IF Darwin THEN "kick" ELSE "poll")
       \/ Step("failed") /\ UNCHANGED <<phase, main, wanted>>
    /\ UNCHANGED <<cancelled, sock, platform, left, unit, userVars, conn>>

Kick ==
    /\ setup.at = "kick"
    /\ \/ /\ cancelled' = IF MainAlive THEN cancelled \union {main} ELSE cancelled
          /\ Step("kicking")
       \/ Step("failed") /\ UNCHANGED cancelled
    /\ UNCHANGED <<phase, sock, platform, left, main, wanted, unit, userVars, conn>>

Kicked ==
    /\ setup.at = "kicking" /\ ~MainAlive
    /\ StartMain
    /\ Step("poll")
    /\ UNCHANGED <<cancelled, sock, platform, left, wanted, unit, userVars, conn>>

\* Wrong on purpose: the last attempt's error is dropped.
PollUnanswered ==
    /\ setup.at = "poll"
    /\ Step("ok")
    /\ UNCHANGED <<daemonVars, platform, left, main, wanted, unit, userVars, conn>>

\* pollSocket: a connection is success, and the attempts may run out.
Poll ==
    /\ setup.at = "poll"
    /\ \/ Connectable /\ Step("ok")
       \/ Step("failed")
    /\ UNCHANGED <<daemonVars, platform, left, main, wanted, unit, userVars, conn>>

-----------------------------------------------------------------------------
(* RunClient and handleConn.  The stream is counted in requests: asked is  *)
(* what the client wrote, took what the handler read, answered what it     *)
(* wrote, printed what reached the client's stdout.                        *)

Set(c, new) == conn' = [conn EXCEPT ![c] = new]
Only == UNCHANGED <<daemonVars, serviceVars, userVars>>

Gone(c) == conn[c].at \in {"done", "failed"}
Running(c) == conn[c].handler = "running"

\* The daemon's side of the connection is closed.
Hung(c) == conn[c].handler \in {"lost", "broken", "ended"}

\* Its bind line was answered with ok.
Bound(c) == conn[c].handler \in {"running", "broken", "ended"}

\* The process is gone, and its two copies with it.
Failed(c) == [conn[c] EXCEPT !.at = "failed", !.in = FALSE, !.out = FALSE, !.printed = 0]

Dial(c) ==
    /\ conn[c].at = "idle"
    /\ Set(c, IF Connectable THEN [conn[c] EXCEPT !.at = "binding", !.to = sock]
                             ELSE Failed(c))
    /\ Only

Accept(c) ==
    /\ conn[c].handler = "none" /\ conn[c].to # 0
    /\ phase[conn[c].to] = "serving"
    /\ Set(c, [conn[c] EXCEPT !.handler = "reading"])
    /\ Only

\* The bind line is read: the name is known, or an error is written.
Bind(c) ==
    /\ conn[c].handler = "reading"
    /\ \E h \in {"running", "lost"} : Set(c, [conn[c] EXCEPT !.handler = h])
    /\ Only

\* The client reads ok, or an error, or the end of a connection that the daemon
\* closed or never accepted.
BindAnswered(c) ==
    /\ conn[c].at = "binding"
    /\ \/ Bound(c) /\ Set(c, [conn[c] EXCEPT !.at = "copying"])
       \/ /\ ~Bound(c)
          /\ \/ Hung(c)
             \/ conn[c].handler = "none" /\ phase[conn[c].to] # "serving"
          /\ Set(c, Failed(c))
    /\ Only

\* The first copy: stdin to the connection.  A write nobody can read fails.
Ask(c) ==
    /\ conn[c].at = "copying" /\ ~conn[c].in /\ conn[c].asked < MaxRequests
    /\ Set(c, IF Hung(c) THEN Failed(c)
                         ELSE [conn[c] EXCEPT !.asked = @ + 1])
    /\ Only

\* Stdin ends: closeWrite, and the first copy is done.
StdinEnds(c) ==
    /\ conn[c].at = "copying" /\ ~conn[c].in
    /\ Set(c, [conn[c] EXCEPT !.in = TRUE])
    /\ Only

\* Wrong on purpose: does not wait for a message.
TakeNothing(c) ==
    /\ Running(c) /\ conn[c].took = conn[c].answered
    /\ Set(c, [conn[c] EXCEPT !.took = @ + 1])
    /\ Only

\* Proxy.Run reads one message at a time and answers it before the next; one
\* that does not parse is answered too and ends the session.
Take(c) ==
    /\ Running(c) /\ conn[c].took = conn[c].answered /\ conn[c].took < conn[c].asked
    /\ \/ Set(c, [conn[c] EXCEPT !.took = @ + 1])
       \/ Set(c, [conn[c] EXCEPT !.took = @ + 1, !.answered = @ + 1,
                                 !.handler = "broken"])
    /\ Only

\* A write to a client that is gone fails and ends the session.
Answer(c) ==
    /\ Running(c) /\ conn[c].answered < conn[c].took
    /\ Set(c, IF Gone(c) THEN [conn[c] EXCEPT !.handler = "broken"]
                         ELSE [conn[c] EXCEPT !.answered = @ + 1])
    /\ Only

\* Wrong on purpose: only a connection closed in both directions is noticed.
RunReturnsGone(c) ==
    /\ Running(c) /\ conn[c].answered = conn[c].asked /\ Gone(c)
    /\ Set(c, [conn[c] EXCEPT !.handler = "ended"])
    /\ Only

\* The end of the stream, after everything that was sent: Run returns, the
\* client is unregistered and the connection closed.
RunReturns(c) ==
    /\ Running(c) /\ conn[c].answered = conn[c].asked
    /\ conn[c].in \/ Gone(c)
    /\ Set(c, [conn[c] EXCEPT !.handler = "ended"])
    /\ Only

\* The second copy: the connection to stdout.
CopyOut(c) ==
    /\ conn[c].at = "copying" /\ conn[c].printed < conn[c].answered
    /\ Set(c, [conn[c] EXCEPT !.printed = @ + 1])
    /\ Only

\* It ends with the stream, or with an error when the daemon's side closed with
\* something unread.
OutEnds(c) ==
    /\ conn[c].at = "copying" /\ ~conn[c].out
    /\ conn[c].printed = conn[c].answered /\ Hung(c)
    /\ \/ Set(c, [conn[c] EXCEPT !.out = TRUE])
       \/ conn[c].took < conn[c].asked /\ Set(c, Failed(c))
    /\ Only

\* Wrong on purpose: waits for one of them.
ReturnAfterOne(c) ==
    /\ conn[c].at = "copying"
    /\ conn[c].in \/ conn[c].out
    /\ Set(c, [conn[c] EXCEPT !.at = "done"])
    /\ Only

\* RunClient waits for both copies.
Return(c) ==
    /\ conn[c].at = "copying" /\ conn[c].in /\ conn[c].out
    /\ Set(c, [conn[c] EXCEPT !.at = "done"])
    /\ Only

\* The AI client kills the process.
Killed(c) ==
    /\ conn[c].at \in {"binding", "copying"}
    /\ Set(c, Failed(c))
    /\ Only

-----------------------------------------------------------------------------

DaemonStep(d) ==
    \/ RemoveStale(d) \/ Listen(d) \/ CloseListener(d) \/ RemoveAgain(d) \/ Exit(d)
    \/ Cancel(d)

SetupStep ==
    \/ Check \/ Reload \/ Stop \/ StopFails \/ Stopped \/ Clean \/ WriteUnit \/ Start \/ Kick
    \/ Kicked \/ Poll

ClientStep(c) == BindAnswered(c) \/ CopyOut(c) \/ OutEnds(c) \/ Return(c)
HandlerStep(c) == Accept(c) \/ Bind(c) \/ Take(c) \/ Answer(c) \/ RunReturns(c)

Next ==
    \/ \E d \in Daemons :
          \/ DaemonStep(d)
          \/ NeverServes(d) \/ AcceptFails(d) \/ Crash(d) \/ StartByHand(d) \/ Signal(d)
    \/ StopCommand
    \/ RestartMain
    \/ \E job \in {"install", "uninstall"} : Begin(job)
    \/ SetupStep
    \/ \E c \in Clients :
          \/ ClientStep(c) \/ HandlerStep(c)
          \/ Dial(c) \/ Ask(c) \/ StdinEnds(c) \/ Killed(c)

Spec == Init /\ [][Next]_vars

\* Goroutines and commands that can go on do, and handlers answer within the
\* call timeout (module Proxy).  Users are free to do nothing.
FairSpec ==
    /\ Spec
    /\ \A d \in Daemons : WF_vars(DaemonStep(d))
    /\ \A c \in Clients : WF_vars(ClientStep(c)) /\ WF_vars(HandlerStep(c))
    /\ WF_vars(SetupStep)

-----------------------------------------------------------------------------
(* Properties.                                                             *)

\* Setup that reported success leaves a daemon that clients can reach, as long
\* as since its beginning nobody stopped or started a daemon, none failed, and
\* none was leaving then: the manager's old instance is over, with both its
\* removals of the path, before the new one binds it (agent.go:84, 159).
InstallLeavesDaemon ==
    setup = [job |-> "install", at |-> "ok"] /\ quiet =>
        Connectable /\ sock \notin cancelled

\* Under the same conditions uninstall leaves no unit file and, if the manager's
\* commands did not fail, no service that answers at the path; on Windows the
\* instance may still be leaving.  Where they failed it reports success all the same,
\* and the daemon may live on; on Windows even the service may be left
\* (agent.go:144, 191, agent_windows.go:75).
UninstallLeavesNothing ==
    setup = [job |-> "uninstall", at |-> "ok"] /\ quiet =>
        /\ unit => Windows /\ left
        /\ ~left => IF Windows THEN MainAlive => main \in cancelled
                              ELSE ~MainAlive /\ ~Connectable

\* A client process that ended without an error has printed an answer to every
\* request it read from its stdin, if its connection ended because stdin did and
\* not because the daemon or the session broke off (client.go:46, closeWrite).
DoneIsComplete ==
    \A c \in Clients : conn[c].at = "done" /\ conn[c].handler # "broken" =>
        conn[c].printed = conn[c].asked

\* After its stdin ends a client process ends, whatever becomes of the daemon,
\* and when it has ended the daemon lets go of the session (client.go:61,
\* daemon.go:559).
SessionEnds ==
    \A c \in Clients :
        /\ conn[c].in ~> Gone(c)
        /\ Gone(c) ~> ~Running(c)

\* A daemon that answered a stop request ends, even while clients stay
\* connected (daemon.go:541, 722).
StopIsObeyed == \A d \in Daemons : d \in told ~> ~Alive(d)

\* README.md:290 says of stop: "If LaunchAgent management is enabled, launchd
\* will start it again from the installed config."
StopIsRestarted ==
    \A d \in Daemons :
        d \in told /\ d = main /\ unit ~>
            ~unit \/ \E e \in Daemons : phase[e] = "removing"

=============================================================================
