---------------------------- MODULE ServiceProofs ----------------------------
(***************************************************************************)
(* Proofs about Service, for any number of clients, daemon processes,      *)
(* requests and events, on all platforms.                                  *)
(***************************************************************************)
EXTENDS Service, TLAPS

-----------------------------------------------------------------------------
(* The inductive invariant.                                                *)

\* A client copies once its bind line was answered with ok; the daemon ends a
\* session itself only when everything was answered; the client's second copy has
\* ended when the daemon's side is closed and everything printed.
Stream(c) ==
  /\ conn[c].at \in {"copying", "done"} => Bound(c)
  /\ conn[c].handler = "ended" => conn[c].answered = conn[c].asked
  /\ conn[c].out => Hung(c) /\ conn[c].printed = conn[c].answered
  /\ conn[c].at = "done" => conn[c].out
Streams == \A c \in Clients : Stream(c)

CancelledAlive == \A d \in cancelled : Alive(d)

\* What setup has reached decides what it does.
Installing == {"check", "reload", "write", "start", "kick", "kicking", "poll"}
Down == setup.at \in {"stopping", "clean"} \/ setup = [job |-> "uninstall", at |-> "ok"]
Jobs ==
  /\ setup.at \in Installing => setup.job = "install"
  /\ setup.at \in {"check", "reload"} => Darwin
  /\ setup.at \in {"check", "stop", "stopping"} => ~left
  /\ Down /\ ~left => ~wanted
  /\ setup = [job |-> "uninstall", at |-> "ok"] /\ unit => Windows /\ left

AllServing == \A d \in Daemons : Alive(d) => phase[d] = "serving"

\* While nobody interferes only the service's own instance moves, and setup knows
\* at each step what is at the path and, unless the stop failed, whether it is over.
Calm ==
  /\ told = {} /\ cancelled \subseteq {main}
  /\ \A d \in Daemons \ {main} : Alive(d) => phase[d] = "serving" /\ ~Windows
  /\ setup.at \in {"check", "reload"} => AllServing
  /\ setup.at \in {"check", "reload", "stop", "poll"} => cancelled = {}
  /\ (setup.at = "clean" /\ left) \/ setup.at \in {"write", "start"} =>
       (platform = "linux" => cancelled = {})
  /\ setup.at = "clean" /\ ~Windows /\ ~left => ~MainAlive
  /\ setup.at = "start" /\ Windows => ~MainAlive
  /\ setup.at \in {"write", "start", "kick", "kicking", "poll"} /\ ~Windows =>
       (sock # 0 => sock = main /\ phase[main] = "serving")
  /\ setup = [job |-> "install", at |-> "ok"] =>
       /\ Connectable /\ cancelled = {} /\ AllServing
       /\ platform = "linux" => MainAlive
  /\ Down /\ Windows /\ ~left => (MainAlive => main \in cancelled)
  /\ setup = [job |-> "uninstall", at |-> "ok"] /\ ~Windows /\ ~left => ~MainAlive /\ sock = 0

IInv ==
  /\ TypeOK
  /\ Streams
  /\ CancelledAlive
  /\ Jobs
  /\ quiet => Calm

LEMMA Bounds == MaxDaemons \in Nat \ {0} /\ MaxRequests \in Nat /\ MaxEvents \in Nat
                /\ Daemons \subseteq 0..MaxDaemons /\ 0 \in 0..MaxDaemons /\ 0 \notin Daemons
                /\ 0 \in 0..MaxRequests /\ 0 \in 0..MaxEvents
BY ServiceAssumption DEF Daemons

LEMMA InitIInv == Init => IInv
<1> SUFFICES ASSUME Init PROVE IInv
  OBVIOUS
<1> USE DEF Init
<1>1. TypeOK
  <2>1. conn \in [Clients -> Connection]
    BY Bounds DEF Connection
  <2>2. phase \in [Daemons -> {"removing", "binding", "serving", "unlinked",
                              "failing", "closing", "exited", "failed"}]
    OBVIOUS
  <2> QED
    BY <2>1, <2>2, Bounds DEF TypeOK
<1>2. Streams
  BY DEF Streams, Stream
<1>3. CancelledAlive /\ Jobs /\ (quiet => Calm)
  BY DEF CancelledAlive, Jobs, Installing, Down
<1> QED
  BY <1>1, <1>2, <1>3 DEF IInv

-----------------------------------------------------------------------------
(* The clients and their connections.                                      *)

\* A client's step changes nothing else.
LEMMA ClientFrame ==
  ASSUME IInv, Only, conn' \in [Clients -> Connection], Streams'
  PROVE  IInv'
<1> USE DEF Only, daemonVars, serviceVars, userVars
<1>1. TypeOK'
  BY DEF IInv, TypeOK
<1>2. CancelledAlive' /\ Jobs' /\ (quiet' => Calm')
  BY DEF IInv, CancelledAlive, Alive, Jobs, Installing, Down, Darwin, Windows, Calm, AllServing,
         MainAlive, Connectable
<1> QED
  BY <1>1, <1>2 DEF IInv

LEMMA SetConn ==
  ASSUME IInv, NEW c \in Clients, NEW new \in Connection, Set(c, new), Only,
         new.at \in {"copying", "done"} => new.handler \in {"running", "broken", "ended"},
         new.handler = "ended" => new.answered = new.asked,
         new.out => new.handler \in {"lost", "broken", "ended"} /\ new.printed = new.answered,
         new.at = "done" => new.out
  PROVE  IInv'
<1>1. /\ conn' \in [Clients -> Connection]
      /\ \A d \in Clients : conn'[d] = IF d = c THEN new ELSE conn[d]
  BY DEF Set, IInv, TypeOK
<1>2. Streams'
  BY <1>1 DEF IInv, Streams, Stream, Bound, Hung
<1> QED
  BY <1>1, <1>2, ClientFrame

\* A client process that has failed has no copies.
LEMMA FailedConn ==
  ASSUME IInv, NEW c \in Clients, Set(c, Failed(c)), Only
  PROVE  IInv'
<1>1. conn[c] \in Connection /\ Stream(c)
  BY DEF IInv, TypeOK, Streams
<1>2. Failed(c) \in Connection
  BY <1>1, Bounds DEF Failed, Connection
<1>3. /\ Failed(c).at = "failed" /\ ~Failed(c).out /\ Failed(c).handler = conn[c].handler
      /\ Failed(c).answered = conn[c].answered /\ Failed(c).asked = conn[c].asked
  BY <1>1 DEF Failed, Connection
<1> QED
  BY <1>1, <1>2, <1>3, SetConn DEF Stream

LEMMA ClientStepIInv ==
  ASSUME IInv, NEW c \in Clients,
         ClientStep(c) \/ HandlerStep(c) \/ Dial(c) \/ Ask(c) \/ StdinEnds(c) \/ Killed(c)
  PROVE  IInv'
<1>1. conn[c] \in Connection /\ Stream(c) /\ MaxRequests \in Nat
  BY Bounds DEF IInv, TypeOK, Streams
<1> USE DEF Connection
<1>2. CASE BindAnswered(c)
  <2>1. CASE Bound(c) /\ Set(c, [conn[c] EXCEPT !.at = "copying"]) /\ Only
    BY <1>1, <2>1, SetConn DEF Stream, Bound, Hung
  <2> QED
    BY <1>2, <2>1, FailedConn DEF BindAnswered
<1>3. CASE CopyOut(c)
  <2>1. [conn[c] EXCEPT !.printed = @ + 1] \in Connection /\ ~conn[c].out
    BY <1>1, <1>3 DEF CopyOut, Stream
  <2> QED
    BY <1>1, <1>3, <2>1, SetConn DEF CopyOut, Stream, Bound, Hung
<1>4. CASE OutEnds(c)
  <2>1. CASE Set(c, [conn[c] EXCEPT !.out = TRUE]) /\ Only
    BY <1>1, <1>4, <2>1, SetConn DEF OutEnds, Stream, Bound, Hung
  <2> QED
    BY <1>4, <2>1, FailedConn DEF OutEnds
<1>5. CASE Return(c)
  BY <1>1, <1>5, SetConn DEF Return, Stream, Bound, Hung
<1>6. CASE Accept(c)
  BY <1>1, <1>6, SetConn DEF Accept, Stream, Bound, Hung
<1>7. CASE Bind(c)
  <2>1. PICK h \in {"running", "lost"} : Set(c, [conn[c] EXCEPT !.handler = h])
    BY <1>7 DEF Bind
  <2> QED
    BY <1>1, <1>7, <2>1, SetConn DEF Bind, Stream, Bound, Hung
<1>8. CASE Take(c)
  <2>1. conn[c].took + 1 \in 0..MaxRequests /\ conn[c].answered + 1 \in 0..MaxRequests
    BY <1>1, <1>8 DEF Take
  <2>2. CASE Set(c, [conn[c] EXCEPT !.took = @ + 1])
    BY <1>1, <1>8, <2>1, <2>2, SetConn DEF Take, Running, Stream, Bound, Hung
  <2>3. CASE Set(c, [conn[c] EXCEPT !.took = @ + 1, !.answered = @ + 1, !.handler = "broken"])
    BY <1>1, <1>8, <2>1, <2>3, SetConn DEF Take, Running, Stream, Bound, Hung
  <2> QED
    BY <1>8, <2>2, <2>3 DEF Take
<1>9. CASE Answer(c)
  <2>1. CASE Set(c, [conn[c] EXCEPT !.handler = "broken"])
    BY <1>1, <1>9, <2>1, SetConn DEF Answer, Running, Stream, Bound, Hung
  <2>2. CASE Set(c, [conn[c] EXCEPT !.answered = @ + 1])
    <3>1. conn[c].answered + 1 \in 0..MaxRequests
      BY <1>1, <1>9 DEF Answer
    <3> QED
      BY <1>1, <1>9, <2>2, <3>1, SetConn DEF Answer, Running, Stream, Bound, Hung
  <2> QED
    BY <1>9, <2>1, <2>2 DEF Answer
<1>10. CASE RunReturns(c)
  BY <1>1, <1>10, SetConn DEF RunReturns, Running, Stream, Bound, Hung
<1>11. CASE Dial(c)
  <2>1. CASE Connectable
    <3>1. sock \in 0..MaxDaemons
      BY DEF IInv, TypeOK
    <3> QED
      BY <1>1, <1>11, <2>1, <3>1, SetConn DEF Dial, Stream, Bound, Hung
  <2> QED
    BY <1>11, <2>1, FailedConn DEF Dial
<1>12. CASE Ask(c)
  <2>1. CASE ~Hung(c)
    <3>1. conn[c].asked + 1 \in 0..MaxRequests
      BY <1>1, <1>12 DEF Ask
    <3> QED
      BY <1>1, <1>12, <2>1, <3>1, SetConn DEF Ask, Stream, Bound, Hung
  <2> QED
    BY <1>12, <2>1, FailedConn DEF Ask
<1>13. CASE StdinEnds(c)
  BY <1>1, <1>13, SetConn DEF StdinEnds, Stream, Bound, Hung
<1>14. CASE Killed(c)
  BY <1>14, FailedConn DEF Killed
<1> QED
  BY <1>2, <1>3, <1>4, <1>5, <1>6, <1>7, <1>8, <1>9, <1>10, <1>11, <1>12, <1>13, <1>14
     DEF ClientStep, HandlerStep

-----------------------------------------------------------------------------
(* The daemons.                                                            *)

\* What the end of a process changes.
LEMMA EndsIInv ==
  ASSUME IInv, NEW d \in Daemons, NEW p \in {"exited", "failed"}, Ends(d, p)
  PROVE  /\ phase' \in [Daemons -> {"removing", "binding", "serving", "unlinked",
                                    "failing", "closing", "exited", "failed"}]
         /\ phase'[d] = p /\ \A e \in Daemons \ {d} : phase'[e] = phase[e]
         /\ cancelled' = cancelled \ {d} /\ told' = told \ {d}
         /\ conn' \in [Clients -> Connection]
         /\ Streams'
<1>1. /\ phase' \in [Daemons -> {"removing", "binding", "serving", "unlinked",
                                 "failing", "closing", "exited", "failed"}]
      /\ phase'[d] = p /\ \A e \in Daemons \ {d} : phase'[e] = phase[e]
  BY DEF Ends, To, IInv, TypeOK
<1>2. cancelled' = cancelled \ {d} /\ told' = told \ {d}
  BY DEF Ends
<1>3. ASSUME NEW c \in Clients
      PROVE  conn'[c] \in Connection /\ Stream(c)'
  <2>1. conn[c] \in Connection /\ Stream(c)
    BY DEF IInv, TypeOK, Streams
  <2>2. \/ conn'[c] = conn[c]
        \/ conn[c].handler = "running" /\ conn'[c] = [conn[c] EXCEPT !.handler = "broken"]
        \/ conn[c].handler \in {"none", "reading"} /\ conn'[c] = [conn[c] EXCEPT !.handler = "lost"]
    BY DEF Ends
  <2>3. CASE conn'[c] = conn[c]
    BY <2>1, <2>3 DEF Stream, Bound, Hung
  <2>4. CASE conn[c].handler = "running" /\ conn'[c] = [conn[c] EXCEPT !.handler = "broken"]
    BY <2>1, <2>4 DEF Stream, Bound, Hung, Connection
  <2>5. CASE conn[c].handler \in {"none", "reading"} /\ conn'[c] = [conn[c] EXCEPT !.handler = "lost"]
    BY <2>1, <2>5 DEF Stream, Bound, Hung, Connection
  <2> QED
    BY <2>2, <2>3, <2>4, <2>5
<1>4. conn' \in [Clients -> Connection]
  BY <1>3 DEF Ends
<1> QED
  BY <1>1, <1>2, <1>3, <1>4 DEF Streams

\* A daemon's step leaves setup, the service and the connections alone; while
\* nobody interferes it is a step of the service's instance.
LEMMA ToTypes ==
  ASSUME IInv, NEW d \in Daemons,
         NEW p \in {"removing", "binding", "serving", "unlinked", "failing", "closing"}, To(d, p)
  PROVE  /\ phase' \in [Daemons -> {"removing", "binding", "serving", "unlinked",
                                    "failing", "closing", "exited", "failed"}]
         /\ phase'[d] = p /\ \A e \in Daemons \ {d} : phase'[e] = phase[e]
         /\ Alive(d)' /\ \A e \in Daemons : Alive(e) => Alive(e)'
BY DEF To, IInv, TypeOK, Alive

\* Steps that no plan of setup waits for: the instance is starting or leaving.
LEMMA MovingIsMain ==
  ASSUME IInv, quiet, NEW d \in Daemons,
         Alive(d), phase[d] # "serving" \/ d \in cancelled
  PROVE  /\ d = main /\ MainAlive
         /\ ~(setup.at \in {"check", "reload"})
         /\ setup # [job |-> "install", at |-> "ok"]
         /\ ~(setup.at = "clean" /\ ~Windows /\ ~left)
         /\ ~(setup.at = "start" /\ Windows)
         /\ ~(setup = [job |-> "uninstall", at |-> "ok"] /\ ~Windows /\ ~left)
<1>1. d = main /\ main # 0
  BY Bounds DEF IInv, Calm
<1>2. MainAlive
  BY <1>1 DEF MainAlive
<1> QED
  BY <1>1, <1>2 DEF IInv, Calm, AllServing

\* Its own instance takes a step of Serve and goes on living; setup does not wait
\* for it to be down.
LEMMA ServeStep ==
  ASSUME IInv, NEW d \in Daemons,
         NEW p \in {"binding", "serving", "unlinked", "failing", "closing"}, To(d, p),
         Alive(d), sock' \in {0, d}, sock' = d => p = "serving",
         UNCHANGED <<cancelled, serviceVars, told, conn>>, events' \in 0 .. MaxEvents,
         quiet' \in BOOLEAN, quiet' => quiet /\ (phase[d] # "serving" \/ d \in cancelled)
  PROVE  IInv'
<1> USE DEF serviceVars
<1>1. /\ phase' \in [Daemons -> {"removing", "binding", "serving", "unlinked",
                                 "failing", "closing", "exited", "failed"}]
      /\ phase'[d] = p /\ \A e \in Daemons \ {d} : phase'[e] = phase[e]
      /\ Alive(d)' /\ \A e \in Daemons : Alive(e) => Alive(e)'
  BY ToTypes
<1>2. TypeOK'
  BY <1>1, Bounds DEF IInv, TypeOK
<1>3. Streams' /\ CancelledAlive' /\ Jobs'
  BY <1>1 DEF IInv, TypeOK, Streams, Stream, Bound, Hung, CancelledAlive, Jobs, Installing, Down,
              Darwin, Windows
<1>4. ASSUME quiet' PROVE Calm'
  <2>1. /\ d = main /\ MainAlive
        /\ ~(setup.at \in {"check", "reload"})
        /\ setup # [job |-> "install", at |-> "ok"]
        /\ ~(setup.at = "clean" /\ ~Windows /\ ~left)
        /\ ~(setup.at = "start" /\ Windows)
        /\ ~(setup = [job |-> "uninstall", at |-> "ok"] /\ ~Windows /\ ~left)
    BY <1>4, MovingIsMain
  <2> QED
    BY <1>1, <1>4, <2>1 DEF IInv, Calm, Windows, Alive, Down, MainAlive
<1> QED
  BY <1>2, <1>3, <1>4 DEF IInv

LEMMA RemoveStaleIInv == ASSUME IInv, NEW d \in Daemons, RemoveStale(d) PROVE IInv'
BY Bounds, ServeStep DEF RemoveStale, userVars, Alive, IInv, TypeOK

LEMMA CloseListenerIInv == ASSUME IInv, NEW d \in Daemons, CloseListener(d) PROVE IInv'
BY Bounds, ServeStep DEF CloseListener, userVars, Alive, IInv, TypeOK

LEMMA RemoveAgainIInv == ASSUME IInv, NEW d \in Daemons, RemoveAgain(d) PROVE IInv'
BY Bounds, ServeStep DEF RemoveAgain, userVars, Alive, IInv, TypeOK

LEMMA AcceptFailsIInv == ASSUME IInv, NEW d \in Daemons, AcceptFails(d) PROVE IInv'
<1>1. events' \in 0 .. MaxEvents
  BY Bounds DEF AcceptFails, Event, IInv, TypeOK
<1> QED
  BY <1>1, Bounds, ServeStep DEF AcceptFails, Alive

\* A process ends: by itself, when it is the service's own and on its way, or by a
\* failure that setup is not answerable for.
LEMMA EndStep ==
  ASSUME IInv, NEW d \in Daemons, NEW p \in {"exited", "failed"}, Ends(d, p), Alive(d),
         UNCHANGED <<sock, serviceVars>>, events' \in 0 .. MaxEvents,
         quiet' \in BOOLEAN, quiet' => quiet /\ phase[d] # "serving"
  PROVE  IInv'
<1> USE DEF serviceVars
<1>1. TypeOK'
  BY EndsIInv DEF IInv, TypeOK
<1>2. CancelledAlive' /\ Jobs'
  BY EndsIInv DEF IInv, TypeOK, CancelledAlive, Alive, Jobs, Installing, Down, Darwin, Windows
<1>3. ASSUME quiet' PROVE Calm'
  <2>1. /\ d = main /\ MainAlive
        /\ ~(setup.at \in {"check", "reload"})
        /\ setup # [job |-> "install", at |-> "ok"]
        /\ ~(setup.at = "clean" /\ ~Windows /\ ~left)
        /\ ~(setup.at = "start" /\ Windows)
        /\ ~(setup = [job |-> "uninstall", at |-> "ok"] /\ ~Windows /\ ~left)
    BY <1>3, MovingIsMain
  <2>2. ~MainAlive' /\ phase'[d] \in {"exited", "failed"} /\ \A e \in Daemons \ {d} : phase'[e] = phase[e]
    BY <2>1, EndsIInv DEF MainAlive, Alive
  <2>3. cancelled' = cancelled \ {d} /\ told' = told \ {d}
    BY EndsIInv
  <2> QED
    BY <1>3, <2>1, <2>2, <2>3 DEF IInv, Calm, Windows, Alive, Down
<1> QED
  BY <1>1, <1>2, <1>3, EndsIInv DEF IInv

LEMMA NeverServesIInv == ASSUME IInv, NEW d \in Daemons, NeverServes(d) PROVE IInv'
BY EndStep DEF NeverServes, Alive, IInv, TypeOK

LEMMA ListenIInv == ASSUME IInv, NEW d \in Daemons, Listen(d) PROVE IInv'
<1>1. Alive(d)
  BY DEF Listen, Alive
<1>2. CASE sock = 0
  BY <1>1, <1>2, ServeStep DEF Listen, IInv, TypeOK
<1>3. CASE sock # 0
  BY <1>1, <1>3, EndStep DEF Listen, IInv, TypeOK
<1> QED
  BY <1>2, <1>3

LEMMA ExitIInv == ASSUME IInv, NEW d \in Daemons, Exit(d) PROVE IInv'
BY EndStep DEF Exit, Alive, IInv, TypeOK

LEMMA CrashIInv == ASSUME IInv, NEW d \in Daemons, Crash(d) PROVE IInv'
<1>1. events' \in 0 .. MaxEvents
  BY Bounds DEF Crash, Event, IInv, TypeOK
<1> QED
  BY <1>1, EndStep DEF Crash

-----------------------------------------------------------------------------
(* The user.                                                               *)

\* What commands and signals leave as it is.
LEMMA UserStep ==
  ASSUME IInv, phase' \in [Daemons -> {"removing", "binding", "serving", "unlinked",
                                       "failing", "closing", "exited", "failed"}],
         \A d \in Daemons : Alive(d) => Alive(d)',
         cancelled' \subseteq Daemons, \A d \in cancelled' \ cancelled : Alive(d),
         told' \subseteq Daemons, events' \in 0 .. MaxEvents, quiet' = FALSE,
         UNCHANGED <<sock, serviceVars, conn>>
  PROVE  IInv'
<1> USE DEF serviceVars
<1>1. TypeOK'
  BY DEF IInv, TypeOK
<1>2. Streams' /\ Jobs'
  BY DEF IInv, Streams, Stream, Bound, Hung, Jobs, Installing, Down, Darwin, Windows
<1>3. CancelledAlive'
  BY <1>1 DEF IInv, CancelledAlive, TypeOK
<1> QED
  BY <1>1, <1>2, <1>3 DEF IInv, TypeOK

LEMMA EventType == ASSUME IInv, Event PROVE events' \in 0 .. MaxEvents
BY Bounds DEF Event, IInv, TypeOK

LEMMA StartByHandIInv == ASSUME IInv, NEW d \in Daemons, StartByHand(d) PROVE IInv'
<1>1. To(d, "removing") /\ UNCHANGED <<sock, cancelled, serviceVars, told, conn>> /\ quiet' = FALSE /\ Event
  BY DEF StartByHand, Launched
<1> QED
  BY <1>1, ToTypes, UserStep, EventType DEF IInv, TypeOK

LEMMA SignalIInv == ASSUME IInv, NEW d \in Daemons, Signal(d) PROVE IInv'
BY UserStep, EventType DEF Signal, IInv, TypeOK, Alive

LEMMA StopCommandIInv == ASSUME IInv, StopCommand PROVE IInv'
<1>1. sock \in Daemons
  BY DEF StopCommand, Connectable, IInv, TypeOK, Daemons
<1> QED
  BY <1>1, UserStep, EventType DEF StopCommand, daemonVars, IInv, TypeOK, Alive

\* While nobody interferes nobody asks a daemon to stop.
LEMMA CancelIInv == ASSUME IInv, NEW d \in Daemons, Cancel(d) PROVE IInv'
<1>1. ~quiet
  BY DEF Cancel, IInv, Calm
<1> QED
  BY <1>1, UserStep DEF Cancel, userVars, IInv, TypeOK, Alive

-----------------------------------------------------------------------------
(* The service manager and setup.                                          *)

\* The manager starts an instance only in a place where none lives.
LEMMA StartMainTypes ==
  ASSUME IInv, StartMain
  PROVE  /\ phase' \in [Daemons -> {"removing", "binding", "serving", "unlinked",
                                    "failing", "closing", "exited", "failed"}]
         /\ main' \in 0 .. MaxDaemons
         /\ \A d \in Daemons : Alive(d) => Alive(d)' /\ phase'[d] = phase[d]
         /\ \A d \in Daemons \ {main'} : phase'[d] = phase[d]
         /\ main' # 0 /\ main' \in Daemons
         /\ MainAlive => main' = main /\ phase' = phase
         /\ ~MainAlive => phase'[main'] = "removing" /\ ~Alive(main') /\ main' \notin cancelled
<1>1. CASE MainAlive
  BY <1>1, Bounds DEF StartMain, MainAlive, IInv, TypeOK, Alive, Daemons
<1>2. CASE ~MainAlive
  <2>1. PICK d \in Free : To(d, "removing") /\ main' = d
    BY <1>2 DEF StartMain, Launched
  <2>2. d \in Daemons /\ ~Alive(d)
    BY <2>1 DEF Free
  <2>3. d \notin cancelled
    BY <2>2 DEF IInv, CancelledAlive
  <2> QED
    BY <1>2, <2>1, <2>2, <2>3, ToTypes, Bounds DEF Alive, IInv, TypeOK, To
<1> QED
  BY <1>1, <1>2

\* What setup's steps leave as it is.
LEMMA SetupStepFrame ==
  ASSUME IInv, UNCHANGED <<platform, told, quiet, conn>>, events' \in 0 .. MaxEvents,
         left' \in {left} \cup BOOLEAN,
         NEW p \in {"idle", "check", "reload", "stop", "stopping", "clean", "write", "start",
                    "kick", "kicking", "poll", "ok", "failed"}, Step(p),
         phase' \in [Daemons -> {"removing", "binding", "serving", "unlinked",
                                 "failing", "closing", "exited", "failed"}],
         \A d \in Daemons : Alive(d) => Alive(d)',
         cancelled' \subseteq Daemons, \A d \in cancelled' \ cancelled : Alive(d),
         sock' \in 0 .. MaxDaemons, main' \in 0 .. MaxDaemons,
         wanted' \in BOOLEAN, unit' \in BOOLEAN
  PROVE  /\ TypeOK' /\ Streams' /\ CancelledAlive'
         /\ setup'.job = setup.job /\ setup'.at = p
         /\ \A j \in {"install", "uninstall"}, a \in {"ok"} :
              setup' = [job |-> j, at |-> a] <=> setup.job = j /\ p = a
<1> USE DEF userVars
<1>1. /\ setup' \in [job : {"install", "uninstall"},
                     at : {"idle", "check", "reload", "stop", "stopping", "clean",
                           "write", "start", "kick", "kicking", "poll", "ok", "failed"}]
      /\ setup'.job = setup.job /\ setup'.at = p
  BY DEF Step, IInv, TypeOK
<1>2. TypeOK'
  BY <1>1 DEF IInv, TypeOK
<1>3. Streams'
  BY DEF IInv, Streams, Stream, Bound, Hung
<1>4. CancelledAlive'
  BY <1>2 DEF IInv, CancelledAlive, TypeOK
<1> QED
  BY <1>1, <1>2, <1>3, <1>4

LEMMA RestartMainIInv == ASSUME IInv, RestartMain PROVE IInv'
<1>1. ~MainAlive /\ StartMain /\ wanted /\ platform = "linux"
      /\ UNCHANGED <<cancelled, sock, platform, left, wanted, unit, setup, userVars, conn>>
  BY DEF RestartMain, MainAlive, Alive
<1> USE DEF userVars
<1>2. TypeOK'
  BY <1>1, StartMainTypes DEF IInv, TypeOK
<1>3. Streams' /\ CancelledAlive' /\ Jobs'
  BY <1>1, StartMainTypes DEF IInv, TypeOK, Streams, Stream, Bound, Hung, CancelledAlive, Jobs,
     Installing, Down, Darwin, Windows
<1>4. ASSUME quiet PROVE Calm'
  <2>1. (Down => left) /\ ~Darwin /\ ~Windows /\ cancelled = {}
    <3>1. Down => left
      BY <1>1 DEF IInv, Jobs
    <3>2. ~Darwin /\ ~Windows
      BY <1>1 DEF Darwin, Windows
    <3>3. cancelled = {}
      BY <1>1, <1>4 DEF IInv, CancelledAlive, TypeOK, Calm, MainAlive, Daemons
    <3> QED
      BY <3>1, <3>2, <3>3
  <2>2. /\ ~(setup.at \in {"check", "reload"}) /\ setup # [job |-> "install", at |-> "ok"]
        /\ setup.at = "clean" \/ setup = [job |-> "uninstall", at |-> "ok"] => left
    <3>1. ~(setup.at \in {"check", "reload"})
      BY <2>1 DEF IInv, Jobs
    <3>2. setup.at = "clean" \/ setup = [job |-> "uninstall", at |-> "ok"] => left
      BY <2>1 DEF Down
    <3>3. setup # [job |-> "install", at |-> "ok"]
      BY <1>1, <1>4 DEF IInv, Calm
    <3> QED
      BY <3>1, <3>2, <3>3
  <2>3. \A d \in Daemons \ {main'} : Alive(d)' => phase'[d] = "serving"
    BY <1>1, <1>4, <2>1, StartMainTypes, Bounds DEF IInv, Calm, Alive, MainAlive
  <2>4. setup.at \in {"write", "start", "kick", "kicking", "poll"} => sock = 0
    BY <1>1, <1>4, <2>1 DEF IInv, Calm, MainAlive, Alive, TypeOK
  <2> QED
    BY <1>1, <1>4, <2>1, <2>2, <2>3, <2>4, StartMainTypes DEF IInv, Calm, Windows, Down
<1> QED
  BY <1>1, <1>2, <1>3, <1>4 DEF IInv

LEMMA BeginIInv ==
  ASSUME IInv, NEW job \in {"install", "uninstall"}, Begin(job) PROVE IInv'
<1> USE DEF daemonVars
<1>1. TypeOK'
  BY EventType DEF Begin, IInv, TypeOK, Settled
<1>2. Streams' /\ CancelledAlive' /\ Jobs'
  BY DEF Begin, IInv, Streams, Stream, Bound, Hung, CancelledAlive, Alive, Jobs, Installing, Down,
         Darwin, Windows
<1>3. ASSUME quiet' PROVE Calm'
  BY <1>3 DEF Begin, Settled, Calm, Alive, Windows, AllServing, Down, Darwin
<1> QED
  BY <1>1, <1>2, <1>3 DEF IInv

\* A step that setup takes while the daemons stand still.
LEMMA SetupMoves ==
  ASSUME IInv,
         NEW p \in {"idle", "check", "reload", "stop", "stopping", "clean", "write", "start",
                    "kick", "kicking", "poll", "ok", "failed"}, Step(p),
         UNCHANGED <<phase, platform, main, told, quiet, conn>>, events' \in 0 .. MaxEvents, left' \in {left} \cup BOOLEAN,
         sock' \in 0 .. MaxDaemons, wanted' \in BOOLEAN, unit' \in BOOLEAN,
         \/ UNCHANGED cancelled
         \/ cancelled' = IF MainAlive THEN cancelled \union {main} ELSE cancelled
  PROVE  /\ TypeOK' /\ Streams' /\ CancelledAlive'
         /\ setup'.job = setup.job /\ setup'.at = p
         /\ \A j \in {"install", "uninstall"} :
              setup' = [job |-> j, at |-> "ok"] <=> setup.job = j /\ p = "ok"
         /\ MainAlive' <=> MainAlive
         /\ AllServing' <=> AllServing
         /\ Windows' <=> Windows
         /\ Darwin' <=> Darwin
         /\ quiet' => quiet /\ told = {} /\ told' = {} /\ cancelled' \subseteq {main'}
                      /\ \A d \in Daemons \ {main'} : Alive(d)' => phase'[d] = "serving" /\ ~Windows'
<1>1. MainAlive => main \in Daemons /\ Alive(main)
  BY DEF MainAlive, IInv, TypeOK, Daemons
<1>2. cancelled' \subseteq Daemons /\ \A d \in cancelled' \ cancelled : Alive(d)
  BY <1>1 DEF IInv, TypeOK
<1>3. /\ \A d \in Daemons : Alive(d) => Alive(d)'
      /\ phase' \in [Daemons -> {"removing", "binding", "serving", "unlinked",
                                 "failing", "closing", "exited", "failed"}]
      /\ main' \in 0 .. MaxDaemons
  BY DEF IInv, TypeOK, Alive
<1>4. /\ TypeOK' /\ Streams' /\ CancelledAlive'
      /\ setup'.job = setup.job /\ setup'.at = p
      /\ \A j \in {"install", "uninstall"}, a \in {"ok"} :
           setup' = [job |-> j, at |-> a] <=> setup.job = j /\ p = a
  BY <1>2, <1>3, SetupStepFrame
<1>5. /\ MainAlive' <=> MainAlive
      /\ AllServing' <=> AllServing
      /\ Windows' <=> Windows
      /\ Darwin' <=> Darwin
  BY DEF MainAlive, AllServing, Windows, Darwin, Alive
<1>6. quiet' => quiet /\ told = {} /\ told' = {} /\ cancelled' \subseteq {main'}
                /\ \A d \in Daemons \ {main'} : Alive(d)' => phase'[d] = "serving" /\ ~Windows'
  BY DEF userVars, IInv, Calm, Alive, Windows
<1> QED
  BY <1>4, <1>5, <1>6

\* Of the steps that are no event, too.
LEMMA SetupOnly ==
  ASSUME IInv,
         NEW p \in {"idle", "check", "reload", "stop", "stopping", "clean", "write", "start",
                    "kick", "kicking", "poll", "ok", "failed"}, Step(p),
         UNCHANGED <<phase, platform, main, userVars, conn>>, left' \in {left} \cup BOOLEAN,
         sock' \in 0 .. MaxDaemons, wanted' \in BOOLEAN, unit' \in BOOLEAN,
         \/ UNCHANGED cancelled
         \/ cancelled' = IF MainAlive THEN cancelled \union {main} ELSE cancelled
  PROVE  /\ TypeOK' /\ Streams' /\ CancelledAlive'
         /\ setup'.job = setup.job /\ setup'.at = p
         /\ \A j \in {"install", "uninstall"} :
              setup' = [job |-> j, at |-> "ok"] <=> setup.job = j /\ p = "ok"
         /\ MainAlive' <=> MainAlive
         /\ AllServing' <=> AllServing
         /\ Windows' <=> Windows
         /\ Darwin' <=> Darwin
         /\ quiet' => quiet /\ told = {} /\ told' = {} /\ cancelled' \subseteq {main'}
                      /\ \A d \in Daemons \ {main'} : Alive(d)' => phase'[d] = "serving" /\ ~Windows'
BY SetupMoves DEF userVars, IInv, TypeOK

LEMMA SetupAt ==
  ASSUME IInv
  PROVE  setup \in [job : {"install", "uninstall"},
                    at : {"idle", "check", "reload", "stop", "stopping", "clean",
                          "write", "start", "kick", "kicking", "poll", "ok", "failed"}]
BY DEF IInv, TypeOK

\* Where setup gives up nothing is claimed of the daemons.
LEMMA GivesUp ==
  ASSUME IInv, Step("failed"),
         UNCHANGED <<daemonVars, platform, left, main, wanted, unit, userVars, conn>>
  PROVE  IInv'
<1> USE DEF daemonVars
<1>1. sock' \in 0 .. MaxDaemons /\ wanted' \in BOOLEAN /\ unit' \in BOOLEAN
  BY DEF IInv, TypeOK
<1>2. Jobs' /\ (quiet' => Calm')
  BY <1>1, SetupOnly, SetupAt DEF Jobs, Calm, Installing, Down
<1> QED
  BY <1>1, <1>2, SetupOnly DEF IInv

LEMMA CheckIInv == ASSUME IInv, Check PROVE IInv'
<1> USE DEF daemonVars
<1>1. PICK p \in {"reload", "stop"} : Step(p)
  BY DEF Check
<1>2. /\ UNCHANGED <<phase, platform, left, main, userVars, conn>> /\ UNCHANGED cancelled
      /\ sock' \in 0 .. MaxDaemons /\ wanted' \in BOOLEAN /\ unit' \in BOOLEAN
      /\ setup.at = "check" /\ setup.job = "install" /\ Darwin
      /\ setup'.at = p /\ UNCHANGED wanted /\ ~left
  BY <1>1, SetupAt DEF Check, IInv, TypeOK, Jobs, Installing, Step
<1>3. Jobs'
  BY <1>1, <1>2, SetupOnly DEF Jobs, Installing, Down
<1>4. quiet' => Calm'
  BY <1>1, <1>2, SetupOnly DEF Calm, IInv, Down
<1> QED
  BY <1>1, <1>2, <1>3, <1>4, SetupOnly DEF IInv

LEMMA ReloadIInv == ASSUME IInv, Reload PROVE IInv'
<1> USE DEF daemonVars
<1>1. CASE Connectable /\ Step("ok")
  <2>1. /\ UNCHANGED <<phase, platform, left, main, userVars, conn>> /\ UNCHANGED cancelled
        /\ sock' \in 0 .. MaxDaemons /\ wanted' \in BOOLEAN /\ unit' \in BOOLEAN
        /\ setup.at = "reload" /\ setup.job = "install" /\ Darwin /\ UNCHANGED <<sock, wanted>>
    BY SetupAt DEF Reload, IInv, TypeOK, Jobs, Installing
  <2>2. Jobs'
    BY <1>1, <2>1, SetupOnly DEF Jobs, Installing, Down
  <2>3. quiet' => Calm'
    BY <1>1, <2>1, SetupOnly DEF Calm, IInv, Down, Connectable, Darwin, Windows
  <2> QED
    BY <1>1, <2>1, <2>2, <2>3, SetupOnly DEF IInv
<1> QED
  BY <1>1, GivesUp DEF Reload

LEMMA StopIInv == ASSUME IInv, Stop PROVE IInv'
<1>1. /\ UNCHANGED <<phase, platform, left, main, userVars, conn>> /\ Step("stopping")
      /\ cancelled' = IF MainAlive THEN cancelled \union {main} ELSE cancelled
      /\ sock' \in 0 .. MaxDaemons /\ wanted' = FALSE /\ unit' \in BOOLEAN
      /\ setup.at = "stop" /\ ~left
  BY DEF Stop, IInv, TypeOK, Jobs
<1>2. Jobs'
  BY <1>1, SetupOnly DEF Jobs, Installing, Down
<1>3. MainAlive' => main' \in cancelled'
  BY <1>1, SetupOnly
<1>4. quiet' => Calm'
  BY <1>1, <1>3, SetupOnly DEF Calm, Down
<1> QED
  BY <1>1, <1>2, <1>4, SetupOnly DEF IInv

\* The commands fail: setup knows nothing of the instance, but that nobody asked it
\* to leave, on macOS perhaps after all.
LEMMA StopFailsIInv == ASSUME IInv, StopFails PROVE IInv'
<1>1. /\ UNCHANGED <<phase, platform, main, told, quiet, conn>> /\ events' \in 0 .. MaxEvents
       /\ Step("clean") /\ left' = TRUE
      /\ \/ UNCHANGED cancelled
         \/ cancelled' = IF MainAlive THEN cancelled \union {main} ELSE cancelled
      /\ sock' \in 0 .. MaxDaemons /\ wanted' \in BOOLEAN /\ unit' \in BOOLEAN
      /\ setup.at = "stop" /\ (platform = "linux" => UNCHANGED cancelled)
  BY Bounds DEF StopFails, Event, IInv, TypeOK, Darwin
<1>2. Jobs'
  BY <1>1, SetupMoves DEF Jobs, Installing, Down
<1>3. quiet' => Calm'
  BY <1>1, SetupMoves DEF IInv, Calm, Down
<1> QED
  BY <1>1, <1>2, <1>3, SetupMoves DEF IInv

LEMMA StoppedIInv == ASSUME IInv, Stopped PROVE IInv'
<1> USE DEF daemonVars
<1>1. /\ UNCHANGED <<phase, platform, left, main, userVars, conn>> /\ Step("clean")
      /\ UNCHANGED <<cancelled, wanted>>
      /\ sock' \in 0 .. MaxDaemons /\ wanted' \in BOOLEAN /\ unit' \in BOOLEAN
      /\ setup.at = "stopping" /\ (Windows \/ ~MainAlive)
  BY DEF Stopped, IInv, TypeOK
<1>2. ~left /\ ~wanted /\ (quiet /\ Windows => (MainAlive => main \in cancelled))
  BY <1>1 DEF IInv, Jobs, Down, Calm
<1>3. Jobs'
  BY <1>1, <1>2, SetupOnly DEF Jobs, Installing, Down
<1>4. quiet' => Calm'
  BY <1>1, <1>2, SetupOnly DEF Calm, Down
<1> QED
  BY <1>1, <1>3, <1>4, SetupOnly DEF IInv

LEMMA CleanIInv == ASSUME IInv, Clean PROVE IInv'
<1>1. PICK p \in {"write", "ok"} :
         Step(p) /\ p = (IF setup.job = "install" THEN "write" ELSE "ok")
  BY DEF Clean
<1>2. /\ UNCHANGED <<phase, platform, main, userVars, conn>>
      /\ UNCHANGED <<cancelled, wanted>> /\ left' = (left /\ setup.job = "uninstall")
      /\ sock' \in 0 .. MaxDaemons /\ wanted' \in BOOLEAN
      /\ unit' \in BOOLEAN /\ (unit' => Windows /\ left)
      /\ setup.at = "clean" /\ (~Windows => sock' = 0)
  BY Bounds DEF Clean, IInv, TypeOK
<1>3. /\ ~left => ~wanted
      /\ quiet /\ Windows /\ ~left => (MainAlive => main \in cancelled)
      /\ quiet /\ ~Windows /\ ~left => ~MainAlive
      /\ left \in BOOLEAN /\ left' \in BOOLEAN
  BY <1>2 DEF IInv, Jobs, Down, Calm, TypeOK
<1>4. quiet => (platform = "linux" => cancelled = {})
  <2>1. quiet /\ ~MainAlive => cancelled = {}
    BY DEF IInv, CancelledAlive, TypeOK, Calm, MainAlive, Daemons
  <2>2. quiet /\ platform = "linux" /\ left => cancelled = {}
    BY <1>2 DEF IInv, Calm
  <2> QED
    BY <1>3, <2>1, <2>2 DEF Windows
<1>5. Jobs'
  BY <1>1, <1>2, <1>3, SetupOnly DEF Jobs, Installing, Down
<1>6. quiet' => Calm'
  BY <1>1, <1>2, <1>3, <1>4, SetupOnly DEF Calm, Down
<1> QED
  BY <1>1, <1>2, <1>3, <1>5, <1>6, SetupOnly DEF IInv

LEMMA WriteUnitIInv == ASSUME IInv, WriteUnit PROVE IInv'
<1> USE DEF daemonVars
<1>1. CASE Step("start") /\ unit' = TRUE /\ (Windows => ~MainAlive)
  <2>1. /\ UNCHANGED <<phase, platform, left, main, userVars, conn>>
        /\ UNCHANGED <<cancelled, wanted, sock>>
        /\ sock' \in 0 .. MaxDaemons /\ wanted' \in BOOLEAN /\ unit' \in BOOLEAN
        /\ setup.at = "write"
    BY <1>1 DEF WriteUnit, IInv, TypeOK
  <2>2. /\ setup.job = "install"
        /\ quiet /\ ~Windows => (sock # 0 => sock = main /\ phase[main] = "serving")
        /\ quiet => (platform = "linux" => cancelled = {})
    BY <2>1 DEF IInv, Jobs, Calm, Installing
  <2>3. Jobs'
    BY <1>1, <2>1, <2>2, SetupOnly DEF Jobs, Installing, Down
  <2>4. quiet' => Calm'
    BY <1>1, <2>1, <2>2, SetupOnly DEF Calm, Down
  <2> QED
    BY <1>1, <2>1, <2>3, <2>4, SetupOnly DEF IInv
<1> QED
  BY <1>1, GivesUp DEF WriteUnit

\* The instance that setup starts is alone on its way, and nobody else's socket is
\* taken for its own; one that was left is on nobody's way, and its socket is gone.
LEMMA Starts ==
  ASSUME IInv, StartMain, quiet => (~MainAlive \/ ~Windows),
         setup.at \in {"start", "kicking"},
         NEW p \in {"kick", "poll"}, Step(p), p = "poll" /\ quiet /\ MainAlive => cancelled = {},
         wanted' \in BOOLEAN, UNCHANGED <<cancelled, sock, platform, left, unit, userVars, conn>>
  PROVE  IInv'
<1>1. /\ sock' \in 0 .. MaxDaemons /\ unit' \in BOOLEAN /\ cancelled' \subseteq Daemons
      /\ \A d \in cancelled' \ cancelled : Alive(d)
      /\ UNCHANGED <<told, quiet>> /\ events' \in 0 .. MaxEvents
  BY DEF userVars, IInv, TypeOK
<1>2. /\ TypeOK' /\ Streams' /\ CancelledAlive'
      /\ setup'.job = setup.job /\ setup'.at = p
      /\ \A j \in {"install", "uninstall"}, a \in {"ok"} :
           setup' = [job |-> j, at |-> a] <=> setup.job = j /\ p = a
  BY <1>1, StartMainTypes, SetupStepFrame
<1>3. setup.job = "install"
  BY DEF IInv, Jobs, Installing
<1>4. Jobs'
  BY <1>2, <1>3 DEF Jobs, Installing, Down
<1>5. ASSUME quiet' PROVE Calm'
  <2>1. quiet /\ told' = {}
    BY <1>5 DEF userVars, IInv, Calm
  <2>2. CASE MainAlive
    <3>1. main' = main /\ phase' = phase /\ ~Windows
      BY <2>1, <2>2, StartMainTypes
    <3>2. cancelled \subseteq {main} /\ (sock # 0 => sock = main /\ phase[main] = "serving")
      BY <2>1, <3>1 DEF IInv, Calm
    <3>3. \A d \in Daemons \ {main'} : Alive(d)' => phase'[d] = "serving" /\ ~Windows'
      BY <2>1, <3>1 DEF IInv, Calm, Alive, Windows
    <3> QED
      BY <1>2, <1>3, <2>1, <2>2, <3>1, <3>2, <3>3 DEF Calm, Windows, Down
  <2>3. CASE ~MainAlive
    <3>1. cancelled = {}
      BY <2>1, <2>3, Bounds DEF IInv, CancelledAlive, TypeOK, Calm, MainAlive
    <3>2. \A d \in Daemons \ {main'} : Alive(d)' => phase'[d] = "serving" /\ ~Windows'
      BY <2>1, <2>3, StartMainTypes, Bounds DEF IInv, Calm, Alive, MainAlive, Windows
    <3>3. ~Windows => sock = 0
      BY <2>1, <2>3 DEF IInv, Calm, MainAlive, Alive, TypeOK
    <3> QED
      BY <1>2, <1>3, <2>1, <3>1, <3>2, <3>3 DEF Calm, Windows, Down
  <2> QED
    BY <2>2, <2>3
<1> QED
  BY <1>2, <1>4, <1>5 DEF IInv

LEMMA StartIInv == ASSUME IInv, Start PROVE IInv'
<1>1. CASE StartMain /\ wanted' = TRUE /\ Step(IF Darwin THEN "kick" ELSE "poll")
  <2>1. quiet => (~MainAlive \/ ~Windows)
    BY DEF Start, IInv, Calm
  <2>2. PICK p \in {"kick", "poll"} : Step(p) /\ p = (IF Darwin THEN "kick" ELSE "poll")
    BY <1>1
  <2>3. platform \in {"linux", "darwin", "windows"}
    BY ServiceAssumption DEF IInv, TypeOK
  <2>4. p = "poll" /\ quiet /\ MainAlive => cancelled = {}
    BY <2>1, <2>2, <2>3 DEF Start, IInv, Calm, Darwin, Windows
  <2> QED
    BY <1>1, <2>1, <2>2, <2>4, Starts DEF Start
<1>2. CASE Step("failed") /\ UNCHANGED <<phase, main, wanted>>
  BY <1>2, GivesUp DEF Start, daemonVars
<1> QED
  BY <1>1, <1>2 DEF Start

LEMMA KickIInv == ASSUME IInv, Kick PROVE IInv'
<1>1. CASE Step("kicking") /\ cancelled' = IF MainAlive THEN cancelled \union {main} ELSE cancelled
  <2>1. /\ UNCHANGED <<phase, platform, left, main, userVars, conn>>
        /\ UNCHANGED <<wanted, sock>>
        /\ sock' \in 0 .. MaxDaemons /\ wanted' \in BOOLEAN /\ unit' \in BOOLEAN
        /\ setup.at = "kick"
    BY DEF Kick, IInv, TypeOK
  <2>2. setup.job = "install"
    BY <2>1 DEF IInv, Jobs, Installing
  <2>3. Jobs'
    BY <1>1, <2>1, <2>2, SetupOnly DEF Jobs, Installing, Down
  <2>4. quiet' => Calm'
    BY <1>1, <2>1, <2>2, SetupOnly DEF IInv, Calm, Down
  <2> QED
    BY <1>1, <2>1, <2>3, <2>4, SetupOnly DEF IInv
<1> QED
  BY <1>1, GivesUp DEF Kick, daemonVars

LEMMA KickedIInv == ASSUME IInv, Kicked PROVE IInv'
<1>1. wanted' \in BOOLEAN
  BY DEF Kicked, IInv, TypeOK
<1> QED
  BY <1>1, Starts DEF Kicked

LEMMA PollIInv == ASSUME IInv, Poll PROVE IInv'
<1> USE DEF daemonVars
<1>1. CASE Connectable /\ Step("ok")
  <2>1. /\ UNCHANGED <<phase, platform, left, main, userVars, conn>>
        /\ UNCHANGED <<cancelled, wanted, sock>>
        /\ sock' \in 0 .. MaxDaemons /\ wanted' \in BOOLEAN /\ unit' \in BOOLEAN
        /\ setup.at = "poll"
    BY DEF Poll, IInv, TypeOK
  <2>2. setup.job = "install"
    BY <2>1 DEF IInv, Jobs, Installing
  <2>3. Jobs'
    BY <1>1, <2>1, <2>2, SetupOnly DEF Jobs, Installing, Down
  <2>4. ASSUME quiet'
        PROVE  Connectable' /\ cancelled' = {} /\ AllServing' /\ (platform' = "linux" => MainAlive')
    <3>1. quiet /\ cancelled = {} /\ cancelled' = {}
      BY <2>1, <2>4 DEF userVars, IInv, Calm
    <3>2. Connectable'
      BY <1>1, <2>1 DEF Connectable
    <3>3. ~Windows => MainAlive /\ phase[main] = "serving"
      BY <1>1, <2>1, <3>1 DEF IInv, Calm, Connectable, MainAlive, Alive
    <3>4. Windows => phase[main] = "serving"
      BY <1>1, <3>1 DEF IInv, TypeOK, Calm, Connectable, Alive, Daemons
    <3>5. AllServing
      BY <3>1, <3>3, <3>4 DEF IInv, Calm, AllServing
    <3> QED
      BY <1>1, <2>1, <3>1, <3>2, <3>3, <3>5, SetupOnly DEF Windows
  <2>5. quiet' => Calm'
    BY <1>1, <2>1, <2>2, <2>4, SetupOnly DEF Calm, Down
  <2> QED
    BY <1>1, <2>1, <2>3, <2>5, SetupOnly DEF IInv
<1> QED
  BY <1>1, GivesUp DEF Poll

-----------------------------------------------------------------------------
(* The theorems.                                                           *)

LEMMA NextIInv == IInv /\ [Next]_vars => IInv'
<1> SUFFICES ASSUME IInv, [Next]_vars PROVE IInv'
  OBVIOUS
<1>1. CASE \E d \in Daemons :
             \/ DaemonStep(d)
             \/ NeverServes(d) \/ AcceptFails(d) \/ Crash(d) \/ StartByHand(d) \/ Signal(d)
  BY <1>1, RemoveStaleIInv, ListenIInv, CloseListenerIInv, RemoveAgainIInv, ExitIInv, CancelIInv,
     NeverServesIInv, AcceptFailsIInv, CrashIInv, StartByHandIInv, SignalIInv DEF DaemonStep
<1>2. CASE StopCommand \/ RestartMain \/ \E job \in {"install", "uninstall"} : Begin(job)
  BY <1>2, StopCommandIInv, RestartMainIInv, BeginIInv
<1>3. CASE SetupStep
  BY <1>3, CheckIInv, ReloadIInv, StopIInv, StopFailsIInv, StoppedIInv, CleanIInv, WriteUnitIInv, StartIInv,
     KickIInv, KickedIInv, PollIInv DEF SetupStep
<1>4. CASE \E c \in Clients :
             \/ ClientStep(c) \/ HandlerStep(c)
             \/ Dial(c) \/ Ask(c) \/ StdinEnds(c) \/ Killed(c)
  BY <1>4, ClientStepIInv
<1>5. CASE UNCHANGED vars
  <2> USE <1>5 DEF vars, daemonVars, serviceVars, userVars
  <2>1. TypeOK'
    BY DEF IInv, TypeOK
  <2>2. Streams' /\ CancelledAlive'
    BY DEF IInv, Streams, Stream, Bound, Hung, CancelledAlive, Alive
  <2>3. Jobs' /\ (quiet' => Calm')
    BY DEF IInv, Jobs, Installing, Down, Darwin, Windows, Calm, AllServing, Alive, MainAlive,
           Connectable
  <2> QED
    BY <2>1, <2>2, <2>3 DEF IInv
<1> QED
  BY <1>1, <1>2, <1>3, <1>4, <1>5 DEF Next

\* The inductive invariant holds of every behaviour.
THEOREM Invariant == Spec => []IInv
BY InitIInv, NextIInv, PTL DEF Spec

\* Every variable keeps its type; in particular no counter of a stream exceeds what
\* its client may ask, through any sequence of crashes, restarts and commands.
THEOREM TypeCorrect == Spec => []TypeOK
<1>1. IInv => TypeOK
  BY DEF IInv
<1> QED
  BY <1>1, Invariant, PTL

\* Setup that reports success while nobody else interferes leaves a daemon that
\* answers at the path and is not leaving, whatever the manager had to restart on
\* the way (agent.go installLaunchAgent and pollSocket).
THEOREM InstallSucceeds == Spec => []InstallLeavesDaemon
<1>1. IInv => InstallLeavesDaemon
  BY DEF IInv, Calm, InstallLeavesDaemon
<1> QED
  BY <1>1, Invariant, PTL

\* Uninstall that reports success while nobody else interferes leaves no unit file
\* and, unless the manager's stop commands failed, whose errors it drops, no service
\* that answers or will go on answering (agent.go uninstallLaunchAgent).
THEOREM UninstallIsClean == Spec => []UninstallLeavesNothing
<1>1. IInv => UninstallLeavesNothing
  BY DEF IInv, Calm, Jobs, Down, Connectable, UninstallLeavesNothing, TypeOK
<1> QED
  BY <1>1, Invariant, PTL

\* A client process that reports success printed an answer to everything it was
\* asked, unless the daemon's side broke the session off (client.go RunClient).
THEOREM DoneMeansPrinted == Spec => []DoneIsComplete
<1>1. IInv => DoneIsComplete
  <2> SUFFICES ASSUME IInv, NEW c \in Clients, conn[c].at = "done", conn[c].handler # "broken"
               PROVE  conn[c].printed = conn[c].asked
    BY DEF DoneIsComplete
  <2>1. Stream(c)
    BY DEF IInv, Streams
  <2>2. conn[c].out /\ Bound(c)
    BY <2>1 DEF Stream
  <2>3. conn[c].handler = "ended"
    BY <2>1, <2>2 DEF Stream, Bound, Hung
  <2> QED
    BY <2>1, <2>2, <2>3 DEF Stream
<1> QED
  BY <1>1, Invariant, PTL

=============================================================================
