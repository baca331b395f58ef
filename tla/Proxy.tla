------------------------------- MODULE Proxy --------------------------------
(***************************************************************************)
(* One wrapper proxy over a stdio MCP server (internal/wrapper/proxy.go):  *)
(* the Run loops of the clients that share it, ensureReal under Proxy.mu,  *)
(* the calls multiplexed on one real process by callMu and by JSON-RPC id, *)
(* the read loop that hands a response over and waits until it has been    *)
(* written to its client (ack), the idle timer, and the ways a real        *)
(* process ends.                                                           *)
(*                                                                         *)
(* Real processes are numbered in the order they are spawned.  The real    *)
(* server itself is not under src/: it answers each request at most once,  *)
(* in any order, or never.  Notifications are in ToolsCache.               *)
(***************************************************************************)
EXTENDS Naturals, Sequences, Functions

CONSTANTS
  Clients,        \* connections running Proxy.Run on this proxy
  NoOne,          \* the holder of a free mutex
  KeepReal,       \* ProxyOptions.KeepRealOnClientClose: TRUE when shared
  ResponseCap,    \* capacity of realClient.responses (64 in the code)
  MaxReals,       \* bound: real processes spawned
  MaxRequests     \* bound: requests the clients send

ASSUME NoOneAssumption == NoOne \notin Clients
ASSUME BoundsAssumption ==
  /\ KeepReal \in BOOLEAN
  /\ ResponseCap \in Nat \ {0}
  /\ MaxReals \in Nat /\ MaxRequests \in Nat

Reals == 1..MaxReals

VARIABLES
  pc,         \* pc[c]: where the Run loop of c is
  sent,       \* requests sent so far
  on,         \* on[c]: the real process c's current request goes to, 0 when it has none
  id,         \* id[c]: the JSON-RPC id of c's call on that process
  got,        \* got[c]: the id of the response c has been given, 0 for an error
  mu,         \* holder of Proxy.mu across a start
  client,     \* Proxy.client: the current real process, 0 for nil
  spawned,    \* real processes spawned so far
  proc,       \* proc[r]: none, up, stopping (told to stop) or exited (done closed)
  timer,      \* timer[r]: the idle timer of r is armed
  callMu,     \* callMu[r]: holder of realClient.callMu
  nextID,     \* nextID[r]: last id used on r
  inbox,      \* inbox[r]: ids r has received and not answered
  stdout,     \* stdout[r]: ids of the responses r has written, not read yet
  responses,  \* responses[r]: the responses channel
  loop,       \* loop[r]: 0 when the read loop reads, or the id it waits on
  acked       \* acked[r]: ids whose ack channel is closed

clientVars == <<pc, sent, on, id, got>>
lifeVars   == <<mu, client, spawned, proc, timer>>
callVars   == <<callMu, nextID, inbox>>
pipeVars   == <<stdout, responses, loop, acked>>
vars       == <<clientVars, lifeVars, callVars, pipeVars>>

\* A Run loop reads (idle), wants Proxy.mu (ensure), starts a real process,
\* wants callMu (queue), waits for its response, writes its reply, or has
\* returned (gone).
Phases == {"idle", "ensure", "start", "queue", "wait", "write", "gone"}

TypeOK ==
  /\ pc \in [Clients -> Phases]
  /\ sent \in 0..MaxRequests
  /\ on \in [Clients -> 0..MaxReals]
  /\ id \in [Clients -> Nat]
  /\ got \in [Clients -> Nat]
  /\ mu \in Clients \cup {NoOne}
  /\ client \in 0..MaxReals
  /\ spawned \in 0..MaxReals
  /\ proc \in [Reals -> {"none", "up", "stopping", "exited"}]
  /\ timer \in [Reals -> BOOLEAN]
  /\ callMu \in [Reals -> Clients \cup {NoOne}]
  /\ nextID \in [Reals -> Nat]
  /\ inbox \in [Reals -> SUBSET Nat]
  /\ stdout \in [Reals -> Seq(Nat)]
  /\ responses \in [Reals -> Seq(Nat)]
  /\ \A r \in Reals : Len(responses[r]) <= ResponseCap
  /\ loop \in [Reals -> Nat]
  /\ acked \in [Reals -> SUBSET Nat]

Init ==
  /\ pc = [c \in Clients |-> "idle"]
  /\ sent = 0
  /\ on = [c \in Clients |-> 0]
  /\ id = [c \in Clients |-> 0]
  /\ got = [c \in Clients |-> 0]
  /\ mu = NoOne
  /\ client = 0
  /\ spawned = 0
  /\ proc = [r \in Reals |-> "none"]
  /\ timer = [r \in Reals |-> FALSE]
  /\ callMu = [r \in Reals |-> NoOne]
  /\ nextID = [r \in Reals |-> 0]
  /\ inbox = [r \in Reals |-> {}]
  /\ stdout = [r \in Reals |-> <<>>]
  /\ responses = [r \in Reals |-> <<>>]
  /\ loop = [r \in Reals |-> 0]
  /\ acked = [r \in Reals |-> {}]

Goto(c, phase) == pc' = [pc EXCEPT ![c] = phase]
Alive(r)       == proc[r] \in {"up", "stopping"}
NeedsReal      == client # 0 => ~Alive(client)

\* realClient.close: stops the timer and signals the process; what follows
\* (it exits, or is killed after two seconds) is RealExits.
Closing(r)   == [proc EXCEPT ![r] = IF @ = "up" THEN "stopping" ELSE @]
TimerOff(r)  == [timer EXCEPT ![r] = FALSE]
\* realClient.touch arms the timer, again if it was stopped.
TimerOn(r)   == [timer EXCEPT ![r] = TRUE]

\* stopReal under Proxy.mu.
StopReal ==
  /\ mu = NoOne
  /\ client' = 0
  /\ proc' = IF client = 0 THEN proc ELSE Closing(client)
  /\ timer' = IF client = 0 THEN timer ELSE TimerOff(client)
  /\ UNCHANGED <<mu, spawned>>

-----------------------------------------------------------------------------
(* The Run loop of client c.                                               *)

\* A request that handleRequest forwards, or a notification, is read.
Request(c) ==
  /\ pc[c] = "idle"
  /\ sent < MaxRequests
  /\ sent' = sent + 1
  /\ Goto(c, "ensure")
  /\ UNCHANGED <<on, id, got, lifeVars, callVars, pipeVars>>

\* ensureStdioReal: alive() only asks whether done is closed, so a process that
\* has been told to stop is still handed out.
UseReal(c) ==
  /\ pc[c] = "ensure"
  /\ mu = NoOne
  /\ client # 0 /\ Alive(client)
  /\ timer' = TimerOn(client)
  /\ on' = [on EXCEPT ![c] = client]
  /\ Goto(c, "queue")
  /\ UNCHANGED <<sent, id, got, mu, client, spawned, proc, callVars, pipeVars>>

\* ensureStdioReal, no process or a dead one: close it and start another.
SpawnReal(c) ==
  /\ pc[c] = "ensure"
  /\ mu = NoOne
  /\ NeedsReal
  /\ spawned < MaxReals
  /\ mu' = c
  /\ client' = 0
  /\ spawned' = spawned + 1
  /\ proc' = [proc EXCEPT ![spawned + 1] = "up"]
  /\ timer' = IF client = 0 THEN timer ELSE TimerOff(client)
  /\ on' = [on EXCEPT ![c] = spawned + 1]
  /\ Goto(c, "start")
  /\ UNCHANGED <<sent, id, got, callVars, pipeVars>>

\* The command cannot be started: the request fails.
SpawnFails(c) ==
  /\ pc[c] = "ensure"
  /\ mu = NoOne
  /\ NeedsReal
  /\ client' = 0
  /\ timer' = IF client = 0 THEN timer ELSE TimerOff(client)
  /\ got' = [got EXCEPT ![c] = 0]
  /\ Goto(c, "write")
  /\ UNCHANGED <<sent, on, id, mu, spawned, proc, callVars, pipeVars>>

\* startReal: the initialize exchange is answered (it is the first id).
StartDone(c) ==
  /\ pc[c] = "start"
  /\ LET r == on[c] IN
       /\ client' = r
       /\ timer' = TimerOn(r)
       /\ nextID' = [nextID EXCEPT ![r] = 1]
       /\ acked' = [acked EXCEPT ![r] = {1}]
  /\ mu' = NoOne
  /\ Goto(c, "queue")
  /\ UNCHANGED <<sent, on, id, got, spawned, proc, callMu, inbox, stdout, responses, loop>>

\* Wrong on purpose: the process whose initialize failed is not closed.
StartFailsLeaking(c) ==
  /\ pc[c] = "start"
  /\ mu' = NoOne
  /\ got' = [got EXCEPT ![c] = 0]
  /\ Goto(c, "write")
  /\ UNCHANGED <<sent, on, id, client, spawned, proc, timer, callVars, pipeVars>>

\* startReal: initialize fails or takes longer than the startup timeout.
StartFails(c) ==
  /\ pc[c] = "start"
  /\ proc' = Closing(on[c])
  /\ mu' = NoOne
  /\ got' = [got EXCEPT ![c] = 0]
  /\ Goto(c, "write")
  /\ UNCHANGED <<sent, on, id, client, spawned, timer, callVars, pipeVars>>

\* call: take callMu, take an id, write the request.  The write may fail, and does
\* when the process is gone.
Send(c) ==
  LET r == on[c] IN
  /\ pc[c] = "queue"
  /\ callMu[r] = NoOne
  /\ nextID' = [nextID EXCEPT ![r] = @ + 1]
  /\ id' = [id EXCEPT ![c] = nextID[r] + 1]
  /\ \/ /\ Alive(r)
        /\ callMu' = [callMu EXCEPT ![r] = c]
        /\ inbox' = [inbox EXCEPT ![r] = @ \cup {nextID[r] + 1}]
        /\ Goto(c, "wait")
        /\ UNCHANGED got
     \/ /\ got' = [got EXCEPT ![c] = 0]
        /\ Goto(c, "write")
        /\ UNCHANGED <<callMu, inbox>>
  /\ UNCHANGED <<sent, on, lifeVars, pipeVars>>

\* handleNotification: what the client sent was a notification, which is written
\* without callMu and is not answered.
Notify(c) ==
  /\ pc[c] = "queue"
  /\ timer' = TimerOn(on[c])
  /\ on' = [on EXCEPT ![c] = 0]
  /\ Goto(c, "idle")
  /\ UNCHANGED <<sent, id, got, mu, client, spawned, proc, callVars, pipeVars>>

\* call returns, with the response of id i or (i = 0) an error, and releases
\* callMu before the reply is written.
Return(c, i) ==
  /\ got' = [got EXCEPT ![c] = i]
  /\ callMu' = [callMu EXCEPT ![on[c]] = NoOne]
  /\ Goto(c, "write")

\* Wrong on purpose: the first response to come is taken for one's own.
MatchesAny(c, i) == id[c] # 0

Matches(c, i) == i = id[c]

\* Wrong on purpose: the ack is closed as soon as the response is taken.
TakeOwnAcking(c) ==
  LET r == on[c] IN
  /\ pc[c] = "wait"
  /\ responses[r] # <<>> /\ Matches(c, Head(responses[r]))
  /\ responses' = [responses EXCEPT ![r] = Tail(@)]
  /\ acked' = [acked EXCEPT ![r] = @ \cup {Head(responses[r])}]
  /\ timer' = TimerOn(r)
  /\ Return(c, Head(responses[r]))
  /\ UNCHANGED <<sent, on, id, mu, client, spawned, proc, nextID, inbox, stdout, loop>>

\* call, the select's response case: the response is its own, or is dropped
\* and its ack closed.
TakeOwn(c) ==
  LET r == on[c] IN
  /\ pc[c] = "wait"
  /\ responses[r] # <<>> /\ Matches(c, Head(responses[r]))
  /\ responses' = [responses EXCEPT ![r] = Tail(@)]
  /\ timer' = TimerOn(r)
  /\ Return(c, Head(responses[r]))
  /\ UNCHANGED <<sent, on, id, mu, client, spawned, proc, nextID, inbox, stdout, loop, acked>>

DropStale(c) ==
  LET r == on[c] IN
  /\ pc[c] = "wait"
  /\ responses[r] # <<>> /\ ~Matches(c, Head(responses[r]))
  /\ responses' = [responses EXCEPT ![r] = Tail(@)]
  /\ acked' = [acked EXCEPT ![r] = @ \cup {Head(responses[r])}]
  /\ UNCHANGED <<clientVars, lifeVars, callVars, stdout, loop>>

\* Wrong on purpose: the call has no timeout of its own.
CallFailsOnExit(c) ==
  /\ pc[c] = "wait"
  /\ proc[on[c]] = "exited"
  /\ Return(c, 0)
  /\ UNCHANGED <<sent, on, id, lifeVars, nextID, inbox, pipeVars>>

\* call, the select's other cases: the call timeout, or the process has exited.
\* Both may be chosen although a response is there.
CallFails(c) ==
  /\ pc[c] = "wait"
  /\ Return(c, 0)
  /\ UNCHANGED <<sent, on, id, lifeVars, nextID, inbox, pipeVars>>

\* The reply is written, and only then is the ack of its response closed.  If
\* the write fails the ack is closed all the same and Run returns.
Reply(c) ==
  /\ pc[c] = "write"
  /\ \/ /\ Goto(c, "idle")
        /\ UNCHANGED lifeVars
     \/ /\ Goto(c, "gone")
        /\ IF KeepReal THEN UNCHANGED lifeVars ELSE StopReal
  /\ acked' = IF got[c] = 0 THEN acked ELSE [acked EXCEPT ![on[c]] = @ \cup {got[c]}]
  /\ got' = [got EXCEPT ![c] = 0]
  /\ on' = [on EXCEPT ![c] = 0]
  /\ id' = [id EXCEPT ![c] = 0]
  /\ UNCHANGED <<sent, callVars, stdout, responses, loop>>

\* The client's input ends; input that cannot be parsed ends the loop too, and
\* leaves the real process alone.
Leave(c) ==
  /\ pc[c] = "idle"
  /\ \/ IF KeepReal THEN UNCHANGED lifeVars ELSE StopReal
     \/ UNCHANGED lifeVars
  /\ Goto(c, "gone")
  /\ UNCHANGED <<sent, on, id, got, callVars, pipeVars>>

-----------------------------------------------------------------------------
(* The daemon, the timer and the goroutines of a real process.             *)

\* Proxy.Close, called by a reload or at shutdown.
Close ==
  /\ client # 0
  /\ StopReal
  /\ UNCHANGED <<clientVars, callVars, pipeVars>>

\* Proxy.Status forgets a process that has exited.
Status ==
  /\ mu = NoOne
  /\ client # 0 /\ ~Alive(client)
  /\ client' = 0
  /\ timer' = TimerOff(client)
  /\ UNCHANGED <<clientVars, mu, spawned, proc, callVars, pipeVars>>

\* The idle timer fires and closes the process; it takes neither Proxy.mu nor
\* callMu.
IdleTimeout(r) ==
  /\ timer[r]
  /\ timer' = TimerOff(r)
  /\ proc' = Closing(r)
  /\ UNCHANGED <<clientVars, mu, client, spawned, callVars, pipeVars>>

\* waitLoop: the process ends, by itself, told to, or killed.  Wait closes its
\* stdout, and what was not read from it yet may be lost.
RealExits(r) ==
  /\ Alive(r)
  /\ proc' = [proc EXCEPT ![r] = "exited"]
  /\ \E read \in 0..Len(stdout[r]) : stdout' = [stdout EXCEPT ![r] = SubSeq(@, 1, read)]
  /\ inbox' = [inbox EXCEPT ![r] = {}]
  /\ UNCHANGED <<clientVars, mu, client, spawned, timer, callMu, nextID, responses, loop, acked>>

Answer(r) ==
  /\ Alive(r)
  /\ \E i \in inbox[r] :
       /\ inbox' = [inbox EXCEPT ![r] = @ \ {i}]
       /\ stdout' = [stdout EXCEPT ![r] = Append(@, i)]
  /\ UNCHANGED <<clientVars, lifeVars, callMu, nextID, responses, loop, acked>>

\* Wrong on purpose: the channel is taken to have room.
PassOnUnbounded(r) ==
  /\ loop[r] = 0
  /\ stdout[r] # <<>>
  /\ stdout' = [stdout EXCEPT ![r] = Tail(@)]
  /\ responses' = [responses EXCEPT ![r] = Append(@, Head(stdout[r]))]
  /\ loop' = [loop EXCEPT ![r] = Head(stdout[r])]
  /\ UNCHANGED <<clientVars, lifeVars, callVars, acked>>

\* readLoop: pass a response on, then wait for its ack.
PassOn(r) ==
  /\ loop[r] = 0
  /\ stdout[r] # <<>>
  /\ Len(responses[r]) < ResponseCap
  /\ stdout' = [stdout EXCEPT ![r] = Tail(@)]
  /\ responses' = [responses EXCEPT ![r] = Append(@, Head(stdout[r]))]
  /\ loop' = [loop EXCEPT ![r] = Head(stdout[r])]
  /\ UNCHANGED <<clientVars, lifeVars, callVars, acked>>

AckArrives(r) ==
  /\ loop[r] # 0
  /\ loop[r] \in acked[r]
  /\ loop' = [loop EXCEPT ![r] = 0]
  /\ UNCHANGED <<clientVars, lifeVars, callVars, stdout, responses, acked>>

\* readLoop gives up on the ack after five seconds and reads on, or after done
\* is closed and returns.
AckGivenUp(r) ==
  /\ loop[r] # 0
  /\ loop' = [loop EXCEPT ![r] = 0]
  /\ stdout' = IF proc[r] = "exited" THEN [stdout EXCEPT ![r] = <<>>] ELSE stdout
  /\ UNCHANGED <<clientVars, lifeVars, callVars, responses, acked>>

ClientStep(c) ==
  \/ Request(c) \/ UseReal(c) \/ SpawnReal(c) \/ SpawnFails(c) \/ StartDone(c) \/ StartFails(c)
  \/ Send(c) \/ Notify(c) \/ TakeOwn(c) \/ DropStale(c) \/ CallFails(c) \/ Reply(c) \/ Leave(c)

RealStep(r) ==
  \/ IdleTimeout(r) \/ RealExits(r) \/ Answer(r)
  \/ PassOn(r) \/ AckArrives(r) \/ AckGivenUp(r)

Next ==
  \/ \E c \in Clients : ClientStep(c)
  \/ \E r \in Reals : RealStep(r)
  \/ Close
  \/ Status

Spec == Init /\ [][Next]_vars

\* Go's mutexes hand a waiting goroutine the lock in the end; the call and
\* startup timeouts end every wait for the real server; a client reads its
\* replies.  Clients need not send, and real servers need not answer.
Acquire(c)  == UseReal(c) \/ SpawnReal(c) \/ SpawnFails(c) \/ Send(c)
Progress(c) == \/ StartDone(c) \/ StartFails(c)
               \/ TakeOwn(c) \/ CallFails(c) \/ Reply(c)

FairSpec == Spec /\ \A c \in Clients : SF_vars(Acquire(c)) /\ WF_vars(Progress(c))

-----------------------------------------------------------------------------
(* Properties                                                              *)

\* The response of id i of process r that client c is about to be given.
Holds(c, r, i) == pc[c] = "write" /\ got[c] # 0 /\ on[c] = r /\ got[c] = i

\* A client is given the response to its own request: the one with the id its
\* call took, which no other client holds, however late the answers to calls
\* that timed out before it arrive (realClient.call).
ReplyIsOwn ==
  \A c \in Clients :
    pc[c] = "write" /\ got[c] # 0 =>
      /\ got[c] = id[c]
      /\ \A d \in Clients \ {c} : ~Holds(d, on[c], got[c])

\* A response has one owner: a slot of the responses channel, or the client
\* that took it; its ack channel is closed by that owner alone, so it is never
\* closed twice, which would panic (realClient.call, Proxy.Run's afterWrite).
AckHasOneOwner ==
  \A r \in Reals :
    LET queue == responses[r] IN
    /\ \A j, k \in DOMAIN queue : queue[j] = queue[k] => j = k
    /\ \A k \in DOMAIN queue :
         /\ queue[k] \notin acked[r]
         /\ \A c \in Clients : ~Holds(c, r, queue[k])
    /\ \A c \in Clients, i \in acked[r] : ~Holds(c, r, i)

\* A real process that has not been told to stop is the proxy's current one,
\* with its idle timer running, or the one a client is starting: none is lost,
\* and at most one serves (ensureStdioReal, startReal, close).
RunningIsManaged ==
  \A r \in Reals :
    proc[r] = "up" =>
      \/ r = client /\ timer[r]
      \/ \E c \in Clients : mu = c /\ pc[c] = "start" /\ on[c] = r /\ client = 0

\* The proxy implements the contract of CallContract: a request reaches a real
\* process once at most, although the proxy may start another one behind it, and an
\* answer is taken out of the pipe and the channel by one client, whose own it is.
PhaseOf(c) ==
  IF pc[c] \in {"ensure", "start", "queue"} THEN "asked"
  ELSE IF pc[c] = "wait" THEN "passed"
  ELSE IF pc[c] # "write" THEN pc[c]
  ELSE IF got[c] = 0 THEN "failed" ELSE "answered"
NoCall    == <<0, 0>>
CallOf(c) == IF PhaseOf(c) \in {"passed", "answered"} THEN <<on[c], id[c]>> ELSE NoCall

CallsOf(ids) == UNION {{<<r, i>> : i \in ids[r]} : r \in Reals}
Answered(r)  == Range(stdout[r]) \cup Range(responses[r])

Promise == INSTANCE CallContract WITH
  Servers <- Reals,
  phase   <- [c \in Clients |-> PhaseOf(c)],
  call    <- [c \in Clients |-> CallOf(c)],
  count   <- nextID,
  pending <- CallsOf(inbox),
  answers <- CallsOf([r \in Reals |-> Answered(r)])

KeepsCallContract == Promise!Contract

\* Every forwarded request is answered, by the real server's response or by an
\* error, or its client is gone (Proxy.Run, call and startup timeouts).
RequestIsAnswered ==
  \A c \in Clients : pc[c] = "ensure" ~> pc[c] \in {"idle", "gone"}

=============================================================================
