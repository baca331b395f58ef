---------------------------- MODULE HttpUpstream ----------------------------
(***************************************************************************)
(* One proxy over a remote MCP server: ensureHTTPReal under Proxy.mu       *)
(* (internal/wrapper/proxy.go), the native backend with its streamable     *)
(* POSTs (proxy_http.go), and the backend that wraps a session of the Go   *)
(* SDK (proxy_http_sdk.go).  The SSE transport that proxy_http.go still    *)
(* holds is left out: LoadConfig refuses every configuration that asks for *)
(* it (config.go).                                                         *)
(*                                                                         *)
(* Backends are numbered in the order they are made.  A context's deadline *)
(* is a step that may come at any moment.  The remote server and the SDK   *)
(* are not under src/.  Notifications of the server are in ToolsCache.     *)
(***************************************************************************)
EXTENDS Naturals, Sequences

CONSTANTS
  Callers,        \* sessions that send requests and notifications
  NoOne,          \* the holder of a free mutex
  MaxBackends,    \* bound: backends started, of which a message takes one at most
  MaxRequests     \* bound: MaxRequests[c] messages are forwarded by caller c

ASSUME NoOneAssumption == NoOne \notin Callers
ASSUME BoundsAssumption == MaxBackends \in Nat /\ MaxRequests \in [Callers -> Nat]

\* UpstreamProtocolMode and UseSDKHTTPBackend of a Config with a URL.
Kinds    == {"streamable", "stateless", "sdk"}
Backends == 1..MaxBackends
Jobs     == {"initialize", "initialized", "request", "notify"}

VARIABLES
  kind,       \* which backend the proxy's configuration selects
  orderly,    \* the server puts only the answer to a POST's own request in a JSON body
  pc,         \* pc[c]: where caller c is
  sent,       \* sent[c]: messages c has forwarded
  want,       \* want[c]: the message c forwards, a request or a notification
  doing,      \* doing[c]: the message c's backend is sending for it
  on,         \* on[c]: the backend it uses
  id,         \* id[c]: the JSON-RPC id of its call
  got,        \* got[c]: the response it has been given
  mu,         \* holder of Proxy.mu across a start
  client,     \* Proxy.client, 0 for nil
  started,    \* backends made so far
  closed,     \* closed[b]: close() was called
  done,       \* done[b]: the SDK session has ended
  timer,      \* timer[b]: the idle timer is armed
  callMu,     \* callMu[b]: holder of realHTTPClient.callMu
  nextID,     \* nextID[b]: last JSON-RPC id used
  asked,      \* asked[b]: calls the server has received and not answered
  body,       \* body[c]: content type of the reply to c's POST, none before it comes
  stream      \* stream[c]: responses in that reply which were not read yet

callVars  == <<pc, sent, want, doing, on, id, got>>
proxyVars == <<mu, client, started>>
backVars  == <<closed, done, timer, callMu, nextID>>
netVars   == <<asked, body, stream>>
vars      == <<kind, orderly, callVars, proxyVars, backVars, netVars>>

\* A caller reads (idle), wants Proxy.mu (ensure), connects an SDK session,
\* has started a backend (publish), wants callMu (queue), posts, waits for the
\* reply, writes it to its client, or is about to be given an error (failed).
Phases == {"idle", "ensure", "connect", "publish", "queue", "post", "wait", "write",
           "failed"}

\* The response to message n of caller by, answering JSON-RPC id i.
Reply(i, by, n) == [id |-> i, by |-> by, n |-> n]
NoReply         == Reply(0, NoOne, 0)
Replies         == [id : Nat, by : Callers \cup {NoOne}, n : Nat]

TypeOK ==
  /\ kind \in Kinds /\ orderly \in BOOLEAN
  /\ pc \in [Callers -> Phases]
  /\ sent \in [Callers -> Nat]
  /\ want \in [Callers -> {"request", "notify"}]
  /\ doing \in [Callers -> Jobs]
  /\ on \in [Callers -> 0..MaxBackends]
  /\ id \in [Callers -> Nat]
  /\ got \in [Callers -> Replies]
  /\ mu \in Callers \cup {NoOne}
  /\ client \in 0..started /\ started \in 0..MaxBackends
  /\ closed \in [Backends -> BOOLEAN]
  /\ done \in [Backends -> BOOLEAN]
  /\ timer \in [Backends -> BOOLEAN]
  /\ callMu \in [Backends -> Callers \cup {NoOne}]
  /\ nextID \in [Backends -> Nat]
  /\ asked \in [Backends -> SUBSET Replies]
  /\ body \in [Callers -> {"none", "events", "json"}]
  /\ stream \in [Callers -> Seq(Replies)]

Init ==
  /\ kind \in Kinds /\ orderly \in BOOLEAN
  /\ pc = [c \in Callers |-> "idle"]
  /\ sent = [c \in Callers |-> 0]
  /\ want = [c \in Callers |-> "request"]
  /\ doing = [c \in Callers |-> "request"]
  /\ on = [c \in Callers |-> 0]
  /\ id = [c \in Callers |-> 0]
  /\ got = [c \in Callers |-> NoReply]
  /\ mu = NoOne
  /\ client = 0
  /\ started = 0
  /\ closed = [b \in Backends |-> FALSE]
  /\ done = [b \in Backends |-> FALSE]
  /\ timer = [b \in Backends |-> FALSE]
  /\ callMu = [b \in Backends |-> NoOne]
  /\ nextID = [b \in Backends |-> 0]
  /\ asked = [b \in Backends |-> {}]
  /\ body = [c \in Callers |-> "none"]
  /\ stream = [c \in Callers |-> <<>>]

Native      == kind # "sdk"
IsCall(j)   == j \in {"initialize", "request"}
Starting(c) == doing[c] \in {"initialize", "initialized"}
Goto(c, phase) == pc' = [pc EXCEPT ![c] = phase]

\* Native backends are alive until closed; an SDK backend until its session has
\* ended, which is after it was closed.
Alive(b) == IF Native THEN ~closed[b] ELSE ~done[b]
HasAlive == client # 0 /\ Alive(client)

\* Plausible bug: touch arms the timer of a closed native backend again.
TouchedAlways(b) == [timer EXCEPT ![b] = TRUE]

\* touch: arms the idle timer; a closed native backend stays as it is.
Touched(b) == [timer EXCEPT ![b] = @ \/ ~closed[b] \/ ~Native]

\* close() of either backend; POSTs that are under way are not interrupted.
CloseBackend(b) ==
  /\ closed' = [closed EXCEPT ![b] = TRUE]
  /\ timer' = IF closed[b] THEN timer ELSE [timer EXCEPT ![b] = FALSE]

\* call begins by taking callMu, sendNotification by its POST.
Begin(c, job) ==
  /\ doing' = [doing EXCEPT ![c] = job]
  /\ Goto(c, IF IsCall(job) THEN "queue" ELSE "post")

-----------------------------------------------------------------------------
(* ensureHTTPReal                                                          *)

\* A forwarded request, or a client notification, is read by Proxy.Run.
Forward(c) ==
  /\ pc[c] = "idle"
  /\ sent[c] < MaxRequests[c]
  /\ sent' = [sent EXCEPT ![c] = @ + 1]
  /\ \E j \in {"request", "notify"} : want' = [want EXCEPT ![c] = j]
  /\ got' = [got EXCEPT ![c] = NoReply]
  /\ Goto(c, "ensure")
  /\ UNCHANGED <<kind, orderly, doing, on, id, proxyVars, backVars, netVars>>

UseBackend(c) ==
  /\ pc[c] = "ensure"
  /\ mu = NoOne
  /\ HasAlive
  /\ timer' = Touched(client)
  /\ on' = [on EXCEPT ![c] = client]
  /\ Begin(c, want[c])
  /\ UNCHANGED <<kind, orderly, sent, want, id, got, proxyVars, closed, done, callMu,
                 nextID, netVars>>

\* A native backend goes on with initialize, a stateless one skips it, the SDK
\* connects.
AfterMaking == IF kind = "sdk" THEN "connect"
               ELSE IF kind = "stateless" THEN "publish" ELSE "queue"

\* Plausible bug: the handshake takes the place of the message it is made for.
StartForgetting(c) ==
  /\ pc[c] = "ensure"
  /\ mu = NoOne
  /\ ~HasAlive
  /\ started < MaxBackends
  /\ IF client = 0 THEN UNCHANGED <<closed, timer>> ELSE CloseBackend(client)
  /\ client' = 0
  /\ started' = started + 1
  /\ mu' = c
  /\ on' = [on EXCEPT ![c] = started + 1]
  /\ doing' = [doing EXCEPT ![c] = "initialize"]
  /\ want' = [want EXCEPT ![c] = "initialize"]
  /\ Goto(c, AfterMaking)
  /\ UNCHANGED <<kind, orderly, sent, id, got, done, callMu, nextID, netVars>>

\* The old backend, if any, is closed and a new one is made.
StartBackend(c) ==
  /\ pc[c] = "ensure"
  /\ mu = NoOne
  /\ ~HasAlive
  /\ started < MaxBackends
  /\ IF client = 0 THEN UNCHANGED <<closed, timer>> ELSE CloseBackend(client)
  /\ client' = 0
  /\ started' = started + 1
  /\ mu' = c
  /\ on' = [on EXCEPT ![c] = started + 1]
  /\ doing' = [doing EXCEPT ![c] = "initialize"]
  /\ Goto(c, AfterMaking)
  /\ UNCHANGED <<kind, orderly, sent, want, id, got, done, callMu, nextID, netVars>>

\* client.Connect of the SDK succeeds, or fails.
Connect(c) ==
  /\ pc[c] = "connect"
  /\ \/ Goto(c, "publish")
     \/ Goto(c, "failed")
  /\ UNCHANGED <<kind, orderly, sent, want, doing, on, id, got, proxyVars, backVars,
                 netVars>>

\* The start returns: touch, Proxy.client, and Proxy.mu is free again.
Publish(c) ==
  /\ pc[c] = "publish"
  /\ timer' = Touched(on[c])
  /\ client' = on[c]
  /\ mu' = NoOne
  /\ Begin(c, want[c])
  /\ UNCHANGED <<kind, orderly, sent, want, on, id, got, started, closed, done, callMu,
                 nextID, netVars>>

-----------------------------------------------------------------------------
(* call and sendNotification                                               *)

\* call: native calls of one backend are serialised by callMu; the POST to come
\* is a new one, whose reply is empty so far.
BeginCall(c) ==
  /\ pc[c] = "queue"
  /\ callMu[on[c]] = NoOne
  /\ callMu' = IF Native THEN [callMu EXCEPT ![on[c]] = c] ELSE callMu
  /\ body' = [body EXCEPT ![c] = "none"]
  /\ stream' = [stream EXCEPT ![c] = <<>>]
  /\ IF closed[on[c]]
     THEN Goto(c, "failed") /\ UNCHANGED <<nextID, id>>
     ELSE /\ nextID' = [nextID EXCEPT ![on[c]] = @ + 1]
          /\ id' = [id EXCEPT ![c] = nextID[on[c]] + 1]
          /\ Goto(c, "post")
  /\ UNCHANGED <<kind, orderly, sent, want, doing, on, got, proxyVars, closed, done, timer,
                 asked>>

Message(c) == Reply(id[c], c, IF Starting(c) THEN 0 ELSE sent[c])

\* The server receives the POST of a call (callStreamableHTTP), or the SDK is
\* called.
PostCall(c) ==
  /\ pc[c] = "post"
  /\ IsCall(doing[c])
  /\ asked' = IF Native THEN [asked EXCEPT ![on[c]] = @ \cup {Message(c)}] ELSE asked
  /\ Goto(c, "wait")
  /\ UNCHANGED <<kind, orderly, sent, want, doing, on, id, got, proxyVars, backVars, body,
                 stream>>

\* A POST that the server, the network or the deadline refuses.
PostFails(c) ==
  /\ pc[c] = "post"
  /\ Goto(c, "failed")
  /\ UNCHANGED <<kind, orderly, sent, want, doing, on, id, got, proxyVars, backVars,
                 netVars>>

\* The POST of a notification, whose context is Background, is answered; the SDK
\* backend refuses every notification that reaches it.
PostNotification(c) ==
  /\ pc[c] = "post"
  /\ ~IsCall(doing[c])
  /\ Native
  /\ timer' = Touched(on[c])
  /\ Goto(c, IF doing[c] = "initialized" THEN "publish" ELSE "idle")
  /\ UNCHANGED <<kind, orderly, sent, want, doing, on, id, got, proxyVars, closed, done,
                 callMu, nextID, netVars>>

\* The call returns response r: callMu is released, touch; initialize goes on
\* with its notification, a request's response is written.
Answered(c, r) ==
  /\ got' = [got EXCEPT ![c] = r]
  /\ callMu' = IF Native THEN [callMu EXCEPT ![on[c]] = NoOne] ELSE callMu
  /\ timer' = Touched(on[c])
  /\ IF doing[c] = "initialize"
     THEN Begin(c, "initialized")
     ELSE Goto(c, "write") /\ UNCHANGED doing

\* Plausible bug: the first response of an event stream is taken for the call's.
ReadAnyEvent(c) ==
  /\ pc[c] = "wait"
  /\ body[c] = "events" /\ stream[c] # <<>>
  /\ Answered(c, Head(stream[c]))
  /\ stream' = [stream EXCEPT ![c] = Tail(@)]
  /\ UNCHANGED <<kind, orderly, sent, want, on, id, proxyVars, closed, done, nextID,
                 asked, body>>

\* readStreamableSSEResponse: a response with another id is dropped.
ReadEvent(c) ==
  /\ pc[c] = "wait"
  /\ body[c] = "events" /\ stream[c] # <<>>
  /\ IF Head(stream[c]).id = id[c]
     THEN Answered(c, Head(stream[c]))
     ELSE UNCHANGED <<pc, doing, got, callMu, timer>>
  /\ stream' = [stream EXCEPT ![c] = Tail(@)]
  /\ UNCHANGED <<kind, orderly, sent, want, on, id, proxyVars, closed, done, nextID,
                 asked, body>>

\* A JSON body is one response, and it is the call's whatever its id.
ReadJson(c) ==
  /\ pc[c] = "wait"
  /\ body[c] = "json" /\ stream[c] # <<>>
  /\ Answered(c, Head(stream[c]))
  /\ stream' = [stream EXCEPT ![c] = Tail(@)]
  /\ UNCHANGED <<kind, orderly, sent, want, on, id, proxyVars, closed, done, nextID,
                 asked, body>>

\* The SDK matches responses to calls itself; a method it has no call for is
\* answered by callTyped, with an error that is a response.
SdkAnswers(c) ==
  /\ pc[c] = "wait"
  /\ kind = "sdk"
  /\ Answered(c, Message(c))
  /\ UNCHANGED <<kind, orderly, sent, want, on, id, proxyVars, closed, done, nextID,
                 netVars>>

\* The call's deadline passes, its body ends or breaks off, the status is not
\* 2xx, or the SDK's session ends.
WaitEnds(c) ==
  /\ pc[c] = "wait"
  /\ Goto(c, "failed")
  /\ UNCHANGED <<kind, orderly, sent, want, doing, on, id, got, proxyVars, backVars,
                 netVars>>

\* Plausible bug: callMu is released only when the call succeeds.
FailLocked(c) ==
  /\ pc[c] = "failed"
  /\ IF Starting(c)
     THEN CloseBackend(on[c]) /\ mu' = NoOne
     ELSE UNCHANGED <<closed, timer, mu>>
  /\ Goto(c, "idle")
  /\ UNCHANGED <<kind, orderly, sent, want, doing, on, id, got, client, started, done,
                 callMu, nextID, netVars>>

\* Plausible bug: a start that fails leaves the backend as it is.
FailOpen(c) ==
  /\ pc[c] = "failed"
  /\ callMu' = [callMu EXCEPT ![on[c]] = IF @ = c THEN NoOne ELSE @]
  /\ mu' = IF Starting(c) THEN NoOne ELSE mu
  /\ Goto(c, "idle")
  /\ UNCHANGED <<kind, orderly, sent, want, doing, on, id, got, client, started, closed,
                 done, timer, nextID, netVars>>

\* An error returns: callMu is released, and a failed start closes the backend
\* it made and frees Proxy.mu.
Fail(c) ==
  /\ pc[c] = "failed"
  /\ callMu' = [callMu EXCEPT ![on[c]] = IF @ = c THEN NoOne ELSE @]
  /\ IF Starting(c)
     THEN CloseBackend(on[c]) /\ mu' = NoOne
     ELSE UNCHANGED <<closed, timer, mu>>
  /\ Goto(c, "idle")
  /\ UNCHANGED <<kind, orderly, sent, want, doing, on, id, got, client, started, done,
                 nextID, netVars>>

\* The response has been written to its client; there is nothing to release.
Write(c) ==
  /\ pc[c] = "write"
  /\ Goto(c, "idle")
  /\ UNCHANGED <<kind, orderly, sent, want, doing, on, id, got, proxyVars, backVars,
                 netVars>>

-----------------------------------------------------------------------------
(* Timers, the SDK's session, and the owner of the proxy                   *)

\* The idle timer closes an SDK backend; a native one has only an SSE connection
\* to close, and there is none.
IdleTimeout(b) ==
  /\ timer[b]
  /\ timer' = [timer EXCEPT ![b] = FALSE]
  /\ closed' = IF Native THEN closed ELSE [closed EXCEPT ![b] = TRUE]
  /\ UNCHANGED <<kind, orderly, callVars, proxyVars, done, callMu, nextID, netVars>>

\* The SDK session ends, closed by the wrapper or by the server.
SessionEnds(b) ==
  /\ kind = "sdk"
  /\ b <= started /\ ~done[b]
  /\ ~ \E c \in Callers : pc[c] = "connect" /\ on[c] = b
  /\ done' = [done EXCEPT ![b] = TRUE]
  /\ UNCHANGED <<kind, orderly, callVars, proxyVars, closed, timer, callMu, nextID,
                 netVars>>

\* stopReal: the last session has left, or the daemon reloads.
Close ==
  /\ mu = NoOne
  /\ client # 0
  /\ CloseBackend(client)
  /\ client' = 0
  /\ UNCHANGED <<kind, orderly, callVars, mu, started, done, callMu, nextID, netVars>>

\* Proxy.Status drops a backend that is no longer alive.
Status ==
  /\ mu = NoOne
  /\ client # 0 /\ ~Alive(client)
  /\ CloseBackend(client)
  /\ client' = 0
  /\ UNCHANGED <<kind, orderly, callVars, mu, started, done, callMu, nextID, netVars>>

-----------------------------------------------------------------------------
(* The remote server                                                       *)

\* It writes a response it owes into the reply to a POST that waits: as an event
\* of a stream, which may carry answers to other calls first ...
AnswerEvent(c, r) ==
  /\ body[c] # "json"
  /\ body' = [body EXCEPT ![c] = "events"]
  /\ stream' = [stream EXCEPT ![c] = Append(@, r)]

\* ... or as the whole of a JSON body.
AnswerJson(c, r) ==
  /\ body[c] = "none"
  /\ orderly => r = Message(c)
  /\ body' = [body EXCEPT ![c] = "json"]
  /\ stream' = [stream EXCEPT ![c] = <<r>>]

\* Calls are answered in any order, or never.
Answer(b) ==
  \E r \in asked[b], c \in Callers :
    /\ pc[c] = "wait" /\ on[c] = b
    /\ AnswerEvent(c, r) \/ AnswerJson(c, r)
    /\ asked' = [asked EXCEPT ![b] = @ \ {r}]
    /\ UNCHANGED <<kind, orderly, callVars, proxyVars, backVars>>

Ensure(c) == UseBackend(c) \/ StartBackend(c)
Post(c)   == PostCall(c) \/ PostFails(c)
Await(c)  == ReadEvent(c) \/ ReadJson(c) \/ SdkAnswers(c) \/ WaitEnds(c)
Return(c) == Fail(c) \/ Write(c)

CallerStep(c) ==
  \/ Forward(c) \/ Ensure(c) \/ Connect(c) \/ Publish(c) \/ BeginCall(c)
  \/ Post(c) \/ PostNotification(c) \/ Await(c) \/ Return(c)
BackendStep(b) == IdleTimeout(b) \/ SessionEnds(b) \/ Answer(b)

Next ==
  \/ \E c \in Callers : CallerStep(c)
  \/ \E b \in Backends : BackendStep(b)
  \/ Close
  \/ Status

Spec == Init /\ [][Next]_vars

\* Go's mutexes hand a waiting goroutine the lock in the end; the startup and
\* call timeouts end every wait of a call; a client reads its replies.  Servers
\* need not answer a call, and nothing is assumed of the POST of a native
\* notification, which has no deadline.
Acquire(c)  == Ensure(c) \/ BeginCall(c)
Progress(c) == \/ Connect(c) \/ Publish(c) \/ Await(c) \/ Return(c)
               \/ (IsCall(doing[c]) \/ ~Native) /\ Post(c)

FairSpec == Spec /\ \A c \in Callers : SF_vars(Acquire(c)) /\ WF_vars(Progress(c))

-----------------------------------------------------------------------------
(* Properties                                                              *)

\* A client is given the server's answer to its own request, whatever stray or
\* late responses an event stream carries (readStreamableSSEResponse).  A JSON
\* body is not looked at for its id (callStreamableHTTP): there the answer is the
\* client's only as long as the server puts no other in the reply to its POST.
ReplyIsOwn ==
  \A c \in Callers :
    pc[c] = "write" /\ (orderly \/ body[c] # "json") =>
      got[c].by = c /\ got[c].n = sent[c] /\ got[c].n # 0

\* Nothing is left behind, through idle closes, failed starts and replacements:
\* a backend that was not closed is the proxy's current one or the one being
\* started, and a native backend that was closed has no idle timer running,
\* though a call that was under way touches it afterwards (ensureHTTPReal,
\* startHTTPReal, touch, close).
NothingLeaks ==
  /\ \A b \in 1..started :
       ~closed[b] => b = client \/ \E c \in Callers : mu = c /\ on[c] = b /\ client = 0
  /\ \A b \in Backends : closed[b] /\ timer[b] => ~Native

\* c's message waits for the POST of a native notification: its own, or that of
\* the handshake of a start, which is sent under Proxy.mu.
HeldBy(c, d) == pc[d] = "post" /\ Native /\
                (doing[d] = "initialized" \/ (d = c /\ doing[d] = "notify"))

\* Every forwarded message is done with in the end, though the server may never
\* answer and calls queue on callMu and starts on Proxy.mu, unless the POST of
\* its own notification, or that of a handshake, is held by the server for ever:
\* sendNotification has no deadline (forward, startHTTPReal, sendNotification).
MessageIsAnswered ==
  \A c \in Callers :
    (\A d \in Callers : []<>~HeldBy(c, d)) => (pc[c] = "ensure" ~> pc[c] = "idle")

=============================================================================
