------------------------- MODULE HttpUpstreamProofs -------------------------
(***************************************************************************)
(* Proofs about HttpUpstream, for any set of callers and any number of     *)
(* backends and messages.                                                  *)
(***************************************************************************)
EXTENDS HttpUpstream, TLAPS

-----------------------------------------------------------------------------
(* The inductive invariant.                                                *)

\* c is inside the start of a backend, from its making to its end.
InStart(c) == Starting(c) /\ pc[c] \notin {"idle", "ensure", "write"}

\* c is inside the locked part of a call; its request may be on its way.
InCall(c)  == IsCall(doing[c]) /\ pc[c] \in {"post", "wait", "failed"}
Calling(c) == IsCall(doing[c]) /\ pc[c] \in {"post", "wait"}

\* Which phases belong to which messages and kinds of backend.
Shape(c) ==
  /\ pc[c] # "idle" => sent[c] # 0
  /\ pc[c] \notin {"idle", "ensure"} => on[c] \in 1..started
  /\ pc[c] \in {"connect", "publish"} => Starting(c)
  /\ pc[c] \in {"queue", "wait"} => IsCall(doing[c])
  /\ pc[c] = "write" => doing[c] = "request"
  /\ pc[c] = "connect" => kind = "sdk"

\* Proxy.mu is held across a start, and then there is no client.
Mutex ==
  /\ \A c \in Callers : Shape(c) /\ (mu = c <=> InStart(c))
  /\ mu # NoOne => client = 0

\* callMu of a native backend is held by the caller inside a call on it.
CallMutex ==
  \A c \in Callers, b \in Backends : callMu[b] = c <=> Native /\ InCall(c) /\ on[c] = b

\* If r answers the id of c's call then it answers c's call.
Number(c) == IF Starting(c) THEN 0 ELSE sent[c]
Own(c, r) == r.id = id[c] => r.by = c /\ r.n = Number(c)

\* Responses that backend b's server still owes: their ids were taken, and the id
\* of a call in progress is on a response to that call only.
OnTheWay(b, r) ==
  r.id <= nextID[b] /\ \A c \in Callers : Calling(c) /\ on[c] = b => Own(c, r)

Mail ==
  /\ \A b \in Backends : \A r \in asked[b] : OnTheWay(b, r)
  /\ \A c \in Callers : Calling(c) => id[c] <= nextID[on[c]]

\* What the reply to a caller's POST holds.
Inbox(c) ==
  /\ Calling(c) /\ pc[c] # "wait" => stream[c] = <<>> /\ body[c] = "none"
  /\ pc[c] = "wait" =>
       /\ body[c] = "none" => stream[c] = <<>>
       /\ body[c] = "events" => \A j \in DOMAIN stream[c] : Own(c, stream[c][j])
       /\ body[c] = "json" /\ orderly =>
            \A j \in DOMAIN stream[c] : stream[c][j].by = c /\ stream[c][j].n = Number(c)
Inboxes == \A c \in Callers : Inbox(c)

Control == Mutex /\ CallMutex
Data    == Mail /\ Inboxes
Claims  == NothingLeaks /\ ReplyIsOwn
IInv    == TypeOK /\ Control /\ Data /\ Claims

-----------------------------------------------------------------------------
(* Responses and sequences of them.                                        *)

LEMMA ReplyFields ==
  ASSUME NEW r \in Replies
  PROVE  r.id \in Nat /\ r.by \in Callers \cup {NoOne} /\ r.n \in Nat
BY DEF Replies

LEMMA ReplyMade ==
  ASSUME NEW i \in Nat, NEW by \in Callers \cup {NoOne}, NEW n \in Nat
  PROVE  /\ Reply(i, by, n) \in Replies
         /\ Reply(i, by, n).id = i /\ Reply(i, by, n).by = by /\ Reply(i, by, n).n = n
BY DEF Reply, Replies

LEMMA NoReplyMade == NoReply \in Replies
BY ReplyMade DEF NoReply

LEMMA MessageMade ==
  ASSUME TypeOK, NEW c \in Callers
  PROVE  /\ Message(c) \in Replies
         /\ Message(c).id = id[c] /\ Message(c).by = c /\ Message(c).n = Number(c)
<1>1. id[c] \in Nat /\ sent[c] \in Nat
  BY DEF TypeOK
<1> QED
  BY <1>1, ReplyMade DEF Message, Number

LEMMA Appended ==
  ASSUME NEW S, NEW s \in Seq(S), NEW m \in S
  PROVE  /\ Append(s, m) \in Seq(S)
         /\ \A j \in DOMAIN Append(s, m) :
              Append(s, m)[j] = m \/ \E i \in DOMAIN s : Append(s, m)[j] = s[i]
OBVIOUS

LEMMA Beheaded ==
  ASSUME NEW S, NEW s \in Seq(S), s # <<>>
  PROVE  /\ Tail(s) \in Seq(S) /\ Head(s) \in S
         /\ 1 \in DOMAIN s /\ Head(s) = s[1]
         /\ \A j \in DOMAIN Tail(s) : \E i \in DOMAIN s : Tail(s)[j] = s[i]
<1>1. /\ Tail(s) \in Seq(S) /\ Head(s) \in S /\ Head(s) = s[1] /\ 1 \in DOMAIN s
      /\ \A j \in DOMAIN Tail(s) : j + 1 \in DOMAIN s /\ Tail(s)[j] = s[j + 1]
  OBVIOUS
<1> QED
  BY <1>1

LEMMA Single ==
  ASSUME NEW S, NEW m \in S
  PROVE  /\ <<m>> \in Seq(S)
         /\ \A j \in DOMAIN <<m>> : <<m>>[j] = m
OBVIOUS

-----------------------------------------------------------------------------
(* What a step has to show of the callers it moves, for each part of the   *)
(* invariant.                                                              *)

Stays(d)      == UNCHANGED <<pc[d], sent[d], doing[d], on[d], id[d], got[d]>>
OthersStay(c) == \A d \in Callers \ {c} : Stays(d)

LEMMA AllStay ==
  ASSUME UNCHANGED <<pc, sent, doing, on, id, got>>
  PROVE  \A d \in Callers : Stays(d)
BY DEF Stays

LEMMA StartedGrows ==
  ASSUME TypeOK
  PROVE  started \in Nat /\ started <= started
BY BoundsAssumption DEF TypeOK

LEMMA MutexKept ==
  ASSUME TypeOK, TypeOK', Mutex, kind' = kind, started <= started',
         \A d \in Callers :
           \/ Stays(d) /\ (mu' = d <=> mu = d)
           \/ Shape(d)' /\ (mu' = d <=> InStart(d)'),
         mu' # NoOne => client' = 0
  PROVE  Mutex'
<1>1. started \in Nat /\ started' \in Nat
  BY BoundsAssumption DEF TypeOK
<1>2. \A b : b \in 1..started => b \in 1..started'
  BY <1>1
<1>3. ASSUME NEW d \in Callers PROVE Shape(d)' /\ (mu' = d <=> InStart(d)')
  <2>1. CASE Stays(d) /\ (mu' = d <=> mu = d)
    BY <1>2, <2>1 DEF Mutex, Stays, Shape, InStart, Starting, IsCall
  <2> QED
    BY <2>1
<1> QED
  BY <1>3 DEF Mutex

LEMMA CallMutexKept ==
  ASSUME CallMutex, kind' = kind,
         \A d \in Callers, b \in Backends :
           \/ Stays(d) /\ (callMu'[b] = d <=> callMu[b] = d)
           \/ callMu'[b] = d <=> Native /\ InCall(d)' /\ on'[d] = b
  PROVE  CallMutex'
<1>1. ASSUME NEW d \in Callers, NEW b \in Backends
      PROVE  callMu'[b] = d <=> Native' /\ InCall(d)' /\ on'[d] = b
  <2>1. CASE Stays(d) /\ (callMu'[b] = d <=> callMu[b] = d)
    BY <2>1 DEF CallMutex, Stays, InCall, IsCall, Native
  <2>2. CASE callMu'[b] = d <=> Native /\ InCall(d)' /\ on'[d] = b
    BY <2>2 DEF Native
  <2> QED
    BY <2>1, <2>2
<1> QED
  BY <1>1 DEF CallMutex

\* The call of d, if it is in one after the step, is the one it was in.
SameCall(d) ==
  Calling(d)' => Calling(d) /\ on'[d] = on[d] /\ id'[d] = id[d] /\ Number(d)' = Number(d)

LEMMA StaysSame ==
  ASSUME NEW d, Stays(d)
  PROVE  SameCall(d)
BY DEF SameCall, Stays, Calling, IsCall, Number, Starting

\* ... or it has just begun, with an id that no response has.
NewCall(d) == /\ id'[d] <= nextID'[on'[d]]
              /\ \A r \in Replies : r.id <= nextID[on'[d]] => Own(d, r)'

LEMMA CallsOnBackends ==
  ASSUME TypeOK, Control
  PROVE  /\ \A d \in Callers : pc[d] \notin {"idle", "ensure"} =>
              on[d] \in Backends /\ on[d] \in 1..started /\ on[d] # 0
         /\ \A d \in Callers : Calling(d) => on[d] \in Backends
<1>1. started \in 0..MaxBackends /\ MaxBackends \in Nat
  BY BoundsAssumption DEF TypeOK
<1>2. \A b : b \in 1..started => b \in Backends /\ b # 0
  BY <1>1 DEF Backends
<1>3. \A d \in Callers : pc[d] \notin {"idle", "ensure"} => on[d] \in 1..started
  BY DEF Control, Mutex, Shape
<1>4. \A d \in Callers : Calling(d) => pc[d] \notin {"idle", "ensure"}
  BY DEF Calling
<1> QED
  BY <1>2, <1>3, <1>4

LEMMA MailKept ==
  ASSUME TypeOK, TypeOK', Control, Mail,
         \A b \in Backends : nextID[b] <= nextID'[b],
         \A b \in Backends : \A r \in asked'[b] : r \in asked[b] \/ OnTheWay(b, r)',
         \A d \in Callers : SameCall(d) \/ NewCall(d)
  PROVE  Mail'
<1>1. \A b \in Backends : nextID[b] \in Nat /\ nextID'[b] \in Nat
  BY DEF TypeOK
<1>2. ASSUME NEW b \in Backends, NEW r \in asked[b] PROVE OnTheWay(b, r)'
  <2>0. r \in Replies /\ OnTheWay(b, r)
    BY DEF TypeOK, Mail
  <2>1. r.id <= nextID'[b]
    <3>1. r.id \in Nat
      BY <2>0, ReplyFields
    <3> QED
      BY <1>1, <2>0, <3>1 DEF OnTheWay
  <2>2. ASSUME NEW d \in Callers, Calling(d)', on'[d] = b PROVE Own(d, r)'
    <3>1. CASE SameCall(d)
      BY <2>0, <2>2, <3>1 DEF SameCall, OnTheWay, Own
    <3>2. CASE NewCall(d)
      BY <2>0, <2>2, <3>2 DEF NewCall, OnTheWay
    <3> QED
      BY <3>1, <3>2
  <2> QED
    BY <2>1, <2>2 DEF OnTheWay
<1>3. ASSUME NEW d \in Callers, Calling(d)' PROVE id'[d] <= nextID'[on'[d]]
  <2>1. CASE SameCall(d)
    <3>1. id[d] \in Nat /\ on[d] \in Backends /\ id[d] <= nextID[on[d]]
      BY <1>3, <2>1, CallsOnBackends DEF SameCall, Mail, TypeOK
    <3> QED
      BY <1>1, <1>3, <2>1, <3>1 DEF SameCall
  <2> QED
    BY <2>1 DEF NewCall
<1> QED
  BY <1>2, <1>3 DEF Mail

LEMMA InboxKept ==
  ASSUME Inboxes, orderly' = orderly, NEW d \in Callers, Stays(d),
         body'[d] = body[d], stream'[d] = stream[d]
  PROVE  Inbox(d)'
BY DEF Inboxes, Inbox, Stays, Calling, IsCall, Own, Number, Starting

\* A step that moves no response keeps what is said of responses.
LEMMA DataKept ==
  ASSUME TypeOK, TypeOK', Control, Control', Data,
         UNCHANGED <<orderly, nextID, asked, body, stream>>,
         \A d \in Callers : SameCall(d) /\ (Calling(d)' => (pc'[d] = "wait" <=> pc[d] = "wait"))
  PROVE  Data'
<1>1. Mail'
  <2>1. \A b \in Backends : nextID[b] <= nextID'[b]
    BY DEF TypeOK
  <2> QED
    BY <2>1, MailKept DEF Data
<1>2. ASSUME NEW d \in Callers PROVE Inbox(d)'
  <2>1. Inbox(d) /\ SameCall(d)
    BY DEF Data, Inboxes
  <2>2. pc'[d] = "wait" => pc[d] = "wait" /\ Calling(d)'
    <3>1. pc'[d] = "wait" => IsCall(doing[d])'
      BY DEF Control, Mutex, Shape
    <3> QED
      BY <3>1 DEF Calling
  <2>3. Calling(d)' /\ pc'[d] # "wait" => body[d] = "none" /\ stream[d] = <<>>
    BY <2>1 DEF Inbox, SameCall
  <2>4. Calling(d)' => Number(d)' = Number(d) /\ \A r : Own(d, r)' <=> Own(d, r)
    BY <2>1 DEF SameCall, Own
  <2> QED
    BY <2>1, <2>2, <2>3, <2>4 DEF Inbox
<1> QED
  BY <1>1, <1>2 DEF Data, Inboxes

LEMMA ReplyKept ==
  ASSUME ReplyIsOwn, orderly' = orderly,
         \A d \in Callers :
           \/ Stays(d) /\ (pc[d] = "write" => body'[d] = body[d])
           \/ pc'[d] = "write" /\ (orderly \/ body'[d] # "json") =>
                got'[d].by = d /\ got'[d].n = sent'[d] /\ got'[d].n # 0
  PROVE  ReplyIsOwn'
BY DEF ReplyIsOwn, Stays

\* A step of a caller that is not waiting after it, and moves no response.
LEMMA QuietStep ==
  ASSUME IInv, TypeOK', Control', NEW c \in Callers, OthersStay(c),
         UNCHANGED <<orderly, nextID, asked, body, stream>>,
         SameCall(c), Calling(c)' => pc'[c] # "wait" /\ pc[c] # "wait",
         pc'[c] # "write"
  PROVE  Data' /\ ReplyIsOwn'
<1>0. TypeOK /\ Control /\ Data /\ ReplyIsOwn
  BY DEF IInv, Claims
<1>1. \A d \in Callers : SameCall(d) /\ (Calling(d)' => (pc'[d] = "wait" <=> pc[d] = "wait"))
  BY StaysSame DEF OthersStay, Stays
<1>2. Data'
  BY <1>0, <1>1, DataKept
<1>3. ReplyIsOwn'
  BY <1>0, ReplyKept DEF OthersStay
<1> QED
  BY <1>2, <1>3

\* touch arms no timer of a closed native backend.
LEMMA TouchedTypes ==
  ASSUME TypeOK, NEW b, timer' = Touched(b)
  PROVE  /\ timer' \in [Backends -> BOOLEAN]
         /\ \A a \in Backends : closed[a] /\ timer'[a] => timer[a] \/ ~Native
BY DEF TypeOK, Touched

\* A step that closes nothing and makes nothing leaves nothing behind.
LEMMA NoLeak ==
  ASSUME NothingLeaks, UNCHANGED <<kind, client, mu, started, closed>>,
         \A d \in Callers : mu = d => on'[d] = on[d],
         \A a \in Backends : closed[a] /\ timer'[a] => timer[a] \/ ~Native
  PROVE  NothingLeaks'
BY DEF NothingLeaks, Native

LEMMA CloseBackendKeeps ==
  ASSUME TypeOK, NEW b \in Backends, CloseBackend(b)
  PROVE  /\ closed' \in [Backends -> BOOLEAN] /\ timer' \in [Backends -> BOOLEAN]
         /\ closed'[b] /\ (timer'[b] => closed[b] /\ timer[b])
         /\ \A a \in Backends : a # b => closed'[a] = closed[a] /\ timer'[a] = timer[a]
BY DEF CloseBackend, TypeOK

-----------------------------------------------------------------------------
(* The steps of ensureHTTPReal.                                            *)

LEMMA ForwardKeeps ==
  ASSUME IInv, NEW c \in Callers, Forward(c)
  PROVE  IInv'
<1>0. TypeOK /\ Control /\ Mutex /\ CallMutex /\ NothingLeaks
  BY DEF IInv, Control, Claims
<1>1. TypeOK'
  <2>1. NoReply \in Replies /\ sent[c] + 1 \in Nat
    BY <1>0, NoReplyMade DEF TypeOK
  <2> QED
    BY <1>0, <2>1 DEF TypeOK, Forward, Goto, Phases, proxyVars, backVars, netVars
<1>2. /\ OthersStay(c) /\ pc[c] = "idle" /\ pc'[c] = "ensure" /\ sent'[c] # 0
      /\ UNCHANGED <<kind, orderly, doing, on, id>> /\ UNCHANGED <<mu, client, started>>
      /\ UNCHANGED <<closed, timer, callMu, nextID>> /\ UNCHANGED <<asked, body, stream>>
  BY <1>0 DEF Forward, Goto, OthersStay, Stays, TypeOK, proxyVars, backVars, netVars
<1>3. /\ ~Calling(c)' /\ ~InCall(c)' /\ ~InCall(c)
      /\ ~InStart(c)' /\ ~InStart(c) /\ Shape(c)'
  BY <1>2 DEF Calling, InCall, InStart, Shape
<1>4. Control'
  <2>1. Mutex'
    BY <1>0, <1>1, <1>2, <1>3, StartedGrows, MutexKept DEF OthersStay, Mutex
  <2>2. CallMutex'
    BY <1>0, <1>2, <1>3, CallMutexKept DEF OthersStay, CallMutex
  <2> QED
    BY <2>1, <2>2 DEF Control
<1>5. Data' /\ ReplyIsOwn'
  BY <1>1, <1>2, <1>3, <1>4, QuietStep DEF SameCall
<1>6. NothingLeaks'
  BY <1>0, <1>2, NoLeak
<1> QED
  BY <1>1, <1>4, <1>5, <1>6 DEF IInv, Claims

LEMMA UseBackendKeeps ==
  ASSUME IInv, NEW c \in Callers, UseBackend(c)
  PROVE  IInv'
<1>0. TypeOK /\ Control /\ Mutex /\ CallMutex /\ NothingLeaks
  BY DEF IInv, Control, Claims
<1>1. client \in 1..started /\ client \in Backends /\ client \in 0..MaxBackends
  BY <1>0, BoundsAssumption DEF UseBackend, HasAlive, TypeOK, Backends
<1>2. /\ timer' \in [Backends -> BOOLEAN]
      /\ \A a \in Backends : closed[a] /\ timer'[a] => timer[a] \/ ~Native
  BY <1>0, TouchedTypes DEF UseBackend
<1>3. TypeOK'
  BY <1>0, <1>1, <1>2
  DEF TypeOK, UseBackend, Begin, Goto, Phases, Jobs, proxyVars, netVars
<1>4. /\ OthersStay(c) /\ pc[c] = "ensure" /\ mu = NoOne
      /\ on'[c] = client /\ doing'[c] = want[c] /\ want[c] \in {"request", "notify"}
      /\ pc'[c] \in {"queue", "post"} /\ (pc'[c] = "queue" <=> IsCall(want[c]))
      /\ UNCHANGED <<kind, orderly, sent, id>> /\ UNCHANGED <<mu, client, started>>
      /\ UNCHANGED <<closed, callMu, nextID>> /\ UNCHANGED <<asked, body, stream>>
  BY <1>0 DEF UseBackend, Begin, Goto, OthersStay, Stays, TypeOK, proxyVars, netVars
<1>5. /\ ~Calling(c)' /\ ~InCall(c)' /\ ~InCall(c)
      /\ ~InStart(c)' /\ ~InStart(c) /\ Shape(c)'
  BY <1>0, <1>1, <1>4 DEF Calling, InCall, InStart, Starting, Shape, IsCall, Mutex
<1>6. Control'
  <2>1. Mutex'
    BY <1>0, <1>3, <1>4, <1>5, StartedGrows, MutexKept DEF OthersStay, Mutex
  <2>2. CallMutex'
    BY <1>0, <1>4, <1>5, CallMutexKept DEF OthersStay, CallMutex
  <2> QED
    BY <2>1, <2>2 DEF Control
<1>7. Data' /\ ReplyIsOwn'
  BY <1>3, <1>4, <1>5, <1>6, QuietStep DEF SameCall
<1>8. NothingLeaks'
  BY <1>0, <1>2, <1>4, NoOneAssumption, NoLeak
<1> QED
  BY <1>3, <1>6, <1>7, <1>8 DEF IInv, Claims

LEMMA StartBackendKeeps ==
  ASSUME IInv, NEW c \in Callers, StartBackend(c)
  PROVE  IInv'
<1>0. TypeOK /\ Control /\ Mutex /\ CallMutex /\ NothingLeaks
  BY DEF IInv, Control, Claims
<1>1. /\ started \in Nat /\ started + 1 \in Nat
      /\ started + 1 \in Backends /\ started + 1 \in 0..MaxBackends
      /\ \A b : b \in 1..(started + 1) => b = started + 1 \/ b \in 1..started
      /\ 0 \in 0..(started + 1) /\ started + 1 \in 1..(started + 1)
      /\ client # 0 => client \in Backends
      /\ \A b \in 1..started : b \in Backends /\ b # 0
  BY <1>0, BoundsAssumption DEF StartBackend, TypeOK, Backends
<1>2. /\ closed' \in [Backends -> BOOLEAN] /\ timer' \in [Backends -> BOOLEAN]
      /\ client # 0 => closed'[client]
      /\ \A a \in Backends : /\ closed[a] => closed'[a]
                             /\ timer'[a] => timer[a]
                             /\ closed'[a] /\ timer'[a] => closed[a]
  <2>1. CASE client = 0
    BY <1>0, <2>1 DEF StartBackend, TypeOK
  <2>2. CASE client # 0
    <3>1. client \in Backends /\ CloseBackend(client)
      BY <1>1, <2>2 DEF StartBackend
    <3> QED
      BY <1>0, <3>1, CloseBackendKeeps
  <2> QED
    BY <2>1, <2>2
<1>3. /\ OthersStay(c) /\ pc[c] = "ensure" /\ mu = NoOne /\ mu' = c /\ client' = 0
      /\ started' = started + 1 /\ on'[c] = started + 1 /\ doing'[c] = "initialize"
      /\ pc'[c] = AfterMaking
      /\ UNCHANGED <<kind, orderly, sent, id>> /\ UNCHANGED <<callMu, nextID>>
      /\ UNCHANGED <<asked, body, stream>>
  BY <1>0 DEF StartBackend, Goto, OthersStay, Stays, TypeOK, netVars
<1>4. AfterMaking \in {"connect", "publish", "queue"} /\ (AfterMaking = "connect" => kind = "sdk")
  BY DEF AfterMaking
<1>5. TypeOK'
  <2>1. /\ pc' \in [Callers -> Phases] /\ doing' \in [Callers -> Jobs]
        /\ on' \in [Callers -> 0..MaxBackends]
    BY <1>0, <1>1, <1>4 DEF TypeOK, StartBackend, Goto, Phases, Jobs
  <2>2. client' \in 0..started' /\ started' \in 0..MaxBackends /\ mu' \in Callers \cup {NoOne}
    BY <1>1, <1>3
  <2>3. UNCHANGED <<want, got, done>>
    BY DEF StartBackend
  <2> QED
    BY <1>0, <1>2, <1>3, <2>1, <2>2, <2>3 DEF TypeOK
<1>6. /\ ~Calling(c)' /\ ~InCall(c)' /\ ~InCall(c)
      /\ InStart(c)' /\ Shape(c)'
  BY <1>0, <1>1, <1>3, <1>4 DEF Calling, InCall, InStart, Starting, Shape, IsCall, Mutex
<1>7. Control'
  <2>1. Mutex'
    <3>1. started <= started'
      BY <1>1, <1>3
    <3>2. \A d \in Callers \ {c} : mu' = d <=> mu = d
      BY <1>3, NoOneAssumption
    <3> QED
      BY <1>0, <1>3, <1>5, <1>6, <3>1, <3>2, MutexKept DEF OthersStay
  <2>2. CallMutex'
    BY <1>0, <1>3, <1>6, CallMutexKept DEF OthersStay, CallMutex
  <2> QED
    BY <2>1, <2>2 DEF Control
<1>8. Data' /\ ReplyIsOwn'
  BY <1>3, <1>4, <1>5, <1>6, <1>7, QuietStep DEF SameCall
<1>9. NothingLeaks'
  <2>1. ASSUME NEW b \in 1..started', ~closed'[b]
        PROVE  \E d \in Callers : mu' = d /\ on'[d] = b /\ client' = 0
    <3>1. CASE b = started + 1
      BY <1>3, <3>1
    <3>2. CASE b \in 1..started
      <4>1. b \in Backends /\ b # 0 /\ ~closed[b]
        BY <1>1, <1>2, <2>1, <3>2
      <4>2. b = client
        BY <1>0, <1>3, <3>2, <4>1, NoOneAssumption DEF NothingLeaks
      <4> QED
        BY <1>2, <2>1, <4>1, <4>2
    <3> QED
      BY <1>1, <1>3, <2>1, <3>1, <3>2
  <2>2. ASSUME NEW b \in Backends, closed'[b], timer'[b] PROVE ~Native'
    BY <1>0, <1>2, <1>3, <2>2 DEF NothingLeaks, Native
  <2> QED
    BY <1>3, <2>1, <2>2 DEF NothingLeaks
<1> QED
  BY <1>5, <1>7, <1>8, <1>9 DEF IInv, Claims

LEMMA ConnectKeeps ==
  ASSUME IInv, NEW c \in Callers, Connect(c)
  PROVE  IInv'
<1>0. TypeOK /\ Control /\ Mutex /\ CallMutex /\ NothingLeaks
  BY DEF IInv, Control, Claims
<1>1. TypeOK'
  BY <1>0 DEF TypeOK, Connect, Goto, Phases, proxyVars, backVars, netVars
<1>2. /\ OthersStay(c) /\ pc[c] = "connect" /\ pc'[c] \in {"publish", "failed"}
      /\ UNCHANGED <<kind, orderly, sent, doing, on, id>> /\ UNCHANGED <<mu, client, started>>
      /\ UNCHANGED <<closed, timer, callMu, nextID>> /\ UNCHANGED <<asked, body, stream>>
  BY <1>0 DEF Connect, Goto, OthersStay, Stays, TypeOK, proxyVars, backVars, netVars
<1>3. /\ kind = "sdk" /\ Starting(c) /\ ~Calling(c)' /\ ~Calling(c)
      /\ InStart(c)' /\ InStart(c) /\ Shape(c)'
  BY <1>0, <1>2 DEF Calling, InStart, Starting, Shape, Mutex
<1>4. Control'
  <2>1. Mutex'
    BY <1>0, <1>1, <1>2, <1>3, StartedGrows, MutexKept DEF OthersStay, Mutex
  <2>2. CallMutex'
    BY <1>0, <1>2, <1>3, CallMutexKept DEF OthersStay, CallMutex, Native
  <2> QED
    BY <2>1, <2>2 DEF Control
<1>5. Data' /\ ReplyIsOwn'
  BY <1>1, <1>2, <1>3, <1>4, QuietStep DEF SameCall
<1>6. NothingLeaks'
  BY <1>0, <1>2, NoLeak
<1> QED
  BY <1>1, <1>4, <1>5, <1>6 DEF IInv, Claims

LEMMA PublishKeeps ==
  ASSUME IInv, NEW c \in Callers, Publish(c)
  PROVE  IInv'
<1>0. TypeOK /\ Control /\ Mutex /\ CallMutex /\ NothingLeaks
  BY DEF IInv, Control, Claims
<1>1. /\ mu = c /\ client = 0 /\ pc[c] = "publish" /\ InStart(c)
      /\ on[c] \in 1..started /\ on[c] \in Backends
  BY <1>0, NoOneAssumption, CallsOnBackends DEF Publish, Mutex, Shape, InStart
<1>2. /\ timer' \in [Backends -> BOOLEAN]
      /\ \A a \in Backends : closed[a] /\ timer'[a] => timer[a] \/ ~Native
  BY <1>0, TouchedTypes DEF Publish
<1>3. TypeOK'
  <2>1. pc' \in [Callers -> Phases] /\ doing' \in [Callers -> Jobs]
    BY <1>0 DEF TypeOK, Publish, Begin, Goto, Phases, Jobs
  <2>2. client' \in 0..started /\ mu' \in Callers \cup {NoOne}
    BY <1>0, <1>1 DEF TypeOK, Publish
  <2>3. /\ UNCHANGED <<kind, orderly, sent, want, on, id, got, started, closed, done, callMu>>
        /\ UNCHANGED <<nextID, asked, body, stream>>
    BY DEF Publish, netVars
  <2> QED
    BY <1>0, <1>2, <2>1, <2>2, <2>3 DEF TypeOK
<1>4. /\ OthersStay(c) /\ mu' = NoOne /\ client' = on[c]
      /\ doing'[c] = want[c] /\ want[c] \in {"request", "notify"}
      /\ pc'[c] \in {"queue", "post"} /\ (pc'[c] = "queue" <=> IsCall(want[c]))
      /\ UNCHANGED <<kind, orderly, sent, on, id>> /\ UNCHANGED started
      /\ UNCHANGED <<closed, callMu, nextID>> /\ UNCHANGED <<asked, body, stream>>
  BY <1>0 DEF Publish, Begin, Goto, OthersStay, Stays, TypeOK, netVars
<1>5. /\ ~Calling(c)' /\ ~InCall(c)' /\ ~InCall(c)
      /\ ~InStart(c)' /\ Shape(c)'
  BY <1>0, <1>1, <1>4 DEF Calling, InCall, InStart, Starting, Shape, IsCall, Mutex
<1>6. Control'
  <2>1. Mutex'
    <3>1. mu' # c /\ \A d \in Callers \ {c} : mu' = d <=> mu = d
      BY <1>1, <1>4, NoOneAssumption
    <3> QED
      BY <1>0, <1>3, <1>4, <1>5, <3>1, StartedGrows, MutexKept DEF OthersStay
  <2>2. CallMutex'
    BY <1>0, <1>4, <1>5, CallMutexKept DEF OthersStay, CallMutex
  <2> QED
    BY <2>1, <2>2 DEF Control
<1>7. Data' /\ ReplyIsOwn'
  BY <1>3, <1>4, <1>5, <1>6, QuietStep DEF SameCall
<1>8. NothingLeaks'
  <2>1. \A b \in 1..started : ~closed[b] => b = on[c]
    BY <1>0, <1>1 DEF NothingLeaks
  <2> QED
    BY <1>0, <1>2, <1>4, <2>1 DEF NothingLeaks, Native
<1> QED
  BY <1>3, <1>6, <1>7, <1>8 DEF IInv, Claims

-----------------------------------------------------------------------------
(* The steps of a call and of a notification.                              *)

\* A call that has just begun has a new id and an empty reply.
LEMMA BeginCallKeeps ==
  ASSUME IInv, NEW c \in Callers, BeginCall(c)
  PROVE  IInv'
<1>0. TypeOK /\ Control /\ Mutex /\ CallMutex /\ Data /\ Claims
  BY DEF IInv, Control
<1>1. /\ on[c] \in Backends /\ on[c] \in 1..started /\ pc[c] = "queue" /\ IsCall(doing[c])
      /\ nextID[on[c]] \in Nat /\ callMu[on[c]] = NoOne
  BY <1>0, CallsOnBackends DEF BeginCall, Mutex, Shape, TypeOK
<1>2. TypeOK'
  <2>1. stream' \in [Callers -> Seq(Replies)] /\ body' \in [Callers -> {"none", "events", "json"}]
    <3>1. <<>> \in Seq(Replies)
      OBVIOUS
    <3> QED
      BY <1>0, <3>1 DEF TypeOK, BeginCall
  <2>2. nextID' \in [Backends -> Nat] /\ id' \in [Callers -> Nat]
    <3>1. nextID \in [Backends -> Nat] /\ id \in [Callers -> Nat] /\ nextID[on[c]] + 1 \in Nat
      BY <1>0, <1>1 DEF TypeOK
    <3>2. \/ UNCHANGED <<nextID, id>>
          \/ /\ nextID' = [nextID EXCEPT ![on[c]] = nextID[on[c]] + 1]
             /\ id' = [id EXCEPT ![c] = nextID[on[c]] + 1]
      BY DEF BeginCall
    <3> QED
      BY <1>1, <3>1, <3>2
  <2>3. callMu' \in [Backends -> Callers \cup {NoOne}] /\ pc' \in [Callers -> Phases]
    BY <1>0 DEF BeginCall, TypeOK, Goto, Phases
  <2> QED
    BY <1>0, <2>1, <2>2, <2>3 DEF TypeOK, BeginCall, proxyVars
<1>3. /\ OthersStay(c) /\ pc'[c] \in {"failed", "post"}
      /\ body'[c] = "none" /\ stream'[c] = <<>>
      /\ \A d \in Callers \ {c} : body'[d] = body[d] /\ stream'[d] = stream[d]
      /\ UNCHANGED <<kind, orderly, sent, doing, on>> /\ UNCHANGED <<mu, client, started>>
      /\ UNCHANGED <<closed, timer>> /\ UNCHANGED asked
  BY <1>0 DEF BeginCall, Goto, OthersStay, Stays, TypeOK, proxyVars
<1>4. /\ ~InCall(c) /\ InCall(c)' /\ (InStart(c)' <=> InStart(c)) /\ Shape(c)'
  BY <1>0, <1>1, <1>3 DEF InCall, InStart, Starting, Shape, IsCall, Mutex
<1>5. Control'
  <2>1. Mutex'
    BY <1>0, <1>2, <1>3, <1>4, StartedGrows, MutexKept DEF OthersStay, Mutex
  <2>2. CallMutex'
    <3>1. ASSUME NEW b \in Backends PROVE callMu'[b] = c <=> Native /\ InCall(c)' /\ on'[c] = b
      BY <1>0, <1>1, <1>3, <1>4 DEF BeginCall, CallMutex, TypeOK
    <3>2. ASSUME NEW b \in Backends, NEW d \in Callers \ {c}
          PROVE  callMu'[b] = d <=> callMu[b] = d
      BY <1>0, <1>1, NoOneAssumption DEF BeginCall, TypeOK
    <3> QED
      BY <1>0, <1>3, <3>1, <3>2, CallMutexKept DEF OthersStay
  <2> QED
    BY <2>1, <2>2 DEF Control
<1>6. Data'
  <2>1. \A b \in Backends : nextID[b] <= nextID'[b]
    <3>1. \A b \in Backends : nextID[b] \in Nat
      BY <1>0 DEF TypeOK
    <3>2. \A b \in Backends : nextID'[b] = nextID[b] \/ nextID'[b] = nextID[b] + 1
      BY <1>0 DEF BeginCall, TypeOK
    <3> QED
      BY <3>1, <3>2
  <2>2. SameCall(c) \/ NewCall(c)
    <3>1. CASE closed[on[c]]
      BY <1>0, <3>1 DEF BeginCall, Goto, TypeOK, SameCall, Calling
    <3>2. CASE ~closed[on[c]]
      <4>1. id'[c] = nextID[on[c]] + 1 /\ nextID'[on[c]] = nextID[on[c]] + 1 /\ on'[c] = on[c]
        BY <1>0, <1>1, <1>3, <3>2 DEF BeginCall, TypeOK
      <4>2. \A r \in Replies : r.id <= nextID[on[c]] => r.id # id'[c]
        BY <1>1, <4>1, ReplyFields
      <4> QED
        BY <1>1, <4>1, <4>2 DEF NewCall, Own
    <3> QED
      BY <3>1, <3>2
  <2>3. Mail'
    <3>1. \A d \in Callers : SameCall(d) \/ NewCall(d)
      BY <1>3, <2>2, StaysSame DEF OthersStay
    <3> QED
      BY <1>0, <1>2, <1>3, <2>1, <3>1, MailKept DEF Data
  <2>4. \A d \in Callers : Inbox(d)'
    <3>1. Inbox(c)'
      BY <1>3 DEF Inbox
    <3>2. \A d \in Callers \ {c} : Inbox(d)'
      BY <1>0, <1>3, InboxKept DEF OthersStay, Data
    <3> QED
      BY <3>1, <3>2
  <2> QED
    BY <2>3, <2>4 DEF Data, Inboxes
<1>7. Claims'
  <2>1. ReplyIsOwn'
    BY <1>0, <1>3, ReplyKept DEF Claims, OthersStay
  <2>2. NothingLeaks'
    BY <1>0, <1>3, NoLeak DEF Claims
  <2> QED
    BY <2>1, <2>2 DEF Claims
<1> QED
  BY <1>2, <1>5, <1>6, <1>7 DEF IInv

\* A step that gives a message up goes to the return of an error.
LEMMA GivenUpKeeps ==
  ASSUME IInv, NEW c \in Callers, pc[c] \in {"post", "wait"}, Goto(c, "failed"),
         UNCHANGED <<kind, orderly, sent, want, doing, on, id, got>>,
         UNCHANGED <<mu, client, started, closed, done, timer, callMu, nextID>>,
         UNCHANGED <<asked, body, stream>>
  PROVE  IInv'
<1>0. TypeOK /\ Control /\ Mutex /\ CallMutex /\ NothingLeaks
  BY DEF IInv, Control, Claims
<1>1. TypeOK'
  BY <1>0 DEF TypeOK, Goto, Phases
<1>2. OthersStay(c) /\ pc'[c] = "failed"
  BY <1>0 DEF Goto, OthersStay, Stays, TypeOK
<1>3. /\ (InCall(c)' <=> InCall(c)) /\ ~Calling(c)'
      /\ (InStart(c)' <=> InStart(c)) /\ Shape(c)'
  <2>1. pc[c] = "wait" => IsCall(doing[c])
    BY <1>0 DEF Mutex, Shape
  <2> QED
    BY <1>0, <1>2, <2>1 DEF Calling, InCall, InStart, Starting, Shape, IsCall, Mutex
<1>4. Control'
  <2>1. Mutex'
    BY <1>0, <1>1, <1>2, <1>3, StartedGrows, MutexKept DEF OthersStay, Mutex
  <2>2. CallMutex'
    BY <1>0, <1>2, <1>3, CallMutexKept DEF OthersStay, CallMutex
  <2> QED
    BY <2>1, <2>2 DEF Control
<1>5. Data' /\ ReplyIsOwn'
  BY <1>1, <1>2, <1>3, <1>4, QuietStep DEF SameCall
<1>6. NothingLeaks'
  BY <1>0, NoLeak
<1> QED
  BY <1>1, <1>4, <1>5, <1>6 DEF IInv, Claims

LEMMA PostFailsKeeps ==
  ASSUME IInv, NEW c \in Callers, PostFails(c)
  PROVE  IInv'
BY GivenUpKeeps DEF PostFails, proxyVars, backVars, netVars

LEMMA WaitEndsKeeps ==
  ASSUME IInv, NEW c \in Callers, WaitEnds(c)
  PROVE  IInv'
BY GivenUpKeeps DEF WaitEnds, proxyVars, backVars, netVars

\* The server is asked; callMu keeps every other caller out of the backend.
LEMMA PostCallKeeps ==
  ASSUME IInv, NEW c \in Callers, PostCall(c)
  PROVE  IInv'
<1>0. TypeOK /\ Control /\ Mutex /\ CallMutex /\ Data /\ Claims
  BY DEF IInv, Control
<1>1. /\ pc[c] = "post" /\ IsCall(doing[c]) /\ on[c] \in Backends /\ Calling(c)
      /\ Message(c) \in Replies /\ body[c] = "none" /\ stream[c] = <<>>
  BY <1>0, CallsOnBackends, MessageMade DEF PostCall, Calling, Data, Inboxes, Inbox
<1>2. asked' = IF Native THEN [asked EXCEPT ![on[c]] = @ \cup {Message(c)}] ELSE asked
  BY DEF PostCall
<1>3. TypeOK'
  <2>1. asked' \in [Backends -> SUBSET Replies]
    BY <1>0, <1>1, <1>2 DEF TypeOK
  <2> QED
    BY <1>0, <2>1 DEF TypeOK, PostCall, Goto, Phases, proxyVars, backVars
<1>4. /\ OthersStay(c) /\ pc'[c] = "wait"
      /\ UNCHANGED <<kind, orderly, sent, doing, on, id>> /\ UNCHANGED <<mu, client, started>>
      /\ UNCHANGED <<closed, timer, callMu, nextID>> /\ UNCHANGED <<body, stream>>
  BY <1>0 DEF PostCall, Goto, OthersStay, Stays, TypeOK, proxyVars, backVars
<1>5. /\ (InCall(c)' <=> InCall(c)) /\ (Calling(c)' <=> Calling(c))
      /\ (InStart(c)' <=> InStart(c)) /\ Shape(c)'
  BY <1>0, <1>1, <1>4 DEF Calling, InCall, InStart, Starting, Shape, IsCall, Mutex
<1>6. Control'
  <2>1. Mutex'
    BY <1>0, <1>3, <1>4, <1>5, StartedGrows, MutexKept DEF OthersStay, Mutex
  <2>2. CallMutex'
    BY <1>0, <1>4, <1>5, CallMutexKept DEF OthersStay, CallMutex
  <2> QED
    BY <2>1, <2>2 DEF Control
<1>7. SameCall(c)
  BY <1>4, <1>5 DEF SameCall, Number, Starting
<1>8. Data'
  <2>0. PICK m \in Replies, b0 \in Backends : m = Message(c) /\ b0 = on[c]
    BY <1>1
  <2>1. Native => OnTheWay(b0, m)'
    <3>1. m.id = id[c] /\ m.by = c /\ m.n = Number(c) /\ Number(c)' = Number(c)
      BY <1>0, <1>4, <2>0, MessageMade DEF Number, Starting
    <3>2. m.id <= nextID[b0]
      BY <1>0, <1>1, <2>0, <3>1 DEF Data, Mail
    <3>3. ASSUME Native, NEW d \in Callers, Calling(d)', on'[d] = b0 PROVE d = c
      <4>1. Native' /\ InCall(c)' /\ on'[c] = b0 /\ InCall(d)'
        BY <1>1, <1>4, <1>5, <2>0, <3>3 DEF Calling, InCall, Native
      <4>2. callMu'[b0] = c /\ callMu'[b0] = d
        BY <1>6, <3>3, <4>1 DEF Control, CallMutex
      <4> QED
        BY <4>2
    <3>4. Own(c, m)'
      BY <3>1 DEF Own
    <3> QED
      BY <1>4, <3>2, <3>3, <3>4 DEF OnTheWay
  <2>2. Mail'
    <3>1. \A d \in Callers : SameCall(d)
      BY <1>4, <1>7, StaysSame DEF OthersStay
    <3>2. \A b \in Backends : \A r \in asked'[b] : r \in asked[b] \/ OnTheWay(b, r)'
      <4>1. \A b \in Backends : \A r \in asked'[b] :
              r \in asked[b] \/ (Native /\ b = b0 /\ r = m)
        BY <1>0, <1>2, <2>0 DEF TypeOK
      <4> QED
        BY <2>1, <4>1
    <3>3. \A b \in Backends : nextID[b] <= nextID'[b]
      BY <1>0, <1>4 DEF TypeOK
    <3> QED
      BY <1>0, <1>3, <3>1, <3>2, <3>3, MailKept DEF Data
  <2>3. Inbox(c)'
    BY <1>1, <1>4 DEF Inbox
  <2>4. \A d \in Callers \ {c} : Inbox(d)'
    BY <1>0, <1>4, InboxKept DEF OthersStay, Data
  <2> QED
    BY <2>2, <2>3, <2>4 DEF Data, Inboxes
<1>9. Claims'
  <2>1. ReplyIsOwn'
    BY <1>0, <1>4, ReplyKept DEF Claims, OthersStay
  <2>2. NothingLeaks'
    BY <1>0, <1>4, NoLeak DEF Claims
  <2> QED
    BY <2>1, <2>2 DEF Claims
<1> QED
  BY <1>3, <1>6, <1>8, <1>9 DEF IInv

LEMMA PostNotificationKeeps ==
  ASSUME IInv, NEW c \in Callers, PostNotification(c)
  PROVE  IInv'
<1>0. TypeOK /\ Control /\ Mutex /\ CallMutex /\ NothingLeaks
  BY DEF IInv, Control, Claims
<1>1. pc[c] = "post" /\ doing[c] \in {"initialized", "notify"}
  BY <1>0 DEF PostNotification, TypeOK, Jobs, IsCall
<1>2. /\ timer' \in [Backends -> BOOLEAN]
      /\ \A a \in Backends : closed[a] /\ timer'[a] => timer[a] \/ ~Native
  BY <1>0, TouchedTypes DEF PostNotification
<1>3. TypeOK'
  BY <1>0, <1>2 DEF TypeOK, PostNotification, Goto, Phases, proxyVars, netVars
<1>4. /\ OthersStay(c) /\ pc'[c] = IF doing[c] = "initialized" THEN "publish" ELSE "idle"
      /\ UNCHANGED <<kind, orderly, sent, doing, on, id>> /\ UNCHANGED <<mu, client, started>>
      /\ UNCHANGED <<closed, callMu, nextID>> /\ UNCHANGED <<asked, body, stream>>
  BY <1>0 DEF PostNotification, Goto, OthersStay, Stays, TypeOK, proxyVars, netVars
<1>5. /\ ~InCall(c)' /\ ~InCall(c) /\ ~Calling(c)'
      /\ (InStart(c)' <=> InStart(c)) /\ Shape(c)'
  BY <1>0, <1>1, <1>4 DEF Calling, InCall, InStart, Starting, Shape, IsCall, Mutex
<1>6. Control'
  <2>1. Mutex'
    BY <1>0, <1>3, <1>4, <1>5, StartedGrows, MutexKept DEF OthersStay, Mutex
  <2>2. CallMutex'
    BY <1>0, <1>4, <1>5, CallMutexKept DEF OthersStay, CallMutex
  <2> QED
    BY <2>1, <2>2 DEF Control
<1>7. Data' /\ ReplyIsOwn'
  BY <1>3, <1>4, <1>5, <1>6, QuietStep DEF SameCall
<1>8. NothingLeaks'
  BY <1>0, <1>2, <1>4, NoLeak
<1> QED
  BY <1>3, <1>6, <1>7, <1>8 DEF IInv, Claims

-----------------------------------------------------------------------------
(* The reply, and the end of a message.                                    *)

\* The call of c returns r, which is the answer to c's request unless it comes
\* in a JSON body of a server that is not orderly.
LEMMA AnsweredKeeps ==
  ASSUME IInv, NEW c \in Callers, pc[c] = "wait", NEW r \in Replies, Answered(c, r),
         orderly \/ body[c] # "json" => r.by = c /\ r.n = Number(c),
         UNCHANGED <<kind, orderly, sent, want, on, id, mu, client, started, closed>>,
         UNCHANGED <<done, nextID, asked, body>>,
         stream' \in [Callers -> Seq(Replies)],
         \A d \in Callers \ {c} : stream'[d] = stream[d]
  PROVE  IInv'
<1>0. TypeOK /\ Control /\ Mutex /\ CallMutex /\ Data /\ Claims
  BY DEF IInv, Control
<1>1. /\ on[c] \in Backends /\ on[c] \in 1..started /\ doing[c] \in {"initialize", "request"}
      /\ sent[c] # 0
  BY <1>0, CallsOnBackends DEF Mutex, Shape, IsCall, TypeOK, Jobs
<1>2. /\ timer' \in [Backends -> BOOLEAN]
      /\ \A a \in Backends : closed[a] /\ timer'[a] => timer[a] \/ ~Native
  BY <1>0, TouchedTypes DEF Answered
<1>3. TypeOK'
  <2>1. pc' \in [Callers -> Phases] /\ doing' \in [Callers -> Jobs]
    BY <1>0 DEF TypeOK, Answered, Begin, Goto, Phases, Jobs
  <2>2. callMu' \in [Backends -> Callers \cup {NoOne}] /\ got' \in [Callers -> Replies]
    BY <1>0 DEF TypeOK, Answered
  <2> QED
    BY <1>0, <1>2, <2>1, <2>2 DEF TypeOK
<1>4. /\ OthersStay(c) /\ got'[c] = r
      /\ \/ doing[c] = "initialize" /\ doing'[c] = "initialized" /\ pc'[c] = "post"
         \/ doing[c] = "request" /\ doing'[c] = "request" /\ pc'[c] = "write"
  BY <1>0, <1>1 DEF Answered, Begin, Goto, OthersStay, Stays, TypeOK, IsCall
<1>5. /\ InCall(c) /\ ~InCall(c)' /\ ~Calling(c)' /\ pc'[c] # "wait"
      /\ (InStart(c)' <=> InStart(c)) /\ Shape(c)'
  BY <1>0, <1>1, <1>4 DEF Calling, InCall, InStart, Starting, Shape, IsCall, Mutex
<1>6. Control'
  <2>1. Mutex'
    BY <1>0, <1>3, <1>4, <1>5, StartedGrows, MutexKept DEF OthersStay, Mutex
  <2>2. CallMutex'
    <3>1. ASSUME NEW b \in Backends PROVE callMu'[b] # c
      BY <1>0, <1>1, <1>5, NoOneAssumption DEF Answered, CallMutex, TypeOK
    <3>2. ASSUME NEW b \in Backends, NEW d \in Callers \ {c}
          PROVE  callMu'[b] = d <=> callMu[b] = d
      <4>1. Native => callMu[on[c]] = c
        BY <1>0, <1>1, <1>5 DEF CallMutex
      <4> QED
        BY <1>0, <1>1, <4>1, NoOneAssumption DEF Answered, TypeOK
    <3> QED
      BY <1>0, <1>4, <1>5, <3>1, <3>2, CallMutexKept DEF OthersStay
  <2> QED
    BY <2>1, <2>2 DEF Control
<1>7. Data'
  <2>1. Mail'
    <3>1. \A d \in Callers : SameCall(d)
      BY <1>4, <1>5, StaysSame DEF OthersStay, SameCall
    <3>2. \A b \in Backends : nextID[b] <= nextID'[b]
      BY <1>0 DEF TypeOK
    <3> QED
      BY <1>0, <1>3, <3>1, <3>2, MailKept DEF Data
  <2>2. \A d \in Callers : Inbox(d)'
    <3>1. Inbox(c)'
      BY <1>5 DEF Inbox
    <3>2. \A d \in Callers \ {c} : Inbox(d)'
      BY <1>0, <1>4, InboxKept DEF OthersStay, Data
    <3> QED
      BY <3>1, <3>2
  <2> QED
    BY <2>1, <2>2 DEF Data, Inboxes
<1>8. Claims'
  <2>1. ReplyIsOwn'
    <3>1. pc'[c] = "write" /\ (orderly \/ body'[c] # "json") =>
            got'[c].by = c /\ got'[c].n = sent'[c] /\ got'[c].n # 0
      BY <1>1, <1>4 DEF Number, Starting
    <3> QED
      BY <1>0, <1>4, <3>1, ReplyKept DEF Claims, OthersStay
  <2>2. NothingLeaks'
    BY <1>0, <1>2, NoLeak DEF Claims
  <2> QED
    BY <2>1, <2>2 DEF Claims
<1> QED
  BY <1>3, <1>6, <1>7, <1>8 DEF IInv

LEMMA SdkAnswersKeeps ==
  ASSUME IInv, NEW c \in Callers, SdkAnswers(c)
  PROVE  IInv'
<1>1. Message(c) \in Replies /\ Message(c).by = c /\ Message(c).n = Number(c)
  BY MessageMade DEF IInv
<1>2. stream' \in [Callers -> Seq(Replies)]
  BY DEF SdkAnswers, netVars, IInv, TypeOK
<1> QED
  BY <1>1, <1>2, AnsweredKeeps DEF SdkAnswers, proxyVars, netVars

\* The first of the responses that were not read is taken off the reply.
LEMMA StreamRead ==
  ASSUME TypeOK, NEW c \in Callers, stream[c] # <<>>, stream' = [stream EXCEPT ![c] = Tail(@)]
  PROVE  /\ stream' \in [Callers -> Seq(Replies)]
         /\ \A d \in Callers \ {c} : stream'[d] = stream[d]
         /\ Head(stream[c]) \in Replies /\ 1 \in DOMAIN stream[c]
         /\ Head(stream[c]) = stream[c][1]
         /\ \A j \in DOMAIN stream'[c] : \E i \in DOMAIN stream[c] : stream'[c][j] = stream[c][i]
<1>1. stream[c] \in Seq(Replies) /\ stream \in [Callers -> Seq(Replies)]
  BY DEF TypeOK
<1>2. /\ Tail(stream[c]) \in Seq(Replies) /\ Head(stream[c]) \in Replies
      /\ 1 \in DOMAIN stream[c] /\ Head(stream[c]) = stream[c][1]
      /\ \A j \in DOMAIN Tail(stream[c]) : \E i \in DOMAIN stream[c] :
           Tail(stream[c])[j] = stream[c][i]
  BY <1>1, Beheaded
<1>3. stream'[c] = Tail(stream[c])
  BY <1>1
<1> QED
  BY <1>1, <1>2, <1>3

\* A response that is not the call's is dropped.
LEMMA DroppedKeeps ==
  ASSUME IInv, NEW c \in Callers, body[c] = "events", stream[c] # <<>>,
         stream' = [stream EXCEPT ![c] = Tail(@)],
         UNCHANGED <<kind, orderly, pc, sent, want, doing, on, id, got>>,
         UNCHANGED <<mu, client, started, closed, done, timer, callMu, nextID>>,
         UNCHANGED <<asked, body>>
  PROVE  IInv'
<1>0. TypeOK /\ Control /\ Mutex /\ CallMutex /\ Data /\ Claims
  BY DEF IInv, Control
<1>1. /\ stream' \in [Callers -> Seq(Replies)]
      /\ \A d \in Callers \ {c} : stream'[d] = stream[d]
      /\ \A j \in DOMAIN stream'[c] : \E i \in DOMAIN stream[c] : stream'[c][j] = stream[c][i]
  BY <1>0, StreamRead
<1>2. TypeOK'
  BY <1>0, <1>1 DEF TypeOK
<1>3. \A d \in Callers : Stays(d)
  BY AllStay
<1>4. Control'
  BY <1>0, <1>2, <1>3, StartedGrows, MutexKept, CallMutexKept DEF Control, Mutex
<1>5. Data'
  <2>1. Mail'
    <3>1. \A d \in Callers : SameCall(d)
      BY <1>3, StaysSame
    <3>2. \A b \in Backends : nextID[b] <= nextID'[b]
      BY <1>0 DEF TypeOK
    <3> QED
      BY <1>0, <1>2, <3>1, <3>2, MailKept DEF Data
  <2>2. Inbox(c)'
    <3>1. Inbox(c) /\ pc'[c] = pc[c] /\ (Calling(c)' <=> Calling(c)) /\ body'[c] = "events"
      BY <1>0 DEF Data, Inboxes, Calling
    <3>2. \A r : Own(c, r)' <=> Own(c, r)
      BY DEF Own, Number, Starting
    <3>3. pc[c] = "wait" => \A j \in DOMAIN stream'[c] : Own(c, stream'[c][j])
      BY <1>1, <3>1 DEF Inbox
    <3> QED
      BY <3>1, <3>2, <3>3 DEF Inbox
  <2>3. \A d \in Callers \ {c} : Inbox(d)'
    BY <1>0, <1>1, <1>3, InboxKept DEF Data
  <2> QED
    BY <2>1, <2>2, <2>3 DEF Data, Inboxes
<1>6. Claims'
  BY <1>0 DEF Claims, ReplyIsOwn, NothingLeaks, Native
<1> QED
  BY <1>2, <1>4, <1>5, <1>6 DEF IInv

LEMMA ReadEventKeeps ==
  ASSUME IInv, NEW c \in Callers, ReadEvent(c)
  PROVE  IInv'
<1>0. TypeOK /\ Inbox(c)
  BY DEF IInv, Data, Inboxes
<1>1. /\ pc[c] = "wait" /\ body[c] = "events" /\ stream[c] # <<>>
      /\ UNCHANGED <<kind, orderly, sent, want, on, id, mu, client, started, closed>>
      /\ UNCHANGED <<done, nextID, asked, body>>
  BY DEF ReadEvent, proxyVars
<1>2. /\ stream' \in [Callers -> Seq(Replies)]
      /\ \A d \in Callers \ {c} : stream'[d] = stream[d]
      /\ Head(stream[c]) \in Replies /\ 1 \in DOMAIN stream[c]
      /\ Head(stream[c]) = stream[c][1]
  BY <1>0, <1>1, StreamRead DEF ReadEvent
<1>3. Own(c, Head(stream[c]))
  BY <1>0, <1>1, <1>2 DEF Inbox
<1>4. CASE Head(stream[c]).id = id[c]
  <2>1. Answered(c, Head(stream[c]))
    BY <1>4 DEF ReadEvent
  <2> QED
    BY <1>1, <1>2, <1>3, <1>4, <2>1, AnsweredKeeps DEF Own
<1>5. CASE Head(stream[c]).id # id[c]
  BY <1>1, <1>5, DroppedKeeps DEF ReadEvent
<1> QED
  BY <1>4, <1>5

LEMMA ReadJsonKeeps ==
  ASSUME IInv, NEW c \in Callers, ReadJson(c)
  PROVE  IInv'
<1>0. TypeOK /\ Inbox(c)
  BY DEF IInv, Data, Inboxes
<1>1. /\ pc[c] = "wait" /\ body[c] = "json" /\ stream[c] # <<>>
      /\ Answered(c, Head(stream[c]))
      /\ UNCHANGED <<kind, orderly, sent, want, on, id, mu, client, started, closed>>
      /\ UNCHANGED <<done, nextID, asked, body>>
  BY DEF ReadJson, proxyVars
<1>2. /\ stream' \in [Callers -> Seq(Replies)]
      /\ \A d \in Callers \ {c} : stream'[d] = stream[d]
      /\ Head(stream[c]) \in Replies /\ 1 \in DOMAIN stream[c]
      /\ Head(stream[c]) = stream[c][1]
  BY <1>0, <1>1, StreamRead DEF ReadJson
<1>3. orderly => Head(stream[c]).by = c /\ Head(stream[c]).n = Number(c)
  BY <1>0, <1>1, <1>2 DEF Inbox
<1> QED
  BY <1>1, <1>2, <1>3, AnsweredKeeps

LEMMA WriteKeeps ==
  ASSUME IInv, NEW c \in Callers, Write(c)
  PROVE  IInv'
<1>0. TypeOK /\ Control /\ Mutex /\ CallMutex /\ NothingLeaks
  BY DEF IInv, Control, Claims
<1>1. TypeOK'
  BY <1>0 DEF TypeOK, Write, Goto, Phases, proxyVars, backVars, netVars
<1>2. /\ OthersStay(c) /\ pc[c] = "write" /\ pc'[c] = "idle"
      /\ UNCHANGED <<kind, orderly, sent, doing, on, id>> /\ UNCHANGED <<mu, client, started>>
      /\ UNCHANGED <<closed, timer, callMu, nextID>> /\ UNCHANGED <<asked, body, stream>>
  BY <1>0 DEF Write, Goto, OthersStay, Stays, TypeOK, proxyVars, backVars, netVars
<1>3. /\ ~InCall(c)' /\ ~InCall(c) /\ ~Calling(c)'
      /\ ~InStart(c)' /\ ~InStart(c) /\ Shape(c)'
  BY <1>2 DEF Calling, InCall, InStart, Shape
<1>4. Control'
  <2>1. Mutex'
    BY <1>0, <1>1, <1>2, <1>3, StartedGrows, MutexKept DEF OthersStay, Mutex
  <2>2. CallMutex'
    BY <1>0, <1>2, <1>3, CallMutexKept DEF OthersStay, CallMutex
  <2> QED
    BY <2>1, <2>2 DEF Control
<1>5. Data' /\ ReplyIsOwn'
  BY <1>1, <1>2, <1>3, <1>4, QuietStep DEF SameCall
<1>6. NothingLeaks'
  BY <1>0, <1>2, NoLeak
<1> QED
  BY <1>1, <1>4, <1>5, <1>6 DEF IInv, Claims

\* A failed start closes the backend it made; callMu and Proxy.mu are free again.
LEMMA FailKeeps ==
  ASSUME IInv, NEW c \in Callers, Fail(c)
  PROVE  IInv'
<1>0. TypeOK /\ Control /\ Mutex /\ CallMutex /\ NothingLeaks
  BY DEF IInv, Control, Claims
<1>1. pc[c] = "failed" /\ on[c] \in Backends /\ on[c] \in 1..started
  BY <1>0, CallsOnBackends DEF Fail
<1>2. InStart(c) <=> Starting(c)
  BY <1>1 DEF InStart
<1>3. /\ closed' \in [Backends -> BOOLEAN] /\ timer' \in [Backends -> BOOLEAN]
      /\ \A a \in Backends : closed[a] => closed'[a]
      /\ \A a \in Backends : timer'[a] => timer[a]
      /\ \A a \in Backends : a # on[c] => closed'[a] = closed[a] /\ timer'[a] = timer[a]
      /\ Starting(c) => closed'[on[c]] /\ (timer'[on[c]] => closed[on[c]])
      /\ ~Starting(c) => UNCHANGED <<closed, timer>>
  <2>1. CASE Starting(c)
    BY <1>0, <1>1, <2>1, CloseBackendKeeps DEF Fail
  <2>2. CASE ~Starting(c)
    BY <1>0, <2>2 DEF Fail, TypeOK
  <2> QED
    BY <2>1, <2>2
<1>4. mu' = IF Starting(c) THEN NoOne ELSE mu
  BY DEF Fail
<1>5. TypeOK'
  <2>1. pc' \in [Callers -> Phases] /\ callMu' \in [Backends -> Callers \cup {NoOne}]
    BY <1>0 DEF TypeOK, Fail, Goto, Phases
  <2>2. mu' \in Callers \cup {NoOne}
    BY <1>0, <1>4 DEF TypeOK
  <2> QED
    BY <1>0, <1>3, <2>1, <2>2 DEF TypeOK, Fail, netVars
<1>6. /\ OthersStay(c) /\ pc'[c] = "idle"
      /\ UNCHANGED <<kind, orderly, sent, doing, on, id>> /\ UNCHANGED <<client, started>>
      /\ UNCHANGED nextID /\ UNCHANGED <<asked, body, stream>>
  BY <1>0 DEF Fail, Goto, OthersStay, Stays, TypeOK, netVars
<1>7. ~InCall(c)' /\ ~Calling(c)' /\ ~InStart(c)' /\ Shape(c)'
  BY <1>6 DEF Calling, InCall, InStart, Shape
<1>8. Starting(c) => mu = c /\ client = 0
  BY <1>0, <1>2, NoOneAssumption DEF Mutex
<1>9. Control'
  <2>1. Mutex'
    <3>1. mu' # c /\ \A d \in Callers \ {c} : mu' = d <=> mu = d
      BY <1>0, <1>2, <1>4, <1>8, NoOneAssumption DEF Mutex
    <3>2. mu' # NoOne => client' = 0
      BY <1>0, <1>4, <1>6 DEF Mutex
    <3> QED
      BY <1>0, <1>5, <1>6, <1>7, <3>1, <3>2, StartedGrows, MutexKept DEF OthersStay
  <2>2. CallMutex'
    <3>1. ASSUME NEW b \in Backends PROVE callMu'[b] # c
      BY <1>0, <1>1, NoOneAssumption DEF Fail, CallMutex, TypeOK
    <3>2. ASSUME NEW b \in Backends, NEW d \in Callers \ {c}
          PROVE  callMu'[b] = d <=> callMu[b] = d
      BY <1>0, <1>1, NoOneAssumption DEF Fail, TypeOK
    <3> QED
      BY <1>0, <1>6, <1>7, <3>1, <3>2, CallMutexKept DEF OthersStay
  <2> QED
    BY <2>1, <2>2 DEF Control
<1>10. Data' /\ ReplyIsOwn'
  BY <1>5, <1>6, <1>7, <1>9, QuietStep DEF SameCall
<1>11. NothingLeaks'
  <2>1. ASSUME NEW b \in 1..started, ~closed'[b]
        PROVE  b = client \/ \E d \in Callers : mu' = d /\ on'[d] = b /\ client = 0
    <3>1. b \in Backends
      BY <1>0, BoundsAssumption DEF TypeOK, Backends
    <3>2. ~closed[b] /\ (Starting(c) => b # on[c])
      BY <1>3, <2>1, <3>1
    <3>3. b = client \/ \E d \in Callers : mu = d /\ on[d] = b /\ client = 0
      BY <1>0, <3>2 DEF NothingLeaks
    <3> QED
      BY <1>4, <1>6, <1>8, <3>2, <3>3
  <2>2. ASSUME NEW b \in Backends, closed'[b], timer'[b] PROVE ~Native
    BY <1>0, <1>1, <1>3, <2>2 DEF NothingLeaks
  <2> QED
    BY <1>6, <2>1, <2>2 DEF NothingLeaks, Native
<1> QED
  BY <1>5, <1>9, <1>10, <1>11 DEF IInv, Claims

-----------------------------------------------------------------------------
(* Timers, the end of a session, the owner of the proxy, and the server.   *)

\* No caller moves.
LEMMA CallersStay ==
  ASSUME IInv, TypeOK', UNCHANGED <<kind, orderly, pc, sent, doing, on, id, got>>,
         UNCHANGED <<mu, started, callMu, nextID, asked, body, stream>>,
         client' = client \/ client' = 0
  PROVE  Control' /\ Data' /\ ReplyIsOwn'
<1>0. TypeOK /\ Control /\ Mutex /\ CallMutex /\ Data /\ ReplyIsOwn
  BY DEF IInv, Control, Claims
<1>1. \A d \in Callers : Stays(d) /\ SameCall(d)
  BY AllStay, StaysSame
<1>2. Control'
  BY <1>0, <1>1, StartedGrows, MutexKept, CallMutexKept DEF Control, Mutex
<1>3. Data'
  BY <1>0, <1>1, <1>2, DataKept
<1>4. ReplyIsOwn'
  BY <1>0, <1>1, ReplyKept
<1> QED
  BY <1>2, <1>3, <1>4

LEMMA IdleTimeoutKeeps ==
  ASSUME IInv, NEW b \in Backends, IdleTimeout(b)
  PROVE  IInv'
<1>0. TypeOK /\ NothingLeaks
  BY DEF IInv, Claims
<1>1. /\ UNCHANGED <<kind, orderly, pc, sent, want, doing, on, id, got, mu, client>>
      /\ UNCHANGED <<started, done, callMu, nextID, asked, body, stream>>
  BY DEF IdleTimeout, callVars, proxyVars, netVars
<1>2. /\ closed' \in [Backends -> BOOLEAN] /\ timer' \in [Backends -> BOOLEAN]
      /\ \A a \in Backends : timer'[a] => timer[a]
      /\ \A a \in Backends : closed[a] => closed'[a]
      /\ Native => closed' = closed
  BY <1>0 DEF IdleTimeout, TypeOK
<1>3. TypeOK'
  BY <1>0, <1>1, <1>2 DEF TypeOK
<1>4. Control' /\ Data' /\ ReplyIsOwn'
  BY <1>1, <1>3, CallersStay
<1>5. NothingLeaks'
  <2>1. \A a \in 1..started : a \in Backends
    BY <1>0, BoundsAssumption DEF TypeOK, Backends
  <2> QED
    BY <1>0, <1>1, <1>2, <2>1 DEF NothingLeaks, Native
<1> QED
  BY <1>3, <1>4, <1>5 DEF IInv, Claims

LEMMA SessionEndsKeeps ==
  ASSUME IInv, NEW b \in Backends, SessionEnds(b)
  PROVE  IInv'
<1>0. TypeOK /\ NothingLeaks
  BY DEF IInv, Claims
<1>1. /\ UNCHANGED <<kind, orderly, pc, sent, want, doing, on, id, got, mu, client>>
      /\ UNCHANGED <<started, closed, timer, callMu, nextID, asked, body, stream>>
      /\ done' = [done EXCEPT ![b] = TRUE]
  BY DEF SessionEnds, callVars, proxyVars, netVars
<1>2. TypeOK'
  BY <1>0, <1>1 DEF TypeOK
<1>3. Control' /\ Data' /\ ReplyIsOwn'
  BY <1>1, <1>2, CallersStay
<1>4. NothingLeaks'
  BY <1>0, <1>1, NoLeak
<1> QED
  BY <1>2, <1>3, <1>4 DEF IInv, Claims

\* stopReal and Status close the proxy's backend and forget it.
LEMMA ClosedKeeps ==
  ASSUME IInv, mu = NoOne, client # 0, CloseBackend(client), client' = 0,
         UNCHANGED <<kind, orderly, pc, sent, want, doing, on, id, got>>,
         UNCHANGED <<mu, started, done, callMu, nextID, asked, body, stream>>
  PROVE  IInv'
<1>0. TypeOK /\ NothingLeaks
  BY DEF IInv, Claims
<1>1. client \in Backends
  BY <1>0, BoundsAssumption DEF TypeOK, Backends
<1>2. /\ closed' \in [Backends -> BOOLEAN] /\ timer' \in [Backends -> BOOLEAN]
      /\ closed'[client] /\ (timer'[client] => closed[client] /\ timer[client])
      /\ \A a \in Backends : a # client => closed'[a] = closed[a] /\ timer'[a] = timer[a]
  BY <1>0, <1>1, CloseBackendKeeps
<1>3. TypeOK'
  <2>1. client' \in 0..started'
    BY <1>0, BoundsAssumption DEF TypeOK
  <2> QED
    BY <1>0, <1>2, <2>1 DEF TypeOK
<1>4. Control' /\ Data' /\ ReplyIsOwn'
  BY <1>3, CallersStay
<1>5. NothingLeaks'
  <2>1. ASSUME NEW a \in 1..started PROVE closed'[a]
    <3>1. a \in Backends
      BY <1>0, BoundsAssumption DEF TypeOK, Backends
    <3>2. closed[a] \/ a = client
      BY <1>0, NoOneAssumption DEF NothingLeaks
    <3> QED
      BY <1>2, <3>1, <3>2
  <2>2. ASSUME NEW a \in Backends, closed'[a], timer'[a] PROVE ~Native
    BY <1>0, <1>2, <2>2 DEF NothingLeaks
  <2> QED
    BY <2>1, <2>2 DEF NothingLeaks, Native
<1> QED
  BY <1>3, <1>4, <1>5 DEF IInv, Claims

\* A response the server writes into the reply to c's POST is the answer to c's call
\* if it has that call's id; the JSON body of an orderly server holds no other.
LEMMA AnswerKeeps ==
  ASSUME IInv, NEW b \in Backends, Answer(b)
  PROVE  IInv'
<1>0. TypeOK /\ Control /\ Mutex /\ CallMutex /\ Data /\ Claims
  BY DEF IInv, Control
<1>1. PICK r \in asked[b], c \in Callers :
        /\ pc[c] = "wait" /\ on[c] = b
        /\ AnswerEvent(c, r) \/ AnswerJson(c, r)
        /\ asked' = [asked EXCEPT ![b] = @ \ {r}]
        /\ UNCHANGED <<kind, orderly, callVars, proxyVars, backVars>>
  BY DEF Answer
<1>2. /\ UNCHANGED <<kind, orderly, pc, sent, want, doing, on, id, got, mu, client>>
      /\ UNCHANGED <<started, closed, done, timer, callMu, nextID>>
  BY <1>1 DEF callVars, proxyVars, backVars
<1>3. r \in Replies /\ OnTheWay(b, r) /\ Calling(c) /\ Own(c, r) /\ Inbox(c)
  BY <1>0, <1>1 DEF TypeOK, Data, Mail, Inboxes, OnTheWay, Calling, Mutex, Shape
<1>4. /\ stream \in [Callers -> Seq(Replies)] /\ stream[c] \in Seq(Replies)
      /\ body \in [Callers -> {"none", "events", "json"}]
  BY <1>0 DEF TypeOK
<1>5. /\ stream' \in [Callers -> Seq(Replies)]
      /\ body' \in [Callers -> {"none", "events", "json"}]
      /\ \A d \in Callers \ {c} : stream'[d] = stream[d] /\ body'[d] = body[d]
      /\ body'[c] = "events" => \A j \in DOMAIN stream'[c] : Own(c, stream'[c][j])
      /\ body'[c] = "json" /\ orderly => \A j \in DOMAIN stream'[c] :
           stream'[c][j].by = c /\ stream'[c][j].n = Number(c)
      /\ body'[c] # "none"
  <2>1. CASE AnswerEvent(c, r)
    <3>1. /\ Append(stream[c], r) \in Seq(Replies)
          /\ \A j \in DOMAIN Append(stream[c], r) :
               \/ Append(stream[c], r)[j] = r
               \/ \E i \in DOMAIN stream[c] : Append(stream[c], r)[j] = stream[c][i]
      BY <1>3, <1>4, Appended
    <3>2. /\ stream'[c] = Append(stream[c], r) /\ body'[c] = "events" /\ body[c] # "json"
          /\ stream' \in [Callers -> Seq(Replies)]
          /\ body' \in [Callers -> {"none", "events", "json"}]
          /\ \A d \in Callers \ {c} : stream'[d] = stream[d] /\ body'[d] = body[d]
      BY <1>4, <2>1, <3>1 DEF AnswerEvent
    <3>3. \A i \in DOMAIN stream[c] : Own(c, stream[c][i])
      <4>1. CASE body[c] = "events"
        BY <1>1, <1>3, <4>1 DEF Inbox
      <4>2. CASE body[c] = "none"
        <5>1. stream[c] = <<>>
          BY <1>1, <1>3, <4>2 DEF Inbox
        <5> QED
          BY <5>1
      <4> QED
        BY <1>4, <3>2, <4>1, <4>2
    <3>4. ASSUME NEW j \in DOMAIN stream'[c] PROVE Own(c, stream'[c][j])
      BY <1>3, <3>1, <3>2, <3>3
    <3> QED
      BY <3>2, <3>4
  <2>2. CASE AnswerJson(c, r)
    <3>1. <<r>> \in Seq(Replies) /\ \A j \in DOMAIN <<r>> : <<r>>[j] = r
      BY <1>3, Single
    <3>2. /\ stream'[c] = <<r>> /\ body'[c] = "json"
          /\ stream' \in [Callers -> Seq(Replies)]
          /\ body' \in [Callers -> {"none", "events", "json"}]
          /\ \A d \in Callers \ {c} : stream'[d] = stream[d] /\ body'[d] = body[d]
      BY <1>4, <2>2, <3>1 DEF AnswerJson
    <3>3. orderly => r.by = c /\ r.n = Number(c)
      BY <1>0, <2>2, MessageMade DEF AnswerJson
    <3> QED
      BY <3>1, <3>2, <3>3
  <2> QED
    BY <1>1, <2>1, <2>2
<1>6. TypeOK'
  <2>1. asked' \in [Backends -> SUBSET Replies]
    BY <1>0, <1>1 DEF TypeOK
  <2> QED
    BY <1>0, <1>2, <1>5, <2>1 DEF TypeOK
<1>7. \A d \in Callers : Stays(d) /\ SameCall(d)
  BY <1>2, AllStay, StaysSame
<1>8. Control'
  BY <1>0, <1>2, <1>6, <1>7, StartedGrows, MutexKept, CallMutexKept DEF Control, Mutex
<1>9. Data'
  <2>1. Mail'
    <3>1. \A a \in Backends : \A s \in asked'[a] : s \in asked[a]
      BY <1>0, <1>1 DEF TypeOK
    <3>2. \A a \in Backends : nextID[a] <= nextID'[a]
      BY <1>0, <1>2 DEF TypeOK
    <3> QED
      BY <1>0, <1>2, <1>6, <1>7, <3>1, <3>2, MailKept DEF Data
  <2>2. Inbox(c)'
    <3>1. \A s : Own(c, s)' <=> Own(c, s)
      BY <1>2 DEF Own, Number, Starting
    <3>2. Number(c)' = Number(c)
      BY <1>2 DEF Number, Starting
    <3> QED
      BY <1>1, <1>2, <1>5, <3>1, <3>2 DEF Inbox
  <2>3. \A d \in Callers \ {c} : Inbox(d)'
    BY <1>0, <1>2, <1>5, <1>7, InboxKept DEF Data
  <2> QED
    BY <2>1, <2>2, <2>3 DEF Data, Inboxes
<1>10. Claims'
  <2>1. ReplyIsOwn'
    BY <1>0, <1>1, <1>2, <1>5, <1>7, ReplyKept DEF Claims
  <2>2. NothingLeaks'
    BY <1>0, <1>2, NoLeak DEF Claims
  <2> QED
    BY <2>1, <2>2 DEF Claims
<1> QED
  BY <1>6, <1>8, <1>9, <1>10 DEF IInv

-----------------------------------------------------------------------------
(* The theorems.                                                           *)

LEMMA InitIInv == Init => IInv
<1>1. SUFFICES ASSUME Init PROVE IInv
  OBVIOUS
<1>2. TypeOK
  <2>1. /\ 0 \in 0..MaxBackends /\ 0 \in 0..0 /\ 0 \in Nat /\ <<>> \in Seq(Replies)
    BY BoundsAssumption
  <2> QED
    BY <1>1, <2>1, NoReplyMade DEF Init, TypeOK, Phases, Jobs
<1>3. \A c \in Callers : pc[c] = "idle"
  BY <1>1 DEF Init
<1>4. \A b \in Backends : asked[b] = {} /\ callMu[b] = NoOne /\ ~closed[b]
                          /\ ~timer[b]
  BY <1>1 DEF Init
<1>5. mu = NoOne /\ client = 0 /\ started = 0
  BY <1>1 DEF Init
<1>6. Control
  <2>1. Mutex
    BY <1>3, <1>5, NoOneAssumption DEF Mutex, Shape, InStart
  <2>2. CallMutex
    BY <1>3, <1>4, NoOneAssumption DEF CallMutex, InCall
  <2> QED
    BY <2>1, <2>2 DEF Control
<1>7. Data
  BY <1>3, <1>4 DEF Data, Mail, Inboxes, Inbox, Calling
<1>8. Claims
  <2>1. 1..started = {}
    BY <1>5
  <2> QED
    BY <1>3, <1>4, <2>1 DEF Claims, NothingLeaks, ReplyIsOwn
<1> QED
  BY <1>2, <1>6, <1>7, <1>8 DEF IInv

LEMMA CallerStepKeeps ==
  ASSUME IInv, NEW c \in Callers, CallerStep(c)
  PROVE  IInv'
<1>1. CASE Forward(c) \/ Ensure(c) \/ Connect(c) \/ Publish(c) \/ BeginCall(c)
  BY <1>1, ForwardKeeps, UseBackendKeeps, StartBackendKeeps, ConnectKeeps, PublishKeeps,
     BeginCallKeeps
  DEF Ensure
<1>2. CASE Post(c) \/ PostNotification(c)
  BY <1>2, PostCallKeeps, PostFailsKeeps, PostNotificationKeeps DEF Post
<1>3. CASE Await(c) \/ Return(c)
  BY <1>3, ReadEventKeeps, ReadJsonKeeps, SdkAnswersKeeps, WaitEndsKeeps, FailKeeps, WriteKeeps
  DEF Await, Return
<1> QED
  BY <1>1, <1>2, <1>3 DEF CallerStep

LEMMA NextIInv == IInv /\ [Next]_vars => IInv'
<1>1. SUFFICES ASSUME IInv, [Next]_vars PROVE IInv'
  OBVIOUS
<1>2. CASE \E c \in Callers : CallerStep(c)
  BY <1>1, <1>2, CallerStepKeeps
<1>3. CASE \E b \in Backends : BackendStep(b)
  BY <1>1, <1>3, IdleTimeoutKeeps, SessionEndsKeeps, AnswerKeeps DEF BackendStep
<1>4. CASE Close
  BY <1>1, <1>4, ClosedKeeps DEF Close, callVars, netVars
<1>5. CASE Status
  BY <1>1, <1>5, ClosedKeeps DEF Status, callVars, netVars
<1>6. CASE UNCHANGED vars
  BY <1>1, <1>6
  DEF vars, callVars, proxyVars, backVars, netVars, IInv, TypeOK, Control, Mutex, Shape,
      InStart, Starting, CallMutex, InCall, IsCall, Native, Data, Mail, OnTheWay, Calling, Own,
      Number, Inboxes, Inbox, Claims, NothingLeaks, ReplyIsOwn
<1> QED
  BY <1>1, <1>2, <1>3, <1>4, <1>5, <1>6 DEF Next

\* The inductive invariant holds in every reachable state: who holds Proxy.mu and
\* callMu, which backends are open, and whose answer every response is that the
\* server owes or has written into a reply.
THEOREM Invariant == Spec => []IInv
BY InitIInv, NextIInv, PTL DEF Spec

\* Every variable of the HTTP upstream keeps its type, for any number of callers.
THEOREM TypeCorrect == Spec => []TypeOK
<1>1. IInv => TypeOK
  BY DEF IInv
<1> QED
  BY <1>1, Invariant, PTL

\* A response written to a client answers that client's own last request, when it came
\* in an event stream, where it is matched by id (readStreamableSSEResponse), or from
\* the SDK; and when it came in a JSON body, which is not matched
\* (callStreamableHTTP), as long as the server puts only the answer to a POST there.
THEOREM RepliesAreOwn == Spec => []ReplyIsOwn
<1>1. IInv => ReplyIsOwn
  BY DEF IInv, Claims
<1> QED
  BY <1>1, Invariant, PTL

\* No backend is left open behind the proxy, whatever starts fail, are closed while
\* they are under way, or are replaced, and no native backend that was closed has its
\* idle timer armed again by a call that ends later (ensureHTTPReal, touch, close).
THEOREM NothingIsLeft == Spec => []NothingLeaks
<1>1. IInv => NothingLeaks
  BY DEF IInv, Claims
<1> QED
  BY <1>1, Invariant, PTL

\* Calls on one native backend do not overlap: two callers are never both inside the
\* locked part of a call on it (realHTTPClient.call).
THEOREM CallsAreSerial ==
  Spec => [](\A c, d \in Callers :
               Native /\ InCall(c) /\ InCall(d) /\ on[c] = on[d] => c = d)
<1>1. IInv => \A c, d \in Callers : Native /\ InCall(c) /\ InCall(d) /\ on[c] = on[d] => c = d
  <2>1. SUFFICES ASSUME IInv, NEW c \in Callers, NEW d \in Callers,
                        Native, InCall(c), InCall(d), on[c] = on[d]
                 PROVE  c = d
    OBVIOUS
  <2>2. on[c] \in Backends
    BY <2>1, CallsOnBackends DEF IInv, InCall
  <2> QED
    BY <2>1, <2>2 DEF IInv, Control, CallMutex
<1> QED
  BY <1>1, Invariant, PTL
=============================================================================
