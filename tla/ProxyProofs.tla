----------------------------- MODULE ProxyProofs -----------------------------
(***************************************************************************)
(* Proofs about Proxy, for any set of clients, any capacity of the         *)
(* responses channel and any number of processes and requests.             *)
(***************************************************************************)
EXTENDS Proxy, TLAPS

-----------------------------------------------------------------------------
(* The inductive invariant.                                                *)

\* Proxy.mu is held exactly by the client that starts a process: the latest one,
\* which no other client has been handed.
Starting ==
  /\ \A c \in Clients : mu = c <=> pc[c] = "start"
  /\ mu # NoOne =>
       /\ client = 0 /\ spawned \in Reals /\ on[mu] = spawned
       /\ \A c \in Clients \ {mu} : on[c] # spawned
  /\ client <= spawned
  /\ \A c \in Clients : on[c] <= spawned
  /\ \A r \in Reals : r > spawned => proc[r] = "none"

\* A client that queues or waits has a process.
QueuedOnReal == \A c \in Clients : pc[c] \in {"start", "queue", "wait"} => on[c] \in Reals

\* Nothing was sent to a process that is not started yet, and nothing came back.
Untouched(r) ==
  /\ nextID[r] = 0 /\ inbox[r] = {} /\ stdout[r] = <<>> /\ responses[r] = <<>> /\ acked[r] = {}
NotStarted(r) == r > spawned \/ (mu # NoOne /\ r = spawned)
Fresh == \A r \in Reals : NotStarted(r) => Untouched(r)

\* A client in the middle of a call owns the id it took.
Calling(c) == pc[c] = "wait" \/ (pc[c] = "write" /\ got[c] # 0)
OwnIds ==
  \A c \in Clients : Calling(c) =>
    /\ on[c] \in Reals
    /\ id[c] \in 1..nextID[on[c]]
    /\ pc[c] = "write" => got[c] = id[c]
DistinctIds ==
  \A c, d \in Clients :
    c # d /\ Calling(c) /\ Calling(d) /\ on[c] = on[d] => id[c] # id[d]

In(s, i)    == \E k \in DOMAIN s : s[k] = i
Distinct(s) == \A j, k \in DOMAIN s : s[j] = s[k] => j = k
Held(r, i)  == \E c \in Clients : Holds(c, r, i)

\* Ids that are in use were taken.
IdsTaken ==
  \A r \in Reals, i \in Nat :
    i \in inbox[r] \/ In(stdout[r], i) \/ In(responses[r], i) \/ i \in acked[r] => i \in 1..nextID[r]

\* An id is in one place at most: with the server, in its pipe, in the channel,
\* with the client that took the response, or acknowledged.
OnePlace ==
  \A r \in Reals :
    /\ Distinct(stdout[r]) /\ Distinct(responses[r])
    /\ \A i \in Nat :
         /\ i \in inbox[r] => /\ ~In(stdout[r], i) /\ ~In(responses[r], i)
                              /\ i \notin acked[r] /\ ~Held(r, i)
         /\ In(stdout[r], i) => ~In(responses[r], i) /\ i \notin acked[r] /\ ~Held(r, i)
         /\ In(responses[r], i) => i \notin acked[r] /\ ~Held(r, i)
         /\ i \in acked[r] => ~Held(r, i)

Life == RunningIsManaged /\ Starting /\ QueuedOnReal
Ids  == Fresh /\ OwnIds /\ DistinctIds /\ IdsTaken /\ OnePlace
IInv == TypeOK /\ Life /\ Ids

-----------------------------------------------------------------------------
(* Sequences.                                                              *)

LEMMA AppendIn ==
  ASSUME NEW s \in Seq(Nat), NEW i \in Nat
  PROVE  /\ Append(s, i) \in Seq(Nat)
         /\ \A j : In(Append(s, i), j) <=> In(s, j) \/ j = i
         /\ Distinct(s) /\ ~In(s, i) => Distinct(Append(s, i))
<1> DEFINE t == Append(s, i)
<1>1. /\ t \in Seq(Nat) /\ Len(s) \in Nat /\ Len(t) = Len(s) + 1
      /\ DOMAIN s = 1..Len(s) /\ DOMAIN t = 1..(Len(s) + 1)
      /\ \A k \in 1..Len(s) : t[k] = s[k]
      /\ t[Len(s) + 1] = i
  OBVIOUS
<1> HIDE DEF t
<1>2. \A j : In(t, j) <=> In(s, j) \/ j = i
  BY <1>1 DEF In
<1>3. ASSUME Distinct(s), ~In(s, i), NEW j \in DOMAIN t, NEW k \in DOMAIN t, t[j] = t[k]
      PROVE  j = k
  <2>1. \A n \in 1..Len(s) : s[n] # i
    BY <1>1, <1>3 DEF In
  <2>2. \A n \in DOMAIN t : n \in 1..Len(s) \/ n = Len(s) + 1
    BY <1>1
  <2>3. CASE j \in 1..Len(s) /\ k \in 1..Len(s)
    BY <1>1, <1>3, <2>3 DEF Distinct
  <2> QED
    BY <1>1, <1>3, <2>1, <2>2, <2>3
<1> QED
  BY <1>1, <1>2, <1>3 DEF t, Distinct

LEMMA TailIn ==
  ASSUME NEW s \in Seq(Nat), s # <<>>
  PROVE  /\ Tail(s) \in Seq(Nat) /\ Len(Tail(s)) < Len(s) /\ Len(Tail(s)) \in Nat
         /\ Head(s) \in Nat /\ In(s, Head(s))
         /\ \A j : In(Tail(s), j) => In(s, j)
         /\ Distinct(s) => Distinct(Tail(s)) /\ ~In(Tail(s), Head(s))
<1> DEFINE t == Tail(s)
           n == Len(s)
<1>1. n \in Nat \ {0} /\ DOMAIN s = 1..n /\ Head(s) = s[1] /\ Head(s) \in Nat
  OBVIOUS
<1>2. t \in Seq(Nat) /\ Len(t) = n - 1 /\ DOMAIN t = 1..(n - 1)
  OBVIOUS
<1>3. \A k \in 1..(n - 1) : t[k] = s[k + 1]
  OBVIOUS
<1> HIDE DEF t, n
<1>4. \A k \in DOMAIN t : k \in Nat /\ k + 1 \in DOMAIN s /\ k + 1 # 1 /\ t[k] = s[k + 1]
  <2>1. \A k \in 1..(n - 1) : k \in Nat /\ k + 1 \in 1..n /\ k + 1 # 1
    BY <1>1
  <2> QED
    BY <1>1, <1>2, <1>3, <2>1
<1>5. 1 \in DOMAIN s
  BY <1>1
<1>6. In(s, Head(s)) /\ \A j : In(t, j) => In(s, j)
  BY <1>1, <1>4, <1>5 DEF In
<1>7. ASSUME Distinct(s) PROVE Distinct(t) /\ ~In(t, Head(s))
  <2>1. \A j, k \in DOMAIN t : t[j] = t[k] => j + 1 = k + 1
    BY <1>4, <1>7 DEF Distinct
  <2>2. \A j, k \in DOMAIN t : t[j] = t[k] => j = k
    BY <1>4, <2>1
  <2>3. \A k \in DOMAIN t : t[k] # s[1]
    BY <1>4, <1>5, <1>7 DEF Distinct
  <2> QED
    BY <1>1, <2>2, <2>3 DEF Distinct, In
<1> QED
  BY <1>1, <1>2, <1>6, <1>7 DEF t, n

LEMMA InHeadOrTail ==
  ASSUME NEW s \in Seq(Nat), s # <<>>
  PROVE  \A j : In(s, j) => j = Head(s) \/ In(Tail(s), j)
<1> DEFINE t == Tail(s)
<1>1. /\ Len(s) \in Nat \ {0} /\ DOMAIN s = 1..Len(s) /\ DOMAIN t = 1..(Len(s) - 1)
      /\ \A k \in 1..(Len(s) - 1) : t[k] = s[k + 1]
      /\ Head(s) = s[1]
  OBVIOUS
<1> HIDE DEF t
<1>2. \A k \in DOMAIN s : k # 1 => k - 1 \in DOMAIN t /\ t[k - 1] = s[k]
  BY <1>1
<1> QED
  BY <1>1, <1>2 DEF In, t

LEMMA PrefixIn ==
  ASSUME NEW s \in Seq(Nat), NEW n \in 0..Len(s)
  PROVE  /\ SubSeq(s, 1, n) \in Seq(Nat)
         /\ \A j : In(SubSeq(s, 1, n), j) => In(s, j)
         /\ Distinct(s) => Distinct(SubSeq(s, 1, n))
<1> DEFINE t == SubSeq(s, 1, n)
<1>1. /\ t \in Seq(Nat) /\ Len(s) \in Nat /\ n \in Nat /\ n <= Len(s)
      /\ DOMAIN s = 1..Len(s) /\ DOMAIN t = 1..n
      /\ \A k \in 1..n : t[k] = s[k]
  OBVIOUS
<1> HIDE DEF t
<1>2. \A j : In(t, j) => In(s, j)
  BY <1>1 DEF In
<1>3. Distinct(s) => Distinct(t)
  BY <1>1 DEF Distinct
<1> QED
  BY <1>1, <1>2, <1>3 DEF t

LEMMA EmptyIn == (\A j : ~In(<<>>, j)) /\ Distinct(<<>>)
BY DEF In, Distinct

-----------------------------------------------------------------------------
(* Init => IInv                                                            *)

LEMMA InitIInv == Init => IInv
<1> SUFFICES ASSUME Init PROVE IInv
  OBVIOUS
<1>1. TypeOK
  <2>1. \A r \in Reals : Len(responses[r]) <= ResponseCap
    BY BoundsAssumption DEF Init
  <2>2. 0 \in 0..MaxRequests /\ 0 \in 0..MaxReals
    BY BoundsAssumption
  <2>3. <<>> \in Seq(Nat)
    OBVIOUS
  <2> QED
    BY <2>1, <2>2, <2>3 DEF Init, TypeOK, Phases
<1>2. Life
  BY BoundsAssumption, NoOneAssumption
     DEF Init, Life, RunningIsManaged, Starting, QueuedOnReal, Reals
<1>3. Ids
  BY EmptyIn
     DEF Init, Ids, Fresh, Untouched, OwnIds, DistinctIds, Calling, IdsTaken, OnePlace, Held, Holds
<1> QED
  BY <1>1, <1>2, <1>3 DEF IInv

-----------------------------------------------------------------------------
(* What a step keeps when it leaves the rest alone.                        *)

\* Between its calls a client may drop its process, and timers may be armed.
LEMMA LifeKept ==
  ASSUME IInv, UNCHANGED <<mu, client, spawned, proc>>,
         \A r \in Reals : timer[r] => timer'[r],
         \A c \in Clients : (pc'[c] = "start") <=> (pc[c] = "start"),
         \A c \in Clients : on'[c] = on[c] \/ (on'[c] = 0 /\ pc[c] # "start"),
         \A c \in Clients : pc'[c] \in {"queue", "wait"} => on'[c] \in Reals
  PROVE  Life'
<1>1. Starting'
  <2>1. /\ mu' = mu /\ client' = client /\ spawned' = spawned /\ proc' = proc
        /\ client <= spawned /\ \A r \in Reals : r > spawned => proc[r] = "none"
        /\ mu # NoOne => client = 0 /\ spawned \in Reals /\ spawned # 0
    BY BoundsAssumption DEF IInv, Life, Starting, TypeOK, Reals
  <2>2. \A c \in Clients : mu' = c <=> pc'[c] = "start"
    BY DEF IInv, Life, Starting
  <2>3. mu # NoOne => mu \in Clients /\ on[mu] = spawned /\ pc[mu] = "start"
    BY DEF IInv, Life, Starting, TypeOK
  <2>4. mu # NoOne => on'[mu] = spawned
    BY <2>3
  <2>5. mu # NoOne => \A c \in Clients \ {mu} : on[c] # spawned
    BY DEF IInv, Life, Starting
  <2>6. mu # NoOne => \A c \in Clients \ {mu} : on'[c] # spawned
    BY <2>1, <2>5
  <2>7. spawned \in Nat /\ \A c \in Clients : on[c] <= spawned
    BY DEF IInv, Life, Starting, TypeOK
  <2>8. \A c \in Clients : on'[c] <= spawned
    BY <2>7
  <2> QED
    BY <2>1, <2>2, <2>4, <2>6, <2>8 DEF Starting
<1>2. QueuedOnReal'
  BY DEF IInv, Life, Starting, QueuedOnReal
<1>3. RunningIsManaged'
  BY DEF IInv, Life, RunningIsManaged
<1> QED
  BY <1>1, <1>2, <1>3 DEF Life

\* Ids are kept by a step that sends and receives nothing, begins no call and
\* ends no start.
LEMMA IdsKept ==
  ASSUME IInv, UNCHANGED <<callVars, pipeVars>>,
         \A r \in Reals : NotStarted(r)' => NotStarted(r),
         \A c \in Clients :
            Calling(c)' => /\ Calling(c) /\ on'[c] = on[c] /\ id'[c] = id[c]
                           /\ (pc'[c] = "write" => pc[c] = "write" /\ got'[c] = got[c])
  PROVE  Ids'
<1> USE DEF callVars, pipeVars
<1>1. Fresh'
  BY DEF IInv, Ids, Fresh, Untouched
<1>2. OwnIds' /\ DistinctIds'
  BY DEF IInv, Ids, OwnIds, DistinctIds
<1>3. IdsTaken'
  BY DEF IInv, Ids, IdsTaken, In
<1>4. \A r \in Reals, i \in Nat : Held(r, i)' => Held(r, i)
  BY DEF Held, Holds, Calling
<1>5. OnePlace'
  BY <1>4 DEF IInv, Ids, OnePlace, Distinct, In
<1> QED
  BY <1>1, <1>2, <1>3, <1>5 DEF Ids

\* stopReal.
LEMMA StopRealTypes ==
  ASSUME IInv, StopReal
  PROVE  /\ client' \in 0..MaxReals /\ mu' = mu /\ spawned' = spawned
         /\ proc' \in [Reals -> {"none", "up", "stopping", "exited"}]
         /\ timer' \in [Reals -> BOOLEAN]
<1>1. client' \in 0..MaxReals /\ mu' = mu /\ spawned' = spawned
  BY BoundsAssumption DEF StopReal
<1>2. proc \in [Reals -> {"none", "up", "stopping", "exited"}] /\ timer \in [Reals -> BOOLEAN]
  BY DEF IInv, TypeOK
<1>3. Closing(client) \in [Reals -> {"none", "up", "stopping", "exited"}]
  BY <1>2 DEF Closing
<1>4. TimerOff(client) \in [Reals -> BOOLEAN]
  BY <1>2 DEF TimerOff
<1> QED
  BY <1>1, <1>2, <1>3, <1>4 DEF StopReal

LEMMA StopRealLife ==
  ASSUME IInv, StopReal,
         \A c \in Clients : (pc'[c] = "start") <=> (pc[c] = "start"),
         \A c \in Clients : on'[c] = on[c] \/ (on'[c] = 0 /\ pc[c] # "start"),
         \A c \in Clients : pc'[c] \in {"queue", "wait"} => on'[c] \in Reals
  PROVE  Life'
<1>1. mu = NoOne /\ mu' = NoOne /\ client' = 0 /\ spawned' = spawned /\ spawned \in Nat
  BY DEF StopReal, IInv, TypeOK
<1>2. /\ \A r \in Reals : r # client => proc'[r] = proc[r]
      /\ client \in Reals => proc'[client] # "up"
      /\ \A r \in Reals : proc[r] = "none" => proc'[r] = "none"
  BY DEF StopReal, Closing, IInv, TypeOK, Reals
<1>3. Starting'
  <2>1. \A c \in Clients : mu' = c <=> pc'[c] = "start"
    BY <1>1 DEF IInv, Life, Starting
  <2>2. \A c \in Clients : on'[c] <= spawned'
    BY <1>1 DEF IInv, Life, Starting
  <2>3. \A r \in Reals : r > spawned' => proc'[r] = "none"
    BY <1>1, <1>2 DEF IInv, Life, Starting
  <2> QED
    BY <1>1, <2>1, <2>2, <2>3 DEF Starting
<1>4. QueuedOnReal'
  BY DEF IInv, Life, Starting, QueuedOnReal
<1>5. RunningIsManaged'
  <2>1. \A r \in Reals : proc'[r] = "up" => r # client /\ proc[r] = "up"
    BY <1>2
  <2>2. \A r \in Reals : proc[r] = "up" => r = client
    BY <1>1, NoOneAssumption DEF IInv, Life, RunningIsManaged
  <2> QED
    BY <2>1, <2>2 DEF RunningIsManaged
<1> QED
  BY <1>3, <1>4, <1>5 DEF Life

\* No two clients hold one response.
LEMMA OwnReply == IInv => ReplyIsOwn
BY DEF IInv, Ids, OwnIds, DistinctIds, Calling, ReplyIsOwn, Holds, TypeOK

\* A process that was sent something, or whose start is over, is not fresh.
LEMMA TouchedIsStarted ==
  ASSUME IInv, NEW c \in Clients, pc[c] # "start", on[c] \in Reals
  PROVE  ~NotStarted(on[c])
BY DEF IInv, Life, Starting, NotStarted, TypeOK, Reals

-----------------------------------------------------------------------------
(* Steps of a client before its call.                                      *)

LEMMA RequestIInv == ASSUME IInv, NEW c \in Clients, Request(c) PROVE IInv'
<1>1. /\ pc' \in [Clients -> Phases]
      /\ \A d \in Clients : pc'[d] = IF d = c THEN "ensure" ELSE pc[d]
  BY DEF Request, Goto, IInv, TypeOK, Phases
<1>2. /\ pc[c] = "idle" /\ sent' \in 0..MaxRequests
      /\ UNCHANGED <<on, id, got, lifeVars, callVars, pipeVars>>
  BY BoundsAssumption DEF Request, IInv, TypeOK
<1>3. TypeOK'
  BY <1>1, <1>2 DEF lifeVars, callVars, pipeVars, IInv, TypeOK
<1>4. Life'
  BY <1>1, <1>2, LifeKept DEF lifeVars, IInv, Life, QueuedOnReal
<1>5. Ids'
  BY <1>1, <1>2, IdsKept DEF lifeVars, NotStarted, Calling
<1> QED
  BY <1>3, <1>4, <1>5 DEF IInv

LEMMA UseRealIInv == ASSUME IInv, NEW c \in Clients, UseReal(c) PROVE IInv'
<1>1. /\ pc' \in [Clients -> Phases]
      /\ \A d \in Clients : pc'[d] = IF d = c THEN "queue" ELSE pc[d]
  BY DEF UseReal, Goto, IInv, TypeOK, Phases
<1>2. /\ client \in Reals /\ on' \in [Clients -> 0..MaxReals]
      /\ \A d \in Clients : on'[d] = IF d = c THEN client ELSE on[d]
  BY DEF UseReal, IInv, TypeOK, Reals
<1>3. timer' \in [Reals -> BOOLEAN] /\ \A r \in Reals : timer[r] => timer'[r]
  BY <1>2 DEF UseReal, TimerOn, IInv, TypeOK
<1>4. TypeOK'
  BY <1>1, <1>2, <1>3 DEF UseReal, callVars, pipeVars, IInv, TypeOK
<1>5. Starting'
  BY <1>1, <1>2 DEF UseReal, IInv, Life, Starting
<1>6. QueuedOnReal' /\ RunningIsManaged'
  <2>1. QueuedOnReal'
    BY <1>1, <1>2 DEF IInv, Life, QueuedOnReal
  <2>2. \A r \in Reals : proc'[r] = "up" => r = client' /\ timer'[r]
    BY <1>3, NoOneAssumption DEF UseReal, IInv, Life, RunningIsManaged
  <2> QED
    BY <2>1, <2>2 DEF RunningIsManaged
<1>7. Ids'
  BY <1>1, <1>2, IdsKept DEF UseReal, NotStarted, Calling
<1> QED
  BY <1>4, <1>5, <1>6, <1>7 DEF IInv, Life

\* When one is to be started, none serves.
LEMMA NoneServes ==
  ASSUME IInv, mu = NoOne, NeedsReal
  PROVE  \A r \in Reals : proc[r] # "up"
<1> SUFFICES ASSUME NEW r \in Reals, proc[r] = "up" PROVE FALSE
  OBVIOUS
<1>1. r = client
  BY NoOneAssumption DEF IInv, Life, RunningIsManaged
<1>2. r # 0
  BY DEF Reals
<1> QED
  BY <1>1, <1>2 DEF NeedsReal, Alive

\* The process before is dead, so the new one is the only one that serves.
LEMMA SpawnRealIInv == ASSUME IInv, NEW c \in Clients, SpawnReal(c) PROVE IInv'
<1>1. /\ pc' \in [Clients -> Phases]
      /\ \A d \in Clients : pc'[d] = IF d = c THEN "start" ELSE pc[d]
  BY DEF SpawnReal, Goto, IInv, TypeOK, Phases
<1>2. /\ spawned \in Nat /\ spawned' = spawned + 1 /\ spawned' \in Reals /\ spawned' \in 0..MaxReals
      /\ mu = NoOne /\ mu' = c /\ client' = 0 /\ client' \in 0..MaxReals /\ mu' # NoOne
  BY BoundsAssumption, NoOneAssumption DEF SpawnReal, IInv, TypeOK, Reals
<1>3. /\ on' \in [Clients -> 0..MaxReals]
      /\ \A d \in Clients : on'[d] = IF d = c THEN spawned' ELSE on[d]
  BY <1>2 DEF SpawnReal, IInv, TypeOK
<1>4. /\ proc' \in [Reals -> {"none", "up", "stopping", "exited"}]
      /\ \A r \in Reals : proc'[r] = IF r = spawned' THEN "up" ELSE proc[r]
  BY <1>2 DEF SpawnReal, IInv, TypeOK
<1>5. timer' \in [Reals -> BOOLEAN]
  BY DEF SpawnReal, TimerOff, IInv, TypeOK
<1>6. TypeOK'
  BY <1>1, <1>2, <1>3, <1>4, <1>5 DEF SpawnReal, callVars, pipeVars, IInv, TypeOK
<1>7. Starting'
  <2>1. \A d \in Clients : mu' = d <=> pc'[d] = "start"
    BY <1>1, <1>2, NoOneAssumption DEF IInv, Life, Starting
  <2>2. \A d \in Clients \ {c} : on'[d] # spawned' /\ on'[d] <= spawned'
    <3> TAKE d \in Clients \ {c}
    <3>1. on'[d] = on[d] /\ on[d] \in Nat /\ on[d] <= spawned
      BY <1>3 DEF IInv, Life, Starting, TypeOK
    <3> QED
      BY <1>2, <3>1
  <2>3. \A r \in Reals : r > spawned' => proc'[r] = "none"
    <3> SUFFICES ASSUME NEW r \in Reals, r > spawned' PROVE proc'[r] = "none"
      OBVIOUS
    <3>1. r > spawned /\ r # spawned'
      BY <1>2 DEF Reals
    <3> QED
      BY <1>4, <3>1 DEF IInv, Life, Starting
  <2> QED
    BY <1>2, <1>3, <2>1, <2>2, <2>3 DEF Starting
<1>8. RunningIsManaged'
  <2>1. \A r \in Reals : proc[r] # "up"
    BY <1>2, NoneServes DEF SpawnReal
  <2> QED
    BY <1>1, <1>2, <1>3, <1>4, <2>1 DEF RunningIsManaged
<1>9. QueuedOnReal'
  BY <1>1, <1>2, <1>3 DEF IInv, Life, QueuedOnReal
<1>10. Ids'
  <2>1. \A r \in Reals : NotStarted(r)' => NotStarted(r)
    BY <1>2 DEF NotStarted, Reals
  <2> QED
    BY <1>1, <1>3, <2>1, IdsKept DEF SpawnReal, Calling
<1> QED
  BY <1>6, <1>7, <1>8, <1>9, <1>10 DEF IInv, Life

LEMMA SpawnFailsIInv == ASSUME IInv, NEW c \in Clients, SpawnFails(c) PROVE IInv'
<1>1. /\ pc' \in [Clients -> Phases] /\ pc[c] = "ensure"
      /\ \A d \in Clients : pc'[d] = IF d = c THEN "write" ELSE pc[d]
  BY DEF SpawnFails, Goto, IInv, TypeOK, Phases
<1>2. got' \in [Clients -> Nat] /\ got'[c] = 0 /\ \A d \in Clients \ {c} : got'[d] = got[d]
  BY DEF SpawnFails, IInv, TypeOK
<1>3. client' \in 0..MaxReals /\ client' = 0 /\ mu = NoOne
  BY BoundsAssumption DEF SpawnFails, IInv, TypeOK
<1>4. timer' \in [Reals -> BOOLEAN]
  BY DEF SpawnFails, TimerOff, IInv, TypeOK
<1>5. TypeOK'
  BY <1>1, <1>2, <1>3, <1>4 DEF SpawnFails, callVars, pipeVars, IInv, TypeOK
<1>6. Starting'
  <2>1. \A d \in Clients : mu' = d <=> pc'[d] = "start"
    BY <1>1 DEF SpawnFails, IInv, Life, Starting
  <2>2. client' <= spawned' /\ mu' = NoOne /\ UNCHANGED <<spawned, on, proc>>
    BY <1>3 DEF SpawnFails, IInv, TypeOK
  <2> QED
    BY <2>1, <2>2 DEF IInv, Life, Starting
<1>7. RunningIsManaged'
  <2>1. \A r \in Reals : proc[r] # "up"
    BY NoneServes DEF SpawnFails
  <2> QED
    BY <2>1 DEF SpawnFails, RunningIsManaged
<1>8. QueuedOnReal'
  BY <1>1 DEF SpawnFails, IInv, Life, QueuedOnReal
<1>9. Ids'
  BY <1>1, <1>2, IdsKept DEF SpawnFails, NotStarted, Calling
<1> QED
  BY <1>5, <1>6, <1>7, <1>8, <1>9 DEF IInv, Life

\* The process becomes the proxy's; its first id is the one of initialize.
LEMMA StartDoneIInv == ASSUME IInv, NEW c \in Clients, StartDone(c) PROVE IInv'
<1> DEFINE r == on[c]
<1>1. /\ mu = c /\ r \in Reals /\ r = spawned /\ pc[c] = "start" /\ mu # NoOne
      /\ client = 0 /\ \A d \in Clients \ {c} : on[d] # r
  BY NoOneAssumption DEF StartDone, IInv, Life, Starting, QueuedOnReal
<1>2. Untouched(r)
  BY <1>1 DEF IInv, Ids, Fresh, NotStarted
<1>3. /\ pc' \in [Clients -> Phases]
      /\ \A d \in Clients : pc'[d] = IF d = c THEN "queue" ELSE pc[d]
  BY DEF StartDone, Goto, IInv, TypeOK, Phases
<1>4. /\ client' = r /\ client' \in 0..MaxReals /\ mu' = NoOne
      /\ timer' \in [Reals -> BOOLEAN] /\ timer'[r]
  BY <1>1 DEF StartDone, TimerOn, IInv, TypeOK
<1>5. /\ nextID' \in [Reals -> Nat] /\ acked' \in [Reals -> SUBSET Nat]
      /\ nextID'[r] = 1 /\ acked'[r] = {1}
      /\ \A q \in Reals \ {r} : nextID'[q] = nextID[q] /\ acked'[q] = acked[q]
  BY <1>1 DEF StartDone, IInv, TypeOK
<1>6. UNCHANGED <<sent, on, id, got, spawned, proc, callMu, inbox, stdout, responses, loop>>
  BY DEF StartDone
<1> HIDE DEF r
<1>7. TypeOK'
  BY <1>3, <1>4, <1>5, <1>6, NoOneAssumption DEF IInv, TypeOK
<1>8. Starting'
  BY <1>1, <1>3, <1>4, <1>6, NoOneAssumption DEF IInv, Life, Starting, TypeOK
<1>9. RunningIsManaged'
  <2>1. \A q \in Reals : proc[q] = "up" => q = r
    BY <1>1 DEF IInv, Life, RunningIsManaged, Reals, r
  <2> QED
    BY <1>4, <1>6, <2>1 DEF RunningIsManaged
<1>10. QueuedOnReal'
  BY <1>1, <1>3, <1>6 DEF IInv, Life, QueuedOnReal, r
<1>11. Fresh'
  BY <1>1, <1>4, <1>5, <1>6 DEF IInv, Ids, Fresh, NotStarted, Untouched, Reals
<1>12. \A d \in Clients : Calling(d)' => d # c /\ Calling(d) /\ on[d] # r /\ pc'[d] = pc[d]
  BY <1>1, <1>3, <1>6 DEF Calling
<1>13. OwnIds' /\ DistinctIds'
  BY <1>5, <1>6, <1>12 DEF IInv, Ids, OwnIds, DistinctIds
<1>14. IdsTaken'
  <2>1. \A i \in Nat : i \notin inbox[r] /\ ~In(stdout[r], i) /\ ~In(responses[r], i)
    BY <1>2, EmptyIn DEF Untouched
  <2> QED
    BY <1>1, <1>5, <1>6, <2>1 DEF IInv, Ids, IdsTaken
<1>15. OnePlace'
  <2>1. \A q \in Reals, i \in Nat : Held(q, i)' => Held(q, i) /\ q # r
    BY <1>6, <1>12 DEF Held, Holds, Calling
  <2>2. \A i \in Nat : i \notin inbox[r] /\ ~In(stdout[r], i) /\ ~In(responses[r], i)
    BY <1>2, EmptyIn DEF Untouched
  <2> QED
    BY <1>5, <1>6, <2>1, <2>2 DEF IInv, Ids, OnePlace
<1> QED
  BY <1>7, <1>8, <1>9, <1>10, <1>11, <1>13, <1>14, <1>15 DEF IInv, Life, Ids

LEMMA StartFailsIInv == ASSUME IInv, NEW c \in Clients, StartFails(c) PROVE IInv'
<1> DEFINE r == on[c]
<1>1. /\ mu = c /\ r \in Reals /\ r = spawned /\ pc[c] = "start" /\ mu # NoOne
      /\ client = 0
  BY NoOneAssumption DEF StartFails, IInv, Life, Starting, QueuedOnReal
<1>2. /\ pc' \in [Clients -> Phases]
      /\ \A d \in Clients : pc'[d] = IF d = c THEN "write" ELSE pc[d]
  BY DEF StartFails, Goto, IInv, TypeOK, Phases
<1>3. got' \in [Clients -> Nat] /\ got'[c] = 0 /\ \A d \in Clients \ {c} : got'[d] = got[d]
  BY DEF StartFails, IInv, TypeOK
<1>4. /\ proc' \in [Reals -> {"none", "up", "stopping", "exited"}] /\ proc'[r] # "up"
      /\ \A q \in Reals \ {r} : proc'[q] = proc[q]
  BY <1>1 DEF StartFails, Closing, IInv, TypeOK
<1>5. TypeOK'
  BY <1>2, <1>3, <1>4 DEF StartFails, callVars, pipeVars, IInv, TypeOK
<1>6. Starting'
  <2>1. mu' = NoOne /\ UNCHANGED <<client, spawned, on>>
    BY DEF StartFails
  <2>2. \A q \in Reals : q > spawned => q # r /\ proc[q] = "none"
    BY <1>1 DEF IInv, Life, Starting, TypeOK, Reals, r
  <2> QED
    BY <1>1, <1>2, <1>4, <2>1, <2>2, NoOneAssumption DEF IInv, Life, Starting
<1>7. RunningIsManaged'
  <2>1. \A q \in Reals : proc[q] = "up" => q = r
    BY <1>1 DEF IInv, Life, RunningIsManaged, Reals
  <2> QED
    BY <1>4, <2>1 DEF RunningIsManaged
<1>8. QueuedOnReal'
  BY <1>2 DEF StartFails, IInv, Life, QueuedOnReal
<1>9. Ids'
  BY <1>2, <1>3, IdsKept DEF StartFails, NotStarted, Calling
<1> QED
  BY <1>5, <1>6, <1>7, <1>8, <1>9 DEF IInv, Life

-----------------------------------------------------------------------------
(* A call.                                                                 *)

\* The id is new on the process.
LEMMA SendIInv == ASSUME IInv, NEW c \in Clients, Send(c) PROVE IInv'
<1> DEFINE r == on[c]
           n == nextID[r] + 1
<1>1. /\ r \in Reals /\ pc[c] = "queue" /\ ~NotStarted(r) /\ n \in Nat
      /\ nextID[r] \in Nat /\ ~Calling(c)
  <2>1. pc[c] = "queue" /\ r \in Reals
    BY DEF Send, IInv, Life, QueuedOnReal
  <2>2. ~NotStarted(r)
    BY <2>1, TouchedIsStarted
  <2>3. nextID[r] \in Nat
    BY <2>1 DEF IInv, TypeOK
  <2> QED
    BY <2>1, <2>2, <2>3 DEF Calling
<1>2. /\ nextID' \in [Reals -> Nat]
      /\ \A q \in Reals : nextID'[q] = IF q = r THEN n ELSE nextID[q]
      /\ \A q \in Reals : 1..nextID[q] \subseteq 1..nextID'[q] /\ n \in 1..nextID'[r]
  <2>1. nextID \in [Reals -> Nat] /\ nextID' = [nextID EXCEPT ![r] = @ + 1]
    BY DEF Send, IInv, TypeOK
  <2>2. /\ nextID' \in [Reals -> Nat]
        /\ \A q \in Reals : nextID'[q] = IF q = r THEN n ELSE nextID[q]
    BY <1>1, <2>1
  <2>3. \A q \in Reals : nextID[q] \in Nat /\ nextID'[q] \in Nat /\ nextID[q] <= nextID'[q]
    BY <1>1, <2>1, <2>2
  <2>4. n \in 1..nextID'[r]
    BY <1>1, <2>2
  <2> QED
    BY <2>2, <2>3, <2>4
<1>3. /\ id' \in [Clients -> Nat]
      /\ \A d \in Clients : id'[d] = IF d = c THEN n ELSE id[d]
  BY <1>1 DEF Send, IInv, TypeOK
<1>4. \/ /\ callMu' = [callMu EXCEPT ![r] = c]
         /\ inbox' = [inbox EXCEPT ![r] = @ \cup {n}]
         /\ Goto(c, "wait")
         /\ UNCHANGED got
      \/ /\ got' = [got EXCEPT ![c] = 0]
         /\ Goto(c, "write")
         /\ UNCHANGED <<callMu, inbox>>
  BY DEF Send
<1>5. /\ UNCHANGED <<sent, on, lifeVars, pipeVars>>
  BY DEF Send
<1> HIDE DEF r, n
<1>6. /\ pc' \in [Clients -> Phases]
      /\ pc'[c] \in {"wait", "write"} /\ \A d \in Clients \ {c} : pc'[d] = pc[d]
  BY <1>4 DEF Goto, IInv, TypeOK, Phases
<1>7. /\ callMu' \in [Reals -> Clients \cup {NoOne}] /\ inbox' \in [Reals -> SUBSET Nat]
      /\ got' \in [Clients -> Nat] /\ \A d \in Clients \ {c} : got'[d] = got[d]
      /\ pc'[c] = "write" => got'[c] = 0
      /\ \A q \in Reals \ {r} : inbox'[q] = inbox[q]
      /\ inbox'[r] \subseteq inbox[r] \cup {n}
  <2>1. CASE /\ callMu' = [callMu EXCEPT ![r] = c]
             /\ inbox' = [inbox EXCEPT ![r] = @ \cup {n}]
             /\ Goto(c, "wait")
             /\ UNCHANGED got
    BY <1>1, <2>1 DEF Goto, IInv, TypeOK
  <2>2. CASE /\ got' = [got EXCEPT ![c] = 0]
             /\ Goto(c, "write")
             /\ UNCHANGED <<callMu, inbox>>
    BY <1>1, <2>2 DEF Goto, IInv, TypeOK
  <2> QED
    BY <1>4, <2>1, <2>2
<1>8. TypeOK'
  BY <1>2, <1>3, <1>5, <1>6, <1>7 DEF lifeVars, pipeVars, IInv, TypeOK
<1>9. Life'
  BY <1>1, <1>5, <1>6, LifeKept DEF lifeVars, IInv, Life, QueuedOnReal, r
<1>10. Fresh'
  BY <1>1, <1>2, <1>5, <1>7 DEF lifeVars, pipeVars, IInv, Ids, Fresh, NotStarted, Untouched
<1>11. \A d \in Clients \ {c} : Calling(d)' => Calling(d) /\ on'[d] = on[d] /\ id'[d] = id[d]
                                         /\ pc'[d] = pc[d] /\ got'[d] = got[d]
  BY <1>3, <1>5, <1>6, <1>7 DEF Calling
<1>12. OwnIds'
  <2>1. ASSUME NEW d \in Clients, Calling(d)', d # c
        PROVE  on'[d] \in Reals /\ id'[d] \in 1..nextID'[on'[d]] /\ (pc'[d] = "write" => got'[d] = id'[d])
    <3>1. on[d] \in Reals /\ id[d] \in 1..nextID[on[d]] /\ (pc[d] = "write" => got[d] = id[d])
      BY <1>11, <2>1 DEF IInv, Ids, OwnIds
    <3> QED
      BY <1>2, <1>11, <2>1, <3>1
  <2>2. on'[c] = r /\ id'[c] = n /\ n \in 1..nextID'[r]
    BY <1>1, <1>2, <1>3, <1>5 DEF r, n
  <2> QED
    BY <1>1, <1>7, <2>1, <2>2 DEF OwnIds, Calling
<1>13. DistinctIds'
  <2>1. ASSUME NEW d \in Clients, d # c, Calling(d)', on'[d] = r PROVE id'[d] # n
    <3>1. id'[d] \in 1..nextID[r]
      BY <1>11, <2>1 DEF IInv, Ids, OwnIds
    <3> QED
      BY <1>1, <3>1 DEF n
  <2> QED
    BY <1>3, <1>5, <1>11, <2>1 DEF IInv, Ids, DistinctIds, r
<1>14. \A i \in Nat : i \in inbox[r] \/ In(stdout[r], i) \/ In(responses[r], i) \/ i \in acked[r]
                       \/ Held(r, i) => i # n
  <2> SUFFICES ASSUME NEW i \in Nat,
                      i \in inbox[r] \/ In(stdout[r], i) \/ In(responses[r], i) \/ i \in acked[r]
                      \/ Held(r, i)
               PROVE  i \in 1..nextID[r]
    BY <1>1 DEF n
  <2> QED
    BY <1>1 DEF IInv, Ids, IdsTaken, Held, Holds, OwnIds, Calling
<1>15. IdsTaken'
  BY <1>2, <1>5, <1>7 DEF pipeVars, IInv, Ids, IdsTaken, In
<1>16. OnePlace'
  <2>1. \A q \in Reals, i \in Nat : Held(q, i)' => Held(q, i)
    BY <1>5, <1>6, <1>7, <1>11 DEF Held, Holds
  <2> QED
    BY <1>5, <1>7, <1>14, <2>1 DEF pipeVars, IInv, Ids, OnePlace, Distinct, In
<1> QED
  BY <1>8, <1>9, <1>10, <1>12, <1>13, <1>15, <1>16 DEF IInv, Ids

LEMMA NotifyIInv == ASSUME IInv, NEW c \in Clients, Notify(c) PROVE IInv'
<1>1. /\ pc' \in [Clients -> Phases] /\ pc[c] = "queue"
      /\ \A d \in Clients : pc'[d] = IF d = c THEN "idle" ELSE pc[d]
  BY DEF Notify, Goto, IInv, TypeOK, Phases
<1>2. /\ on' \in [Clients -> 0..MaxReals]
      /\ \A d \in Clients : on'[d] = IF d = c THEN 0 ELSE on[d]
  BY BoundsAssumption DEF Notify, IInv, TypeOK
<1>3. timer' \in [Reals -> BOOLEAN] /\ \A r \in Reals : timer[r] => timer'[r]
  BY DEF Notify, TimerOn, IInv, TypeOK
<1>4. TypeOK'
  BY <1>1, <1>2, <1>3 DEF Notify, callVars, pipeVars, IInv, TypeOK
<1>5. Life'
  BY <1>1, <1>2, <1>3, LifeKept DEF Notify, IInv, Life, QueuedOnReal
<1>6. Ids'
  BY <1>1, <1>2, IdsKept DEF Notify, NotStarted, Calling
<1> QED
  BY <1>4, <1>5, <1>6 DEF IInv

\* The response moves from the channel to the client that asked for it.
LEMMA TakeOwnIInv == ASSUME IInv, NEW c \in Clients, TakeOwn(c) PROVE IInv'
<1> DEFINE r == on[c]
           i == Head(responses[r])
<1>1. /\ r \in Reals /\ pc[c] = "wait" /\ responses[r] \in Seq(Nat) /\ responses[r] # <<>>
      /\ i = id[c] /\ Calling(c)
  BY DEF TakeOwn, Matches, IInv, Life, QueuedOnReal, TypeOK, Calling
<1>2. /\ Tail(responses[r]) \in Seq(Nat) /\ Len(Tail(responses[r])) < Len(responses[r])
      /\ Len(Tail(responses[r])) \in Nat /\ Len(responses[r]) <= ResponseCap
      /\ i \in Nat /\ In(responses[r], i)
      /\ \A j : In(Tail(responses[r]), j) => In(responses[r], j)
      /\ Distinct(Tail(responses[r])) /\ ~In(Tail(responses[r]), i)
  BY <1>1, TailIn DEF IInv, TypeOK, Ids, OnePlace
<1>3. /\ responses' \in [Reals -> Seq(Nat)]
      /\ \A q \in Reals : responses'[q] = IF q = r THEN Tail(responses[r]) ELSE responses[q]
  BY <1>1, <1>2 DEF TakeOwn, IInv, TypeOK
<1>4. timer' \in [Reals -> BOOLEAN] /\ \A q \in Reals : timer[q] => timer'[q]
  BY DEF TakeOwn, TimerOn, IInv, TypeOK
<1>5. /\ pc' \in [Clients -> Phases]
      /\ \A d \in Clients : pc'[d] = IF d = c THEN "write" ELSE pc[d]
  BY DEF TakeOwn, Return, Goto, IInv, TypeOK, Phases
<1>6. /\ got' \in [Clients -> Nat]
      /\ \A d \in Clients : got'[d] = IF d = c THEN i ELSE got[d]
  BY <1>2 DEF TakeOwn, Return, IInv, TypeOK
<1>7. callMu' \in [Reals -> Clients \cup {NoOne}]
  BY DEF TakeOwn, Return, IInv, TypeOK
<1>8. UNCHANGED <<sent, on, id, mu, client, spawned, proc, nextID, inbox, stdout, loop, acked>>
  BY DEF TakeOwn
<1> HIDE DEF r, i
<1>9. TypeOK'
  <2>1. \A q \in Reals : Len(responses'[q]) <= ResponseCap
    <3>1. Len(responses[r]) \in Nat /\ ResponseCap \in Nat
      BY <1>1, BoundsAssumption
    <3>2. Len(responses'[r]) <= ResponseCap
      BY <1>1, <1>2, <1>3, <3>1
    <3> QED
      BY <1>3, <3>2 DEF IInv, TypeOK
  <2> QED
    BY <1>3, <1>4, <1>5, <1>6, <1>7, <1>8, <2>1 DEF IInv, TypeOK
<1>10. Life'
  BY <1>1, <1>4, <1>5, <1>8, LifeKept DEF IInv, Life, QueuedOnReal
<1>11. Fresh'
  BY <1>1, <1>3, <1>8 DEF IInv, Ids, Fresh, NotStarted, Untouched
<1>12. \A d \in Clients : Calling(d)' => Calling(d)
  BY <1>1, <1>5, <1>6 DEF Calling
<1>13. OwnIds' /\ DistinctIds'
  BY <1>1, <1>5, <1>6, <1>8, <1>12 DEF IInv, Ids, OwnIds, DistinctIds
<1>14. IdsTaken'
  BY <1>2, <1>3, <1>8 DEF IInv, Ids, IdsTaken
<1>15. \A q \in Reals, j \in Nat : Held(q, j)' => Held(q, j) \/ (q = r /\ j = i)
  BY <1>5, <1>6, <1>8 DEF Held, Holds, r
<1>16. OnePlace'
  BY <1>1, <1>2, <1>3, <1>8, <1>15 DEF IInv, Ids, OnePlace
<1> QED
  BY <1>9, <1>10, <1>11, <1>13, <1>14, <1>16 DEF IInv, Ids

\* A late response is acknowledged by the call that drops it.
LEMMA DropStaleIInv == ASSUME IInv, NEW c \in Clients, DropStale(c) PROVE IInv'
<1> DEFINE r == on[c]
           i == Head(responses[r])
<1>1. /\ r \in Reals /\ responses[r] \in Seq(Nat) /\ responses[r] # <<>>
  BY DEF DropStale, IInv, Life, QueuedOnReal, TypeOK
<1>2. /\ Tail(responses[r]) \in Seq(Nat) /\ Len(Tail(responses[r])) < Len(responses[r])
      /\ Len(Tail(responses[r])) \in Nat /\ Len(responses[r]) <= ResponseCap
      /\ i \in Nat /\ In(responses[r], i)
      /\ \A j : In(Tail(responses[r]), j) => In(responses[r], j)
      /\ Distinct(Tail(responses[r])) /\ ~In(Tail(responses[r]), i)
  BY <1>1, TailIn DEF IInv, TypeOK, Ids, OnePlace
<1>3. /\ responses' \in [Reals -> Seq(Nat)]
      /\ \A q \in Reals : responses'[q] = IF q = r THEN Tail(responses[r]) ELSE responses[q]
  BY <1>1, <1>2 DEF DropStale, IInv, TypeOK
<1>4. /\ acked' \in [Reals -> SUBSET Nat]
      /\ \A q \in Reals : acked'[q] = IF q = r THEN acked[r] \cup {i} ELSE acked[q]
  BY <1>1, <1>2 DEF DropStale, IInv, TypeOK
<1>5. UNCHANGED <<clientVars, lifeVars, callVars, stdout, loop>>
  BY DEF DropStale
<1> HIDE DEF r, i
<1> USE DEF clientVars, lifeVars, callVars
<1>6. TypeOK'
  <2>1. \A q \in Reals : Len(responses'[q]) <= ResponseCap
    <3>1. Len(responses[r]) \in Nat /\ ResponseCap \in Nat
      BY <1>1, BoundsAssumption
    <3>2. Len(responses'[r]) <= ResponseCap
      BY <1>1, <1>2, <1>3, <3>1
    <3> QED
      BY <1>3, <3>2 DEF IInv, TypeOK
  <2> QED
    BY <1>3, <1>4, <1>5, <2>1 DEF IInv, TypeOK
<1>7. Life'
  BY <1>5, LifeKept DEF IInv, Life, QueuedOnReal
<1>8. Fresh'
  BY <1>1, <1>3, <1>4, <1>5 DEF IInv, Ids, Fresh, NotStarted, Untouched
<1>9. OwnIds' /\ DistinctIds'
  BY <1>5 DEF IInv, Ids, OwnIds, DistinctIds, Calling
<1>10. IdsTaken'
  BY <1>1, <1>2, <1>3, <1>4, <1>5 DEF IInv, Ids, IdsTaken
<1>11. OnePlace'
  <2>1. \A q \in Reals, j \in Nat : Held(q, j)' => Held(q, j)
    BY <1>5 DEF Held, Holds
  <2> QED
    BY <1>1, <1>2, <1>3, <1>4, <1>5, <2>1 DEF IInv, Ids, OnePlace
<1> QED
  BY <1>6, <1>7, <1>8, <1>9, <1>10, <1>11 DEF IInv, Ids

LEMMA CallFailsIInv == ASSUME IInv, NEW c \in Clients, CallFails(c) PROVE IInv'
<1>1. /\ pc' \in [Clients -> Phases] /\ pc[c] = "wait"
      /\ \A d \in Clients : pc'[d] = IF d = c THEN "write" ELSE pc[d]
  BY DEF CallFails, Return, Goto, IInv, TypeOK, Phases
<1>2. /\ got' \in [Clients -> Nat]
      /\ \A d \in Clients : got'[d] = IF d = c THEN 0 ELSE got[d]
  BY DEF CallFails, Return, IInv, TypeOK
<1>3. callMu' \in [Reals -> Clients \cup {NoOne}]
  BY DEF CallFails, Return, IInv, TypeOK
<1>4. UNCHANGED <<sent, on, id, lifeVars, nextID, inbox, pipeVars>>
  BY DEF CallFails
<1> USE DEF lifeVars, pipeVars
<1>5. TypeOK'
  BY <1>1, <1>2, <1>3, <1>4 DEF IInv, TypeOK
<1>6. Life'
  BY <1>1, <1>4, LifeKept DEF IInv, Life, QueuedOnReal
<1>7. \A d \in Clients : Calling(d)' => Calling(d) /\ d # c
  BY <1>1, <1>2 DEF Calling
<1>8. Fresh' /\ IdsTaken'
  BY <1>4 DEF IInv, Ids, Fresh, NotStarted, Untouched, IdsTaken, In
<1>9. OwnIds' /\ DistinctIds'
  BY <1>1, <1>2, <1>4, <1>7 DEF IInv, Ids, OwnIds, DistinctIds
<1>10. OnePlace'
  <2>1. \A q \in Reals, j \in Nat : Held(q, j)' => Held(q, j)
    BY <1>1, <1>2, <1>4 DEF Held, Holds
  <2> QED
    BY <1>4, <2>1 DEF IInv, Ids, OnePlace, Distinct, In
<1> QED
  BY <1>5, <1>6, <1>8, <1>9, <1>10 DEF IInv, Ids

\* The ack of a response is closed by the client that holds it.
LEMMA ReplyIInv == ASSUME IInv, NEW c \in Clients, Reply(c) PROVE IInv'
<1> DEFINE r == on[c]
           i == got[c]
<1>1. /\ pc' \in [Clients -> Phases] /\ pc[c] = "write" /\ pc'[c] \in {"idle", "gone"}
      /\ \A d \in Clients \ {c} : pc'[d] = pc[d]
  BY DEF Reply, Goto, IInv, TypeOK, Phases
<1>2. /\ got' \in [Clients -> Nat] /\ on' \in [Clients -> 0..MaxReals] /\ id' \in [Clients -> Nat]
      /\ on'[c] = 0 /\ \A d \in Clients \ {c} : got'[d] = got[d] /\ on'[d] = on[d] /\ id'[d] = id[d]
  BY BoundsAssumption DEF Reply, IInv, TypeOK
<1>3. acked' = IF i = 0 THEN acked ELSE [acked EXCEPT ![r] = @ \cup {i}]
  BY DEF Reply
<1>4. UNCHANGED lifeVars \/ StopReal
  BY DEF Reply
<1>5. UNCHANGED <<sent, callVars, stdout, responses, loop>>
  BY DEF Reply
<1>6. i # 0 => /\ r \in Reals /\ i \in Nat /\ i \in 1..nextID[r] /\ ~NotStarted(r) /\ Holds(c, r, i)
  <2>1. i # 0 => Calling(c) /\ i = id[c] /\ r \in Reals /\ i \in 1..nextID[r] /\ i \in Nat
    BY <1>1 DEF IInv, Ids, OwnIds, Calling, TypeOK
  <2> QED
    BY <1>1, <2>1, TouchedIsStarted DEF Holds
<1> HIDE DEF r, i
<1>7. /\ acked' \in [Reals -> SUBSET Nat]
      /\ \A q \in Reals, j \in Nat : j \in acked'[q] <=> j \in acked[q] \/ (i # 0 /\ q = r /\ j = i)
      /\ \A q \in Reals : NotStarted(q) => acked'[q] = acked[q]
  BY <1>3, <1>6 DEF IInv, TypeOK
<1>8. mu' = mu /\ spawned' = spawned
  BY <1>4 DEF lifeVars, StopReal
<1>9. TypeOK'
  <2>1. /\ client' \in 0..MaxReals /\ proc' \in [Reals -> {"none", "up", "stopping", "exited"}]
        /\ timer' \in [Reals -> BOOLEAN]
    BY <1>4, StopRealTypes DEF lifeVars, IInv, TypeOK
  <2> QED
    BY <1>1, <1>2, <1>5, <1>7, <1>8, <2>1 DEF callVars, IInv, TypeOK
<1>10. Life'
  <2>1. \A d \in Clients : (pc'[d] = "start") <=> (pc[d] = "start")
    BY <1>1
  <2>2. \A d \in Clients : on'[d] = on[d] \/ (on'[d] = 0 /\ pc[d] # "start")
    BY <1>1, <1>2
  <2>3. \A d \in Clients : pc'[d] \in {"queue", "wait"} => on'[d] \in Reals
    BY <1>1, <1>2 DEF IInv, Life, QueuedOnReal
  <2> QED
    BY <1>4, <2>1, <2>2, <2>3, LifeKept, StopRealLife DEF lifeVars
<1>11. Fresh'
  BY <1>5, <1>7, <1>8 DEF callVars, IInv, Ids, Fresh, NotStarted, Untouched
<1>12. \A d \in Clients : Calling(d)' => d # c /\ Calling(d)
  BY <1>1, <1>2 DEF Calling
<1>13. OwnIds' /\ DistinctIds'
  BY <1>1, <1>2, <1>5, <1>12 DEF callVars, IInv, Ids, OwnIds, DistinctIds
<1>14. IdsTaken'
  BY <1>5, <1>6, <1>7 DEF callVars, IInv, Ids, IdsTaken, In
<1>15. \A q \in Reals, j \in Nat : Held(q, j)' => Held(q, j) /\ ~(i # 0 /\ q = r /\ j = i)
  <2> SUFFICES ASSUME NEW q \in Reals, NEW j \in Nat, NEW d \in Clients, Holds(d, q, j)'
               PROVE  Held(q, j) /\ ~(i # 0 /\ q = r /\ j = i)
    BY DEF Held
  <2>1. d # c /\ Holds(d, q, j)
    BY <1>1, <1>2 DEF Holds
  <2>2. i # 0 => ~Holds(d, r, i)
    BY <1>1, <2>1, OwnReply DEF ReplyIsOwn, r, i
  <2> QED
    BY <2>1, <2>2 DEF Held
<1>16. OnePlace'
  <2>1. i # 0 => Held(r, i)
    BY <1>6 DEF Held
  <2> QED
    BY <1>5, <1>6, <1>7, <1>15, <2>1 DEF callVars, IInv, Ids, OnePlace, Distinct, In
<1> QED
  BY <1>9, <1>10, <1>11, <1>13, <1>14, <1>16 DEF IInv, Ids

LEMMA LeaveIInv == ASSUME IInv, NEW c \in Clients, Leave(c) PROVE IInv'
<1>1. /\ pc' \in [Clients -> Phases] /\ pc[c] = "idle"
      /\ \A d \in Clients : pc'[d] = IF d = c THEN "gone" ELSE pc[d]
  BY DEF Leave, Goto, IInv, TypeOK, Phases
<1>2. UNCHANGED lifeVars \/ StopReal
  BY DEF Leave
<1>3. UNCHANGED <<sent, on, id, got, callVars, pipeVars>>
  BY DEF Leave
<1>4. mu' = mu /\ spawned' = spawned
  BY <1>2 DEF lifeVars, StopReal
<1>5. TypeOK'
  <2>1. /\ client' \in 0..MaxReals /\ proc' \in [Reals -> {"none", "up", "stopping", "exited"}]
        /\ timer' \in [Reals -> BOOLEAN]
    BY <1>2, StopRealTypes DEF lifeVars, IInv, TypeOK
  <2> QED
    BY <1>1, <1>3, <1>4, <2>1 DEF callVars, pipeVars, IInv, TypeOK
<1>6. Life'
  <2>1. \A d \in Clients : (pc'[d] = "start") <=> (pc[d] = "start")
    BY <1>1
  <2>2. \A d \in Clients : pc'[d] \in {"queue", "wait"} => on'[d] \in Reals
    BY <1>1, <1>3 DEF IInv, Life, QueuedOnReal
  <2> QED
    BY <1>2, <1>3, <2>1, <2>2, LifeKept, StopRealLife DEF lifeVars
<1>7. Ids'
  BY <1>1, <1>3, <1>4, IdsKept DEF NotStarted, Calling
<1> QED
  BY <1>5, <1>6, <1>7 DEF IInv

-----------------------------------------------------------------------------
(* Steps of the daemon and of a real process.                              *)

LEMMA CloseIInv == ASSUME IInv, Close PROVE IInv'
<1>1. StopReal /\ UNCHANGED <<clientVars, callVars, pipeVars>>
  BY DEF Close
<1> USE DEF clientVars
<1>2. TypeOK'
  BY <1>1, StopRealTypes DEF callVars, pipeVars, IInv, TypeOK
<1>3. Life'
  BY <1>1, StopRealLife DEF IInv, Life, QueuedOnReal
<1>4. Ids'
  BY <1>1, StopRealTypes, IdsKept DEF NotStarted, Calling
<1> QED
  BY <1>2, <1>3, <1>4 DEF IInv

LEMMA StatusIInv == ASSUME IInv, Status PROVE IInv'
<1>1. /\ mu = NoOne /\ NeedsReal /\ client' = 0 /\ client' \in 0..MaxReals
      /\ UNCHANGED <<clientVars, mu, spawned, proc, callVars, pipeVars>>
  BY BoundsAssumption DEF Status, NeedsReal
<1>2. timer' \in [Reals -> BOOLEAN]
  BY DEF Status, TimerOff, IInv, TypeOK
<1> USE DEF clientVars
<1>3. TypeOK'
  BY <1>1, <1>2 DEF callVars, pipeVars, IInv, TypeOK
<1>4. Starting' /\ QueuedOnReal'
  BY <1>1 DEF IInv, Life, Starting, QueuedOnReal, TypeOK
<1>5. RunningIsManaged'
  BY <1>1, NoneServes DEF RunningIsManaged
<1>6. Ids'
  BY <1>1, IdsKept DEF NotStarted, Calling
<1> QED
  BY <1>3, <1>4, <1>5, <1>6 DEF IInv, Life

\* A process that is no longer up is out of the supervision's reach.
LEMMA DownLife ==
  ASSUME IInv, UNCHANGED <<clientVars, mu, client, spawned>>, NEW r \in Reals,
         proc'[r] \in {"none", "stopping", "exited"}, proc[r] = "none" => proc'[r] = "none",
         \A q \in Reals \ {r} : proc'[q] = proc[q] /\ timer'[q] = timer[q]
  PROVE  Life'
<1> USE DEF clientVars
<1>1. Starting' /\ QueuedOnReal'
  BY DEF IInv, Life, Starting, QueuedOnReal
<1>2. RunningIsManaged'
  BY DEF IInv, Life, RunningIsManaged
<1> QED
  BY <1>1, <1>2 DEF Life

LEMMA IdleTimeoutIInv == ASSUME IInv, NEW r \in Reals, IdleTimeout(r) PROVE IInv'
<1>1. /\ timer' \in [Reals -> BOOLEAN] /\ \A q \in Reals \ {r} : timer'[q] = timer[q]
      /\ proc' \in [Reals -> {"none", "up", "stopping", "exited"}]
      /\ proc'[r] # "up" /\ (proc[r] = "none" => proc'[r] = "none")
      /\ \A q \in Reals \ {r} : proc'[q] = proc[q]
  BY DEF IdleTimeout, TimerOff, Closing, IInv, TypeOK
<1>2. UNCHANGED <<clientVars, mu, client, spawned, callVars, pipeVars>>
  BY DEF IdleTimeout
<1>3. TypeOK'
  BY <1>1, <1>2 DEF clientVars, callVars, pipeVars, IInv, TypeOK
<1>4. Life'
  BY <1>1, <1>2, DownLife
<1>5. Ids'
  BY <1>2, IdsKept DEF clientVars, NotStarted, Calling
<1> QED
  BY <1>3, <1>4, <1>5 DEF IInv

LEMMA RealExitsIInv == ASSUME IInv, NEW r \in Reals, RealExits(r) PROVE IInv'
<1>1. PICK n \in 0..Len(stdout[r]) : stdout' = [stdout EXCEPT ![r] = SubSeq(@, 1, n)]
  BY DEF RealExits
<1>2. /\ proc' \in [Reals -> {"none", "up", "stopping", "exited"}]
      /\ proc[r] # "none" /\ proc'[r] = "exited" /\ \A q \in Reals \ {r} : proc'[q] = proc[q]
  BY DEF RealExits, Alive, IInv, TypeOK
<1>3. /\ inbox' \in [Reals -> SUBSET Nat] /\ inbox'[r] = {}
      /\ \A q \in Reals \ {r} : inbox'[q] = inbox[q]
  BY DEF RealExits, IInv, TypeOK
<1>4. UNCHANGED <<clientVars, mu, client, spawned, timer, callMu, nextID, responses, loop, acked>>
  BY DEF RealExits
<1>5. /\ SubSeq(stdout[r], 1, n) \in Seq(Nat)
      /\ \A j : In(SubSeq(stdout[r], 1, n), j) => In(stdout[r], j)
      /\ Distinct(SubSeq(stdout[r], 1, n))
  BY PrefixIn DEF IInv, TypeOK, Ids, OnePlace
<1>6. /\ stdout' \in [Reals -> Seq(Nat)]
      /\ \A q \in Reals : stdout'[q] = IF q = r THEN SubSeq(stdout[r], 1, n) ELSE stdout[q]
  BY <1>1, <1>5 DEF IInv, TypeOK
<1>7. stdout[r] = <<>> => stdout'[r] = <<>>
  BY <1>1, <1>6
<1> USE DEF clientVars
<1>8. TypeOK'
  BY <1>2, <1>3, <1>4, <1>6 DEF IInv, TypeOK
<1>9. Life'
  BY <1>2, <1>4, DownLife
<1>10. Fresh'
  BY <1>3, <1>4, <1>6, <1>7 DEF IInv, Ids, Fresh, NotStarted, Untouched
<1>11. OwnIds' /\ DistinctIds'
  BY <1>4 DEF IInv, Ids, OwnIds, DistinctIds, Calling
<1>12. IdsTaken'
  BY <1>3, <1>4, <1>5, <1>6 DEF IInv, Ids, IdsTaken
<1>13. OnePlace'
  <2>1. \A q \in Reals, j \in Nat : Held(q, j)' => Held(q, j)
    BY <1>4 DEF Held, Holds
  <2> QED
    BY <1>3, <1>4, <1>5, <1>6, <2>1 DEF IInv, Ids, OnePlace
<1> QED
  BY <1>8, <1>9, <1>10, <1>11, <1>12, <1>13 DEF IInv, Ids

\* An id moves from the server to its pipe.
LEMMA AnswerIInv == ASSUME IInv, NEW r \in Reals, Answer(r) PROVE IInv'
<1>1. PICK i \in inbox[r] : /\ inbox' = [inbox EXCEPT ![r] = @ \ {i}]
                             /\ stdout' = [stdout EXCEPT ![r] = Append(@, i)]
  BY DEF Answer
<1>2. UNCHANGED <<clientVars, lifeVars, callMu, nextID, responses, loop, acked>>
  BY DEF Answer
<1>3. i \in Nat /\ stdout[r] \in Seq(Nat) /\ ~In(stdout[r], i) /\ Distinct(stdout[r])
  BY DEF IInv, TypeOK, Ids, OnePlace
<1>4. /\ Append(stdout[r], i) \in Seq(Nat) /\ Distinct(Append(stdout[r], i))
      /\ \A j : In(Append(stdout[r], i), j) <=> In(stdout[r], j) \/ j = i
  BY <1>3, AppendIn
<1>5. /\ stdout' \in [Reals -> Seq(Nat)]
      /\ \A q \in Reals : stdout'[q] = IF q = r THEN Append(stdout[r], i) ELSE stdout[q]
  BY <1>1, <1>4 DEF IInv, TypeOK
<1>6. /\ inbox' \in [Reals -> SUBSET Nat]
      /\ \A q \in Reals : inbox'[q] = IF q = r THEN inbox[r] \ {i} ELSE inbox[q]
  BY <1>1 DEF IInv, TypeOK
<1> USE DEF clientVars, lifeVars
<1>7. TypeOK'
  BY <1>2, <1>5, <1>6 DEF IInv, TypeOK
<1>8. Life'
  BY <1>2, LifeKept DEF IInv, Life, QueuedOnReal
<1>9. Fresh'
  BY <1>2, <1>3, <1>5, <1>6 DEF IInv, Ids, Fresh, NotStarted, Untouched
<1>10. OwnIds' /\ DistinctIds'
  BY <1>2 DEF IInv, Ids, OwnIds, DistinctIds, Calling
<1>11. IdsTaken'
  BY <1>2, <1>3, <1>4, <1>5, <1>6 DEF IInv, Ids, IdsTaken
<1>12. OnePlace'
  <2>1. \A q \in Reals, j \in Nat : Held(q, j)' => Held(q, j)
    BY <1>2 DEF Held, Holds
  <2> QED
    BY <1>2, <1>3, <1>4, <1>5, <1>6, <2>1 DEF IInv, Ids, OnePlace
<1> QED
  BY <1>7, <1>8, <1>9, <1>10, <1>11, <1>12 DEF IInv, Ids

\* ... and from the pipe to the channel.
LEMMA PassOnIInv == ASSUME IInv, NEW r \in Reals, PassOn(r) PROVE IInv'
<1> DEFINE i == Head(stdout[r])
<1>1. stdout[r] \in Seq(Nat) /\ stdout[r] # <<>> /\ responses[r] \in Seq(Nat)
  BY DEF PassOn, IInv, TypeOK
<1>2. /\ Tail(stdout[r]) \in Seq(Nat) /\ i \in Nat /\ In(stdout[r], i)
      /\ \A j : In(Tail(stdout[r]), j) => In(stdout[r], j)
      /\ Distinct(Tail(stdout[r])) /\ ~In(Tail(stdout[r]), i)
  BY <1>1, TailIn DEF IInv, Ids, OnePlace
<1>3. ~In(responses[r], i) /\ Distinct(responses[r])
  BY <1>2 DEF IInv, Ids, OnePlace
<1>4. /\ Append(responses[r], i) \in Seq(Nat) /\ Distinct(Append(responses[r], i))
      /\ \A j : In(Append(responses[r], i), j) <=> In(responses[r], j) \/ j = i
  BY <1>1, <1>2, <1>3, AppendIn
<1>5. /\ stdout' \in [Reals -> Seq(Nat)]
      /\ \A q \in Reals : stdout'[q] = IF q = r THEN Tail(stdout[r]) ELSE stdout[q]
  BY <1>2 DEF PassOn, IInv, TypeOK
<1>6. /\ responses' \in [Reals -> Seq(Nat)]
      /\ \A q \in Reals : responses'[q] = IF q = r THEN Append(responses[r], i) ELSE responses[q]
  BY <1>4 DEF PassOn, IInv, TypeOK
<1>7. loop' \in [Reals -> Nat]
  BY <1>2 DEF PassOn, IInv, TypeOK
<1>8. /\ UNCHANGED <<clientVars, lifeVars, callVars, acked>>
      /\ Len(responses[r]) < ResponseCap
  BY DEF PassOn
<1> HIDE DEF i
<1> USE DEF clientVars, lifeVars, callVars
<1>9. TypeOK'
  <2>1. Len(Append(responses[r], i)) = Len(responses[r]) + 1 /\ Len(responses[r]) \in Nat
    BY <1>1, <1>2
  <2>2. Len(responses[r]) + 1 <= ResponseCap
    BY <1>8, <2>1, BoundsAssumption
  <2>3. \A q \in Reals : Len(responses'[q]) <= ResponseCap
    BY <1>6, <2>1, <2>2 DEF IInv, TypeOK
  <2> QED
    BY <1>5, <1>6, <1>7, <1>8, <2>3 DEF IInv, TypeOK
<1>10. Life'
  BY <1>8, LifeKept DEF IInv, Life, QueuedOnReal
<1>11. Fresh'
  BY <1>1, <1>5, <1>6, <1>8 DEF IInv, Ids, Fresh, NotStarted, Untouched
<1>12. OwnIds' /\ DistinctIds'
  BY <1>8 DEF IInv, Ids, OwnIds, DistinctIds, Calling
<1>13. IdsTaken'
  BY <1>2, <1>4, <1>5, <1>6, <1>8 DEF IInv, Ids, IdsTaken
<1>14. OnePlace'
  <2>1. \A q \in Reals, j \in Nat : Held(q, j)' => Held(q, j)
    BY <1>8 DEF Held, Holds
  <2> QED
    BY <1>2, <1>4, <1>5, <1>6, <1>8, <2>1 DEF IInv, Ids, OnePlace
<1> QED
  BY <1>9, <1>10, <1>11, <1>12, <1>13, <1>14 DEF IInv, Ids

LEMMA AckIInv == ASSUME IInv, NEW r \in Reals, AckArrives(r) \/ AckGivenUp(r) PROVE IInv'
<1>1. UNCHANGED <<clientVars, lifeVars, callVars, responses, acked>>
  BY DEF AckArrives, AckGivenUp
<1>2. loop' = [loop EXCEPT ![r] = 0]
  BY DEF AckArrives, AckGivenUp
<1>3. stdout' = stdout \/ stdout' = [stdout EXCEPT ![r] = <<>>]
  BY DEF AckArrives, AckGivenUp
<1>4. loop' \in [Reals -> Nat]
  BY <1>2 DEF IInv, TypeOK
<1>5. /\ stdout' \in [Reals -> Seq(Nat)]
      /\ \A q \in Reals : stdout'[q] = stdout[q] \/ stdout'[q] = <<>>
  <2>1. stdout \in [Reals -> Seq(Nat)] /\ <<>> \in Seq(Nat)
    BY DEF IInv, TypeOK
  <2>2. CASE stdout' = [stdout EXCEPT ![r] = <<>>]
    BY <2>1, <2>2
  <2> QED
    BY <1>3, <2>1, <2>2
<1> USE DEF clientVars, lifeVars, callVars
<1>6. TypeOK'
  BY <1>1, <1>5, <1>4 DEF IInv, TypeOK
<1>7. Life'
  BY <1>1, LifeKept DEF IInv, Life, QueuedOnReal
<1>8. Fresh'
  BY <1>1, <1>5 DEF IInv, Ids, Fresh, NotStarted, Untouched
<1>9. OwnIds' /\ DistinctIds'
  BY <1>1 DEF IInv, Ids, OwnIds, DistinctIds, Calling
<1>10. \A q \in Reals : /\ \A j : In(stdout'[q], j) => In(stdout[q], j)
                        /\ Distinct(stdout[q]) => Distinct(stdout'[q])
  BY <1>5, EmptyIn
<1>11. IdsTaken'
  <2>1. UNCHANGED <<nextID, inbox, responses, acked>>
    BY <1>1
  <2> QED
    BY <1>10, <2>1 DEF IInv, Ids, IdsTaken
<1>12. OnePlace'
  <2>1. \A q \in Reals, j \in Nat : Held(q, j)' => Held(q, j)
    BY <1>1 DEF Held, Holds
  <2>2. UNCHANGED <<inbox, responses, acked>>
    BY <1>1
  <2> QED
    BY <1>10, <2>1, <2>2 DEF IInv, Ids, OnePlace
<1> QED
  BY <1>6, <1>7, <1>8, <1>9, <1>11, <1>12 DEF IInv, Ids

-----------------------------------------------------------------------------
(* The theorems.                                                           *)

LEMMA NextIInv == IInv /\ [Next]_vars => IInv'
<1> SUFFICES ASSUME IInv, [Next]_vars PROVE IInv'
  OBVIOUS
<1>1. ASSUME NEW c \in Clients, ClientStep(c) PROVE IInv'
  BY <1>1, RequestIInv, UseRealIInv, SpawnRealIInv, SpawnFailsIInv, StartDoneIInv, StartFailsIInv,
     SendIInv, NotifyIInv, TakeOwnIInv, DropStaleIInv, CallFailsIInv, ReplyIInv, LeaveIInv
     DEF ClientStep
<1>2. ASSUME NEW r \in Reals, RealStep(r) PROVE IInv'
  BY <1>2, IdleTimeoutIInv, RealExitsIInv, AnswerIInv, PassOnIInv, AckIInv DEF RealStep
<1>3. CASE UNCHANGED vars
  <2> USE <1>3 DEF vars, clientVars, lifeVars
  <2>1. TypeOK'
    BY DEF callVars, pipeVars, IInv, TypeOK
  <2>2. Life'
    BY LifeKept DEF IInv, Life, QueuedOnReal
  <2>3. Ids'
    BY IdsKept DEF NotStarted, Calling
  <2> QED
    BY <2>1, <2>2, <2>3 DEF IInv
<1> QED
  BY <1>1, <1>2, <1>3, CloseIInv, StatusIInv DEF Next

\* The inductive invariant holds in every reachable state: an id is in one place
\* at most, and a process that serves is supervised.
THEOREM Invariant == Spec => []IInv
BY InitIInv, NextIInv, PTL DEF Spec

\* Every reachable state is well typed; the responses channel stays in its bound.
THEOREM TypeCorrect == Spec => []TypeOK
<1>1. IInv => TypeOK
  BY DEF IInv
<1> QED
  BY <1>1, Invariant, PTL

\* A client is given the response to its own request, however many clients share
\* the process and however late answers come (realClient.call).
THEOREM RepliesAreOwn == Spec => []ReplyIsOwn
BY OwnReply, Invariant, PTL

\* No ack channel is closed twice (realClient.call, Proxy.Run's afterWrite).
THEOREM AcksHaveOneOwner == Spec => []AckHasOneOwner
<1>1. IInv => AckHasOneOwner
  <2> SUFFICES ASSUME IInv, NEW r \in Reals
               PROVE  /\ Distinct(responses[r])
                      /\ \A k \in DOMAIN responses[r] :
                           /\ responses[r][k] \notin acked[r]
                           /\ \A c \in Clients : ~Holds(c, r, responses[r][k])
                      /\ \A c \in Clients, i \in acked[r] : ~Holds(c, r, i)
    BY DEF AckHasOneOwner, Distinct
  <2>1. responses[r] \in Seq(Nat) /\ acked[r] \subseteq Nat
    BY DEF IInv, TypeOK
  <2>2. \A k \in DOMAIN responses[r] : responses[r][k] \in Nat /\ In(responses[r], responses[r][k])
    BY <2>1 DEF In
  <2> QED
    BY <2>1, <2>2 DEF IInv, Ids, OnePlace, Held
<1> QED
  BY <1>1, Invariant, PTL

\* A real process that was not told to stop is the proxy's, with its idle timer
\* running, or is being started (ensureStdioReal, startReal, close).
THEOREM ServingIsManaged == Spec => []RunningIsManaged
<1>1. IInv => RunningIsManaged
  BY DEF IInv, Life
<1> QED
  BY <1>1, Invariant, PTL

-----------------------------------------------------------------------------
(* The proxy implements CallContract.                                      *)

PhaseView == [c \in Clients |-> PhaseOf(c)]
CallView  == [c \in Clients |-> CallOf(c)]
Pending   == CallsOf(inbox)
Answers   == CallsOf([r \in Reals |-> Answered(r)])

LEMMA AnsweredIs == \A r, i : i \in Answered(r) <=> In(stdout[r], i) \/ In(responses[r], i)
BY DEF Answered, Range, In

LEMMA PendingIs == \A k : k \in Pending <=> \E r \in Reals : \E i \in inbox[r] : k = <<r, i>>
BY DEF Pending, CallsOf

\* An answer is on its way when its id is in the pipe or the channel of its process.
LEMMA AnswersAre ==
  /\ \A k \in Answers : \E r \in Reals : \E i : k = <<r, i>>
  /\ \A r \in Reals : \A i : <<r, i>> \in Answers <=> In(stdout[r], i) \/ In(responses[r], i)
<1>1. \A k : k \in Answers <=> \E r \in Reals : \E i \in Answered(r) : k = <<r, i>>
  BY DEF Answers, CallsOf
<1>2. \A r \in Reals : \A i : <<r, i>> \in Answers <=> i \in Answered(r)
  BY <1>1
<1> QED
  BY <1>1, <1>2, AnsweredIs

LEMMA AnswersArePrimed ==
  /\ \A k \in Answers' : \E r \in Reals : \E i : k = <<r, i>>
  /\ \A r \in Reals : \A i : <<r, i>> \in Answers' <=> In(stdout'[r], i) \/ In(responses'[r], i)
<1>1. \A k : k \in Answers' <=> \E r \in Reals : \E i \in Answered(r)' : k = <<r, i>>
  BY DEF Answers, CallsOf
<1>2. \A r \in Reals : \A i : <<r, i>> \in Answers' <=> i \in Answered(r)'
  BY <1>1
<1>3. \A r, i : i \in Answered(r)' <=> In(stdout'[r], i) \/ In(responses'[r], i)
  BY DEF Answered, Range, In
<1> QED
  BY <1>1, <1>2, <1>3

\* A step of one client.
LEMMA ClientView ==
  ASSUME NEW c \in Clients,
         \A d \in Clients \ {c} : /\ pc'[d] = pc[d] /\ on'[d] = on[d]
                                  /\ id'[d] = id[d] /\ got'[d] = got[d]
  PROVE  /\ PhaseView' = [PhaseView EXCEPT ![c] = PhaseOf(c)']
         /\ CallView' = [CallView EXCEPT ![c] = CallOf(c)']
<1>1. \A d \in Clients \ {c} : PhaseOf(d)' = PhaseOf(d)
  BY DEF PhaseOf
<1>2. \A d \in Clients \ {c} : CallOf(d)' = CallOf(d)
  BY <1>1 DEF CallOf
<1> QED
  BY <1>1, <1>2 DEF PhaseView, CallView

LEMMA SamePhase ==
  ASSUME NEW c \in Clients,
         \A d \in Clients \ {c} : /\ pc'[d] = pc[d] /\ on'[d] = on[d]
                                  /\ id'[d] = id[d] /\ got'[d] = got[d],
         PhaseOf(c)' = PhaseOf(c), CallOf(c)' = CallOf(c)
  PROVE  PhaseView' = PhaseView /\ CallView' = CallView
BY ClientView DEF PhaseView, CallView

LEMMA SameClients == UNCHANGED clientVars => UNCHANGED <<PhaseView, CallView>>
BY DEF clientVars, PhaseView, CallView, PhaseOf, CallOf

LEMMA SameCalls == UNCHANGED <<inbox, stdout, responses>> => UNCHANGED <<Pending, Answers>>
BY DEF Pending, Answers, CallsOf, Answered

\* What a client does before it is given a number.
LEMMA RequestAsks == ASSUME IInv, NEW c \in Clients, Request(c) PROVE Promise!Ask(c)
<1>1. pc[c] = "idle" /\ pc' = [pc EXCEPT ![c] = "ensure"]
      /\ UNCHANGED <<on, id, got, nextID, inbox, stdout, responses>>
  BY DEF Request, Goto, callVars, pipeVars
<1>2. PhaseOf(c) = "idle" /\ PhaseOf(c)' = "asked" /\ CallOf(c)' = CallOf(c)
  BY <1>1 DEF PhaseOf, CallOf, IInv, TypeOK
<1>3. PhaseView' = [PhaseView EXCEPT ![c] = "asked"] /\ CallView' = CallView
  BY <1>1, <1>2, ClientView DEF CallView, IInv, TypeOK
<1>4. PhaseView[c] = "idle" /\ UNCHANGED <<nextID, Pending, Answers>>
  BY <1>1, <1>2, SameCalls DEF PhaseView
<1> QED
  BY <1>3, <1>4 DEF Promise!Ask, Promise!Enter, PhaseView, CallView, Pending, Answers

LEMMA NotifyDismisses == ASSUME IInv, NEW c \in Clients, Notify(c) PROVE Promise!Dismiss(c)
<1>1. pc[c] = "queue" /\ pc' = [pc EXCEPT ![c] = "idle"] /\ on' = [on EXCEPT ![c] = 0]
      /\ UNCHANGED <<id, got, nextID, inbox, stdout, responses>>
  BY DEF Notify, Goto, callVars, pipeVars
<1>2. PhaseOf(c) = "asked" /\ PhaseOf(c)' = "idle" /\ CallOf(c)' = CallOf(c)
  BY <1>1 DEF PhaseOf, CallOf, IInv, TypeOK
<1>3. PhaseView' = [PhaseView EXCEPT ![c] = "idle"] /\ CallView' = CallView
  BY <1>1, <1>2, ClientView DEF CallView, IInv, TypeOK
<1>4. PhaseView[c] = "asked" /\ UNCHANGED <<nextID, Pending, Answers>>
  BY <1>1, <1>2, SameCalls DEF PhaseView
<1> QED
  BY <1>3, <1>4 DEF Promise!Dismiss, Promise!Enter, PhaseView, CallView, Pending, Answers

LEMMA LeaveDeparts == ASSUME IInv, NEW c \in Clients, Leave(c) PROVE Promise!Depart(c)
<1>1. pc[c] = "idle" /\ pc' = [pc EXCEPT ![c] = "gone"]
      /\ UNCHANGED <<on, id, got, nextID, inbox, stdout, responses>>
  BY DEF Leave, Goto, callVars, pipeVars
<1>2. PhaseOf(c) = "idle" /\ PhaseOf(c)' = "gone" /\ CallOf(c)' = CallOf(c)
  BY <1>1 DEF PhaseOf, CallOf, IInv, TypeOK
<1>3. PhaseView' = [PhaseView EXCEPT ![c] = "gone"] /\ CallView' = CallView
  BY <1>1, <1>2, ClientView DEF CallView, IInv, TypeOK
<1>4. PhaseView[c] = "idle" /\ UNCHANGED <<nextID, Pending, Answers>>
  BY <1>1, <1>2, SameCalls DEF PhaseView
<1> QED
  BY <1>3, <1>4 DEF Promise!Depart, Promise!Enter, PhaseView, CallView, Pending, Answers

\* The contract sees no process being handed out or started.
LEMMA PreparingIsUnseen ==
  ASSUME IInv, NEW c \in Clients, UseReal(c) \/ SpawnReal(c)
  PROVE  UNCHANGED Promise!contractVars
<1>1. /\ pc[c] = "ensure" /\ \E p \in {"queue", "start"} : pc' = [pc EXCEPT ![c] = p]
      /\ \E r : on' = [on EXCEPT ![c] = r]
      /\ UNCHANGED <<id, got, nextID, inbox, stdout, responses>>
  BY DEF UseReal, SpawnReal, Goto, callVars, pipeVars
<1>2. PhaseOf(c)' = PhaseOf(c) /\ CallOf(c)' = CallOf(c)
  BY <1>1 DEF PhaseOf, CallOf, IInv, TypeOK
<1>3. UNCHANGED <<PhaseView, CallView>>
  BY <1>1, <1>2, SamePhase DEF IInv, TypeOK
<1> QED
  BY <1>1, <1>3, SameCalls DEF Promise!contractVars, PhaseView, CallView, Pending, Answers

LEMMA StartFailureRefuses ==
  ASSUME IInv, NEW c \in Clients, SpawnFails(c) \/ StartFails(c)
  PROVE  Promise!Refuse(c)
<1>1. /\ pc[c] \in {"ensure", "start"} /\ pc' = [pc EXCEPT ![c] = "write"] /\ got' = [got EXCEPT ![c] = 0]
      /\ UNCHANGED <<on, id, nextID, inbox, stdout, responses>>
  BY DEF SpawnFails, StartFails, Goto, callVars, pipeVars
<1>2. PhaseOf(c) = "asked" /\ PhaseOf(c)' = "failed" /\ CallOf(c)' = CallOf(c)
  BY <1>1 DEF PhaseOf, CallOf, IInv, TypeOK
<1>3. PhaseView' = [PhaseView EXCEPT ![c] = "failed"] /\ CallView' = CallView
  BY <1>1, <1>2, ClientView DEF CallView, IInv, TypeOK
<1>4. PhaseView[c] = "asked" /\ UNCHANGED <<nextID, Pending, Answers>>
  BY <1>1, <1>2, SameCalls DEF PhaseView
<1> QED
  BY <1>3, <1>4 DEF Promise!Refuse, Promise!Enter, PhaseView, CallView, Pending, Answers

\* The initialize exchange has the first id of a process nothing was sent to.
LEMMA StartIntroduces ==
  ASSUME IInv, NEW c \in Clients, StartDone(c)
  PROVE  \E s \in Reals : Promise!Introduce(s)
<1>1. /\ pc[c] = "start" /\ pc' = [pc EXCEPT ![c] = "queue"]
      /\ nextID' = [nextID EXCEPT ![on[c]] = 1]
      /\ UNCHANGED <<on, id, got, inbox, stdout, responses>>
  BY DEF StartDone, Goto
<1>2. on[c] \in Reals /\ NotStarted(on[c])
  BY <1>1, NoOneAssumption DEF IInv, Life, Starting, QueuedOnReal, NotStarted
<1>3. nextID[on[c]] = 0
  BY <1>2 DEF IInv, Ids, Fresh, Untouched
<1>4. PhaseOf(c)' = PhaseOf(c) /\ CallOf(c)' = CallOf(c)
  BY <1>1 DEF PhaseOf, CallOf, IInv, TypeOK
<1>5. UNCHANGED <<PhaseView, CallView>>
  BY <1>1, <1>4, SamePhase DEF IInv, TypeOK
<1>6. nextID' = [nextID EXCEPT ![on[c]] = @ + 1]
  BY <1>1, <1>2, <1>3 DEF IInv, TypeOK
<1>7. Promise!Introduce(on[c])
  BY <1>1, <1>3, <1>5, <1>6, SameCalls
     DEF Promise!Introduce, Promise!Numbered, PhaseView, CallView, Pending, Answers
<1> QED
  BY <1>2, <1>7

\* The number is taken before the request is written, and is not used again
\* when writing fails.
LEMMA SendPassesOrRefuses ==
  ASSUME IInv, NEW c \in Clients, Send(c)
  PROVE  Promise!Refuse(c) \/ \E s \in Reals : Promise!Pass(c, s)
<1> DEFINE r == on[c]
           n == nextID[r] + 1
<1>1. /\ pc[c] = "queue" /\ r \in Reals
      /\ nextID' = [nextID EXCEPT ![r] = @ + 1] /\ id' = [id EXCEPT ![c] = n]
      /\ UNCHANGED <<on, stdout, responses>>
  BY DEF Send, pipeVars, IInv, Life, QueuedOnReal
<1>2. n # 0 /\ PhaseView[c] = "asked" /\ CallView[c] = NoCall /\ Answers' = Answers
  BY <1>1 DEF PhaseView, CallView, PhaseOf, CallOf, Answers, CallsOf, Answered, IInv, TypeOK
<1>3. CASE /\ inbox' = [inbox EXCEPT ![r] = @ \cup {n}]
           /\ Goto(c, "wait")
           /\ UNCHANGED got
  <2>1. PhaseOf(c)' = "passed" /\ CallOf(c)' = <<r, n>>
    BY <1>1, <1>3 DEF Goto, PhaseOf, CallOf, IInv, TypeOK
  <2>2. /\ PhaseView' = [PhaseView EXCEPT ![c] = "passed"]
        /\ CallView' = [CallView EXCEPT ![c] = <<r, n>>]
    BY <1>1, <1>3, <2>1, ClientView DEF Goto, IInv, TypeOK
  <2>3. \A q \in Reals : inbox'[q] = IF q = r THEN inbox[r] \cup {n} ELSE inbox[q]
    BY <1>1, <1>3 DEF IInv, TypeOK
  <2>4. Pending' = Pending \cup {<<r, n>>}
    <3>1. \A k : k \in Pending' <=> \E q \in Reals : \E i \in inbox'[q] : k = <<q, i>>
      BY DEF Pending, CallsOf
    <3>2. \A k : k \in Pending' <=> k \in Pending \/ k = <<r, n>>
      BY <1>1, <2>3, <3>1, PendingIs
    <3> QED
      BY <3>2
  <2>5. Promise!Pass(c, r)
    BY <1>1, <1>2, <2>2, <2>4
       DEF Promise!Pass, Promise!Enter, Promise!Hold, Promise!NextCall, Promise!Numbered,
           PhaseView, CallView, Pending, Answers
  <2> QED
    BY <1>1, <2>5
<1>4. CASE got' = [got EXCEPT ![c] = 0] /\ Goto(c, "write") /\ inbox' = inbox
  <2>1. PhaseOf(c)' = "failed" /\ CallOf(c)' = NoCall
    BY <1>1, <1>4 DEF Goto, PhaseOf, CallOf, IInv, TypeOK
  <2>2. PhaseView' = [PhaseView EXCEPT ![c] = "failed"] /\ CallView' = CallView
    BY <1>1, <1>2, <1>4, <2>1, ClientView DEF Goto, CallView, IInv, TypeOK
  <2>3. Promise!Refuse(c)
    BY <1>1, <1>2, <1>4, <2>2, SameCalls
       DEF Promise!Refuse, Promise!Enter, Promise!Numbered, PhaseView, CallView, Pending, Answers
  <2> QED
    BY <2>3
<1> QED
  BY <1>3, <1>4 DEF Send

\* The response is in the channel only, so nobody can be given it again.
LEMMA TakeOwnGives == ASSUME IInv, NEW c \in Clients, TakeOwn(c) PROVE Promise!Give(c)
<1> DEFINE r == on[c]
           i == Head(responses[r])
<1>1. /\ pc[c] = "wait" /\ r \in Reals /\ i = id[c]
      /\ responses[r] \in Seq(Nat) /\ responses[r] # <<>>
      /\ pc' = [pc EXCEPT ![c] = "write"] /\ got' = [got EXCEPT ![c] = i]
      /\ UNCHANGED <<on, id, nextID, inbox, stdout>>
  BY DEF TakeOwn, Matches, Return, Goto, IInv, TypeOK, Life, QueuedOnReal
<1>2. /\ i \in Nat /\ In(responses[r], i) /\ ~In(stdout[r], i) /\ ~In(Tail(responses[r]), i)
      /\ \A j : In(Tail(responses[r]), j) => In(responses[r], j)
  BY <1>1, TailIn DEF IInv, Ids, OnePlace
<1>3. i # 0
  BY <1>1 DEF IInv, Ids, OwnIds, Calling, TypeOK
<1>4. \A j : In(responses[r], j) /\ j # i => In(Tail(responses[r]), j)
  BY <1>1, InHeadOrTail
<1>5. \A q \in Reals : responses'[q] = IF q = r THEN Tail(responses[r]) ELSE responses[q]
  BY <1>1 DEF TakeOwn, IInv, TypeOK
<1>6. PhaseOf(c) = "passed" /\ PhaseOf(c)' = "answered" /\ CallOf(c) = <<r, i>> /\ CallOf(c)' = <<r, i>>
  BY <1>1, <1>3 DEF PhaseOf, CallOf, IInv, TypeOK
<1>7. PhaseView' = [PhaseView EXCEPT ![c] = "answered"] /\ CallView' = CallView
  BY <1>1, <1>6, ClientView DEF CallView, IInv, TypeOK
<1>8. PhaseView[c] = "passed" /\ CallView[c] = <<r, i>> /\ Pending' = Pending
  BY <1>1, <1>6 DEF PhaseView, CallView, Pending, CallsOf
<1>9. <<r, i>> \in Answers
  BY <1>1, <1>2, AnswersAre
<1>10. Answers' = Answers \ {<<r, i>>}
  <2>1. \A q \in Reals : \A j : In(stdout[q], j) \/ In(responses'[q], j)
                                <=> (In(stdout[q], j) \/ In(responses[q], j)) /\ ~(q = r /\ j = i)
    BY <1>2, <1>4, <1>5
  <2>2. \A q \in Reals : \A j : <<q, j>> \in Answers' <=> <<q, j>> \in Answers /\ <<q, j>> # <<r, i>>
    BY <1>1, <2>1, AnswersAre, AnswersArePrimed
  <2> QED
    BY <2>2, AnswersAre, AnswersArePrimed
<1> QED
  BY <1>1, <1>7, <1>8, <1>9, <1>10
     DEF Promise!Give, Promise!Enter, PhaseView, CallView, Pending, Answers

LEMMA CallFailsGivesUp == ASSUME IInv, NEW c \in Clients, CallFails(c) PROVE Promise!GiveUp(c)
<1>1. /\ pc[c] = "wait" /\ pc' = [pc EXCEPT ![c] = "write"] /\ got' = [got EXCEPT ![c] = 0]
      /\ UNCHANGED <<on, id, nextID, inbox, stdout, responses>>
  BY DEF CallFails, Return, Goto, pipeVars
<1>2. PhaseOf(c) = "passed" /\ PhaseOf(c)' = "failed" /\ CallOf(c)' = NoCall
  BY <1>1 DEF PhaseOf, CallOf, IInv, TypeOK
<1>3. /\ PhaseView' = [PhaseView EXCEPT ![c] = "failed"]
      /\ CallView' = [CallView EXCEPT ![c] = NoCall]
  BY <1>1, <1>2, ClientView DEF IInv, TypeOK
<1>4. PhaseView[c] = "passed" /\ UNCHANGED <<nextID, Pending, Answers>>
  BY <1>1, <1>2, SameCalls DEF PhaseView
<1> QED
  BY <1>3, <1>4 DEF Promise!GiveUp, Promise!Enter, Promise!Hold, PhaseView, CallView, Pending, Answers

LEMMA ReplyFinishes == ASSUME IInv, NEW c \in Clients, Reply(c) PROVE Promise!Finish(c)
<1>1. /\ pc[c] = "write" /\ \E p \in {"idle", "gone"} : pc' = [pc EXCEPT ![c] = p]
      /\ got' = [got EXCEPT ![c] = 0] /\ on' = [on EXCEPT ![c] = 0] /\ id' = [id EXCEPT ![c] = 0]
      /\ UNCHANGED <<nextID, inbox, stdout, responses>>
  BY DEF Reply, Goto, callVars
<1>2. /\ PhaseOf(c) \in {"answered", "failed"} /\ PhaseOf(c)' \in {"idle", "gone"}
      /\ CallOf(c)' = NoCall
  BY <1>1 DEF PhaseOf, CallOf, IInv, TypeOK
<1>3. /\ PhaseView' = [PhaseView EXCEPT ![c] = "idle"] \/ PhaseView' = [PhaseView EXCEPT ![c] = "gone"]
      /\ CallView' = [CallView EXCEPT ![c] = NoCall]
  BY <1>1, <1>2, ClientView DEF IInv, TypeOK
<1>4. PhaseView[c] \in {"answered", "failed"} /\ UNCHANGED <<nextID, Pending, Answers>>
  BY <1>1, <1>2, SameCalls DEF PhaseView
<1> QED
  BY <1>3, <1>4 DEF Promise!Finish, Promise!Enter, Promise!Hold, PhaseView, CallView, Pending, Answers

\* Nothing is added to the pipe or the channel: a late answer is dropped, or
\* a process ends.
LEMMA LosingLoses ==
  ASSUME UNCHANGED <<clientVars, nextID>>,
         \A r \in Reals : inbox'[r] \subseteq inbox[r],
         \A r \in Reals : \A i : In(stdout'[r], i) => In(stdout[r], i),
         \A r \in Reals : \A i : In(responses'[r], i) => In(responses[r], i)
  PROVE  Promise!Lose
<1>1. Pending' \subseteq Pending
  <2>1. \A k : k \in Pending' <=> \E q \in Reals : \E i \in inbox'[q] : k = <<q, i>>
    BY DEF Pending, CallsOf
  <2> QED
    BY <2>1, PendingIs
<1>2. Answers' \subseteq Answers
  <2>1. \A q \in Reals : \A j : <<q, j>> \in Answers' => <<q, j>> \in Answers
    BY AnswersAre, AnswersArePrimed
  <2> QED
    BY <2>1, AnswersArePrimed
<1> QED
  BY <1>1, <1>2, SameClients DEF Promise!Lose, PhaseView, CallView, Pending, Answers

LEMMA StaleIsLost ==
  ASSUME IInv
  PROVE  /\ \A c \in Clients : DropStale(c) => Promise!Lose
         /\ \A r \in Reals : RealExits(r) \/ AckGivenUp(r) => Promise!Lose
<1> USE DEF IInv, TypeOK
<1>1. ASSUME NEW c \in Clients, DropStale(c) PROVE Promise!Lose
  <2> DEFINE r == on[c]
  <2>1. /\ r \in Reals /\ responses[r] \in Seq(Nat) /\ responses[r] # <<>>
        /\ responses' = [responses EXCEPT ![r] = Tail(responses[r])]
        /\ UNCHANGED <<clientVars, nextID, inbox, stdout>>
    BY <1>1 DEF DropStale, callVars, Life, QueuedOnReal
  <2>2. \A i : In(Tail(responses[r]), i) => In(responses[r], i)
    BY <2>1, TailIn
  <2>3. \A q \in Reals : \A i : In(responses'[q], i) => In(responses[q], i)
    BY <2>1, <2>2
  <2> QED
    BY <2>1, <2>3, LosingLoses
<1>2. ASSUME NEW r \in Reals, RealExits(r) PROVE Promise!Lose
  <2>1. PICK n \in 0..Len(stdout[r]) : stdout' = [stdout EXCEPT ![r] = SubSeq(stdout[r], 1, n)]
    BY <1>2 DEF RealExits
  <2>2. \A i : In(SubSeq(stdout[r], 1, n), i) => In(stdout[r], i)
    BY PrefixIn
  <2>3. \A q \in Reals : \A i : In(stdout'[q], i) => In(stdout[q], i)
    BY <2>1, <2>2
  <2>4. UNCHANGED <<clientVars, nextID, responses>> /\ \A q \in Reals : inbox'[q] \subseteq inbox[q]
    BY <1>2 DEF RealExits
  <2> QED
    BY <2>3, <2>4, LosingLoses
<1>3. ASSUME NEW r \in Reals, AckGivenUp(r) PROVE Promise!Lose
  <2>1. /\ UNCHANGED <<clientVars, nextID, inbox, responses>>
        /\ stdout' = stdout \/ stdout' = [stdout EXCEPT ![r] = <<>>]
    BY <1>3 DEF AckGivenUp, callVars
  <2>2. \A q \in Reals : \A i : In(stdout'[q], i) => In(stdout[q], i)
    BY <2>1, EmptyIn
  <2> QED
    BY <2>1, <2>2, LosingLoses
<1> QED
  BY <1>1, <1>2, <1>3

LEMMA AnswerResponds ==
  ASSUME IInv, NEW r \in Reals, Answer(r)
  PROVE  \E k \in Pending : Promise!Respond(k)
<1>1. PICK i \in inbox[r] : /\ inbox' = [inbox EXCEPT ![r] = @ \ {i}]
                            /\ stdout' = [stdout EXCEPT ![r] = Append(@, i)]
  BY DEF Answer
<1>2. /\ UNCHANGED <<clientVars, nextID, responses>>
      /\ i \in Nat /\ stdout[r] \in Seq(Nat)
  BY DEF Answer, IInv, TypeOK
<1>3. \A q \in Reals : inbox'[q] = IF q = r THEN inbox[r] \ {i} ELSE inbox[q]
  BY <1>1 DEF IInv, TypeOK
<1>4. \A q \in Reals : stdout'[q] = IF q = r THEN Append(stdout[r], i) ELSE stdout[q]
  BY <1>1 DEF IInv, TypeOK
<1>5. \A j : In(Append(stdout[r], i), j) <=> In(stdout[r], j) \/ j = i
  BY <1>2, AppendIn
<1>6. Pending' = Pending \ {<<r, i>>}
  <2>1. \A k : k \in Pending' <=> \E q \in Reals : \E j \in inbox'[q] : k = <<q, j>>
    BY DEF Pending, CallsOf
  <2>2. \A k : k \in Pending' <=> k \in Pending /\ k # <<r, i>>
    BY <1>3, <2>1, PendingIs
  <2> QED
    BY <2>2
<1>7. Answers' = Answers \cup {<<r, i>>}
  <2>1. \A q \in Reals : \A j : In(stdout'[q], j) \/ In(responses[q], j)
                                <=> In(stdout[q], j) \/ In(responses[q], j) \/ (q = r /\ j = i)
    BY <1>4, <1>5
  <2>2. \A q \in Reals : \A j : <<q, j>> \in Answers' <=> <<q, j>> \in Answers \/ <<q, j>> = <<r, i>>
    BY <1>2, <2>1, AnswersAre, AnswersArePrimed
  <2> QED
    BY <2>2, AnswersAre, AnswersArePrimed
<1>8. <<r, i>> \in Pending
  BY PendingIs
<1>9. Promise!Respond(<<r, i>>)
  BY <1>2, <1>6, <1>7, <1>8, SameClients DEF Promise!Respond, PhaseView, CallView, Pending, Answers
<1> QED
  BY <1>8, <1>9

\* The pipe and the channel are one to the contract.
LEMMA PassOnIsUnseen == ASSUME IInv, NEW r \in Reals, PassOn(r) PROVE UNCHANGED Promise!contractVars
<1> DEFINE i == Head(stdout[r])
<1>1. /\ stdout[r] \in Seq(Nat) /\ stdout[r] # <<>> /\ responses[r] \in Seq(Nat)
      /\ UNCHANGED <<clientVars, nextID, inbox>>
  BY DEF PassOn, callVars, IInv, TypeOK
<1>2. \A q \in Reals : /\ stdout'[q] = IF q = r THEN Tail(stdout[r]) ELSE stdout[q]
                       /\ responses'[q] = IF q = r THEN Append(responses[r], i) ELSE responses[q]
  BY DEF PassOn, IInv, TypeOK
<1>3. i \in Nat /\ In(stdout[r], i) /\ \A j : In(Tail(stdout[r]), j) => In(stdout[r], j)
  BY <1>1, TailIn
<1>4. \A j : In(Append(responses[r], i), j) <=> In(responses[r], j) \/ j = i
  BY <1>1, <1>3, AppendIn
<1>5. \A j : In(stdout[r], j) => In(Tail(stdout[r]), j) \/ j = i
  BY <1>1, InHeadOrTail
<1>6. Answers' = Answers
  <2>1. \A q \in Reals : \A j : In(stdout'[q], j) \/ In(responses'[q], j)
                                <=> In(stdout[q], j) \/ In(responses[q], j)
    BY <1>2, <1>3, <1>4, <1>5
  <2>2. \A q \in Reals : \A j : <<q, j>> \in Answers' <=> <<q, j>> \in Answers
    BY <2>1, AnswersAre, AnswersArePrimed
  <2>3. \A k \in Answers' : k \in Answers
    BY <2>2, AnswersArePrimed
  <2>4. \A k \in Answers : k \in Answers'
    BY <2>2, AnswersAre
  <2> QED
    BY <2>3, <2>4
<1>7. Pending' = Pending
  BY <1>1 DEF Pending, CallsOf
<1> QED
  BY <1>1, <1>6, <1>7, SameClients DEF Promise!contractVars, PhaseView, CallView, Pending, Answers

LEMMA InitPromise == Init => Promise!ContractInit
<1> SUFFICES ASSUME Init PROVE Promise!ContractInit
  OBVIOUS
<1>1. PhaseView = [c \in Clients |-> "idle"] /\ CallView = [c \in Clients |-> NoCall]
  BY DEF Init, PhaseView, CallView, PhaseOf, CallOf
<1>2. Pending = {}
  BY PendingIs DEF Init
<1>3. Answers = {}
  BY AnswersAre, EmptyIn DEF Init
<1> QED
  BY <1>1, <1>2, <1>3 DEF Init, Promise!ContractInit, PhaseView, CallView, Pending, Answers

\* Every step of the proxy is a step of the contract or leaves its view alone.
LEMMA StepPromise == ASSUME IInv, [Next]_vars PROVE [Promise!ContractNext]_(Promise!contractVars)
<1> USE DEF Promise!ContractNext
<1>1. ASSUME NEW c \in Clients, ClientStep(c) PROVE Promise!ContractNext \/ UNCHANGED Promise!contractVars
  <2>1. CASE Request(c) \/ Notify(c) \/ Leave(c)
    BY <2>1, RequestAsks, NotifyDismisses, LeaveDeparts
  <2>2. CASE UseReal(c) \/ SpawnReal(c)
    BY <2>2, PreparingIsUnseen
  <2>3. CASE SpawnFails(c) \/ StartFails(c)
    BY <2>3, StartFailureRefuses
  <2>4. CASE StartDone(c)
    BY <2>4, StartIntroduces
  <2>5. CASE Send(c)
    BY <2>5, SendPassesOrRefuses
  <2>6. CASE TakeOwn(c) \/ CallFails(c) \/ Reply(c)
    BY <2>6, TakeOwnGives, CallFailsGivesUp, ReplyFinishes
  <2>7. CASE DropStale(c)
    BY <2>7, StaleIsLost
  <2> QED
    BY <1>1, <2>1, <2>2, <2>3, <2>4, <2>5, <2>6, <2>7 DEF ClientStep
<1>2. ASSUME NEW r \in Reals, RealStep(r) PROVE Promise!ContractNext \/ UNCHANGED Promise!contractVars
  <2>1. CASE RealExits(r) \/ AckGivenUp(r)
    BY <2>1, StaleIsLost
  <2>2. CASE Answer(r)
    BY <2>2, AnswerResponds DEF Pending
  <2>3. CASE PassOn(r)
    BY <2>3, PassOnIsUnseen
  <2>4. CASE IdleTimeout(r) \/ AckArrives(r)
    <3>1. UNCHANGED <<clientVars, nextID, inbox, stdout, responses>>
      BY <2>4 DEF IdleTimeout, AckArrives, callVars, pipeVars
    <3> QED
      BY <3>1, SameClients, SameCalls DEF Promise!contractVars, PhaseView, CallView, Pending, Answers
  <2> QED
    BY <1>2, <2>1, <2>2, <2>3, <2>4 DEF RealStep
<1>3. CASE Close \/ Status \/ UNCHANGED vars
  <2>1. UNCHANGED <<clientVars, nextID, inbox, stdout, responses>>
    BY <1>3 DEF Close, Status, vars, callVars, pipeVars
  <2> QED
    BY <2>1, SameClients, SameCalls DEF Promise!contractVars, PhaseView, CallView, Pending, Answers
<1> QED
  BY <1>1, <1>2, <1>3 DEF Next

\* A request reaches a real process once at most and an answer reaches the client
\* whose own it is, once, whatever is late, lost or restarted in between
\* (Proxy.Run, handleRequest, forward, realClient.call and readLoop).
THEOREM CallsAreKept == Spec => KeepsCallContract
<1>1. IInv /\ [Next]_vars => [Promise!ContractNext]_(Promise!contractVars)
  BY StepPromise
<1> QED
  BY <1>1, InitPromise, Invariant, PTL DEF Spec, KeepsCallContract, Promise!Contract

=============================================================================
