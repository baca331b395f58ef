-------------------------- MODULE ToolsCacheProofs --------------------------
(***************************************************************************)
(* Proofs about ToolsCache, for any set of clients, any capacity of a      *)
(* subscription and any number of changes, calls and unread messages.      *)
(***************************************************************************)
EXTENDS ToolsCache, TLAPS

-----------------------------------------------------------------------------
(* The inductive invariant.                                                *)

\* callMu is held by the client that waits; a client has an id from its call until
\* its reply, and no other client has it.
CallIds ==
  /\ \A c \in Clients : callMu = c <=> pc[c] = "wait"
  /\ \A c \in Clients : pc[c] \in {"idle", "miss", "queue"} => id[c] = 0
  /\ \A c \in Clients : pc[c] \in {"wait", "fill"} => id[c] # 0
  /\ \A c \in Clients : id[c] <= nextID
  /\ \A c, d \in Clients : id[c] = id[d] /\ id[c] # 0 => c = d

Answers(m, i) == m.kind = "list" /\ m.id = i
Listed(s, i)  == \E k \in DOMAIN s : Answers(s[k], i)
Single(s)     == \A j, k \in DOMAIN s : s[j].kind = "list" /\ Answers(s[k], s[j].id) => j = k
Taken(i)      == \E c \in Clients : pc[c] \in {"fill", "reply"} /\ id[c] = i

\* A call was made, and it or its answer is in one place: with the server, in its
\* pipe, in the channel, or with the client that took the answer.
InOnePlace(i) ==
  /\ i \in asked \/ Listed(stdout, i) \/ Listed(responses, i) => i <= nextID
  /\ i \in asked => ~Listed(stdout, i) /\ ~Listed(responses, i) /\ ~Taken(i)
  /\ Listed(stdout, i) => ~Listed(responses, i) /\ ~Taken(i)
  /\ Listed(responses, i) => ~Taken(i)
OnePlace == Single(stdout) /\ Single(responses) /\ \A i \in 1..MaxCalls : InOnePlace(i)

\* No client was told, or is about to be told, of a version above v.
HeardBelow(v) ==
  \A c \in Clients :
    /\ told[c] <= v
    /\ \A k \in DOMAIN note[c] : note[c][k].ver <= v
    /\ \A k \in DOMAIN queue[c] : queue[c][k].ver <= v

\* The pipe is in the order of the versions, what it tells was not heard of
\* before, and a list in it that is out of date is followed by the news.
Order ==
  /\ HeardBelow(ver)
  /\ \A k \in DOMAIN stdout : stdout[k].ver <= ver
  /\ \A v \in Versions, k \in DOMAIN stdout :
       stdout[k].kind # "other" /\ stdout[k].ver = v => HeardBelow(v)
  /\ \A j, k \in DOMAIN stdout :
       j < k /\ stdout[k].kind # "other" => stdout[j].ver <= stdout[k].ver
  /\ \A k \in DOMAIN stdout : stdout[k].kind = "list" /\ stdout[k].ver < ver =>
       \E j \in DOMAIN stdout : j > k /\ Announces(stdout[j], stdout[k].ver)

\* The list at version v is the newest anybody has heard of, and the news is unread.
UpToDate(v) == v <= ver /\ HeardBelow(v) /\ (v < ver => Carries(stdout, v))

\* While a list may still be cached the read loop waits for its ack.
HeldBack ==
  "overtaken" \notin faults =>
    \A c \in Clients, v \in Versions :
      /\ \A k \in DOMAIN responses :
           pc[c] = "wait" /\ responses[k].id = id[c] /\ responses[k].ver = v =>
             loop = id[c] /\ UpToDate(v)
      /\ pc[c] = "fill" /\ held[c] = v => loop = id[c] /\ UpToDate(v)

\* What answers a request is not older than what its client had been told.
SinceTold ==
  /\ \A k \in DOMAIN responses : responses[k].ver <= ver
  /\ \A c \in Clients :
       /\ since[c] <= ver
       /\ pc[c] = "wait" =>
            /\ \A k \in DOMAIN stdout : Answers(stdout[k], id[c]) => since[c] <= stdout[k].ver
            /\ \A k \in DOMAIN responses : responses[k].id = id[c] => since[c] <= responses[k].ver
       /\ pc[c] = "fill" => since[c] <= held[c] /\ held[c] <= ver

Lapses == faults \cap {"overtaken", "kept", "refreshed"}

\* No client was told of a version above the one cached.
Cached ==
  cache # NoList =>
    /\ cache <= ver
    /\ Lapses = {} =>
         \A c \in Clients :
           told[c] <= cache /\ \A k \in DOMAIN note[c] : note[c][k].ver <= cache

Calls == CallIds /\ OnePlace
News == Order /\ HeldBack /\ SinceTold
Answered == Cached /\ StaleIsDoomed /\ NeverOlderThanTold
IInv == TypeOK /\ Calls /\ News /\ Answered

-----------------------------------------------------------------------------
(* Messages and sequences of them.                                         *)

Messages == Notes \cup Lists

LEMMA MessageFields ==
  ASSUME NEW m \in Messages
  PROVE  /\ m.ver \in Versions /\ m.ver \in Nat /\ m.id \in 0..MaxCalls
         /\ m.kind = "list" => m.id \in 1..MaxCalls
         /\ m.kind = "list" <=> m \in Lists
         /\ m.kind # "list" => m \in Notes
         /\ m.kind = "other" => m.ver = 0
BY BoundsAssumption DEF Messages, Notes, Lists, List, Changed, OtherNote, Versions

LEMMA MadeMessages ==
  /\ OtherNote \in Notes /\ OtherNote.kind = "other" /\ OtherNote.ver = 0
  /\ \A v \in Versions : Changed(v) \in Notes /\ Changed(v).kind = "changed" /\ Changed(v).ver = v
  /\ \A i \in 1..MaxCalls, v \in Versions :
       /\ List(i, v) \in Lists
       /\ List(i, v).kind = "list" /\ List(i, v).id = i /\ List(i, v).ver = v
BY DEF Notes, Lists, List, Changed, OtherNote

LEMMA Elements ==
  ASSUME TypeOK
  PROVE  /\ \A k \in DOMAIN stdout : stdout[k] \in Messages
         /\ \A k \in DOMAIN responses : responses[k] \in Messages /\ responses[k].kind = "list"
         /\ \A c \in Clients : \A k \in DOMAIN queue[c] : queue[c][k] \in Messages
         /\ \A c \in Clients : \A k \in DOMAIN note[c] : note[c][k] \in Messages
<1>1. /\ stdout \in Seq(Messages) /\ responses \in Seq(Lists)
      /\ \A c \in Clients : queue[c] \in Seq(Notes) /\ note[c] \in Seq(Notes)
  BY DEF TypeOK, Messages
<1>2. \A m \in Lists : m.kind = "list"
  BY MessageFields DEF Messages
<1> QED
  BY <1>1, <1>2 DEF Messages

LEMMA Appended ==
  ASSUME NEW S, NEW s \in Seq(S), NEW m \in S
  PROVE  /\ Append(s, m) \in Seq(S) /\ Len(s) \in Nat /\ Len(Append(s, m)) = Len(s) + 1
         /\ DOMAIN s = 1..Len(s) /\ DOMAIN Append(s, m) = 1..(Len(s) + 1)
         /\ \A k \in 1..Len(s) : Append(s, m)[k] = s[k]
         /\ Append(s, m)[Len(s) + 1] = m
OBVIOUS

LEMMA Beheaded ==
  ASSUME NEW S, NEW s \in Seq(S), s # <<>>
  PROVE  /\ Tail(s) \in Seq(S) /\ Head(s) \in S /\ Head(s) = s[1]
         /\ Len(s) \in Nat \ {0} /\ Len(Tail(s)) = Len(s) - 1
         /\ DOMAIN s = 1..Len(s) /\ DOMAIN Tail(s) = 1..(Len(s) - 1)
         /\ \A k \in 1..(Len(s) - 1) : Tail(s)[k] = s[k + 1]
OBVIOUS

\* The announcements and the answers of a sequence that grew by a message.
LEMMA AppendCarries ==
  ASSUME NEW s \in Seq(Messages), NEW m \in Messages
  PROVE  /\ \A v : Carries(Append(s, m), v) <=> Carries(s, v) \/ Announces(m, v)
         /\ \A i : Listed(Append(s, m), i) <=> Listed(s, i) \/ Answers(m, i)
         /\ Single(s) /\ (m.kind = "list" => ~Listed(s, m.id)) => Single(Append(s, m))
<1> DEFINE t == Append(s, m)
           n == Len(s) + 1
<1>1. /\ n \in Nat \ {0} /\ DOMAIN s = 1..(n - 1) /\ DOMAIN t = 1..n
      /\ \A k \in 1..(n - 1) : t[k] = s[k]
      /\ t[n] = m
  BY Appended
<1> HIDE DEF t, n
<1>2. /\ n \in DOMAIN t
      /\ \A k \in DOMAIN t : k \in DOMAIN s \/ k = n
      /\ \A k \in DOMAIN s : k \in DOMAIN t /\ t[k] = s[k]
  BY <1>1
<1>3. \A v : Carries(t, v) <=> Carries(s, v) \/ Announces(m, v)
  BY <1>1, <1>2 DEF Carries
<1>4. \A i : Listed(t, i) <=> Listed(s, i) \/ Answers(m, i)
  BY <1>1, <1>2 DEF Listed
<1>5. ASSUME Single(s), m.kind = "list" => ~Listed(s, m.id) PROVE Single(t)
  <2>1. SUFFICES ASSUME NEW j \in DOMAIN t, NEW k \in DOMAIN t,
                        t[j].kind = "list", Answers(t[k], t[j].id)
                 PROVE  j = k
    BY DEF Single
  <2>2. CASE j \in DOMAIN s /\ k \in DOMAIN s
    BY <1>2, <1>5, <2>1, <2>2 DEF Single
  <2>3. CASE j = n /\ k \in DOMAIN s
    BY <1>1, <1>2, <1>5, <2>1, <2>3 DEF Listed, Answers
  <2>4. CASE k = n /\ j \in DOMAIN s
    BY <1>1, <1>2, <1>5, <2>1, <2>4 DEF Listed, Answers
  <2> QED
    BY <1>2, <2>2, <2>3, <2>4
<1> QED
  BY <1>3, <1>4, <1>5 DEF t

\* ... and of one that lost its first message.
LEMMA TailCarries ==
  ASSUME NEW s \in Seq(Messages), s # <<>>
  PROVE  /\ \A v : Carries(s, v) <=> Carries(Tail(s), v) \/ Announces(Head(s), v)
         /\ \A i : Listed(s, i) <=> Listed(Tail(s), i) \/ Answers(Head(s), i)
         /\ Single(s) => Single(Tail(s))
         /\ Single(s) /\ Head(s).kind = "list" => ~Listed(Tail(s), Head(s).id)
<1> DEFINE t == Tail(s)
           n == Len(s)
           h == Head(s)
<1>1. /\ n \in Nat \ {0} /\ DOMAIN s = 1..n /\ DOMAIN t = 1..(n - 1) /\ h = s[1]
      /\ \A k \in 1..(n - 1) : t[k] = s[k + 1]
  BY Beheaded
<1> HIDE DEF t, n, h
<1>2. /\ 1 \in DOMAIN s
      /\ \A k \in DOMAIN t : k + 1 \in DOMAIN s /\ k + 1 # 1 /\ t[k] = s[k + 1]
  BY <1>1
<1>3. \A k \in DOMAIN s : k = 1 \/ (\E j \in DOMAIN t : t[j] = s[k])
  <2>1. \A k \in DOMAIN s : k = 1 \/ (k - 1 \in DOMAIN t /\ (k - 1) + 1 = k)
    BY <1>1
  <2> QED
    BY <1>2, <2>1
<1>4. \A v : Carries(s, v) <=> Carries(t, v) \/ Announces(h, v)
  BY <1>1, <1>2, <1>3 DEF Carries
<1>5. \A i : Listed(s, i) <=> Listed(t, i) \/ Answers(h, i)
  BY <1>1, <1>2, <1>3 DEF Listed
<1>6. ASSUME Single(s) PROVE Single(t)
  <2>1. \A j, k \in DOMAIN t : t[j].kind = "list" /\ Answers(t[k], t[j].id) => j + 1 = k + 1
    BY <1>2, <1>6 DEF Single
  <2>2. \A j, k \in DOMAIN t : j + 1 = k + 1 => j = k
    BY <1>1
  <2> QED
    BY <2>1, <2>2 DEF Single
<1>7. ASSUME Single(s), h.kind = "list" PROVE ~Listed(t, h.id)
  BY <1>1, <1>2, <1>7 DEF Single, Listed
<1> QED
  BY <1>4, <1>5, <1>6, <1>7 DEF t, h

LEMMA Numbers ==
  ASSUME TypeOK
  PROVE  /\ \A v \in Versions : v \in Nat
         /\ ver \in Versions /\ nextID \in Nat /\ loop \in Nat
         /\ cache # NoList => cache \in Versions
         /\ \A c \in Clients :
              /\ told[c] \in Versions /\ since[c] \in Versions /\ held[c] \in Versions
              /\ id[c] \in Nat
              /\ \A k \in DOMAIN note[c] : note[c][k].ver \in Versions
              /\ \A k \in DOMAIN queue[c] : queue[c][k].ver \in Versions
         /\ \A k \in DOMAIN stdout : stdout[k].ver \in Versions
         /\ \A k \in DOMAIN responses :
              responses[k].ver \in Versions /\ responses[k].id \in 1..MaxCalls
<1>1. /\ \A v \in Versions : v \in Nat
      /\ ver \in Versions /\ nextID \in Nat /\ loop \in Nat
      /\ cache # NoList => cache \in Versions
      /\ \A c \in Clients : /\ told[c] \in Versions /\ since[c] \in Versions /\ held[c] \in Versions
                            /\ id[c] \in Nat
  BY BoundsAssumption DEF TypeOK, Versions
<1>2. \A m \in Messages : m.ver \in Versions /\ (m.kind = "list" => m.id \in 1..MaxCalls)
  BY MessageFields
<1> QED
  BY <1>1, <1>2, Elements

-----------------------------------------------------------------------------
(* Init => IInv                                                            *)

LEMMA InitIInv == Init => IInv
<1> SUFFICES ASSUME Init PROVE IInv
  OBVIOUS
<1>1. TypeOK
  <2>1. 0 \in Versions /\ 0 \in 0..MaxCalls
    BY BoundsAssumption DEF Versions
  <2>2. Len(<<>>) = 0 /\ 0 <= SubCap
    BY BoundsAssumption
  <2>3. <<>> \in Seq(Notes) /\ <<>> \in Seq(Lists) /\ <<>> \in Seq(Notes \cup Lists)
    OBVIOUS
  <2> QED
    BY <2>1, <2>2, <2>3 DEF Init, TypeOK, Phases
<1>2. Calls
  BY NoOneAssumption DEF Init, Calls, CallIds, OnePlace, InOnePlace, Listed, Single, Taken
<1>3. News
  BY DEF Init, News, Order, HeldBack, SinceTold, HeardBelow
<1>4. Answered
  BY DEF Init, Answered, Cached, StaleIsDoomed, NeverOlderThanTold
<1> QED
  BY <1>1, <1>2, <1>3, <1>4 DEF IInv

-----------------------------------------------------------------------------
(* What a step keeps when it leaves the rest alone.                        *)

LEMMA CallIdsKept ==
  ASSUME CallIds, UNCHANGED <<callMu, nextID>>, nextID \in Nat,
         \A c \in Clients : (pc'[c] = "wait") <=> (pc[c] = "wait"),
         \A c \in Clients : id'[c] = id[c] \/ id'[c] = 0,
         \A c \in Clients : pc'[c] \in {"idle", "miss", "queue"} => id'[c] = 0,
         \A c \in Clients : pc'[c] \in {"wait", "fill"} => id'[c] # 0
  PROVE  CallIds'
BY DEF CallIds

LEMMA OnePlaceKept ==
  ASSUME OnePlace, UNCHANGED <<asked, stdout, responses, nextID>>,
         \A c \in Clients : id'[c] # 0 => id'[c] = id[c],
         \A c \in Clients : pc'[c] \in {"fill", "reply"} =>
           pc[c] \in {"fill", "reply"} \/ id'[c] = 0
  PROVE  OnePlace'
<1>1. \A i \in 1..MaxCalls : Taken(i)' => Taken(i)
  BY DEF Taken
<1> QED
  BY <1>1 DEF OnePlace, InOnePlace, Listed, Single

LEMMA OrderKept ==
  ASSUME TypeOK, Order, UNCHANGED <<ver, stdout>>,
         \A v \in Versions : HeardBelow(v) => HeardBelow(v)'
  PROVE  Order'
<1>1. HeardBelow(ver)'
  BY Numbers DEF Order, HeardBelow
<1> QED
  BY <1>1 DEF Order

LEMMA HeardKept == ASSUME UNCHANGED noteVars PROVE \A v \in Versions : HeardBelow(v) => HeardBelow(v)'
BY DEF HeardBelow, noteVars

LEMMA UpToDateKept ==
  ASSUME UNCHANGED <<ver, stdout>>,
         \A v \in Versions : HeardBelow(v) => HeardBelow(v)'
  PROVE  \A v \in Versions : UpToDate(v) => UpToDate(v)'
BY DEF UpToDate, Carries

LEMMA HeldBackKept ==
  ASSUME HeldBack, "overtaken" \in faults => "overtaken" \in faults',
         \A k \in DOMAIN responses' : \E j \in DOMAIN responses : responses'[k] = responses[j],
         \A c \in Clients : pc'[c] \in {"wait", "fill"} =>
           /\ pc'[c] = pc[c] /\ id'[c] = id[c]
           /\ pc[c] = "fill" => held'[c] = held[c]
           /\ loop = id[c] => loop' = loop,
         \A v \in Versions : UpToDate(v) => UpToDate(v)'
  PROVE  HeldBack'
<1> SUFFICES ASSUME "overtaken" \notin faults', NEW c \in Clients, NEW v \in Versions
             PROVE  /\ \A k \in DOMAIN responses' :
                         pc'[c] = "wait" /\ responses'[k].id = id'[c] /\ responses'[k].ver = v =>
                           loop' = id'[c] /\ UpToDate(v)'
                    /\ pc'[c] = "fill" /\ held'[c] = v => loop' = id'[c] /\ UpToDate(v)'
  BY DEF HeldBack
<1>1. /\ \A k \in DOMAIN responses :
           pc[c] = "wait" /\ responses[k].id = id[c] /\ responses[k].ver = v =>
             loop = id[c] /\ UpToDate(v)
      /\ pc[c] = "fill" /\ held[c] = v => loop = id[c] /\ UpToDate(v)
  BY DEF HeldBack
<1> QED
  BY <1>1

LEMMA SinceToldKept ==
  ASSUME TypeOK, SinceTold, ver' \in Nat, ver <= ver',
         \A k \in DOMAIN stdout' : \E j \in DOMAIN stdout : stdout'[k] = stdout[j],
         \A k \in DOMAIN responses' : \E j \in DOMAIN responses : responses'[k] = responses[j],
         \A c \in Clients : since'[c] \in Nat /\ since'[c] <= ver,
         \A c \in Clients : pc'[c] \in {"wait", "fill"} =>
           /\ pc'[c] = pc[c] /\ id'[c] = id[c] /\ since'[c] = since[c]
           /\ pc[c] = "fill" => held'[c] = held[c]
  PROVE  SinceTold'
<1>1. \A k \in DOMAIN responses' : responses'[k].ver <= ver'
  BY Numbers DEF SinceTold
<1>2. \A c \in Clients : since'[c] <= ver'
  BY Numbers
<1>3. ASSUME NEW c \in Clients, pc'[c] = "wait"
      PROVE  /\ \A k \in DOMAIN stdout' : Answers(stdout'[k], id'[c]) => since'[c] <= stdout'[k].ver
             /\ \A k \in DOMAIN responses' :
                  responses'[k].id = id'[c] => since'[c] <= responses'[k].ver
  BY <1>3 DEF SinceTold
<1>4. \A c \in Clients : pc'[c] = "fill" => since'[c] <= held'[c] /\ held'[c] <= ver'
  BY Numbers DEF SinceTold
<1> QED
  BY <1>1, <1>2, <1>3, <1>4 DEF SinceTold, Answers

LEMMA CachedKept ==
  ASSUME TypeOK, Cached, UNCHANGED <<cache, told, note>>, ver' \in Nat, ver <= ver',
         faults \subseteq faults'
  PROVE  Cached'
<1>1. Lapses' = {} => Lapses = {}
  BY DEF Lapses
<1> QED
  BY <1>1, Numbers DEF Cached

LEMMA StaleKept ==
  ASSUME TypeOK, StaleIsDoomed, UNCHANGED <<cache, ver>>, faults \subseteq faults',
         \A v \in Versions : ChangePending(v) => ChangePending(v)' \/ faults' # {}
  PROVE  StaleIsDoomed'
<1>1. CASE cache = NoList
  BY <1>1 DEF StaleIsDoomed
<1>2. CASE cache # NoList
  <2>1. PICK v \in Versions : cache = v
    BY <1>2, Numbers
  <2>2. cache' = v /\ ver' = ver /\ (v < ver => ChangePending(v) \/ faults # {})
    BY <1>2, <2>1 DEF StaleIsDoomed
  <2>3. v < ver => ChangePending(v)' \/ faults' # {}
    BY <2>2
  <2> QED
    BY <2>2, <2>3 DEF StaleIsDoomed, ChangePending
<1> QED
  BY <1>1, <1>2

LEMMA PendingKept ==
  ASSUME UNCHANGED <<stdout, queue>>, subs \subseteq subs'
  PROVE  \A v \in Versions : ChangePending(v) => ChangePending(v)'
BY DEF ChangePending

LEMMA NeverKept ==
  ASSUME NeverOlderThanTold, faults \subseteq faults',
         \A c \in Clients : pc'[c] = "reply" =>
           pc[c] = "reply" /\ held'[c] = held[c] /\ since'[c] = since[c]
  PROVE  NeverOlderThanTold'
BY DEF NeverOlderThanTold

\* What a Run loop does outside its call leaves the news as it was.
LEMMA NewsKept ==
  ASSUME IInv, UNCHANGED <<ver, stdout, responses, told, note, queue, faults>>,
         \A c \in Clients : since'[c] = since[c] \/ since'[c] = told[c] \/ since'[c] = 0,
         \A c \in Clients : pc'[c] \in {"wait", "fill"} =>
           /\ pc'[c] = pc[c] /\ id'[c] = id[c] /\ since'[c] = since[c]
           /\ pc[c] = "fill" => held'[c] = held[c]
           /\ loop = id[c] => loop' = loop
  PROVE  News'
<1>1. TypeOK /\ Order /\ HeldBack /\ SinceTold /\ HeardBelow(ver)
  BY DEF IInv, News, Order
<1>2. \A v \in Versions : HeardBelow(v) => HeardBelow(v)'
  BY DEF HeardBelow
<1>3. Order'
  BY <1>1, <1>2, OrderKept
<1>4. HeldBack'
  BY <1>1, <1>2, UpToDateKept, HeldBackKept
<1>5. \A c \in Clients : since'[c] \in Nat /\ since'[c] <= ver
  BY <1>1, Numbers DEF HeardBelow, SinceTold
<1>6. ver' \in Nat /\ ver <= ver'
  BY <1>1, Numbers
<1>7. SinceTold'
  BY <1>1, <1>5, <1>6, SinceToldKept
<1> QED
  BY <1>3, <1>4, <1>7 DEF News

LEMMA HitIInv == ASSUME IInv, NEW c \in Clients, Hit(c) PROVE IInv'
<1> USE DEF serverVars, realVars, noteVars, cacheVars
<1>1. /\ pc[c] = "idle" /\ cache # NoList /\ TypeOK
      /\ UNCHANGED <<serverVars, realVars, noteVars, cacheVars>>
  BY DEF Hit, IInv
<1>2. /\ pc' \in [Clients -> Phases] /\ held' \in [Clients -> Versions]
      /\ id' \in [Clients -> 0..MaxCalls] /\ since' \in [Clients -> Versions]
      /\ \A d \in Clients : pc'[d] = IF d = c THEN "reply" ELSE pc[d]
      /\ \A d \in Clients : held'[d] = IF d = c THEN cache ELSE held[d]
      /\ \A d \in Clients : id'[d] = IF d = c THEN 0 ELSE id[d]
      /\ \A d \in Clients : since'[d] = IF d = c THEN told[c] ELSE since[d]
  BY <1>1, BoundsAssumption DEF Hit, Goto, TypeOK, Phases
<1>3. TypeOK'
  BY <1>1, <1>2 DEF TypeOK
<1>4. Calls'
  BY <1>1, <1>2, CallIdsKept, OnePlaceKept, Numbers DEF IInv, Calls, CallIds
<1>5. News'
  BY <1>1, <1>2, NewsKept
<1>6. Answered'
  <2>1. Cached' /\ StaleIsDoomed'
    BY <1>1 DEF IInv, Answered, Cached, Lapses, StaleIsDoomed, ChangePending
  <2>2. cache >= told[c] \/ Lapses # {}
    BY <1>1, Numbers DEF IInv, Answered, Cached
  <2> QED
    BY <1>1, <1>2, <2>1, <2>2 DEF IInv, Answered, NeverOlderThanTold, Lapses
<1> QED
  BY <1>3, <1>4, <1>5, <1>6 DEF IInv

\* A step of a Run loop that neither gives nor caches a list.
LEMMA AnsweredKept ==
  ASSUME IInv, UNCHANGED <<cache, ver, stdout, told, note, queue, faults>>, subs \subseteq subs',
         \A c \in Clients : pc'[c] = "reply" =>
           pc[c] = "reply" /\ held'[c] = held[c] /\ since'[c] = since[c]
  PROVE  Answered'
<1>1. TypeOK /\ Cached /\ StaleIsDoomed /\ NeverOlderThanTold /\ faults \subseteq faults'
  BY DEF IInv, Answered
<1>2. ver' \in Nat /\ ver <= ver'
  BY <1>1, Numbers
<1> QED
  BY <1>1, <1>2, CachedKept, StaleKept, PendingKept, NeverKept DEF Answered

LEMMA MissIInv == ASSUME IInv, NEW c \in Clients, Miss(c) PROVE IInv'
<1> USE DEF serverVars, realVars, noteVars, cacheVars
<1>1. /\ pc[c] = "idle" /\ TypeOK
      /\ UNCHANGED <<id, held, serverVars, realVars, noteVars, cacheVars>>
  BY DEF Miss, IInv
<1>2. /\ pc' \in [Clients -> Phases] /\ since' \in [Clients -> Versions]
      /\ \A d \in Clients : pc'[d] = IF d = c THEN "miss" ELSE pc[d]
      /\ \A d \in Clients : since'[d] = IF d = c THEN told[c] ELSE since[d]
  BY <1>1 DEF Miss, Goto, TypeOK, Phases
<1>3. TypeOK'
  BY <1>1, <1>2 DEF TypeOK
<1>4. Calls'
  BY <1>1, <1>2, CallIdsKept, OnePlaceKept, Numbers DEF IInv, Calls, CallIds
<1>5. News'
  BY <1>1, <1>2, NewsKept
<1>6. Answered'
  BY <1>1, <1>2, AnsweredKept
<1> QED
  BY <1>3, <1>4, <1>5, <1>6 DEF IInv

LEMMA SubscribeIInv == ASSUME IInv, NEW c \in Clients, Subscribe(c) PROVE IInv'
<1> USE DEF serverVars, realVars, cacheVars
<1>1. /\ pc[c] = "miss" /\ TypeOK /\ subs' = subs \cup {c}
      /\ UNCHANGED <<id, held, since, told, queue, note, serverVars, realVars, cacheVars>>
  BY DEF Subscribe, IInv
<1>2. /\ pc' \in [Clients -> Phases]
      /\ \A d \in Clients : pc'[d] = IF d = c THEN "queue" ELSE pc[d]
  BY <1>1 DEF Subscribe, Goto, TypeOK, Phases
<1>3. TypeOK'
  BY <1>1, <1>2 DEF TypeOK
<1>4. Calls'
  BY <1>1, <1>2, CallIdsKept, OnePlaceKept, Numbers DEF IInv, Calls, CallIds
<1>5. News'
  BY <1>1, <1>2, NewsKept
<1>6. Answered'
  BY <1>1, <1>2, AnsweredKept
<1> QED
  BY <1>3, <1>4, <1>5, <1>6 DEF IInv

LEMMA OtherRequestIInv == ASSUME IInv, NEW c \in Clients, OtherRequest(c) PROVE IInv'
<1> USE DEF serverVars, realVars, runVars, cacheVars
<1>1. /\ TypeOK /\ subs' = subs \cup {c}
      /\ UNCHANGED <<told, queue, note, serverVars, realVars, runVars, cacheVars>>
  BY DEF OtherRequest, IInv
<1>2. TypeOK'
  BY <1>1 DEF TypeOK
<1>3. Calls'
  BY <1>1, CallIdsKept, OnePlaceKept, Numbers DEF IInv, Calls, CallIds
<1>4. News'
  BY <1>1, NewsKept
<1>5. Answered'
  BY <1>1, AnsweredKept
<1> QED
  BY <1>2, <1>3, <1>4, <1>5 DEF IInv

\* When a call ends its number and what it had been told are forgotten (Done).
LEMMA DoneFacts ==
  ASSUME TypeOK, NEW c \in Clients, Done(c)
  PROVE  /\ pc' \in [Clients -> Phases]
         /\ id' \in [Clients -> 0..MaxCalls] /\ since' \in [Clients -> Versions]
         /\ \A d \in Clients : pc'[d] = IF d = c THEN "idle" ELSE pc[d]
         /\ \A d \in Clients : id'[d] = IF d = c THEN 0 ELSE id[d]
         /\ \A d \in Clients : since'[d] = IF d = c THEN 0 ELSE since[d]
<1>1. /\ pc \in [Clients -> Phases] /\ id \in [Clients -> 0..MaxCalls]
      /\ since \in [Clients -> Versions]
      /\ pc' = [pc EXCEPT ![c] = "idle"] /\ id' = [id EXCEPT ![c] = 0]
      /\ since' = [since EXCEPT ![c] = 0]
  BY DEF TypeOK, Done, Goto
<1>2. "idle" \in Phases
  BY DEF Phases
<1>3. 0 \in 0..MaxCalls /\ 0 \in Versions
  BY BoundsAssumption DEF Versions
<1>4. pc' \in [Clients -> Phases] /\ \A d \in Clients : pc'[d] = IF d = c THEN "idle" ELSE pc[d]
  BY <1>1, <1>2
<1>5. id' \in [Clients -> 0..MaxCalls] /\ \A d \in Clients : id'[d] = IF d = c THEN 0 ELSE id[d]
  BY <1>1, <1>3
<1>6. since' \in [Clients -> Versions] /\ \A d \in Clients : since'[d] = IF d = c THEN 0 ELSE since[d]
  BY <1>1, <1>3
<1> QED
  BY <1>4, <1>5, <1>6

LEMMA CallFailsIInv == ASSUME IInv, NEW c \in Clients, CallFails(c) PROVE IInv'
<1> USE DEF serverVars, noteVars, cacheVars
<1>1. /\ pc[c] \in {"miss", "queue", "wait"} /\ TypeOK
      /\ callMu' = IF pc[c] = "wait" THEN NoOne ELSE callMu
      /\ UNCHANGED <<held, loop, responses, nextID, serverVars, noteVars, cacheVars>>
  BY DEF CallFails, IInv
<1>2. /\ pc' \in [Clients -> Phases]
      /\ id' \in [Clients -> 0..MaxCalls] /\ since' \in [Clients -> Versions]
      /\ \A d \in Clients : pc'[d] = IF d = c THEN "idle" ELSE pc[d]
      /\ \A d \in Clients : id'[d] = IF d = c THEN 0 ELSE id[d]
      /\ \A d \in Clients : since'[d] = IF d = c THEN 0 ELSE since[d]
  BY <1>1, DoneFacts DEF CallFails
<1>3. TypeOK'
  BY <1>1, <1>2 DEF TypeOK
<1>4. CallIds'
  BY <1>1, <1>2, NoOneAssumption, Numbers DEF IInv, Calls, CallIds
<1>5. OnePlace'
  BY <1>1, <1>2, OnePlaceKept DEF IInv, Calls
<1>6. News'
  BY <1>1, <1>2, NewsKept
<1>7. Answered'
  BY <1>1, <1>2, AnsweredKept
<1> QED
  BY <1>3, <1>4, <1>5, <1>6, <1>7 DEF IInv, Calls

LEMMA ReplyIInv == ASSUME IInv, NEW c \in Clients, Reply(c) PROVE IInv'
<1> USE DEF serverVars, noteVars, cacheVars
<1>1. /\ pc[c] = "reply" /\ TypeOK /\ loop' = IF loop = id[c] THEN 0 ELSE loop
      /\ UNCHANGED <<responses, nextID, callMu, serverVars, noteVars, cacheVars>>
  BY DEF Reply, Ack, IInv
<1>2. /\ pc' \in [Clients -> Phases] /\ held' \in [Clients -> Versions]
      /\ id' \in [Clients -> 0..MaxCalls] /\ since' \in [Clients -> Versions]
      /\ \A d \in Clients : pc'[d] = IF d = c THEN "idle" ELSE pc[d]
      /\ \A d \in Clients : id'[d] = IF d = c THEN 0 ELSE id[d]
      /\ \A d \in Clients : since'[d] = IF d = c THEN 0 ELSE since[d]
      /\ \A d \in Clients : d # c => held'[d] = held[d]
  <2>1. held' \in [Clients -> Versions] /\ \A d \in Clients : d # c => held'[d] = held[d]
    BY <1>1, BoundsAssumption DEF Reply, TypeOK, Versions
  <2> QED
    BY <1>1, <2>1, DoneFacts DEF Reply
<1>3. TypeOK'
  <2>1. loop' \in 0..MaxCalls
    BY <1>1, BoundsAssumption DEF TypeOK
  <2> QED
    BY <1>1, <1>2, <2>1 DEF TypeOK
<1>4. Calls'
  BY <1>1, <1>2, CallIdsKept, OnePlaceKept, Numbers DEF IInv, Calls, CallIds
<1>5. \A d \in Clients : pc'[d] \in {"wait", "fill"} /\ loop = id[d] => loop' = loop
  BY <1>1, <1>2 DEF IInv, Calls, CallIds
<1>6. News'
  BY <1>1, <1>2, <1>5, NewsKept
<1>7. Answered'
  BY <1>1, <1>2, AnsweredKept
<1> QED
  BY <1>3, <1>4, <1>6, <1>7 DEF IInv

LEMMA FillIInv == ASSUME IInv, NEW c \in Clients, Fill(c) PROVE IInv'
<1> USE DEF serverVars, realVars, noteVars
<1>1. /\ pc[c] = "fill" /\ TypeOK /\ cache' \in {held[c], NoList, cache}
      /\ UNCHANGED <<id, held, since, serverVars, realVars, noteVars, faults>>
  BY DEF Fill, IInv
<1>2. /\ pc' \in [Clients -> Phases]
      /\ \A d \in Clients : pc'[d] = IF d = c THEN "reply" ELSE pc[d]
  BY <1>1 DEF Fill, Goto, TypeOK, Phases
<1>3. TypeOK'
  BY <1>1, <1>2 DEF TypeOK
<1>4. Calls'
  BY <1>1, <1>2, CallIdsKept, OnePlaceKept, Numbers DEF IInv, Calls, CallIds
<1>5. News'
  BY <1>1, <1>2, NewsKept
<1>6. PICK v \in Versions : held[c] = v
  BY <1>1, Numbers
<1>7. v <= ver /\ since[c] <= v
  BY <1>1, <1>6 DEF IInv, News, SinceTold
<1>8. "overtaken" \notin faults => UpToDate(v)
  BY <1>1, <1>6 DEF IInv, News, HeldBack
<1>9. Cached'
  <2>1. Lapses = {} => "overtaken" \notin faults
    BY DEF Lapses
  <2>2. CASE cache' = v
    BY <1>1, <1>7, <1>8, <2>1, <2>2 DEF UpToDate, HeardBelow, Cached, Lapses
  <2>3. CASE cache' = cache \/ cache' = NoList
    BY <1>1, <2>3 DEF IInv, Answered, Cached, Lapses
  <2> QED
    BY <1>1, <1>6, <2>2, <2>3
<1>10. StaleIsDoomed'
  <2>1. CASE cache' = v
    BY <1>1, <1>8, <2>1 DEF UpToDate, StaleIsDoomed, ChangePending
  <2>2. CASE cache' = cache \/ cache' = NoList
    BY <1>1, <2>2 DEF IInv, Answered, StaleIsDoomed, ChangePending
  <2> QED
    BY <1>1, <1>6, <2>1, <2>2
<1>11. NeverOlderThanTold'
  BY <1>1, <1>2, <1>6, <1>7 DEF IInv, Answered, NeverOlderThanTold
<1> QED
  BY <1>3, <1>4, <1>5, <1>9, <1>10, <1>11 DEF IInv, Answered

LEMMA SendIInv == ASSUME IInv, NEW c \in Clients, Send(c) PROVE IInv'
<1> USE DEF noteVars, cacheVars
<1> DEFINE n == nextID + 1
<1>1. /\ pc[c] = "queue" /\ callMu = NoOne /\ TypeOK
      /\ n \in 1..MaxCalls /\ nextID \in Nat /\ nextID' = n /\ asked' = asked \cup {n} /\ callMu' = c
      /\ UNCHANGED <<ver, stdout, loop, responses, held, since, noteVars, cacheVars>>
  BY BoundsAssumption DEF Send, IInv, TypeOK
<1>2. /\ pc' \in [Clients -> Phases] /\ id' \in [Clients -> 0..MaxCalls]
      /\ \A d \in Clients : pc'[d] = IF d = c THEN "wait" ELSE pc[d]
      /\ \A d \in Clients : id'[d] = IF d = c THEN n ELSE id[d]
  BY <1>1 DEF Send, Goto, TypeOK, Phases
<1> HIDE DEF n
<1>3. n \notin asked /\ ~Listed(stdout, n) /\ ~Listed(responses, n) /\ \A d \in Clients : id[d] # n
  BY <1>1, Numbers DEF n, IInv, Calls, CallIds, OnePlace, InOnePlace
<1>4. TypeOK'
  BY <1>1, <1>2 DEF TypeOK
<1>5. CallIds'
  BY <1>1, <1>2, <1>3, NoOneAssumption, Numbers DEF n, IInv, Calls, CallIds
<1>6. OnePlace'
  <2>1. \A i \in 1..MaxCalls : Taken(i)' => Taken(i)
    BY <1>2 DEF Taken
  <2>2. ~Taken(n)
    BY <1>3 DEF Taken
  <2>3. nextID <= n
    BY <1>1 DEF n
  <2>4. Single(stdout) /\ Single(responses) /\ stdout' = stdout /\ responses' = responses
    BY <1>1 DEF IInv, Calls, OnePlace, InOnePlace
  <2>5. \A i \in 1..MaxCalls :
          /\ (Listed(stdout, i))' <=> Listed(stdout, i)
          /\ (Listed(responses, i))' <=> Listed(responses, i)
    BY <1>1 DEF Listed
  <2>6. ASSUME NEW i \in 1..MaxCalls PROVE InOnePlace(i)'
    <3>1. CASE i = n
      BY <1>1, <1>3, <2>1, <2>2, <2>5, <3>1 DEF InOnePlace
    <3>2. CASE i # n
      BY <1>1, <2>1, <2>3, <2>5, <3>2, Numbers DEF IInv, Calls, OnePlace, InOnePlace
    <3> QED
      BY <3>1, <3>2
  <2> QED
    BY <2>4, <2>6 DEF OnePlace, InOnePlace, Single
<1>7. \A k \in DOMAIN responses : responses[k].id # n
  BY <1>1, <1>3, Elements DEF Listed, Answers
<1>8. \A v \in Versions : HeardBelow(v) => HeardBelow(v)'
  BY <1>1, HeardKept
<1>9. Order'
  BY <1>1, <1>8, OrderKept DEF IInv, News
<1>10. HeldBack'
  <2>1. \A v \in Versions : UpToDate(v) => UpToDate(v)'
    BY <1>1, <1>8, UpToDateKept
  <2> QED
    BY <1>1, <1>2, <1>7, <2>1 DEF IInv, News, HeldBack
<1>11. SinceTold'
  <2>1. \A k \in DOMAIN stdout : ~Answers(stdout[k], n)
    BY <1>3 DEF Listed
  <2> QED
    BY <1>1, <1>2, <1>7, <2>1 DEF IInv, News, SinceTold, Answers
<1>12. Answered'
  BY <1>1, <1>2, AnsweredKept
<1> QED
  BY <1>4, <1>5, <1>6, <1>9, <1>10, <1>11, <1>12 DEF IInv, Calls, News

\* The channel loses its first response.
LEMMA ResponseTaken ==
  ASSUME TypeOK, OnePlace, responses # <<>>, responses' = Tail(responses)
  PROVE  /\ responses' \in Seq(Lists)
         /\ Head(responses) \in Lists /\ Head(responses) \in Messages
         /\ Listed(responses, Head(responses).id)
         /\ \A i : Listed(responses', i) => Listed(responses, i)
         /\ Single(responses') /\ ~Listed(responses', Head(responses).id)
         /\ \A k \in DOMAIN responses' : \E j \in DOMAIN responses : responses'[k] = responses[j]
         /\ \E j \in DOMAIN responses : responses[j] = Head(responses)
<1>1. responses \in Seq(Lists) /\ responses \in Seq(Messages)
  BY DEF TypeOK, Messages
<1>2. /\ Tail(responses) \in Seq(Lists) /\ Head(responses) \in Lists
      /\ Head(responses) \in Messages /\ Head(responses).kind = "list"
  BY <1>1, Beheaded, MessageFields DEF Messages
<1>3. /\ \A k \in DOMAIN Tail(responses) : \E j \in DOMAIN responses : Tail(responses)[k] = responses[j]
      /\ \E j \in DOMAIN responses : responses[j] = Head(responses)
  <2>1. \A k \in DOMAIN Tail(responses) :
          k + 1 \in DOMAIN responses /\ Tail(responses)[k] = responses[k + 1]
    BY <1>1, Beheaded
  <2>2. 1 \in DOMAIN responses /\ responses[1] = Head(responses)
    BY <1>1, Beheaded
  <2> QED
    BY <2>1, <2>2
<1>4. Listed(responses, Head(responses).id)
  BY <1>2, <1>3 DEF Listed, Answers
<1>5. /\ \A i : Listed(Tail(responses), i) => Listed(responses, i)
      /\ Single(Tail(responses)) /\ ~Listed(Tail(responses), Head(responses).id)
  BY <1>1, <1>2, TailCarries DEF OnePlace, InOnePlace
<1> QED
  BY <1>2, <1>3, <1>4, <1>5

LEMMA TakeIInv == ASSUME IInv, NEW c \in Clients, Take(c) PROVE IInv'
<1> USE DEF serverVars, noteVars, cacheVars
<1>1. /\ pc[c] = "wait" /\ TypeOK /\ responses # <<>> /\ responses' = Tail(responses)
      /\ Head(responses).id = id[c] /\ callMu' = NoOne
      /\ UNCHANGED <<id, since, loop, nextID, serverVars, noteVars, cacheVars>>
  BY DEF Take, IInv
<1> DEFINE h == Head(responses)
<1>2. /\ responses' \in Seq(Lists) /\ h \in Messages /\ Listed(responses, h.id)
      /\ \A i : Listed(responses', i) => Listed(responses, i)
      /\ Single(responses') /\ ~Listed(responses', h.id)
      /\ \A k \in DOMAIN responses' : \E j \in DOMAIN responses : responses'[k] = responses[j]
      /\ \E j \in DOMAIN responses : responses[j] = h
  BY <1>1, ResponseTaken DEF IInv, Calls
<1>3. h.ver \in Versions /\ h.id = id[c]
  BY <1>1, <1>2, MessageFields
<1>4. held' = [held EXCEPT ![c] = h.ver]
  BY DEF Take
<1> HIDE DEF h
<1>5. /\ pc' \in [Clients -> Phases] /\ held' \in [Clients -> Versions]
      /\ \A d \in Clients : pc'[d] = IF d = c THEN "fill" ELSE pc[d]
      /\ \A d \in Clients : held'[d] = IF d = c THEN h.ver ELSE held[d]
  BY <1>1, <1>3, <1>4 DEF Take, Goto, TypeOK, Phases
<1>6. TypeOK'
  BY <1>1, <1>2, <1>5 DEF TypeOK
<1>7. CallIds'
  BY <1>1, <1>5, NoOneAssumption DEF IInv, Calls, CallIds
<1>8. OnePlace'
  <2>1. \A i \in 1..MaxCalls : Taken(i)' => Taken(i) \/ i = h.id
    BY <1>1, <1>3, <1>5 DEF Taken
  <2>2. \A i \in 1..MaxCalls : Listed(stdout, i)' <=> Listed(stdout, i)
    BY <1>1 DEF Listed
  <2>3. \A i \in 1..MaxCalls : Listed(responses, i)' <=> Listed(responses', i)
    BY DEF Listed
  <2>4. Single(stdout)' /\ Single(responses)'
    BY <1>1, <1>2 DEF IInv, Calls, OnePlace, InOnePlace, Single
  <2>5. ASSUME NEW i \in 1..MaxCalls PROVE InOnePlace(i)'
    BY <1>1, <1>2, <2>1, <2>2, <2>3 DEF IInv, Calls, OnePlace, InOnePlace
  <2> QED
    BY <2>4, <2>5 DEF OnePlace, InOnePlace
<1>9. \A v \in Versions : HeardBelow(v) => HeardBelow(v)'
  BY <1>1, HeardKept
<1>10. Order'
  BY <1>1, <1>9, OrderKept DEF IInv, News
<1>11. HeldBack'
  <2>1. \A v \in Versions : UpToDate(v) => UpToDate(v)'
    BY <1>1, <1>9, UpToDateKept
  <2>2. "overtaken" \notin faults => loop = id[c] /\ UpToDate(h.ver)
    BY <1>1, <1>2, <1>3 DEF IInv, News, HeldBack
  <2>3. "overtaken" \notin faults => \A v \in Versions : h.ver = v => UpToDate(v)
    BY <1>1, <1>2, <1>3 DEF IInv, News, HeldBack
  <2>4. ASSUME "overtaken" \notin faults, NEW d \in Clients, NEW v \in Versions
        PROVE  /\ \A k \in DOMAIN responses' :
                    pc'[d] = "wait" /\ responses'[k].id = id'[d] /\ responses'[k].ver = v =>
                      loop' = id'[d] /\ UpToDate(v)'
               /\ pc'[d] = "fill" /\ held'[d] = v => loop' = id'[d] /\ UpToDate(v)'
    <3>1. CASE d = c
      BY <1>1, <1>5, <2>1, <2>2, <2>3, <2>4, <3>1
    <3>2. CASE d # c
      BY <1>1, <1>2, <1>5, <2>1, <2>4, <3>2 DEF IInv, News, HeldBack
    <3> QED
      BY <3>1, <3>2
  <2> QED
    BY <1>1, <2>4 DEF HeldBack
<1>12. SinceTold'
  <2>1. /\ \A k \in DOMAIN responses' : responses'[k].ver <= ver
        /\ h.ver <= ver /\ since[c] <= h.ver
    BY <1>1, <1>2, <1>3 DEF IInv, News, SinceTold
  <2>2. \A d \in Clients : pc'[d] = "wait" => pc[d] = "wait" /\ d # c
    BY <1>5
  <2>3. \A d \in Clients : pc[d] = "wait" =>
          /\ \A k \in DOMAIN stdout : Answers(stdout[k], id[d]) => since[d] <= stdout[k].ver
          /\ \A k \in DOMAIN responses' : responses'[k].id = id[d] => since[d] <= responses'[k].ver
    BY <1>2 DEF IInv, News, SinceTold
  <2>4. \A d \in Clients : since[d] <= ver /\ (pc[d] = "fill" => since[d] <= held[d] /\ held[d] <= ver)
    BY DEF IInv, News, SinceTold
  <2> QED
    BY <1>1, <1>5, <2>1, <2>2, <2>3, <2>4 DEF SinceTold, Answers
<1>13. Answered'
  BY <1>1, <1>5, AnsweredKept
<1> QED
  BY <1>6, <1>7, <1>8, <1>10, <1>11, <1>12, <1>13 DEF IInv, Calls, News

LEMMA DropStaleIInv == ASSUME IInv, NEW c \in Clients, DropStale(c) PROVE IInv'
<1> USE DEF serverVars, runVars, noteVars, cacheVars
<1> DEFINE h == Head(responses)
<1>1. /\ pc[c] = "wait" /\ TypeOK /\ responses # <<>> /\ responses' = Tail(responses)
      /\ h.id # id[c] /\ loop' = IF loop = h.id THEN 0 ELSE loop
      /\ UNCHANGED <<nextID, callMu, serverVars, runVars, noteVars, cacheVars>>
  BY DEF DropStale, Ack, IInv
<1>2. /\ responses' \in Seq(Lists) /\ h \in Messages /\ Listed(responses, h.id)
      /\ \A i : Listed(responses', i) => Listed(responses, i)
      /\ Single(responses')
      /\ \A k \in DOMAIN responses' : \E j \in DOMAIN responses : responses'[k] = responses[j]
      /\ h \in Lists
  BY <1>1, ResponseTaken DEF IInv, Calls
<1>3. h.id \in 1..MaxCalls
  BY <1>2, MessageFields
<1> HIDE DEF h
<1>4. TypeOK'
  <2>1. loop' \in 0..MaxCalls
    BY <1>1, BoundsAssumption DEF TypeOK
  <2> QED
    BY <1>1, <1>2, <2>1 DEF TypeOK
<1>5. CallIds'
  BY <1>1 DEF IInv, Calls, CallIds
<1>6. OnePlace'
  <2>1. \A i \in 1..MaxCalls :
          /\ Taken(i)' <=> Taken(i)
          /\ Listed(stdout, i)' <=> Listed(stdout, i)
          /\ Listed(responses, i)' <=> Listed(responses', i)
    BY <1>1 DEF Taken, Listed
  <2>2. Single(stdout)' /\ Single(responses)'
    BY <1>1, <1>2 DEF IInv, Calls, OnePlace, InOnePlace, Single
  <2>3. ASSUME NEW i \in 1..MaxCalls PROVE InOnePlace(i)'
    BY <1>1, <1>2, <2>1 DEF IInv, Calls, OnePlace, InOnePlace
  <2> QED
    BY <2>2, <2>3 DEF OnePlace, InOnePlace
<1>7. ~Taken(h.id)
  BY <1>2, <1>3 DEF IInv, Calls, OnePlace, InOnePlace
<1>8. \A d \in Clients : pc[d] \in {"wait", "fill"} => id[d] # h.id
  <2>1. \A d \in Clients : pc[d] = "wait" => d = c
    BY <1>1 DEF IInv, Calls, CallIds
  <2> QED
    BY <1>1, <1>7, <2>1 DEF Taken
<1>9. News'
  <2>1. \A v \in Versions : HeardBelow(v) => HeardBelow(v)'
    BY <1>1, HeardKept
  <2>2. Order'
    BY <1>1, <2>1, OrderKept DEF IInv, News
  <2>3. HeldBack'
    BY <1>1, <1>2, <1>8, <2>1, UpToDateKept, HeldBackKept DEF IInv, News
  <2>4. \A d \in Clients : since'[d] \in Nat /\ since'[d] <= ver
    BY <1>1, Numbers DEF IInv, News, SinceTold
  <2>5. SinceTold'
    BY <1>1, <1>2, <2>4, Numbers, SinceToldKept DEF IInv, News
  <2> QED
    BY <2>2, <2>3, <2>5 DEF News
<1>10. Answered'
  BY <1>1, AnsweredKept
<1> QED
  BY <1>4, <1>5, <1>6, <1>9, <1>10 DEF IInv, Calls

-----------------------------------------------------------------------------
(* Steps of a forwarder, of the cache and of the acks.                     *)

LEMMA ReconnectIInv == ASSUME IInv, NEW c \in Clients, Reconnect(c) PROVE IInv'
<1> USE DEF serverVars, realVars, runVars
<1>1. /\ TypeOK /\ subs' = subs \ {c} /\ note[c] = <<>>
      /\ UNCHANGED <<note, cache, serverVars, realVars, runVars>>
      /\ faults' \in SUBSET Faults /\ faults \subseteq faults'
      /\ Lapses' = Lapses
      /\ "overtaken" \in faults => "overtaken" \in faults'
  BY DEF Reconnect, IInv, TypeOK, Faults, Lapses
<1>2. /\ told' \in [Clients -> Versions] /\ queue' \in [Clients -> Seq(Notes)]
      /\ \A d \in Clients : told'[d] = IF d = c THEN 0 ELSE told[d]
      /\ \A d \in Clients : queue'[d] = IF d = c THEN <<>> ELSE queue[d]
  <2>1. 0 \in Versions /\ <<>> \in Seq(Notes)
    BY BoundsAssumption DEF Versions
  <2> QED
    BY <1>1, <2>1 DEF Reconnect, TypeOK
<1>3. TypeOK'
  <2>1. Len(<<>>) <= SubCap
    BY BoundsAssumption
  <2>2. \A d \in Clients : Len(queue'[d]) <= SubCap /\ (d \notin subs' => queue'[d] = <<>>)
    BY <1>1, <1>2, <2>1 DEF TypeOK
  <2> QED
    BY <1>1, <1>2, <2>2 DEF TypeOK
<1>4. Calls'
  BY <1>1, CallIdsKept, OnePlaceKept, Numbers DEF IInv, Calls, CallIds
<1>5. \A v \in Versions : HeardBelow(v) => HeardBelow(v)'
  <2>1. SUFFICES ASSUME NEW v \in Versions, HeardBelow(v), NEW d \in Clients
                 PROVE  /\ told'[d] <= v
                        /\ \A k \in DOMAIN note'[d] : note'[d][k].ver <= v
                        /\ \A k \in DOMAIN queue'[d] : queue'[d][k].ver <= v
    BY DEF HeardBelow
  <2>2. 0 <= v /\ DOMAIN <<>> = {}
    BY BoundsAssumption DEF Versions
  <2>3. CASE d = c
    BY <1>1, <1>2, <2>1, <2>2, <2>3 DEF HeardBelow
  <2>4. CASE d # c
    BY <1>1, <1>2, <2>1, <2>4 DEF HeardBelow
  <2> QED
    BY <2>3, <2>4
<1>6. News'
  <2>1. \A d \in Clients : since'[d] \in Nat /\ since'[d] <= ver
    BY <1>1, Numbers DEF IInv, News, SinceTold
  <2> QED
    BY <1>1, <1>5, <2>1, Numbers, OrderKept, UpToDateKept, HeldBackKept, SinceToldKept DEF IInv, News
<1>7. Cached'
  <2>1. cache # NoList => 0 <= cache
    BY <1>1, Numbers
  <2> QED
    BY <1>1, <1>2, <2>1 DEF IInv, Answered, Cached
<1>8. StaleIsDoomed'
  <2>1. ASSUME NEW v \in Versions, ChangePending(v) PROVE ChangePending(v)' \/ faults' # {}
    <3>1. CASE Carries(stdout, v)
      BY <1>1, <3>1 DEF ChangePending, Carries
    <3>2. CASE \E d \in subs : d # c /\ Carries(queue[d], v)
      BY <1>1, <1>2, <3>2 DEF ChangePending, Carries, TypeOK
    <3>3. CASE Carries(queue[c], v)
      BY <3>3 DEF Carries, Announces, Reconnect
    <3> QED
      BY <2>1, <3>1, <3>2, <3>3 DEF ChangePending
  <2> QED
    BY <1>1, <2>1, StaleKept DEF IInv, Answered
<1>9. NeverOlderThanTold'
  BY <1>1, NeverKept DEF IInv, Answered
<1> QED
  BY <1>3, <1>4, <1>6, <1>7, <1>8, <1>9 DEF IInv, Answered

LEMMA InvalidateIInv == ASSUME IInv, NEW c \in Clients, Invalidate(c) PROVE IInv'
<1> USE DEF serverVars, realVars, runVars
<1> DEFINE h == Head(queue[c])
<1>1. /\ TypeOK /\ queue[c] # <<>> /\ note[c] = <<>>
      /\ UNCHANGED <<told, subs, serverVars, realVars, runVars>>
      /\ IF h.kind # "changed" THEN cache' = cache /\ faults' = faults
         ELSE \/ cache' = NoList /\ faults' = faults
              \/ faults' = faults \cup {"kept"} /\ cache' = cache
  BY DEF Invalidate, IInv, cacheVars
<1>2. queue[c] \in Seq(Notes) /\ Len(queue[c]) <= SubCap
  BY <1>1 DEF TypeOK
<1>3. /\ Tail(queue[c]) \in Seq(Notes) /\ Len(Tail(queue[c])) <= SubCap
      /\ h \in Notes /\ h = queue[c][1] /\ 1 \in DOMAIN queue[c]
      /\ \A k \in DOMAIN Tail(queue[c]) :
           k + 1 \in DOMAIN queue[c] /\ Tail(queue[c])[k] = queue[c][k + 1]
  BY <1>1, <1>2, Beheaded, BoundsAssumption
<1>4. /\ \A v : Carries(queue[c], v) => Carries(Tail(queue[c]), v) \/ Announces(h, v)
      /\ h.ver \in Versions /\ (h.kind # "changed" => h.ver = 0)
  <2>1. queue[c] \in Seq(Messages) /\ h \in Messages /\ h.kind \in {"changed", "other"}
    BY <1>2, <1>3 DEF Messages, Notes, Changed, OtherNote
  <2> QED
    BY <1>1, <2>1, TailCarries, MessageFields
<1>5. /\ note' = [note EXCEPT ![c] = <<h>>] /\ queue' = [queue EXCEPT ![c] = Tail(@)]
  BY DEF Invalidate
<1> HIDE DEF h
<1>6. /\ \A d \in Clients : note'[d] = IF d = c THEN <<h>> ELSE note[d]
      /\ \A d \in Clients : queue'[d] = IF d = c THEN Tail(queue[c]) ELSE queue[d]
      /\ note' \in [Clients -> Seq(Notes)] /\ queue' \in [Clients -> Seq(Notes)]
      /\ \A d \in Clients : Len(note'[d]) <= 1
  <2>1. <<h>> \in Seq(Notes) /\ Len(<<h>>) = 1
    BY <1>3
  <2> QED
    BY <1>1, <1>3, <1>5, <2>1 DEF TypeOK
<1>7. TypeOK'
  <2>1. cache' \in Versions \cup {NoList} /\ faults' \in SUBSET Faults
    BY <1>1 DEF TypeOK, Faults
  <2>2. \A d \in Clients : Len(queue'[d]) <= SubCap /\ (d \notin subs' => queue'[d] = <<>>)
    BY <1>1, <1>3, <1>6 DEF TypeOK
  <2> QED
    BY <1>1, <1>6, <2>1, <2>2 DEF TypeOK
<1>8. Calls'
  BY <1>1, CallIdsKept, OnePlaceKept, Numbers DEF IInv, Calls, CallIds
<1>9. /\ \A k \in DOMAIN note'[c] : note'[c][k] = h
      /\ \A d \in Clients \ {c} : note'[d] = note[d] /\ queue'[d] = queue[d]
  BY <1>1, <1>6
<1>10. \A v \in Versions : HeardBelow(v) => HeardBelow(v)'
  <2>1. SUFFICES ASSUME NEW v \in Versions, HeardBelow(v), NEW d \in Clients
                 PROVE  /\ told'[d] <= v
                        /\ \A k \in DOMAIN note'[d] : note'[d][k].ver <= v
                        /\ \A k \in DOMAIN queue'[d] : queue'[d][k].ver <= v
    BY DEF HeardBelow
  <2>2. /\ told[d] <= v
        /\ \A k \in DOMAIN note[d] : note[d][k].ver <= v
        /\ \A k \in DOMAIN queue[d] : queue[d][k].ver <= v
    BY <2>1 DEF HeardBelow
  <2>3. CASE d = c
    <3>1. h.ver <= v
      BY <1>3, <2>2, <2>3
    <3>2. \A k \in DOMAIN queue'[d] : queue'[d][k].ver <= v
      BY <1>3, <1>6, <2>2, <2>3
    <3>3. \A k \in DOMAIN note'[d] : note'[d][k].ver <= v
      BY <1>9, <2>3, <3>1
    <3>4. told'[d] <= v
      BY <1>1, <2>2
    <3> QED
      BY <3>2, <3>3, <3>4
  <2>4. CASE d # c
    <3>1. told'[d] = told[d] /\ note'[d] = note[d] /\ queue'[d] = queue[d]
      BY <1>1, <1>9, <2>4
    <3> QED
      BY <2>2, <3>1
  <2> QED
    BY <2>3, <2>4
<1>11. faults \subseteq faults' /\ ("overtaken" \in faults => "overtaken" \in faults')
  BY <1>1
<1>12. News'
  <2>1. \A d \in Clients : since'[d] \in Nat /\ since'[d] <= ver
    BY <1>1, Numbers DEF IInv, News, SinceTold
  <2> QED
    BY <1>1, <1>10, <1>11, <2>1, Numbers, OrderKept, UpToDateKept, HeldBackKept, SinceToldKept
       DEF IInv, News
<1>13. Cached'
  <2>1. SUFFICES ASSUME cache' # NoList, Lapses' = {} PROVE Cached'
    BY <1>1, Numbers DEF IInv, Answered, Cached
  <2>2. cache' = cache /\ Lapses = {} /\ h.kind # "changed"
    BY <1>1, <2>1 DEF Lapses
  <2>3. h.ver <= cache
    BY <1>1, <1>4, <2>1, <2>2, Numbers
  <2> QED
    BY <1>1, <1>9, <2>2, <2>3 DEF IInv, Answered, Cached
<1>14. StaleIsDoomed'
  <2>1. CASE cache' = NoList \/ "kept" \in faults'
    BY <2>1 DEF StaleIsDoomed
  <2>2. CASE h.kind # "changed"
    <3>1. ASSUME NEW v \in Versions, ChangePending(v) PROVE ChangePending(v)'
      <4>1. CASE Carries(stdout, v)
        BY <1>1, <4>1 DEF ChangePending, Carries
      <4>2. CASE \E d \in subs : Carries(queue[d], v)
        <5>1. PICK d \in subs : Carries(queue[d], v)
          BY <4>2
        <5>2. d \in Clients /\ subs' = subs
          BY <1>1 DEF TypeOK
        <5>3. Carries(queue'[d], v)
          BY <1>4, <1>6, <2>2, <5>1, <5>2 DEF Announces
        <5> QED
          BY <5>2, <5>3 DEF ChangePending, Carries
      <4> QED
        BY <3>1, <4>1, <4>2 DEF ChangePending
    <3> QED
      BY <1>1, <2>2, <3>1, StaleKept DEF IInv, Answered
  <2> QED
    BY <1>1, <2>1, <2>2
<1>15. NeverOlderThanTold'
  BY <1>1, <1>11, NeverKept DEF IInv, Answered
<1> QED
  BY <1>7, <1>8, <1>12, <1>13, <1>14, <1>15 DEF IInv, Answered

LEMMA ForwardIInv == ASSUME IInv, NEW c \in Clients, Forward(c) PROVE IInv'
<1> USE DEF serverVars, realVars, runVars, cacheVars
<1>1. /\ TypeOK /\ note[c] # <<>>
      /\ told' = [told EXCEPT ![c] = IF Announces(note[c][1], @) THEN note[c][1].ver ELSE @]
      /\ note' = [note EXCEPT ![c] = <<>>]
      /\ UNCHANGED <<subs, queue, serverVars, realVars, runVars, cacheVars>>
  BY DEF Forward, IInv
<1>2. 1 \in DOMAIN note[c] /\ note[c][1].ver \in Versions
  <2>1. note[c] \in Seq(Notes)
    BY <1>1 DEF TypeOK
  <2>2. 1 \in DOMAIN note[c]
    BY <1>1, <2>1
  <2> QED
    BY <1>1, <2>2, Numbers
<1>3. PICK v \in Versions : v = told[c] \/ v = note[c][1].ver
  BY <1>2
<1>4. /\ told' \in [Clients -> Versions] /\ note' \in [Clients -> Seq(Notes)]
      /\ \A d \in Clients \ {c} : told'[d] = told[d] /\ note'[d] = note[d]
      /\ told'[c] = told[c] \/ told'[c] = note[c][1].ver
      /\ note'[c] = <<>>
  BY <1>1, <1>2 DEF TypeOK
<1>5. TypeOK'
  BY <1>1, <1>4 DEF TypeOK
<1>6. Calls'
  BY <1>1, CallIdsKept, OnePlaceKept, Numbers DEF IInv, Calls, CallIds
<1>7. \A u \in Versions : HeardBelow(u) => HeardBelow(u)'
  BY <1>1, <1>2, <1>4 DEF HeardBelow
<1>8. News'
  <2>1. \A d \in Clients : since'[d] \in Nat /\ since'[d] <= ver
    BY <1>1, Numbers DEF IInv, News, SinceTold
  <2> QED
    BY <1>1, <1>7, <2>1, Numbers, OrderKept, UpToDateKept, HeldBackKept, SinceToldKept DEF IInv, News
<1>9. Cached'
  BY <1>1, <1>2, <1>4 DEF IInv, Answered, Cached, Lapses
<1>10. StaleIsDoomed' /\ NeverOlderThanTold'
  BY <1>1, StaleKept, PendingKept, NeverKept DEF IInv, Answered
<1> QED
  BY <1>5, <1>6, <1>8, <1>9, <1>10 DEF IInv, Answered

LEMMA AckGivenUpIInv == ASSUME IInv, AckGivenUp PROVE IInv'
<1> USE DEF serverVars, runVars, noteVars
<1>1. /\ TypeOK /\ loop # 0 /\ loop' = 0
      /\ UNCHANGED <<cache, responses, nextID, callMu, serverVars, runVars, noteVars>>
      /\ faults' \in SUBSET Faults /\ faults \subseteq faults'
  BY DEF AckGivenUp, IInv, TypeOK, Faults
<1>2. TypeOK'
  BY <1>1, BoundsAssumption DEF TypeOK
<1>3. Calls'
  BY <1>1, CallIdsKept, OnePlaceKept, Numbers DEF IInv, Calls, CallIds
<1>4. \A v \in Versions : HeardBelow(v) => HeardBelow(v)'
  BY <1>1, HeardKept
<1>5. HeldBack'
  <2>1. CASE \E c \in Clients : pc[c] \in {"wait", "fill"} /\ id[c] = loop
    BY <2>1 DEF AckGivenUp, HeldBack
  <2>2. CASE ~ \E c \in Clients : pc[c] \in {"wait", "fill"} /\ id[c] = loop
    BY <1>1, <1>4, <2>2, UpToDateKept, HeldBackKept DEF IInv, News
  <2> QED
    BY <2>1, <2>2
<1>6. \A d \in Clients : since'[d] \in Nat /\ since'[d] <= ver
  BY <1>1, Numbers DEF IInv, News, SinceTold
<1>7. News'
  BY <1>1, <1>4, <1>5, <1>6, Numbers, OrderKept, SinceToldKept DEF IInv, News
<1>8. Answered'
  BY <1>1, Numbers, CachedKept, StaleKept, PendingKept, NeverKept DEF IInv, Answered
<1> QED
  BY <1>2, <1>3, <1>7, <1>8 DEF IInv

\* The cache is dropped, or filled with a list that is not older than the news.
LEMMA CacheSetIInv ==
  ASSUME IInv, UNCHANGED <<serverVars, realVars, runVars, noteVars>>,
         \/ cache' = NoList /\ faults' = faults
         \/ cache' \in 0..ver /\ faults' = IF cache' < ver THEN faults \cup {"refreshed"} ELSE faults
  PROVE  IInv'
<1> USE DEF serverVars, realVars, runVars, noteVars
<1>1. /\ TypeOK /\ faults \subseteq faults' /\ ver \in Nat
      /\ faults' \in SUBSET Faults /\ ("overtaken" \in faults => "overtaken" \in faults')
  BY Numbers DEF IInv, TypeOK, Faults
<1>2. TypeOK'
  <2>1. \A v \in 0..ver : v \in Versions
    BY BoundsAssumption DEF IInv, TypeOK, Versions
  <2> QED
    BY <1>1, <2>1 DEF TypeOK
<1>3. Calls'
  BY <1>1, CallIdsKept, OnePlaceKept, Numbers DEF IInv, Calls, CallIds
<1>4. \A v \in Versions : HeardBelow(v) => HeardBelow(v)'
  BY HeardKept
<1>5. \A d \in Clients : since'[d] \in Nat /\ since'[d] <= ver
  BY <1>1, Numbers DEF IInv, News, SinceTold
<1>6. News'
  BY <1>1, <1>4, <1>5, Numbers, OrderKept, UpToDateKept, HeldBackKept, SinceToldKept DEF IInv, News
<1>7. Cached'
  <2>1. CASE cache' = NoList
    BY <2>1 DEF Cached
  <2>2. CASE cache' \in 0..ver /\ cache' < ver
    <3>1. "refreshed" \in faults'
      BY <1>1, <2>2, NoListAssumption
    <3> QED
      BY <2>2, <3>1 DEF Cached, Lapses
  <2>3. CASE cache' \in 0..ver /\ ~(cache' < ver)
    <3>1. cache' = ver
      BY <1>1, <2>3
    <3> QED
      BY <1>1, <3>1 DEF IInv, News, Order, HeardBelow, Cached
  <2> QED
    BY <2>1, <2>2, <2>3
<1>8. StaleIsDoomed'
  BY <1>1, NoListAssumption DEF StaleIsDoomed
<1>9. NeverOlderThanTold'
  BY <1>1, NeverKept DEF IInv, Answered
<1> QED
  BY <1>2, <1>3, <1>6, <1>7, <1>8, <1>9 DEF IInv, Answered

-----------------------------------------------------------------------------
(* Steps of the real process and of the read loop.                         *)

\* A message is written: an announcement or an answer at the new version, or
\* anything else while the version stays.
LEMMA WrittenIInv ==
  ASSUME IInv, NEW m \in Messages, stdout' = Append(stdout, m),
         UNCHANGED <<realVars, runVars, noteVars, cacheVars>>,
         ver' \in Versions, ver <= ver', ver < ver' => m.kind = "changed",
         m.kind # "other" => m.ver = ver',
         asked' = IF m.kind = "list" THEN asked \ {m.id} ELSE asked,
         m.kind = "list" => m.id \in asked
  PROVE  IInv'
<1> USE DEF realVars, runVars, noteVars, cacheVars
<1> DEFINE n == Len(stdout) + 1
<1>1. TypeOK /\ OnePlace /\ Order /\ HeldBack /\ SinceTold /\ stdout \in Seq(Messages)
  BY DEF IInv, Calls, News, TypeOK, Messages
<1>2. /\ stdout' \in Seq(Messages) /\ n \in Nat \ {0} /\ DOMAIN stdout = 1..(n - 1) /\ DOMAIN stdout' = 1..n
      /\ \A k \in 1..(n - 1) : stdout'[k] = stdout[k]
      /\ stdout'[n] = m
  BY <1>1, Appended
<1>3. /\ \A v : Carries(stdout', v) <=> Carries(stdout, v) \/ Announces(m, v)
      /\ \A i : Listed(stdout', i) <=> Listed(stdout, i) \/ Answers(m, i)
      /\ Single(stdout) /\ (m.kind = "list" => ~Listed(stdout, m.id)) => Single(stdout')
  BY <1>1, AppendCarries
<1> HIDE DEF n
<1>4. /\ n \in DOMAIN stdout' /\ \A k \in DOMAIN stdout' : k \in DOMAIN stdout \/ k = n
      /\ \A k \in DOMAIN stdout : k \in DOMAIN stdout' /\ stdout'[k] = stdout[k] /\ k < n
  BY <1>2
<1>5. /\ ver \in Nat /\ ver' \in Nat /\ m.ver \in Nat /\ (m.kind = "other" => m.ver = 0)
      /\ m.kind = "list" => m.id \in 1..MaxCalls
  BY <1>1, Numbers, MessageFields
<1>6. TypeOK'
  BY <1>1, <1>2 DEF TypeOK, Messages
<1>7. CallIds'
  BY DEF IInv, Calls, CallIds
<1>8. OnePlace'
  <2>1. \A i \in 1..MaxCalls :
          /\ Taken(i)' <=> Taken(i)
          /\ Listed(responses, i)' <=> Listed(responses, i)
          /\ Listed(stdout, i)' <=> Listed(stdout', i)
    BY DEF Taken, Listed
  <2>2. Single(stdout)' /\ Single(responses)'
    BY <1>1, <1>3, <1>5 DEF OnePlace, InOnePlace, Single
  <2>3. ASSUME NEW i \in 1..MaxCalls PROVE InOnePlace(i)'
    BY <1>1, <1>3, <2>1 DEF OnePlace, InOnePlace, Answers
  <2> QED
    BY <2>2, <2>3 DEF OnePlace, InOnePlace
<1>9. \A v \in Nat : HeardBelow(v) => HeardBelow(v)'
  BY DEF HeardBelow
<1>10. \A v \in Versions : v \in Nat /\ (v <= ver => v <= ver')
  BY <1>1, <1>5, Numbers
<1>11. HeardBelow(ver) /\ HeardBelow(ver)'
  <2>1. HeardBelow(ver)
    BY <1>1 DEF Order
  <2>2. \A c \in Clients :
          /\ told[c] \in Versions
          /\ \A k \in DOMAIN note[c] : note[c][k].ver \in Versions
          /\ \A k \in DOMAIN queue[c] : queue[c][k].ver \in Versions
    BY <1>1, Numbers
  <2> QED
    BY <1>10, <2>1, <2>2 DEF HeardBelow
<1>12. Order'
  <2>1. ASSUME NEW k \in DOMAIN stdout' PROVE stdout'[k].ver <= ver'
    <3>1. CASE k = n
      <4>1. 0 <= ver'
        BY <1>5
      <4>2. m.ver = ver' \/ m.ver = 0
        BY <1>5
      <4>3. ver' <= ver'
        BY <1>5
      <4> QED
        BY <1>2, <3>1, <4>1, <4>2, <4>3
    <3>2. CASE k \in DOMAIN stdout
      <4>1. stdout[k].ver \in Versions /\ stdout[k].ver <= ver
        BY <1>1, <3>2, Numbers DEF Order
      <4> QED
        BY <1>4, <1>10, <3>2, <4>1
    <3> QED
      BY <1>4, <3>1, <3>2
  <2>2. ASSUME NEW v \in Versions, NEW k \in DOMAIN stdout',
               stdout'[k].kind # "other", stdout'[k].ver = v
        PROVE  HeardBelow(v)'
    <3>1. CASE k = n
      BY <1>2, <1>11, <2>2, <3>1 DEF HeardBelow
    <3>2. CASE k \in DOMAIN stdout
      BY <1>1, <1>4, <1>9, <1>10, <2>2, <3>2 DEF Order
    <3> QED
      BY <1>4, <3>1, <3>2
  <2>3. ASSUME NEW j \in DOMAIN stdout', NEW k \in DOMAIN stdout', j < k, stdout'[k].kind # "other"
        PROVE  stdout'[j].ver <= stdout'[k].ver
    <3>1. CASE k = n
      BY <1>2, <2>1, <2>3, <3>1
    <3>2. CASE k \in DOMAIN stdout
      <4>1. j \in DOMAIN stdout
        BY <1>2, <2>3, <3>2
      <4> QED
        BY <1>1, <1>4, <2>3, <3>2, <4>1 DEF Order
    <3> QED
      BY <1>4, <3>1, <3>2
  <2>4. ASSUME NEW k \in DOMAIN stdout', stdout'[k].kind = "list", stdout'[k].ver < ver'
        PROVE  \E j \in DOMAIN stdout' : j > k /\ Announces(stdout'[j], stdout'[k].ver)
    <3>1. k \in DOMAIN stdout
      BY <1>2, <1>4, <1>5, <2>4
    <3>2. CASE ver = ver'
      BY <1>1, <1>4, <2>4, <3>1, <3>2 DEF Order
    <3>3. CASE ver < ver'
      BY <1>2, <1>4, <2>4, <3>1, <3>3 DEF Announces
    <3> QED
      BY <1>5, <3>2, <3>3
  <2> QED
    BY <1>11, <2>1, <2>2, <2>3, <2>4 DEF Order
<1>13. HeldBack'
  <2>1. ASSUME NEW v \in Versions, UpToDate(v) PROVE UpToDate(v)'
    <3>1. v \in Nat /\ v <= ver /\ HeardBelow(v)' /\ (v < ver => Carries(stdout, v))
      BY <1>9, <1>10, <2>1 DEF UpToDate
    <3>2. v < ver' => Carries(stdout', v)
      BY <1>3, <1>5, <3>1 DEF Announces
    <3> QED
      BY <1>5, <3>1, <3>2 DEF UpToDate, Carries
  <2> QED
    BY <1>1, <2>1, HeldBackKept
<1>14. SinceTold'
  <2>1. \A k \in DOMAIN responses : responses[k].ver <= ver'
    <3>1. \A k \in DOMAIN responses : responses[k].ver \in Versions /\ responses[k].ver <= ver
      BY <1>1, Numbers DEF SinceTold
    <3> QED
      BY <1>10, <3>1
  <2>2. \A c \in Clients : since[c] <= ver' /\ (pc[c] = "fill" => since[c] <= held[c] /\ held[c] <= ver')
    <3>1. \A c \in Clients :
            /\ since[c] \in Versions /\ held[c] \in Versions /\ since[c] <= ver
            /\ pc[c] = "fill" => since[c] <= held[c] /\ held[c] <= ver
      BY <1>1, Numbers DEF SinceTold
    <3> QED
      BY <1>10, <3>1
  <2>3. ASSUME NEW c \in Clients, pc[c] = "wait", NEW k \in DOMAIN stdout', Answers(stdout'[k], id[c])
        PROVE  since[c] <= stdout'[k].ver
    <3>1. CASE k = n
      BY <1>2, <2>2, <2>3, <3>1 DEF Answers
    <3>2. CASE k \in DOMAIN stdout
      BY <1>1, <1>4, <2>3, <3>2 DEF SinceTold
    <3> QED
      BY <1>4, <3>1, <3>2
  <2>4. \A c \in Clients : pc[c] = "wait" =>
          \A k \in DOMAIN responses : responses[k].id = id[c] => since[c] <= responses[k].ver
    BY <1>1 DEF SinceTold
  <2> QED
    BY <2>1, <2>2, <2>3, <2>4 DEF SinceTold, Answers
<1>15. Cached' /\ NeverOlderThanTold'
  BY <1>1, <1>5, CachedKept, NeverKept DEF IInv, Answered
<1>16. StaleIsDoomed'
  <2>1. cache # NoList => cache \in Nat /\ cache <= ver
    BY <1>1, <1>10, Numbers DEF IInv, Answered, Cached
  <2>2. CASE ver = ver'
    BY <1>1, <1>3, <2>2 DEF IInv, Answered, StaleIsDoomed, ChangePending, Carries
  <2>3. CASE ver < ver' /\ cache # NoList
    <3>1. Carries(stdout', cache)
      BY <1>3, <1>5, <2>1, <2>3 DEF Announces
    <3> QED
      BY <3>1 DEF StaleIsDoomed, ChangePending
  <2> QED
    BY <1>5, <2>2, <2>3 DEF StaleIsDoomed
<1> QED
  BY <1>6, <1>7, <1>8, <1>12, <1>13, <1>14, <1>15, <1>16 DEF IInv, Calls, News, Answered

LEMMA ServerIInv == ASSUME IInv, ChangeTools \/ NotifyOther \/ AnswerList PROVE IInv'
<1>1. ver \in Versions /\ ver \in Nat /\ ver \in 0..MaxVersion /\ MaxVersion \in Nat
  BY Numbers, BoundsAssumption DEF IInv, Versions
<1>2. CASE ChangeTools
  <2>1. ver + 1 \in Versions
    BY <1>1, <1>2 DEF ChangeTools, Versions
  <2>2. /\ Changed(ver + 1) \in Messages /\ Changed(ver + 1).kind = "changed"
        /\ Changed(ver + 1).ver = ver + 1
    BY <2>1, MadeMessages DEF Messages
  <2>3. /\ ver' = ver + 1 /\ stdout' = Append(stdout, Changed(ver + 1)) /\ asked' = asked
        /\ UNCHANGED <<realVars, runVars, noteVars, cacheVars>>
    BY <1>2 DEF ChangeTools
  <2> QED
    BY <1>1, <2>1, <2>2, <2>3, WrittenIInv
<1>3. CASE NotifyOther
  <2>1. OtherNote \in Messages /\ OtherNote.kind = "other"
    BY MadeMessages DEF Messages
  <2> QED
    BY <1>1, <1>3, <2>1, WrittenIInv DEF NotifyOther
<1>4. CASE AnswerList
  <2>1. PICK i \in asked : asked' = asked \ {i} /\ stdout' = Append(stdout, List(i, ver))
    BY <1>4 DEF AnswerList
  <2>2. i \in 1..MaxCalls
    BY DEF IInv, TypeOK
  <2>3. /\ List(i, ver) \in Messages /\ List(i, ver).kind = "list"
        /\ List(i, ver).id = i /\ List(i, ver).ver = ver
    BY <1>1, <2>2, MadeMessages DEF Messages
  <2>4. ver' = ver /\ UNCHANGED <<realVars, runVars, noteVars, cacheVars>>
    BY <1>4 DEF AnswerList
  <2> QED
    BY <1>1, <2>1, <2>3, <2>4, WrittenIInv
<1> QED
  BY <1>2, <1>3, <1>4

\* The read loop reads the first message.
LEMMA FirstRead ==
  ASSUME IInv, stdout # <<>>, stdout' = Tail(stdout), ver' = ver,
         \A v \in Versions : HeardBelow(v) /\ Head(stdout).ver <= v => HeardBelow(v)'
  PROVE  /\ stdout' \in Seq(Messages) /\ stdout' \in Seq(Notes \cup Lists)
         /\ Head(stdout) \in Messages
         /\ \E k \in DOMAIN stdout : stdout[k] = Head(stdout)
         /\ \A k \in DOMAIN stdout' : \E j \in DOMAIN stdout : stdout'[k] = stdout[j]
         /\ Head(stdout).kind = "list" /\ Head(stdout).ver < ver => Carries(stdout', Head(stdout).ver)
         /\ Order'
<1> DEFINE n == Len(stdout)
           h == Head(stdout)
<1>1. TypeOK /\ Order /\ stdout \in Seq(Messages)
  BY DEF IInv, News, TypeOK, Messages
<1>2. /\ stdout' \in Seq(Messages) /\ h \in Messages /\ h = stdout[1]
      /\ n \in Nat \ {0} /\ DOMAIN stdout = 1..n /\ DOMAIN stdout' = 1..(n - 1)
      /\ \A k \in 1..(n - 1) : stdout'[k] = stdout[k + 1]
  BY <1>1, Beheaded
<1> HIDE DEF n, h
<1>3. /\ 1 \in DOMAIN stdout
      /\ \A k \in DOMAIN stdout' : k + 1 \in DOMAIN stdout /\ 1 < k + 1 /\ stdout'[k] = stdout[k + 1]
      /\ \A k \in DOMAIN stdout : 1 < k => k - 1 \in DOMAIN stdout' /\ stdout'[k - 1] = stdout[k]
  BY <1>2
<1>4. h.ver \in Versions /\ h.ver <= ver
  BY <1>1, <1>2, <1>3, MessageFields DEF Order
<1>5. h.kind = "list" /\ h.ver < ver => Carries(stdout', h.ver)
  <2>1. SUFFICES ASSUME h.kind = "list", h.ver < ver PROVE Carries(stdout', h.ver)
    OBVIOUS
  <2>2. PICK j \in DOMAIN stdout : j > 1 /\ Announces(stdout[j], h.ver)
    BY <1>1, <1>2, <1>3, <2>1 DEF Order
  <2>3. j - 1 \in DOMAIN stdout' /\ stdout'[j - 1] = stdout[j]
    BY <1>2, <1>3, <2>2
  <2> QED
    BY <2>2, <2>3 DEF Carries
<1>6. Order'
  <2>1. HeardBelow(ver)'
    <3>1. HeardBelow(ver) /\ ver \in Versions
      BY <1>1, Numbers DEF Order
    <3> QED
      BY <1>4, <3>1 DEF HeardBelow, h
  <2>2. \A k \in DOMAIN stdout' : stdout'[k].ver <= ver
    BY <1>1, <1>3 DEF Order
  <2>3. ASSUME NEW v \in Versions, NEW k \in DOMAIN stdout',
               stdout'[k].kind # "other", stdout'[k].ver = v
        PROVE  HeardBelow(v)'
    <3>1. HeardBelow(v) /\ h.ver <= v
      BY <1>1, <1>2, <1>3, <2>3 DEF Order
    <3> QED
      BY <3>1 DEF h
  <2>4. ASSUME NEW j \in DOMAIN stdout', NEW k \in DOMAIN stdout', j < k, stdout'[k].kind # "other"
        PROVE  stdout'[j].ver <= stdout'[k].ver
    <3>1. j + 1 < k + 1
      BY <1>2, <2>4
    <3> QED
      BY <1>1, <1>3, <2>4, <3>1 DEF Order
  <2>5. ASSUME NEW k \in DOMAIN stdout', stdout'[k].kind = "list", stdout'[k].ver < ver
        PROVE  \E j \in DOMAIN stdout' : j > k /\ Announces(stdout'[j], stdout'[k].ver)
    <3>1. PICK j \in DOMAIN stdout : j > k + 1 /\ Announces(stdout[j], stdout'[k].ver)
      BY <1>1, <1>3, <2>5 DEF Order
    <3>2. j - 1 > k /\ j - 1 \in DOMAIN stdout' /\ stdout'[j - 1] = stdout[j]
      BY <1>2, <1>3, <3>1
    <3> QED
      BY <3>1, <3>2
  <2> QED
    BY <2>1, <2>2, <2>3, <2>4, <2>5 DEF Order
<1> QED
  BY <1>2, <1>3, <1>5, <1>6 DEF h, Messages

LEMMA PassOnIInv == ASSUME IInv, PassOn PROVE IInv'
<1> USE DEF runVars, noteVars, cacheVars
<1> DEFINE h == Head(stdout)
           n == Len(responses) + 1
<1>1. /\ TypeOK /\ loop = 0 /\ stdout # <<>> /\ h.kind = "list"
      /\ responses' = Append(responses, h) /\ loop' = h.id /\ stdout' = Tail(stdout)
      /\ UNCHANGED <<ver, asked, nextID, callMu, runVars, noteVars, cacheVars>>
  BY DEF PassOn, IInv
<1>2. \A v \in Versions : HeardBelow(v) => HeardBelow(v)'
  BY <1>1, HeardKept
<1>3. /\ stdout' \in Seq(Messages) /\ stdout' \in Seq(Notes \cup Lists)
      /\ h \in Messages
      /\ \E k \in DOMAIN stdout : stdout[k] = h
      /\ \A k \in DOMAIN stdout' : \E j \in DOMAIN stdout : stdout'[k] = stdout[j]
      /\ h.kind = "list" /\ h.ver < ver => Carries(stdout', h.ver)
      /\ Order'
  BY <1>1, <1>2, FirstRead
<1>4. /\ \A i : Listed(stdout, i) <=> Listed(stdout', i) \/ Answers(h, i)
      /\ Single(stdout') /\ ~Listed(stdout', h.id)
  <2>1. stdout \in Seq(Messages) /\ Single(stdout)
    BY <1>1 DEF IInv, Calls, OnePlace, InOnePlace, TypeOK, Messages
  <2> QED
    BY <1>1, <2>1, TailCarries
<1>5. h \in Lists /\ h.id \in 1..MaxCalls /\ h.ver \in Versions /\ h.ver \in Nat
  BY <1>1, <1>3, MessageFields
<1>6. Answers(h, h.id) /\ Listed(stdout, h.id)
  BY <1>1, <1>4 DEF Answers
<1>7. h.ver <= ver /\ \A v \in Versions : h.ver = v => HeardBelow(v)
  BY <1>1, <1>3 DEF IInv, News, Order
<1>8. responses \in Seq(Lists) /\ responses \in Seq(Messages)
  BY <1>1 DEF TypeOK, Messages
<1> HIDE DEF h
<1>9. /\ responses' \in Seq(Lists) /\ n \in Nat \ {0}
      /\ DOMAIN responses = 1..(n - 1) /\ DOMAIN responses' = 1..n
      /\ \A k \in 1..(n - 1) : responses'[k] = responses[k]
      /\ responses'[n] = h
  BY <1>1, <1>5, <1>8, Appended
<1>10. \A k \in DOMAIN responses' :
         (k \in DOMAIN responses /\ responses'[k] = responses[k]) \/ responses'[k] = h
  BY <1>9
<1>11. /\ \A i : Listed(responses', i) <=> Listed(responses, i) \/ Answers(h, i)
       /\ Single(responses) /\ ~Listed(responses, h.id) => Single(responses')
  BY <1>1, <1>3, <1>8, AppendCarries
<1>12. TypeOK'
  BY <1>1, <1>3, <1>5, <1>9 DEF TypeOK
<1>13. CallIds'
  BY <1>1 DEF IInv, Calls, CallIds
<1>14. OnePlace'
  <2>1. \A i \in 1..MaxCalls :
          /\ Taken(i)' <=> Taken(i)
          /\ Listed(responses, i)' <=> Listed(responses', i)
          /\ Listed(stdout, i)' <=> Listed(stdout', i)
    BY <1>1 DEF Taken, Listed
  <2>2. ~Listed(responses, h.id) /\ Single(responses)
    BY <1>5, <1>6 DEF IInv, Calls, OnePlace, InOnePlace
  <2>3. Single(stdout)' /\ Single(responses)'
    BY <1>4, <1>11, <2>2 DEF Single
  <2>4. ASSUME NEW i \in 1..MaxCalls PROVE InOnePlace(i)'
    <3>1. CASE i = h.id
      BY <1>1, <1>4, <1>6, <1>11, <2>1, <3>1 DEF IInv, Calls, OnePlace, InOnePlace
    <3>2. CASE i # h.id
      <4>1. ~Answers(h, i)
        BY <3>2 DEF Answers
      <4> QED
        BY <1>1, <1>4, <1>11, <2>1, <4>1 DEF IInv, Calls, OnePlace, InOnePlace
    <3> QED
      BY <3>1, <3>2
  <2> QED
    BY <2>3, <2>4 DEF OnePlace, InOnePlace
<1>15. HeldBack'
  <2>1. SUFFICES ASSUME "overtaken" \notin faults, NEW c \in Clients, NEW v \in Versions
                 PROVE  /\ \A k \in DOMAIN responses' :
                             pc[c] = "wait" /\ responses'[k].id = id[c] /\ responses'[k].ver = v =>
                               loop' = id[c] /\ UpToDate(v)'
                        /\ pc[c] = "fill" /\ held[c] = v => loop' = id[c] /\ UpToDate(v)'
    BY <1>1 DEF HeldBack
  <2>2. /\ pc[c] \in {"wait", "fill"} => id[c] # 0
        /\ pc[c] = "fill" => loop = id[c]
        /\ pc[c] = "wait" => \A k \in DOMAIN responses : responses[k].id # id[c]
    <3>1. pc[c] \in {"wait", "fill"} => id[c] # 0
      BY DEF IInv, Calls, CallIds
    <3>2. pc[c] = "fill" => loop = id[c]
      BY <1>1, <2>1, Numbers DEF IInv, News, HeldBack
    <3>3. pc[c] = "wait" => \A k \in DOMAIN responses : responses[k].id # id[c]
      BY <1>1, <2>1, <3>1, Numbers DEF IInv, News, HeldBack
    <3> QED
      BY <3>1, <3>2, <3>3
  <2>3. h.ver = v => UpToDate(v)'
    BY <1>1, <1>2, <1>3, <1>7 DEF UpToDate, Carries
  <2> QED
    BY <1>1, <1>10, <2>2, <2>3
<1>16. SinceTold'
  <2>1. \A c \in Clients : pc[c] = "wait" /\ h.id = id[c] => since[c] <= h.ver
    BY <1>1, <1>3 DEF IInv, News, SinceTold, Answers
  <2>2. \A k \in DOMAIN responses' : responses'[k].ver <= ver
    BY <1>7, <1>10 DEF IInv, News, SinceTold
  <2>3. \A c \in Clients : pc[c] = "wait" =>
          /\ \A k \in DOMAIN stdout' : Answers(stdout'[k], id[c]) => since[c] <= stdout'[k].ver
          /\ \A k \in DOMAIN responses' : responses'[k].id = id[c] => since[c] <= responses'[k].ver
    BY <1>3, <1>10, <2>1 DEF IInv, News, SinceTold
  <2>4. \A c \in Clients : since[c] <= ver /\ (pc[c] = "fill" => since[c] <= held[c] /\ held[c] <= ver)
    BY DEF IInv, News, SinceTold
  <2> QED
    BY <1>1, <2>2, <2>3, <2>4 DEF SinceTold, Answers
<1>17. Cached' /\ NeverOlderThanTold'
  BY <1>1, Numbers, CachedKept, NeverKept DEF IInv, Answered
<1>18. StaleIsDoomed'
  <2>1. \A v : Carries(stdout, v) => Carries(stdout', v)
    <3>1. stdout \in Seq(Messages)
      BY <1>1 DEF TypeOK, Messages
    <3>2. \A v : Carries(stdout, v) <=> Carries(stdout', v) \/ Announces(h, v)
      BY <1>1, <3>1, TailCarries DEF h
    <3> QED
      BY <1>1, <3>2 DEF Announces
  <2>2. \A v \in Versions : ChangePending(v) => ChangePending(v)'
    BY <1>1, <2>1 DEF ChangePending, Carries
  <2> QED
    BY <1>1, <2>2, StaleKept DEF IInv, Answered
<1> QED
  BY <1>3, <1>12, <1>13, <1>14, <1>15, <1>16, <1>17, <1>18 DEF IInv, Calls, News, Answered

LEMMA BroadcastIInv == ASSUME IInv, Broadcast PROVE IInv'
<1> USE DEF realVars, runVars
<1> DEFINE h == Head(stdout)
           Gets(c) == c \in subs /\ HasRoom(c)
<1>1. /\ TypeOK /\ loop = 0 /\ stdout # <<>> /\ h.kind # "list" /\ stdout' = Tail(stdout)
      /\ UNCHANGED <<ver, asked, told, subs, note, cache, realVars, runVars>>
      /\ faults' \in SUBSET Faults /\ faults \subseteq faults' /\ Lapses' = Lapses
      /\ "overtaken" \in faults => "overtaken" \in faults'
      /\ \A c \in Clients : queue'[c] = IF Gets(c) THEN Append(queue[c], h) ELSE queue[c]
      /\ h.kind = "changed" => (\E c \in subs : Gets(c)) \/ faults' # {}
  <2>1. TypeOK /\ loop = 0 /\ stdout # <<>> /\ h.kind # "list" /\ stdout' = Tail(stdout)
        /\ UNCHANGED <<ver, asked, told, subs, note, cache, realVars, runVars>>
    BY DEF Broadcast, IInv
  <2>2. \A c \in Clients : queue'[c] = IF Gets(c) THEN Append(queue[c], h) ELSE queue[c]
    BY DEF Broadcast
  <2>3. faults' = IF h.kind = "changed" /\ ~ \E c \in subs : HasRoom(c)
                  THEN faults \cup {"unheard"} ELSE faults
    BY DEF Broadcast
  <2>4. faults' \in SUBSET Faults /\ faults \subseteq faults' /\ Lapses' = Lapses
    BY <2>1, <2>3 DEF TypeOK, Faults, Lapses
  <2>5. h.kind = "changed" => (\E c \in subs : Gets(c)) \/ faults' # {}
    BY <2>3
  <2> QED
    BY <2>1, <2>2, <2>4, <2>5
<1>2. stdout \in Seq(Messages) /\ h \in Messages
  <2>1. stdout \in Seq(Messages)
    BY <1>1 DEF TypeOK, Messages
  <2> QED
    BY <1>1, <2>1, Beheaded
<1>3. h \in Notes /\ h.ver \in Versions
  BY <1>1, <1>2, MessageFields
<1>4. /\ \A v : Carries(stdout, v) <=> Carries(stdout', v) \/ Announces(h, v)
      /\ \A i : Listed(stdout', i) => Listed(stdout, i)
      /\ Single(stdout) => Single(stdout')
  BY <1>1, <1>2, TailCarries
<1> HIDE DEF h
<1>5. ASSUME NEW c \in Clients, Gets(c)
      PROVE  /\ queue'[c] \in Seq(Notes) /\ Len(queue'[c]) <= SubCap
             /\ \A k \in DOMAIN queue'[c] :
                  (k \in DOMAIN queue[c] /\ queue'[c][k] = queue[c][k]) \/ queue'[c][k] = h
             /\ \A v : Carries(queue[c], v) \/ Announces(h, v) => Carries(queue'[c], v)
  <2>1. queue[c] \in Seq(Notes) /\ queue'[c] = Append(queue[c], h) /\ Len(queue[c]) < SubCap
    BY <1>1, <1>5 DEF TypeOK, HasRoom
  <2>2. /\ queue'[c] \in Seq(Notes) /\ Len(queue'[c]) = Len(queue[c]) + 1 /\ Len(queue[c]) \in Nat
        /\ DOMAIN queue[c] = 1..Len(queue[c]) /\ DOMAIN queue'[c] = 1..(Len(queue[c]) + 1)
        /\ \A k \in 1..Len(queue[c]) : queue'[c][k] = queue[c][k]
        /\ queue'[c][Len(queue[c]) + 1] = h
    BY <1>3, <2>1, Appended
  <2>3. \A v : Carries(queue'[c], v) <=> Carries(queue[c], v) \/ Announces(h, v)
    <3>1. queue[c] \in Seq(Messages)
      BY <2>1 DEF Messages
    <3> QED
      BY <1>2, <2>1, <3>1, AppendCarries
  <2> QED
    BY <2>1, <2>2, <2>3, BoundsAssumption
<1> HIDE DEF Gets
<1>6. \A v \in Versions : HeardBelow(v) /\ h.ver <= v => HeardBelow(v)'
  <2>1. SUFFICES ASSUME NEW v \in Versions, HeardBelow(v), h.ver <= v, NEW c \in Clients
                 PROVE  \A k \in DOMAIN queue'[c] : queue'[c][k].ver <= v
    BY <1>1 DEF HeardBelow
  <2>2. \A k \in DOMAIN queue[c] : queue[c][k].ver <= v
    BY <2>1 DEF HeardBelow
  <2>3. CASE Gets(c)
    BY <1>5, <2>1, <2>2, <2>3
  <2>4. CASE ~Gets(c)
    BY <1>1, <2>2, <2>4
  <2> QED
    BY <2>3, <2>4
<1>7. /\ stdout' \in Seq(Notes \cup Lists)
      /\ \A k \in DOMAIN stdout' : \E j \in DOMAIN stdout : stdout'[k] = stdout[j]
      /\ Order'
  BY <1>1, <1>6, FirstRead DEF h
<1>8. TypeOK'
  <2>1. \A c \in Clients : Gets(c) => c \in subs
    BY DEF Gets
  <2>2. \A c \in Clients : queue'[c] \in Seq(Notes) /\ Len(queue'[c]) <= SubCap
    BY <1>1, <1>5 DEF TypeOK
  <2>3. \A c \in Clients : c \notin subs => queue'[c] = <<>>
    BY <1>1, <2>1 DEF TypeOK
  <2>4. queue' \in [Clients -> Seq(Notes)]
    BY <2>2 DEF Broadcast
  <2> QED
    BY <1>1, <1>7, <2>2, <2>3, <2>4 DEF TypeOK
<1>9. CallIds'
  BY <1>1 DEF IInv, Calls, CallIds
<1>10. OnePlace'
  <2>1. \A i \in 1..MaxCalls :
          /\ Taken(i)' <=> Taken(i)
          /\ Listed(responses, i)' <=> Listed(responses, i)
          /\ Listed(stdout, i)' <=> Listed(stdout', i)
    BY <1>1 DEF Taken, Listed
  <2>2. Single(stdout)' /\ Single(responses)'
    BY <1>1, <1>4 DEF IInv, Calls, OnePlace, InOnePlace, Single
  <2>3. ASSUME NEW i \in 1..MaxCalls PROVE InOnePlace(i)'
    BY <1>1, <1>4, <2>1 DEF IInv, Calls, OnePlace, InOnePlace
  <2> QED
    BY <2>2, <2>3 DEF OnePlace, InOnePlace
<1>11. HeldBack'
  <2>1. SUFFICES ASSUME "overtaken" \notin faults, NEW c \in Clients, NEW v \in Versions
                 PROVE  /\ \A k \in DOMAIN responses :
                             ~(pc[c] = "wait" /\ responses[k].id = id[c] /\ responses[k].ver = v)
                        /\ ~(pc[c] = "fill" /\ held[c] = v)
    BY <1>1 DEF HeldBack
  <2>2. pc[c] \in {"wait", "fill"} => id[c] # 0
    BY DEF IInv, Calls, CallIds
  <2> QED
    BY <1>1, <2>1, <2>2 DEF IInv, News, HeldBack
<1>12. SinceTold'
  <2>1. \A d \in Clients : since'[d] \in Nat /\ since'[d] <= ver
    BY <1>1, Numbers DEF IInv, News, SinceTold
  <2> QED
    BY <1>1, <1>7, <2>1, Numbers, SinceToldKept DEF IInv, News
<1>13. Cached'
  BY <1>1 DEF IInv, Answered, Cached
<1>14. StaleIsDoomed'
  <2>1. ASSUME NEW v \in Versions, ChangePending(v) PROVE ChangePending(v)' \/ faults' # {}
    <3>1. CASE Carries(stdout', v)
      BY <3>1 DEF ChangePending, Carries
    <3>2. CASE Announces(h, v)
      <4>1. h.kind = "changed"
        BY <3>2 DEF Announces
      <4>2. CASE \E c \in subs : Gets(c)
        <5>1. PICK c \in subs : Gets(c)
          BY <4>2
        <5>2. c \in Clients
          BY <1>1 DEF TypeOK
        <5>3. Carries(queue'[c], v)
          BY <1>5, <3>2, <5>1, <5>2
        <5> QED
          BY <1>1, <5>1, <5>3 DEF ChangePending, Carries
      <4> QED
        BY <1>1, <4>1, <4>2
    <3>3. CASE \E c \in subs : Carries(queue[c], v)
      <4>1. PICK c \in subs : Carries(queue[c], v)
        BY <3>3
      <4>2. c \in Clients
        BY <1>1 DEF TypeOK
      <4>3. Carries(queue'[c], v)
        BY <1>1, <1>5, <4>1, <4>2
      <4> QED
        BY <1>1, <4>1, <4>3 DEF ChangePending, Carries
    <3> QED
      BY <1>4, <2>1, <3>1, <3>2, <3>3 DEF ChangePending
  <2> QED
    BY <1>1, <2>1, StaleKept DEF IInv, Answered
<1>15. NeverOlderThanTold'
  BY <1>1, NeverKept DEF IInv, Answered
<1> QED
  BY <1>7, <1>8, <1>9, <1>10, <1>11, <1>12, <1>13, <1>14, <1>15 DEF IInv, Calls, News, Answered

-----------------------------------------------------------------------------
(* The invariant.                                                          *)

LEMMA UnchangedIInv == ASSUME IInv, UNCHANGED vars PROVE IInv'
<1> USE DEF vars, serverVars, realVars, runVars, noteVars, cacheVars
<1>1. TypeOK'
  BY DEF IInv, TypeOK
<1>2. Calls'
  BY DEF IInv, Calls, CallIds, OnePlace, InOnePlace, Single, Listed, Taken
<1>3. News'
  <2>1. \A c \in Clients : since'[c] = since[c]
    OBVIOUS
  <2> QED
    BY <2>1, NewsKept
<1>4. Answered'
  BY AnsweredKept
<1> QED
  BY <1>1, <1>2, <1>3, <1>4 DEF IInv

LEMMA NextIInv == IInv /\ [Next]_vars => IInv'
<1> SUFFICES ASSUME IInv, [Next]_vars PROVE IInv'
  OBVIOUS
<1>1. CASE \E c \in Clients : RunStep(c) \/ Invalidate(c) \/ Forward(c)
  BY <1>1, HitIInv, MissIInv, SubscribeIInv, OtherRequestIInv, SendIInv, TakeIInv, DropStaleIInv,
     CallFailsIInv, FillIInv, ReplyIInv, ReconnectIInv, InvalidateIInv, ForwardIInv DEF RunStep
<1>2. CASE ChangeTools \/ NotifyOther \/ AnswerList
  BY <1>2, ServerIInv
<1>3. CASE PassOn \/ Broadcast \/ AckGivenUp
  BY <1>3, PassOnIInv, BroadcastIInv, AckGivenUpIInv
<1>4. CASE Expire
  BY <1>4, CacheSetIInv DEF Expire
<1>5. CASE Refresh
  BY <1>5, CacheSetIInv DEF Refresh
<1>6. CASE UNCHANGED vars
  BY <1>6, UnchangedIInv
<1> QED
  BY <1>1, <1>2, <1>3, <1>4, <1>5, <1>6 DEF Next

\* What was read, called and announced is consistent at every step of the program,
\* of which the properties below are parts.
THEOREM Invariant == Spec => []IInv
BY InitIInv, NextIInv, PTL DEF Spec

\* The variables keep their types; in particular a subscription never holds more
\* than its capacity and an unsubscribed client has nothing queued.
THEOREM TypeCorrect == Spec => []TypeOK
<1>1. IInv => TypeOK
  BY DEF IInv
<1> QED
  BY Invariant, <1>1, PTL

\* A cached list that the server has since changed is about to be dropped, unless
\* a forwarder, the read loop, the file or a refresh has let the news pass.
THEOREM StaleListIsDoomed == Spec => []StaleIsDoomed
<1>1. IInv => StaleIsDoomed
  BY DEF IInv, Answered
<1> QED
  BY Invariant, <1>1, PTL

\* A client that was told of a change is not given an older list afterwards, by the
\* cache or by a call, although notifications may be lost; unless an ack was given up
\* on (overtaken), a file could not be removed (kept), or a refresh wrote it after the
\* change (refreshed).
THEOREM NoOlderList == Spec => []NeverOlderThanTold
<1>1. IInv => NeverOlderThanTold
  BY DEF IInv, Answered
<1> QED
  BY Invariant, <1>1, PTL

\* While no ack was given up on, the read loop has not read past a response that
\* may still be cached: the list is the newest any client has heard of, and what
\* makes it out of date is still unread (readLoop, the ack of a response).
THEOREM NoListOvertaken == Spec => []HeldBack
<1>1. IInv => HeldBack
  BY DEF IInv, News
<1> QED
  BY Invariant, <1>1, PTL
=============================================================================
