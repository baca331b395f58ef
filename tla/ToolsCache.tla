----------------------------- MODULE ToolsCache -----------------------------
(***************************************************************************)
(* The tools/list cache of a server and the notifications that invalidate  *)
(* it (internal/wrapper/proxy.go and cache.go): clients answered from the  *)
(* cache or by a call on the shared real process, the read loop that holds *)
(* later output back until a response has been written (ack), the broadcast *)
(* to the subscribed clients, and the forwarder of each client, which      *)
(* drops the cache and then passes the notification on.                    *)
(*                                                                         *)
(* `--refresh-cache' fills the same file from a process of its own, which   *)
(* lists the same tools and to whose announcements nobody listens.         *)
(*                                                                         *)
(* One real process, which the clients come and go around.  Its tool list  *)
(* is its version; it announces each change.  That part is not under src/. *)
(***************************************************************************)
EXTENDS Naturals, Sequences, SequencesExt

CONSTANTS
  Clients,      \* connections, each running Proxy.Run and its notifForwarder
  NoOne,        \* the holder of a free callMu
  NoList,       \* an empty cache
  SubCap,       \* capacity of a subscription channel (16 in the code)
  MaxVersion,   \* bound: changes of the tool list
  MaxCalls,     \* bound: tools/list calls forwarded
  MaxOutput     \* bound: messages of the real process not read yet

ASSUME NoOneAssumption == NoOne \notin Clients
ASSUME BoundsAssumption ==
  /\ SubCap \in Nat \ {0}
  /\ MaxVersion \in Nat /\ MaxCalls \in Nat /\ MaxOutput \in Nat
ASSUME NoListAssumption == NoList \notin Nat

Versions == 0..MaxVersion

\* What the real process writes: the answer to call id, with the version it
\* lists, the announcement that the list is now at a version, or some other
\* notification.
List(i, v) == [kind |-> "list", id |-> i, ver |-> v]
Changed(v) == [kind |-> "changed", id |-> 0, ver |-> v]
OtherNote  == [kind |-> "other", id |-> 0, ver |-> 0]
Notes      == {Changed(v) : v \in Versions} \cup {OtherNote}
Lists      == {List(i, v) : i \in 1..MaxCalls, v \in Versions}

VARIABLES
  ver,        \* version of the real server's tool list
  asked,      \* ids of the calls it has not answered
  stdout,     \* what it has written, not read yet
  loop,       \* 0 when the read loop reads, or the id of the response it waits on
  responses,  \* realClient.responses
  nextID,     \* realClient.nextID
  callMu,     \* holder of realClient.callMu
  pc,         \* pc[c]: where the Run loop of c is
  id,         \* id[c]: the call c has made, 0 when answered from the cache
  held,       \* held[c]: the version c is about to be given
  since,      \* since[c]: told[c] when c sent its request
  told,       \* told[c]: the latest version announced to c
  subs,       \* realClient.subs: the clients subscribed
  queue,      \* queue[c]: c's subscription channel
  note,       \* note[c]: the notification c's forwarder has yet to write, if any
  cache,      \* the version cached, or NoList
  faults      \* history: how a change has escaped invalidation

serverVars == <<ver, asked, stdout>>
realVars   == <<loop, responses, nextID, callMu>>
runVars    == <<pc, id, held, since>>
noteVars   == <<told, subs, queue, note>>
cacheVars  == <<cache, faults>>
vars       == <<serverVars, realVars, runVars, noteVars, cacheVars>>

\* A Run loop reads (idle), subscribes to the real process (miss), wants callMu
\* (queue), waits for its response (wait), caches it (fill), writes it (reply).
Phases == {"idle", "miss", "queue", "wait", "fill", "reply"}

\* A change nobody acts on, a change read while a list older than it was still
\* to be cached, a change whose handler could not remove the file, a list cached
\* by a refresh that a change overtook.
Faults == {"unheard", "overtaken", "kept", "refreshed"}

TypeOK ==
  /\ ver \in Versions
  /\ asked \in SUBSET (1..MaxCalls)
  /\ stdout \in Seq(Notes \cup Lists)
  /\ loop \in 0..MaxCalls
  /\ responses \in Seq(Lists)
  /\ nextID \in 0..MaxCalls
  /\ callMu \in Clients \cup {NoOne}
  /\ pc \in [Clients -> Phases]
  /\ id \in [Clients -> 0..MaxCalls]
  /\ held \in [Clients -> Versions]
  /\ since \in [Clients -> Versions]
  /\ told \in [Clients -> Versions]
  /\ subs \in SUBSET Clients
  /\ queue \in [Clients -> Seq(Notes)]
  /\ \A c \in Clients : Len(queue[c]) <= SubCap /\ (c \notin subs => queue[c] = <<>>)
  /\ note \in [Clients -> Seq(Notes)] /\ \A c \in Clients : Len(note[c]) <= 1
  /\ cache \in Versions \cup {NoList}
  /\ faults \in SUBSET Faults

Init ==
  /\ ver = 0 /\ asked = {} /\ stdout = <<>>
  /\ loop = 0 /\ responses = <<>> /\ nextID = 0 /\ callMu = NoOne
  /\ pc = [c \in Clients |-> "idle"]
  /\ id = [c \in Clients |-> 0]
  /\ held = [c \in Clients |-> 0]
  /\ since = [c \in Clients |-> 0]
  /\ told = [c \in Clients |-> 0]
  /\ subs = {}
  /\ queue = [c \in Clients |-> <<>>]
  /\ note = [c \in Clients |-> <<>>]
  /\ cache = NoList
  /\ faults = {}

Goto(c, phase) == pc' = [pc EXCEPT ![c] = phase]

\* The request of c is over; what it was about is forgotten.
Done(c) ==
  /\ Goto(c, "idle")
  /\ id' = [id EXCEPT ![c] = 0]
  /\ since' = [since EXCEPT ![c] = 0]

\* Closing the ack of response i wakes the read loop if it still waits for it.
Ack(i) == loop' = IF loop = i THEN 0 ELSE loop

Announces(m, v) == m.kind = "changed" /\ m.ver > v
Carries(s, v)   == \E k \in DOMAIN s : Announces(s[k], v)

-----------------------------------------------------------------------------
(* The Run loop of client c.                                               *)

\* toolsList, the cache answers.
Hit(c) ==
  /\ pc[c] = "idle"
  /\ cache # NoList
  /\ held' = [held EXCEPT ![c] = cache]
  /\ id' = [id EXCEPT ![c] = 0]
  /\ since' = [since EXCEPT ![c] = told[c]]
  /\ Goto(c, "reply")
  /\ UNCHANGED <<serverVars, realVars, noteVars, cacheVars>>

\* toolsList, nothing cached: the request is forwarded.
Miss(c) ==
  /\ pc[c] = "idle"
  /\ cache = NoList
  /\ nextID < MaxCalls
  /\ since' = [since EXCEPT ![c] = told[c]]
  /\ Goto(c, "miss")
  /\ UNCHANGED <<id, held, serverVars, realVars, noteVars, cacheVars>>

\* forward, before the call: the client's forwarder is subscribed.
Subscribe(c) ==
  /\ pc[c] = "miss"
  /\ subs' = subs \cup {c}
  /\ Goto(c, "queue")
  /\ UNCHANGED <<id, held, since, told, queue, note, serverVars, realVars, cacheVars>>

\* Any other forwarded request subscribes too and leaves the cache alone.
OtherRequest(c) ==
  /\ pc[c] = "idle"
  /\ c \notin subs
  /\ subs' = subs \cup {c}
  /\ UNCHANGED <<told, queue, note, serverVars, realVars, runVars, cacheVars>>

Send(c) ==
  /\ pc[c] = "queue"
  /\ callMu = NoOne
  /\ nextID < MaxCalls
  /\ nextID' = nextID + 1
  /\ id' = [id EXCEPT ![c] = nextID + 1]
  /\ asked' = asked \cup {nextID + 1}
  /\ callMu' = c
  /\ Goto(c, "wait")
  /\ UNCHANGED <<ver, stdout, loop, responses, held, since, noteVars, cacheVars>>

\* Wrong on purpose: the ack is closed as soon as the response is taken.
TakeAcking(c) ==
  /\ pc[c] = "wait"
  /\ responses # <<>> /\ Head(responses).id = id[c]
  /\ responses' = Tail(responses)
  /\ Ack(id[c])
  /\ held' = [held EXCEPT ![c] = Head(responses).ver]
  /\ callMu' = NoOne
  /\ Goto(c, "fill")
  /\ UNCHANGED <<id, since, nextID, serverVars, noteVars, cacheVars>>

\* call: the response is its own; callMu is released before the cache is filled.
Take(c) ==
  /\ pc[c] = "wait"
  /\ responses # <<>> /\ Head(responses).id = id[c]
  /\ responses' = Tail(responses)
  /\ held' = [held EXCEPT ![c] = Head(responses).ver]
  /\ callMu' = NoOne
  /\ Goto(c, "fill")
  /\ UNCHANGED <<id, since, loop, nextID, serverVars, noteVars, cacheVars>>

\* call: the response is that of an earlier call that timed out.
DropStale(c) ==
  /\ pc[c] = "wait"
  /\ responses # <<>> /\ Head(responses).id # id[c]
  /\ responses' = Tail(responses)
  /\ Ack(Head(responses).id)
  /\ UNCHANGED <<nextID, callMu, serverVars, runVars, noteVars, cacheVars>>

\* call: the timeout; or the request waited for callMu beyond the bound on calls.
\* The error reply needs no ack.
CallFails(c) ==
  /\ \/ /\ pc[c] = "wait"
        /\ callMu' = NoOne
     \/ /\ pc[c] \in {"miss", "queue"}
        /\ nextID = MaxCalls
        /\ UNCHANGED callMu
  /\ Done(c)
  /\ UNCHANGED <<held, loop, responses, nextID, serverVars, noteVars, cacheVars>>

\* writeCachedToolsList: the file is written, or, for a list that may not be
\* shared or kept, removed, or it cannot be written and stays.
Fill(c) ==
  /\ pc[c] = "fill"
  /\ cache' \in {held[c], NoList, cache}
  /\ Goto(c, "reply")
  /\ UNCHANGED <<id, held, since, serverVars, realVars, noteVars, faults>>

\* Run: the reply is written, then its response's ack is closed.
Reply(c) ==
  /\ pc[c] = "reply"
  /\ Ack(id[c])
  /\ held' = [held EXCEPT ![c] = 0]
  /\ Done(c)
  /\ UNCHANGED <<responses, nextID, callMu, serverVars, noteVars, cacheVars>>

\* The connection ends between two requests and another takes its place.  The
\* forwarder finishes the notification it is at; the rest of the channel is
\* dropped with the subscription.
Reconnect(c) ==
  /\ pc[c] = "idle"
  /\ note[c] = <<>>
  /\ subs' = subs \ {c}
  /\ queue' = [queue EXCEPT ![c] = <<>>]
  /\ told' = [told EXCEPT ![c] = 0]
  /\ faults' = IF \E k \in DOMAIN queue[c] : queue[c][k].kind = "changed"
               THEN faults \cup {"unheard"} ELSE faults
  /\ UNCHANGED <<note, cache, serverVars, realVars, runVars>>

-----------------------------------------------------------------------------
(* The forwarder of client c.                                              *)

\* handleServerNotification: the cache is invalidated, unless the file cannot
\* be removed.
Invalidate(c) ==
  /\ note[c] = <<>>
  /\ queue[c] # <<>>
  /\ note' = [note EXCEPT ![c] = <<Head(queue[c])>>]
  /\ queue' = [queue EXCEPT ![c] = Tail(@)]
  /\ IF Head(queue[c]).kind # "changed" THEN UNCHANGED cacheVars
     ELSE \/ cache' = NoList /\ UNCHANGED faults
          \/ faults' = faults \cup {"kept"} /\ UNCHANGED cache
  /\ UNCHANGED <<told, subs, serverVars, realVars, runVars>>

\* The notification is written to the client.
Forward(c) ==
  /\ note[c] # <<>>
  /\ told' = [told EXCEPT ![c] = IF Announces(note[c][1], @) THEN note[c][1].ver ELSE @]
  /\ note' = [note EXCEPT ![c] = <<>>]
  /\ UNCHANGED <<subs, queue, serverVars, realVars, runVars, cacheVars>>

-----------------------------------------------------------------------------
(* The real process and the goroutine that reads it.                       *)

ChangeTools ==
  /\ ver < MaxVersion
  /\ Len(stdout) < MaxOutput
  /\ ver' = ver + 1
  /\ stdout' = Append(stdout, Changed(ver + 1))
  /\ UNCHANGED <<asked, realVars, runVars, noteVars, cacheVars>>

NotifyOther ==
  /\ Len(stdout) < MaxOutput
  /\ stdout' = Append(stdout, OtherNote)
  /\ UNCHANGED <<ver, asked, realVars, runVars, noteVars, cacheVars>>

AnswerList ==
  /\ Len(stdout) < MaxOutput
  /\ \E i \in asked :
       /\ asked' = asked \ {i}
       /\ stdout' = Append(stdout, List(i, ver))
  /\ UNCHANGED <<ver, realVars, runVars, noteVars, cacheVars>>

\* Wrong on purpose: the read loop does not wait for the response to be written.
PassOnAndReadOn ==
  /\ loop = 0
  /\ stdout # <<>> /\ Head(stdout).kind = "list"
  /\ responses' = Append(responses, Head(stdout))
  /\ stdout' = Tail(stdout)
  /\ UNCHANGED <<loop, ver, asked, nextID, callMu, runVars, noteVars, cacheVars>>

\* readLoop, a response: pass it on and wait for its ack.
PassOn ==
  /\ loop = 0
  /\ stdout # <<>> /\ Head(stdout).kind = "list"
  /\ responses' = Append(responses, Head(stdout))
  /\ loop' = Head(stdout).id
  /\ stdout' = Tail(stdout)
  /\ UNCHANGED <<ver, asked, nextID, callMu, runVars, noteVars, cacheVars>>

\* broadcastNotification: into every subscription that has room.
HasRoom(c) == Len(queue[c]) < SubCap

\* Wrong on purpose: a full subscription is not skipped.
BroadcastToAll ==
  /\ loop = 0
  /\ stdout # <<>> /\ Head(stdout).kind # "list"
  /\ stdout' = Tail(stdout)
  /\ queue' = [c \in Clients |-> IF c \in subs THEN Append(queue[c], Head(stdout)) ELSE queue[c]]
  /\ UNCHANGED <<faults, ver, asked, told, subs, note, cache, realVars, runVars>>

Broadcast ==
  /\ loop = 0
  /\ stdout # <<>> /\ Head(stdout).kind # "list"
  /\ stdout' = Tail(stdout)
  /\ queue' = [c \in Clients |-> IF c \in subs /\ HasRoom(c)
                                 THEN Append(queue[c], Head(stdout)) ELSE queue[c]]
  /\ faults' = IF Head(stdout).kind = "changed" /\ ~ \E c \in subs : HasRoom(c)
               THEN faults \cup {"unheard"} ELSE faults
  /\ UNCHANGED <<ver, asked, told, subs, note, cache, realVars, runVars>>

\* readLoop gives up on the ack after five seconds.  It matters only when the
\* response may still get into the cache.
AckGivenUp ==
  /\ loop # 0
  /\ loop' = 0
  /\ faults' = IF \E c \in Clients : pc[c] \in {"wait", "fill"} /\ id[c] = loop
               THEN faults \cup {"overtaken"} ELSE faults
  /\ UNCHANGED <<cache, responses, nextID, callMu, serverVars, runVars, noteVars>>

\* The entry's ttl runs out when it is read (readCachedToolsList), or the cache is
\* cleared (ClearCache).
Expire ==
  /\ cache # NoList
  /\ cache' = NoList
  /\ UNCHANGED <<faults, serverVars, realVars, runVars, noteVars>>

\* RefreshToolsCache: the list is asked for, its ack given, and then it is cached:
\* any number of changes may come in between.
Refresh ==
  /\ \E v \in 0..ver :
       /\ cache' = v
       /\ faults' = IF v < ver THEN faults \cup {"refreshed"} ELSE faults
  /\ UNCHANGED <<serverVars, realVars, runVars, noteVars>>

RunStep(c) ==
  \/ Hit(c) \/ Miss(c) \/ Subscribe(c) \/ OtherRequest(c) \/ Send(c) \/ Take(c)
  \/ DropStale(c) \/ CallFails(c) \/ Fill(c) \/ Reply(c) \/ Reconnect(c)

Next ==
  \/ \E c \in Clients : RunStep(c) \/ Invalidate(c) \/ Forward(c)
  \/ ChangeTools \/ NotifyOther \/ AnswerList
  \/ PassOn \/ Broadcast \/ AckGivenUp
  \/ Expire \/ Refresh

Spec == Init /\ [][Next]_vars

-----------------------------------------------------------------------------
(* Properties                                                              *)

\* A change newer than version v is on its way to a forwarder.
ChangePending(v) == Carries(stdout, v) \/ \E c \in subs : Carries(queue[c], v)

\* A cached list that the server has since changed is about to be dropped: the
\* announcement is still unread or queued for a forwarder.  It escapes only if
\* no forwarder received the announcement, if the read loop had given up on the
\* ack of the response being cached, if the file could not be removed, or if a
\* refresh wrote it after the change (handleServerNotification,
\* broadcastNotification, readLoop, RefreshToolsCache).
StaleIsDoomed ==
  cache # NoList /\ cache < ver => ChangePending(cache) \/ faults # {}

\* A client that has been told of a change and then asks for the tools is not
\* given an older list, by the cache or by a call (invalidate before forward,
\* ack after write); a lost notification does not excuse it.  Excused are an ack
\* the read loop has given up on (overtaken), a file that could not be removed (kept),
\* and a refresh that wrote the file after the change (refreshed).
NeverOlderThanTold ==
  \A c \in Clients :
    pc[c] = "reply" => held[c] >= since[c] \/ faults \cap {"overtaken", "kept", "refreshed"} # {}

\* README.md: list_changed invalidates the cache before it is forwarded.  A
\* cached list that the server has announced to be out of date is dropped by an
\* announcement still on its way, provided that the files can be removed, that
\* acks come in time and that no refresh ran into the change.
ListChangedInvalidates ==
  cache # NoList /\ cache < ver =>
    ChangePending(cache) \/ faults \cap {"overtaken", "kept", "refreshed"} # {}
=============================================================================
