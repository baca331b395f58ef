---------------------------- MODULE CallContract ----------------------------
(***************************************************************************)
(* What a proxy promises to the clients that share it, without saying how: *)
(* a request is passed on to a server once or not at all, never again when *)
(* it fails; what a server answers is given to the client whose call it    *)
(* is, once; a client has one reply to each request, an answer or an       *)
(* error, before its next.  Servers may answer in any order, late, or      *)
(* never, and answers may be lost.                                         *)
(*                                                                         *)
(* Proxy implements this module under the mapping given there.             *)
(***************************************************************************)
EXTENDS Naturals

CONSTANTS
  Clients,      \* clients, each with one request at a time
  Servers,      \* the servers requests are passed on to
  NoCall        \* the call of a client that waits for no answer and has none

VARIABLES
  phase,        \* phase[c]: idle, asked, passed, answered, failed or gone
  call,         \* call[c]: the call that c waits for, or whose answer it has
  count,        \* count[s]: calls made to server s so far
  pending,      \* calls a server has been asked and has not answered
  answers       \* calls that have been answered, their answers on the way

contractVars == <<phase, call, count, pending, answers>>

ContractInit ==
  /\ phase = [c \in Clients |-> "idle"]
  /\ call = [c \in Clients |-> NoCall]
  /\ count = [s \in Servers |-> 0]
  /\ pending = {} /\ answers = {}

Enter(c, p) == phase' = [phase EXCEPT ![c] = p]
Hold(c, k)  == call' = [call EXCEPT ![c] = k]

\* Calls to a server are numbered, so that none is made twice.
NextCall(s) == <<s, count[s] + 1>>
Numbered(s) == count' = [count EXCEPT ![s] = @ + 1]

Ask(c) ==
  /\ phase[c] = "idle"
  /\ Enter(c, "asked")
  /\ UNCHANGED <<call, count, pending, answers>>

\* What was asked needs no answer.
Dismiss(c) ==
  /\ phase[c] = "asked"
  /\ Enter(c, "idle")
  /\ UNCHANGED <<call, count, pending, answers>>

Pass(c, s) ==
  /\ phase[c] = "asked"
  /\ Enter(c, "passed")
  /\ Hold(c, NextCall(s))
  /\ Numbered(s)
  /\ pending' = pending \cup {NextCall(s)}
  /\ UNCHANGED answers

\* The request cannot be passed on, before or after it has been given a number.
Refuse(c) ==
  /\ phase[c] = "asked"
  /\ Enter(c, "failed")
  /\ \/ UNCHANGED count
     \/ \E s \in Servers : Numbered(s)
  /\ UNCHANGED <<call, pending, answers>>

\* The answer to its own call, which nobody is given again.
Give(c) ==
  /\ phase[c] = "passed"
  /\ call[c] \in answers
  /\ Enter(c, "answered")
  /\ answers' = answers \ {call[c]}
  /\ UNCHANGED <<call, count, pending>>

GiveUp(c) ==
  /\ phase[c] = "passed"
  /\ Enter(c, "failed")
  /\ Hold(c, NoCall)
  /\ UNCHANGED <<count, pending, answers>>

\* The client is told, unless it is gone.
Finish(c) ==
  /\ phase[c] \in {"answered", "failed"}
  /\ Enter(c, "idle") \/ Enter(c, "gone")
  /\ Hold(c, NoCall)
  /\ UNCHANGED <<count, pending, answers>>

Depart(c) ==
  /\ phase[c] = "idle"
  /\ Enter(c, "gone")
  /\ UNCHANGED <<call, count, pending, answers>>

\* A new server is asked to introduce itself, before any client's call.
Introduce(s) ==
  /\ count[s] = 0
  /\ Numbered(s)
  /\ UNCHANGED <<phase, call, pending, answers>>

\* A server answers what it was asked, and only that, once.
Respond(k) ==
  /\ k \in pending
  /\ pending' = pending \ {k}
  /\ answers' = answers \cup {k}
  /\ UNCHANGED <<phase, call, count>>

\* Calls and answers are lost with a server, and answers that come too late.
Lose ==
  /\ pending' \in SUBSET pending
  /\ answers' \in SUBSET answers
  /\ UNCHANGED <<phase, call, count>>

ContractNext ==
  \/ \E c \in Clients :
       \/ Ask(c) \/ Dismiss(c) \/ Refuse(c) \/ \E s \in Servers : Pass(c, s)
       \/ Give(c) \/ GiveUp(c) \/ Finish(c) \/ Depart(c)
  \/ \E s \in Servers : Introduce(s)
  \/ \E k \in pending : Respond(k)
  \/ Lose

Contract == ContractInit /\ [][ContractNext]_contractVars
=============================================================================
