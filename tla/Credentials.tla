----------------------------- MODULE Credentials -----------------------------
(***************************************************************************)
(* One stored OAuth credential (internal/oauth): the file that FileStore   *)
(* reads and overwrites in place, the handlers that take tokens from it,   *)
(* refresh them and write them back (StoredTokenHandler), `auth login`     *)
(* with its callback receiver, and `auth logout`.                          *)
(*                                                                         *)
(* Sessions are backends of any number of processes: nothing but the file  *)
(* is shared.  Tokens are numbered in the order they are issued; one that  *)
(* is looked at may always have expired, there is no clock.  The           *)
(* authorization servers, the browser and the SDK are not under src/; a    *)
(* server may rotate the refresh token, refuse, or revoke every token when *)
(* an old one is presented again.                                          *)
(***************************************************************************)
EXTENDS Naturals

CONSTANTS
  Sessions,       \* backends that use the credential
  Logins,         \* `auth login` commands
  Servers,        \* server URLs (with client id, resource and scopes)
  MaxTokens       \* bound: grants and refreshes

ASSUME BoundsAssumption ==
  /\ MaxTokens \in Nat
  /\ Sessions \cap Logins = {} /\ Servers # {}

Procs == Sessions \cup Logins

\* A token is known by its number and the server that issued it; 0 is none.
Tokens      == [srv : Servers, n : 0..MaxTokens]
Token(s, n) == [srv |-> s, n |-> n]
\* server: what the credential is bound to; url: it has a token URL.
Credential == [server : Servers, access : Tokens, refresh : Tokens, url : BOOLEAN]

VARIABLES
  file,       \* absent, broken (empty or not JSON) or ok
  stored,     \* the credential in the file, when ok
  pc,         \* pc[p]: where session or login p is
  target,     \* target[p]: the server that session p is configured for
  cred,       \* cred[p]: the credential p works on
  base,       \* base[p]: the credential a session's refresh started from
  opened,     \* opened[p]: p has the file open for writing
  overlaid,   \* overlaid[p]: another process wrote since p opened the file
  codes,      \* codes[l]: what login l's callback receiver has received
  issued,     \* tokens issued so far
  live,       \* refresh tokens the servers accept
  mishap      \* a token was lost or replaced in a way the code cannot undo

fileVars == <<file, stored>>
procVars == <<pc, target, cred, base, opened, overlaid, codes>>
srvVars  == <<issued, live>>
vars     == <<fileVars, procVars, srvVars, mishap>>

\* A session is idle, uses a token, refreshes; a login waits for the browser
\* (await) and exchanges the code; both save, which opens the file, and write.
Phases == {"idle", "use", "refresh", "await", "exchange", "save", "write"}

TypeOK ==
  /\ file \in {"absent", "broken", "ok"}
  /\ stored \in Credential
  /\ pc \in [Procs -> Phases]
  /\ target \in [Sessions -> Servers]
  /\ cred \in [Procs -> Credential] /\ base \in [Procs -> Credential]
  /\ opened \in [Procs -> BOOLEAN] /\ overlaid \in [Procs -> BOOLEAN]
  /\ codes \in [Logins -> SUBSET {"own", "stray", "error"}]
  /\ issued \in 0..MaxTokens
  /\ live \subseteq 1..issued
  /\ mishap \in BOOLEAN
  /\ \A p \in Procs : opened[p] => pc[p] = "write"

Blank(s) == [server |-> s, access |-> Token(s, 0), refresh |-> Token(s, 0), url |-> FALSE]
Anywhere == CHOOSE s \in Servers : TRUE

Init ==
  /\ file = "absent"
  /\ stored = Blank(Anywhere)
  /\ pc = [p \in Procs |-> "idle"]
  /\ target \in [Sessions -> Servers]
  /\ cred = [p \in Procs |-> Blank(Anywhere)]
  /\ base = cred
  /\ opened = [p \in Procs |-> FALSE]
  /\ overlaid = [p \in Procs |-> FALSE]
  /\ codes = [l \in Logins |-> {}]
  /\ issued = 0
  /\ live = {}
  /\ mishap = FALSE

Goto(p, phase) == pc' = [pc EXCEPT ![p] = phase]
\* Wrong on purpose: the file stays open.
CloseLeavingOpen(p) ==
  /\ Goto(p, "idle")
  /\ cred' = [cred EXCEPT ![p] = Blank(Anywhere)]
  /\ base' = [base EXCEPT ![p] = Blank(Anywhere)]
  /\ UNCHANGED opened

\* p is done with its credential; what it had loaded is forgotten.
Close(p) ==
  /\ Goto(p, "idle")
  /\ cred' = [cred EXCEPT ![p] = Blank(Anywhere)]
  /\ base' = [base EXCEPT ![p] = Blank(Anywhere)]
  /\ opened' = [opened EXCEPT ![p] = FALSE]
Finish(p) ==
  /\ Close(p)
  /\ overlaid' = [overlaid EXCEPT ![p] = FALSE]

-----------------------------------------------------------------------------
(* StoredTokenHandler                                                      *)

\* Wrong on purpose: only the presence of a credential is checked.
BoundToAny(p, c) == c.server \in Servers

Bound(p, c)    == c.server = target[p]
HasToken(c)    == c.access.n # 0
Refreshable(c) == c.access.n # 0 /\ c.refresh.n # 0 /\ c.url

\* p holds a refresh token that it is about to replace, or has replaced.
Refreshing(p) == pc[p] \in {"refresh", "save", "write"}
Overlaps(p, c) == \E q \in Sessions \ {p} : Refreshing(q) /\ base[q].refresh = c.refresh

\* TokenSource reads the file for every request.  Any other outcome (no file, a
\* file that does not parse, another binding, no token) fails the request and
\* changes nothing.
TokenSource(p) ==
  /\ pc[p] = "idle"
  /\ file = "ok"
  /\ Bound(p, stored)
  /\ \/ HasToken(stored) /\ Goto(p, "use") /\ UNCHANGED mishap
     \/ /\ Refreshable(stored)
        /\ Goto(p, "refresh")
        /\ mishap' = (mishap \/ Overlaps(p, stored))
  /\ cred' = [cred EXCEPT ![p] = stored]
  /\ base' = [base EXCEPT ![p] = stored]
  /\ UNCHANGED <<fileVars, target, opened, overlaid, codes, srvVars>>

\* The request is sent with the token.
Use(p) ==
  /\ pc[p] = "use"
  /\ Finish(p)
  /\ UNCHANGED <<fileVars, target, codes, srvVars, mishap>>

\* Wrong on purpose: the refresh token of the file is always kept.
RenewedKeepingOld(p, n, rotated) == [cred[p] EXCEPT !.access = Token(@.srv, n)]

\* Wrong on purpose: the tokens are put into the credential now in the file.
RenewedInFile(p, n, rotated) ==
  LET s == cred[p].server IN
  [stored EXCEPT !.access = Token(s, n),
                 !.refresh = IF rotated THEN Token(s, n) ELSE @]

\* The credential persistingTokenSource saves: the one it was made with, its
\* tokens replaced, the refresh token kept when none comes back.
Renewed(p, n, rotated) ==
  [cred[p] EXCEPT !.access = Token(@.srv, n),
                  !.refresh = IF rotated THEN Token(@.srv, n) ELSE @]

\* The server accepts the refresh token, once if it rotates it; its answer may
\* be lost on the way.
Refresh(p) ==
  LET r == cred[p].refresh.n IN
  /\ pc[p] = "refresh"
  /\ r \in live
  /\ issued < MaxTokens
  /\ issued' = issued + 1
  /\ \E rotated \in BOOLEAN :
       /\ live' = IF rotated THEN (live \ {r}) \cup {issued + 1} ELSE live
       /\ \/ /\ cred' = [cred EXCEPT ![p] = Renewed(p, issued + 1, rotated)]
             /\ Goto(p, "save")
             /\ UNCHANGED <<base, opened, overlaid, mishap>>
          \/ Finish(p) /\ mishap' = (mishap \/ rotated)
  /\ UNCHANGED <<fileVars, target, codes>>

\* The server refuses the refresh; when the token was replaced before, it may
\* revoke what it was replaced by.
Refused(p) ==
  /\ pc[p] = "refresh"
  /\ Finish(p)
  /\ \/ UNCHANGED <<live, mishap>>
     \/ cred[p].refresh.n \notin live /\ live' = {} /\ mishap' = TRUE
  /\ UNCHANGED <<fileVars, target, codes, issued>>

-----------------------------------------------------------------------------
(* FileStore.Save and Delete                                               *)

\* os.WriteFile creates or truncates the file.  A session that overwrites
\* another credential than the one it started from replaces a newer one.
OpenFile(p) ==
  /\ pc[p] = "save"
  /\ opened' = [opened EXCEPT ![p] = TRUE]
  /\ file' = "broken"
  /\ mishap' = (mishap \/ (p \in Sessions /\ ~(file = "ok" /\ stored = base[p])))
  /\ Goto(p, "write")
  /\ stored' = Blank(Anywhere)
  /\ UNCHANGED <<target, cred, base, overlaid, codes, srvVars>>

\* The directory or the file cannot be made: the new token is lost.
SaveFails(p) ==
  /\ pc[p] = "save"
  /\ Finish(p)
  /\ mishap' = TRUE
  /\ UNCHANGED <<fileVars, target, codes, srvVars>>

\* ... and writes it, into a file without a name if it was removed meanwhile.
\* Over what another process wrote since, a tail of that may remain.
WriteFile(p) ==
  /\ pc[p] = "write"
  /\ \/ /\ ~opened[p]
        /\ UNCHANGED <<file, stored, mishap>>
     \/ /\ opened[p]
        /\ file' = "ok"
        /\ stored' = cred[p]
        /\ mishap' = (mishap \/ overlaid[p])
     \/ /\ opened[p] /\ overlaid[p]
        /\ file' = "broken"
        /\ stored' = Blank(Anywhere)
        /\ mishap' = TRUE
  /\ Close(p)
  /\ overlaid' = [q \in Procs |-> /\ q # p
                                  /\ overlaid[q] \/ (opened[p] /\ opened[q])]
  /\ UNCHANGED <<target, codes, srvVars>>

\* The process of p dies.
Crash(p) ==
  /\ pc[p] # "idle"
  /\ Finish(p)
  /\ mishap' = (mishap \/ pc[p] \in {"save", "write"})
  /\ codes' = [l \in Logins |-> IF l = p THEN {} ELSE codes[l]]
  /\ UNCHANGED <<fileVars, target, srvVars>>

\* auth logout: what is open for writing has no name any more.
Logout ==
  /\ file # "absent"
  /\ file' = "absent"
  /\ stored' = Blank(Anywhere)
  /\ opened' = [p \in Procs |-> FALSE]
  /\ UNCHANGED <<pc, target, cred, base, overlaid, codes, srvVars, mishap>>

-----------------------------------------------------------------------------
(* Login                                                                   *)

\* The callback receiver listens and the authorization URL is opened.
StartLogin(l) ==
  /\ pc[l] = "idle"
  /\ \E s \in Servers : cred' = [cred EXCEPT ![l] = Blank(s)]
  /\ Goto(l, "await")
  /\ UNCHANGED <<fileVars, target, base, opened, overlaid, codes, srvVars, mishap>>

\* handleCallback: a code, of this login or of another, goes to results, an error
\* to errors; each channel holds one, and a second callback waits in vain.
Callback(l) ==
  /\ pc[l] = "await"
  /\ \E x \in {"own", "stray", "error"} :
       /\ IF x = "error" THEN "error" \notin codes[l] ELSE codes[l] \subseteq {"error"}
       /\ codes' = [codes EXCEPT ![l] = @ \cup {x}]
  /\ UNCHANGED <<fileVars, pc, target, cred, base, opened, overlaid, srvVars, mishap>>

\* fetch receives one of them; the SDK refuses a code with another state.
Fetch(l) ==
  /\ pc[l] = "await"
  /\ \/ /\ "own" \in codes[l]
        /\ Goto(l, "exchange")
        /\ UNCHANGED <<cred, base, opened, overlaid>>
     \/ codes[l] \ {"own"} # {} /\ Finish(l)
  /\ codes' = [codes EXCEPT ![l] = {}]
  /\ UNCHANGED <<fileVars, target, srvVars, mishap>>

\* The credential a login makes of the server's grant: there may be no refresh
\* token, and the token URL may be unknown.
Granted(l, n, long, url) ==
  [cred[l] EXCEPT !.access = Token(@.srv, n),
                  !.refresh = Token(@.srv, IF long THEN n ELSE 0),
                  !.url = url]

\* The code is exchanged, a session is tried, and the credential is made.
Exchange(l) ==
  /\ pc[l] = "exchange"
  /\ issued < MaxTokens
  /\ issued' = issued + 1
  /\ \E long, url \in BOOLEAN :
       /\ live' = IF long THEN live \cup {issued + 1} ELSE live
       /\ cred' = [cred EXCEPT ![l] = Granted(l, issued + 1, long, url)]
  /\ Goto(l, "save")
  /\ UNCHANGED <<fileVars, target, base, opened, overlaid, codes, mishap>>

\* The login times out, the server refuses the code, or the trial fails.
LoginFails(l) ==
  /\ pc[l] \in {"await", "exchange"}
  /\ Finish(l)
  /\ codes' = [codes EXCEPT ![l] = {}]
  /\ UNCHANGED <<fileVars, target, srvVars, mishap>>

SessionStep(p) == TokenSource(p) \/ Use(p) \/ Refresh(p) \/ Refused(p)
LoginStep(l)   == StartLogin(l) \/ Callback(l) \/ Fetch(l) \/ Exchange(l) \/ LoginFails(l)
SaveStep(p)    == OpenFile(p) \/ SaveFails(p) \/ WriteFile(p) \/ Crash(p)

Next ==
  \/ \E p \in Sessions : SessionStep(p)
  \/ \E l \in Logins : LoginStep(l)
  \/ \E p \in Procs : SaveStep(p)
  \/ Logout

Spec == Init /\ [][Next]_vars

-----------------------------------------------------------------------------
(* Properties                                                              *)

\* docs/go-sdk-oauth-plan.md: a credential must match the configured server
\* before its token is used or refreshed.  No server is shown another's token,
\* whatever logins for other servers and refreshes write meanwhile
\* (ValidateCredentialBinding, TokenSource).
UsedTokenIsForServer ==
  \A p \in Sessions :
    /\ pc[p] = "use" => cred[p].access.srv = target[p]
    /\ pc[p] = "refresh" => cred[p].refresh.srv = target[p]

\* The file never mixes the credentials of two servers: its tokens were issued by the
\* one it names, however refreshes and logins overwrite each other (persistingTokenSource,
\* Login, FileStore.Save).
StoredCredentialIsWhole ==
  file = "ok" => stored.access.srv = stored.server /\ stored.refresh.srv = stored.server

\* As long as refreshes of one token do not overlap, no session overwrote another's
\* credential, none died or failed while saving and no answer was lost, the refresh
\* token on file is one the server accepts, or its successor is about to be saved,
\* and the file is broken only while it is written (persistingTokenSource.Token).
ChainUnbroken ==
  ~mishap =>
    /\ file = "ok" /\ stored.refresh.n # 0 =>
         \/ stored.refresh.n \in live
         \/ \E p \in Sessions : pc[p] = "save" /\ base[p] = stored
    /\ file = "broken" => \E p \in Procs : opened[p]

=============================================================================
