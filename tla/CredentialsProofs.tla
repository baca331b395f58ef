-------------------------- MODULE CredentialsProofs --------------------------
(***************************************************************************)
(* Proofs about Credentials, for any sets of sessions, logins and servers  *)
(* and any number of tokens.                                               *)
(***************************************************************************)
EXTENDS Credentials, TLAPS

-----------------------------------------------------------------------------
(* The inductive invariant.                                                *)

\* The tokens of a credential were issued by the server it names.
Whole(c) == c.access.srv = c.server /\ c.refresh.srv = c.server

\* So are those in the file, which is blank when it does not hold one, and those
\* a process has loaded: what a refresh saves is as whole as what it was made from.
StoredWhole == Whole(stored)
LoadedWhole == \A p \in Procs : Whole(cred[p])

\* The binding that TokenSource checked holds as long as the token is used.
SessionsBound ==
  \A p \in Sessions : pc[p] \in {"use", "refresh"} => cred[p].server = target[p]

IInv == TypeOK /\ StoredWhole /\ LoadedWhole /\ SessionsBound

-----------------------------------------------------------------------------
(* Credentials.                                                            *)

\* Blank credentials are credentials.
LEMMA BlankIsCredential ==
  ASSUME NEW s \in Servers
  PROVE  Blank(s) \in Credential /\ Whole(Blank(s))
<1>1. 0 \in 0..MaxTokens
  BY BoundsAssumption
<1> QED
  BY <1>1 DEF Blank, Token, Tokens, Credential, Whole

LEMMA AnywhereIsServer == Anywhere \in Servers
BY BoundsAssumption DEF Anywhere

\* What a refresh makes of a credential.
LEMMA RenewedIsCredential ==
  ASSUME IInv, NEW p \in Procs, NEW n \in 0..MaxTokens, NEW rotated \in BOOLEAN
  PROVE  /\ Renewed(p, n, rotated) \in Credential
         /\ Whole(Renewed(p, n, rotated))
<1>1. cred[p] \in Credential /\ Whole(cred[p])
  BY DEF IInv, TypeOK, LoadedWhole
<1> QED
  BY <1>1 DEF Renewed, Credential, Tokens, Token, Whole

\* What a login makes of a grant.
LEMMA GrantedIsCredential ==
  ASSUME IInv, NEW l \in Procs, NEW n \in 0..MaxTokens, NEW long \in BOOLEAN, NEW url \in BOOLEAN
  PROVE  /\ Granted(l, n, long, url) \in Credential
         /\ Whole(Granted(l, n, long, url))
<1>1. cred[l] \in Credential /\ Whole(cred[l]) /\ 0 \in 0..MaxTokens
  BY BoundsAssumption DEF IInv, TypeOK, LoadedWhole
<1> QED
  BY <1>1 DEF Granted, Credential, Tokens, Token, Whole

\* A process that is done has forgotten its credential and closed its file.
LEMMA CloseTypes ==
  ASSUME IInv, NEW p \in Procs, Close(p)
  PROVE  /\ pc' \in [Procs -> Phases]
         /\ cred' \in [Procs -> Credential] /\ base' \in [Procs -> Credential]
         /\ opened' \in [Procs -> BOOLEAN]
         /\ \A q \in Procs : opened'[q] => pc'[q] = "write"
         /\ LoadedWhole'
         /\ target' = target => SessionsBound'
<1>1. Blank(Anywhere) \in Credential /\ Whole(Blank(Anywhere))
  BY BlankIsCredential, AnywhereIsServer
<1>2. \A q \in Procs : q # p => pc'[q] = pc[q] /\ cred'[q] = cred[q] /\ opened'[q] = opened[q]
  BY DEF Close, Goto, IInv, TypeOK
<1>3. pc'[p] = "idle" /\ cred'[p] = Blank(Anywhere) /\ opened'[p] = FALSE
  BY DEF Close, Goto, IInv, TypeOK
<1>4. /\ pc' \in [Procs -> Phases]
      /\ cred' \in [Procs -> Credential] /\ base' \in [Procs -> Credential]
      /\ opened' \in [Procs -> BOOLEAN]
  BY <1>1 DEF Close, Goto, IInv, TypeOK, Phases
<1>5. \A q \in Procs : opened'[q] => pc'[q] = "write"
  BY <1>2, <1>3 DEF IInv, TypeOK
<1>6. LoadedWhole'
  BY <1>1, <1>2, <1>3 DEF IInv, LoadedWhole, Whole
<1>7. target' = target => SessionsBound'
  BY <1>2, <1>3 DEF IInv, SessionsBound, Procs
<1> QED
  BY <1>4, <1>5, <1>6, <1>7

LEMMA FinishTypes ==
  ASSUME IInv, NEW p \in Procs, Finish(p)
  PROVE  /\ pc' \in [Procs -> Phases]
         /\ cred' \in [Procs -> Credential] /\ base' \in [Procs -> Credential]
         /\ opened' \in [Procs -> BOOLEAN] /\ overlaid' \in [Procs -> BOOLEAN]
         /\ \A q \in Procs : opened'[q] => pc'[q] = "write"
         /\ LoadedWhole'
         /\ target' = target => SessionsBound'
BY CloseTypes DEF Finish, IInv, TypeOK

-----------------------------------------------------------------------------
(* Init => IInv                                                            *)

LEMMA InitIInv == Init => IInv
<1> SUFFICES ASSUME Init PROVE IInv
  OBVIOUS
<1>1. Blank(Anywhere) \in Credential /\ Whole(Blank(Anywhere))
  BY BlankIsCredential, AnywhereIsServer
<1>2. TypeOK
  <2>1. stored \in Credential /\ cred \in [Procs -> Credential] /\ base \in [Procs -> Credential]
    BY <1>1 DEF Init
  <2>2. issued \in 0..MaxTokens /\ live \subseteq 1..issued
    BY BoundsAssumption DEF Init
  <2>3. /\ opened \in [Procs -> BOOLEAN] /\ overlaid \in [Procs -> BOOLEAN]
        /\ \A p \in Procs : opened[p] => pc[p] = "write"
    BY DEF Init
  <2>4. codes \in [Logins -> SUBSET {"own", "stray", "error"}]
    BY DEF Init
  <2>5. pc \in [Procs -> Phases]
    BY DEF Init, Phases
  <2> QED
    BY <2>1, <2>2, <2>3, <2>4, <2>5 DEF Init, TypeOK
<1>3. StoredWhole /\ LoadedWhole /\ SessionsBound
  BY <1>1 DEF Init, StoredWhole, LoadedWhole, SessionsBound, Procs
<1> QED
  BY <1>2, <1>3 DEF IInv

-----------------------------------------------------------------------------
(* A step of a session.                                                    *)

LEMMA TokenSourceIInv == ASSUME IInv, NEW p \in Sessions, TokenSource(p) PROVE IInv'
<1>1. p \in Procs /\ stored \in Credential /\ Whole(stored) /\ stored.server = target[p]
  BY DEF Procs, IInv, TypeOK, StoredWhole, TokenSource, Bound
<1>2. /\ pc' \in [Procs -> Phases]
      /\ \A q \in Procs : q # p => pc'[q] = pc[q]
      /\ pc'[p] \in {"use", "refresh"}
  BY <1>1 DEF TokenSource, Goto, IInv, TypeOK, Phases
<1>3. /\ cred' \in [Procs -> Credential] /\ base' \in [Procs -> Credential]
      /\ \A q \in Procs : cred'[q] = IF q = p THEN stored ELSE cred[q]
  BY <1>1 DEF TokenSource, IInv, TypeOK
<1>4. mishap' \in BOOLEAN
  BY DEF TokenSource, IInv, TypeOK
<1>5. \A q \in Procs : opened'[q] => pc'[q] = "write"
  <2>1. opened' = opened /\ pc[p] = "idle"
    BY DEF TokenSource
  <2> QED
    BY <1>1, <1>2, <2>1 DEF IInv, TypeOK
<1>6. TypeOK'
  BY <1>2, <1>3, <1>4, <1>5 DEF TokenSource, fileVars, srvVars, IInv, TypeOK
<1>7. StoredWhole' /\ LoadedWhole'
  BY <1>1, <1>3 DEF TokenSource, fileVars, IInv, StoredWhole, LoadedWhole, Whole
<1>8. SessionsBound'
  <2>1. target' = target
    BY DEF TokenSource
  <2> QED
    BY <1>1, <1>2, <1>3, <2>1 DEF IInv, SessionsBound, Procs
<1> QED
  BY <1>6, <1>7, <1>8 DEF IInv

LEMMA UseIInv == ASSUME IInv, NEW p \in Sessions, Use(p) PROVE IInv'
<1>1. p \in Procs /\ Finish(p)
  BY DEF Use, Procs
<1>2. TypeOK'
  BY <1>1, FinishTypes DEF Use, fileVars, srvVars, IInv, TypeOK
<1>3. StoredWhole' /\ target' = target
  BY DEF Use, fileVars, IInv, StoredWhole
<1> QED
  BY <1>1, <1>2, <1>3, FinishTypes DEF IInv

\* A token that was saved for later: the process keeps what it holds.
LEMMA RefreshIInv == ASSUME IInv, NEW p \in Sessions, Refresh(p) PROVE IInv'
<1>1. p \in Procs
  BY DEF Procs
<1>2. /\ issued' \in 0..MaxTokens /\ issued + 1 \in 0..MaxTokens
      /\ issued' = issued + 1 /\ issued \in Nat
  BY BoundsAssumption DEF Refresh, IInv, TypeOK
<1>3. PICK rotated \in BOOLEAN :
        /\ live' = IF rotated THEN (live \ {cred[p].refresh.n}) \cup {issued + 1} ELSE live
        /\ \/ /\ cred' = [cred EXCEPT ![p] = Renewed(p, issued + 1, rotated)]
              /\ Goto(p, "save")
              /\ UNCHANGED <<base, opened, overlaid, mishap>>
           \/ Finish(p) /\ mishap' = (mishap \/ rotated)
  BY DEF Refresh
<1>4. live' \subseteq 1..issued'
  <2>1. live \subseteq 1..issued /\ 1..issued \subseteq 1..(issued + 1) /\ issued + 1 \in 1..(issued + 1)
    BY <1>2 DEF IInv, TypeOK
  <2> QED
    BY <1>2, <1>3, <2>1
<1>5. /\ file' = file /\ stored' = stored /\ target' = target /\ codes' = codes
  BY DEF Refresh, fileVars
<1>6. CASE Finish(p) /\ mishap' = (mishap \/ rotated)
  <2>1. TypeOK'
    BY <1>1, <1>2, <1>4, <1>5, <1>6, FinishTypes DEF IInv, TypeOK
  <2> QED
    BY <1>1, <1>5, <1>6, <2>1, FinishTypes DEF IInv, StoredWhole
<1>7. CASE /\ cred' = [cred EXCEPT ![p] = Renewed(p, issued + 1, rotated)]
           /\ Goto(p, "save")
           /\ UNCHANGED <<base, opened, overlaid, mishap>>
  <2>1. Renewed(p, issued + 1, rotated) \in Credential /\ Whole(Renewed(p, issued + 1, rotated))
    BY <1>1, <1>2, RenewedIsCredential
  <2>2. /\ cred' \in [Procs -> Credential]
        /\ \A q \in Procs : cred'[q] = IF q = p THEN Renewed(p, issued + 1, rotated) ELSE cred[q]
    BY <1>1, <1>7, <2>1 DEF IInv, TypeOK
  <2>3. /\ pc' \in [Procs -> Phases]
        /\ \A q \in Procs : pc'[q] = IF q = p THEN "save" ELSE pc[q]
    BY <1>1, <1>7 DEF Goto, IInv, TypeOK, Phases
  <2>4. \A q \in Procs : opened'[q] => pc'[q] = "write"
    <3>1. opened' = opened /\ pc[p] = "refresh"
      BY <1>7 DEF Refresh
    <3> QED
      BY <2>3, <3>1 DEF IInv, TypeOK
  <2>5. TypeOK'
    BY <1>2, <1>4, <1>5, <1>7, <2>2, <2>3, <2>4 DEF IInv, TypeOK
  <2>6. LoadedWhole' /\ StoredWhole'
    BY <1>5, <2>1, <2>2 DEF IInv, LoadedWhole, StoredWhole, Whole
  <2>7. SessionsBound'
    BY <1>5, <2>2, <2>3 DEF IInv, SessionsBound, Procs
  <2> QED
    BY <2>5, <2>6, <2>7 DEF IInv
<1> QED
  BY <1>3, <1>6, <1>7

LEMMA RefusedIInv == ASSUME IInv, NEW p \in Sessions, Refused(p) PROVE IInv'
<1>1. p \in Procs /\ Finish(p)
  BY DEF Refused, Procs
<1>2. live' \subseteq 1..issued' /\ mishap' \in BOOLEAN /\ issued' = issued
  BY DEF Refused, IInv, TypeOK
<1>3. TypeOK'
  BY <1>1, <1>2, FinishTypes DEF Refused, fileVars, IInv, TypeOK
<1>4. StoredWhole' /\ target' = target
  BY DEF Refused, fileVars, IInv, StoredWhole
<1> QED
  BY <1>1, <1>3, <1>4, FinishTypes DEF IInv

-----------------------------------------------------------------------------
(* A step of a save, and the removal of the file.                          *)

LEMMA OpenFileIInv == ASSUME IInv, NEW p \in Procs, OpenFile(p) PROVE IInv'
<1>1. Blank(Anywhere) \in Credential /\ Whole(Blank(Anywhere))
  BY BlankIsCredential, AnywhereIsServer
<1>2. /\ pc' \in [Procs -> Phases]
      /\ \A q \in Procs : pc'[q] = IF q = p THEN "write" ELSE pc[q]
  BY DEF OpenFile, Goto, IInv, TypeOK, Phases
<1>3. /\ opened' \in [Procs -> BOOLEAN]
      /\ \A q \in Procs : opened'[q] = IF q = p THEN TRUE ELSE opened[q]
  BY DEF OpenFile, IInv, TypeOK
<1>4. \A q \in Procs : opened'[q] => pc'[q] = "write"
  BY <1>2, <1>3 DEF IInv, TypeOK
<1>5. mishap' \in BOOLEAN
  BY DEF OpenFile, IInv, TypeOK
<1>6. TypeOK'
  BY <1>1, <1>2, <1>3, <1>4, <1>5 DEF OpenFile, srvVars, IInv, TypeOK
<1>7. StoredWhole' /\ LoadedWhole'
  BY <1>1 DEF OpenFile, IInv, StoredWhole, LoadedWhole
<1>8. SessionsBound'
  <2>1. target' = target /\ cred' = cred
    BY DEF OpenFile
  <2> QED
    BY <1>2, <2>1 DEF IInv, SessionsBound, Procs
<1> QED
  BY <1>6, <1>7, <1>8 DEF IInv

LEMMA SaveFailsIInv == ASSUME IInv, NEW p \in Procs, SaveFails(p) PROVE IInv'
<1>1. Finish(p)
  BY DEF SaveFails
<1>2. TypeOK'
  BY <1>1, FinishTypes DEF SaveFails, fileVars, srvVars, IInv, TypeOK
<1>3. StoredWhole' /\ target' = target
  BY DEF SaveFails, fileVars, IInv, StoredWhole
<1> QED
  BY <1>1, <1>2, <1>3, FinishTypes DEF IInv

\* The file receives what the writer holds, which is whole, or nothing readable.
LEMMA WriteFileIInv == ASSUME IInv, NEW p \in Procs, WriteFile(p) PROVE IInv'
<1>1. Close(p)
  BY DEF WriteFile
<1>2. /\ cred[p] \in Credential /\ Whole(cred[p])
      /\ Blank(Anywhere) \in Credential /\ Whole(Blank(Anywhere))
      /\ stored \in Credential /\ Whole(stored)
  BY BlankIsCredential, AnywhereIsServer DEF IInv, TypeOK, StoredWhole, LoadedWhole
<1>3. stored' \in Credential /\ Whole(stored')
  BY <1>2 DEF WriteFile
<1>4. file' \in {"absent", "broken", "ok"} /\ mishap' \in BOOLEAN
  BY DEF WriteFile, IInv, TypeOK
<1>5. overlaid' \in [Procs -> BOOLEAN]
  BY DEF WriteFile
<1>6. TypeOK'
  BY <1>1, <1>3, <1>4, <1>5, CloseTypes DEF WriteFile, srvVars, IInv, TypeOK
<1>7. StoredWhole' /\ target' = target
  BY <1>3 DEF WriteFile, StoredWhole, Whole
<1> QED
  BY <1>1, <1>6, <1>7, CloseTypes DEF IInv

LEMMA CrashIInv == ASSUME IInv, NEW p \in Procs, Crash(p) PROVE IInv'
<1>1. Finish(p)
  BY DEF Crash
<1>2. mishap' \in BOOLEAN
  BY DEF Crash, IInv, TypeOK
<1>3. codes' \in [Logins -> SUBSET {"own", "stray", "error"}]
  BY DEF Crash, IInv, TypeOK
<1>4. TypeOK'
  BY <1>1, <1>2, <1>3, FinishTypes DEF Crash, fileVars, srvVars, IInv, TypeOK
<1>5. StoredWhole' /\ target' = target
  BY DEF Crash, fileVars, IInv, StoredWhole
<1> QED
  BY <1>1, <1>4, <1>5, FinishTypes DEF IInv

LEMMA LogoutIInv == ASSUME IInv, Logout PROVE IInv'
<1>1. Blank(Anywhere) \in Credential /\ Whole(Blank(Anywhere))
  BY BlankIsCredential, AnywhereIsServer
<1>2. opened' \in [Procs -> BOOLEAN] /\ \A q \in Procs : ~opened'[q]
  BY DEF Logout
<1>3. TypeOK'
  BY <1>1, <1>2 DEF Logout, srvVars, IInv, TypeOK
<1>4. StoredWhole' /\ LoadedWhole' /\ SessionsBound'
  BY <1>1 DEF Logout, IInv, StoredWhole, LoadedWhole, SessionsBound
<1> QED
  BY <1>3, <1>4 DEF IInv

-----------------------------------------------------------------------------
(* A step of a login.                                                      *)

LEMMA StartLoginIInv == ASSUME IInv, NEW l \in Logins, StartLogin(l) PROVE IInv'
<1>1. l \in Procs
  BY DEF Procs
<1>2. PICK s \in Servers : cred' = [cred EXCEPT ![l] = Blank(s)]
  BY DEF StartLogin
<1>3. Blank(s) \in Credential /\ Whole(Blank(s))
  BY BlankIsCredential
<1>4. /\ cred' \in [Procs -> Credential]
      /\ \A q \in Procs : cred'[q] = IF q = l THEN Blank(s) ELSE cred[q]
  BY <1>1, <1>2, <1>3 DEF IInv, TypeOK
<1>5. /\ pc' \in [Procs -> Phases]
      /\ \A q \in Procs : pc'[q] = IF q = l THEN "await" ELSE pc[q]
  BY <1>1 DEF StartLogin, Goto, IInv, TypeOK, Phases
<1>6. \A q \in Procs : opened'[q] => pc'[q] = "write"
  <2>1. opened' = opened /\ pc[l] = "idle"
    BY DEF StartLogin
  <2> QED
    BY <1>1, <1>5, <2>1 DEF IInv, TypeOK
<1>7. TypeOK'
  BY <1>4, <1>5, <1>6 DEF StartLogin, fileVars, srvVars, IInv, TypeOK
<1>8. StoredWhole' /\ LoadedWhole'
  BY <1>3, <1>4 DEF StartLogin, fileVars, IInv, StoredWhole, LoadedWhole, Whole
<1>9. SessionsBound'
  <2>1. target' = target
    BY DEF StartLogin
  <2> QED
    BY <1>4, <1>5, <2>1 DEF IInv, SessionsBound, Procs
<1> QED
  BY <1>7, <1>8, <1>9 DEF IInv

LEMMA CallbackIInv == ASSUME IInv, NEW l \in Logins, Callback(l) PROVE IInv'
<1>1. codes' \in [Logins -> SUBSET {"own", "stray", "error"}]
  BY DEF Callback, IInv, TypeOK
<1>2. TypeOK'
  BY <1>1 DEF Callback, fileVars, srvVars, IInv, TypeOK
<1>3. StoredWhole' /\ LoadedWhole' /\ SessionsBound'
  BY DEF Callback, fileVars, IInv, StoredWhole, LoadedWhole, SessionsBound
<1> QED
  BY <1>2, <1>3 DEF IInv

LEMMA FetchIInv == ASSUME IInv, NEW l \in Logins, Fetch(l) PROVE IInv'
<1>1. l \in Procs
  BY DEF Procs
<1>2. /\ codes' \in [Logins -> SUBSET {"own", "stray", "error"}]
      /\ UNCHANGED <<fileVars, target, srvVars, mishap>>
  BY DEF Fetch, IInv, TypeOK
<1>3. CASE Finish(l)
  <2>1. TypeOK'
    BY <1>1, <1>2, <1>3, FinishTypes DEF fileVars, srvVars, IInv, TypeOK
  <2> QED
    BY <1>1, <1>2, <1>3, <2>1, FinishTypes DEF fileVars, IInv, StoredWhole
<1>4. CASE Goto(l, "exchange") /\ UNCHANGED <<cred, base, opened, overlaid>>
  <2>1. /\ pc' \in [Procs -> Phases]
        /\ \A q \in Procs : pc'[q] = IF q = l THEN "exchange" ELSE pc[q]
    BY <1>1, <1>4 DEF Goto, IInv, TypeOK, Phases
  <2>2. \A q \in Procs : opened'[q] => pc'[q] = "write"
    BY <1>1, <1>4, <2>1 DEF Fetch, IInv, TypeOK
  <2>3. TypeOK'
    BY <1>2, <1>4, <2>1, <2>2 DEF fileVars, srvVars, IInv, TypeOK
  <2>4. StoredWhole' /\ LoadedWhole' /\ SessionsBound'
    BY <1>2, <1>4, <2>1 DEF fileVars, IInv, StoredWhole, LoadedWhole, SessionsBound, Procs
  <2> QED
    BY <2>3, <2>4 DEF IInv
<1> QED
  BY <1>3, <1>4 DEF Fetch

\* What a login saves names the server that issued it.
LEMMA ExchangeIInv == ASSUME IInv, NEW l \in Logins, Exchange(l) PROVE IInv'
<1>1. l \in Procs
  BY DEF Procs
<1>2. /\ issued' \in 0..MaxTokens /\ issued + 1 \in 0..MaxTokens /\ 0 \in 0..MaxTokens
      /\ issued' = issued + 1 /\ issued \in Nat
  BY BoundsAssumption DEF Exchange, IInv, TypeOK
<1>3. PICK long, url \in BOOLEAN :
        /\ live' = IF long THEN live \cup {issued + 1} ELSE live
        /\ cred' = [cred EXCEPT ![l] = Granted(l, issued + 1, long, url)]
  BY DEF Exchange
<1>4. live' \subseteq 1..issued'
  <2>1. live \subseteq 1..issued /\ 1..issued \subseteq 1..(issued + 1) /\ issued + 1 \in 1..(issued + 1)
    BY <1>2 DEF IInv, TypeOK
  <2> QED
    BY <1>2, <1>3, <2>1
<1>5. /\ cred' \in [Procs -> Credential]
      /\ \A q \in Procs : q # l => cred'[q] = cred[q]
      /\ Whole(cred'[l])
  <2>1. Granted(l, issued + 1, long, url) \in Credential /\ Whole(Granted(l, issued + 1, long, url))
    BY <1>1, <1>2, GrantedIsCredential
  <2> QED
    BY <1>1, <1>3, <2>1 DEF IInv, TypeOK, LoadedWhole, Whole
<1>6. /\ pc' \in [Procs -> Phases]
      /\ \A q \in Procs : pc'[q] = IF q = l THEN "save" ELSE pc[q]
  BY <1>1 DEF Exchange, Goto, IInv, TypeOK, Phases
<1>7. \A q \in Procs : opened'[q] => pc'[q] = "write"
  <2>1. opened' = opened /\ pc[l] = "exchange"
    BY DEF Exchange
  <2> QED
    BY <1>1, <1>6, <2>1 DEF IInv, TypeOK
<1>8. TypeOK'
  BY <1>2, <1>4, <1>5, <1>6, <1>7 DEF Exchange, fileVars, IInv, TypeOK
<1>9. StoredWhole' /\ LoadedWhole'
  BY <1>5 DEF Exchange, fileVars, IInv, StoredWhole, LoadedWhole, Whole
<1>10. SessionsBound'
  <2>1. target' = target
    BY DEF Exchange
  <2> QED
    BY <1>5, <1>6, <2>1 DEF IInv, SessionsBound, Procs
<1> QED
  BY <1>8, <1>9, <1>10 DEF IInv

LEMMA LoginFailsIInv == ASSUME IInv, NEW l \in Logins, LoginFails(l) PROVE IInv'
<1>1. l \in Procs /\ Finish(l)
  BY DEF LoginFails, Procs
<1>2. codes' \in [Logins -> SUBSET {"own", "stray", "error"}]
  BY DEF LoginFails, IInv, TypeOK
<1>3. TypeOK'
  BY <1>1, <1>2, FinishTypes DEF LoginFails, fileVars, srvVars, IInv, TypeOK
<1>4. StoredWhole' /\ target' = target
  BY DEF LoginFails, fileVars, IInv, StoredWhole
<1> QED
  BY <1>1, <1>3, <1>4, FinishTypes DEF IInv

-----------------------------------------------------------------------------
(* The theorems.                                                           *)

LEMMA NextIInv == IInv /\ [Next]_vars => IInv'
<1> SUFFICES ASSUME IInv, [Next]_vars PROVE IInv'
  OBVIOUS
<1>1. ASSUME NEW p \in Sessions, SessionStep(p) PROVE IInv'
  BY <1>1, TokenSourceIInv, UseIInv, RefreshIInv, RefusedIInv DEF SessionStep
<1>2. ASSUME NEW l \in Logins, LoginStep(l) PROVE IInv'
  BY <1>2, StartLoginIInv, CallbackIInv, FetchIInv, ExchangeIInv, LoginFailsIInv DEF LoginStep
<1>3. ASSUME NEW p \in Procs, SaveStep(p) PROVE IInv'
  BY <1>3, OpenFileIInv, SaveFailsIInv, WriteFileIInv, CrashIInv DEF SaveStep
<1>4. CASE UNCHANGED vars
  BY <1>4 DEF vars, fileVars, procVars, srvVars, IInv, TypeOK, StoredWhole, LoadedWhole,
              SessionsBound
<1> QED
  BY <1>1, <1>2, <1>3, <1>4, LogoutIInv DEF Next

\* The inductive invariant holds in every reachable state, however sessions,
\* logins and logouts interleave and crash: both tokens of a credential, on file or
\* loaded, are of the server it names.
THEOREM Invariant == Spec => []IInv
BY InitIInv, NextIInv, PTL DEF Spec

\* Every reachable state is well typed; in particular live tokens were issued, and
\* only a process that writes holds the file open.
THEOREM TypeCorrect == Spec => []TypeOK
<1>1. IInv => TypeOK
  BY DEF IInv
<1> QED
  BY <1>1, Invariant, PTL

\* No server is shown a token that another issued, for any number of sessions and
\* logins on one file (TokenSource, ValidateCredentialBinding).
THEOREM TokensStayHome == Spec => []UsedTokenIsForServer
<1>1. IInv => UsedTokenIsForServer
  BY DEF IInv, LoadedWhole, SessionsBound, UsedTokenIsForServer, Whole, Procs
<1> QED
  BY <1>1, Invariant, PTL

\* Both tokens in the file are of the server it names (FileStore.Save,
\* persistingTokenSource).  It does not say that they are of one grant or refresh.
THEOREM FileIsWhole == Spec => []StoredCredentialIsWhole
<1>1. IInv => StoredCredentialIsWhole
  BY DEF IInv, StoredWhole, StoredCredentialIsWhole, Whole
<1> QED
  BY <1>1, Invariant, PTL

-----------------------------------------------------------------------------
(* The chain of refresh tokens: the inductive invariant of ChainUnbroken.  *)

\* The file or a process holds refresh token t.
Knows(t) ==
  t = stored.refresh \/ \E p \in Procs : t = cred[p].refresh \/ t = base[p].refresh

\* A token that is held was issued, by one server.
TokensKnown ==
  /\ \A t \in Tokens : Knows(t) => t.n <= issued
  /\ \A s, t \in Tokens : Knows(s) /\ Knows(t) /\ s.n = t.n /\ s.n # 0 => s = t

\* A session that refreshes started from a refresh token, which it holds until the
\* server has answered.
Holding ==
  \A p \in Sessions :
    /\ pc[p] = "refresh" => cred[p] = base[p]
    /\ Refreshing(p) => base[p].refresh.n # 0

\* p has been given a refresh token that it did not start from.
HasNew(p) ==
  /\ pc[p] \in {"save", "write"}
  /\ p \in Logins \/ cred[p].refresh # base[p].refresh
  /\ cred[p].refresh.n # 0

\* Until p has saved it, nobody else holds it.
NewIsOwn ==
  \A p \in Procs : HasNew(p) =>
    /\ stored.refresh # cred[p].refresh
    /\ \A q \in Procs \ {p} : /\ cred[q].refresh # cred[p].refresh
                             /\ base[q].refresh # cred[p].refresh

Trace == TokensKnown /\ Holding /\ NewIsOwn

\* While no mishap has happened: no two sessions refresh one token, the file holds
\* what a session started from or has moved on, and what is to be saved is live.
OneRefresher ==
  \A p, q \in Sessions :
    p # q /\ Refreshing(p) /\ Refreshing(q) => base[p].refresh # base[q].refresh
StartedFromStored ==
  \A p \in Sessions :
    pc[p] \in {"refresh", "save"} /\ file = "ok" /\ stored.refresh = base[p].refresh =>
      stored = base[p]
SavedIsLive ==
  \A p \in Procs :
    pc[p] \in {"save", "write"} /\ cred[p].refresh.n # 0 => cred[p].refresh.n \in live

Chain == ~mishap => OneRefresher /\ StartedFromStored /\ SavedIsLive
CInv  == IInv /\ Trace /\ Chain /\ ChainUnbroken

LEMMA RefreshIsToken ==
  ASSUME TypeOK
  PROVE  /\ stored.refresh \in Tokens
         /\ \A p \in Procs : cred[p].refresh \in Tokens /\ base[p].refresh \in Tokens
         /\ \A t \in Tokens : t.n \in Nat
         /\ issued \in Nat /\ \A n \in live : n \in Nat /\ n <= issued
BY BoundsAssumption DEF TypeOK, Credential, Tokens

LEMMA BlankHasNone == \A s : Blank(s).refresh.n = 0
BY DEF Blank, Token

LEMMA InitCInv == Init => CInv
<1> SUFFICES ASSUME Init PROVE CInv
  OBVIOUS
<1>1. IInv
  BY InitIInv
<1>2. /\ \A p \in Procs : pc[p] = "idle" /\ cred[p].refresh.n = 0 /\ base[p].refresh.n = 0
      /\ stored.refresh.n = 0 /\ issued = 0 /\ file = "absent"
  BY BlankHasNone DEF Init
<1>3. TokensKnown
  BY <1>2 DEF TokensKnown, Knows
<1>4. Holding /\ NewIsOwn
  BY <1>2 DEF Holding, NewIsOwn, HasNew, Refreshing, Procs
<1>5. Chain /\ ChainUnbroken
  BY <1>2 DEF Chain, OneRefresher, StartedFromStored, SavedIsLive, ChainUnbroken, Refreshing, Procs
<1> QED
  BY <1>1, <1>3, <1>4, <1>5 DEF CInv, Trace

\* A step that passes on tokens that are held already, and new ones to nobody.
LEMMA TraceKept ==
  ASSUME IInv, IInv', Trace, issued' = issued \/ issued' = issued + 1,
         \A q \in Procs : cred'[q] = cred[q] \/ cred'[q] = stored \/ cred'[q].refresh.n = 0,
         \A q \in Procs : base'[q] = base[q] \/ base'[q] = stored \/ base'[q].refresh.n = 0,
         \A q \in Procs : pc'[q] = "refresh" =>
           \/ pc[q] = "refresh" /\ cred'[q] = cred[q] /\ base'[q] = base[q]
           \/ cred'[q] = base'[q] /\ base'[q].refresh.n # 0,
         \A q \in Procs : pc'[q] \in {"save", "write"} =>
           pc[q] \in {"save", "write"} /\ cred'[q] = cred[q] /\ base'[q] = base[q],
         \/ stored' = stored
         \/ stored'.refresh.n = 0
         \/ \E q \in Procs : stored' = cred[q] /\ pc'[q] \notin {"save", "write"}
  PROVE  Trace'
<1>1. /\ stored.refresh \in Tokens /\ stored'.refresh \in Tokens
      /\ \A p \in Procs : cred[p].refresh \in Tokens /\ base[p].refresh \in Tokens
      /\ \A t \in Tokens : t.n \in Nat
      /\ issued \in Nat /\ issued' \in Nat /\ issued <= issued'
  <2>1. stored'.refresh \in Tokens
    BY DEF IInv, TypeOK, Credential
  <2> QED
    BY <2>1, RefreshIsToken DEF IInv
<1>2. \A t \in Tokens : t.n # 0 /\ Knows(t)' => Knows(t)
  BY DEF Knows
<1>3. TokensKnown'
  <2>1. \A t \in Tokens : Knows(t)' => t.n <= issued'
    BY <1>1, <1>2 DEF Trace, TokensKnown
  <2>2. \A s, t \in Tokens : Knows(s)' /\ Knows(t)' /\ s.n = t.n /\ s.n # 0 => s = t
    BY <1>2 DEF Trace, TokensKnown
  <2> QED
    BY <2>1, <2>2 DEF TokensKnown
<1>4. Holding'
  BY DEF Trace, Holding, Refreshing, Procs
<1>5. NewIsOwn'
  <2>1. SUFFICES ASSUME NEW p \in Procs, HasNew(p)'
                 PROVE  /\ stored'.refresh # cred'[p].refresh
                        /\ \A q \in Procs \ {p} : /\ cred'[q].refresh # cred'[p].refresh
                                                 /\ base'[q].refresh # cred'[p].refresh
    BY DEF NewIsOwn
  <2>2. HasNew(p) /\ cred'[p] = cred[p] /\ cred[p].refresh.n # 0 /\ pc'[p] \in {"save", "write"}
    BY <2>1 DEF HasNew
  <2>3. /\ stored.refresh # cred[p].refresh
        /\ \A q \in Procs \ {p} : /\ cred[q].refresh # cred[p].refresh
                                 /\ base[q].refresh # cred[p].refresh
    BY <2>2 DEF Trace, NewIsOwn
  <2> QED
    BY <2>2, <2>3
<1> QED
  BY <1>3, <1>4, <1>5 DEF Trace

\* A token is issued to p, or the one it started from is confirmed.
LEMMA TraceIssued ==
  ASSUME IInv, IInv', Trace, NEW p \in Procs, issued' = issued + 1, UNCHANGED <<stored, base>>,
         \A q \in Procs \ {p} : cred'[q] = cred[q] /\ pc'[q] = pc[q],
         pc'[p] = "save", p \in Sessions => pc[p] = "refresh",
         \/ cred'[p].refresh.n = issued + 1
         \/ p \in Logins /\ cred'[p].refresh.n = 0
         \/ p \in Sessions /\ cred'[p].refresh = cred[p].refresh
  PROVE  Trace'
<1>1. /\ stored.refresh \in Tokens
      /\ \A q \in Procs : cred[q].refresh \in Tokens /\ base[q].refresh \in Tokens
                          /\ cred'[q].refresh \in Tokens
      /\ \A t \in Tokens : t.n \in Nat
      /\ issued \in Nat /\ issued' \in Nat /\ issued < issued'
  <2>1. \A q \in Procs : cred'[q].refresh \in Tokens
    BY DEF IInv, TypeOK, Credential
  <2> QED
    BY <2>1, RefreshIsToken DEF IInv
<1>2. \A t \in Tokens : Knows(t) => t.n <= issued
  BY DEF Trace, TokensKnown
<1>3. /\ stored.refresh.n <= issued
      /\ \A q \in Procs : cred[q].refresh.n <= issued /\ base[q].refresh.n <= issued
  BY <1>1, <1>2 DEF Knows
<1>4. \A t \in Tokens : Knows(t)' => Knows(t) \/ t.n = 0 \/ (t = cred'[p].refresh /\ t.n = issued + 1)
  BY DEF Knows
<1>5. TokensKnown'
  <2>1. \A t \in Tokens : Knows(t)' => t.n <= issued'
    BY <1>1, <1>2, <1>4
  <2>2. ASSUME NEW s \in Tokens, NEW t \in Tokens, Knows(s)', Knows(t)', s.n = t.n, s.n # 0
        PROVE  s = t
    <3>1. CASE s.n = issued + 1
      <4>1. ~Knows(s) /\ ~Knows(t)
        <5>1. ~(issued + 1 <= issued)
          BY <1>1
        <5> QED
          BY <1>2, <2>2, <3>1, <5>1
      <4> QED
        BY <1>4, <2>2, <4>1
    <3>2. CASE s.n # issued + 1
      BY <1>4, <2>2, <3>2 DEF Trace, TokensKnown
    <3> QED
      BY <3>1, <3>2
  <2> QED
    BY <2>1, <2>2 DEF TokensKnown
<1>6. Holding'
  BY DEF Trace, Holding, Refreshing, Procs
<1>7. NewIsOwn'
  <2>1. SUFFICES ASSUME NEW r \in Procs, HasNew(r)'
                 PROVE  /\ stored.refresh # cred'[r].refresh
                        /\ \A q \in Procs \ {r} : /\ cred'[q].refresh # cred'[r].refresh
                                                 /\ base[q].refresh # cred'[r].refresh
    BY DEF NewIsOwn
  <2>2. CASE r = p
    <3>1. cred'[p].refresh.n = issued + 1
      <4>1. p \in Sessions => p \notin Logins /\ cred[p] = base[p]
        BY BoundsAssumption DEF Trace, Holding
      <4> QED
        BY <2>1, <2>2, <4>1, BoundsAssumption DEF HasNew
    <3>2. \A t \in Tokens : t.n <= issued => t # cred'[p].refresh
      BY <1>1, <3>1
    <3> QED
      BY <1>1, <1>3, <2>2, <3>2
  <2>3. CASE r # p
    <3>1. HasNew(r) /\ cred'[r] = cred[r] /\ cred[r].refresh.n # 0
      BY <2>1, <2>3 DEF HasNew
    <3>2. /\ stored.refresh # cred[r].refresh
          /\ \A q \in Procs \ {r} : /\ cred[q].refresh # cred[r].refresh
                                   /\ base[q].refresh # cred[r].refresh
      BY <3>1 DEF Trace, NewIsOwn
    <3>3. cred'[p].refresh # cred[r].refresh
      BY <1>1, <1>3, <2>3, <3>1, <3>2
    <3> QED
      BY <3>1, <3>2, <3>3
  <2> QED
    BY <2>2, <2>3
<1> QED
  BY <1>5, <1>6, <1>7 DEF Trace

\* A step that saves nothing and lets no session lose what it is about to save.
LEMMA ChainKept ==
  ASSUME CInv, UNCHANGED fileVars, live \subseteq live', ~mishap' => ~mishap,
         \A q \in Procs : pc'[q] \in {"refresh", "save", "write"} =>
           pc'[q] = pc[q] /\ cred'[q] = cred[q] /\ base'[q] = base[q],
         ~mishap' => \A q \in Sessions : pc[q] = "save" => pc'[q] = "save" /\ base'[q] = base[q],
         ~mishap' => \A q \in Procs : opened[q] => opened'[q]
  PROVE  Chain' /\ ChainUnbroken'
<1> SUFFICES ASSUME ~mishap' PROVE Chain' /\ ChainUnbroken'
  BY DEF Chain, ChainUnbroken
<1>1. OneRefresher /\ StartedFromStored /\ SavedIsLive /\ ~mishap
  BY DEF CInv, Chain
<1>2. OneRefresher'
  BY <1>1 DEF OneRefresher, Refreshing, Procs
<1>3. StartedFromStored'
  BY <1>1 DEF StartedFromStored, Procs, fileVars
<1>4. SavedIsLive'
  BY <1>1 DEF SavedIsLive
<1>5. ChainUnbroken'
  BY <1>1 DEF CInv, ChainUnbroken, fileVars
<1> QED
  BY <1>2, <1>3, <1>4, <1>5 DEF Chain

\* What Close does, and leaves alone.
LEMMA CloseClears ==
  ASSUME IInv, NEW p \in Procs, Close(p)
  PROVE  /\ pc'[p] = "idle" /\ cred'[p].refresh.n = 0 /\ base'[p].refresh.n = 0 /\ ~opened'[p]
         /\ \A q \in Procs \ {p} : /\ pc'[q] = pc[q] /\ cred'[q] = cred[q]
                                  /\ base'[q] = base[q] /\ opened'[q] = opened[q]
BY BlankHasNone DEF Close, Goto, IInv, TypeOK

\* A process that gives up without the file in hand.
LEMMA FinishCInv ==
  ASSUME CInv, IInv', NEW p \in Procs, Finish(p), UNCHANGED fileVars,
         issued' = issued \/ issued' = issued + 1,
         \/ mishap'
         \/ ~mishap /\ live \subseteq live' /\ pc[p] \notin {"save", "write"}
  PROVE  CInv'
<1>1. /\ pc'[p] = "idle" /\ cred'[p].refresh.n = 0 /\ base'[p].refresh.n = 0
      /\ \A q \in Procs \ {p} : /\ pc'[q] = pc[q] /\ cred'[q] = cred[q]
                               /\ base'[q] = base[q] /\ opened'[q] = opened[q]
  BY CloseClears DEF Finish, CInv
<1>2. Trace'
  BY <1>1, TraceKept DEF CInv, fileVars
<1>3. Chain' /\ ChainUnbroken'
  <2>1. CASE mishap'
    BY <2>1 DEF Chain, ChainUnbroken
  <2>2. CASE ~mishap /\ live \subseteq live' /\ pc[p] \notin {"save", "write"}
    <3>1. ~opened[p]
      BY <2>2 DEF CInv, IInv, TypeOK
    <3> QED
      BY <1>1, <2>2, <3>1, ChainKept DEF Procs
  <2> QED
    BY <2>1, <2>2
<1> QED
  BY <1>2, <1>3 DEF CInv

LEMMA GivesUpCInv ==
  ASSUME CInv, IInv', NEW p \in Procs,
         (p \in Sessions /\ (Use(p) \/ Refused(p))) \/ SaveFails(p) \/ Crash(p)
  PROVE  CInv'
<1>1. mishap \in BOOLEAN
  BY DEF CInv, IInv, TypeOK
<1>2. CASE Use(p)
  BY <1>1, <1>2, FinishCInv DEF Use, srvVars
<1>3. CASE Refused(p)
  BY <1>1, <1>3, FinishCInv DEF Refused
<1>4. CASE SaveFails(p)
  BY <1>4, FinishCInv DEF SaveFails, srvVars
<1>5. CASE Crash(p)
  BY <1>1, <1>5, FinishCInv DEF Crash, srvVars
<1> QED
  BY <1>2, <1>3, <1>4, <1>5

LEMMA TokenSourceCInv == ASSUME CInv, IInv', NEW p \in Sessions, TokenSource(p) PROVE CInv'
<1>1. /\ p \in Procs /\ pc[p] = "idle" /\ file = "ok"
      /\ UNCHANGED <<fileVars, opened, srvVars>>
  BY DEF TokenSource, Procs
<1>2. /\ cred'[p] = stored /\ base'[p] = stored
      /\ \A q \in Procs \ {p} : cred'[q] = cred[q] /\ base'[q] = base[q] /\ pc'[q] = pc[q]
      /\ \/ pc'[p] = "use" /\ (~mishap' => ~mishap)
         \/ /\ pc'[p] = "refresh" /\ stored.refresh.n # 0
            /\ ~mishap' => ~mishap /\ ~Overlaps(p, stored)
  BY <1>1 DEF TokenSource, Goto, Refreshable, CInv, IInv, TypeOK
<1>3. Trace'
  BY <1>1, <1>2, TraceKept DEF CInv, fileVars, srvVars
<1>4. Chain' /\ ChainUnbroken'
  <2>1. SUFFICES ASSUME ~mishap' PROVE Chain' /\ ChainUnbroken'
    BY DEF Chain, ChainUnbroken
  <2>2. ~mishap /\ (pc'[p] = "refresh" => ~Overlaps(p, stored))
    BY <1>2, <2>1
  <2>3. OneRefresher /\ StartedFromStored /\ SavedIsLive
    BY <2>2 DEF CInv, Chain
  <2>4. OneRefresher'
    BY <1>2, <2>2, <2>3 DEF OneRefresher, Overlaps, Refreshing, Procs
  <2>5. StartedFromStored' /\ SavedIsLive'
    BY <1>1, <1>2, <2>3 DEF StartedFromStored, SavedIsLive, fileVars, srvVars, Procs
  <2>6. ChainUnbroken'
    BY <1>1, <1>2, <2>2 DEF CInv, ChainUnbroken, fileVars, srvVars, Procs
  <2> QED
    BY <2>4, <2>5, <2>6 DEF Chain
<1> QED
  BY <1>3, <1>4 DEF CInv

\* The token a session refreshes with is saved by nobody else.
LEMMA RefreshedIsOwn ==
  ASSUME CInv, ~mishap, NEW p \in Sessions, pc[p] = "refresh",
         NEW q \in Procs, q # p, pc[q] \in {"save", "write"}, cred[q].refresh.n # 0
  PROVE  cred[q].refresh.n # cred[p].refresh.n
<1>1. p \in Procs /\ cred[p] = base[p] /\ OneRefresher /\ Refreshing(p)
  BY DEF CInv, Trace, Holding, Chain, Refreshing, Procs
<1>2. SUFFICES ASSUME cred[q].refresh.n = cred[p].refresh.n PROVE FALSE
  OBVIOUS
<1>3. cred[q].refresh = base[p].refresh
  <2>1. Knows(cred[q].refresh) /\ Knows(cred[p].refresh)
    BY <1>1 DEF Knows
  <2>2. cred[q].refresh \in Tokens /\ cred[p].refresh \in Tokens
    BY <1>1, RefreshIsToken DEF CInv, IInv
  <2> QED
    BY <1>1, <1>2, <2>1, <2>2 DEF CInv, Trace, TokensKnown
<1>4. ~HasNew(q)
  BY <1>1, <1>3 DEF CInv, Trace, NewIsOwn
<1>5. q \in Sessions /\ base[q].refresh = base[p].refresh /\ Refreshing(q)
  BY <1>3, <1>4 DEF HasNew, Procs, Refreshing
<1> QED
  BY <1>1, <1>5 DEF OneRefresher

LEMMA RefreshCInv == ASSUME CInv, IInv', NEW p \in Sessions, Refresh(p) PROVE CInv'
<1>1. /\ p \in Procs /\ pc[p] = "refresh" /\ issued' = issued + 1 /\ issued \in Nat
      /\ cred[p].refresh.n \in live /\ UNCHANGED fileVars
      /\ mishap \in BOOLEAN
  BY RefreshIsToken DEF Refresh, Procs, CInv, IInv, TypeOK
<1>2. PICK rotated \in BOOLEAN :
        /\ live' = IF rotated THEN (live \ {cred[p].refresh.n}) \cup {issued + 1} ELSE live
        /\ \/ /\ cred' = [cred EXCEPT ![p] = Renewed(p, issued + 1, rotated)]
              /\ Goto(p, "save")
              /\ UNCHANGED <<base, opened, overlaid, mishap>>
           \/ Finish(p) /\ mishap' = (mishap \/ rotated)
  BY DEF Refresh
<1>3. CASE Finish(p) /\ mishap' = (mishap \/ rotated)
  BY <1>1, <1>2, <1>3, FinishCInv
<1>4. CASE /\ cred' = [cred EXCEPT ![p] = Renewed(p, issued + 1, rotated)]
           /\ Goto(p, "save")
           /\ UNCHANGED <<base, opened, overlaid, mishap>>
  <2>1. /\ cred'[p].refresh = IF rotated THEN Token(cred[p].refresh.srv, issued + 1) ELSE cred[p].refresh
        /\ \A q \in Procs \ {p} : cred'[q] = cred[q] /\ pc'[q] = pc[q]
        /\ pc'[p] = "save"
    <3>1. cred'[p] = Renewed(p, issued + 1, rotated)
      BY <1>1, <1>4 DEF CInv, IInv, TypeOK
    <3>2. cred[p] \in Credential
      BY <1>1 DEF CInv, IInv, TypeOK
    <3>3. Renewed(p, issued + 1, rotated).refresh
            = IF rotated THEN Token(cred[p].refresh.srv, issued + 1) ELSE cred[p].refresh
      BY <3>2 DEF Renewed, Credential
    <3>4. pc'[p] = "save" /\ \A q \in Procs \ {p} : cred'[q] = cred[q] /\ pc'[q] = pc[q]
      BY <1>1, <1>4 DEF Goto, CInv, IInv, TypeOK
    <3> QED
      BY <3>1, <3>3, <3>4
  <2>2. rotated => cred'[p].refresh.n = issued + 1
    BY <2>1 DEF Token
  <2>3. Trace'
    BY <1>1, <1>4, <2>1, <2>2, TraceIssued DEF CInv, fileVars
  <2>4. Chain' /\ ChainUnbroken'
    <3>1. SUFFICES ASSUME ~mishap PROVE Chain' /\ ChainUnbroken'
      BY <1>4 DEF Chain, ChainUnbroken
    <3>2. OneRefresher /\ StartedFromStored /\ SavedIsLive
      BY <3>1 DEF CInv, Chain
    <3>3. OneRefresher' /\ StartedFromStored'
      BY <1>1, <1>4, <2>1, <3>2 DEF OneRefresher, StartedFromStored, Refreshing, fileVars, Procs
    <3>4. SavedIsLive'
      <4>1. SUFFICES ASSUME NEW q \in Procs, pc'[q] \in {"save", "write"}, cred'[q].refresh.n # 0
                     PROVE  cred'[q].refresh.n \in live'
        BY DEF SavedIsLive
      <4>2. CASE q = p
        BY <1>1, <1>2, <2>1, <2>2, <4>2
      <4>3. CASE q # p
        <5>1. cred'[q] = cred[q] /\ pc[q] \in {"save", "write"}
          BY <2>1, <4>1, <4>3
        <5>2. cred[q].refresh.n \in live /\ cred[q].refresh.n # cred[p].refresh.n
          BY <1>1, <3>1, <3>2, <4>1, <4>3, <5>1, RefreshedIsOwn DEF SavedIsLive
        <5> QED
          BY <1>2, <5>1, <5>2
      <4> QED
        BY <4>2, <4>3
    <3>5. ASSUME file = "ok", stored.refresh.n # 0
          PROVE  \/ stored.refresh.n \in live'
                 \/ \E q \in Sessions : pc'[q] = "save" /\ base[q] = stored
      <4>1. CASE \E q \in Sessions : pc[q] = "save" /\ base[q] = stored
        <5>1. PICK q \in Sessions : pc[q] = "save" /\ base[q] = stored
          BY <4>1
        <5>2. q \in Procs /\ q # p
          BY <1>1, <5>1 DEF Procs
        <5> QED
          BY <2>1, <5>1, <5>2
      <4>2. CASE stored.refresh.n \in live /\ stored.refresh.n = cred[p].refresh.n
        <5>1. stored.refresh = cred[p].refresh
          <6>1. Knows(stored.refresh) /\ Knows(cred[p].refresh)
            BY <1>1 DEF Knows
          <6>2. stored.refresh \in Tokens /\ cred[p].refresh \in Tokens
            BY <1>1, RefreshIsToken DEF CInv, IInv
          <6> QED
            BY <3>5, <4>2, <6>1, <6>2 DEF CInv, Trace, TokensKnown
        <5>2. stored = base[p]
          BY <1>1, <3>2, <3>5, <5>1 DEF CInv, Trace, Holding, StartedFromStored
        <5> QED
          BY <2>1, <5>2
      <4>3. CASE stored.refresh.n \in live /\ stored.refresh.n # cred[p].refresh.n
        BY <1>2, <4>3
      <4> QED
        BY <3>1, <3>5, <4>1, <4>2, <4>3 DEF CInv, ChainUnbroken
    <3>6. ChainUnbroken'
      BY <1>1, <1>4, <3>1, <3>5 DEF CInv, ChainUnbroken, fileVars
    <3> QED
      BY <3>3, <3>4, <3>6 DEF Chain
  <2> QED
    BY <2>3, <2>4 DEF CInv
<1> QED
  BY <1>2, <1>3, <1>4

LEMMA OpenFileCInv == ASSUME CInv, IInv', NEW p \in Procs, OpenFile(p) PROVE CInv'
<1>1. /\ pc[p] = "save" /\ file' = "broken" /\ stored'.refresh.n = 0
      /\ opened'[p] /\ UNCHANGED <<cred, base, srvVars>>
      /\ pc'[p] = "write" /\ \A q \in Procs \ {p} : pc'[q] = pc[q]
      /\ ~mishap' => ~mishap
  BY BlankHasNone DEF OpenFile, Goto, CInv, IInv, TypeOK
<1>2. Trace'
  BY <1>1, TraceKept DEF CInv, srvVars
<1>3. Chain'
  BY <1>1 DEF CInv, Chain, OneRefresher, StartedFromStored, SavedIsLive, Refreshing, Procs, srvVars
<1>4. ChainUnbroken'
  BY <1>1 DEF ChainUnbroken
<1> QED
  BY <1>2, <1>3, <1>4 DEF CInv

LEMMA WriteFileCInv == ASSUME CInv, IInv', NEW p \in Procs, WriteFile(p) PROVE CInv'
<1>1. /\ pc'[p] = "idle" /\ cred'[p].refresh.n = 0 /\ base'[p].refresh.n = 0
      /\ \A q \in Procs \ {p} : /\ pc'[q] = pc[q] /\ cred'[q] = cred[q]
                               /\ base'[q] = base[q] /\ opened'[q] = opened[q]
  BY CloseClears DEF WriteFile, CInv
<1>2. pc[p] = "write" /\ UNCHANGED srvVars
  BY DEF WriteFile
<1>3. Trace'
  <2>1. \/ stored' = stored
        \/ stored'.refresh.n = 0
        \/ stored' = cred[p] /\ pc'[p] \notin {"save", "write"}
    BY <1>1, BlankHasNone DEF WriteFile
  <2> QED
    BY <1>1, <1>2, <2>1, TraceKept DEF CInv, srvVars
<1>4. Chain' /\ ChainUnbroken'
  <2>1. CASE ~opened[p] /\ UNCHANGED <<file, stored, mishap>>
    BY <1>1, <1>2, <2>1, ChainKept DEF fileVars, srvVars, Procs
  <2>2. CASE mishap'
    BY <2>2 DEF Chain, ChainUnbroken
  <2>3. CASE file' = "ok" /\ stored' = cred[p] /\ ~mishap /\ ~mishap'
    <3>1. OneRefresher /\ StartedFromStored /\ SavedIsLive
      BY <2>3 DEF CInv, Chain
    <3>2. OneRefresher' /\ SavedIsLive'
      BY <1>1, <1>2, <3>1 DEF OneRefresher, SavedIsLive, Refreshing, Procs, srvVars
    <3>3. StartedFromStored'
      <4>1. SUFFICES ASSUME NEW q \in Sessions, pc'[q] \in {"refresh", "save"},
                            cred[p].refresh = base'[q].refresh
                     PROVE  FALSE
        BY <2>3 DEF StartedFromStored
      <4>2. q \in Procs /\ q # p /\ base'[q] = base[q] /\ Refreshing(q) /\ base[q].refresh.n # 0
        <5>1. q \in Procs /\ q # p
          BY <1>1, <4>1 DEF Procs
        <5> QED
          BY <1>1, <4>1, <5>1 DEF Refreshing, CInv, Trace, Holding
      <4>3. ~HasNew(p)
        BY <4>1, <4>2 DEF CInv, Trace, NewIsOwn
      <4>4. p \in Sessions /\ cred[p].refresh = base[p].refresh /\ Refreshing(p)
        BY <1>2, <4>1, <4>2, <4>3 DEF HasNew, Procs, Refreshing
      <4> QED
        BY <3>1, <4>1, <4>2, <4>4 DEF OneRefresher
    <3>4. ChainUnbroken'
      BY <1>2, <2>3, <3>1 DEF ChainUnbroken, SavedIsLive, srvVars
    <3> QED
      BY <3>2, <3>3, <3>4 DEF Chain
  <2>4. mishap \in BOOLEAN /\ mishap' \in BOOLEAN
    BY DEF CInv, IInv, TypeOK
  <2> QED
    BY <2>1, <2>2, <2>3, <2>4 DEF WriteFile
<1> QED
  BY <1>3, <1>4 DEF CInv

LEMMA LogoutCInv == ASSUME CInv, IInv', Logout PROVE CInv'
<1>1. /\ file' = "absent" /\ stored'.refresh.n = 0 /\ UNCHANGED <<pc, cred, base, srvVars, mishap>>
  BY BlankHasNone DEF Logout
<1>2. Trace'
  BY <1>1, TraceKept DEF CInv, srvVars, Trace, Holding, Refreshing
<1>3. Chain' /\ ChainUnbroken'
  BY <1>1 DEF CInv, Chain, OneRefresher, StartedFromStored, SavedIsLive, Refreshing, srvVars, ChainUnbroken
<1> QED
  BY <1>2, <1>3 DEF CInv

\* A login before its grant, and any step that changes nothing of all this.
LEMMA LoginCInv ==
  ASSUME CInv, IInv', NEW l \in Logins, StartLogin(l) \/ Callback(l) \/ Fetch(l) \/ LoginFails(l)
  PROVE  CInv'
<1>1. l \in Procs /\ l \notin Sessions /\ mishap \in BOOLEAN
  BY BoundsAssumption DEF Procs, CInv, IInv, TypeOK
<1>2. CASE Finish(l) /\ pc[l] \in {"await", "exchange"} /\ UNCHANGED <<fileVars, srvVars, mishap>>
  BY <1>1, <1>2, FinishCInv DEF srvVars
<1>3. ASSUME UNCHANGED <<fileVars, base, opened, srvVars, mishap>>,
             pc'[l] = pc[l] \/ pc'[l] \in {"await", "exchange"},
             pc[l] \in {"idle", "await", "exchange"},
             cred'[l] = cred[l] \/ cred'[l].refresh.n = 0,
             \A q \in Procs \ {l} : pc'[q] = pc[q] /\ cred'[q] = cred[q]
      PROVE  CInv'
  <2>1. Trace'
    <3>1. \A q \in Procs : pc'[q] \in {"refresh", "save", "write"} =>
            q # l /\ pc'[q] = pc[q] /\ cred'[q] = cred[q]
      BY <1>3
    <3> QED
      BY <1>3, <3>1, TraceKept DEF CInv, fileVars, srvVars
  <2>2. Chain' /\ ChainUnbroken'
    BY <1>1, <1>3, ChainKept DEF srvVars, Procs
  <2> QED
    BY <2>1, <2>2 DEF CInv
<1>4. CASE StartLogin(l)
  BY <1>1, <1>3, <1>4, BlankHasNone DEF StartLogin, Goto, CInv, IInv, TypeOK
<1>5. CASE Callback(l)
  BY <1>1, <1>3, <1>5 DEF Callback
<1>6. CASE Fetch(l)
  BY <1>1, <1>2, <1>3, <1>6 DEF Fetch, Goto, CInv, IInv, TypeOK
<1>7. CASE LoginFails(l)
  BY <1>1, <1>2, <1>7 DEF LoginFails
<1> QED
  BY <1>4, <1>5, <1>6, <1>7

LEMMA ExchangeCInv == ASSUME CInv, IInv', NEW l \in Logins, Exchange(l) PROVE CInv'
<1>1. /\ l \in Procs /\ l \notin Sessions /\ pc[l] = "exchange" /\ issued' = issued + 1
      /\ pc'[l] = "save" /\ \A q \in Procs \ {l} : pc'[q] = pc[q]
      /\ UNCHANGED <<fileVars, base, opened, mishap>>
  BY BoundsAssumption DEF Exchange, Goto, Procs, CInv, IInv, TypeOK
<1>2. PICK long \in BOOLEAN, url \in BOOLEAN :
        /\ live' = IF long THEN live \cup {issued + 1} ELSE live
        /\ cred' = [cred EXCEPT ![l] = Granted(l, issued + 1, long, url)]
  BY DEF Exchange
<1>3. /\ cred'[l].refresh.n = IF long THEN issued + 1 ELSE 0
      /\ \A q \in Procs \ {l} : cred'[q] = cred[q]
  <2>1. cred[l] \in Credential /\ cred'[l] = Granted(l, issued + 1, long, url)
        /\ \A q \in Procs \ {l} : cred'[q] = cred[q]
    BY <1>1, <1>2 DEF CInv, IInv, TypeOK
  <2>2. Granted(l, issued + 1, long, url).refresh.n = IF long THEN issued + 1 ELSE 0
    BY <2>1 DEF Granted, Credential, Token
  <2> QED
    BY <2>1, <2>2
<1>4. Trace'
  BY <1>1, <1>3, TraceIssued DEF CInv, fileVars
<1>5. Chain' /\ ChainUnbroken'
  <2>1. SUFFICES ASSUME ~mishap PROVE Chain' /\ ChainUnbroken'
    BY <1>1 DEF Chain, ChainUnbroken
  <2>2. OneRefresher /\ StartedFromStored /\ SavedIsLive /\ live \subseteq live'
    BY <1>2, <2>1 DEF CInv, Chain
  <2>3. OneRefresher' /\ StartedFromStored'
    BY <1>1, <2>2 DEF OneRefresher, StartedFromStored, Refreshing, fileVars, Procs
  <2>4. SavedIsLive'
    BY <1>1, <1>2, <1>3, <2>2 DEF SavedIsLive
  <2>5. ChainUnbroken'
    BY <1>1, <2>1, <2>2 DEF CInv, ChainUnbroken, fileVars, Procs
  <2> QED
    BY <2>3, <2>4, <2>5 DEF Chain
<1> QED
  BY <1>4, <1>5 DEF CInv

LEMMA NextCInv == CInv /\ [Next]_vars => CInv'
<1> SUFFICES ASSUME CInv, [Next]_vars PROVE CInv'
  OBVIOUS
<1>1. IInv'
  BY NextIInv DEF CInv
<1>2. ASSUME NEW p \in Sessions, SessionStep(p) PROVE CInv'
  BY <1>1, <1>2, TokenSourceCInv, RefreshCInv, GivesUpCInv DEF SessionStep, Procs
<1>3. ASSUME NEW l \in Logins, LoginStep(l) PROVE CInv'
  BY <1>1, <1>3, LoginCInv, ExchangeCInv DEF LoginStep
<1>4. ASSUME NEW p \in Procs, SaveStep(p) PROVE CInv'
  BY <1>1, <1>4, OpenFileCInv, WriteFileCInv, GivesUpCInv DEF SaveStep
<1>5. CASE UNCHANGED vars
  <2>1. Trace'
    BY <1>1, <1>5, TraceKept DEF CInv, vars, fileVars, procVars, srvVars
  <2>2. Chain' /\ ChainUnbroken'
    BY <1>5, ChainKept DEF vars, fileVars, procVars, srvVars
  <2> QED
    BY <1>1, <2>1, <2>2 DEF CInv
<1> QED
  BY <1>1, <1>2, <1>3, <1>4, <1>5, LogoutCInv DEF Next

\* A refresh token is never lost but by a mishap: refreshes that overlap, a save
\* over another's credential, a session that dies or fails while it saves, an
\* answer that is lost (persistingTokenSource.Token, FileStore.Save).
THEOREM RefreshChainHolds == Spec => []ChainUnbroken
<1>1. CInv => ChainUnbroken
  BY DEF CInv
<1> QED
  BY InitCInv, NextCInv, <1>1, PTL DEF Spec

\* Until its save is over, a token the server has just issued is held by the process
\* that it was issued to and by nobody else, mishaps or not.
THEOREM NewTokenHasOneHolder == Spec => []NewIsOwn
<1>1. CInv => NewIsOwn
  BY DEF CInv, Trace
<1> QED
  BY InitCInv, NextCInv, <1>1, PTL DEF Spec
=============================================================================
