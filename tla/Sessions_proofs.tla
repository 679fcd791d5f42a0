--------------------------- MODULE Sessions_proofs ---------------------------
(***************************************************************************)
(* SessionsInv is an invariant for any number of requests, browsers and    *)
(* tokens.  Most steps change one request and no row: for them it is       *)
(* enough to look at that request (PrivateStep).  The rest are the         *)
(* insertion of a token, the commit, and time.                             *)
(*                                                                         *)
(* Two more invariants rest on it.  EndingInv follows the requests that end *)
(* sessions: a step is the request's own, or it stands aside and brings to *)
(* life only what the request has heard of (AsideStep).  OwnersInv and     *)
(* CalmInv follow the browsers' cookies while nothing comes between.       *)
(***************************************************************************)
EXTENDS Sessions, TLAPS

\* What the step leaves alone when it is request r's own.
Private(r) ==
    /\ UNCHANGED <<row, chain, last>>
    /\ \A q \in Requests \ {r} :
          /\ pc'[q] = pc[q]
          /\ job'[q] = job[q]
          /\ token'[q] = token[q]
          /\ held'[q] = held[q]
          /\ minted'[q] = minted[q]

LEMMA InitInv == Init => SessionsInv
<1> SUFFICES ASSUME Init PROVE SessionsInv
  OBVIOUS
<1>1. TypeOK
  BY SessionsAssumption
  DEF Init, TypeOK, Tokens, RowStatus, Steps, Jobs
<1>2. TokensHaveRoots /\ RowsAreLockedOnce /\ OneLivePerSession /\ CookiesAreSaved
  BY SessionsAssumption
  DEF Init, TokensHaveRoots, RowsAreLockedOnce, OneLivePerSession, CookiesAreSaved,
      Minting, Live, Tokens
<1>3. \A r \in Requests : StepsKeepTrack(r) /\ RotationsHoldTheirToken(r)
  BY DEF Init, StepsKeepTrack, RotationsHoldTheirToken, Minting
<1> QED
  BY <1>1, <1>2, <1>3 DEF SessionsInv

\* A step of one request that changes no row keeps the invariant if the
\* request itself does, and what it does to the cookies.
LEMMA PrivateStep ==
    ASSUME SessionsInv, NEW r \in Requests, Private(r), TypeOK', CookiesAreSaved',
           StepsKeepTrack(r)', RotationsHoldTheirToken(r)',
           \A q \in Requests \ {r} : held[q] \cap held'[r] = {},
           Minting(r)' => Minting(r) /\ minted'[r] = minted[r]
    PROVE  SessionsInv'
<1>1. TokensHaveRoots' /\ OneLivePerSession'
  BY DEF SessionsInv, Private, TokensHaveRoots, OneLivePerSession, Live
<1>2. ASSUME NEW q \in Requests, q # r
      PROVE  StepsKeepTrack(q)' /\ RotationsHoldTheirToken(q)'
  BY <1>2 DEF SessionsInv, Private, StepsKeepTrack, RotationsHoldTheirToken, Minting
<1>3. RowsAreLockedOnce'
  BY DEF SessionsInv, Private, RowsAreLockedOnce, Minting
<1> QED
  BY <1>1, <1>2, <1>3 DEF SessionsInv

LEMMA CookiesStay ==
    ASSUME SessionsInv, row' = row, jar' = jar
    PROVE  CookiesAreSaved'
BY DEF SessionsInv, CookiesAreSaved

-----------------------------------------------------------------------------
\* A request that ends leaves nothing behind.
LEMMA LeaveStep ==
    ASSUME SessionsInv, NEW r \in Requests, Leave(r),
           row' = row, chain' = chain, last' = last, expired' = expired,
           access' \in [Tokens -> {"none", "tracked", "revoked"}],
           jar' \in [Browsers -> 0 .. MaxTokens], CookiesAreSaved',
           calm' \in BOOLEAN, faults' \in 0 .. MaxFaults
    PROVE  SessionsInv'
<1>1. TypeOK'
  <2>1. /\ pc' \in [Requests -> Steps \cup {"idle"}]
        /\ job' \in [Requests -> Jobs]
        /\ from' \in [Requests -> Browsers \cup {NoBrowser}]
    BY DEF SessionsInv, TypeOK, Leave, Goto, Jobs
  <2>2. /\ token' \in [Requests -> 0 .. MaxTokens]
        /\ minted' \in [Requests -> 0 .. MaxTokens]
    BY SessionsAssumption DEF SessionsInv, TypeOK, Leave
  <2>3. /\ held' \in [Requests -> SUBSET Tokens]
        /\ seen' \in [Requests -> SUBSET Tokens]
        /\ overlap' \in [Requests -> SUBSET Tokens]
    BY DEF SessionsInv, TypeOK, Leave
  <2> QED
    BY <2>1, <2>2, <2>3 DEF SessionsInv, TypeOK
<1>2. Private(r)
  BY DEF SessionsInv, TypeOK, Private, Leave, Goto
<1>3. StepsKeepTrack(r)' /\ RotationsHoldTheirToken(r)' /\ ~Minting(r)'
  BY DEF SessionsInv, TypeOK, Leave, Goto, StepsKeepTrack, RotationsHoldTheirToken,
         Minting
<1>4. \A q \in Requests \ {r} : held[q] \cap held'[r] = {}
  BY DEF SessionsInv, TypeOK, Leave
<1> QED
  BY <1>1, <1>2, <1>3, <1>4, PrivateStep

\* A request begins with nothing, and with a cookie whose row was saved.
LEMMA StartStep ==
    ASSUME SessionsInv, NEW r \in Requests, NEW b \in Browsers,
           NEW j \in Jobs \ {"none"},
           NEW step \in {"single", "read", "snapshot"}, Start(r, b, j, step),
           step = "snapshot" => j \in Sweeping
    PROVE  SessionsInv'
<1>1. TypeOK'
  <2>1. BeingMinted \subseteq Tokens
    BY DEF SessionsInv, TypeOK, BeingMinted, Tokens
  <2>2. overlap' \in [Requests -> SUBSET Tokens]
    BY <2>1 DEF SessionsInv, TypeOK, Start
  <2>3. calm' \in BOOLEAN
    BY DEF SessionsInv, TypeOK, Start
  <2>4. /\ pc' \in [Requests -> Steps \cup {"idle"}]
        /\ job' \in [Requests -> Jobs]
        /\ from' \in [Requests -> Browsers \cup {NoBrowser}]
        /\ token' \in [Requests -> 0 .. MaxTokens]
    BY DEF SessionsInv, TypeOK, Start, Goto, Steps
  <2> QED
    BY <2>2, <2>3, <2>4 DEF SessionsInv, TypeOK, Start, database
<1>2. Private(r)
  BY DEF SessionsInv, TypeOK, Private, Start, Goto, database
<1>3. held'[r] = {} /\ minted'[r] = 0 /\ ~Minting(r)' /\ pc'[r] = step /\ job'[r] = j
  BY DEF SessionsInv, TypeOK, Start, Goto, StepsKeepTrack, Minting
<1>4. token'[r] # 0 => row'[token'[r]] # "none"
  BY DEF SessionsInv, TypeOK, Start, CookiesAreSaved, database
<1>5. StepsKeepTrack(r)' /\ RotationsHoldTheirToken(r)'
  BY <1>3, <1>4 DEF StepsKeepTrack, RotationsHoldTheirToken
<1>6. CookiesAreSaved'
  BY CookiesStay DEF Start, database
<1> QED
  BY <1>1, <1>2, <1>3, <1>5, <1>6, PrivateStep

-----------------------------------------------------------------------------
\* A request goes on without having minted anything.
LEMMA QuietStep ==
    ASSUME SessionsInv, NEW r \in Requests, Private(r), TypeOK', jar' = jar,
           token'[r] = token[r], minted'[r] = minted[r], minted[r] = 0,
           pc'[r] = "mint" => job'[r] = "login",
           pc'[r] # "track",
           pc'[r] \in {"commit", "reply"} => job'[r] \notin {"refresh", "login"},
           pc'[r] \in {"snapshot", "sweep", "range", "revoke"} => job'[r] \in Sweeping,
           held'[r] # {} => pc'[r] \in {"range", "revoke", "commit"},
           held'[r] \cap LockedByOthers(r) = {},
           \A n \in held'[r] : row[n] # "none"
    PROVE  SessionsInv'
<1>1. StepsKeepTrack(r)'
  BY DEF SessionsInv, TypeOK, Private, StepsKeepTrack, Sweeping
<1>2. RotationsHoldTheirToken(r)' /\ ~Minting(r)'
  BY DEF RotationsHoldTheirToken, Minting
<1>3. \A q \in Requests \ {r} : held[q] \cap held'[r] = {}
  BY DEF LockedByOthers
<1>4. CookiesAreSaved'
  BY CookiesStay DEF Private
<1> QED
  BY <1>1, <1>2, <1>3, <1>4, PrivateStep

LEMMA StepStart ==
    ASSUME SessionsInv, NEW r \in Requests, NEW b \in Browsers,
           \/ StartRefresh(r, b) \/ StartLogin(r, b) \/ StartLogout(r, b)
           \/ StartLogoutAll(r, b) \/ StartPassword(r, b)
    PROVE  SessionsInv'
<1>1. CASE StartRefresh(r, b)
  BY <1>1, StartStep DEF StartRefresh, Jobs
<1>2. CASE StartLogin(r, b)
  BY <1>2, StartStep DEF StartLogin, Jobs
<1>3. CASE StartLogout(r, b)
  BY <1>3, StartStep DEF StartLogout, Jobs
<1>4. CASE StartLogoutAll(r, b)
  BY <1>4, StartStep DEF StartLogoutAll, Jobs
<1>5. CASE StartPassword(r, b)
  BY <1>5, StartStep DEF StartPassword, Jobs, Sweeping
<1> QED
  BY <1>1, <1>2, <1>3, <1>4, <1>5

LEMMA StepReadToken ==
    ASSUME SessionsInv, NEW r \in Requests, ReadToken(r)
    PROVE  SessionsInv'
<1>1. CASE Leave(r)
  <2>1. CookiesAreSaved'
    BY CookiesStay DEF ReadToken, database
  <2> QED
    BY <1>1, <2>1, LeaveStep DEF ReadToken, SessionsInv, TypeOK, database, outside
<1>2. CASE /\ UNCHANGED <<from, token, held, minted, seen, overlap>>
           /\ \E j \in Jobs, step \in {"update", "mint", "snapshot", "reply"} :
                 /\ Goto(r, step)
                 /\ job' = [job EXCEPT ![r] = j]
                 /\ step = "mint" => j = "login"
                 /\ step = "reply" => j = "nothing"
                 /\ step = "snapshot" => j = "logoutAll"
  <2>1. PICK j \in Jobs, step \in {"update", "mint", "snapshot", "reply"} :
           /\ Goto(r, step)
           /\ job' = [job EXCEPT ![r] = j]
           /\ step = "mint" => j = "login"
           /\ step = "reply" => j = "nothing"
           /\ step = "snapshot" => j = "logoutAll"
    BY <1>2
  <2>2. TypeOK'
    BY <1>2, <2>1 DEF ReadToken, SessionsInv, TypeOK, Goto, Steps, database, outside
  <2>3. Private(r) /\ jar' = jar
    BY <1>2, <2>1 DEF ReadToken, SessionsInv, TypeOK, Private, Goto, database
  <2>4. minted[r] = 0 /\ held[r] = {}
    BY DEF ReadToken, SessionsInv, StepsKeepTrack
  <2>5. pc'[r] = step /\ job'[r] = j
    BY <2>1 DEF SessionsInv, TypeOK, Goto
  <2> QED
    BY <1>2, <2>1, <2>2, <2>3, <2>4, <2>5, QuietStep DEF Sweeping
<1> QED
  BY <1>1, <1>2 DEF ReadToken, Jobs

LEMMA StepRotate ==
    ASSUME SessionsInv, NEW r \in Requests, Rotate(r)
    PROVE  SessionsInv'
<1>1. minted[r] = 0 /\ held[r] = {}
  BY DEF Rotate, SessionsInv, StepsKeepTrack
<1>2. /\ token' = token /\ minted' = minted /\ jar' = jar /\ job' = job
      /\ job[r] = "refresh"
  BY DEF Rotate
<1>3. CookiesAreSaved'
  BY <1>2, CookiesStay DEF Rotate, database
<1>4. CASE token[r] \in Live
  <2>1. pc'[r] = "mint" /\ held'[r] = {token[r]} /\ row[token[r]] = "live"
    BY <1>4 DEF Rotate, SessionsInv, TypeOK, Goto, Live
  <2>2. TypeOK'
    BY <1>4 DEF Rotate, SessionsInv, TypeOK, Goto, Steps, Live, database, outside
  <2>3. Private(r)
    BY <1>4 DEF Rotate, SessionsInv, TypeOK, Private, Goto, database
  <2>4. row' = row
    BY <2>3 DEF Private
  <2>5. StepsKeepTrack(r)' /\ RotationsHoldTheirToken(r)' /\ ~Minting(r)'
    BY <1>1, <1>2, <2>1, <2>4 DEF StepsKeepTrack, RotationsHoldTheirToken, Minting
  <2>6. \A q \in Requests \ {r} : held[q] \cap held'[r] = {}
    BY <2>1 DEF Rotate, LockedByOthers
  <2> QED
    BY <1>3, <2>2, <2>3, <2>5, <2>6, PrivateStep
<1>5. CASE token[r] \notin Live
  <2>1. pc'[r] = "reread" /\ held' = held
    BY <1>5 DEF Rotate, SessionsInv, TypeOK, Goto
  <2>2. TypeOK'
    BY <1>5 DEF Rotate, SessionsInv, TypeOK, Goto, Steps, database, outside
  <2>3. Private(r)
    BY <1>5 DEF Rotate, SessionsInv, TypeOK, Private, Goto, database
  <2> QED
    BY <1>1, <1>2, <2>1, <2>2, <2>3, QuietStep
<1> QED
  BY <1>4, <1>5

LEMMA StepReread ==
    ASSUME SessionsInv, NEW r \in Requests, Reread(r)
    PROVE  SessionsInv'
<1>1. CASE Leave(r)
  <2>1. CookiesAreSaved'
    BY CookiesStay DEF Reread, database
  <2> QED
    BY <1>1, <2>1, LeaveStep DEF Reread, SessionsInv, TypeOK, database, outside
<1>2. CASE /\ Goto(r, "snapshot")
           /\ job' = [job EXCEPT ![r] = "wipe"]
           /\ overlap' = [overlap EXCEPT ![r] = BeingMinted]
           /\ UNCHANGED <<from, token, held, minted, seen>>
  <2>1. BeingMinted \subseteq Tokens
    BY DEF SessionsInv, TypeOK, BeingMinted, Tokens
  <2>2. TypeOK'
    BY <1>2, <2>1
    DEF Reread, SessionsInv, TypeOK, Goto, Steps, Jobs, database, outside
  <2>3. Private(r) /\ jar' = jar
    BY <1>2 DEF Reread, SessionsInv, TypeOK, Private, Goto, database
  <2>4. minted[r] = 0 /\ held[r] = {}
    BY DEF Reread, SessionsInv, StepsKeepTrack
  <2>5. pc'[r] = "snapshot" /\ job'[r] = "wipe"
    BY <1>2 DEF SessionsInv, TypeOK, Goto
  <2> QED
    BY <1>2, <2>2, <2>3, <2>4, <2>5, QuietStep DEF Sweeping
<1> QED
  BY <1>1, <1>2 DEF Reread

LEMMA StepMint ==
    ASSUME SessionsInv, NEW r \in Requests, Mint(r)
    PROVE  SessionsInv'
<1>1. CASE Leave(r) /\ UNCHANGED <<chain, last>>
  <2>1. CookiesAreSaved'
    BY CookiesStay DEF Mint
  <2> QED
    BY <1>1, <2>1, LeaveStep DEF Mint, SessionsInv, TypeOK, outside
<1>2. CASE /\ last' = last + 1
           /\ chain' = [chain EXCEPT ![last + 1] =
                           IF job[r] = "refresh" THEN chain[token[r]] ELSE last + 1]
           /\ minted' = [minted EXCEPT ![r] = last + 1]
           /\ overlap' = [u \in Requests |->
                 IF job[u] \in Ending THEN overlap[u] \cup {last + 1} ELSE overlap[u]]
           /\ Goto(r, "track")
           /\ UNCHANGED <<job, from, token, held, seen>>
  <2> DEFINE new == last + 1
  <2>1. /\ last \in Nat /\ new \in Tokens
        /\ row[new] = "none"
        /\ job[r] \in {"refresh", "login"} /\ minted[r] = 0
    <3>1. last \in Nat /\ new \in Tokens
      BY SessionsAssumption DEF Mint, SessionsInv, TypeOK, Tokens
    <3>2. row[new] = "none"
      BY <3>1 DEF SessionsInv, TokensHaveRoots
    <3>3. job[r] \in {"refresh", "login"} /\ minted[r] = 0
      BY DEF Mint, SessionsInv, StepsKeepTrack
    <3> QED
      BY <3>1, <3>2, <3>3
  <2>2. /\ minted'[r] = new /\ pc'[r] = "track"
        /\ row' = row /\ jar' = jar /\ job' = job /\ token' = token /\ held' = held
        /\ \A q \in Requests \ {r} : minted'[q] = minted[q] /\ pc'[q] = pc[q]
    BY <1>2 DEF Mint, SessionsInv, TypeOK, Goto
  <2>3. ASSUME job[r] = "refresh"
        PROVE  /\ token[r] \in 1 .. last
               /\ held[r] = {token[r]} /\ row[token[r]] = "live"
               /\ chain[token[r]] \in 1 .. last
               /\ row[chain[token[r]]] # "none"
    <3>1. held[r] = {token[r]} /\ row[token[r]] = "live"
      BY <2>3 DEF Mint, SessionsInv, RotationsHoldTheirToken
    <3>2. token[r] \in Tokens
      BY <3>1 DEF SessionsInv, TypeOK
    <3>3. token[r] <= last /\ chain[token[r]] \in 1 .. token[r]
          /\ row[chain[token[r]]] # "none"
      BY <3>1, <3>2 DEF SessionsInv, TokensHaveRoots
    <3> QED
      BY <2>1, <3>1, <3>2, <3>3 DEF Tokens
  <2>4. /\ chain'[new] = IF job[r] = "refresh" THEN chain[token[r]] ELSE new
        /\ chain'[new] \in 1 .. new
        /\ \A n \in Tokens \ {new} : chain'[n] = chain[n]
        /\ chain' \in [Tokens -> 0 .. MaxTokens]
    BY <1>2, <2>1, <2>3 DEF SessionsInv, TypeOK, Tokens
  <2>5. TypeOK'
    <3>1. overlap' \in [Requests -> SUBSET Tokens]
      BY <1>2, <2>1 DEF SessionsInv, TypeOK
    <3>2. last' \in 0 .. MaxTokens /\ minted' \in [Requests -> 0 .. MaxTokens]
      BY <1>2, <2>1 DEF SessionsInv, TypeOK, Tokens
    <3>3. pc' \in [Requests -> Steps \cup {"idle"}]
      BY <1>2 DEF SessionsInv, TypeOK, Goto, Steps
    <3> QED
      BY <1>2, <2>4, <3>1, <3>2, <3>3 DEF Mint, SessionsInv, TypeOK, outside
  <2>6. TokensHaveRoots'
    <3>1. ASSUME NEW n \in Tokens, n # new
          PROVE  /\ n > last' => row'[n] = "none" /\ chain'[n] = 0
                 /\ n <= last' => chain'[n] \in 1 .. n
                 /\ row'[n] # "none" => n <= last' /\ row'[chain'[n]] # "none"
      BY <1>2, <2>1, <2>2, <2>4, <3>1 DEF SessionsInv, TokensHaveRoots, Tokens
    <3>2. new <= last' /\ ~(new > last') /\ row'[new] = "none"
      BY <1>2, <2>1, <2>2
    <3> QED
      BY <2>4, <3>1, <3>2 DEF TokensHaveRoots, Tokens
  <2>7. OneLivePerSession' /\ CookiesAreSaved'
    BY <2>1, <2>2, <2>4
    DEF SessionsInv, OneLivePerSession, CookiesAreSaved, Live, Tokens
  <2>8. StepsKeepTrack(r)' /\ RotationsHoldTheirToken(r)'
    <3>1. StepsKeepTrack(r)'
      BY <2>1, <2>2 DEF Mint, SessionsInv, StepsKeepTrack, Tokens
    <3>2. job[r] = "refresh" => chain'[token[r]] = chain[token[r]]
      BY <2>1, <2>3, <2>4 DEF Tokens, SessionsInv, TypeOK
    <3> QED
      BY <1>2, <2>1, <2>2, <2>3, <2>4, <3>1, <3>2
      DEF RotationsHoldTheirToken, Minting
  <2>9. ASSUME NEW q \in Requests, q # r
        PROVE  StepsKeepTrack(q)' /\ RotationsHoldTheirToken(q)'
    <3>1. StepsKeepTrack(q)'
      BY <2>2, <2>9 DEF SessionsInv, StepsKeepTrack
    <3>2. Minting(q) => minted[q] \in 1 .. last
      BY <2>1 DEF SessionsInv, TypeOK, StepsKeepTrack, RotationsHoldTheirToken, Minting
    <3>3. job[q] = "refresh" /\ Minting(q) => token[q] \in Tokens /\ token[q] <= last
      BY DEF SessionsInv, TypeOK, RotationsHoldTheirToken, Minting, TokensHaveRoots
    <3>4. Minting(q) => /\ minted[q] \in Tokens \ {new}
                        /\ job[q] = "refresh" => token[q] \in Tokens \ {new}
      BY <2>1, <3>2, <3>3 DEF Tokens, SessionsInv, TypeOK
    <3>5. RotationsHoldTheirToken(q)'
      BY <1>2, <2>1, <2>2, <2>4, <2>9, <3>2, <3>4
      DEF SessionsInv, RotationsHoldTheirToken, Minting
    <3> QED
      BY <3>1, <3>5
  <2>10. RowsAreLockedOnce'
    <3>1. ASSUME NEW q \in Requests, q # r, Minting(q)
          PROVE  minted[q] # new
      BY <2>1, <3>1 DEF SessionsInv, RotationsHoldTheirToken
    <3> QED
      BY <2>2, <3>1 DEF SessionsInv, RowsAreLockedOnce, Minting
  <2> QED
    BY <2>5, <2>6, <2>7, <2>8, <2>9, <2>10 DEF SessionsInv
<1> QED
  BY <1>1, <1>2 DEF Mint

LEMMA StepTrack ==
    ASSUME SessionsInv, NEW r \in Requests, Track(r)
    PROVE  SessionsInv'
<1>1. minted[r] \in Tokens
  BY DEF Track, SessionsInv, TypeOK, StepsKeepTrack, Tokens
<1>2. TypeOK'
  BY <1>1 DEF Track, SessionsInv, TypeOK, Goto, Steps, database, outside
<1>3. Private(r)
  BY DEF Track, SessionsInv, TypeOK, Private, Goto, database
<1>4. pc'[r] = "commit" /\ UNCHANGED <<row, chain, last, jar, job, token, held, minted>>
  BY DEF Track, SessionsInv, TypeOK, Goto, database
<1>5. StepsKeepTrack(r)' /\ RotationsHoldTheirToken(r)' /\ Minting(r)
  BY <1>4 DEF Track, SessionsInv, StepsKeepTrack, RotationsHoldTheirToken, Minting
<1>6. \A q \in Requests \ {r} : held[q] \cap held'[r] = {}
  BY <1>4 DEF SessionsInv, RowsAreLockedOnce
<1>7. CookiesAreSaved'
  BY <1>4, CookiesStay
<1> QED
  BY <1>2, <1>3, <1>4, <1>5, <1>6, <1>7, PrivateStep

LEMMA StepRevokeSingle ==
    ASSUME SessionsInv, NEW r \in Requests, RevokeSingle(r)
    PROVE  SessionsInv'
<1>1. minted[r] = 0 /\ held[r] = {}
  BY DEF RevokeSingle, SessionsInv, StepsKeepTrack
<1>2. access' \in [Tokens -> {"none", "tracked", "revoked"}]
      /\ faults' \in 0 .. MaxFaults
  BY SessionsAssumption DEF RevokeSingle, SessionsInv, TypeOK, Fault
<1>3. TypeOK'
  BY <1>2 DEF RevokeSingle, SessionsInv, TypeOK, Goto, Steps, database, outside
<1>4. Private(r)
  BY DEF RevokeSingle, SessionsInv, TypeOK, Private, Goto, database
<1>5. pc'[r] = "read" /\ UNCHANGED <<jar, token, held, minted>>
  BY DEF RevokeSingle, SessionsInv, TypeOK, Goto
<1> QED
  BY <1>1, <1>3, <1>4, <1>5, QuietStep

LEMMA StepUpdateEnded ==
    ASSUME SessionsInv, NEW r \in Requests, UpdateEnded(r)
    PROVE  SessionsInv'
<1>1. CASE Leave(r)
  <2>1. CookiesAreSaved'
    BY CookiesStay DEF UpdateEnded, database
  <2> QED
    BY <1>1, <2>1, LeaveStep DEF UpdateEnded, SessionsInv, TypeOK, database, outside
<1>2. CASE /\ token[r] \in Stored
           /\ held' = [held EXCEPT ![r] = {token[r]}]
           /\ Goto(r, "commit")
           /\ UNCHANGED <<job, from, token, minted, seen, overlap>>
  <2>1. token[r] \in Tokens /\ row[token[r]] # "none"
    BY <1>2 DEF Stored
  <2>2. TypeOK'
    BY <1>2, <2>1 DEF UpdateEnded, SessionsInv, TypeOK, Goto, Steps, database, outside
  <2>3. Private(r)
    BY <1>2 DEF UpdateEnded, SessionsInv, TypeOK, Private, Goto, database
  <2>4. /\ pc'[r] = "commit" /\ job'[r] = "logout" /\ held'[r] = {token[r]}
        /\ minted[r] = 0
    BY <1>2 DEF UpdateEnded, SessionsInv, TypeOK, Goto, StepsKeepTrack
  <2>5. held'[r] \cap LockedByOthers(r) = {}
    BY <2>4 DEF UpdateEnded
  <2> QED
    BY <1>2, <2>1, <2>2, <2>3, <2>4, <2>5, QuietStep DEF UpdateEnded
<1> QED
  BY <1>1, <1>2 DEF UpdateEnded

LEMMA StepSnapshot ==
    ASSUME SessionsInv, NEW r \in Requests, Snapshot(r)
    PROVE  SessionsInv'
<1>1. minted[r] = 0 /\ held[r] = {} /\ job[r] \in Sweeping
  BY DEF Snapshot, SessionsInv, StepsKeepTrack
<1>2. TypeOK'
  BY DEF Snapshot, SessionsInv, TypeOK, Goto, Steps, Matching, Live, Stored,
         database, outside
<1>3. Private(r)
  BY DEF Snapshot, SessionsInv, TypeOK, Private, Goto, database
<1>4. pc'[r] = "sweep" /\ UNCHANGED <<jar, job, token, held, minted>>
  BY DEF Snapshot, SessionsInv, TypeOK, Goto
<1> QED
  BY <1>1, <1>2, <1>3, <1>4, QuietStep

LEMMA StepSweep ==
    ASSUME SessionsInv, NEW r \in Requests, Sweep(r)
    PROVE  SessionsInv'
<1>1. minted[r] = 0 /\ job[r] \in Sweeping
  BY DEF Sweep, SessionsInv, StepsKeepTrack
<1>2. \A n \in Matching(job[r]) : n \in Tokens /\ row[n] # "none"
  BY DEF Matching, Live, Stored
<1>3. TypeOK'
  BY <1>2 DEF Sweep, SessionsInv, TypeOK, Goto, Steps, database, outside
<1>4. Private(r)
  BY DEF Sweep, SessionsInv, TypeOK, Private, Goto, database
<1>5. /\ pc'[r] \in {"range", "commit"} /\ UNCHANGED <<jar, job, token, minted>>
      /\ held'[r] = seen[r] \cap Matching(job[r])
  BY DEF Sweep, SessionsInv, TypeOK, Goto
<1>6. held'[r] \cap LockedByOthers(r) = {} /\ \A n \in held'[r] : row[n] # "none"
  BY <1>2, <1>5 DEF Sweep
<1> QED
  BY <1>1, <1>3, <1>4, <1>5, <1>6, QuietStep DEF Sweeping

LEMMA StepRange ==
    ASSUME SessionsInv, NEW r \in Requests, Range(r)
    PROVE  SessionsInv'
<1>1. minted[r] = 0 /\ job[r] \in Sweeping
  BY DEF Range, SessionsInv, StepsKeepTrack
<1>2. TypeOK'
  BY DEF Range, SessionsInv, TypeOK, Goto, Steps, Tracked, database, outside
<1>3. Private(r)
  BY DEF Range, SessionsInv, TypeOK, Private, Goto, database
<1>4. pc'[r] = "revoke" /\ UNCHANGED <<jar, job, token, held, minted>>
  BY DEF Range, SessionsInv, TypeOK, Goto
<1>5. held[r] \cap LockedByOthers(r) = {}
  BY DEF SessionsInv, RowsAreLockedOnce, LockedByOthers
<1>6. \A n \in held[r] : row[n] # "none"
  BY DEF SessionsInv, StepsKeepTrack
<1> QED
  BY <1>1, <1>2, <1>3, <1>4, <1>5, <1>6, QuietStep

LEMMA StepRevoke ==
    ASSUME SessionsInv, NEW r \in Requests, Revoke(r)
    PROVE  SessionsInv'
<1>1. access' \in [Tokens -> {"none", "tracked", "revoked"}]
      /\ faults' \in 0 .. MaxFaults
  BY SessionsAssumption DEF Revoke, SessionsInv, TypeOK, Fault
<1>2. CASE Leave(r)
  <2>1. CookiesAreSaved'
    BY CookiesStay DEF Revoke, database
  <2> QED
    BY <1>1, <1>2, <2>1, LeaveStep
    DEF Revoke, SessionsInv, TypeOK, database, outside
<1>3. CASE /\ Goto(r, "commit")
           /\ seen' = [seen EXCEPT ![r] = {}]
           /\ UNCHANGED <<job, from, token, held, minted, overlap>>
  <2>1. minted[r] = 0 /\ job[r] \in Sweeping
    BY DEF Revoke, SessionsInv, StepsKeepTrack
  <2>2. TypeOK'
    BY <1>1, <1>3 DEF Revoke, SessionsInv, TypeOK, Goto, Steps, database, outside
  <2>3. Private(r) /\ jar' = jar
    BY <1>3 DEF Revoke, SessionsInv, TypeOK, Private, Goto, database
  <2>4. pc'[r] = "commit"
    BY <1>3 DEF SessionsInv, TypeOK, Goto
  <2>5. held[r] \cap LockedByOthers(r) = {}
    BY DEF SessionsInv, RowsAreLockedOnce, LockedByOthers
  <2>6. \A n \in held[r] : row[n] # "none"
    BY DEF SessionsInv, StepsKeepTrack
  <2> QED
    BY <1>3, <2>1, <2>2, <2>3, <2>4, <2>5, <2>6, QuietStep DEF Sweeping
<1> QED
  BY <1>2, <1>3 DEF Revoke

-----------------------------------------------------------------------------
\* Only the rows it holds and the one it has inserted change in a commit, and
\* none of them belongs to another request.
LEMMA CommitRows ==
    ASSUME SessionsInv, NEW r \in Requests, Commit(r)
    PROVE  /\ row' \in [Tokens -> RowStatus]
           /\ \A n \in held[r] : /\ n \in Tokens
                                 /\ row'[n] \notin {"none", "live"}
           /\ Minting(r) => minted[r] \in Tokens /\ row'[minted[r]] = "live"
           /\ \A n \in Tokens :
                 n \notin held[r] /\ ~(Minting(r) /\ n = minted[r]) => row'[n] = row[n]
           /\ \A n \in Tokens : row[n] # "none" => row'[n] # "none"
<1>1. \A n \in held[r] : n \in Tokens /\ row[n] # "none" /\ job[r] # "login"
  BY DEF SessionsInv, TypeOK, StepsKeepTrack
<1>2. \A n \in held[r] : Changed(r, n) \in RowStatus \ {"none", "live"}
  BY <1>1 DEF SessionsInv, TypeOK, Changed, RowStatus
<1>3. row' \in [Tokens -> RowStatus]
  BY <1>2 DEF Commit, Apply, SessionsInv, TypeOK, RowStatus
<1>4. minted[r] # 0 <=> Minting(r)
  BY DEF Commit, SessionsInv, StepsKeepTrack, Minting
<1>5. Minting(r) => minted[r] \in Tokens /\ row[minted[r]] = "none"
  BY <1>4 DEF SessionsInv, TypeOK, RotationsHoldTheirToken, Tokens
<1>6. \A n \in held[r] : n \in Tokens /\ row'[n] \notin {"none", "live"}
  BY <1>1, <1>2 DEF Commit, Apply
<1>7. Minting(r) => minted[r] \in Tokens /\ row'[minted[r]] = "live"
  BY <1>1, <1>5 DEF Commit, Apply
<1>8. \A n \in Tokens :
         n \notin held[r] /\ ~(Minting(r) /\ n = minted[r]) => row'[n] = row[n]
  BY <1>4 DEF Commit, Apply, Tokens
<1>9. \A n \in Tokens : row[n] # "none" => row'[n] # "none"
  BY <1>5, <1>6, <1>7, <1>8
<1> QED
  BY <1>3, <1>6, <1>7, <1>8, <1>9

LEMMA StepCommit ==
    ASSUME SessionsInv, NEW r \in Requests, Commit(r)
    PROVE  SessionsInv'
<1>1. /\ pc'[r] \in {"range", "reply"} /\ (pc'[r] = "range" => job[r] = "wipe")
      /\ UNCHANGED <<chain, last, jar, job, token, minted>>
      /\ held'[r] = {}
      /\ \A q \in Requests \ {r} : pc'[q] = pc[q] /\ held'[q] = held[q]
  BY DEF Commit, SessionsInv, TypeOK, Goto
<1>2. TypeOK'
  BY CommitRows DEF Commit, SessionsInv, TypeOK, Goto, Steps, outside
<1>3. TokensHaveRoots'
  <2>1. ASSUME NEW n \in Tokens
        PROVE  /\ n > last => row'[n] = "none" /\ chain[n] = 0
               /\ n <= last => chain[n] \in 1 .. n
               /\ row'[n] # "none" => n <= last /\ row'[chain[n]] # "none"
    <3>1. CASE Minting(r) /\ n = minted[r]
      <4>1. n <= last
        BY <3>1 DEF SessionsInv, RotationsHoldTheirToken
      <4>2. chain[n] \in 1 .. n /\ last \in 0 .. MaxTokens
        BY <4>1 DEF SessionsInv, TokensHaveRoots, TypeOK
      <4>3. row'[chain[n]] # "none"
        <5>1. CASE job[r] = "refresh"
          <6>1. token[r] \in Tokens /\ row[token[r]] # "none" /\ chain[n] = chain[token[r]]
            BY <3>1, <5>1
            DEF SessionsInv, TypeOK, RotationsHoldTheirToken, Minting
          <6>2. row[chain[n]] # "none"
            BY <6>1 DEF SessionsInv, TokensHaveRoots
          <6>3. chain[n] \in Tokens
            BY SessionsAssumption, <4>1, <4>2 DEF Tokens
          <6> QED
            BY <6>2, <6>3, CommitRows
        <5>2. CASE job[r] # "refresh"
          <6>1. chain[n] = n
            BY <3>1, <5>2 DEF SessionsInv, RotationsHoldTheirToken
          <6> QED
            BY <3>1, <6>1, CommitRows
        <5> QED
          BY <5>1, <5>2
      <4> QED
        BY <4>1, <4>2, <4>3 DEF Tokens
    <3>2. CASE ~(Minting(r) /\ n = minted[r])
      <4>1. row'[n] # "none" => row[n] # "none"
        BY <3>2, CommitRows DEF SessionsInv, StepsKeepTrack
      <4>2. row[n] # "none" => n <= last /\ chain[n] \in 1 .. n /\ row[chain[n]] # "none"
        BY DEF SessionsInv, TokensHaveRoots
      <4>3. chain[n] \in 1 .. n => chain[n] \in Tokens
        BY SessionsAssumption DEF Tokens
      <4>4. row[n] # "none" => row'[chain[n]] # "none"
        BY <4>2, <4>3, CommitRows
      <4> QED
        BY <4>1, <4>2, <4>4 DEF SessionsInv, TokensHaveRoots
    <3> QED
      BY <3>1, <3>2
  <2> QED
    BY <1>1, <2>1 DEF TokensHaveRoots
<1>4. ASSUME NEW q \in Requests, q # r
      PROVE  StepsKeepTrack(q)' /\ RotationsHoldTheirToken(q)'
  <2>1. \A n \in held[q] : n \in Tokens /\ row[n] # "none"
    BY DEF SessionsInv, TypeOK, StepsKeepTrack
  <2>2. \A n \in held[q] : row'[n] = row[n]
    <3>1. \A n \in held[q] : n \notin held[r]
      BY <1>4 DEF SessionsInv, RowsAreLockedOnce
    <3>2. Minting(r) => row[minted[r]] = "none"
      BY DEF SessionsInv, RotationsHoldTheirToken
    <3> QED
      BY <2>1, <3>1, <3>2, CommitRows
  <2>3. StepsKeepTrack(q)'
    <3>1. token[q] # 0 => row'[token[q]] # "none"
      <4>1. token[q] # 0 => token[q] \in Tokens /\ row[token[q]] # "none"
        BY DEF SessionsInv, TypeOK, StepsKeepTrack, Tokens
      <4> QED
        BY <4>1, CommitRows
    <3>2. pc[q] = "reply" /\ minted[q] # 0 => row'[minted[q]] # "none"
      <4>1. pc[q] = "reply" /\ minted[q] # 0 =>
               minted[q] \in Tokens /\ row[minted[q]] # "none"
        BY DEF SessionsInv, TypeOK, StepsKeepTrack, Tokens
      <4> QED
        BY <4>1, CommitRows
    <3> QED
      BY <1>1, <1>4, <2>1, <2>2, <3>1, <3>2 DEF SessionsInv, StepsKeepTrack
  <2>4. Minting(q) => row'[minted[q]] = "none"
    <3>1. Minting(q) => minted[q] \in Tokens /\ row[minted[q]] = "none"
      BY DEF SessionsInv, TypeOK, RotationsHoldTheirToken, StepsKeepTrack, Minting, Tokens
    <3>2. Minting(q) /\ Minting(r) => minted[q] # minted[r]
      BY <1>4 DEF SessionsInv, RowsAreLockedOnce
    <3>3. \A n \in held[r] : row[n] # "none"
      BY DEF SessionsInv, StepsKeepTrack
    <3> QED
      BY <3>1, <3>2, <3>3, CommitRows
  <2>5. RotationsHoldTheirToken(q)'
    BY <1>1, <1>4, <2>2, <2>4 DEF SessionsInv, RotationsHoldTheirToken, Minting
  <2> QED
    BY <2>3, <2>5
<1>5. StepsKeepTrack(r)' /\ RotationsHoldTheirToken(r)' /\ ~Minting(r)'
  <2>1. token[r] # 0 => row'[token[r]] # "none"
    <3>1. token[r] # 0 => token[r] \in Tokens /\ row[token[r]] # "none"
      BY DEF SessionsInv, TypeOK, StepsKeepTrack, Tokens
    <3> QED
      BY <3>1, CommitRows
  <2>2. minted[r] # 0 <=> Minting(r)
    BY DEF Commit, SessionsInv, StepsKeepTrack, Minting
  <2>3. pc'[r] = "reply" <=> job[r] # "wipe"
    BY <1>1 DEF Commit, SessionsInv, TypeOK, Goto
  <2>4. Minting(r) <=> job[r] \in {"refresh", "login"}
    BY DEF Commit, Minting
  <2>5. StepsKeepTrack(r)'
    BY <1>1, <2>1, <2>2, <2>3, <2>4, CommitRows DEF StepsKeepTrack, Sweeping
  <2> QED
    BY <1>1, <2>5 DEF RotationsHoldTheirToken, Minting
<1>6. RowsAreLockedOnce'
  BY <1>1, <1>5 DEF SessionsInv, RowsAreLockedOnce, Minting
<1>7. CookiesAreSaved'
  <2>1. \A b \in Browsers : jar[b] # 0 => jar[b] \in Tokens /\ row[jar[b]] # "none"
    BY DEF SessionsInv, CookiesAreSaved, TypeOK, Tokens
  <2>2. \A n \in Tokens : row[n] # "none" => row'[n] # "none"
    BY CommitRows
  <2>3. jar' = jar
    BY <1>1
  <2> QED
    BY <2>1, <2>2, <2>3 DEF CookiesAreSaved
<1>8. OneLivePerSession'
  <2>1. ASSUME Minting(r), NEW n \in Tokens, n # minted[r], row'[n] = "live"
        PROVE  chain[n] # chain[minted[r]]
    <3>1. n \notin held[r] /\ row[n] = "live"
      BY <2>1, CommitRows
    <3>2. CASE job[r] = "refresh"
      <4>1. /\ held[r] = {token[r]} /\ row[token[r]] = "live"
            /\ chain[minted[r]] = chain[token[r]]
        BY <2>1, <3>2 DEF Commit, SessionsInv, RotationsHoldTheirToken
      <4>2. token[r] \in Live /\ n \in Live /\ n # token[r]
        BY <3>1, <4>1 DEF SessionsInv, TypeOK, Live
      <4> QED
        BY <4>1, <4>2 DEF SessionsInv, OneLivePerSession
    <3>3. CASE job[r] # "refresh"
      <4>1. chain[minted[r]] = minted[r] /\ row[minted[r]] = "none"
        BY <2>1, <3>3 DEF SessionsInv, RotationsHoldTheirToken
      <4>2. row[chain[n]] # "none"
        BY <3>1 DEF SessionsInv, TokensHaveRoots
      <4> QED
        BY <4>1, <4>2
    <3> QED
      BY <3>2, <3>3
  <2>2. ASSUME NEW n \in Tokens, row'[n] = "live", ~(Minting(r) /\ n = minted[r])
        PROVE  n \in Live
    BY <2>2, CommitRows DEF Live
  <2>3. ASSUME NEW m \in Tokens, NEW n \in Tokens, row'[m] = "live", row'[n] = "live",
               chain[m] = chain[n]
        PROVE  m = n
    BY <2>1, <2>2, <2>3 DEF SessionsInv, OneLivePerSession
  <2> QED
    BY <1>1, <2>3 DEF OneLivePerSession, Live
<1> QED
  BY <1>2, <1>3, <1>4, <1>5, <1>6, <1>7, <1>8 DEF SessionsInv

-----------------------------------------------------------------------------
LEMMA StepReply ==
    ASSUME SessionsInv, NEW r \in Requests, Reply(r)
    PROVE  SessionsInv'
<1>1. ASSUME NEW b \in Browsers
      PROVE  jar'[b] = jar[b] \/ jar'[b] \in {0, minted[r]}
  BY DEF Reply, SessionsInv, TypeOK
<1>2. jar' \in [Browsers -> 0 .. MaxTokens]
  <2>1. /\ minted[r] \in 0 .. MaxTokens
        /\ 0 \in 0 .. MaxTokens
        /\ \A b \in Browsers : jar[b] \in 0 .. MaxTokens
    BY SessionsAssumption DEF SessionsInv, TypeOK
  <2>2. \A b \in Browsers : jar'[b] \in 0 .. MaxTokens
    BY <1>1, <2>1
  <2>3. jar' = [b \in Browsers |-> jar'[b]]
    BY DEF Reply, SessionsInv, TypeOK
  <2> QED
    BY <2>2, <2>3
<1>3. minted[r] # 0 => row[minted[r]] # "none"
  BY DEF Reply, SessionsInv, StepsKeepTrack
<1>4. CookiesAreSaved'
  BY <1>1, <1>3 DEF Reply, SessionsInv, CookiesAreSaved, database
<1> QED
  BY <1>2, <1>4, LeaveStep DEF Reply, SessionsInv, TypeOK, database, outside

LEMMA StepBreak ==
    ASSUME SessionsInv, NEW r \in Requests, LoseReply(r) \/ Fail(r)
    PROVE  SessionsInv'
<1>1. /\ Leave(r) /\ Fault /\ UNCHANGED <<row, chain, last, expired, access, jar>>
      /\ calm' \in BOOLEAN
  BY DEF LoseReply, Fail, SessionsInv, TypeOK, database, outside
<1>2. faults' \in 0 .. MaxFaults
  BY <1>1, SessionsAssumption DEF Fault, SessionsInv, TypeOK
<1>3. CookiesAreSaved'
  BY <1>1, CookiesStay
<1> QED
  BY <1>1, <1>2, <1>3, LeaveStep DEF SessionsInv, TypeOK

\* Time and the cleanup task change no live row that a transaction holds, and
\* bring none to life.
LEMMA TimeStep ==
    ASSUME SessionsInv, TypeOK',
           UNCHANGED <<chain, last, jar, pc, job, token, held, minted>>,
           \A n \in Tokens :
              \/ row'[n] = row[n]
              \/ /\ row[n] # "none" /\ row'[n] \notin {"none", "live"}
                 /\ row[n] = "live" => \A r \in Requests : n \notin held[r]
    PROVE  SessionsInv'
<1>1. \A n \in Tokens : row[n] = "none" <=> row'[n] = "none"
  OBVIOUS
<1>2. TokensHaveRoots'
  <2>1. \A n \in Tokens : chain[n] # 0 => chain[n] \in Tokens
    BY SessionsAssumption DEF SessionsInv, TypeOK, Tokens
  <2>2. 0 \notin Tokens
    BY DEF Tokens
  <2>3. ASSUME NEW n \in Tokens
        PROVE  /\ n > last => row'[n] = "none" /\ chain[n] = 0
               /\ n <= last => chain[n] \in 1 .. n
               /\ row'[n] # "none" => n <= last /\ row'[chain[n]] # "none"
    <3>1. row[n] # "none" => chain[n] \in 1 .. n
      BY DEF SessionsInv, TokensHaveRoots
    <3>2. row[n] # "none" => chain[n] \in Tokens
      BY <2>1, <3>1
    <3> QED
      BY <1>1, <3>2 DEF SessionsInv, TokensHaveRoots
  <2> QED
    BY <2>3 DEF TokensHaveRoots
<1>3. ASSUME NEW r \in Requests
      PROVE  StepsKeepTrack(r)' /\ RotationsHoldTheirToken(r)'
  <2>1. \A n \in held[r] : n \in Tokens /\ (row[n] = "live" => row'[n] = row[n])
    BY DEF SessionsInv, TypeOK
  <2>2. /\ token[r] # 0 => token[r] \in Tokens
        /\ minted[r] # 0 => minted[r] \in Tokens
    BY DEF SessionsInv, TypeOK, Tokens
  <2>3. StepsKeepTrack(r)'
    BY <1>1, <2>1, <2>2 DEF SessionsInv, StepsKeepTrack
  <2>4. Minting(r) => minted[r] # 0
    BY DEF SessionsInv, StepsKeepTrack, Minting
  <2>5. RotationsHoldTheirToken(r)'
    BY <1>1, <2>1, <2>2, <2>4 DEF SessionsInv, RotationsHoldTheirToken, Minting
  <2> QED
    BY <2>3, <2>5
<1>4. RowsAreLockedOnce' /\ OneLivePerSession'
  BY DEF SessionsInv, RowsAreLockedOnce, OneLivePerSession, Minting, Live
<1>5. CookiesAreSaved'
  BY <1>1 DEF SessionsInv, CookiesAreSaved, TypeOK, Tokens
<1> QED
  BY <1>2, <1>3, <1>4, <1>5 DEF SessionsInv

LEMMA StepGraceEnds ==
    ASSUME SessionsInv, NEW n \in Tokens, GraceEnds(n)
    PROVE  SessionsInv'
<1>1. TypeOK'
  BY DEF GraceEnds, SessionsInv, TypeOK, RowStatus, outside, request
<1>2. \A m \in Tokens : \/ row'[m] = row[m]
                        \/ row[m] = "rotated" /\ row'[m] = "aged"
  BY DEF GraceEnds, SessionsInv, TypeOK
<1> QED
  BY <1>1, <1>2, TimeStep DEF GraceEnds, request

LEMMA StepExpire ==
    ASSUME SessionsInv, NEW c \in Tokens, Expire(c)
    PROVE  SessionsInv'
<1>1. faults' \in 0 .. MaxFaults
  BY SessionsAssumption DEF Expire, Fault, SessionsInv, TypeOK
<1>2. TypeOK'
  BY <1>1 DEF Expire, SessionsInv, TypeOK, database, request
<1> QED
  BY <1>2, TimeStep DEF Expire, database, request

LEMMA StepCleanUp ==
    ASSUME SessionsInv, CleanUp
    PROVE  SessionsInv'
<1> DEFINE old == {n \in Stored : chain[n] \in expired}
<1>1. TypeOK'
  BY DEF CleanUp, SessionsInv, TypeOK, RowStatus, outside, request
<1>2. \A n \in Tokens : \/ row'[n] = row[n]
                        \/ /\ n \in old /\ row[n] # "none" /\ row'[n] = "deleted"
                           /\ \A r \in Requests : n \notin held[r]
  BY DEF CleanUp, Stored
<1> QED
  BY <1>1, <1>2, TimeStep DEF CleanUp, request

-----------------------------------------------------------------------------
LEMMA NextInv == SessionsInv /\ [Next]_vars => SessionsInv'
<1> SUFFICES ASSUME SessionsInv, [Next]_vars PROVE SessionsInv'
  OBVIOUS
<1>1. ASSUME NEW r \in Requests, RequestStep(r)
      PROVE  SessionsInv'
  BY <1>1, StepReadToken, StepRotate, StepReread, StepMint, StepTrack,
     StepRevokeSingle, StepUpdateEnded, StepSnapshot, StepSweep, StepRange,
     StepRevoke, StepCommit, StepReply, StepBreak
  DEF RequestStep
<1>2. CASE UNCHANGED vars
  BY <1>2
  DEF vars, SessionsInv, TypeOK, TokensHaveRoots, StepsKeepTrack,
      RotationsHoldTheirToken, RowsAreLockedOnce, OneLivePerSession,
      CookiesAreSaved, Minting, Live
<1>3. CASE Next
  BY <1>1, <1>3, StepStart, StepGraceEnds, StepExpire, StepCleanUp DEF Next
<1> QED
  BY <1>2, <1>3

-----------------------------------------------------------------------------
\* Whatever requests race, fail or lose their response, each transaction's
\* locks and rows are in step with where its request is.
THEOREM SessionsInvariant == Spec => []SessionsInv
BY InitInv, NextInv, PTL DEF Spec

\* Single use (JWTService.refresh_service): however many tabs refresh a
\* session at once, one refresh token of it works.
THEOREM OneLive == Spec => []OneLivePerSession
<1>1. SessionsInv => OneLivePerSession
  BY DEF SessionsInv
<1> QED
  BY <1>1, SessionsInvariant, PTL

\* The commit comes before the response (get_db, scope="function"): a browser
\* never has a refresh token that the database does not know.
THEOREM CookiesSaved == Spec => []CookiesAreSaved
<1>1. SessionsInv => CookiesAreSaved
  BY DEF SessionsInv
<1> QED
  BY <1>1, SessionsInvariant, PTL
-----------------------------------------------------------------------------
(* What a request that ends sessions has yet to end.  The exceptions of      *)
(* EveryoneIsOut and LogoutEndsSession are the tokens in its overlap.        *)

\* A job that ends sessions knows of every token being minted.
SeesMints(r) == job[r] \in Ending => BeingMinted \subseteq overlap[r]

\* What still works is found by the statement, then locked; the access tokens
\* are found by the range query, then revoked.
EndsEveryone(r) ==
    job[r] \in {"logoutAll", "password"} =>
        /\ pc[r] = "sweep" => Live \subseteq overlap[r] \cup seen[r]
        /\ pc[r] \in {"range", "revoke", "commit"} =>
              Live \subseteq overlap[r] \cup held[r]
        /\ pc[r] = "revoke" => Tracked \subseteq overlap[r] \cup seen[r]
        /\ pc[r] = "commit" => Tracked \subseteq overlap[r]

\* A logout has read its token alive: by OneLivePerSession it is the login's
\* only one, but for those minted since.
EndsItsOwn(r) ==
    job[r] = "logout" /\ pc[r] \in {"update", "commit"} =>
        /\ token[r] \in Tokens
        /\ pc[r] = "commit" => held[r] = {token[r]}
        /\ \A n \in Live : chain[n] = chain[token[r]] => n \in overlap[r] \cup {token[r]}

EndingInv == \A r \in Requests : SeesMints(r) /\ EndsEveryone(r) /\ EndsItsOwn(r)

\* Only what is being minted comes to work.
Grows ==
    /\ Live' \subseteq Live \cup BeingMinted
    /\ Tracked' \subseteq Tracked \cup BeingMinted
    /\ \A n \in Tokens : n <= last => chain'[n] = chain[n]

\* The step is not r's, and r hears of the token it mints.
Aside(r) ==
    /\ pc'[r] = pc[r]
    /\ job'[r] = job[r]
    /\ token'[r] = token[r]
    /\ held'[r] = held[r]
    /\ seen'[r] = seen[r]
    /\ job[r] \in Ending => /\ overlap[r] \subseteq overlap'[r]
                            /\ BeingMinted' \subseteq BeingMinted \cup overlap'[r]

\* A step of another request, or time, does not bring to life what r has to end.
LEMMA AsideStep ==
    ASSUME SessionsInv, NEW r \in Requests, Grows, Aside(r),
           SeesMints(r), EndsEveryone(r), EndsItsOwn(r)
    PROVE  SeesMints(r)' /\ EndsEveryone(r)' /\ EndsItsOwn(r)'
<1>1. SeesMints(r)'
  BY DEF Aside, SeesMints
<1>2. EndsEveryone(r)'
  <2>1. job[r] \in {"logoutAll", "password"} => job[r] \in Ending
    BY DEF Ending, Sweeping
  <2> QED
    BY <2>1 DEF Aside, Grows, SeesMints, EndsEveryone
<1>3. EndsItsOwn(r)'
  <2> SUFFICES ASSUME job[r] = "logout", pc[r] \in {"update", "commit"}
               PROVE  /\ \A n \in Live' : chain'[n] = chain'[token[r]] =>
                            n \in overlap'[r] \cup {token[r]}
    BY DEF Aside, EndsItsOwn
  <2>1. job[r] \in Ending
    BY DEF Ending
  <2>2. token[r] \in Tokens /\ token[r] <= last
    <3>1. token[r] \in Tokens /\ token[r] # 0
      BY DEF EndsItsOwn, Tokens
    <3>2. row[token[r]] # "none"
      BY <3>1 DEF SessionsInv, StepsKeepTrack
    <3> QED
      BY <3>1, <3>2 DEF SessionsInv, TokensHaveRoots
  <2>3. ASSUME NEW n \in Live', chain'[n] = chain'[token[r]]
        PROVE  n \in overlap'[r] \cup {token[r]}
    <3>1. CASE n \in BeingMinted
      BY <2>1, <3>1 DEF Aside, SeesMints
    <3>2. CASE n \in Live
      <4>1. n \in Tokens /\ n <= last
        BY <3>2 DEF SessionsInv, TokensHaveRoots, Live
      <4>2. chain[n] = chain[token[r]]
        BY <2>2, <2>3, <4>1 DEF Grows
      <4> QED
        BY <2>1, <3>2, <4>2 DEF Aside, EndsItsOwn
    <3> QED
      BY <3>1, <3>2 DEF Grows
  <2> QED
    BY <2>3
<1> QED
  BY <1>1, <1>2, <1>3

\* A request that ends is no bystander's business.
LEMMA LeaveAside ==
    ASSUME SessionsInv, NEW u \in Requests, Leave(u)
    PROVE  /\ BeingMinted' \subseteq BeingMinted
           /\ \A r \in Requests \ {u} : Aside(r)
<1>1. BeingMinted' \subseteq BeingMinted
  BY DEF Leave, BeingMinted, SessionsInv, TypeOK
<1> QED
  BY <1>1 DEF Leave, Goto, Aside, SessionsInv, TypeOK

\* What a step of request u does to the tokens and to the other requests.
LEMMA QuietGrowth ==
    ASSUME SessionsInv, NEW u \in Requests,
           row' = row, chain' = chain, \A n \in Tokens : access'[n] \in {access[n], "revoked"},
           BeingMinted' \subseteq BeingMinted, \A r \in Requests \ {u} : Aside(r)
    PROVE  Grows /\ \A r \in Requests \ {u} : Aside(r)
BY DEF Grows, Live, Tracked

LEMMA StartGrowth ==
    ASSUME SessionsInv, NEW u \in Requests, NEW b \in Browsers, NEW j, NEW step,
           Start(u, b, j, step)
    PROVE  Grows /\ \A r \in Requests \ {u} : Aside(r)
<1>1. BeingMinted' \subseteq BeingMinted /\ row' = row /\ chain' = chain
      /\ access' = access
  BY DEF Start, BeingMinted, database
<1>2. \A r \in Requests \ {u} : Aside(r)
  BY <1>1 DEF Start, Goto, Aside, SessionsInv, TypeOK
<1> QED
  BY <1>1, <1>2, QuietGrowth

LEMMA MintGrowth ==
    ASSUME SessionsInv, NEW u \in Requests, Mint(u)
    PROVE  Grows /\ \A r \in Requests \ {u} : Aside(r)
<1>1. CASE Leave(u) /\ UNCHANGED <<chain, last>>
  BY <1>1, LeaveAside, QuietGrowth DEF Mint
<1>2. CASE ~(Leave(u) /\ UNCHANGED <<chain, last>>)
  <2>1. /\ chain' = [chain EXCEPT ![last + 1] =
                        IF job[u] = "refresh" THEN chain[token[u]] ELSE last + 1]
        /\ minted' = [minted EXCEPT ![u] = last + 1]
        /\ overlap' = [q \in Requests |->
              IF job[q] \in Ending THEN overlap[q] \cup {last + 1} ELSE overlap[q]]
        /\ Goto(u, "track")
        /\ UNCHANGED <<job, from, token, held, seen>>
        /\ UNCHANGED <<row, access>>
    BY <1>2 DEF Mint
  <2>2. BeingMinted' \subseteq BeingMinted \cup {last + 1}
    BY <2>1 DEF BeingMinted, SessionsInv, TypeOK
  <2>3. \A r \in Requests \ {u} : Aside(r)
    BY <2>1, <2>2 DEF Goto, Aside, SessionsInv, TypeOK
  <2>4. \A n \in Tokens : n <= last => chain'[n] = chain[n]
    BY <2>1 DEF SessionsInv, TypeOK, Tokens
  <2> QED
    BY <2>1, <2>3, <2>4 DEF Grows, Live, Tracked
<1> QED
  BY <1>1, <1>2

LEMMA TrackGrowth ==
    ASSUME SessionsInv, NEW u \in Requests, Track(u)
    PROVE  Grows /\ \A r \in Requests \ {u} : Aside(r)
<1>1. BeingMinted' \subseteq BeingMinted
  BY DEF Track, BeingMinted
<1>2. \A r \in Requests \ {u} : Aside(r)
  BY <1>1 DEF Track, Goto, Aside, SessionsInv, TypeOK
<1>3. minted[u] \in BeingMinted
  BY DEF Track, SessionsInv, StepsKeepTrack, BeingMinted
<1>4. \A n \in Tokens : access'[n] = "tracked" => access[n] = "tracked" \/ n = minted[u]
  BY DEF Track, SessionsInv, TypeOK
<1> QED
  BY <1>2, <1>3, <1>4 DEF Track, Grows, Live, Tracked, database

LEMMA CommitGrowth ==
    ASSUME SessionsInv, NEW u \in Requests, Commit(u)
    PROVE  Grows /\ \A r \in Requests \ {u} : Aside(r)
<1>1. BeingMinted' \subseteq BeingMinted
  BY DEF Commit, BeingMinted
<1>2. \A r \in Requests \ {u} : Aside(r)
  BY <1>1 DEF Commit, Goto, Aside, SessionsInv, TypeOK
<1>3. Minting(u) => minted[u] \in BeingMinted
  BY DEF SessionsInv, StepsKeepTrack, Minting, BeingMinted
<1>4. Live' \subseteq Live \cup BeingMinted
  BY <1>3, CommitRows DEF Live
<1> QED
  BY <1>2, <1>4 DEF Commit, Grows, Tracked

LEMMA RequestGrowth ==
    ASSUME SessionsInv, NEW u \in Requests, RequestStep(u)
    PROVE  Grows /\ \A r \in Requests \ {u} : Aside(r)
<1>1. CASE Leave(u) /\ UNCHANGED <<row, chain, access>>
  BY <1>1, LeaveAside, QuietGrowth
<1>2. CASE Revoke(u)
  <2>1. BeingMinted' \subseteq BeingMinted /\ \A r \in Requests \ {u} : Aside(r)
    <3>1. CASE Leave(u)
      BY <3>1, LeaveAside
    <3>2. CASE ~Leave(u)
      <4>1. BeingMinted' \subseteq BeingMinted
        BY <1>2, <3>2 DEF Revoke, BeingMinted
      <4> QED
        BY <1>2, <3>2, <4>1 DEF Revoke, Goto, Aside, SessionsInv, TypeOK
    <3> QED
      BY <3>1, <3>2
  <2>2. \A n \in Tokens : access'[n] \in {access[n], "revoked"}
    BY <1>2 DEF Revoke
  <2> QED
    BY <1>2, <2>1, <2>2, QuietGrowth DEF Revoke, database
<1>3. CASE RevokeSingle(u)
  <2>1. BeingMinted' \subseteq BeingMinted
    BY <1>3 DEF RevokeSingle, BeingMinted
  <2>2. \A r \in Requests \ {u} : Aside(r)
    BY <1>3, <2>1 DEF RevokeSingle, Goto, Aside, SessionsInv, TypeOK
  <2>3. \A n \in Tokens : access'[n] \in {access[n], "revoked"}
    BY <1>3 DEF RevokeSingle, SessionsInv, TypeOK
  <2> QED
    BY <1>3, <2>1, <2>2, <2>3, QuietGrowth DEF RevokeSingle, database
<1>4. CASE /\ ~Leave(u)
           /\ \/ ReadToken(u) \/ Rotate(u) \/ Reread(u) \/ UpdateEnded(u)
              \/ Snapshot(u) \/ Sweep(u) \/ Range(u)
  <2>1. BeingMinted' \subseteq BeingMinted /\ UNCHANGED <<row, chain, access>>
    BY <1>4 DEF ReadToken, Rotate, Reread, UpdateEnded, Snapshot, Sweep, Range,
                BeingMinted, database
  <2>2. \A r \in Requests \ {u} : Aside(r)
    BY <1>4, <2>1 DEF ReadToken, Rotate, Reread, UpdateEnded, Snapshot, Sweep, Range,
                      Goto, Aside, SessionsInv, TypeOK
  <2> QED
    BY <2>1, <2>2, QuietGrowth
<1>5. CASE Reply(u) \/ LoseReply(u) \/ Fail(u)
  BY <1>1, <1>5 DEF Reply, LoseReply, Fail, database
<1>6. CASE /\ Leave(u)
           /\ \/ ReadToken(u) \/ Rotate(u) \/ Reread(u) \/ UpdateEnded(u)
              \/ Snapshot(u) \/ Sweep(u) \/ Range(u)
  BY <1>1, <1>6 DEF ReadToken, Rotate, Reread, UpdateEnded, Snapshot, Sweep, Range,
                    database
<1> QED
  BY <1>2, <1>3, <1>4, <1>5, <1>6, MintGrowth, TrackGrowth, CommitGrowth
  DEF RequestStep

\* Time brings nothing to life, and no request takes a step.
LEMMA TimeGrowth ==
    ASSUME SessionsInv, (\E n \in Tokens : GraceEnds(n)) \/ (\E c \in Tokens : Expire(c))
                        \/ CleanUp \/ UNCHANGED vars
    PROVE  Grows /\ \A r \in Requests : Aside(r)
<1>1. /\ UNCHANGED <<chain, access, pc, job, token, held, minted, seen, overlap>>
      /\ \A n \in Tokens : row'[n] = "live" => row[n] = "live"
  BY DEF GraceEnds, Expire, CleanUp, SessionsInv, TypeOK, database, outside, request,
         vars
<1>2. BeingMinted' = BeingMinted
  BY <1>1 DEF BeingMinted
<1> QED
  BY <1>1, <1>2 DEF Grows, Aside, Live, Tracked

-----------------------------------------------------------------------------
\* r's own steps.  A request that has left, or does not end sessions, has
\* nothing to end.
LEMMA NothingToEnd ==
    ASSUME NEW r \in Requests, job'[r] \notin Ending
    PROVE  SeesMints(r)' /\ EndsEveryone(r)' /\ EndsItsOwn(r)'
BY DEF SeesMints, EndsEveryone, EndsItsOwn, Ending, Sweeping

LEMMA LeaveEnds ==
    ASSUME SessionsInv, NEW r \in Requests, Leave(r)
    PROVE  SeesMints(r)' /\ EndsEveryone(r)' /\ EndsItsOwn(r)'
<1>1. job'[r] = "none"
  BY DEF Leave, SessionsInv, TypeOK
<1> QED
  BY <1>1, NothingToEnd DEF Ending, Sweeping

LEMMA StartEnds ==
    ASSUME SessionsInv, NEW r \in Requests, NEW b \in Browsers,
           NEW j \in Jobs, NEW step \in {"single", "read", "snapshot"},
           Start(r, b, j, step)
    PROVE  SeesMints(r)' /\ EndsEveryone(r)' /\ EndsItsOwn(r)'
<1>1. /\ pc'[r] = step /\ job'[r] = j
      /\ j \in Ending => overlap'[r] = BeingMinted
      /\ BeingMinted' = BeingMinted
  BY DEF Start, Goto, BeingMinted, SessionsInv, TypeOK
<1> QED
  BY <1>1 DEF SeesMints, EndsEveryone, EndsItsOwn

\* The steps before anything is found.
LEMMA ReadEnds ==
    ASSUME SessionsInv, NEW r \in Requests, SeesMints(r),
           ReadToken(r) \/ RevokeSingle(r) \/ Rotate(r)
    PROVE  SeesMints(r)' /\ EndsEveryone(r)' /\ EndsItsOwn(r)'
<1>1. CASE Leave(r)
  BY <1>1, LeaveEnds
<1>2. CASE ReadToken(r) /\ ~Leave(r)
  <2>1. /\ UNCHANGED <<row, chain, token, minted, overlap>>
        /\ job'[r] \in {job[r], "nothing"}
        /\ pc'[r] \in {"update", "mint", "snapshot", "reply"}
        /\ job'[r] = "logout" /\ pc'[r] \in {"update", "commit"} =>
              pc'[r] = "update" /\ token[r] \in Live
    BY <1>2 DEF ReadToken, Goto, SessionsInv, TypeOK, database
  <2>2. SeesMints(r)'
    BY <2>1 DEF SeesMints, BeingMinted, Ending, Sweeping
  <2>3. EndsEveryone(r)'
    BY <2>1 DEF EndsEveryone
  <2>4. EndsItsOwn(r)'
    BY <2>1 DEF EndsItsOwn, SessionsInv, OneLivePerSession, Live
  <2> QED
    BY <2>2, <2>3, <2>4
<1>3. CASE RevokeSingle(r)
  <2>1. pc'[r] = "read" /\ UNCHANGED <<job, minted, overlap>>
    BY <1>3 DEF RevokeSingle, Goto, SessionsInv, TypeOK
  <2> QED
    BY <2>1 DEF SeesMints, EndsEveryone, EndsItsOwn, BeingMinted
<1>4. CASE Rotate(r)
  BY <1>4, NothingToEnd DEF Rotate, Ending, Sweeping
<1> QED
  BY <1>1, <1>2, <1>3, <1>4

LEMMA RereadEnds ==
    ASSUME SessionsInv, NEW r \in Requests, Reread(r)
    PROVE  SeesMints(r)' /\ EndsEveryone(r)' /\ EndsItsOwn(r)'
<1>1. CASE Leave(r)
  BY <1>1, LeaveEnds
<1>2. CASE ~Leave(r)
  <2>1. job'[r] = "wipe" /\ overlap'[r] = BeingMinted /\ BeingMinted' = BeingMinted
    BY <1>2 DEF Reread, BeingMinted, SessionsInv, TypeOK
  <2> QED
    BY <2>1 DEF SeesMints, EndsEveryone, EndsItsOwn
<1> QED
  BY <1>1, <1>2

\* Only a refresh or a login mints, and it ends nothing.
LEMMA MintEnds ==
    ASSUME SessionsInv, NEW r \in Requests, Mint(r) \/ Track(r)
    PROVE  SeesMints(r)' /\ EndsEveryone(r)' /\ EndsItsOwn(r)'
<1>1. CASE Leave(r)
  BY <1>1, LeaveEnds
<1>2. CASE ~Leave(r)
  <2>1. job'[r] = job[r] /\ job[r] \in {"refresh", "login"}
    BY <1>2 DEF Mint, Track, SessionsInv, StepsKeepTrack
  <2> QED
    BY <2>1, NothingToEnd DEF Ending, Sweeping
<1> QED
  BY <1>1, <1>2

LEMMA UpdateEnds ==
    ASSUME SessionsInv, NEW r \in Requests, UpdateEnded(r), SeesMints(r), EndsItsOwn(r)
    PROVE  SeesMints(r)' /\ EndsEveryone(r)' /\ EndsItsOwn(r)'
<1>1. CASE Leave(r)
  BY <1>1, LeaveEnds
<1>2. CASE ~Leave(r)
  <2>1. /\ pc[r] = "update" /\ job[r] = "logout"
        /\ pc'[r] = "commit" /\ held'[r] = {token[r]}
        /\ UNCHANGED <<row, chain, job, token, minted, overlap>>
    BY <1>2 DEF UpdateEnded, Goto, SessionsInv, TypeOK, database
  <2>2. SeesMints(r)' /\ EndsEveryone(r)'
    BY <2>1 DEF SeesMints, EndsEveryone, BeingMinted
  <2>3. EndsItsOwn(r)'
    BY <2>1 DEF EndsItsOwn, Live
  <2> QED
    BY <2>2, <2>3
<1> QED
  BY <1>1, <1>2

\* What works matches the statement, and is found and locked.
LEMMA SweepEnds ==
    ASSUME SessionsInv, NEW r \in Requests, Snapshot(r) \/ Sweep(r),
           SeesMints(r), EndsEveryone(r)
    PROVE  SeesMints(r)' /\ EndsEveryone(r)' /\ EndsItsOwn(r)'
<1>1. Live \subseteq Matching(job[r])
  BY DEF Live, Stored, Matching
<1>2. job[r] \in Sweeping /\ UNCHANGED <<row, access, job, minted, overlap>>
  BY DEF Snapshot, Sweep, database, SessionsInv, StepsKeepTrack
<1>3. Live' = Live /\ BeingMinted' = BeingMinted
  BY <1>2 DEF Live, BeingMinted
<1>4. SeesMints(r)' /\ EndsItsOwn(r)'
  BY <1>2, <1>3 DEF SeesMints, EndsItsOwn, Sweeping
<1>5. CASE Snapshot(r)
  <2>1. pc'[r] = "sweep" /\ seen'[r] = Matching(job[r])
    BY <1>5 DEF Snapshot, Goto, SessionsInv, TypeOK
  <2> QED
    BY <1>1, <1>2, <1>3, <1>4, <2>1 DEF EndsEveryone
<1>6. CASE Sweep(r)
  <2>1. /\ pc[r] = "sweep" /\ held'[r] = seen[r] \cap Matching(job[r])
        /\ pc'[r] = IF job[r] = "wipe" THEN "commit" ELSE "range"
    BY <1>6 DEF Sweep, Goto, SessionsInv, TypeOK
  <2>2. job[r] \in {"logoutAll", "password"} =>
           pc'[r] = "range" /\ Live \subseteq overlap[r] \cup held'[r]
    BY <1>1, <2>1 DEF EndsEveryone
  <2> QED
    BY <1>2, <1>3, <1>4, <2>2 DEF EndsEveryone
<1> QED
  BY <1>5, <1>6

\* The access tokens are found, and all of them revoked before the commit.
LEMMA RevokeEnds ==
    ASSUME SessionsInv, NEW r \in Requests, Range(r) \/ Revoke(r),
           SeesMints(r), EndsEveryone(r)
    PROVE  SeesMints(r)' /\ EndsEveryone(r)' /\ EndsItsOwn(r)'
<1>1. job[r] \in Sweeping
  BY DEF Range, Revoke, SessionsInv, StepsKeepTrack
<1>2. CASE Range(r)
  <2>1. /\ pc[r] = "range" /\ pc'[r] = "revoke" /\ seen'[r] = Tracked
        /\ UNCHANGED <<row, access, job, held, minted, overlap>>
    BY <1>2 DEF Range, Goto, SessionsInv, TypeOK, database
  <2>2. Live' = Live /\ Tracked' = Tracked /\ BeingMinted' = BeingMinted
    BY <2>1 DEF Live, Tracked, BeingMinted
  <2> QED
    BY <1>1, <2>1, <2>2 DEF SeesMints, EndsEveryone, EndsItsOwn, Sweeping
<1>3. CASE Revoke(r) /\ ~Leave(r)
  <2>1. /\ pc[r] = "revoke" /\ pc'[r] = "commit"
        /\ UNCHANGED <<row, job, held, minted, overlap>>
        /\ access' = [n \in Tokens |->
              IF n \in seen[r] \cap Tracked THEN "revoked" ELSE access[n]]
    BY <1>3 DEF Revoke, Goto, SessionsInv, TypeOK, database
  <2>2. Live' = Live /\ BeingMinted' = BeingMinted
    BY <2>1 DEF Live, BeingMinted
  <2>3. Tracked' = Tracked \ seen[r]
    BY <2>1 DEF Tracked
  <2> QED
    BY <1>1, <2>1, <2>2, <2>3 DEF SeesMints, EndsEveryone, EndsItsOwn, Sweeping
<1>4. CASE Leave(r)
  BY <1>4, LeaveEnds
<1> QED
  BY <1>2, <1>3, <1>4

LEMMA CommitEnds ==
    ASSUME SessionsInv, NEW r \in Requests, Commit(r), SeesMints(r)
    PROVE  SeesMints(r)' /\ EndsEveryone(r)' /\ EndsItsOwn(r)'
<1>1. /\ pc'[r] = (IF job[r] = "wipe" THEN "range" ELSE "reply")
      /\ UNCHANGED <<job, minted, overlap>>
  BY DEF Commit, Goto, SessionsInv, TypeOK
<1> QED
  BY <1>1 DEF SeesMints, EndsEveryone, EndsItsOwn, BeingMinted

LEMMA OwnStep ==
    ASSUME SessionsInv, NEW r \in Requests, RequestStep(r),
           SeesMints(r), EndsEveryone(r), EndsItsOwn(r)
    PROVE  SeesMints(r)' /\ EndsEveryone(r)' /\ EndsItsOwn(r)'
<1>1. CASE Reply(r) \/ LoseReply(r) \/ Fail(r)
  BY <1>1, LeaveEnds DEF Reply, LoseReply, Fail
<1> QED
  BY <1>1, ReadEnds, RereadEnds, MintEnds, UpdateEnds, SweepEnds, RevokeEnds, CommitEnds
  DEF RequestStep

-----------------------------------------------------------------------------
LEMMA InitEnding == Init => EndingInv
<1> SUFFICES ASSUME Init, NEW r \in Requests
             PROVE  SeesMints(r) /\ EndsEveryone(r) /\ EndsItsOwn(r)
  BY DEF EndingInv
<1>1. job[r] = "none"
  BY DEF Init
<1> QED
  BY <1>1 DEF SeesMints, EndsEveryone, EndsItsOwn, Ending, Sweeping

LEMMA NextEnding == SessionsInv /\ EndingInv /\ [Next]_vars => EndingInv'
<1> SUFFICES ASSUME SessionsInv, EndingInv, [Next]_vars,
                    NEW r \in Requests
             PROVE  SeesMints(r)' /\ EndsEveryone(r)' /\ EndsItsOwn(r)'
  BY DEF EndingInv
<1>1. SeesMints(r) /\ EndsEveryone(r) /\ EndsItsOwn(r)
  BY DEF EndingInv
<1>2. ASSUME NEW u \in Requests, RequestStep(u)
      PROVE  SeesMints(r)' /\ EndsEveryone(r)' /\ EndsItsOwn(r)'
  <2>1. CASE u = r
    BY <1>1, <1>2, <2>1, OwnStep
  <2>2. CASE u # r
    BY <1>1, <1>2, <2>2, RequestGrowth, AsideStep
  <2> QED
    BY <2>1, <2>2
<1>3. ASSUME NEW u \in Requests, NEW b \in Browsers,
             NEW j \in Jobs, NEW step \in {"single", "read", "snapshot"},
             Start(u, b, j, step)
      PROVE  SeesMints(r)' /\ EndsEveryone(r)' /\ EndsItsOwn(r)'
  <2>1. CASE u = r
    BY <1>3, <2>1, StartEnds
  <2>2. CASE u # r
    BY <1>1, <1>3, <2>2, StartGrowth, AsideStep
  <2> QED
    BY <2>1, <2>2
<1>4. ASSUME NEW u \in Requests, NEW b \in Browsers,
             \/ StartRefresh(u, b) \/ StartLogin(u, b) \/ StartLogout(u, b)
             \/ StartLogoutAll(u, b) \/ StartPassword(u, b)
      PROVE  SeesMints(r)' /\ EndsEveryone(r)' /\ EndsItsOwn(r)'
  BY <1>3, <1>4
  DEF StartRefresh, StartLogin, StartLogout, StartLogoutAll, StartPassword, Jobs
<1>5. CASE (\E n \in Tokens : GraceEnds(n)) \/ (\E c \in Tokens : Expire(c))
           \/ CleanUp \/ UNCHANGED vars
  BY <1>1, <1>5, TimeGrowth, AsideStep
<1> QED
  BY <1>2, <1>4, <1>5 DEF Next

LEMMA AlwaysEnding == Spec => [](SessionsInv /\ EndingInv)
BY InitInv, NextInv, InitEnding, NextEnding, PTL DEF Spec

\* Only r's own commit takes it from its commit to its reply.
LEMMA OnlyItsCommit ==
    ASSUME SessionsInv, [Next]_vars, NEW r \in Requests,
           pc[r] = "commit", pc'[r] = "reply"
    PROVE  Commit(r)
<1>1. ASSUME NEW u \in Requests, NEW b \in Browsers,
             \/ StartRefresh(u, b) \/ StartLogin(u, b) \/ StartLogout(u, b)
             \/ StartLogoutAll(u, b) \/ StartPassword(u, b)
      PROVE  FALSE
  <2>1. pc'[u] \in {"read", "single", "snapshot"}
        /\ \A q \in Requests \ {u} : pc'[q] = pc[q]
    BY <1>1 DEF StartRefresh, StartLogin, StartLogout, StartLogoutAll, StartPassword,
                Start, Goto, SessionsInv, TypeOK
  <2> QED
    BY <2>1
<1>2. ASSUME NEW u \in Requests, RequestStep(u)
      PROVE  Commit(r)
  <2>1. CASE u # r
    BY <1>2, <2>1, RequestGrowth DEF Aside
  <2>2. CASE u = r
    BY <1>2, <2>2
    DEF RequestStep, ReadToken, Rotate, Reread, Mint, Track, RevokeSingle, UpdateEnded,
        Snapshot, Sweep, Range, Revoke, Reply, LoseReply, Fail, Leave, Goto,
        SessionsInv, TypeOK
  <2> QED
    BY <2>1, <2>2
<1>3. CASE (\E n \in Tokens : GraceEnds(n)) \/ (\E c \in Tokens : Expire(c))
           \/ CleanUp \/ UNCHANGED vars
  BY <1>3 DEF GraceEnds, Expire, CleanUp, request, vars
<1> QED
  BY <1>1, <1>2, <1>3 DEF Next

\* What a commit has not locked or inserted, and only that, may work after it.
LEMMA CommitLeaves ==
    ASSUME SessionsInv, NEW r \in Requests, Commit(r), job[r] \notin {"refresh", "login"}
    PROVE  Live' \subseteq Live \ held[r] /\ UNCHANGED <<chain, overlap>> /\ Tracked' = Tracked
<1>1. Live' \subseteq Live \ held[r]
  BY CommitRows DEF Live, Minting
<1> QED
  BY <1>1 DEF Commit, Tracked

\* Logout everywhere and a new password (revoke_access_to_all_tokens and the
\* sweep of refresh_token, then get_db's commit): whatever else runs, no token
\* works afterwards but those that were being minted meanwhile.
THEOREM EveryoneOut == Spec => EveryoneIsOut
<1>1. ASSUME SessionsInv, EndingInv, [Next]_vars, NEW r \in Requests,
             pc[r] = "commit", pc'[r] = "reply", job[r] \in {"logoutAll", "password"}
      PROVE  (Live \cup Tracked)' \subseteq overlap'[r]
  <2>1. Commit(r)
    BY <1>1, OnlyItsCommit
  <2>2. Live \subseteq overlap[r] \cup held[r] /\ Tracked \subseteq overlap[r]
    BY <1>1 DEF EndingInv, EndsEveryone
  <2> QED
    BY <1>1, <2>1, <2>2, CommitLeaves
<1>2. SessionsInv /\ EndingInv /\ [Next]_vars =>
         [\A r \in Requests :
             pc[r] = "commit" /\ pc'[r] = "reply" /\ job[r] \in {"logoutAll", "password"}
             => (Live \cup Tracked)' \subseteq overlap'[r]]_vars
  BY <1>1
<1> QED
  BY <1>2, AlwaysEnding, PTL DEF Spec, EveryoneIsOut

\* Logout (update_refresh_token, then get_db's commit) ends its login: no
\* refresh token of it works afterwards but one of a refresh that ran meanwhile.
THEOREM LogoutEnds == Spec => LogoutEndsSession
<1>1. ASSUME SessionsInv, EndingInv, [Next]_vars, NEW r \in Requests,
             pc[r] = "commit", pc'[r] = "reply", job[r] = "logout"
      PROVE  {n \in Live' : chain[n] = chain[token[r]]} \subseteq overlap'[r]
  <2>1. Commit(r)
    BY <1>1, OnlyItsCommit
  <2>2. /\ held[r] = {token[r]}
        /\ \A n \in Live : chain[n] = chain[token[r]] => n \in overlap[r] \cup {token[r]}
    BY <1>1 DEF EndingInv, EndsItsOwn
  <2> QED
    BY <1>1, <2>1, <2>2, CommitLeaves
<1>2. SessionsInv /\ EndingInv /\ [Next]_vars =>
         [\A r \in Requests :
             pc[r] = "commit" /\ pc'[r] = "reply" /\ job[r] = "logout"
             => {n \in Live' : chain[n] = chain[token[r]]} \subseteq overlap'[r]]_vars
  BY <1>1
<1> QED
  BY <1>2, AlwaysEnding, PTL DEF Spec, LogoutEndsSession

-----------------------------------------------------------------------------
(* What calm is for: as long as nothing has come between a browser and its   *)
(* cookie, the cookie works or its next answer replaces it.                  *)

\* A token belongs to one browser, and to nobody before its answer.
CookiesHaveOwners ==
    /\ \A r \in Requests : pc[r] # "idle" => from[r] \in Browsers
    /\ \A b, c \in Browsers : jar[b] # 0 /\ jar[b] = jar[c] => b = c
    /\ \A r \in Requests, b \in Browsers : token[r] # 0 /\ token[r] = jar[b] => from[r] = b

AnswersAreNew ==
    \A r \in Requests :
        minted[r] # 0 => /\ \A b \in Browsers : jar[b] # minted[r]
                         /\ \A u \in Requests : token[u] # minted[r]
                         /\ \A u \in Requests \ {r} : minted[u] # minted[r]

JobsFitSteps ==
    \A r \in Requests :
        /\ job[r] = "refresh" => token[r] # 0
        /\ pc[r] = "reread" => job[r] = "refresh"
        /\ pc[r] = "single" => job[r] = "logout"
        /\ pc[r] = "commit" => job[r] \in Ending \cup {"refresh", "login"}

OwnersInv == CookiesHaveOwners /\ AnswersAreNew /\ JobsFitSteps

Works(n) == row[n] = "live" \/ (row[n] = "deleted" /\ chain[n] \in expired)

\* The answer on its way to b replaces its cookie.
Answering(r, b) ==
    /\ from[r] = b
    /\ pc[r] = "reply"
    /\ \/ job[r] \in {"logout", "logoutAll"}
       \/ job[r] = "refresh" /\ token[r] = jar[b] /\ row[jar[b]] = "rotated"

CookieWorks(b) ==
    jar[b] # 0 => Works(jar[b]) \/ \E r \in Requests : Answering(r, b)

AnswerWorks(r) == pc[r] = "reply" /\ minted[r] # 0 => Works(minted[r])

\* A refresh that loses meets a token rotated a moment ago.
RefreshIsFresh(r) ==
    job[r] = "refresh" =>
        /\ pc[r] = "read" => row[token[r]] \in {"live", "rotated", "deleted"}
        /\ pc[r] = "update" => row[token[r]] \in {"live", "rotated"}
        /\ pc[r] = "reread" => row[token[r]] = "rotated"

CalmInv ==
    calm => /\ \A b \in Browsers : CookieWorks(b)
            /\ \A r \in Requests : AnswerWorks(r) /\ RefreshIsFresh(r)

-----------------------------------------------------------------------------
LEMMA OwnersLeave ==
    ASSUME SessionsInv, OwnersInv, NEW r \in Requests, Leave(r), jar' = jar
    PROVE  OwnersInv'
<1>1. /\ pc'[r] = "idle" /\ job'[r] = "none" /\ token'[r] = 0 /\ minted'[r] = 0
      /\ \A q \in Requests \ {r} : /\ pc'[q] = pc[q] /\ job'[q] = job[q]
                                   /\ from'[q] = from[q] /\ token'[q] = token[q]
                                   /\ minted'[q] = minted[q]
  BY DEF Leave, Goto, SessionsInv, TypeOK
<1>2. CookiesHaveOwners'
  BY <1>1 DEF OwnersInv, CookiesHaveOwners
<1>3. AnswersAreNew'
  BY <1>1 DEF OwnersInv, AnswersAreNew
<1>4. JobsFitSteps'
  BY <1>1 DEF OwnersInv, JobsFitSteps
<1> QED
  BY <1>2, <1>3, <1>4 DEF OwnersInv

LEMMA OwnersStart ==
    ASSUME SessionsInv, OwnersInv, NEW r \in Requests, NEW b \in Browsers,
           NEW j \in Jobs, NEW step \in {"single", "read", "snapshot"},
           Start(r, b, j, step), step = "single" => j = "logout"
    PROVE  OwnersInv'
<1>1. /\ pc'[r] = step /\ job'[r] = j /\ from'[r] = b /\ token'[r] = jar[b]
      /\ j = "refresh" => jar[b] # 0
      /\ UNCHANGED <<jar, minted>>
      /\ \A q \in Requests \ {r} : /\ pc'[q] = pc[q] /\ job'[q] = job[q]
                                   /\ from'[q] = from[q] /\ token'[q] = token[q]
  BY DEF Start, Goto, SessionsInv, TypeOK
<1>2. CookiesHaveOwners'
  BY <1>1 DEF OwnersInv, CookiesHaveOwners
<1>3. AnswersAreNew'
  BY <1>1 DEF OwnersInv, AnswersAreNew
<1>4. JobsFitSteps'
  BY <1>1 DEF OwnersInv, JobsFitSteps
<1> QED
  BY <1>2, <1>3, <1>4 DEF OwnersInv

LEMMA OwnersMint ==
    ASSUME SessionsInv, OwnersInv, NEW r \in Requests, Mint(r)
    PROVE  OwnersInv'
<1>1. CASE Leave(r)
  BY <1>1, OwnersLeave DEF Mint
<1>2. CASE ~Leave(r)
  <2>1. /\ minted' = [minted EXCEPT ![r] = last + 1]
        /\ pc' = [pc EXCEPT ![r] = "track"]
        /\ pc[r] = "mint"
        /\ UNCHANGED <<jar, job, from, token>>
    BY <1>2 DEF Mint, Goto
  <2>2. last \in Nat
    BY SessionsAssumption DEF SessionsInv, TypeOK
  <2>3. \A b \in Browsers : jar[b] # last + 1
    <3>1. ASSUME NEW b \in Browsers, jar[b] # 0
          PROVE  jar[b] \in Tokens /\ row[jar[b]] # "none"
      BY <3>1, SessionsAssumption DEF SessionsInv, TypeOK, CookiesAreSaved, Tokens
    <3>2. \A n \in Tokens : row[n] # "none" => n <= last
      BY DEF SessionsInv, TokensHaveRoots
    <3>3. \A n \in Tokens : n \in Nat
      BY DEF Tokens
    <3> QED
      BY <2>2, <3>1, <3>2, <3>3
  <2>4. \A u \in Requests : token[u] # last + 1
    <3>1. ASSUME NEW u \in Requests, token[u] # 0
          PROVE  token[u] <= last
      <4>1. token[u] \in Tokens
        BY <3>1, SessionsAssumption DEF SessionsInv, TypeOK, Tokens
      <4>2. row[token[u]] # "none"
        BY <3>1 DEF SessionsInv, StepsKeepTrack
      <4> QED
        BY <4>1, <4>2 DEF SessionsInv, TokensHaveRoots
    <3>2. ASSUME NEW u \in Requests, token[u] = last + 1
          PROVE  FALSE
      <4>1. token[u] # 0 /\ ~(token[u] <= last)
        BY <2>2, <3>2
      <4> QED
        BY <3>1, <4>1
    <3> QED
      BY <3>2
  <2>5. \A u \in Requests : minted[u] # last + 1
    <3>1. ASSUME NEW u \in Requests, minted[u] # 0
          PROVE  minted[u] <= last
      <4>1. CASE pc[u] = "reply"
        BY <3>1, <4>1 DEF SessionsInv, StepsKeepTrack, TokensHaveRoots, TypeOK, Tokens
      <4>2. CASE pc[u] # "reply"
        BY <3>1, <4>2 DEF SessionsInv, StepsKeepTrack, RotationsHoldTheirToken, Minting
      <4> QED
        BY <4>1, <4>2
    <3>2. ASSUME NEW u \in Requests, minted[u] = last + 1
          PROVE  FALSE
      <4>1. minted[u] # 0 /\ ~(minted[u] <= last)
        BY <2>2, <3>2
      <4> QED
        BY <3>1, <4>1
    <3> QED
      BY <3>2
  <2>6. CookiesHaveOwners' /\ JobsFitSteps'
    BY <2>1 DEF OwnersInv, CookiesHaveOwners, JobsFitSteps, SessionsInv, TypeOK
  <2>7. AnswersAreNew'
    BY <2>1, <2>3, <2>4, <2>5 DEF OwnersInv, AnswersAreNew, SessionsInv, TypeOK
  <2> QED
    BY <2>6, <2>7 DEF OwnersInv
<1> QED
  BY <1>1, <1>2

LEMMA OwnersReply ==
    ASSUME SessionsInv, OwnersInv, NEW r \in Requests, Reply(r)
    PROVE  OwnersInv'
<1>1. /\ pc'[r] = "idle" /\ job'[r] = "none" /\ token'[r] = 0 /\ minted'[r] = 0
      /\ \A q \in Requests \ {r} : /\ pc'[q] = pc[q] /\ job'[q] = job[q]
                                   /\ from'[q] = from[q] /\ token'[q] = token[q]
                                   /\ minted'[q] = minted[q]
  BY DEF Reply, Leave, Goto, SessionsInv, TypeOK
<1>2. \A b \in Browsers : jar'[b] = jar[b] \/ (b = from[r] /\ jar'[b] \in {0, minted[r]})
  BY DEF Reply, SessionsInv, TypeOK
<1>3. CookiesHaveOwners'
  <2>1. \A b, c \in Browsers : jar'[b] # 0 /\ jar'[b] = jar'[c] => b = c
    BY <1>2 DEF OwnersInv, CookiesHaveOwners, AnswersAreNew
  <2>2. \A q \in Requests, b \in Browsers :
           token'[q] # 0 /\ token'[q] = jar'[b] => from'[q] = b
    BY <1>1, <1>2 DEF OwnersInv, CookiesHaveOwners, AnswersAreNew
  <2>3. \A q \in Requests : pc'[q] # "idle" => from'[q] \in Browsers
    BY <1>1 DEF OwnersInv, CookiesHaveOwners
  <2> QED
    BY <2>1, <2>2, <2>3 DEF CookiesHaveOwners
<1>4. AnswersAreNew'
  <2>1. ASSUME NEW q \in Requests, minted'[q] # 0
        PROVE  /\ \A b \in Browsers : jar'[b] # minted'[q]
               /\ \A u \in Requests : token'[u] # minted'[q]
               /\ \A u \in Requests \ {q} : minted'[u] # minted'[q]
    <3>1. q # r /\ minted'[q] = minted[q] /\ minted[q] # 0
      BY <1>1, <2>1
    <3>2. \A b \in Browsers : jar'[b] # minted[q]
      BY <1>2, <3>1 DEF OwnersInv, AnswersAreNew
    <3> QED
      BY <1>1, <3>1, <3>2 DEF OwnersInv, AnswersAreNew
  <2> QED
    BY <2>1 DEF AnswersAreNew
<1>5. JobsFitSteps'
  BY <1>1 DEF OwnersInv, JobsFitSteps
<1> QED
  BY <1>3, <1>4, <1>5 DEF OwnersInv

\* Everything else: a request in between goes on.
LEMMA OwnersOn ==
    ASSUME SessionsInv, OwnersInv, UNCHANGED <<jar, from, token, minted>>,
           \A q \in Requests : /\ pc'[q] # "idle" => pc[q] # "idle"
                               /\ job'[q] = "refresh" => job[q] = "refresh"
                               /\ pc'[q] = "reread" => job'[q] = "refresh"
                               /\ pc'[q] = "single" => job'[q] = "logout"
                               /\ pc'[q] = "commit" =>
                                     job'[q] \in Ending \cup {"refresh", "login"}
    PROVE  OwnersInv'
BY DEF OwnersInv, CookiesHaveOwners, AnswersAreNew, JobsFitSteps

LEMMA NextOwners == SessionsInv /\ OwnersInv /\ [Next]_vars => OwnersInv'
<1> SUFFICES ASSUME SessionsInv, OwnersInv, [Next]_vars PROVE OwnersInv'
  OBVIOUS
<1>1. ASSUME NEW r \in Requests, RequestStep(r)
      PROVE  OwnersInv'
  <2>1. CASE Leave(r) /\ ~Reply(r) /\ ~Mint(r)
    BY <1>1, <2>1, OwnersLeave
    DEF RequestStep, ReadToken, Rotate, Reread, Track, RevokeSingle, UpdateEnded,
        Snapshot, Sweep, Range, Revoke, Commit, LoseReply, Fail
  <2>2. CASE ReadToken(r) /\ ~Leave(r)
    <3>1. /\ UNCHANGED <<jar, from, token, minted>>
          /\ pc[r] = "read" /\ pc'[r] \notin {"reread", "single", "commit"}
          /\ job'[r] \in {job[r], "nothing"}
          /\ \A q \in Requests \ {r} : pc'[q] = pc[q] /\ job'[q] = job[q]
      BY <2>2 DEF ReadToken, Goto, SessionsInv, TypeOK
    <3> QED
      BY <3>1, OwnersOn DEF OwnersInv, JobsFitSteps
  <2>3. CASE Reread(r) /\ ~Leave(r)
    <3>1. /\ UNCHANGED <<jar, from, token, minted>>
          /\ pc[r] = "reread" /\ pc'[r] = "snapshot" /\ job'[r] = "wipe"
          /\ \A q \in Requests \ {r} : pc'[q] = pc[q] /\ job'[q] = job[q]
      BY <2>3 DEF Reread, Goto, SessionsInv, TypeOK
    <3> QED
      BY <3>1, OwnersOn DEF OwnersInv, JobsFitSteps
  <2>4. CASE /\ ~Leave(r)
             /\ \/ Rotate(r) \/ Track(r) \/ RevokeSingle(r) \/ UpdateEnded(r)
                \/ Snapshot(r) \/ Sweep(r) \/ Range(r) \/ Revoke(r) \/ Commit(r)
    <3>1. /\ UNCHANGED <<jar, from, token, minted, job>>
          /\ pc[r] # "idle" /\ (pc'[r] = "reread" => job[r] = "refresh")
          /\ pc'[r] # "single"
          /\ pc'[r] = "commit" => job[r] \in Ending \cup {"refresh", "login"}
          /\ \A q \in Requests \ {r} : pc'[q] = pc[q]
      BY <2>4 DEF Rotate, Track, RevokeSingle, UpdateEnded, Snapshot, Sweep, Range,
                  Revoke, Commit, Goto, SessionsInv, TypeOK, StepsKeepTrack, Ending, Sweeping
    <3> QED
      BY <3>1, OwnersOn DEF OwnersInv, JobsFitSteps
  <2> QED
    BY <1>1, <2>1, <2>2, <2>3, <2>4, OwnersMint, OwnersReply
    DEF RequestStep, LoseReply, Fail
<1>2. ASSUME NEW r \in Requests, NEW b \in Browsers,
             \/ StartRefresh(r, b) \/ StartLogin(r, b) \/ StartLogout(r, b)
             \/ StartLogoutAll(r, b) \/ StartPassword(r, b)
      PROVE  OwnersInv'
  BY <1>2, OwnersStart
  DEF StartRefresh, StartLogin, StartLogout, StartLogoutAll, StartPassword, Jobs
<1>3. CASE (\E n \in Tokens : GraceEnds(n)) \/ (\E c \in Tokens : Expire(c))
           \/ CleanUp \/ UNCHANGED vars
  BY <1>3, OwnersOn DEF GraceEnds, Expire, CleanUp, request, vars, OwnersInv,
     JobsFitSteps
<1> QED
  BY <1>1, <1>2, <1>3 DEF Next

-----------------------------------------------------------------------------
\* What works goes on working while no row changes.
LEMMA WorksOn ==
    ASSUME SessionsInv, NEW n \in Tokens, Works(n), row'[n] = row[n],
           expired \subseteq expired',
           \A m \in Tokens : m <= last => chain'[m] = chain[m]
    PROVE  Works(n)'
BY DEF Works, SessionsInv, TokensHaveRoots

\* Every cookie and token of a request is a token, or none.
LEMMA KnownTokens ==
    ASSUME SessionsInv
    PROVE  /\ \A b \in Browsers : jar[b] # 0 => jar[b] \in Tokens
           /\ \A r \in Requests : token[r] # 0 => token[r] \in Tokens
           /\ \A r \in Requests : minted[r] # 0 => minted[r] \in Tokens
BY SessionsAssumption DEF SessionsInv, TypeOK, Tokens

\* A step of one request before its answer, in which no row changes: the
\* answers on their way stay.
LEMMA CalmRequest ==
    ASSUME SessionsInv, CalmInv, NEW r \in Requests,
           UNCHANGED <<row, jar, expired>>, calm' => calm,
           \A m \in Tokens : m <= last => chain'[m] = chain[m],
           pc[r] # "reply", pc'[r] = "reply" => minted'[r] = 0,
           calm => RefreshIsFresh(r)',
           \A q \in Requests \ {r} : /\ pc'[q] = pc[q] /\ job'[q] = job[q]
                                     /\ from'[q] = from[q] /\ token'[q] = token[q]
                                     /\ minted'[q] = minted[q]
    PROVE  CalmInv'
<1> SUFFICES ASSUME calm
             PROVE  /\ \A b \in Browsers : CookieWorks(b)'
                    /\ \A q \in Requests : AnswerWorks(q)' /\ RefreshIsFresh(q)'
  BY DEF CalmInv
<1>1. ASSUME NEW n \in Tokens, Works(n)
      PROVE  Works(n)'
  BY <1>1, WorksOn
<1>2. ASSUME NEW b \in Browsers
      PROVE  CookieWorks(b)'
  <2>1. ASSUME NEW q \in Requests, Answering(q, b)
        PROVE  Answering(q, b)'
    <3>1. q # r
      BY <2>1 DEF Answering
    <3> QED
      BY <2>1, <3>1 DEF Answering
  <2>2. CookieWorks(b)
    BY DEF CalmInv
  <2> QED
    BY <1>1, <2>1, <2>2, KnownTokens DEF CookieWorks
<1>3. ASSUME NEW q \in Requests
      PROVE  AnswerWorks(q)' /\ RefreshIsFresh(q)'
  <2>1. CASE q = r
    BY <2>1 DEF AnswerWorks
  <2>2. CASE q # r
    <3>1. AnswerWorks(q) /\ RefreshIsFresh(q)
      BY DEF CalmInv
    <3>2. AnswerWorks(q)'
      BY <1>1, <2>2, <3>1, KnownTokens DEF AnswerWorks
    <3>3. RefreshIsFresh(q)'
      BY <2>2, <3>1 DEF RefreshIsFresh
    <3> QED
      BY <3>2, <3>3
  <2> QED
    BY <2>1, <2>2
<1> QED
  BY <1>2, <1>3

\* A request that leaves before its answer, or changes nothing but its place.
LEMMA CalmLeave ==
    ASSUME SessionsInv, CalmInv, NEW r \in Requests, Leave(r), pc[r] # "reply",
           UNCHANGED <<row, chain, jar, expired, calm>>
    PROVE  CalmInv'
<1>1. /\ pc'[r] = "idle" /\ job'[r] = "none"
      /\ \A q \in Requests \ {r} : /\ pc'[q] = pc[q] /\ job'[q] = job[q]
                                   /\ from'[q] = from[q] /\ token'[q] = token[q]
                                   /\ minted'[q] = minted[q]
  BY DEF Leave, Goto, SessionsInv, TypeOK
<1>2. RefreshIsFresh(r)'
  BY <1>1 DEF RefreshIsFresh
<1> QED
  BY <1>1, <1>2, CalmRequest

LEMMA CalmStart ==
    ASSUME SessionsInv, CalmInv, NEW r \in Requests, NEW b \in Browsers,
           NEW j \in Jobs, NEW step \in {"single", "read", "snapshot"},
           Start(r, b, j, step)
    PROVE  CalmInv'
<1>1. /\ pc[r] = "idle" /\ pc'[r] = step /\ job'[r] = j /\ token'[r] = jar[b]
      /\ j = "refresh" => jar[b] # 0
      /\ UNCHANGED <<row, chain, jar, expired, minted>>
      /\ \A q \in Requests \ {r} : /\ pc'[q] = pc[q] /\ job'[q] = job[q]
                                   /\ from'[q] = from[q] /\ token'[q] = token[q]
  BY DEF Start, Goto, SessionsInv, TypeOK, database
<1>2. calm' => calm /\ (j = "refresh" => ~CrossesLogout(b))
  BY DEF Start
<1>3. CASE ~calm'
  BY <1>3 DEF CalmInv
<1>4. CASE calm'
  <2>1. RefreshIsFresh(r)'
    <3> SUFFICES ASSUME j = "refresh"
                 PROVE  row[jar[b]] \in {"live", "rotated", "deleted"}
      BY <1>1 DEF RefreshIsFresh
    <3>1. jar[b] # 0 /\ ~CrossesLogout(b) /\ CookieWorks(b)
      BY <1>1, <1>2, <1>4 DEF CalmInv
    <3> QED
      BY <3>1 DEF CookieWorks, Works, Answering, CrossesLogout
  <2> QED
    BY <1>1, <1>2, <2>1, CalmRequest
<1> QED
  BY <1>3, <1>4

\* The refresh meets a row that works, or was rotated a moment ago.
LEMMA CalmRead ==
    ASSUME SessionsInv, OwnersInv, CalmInv, NEW r \in Requests,
           ReadToken(r) \/ Rotate(r) \/ Reread(r)
    PROVE  CalmInv'
<1>1. UNCHANGED <<row, chain, jar, expired, calm>> /\ pc[r] # "reply"
  BY DEF ReadToken, Rotate, Reread, database, outside
<1>2. CASE Leave(r)
  BY <1>1, <1>2, CalmLeave
<1>3. CASE ~Leave(r)
  <2>1. UNCHANGED <<from, token, minted>>
    BY <1>3 DEF ReadToken, Rotate, Reread
  <2>2. \A q \in Requests \ {r} : pc'[q] = pc[q] /\ job'[q] = job[q]
    BY <1>3 DEF ReadToken, Rotate, Reread, Goto, SessionsInv, TypeOK
  <2>3. pc'[r] = "reply" => minted'[r] = 0
    <3>1. pc[r] \in {"read", "update", "reread"}
      BY DEF ReadToken, Rotate, Reread
    <3> QED
      BY <2>1, <3>1 DEF SessionsInv, StepsKeepTrack
  <2>4. ASSUME calm
        PROVE  RefreshIsFresh(r)'
    <3>1. RefreshIsFresh(r)
      BY <2>4 DEF CalmInv
    <3>2. CASE ReadToken(r)
      <4>1. /\ pc[r] = "read" /\ pc'[r] \in {"update", "mint", "snapshot", "reply"}
            /\ job'[r] = "refresh" => job[r] = "refresh" /\ token[r] \in Stored
        BY <1>3, <3>2 DEF ReadToken, Goto, SessionsInv, TypeOK
      <4> QED
        BY <1>1, <2>1, <3>1, <4>1 DEF RefreshIsFresh, Stored
    <3>3. CASE Rotate(r)
      <4>1. /\ pc[r] = "update" /\ job[r] = "refresh" /\ job'[r] = "refresh"
            /\ pc'[r] \in {"mint", "reread"}
            /\ pc'[r] = "reread" => token[r] \notin Live
        BY <3>3 DEF Rotate, Goto, SessionsInv, TypeOK
      <4>2. token[r] \in Tokens
        BY <4>1, KnownTokens DEF OwnersInv, JobsFitSteps
      <4> QED
        BY <1>1, <2>1, <3>1, <4>1, <4>2 DEF RefreshIsFresh, Live
    <3>4. CASE Reread(r)
      <4>1. job'[r] = "wipe"
        BY <1>3, <3>4 DEF Reread, SessionsInv, TypeOK
      <4> QED
        BY <4>1 DEF RefreshIsFresh
    <3> QED
      BY <3>2, <3>3, <3>4
  <2> QED
    BY <1>1, <2>1, <2>2, <2>3, <2>4, CalmRequest
<1> QED
  BY <1>2, <1>3

\* The other steps before the commit.
LEMMA CalmOn ==
    ASSUME SessionsInv, OwnersInv, CalmInv, NEW r \in Requests,
           \/ Mint(r) \/ Track(r) \/ RevokeSingle(r) \/ UpdateEnded(r)
           \/ Snapshot(r) \/ Sweep(r) \/ Range(r) \/ Revoke(r)
    PROVE  CalmInv'
<1>1. UNCHANGED <<row, jar, expired, calm>> /\ pc[r] # "reply"
  BY DEF Mint, Track, RevokeSingle, UpdateEnded, Snapshot, Sweep, Range, Revoke,
         database, outside
<1>2. CASE Leave(r)
  <2>1. UNCHANGED chain
    BY <1>2 DEF Mint, Track, RevokeSingle, UpdateEnded, Snapshot, Sweep, Range, Revoke,
                Leave, Goto, SessionsInv, TypeOK, database
  <2> QED
    BY <1>1, <1>2, <2>1, CalmLeave
<1>3. CASE ~Leave(r)
  <2>1. /\ UNCHANGED <<from, token, job>>
        /\ \A q \in Requests \ {r} : pc'[q] = pc[q] /\ minted'[q] = minted[q]
    BY <1>3 DEF Mint, Track, RevokeSingle, UpdateEnded, Snapshot, Sweep, Range, Revoke,
                Goto, SessionsInv, TypeOK
  <2>2. pc'[r] # "reply" /\ (job[r] = "refresh" => pc'[r] \notin {"read", "update", "reread"})
    BY <1>3 DEF Mint, Track, RevokeSingle, UpdateEnded, Snapshot, Sweep, Range, Revoke,
                Goto, SessionsInv, TypeOK, OwnersInv, JobsFitSteps
  <2>3. RefreshIsFresh(r)'
    BY <2>1, <2>2 DEF RefreshIsFresh
  <2>4. \A m \in Tokens : m <= last => chain'[m] = chain[m]
    <3>1. RequestStep(r)
      BY DEF RequestStep
    <3> QED
      BY <3>1, RequestGrowth DEF Grows
  <2> QED
    BY <1>1, <2>1, <2>2, <2>3, <2>4, CalmRequest
<1> QED
  BY <1>2, <1>3

\* A commit that disturbs nobody takes a cookie's token away only from the
\* browser it answers.
LEMMA CalmCommit ==
    ASSUME SessionsInv, OwnersInv, CalmInv, NEW r \in Requests, Commit(r)
    PROVE  CalmInv'
<1> SUFFICES ASSUME calm, ~Disturbs(r)
             PROVE  /\ \A b \in Browsers : CookieWorks(b)'
                    /\ \A q \in Requests : AnswerWorks(q)' /\ RefreshIsFresh(q)'
  BY DEF CalmInv, Commit
<1>1. /\ pc[r] = "commit"
      /\ pc'[r] = (IF job[r] = "wipe" THEN "range" ELSE "reply")
      /\ UNCHANGED <<chain, expired, jar, job, from, token, minted>>
      /\ \A q \in Requests \ {r} : pc'[q] = pc[q]
  BY DEF Commit, Goto, SessionsInv, TypeOK, outside
<1>2. \A n \in Tokens : n \notin held[r] /\ n # minted[r] => row'[n] = row[n]
  BY CommitRows
<1>3. ASSUME job[r] = "refresh"
      PROVE  held[r] = {token[r]} /\ row'[token[r]] = "rotated"
  <2>1. held[r] = {token[r]}
    BY <1>1, <1>3 DEF SessionsInv, RotationsHoldTheirToken
  <2>2. token[r] \in Tokens
    BY <1>3, KnownTokens DEF OwnersInv, JobsFitSteps
  <2> QED
    BY <1>3, <2>1, <2>2 DEF Commit, Apply, Changed
<1>4. job[r] = "refresh" \/ job[r] \in Ending \/ held[r] = {}
  BY <1>1 DEF OwnersInv, JobsFitSteps, SessionsInv, StepsKeepTrack
<1>5. ASSUME NEW n \in Tokens, Works(n), n \notin held[r], n # minted[r]
      PROVE  Works(n)'
  BY <1>1, <1>2, <1>5 DEF Works
<1>6. ASSUME NEW b \in Browsers
      PROVE  CookieWorks(b)'
  <2> SUFFICES ASSUME jar[b] # 0
               PROVE  Works(jar[b])' \/ \E q \in Requests : Answering(q, b)'
    BY <1>1 DEF CookieWorks
  <2>1. jar[b] \in Tokens /\ jar[b] # minted[r]
    BY KnownTokens DEF OwnersInv, AnswersAreNew
  <2>2. CASE jar[b] \in held[r]
    <3>1. CASE job[r] = "refresh"
      <4>1. from[r] = b
        BY <1>3, <2>2, <3>1 DEF OwnersInv, CookiesHaveOwners
      <4> QED
        BY <1>1, <1>3, <2>2, <3>1, <4>1 DEF Answering
    <3>2. CASE job[r] \in Ending
      <4>1. b = from[r] /\ job[r] \in {"logout", "logoutAll"}
        BY <2>2, <3>2 DEF Disturbs
      <4> QED
        BY <1>1, <4>1 DEF Answering
    <3> QED
      BY <1>4, <2>2, <3>1, <3>2
  <2>3. CASE jar[b] \notin held[r]
    <3>1. CookieWorks(b)
      BY DEF CalmInv
    <3>2. ASSUME NEW q \in Requests, Answering(q, b)
          PROVE  Answering(q, b)'
      <4>1. q # r
        BY <1>1, <3>2 DEF Answering
      <4>2. row'[jar[b]] = row[jar[b]]
        BY <1>2, <2>1, <2>3
      <4> QED
        BY <1>1, <3>2, <4>1, <4>2 DEF Answering
    <3>3. Works(jar[b]) => Works(jar[b])'
      BY <1>1, <1>5, <2>1, <2>3 DEF Works
    <3> QED
      BY <3>1, <3>2, <3>3 DEF CookieWorks
  <2> QED
    BY <2>2, <2>3
<1>7. ASSUME NEW q \in Requests, q # r
      PROVE  AnswerWorks(q)' /\ RefreshIsFresh(q)'
  <2>1. AnswerWorks(q) /\ RefreshIsFresh(q)
    BY DEF CalmInv
  <2>2. AnswerWorks(q)'
    <3> SUFFICES ASSUME pc[q] = "reply", minted[q] # 0
                 PROVE  Works(minted[q])'
      BY <1>1, <1>7 DEF AnswerWorks
    <3>1. minted[q] \in Tokens /\ minted[q] # minted[r] /\ Works(minted[q])
      BY <1>7, <2>1, KnownTokens DEF AnswerWorks, OwnersInv, AnswersAreNew
    <3>2. minted[q] \notin held[r]
      <4>1. CASE job[r] = "refresh"
        BY <1>3, <4>1 DEF OwnersInv, AnswersAreNew
      <4>2. CASE job[r] \in Ending
        BY <1>7, <4>2 DEF Disturbs
      <4> QED
        BY <1>4, <4>1, <4>2
    <3>3. row'[minted[q]] = row[minted[q]]
      BY <1>2, <3>1, <3>2
    <3> QED
      BY <1>1, <3>1, <3>3 DEF Works
  <2>3. RefreshIsFresh(q)'
    <3> SUFFICES ASSUME job[q] = "refresh"
                 PROVE  RefreshIsFresh(q)'
      BY <1>1 DEF RefreshIsFresh
    <3>1. token[q] \in Tokens /\ token[q] # minted[r]
      BY KnownTokens DEF OwnersInv, AnswersAreNew, JobsFitSteps
    <3>2. CASE token[q] \in held[r]
      <4>1. job[r] = "refresh"
        BY <1>4, <1>7, <3>2 DEF Disturbs
      <4>2. row'[token[q]] = "rotated"
        BY <1>3, <3>2, <4>1
      <4> QED
        BY <1>1, <4>2 DEF RefreshIsFresh
    <3>3. CASE token[q] \notin held[r]
      BY <1>1, <1>2, <1>7, <2>1, <3>1, <3>3 DEF RefreshIsFresh
    <3> QED
      BY <3>2, <3>3
  <2> QED
    BY <2>2, <2>3
<1>8. AnswerWorks(r)' /\ RefreshIsFresh(r)'
  <2>1. RefreshIsFresh(r)'
    BY <1>1 DEF RefreshIsFresh
  <2>2. minted[r] # 0 => Minting(r)
    BY <1>1 DEF SessionsInv, StepsKeepTrack, Minting
  <2>3. minted[r] # 0 => row'[minted[r]] = "live"
    BY <2>2, CommitRows
  <2> QED
    BY <1>1, <2>1, <2>3 DEF AnswerWorks, Works
<1> QED
  BY <1>6, <1>7, <1>8

\* The answer's cookie works.
LEMMA CalmReply ==
    ASSUME SessionsInv, OwnersInv, CalmInv, NEW r \in Requests, Reply(r)
    PROVE  CalmInv'
<1> SUFFICES ASSUME calm
             PROVE  /\ \A b \in Browsers : CookieWorks(b)'
                    /\ \A q \in Requests : AnswerWorks(q)' /\ RefreshIsFresh(q)'
  BY DEF CalmInv, Reply
<1>1. /\ pc[r] = "reply" /\ pc'[r] = "idle" /\ job'[r] = "none"
      /\ UNCHANGED <<row, chain, expired>>
      /\ \A q \in Requests \ {r} : /\ pc'[q] = pc[q] /\ job'[q] = job[q]
                                   /\ from'[q] = from[q] /\ token'[q] = token[q]
                                   /\ minted'[q] = minted[q]
  BY DEF Reply, Leave, Goto, SessionsInv, TypeOK, database, outside
<1>2. /\ \A b \in Browsers \ {from[r]} : jar'[b] = jar[b]
      /\ from[r] \in Browsers =>
            /\ job[r] \in {"logout", "logoutAll"} => jar'[from[r]] = 0
            /\ job[r] = "refresh" => jar'[from[r]] = minted[r]
            /\ jar'[from[r]] \in {0, minted[r], jar[from[r]]}
  BY DEF Reply, SessionsInv, TypeOK
<1>3. ASSUME NEW b \in Browsers
      PROVE  CookieWorks(b)'
  <2> SUFFICES ASSUME jar'[b] # 0
               PROVE  Works(jar[b])' \/ \E q \in Requests : Answering(q, b)'
    BY DEF CookieWorks
  <2>1. CASE jar'[b] = minted[r]
    <3>1. Works(minted[r])
      BY <1>1, <2>1 DEF CalmInv, AnswerWorks
    <3> QED
      BY <1>1, <2>1, <3>1 DEF Works
  <2>2. CASE jar'[b] # minted[r]
    <3>1. jar'[b] = jar[b]
      BY <1>2, <2>2
    <3>2. CookieWorks(b)
      BY DEF CalmInv
    <3>3. ASSUME NEW q \in Requests, Answering(q, b)
          PROVE  Answering(q, b)'
      <4>1. q # r
        BY <1>2, <2>2, <3>3 DEF Answering
      <4> QED
        BY <1>1, <3>1, <3>3, <4>1 DEF Answering
    <3> QED
      BY <1>1, <3>1, <3>2, <3>3 DEF CookieWorks, Works
  <2> QED
    BY <2>1, <2>2
<1>4. ASSUME NEW q \in Requests
      PROVE  AnswerWorks(q)' /\ RefreshIsFresh(q)'
  <2>1. CASE q = r
    BY <1>1, <2>1 DEF AnswerWorks, RefreshIsFresh
  <2>2. CASE q # r
    BY <1>1, <2>2 DEF CalmInv, AnswerWorks, RefreshIsFresh, Works
  <2> QED
    BY <2>1, <2>2
<1> QED
  BY <1>3, <1>4

\* Time disturbs the calm when it takes a token from a request, and else takes
\* only what no browser relies on, or what has expired.
LEMMA CalmTime ==
    ASSUME SessionsInv, OwnersInv, CalmInv,
           UNCHANGED <<chain, jar, pc, job, from, token, minted>>,
           expired \subseteq expired', calm' => calm,
           \A n \in Tokens :
              \/ row'[n] = row[n]
              \/ /\ \/ row[n] = "rotated"
                    \/ row'[n] = "deleted" /\ chain[n] \in expired
                 /\ calm' => \A r \in Requests : token[r] # n
    PROVE  CalmInv'
<1> SUFFICES ASSUME calm, calm'
             PROVE  /\ \A b \in Browsers : CookieWorks(b)'
                    /\ \A r \in Requests : AnswerWorks(r)' /\ RefreshIsFresh(r)'
  BY DEF CalmInv
<1>1. ASSUME NEW n \in Tokens, Works(n)
      PROVE  Works(n)'
  BY <1>1 DEF Works
<1>2. ASSUME NEW b \in Browsers
      PROVE  CookieWorks(b)'
  <2>1. CookieWorks(b)
    BY DEF CalmInv
  <2>2. ASSUME NEW r \in Requests, Answering(r, b), jar[b] # 0
        PROVE  Answering(r, b)'
    BY <2>2, KnownTokens DEF Answering
  <2> QED
    BY <1>1, <2>1, <2>2, KnownTokens DEF CookieWorks
<1>3. ASSUME NEW r \in Requests
      PROVE  AnswerWorks(r)' /\ RefreshIsFresh(r)'
  <2>1. AnswerWorks(r) /\ RefreshIsFresh(r)
    BY DEF CalmInv
  <2>2. AnswerWorks(r)'
    BY <1>1, <2>1, KnownTokens DEF AnswerWorks
  <2>3. job[r] = "refresh" => token[r] \in Tokens
    BY KnownTokens DEF OwnersInv, JobsFitSteps
  <2>4. RefreshIsFresh(r)'
    BY <2>1, <2>3 DEF RefreshIsFresh
  <2> QED
    BY <2>2, <2>4
<1> QED
  BY <1>2, <1>3

LEMMA CalmTimes ==
    ASSUME SessionsInv, OwnersInv, CalmInv,
           (\E n \in Tokens : GraceEnds(n)) \/ (\E c \in Tokens : Expire(c))
           \/ CleanUp \/ UNCHANGED vars
    PROVE  CalmInv'
<1>1. ASSUME NEW n \in Tokens, GraceEnds(n)
      PROVE  CalmInv'
  <2>1. /\ UNCHANGED <<chain, jar, pc, job, from, token, minted, expired>>
        /\ calm' => calm /\ \A r \in Requests : token[r] # n
        /\ row[n] = "rotated"
        /\ \A m \in Tokens \ {n} : row'[m] = row[m]
    BY <1>1 DEF GraceEnds, outside, request, SessionsInv, TypeOK
  <2> QED
    BY <2>1, CalmTime
<1>2. ASSUME NEW c \in Tokens, Expire(c)
      PROVE  CalmInv'
  <2>1. /\ UNCHANGED <<row, chain, jar, pc, job, from, token, minted, calm>>
        /\ expired \subseteq expired'
    BY <1>2 DEF Expire, database, request
  <2> QED
    BY <2>1, CalmTime
<1>3. CASE CleanUp
  <2> DEFINE old == {n \in Stored : chain[n] \in expired}
  <2>1. /\ UNCHANGED <<chain, jar, pc, job, from, token, minted, expired>>
        /\ calm' => calm /\ \A r \in Requests : token[r] \notin old
        /\ \A n \in Tokens : row'[n] = IF n \in old THEN "deleted" ELSE row[n]
    BY <1>3 DEF CleanUp, outside, request
  <2> QED
    BY <2>1, CalmTime
<1>4. CASE UNCHANGED vars
  BY <1>4, CalmTime DEF vars
<1> QED
  BY <1>1, <1>2, <1>3, <1>4

LEMMA InitCalm == Init => OwnersInv /\ CalmInv
<1> SUFFICES ASSUME Init PROVE OwnersInv /\ CalmInv
  OBVIOUS
<1>1. /\ \A r \in Requests : /\ pc[r] = "idle" /\ job[r] = "none"
                             /\ token[r] = 0 /\ minted[r] = 0
      /\ \A b \in Browsers : jar[b] = 0
  BY DEF Init
<1>2. OwnersInv
  BY <1>1 DEF OwnersInv, CookiesHaveOwners, AnswersAreNew, JobsFitSteps
<1>3. CalmInv
  BY <1>1 DEF CalmInv, CookieWorks, AnswerWorks, RefreshIsFresh
<1> QED
  BY <1>2, <1>3

LEMMA NextCalm == SessionsInv /\ OwnersInv /\ CalmInv /\ [Next]_vars => CalmInv'
<1> SUFFICES ASSUME SessionsInv, OwnersInv, CalmInv, [Next]_vars PROVE CalmInv'
  OBVIOUS
<1>1. ASSUME NEW r \in Requests, RequestStep(r)
      PROVE  CalmInv'
  <2>1. CASE Fail(r)
    BY <2>1, CalmLeave DEF Fail, database, outside
  <2>2. CASE LoseReply(r)
    BY <2>2 DEF LoseReply, CalmInv
  <2> QED
    BY <1>1, <2>1, <2>2, CalmRead, CalmOn, CalmCommit, CalmReply DEF RequestStep
<1>2. ASSUME NEW r \in Requests, NEW b \in Browsers,
             \/ StartRefresh(r, b) \/ StartLogin(r, b) \/ StartLogout(r, b)
             \/ StartLogoutAll(r, b) \/ StartPassword(r, b)
      PROVE  CalmInv'
  BY <1>2, CalmStart
  DEF StartRefresh, StartLogin, StartLogout, StartLogoutAll, StartPassword, Jobs
<1>3. CASE (\E n \in Tokens : GraceEnds(n)) \/ (\E c \in Tokens : Expire(c))
           \/ CleanUp \/ UNCHANGED vars
  BY <1>3, CalmTimes
<1> QED
  BY <1>1, <1>2, <1>3 DEF Next

LEMMA AlwaysCalm == Spec => [](SessionsInv /\ OwnersInv /\ CalmInv)
BY InitInv, NextInv, InitCalm, NextOwners, NextCalm, PTL DEF Spec

\* A failed refresh, a race of tabs or a logout of another browser never logs a
\* browser out (JWTService.refresh_service): at rest, and with nothing that came
\* between, its cookie works or its login has expired.
THEOREM RestingIsLoggedIn == Spec => []RestingBrowserIsLoggedIn
<1>1. SessionsInv /\ OwnersInv /\ CalmInv => RestingBrowserIsLoggedIn
  BY DEF RestingBrowserIsLoggedIn, CalmInv, CookieWorks, Answering, Works
<1> QED
  BY <1>1, AlwaysCalm, PTL

\* Only the loser of a rotation begins the wipe.
LEMMA OnlyALoserWipes ==
    ASSUME SessionsInv, [Next]_vars, NEW r \in Requests, job'[r] = "wipe", job[r] # "wipe"
    PROVE  Reread(r) /\ row[token[r]] # "rotated"
<1>1. ASSUME NEW u \in Requests, NEW b \in Browsers,
             \/ StartRefresh(u, b) \/ StartLogin(u, b) \/ StartLogout(u, b)
             \/ StartLogoutAll(u, b) \/ StartPassword(u, b)
      PROVE  FALSE
  BY <1>1 DEF StartRefresh, StartLogin, StartLogout, StartLogoutAll, StartPassword,
              Start, SessionsInv, TypeOK
<1>2. ASSUME NEW u \in Requests, RequestStep(u)
      PROVE  Reread(r) /\ row[token[r]] # "rotated"
  <2>1. CASE u # r
    BY <1>2, <2>1, RequestGrowth DEF Aside
  <2>2. CASE u = r
    <3>1. CASE Leave(r)
      BY <3>1 DEF Leave, SessionsInv, TypeOK
    <3>2. CASE ~Leave(r)
      BY <1>2, <2>2, <3>2
      DEF RequestStep, ReadToken, Rotate, Reread, Mint, Track, RevokeSingle, UpdateEnded,
          Snapshot, Sweep, Range, Revoke, Commit, Reply, LoseReply, Fail,
          SessionsInv, TypeOK
    <3> QED
      BY <3>1, <3>2
  <2> QED
    BY <2>1, <2>2
<1>3. CASE (\E n \in Tokens : GraceEnds(n)) \/ (\E c \in Tokens : Expire(c))
           \/ CleanUp \/ UNCHANGED vars
  BY <1>3 DEF GraceEnds, Expire, CleanUp, request, vars
<1> QED
  BY <1>1, <1>2, <1>3 DEF Next

\* The grace window (ADR 0013, JWTService.refresh_service): tabs that refresh
\* together, however they race, are never taken for a replay.
THEOREM TabsAreSafe == Spec => TabsDoNotWipe
<1>1. ASSUME SessionsInv, OwnersInv, CalmInv, [Next]_vars,
             NEW r \in Requests, job'[r] = "wipe", job[r] # "wipe"
      PROVE  ~calm
  BY <1>1, OnlyALoserWipes DEF Reread, CalmInv, RefreshIsFresh, OwnersInv, JobsFitSteps
<1>2. SessionsInv /\ OwnersInv /\ CalmInv /\ [Next]_vars =>
         [\A r \in Requests : job'[r] = "wipe" /\ job[r] # "wipe" => ~calm]_vars
  BY <1>1
<1> QED
  BY <1>2, AlwaysCalm, PTL DEF Spec, TabsDoNotWipe
-----------------------------------------------------------------------------
(***************************************************************************)
(* The book of SessionBook.  It changes with the rows, so only when a      *)
(* transaction commits, and when the cleanup does: every other step leaves *)
(* it as it is, whatever the request has locked or inserted.               *)
(***************************************************************************)

\* Which tokens work, and for which login, is all that the book knows.
LEMMA SameBook ==
    ASSUME \A n \in Tokens : /\ row'[n] = "live" <=> row[n] = "live"
                             /\ row'[n] = "none" <=> row[n] = "none"
                             /\ row[n] = "live" => chain'[n] = chain[n]
    PROVE  UNCHANGED <<Working, Known>>
<1>1. Known' = Known
  BY DEF Known
<1>2. Live' = Live
  BY DEF Live
<1>3. \A n \in Live : chain'[n] = chain[n]
  BY DEF Live
<1>4. Working' = Working
  BY <1>2, <1>3 DEF Working
<1> QED
  BY <1>1, <1>4

LEMMA SameRows ==
    ASSUME row' = row, chain' = chain
    PROVE  UNCHANGED <<Working, Known>>
BY SameBook

\* An inserted token works for nobody before its commit.
LEMMA MintInBook ==
    ASSUME SessionsInv, NEW r \in Requests, Mint(r)
    PROVE  UNCHANGED <<Working, Known>>
<1>1. row' = row
  BY DEF Mint
<1>2. CASE chain' = chain
  BY <1>1, <1>2, SameRows
<1>3. CASE chain' # chain
  <2>1. last \in Nat /\ chain \in [Tokens -> 0 .. MaxTokens]
    BY DEF SessionsInv, TypeOK
  <2>2. \A n \in Tokens : n # last + 1 => chain'[n] = chain[n]
    BY <1>3, <2>1 DEF Mint
  <2>3. \A n \in Tokens : row[n] = "live" => n # last + 1
    BY <2>1 DEF SessionsInv, TokensHaveRoots, Tokens
  <2> QED
    BY <1>1, <2>2, <2>3, SameBook
<1> QED
  BY <1>2, <1>3

\* The pairs of the book that a set of tokens stands for.
Pages(N) == {<<chain[n], n>> : n \in Live \cap N}

\* A step that only takes tokens out of use ends the sessions they stand for.
LEMMA EndsInBook ==
    ASSUME NEW N, chain' = chain,
           \A n \in Tokens \cap N : row'[n] \notin {"none", "live"} /\ row[n] # "none",
           \A n \in Tokens \ N : row'[n] = row[n]
    PROVE  Book!BookNext
<1>1. Known' = Known
  BY DEF Known
<1>2. Live' = Live \ N
  BY DEF Live
<1>3. Working' = {<<chain[n], n>> : n \in Live \ N}
  BY <1>2 DEF Working
<1>4. Working' = Working \ Pages(N)
  BY <1>3 DEF Working, Pages
<1>5. Pages(N) \in SUBSET Working
  BY DEF Pages, Working
<1> QED
  BY <1>1, <1>4, <1>5 DEF Book!BookNext, Book!EndAll

\* What becomes of the book when a transaction that has minted commits.
LEMMA MintedInBook ==
    ASSUME SessionsInv, NEW r \in Requests, Commit(r), Minting(r)
    PROVE  /\ minted[r] \in Tokens /\ minted[r] \notin Known
           /\ Known' = Known \cup {minted[r]}
           /\ chain' = chain
           /\ Live' = (Live \ held[r]) \cup {minted[r]}
<1>1. chain' = chain
  BY DEF Commit
<1>2. row[minted[r]] = "none"
  BY DEF SessionsInv, RotationsHoldTheirToken
<1>3. /\ minted[r] \in Tokens /\ row'[minted[r]] = "live"
      /\ \A n \in held[r] : n \in Tokens /\ row'[n] \notin {"none", "live"}
      /\ \A n \in Tokens : n \notin held[r] /\ n # minted[r] => row'[n] = row[n]
  BY CommitRows
<1>4. \A n \in held[r] : row[n] # "none"
  BY DEF SessionsInv, StepsKeepTrack
<1>5. Known' = Known \cup {minted[r]} /\ minted[r] \notin Known
  BY <1>2, <1>3, <1>4 DEF Known
<1>6. Live' = (Live \ held[r]) \cup {minted[r]}
  BY <1>2, <1>3 DEF Live
<1> QED
  BY <1>1, <1>3, <1>5, <1>6

LEMMA CommitInBook ==
    ASSUME SessionsInv, NEW r \in Requests, Commit(r)
    PROVE  Book!BookNext
<1>1. CASE ~Minting(r)
  <2>1. chain' = chain
    BY DEF Commit
  <2>2. \A n \in held[r] : row'[n] \notin {"none", "live"} /\ row[n] # "none"
    BY CommitRows DEF SessionsInv, StepsKeepTrack
  <2>3. \A n \in Tokens \ held[r] : row'[n] = row[n]
    BY <1>1, CommitRows
  <2> QED
    BY <2>1, <2>2, <2>3, EndsInBook
<1>2. CASE Minting(r) /\ job[r] = "login"
  <2>1. held[r] = {} /\ chain[minted[r]] = minted[r]
    BY <1>2 DEF SessionsInv, StepsKeepTrack, RotationsHoldTheirToken
  <2>2. Live' = Live \cup {minted[r]} /\ chain' = chain
    BY <1>2, <2>1, MintedInBook
  <2>3. Working' = Working \cup {<<minted[r], minted[r]>>}
    BY <2>1, <2>2 DEF Working
  <2>4. Book!Begin(minted[r])
    BY <1>2, <2>3, MintedInBook DEF Book!Begin
  <2> QED
    BY <1>2, <2>4, MintedInBook DEF Book!BookNext
<1>3. CASE Minting(r) /\ job[r] = "refresh"
  <2> DEFINE m == token[r]
             n == minted[r]
             c == chain[m]
  <2>1. held[r] = {m} /\ row[m] = "live" /\ chain[n] = c
    BY <1>3 DEF SessionsInv, RotationsHoldTheirToken, Minting
  <2>2. m \in Tokens
    BY <2>1 DEF SessionsInv, TypeOK
  <2>3. c \in Tokens
    BY <2>1, <2>2 DEF SessionsInv, TokensHaveRoots, TypeOK, Tokens
  <2>4. m \in Live
    BY <2>1, <2>2 DEF Live
  <2>5. Live' = (Live \ {m}) \cup {n} /\ chain' = chain
    BY <1>3, <2>1, MintedInBook
  <2>6. Working' = {<<chain[k], k>> : k \in (Live \ {m}) \cup {n}}
    BY <2>5 DEF Working
  <2>7. Working' = (Working \ {<<c, m>>}) \cup {<<c, n>>}
    BY <2>1, <2>6 DEF Working
  <2>8. Book!Renew(c, m, n)
    BY <1>3, <2>4, <2>7, MintedInBook DEF Book!Renew, Working
  <2> QED
    BY <1>3, <2>2, <2>3, <2>8, MintedInBook DEF Book!BookNext
<1> QED
  BY <1>1, <1>2, <1>3 DEF Minting

\* The other steps of requests keep the rows as they are.
LEMMA RequestInBook ==
    ASSUME SessionsInv, NEW r \in Requests, RequestStep(r)
    PROVE  Book!BookNext \/ UNCHANGED <<Working, Known>>
<1>1. CASE Commit(r)
  BY <1>1, CommitInBook
<1>2. CASE Mint(r)
  BY <1>2, MintInBook
<1>3. CASE ~Commit(r) /\ ~Mint(r)
  <2>1. row' = row /\ chain' = chain
    BY <1>3
    DEF RequestStep, ReadToken, Rotate, Reread, Track, RevokeSingle, UpdateEnded,
        Snapshot, Sweep, Range, Revoke, Reply, LoseReply, Fail, database
  <2> QED
    BY <2>1, SameRows
<1> QED
  BY <1>1, <1>2, <1>3

LEMMA StartInBook ==
    ASSUME NEW r \in Requests, NEW b \in Browsers,
           \/ StartRefresh(r, b) \/ StartLogin(r, b) \/ StartLogout(r, b)
           \/ StartLogoutAll(r, b) \/ StartPassword(r, b)
    PROVE  UNCHANGED <<Working, Known>>
<1>1. row' = row /\ chain' = chain
  BY DEF StartRefresh, StartLogin, StartLogout, StartLogoutAll, StartPassword, Start,
         database
<1> QED
  BY <1>1, SameRows

\* Time: the grace window is over for a token that no longer worked, and the
\* cleanup ends what has expired.
LEMMA TimeInBook ==
    ASSUME SessionsInv,
           (\E n \in Tokens : GraceEnds(n)) \/ (\E c \in Tokens : Expire(c))
           \/ CleanUp \/ UNCHANGED vars
    PROVE  Book!BookNext \/ UNCHANGED <<Working, Known>>
<1>1. ASSUME NEW n \in Tokens, GraceEnds(n)
      PROVE  UNCHANGED <<Working, Known>>
  <2>1. /\ row[n] = "rotated" /\ row'[n] = "aged"
        /\ \A m \in Tokens : m # n => row'[m] = row[m]
        /\ chain' = chain
    BY <1>1 DEF GraceEnds, SessionsInv, TypeOK
  <2> QED
    BY <2>1, SameBook
<1>2. ASSUME NEW c \in Tokens, Expire(c)
      PROVE  UNCHANGED <<Working, Known>>
  BY <1>2, SameRows DEF Expire, database
<1>3. CASE CleanUp
  <2> DEFINE old == {n \in Stored : chain[n] \in expired}
  <2>1. chain' = chain /\ \A n \in Tokens : row'[n] = IF n \in old THEN "deleted"
                                                                  ELSE row[n]
    BY <1>3 DEF CleanUp
  <2>2. \A n \in old : row[n] # "none"
    BY DEF Stored
  <2> HIDE DEF old
  <2> QED
    BY <2>1, <2>2, EndsInBook
<1>4. CASE UNCHANGED vars
  BY <1>4, SameRows DEF vars
<1> QED
  BY <1>1, <1>2, <1>3, <1>4

LEMMA InitInBook == Init => Book!BookInit
<1> SUFFICES ASSUME Init PROVE Book!BookInit
  OBVIOUS
<1>1. \A n \in Tokens : row[n] = "none"
  BY DEF Init
<1>2. Live = {} /\ Known = {}
  BY <1>1 DEF Live, Known
<1> QED
  BY <1>2 DEF Working, Book!BookInit

LEMMA StepInBook ==
    ASSUME SessionsInv, [Next]_vars
    PROVE  [Book!BookNext]_(Book!bookVars)
<1>1. ASSUME NEW r \in Requests, RequestStep(r)
      PROVE  Book!BookNext \/ UNCHANGED <<Working, Known>>
  BY <1>1, RequestInBook
<1>2. ASSUME NEW r \in Requests, NEW b \in Browsers,
             \/ StartRefresh(r, b) \/ StartLogin(r, b) \/ StartLogout(r, b)
             \/ StartLogoutAll(r, b) \/ StartPassword(r, b)
      PROVE  UNCHANGED <<Working, Known>>
  BY <1>2, StartInBook
<1>3. ASSUME \/ \E n \in Tokens : GraceEnds(n)
             \/ \E c \in Tokens : Expire(c)
             \/ CleanUp \/ UNCHANGED vars
      PROVE  Book!BookNext \/ UNCHANGED <<Working, Known>>
  BY <1>3, TimeInBook
<1>4. Book!BookNext \/ UNCHANGED <<Working, Known>>
  BY <1>1, <1>2, <1>3 DEF Next
<1> QED
  BY <1>4 DEF Book!bookVars

\* JWTService keeps the book (ADR 0013: rotation, logouts, the reuse wipe and
\* the weekly cleanup, over the conditional updates of RefreshTokenRepository):
\* however many requests race or fail, a refresh token makes way once, for the
\* next one of its session, and a session that is over is never brought back.
THEOREM SessionsKeepTheBook == Spec => ImplementsBook
<1>1. SessionsInv /\ [Next]_vars => [Book!BookNext]_(Book!bookVars)
  BY StepInBook
<1> QED
  BY <1>1, InitInBook, SessionsInvariant, PTL DEF Spec, ImplementsBook, Book!BookSpec
=============================================================================
