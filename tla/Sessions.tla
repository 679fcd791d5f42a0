------------------------------ MODULE Sessions ------------------------------
(***************************************************************************)
(* JWTService: the sessions of one user.  Requests of several tabs and     *)
(* browsers run at the same time, each in a database transaction of its    *)
(* own that get_db commits before the response is sent.  Refresh tokens    *)
(* are rows of Postgres (READ COMMITTED: a statement that meets a row      *)
(* changed by an open transaction waits for its end and looks again);      *)
(* access tokens are a sorted set and revocation marks in Redis.           *)
(*                                                                         *)
(* A token is a number; the access token minted with it has the same one.  *)
(***************************************************************************)
EXTENDS Integers

CONSTANTS
    Requests,       \* requests at a time, each of some tab
    Browsers,       \* the tabs of a browser share its cookies
    NoBrowser,      \* where an idle request comes from
    MaxTokens,      \* bound on tokens ever minted
    MaxRequests,    \* bound on requests
    MaxFaults       \* bound on failures, lost replies and expired sessions

ASSUME SessionsAssumption ==
    /\ MaxTokens \in Nat
    /\ MaxRequests \in Nat
    /\ MaxFaults \in Nat

VARIABLES
    row,        \* refresh_token, as committed
    chain,      \* the login a token goes back to, by its first token
    last,       \* tokens minted so far
    expired,    \* logins whose expires_at has passed
    access,     \* access tokens in Redis
    jar,        \* each browser's refresh_token cookie, or 0
    pc, job,    \* each request and the step it is at
    from,       \* the browser it came from
    token,      \* the cookie it came with
    held,       \* rows its open transaction has changed and locked
    minted,     \* the row its transaction has inserted, or 0
    seen,       \* what its last range query or statement found
    overlap,    \* tokens that were being minted while it ran
    calm,       \* nothing has come between a browser and its new cookie
    started, faults     \* the bounds' counters

database == <<row, chain, last>>
outside == <<expired, started>>
request == <<pc, job, from, token, held, minted, seen>>
vars == <<row, chain, last, expired, access, jar, pc, job, from, token, held,
          minted, seen, overlap, calm, started, faults>>

Tokens == 1 .. MaxTokens

\* "rotated": revoked_at within the grace window, "aged": before it, "ended":
\* revoked_at is NULL.
RowStatus == {"none", "live", "rotated", "aged", "ended", "deleted"}
Stored == {n \in Tokens : row[n] \notin {"none", "deleted"}}
Live == {n \in Tokens : row[n] = "live"}
Tracked == {n \in Tokens : access[n] = "tracked"}

Jobs == {"none", "refresh", "login", "logout", "logoutAll", "password", "wipe",
         "nothing"}
Steps == {"single", "read", "update", "reread", "mint", "track", "snapshot",
          "sweep", "range", "revoke", "commit", "reply"}

\* Jobs that end sessions, and those of them that end every one.
Sweeping == {"logoutAll", "password", "wipe"}
Ending == Sweeping \cup {"logout"}

Init ==
    /\ row = [n \in Tokens |-> "none"]
    /\ chain = [n \in Tokens |-> 0]
    /\ last = 0
    /\ expired = {}
    /\ access = [n \in Tokens |-> "none"]
    /\ jar = [b \in Browsers |-> 0]
    /\ pc = [r \in Requests |-> "idle"]
    /\ job = [r \in Requests |-> "none"]
    /\ from = [r \in Requests |-> NoBrowser]
    /\ token = [r \in Requests |-> 0]
    /\ held = [r \in Requests |-> {}]
    /\ minted = [r \in Requests |-> 0]
    /\ seen = [r \in Requests |-> {}]
    /\ overlap = [r \in Requests |-> {}]
    /\ calm = TRUE
    /\ started = 0
    /\ faults = 0

-----------------------------------------------------------------------------
Goto(r, step) == pc' = [pc EXCEPT ![r] = step]

LockedByOthers(r) == UNION {held[u] : u \in Requests \ {r}}

\* The transaction is over, and the request with it: rollback or reply.
Leave(r) ==
    /\ Goto(r, "idle")
    /\ job' = [job EXCEPT ![r] = "none"]
    /\ from' = [from EXCEPT ![r] = NoBrowser]
    /\ token' = [token EXCEPT ![r] = 0]
    /\ held' = [held EXCEPT ![r] = {}]
    /\ minted' = [minted EXCEPT ![r] = 0]
    /\ seen' = [seen EXCEPT ![r] = {}]
    /\ overlap' = [overlap EXCEPT ![r] = {}]

Fault == faults < MaxFaults /\ faults' = faults + 1

\* The tokens of requests that have inserted a row and not yet ended.
BeingMinted == {minted[u] : u \in Requests} \ {0}

\* Another tab has logged out and its response has not arrived.
CrossesLogout(b) ==
    \E u \in Requests : /\ from[u] = b
                        /\ pc[u] = "reply"
                        /\ job[u] \in {"logout", "logoutAll"}

\* A request comes in with its browser's cookie; without one only login and
\* the password forms do anything.
Start(r, b, j, step) ==
    /\ pc[r] = "idle"
    /\ started < MaxRequests
    /\ started' = started + 1
    /\ j \in {"refresh", "logout", "logoutAll"} => jar[b] # 0
    /\ Goto(r, step)
    /\ job' = [job EXCEPT ![r] = j]
    /\ from' = [from EXCEPT ![r] = b]
    /\ token' = [token EXCEPT ![r] = jar[b]]
    /\ overlap' = IF j \in Ending THEN [overlap EXCEPT ![r] = BeingMinted]
                                  ELSE overlap
    /\ calm' = (calm /\ (j = "refresh" => ~CrossesLogout(b)))
    /\ UNCHANGED <<database, expired, access, jar, held, minted, seen, faults>>

StartRefresh(r, b) == Start(r, b, "refresh", "read")
StartLogin(r, b) == Start(r, b, "login", "read")
StartLogout(r, b) == Start(r, b, "logout", "single")
StartLogoutAll(r, b) == Start(r, b, "logoutAll", "read")
\* update_user_password_service, reset_password_service_via_email.
StartPassword(r, b) == Start(r, b, "password", "snapshot")

\* decode_token, get_refresh_token_by_jti and what each service makes of the
\* answer.  A token may expire between the two.
ReadToken(r) ==
    LET n == token[r]
        usable == n \in Live
        unusable == ~(n \in Live /\ chain[n] \notin expired)
        Continue(j, step) == /\ Goto(r, step)
                             /\ job' = [job EXCEPT ![r] = j]
                             /\ UNCHANGED <<from, token, held, minted, seen, overlap>>
    IN  /\ pc[r] = "read"
        /\ \/ job[r] = "refresh" /\ n \in Stored /\ Continue("refresh", "update")
           \/ job[r] = "login" /\ unusable /\ Continue("login", "mint")
           \/ job[r] = "logout" /\ usable /\ Continue("logout", "update")
           \/ job[r] = "logoutAll" /\ usable /\ Continue("logoutAll", "snapshot")
           \/ /\ job[r] \in {"logout", "logoutAll"}
              /\ unusable
              /\ Continue("nothing", "reply")
           \/ /\ job[r] = "refresh"
              /\ ~(n \in Stored /\ chain[n] \notin expired)
              /\ Leave(r)
           \/ job[r] = "login" /\ usable /\ Leave(r)
        /\ UNCHANGED <<database, outside, access, jar, calm, faults>>

\* Mutant: the row is read first and written whatever has happened since.
RotateUnconditionally(r) ==
    /\ pc[r] = "update" /\ job[r] = "refresh"
    /\ token[r] \notin LockedByOthers(r)
    /\ token[r] \in Stored
    /\ held' = [held EXCEPT ![r] = {token[r]}]
    /\ Goto(r, "mint")
    /\ UNCHANGED <<database, outside, access, jar, job, from, token, minted, seen,
                   overlap, calm, faults>>

\* Mutant: the rotation is committed by itself, before the new token exists.
RotateAndCommit(r) ==
    /\ pc[r] = "update" /\ job[r] = "refresh"
    /\ token[r] \notin LockedByOthers(r)
    /\ IF token[r] \in Live
       THEN row' = [row EXCEPT ![token[r]] = "rotated"] /\ Goto(r, "mint")
       ELSE Goto(r, "reread") /\ UNCHANGED row
    /\ UNCHANGED <<chain, last, outside, access, jar, job, from, token, held,
                   minted, seen, overlap, calm, faults>>

\* revoke_refresh_token: one conditional UPDATE.
Rotate(r) ==
    /\ pc[r] = "update" /\ job[r] = "refresh"
    /\ token[r] \notin LockedByOthers(r)
    /\ IF token[r] \in Live
       THEN held' = [held EXCEPT ![r] = {token[r]}] /\ Goto(r, "mint")
       ELSE Goto(r, "reread") /\ UNCHANGED held
    /\ UNCHANGED <<database, outside, access, jar, job, from, token, minted, seen,
                   overlap, calm, faults>>

\* Mutant: every loser is a replay.
RereadStrictly(r) ==
    /\ pc[r] = "reread"
    /\ Goto(r, "snapshot")
    /\ job' = [job EXCEPT ![r] = "wipe"]
    /\ overlap' = [overlap EXCEPT ![r] = BeingMinted]
    /\ UNCHANGED <<database, outside, access, jar, from, token, held, minted,
                   seen, calm, faults>>

\* The loser reads the row again: rotated a moment ago, or reuse.
Reread(r) ==
    /\ pc[r] = "reread"
    /\ \/ /\ row[token[r]] = "rotated"
          /\ Leave(r)
       \/ /\ row[token[r]] # "rotated"
          /\ Goto(r, "snapshot")
          /\ job' = [job EXCEPT ![r] = "wipe"]
          /\ overlap' = [overlap EXCEPT ![r] = BeingMinted]
          /\ UNCHANGED <<from, token, held, minted, seen>>
    /\ UNCHANGED <<database, outside, access, jar, calm, faults>>

\* generate_refresh_token with the old expiry, decode_token, INSERT.
Mint(r) ==
    /\ pc[r] = "mint"
    /\ last < MaxTokens
    /\ IF job[r] = "refresh" /\ chain[token[r]] \in expired
       THEN Leave(r) /\ UNCHANGED <<chain, last>>
       ELSE /\ last' = last + 1
            /\ chain' = [chain EXCEPT ![last + 1] =
                            IF job[r] = "refresh" THEN chain[token[r]] ELSE last + 1]
            /\ minted' = [minted EXCEPT ![r] = last + 1]
            /\ overlap' = [u \in Requests |->
                  IF job[u] \in Ending THEN overlap[u] \cup {last + 1} ELSE overlap[u]]
            /\ Goto(r, "track")
            /\ UNCHANGED <<job, from, token, held, seen>>
    /\ UNCHANGED <<row, outside, access, jar, calm, faults>>

\* generate_access_token: track_access_token.
Track(r) ==
    /\ pc[r] = "track"
    /\ access' = [access EXCEPT ![minted[r]] = "tracked"]
    /\ Goto(r, "commit")
    /\ UNCHANGED <<database, outside, jar, job, from, token, held, minted, seen,
                   overlap, calm, faults>>

\* logout_service: revoke_single_access_token.  A Redis error is swallowed.
RevokeSingle(r) ==
    /\ pc[r] = "single"
    /\ \/ /\ access' = [access EXCEPT ![token[r]] = "revoked"]
          /\ UNCHANGED faults
       \/ Fault /\ UNCHANGED access
    /\ Goto(r, "read")
    /\ UNCHANGED <<database, outside, jar, job, from, token, held, minted, seen,
                   overlap, calm>>

\* Mutant: the row read before is no longer attached to the session.
UpdateDetached(r) ==
    /\ pc[r] = "update" /\ job[r] = "logout"
    /\ Goto(r, "commit")
    /\ UNCHANGED <<database, outside, access, jar, job, from, token, held, minted,
                   seen, overlap, calm, faults>>

\* update_refresh_token: the row read before is written by its key.  If it
\* has been deleted the flush finds no row, which is an error.
UpdateEnded(r) ==
    /\ pc[r] = "update" /\ job[r] = "logout"
    /\ token[r] \notin LockedByOthers(r)
    /\ IF token[r] \in Stored
       THEN /\ held' = [held EXCEPT ![r] = {token[r]}]
            /\ Goto(r, "commit")
            /\ UNCHANGED <<job, from, token, minted, seen, overlap>>
       ELSE Leave(r)
    /\ UNCHANGED <<database, outside, access, jar, calm, faults>>

\* update_refresh_token_to_revoke and delete_all_refresh_tokens_for_user: the
\* statement's snapshot, ...
Matching(j) == IF j = "logoutAll" THEN Live ELSE Stored

Snapshot(r) ==
    /\ pc[r] = "snapshot"
    /\ seen' = [seen EXCEPT ![r] = Matching(job[r])]
    /\ Goto(r, "sweep")
    /\ UNCHANGED <<database, outside, access, jar, job, from, token, held, minted,
                   overlap, calm, faults>>

\* ... and, when no other transaction holds one of these rows, those of them
\* that still match.
Sweep(r) ==
    /\ pc[r] = "sweep"
    /\ seen[r] \cap LockedByOthers(r) = {}
    /\ held' = [held EXCEPT ![r] = seen[r] \cap Matching(job[r])]
    /\ seen' = [seen EXCEPT ![r] = {}]
    /\ Goto(r, IF job[r] = "wipe" THEN "commit" ELSE "range")
    /\ UNCHANGED <<database, outside, access, jar, job, from, token, minted,
                   overlap, calm, faults>>

\* Mutant: the tokens whose score is past are taken instead of the others.
RangeOfPast(r) ==
    /\ pc[r] = "range"
    /\ seen' = [seen EXCEPT ![r] = {}]
    /\ Goto(r, "revoke")
    /\ UNCHANGED <<database, outside, access, jar, job, from, token, held, minted,
                   overlap, calm, faults>>

\* revoke_access_to_all_tokens: the range query, ...
Range(r) ==
    /\ pc[r] = "range"
    /\ seen' = [seen EXCEPT ![r] = Tracked]
    /\ Goto(r, "revoke")
    /\ UNCHANGED <<database, outside, access, jar, job, from, token, held, minted,
                   overlap, calm, faults>>

\* ... then token by token, until Redis fails.  The failure rolls back a
\* logout-all or a new password; after a wipe it is swallowed.
Revoke(r) ==
    /\ pc[r] = "revoke"
    /\ \E done \in SUBSET (seen[r] \cap Tracked) :
          /\ access' = [n \in Tokens |-> IF n \in done THEN "revoked" ELSE access[n]]
          /\ IF done = seen[r] \cap Tracked THEN UNCHANGED faults ELSE Fault
          /\ IF job[r] # "wipe" /\ done = seen[r] \cap Tracked
             THEN /\ Goto(r, "commit")
                  /\ seen' = [seen EXCEPT ![r] = {}]
                  /\ UNCHANGED <<job, from, token, held, minted, overlap>>
             ELSE Leave(r)
    /\ UNCHANGED <<database, outside, jar, calm>>

-----------------------------------------------------------------------------
\* What the rows changed by r become when its transaction commits.
Changed(r, n) ==
    CASE job[r] \in {"refresh", "logoutAll"} -> "rotated"
      [] job[r] = "logout" -> IF row[n] = "live" THEN "ended" ELSE row[n]
      [] OTHER -> "deleted"

Apply(r) ==
    row' = [n \in Tokens |->
        IF n \in held[r] THEN Changed(r, n)
        ELSE IF n = minted[r] THEN "live" ELSE row[n]]

\* The commit ends a session that another tab or browser still relies on.
Disturbs(r) ==
    /\ job[r] \in Ending
    /\ \E n \in held[r] :
          \/ \E u \in Requests \ {r} : n \in {token[u], minted[u]}
          \/ \E b \in Browsers :
                jar[b] = n /\ (b # from[r] \/ job[r] \notin {"logout", "logoutAll"})

\* get_db commits.  A wipe commits by itself and goes on with Redis.
Commit(r) ==
    /\ pc[r] = "commit"
    /\ Apply(r)
    /\ calm' = (calm /\ ~Disturbs(r))
    /\ held' = [held EXCEPT ![r] = {}]
    /\ Goto(r, IF job[r] = "wipe" THEN "range" ELSE "reply")
    /\ UNCHANGED <<chain, last, outside, access, jar, job, from, token, minted, seen,
                   overlap, faults>>

\* Mutant: the response is sent first, as with get_db's default scope.
ReplyEarly(r) ==
    /\ pc[r] \in {"commit", "reply"}
    /\ job[r] # "wipe"
    /\ jar' = [jar EXCEPT ![from[r]] =
                  CASE job[r] \in {"refresh", "login"} -> minted[r]
                    [] job[r] = "password" -> jar[from[r]]
                    [] OTHER -> 0]
    /\ IF pc[r] = "reply" THEN Leave(r)
       ELSE UNCHANGED <<pc, job, from, token, held, minted, seen, overlap>>
    /\ UNCHANGED <<database, outside, access, calm, faults>>

\* The response arrives: its cookie replaces the browser's.
Reply(r) ==
    /\ pc[r] = "reply"
    /\ jar' = [jar EXCEPT ![from[r]] =
                  CASE job[r] \in {"refresh", "login"} -> minted[r]
                    [] job[r] = "password" -> jar[from[r]]
                    [] OTHER -> 0]
    /\ Leave(r)
    /\ UNCHANGED <<database, outside, access, calm, faults>>

\* The commit was applied, but its reply or the response is lost.
LoseReply(r) ==
    /\ pc[r] = "reply"
    /\ Fault
    /\ calm' = FALSE
    /\ Leave(r)
    /\ UNCHANGED <<database, outside, access, jar>>

\* The database or Redis fails, or the process dies, before the commit:
\* get_db rolls back.  What Redis was told stays.
Fail(r) ==
    /\ pc[r] \in Steps \ {"reply"}
    /\ Fault
    /\ Leave(r)
    /\ UNCHANGED <<database, outside, access, jar, calm>>

-----------------------------------------------------------------------------
\* REFRESH_GRACE_SECONDS go by.  A request or a browser that still has the
\* token has been slow.
GraceEnds(n) ==
    /\ row[n] = "rotated"
    /\ row' = [row EXCEPT ![n] = "aged"]
    /\ calm' = (calm /\ \A r \in Requests : token[r] # n)
    /\ UNCHANGED <<chain, last, outside, access, jar, request, overlap, faults>>

\* expires_at passes: every token of a login has the login's.
Expire(c) ==
    /\ c \in {chain[n] : n \in Tokens} \ (expired \cup {0})
    /\ Fault
    /\ expired' = expired \cup {c}
    /\ UNCHANGED <<database, started, access, jar, request, overlap, calm>>

\* cleanup_expired_refresh_tokens, the weekly task, with its commit.
CleanUp ==
    LET old == {n \in Stored : chain[n] \in expired}
    IN  /\ old # {}
        /\ \A r \in Requests : old \cap held[r] = {}
        /\ row' = [n \in Tokens |-> IF n \in old THEN "deleted" ELSE row[n]]
        /\ calm' = (calm /\ \A r \in Requests : token[r] \notin old)
        /\ UNCHANGED <<chain, last, outside, access, jar, request, overlap, faults>>

RequestStep(r) ==
    \/ ReadToken(r) \/ Rotate(r) \/ Reread(r) \/ Mint(r) \/ Track(r)
    \/ RevokeSingle(r) \/ UpdateEnded(r) \/ Snapshot(r) \/ Sweep(r)
    \/ Range(r) \/ Revoke(r) \/ Commit(r) \/ Reply(r) \/ LoseReply(r)
    \/ Fail(r)

Next ==
    \/ \E r \in Requests :
          \/ \E b \in Browsers :
                \/ StartRefresh(r, b) \/ StartLogin(r, b) \/ StartLogout(r, b)
                \/ StartLogoutAll(r, b) \/ StartPassword(r, b)
          \/ RequestStep(r)
    \/ \E n \in Tokens : GraceEnds(n)
    \/ \E c \in Tokens : Expire(c)
    \/ CleanUp

Spec == Init /\ [][Next]_vars

-----------------------------------------------------------------------------
TypeOK ==
    /\ row \in [Tokens -> RowStatus]
    /\ chain \in [Tokens -> 0 .. MaxTokens]
    /\ last \in 0 .. MaxTokens
    /\ expired \subseteq Tokens
    /\ access \in [Tokens -> {"none", "tracked", "revoked"}]
    /\ jar \in [Browsers -> 0 .. MaxTokens]
    /\ pc \in [Requests -> Steps \cup {"idle"}]
    /\ job \in [Requests -> Jobs]
    /\ from \in [Requests -> Browsers \cup {NoBrowser}]
    /\ token \in [Requests -> 0 .. MaxTokens]
    /\ held \in [Requests -> SUBSET Tokens]
    /\ minted \in [Requests -> 0 .. MaxTokens]
    /\ seen \in [Requests -> SUBSET Tokens]
    /\ overlap \in [Requests -> SUBSET Tokens]
    /\ calm \in BOOLEAN
    /\ faults \in 0 .. MaxFaults

\* ADR 0013, "a refresh token is single-use": whatever races, a login never
\* has two refresh tokens that still work.
OneLivePerSession ==
    \A m, n \in Live : chain[m] = chain[n] => m = n

\* get_db's scope="function": a cookie is sent only when its row is saved.
CookiesAreSaved == \A b \in Browsers : jar[b] # 0 => row[jar[b]] # "none"

\* Tokens are numbered in order, and a token that was ever saved goes back to
\* a login that was.
TokensHaveRoots ==
    \A n \in Tokens :
        /\ n > last => row[n] = "none" /\ chain[n] = 0
        /\ n <= last => chain[n] \in 1 .. n
        /\ row[n] # "none" => n <= last /\ row[chain[n]] # "none"

\* Jobs that mint, between the INSERT and the commit.
Minting(r) == pc[r] \in {"track", "commit"} /\ job[r] \in {"refresh", "login"}

\* Where a request is tells what its transaction has done.
StepsKeepTrack(r) ==
    /\ pc[r] \in {"mint", "track"} => job[r] \in {"refresh", "login"}
    /\ pc[r] \in {"snapshot", "sweep", "range", "revoke"} => job[r] \in Sweeping
    /\ minted[r] # 0 <=> /\ pc[r] \in {"track", "commit", "reply"}
                         /\ job[r] \in {"refresh", "login"}
    /\ held[r] # {} => pc[r] \in {"mint", "track", "range", "revoke", "commit"}
    /\ \A n \in held[r] : row[n] # "none"
    /\ job[r] = "login" => held[r] = {}
    /\ token[r] # 0 => row[token[r]] # "none"
    /\ pc[r] = "reply" /\ minted[r] # 0 => row[minted[r]] # "none"

\* A rotation keeps the old row, alive and locked, until its new one is there.
RotationsHoldTheirToken(r) ==
    /\ job[r] = "refresh" /\ pc[r] \in {"mint", "track", "commit"} =>
          held[r] = {token[r]} /\ row[token[r]] = "live"
    /\ Minting(r) =>
          /\ minted[r] <= last
          /\ row[minted[r]] = "none"
          /\ chain[minted[r]] = IF job[r] = "refresh" THEN chain[token[r]]
                                                      ELSE minted[r]

\* Two transactions never change one row, nor insert one token.
RowsAreLockedOnce ==
    \A q, r \in Requests :
        q # r => /\ held[q] \cap held[r] = {}
                 /\ Minting(q) /\ Minting(r) => minted[q] # minted[r]

SessionsInv ==
    /\ TypeOK
    /\ TokensHaveRoots
    /\ \A r \in Requests : StepsKeepTrack(r)
    /\ \A r \in Requests : RotationsHoldTheirToken(r)
    /\ RowsAreLockedOnce
    /\ OneLivePerSession
    /\ CookiesAreSaved

\* A failed refresh leaves the session as it was: unless something came
\* between (a lost reply, a logout elsewhere, a slow request), a browser
\* without a request in flight has a cookie that works.
RestingBrowserIsLoggedIn ==
    \A b \in Browsers :
        /\ calm
        /\ jar[b] # 0
        /\ \A r \in Requests : from[r] # b
        => row[jar[b]] = "live" \/ chain[jar[b]] \in expired

\* ADR 0013's grace window: tabs that refresh together never have the user's
\* sessions wiped as reuse.
TabsDoNotWipe ==
    [][\A r \in Requests : job'[r] = "wipe" /\ job[r] # "wipe" => ~calm]_vars

\* "Log out of every session", and a new password: when the request has
\* been committed, refresh and access tokens that still work are of logins
\* and refreshes that ran at the same time.
EveryoneIsOut ==
    [][\A r \in Requests :
          pc[r] = "commit" /\ pc'[r] = "reply" /\ job[r] \in {"logoutAll", "password"}
          => (Live \cup Tracked)' \subseteq overlap'[r]]_vars

\* Logout ends its session but for a refresh that ran at the same time (the
\* gap that ADR 0013 knows of).
LogoutEndsSession ==
    [][\A r \in Requests :
          pc[r] = "commit" /\ pc'[r] = "reply" /\ job[r] = "logout"
          => {n \in Live' : chain[n] = chain[token[r]]} \subseteq overlap'[r]]_vars

-----------------------------------------------------------------------------
\* ADR 0013 as SessionBook states it: whatever races or fails, a token is used
\* once, for the next one of its session, and a session that is over stays
\* over; no refresh under way brings it back.
Working == {<<chain[n], n>> : n \in Live}
Known == {n \in Tokens : row[n] # "none"}
Book == INSTANCE SessionBook WITH working <- Working, known <- Known
ImplementsBook == Book!BookSpec
=============================================================================
