------------------------------ MODULE Accounts ------------------------------
(***************************************************************************)
(* UserService: accounts, the links that verify an address or reset a      *)
(* password, and deletion.  Accounts are rows of Postgres; links, the      *)
(* pointer to a user's newest link and the cooldowns are keys of Redis;    *)
(* mail is handed to Celery.  Every command is a step: requests run at the *)
(* same time, and any command may fail, be lost, or be applied although    *)
(* its reply is lost.  An operation is its path through the steps.         *)
(*                                                                         *)
(* Links are numbered as they are made, addresses of a user by their       *)
(* changes.  What revoking access tokens does in detail is in Sessions.    *)
(***************************************************************************)
EXTENDS Integers, Sequences

CONSTANTS
    Requests,       \* requests at a time
    Users,          \* accounts, by the address that signs up
    Members,        \* those that are there, and verified, from the beginning
    Admins,         \* those of them with is_admin
    Active,         \* bound: users with requests of their own; the others are
                    \* only named in bulk deletions
    NoUser,         \* whom an idle request is about
    BulkLists,      \* what an administrator may send to bulk-delete
    MaxLinks,       \* bound on links ever made
    MaxChanges,     \* bound on changes of a user's address
    MaxRequests,    \* bound on requests
    MaxFaults       \* bound on failures

ASSUME AccountsAssumption ==
    /\ Admins \subseteq Members /\ Members \cup Active \subseteq Users /\ NoUser \notin Users
    /\ BulkLists \subseteq Seq(Users) \ {<<>>}
    /\ MaxLinks \in Nat
    /\ MaxChanges \in Nat
    /\ MaxRequests \in Nat
    /\ MaxFaults \in Nat

VARIABLES
    user,       \* whether the row of users is there: absent, saved or gone
    address,    \* users.email, by the number of changes before it
    verified,   \* users.is_verified
    access,     \* the user has access tokens that are not revoked
    link,       \* links made so far: [kind, user, address it was made for]
    works,      \* email_verification:<token>, password_reset:<token>
    tracked,    \* email_verification_user:<id>, password_reset_user:<id>
    cooldown,   \* resend_cooldown:<id>, forgot_password_cooldown:<id>
    mailed,     \* links handed to Celery
    pc, job,    \* each request and the step it is at
    who,        \* the user it is about
    token,      \* the link it came with, or has made
    prev,       \* the pointer it has read
    copy,       \* the row as first loaded: the ORM writes what differs from it
    wrote,      \* its transaction has changed the row, and has it locked
    todo,       \* bulk: the users left, the present one first
    report,     \* bulk: the answer so far
    spent,      \* history: the links of the resets committed, in order
    confirmed,  \* history: the address whose link last verified the user
    calm,       \* history: nothing has come between a user's links
    late,       \* history: users that logged in within their own deletion
    started, faults     \* the bounds' counters

row == <<user, address, verified>>
keys == <<works, tracked, cooldown>>
stores == <<user, address, verified, access, link, works, tracked, cooldown,
            mailed, spent, confirmed>>
progress == <<job, who, todo, report>>
memory == <<token, prev, copy, wrote>>
bounds == <<started, faults>>
vars == <<user, address, verified, access, link, works, tracked, cooldown,
          mailed, pc, job, who, token, prev, copy, wrote, todo, report, spent,
          confirmed, calm, late, started, faults>>

Kinds == {"verify", "reset"}
Links == 1 .. Len(link)
NoCopy == [verified |-> FALSE, address |-> 0]
Report == [asked : SUBSET Users, deleted : SUBSET Users, notFound : SUBSET Users,
           admins : SUBSET Users, notProcessed : SUBSET Users]
NoReport == [asked |-> {}, deleted |-> {}, notFound |-> {}, admins |-> {},
             notProcessed |-> {}]

\* The operations that make a link, all but `forgot` a verification link.
Making == {"signup", "resend", "update"}

\* Mutant: the account is committed last, by get_db.
SavedLast == <<"setlink", "track", "enqueue", "save">>

\* "persist first: Redis tokens and the queued email must never outlive a
\* rolled-back user".
SignupPath == <<"save", "setlink", "track", "enqueue">>

\* Behind a cooldown; the link mailed before is deleted.
ResendPath ==
    <<"load", "cooldown", "previous", "drop", "setlink", "track", "enqueue">>

\* Mutant: the link to the old address is left.
KeepingLink == <<"load", "write", "commit", "revoke", "setlink", "track", "enqueue">>

UpdatePath ==
    <<"load", "write", "commit", "revoke", "previous", "drop", "setlink",
      "track", "enqueue">>

\* Mutant: the account is deleted first.
DeletedFirst == <<"load", "commit", "revoke">>

DeletePath == <<"load", "revoke", "commit">>

\* What each operation does, in its order.
Path ==
    [signup |-> SignupPath,
     resend |-> ResendPath,
     forgot |-> ResendPath,
     verify |-> <<"consume", "load", "write", "untrack", "commit">>,
     reset  |-> <<"consume", "load", "write", "untrack", "revoke", "commit">>,
     update |-> UpdatePath,
     delete |-> DeletePath,
     bulk   |-> DeletePath]

Steps == UNION {{Path[j][i] : i \in DOMAIN Path[j]} : j \in DOMAIN Path}

Kind(r) == IF job[r] \in {"forgot", "reset"} THEN "reset" ELSE "verify"

Init ==
    /\ user = [u \in Users |-> IF u \in Members THEN "saved" ELSE "absent"]
    /\ address = [u \in Users |-> 0]
    /\ verified = [u \in Users |-> u \in Members]
    /\ access = [u \in Users |-> FALSE]
    /\ link = <<>>
    /\ works = {}
    /\ tracked = [k \in Kinds |-> [u \in Users |-> 0]]
    /\ cooldown = {}
    /\ mailed = {}
    /\ pc = [r \in Requests |-> "idle"]
    /\ job = [r \in Requests |-> "none"]
    /\ who = [r \in Requests |-> NoUser]
    /\ token = [r \in Requests |-> 0]
    /\ prev = [r \in Requests |-> 0]
    /\ copy = [r \in Requests |-> NoCopy]
    /\ wrote = [r \in Requests |-> FALSE]
    /\ todo = [r \in Requests |-> <<>>]
    /\ report = [r \in Requests |-> NoReport]
    /\ spent = <<>>
    /\ confirmed = [u \in Users |-> 0]
    /\ calm = Kinds \X Users
    /\ late = {}
    /\ started = 0
    /\ faults = 0

-----------------------------------------------------------------------------
Goto(r, step) == pc' = [pc EXCEPT ![r] = step]

\* The request is over; its transaction is rolled back or was committed.
End(r) ==
    /\ Goto(r, "idle")
    /\ job' = [job EXCEPT ![r] = "none"]
    /\ who' = [who EXCEPT ![r] = NoUser]
    /\ token' = [token EXCEPT ![r] = 0]
    /\ prev' = [prev EXCEPT ![r] = 0]
    /\ copy' = [copy EXCEPT ![r] = NoCopy]
    /\ wrote' = [wrote EXCEPT ![r] = FALSE]
    /\ todo' = [todo EXCEPT ![r] = <<>>]
    /\ report' = [report EXCEPT ![r] = NoReport]

\* Its next step, if it has one.
Following(r) ==
    LET path == Path[job[r]]
        i == CHOOSE i \in DOMAIN path : path[i] = pc[r]
    IN  IF i = Len(path) THEN "idle" ELSE path[i + 1]

GoOn(r) ==
    IF Following(r) = "idle" THEN End(r)
    ELSE Goto(r, Following(r)) /\ UNCHANGED <<progress, memory>>

\* The next user of a bulk deletion, whose answer is now n.
NextUser(r, n) ==
    /\ report' = [report EXCEPT ![r] = n]
    /\ todo' = [todo EXCEPT ![r] = Tail(@)]
    /\ IF Len(todo[r]) = 1
       THEN Goto(r, "reply") /\ UNCHANGED who
       ELSE Goto(r, "load") /\ who' = [who EXCEPT ![r] = todo[r][2]]
    /\ UNCHANGED <<job, memory>>

\* Two operations on a user's address and its link.
Cross(j, i) ==
    \/ j = "update" /\ i \in Making \cup {"verify"}
    \/ i = "update" /\ j \in Making \cup {"verify"}
    \/ j = "signup" /\ i \in Making
    \/ i = "signup" /\ j \in Making

-----------------------------------------------------------------------------
(* Requests come in.                                                       *)

Start(r, j, u) ==
    /\ pc[r] = "idle"
    /\ started < MaxRequests
    /\ started' = started + 1
    /\ job' = [job EXCEPT ![r] = j]
    /\ who' = [who EXCEPT ![r] = u]
    /\ Goto(r, Head(Path[j]))
    /\ calm' = IF \E q \in Requests : who[q] = u /\ Cross(j, job[q])
               THEN calm \ {<<"verify", u>>} ELSE calm
    /\ UNCHANGED <<stores, prev, copy, wrote, late, faults>>

\* signup, resend-verification, forgot-password, update-email (the user's and
\* the administrator's), delete-user (likewise).
StartForUser(r, u) ==
    /\ \E j \in {"signup", "resend", "forgot", "update", "delete"} :
          /\ j = "signup" => user[u] # "gone"
          /\ j \in {"update", "delete"} => user[u] # "absent"
          /\ Start(r, j, u)
    /\ UNCHANGED <<token, todo, report>>

\* verify-email, reset-password: a link in somebody's mail is opened, for the
\* first time or again.
OpenLink(r, n) ==
    /\ n \in mailed
    /\ Start(r, link[n].kind, link[n].user)
    /\ token' = [token EXCEPT ![r] = n]
    /\ UNCHANGED <<todo, report>>

\* admin/users/bulk-delete.
StartBulk(r) ==
    \E list \in BulkLists :
        LET asked == {list[i] : i \in DOMAIN list}
        IN  /\ \A u \in asked : user[u] # "absent"
            /\ Start(r, "bulk", list[1])
            /\ todo' = [todo EXCEPT ![r] = list]
            /\ report' = [report EXCEPT ![r] = [NoReport EXCEPT !.asked = asked]]
            /\ UNCHANGED token

-----------------------------------------------------------------------------
(* Postgres.                                                               *)

\* INSERT and commit, or the address is taken.
SaveUser(r) ==
    /\ user' = [user EXCEPT ![who[r]] = "saved"]
    /\ UNCHANGED <<address, verified, access, link, keys, mailed, spent, confirmed>>

Save(r) ==
    /\ pc[r] = "save"
    /\ IF user[who[r]] = "absent"
       THEN SaveUser(r) /\ GoOn(r)
       ELSE UNCHANGED stores /\ End(r)
    /\ UNCHANGED <<calm, late, bounds>>

\* SELECT.  There is nothing to do for a user who is gone, an address that is
\* verified, or an administrator who is to be deleted; a new address may be
\* the old one or taken.
Load(r) ==
    LET u == who[r]
        refused == \/ user[u] # "saved"
                   \/ job[r] = "resend" /\ verified[u]
                   \/ job[r] = "delete" /\ u \in Admins
    IN  /\ pc[r] = "load"
        /\ job[r] # "bulk"
        /\ \/ (refused \/ job[r] = "update") /\ End(r)
           \/ /\ ~refused
              /\ copy' = [copy EXCEPT ![r] = [verified |-> verified[u],
                                              address |-> address[u]]]
              /\ Goto(r, Following(r))
              /\ UNCHANGED <<progress, token, prev, wrote>>
        /\ UNCHANGED <<stores, calm, late, bounds>>

\* The same in a bulk deletion, which goes on with the next user.
LoadNext(r) ==
    LET u == who[r]
    IN  /\ pc[r] = "load"
        /\ job[r] = "bulk"
        /\ IF user[u] # "saved"
           THEN NextUser(r, [report[r] EXCEPT !.notFound = @ \cup {u}])
           ELSE IF u \in Admins
           THEN NextUser(r, [report[r] EXCEPT !.admins = @ \cup {u}])
           ELSE Goto(r, Following(r)) /\ UNCHANGED <<progress, memory>>
        /\ UNCHANGED <<stores, calm, late, bounds>>

\* Another transaction has changed the row; an UPDATE or DELETE waits.
Locked(r) == \E q \in Requests \ {r} : wrote[q] /\ who[q] = who[r]

\* A user who was verified when loaded is written nothing by `verify`.
Flushes(r) == job[r] = "verify" => ~copy[r].verified

\* flush: UPDATE of the columns that differ from the row as it was loaded, if
\* any does.  It waits for the row's lock, and fails if the row is gone
\* (StaleDataError, or the refresh after it), or the new address taken.
Write(r) ==
    LET u == who[r]
    IN  /\ pc[r] = "write"
        /\ Flushes(r) => ~Locked(r)
        /\ \/ (user[u] = "gone" \/ job[r] = "update") /\ End(r)
           \/ /\ user[u] = "saved"
              /\ job[r] = "update" => address[u] < MaxChanges
              /\ wrote' = [wrote EXCEPT ![r] = Flushes(r)]
              /\ copy' = IF job[r] = "update"
                         THEN [copy EXCEPT ![r].address = address[u] + 1]
                         ELSE copy
              /\ Goto(r, Following(r))
              /\ UNCHANGED <<progress, token, prev>>
        /\ UNCHANGED <<stores, calm, late, bounds>>

CommitVerify(r) ==
    /\ job[r] = "verify"
    /\ IF wrote[r]
       THEN /\ verified' = [verified EXCEPT ![who[r]] = TRUE]
            /\ confirmed' = [confirmed EXCEPT ![who[r]] = link[token[r]].address]
       ELSE UNCHANGED <<verified, confirmed>>
    /\ UNCHANGED <<user, address, spent>>

CommitReset(r) ==
    /\ job[r] = "reset"
    /\ spent' = Append(spent, token[r])
    /\ UNCHANGED <<row, confirmed>>

\* is_verified = False is written only if it was loaded as True.
CommitUpdate(r) ==
    /\ job[r] = "update"
    /\ address' = [address EXCEPT ![who[r]] = copy[r].address]
    /\ verified' = [verified EXCEPT ![who[r]] = @ /\ ~copy[r].verified]
    /\ UNCHANGED <<user, spent, confirmed>>

\* DELETE, with the refresh tokens.
CommitDelete(r) ==
    /\ job[r] \in {"delete", "bulk"}
    /\ ~Locked(r)
    /\ user' = [user EXCEPT ![who[r]] = "gone"]
    /\ UNCHANGED <<address, verified, spent, confirmed>>

CommitRow(r) ==
    /\ CommitVerify(r) \/ CommitReset(r) \/ CommitUpdate(r) \/ CommitDelete(r)
    /\ UNCHANGED <<access, link, keys, mailed>>

Commit(r) ==
    /\ pc[r] = "commit"
    /\ CommitRow(r)
    /\ IF job[r] = "bulk"
       THEN NextUser(r, [report[r] EXCEPT !.deleted = @ \cup {who[r]}])
       ELSE IF Following(r) = "idle" THEN End(r)
       ELSE /\ Goto(r, Following(r))
            /\ wrote' = [wrote EXCEPT ![r] = FALSE]
            /\ UNCHANGED <<progress, token, prev, copy>>
    /\ UNCHANGED <<calm, late, bounds>>

-----------------------------------------------------------------------------
(* Redis and Celery.                                                       *)

\* Mutant: GET, and the link is deleted with the pointer to it.
ReadLink(r) == UNCHANGED stores

\* GETDEL: of two who open a link one gets it.
ConsumeLink(r) ==
    /\ works' = works \ {token[r]}
    /\ UNCHANGED <<row, access, link, tracked, cooldown, mailed, spent, confirmed>>

Consume(r) ==
    /\ pc[r] = "consume"
    /\ ConsumeLink(r)
    /\ IF token[r] \in works THEN GoOn(r) ELSE End(r)
    /\ UNCHANGED <<calm, late, bounds>>

\* DEL of the pointer, whatever it points to by now.
DropPointer(r) ==
    /\ tracked' = [tracked EXCEPT ![Kind(r)][who[r]] = 0]
    /\ UNCHANGED <<row, access, link, works, cooldown, mailed, spent, confirmed>>

\* It points to a newer link than the one opened.
DropsNewer(r) == pc[r] = "untrack" /\ tracked[Kind(r)][who[r]] \notin {0, token[r]}

Untrack(r) ==
    /\ pc[r] = "untrack"
    /\ DropPointer(r)
    /\ GoOn(r)
    /\ calm' = IF DropsNewer(r) THEN calm \ {<<Kind(r), who[r]>>} ELSE calm
    /\ UNCHANGED <<late, bounds>>

\* Mutant: SET without NX.
MayAsk(r) == TRUE

\* SET NX: one caller gets the cooldown.
GetsCooldown(r) == <<Kind(r), who[r]>> \notin cooldown

TakeCooldown(r) ==
    /\ cooldown' = cooldown \cup {<<Kind(r), who[r]>>}
    /\ UNCHANGED <<row, access, link, works, tracked, mailed, spent, confirmed>>

Cooldown(r) ==
    /\ pc[r] = "cooldown"
    /\ TakeCooldown(r)
    /\ IF GetsCooldown(r) THEN GoOn(r) ELSE End(r)
    /\ UNCHANGED <<calm, late, bounds>>

\* GET of the pointer to the link mailed before.
Previous(r) ==
    /\ pc[r] = "previous"
    /\ prev' = [prev EXCEPT ![r] = tracked[Kind(r)][who[r]]]
    /\ Goto(r, Following(r))
    /\ UNCHANGED <<stores, progress, token, copy, wrote, calm, late, bounds>>

\* DEL of that link.
DropLink(r) ==
    /\ works' = works \ {prev[r]}
    /\ UNCHANGED <<row, access, link, tracked, cooldown, mailed, spent, confirmed>>

Drop(r) ==
    /\ pc[r] = "drop"
    /\ DropLink(r)
    /\ GoOn(r)
    /\ UNCHANGED <<calm, late, bounds>>

\* SETEX of a new link, for the address the request knows.
MakeLink(r) ==
    /\ Len(link) < MaxLinks
    /\ link' = Append(link, [kind |-> Kind(r), user |-> who[r],
                             address |-> copy[r].address])
    /\ works' = works \cup {Len(link) + 1}
    /\ UNCHANGED <<row, access, tracked, cooldown, mailed, spent, confirmed>>

SetLink(r) ==
    /\ pc[r] = "setlink"
    /\ MakeLink(r)
    /\ token' = [token EXCEPT ![r] = Len(link) + 1]
    /\ Goto(r, Following(r))
    /\ UNCHANGED <<progress, prev, copy, wrote, calm, late, bounds>>

\* SETEX of the pointer to it.
SetPointer(r) ==
    /\ tracked' = [tracked EXCEPT ![Kind(r)][who[r]] = token[r]]
    /\ UNCHANGED <<row, access, link, works, cooldown, mailed, spent, confirmed>>

Track(r) ==
    /\ pc[r] = "track"
    /\ SetPointer(r)
    /\ GoOn(r)
    /\ UNCHANGED <<calm, late, bounds>>

\* enqueue: Celery mails it, at some time.
HandOver(r) ==
    /\ mailed' = mailed \cup {token[r]}
    /\ UNCHANGED <<row, access, link, keys, spent, confirmed>>

Enqueue(r) ==
    /\ pc[r] = "enqueue"
    /\ HandOver(r)
    /\ GoOn(r)
    /\ UNCHANGED <<calm, late, bounds>>

\* _fail_email_request: DEL of the cooldown.
FreeCooldown(r) ==
    /\ cooldown' = cooldown \ {<<Kind(r), who[r]>>}
    /\ UNCHANGED <<row, access, link, works, tracked, mailed, spent, confirmed>>

Free(r) ==
    /\ pc[r] = "free"
    /\ FreeCooldown(r)
    /\ End(r)
    /\ UNCHANGED <<calm, late, bounds>>

\* revoke_access_to_all_tokens.
RevokeAccess(r) ==
    /\ access' = [access EXCEPT ![who[r]] = FALSE]
    /\ UNCHANGED <<row, link, keys, mailed, spent, confirmed>>

Revoke(r) ==
    /\ pc[r] = "revoke"
    /\ RevokeAccess(r)
    /\ GoOn(r)
    /\ UNCHANGED <<calm, late, bounds>>

\* The administrator gets the answer.
Reply(r) ==
    /\ pc[r] = "reply"
    /\ End(r)
    /\ UNCHANGED <<stores, calm, late, bounds>>

-----------------------------------------------------------------------------
(* Failures.                                                               *)

\* The command was applied, and its reply lost.
Applied(r) ==
    \/ pc[r] = "save" /\ user[who[r]] = "absent" /\ SaveUser(r)
    \/ pc[r] = "commit" /\ CommitRow(r)
    \/ pc[r] = "consume" /\ ConsumeLink(r)
    \/ pc[r] = "untrack" /\ DropPointer(r)
    \/ pc[r] = "cooldown" /\ TakeCooldown(r)
    \/ pc[r] = "drop" /\ DropLink(r)
    \/ pc[r] = "setlink" /\ MakeLink(r)
    \/ pc[r] = "track" /\ SetPointer(r)
    \/ pc[r] = "enqueue" /\ HandOver(r)
    \/ pc[r] = "free" /\ FreeCooldown(r)
    \/ pc[r] = "revoke" /\ RevokeAccess(r)

\* Mutant: the user whose tokens could not be revoked is left out.
RestAfter(r) == {todo[r][i] : i \in 2 .. Len(todo[r])}

\* user_ids[index:].
Rest(r) == {todo[r][i] : i \in 1 .. Len(todo[r])}

\* The new address is, or may be, committed and the link to the old one there.
LeavesOldLink(r) ==
    job[r] = "update" /\ pc[r] \in {"commit", "revoke", "previous", "drop"}

\* A bulk deletion stops at the first user whose tokens it cannot revoke, and
\* an e-mail request frees its cooldown; anything else, a database error and a
\* kill end the request.
Fail(r) ==
    /\ pc[r] \notin {"idle", "reply"}
    /\ faults < MaxFaults
    /\ faults' = faults + 1
    /\ UNCHANGED stores \/ Applied(r)
    /\ \/ End(r)
       \/ /\ job[r] = "bulk" /\ pc[r] = "revoke"
          /\ Goto(r, "reply")
          /\ report' = [report EXCEPT ![r].notProcessed = Rest(r)]
          /\ UNCHANGED <<job, who, todo, memory>>
       \/ /\ job[r] \in {"resend", "forgot"}
          /\ pc[r] \in {"previous", "drop", "setlink", "track", "enqueue"}
          /\ Goto(r, "free")
          /\ UNCHANGED <<progress, memory>>
    /\ calm' = IF DropsNewer(r) \/ LeavesOldLink(r)
               THEN calm \ {<<Kind(r), who[r]>>} ELSE calm
    /\ UNCHANGED <<late, started>>

-----------------------------------------------------------------------------
(* Time, and the sessions.                                                 *)

\* 900 s; the pointer, set after its link, outlives it.
LinkExpires(n) ==
    /\ n \in works
    /\ works' = works \ {n}
    /\ UNCHANGED <<row, access, link, tracked, cooldown, mailed, pc, progress,
                   memory, spent, confirmed, calm, late, bounds>>

\* 300 s, much longer than a request with its timeouts.
CooldownEnds(k, u) ==
    /\ <<k, u>> \in cooldown
    /\ \A r \in Requests : who[r] = u => ~(Kind(r) = k /\ job[r] \in {"resend", "forgot"})
    /\ cooldown' = cooldown \ {<<k, u>>}
    /\ UNCHANGED <<row, access, link, works, tracked, mailed, pc, progress,
                   memory, spent, confirmed, calm, late, bounds>>

\* Login and refresh track an access token while the account is there.
LogIn(u) ==
    /\ user[u] = "saved"
    /\ ~access[u]
    /\ access' = [access EXCEPT ![u] = TRUE]
    /\ late' = IF \E r \in Requests : /\ who[r] = u /\ pc[r] = "commit"
                                      /\ job[r] \in {"delete", "bulk"}
               THEN late \cup {u} ELSE late
    /\ UNCHANGED <<row, link, keys, mailed, pc, progress, memory, spent,
                   confirmed, calm, bounds>>

Next ==
    \/ \E r \in Requests :
          \/ \E u \in Active : StartForUser(r, u)
          \/ \E n \in Links : OpenLink(r, n)
          \/ StartBulk(r)
          \/ Save(r) \/ Load(r) \/ LoadNext(r) \/ Write(r) \/ Commit(r)
          \/ Consume(r) \/ Untrack(r) \/ Cooldown(r) \/ Previous(r) \/ Drop(r)
          \/ SetLink(r) \/ Track(r) \/ Enqueue(r) \/ Free(r) \/ Revoke(r)
          \/ Reply(r) \/ Fail(r)
    \/ \E n \in Links : LinkExpires(n)
    \/ \E k \in Kinds, u \in Users : CooldownEnds(k, u)
    \/ \E u \in Users \ Admins : LogIn(u)

Spec == Init /\ [][Next]_vars

-----------------------------------------------------------------------------
TypeOK ==
    /\ user \in [Users -> {"absent", "saved", "gone"}]
    /\ address \in [Users -> 0 .. MaxChanges]
    /\ verified \in [Users -> BOOLEAN]
    /\ access \in [Users -> BOOLEAN]
    /\ link \in Seq([kind : Kinds, user : Users, address : 0 .. MaxChanges])
    /\ Len(link) <= MaxLinks
    /\ works \subseteq Links
    /\ tracked \in [Kinds -> [Users -> 0 .. MaxLinks]]
    /\ cooldown \subseteq Kinds \X Users
    /\ mailed \subseteq Links
    /\ pc \in [Requests -> Steps \cup {"idle", "free", "reply"}]
    /\ job \in [Requests -> DOMAIN Path \cup {"none"}]
    /\ who \in [Requests -> Users \cup {NoUser}]
    /\ token \in [Requests -> 0 .. MaxLinks]
    /\ prev \in [Requests -> 0 .. MaxLinks]
    /\ copy \in [Requests -> [verified : BOOLEAN, address : 0 .. MaxChanges]]
    /\ wrote \in [Requests -> BOOLEAN]
    /\ todo \in [Requests -> Seq(Users)]
    /\ report \in [Requests -> Report]
    /\ spent \in Seq(1 .. MaxLinks)
    /\ confirmed \in [Users -> 0 .. MaxChanges]
    /\ calm \subseteq Kinds \X Users
    /\ late \subseteq Users
    /\ started \in 0 .. MaxRequests
    /\ faults \in 0 .. MaxFaults

\* service.py:85-86: links in Redis and mails in the queue "must never outlive
\* a rolled-back user": whatever fails, they are about accounts that were saved.
LinksNameSavedUsers ==
    \A n \in works \cup mailed : user[link[n].user] # "absent"

\* A change in a transaction is to a row that is there, and is the only one.
RowsAreLocked ==
    \A r \in Requests : wrote[r] => user[who[r]] = "saved" /\ ~Locked(r)

\* A request is at a step of its operation, or at one that a failure led to.
OnPath(r) ==
    /\ pc[r] = "idle" <=> job[r] = "none"
    /\ pc[r] # "idle" =>
          /\ who[r] \in Users
          /\ \/ \E i \in DOMAIN Path[job[r]] : pc[r] = Path[job[r]][i]
             \/ pc[r] = "free" /\ job[r] \in {"resend", "forgot"}
             \/ pc[r] = "reply" /\ job[r] = "bulk"

\* It is about a user who was saved, and its link about the same user.
KnowsUser(r) ==
    /\ pc[r] \notin {"idle", "save", "load", "reply"} => user[who[r]] # "absent"
    /\ job[r] \in {"verify", "reset"} =>
          token[r] \in mailed /\ link[token[r]].user = who[r]
    /\ pc[r] \in {"track", "enqueue"} =>
          token[r] \in Links /\ link[token[r]].user = who[r]

\* Only these change a row that stays.
WritesRow(r) == wrote[r] => job[r] \in {"verify", "reset", "update"}

\* The link of a reset that goes on is the request's alone.
OwnsLink(r) ==
    job[r] = "reset" /\ pc[r] # "consume" =>
        /\ token[r] \notin works
        /\ \A i \in DOMAIN spent : spent[i] # token[r]
        /\ \A q \in Requests \ {r} :
              job[q] = "reset" /\ pc[q] # "consume" => token[q] # token[r]

\* The link of a reset that was committed does not work again.
SpentAreUsed == \A i \in DOMAIN spent : spent[i] \in Links \ works

\* The user who is being deleted is out before the row goes.
LogsOut(r) ==
    job[r] \in {"delete", "bulk"} =>
        /\ pc[r] \in {"revoke", "commit"} => who[r] \notin Admins
        /\ pc[r] = "commit" /\ access[who[r]] => who[r] \in late

AdminsStay == \A u \in Admins : user[u] = "saved"

\* What is left to do, and what the answer says so far, is what was asked.
KeepsAccount(r) ==
    LET p == report[r]
    IN  job[r] = "bulk" =>
            /\ pc[r] # "reply" =>
                  todo[r] # <<>> /\ who[r] = todo[r][1] /\ p.notProcessed = {}
            /\ p.asked = p.deleted \cup p.notFound \cup p.admins \cup
                  (IF pc[r] = "reply" THEN p.notProcessed ELSE Rest(r))
            /\ \A u \in p.asked : user[u] # "absent"
            /\ \A u \in p.deleted \cup p.notFound : user[u] = "gone"
            /\ p.admins \subseteq Admins

\* What holds of each request while others run, fail and end around it.
RequestInOrder(r) ==
    /\ OnPath(r)
    /\ KnowsUser(r)
    /\ WritesRow(r)
    /\ OwnsLink(r)
    /\ LogsOut(r)
    /\ KeepsAccount(r)

\* UserService commits a user before anything in Redis or a mail is about it,
\* and a request that goes on after a wait still has its user, its row and its
\* link to itself.
AccountsInv ==
    /\ TypeOK
    /\ LinksNameSavedUsers
    /\ RowsAreLocked
    /\ SpentAreUsed
    /\ AdminsStay
    /\ \A r \in Requests : RequestInOrder(r)

\* A reset link sets at most one password, however many tabs open it at once
\* and whatever is retried (GETDEL in reset_password_service_via_email).
ResetOnce == \A i, j \in DOMAIN spent : spent[i] = spent[j] => i = j

\* A new link replaces the one mailed before it: of the links of a kind mailed
\* to a user at most one works.  For resets the cooldown alone keeps two
\* requests apart; a pointer that a late `untrack` deletes under a newer link,
\* and operations on the address at the same time, are excepted (calm).
NewestLinkOnly ==
    \A m, n \in works \cap mailed :
        /\ link[m].kind = link[n].kind
        /\ link[m].user = link[n].user
        /\ <<link[m].kind, link[m].user>> \in calm
        => m = n

\* "Change own email (requires re-verification)": a user shown as verified has
\* opened a link mailed to the present address, unless another operation ran
\* at the same time or Redis failed after the change was committed (calm).
VerifiedMeansConfirmed ==
    \A u \in Users \ Admins :
        user[u] = "saved" /\ verified[u] /\ <<"verify", u>> \in calm
        => confirmed[u] = address[u]

\* _delete_user_and_sessions: an account is never deleted "leaving its access
\* tokens usable", save those of a login within the deletion itself.
GoneMeansOut == \A u \in Users : user[u] = "gone" /\ access[u] => u \in late

\* A bulk deletion tells what became of everyone: the deleted are gone, the
\* administrators are not, and who is still there can be retried.
BulkReports ==
    \A r \in Requests : pc[r] = "reply" =>
        LET p == report[r]
        IN  /\ p.asked = p.deleted \cup p.notFound \cup p.admins \cup p.notProcessed
            /\ \A u \in p.deleted \cup p.notFound : user[u] = "gone"
            /\ \A u \in p.admins : u \in Admins /\ user[u] = "saved"
            /\ \A u \in p.asked \ Admins : user[u] = "saved" => u \in p.notProcessed
=============================================================================
