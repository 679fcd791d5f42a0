--------------------------- MODULE Accounts_proofs ---------------------------
(* Proofs about Accounts.                                                   *)
EXTENDS Accounts, TLAPS

USE AccountsAssumption

\* The paths, written out.
LEMMA Paths ==
    /\ DOMAIN Path = {"signup", "resend", "forgot", "verify", "reset", "update",
                      "delete", "bulk"}
    /\ Path["signup"] = <<"save", "setlink", "track", "enqueue">>
    /\ Path["resend"] = <<"load", "cooldown", "previous", "drop", "setlink",
                          "track", "enqueue">>
    /\ Path["forgot"] = <<"load", "cooldown", "previous", "drop", "setlink",
                          "track", "enqueue">>
    /\ Path["verify"] = <<"consume", "load", "write", "untrack", "commit">>
    /\ Path["reset"] = <<"consume", "load", "write", "untrack", "revoke", "commit">>
    /\ Path["update"] = <<"load", "write", "commit", "revoke", "previous", "drop",
                          "setlink", "track", "enqueue">>
    /\ Path["delete"] = <<"load", "revoke", "commit">>
    /\ Path["bulk"] = <<"load", "revoke", "commit">>
BY DEF Path, SignupPath, ResendPath, UpdatePath, DeletePath

\* The steps of each operation.
StepOf(j, s) ==
    \/ j = "signup" /\ s \in {"save", "setlink", "track", "enqueue"}
    \/ /\ j \in {"resend", "forgot"}
       /\ s \in {"load", "cooldown", "previous", "drop", "setlink", "track", "enqueue"}
    \/ j = "verify" /\ s \in {"consume", "load", "write", "untrack", "commit"}
    \/ j = "reset" /\ s \in {"consume", "load", "write", "untrack", "revoke", "commit"}
    \/ /\ j = "update"
       /\ s \in {"load", "write", "commit", "revoke", "previous", "drop", "setlink",
                 "track", "enqueue"}
    \/ j \in {"delete", "bulk"} /\ s \in {"load", "revoke", "commit"}

LEMMA StepsOfPath ==
    ASSUME NEW j \in DOMAIN Path, NEW s
    PROVE  (\E i \in DOMAIN Path[j] : s = Path[j][i]) <=> StepOf(j, s)
BY Paths DEF StepOf

LEMMA AllSteps ==
    Steps = {"save", "load", "consume", "cooldown", "previous", "drop", "setlink",
             "track", "enqueue", "write", "untrack", "revoke", "commit"}
<1> DEFINE all == {"save", "load", "consume", "cooldown", "previous", "drop",
                   "setlink", "track", "enqueue", "write", "untrack", "revoke",
                   "commit"}
<1>1. ASSUME NEW s \in all
      PROVE  \E j \in DOMAIN Path : StepOf(j, s)
  BY Paths DEF StepOf
<1>2. \A j \in DOMAIN Path : \A s : StepOf(j, s) => s \in all
  BY DEF StepOf
<1>3. \A s : s \in Steps <=> \E j \in DOMAIN Path : StepOf(j, s)
  BY StepsOfPath DEF Steps
<1> QED
  BY <1>1, <1>2, <1>3

\* A path visits no step twice.
LEMMA PathsAreSimple ==
    ASSUME NEW j \in DOMAIN Path,
           NEW i \in DOMAIN Path[j], NEW k \in DOMAIN Path[j],
           Path[j][i] = Path[j][k]
    PROVE  i = k
BY Paths

LEMMA Successor ==
    ASSUME NEW r, job[r] \in DOMAIN Path,
           NEW i \in DOMAIN Path[job[r]], Path[job[r]][i] = pc[r]
    PROVE  Following(r) = IF i = Len(Path[job[r]]) THEN "idle" ELSE Path[job[r]][i + 1]
<1> DEFINE p == Path[job[r]]
           c == CHOOSE k \in DOMAIN p : p[k] = pc[r]
<1>1. c \in DOMAIN p /\ p[c] = pc[r]
  OBVIOUS
<1>2. c = i
  BY <1>1, PathsAreSimple
<1> QED
  BY <1>2 DEF Following

\* The next step of each operation.
LEMMA FollowingSteps ==
    ASSUME NEW r, job[r] \in DOMAIN Path
    PROVE
    /\ job[r] = "signup" =>
          /\ pc[r] = "save" => Following(r) = "setlink"
          /\ pc[r] = "setlink" => Following(r) = "track"
          /\ pc[r] = "track" => Following(r) = "enqueue"
          /\ pc[r] = "enqueue" => Following(r) = "idle"
    /\ job[r] = "resend" =>
          /\ pc[r] = "load" => Following(r) = "cooldown"
          /\ pc[r] = "cooldown" => Following(r) = "previous"
          /\ pc[r] = "previous" => Following(r) = "drop"
          /\ pc[r] = "drop" => Following(r) = "setlink"
          /\ pc[r] = "setlink" => Following(r) = "track"
          /\ pc[r] = "track" => Following(r) = "enqueue"
          /\ pc[r] = "enqueue" => Following(r) = "idle"
    /\ job[r] = "forgot" =>
          /\ pc[r] = "load" => Following(r) = "cooldown"
          /\ pc[r] = "cooldown" => Following(r) = "previous"
          /\ pc[r] = "previous" => Following(r) = "drop"
          /\ pc[r] = "drop" => Following(r) = "setlink"
          /\ pc[r] = "setlink" => Following(r) = "track"
          /\ pc[r] = "track" => Following(r) = "enqueue"
          /\ pc[r] = "enqueue" => Following(r) = "idle"
    /\ job[r] = "verify" =>
          /\ pc[r] = "consume" => Following(r) = "load"
          /\ pc[r] = "load" => Following(r) = "write"
          /\ pc[r] = "write" => Following(r) = "untrack"
          /\ pc[r] = "untrack" => Following(r) = "commit"
          /\ pc[r] = "commit" => Following(r) = "idle"
    /\ job[r] = "reset" =>
          /\ pc[r] = "consume" => Following(r) = "load"
          /\ pc[r] = "load" => Following(r) = "write"
          /\ pc[r] = "write" => Following(r) = "untrack"
          /\ pc[r] = "untrack" => Following(r) = "revoke"
          /\ pc[r] = "revoke" => Following(r) = "commit"
          /\ pc[r] = "commit" => Following(r) = "idle"
    /\ job[r] = "update" =>
          /\ pc[r] = "load" => Following(r) = "write"
          /\ pc[r] = "write" => Following(r) = "commit"
          /\ pc[r] = "commit" => Following(r) = "revoke"
          /\ pc[r] = "revoke" => Following(r) = "previous"
          /\ pc[r] = "previous" => Following(r) = "drop"
          /\ pc[r] = "drop" => Following(r) = "setlink"
          /\ pc[r] = "setlink" => Following(r) = "track"
          /\ pc[r] = "track" => Following(r) = "enqueue"
          /\ pc[r] = "enqueue" => Following(r) = "idle"
    /\ job[r] = "delete" =>
          /\ pc[r] = "load" => Following(r) = "revoke"
          /\ pc[r] = "revoke" => Following(r) = "commit"
          /\ pc[r] = "commit" => Following(r) = "idle"
    /\ job[r] = "bulk" =>
          /\ pc[r] = "load" => Following(r) = "revoke"
          /\ pc[r] = "revoke" => Following(r) = "commit"
          /\ pc[r] = "commit" => Following(r) = "idle"
<1>1. ASSUME job[r] = "signup"
      PROVE
          /\ pc[r] = "save" => Following(r) = "setlink"
          /\ pc[r] = "setlink" => Following(r) = "track"
          /\ pc[r] = "track" => Following(r) = "enqueue"
          /\ pc[r] = "enqueue" => Following(r) = "idle"
  <2> DEFINE p == Path[job[r]]
  <2>1. /\ DOMAIN p = 1 .. 4 /\ Len(p) = 4
        /\ p[1] = "save"
        /\ p[2] = "setlink"
        /\ p[3] = "track"
        /\ p[4] = "enqueue"
    BY <1>1, Paths
  <2>2. \A i \in DOMAIN p : p[i] = pc[r] =>
           Following(r) = IF i = Len(p) THEN "idle" ELSE p[i + 1]
    BY Successor
  <2> HIDE DEF p
  <2> QED
    BY <2>1, <2>2
<1>2. ASSUME job[r] = "resend"
      PROVE
          /\ pc[r] = "load" => Following(r) = "cooldown"
          /\ pc[r] = "cooldown" => Following(r) = "previous"
          /\ pc[r] = "previous" => Following(r) = "drop"
          /\ pc[r] = "drop" => Following(r) = "setlink"
          /\ pc[r] = "setlink" => Following(r) = "track"
          /\ pc[r] = "track" => Following(r) = "enqueue"
          /\ pc[r] = "enqueue" => Following(r) = "idle"
  <2> DEFINE p == Path[job[r]]
  <2>1. /\ DOMAIN p = 1 .. 7 /\ Len(p) = 7
        /\ p[1] = "load"
        /\ p[2] = "cooldown"
        /\ p[3] = "previous"
        /\ p[4] = "drop"
        /\ p[5] = "setlink"
        /\ p[6] = "track"
        /\ p[7] = "enqueue"
    BY <1>2, Paths
  <2>2. \A i \in DOMAIN p : p[i] = pc[r] =>
           Following(r) = IF i = Len(p) THEN "idle" ELSE p[i + 1]
    BY Successor
  <2> HIDE DEF p
  <2> QED
    BY <2>1, <2>2
<1>3. ASSUME job[r] = "forgot"
      PROVE
          /\ pc[r] = "load" => Following(r) = "cooldown"
          /\ pc[r] = "cooldown" => Following(r) = "previous"
          /\ pc[r] = "previous" => Following(r) = "drop"
          /\ pc[r] = "drop" => Following(r) = "setlink"
          /\ pc[r] = "setlink" => Following(r) = "track"
          /\ pc[r] = "track" => Following(r) = "enqueue"
          /\ pc[r] = "enqueue" => Following(r) = "idle"
  <2> DEFINE p == Path[job[r]]
  <2>1. /\ DOMAIN p = 1 .. 7 /\ Len(p) = 7
        /\ p[1] = "load"
        /\ p[2] = "cooldown"
        /\ p[3] = "previous"
        /\ p[4] = "drop"
        /\ p[5] = "setlink"
        /\ p[6] = "track"
        /\ p[7] = "enqueue"
    BY <1>3, Paths
  <2>2. \A i \in DOMAIN p : p[i] = pc[r] =>
           Following(r) = IF i = Len(p) THEN "idle" ELSE p[i + 1]
    BY Successor
  <2> HIDE DEF p
  <2> QED
    BY <2>1, <2>2
<1>4. ASSUME job[r] = "verify"
      PROVE
          /\ pc[r] = "consume" => Following(r) = "load"
          /\ pc[r] = "load" => Following(r) = "write"
          /\ pc[r] = "write" => Following(r) = "untrack"
          /\ pc[r] = "untrack" => Following(r) = "commit"
          /\ pc[r] = "commit" => Following(r) = "idle"
  <2> DEFINE p == Path[job[r]]
  <2>1. /\ DOMAIN p = 1 .. 5 /\ Len(p) = 5
        /\ p[1] = "consume"
        /\ p[2] = "load"
        /\ p[3] = "write"
        /\ p[4] = "untrack"
        /\ p[5] = "commit"
    BY <1>4, Paths
  <2>2. \A i \in DOMAIN p : p[i] = pc[r] =>
           Following(r) = IF i = Len(p) THEN "idle" ELSE p[i + 1]
    BY Successor
  <2> HIDE DEF p
  <2> QED
    BY <2>1, <2>2
<1>5. ASSUME job[r] = "reset"
      PROVE
          /\ pc[r] = "consume" => Following(r) = "load"
          /\ pc[r] = "load" => Following(r) = "write"
          /\ pc[r] = "write" => Following(r) = "untrack"
          /\ pc[r] = "untrack" => Following(r) = "revoke"
          /\ pc[r] = "revoke" => Following(r) = "commit"
          /\ pc[r] = "commit" => Following(r) = "idle"
  <2> DEFINE p == Path[job[r]]
  <2>1. /\ DOMAIN p = 1 .. 6 /\ Len(p) = 6
        /\ p[1] = "consume"
        /\ p[2] = "load"
        /\ p[3] = "write"
        /\ p[4] = "untrack"
        /\ p[5] = "revoke"
        /\ p[6] = "commit"
    BY <1>5, Paths
  <2>2. \A i \in DOMAIN p : p[i] = pc[r] =>
           Following(r) = IF i = Len(p) THEN "idle" ELSE p[i + 1]
    BY Successor
  <2> HIDE DEF p
  <2> QED
    BY <2>1, <2>2
<1>6. ASSUME job[r] = "update"
      PROVE
          /\ pc[r] = "load" => Following(r) = "write"
          /\ pc[r] = "write" => Following(r) = "commit"
          /\ pc[r] = "commit" => Following(r) = "revoke"
          /\ pc[r] = "revoke" => Following(r) = "previous"
          /\ pc[r] = "previous" => Following(r) = "drop"
          /\ pc[r] = "drop" => Following(r) = "setlink"
          /\ pc[r] = "setlink" => Following(r) = "track"
          /\ pc[r] = "track" => Following(r) = "enqueue"
          /\ pc[r] = "enqueue" => Following(r) = "idle"
  <2> DEFINE p == Path[job[r]]
  <2>1. /\ DOMAIN p = 1 .. 9 /\ Len(p) = 9
        /\ p[1] = "load"
        /\ p[2] = "write"
        /\ p[3] = "commit"
        /\ p[4] = "revoke"
        /\ p[5] = "previous"
        /\ p[6] = "drop"
        /\ p[7] = "setlink"
        /\ p[8] = "track"
        /\ p[9] = "enqueue"
    BY <1>6, Paths
  <2>2. \A i \in DOMAIN p : p[i] = pc[r] =>
           Following(r) = IF i = Len(p) THEN "idle" ELSE p[i + 1]
    BY Successor
  <2> HIDE DEF p
  <2> QED
    BY <2>1, <2>2
<1>7. ASSUME job[r] = "delete"
      PROVE
          /\ pc[r] = "load" => Following(r) = "revoke"
          /\ pc[r] = "revoke" => Following(r) = "commit"
          /\ pc[r] = "commit" => Following(r) = "idle"
  <2> DEFINE p == Path[job[r]]
  <2>1. /\ DOMAIN p = 1 .. 3 /\ Len(p) = 3
        /\ p[1] = "load"
        /\ p[2] = "revoke"
        /\ p[3] = "commit"
    BY <1>7, Paths
  <2>2. \A i \in DOMAIN p : p[i] = pc[r] =>
           Following(r) = IF i = Len(p) THEN "idle" ELSE p[i + 1]
    BY Successor
  <2> HIDE DEF p
  <2> QED
    BY <2>1, <2>2
<1>8. ASSUME job[r] = "bulk"
      PROVE
          /\ pc[r] = "load" => Following(r) = "revoke"
          /\ pc[r] = "revoke" => Following(r) = "commit"
          /\ pc[r] = "commit" => Following(r) = "idle"
  <2> DEFINE p == Path[job[r]]
  <2>1. /\ DOMAIN p = 1 .. 3 /\ Len(p) = 3
        /\ p[1] = "load"
        /\ p[2] = "revoke"
        /\ p[3] = "commit"
    BY <1>8, Paths
  <2>2. \A i \in DOMAIN p : p[i] = pc[r] =>
           Following(r) = IF i = Len(p) THEN "idle" ELSE p[i + 1]
    BY Successor
  <2> HIDE DEF p
  <2> QED
    BY <2>1, <2>2
<1> QED
  BY <1>1, <1>2, <1>3, <1>4, <1>5, <1>6, <1>7, <1>8

LEMMA Moves ==
    ASSUME TypeOK, NEW r \in Requests, OnPath(r)
    PROVE
    /\ pc[r] = "save" => job[r] = "signup" /\ Following(r) = "setlink"
    /\ pc[r] = "consume" => job[r] \in {"verify", "reset"} /\ Following(r) = "load"
    /\ pc[r] = "load" =>
          \/ job[r] \in {"resend", "forgot"} /\ Following(r) = "cooldown"
          \/ job[r] \in {"verify", "reset", "update"} /\ Following(r) = "write"
          \/ job[r] \in {"delete", "bulk"} /\ Following(r) = "revoke"
    /\ pc[r] = "write" =>
          \/ job[r] \in {"verify", "reset"} /\ Following(r) = "untrack"
          \/ job[r] = "update" /\ Following(r) = "commit"
    /\ pc[r] = "untrack" =>
          \/ job[r] = "verify" /\ Following(r) = "commit"
          \/ job[r] = "reset" /\ Following(r) = "revoke"
    /\ pc[r] = "revoke" =>
          \/ job[r] \in {"reset", "delete", "bulk"} /\ Following(r) = "commit"
          \/ job[r] = "update" /\ Following(r) = "previous"
    /\ pc[r] = "commit" =>
          \/ job[r] \in {"verify", "reset", "delete", "bulk"} /\ Following(r) = "idle"
          \/ job[r] = "update" /\ Following(r) = "revoke"
    /\ pc[r] \in {"cooldown", "free"} => job[r] \in {"resend", "forgot"}
    /\ pc[r] \in {"previous", "drop"} => job[r] \in {"resend", "forgot", "update"}
    /\ pc[r] \in {"setlink", "track", "enqueue"} =>
          job[r] \in {"signup", "resend", "forgot", "update"}
    /\ pc[r] = "cooldown" => Following(r) = "previous"
    /\ pc[r] = "previous" => Following(r) = "drop"
    /\ pc[r] = "drop" => Following(r) = "setlink"
    /\ pc[r] = "setlink" => Following(r) = "track"
    /\ pc[r] = "track" => Following(r) = "enqueue"
    /\ pc[r] = "enqueue" => Following(r) = "idle"
    /\ pc[r] = "reply" => job[r] = "bulk"
    /\ pc[r] \in {"idle", "free", "reply"} \/ Following(r) = "idle"
          \/ StepOf(job[r], Following(r))
<1>1. CASE pc[r] = "idle"
  BY <1>1
<1>2. CASE pc[r] = "free" /\ job[r] \in {"resend", "forgot"}
  BY <1>2
<1>3. CASE pc[r] = "reply" /\ job[r] = "bulk"
  BY <1>3
<1>4. CASE pc[r] # "idle" /\ \E i \in DOMAIN Path[job[r]] : pc[r] = Path[job[r]][i]
  <2>1. job[r] \in DOMAIN Path
    BY <1>4 DEF TypeOK, OnPath
  <2>2. StepOf(job[r], pc[r])
    BY <1>4, <2>1, StepsOfPath
  <2>3. pc[r] \notin {"idle", "free", "reply"}
    BY <2>2 DEF StepOf
  <2> QED
    BY <2>1, <2>2, <2>3, FollowingSteps DEF StepOf
<1> QED
  BY <1>1, <1>2, <1>3, <1>4 DEF OnPath

\* OnPath without the sequences.
LEMMA OnPathIs ==
    ASSUME NEW r, job[r] \in DOMAIN Path \cup {"none"},
           pc[r] = "idle" <=> job[r] = "none"
    PROVE  OnPath(r) <=>
              (pc[r] # "idle" =>
                  /\ who[r] \in Users
                  /\ \/ StepOf(job[r], pc[r])
                     \/ pc[r] = "free" /\ job[r] \in {"resend", "forgot"}
                     \/ pc[r] = "reply" /\ job[r] = "bulk")
BY StepsOfPath DEF OnPath

-----------------------------------------------------------------------------
(* What a request's step does to the stores.                                *)

StoreEffect(r) == UNCHANGED stores \/ Applied(r)

StoresTyped ==
    /\ user \in [Users -> {"absent", "saved", "gone"}]
    /\ address \in [Users -> 0 .. MaxChanges]
    /\ verified \in [Users -> BOOLEAN]
    /\ access \in [Users -> BOOLEAN]
    /\ link \in Seq([kind : Kinds, user : Users, address : 0 .. MaxChanges])
    /\ Len(link) <= MaxLinks
    /\ works \subseteq Links
    /\ tracked \in [Kinds -> [Users -> 0 .. MaxLinks]]
    /\ cooldown \subseteq Kinds \X Users
    /\ mailed \subseteq Links
    /\ spent \in Seq(1 .. MaxLinks)
    /\ confirmed \in [Users -> 0 .. MaxChanges]

\* Users come and go once, and go by a deletion; links stay what they are and
\* work from when they are made; a link is used up by a reset; nobody gets
\* access.
UsersMove(r) ==
    \A u \in Users :
        /\ user[u] = "absent" => user'[u] \in {"absent", "saved"}
        /\ user[u] = "gone" => user'[u] = "gone"
        /\ user[u] = "saved" /\ user'[u] # "saved" =>
              /\ user'[u] = "gone"
              /\ u = who[r]
              /\ pc[r] = "commit"
              /\ job[r] \in {"delete", "bulk"}
              /\ ~Locked(r)

LinksStay ==
    /\ Len(link) <= Len(link')
    /\ \A n \in Links : link'[n] = link[n]

LinksMove(r) ==
    /\ \A n \in works' : n \notin works =>
          /\ n = Len(link) + 1
          /\ n \in Links'
          /\ link'[n].user = who[r]
          /\ user'[who[r]] # "absent"
    /\ mailed \subseteq mailed'
    /\ \A n \in mailed' : n \notin mailed =>
          /\ n \in Links
          /\ link[n].user = who[r]
          /\ user'[who[r]] # "absent"

SpentMoves(r) ==
    \/ spent' = spent
    \/ /\ pc[r] = "commit"
       /\ job[r] = "reset"
       /\ spent' = Append(spent, token[r])
       /\ works' = works

NobodyGetsIn == \A u \in Users : access'[u] => access[u]

StoreFacts(r) ==
    /\ StoresTyped'
    /\ UsersMove(r)
    /\ LinksStay
    /\ LinksMove(r)
    /\ SpentMoves(r)
    /\ NobodyGetsIn

LEMMA KindType ==
    ASSUME NEW r
    PROVE  Kind(r) \in Kinds
BY DEF Kind, Kinds

LEMMA LinkType ==
    ASSUME TypeOK, NEW n \in Links
    PROVE  /\ link[n].kind \in Kinds
           /\ link[n].user \in Users
           /\ link[n].address \in 0 .. MaxChanges
<1> DEFINE S == [kind : Kinds, user : Users, address : 0 .. MaxChanges]
<1>1. link \in Seq(S)
  BY DEF TypeOK
<1>2. link[n] \in S
  <2> HIDE DEF S
  <2> QED
    BY <1>1 DEF Links
<1> QED
  BY <1>2

LEMMA TypedStores == TypeOK => StoresTyped
BY DEF TypeOK, StoresTyped

\* A request that is at a step of its own is about a user.
LEMMA AboutUser ==
    ASSUME NEW r \in Requests, OnPath(r), pc[r] # "idle"
    PROVE  who[r] \in Users
BY DEF OnPath

LEMMA UnchangedMoves ==
    ASSUME AccountsInv, NEW r \in Requests, UNCHANGED stores
    PROVE  StoreFacts(r)
<1>1. StoresTyped'
  BY TypedStores DEF AccountsInv, stores, row, keys, StoresTyped, Links
<1>2. UsersMove(r) /\ LinksStay /\ LinksMove(r) /\ SpentMoves(r) /\ NobodyGetsIn
  BY DEF stores, row, keys, UsersMove, LinksStay, LinksMove, SpentMoves,
         NobodyGetsIn, AccountsInv, TypeOK, Links
<1> QED
  BY <1>1, <1>2 DEF StoreFacts

\* Only `user` changes.
LEMMA SaveUserMoves ==
    ASSUME AccountsInv, NEW r \in Requests, pc[r] = "save",
           user[who[r]] = "absent", SaveUser(r)
    PROVE  StoreFacts(r)
<1> USE DEF AccountsInv, RequestInOrder
<1>1. who[r] \in Users
  BY AboutUser
<1>2. StoresTyped'
  BY TypedStores, <1>1 DEF SaveUser, keys, StoresTyped, Links
<1>3. UsersMove(r)
  BY <1>1 DEF SaveUser, UsersMove, TypeOK
<1>4. LinksStay /\ LinksMove(r) /\ SpentMoves(r) /\ NobodyGetsIn
  BY DEF SaveUser, keys, LinksStay, LinksMove, SpentMoves, NobodyGetsIn,
         TypeOK, Links
<1> QED
  BY <1>2, <1>3, <1>4 DEF StoreFacts

LEMMA CommitRowMoves ==
    ASSUME AccountsInv, NEW r \in Requests, pc[r] = "commit", CommitRow(r)
    PROVE  StoreFacts(r)
<1> USE DEF AccountsInv, RequestInOrder
<1>1. who[r] \in Users
  BY AboutUser
<1>2. LinksStay /\ LinksMove(r) /\ NobodyGetsIn
  <2>1. link' = link /\ works' = works /\ mailed' = mailed /\ access' = access
    BY DEF CommitRow, keys
  <2>2. Len(link) <= Len(link')
    BY <2>1 DEF TypeOK
  <2> QED
    BY <2>1, <2>2 DEF LinksStay, LinksMove, NobodyGetsIn
<1>3. UNCHANGED <<access, link, keys, mailed>>
  BY DEF CommitRow
<1>4. CASE CommitVerify(r)
  <2>1. token[r] \in Links /\ link[token[r]].address \in 0 .. MaxChanges
    <3>1. job[r] = "verify"
      BY <1>4 DEF CommitVerify
    <3>2. token[r] \in Links
      BY <3>1 DEF KnowsUser, TypeOK
    <3> QED
      BY <3>2, LinkType
  <2>2. verified' \in [Users -> BOOLEAN]
    BY <1>4 DEF CommitVerify, TypeOK
  <2>3. confirmed' \in [Users -> 0 .. MaxChanges]
    BY <1>4, <2>1 DEF CommitVerify, TypeOK
  <2>4. StoresTyped'
    BY <1>3, <1>4, <2>2, <2>3, TypedStores DEF CommitVerify, keys, StoresTyped, Links
  <2>5. UsersMove(r) /\ SpentMoves(r)
    BY <1>4 DEF CommitVerify, UsersMove, SpentMoves, TypeOK
  <2> QED
    BY <1>2, <2>4, <2>5 DEF StoreFacts
<1>5. CASE CommitReset(r)
  <2>1. token[r] \in 1 .. MaxLinks
    BY <1>5 DEF CommitReset, KnowsUser, TypeOK, Links
  <2>2. spent' \in Seq(1 .. MaxLinks)
    BY <1>5, <2>1 DEF CommitReset, TypeOK
  <2>3. StoresTyped'
    BY <1>3, <1>5, <2>2, TypedStores DEF CommitReset, row, keys, StoresTyped, Links
  <2>4. UsersMove(r) /\ SpentMoves(r)
    BY <1>3, <1>5 DEF CommitReset, row, keys, UsersMove, SpentMoves, TypeOK
  <2> QED
    BY <1>2, <2>3, <2>4 DEF StoreFacts
<1>6. CASE CommitUpdate(r)
  <2>1. address' \in [Users -> 0 .. MaxChanges]
    BY <1>6 DEF CommitUpdate, TypeOK
  <2>2. verified' \in [Users -> BOOLEAN]
    BY <1>6 DEF CommitUpdate, TypeOK
  <2>3. StoresTyped'
    BY <1>3, <1>6, <2>1, <2>2, TypedStores DEF CommitUpdate, keys, StoresTyped, Links
  <2>4. UsersMove(r) /\ SpentMoves(r)
    BY <1>6 DEF CommitUpdate, UsersMove, SpentMoves, TypeOK
  <2> QED
    BY <1>2, <2>3, <2>4 DEF StoreFacts
<1>7. CASE CommitDelete(r)
  <2>1. user[who[r]] # "absent"
    BY DEF KnowsUser
  <2>2. StoresTyped'
    BY <1>1, <1>3, <1>7, TypedStores DEF CommitDelete, keys, StoresTyped, Links
  <2>3. UsersMove(r) /\ SpentMoves(r)
    BY <1>1, <1>7, <2>1 DEF CommitDelete, UsersMove, SpentMoves, TypeOK
  <2> QED
    BY <1>2, <2>2, <2>3 DEF StoreFacts
<1> QED
  BY <1>4, <1>5, <1>6, <1>7 DEF CommitRow

\* The commands to Redis and Celery change neither users nor resets.
LEMMA KeysMove ==
    ASSUME AccountsInv, NEW r \in Requests, UNCHANGED <<row, link, spent, confirmed>>,
           access' \in [Users -> BOOLEAN], NobodyGetsIn,
           works' \subseteq works,
           tracked' \in [Kinds -> [Users -> 0 .. MaxLinks]],
           cooldown' \subseteq Kinds \X Users,
           mailed' = mailed
    PROVE  StoreFacts(r)
<1>1. StoresTyped'
  BY TypedStores DEF AccountsInv, row, StoresTyped, Links
<1>2. UsersMove(r) /\ LinksStay /\ LinksMove(r) /\ SpentMoves(r)
  BY DEF row, UsersMove, LinksStay, LinksMove, SpentMoves, AccountsInv, TypeOK, Links
<1> QED
  BY <1>1, <1>2 DEF StoreFacts

LEMMA MakeLinkMoves ==
    ASSUME AccountsInv, NEW r \in Requests, pc[r] = "setlink", MakeLink(r)
    PROVE  StoreFacts(r)
<1> USE DEF AccountsInv, RequestInOrder
<1>1. who[r] \in Users
  BY AboutUser
<1>2. user[who[r]] # "absent"
  BY DEF KnowsUser
<1> DEFINE S == [kind : Kinds, user : Users, address : 0 .. MaxChanges]
           new == [kind |-> Kind(r), user |-> who[r], address |-> copy[r].address]
<1>3. new \in S
  BY <1>1, KindType DEF TypeOK
<1>4. link \in Seq(S) /\ link' = Append(link, new) /\ new.user = who[r]
  BY DEF TypeOK, MakeLink
<1> HIDE DEF S, new
<1>5. /\ link' \in Seq(S)
      /\ Len(link') = Len(link) + 1
      /\ link'[Len(link) + 1].user = who[r]
      /\ \A n \in 1 .. Len(link) : link'[n] = link[n]
  BY <1>3, <1>4
<1>6. Len(link) \in Nat /\ Len(link') <= MaxLinks
  BY <1>4, <1>5 DEF MakeLink
<1>7. works' \subseteq Links' /\ mailed' \subseteq Links'
  <2>1. works' = works \cup {Len(link) + 1} /\ mailed' = mailed
    BY DEF MakeLink
  <2>2. works \subseteq 1 .. Len(link) /\ mailed \subseteq 1 .. Len(link)
    BY DEF TypeOK, Links
  <2>3. Links' = 1 .. Len(link) + 1
    BY <1>5 DEF Links
  <2>4. 1 .. Len(link) \subseteq Links' /\ Len(link) + 1 \in Links'
    BY <1>6, <2>3
  <2> QED
    BY <2>1, <2>2, <2>4
<1>8. StoresTyped'
  BY <1>5, <1>6, <1>7, TypedStores DEF MakeLink, row, StoresTyped, S
<1>9. LinksStay /\ LinksMove(r)
  BY <1>2, <1>5, <1>6 DEF MakeLink, row, LinksStay, LinksMove, Links, TypeOK
<1>10. UsersMove(r) /\ SpentMoves(r) /\ NobodyGetsIn
  BY DEF MakeLink, row, UsersMove, SpentMoves, NobodyGetsIn, TypeOK
<1> QED
  BY <1>8, <1>9, <1>10 DEF StoreFacts

LEMMA HandOverMoves ==
    ASSUME AccountsInv, NEW r \in Requests, pc[r] = "enqueue", HandOver(r)
    PROVE  StoreFacts(r)
<1> USE DEF AccountsInv, RequestInOrder
<1>1. token[r] \in Links /\ link[token[r]].user = who[r] /\ user[who[r]] # "absent"
  BY DEF KnowsUser
<1>2. StoresTyped'
  BY <1>1, TypedStores DEF HandOver, row, keys, StoresTyped, Links
<1>3. LinksStay /\ LinksMove(r)
  <2>1. /\ link' = link /\ works' = works /\ user' = user
        /\ mailed' = mailed \cup {token[r]}
    BY DEF HandOver, row, keys
  <2>2. Len(link) \in Nat
    BY DEF TypeOK
  <2> QED
    BY <1>1, <2>1, <2>2 DEF LinksStay, LinksMove, Links
<1>4. UsersMove(r) /\ SpentMoves(r) /\ NobodyGetsIn
  BY DEF HandOver, row, keys, UsersMove, SpentMoves, NobodyGetsIn, TypeOK
<1> QED
  BY <1>2, <1>3, <1>4 DEF StoreFacts

LEMMA StoresMove ==
    ASSUME AccountsInv, NEW r \in Requests, StoreEffect(r)
    PROVE  StoreFacts(r)
<1> USE DEF AccountsInv, RequestInOrder
<1>1. CASE UNCHANGED stores
  BY <1>1, UnchangedMoves
<1>2. CASE pc[r] = "save" /\ user[who[r]] = "absent" /\ SaveUser(r)
  BY <1>2, SaveUserMoves
<1>3. CASE pc[r] = "commit" /\ CommitRow(r)
  BY <1>3, CommitRowMoves
<1>4. CASE pc[r] = "setlink" /\ MakeLink(r)
  BY <1>4, MakeLinkMoves
<1>5. CASE pc[r] = "enqueue" /\ HandOver(r)
  BY <1>5, HandOverMoves
<1>6. ASSUME pc[r] \in {"consume", "untrack", "cooldown", "drop", "track", "free",
                        "revoke"}
      PROVE  who[r] \in Users /\ Kind(r) \in Kinds
  BY <1>6, AboutUser, KindType
<1>7. CASE pc[r] = "consume" /\ ConsumeLink(r)
  <2>1. NobodyGetsIn
    BY <1>7 DEF ConsumeLink, NobodyGetsIn
  <2> QED
    BY <1>7, <2>1, KeysMove DEF ConsumeLink, TypeOK
<1>8. CASE pc[r] = "drop" /\ DropLink(r)
  <2>1. NobodyGetsIn
    BY <1>8 DEF DropLink, NobodyGetsIn
  <2> QED
    BY <1>8, <2>1, KeysMove DEF DropLink, TypeOK
<1>9. CASE pc[r] = "untrack" /\ DropPointer(r)
  <2>1. NobodyGetsIn
    BY <1>9 DEF DropPointer, NobodyGetsIn
  <2>2. tracked' \in [Kinds -> [Users -> 0 .. MaxLinks]]
    BY <1>6, <1>9 DEF DropPointer, TypeOK
  <2> QED
    BY <1>9, <2>1, <2>2, KeysMove DEF DropPointer, TypeOK
<1>10. CASE pc[r] = "track" /\ SetPointer(r)
  <2>1. NobodyGetsIn
    BY <1>10 DEF SetPointer, NobodyGetsIn
  <2>2. tracked' \in [Kinds -> [Users -> 0 .. MaxLinks]]
    BY <1>6, <1>10 DEF SetPointer, TypeOK
  <2> QED
    BY <1>10, <2>1, <2>2, KeysMove DEF SetPointer, TypeOK
<1>11. CASE pc[r] = "cooldown" /\ TakeCooldown(r)
  <2>1. NobodyGetsIn
    BY <1>11 DEF TakeCooldown, NobodyGetsIn
  <2>2. cooldown' \subseteq Kinds \X Users
    BY <1>6, <1>11 DEF TakeCooldown, TypeOK
  <2> QED
    BY <1>11, <2>1, <2>2, KeysMove DEF TakeCooldown, TypeOK
<1>12. CASE pc[r] = "free" /\ FreeCooldown(r)
  <2>1. NobodyGetsIn
    BY <1>12 DEF FreeCooldown, NobodyGetsIn
  <2> QED
    BY <1>12, <2>1, KeysMove DEF FreeCooldown, TypeOK
<1>13. CASE pc[r] = "revoke" /\ RevokeAccess(r)
  <2>1. NobodyGetsIn /\ access' \in [Users -> BOOLEAN]
    BY <1>13 DEF RevokeAccess, NobodyGetsIn, TypeOK
  <2> QED
    BY <1>13, <2>1, KeysMove DEF RevokeAccess, keys, TypeOK
<1> QED
  BY <1>1, <1>2, <1>3, <1>4, <1>5, <1>7, <1>8, <1>9, <1>10, <1>11, <1>12, <1>13
  DEF StoreEffect, Applied

-----------------------------------------------------------------------------
(* What it does to the requests.                                            *)

RequestsTyped ==
    /\ pc \in [Requests -> Steps \cup {"idle", "free", "reply"}]
    /\ job \in [Requests -> DOMAIN Path \cup {"none"}]
    /\ who \in [Requests -> Users \cup {NoUser}]
    /\ token \in [Requests -> 0 .. MaxLinks]
    /\ prev \in [Requests -> 0 .. MaxLinks]
    /\ copy \in [Requests -> [verified : BOOLEAN, address : 0 .. MaxChanges]]
    /\ wrote \in [Requests -> BOOLEAN]
    /\ todo \in [Requests -> Seq(Users)]
    /\ report \in [Requests -> Report]

LEMMA TypedRequests == TypeOK => RequestsTyped
BY DEF TypeOK, RequestsTyped

OthersStay(r) ==
    \A q \in Requests \ {r} :
        /\ pc'[q] = pc[q]
        /\ job'[q] = job[q]
        /\ who'[q] = who[q]
        /\ token'[q] = token[q]
        /\ copy'[q] = copy[q]
        /\ wrote'[q] = wrote[q]
        /\ todo'[q] = todo[q]
        /\ report'[q] = report[q]

Ended(r) == pc'[r] = "idle" /\ job'[r] = "none" /\ ~wrote'[r]

\* A reset goes on with a link that works, and takes it.
ResetStep(r) ==
    job'[r] = "reset" /\ pc'[r] # "consume" =>
        /\ job[r] = "reset"
        /\ token'[r] = token[r]
        /\ pc[r] # "consume" \/ token[r] \in works

\* A row is locked by one who finds it there and not locked.
WroteStep(r) ==
    wrote'[r] =>
        /\ who'[r] = who[r]
        /\ user'[who[r]] = "saved"
        /\ wrote[r] \/ ~Locked(r)

HistoryKept ==
    /\ calm' \subseteq Kinds \X Users
    /\ late' = late
    /\ started' \in 0 .. MaxRequests
    /\ faults' \in 0 .. MaxFaults

StepInOrder(r) ==
    /\ StoreEffect(r)
    /\ RequestsTyped'
    /\ HistoryKept
    /\ OthersStay(r)
    /\ RequestInOrder(r)'
    /\ ResetStep(r)
    /\ WroteStep(r)

LEMMA EndEffect ==
    ASSUME TypeOK, NEW r \in Requests, End(r)
    PROVE  RequestsTyped' /\ OthersStay(r) /\ Ended(r)
<1>1. NoReport \in Report
  BY DEF NoReport, Report
<1>2. NoCopy \in [verified : BOOLEAN, address : 0 .. MaxChanges]
  BY DEF NoCopy
<1>3. RequestsTyped'
  <2>1. /\ pc' \in [Requests -> Steps \cup {"idle", "free", "reply"}]
        /\ job' \in [Requests -> DOMAIN Path \cup {"none"}]
        /\ who' \in [Requests -> Users \cup {NoUser}]
    BY DEF End, Goto, TypeOK
  <2>2. /\ token' \in [Requests -> 0 .. MaxLinks]
        /\ prev' \in [Requests -> 0 .. MaxLinks]
    BY AccountsAssumption DEF End, TypeOK
  <2>3. /\ copy' \in [Requests -> [verified : BOOLEAN, address : 0 .. MaxChanges]]
        /\ wrote' \in [Requests -> BOOLEAN]
    BY <1>2 DEF End, TypeOK
  <2>4. /\ todo' \in [Requests -> Seq(Users)]
        /\ report' \in [Requests -> Report]
    BY <1>1 DEF End, TypeOK
  <2> QED
    BY <2>1, <2>2, <2>3, <2>4 DEF RequestsTyped
<1>4. OthersStay(r)
  BY DEF End, Goto, OthersStay, TypeOK
<1>5. Ended(r)
  BY DEF End, Goto, Ended, TypeOK
<1> QED
  BY <1>3, <1>4, <1>5

LEMMA EndedInOrder ==
    ASSUME NEW r \in Requests, Ended(r)
    PROVE  RequestInOrder(r)' /\ ResetStep(r) /\ WroteStep(r)
<1>1. OnPath(r)'
  BY DEF Ended, OnPath
<1>2. KnowsUser(r)'
  BY DEF Ended, KnowsUser
<1>3. WritesRow(r)' /\ OwnsLink(r)' /\ LogsOut(r)' /\ KeepsAccount(r)'
  BY DEF Ended, WritesRow, OwnsLink, LogsOut, KeepsAccount
<1>4. ResetStep(r) /\ WroteStep(r)
  BY DEF Ended, ResetStep, WroteStep
<1> QED
  BY <1>1, <1>2, <1>3, <1>4 DEF RequestInOrder

\* A request that ends is in order, whatever its last command did.
LEMMA EndInOrder ==
    ASSUME AccountsInv, NEW r \in Requests, StoreEffect(r), HistoryKept, End(r)
    PROVE  StepInOrder(r)
BY EndEffect, EndedInOrder DEF StepInOrder, AccountsInv

\* One that locks nothing new leaves the locks as they are.
LEMMA LocksNothing ==
    ASSUME AccountsInv, NEW r \in Requests, StoreEffect(r),
           wrote'[r] => wrote[r] /\ who'[r] = who[r]
    PROVE  WroteStep(r)
<1>1. UsersMove(r)
  BY StoresMove DEF StoreFacts
<1>2. SUFFICES ASSUME wrote'[r]
               PROVE  user'[who[r]] = "saved"
  BY <1>2 DEF WroteStep
<1>3. user[who[r]] = "saved" /\ job[r] \in {"verify", "reset", "update"}
  BY <1>2 DEF AccountsInv, RowsAreLocked, RequestInOrder, WritesRow
<1>4. who[r] \in Users
  <2>1. pc[r] # "idle"
    BY <1>3 DEF AccountsInv, RequestInOrder, OnPath
  <2> QED
    BY <2>1, AboutUser DEF AccountsInv, RequestInOrder
<1> QED
  BY <1>1, <1>3, <1>4 DEF UsersMove

\* Whoever was saved once stays known, and whoever is gone stays gone.
LEMMA UsersComeAndGo ==
    ASSUME NEW r, UsersMove(r), user \in [Users -> {"absent", "saved", "gone"}]
    PROVE  /\ \A u \in Users : user[u] # "absent" => user'[u] # "absent"
           /\ \A u \in Users : user[u] = "gone" => user'[u] = "gone"
BY DEF UsersMove

\* A request goes on to its next step with what it knows.
LEMMA GoesOn ==
    ASSUME AccountsInv, NEW r \in Requests, StoreEffect(r), late' = late,
           pc[r] \notin {"idle", "free", "reply", "setlink"},
           pc'[r] = Following(r), Following(r) # "idle",
           job'[r] = job[r], who'[r] = who[r], token'[r] = token[r],
           todo'[r] = todo[r], report'[r] = report[r],
           OthersStay(r),
           pc[r] = "save" => user'[who[r]] = "saved",
           pc[r] = "load" =>
               /\ user[who[r]] = "saved"
               /\ job[r] \in {"delete", "bulk"} => who[r] \notin Admins,
           pc[r] = "consume" => token[r] \in works /\ works' = works \ {token[r]},
           pc[r] = "revoke" => ~access'[who[r]]
    PROVE  OnPath(r)' /\ KnowsUser(r)' /\ OwnsLink(r)' /\ LogsOut(r)'
           /\ KeepsAccount(r)' /\ ResetStep(r)
<1> USE DEF AccountsInv, RequestInOrder
<1>1. StoreFacts(r)
  BY StoresMove
<1>2. who[r] \in Users
  BY AboutUser
<1>3. job[r] \in DOMAIN Path
  BY DEF OnPath, TypeOK
<1>4. StepOf(job[r], pc[r]) /\ StepOf(job[r], Following(r))
  BY Moves, StepsOfPath, <1>3 DEF OnPath
<1>5. OnPath(r)'
  <2>1. pc'[r] # "idle" /\ job'[r] # "none"
    BY Paths, <1>3
  <2>2. \E i \in DOMAIN Path[job'[r]] : pc'[r] = Path[job'[r]][i]
    BY <1>3, <1>4, StepsOfPath
  <2> QED
    BY <1>2, <2>1, <2>2 DEF OnPath
<1>6. KnowsUser(r)'
  <2>1. user'[who[r]] # "absent"  \/ pc[r] = "consume"
    <3>1. pc[r] \notin {"save", "load"} => user[who[r]] # "absent"
      BY DEF KnowsUser
    <3>2. user[who[r]] # "absent" => user'[who[r]] # "absent"
      BY <1>1, <1>2 DEF StoreFacts, UsersMove, TypeOK
    <3> QED
      BY <3>1, <3>2
  <2>2. pc[r] = "consume" => pc'[r] = "load"
    BY Moves
  <2>3. job[r] \in {"verify", "reset"} =>
           token[r] \in mailed' /\ link'[token[r]].user = who[r]
    <3>1. /\ mailed \subseteq Links /\ mailed \subseteq mailed'
          /\ \A n \in Links : link'[n] = link[n]
      BY <1>1 DEF StoreFacts, LinksStay, LinksMove, TypeOK
    <3> QED
      BY <3>1 DEF KnowsUser
  <2>4. pc'[r] \in {"track", "enqueue"} => pc'[r] = "enqueue" /\ pc[r] = "track"
    BY <1>4, Moves DEF StepOf
  <2>5. pc[r] = "track" => token[r] \in Links' /\ link'[token[r]].user = who[r]
    <3>1. Len(link) \in Nat /\ Len(link') \in Nat
      BY <1>1 DEF StoreFacts, StoresTyped, TypeOK
    <3>2. pc[r] = "track" => token[r] \in Links /\ link[token[r]].user = who[r]
      BY DEF KnowsUser
    <3>3. LinksStay
      BY <1>1 DEF StoreFacts
    <3> QED
      BY <3>1, <3>2, <3>3 DEF LinksStay, Links
  <2> QED
    BY <2>1, <2>2, <2>3, <2>4, <2>5 DEF KnowsUser
<1>7. OwnsLink(r)' /\ ResetStep(r)
  <2>1. SUFFICES ASSUME job[r] = "reset"
                 PROVE  OwnsLink(r)' /\ ResetStep(r)
    BY DEF OwnsLink, ResetStep
  <2>2. ResetStep(r)
    BY DEF ResetStep
  <2>3. spent' = spent
    BY <1>1, <2>1, Moves DEF StoreFacts, SpentMoves
  <2>4. token[r] \in Links
    BY <2>1 DEF KnowsUser, TypeOK
  <2>5. CASE pc[r] = "consume"
    <3>1. token[r] \in works /\ token[r] \notin works'
      BY <2>5
    <3>2. \A i \in DOMAIN spent : spent[i] # token[r]
      BY <3>1 DEF SpentAreUsed
    <3>3. \A q \in Requests : job[q] = "reset" /\ pc[q] # "consume" => token[q] # token[r]
      BY <3>1 DEF OwnsLink
    <3> QED
      BY <2>1, <2>2, <2>3, <3>1, <3>2, <3>3 DEF OwnsLink, OthersStay
  <2>6. CASE pc[r] # "consume"
    <3>1. token[r] \notin works'
      BY <1>1, <2>1, <2>4, <2>6 DEF OwnsLink, StoreFacts, LinksMove, Links, TypeOK
    <3> QED
      BY <2>1, <2>2, <2>3, <2>6, <3>1 DEF OwnsLink, OthersStay
  <2> QED
    BY <2>2, <2>5, <2>6
<1>8. LogsOut(r)'
  <2>1. SUFFICES ASSUME job[r] \in {"delete", "bulk"}
                 PROVE  LogsOut(r)'
    BY DEF LogsOut
  <2>2. \/ pc[r] = "load" /\ pc'[r] = "revoke"
        \/ pc[r] = "revoke" /\ pc'[r] = "commit"
    BY <1>4, <2>1, Moves DEF StepOf
  <2> QED
    BY <2>1, <2>2 DEF LogsOut
<1>9. KeepsAccount(r)'
  <2>1. SUFFICES ASSUME job[r] = "bulk"
                 PROVE  KeepsAccount(r)'
    BY DEF KeepsAccount
  <2>2. pc'[r] # "reply"
    BY <1>4 DEF StepOf
  <2>3. Rest(r)' = Rest(r)
    BY DEF Rest
  <2>4. report[r].asked \subseteq Users
    BY DEF TypeOK, Report
  <2>5. /\ \A u \in Users : user[u] # "absent" => user'[u] # "absent"
        /\ \A u \in Users : user[u] = "gone" => user'[u] = "gone"
    <3>1. UsersMove(r) /\ user \in [Users -> {"absent", "saved", "gone"}]
      BY <1>1 DEF StoreFacts, TypeOK
    <3> QED
      BY <3>1, UsersComeAndGo
  <2>6. KeepsAccount(r) /\ pc[r] # "reply" /\ who'[r] = who[r]
    BY <2>1
  <2>7. report[r].deleted \cup report[r].notFound \subseteq Users
    BY <2>1, <2>4, <2>6 DEF KeepsAccount
  <2> HIDE DEF AccountsInv, RequestInOrder
  <2> QED
    BY <2>1, <2>2, <2>3, <2>4, <2>5, <2>6, <2>7 DEF KeepsAccount
<1> QED
  BY <1>5, <1>6, <1>7, <1>8, <1>9

LEMMA HistoryStays ==
    ASSUME AccountsInv, UNCHANGED <<calm, late, bounds>>
    PROVE  HistoryKept
BY DEF AccountsInv, TypeOK, bounds, HistoryKept

LEMMA MovesInOrder ==
    ASSUME AccountsInv, NEW r \in Requests, StoreEffect(r), HistoryKept,
           pc[r] \notin {"idle", "free", "reply", "setlink"},
           Goto(r, Following(r)), Following(r) # "idle",
           UNCHANGED <<progress, token>>,
           prev' \in [Requests -> 0 .. MaxLinks],
           copy' \in [Requests -> [verified : BOOLEAN, address : 0 .. MaxChanges]],
           wrote' \in [Requests -> BOOLEAN],
           \A q \in Requests \ {r} : copy'[q] = copy[q] /\ wrote'[q] = wrote[q],
           WritesRow(r)', WroteStep(r),
           pc[r] = "save" => user'[who[r]] = "saved",
           pc[r] = "load" =>
               /\ user[who[r]] = "saved"
               /\ job[r] \in {"delete", "bulk"} => who[r] \notin Admins,
           pc[r] = "consume" => token[r] \in works /\ works' = works \ {token[r]},
           pc[r] = "revoke" => ~access'[who[r]]
    PROVE  StepInOrder(r)
<1>1. pc' = [pc EXCEPT ![r] = Following(r)]
  BY DEF Goto
<1>2. job' = job /\ who' = who /\ token' = token /\ todo' = todo /\ report' = report
  BY DEF progress
<1>3. Following(r) \in Steps
  <2>1. StepOf(job[r], Following(r))
    BY Moves DEF AccountsInv, RequestInOrder
  <2> QED
    BY <2>1, AllSteps DEF StepOf
<1>4. RequestsTyped'
  BY <1>1, <1>2, <1>3 DEF AccountsInv, TypeOK, RequestsTyped
<1>5. OthersStay(r)
  BY <1>1, <1>2 DEF OthersStay, AccountsInv, TypeOK
<1>6. pc'[r] = Following(r)
  BY <1>1 DEF AccountsInv, TypeOK
<1>7. OnPath(r)' /\ KnowsUser(r)' /\ OwnsLink(r)' /\ LogsOut(r)'
      /\ KeepsAccount(r)' /\ ResetStep(r)
  BY <1>2, <1>5, <1>6, GoesOn DEF HistoryKept
<1> QED
  BY <1>4, <1>5, <1>7 DEF StepInOrder, RequestInOrder

LEMMA GoOnInOrder ==
    ASSUME AccountsInv, NEW r \in Requests, StoreEffect(r), HistoryKept,
           pc[r] \notin {"idle", "free", "reply", "setlink"},
           GoOn(r),
           pc[r] = "save" => user'[who[r]] = "saved",
           pc[r] = "load" =>
               /\ user[who[r]] = "saved"
               /\ job[r] \in {"delete", "bulk"} => who[r] \notin Admins,
           pc[r] = "consume" => token[r] \in works /\ works' = works \ {token[r]},
           pc[r] = "revoke" => ~access'[who[r]]
    PROVE  StepInOrder(r)
<1>1. CASE Following(r) = "idle"
  BY <1>1, EndInOrder DEF GoOn
<1>2. CASE Following(r) # "idle"
  <2>1. Goto(r, Following(r)) /\ UNCHANGED <<progress, memory>>
    BY <1>2 DEF GoOn
  <2>2. prev' = prev /\ copy' = copy /\ wrote' = wrote /\ token' = token
    BY <2>1 DEF memory
  <2>3. job' = job /\ who' = who
    BY <2>1 DEF progress
  <2>4. WritesRow(r)'
    BY <2>2, <2>3 DEF WritesRow, AccountsInv, RequestInOrder
  <2>5. WroteStep(r)
    BY <2>2, <2>3, LocksNothing
  <2> QED
    BY <1>2, <2>1, <2>2, <2>4, <2>5, MovesInOrder DEF AccountsInv, TypeOK
<1> QED
  BY <1>1, <1>2

-----------------------------------------------------------------------------
(* The steps of a request.                                                  *)

LEMMA SaveInOrder ==
    ASSUME AccountsInv, NEW r \in Requests, Save(r)
    PROVE  StepInOrder(r)
<1>1. HistoryKept
  BY HistoryStays DEF Save
<1>2. CASE user[who[r]] = "absent"
  <2>1. pc[r] = "save" /\ SaveUser(r) /\ GoOn(r)
    BY <1>2 DEF Save
  <2>2. StoreEffect(r)
    BY <1>2, <2>1 DEF StoreEffect, Applied
  <2>3. user'[who[r]] = "saved"
    <3>1. who[r] \in Users
      BY <2>1, AboutUser DEF AccountsInv, RequestInOrder
    <3> QED
      BY <2>1, <3>1 DEF SaveUser, AccountsInv, TypeOK
  <2> QED
    BY <1>1, <2>1, <2>2, <2>3, GoOnInOrder
<1>3. CASE user[who[r]] # "absent"
  BY <1>1, <1>3, EndInOrder DEF Save, StoreEffect
<1> QED
  BY <1>2, <1>3

LEMMA CopyType ==
    ASSUME NEW b \in BOOLEAN, NEW n \in 0 .. MaxChanges
    PROVE  [verified |-> b, address |-> n] \in [verified : BOOLEAN, address : 0 .. MaxChanges]
OBVIOUS

LEMMA LoadInOrder ==
    ASSUME AccountsInv, NEW r \in Requests, Load(r)
    PROVE  StepInOrder(r)
<1>1. HistoryKept /\ StoreEffect(r)
  BY HistoryStays DEF Load, StoreEffect
<1>2. CASE End(r)
  BY <1>1, <1>2, EndInOrder
<1>3. CASE ~End(r)
  <2>1. /\ pc[r] = "load"
        /\ user[who[r]] = "saved"
        /\ ~(job[r] = "delete" /\ who[r] \in Admins)
        /\ job[r] # "bulk"
        /\ copy' = [copy EXCEPT ![r] = [verified |-> verified[who[r]],
                                        address |-> address[who[r]]]]
        /\ Goto(r, Following(r))
        /\ UNCHANGED <<progress, token, prev, wrote>>
    BY <1>3 DEF Load
  <2>2. who[r] \in Users
    BY <2>1, AboutUser DEF AccountsInv, RequestInOrder
  <2>3. verified[who[r]] \in BOOLEAN
    BY <2>2 DEF AccountsInv, TypeOK
  <2>4. address[who[r]] \in 0 .. MaxChanges
    BY <2>2 DEF AccountsInv, TypeOK
  <2>5. [verified |-> verified[who[r]], address |-> address[who[r]]]
           \in [verified : BOOLEAN, address : 0 .. MaxChanges]
    BY <2>3, <2>4, CopyType
  <2> DEFINE new == [verified |-> verified[who[r]], address |-> address[who[r]]]
             C == [verified : BOOLEAN, address : 0 .. MaxChanges]
  <2>6. copy \in [Requests -> C] /\ new \in C /\ copy' = [copy EXCEPT ![r] = new]
    BY <2>1, <2>5 DEF AccountsInv, TypeOK
  <2>7. copy' \in [Requests -> C] /\ \A q \in Requests \ {r} : copy'[q] = copy[q]
    <3> HIDE DEF new, C
    <3> QED
      BY <2>6
  <2>8. Following(r) # "idle"
    BY <2>1, Moves DEF AccountsInv, RequestInOrder
  <2>9. wrote' = wrote /\ job' = job /\ who' = who /\ prev' = prev
    BY <2>1 DEF progress
  <2>10. WritesRow(r)'
    BY <2>9 DEF WritesRow, AccountsInv, RequestInOrder
  <2>11. WroteStep(r)
    BY <1>1, <2>9, LocksNothing
  <2>12. /\ wrote' \in [Requests -> BOOLEAN]
         /\ prev' \in [Requests -> 0 .. MaxLinks]
         /\ \A q \in Requests \ {r} : wrote'[q] = wrote[q]
    BY <2>9 DEF AccountsInv, TypeOK
  <2> HIDE DEF new
  <2> QED
    BY <1>1, <2>1, <2>7, <2>8, <2>10, <2>11, <2>12, MovesInOrder
<1> QED
  BY <1>2, <1>3

LEMMA WriteInOrder ==
    ASSUME AccountsInv, NEW r \in Requests, Write(r)
    PROVE  StepInOrder(r)
<1>1. HistoryKept /\ StoreEffect(r)
  BY HistoryStays DEF Write, StoreEffect
<1>2. CASE End(r)
  BY <1>1, <1>2, EndInOrder
<1>3. CASE ~End(r)
  <2> DEFINE C == [verified : BOOLEAN, address : 0 .. MaxChanges]
             b == Flushes(r)
  <2>1. /\ pc[r] = "write"
        /\ b => ~Locked(r)
        /\ user[who[r]] = "saved"
        /\ wrote' = [wrote EXCEPT ![r] = b]
        /\ Goto(r, Following(r))
        /\ UNCHANGED <<progress, token, prev, stores>>
    BY <1>3 DEF Write
  <2>2. \/ copy' = copy
        \/ /\ address[who[r]] < MaxChanges
           /\ copy' = [copy EXCEPT ![r].address = address[who[r]] + 1]
    BY <1>3 DEF Write
  <2>3. who[r] \in Users
    BY <2>1, AboutUser DEF AccountsInv, RequestInOrder
  <2>4. copy' \in [Requests -> C] /\ \A q \in Requests \ {r} : copy'[q] = copy[q]
    <3>1. copy \in [Requests -> C]
      BY DEF AccountsInv, TypeOK
    <3>2. address[who[r]] \in 0 .. MaxChanges
      BY <2>3 DEF AccountsInv, TypeOK
    <3>3. address[who[r]] < MaxChanges => address[who[r]] + 1 \in 0 .. MaxChanges
      BY <3>2
    <3>4. CASE copy' = copy
      BY <3>1, <3>4
    <3>5. CASE /\ address[who[r]] < MaxChanges
               /\ copy' = [copy EXCEPT ![r].address = address[who[r]] + 1]
      <4> DEFINE n == address[who[r]] + 1
      <4>1. n \in 0 .. MaxChanges /\ copy' = [copy EXCEPT ![r].address = n]
        BY <3>3, <3>5
      <4> HIDE DEF n
      <4> QED
        BY <3>1, <4>1
    <3> QED
      BY <2>2, <3>4, <3>5
  <2>5. Following(r) # "idle" /\ job[r] \in {"verify", "reset", "update"}
    BY <2>1, Moves DEF AccountsInv, RequestInOrder
  <2>6. job' = job /\ who' = who /\ prev' = prev /\ user' = user
    BY <2>1 DEF progress, stores
  <2>7. WritesRow(r)'
    BY <2>5, <2>6 DEF WritesRow
  <2>8. WroteStep(r)
    BY <2>1, <2>6 DEF WroteStep
  <2>9. b \in BOOLEAN
    BY DEF Flushes
  <2>10. wrote' \in [Requests -> BOOLEAN] /\ \A q \in Requests \ {r} : wrote'[q] = wrote[q]
    <3>1. wrote \in [Requests -> BOOLEAN]
      BY DEF AccountsInv, TypeOK
    <3> HIDE DEF b
    <3> QED
      BY <2>1, <2>9, <3>1
  <2> HIDE DEF b
  <2> QED
    BY <1>1, <2>1, <2>4, <2>5, <2>6, <2>7, <2>8, <2>10, MovesInOrder
    DEF AccountsInv, TypeOK
<1> QED
  BY <1>2, <1>3

LEMMA ConsumeInOrder ==
    ASSUME AccountsInv, NEW r \in Requests, Consume(r)
    PROVE  StepInOrder(r)
<1>1. HistoryKept
  BY HistoryStays DEF Consume
<1>2. pc[r] = "consume" /\ ConsumeLink(r)
  BY DEF Consume
<1>3. StoreEffect(r)
  BY <1>2 DEF StoreEffect, Applied
<1>4. CASE token[r] \in works
  BY <1>1, <1>2, <1>3, <1>4, GoOnInOrder DEF Consume, ConsumeLink
<1>5. CASE token[r] \notin works
  BY <1>1, <1>3, <1>5, EndInOrder DEF Consume
<1> QED
  BY <1>4, <1>5

LEMMA UntrackInOrder ==
    ASSUME AccountsInv, NEW r \in Requests, Untrack(r)
    PROVE  StepInOrder(r)
<1>1. HistoryKept
  BY DEF Untrack, bounds, HistoryKept, AccountsInv, TypeOK
<1>2. pc[r] = "untrack" /\ GoOn(r) /\ StoreEffect(r)
  BY DEF Untrack, StoreEffect, Applied
<1> QED
  BY <1>1, <1>2, GoOnInOrder

LEMMA CooldownInOrder ==
    ASSUME AccountsInv, NEW r \in Requests, Cooldown(r)
    PROVE  StepInOrder(r)
<1>1. HistoryKept
  BY HistoryStays DEF Cooldown
<1>2. pc[r] = "cooldown" /\ StoreEffect(r)
  BY DEF Cooldown, StoreEffect, Applied
<1>3. GoOn(r) \/ End(r)
  BY DEF Cooldown
<1> QED
  BY <1>1, <1>2, <1>3, GoOnInOrder, EndInOrder

LEMMA PreviousInOrder ==
    ASSUME AccountsInv, NEW r \in Requests, Previous(r)
    PROVE  StepInOrder(r)
<1>1. HistoryKept
  BY HistoryStays DEF Previous
<1>2. /\ pc[r] = "previous"
      /\ prev' = [prev EXCEPT ![r] = tracked[Kind(r)][who[r]]]
      /\ Goto(r, Following(r))
      /\ UNCHANGED <<stores, progress, token, copy, wrote>>
  BY DEF Previous
<1>3. Following(r) # "idle"
  BY <1>2, Moves DEF AccountsInv, RequestInOrder
<1>4. tracked[Kind(r)][who[r]] \in 0 .. MaxLinks
  BY <1>2, AboutUser, KindType DEF AccountsInv, RequestInOrder, TypeOK
<1>5. prev' \in [Requests -> 0 .. MaxLinks]
  BY <1>2, <1>4 DEF AccountsInv, TypeOK
<1>6. StoreEffect(r)
  BY <1>2 DEF StoreEffect
<1>7. job' = job /\ who' = who /\ copy' = copy /\ wrote' = wrote
  BY <1>2 DEF progress
<1>8. WritesRow(r)'
  BY <1>7 DEF WritesRow, AccountsInv, RequestInOrder
<1>9. WroteStep(r)
  BY <1>6, <1>7, LocksNothing
<1> QED
  BY <1>1, <1>2, <1>3, <1>5, <1>6, <1>7, <1>8, <1>9, MovesInOrder DEF AccountsInv, TypeOK

LEMMA DropInOrder ==
    ASSUME AccountsInv, NEW r \in Requests, Drop(r)
    PROVE  StepInOrder(r)
<1>1. HistoryKept
  BY HistoryStays DEF Drop
<1>2. pc[r] = "drop" /\ GoOn(r) /\ StoreEffect(r)
  BY DEF Drop, StoreEffect, Applied
<1> QED
  BY <1>1, <1>2, GoOnInOrder

LEMMA TrackInOrder ==
    ASSUME AccountsInv, NEW r \in Requests, Track(r)
    PROVE  StepInOrder(r)
<1>1. HistoryKept
  BY HistoryStays DEF Track
<1>2. pc[r] = "track" /\ GoOn(r) /\ StoreEffect(r)
  BY DEF Track, StoreEffect, Applied
<1> QED
  BY <1>1, <1>2, GoOnInOrder

LEMMA EnqueueInOrder ==
    ASSUME AccountsInv, NEW r \in Requests, Enqueue(r)
    PROVE  StepInOrder(r)
<1>1. HistoryKept
  BY HistoryStays DEF Enqueue
<1>2. pc[r] = "enqueue" /\ GoOn(r) /\ StoreEffect(r)
  BY DEF Enqueue, StoreEffect, Applied
<1> QED
  BY <1>1, <1>2, GoOnInOrder

LEMMA RevokeInOrder ==
    ASSUME AccountsInv, NEW r \in Requests, Revoke(r)
    PROVE  StepInOrder(r)
<1>1. HistoryKept
  BY HistoryStays DEF Revoke
<1>2. pc[r] = "revoke" /\ GoOn(r) /\ StoreEffect(r) /\ RevokeAccess(r)
  BY DEF Revoke, StoreEffect, Applied
<1>3. who[r] \in Users
  BY <1>2, AboutUser DEF AccountsInv, RequestInOrder
<1>4. ~access'[who[r]]
  BY <1>2, <1>3 DEF RevokeAccess, AccountsInv, TypeOK
<1> QED
  BY <1>1, <1>2, <1>4, GoOnInOrder

LEMMA LastStepInOrder ==
    ASSUME AccountsInv, NEW r \in Requests, Free(r) \/ Reply(r)
    PROVE  StepInOrder(r)
<1>1. HistoryKept
  BY HistoryStays DEF Free, Reply
<1>2. End(r) /\ StoreEffect(r)
  BY DEF Free, Reply, StoreEffect, Applied
<1> QED
  BY <1>1, <1>2, EndInOrder

LEMMA SetLinkInOrder ==
    ASSUME AccountsInv, NEW r \in Requests, SetLink(r)
    PROVE  StepInOrder(r)
<1> USE DEF AccountsInv, RequestInOrder
<1>1. HistoryKept
  BY HistoryStays DEF SetLink
<1>2. /\ pc[r] = "setlink"
      /\ MakeLink(r)
      /\ token' = [token EXCEPT ![r] = Len(link) + 1]
      /\ pc' = [pc EXCEPT ![r] = Following(r)]
      /\ UNCHANGED <<progress, prev, copy, wrote>>
  BY DEF SetLink, Goto
<1>3. StoreEffect(r)
  BY <1>2 DEF StoreEffect, Applied
<1>4. StoreFacts(r)
  BY <1>3, StoresMove
<1>5. job[r] \in {"signup", "resend", "forgot", "update"} /\ Following(r) = "track"
  BY <1>2, Moves
<1>6. who[r] \in Users /\ user[who[r]] # "absent"
  BY <1>2, AboutUser DEF KnowsUser
<1>7. job' = job /\ who' = who /\ todo' = todo /\ report' = report
  BY <1>2 DEF progress
<1>8. "track" \in Steps
  BY AllSteps
<1>9. Len(link) + 1 \in 0 .. MaxLinks
  BY <1>2 DEF MakeLink, TypeOK
<1>10. token' \in [Requests -> 0 .. MaxLinks]
  BY <1>2, <1>9 DEF TypeOK
<1>11. RequestsTyped'
  BY <1>2, <1>5, <1>7, <1>8, <1>10 DEF TypeOK, RequestsTyped
<1>12. OthersStay(r)
  BY <1>2, <1>7 DEF OthersStay, TypeOK
<1>13. pc'[r] = "track" /\ token'[r] = Len(link) + 1
  BY <1>2, <1>5 DEF TypeOK
<1>14. OnPath(r)'
  <2>1. job[r] \in DOMAIN Path /\ StepOf(job[r], "track")
    BY <1>5, Paths DEF StepOf
  <2>2. \E i \in DOMAIN Path[job[r]] : "track" = Path[job[r]][i]
    BY <2>1, StepsOfPath
  <2> QED
    BY <1>5, <1>6, <1>7, <1>13, <2>2 DEF OnPath
<1>15. KnowsUser(r)'
  <2>1. user'[who[r]] # "absent"
    BY <1>4, <1>6 DEF StoreFacts, UsersMove, TypeOK
  <2>2. Len(link) + 1 \in works' /\ Len(link) + 1 \notin works
    BY <1>2 DEF MakeLink, TypeOK, Links
  <2>3. Len(link) + 1 \in Links' /\ link'[Len(link) + 1].user = who[r]
    BY <1>4, <2>2 DEF StoreFacts, LinksMove
  <2> QED
    BY <1>5, <1>7, <1>13, <2>1, <2>3 DEF KnowsUser
<1>16. OwnsLink(r)' /\ LogsOut(r)' /\ KeepsAccount(r)' /\ ResetStep(r)
  BY <1>5, <1>7 DEF OwnsLink, LogsOut, KeepsAccount, ResetStep
<1>17. WritesRow(r)'
  BY <1>2, <1>7 DEF WritesRow
<1>18. WroteStep(r)
  BY <1>2, <1>3, <1>7, LocksNothing
<1> QED
  BY <1>1, <1>3, <1>11, <1>12, <1>14, <1>15, <1>16, <1>17, <1>18 DEF StepInOrder

-----------------------------------------------------------------------------
(* Bulk deletion.                                                           *)

LEMMA GotoTyped ==
    ASSUME TypeOK, NEW r \in Requests,
           NEW step \in Steps \cup {"idle", "free", "reply"}, Goto(r, step)
    PROVE  pc' \in [Requests -> Steps \cup {"idle", "free", "reply"}]
BY DEF TypeOK, Goto

LEMMA RestIsUsers ==
    ASSUME TypeOK, NEW r \in Requests
    PROVE  Rest(r) \subseteq Users
<1>1. todo[r] \in Seq(Users)
  BY DEF TypeOK
<1>2. \A i \in 1 .. Len(todo[r]) : todo[r][i] \in Users
  BY <1>1
<1> QED
  BY <1>2 DEF Rest

LEMMA RestOfList ==
    ASSUME NEW S, NEW s \in Seq(S), s # <<>>
    PROVE  /\ Tail(s) \in Seq(S)
           /\ {s[i] : i \in 1 .. Len(s)} = {s[1]} \cup {Tail(s)[i] : i \in 1 .. Len(Tail(s))}
           /\ Len(s) = 1 => {Tail(s)[i] : i \in 1 .. Len(Tail(s))} = {}
           /\ Len(s) # 1 => Tail(s) # <<>> /\ Tail(s)[1] = s[2] /\ s[2] \in S
<1>1. /\ Len(s) \in Nat \ {0}
      /\ Len(Tail(s)) = Len(s) - 1
      /\ Tail(s) \in Seq(S)
      /\ \A i \in 1 .. Len(Tail(s)) : Tail(s)[i] = s[i + 1]
  OBVIOUS
<1>2. \A i \in 1 .. Len(s) : i = 1 \/ (i - 1 \in 1 .. Len(Tail(s)) /\ Tail(s)[i - 1] = s[i])
  BY <1>1
<1>3. \A i \in 1 .. Len(Tail(s)) : i + 1 \in 1 .. Len(s) /\ Tail(s)[i] = s[i + 1]
  BY <1>1
<1>4. 1 \in 1 .. Len(s)
  BY <1>1
<1>5. {s[i] : i \in 1 .. Len(s)} = {s[1]} \cup {Tail(s)[i] : i \in 1 .. Len(Tail(s))}
  BY <1>2, <1>3, <1>4
<1>6. ASSUME Len(s) # 1
      PROVE  Tail(s) # <<>> /\ Tail(s)[1] = s[2] /\ s[2] \in S
  <2>1. Len(Tail(s)) \in Nat \ {0} /\ 2 \in 1 .. Len(s) /\ 1 \in 1 .. Len(Tail(s))
    BY <1>1, <1>6
  <2>2. Tail(s) # <<>>
    <3> DEFINE t == Tail(s)
    <3>1. Len(t) # 0
      BY <2>1
    <3> HIDE DEF t
    <3>2. t # <<>>
      BY <3>1
    <3> QED
      BY <3>2 DEF t
  <2>3. Tail(s)[1] = s[2]
    BY <1>1, <2>1
  <2>4. s[2] \in S
    BY <2>1
  <2> QED
    BY <2>2, <2>3, <2>4
<1>7. ASSUME Len(s) = 1
      PROVE  {Tail(s)[i] : i \in 1 .. Len(Tail(s))} = {}
  <2>1. Len(Tail(s)) = 0
    BY <1>1, <1>7
  <2>2. 1 .. 0 = {}
    OBVIOUS
  <2> QED
    BY <2>1, <2>2
<1> QED
  BY <1>1, <1>5, <1>6, <1>7

\* The request goes on to the next user, if there is one, and its answer says
\* what became of the present one.
LEMMA NextUserInOrder ==
    ASSUME AccountsInv, NEW r \in Requests, StoreEffect(r), HistoryKept,
           job[r] = "bulk", pc[r] \in {"load", "commit"},
           NEW n \in Report, NextUser(r, n),
           n.asked = report[r].asked,
           n.notProcessed = report[r].notProcessed,
           n.deleted \cup n.notFound \cup n.admins
               = report[r].deleted \cup report[r].notFound \cup report[r].admins
                     \cup {who[r]},
           \A u \in n.deleted \cup n.notFound : user'[u] = "gone",
           n.admins \subseteq Admins
    PROVE  StepInOrder(r)
<1> USE DEF AccountsInv, RequestInOrder
<1>1. /\ report' = [report EXCEPT ![r] = n]
      /\ todo' = [todo EXCEPT ![r] = Tail(todo[r])]
      /\ UNCHANGED <<job, memory>>
      /\ \/ /\ Len(todo[r]) = 1
            /\ pc' = [pc EXCEPT ![r] = "reply"]
            /\ who' = who
         \/ /\ Len(todo[r]) # 1
            /\ pc' = [pc EXCEPT ![r] = "load"]
            /\ who' = [who EXCEPT ![r] = todo[r][2]]
  BY DEF NextUser, Goto
<1>2. /\ job' = job /\ token' = token /\ prev' = prev /\ copy' = copy
      /\ wrote' = wrote
  BY <1>1 DEF memory
<1>3. /\ todo[r] # <<>> /\ todo[r] \in Seq(Users)
      /\ who[r] = todo[r][1]
      /\ n.notProcessed = {}
      /\ report[r].asked = report[r].deleted \cup report[r].notFound
             \cup report[r].admins \cup Rest(r)
      /\ \A u \in report[r].asked : user[u] # "absent"
  BY DEF KeepsAccount, TypeOK
<1> DEFINE left == {Tail(todo[r])[i] : i \in 1 .. Len(Tail(todo[r]))}
<1>4. /\ Tail(todo[r]) \in Seq(Users)
      /\ Rest(r) = {who[r]} \cup left
      /\ Len(todo[r]) = 1 => left = {}
      /\ Len(todo[r]) # 1 => /\ Tail(todo[r]) # <<>>
                             /\ Tail(todo[r])[1] = todo[r][2]
                             /\ todo[r][2] \in Users
  BY <1>3, RestOfList DEF Rest
<1>5. "load" \in Steps
  BY AllSteps
<1>6. who' \in [Requests -> Users \cup {NoUser}]
  BY <1>1, <1>4 DEF TypeOK
<1>7. RequestsTyped'
  <2>1. pc' \in [Requests -> Steps \cup {"idle", "free", "reply"}]
    <3>1. Goto(r, "reply") \/ Goto(r, "load")
      BY DEF NextUser
    <3>2. TypeOK
      OBVIOUS
    <3> HIDE DEF AccountsInv, RequestInOrder, left
    <3> QED
      BY <1>5, <3>1, <3>2, GotoTyped
  <2>2. todo' \in [Requests -> Seq(Users)]
    BY <1>1, <1>4 DEF TypeOK
  <2>3. report' \in [Requests -> Report]
    BY <1>1 DEF TypeOK
  <2> QED
    BY <1>2, <1>6, <2>1, <2>2, <2>3 DEF TypeOK, RequestsTyped
<1>8. OthersStay(r)
  BY <1>1, <1>2 DEF OthersStay, TypeOK
<1>9. /\ todo'[r] = Tail(todo[r]) /\ report'[r] = n /\ job'[r] = "bulk"
      /\ \/ Len(todo[r]) = 1 /\ pc'[r] = "reply" /\ who'[r] = who[r]
         \/ Len(todo[r]) # 1 /\ pc'[r] = "load" /\ who'[r] = todo[r][2]
  BY <1>1, <1>2 DEF TypeOK
<1>10. OnPath(r)'
  <2>1. who[r] \in Users
    BY AboutUser
  <2>2. \E i \in DOMAIN Path["bulk"] : "load" = Path["bulk"][i]
    BY Paths, StepsOfPath DEF StepOf
  <2> QED
    BY <1>4, <1>9, <2>1, <2>2 DEF OnPath
<1>11. KnowsUser(r)' /\ OwnsLink(r)' /\ LogsOut(r)' /\ ResetStep(r)
  BY <1>9 DEF KnowsUser, OwnsLink, LogsOut, ResetStep
<1>12. ~wrote[r]
  BY DEF WritesRow
<1>13. WritesRow(r)' /\ WroteStep(r)
  BY <1>2, <1>12 DEF WritesRow, WroteStep
<1>14. KeepsAccount(r)'
  <2>1. Rest(r)' = left
    BY <1>9 DEF Rest
  <2>2. n.asked = n.deleted \cup n.notFound \cup n.admins \cup left
    BY <1>3, <1>4
  <2>3. \A u \in n.asked : user'[u] # "absent"
    <3>1. n.asked \subseteq Users
      BY DEF Report
    <3>2. UsersMove(r)
      BY StoresMove DEF StoreFacts
    <3> QED
      BY <1>3, <3>1, <3>2 DEF UsersMove, TypeOK
  <2> HIDE DEF left
  <2> QED
    BY <1>3, <1>4, <1>9, <2>1, <2>2, <2>3 DEF KeepsAccount
<1> QED
  BY <1>7, <1>8, <1>10, <1>11, <1>13, <1>14 DEF StepInOrder

\* The present user is one of those who were asked for.
LEMMA PresentUser ==
    ASSUME AccountsInv, NEW r \in Requests, job[r] = "bulk", pc[r] \in {"load", "commit"}
    PROVE  /\ who[r] \in report[r].asked
           /\ user[who[r]] # "absent"
           /\ report[r] \in Report
<1> USE DEF AccountsInv, RequestInOrder
<1>1. todo[r] # <<>> /\ todo[r] \in Seq(Users) /\ who[r] = todo[r][1]
  BY DEF KeepsAccount, TypeOK
<1>2. who[r] \in Rest(r)
  <2>1. 1 \in 1 .. Len(todo[r])
    BY <1>1
  <2> QED
    BY <1>1, <2>1 DEF Rest
<1> QED
  BY <1>2 DEF KeepsAccount, TypeOK

LEMMA LoadNextInOrder ==
    ASSUME AccountsInv, NEW r \in Requests, LoadNext(r)
    PROVE  StepInOrder(r)
<1>1. HistoryKept /\ StoreEffect(r)
  BY HistoryStays DEF LoadNext, StoreEffect
<1>2. pc[r] = "load" /\ job[r] = "bulk" /\ UNCHANGED stores
  BY DEF LoadNext
<1>3. /\ user[who[r]] # "absent"
      /\ report[r] \in Report
      /\ who[r] \in Users
      /\ user' = user
  <2>1. who[r] \in Users
    BY <1>2, AboutUser DEF AccountsInv, RequestInOrder
  <2> QED
    BY <1>2, <2>1, PresentUser DEF stores
<1>4. /\ \A u \in report[r].deleted \cup report[r].notFound : user'[u] = "gone"
      /\ report[r].admins \subseteq Admins
  BY <1>2, <1>3 DEF AccountsInv, RequestInOrder, KeepsAccount
<1>5. CASE user[who[r]] # "saved"
  <2> DEFINE n == [report[r] EXCEPT !.notFound = @ \cup {who[r]}]
  <2>1. NextUser(r, n)
    BY <1>5 DEF LoadNext
  <2>2. /\ n \in Report
        /\ n.asked = report[r].asked
        /\ n.notProcessed = report[r].notProcessed
        /\ n.deleted = report[r].deleted
        /\ n.notFound = report[r].notFound \cup {who[r]}
        /\ n.admins = report[r].admins
    BY <1>3 DEF Report
  <2>3. user'[who[r]] = "gone"
    BY <1>3, <1>5 DEF AccountsInv, TypeOK
  <2> HIDE DEF n
  <2> QED
    BY <1>1, <1>2, <1>4, <2>1, <2>2, <2>3, NextUserInOrder
<1>6. CASE user[who[r]] = "saved" /\ who[r] \in Admins
  <2> DEFINE n == [report[r] EXCEPT !.admins = @ \cup {who[r]}]
  <2>1. NextUser(r, n)
    BY <1>6 DEF LoadNext
  <2>2. /\ n \in Report
        /\ n.asked = report[r].asked
        /\ n.notProcessed = report[r].notProcessed
        /\ n.deleted = report[r].deleted
        /\ n.notFound = report[r].notFound
        /\ n.admins = report[r].admins \cup {who[r]}
    BY <1>3 DEF Report
  <2> HIDE DEF n
  <2> QED
    BY <1>1, <1>2, <1>4, <1>6, <2>1, <2>2, NextUserInOrder
<1>7. CASE user[who[r]] = "saved" /\ who[r] \notin Admins
  <2>1. Goto(r, Following(r)) /\ UNCHANGED <<progress, memory>>
    BY <1>7 DEF LoadNext
  <2>2. Following(r) # "idle"
    BY <1>2, Moves DEF AccountsInv, RequestInOrder
  <2>3. GoOn(r)
    BY <2>1, <2>2 DEF GoOn
  <2> QED
    BY <1>1, <1>2, <1>7, <2>3, GoOnInOrder
<1> QED
  BY <1>5, <1>6, <1>7

LEMMA CommitInOrder ==
    ASSUME AccountsInv, NEW r \in Requests, Commit(r)
    PROVE  StepInOrder(r)
<1>1. HistoryKept
  BY HistoryStays DEF Commit
<1>2. pc[r] = "commit" /\ CommitRow(r) /\ StoreEffect(r)
  BY DEF Commit, StoreEffect, Applied
<1>3. who[r] \in Users
  BY <1>2, AboutUser DEF AccountsInv, RequestInOrder
<1>4. CASE job[r] = "bulk"
  <2> DEFINE n == [report[r] EXCEPT !.deleted = @ \cup {who[r]}]
  <2>1. NextUser(r, n)
    BY <1>4 DEF Commit
  <2>2. report[r] \in Report
    BY <1>2, <1>4, PresentUser
  <2>3. /\ n \in Report
        /\ n.asked = report[r].asked
        /\ n.notProcessed = report[r].notProcessed
        /\ n.deleted = report[r].deleted \cup {who[r]}
        /\ n.notFound = report[r].notFound
        /\ n.admins = report[r].admins
    BY <1>3, <2>2 DEF Report
  <2>4. user' = [user EXCEPT ![who[r]] = "gone"]
    BY <1>2, <1>4 DEF CommitRow, CommitVerify, CommitReset, CommitUpdate, CommitDelete
  <2>5. /\ \A u \in report[r].deleted \cup report[r].notFound : user[u] = "gone"
        /\ report[r].deleted \cup report[r].notFound \subseteq Users
        /\ report[r].admins \subseteq Admins
    BY <1>2, <1>4, <2>2 DEF AccountsInv, RequestInOrder, KeepsAccount, Report
  <2>6. user'[who[r]] = "gone"
        /\ \A u \in report[r].deleted \cup report[r].notFound : user'[u] = "gone"
    BY <1>3, <2>4, <2>5 DEF AccountsInv, TypeOK
  <2> HIDE DEF n
  <2> QED
    BY <1>1, <1>2, <1>4, <2>1, <2>3, <2>5, <2>6, NextUserInOrder
<1>5. CASE job[r] # "bulk" /\ Following(r) = "idle"
  BY <1>1, <1>2, <1>5, EndInOrder DEF Commit
<1>6. CASE job[r] # "bulk" /\ Following(r) # "idle"
  <2>1. /\ Goto(r, Following(r))
        /\ wrote' = [wrote EXCEPT ![r] = FALSE]
        /\ UNCHANGED <<progress, token, prev, copy>>
    BY <1>6 DEF Commit
  <2>2. wrote' \in [Requests -> BOOLEAN] /\ \A q \in Requests \ {r} : wrote'[q] = wrote[q]
    BY <2>1 DEF AccountsInv, TypeOK
  <2>3. ~wrote'[r]
    BY <2>1 DEF AccountsInv, TypeOK
  <2>4. WritesRow(r)' /\ WroteStep(r)
    BY <2>3 DEF WritesRow, WroteStep
  <2> QED
    BY <1>1, <1>2, <1>6, <2>1, <2>2, <2>4, MovesInOrder DEF AccountsInv, TypeOK
<1> QED
  BY <1>4, <1>5, <1>6

-----------------------------------------------------------------------------
(* Failures.                                                                *)

\* The administrator is told whom the deletion did not get to.
LEMMA StopInOrder ==
    ASSUME AccountsInv, NEW r \in Requests, StoreEffect(r), HistoryKept,
           job[r] = "bulk", pc[r] = "revoke",
           Goto(r, "reply"),
           report' = [report EXCEPT ![r].notProcessed = Rest(r)],
           UNCHANGED <<job, who, todo, memory>>
    PROVE  StepInOrder(r)
<1> USE DEF AccountsInv, RequestInOrder
<1>1. /\ job' = job /\ who' = who /\ todo' = todo /\ token' = token /\ prev' = prev
      /\ copy' = copy /\ wrote' = wrote
  BY DEF memory
<1> DEFINE n == [report[r] EXCEPT !.notProcessed = Rest(r)]
<1>2. Rest(r) \subseteq Users
  BY RestIsUsers
<1>3. /\ n \in Report
      /\ n.asked = report[r].asked
      /\ n.notProcessed = Rest(r)
      /\ n.deleted = report[r].deleted
      /\ n.notFound = report[r].notFound
      /\ n.admins = report[r].admins
  <2>1. report[r] \in Report
    BY DEF TypeOK
  <2> DEFINE rest == Rest(r)
  <2>2. rest \subseteq Users
    BY <1>2
  <2> HIDE DEF rest
  <2>3. /\ [report[r] EXCEPT !.notProcessed = rest] \in Report
        /\ [report[r] EXCEPT !.notProcessed = rest].asked = report[r].asked
        /\ [report[r] EXCEPT !.notProcessed = rest].notProcessed = rest
        /\ [report[r] EXCEPT !.notProcessed = rest].deleted = report[r].deleted
        /\ [report[r] EXCEPT !.notProcessed = rest].notFound = report[r].notFound
        /\ [report[r] EXCEPT !.notProcessed = rest].admins = report[r].admins
    BY <2>1, <2>2 DEF Report
  <2> QED
    BY <2>3 DEF rest
<1>4. report' = [report EXCEPT ![r] = n]
  OBVIOUS
<1> HIDE DEF n
<1>5. RequestsTyped'
  <2>1. report' \in [Requests -> Report]
    BY <1>3, <1>4 DEF TypeOK
  <2>2. pc' \in [Requests -> Steps \cup {"idle", "free", "reply"}]
    BY DEF Goto, TypeOK
  <2> QED
    BY <1>1, <2>1, <2>2 DEF TypeOK, RequestsTyped
<1>6. OthersStay(r)
  BY <1>1, <1>4 DEF Goto, OthersStay, TypeOK
<1>7. report'[r] = n /\ pc'[r] = "reply"
  BY <1>4 DEF Goto, TypeOK
<1>8. OnPath(r)'
  BY <1>1, <1>7, AboutUser DEF OnPath
<1>9. KnowsUser(r)' /\ WritesRow(r)' /\ OwnsLink(r)' /\ LogsOut(r)' /\ ResetStep(r)
  BY <1>1, <1>7 DEF KnowsUser, WritesRow, OwnsLink, LogsOut, ResetStep
<1>10. WroteStep(r)
  BY <1>1, LocksNothing
<1>11. KeepsAccount(r)'
  <2>1. /\ report[r].asked = report[r].deleted \cup report[r].notFound
               \cup report[r].admins \cup Rest(r)
        /\ \A u \in report[r].asked : user[u] # "absent"
        /\ \A u \in report[r].deleted \cup report[r].notFound : user[u] = "gone"
        /\ report[r].admins \subseteq Admins
    BY DEF KeepsAccount
  <2>2. report[r].asked \subseteq Users
    BY DEF TypeOK, Report
  <2>3. /\ \A u \in Users : user[u] # "absent" => user'[u] # "absent"
        /\ \A u \in Users : user[u] = "gone" => user'[u] = "gone"
    BY StoresMove DEF StoreFacts, UsersMove, TypeOK
  <2> QED
    BY <1>1, <1>3, <1>7, <2>1, <2>2, <2>3 DEF KeepsAccount
<1> QED
  BY <1>5, <1>6, <1>8, <1>9, <1>10, <1>11 DEF StepInOrder

\* An e-mail request frees its cooldown before it ends.
LEMMA FreesInOrder ==
    ASSUME AccountsInv, NEW r \in Requests, StoreEffect(r), HistoryKept,
           job[r] \in {"resend", "forgot"},
           pc[r] \in {"previous", "drop", "setlink", "track", "enqueue"},
           Goto(r, "free"),
           UNCHANGED <<progress, memory>>
    PROVE  StepInOrder(r)
<1> USE DEF AccountsInv, RequestInOrder
<1>1. /\ job' = job /\ who' = who /\ todo' = todo /\ report' = report
      /\ token' = token /\ prev' = prev /\ copy' = copy /\ wrote' = wrote
  BY DEF progress, memory
<1>2. pc' \in [Requests -> Steps \cup {"idle", "free", "reply"}]
  BY DEF Goto, TypeOK
<1>3. RequestsTyped'
  BY <1>1, <1>2 DEF TypeOK, RequestsTyped
<1>4. OthersStay(r)
  BY <1>1 DEF Goto, OthersStay, TypeOK
<1>5. pc'[r] = "free"
  BY DEF Goto, TypeOK
<1>6. who[r] \in Users
  BY AboutUser
<1>7. OnPath(r)'
  BY <1>1, <1>5, <1>6 DEF OnPath
<1>8. KnowsUser(r)'
  <2>1. user[who[r]] # "absent"
    BY DEF KnowsUser
  <2>2. user'[who[r]] # "absent"
    BY <1>6, <2>1, StoresMove DEF StoreFacts, UsersMove, TypeOK
  <2> QED
    BY <1>1, <1>5, <2>2 DEF KnowsUser
<1>9. WritesRow(r)' /\ OwnsLink(r)' /\ LogsOut(r)' /\ KeepsAccount(r)' /\ ResetStep(r)
  BY <1>1 DEF WritesRow, OwnsLink, LogsOut, KeepsAccount, ResetStep
<1>10. WroteStep(r)
  BY <1>1, LocksNothing
<1> QED
  BY <1>3, <1>4, <1>7, <1>8, <1>9, <1>10 DEF StepInOrder

LEMMA FailInOrder ==
    ASSUME AccountsInv, NEW r \in Requests, Fail(r)
    PROVE  StepInOrder(r)
<1>1. StoreEffect(r)
  BY DEF Fail, StoreEffect
<1>2. HistoryKept
  <2>1. faults' \in 0 .. MaxFaults
    BY DEF Fail, AccountsInv, TypeOK
  <2>2. calm' \subseteq Kinds \X Users
    BY DEF Fail, AccountsInv, TypeOK
  <2> QED
    BY <2>1, <2>2 DEF Fail, HistoryKept, AccountsInv, TypeOK
<1>3. CASE End(r)
  BY <1>1, <1>2, <1>3, EndInOrder
<1>4. CASE /\ job[r] = "bulk" /\ pc[r] = "revoke"
           /\ Goto(r, "reply")
           /\ report' = [report EXCEPT ![r].notProcessed = Rest(r)]
           /\ UNCHANGED <<job, who, todo, memory>>
  BY <1>1, <1>2, <1>4, StopInOrder
<1>5. CASE /\ job[r] \in {"resend", "forgot"}
           /\ pc[r] \in {"previous", "drop", "setlink", "track", "enqueue"}
           /\ Goto(r, "free")
           /\ UNCHANGED <<progress, memory>>
  BY <1>1, <1>2, <1>5, FreesInOrder
<1> QED
  BY <1>3, <1>4, <1>5 DEF Fail

-----------------------------------------------------------------------------
(* Requests come in.                                                        *)

LEMMA StartInOrder ==
    ASSUME AccountsInv, NEW r \in Requests, NEW j \in DOMAIN Path, NEW u \in Users,
           Start(r, j, u),
           token' \in [Requests -> 0 .. MaxLinks],
           todo' \in [Requests -> Seq(Users)],
           report' \in [Requests -> Report],
           \A q \in Requests \ {r} :
               token'[q] = token[q] /\ todo'[q] = todo[q] /\ report'[q] = report[q],
           j \in {"verify", "reset"} =>
               token'[r] \in mailed /\ link[token'[r]].user = u,
           j = "bulk" =>
               /\ todo'[r] # <<>> /\ u = todo'[r][1]
               /\ report'[r].notProcessed = {}
               /\ report'[r].asked = report'[r].deleted \cup report'[r].notFound
                      \cup report'[r].admins \cup Rest(r)'
               /\ \A v \in report'[r].asked : user[v] # "absent"
               /\ \A v \in report'[r].deleted \cup report'[r].notFound : user[v] = "gone"
               /\ report'[r].admins \subseteq Admins
    PROVE  StepInOrder(r)
<1> USE DEF AccountsInv, RequestInOrder
<1>1. /\ pc[r] = "idle"
      /\ pc' = [pc EXCEPT ![r] = Head(Path[j])]
      /\ job' = [job EXCEPT ![r] = j]
      /\ who' = [who EXCEPT ![r] = u]
      /\ UNCHANGED <<stores, prev, copy, wrote>>
  BY DEF Start, Goto
<1>2. StoreEffect(r)
  BY <1>1 DEF StoreEffect
<1>3. HistoryKept
  <2>1. started' \in 0 .. MaxRequests
    BY DEF Start, TypeOK
  <2>2. calm' \subseteq Kinds \X Users
    BY DEF Start, TypeOK
  <2> QED
    BY <2>1, <2>2 DEF Start, HistoryKept, TypeOK
<1>4. /\ Head(Path[j]) \in {"save", "load", "consume"}
      /\ StepOf(j, Head(Path[j]))
      /\ j \in {"verify", "reset"} => Head(Path[j]) = "consume"
  BY Paths DEF StepOf
<1>5. Head(Path[j]) \in Steps
  BY <1>4, AllSteps
<1>6. RequestsTyped'
  <2>1. pc' \in [Requests -> Steps \cup {"idle", "free", "reply"}]
    BY <1>1, <1>5 DEF TypeOK
  <2>2. job' \in [Requests -> DOMAIN Path \cup {"none"}]
    BY <1>1 DEF TypeOK
  <2>3. who' \in [Requests -> Users \cup {NoUser}]
    BY <1>1 DEF TypeOK
  <2> QED
    BY <1>1, <2>1, <2>2, <2>3 DEF TypeOK, RequestsTyped
<1>7. OthersStay(r)
  BY <1>1 DEF OthersStay, TypeOK
<1>8. pc'[r] = Head(Path[j]) /\ job'[r] = j /\ who'[r] = u
  BY <1>1 DEF TypeOK
<1>9. OnPath(r)'
  <2>1. \E i \in DOMAIN Path[j] : Head(Path[j]) = Path[j][i]
    BY <1>4, StepsOfPath
  <2>2. j # "none" /\ Head(Path[j]) # "idle"
    BY <1>4, Paths
  <2> QED
    BY <1>8, <2>1, <2>2 DEF OnPath
<1>10. mailed' = mailed /\ link' = link /\ user' = user
  BY <1>1 DEF stores
<1>11. KnowsUser(r)'
  <2>1. CASE j \in {"verify", "reset"}
    <3>1. token'[r] \in mailed' /\ link'[token'[r]].user = u
      BY <1>10, <2>1
    <3>2. user[link[token'[r]].user] # "absent"
      BY <2>1 DEF LinksNameSavedUsers
    <3> QED
      BY <1>4, <1>8, <1>10, <2>1, <3>1, <3>2 DEF KnowsUser
  <2>2. CASE j \notin {"verify", "reset"}
    <3>1. Head(Path[j]) \in {"save", "load"}
      BY <1>4, <2>2 DEF StepOf
    <3> QED
      BY <1>8, <2>2, <3>1 DEF KnowsUser
  <2> QED
    BY <2>1, <2>2
<1>12. ~wrote[r]
  BY <1>1 DEF WritesRow, OnPath
<1>13. WritesRow(r)' /\ WroteStep(r)
  BY <1>1, <1>12 DEF WritesRow, WroteStep
<1>14. OwnsLink(r)' /\ LogsOut(r)' /\ ResetStep(r)
  BY <1>4, <1>8 DEF OwnsLink, LogsOut, ResetStep
<1>15. KeepsAccount(r)'
  BY <1>4, <1>8, <1>10 DEF KeepsAccount
<1> QED
  BY <1>2, <1>3, <1>6, <1>7, <1>9, <1>11, <1>13, <1>14, <1>15 DEF StepInOrder

LEMMA StartForUserInOrder ==
    ASSUME AccountsInv, NEW r \in Requests, NEW u \in Active, StartForUser(r, u)
    PROVE  StepInOrder(r)
<1>1. PICK j \in {"signup", "resend", "forgot", "update", "delete"} : Start(r, j, u)
  BY DEF StartForUser
<1>2. token' = token /\ todo' = todo /\ report' = report
  BY DEF StartForUser
<1>3. j \in DOMAIN Path /\ j \notin {"verify", "reset", "bulk"} /\ u \in Users
  BY Paths
<1> QED
  BY <1>1, <1>2, <1>3, StartInOrder DEF AccountsInv, TypeOK

LEMMA OpenLinkInOrder ==
    ASSUME AccountsInv, NEW r \in Requests, NEW n \in Links, OpenLink(r, n)
    PROVE  StepInOrder(r)
<1> DEFINE j == link[n].kind
           u == link[n].user
<1>1. /\ n \in mailed
      /\ Start(r, j, u)
      /\ token' = [token EXCEPT ![r] = n]
      /\ todo' = todo /\ report' = report
  BY DEF OpenLink
<1>2. j \in {"verify", "reset"} /\ u \in Users
  BY LinkType DEF AccountsInv, Kinds
<1>3. j \in DOMAIN Path
  BY <1>2, Paths
<1>4. n \in 0 .. MaxLinks
  BY DEF AccountsInv, TypeOK, Links
<1>5. /\ token' \in [Requests -> 0 .. MaxLinks]
      /\ token'[r] = n
      /\ \A q \in Requests \ {r} : token'[q] = token[q]
  BY <1>1, <1>4 DEF AccountsInv, TypeOK
<1>6. todo' \in [Requests -> Seq(Users)] /\ report' \in [Requests -> Report]
  BY <1>1 DEF AccountsInv, TypeOK
<1>7. token'[r] \in mailed /\ link[token'[r]].user = u
  BY <1>1, <1>5
<1> HIDE DEF j, u
<1> QED
  BY <1>1, <1>2, <1>3, <1>5, <1>6, <1>7, StartInOrder

LEMMA StartBulkInOrder ==
    ASSUME AccountsInv, NEW r \in Requests, StartBulk(r)
    PROVE  StepInOrder(r)
<1>1. PICK list \in BulkLists :
          /\ \A u \in {list[i] : i \in DOMAIN list} : user[u] # "absent"
          /\ Start(r, "bulk", list[1])
          /\ todo' = [todo EXCEPT ![r] = list]
          /\ report' = [report EXCEPT ![r] =
                           [NoReport EXCEPT !.asked = {list[i] : i \in DOMAIN list}]]
          /\ UNCHANGED token
  BY DEF StartBulk
<1>2. list \in Seq(Users) /\ list # <<>>
  OBVIOUS
<1>3. /\ list[1] \in Users
      /\ DOMAIN list = 1 .. Len(list)
      /\ {list[i] : i \in DOMAIN list} \subseteq Users
  BY <1>2
<1> DEFINE asked == {list[i] : i \in DOMAIN list}
           n == [NoReport EXCEPT !.asked = asked]
<1>4. asked \subseteq Users
  BY <1>3
<1>5. report' = [report EXCEPT ![r] = n]
  BY <1>1
<1>6. /\ n \in Report
      /\ n.asked = asked
      /\ n.deleted = {} /\ n.notFound = {} /\ n.admins = {} /\ n.notProcessed = {}
  <2> HIDE DEF asked
  <2> QED
    BY <1>4 DEF Report, NoReport
<1> HIDE DEF n
<1>7. todo' \in [Requests -> Seq(Users)] /\ todo'[r] = list
  BY <1>1, <1>2 DEF AccountsInv, TypeOK
<1>8. report' \in [Requests -> Report] /\ report'[r] = n
  BY <1>5, <1>6 DEF AccountsInv, TypeOK
<1>9. \A q \in Requests \ {r} :
          token'[q] = token[q] /\ todo'[q] = todo[q] /\ report'[q] = report[q]
  BY <1>1, <1>5 DEF AccountsInv, TypeOK
<1>10. token' \in [Requests -> 0 .. MaxLinks]
  BY <1>1 DEF AccountsInv, TypeOK
<1>11. Rest(r)' = asked
  BY <1>3, <1>7 DEF Rest
<1>12. \A v \in asked : user[v] # "absent"
  BY <1>1
<1>13. "bulk" \in DOMAIN Path
  BY Paths
<1>14. /\ todo'[r] # <<>> /\ list[1] = todo'[r][1]
       /\ report'[r].notProcessed = {}
       /\ report'[r].asked = report'[r].deleted \cup report'[r].notFound
              \cup report'[r].admins \cup Rest(r)'
  BY <1>2, <1>6, <1>7, <1>8, <1>11
<1>15. /\ \A v \in report'[r].asked : user[v] # "absent"
       /\ \A v \in report'[r].deleted \cup report'[r].notFound : user[v] = "gone"
       /\ report'[r].admins \subseteq Admins
  BY <1>6, <1>8, <1>12
<1> HIDE DEF asked
<1> DEFINE u == list[1]
<1>16. u \in Users /\ Start(r, "bulk", u) /\ u = todo'[r][1]
  BY <1>1, <1>3, <1>14
<1> HIDE DEF u
<1> QED
  BY <1>7, <1>8, <1>9, <1>10, <1>13, <1>14, <1>15, <1>16, StartInOrder

-----------------------------------------------------------------------------
(* A step in order keeps the others in order.                               *)

LEMMA OthersInOrder ==
    ASSUME AccountsInv, NEW r \in Requests, StepInOrder(r),
           NEW q \in Requests \ {r}
    PROVE  RequestInOrder(q)'
<1> USE DEF AccountsInv, RequestInOrder
<1>1. StoreFacts(r)
  BY StoresMove DEF StepInOrder
<1>2. /\ pc'[q] = pc[q] /\ job'[q] = job[q] /\ who'[q] = who[q]
      /\ token'[q] = token[q] /\ wrote'[q] = wrote[q]
      /\ todo'[q] = todo[q] /\ report'[q] = report[q]
  BY DEF StepInOrder, OthersStay
<1>3. Len(link) \in Nat /\ Len(link') \in Nat
  BY <1>1 DEF TypeOK, StoreFacts, StoresTyped
<1>4. /\ \A u \in Users : user[u] # "absent" => user'[u] # "absent"
      /\ \A u \in Users : user[u] = "gone" => user'[u] = "gone"
  BY <1>1 DEF StoreFacts, UsersMove, TypeOK
<1>5. OnPath(q)'
  BY <1>2 DEF OnPath
<1>6. KnowsUser(q)'
  <2>1. pc[q] \notin {"idle", "save", "load", "reply"} => user'[who[q]] # "absent"
    BY <1>4, AboutUser DEF KnowsUser
  <2>2. job[q] \in {"verify", "reset"} =>
           token[q] \in mailed' /\ link'[token[q]].user = who[q]
    BY <1>1 DEF StoreFacts, LinksStay, LinksMove, KnowsUser, TypeOK
  <2>3. pc[q] \in {"track", "enqueue"} =>
           token[q] \in Links' /\ link'[token[q]].user = who[q]
    <3>1. LinksStay
      BY <1>1 DEF StoreFacts
    <3> QED
      BY <1>3, <3>1 DEF LinksStay, KnowsUser, Links
  <2> QED
    BY <1>2, <2>1, <2>2, <2>3 DEF KnowsUser
<1>7. WritesRow(q)'
  BY <1>2 DEF WritesRow
<1>8. OwnsLink(q)'
  <2>1. SUFFICES ASSUME job[q] = "reset", pc[q] # "consume"
                 PROVE  OwnsLink(q)'
    BY <1>2 DEF OwnsLink
  <2>2. /\ token[q] \in Links /\ token[q] \notin works
        /\ \A i \in DOMAIN spent : spent[i] # token[q]
        /\ \A p \in Requests \ {q} :
              job[p] = "reset" /\ pc[p] # "consume" => token[p] # token[q]
    BY <2>1 DEF OwnsLink, KnowsUser, TypeOK
  <2>3. token[q] \notin works'
    <3>1. LinksMove(r)
      BY <1>1 DEF StoreFacts
    <3> QED
      BY <1>3, <2>2, <3>1 DEF LinksMove, Links
  <2>4. \A i \in DOMAIN spent' : spent'[i] # token[q]
    <3>1. CASE spent' = spent
      BY <2>2, <3>1
    <3>2. CASE pc[r] = "commit" /\ job[r] = "reset" /\ spent' = Append(spent, token[r])
      <4>1. token[r] # token[q]
        BY <2>2, <3>2
      <4>2. spent \in Seq(1 .. MaxLinks) /\ token[r] \in 0 .. MaxLinks
        BY DEF TypeOK
      <4> QED
        BY <2>2, <3>2, <4>1, <4>2
    <3> QED
      BY <1>1, <3>1, <3>2 DEF StoreFacts, SpentMoves
  <2>5. \A p \in Requests \ {q} :
            job'[p] = "reset" /\ pc'[p] # "consume" => token'[p] # token[q]
    <3>1. TAKE p \in Requests \ {q}
    <3>2. CASE p = r
      BY <2>2, <3>2 DEF StepInOrder, ResetStep
    <3>3. CASE p # r
      BY <2>2, <3>3 DEF StepInOrder, OthersStay
    <3> QED
      BY <3>2, <3>3
  <2> QED
    BY <1>2, <2>3, <2>4, <2>5 DEF OwnsLink
<1>9. LogsOut(q)'
  <2>1. SUFFICES ASSUME job[q] \in {"delete", "bulk"}
                 PROVE  LogsOut(q)'
    BY <1>2 DEF LogsOut
  <2>2. pc[q] # "idle"
    BY <2>1 DEF OnPath
  <2>3. access'[who[q]] => access[who[q]]
    BY <1>1, <2>2, AboutUser DEF StoreFacts, NobodyGetsIn
  <2> QED
    BY <1>2, <2>1, <2>3 DEF LogsOut, StepInOrder, HistoryKept
<1>10. KeepsAccount(q)'
  <2>1. Rest(q)' = Rest(q)
    BY <1>2 DEF Rest
  <2>2. /\ report[q].asked \subseteq Users
        /\ report[q].deleted \subseteq Users
        /\ report[q].notFound \subseteq Users
    BY DEF TypeOK, Report
  <2>3. KeepsAccount(q)
    OBVIOUS
  <2> HIDE DEF AccountsInv, RequestInOrder
  <2>4. job[q] = "bulk" => \A u \in report[q].asked : user'[u] # "absent"
    BY <1>4, <2>2, <2>3 DEF KeepsAccount
  <2>5. job[q] = "bulk" =>
           \A u \in report[q].deleted \cup report[q].notFound : user'[u] = "gone"
    BY <1>4, <2>2, <2>3 DEF KeepsAccount
  <2> QED
    BY <1>2, <2>1, <2>3, <2>4, <2>5 DEF KeepsAccount
<1> QED
  BY <1>5, <1>6, <1>7, <1>8, <1>9, <1>10

LEMMA StepInv ==
    ASSUME AccountsInv, NEW r \in Requests, StepInOrder(r)
    PROVE  AccountsInv'
<1> USE DEF AccountsInv
<1>1. StoreFacts(r)
  BY StoresMove DEF StepInOrder
<1>2. TypeOK'
  BY <1>1 DEF StepInOrder, StoreFacts, StoresTyped, RequestsTyped, HistoryKept, TypeOK
<1>3. \A q \in Requests : RequestInOrder(q)'
  BY OthersInOrder DEF StepInOrder
<1>4. LinksNameSavedUsers'
  <2>1. SUFFICES ASSUME NEW n \in works' \cup mailed'
                 PROVE  user'[link'[n].user] # "absent"
    BY DEF LinksNameSavedUsers
  <2>2. CASE n \in works \cup mailed
    <3>1. n \in Links
      BY <2>2 DEF TypeOK
    <3>2. user[link[n].user] # "absent" /\ link[n].user \in Users
      BY <2>2, <3>1, LinkType DEF LinksNameSavedUsers
    <3>3. link'[n] = link[n]
      BY <1>1, <3>1 DEF StoreFacts, LinksStay
    <3>4. \A u \in Users : user[u] # "absent" => user'[u] # "absent"
      BY <1>1 DEF StoreFacts, UsersMove, TypeOK
    <3> QED
      BY <3>2, <3>3, <3>4
  <2>3. CASE n \in works' /\ n \notin works
    BY <1>1, <2>3 DEF StoreFacts, LinksMove
  <2>4. CASE n \in mailed' /\ n \notin mailed
    <3>1. n \in Links /\ link[n].user = who[r] /\ user'[who[r]] # "absent"
      BY <1>1, <2>4 DEF StoreFacts, LinksMove
    <3> QED
      BY <1>1, <3>1 DEF StoreFacts, LinksStay
  <2> QED
    BY <2>2, <2>3, <2>4
<1>5. RowsAreLocked'
  <2>1. SUFFICES ASSUME NEW q \in Requests, wrote'[q]
                 PROVE  user'[who'[q]] = "saved" /\ ~Locked(q)'
    BY DEF RowsAreLocked
  <2>2. \A p \in Requests \ {r} : wrote'[p] = wrote[p] /\ who'[p] = who[p]
    BY DEF StepInOrder, OthersStay
  <2>3. WroteStep(r)
    BY DEF StepInOrder
  <2>4. \A p \in Requests : wrote[p] => user[who[p]] = "saved" /\ ~Locked(p)
    BY DEF RowsAreLocked
  <2>5. CASE q = r
    <3>1. /\ who'[r] = who[r] /\ user'[who[r]] = "saved"
          /\ wrote[r] \/ ~Locked(r)
      BY <2>1, <2>3, <2>5 DEF WroteStep
    <3>2. ~Locked(r)
      BY <2>4, <3>1
    <3>3. ~Locked(r)'
      BY <2>2, <3>1, <3>2 DEF Locked
    <3> QED
      BY <2>5, <3>1, <3>3
  <2>6. CASE q # r
    <3>1. wrote[q] /\ who'[q] = who[q] /\ user[who[q]] = "saved" /\ ~Locked(q)
      BY <2>1, <2>2, <2>4, <2>6
    <3>2. who[q] \in Users
      <4>1. pc[q] # "idle"
        BY <3>1 DEF RequestInOrder, WritesRow, OnPath
      <4> QED
        BY <4>1, AboutUser DEF RequestInOrder
    <3>3. who[q] = who[r] => Locked(r)
      BY <2>6, <3>1 DEF Locked
    <3>4. user'[who[q]] = "saved"
      BY <1>1, <3>1, <3>2, <3>3 DEF StoreFacts, UsersMove
    <3>5. ~Locked(q)'
      <4>1. SUFFICES ASSUME NEW p \in Requests \ {q}, wrote'[p], who'[p] = who[q]
                     PROVE  FALSE
        BY <3>1 DEF Locked
      <4>2. CASE p # r
        BY <2>2, <3>1, <4>1, <4>2 DEF Locked
      <4>3. CASE p = r
        <5>1. who[r] = who[q] /\ (wrote[r] \/ ~Locked(r))
          BY <2>3, <4>1, <4>3 DEF WroteStep
        <5>2. wrote[r]
          BY <3>3, <5>1
        <5> QED
          BY <2>6, <3>1, <5>1, <5>2 DEF Locked
      <4> QED
        BY <4>2, <4>3
    <3> QED
      BY <3>1, <3>4, <3>5
  <2> QED
    BY <2>5, <2>6
<1>6. SpentAreUsed'
  <2>1. Len(link) \in Nat /\ Len(link') \in Nat
    BY <1>1 DEF TypeOK, StoreFacts, StoresTyped
  <2>2. \A n \in Links : n \notin works => n \in Links' /\ n \notin works'
    BY <1>1, <2>1 DEF StoreFacts, LinksStay, LinksMove, Links
  <2>3. CASE spent' = spent
    BY <2>2, <2>3 DEF SpentAreUsed
  <2>4. CASE pc[r] = "commit" /\ job[r] = "reset" /\ spent' = Append(spent, token[r])
    <3>1. token[r] \in Links /\ token[r] \notin works
      BY <2>4 DEF RequestInOrder, OwnsLink, KnowsUser, TypeOK
    <3>2. spent \in Seq(1 .. MaxLinks) /\ token[r] \in 0 .. MaxLinks
      BY DEF TypeOK
    <3>3. \A i \in DOMAIN spent' : spent'[i] = token[r] \/ \E k \in DOMAIN spent : spent'[i] = spent[k]
      BY <2>4, <3>2
    <3> QED
      BY <2>2, <3>1, <3>3 DEF SpentAreUsed
  <2> QED
    BY <1>1, <2>3, <2>4 DEF StoreFacts, SpentMoves
<1>7. AdminsStay'
  <2>1. SUFFICES ASSUME NEW u \in Admins
                 PROVE  user'[u] = "saved"
    BY DEF AdminsStay
  <2>2. u \in Users /\ user[u] = "saved"
    BY DEF AdminsStay
  <2>3. pc[r] = "commit" /\ job[r] \in {"delete", "bulk"} => who[r] \notin Admins
    BY DEF RequestInOrder, LogsOut
  <2> QED
    BY <1>1, <2>2, <2>3 DEF StoreFacts, UsersMove
<1> QED
  BY <1>2, <1>3, <1>4, <1>5, <1>6, <1>7

-----------------------------------------------------------------------------
(* Time, and the sessions.                                                  *)

LEMMA LinkExpiresInv ==
    ASSUME AccountsInv, NEW n \in Links, LinkExpires(n)
    PROVE  AccountsInv'
<1> USE DEF AccountsInv
<1>1. /\ works' = works \ {n}
      /\ UNCHANGED <<user, address, verified, access, link, tracked, cooldown,
                     mailed, pc, job, who, token, prev, copy, wrote, todo, report,
                     spent, confirmed, calm, late, started, faults>>
  BY DEF LinkExpires, row, progress, memory, bounds
<1>2. TypeOK'
  BY <1>1 DEF TypeOK, Links
<1>3. LinksNameSavedUsers'
  BY <1>1 DEF LinksNameSavedUsers
<1>4. RowsAreLocked'
  BY <1>1 DEF RowsAreLocked, Locked
<1>5. SpentAreUsed'
  BY <1>1 DEF SpentAreUsed, Links
<1>6. AdminsStay'
  BY <1>1 DEF AdminsStay
<1>7. ASSUME NEW r \in Requests
      PROVE  RequestInOrder(r)'
  <2> USE DEF RequestInOrder
  <2>1. OnPath(r)' /\ WritesRow(r)' /\ LogsOut(r)'
    BY <1>1 DEF OnPath, WritesRow, LogsOut
  <2>2. KnowsUser(r)'
    BY <1>1 DEF KnowsUser, Links
  <2>3. OwnsLink(r)'
    BY <1>1 DEF OwnsLink
  <2>4. KeepsAccount(r)'
    <3>1. Rest(r)' = Rest(r)
      BY <1>1 DEF Rest
    <3> QED
      BY <1>1, <3>1 DEF KeepsAccount
  <2> QED
    BY <2>1, <2>2, <2>3, <2>4
<1> QED
  BY <1>2, <1>3, <1>4, <1>5, <1>6, <1>7

LEMMA CooldownEndsInv ==
    ASSUME AccountsInv, NEW k \in Kinds, NEW u \in Users, CooldownEnds(k, u)
    PROVE  AccountsInv'
<1> USE DEF AccountsInv
<1>1. /\ cooldown' = cooldown \ {<<k, u>>}
      /\ UNCHANGED <<user, address, verified, access, link, works, tracked,
                     mailed, pc, job, who, token, prev, copy, wrote, todo, report,
                     spent, confirmed, calm, late, started, faults>>
  BY DEF CooldownEnds, row, progress, memory, bounds
<1>2. TypeOK'
  BY <1>1 DEF TypeOK, Links
<1>3. LinksNameSavedUsers' /\ AdminsStay'
  BY <1>1 DEF LinksNameSavedUsers, AdminsStay
<1>4. RowsAreLocked'
  BY <1>1 DEF RowsAreLocked, Locked
<1>5. SpentAreUsed'
  BY <1>1 DEF SpentAreUsed, Links
<1>6. ASSUME NEW r \in Requests
      PROVE  RequestInOrder(r)'
  <2> USE DEF RequestInOrder
  <2>1. OnPath(r)' /\ WritesRow(r)' /\ LogsOut(r)'
    BY <1>1 DEF OnPath, WritesRow, LogsOut
  <2>2. KnowsUser(r)' /\ OwnsLink(r)'
    BY <1>1 DEF KnowsUser, OwnsLink, Links
  <2>3. KeepsAccount(r)'
    <3>1. Rest(r)' = Rest(r)
      BY <1>1 DEF Rest
    <3> QED
      BY <1>1, <3>1 DEF KeepsAccount
  <2> QED
    BY <2>1, <2>2, <2>3
<1> QED
  BY <1>2, <1>3, <1>4, <1>5, <1>6

LEMMA LogInInv ==
    ASSUME AccountsInv, NEW u \in Users, LogIn(u)
    PROVE  AccountsInv'
<1> USE DEF AccountsInv
<1>1. /\ access' = [access EXCEPT ![u] = TRUE]
      /\ UNCHANGED <<user, address, verified, link, works, tracked, cooldown,
                     mailed, pc, job, who, token, prev, copy, wrote, todo, report,
                     spent, confirmed, calm, started, faults>>
  BY DEF LogIn, row, keys, progress, memory, bounds
<1>2. /\ late \subseteq late' /\ late' \subseteq Users
      /\ \A r \in Requests : who[r] = u /\ pc[r] = "commit"
                             /\ job[r] \in {"delete", "bulk"} => u \in late'
  BY DEF LogIn, TypeOK
<1>3. access' \in [Users -> BOOLEAN]
  BY <1>1 DEF TypeOK
<1>4. TypeOK'
  BY <1>1, <1>2, <1>3 DEF TypeOK, Links
<1>5. LinksNameSavedUsers' /\ AdminsStay'
  BY <1>1 DEF LinksNameSavedUsers, AdminsStay
<1>6. RowsAreLocked'
  BY <1>1 DEF RowsAreLocked, Locked
<1>7. SpentAreUsed'
  BY <1>1 DEF SpentAreUsed, Links
<1>8. ASSUME NEW r \in Requests
      PROVE  RequestInOrder(r)'
  <2> USE DEF RequestInOrder
  <2>1. OnPath(r)' /\ WritesRow(r)'
    BY <1>1 DEF OnPath, WritesRow
  <2>2. LogsOut(r)'
    <3>1. \A v \in Users : v # u => access'[v] = access[v]
      BY <1>1 DEF TypeOK
    <3>2. pc[r] # "idle" => who[r] \in Users
      BY AboutUser
    <3> QED
      BY <1>1, <1>2, <3>1, <3>2 DEF LogsOut
  <2>3. KnowsUser(r)' /\ OwnsLink(r)'
    BY <1>1 DEF KnowsUser, OwnsLink, Links
  <2>4. KeepsAccount(r)'
    <3>1. Rest(r)' = Rest(r)
      BY <1>1 DEF Rest
    <3> QED
      BY <1>1, <3>1 DEF KeepsAccount
  <2> QED
    BY <2>1, <2>2, <2>3, <2>4
<1> QED
  BY <1>4, <1>5, <1>6, <1>7, <1>8

LEMMA StutterInv == AccountsInv /\ UNCHANGED vars => AccountsInv'
<1> SUFFICES ASSUME AccountsInv, UNCHANGED vars
             PROVE  AccountsInv'
  OBVIOUS
<1> USE DEF AccountsInv
<1>1. UNCHANGED <<user, address, verified, access, link, works, tracked, cooldown,
                  mailed, pc, job, who, token, prev, copy, wrote, todo, report,
                  spent, confirmed, calm, late, started, faults>>
  BY DEF vars
<1>2. TypeOK'
  BY <1>1 DEF TypeOK, Links
<1>3. LinksNameSavedUsers' /\ AdminsStay'
  BY <1>1 DEF LinksNameSavedUsers, AdminsStay
<1>4. RowsAreLocked'
  BY <1>1 DEF RowsAreLocked, Locked
<1>5. SpentAreUsed'
  BY <1>1 DEF SpentAreUsed, Links
<1>6. ASSUME NEW r \in Requests
      PROVE  RequestInOrder(r)'
  <2> USE DEF RequestInOrder
  <2>1. OnPath(r)' /\ WritesRow(r)' /\ LogsOut(r)'
    BY <1>1 DEF OnPath, WritesRow, LogsOut
  <2>2. KnowsUser(r)' /\ OwnsLink(r)'
    BY <1>1 DEF KnowsUser, OwnsLink, Links
  <2>3. KeepsAccount(r)'
    <3>1. Rest(r)' = Rest(r)
      BY <1>1 DEF Rest
    <3> QED
      BY <1>1, <3>1 DEF KeepsAccount
  <2> QED
    BY <2>1, <2>2, <2>3
<1> QED
  BY <1>2, <1>3, <1>4, <1>5, <1>6

-----------------------------------------------------------------------------
LEMMA InitInv == Init => AccountsInv
<1> SUFFICES ASSUME Init
             PROVE  AccountsInv
  OBVIOUS
<1>1. TypeOK
  <2>1. NoReport \in Report
    BY DEF NoReport, Report
  <2>2. NoCopy \in [verified : BOOLEAN, address : 0 .. MaxChanges]
    BY DEF NoCopy
  <2>3. StoresTyped
    <3>1. link \in Seq([kind : Kinds, user : Users, address : 0 .. MaxChanges]) /\ Len(link) = 0
      BY DEF Init
    <3>2. verified \in [Users -> BOOLEAN] /\ access \in [Users -> BOOLEAN]
      BY DEF Init
    <3>3. tracked \in [Kinds -> [Users -> 0 .. MaxLinks]]
      BY DEF Init
    <3>4. spent \in Seq(1 .. MaxLinks)
      BY DEF Init
    <3> QED
      BY <3>1, <3>2, <3>3, <3>4 DEF Init, StoresTyped
  <2>4. RequestsTyped
    BY <2>1, <2>2 DEF Init, RequestsTyped
  <2> QED
    BY <2>3, <2>4 DEF Init, StoresTyped, RequestsTyped, TypeOK
<1>2. LinksNameSavedUsers /\ RowsAreLocked /\ SpentAreUsed /\ AdminsStay
  BY DEF Init, LinksNameSavedUsers, RowsAreLocked, SpentAreUsed, AdminsStay
<1>3. ASSUME NEW r \in Requests
      PROVE  RequestInOrder(r)
  BY DEF Init, RequestInOrder, OnPath, KnowsUser, WritesRow, OwnsLink, LogsOut, KeepsAccount
<1> QED
  BY <1>1, <1>2, <1>3 DEF AccountsInv

\* What a step of the system is.
LEMMA StepKinds ==
    ASSUME AccountsInv, Next
    PROVE  \/ \E r \in Requests : StepInOrder(r)
           \/ \E n \in Links : LinkExpires(n)
           \/ \E k \in Kinds, u \in Users : CooldownEnds(k, u)
           \/ \E u \in Users \ Admins : LogIn(u)
<1>1. ASSUME NEW r \in Requests,
             \/ \E u \in Active : StartForUser(r, u)
             \/ \E n \in Links : OpenLink(r, n)
             \/ StartBulk(r)
             \/ Save(r) \/ Load(r) \/ LoadNext(r) \/ Write(r) \/ Commit(r)
             \/ Consume(r) \/ Untrack(r) \/ Cooldown(r) \/ Previous(r) \/ Drop(r)
             \/ SetLink(r) \/ Track(r) \/ Enqueue(r) \/ Free(r) \/ Revoke(r)
             \/ Reply(r) \/ Fail(r)
      PROVE  StepInOrder(r)
  BY <1>1, StartForUserInOrder, OpenLinkInOrder, StartBulkInOrder, SaveInOrder,
     LoadInOrder, LoadNextInOrder, WriteInOrder, CommitInOrder, ConsumeInOrder,
     UntrackInOrder, CooldownInOrder, PreviousInOrder, DropInOrder, SetLinkInOrder,
     TrackInOrder, EnqueueInOrder, RevokeInOrder, LastStepInOrder, FailInOrder
<1> QED
  BY <1>1 DEF Next

LEMMA NextInv == AccountsInv /\ [Next]_vars => AccountsInv'
<1>1. ASSUME AccountsInv, Next
      PROVE  AccountsInv'
  BY <1>1, StepKinds, StepInv, LinkExpiresInv, CooldownEndsInv, LogInInv
<1> QED
  BY <1>1, StutterInv

\* UserService keeps every request in order: its link and its user go
\* together, a row is written by one transaction at a time, the link of a
\* reset is its alone, and a bulk deletion's answer adds up.
THEOREM AccountsInvariant == Spec => []AccountsInv
BY InitInv, NextInv, PTL DEF Spec

\* reset_password_service_via_email: a link sets at most one password, for any
\* number of requests that open it and of failures.
THEOREM LinksResetOnce == Spec => []ResetOnce
<1>1. Init => ResetOnce
  BY DEF Init, ResetOnce
<1>2. ASSUME AccountsInv, ResetOnce, NEW r \in Requests, StepInOrder(r)
      PROVE  ResetOnce'
  <2>1. SpentMoves(r)
    BY <1>2, StoresMove DEF StepInOrder, StoreFacts
  <2>2. CASE spent' = spent
    BY <1>2, <2>2 DEF ResetOnce
  <2>3. CASE pc[r] = "commit" /\ job[r] = "reset" /\ spent' = Append(spent, token[r])
    <3>1. \A i \in DOMAIN spent : spent[i] # token[r]
      BY <1>2, <2>3 DEF AccountsInv, RequestInOrder, OwnsLink
    <3>2. spent \in Seq(1 .. MaxLinks) /\ token[r] \in 0 .. MaxLinks
      BY <1>2 DEF AccountsInv, TypeOK
    <3>3. \A i \in DOMAIN spent' :
             \/ i \in DOMAIN spent /\ spent'[i] = spent[i]
             \/ i = Len(spent) + 1 /\ spent'[i] = token[r]
      BY <2>3, <3>2
    <3> QED
      BY <1>2, <3>1, <3>3 DEF ResetOnce
  <2> QED
    BY <2>1, <2>2, <2>3 DEF SpentMoves
<1>3. ASSUME \/ \E n \in Links : LinkExpires(n)
             \/ \E k \in Kinds, u \in Users : CooldownEnds(k, u)
             \/ \E u \in Users \ Admins : LogIn(u)
             \/ UNCHANGED vars
      PROVE  spent' = spent
  BY <1>3 DEF LinkExpires, CooldownEnds, LogIn, vars
<1>4. AccountsInv /\ ResetOnce /\ [Next]_vars => ResetOnce'
  BY <1>2, <1>3, StepKinds DEF ResetOnce
<1> QED
  BY <1>1, <1>4, AccountsInvariant, PTL DEF Spec

\* _delete_user_and_sessions: whoever is gone is out, but for a login within
\* the deletion itself.
THEOREM GoneAreOut == Spec => []GoneMeansOut
<1>1. Init => GoneMeansOut
  BY DEF Init, GoneMeansOut
<1>2. ASSUME AccountsInv, GoneMeansOut, NEW r \in Requests, StepInOrder(r)
      PROVE  GoneMeansOut'
  <2>1. UsersMove(r) /\ NobodyGetsIn
    BY <1>2, StoresMove DEF StepInOrder, StoreFacts
  <2>2. late' = late
    BY <1>2 DEF StepInOrder, HistoryKept
  <2>3. SUFFICES ASSUME NEW u \in Users, user'[u] = "gone", access'[u]
                 PROVE  u \in late
    BY <2>2 DEF GoneMeansOut
  <2>4. access[u]
    BY <2>1, <2>3 DEF NobodyGetsIn
  <2>5. CASE user[u] = "gone"
    BY <1>2, <2>4, <2>5 DEF GoneMeansOut
  <2>6. CASE user[u] # "gone"
    <3>1. user[u] = "saved"
      BY <1>2, <2>1, <2>3, <2>6 DEF UsersMove, AccountsInv, TypeOK
    <3>2. u = who[r] /\ pc[r] = "commit" /\ job[r] \in {"delete", "bulk"}
      BY <2>1, <2>3, <3>1 DEF UsersMove
    <3> QED
      BY <1>2, <2>4, <3>2 DEF AccountsInv, RequestInOrder, LogsOut
  <2> QED
    BY <2>5, <2>6
<1>3. ASSUME AccountsInv, GoneMeansOut, NEW u \in Users, LogIn(u)
      PROVE  GoneMeansOut'
  <2>1. user[u] = "saved" /\ user' = user /\ late \subseteq late'
        /\ access' = [access EXCEPT ![u] = TRUE]
    BY <1>3 DEF LogIn, row
  <2> QED
    BY <1>3, <2>1 DEF GoneMeansOut, AccountsInv, TypeOK
<1>4. ASSUME GoneMeansOut,
             \/ \E n \in Links : LinkExpires(n)
             \/ \E k \in Kinds, u \in Users : CooldownEnds(k, u)
             \/ UNCHANGED vars
      PROVE  GoneMeansOut'
  <2>1. user' = user /\ access' = access /\ late' = late
    BY <1>4 DEF LinkExpires, CooldownEnds, row, vars
  <2> QED
    BY <1>4, <2>1 DEF GoneMeansOut
<1>5. AccountsInv /\ GoneMeansOut /\ [Next]_vars => GoneMeansOut'
  BY <1>2, <1>3, <1>4, StepKinds
<1> QED
  BY <1>1, <1>5, AccountsInvariant, PTL DEF Spec

\* delete_multiple_users_by_ids_service: its answer tells what became of everyone who was
\* asked for, wherever it stopped.
THEOREM BulkTellsAll == Spec => []BulkReports
<1>1. ASSUME AccountsInv
      PROVE  BulkReports
  <2>1. SUFFICES ASSUME NEW r \in Requests, pc[r] = "reply"
                 PROVE  LET p == report[r]
                        IN  /\ p.asked = p.deleted \cup p.notFound \cup p.admins
                                             \cup p.notProcessed
                            /\ \A u \in p.deleted \cup p.notFound : user[u] = "gone"
                            /\ \A u \in p.admins : u \in Admins /\ user[u] = "saved"
                            /\ \A u \in p.asked \ Admins :
                                  user[u] = "saved" => u \in p.notProcessed
    BY DEF BulkReports
  <2>2. RequestInOrder(r) /\ AdminsStay /\ TypeOK
    BY <1>1 DEF AccountsInv
  <2>3. job[r] = "bulk"
    BY <2>1, <2>2, Moves DEF RequestInOrder
  <2> QED
    BY <2>1, <2>2, <2>3 DEF RequestInOrder, KeepsAccount, AdminsStay
<1> QED
  BY <1>1, AccountsInvariant, PTL

-----------------------------------------------------------------------------
(* Who makes a link, and what the steps of a request do to it.              *)

Key(r) == <<Kind(r), who[r]>>

\* The links of a user that are in somebody's mail and work.
Mail(k, u) == {n \in works \cap mailed : link[n].kind = k /\ link[n].user = u}

\* What it works with when it gets to a step of the links.
Arrives(r) ==
    /\ pc'[r] = "cooldown" =>
          /\ UNCHANGED stores
          /\ copy'[r].address = address[who[r]]
    /\ pc'[r] = "previous" =>
          /\ pc[r] \in {"cooldown", "revoke"}
          /\ pc[r] = "cooldown" => GetsCooldown(r) /\ TakeCooldown(r)
    /\ pc'[r] = "drop" =>
          /\ pc[r] = "previous"
          /\ UNCHANGED stores
          /\ prev'[r] = tracked[Kind(r)][who[r]]
    /\ pc'[r] = "setlink" =>
          \/ pc[r] = "drop" /\ DropLink(r)
          \/ pc[r] = "save" /\ user[who[r]] = "absent" /\ SaveUser(r)
    /\ pc'[r] = "track" =>
          pc[r] = "setlink" /\ MakeLink(r) /\ token'[r] = Len(link) + 1
    /\ pc'[r] = "enqueue" => pc[r] = "track" /\ SetPointer(r)
    /\ pc'[r] = "free" => pc[r] \in {"previous", "drop", "setlink", "track", "enqueue"}

\* What a change of address and a verification work with.
Changes(r) ==
    /\ job[r] = "verify" =>
          /\ pc'[r] # "consume"
          /\ pc[r] = "consume" => token[r] \in works /\ ConsumeLink(r)
    /\ job[r] = "update" =>
          /\ pc'[r] = "write" => UNCHANGED stores /\ copy'[r].verified = verified[who[r]]
          /\ pc'[r] = "commit" =>
                /\ pc[r] = "write"
                /\ UNCHANGED stores
                /\ copy'[r].verified = copy[r].verified
          /\ pc'[r] = "revoke" => pc[r] = "commit" /\ CommitUpdate(r)

StepsOn(r) ==
    /\ pc[r] # "idle"
    /\ pc'[r] \notin {"idle", "consume", "save"}
    /\ job[r] # "bulk"
    /\ job'[r] = job[r] /\ who'[r] = who[r]
    /\ pc'[r] # "track" => token'[r] = token[r]
    /\ pc[r] \notin {"load", "write"} => copy'[r] = copy[r]
    /\ Arrives(r)
    /\ Changes(r)

Begins(r) ==
    /\ pc[r] = "idle"
    /\ pc'[r] \in {"save", "load", "consume"}
    /\ job'[r] \in {"verify", "reset"} => pc'[r] = "consume" /\ link[token'[r]].kind = job'[r]
    /\ UNCHANGED stores
    /\ copy'[r] = copy[r]
    /\ who'[r] \in Users
    /\ \A q \in Requests \ {r} :
          who[q] = who'[r] /\ (Cross(job'[r], job[q]) \/ Cross(job[q], job'[r])) =>
              <<"verify", who'[r]>> \notin calm'

StepsInBulk(r) ==
    /\ job[r] = "bulk" /\ job'[r] = "bulk"
    /\ pc'[r] \in {"load", "revoke", "commit", "reply"}

Leaves(r) ==
    /\ Ended(r)
    /\ copy'[r].address = 0

\* What happens to the request, and to what it leaves behind.
Shift(r) ==
    /\ Begins(r) \/ StepsOn(r) \/ StepsInBulk(r) \/ Leaves(r)
    /\ \A q \in Requests \ {r} : prev'[q] = prev[q]
    /\ calm' \subseteq calm
    /\ DropsNewer(r) => Key(r) \notin calm'
    /\ LeavesOldLink(r) /\ Key(r) \in calm' =>
          \/ pc[r] = "commit" /\ pc'[r] = "revoke"
          \/ pc[r] = "revoke" /\ pc'[r] = "previous"
          \/ pc[r] = "previous" /\ pc'[r] = "drop"
          \/ pc[r] = "drop" /\ DropLink(r)

\* What End and GoOn do.
LEMMA EndLeaves ==
    ASSUME TypeOK, NEW r \in Requests, End(r)
    PROVE  Leaves(r) /\ \A q \in Requests \ {r} : prev'[q] = prev[q]
BY DEF End, Goto, Leaves, Ended, NoCopy, TypeOK

LEMMA GotoMoves ==
    ASSUME TypeOK, NEW r \in Requests, NEW s, Goto(r, s), UNCHANGED <<job, who>>
    PROVE  pc'[r] = s /\ job'[r] = job[r] /\ who'[r] = who[r]
BY DEF Goto, TypeOK

LEMMA GoOnMoves ==
    ASSUME TypeOK, NEW r \in Requests, GoOn(r)
    PROVE  /\ \A q \in Requests \ {r} : prev'[q] = prev[q]
           /\ \/ Following(r) = "idle" /\ Leaves(r)
              \/ /\ Following(r) # "idle"
                 /\ pc'[r] = Following(r)
                 /\ job'[r] = job[r] /\ who'[r] = who[r]
                 /\ token'[r] = token[r] /\ copy'[r] = copy[r]
<1>1. CASE Following(r) = "idle"
  BY <1>1, EndLeaves DEF GoOn
<1>2. CASE Following(r) # "idle"
  BY <1>2, GotoMoves DEF GoOn, progress, memory
<1> QED
  BY <1>1, <1>2

LEMMA GoOnShift ==
    ASSUME AccountsInv, NEW r \in Requests, GoOn(r), UNCHANGED calm,
           pc[r] \in {"save", "consume", "cooldown", "drop", "track", "enqueue", "revoke"},
           pc[r] = "save" => user[who[r]] = "absent" /\ SaveUser(r),
           pc[r] = "consume" => token[r] \in works /\ ConsumeLink(r),
           pc[r] = "cooldown" => GetsCooldown(r) /\ TakeCooldown(r),
           pc[r] = "drop" => DropLink(r),
           pc[r] = "track" => SetPointer(r)
    PROVE  Shift(r)
<1> USE DEF AccountsInv, RequestInOrder
<1>1. OnPath(r) /\ pc[r] # "idle" /\ ~DropsNewer(r)
  BY DEF DropsNewer
<1>2. LeavesOldLink(r) =>
          \/ pc[r] = "revoke" /\ pc'[r] = "previous"
          \/ pc[r] = "drop"
  BY <1>1, GoOnMoves, Moves DEF LeavesOldLink
<1>3. CASE Following(r) = "idle"
  BY <1>1, <1>2, <1>3, GoOnMoves DEF Shift
<1>4. CASE Following(r) # "idle" /\ job[r] # "bulk"
  <2>1. /\ pc'[r] = Following(r)
        /\ job'[r] = job[r] /\ who'[r] = who[r]
        /\ token'[r] = token[r] /\ copy'[r] = copy[r]
    BY <1>4, GoOnMoves
  <2>2. Arrives(r)
    BY <1>1, <2>1, Moves DEF Arrives
  <2>3. Changes(r)
    BY <1>1, <2>1, Moves DEF Changes
  <2>4. StepsOn(r)
    BY <1>1, <1>4, <2>1, <2>2, <2>3, Moves DEF StepsOn
  <2> QED
    BY <1>1, <1>2, <2>4, GoOnMoves DEF Shift
<1>5. CASE Following(r) # "idle" /\ job[r] = "bulk"
  <2>1. StepsInBulk(r)
    BY <1>1, <1>5, GoOnMoves, Moves DEF StepsInBulk
  <2> QED
    BY <1>1, <1>2, <2>1, GoOnMoves DEF Shift
<1> QED
  BY <1>3, <1>4, <1>5

LEMMA NextUserShift ==
    ASSUME AccountsInv, NEW r \in Requests, NEW n, NextUser(r, n), UNCHANGED calm,
           job[r] = "bulk", pc[r] \in {"load", "commit"}
    PROVE  Shift(r)
<1>1. /\ pc'[r] \in {"load", "reply"}
      /\ job' = job /\ prev' = prev
  BY DEF NextUser, Goto, memory, AccountsInv, TypeOK
<1>2. StepsInBulk(r)
  BY <1>1 DEF StepsInBulk
<1> QED
  BY <1>1, <1>2 DEF Shift, DropsNewer, LeavesOldLink

LEMMA LeavesShift ==
    ASSUME AccountsInv, NEW r \in Requests, End(r), calm' \subseteq calm,
           DropsNewer(r) \/ LeavesOldLink(r) => Key(r) \notin calm'
    PROVE  Shift(r)
BY EndLeaves DEF Shift, AccountsInv

LEMMA LoadShift ==
    ASSUME AccountsInv, NEW r \in Requests, Load(r)
    PROVE  Shift(r)
<1>1. /\ pc[r] = "load" /\ job[r] # "bulk" /\ calm' = calm
      /\ UNCHANGED stores
      /\ ~DropsNewer(r) /\ ~LeavesOldLink(r)
  BY DEF Load, DropsNewer, LeavesOldLink
<1>2. CASE End(r)
  BY <1>1, <1>2, LeavesShift
<1>3. CASE ~End(r)
  <2>1. /\ copy' = [copy EXCEPT ![r] = [verified |-> verified[who[r]],
                                        address |-> address[who[r]]]]
        /\ Goto(r, Following(r))
        /\ UNCHANGED <<progress, token, prev, wrote>>
    BY <1>3 DEF Load
  <2>2. /\ pc'[r] = Following(r)
        /\ job'[r] = job[r] /\ who'[r] = who[r] /\ token'[r] = token[r]
        /\ copy'[r].verified = verified[who[r]]
        /\ copy'[r].address = address[who[r]]
        /\ prev' = prev
    BY <2>1, GotoMoves DEF progress, AccountsInv, TypeOK
  <2>3. pc'[r] \in {"cooldown", "write", "revoke"}
        /\ (pc'[r] = "revoke" => job[r] = "delete")
    BY <1>1, <2>2, Moves DEF AccountsInv, RequestInOrder
  <2>4. Arrives(r) /\ Changes(r)
    BY <1>1, <2>2, <2>3 DEF Arrives, Changes
  <2>5. StepsOn(r)
    BY <1>1, <2>2, <2>3, <2>4 DEF StepsOn
  <2> QED
    BY <1>1, <2>2, <2>5 DEF Shift
<1> QED
  BY <1>2, <1>3

LEMMA LoadNextShift ==
    ASSUME AccountsInv, NEW r \in Requests, LoadNext(r)
    PROVE  Shift(r)
<1>1. pc[r] = "load" /\ job[r] = "bulk" /\ calm' = calm
  BY DEF LoadNext
<1>2. CASE \E n : NextUser(r, n)
  BY <1>1, <1>2, NextUserShift
<1>3. CASE Goto(r, Following(r)) /\ UNCHANGED <<progress, memory>>
  <2>1. pc'[r] = "revoke" /\ job'[r] = "bulk" /\ prev' = prev
    BY <1>1, <1>3, GotoMoves, Moves DEF AccountsInv, RequestInOrder, progress, memory
  <2>2. StepsInBulk(r)
    BY <1>1, <2>1 DEF StepsInBulk
  <2> QED
    BY <1>1, <2>1, <2>2 DEF Shift, DropsNewer, LeavesOldLink
<1> QED
  BY <1>2, <1>3 DEF LoadNext

LEMMA WrittenCopy ==
    ASSUME TypeOK, NEW r \in Requests,
           copy' = IF job[r] = "update"
                   THEN [copy EXCEPT ![r].address = address[who[r]] + 1]
                   ELSE copy
    PROVE  copy'[r].verified = copy[r].verified
<1> DEFINE C == [verified : BOOLEAN, address : 0 .. MaxChanges]
           old == copy[r]
           n == address[who[r]] + 1
<1>1. copy \in [Requests -> C] /\ old \in C
  BY DEF TypeOK
<1>2. [old EXCEPT !.address = n].verified = old.verified
  <2> HIDE DEF n, old
  <2> QED
    BY <1>1
<1>3. job[r] = "update" => copy'[r] = [old EXCEPT !.address = n]
  <2> HIDE DEF C
  <2> QED
    BY <1>1
<1> QED
  BY <1>2, <1>3

LEMMA WriteShift ==
    ASSUME AccountsInv, NEW r \in Requests, Write(r)
    PROVE  Shift(r)
<1>1. /\ pc[r] = "write" /\ calm' = calm
      /\ UNCHANGED stores
      /\ ~DropsNewer(r) /\ ~LeavesOldLink(r)
  BY DEF Write, DropsNewer, LeavesOldLink
<1>2. CASE End(r)
  BY <1>1, <1>2, LeavesShift
<1>3. CASE ~End(r)
  <2>1. /\ copy' = IF job[r] = "update"
                   THEN [copy EXCEPT ![r].address = address[who[r]] + 1]
                   ELSE copy
        /\ Goto(r, Following(r))
        /\ UNCHANGED <<progress, token, prev>>
    BY <1>3 DEF Write
  <2>2. /\ pc'[r] = Following(r)
        /\ job'[r] = job[r] /\ who'[r] = who[r] /\ token'[r] = token[r]
        /\ prev' = prev
    BY <2>1, GotoMoves DEF progress, AccountsInv
  <2>3. pc'[r] \in {"untrack", "commit"} /\ job[r] # "bulk"
    BY <1>1, <2>2, Moves DEF AccountsInv, RequestInOrder
  <2>4. copy'[r].verified = copy[r].verified
    BY <2>1, WrittenCopy DEF AccountsInv
  <2>5. Arrives(r) /\ Changes(r)
    BY <1>1, <2>2, <2>3, <2>4 DEF Arrives, Changes
  <2>6. StepsOn(r)
    BY <1>1, <2>2, <2>3, <2>5 DEF StepsOn
  <2> QED
    BY <1>1, <2>2, <2>6 DEF Shift
<1> QED
  BY <1>2, <1>3

LEMMA CommitShift ==
    ASSUME AccountsInv, NEW r \in Requests, Commit(r)
    PROVE  Shift(r)
<1>1. pc[r] = "commit" /\ calm' = calm /\ ~DropsNewer(r) /\ CommitRow(r)
  BY DEF Commit, DropsNewer
<1>2. CASE job[r] = "bulk"
  BY <1>1, <1>2, NextUserShift DEF Commit
<1>3. CASE job[r] # "bulk" /\ Following(r) = "idle"
  <2>1. job[r] # "update"
    BY <1>1, <1>3, Moves DEF AccountsInv, RequestInOrder
  <2> QED
    BY <1>1, <1>3, <2>1, LeavesShift DEF Commit, LeavesOldLink
<1>4. CASE job[r] # "bulk" /\ Following(r) # "idle"
  <2>1. Goto(r, Following(r)) /\ UNCHANGED <<progress, token, prev, copy>>
    BY <1>4 DEF Commit
  <2>2. job[r] = "update" /\ Following(r) = "revoke"
    BY <1>1, <1>4, Moves DEF AccountsInv, RequestInOrder
  <2>3. /\ pc'[r] = "revoke"
        /\ job'[r] = job[r] /\ who'[r] = who[r] /\ token'[r] = token[r]
        /\ copy' = copy /\ prev' = prev
    BY <2>1, <2>2, GotoMoves DEF progress, AccountsInv
  <2>4. CommitUpdate(r)
    BY <1>1, <2>2 DEF CommitRow, CommitVerify, CommitReset, CommitDelete
  <2>5. Arrives(r) /\ Changes(r)
    BY <1>1, <2>2, <2>3, <2>4 DEF Arrives, Changes
  <2>6. StepsOn(r)
    BY <1>1, <2>2, <2>3, <2>5 DEF StepsOn
  <2> QED
    BY <1>1, <2>3, <2>6 DEF Shift
<1> QED
  BY <1>2, <1>3, <1>4

LEMMA UntrackShift ==
    ASSUME AccountsInv, NEW r \in Requests, Untrack(r)
    PROVE  Shift(r)
<1>1. pc[r] = "untrack" /\ GoOn(r) /\ ~LeavesOldLink(r)
  BY DEF Untrack, LeavesOldLink
<1>2. calm' \subseteq calm /\ (DropsNewer(r) => Key(r) \notin calm')
  BY DEF Untrack, Key
<1>3. /\ Following(r) \in {"commit", "revoke"}
      /\ job[r] \in {"verify", "reset"}
      /\ Following(r) = "revoke" => job[r] = "reset"
  BY <1>1, Moves DEF AccountsInv, RequestInOrder
<1>4. /\ \A q \in Requests \ {r} : prev'[q] = prev[q]
      /\ pc'[r] = Following(r)
      /\ job'[r] = job[r] /\ who'[r] = who[r]
      /\ token'[r] = token[r] /\ copy'[r] = copy[r]
  BY <1>1, <1>3, GoOnMoves DEF AccountsInv
<1>5. Arrives(r) /\ Changes(r)
  BY <1>1, <1>3, <1>4 DEF Arrives, Changes
<1>6. StepsOn(r)
  BY <1>1, <1>3, <1>4, <1>5 DEF StepsOn
<1> QED
  BY <1>1, <1>2, <1>4, <1>6 DEF Shift

LEMMA PreviousShift ==
    ASSUME AccountsInv, NEW r \in Requests, Previous(r)
    PROVE  Shift(r)
<1>1. /\ pc[r] = "previous" /\ calm' = calm /\ ~DropsNewer(r)
      /\ UNCHANGED stores
      /\ prev' = [prev EXCEPT ![r] = tracked[Kind(r)][who[r]]]
      /\ Goto(r, Following(r))
      /\ UNCHANGED <<progress, token, copy, wrote>>
  BY DEF Previous, DropsNewer
<1>2. Following(r) = "drop" /\ job[r] \in {"resend", "forgot", "update"}
  BY <1>1, Moves DEF AccountsInv, RequestInOrder
<1>3. /\ pc'[r] = "drop"
      /\ job'[r] = job[r] /\ who'[r] = who[r] /\ token'[r] = token[r]
      /\ copy' = copy
      /\ prev'[r] = tracked[Kind(r)][who[r]]
      /\ \A q \in Requests \ {r} : prev'[q] = prev[q]
  BY <1>1, <1>2, GotoMoves DEF progress, AccountsInv, TypeOK
<1>4. Arrives(r) /\ Changes(r)
  BY <1>1, <1>2, <1>3 DEF Arrives, Changes
<1>5. StepsOn(r)
  BY <1>1, <1>2, <1>3, <1>4 DEF StepsOn
<1> QED
  BY <1>1, <1>3, <1>5 DEF Shift

LEMMA SetLinkShift ==
    ASSUME AccountsInv, NEW r \in Requests, SetLink(r)
    PROVE  Shift(r)
<1>1. /\ pc[r] = "setlink" /\ calm' = calm /\ ~DropsNewer(r) /\ ~LeavesOldLink(r)
      /\ MakeLink(r)
      /\ token' = [token EXCEPT ![r] = Len(link) + 1]
      /\ Goto(r, Following(r))
      /\ UNCHANGED <<progress, prev, copy, wrote>>
  BY DEF SetLink, DropsNewer, LeavesOldLink
<1>2. Following(r) = "track" /\ job[r] \in {"signup", "resend", "forgot", "update"}
  BY <1>1, Moves DEF AccountsInv, RequestInOrder
<1>3. /\ pc'[r] = "track"
      /\ job'[r] = job[r] /\ who'[r] = who[r] /\ token'[r] = Len(link) + 1
      /\ copy' = copy /\ prev' = prev
  BY <1>1, <1>2, GotoMoves DEF progress, AccountsInv, TypeOK
<1>4. Arrives(r) /\ Changes(r)
  BY <1>1, <1>2, <1>3 DEF Arrives, Changes
<1>5. StepsOn(r)
  BY <1>1, <1>2, <1>3, <1>4 DEF StepsOn
<1> QED
  BY <1>1, <1>3, <1>5 DEF Shift

LEMMA SimpleShift ==
    ASSUME AccountsInv, NEW r \in Requests,
           \/ Save(r) \/ Consume(r) \/ Cooldown(r) \/ Drop(r) \/ Track(r)
           \/ Enqueue(r) \/ Free(r) \/ Revoke(r) \/ Reply(r)
    PROVE  Shift(r)
<1>1. calm' = calm
  BY DEF Save, Consume, Cooldown, Drop, Track, Enqueue, Free, Revoke, Reply
<1>2. CASE End(r) /\ pc[r] \in {"save", "consume", "cooldown", "free", "reply"}
  BY <1>1, <1>2, LeavesShift DEF DropsNewer, LeavesOldLink
<1>3. CASE Save(r) /\ GoOn(r)
  BY <1>1, <1>3, <1>2, GoOnShift DEF Save
<1>4. CASE Consume(r) /\ GoOn(r)
  BY <1>1, <1>2, <1>4, GoOnShift DEF Consume
<1>5. CASE Cooldown(r) /\ GoOn(r)
  BY <1>1, <1>2, <1>5, GoOnShift DEF Cooldown
<1>6. CASE Drop(r) \/ Track(r) \/ Enqueue(r) \/ Revoke(r)
  BY <1>1, <1>6, GoOnShift DEF Drop, Track, Enqueue, Revoke
<1> QED
  BY <1>2, <1>3, <1>4, <1>5, <1>6 DEF Save, Consume, Cooldown, Free, Reply

LEMMA FailShift ==
    ASSUME AccountsInv, NEW r \in Requests, Fail(r)
    PROVE  Shift(r)
<1>1. /\ calm' \subseteq calm
      /\ DropsNewer(r) \/ LeavesOldLink(r) => Key(r) \notin calm'
  BY DEF Fail, Key
<1>2. CASE End(r)
  BY <1>1, <1>2, LeavesShift
<1>3. CASE /\ job[r] = "bulk" /\ pc[r] = "revoke"
           /\ Goto(r, "reply")
           /\ UNCHANGED <<job, who, todo, memory>>
  <2>1. pc'[r] = "reply" /\ job' = job /\ prev' = prev
    BY <1>3, GotoMoves DEF memory, AccountsInv
  <2>2. StepsInBulk(r)
    BY <1>3, <2>1 DEF StepsInBulk
  <2> QED
    BY <1>1, <2>1, <2>2 DEF Shift
<1>4. CASE /\ job[r] \in {"resend", "forgot"}
           /\ pc[r] \in {"previous", "drop", "setlink", "track", "enqueue"}
           /\ Goto(r, "free")
           /\ UNCHANGED <<progress, memory>>
  <2>1. /\ pc'[r] = "free" /\ job' = job /\ who' = who /\ token' = token
        /\ copy' = copy /\ prev' = prev
    BY <1>4, GotoMoves DEF progress, memory, AccountsInv
  <2>2. Arrives(r) /\ Changes(r)
    BY <1>4, <2>1 DEF Arrives, Changes
  <2>3. StepsOn(r)
    BY <1>4, <2>1, <2>2 DEF StepsOn
  <2> QED
    BY <1>1, <2>1, <2>3 DEF Shift
<1> QED
  BY <1>2, <1>3, <1>4 DEF Fail

LEMMA StartShift ==
    ASSUME AccountsInv, NEW r \in Requests, NEW j \in DOMAIN Path, NEW u \in Users,
           Start(r, j, u), j \in {"verify", "reset"} => link[token'[r]].kind = j
    PROVE  Shift(r)
<1>1. /\ pc[r] = "idle" /\ ~DropsNewer(r) /\ ~LeavesOldLink(r)
      /\ UNCHANGED <<stores, prev, copy>>
  BY DEF Start, DropsNewer, LeavesOldLink
<1>2. pc'[r] = Head(Path[j]) /\ job'[r] = j /\ who'[r] = u
  BY DEF Start, Goto, AccountsInv, TypeOK
<1>3. pc'[r] \in {"save", "load", "consume"}
      /\ (j \in {"verify", "reset"} => pc'[r] = "consume")
  BY <1>2, Paths
<1>4. /\ calm' \subseteq calm
      /\ \A q \in Requests :
            who[q] = u /\ (Cross(j, job[q]) \/ Cross(job[q], j)) =>
                <<"verify", u>> \notin calm'
  BY DEF Start, Cross
<1>5. Begins(r)
  BY <1>1, <1>2, <1>3, <1>4 DEF Begins
<1> QED
  BY <1>1, <1>4, <1>5 DEF Shift

LEMMA StepShifts ==
    ASSUME AccountsInv, NEW r \in Requests,
           \/ \E u \in Active : StartForUser(r, u)
           \/ \E n \in Links : OpenLink(r, n)
           \/ StartBulk(r)
           \/ Save(r) \/ Load(r) \/ LoadNext(r) \/ Write(r) \/ Commit(r)
           \/ Consume(r) \/ Untrack(r) \/ Cooldown(r) \/ Previous(r) \/ Drop(r)
           \/ SetLink(r) \/ Track(r) \/ Enqueue(r) \/ Free(r) \/ Revoke(r)
           \/ Reply(r) \/ Fail(r)
    PROVE  Shift(r)
<1>1. ASSUME NEW u \in Active, StartForUser(r, u)
      PROVE  Shift(r)
  <2>1. PICK j \in {"signup", "resend", "forgot", "update", "delete"} : Start(r, j, u)
    BY <1>1 DEF StartForUser
  <2>2. j \in DOMAIN Path /\ j \notin {"verify", "reset"} /\ u \in Users
    BY Paths
  <2> QED
    BY <2>1, <2>2, StartShift
<1>2. ASSUME NEW n \in Links, OpenLink(r, n)
      PROVE  Shift(r)
  <2>1. Start(r, link[n].kind, link[n].user) /\ token'[r] = n
    BY <1>2 DEF OpenLink, AccountsInv, TypeOK
  <2>2. link[n].kind \in DOMAIN Path /\ link[n].user \in Users
    BY LinkType, Paths DEF AccountsInv, Kinds
  <2> QED
    BY <2>1, <2>2, StartShift
<1>3. ASSUME StartBulk(r)
      PROVE  Shift(r)
  <2>1. PICK list \in BulkLists : Start(r, "bulk", list[1])
    BY <1>3 DEF StartBulk
  <2>2. list[1] \in Users
    BY DEF AccountsInv
  <2> QED
    BY <2>1, <2>2, Paths, StartShift
<1> QED
  BY <1>1, <1>2, <1>3, LoadShift, LoadNextShift, WriteShift, CommitShift,
     UntrackShift, PreviousShift, SetLinkShift, SimpleShift, FailShift

\* A request that has got the cooldown of its user, and not freed it.
HoldsCooldown(r) ==
    /\ job[r] \in {"resend", "forgot"}
    /\ pc[r] \in {"previous", "drop", "setlink", "track", "enqueue", "free"}

CooldownsHeld ==
    /\ \A r \in Requests : HoldsCooldown(r) => Key(r) \in cooldown
    /\ \A q, r \in Requests :
          HoldsCooldown(q) /\ HoldsCooldown(r) /\ Key(q) = Key(r) => q = r

\* Operations that cross are excepted.
NoCrossing ==
    \A q, r \in Requests :
        q # r /\ who[q] = who[r] /\ Cross(job[q], job[r])
        => <<"verify", who[r]>> \notin calm

\* The link of a request is of its kind; one that was opened is used up, one
\* that was made is not mailed yet.
LinkFits(r) ==
    /\ job[r] \in {"verify", "reset"} =>
          /\ link[token[r]].kind = Kind(r)
          /\ pc[r] # "consume" => token[r] \notin works
    /\ pc[r] \in {"track", "enqueue"} =>
          token[r] \notin mailed /\ link[token[r]].kind = Kind(r)

TokensDiffer ==
    \A q, r \in Requests :
        /\ pc[q] \in {"track", "enqueue"} /\ pc[r] \in {"track", "enqueue"}
        /\ token[q] = token[r]
        => q = r

\* The pointer is to the link that is mailed and works.
PointersFit ==
    \A k \in Kinds, u \in Users :
        <<k, u>> \in calm => \A n \in Mail(k, u) : n = tracked[k][u]

\* Who makes a link has deleted the one before.
MakerFits(r) ==
    Key(r) \in calm =>
        /\ pc[r] = "drop" => \A n \in Mail(Kind(r), who[r]) : n = prev[r]
        /\ pc[r] \in {"setlink", "track", "enqueue"} => Mail(Kind(r), who[r]) = {}
        /\ pc[r] = "enqueue" => tracked[Kind(r)][who[r]] = token[r]

MailInv ==
    /\ CooldownsHeld
    /\ NoCrossing
    /\ TokensDiffer
    /\ PointersFit
    /\ \A r \in Requests : LinkFits(r) /\ MakerFits(r)

-----------------------------------------------------------------------------
\* What a step of a request does to the keys, failed or not.
KeysShift(r) ==
    /\ \A n \in mailed' : n \in mailed \/ (pc[r] = "enqueue" /\ n = token[r])
    /\ \/ tracked' = tracked
       \/ /\ pc[r] = "track"
          /\ tracked' = [tracked EXCEPT ![Kind(r)][who[r]] = token[r]]
       \/ /\ pc[r] = "untrack"
          /\ tracked' = [tracked EXCEPT ![Kind(r)][who[r]] = 0]
    /\ \/ cooldown' = cooldown
       \/ pc[r] = "cooldown" /\ cooldown' = cooldown \cup {Key(r)}
       \/ pc[r] = "free" /\ cooldown' = cooldown \ {Key(r)}

LEMMA KeysShifts ==
    ASSUME NEW r \in Requests, StoreEffect(r)
    PROVE  KeysShift(r)
<1>1. CASE UNCHANGED stores
  BY <1>1 DEF stores, keys, KeysShift
<1>2. CASE \/ pc[r] = "save" /\ user[who[r]] = "absent" /\ SaveUser(r)
           \/ pc[r] = "commit" /\ CommitRow(r)
           \/ pc[r] = "revoke" /\ RevokeAccess(r)
  BY <1>2 DEF SaveUser, CommitRow, RevokeAccess, keys, KeysShift
<1>3. CASE \/ pc[r] = "consume" /\ ConsumeLink(r)
           \/ pc[r] = "drop" /\ DropLink(r)
           \/ pc[r] = "setlink" /\ MakeLink(r)
  BY <1>3 DEF ConsumeLink, DropLink, MakeLink, KeysShift
<1>4. CASE \/ pc[r] = "untrack" /\ DropPointer(r)
           \/ pc[r] = "track" /\ SetPointer(r)
  BY <1>4 DEF DropPointer, SetPointer, KeysShift
<1>5. CASE \/ pc[r] = "cooldown" /\ TakeCooldown(r)
           \/ pc[r] = "free" /\ FreeCooldown(r)
  BY <1>5 DEF TakeCooldown, FreeCooldown, KeysShift, Key
<1>6. CASE pc[r] = "enqueue" /\ HandOver(r)
  BY <1>6 DEF HandOver, keys, KeysShift
<1> QED
  BY <1>1, <1>2, <1>3, <1>4, <1>5, <1>6 DEF StoreEffect, Applied

\* A request that comes in, goes on, works through a list or ends.
LEMMA ShiftKeeps ==
    ASSUME AccountsInv, NEW r \in Requests, Shift(r),
           pc'[r] \in {"cooldown", "previous", "drop", "setlink", "track", "enqueue",
                       "free", "untrack", "write"}
    PROVE  StepsOn(r)
BY DEF Shift, Begins, StepsInBulk, Leaves, Ended

LEMMA StaysCalm ==
    ASSUME NEW r \in Requests, Shift(r), OthersStay(r), NEW q \in Requests \ {r}
    PROVE  /\ Key(q)' = Key(q)
           /\ Kind(q)' = Kind(q)
           /\ Key(q)' \in calm' => Key(q) \in calm
BY DEF Shift, OthersStay, Key, Kind

\* The only link that comes into the mail is the one handed over.
LEMMA MailGrows ==
    ASSUME AccountsInv, MailInv, NEW r \in Requests, StoreEffect(r),
           NEW k \in Kinds, NEW u \in Users, NEW n \in Mail(k, u)'
    PROVE  /\ n \in Links
           /\ \/ n \in Mail(k, u)
              \/ pc[r] = "enqueue" /\ n = token[r] /\ k = Kind(r) /\ u = who[r]
<1>1. LinksStay /\ LinksMove(r)
  BY StoresMove DEF StoreFacts
<1>2. KeysShift(r)
  BY KeysShifts
<1>3. n \in works' /\ n \in mailed' /\ link'[n].kind = k /\ link'[n].user = u
  BY DEF Mail
<1>4. pc[r] = "enqueue" => token[r] \in Links /\ link[token[r]].user = who[r]
                           /\ link[token[r]].kind = Kind(r)
  BY DEF AccountsInv, RequestInOrder, KnowsUser, MailInv, LinkFits
<1>5. n \in Links
  BY <1>2, <1>3, <1>4 DEF KeysShift, AccountsInv, TypeOK
<1>6. n # Len(link) + 1
  BY <1>5 DEF Links, AccountsInv, TypeOK
<1>7. n \in works /\ link[n].kind = k /\ link[n].user = u
  BY <1>1, <1>3, <1>5, <1>6 DEF LinksMove, LinksStay
<1> QED
  BY <1>2, <1>3, <1>4, <1>5, <1>7 DEF KeysShift, Mail

\* Two requests make a link of a kind for a user at a time only if they cross.
LEMMA MakersExclude ==
    ASSUME AccountsInv, MailInv, NEW q \in Requests, NEW r \in Requests, q # r,
           Key(q) = Key(r), Key(r) \in calm,
           pc[q] \in {"drop", "setlink", "track", "enqueue"},
           pc[r] \in {"drop", "setlink", "track", "enqueue"}
    PROVE  FALSE
<1>1. /\ job[q] \in {"signup", "resend", "forgot", "update"}
      /\ job[r] \in {"signup", "resend", "forgot", "update"}
  BY Moves DEF AccountsInv, RequestInOrder
<1>2. who[q] = who[r] /\ Kind(q) = Kind(r)
  BY DEF Key
<1>3. ~(HoldsCooldown(q) /\ HoldsCooldown(r))
  BY DEF MailInv, CooldownsHeld
<1>4. Kind(r) = "verify" /\ Cross(job[q], job[r])
  BY <1>1, <1>2, <1>3 DEF Kind, HoldsCooldown, Cross, Making
<1> QED
  BY <1>2, <1>4 DEF MailInv, NoCrossing, Key

-----------------------------------------------------------------------------
LEMMA CooldownsStep ==
    ASSUME AccountsInv, MailInv, NEW r \in Requests, StepInOrder(r), Shift(r)
    PROVE  CooldownsHeld'
<1>1. KeysShift(r) /\ OthersStay(r)
  BY KeysShifts DEF StepInOrder
<1>2. CooldownsHeld
  BY DEF MailInv
<1>3. \A q \in Requests \ {r} : HoldsCooldown(q)' = HoldsCooldown(q) /\ Key(q)' = Key(q)
  BY <1>1, StaysCalm DEF OthersStay, HoldsCooldown
<1>4. ASSUME HoldsCooldown(r)'
      PROVE  /\ Key(r)' = Key(r)
             /\ Key(r) \in cooldown'
             /\ HoldsCooldown(r) \/ Key(r) \notin cooldown
  <2>1. StepsOn(r)
    BY <1>4, ShiftKeeps DEF HoldsCooldown
  <2>2. Key(r)' = Key(r) /\ job[r] \in {"resend", "forgot"}
    BY <1>4, <2>1 DEF StepsOn, Key, Kind, HoldsCooldown
  <2>3. CASE pc[r] = "cooldown"
    <3>1. pc'[r] = "previous"
      BY <1>4, <2>1, <2>3 DEF HoldsCooldown, StepsOn, Arrives
    <3> QED
      BY <2>1, <2>2, <2>3, <3>1 DEF StepsOn, Arrives, GetsCooldown, TakeCooldown, Key
  <2>4. CASE pc[r] # "cooldown"
    <3>1. HoldsCooldown(r) /\ pc[r] # "free"
      <4>1. pc'[r] = "previous" => pc[r] # "revoke"
        BY <2>2, Moves DEF AccountsInv, RequestInOrder
      <4>2. pc'[r] = "setlink" => pc[r] # "save"
        BY <2>2, Moves DEF AccountsInv, RequestInOrder
      <4> QED
        BY <1>4, <2>1, <2>2, <2>4, <4>1, <4>2 DEF HoldsCooldown, StepsOn, Arrives
    <3>2. cooldown' = cooldown
      BY <1>1, <2>4, <3>1 DEF KeysShift
    <3> QED
      BY <1>2, <2>2, <3>1, <3>2 DEF CooldownsHeld
  <2> QED
    BY <2>3, <2>4
<1>5. ASSUME NEW q \in Requests \ {r}, HoldsCooldown(q)
      PROVE  Key(q) \in cooldown'
  <2>1. Key(q) \in cooldown
    BY <1>2, <1>5 DEF CooldownsHeld
  <2>2. CASE pc[r] = "free"
    <3>1. HoldsCooldown(r)
      BY <2>2, Moves DEF HoldsCooldown, AccountsInv, RequestInOrder
    <3>2. Key(q) # Key(r)
      BY <1>2, <1>5, <3>1 DEF CooldownsHeld
    <3> QED
      BY <1>1, <2>1, <2>2, <3>2 DEF KeysShift
  <2> QED
    BY <1>1, <2>1, <2>2 DEF KeysShift
<1>6. \A q \in Requests : HoldsCooldown(q)' => Key(q)' \in cooldown'
  BY <1>3, <1>4, <1>5
<1>7. ASSUME NEW p \in Requests \ {r}, HoldsCooldown(p)', HoldsCooldown(r)'
      PROVE  Key(p)' # Key(r)'
  BY <1>2, <1>3, <1>4, <1>7 DEF CooldownsHeld
<1>8. ASSUME NEW p \in Requests, NEW q \in Requests,
             HoldsCooldown(p)', HoldsCooldown(q)', Key(p)' = Key(q)'
      PROVE  p = q
  BY <1>2, <1>3, <1>7, <1>8 DEF CooldownsHeld
<1> QED
  BY <1>6, <1>8 DEF CooldownsHeld

LEMMA CrossIsSymmetric ==
    ASSUME NEW i, NEW j, Cross(i, j)
    PROVE  Cross(j, i)
BY DEF Cross

LEMMA CrossingStep ==
    ASSUME AccountsInv, MailInv, NEW r \in Requests, StepInOrder(r), Shift(r)
    PROVE  NoCrossing'
<1>1. OthersStay(r) /\ calm' \subseteq calm
  BY DEF StepInOrder, Shift
<1>2. ASSUME NEW q \in Requests \ {r}, who'[q] = who'[r],
             Cross(job'[q], job'[r]) \/ Cross(job'[r], job'[q])
      PROVE  <<"verify", who'[r]>> \notin calm'
  <2>1. job'[q] = job[q] /\ who'[q] = who[q]
    BY <1>1 DEF OthersStay
  <2>2. CASE Begins(r)
    BY <1>2, <2>1, <2>2 DEF Begins
  <2>3. CASE StepsOn(r)
    <3>1. who[q] = who[r] /\ Cross(job[q], job[r])
      BY <1>2, <2>1, <2>3, CrossIsSymmetric DEF StepsOn
    <3> QED
      BY <1>1, <2>3, <3>1 DEF MailInv, NoCrossing, StepsOn
  <2>4. CASE StepsInBulk(r) \/ Leaves(r)
    BY <1>2, <2>4 DEF StepsInBulk, Leaves, Ended, Cross, Making
  <2> QED
    BY <2>2, <2>3, <2>4 DEF Shift
<1>3. ASSUME NEW p \in Requests \ {r}, NEW q \in Requests \ {r}, p # q, who'[p] = who'[q],
             Cross(job'[p], job'[q])
      PROVE  <<"verify", who'[q]>> \notin calm'
  BY <1>1, <1>3 DEF OthersStay, MailInv, NoCrossing
<1> QED
  BY <1>2, <1>3 DEF NoCrossing

\* A link that was used up does not come back.
LEMMA UsedUpStays ==
    ASSUME AccountsInv, NEW r \in Requests, StoreEffect(r),
           NEW n \in Links, n \notin works
    PROVE  n \notin works'
<1>1. n # Len(link) + 1
  BY DEF Links, AccountsInv, TypeOK
<1>2. LinksMove(r)
  BY StoresMove DEF StoreFacts
<1> QED
  BY <1>1, <1>2 DEF LinksMove

LEMMA OwnLinkFits ==
    ASSUME AccountsInv, MailInv, NEW r \in Requests, StepInOrder(r), Shift(r)
    PROVE  LinkFits(r)'
<1> USE DEF AccountsInv, RequestInOrder
<1>1. StoreEffect(r) /\ LinksStay /\ KeysShift(r)
  BY StoresMove, KeysShifts DEF StepInOrder, StoreFacts
<1>2. LinkFits(r)
  BY DEF MailInv
<1>3. CASE Begins(r)
  <2>1. job'[r] \in {"verify", "reset"} => link'[token'[r]].kind = Kind(r)'
    BY <1>3 DEF Begins, Kind, stores
  <2> QED
    BY <1>3, <2>1 DEF Begins, LinkFits
<1>4. CASE StepsOn(r)
  <2>1. ASSUME job[r] \in {"verify", "reset"}
        PROVE  LinkFits(r)'
    <3>1. token[r] \in Links /\ token'[r] = token[r]
      <4>1. pc'[r] # "track"
        BY <1>4, <2>1, Moves DEF StepsOn, Arrives
      <4> QED
        BY <1>4, <2>1, <4>1 DEF StepsOn, KnowsUser, TypeOK
    <3>2. Kind(r)' = Kind(r)
      BY <1>4 DEF StepsOn, Kind
    <3>3. link'[token[r]].kind = Kind(r)
      BY <1>1, <1>2, <2>1, <3>1 DEF LinksStay, LinkFits
    <3>4. token[r] \notin works'
      <4>1. CASE pc[r] = "consume"
        <5>1. ResetStep(r) /\ OwnsLink(r)'
          BY DEF StepInOrder
        <5>2. job[r] = "reset" => token[r] \notin works'
          BY <1>4, <3>1, <5>1 DEF StepsOn, OwnsLink
        <5>3. job[r] = "verify" => token[r] \notin works'
          BY <1>4, <4>1 DEF StepsOn, Changes, ConsumeLink
        <5> QED
          BY <2>1, <5>2, <5>3
      <4>2. CASE pc[r] # "consume"
        BY <1>1, <1>2, <2>1, <3>1, <4>2, UsedUpStays DEF LinkFits
      <4> QED
        BY <4>1, <4>2
    <3>5. pc'[r] \notin {"track", "enqueue"}
      BY <1>4, <2>1, Moves DEF StepsOn, Arrives
    <3> QED
      BY <3>1, <3>2, <3>3, <3>4, <3>5 DEF LinkFits
  <2>2. ASSUME job[r] \notin {"verify", "reset"}, pc'[r] = "track"
        PROVE  token'[r] \notin mailed' /\ link'[token'[r]].kind = Kind(r)'
    <3>1. MakeLink(r) /\ token'[r] = Len(link) + 1 /\ Kind(r)' = Kind(r)
      BY <1>4, <2>2 DEF StepsOn, Arrives, Kind
    <3>2. mailed' = mailed /\ Len(link) + 1 \notin mailed
      BY <3>1 DEF MakeLink, TypeOK, Links
    <3>3. link'[Len(link) + 1].kind = Kind(r)
      <4> DEFINE new == [kind |-> Kind(r), user |-> who[r], address |-> copy[r].address]
                 S == [kind : Kinds, user : Users, address : 0 .. MaxChanges]
      <4>1. link' = Append(link, new) /\ new.kind = Kind(r) /\ link \in Seq(S)
        BY <3>1 DEF MakeLink, TypeOK
      <4>2. link'[Len(link) + 1] = new
        <5> HIDE DEF new, S
        <5> QED
          BY <4>1
      <4> QED
        BY <4>1, <4>2
    <3> QED
      BY <3>1, <3>2, <3>3
  <2>3. ASSUME job[r] \notin {"verify", "reset"}, pc'[r] = "enqueue"
        PROVE  token'[r] \notin mailed' /\ link'[token'[r]].kind = Kind(r)'
    <3>1. pc[r] = "track" /\ SetPointer(r) /\ token'[r] = token[r] /\ Kind(r)' = Kind(r)
      BY <1>4, <2>3 DEF StepsOn, Arrives, Kind
    <3>2. mailed' = mailed /\ link' = link
      BY <3>1 DEF SetPointer
    <3> QED
      BY <1>2, <3>1, <3>2 DEF LinkFits
  <2>4. ASSUME job[r] \notin {"verify", "reset"}
        PROVE  LinkFits(r)'
    BY <1>4, <2>2, <2>3, <2>4 DEF LinkFits, StepsOn
  <2> QED
    BY <2>1, <2>4
<1>5. CASE StepsInBulk(r) \/ Leaves(r)
  BY <1>5 DEF StepsInBulk, Leaves, Ended, LinkFits
<1> QED
  BY <1>3, <1>4, <1>5 DEF Shift

LEMMA OtherLinksFit ==
    ASSUME AccountsInv, MailInv, NEW r \in Requests, StepInOrder(r),
           NEW q \in Requests \ {r}
    PROVE  LinkFits(q)'
<1> USE DEF AccountsInv, RequestInOrder
<1>1. StoreEffect(r) /\ LinksStay /\ KeysShift(r) /\ OthersStay(r)
  BY StoresMove, KeysShifts DEF StepInOrder, StoreFacts
<1>2. LinkFits(q) /\ Kind(q)' = Kind(q)
  BY <1>1 DEF MailInv, OthersStay, Kind
<1>3. pc'[q] = pc[q] /\ job'[q] = job[q] /\ token'[q] = token[q]
  BY <1>1 DEF OthersStay
<1>4. job[q] \in {"verify", "reset"} \/ pc[q] \in {"track", "enqueue"} => token[q] \in Links
  BY DEF KnowsUser, TypeOK
<1>5. ASSUME job[q] \in {"verify", "reset"}
      PROVE  /\ link'[token[q]].kind = Kind(q)
             /\ pc[q] # "consume" => token[q] \notin works'
  BY <1>1, <1>2, <1>4, <1>5, UsedUpStays DEF LinkFits, LinksStay
<1>6. ASSUME pc[q] \in {"track", "enqueue"}
      PROVE  token[q] \notin mailed' /\ link'[token[q]].kind = Kind(q)
  <2>1. pc[r] = "enqueue" => token[q] # token[r]
    BY <1>6 DEF MailInv, TokensDiffer
  <2> QED
    BY <1>1, <1>2, <1>4, <1>6, <2>1 DEF LinkFits, LinksStay, KeysShift
<1> QED
  BY <1>2, <1>3, <1>5, <1>6 DEF LinkFits

LEMMA TokensStep ==
    ASSUME AccountsInv, MailInv, NEW r \in Requests, StepInOrder(r), Shift(r)
    PROVE  TokensDiffer'
<1> USE DEF AccountsInv, RequestInOrder
<1>1. OthersStay(r)
  BY DEF StepInOrder
<1>2. ASSUME NEW q \in Requests \ {r}, pc'[q] \in {"track", "enqueue"},
             pc'[r] \in {"track", "enqueue"}
      PROVE  token'[q] # token'[r]
  <2>1. pc[q] \in {"track", "enqueue"} /\ token'[q] = token[q]
    BY <1>1, <1>2 DEF OthersStay
  <2>2. token[q] \in Links
    BY <2>1 DEF KnowsUser
  <2>3. StepsOn(r)
    BY <1>2, ShiftKeeps
  <2>4. CASE pc'[r] = "track"
    <3>1. token'[r] = Len(link) + 1 /\ Len(link) \in Nat
      BY <2>3, <2>4 DEF StepsOn, Arrives, TypeOK
    <3> QED
      BY <2>1, <2>2, <3>1 DEF Links
  <2>5. CASE pc'[r] = "enqueue"
    BY <2>1, <2>3, <2>5 DEF StepsOn, Arrives, MailInv, TokensDiffer
  <2> QED
    BY <1>2, <2>4, <2>5
<1>3. ASSUME NEW p \in Requests \ {r}, NEW q \in Requests \ {r}, p # q,
             pc'[p] \in {"track", "enqueue"}, pc'[q] \in {"track", "enqueue"}
      PROVE  token'[p] # token'[q]
  BY <1>1, <1>3 DEF OthersStay, MailInv, TokensDiffer
<1> QED
  BY <1>2, <1>3 DEF TokensDiffer

-----------------------------------------------------------------------------
LEMMA PointerMoves ==
    ASSUME TypeOK, NEW r \in Requests, KeysShift(r), NEW k \in Kinds, NEW u \in Users,
           tracked'[k][u] # tracked[k][u]
    PROVE  k = Kind(r) /\ u = who[r] /\ pc[r] \in {"track", "untrack"}
<1>1. ASSUME NEW a, NEW b, NEW c, tracked' = [tracked EXCEPT ![a][b] = c]
      PROVE  k = a /\ u = b
  <2>1. tracked \in [Kinds -> [Users -> 0 .. MaxLinks]]
    BY DEF TypeOK
  <2>2. k # a => tracked'[k] = tracked[k]
    BY <1>1, <2>1
  <2>3. k = a => tracked'[k] = [tracked[k] EXCEPT ![b] = c]
    BY <1>1, <2>1
  <2>4. k = a /\ u # b => tracked'[k][u] = tracked[k][u]
    BY <2>1, <2>3
  <2> QED
    BY <2>2, <2>4
<1>2. CASE pc[r] = "track" /\ tracked' = [tracked EXCEPT ![Kind(r)][who[r]] = token[r]]
  BY <1>1, <1>2
<1>3. CASE pc[r] = "untrack" /\ tracked' = [tracked EXCEPT ![Kind(r)][who[r]] = 0]
  BY <1>1, <1>3
<1> QED
  BY <1>2, <1>3 DEF KeysShift

\* A pointer moves to the link being made, or is deleted with no link in the
\* mail that it could point to.
LEMMA PointersStep ==
    ASSUME AccountsInv, MailInv, NEW r \in Requests, StepInOrder(r), Shift(r)
    PROVE  PointersFit'
<1> USE DEF AccountsInv, RequestInOrder
<1>1. StoreEffect(r) /\ KeysShift(r) /\ calm' \subseteq calm
  BY KeysShifts DEF StepInOrder, Shift
<1>2. SUFFICES ASSUME NEW k \in Kinds, NEW u \in Users, <<k, u>> \in calm',
                      NEW n \in Mail(k, u)'
               PROVE  n = tracked'[k][u]
  BY DEF PointersFit
<1>3. <<k, u>> \in calm
  BY <1>1, <1>2
<1>4. LinkFits(r) /\ MakerFits(r)
  BY DEF MailInv
<1>5. CASE pc[r] = "enqueue" /\ k = Kind(r) /\ u = who[r]
  <2>1. Mail(k, u) = {} /\ tracked[k][u] = token[r]
    BY <1>3, <1>4, <1>5 DEF MakerFits, Key
  <2>2. n = token[r]
    BY <1>1, <2>1, MailGrows
  <2>3. tracked' = tracked
    BY <1>1, <1>5 DEF KeysShift
  <2> QED
    BY <2>1, <2>2, <2>3
<1>6. CASE ~(pc[r] = "enqueue" /\ k = Kind(r) /\ u = who[r])
  <2>1. n \in Mail(k, u) /\ n \in Links
    BY <1>1, <1>6, MailGrows
  <2>2. n = tracked[k][u]
    BY <1>3, <2>1 DEF MailInv, PointersFit
  <2>3. CASE tracked'[k][u] = tracked[k][u]
    BY <2>2, <2>3
  <2>4. CASE tracked'[k][u] # tracked[k][u]
    <3>1. k = Kind(r) /\ u = who[r] /\ pc[r] \in {"track", "untrack"}
      BY <1>1, <2>4, PointerMoves
    <3>2. CASE pc[r] = "track"
      BY <1>3, <1>4, <2>1, <3>1, <3>2 DEF MakerFits, Key
    <3>3. CASE pc[r] = "untrack"
      <4>1. ~DropsNewer(r)
        BY <1>2, <3>1 DEF Shift, Key
      <4>2. tracked[k][u] \in {0, token[r]}
        BY <3>1, <3>3, <4>1 DEF DropsNewer
      <4>3. n = token[r] /\ n \in works
        BY <2>1, <2>2, <4>2 DEF Links, Mail
      <4>4. job[r] \in {"verify", "reset"}
        BY <3>3, Moves
      <4> QED
        BY <1>4, <3>3, <4>3, <4>4 DEF LinkFits
    <3> QED
      BY <3>1, <3>2, <3>3
  <2> QED
    BY <2>3, <2>4
<1> QED
  BY <1>5, <1>6

LEMMA OwnMakerFits ==
    ASSUME AccountsInv, MailInv, NEW r \in Requests, StepInOrder(r), Shift(r)
    PROVE  MakerFits(r)'
<1> USE DEF AccountsInv, RequestInOrder
<1>1. SUFFICES ASSUME Key(r)' \in calm',
                      pc'[r] \in {"drop", "setlink", "track", "enqueue"}
               PROVE  MakerFits(r)'
  BY DEF MakerFits
<1>2. StoreEffect(r) /\ calm' \subseteq calm
  BY DEF StepInOrder, Shift
<1>3. StepsOn(r)
  BY <1>1, ShiftKeeps
<1>4. Kind(r)' = Kind(r) /\ who'[r] = who[r] /\ Key(r) \in calm
  BY <1>1, <1>2, <1>3 DEF StepsOn, Kind, Key
<1>5. PICK k \in Kinds, u \in Users : k = Kind(r) /\ u = who[r]
  BY <1>3, KindType, AboutUser DEF StepsOn
<1>6. MakerFits(r)
  BY DEF MailInv
<1>7. pc[r] # "enqueue" => Mail(k, u)' \subseteq Mail(k, u)
  BY <1>2, <1>5, MailGrows
<1>8. CASE pc'[r] = "drop"
  <2>1. UNCHANGED stores /\ prev'[r] = tracked[k][u] /\ pc[r] = "previous"
    BY <1>3, <1>5, <1>8 DEF StepsOn, Arrives
  <2>2. \A n \in Mail(k, u) : n = tracked[k][u]
    BY <1>4, <1>5 DEF MailInv, PointersFit, Key
  <2> QED
    BY <1>4, <1>5, <1>7, <1>8, <2>1, <2>2 DEF MakerFits
<1>9. CASE pc'[r] = "setlink"
  <2>1. CASE pc[r] = "drop" /\ DropLink(r)
    <3>1. \A n \in Mail(k, u) : n = prev[r]
      BY <1>4, <1>5, <1>6, <2>1 DEF MakerFits
    <3>2. prev[r] \notin works'
      BY <2>1 DEF DropLink
    <3>3. Mail(k, u)' = {}
      BY <1>7, <2>1, <3>1, <3>2 DEF Mail
    <3> QED
      BY <1>4, <1>5, <1>9, <3>3 DEF MakerFits
  <2>2. CASE pc[r] = "save" /\ user[who[r]] = "absent"
    <3>1. Mail(k, u) = {}
      BY <1>5, <2>2 DEF Mail, LinksNameSavedUsers
    <3> QED
      BY <1>4, <1>5, <1>7, <1>9, <2>2, <3>1 DEF MakerFits
  <2> QED
    BY <1>3, <1>9, <2>1, <2>2 DEF StepsOn, Arrives
<1>10. CASE pc'[r] = "track"
  <2>1. pc[r] = "setlink"
    BY <1>3, <1>10 DEF StepsOn, Arrives
  <2> QED
    BY <1>4, <1>5, <1>6, <1>7, <1>10, <2>1 DEF MakerFits
<1>11. CASE pc'[r] = "enqueue"
  <2>1. pc[r] = "track" /\ SetPointer(r) /\ token'[r] = token[r]
    BY <1>3, <1>11 DEF StepsOn, Arrives
  <2>2. tracked'[k][u] = token[r]
    BY <1>5, <2>1 DEF SetPointer, TypeOK
  <2> QED
    BY <1>4, <1>5, <1>6, <1>7, <1>11, <2>1, <2>2 DEF MakerFits
<1> QED
  BY <1>1, <1>8, <1>9, <1>10, <1>11

LEMMA OtherMakersFit ==
    ASSUME AccountsInv, MailInv, NEW r \in Requests, StepInOrder(r), Shift(r),
           NEW q \in Requests \ {r}
    PROVE  MakerFits(q)'
<1> USE DEF AccountsInv, RequestInOrder
<1>1. SUFFICES ASSUME Key(q)' \in calm',
                      pc'[q] \in {"drop", "setlink", "track", "enqueue"}
               PROVE  MakerFits(q)'
  BY DEF MakerFits
<1>2. StoreEffect(r) /\ OthersStay(r) /\ KeysShift(r)
  BY KeysShifts DEF StepInOrder
<1>3. /\ Key(q)' = Key(q) /\ Kind(q)' = Kind(q) /\ Key(q) \in calm
      /\ who'[q] = who[q] /\ pc'[q] = pc[q] /\ token'[q] = token[q]
      /\ prev'[q] = prev[q]
  BY <1>1, <1>2, StaysCalm DEF OthersStay, Shift
<1>4. PICK k \in Kinds, u \in Users : k = Kind(q) /\ u = who[q]
  BY <1>1, <1>3, KindType, AboutUser
<1>5. Key(q) = Key(r) => pc[r] \notin {"drop", "setlink", "track", "enqueue"}
  BY <1>1, <1>3, MakersExclude
<1>6. Mail(k, u)' \subseteq Mail(k, u)
  BY <1>2, <1>4, <1>5, MailGrows DEF Key
<1>7. MakerFits(q)
  BY DEF MailInv
<1>8. ASSUME pc[q] = "enqueue"
      PROVE  tracked'[k][u] = token[q]
  <2>1. tracked[k][u] = token[q] /\ token[q] \in Links /\ token[q] \notin mailed
    BY <1>3, <1>4, <1>7, <1>8 DEF MakerFits, KnowsUser, MailInv, LinkFits
  <2>2. SUFFICES ASSUME tracked'[k][u] # tracked[k][u]
                 PROVE  FALSE
    BY <2>1
  <2>3. k = Kind(r) /\ u = who[r] /\ pc[r] \in {"track", "untrack"}
    BY <1>2, <2>2, PointerMoves
  <2>4. pc[r] = "untrack"
    BY <1>4, <1>5, <2>3 DEF Key
  <2>5. token[r] \in mailed
    <3>1. job[r] \in {"verify", "reset"}
      BY <2>4, Moves
    <3> QED
      BY <3>1 DEF KnowsUser
  <2>6. DropsNewer(r)
    BY <1>4, <2>1, <2>3, <2>4, <2>5 DEF DropsNewer, Links
  <2> QED
    BY <1>1, <1>3, <1>4, <2>3, <2>6 DEF Shift, Key
<1> QED
  BY <1>3, <1>4, <1>6, <1>7, <1>8 DEF MakerFits

LEMMA MailStep ==
    ASSUME AccountsInv, MailInv, NEW r \in Requests, StepInOrder(r), Shift(r)
    PROVE  MailInv'
BY CooldownsStep, CrossingStep, TokensStep, PointersStep, OwnLinkFits, OtherLinksFit,
   OwnMakerFits, OtherMakersFit DEF MailInv

LEMMA MailQuiet ==
    ASSUME MailInv, CooldownsHeld', works' \subseteq works,
           UNCHANGED <<link, tracked, mailed, pc, job, who, token, prev, calm>>
    PROVE  MailInv'
<1>1. \A k \in Kinds, u \in Users : Mail(k, u)' \subseteq Mail(k, u)
  BY DEF Mail
<1>2. NoCrossing' /\ TokensDiffer'
  BY DEF MailInv, NoCrossing, TokensDiffer
<1>3. PointersFit'
  BY <1>1 DEF MailInv, PointersFit
<1>4. ASSUME NEW r \in Requests
      PROVE  LinkFits(r)' /\ MakerFits(r)'
  <2>1. LinkFits(r) /\ MakerFits(r)
    BY DEF MailInv
  <2>2. Kind(r)' = Kind(r) /\ Key(r)' = Key(r) /\ who'[r] = who[r]
    BY DEF Kind, Key
  <2>3. Mail(Kind(r), who[r])' \subseteq Mail(Kind(r), who[r])
    BY <2>2 DEF Mail
  <2>4. LinkFits(r)'
    BY <2>1, <2>2 DEF LinkFits
  <2> QED
    BY <2>1, <2>2, <2>3, <2>4 DEF MakerFits
<1> QED
  BY <1>2, <1>3, <1>4 DEF MailInv

LEMMA MailTime ==
    ASSUME MailInv,
           \/ \E n \in Links : LinkExpires(n)
           \/ \E k \in Kinds, u \in Users : CooldownEnds(k, u)
           \/ \E u \in Users \ Admins : LogIn(u)
           \/ UNCHANGED vars
    PROVE  MailInv'
<1>1. /\ works' \subseteq works
      /\ UNCHANGED <<link, tracked, mailed, pc, job, who, token, prev, calm>>
  BY DEF LinkExpires, CooldownEnds, LogIn, vars, keys, progress, memory
<1>2. CASE cooldown' = cooldown
  <2>1. CooldownsHeld'
    BY <1>1, <1>2 DEF MailInv, CooldownsHeld, HoldsCooldown, Key, Kind
  <2> QED
    BY <1>1, <2>1, MailQuiet
<1>3. ASSUME NEW k \in Kinds, NEW u \in Users, CooldownEnds(k, u)
      PROVE  MailInv'
  <2>1. \A r \in Requests : HoldsCooldown(r) => Key(r) # <<k, u>>
    BY <1>3 DEF CooldownEnds, HoldsCooldown, Key
  <2>2. CooldownsHeld'
    BY <1>1, <1>3, <2>1 DEF CooldownEnds, MailInv, CooldownsHeld, HoldsCooldown, Key, Kind
  <2> QED
    BY <1>1, <2>2, MailQuiet
<1> QED
  BY <1>2, <1>3 DEF LinkExpires, LogIn, vars, keys

LEMMA MailInit == Init => MailInv
BY DEF Init, MailInv, CooldownsHeld, HoldsCooldown, NoCrossing, Cross, Making, TokensDiffer,
       PointersFit, Mail, LinkFits, MakerFits

\* What a step of the system is to the links.
LEMMA MailStepKinds ==
    ASSUME AccountsInv, Next
    PROVE  \/ \E r \in Requests : StepInOrder(r) /\ Shift(r)
           \/ \E n \in Links : LinkExpires(n)
           \/ \E k \in Kinds, u \in Users : CooldownEnds(k, u)
           \/ \E u \in Users \ Admins : LogIn(u)
<1>1. ASSUME NEW r \in Requests,
             \/ \E u \in Active : StartForUser(r, u)
             \/ \E n \in Links : OpenLink(r, n)
             \/ StartBulk(r)
             \/ Save(r) \/ Load(r) \/ LoadNext(r) \/ Write(r) \/ Commit(r)
             \/ Consume(r) \/ Untrack(r) \/ Cooldown(r) \/ Previous(r) \/ Drop(r)
             \/ SetLink(r) \/ Track(r) \/ Enqueue(r) \/ Free(r) \/ Revoke(r)
             \/ Reply(r) \/ Fail(r)
      PROVE  StepInOrder(r) /\ Shift(r)
  BY <1>1, StepShifts, StartForUserInOrder, OpenLinkInOrder, StartBulkInOrder, SaveInOrder,
     LoadInOrder, LoadNextInOrder, WriteInOrder, CommitInOrder, ConsumeInOrder,
     UntrackInOrder, CooldownInOrder, PreviousInOrder, DropInOrder, SetLinkInOrder,
     TrackInOrder, EnqueueInOrder, RevokeInOrder, LastStepInOrder, FailInOrder
<1> QED
  BY <1>1 DEF Next

LEMMA MailNext == AccountsInv /\ MailInv /\ [Next]_vars => MailInv'
BY MailStepKinds, MailStep, MailTime

\* Cooldowns, pointers and the links being made are as the code relies on.
LEMMA MailInvariant == Spec => []MailInv
BY AccountsInvariant, MailInit, MailNext, PTL DEF Spec

\* resend_email_verification_service, forgot_password_service, update_email_service:
\* a new link replaces the one mailed before it, for any number of users, requests
\* and failures.
THEOREM NewestLinkWorks == Spec => []NewestLinkOnly
<1>1. AccountsInv /\ MailInv => NewestLinkOnly
  <2>1. SUFFICES ASSUME AccountsInv, MailInv,
                        NEW m \in works \cap mailed, NEW n \in works \cap mailed,
                        link[m].kind = link[n].kind, link[m].user = link[n].user,
                        <<link[m].kind, link[m].user>> \in calm
                 PROVE  m = n
    BY DEF NewestLinkOnly
  <2>2. link[m].kind \in Kinds /\ link[m].user \in Users
    BY <2>1, LinkType DEF AccountsInv, TypeOK
  <2> DEFINE k == link[m].kind
             u == link[m].user
  <2>3. m \in Mail(k, u) /\ n \in Mail(k, u)
    BY <2>1 DEF Mail
  <2> QED
    BY <2>1, <2>2, <2>3 DEF MailInv, PointersFit
<1> QED
  BY <1>1, AccountsInvariant, MailInvariant, PTL

-----------------------------------------------------------------------------
\* Its new address is committed, and the link to the old one not deleted yet.
Moving(u) ==
    \E r \in Requests :
        who[r] = u /\ job[r] = "update" /\ pc[r] \in {"revoke", "previous", "drop"}

\* What a request knows of the address still holds.
AddressFits(r) ==
    /\ job[r] \in {"none", "signup"} => copy[r].address = 0
    /\ <<"verify", who[r]>> \in calm =>
          /\ job[r] = "verify" /\ pc[r] # "consume" =>
                link[token[r]].address = address[who[r]]
          /\ job[r] \in Making /\ pc[r] \in {"cooldown", "previous", "drop", "setlink"} =>
                copy[r].address = address[who[r]]
          /\ job[r] \in Making /\ pc[r] \in {"track", "enqueue"} =>
                link[token[r]].address = address[who[r]]
          /\ job[r] = "update" /\ pc[r] = "revoke" => copy[r].address = address[who[r]]
          /\ job[r] = "update" /\ pc[r] \in {"write", "commit"} =>
                copy[r].verified = verified[who[r]]

\* What is confirmed, and what can be, is the present address.
UserFits(u) ==
    /\ user[u] = "absent" => address[u] = 0
    /\ <<"verify", u>> \in calm =>
          /\ verified[u] => confirmed[u] = address[u]
          /\ ~Moving(u) => \A n \in Mail("verify", u) : link[n].address = address[u]

AddressInv ==
    /\ \A r \in Requests : AddressFits(r)
    /\ \A u \in Users : UserFits(u)

\* Only a commit writes to the row.
RowShift(r) ==
    \/ UNCHANGED <<address, verified, confirmed>>
    \/ pc[r] = "commit" /\ CommitVerify(r)
    \/ pc[r] = "commit" /\ CommitUpdate(r)

LEMMA RowShifts ==
    ASSUME NEW r \in Requests, StoreEffect(r)
    PROVE  RowShift(r)
<1>1. CASE pc[r] = "commit" /\ CommitRow(r)
  BY <1>1 DEF CommitRow, CommitReset, CommitDelete, row, RowShift
<1>2. CASE ~(pc[r] = "commit" /\ CommitRow(r))
  BY <1>2 DEF StoreEffect, Applied, stores, row, SaveUser, ConsumeLink, DropPointer,
              TakeCooldown, DropLink, MakeLink, SetPointer, HandOver, FreeCooldown,
              RevokeAccess, RowShift
<1> QED
  BY <1>1, <1>2

LEMMA OtherAddressFits ==
    ASSUME AccountsInv, MailInv, AddressInv, NEW r \in Requests, StepInOrder(r), Shift(r),
           NEW q \in Requests \ {r}
    PROVE  AddressFits(q)'
<1> USE DEF AccountsInv, RequestInOrder
<1>1. OthersStay(r) /\ RowShift(r) /\ LinksStay /\ calm' \subseteq calm
  BY RowShifts, StoresMove DEF StepInOrder, StoreFacts, Shift
<1>2. /\ pc'[q] = pc[q] /\ job'[q] = job[q] /\ who'[q] = who[q]
      /\ token'[q] = token[q] /\ copy'[q] = copy[q]
  BY <1>1 DEF OthersStay
<1>3. AddressFits(q)
  BY DEF AddressInv
<1>4. ASSUME <<"verify", who[q]>> \in calm, job[q] \in Making \cup {"verify"}
      PROVE  /\ address'[who[q]] = address[who[q]]
             /\ job[q] = "update" => verified'[who[q]] = verified[who[q]]
  <2>1. who[q] \in Users
    BY <1>4, AboutUser DEF OnPath, Making
  <2>2. ~(who[q] = who[r] /\ Cross(job[r], job[q]))
    BY <1>4 DEF MailInv, NoCrossing
  <2>3. CASE pc[r] = "commit" /\ CommitUpdate(r)
    BY <1>4, <2>1, <2>2, <2>3 DEF CommitUpdate, Cross, TypeOK
  <2>4. CASE pc[r] = "commit" /\ CommitVerify(r)
    BY <1>4, <2>1, <2>2, <2>4 DEF CommitVerify, Cross, TypeOK
  <2> QED
    BY <1>1, <2>3, <2>4 DEF RowShift
<1>5. job[q] = "verify" \/ pc[q] \in {"track", "enqueue"} =>
          link'[token[q]] = link[token[q]]
  BY <1>1 DEF KnowsUser, LinksStay, TypeOK
<1> QED
  BY <1>1, <1>2, <1>3, <1>4, <1>5 DEF AddressFits, Making

LEMMA OwnAddressFits ==
    ASSUME AccountsInv, MailInv, AddressInv, NEW r \in Requests, StepInOrder(r), Shift(r)
    PROVE  AddressFits(r)'
<1> USE DEF AccountsInv, RequestInOrder
<1>1. RowShift(r) /\ LinksStay /\ calm' \subseteq calm
  BY RowShifts, StoresMove DEF StepInOrder, StoreFacts, Shift
<1>2. AddressFits(r)
  BY DEF AddressInv
<1>3. CASE Begins(r)
  <2>1. job[r] = "none" /\ copy'[r] = copy[r]
    BY <1>3 DEF Begins, OnPath
  <2> QED
    BY <1>2, <1>3, <2>1 DEF Begins, AddressFits
<1>4. CASE StepsInBulk(r) \/ Leaves(r)
  BY <1>4 DEF StepsInBulk, Leaves, Ended, AddressFits, Making
<1>5. CASE StepsOn(r)
  <2>1. /\ job'[r] = job[r] /\ who'[r] = who[r]
        /\ who[r] \in Users
    BY <1>5, AboutUser DEF StepsOn
  <2>2. job[r] \in {"none", "signup"} => copy'[r].address = 0
    <3>1. job[r] \in {"none", "signup"} => pc[r] \notin {"load", "write"}
      BY <1>5, Moves DEF StepsOn, OnPath
    <3> QED
      BY <1>2, <1>5, <3>1 DEF StepsOn, AddressFits
  <2> SUFFICES ASSUME <<"verify", who[r]>> \in calm'
               PROVE  AddressFits(r)'
    BY <2>1, <2>2 DEF AddressFits
  <2>3. <<"verify", who[r]>> \in calm
    BY <1>1
  <2>4. pc[r] # "commit" => UNCHANGED <<address, verified>>
    BY <1>1 DEF RowShift
  <2>5. ASSUME job[r] = "verify"
        PROVE  link'[token'[r]].address = address'[who[r]]
    <3>1. token'[r] = token[r] /\ token[r] \in mailed /\ token[r] \in Links
      BY <1>5, <2>5, Moves DEF StepsOn, Arrives, KnowsUser, TypeOK
    <3>2. address' = address
      BY <1>1, <2>5 DEF RowShift, CommitVerify, CommitUpdate
    <3>3. link[token[r]].address = address[who[r]]
      <4>1. CASE pc[r] = "consume"
        <5>1. token[r] \in works /\ link[token[r]].user = who[r]
              /\ link[token[r]].kind = "verify"
          BY <1>5, <2>5, <4>1 DEF StepsOn, Changes, KnowsUser, MailInv, LinkFits, Kind
        <5>2. token[r] \in Mail("verify", who[r])
          BY <3>1, <5>1 DEF Mail
        <5>3. ~Moving(who[r])
          BY <2>3, <2>5 DEF Moving, MailInv, NoCrossing, Cross
        <5> QED
          BY <2>1, <2>3, <5>2, <5>3 DEF AddressInv, UserFits
      <4>2. CASE pc[r] # "consume"
        BY <1>2, <2>3, <2>5, <4>2 DEF AddressFits
      <4> QED
        BY <4>1, <4>2
    <3> QED
      BY <1>1, <3>1, <3>2, <3>3 DEF LinksStay
  <2>6. ASSUME job[r] \in Making, pc'[r] \in {"cooldown", "previous", "drop", "setlink"}
        PROVE  copy'[r].address = address'[who[r]]
    <3>1. CASE pc'[r] = "cooldown"
      BY <1>5, <3>1 DEF StepsOn, Arrives, stores
    <3>2. CASE pc[r] = "save" /\ user[who[r]] = "absent"
      <4>1. job[r] = "signup" /\ address[who[r]] = 0
        BY <2>1, <3>2, Moves DEF AddressInv, UserFits
      <4> QED
        BY <1>2, <1>5, <2>4, <3>2, <4>1 DEF AddressFits, StepsOn
    <3>3. CASE pc[r] \in {"cooldown", "previous", "drop"}
      BY <1>2, <1>5, <2>3, <2>4, <2>6, <3>3 DEF AddressFits, StepsOn
    <3>4. CASE pc[r] = "revoke"
      <4>1. job[r] = "update"
        BY <2>6, <3>4, Moves DEF Making
      <4> QED
        BY <1>2, <1>5, <2>3, <2>4, <3>4, <4>1 DEF AddressFits, StepsOn
    <3> QED
      BY <1>5, <2>6, <3>1, <3>2, <3>3, <3>4 DEF StepsOn, Arrives
  <2>7. ASSUME job[r] \in Making, pc'[r] \in {"track", "enqueue"}
        PROVE  link'[token'[r]].address = address'[who[r]]
    <3>1. CASE pc'[r] = "track"
      <4>1. MakeLink(r) /\ pc[r] = "setlink" /\ token'[r] = Len(link) + 1
        BY <1>5, <3>1 DEF StepsOn, Arrives
      <4>2. link'[Len(link) + 1].address = copy[r].address
        <5> DEFINE new == [kind |-> Kind(r), user |-> who[r], address |-> copy[r].address]
                   S == [kind : Kinds, user : Users, address : 0 .. MaxChanges]
        <5>1. link' = Append(link, new) /\ new.address = copy[r].address /\ link \in Seq(S)
          BY <4>1 DEF MakeLink, TypeOK
        <5>2. link'[Len(link) + 1] = new
          <6> HIDE DEF new, S
          <6> QED
            BY <5>1
        <5> QED
          BY <5>1, <5>2
      <4> QED
        BY <1>2, <2>3, <2>4, <2>7, <4>1, <4>2 DEF AddressFits
    <3>2. CASE pc'[r] = "enqueue"
      <4>1. pc[r] = "track" /\ token'[r] = token[r] /\ token[r] \in Links
        BY <1>5, <3>2 DEF StepsOn, Arrives, KnowsUser
      <4> QED
        BY <1>1, <1>2, <2>3, <2>4, <2>7, <4>1 DEF AddressFits, LinksStay
    <3> QED
      BY <2>7, <3>1, <3>2
  <2>8. ASSUME job[r] = "update", pc'[r] = "revoke"
        PROVE  copy'[r].address = address'[who[r]]
    BY <1>5, <2>1, <2>8 DEF StepsOn, Changes, CommitUpdate, TypeOK
  <2>9. ASSUME job[r] = "update", pc'[r] \in {"write", "commit"}
        PROVE  copy'[r].verified = verified'[who[r]]
    BY <1>2, <1>5, <2>3, <2>9 DEF AddressFits, StepsOn, Changes, stores
  <2> QED
    BY <2>1, <2>2, <2>5, <2>6, <2>7, <2>8, <2>9 DEF AddressFits
<1> QED
  BY <1>3, <1>4, <1>5 DEF Shift

\* A change of address that goes on still has the link to the old one to
\* delete; one that ends before is excepted.
LEMMA MovingGoesOn ==
    ASSUME AccountsInv, NEW r \in Requests, Shift(r), Key(r) \in calm',
           LeavesOldLink(r), ~(pc[r] = "drop" /\ DropLink(r)),
           NEW u \in Users, who[r] = u
    PROVE  Moving(u)'
<1>1. job[r] = "update" /\ pc'[r] \in {"revoke", "previous", "drop"}
  BY DEF Shift, LeavesOldLink
<1>2. job'[r] = "update" /\ who'[r] = who[r]
  BY <1>1 DEF Shift, Begins, StepsOn, StepsInBulk, Leaves, Ended, AccountsInv,
              RequestInOrder, OnPath
<1> QED
  BY <1>1, <1>2 DEF Moving

LEMMA UserStep ==
    ASSUME AccountsInv, MailInv, AddressInv, NEW r \in Requests, StepInOrder(r), Shift(r),
           NEW u \in Users
    PROVE  UserFits(u)'
<1> USE DEF AccountsInv, RequestInOrder
<1>1. /\ RowShift(r) /\ LinksStay /\ UsersMove(r) /\ calm' \subseteq calm
      /\ OthersStay(r) /\ StoreEffect(r)
  BY RowShifts, StoresMove DEF StepInOrder, StoreFacts, Shift
<1>2. UserFits(u) /\ AddressFits(r)
  BY DEF AddressInv
<1>3. address'[u] # address[u] => pc[r] = "commit" /\ CommitUpdate(r) /\ who[r] = u
  BY <1>1 DEF RowShift, CommitVerify, CommitUpdate, TypeOK
<1>4. user'[u] = "absent" => address'[u] = 0
  <2>1. SUFFICES ASSUME user'[u] = "absent"
                 PROVE  address'[u] = 0
    OBVIOUS
  <2>2. user[u] = "absent"
    BY <1>1, <2>1 DEF UsersMove, TypeOK
  <2>3. pc[r] = "commit" => user[who[r]] # "absent"
    BY DEF KnowsUser
  <2> QED
    BY <1>2, <1>3, <2>2, <2>3 DEF UserFits
<1>5. ASSUME <<"verify", u>> \in calm', verified'[u]
      PROVE  confirmed'[u] = address'[u]
  <2>1. <<"verify", u>> \in calm
    BY <1>1, <1>5
  <2>2. CASE UNCHANGED <<address, verified, confirmed>>
    BY <1>2, <1>5, <2>1, <2>2 DEF UserFits
  <2>3. CASE pc[r] = "commit" /\ CommitVerify(r)
    <3>1. CASE wrote[r] /\ who[r] = u
      <4>1. link[token[r]].address = address[u]
        BY <1>2, <2>1, <2>3, <3>1 DEF AddressFits, CommitVerify
      <4> QED
        BY <2>3, <3>1, <4>1 DEF CommitVerify, TypeOK
    <3>2. CASE ~(wrote[r] /\ who[r] = u)
      <4>1. verified'[u] = verified[u] /\ confirmed'[u] = confirmed[u] /\ address' = address
        BY <2>3, <3>2 DEF CommitVerify, TypeOK
      <4> QED
        BY <1>2, <1>5, <2>1, <4>1 DEF UserFits
    <3> QED
      BY <3>1, <3>2
  <2>4. CASE pc[r] = "commit" /\ CommitUpdate(r)
    <3>1. CASE who[r] = u
      <4>1. copy[r].verified = verified[u]
        BY <1>2, <2>1, <2>4, <3>1 DEF AddressFits, CommitUpdate
      <4>2. verified'[u] = (verified[u] /\ ~copy[r].verified)
        BY <2>4, <3>1 DEF CommitUpdate, TypeOK
      <4> QED
        BY <1>5, <4>1, <4>2
    <3>2. CASE who[r] # u
      <4>1. verified'[u] = verified[u] /\ confirmed' = confirmed
        BY <2>4, <3>2 DEF CommitUpdate, TypeOK
      <4> QED
        BY <1>2, <1>3, <1>5, <2>1, <3>2, <4>1 DEF UserFits
    <3> QED
      BY <3>1, <3>2
  <2> QED
    BY <1>1, <2>2, <2>3, <2>4 DEF RowShift
<1>6. ASSUME <<"verify", u>> \in calm', ~Moving(u)', NEW n \in Mail("verify", u)'
      PROVE  link'[n].address = address'[u]
  <2>1. "verify" \in Kinds /\ <<"verify", u>> \in calm
    BY <1>1, <1>6 DEF Kinds
  <2>2. /\ n \in Links
        /\ \/ n \in Mail("verify", u)
           \/ pc[r] = "enqueue" /\ n = token[r] /\ Kind(r) = "verify" /\ u = who[r]
    BY <1>1, <1>6, <2>1, MailGrows
  <2>3. link'[n] = link[n]
    BY <1>1, <2>2 DEF LinksStay
  <2>4. CASE pc[r] = "enqueue" /\ n = token[r] /\ Kind(r) = "verify" /\ u = who[r]
    <3>1. job[r] \in Making
      BY <2>4, Moves DEF Kind, Making
    <3> QED
      BY <1>2, <1>3, <2>1, <2>3, <2>4, <3>1 DEF AddressFits
  <2>5. CASE n \in Mail("verify", u)
    <3>1. Kind(r) = "verify" \/ job[r] # "update"
      BY DEF Kind
    <3>2. address'[u] = address[u]
      <4>1. SUFFICES ASSUME address'[u] # address[u]
                     PROVE  FALSE
        OBVIOUS
      <4>2. LeavesOldLink(r) /\ pc[r] = "commit" /\ who[r] = u
        BY <1>3, <4>1 DEF LeavesOldLink, CommitUpdate
      <4>3. Key(r) \in calm'
        BY <1>6, <3>1, <4>2 DEF Key, LeavesOldLink
      <4>4. Moving(u)'
        BY <4>2, <4>3, MovingGoesOn
      <4> QED
        BY <1>6, <4>4
    <3>3. CASE ~Moving(u)
      BY <1>2, <2>1, <2>3, <2>5, <3>2, <3>3 DEF UserFits
    <3>4. CASE Moving(u)
      <4>1. PICK q \in Requests :
                who[q] = u /\ job[q] = "update" /\ pc[q] \in {"revoke", "previous", "drop"}
        BY <3>4 DEF Moving
      <4>2. q = r
        BY <1>1, <1>6, <4>1 DEF OthersStay, Moving
      <4>3. LeavesOldLink(r) /\ Key(r) \in calm'
        BY <1>6, <3>1, <4>1, <4>2 DEF LeavesOldLink, Key
      <4>4. pc[r] = "drop" /\ DropLink(r)
        <5>1. SUFFICES ASSUME ~(pc[r] = "drop" /\ DropLink(r))
                       PROVE  FALSE
          OBVIOUS
        <5>2. Moving(u)'
          BY <4>1, <4>2, <4>3, <5>1, MovingGoesOn
        <5> QED
          BY <1>6, <5>2
      <4>5. n = prev[r]
        BY <1>1, <2>5, <3>1, <4>1, <4>2, <4>3, <4>4 DEF MailInv, MakerFits, Key
      <4> QED
        BY <1>6, <4>4, <4>5 DEF DropLink, Mail
    <3> QED
      BY <3>3, <3>4
  <2> QED
    BY <2>2, <2>4, <2>5
<1> QED
  BY <1>4, <1>5, <1>6 DEF UserFits

LEMMA AddressStep ==
    ASSUME AccountsInv, MailInv, AddressInv, NEW r \in Requests, StepInOrder(r), Shift(r)
    PROVE  AddressInv'
BY UserStep, OwnAddressFits, OtherAddressFits DEF AddressInv

LEMMA AddressTime ==
    ASSUME AddressInv,
           \/ \E n \in Links : LinkExpires(n)
           \/ \E k \in Kinds, u \in Users : CooldownEnds(k, u)
           \/ \E u \in Users \ Admins : LogIn(u)
           \/ UNCHANGED vars
    PROVE  AddressInv'
<1>1. /\ works' \subseteq works
      /\ UNCHANGED <<user, address, verified, link, mailed, pc, job, who, token, copy,
                     confirmed, calm>>
  BY DEF LinkExpires, CooldownEnds, LogIn, vars, keys, row, progress, memory
<1>2. \A r \in Requests : AddressFits(r)'
  BY <1>1 DEF AddressInv, AddressFits
<1>3. ASSUME NEW u \in Users
      PROVE  UserFits(u)'
  <2>1. Mail("verify", u)' \subseteq Mail("verify", u) /\ Moving(u)' = Moving(u)
    BY <1>1 DEF Mail, Moving
  <2> QED
    BY <1>1, <2>1 DEF AddressInv, UserFits
<1> QED
  BY <1>2, <1>3 DEF AddressInv

LEMMA AddressInit == Init => AddressInv
<1>1. ASSUME Init, NEW r \in Requests
      PROVE  AddressFits(r)
  <2>1. job[r] = "none" /\ copy[r] = NoCopy /\ NoCopy.address = 0
    BY <1>1 DEF Init, NoCopy
  <2> QED
    BY <2>1 DEF AddressFits, Making
<1>2. Init => \A u \in Users : UserFits(u)
  BY DEF Init, UserFits, Mail
<1> QED
  BY <1>1, <1>2 DEF AddressInv

LEMMA AddressNext == AccountsInv /\ MailInv /\ AddressInv /\ [Next]_vars => AddressInv'
BY MailStepKinds, AddressStep, AddressTime

\* update_email_service, verify_user_email_service: who is shown as verified has
\* opened a link mailed to the present address, for any number of changes of it.
THEOREM VerifiedIsConfirmed == Spec => []VerifiedMeansConfirmed
<1>1. AddressInv => VerifiedMeansConfirmed
  BY DEF AddressInv, UserFits, VerifiedMeansConfirmed
<1> QED
  BY <1>1, AccountsInvariant, MailInvariant, AddressInit, AddressNext, PTL DEF Spec
=============================================================================
