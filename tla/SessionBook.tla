---------------------------- MODULE SessionBook ----------------------------
(***************************************************************************)
(* What JWTService promises of a user's sessions (ADR 0013), however many  *)
(* requests run at once: a session begins with a login, has one refresh    *)
(* token that works, which is used once, for the next one, and when it is  *)
(* over it stays over.  There are no requests, transactions, locks or      *)
(* cookies in this module; Sessions implements it.                         *)
(***************************************************************************)
CONSTANT Tokens     \* a session is known by its first token

VARIABLES
    working,    \* the sessions and tokens <<c, n>> such that n works for c
    known       \* the tokens that work or ever did

bookVars == <<working, known>>

BookInit == working = {} /\ known = {}

\* A login.
Begin(c) ==
    /\ c \notin known
    /\ working' = working \cup {<<c, c>>}
    /\ known' = known \cup {c}

\* A rotation: the token m that works makes way for one never seen before.
Renew(c, m, n) ==
    /\ <<c, m>> \in working
    /\ n \notin known
    /\ working' = (working \ {<<c, m>>}) \cup {<<c, n>>}
    /\ known' = known \cup {n}

\* Logouts, new passwords, wipes and the cleanup: any of them end at once.
EndAll(W) ==
    /\ working' = working \ W
    /\ UNCHANGED known

BookNext ==
    \/ \E c \in Tokens : Begin(c)
    \/ \E c, m, n \in Tokens : Renew(c, m, n)
    \/ \E W \in SUBSET working : EndAll(W)

BookSpec == BookInit /\ [][BookNext]_bookVars
=============================================================================
