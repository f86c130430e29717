------------------------------ MODULE Session ------------------------------
(***************************************************************************)
(* Sessions, session.js and the login of ui.js: a heartbeat asks the       *)
(* router whether the session lives and leads to the login when it does    *)
(* not; the login tries the session the address names before it asks the   *)
(* user.  A lost answer and one that denies the session look the same.     *)
(*                                                                         *)
(* A heartbeat and its answer are one step: the answer, or its loss, comes *)
(* before the next heartbeat is due, and nothing else looks at either.     *)
(***************************************************************************)
EXTENDS Views

CONSTANTS
    Bookmarks,      \* the views that the address may name at the start
    MaxSessions     \* sessions the router gives before it ends none any more

ASSUME SessionAssumption == Bookmarks \subseteq Menu /\ MaxSessions \in Nat

VARIABLES
    boot,           \* the start: "login", "loading", "up", or "failed"
    session,        \* the session the router holds, 0 for none
    given,          \* sessions the router gave so far
    sid,            \* the session the page uses, 0 for none
    beat,           \* whether the heartbeat runs
    login           \* the login: "none", "checking", "asking", "logging", "left"

sessionVars == <<boot, session, given, sid, beat, login>>

Alive == session # 0 /\ sid = session

\* login(): the session that the address names is tried first.
Login(h) ==
    IF h.id # 0 THEN login' = "checking" /\ sid' = h.id
                ELSE login' = "asking" /\ UNCHANGED sid

SessionInit ==
    /\ hash \in {[view |-> None, id |-> 0]} \cup [view : Bookmarks, id : {1}]
    /\ boot = "login"
    /\ given = 1
    /\ session \in {0, hash.id}
    /\ sid = hash.id
    /\ beat = FALSE
    /\ login = IF hash.id # 0 THEN "checking" ELSE "asking"

\* Mutant of LoggedIn: starts no heartbeat.
LoggedInUnwatched ==
    /\ login' = "none"
    /\ UNCHANGED beat
    /\ IF boot = "login" THEN boot' = "loading" /\ loading' = TRUE
                         ELSE UNCHANGED <<boot, loading>>

\* The login succeeded: the heartbeat starts, and so does the page if it has not.
LoggedIn ==
    /\ beat' = TRUE
    /\ login' = "none"
    /\ IF boot = "login" THEN boot' = "loading" /\ loading' = TRUE
                         ELSE UNCHANGED <<boot, loading>>

\* A heartbeat, and what isAlive() answers to it: that it lives or not.
Beat(alive) ==
    /\ beat
    /\ ~alive
    /\ beat' = FALSE
    /\ Login(hash)
    /\ UNCHANGED <<address, listening, shown, polls, loading, boot, session, given>>

\* The login looks whether the session of the address lives.
Checked(alive) ==
    /\ login = "checking"
    /\ IF alive
       THEN LoggedIn /\ UNCHANGED <<address, sid>>
       ELSE /\ SetHash([hash EXCEPT !.id = 0])
            /\ login' = "asking"
            /\ UNCHANGED <<boot, loading, beat, sid>>
    /\ UNCHANGED <<listening, shown, polls, session, given>>

BeatAnswer  == Beat(Alive) /\ UNCHANGED budget
BeatLost    == Beat(FALSE) /\ Loss
CheckAnswer == Checked(Alive) /\ UNCHANGED budget
CheckLost   == Checked(FALSE) /\ Loss

\* The user answers the login, and not before the page behind it is drawn, or
\* takes it away.
Submit ==
    /\ login = "asking"
    /\ ~Drawing
    /\ login' = "logging"
    /\ sid' = 0
    /\ UNCHANGED <<viewVars, boot, session, given, beat>>

Cancel ==
    /\ login = "asking"
    /\ Act
    /\ login' = "left"
    /\ UNCHANGED <<address, listening, shown, polls, loading, boot, session, given, sid, beat>>

\* Mutant of LoginAnswer: keeps the session out of the address.
LoginUnnamed ==
    /\ login = "logging"
    /\ given' = given + 1
    /\ session' = given + 1
    /\ sid' = given + 1
    /\ LoggedIn
    /\ UNCHANGED <<address, listening, shown, polls, budget>>

\* The router gives a session, which the address then names.
LoginAnswer ==
    /\ login = "logging"
    /\ given' = given + 1
    /\ session' = given + 1
    /\ sid' = given + 1
    /\ SetHash([hash EXCEPT !.id = given + 1])
    /\ LoggedIn
    /\ UNCHANGED <<listening, shown, polls, budget>>

\* A wrong password, or no answer: the login begins again.
LoginRefused ==
    /\ login = "logging"
    /\ Act
    /\ Login(hash)
    /\ UNCHANGED <<address, listening, shown, polls, loading, boot, session, given, beat>>

\* The router ends the session.
Expire ==
    /\ session # 0
    /\ given < MaxSessions
    /\ Act
    /\ session' = 0
    /\ UNCHANGED <<address, listening, shown, polls, loading, boot, given, sid, beat, login>>

\* load(): everything the page needs is there, and the first view is drawn.
LoadAnswer ==
    /\ boot = "loading"
    /\ boot' = "up"
    /\ listening' = TRUE
    /\ RenderView(IF hash.view \in Menu THEN hash.view ELSE First)
    /\ UNCHANGED <<loading, budget, session, given, sid, beat, login>>

\* The networks could not be read: what waits for them is never called.
LoadLost ==
    /\ boot = "loading"
    /\ Loss
    /\ boot' = "failed"
    /\ UNCHANGED <<address, listening, shown, polls, loading, session, given, sid, beat, login>>
=============================================================================
