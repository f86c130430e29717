----------------------------- MODULE Interfaces -----------------------------
(***************************************************************************)
(* The page of the interfaces, network.interfaces.js, with the networks of *)
(* network.js it shows and refreshes and the apply() of uci.js.  It adds   *)
(* and removes interfaces, queues restarts and shutdowns for its next      *)
(* refreshment, and takes the overlay away with every refreshment.         *)
(*                                                                         *)
(* The networks are kept for all pages.  An update forgets them and reads  *)
(* them again while refreshments are under way; a callback that meets what *)
(* an update forgot throws, and what waits for it is never called.  The    *)
(* router is one with a switch.                                            *)
(*                                                                         *)
(* A router told to apply goes back to what it was unless the page         *)
(* confirms in time (rpcd, which is not part of the repository).           *)
(***************************************************************************)
EXTENDS Session, SequencesExt

CONSTANTS
    Networks,       \* the view of the interfaces
    Names,          \* names of interfaces
    Initial,        \* the interfaces at the start
    Ways            \* what the user may ask of one: "up", "down"

Kept == [nets : SUBSET Names, sid : Nat]
Op   == [inst : Instances, way : {"add", "remove"}, name : Names,
         batch : SUBSET ({"add", "remove"} \X Names),
         stage : {"save", "changes", "unchanged", "apply", "refused", "confirm", "update",
                  "protocols", "done", "stuck"}]

ASSUME InterfacesAssumption ==
    /\ Networks \in Refreshing
    /\ Initial \subseteq Names
    /\ None \notin Kept \cup {"set", "status"}

VARIABLES
    running,        \* the interfaces the router runs
    staged,         \* edits the router holds and does not run
    kept,           \* what an apply goes back to and whose it is, or None
    missed,         \* a confirmation of that apply was missed
    names,          \* the interface sections uci.js holds, as read
    edits,          \* edits of them that are not saved
    cache,          \* rpcCache: "empty" or "full"
    handlers,       \* the protocol handlers are loaded
    ifstate,        \* whether the last answer on the interfaces is known
    devstate,       \* whether the last answer on the devices is known
    objects,        \* interfaceObjects
    table,          \* the instance that drew the table last
    rows,           \* the interfaces in that table
    pending,        \* pendingRestart and pendingShutdown
    asked,          \* asked[c]: what a refreshment waits for, or None
    ops             \* the interfaces being added and removed

router         == <<running, staged, kept, missed>>
network        == <<cache, handlers, ifstate, devstate, objects>>
view           == <<table, rows, pending>>
interfacesVars == <<router, names, edits, network, view, asked, ops>>

InterfacesInit ==
    /\ running = Initial
    /\ staged = {}
    /\ kept = None
    /\ missed = FALSE
    /\ names = Initial
    /\ edits = {}
    /\ cache = "full"
    /\ handlers = TRUE
    /\ ifstate = TRUE
    /\ devstate = TRUE
    /\ objects = Initial
    /\ table = None
    /\ rows = {}
    /\ pending = {}
    /\ asked = [c \in 1 .. MaxChains |-> None]
    /\ ops = <<>>

Edited(S, es) == (S \ {n \in Names : <<"remove", n>> \in es}) \cup {n \in Names : <<"add", n>> \in es}
Saved         == Edited(running, staged)

\* A router that holds no session for a call gives none of what was asked.
Answer(set) == IF Alive THEN set ELSE {}

\* The interfaces that are configured or running, as the page gets to know.
Found == Edited(names, edits) \cup Answer(running)

\* What is shown of interfaces is looked up in the last answers.
Showable(state, dev, objs) == objs = {} \/ (state /\ dev)

-----------------------------------------------------------------------------
(* Refreshments: refreshNetworkStatus(). *)

FirstAsked == IF pending # {} THEN "set" ELSE "status"

\* Mutant of RunRefresh: forgets to make the calls that were queued.
RunRefreshIdle(c) ==
    /\ In(c, "timer")
    /\ asked' = [asked EXCEPT ![c] = "status"]
    /\ RunTimer(c)
    /\ UNCHANGED <<address, listening, shown, loading, budget, sessionVars>>
    /\ UNCHANGED <<router, names, edits, network, view, ops>>

\* A call of a refreshment is made: it takes all that the user queued.
RunRefresh(c) ==
    /\ In(c, "timer")
    /\ asked' = [asked EXCEPT ![c] = FirstAsked]
    /\ pending' = {}
    /\ RunTimer(c)
    /\ UNCHANGED <<address, listening, shown, loading, budget, sessionVars>>
    /\ UNCHANGED <<router, names, edits, network, table, rows, ops>>

\* renderContents(): the table shows the networks, and one more refreshment is
\* set going whose first call takes all that the user queued.
Contents(i, objs) ==
    /\ table' = i
    /\ rows' = objs
    /\ asked' = [asked EXCEPT ![Free(chains)] = FirstAsked]
    /\ pending' = {}

Waits(c, what) == what = asked[c]

\* A callback threw: neither the next callback nor the next timer follows.
Thrown(c) ==
    /\ asked' = [asked EXCEPT ![c] = None]
    /\ chains' = [chains EXCEPT ![c] = None]
    /\ UNCHANGED <<timeouts, loading>>

\* Mutant of Shown: leaves the overlay to whoever put it there.
ShownCovered(c) ==
    /\ asked' = [asked EXCEPT ![c] = None]
    /\ SetTimer(c)
    /\ UNCHANGED loading

\* The refreshment shows the new state and takes away whatever overlay there is.
Shown(c) ==
    /\ asked' = [asked EXCEPT ![c] = None]
    /\ SetTimer(c)
    /\ loading' = FALSE

SetAnswer(c) ==
    /\ Waits(c, "set")
    /\ asked' = [asked EXCEPT ![c] = "status"]
    /\ UNCHANGED <<viewVars, sessionVars>>
    /\ UNCHANGED <<router, names, edits, network, view, ops>>

\* The callback for the devices looks up the states of the switch, which an
\* update forgot, and that for the interfaces the protocols of all of them.
StatusAnswer(c) ==
    /\ Waits(c, "status")
    /\ devstate' = TRUE
    /\ ifstate' = TRUE
    /\ objects' = IF handlers THEN objects \cup Found ELSE objects
    /\ IF cache = "full" /\ (handlers \/ Found = {}) THEN Shown(c) ELSE Thrown(c)
    /\ UNCHANGED <<address, listening, shown, budget, sessionVars>>
    /\ UNCHANGED <<router, names, edits, cache, handlers, view, ops>>

\* Without an answer there is no list to go through.
StatusLost(c) ==
    /\ Waits(c, "status")
    /\ Loss
    /\ \/ ifstate' = FALSE /\ UNCHANGED devstate
       \/ devstate' = FALSE /\ UNCHANGED ifstate
    /\ Thrown(c)
    /\ UNCHANGED <<address, listening, shown, sessionVars>>
    /\ UNCHANGED <<router, names, edits, cache, handlers, objects, view, ops>>

-----------------------------------------------------------------------------
(* The user. *)

\* The table of the page is on the screen, drawn by instance i.
Here(i) == Networks \in ToSet(page) /\ table = i

\* handleIfup(), handleIfdown(): done with the next refreshment.
Press(way, n) ==
    /\ Here(table)
    /\ ~loading
    /\ n \in rows
    /\ <<way, n>> \notin pending
    /\ Act
    /\ pending' = pending \cup {<<way, n>>}
    /\ UNCHANGED <<address, listening, shown, polls, loading, sessionVars>>
    /\ UNCHANGED <<router, names, edits, network, table, rows, asked, ops>>

\* handleAdd(), handleRemove(): the edit is made and sent with all unsaved ones.
Confirm(i, way, n) ==
    /\ Here(i)
    /\ ~loading
    /\ IF way = "add" THEN n \notin objects ELSE n \in rows
    /\ \A o \in DOMAIN ops : ops[o].name = n => ops[o].stage \in {"unchanged", "refused", "done", "stuck"}
    /\ Act
    /\ loading' = TRUE
    /\ edits' = edits \cup {<<way, n>>}
    /\ ops' = Append(ops, [inst |-> i, way |-> way, name |-> n, batch |-> edits', stage |-> "save"])
    /\ UNCHANGED <<address, listening, shown, polls, sessionVars>>
    /\ UNCHANGED <<router, names, network, view, asked>>

-----------------------------------------------------------------------------
(* Saving and applying. *)

Becomes(o, stage) == ops' = [ops EXCEPT ![o].stage = stage]

\* The router takes those edits of a batch that change something.
Taken(es) == staged \cup {e \in es : IF e[1] = "add" THEN e[2] \notin Saved ELSE e[2] \in Saved}

\* save(): the edits are gone, and the package is read again in any case.
Store(o, taken) ==
    /\ ops[o].stage = "save"
    /\ staged' = taken
    /\ names' = Answer(Edited(running, taken))
    /\ edits' = {}
    /\ Becomes(o, "changes")
    /\ UNCHANGED <<address, listening, shown, polls, loading, sessionVars>>
    /\ UNCHANGED <<running, kept, missed, network, view, asked>>

SaveAnswer(o) == Store(o, IF Alive THEN Taken(ops[o].batch) ELSE staged) /\ UNCHANGED budget
SaveLost(o)   == Store(o, staged) /\ Loss

\* Nothing is applied when nothing is staged, and nobody is told.
ChangesAnswer(o) ==
    /\ ops[o].stage = "changes"
    /\ Becomes(o, IF Answer(staged) = {} THEN "unchanged" ELSE "apply")
    /\ UNCHANGED <<viewVars, sessionVars>>
    /\ UNCHANGED <<router, names, edits, network, view, asked>>

\* apply(): the router runs what was staged, if it is not applying already.
Apply(heard) ==
    IF Alive /\ kept = None
    THEN /\ kept' = [nets |-> running, sid |-> sid]
         /\ running' = Saved
         /\ staged' = {}
         /\ missed' = ~heard
    ELSE UNCHANGED router

\* Mutant of ApplyAnswer: reports what was not yet confirmed.
ApplyUnconfirmed(o) ==
    /\ ops[o].stage = "apply"
    /\ Apply(TRUE)
    /\ Becomes(o, IF Alive /\ kept = None THEN "protocols" ELSE "refused")
    /\ UNCHANGED <<viewVars, sessionVars>>
    /\ UNCHANGED <<names, edits, network, view, asked>>

ApplyAnswer(o) ==
    /\ ops[o].stage = "apply"
    /\ Apply(TRUE)
    /\ Becomes(o, IF Alive /\ kept = None THEN "confirm" ELSE "refused")
    /\ UNCHANGED <<viewVars, sessionVars>>
    /\ UNCHANGED <<names, edits, network, view, asked>>

ApplyLost(o) ==
    /\ ops[o].stage = "apply"
    /\ Loss
    /\ Apply(FALSE)
    /\ Becomes(o, "refused")
    /\ UNCHANGED <<address, listening, shown, polls, loading, sessionVars>>
    /\ UNCHANGED <<names, edits, network, view, asked>>

\* The confirmation is asked for until the router gives it, whatever it says;
\* then the networks are forgotten and asked for: update().
Confirmable == Alive /\ kept # None /\ kept.sid = sid

ConfirmAnswer(o) ==
    /\ ops[o].stage = "confirm"
    /\ Confirmable
    /\ kept' = None
    /\ cache' = "empty"
    /\ handlers' = FALSE
    /\ ifstate' = FALSE
    /\ devstate' = FALSE
    /\ objects' = {}
    /\ Becomes(o, "update")
    /\ UNCHANGED <<viewVars, sessionVars>>
    /\ UNCHANGED <<running, staged, missed, names, edits, view, asked>>

\* The router does not hear the confirmation, or the page does not hear the answer.
ConfirmLost(o) ==
    /\ ops[o].stage = "confirm"
    /\ Loss
    /\ missed' = TRUE
    /\ kept' \in (IF Confirmable THEN {kept, None} ELSE {kept})
    /\ UNCHANGED <<address, listening, shown, polls, loading, sessionVars>>
    /\ UNCHANGED <<running, staged, names, edits, network, view, asked, ops>>

\* The router was not confirmed in time and goes back.
Rollback ==
    /\ kept # None
    /\ missed \/ session # kept.sid
    /\ running' = kept.nets
    /\ kept' = None
    /\ UNCHANGED <<viewVars, sessionVars>>
    /\ UNCHANGED <<staged, missed, names, edits, network, view, asked, ops>>

\* update() continued: the networks, then the protocols, are there.
UpdateAnswer(o) ==
    /\ ops[o].stage = "update"
    /\ cache' = "full"
    /\ ifstate' = TRUE
    /\ devstate' = TRUE
    /\ Becomes(o, "protocols")
    /\ UNCHANGED <<viewVars, sessionVars>>
    /\ UNCHANGED <<router, names, edits, handlers, objects, view, asked>>

UpdateLost(o) ==
    /\ ops[o].stage = "update"
    /\ Loss
    /\ cache' = "empty"
    /\ ifstate' = FALSE
    /\ devstate' = FALSE
    /\ Becomes(o, "stuck")
    /\ UNCHANGED <<address, listening, shown, polls, loading, sessionVars>>
    /\ UNCHANGED <<router, names, edits, handlers, objects, view, asked>>

\* The devices and the interfaces are made, and the page draws its table anew.
ProtocolsAnswer(o) ==
    /\ ops[o].stage = "protocols"
    /\ handlers' = TRUE
    /\ IF cache = "full" /\ ifstate /\ devstate
       THEN /\ objects' = objects \cup Found
            /\ Contents(ops[o].inst, objects')
            /\ Repeat(ops[o].inst)
            /\ loading' = FALSE
            /\ overlapped' = (overlapped \/ Drawing \/ ops[o].inst # current)
            /\ Becomes(o, "done")
       ELSE /\ Becomes(o, "stuck")
            /\ UNCHANGED <<objects, view, asked, polls, loading, overlapped>>
    /\ UNCHANGED <<address, listening, cached, current, draws, page, drawn, budget, sessionVars>>
    /\ UNCHANGED <<router, names, edits, cache, ifstate, devstate>>
=============================================================================
