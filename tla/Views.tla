------------------------------- MODULE Views -------------------------------
(***************************************************************************)
(* The pages of the interface, ui.js: what the address names is fetched,   *)
(* drawn and, where the page says so, refreshed until the page is left.    *)
(*                                                                         *)
(* A page is an instance of a view, made when its script is fetched for    *)
(* the first time and kept; a draw is one rendering of it.  What the       *)
(* browser does in one go is one action; every fetch answers in its own    *)
(* time.  A choice in the menu and a way through the history of the        *)
(* browser are alike: both change the address.  The browser tells of the   *)
(* change in an event of its own, before it turns to anything else.        *)
(***************************************************************************)
EXTENDS Naturals, Sequences

CONSTANTS
    Menu,           \* the views
    First,          \* the view drawn when the address names none
    Refreshing,     \* views drawn from what is at hand and then refreshed; the
                    \* others ask the router once, before they are drawn
    None,           \* what is not there
    MaxActs,        \* how often the user, the router or the network disturb
    MaxCopies,      \* instances of a view at a time
    MaxDraws,       \* draws at a time
    MaxChains       \* refreshments at a time

VARIABLES
    hash,           \* the address: the view and the session it names
    untold,         \* a change of the address that was not yet told of
    listening,      \* the page hears of changes of the address
    cached,         \* cached[v]: the instance of the view, or None
    current,        \* the instance taken for the one on the screen, or None
    draws,          \* the draws under way: of which view and instance, how far
    page,           \* the views whose templates are on the screen
    drawn,          \* the session of the last draw that came to its end
    timeouts,       \* timeouts[i]: how many timers an instance knows of, or None
    chains,         \* the refreshments under way, one after each repeat()
    loading,        \* the overlay that keeps the user from the page
    overlapped,     \* a page was left before it was drawn or while at work
    spent, lost     \* acts so far; whether an answer was lost

address  == <<hash, untold>>
shown    == <<cached, current, draws, page, drawn, overlapped>>
polls    == <<timeouts, chains>>
budget   == <<spent, lost>>
viewVars == <<address, listening, shown, polls, loading, budget>>

Instances == Menu \X (1 .. MaxCopies)
Stages    == {"script", "template", "data"}

Draw  == [view : Menu, inst : Instances \cup {None}, stage : Stages]
Chain == [inst : Instances, index : Nat, state : {"call", "timer"}, known : BOOLEAN]

ASSUME ViewsAssumption ==
    /\ First \in Menu /\ Refreshing \subseteq Menu
    /\ MaxActs \in Nat /\ MaxCopies \in Nat /\ MaxDraws \in Nat \ {0} /\ MaxChains \in Nat
    /\ None \notin Menu \cup Instances \cup Draw \cup Chain

ViewsInit ==
    /\ untold = FALSE
    /\ listening = FALSE
    /\ cached = [v \in Menu |-> None]
    /\ current = None
    /\ draws = [d \in 1 .. MaxDraws |-> None]
    /\ page = <<>>
    /\ drawn = 0
    /\ timeouts = [i \in Instances |-> None]
    /\ chains = [c \in 1 .. MaxChains |-> None]
    /\ loading = FALSE
    /\ overlapped = FALSE
    /\ spent = 0
    /\ lost = FALSE

Act  == spent < MaxActs /\ spent' = spent + 1 /\ UNCHANGED lost
Loss == spent < MaxActs /\ spent' = spent + 1 /\ lost' = TRUE

\* The address is assigned; an event tells of it when it is another one.
SetHash(h) == hash' = h /\ untold' = (h # hash)

Free(table)    == CHOOSE n \in DOMAIN table : table[n] = None /\ \A m \in 1 .. n - 1 : table[m] # None
Drawing        == \E d \in DOMAIN draws : draws[d] # None
At(d, stage)   == draws[d] # None /\ draws[d].stage = stage
In(c, state)   == chains[c] # None /\ chains[c].state = state
Of(c, i)       == chains[c] # None /\ chains[c].inst = i
Polls(i)       == \E c \in DOMAIN chains : Of(c, i)

-----------------------------------------------------------------------------
(* Refreshments.  A chain knows its place among the timers of the instance *)
(* and whether its timer is the one found there.                           *)

Length(i) == IF timeouts[i] = None THEN 0 ELSE timeouts[i]

\* repeat() of an instance: the first call is made at once.
Repeat(i) ==
    /\ chains' = [chains EXCEPT ![Free(chains)] =
                    [inst |-> i, index |-> Length(i) + 1, state |-> "call", known |-> FALSE]]
    /\ timeouts' = [timeouts EXCEPT ![i] = Length(i)]

\* Mutant of Armed: the timer that another refreshment put there is not forgotten.
ArmedShared(c) ==
    LET i == chains[c].inst
        k == chains[c].index
    IN  /\ chains' = [chains EXCEPT ![c].state = "timer", ![c].known = TRUE]
        /\ timeouts' = [timeouts EXCEPT ![i] = IF k > Length(i) THEN k ELSE @]

Armed(c) ==
    LET i == chains[c].inst
        k == chains[c].index
    IN  /\ chains' = [d \in DOMAIN chains |->
                        IF d = c THEN [chains[c] EXCEPT !.state = "timer", !.known = TRUE]
                        ELSE IF Of(d, i) /\ chains[d].index = k
                        THEN [chains[d] EXCEPT !.known = FALSE] ELSE chains[d]]
        /\ timeouts' = [timeouts EXCEPT ![i] = IF k > Length(i) THEN k ELSE @]

\* Mutant of SetTimer: puts off the next call whether or not the page was left.
SetTimerAlways(c) == Armed(c)

\* The call of a refreshment returned: the next one is put off, unless the
\* page was left meanwhile.
SetTimer(c) ==
    IF timeouts[chains[c].inst] = None
    THEN chains' = [chains EXCEPT ![c] = None] /\ UNCHANGED timeouts
    ELSE Armed(c)

RunTimer(c) ==
    /\ In(c, "timer")
    /\ chains' = [chains EXCEPT ![c].state = "call"]
    /\ UNCHANGED timeouts

\* finish() of the current instance stops the timers the instance knows of.
Finish ==
    IF current = None
    THEN UNCHANGED polls
    ELSE /\ timeouts' = [timeouts EXCEPT ![current] = None]
         /\ chains' = [c \in DOMAIN chains |->
                         IF ~Of(c, current) THEN chains[c]
                         ELSE IF chains[c].known /\ chains[c].state = "timer" THEN None
                         ELSE [chains[c] EXCEPT !.known = FALSE]]

-----------------------------------------------------------------------------
(* Drawing. *)

\* Mutant of RenderView: draws over what is on the screen.
RenderOver(v) ==
    /\ Finish
    /\ SetHash([hash EXCEPT !.view = v])
    /\ draws' = [draws EXCEPT ![Free(draws)] =
                    [view |-> v, inst |-> cached[v],
                     stage |-> IF cached[v] = None THEN "script" ELSE "template"]]
    /\ current' = IF cached[v] = None THEN current ELSE cached[v]
    /\ overlapped' = (overlapped \/ Drawing)
    /\ UNCHANGED <<cached, drawn, page>>

\* renderView(): an instance made before is drawn, else the script is fetched.
RenderView(v) ==
    /\ Finish
    /\ SetHash([hash EXCEPT !.view = v])
    /\ draws' = [draws EXCEPT ![Free(draws)] =
                    [view |-> v, inst |-> cached[v],
                     stage |-> IF cached[v] = None THEN "script" ELSE "template"]]
    /\ current' = IF cached[v] = None THEN current ELSE cached[v]
    /\ page' = IF cached[v] = None THEN page ELSE <<>>
    /\ overlapped' = (overlapped \/ Drawing)
    /\ UNCHANGED <<cached, drawn>>

\* The user chooses a view, in the menu or in the history of the browser.
Choose(v) ==
    /\ listening
    /\ v # hash.view
    /\ Act
    /\ SetHash([hash EXCEPT !.view = v])
    /\ UNCHANGED <<listening, shown, polls, loading>>

\* The event that the address changed: changeView(), once anyone listens.
HashChange ==
    /\ untold
    /\ IF listening
       THEN RenderView(IF hash.view \in Menu THEN hash.view ELSE First) /\ loading' = TRUE
       ELSE untold' = FALSE /\ UNCHANGED <<hash, shown, polls, loading>>
    /\ UNCHANGED <<listening, budget>>

InUse(i) ==
    \/ i \in {cached[i[1]], current}
    \/ Polls(i)
    \/ \E d \in DOMAIN draws : draws[d] # None /\ draws[d].inst = i

\* The first instance of a view that nothing knows of any more, if there is one.
Unused(v) == {i \in Instances :
                 i[1] = v /\ ~InUse(i) /\ \A k \in 1 .. i[2] - 1 : InUse(<<v, k>>)}

\* The script of a view is there: an instance is made and its drawing begins.
ScriptAnswer(d) ==
    /\ At(d, "script")
    /\ \E i \in Unused(draws[d].view) :
           /\ cached' = [cached EXCEPT ![draws[d].view] = i]
           /\ current' = i
           /\ draws' = [draws EXCEPT ![d].inst = i, ![d].stage = "template"]
           /\ timeouts' = [timeouts EXCEPT ![i] = None]
    /\ page' = <<>>
    /\ UNCHANGED <<address, listening, chains, drawn, loading, overlapped, budget>>

\* The view executes to its end under session s, and the overlay is taken away.
Execute(d, s) ==
    /\ draws' = [draws EXCEPT ![d] = None]
    /\ drawn' = s
    /\ IF draws[d].view \in Refreshing THEN Repeat(draws[d].inst) ELSE UNCHANGED polls
    /\ loading' = FALSE

\* A view whose data is at hand executes at once, unless that throws.
TemplateAnswer(d, s, throws) ==
    /\ At(d, "template")
    /\ page' = Append(page, draws[d].view)
    /\ IF throws
       THEN draws' = [draws EXCEPT ![d] = None] /\ UNCHANGED <<drawn, polls, loading>>
       ELSE IF draws[d].view \in Refreshing
       THEN Execute(d, s)
       ELSE draws' = [draws EXCEPT ![d].stage = "data"] /\ UNCHANGED <<drawn, polls, loading>>
    /\ UNCHANGED <<address, listening, cached, current, overlapped, budget>>

DataAnswer(d, s) ==
    /\ At(d, "data")
    /\ Execute(d, s)
    /\ UNCHANGED <<address, listening, cached, current, page, overlapped, budget>>

\* A script or a template could not be fetched: nothing more is done.
FetchLost(d) ==
    /\ At(d, "script") \/ At(d, "template")
    /\ Loss
    /\ draws' = [draws EXCEPT ![d] = None]
    /\ UNCHANGED <<address, listening, cached, current, page, drawn, polls, loading, overlapped>>
=============================================================================
