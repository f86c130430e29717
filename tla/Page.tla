-------------------------------- MODULE Page --------------------------------
(***************************************************************************)
(* The interface in a browser: the session (Session), the pages (Views)    *)
(* and, as the page whose refreshments and operations share most with the  *)
(* others, that of the interfaces (Interfaces).                            *)
(***************************************************************************)
EXTENDS Interfaces

vars == <<viewVars, sessionVars, interfacesVars>>

Init == ViewsInit /\ SessionInit /\ InterfacesInit

-----------------------------------------------------------------------------
(* Drawing, of the page of the interfaces and of one with calls of its own. *)

Template(d) ==
    LET here   == draws[d].view \in Refreshing
        throws == here /\ ~Showable(ifstate, devstate, objects)
    IN  /\ TemplateAnswer(d, sid, throws)
        /\ IF here /\ ~throws THEN Contents(draws[d].inst, objects) ELSE UNCHANGED <<asked, view>>
        /\ UNCHANGED <<router, names, edits, network, ops, sessionVars>>

Fetch(d) ==
    \/ Template(d)
    \/ (ScriptAnswer(d) \/ DataAnswer(d, sid)) /\ UNCHANGED <<sessionVars, interfacesVars>>

Refresh(c) ==
    \/ RunRefresh(c)
    \/ SetAnswer(c)
    \/ StatusAnswer(c)

Operation(o) ==
    \/ SaveAnswer(o)
    \/ ChangesAnswer(o)
    \/ ApplyAnswer(o)
    \/ ConfirmAnswer(o)
    \/ UpdateAnswer(o)
    \/ ProtocolsAnswer(o)

LoginStep == BeatAnswer \/ CheckAnswer \/ LoginAnswer \/ LoadAnswer

User ==
    \/ \E v \in Menu : Choose(v) /\ UNCHANGED <<sessionVars, interfacesVars>>
    \/ (Submit \/ Cancel) /\ UNCHANGED interfacesVars
    \/ \E way \in Ways, n \in Names : Press(way, n)
    \/ \E i \in Instances, way \in {"add", "remove"}, n \in Names : Confirm(i, way, n)

Faults ==
    \/ \E d \in DOMAIN draws : FetchLost(d) /\ UNCHANGED <<sessionVars, interfacesVars>>
    \/ (BeatLost \/ CheckLost \/ LoginRefused \/ Expire \/ LoadLost) /\ UNCHANGED interfacesVars
    \/ \E c \in DOMAIN chains : StatusLost(c)
    \/ \E o \in DOMAIN ops : SaveLost(o) \/ ApplyLost(o) \/ ConfirmLost(o) \/ UpdateLost(o)
    \/ Rollback

Next ==
    \/ HashChange /\ UNCHANGED <<sessionVars, interfacesVars>>
    \/ /\ ~untold
       /\ \/ \E d \in DOMAIN draws : Fetch(d)
          \/ \E c \in DOMAIN chains : Refresh(c)
          \/ LoginStep /\ UNCHANGED interfacesVars
          \/ \E o \in DOMAIN ops : Operation(o)
          \/ User
          \/ Faults

\* The browser tells of every change and lets every timer run out, and every
\* call is answered or times out, which the actions of Faults are.
Work ==
    \/ HashChange /\ UNCHANGED <<sessionVars, interfacesVars>>
    \/ \E d \in DOMAIN draws : Fetch(d)
    \/ LoginStep /\ UNCHANGED interfacesVars
    \/ \E o \in DOMAIN ops : Operation(o)

Fairness ==
    /\ WF_vars(Work)
    /\ \A c \in 1 .. MaxChains : WF_vars(Refresh(c))

Spec == Init /\ [][Next]_vars /\ Fairness
-----------------------------------------------------------------------------
(* Every variable keeps its type; only a refreshment under way waits for   *)
(* answers, and the timer of one that is known to a page is the only one   *)
(* in its place.                                                           *)
PageTypeOK ==
    /\ hash \in [view : Menu \cup {None}, id : 0 .. given]
    /\ cached \in [Menu -> Instances \cup {None}]
    /\ current \in Instances \cup {None}
    /\ page \in Seq(Menu)
    /\ timeouts \in [Instances -> Nat \cup {None}]
    /\ running \subseteq Names /\ rows \subseteq Names /\ objects \subseteq Names
    /\ \A c \in DOMAIN chains : asked[c] # None <=> In(c, "call")
    /\ \A c, d \in DOMAIN chains :
          /\ chains[c] # None /\ chains[d] # None /\ c # d
          /\ chains[c].inst = chains[d].inst /\ chains[c].index = chains[d].index
          => ~(chains[c].known /\ chains[d].known)

(* There is always someone to notice the end of the session: either the    *)
(* heartbeat runs, or one login is under way, unless the user took the     *)
(* login away (session.js, login of ui.js).                                *)
Watched == beat <=> (login = "none")

(* Whatever still refreshes a page that was left stops after the next call *)
(* it makes, however often the page was left and returned to, unless one   *)
(* was left before it was drawn or while it was at work (repeat and finish *)
(* of ui.js).  Two refreshments may share a place among the timers, and    *)
(* then only one of them is stopped at once.                               *)
LeftIsQuiet ==
    \A i \in Instances : Polls(i) /\ i # current => timeouts[i] = None \/ overlapped

(* Once every draw has come to its end, the view that the address names is *)
(* on the screen, alone, it is the one taken for current and it was drawn  *)
(* for the session that the page uses, unless an answer was lost or two    *)
(* draws overlapped (changeView and renderView of ui.js).                  *)
Still == boot = "up" /\ ~untold /\ ~Drawing /\ ~lost /\ ~overlapped

Settled == Still => page = <<hash.view>> /\ current = cached[hash.view]

RedrawnAfterLogin == Still /\ login = "none" => drawn = sid

(* Whatever else happens the overlay does not stay, unless an answer was   *)
(* lost: what takes it away is often another than who put it there.        *)
OverlayEnds == (boot = "up" /\ loading) ~> (~loading \/ lost)

(* What the user asked of an interface is called while the page stays,     *)
(* though refreshments die when the networks are updated under them.       *)
OnNetworks == current # None /\ current[1] = Networks

AskedIsCalled ==
    (pending # {}) ~> (pending = {} \/ ~OnNetworks \/ lost)

(* The router never takes back what the page has reported as applied, but  *)
(* where an operation that it has not reported asked for the same again    *)
(* (apply of uci.js; the confirmation that one operation asks for may meet *)
(* what another had applied, and edits may be sent twice).                 *)
Reported(o)    == ops[o].stage \in {"update", "protocols", "done", "stuck"}
Asks(o)        == <<ops[o].way, ops[o].name>>
InForce(e, nets) == (e[2] \in nets) <=> (e[1] = "add")

ReportedStays ==
    [][ (kept # None /\ kept' = None /\ running' # running) =>
            \A o \in DOMAIN ops : Reported(o) /\ InForce(Asks(o), running) =>
                \/ InForce(Asks(o), running')
                \/ \E p \in DOMAIN ops : ~Reported(p) /\ Asks(o) \in ops[p].batch ]_vars
=============================================================================
