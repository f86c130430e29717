---------------------------- MODULE Page_proofs ----------------------------
(***************************************************************************)
(* What holds of the interface in a browser for any views, interfaces and  *)
(* bounds: that somebody always watches the session, what is on the screen *)
(* once all is drawn and for whom, that pages that were left fall quiet,   *)
(* and that the router keeps what was reported as applied.                 *)
(***************************************************************************)
EXTENDS Page, TLAPS

\* A new login is no state of rest.
LEMMA LoginBegins ==
    ASSUME NEW h, Login(h) PROVE login' # "none"
BY DEF Login

\* Drawing, refreshing and operating leave the session to itself.
LEMMA FetchKeeps ==
    ASSUME NEW d, Fetch(d) PROVE UNCHANGED <<beat, login>>
BY Zenon DEF Fetch, Template, sessionVars

LEMMA RefreshKeeps ==
    ASSUME NEW c, Refresh(c) PROVE UNCHANGED <<beat, login>>
BY Zenon DEF Refresh, RunRefresh, SetAnswer, StatusAnswer, sessionVars

LEMMA OperationKeeps ==
    ASSUME NEW o, Operation(o) PROVE UNCHANGED <<beat, login>>
BY Zenon DEF Operation, SaveAnswer, Store, ChangesAnswer, ApplyAnswer, ConfirmAnswer, UpdateAnswer,
    ProtocolsAnswer, sessionVars

\* Of the disturbances only those of the login itself do not.
SessionFault == BeatLost \/ CheckLost \/ LoginRefused \/ Expire \/ LoadLost

LEMMA FaultsKeep ==
    ASSUME Faults, ~SessionFault PROVE UNCHANGED <<beat, login>>
BY Zenon DEF Faults, SessionFault, StatusLost, SaveLost, Store, ApplyLost, ConfirmLost, UpdateLost,
    Rollback, sessionVars

LEMMA UserKeeps ==
    ASSUME User, ~Submit, ~Cancel PROVE UNCHANGED <<beat, login>>
BY Zenon DEF User, Press, Confirm, sessionVars

\* The heartbeat stops as the login begins, and starts as it ends.
LEMMA LoginGuards ==
    ASSUME Watched,
           LoginStep \/ SessionFault \/ Submit \/ Cancel
    PROVE  Watched'
<1>1. ASSUME NEW alive, Beat(alive) PROVE Watched'
  BY <1>1, LoginBegins DEF Beat, Watched
<1>2. ASSUME NEW alive, Checked(alive) PROVE Watched'
  <2>1. CASE alive
    BY <1>2, <2>1 DEF Checked, LoggedIn, Watched
  <2>2. CASE ~alive
    BY <1>2, <2>2 DEF Checked, Watched
  <2> QED
    BY <2>1, <2>2
<1>3. CASE BeatAnswer \/ BeatLost
  BY <1>1, <1>3 DEF BeatAnswer, BeatLost
<1>4. CASE CheckAnswer \/ CheckLost
  BY <1>2, <1>4 DEF CheckAnswer, CheckLost
<1>5. CASE LoginAnswer
  BY <1>5 DEF LoginAnswer, LoggedIn, Watched
<1>6. CASE Submit \/ Cancel
  BY <1>6 DEF Submit, Cancel, Watched
<1>7. CASE LoginRefused
  BY <1>7, LoginBegins DEF LoginRefused, Watched
<1>8. CASE LoadAnswer \/ LoadLost \/ Expire
  BY <1>8 DEF LoadAnswer, LoadLost, Expire, Watched
<1> QED
  BY <1>3, <1>4, <1>5, <1>6, <1>7, <1>8 DEF LoginStep, SessionFault

LEMMA WatchedStart == Init => Watched
BY DEF Init, SessionInit, Watched

LEMMA WatchedStep ==
    ASSUME Watched, [Next]_vars PROVE Watched'
<1>1. CASE UNCHANGED <<beat, login>>
  BY <1>1 DEF Watched
<1>2. CASE LoginStep \/ SessionFault \/ Submit \/ Cancel
  BY <1>2, LoginGuards
<1>3. CASE Next /\ ~(LoginStep \/ SessionFault \/ Submit \/ Cancel)
  <2>1. CASE HashChange /\ UNCHANGED <<sessionVars, interfacesVars>>
    BY <2>1, <1>1 DEF sessionVars
  <2>2. CASE \E d \in DOMAIN draws : Fetch(d)
    BY <2>2, <1>1, FetchKeeps
  <2>3. CASE \E c \in DOMAIN chains : Refresh(c)
    BY <2>3, <1>1, RefreshKeeps
  <2>4. CASE \E o \in DOMAIN ops : Operation(o)
    BY <2>4, <1>1, OperationKeeps
  <2>5. CASE User
    BY <2>5, <1>3, <1>1, UserKeeps
  <2>6. CASE Faults
    BY <2>6, <1>3, <1>1, FaultsKeep
  <2> QED
    BY <1>3, <2>1, <2>2, <2>3, <2>4, <2>5, <2>6 DEF Next
<1>4. CASE UNCHANGED vars
  BY <1>4, <1>1 DEF vars, sessionVars
<1> QED
  BY <1>2, <1>3, <1>4

\* Somebody always watches the session: the heartbeat of session.js or one
\* login of ui.js, whatever is lost, refused, ended or left meanwhile.
THEOREM SessionWatched == Spec => []Watched
BY WatchedStart, WatchedStep, PTL DEF Spec

-----------------------------------------------------------------------------
(* Which steps change what. *)

Elsewhere == UNCHANGED <<sessionVars, interfacesVars>>

Told       == HashChange /\ Elsewhere
Script(d)  == ScriptAnswer(d) /\ Elsewhere
Data(d)    == DataAnswer(d, sid) /\ Elsewhere
Unfound(d) == FetchLost(d) /\ Elsewhere
Chosen(v)  == Choose(v) /\ Elsewhere

SessionStep == (LoginStep \/ SessionFault \/ Submit \/ Cancel) /\ UNCHANGED interfacesVars

\* What draws a page or ends a draw.
DrawStep ==
    \/ Told /\ listening
    \/ LoadAnswer /\ UNCHANGED interfacesVars
    \/ \E d \in DOMAIN draws : Template(d) \/ Script(d) \/ Data(d) \/ Unfound(d)

\* What makes a refreshment go on, or end.
PollStep ==
    \/ DrawStep
    \/ \E c \in DOMAIN chains : RunRefresh(c) \/ StatusAnswer(c) \/ StatusLost(c)
    \/ \E o \in DOMAIN ops : ProtocolsAnswer(o)

AddressStep ==
    \/ Told
    \/ \E v \in Menu : Chosen(v)
    \/ (LoadAnswer \/ CheckAnswer \/ CheckLost \/ LoginAnswer) /\ UNCHANGED interfacesVars

LEMMA SomeStep ==
    ASSUME [Next]_vars
    PROVE  \/ Told
           \/ \E d \in DOMAIN draws : Template(d)
           \/ \E d \in DOMAIN draws : Script(d) \/ Data(d) \/ Unfound(d)
           \/ \E c \in DOMAIN chains : RunRefresh(c) \/ SetAnswer(c) \/ StatusAnswer(c) \/ StatusLost(c)
           \/ SessionStep
           \/ \E o \in DOMAIN ops : SaveAnswer(o) \/ SaveLost(o) \/ ChangesAnswer(o) \/ ApplyAnswer(o)
                  \/ ApplyLost(o) \/ ConfirmAnswer(o) \/ ConfirmLost(o) \/ UpdateAnswer(o) \/ UpdateLost(o)
           \/ \E o \in DOMAIN ops : ProtocolsAnswer(o)
           \/ \E v \in Menu : Chosen(v)
           \/ \E way \in Ways, n \in Names : Press(way, n)
           \/ \E i \in Instances, way \in {"add", "remove"}, n \in Names : Confirm(i, way, n)
           \/ Rollback
           \/ UNCHANGED vars
<1>1. CASE UNCHANGED vars
  BY <1>1
<1>2. CASE \E d \in DOMAIN draws : Fetch(d)
  BY Zenon, <1>2 DEF Fetch, Script, Data, Elsewhere
<1>3. CASE \E c \in DOMAIN chains : Refresh(c)
  BY Zenon, <1>3 DEF Refresh
<1>4. CASE LoginStep /\ UNCHANGED interfacesVars
  BY <1>4 DEF SessionStep
<1>5. CASE \E o \in DOMAIN ops : Operation(o)
  BY Zenon, <1>5 DEF Operation
<1>6. CASE User
  BY Zenon, <1>6 DEF User, SessionStep, Chosen, Elsewhere
<1>7. CASE Faults
  BY Zenon, <1>7 DEF Faults, SessionStep, SessionFault, Unfound, Elsewhere
<1>8. CASE HashChange /\ UNCHANGED <<sessionVars, interfacesVars>>
  BY <1>8 DEF Told, Elsewhere
<1> QED
  BY <1>1, <1>2, <1>3, <1>4, <1>5, <1>6, <1>7, <1>8 DEF Next

LEMMA OperationFrame ==
    ASSUME NEW o, \/ SaveAnswer(o) \/ SaveLost(o) \/ ChangesAnswer(o) \/ ApplyAnswer(o) \/ ApplyLost(o)
                  \/ ConfirmAnswer(o) \/ ConfirmLost(o) \/ UpdateAnswer(o) \/ UpdateLost(o)
    PROVE  /\ UNCHANGED <<address, listening, shown, polls, loading, sessionVars>>
           /\ UNCHANGED <<table, rows, pending, asked>>
           /\ lost' \in {lost, TRUE}
<1>1. CASE SaveAnswer(o)
  BY <1>1 DEF SaveAnswer, Store, view, budget
<1>2. CASE SaveLost(o)
  BY <1>2 DEF SaveLost, Store, view, Loss
<1>3. CASE ChangesAnswer(o)
  BY <1>3 DEF ChangesAnswer, viewVars, view, budget
<1>4. CASE ApplyAnswer(o)
  BY <1>4 DEF ApplyAnswer, viewVars, view, budget
<1>5. CASE ApplyLost(o)
  BY <1>5 DEF ApplyLost, view, Loss
<1>6. CASE ConfirmAnswer(o)
  BY <1>6 DEF ConfirmAnswer, viewVars, view, budget
<1>7. CASE ConfirmLost(o)
  BY <1>7 DEF ConfirmLost, view, Loss
<1>8. CASE UpdateAnswer(o)
  BY <1>8 DEF UpdateAnswer, viewVars, view, budget
<1>9. CASE UpdateLost(o)
  BY <1>9 DEF UpdateLost, view, Loss
<1> QED
  BY <1>1, <1>2, <1>3, <1>4, <1>5, <1>6, <1>7, <1>8, <1>9

\* Every step but the ones named leaves these alone.
LEMMA DrawFrame ==
    ASSUME [Next]_vars, ~DrawStep
    PROVE  /\ UNCHANGED <<cached, current, draws, page, drawn>>
           /\ lost' \in {lost, TRUE}
           /\ UNCHANGED overlapped \/ \E o \in DOMAIN ops : ProtocolsAnswer(o)
<1>1. CASE Told
  BY <1>1 DEF DrawStep, Told, HashChange, shown, budget
<1>2. CASE \E c \in DOMAIN chains : RunRefresh(c) \/ SetAnswer(c) \/ StatusAnswer(c) \/ StatusLost(c)
  BY <1>2 DEF RunRefresh, SetAnswer, StatusAnswer, StatusLost, viewVars, shown, budget, Loss
<1>3. CASE SessionStep
  <2>1. CASE BeatAnswer \/ BeatLost
    BY <2>1 DEF BeatAnswer, BeatLost, Beat, shown, budget, Loss
  <2>2. CASE CheckAnswer \/ CheckLost
    BY <2>2 DEF CheckAnswer, CheckLost, Checked, shown, budget, Loss
  <2>3. CASE LoginAnswer \/ LoginRefused \/ Expire
    BY <2>3 DEF LoginAnswer, LoginRefused, Expire, shown, budget, Act
  <2>4. CASE Submit \/ Cancel \/ LoadLost
    BY <2>4 DEF Submit, Cancel, LoadLost, viewVars, shown, budget, Act, Loss
  <2> QED
    BY <1>3, <2>1, <2>2, <2>3, <2>4 DEF SessionStep, LoginStep, SessionFault, DrawStep
<1>4. CASE \E o \in DOMAIN ops : SaveAnswer(o) \/ SaveLost(o) \/ ChangesAnswer(o) \/ ApplyAnswer(o)
             \/ ApplyLost(o) \/ ConfirmAnswer(o) \/ ConfirmLost(o) \/ UpdateAnswer(o) \/ UpdateLost(o)
  BY <1>4, OperationFrame DEF shown
<1>5. CASE \E o \in DOMAIN ops : ProtocolsAnswer(o)
  BY <1>5 DEF ProtocolsAnswer, budget
<1>6. CASE \E v \in Menu : Chosen(v)
  BY <1>6 DEF Chosen, Choose, shown, Act
<1>7. CASE \E way \in Ways, n \in Names : Press(way, n)
  BY <1>7 DEF Press, shown, Act
<1>8. CASE \E i \in Instances, way \in {"add", "remove"}, n \in Names : Confirm(i, way, n)
  BY <1>8 DEF Confirm, shown, Act
<1>9. CASE Rollback \/ UNCHANGED vars
  BY <1>9 DEF Rollback, vars, viewVars, shown, budget
<1> QED
  BY <1>1, <1>2, <1>3, <1>4, <1>5, <1>6, <1>7, <1>8, <1>9, SomeStep DEF DrawStep

LEMMA PollFrame ==
    ASSUME [Next]_vars, ~PollStep PROVE UNCHANGED <<timeouts, chains>>
<1>1. CASE Told
  BY Zenon, <1>1 DEF PollStep, DrawStep, Told, HashChange, polls
<1>2. CASE \E c \in DOMAIN chains : SetAnswer(c)
  BY Zenon, <1>2 DEF SetAnswer, viewVars, polls
<1>3. CASE SessionStep
  <2>1. CASE BeatAnswer \/ BeatLost
    BY Zenon, <2>1 DEF BeatAnswer, BeatLost, Beat, polls
  <2>2. CASE CheckAnswer \/ CheckLost
    BY Zenon, <2>2 DEF CheckAnswer, CheckLost, Checked, polls
  <2>3. CASE LoginAnswer \/ LoginRefused \/ Expire
    BY Zenon, <2>3 DEF LoginAnswer, LoginRefused, Expire, polls
  <2>4. CASE Submit \/ Cancel \/ LoadLost
    BY Zenon, <2>4 DEF Submit, Cancel, LoadLost, viewVars, polls
  <2> QED
    BY <1>3, <2>1, <2>2, <2>3, <2>4 DEF SessionStep, LoginStep, SessionFault, PollStep, DrawStep
<1>4. CASE \E o \in DOMAIN ops : SaveAnswer(o) \/ SaveLost(o) \/ ChangesAnswer(o) \/ ApplyAnswer(o)
             \/ ApplyLost(o) \/ ConfirmAnswer(o) \/ ConfirmLost(o) \/ UpdateAnswer(o) \/ UpdateLost(o)
  BY Zenon, <1>4, OperationFrame DEF polls
<1>6. CASE \E v \in Menu : Chosen(v)
  BY Zenon, <1>6 DEF Chosen, Choose, polls
<1>7. CASE \E way \in Ways, n \in Names : Press(way, n)
  BY Zenon, <1>7 DEF Press, polls
<1>8. CASE \E i \in Instances, way \in {"add", "remove"}, n \in Names : Confirm(i, way, n)
  BY Zenon, <1>8 DEF Confirm, polls
<1>9. CASE Rollback \/ UNCHANGED vars
  BY Zenon, <1>9 DEF Rollback, vars, viewVars, polls
<1> QED
  BY <1>1, <1>2, <1>3, <1>4, <1>6, <1>7, <1>8, <1>9, SomeStep DEF PollStep, DrawStep

LEMMA AddressFrame ==
    ASSUME [Next]_vars, ~AddressStep PROVE UNCHANGED <<hash, untold>>
<1>1. CASE \E d \in DOMAIN draws : Template(d)
  BY Zenon, <1>1 DEF Template, TemplateAnswer, address
<1>2. CASE \E d \in DOMAIN draws : Script(d) \/ Data(d) \/ Unfound(d)
  BY Zenon, <1>2 DEF Script, Data, Unfound, ScriptAnswer, DataAnswer, FetchLost, address
<1>3. CASE \E c \in DOMAIN chains : RunRefresh(c) \/ SetAnswer(c) \/ StatusAnswer(c) \/ StatusLost(c)
  BY Zenon, <1>3 DEF RunRefresh, SetAnswer, StatusAnswer, StatusLost, viewVars, address
<1>4. CASE SessionStep
  <2>1. CASE BeatAnswer \/ BeatLost \/ LoginRefused \/ Expire
    BY Zenon, <2>1 DEF BeatAnswer, BeatLost, Beat, LoginRefused, Expire, address
  <2>2. CASE Submit \/ Cancel \/ LoadLost
    BY Zenon, <2>2 DEF Submit, Cancel, LoadLost, viewVars, address
  <2> QED
    BY <1>4, <2>1, <2>2 DEF SessionStep, LoginStep, SessionFault, AddressStep
<1>5. CASE \E o \in DOMAIN ops : SaveAnswer(o) \/ SaveLost(o) \/ ChangesAnswer(o) \/ ApplyAnswer(o)
             \/ ApplyLost(o) \/ ConfirmAnswer(o) \/ ConfirmLost(o) \/ UpdateAnswer(o) \/ UpdateLost(o)
  BY Zenon, <1>5, OperationFrame DEF address
<1>6. CASE \E o \in DOMAIN ops : ProtocolsAnswer(o)
  BY Zenon, <1>6 DEF ProtocolsAnswer, address
<1>7. CASE \E way \in Ways, n \in Names : Press(way, n)
  BY Zenon, <1>7 DEF Press, address
<1>8. CASE \E i \in Instances, way \in {"add", "remove"}, n \in Names : Confirm(i, way, n)
  BY Zenon, <1>8 DEF Confirm, address
<1>9. CASE Rollback \/ UNCHANGED vars
  BY Zenon, <1>9 DEF Rollback, vars, viewVars, address
<1> QED
  BY <1>1, <1>2, <1>3, <1>4, <1>5, <1>6, <1>7, <1>8, <1>9, SomeStep DEF AddressStep

LEMMA SessionFrame ==
    ASSUME [Next]_vars, ~SessionStep PROVE UNCHANGED <<boot, session, given, sid, beat, login>>
<1>1. CASE \E d \in DOMAIN draws : Template(d)
  BY Zenon, <1>1 DEF Template, sessionVars
<1>2. CASE \E c \in DOMAIN chains : RunRefresh(c) \/ SetAnswer(c) \/ StatusAnswer(c) \/ StatusLost(c)
  BY Zenon, <1>2 DEF RunRefresh, SetAnswer, StatusAnswer, StatusLost, sessionVars
<1>3. CASE \E o \in DOMAIN ops : SaveAnswer(o) \/ SaveLost(o) \/ ChangesAnswer(o) \/ ApplyAnswer(o)
             \/ ApplyLost(o) \/ ConfirmAnswer(o) \/ ConfirmLost(o) \/ UpdateAnswer(o) \/ UpdateLost(o)
  BY Zenon, <1>3, OperationFrame DEF sessionVars
<1>4. CASE \E o \in DOMAIN ops : ProtocolsAnswer(o)
  BY Zenon, <1>4 DEF ProtocolsAnswer, sessionVars
<1>5. CASE \E way \in Ways, n \in Names : Press(way, n)
  BY Zenon, <1>5 DEF Press, sessionVars
<1>6. CASE \E i \in Instances, way \in {"add", "remove"}, n \in Names : Confirm(i, way, n)
  BY Zenon, <1>6 DEF Confirm, sessionVars
<1>7. CASE Rollback \/ UNCHANGED vars
  BY Zenon, <1>7 DEF Rollback, vars, sessionVars
<1>8. CASE Elsewhere
  BY Zenon, <1>8 DEF Elsewhere, sessionVars
<1> QED
  BY <1>1, <1>2, <1>3, <1>4, <1>5, <1>6, <1>7, <1>8, SomeStep
     DEF Told, Script, Data, Unfound, Chosen

-----------------------------------------------------------------------------
(* Types of the session and of the address *)

SessionTyped ==
    /\ given \in Nat
    /\ sid \in 0 .. given
    /\ session \in 0 .. given
    /\ hash \in [view : Menu \cup {None}, id : 0 .. given]

Viewed(h, v) == [h EXCEPT !.view = v]
Owned(h, s)  == [h EXCEPT !.id = s]

LEMMA HashViewed ==
    ASSUME SessionTyped, NEW v \in Menu
    PROVE  /\ Viewed(hash, v) \in [view : Menu \cup {None}, id : 0 .. given]
           /\ Viewed(hash, v).view = v /\ Viewed(hash, v).id = hash.id
BY DEF SessionTyped, Viewed

LEMMA HashOwned ==
    ASSUME SessionTyped, NEW n \in Nat, NEW s \in 0 .. n
    PROVE  /\ Owned(hash, s) \in [view : Menu \cup {None}, id : 0 .. n]
           /\ Owned(hash, s).view = hash.view /\ Owned(hash, s).id = s
           /\ Owned(hash, s) = hash => hash.id = s
BY DEF SessionTyped, Owned

\* What a drawing does to the address: it names the view that is drawn.
LEMMA RenderAddress ==
    ASSUME SessionTyped, \/ HashChange
                         \/ LoadAnswer
    PROVE  /\ hash' = hash \/ \E v \in Menu : hash' = Viewed(hash, v)
           /\ HashChange => UNCHANGED <<listening, lost>>
<1>1. \A v : RenderView(v) => hash' = Viewed(hash, v)
  BY DEF RenderView, SetHash, Viewed
<1>2. (IF hash.view \in Menu THEN hash.view ELSE First) \in Menu
  BY ViewsAssumption
<1>3. CASE HashChange
  BY <1>1, <1>2, <1>3 DEF HashChange, budget
<1>4. CASE LoadAnswer
  BY <1>1, <1>2, <1>4 DEF LoadAnswer, HashChange, budget
<1> QED
  BY <1>3, <1>4

LEMMA SessionTypedStep ==
    ASSUME SessionTyped, [Next]_vars PROVE SessionTyped'
<1>0. given \in Nat /\ hash.id \in 0 .. given /\ sid \in 0 .. given
  BY DEF SessionTyped
<1>1. CASE Told \/ LoadAnswer
  <2>1. UNCHANGED <<given, sid, session>>
    BY <1>1 DEF Told, LoadAnswer, Elsewhere, sessionVars
  <2>2. hash' \in [view : Menu \cup {None}, id : 0 .. given]
    <3>1. hash' = hash \/ \E v \in Menu : hash' = Viewed(hash, v)
      BY <1>1, RenderAddress DEF Told
    <3> QED
      BY <3>1, <1>0, HashViewed DEF SessionTyped
  <2> QED
    BY <2>1, <2>2 DEF SessionTyped
<1>2. CASE \E v \in Menu : Chosen(v)
  <2>1. PICK v \in Menu : Choose(v) /\ Elsewhere
    BY <1>2 DEF Chosen
  <2>2. hash' = Viewed(hash, v)
    BY <2>1 DEF Choose, SetHash, Viewed
  <2>3. UNCHANGED <<given, sid, session>>
    BY <2>1 DEF Elsewhere, sessionVars
  <2> QED
    BY <2>2, <2>3, <1>0, HashViewed DEF SessionTyped
<1>3. CASE CheckAnswer \/ CheckLost
  <2>1. PICK alive : Checked(alive)
    BY <1>3 DEF CheckAnswer, CheckLost
  <2>2. UNCHANGED <<given, sid, session>>
    BY <2>1 DEF Checked
  <2>3. hash' = hash \/ hash' = Owned(hash, 0)
    <3>1. CASE alive
      BY <2>1, <3>1 DEF Checked, address
    <3>2. CASE ~alive
      BY <2>1, <3>2 DEF Checked, SetHash, Owned
    <3> QED
      BY <3>1, <3>2
  <2> QED
    BY <2>2, <2>3, <1>0, HashOwned DEF SessionTyped
<1>4. CASE LoginAnswer
  <2>1. given' = given + 1 /\ session' = given + 1 /\ sid' = given + 1 /\ hash' = Owned(hash, given + 1)
    BY <1>4 DEF LoginAnswer, SetHash, Owned
  <2>2. given + 1 \in Nat /\ given + 1 \in 0 .. given + 1
    BY <1>0
  <2>3. hash' \in [view : Menu \cup {None}, id : 0 .. given + 1]
    BY <2>1, <2>2, HashOwned
  <2> QED
    BY <2>1, <2>2, <2>3 DEF SessionTyped
<1>5. CASE BeatAnswer \/ BeatLost \/ LoginRefused
  <2>1. UNCHANGED <<hash, given, session>> /\ Login(hash)
    BY <1>5 DEF BeatAnswer, BeatLost, Beat, LoginRefused, address
  <2>2. sid' \in {hash.id, sid}
    BY <2>1 DEF Login
  <2> QED
    BY <2>1, <2>2, <1>0 DEF SessionTyped
<1>6. CASE Submit \/ Cancel \/ Expire \/ LoadLost
  <2>1. UNCHANGED <<hash, given>> /\ session' \in {0, session} /\ sid' \in {0, sid}
    BY <1>6 DEF Submit, Cancel, Expire, LoadLost, viewVars, address
  <2> QED
    BY <2>1, <1>0 DEF SessionTyped
<1>7. CASE ~AddressStep /\ ~SessionStep
  BY <1>7, AddressFrame, SessionFrame DEF SessionTyped
<1> QED
  BY <1>1, <1>2, <1>3, <1>4, <1>5, <1>6, <1>7, SomeStep DEF AddressStep, SessionStep, LoginStep, SessionFault

-----------------------------------------------------------------------------
(* Types of the views and of what is on the screen *)

\* A draw that got beyond its script has an instance; one that waits for data is of a
\* view that is not refreshed.
Fitting == {w \in Draw : /\ w.stage # "script" => w.inst \in Instances
                         /\ w.stage = "data" => w.view \notin Refreshing}

ScreenTyped ==
    /\ cached \in [Menu -> Instances \cup {None}]
    /\ current \in Instances \cup {None}
    /\ draws \in [1 .. MaxDraws -> Fitting \cup {None}]
    /\ page \in Seq(Menu)

LEMMA NoneIsNothing ==
    None \notin Menu /\ None \notin Instances /\ None \notin Draw /\ None \notin Fitting /\ None \notin Chain
BY ViewsAssumption DEF Fitting

LEMMA UnderWay ==
    ASSUME ScreenTyped, NEW d \in DOMAIN draws, draws[d] # None
    PROVE  /\ d \in 1 .. MaxDraws /\ draws[d] \in Fitting /\ draws[d].view \in Menu
           /\ draws[d].inst \in Instances \cup {None}
           /\ draws[d].stage # "script" => draws[d].inst \in Instances
           /\ draws[d].stage = "data" => draws[d].view \notin Refreshing
BY DEF ScreenTyped, Fitting, Draw

LEMMA RenderTyped ==
    ASSUME ScreenTyped, NEW v \in Menu, RenderView(v)
    PROVE  ScreenTyped'
<1>1. cached[v] \in Instances \cup {None}
  BY DEF ScreenTyped
<1> DEFINE new == [view |-> v, inst |-> cached[v],
                   stage |-> IF cached[v] = None THEN "script" ELSE "template"]
<1>2. new \in Fitting
  BY <1>1, NoneIsNothing DEF Fitting, Draw, Stages
<1>3. draws' = [draws EXCEPT ![Free(draws)] = new]
  BY DEF RenderView
<1> HIDE DEF new
<1>4. draws' \in [1 .. MaxDraws -> Fitting \cup {None}]
  BY <1>2, <1>3 DEF ScreenTyped
<1>5. cached' = cached /\ current' \in {current, cached[v]}
  BY DEF RenderView
<1>6. page' = IF cached[v] = None THEN page ELSE <<>>
  BY DEF RenderView
<1>7. page \in Seq(Menu) /\ <<>> \in Seq(Menu)
  BY DEF ScreenTyped
<1>8. page' \in Seq(Menu)
  BY Zenon, <1>6, <1>7
<1> QED
  BY <1>1, <1>4, <1>5, <1>8 DEF ScreenTyped

\* One draw changed: it is another one or it ended.
LEMMA DrawChanged ==
    ASSUME ScreenTyped, NEW d, NEW new \in Fitting \cup {None}
    PROVE  [draws EXCEPT ![d] = new] \in [1 .. MaxDraws -> Fitting \cup {None}]
BY DEF ScreenTyped

Begun(w, i) == [w EXCEPT !.inst = i, !.stage = "template"]
Waiting(w)  == [w EXCEPT !.stage = "data"]

LEMMA BegunFits ==
    ASSUME NEW w \in Fitting, NEW i \in Instances
    PROVE  /\ Begun(w, i) \in Fitting
           /\ Begun(w, i).view = w.view /\ Begun(w, i).inst = i /\ Begun(w, i).stage = "template"
BY DEF Begun, Fitting, Draw, Stages

LEMMA WaitingFits ==
    ASSUME NEW w \in Fitting, w.stage # "script", w.view \notin Refreshing
    PROVE  /\ Waiting(w) \in Fitting
           /\ Waiting(w).view = w.view /\ Waiting(w).inst = w.inst /\ Waiting(w).stage = "data"
BY DEF Waiting, Fitting, Draw, Stages

LEMMA ScriptDraws ==
    ASSUME NEW d, ScriptAnswer(d)
    PROVE  \E i \in Unused(draws[d].view) :
              /\ draws' = [draws EXCEPT ![d] = Begun(draws[d], i)]
              /\ cached' = [cached EXCEPT ![draws[d].view] = i]
              /\ current' = i
              /\ timeouts' = [timeouts EXCEPT ![i] = None]
<1>1. PICK i \in Unused(draws[d].view) :
         /\ cached' = [cached EXCEPT ![draws[d].view] = i] /\ current' = i
         /\ draws' = [draws EXCEPT ![d].inst = i, ![d].stage = "template"]
         /\ timeouts' = [timeouts EXCEPT ![i] = None]
  BY Zenon DEF ScriptAnswer
<1>2. draws' = [draws EXCEPT ![d] = Begun(draws[d], i)]
  BY <1>1 DEF Begun
<1> QED
  BY <1>1, <1>2, Zenon

LEMMA TemplateDraws ==
    ASSUME NEW d, Template(d)
    PROVE  /\ draws[d] # None /\ draws[d].stage = "template"
           /\ page' = Append(page, draws[d].view)
           /\ UNCHANGED <<cached, current, hash, untold, overlapped, listening, lost>>
           /\ \/ /\ draws[d].view \in Refreshing
                 /\ draws' = [draws EXCEPT ![d] = None]
                 /\ ~Showable(ifstate, devstate, objects)
                 /\ UNCHANGED <<drawn, timeouts, chains, asked>>
              \/ /\ draws[d].view \in Refreshing
                 /\ draws' = [draws EXCEPT ![d] = None]
                 /\ drawn' = sid
                 /\ Repeat(draws[d].inst)
                 /\ asked' = [asked EXCEPT ![Free(chains)] = FirstAsked]
              \/ /\ draws[d].view \notin Refreshing
                 /\ draws' = [draws EXCEPT ![d] = Waiting(draws[d])]
                 /\ UNCHANGED <<drawn, timeouts, chains, asked>>
<1> DEFINE here   == draws[d].view \in Refreshing
           throws == here /\ ~Showable(ifstate, devstate, objects)
<1>1. TemplateAnswer(d, sid, throws)
  BY DEF Template
<1>2. IF here /\ ~throws THEN Contents(draws[d].inst, objects) ELSE UNCHANGED <<asked, view>>
  BY DEF Template
<1>3. /\ draws[d] # None /\ draws[d].stage = "template"
      /\ page' = Append(page, draws[d].view)
      /\ UNCHANGED <<cached, current, hash, untold, overlapped, listening, lost>>
  BY <1>1 DEF TemplateAnswer, At, address, budget
<1>4. CASE throws
  BY <1>1, <1>2, <1>3, <1>4 DEF TemplateAnswer, polls
<1>5. CASE here /\ ~throws
  <2>1. Execute(d, sid) /\ Contents(draws[d].inst, objects)
    BY <1>1, <1>2, <1>5 DEF TemplateAnswer
  <2> QED
    BY <1>3, <1>5, <2>1 DEF Execute, Contents
<1>6. CASE ~here
  <2>1. draws' = [draws EXCEPT ![d].stage = "data"] /\ UNCHANGED <<drawn, polls, asked>>
    BY <1>1, <1>2, <1>6 DEF TemplateAnswer
  <2>2. draws' = [draws EXCEPT ![d] = Waiting(draws[d])]
    BY <2>1 DEF Waiting
  <2> QED
    BY <1>3, <1>6, <2>1, <2>2 DEF polls
<1> QED
  BY <1>4, <1>5, <1>6

LEMMA ScreenTypedStep ==
    ASSUME ScreenTyped, [Next]_vars PROVE ScreenTyped'
<1>1. CASE Told /\ listening
  <2>1. (IF hash.view \in Menu THEN hash.view ELSE First) \in Menu
    BY ViewsAssumption
  <2>2. RenderView(IF hash.view \in Menu THEN hash.view ELSE First)
    BY <1>1 DEF Told, HashChange
  <2> QED
    BY <2>1, <2>2, RenderTyped
<1>2. CASE LoadAnswer
  <2>1. (IF hash.view \in Menu THEN hash.view ELSE First) \in Menu
    BY ViewsAssumption
  <2>2. RenderView(IF hash.view \in Menu THEN hash.view ELSE First)
    BY <1>2 DEF LoadAnswer
  <2> QED
    BY <2>1, <2>2, RenderTyped
<1>3. ASSUME NEW d \in DOMAIN draws, Template(d) PROVE ScreenTyped'
  <2>1. draws[d] # None /\ draws[d].stage = "template"
    BY <1>3, TemplateDraws
  <2>2. draws[d].view \in Menu /\ draws[d] \in Fitting
    BY <2>1, UnderWay
  <2>3. page' \in Seq(Menu) /\ UNCHANGED <<cached, current>>
    BY <1>3, <2>2, TemplateDraws DEF ScreenTyped
  <2>4. \/ draws' = [draws EXCEPT ![d] = None]
        \/ draws[d].view \notin Refreshing /\ draws' = [draws EXCEPT ![d] = Waiting(draws[d])]
    BY <1>3, TemplateDraws
  <2>5. draws' \in [1 .. MaxDraws -> Fitting \cup {None}]
    BY <2>1, <2>2, <2>4, WaitingFits, DrawChanged
  <2> QED
    BY <2>3, <2>5 DEF ScreenTyped
<1>4. ASSUME NEW d \in DOMAIN draws, Script(d) PROVE ScreenTyped'
  <2>1. draws[d] # None /\ page' = <<>>
    BY <1>4 DEF Script, ScriptAnswer, At
  <2>2. draws[d].view \in Menu /\ draws[d] \in Fitting
    BY <2>1, UnderWay
  <2>3. PICK i \in Unused(draws[d].view) :
            /\ draws' = [draws EXCEPT ![d] = Begun(draws[d], i)]
            /\ cached' = [cached EXCEPT ![draws[d].view] = i]
            /\ current' = i
    BY <1>4, ScriptDraws DEF Script
  <2>4. i \in Instances
    BY DEF Unused
  <2>5. draws' \in [1 .. MaxDraws -> Fitting \cup {None}]
    BY <2>2, <2>3, <2>4, BegunFits, DrawChanged
  <2> QED
    BY <2>1, <2>2, <2>3, <2>4, <2>5 DEF ScreenTyped
<1>5. ASSUME NEW d \in DOMAIN draws, Data(d) \/ Unfound(d) PROVE ScreenTyped'
  <2>1. UNCHANGED <<cached, current, page>> /\ draws' = [draws EXCEPT ![d] = None]
    BY <1>5 DEF Data, Unfound, DataAnswer, FetchLost, Execute
  <2> QED
    BY <2>1, DrawChanged DEF ScreenTyped
<1>6. CASE ~DrawStep
  BY <1>6, DrawFrame DEF ScreenTyped
<1> QED
  BY <1>1, <1>2, <1>3, <1>4, <1>5, <1>6 DEF DrawStep

-----------------------------------------------------------------------------
(* Types of the refreshments, and what they wait for *)

\* A timer that is known to its instance is the only one there in its place.
OnePerPlace ==
    \A c, d \in DOMAIN chains :
        /\ chains[c] # None /\ chains[d] # None /\ c # d
        /\ chains[c].inst = chains[d].inst /\ chains[c].index = chains[d].index
        => ~(chains[c].known /\ chains[d].known)

PollsTyped ==
    /\ timeouts \in [Instances -> Nat \cup {None}]
    /\ chains \in [1 .. MaxChains -> Chain \cup {None}]
    /\ asked \in [1 .. MaxChains -> {"set", "status", None}]
    /\ \A c \in 1 .. MaxChains : asked[c] # None <=> In(c, "call")
    /\ OnePerPlace

PutOff(w)    == [w EXCEPT !.state = "timer", !.known = TRUE]
Forgotten(w) == [w EXCEPT !.known = FALSE]
Resumed(w)   == [w EXCEPT !.state = "call"]

LEMMA ChainFields ==
    ASSUME NEW w \in Chain
    PROVE  w.inst \in Instances /\ w.index \in Nat /\ w.known \in BOOLEAN /\ w # None
<1>1. w # None
  BY NoneIsNothing
<1> QED
  BY <1>1 DEF Chain

LEMMA PutOffChain ==
    ASSUME NEW w \in Chain
    PROVE  /\ PutOff(w) \in Chain /\ PutOff(w).inst = w.inst /\ PutOff(w).index = w.index
           /\ PutOff(w).state = "timer" /\ PutOff(w).known = TRUE
BY DEF Chain, PutOff

LEMMA ForgottenChain ==
    ASSUME NEW w \in Chain
    PROVE  /\ Forgotten(w) \in Chain /\ Forgotten(w).inst = w.inst /\ Forgotten(w).index = w.index
           /\ Forgotten(w).state = w.state /\ Forgotten(w).known = FALSE
           /\ Forgotten(w) # None /\ w # None
<1>1. Forgotten(w) \in Chain
  BY DEF Chain, Forgotten
<1>2. Forgotten(w) # None /\ w # None
  BY <1>1, NoneIsNothing
<1> QED
  BY <1>1, <1>2 DEF Chain, Forgotten

LEMMA ResumedChain ==
    ASSUME NEW w \in Chain
    PROVE  /\ Resumed(w) \in Chain /\ Resumed(w).inst = w.inst /\ Resumed(w).index = w.index
           /\ Resumed(w).state = "call" /\ Resumed(w).known = w.known
           /\ Resumed(w) # None /\ w # None
<1>1. Resumed(w) \in Chain
  BY DEF Chain, Resumed
<1>2. Resumed(w) # None /\ w # None
  BY <1>1, NoneIsNothing
<1> QED
  BY <1>1, <1>2 DEF Chain, Resumed

LEMMA AskedFirst == FirstAsked \in {"set", "status"} /\ FirstAsked # None
BY InterfacesAssumption DEF FirstAsked

\* repeat(): the new refreshment makes its first call.
LEMMA RepeatTyped ==
    ASSUME PollsTyped, NEW i \in Instances, Repeat(i),
           asked' = [asked EXCEPT ![Free(chains)] = FirstAsked]
    PROVE  PollsTyped'
<1> DEFINE x   == Free(chains)
           new == [inst |-> i, index |-> Length(i) + 1, state |-> "call", known |-> FALSE]
<1>1. Length(i) \in Nat
  BY DEF PollsTyped, Length
<1>2. new \in Chain /\ new.state = "call" /\ new.known = FALSE
  BY <1>1 DEF Chain
<1>3. chains' = [chains EXCEPT ![x] = new] /\ asked' = [asked EXCEPT ![x] = FirstAsked]
      /\ timeouts' = [timeouts EXCEPT ![i] = Length(i)]
  BY DEF Repeat
<1> HIDE DEF x, new
<1>4. \A c \in 1 .. MaxChains :
          /\ c = x => chains'[c] = new /\ asked'[c] = FirstAsked
          /\ c # x => chains'[c] = chains[c] /\ asked'[c] = asked[c]
  BY <1>3 DEF PollsTyped
<1>5. new # None
  BY <1>2, NoneIsNothing
<1>6. /\ timeouts' \in [Instances -> Nat \cup {None}]
      /\ chains' \in [1 .. MaxChains -> Chain \cup {None}]
      /\ asked' \in [1 .. MaxChains -> {"set", "status", None}]
  BY <1>1, <1>2, <1>3, AskedFirst DEF PollsTyped
<1>7. \A c \in 1 .. MaxChains : asked'[c] # None <=> In(c, "call")'
  BY <1>2, <1>4, <1>5, AskedFirst DEF PollsTyped, In
<1>8. OnePerPlace'
  <2> SUFFICES ASSUME NEW c \in 1 .. MaxChains, NEW d \in 1 .. MaxChains,
                      chains'[c] # None, chains'[d] # None, c # d,
                      chains'[c].inst = chains'[d].inst, chains'[c].index = chains'[d].index,
                      chains'[c].known, chains'[d].known
               PROVE  FALSE
    BY <1>6 DEF OnePerPlace
  <2>1. c # x /\ d # x
    BY <1>2, <1>4
  <2> QED
    BY <1>4, <2>1 DEF PollsTyped, OnePerPlace
<1> QED
  BY <1>6, <1>7, <1>8 DEF PollsTyped

\* A call returned: the refreshment ends, or its timer takes the place for itself.
LEMMA SetTimerTyped ==
    ASSUME PollsTyped, NEW c \in 1 .. MaxChains, In(c, "call"), SetTimer(c),
           asked' = [asked EXCEPT ![c] = None]
    PROVE  PollsTyped'
<1>1. asked' \in [1 .. MaxChains -> {"set", "status", None}]
      /\ asked'[c] = None /\ \A e \in 1 .. MaxChains : e # c => asked'[e] = asked[e]
  BY DEF PollsTyped
<1>2. CASE timeouts[chains[c].inst] = None
  <2>1. chains' = [chains EXCEPT ![c] = None] /\ UNCHANGED timeouts
    BY <1>2 DEF SetTimer
  <2>2. chains'[c] = None /\ \A e \in 1 .. MaxChains : e # c => chains'[e] = chains[e]
    BY <2>1 DEF PollsTyped
  <2>3. chains' \in [1 .. MaxChains -> Chain \cup {None}] /\ timeouts' \in [Instances -> Nat \cup {None}]
    BY <2>1 DEF PollsTyped
  <2>4. \A e \in 1 .. MaxChains : asked'[e] # None <=> In(e, "call")'
    BY <1>1, <2>2 DEF PollsTyped, In
  <2>5. OnePerPlace'
    BY <2>2, <2>3 DEF PollsTyped, OnePerPlace
  <2> QED
    BY <1>1, <2>3, <2>4, <2>5 DEF PollsTyped
<1>3. CASE timeouts[chains[c].inst] # None
  <2> DEFINE i == chains[c].inst
             k == chains[c].index
             Taken1(e) == Of(e, i) /\ chains[e].index = k
  <2>1. chains[c] \in Chain
    BY DEF PollsTyped, In
  <2>2. i \in Instances /\ k \in Nat
    BY <2>1, ChainFields
  <2>3. /\ chains' = [e \in DOMAIN chains |->
                        IF e = c THEN PutOff(chains[c])
                        ELSE IF Taken1(e) THEN Forgotten(chains[e]) ELSE chains[e]]
        /\ timeouts' = [timeouts EXCEPT ![i] = IF k > Length(i) THEN k ELSE @]
    BY <1>3 DEF SetTimer, Armed, PutOff, Forgotten
  <2> HIDE DEF i, k
  <2>4. timeouts' \in [Instances -> Nat \cup {None}]
    BY <2>2, <2>3 DEF PollsTyped
  <2>5. /\ chains'[c] = PutOff(chains[c])
        /\ \A e \in 1 .. MaxChains : e # c =>
              /\ Taken1(e) => chains'[e] = Forgotten(chains[e])
              /\ ~Taken1(e) => chains'[e] = chains[e]
    BY <2>3 DEF PollsTyped
  <2>6. \A e \in 1 .. MaxChains : Taken1(e) => chains[e] \in Chain
    BY DEF PollsTyped, Of
  <2>7. \A e \in 1 .. MaxChains : chains'[e] \in Chain \cup {None}
    <3> SUFFICES ASSUME NEW e \in 1 .. MaxChains PROVE chains'[e] \in Chain \cup {None}
      OBVIOUS
    <3>1. CASE e = c
      BY <2>1, <2>5, <3>1, PutOffChain
    <3>2. CASE e # c /\ Taken1(e)
      <4>1. chains[e] \in Chain /\ chains'[e] = Forgotten(chains[e])
        BY <2>5, <2>6, <3>2
      <4> QED
        BY <4>1, ForgottenChain
    <3>3. CASE e # c /\ ~Taken1(e)
      <4>1. chains'[e] = chains[e]
        BY <2>5, <3>3
      <4> QED
        BY <4>1 DEF PollsTyped
    <3> QED
      BY <3>1, <3>2, <3>3
  <2>8. chains' \in [1 .. MaxChains -> Chain \cup {None}]
    BY <2>3, <2>7 DEF PollsTyped
  <2>9. \A e \in 1 .. MaxChains : asked'[e] # None <=> In(e, "call")'
    <3> SUFFICES ASSUME NEW e \in 1 .. MaxChains PROVE asked'[e] # None <=> In(e, "call")'
      OBVIOUS
    <3>1. CASE e = c
      BY <1>1, <2>1, <2>5, <3>1, PutOffChain DEF In
    <3>2. CASE e # c
      <4>1. In(e, "call")' <=> In(e, "call")
        <5>1. CASE Taken1(e)
          <6>1. chains[e] \in Chain /\ chains'[e] = Forgotten(chains[e])
            BY <2>5, <2>6, <3>2, <5>1
          <6>2. chains'[e] # None /\ chains[e] # None /\ chains'[e].state = chains[e].state
            BY <6>1, ForgottenChain
          <6> QED
            BY <6>2 DEF In
        <5>2. CASE ~Taken1(e)
          BY <2>5, <3>2, <5>2 DEF In
        <5> QED
          BY <5>1, <5>2
      <4> QED
        BY <1>1, <3>2, <4>1 DEF PollsTyped
    <3> QED
      BY <3>1, <3>2
  <2>10. OnePerPlace'
    <3> SUFFICES ASSUME NEW e \in 1 .. MaxChains, NEW d \in 1 .. MaxChains,
                        chains'[e] # None, chains'[d] # None, e # d,
                        chains'[e].inst = chains'[d].inst, chains'[e].index = chains'[d].index,
                        chains'[e].known, chains'[d].known
                 PROVE  FALSE
      BY <2>8 DEF OnePerPlace
    <3>1. \A f \in 1 .. MaxChains : f # c /\ Taken1(f) => ~chains'[f].known
      BY <2>5, <2>6, ForgottenChain
    <3>2. \A f \in 1 .. MaxChains : f # c /\ chains'[f] # None /\ chains'[f].known => chains'[f] = chains[f] /\ ~Taken1(f)
      BY <2>5, <3>1
    <3>3. chains'[c].inst = i /\ chains'[c].index = k
      BY <2>1, <2>5, PutOffChain DEF i, k
    <3>4. \A f \in 1 .. MaxChains : chains[f] # None /\ ~Taken1(f) => chains[f].inst # i \/ chains[f].index # k
      BY DEF Of
    <3>5. e # c /\ d # c
      BY <3>2, <3>3, <3>4
    <3> QED
      BY <3>2, <3>5 DEF PollsTyped, OnePerPlace
  <2> QED
    BY <1>1, <2>4, <2>8, <2>9, <2>10 DEF PollsTyped
<1> QED
  BY <1>2, <1>3

LEMMA ThrownTyped ==
    ASSUME PollsTyped, NEW c \in 1 .. MaxChains, Thrown(c)
    PROVE  PollsTyped'
<1>1. chains' = [chains EXCEPT ![c] = None] /\ asked' = [asked EXCEPT ![c] = None] /\ UNCHANGED timeouts
  BY DEF Thrown
<1>2. /\ chains' \in [1 .. MaxChains -> Chain \cup {None}]
      /\ asked' \in [1 .. MaxChains -> {"set", "status", None}]
      /\ timeouts' \in [Instances -> Nat \cup {None}]
  BY <1>1 DEF PollsTyped
<1>3. /\ chains'[c] = None /\ asked'[c] = None
      /\ \A e \in 1 .. MaxChains : e # c => chains'[e] = chains[e] /\ asked'[e] = asked[e]
  BY <1>1 DEF PollsTyped
<1>4. \A e \in 1 .. MaxChains : asked'[e] # None <=> In(e, "call")'
  BY <1>3 DEF PollsTyped, In
<1>5. OnePerPlace'
  BY <1>2, <1>3 DEF PollsTyped, OnePerPlace
<1> QED
  BY <1>2, <1>4, <1>5 DEF PollsTyped

LEMMA RunTyped ==
    ASSUME PollsTyped, NEW c \in 1 .. MaxChains, RunRefresh(c)
    PROVE  PollsTyped'
<1>1. chains[c] \in Chain
  BY DEF PollsTyped, RunRefresh, In
<1>2. chains' = [chains EXCEPT ![c] = Resumed(chains[c])] /\ asked' = [asked EXCEPT ![c] = FirstAsked]
      /\ UNCHANGED timeouts
  BY DEF RunRefresh, RunTimer, Resumed
<1>3. /\ chains' \in [1 .. MaxChains -> Chain \cup {None}]
      /\ asked' \in [1 .. MaxChains -> {"set", "status", None}]
      /\ timeouts' \in [Instances -> Nat \cup {None}]
  BY <1>1, <1>2, ResumedChain, AskedFirst DEF PollsTyped
<1>4. /\ chains'[c] = Resumed(chains[c]) /\ asked'[c] = FirstAsked
      /\ \A e \in 1 .. MaxChains : e # c => chains'[e] = chains[e] /\ asked'[e] = asked[e]
  BY <1>2 DEF PollsTyped
<1>5. chains'[c] # None /\ chains[c] # None /\ chains'[c].state = "call"
      /\ chains'[c].inst = chains[c].inst /\ chains'[c].index = chains[c].index
      /\ chains'[c].known = chains[c].known
  BY <1>1, <1>4, ResumedChain
<1>6. \A e \in 1 .. MaxChains : asked'[e] # None <=> In(e, "call")'
  BY <1>4, <1>5, AskedFirst DEF PollsTyped, In
<1>7. OnePerPlace'
  <2> SUFFICES ASSUME NEW e \in 1 .. MaxChains, NEW d \in 1 .. MaxChains,
                      chains'[e] # None, chains'[d] # None, e # d,
                      chains'[e].inst = chains'[d].inst, chains'[e].index = chains'[d].index,
                      chains'[e].known, chains'[d].known
               PROVE  FALSE
    BY <1>3 DEF OnePerPlace
  <2>1. \A f \in 1 .. MaxChains : chains'[f] # None =>
            chains[f] # None /\ chains'[f].inst = chains[f].inst
            /\ chains'[f].index = chains[f].index /\ chains'[f].known = chains[f].known
    BY <1>4, <1>5
  <2> QED
    BY <2>1 DEF PollsTyped, OnePerPlace
<1> QED
  BY <1>3, <1>6, <1>7 DEF PollsTyped

\* finish(): timers that are known are gone, the other refreshments are unknown.
LEMMA FinishTyped ==
    ASSUME PollsTyped, Finish, UNCHANGED asked
    PROVE  PollsTyped'
<1>1. CASE current = None
  BY <1>1 DEF Finish, polls, PollsTyped, OnePerPlace, In
<1>2. CASE current # None
  <2> DEFINE Ended1(e) == Of(e, current) /\ chains[e].known /\ chains[e].state = "timer"
  <2>1. /\ timeouts' = [timeouts EXCEPT ![current] = None]
        /\ chains' = [e \in DOMAIN chains |->
                         IF ~Of(e, current) THEN chains[e]
                         ELSE IF chains[e].known /\ chains[e].state = "timer" THEN None
                         ELSE Forgotten(chains[e])]
    BY <1>2 DEF Finish, Forgotten
  <2>2. timeouts' \in [Instances -> Nat \cup {None}]
    BY <2>1 DEF PollsTyped
  <2>3. \A e \in 1 .. MaxChains :
            /\ ~Of(e, current) => chains'[e] = chains[e]
            /\ Ended1(e) => chains'[e] = None
            /\ Of(e, current) /\ ~Ended1(e) => chains'[e] = Forgotten(chains[e])
    BY <2>1 DEF PollsTyped
  <2>4. \A e \in 1 .. MaxChains : Of(e, current) => chains[e] \in Chain
    BY DEF PollsTyped, Of
  <2>5. \A e \in 1 .. MaxChains : chains'[e] \in Chain \cup {None}
    BY <2>3, <2>4, ForgottenChain DEF PollsTyped
  <2>6. chains' \in [1 .. MaxChains -> Chain \cup {None}]
    BY <2>1, <2>5 DEF PollsTyped
  <2>7. \A e \in 1 .. MaxChains : In(e, "call")' <=> In(e, "call")
    BY <2>3, <2>4, ForgottenChain DEF In
  <2>8. \A e \in 1 .. MaxChains : chains'[e] # None /\ chains'[e].known =>
            chains'[e] = chains[e]
    BY <2>3, <2>4, ForgottenChain
  <2>9. OnePerPlace'
    BY <2>6, <2>8 DEF PollsTyped, OnePerPlace
  <2> QED
    BY <2>2, <2>6, <2>7, <2>9 DEF PollsTyped
<1> QED
  BY <1>1, <1>2

-----------------------------------------------------------------------------
(* Types of the networks and of the operations *)

NetTyped ==
    /\ running \subseteq Names
    /\ kept \in Kept \cup {None}
    /\ names \subseteq Names
    /\ edits \subseteq {"add", "remove"} \X Names
    /\ objects \subseteq Names
    /\ rows \subseteq Names
    /\ ops \in Seq(Op)

netVars == <<running, kept, names, edits, objects, rows, ops>>

OpStages == {"save", "changes", "unchanged", "apply", "refused", "confirm", "update", "protocols", "done", "stuck"}

LEMMA EditedNames ==
    ASSUME NEW S \in SUBSET Names, NEW es
    PROVE  Edited(S, es) \subseteq Names
BY DEF Edited

LEMMA FoundNames ==
    ASSUME NetTyped
    PROVE  Found \subseteq Names /\ Saved \subseteq Names
BY EditedNames DEF NetTyped, Found, Saved, Answer

LEMMA BecomesTyped ==
    ASSUME NetTyped, NEW o \in DOMAIN ops, NEW stage \in OpStages, Becomes(o, stage)
    PROVE  ops' \in Seq(Op)
<1> DEFINE new == [ops[o] EXCEPT !.stage = stage]
<1>1. ops[o] \in Op /\ ops \in Seq(Op)
  BY DEF NetTyped
<1>2. new \in Op
  BY <1>1 DEF Op, OpStages
<1>3. ops' = [ops EXCEPT ![o] = new]
  BY DEF Becomes
<1> HIDE DEF new
<1> QED
  BY <1>1, <1>2, <1>3

LEMMA ApplyTyped ==
    ASSUME NetTyped, SessionTyped, NEW heard, Apply(heard)
    PROVE  running' \subseteq Names /\ kept' \in Kept \cup {None}
<1>1. CASE Alive /\ kept = None
  <2>1. sid \in Nat /\ running \in SUBSET Names
    BY DEF SessionTyped, NetTyped
  <2>2. kept' = [nets |-> running, sid |-> sid] /\ running' = Saved
    BY <1>1 DEF Apply
  <2> QED
    BY <2>1, <2>2, FoundNames DEF Kept
<1>2. CASE ~(Alive /\ kept = None)
  BY <1>2 DEF Apply, router, NetTyped
<1> QED
  BY <1>1, <1>2

LEMMA OperationTyped ==
    ASSUME NetTyped, SessionTyped, NEW o \in DOMAIN ops,
           \/ SaveAnswer(o) \/ SaveLost(o) \/ ChangesAnswer(o) \/ ApplyAnswer(o) \/ ApplyLost(o)
           \/ ConfirmAnswer(o) \/ ConfirmLost(o) \/ UpdateAnswer(o) \/ UpdateLost(o)
    PROVE  NetTyped'
<1>1. CASE SaveAnswer(o) \/ SaveLost(o)
  <2>1. PICK taken : Store(o, taken)
    BY <1>1 DEF SaveAnswer, SaveLost
  <2>2. UNCHANGED <<running, kept, objects, rows>> /\ Becomes(o, "changes")
        /\ names' = Answer(Edited(running, taken)) /\ edits' = {}
    BY <2>1 DEF Store, network, view
  <2>3. names' \subseteq Names
    BY <2>2, EditedNames DEF NetTyped, Answer
  <2>4. ops' \in Seq(Op)
    BY <2>2, BecomesTyped DEF OpStages
  <2> QED
    BY <2>2, <2>3, <2>4 DEF NetTyped
<1>2. CASE ChangesAnswer(o)
  <2>1. UNCHANGED <<running, kept, names, edits, objects, rows>>
        /\ \E stage \in OpStages : Becomes(o, stage)
    BY <1>2 DEF ChangesAnswer, router, network, view, OpStages
  <2> QED
    BY <2>1, BecomesTyped DEF NetTyped
<1>3. CASE ApplyAnswer(o) \/ ApplyLost(o)
  <2>1. UNCHANGED <<names, edits, objects, rows>> /\ \E heard : Apply(heard)
    BY <1>3 DEF ApplyAnswer, ApplyLost, network, view
  <2>2. \E stage \in OpStages : Becomes(o, stage)
    BY <1>3 DEF ApplyAnswer, ApplyLost, OpStages
  <2> QED
    BY <2>1, <2>2, ApplyTyped, BecomesTyped DEF NetTyped
<1>4. CASE ConfirmAnswer(o)
  <2>1. UNCHANGED <<running, names, edits, rows>> /\ kept' = None /\ objects' = {}
        /\ Becomes(o, "update")
    BY <1>4 DEF ConfirmAnswer, view
  <2> QED
    BY <2>1, BecomesTyped DEF NetTyped, OpStages
<1>5. CASE ConfirmLost(o)
  <2>1. UNCHANGED <<running, names, edits, objects, rows, ops>> /\ kept' \in {kept, None}
    BY <1>5 DEF ConfirmLost, network, view
  <2> QED
    BY <2>1 DEF NetTyped
<1>6. CASE UpdateAnswer(o) \/ UpdateLost(o)
  <2>1. UNCHANGED <<running, kept, names, edits, objects, rows>>
        /\ \E stage \in OpStages : Becomes(o, stage)
    BY <1>6 DEF UpdateAnswer, UpdateLost, router, view, OpStages
  <2> QED
    BY <2>1, BecomesTyped DEF NetTyped
<1> QED
  BY <1>1, <1>2, <1>3, <1>4, <1>5, <1>6

LEMMA NetTypedStep ==
    ASSUME NetTyped, SessionTyped, [Next]_vars PROVE NetTyped'
<1>1. CASE UNCHANGED netVars
  BY <1>1 DEF netVars, NetTyped
<1>2. CASE Told \/ SessionStep \/ (\E v \in Menu : Chosen(v))
             \/ \E d \in DOMAIN draws : Script(d) \/ Data(d) \/ Unfound(d)
  BY Zenon, <1>1, <1>2 DEF Told, Chosen, Script, Data, Unfound, SessionStep, Elsewhere, interfacesVars,
     router, network, view, netVars
<1>3. ASSUME NEW d \in DOMAIN draws, Template(d) PROVE NetTyped'
  <2>1. UNCHANGED <<running, kept, names, edits, objects, ops>>
    BY <1>3 DEF Template, router, network
  <2>2. rows' = rows \/ rows' = objects
    BY <1>3 DEF Template, Contents, view
  <2> QED
    BY <2>1, <2>2 DEF NetTyped
<1>4. ASSUME NEW c \in DOMAIN chains, RunRefresh(c) \/ SetAnswer(c) PROVE NetTyped'
  BY <1>1, <1>4 DEF RunRefresh, SetAnswer, router, network, view, netVars
<1>5. ASSUME NEW c \in DOMAIN chains, StatusAnswer(c) \/ StatusLost(c) PROVE NetTyped'
  <2>1. UNCHANGED <<running, kept, names, edits, rows, ops>>
        /\ (objects' = objects \/ objects' = objects \cup Found)
    BY <1>5 DEF StatusAnswer, StatusLost, router, view
  <2> QED
    BY <2>1, FoundNames DEF NetTyped
<1>6. CASE \E o \in DOMAIN ops : SaveAnswer(o) \/ SaveLost(o) \/ ChangesAnswer(o) \/ ApplyAnswer(o)
             \/ ApplyLost(o) \/ ConfirmAnswer(o) \/ ConfirmLost(o) \/ UpdateAnswer(o) \/ UpdateLost(o)
  BY <1>6, OperationTyped
<1>7. ASSUME NEW o \in DOMAIN ops, ProtocolsAnswer(o) PROVE NetTyped'
  <2>1. UNCHANGED <<running, kept, names, edits>>
    BY <1>7 DEF ProtocolsAnswer, router
  <2>2. CASE cache = "full" /\ ifstate /\ devstate
    <3>1. objects' = objects \cup Found /\ rows' = objects' /\ Becomes(o, "done")
      BY <1>7, <2>2 DEF ProtocolsAnswer, Contents
    <3> QED
      BY <2>1, <3>1, FoundNames, BecomesTyped DEF NetTyped, OpStages
  <2>3. CASE ~(cache = "full" /\ ifstate /\ devstate)
    <3>1. UNCHANGED <<objects, rows>> /\ Becomes(o, "stuck")
      BY <1>7, <2>3 DEF ProtocolsAnswer, view
    <3> QED
      BY <2>1, <3>1, BecomesTyped DEF NetTyped, OpStages
  <2> QED
    BY <2>2, <2>3
<1>8. CASE \E way \in Ways, n \in Names : Press(way, n)
  BY Zenon, <1>1, <1>8 DEF Press, router, network, netVars
<1>9. ASSUME NEW i \in Instances, NEW way \in {"add", "remove"}, NEW n \in Names, Confirm(i, way, n)
      PROVE  NetTyped'
  <2> DEFINE new == [inst |-> i, way |-> way, name |-> n, batch |-> edits', stage |-> "save"]
  <2>1. UNCHANGED <<running, kept, names, objects, rows>>
    BY <1>9 DEF Confirm, router, network, view
  <2>2. edits' = edits \cup {<<way, n>>} /\ ops' = Append(ops, new)
    BY <1>9 DEF Confirm
  <2>3. edits' \subseteq {"add", "remove"} \X Names
    BY <2>2 DEF NetTyped
  <2>4. new \in Op
    BY <2>3 DEF Op
  <2> HIDE DEF new
  <2>5. ops' \in Seq(Op)
    BY <2>2, <2>4 DEF NetTyped
  <2> QED
    BY <2>1, <2>3, <2>5 DEF NetTyped
<1>10. CASE Rollback
  <2>1. running' = kept.nets /\ kept' = None /\ kept # None
        /\ UNCHANGED <<names, edits, objects, rows, ops>>
    BY <1>10 DEF Rollback, network, view
  <2> QED
    BY <2>1 DEF NetTyped, Kept
<1>11. CASE UNCHANGED vars
  BY <1>1, <1>11 DEF vars, interfacesVars, router, network, view, netVars
<1> QED
  BY <1>2, <1>3, <1>4, <1>5, <1>6, <1>7, <1>8, <1>9, <1>10, <1>11, SomeStep

-----------------------------------------------------------------------------
(* Every step keeps the types *)

LEMMA AskedFrame ==
    ASSUME [Next]_vars, ~PollStep, ~\E c \in DOMAIN chains : SetAnswer(c)
    PROVE  UNCHANGED asked
<1>1. CASE Told \/ SessionStep \/ (\E v \in Menu : Chosen(v))
  BY Zenon, <1>1 DEF Told, Chosen, SessionStep, Elsewhere, interfacesVars
<1>2. CASE \E o \in DOMAIN ops : SaveAnswer(o) \/ SaveLost(o) \/ ChangesAnswer(o) \/ ApplyAnswer(o)
             \/ ApplyLost(o) \/ ConfirmAnswer(o) \/ ConfirmLost(o) \/ UpdateAnswer(o) \/ UpdateLost(o)
  BY Zenon, <1>2, OperationFrame
<1>3. CASE \E way \in Ways, n \in Names : Press(way, n)
  BY Zenon, <1>3 DEF Press
<1>4. CASE \E i \in Instances, way \in {"add", "remove"}, n \in Names : Confirm(i, way, n)
  BY Zenon, <1>4 DEF Confirm
<1>5. CASE Rollback \/ UNCHANGED vars
  BY Zenon, <1>5 DEF Rollback, vars, interfacesVars
<1> QED
  BY <1>1, <1>2, <1>3, <1>4, <1>5, SomeStep DEF PollStep, DrawStep

LEMMA PollsTypedStep ==
    ASSUME PollsTyped, ScreenTyped, NetTyped, [Next]_vars PROVE PollsTyped'
<1>0. DOMAIN chains = 1 .. MaxChains
  BY DEF PollsTyped
<1>1. ASSUME UNCHANGED <<timeouts, chains, asked>> PROVE PollsTyped'
  BY <1>1 DEF PollsTyped, OnePerPlace, In
<1>2. CASE (Told /\ listening) \/ (LoadAnswer /\ UNCHANGED interfacesVars)
  <2>1. Finish
    BY <1>2 DEF Told, HashChange, LoadAnswer, RenderView
  <2>2. UNCHANGED asked
    BY <1>2 DEF Told, Elsewhere, interfacesVars
  <2> QED
    BY <2>1, <2>2, FinishTyped
<1>3. ASSUME NEW d \in DOMAIN draws, Template(d) PROVE PollsTyped'
  <2>1. draws[d] # None /\ draws[d].stage = "template"
    BY <1>3, TemplateDraws
  <2>2. draws[d].inst \in Instances
    BY <2>1, UnderWay
  <2>3. \/ UNCHANGED <<timeouts, chains, asked>>
        \/ Repeat(draws[d].inst) /\ asked' = [asked EXCEPT ![Free(chains)] = FirstAsked]
    BY <1>3, TemplateDraws
  <2> QED
    BY <1>1, <2>2, <2>3, RepeatTyped
<1>4. ASSUME NEW d \in DOMAIN draws, Script(d) PROVE PollsTyped'
  <2>1. UNCHANGED <<chains, asked>>
    BY <1>4 DEF Script, ScriptAnswer, Elsewhere, interfacesVars
  <2>2. \E i : timeouts' = [timeouts EXCEPT ![i] = None]
    BY <1>4, ScriptDraws DEF Script
  <2>3. timeouts' \in [Instances -> Nat \cup {None}]
    BY <2>2 DEF PollsTyped
  <2> QED
    BY <2>1, <2>3 DEF PollsTyped, OnePerPlace, In
<1>5. ASSUME NEW d \in DOMAIN draws, Data(d) PROVE PollsTyped'
  <2>1. draws[d] # None /\ draws[d].stage = "data" /\ Execute(d, sid) /\ UNCHANGED asked
    BY <1>5 DEF Data, DataAnswer, At, Elsewhere, interfacesVars
  <2>2. draws[d].view \notin Refreshing
    BY <2>1, UnderWay
  <2> QED
    BY <1>1, <2>1, <2>2 DEF Execute, polls
<1>6. ASSUME NEW d \in DOMAIN draws, Unfound(d) PROVE PollsTyped'
  BY <1>1, <1>6 DEF Unfound, FetchLost, Elsewhere, interfacesVars, polls
<1>7. ASSUME NEW c \in DOMAIN chains, RunRefresh(c) PROVE PollsTyped'
  BY <1>0, <1>7, RunTyped
<1>8. ASSUME NEW c \in DOMAIN chains, StatusAnswer(c) PROVE PollsTyped'
  <2>1. asked[c] = "status" /\ c \in 1 .. MaxChains
    BY <1>0, <1>8 DEF StatusAnswer, Waits
  <2>2. In(c, "call")
    BY <2>1, InterfacesAssumption DEF PollsTyped
  <2>3. Shown(c) \/ Thrown(c)
    BY <1>8 DEF StatusAnswer
  <2>4. CASE Shown(c)
    BY <2>1, <2>2, <2>4, SetTimerTyped DEF Shown
  <2> QED
    BY <2>1, <2>3, <2>4, ThrownTyped
<1>9. ASSUME NEW c \in DOMAIN chains, StatusLost(c) PROVE PollsTyped'
  BY <1>0, <1>9, ThrownTyped DEF StatusLost
<1>10. ASSUME NEW c \in DOMAIN chains, SetAnswer(c) PROVE PollsTyped'
  <2>1. asked[c] = "set" /\ asked' = [asked EXCEPT ![c] = "status"] /\ UNCHANGED <<timeouts, chains>>
    BY <1>10 DEF SetAnswer, Waits, viewVars, polls
  <2>2. /\ asked' \in [1 .. MaxChains -> {"set", "status", None}]
        /\ \A e \in 1 .. MaxChains : asked'[e] # None <=> asked[e] # None
    BY <1>0, <2>1, InterfacesAssumption DEF PollsTyped
  <2> QED
    BY <2>1, <2>2 DEF PollsTyped, OnePerPlace, In
<1>11. ASSUME NEW o \in DOMAIN ops, ProtocolsAnswer(o) PROVE PollsTyped'
  <2>0. ops[o] \in Op
    BY DEF NetTyped
  <2>1. ops[o].inst \in Instances
    BY <2>0 DEF Op
  <2>2. CASE cache = "full" /\ ifstate /\ devstate
    <3>1. Repeat(ops[o].inst) /\ asked' = [asked EXCEPT ![Free(chains)] = FirstAsked]
      BY <1>11, <2>2 DEF ProtocolsAnswer, Contents
    <3> QED
      BY <2>1, <3>1, RepeatTyped
  <2>3. CASE ~(cache = "full" /\ ifstate /\ devstate)
    BY <1>1, <1>11, <2>3 DEF ProtocolsAnswer, polls
  <2> QED
    BY <2>2, <2>3
<1>12. CASE ~PollStep /\ ~\E c \in DOMAIN chains : SetAnswer(c)
  BY <1>1, <1>12, PollFrame, AskedFrame
<1> QED
  BY <1>2, <1>3, <1>4, <1>5, <1>6, <1>7, <1>8, <1>9, <1>10, <1>11, <1>12 DEF PollStep, DrawStep

TypesKept == SessionTyped /\ ScreenTyped /\ NetTyped /\ PollsTyped

LEMMA TypesStart == Init => TypesKept
<1> SUFFICES ASSUME Init PROVE TypesKept
  OBVIOUS
<1>1. SessionTyped
  <2>1. /\ hash \in {[view |-> None, id |-> 0]} \cup [view : Bookmarks, id : {1}]
        /\ given = 1 /\ sid = hash.id /\ session \in {0, hash.id}
    BY DEF Init, SessionInit
  <2>2. CASE hash = [view |-> None, id |-> 0]
    BY <2>1, <2>2 DEF SessionTyped
  <2>3. CASE hash \in [view : Bookmarks, id : {1}]
    BY <2>1, <2>3, SessionAssumption DEF SessionTyped
  <2> QED
    BY <2>1, <2>2, <2>3
<1>2. ScreenTyped
  BY DEF Init, ViewsInit, ScreenTyped
<1>3. NetTyped
  BY InterfacesAssumption DEF Init, InterfacesInit, NetTyped
<1>4. PollsTyped
  <2>1. /\ timeouts = [i \in Instances |-> None]
        /\ chains = [c \in 1 .. MaxChains |-> None]
        /\ asked = [c \in 1 .. MaxChains |-> None]
    BY DEF Init, ViewsInit, InterfacesInit
  <2> QED
    BY <2>1 DEF PollsTyped, OnePerPlace, In
<1> QED
  BY <1>1, <1>2, <1>3, <1>4 DEF TypesKept

LEMMA TypesAlways == Spec => []TypesKept
<1>1. TypesKept /\ [Next]_vars => TypesKept'
  BY SessionTypedStep, ScreenTypedStep, NetTypedStep, PollsTypedStep DEF TypesKept
<1> QED
  BY <1>1, TypesStart, PTL DEF Spec

\* Every variable keeps its type; only a refreshment under way waits for answers, and
\* no two refreshments whose timers a page knows of share a place among them: repeat
\* and finish of ui.js never lose the one timer of a place, however views overlap.
THEOREM PageTyped == Spec => []PageTypeOK
<1>1. TypesKept => PageTypeOK
  <2> SUFFICES ASSUME TypesKept PROVE PageTypeOK
    OBVIOUS
  <2>1. hash \in [view : Menu \cup {None}, id : 0 .. given]
    BY DEF TypesKept, SessionTyped
  <2>2. cached \in [Menu -> Instances \cup {None}] /\ current \in Instances \cup {None} /\ page \in Seq(Menu)
    BY DEF TypesKept, ScreenTyped
  <2>3. running \subseteq Names /\ rows \subseteq Names /\ objects \subseteq Names
    BY DEF TypesKept, NetTyped
  <2>4. DOMAIN chains = 1 .. MaxChains /\ timeouts \in [Instances -> Nat \cup {None}]
        /\ OnePerPlace /\ \A c \in 1 .. MaxChains : asked[c] # None <=> In(c, "call")
    BY DEF TypesKept, PollsTyped
  <2> QED
    BY <2>1, <2>2, <2>3, <2>4 DEF PageTypeOK, OnePerPlace
<1> QED
  BY <1>1, TypesAlways, PTL

-----------------------------------------------------------------------------
(* The session and the address *)

\* The page uses the session that the address names, but while the user logs in: then
\* the address names none.
SessionNamed ==
    /\ login \in {"none", "checking"} => sid = hash.id
    /\ login = "checking" => hash.id # 0
    /\ login \in {"asking", "logging"} => hash.id = 0

LEMMA SessionNamedStart == Init => SessionNamed
BY DEF Init, SessionInit, SessionNamed

LEMMA LoginNames ==
    ASSUME Login(hash), UNCHANGED hash PROVE SessionNamed'
BY DEF Login, SessionNamed

\* Whatever else changes the address leaves the session in it.
LEMMA SameOwner ==
    ASSUME SessionTyped, [Next]_vars, ~(SessionStep /\ ~LoadAnswer)
    PROVE  hash'.id = hash.id
<1>1. CASE Told \/ LoadAnswer
  BY <1>1, RenderAddress, HashViewed DEF Told
<1>2. CASE \E v \in Menu : Chosen(v)
  <2>1. PICK v \in Menu : hash' = Viewed(hash, v)
    BY <1>2 DEF Chosen, Choose, SetHash, Viewed
  <2> QED
    BY <2>1, HashViewed
<1>3. CASE ~AddressStep
  BY <1>3, AddressFrame
<1> QED
  BY <1>1, <1>2, <1>3 DEF AddressStep, SessionStep, LoginStep, SessionFault

LEMMA SessionNamedStep ==
    ASSUME SessionTyped, SessionNamed, [Next]_vars PROVE SessionNamed'
<1>1. CASE LoadAnswer
  <2>1. UNCHANGED <<sid, login>>
    BY <1>1 DEF LoadAnswer
  <2>2. hash'.id = hash.id
    BY <1>1, SameOwner
  <2> QED
    BY <2>1, <2>2 DEF SessionNamed
<1>2. CASE BeatAnswer \/ BeatLost \/ LoginRefused
  <2>1. UNCHANGED hash /\ Login(hash)
    BY <1>2 DEF BeatAnswer, BeatLost, Beat, LoginRefused, address
  <2> QED
    BY <2>1, LoginNames
<1>3. CASE CheckAnswer \/ CheckLost
  <2>1. PICK alive : Checked(alive)
    BY <1>3 DEF CheckAnswer, CheckLost
  <2>2. CASE alive
    <3>1. UNCHANGED <<hash, sid>> /\ login = "checking" /\ login' = "none"
      BY <2>1, <2>2 DEF Checked, LoggedIn, address
    <3> QED
      BY <3>1 DEF SessionNamed
  <2>3. CASE ~alive
    <3>1. hash' = Owned(hash, 0) /\ login' = "asking"
      BY <2>1, <2>3 DEF Checked, SetHash, Owned
    <3>2. hash'.id = 0
      BY <3>1, HashOwned
    <3> QED
      BY <3>1, <3>2 DEF SessionNamed
  <2> QED
    BY <2>2, <2>3
<1>4. CASE LoginAnswer
  <2>1. sid' = given + 1 /\ hash' = Owned(hash, given + 1) /\ login' = "none"
    BY <1>4 DEF LoginAnswer, SetHash, LoggedIn, Owned
  <2>2. given + 1 \in Nat /\ given + 1 \in 0 .. given + 1
    BY DEF SessionTyped
  <2>3. hash'.id = given + 1
    BY <2>1, <2>2, HashOwned
  <2> QED
    BY <2>1, <2>3 DEF SessionNamed
<1>5. CASE Submit
  <2>1. UNCHANGED hash /\ login = "asking" /\ login' = "logging"
    BY <1>5 DEF Submit, viewVars, address
  <2> QED
    BY <2>1 DEF SessionNamed
<1>6. CASE Cancel
  <2>1. login' = "left"
    BY <1>6 DEF Cancel
  <2> QED
    BY <2>1 DEF SessionNamed
<1>7. CASE Expire \/ LoadLost
  <2>1. UNCHANGED <<hash, sid, login>>
    BY <1>7 DEF Expire, LoadLost, address
  <2> QED
    BY <2>1 DEF SessionNamed
<1>8. CASE ~SessionStep
  <2>1. UNCHANGED <<sid, login>> /\ hash'.id = hash.id
    BY <1>8, SessionFrame, SameOwner
  <2> QED
    BY <2>1 DEF SessionNamed
<1> QED
  BY <1>1, <1>2, <1>3, <1>4, <1>5, <1>6, <1>7, <1>8 DEF SessionStep, LoginStep, SessionFault

\* Nothing but a drawing changes the address without the browser telling of it.
LEMMA AddressTold ==
    ASSUME SessionTyped, SessionNamed, [Next]_vars, ~DrawStep
    PROVE  UNCHANGED <<hash, untold>> \/ untold' \/ ~listening
<1>1. CASE Told
  BY <1>1 DEF DrawStep
<1>2. CASE LoadAnswer /\ UNCHANGED interfacesVars
  BY <1>2 DEF DrawStep
<1>3. CASE \E v \in Menu : Chosen(v)
  <2>1. PICK v \in Menu : v # hash.view /\ untold' = (Viewed(hash, v) # hash)
    BY <1>3 DEF Chosen, Choose, SetHash, Viewed
  <2>2. Viewed(hash, v) # hash
    BY <2>1, HashViewed
  <2> QED
    BY <2>1, <2>2
<1>4. CASE CheckAnswer \/ CheckLost
  <2>1. PICK alive : Checked(alive)
    BY <1>4 DEF CheckAnswer, CheckLost
  <2>2. CASE alive
    BY <2>1, <2>2 DEF Checked, address
  <2>3. CASE ~alive
    <3>1. untold' = (Owned(hash, 0) # hash) /\ login = "checking"
      BY <2>1, <2>3 DEF Checked, SetHash, Owned
    <3>2. Owned(hash, 0) # hash
      BY <3>1, HashOwned DEF SessionNamed
    <3> QED
      BY <3>1, <3>2
  <2> QED
    BY <2>2, <2>3
<1>5. CASE LoginAnswer
  <2>1. untold' = (Owned(hash, given + 1) # hash)
    BY <1>5 DEF LoginAnswer, SetHash, Owned
  <2>2. given \in Nat /\ given + 1 \in Nat /\ given + 1 \in 0 .. given + 1 /\ hash.id \in 0 .. given
    BY DEF SessionTyped
  <2>3. Owned(hash, given + 1) # hash
    BY <2>2, HashOwned
  <2> QED
    BY <2>1, <2>3
<1>6. CASE ~AddressStep
  BY <1>6, AddressFrame
<1> QED
  BY <1>1, <1>2, <1>3, <1>4, <1>5, <1>6 DEF AddressStep

-----------------------------------------------------------------------------
(* What is drawn is what the address names *)

\* Every draw under way is of the view of the address, which its instance is current for,
\* and the screen shows as much of it as was drawn.
InPlace(d) ==
    /\ ~untold => draws[d].view = hash.view
    /\ draws[d].stage # "script" => draws[d].inst = current /\ cached[draws[d].view] = current
    /\ draws[d].stage = "script" => current = None \/ timeouts[current] = None
    /\ draws[d].stage = "template" => page = <<>>
    /\ draws[d].stage = "data" => page = <<draws[d].view>>

Alone == \A d, e \in 1 .. MaxDraws : draws[d] # None /\ draws[e] # None => d = e

DrawsInPlace == Alone /\ \A d \in 1 .. MaxDraws : draws[d] # None => InPlace(d)

Shows(v) == page = <<v>> /\ current = cached[v]

DrawsOK ==
    /\ listening <=> boot = "up"
    /\ Drawing => boot = "up"
    /\ ~overlapped => DrawsInPlace
    /\ Still => Shows(hash.view)

\* A table with nothing in it has a place, and one draw in it is alone.
LEMMA FreePlace ==
    ASSUME ScreenTyped, ~Drawing
    PROVE  /\ Free(draws) \in 1 .. MaxDraws
           /\ \A d \in 1 .. MaxDraws : draws[d] = None
<1>1. \A d \in 1 .. MaxDraws : draws[d] = None
  BY DEF ScreenTyped, Drawing
<1>2. 1 \in 1 .. MaxDraws /\ DOMAIN draws = 1 .. MaxDraws
  BY ViewsAssumption DEF ScreenTyped
<1>3. \E n \in DOMAIN draws : draws[n] = None /\ \A m \in 1 .. n - 1 : draws[m] # None
  <2>1. draws[1] = None /\ \A m \in 1 .. 1 - 1 : draws[m] # None
    BY <1>1, <1>2
  <2> QED
    BY <1>2, <2>1
<1>4. Free(draws) \in DOMAIN draws
  BY <1>3 DEF Free
<1> QED
  BY <1>1, <1>2, <1>4

\* The one draw changed to another draw, or ended.
LEMMA OneDraw ==
    ASSUME ScreenTyped, NEW x \in 1 .. MaxDraws, NEW new \in Fitting \cup {None},
           \A d \in 1 .. MaxDraws : draws[d] # None => d = x,
           draws' = [draws EXCEPT ![x] = new]
    PROVE  /\ draws'[x] = new
           /\ \A d \in 1 .. MaxDraws : d # x => draws'[d] = None
           /\ Drawing' <=> new # None
           /\ Alone'
<1>1. draws'[x] = new /\ \A d \in 1 .. MaxDraws : d # x => draws'[d] = None
  BY DEF ScreenTyped
<1>2. DOMAIN draws' = 1 .. MaxDraws
  BY DEF ScreenTyped
<1> QED
  BY <1>1, <1>2 DEF Drawing, Alone

LEMMA RenderOK ==
    ASSUME ScreenTyped, PollsTyped, SessionTyped, NEW v \in Menu, RenderView(v), ~Drawing
    PROVE  DrawsInPlace' /\ Drawing'
<1>0. PICK x \in 1 .. MaxDraws : x = Free(draws)
  BY FreePlace
<1> DEFINE new == [view |-> v, inst |-> cached[v],
                   stage |-> IF cached[v] = None THEN "script" ELSE "template"]
<1>1. cached[v] \in Instances \cup {None}
  BY DEF ScreenTyped
<1>2. /\ new \in Fitting
      /\ new.view = v /\ new.inst = cached[v]
      /\ cached[v] = None => new.stage = "script"
      /\ cached[v] # None => new.stage = "template"
  BY <1>1, NoneIsNothing DEF Fitting, Draw, Stages
<1>3. draws' = [draws EXCEPT ![x] = new] /\ cached' = cached
  BY <1>0 DEF RenderView
<1>4. \A d \in 1 .. MaxDraws : draws[d] = None
  BY FreePlace
<1> HIDE DEF new
<1>5. new # None
  BY <1>2, NoneIsNothing
<1>6. /\ draws'[x] = new /\ Drawing' /\ Alone'
      /\ \A d \in 1 .. MaxDraws : d # x => draws'[d] = None
  BY <1>2, <1>3, <1>4, <1>5, OneDraw
<1>7. hash'.view = v
  <2>1. hash' = Viewed(hash, v)
    BY DEF RenderView, SetHash, Viewed
  <2> QED
    BY <2>1, HashViewed
<1>8. InPlace(x)'
  <2>1. CASE cached[v] = None
    <3>1. current' = current
      BY <2>1 DEF RenderView
    <3>2. current = None \/ timeouts'[current] = None
      <4>1. CASE current # None
        <5>1. timeouts' = [timeouts EXCEPT ![current] = None] /\ current \in Instances
          BY <4>1 DEF RenderView, Finish, ScreenTyped
        <5> QED
          BY <5>1 DEF PollsTyped
      <4> QED
        BY <4>1
    <3>3. draws'[x].stage = "script" /\ draws'[x].view = v
      BY <1>2, <1>6, <2>1
    <3> QED
      BY <1>7, <3>1, <3>2, <3>3 DEF InPlace
  <2>2. CASE cached[v] # None
    <3>1. current' = cached[v] /\ page' = <<>>
      BY <2>2 DEF RenderView
    <3>2. draws'[x].stage = "template" /\ draws'[x].view = v /\ draws'[x].inst = cached[v]
      BY <1>2, <1>6, <2>2
    <3> QED
      BY <1>3, <1>7, <3>1, <3>2 DEF InPlace
  <2> QED
    BY <2>1, <2>2
<1> QED
  BY <1>6, <1>8 DEF DrawsInPlace

\* Between two draws no timer is put where finish() found or left none, but by the page
\* that an operation draws anew.
LEMMA StaysNone ==
    ASSUME PollsTyped, [Next]_vars, ~DrawStep, NEW i \in Instances, timeouts[i] = None
    PROVE  timeouts'[i] = None \/ (~overlapped' => ~Drawing /\ i = current)
<1>1. ASSUME NEW c \in DOMAIN chains, RunRefresh(c) \/ StatusLost(c) PROVE timeouts'[i] = None
  BY <1>1 DEF RunRefresh, RunTimer, StatusLost, Thrown
<1>2. ASSUME NEW c \in DOMAIN chains, StatusAnswer(c) PROVE timeouts'[i] = None
  <2>1. SetTimer(c) \/ UNCHANGED timeouts
    BY <1>2 DEF StatusAnswer, Shown, Thrown
  <2>2. CASE SetTimer(c) /\ timeouts[chains[c].inst] # None
    <3>1. chains[c].inst # i
      BY <2>2
    <3>2. \E n : timeouts' = [timeouts EXCEPT ![chains[c].inst] = n]
      BY <2>2 DEF SetTimer, Armed
    <3> QED
      BY <3>1, <3>2 DEF PollsTyped
  <2>3. CASE SetTimer(c) /\ timeouts[chains[c].inst] = None
    BY <2>3 DEF SetTimer
  <2> QED
    BY <2>1, <2>2, <2>3
<1>3. ASSUME NEW o \in DOMAIN ops, ProtocolsAnswer(o)
      PROVE  timeouts'[i] = None \/ (~overlapped' => ~Drawing /\ i = current)
  <2>1. CASE cache = "full" /\ ifstate /\ devstate
    <3>1. /\ timeouts' = [timeouts EXCEPT ![ops[o].inst] = Length(ops[o].inst)]
          /\ overlapped' = (overlapped \/ Drawing \/ ops[o].inst # current)
      BY <1>3, <2>1 DEF ProtocolsAnswer, Repeat
    <3>2. CASE ops[o].inst = i
      BY <3>1, <3>2
    <3>3. CASE ops[o].inst # i
      BY <3>1, <3>3 DEF PollsTyped
    <3> QED
      BY <3>2, <3>3
  <2>2. CASE ~(cache = "full" /\ ifstate /\ devstate)
    BY <1>3, <2>2 DEF ProtocolsAnswer, polls
  <2> QED
    BY <2>1, <2>2
<1>4. CASE ~PollStep
  BY <1>4, PollFrame
<1> QED
  BY <1>1, <1>2, <1>3, <1>4 DEF PollStep

LEMMA OverlapStays ==
    ASSUME [Next]_vars, ~DrawStep PROVE ~overlapped' => ~overlapped
<1>1. ASSUME NEW o \in DOMAIN ops, ProtocolsAnswer(o) PROVE ~overlapped' => ~overlapped
  <2>1. \/ overlapped' = overlapped
        \/ overlapped' = (overlapped \/ Drawing \/ ops[o].inst # current)
    BY <1>1 DEF ProtocolsAnswer
  <2> QED
    BY <2>1
<1>2. CASE UNCHANGED overlapped
  BY <1>2
<1> QED
  BY <1>1, <1>2, DrawFrame

\* The page hears of its address from its first draw on.
LEMMA ListeningKept ==
    ASSUME [Next]_vars, ~LoadAnswer
    PROVE  UNCHANGED listening /\ (boot' = "up" <=> boot = "up")
<1>1. ASSUME NEW d \in DOMAIN draws, Template(d) PROVE UNCHANGED listening
  BY <1>1, TemplateDraws
<1>2. ASSUME NEW d \in DOMAIN draws, Script(d) \/ Data(d) \/ Unfound(d) PROVE UNCHANGED listening
  BY <1>2 DEF Script, Data, Unfound, ScriptAnswer, DataAnswer, FetchLost
<1>3. ASSUME Told PROVE UNCHANGED listening
  BY <1>3 DEF Told, HashChange
<1>10. ASSUME NEW v \in Menu, Chosen(v) PROVE UNCHANGED listening
  BY <1>10 DEF Chosen, Choose
<1>4. ASSUME NEW c \in DOMAIN chains, RunRefresh(c) \/ SetAnswer(c) \/ StatusAnswer(c) \/ StatusLost(c)
      PROVE  UNCHANGED listening
  BY <1>4 DEF RunRefresh, SetAnswer, StatusAnswer, StatusLost, viewVars
<1>5. CASE SessionStep
  <2>1. CASE BeatAnswer \/ BeatLost
    BY <2>1 DEF BeatAnswer, BeatLost, Beat
  <2>2. CASE CheckAnswer \/ CheckLost
    <3>1. PICK alive : Checked(alive)
      BY <2>2 DEF CheckAnswer, CheckLost
    <3> QED
      BY <3>1 DEF Checked, LoggedIn
  <2>3. CASE LoginAnswer
    BY <2>3 DEF LoginAnswer, LoggedIn
  <2>4. CASE LoginRefused \/ Expire \/ LoadLost
    BY <2>4 DEF LoginRefused, Expire, LoadLost
  <2>5. CASE Submit \/ Cancel
    BY <2>5 DEF Submit, Cancel, viewVars
  <2> QED
    BY <1>5, <2>1, <2>2, <2>3, <2>4, <2>5 DEF SessionStep, LoginStep, SessionFault
<1>6. ASSUME NEW o \in DOMAIN ops, \/ SaveAnswer(o) \/ SaveLost(o) \/ ChangesAnswer(o) \/ ApplyAnswer(o)
             \/ ApplyLost(o) \/ ConfirmAnswer(o) \/ ConfirmLost(o) \/ UpdateAnswer(o) \/ UpdateLost(o)
      PROVE  UNCHANGED listening
  BY <1>6, OperationFrame
<1>7. ASSUME Rollback \/ UNCHANGED vars PROVE UNCHANGED listening
  <2>1. UNCHANGED viewVars
    BY <1>7 DEF Rollback, vars
  <2> QED
    BY <2>1 DEF viewVars
<1>8. ASSUME NEW way, NEW n, Press(way, n) PROVE UNCHANGED listening
  BY <1>8 DEF Press
<1>11. ASSUME NEW i, NEW way, NEW n, Confirm(i, way, n) PROVE UNCHANGED listening
  BY <1>11 DEF Confirm
<1>12. ASSUME NEW o \in DOMAIN ops, ProtocolsAnswer(o) PROVE UNCHANGED listening
  BY <1>12 DEF ProtocolsAnswer
<1>9. UNCHANGED listening
  BY <1>1, <1>2, <1>3, <1>4, <1>5, <1>6, <1>7, <1>8, <1>10, <1>11, <1>12, SomeStep
<1> QED
  BY <1>5, <1>9, SessionFrame

\* A state of rest is reached by drawing only: other steps do not leave one for another.
LEMMA RestBefore ==
    ASSUME SessionTyped, SessionNamed, DrawsOK, [Next]_vars, ~DrawStep, ~LoadAnswer, Still'
    PROVE  Still /\ UNCHANGED <<hash, cached, current, page, drawn>>
<1>1. UNCHANGED <<cached, current, draws, page, drawn>> /\ lost' \in {lost, TRUE}
  BY DrawFrame
<1>2. UNCHANGED listening /\ (boot' = "up" <=> boot = "up")
  BY ListeningKept
<1>3. boot' = "up" /\ ~untold' /\ ~Drawing' /\ ~lost' /\ ~overlapped'
  BY DEF Still
<1>4. listening /\ boot = "up"
  BY <1>2, <1>3 DEF DrawsOK
<1>5. UNCHANGED <<hash, untold>>
  BY <1>3, <1>4, AddressTold
<1>6. ~overlapped /\ ~lost /\ ~Drawing
  <2>1. ~overlapped
    BY <1>3, OverlapStays
  <2>2. ~lost
    BY Zenon, <1>1, <1>3
  <2>3. ~Drawing
    BY <1>1, <1>3 DEF Drawing
  <2> QED
    BY <2>1, <2>2, <2>3
<1> QED
  BY <1>1, <1>3, <1>4, <1>5, <1>6 DEF Still

\* A step that draws nothing.
LEMMA NothingDrawn ==
    ASSUME ScreenTyped, PollsTyped, SessionTyped, SessionNamed, DrawsOK, [Next]_vars,
           ~DrawStep, ~LoadAnswer
    PROVE  DrawsOK'
<1>1. UNCHANGED <<cached, current, draws, page>>
  BY DrawFrame
<1>2. UNCHANGED listening /\ (boot' = "up" <=> boot = "up")
  BY ListeningKept
<1>3. ~overlapped' => ~overlapped
  BY OverlapStays
<1>4. UNCHANGED <<hash, untold>> \/ untold' \/ ~listening
  BY AddressTold
<1>5. Drawing' <=> Drawing
  BY <1>1 DEF Drawing
<1>6. ASSUME ~overlapped' PROVE DrawsInPlace'
  <2>1. DrawsInPlace
    BY <1>3, <1>6 DEF DrawsOK
  <2>2. Alone'
    BY <1>1, <2>1 DEF DrawsInPlace, Alone
  <2>3. ASSUME NEW d \in 1 .. MaxDraws, draws[d] # None PROVE InPlace(d)'
    <3>1. InPlace(d) /\ Drawing
      BY <2>1, <2>3 DEF DrawsInPlace, Drawing, ScreenTyped
    <3>2. ~untold' => draws'[d].view = hash'.view
      BY <1>1, <1>2, <1>4, <3>1 DEF InPlace, DrawsOK
    <3>3. draws[d].stage = "script" => current = None \/ timeouts'[current] = None
      BY <1>6, <3>1, StaysNone DEF InPlace, ScreenTyped
    <3> QED
      BY <1>1, <3>1, <3>2, <3>3 DEF InPlace
  <2> QED
    BY <1>1, <2>2, <2>3 DEF DrawsInPlace
<1>7. Still' => Shows(hash.view)'
  BY RestBefore DEF DrawsOK, Shows
<1> QED
  BY <1>2, <1>5, <1>6, <1>7 DEF DrawsOK

\* The one draw came to its end.
LEMMA DrawEnds ==
    ASSUME ScreenTyped, DrawsInPlace, NEW d \in DOMAIN draws, draws[d] # None,
           draws' = [draws EXCEPT ![d] = None]
    PROVE  DrawsInPlace' /\ ~Drawing'
<1>1. d \in 1 .. MaxDraws /\ \A e \in 1 .. MaxDraws : draws[e] # None => e = d
  BY DEF ScreenTyped, DrawsInPlace, Alone
<1>2. \A e \in 1 .. MaxDraws : draws'[e] = None
  BY <1>1 DEF ScreenTyped
<1>3. DOMAIN draws' = 1 .. MaxDraws
  BY DEF ScreenTyped
<1> QED
  BY <1>2, <1>3 DEF DrawsInPlace, Alone, Drawing

\* A view begins to be drawn, after the start and after a change of the address.
LEMMA DrawBegun ==
    ASSUME ScreenTyped, PollsTyped, SessionTyped, DrawsOK,
           (Told /\ listening) \/ LoadAnswer
    PROVE  DrawsOK'
<1>1. PICK v \in Menu : RenderView(v)
  <2>1. (IF hash.view \in Menu THEN hash.view ELSE First) \in Menu
    BY ViewsAssumption
  <2> QED
    BY <2>1 DEF Told, HashChange, LoadAnswer
<1>2. listening' /\ boot' = "up"
  <2>1. CASE Told /\ listening
    BY <2>1 DEF Told, HashChange, Elsewhere, sessionVars, DrawsOK
  <2>2. CASE LoadAnswer
    BY <2>2 DEF LoadAnswer
  <2> QED
    BY <2>1, <2>2
<1>3. overlapped' = (overlapped \/ Drawing)
  BY <1>1 DEF RenderView
<1>4. CASE Drawing
  BY <1>2, <1>3, <1>4 DEF DrawsOK, Still
<1>5. CASE ~Drawing
  <2>1. DrawsInPlace' /\ Drawing'
    BY <1>1, <1>5, RenderOK
  <2> QED
    BY <1>2, <2>1 DEF DrawsOK, Still
<1> QED
  BY <1>4, <1>5

\* A template fills the empty screen, and the view is drawn to its end or waits for data.
LEMMA DrawFilled ==
    ASSUME ScreenTyped, DrawsInPlace, NEW d \in DOMAIN draws, Template(d)
    PROVE  /\ DrawsInPlace'
           /\ ~Drawing' /\ ~untold' => Shows(hash.view)'
<1>1. draws[d] # None /\ draws[d].stage = "template"
  BY TemplateDraws
<1>2. /\ d \in 1 .. MaxDraws /\ draws[d] \in Fitting /\ draws[d].view \in Menu
      /\ \A e \in 1 .. MaxDraws : draws[e] # None => e = d
  BY <1>1, UnderWay DEF DrawsInPlace, Alone
<1>3. InPlace(d)
  BY <1>1, <1>2 DEF DrawsInPlace
<1>4. PICK w \in Menu : w = draws[d].view
  BY <1>2
<1>5. page' = <<w>> /\ UNCHANGED <<cached, current, hash, untold>>
  <2>1. page = <<>> /\ page' = Append(page, w)
    BY <1>1, <1>3, <1>4, TemplateDraws DEF InPlace
  <2>2. page' = <<w>>
    BY <2>1
  <2> QED
    BY <2>2, TemplateDraws
<1>6. (~untold => w = hash.view) /\ cached[w] = current /\ draws[d].inst = current
  BY <1>1, <1>3, <1>4 DEF InPlace
<1>7. CASE draws' = [draws EXCEPT ![d] = None]
  <2>1. DrawsInPlace'
    BY <1>1, <1>7, DrawEnds
  <2>2. ~untold' => Shows(hash.view)'
    BY <1>5, <1>6 DEF Shows
  <2> QED
    BY <2>1, <2>2
<1>8. CASE w \notin Refreshing /\ draws' = [draws EXCEPT ![d] = Waiting(draws[d])]
  <2>1. PICK new \in Fitting : new = Waiting(draws[d])
    BY <1>1, <1>2, <1>4, <1>8, WaitingFits
  <2>2. new.view = w /\ new.inst = current /\ new.stage = "data" /\ new # None
    BY <1>1, <1>2, <1>4, <1>6, <1>8, <2>1, WaitingFits, NoneIsNothing
  <2>0. draws' = [draws EXCEPT ![d] = new]
    BY Zenon, <1>8, <2>1
  <2>3. /\ draws'[d] = new /\ Drawing' /\ Alone'
        /\ \A e \in 1 .. MaxDraws : e # d => draws'[e] = None
    <3>1. d \in 1 .. MaxDraws /\ new \in Fitting \cup {None} /\ new # None
      BY <1>2, <2>2
    <3>2. \A e \in 1 .. MaxDraws : draws[e] # None => e = d
      BY <1>2
    <3> QED
      BY <2>0, <3>1, <3>2, OneDraw
  <2>4. InPlace(d)'
    BY <1>5, <1>6, <2>2, <2>3 DEF InPlace
  <2> QED
    BY <2>3, <2>4 DEF DrawsInPlace
<1> QED
  BY <1>4, <1>7, <1>8, TemplateDraws

\* The script makes the instance that is now current, and empties the screen.
LEMMA DrawScripted ==
    ASSUME ScreenTyped, DrawsInPlace, NEW d \in DOMAIN draws, Script(d)
    PROVE  DrawsInPlace' /\ Drawing'
<1>1. draws[d] # None /\ draws[d].stage = "script" /\ page' = <<>> /\ UNCHANGED <<hash, untold>>
  BY DEF Script, ScriptAnswer, At, address
<1>2. /\ d \in 1 .. MaxDraws /\ draws[d] \in Fitting /\ draws[d].view \in Menu
      /\ \A e \in 1 .. MaxDraws : draws[e] # None => e = d
  BY <1>1, UnderWay DEF DrawsInPlace, Alone
<1>3. InPlace(d)
  BY <1>1, <1>2 DEF DrawsInPlace
<1>4. PICK w \in Menu : w = draws[d].view
  BY <1>2
<1>5. PICK i \in Instances : /\ draws' = [draws EXCEPT ![d] = Begun(draws[d], i)]
                             /\ cached' = [cached EXCEPT ![w] = i]
                             /\ current' = i
  BY <1>4, ScriptDraws DEF Script, Unused
<1>6. PICK new \in Fitting : new = Begun(draws[d], i)
  BY <1>2, BegunFits
<1>7. new.view = w /\ new.inst = i /\ new.stage = "template" /\ new # None
  BY <1>2, <1>4, <1>6, BegunFits, NoneIsNothing
<1>12. draws' = [draws EXCEPT ![d] = new]
  BY Zenon, <1>5, <1>6
<1>8. /\ draws'[d] = new /\ Drawing' /\ Alone'
      /\ \A e \in 1 .. MaxDraws : e # d => draws'[e] = None
  <2>1. d \in 1 .. MaxDraws /\ new \in Fitting \cup {None} /\ new # None
    BY <1>2, <1>7
  <2>2. \A e \in 1 .. MaxDraws : draws[e] # None => e = d
    BY <1>2
  <2> QED
    BY <1>12, <2>1, <2>2, OneDraw
<1>9. cached'[w] = i
  BY <1>5 DEF ScreenTyped
<1>10. ~untold => w = hash.view
  BY <1>3, <1>4 DEF InPlace
<1>11. InPlace(d)'
  BY <1>1, <1>5, <1>7, <1>8, <1>9, <1>10 DEF InPlace
<1> QED
  BY <1>8, <1>11 DEF DrawsInPlace

LEMMA DrawsOKStart == Init => DrawsOK
<1> SUFFICES ASSUME Init PROVE DrawsOK
  OBVIOUS
<1>1. boot = "login" /\ listening = FALSE /\ draws = [d \in 1 .. MaxDraws |-> None]
  BY DEF Init, ViewsInit, SessionInit
<1>2. \A d \in 1 .. MaxDraws : draws[d] = None
  BY <1>1
<1>3. ~Drawing /\ DrawsInPlace
  BY <1>1, <1>2 DEF Drawing, DrawsInPlace, Alone
<1> QED
  BY <1>1, <1>3 DEF DrawsOK, Still

LEMMA DrawsOKStep ==
    ASSUME TypesKept, SessionNamed, DrawsOK, [Next]_vars PROVE DrawsOK'
<1>0. ScreenTyped /\ PollsTyped /\ SessionTyped
  BY DEF TypesKept
<1>1. CASE (Told /\ listening) \/ LoadAnswer
  BY <1>0, <1>1, DrawBegun
<1>2. CASE ~LoadAnswer /\ DrawStep /\ ~(Told /\ listening)
  <2>1. PICK d \in DOMAIN draws : Template(d) \/ Script(d) \/ Data(d) \/ Unfound(d)
    BY <1>2 DEF DrawStep
  <2>2. UNCHANGED listening /\ (boot' = "up" <=> boot = "up")
    BY <1>2, ListeningKept
  <2>3. boot' = "up" /\ listening'
    <3>1. draws[d] # None
      BY <2>1, TemplateDraws DEF Script, Data, Unfound, ScriptAnswer, DataAnswer, FetchLost, At
    <3> QED
      BY <2>2, <3>1 DEF Drawing, DrawsOK
  <2>4. UNCHANGED overlapped
    BY <2>1, TemplateDraws DEF Script, Data, Unfound, ScriptAnswer, DataAnswer, FetchLost
  <2>5. CASE overlapped
    BY <2>3, <2>4, <2>5 DEF DrawsOK, Still
  <2>6. CASE ~overlapped
    <3>1. DrawsInPlace
      BY <2>6 DEF DrawsOK
    <3>2. CASE Template(d)
      <4>1. DrawsInPlace' /\ (~Drawing' /\ ~untold' => Shows(hash.view)')
        BY <1>0, <3>1, <3>2, DrawFilled
      <4> QED
        BY <2>3, <4>1 DEF DrawsOK, Still
    <3>3. CASE Script(d)
      <4>1. DrawsInPlace' /\ Drawing'
        BY <1>0, <3>1, <3>3, DrawScripted
      <4> QED
        BY <2>3, <4>1 DEF DrawsOK, Still
    <3>4. CASE Data(d)
      <4>1. /\ draws[d] # None /\ draws[d].stage = "data" /\ draws' = [draws EXCEPT ![d] = None]
            /\ UNCHANGED <<cached, current, page, hash, untold>>
        BY <3>4 DEF Data, DataAnswer, At, Execute, address
      <4>2. DrawsInPlace' /\ ~Drawing'
        BY <1>0, <3>1, <4>1, DrawEnds
      <4>3. InPlace(d)
        BY <1>0, <3>1, <4>1 DEF DrawsInPlace, ScreenTyped
      <4>4. ~untold' => Shows(hash.view)'
        BY <4>1, <4>3 DEF InPlace, Shows
      <4> QED
        BY <2>3, <4>2, <4>4 DEF DrawsOK, Still
    <3>5. CASE Unfound(d)
      <4>1. draws[d] # None /\ draws' = [draws EXCEPT ![d] = None] /\ lost'
        BY <3>5 DEF Unfound, FetchLost, At, Loss
      <4>2. DrawsInPlace' /\ ~Drawing'
        BY <1>0, <3>1, <4>1, DrawEnds
      <4> QED
        BY <2>3, <4>1, <4>2 DEF DrawsOK, Still
    <3> QED
      BY <2>1, <3>2, <3>3, <3>4, <3>5
  <2> QED
    BY <2>5, <2>6
<1>3. CASE ~LoadAnswer /\ ~DrawStep
  BY <1>0, <1>3, NothingDrawn
<1> QED
  BY <1>1, <1>2, <1>3

LEMMA DrawsAlways == Spec => [](TypesKept /\ SessionNamed /\ DrawsOK)
<1>1. TypesKept /\ SessionNamed /\ DrawsOK /\ [Next]_vars => SessionNamed' /\ DrawsOK'
  BY SessionNamedStep, DrawsOKStep DEF TypesKept
<1> QED
  BY <1>1, TypesAlways, SessionNamedStart, DrawsOKStart, PTL DEF Spec

\* Once every draw has come to its end, the view that the address names is alone on the
\* screen and taken for current: changeView and renderView of ui.js, for any number of
\* views and whatever was chosen, logged in, refreshed, saved or refused meanwhile.
THEOREM SettledAlways == Spec => []Settled
<1>1. DrawsOK => Settled
  BY DEF DrawsOK, Settled, Shows
<1> QED
  BY <1>1, DrawsAlways, PTL

-----------------------------------------------------------------------------
(* What is drawn is drawn for the session of the page *)

LEMMA LostStays ==
    ASSUME [Next]_vars PROVE lost' \in {lost, TRUE}
<1>1. CASE Told
  BY <1>1 DEF Told, HashChange, budget
<1>2. CASE LoadAnswer
  BY <1>2 DEF LoadAnswer, budget
<1>3. ASSUME NEW d \in DOMAIN draws, Template(d) PROVE lost' \in {lost, TRUE}
  BY <1>3, TemplateDraws
<1>4. ASSUME NEW d \in DOMAIN draws, Script(d) \/ Data(d) \/ Unfound(d) PROVE lost' \in {lost, TRUE}
  BY <1>4 DEF Script, Data, Unfound, ScriptAnswer, DataAnswer, FetchLost, budget, Loss
<1>5. CASE ~DrawStep
  BY <1>5, DrawFrame
<1> QED
  BY <1>1, <1>2, <1>3, <1>4, <1>5 DEF DrawStep

\* The interfaces that are there can be shown, unless an answer was lost.
ShowableOK == lost \/ Showable(ifstate, devstate, objects)

LEMMA ShowableStart == Init => ShowableOK
BY DEF Init, InterfacesInit, ShowableOK, Showable

LEMMA ShowableStep ==
    ASSUME ShowableOK, [Next]_vars PROVE ShowableOK'
<1>0. lost' \in {lost, TRUE}
  BY LostStays
<1>1. ASSUME UNCHANGED <<ifstate, devstate, objects>> PROVE ShowableOK'
  BY <1>0, <1>1 DEF ShowableOK, Showable
<1>2. CASE Told \/ SessionStep \/ (\E v \in Menu : Chosen(v))
             \/ \E d \in DOMAIN draws : Script(d) \/ Data(d) \/ Unfound(d)
  <2>1. UNCHANGED <<ifstate, devstate, objects>>
    BY Zenon, <1>2 DEF Told, Chosen, Script, Data, Unfound, SessionStep, Elsewhere, interfacesVars, network
  <2> QED
    BY <1>1, <2>1
<1>3. ASSUME NEW d \in DOMAIN draws, Template(d) PROVE ShowableOK'
  BY <1>1, <1>3 DEF Template, network
<1>4. ASSUME NEW c \in DOMAIN chains, RunRefresh(c) \/ SetAnswer(c) PROVE ShowableOK'
  BY <1>1, <1>4 DEF RunRefresh, SetAnswer, network
<1>5. ASSUME NEW c \in DOMAIN chains, StatusAnswer(c) PROVE ShowableOK'
  BY <1>5 DEF StatusAnswer, ShowableOK, Showable
<1>6. ASSUME NEW c \in DOMAIN chains, StatusLost(c) PROVE ShowableOK'
  BY <1>6 DEF StatusLost, Loss, ShowableOK
<1>7. ASSUME NEW o \in DOMAIN ops, SaveAnswer(o) \/ SaveLost(o) PROVE ShowableOK'
  BY <1>1, <1>7 DEF SaveAnswer, SaveLost, Store, network
<1>8. ASSUME NEW o \in DOMAIN ops, ChangesAnswer(o) \/ ConfirmLost(o) PROVE ShowableOK'
  BY <1>1, <1>8 DEF ChangesAnswer, ConfirmLost, network
<1>9. ASSUME NEW o \in DOMAIN ops, ApplyAnswer(o) \/ ApplyLost(o) PROVE ShowableOK'
  BY <1>1, <1>9 DEF ApplyAnswer, ApplyLost, network
<1>10. ASSUME NEW o \in DOMAIN ops, ConfirmAnswer(o) PROVE ShowableOK'
  BY <1>10 DEF ConfirmAnswer, ShowableOK, Showable
<1>11. ASSUME NEW o \in DOMAIN ops, UpdateAnswer(o) PROVE ShowableOK'
  BY <1>11 DEF UpdateAnswer, ShowableOK, Showable
<1>12. ASSUME NEW o \in DOMAIN ops, UpdateLost(o) PROVE ShowableOK'
  BY <1>12 DEF UpdateLost, Loss, ShowableOK
<1>13. ASSUME NEW o \in DOMAIN ops, ProtocolsAnswer(o) PROVE ShowableOK'
  <2>1. UNCHANGED <<ifstate, devstate>> /\ ((ifstate /\ devstate) \/ UNCHANGED objects)
    BY <1>13 DEF ProtocolsAnswer
  <2> QED
    BY <1>0, <2>1 DEF ShowableOK, Showable
<1>14. CASE \E way \in Ways, n \in Names : Press(way, n)
  <2>1. UNCHANGED <<ifstate, devstate, objects>>
    BY Zenon, <1>14 DEF Press, network
  <2> QED
    BY <1>1, <2>1
<1>15. CASE \E i \in Instances, way \in {"add", "remove"}, n \in Names : Confirm(i, way, n)
  <2>1. UNCHANGED <<ifstate, devstate, objects>>
    BY Zenon, <1>15 DEF Confirm, network
  <2> QED
    BY <1>1, <2>1
<1>16. CASE Rollback \/ UNCHANGED vars
  BY <1>1, <1>16 DEF Rollback, vars, interfacesVars, network
<1> QED
  BY <1>2, <1>3, <1>4, <1>5, <1>6, <1>7, <1>8, <1>9, <1>10, <1>11, <1>12, <1>13, <1>14, <1>15, <1>16,
     SomeStep

\* What is on the screen was drawn for the session that the address names.
DrawnOK == Still /\ login \in {"none", "checking"} => drawn = hash.id

\* A login that begins again under the same address asks the user, unless the session was used.
LEMMA LoginUnchanged ==
    ASSUME SessionTyped, SessionNamed, Watched, [Next]_vars, UNCHANGED hash,
           login' \in {"none", "checking"}
    PROVE  login \in {"none", "checking"}
<1>1. CASE BeatAnswer \/ BeatLost
  BY <1>1 DEF BeatAnswer, BeatLost, Beat, Watched
<1>2. CASE CheckAnswer \/ CheckLost
  BY <1>2 DEF CheckAnswer, CheckLost, Checked
<1>3. CASE LoginAnswer
  <2>1. hash' = Owned(hash, given + 1)
    BY <1>3 DEF LoginAnswer, SetHash, Owned
  <2>2. given \in Nat /\ given + 1 \in Nat /\ given + 1 \in 0 .. given + 1 /\ hash.id \in 0 .. given
    BY DEF SessionTyped
  <2>3. Owned(hash, given + 1) # hash
    BY <2>2, HashOwned
  <2> QED
    BY <2>1, <2>3
<1>4. CASE LoginRefused
  BY <1>4 DEF LoginRefused, Login, SessionNamed
<1>5. CASE Submit \/ Cancel
  BY <1>5 DEF Submit, Cancel
<1>6. CASE LoadAnswer \/ LoadLost \/ Expire
  BY <1>6 DEF LoadAnswer, LoadLost, Expire
<1>7. CASE ~SessionStep
  BY <1>7, SessionFrame
<1> QED
  BY <1>1, <1>2, <1>3, <1>4, <1>5, <1>6, <1>7 DEF SessionStep, LoginStep, SessionFault

LEMMA DrawnOKStart == Init => DrawnOK
BY DEF Init, SessionInit, DrawnOK, Still

LEMMA DrawnOKStep ==
    ASSUME TypesKept, SessionNamed, DrawsOK, Watched, ShowableOK, DrawnOK, [Next]_vars PROVE DrawnOK'
<1>0. ScreenTyped /\ PollsTyped /\ SessionTyped
  BY DEF TypesKept
<1> SUFFICES ASSUME Still', login' \in {"none", "checking"} PROVE drawn' = hash'.id
  BY DEF DrawnOK
<1>1. CASE (Told /\ listening) \/ LoadAnswer
  <2>1. overlapped' = (overlapped \/ Drawing)
    BY <1>1 DEF Told, HashChange, LoadAnswer, RenderView
  <2>2. ~Drawing
    BY <2>1 DEF Still
  <2>3. PICK v \in Menu : RenderView(v)
    <3>1. (IF hash.view \in Menu THEN hash.view ELSE First) \in Menu
      BY ViewsAssumption
    <3> QED
      BY <1>1, <3>1 DEF Told, HashChange, LoadAnswer
  <2>4. Drawing'
    BY <1>0, <2>2, <2>3, RenderOK
  <2> QED
    BY <2>4 DEF Still
<1>2. CASE ~LoadAnswer /\ DrawStep /\ ~(Told /\ listening)
  <2>1. PICK d \in DOMAIN draws : Template(d) \/ Script(d) \/ Data(d) \/ Unfound(d)
    BY <1>2 DEF DrawStep
  <2>2. UNCHANGED <<hash, sid, login>>
    BY <2>1, TemplateDraws DEF Template, Script, Data, Unfound, Elsewhere, sessionVars, ScriptAnswer,
       DataAnswer, FetchLost, address
  <2>3. UNCHANGED overlapped
    BY <2>1, TemplateDraws DEF Script, Data, Unfound, ScriptAnswer, DataAnswer, FetchLost
  <2>4. DrawsInPlace
    BY <2>3 DEF Still, DrawsOK
  <2>5. CASE drawn' = sid
    BY <2>2, <2>5 DEF SessionNamed
  <2>6. CASE Template(d) /\ drawn' # sid
    <3>1. CASE draws[d].view \in Refreshing
      <4>1. ~Showable(ifstate, devstate, objects) /\ UNCHANGED lost
        BY <2>6, <3>1, TemplateDraws
      <4> QED
        BY <4>1 DEF ShowableOK, Still
    <3>2. CASE draws[d].view \notin Refreshing
      <4>1. draws[d] # None /\ draws[d].stage = "template" /\ draws' = [draws EXCEPT ![d] = Waiting(draws[d])]
        BY <2>6, <3>2, TemplateDraws
      <4>2. draws[d] \in Fitting /\ d \in 1 .. MaxDraws
        BY <1>0, <4>1, UnderWay
      <4>3. Waiting(draws[d]) \in Fitting
        BY <3>2, <4>1, <4>2, WaitingFits
      <4>4. draws'[d] # None /\ d \in DOMAIN draws'
        BY <4>1, <4>3, NoneIsNothing
      <4> QED
        BY <4>4 DEF Still, Drawing
    <3> QED
      BY <3>1, <3>2
  <2>7. CASE Script(d)
    <3>1. Drawing'
      BY <1>0, <2>4, <2>7, DrawScripted
    <3> QED
      BY <3>1 DEF Still
  <2>8. CASE Data(d)
    BY <2>5, <2>8 DEF Data, DataAnswer, Execute
  <2>9. CASE Unfound(d)
    BY <2>9 DEF Unfound, FetchLost, Loss, Still
  <2> QED
    BY <2>1, <2>5, <2>6, <2>7, <2>8, <2>9
<1>3. CASE ~LoadAnswer /\ ~DrawStep
  <2>1. Still /\ UNCHANGED <<hash, drawn>>
    BY <1>0, <1>3, RestBefore
  <2>2. login \in {"none", "checking"}
    BY <1>0, <2>1, LoginUnchanged
  <2> QED
    BY <2>1, <2>2 DEF DrawnOK
<1> QED
  BY <1>1, <1>2, <1>3

\* Once every draw has come to its end and nobody logs in, what is on the screen was drawn
\* for the session that the page uses: changeView of ui.js draws again after every login,
\* also one that interrupts a draw, and never for a session that ended.
THEOREM RedrawnAlways == Spec => []RedrawnAfterLogin
<1>1. SessionNamed /\ DrawnOK => RedrawnAfterLogin
  BY DEF SessionNamed, DrawnOK, RedrawnAfterLogin
<1>2. TypesKept /\ SessionNamed /\ DrawsOK /\ Watched /\ ShowableOK /\ DrawnOK /\ [Next]_vars
      => ShowableOK' /\ DrawnOK'
  BY ShowableStep, DrawnOKStep
<1> QED
  BY <1>1, <1>2, DrawsAlways, SessionWatched, ShowableStart, DrawnOKStart, PTL DEF Spec

-----------------------------------------------------------------------------
(* What still refreshes a page that was left ends *)

\* The instance of a refreshment is the current one or was told to stop.
Quiet(c) == chains[c].inst # current => timeouts[chains[c].inst] = None

QuietOK == ~overlapped => \A c \in 1 .. MaxChains : chains[c] # None => Quiet(c)

LEMMA QuietStart == Init => QuietOK
<1> SUFFICES ASSUME Init PROVE QuietOK
  OBVIOUS
<1>1. chains = [c \in 1 .. MaxChains |-> None]
  BY DEF Init, ViewsInit
<1> QED
  BY <1>1 DEF QuietOK

\* Refreshments that go on under the current instance, and timers that are put there.
LEMMA QuietKept ==
    ASSUME PollsTyped, QuietOK, ~overlapped, UNCHANGED current,
           \A i \in Instances : i # current => timeouts'[i] = timeouts[i],
           \A c \in 1 .. MaxChains : chains'[c] # None =>
              \/ chains[c] # None /\ chains'[c].inst = chains[c].inst
              \/ chains'[c].inst = current
    PROVE  QuietOK'
<1> SUFFICES ASSUME NEW c \in 1 .. MaxChains, chains'[c] # None, chains'[c].inst # current
             PROVE  timeouts'[chains'[c].inst] = None
  BY DEF QuietOK, Quiet
<1>1. chains[c] # None /\ chains'[c].inst = chains[c].inst
  OBVIOUS
<1>2. timeouts[chains[c].inst] = None
  BY <1>1 DEF QuietOK, Quiet
<1>3. chains[c].inst \in Instances
  BY <1>1, ChainFields DEF PollsTyped
<1> QED
  BY <1>1, <1>2, <1>3

LEMMA RepeatQuiet ==
    ASSUME PollsTyped, QuietOK, ~overlapped, UNCHANGED current, Repeat(current), current \in Instances
    PROVE  QuietOK'
<1> DEFINE x   == Free(chains)
           new == [inst |-> current, index |-> Length(current) + 1, state |-> "call", known |-> FALSE]
<1>1. chains' = [chains EXCEPT ![x] = new] /\ new.inst = current
      /\ timeouts' = [timeouts EXCEPT ![current] = Length(current)]
  BY DEF Repeat
<1> HIDE DEF x, new
<1>2. \A c \in 1 .. MaxChains : chains'[c] = new \/ chains'[c] = chains[c]
  BY <1>1 DEF PollsTyped
<1>3. \A i \in Instances : i # current => timeouts'[i] = timeouts[i]
  BY <1>1 DEF PollsTyped
<1>4. \A c \in 1 .. MaxChains : chains'[c] # None =>
         \/ chains[c] # None /\ chains'[c].inst = chains[c].inst
         \/ chains'[c].inst = current
  BY <1>1, <1>2
<1> QED
  BY <1>3, <1>4, QuietKept

\* finish(): the page that is left has no timers, whatever is drawn next.
LEMMA FinishQuiet ==
    ASSUME PollsTyped, ScreenTyped, QuietOK, ~overlapped, Finish
    PROVE  QuietOK'
<1>1. CASE current = None
  <2>1. UNCHANGED <<timeouts, chains>>
    BY <1>1 DEF Finish, polls
  <2>2. ASSUME NEW c \in 1 .. MaxChains, chains[c] # None PROVE timeouts[chains[c].inst] = None
    <3>1. chains[c].inst \in Instances
      BY <2>2, ChainFields DEF PollsTyped
    <3>2. chains[c].inst # current
      BY <1>1, <3>1, NoneIsNothing
    <3> QED
      BY <2>2, <3>2 DEF QuietOK, Quiet
  <2> QED
    BY <2>1, <2>2 DEF QuietOK, Quiet
<1>2. CASE current # None
  <2>1. /\ timeouts' = [timeouts EXCEPT ![current] = None]
        /\ chains' = [e \in DOMAIN chains |->
                         IF ~Of(e, current) THEN chains[e]
                         ELSE IF chains[e].known /\ chains[e].state = "timer" THEN None
                         ELSE Forgotten(chains[e])]
    BY <1>2 DEF Finish, Forgotten
  <2>2. \A e \in 1 .. MaxChains : chains'[e] \in {chains[e], None} \/ (Of(e, current) /\ chains'[e] = Forgotten(chains[e]))
    BY <2>1 DEF PollsTyped
  <2>3. \A e \in 1 .. MaxChains : Of(e, current) => chains[e] \in Chain
    BY DEF PollsTyped, Of
  <2>4. \A e \in 1 .. MaxChains : chains'[e] # None => chains[e] # None /\ chains'[e].inst = chains[e].inst
    BY <2>2, <2>3, ForgottenChain
  <2>5. ASSUME NEW c \in 1 .. MaxChains, chains'[c] # None PROVE timeouts'[chains'[c].inst] = None
    <3>1. chains[c] # None /\ chains'[c].inst = chains[c].inst
      BY <2>4, <2>5
    <3>2. chains[c].inst \in Instances
      BY <3>1, ChainFields DEF PollsTyped
    <3>3. chains[c].inst # current => timeouts[chains[c].inst] = None
      BY <3>1 DEF QuietOK, Quiet
    <3> QED
      BY <2>1, <3>1, <3>2, <3>3 DEF PollsTyped
  <2> QED
    BY <2>5 DEF QuietOK, Quiet
<1> QED
  BY <1>1, <1>2

\* A timer is set under the current instance only.
LEMMA SetTimerQuiet ==
    ASSUME PollsTyped, QuietOK, ~overlapped, UNCHANGED current,
           NEW c \in 1 .. MaxChains, chains[c] # None, SetTimer(c)
    PROVE  QuietOK'
<1>1. CASE timeouts[chains[c].inst] = None
  <2>1. chains' = [chains EXCEPT ![c] = None] /\ UNCHANGED timeouts
    BY <1>1 DEF SetTimer
  <2>2. \A e \in 1 .. MaxChains : chains'[e] # None => chains'[e] = chains[e]
    BY <2>1 DEF PollsTyped
  <2> QED
    BY <2>1, <2>2, QuietKept
<1>2. CASE timeouts[chains[c].inst] # None
  <2>1. chains[c].inst = current
    BY <1>2 DEF QuietOK, Quiet
  <2>2. \E n : timeouts' = [timeouts EXCEPT ![current] = n]
    BY <1>2, <2>1 DEF SetTimer, Armed
  <2>3. chains' = [e \in DOMAIN chains |->
                     IF e = c THEN PutOff(chains[c])
                     ELSE IF Of(e, chains[c].inst) /\ chains[e].index = chains[c].index
                     THEN Forgotten(chains[e]) ELSE chains[e]]
    BY <1>2 DEF SetTimer, Armed, PutOff, Forgotten
  <2>4. chains'[c] = PutOff(chains[c])
    BY <2>3 DEF PollsTyped
  <2>5. \A e \in 1 .. MaxChains : e # c =>
            chains'[e] = chains[e] \/ (chains[e] # None /\ chains'[e] = Forgotten(chains[e]))
    BY <2>3 DEF PollsTyped, Of
  <2>6. \A e \in 1 .. MaxChains : chains[e] # None => chains[e] \in Chain
    BY DEF PollsTyped
  <2>7. \A e \in 1 .. MaxChains : chains'[e] # None => chains[e] # None /\ chains'[e].inst = chains[e].inst
    <3>1. chains'[c].inst = chains[c].inst
      BY <2>4, <2>6, PutOffChain
    <3>2. ASSUME NEW e \in 1 .. MaxChains, e # c, chains'[e] # None
          PROVE  chains[e] # None /\ chains'[e].inst = chains[e].inst
      BY <2>5, <2>6, <3>2, ForgottenChain
    <3> QED
      BY <3>1, <3>2
  <2>8. \A i \in Instances : i # current => timeouts'[i] = timeouts[i]
    BY <2>2 DEF PollsTyped
  <2> QED
    BY <2>7, <2>8, QuietKept
<1> QED
  BY <1>1, <1>2

LEMMA ThrownQuiet ==
    ASSUME PollsTyped, QuietOK, ~overlapped, UNCHANGED current, NEW c \in 1 .. MaxChains, Thrown(c)
    PROVE  QuietOK'
<1>1. chains' = [chains EXCEPT ![c] = None] /\ UNCHANGED timeouts
  BY DEF Thrown
<1>2. \A e \in 1 .. MaxChains : chains'[e] # None => chains'[e] = chains[e]
  BY <1>1 DEF PollsTyped
<1> QED
  BY <1>1, <1>2, QuietKept

\* The instance that the script makes is current, and the one it follows was stopped.
LEMMA ScriptQuiet ==
    ASSUME PollsTyped, ScreenTyped, DrawsInPlace, QuietOK, ~overlapped, NEW d \in DOMAIN draws, Script(d)
    PROVE  QuietOK'
<1>1. draws[d] # None /\ draws[d].stage = "script" /\ d \in 1 .. MaxDraws /\ UNCHANGED chains
  BY DEF Script, ScriptAnswer, At, ScreenTyped
<1>2. current = None \/ timeouts[current] = None
  BY <1>1 DEF DrawsInPlace, InPlace
<1>3. PICK i \in Instances : current' = i /\ timeouts' = [timeouts EXCEPT ![i] = None]
  BY ScriptDraws DEF Script, Unused
<1>4. ASSUME NEW c \in 1 .. MaxChains, chains[c] # None PROVE timeouts'[chains[c].inst] = None
  <2>1. chains[c].inst \in Instances
    BY <1>4, ChainFields DEF PollsTyped
  <2>2. timeouts[chains[c].inst] = None
    BY <1>2, <1>4, <2>1, NoneIsNothing DEF QuietOK, Quiet
  <2> QED
    BY <1>3, <2>1, <2>2 DEF PollsTyped
<1> QED
  BY <1>1, <1>4 DEF QuietOK, Quiet

LEMMA QuietStep ==
    ASSUME TypesKept, DrawsOK, QuietOK, [Next]_vars PROVE QuietOK'
<1>0. ScreenTyped /\ PollsTyped /\ NetTyped
  BY DEF TypesKept
<1> SUFFICES ASSUME ~overlapped' PROVE QuietOK'
  BY DEF QuietOK
<1>1. CASE (Told /\ listening) \/ LoadAnswer
  <2>1. Finish /\ overlapped' = (overlapped \/ Drawing)
    BY <1>1 DEF Told, HashChange, LoadAnswer, RenderView
  <2> QED
    BY <1>0, <2>1, FinishQuiet
<1>2. ASSUME NEW d \in DOMAIN draws, Template(d) PROVE QuietOK'
  <2>1. ~overlapped /\ UNCHANGED current /\ draws[d] # None /\ draws[d].stage = "template"
    BY <1>2, TemplateDraws
  <2>2. d \in 1 .. MaxDraws /\ draws[d].inst \in Instances
    BY <1>0, <2>1, UnderWay
  <2>3. draws[d].inst = current
    BY <2>1, <2>2 DEF DrawsOK, DrawsInPlace, InPlace
  <2>4. UNCHANGED <<timeouts, chains>> \/ Repeat(draws[d].inst)
    BY <1>2, TemplateDraws
  <2>5. CASE UNCHANGED <<timeouts, chains>>
    BY <2>1, <2>5 DEF QuietOK, Quiet
  <2>6. CASE Repeat(draws[d].inst)
    BY <1>0, <2>1, <2>2, <2>3, <2>6, RepeatQuiet
  <2> QED
    BY <2>4, <2>5, <2>6
<1>3. ASSUME NEW d \in DOMAIN draws, Script(d) PROVE QuietOK'
  <2>1. ~overlapped
    BY <1>3 DEF Script, ScriptAnswer
  <2> QED
    BY <1>0, <1>3, <2>1, ScriptQuiet DEF DrawsOK
<1>4. ASSUME NEW d \in DOMAIN draws, Data(d) PROVE QuietOK'
  <2>1. draws[d] # None /\ draws[d].stage = "data" /\ Execute(d, sid) /\ UNCHANGED <<current, overlapped>>
    BY <1>4 DEF Data, DataAnswer, At
  <2>2. draws[d].view \notin Refreshing
    BY <1>0, <2>1, UnderWay
  <2>3. UNCHANGED <<timeouts, chains>>
    BY <2>1, <2>2 DEF Execute, polls
  <2> QED
    BY <2>1, <2>3 DEF QuietOK, Quiet
<1>5. ASSUME NEW d \in DOMAIN draws, Unfound(d) PROVE QuietOK'
  BY <1>5 DEF Unfound, FetchLost, polls, QuietOK, Quiet
<1>6. ASSUME NEW c \in DOMAIN chains, RunRefresh(c) PROVE QuietOK'
  <2>1. UNCHANGED <<current, overlapped, timeouts>> /\ chains[c] # None
        /\ chains' = [chains EXCEPT ![c] = Resumed(chains[c])]
    BY <1>6 DEF RunRefresh, RunTimer, In, shown, Resumed
  <2>2. c \in 1 .. MaxChains /\ chains[c] \in Chain
    BY <1>0, <2>1 DEF PollsTyped
  <2>3. Resumed(chains[c]).inst = chains[c].inst
    BY <2>2, ResumedChain
  <2>4. \A e \in 1 .. MaxChains : chains'[e] # None => chains[e] # None /\ chains'[e].inst = chains[e].inst
    BY <1>0, <2>1, <2>2, <2>3 DEF PollsTyped
  <2> QED
    BY <1>0, <2>1, <2>4, QuietKept
<1>7. ASSUME NEW c \in DOMAIN chains, StatusAnswer(c) PROVE QuietOK'
  <2>1. UNCHANGED <<current, overlapped>> /\ (Shown(c) \/ Thrown(c)) /\ asked[c] = "status"
    BY <1>7 DEF StatusAnswer, Waits, shown
  <2>2. c \in 1 .. MaxChains /\ chains[c] # None
    BY <1>0, <2>1, InterfacesAssumption DEF PollsTyped, In
  <2>3. CASE Shown(c)
    BY <1>0, <2>1, <2>2, <2>3, SetTimerQuiet DEF Shown
  <2> QED
    BY <1>0, <2>1, <2>2, <2>3, ThrownQuiet
<1>8. ASSUME NEW c \in DOMAIN chains, StatusLost(c) PROVE QuietOK'
  <2>1. UNCHANGED <<current, overlapped>> /\ Thrown(c) /\ c \in 1 .. MaxChains
    BY <1>0, <1>8 DEF StatusLost, shown, PollsTyped
  <2> QED
    BY <1>0, <2>1, ThrownQuiet
<1>9. ASSUME NEW o \in DOMAIN ops, ProtocolsAnswer(o) PROVE QuietOK'
  <2>1. UNCHANGED current
    BY <1>9 DEF ProtocolsAnswer
  <2>2. CASE cache = "full" /\ ifstate /\ devstate
    <3>1. Repeat(ops[o].inst) /\ overlapped' = (overlapped \/ Drawing \/ ops[o].inst # current)
      BY <1>9, <2>2 DEF ProtocolsAnswer
    <3>2. ops[o] \in Op
      BY <1>0 DEF NetTyped
    <3>3. ops[o].inst = current /\ ops[o].inst \in Instances /\ ~overlapped
      BY <3>1, <3>2 DEF Op
    <3> QED
      BY <1>0, <2>1, <3>1, <3>3, RepeatQuiet
  <2>3. CASE ~(cache = "full" /\ ifstate /\ devstate)
    BY <1>9, <2>1, <2>3 DEF ProtocolsAnswer, polls, QuietOK, Quiet
  <2> QED
    BY <2>2, <2>3
<1>10. CASE ~PollStep
  <2>1. UNCHANGED <<timeouts, chains, current, overlapped>>
    BY <1>10, PollFrame, DrawFrame DEF PollStep
  <2> QED
    BY <2>1 DEF QuietOK, Quiet
<1> QED
  BY <1>1, <1>2, <1>3, <1>4, <1>5, <1>6, <1>7, <1>8, <1>9, <1>10 DEF PollStep, DrawStep

\* Whatever still refreshes a page that was left has no timer to put off, so it stops after
\* the call it makes: repeat and finish of ui.js, for any number of views, instances and
\* refreshments, while no page was left before it was drawn or while it was at work.
THEOREM QuietAlways == Spec => []LeftIsQuiet
<1>1. TypesKept /\ QuietOK => LeftIsQuiet
  BY DEF TypesKept, PollsTyped, QuietOK, Quiet, LeftIsQuiet, Polls, Of
<1> QED
  BY <1>1, QuietStart, QuietStep, DrawsAlways, PTL DEF Spec

-----------------------------------------------------------------------------
(* What was reported is not taken back *)

\* Before its apply an operation is in one of these stages, and in none of them later.
Early == {"save", "changes", "unchanged", "apply", "refused"}

\* What the router holds was asked for by operations that did not apply it; what an apply
\* that is not confirmed changed was asked for by operations that are not reported.
StagedAsked == \A e \in staged : \E p \in DOMAIN ops : e \in ops[p].batch /\ ops[p].stage \in Early

Unreported(e) == \E p \in DOMAIN ops : e \in ops[p].batch /\ ~Reported(p)

KeptAsked ==
    kept # None =>
        /\ \A n \in running \ kept.nets : Unreported(<<"add", n>>)
        /\ \A n \in kept.nets \ running : Unreported(<<"remove", n>>)

LEMMA EarlyUnreported ==
    ASSUME NEW p, ops[p].stage \in Early \cup {"confirm"} PROVE ~Reported(p)
BY DEF Early, Reported

LEMMA BecomesOnly ==
    ASSUME NetTyped, NEW o \in DOMAIN ops, NEW stage \in OpStages, Becomes(o, stage)
    PROVE  /\ DOMAIN ops' = DOMAIN ops
           /\ \A p \in DOMAIN ops : ops'[p].batch = ops[p].batch
           /\ \A p \in DOMAIN ops : p # o => ops'[p].stage = ops[p].stage
           /\ ops'[o].stage = stage
<1>1. ops[o] \in Op /\ ops \in Seq(Op)
  BY DEF NetTyped
<1> DEFINE new == [ops[o] EXCEPT !.stage = stage]
<1>2. new.batch = ops[o].batch /\ new.stage = stage
  BY <1>1 DEF Op
<1>3. ops' = [ops EXCEPT ![o] = new]
  BY DEF Becomes
<1> HIDE DEF new
<1>4. DOMAIN ops' = DOMAIN ops /\ ops'[o] = new /\ \A p \in DOMAIN ops : p # o => ops'[p] = ops[p]
  BY <1>1, <1>3
<1> QED
  BY <1>2, <1>4

\* Operations go on: an early one stays early, and one that is not reported is not.
LEMMA EarlyKept ==
    ASSUME NetTyped, NEW o \in DOMAIN ops, NEW stage \in OpStages, Becomes(o, stage),
           StagedAsked, ops[o].stage \in Early => stage \in Early, staged' \subseteq staged
    PROVE  StagedAsked'
<1> SUFFICES ASSUME NEW e \in staged
             PROVE  \E p \in DOMAIN ops' : e \in ops'[p].batch /\ ops'[p].stage \in Early
  BY DEF StagedAsked
<1>1. PICK p \in DOMAIN ops : e \in ops[p].batch /\ ops[p].stage \in Early
  BY DEF StagedAsked
<1>2. p \in DOMAIN ops' /\ ops'[p].batch = ops[p].batch
  BY BecomesOnly
<1>3. ops'[p].stage \in Early
  BY <1>1, BecomesOnly
<1> QED
  BY <1>1, <1>2, <1>3

LEMMA UnreportedKept ==
    ASSUME NetTyped, NEW o \in DOMAIN ops, NEW stage \in OpStages, Becomes(o, stage),
           ~Reported(o) => stage \in Early \cup {"confirm"}, NEW e, Unreported(e)
    PROVE  Unreported(e)'
<1>1. PICK p \in DOMAIN ops : e \in ops[p].batch /\ ~Reported(p)
  BY DEF Unreported
<1>2. p \in DOMAIN ops' /\ ops'[p].batch = ops[p].batch
  BY BecomesOnly
<1>3. ~Reported(p)'
  <2>1. CASE p = o
    <3>1. ops'[o].stage \in Early \cup {"confirm"}
      BY <1>1, <2>1, BecomesOnly
    <3> QED
      BY <2>1, <3>1 DEF Early, Reported
  <2>2. CASE p # o
    <3>1. ops'[p].stage = ops[p].stage
      BY <2>2, BecomesOnly
    <3> QED
      BY <1>1, <3>1 DEF Reported
  <2> QED
    BY <2>1, <2>2
<1> QED
  BY <1>1, <1>2, <1>3 DEF Unreported

LEMMA KeptAskedKept ==
    ASSUME NetTyped, NEW o \in DOMAIN ops, NEW stage \in OpStages, Becomes(o, stage),
           ~Reported(o) => stage \in Early \cup {"confirm"}, KeptAsked, UNCHANGED <<running, kept>>
    PROVE  KeptAsked'
<1> SUFFICES ASSUME kept # None
             PROVE  /\ \A n \in running \ kept.nets : Unreported(<<"add", n>>)'
                    /\ \A n \in kept.nets \ running : Unreported(<<"remove", n>>)'
  BY DEF KeptAsked
<1>1. \A n \in running \ kept.nets : Unreported(<<"add", n>>)'
  BY UnreportedKept DEF KeptAsked
<1>2. \A n \in kept.nets \ running : Unreported(<<"remove", n>>)'
  BY UnreportedKept DEF KeptAsked
<1> QED
  BY <1>1, <1>2

\* save(): the operation whose edits the router takes is an early one.
LEMMA StoreAsked ==
    ASSUME NetTyped, StagedAsked, NEW o \in DOMAIN ops, SaveAnswer(o) \/ SaveLost(o)
    PROVE  StagedAsked'
<1>1. Becomes(o, "changes") /\ staged' \subseteq staged \cup ops[o].batch
  BY DEF SaveAnswer, SaveLost, Store, Taken
<1>2. "changes" \in OpStages /\ "changes" \in Early
  BY DEF OpStages, Early
<1>3. /\ DOMAIN ops' = DOMAIN ops /\ ops'[o].batch = ops[o].batch /\ ops'[o].stage = "changes"
  BY <1>1, <1>2, BecomesOnly
<1> SUFFICES ASSUME NEW e \in staged'
             PROVE  \E p \in DOMAIN ops' : e \in ops'[p].batch /\ ops'[p].stage \in Early
  BY DEF StagedAsked
<1>4. CASE e \in ops[o].batch
  BY <1>2, <1>3, <1>4
<1>5. CASE e \in staged
  <2>1. PICK p \in DOMAIN ops : e \in ops[p].batch /\ ops[p].stage \in Early
    BY <1>5 DEF StagedAsked
  <2>2. p \in DOMAIN ops' /\ ops'[p].batch = ops[p].batch /\ ops'[p].stage \in Early
    BY <1>1, <1>2, <2>1, BecomesOnly
  <2> QED
    BY <2>1, <2>2
<1> QED
  BY <1>1, <1>4, <1>5

\* apply(): the router runs what early operations asked for, and none of them is reported.
LEMMA ApplyAsked ==
    ASSUME NetTyped, StagedAsked, KeptAsked, NEW o \in DOMAIN ops, ApplyAnswer(o) \/ ApplyLost(o)
    PROVE  StagedAsked' /\ KeptAsked'
<1>1. PICK heard \in BOOLEAN, stage \in {"confirm", "refused"} :
          /\ Apply(heard) /\ Becomes(o, stage)
          /\ ~(Alive /\ kept = None) => stage = "refused"
  <2>1. CASE ApplyAnswer(o) /\ Alive /\ kept = None
    <3>1. Apply(TRUE) /\ Becomes(o, "confirm")
      BY <2>1 DEF ApplyAnswer
    <3> QED
      BY <2>1, <3>1
  <2>2. CASE ApplyAnswer(o) /\ ~(Alive /\ kept = None)
    <3>1. Apply(TRUE) /\ Becomes(o, "refused")
      BY <2>2 DEF ApplyAnswer
    <3> QED
      BY <3>1
  <2>3. CASE ApplyLost(o)
    <3>1. Apply(FALSE) /\ Becomes(o, "refused")
      BY <2>3 DEF ApplyLost
    <3> QED
      BY <3>1
  <2> QED
    BY <2>1, <2>2, <2>3
<1>2. stage \in OpStages /\ stage \in Early \cup {"confirm"}
  BY <1>1 DEF OpStages, Early
<1>3. CASE Alive /\ kept = None
  <2>1. /\ kept' = [nets |-> running, sid |-> sid] /\ running' = Saved /\ staged' = {}
    BY <1>1, <1>3 DEF Apply
  <2>2. kept'.nets = running /\ running' = Edited(running, staged)
    BY <2>1 DEF Saved
  <2>3. \A e \in staged : Unreported(e)'
    <3> SUFFICES ASSUME NEW e \in staged PROVE Unreported(e)'
      OBVIOUS
    <3>1. PICK p \in DOMAIN ops : e \in ops[p].batch /\ ops[p].stage \in Early
      BY DEF StagedAsked
    <3>2. Unreported(e)
      BY <3>1, EarlyUnreported DEF Unreported
    <3> QED
      BY <1>1, <1>2, <3>2, UnreportedKept
  <2>4. \A n \in running' \ running : <<"add", n>> \in staged
    BY <2>2 DEF Edited
  <2>5. \A n \in running \ running' : <<"remove", n>> \in staged
    BY <2>2 DEF Edited, NetTyped
  <2> QED
    BY <2>1, <2>2, <2>3, <2>4, <2>5 DEF StagedAsked, KeptAsked
<1>4. CASE ~(Alive /\ kept = None)
  <2>1. UNCHANGED <<running, staged, kept>> /\ Becomes(o, "refused")
    BY <1>1, <1>4 DEF Apply, router
  <2>2. "refused" \in OpStages /\ "refused" \in Early
    BY DEF OpStages, Early
  <2> QED
    BY <2>1, <2>2, EarlyKept, KeptAskedKept
<1> QED
  BY <1>3, <1>4

LEMMA OperationAsked ==
    ASSUME NetTyped, StagedAsked, KeptAsked, NEW o \in DOMAIN ops,
           \/ SaveAnswer(o) \/ SaveLost(o) \/ ChangesAnswer(o) \/ ApplyAnswer(o) \/ ApplyLost(o)
           \/ ConfirmAnswer(o) \/ ConfirmLost(o) \/ UpdateAnswer(o) \/ UpdateLost(o) \/ ProtocolsAnswer(o)
    PROVE  StagedAsked' /\ KeptAsked'
<1>1. CASE SaveAnswer(o) \/ SaveLost(o)
  <2>1. Becomes(o, "changes") /\ UNCHANGED <<running, kept>>
    BY <1>1 DEF SaveAnswer, SaveLost, Store
  <2>2. "changes" \in OpStages /\ "changes" \in Early
    BY DEF OpStages, Early
  <2> QED
    BY <1>1, <2>1, <2>2, StoreAsked, KeptAskedKept
<1>2. CASE ChangesAnswer(o)
  <2>1. PICK stage \in {"unchanged", "apply"} : Becomes(o, stage)
    BY <1>2 DEF ChangesAnswer
  <2>2. stage \in OpStages /\ stage \in Early /\ UNCHANGED <<running, staged, kept>>
    BY <1>2 DEF OpStages, Early, ChangesAnswer, router
  <2> QED
    BY <2>1, <2>2, EarlyKept, KeptAskedKept
<1>3. CASE ApplyAnswer(o) \/ ApplyLost(o)
  BY <1>3, ApplyAsked
<1>4. CASE ConfirmAnswer(o)
  <2>1. Becomes(o, "update") /\ kept' = None /\ UNCHANGED staged /\ ops[o].stage = "confirm"
    BY <1>4 DEF ConfirmAnswer
  <2>2. "update" \in OpStages /\ ops[o].stage \notin Early
    BY <2>1 DEF OpStages, Early
  <2> QED
    BY <2>1, <2>2, EarlyKept DEF KeptAsked
<1>5. CASE ConfirmLost(o)
  <2>1. kept' \in {kept, None} /\ UNCHANGED <<running, staged, ops>>
    BY <1>5 DEF ConfirmLost
  <2> QED
    BY <2>1 DEF StagedAsked, KeptAsked, Unreported, Reported
<1>6. CASE UpdateAnswer(o) \/ UpdateLost(o) \/ ProtocolsAnswer(o)
  <2>1. PICK stage \in {"protocols", "done", "stuck"} : Becomes(o, stage)
    BY <1>6 DEF UpdateAnswer, UpdateLost, ProtocolsAnswer
  <2>2. UNCHANGED <<running, staged, kept>> /\ ops[o].stage \in {"update", "protocols"}
    BY <1>6 DEF UpdateAnswer, UpdateLost, ProtocolsAnswer, router
  <2>3. stage \in OpStages /\ ops[o].stage \notin Early /\ Reported(o)
    BY <2>2 DEF OpStages, Early, Reported
  <2> QED
    BY <2>1, <2>2, <2>3, EarlyKept, KeptAskedKept
<1> QED
  BY <1>1, <1>2, <1>3, <1>4, <1>5, <1>6

\* All else leaves the router alone, but for its going back.
LEMMA RouterFrame ==
    ASSUME [Next]_vars, ~Rollback, ~\E i \in Instances, way \in {"add", "remove"}, n \in Names : Confirm(i, way, n),
           ~\E o \in DOMAIN ops : \/ SaveAnswer(o) \/ SaveLost(o) \/ ChangesAnswer(o) \/ ApplyAnswer(o)
             \/ ApplyLost(o) \/ ConfirmAnswer(o) \/ ConfirmLost(o) \/ UpdateAnswer(o) \/ UpdateLost(o)
             \/ ProtocolsAnswer(o)
    PROVE  UNCHANGED <<running, staged, kept, ops>>
<1>1. CASE Told \/ SessionStep \/ (\E v \in Menu : Chosen(v))
             \/ \E d \in DOMAIN draws : Script(d) \/ Data(d) \/ Unfound(d)
  BY Zenon, <1>1 DEF Told, Chosen, Script, Data, Unfound, SessionStep, Elsewhere, interfacesVars, router
<1>2. CASE \E d \in DOMAIN draws : Template(d)
  BY Zenon, <1>2 DEF Template, router
<1>3. CASE \E c \in DOMAIN chains : RunRefresh(c) \/ SetAnswer(c) \/ StatusAnswer(c) \/ StatusLost(c)
  BY Zenon, <1>3 DEF RunRefresh, SetAnswer, StatusAnswer, StatusLost, router
<1>4. CASE \E way \in Ways, n \in Names : Press(way, n)
  BY Zenon, <1>4 DEF Press, router
<1>5. CASE UNCHANGED vars
  BY Zenon, <1>5 DEF vars, interfacesVars, router
<1> QED
  BY <1>1, <1>2, <1>3, <1>4, <1>5, SomeStep

LEMMA AskedStart == Init => StagedAsked /\ KeptAsked
BY DEF Init, InterfacesInit, StagedAsked, KeptAsked

LEMMA AskedStep ==
    ASSUME NetTyped, StagedAsked, KeptAsked, [Next]_vars PROVE StagedAsked' /\ KeptAsked'
<1>1. CASE Rollback
  <2>1. kept' = None /\ UNCHANGED <<staged, ops>>
    BY <1>1 DEF Rollback
  <2> QED
    BY <2>1 DEF StagedAsked, KeptAsked
<1>2. ASSUME NEW i \in Instances, NEW way \in {"add", "remove"}, NEW n \in Names, Confirm(i, way, n)
      PROVE  StagedAsked' /\ KeptAsked'
  <2>1. PICK new : ops' = Append(ops, new)
    BY <1>2 DEF Confirm
  <2>2. UNCHANGED <<running, staged, kept>>
    BY <1>2 DEF Confirm, router
  <2>3. \A p \in DOMAIN ops : p \in DOMAIN ops' /\ ops'[p] = ops[p]
    BY <2>1 DEF NetTyped
  <2> QED
    BY <2>2, <2>3 DEF StagedAsked, KeptAsked, Unreported, Reported
<1>3. CASE UNCHANGED <<running, staged, kept, ops>>
  BY <1>3 DEF StagedAsked, KeptAsked, Unreported, Reported
<1> QED
  BY <1>1, <1>2, <1>3, OperationAsked, RouterFrame

\* Only the router itself goes back to what it ran before.
LEMMA OnlyRollback ==
    ASSUME NetTyped, [Next]_vars, kept # None, kept' = None, running' # running
    PROVE  Rollback
<1>1. ASSUME NEW o \in DOMAIN ops,
             \/ SaveAnswer(o) \/ SaveLost(o) \/ ChangesAnswer(o) \/ ConfirmAnswer(o) \/ ConfirmLost(o)
             \/ UpdateAnswer(o) \/ UpdateLost(o) \/ ProtocolsAnswer(o)
      PROVE  UNCHANGED running
  BY Zenon, <1>1 DEF SaveAnswer, SaveLost, Store, ChangesAnswer, ConfirmAnswer, ConfirmLost, UpdateAnswer,
     UpdateLost, ProtocolsAnswer, router
<1>2. ASSUME NEW o \in DOMAIN ops, ApplyAnswer(o) \/ ApplyLost(o) PROVE UNCHANGED running
  BY <1>2 DEF ApplyAnswer, ApplyLost, Apply, router
<1>3. ASSUME NEW i \in Instances, NEW way \in {"add", "remove"}, NEW n \in Names, Confirm(i, way, n)
      PROVE  UNCHANGED running
  BY <1>3 DEF Confirm, router
<1> QED
  BY <1>1, <1>2, <1>3, RouterFrame

\* The router takes back of what the page reported as applied only what an operation that
\* is not reported asked for again: apply of uci.js reports nothing before a confirmation,
\* for any number of operations, sessions and lost answers.
THEOREM ReportedKept == Spec => ReportedStays
<1> DEFINE Stays == (kept # None /\ kept' = None /\ running' # running) =>
                       \A o \in DOMAIN ops : Reported(o) /\ InForce(Asks(o), running) =>
                           \/ InForce(Asks(o), running')
                           \/ \E p \in DOMAIN ops : ~Reported(p) /\ Asks(o) \in ops[p].batch
<1>1. NetTyped /\ KeptAsked /\ [Next]_vars => Stays
  <2> SUFFICES ASSUME NetTyped, KeptAsked, [Next]_vars, kept # None, kept' = None, running' # running,
                      NEW o \in DOMAIN ops, InForce(Asks(o), running), ~InForce(Asks(o), running')
               PROVE  Unreported(Asks(o))
    BY DEF Unreported
  <2>1. running' = kept.nets
    BY OnlyRollback DEF Rollback
  <2>2. ops[o] \in Op
    BY DEF NetTyped
  <2>3. PICK way \in {"add", "remove"}, n \in Names : way = ops[o].way /\ n = ops[o].name
    BY <2>2 DEF Op
  <2>4. Asks(o) = <<way, n>> /\ Asks(o)[1] = way /\ Asks(o)[2] = n
    BY <2>3 DEF Asks
  <2>5. CASE way = "add"
    <3>1. n \in running \ kept.nets
      BY <2>1, <2>4, <2>5 DEF InForce
    <3> QED
      BY <2>4, <2>5, <3>1 DEF KeptAsked
  <2>6. CASE way = "remove"
    <3>1. n \in kept.nets \ running
      BY <2>1, <2>4, <2>6 DEF InForce
    <3> QED
      BY <2>4, <2>6, <3>1 DEF KeptAsked
  <2> QED
    BY <2>5, <2>6
<1>2. TypesKept /\ StagedAsked /\ KeptAsked /\ [Next]_vars => StagedAsked' /\ KeptAsked'
  BY AskedStep DEF TypesKept
<1>3. TypesKept /\ KeptAsked /\ [Next]_vars => [Stays]_vars
  BY <1>1 DEF TypesKept
<1>4. Spec => [][Stays]_vars
  BY <1>2, <1>3, AskedStart, TypesAlways, PTL DEF Spec
<1> QED
  BY <1>4 DEF ReportedStays
=============================================================================
