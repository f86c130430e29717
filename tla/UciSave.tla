------------------------------- MODULE UciSave -------------------------------
(***************************************************************************)
(* Saving and loading: the batches that uci.js sends to the router and     *)
(* what the router and the client do with them.  save sends the additions, *)
(* changes and deletions in one batch, then the order of the packages that *)
(* were sorted, then forgets the saved packages and loads them again.  The *)
(* router runs the calls of a batch one after the other; a call can fail   *)
(* alone, the client can give up on a batch while the router still works   *)
(* on it, and someone else can change the same packages.                   *)
(***************************************************************************)
EXTENDS UciState, SequencesExt

CONSTANTS
    Fresh,      \* the names the router gives to anonymous sections; no user types one
    Files,      \* the packages the router may hold at first
    MaxSaves, MaxFaults, MaxForeign     \* bounds, for TLC

\* A package on the router: its sections in order, each under a name of its own.
RouterSection == [name : Sids, type : Types, opts : [Options -> Values \cup {None}]]
IsFile(file) == file \in Seq(RouterSection) /\ IsInjective([i \in DOMAIN file |-> file[i].name])

ASSUME FreshAssumption == Fresh \subseteq Sids /\ Fresh \cap Temps = {}
ASSUME ConfigsAssumption == IsFiniteSet(Configs)
ASSUME FilesAssumption == \A file \in Files : IsFile(file)
ASSUME LimitsAssumption == MaxSaves \in Nat /\ MaxFaults \in Nat /\ MaxForeign \in Nat

VARIABLES
    server,     \* server[c]: the sections of the package on the router, in order
    phase,      \* what the client waits for: "idle", "saving", "ordering" or "loading"
    calls,      \* the calls of the batch under way that the router has not run
    replies,    \* its answers to the others
    stale,      \* calls of a batch the client has given up on
    pkgs,       \* the packages save forgets and loads again
    names,      \* the name of each section: the router's, once it answered
    saves, faults, foreign,             \* counters
    (* what the save under way was asked for, to state the properties *)
    before,     \* before[c]: the sections the views showed, in order
    asked,      \* the options that the user edited
    clean,      \* the packages were as the router had them, and nothing failed
    ordered,    \* the packages whose order save has to keep
    refused     \* the calls of the save that failed, while nothing else disturbed it

wireVars  == <<phase, calls, replies, stale>>
ghostVars == <<before, asked, clean, ordered, refused>>
saveVars  == <<server, wireVars, pkgs, names, saves, faults, foreign, ghostVars>>
allVars   == <<vars, saveVars>>

SaveInit ==
    /\ Init
    /\ server \in [Configs -> Files]
    /\ phase = "idle"
    /\ calls = <<>> /\ replies = <<>> /\ stale = <<>>
    /\ pkgs = {}
    /\ names = [c \in Configs |-> [s \in Sids |-> s]]
    /\ saves = 0 /\ faults = 0 /\ foreign = 0
    /\ before = [c \in Configs |-> <<>>]
    /\ asked = {}
    /\ clean = FALSE
    /\ ordered = {}
    /\ refused = {}

-----------------------------------------------------------------------------
(* The router (rpcd's uci object): what each call does to a package *)

NamesIn(file)  == {file[i].name : i \in DOMAIN file}
At(file, name) == CHOOSE i \in DOMAIN file : file[i].name = name

\* Writing '' to an option deletes it.
Written(val) == IF val = EmptyString THEN None ELSE val

Merged(old, new) ==
    [o \in Options |-> IF new[o] = None THEN old[o] ELSE Written(new[o])]

\* add: an anonymous section is appended under a new name; a name that is there
\* already has its type and options overwritten.
Added(file, name, section) ==
    IF name \in NamesIn(file)
    THEN [file EXCEPT ![At(file, name)] =
            [name |-> name, type |-> section.type, opts |-> Merged(@.opts, section.opts)]]
    ELSE Append(file, [name |-> name, type |-> section.type,
                       opts |-> Merged(Blank, section.opts)])

SetIn(file, name, opts) ==
    IF name \in NamesIn(file)
    THEN [file EXCEPT ![At(file, name)].opts = Merged(@, opts)]
    ELSE file

DeletedIn(file, name) == IF name \in NamesIn(file) THEN RemoveAt(file, At(file, name)) ELSE file

OptionsDeletedIn(file, name, gone) ==
    IF name \in NamesIn(file)
    THEN [file EXCEPT ![At(file, name)].opts = [o \in Options |-> IF o \in gone THEN None ELSE @[o]]]
    ELSE file

\* order: each section named moves to the next place; names not there are skipped.
MovedTo(file, name, place) ==
    LET rest == DeletedIn(file, name)
        i    == IF place < Len(rest) THEN place ELSE Len(rest)
    IN  SubSeq(rest, 1, i) \o <<file[At(file, name)]>> \o SubSeq(rest, i + 1, Len(rest))

OrderedIn(file, order) ==
    LET done[n \in 0 .. Len(order)] ==
            IF n = 0 THEN [file |-> file, place |-> 0]
            ELSE IF order[n] \in NamesIn(done[n - 1].file)
                 THEN [file  |-> MovedTo(done[n - 1].file, order[n], done[n - 1].place),
                       place |-> done[n - 1].place + 1]
                 ELSE done[n - 1]
    IN  done[Len(order)].file

\* get: the package as the client keeps it.
Snapshot(file) ==
    [s \in Sids |->
        IF s \in NamesIn(file)
        THEN LET i == At(file, s)
             IN  [type |-> file[i].type, index |-> i - 1, birth |-> i - 1, opts |-> file[i].opts]
        ELSE NoSection]

\* What a call leaves of its package, and its answer, when it succeeds.
Effects(call) ==
    LET file == server[call.conf]
        done(f) == [file |-> f, reply |-> None]
    IN  CASE call.op = "add" ->
               {[file |-> Added(file, name, call.arg), reply |-> name] :
                  name \in IF call.sid \in Temps THEN Fresh \ NamesIn(file) ELSE {call.sid}}
          [] call.op = "set"     -> {done(SetIn(file, call.sid, call.arg))}
          [] call.op = "delete"  -> {done(DeletedIn(file, call.sid))}
          [] call.op = "options" -> {done(OptionsDeletedIn(file, call.sid, call.arg))}
          [] call.op = "order"   -> {done(OrderedIn(file, call.arg))}
          [] call.op = "load"    -> {[file |-> file, reply |-> Snapshot(file)]}

\* The answer the client makes of a call that failed (expect, in rpc.declare).
FailedReply(call) == IF call.op = "load" THEN EmptyPackage ELSE None

RouterRuns ==
    /\ calls # <<>>
    /\ \E effect \in Effects(Head(calls)) :
          /\ server' = [server EXCEPT ![Head(calls).conf] = effect.file]
          /\ replies' = Append(replies, effect.reply)
    /\ calls' = Tail(calls)
    /\ UNCHANGED <<vars, phase, stale, pkgs, names, saves, faults, foreign, ghostVars>>

RouterRefuses ==
    /\ calls # <<>>
    /\ faults < MaxFaults
    /\ faults' = faults + 1
    /\ clean' = FALSE
    /\ refused' = IF clean \/ refused # {} THEN refused \cup {Head(calls)} ELSE {}
    /\ replies' = Append(replies, FailedReply(Head(calls)))
    /\ calls' = Tail(calls)
    /\ UNCHANGED <<vars, server, phase, stale, pkgs, names, saves, foreign, before, asked, ordered>>

\* Calls of a batch the client no longer waits for: they are run, or lost.
RouterRunsStale ==
    /\ stale # <<>>
    /\ \E effect \in Effects(Head(stale)) :
          server' = [server EXCEPT ![Head(stale).conf] = effect.file]
    /\ clean' = FALSE /\ refused' = {}
    /\ stale' = Tail(stale)
    /\ UNCHANGED <<vars, phase, calls, replies, pkgs, names, saves, faults, foreign, before, asked, ordered>>

RouterDropsStale ==
    /\ stale # <<>>
    /\ stale' = <<>>
    /\ UNCHANGED <<vars, server, phase, calls, replies, pkgs, names, saves, faults, foreign, ghostVars>>

\* Somebody else changes a package on the router.
ForeignEdit ==
    /\ foreign < MaxForeign
    /\ foreign' = foreign + 1
    /\ clean' = FALSE /\ refused' = {}
    /\ \E c \in Configs :
         \E s \in NamesIn(server[c]) :
           \/ \E o \in Options, val \in Values :
                server' = [server EXCEPT ![c] = SetIn(@, s, [Blank EXCEPT ![o] = val])]
           \/ server' = [server EXCEPT ![c] = DeletedIn(@, s)]
    /\ UNCHANGED <<vars, wireVars, pkgs, names, saves, faults, before, asked, ordered>>

-----------------------------------------------------------------------------
(* The client: what save and load send *)

\* The elements of a set in some order, which is given as the set of its pairs.
Sorted(set, order) ==
    [i \in 1 .. Cardinality(set) |->
        CHOOSE x \in set : Cardinality({y \in set : <<y, x>> \in order}) = i - 1]

\* One call for each of some sections.
Calls(list, Call(_, _)) == [i \in DOMAIN list |-> Call(list[i][1], list[i][2])]

AddCall(c, s) == [op |-> "add", conf |-> c, sid |-> s, arg |-> creates[c][s]]
\* Mutant of SetCall: sends the whole section, as it was loaded and changed.
SetCallWhole(c, s) ==
    [op |-> "set", conf |-> c, sid |-> s, arg |-> [o \in Options |-> Get(c, s, o)]]

SetCall(c, s) == [op |-> "set", conf |-> c, sid |-> s, arg |-> changes[c][s]]
DeleteCall(c, s) ==
    IF s \in deletesAll[c] THEN [op |-> "delete", conf |-> c, sid |-> s, arg |-> None]
    ELSE [op |-> "options", conf |-> c, sid |-> s, arg |-> deletesOpt[c][s]]

Changed == {e \in Configs \X Sids : changes[e[1]][e[2]] # Blank}

\* Mutant of Deleted: forgets the sections that lose options only.
DeletedWhole == {e \in Configs \X Sids : e[2] \in deletesAll[e[1]]}

Deleted == {e \in Configs \X Sids : e[2] \in deletesAll[e[1]] \/ deletesOpt[e[1]][e[2]] # {}}

\* The created sections, package by package, in the order of their additions
\* (snew in the code).
Additions == {e \in Configs \X Sids : Created(e[1], e[2])}

Place(c) == CHOOSE i \in 1 .. Cardinality(Configs) : SetToSeq(Configs)[i] = c

AddedBefore(e, f) ==
    \/ Place(e[1]) < Place(f[1])
    \/ e[1] = f[1] /\ creates[e[1]][e[2]].birth < creates[f[1]][f[2]].birth

Snew == Sorted(Additions, {p \in Additions \X Additions : AddedBefore(p[1], p[2])})

EditCalls ==
    Calls(Snew, AddCall) \o Calls(SetToSeq(Changed), SetCall) \o Calls(SetToSeq(Deleted), DeleteCall)

EditedPackages == opened \cup {e[1] : e \in Changed \cup Deleted}

\* Mutant of LoadCalls: asks in another order than the answers are taken in.
LoadCallsReversed(packages) ==
    LET list == Reverse(SetToSeq(packages))
    IN  [i \in DOMAIN list |-> [op |-> "load", conf |-> list[i], sid |-> None, arg |-> None]]

LoadCalls(packages) ==
    LET list == SetToSeq(packages)
    IN  [i \in DOMAIN list |-> [op |-> "load", conf |-> list[i], sid |-> None, arg |-> None]]

\* What reorderSections gathers of a package: <<TRUE, s>> is a created section.
\* Sections whose deletion is pending are among them.
Gathered(c) ==
    {<<TRUE, s>> : s \in {x \in Sids : Created(c, x)}}
      \cup {<<FALSE, s>> : s \in {x \in Sids : Loaded(c, x)}}

\* It sorts by index; among equals the created ones come first, as they are
\* gathered first.
OrderBefore(c, e, f) ==
    LET section(g) == IF g[1] THEN creates[c][g[2]] ELSE values[c][g[2]]
        a == section(e)
        b == section(f)
    IN  \/ a.index < b.index
        \/ a.index = b.index /\ e[1] /\ ~f[1]
        \/ a.index = b.index /\ (e[1] <=> f[1]) /\ a.birth < b.birth

\* One call for each package to reorder that has sections, under some names.
OrderCallsWith(Name(_, _)) ==
    LET list == SetToSeq({c \in reorder : Gathered(c) # {}})
        order(c) == Sorted(Gathered(c), {p \in Gathered(c) \X Gathered(c) : OrderBefore(c, p[1], p[2])})
    IN  [i \in DOMAIN list |->
            [op |-> "order", conf |-> list[i], sid |-> None,
             arg |-> [j \in DOMAIN order(list[i]) |-> Name(list[i], order(list[i])[j])]]]

\* Mutant of OrderCalls: orders the created sections by the client's names.
OrderCallsUnnamed(named) == OrderCallsWith(LAMBDA c, e : e[2])

OrderCalls(named) == OrderCallsWith(LAMBDA c, e : IF e[1] THEN named[c][e[2]] ELSE e[2])

\* Mutant of Send: appends to the answers of the batch before.
SendKeepsReplies(batch) == calls' = batch /\ UNCHANGED replies

Send(batch) == calls' = batch /\ replies' = <<>>

\* The last part of save: forget the saved packages and load them again.
UnloadAndLoad ==
    /\ Unload(pkgs)
    /\ phase' = "loading"
    /\ Send(LoadCalls(pkgs))

-----------------------------------------------------------------------------

\* The client gives up on a batch after the timeout of $.ajax: the answer is lost
\* (as in _call, which then answers with no replies), the calls need not be,
\* unless they are loads, which change nothing.
GivesUp ==
    /\ faults < MaxFaults
    /\ faults' = faults + 1
    /\ clean' = FALSE /\ refused' = {}

\* Views edit when nothing is under way: a save holds up the loading overlay.
Edit ==
    /\ phase = "idle"
    /\ saves < MaxSaves      \* bound: nothing is edited that cannot be saved
    /\ \/ \E c \in Configs : Unload({c})
       \/ \E c \in Configs, s \in Sids \ Fresh, type \in Types :
             AddNamed(c, type, s) \/ AddAnonymous(c, type, s)
       \/ \E c \in Configs, s \in Sids : RemoveCreated(c, s) \/ RemoveLoaded(c, s)
       \/ \E c \in Configs, s \in Sids, o \in Options, val \in Values \cup {None} :
             SetCreated(c, s, o, val) \/ SetChange(c, s, o, val) \/ SetDelete(c, s, o, val)
       \/ \E c \in Configs, type \in ReadTypes : ReadSections(c, type)
       \/ \E c \in Configs, s, t \in Sids : Swap(c, s, t)
    /\ UNCHANGED saveVars

LoadPackages(packages) ==
    /\ phase = "idle"
    /\ packages \ loaded # {}
    /\ pkgs' = packages \ loaded
    /\ phase' = "loading"
    /\ Send(LoadCalls(packages \ loaded))
    /\ UNCHANGED <<vars, server, stale, names, saves, faults, foreign, ghostVars>>

\* Mutant of LoadReply: leaves out a call that failed, so that the answers to
\* those behind it are taken for its own.
LoadReplyShifted ==
    /\ phase = "loading"
    /\ calls = <<>>
    /\ LET list  == SetToSeq(pkgs)
           given == SelectSeq(replies, LAMBDA reply : reply # EmptyPackage)
           answer(i) == IF i \in DOMAIN given THEN given[i] ELSE EmptyPackage
       IN  values' = [c \in Configs |->
                        IF c \in pkgs THEN answer(CHOOSE i \in DOMAIN list : list[i] = c) ELSE values[c]]
    /\ loaded' = loaded \cup pkgs
    /\ phase' = "idle"
    /\ pkgs' = {} /\ replies' = <<>> /\ clean' = FALSE /\ refused' = {}
    /\ names' = [c \in Configs |-> [s \in Sids |-> s]]
    /\ UNCHANGED <<creates, opened, changes, deletesAll, deletesOpt, reorder, newidx>>
    /\ UNCHANGED <<server, calls, stale, saves, faults, foreign, before, asked, ordered>>

LoadReply ==
    /\ phase = "loading"
    /\ calls = <<>>
    /\ LET list == SetToSeq(pkgs)
           answer(c) == replies[CHOOSE i \in DOMAIN list : list[i] = c]
       IN  values' = [c \in Configs |-> IF c \in pkgs THEN answer(c) ELSE values[c]]
    /\ loaded' = loaded \cup pkgs
    /\ phase' = "idle"
    /\ pkgs' = {} /\ replies' = <<>> /\ clean' = FALSE /\ refused' = {}
    /\ names' = [c \in Configs |-> [s \in Sids |-> s]]
    /\ UNCHANGED <<creates, opened, changes, deletesAll, deletesOpt, reorder, newidx>>
    /\ UNCHANGED <<server, calls, stale, saves, faults, foreign, before, asked, ordered>>

LoadGivenUp ==
    /\ phase = "loading"
    /\ GivesUp
    /\ phase' = "idle"
    /\ pkgs' = {} /\ calls' = <<>> /\ replies' = <<>>
    /\ names' = [c \in Configs |-> [s \in Sids |-> s]]
    /\ UNCHANGED <<vars, server, stale, saves, foreign, before, asked, ordered>>

\* The user edited an option, or added or removed its section.
Edited(c, s, o) ==
    Created(c, s) \/ s \in deletesAll[c] \/ changes[c][s][o] # None \/ o \in deletesOpt[c][s]

\* What the views show of a section, as the router is to keep it.
Shows(c, s) == [name |-> s, type |-> Entry(c, s).type,
                opts |-> [o \in Options |-> IF Edited(c, s, o) THEN Written(Get(c, s, o))
                                            ELSE Get(c, s, o)]]

Listing(c) ==
    LET listed == Listed(c, AnyType)
    IN  Sorted(listed, {p \in listed \X listed : Before(c, p[1], p[2])})

\* The client's copy of a package is what the router has.
InSync(c) ==
    /\ c \in loaded
    /\ {s \in Sids : Loaded(c, s)} = NamesIn(server[c])
    /\ \A s \in Sids : Loaded(c, s) =>
          LET x == server[c][At(server[c], s)]
          IN  values[c][s].type = x.type /\ values[c][s].opts = x.opts /\ ~Created(c, s)

InOrder(c) ==
    \A s, t \in NamesIn(server[c]) :
        (values[c][s].index < values[c][t].index) <=> (At(server[c], s) < At(server[c], t))

Save ==
    /\ phase = "idle"
    /\ saves < MaxSaves
    /\ saves' = saves + 1
    /\ pkgs' = EditedPackages
    /\ phase' = "saving"
    /\ Send(EditCalls)
    /\ before' = [c \in Configs |-> [i \in DOMAIN Listing(c) |-> Shows(c, Listing(c)[i])]]
    /\ asked' = asked \cup {e \in Configs \X Sids \X Options : Edited(e[1], e[2], e[3])}
    /\ clean' = (\A c \in EditedPackages \cup reorder : InSync(c))
    /\ ordered' = {c \in EditedPackages \cup reorder :
                     /\ InSync(c) /\ Compact(c) /\ deletesAll[c] = {}
                     /\ c \in reorder \/ InOrder(c)}
    /\ refused' = {}
    /\ UNCHANGED <<vars, server, stale, names, faults, foreign>>

\* The answers to the additions come first in the batch and name the sections.
Answered(responses) ==
    LET list == Snew
        named == [c \in Configs |-> [s \in Sids |->
                    IF Created(c, s)
                    THEN LET i == CHOOSE i \in DOMAIN list : list[i] = <<c, s>>
                         IN  IF i \in DOMAIN responses THEN responses[i] ELSE None
                    ELSE s]]
    IN  /\ names' = named
        /\ \/ /\ reorder = {}
              /\ UnloadAndLoad
           \/ /\ reorder # {}
              /\ phase' = "ordering"
              /\ Send(OrderCalls(named))
              /\ reorder' = {}
              /\ UNCHANGED <<values, loaded, creates, opened, changes, deletesAll, deletesOpt, newidx>>
        /\ UNCHANGED <<server, pkgs, saves, foreign, before, asked, ordered>>

\* Mutant of SaveReply: waits for an answer to a save that sent no call.
SaveReplyNonEmpty ==
    /\ phase = "saving"
    /\ calls = <<>>
    /\ replies # <<>>
    /\ Answered(replies)
    /\ UNCHANGED <<stale, faults, clean, refused>>

SaveReply ==
    /\ phase = "saving"
    /\ calls = <<>>
    /\ Answered(replies)
    /\ UNCHANGED <<stale, faults, clean, refused>>

SaveGivenUp ==
    /\ phase = "saving"
    /\ GivesUp
    /\ stale' = stale \o calls
    /\ Answered(<<>>)

OrderReply ==
    /\ phase = "ordering"
    /\ calls = <<>>
    /\ UnloadAndLoad
    /\ UNCHANGED <<server, stale, pkgs, names, saves, faults, foreign, ghostVars>>

OrderGivenUp ==
    /\ phase = "ordering"
    /\ GivesUp
    /\ stale' = stale \o calls
    /\ UnloadAndLoad
    /\ UNCHANGED <<server, pkgs, names, saves, foreign, before, asked, ordered>>

-----------------------------------------------------------------------------

Waiting ==
    \/ RouterRuns \/ RouterRefuses
    \/ LoadReply \/ SaveReply \/ OrderReply
    \/ LoadGivenUp \/ SaveGivenUp \/ OrderGivenUp

SaveNext ==
    \/ Edit
    \/ \E packages \in SUBSET Configs : LoadPackages(packages)
    \/ Save
    \/ Waiting
    \/ RouterRunsStale \/ RouterDropsStale
    \/ ForeignEdit

\* Every batch is answered or given up, as $.ajax has a timeout.
SaveSpec == SaveInit /\ [][SaveNext]_allVars /\ WF_allVars(Waiting)

-----------------------------------------------------------------------------
(* Properties *)

SaveTypeOK ==
    /\ TypeOK
    /\ phase \in {"idle", "saving", "ordering", "loading"}
    /\ DOMAIN server = Configs /\ \A c \in Configs : IsFile(server[c])
    /\ pkgs \subseteq Configs
    /\ names \in [Configs -> [Sids -> Sids \cup {None}]]
    /\ phase = "idle" => calls = <<>> /\ replies = <<>> /\ pkgs = {}

\* The end of a save that nothing disturbed.
SaveEnded == clean /\ LoadReply

\* After a save that nothing disturbed, the router has exactly the sections that
\* the views showed, under the names it gave them, and the views show them.
SavedAsShown ==
    [][ SaveEnded =>
          \A c \in pkgs :
            LET asSaved == {[before[c][i] EXCEPT !.name = names[c][@]] : i \in DOMAIN before[c]}
            IN  /\ asSaved = {server'[c][i] : i \in DOMAIN server'[c]}
                /\ asSaved = {Shows(c, s)' : s \in Listed(c, AnyType)'} ]_allVars

\* ... and in the order in which the views showed them, if nothing was removed: the
\* sections of each type, as the views list them, and those of all types unless
\* sections() was called with one, which puts what was added last before others.
OrderAsShown ==
    [][ SaveEnded =>
          \A c \in ordered :
            LET name(i)  == names[c][before[c][i].name]
                place(i) == At(server'[c], name(i))
            IN  /\ {name(i) : i \in DOMAIN before[c]} = NamesIn(server'[c])
                /\ \A i, j \in DOMAIN before[c] :
                     /\ i < j
                     /\ before[c][i].type = before[c][j].type \/ ReadTypes \subseteq {AnyType}
                     => place(i) < place(j) ]_allVars

\* A call that the router refuses fails alone: its section may stay as it was, but
\* all others come out as the views showed them, and the views show what the router
\* holds, package by package; one that could not be loaded again shows nothing.
RefusedAlone ==
    [][ LoadReply /\ refused # {} =>
          \A c \in pkgs :
            LET failed(ops) == {call \in refused : call.conf = c /\ call.op \in ops}
                spoilt    == {call.sid : call \in failed({"add", "set", "delete", "options"})}
                shown     == {before[c][i] : i \in DOMAIN before[c]}
                asSaved   == {[x EXCEPT !.name = names[c][@]] : x \in {y \in shown : y.name \notin spoilt}}
                held      == {server'[c][i] : i \in DOMAIN server'[c]}
            IN  /\ asSaved \subseteq held
                /\ \A x \in held \ asSaved : x.name \in spoilt
                /\ values'[c] = IF failed({"load"}) = {} THEN Snapshot(server'[c]) ELSE EmptyPackage ]_allVars

\* Whatever fails, is late or was changed by others meanwhile, the calls of a save
\* change no option of a section that the user did not edit.
OnlyAskedChanges ==
    [][ foreign' = foreign =>
          \A c \in Configs, s \in Sids, o \in Options :
            LET now(file)   == file[At(file, s)].opts[o]
            IN  s \in NamesIn(server[c]) /\ <<c, s, o>> \notin asked =>
                  s \in NamesIn(server'[c]) /\ now(server'[c]) = now(server[c]) ]_allVars

\* A save that was started ends, whatever the router answers.
SaveEnds == phase = "saving" ~> phase = "idle"
=============================================================================
