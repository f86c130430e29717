# Verification of xLuCI2

xLuCI2 is a web interface for OpenWrt routers: JavaScript in the browser that talks JSON-RPC to
`ubus`, an `rpcd` plugin in C, and a CGI program for uploads.  These modules specify the parts of it
that keep state over several steps, TLC checks them on small instances, and TLAPS proves the
properties that matter most for every value of the constants.

Paths below are relative to the repository; `uci.js`, `rpc.js`, ... are in
`luci2-base/htdocs/luci2/`, `main.c` and `multipart_parser.c` in `luci2-base/src/io/`, `bwmon.c` and
`luci2.c` in `luci2-base/src/rpcd/`; `network.interfaces.js` and other pages in
`luci2-base/htdocs/luci2/view/`.

## The system

| Part | State | Operations | Talks to |
|---|---|---|---|
| UCI cache (`uci.js`) | loaded sections, pending additions, changes and deletions, packages to reorder, counter for new sections | load, unload, add, remove, get, set, unset, sections, swap, save, apply | batches of RPC calls; every page and form |
| RPC client (`rpc.js`) | next id, outstanding requests, the batch being filled | call, batch, flush, answer | `$.ajax`, with a timeout |
| Session (`session.js`) | heartbeat timer, permissions | isAlive, start/stopHeartbeat, updateACLs | RPC; the login dialog of `ui.js` |
| Shell (`ui.js`) | the address, current view, its timers, overlay, dialog, upload form, pending-changes button | renderView, changeView, repeat/finish, login, reconnect, upload, updateChanges | everything |
| Forms (`cbi.js`) | maps, sections, values, what is hidden, marked and wrong | draw, enter, add, remove, sort, validate, save, send, reset | the UCI cache |
| Networks (`network.js`) | answers kept for all pages, devices, interfaces, protocol handlers | load, update, refresh, create, delete | the UCI cache, RPC |
| Firewall (`firewall.js`) | zones and forwards made of the cache | find, create, delete, add and take out a network | the UCI cache |
| Pages (`view/*.js`) | one form or table each; the page of the interfaces queues of restarts and shutdowns | | forms, objects |
| Upload (`main.c`, `multipart_parser.c`) | parser state and mark, fields of the form, temporary and target file | one callback per piece of the form | standard input, files, `ubus` |
| Bandwidth monitor (`bwmon.c`) | one ring of increments per interface and counter | collect (every second), devices, statistics | `/sys/class/net` |
| Other calls (`luci2.c`) | none between calls | some sixty handlers that read files or run a program | files, child processes |

What is hard in it:

* The browser edits a *copy*.  Four overlays (added, changed, deleted, reordered) over the loaded
  sections must read like one table and be sent as calls whose effect is what the user saw, although
  answers are matched to calls by position, single calls fail, a batch can be given up on and run
  late, and other sessions change the router meanwhile.
* The order of sections is kept in indices, and `sections()`, which looks like a read, writes them.
* Everything in the browser is asynchronous: a page can be left while its calls are under way, and a
  heartbeat or a batch may belong to somebody else.  Callbacks that throw take what waits for them
  along: a page that is updated under a refreshment can lose the refreshment, an overlay its owner.
* An applied configuration is taken back unless it is confirmed in time, by the session that applied it.
* A form is validated input by input while other inputs appear, vanish and change what is allowed;
  adding, removing and sorting rows saves and redraws what was never validated.
* The upload parser is fed pieces of any length, and a delimiter can be cut anywhere.
* Counters wrap, are reset, and interfaces come and go under the bandwidth monitor.

What would make each part correct: the cache is a table and nothing edited is lost or invented; a save
sends exactly the edits and ends; an upload stores the bytes that were sent, entirely, with permission,
or says that it did not; the monitor shows the last increments in order; one view at a time is alive;
every dialog that blocks the page goes away; a form writes only what is visible and valid.

## Modules

| Module | Models | State and actions against the code |
|---|---|---|
| `ConfigTable` | what the cache promises | `base` (as fetched), `own` (added here), `table` (as seen); fetch, discard, insert, delete, write |
| `UciState` | the cache of `uci.js` | `values`, `creates`, `changes`, `deletesAll`/`deletesOpt` (the entry `true` or the list of options), `reorder`, `newidx` are the fields of `L.uci.state`; `loaded` and `opened` say which packages have an entry.  One action per operation, and one per branch of `set` and `remove`. |
| `UciSave` | `load`, `save`, `reorderSections` over RPC and the router | `phase` is the promise the client waits for; `calls`/`replies` are the batch under way; `stale` are calls of a batch given up on; `server` is the router's packages.  Extends `UciState`. |
| `Multipart` | `multipart_parser_execute` | one operator per state of the parser; a step takes one byte and says which callbacks it makes with which slice |
| `Upload` | `luci-upload` and the form in `ui.js` | the fields of `struct state`, the files, the answer; `at` and `place` say which byte of the form is read next; one action per callback and branch.  Extends `Multipart`. |
| `BwHistory` | what the monitor promises | a list of increments per interface and counter |
| `BwMon` | `bwmon.c` | `devices`, `pos`, `prev`, `values` as in the program; `Collect` is one run of the timer callback |
| `CbiTypes` | the datatypes of `cbi.js` | a datatype is the set of the texts it accepts; `Like` and `Shape` stand for the patterns and address parsers |
| `CbiValue` | the widgets of `cbi.js` | per kind: `Uci` (ucivalue), `Widget` (what the inputs show), `FormVal` (formvalue), `Saved` (changed and save), `Meets` (one condition of depends) |
| `FormsNetwork`, `FormsSystem` | the fields of every page made of forms, of every protocol, of a zone and of the queue page | one record per field: kind, datatype, optional, initial, choices, depends (`needs`), and what the page replaces (`own`, `rule`) |
| `CbiForm` | a section of a map from loading to sending | `table`/`order` are what the form reads from the cache, `shown` the inputs, `hidden`, `wrong` and `marks` what toggle, setError and the markup keep; one action per handler |
| `Views` | `renderView`, `changeView`, `repeat`, `finish` of `ui.js` | `hash`, `cached`, `current`, `timeouts` as in the code; `draws` and `chains` are the renderings and refreshments whose callbacks are under way; one action per callback |
| `Session` | `session.js`, the login and the start of `ui.js` | `sid`, the heartbeat, the login's promise; the router's session and its end.  Extends `Views`. |
| `Interfaces` | `network.interfaces.js`, the cache of `network.js`, `apply` of `uci.js` | the queues, the networks known, the operations under way by the promise they wait for; the router with staged edits, rollback and confirmation.  Extends `Session`. |
| `Page` | the composition: what the user, the browser, the router and the network do | `Next`, fairness and the properties of the three modules above |
| `Firewall` | the zone of an interface: `firewall.js`, its choice in `network.js`, removal of an interface | `networks` of each zone; one action per save and removal |
| `UciState_proofs`, `UciOrder_proofs`, `UciSave_proofs`, `BwMon_proofs`, `Multipart_proofs`, `Upload_proofs`, `CbiForm_proofs`, `Page_proofs` | | the theorems and their proofs; `Multipart_proofs` has the lemmas about one step of the parser |
| `MC*` | | instances for TLC |

Choices a reader should know of:

* Section names are model values.  `Temps` are the names `createSID` makes; the routers' names for
  anonymous sections (`Fresh`) are chosen freely among the unused ones.
* The indices of added sections start at 1000 in the code; here at `NewBase`, above every index of a
  package (`RoomAssumption`: a package of more than a thousand sections would break it).  `birth` stands for the order in which JavaScript lists the keys of an object.
* `remove` and `swap` take the sections that the forms offer, and `add` a name that `handleSID` of
  `cbi.js` accepts: the guards are those of the callers.
* `None` in a change is "no change"; the empty string is a value that `set` and the router treat as a
  deletion.
* A call of a batch that is refused counts as a fault; so does a batch the client gives up on.
  `clean` and `refused` are history: nothing disturbed the save, or nothing but the refusal of these calls.
  `MaxFaults`, `MaxForeign` (changes by others), `MaxSaves` and `MaxNew` are bounds of the instances,
  in the guards.
* In the parser a byte is a string, and a word the program compares as a whole (a field's name, the
  content type) is one byte, so a read cannot end inside the word itself; session id and file name
  have two bytes each so that it can end inside those.  The search for a quote beyond the end of a
  slice may find any name, as what lies there is left over from the read before.
* The system calls of `luci-upload` on the way of the file may fail: making and writing the temporary
  file, going back in it, opening, writing and chmod of the target, which it checks; and reading the
  temporary file back and removing the target, which it does not (`failed` says which failed).  A
  read of the temporary file that fails ends the copy like the end of the file (`main.c:337`), and what
  was copied is reported as stored.  A request that breaks off leaves the program where it stands.  The
  mode of the target file and the checksum in the answer are left out.
* A form is one section, as sections share nothing, and of it one field with the fields it depends on
  or is saved with (`Focus`); of such sets that say the same one is taken.  What else fields share is
  the order in which they are validated.  It matters where a validation breaks off: the select of a
  combo box that has to be filled selects nothing once the user emptied it by way of "-- custom --",
  its value is null and reading its length throws (`cbi.js:723`).  In the model nothing is sent then,
  and the fields in focus are done with before (`StopsAssumption`).  In the whole form the fields behind
  it are neither checked nor shown and hidden; and if the combo box itself was hidden since, say the netmask
  by the choice of another protocol, the sending is still stopped, by an error out of view.
* A combo box is an input and a select in one place, and the verdict on the select stands
  (`Checked`).  Without choices the select holds the text, or for want of one a blank, which most
  datatypes refuse.  `section` holds these fields.  Texts are few: per datatype one it takes and one most refuse,
  beside the empty one; what the router may hold are such texts, lists, and values of no choice.
  Of the other protocols of an interface one stands for all; the switch of the instance has VLANs with
  a number of their own; the time service is enabled when its form opens; an interface "wan" exists
  for the tunnel that asks for it.
* An answer of password encryption may come at any later time (`CryptDone`); the answers that `send`
  waits for are part of `Save`.
* In `Page` the event of a changed address comes before anything else the browser does; a login is
  answered after the page behind it is drawn; a heartbeat and its answer are one step, and so are the
  dialog of an operation and its confirmation, save and the reading that follows, the answers of one
  refreshment, and those of the first part of an update.  There is one operation at a time for each
  name.  The ten seconds of a rollback are a confirmation that was missed (`missed`), not a clock.
* `overlapped` and `lost` in `Views` are history: a view was left before it was drawn, an answer was
  lost.  The properties say where they need them.
* The networks of a zone are kept in order, as the code picks them by position: `addNetwork` sorts them
  (`Alphabet` is the order of their names), `delNetwork` drops the last.
* `ubus`, `rpcd`'s uci object and the file system are modelled from how the code uses them.

## What is checked

| Run | Question | Bounds |
|---|---|---|
| `uci_overlay` | do the overlays read like a table, and are the pending edits consistent? | one package; a section that may be loaded and an anonymous one; two options, one value beside the empty one; 3 additions, so that a name is used again after a removal and an unload |
| `uci_order` | do sections keep their places when read, added, removed and swapped? | three loaded sections of two types in two orders and one anonymous name, added twice; reads by type and without |
| `uci_move_up` | does "Move up" move? **violated** | as `uci_order`, reading without a type only |
| `save_edits` | does a save leave on the router what was shown, and change only what was edited? | one package with one section to begin with; named and anonymous additions, options changed and deleted; one fault and one foreign change |
| `save_order` | does it leave them in the order shown? | two sections on the router, two additions, two saves in a row |
| `save_two` | do answers of two packages get mixed up, and does every save end? | two packages of one section saved together, one addition, reordering, one fault in any of the three batches |
| `upload` | is what is reported as stored what was sent? | every file of up to three bytes of the delimiter `CR LF - x`, and of four that begin with `CR LF`; each byte may be the last of its read; forms with and without session and name; each system call on the way of the file may fail, a copy after any byte |
| `upload_told` | does the page tell a failed upload from a successful one? **violated** | as `upload` |
| `form` | is what a form sends valid, what was entered kept, what is hidden right? | every form of every page, each field in focus with those it depends on; none or one row at first and as many as three acts of the user make; the values and texts described above |
| `page` | does one page at a time live, drawn for its session, and does the page of the interfaces get through with what it is asked? | that page and one other; two disturbances by user, router or network in any order: a choice of a view, a press, an operation, an answer lost, a session ended; two sessions; one network at first and a second name; starts with and without a bookmark, with a session that lives and one that does not |
| `zone_choice` | is the zone chosen for an interface the one shown afterwards? **violated** | two interfaces, one zone at first and the name of another |
| `bwmon` | is the ring the history of the last readings? | two interfaces, one counter, a ring of three, words of four values |

Properties, besides one type invariant per module:

* `NoConflict`, `PendingIsReal` (overlay): no name is both added and changed or deleted; changes and
  deletions are pending only for sections that are there and none inside a section that goes as a
  whole.  `save` sends additions, changes, deletions in this order and needs both.
* `ImplementsTable`: the cache refines `ConfigTable`.
* `EditsAreSeen`: reading after writing, and removal is seen; what an added section hid shows again.
* `CompactKept`, `PlacesKept`: as long as no section is removed, none hides a loaded one of its name (one
  that was added before the package was loaded) and no type is given to `sections()`, the
  indices stay 0, 1, 2, ...; then sections keep their places and a swap exchanges exactly two.  The
  condition is the point: without it `MoveUpMoves` fails.
* `SavedAsShown`, `OrderAsShown`: after an undisturbed save, contents and order on the router and in the
  new copy are those that were on the screen.
* `RefusedAlone`: if nothing disturbs a save but calls that the router refuses, the sections of the
  others come out as shown, and each package is loaded again under its own name: an answer that is
  missing shifts no other.
* `OnlyAskedChanges`: whatever is refused, lost, late or changed by others, a save alters no option the
  user did not edit.
* `SaveEnds`: a save that was started ends.
* `StoredIsSent`, `AllOrNothing`, `GrantedFirst`, `UncutIsStored` (upload): byte for byte; no partial
  file; nothing is written, not even the temporary file, before the permission was given; and an upload
  whose fields are not cut by a read succeeds, however the file itself is cut.  The first two name what the program does not
  look at: a temporary file that cannot be read back, whose beginning is then stored and reported as the
  whole, and a target that cannot be removed.
* `ImplementsHistory`: the monitor refines `BwHistory`.
* `HiddenIsUnmet` (forms): a field is hidden exactly while what it depends on is not met by accepted
  inputs.  `SentIsValid`, `NoClash`: what is sent for a visible field is of its datatype (a list in each
  of its texts), nothing required is missing, the names and numbers the form reads differ between rows
  and a port is untagged once, though rows were saved without validation in between.
* `EnteredStays`, `UneditedStays`: save, ucivalue and widget of every kind fit together: what was
  entered is shown again after it was saved, and what was not touched is stored with the parts it had.
  `Forgotten` and `Lossy` name the exceptions, each of them behaviour of the code: among them the LCP
  echo of any interface but "wan", DHCP options besides the name servers, values of no choice, a combo box
  that was emptied though it has to be filled, which is drawn again with its first choice, and a box
  checked while an earlier password is still being encrypted, over which the late answer wins.
* `AcceptedIsSent`: sending is refused only after an error was seen, but for checks that look at other
  inputs; and a combo box that stops it shows an error.  `OnceShown`: a form that was on the screen does not vanish, but for a select without choices.
* `Watched` (page): there is always a heartbeat or a login.  `Settled`, `RedrawnAfterLogin`: when all is
  drawn, the view of the address is on the screen, alone, current, and drawn for the session in use.
  `LeftIsQuiet`: what refreshes a page that was left stops.  The last three fail when a view is
  left before it is drawn (`overlapped`), which the code does not guard against.
* `ReportedStays`: though sessions end and confirmations are lost, the router takes back what the page has
  reported as applied only where an operation that was not reported asked for the same again.  The
  exception is needed: `apply` may confirm what another operation applied (`uci.js:502`), and edits
  that were saved with another operation are sent twice.
* `OverlayEnds`, `AskedIsCalled`: the overlay goes away and what the user asked of an interface is called,
  unless an answer is lost.

Why the bounds are enough: an overlay step concerns one section and at most two options (one that is
changed while another is deleted); order needs three sections (two to swap and one that must not
move); the parser holds back at most a delimiter less one byte, and a file of four bytes holds a
delimiter that nearly ends, one after another, and one that restarts with the byte that broke it; the
ring of three goes round within four readings.

Why they are enough for the forms: a check looks at the other inputs of a row or at the same input of
another row, so two rows and a third to be added hold every case; three acts are what it takes to save
a row without validation, change another and send.  For the page, every property is about one
disturbance met by another one: leaving and returning are two, losing a session while a view is drawn
or an operation is confirmed are two.  Three instances of a view, four draws and five refreshments
are never exceeded within these: the choice in `Free` would fail, and with a fourth instance
(`Unused`) the number of states is the same.

Deadlock is not checked where the system may stop: a save that is done, an upload that was answered, a
form or a page whose user has used up his acts.  That nobody waits for ever is said by `SaveEnds`,
`OverlayEnds` and `AskedIsCalled` instead.

Fairness is assumed in two places.  `WF(Waiting)` of `UciSave`: while a promise is pending, the router
answers or `$.ajax` gives up (`timeout: L.globals.timeout`, `rpc.js:26`), and both run the same
callback (`.then(cb, cb)`).  In `Page`, `WF(Work)` for the events of the browser and the answers to
drawing, login and operations, for the same reason, and `WF(Refresh(c))` for each refreshment, whose
timer the browser lets run out whatever else goes on.  Losing an answer is no part of either.  Nothing is
assumed of the user, of other sessions, or of calls that were given up on.

Three runs are expected to find a violation:

* **Move up does not always move** (`uci.js:223`, `382-398`).  `sections()` renumbers the added
  sections only.  After a loaded section is removed, the number given to an added one can be the
  index another section kept; exchanging the two changes nothing.
* **A failed upload is taken for a good one** (`ui.js:186`).  The program names the field `failure`
  (`main.c:286`), the page looks for `error`, and goes on to "The backup archive was uploaded
  completely" with an old file, or none, under that name.
* **Unspecified takes out another network** (`firewall.js:192`).  `nets.pop(n)` drops the last network of
  the zone; the form of an interface promises that "unspecified" removes this one
  (`network.js:1137`).

## What is proved

By TLAPS, for any sets of packages, sections, options, values and any bounds that satisfy the named
assumptions of the modules (`SidsAssumption`, `ValuesAssumption`, ... : the sets are finite where the
cache counts, the sentinels are no values):

* `TypeCorrect`: `Spec => []TypeOK` for `UciState`.  Inductive as it stands; the one step with an argument
  is `sections()`, whose ranks are numbers because the sections are finitely many.
* `OverlayCorrect`: `Spec => []NoConflict`, and `PendingReal`: `Spec => []PendingIsReal`.  Neither is
  inductive alone: that an added section carries no pending change needs that changes are only of
  loaded sections, and `add` refuses those.  The conjunction with `TypeOK` is inductive.
* `CacheImplementsTable`: `UciState` refines `ConfigTable`, from the overlay invariant.  One lemma per
  operation says which step of the table it is; loading is a fetch, `unload` discards, the branches
  of `set` write, and what touches indices only is a stutter.
* `EditsSeen`: the action property `EditsAreSeen` from the same invariant.
* `CompactStays`, `PlacesStay`: `CompactKept` and `PlacesKept` for any number of sections within
  `RoomAssumption`.  `IndexOK` (loaded sections have indices below `NewBase`, added ones below the next to
  be given) is the invariant beside type and overlay.  The rest is about numbers: in a package in order
  the index of a ranked section is the number of those before it (`PlaceIsNumber`, a bijection between
  them and 0, 1, 2, ...), so that reading writes into each added section the index it may have
  (`TightPlaces`), a new one comes behind (`TightMore`), and exchanging two ranked indices exchanges two
  places and no other (`TightExchange`).  `StepsOf` says which of these a step does to a package.
* `MonitorTyped`, `MonitorImplementsHistory`: for any length of the ring and width of its words the
  monitor is typed and refines `BwHistory`.  The refinement needs, beside the type, that the ring of an
  interface without an entry is empty, and the arithmetic lemma `RingTurns`: the slot shown as
  increment j after a collection is the one shown as j + 1 before it.
* `AccessFirst`, `StoredWhole`, `StoredOrNot`, `UploadTyped`: `GrantedFirst`, `StoredIsSent`, `AllOrNothing` and
  `UploadTypeOK` of `Upload`, for any boundary, any bytes, any file without a delimiter, and any form of
  one to three parts that ends with the file.  The invariant `Kept` says where in the form the parser is
  (`Placed`: state, index and mark for each place of each part), how far fields and access have got
  (`Granting`, `Fields`: the file's part is reached with a session and a name only through
  `part_data_end` of the session), and what became of the bytes (`Streams`: what was written, what the
  calls not made yet pass on, the slice not passed on yet and what is held back, one after another, are
  the bytes read of the part).  The step that matters is a byte that breaks off what looked like a
  delimiter: the lemmas of `Multipart_proofs` say that what is held back is given out first and that the
  breaking byte is looked at again; the scan of a part ends where its delimiter is, as the file has
  none.  That no call is made after an answer is in `UploadTyped`.  `Stored` carries the exceptions
  that the two properties name, with what was copied as a prefix of the file.
* `UncutStored`: `Spec => []UncutIsStored`, from `Kept`, `Whole`, `Filled` and `Outcome`.  `Whole` says, of a form no
  read has cut yet, what the parser has of the word it reads (`HeaderRead`), what is known of the part
  once its header is read, that the content of a field comes in one slice and is in its field before
  the next byte (`FieldRead`), that the parts before are in theirs (`Past`), and that the access was
  granted for a session before (`Asked`).  So whoever is refused at the file was not granted access or
  gave no name, and a session is asked for once, as a form of three parts has no room for two beside
  name and file.  `Filled` (a temporary file that is not empty was counted) is why the end of the file
  answers with success.
* `FormTyped`, `HiddenAlways`: `FormTypeOK` and `HiddenIsUnmet` of `CbiForm`, for any forms, contents and texts
  that satisfy `FormsAssumption`: the fields in focus depend on each other only, over one field in between
  at most, and none depends on a list of texts, an account's password or an input that is compared
  with another password.  The pages keep to that, as TLC finds for every field of them; lists
  and those passwords change without being validated, and what depended on them would not be toggled.
  The invariant has three parts beside the assumption: `Whole` (rows, order and what is kept of
  each), `Marked` (a field with a marked input counts as wrong, so an input that is accepted again has
  no other mistake left) and `Fitting`.  The step with an argument is `Edit`: a field that was not
  toggled depends neither on the input just accepted (`Reached` has all that do) nor on one that came
  right on the way, as one that came right is among the reached and would have been wrong before
  with the same texts (`BadSame`).
* `SentSafe`: `Spec => []SentInv` for `CbiForm`, the invariant the next three follow from.  Beside that of
  `HiddenAlways` it says of the tables that every row has every option and each value is a text that
  has parts, or a list (`ColumnsOK`), and that a select finds what it is to show (`Showable`, for
  fields that share no option); of the inputs that each has what its kind of widget can hold
  (`InputsFit`) and that what depends on nothing is not hidden (`Free`); and of a form being saved that
  no visible input is bad (`Accepted`).
* `SentValid`: `Spec => []SentIsValid`.  A save writes an option from a visible field that was accepted
  (`ValidFits`), or keeps it since it is what the widget read (`SavedFrom`, `SavedRowIs`: nobody writes the
  option of such a field but a twin that agrees with it on everything that matters); late answers
  of encryption go to options no such field has.
* `NeverClash`: `Spec => []NoClash`.  Texts that are accepted in two rows differ (`TextsDiffer`), and
  each is read back as it was entered (`ReadsAsEntered`); of the ports of a VLAN, written by the field
  of its number from the inputs of all of them, an untagged one is found in one row (`SavedPorts`,
  `PortsDiffer`, `UntaggedOnce`).
* `ShownAgain`: `Spec => []OnceShown`, from `Showable`: what a select has saved is offered again
  (`SavedShows`), and in a new row or for want of an option what it starts with is.
* `AcceptedSent`: `Spec => AcceptedIsSent`.  The invariant `ToldInv` (`ErrorsTold`) says that the errors and marks on
  the screen hold those a validation would find and none that was not refused when it was entered (`Found`), if no
  field is checked against others, emptied or drawn again; and that a combo box that selects nothing shows an error,
  whatever the form has (`Stops`).  So sending finds no new error, and the argument is that it shows no hidden one: a
  hidden field that is met now was met before, unless something it depends on was wrong and hidden
  too (`SourceAccepted`).  `SourcesAssumption` excludes that: what may be hidden itself is a box or a select
  that is never wrong, or those that depend on it ask for all that it asks for.  Of the pages only what
  depends on the length of an assigned IPv6 prefix (`static.js:76`) needs the last case: the protocol
  hides both.
  These five are for any forms, contents and texts that satisfy `OptionsAssumption`, `ChoicesAssumption`,
  `CombosAssumption`, `SourcesAssumption`, `ClashAssumption` and `HeldAssumption`, which say what the pages
  keep to: which fields may write one option, that a select offers what it starts with, that a combo box
  without choices has to be filled and starts with a value or refuses a blank, what others depend on, that fields compared
  between rows are always there and are written by themselves, and that what a router holds is a text or
  a list of them.  TLC evaluates them for the fields of all pages.
* `SessionWatched`: `Spec => []Watched` for `Page`, for any views, interfaces and bounds.  Inductive as it
  stands: a lemma for drawing, refreshing, operating, the user and the faults says that they leave
  heartbeat and login alone, and `LoginGuards` that what begins a login stops the heartbeat and what
  ends one starts it.
* `PageTyped`: `Spec => []PageTypeOK`, from `TypesKept`, the types of session, screen, networks and
  refreshments.  Its last part is the one with an argument: a timer that is set takes its place for
  itself (`SetTimerTyped`), however many refreshments of a view are under way.
* `SettledAlways`: `Spec => []Settled`, from `DrawsOK`: unless views overlapped, one draw is under way at most,
  it is of the view of the address, its instance is current once there is one, and the screen shows
  as much of it as was drawn.  What it rests on is `SessionNamed` (the page uses the session the address
  names, but while the user logs in) and, from it, `AddressTold`: nothing but a drawing changes the
  address without an event that tells of it, so a login and a choice in the menu are always drawn.
* `RedrawnAlways`: `Spec => []RedrawnAfterLogin`, from `DrawnOK` (what is on the screen was drawn for the session
  of the address), with `Watched` for the start of a login and `ShowableOK` for a view that throws.
* `QuietAlways`: `Spec => []LeftIsQuiet`, from `QuietOK`: every refreshment under way is of the current instance
  or of one whose list of timers is gone.  `finish()` makes it so before another instance is current;
  while a script is fetched the instance that was left stays current, which is why `DrawsOK` speaks of
  its timers.
* `ReportedKept`: `Spec => ReportedStays`, from `StagedAsked` and `KeptAsked`: what the router holds was asked for by
  operations that did not apply it, and what an unconfirmed apply changed by ones not yet reported.
  These theorems are for any number of draws, instances and refreshments; where a step of the model
  would need more room than its bounds give (`Free`), the proofs use nothing of the place it is given.

* `SaveTyped`: `SaveSpec => []SaveTypeOK`, for any packages, edits and numbers of saves, faults and changes by others.
  The invariant `SaveInv` adds that the sections of a package were added one after the other (`Births`,
  without which the additions have no order and a call of the batch is no call) and `WireOK`: every
  call under way or given up is well formed, a batch is of loads only or has none, the answers are of
  the kind the client waits for, and a load has an answer or a call left for each package.  What the
  router does is in lemmas about packages (`AddedSpares`, `SetSpares`, `LessOne`, `MoreOne`), and `order`
  in `OrderedKeeps`: whatever names it is given, it leaves the same sections, each once.
* `OnlyAsked`: `SaveSpec => OnlyAskedChanges`.  Each call touches (`Touches`) the options of one section at
  most, and `WireOK` says that all of them were edited, also for the calls of a batch that the client
  no longer waits for; an anonymous section touches none, as its name is new.  `RunSpares` is the step.
  `Least` and `UpTo` are induction over numbers, from the well-ordering of the library; `OrderedIn` is a
  function on the numbers up to the length of its list, which `MovesExist` shows to exist.
* `SavedShown`: `SaveSpec => SavedAsShown`, for any number of packages, sections, edits and saves.  The
  invariant `SaveOK` extends `SaveInv` by what the save relies on in the cache (`CacheOK`), what the client
  waits for (`PhaseOK`), and how far it has got: the views are still those the user saved and, if nothing
  disturbs it, each package is its old self under the calls that have run (`SavingOK`); after the
  last one it is what the views showed (`SavedOK`), and that is loaded again, over no edits (`LoadingOK`).
  `Holds` says what the calls make of a package: additions, then changes, then deletions, so that each
  finds the section it names, and an anonymous section gets a name that was free.
* `OrderShown`: `SaveSpec => OrderAsShown`, from `SaveOK` and three more.  `IndexOK` says how sections stand in
  the cache: indices loaded are 0, 1, 2, ... (`Filled`), added sections are in the order of their
  additions (`Ranked`).  By `KeepsOK` a package that the save does not sort stays `Arranged` as on the
  screen; by `OrderingOK` the call that sorts one names all it should in that order (`OrdersAs`).
  `OrderedPlaces` is the lemma about the router's `order`, whatever it is given.  `OrderAsShown` speaks of the
  sections of one type where `sections()` is given types: the run reads without, the theorem covers both.

Only model-checked: `SaveEnds`, `OverlayEnds` and `AskedIsCalled` (liveness under fairness is out of the
prover's reach, as is ENABLED), `RefusedAlone`, and of the forms `EnteredStays` and `UneditedStays`.  The last two
compare what a widget reads with what it wrote, text by text: they rest on the parts and numbers of each single
text the router may hold or the user may type (`Shape`, `Like`) in each kind of widget, which the
instance gives and the model leaves open; they hold for its fields, which are those of the pages,
and its texts.

## What is not modelled, and the plan

`PROJECT.json` lists every component with its status, and under `hazards` what in this code is hard to
test, with the property that covers it or the reason why none does.  Not modelled yet:

1. In `cbi.js` the lists of devices and of access rights, tabs, panels and teasers, and sections within
   sections; in `firewall.js` the forwards that a zone's form writes on its own (`out.save`, `in.save`).
2. The table of outstanding requests of `rpc.js` and a batch used by several callers.
3. The reconnect dialog, the button of the pending changes (one more handler with every refresh,
   `ui.js:685`) and the list of permissions.
4. The package list, the upgrade page, cron and the diagnostics; the handlers of `luci2.c` that take
   several steps (init scripts, package lists in pages, upgrade and restore).

Left out for good: the text of pages, tables, charts, translation and themes; wireless objects, which are
read-only; vendored libraries; the vendor table generator; `luci-backup`, which copies the output of
one program.
