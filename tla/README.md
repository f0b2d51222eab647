# A model of zde's desktop daemon

`zded` is the daemon of the zde desktop: it names the workspaces of the niri
compositor into *desks*, keeps a journal of where you were, takes the session's
notifications, and answers a socket that key bindings, the `zde` command line
and the shell's surfaces talk to. This directory holds TLA+ modules of what in
it keeps state and runs concurrently, of the shell's end of its socket, TLC
configurations that check them on small instances, and proofs of what holds for
every instance: of the journal, the notification history, the server and its
queue, the policy of desks, and of the eight services.

Paths below are relative to the repository (`src/` in `PROJECT.json`).
`PROJECT.json` maps every definition to the lines it stands for.

## The system

| part | state it keeps | operations | shares with |
|---|---|---|---|
| journal (`internal/journal`) | a file of lines; what replaying it builds; the last id | Open, one call per kind of line, Queue, ClaimID, Done, Clear | everything that has to survive a restart writes here |
| notification history (`internal/attn/history.go`, `snapshot.go`) | a ring of records per sender, a revision, a file | Add, Replace, Dismiss, Snapshot, Restore | arrivals write it, KeepHistory saves it |
| notification server (`internal/attn/notify.go`) | two tables, sender's number to item and back | Notify, CloseNotification, Forget, Dismissed | calls the daemon's Arrived and Closed |
| queue (`internal/zded/queue.go`, `arrivals.go`) | in the journal | queueAdd, queueDone, queueClear, Arrived, Closed | journal, history and server, one after another |
| desks and modes (`internal/zded/desk_*.go`, `attn.go`) | OnDesk, LastDesk, Mode, Borrowed, LastActive in the journal; niri's names and focus | switch, move, rotate, reconcile, setMode, enterDesk | niri, journal, manifests |
| panic (`internal/zded/panic.go`) | what it took, in memory | deskPanic | switch, mode, the machine's sound |
| desk map (`internal/desk`) | none: a function of niri's workspaces | Rebuild, the plans, Rotation | every desk operation |
| desk session (`zded/desk_*.go`, `niri/client.go`) | niri's names and focus, OnDesk, LastDesk, LastActive | the watcher's rounds, switch, carry, move, scroll | niri, a person at its keys, a cable |
| connections (`zded/socket*.go`, `connections.go`, `sink*.go`) | the table of connections, a gate per sink | admit, evict, read, reply, drop, Close | every request |
| surfaces, listeners, popups | subscribers, tokens waited for, a backlog | listen, broadcast, showSurface, acknowledge, pumpPopups | the shell |
| ask (`zded/ask*.go`) | claims and runs | askOn, startRun, askRun, stopRuns | a subprocess, the asker's connection |
| clipboard (`internal/clip`, `zded/clip*.go`) | a ring with expiry, an expectation | Add, Note, Expect, Expire, Clear, clipPut | wl-clipboard, the selection |
| pairing (`internal/bt/agent.go`, `calls.go`) | one question, the last passkey shown | ask, Answer, Cancel, Clear, start | BlueZ, a person |
| bus connections (`zded/bluetooth.go`, `net_manager.go`, `power_logind.go`, `bus/bus.go`) | one dialled connection of each kind, a cached absence | radio, links, logins, closeRadio, Connect | the system bus |
| joining (`internal/link/nm.go`) | what one attempt added | Connect, watch, Forget, Disconnect | NetworkManager |
| power, lock, idle (`internal/power`, `zded/power*.go`, `lock.go`, `idle.go`) | none: readings put together | menu, Do, idle, lockPreset | logind, niri, config files |
| chrome (`zded/rules.go`, `zen.go`, `desk_apps.go`, `internal/manifest`) | zen in the journal, `dynamic.kdl`, the manifests | SyncRules, zen, snapshot, Save | files people write too |
| request channel (`shell/RequestChannel.qml`, `Dialer.qml`) | pending replies with deadlines, acknowledgements | call, accept, restart, retry | the socket, `AskWindow.qml` |
| keymap, doctor, command line | none | emit, report, print | |

Requests run on a goroutine per connection, notifications on one per D-Bus call
(godbus), beside the watcher of niri's events, the history writer, the clipboard
watcher, the popup pump, the runs of an ask and the shutdown. Each piece of state
has its own mutex and no operation holds two of them across a step: what is hard
in this code is what falls between two of its short critical sections, what was
read before a call to somebody else and is used after it, and what a restart
finds. `PROJECT.json` "hazards" lists forty such places, each with the properties
that would catch it and what of it they do not cover.

What makes each part correct:

* **journal**: what callers were told is what a restart finds; ids are never
  given twice; the queue's three bounds hold of the queue; a finished item stays
  finished.
* **history**: both bounds hold, an arrival costs the cheapest ring or the oldest
  record of its own and nothing else, nothing
  private reaches the file, a skipped save was not needed, the last save happens.
* **notification server and queue**: the tables agree, a sender closes only its
  own, nothing is dismissed and still waiting, one download is one item.
* **desks, modes, panic**: a lent mode and the session's own are never mixed up;
  entering a desk applies what it declares; panic gives back what it took.
* **desk map, desk session**: one name is one workspace, a name keeps its home
  while nobody moved it, renames are granted in an order that never takes a held
  name, a switch brings the whole desk up, the watcher comes to rest and then has
  nothing left to do, unless a call failed it.
* **connections, surfaces, ask**: a request is answered or its connection closed;
  one connection makes room for another, no listener and nobody who waits for an
  ask; "shown" means it was drawn, and in
  time; an ask's lines come in order, none runs once Close has seen it gone, and
  its place is given back.
* **clipboard**: nothing outlives its age or the ring, no secret that could be
  known is read, zde's own write is not history.
* **pairing**: a yes answers the question it names and none other; a question
  stands until it is answered or lapses.
* **bus connections**: no connection is left behind or given out after it was
  given up, and each kind has one.
* **joining**: no profile is deleted but one a person forgot or one whose own
  join is over.
* **power, lock, idle**: what the menu, a refusal and the idle answer say was so
  of the session they are about; what locks does so over the preset desk once it
  was switched to, and nothing locks only when the locker went or a step failed.
* **chrome**: `dynamic.kdl` is whole and agrees with the manifests and zen when
  nothing changed under its writer; nobody's own file is overwritten.
* **request channel**: a reply reaches the callback of its own request, once; a
  late reply finishes nothing; an acknowledgement goes out; a piece of text
  appears in the answer it is of; the window's keys open again.

## The modules

| module | models | states and actions against the code |
|---|---|---|
| `JournalEntries` | lines and `apply`, `roomFor` | a state is `State` with `lastID`; one operator per kind of line. The last-value-wins kinds are `Registers` |
| `Journal` | the journal as its callers see it | one action per exported call; `Record` is `recordLocked`, which under the mutex is one step with four outcomes: recorded, write failed, sync failed, process stopped inside. `base`/`tail`/`entries` are the file, kept as what a replay of its terminated lines yields and what follows the last newline |
| `JournalFile` | the same, line by line | one action per system call: write, sync, temporary file, rename. Refines `Journal` |
| `JournalQueueProofs`, `JournalProofs` | | theorems about the queue as a value, and about `Journal` |
| `AttnRecords` | the history as a value | rings are one sequence in arrival order; `Add`, `Replace`, `Dismiss`, `Snapshot`, `Restore` as the methods of those names |
| `AttnHistory` | daemon, writer, file, sessions | `run`'s phases; `Begin`/`Take`/`Write` are the three holds of a lock in `SaveHistory`; `Arrive...` are `Arrived`'s history half |
| `Attention` | server, queue and history together | `call[h]` is a goroutine's locals and where it is; one action per hold of a mutex, from Notify, CloseNotification, queueDone and queueClear down to the tables and the journal's bounds (`Q == INSTANCE JournalEntries`) |
| `DeskPolicy` | desk, mode, loan, panic, beside niri | `call[h]` again; an action per line written and per thing asked of niri. `Ask`/`Note` are a `deskOf` on some other goroutine, whose answer is written down late |
| `DeskMap` | the desk map | pure operators over a set of workspaces. A name is a record of desk, monitor and slot. `Granted` is `grantMoves` as a function from what is held to the moves in order |
| `DeskSession` | the watcher and a request, beside niri, a person and a cable | EXTENDS `DeskMap`. `watch` is `reconcile`'s locals and where the drain loop is, `req` a request's; one action per exchange with niri. The watcher reads workspaces and then outputs, as `DeskMap` in `client.go:565-578` does, with the person between them. A call of the watcher's fails on a connection of its own, done by niri or not (`ReadFails`, `NameFails`, `WhereFails`); the stream of events is another, and ends by itself (`StreamEnds`) |
| `Connections` | socket, listeners, surfaces, popups, asks, Close | `job[c]` is a handler, `run[c]` its ask, `gate[c]` who writes to it. A reply's write takes two steps, an event's one |
| `Clipboard` | ring, watcher, put | the ring is a set, its order that of its ids. Types and content are two runs of wl-paste with the selection free to change between them; `put[k]` is `clipPut` between its copy, its expectation and its write |
| `Pairing` | the agent, its question, the person's surface | `call[c]` is a method BlueZ calls, `due` its timers; `yes` and `seen` are the person |
| `Buses` | the three lazily dialled connections | `conn[i]` is one dial; `ask[c]` a request between the lock it let go and the one it takes again; `reaped` a dial too slow, closed by Connect's reaper |
| `Joins` | joining and forgetting networks | `join[j]` is Connect's and watch's locals; NetworkManager is external |
| `Power` | menu, verbs, idle, locks | the facts of the world come and go between one reading and the next; `press[k]` is what a request has read. A lock is spawned (`RunLock`) and answered, and the process looks the locker up for itself (`LockStarts`) |
| `Manifests` | reading and checking a manifest, rendering rules | pure operators |
| `Chrome` | manifests on disk, `dynamic.kdl`, zen, snapshots | EXTENDS `Manifests`. A directory is read file by file; a text is written, synced and renamed in three steps, with a power cut between them |
| `ShellChannel` | the request channel and the window that asks | one action per QML handler, with the daemon's end (`peer`) and the lines on their way external. What a callback calls is a step of its own |
| `MCServices` | | the eight services from `Connections` to `ShellChannel`, each by INSTANCE, in one run: they share no state, so a behaviour is one service's with the others at rest |
| `AttnRecordsProofs`, `AttnHistoryProofs`, `AttentionProofs`, `DeskPolicyProofs`, `BusProofs`, `ServiceProofs` | | theorems about `AttnRecords`, `AttnHistory`, `Attention`, `DeskPolicy`; about `Pairing`, `Buses`, `Joins`, `Power`, `Clipboard` and `Chrome` (`BusProofs`), about `Connections` and `ShellChannel` and the types of all eight (`ServiceProofs`, which EXTENDS it), as `MCServices` has them |
| `MC...` | | model values, symmetry, and the instances' manifests and files |

A history variable never guards an action; each module says which of its
variables are history. Operators whose comment begins "mutant:" are plausible
wrong versions of the definition below them and belong to no specification; each
shows that a property would notice.

## The runs

| run | question | result |
|---|---|---|
| `journal` | what survives calls, crashes, reopening and a disk fault in any order | holds |
| `journal_torn` | do ids repeat after a torn write | **they do** |
| `journal_file` | does the file, line by line, implement the journal | holds |
| `history` | bounds, eviction, privacy, saving and stopping | holds, liveness included |
| `history_stop` | does the last save have what arrived during shutdown | **not after a signal** |
| `attention` | tables, ownership, dismissed against waiting, with two calls in progress | holds |
| `attention_replace` | is one download one queue item | **not when two updates are handled at once** |
| `desk_policy` | loans, entry policy and panic under failures and walks by hand | holds |
| `desk_retry` | does the retry of a half-failed switch apply the mode | **not if anything asked where we are in between** |
| `desk_session` | do names keep their home, switches bring the desk up and rounds come to rest, whatever people and cables do meanwhile | holds, liveness included |
| `services` | what each of the eight services promises, over every order of its callers, peers, time and failures | holds, liveness of the socket included |
| `pairing_ids` | is a yes spent only on the question it was typed for | **not after the radio was dialled again** |

The five violated properties state what a comment of the repository says;
`PROJECT.json` "findings" quotes each beside what the code does. In words:

1. `openForAppend` does not end a fragment a crash left, so the first line after
   it is lost at the next replay and its id is given again.
2. On a signal the context of the history writer ends before the server closes.
3. Looking a number up and remembering its successor are two critical sections
   with the arrival between them.
4. `switchFrom` decides whether to enter a desk by the journal, into which any
   `deskOf` writes the desk a half-failed switch already focused.
5. Every dial makes a new agent, whose question ids start from one again: the id
   a person read before the redial names another question after it.

### Bounds

* `journal`: one place, two slots, one register, two apps and a person, a queue of
  3 with 1 reserved and 1 per sender, ids up to 3, files of up to 4 lines
  compacted beyond 3, one fault. Each bound of the queue is met before the ids
  run out; a fault can be followed by a restart and further calls, which is what
  a second line lost or an id given again needs. A second fault adds nothing but
  another fragment. Apps are symmetric; nothing distinguishes them.
* `journal_file`: no apps, one slot, compaction beyond 1 line: the refinement is about the
  file, so the lines are few and compaction frequent.
* `history`: three apps for two rings, so that an arrival has two rings to choose
  between; rings of 2, so that rings differ; a file of 2; four ids, three
  revisions per session. Any write may fail. An earlier session has left two
  records, because the cheapest ring is not always the oldest only once a ring
  of two is older than one of one. `history_stop` starts from an empty file.
* `attention`: two connections, two calls in progress, one app name, rings and shares of 1 so
  that every arrival evicts, numbers asked for that collide with ids given.
  Two calls are enough for every race of two critical sections; ids up to 2.
* `desk_policy`: a desk that lends the mode a session starts in, one that lends
  quiet, and the decoy that declares nothing; two modes, one of them the one panic
  sets; two monitors, so that a switch can fail between them; walks by hand to the decoy; one request at a time beside a late `Note`,
  crashes and unwritten lines. Two overlapping requests multiply the states
  beyond the time a run has, and the code promises nothing of them: the module
  has the constant, and `doubt` forgives them.
* `desk_retry`: two desks, no faults: the shortest instance that shows it.
* `desk_session`: a desk that declares two workspaces on one monitor and one on the
  other beside one that declares nothing, two monitors, two labels. Two kinds
  of session begin it (`Beginnings`). An ordinary one, with two moves of a hand or
  a cable (drag, open, close, walk, unplug, plug) and one request, or two requests
  and no hand, or two hands and one failing call. And one in which three
  workspaces sit on two monitors, moved there before zded started, with every
  choice of different names for them: renames that trade, chain and collide.
  Workspaces made on the way are counted by `MaxID`, which a session's budget cannot pass.
* `services`, `pairing_ids`: each service begins with one of a few budgets, named in
  `MCServices`, of what its callers, peers, time and failures may still do; a
  budget is there for each race the module is about, and gives each side of it
  its turn. Limits are small enough to be met: two connections kept of
  three dialled, one listener, one ask, a popup backlog of one, a ring of two, one
  holder named, two manifests read, two replies waited for. `Power` moves the world
  only while a request is `Busy`: what changes before or after is another
  beginning, and `AtFirst` names two, one with another user's session and an update
  that blocks everything, and one with a greeter, a player, open windows and a
  manifest that does not parse. `Chrome` takes requests
  once startup has written its file (`Serving`), since the socket opens after it.

Deadlock is checked in `journal`, `journal_file`, `history` and the desk policy's runs.
Elsewhere the instance, not the code, may stop: in `attention` ids run out and a
call in progress may wait for one for ever; in `desk_session` and the services
budgets run out.

### Fairness

Three modules state liveness. In `AttnHistory` the ticker ticks and the goroutine's
steps are taken (weak fairness of `Begin(FALSE)` and `Take`): between its loads and
stores it waits for nobody. A disk that is written to again and again takes a file
in the end (strong fairness of `Write`, beside `WriteFails`): one that always fails
saves nothing, and the code does not promise it. A select with both cases ready picks at random, so
the end of the context is not passed over for ever (strong fairness of
`Begin(TRUE)`). `srv.Close` is bounded by `runStopWait` (weak fairness of
`CloseReturns`), and `run` returns when the save has (`Exit`). Nothing makes
arrivals, signals, failures or crashes happen.

In `DeskSession`, `WatcherRuns`: the watcher's goroutine runs while it has something to do
(an event, or a round begun), every call to niri having a deadline: a call that
fails or is late ends the round and brings no event. It is stated
without ENABLED: it either is at rest infinitely often or moves infinitely often.
People, cables and requests owe nothing and are bounded; `Settles` is that the
watcher's own renames, which are events too, do not keep it going for ever. What is
then left to do is nothing (`RestMeansDone`), as long as no failed call cut the last
round short (`watch.cut`). `HomeKeptWhileStill` says what a round may do to the names of
workspaces, one by one: it excuses a workspace that was itself moved or named by
another since the round began to read (`stale`), and none beside it.

In `Connections`, weak fairness of all that zded's own goroutines do (`ZdedRuns` in
`MCServices`): a handler's write has five seconds, an event's 200 ms, an
acknowledgement its timer, a run its kill. Clients, tiers and the session owe
nothing. `Answered` says of every request read, whatever the client does, that it
is answered or its connection closed.

## What is proved

Each theorem holds for every value of the constants that the assumptions named
below allow; TLC evaluates those in every run of the module that states them.

| module | theorem | property |
|---|---|---|
| `JournalProofs` | `TypeCorrect` | `TypeOK` |
| | `QueueInOrder` | `QueueOrdered` |
| | `RestartIsFaithful` | `RestartForgetsNothing` |
| | `FinishedForGood` | `FinishedStaysFinished` |
| | `IdsNeverRepeat` | `IdGivenOnceWhileWhole` |
| | `SharesKept` | `QueueShares` |
| `AttnHistoryProofs` | `HistoryTypes` | `TypeOK`, with both bounds of the history |
| | `PrivacyKept` | `PrivateStaysInMemory` |
| | `SkipIsSafe` | `SkippedIsCurrent` |
| | `EvictionIsFair` | `EvictsCheapest` |
| `AttentionProofs` | `AttentionTypes` | `TypeOK`, with the queue's shares |
| | `NamesAreOneTable` | `NamesAgree` |
| | `ClosesItsOwn` | `OnlyOwnClosed` |
| | `DismissedLeftTheQueue` | `DismissedIsNotWaiting` |
| `DeskPolicyProofs` | `DeskTypes` | `TypeOK` |
| | `OwnModeIsKept` | `LentAndOwn` |
| | `EnteringApplies` | `PolicyFollowsSwitch` |
| | `PanicIsUndone` | `PanicGivesBack` |
| `BusProofs` | `QuestionsAreKept` | `QuestionsHold` |
| | `BusesAreKept` | `BusesHold` |
| | `SavedNetworksStay` | `SavedStays` |
| | `PowerIsTrue` | `PowerHolds` |
| | `ClipboardForgets` | `ClipForgets` |
| | `PutBackStaysOld` | `PutBackIsNotNew` |
| | `FilesAreTrue` | `FilesHold` |
| `ServiceProofs` | `ConnectionsAreKept` | `ConnectionsHold` |
| | `CallsEndOnce` | `ChannelHolds` |
| | `AskedAreKept` | `AskedStays` |
| | `ServicesTypes` | `TypeOK` of `MCServices` |

**The journal**, for any places, slots, registers, values and senders, any bounds
and any kind and number of faults. `JournalEntries` and `Journal` name the
assumptions: places and registers are
finite sets, `None` is no slot or value, a name off the bus is not one of ours,
the bounds are naturals with the reservation within the queue.

`QueueOrdered` is not inductive: that a new item's id is above the queue's needs
the counter above every id waiting, in memory and in the file, and a queued line
whose newline was torn off has to be above the file's counter when a replay takes
it for a line. `OrderInv` says the three, and is inductive after `TypeOK`. It
holds under torn writes; a line written and not synced breaks it, and the
property says so. The other three need that file and memory are one state while
no line was only partly written, and that the file's counter bounds every id
answered and every item finished: `WholeInv`, inductive after both. The shares
are kept of the file's queue (`SharesInv`), which by `WholeInv` is the one `roomFor`
counts.
The lemmas are about what one line does to a state (`ApplyType`, `ApplySound`,
`IdsAfter`, `SpentKept`) and, in `JournalQueueProofs`, about removing the first item
with an id (`FirstExists`, `DropFirstType`, `DropFirstRemoves`) and how many places a
class of senders holds after each (`HeldAppend`, `HeldDrop`); the steps of a call are
split by `CallsRecord` into its kinds of line and by `Record` into its four outcomes.

**The history**, for any senders, bounds, ids, failures and number of sessions, its
file being no longer than the ids there are. `HistoryInv` adds to the types that
every record is numbered below the counter, that one that arrived private
says so for as long as it is in memory, and that none of those is in the file or
on its way to it. `NotesInv` is what makes a skip safe: a note of a revision is never ahead
of the history, and one that says the revision is written means the file is the
history's snapshot. Both bounds are part of the types, and `EvictionIsFair` rests on
them alone: before an arrival no ring is over its bound, so the trim touches only the
newcomer's (`OthersTrimmed`, `OldestTrimmed`), and no ring goes unless the newcomer
makes one too many (`DroppedOnlyFull`), which is then the least in an order by size and
then by age (`CheapestGoes`, `LatestOrder`); a replacement is an arrival at a history
with one record less, which is within the bounds too (`RemovedBounds`). `CostsLeast`
has the order written out, not by the operator the model uses. `AttnRecordsProofs` has what `Add`,
`Replace`, `Dismiss`, `Snapshot` and the eviction do to a history as a value;
`Rank`, `Nth` and `At` of `AttnRecords` exist so that a record's place
can be said without the fold that finds it.

**The server, the queue and the history together**, for any number of calls in
progress, connections, senders and ids, and any bounds. `AttentionInv` says of each
place a call can be at what it holds there (`CallOK`): an id its own
connection sent, or one taken for this arrival and told to nobody else, or, for a
person's call, ids that wait no longer; that the tables are one table whose names
are their sender's (`TablesOK`); and that nothing waits or is remembered past the
counter. The queue's part cites `JournalQueueProofs` for the journal with
no places. What is shown as dismissed does not wait: the invariant carries it
through both orders of the two writes, with the call between them as the exception.

**Desks, modes, loans and panic**, for any number of requests in progress, desks,
modes and screens. `DeskInv` says of each place of a call what is so of the loan
(`LentOK`), of the last switch (`LandingOK`) and of panic (`PanicOK`) while nothing is
in doubt, and that then the call is alone. The proof found one mistake in the model:
a loan's end cleared `doubt` while another request was still
between its steps, and `LentAndOwn` was false of two of them. `doubt` now clears
where a mode is set by name and nobody else is in progress (`Overrule`), and the
theorems hold for any number of requests, which TLC checks for one.

**The agent's questions and the three bus connections**, for any callers, devices,
keys, askers and number of dials, whatever the budgets let happen, in
`MCServices`' own specification; it assumes that `None` is no asker and no question,
and that dials are counted. `PairingInv`: a question has a number of its own for good, its
name is that of the slot while it holds it, a yes is one that was
said to its name, and a call that waits unlapsed has the slot. `BusesInv`: who
dials a kind holds its lock and nothing of the kind is kept meanwhile, what
is dialled is nobody else's, whatever is up is kept or somebody will close it, and
what waits to be reaped never became live. That one agent is on the bus follows: a live
radio that is not about to be closed is kept or in the hands of the one dial.

**The socket**, for any connections, processes, bounds and budgets, of the same
specification; it assumes that `None` is none of the lines and writers of a socket.
`SocketInv` says of each connection, place by place, what its handler, its ask, the
gate of its sink and the lines it has heard are together (`AskOK`): an ask is
accepted and not yet running exactly while its acceptance is the reply on the way,
only a running ask writes to the stream, and what an open connection has heard ends
in Done exactly when no ask of its is between its acceptance and its last line. Of a
surface it says (`SurfaceOK`) that its token is its handler's own, and from its
registration until its answer either waits or has been acknowledged, which is what an
acknowledgement before the wait needs.

Who is kept when there is no room rests on `SocketInv` and on `HouseInv`, which adds what
is so of the room. No connection is in the order of last requests twice and none that
never came, so the order is not longer than there is room (`RoomInv`); the claims of
asks are as many as the asks between their acceptance and their release, so each is
given back once and none leaks (`ClaimsInv`, which `ConnectionsAreKept` states). `EvictedIs`
says which connection makes room: one in the
order and none that is exempt, or the one arriving when all the others are; `AdmitPuts`
that exactly one goes, and only when there is no room. By `AskOK` whoever is open and was
told "asking" and not yet Done is
exempt, so `AskedAreKept`. It assumes that the bounds are naturals and that `None` is no
connection.

**The clipboard**, for any copies, puts, failures and limits. It assumes that the limits are
naturals and that what is kept is kept for longer than a run of wl-paste takes.
`ForgottenInTime` is not inductive: an entry's age at the next sweep is bounded by its
age at the last one, so `RingOK` says that every entry was young then, and `WatchOK` that
what the watcher reads it was told of a moment ago, so what it adds is young too. For a
put, `PutsOK` and `WrittenOK` say that an id stands for one text for good, and that from
the expectation until the watcher hears of the write that no other put crossed, either
that id is what is expected, or the window is over, or its entry is gone: so the text
that comes back is an echo. `PushRing` and `SweptRing` are about the ring as a value.

**The shell's channel**, for any number of calls, acknowledgements, questions and retired
sockets, with daemons that know ids and ones that do not. It assumes that the bound on
calls in progress is a natural and that `None` is no number. `ChannelInv` says what a line
of the socket of the moment is (`LineOK`): a reply is to a request that is written and not
answered twice, of an older daemon to one still waited for; a piece or a Done is of
the window's running question; of two lines the order is fixed (`PairOK`), a Done after
its pieces and nothing after a hang-up. What the daemon owes it owes to what is still
waited for (`PeerOK`), and a window that runs was promised an end: the answer goes on, its
Done or the connection's end is on its way, or its call is still pending and was not
accepted (`WindowOK`). Lines of retired sockets are constrained in nothing but
their socket's number. The steps of a line that is taken, ignored or ends the socket
are lemmas of their own (`TakenHolds`, `IgnoredHolds`, `ClosedIs`), as are the timeouts
(`RunsOutHolds`).

**Joining networks**, for any attempts, networks and activations. A person's
forget deletes only what was asked for (`HandAsked`), and an attempt deletes from one
place alone, on a verdict of its own activation; so no step takes a saved network that
`SavedStays` does not allow.

**Power, idle and the locks**, for any number of requests, sessions and inhibitors, and
any facts standing at first. It assumes that zde's own session is one of logind's and
of the user it runs for, that the sessions and the inhibitors are finitely many, and
that `None` is none of them. While a request goes on, what stood all along stands and
what stands has been seen; `PlaceOK` says place by place what has been read of it by
then: the sessions listed hold every one that stood all along, the one taken for ours is
of the user, a menu that goes on to the windows is true already, and a key that moved
had a locker when it was asked for, a desk it might show and the preset on the screen,
unless the person walked on. The lock is a process that looks the locker up for itself
after zded has answered "locking". So what is proved of it is: what locks is a locker
that was there, over the preset if the key moved and nobody walked; "no locker" is said
before anything moved; and nothing locks only when the locker went meanwhile or a step
failed (`LockTakesIt`). The lemmas are about the functions (`OthersArePeople`, `CostsAreTrue`,
`BecauseIsTrue`, `HoldsAreTrue`): an answer made of lists that lie between those two
histories is true, whatever came and went between the readings.

**The files zded writes**, for any requests, paths, desks, texts and budgets. It assumes
that the paths are finitely many and in the order of their numbers, that a snapshot's
name is one of them, and that what a person saved is on the disk. `FilesInv` says of
each request what it has read by then (`TaskOK`). A reading under which nothing
changed has, of the files it has passed, the first of every name (`FirstsOf`), and at
the end or at the cap that is what the directory declares (`ReadToTheEnd`,
`ReadToTheCap`): so what a request goes on to write agrees with the journal and the
directory if nothing changed until then. A reading that something may change under, a
snapshot's, still has every name of the files that stood all along and are read
(`Keeping`), as long as there were never more than the cap: so what it links is a desk
none of them declared. The file's text and its temporary's are always renderings, and
a rename happens after the sync, so a power cut leaves either. The proof found one
mistake in the model: a file that a snapshot links may be the one past the cap,
and the other snapshots under way kept their history of files no longer all read,
so `SnapshotAdds` was false of two of them near the cap. `Changed` now reduces it,
as an edit did already.

**The types of the eight services** (`ServicesTypes`), under the assumptions named
above. Most follow from the invariants; three services needed one more, since what their
steps compute is in its type only with what earlier steps kept true. It assumes besides
that the network saved at first is one of the networks, that activations are counted,
and that what stands on the disk at first is a file or a FIFO. `JoinsInv`: a
profile's id was given before and to no other, nothing has become of an activation not
begun, and an attempt that is to activate has a network, so the first profile of a
network is one. `TallyInv`: what stood all along is among what has stood, what a
request has counted is a set of facts, and whoever it ended is a session.
`ReadingsInv`: a reading goes one past the cap and ends, the files it refused and those
it has still to open are together no more than there are paths, and the desks it has
collected have distinct names.

Checked by TLC and not proved: the refinement `ImplementsJournal`, and everything about
`DeskSession`, whose steps are made of `DeskMap`'s folds.
Out of the prover's reach: liveness
(`SavedOrEnded`, `Settles`, `Answered`) and ENABLED; what a fold
over a file of any length computes (induction over data), which is why `Journal`
keeps the file as what its replay yields and `JournalFile` is compared with it by
TLC. The same is true of what `DeskMap`'s folds over a strip compute.

## What the models leave out

* In the journal: rewriting because an old line carried a body; file modes;
  refusing links and FIFOs; lines too long for the scanner.
* A queued line whose `Sync` failed is in the file and not in memory, and its id
  is taken again. The properties exclude it by `Synced` and `Whole`; nothing in the
  repository promises otherwise.
* In notifications: text, clipping, actions, signals out, `Invoke`,
  `queueJump`. The ids the history pushes out may be forgotten before the call
  that made them has remembered them, and their names then stay: the module has
  the steps, and no property bounds the table.
* In `DeskPolicy`: what a switch does to workspaces, which is `DeskSession`'s. Every
  desk exists. The journal lines of `deskOf` do not fail.
* In `DeskSession`: the mode and the loans, which are `DeskPolicy`'s. The two are not
  composed: together they are beyond a run's time. The picker and launching a
  desk's applications are lists and spawns. niri's event stream is one flag, since
  zded reads nothing in an event but that there was one.
* In `Connections`: every method that only answers is one (`Call`), and what a client
  sends is not put together. In `Clipboard`, `Pairing`, `Joins` and `Power` a text,
  a passkey, a secret and a reason are payloads or the facts they stand for. A
  name that cannot be used is `None`. zen's reload of niri and its
  broadcast keep no state.
* In `ShellChannel`: the lines of a socket the shell let go are lost with it, and
  tokens of shown surfaces are not told apart.
* Two things `DeskPolicy` shows and no property states. Coming back from panic
  sets the old mode by name, which ends a loan the way back just made. Panic
  pressed twice away from the decoy holds what the first press made. Which of
  them `docs/model.md` means is open.
* `enterDesk` ends one loan and writes the mode in two lines; a crash between
  them leaves a mode with nobody to give it back. `LentAndOwn` forgives it, and no
  other property asks of it.
* The process an ask runs, its descendants and its pipes: `TierEnds` stands for its
  end, and that it ends is assumed.

Not modelled at all: the keymap (a table and an emitter, run when the system is
built), the doctor (reads the machine once and prints) and the command line (one
request and its printing). Modelled in part, with what is missing named in
`PROJECT.json`: dispatch and its codec, the lists of bluetooth devices and of
networks, the palette, status, jump and audio, which read and answer and keep
nothing between two calls.

## What the models show and no property states

The code does these, and nothing in the repository promises otherwise:

* A join that the person left between two looks of its watch is read as refused,
  and the profile it added is deleted; so is one joined again meanwhile
  (`SavedStays` lets an attempt take back what it added once its own
  activation is over).
* `releaseAsk` counts down before the sink stops asking, so for a moment more
  connections are exempt from eviction than asks are allowed.
* A put whose write failed takes its expectation back by what is expected now,
  which may be another put's.
* A bus too slow to answer is cached as absent, and the network and the idle
  answers say so for as long as an absence is remembered.
* When logind does not list its inhibitors the idle answer is known, with none.
  A refusal may name an inhibitor that came after the one that refused.
* A snapshot of a private desk whose manifest does not parse at that moment is
  written as not private, if the broken file goes by another name.
* Two overlapping SyncRules may leave the older file until the next reconcile;
  two zen toggles at once may lose one.
* A locker that goes between being looked for and being started leaves the desk
  switched and the screen unlocked, and the answer says "locking": zded spawns the
  lock and learns only that it began.
* A call to niri that fails or is late ends the watcher's round with its renames and
  adoptions undone, and nothing but the next event wakes it: `drain` logs the error and
  waits on, and the stream it waits on is another connection. `Watch`'s comment
  (`watch.go`) has it keep naming true, and the loop wait such a failure out; without
  another event it does not. A failure to learn what is focused is
  taken for a workspace without a name, and the round goes on.
* A request for the radio after the session gave it up dials again and keeps the
  connection, which nobody then closes.
* A put that is going to fail expects its text for as long as the write takes: a copy
  of the same text a person makes meanwhile is taken for the echo and not listed anew.
* On a daemon from before ids, a token that waits takes the one slot before the
  callback's own next call, which is refused as busy.
* Two requests that switch desks at once interleave their lines and their focuses.

## Plan

1. *Done:* `JournalEntries`, `Journal`, `JournalFile`, `JournalProofs`;
   `AttnRecords`, `AttnHistory`, `Attention`; `DeskPolicy`.
2. *Done:* `DeskMap`, `DeskSession`; `Connections`; `Clipboard`, `Pairing`, `Buses`,
   `Joins`, `Power`, `Manifests` with `Chrome`; `ShellChannel`.
3. *Done:* the proofs of the table above.
4. Next: the refinement `ImplementsJournal`, step by step, for which `JournalFile` would
   have to say what a replay yields without a fold over the file.
