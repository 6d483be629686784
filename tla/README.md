# Reviewer in TLA+

Reviewer is an app for reading the reviews an agent drafts. The agent (a
scheduled *sweep*) writes `drafts/<owner>--<repo>-<n>/review.json` into storage
the customer owns; the app shows those drafts, records what the reader decides
about them, and sends the review to GitHub. The reader's decisions are an
append-only log of events, one log per source, kept in the browser's own database
and synced through the same storage, one file per device. There is no server in
the middle: everything that must hold between two devices, or between the app and
the sweep, must hold through files that each of them reads late.

This directory holds TLA+ modules translated from that code, TLC configurations
that check them on small instances, and TLAPS proofs for every instance of the
modules at the core and of sixteen parts around them. `PROJECT.json` lists the parts of the system, the runs,
which lines each definition stands for, the hazards and the results.

## The system's parts

| part | state | operations | speaks to |
| --- | --- | --- | --- |
| Event log (`state/event-store.js`, `event-store-event.js`) | projected collections, the events, their keys, outstanding writes, the last local time | `track`, `absorb`, `restore`, `allEvents`, `settled` | its database, the runners |
| Runners (`state/runners.js`) | none: functions of a collection and an event | create, delete, moment, change | the event log |
| One log per source (`state/multi-event-store.js`) | the open logs, the root log, preferences, secrets | `open`, `close`, `restore`, `preference`, `setPreference` | databases |
| Key-value stores (`state/key-value-store.js`) | one object store per name | `getItem`, `setItem`, `iterate`, `teardown` | IndexedDB, the keychain |
| Sync (`state/sync.js`) | the mark `synced:<source>`, running watches | `push`, `pull`, `watch`, `unsynced` | the event log, the adapter |
| Drafts (`state/drafts.js`) | what was read per pull request, the held snapshot | `load`, `loadAll`, `watch`, `clear`, `restore` | the adapter, its database |
| Adapters (`adapters/*.js`) | watches with the marks of their last listing, the trouble flag | `list`, `read`, `write`, `remove`, `watch`, `poll` | files, S3, GitHub, git, iCloud |
| Git adapters (`git.js`, `git-native.js`, `git-isomorphic.js`, `src-tauri/src/git.rs`) | a clone | commit, push, pull and push again | a remote others push to |
| Commands (`commands/index.js`) | the debounced pushes | everything a reader can do | the logs, Sync |
| Queries (`queries/index.js`) | none | what is shown and what would be sent | the logs, Drafts |
| App (`app/app.js`) | the open source, adapter, drafts, selection, timers | boot, switch source, select, refresh | all of the above |
| Settings form and health sweep (`app/header.js`, `state/health.js`) | what each source was found to be | add, correct, forget a source; look at every one | App, Commands, adapters |
| Boxes and cards (`app/summary.js`, `description-pane.js`, `findings.js`) | the words being typed, one of each for the whole app | open, leave, save, cancel | Commands |
| Rewrites (`domain/text-diff.js`) | none: functions of two texts | compare, put together what was kept | the body's pane, Sending |
| Sending (`app/confirm.js`, `destinations/*.js`) | a send in progress | post, triage, dismiss, clear | GitHub, Commands |
| Agent chat (`app/agent-chat.js`, `src-tauri/src/agent.rs`) | a running turn | send, cancel | a child process |
| Collector (`skills/collector/*.js`) | draft directories, `sweep.jsonl` | queue, select, claim, post, prune | storage, GitHub |
| Destinations (`destinations/*.js`, in `app.js` and `commands`) | the one that is open, who it signed in as, a token each | open, add, correct, remove, sign out | the keychain, GitHub |
| Settings panel (`app/header.js`) | two forms, the row that is marked | click, type, save, cancel, remove | App, the keychain |
| The screen (`app/view.js`, `rail.js`, `board.js`, `summary.js`, `diff-pane.js`) | the tab, the filter, the reading mode | show, filter, open, dismiss, restore | Queries, App |
| Recordings (`app/qa.js`) | object URLs by recording | draw, give back | the adapter |
| Service worker (`sw.js`, `app/offline.js`) | a cache per release | install, activate, fetch | the static server |
| Static server (`serve/*.go`) | a snapshot of a release, or a directory under edit | serve, refuse, reload | the worker, the browser |
| Desktop shell (`src-tauri/src/*.rs`) | files, a clone, the keychain | storage and git commands | the operating system |
| Installer, markup | none that a decision depends on | | |

### What is hard in it

* Almost nothing waits. A decision is applied to memory and its database write is
  dropped on the floor; the push goes out a second later from a timer; a watch
  fires every two seconds whether or not the last round is done. Between any two
  `await`s of one device another of its own activities may run, and another
  device may write its file.
* Nothing is flushed when the page goes away. What a restart finds is whatever
  the database had taken.
* Order is only in the time stamps, which come from clocks that disagree and may be
  set back; what was stamped last is forgotten at a reload. The screen is built in the
  order things arrived, a reload builds it in the order of the stamps.
* Counts and listings are remembered on one side of an `await` and used on the
  other: the mark, the marks of a listing, what was fresh in a batch.
* A send is several calls to GitHub followed by a decision that records it, and
  the sweep does the same from another machine.

### What makes each part correct

* **Sync**: a decision reaches the device's file and then every open device;
  the file only grows; a device shows only what was decided, and others'
  decisions only once they are published; the footer never says less is waiting
  than is.
* **Event log and runners**: a reload shows what was on the screen; what the
  reader decides takes effect; a removed comment stays removed; no two decisions
  taken on one page share a stamp.
* **Drafts**: what is shown becomes what is stored; an unreadable draft is not a
  deleted one; the snapshot is what the last good read held.
* **Adapters**: every change of the storage is news to a watch once; an outage is
  told once.
* **Git**: a write that was answered is in the remote's history; nobody else's
  commit is lost.
* **App**: source, adapter, drafts and selection belong together whenever one of
  them is used; the pane is all of one item.
* **Settings**: a source's storage and credential were shown to work together; a
  row says how its source is now.
* **Boxes and cards**: what was typed over an item is kept for that item.
* **Destinations**: a review is posted as the account that is shown, through the
  destination that is marked; a token goes with its destination.
* **Settings panel**: what is typed stays until it is saved or given up.
* **The screen**: the pane is never blank, and a filter that is on can be taken off.
* **Recordings**: every object URL is given back, and none that is shown was.
* **Service worker and server**: what is shown is what is deployed, and what was kept
  whole starts without a network.
* **Rewrites**: what is sent is what the pane shows.
* **Agent chat**: a message reaches the agent whose draft is shown, in one fork,
  and its end is told once.
* **Sending**: what is recorded as posted was posted; nothing is posted twice
  without the reader asking; a dismissal answers the draft it saw.
* **Collector**: one draft per pull request and head; a decision of the reader's
  is not overtaken by the sweep.

## The modules

### DecisionLog: what is promised

Four variables (`decided`, `published`, `held`, `kept`) and four steps: decide,
publish some of what a device holds, advance (take in published decisions, keep
held ones), restart (be left with what was kept). Nothing in it names a file, a
timer or a mark.

### DeviceSync: how the code keeps it

One source open on several devices. A decision is `<<device, n>>`; its payload
plays no part. The state of a device and the code it stands for:

| variable | code |
| --- | --- |
| `log` | `EventStore._events` and `_keys` |
| `disk` | the device's database for this source |
| `writing` | `EventStore._writing`, the writes `track` did not wait for |
| `timer` | `Commands._pending`, the debounced push |
| `pushes` | pushes whose `adapter.write` or mark is outstanding, with the bytes they carry |
| `mark` | the preference `synced:<source>` |
| `file` | `.reviewer/events/<device>.jsonl` |
| `news` | the difference between the storage and a watch's `marks` |
| `pullLeft`, `absorb` | where the pull at opening and each `_absorb` stand |
| `published`, `overlapped`, `lossy` | history, read by properties only |

`Track` is `Commands.track` with all it calls. A push is `FirePush` (the bytes
are fixed), `LandPush` (the file is replaced) and `RecordPush` (the mark), or
`FailPush` at either point, before or after the bytes landed. An absorb is one
step per `await`: the read (`WatchRound`, `PullFile`), what is fresh and its
first decision (`TakeIn`), one database write each (`StoreTaken`,
`StoreLastTaken`), reading the mark (`CountTaken`) and writing it (`MarkTaken`).
It runs in a slot, one per source of the news and peer, because the pull at
opening and the watch run at the same time and may read the same file. `Crash`
drops memory; `Open` restores it, starts a watch whose first look is all news,
and lists what to pull.

`Faults` chooses which operations may fail: `local` (the database), `write` (the
file), `mark` (the preference), `read` (another device's file), `list` (the
listing at opening). `Leavers` are the devices whose page may go away. A listing
that fails during a watch keeps its marks (`adapter.js:141`), so it is only a
delay and needs no action.

### EventReplay: what the log shows

The same log from the reader's side: stamps from per-device clocks, keys, the
runners of findings, the queries. `items` is the collection built in the order
of arrival; `Restored` is what a reload builds from the database, in key order
and then sorted by time with a stable sort. The clock is no variable: whatever moment
`Date.now()` answers, a decision is stamped with it or one past the last of this page
(`last`), and `Reload` starts `last` again from nothing, so a clock may be slow, fast
or set back at any time, across a reload too. How the logs travel is left to
DeviceSync: here a file is what its device last pushed, a reload finds every
write done and one absorb runs at a time. `late` is history: it turns true when a
device applies an event whose key does not follow all it holds (`Behind`), be it its
own decision, by a clock that lags or was set back, or one of a batch; a reload, which
puts the log in order, makes it false again.

### Drafts: what one page shows of the agent's files

The agent writes and removes files; the page asks for listings and files, and the
answers are handled in any order. The state and the code it stands for:

| variable | code |
| --- | --- |
| `stored` | `drafts/<key>/review.json` in the source |
| `shown` | `Drafts._byKey`: the last draft that parsed, and what is wrong |
| `held`, `dirty` | `Drafts._held` and `_dirty`: the text of the last good read, and whether it is owed to the database |
| `saving`, `disk` | the `setItem` calls outstanding, and the snapshot the database has |
| `seen`, `touched` | the difference between the source and the watch's `marks` |
| `up`, `watching` | a source is open; its opening got as far as the watch and the timer |
| `task` | calls under way: a watch round's `_absorb`, a `loadAll` (`open` or `refresh`), a `load`, a `clear` |
| `muddled`, `unsaved` | history, read by properties only |

A call is three kinds of step. *Ask* (`WatchRound`, `StartRefresh`, `StartLoad`,
`StartClear`, and `Open`, which restores the snapshot and starts the first
listing); *answer* or *refuse* (`AnswerListing`, `AnswerRead`, `AnswerClear`,
`Fail...`), where the source is read or changed; *handle*
(`HandleListing`, `HandleRoot`, `HandleText`, `HandleGone`, `HandleFailure`),
which does what the code does after its `await`, up to `_persist` with the last
answer of a call. `Save` and `FailSave` are the database. An opening whose
listing fails stops at the wall when there is nothing to show, and goes on to
watch when there is (`FailListing`). `Close` drops memory: the page went away, or
the source was switched.

A draft is one text that parses or one that does not; keys of other paths, the
signatures (which rounds are redrawn) and the misplaced-drafts notice are left out.

### The parts

Eighteen modules model parts that share no state with each other or with the four
modules above. Each states what it promises about itself; `MCParts` instantiates
all of them, and its initial state picks one, so one run checks every part and the
slots `v1` to `v21` hold the variables of the part that was picked.

Several modules carry *history* variables that say which unsettling thing has
happened. A property that excuses one of them says what holds without it, and the
finding or hazard beside it in `PROJECT.json` says what the code does with it.

**Posting**: one drafted pull request or issue, from the reader's press to GitHub.
`draft` is what the app holds; `log` the decisions about it in memory, each with
what became of its database write (owed, kept, lost); `sheet` the confirmation
sheet of `confirm.js`; `sends` the sends under way with the step each is at; `read`
the version of the ticket's body the pane was drawn from; `hub` what GitHub holds.
`PressPost` and `PressAlone` are the two buttons; a review is one call (`Land`,
`LandUnheard`, `Refuse`, `Fail`), a triage the chain of `postTriage`: look at the
ticket again (`CheckTicket`), labels, patch, comment, close, each a call that may
fail; then `Record` and `Finish`. Beside them: `Dismiss`, `Restore`, `ClearDraft`,
`ToggleClose`, `Reopen` of the queries and commands; `Redraft` by the agent,
`PeerPosts` from another device, `MoveTicket` by other people, `Keep`, `LoseWrite`
and `Crash` of the page. History: `shown`, `answered`, `excused`.

**Sweep**: agents over one pull request, on any machine. `rules` is the reader's
file, `github` the pull request, `folder` the draft's directory with its claim,
`log` the shared log and `device` what the app has not pushed, `agent` what each
agent does and what it read before. `Select`, `Claim`, `Finish` are
`select-new.js`, `draft-state.js`; `ReadDraft`, `Check`, `Post`, `Record`,
`RecordFails` are `post.js`; `LookToPrune`, `LookSettled`, `Remove` are
`prune-drafts.js`. An agent may die anywhere (`Die`), claims grow old (`Age`), the
pull request moves, closes and changes its label (`Moves`), the reader dismisses,
restores, sends the review from the app (`ReaderPosts`) and pushes. History: `posted`
counts the reviews of both; `repeats`, reasons for one more.

**GitClone**: one clone over one remote. `head`, `origin`, `index`, `work` are the
clone's branch, the fetched one, the staging area and the files; `torn` says that a
merge moved the branch and no checkout followed; `task` the adapter calls under way.
On the desktop (`git-native.js`, `git.rs`) committing and pulling are one command
each (`CommitAlone`, `PullAlone`); in a page (`git-isomorphic.js`) they are awaited
steps over one index: `Place`, `Add`, `CommitIndex`, `Fetch`, `Merge`, `Checkout`.
`Push` refused by an older history is answered by one pull and one more push
(`git.js` `_send`). `Unreached`, `Close` and `Elsewhere` are the network, the page
and everyone else. History: `ended`, `beaten`, `crossed`, `cut`.

**SourceSwitch**: which storage the app reads. The variables are the app's own
fields (`source`, `adapter`, `drafts`, `problem`, the watches, the timer), the logs,
and this device's file in each storage. An opening is `_openSource`, one action per
`await`: `Start`, `Build`, `Ready`, `ListFirst`, `Watch`, `Pull`, `Queue`. `Switch`,
`Attach`, `Edit`, `Remove` begin one; `Refresh`, `Select`, `Decide`, `Post` and the
debounced push (`Fire`) run over whatever is open by then. History: `overlapped` (an
opening met another, or a refresh's failure was told of the next source), `hurried`.

**AdapterWatch**: `adapter.js`. `watch` holds each watch's marks and failures,
`timer` the one interval, `round` the rounds under way. `Begin`, `Stop`; `Beat`
starts a round whether or not the last one ended, `Answer` is one listing, `Handle`
compares it, tells the watcher and (`_tell`) the reader. History: `slid`, `toldOf`.

**TextDiff**: `text-diff.js` in full, as functions: the edit script (a longest
common subsequence), its hunks and their ids, and what is put together from the
hunks that were kept. Each is a recursive function, over places in the two bodies
or over the steps of a loop, so that it can be reasoned about. `Reject` and `Keep` are the pane's buttons; `Shift` puts the
same line above both bodies, as an edit of the ticket that the agent saw does; `Drift`
puts one above the live body alone, under the decisions that were taken. A decision
then stays with its hunk one place further down, if the line is a hunk of its own and
changes what no other does (`Apart`); else it goes where the ids take it, which the
finding at `text-diff.js:107` is about. History: `refused`, `shifted`.

**AgentChat**: `agent-chat.js` and `agent.rs`. `chat` is the page's, `run` the
process and what the shell holds of it, `events` the lines and the exit on their
way, `fork` what the log remembers. `Send`, `Cancel`, `Refused`, `Line`, `Exit` are
the page; `Spawn`, `SaySession`, `Result`, `Fails`, `Report` the run; `Redraft` the
agent, `Quit` the window. History: `forks`, `lost`, `replies`, `crossed`.

**Selecting**: `app.js` `select` and `_loadDrift`. `pane` says whose each field is,
`calls` the openings under way: `Loaded` (the draft was read), `Answered` (the
files, the head, the ticket, all at once, any of them refused), `Drifted`. `Post`
sends with the head the pane has. History: `posted`; `crossed`, the items whose
openings met since one last ran alone, which an opening with nothing under way
empties.

**Writing**: the boxes of `summary.js` and `description-pane.js`, the sheet's own,
and the card of `findings.js`. There is one of each for the app, whatever is
selected. `OpenBox`, `TypeIn`, `PressAway`, `Leave` are the box that keeps what it
holds when it is left; `EditCard`, `TypeCard`, `SaveCard`, `CancelCard` the card
that keeps it when told; `Look`, `PutAway`, `Lens`, `Loaded`, `Redraft`,
`PostedElsewhere` are what redraws around them. History: `typed`, `cut`, `crossed`,
`carried`, `under`.

**Settings**: the panel of `header.js` over `commands`, `app.js` and `health.js`.
`place` and `secret` are each source's configuration and credential, `reader` what
the open reader was built from, `health` the rows, `call` what is under way. An
addition (`Add`, `Merge`, `Store`), a correction (`Edit`, `Read`, `Refuse`,
`Configure`, `Merge`, `Store`), a removal (`Remove`, `Delete`, `Forget`), a switch
(`Switch`, `Open`, `Build`) and a sweep (`Look`, `Land`) are chains of awaits that
may overlap. History: `unproven`, `failed`, `outrun`, `mixed`.

**Review**: what a send carries. `draft` is, by item, the last draft file that
parsed (`domain/draft.js`: ids must be distinct, labels may not be added and taken
off at once, a duplicate names what it duplicates, an unknown verdict is none);
`pulls`, `findings` and `own` are what the decisions in the log come to in
`runners.js`, keyed as the runners key them. The actions are the commands: a finding
is included, rewritten, put back, sent alone (`Toggle`, `EditFinding`,
`ResetFinding`, `EditSuggestion`, `ResetSuggestion`, `AddFinding`, `RemoveFinding`,
`PostFinding`), the summary, the verdict, the labels and the close are chosen, and
`PostReview` and `PostTriage` put the request together as `review.js`, `issue.js`
and the queries do. `Redraft` is the agent. `sent` is the request of this step.
History: `agreed` (what the reader said yes to, in which words), `chosen`,
`reverted`.

**Backends**: the storages other than the clone, each as the requests it makes.
`kind` picks one: a bucket (`s3.js`: a listing in pages), GitHub's contents
(`github.js`: a tree, a blob for a large file, a sha asked for before a write), the
browser's folder (`filesystem.js`: a file is made, then filled), the shell's folder
(`tauri.js`, `storage.rs`: a rename over what was there), the demo (`demo.js`: an
overlay over a seed) and memory. `store` is what is there, `call` the calls with the
request they are at and all they may have seen, `told` the answer of this step.
Two calls run at once, `AgentWrites` and `AgentRemoves` are what is written without
the app, and `LandsUnheard` is a request that got through and whose answer did not.

**Clones**: the folder a git source is read through, `git.js` over both of its
transports (`git-isomorphic.js` in a page, `git-native.js` and `git.rs` on the
desktop). `disk` says how far the folder has got, `reader` the adapters that use it
(one is built for each look, trial or opening), `source` the sources that name it.
In a page a clone is a chain of awaited steps (`Look`, `CloneStep`, `CloneFails`),
on the desktop a command (`GitRoot`, `GitOpen`); `Pull`, `List`, `Read` and `Write`
are what it is opened for, `Save`, `Correct`, `Forget`, `ForgetFails` and `Detach`
what becomes of the source, `Close` is the page's end. What a clone holds once it
is whole is GitClone's. History: `cut`, `taken`, `left`.

**Accounts**: the destinations of `app.js` and `commands`, which a review is posted
through. `listed`, `token` and `preference` are what is kept, `destinationId`,
`destination`, `login` and `problem` the four fields every opening writes. An opening
(`Boot`, `Prefer`, `Build`, `Identify`, `Refused`) waits for the stored token and for
the host's answer; `Switch`, `Add` and `Store`, `Edit`, `Try` and `Merge`, `Rename`,
`Remove`, `SignOut` and `Forget` end in an opening of their own or in none, and all
may overlap; `Fail` is a refused write, `Restart` the page closed and opened. Nothing
in the code stops a second press while the first is under way, nor does the model.
History: `overlapped`, `failed`, `mixed`, `orphaned`.

**Panel**: the settings panel of `header.js` as its reader meets it: `setup` is the
form of each kind (one text each), `settingsSelection` the row that is marked, `call`
the keychain's reads, saves and removals it waits for. `ClickRow` and `EditSource`
put a row's form up when it has been read (`Focused`), `TypeIn`, `CancelEdit`,
`CancelAdd`, `Done`, `Save`, `SavedEdit`, `SavedAdd`, `NotSaved`, `Remove`, `Removed`
are the form's buttons and their ends. What a save does to the source or the
destination is Settings' and Accounts'. History: `owed`, `chosen`, `crossed`, `swept`.

**OfflineShell**: `sw.js`, `offline.js` and the server (`serve.go`, `reload.go`,
`main.go`). `site` is the release that answers, `held` the browser's own five
minutes, `worker` who is in charge and who is taking over, `caches` what they kept,
`puts` copies on their way into it, `page` the tabs. `GetDocument` and `GetModule`
are the worker's answers (`Comes`, `Keeps`, `Kept`), `Land` a copy that arrives,
`Install`, `Activate`, `Register`, `Unregister`, `EmptyShells` the worker's life,
`Deploy`, `Edit`, `ServeOther`, `Lose`, `Regain` what happens to the server,
`Listen` and `Tick` the development server's reload. One module stands for all, and
the interface is alone on its origin: a second app under a path of it, the cache of
faces, headers, compression, redirects and the health check are left out. History:
`last`, `overtaken`, `stored`, `aside`.

**Recordings**: `qa.js`. The page is drawn whole each time, and the evidence is drawn
twice, at the end of the summary and in a tab of its own. `held` is, by recording,
the entry that owns its object URL, `page` the two elements, `reads` the reads under
way with the element each was begun over, `alive` the URLs that hold their bytes.
`Redraw`, `Open` and `ToggleFilter` are redraws (`releaseMedia`, then `recording`);
`Media`, `Streamed` (the shell's file protocol) and `Fails` are how a read ends.
That a summary in a blank state draws no recording is in `filtered` too. History:
`cut`, `taken`.

**Reading**: the screen. `app` is what `app.js` holds of what is looked at, `drafts`
the projection, `marks` the log's decisions, `flagged` the reading mode. What is on
the screen are operators of these: the queue and the history of `queries/index.js`,
the rail's rows (`Sections`, `Kinds`, `Files`, the way out of a filter, `Hint`), the
board's columns, and the pane (`blankState`, `Summary`, `Diff`, `Description`, `Qa`).
The actions are what the reader presses (`PressRow`, `Choose`, `Show`, `OpenInDiff`,
`ToggleFlagged`, `Dismiss`, `Post`, `Restore`, `ClearDraft`), what arrives
(`AgentWrites`, `Goes`, `RefreshFails`) and a switch; each ends in `Redraw`, which may
open the first finished review. A redraw is taken with the step it answers, and an
item's files with its opening: late answers are Selecting's. The board in the pane's
place, its folds, popovers, files marked as viewed and the week a history goes back
are left out. History: `closed`, `moved`.

## The runs

| run | question | answer |
| --- | --- | --- |
| `device_sync` | With database writes, pushes and reads that fail on two open devices: do the types hold, is the count of waiting decisions ever too low, does a file ever shrink? | They hold, as long as pushes and absorbs of one device do not overlap. |
| `device_sync_restart` | With two decisions on one device, two pushes under way, both devices closing and opening at any point and marks and listings that fail: is what is stored shown, is DecisionLog implemented, do decisions reach the storage and the peers? | Yes; each reaches the file once, and an older push that lands last may take it out again. |
| `device_sync_mark` | Is the count "exact however they interleave" (`sync.js:81`)? | No: a push that overlaps an absorb counts a peer's decisions twice. |
| `device_sync_retry` | Does "the next round ... reads the same listing" (`sync.js:144`) make up for a failed read? | No: the marks were replaced before the read. |
| `event_replay` | With clocks that agree, lag, lead or are set back: does a reload show the same, do decisions take effect, do removed comments stay removed? | Yes, a reload unless an event came out of its turn since the last (`late`), a decision unless an event from elsewhere or from before the last reload has its very moment; removed comments stay removed when the stamps follow the creation. |
| `event_replay_order` | Do the same events always show the same (`sync.js:8`)? | Only after a reload. |
| `event_replay_removed` | Does a tombstone always stop a later create (`event-store.js:233`)? | No: CREATE does not look for one. |
| `drafts` | With two drafts, two calls under way and something that fails: do what is shown, held and saved agree, and is a page at rest current? | Yes. It is current unless, since the last refresh that began alone, calls overlapped, something failed, or a file came and went between two rounds. |
| `drafts_live` | Does a page that stays open come to show what the source holds, and keep that for the next opening? | Yes, once the agent stops, the failures stop, and unless the database lost a snapshot. |
| `drafts_outage` | Does an unreachable source cost "never reading" (`reading-through-an-outage.test.js:3`)? | No: opening a pull request during the outage takes its held draft away. |
| `parts` | Part by part: is nothing sent twice, overwritten unread, mixed between sources, missed or lost? | Nothing, but for the reasons each property names; see below. |
| `parts_live` | Does a press end, a dead agent's claim come to an end, a quiet storage get told? | Yes. |

What `parts` checks of each part, and when it does not hold:

| part | property | it says | unless |
| --- | --- | --- | --- |
| Posting | `SendsHold` | a review goes out once, and so do what is sent alone and a triage's comment | each further one is explained: a new draft asked for, a press while the first was on its way, a lost answer, a close that failed after the comment had gone, a lost record, another device (`excused`) |
| | | no close without its comment; a recorded triage is all on the ticket | |
| | `UnseenReachesReader` | a draft the reader never decided about is on the queue | |
| | `NothingUnseenLost` | no rewrite replaces a body that had moved when it was looked at again | |
| Reading | `UnseenReachesReader` | the pane is never blank (`NeverBlank`) | the item was closed from another pane than the summary (`closed`), a redraft took what the pane shows (`moved`), a lens ran clean, a finding's file is not among the files |
| | | a filter that is on is on a row of the rail, where it is taken off (`FilterIsListed`) | the finding's file is not among the files |
| Sweep | `PostsOnce` | one review is posted, by the sweep or by the reader | one was posted while an agent was between its check and its record, an agent checked before the reader's post had reached the log, a record was lost, or the reader asked for the draft again and sent it (`repeats`) |
| | `NothingUnseenLost` | pruning for a decision takes only the draft that was answered, or one written since the look | |
| GitClone | `SendsLand` | a write answered well is on the host; beaten once, it gets through | in a page: a commit across a pull (`crossed`), a page closed within a commit (`cut`) |
| | `NothingUnseenLost` | a push removes only the very draft that was cleared | in a page: a commit across a pull (`crossed`) |
| SourceSwitch | `SourcesApart` | at rest, source, adapter, drafts, watches and trouble are of one source | two openings ran at once, or the old source's refresh told of its failure (`overlapped`) |
| | | a log and a file hold their own source's decisions | a switch began over a call or a push under way (`hurried`) |
| AdapterWatch | `NewsIsTold` | what the marks say was seen, the watcher was told | a change overtook a listing, or the first found nothing (`slid`) |
| TextDiff | `SentAsShown` | the text sent has the changes the pane shows as kept and no others, also after a line was put above both bodies, or above the live one alone | the line that drifted in joins a hunk or changes what another does: the decision then goes by the id |
| AgentChat | `AgentHeardOnce` | one fork per draft's session, and only its own; each message's end told once | the app closed over the name of a fork (`lost`) |
| Selecting | `PaneIsOfSelected` | files, head, ticket and drift are the selected item's, none missing unsaid, and a review names its commit | openings met: then they may be of one of those that met, until one runs alone (`crossed`) |
| Recordings | | an object URL that holds bytes is owned by an entry (`GivenBack`); none on the page was given back (`NoneShownGone`); an empty one is still being read (`NoneStaysEmpty`) | the entry went before its recording came, or with another read that failed (`cut`, `taken`); it was drawn over a read of another drawing (`late`) |
| Writing | `WordsStay` | what was typed over an item is kept for it, in hand, or was given up in sight of the reader | an opening that answered late, a card carried along, a redraft under an open box (`crossed`, `carried`, `under`) |
| Settings | `SettingsTrue` | storage and credential of a source were shown to work together; a forgotten one leaves neither | nobody tried it, or a call failed halfway (`unproven`, `failed`) |
| | | a row says how its source is | a younger sweep ended first (`outrun`); the source was open as a sweep began and another was opened, or being opened, by its look; or two openings met (`mixed`) |
| Review | `SendsAsAgreed` | a review carries each comment the reader said yes to, in the words they had then or the agent's newer ones, once, and no other; the verdict they chose; the prefix on the agent's words only | an own comment was put back to what no agent wrote (`reverted`) |
| Backends | `AnswersHold` | a listing names every path that was there all along and none that never was; a read gives, a write leaves, what was there at some moment of the call; GitHub replaces only what was looked at | a folder's reader may meet the file between its making and its filling |
| Clones | `ClonesHold` | what is answered through a clone is the whole repository's, and a write that is answered is on the host | the page closed on a clone being made, or another reader met it (`cut`); it was forgotten under one (`taken`) |
| | | a clone goes with its source | it was being read, could not be forgotten, or was only tried or corrected away (`taken`, `left`) |
| Accounts | `AccountsHold` | a review goes through the destination that is marked, as the account that is shown | two openings overlapped (`overlapped`) |
| | | at rest one is open if there is one, with the token kept for it; a token goes with its destination | `overlapped`; a write failed, a removal met another call or a refused destination (`failed`, `mixed`, `orphaned`) |
| Panel | `WordsStay` | what is typed into a form stays until it is saved or given up; the panel shows what was chosen last | an answer came after the reader had gone on, or the form behind was blanked with the one in front (`crossed`, `swept`) |
| OfflineShell | `ShellHolds` | a page that came over the network is what the server has had since it was asked for; one kept whole starts without one | another page of the origin was opened under the worker (`aside`) |
| | | the copy kept is the last that came; an edit is shown or about to be | two copies were on their way (`overtaken`); it was edited before the page listened (`edited`) |

Deadlock is not checked (`CHECK_DEADLOCK FALSE`) in any of them: a reader may
stop deciding, and then everything comes to rest.

### Bounds, and why they are enough

* Two devices. Every interaction in Sync is between a device and one peer's file;
  a third device would be one more peer.
* `device_sync`: two decisions on the laptop, one on the phone. Two decisions on
  one device are what it takes for two pushes to be in flight with different
  bytes, and for a decision to be made while a push or an absorb is under way.
* `device_sync_restart`: two decisions on the laptop and none on the phone, and any
  number of restarts of both. So a decision puts off the push that waits, or is made
  while a push is in flight, and two pushes of the laptop are in flight (`MaxPushes`)
  and land in either order; the phone takes in both decisions, and a watch, a pull and
  a restart meet halfway. Decisions of both devices at once are `device_sync`'s.
* A watch round finds the previous absorb of the same file done. The code does
  not enforce it, and it takes a round longer than two seconds to break it; the
  pull and the watch of one file do overlap in the model.
* `event_replay`: three moments let two clocks agree, lag, lead or go back; three decisions
  over an agent's finding and a comment of the reader's own.
* `drafts`: two drafts, so that a listing can name one and not the other and a
  refresh waits for two reads; two tasks, because every race in `drafts.js` is
  between two calls; two changes by the agent (written and removed, written
  twice, or one each); one failure of any kind; two snapshots on their way to
  the database. `drafts_live` has one draft, and the same tasks and failures:
  drafts meet only in a listing and in the snapshot, which `drafts` covers.
* `parts`, in the order of `Parts.cfg`:
  * two of whoever acts at once (`Actor`), which is what a race takes: agents of a
    sweep, calls of an adapter, openings of a source, rounds of a watch, calls of
    the settings;
  * two storages (`Storage`), which is what a mix takes;
  * two drafts of a pull request, one of an issue (`PullDrafts`), four decisions
    (`Events`) and two presses: a post, its redraft, a dismissal and the post after
    it; every repeat is of a pair of presses;
  * six moments (`Stamps`) in a sweep. With five, no agent gets from a claim to a
    second post after a restored draft, and `PostsOnce` would hold of a sweep that
    never looks whether it posted;
  * four commits (`Commits`): the draft, one of this device's, one that beats its
    push, and the merge of the two that is pushed again;
  * two switches (`Asks`), so that one may be overtaken, and three openings in the
    pane (`Opens`), so that a third finds what the two left; two decisions that
    travel;
  * one change of a storage that holds something under one of its prefixes
    (`Changes`), so that a first mark and a removal are both met; two failures in a
    row before it is told (`QuietAfter`, fifteen in the code);
  * bodies of eight lines together over two different lines, one of them empty,
    with one line of context (three in the code): enough for two hunks that touch
    and two that do not;
  * three messages (`Sends`): one that forks, one that resumes, one after the
    other agent's redraft;
  * two writings, two corrections (`Writings`, `Corrections`), and one fault of
    each part;
  * three decisions about a review (`Choices`): a yes, a rewrite or a redraft, and
    the send; two pull requests whose findings carry the same id, one of them the
    reader's own, and an issue;
  * two calls of a storage (`Requests`) over two paths, one of them too large for
    GitHub to inline, with pages of one key and trees of one file, so that two
    paths are already a second page and a cut tree;
  * one source, two readers and two calls of a clone's folder (`Requests`), so that
    one meets it while the other makes it. A second source of the same repository
    and branch does what a second reader of the one does, at ten times the states.
  * three openings, additions or removals of a destination and three waits of the
    panel (`Opens`), with one word typed: one call that begins, one that overtakes
    it, and one that finds what the two left;
  * one change of what the server has (`Changes`), two loads (`Requests`) in two
    tabs and one outage: a copy from before and one from after the change are both
    on their way, and a load without a network follows;
  * two recordings and three reads (`Opens`): one that is let go or fails, one that
    takes its place, and one of the other;
  * for the screen one pull request with two drafts and one switch of source
    (`Outages`): a draft with everything a pane shows, one with nothing of it, one
    unfinished, and two files, one with a finding. More pull requests are more rows
    of the same kind.
* `parts_live` keeps the three parts with a promise that something happens, with
  one draft, two presses, four moments and storage that changes only by falling
  silent.
* `MaxSaves` makes the last step of a call wait for the database. The code does
  not wait; with two outstanding snapshots of two tasks nothing is lost by it.
* Keys are unique in DeviceSync. EventReplay makes keys of times, findings and
  actions, as the code does, so two devices can make the same key there.

### Fairness

`DeviceSync.FairSpec` says: a timer that was set fires, a request that was sent
is answered, a mark is written, a started absorb goes on, and the two-second
poll comes round. The browser's timers and promises justify each. Weak fairness
is enough, since nothing in a device disables its own pending callback. No
decision, failure, crash or reopening is ever owed. `ReachesStorage` is asked
without write failures: a push that failed is tried again by the next decision
only, so nothing is promised if there is none. For the same reason it asks
for a device that stays open: after a restart nothing pushes until the next decision.
It starts from a decision whose database write is still owed, as every one's is when
it is made.

`Drafts.FairSpec` says: a request is answered, an answer is handled, the database
keeps what it is given, and the two timers of a page that came through its
opening (the watch every two seconds, the refresh every five minutes) come
round. The timers are strongly fair because the model gives a page a fixed number
of tasks and they may find none free; the page itself starts a call whenever a
timer fires. `QueueCatchesUp` and `SnapshotCatchesUp` promise nothing to a page
behind the wall, as the code does not: only the reader's looking again
(`catchUp`) asks the source anything there.

The fairness of the parts is stated in their modules and put together in
`MCParts!FairSpec`. `Posting!Work`: a call is answered or fails, and the app goes on
when it is; a reader owes nothing. `Sweep!Fairness`: time passes, an agent that is
not dead goes on, and the hourly schedule comes round while the pull request could
be selected; that last one is strongly fair, since an agent may be busy at one
moment and free at the next. `AdapterWatch`: a beat comes and a listing is answered,
well or not.

## What is proved

`DeviceSyncProofs` proves, for every finite set of devices, every bound, every
choice of faults and of leavers:

* `TypeCorrect`: `Spec => []TypeOK`.
* `KeptIsHeldAlways`, `OwnFileKnownAlways`, `PeersHoldPublishedAlways`: the
  invariants of those names.
* `FileGrows`: `Spec => FileOnlyGrows`.
* `Implements`: `Spec => ImplementsDecisionLog`, step by step.
* `WaitingNeverUnderstatedAlways`: the count of waiting decisions is never too low.

The assumptions are the module's own: the devices are finitely many and the
bounds are natural numbers (`DeviceAssumption`, `BoundAssumption`,
`FaultAssumption`), which TLC evaluates in every run.

None of the invariants is inductive alone. That the database holds nothing the
screen does not (`KeptIsHeld`) depends on every outstanding write being of
something in memory (`InMemory`), which a restart preserves only because a device
that is away has nothing outstanding (`Away`). That a device's own file is known
to it (`OwnFile`) needs the bytes of a push in flight to be in memory. That a
file only grows (`OnePush`) needs both: with one push at a time, its bytes hold
everything the file does. That others' decisions were published
(`ForeignIsPublished`) needs what an absorb has read to be published
(`ReadIsPublished`). `IInv` is their conjunction; each conjunct has a lemma with
a step per action of the module. TLC agreed to `IInv` before it was proved, on two
devices that both come and go with every fault allowed (3.2 million states).

The refinement maps `decided` to the decisions counted by `made`, `held` to
memory while a device is up and to its database while it is away, `kept` to the
database. Opening is then a stutter, and a crash is the abstract restart.

`WaitingNeverUnderstated` has an invariant of its own, `MarkInv`. The mark is a
number, and what it may count is a set: the decisions a device holds that are
others' or in its own file already, less those some absorb has taken in and not
yet counted (`Settled`). The mark is at most the size of that set (`Marked`), every
step but a writing of the mark leaves the set as large, and a mark is written by a
push whose bytes are in the file or by an absorb whose decisions become settled with
it. That two of them never count one decision needs that what two absorbs took in is
apart (`TakenOnce`), and what a push carries and an absorb took in too
(`PushedApart`): this is what a push beside another push or beside an absorb that
began to apply, two absorbs of one decision (`overlapped`) and a decision lost at a
restart (`lossy`) take away, and nothing else does.

`DraftsProofs` proves, for every set of drafts, texts and tasks and every bound:

* `TypeCorrect`: `Spec => []TypeOK`.
* `HeldMatchesShownAlways`, `SnapshotKeptAlways`, `QuietMeansCurrentAlways`,
  `OwedWhileIdleAlways`: the invariants of those names.

Its assumptions are `TextAssumption`, `KindAssumption` and `BoundAssumption`.
`HeldMatchesShown` is inductive once types are known. `SnapshotKept` needs that a
page that is not open owes nothing (`Closed`). `QuietMeansCurrent` is about what
nobody is doing, and its proof is about what somebody is: while nothing is muddled
every draft is up to date, or the watch will report it, or a task accounts for it
(`Accounted`). That a task may be trusted to bring it up to date needs that there
is only one (`OneTask`), that what it was told is still so or will be reported
(`Timely`), and that an idle one carries nothing (`WellFormed`). `OwedWhileIdle` (a
page at rest owes its database no snapshot) is inductive beside them: what a task
changes is owed until its last answer, which saves it. `IInv` is the conjunction;
each conjunct has a lemma with a step per action.

`EventReplayProofs` proves, for every set of devices (finite or not), every finding,
clock and number of decisions:

* `ReplayAlways`: `Spec => []ReplayInv`, the inductive invariant.
* `TypesAlways`, `ReloadsShowTheSame`, `RemovedForGood`: `Spec => []TypeOK`,
  `[]ReloadShowsTheSame`, `[]RemovedStaysRemoved`.
* `DecisionsTakeEffect`: `Spec => DecisionTakesEffect`.

`ReplayInv` is about logs, not about what is on the screen. The collection is the
replay of the log (`Replayed`), so a step of the log is a step of the runners
(`ReplayAppend`). No log holds a key twice, and it is in the order of its keys until
something comes out of its turn (`Stamped`). Nothing is asked of the clocks: a decision
is stamped with any moment at all that follows the last of its page. Every decision is
in the log of the device that took it (`Kept`), and what is in a file or a batch is in
some log (`Sent`). Where the clocks put a comment's creation before whatever else is said of
it, no log, file or batch has the rest without it, and each log has it first
(`CreatedFirst`): a whole log is pushed, and a batch is applied oldest first. TLC
agreed to `ReplayInv` on two and on three devices before it was proved.

From there each theorem is one lemma about a log. A log in the order of its keys is rebuilt
as it is (`RestoredSorted`), so a reload shows the same. In a log whose creation leads
there is one item per comment, and a removal reaches that one whatever follows
(`Mirrored`, `ThrownAway`). A decision in a log that it comes last in is on the first
item of its finding, which is the one `Included` looks at (`DecidedShown`). `Replay`
and the sorts are defined over the whole log; what they give is proved of every
length by taking the least place at which it fails (`Upto`) and of every order by the
number of events before each (`RanksAreAll`, `RanksAreOne`).

The other proof modules are about the parts, for every value of their constants
that fits the part's own `Bounds`; `PartsProofs` carries each result to `MCParts`.

| module | theorem | states |
| --- | --- | --- |
| `AppProofs` | `SendsAreExplained`, `RewritesWhatWasRead` | Posting: `SendsHold`, its share of `UnseenReachesReader` and `NothingUnseenLost` |
| | `PostsAsWhoIsShown` | Accounts: `AccountsHold` |
| | `SourcesStayApart` | SourceSwitch: `SourcesApart` |
| | `WatchersAreTold` | AdapterWatch: `NewsIsTold` |
| | `SourcesAreAsShown` | Settings: `SettingsTrue` |
| `SweepProofs` | `SweepPostsOnce` | Sweep: `PostsOnce`, its share of `NothingUnseenLost` |
| | `AnswersAreOnTheHost`, `HostKeepsWhatIsUnseen` | GitClone: `SendsLand`, its share of `NothingUnseenLost` |
| | `StoragesAnswerTruly` | Backends: `AnswersHold` |
| | `ReviewsSayWhatWasAgreed` | Review: `SendsAsAgreed` |
| `PaneProofs` | `PaneOfSelectedAlways`, `RecordingsAreHeld` | Selecting, Recordings: `PaneIsOfSelected` |
| | `ScreenNeverBlank` | Reading: its share of `UnseenReachesReader` |
| | `WordsAreKept`, `PanelKeepsWords` | Writing, Panel: `WordsStay` |
| `ChatProofs` | `AgentIsHeardOnce` | AgentChat: `AgentHeardOnce` |
| | `ClonesKept` | Clones: `ClonesHold` |
| | `ShellServesAsPromised` | OfflineShell: `ShellHolds` |
| | `RewriteIsAsShown` | TextDiff: `SentAsShown` |
| `PartsProofs` | `SendsHoldAlways`, ... , `NothingUnseenLostAlways` | MCParts: the seventeen properties above, by their own names |

The invariants they rest on, part by part:

* *Posting* (`PostingInv`). The press says which drafts were decided about, and a
  send or dismissal speaks of one of them (`UnseenInv`). A triage is a chain: the
  links behind a send's step are on the ticket, so a close has its comment and a
  record has all (`IssueInv`). Reviews and copies are counted with those at their
  call taken as arrived; there is one more than `excused` only if the log has a
  record or a send is there that will write one (`PullInv`); a triage's comments are
  counted in the same way, with a close still to come (`SayInv`). A patch replaces a body
  that was shown (`ShownInv`).
* *Accounts* (`AccountsInv`). While openings do not overlap one call alone writes
  the four fields, and at its step they are half its own (`OpeningInv`); what is
  opened next is listed, with its token, once what the calls owe is done
  (`PreferredInv`); a call is for a listed destination or for one that goes (`CallsInv`).
* *Sweep* (`SweepInv`). Posts and agents between their check and their post are at
  most the reasons for one more, and one if somebody answers for it: an agent at it,
  the log, or the reader's device (`Budget`). What is about to be pruned was answered (`Looked`).
* *GitClone* (`CloneInv`). Every commit's number is used once, reaches another branch
  only through the clone's own, and a version that was removed never returns; the
  copies follow the branch unless a merge left them torn; a call's record says what
  of it has got how far (`TasksInv`, `TakenInv`, `FilesInv`).
* *Backends* (`BackendsInv`). A call has watched the storage from its first moment, what
  was there all along behind a walk's place has been found and nothing else
  (`Walked`), and what a second request relies on was so at some moment of the call
  (`Right`). A bucket's page is the first of what is left, so its last key leaves
  nothing behind (`PageIs`).
* *SourceSwitch* (`SourceInv`). What an opening has done so far is of its source:
  reader, drafts, watches, in the order of its awaits (`ApartInv`). What waits for
  its turn is of the source that is read, unless a switch came first (`MixesInv`).
* *AdapterWatch* (`WatchInv`). A listing under way is what is stored, unless the
  storage changed under it; what a watch's marks hold is what its watcher was told.
* *Settings* (`SettingsInv`). A source works together or some call is between the two
  halves of a change to it, and a call that met no other on its source has proved
  what it writes (`TogetherInv`). Sweeps are numbered and the youngest is under way
  or has landed (`SweepsInv`); a change is owed a sweep or told by that one, and a look
  through the reader is of the source it is taken for unless that one is in `mixed`
  (`HealthInv`).
* *Selecting* (`OpeningInv`), *Recordings* (`RecordingsInv`), *Reading*
  (`ScreenInv`). There is one opening and it is of the selected item, or all that
  is under way and all that is shown is of items that met; a recording's
  URL is one read's, and a read is awaited by its entry or was cut loose; what a
  redraw leaves is something that can be shown.
* *Writing* (`WritingInv`). While no opening met another the box is of what is
  selected (`OfOne`), and each field's last words are in its box while that is open,
  kept for it when not, or were given up in sight (`InPlace`, `NoneLost`); a body
  nobody touched says what it said, and a summary that was sent is never written over,
  as its box cannot be opened again (`Untouched`, `SentAsKept`). A card obeys the same
  while it was not carried to another item (`CardKept`).
* *Panel* (`PanelInv`). What was typed for one kind of row is found in that kind's
  form, rows and calls only (`TextsApart`), so blanking one form loses none of the
  other's; a form of a row holds what is recorded or what is owed, and there is one
  call under way that the reader has not gone past, if any (`Chosen`).
* *AgentChat* (`ChatInv`). The lines and the exit on their way have one of a few
  shapes, each with one end the reader is told of (`Told`); a fork is remembered
  under its own agent (`Remembered`) and counted with the names that were lost
  (`Forked`).
* *Clones* (`FolderInv`). While none was cut or taken, one reader makes the folder
  at a time and stands before exactly what it has made, and who has opened has all
  of it (`OneMakes`); nobody is at work on what is being forgotten, and a folder that
  is there is some source's (`Owned`).
* *OfflineShell* (`ShellInv`). Of a key that was not overtaken one copy is on its way,
  the last that came, and what is kept is the last but for that one (`InOrder`); what
  was stored since the shell was emptied is there (`Stocked`); a page holds what it was
  given, as young as it was asked to be (`Pages`).
* *Review* (`ReviewInv`). What was agreed to is what the log says: a finding of the
  agent's is agreed to while it is included and not yet posted, and the words it was
  agreed in are the reader's, where the log has some, or were the agent's (`FindingFits`);
  a comment of the reader's own is on one pull request and agreed to in the words it
  has, unless they were put back (`OwnFits`); the summary and the verdict likewise
  (`WholeFits`). The ids of a draft are apart, and so are their keys in the log, so a
  list of findings shows each once (`ShownOnce`), and what is picked from it is what
  is at the places that were picked, in their order (`PickedIs`).
* *TextDiff* (`DiffInv`). What is drawn is the difference of the two bodies, and the
  ids turned down are those of the hunks that were refused, which no other hunk has:
  equal changes are numbered from the top. Spans of changes lie more than the context
  of two hunks apart, so hunks neither overlap nor reach one another's changes. The
  edit script reads back as the live body without its additions and as the proposal
  without its removals, so writing the kept hunks whole and the live text between
  them gives `Mixed`. A line put above both bodies is one more unchanged line in front
  of the same script, one put above the live body that is apart is one more hunk, and the numbers of lines are not part of an id, so what was
  turned down stays so. The edit script, the spans and the copying are recursive, and
  each is shown to do this by taking the least place where it would not.

TLC agrees to `PartsInv`, which is all of these, in every state of the run `parts`.

Left to TLC: everything under fairness (`ReachesStorage`, `ReachesPeers`,
`QueueCatchesUp`, `SnapshotCatchesUp`, `PressResolves`, `ClaimsComeToAnEnd`,
`SilenceIsTold`), which the provers cannot treat. Not proved
yet, though nothing stands against it: the conjunction of the parts' types that
`MCParts` checks (`PartsTypeOK`).

## What the checks showed about the code

The five runs that end in a violation are disagreements between the code and what
its comments say. Modelling and checking the parts met forty-three more: in each of
them the property above holds because it excuses the case, and `PROJECT.json`
quotes the line that says otherwise. In short:

* *Sending*: a retry after a patch that landed is blocked by that patch
  (`confirm.js:422`); a posted pull request that moves is drafted again
  (`select-new.js:74`); a failed database write passes for a recorded post
  (`app.js:907`); what the sheet shows and what the button sends may differ
  (`confirm.js:113`); the verdict of the last send is offered for a fresh draft
  (`runners.js:136`); a triage posts its comment whether or not it was included
  (`confirm.js:446`); "Revert to drafted" on the reader's own comment leaves nothing
  to revert to, and it goes out empty (`runners.js:170`); what the draft's file says
  was posted is parsed and never asked (`queries/index.js:315`); an issue's
  draft that only closes or labels is offered with nothing to say
  (`domain/draft.js:390`); a close refused after its comment repeats the comment
  (`confirm.js:451`); a line that drifts into the live body can take over the rejection
  of a hunk (`text-diff.js:107`).
* *The log*: stamps start again at a reload, so a clock set back repeats a time or puts
  a decision before what it followed (`event-store.js:176`); an older push that lands
  last takes decisions out of the file (`commands/index.js:664`).
* *Sources*: a push fired after a switch writes one source's log into another's
  storage (`app.js:188`), a push after a removal empties this device's file in it
  (`commands/index.js:664`); a correction outlives its source (`app.js:415`); a
  refused credential leaves what the form says was not saved (`header.js:1576`); a
  sweep may look at one source through the reader of another (`app.js:254`), and a refresh
  that fails after a switch tells of the next source (`app.js:982`).
* *Storage*: a page's forced checkout may fall into a write
  (`git-isomorphic.js:245`); a GitHub write is conditional on what was there a
  moment ago and not on what was read (`github.js:174`).
* *Clones*: one that was cut short passes for the repository
  (`git-isomorphic.js:348`), one that is whole does not open while its host is away
  (`git.rs:209`), a folder with no commit reads as a repository with none
  (`git.rs:230`), and a corrected source leaves its old one behind (`app.js:414`).
* *Words*: a half-written card goes along to the next item (`header.js:489`); the
  microtask a click queues runs before the click's own handlers (`dom.js:187`);
  clicking into the summary and out again opts it in (`summary.js:83`); a redraft
  under an open box records the old text as the reader's (`description-pane.js:241`).
* *Accounts*: two openings that overlap post through, and as, an account that is not
  marked (`app.js:1115`); removing a refused destination opens no other
  (`app.js:564`); a token left blank is taken (`header.js:1724`); what is typed while a
  row is looked up is replaced (`header.js:572`).
* *The app's own files*: after a first visit nothing but the document is kept
  (`sw.js:69`); any page of the origin takes the document's place (`sw.js:152`); an
  older copy may be the one that stays (`sw.js:164`); an edit between a page and its
  stream is not shown (`reload.go:85`).
* *The screen*: closing an item from another tab, or a redraft without what is open,
  leaves a blank pane (`confirm.js:530`), as does a clean lens (`diff-pane.js:52`) and
  a finding on a file that is not there (`findings.js:91`); a refused destination is
  shown as an unreadable source (`summary.js:383`). A recording that comes after its
  entry went is never given back (`qa.js:202`), nor one whose entry went with another
  read that failed (`qa.js:208`).

Without a comment to contradict:

* After a reload the backlog is not pushed until the reader's next decision;
  nothing pushes at opening, and nothing is flushed when the page goes away.
* A device's clock is not moved by what it absorbs, so an own decision made after
  a peer's may be stamped, and replayed, before it.
* The pull at opening and the watch's first look may both take in one file. The
  log is safe (keys are applied once) but the mark is raised twice.
* A read that is under way when its draft is cleared puts the draft back, in the
  queue and in the snapshot, until the next refresh.
* A page behind the wall whose reader looks again may show a queue that nothing
  watches: `catchUp` reads the drafts, but the watch and the timer were never
  started.

## The plan

Done: the modules above, each with its run, and the proofs above. What a next step
would take up, in this order:

| what | why |
| --- | --- |
| `PartsTypeOK` | the conjunction of the parts' types, most of which the invariants above hold already |

## Not modelled

* *Nothing is decided there*: the interface's markup (`render.js`, the rows, cards
  and blocks once it is settled what they show), `domain/emoji.js` (a table of
  names), the installer, the shell's bookmarks and windows. They are more than a
  third of the code, and translating them would say nothing.
* *Pure input and output*: request formats and signatures, the keychain, IndexedDB
  and the browser. They appear as requests that complete, fail, or are answered into
  nothing. Backends shows a file the browser's folder has made before it is filled,
  and leaves out the shell's temporary file, which no listing names.
* *Format*: parsing drafts, diffs, rules and run records beyond what a property
  tells apart (Review has what parsing refuses); wording, layout and payload text everywhere.
* *Left for later*: the board's folds and chat drawer, popovers and drawers, files
  marked as viewed, folder handles, limits per sweep.
* Settings leaves out restarts: every call there begins and ends in one sitting of
  the page.
