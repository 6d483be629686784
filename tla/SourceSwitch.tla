----------------------------- MODULE SourceSwitch -----------------------------
(* Which storage the app reads: attaching, opening, editing and forgetting   *)
(* sources while reads, posts and waiting pushes of the one before are still *)
(* under way. An opening is a chain of awaits over the app's own fields, and *)
(* nothing keeps two from overlapping.                                       *)
EXTENDS FiniteSets, Naturals

CONSTANTS
  Source,       \* storages the reader may attach
  Opening,      \* openings under way at once
  MaxAsks,      \* switches, attachments, edits and removals
  MaxDecisions, \* decisions and posts
  MaxOutages    \* how often a storage stops or starts answering

Bounds ==
  /\ {MaxAsks, MaxDecisions, MaxOutages} \subseteq Nat
  /\ {"none", "standIn"} \cap Source = {}

VARIABLES
  attached,   \* the sources in the app's own log
  gone,       \* the sources it no longer holds; one attached again has another id
  source,     \* the one being read
  adapter,    \* the storage the app's reader is for
  drafts,     \* the projection of the drafts: what it reads, and whose snapshot it keeps
  problem,    \* whose trouble the wall tells, if there is one
  watching,   \* the watches: what each reads, and what it feeds
  timer,      \* whether the refresh is on
  held,       \* the sources whose snapshot holds something
  up,         \* the storages that answer
  openings,   \* each opening, and the source it was started for
  selected,   \* the source of the pull request on the pane
  calls,      \* selections and posts not yet answered
  waiting,    \* sources with a push put off
  logs,       \* by source, whose pull requests its log decides about
  files,      \* by storage, whose log this device's file there is
  asks, decisions, outages,
  overlapped, \* what ran over an opening: another one, or the old source's refresh telling of its failure (history)
  hurried     \* a switch began over a call or a push under way, or a row of the last queue was opened after it (history)

reader == <<source, adapter, drafts, problem, watching, timer>>
storage == <<attached, gone, held, up>>
work == <<selected, calls, waiting, logs, files>>
bounds == <<asks, decisions, outages>>
history == <<overlapped, hurried>>
vars == <<storage, reader, openings, work, bounds, history>>

\* A source whose reader cannot be built is stood in for by one that is empty.
Some == Source \cup {"none"}
Reader == Some \cup {"standIn"}
Pc == {"idle", "asked", "build", "ready", "list", "watch", "pull", "queue"}

Init ==
  /\ attached = {} /\ gone = {} /\ source = "none" /\ adapter = "none" /\ drafts = [of |-> "none", into |-> "none"]
  /\ problem = "none" /\ watching = {} /\ timer = FALSE
  /\ held = {} /\ up = Source
  /\ openings = [o \in Opening |-> [pc |-> "idle", on |-> "none"]]
  /\ selected = "none" /\ calls = {} /\ waiting = {}
  /\ logs = [s \in Source |-> {}] /\ files = [s \in Source |-> "none"]
  /\ asks = 0 /\ decisions = 0 /\ outages = 0
  /\ overlapped = {} /\ hurried = FALSE

-----------------------------------------------------------------------------
(* Asking for another source.                                                *)

Go(o, pc) == openings' = [openings EXCEPT ![o].pc = pc]
End(o) == openings' = [openings EXCEPT ![o] = [pc |-> "idle", on |-> "none"]]

\* The old source's review is let go of before the new one opens.
LetGo == "none"

Asked(o, s) ==
  /\ openings[o].pc = "idle" /\ asks < MaxAsks
  /\ asks' = asks + 1
  /\ openings' = [openings EXCEPT ![o] = [pc |-> "asked", on |-> s]]
  /\ overlapped' = IF \E p \in Opening \ {o} : openings[p].pc # "idle" THEN overlapped \cup {"opening"} ELSE overlapped
  /\ hurried' = (hurried \/ calls # {} \/ waiting # {})

Switch(o, s) ==
  /\ s \in attached /\ source # s
  /\ Asked(o, s)
  /\ selected' = LetGo
  /\ UNCHANGED <<storage, reader, calls, waiting, logs, files, decisions, outages>>

Attach(o, s) ==
  /\ s \notin attached \cup gone
  /\ attached' = attached \cup {s}
  /\ Asked(o, s)
  /\ selected' = LetGo
  /\ UNCHANGED <<gone, held, up, reader, calls, waiting, logs, files, decisions, outages>>

\* The open source, pointed somewhere that was shown to work, is opened again.
Edit(o) ==
  /\ source \in attached /\ source \in up
  /\ Asked(o, source)
  /\ UNCHANGED <<storage, reader, work, decisions, outages>>

\* Its log, its secret and its clone go; the next one is opened in its place.
Remove(o, s) ==
  /\ s \in attached
  /\ attached' = attached \ {s} /\ gone' = gone \cup {s}
  /\ logs' = [logs EXCEPT ![s] = {}]
  /\ IF source = s
     THEN \E next \in IF attached' = {} THEN {"none"} ELSE attached' : Asked(o, next) /\ selected' = LetGo
     ELSE asks < MaxAsks /\ asks' = asks + 1 /\ hurried' = (hurried \/ s \in waiting)
          /\ UNCHANGED <<openings, selected, overlapped>>
  /\ UNCHANGED <<held, up, reader, calls, waiting, files, decisions, outages>>

-----------------------------------------------------------------------------
(* An opening, one step per await.                                           *)

\* Mutant: the last source's watches go on.
KeepsWatching == watching
StopWatching == {}

Start(o) ==
  /\ openings[o].pc = "asked"
  /\ watching' = StopWatching
  /\ \E s \in IF openings[o].on \in attached THEN {openings[o].on}
              ELSE IF attached = {} THEN {"none"} ELSE attached :
       /\ source' = s
       /\ IF s = "none" THEN /\ adapter' = "none" /\ drafts' = [of |-> "none", into |-> "none"]
                             /\ End(o) /\ UNCHANGED problem
          ELSE /\ problem' = "none"
               /\ openings' = [openings EXCEPT ![o] = [pc |-> "build", on |-> s]]
               /\ UNCHANGED <<adapter, drafts>>
  /\ UNCHANGED <<storage, timer, work, bounds, history>>

\* The reader built is for the source this opening set; everything after reads
\* the app's fields as they are by then.
Build(o) ==
  /\ openings[o].pc = "build"
  /\ \/ adapter' = openings[o].on /\ UNCHANGED <<problem, outages>>
     \/ adapter' = "standIn" /\ problem' = openings[o].on /\ outages < MaxOutages /\ outages' = outages + 1
  /\ drafts' = [of |-> adapter', into |-> source]
  /\ Go(o, "ready")
  /\ UNCHANGED <<storage, source, watching, timer, work, asks, decisions, history>>

Answers(r) == r \in up \cup {"standIn"}

\* With something held a source that does not answer is an outage; with
\* nothing it is the wall, and nothing more is asked of it.
HasHeld == drafts.into \in held

Ready(o) ==
  /\ openings[o].pc = "ready"
  /\ LET why == IF problem = "none" /\ ~Answers(adapter) THEN adapter ELSE problem
     IN  /\ problem' = IF HasHeld THEN "none" ELSE why
         /\ IF why = "none" THEN Go(o, "list") ELSE IF HasHeld THEN Go(o, "watch") ELSE End(o)
  /\ UNCHANGED <<storage, source, adapter, drafts, watching, timer, work, bounds, history>>

Read == IF drafts.of \in up /\ drafts.into # "none" THEN held \cup {drafts.into} ELSE held

ListFirst(o) ==
  /\ openings[o].pc = "list"
  /\ held' = Read
  /\ IF Answers(drafts.of) \/ HasHeld THEN Go(o, "watch") /\ UNCHANGED problem
     ELSE End(o) /\ problem' = drafts.of
  /\ UNCHANGED <<attached, gone, up, source, adapter, drafts, watching, timer, work, bounds, history>>

\* One watch for the drafts, one for the other devices' decisions.
Watch(o) ==
  /\ openings[o].pc = "watch"
  /\ watching' = watching \cup {[reads |-> drafts.of, feeds |-> drafts.into], [reads |-> adapter, feeds |-> source]}
  /\ Go(o, "pull")
  /\ UNCHANGED <<storage, source, adapter, drafts, problem, timer, work, bounds, history>>

Pull(o) ==
  /\ openings[o].pc = "pull"
  /\ logs' = IF adapter \in up /\ source # "none" THEN [logs EXCEPT ![source] = @ \cup {adapter}] ELSE logs
  /\ Go(o, "queue")
  /\ UNCHANGED <<storage, reader, selected, calls, waiting, files, bounds, history>>

Queue(o) ==
  /\ openings[o].pc = "queue"
  /\ held' = Read /\ timer' = TRUE
  /\ End(o)
  /\ UNCHANGED <<attached, gone, up, source, adapter, drafts, problem, watching, work, bounds, history>>

\* The timer outlives the opening that set it: while the next source's reader
\* is built it still asks the last one's drafts, and writes what they answer
\* over the reason the opening has just cleared.
Refresh ==
  /\ timer /\ drafts.of # "none"
  /\ held' = Read
  /\ problem' = IF Answers(drafts.of) \/ HasHeld THEN problem ELSE drafts.of
  /\ overlapped' = IF problem' # problem /\ drafts.into # source THEN overlapped \cup {"refresh"} ELSE overlapped
  /\ UNCHANGED <<attached, gone, up, source, adapter, drafts, watching, timer, openings, work, bounds, hurried>>

-----------------------------------------------------------------------------
(* What the reader does with the source meanwhile.                           *)

Select ==
  /\ drafts.into \in held /\ source # "none" /\ decisions < MaxDecisions
  /\ decisions' = decisions + 1
  /\ selected' = drafts.into
  /\ calls' = calls \cup {[what |-> "select", of |-> drafts.into]}
  /\ hurried' = (hurried \/ \E o \in Opening : openings[o].on \notin {drafts.into, "none"})
  /\ UNCHANGED <<storage, reader, openings, waiting, logs, files, asks, outages, overlapped>>

\* The draft is in, and the pull request asked for is the one selected.
Selected(c) ==
  /\ c.what = "select"
  /\ calls' = calls \ {c}
  /\ selected' = IF source = "none" THEN selected ELSE c.of
  /\ UNCHANGED <<storage, reader, openings, waiting, logs, files, bounds, history>>

Track(about) ==
  /\ logs' = [logs EXCEPT ![source] = @ \cup {about}]
  /\ waiting' = waiting \cup {source}

Decide ==
  /\ selected # "none" /\ source # "none" /\ decisions < MaxDecisions
  /\ decisions' = decisions + 1
  /\ Track(selected)
  /\ UNCHANGED <<storage, reader, openings, selected, calls, files, asks, outages, history>>

Post ==
  /\ selected # "none" /\ source # "none" /\ decisions < MaxDecisions
  /\ decisions' = decisions + 1
  /\ calls' = calls \cup {[what |-> "post", of |-> selected]}
  /\ UNCHANGED <<storage, reader, openings, selected, waiting, logs, files, asks, outages, history>>

\* Recorded in the log of the source that is open by now.
Posted(c) ==
  /\ c.what = "post"
  /\ calls' = calls \ {c}
  /\ IF source = "none" THEN UNCHANGED <<logs, waiting>> ELSE Track(c.of)
  /\ UNCHANGED <<storage, reader, openings, selected, files, bounds, history>>

\* The debounced push of a source writes through the adapter that is open.
Fire(s) ==
  /\ s \in waiting
  /\ waiting' = waiting \ {s}
  /\ files' = IF adapter \in up THEN [files EXCEPT ![adapter] = s] ELSE files
  /\ UNCHANGED <<storage, reader, openings, selected, calls, logs, bounds, history>>

StopOrStart(s) ==
  /\ outages < MaxOutages
  /\ outages' = outages + 1
  /\ up' = IF s \in up THEN up \ {s} ELSE up \cup {s}
  /\ UNCHANGED <<attached, gone, held, reader, openings, work, asks, decisions, history>>

Proceed(o) == Start(o) \/ Build(o) \/ Ready(o) \/ ListFirst(o) \/ Watch(o) \/ Pull(o) \/ Queue(o)

Next ==
  \/ \E o \in Opening :
       \/ Proceed(o) \/ Edit(o)
       \/ \E s \in Source : Switch(o, s) \/ Attach(o, s) \/ Remove(o, s)
  \/ Refresh \/ Select \/ Decide \/ Post
  \/ \E c \in calls : Selected(c) \/ Posted(c)
  \/ \E s \in Source : Fire(s) \/ StopOrStart(s)

Spec == Init /\ [][Next]_vars

-----------------------------------------------------------------------------
(* What must hold.                                                           *)

TypeOK ==
  /\ {attached, gone, held, up, waiting} \subseteq SUBSET Source
  /\ {source, problem, selected} \subseteq Some /\ adapter \in Reader
  /\ drafts \in [of : Reader, into : Some] /\ watching \subseteq [reads : Reader, feeds : Some]
  /\ openings \in [Opening -> [pc : Pc, on : Some]]
  /\ calls \subseteq [what : {"select", "post"}, of : Source]
  /\ logs \in [Source -> SUBSET Source] /\ files \in [Source -> Some]
  /\ timer \in BOOLEAN /\ overlapped \subseteq {"opening", "refresh"} /\ hurried \in BOOLEAN

Settled == \A o \in Opening : openings[o].pc = "idle"

\* No two openings ran at once.
Alone == "opening" \notin overlapped

\* Once an opening has ended, everything the app reads through is of the source
\* it says it reads, unless two openings overlapped: no watch and no snapshot is
\* another's, nor is the reason for a wall, unless the last source's refresh
\* told of its failure while the next one was being built; and a source that can
\* be read, from its storage or from what it last held, is watched and refreshed
\* until it is left (app.js _openSource, "the watch and the timer below keep
\* asking").
OneSource ==
  Alone /\ Settled =>
    /\ adapter \in {source, "standIn"} /\ drafts = [of |-> adapter, into |-> source]
    /\ watching \subseteq {[reads |-> adapter, feeds |-> source]}
    /\ source # "none" /\ "refresh" \notin overlapped => problem \in {source, "none"}
    /\ source # "none" /\ problem = "none" => watching # {} /\ timer

\* A source's log decides about its own pull requests and its storage holds its
\* own log, unless a switch began over a call or a push under way
\* (multi-event-store.js, "two sources watching different orgs cannot mix").
NothingMixes ==
  Alone /\ ~hurried => \A s \in Source : logs[s] \subseteq {s} /\ files[s] \in {s, "none"}
===============================================================================
