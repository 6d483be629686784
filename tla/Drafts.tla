-------------------------------- MODULE Drafts --------------------------------
(***************************************************************************)
(* The agent's drafts as one page shows them (web/src/state/drafts.js, the *)
(* watch of web/src/adapters/adapter.js that wakes it, and the refresh and *)
(* opening of web/src/app/app.js that read the source again).              *)
(*                                                                         *)
(* The agent writes and removes files; the page only reads them.  A watch  *)
(* round, a refresh, an opened pull request and a cleared draft each send  *)
(* requests whose answers come back in any order, and two of them may be   *)
(* under way together, so a request is asked, answered and handled in      *)
(* three steps.  What was read is kept as one snapshot in a database, for  *)
(* the day the source does not answer.                                     *)
(***************************************************************************)
EXTENDS Naturals, Sequences

CONSTANTS Key,          \* pull requests and issues
          Text,         \* the bytes a draft may hold
          Broken,       \* those that do not parse
          Gone,         \* the answer when there is no file
          Failed,       \* the answer of a read the storage refused
          Task,         \* bound: what one page has under way at once
          Kinds,        \* which tasks besides the watch and the refresh are run
          MaxChanges,   \* bound: the agent's writes and removals
          MaxFailures,  \* bound: the requests and database calls that fail
          MaxSaves      \* bound: snapshots on their way to the database

ASSUME TextAssumption ==
  Broken \subseteq Text /\ Gone \notin Text /\ Failed \notin Text \cup {Gone}
ASSUME KindAssumption == Kinds \subseteq {"load", "clear"}
ASSUME BoundAssumption == MaxChanges \in Nat /\ MaxFailures \in Nat /\ MaxSaves \in Nat

VARIABLES
  stored,    \* stored[k]: the file drafts/<k>/review.json in the source
  changes,   \* bound: how often the agent wrote or removed a file
  failures,  \* bound: how often something failed
  up,        \* a page has this source open
  watching,  \* it came through the opening, and the watch and the timer run
  shown,     \* shown[k]: _byKey, what the queue and the pane are drawn from
  held,      \* held[k]: _held, the raw text of the last good read
  dirty,     \* _dirty: held has changed since it was last handed over
  saving,    \* the snapshots the database has been given and not yet kept
  disk,      \* disk[k]: the snapshot in the database
  seen,      \* seen[k]: the watch's last listing named k
  touched,   \* touched[k]: k was written since that listing
  task,      \* task[t]: what is under way in t
  muddled,   \* history: since the last lone refresh began, two tasks were
             \* under way together, something failed, or a file came and went
             \* between two watch rounds
  unsaved    \* history: the database lost a snapshot, or would not give it back

vars == <<stored, changes, failures, up, watching, shown, held, dirty, saving, disk,
          seen, touched, task, muddled, unsaved>>

Bytes == Text \cup {Gone}
Snapshot == [Key -> Bytes]

Entry == [draft : Bytes, problem : {"absent", "none", "unread", "unparsed"}]

Absent == [draft |-> Gone, problem |-> "absent"]

\* A read that failed leaves an entry with no draft.  Mutant: with the failure.
FailedEntry == [draft |-> Failed, problem |-> "unread"]
Unread == [draft |-> Gone, problem |-> "unread"]

Running == [kind : {"idle", "open", "watch", "refresh", "load", "clear"},
            stage : {"listing", "listed", "root", "reading"},
            listed : SUBSET Key, asked : SUBSET Key,
            answers : SUBSET (Key \X (Bytes \cup {Failed}))]

Idle == [kind |-> "idle", stage |-> "reading", listed |-> {}, asked |-> {}, answers |-> {}]

Reading(kind, keys) == [Idle EXCEPT !.kind = kind, !.asked = keys]

Listing(kind) == [Idle EXCEPT !.kind = kind, !.stage = "listing"]

Listed == {k \in Key : stored[k] # Gone}

\* loadAll runs in t: at opening, which is all it does then, or later.
Refreshing(t) == task[t].kind \in {"open", "refresh"}

AllIdle == \A t \in Task : task[t].kind = "idle"

\* Another task is under way beside t.
Beside(t) == \E u \in Task \ {t} : task[u].kind # "idle"

Init ==
  /\ stored = [k \in Key |-> Gone]
  /\ changes = 0
  /\ failures = 0
  /\ up = FALSE
  /\ watching = FALSE
  /\ shown = [k \in Key |-> Absent]
  /\ held = [k \in Key |-> Gone]
  /\ dirty = FALSE
  /\ saving = <<>>
  /\ disk = [k \in Key |-> Gone]
  /\ seen = [k \in Key |-> FALSE]
  /\ touched = [k \in Key |-> FALSE]
  /\ task = [t \in Task |-> Idle]
  /\ muddled = FALSE
  /\ unsaved = FALSE

-------------------------------------------------------------------------------
(* The agent, which knows nothing of this page.                              *)

Remove(k) ==
  /\ stored' = [stored EXCEPT ![k] = Gone]
  /\ touched' = [touched EXCEPT ![k] = FALSE]

Unnoticed(k) == up /\ stored[k] # Gone /\ ~seen[k]

AgentWrites(k, text) ==
  /\ changes < MaxChanges
  /\ changes' = changes + 1
  /\ stored' = [stored EXCEPT ![k] = text]
  /\ touched' = [touched EXCEPT ![k] = TRUE]
  /\ UNCHANGED <<failures, up, watching, shown, held, dirty, saving, disk, seen,
                 task, muddled, unsaved>>

\* A file the watch never saw come or go is one it cannot report.
AgentRemoves(k) ==
  /\ stored[k] # Gone
  /\ changes < MaxChanges
  /\ changes' = changes + 1
  /\ Remove(k)
  /\ muddled' = (muddled \/ Unnoticed(k))
  /\ UNCHANGED <<failures, up, watching, shown, held, dirty, saving, disk, seen,
                 task, unsaved>>

-------------------------------------------------------------------------------
(* Asking: Adapter.poll, Drafts.loadAll, Drafts.load and Drafts.clear.       *)

\* What a watch round finds moved since its last listing.  Its first listing
\* is all news, because nothing has been seen.
Moved == {k \in Key : IF stored[k] = Gone THEN seen[k] ELSE ~seen[k] \/ touched[k]}

\* Mutant: a path that is no longer listed is not reported.
MovedListed == Moved \cap Listed
Reported == Moved

\* The listing is remembered before anything in it is read.
WatchRound(t) ==
  /\ watching
  /\ task[t].kind = "idle"
  /\ Moved # {}
  /\ seen' = [k \in Key |-> k \in Listed]
  /\ touched' = [k \in Key |-> FALSE]
  /\ task' = [task EXCEPT ![t] = IF Reported = {} THEN Idle ELSE Reading("watch", Reported)]
  /\ muddled' = (muddled \/ Beside(t))
  /\ UNCHANGED <<stored, changes, failures, up, watching, shown, held, dirty,
                 saving, disk, unsaved>>

\* loadAll, on the timer and when the window is looked at again.
StartRefresh(t) ==
  /\ up
  /\ task[t].kind = "idle"
  /\ task' = [task EXCEPT ![t] = Listing("refresh")]
  /\ muddled' = Beside(t)
  /\ UNCHANGED <<stored, changes, failures, up, watching, shown, held, dirty,
                 saving, disk, seen, touched, unsaved>>

\* The reader opens a pull request.
StartLoad(t, k) ==
  /\ "load" \in Kinds
  /\ up
  /\ task[t].kind = "idle"
  /\ task' = [task EXCEPT ![t] = Reading("load", {k})]
  /\ muddled' = (muddled \/ Beside(t))
  /\ UNCHANGED <<stored, changes, failures, up, watching, shown, held, dirty,
                 saving, disk, seen, touched, unsaved>>

\* The reader asks for a new review of a draft that is shown.
StartClear(t, k) ==
  /\ "clear" \in Kinds
  /\ up
  /\ task[t].kind = "idle"
  /\ shown[k].draft # Gone
  /\ task' = [task EXCEPT ![t] = Reading("clear", {k})]
  /\ muddled' = (muddled \/ Beside(t))
  /\ UNCHANGED <<stored, changes, failures, up, watching, shown, held, dirty,
                 saving, disk, seen, touched, unsaved>>

-------------------------------------------------------------------------------
(* The source answers.                                                       *)

AnswerListing(t) ==
  /\ Refreshing(t) /\ task[t].stage = "listing"
  /\ task' = [task EXCEPT ![t] = [task[t] EXCEPT !.stage = "listed", !.listed = Listed]]
  /\ UNCHANGED <<stored, changes, failures, up, watching, shown, held, dirty,
                 saving, disk, seen, touched, muddled, unsaved>>

AnswerRead(t, k) ==
  /\ task[t].kind # "clear" /\ k \in task[t].asked
  /\ task' = [task EXCEPT ![t] =
       [task[t] EXCEPT !.asked = @ \ {k}, !.answers = @ \cup {<<k, stored[k]>>}]]
  /\ UNCHANGED <<stored, changes, failures, up, watching, shown, held, dirty,
                 saving, disk, seen, touched, muddled, unsaved>>

\* The file is removed; what comes back is handled as a file that is not there.
AnswerClear(t, k) ==
  /\ task[t].kind = "clear" /\ k \in task[t].asked
  /\ Remove(k)
  /\ task' = [task EXCEPT ![t] =
       [task[t] EXCEPT !.asked = @ \ {k}, !.answers = @ \cup {<<k, Gone>>}]]
  /\ muddled' = (muddled \/ Unnoticed(k))
  /\ UNCHANGED <<changes, failures, up, watching, shown, held, dirty, saving, disk,
                 seen, unsaved>>

Fail ==
  /\ failures < MaxFailures
  /\ failures' = failures + 1

\* A listing that fails ends the refresh and changes nothing.  The second
\* listing, of the root, is asked for after the first one's drops.  An opening
\* that fails with a draft to show goes on to watch; with none it stops there.
FailListing(t) ==
  /\ Refreshing(t) /\ task[t].stage \in {"listing", "root"}
  /\ Fail
  /\ task' = [task EXCEPT ![t] = Idle]
  /\ watching' = \/ watching
                 \/ task[t].kind = "open" /\ \E k \in Key : shown[k].draft # Gone
  /\ muddled' = TRUE
  /\ UNCHANGED <<stored, changes, up, shown, held, dirty, saving, disk, seen,
                 touched, unsaved>>

FailRead(t, k) ==
  /\ task[t].kind # "clear" /\ k \in task[t].asked
  /\ Fail
  /\ task' = [task EXCEPT ![t] =
       [task[t] EXCEPT !.asked = @ \ {k}, !.answers = @ \cup {<<k, Failed>>}]]
  /\ muddled' = TRUE
  /\ UNCHANGED <<stored, changes, up, watching, shown, held, dirty, saving, disk,
                 seen, touched, unsaved>>

\* A removal that is refused, or whose answer is lost after it was done, leaves
\* this page as it was.
FailClear(t, k) ==
  /\ task[t].kind = "clear" /\ k \in task[t].asked
  /\ Fail
  /\ Remove(k) \/ UNCHANGED <<stored, touched>>
  /\ task' = [task EXCEPT ![t] = Idle]
  /\ muddled' = TRUE
  /\ UNCHANGED <<changes, up, watching, shown, held, dirty, saving, disk, seen,
                 unsaved>>

-------------------------------------------------------------------------------
(* Handling the answers: _record, _hold, _drop and _persist.                 *)

\* A text that does not parse keeps the last good draft beside the problem.
\* Mutant: every text is taken for a draft.
AnyText(entry, text) == [draft |-> text, problem |-> "none"]
Recorded(entry, text) ==
  IF text \in Broken THEN [entry EXCEPT !.problem = "unparsed"]
                     ELSE [draft |-> text, problem |-> "none"]

\* Whether dropping these keys changes the snapshot.  Mutant: it never does.
NeverMarks(keys) == FALSE
Marks(keys) == \E k \in keys : held[k] # Gone

\* _persist: the whole snapshot, as it is now, is given to the database.
\* Mutant: it stays owed.
StaysOwed(moved) ==
  /\ saving' = IF moved THEN Append(saving, held') ELSE saving
  /\ dirty' = moved

Persist(moved) ==
  /\ saving' = IF moved THEN Append(saving, held') ELSE saving
  /\ dirty' = FALSE

\* The task is done.  The opening's is what the watch and the timer wait for.
Finish(t) ==
  /\ task' = [task EXCEPT ![t] = Idle]
  /\ watching' = (watching \/ task[t].kind = "open")

\* The answer is handled; the last one of its task also persists.
Settle(t, answer, moved) ==
  LET rest == [task[t] EXCEPT !.answers = @ \ {answer}] IN
  \/ /\ rest.asked \cup rest.answers = {}
     /\ Len(saving) < MaxSaves
     /\ Finish(t)
     /\ Persist(dirty \/ moved)
  \/ /\ rest.asked \cup rest.answers # {}
     /\ task' = [task EXCEPT ![t] = rest]
     /\ dirty' = (dirty \/ moved)
     /\ UNCHANGED <<saving, watching>>

HandleText(t, k, text) ==
  /\ <<k, text>> \in task[t].answers /\ text \in Text
  /\ shown' = [shown EXCEPT ![k] = Recorded(@, text)]
  /\ held' = [held EXCEPT ![k] = text]
  /\ Settle(t, <<k, text>>, held[k] # text)
  /\ UNCHANGED <<stored, changes, failures, up, disk, seen, touched, muddled,
                 unsaved>>

HandleGone(t, k) ==
  /\ <<k, Gone>> \in task[t].answers
  /\ shown' = [shown EXCEPT ![k] = Absent]
  /\ held' = [held EXCEPT ![k] = Gone]
  /\ Settle(t, <<k, Gone>>, Marks({k}))
  /\ UNCHANGED <<stored, changes, failures, up, disk, seen, touched, muddled,
                 unsaved>>

\* The snapshot keeps what the last good read held.  An opened pull request
\* whose read fails returns before it persists.
HandleFailure(t, k) ==
  /\ <<k, Failed>> \in task[t].answers
  /\ shown' = [shown EXCEPT ![k] = Unread]
  /\ UNCHANGED held
  /\ \/ /\ task[t].kind = "load"
        /\ task' = [task EXCEPT ![t] = Idle]
        /\ UNCHANGED <<dirty, saving, watching>>
     \/ /\ task[t].kind # "load"
        /\ Settle(t, <<k, Failed>>, FALSE)
  /\ UNCHANGED <<stored, changes, failures, up, disk, seen, touched, muddled,
                 unsaved>>

\* A listing is the whole truth: an entry it does not name is forgotten.
\* Mutant: a refresh only ever adds.
AddOnly(t) == {}
Cleared(t) == {k \in Key : shown[k].problem # "absent"} \ task[t].listed

HandleListing(t) ==
  /\ Refreshing(t) /\ task[t].stage = "listed"
  /\ shown' = [k \in Key |-> IF k \in Cleared(t) THEN Absent ELSE shown[k]]
  /\ held' = [k \in Key |-> IF k \in Cleared(t) THEN Gone ELSE held[k]]
  /\ dirty' = (dirty \/ Marks(Cleared(t)))
  /\ task' = [task EXCEPT ![t] =
       IF task[t].listed = {} THEN [Listing(task[t].kind) EXCEPT !.stage = "root"]
                              ELSE Reading(task[t].kind, task[t].listed)]
  /\ UNCHANGED <<stored, changes, failures, up, watching, saving, disk, seen,
                 touched, muddled, unsaved>>

\* The root has been listed too: there is nothing to read, only to persist.
HandleRoot(t) ==
  /\ Refreshing(t) /\ task[t].stage = "root"
  /\ Len(saving) < MaxSaves
  /\ Finish(t)
  /\ UNCHANGED held
  /\ Persist(dirty)
  /\ UNCHANGED <<stored, changes, failures, up, shown, disk, seen, touched, muddled,
                 unsaved>>

-------------------------------------------------------------------------------
(* The database, which keeps the snapshots in the order it was given them.   *)

Save ==
  /\ saving # <<>>
  /\ disk' = Head(saving)
  /\ saving' = Tail(saving)
  /\ UNCHANGED <<stored, changes, failures, up, watching, shown, held, dirty, seen,
                 touched, task, muddled, unsaved>>

\* Swallowed, and not tried again: `dirty` was taken down already.
FailSave ==
  /\ saving # <<>>
  /\ Fail
  /\ saving' = Tail(saving)
  /\ unsaved' = TRUE
  /\ UNCHANGED <<stored, changes, up, watching, shown, held, dirty, disk, seen, touched, task,
                 muddled>>

-------------------------------------------------------------------------------
(* The page goes away and the source is opened again.                        *)

Close ==
  /\ up
  /\ up' = FALSE
  /\ watching' = FALSE
  /\ shown' = [k \in Key |-> Absent]
  /\ held' = [k \in Key |-> Gone]
  /\ dirty' = FALSE
  /\ saving' = <<>>
  /\ seen' = [k \in Key |-> FALSE]
  /\ touched' = [k \in Key |-> FALSE]
  /\ task' = [t \in Task |-> Idle]
  /\ muddled' = FALSE
  /\ unsaved' = FALSE
  /\ UNCHANGED <<stored, changes, failures, disk>>

\* What was held is shown before the source is asked anything.
Seed(snapshot) ==
  /\ held' = snapshot
  /\ shown' = [k \in Key |-> IF snapshot[k] = Gone THEN Absent
                             ELSE Recorded(Absent, snapshot[k])]

Open(t) ==
  /\ ~up
  /\ up' = TRUE
  /\ \/ Seed(disk) /\ UNCHANGED <<failures, unsaved>>
     \/ Fail /\ Seed([k \in Key |-> Gone]) /\ unsaved' = TRUE
  /\ task' = [task EXCEPT ![t] = Listing("open")]
  /\ UNCHANGED <<stored, changes, watching, dirty, saving, disk, seen, touched,
                 muddled>>

-------------------------------------------------------------------------------
Agent == \E k \in Key : AgentRemoves(k) \/ \E text \in Text : AgentWrites(k, text)

Ask(t) ==
  \/ WatchRound(t) \/ StartRefresh(t)
  \/ \E k \in Key : StartLoad(t, k) \/ StartClear(t, k)

Answer(t) ==
  \/ AnswerListing(t)
  \/ \E k \in task[t].asked : AnswerRead(t, k) \/ AnswerClear(t, k)

Refuse(t) ==
  \/ FailListing(t)
  \/ \E k \in task[t].asked : FailRead(t, k) \/ FailClear(t, k)

Handle(t) ==
  \/ HandleListing(t) \/ HandleRoot(t)
  \/ \E k \in Key : HandleGone(t, k) \/ HandleFailure(t, k)
                     \/ \E text \in Text : HandleText(t, k, text)

Next ==
  \/ Agent
  \/ \E t \in Task : Ask(t) \/ Answer(t) \/ Refuse(t) \/ Handle(t) \/ Open(t)
  \/ Save \/ FailSave \/ Close

Spec == Init /\ [][Next]_vars

(***************************************************************************)
(* Fairness.  Requests are answered, answers are handled, the database     *)
(* keeps what it is given.  The two timers of a page that came through its *)
(* opening come round: strongly, because in the model they wait for a free *)
(* task, a bound the page does not have.                                   *)
(***************************************************************************)
Fairness ==
  /\ WF_vars(Save)
  /\ SF_vars(\E t \in Task : WatchRound(t))
  /\ SF_vars(\E t \in Task : watching /\ StartRefresh(t))
  /\ \A t \in Task : WF_vars(Answer(t)) /\ WF_vars(Handle(t))

FairSpec == Spec /\ Fairness

-------------------------------------------------------------------------------
(* Properties.                                                               *)

\* Every variable stays in its type.
TypeOK ==
  /\ stored \in Snapshot
  /\ changes \in Nat
  /\ failures \in Nat
  /\ up \in BOOLEAN
  /\ watching \in BOOLEAN
  /\ shown \in [Key -> Entry]
  /\ held \in Snapshot
  /\ dirty \in BOOLEAN
  /\ saving \in Seq(Snapshot)
  /\ disk \in Snapshot
  /\ seen \in [Key -> BOOLEAN]
  /\ touched \in [Key -> BOOLEAN]
  /\ task \in [Task -> Running]
  /\ muddled \in BOOLEAN
  /\ unsaved \in BOOLEAN

Agrees(k) ==
  IF stored[k] = Gone THEN shown[k].problem = "absent"
  ELSE IF stored[k] \in Broken THEN shown[k].problem = "unparsed"
  ELSE shown[k] = [draft |-> stored[k], problem |-> "none"]

\* When nothing is under way and the watch has nothing to report, what is shown
\* is what the source holds, unless since the last refresh that began alone tasks
\* overlapped, something failed, or a file came and went between two watch rounds
\* (loadAll, Adapter.poll): one undisturbed refresh mends whatever those left.
QuietMeansCurrent == up /\ AllIdle /\ Moved = {} /\ ~muddled => \A k \in Key : Agrees(k)

\* The last snapshot given to the database is exactly the texts of the last good
\* reads, whenever none is owed and none was lost (_hold, _drop, _persist): so a
\* cleared draft cannot come back from it, nor a read one be missing.
Newest == IF saving = <<>> THEN disk ELSE saving[Len(saving)]

SnapshotKept == up /\ ~dirty /\ ~unsaved => Newest = held

\* The snapshot and the projection never tell different stories of one draft,
\* whichever of load, clear, the watch, the refresh and the restore ran last: an
\* entry without a fault shows the text that is held, one that did not parse
\* holds the text that did not, and what is forgotten is out of both.
HeldMatchesShown ==
  \A k \in Key :
    /\ shown[k].problem = "none" => held[k] = shown[k].draft /\ held[k] \in Text \ Broken
    /\ shown[k].problem = "unparsed" => held[k] \in Broken
    /\ shown[k].problem = "absent" => held[k] = Gone /\ shown[k].draft = Gone

\* A snapshot that is owed is owed by something under way, or by a refresh that
\* was refused its second listing, which the next refresh makes good.
OwedWhileIdle == up /\ AllIdle /\ ~muddled => ~dirty

\* restore() in drafts.js: an unreachable source costs "fresh fetches and
\* posting, never reading".  A text that is held and parses can be read.
HeldIsReadable == \A k \in Key : held[k] \in Text \ Broken => shown[k].draft # Gone

\* However reads, listings and clears overlap and fail, the page that stays open
\* and came through its opening (_openSource) comes to show what the source holds, once that stops moving.
QueueCatchesUp == <>[]watching => \A k \in Key : <>[]Agrees(k)

\* ... and so does the snapshot the next opening starts from, unless the database
\* lost one.
SnapshotCatchesUp == <>[]watching => \A k \in Key : <>[](unsaved \/ disk[k] = stored[k])
===============================================================================
