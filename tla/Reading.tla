-------------------------------- MODULE Reading --------------------------------
(* What is on the screen: the queue and its history, the rail's rows, and    *)
(* the pane, which is either a review or the reason there is none. A redraw  *)
(* is whole; it comes at once, or after the log has kept what was decided.   *)
EXTENDS Naturals, FiniteSets

CONSTANTS
  Pull,
  MaxDrafts,     \* drafts of a pull request that the agent writes, one after another
  MaxTurns       \* switches of source and destination, and outages of the source

VARIABLES
  app,           \* what is being looked at, and what it is read and posted through
  drafts,        \* the projection
  marks,         \* what the log has about each pull request
  flagged,       \* only what carries a finding is listed
  written, turns,
  closed,        \* an item was closed under another pane than the summary (history)
  moved          \* the open draft was replaced or went while it was read (history)

vars == <<app, drafts, marks, flagged, written, turns, closed, moved>>

None == "none"

Bounds == {MaxDrafts, MaxTurns} \subseteq Nat /\ MaxDrafts > 0 /\ None \notin Pull

\* A full draft has a description, a scenario, a lens with a finding on "f", and
\* a lens that ran clean. A bare one has none of these, as one not finished here.
Written(done, full, stamp) == [is |-> "held", done |-> done, full |-> full, stamp |-> stamp]
Kind == {<<FALSE, FALSE>>, <<TRUE, FALSE>>, <<TRUE, TRUE>>}
NoDraft(why) == [is |-> why, done |-> FALSE, full |-> FALSE, stamp |-> 0]
Held(p) == drafts[p].is = "held"
Full(p) == Held(p) /\ drafts[p].full
HoldsNothing == \A p \in Pull : ~Held(p)
Path == {"f", "g"}

Unmarked == [dismissed |-> FALSE, seen |-> 0, posted |-> FALSE]

-----------------------------------------------------------------------------
(* The queries.                                                              *)

\* A dismissal answers the draft it saw; posting answers for good.
Dismissal(p) ==
  marks[p].dismissed /\ (marks[p].posted \/ ~Held(p) \/ marks[p].seen = drafts[p].stamp)

Here(pulls) == IF app.source = "here" THEN pulls ELSE {}

Waiting == {p \in Pull : Held(p) /\ ~Dismissal(p)}
queue == Here(Waiting)
ready == {p \in Waiting : drafts[p].done}

\* What was taken off, whether or not its draft is held. That the list ends
\* after a week is left out.
dismissed == Here({[pull |-> p, restorable |-> Held(p)] : p \in {q \in Pull : Dismissal(q)}})

\* The reading mode is the source's, and only a draft's files are trimmed by it.
onlyFlagged == flagged /\ app.source = "here"

-----------------------------------------------------------------------------
(* The screen.                                                               *)

\* The findings a filter leaves: the one finding there is, in one lens, of one
\* theme, on one file.
Matches(filter) == Full(app.selected) /\ filter \in {None, "lens", "theme", "f"}

Row(tab, filter) == [tab |-> tab, filter |-> filter]

Hidden(filter) == onlyFlagged /\ ~Matches(filter) /\ app.filter # filter

Sections ==
  IF ~Full(app.selected) THEN {}
  ELSE {Row("summary", lens) : lens \in {l \in {"lens", "clean"} : ~Hidden(l)}}
         \cup {Row("description", None), Row("qa", None)}

Kinds == IF Full(app.selected) THEN {Row("summary", "theme")} ELSE {}

Files == {Row("diff", f) : f \in {f \in app.files : ~(Held(app.selected) /\ Hidden(f))}}

Rail == IF app.selected = None THEN {} ELSE {Row("summary", None)} \cup Sections \cup Kinds \cup Files

\* Everything that is hidden is said to be, with the way out.
Hint == app.selected # None /\ app.files # {} /\ Files = {}

\* Whichever nothing is true.
blankState ==
  IF app.source = None THEN "no source"
  ELSE IF (app.destination = "refused" \/ app.problem) /\ queue = {} THEN "source unreadable"
  ELSE IF app.destination # "open" THEN "no destination"
  ELSE IF app.selected = None THEN IF queue = {} THEN "nothing waiting" ELSE "nothing open"
  ELSE IF drafts[app.selected].is = "unread" THEN "draft unread"
  ELSE IF ~Held(app.selected) THEN "not started"
  ELSE "review"

\* A review is its summary, or under a filter what was written about that and
\* its cards. Nothing is written about the clean lens.
Summary ==
  IF blankState = "review" /\ app.filter # None /\ ~Matches(app.filter) THEN "nothing"
  ELSE blankState

Diff ==
  IF app.selected = None THEN "nothing"
  ELSE IF app.refused THEN "diff refused"
  ELSE IF app.files = {} \/ app.filter \in Path \ app.files THEN "nothing"
  ELSE "diff"

\* The two texts, or that the ticket's own did not come.
Description == IF app.selected # None /\ Full(app.selected) THEN "description" ELSE "nothing"

Qa == IF app.selected # None /\ Full(app.selected) THEN "evidence" ELSE "nothing"

Pane ==
  CASE app.tab = "summary" -> Summary
    [] app.tab = "diff" -> Diff
    [] app.tab = "description" -> Description
    [] OTHER -> Qa

\* The board's columns, of the queue and the history together.
Column(p) ==
  IF marks[p].posted THEN "posted"
  ELSE IF Dismissal(p) THEN "dismissed"
  ELSE IF drafts[p].done THEN "ready" ELSE "drafting"

\* A queue row's own word.
Word(p) == IF marks[p].posted THEN "posted" ELSE IF drafts[p].done THEN "ready" ELSE "drafting"

\* What the reader has to press.
QueueRows == {<<p, Word(p)>> : p \in queue}
Board == {<<p, Column(p)>> : p \in queue \cup {entry.pull : entry \in dismissed}}

\* What a destination answers about an item's files: all, not the one a finding
\* is on, or a refusal.
NoFiles(refused) == [files |-> {}, refused |-> refused]
Answer == {[files |-> files, refused |-> FALSE] : files \in {{"g"}, Path}} \cup {NoFiles(TRUE)}

\* Another item: nothing of the last one stays.
Opened(a, p) ==
  {[a EXCEPT !.selected = p, !.files = answer.files, !.refused = answer.refused,
             !.filter = None, !.tab = "summary"] :
     answer \in IF a.destination = "open" THEN Answer ELSE {NoFiles(FALSE)}}

\* A redraw is whole, and ends by opening the first finished review, once, over
\* nothing. What is drawn follows from the rest of the state.
Redraw(a) ==
  \/ ~a.opened /\ a.selected = None /\ a.source = "here"
       /\ \E p \in ready' : \E b \in Opened(a, p) : app' = [b EXCEPT !.opened = TRUE]
  \/ (a.opened \/ a.selected # None \/ a.source # "here" \/ ready' = {}) /\ app' = a

-----------------------------------------------------------------------------
Start(source, destination, problem) ==
  [source |-> source, destination |-> destination, problem |-> problem, selected |-> None,
   tab |-> "summary", filter |-> None, files |-> {}, refused |-> FALSE, opened |-> FALSE]

Init ==
  /\ drafts \in [Pull -> {NoDraft(None)} \cup {Written(kind[1], kind[2], 1) : kind \in Kind}]
  /\ marks = [p \in Pull |-> Unmarked] /\ flagged = FALSE
  /\ \E source \in {"here", None}, destination \in {"open", "refused", "none"}, problem \in BOOLEAN :
       /\ problem => source = "here" /\ HoldsNothing
       /\ app = Start(source, destination, problem)
  /\ written = 1 /\ turns = 0 /\ closed = FALSE /\ moved = FALSE

log == <<marks, flagged>>
outside == <<drafts, written, turns>>
excuses == <<closed, moved>>

-----------------------------------------------------------------------------
(* Looking.                                                                  *)

Open(p) ==
  /\ UNCHANGED <<log, outside>>
  /\ closed' = FALSE /\ moved' = FALSE
  /\ \E a \in Opened(app, p) : Redraw(a)

PressRow == \E row \in QueueRows : Open(row[1])

\* A card of the board, which may be one that was taken off.
Choose == \E card \in Board : Open(card[1])

\* The first finished review on the way in.
Arrive ==
  /\ UNCHANGED <<log, outside, excuses>>
  /\ app.selected = None /\ Redraw(app)

Picks(filter) == IF filter = app.filter THEN None ELSE filter

Show ==
  /\ UNCHANGED <<log, outside, closed>> /\ moved' = FALSE
  /\ \E row \in Rail : Redraw([app EXCEPT !.tab = row.tab, !.filter = Picks(row.filter)])

\* From a card to its lines.
OpenInDiff ==
  /\ Pane = "review" /\ Matches(app.filter)
  /\ UNCHANGED <<log, outside, excuses>>
  /\ Redraw([app EXCEPT !.tab = "diff", !.filter = "f"])

\* The switch is with the draft's files.
ToggleFlagged ==
  /\ app.selected # None /\ Held(app.selected)
  /\ flagged' = ~flagged
  /\ UNCHANGED <<marks, outside, excuses>>
  /\ Redraw(app)

-----------------------------------------------------------------------------
(* Deciding.                                                                 *)

Dismisses(p) == [marks EXCEPT ![p].dismissed = TRUE, ![p].seen = drafts[p].stamp]

\* The log has it: the item is closed.
Dismiss ==
  /\ app.selected # None
  /\ marks' = Dismisses(app.selected)
  /\ closed' = (app.tab # "summary")
  /\ UNCHANGED <<flagged, outside, moved>>
  /\ Redraw([app EXCEPT !.selected = None])

\* A send that landed: the item stays open, posted.
Post ==
  /\ app.selected # None /\ Held(app.selected) /\ ~marks[app.selected].posted
  /\ app.destination = "open"
  /\ marks' = [Dismisses(app.selected) EXCEPT ![app.selected].posted = TRUE]
  /\ UNCHANGED <<flagged, outside, excuses>>
  /\ Redraw(app)

Restore ==
  \E entry \in {e \in dismissed : e.restorable} :
    /\ marks' = [marks EXCEPT ![entry.pull] = Unmarked]
    /\ UNCHANGED <<flagged, outside, excuses>>
    /\ Redraw(app)

\* The draft is thrown away, so that another is written.
ClearDraft ==
  /\ app.selected # None /\ Held(app.selected)
  /\ drafts' = [drafts EXCEPT ![app.selected] = NoDraft(None)]
  /\ marks' = [marks EXCEPT ![app.selected].posted = FALSE]
  /\ moved' = TRUE
  /\ UNCHANGED <<flagged, written, turns, closed>>
  /\ Redraw(app)

-----------------------------------------------------------------------------
(* What happens around the reader.                                           *)

Absorbs(p, draft) ==
  /\ drafts' = [drafts EXCEPT ![p] = draft]
  /\ moved' = (moved \/ app.selected = p)
  /\ UNCHANGED <<log, turns, closed>>
  /\ Redraw(app)

AgentWrites ==
  \E p \in Pull, kind \in Kind :
    /\ app.source = "here" /\ written < MaxDrafts /\ written' = written + 1
    /\ Absorbs(p, Written(kind[1], kind[2], written'))

\* A draft is taken from the storage, or one read of it fails.
Goes ==
  \E p \in Pull, why \in {None, "unread"} :
    /\ app.source = "here" /\ drafts[p].is # why
    /\ UNCHANGED written /\ Absorbs(p, NoDraft(why))

\* The storage does not answer: a source that holds nothing says what is wrong.
RefreshFails ==
  /\ app.source = "here" /\ HoldsNothing /\ ~app.problem
  /\ UNCHANGED <<log, outside, excuses>>
  /\ Redraw([app EXCEPT !.problem = TRUE])

\* The other source answers, and nothing is drafted in it.
SwitchSource ==
  \E source \in {"here", "away"} \ {app.source}, problem \in BOOLEAN :
    /\ turns < MaxTurns /\ turns' = turns + 1
    /\ problem => source = "here" /\ HoldsNothing
    /\ closed' = (app.tab # "summary")
    /\ UNCHANGED <<log, drafts, written, moved>>
    /\ Redraw([app EXCEPT !.source = source, !.selected = None, !.problem = problem])

Next ==
  \/ Arrive \/ PressRow \/ Choose \/ Show \/ OpenInDiff \/ ToggleFlagged
  \/ Dismiss \/ Post \/ Restore \/ ClearDraft
  \/ AgentWrites \/ Goes
  \/ RefreshFails \/ SwitchSource

-----------------------------------------------------------------------------
Marks == [dismissed : BOOLEAN, seen : 0..MaxDrafts, posted : BOOLEAN]

TypeOK ==
  /\ drafts \in [Pull -> [is : {None, "unread", "held"}, done : BOOLEAN, full : BOOLEAN, stamp : 0..MaxDrafts]]
  /\ marks \in [Pull -> Marks]
  /\ app.selected \in Pull \cup {None} /\ app.tab \in {"summary", "diff", "description", "qa"}
  /\ app.filter \in {None, "lens", "clean", "theme"} \cup Path /\ app.files \subseteq Path
  /\ {flagged, closed, moved} \subseteq BOOLEAN
  /\ written \in 1..MaxDrafts /\ turns \in 0..MaxTurns

\* The pane is never blank, unless the item was closed under another pane than
\* the summary, a redraw took what its pane shows, a lens has nothing to say,
\* or a finding is on a file the diff does not have.
NeverBlank ==
  Pane = "nothing" =>
    \/ closed /\ app.selected = None
    \/ moved /\ (app.tab \in {"description", "qa"} \/ app.filter \in {"lens", "theme"})
    \/ app.tab = "summary" /\ app.filter = "clean"
    \/ app.tab = "diff" /\ app.filter = "f" /\ "f" \notin app.files

\* A filter that is on, and still has something to filter, can be taken off
\* where it was put on.
FilterIsListed ==
  app.filter # None /\ app.selected # None /\ Full(app.selected)
    /\ (app.filter \in Path => app.filter \in app.files) =>
    \E row \in Rail : row.filter = app.filter
================================================================================
