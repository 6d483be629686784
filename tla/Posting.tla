------------------------------- MODULE Posting -------------------------------
(* One drafted pull request or issue between the reader's press and GitHub:  *)
(* the confirmation sheet, the sends it starts, what each leaves on GitHub   *)
(* and in the log, and the same item dismissed, restored, redrafted and      *)
(* cleared meanwhile. A page may be closed at any point, a write to its      *)
(* database may fail, and GitHub may refuse a call or answer it into a dead  *)
(* connection.                                                               *)
EXTENDS Naturals, Sequences, FiniteSets

CONSTANTS
  MaxDrafts,    \* drafts the agent writes, of a pull request and of an issue
  MaxEvents,    \* decisions the log holds
  MaxPresses,   \* presses of the two send buttons
  MaxFaults,    \* crashes, failed writes, refusals and lost answers
  Stagings,     \* what a draft of an issue may propose beside its body
  MaxMoves      \* changes of the ticket's body by other people

Kind == {"pull", "issue"}

Bounds ==
  /\ MaxDrafts \in [Kind -> Nat \ {0}]
  /\ {MaxEvents, MaxPresses, MaxFaults, MaxMoves} \subseteq Nat
  /\ Stagings \subseteq SUBSET {"labels", "comment", "close"}

VARIABLES
  kind,      \* "pull" or "issue"
  staged,    \* which of labels, comment and close the draft of an issue proposes
  draft,     \* the stamp of the draft the app holds; 0 when there is none
  drafts,    \* how many the agent has written
  log,       \* the decisions in memory, each with what became of its write
  sheet,     \* the confirmation sheet
  sends,     \* the sends under way
  read,      \* the version of the ticket's body the pane was drawn from
  hub,       \* what GitHub holds
  moves,     \* how often other people changed the ticket
  faults, presses,
  shown,     \* the versions of the ticket the reader was shown (history)
  answered,  \* the drafts the reader has decided about (history)
  excused    \* reasons for which an item may go out once more (history)

fixed == <<kind, staged>>
agent == <<draft, drafts>>
github == <<read, hub, moves>>
history == <<shown, answered, excused>>
vars == <<fixed, agent, log, sheet, sends, github, faults, presses, history>>

-----------------------------------------------------------------------------
(* The decisions, each the last of its kind in the log.                      *)

NoStamp == 0     \* a dismissal from before dismissals recorded what they saw

Acts == {"post", "redraft", "dismiss", "restore", "dropClose", "restoreClose", "sentAlone"}

Event == [act : Acts, seen : 0..MaxDrafts[kind], disk : {"owed", "kept", "lost"}]

Latest(events, acts) ==
  LET at == {n \in DOMAIN events : events[n].act \in acts}
  IN  IF at = {} THEN 0 ELSE CHOOSE n \in at : \A m \in at : m <= n

Says(events, act, undo) ==
  LET n == Latest(events, {act, undo}) IN n > 0 /\ events[n].act = act

\* A restore gives both back; asking for a new draft forgets the post alone.
Posted == Says(log, "post", "redraft")

\* Mutant: a dismissal answers every draft there will be.
AnyDraft(seen) == TRUE

\* Whether a draft is the one a dismissal answered. A legacy dismissal compares
\* times instead: the first draft is the one written before it.
SameDraft(seen) == IF seen = NoStamp THEN draft = 1 ELSE draft = seen

Dismissed ==
  /\ Says(log, "dismiss", "restore")
  /\ \/ Posted
     \/ SameDraft(log[Latest(log, {"dismiss"})].seen)

CloseDropped == Says(log, "dropClose", "restoreClose")

\* The one comment the reader opted in goes with the review unless it already
\* went on its own.
\* Mutant: it goes again.
CarriedAgain == TRUE
Carried == ~ \E n \in DOMAIN log : log[n].act = "sentAlone"

-----------------------------------------------------------------------------
(* The log: applied at once, written later, each write on its own.           *)

Entry(act, seen) == [act |-> act, seen |-> seen, disk |-> "owed"]

Settled == \A n \in DOMAIN log : log[n].disk # "owed"

Keep == \E n \in DOMAIN log :
  /\ log[n].disk = "owed"
  /\ log' = [log EXCEPT ![n].disk = "kept"]
  /\ UNCHANGED <<fixed, agent, sheet, sends, github, history, faults, presses>>

\* Nothing is told of a failed write: settled() waits for it and goes on.
LoseWrite == \E n \in DOMAIN log :
  /\ log[n].disk = "owed" /\ faults < MaxFaults
  /\ log' = [log EXCEPT ![n].disk = "lost"]
  /\ faults' = faults + 1
  /\ UNCHANGED <<fixed, agent, sheet, sends, github, history, presses>>

-----------------------------------------------------------------------------
(* What is under way. A review is one request, a triage a chain of them, and *)
(* a comment sent on its own one request too.                                *)

Chain == <<"labels", "patch", "comment", "close">>

Links == {"labels", "patch", "comment", "close"}
Step == {"check", "review", "alone", "landed", "refused", "recorded"} \cup Links

Body == 0..(MaxMoves + 1)
Proposed == MaxMoves + 1     \* what the agent proposes; people's versions come before it

Send == [id : 1..MaxPresses, what : {"review", "triage", "alone"}, step : Step, seen : 0..MaxDrafts[kind],
         base : Body, fresh : Body, carries : BOOLEAN]

\* Which links of the chain a triage takes, asked when it gets there, so a
\* close dropped while the comment is on its way stays out.
Applies(step, s) ==
  CASE step = "patch" -> s.base # Proposed
    [] step = "close" -> "close" \in staged /\ ~CloseDropped
    [] OTHER          -> step \in staged

After(done, s) ==
  LET left == {n \in DOMAIN Chain : n > done /\ Applies(Chain[n], s)}
  IN  IF left = {} THEN "landed" ELSE Chain[CHOOSE n \in left : \A m \in left : n <= m]

Following(s) ==
  IF s.what = "triage" THEN After(CHOOSE n \in DOMAIN Chain : Chain[n] = s.step, s) ELSE "landed"

\* Labels, a body and a close sent again change nothing: a review is counted,
\* and a comment.
Counted == kind = "pull" \/ "comment" \in staged
Excuse(n) == excused' = excused + (IF Counted THEN n ELSE 0)

Move(s, t) == sends' = (sends \ {s}) \cup {t}
To(s, step) == Move(s, [s EXCEPT !.step = step])

Unrecorded == {s \in sends : s.step # "recorded"}

\* A decision leaves the log room for the two every send will record.
Room(n) == Len(log) + n + 2 * Cardinality(Unrecorded) <= MaxEvents

Init ==
  /\ kind \in Kind
  /\ staged \in IF kind = "pull" THEN {{}} ELSE Stagings
  /\ draft = 1 /\ drafts = 1
  /\ log \in {<<>>} \cup IF kind = "pull" THEN {<<[act |-> "dismiss", seen |-> NoStamp, disk |-> "kept"]>>} ELSE {}
  /\ sheet = "closed" /\ sends = {} /\ read = 0
  /\ hub = [reviews |-> 0, copies |-> 0, labelled |-> FALSE, body |-> 0, said |-> 0, closed |-> FALSE]
  /\ faults = 0 /\ presses = 0 /\ moves = 0
  /\ shown = {0} /\ answered = {1} /\ excused = 0

-----------------------------------------------------------------------------
(* The sheet and the presses.                                                *)

\* The screen says posted once the redraw of the send that posted came, after
\* the log's writes; the redraw of a comment sent alone is not waited for.
ShownPosted == Posted /\ ~ \E s \in sends : s.step = "recorded" /\ s.what # "alone"

\* The footer's button: a draft, and no review already sent for it.
Offered == draft # 0 /\ ~ShownPosted /\ (Dismissed => Posted)

OpenSheet ==
  /\ sheet = "closed" /\ Offered
  /\ sheet' = "open"
  /\ UNCHANGED <<fixed, agent, log, sends, github, history, faults, presses>>

\* Cancel, or the backdrop, which stays a way out while a send is running.
CloseSheet ==
  /\ sheet # "closed"
  /\ sheet' = "closed"
  /\ UNCHANGED <<fixed, agent, log, sends, github, history, faults, presses>>

New(what, step) ==
  [id |-> presses + 1, what |-> what, step |-> step, seen |-> draft, base |-> read, fresh |-> read,
   carries |-> what # "triage" /\ Carried]

\* What a press sends was already on its way, and nothing holds the press back.
Repeats(s) == Cardinality({t \in sends : t.what = s.what \/ (t.carries /\ s.carries)})

Press(s) ==
  /\ presses < MaxPresses /\ Room(2)
  /\ presses' = presses + 1
  /\ sends' = sends \cup {s}
  /\ answered' = answered \cup {draft}
  /\ Excuse(Repeats(s))

PressPost ==
  /\ sheet = "open" /\ draft # 0
  /\ sheet' = "sending"
  /\ \/ kind = "pull" /\ Press(New("review", "review"))
     \/ kind = "issue" /\ read # Proposed /\ Press(New("triage", "check"))
     \/ kind = "issue" /\ read = Proposed /\ Press(New("triage", After(0, New("triage", "check"))))
  /\ UNCHANGED <<fixed, agent, log, github, shown, faults>>

\* One finding's own button, there while the finding has not gone.
PressAlone ==
  /\ kind = "pull" /\ draft # 0 /\ Carried /\ ~ShownPosted /\ sheet = "closed"
  /\ Press(New("alone", "alone"))
  /\ UNCHANGED <<fixed, agent, log, sheet, github, shown, faults>>

-----------------------------------------------------------------------------
(* What a send does, call by call.                                           *)

\* The sheet's button is given back when a send fails, and only then.
\* Mutant: it is not.
NotGivenBack == sheet
GivenBack == IF sheet = "sending" THEN "open" ELSE sheet

\* The ticket is fetched again at the last moment, and compared with the one
\* the pane shows by then.
\* Mutant: whatever it says.
NeverMoved(fresh) == FALSE
Moved(fresh) == fresh # read

CheckTicket == \E s \in sends :
  /\ s.step = "check"
  /\ LET t == [s EXCEPT !.fresh = hub.body]
     IN  \/ /\ Moved(hub.body)
            /\ read' = hub.body /\ shown' = shown \cup {hub.body}
            /\ sheet' = "closed"
            /\ sends' = sends \ {s}
         \/ /\ ~Moved(hub.body)
            /\ Move(s, [t EXCEPT !.step = After(0, t)])
            /\ UNCHANGED <<read, shown, sheet>>
  /\ UNCHANGED <<fixed, agent, log, hub, moves, answered, excused, faults, presses>>

Calls == {"review", "alone"} \cup Links

Effect(s) ==
  CASE s.step = "review"  -> [hub EXCEPT !.reviews = @ + 1, !.copies = @ + (IF s.carries THEN 1 ELSE 0)]
    [] s.step = "alone"   -> [hub EXCEPT !.copies = @ + 1]
    [] s.step = "labels"  -> [hub EXCEPT !.labelled = TRUE]
    [] s.step = "patch"   -> [hub EXCEPT !.body = Proposed]
    [] s.step = "comment" -> [hub EXCEPT !.said = @ + 1]
    [] s.step = "close"   -> [hub EXCEPT !.closed = TRUE]

Land == \E s \in sends :
  /\ s.step \in Calls
  /\ hub' = Effect(s)
  /\ To(s, Following(s))
  /\ UNCHANGED <<fixed, agent, log, sheet, read, moves, history, faults, presses>>

\* GitHub did it, and the connection died before the answer.
LandUnheard == \E s \in sends :
  /\ s.step \in Calls /\ faults < MaxFaults
  /\ faults' = faults + 1
  /\ hub' = Effect(s)
  /\ To(s, "refused")
  /\ Excuse(IF s.step \in {"labels", "patch"} THEN 0 ELSE 1)
  /\ UNCHANGED <<fixed, agent, log, sheet, read, moves, shown, answered, presses>>

\* A close is refused with the comment on the ticket, and the retry repeats it.
Refuse == \E s \in sends :
  /\ s.step \in Calls \cup {"check"} /\ faults < MaxFaults
  /\ faults' = faults + 1
  /\ To(s, "refused")
  /\ Excuse(IF s.step = "close" THEN 1 ELSE 0)
  /\ UNCHANGED <<fixed, agent, log, sheet, github, shown, answered, presses>>

Fail == \E s \in sends :
  /\ s.step = "refused"
  /\ sends' = sends \ {s}
  /\ sheet' = IF s.what = "alone" THEN sheet ELSE GivenBack
  /\ UNCHANGED <<fixed, agent, log, github, history, faults, presses>>

\* Recorded against the draft that was on screen when the send began.
Recording(s) ==
  IF s.what = "alone" THEN <<Entry("sentAlone", s.seen)>>
  ELSE <<Entry("post", s.seen), Entry("dismiss", s.seen)>>

Record == \E s \in sends :
  /\ s.step = "landed"
  /\ log' = log \o Recording(s)
  /\ To(s, "recorded")
  /\ UNCHANGED <<fixed, agent, sheet, github, history, faults, presses>>

\* Nothing says it went before the log's writes have ended, well or badly.
Finish == \E s \in sends :
  /\ s.step = "recorded" /\ Settled
  /\ sends' = sends \ {s}
  /\ sheet' = IF s.what = "alone" THEN sheet ELSE "closed"
  /\ UNCHANGED <<fixed, agent, log, github, history, faults, presses>>

-----------------------------------------------------------------------------
(* The reader's other decisions.                                             *)

Dismiss ==
  /\ draft # 0 /\ sheet = "closed" /\ ~Dismissed /\ Room(1)
  /\ log' = Append(log, Entry("dismiss", draft))
  /\ answered' = answered \cup {draft}
  /\ UNCHANGED <<fixed, agent, sheet, sends, github, shown, excused, faults, presses>>

Restore ==
  /\ draft # 0 /\ Dismissed /\ Room(2)
  /\ log' = log \o <<Entry("restore", draft), Entry("redraft", draft)>>
  /\ Excuse(IF Posted THEN 1 ELSE 0)
  /\ UNCHANGED <<fixed, agent, sheet, sends, github, shown, answered, faults, presses>>

ClearDraft ==
  /\ draft # 0 /\ sheet = "closed" /\ Room(1)
  /\ draft' = 0
  /\ log' = IF Posted THEN Append(log, Entry("redraft", draft)) ELSE log
  /\ Excuse(IF Posted THEN 1 ELSE 0)
  /\ UNCHANGED <<fixed, drafts, sheet, sends, github, shown, answered, faults, presses>>

ToggleClose ==
  /\ kind = "issue" /\ "close" \in staged /\ sheet = "open" /\ Room(1)
  /\ log' = Append(log, Entry(IF CloseDropped THEN "restoreClose" ELSE "dropClose", draft))
  /\ UNCHANGED <<fixed, agent, sheet, sends, github, history, faults, presses>>

\* Opening the issue again fetches its body.
Reopen ==
  /\ kind = "issue" /\ sheet = "closed" /\ read # hub.body
  /\ read' = hub.body /\ shown' = shown \cup {hub.body}
  /\ UNCHANGED <<fixed, agent, log, sheet, sends, hub, moves, answered, excused, faults, presses>>

-----------------------------------------------------------------------------
(* Everything that is not this page.                                         *)

Redraft ==
  /\ drafts < MaxDrafts[kind]
  /\ drafts' = drafts + 1 /\ draft' = drafts + 1
  /\ UNCHANGED <<fixed, log, sheet, sends, github, history, faults, presses>>

MoveTicket ==
  /\ kind = "issue" /\ moves < MaxMoves /\ hub.body # Proposed
  /\ moves' = moves + 1
  /\ hub' = [hub EXCEPT !.body = moves + 1]
  /\ UNCHANGED <<fixed, agent, log, sheet, sends, read, history, faults, presses>>

\* Another of the reader's devices posts; its decisions are absorbed here. A
\* sheet that stands open over it does not look again.
PeerPosts ==
  /\ kind = "pull" /\ draft # 0 /\ ~Posted /\ ~Dismissed /\ Room(2) /\ presses < MaxPresses
  /\ presses' = presses + 1
  /\ hub' = [hub EXCEPT !.reviews = @ + 1]
  /\ log' = log \o <<[Entry("post", draft) EXCEPT !.disk = "kept"], [Entry("dismiss", draft) EXCEPT !.disk = "kept"]>>
  /\ answered' = answered \cup {draft}
  /\ Excuse(IF sheet = "closed" THEN 1 ELSE 2)
  /\ UNCHANGED <<fixed, agent, sheet, sends, read, moves, shown, faults>>

Kept == {n \in DOMAIN log : log[n].disk = "kept"}

\* The page goes away: what was not written is forgotten, and so is every send
\* that landed, or said why a close was to follow, without being written down.
Crash ==
  /\ faults < MaxFaults
  /\ faults' = faults + 1
  /\ \E at \in [1..Cardinality(Kept) -> Kept] :
       /\ \A i, j \in DOMAIN at : i < j => at[i] < at[j]
       /\ log' = [i \in DOMAIN at |-> log[at[i]]]
  /\ sends' = {} /\ sheet' = "closed"
  /\ read' = hub.body /\ shown' = shown \cup {hub.body}
  /\ Excuse(Cardinality({s \in sends : s.step \in {"landed", "close"}})
            + Cardinality({n \in DOMAIN log \ Kept : log[n].act \in {"post", "sentAlone"}}))
  /\ UNCHANGED <<fixed, agent, hub, moves, answered, presses>>

\* What the page, GitHub and the database do on their own.
Work == Keep \/ CheckTicket \/ Land \/ Fail \/ Record \/ Finish

Next ==
  \/ Work \/ LoseWrite \/ LandUnheard \/ Refuse
  \/ OpenSheet \/ CloseSheet \/ PressPost \/ PressAlone
  \/ Dismiss \/ Restore \/ ClearDraft \/ ToggleClose \/ Reopen
  \/ Redraft \/ MoveTicket \/ PeerPosts \/ Crash

Spec == Init /\ [][Next]_vars

\* The page runs, and GitHub and the database answer every request they were
\* given, one way or the other. Nothing is assumed of the reader or the agent.
FairSpec == Spec /\ WF_vars(Work)

-----------------------------------------------------------------------------
(* What must hold.                                                           *)

TypeOK ==
  /\ kind \in Kind /\ staged \in SUBSET {"labels", "comment", "close"}
  /\ draft \in 0..MaxDrafts[kind] /\ drafts \in 1..MaxDrafts[kind]
  /\ log \in Seq(Event)
  /\ sheet \in {"closed", "open", "sending"}
  /\ sends \subseteq Send
  /\ read \in Body /\ moves \in 0..MaxMoves
  /\ hub \in [reviews : Nat, copies : Nat, labelled : BOOLEAN, body : Body, said : Nat, closed : BOOLEAN]
  /\ faults \in 0..MaxFaults /\ presses \in 0..MaxPresses
  /\ shown \subseteq Body /\ answered \subseteq 1..MaxDrafts[kind] /\ excused \in Nat

\* Nothing goes to GitHub twice without a reason the code leaves to the reader
\* or to the machine: a new draft asked for, a press while the first was still
\* on its way, an answer that was lost, a close that failed after the comment
\* had gone, a record the database never took, or another device. Every other
\* way through the sheet, its retries, the single comment's button, restores and
\* reloads sends a review, and a triage's comment, once (app.js, "the reader
\* posts it twice"; confirm.js postTriage).
SendsExplained == hub.reviews <= 1 + excused /\ hub.copies <= 1 + excused /\ hub.said <= 1 + excused

\* A draft the reader never decided about is on the queue, unless a review has
\* been posted: no redraft, reload, lost write or send recorded late hides one
\* (Queries._dismissal and the stamp every dismissal records).
UnseenReachesReader == draft # 0 /\ Dismissed /\ ~Posted => draft \in answered

\* An issue is not closed on its reporter before the comment that says why is
\* on it, whatever fails and is tried again (confirm.js postTriage).
ClosedWithReason == hub.closed /\ "comment" \in staged => hub.said > 0

\* A triage is recorded as posted only when everything it staged is on the
\* issue, over any number of attempts (confirm.js, "Nothing is recorded until
\* everything staged has landed").
RecordedMeansLanded ==
  kind = "issue" /\ (\E n \in DOMAIN log : log[n].act = "post") =>
    /\ hub.body = Proposed
    /\ "labels" \in staged => hub.labelled
    /\ "comment" \in staged => hub.said > 0

Overwrites(s) == s.step = "patch" /\ s \notin sends' /\ hub'.body # hub.body

\* The rewrite replaces a body the reader was shown, or one that changed after
\* the last look and before the write: never one that had already moved when
\* the ticket was fetched again (confirm.js postTriage's guard).
OverwritesWhatWasRead == \A s \in sends : Overwrites(s) => hub.body \in shown \/ hub.body # s.fresh
NothingUnreadOverwritten == [][OverwritesWhatWasRead]_vars

\* A press comes to an end: the sheet is closed, or its button given back.
Sending == sheet = "sending"
PressResolves == Sending ~> ~Sending
===============================================================================
