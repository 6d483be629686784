------------------------------- MODULE Writing -------------------------------
(* The words a reader writes over a pull request or an issue: the summary's  *)
(* box and the body's, kept when they are left (web/src/app/summary.js,      *)
(* description-pane.js, wired in view.js), the sheet's own (confirm.js), and *)
(* a card half-written until Save is pressed (findings.js). All of them live *)
(* on the app, not on the item, while drafts, decisions of other devices and *)
(* the answers of earlier openings go on arriving.                           *)
EXTENDS Naturals, Sequences, FiniteSets

CONSTANTS
  Item,        \* what is on the queue
  Approved,    \* those whose verdict waits for a finished draft
  MaxDrafts,   \* drafts the agent writes of each
  MaxNews,     \* drafts begun or finished, and posts of another device
  MaxEdits,    \* boxes and cards opened
  MaxWords,    \* times something is typed
  MaxOpens     \* times an item is opened

Bounds ==
  /\ "none" \notin Item /\ Approved \subseteq Item
  /\ {MaxDrafts, MaxNews, MaxEdits, MaxWords, MaxOpens} \subseteq Nat \ {0}

VARIABLES
  selected, filtered,   \* what the pane is of, and whether through a lens
  draft, unfinished,    \* by item the draft held, and whether the agent is at it
  news,                 \* what arrived on its own so far
  posted,               \* reviews sent, from here or elsewhere
  calls, opens,         \* openings whose draft is still being read
  box,                  \* the one editor with the cursor, if any
  leaving,              \* the press that took the cursor has not been let go
  card,                 \* the half-written comment
  edits,                \* boxes and cards opened so far
  kept,                 \* what the log holds of the reader's words
  sent,                 \* by item the summary that went out
  typed,                \* what each writing was over (history)
  cut,                  \* writings given up in sight of the reader (history)
  crossed, carried, under  \* reasons words may be elsewhere (history)

app == <<selected, filtered, draft, unfinished, news, posted, calls, opens>>
history == <<typed, cut, crossed, carried, under>>
vars == <<app, box, leaving, card, edits, kept, sent, history>>

Field == {"summary", "body", "card"}

\* No words, the agent's of a draft, or the reader's of a writing.
Words == 0..(MaxDrafts + MaxWords)
Silent == 0
Typed(w) == w > MaxDrafts
Writing(n) == MaxDrafts + n
GivenUp(w) == IF Typed(w) THEN {w} ELSE {}

Box == [where : {"none", "summary", "body", "sheet"}, of : Item \cup {"none"}, words : Words]
Closed == [where |-> "none", of |-> "none", words |-> Silent]

FieldOf(where) == IF where = "body" THEN "body" ELSE "summary"

Init ==
  /\ selected = "none" /\ filtered = FALSE
  /\ draft = [i \in Item |-> 1] /\ unfinished = {} /\ news = 0 /\ posted = {} /\ calls = {} /\ opens = 0
  /\ box = Closed /\ leaving = FALSE /\ card = Closed /\ edits = 0
  /\ kept = [i \in Item |-> [f \in Field |-> Silent]] /\ sent = [i \in Item |-> Silent]
  /\ typed = <<>> /\ cut = {} /\ crossed = FALSE /\ carried = FALSE /\ under = FALSE

\* What an item says: the reader's words where there are any.
\* Mutant: the agent's, whatever was kept.
AgentsWords(item, f) == draft[item]
Says(item, f) == IF kept[item][f] = Silent THEN draft[item] ELSE kept[item][f]

-----------------------------------------------------------------------------
(* Every change redraws, and a redraw ends the summary's edit when its words *)
(* can no longer be changed.                                                 *)

\* Nothing but an approval waits for the agent to finish.
Writable(sel, fil, pst, unf) ==
  sel # "none" /\ ~fil /\ sel \notin pst /\ (sel \in unf => sel \notin Approved)

Redraw ==
  IF box.where = "summary" /\ ~Writable(selected', filtered', posted', unfinished')
  THEN /\ box' = Closed /\ cut' = cut \cup GivenUp(box.words)
  ELSE UNCHANGED <<box, cut>>

Idle == UNCHANGED <<leaving, card, edits, kept, sent, typed, crossed, carried, under>>

-----------------------------------------------------------------------------
(* What arrives on its own.                                                  *)

\* The agent starts over, or writes its draft and is done.
Redraft(i) ==
  /\ news < MaxNews /\ news' = news + 1
  /\ draft[i] < MaxDrafts \/ i \in unfinished
  /\ IF i \in unfinished THEN UNCHANGED draft /\ unfinished' = unfinished \ {i}
     ELSE draft' = [draft EXCEPT ![i] = @ + 1] /\ unfinished' = unfinished \cup {i}
  /\ UNCHANGED <<selected, filtered, posted, calls, opens>>
  /\ Redraw
  /\ under' = (under \/ box.where = "body")
  /\ UNCHANGED <<leaving, card, edits, kept, sent, typed, crossed, carried>>

\* Another device's post is taken in.
PostedElsewhere(i) ==
  /\ news < MaxNews /\ news' = news + 1
  /\ i \notin posted
  /\ posted' = posted \cup {i}
  /\ UNCHANGED <<selected, filtered, draft, unfinished, calls, opens>>
  /\ Redraw /\ Idle

\* The draft an opening asked for is in: its item is what is selected.
Loaded(i) ==
  /\ i \in calls
  /\ calls' = calls \ {i} /\ selected' = i
  /\ UNCHANGED <<filtered, draft, unfinished, news, posted, opens>>
  /\ Redraw /\ Idle

-----------------------------------------------------------------------------
(* The boxes, kept by leaving them.                                          *)

\* With no box open the reader may press anything: a press that closes one has
\* closed it before what was pressed is told.
Free == box.where = "none" /\ ~leaving

Opening == edits < MaxEdits /\ edits' = edits + 1

\* Boxes of the sheet stand over the pane.
OpenBox(where) ==
  /\ Opening /\ Free /\ selected # "none"
  /\ where = "body" => selected \notin posted
  /\ where # "body" => Writable(selected, filtered, posted, unfinished)
  /\ box' = [where |-> where, of |-> selected, words |-> Says(selected, FieldOf(where))]
  /\ UNCHANGED <<app, leaving, card, kept, sent, history>>

TypeIn ==
  /\ box.where # "none" /\ ~leaving /\ Len(typed) < MaxWords
  /\ typed' = Append(typed, <<box.of, FieldOf(box.where)>>)
  /\ box' = [box EXCEPT !.words = Writing(Len(typed'))]
  /\ UNCHANGED <<app, leaving, card, edits, kept, sent, cut, crossed, carried, under>>

\* A press elsewhere takes the cursor away; what it closes it closes when it is
\* let go. The sheet's box does not wait.
PressAway ==
  /\ box.where \in {"summary", "body"} /\ ~leaving
  /\ leaving' = TRUE
  /\ UNCHANGED <<app, box, card, edits, kept, sent, history>>

Record(i, f, w) == kept' = [kept EXCEPT ![i][f] = w]

\* The pane's boxes are recorded against whatever is selected, the sheet's
\* against the item it was opened over; a body nobody touched is not recorded.
Keep ==
  IF box.where = "none" THEN UNCHANGED kept
  ELSE IF box.where = "sheet" THEN Record(box.of, "summary", box.words)
  ELSE IF selected = "none" \/ (box.where = "body" /\ box.words = Says(selected, "body")) THEN UNCHANGED kept
  ELSE Record(selected, FieldOf(box.where), box.words)

\* Let go, or left by the keyboard. A box a redraw has ended stays ended.
Leave ==
  /\ leaving \/ box.where # "none"
  /\ leaving' = FALSE /\ box' = Closed
  /\ Keep
  /\ UNCHANGED <<app, card, edits, sent, history>>

-----------------------------------------------------------------------------
(* What the reader presses.                                                  *)

Look(i) ==
  /\ Free /\ opens < MaxOpens
  /\ opens' = opens + 1 /\ calls' = calls \cup {i}
  /\ selected' = i /\ filtered' = FALSE
  /\ crossed' = (crossed \/ calls # {})
  /\ carried' = (carried \/ (card.where # "none" /\ card.of # i))
  /\ UNCHANGED <<draft, unfinished, news, posted, box, leaving, card, edits, kept, sent, typed, cut, under>>

PutAway ==
  /\ Free /\ selected # "none"
  /\ selected' = "none"
  /\ crossed' = (crossed \/ calls # {})
  /\ UNCHANGED <<filtered, draft, unfinished, news, posted, calls, opens, box, leaving, card, edits, kept, sent,
                 typed, cut, carried, under>>

Lens ==
  /\ Free /\ selected # "none"
  /\ filtered' = ~filtered
  /\ UNCHANGED <<selected, draft, unfinished, news, posted, calls, opens, box, leaving, card, edits, kept, sent, history>>

\* A finding's Edit, or the gutter's, over whatever shows the same finding or line.
EditCard ==
  /\ Opening /\ Free /\ selected # "none" /\ selected \notin posted
  /\ card' = [where |-> "body", of |-> selected, words |-> Says(selected, "card")]
  /\ cut' = cut \cup GivenUp(card.words)
  /\ UNCHANGED <<app, box, leaving, kept, sent, typed, crossed, carried, under>>

TypeCard ==
  /\ Free /\ card.where # "none" /\ selected # "none" /\ Len(typed) < MaxWords
  /\ typed' = Append(typed, <<selected, "card">>)
  /\ card' = [card EXCEPT !.words = Writing(Len(typed'))]
  /\ UNCHANGED <<app, box, leaving, edits, kept, sent, cut, crossed, carried, under>>

SaveCard ==
  /\ Free /\ card.where # "none" /\ selected # "none" /\ selected \notin posted
  /\ Record(selected, "card", card.words)
  /\ card' = Closed
  /\ UNCHANGED <<app, box, leaving, edits, sent, history>>

CancelCard ==
  /\ Free /\ card.where # "none"
  /\ cut' = cut \cup GivenUp(card.words) /\ card' = Closed
  /\ UNCHANGED <<app, box, leaving, edits, kept, sent, typed, crossed, carried, under>>

\* The kept changes instead of the reader's body.
ResetBody ==
  /\ Free /\ selected # "none" /\ selected \notin posted /\ kept[selected]["body"] # Silent
  /\ cut' = cut \cup GivenUp(kept[selected]["body"])
  /\ Record(selected, "body", Silent)
  /\ UNCHANGED <<app, box, leaving, card, edits, sent, typed, crossed, carried, under>>

Post ==
  /\ Free /\ selected # "none" /\ selected \notin posted
  /\ posted' = posted \cup {selected}
  /\ sent' = [sent EXCEPT ![selected] = Says(selected, "summary")]
  /\ UNCHANGED <<selected, filtered, draft, unfinished, news, calls, opens, box, leaving, card, edits, kept, history>>

Next ==
  \/ \E i \in Item : Redraft(i) \/ PostedElsewhere(i) \/ Loaded(i) \/ Look(i)
  \/ \E where \in {"summary", "body", "sheet"} : OpenBox(where)
  \/ TypeIn \/ PressAway \/ Leave
  \/ PutAway \/ Lens \/ EditCard \/ TypeCard \/ SaveCard \/ CancelCard \/ ResetBody \/ Post

Spec == Init /\ [][Next]_vars

-----------------------------------------------------------------------------
(* What must hold.                                                           *)

TypeOK ==
  /\ selected \in Item \cup {"none"} /\ filtered \in BOOLEAN
  /\ draft \in [Item -> 1..MaxDrafts] /\ unfinished \subseteq Item /\ posted \subseteq Item
  /\ news \in 0..MaxNews /\ calls \subseteq Item /\ opens \in 0..MaxOpens
  /\ box \in Box /\ card \in Box /\ leaving \in BOOLEAN /\ edits \in 0..MaxEdits
  /\ kept \in [Item -> [Field -> Words]] /\ sent \in [Item -> Words]
  /\ typed \in Seq(Item \X Field) /\ Len(typed) <= MaxWords /\ cut \subseteq Words
  /\ {crossed, carried, under} \subseteq BOOLEAN

\* The last writing over a field of an item, if any.
Last(i, f) ==
  LET over == {n \in DOMAIN typed : typed[n] = <<i, f>>}
  IN  IF over = {} THEN Silent ELSE Writing(CHOOSE n \in over : \A m \in over : m <= n)

InHand(i, f) == IF f = "card" THEN card.words ELSE IF box.of = i THEN box.words ELSE Silent

\* Unless an item was opened over an opening under way or over a half-written
\* card: what was last typed over an item is in its box, recorded for it, or
\* given up in sight of the reader, and is recorded for nothing else; a body
\* nobody typed in is recorded only if the draft was rewritten under its box;
\* and what was sent is what was last typed (view.js, "Leaving the summary is
\* what keeps it"; description-pane.js, "An untouched box records nothing").
WordsStay ==
  ~crossed => \A i \in Item : \A f \in Field :
    LET w == kept[i][f]
    IN  \/ f = "card" /\ carried
        \/ /\ Typed(w) => typed[w - MaxDrafts] = <<i, f>>
           /\ Last(i, f) \in {Silent, w, InHand(i, f)} \cup cut
           /\ f = "body" => w = Silent \/ Typed(w) \/ under
           /\ f = "summary" /\ Typed(sent[i]) => sent[i] = w
===============================================================================
