--------------------------------- MODULE Panel ---------------------------------
(* The settings panel: one form for a source, one for a destination, and the *)
(* selection that says which of them shows what. A row's form comes after a  *)
(* read of the keychain, a save after the storage or the host has answered;  *)
(* what comes then replaces a form, whatever is in it by that time. What a   *)
(* save does is Settings' and Accounts'.                                     *)
EXTENDS Naturals

CONSTANTS
  Source, Destination,   \* the rows there may be
  Call,                  \* what the panel waits for at once
  MaxAsks, MaxWords

Bounds == {MaxAsks, MaxWords} \subseteq Nat

VARIABLES
  visible,
  listed, gone, stored,   \* the rows there are and were, and what is recorded of each
  setup,                  \* by kind, the form
  settingsSelection,
  call, asks, words,
  owed,                   \* what was typed and is neither saved nor given up (history)
  chosen,                 \* what the reader chose to see last (history)
  crossed,                \* an answer came after the reader had gone on (history)
  swept                   \* words in the form behind went with the one in front (history)

bounds == <<asks, words>>
history == <<owed, chosen, crossed, swept>>
vars == <<visible, listed, gone, stored, setup, settingsSelection, call, bounds, history>>

Row == Source \cup Destination
Kinds == {"source", "destination"}
Kind(r) == IF r \in Source THEN "source" ELSE "destination"
Other(k) == CHOOSE o \in Kinds : o # k
Here(k) == {r \in listed : Kind(r) = k}

\* A form holds one text: what was typed last, or what was recorded when its
\* row was looked up. A blank one is of no row.
New == "new"
Blank == [of |-> New, text |-> 0]
NoForms == [k \in Kinds |-> Blank]
NoRow == [kind |-> "none"]
RowOf(r) == [kind |-> Kind(r), id |-> r]
Adding(k) == [kind |-> "add", adding |-> k]

Front(k) == settingsSelection.kind = k \/ settingsSelection = Adding(k)
Shown(k) == visible /\ Front(k)
Editing(k) == setup[k].of # New
Dirty(k) == Editing(k) /\ setup[k].text # stored[setup[k].of]
Teaching == listed = {} /\ settingsSelection.kind # "add"

Idle == [pc |-> "idle"]
Is(c, pc) == call[c].pc = pc
Becomes(c, to) == call' = [call EXCEPT ![c] = to]

Init ==
  /\ visible = FALSE
  /\ listed \in SUBSET Row /\ gone = {} /\ stored = [r \in Row |-> 0]
  /\ setup = NoForms /\ settingsSelection = NoRow
  /\ call = [c \in Call |-> Idle]
  /\ asks = 0 /\ words = 0
  /\ owed = {} /\ chosen = NoRow /\ crossed = FALSE /\ swept = FALSE

\* Whatever the reader does, what is under way began before it.
Passed(o) == IF o.pc = "idle" THEN o ELSE [o EXCEPT !.since = TRUE]
Acts == call' = [c \in Call |-> Passed(call[c])]
Starts(c, to) ==
  /\ call[c].pc = "idle" /\ asks < MaxAsks /\ asks' = asks + 1
  /\ call' = [o \in Call |-> IF o = c THEN to ELSE Passed(call[o])]
Lands(c) == Becomes(c, Idle) /\ crossed' = (crossed \/ call[c].since)

\* The record is read before the wait for the keychain.
Focusing(r, text, opens) == [pc |-> "focus", of |-> r, text |-> text, opens |-> opens, since |-> FALSE]

-----------------------------------------------------------------------------
(* The panel, and what it shows.                                             *)

\* Opened on nothing it rests on what is being read, or on who posts, if any.
OpenSetup(c) ==
  /\ ~visible /\ visible' = TRUE
  /\ \/ /\ settingsSelection = NoRow
        /\ \E r \in IF Here("source") # {} THEN Here("source") ELSE listed :
             Starts(c, Focusing(r, stored[r], FALSE)) /\ chosen' = RowOf(r)
     \/ (settingsSelection = NoRow => Here("source") = {}) /\ Acts /\ UNCHANGED <<asks, chosen>>
  /\ UNCHANGED <<listed, gone, stored, setup, settingsSelection, words, owed, crossed, swept>>

\* The pane's way to correct the source it could not read.
EditSource(c) ==
  /\ ~visible
  /\ \E r \in Here("source") : Starts(c, Focusing(r, stored[r], TRUE)) /\ chosen' = RowOf(r)
  /\ UNCHANGED <<visible, listed, gone, stored, setup, settingsSelection, words, owed, crossed, swept>>

CloseSetup ==
  /\ visible /\ visible' = FALSE
  /\ UNCHANGED <<listed, gone, stored, setup, settingsSelection, call, bounds, history>>

ClickRow(c, r) ==
  /\ visible /\ r \in listed
  /\ Starts(c, Focusing(r, stored[r], FALSE))
  /\ chosen' = RowOf(r)
  /\ UNCHANGED <<visible, listed, gone, stored, setup, settingsSelection, words, owed, crossed, swept>>

\* Only the form of this kind is replaced, and its words were given up by asking.
Focused(c) ==
  /\ Is(c, "focus")
  /\ LET r == call[c].of IN
     /\ setup' = [setup EXCEPT ![Kind(r)] = [of |-> r, text |-> call[c].text]]
     /\ settingsSelection' = RowOf(r)
     /\ owed' = IF call[c].since THEN owed ELSE owed \ {setup[Kind(r)].text}
  /\ visible' = (visible \/ call[c].opens)
  /\ Lands(c)
  /\ UNCHANGED <<listed, gone, stored, bounds, chosen, swept>>

NotFocused(c) ==
  /\ Is(c, "focus")
  /\ chosen' = settingsSelection
  /\ Lands(c)
  /\ UNCHANGED <<visible, listed, gone, stored, setup, settingsSelection, bounds, owed, swept>>

\* Both forms are blank after; only the one in front was looked at.
Drops ==
  /\ setup' = NoForms
  /\ owed' = owed \ {setup[k].text : k \in {f \in Kinds : Front(f)}}
  /\ swept' = (swept \/ \E k \in Kinds : ~Front(k) /\ setup[k].text \in owed)

StartAdd(k) ==
  /\ visible /\ (Teaching \/ k = "source")
  /\ Drops
  /\ settingsSelection' = Adding(k) /\ chosen' = Adding(k)
  /\ Acts
  /\ UNCHANGED <<visible, listed, gone, stored, bounds, crossed>>

\* The other half's form is as it was left.
ChooseKind(k) ==
  /\ visible /\ settingsSelection = Adding(Other(k))
  /\ settingsSelection' = Adding(k) /\ chosen' = Adding(k)
  /\ Acts
  /\ UNCHANGED <<visible, listed, gone, stored, setup, bounds, owed, crossed, swept>>

-----------------------------------------------------------------------------
(* A form.                                                                   *)

TypeIn(k) ==
  /\ Shown(k) /\ words < MaxWords
  /\ words' = words + 1
  /\ setup' = [setup EXCEPT ![k].text = words']
  /\ owed' = (owed \ {setup[k].text}) \cup {words'}
  /\ Acts
  /\ UNCHANGED <<visible, listed, gone, stored, settingsSelection, asks, chosen, crossed, swept>>

CancelAdd(k) ==
  /\ Shown(k) /\ ~Editing(k)
  /\ Drops
  /\ settingsSelection' = NoRow /\ chosen' = NoRow
  /\ Acts
  /\ UNCHANGED <<visible, listed, gone, stored, bounds, crossed>>

CancelEdit(c, k) ==
  /\ Shown(k) /\ Dirty(k)
  /\ Starts(c, Focusing(setup[k].of, stored[setup[k].of], FALSE))
  /\ UNCHANGED <<visible, listed, gone, stored, setup, settingsSelection, words, history>>

Done(k) == Shown(k) /\ Editing(k) /\ ~Dirty(k) /\ CloseSetup

\* What is sent is what the form holds at the press. Nothing stops a second one.
Save(c, k) ==
  /\ Shown(k) /\ (Editing(k) => Dirty(k))
  /\ Starts(c, [pc |-> "save", kind |-> k, of |-> setup[k].of, text |-> setup[k].text, since |-> FALSE])
  /\ UNCHANGED <<visible, listed, gone, stored, setup, settingsSelection, words, history>>

LooksUp(c, r) == Becomes(c, [Focusing(r, call[c].text, FALSE) EXCEPT !.since = call[c].since])

\* Then the record is looked up again.
SavedEdit(c) ==
  /\ Is(c, "save") /\ call[c].of # New
  /\ stored' = [stored EXCEPT ![call[c].of] = call[c].text]
  /\ LooksUp(c, call[c].of)
  /\ owed' = owed \ {call[c].text}
  /\ UNCHANGED <<visible, listed, gone, setup, settingsSelection, bounds, chosen, crossed, swept>>

\* One with nothing typed is refused. With the other half missing the panel
\* goes on to it, with both forms blank.
SavedAdd(c) ==
  /\ Is(c, "save") /\ call[c].of = New /\ call[c].text # Blank.text
  /\ LET k == call[c].kind IN
     \E r \in Row \ (listed \cup gone) :
       /\ Kind(r) = k
       /\ listed' = listed \cup {r} /\ stored' = [stored EXCEPT ![r] = call[c].text]
       /\ IF Here(Other(k)) = {}
          THEN Drops /\ settingsSelection' = Adding(Other(k)) /\ chosen' = Adding(Other(k)) /\ Lands(c)
          ELSE /\ LooksUp(c, r) /\ chosen' = RowOf(r) /\ owed' = owed \ {call[c].text}
               /\ UNCHANGED <<setup, settingsSelection, crossed, swept>>
  /\ UNCHANGED <<visible, gone, bounds>>

\* Nothing was saved, so nothing is cleared.
NotSaved(c) ==
  /\ Is(c, "save")
  /\ Lands(c)
  /\ UNCHANGED <<visible, listed, gone, stored, setup, settingsSelection, bounds, owed, chosen, swept>>

Remove(c, k) ==
  /\ Shown(k) /\ Editing(k) /\ setup[k].of \in listed
  /\ Starts(c, [pc |-> "remove", of |-> setup[k].of, since |-> FALSE])
  /\ UNCHANGED <<visible, listed, gone, stored, setup, settingsSelection, words, history>>

Removed(c) ==
  /\ Is(c, "remove")
  /\ listed' = listed \ {call[c].of} /\ gone' = gone \cup {call[c].of}
  /\ Drops
  /\ settingsSelection' = NoRow /\ chosen' = NoRow
  /\ Lands(c)
  /\ UNCHANGED <<visible, stored, bounds>>

NotRemoved(c) ==
  /\ Is(c, "remove")
  /\ Lands(c)
  /\ UNCHANGED <<visible, listed, gone, stored, setup, settingsSelection, bounds, owed, chosen, swept>>

Next ==
  \/ CloseSetup
  \/ \E k \in Kinds : StartAdd(k) \/ ChooseKind(k) \/ TypeIn(k) \/ CancelAdd(k) \/ Done(k)
  \/ \E c \in Call :
       \/ OpenSetup(c) \/ EditSource(c) \/ Focused(c) \/ NotFocused(c)
       \/ SavedEdit(c) \/ SavedAdd(c) \/ NotSaved(c) \/ Removed(c) \/ NotRemoved(c)
       \/ \E r \in Row : ClickRow(c, r)
       \/ \E k \in Kinds : CancelEdit(c, k) \/ Save(c, k) \/ Remove(c, k)

Spec == Init /\ [][Next]_vars

-----------------------------------------------------------------------------
(* What must hold.                                                           *)

\* A form that is marked is of the row that is marked.
TypeOK ==
  /\ listed \subseteq Row /\ gone \subseteq Row \ listed /\ stored \in [Row -> 0..MaxWords]
  /\ \A k \in Kinds : setup[k].of = New \/ Kind(setup[k].of) = k
  /\ settingsSelection.kind \in Kinds => setup[settingsSelection.kind].of = settingsSelection.id
  /\ asks \in 0..MaxAsks /\ words \in 0..MaxWords

\* What the reader typed stays in its form until it is saved or they let go of
\* it, through refused saves, closing the panel and looking at the other half,
\* unless an answer came after they had gone on or it was in the form behind
\* when both were blanked (header.js saveSource, saveDestination).
TypedStays == crossed \/ swept \/ owed \subseteq {setup[k].text : k \in Kinds}

\* At rest the panel shows what the reader chose last, and what is in a form
\* nobody typed in is what is recorded (header.js focusSource, focusDestination).
PanelIsOfChosen ==
  \/ crossed \/ \E c \in Call : ~Is(c, "idle")
  \/ /\ settingsSelection = chosen
     /\ \A k \in Kinds : Editing(k) => setup[k].text \in owed \cup {stored[setup[k].of]}
===============================================================================
