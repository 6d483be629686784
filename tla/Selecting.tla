------------------------------ MODULE Selecting ------------------------------
(* Opening a pull request or an issue (web/src/app/app.js select and         *)
(* _loadDrift): the pane is emptied, the draft is read, the destination is   *)
(* asked for everything at once, and then for what moved since. Each await   *)
(* comes back to the app's own fields, whatever the reader opened meanwhile. *)
EXTENDS Naturals, FiniteSets

CONSTANTS
  Pull, Issue,   \* what is on the queue
  Rewritten,     \* those whose draft proposes a body
  MaxOpens,      \* times one is opened or put away
  MaxRefusals    \* answers the destination refuses

Item == Pull \cup Issue

Bounds ==
  /\ Pull \cap Issue = {} /\ "none" \notin Item /\ Rewritten \subseteq Item
  /\ {MaxOpens, MaxRefusals} \subseteq Nat

VARIABLES
  selected,   \* the item the pane is of
  pane,       \* by field, whose it is
  trouble,    \* what the pane says could not be fetched: the diff, the body
  calls,      \* openings not yet at their end
  opens, refusals,
  posted,     \* reviews sent: the item, whose head commit each names, and what was crossed (history)
  crossed     \* items whose openings met since one last ran alone: an item was
              \* opened or put away over an opening under way (history)

vars == <<selected, pane, trouble, calls, opens, refusals, posted, crossed>>

Some == Item \cup {"none"}
Field == {"files", "head", "issue", "drift"}
Empty == [f \in Field |-> "none"]

Init ==
  /\ selected = "none" /\ pane = Empty /\ trouble = {} /\ calls = {}
  /\ opens = 0 /\ refusals = 0 /\ posted = {} /\ crossed = {}

Call == [id : 1..MaxOpens, item : Item, step : {"load", "ask", "drift"}]

Started(item) ==
  /\ opens < MaxOpens
  /\ opens' = opens + 1
  /\ crossed' = IF calls = {} THEN {} ELSE crossed \cup {item} \cup {c.item : c \in calls}

\* Mutant: what the last one left stays until it is replaced.
KeepsPane == pane
Emptied == Empty

Select(item) ==
  /\ Started(item)
  /\ selected' = item /\ pane' = Emptied /\ trouble' = {}
  /\ calls' = calls \cup {[id |-> opens + 1, item |-> item, step |-> "load"]}
  /\ UNCHANGED <<refusals, posted>>

\* Dismissed, or the source was left.
PutAway ==
  /\ selected # "none"
  /\ Started(selected)
  /\ selected' = "none"
  /\ UNCHANGED <<pane, trouble, calls, refusals, posted>>

Moved(c, step) == calls' = (calls \ {c}) \cup {[c EXCEPT !.step = step]}

\* The draft is in; what was asked for is what is selected, once more.
Loaded(c) ==
  /\ c.step = "load"
  /\ selected' = c.item
  /\ Moved(c, "ask")
  /\ UNCHANGED <<pane, trouble, opens, refusals, posted, crossed>>

\* An issue has no diff and no head commit; a pull request's body is only
\* wanted when its draft rewrites it.
Wanted(item) ==
  (IF item \in Issue THEN {} ELSE {"files", "head"})
    \cup (IF item \in Issue \cup Rewritten THEN {"issue"} ELSE {})

\* What was not asked for answers nothing: no files, and no body.
Filled(item, refused) == [f \in Field |->
  IF f \in Wanted(item) \ refused THEN item
  ELSE IF f = "issue" /\ f \notin refused THEN "none"
  ELSE IF f = "files" /\ item \in Issue THEN "none"
  ELSE pane[f]]

Told(refused) ==
  {t \in {"diff", "body"} :
     IF t = "diff" THEN refused \cap {"files", "head"} # {} ELSE "issue" \in refused}

\* With nothing selected any more, looking for drift ends in an error.
Answered(c) == \E refused \in SUBSET Wanted(c.item) :
  /\ c.step = "ask"
  /\ refusals + Cardinality(refused) <= MaxRefusals
  /\ refusals' = refusals + Cardinality(refused)
  /\ pane' = Filled(c.item, refused)
  /\ trouble' = Told(refused)
  /\ \/ selected # "none" /\ Moved(c, "drift")
     \/ calls' = calls \ {c}
  /\ UNCHANGED <<selected, opens, posted, crossed>>

Drifted(c) ==
  /\ c.step = "drift"
  /\ calls' = calls \ {c}
  /\ \/ pane' = [pane EXCEPT !["drift"] = c.item] /\ UNCHANGED refusals
     \/ refusals < MaxRefusals /\ refusals' = refusals + 1 /\ pane' = [pane EXCEPT !["drift"] = "none"]
  /\ UNCHANGED <<selected, trouble, opens, posted, crossed>>

\* A review names the head commit the pane holds.
Post ==
  /\ selected \in Pull /\ pane["head"] # "none"
  /\ posted' = posted \cup {[of |-> selected, at |-> pane["head"], over |-> crossed]}
  /\ UNCHANGED <<selected, pane, trouble, calls, opens, refusals, crossed>>

Next ==
  \/ PutAway \/ Post
  \/ \E item \in Item : Select(item)
  \/ \E c \in calls : Loaded(c) \/ Answered(c) \/ Drifted(c)

Spec == Init /\ [][Next]_vars

-----------------------------------------------------------------------------
(* What must hold.                                                           *)

TypeOK ==
  /\ selected \in Some /\ pane \in [Field -> Some] /\ trouble \subseteq {"diff", "body"}
  /\ calls \subseteq Call /\ opens \in 0..MaxOpens /\ refusals \in 0..MaxRefusals
  /\ posted \subseteq [of : Pull, at : Some, over : SUBSET Item] /\ crossed \subseteq Item

Troubled(f) == (IF f = "issue" THEN "body" ELSE "diff") \in trouble

\* The pane shows nothing of an item but the one selected, and a review names
\* that one's commit; where openings met, what is shown and named is of one of
\* those that did, and the next opening that runs alone makes it right. Once such
\* an opening has ended what is missing is said to be (app.js select, "silence
\* here reads as a fact about the pull request").
PaneIsOfSelected ==
  /\ selected # "none" => \A f \in Field : pane[f] \in {"none", selected} \cup crossed
  /\ \A p \in posted : p.at \in {p.of} \cup p.over
  /\ selected # "none" /\ calls = {} /\ crossed = {} =>
       \A f \in Wanted(selected) : pane[f] = selected \/ Troubled(f)
===============================================================================
