------------------------------- MODULE Recordings -------------------------------
(* The recordings of a QA scenario, on the page: each is read through the    *)
(* storage, held as an object URL across the redraws that replace every      *)
(* element, and given back once a redraw has done without it. The evidence   *)
(* is drawn twice, at the end of the summary and in a tab of its own.        *)
EXTENDS Naturals, FiniteSets

CONSTANTS
  Recording,     \* what a recording is held under: its draft's stamp and its path
  MaxReads       \* reads of a recording from the storage

Bounds == MaxReads \in Nat

VARIABLES
  open,          \* the recording of the item that is open, if it has one
  filtered,      \* a lens or a theme is on, and the summary shows no recordings
  held,          \* by recording, the entry that owns its URL
  page,          \* by pane, the element that is there
  reads,         \* reads under way, each over the element that began it
  begun,
  alive,         \* object URLs that hold their bytes
  cut, taken     \* entries let go before their recording came, or by a later one's end (history)

vars == <<open, filtered, held, page, reads, begun, alive, cut, taken>>

None == "none"
Pane == {"summary", "qa"}
Gone == "gone"

NotHeld == [read |-> 0, url |-> 0, used |-> FALSE]
Blank == [of |-> None, url |-> 0, says |-> None, late |-> FALSE]
IsHeld(r) == held[r].read # 0

\* A link the storage streams from holds nothing; only a URL made here does.
Link == MaxReads + 1

Init ==
  /\ open = None /\ filtered = FALSE
  /\ held = [r \in Recording |-> NotHeld]
  /\ page = [x \in Pane |-> Blank]
  /\ reads = {} /\ begun = 0 /\ alive = {}
  /\ cut = {} /\ taken = {}

-----------------------------------------------------------------------------
(* A redraw: what the last one did not use is given back, then every pane is *)
(* made anew.                                                                *)

Keeps(h) == {r \in Recording : h[r].used}

\* The URLs that are given back: an entry whose read is under way has none.
Released == {held[r].url : r \in {r \in Recording : IsHeld(r) /\ r \notin Keeps(held)}} \ {0}

releaseMedia ==
  [r \in Recording |-> IF r \in Keeps(held) THEN [held[r] EXCEPT !.used = FALSE] ELSE NotHeld]

\* The panes a recording is drawn in.
Drawn(r, lens) == IF r = None THEN {} ELSE IF lens THEN {"qa"} ELSE Pane

\* The first of them begins the read when nothing is held yet; whatever is
\* drawn while it runs has no URL to show.
recording(r, lens) ==
  LET kept == releaseMedia
      first == IF lens THEN "qa" ELSE "summary"
      fresh == r # None /\ kept[r].read = 0
      id == begun + 1 IN
  /\ fresh => begun < MaxReads
  /\ held' = IF r = None THEN kept
             ELSE [kept EXCEPT ![r] = IF fresh THEN [read |-> id, url |-> 0, used |-> TRUE]
                                               ELSE [@ EXCEPT !.used = TRUE]]
  /\ begun' = IF fresh THEN id ELSE begun
  /\ reads' = {[read EXCEPT !.on = Gone] : read \in reads} \cup
              (IF fresh THEN {[id |-> id, of |-> r, on |-> first]} ELSE {})
  /\ page' = [x \in Pane |->
       IF x \notin Drawn(r, lens) THEN Blank
       ELSE [of |-> r, url |-> kept[r].url, says |-> None, late |-> ~(fresh /\ x = first) /\ kept[r].url = 0]]

Draw(r, lens) ==
  /\ recording(r, lens)
  /\ open' = r /\ filtered' = lens
  /\ alive' = alive \ Released
  /\ cut' = cut \cup {held[s].read : s \in {s \in Recording : IsHeld(s) /\ held[s].url = 0 /\ s \notin Keeps(held)}}
  /\ UNCHANGED taken

\* Anything that moves redraws everything.
Redraw == Draw(open, filtered)

\* Another item, a redraft of this one, or none.
Open == \E r \in (Recording \cup {None}) \ {open} : Draw(r, FALSE)

ToggleFilter == open # None /\ Draw(open, ~filtered)

-----------------------------------------------------------------------------
(* A read ends.                                                              *)

Owns(read) == held[read.of].read = read.id

Shows(read, element) == IF read.on = Gone THEN page ELSE [page EXCEPT ![read.on] = element]

\* The entry owns the URL even when its drawing has been replaced; an entry
\* that was let go owns it too, and nothing reaches that one again.
Comes(read, url) ==
  /\ read \in reads /\ reads' = reads \ {read}
  /\ held' = IF Owns(read) THEN [held EXCEPT ![read.of].url = url] ELSE held
  /\ page' = Shows(read, [page[read.on] EXCEPT !.url = url])
  /\ UNCHANGED <<open, filtered, begun, cut, taken>>

Media == \E read \in reads : Comes(read, read.id) /\ alive' = alive \cup {read.id}

Streamed == \E read \in reads : Comes(read, Link) /\ UNCHANGED alive

\* Missing, or not to be read: the entry under that name goes, whoever's it is
\* by now.
Fails ==
  \E read \in reads, says \in {"missing", "unread"} :
    /\ reads' = reads \ {read}
    /\ held' = [held EXCEPT ![read.of] = NotHeld]
    /\ taken' = taken \cup (IF Owns(read) THEN {} ELSE {held[read.of].read} \ {0})
    /\ page' = Shows(read, [of |-> read.of, url |-> 0, says |-> says, late |-> FALSE])
    /\ UNCHANGED <<open, filtered, begun, alive, cut>>

Next == Redraw \/ Open \/ ToggleFilter \/ Media \/ Streamed \/ Fails

Spec == Init /\ [][Next]_vars

-----------------------------------------------------------------------------
Id == 0..MaxReads
Url == 0..Link

TypeOK ==
  /\ open \in Recording \cup {None} /\ filtered \in BOOLEAN
  /\ held \in [Recording -> [read : Id, url : Url, used : BOOLEAN]]
  /\ page \in [Pane -> [of : Recording \cup {None}, url : Url, says : {None, "missing", "unread"}, late : BOOLEAN]]
  /\ reads \subseteq [id : Id, of : Recording, on : Pane \cup {Gone}]
  /\ begun \in Id /\ {alive, cut, taken} \subseteq SUBSET Id

\* An object URL that holds its bytes is owned by an entry, which is what gives
\* it back, unless the entry was let go before the recording came, or went with
\* another read of the same recording that failed.
GivenBack ==
  alive \subseteq {held[r].url : r \in Recording} \cup cut \cup taken

\* What is on the page has not been given back.
NoneShownGone ==
  \A x \in Pane : page[x].url \in alive \cup {0, Link}

\* An empty recording on the page is still being read, unless it was drawn over
\* a read that another drawing had begun.
NoneStaysEmpty ==
  \A x \in Pane :
    LET shown == page[x] IN
    shown.of # None /\ shown.url = 0 /\ shown.says = None /\ ~shown.late =>
      \E read \in reads : read.on = x
=================================================================================
